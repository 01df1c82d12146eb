------------------------------ MODULE Sections ------------------------------
(* The section store of section.c over several passes, driven by any         *)
(* sequence of the operations the assembler performs on it.  Which operation *)
(* comes next is left open, from one pass to the next too: conditional       *)
(* assembly may change a program's course between passes.                    *)
EXTENDS SectionOps

CONSTANTS
    First,          \* "CODE", selected as each pass begins
    MaxPasses,      \* asm6809_options.max_passes
    MaxEmit,        \* the most bytes one call of section_emit() writes
    Addresses,      \* operands of ORG and PUT
    Counts,         \* operands of RMB
    MaxOps          \* bound on the operations of one pass

ASSUME SectionsConstants ==
    /\ First \in SectionNames
    /\ MaxPasses \in Nat \ {0}
    /\ MaxEmit \in 1 .. AllocStep
    /\ Addresses \subseteq Int
    /\ Counts \subseteq Int
    /\ MaxOps \in Nat

VARIABLES
    sections,       \* the dictionary of named sections
    cur,            \* cur_section, by name
    sequence,       \* span_sequence
    pass,
    open,           \* the pass is running
    level,          \* error_level
    ops,            \* operations left in this pass (bounds the model)
    begunIn         \* history: the pass each span was begun in, by its number

vars == <<sections, cur, sequence, pass, open, level, ops, begunIn>>

(* section_set("CODE", pass) before any pass has selected it finds no        *)
(* current section; starting from "First" in no pass amounts to the same.    *)
Init ==
    /\ sections = [n \in SectionNames |-> NewSection]
    /\ cur = First
    /\ sequence = 0
    /\ pass = NoPass
    /\ open = FALSE
    /\ level = None
    /\ ops = 0
    /\ begunIn = <<>>

Select(n, p) ==
    /\ sections' = [sections EXCEPT ![n] =
                        Selected(@, p, StartAfter(sections[cur], p))]
    /\ cur' = n

(* The head of main()'s loop.                                                *)
BeginPass ==
    /\ ~open
    /\ pass + 1 < MaxPasses
    /\ pass = NoPass \/ level = Inconsistent
    /\ pass' = pass + 1
    /\ Select(First, pass + 1)
    /\ open' = TRUE
    /\ level' = None
    /\ ops' = MaxOps
    /\ UNCHANGED <<sequence, begunIn>>

Operation ==
    /\ open
    /\ ops > 0
    /\ ops' = ops - 1
    /\ UNCHANGED <<pass, open>>

SetSection(n) ==
    /\ Operation
    /\ Select(n, pass)
    /\ UNCHANGED <<sequence, level, begunIn>>

Emit(nbytes) ==
    LET s == sections[cur]
    IN  /\ Operation
        /\ sections' = [sections EXCEPT ![cur] = Emitted(s, nbytes, sequence)]
        /\ sequence' = IF OpensSpan(s) THEN sequence + 1 ELSE sequence
        /\ begunIn' = IF OpensSpan(s) THEN Append(begunIn, pass) ELSE begunIn
        /\ level' = Raise(level, EmitError(s, nbytes))
        /\ UNCHANGED cur

(* pseudo_rmb(): a negative count is refused, any other is skipped.          *)
Reserved(s, count) == IF count < 0 THEN s ELSE Skipped(s, count)
ReserveError(count) == IF count < 0 THEN OutOfRange ELSE None

Rmb(count) ==
    /\ Operation
    /\ sections' = [sections EXCEPT ![cur] = Reserved(@, count)]
    /\ level' = Raise(level, ReserveError(count))
    /\ UNCHANGED <<cur, sequence, begunIn>>

Org(addr) ==
    /\ Operation
    /\ sections' = [sections EXCEPT ![cur] = Orged(@, addr)]
    /\ UNCHANGED <<cur, sequence, level, begunIn>>

Put(addr) ==
    /\ Operation
    /\ sections' = [sections EXCEPT ![cur] = PutAt(@, addr)]
    /\ level' = Raise(level, PutError(addr))
    /\ UNCHANGED <<cur, sequence, begunIn>>

FinishPass ==
    /\ open
    /\ sections' = FinishedSections(sections)
    /\ level' = Raise(level, FinishError(sections))
    /\ open' = FALSE
    /\ UNCHANGED <<cur, sequence, pass, ops, begunIn>>

Next ==
    \/ BeginPass
    \/ \E n \in SectionNames : SetSection(n)
    \/ \E k \in 1 .. MaxEmit : Emit(k)
    \/ \E c \in Counts : Rmb(c)
    \/ \E a \in Addresses : Org(a) \/ Put(a)
    \/ FinishPass

Spec == Init /\ [][Next]_vars

-----------------------------------------------------------------------------
Span == [sequence : Nat, org : Int, put : Nat, size : Nat, allocated : Nat]

Section ==
    [spans : Seq(Span), pass : Nat \cup {NoPass}, pc : Int, put : Nat,
     dp : Int, last_pc : Int, last_put : Nat]

(* Every variable keeps its type; put addresses in particular, unsigned in   *)
(* the code, never go below zero, whatever ORG and PUT are given.            *)
TypeOK ==
    /\ sections \in [SectionNames -> Section]
    /\ cur \in SectionNames
    /\ sequence \in Nat
    /\ pass \in Nat \cup {NoPass}
    /\ open \in BOOLEAN
    /\ level \in ErrorTypes
    /\ ops \in Nat
    /\ begunIn \in Seq(Nat) /\ Len(begunIn) = sequence

(* No write past a span's buffer: section_emit() enlarges the buffer by one  *)
(* step only, on a test made before the bytes are copied, and that always    *)
(* leaves room for what it then copies.  No span is left empty.              *)
BufferSuffices ==
    \A n \in SectionNames : \A i \in DOMAIN sections[n].spans :
        LET span == sections[n].spans[i]
        IN  0 < span.size /\ span.size <= span.allocated

(* Spans are as long as they can be: a span never begins exactly where, in   *)
(* both addresses, the span before it in the section ended.                  *)
SpansMaximal ==
    \A n \in SectionNames : LET spans == sections[n].spans IN
        \A i \in 1 .. Len(spans) - 1 :
            \/ spans[i + 1].put # NextPut(spans[i])
            \/ spans[i + 1].org # NextPc(spans[i])

(* Spans are numbered in the order they were begun, within a section and     *)
(* between sections, so that span_cmp() never meets two spans it cannot      *)
(* order: it answers 1 both ways for equal numbers.                          *)
SpansOrdered ==
    \A n \in SectionNames : LET spans == sections[n].spans IN
        /\ \A i \in DOMAIN spans : spans[i].sequence < sequence
        /\ \A i, j \in DOMAIN spans :
               i < j => spans[i].sequence < spans[j].sequence
        /\ \A m \in SectionNames \ {n} :
               \A i \in DOMAIN spans : \A j \in DOMAIN sections[m].spans :
                   spans[i].sequence # sections[m].spans[j].sequence

(* No section is ahead of the running pass, and the current one is in it.    *)
PassesInOrder ==
    /\ open => pass # NoPass /\ sections[cur].pass = pass
    /\ \A n \in SectionNames : sections[n].pass <= pass

(* Every span a section holds was begun in the pass the section was last     *)
(* selected in: none is kept over to a later pass.                           *)
SpansOfOnePass ==
    \A n \in SectionNames : \A i \in DOMAIN sections[n].spans :
        begunIn[sections[n].spans[i].sequence + 1] = sections[n].pass

(* The spans of all sections are maximal, ordered and all begun in the pass  *)
(* their section was last selected in, as coalescing and the listing rely    *)
(* on, whatever ORG, PUT, RMB, changes of section and passes came between    *)
(* two writes; of section_emit() (section.c:240) and section_set()           *)
(* (section.c:117).                                                          *)
SpansWellFormed == SpansMaximal /\ SpansOrdered /\ PassesInOrder /\ SpansOfOnePass

-----------------------------------------------------------------------------
(* The spans of a section hold exactly the bytes assembled into it in the    *)
(* pass it was last selected in, each at the addresses the section stood at  *)
(* when it was assembled: joining bytes into spans loses, repeats and moves  *)
(* none, going back to a section keeps what it holds, and a later pass that  *)
(* selects it starts without.                                                *)
BytesOf(span) ==
    [j \in 1 .. span.size |-> [pc |-> span.org + j - 1, put |-> span.put + j - 1]]

BytesIn(spans) ==
    LET upto[i \in 0 .. Len(spans)] ==
            IF i = 0 THEN <<>> ELSE upto[i - 1] \o BytesOf(spans[i])
    IN  upto[Len(spans)]

Log == INSTANCE SectionLog WITH
    written <- [n \in SectionNames |-> BytesIn(sections[n].spans)],
    place <- [n \in SectionNames |->
                 [pc |-> sections[n].pc, put |-> sections[n].put]],
    of <- [n \in SectionNames |-> sections[n].pass]

ImplementsLog == Log!Spec

=============================================================================
