----------------------------- MODULE SectionOps -----------------------------
(* Operators on one section (section.c): what SECTION, ORG, PUT, RMB and the *)
(* emission of bytes do to the record a named section keeps.  They are pure, *)
(* so that the component specification Sections and the whole-program        *)
(* specification Assembler use the same definitions.                         *)
(*                                                                           *)
(* A span's data is abstracted to its size.  "span", the pointer to the      *)
(* current span, is the last element of "spans", or NULL when there is none: *)
(* both are cleared together, and every span becomes current as it is        *)
(* appended.                                                                 *)
EXTENDS Integers, Sequences, ErrorLevels

CONSTANTS
    SectionNames,   \* the names a program may select
    SetDP,          \* asm6809_options.setdp
    AddrLimit,      \* 0x10000, the size of the address space
    AllocStep       \* 128, the step by which a span's buffer grows

ASSUME SectionConstants ==
    /\ SetDP \in Int
    /\ AddrLimit \in Nat \ {0}
    /\ AllocStep \in Nat \ {0}

NoPass == -1

(* section_new() *)
NewSection ==
    [spans |-> <<>>, pass |-> NoPass, pc |-> 0, put |-> 0, dp |-> SetDP,
     last_pc |-> 0, last_put |-> 0]

(* Wrong versions of operators below, which the runs must refute: a section  *)
(* selected in a new pass that keeps its spans, one that loses them whenever *)
(* it is selected; ...                                                       *)
SelectedKeepingSpans(s, pass, pos) ==
    IF s.pass = pass THEN s
    ELSE [s EXCEPT !.pc = pos.pc, !.put = pos.put, !.pass = pass, !.dp = SetDP]

SelectedAfresh(s, pass, pos) ==
    [s EXCEPT !.spans = <<>>, !.pc = pos.pc, !.put = pos.put,
              !.pass = pass, !.dp = SetDP]

(* section_set(): the section "s" as it is once selected in "pass", when     *)
(* "pos" is the place a section first selected in this pass starts from.     *)
Selected(s, pass, pos) ==
    IF s.pass = pass THEN s
    ELSE [s EXCEPT !.spans = <<>>, !.pc = pos.pc, !.put = pos.put,
                   !.pass = pass, !.dp = SetDP]

(* The place a newly selected section starts from: the last address of the   *)
(* section current before it, as known from the previous pass, if that one   *)
(* has been selected in this pass.                                           *)
StartAfter(current, pass) ==
    IF current.pass = pass
    THEN [pc |-> current.last_pc, put |-> current.last_put]
    ELSE [pc |-> 0, put |-> 0]

NextPut(span) == span.put + span.size
NextPc(span)  == span.org + span.size

CurrentSpan(s) == s.spans[Len(s.spans)]

(* ... a buffer that grows on the section's position before the bytes; ...   *)
FilledLate(span, nbytes, pc) ==
    [span EXCEPT !.allocated = IF pc - nbytes >= span.org + span.allocated
                               THEN @ + AllocStep ELSE @,
                 !.size = @ + nbytes]

(* The current span takes the next byte only if both addresses follow on.    *)
Continues(s) ==
    /\ s.spans # <<>>
    /\ s.put = NextPut(CurrentSpan(s))
    /\ s.pc = NextPc(CurrentSpan(s))

(* The list of spans with one at the section's position ready to be written: *)
(* a new one numbered "seq", or the current one if it is still empty.        *)
Opened(s, seq) ==
    LET n == Len(s.spans)
    IN  CASE Continues(s) -> s.spans
          [] ~Continues(s) /\ s.spans # <<>> /\ CurrentSpan(s).size = 0 ->
               [s.spans EXCEPT ![n].put = s.put, ![n].org = s.pc]
          [] OTHER ->
               Append(s.spans, [sequence |-> seq, org |-> s.pc, put |-> s.put,
                                size |-> 0, allocated |-> 0])

(* A span after nbytes more bytes, which take the section to program counter *)
(* "pc": the buffer grows by one step if it must.                            *)
Filled(span, nbytes, pc) ==
    [span EXCEPT !.allocated = IF pc >= span.org + span.allocated
                               THEN @ + AllocStep ELSE @,
                 !.size = @ + nbytes]

(* section_emit() of nbytes: the section after it, ...                       *)
Emitted(s, nbytes, seq) ==
    LET spans == Opened(s, seq)
        n     == Len(spans)
    IN  [s EXCEPT !.spans = [spans EXCEPT ![n] = Filled(@, nbytes, s.pc + nbytes)],
                  !.pc = @ + nbytes,
                  !.put = @ + nbytes]

(* ... whether it numbered a new span, ...                                   *)
OpensSpan(s) == ~Continues(s) /\ (s.spans = <<>> \/ CurrentSpan(s).size # 0)

(* ... and what it reports.                                                  *)
EmitError(s, nbytes) ==
    IF s.pc < 0 \/ s.pc + nbytes > AddrLimit THEN OutOfRange ELSE None

(* section_skip() *)
Skipped(s, nbytes) == [s EXCEPT !.pc = @ + nbytes, !.put = @ + nbytes]

(* pseudo_org(): a negative address moves the program counter only.          *)
Orged(s, addr) ==
    [s EXCEPT !.pc = addr, !.put = IF addr >= 0 THEN addr ELSE @]

(* ... PUT to whatever address it is given, and a pass that never finds a    *)
(* section's end has moved, or that does not remember where it was put.      *)
PutAnywhere(s, addr) == [s EXCEPT !.put = addr]

NoFinishError(sections) == None

VerifiedPcOnly(s) == [s EXCEPT !.last_pc = s.pc]

(* pseudo_put(): a negative address is refused.                              *)
PutAt(s, addr) == IF addr < 0 THEN s ELSE [s EXCEPT !.put = addr]
PutError(addr) == IF addr < 0 THEN OutOfRange ELSE None

(* verify_section(): both addresses are remembered, but only the program     *)
(* counter is compared.                                                      *)
Unstable(s) == s.last_pc # s.pc
Verified(s) ==
    IF Unstable(s) THEN [s EXCEPT !.last_pc = s.pc, !.last_put = s.put] ELSE s

(* section_finish_pass() over all sections: the sections after it, and what  *)
(* it reports.  A section no pass has selected yet satisfies ~Unstable.      *)
FinishedSections(sections) == [n \in SectionNames |-> Verified(sections[n])]
FinishError(sections) ==
    IF \E n \in SectionNames : Unstable(sections[n]) THEN Inconsistent ELSE None

=============================================================================
