------------------------------ MODULE Listing ------------------------------
(* The listing (listing.c): assemble_prog() notes for each line where it     *)
(* began, how many bytes its handler moved the program counter by, and the   *)
(* span it takes them to be in; listing_print() reads them there once the    *)
(* last pass is over.  Every step is one of Sections or, at the end of a     *)
(* line, none: a handler emits its bytes in as many calls as it likes.       *)
(* Lines of no handler for code or data, always listed without any, are left *)
(* out.                                                                      *)
EXTENDS Sections

VARIABLES
    listing,    \* listing_lines
    doing       \* the line whose handler is emitting bytes, or NoLine

listVars == <<vars, listing, doing>>

NoSpan  == [section |-> First, number |-> 0]
Nothing == [span |-> NoSpan, from |-> 0, count |-> 0]
NoLine  == [kind |-> "none", pc |-> 0, wrote |-> Nothing]

(* section->span                                                             *)
SpanOf(n, s)  == IF s.spans = <<>> THEN NoSpan ELSE [section |-> n, number |-> Len(s.spans)]
Pointed(span) == sections[span.section].spans[span.number]

ListInit == Init /\ listing = <<>> /\ doing = NoLine

(* A line of the listing; "kind" and "wrote", the bytes its handler emitted, *)
(* are history.                                                              *)
Line(kind, pc, nbytes, span, wrote) ==
    [kind |-> kind, pc |-> pc % AddrLimit, nbytes |-> nbytes, span |-> span,
     wrote |-> wrote]

(* The span noted after an instruction's handler, and after a data           *)
(* pseudo-op's, in section n.                                                *)
InstrSpan(n, s) == SpanOf(n, s)

DataSpan(n, s) ==
    IF s.spans # <<>> /\ s.pc = NextPut(CurrentSpan(s)) THEN SpanOf(n, s) ELSE NoSpan

(* listing_free_all()                                                        *)
ListBegin == BeginPass /\ listing' = <<>> /\ UNCHANGED doing

(* The handler of a line emits its first k bytes, ...                        *)
StartLine(kind, k) ==
    LET t == sections'[cur]
    IN  /\ doing = NoLine
        /\ Emit(k)
        /\ doing' = [kind |-> kind, pc |-> sections[cur].pc,
                     wrote |-> [span |-> SpanOf(cur, t), from |-> CurrentSpan(t).size - k,
                                count |-> k]]
        /\ UNCHANGED listing

(* ... k bytes more, ...                                                     *)
GoOn(k) ==
    /\ doing # NoLine
    /\ Emit(k)
    /\ doing' = [doing EXCEPT !.wrote.count = @ + k]
    /\ UNCHANGED listing

(* ... and has done.                                                         *)
EndLine ==
    LET s == sections[cur]
        noted == IF doing.kind = "instr" THEN InstrSpan(cur, s) ELSE DataSpan(cur, s)
    IN  /\ doing # NoLine
        /\ listing' = Append(listing,
               Line(doing.kind, doing.pc, s.pc - doing.pc, noted, doing.wrote))
        /\ doing' = NoLine
        /\ UNCHANGED vars

(* RMB and ALIGN are data pseudo-ops that emit nothing.                      *)
ReserveLine(count) ==
    LET s == sections[cur]
        t == sections'[cur]
    IN  /\ doing = NoLine
        /\ Rmb(count)
        /\ listing' = Append(listing,
               Line("data", s.pc, t.pc - s.pc, DataSpan(cur, t), Nothing))
        /\ UNCHANGED doing

OtherStep ==
    /\ doing = NoLine
    /\ \/ \E n \in SectionNames : SetSection(n)
       \/ \E a \in Addresses : Org(a) \/ Put(a)
       \/ FinishPass
    /\ UNCHANGED <<listing, doing>>

ListNext ==
    \/ ListBegin
    \/ \E k \in 1 .. MaxEmit :
           StartLine("instr", k) \/ StartLine("data", k) \/ GoOn(k)
    \/ EndLine
    \/ \E c \in Counts : ReserveLine(c)
    \/ OtherStep

ListSpec == ListInit /\ [][ListNext]_listVars

-----------------------------------------------------------------------------
(* listing_print(): the bytes it reads for an entry; ... counted from the    *)
(* put address.                                                              *)
ShownFromPut(e) ==
    IF e.nbytes <= 0 \/ e.span = NoSpan THEN Nothing
    ELSE [span |-> e.span, from |-> e.pc - Pointed(e.span).put, count |-> e.nbytes]

Shown(e) ==
    IF e.nbytes <= 0 \/ e.span = NoSpan THEN Nothing
    ELSE [span |-> e.span, from |-> e.pc - Pointed(e.span).org, count |-> e.nbytes]

(* The listing is printed only if the last pass leaves no error.             *)
Printed == ~open /\ pass # NoPass /\ ~Failing(level)

(* PUT has located the span elsewhere than at its program counter.           *)
Displaced(span) == Pointed(span).put # Pointed(span).org

(* A line that assembled code is listed with that code and no other, all of  *)
(* it, from wherever in its span it began and whatever was assembled after   *)
(* it, by ORG and PUT at different addresses too; all but the lines of data  *)
(* pseudo-ops whose bytes PUT has located elsewhere than at their program    *)
(* counter, which are listed with none although README:88 promises their     *)
(* code (CodeListed below); of the offset into the span (listing.c:60),      *)
(* taken from what assemble.c noted at 494 and 546.                          *)
ListingShowsCode ==
    Printed => \A i \in DOMAIN listing :
        LET e == listing[i]
        IN  e.wrote # Nothing =>
                Shown(e) = IF e.kind = "data" /\ Displaced(e.wrote.span)
                           THEN Nothing ELSE e.wrote

-----------------------------------------------------------------------------
(* What the documentation says and the code does not do; each is refuted by  *)
(* TLC in a configuration of its own.                                        *)

(* README:88: "A listing file is an annotated copy of the source file with   *)
(* addresses and generated code prepended to each line": every line that     *)
(* assembled code is listed with it; of assemble.c:493.                      *)
CodeListed ==
    Printed => \A i \in DOMAIN listing :
        listing[i].wrote # Nothing => Shown(listing[i]) = listing[i].wrote

(* README:88, likewise: a line that generated no code is listed without; of  *)
(* assemble.c:493.                                                           *)
ReservedListsNothing ==
    Printed => \A i \in DOMAIN listing :
        listing[i].wrote = Nothing => Shown(listing[i]) = Nothing

=============================================================================
