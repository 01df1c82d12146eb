----------------------------- MODULE SectionLog -----------------------------
(* What a set of sections promises, with no spans in sight: every section is *)
(* a position and the log of the bytes assembled into it in one pass, each   *)
(* byte at a program counter and at a put address.  A log is written in the  *)
(* pass it was begun in and in no other, and is begun afresh once in every   *)
(* pass that selects its section, never in between.                          *)
EXTENDS Integers, Sequences

CONSTANTS SectionNames, First, MaxEmit

VARIABLES
    written,    \* section -> sequence of [pc, put], one per byte
    place,      \* section -> [pc, put], where the next byte goes
    of,         \* section -> the pass its log is of, NoPass if of none
    pass,       \* the running pass, or the one that is over
    cur         \* the current section

vars == <<written, place, of, pass, cur>>

NoPass == -1

Place == [pc : Int, put : Nat]

Origin == [pc |-> 0, put |-> 0]

Init ==
    /\ written = [n \in SectionNames |-> <<>>]
    /\ place = [n \in SectionNames |-> Origin]
    /\ of = [n \in SectionNames |-> NoPass]
    /\ pass = NoPass
    /\ cur = First

(* The log of section n is of the running pass.                              *)
Begun(n) == pass # NoPass /\ of[n] = pass

(* k bytes go where the current section stands, one after the other.         *)
Write(k) ==
    LET p == place[cur]
    IN  /\ Begun(cur)
        /\ written' = [written EXCEPT ![cur] = @ \o
               [j \in 1 .. k |-> [pc |-> p.pc + j - 1, put |-> p.put + j - 1]]]
        /\ place' = [place EXCEPT ![cur].pc = @ + k, ![cur].put = @ + k]
        /\ UNCHANGED <<of, pass, cur>>

(* ORG, PUT and RMB move the section and touch nothing written.              *)
Move ==
    /\ Begun(cur)
    /\ place'[cur] \in Place
    /\ place' = [place EXCEPT ![cur] = place'[cur]]
    /\ UNCHANGED <<written, of, pass, cur>>

(* Back to a section of this pass: nothing moves.                            *)
Resume(n) ==
    /\ Begun(n)
    /\ cur' = n
    /\ UNCHANGED <<written, place, of, pass>>

(* A section's first selection in the running pass: its log, of an earlier   *)
(* pass or of none, is begun afresh.                                         *)
Restart(n) ==
    /\ pass # NoPass
    /\ ~Begun(n)
    /\ written' = [written EXCEPT ![n] = <<>>]
    /\ place'[n] \in Place
    /\ place' = [place EXCEPT ![n] = place'[n]]
    /\ of' = [of EXCEPT ![n] = pass]
    /\ cur' = n
    /\ UNCHANGED pass

(* The next pass begins in the first section, at the beginning of memory.    *)
NewPass ==
    /\ pass' = pass + 1
    /\ written' = [written EXCEPT ![First] = <<>>]
    /\ place' = [place EXCEPT ![First] = Origin]
    /\ of' = [of EXCEPT ![First] = pass + 1]
    /\ cur' = First

Next ==
    \/ \E k \in 1 .. MaxEmit : Write(k)
    \/ Move
    \/ \E n \in SectionNames : Resume(n) \/ Restart(n)
    \/ NewPass

Spec == Init /\ [][Next]_vars

=============================================================================
