------------------------------ MODULE CondSpec ------------------------------
(* What conditional assembly promises: IFs nest; a line is assembled when    *)
(* the current branch of every IF around it is selected; and a branch is     *)
(* selected only within selected code and only if no branch of its IF was    *)
(* selected before.                                                          *)
EXTENDS Naturals, Sequences

VARIABLE ifs    \* the open IFs, innermost last

(* "pending": no branch selected yet, a later one may be; "selected": the    *)
(* current branch is; "spent": it is not, and no later one may be.           *)
IfStates == {"pending", "selected", "spent"}

Assembling == \A i \in DOMAIN ifs : ifs[i] = "selected"

Init == ifs = <<>>

Open ==
    \/ Assembling /\ \E s \in {"pending", "selected"} : ifs' = Append(ifs, s)
    \/ ~Assembling /\ ifs' = Append(ifs, "spent")

(* The innermost IF moves on to another branch.                              *)
Branch ==
    LET n == Len(ifs)
    IN  /\ n > 0
        /\ \/ /\ ifs[n] = "selected"
              /\ ifs' = [ifs EXCEPT ![n] = "spent"]
           \/ /\ ifs[n] = "pending"
              /\ \A i \in 1 .. n - 1 : ifs[i] = "selected"
              /\ ifs' = [ifs EXCEPT ![n] = "selected"]

Close ==
    /\ Len(ifs) > 0
    /\ ifs' = SubSeq(ifs, 1, Len(ifs) - 1)

Next == Open \/ Branch \/ Close

Spec == Init /\ [][Next]_ifs

=============================================================================
