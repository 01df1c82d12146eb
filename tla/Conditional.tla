---------------------------- MODULE Conditional ----------------------------
(* Conditional assembly in one activation of assemble_prog(): any sequence   *)
(* of IF, ELSIF, ELSE, ENDIF and other lines, well formed or not, with any   *)
(* outcome of each condition.  The stack is local to the activation, so an   *)
(* included file or an expanded macro has a stack of its own.                *)
EXTENDS CondOps, ErrorLevels

CONSTANTS
    MaxLines,       \* bound on the lines of the program
    MaxDepth        \* bound on the nesting of IFs

ASSUME CondConstants == MaxLines \in Nat /\ MaxDepth \in Nat

VARIABLES
    cond,           \* cond_list and cond_excluded
    level,          \* error_level
    lines,          \* lines left, plus one for the end of the program
    ran,            \* history: how many branches of each open IF were assembled
    elses           \* history: the positions of the open IFs that met an ELSE

vars == <<cond, level, lines, ran, elses>>

Init ==
    /\ cond = NoConds
    /\ level = None
    /\ lines = MaxLines + 1
    /\ ran = <<>>
    /\ elses = {}

NextLine == lines > 1 /\ lines' = lines - 1

(* A branch of the innermost IF is counted when it begins to be assembled.   *)
CountBranch(c) ==
    ran' = IF ~Included(cond) /\ Included(c)
           THEN [ran EXCEPT ![Depth(cond)] = @ + 1] ELSE ran

Report(wrong) == level' = Raise(level, IF wrong THEN Syntax ELSE None)

IfLine(holds) ==
    /\ NextLine
    /\ Depth(cond) < MaxDepth
    /\ cond' = AfterIf(cond, holds)
    /\ ran' = Append(ran, IF Included(cond) /\ holds THEN 1 ELSE 0)
    /\ UNCHANGED <<level, elses>>

(* An IF or ELSIF with the wrong number of arguments opens or selects        *)
(* nothing.                                                                  *)
BadCondition ==
    /\ NextLine
    /\ EvaluatesIf(cond) \/ EvaluatesElsif(cond)
    /\ Report(TRUE)
    /\ UNCHANGED <<cond, ran, elses>>

ElsifLine(holds) ==
    /\ NextLine
    /\ cond' = AfterElsif(cond, holds)
    /\ CountBranch(AfterElsif(cond, holds))
    /\ Report(Misplaced(cond))
    /\ UNCHANGED elses

ElseLine ==
    /\ NextLine
    /\ cond' = AfterElse(cond)
    /\ CountBranch(AfterElse(cond))
    /\ Report(Misplaced(cond))
    /\ elses' = IF Misplaced(cond) THEN elses ELSE elses \cup {Depth(cond)}

EndifLine ==
    /\ NextLine
    /\ cond' = AfterEndif(cond)
    /\ Report(Depth(cond) = 0)
    /\ ran' = IF Depth(cond) = 0 THEN ran ELSE SubSeq(ran, 1, Depth(cond) - 1)
    /\ elses' = elses \ {Depth(cond)}

(* Any other line is assembled or skipped; neither touches the stack.        *)
OtherLine == NextLine /\ UNCHANGED <<cond, level, ran, elses>>

(* The program ends: an IF still open is an error.                           *)
EndProg ==
    /\ lines > 0
    /\ lines' = 0
    /\ Report(Depth(cond) > 0)
    /\ UNCHANGED <<cond, ran, elses>>

Next ==
    \/ \E holds \in BOOLEAN : IfLine(holds) \/ ElsifLine(holds)
    \/ ElseLine \/ EndifLine \/ OtherLine \/ BadCondition \/ EndProg

Spec == Init /\ [][Next]_vars

-----------------------------------------------------------------------------
TypeOK ==
    /\ cond \in [list : Seq(CondStates), excluded : Nat]
    /\ level \in ErrorTypes
    /\ lines \in Nat
    /\ ran \in Seq(Nat)
    /\ elses \subseteq 1 .. Depth(cond)

(* The IF that excludes is open; no branch of an IF outside it is pending,   *)
(* and those opened inside it can never select one: that is what lets ENDIF  *)
(* forget the exclusion by comparing positions only.                         *)
ExclusionNested ==
    /\ cond.excluded <= Depth(cond)
    /\ \A i \in 1 .. Depth(cond) :
           /\ Included(cond) \/ i < cond.excluded => cond.list[i] # "if"
           /\ ~Included(cond) /\ i > cond.excluded => cond.list[i] = "if_done"

(* Whatever the order of ELSIFs and ELSEs, repeated ones included, no IF has *)
(* two of its branches assembled, ...                                        *)
AtMostOneBranch == \A i \in DOMAIN ran : ran[i] <= 1

(* ... and one that has met its ELSE within assembled code has exactly one.  *)
ElseCompletes ==
    \A i \in elses : Included(cond) \/ i <= cond.excluded => ran[i] = 1

(* Of the branches of an IF one at most is assembled, and exactly one if it  *)
(* has an ELSE, in whatever order and number ELSIFs and ELSEs come; of       *)
(* assemble_prog() (assemble.c:397 and 413).                                 *)
OneBranchEach == AtMostOneBranch /\ ElseCompletes

(* The two variables are a representation of the nested selection CondSpec   *)
(* describes: what is assembled is what every enclosing IF selects.          *)
Selection(c) ==
    [i \in 1 .. Depth(c) |-> IF Included(c) \/ i < c.excluded THEN "selected"
                             ELSE IF c.list[i] = "if" THEN "pending" ELSE "spent"]

Abstract == INSTANCE CondSpec WITH ifs <- Selection(cond)

ImplementsCondSpec == Abstract!Spec

=============================================================================
