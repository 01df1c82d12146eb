------------------------------ MODULE CondOps ------------------------------
(* The conditional assembly state of one activation of assemble_prog():      *)
(* cond_list, the stack of open IFs, innermost last, and cond_excluded, the  *)
(* position in it of the IF that is excluding code, 0 standing for NULL.     *)
EXTENDS Naturals, Sequences

CondStates == {"if", "if_done", "else"}

NoConds == [list |-> <<>>, excluded |-> 0]

Depth(c)    == Len(c.list)
Top(c)      == c.list[Depth(c)]
Included(c) == c.excluded = 0

(* The innermost IF is the one that excludes.                                *)
TopExcludes(c) == Depth(c) > 0 /\ c.excluded = Depth(c)

SetTop(c, state) == [c.list EXCEPT ![Depth(c)] = state]

(* Wrong versions of operators below, which the runs must refute: an ELSIF   *)
(* that does not look whether a branch was assembled, an IF evaluated in     *)
(* excluded code, and an ENDIF that closes two IFs.                          *)
EvaluatesElsifAgain(c) == TopExcludes(c)

AfterIfAnywhere(c, holds) ==
    IF holds THEN [c EXCEPT !.list = Append(@, "if_done")]
    ELSE [list |-> Append(c.list, "if"), excluded |-> Depth(c) + 1]

AfterEndifTwice(c) ==
    IF Depth(c) = 0 THEN c
    ELSE [list |-> SubSeq(c.list, 1, Depth(c) - 2),
          excluded |-> IF TopExcludes(c) THEN 0 ELSE c.excluded]

(* The conditions that are evaluated at all: an IF's within included code,   *)
(* and an ELSIF's while no branch of its IF has been assembled.              *)
EvaluatesIf(c)    == Included(c)
EvaluatesElsif(c) == TopExcludes(c) /\ Top(c) = "if"

(* IF; "holds" is the condition's value if it is evaluated.                   *)
AfterIf(c, holds) ==
    IF Included(c) /\ ~holds
    THEN [list |-> Append(c.list, "if"), excluded |-> Depth(c) + 1]
    ELSE [c EXCEPT !.list = Append(@, "if_done")]

(* ELSIF and ELSE are errors outside any IF and after the ELSE.              *)
Misplaced(c) == Depth(c) = 0 \/ Top(c) = "else"

AfterElsif(c, holds) ==
    CASE Misplaced(c) -> c
      [] ~Misplaced(c) /\ Included(c) -> [c EXCEPT !.excluded = Depth(c)]
      [] ~Misplaced(c) /\ EvaluatesElsif(c) /\ holds ->
             [list |-> SetTop(c, "if_done"), excluded |-> 0]
      [] OTHER -> c

AfterElse(c) ==
    CASE Misplaced(c) -> c
      [] ~Misplaced(c) /\ TopExcludes(c) /\ Top(c) = "if" ->
             [list |-> SetTop(c, "else"), excluded |-> 0]
      [] ~Misplaced(c) /\ Included(c) ->
             [list |-> SetTop(c, "else"), excluded |-> Depth(c)]
      [] OTHER -> c

AfterEndif(c) ==
    IF Depth(c) = 0 THEN c
    ELSE [list |-> SubSeq(c.list, 1, Depth(c) - 1),
          excluded |-> IF TopExcludes(c) THEN 0 ELSE c.excluded]

=============================================================================
