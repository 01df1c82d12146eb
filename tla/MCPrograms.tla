----------------------------- MODULE MCPrograms -----------------------------
(* Two files: every short text of the first with each of a few second ones,  *)
(* which the first may include as well, and longer texts.                    *)
EXTENDS Programs

L(op, name) == [op |-> op, name |-> name]

MCSources == <<"a", "b">>

Vocabulary ==
    {L("plain", "none"), L("blank", "none"), L("macro", "m"), L("macro", "k"),
     L("macro", "none"), L("endm", "none"), L("badendm", "none"), L("if", "yes"),
     L("if", "no"), L("elsif", "yes"), L("else", "none"), L("endif", "none"),
     L("section", "DATA"), L("include", "b"), L("include", "missing"),
     L("call", "m"), L("call", "k")}

Short(n) == UNION {[1 .. k -> Vocabulary] : k \in 0 .. n}

SecondFiles ==
    {<<>>,
     <<L("call", "m"), L("plain", "none")>>,
     <<L("endm", "none"), L("section", "DATA")>>,
     <<L("macro", "k"), L("call", "m")>>,
     <<L("if", "yes"), L("include", "b")>>}

(* A macro defined by a macro; definitions inside definitions, in either     *)
(* file; a macro that expands itself twice; unfinished ones in a row.        *)
Longer ==
    {<<L("macro", "m"), L("blank", "none"), L("macro", "k"), L("plain", "none"),
       L("endm", "none"), L("call", "k"), L("endm", "none"), L("call", "m"), L("call", "k")>>,
     <<L("macro", "m"), L("if", "no"), L("endm", "none"), L("macro", "k"),
       L("section", "DATA"), L("endm", "none"), L("call", "k"), L("call", "m")>>,
     <<L("macro", "m"), L("call", "m"), L("include", "b"), L("call", "m"), L("endm", "none"),
       L("call", "m")>>,
     <<L("macro", "m"), L("badendm", "none"), L("macro", "none"), L("endm", "none"),
       L("macro", "k"), L("badendm", "none")>>,
     <<L("macro", "m"), L("badendm", "none"), L("macro", "k"), L("badendm", "none")>>}

MCTexts == {[a |-> t, b |-> u] : t \in Short(3) \cup Longer, u \in SecondFiles}

(* An IF that begins in one file and ends in the next, and an INCLUDE that   *)
(* only the second pass meets.                                               *)
MCSplitTexts ==
    {[a |-> t, b |-> u] : t \in {<<L("if", "yes"), L("plain", "none")>>, <<L("plain", "none")>>},
                          u \in {<<L("plain", "none")>>, <<L("endif", "none")>>}}

MCLateTexts ==
    {[a |-> <<L("if", "later"), L(op, "b"), L("endif", "none"), L("plain", "none")>>,
      b |-> <<L("plain", "none")>>] : op \in {"plain", "include"}}

=============================================================================
