---------------------------- MODULE MCAssembler ----------------------------
(* Programs for Assembler: every short program over a vocabulary of lines,   *)
(* and longer ones written for one question each.                            *)
EXTENDS Assembler

MCNoDP == -1

NoLine == [op |-> "label", label |-> "none", sym |-> "none", off |-> 0, section |-> "CODE"]
Bare(op) == [NoLine EXCEPT !.op = op]
With(op, sym, off) == [NoLine EXCEPT !.op = op, !.sym = sym, !.off = off]
Const(op, off) == With(op, "none", off)
Label(x, l) == [l EXCEPT !.label = x]
In(n) == [Bare("section") EXCEPT !.section = n]

Vocabulary ==
    {Label("x", With("equ", "y", 1)), Label("y", Const("equ", 3)),
     Label("y", Const("set", 1)), Label("x", With("set", "x", 1)),
     Label("x", Bare("label")), With("org", "x", 0), Const("put", -1),
     With("put", "y", 6), Const("rmb", -1), With("rmb", "x", 0),
     In("DATA"), Label("y", In("CODE")), Label("y", With("section", "x", 0)),
     Const("setdp", 0), Label("y", With("fcb", "x", 0)),
     With("lda", "y", 0), With("bra", "x", 0), With("end", "x", 0), With("if", "x", 0),
     With("elsif", "y", 0), Bare("else"), Bare("endif")}

ShortPrograms(n) == UNION {[1 .. k -> Vocabulary] : k \in 1 .. n}

(* Programs in which several passes and several sections interact.           *)
Interacting ==
    {\* a chain of forward references, and code whose size depends on it
     <<Const("setdp", 0), Label("x", With("equ", "y", 0)), Label("y", With("equ", "z", 0)),
       With("lda", "x", 0), Label("z", Bare("label")), With("bra", "z", 0)>>,
     \* a page boundary that direct addressing itself moves: it never settles
     <<Const("setdp", 0), Const("org", 4), With("lda", "x", 1), Label("x", Bare("label"))>>,
     \* sections that follow each other, the first of unsettled size
     <<In("DATA"), Const("setdp", 0), With("lda", "y", 0), In("BSS"),
       Label("x", Bare("label")), Const("fcb", 0), In("CODE"), With("fcb", "x", 0),
       Label("y", Const("equ", 1))>>,
     \* an IF between two branches, inside an excluded IF
     <<With("if", "x", 0), With("if", "y", 0), Const("fcb", 0), Bare("else"),
       Const("fcb", 0), Bare("endif"), With("elsif", "y", 0), With("lda", "x", 0),
       Bare("endif"), Label("y", Const("equ", 1)), Label("x", Const("equ", 0))>>}

MCPrograms == ShortPrograms(3) \cup Interacting

(* The second pass finds x defined too late and the branch too far.          *)
RangePrograms ==
    {<<Const("setdp", 0), Label("y", Const("fcb", 0)), With("lda", "x", 0),
       Label("x", With("equ", "z", 0)), With("bra", "y", 0), Label("z", Const("equ", 0))>>}

(* y is first defined after the condition on it, in the last pass; the       *)
(* execution address is given in the first pass only.                        *)
ConditionPrograms ==
    {<<With("if", "y", 0), Const("fcb", 0), Bare("endif"), With("if", "x", 0),
       Label("y", Const("equ", 1)), Bare("endif"), Label("x", Const("equ", 1)),
       Const("fcb", 0)>>,
     <<With("if", "x", 0), Bare("else"), Const("end", 5), Bare("endif"),
       With("lda", "x", 0), Label("x", Const("equ", 1))>>}

(* DATA is assembled in the first pass only, away from CODE.                 *)
StalePrograms ==
    {<<With("if", "x", 0), Bare("else"), In("DATA"), Const("org", 8), Const("fcb", 0),
       In("CODE"), Bare("endif"), With("lda", "x", 0), Label("x", Const("equ", 1))>>}

(* CODE is resumed between DATA and BSS.                                     *)
ResumePrograms ==
    {<<Const("fcb", 0), In("DATA"), Const("fcb", 0), In("CODE"), In("BSS"),
       Const("fcb", 0)>>}

DocumentedPrograms == ConditionPrograms \cup ResumePrograms

=============================================================================
