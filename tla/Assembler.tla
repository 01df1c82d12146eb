----------------------------- MODULE Assembler -----------------------------
(* The multi-pass assembler: main()'s loop over passes around                *)
(* assemble_prog(), which goes through the parsed lines of a program one by  *)
(* one, with the symbol table, the sections and the conditional stack.       *)
(*                                                                           *)
(* A line is an operation with an optional label and one operand, an         *)
(* expression "sym + off" (or "off" alone).  Every operation whose effect on *)
(* addresses, symbols, errors or control differs has its own action.         *)
EXTENDS SectionOps, SymbolOps, CondOps, TLC

CONSTANTS
    Programs,       \* the programs considered, sequences of Line
    First,          \* "CODE"
    MaxPasses,      \* asm6809_options.max_passes
    PageSize,       \* 0x100, the size of a direct page
    RelRange,       \* 128: a short branch reaches -RelRange .. RelRange - 1
    NoSymbol        \* no label, or an operand without a symbol

ASSUME AssemblerConstants ==
    /\ First \in SectionNames
    /\ MaxPasses \in Nat \ {0}
    /\ PageSize \in 1 .. AddrLimit
    /\ RelRange \in Nat
    /\ NoSymbol \notin Symbols

LabelOps == {"equ", "set", "org", "section"}
DataOps  == {"fcb", "rmb"}
OtherOps == {"put", "setdp", "end"}
InstrOps == {"lda", "bra"}
CondLine == {"if", "elsif", "else", "endif"}
Ops == LabelOps \cup DataOps \cup OtherOps \cup InstrOps \cup CondLine \cup {"label"}

Line == [op : Ops, label : Symbols \cup {NoSymbol}, sym : Symbols \cup {NoSymbol},
         off : Int, section : SectionNames]

ASSUME ProgramsAreLines == Programs \subseteq Seq(Line)

VARIABLES
    prog,           \* the parsed program
    phase,          \* "between" passes, "assembling", "done" or "failed"
    pass,
    line,           \* index of the next line
    level,          \* error_level
    symbols,        \* the symbol table
    exec,           \* the entry ".exec" of the same table
    sections, cur, sequence,    \* section.c
    cond,           \* cond_list and cond_excluded
    seen,           \* history: the error types reported in this pass
    stands,         \* history: out of range was reported after the last of its
                    \* inconsistencies
    uses,           \* history: the <<symbol, value>> pairs read in this pass
    tested,         \* history: those read by a condition, undefined read as 0
    follow,         \* history: whom a section followed in this pass, and where
    ended           \* history: the operand of the last END of this pass

vars == <<prog, phase, pass, line, level, symbols, exec, sections, cur, sequence, cond,
          seen, stands, uses, tested, follow, ended>>

Nobody == [after |-> "none", section |-> First, pc |-> 0, put |-> 0]

NoEnd == [end |-> FALSE, sym |-> NoSymbol, off |-> 0]

Init ==
    /\ prog \in Programs
    /\ phase = "between"
    /\ pass = NoPass
    /\ line = 0
    /\ level = None
    /\ symbols = EmptyTable
    /\ exec = [x \in {".exec"} |-> NoEntry]
    /\ sections = [n \in SectionNames |-> NewSection]
    /\ cur = First
    /\ sequence = 0
    /\ cond = NoConds
    /\ seen = {}
    /\ stands = FALSE
    /\ uses = {}
    /\ tested = {}
    /\ follow = [n \in SectionNames |-> Nobody]
    /\ ended = NoEnd

-----------------------------------------------------------------------------
(* The operand of line l.                                                    *)
UsesSymbol(l) == l.sym # NoSymbol

Value(l) ==
    IF ~UsesSymbol(l) THEN Num(l.off)
    ELSE IF Defined(symbols[l.sym].node) THEN Num(symbols[l.sym].node.n + l.off)
    ELSE Undef

(* have_int_required(): the operand, or the default if it is undefined.      *)
IntArg(l, default) == IF Defined(Value(l)) THEN Value(l).n ELSE default

ArgError(l) == IF Defined(Value(l)) THEN None ELSE Inconsistent

Read(l) ==
    uses' = IF UsesSymbol(l) /\ Defined(Value(l))
            THEN uses \cup {[sym |-> l.sym, n |-> symbols[l.sym].node.n]} ELSE uses

(* set_label(): nothing for a line without a label.                          *)
SetLabel(l, node, changeable) ==
    symbols' = IF l.label = NoSymbol THEN symbols
               ELSE SymbolSet(symbols, l.label, node, changeable, pass)

LabelError(l, node, changeable) ==
    IF l.label = NoSymbol THEN None
    ELSE SymbolError(symbols, l.label, node, changeable, pass)

(* Whether an out-of-range report stands once e is reported too.             *)
StandsAfter(b, e) == e = OutOfRange \/ (b /\ e # Inconsistent)

(* The errors of a line are reported in the order of the sequence.           *)
Report(e1, e2, e3, e4) ==
    /\ level' = Raise(Raise(Raise(Raise(level, e1), e2), e3), e4)
    /\ seen' = seen \cup {e1, e2, e3, e4}
    /\ stands' = StandsAfter(StandsAfter(StandsAfter(StandsAfter(stands, e1), e2), e3), e4)

(* The section "n" becomes current in pass p.                                *)
Select(n, p) ==
    /\ sections' = [sections EXCEPT ![n] =
                        Selected(@, p, StartAfter(sections[cur], p))]
    /\ cur' = n
    /\ follow' = IF sections[n].pass = p THEN follow
                 ELSE [follow EXCEPT ![n] =
                         [after |-> IF sections[cur].pass = p THEN "section" ELSE "none",
                          section |-> cur,
                          pc |-> StartAfter(sections[cur], p).pc,
                          put |-> StartAfter(sections[cur], p).put]]

Here == Num(sections[cur].pc)

-----------------------------------------------------------------------------
(* The head of the loop: another pass is made only after inconsistencies.    *)
BeginPass ==
    /\ phase = "between"
    /\ pass = NoPass \/ level = Inconsistent
    /\ pass + 1 < MaxPasses
    /\ phase' = "assembling"
    /\ pass' = pass + 1
    /\ line' = 1
    /\ level' = None
    /\ seen' = {}
    /\ stands' = FALSE
    /\ uses' = {}
    /\ tested' = {}
    /\ ended' = NoEnd
    /\ cond' = NoConds
    /\ Select(First, pass + 1)
    /\ UNCHANGED <<prog, symbols, exec, sequence>>

(* The last line is done: an open IF is an error, and so is a section whose  *)
(* end moved.                                                                *)
EndPass ==
    /\ phase = "assembling"
    /\ line > Len(prog)
    /\ phase' = "between"
    /\ sections' = FinishedSections(sections)
    /\ Report(IF Depth(cond) > 0 THEN Syntax ELSE None, FinishError(sections),
              None, None)
    /\ UNCHANGED <<prog, pass, line, symbols, exec, cur, sequence, cond, uses, tested,
                   follow, ended>>

(* A pass is over and no other is to be made: output, or failure.            *)
Stop(fails) ==
    /\ phase = "between"
    /\ pass # NoPass
    /\ phase' = IF fails THEN "failed" ELSE "done"
    /\ UNCHANGED <<prog, pass, line, level, symbols, exec, sections, cur, sequence, cond,
                   seen, stands, uses, tested, follow, ended>>

(* A wrong version of the next, which a run must refute: no end at           *)
(* max_passes.                                                               *)
DecideWhenConsistent == level # Inconsistent /\ Stop(Failing(level))

(* The loop ends with a level other than Inconsistent or at max_passes.      *)
Decide ==
    /\ level # Inconsistent \/ pass + 1 = MaxPasses
    /\ Stop(Failing(level))

(* The assembler takes the next line, which holds one of the operations ops. *)
Take(ops) ==
    /\ phase = "assembling"
    /\ line \in 1 .. Len(prog)
    /\ prog[line].op \in ops
    /\ line' = line + 1
    /\ UNCHANGED <<prog, phase, pass>>

(* One of them that is neither excluded nor about conditions; all but END    *)
(* leave the execution address alone.                                        *)
TakeRunning(ops) ==
    /\ Take(ops)
    /\ Included(cond)
    /\ UNCHANGED <<cond, tested>>

TakeIncluded(ops) == TakeRunning(ops) /\ UNCHANGED <<exec, ended>>

SkipExcluded ==
    /\ Take(Ops \ CondLine)
    /\ ~Included(cond)
    /\ UNCHANGED <<level, symbols, exec, sections, cur, sequence, cond, seen, stands,
                   uses, tested, follow, ended>>

-----------------------------------------------------------------------------
(* EQU and SET.                                                              *)
EquLine ==
    LET l == prog[line]
        changeable == l.op = "set"
    IN  /\ TakeIncluded({"equ", "set"})
        /\ Read(l)
        /\ SetLabel(l, Value(l), changeable)
        /\ Report(ArgError(l), LabelError(l, Value(l), changeable), None, None)
        /\ UNCHANGED <<sections, cur, sequence, follow>>

(* ORG: its label is the new address.                                        *)
OrgLine ==
    LET l == prog[line]
        addr == IntArg(l, sections[cur].pc)
    IN  /\ TakeIncluded({"org"})
        /\ Read(l)
        /\ sections' = [sections EXCEPT ![cur] = Orged(@, addr)]
        /\ SetLabel(l, Num(addr), FALSE)
        /\ Report(ArgError(l), LabelError(l, Num(addr), FALSE), None, None)
        /\ UNCHANGED <<cur, sequence, follow>>

(* SECTION: its label is the selected section's program counter; ...         *)
SectionLine ==
    LET l == prog[line]
        node == Num(Selected(sections[l.section], pass,
                             StartAfter(sections[cur], pass)).pc)
    IN  /\ TakeIncluded({"section"})
        /\ ~UsesSymbol(l)
        /\ Select(l.section, pass)
        /\ SetLabel(l, node, FALSE)
        /\ Report(None, LabelError(l, node, FALSE), None, None)
        /\ UNCHANGED <<sequence, uses>>

(* ... but a symbol, no string, names no section, and its line no label:     *)
(* undefined it is passed over, defined it is an error.                      *)
BadSectionLine ==
    LET l == prog[line]
    IN  /\ TakeIncluded({"section"})
        /\ UsesSymbol(l)
        /\ Read(l)
        /\ Report(ArgError(l), IF Defined(Value(l)) THEN Syntax ELSE None, None, None)
        /\ UNCHANGED <<symbols, sections, cur, sequence, follow>>

(* Any other line's label is the program counter.                            *)
LabelLine ==
    LET l == prog[line]
    IN  /\ TakeIncluded({"label"})
        /\ SetLabel(l, Here, FALSE)
        /\ Report(None, LabelError(l, Here, FALSE), None, None)
        /\ UNCHANGED <<sections, cur, sequence, uses, follow>>

(* A line of any other operation: "s" is its section afterwards, "opened"    *)
(* whether a span was begun, e3 and e4 what its handler reports.             *)
Operate(s, opened, e3, e4) ==
    LET l == prog[line]
    IN  /\ Read(l)
        /\ SetLabel(l, Here, FALSE)
        /\ sections' = [sections EXCEPT ![cur] = s]
        /\ sequence' = IF opened THEN sequence + 1 ELSE sequence
        /\ Report(ArgError(l), LabelError(l, Here, FALSE), e3, e4)
        /\ UNCHANGED <<cur, follow>>

PutLine ==
    LET s == sections[cur]
        addr == IntArg(prog[line], s.put)
    IN  /\ TakeIncluded({"put"})
        /\ Operate(PutAt(s, addr), FALSE, PutError(addr), None)

(* SETDP: a negative value stands for no direct page.                        *)
Page(addr) == (addr % AddrLimit) \div PageSize

SetdpLine ==
    LET s == sections[cur]
        dp == IntArg(prog[line], -1)
    IN  /\ TakeIncluded({"setdp"})
        /\ Operate([s EXCEPT !.dp = IF dp >= 0 THEN dp % (AddrLimit \div PageSize)
                                    ELSE -1],
                   FALSE, None, None)

RmbLine ==
    LET s == sections[cur]
        count == IntArg(prog[line], 0)
    IN  /\ TakeIncluded({"rmb"})
        /\ IF count < 0 THEN Operate(s, FALSE, OutOfRange, None)
           ELSE Operate(Skipped(s, count), FALSE, None, None)

(* FCB with one operand: one byte, whatever its value.                       *)
FcbLine ==
    LET s == sections[cur]
    IN  /\ TakeIncluded({"fcb"})
        /\ Operate(Emitted(s, 1, sequence), OpensSpan(s), EmitError(s, 1), None)

(* An instruction's operation code is emitted first, then its operand.       *)
AfterOp(s) == Emitted(s, 1, sequence)

(* A direct or extended address: short if it is known to be in the page.     *)
LdaLine ==
    LET s == sections[cur]
        direct == Defined(Value(prog[line])) /\ s.dp = Page(Value(prog[line]).n)
        n == IF direct THEN 1 ELSE 2
    IN  /\ TakeIncluded({"lda"})
        /\ Operate(Emitted(AfterOp(s), n, sequence), OpensSpan(s),
                   EmitError(s, 1), EmitError(AfterOp(s), n))

(* A short branch: the distance, as a signed number of the address's width.  *)
ToRel(i) == ((i + AddrLimit \div 2) % AddrLimit) - AddrLimit \div 2

BraLine ==
    LET s == sections[cur]
        v == Value(prog[line])
        outside == /\ Defined(v)
                   /\ ToRel(v.n - (AfterOp(s).pc + 1)) \notin -RelRange .. RelRange - 1
    IN  /\ TakeIncluded({"bra"})
        /\ Operate(Emitted(AfterOp(s), 1, sequence), OpensSpan(s),
                   Raise(EmitError(s, 1), IF outside THEN OutOfRange ELSE None),
                   EmitError(AfterOp(s), 1))

(* A wrong version of the next, which a run must refute: an execution        *)
(* address that is set once and for all.                                     *)
ExecSetOnce(node) == SymbolSet(exec, ".exec", node, FALSE, 0)

(* END takes the pass for whether the symbol may change, and 0 for the pass. *)
ExecSet(node) == SymbolSet(exec, ".exec", node, pass # 0, 0)

ExecError(node) == SymbolError(exec, ".exec", node, pass # 0, 0)

(* END with an operand.  It ends its own file, so that lines after it are    *)
(* those of the file that includes it.                                       *)
EndLine ==
    LET l == prog[line]
    IN  /\ TakeRunning({"end"})
        /\ exec' = ExecSet(Value(l))
        /\ ended' = [end |-> TRUE, sym |-> l.sym, off |-> l.off]
        /\ Operate(sections[cur], FALSE, ExecError(Value(l)), None)

-----------------------------------------------------------------------------
(* IF and ELSIF: with undefined symbols ignored, that is read as 0, and only *)
(* when the outcome matters.                                                 *)
CondArg(l) ==
    (IF UsesSymbol(l) /\ Defined(symbols[l.sym].node)
     THEN symbols[l.sym].node.n ELSE 0) + l.off

Test(l) ==
    /\ Read(l)
    /\ tested' = IF UsesSymbol(l) THEN tested \cup {[sym |-> l.sym, n |-> CondArg(l) - l.off]}
                 ELSE tested

NothingElse == UNCHANGED <<symbols, exec, sections, cur, sequence, follow, ended>>

IfLine ==
    LET l == prog[line]
    IN  /\ Take({"if"})
        /\ cond' = AfterIf(cond, CondArg(l) # 0)
        /\ IF EvaluatesIf(cond) THEN Test(l) ELSE UNCHANGED <<uses, tested>>
        /\ NothingElse
        /\ UNCHANGED <<level, seen, stands>>

ElsifLine ==
    LET l == prog[line]
    IN  /\ Take({"elsif"})
        /\ cond' = AfterElsif(cond, CondArg(l) # 0)
        /\ IF EvaluatesElsif(cond) THEN Test(l) ELSE UNCHANGED <<uses, tested>>
        /\ NothingElse
        /\ Report(IF Misplaced(cond) THEN Syntax ELSE None, None, None, None)

ElseLine ==
    /\ Take({"else"})
    /\ cond' = AfterElse(cond)
    /\ NothingElse
    /\ Report(IF Misplaced(cond) THEN Syntax ELSE None, None, None, None)
    /\ UNCHANGED <<uses, tested>>

EndifLine ==
    /\ Take({"endif"})
    /\ cond' = AfterEndif(cond)
    /\ NothingElse
    /\ Report(IF Depth(cond) = 0 THEN Syntax ELSE None, None, None, None)
    /\ UNCHANGED <<uses, tested>>

PlainLine ==
    \/ EquLine \/ OrgLine \/ SectionLine \/ BadSectionLine \/ LabelLine
    \/ PutLine \/ SetdpLine \/ RmbLine \/ FcbLine \/ LdaLine \/ BraLine
    \/ EndLine

ConditionalLine == IfLine \/ ElsifLine \/ ElseLine \/ EndifLine

Next ==
    \/ BeginPass \/ EndPass \/ Decide
    \/ SkipExcluded \/ PlainLine \/ ConditionalLine

Spec == Init /\ [][Next]_vars

(* main() never waits for anything: it takes its next step.                  *)
FairSpec == Spec /\ WF_vars(Next)

-----------------------------------------------------------------------------
Use == [sym : Symbols, n : Int]

End == [end : BOOLEAN, sym : Symbols \cup {NoSymbol}, off : Int]

Follow == [after : {"none", "section"}, section : SectionNames, pc : Int, put : Nat]

(* Every variable keeps its type; no operand of ORG, PUT or RMB, negative     *)
(* ones included, takes a put address, unsigned in the code, below zero.     *)
TypeOK ==
    /\ prog \in Programs
    /\ phase \in {"between", "assembling", "done", "failed"}
    /\ pass \in Nat \cup {NoPass}
    /\ line \in Nat
    /\ level \in ErrorTypes
    /\ symbols \in [Symbols -> Entry]
    /\ exec \in [{".exec"} -> Entry]
    /\ DOMAIN sections = SectionNames
    /\ \A n \in SectionNames : sections[n].put \in Nat
    /\ cur \in SectionNames
    /\ sequence \in Nat
    /\ seen \subseteq ErrorTypes
    /\ stands \in BOOLEAN
    /\ uses \subseteq Use
    /\ tested \subseteq Use
    /\ follow \in [SectionNames -> Follow]
    /\ ended \in End

Succeeded == phase = "done"

(* The labels of SET lines, whose value may differ from use to use.          *)
Changeable(x) == \E i \in DOMAIN prog : prog[i].op = "set" /\ prog[i].label = x

(* No PUT parts the two addresses of a section, and no ORG does, in any      *)
(* pass: it names a number that is an address or, where no operand is less   *)
(* than its symbol, any symbol.                                              *)
NothingNegative == \A i \in DOMAIN prog : prog[i].off >= 0

NeverParts ==
    \A i \in DOMAIN prog :
        LET l == prog[i]
        IN  /\ l.op # "put"
            /\ l.op = "org" => l.off >= 0 /\ (UsesSymbol(l) => NothingNegative)

(* A pass that ends in output reported nothing beyond warnings: although a   *)
(* report can lower error_level, none hides another that should fail.        *)
SuccessMeansClean == Succeeded => \A e \in seen : ~Failing(e)

(* Output is made from one value of each symbol: what any operand read in    *)
(* the last pass, before or after the symbol's definition in it, in          *)
(* whatever section and at whatever size instructions were then, is the      *)
(* value the symbol ends with.                                               *)
SuccessConsistent ==
    Succeeded => \A u \in uses : \/ Changeable(u.sym)
                                 \/ symbols[u.sym].node = Num(u.n)

(* In the output a section that was first selected after another begins at   *)
(* the program counter where that other one ended, although it was placed    *)
(* from what the pass before knew.                                           *)
FollowsPredecessor ==
    Succeeded => \A n \in SectionNames :
        LET f == follow[n]
        IN  sections[n].pass = pass /\ f.after = "section"
                => f.pc = sections[f.section].pc

(* ... and, where no line parts the two, at the put address as well, only the *)
(* program counter being compared from one pass to the next (section.c:146). *)
PutFollows ==
    Succeeded /\ NeverParts => \A n \in SectionNames :
        LET f == follow[n]
        IN  sections[n].pass = pass /\ f.after = "section"
                => f.put = sections[f.section].put

(* The execution address, which is not compared with that of the pass before *)
(* (assemble.c:1031), is nevertheless what the last END of the last pass     *)
(* names, its symbol having settled, forward reference or not.               *)
ExecResolved ==
    Succeeded /\ ended.end => Changeable(ended.sym) \/ exec[".exec"].node = Value(ended)

(* Failure has a reason: an error above out-of-range, an out-of-range that   *)
(* no inconsistency of the pass followed, or an inconsistency at the limit   *)
(* of passes.  An inconsistency that comes before the out-of-range does not  *)
(* excuse it, whatever error.h:45 says (RangeFatalOnlyIfConsistent below);   *)
(* one that comes after it does, as long as there is a pass to repair both.  *)
FailureJustified ==
    phase = "failed" => \/ \E e \in seen : e > OutOfRange
                        \/ stands
                        \/ Inconsistent \in seen /\ pass + 1 = MaxPasses

(* main() decides for output or failure (asm6809.c:204) on one number, into  *)
(* which verror() has folded all reports of the pass in the order they were  *)
(* made: output is made only if none of them is beyond a warning, and        *)
(* failure has one of the reasons above.                                     *)
OutcomeJustified == SuccessMeansClean /\ FailureJustified

(* Every program is assembled or refused, one whose symbols never settle     *)
(* included.                                                                 *)
Terminates == <>(phase \in {"done", "failed"})

-----------------------------------------------------------------------------
(* What the documentation says and the code does not do; each is refuted by  *)
(* TLC, in the configurations the README lists.                              *)

(* error.h: "A value was out of range.  This is considered fatal at the end  *)
(* of a pass only if no inconsistencies were found."                         *)
RangeFatalOnlyIfConsistent ==
    phase = "failed" /\ level = OutOfRange => Inconsistent \notin seen

(* README: "as many passes are made over the parsed source as necessary (up  *)
(* to a limit), until symbols are resolved and addresses are stable": a      *)
(* condition in the last pass was decided on the values symbols end with,    *)
(* an undefined one standing for zero.                                       *)
ConditionsResolved ==
    Succeeded => \A t \in tested :
        Changeable(t.sym) \/ t.n = (IF Defined(symbols[t.sym].node)
                                     THEN symbols[t.sym].node.n ELSE 0)

Apart(a, b) == NextPut(a) <= b.put \/ NextPut(b) <= a.put

(* No two spans share an address: else coalescing reports an overlap and     *)
(* nothing is output (section.c:181, asm6809.c:296).                         *)
NothingOverlaps ==
    \A m, n \in SectionNames :
        \A i \in DOMAIN sections[m].spans : \A j \in DOMAIN sections[n].spans :
            <<m, i>> # <<n, j>> => Apart(sections[m].spans[i], sections[n].spans[j])

(* README: "If the result is non-zero, the following code will be assembled, *)
(* else it will be skipped": what is output was assembled in the last pass.  *)
OutputAssembled ==
    Succeeded /\ NothingOverlaps => \A n \in SectionNames :
        sections[n].spans # <<>> => sections[n].pass = pass

(* README: "Without ORG or PUT directives, sections will follow each other   *)
(* in memory in the order they are first defined": no two of them share an   *)
(* address.                                                                  *)
SectionsDisjoint ==
    Succeeded /\ (\A i \in DOMAIN prog : prog[i].op \notin {"org", "put"}) =>
        \A m, n \in SectionNames :
            m # n => \A i \in DOMAIN sections[m].spans :
                        \A j \in DOMAIN sections[n].spans :
                            Apart(sections[m].spans[i], sections[n].spans[j])

(* README, of IF, likewise: an execution address there is, is one an END of  *)
(* the last pass gave.                                                       *)
ExecAssembled == Succeeded /\ exec[".exec"].pass # NotEntered => ended.end

=============================================================================
