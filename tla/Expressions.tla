---------------------------- MODULE Expressions -----------------------------
(* Evaluation of expressions (eval.c) while symbols are given values (EQU)   *)
(* and macros are called (interp.c).  Nodes of base types are those of       *)
(* Operands; the others are trees.  A node's value is never changed by       *)
(* another's evaluation: eval_int_free() and eval_float_free() write in      *)
(* place only to a node nobody else refers to.  Of reference counts, all     *)
(* that can be told is whether a string is "shared".                         *)
EXTENDS Operands, ErrorLevels, TLC, Bitwise

CONSTANTS
    Names,          \* names of symbols: sequences of characters
    Defining,       \* expressions that symbols are given
    Passing,        \* lists of arguments macros are called with
    Tried,          \* expressions evaluated last
    Pc,             \* the program counter
    LocalLabel,     \* what a local label refers to
    RegisterText,   \* register -> its name
    MaxCalls,       \* the calls of macros open at once
    NoTrial

VARIABLES
    symbols,        \* name -> node
    sources,        \* name -> the expression it was given
    args,           \* interp_stack: the calls' evaluated arguments, newest first
    tried           \* the expression evaluated last, if a condition, and its result

vars == <<symbols, sources, args, tried>>

PcNode         == [type |-> "pc", attr |-> "none"]
LocalNode      == [type |-> "local", attr |-> "none"]
InterpNode(i)  == [type |-> "interp", as_index |-> i, attr |-> "none"]
IdNode(parts)  == [type |-> "id", as_list |-> parts, attr |-> "none"]
TextNode(parts) == [type |-> "text", as_list |-> parts, attr |-> "none"]
Oper(op, nodes) == [type |-> "oper", as_oper |-> op, as_args |-> nodes, attr |-> "none"]

(* The program died of a division exception.                                 *)
Crash == [type |-> "crash", attr |-> "none"]

Result(node, level, shared) == [node |-> node, level |-> level, shared |-> shared]
Fresh(node, level) == Result(node, level, FALSE)
Missing(level)     == Fresh(Undefined, level)
Stops(res)         == res.node.type \in {"undef", "crash"}

-----------------------------------------------------------------------------
(* Arithmetic: int64_t wraps around, a double is an exact fraction; ... a    *)
(* truth that is all ones.                                                   *)

IntRange == -2 * IntMin
Wrap(v)  == ((v - IntMin) % IntRange) + IntMin
Bits     == CHOOSE w \in 1 .. 31 : 2^w = IntRange
TruthAllOnes(b) == IntNode(IF b THEN -1 ELSE 0, "none")
Truth(b) == IntNode(IF b THEN 1 ELSE 0, "none")
Integer(v) == IntNode(Wrap(v), "none")

Signum(v) == CASE v < 0 -> -1 [] v = 0 -> 0 [] v > 0 -> 1
Frac(n, d) == CASE d > 0 -> <<n, d>> [] d < 0 -> <<-n, -d>> [] d = 0 -> <<Signum(n), 0>>
FracMul(x, y) == Frac(x[1] * y[1], x[2] * y[2])
FracDiv(x, y) == Frac(x[1] * y[2] * (IF x[2] = 0 /\ y[1] < 0 THEN -1 ELSE 1), x[2] * y[1])
FracAdd(x, y) == IF x[2] = 0 /\ x = y THEN x
                                      ELSE Frac(x[1] * y[2] + y[1] * x[2], x[2] * y[2])
Nan(x) == x = <<0, 0>>
FracLess(x, y) == /\ ~Nan(x) /\ ~Nan(y)
                  /\ IF x[2] = 0 /\ y[2] = 0 THEN x[1] < y[1] ELSE x[1] * y[2] < y[1] * x[2]
FracEqual(x, y) == ~Nan(x) /\ ~Nan(y) /\ ~FracLess(x, y) /\ ~FracLess(y, x)

(* strcmp().                                                                 *)
StrLess(s, t) ==
    \/ IsStrictPrefix(s, t)
    \/ \E i \in DOMAIN s \cap DOMAIN t :
           s[i] < t[i] /\ \A j \in 1 .. i - 1 : s[j] = t[j]

Relations == {"<", "<=", ">", ">=", "==", "!="}
Related(op, less, equal) ==
    Truth(CASE op = "<" -> less        [] op = "<=" -> less \/ equal
            [] op = ">" -> ~less /\ ~equal [] op = ">=" -> ~less
            [] op = "==" -> equal      [] op = "!=" -> ~equal)

(* A comparison with what is not a number fails, unless it is "!=".          *)
FloatRelated(op, x, y) ==
    IF Nan(x) \/ Nan(y) THEN Truth(op = "!=")
                        ELSE Related(op, FracLess(x, y), FracEqual(x, y))

Arithmetic == {"*", "/", "+", "-"}
Bitwises   == {"%", "<<", ">>", "&", "^", "|", "&&", "||"}

IntArithmetic(op, l, r) ==
    Integer(CASE op = "*" -> l * r [] op = "+" -> l + r [] op = "-" -> l - r)

FloatArithmetic(op, x, y) ==
    FloatNode(CASE op = "*" -> FracMul(x, y) [] op = "/" -> FracDiv(x, y)
                [] op = "+" -> FracAdd(x, y) [] op = "-" -> FracAdd(x, Frac(-y[1], y[2])),
              "none")

(* The processor takes shift counts modulo the width, and faults on a        *)
(* remainder by zero, or by -1 of the least integer.                         *)
Unsigned(v) == v % IntRange

BitOperation(op, l, r) ==
    CASE op = "%" -> IF r = 0 \/ (l = IntMin /\ r = -1) THEN Crash ELSE Integer(Remainder(l, r))
      [] op = "<<" -> Integer(l * 2^(r % Bits))
      [] op = ">>" -> Integer(l \div 2^(r % Bits))
      [] op = "&" -> Integer(Unsigned(l) & Unsigned(r))
      [] op = "^" -> Integer(Unsigned(l) ^^ Unsigned(r))
      [] op = "|" -> Integer(Unsigned(l) | Unsigned(r))
      [] op = "&&" -> Truth(l # 0 /\ r # 0)
      [] op = "||" -> Truth(l # 0 \/ r # 0)

-----------------------------------------------------------------------------
(* eval_node() and its kin: the value, the worst reported, and whether a     *)
(* string is the one that a symbol or an argument holds.                     *)

(* symbol_get(); "quiet" is symbol_ignore_undefined, set for conditions; ... *)
(* a symbol missing without a word.                                          *)
SymbolGetSilent(name, quiet) ==
    IF name \in DOMAIN symbols THEN Result(symbols[name], None, TRUE) ELSE Missing(None)
SymbolGet(name, quiet) ==
    IF name \in DOMAIN symbols /\ symbols[name].type # "undef"
    THEN Result(symbols[name], None, TRUE)
    ELSE IF quiet THEN Fresh(Integer(0), None) ELSE Missing(Inconsistent)

(* interp_get().                                                             *)
InterpGet(i) ==
    IF args = <<>> \/ i \notin DOMAIN Head(args) THEN Missing(Syntax)
    ELSE Result(Head(args)[i], None, TRUE)

(* node_set_attr_if(): the signs of a register outlast a use without; ...    *)
(* any attribute does.                                                       *)
Signs == {"postinc", "postinc2", "predec", "predec2", "postdec"}
SetAttr(res, attr) == IF Stops(res) THEN res ELSE [res EXCEPT !.node.attr = attr]
SetAttrIfKeeping(res, attr) == IF attr = "none" THEN res ELSE SetAttr(res, attr)
SetAttrIf(res, attr) ==
    IF attr = "none" /\ res.node.attr \in Signs THEN res ELSE SetAttr(res, attr)

Decimal[v \in Int] ==
    CASE v < 0 -> <<45>> \o Decimal[-v]
      [] v \in 0 .. 9 -> <<48 + v>>
      [] v > 9 -> Append(Decimal[v \div 10], 48 + (v % 10))

(* What an element adds to a pasted text: Undefined if it cannot.            *)
Printed(node) ==
    CASE node.type = "string" -> node
      [] node.type = "int"    -> StringNode(Decimal[node.as_int], "none")
      [] node.type = "reg" /\ node.attr = "none" -> StringNode(RegisterText[node.as_reg], "none")
      [] OTHER -> Undefined

(* An attempt at an operation on two strings that has no meaning for them.   *)
StringOperation(op, l, r) ==
    IF op \in Relations THEN Related(op, StrLess(l, r), l = r) ELSE Undefined

Operation(op, l, r) ==
    CASE op \in Relations /\ l.type = "int" /\ r.type = "int" ->
           Related(op, l.as_int < r.as_int, l.as_int = r.as_int)
      [] op \in Arithmetic \ {"/"} /\ l.type = "int" /\ r.type = "int" ->
           IntArithmetic(op, l.as_int, r.as_int)
      [] op \in Bitwises ->
           LET i == EvalInt(l) j == EvalInt(r)
           IN  IF "undef" \in {i.type, j.type} THEN Undefined
               ELSE BitOperation(op, i.as_int, j.as_int)
      [] OTHER ->
           LET x == EvalFloat(l) y == EvalFloat(r)
           IN  CASE "undef" \in {x.type, y.type} -> Undefined
                 [] op \in Relations -> FloatRelated(op, x.as_float, y.as_float)
                 [] OTHER -> FloatArithmetic(op, x.as_float, y.as_float)

(* A string beside something else, or alone, stands for its characters'      *)
(* codes.                                                                    *)
Cast(n) == IF n.type = "string" THEN EvalInt(n) ELSE n

Operation2(op, l, r) ==
    IF l.type = "string" /\ r.type = "string"
    THEN StringOperation(op, l.as_string, r.as_string)
    ELSE Operation(op, Cast(l), Cast(r))

Operation1(op, n) ==
    CASE op = "-" /\ n.type = "int"   -> Integer(-n.as_int)
      [] op = "-" /\ n.type = "float" -> FloatNode(Frac(-n.as_float[1], n.as_float[2]), "none")
      [] op = "+" /\ n.type \in {"int", "float"} -> n
      [] op = "!" -> Truth(EvalInt(n).type = "undef" \/ EvalInt(n).as_int = 0)
      [] op = "~" /\ EvalInt(n).type = "int" -> Integer(-EvalInt(n).as_int - 1)
      [] OTHER -> Undefined

(* eval_int_free(): the string of a text, which nobody else refers to, is    *)
(* not converted.                                                            *)
EvalIntFree(res) ==
    IF res.node.type = "string" /\ ~res.shared THEN Undefined ELSE EvalInt(res.node)

(* What follows is worse by what was reported before.                        *)
After(level, res) == [res EXCEPT !.level = Raise(level, @)]

RECURSIVE Eval(_, _), Pasted(_, _, _)

(* eval_string(), in the order of the elements, up to the first that has no  *)
(* text.                                                                     *)
Pasted(parts, text, quiet) ==
    IF parts = <<>> THEN Fresh(StringNode(text, "none"), None)
    ELSE LET res   == Eval(Head(parts), quiet)
             added == IF Stops(res) THEN res.node ELSE Printed(res.node)
         IN  IF added.type # "string" THEN Result(added, res.level, FALSE)
             ELSE After(res.level, Pasted(Tail(parts), text \o added.as_string, quiet))

EvalId(n, quiet) ==
    IF Len(n.as_list) = 1 /\ n.as_list[1].type = "interp"
    THEN SetAttrIf(Eval(n.as_list[1], quiet), n.attr)
    ELSE LET name == Pasted(n.as_list, <<>>, quiet)
         IN  IF Stops(name) THEN name
             ELSE After(name.level, SetAttrIf(SymbolGet(name.node.as_string, quiet), n.attr))

(* eval_node_oper_1(), _2() and _3(): each operand after the one before, if  *)
(* that has a value; of the branches of "?" the one chosen.                  *)
EvalOper(n, quiet) ==
    LET first == Eval(n.as_args[1], quiet)
    IN  IF Stops(first) THEN first
        ELSE After(first.level,
                   CASE Len(n.as_args) = 1 -> Fresh(Operation1(n.as_oper, Cast(first.node)), None)
                     [] Len(n.as_args) = 2 ->
                          LET second == Eval(n.as_args[2], quiet)
                          IN  IF Stops(second) THEN second
                              ELSE Fresh(Operation2(n.as_oper, first.node, second.node),
                                         second.level)
                     [] Len(n.as_args) = 3 ->
                          LET cond == EvalIntFree(first)
                          IN  IF cond.type = "undef" THEN Missing(None)
                              ELSE Eval(n.as_args[IF cond.as_int # 0 THEN 2 ELSE 3], quiet))

Eval(n, quiet) ==
    CASE n.type = "pc"     -> Fresh(IntNode(Pc, n.attr), None)
      [] n.type = "local"  -> IF LocalLabel.type = "undef" THEN Missing(Inconsistent)
                              ELSE Fresh([LocalLabel EXCEPT !.attr = n.attr], None)
      [] n.type = "interp" -> InterpGet(n.as_index)
      [] n.type = "id"     -> EvalId(n, quiet)
      [] n.type = "text"   -> SetAttr(Pasted(n.as_list, <<>>, quiet), n.attr)
      [] n.type = "oper"   -> SetAttr(EvalOper(n, quiet), n.attr)
      [] OTHER             -> Result(n, None, TRUE)

-----------------------------------------------------------------------------

Init ==
    /\ symbols = <<>>
    /\ sources = <<>>
    /\ args = <<>>
    /\ tried = NoTrial

Alive == tried = NoTrial

(* name EQU e                                                                *)
Equ(name, e) ==
    LET res == Eval(e, FALSE)
    IN  /\ Alive
        /\ name \notin DOMAIN symbols
        /\ res.node.type # "crash"
        /\ symbols' = symbols @@ (name :> res.node)
        /\ sources' = sources @@ (name :> e)
        /\ UNCHANGED <<args, tried>>

(* A macro is called with a list, and left: interp_push() and interp_pop().  *)
Call(list) ==
    /\ Alive
    /\ Len(args) < MaxCalls
    /\ args' = <<[i \in DOMAIN list |-> Eval(list[i], FALSE).node]>> \o args
    /\ UNCHANGED <<symbols, sources, tried>>

Leave ==
    /\ Alive
    /\ args # <<>>
    /\ args' = Tail(args)
    /\ UNCHANGED <<symbols, sources, tried>>

(* An argument of any other line or, quietly, of IF and ELSIF.               *)
Evaluate(e, quiet) ==
    /\ Alive
    /\ tried' = [expr |-> e, quiet |-> quiet, res |-> Eval(e, quiet)]
    /\ UNCHANGED <<symbols, sources, args>>

Trials == IF Alive THEN Tried ELSE {}

Next ==
    \/ \E name \in Names, e \in Defining : Equ(name, e)
    \/ \E list \in Passing : Call(list)
    \/ Leave
    \/ \E e \in Trials, quiet \in BOOLEAN : Evaluate(e, quiet)

Spec == Init /\ [][Next]_vars

-----------------------------------------------------------------------------

Done   == tried # NoTrial
Res      == tried.res
Values   == [i \in DOMAIN tried.expr.as_args |-> Eval(tried.expr.as_args[i], tried.quiet).node]
IsOp(n, ops) ==
    /\ Done
    /\ tried.expr.type = "oper"
    /\ Len(tried.expr.as_args) = n
    /\ tried.expr.as_oper \in ops
Op       == tried.expr.as_oper
Numeric  == {"int", "float"}
InRange(node) == node.type = "int" => node.as_int \in IntMin .. -(IntMin + 1)

(* What the two operands of an operator are cast to, unless both are strings *)
(* or one has no value as a number.                                          *)
Usable == /\ \A i \in 1 .. 2 : Values[i].type \in Numeric \cup {"string"}
          /\ \E i \in 1 .. 2 : Values[i].type # "string"
Left   == Cast(Values[1])
Right  == Cast(Values[2])
OfInts == Usable /\ Left.type = "int" /\ Right.type = "int"

(* Division gives a float, other arithmetic an integer of integers and else  *)
(* a float, comparisons and logic 0 or 1, the rest integers, whatever the    *)
(* operands are and wherever they come from; of README's "Operators".        *)
TypesAsDocumented ==
    (IsOp(2, Relations \cup Arithmetic \cup Bitwises) /\ Usable /\ Res.node.type # "crash") =>
        /\ (Res.node.type = "float") =
               (Op \in Arithmetic /\ (Op = "/" \/ "float" \in {Left.type, Right.type}))
        /\ Res.node.type \in Numeric /\ InRange(Res.node)
        /\ Op \in Relations \cup {"&&", "||"} => Res.node.as_int \in {0, 1}

(* Quotient and remainder, sums, bits and shifts fit together, with any      *)
(* signs and at the ends of the range; of eval_node_oper_2() (eval.c:327).   *)
Other(op) == Operation2(op, Left, Right).as_int
ArithmeticLaws ==
    (IsOp(2, Arithmetic \cup Bitwises) /\ OfInts /\ Res.node.type # "crash") =>
        LET l == Left.as_int r == Right.as_int
        IN  /\ Op = "/" /\ r # 0 => FracEqual(FracMul(Res.node.as_float, <<r, 1>>), <<l, 1>>)
            /\ Op = "%" => /\ (l - Res.node.as_int) % Magnitude(r) = 0
                           /\ Magnitude(Res.node.as_int) < Magnitude(r)
                           /\ Res.node.as_int = 0 \/ (Res.node.as_int < 0) = (l < 0)
            /\ Op = "-" => Wrap(Res.node.as_int + r) = l
            /\ Op = "&" => Wrap(Res.node.as_int + Other("|")) = Wrap(l + r)
            /\ Op = "^" => Wrap(Res.node.as_int + Other("&")) = Other("|")
            /\ Op = ">>" /\ r \in 0 .. Bits - 2 =>
                   l - Res.node.as_int * 2^r \in 0 .. 2^r - 1
            /\ Op = "<<" /\ r \in 0 .. Bits - 2 /\ InRange(IntNode(l * 2^r, "none")) =>
                   Operation2(">>", Res.node, Right).as_int = l

(* Of two numbers, or two strings, exactly one is less or they are equal,    *)
(* the other comparisons follow, and so do those with the operands           *)
(* exchanged; what is no number is only unequal; of eval.c:354-475.          *)
Holds(op)   == Operation2(op, Values[1], Values[2]).as_int
Reversed(op) == Operation2(op, Values[2], Values[1]).as_int
NoNumber(n) == n.type = "float" /\ Nan(n.as_float)
ComparisonsTotal ==
    (IsOp(2, Relations) /\ Res.node.type = "int") =>
        IF NoNumber(Values[1]) \/ NoNumber(Values[2])
        THEN Res.node.as_int = (IF Op = "!=" THEN 1 ELSE 0)
        ELSE /\ Holds("<") + Holds("==") + Holds(">") = 1
             /\ Holds("<=") = 1 - Holds(">") /\ Holds(">=") = 1 - Holds("<")
             /\ Holds("!=") = 1 - Holds("==")
             /\ Holds("<") = Reversed(">") /\ Holds("==") = Reversed("==")

(* Every operator obeys the laws of what it stands for, at the ends of the   *)
(* range, with any signs and between types; of eval.c:354-536.               *)
OperatorsObeyLaws == ArithmeticLaws /\ ComparisonsTotal

(* A symbol means the expression it was given: writing that in its place,    *)
(* or 0 for one a condition does not find, changes neither the value nor the *)
(* reports, unless something it depends on has changed; of symbol_get() and  *)
(* eval_node().  The condition of "?" is left as it is: eval_int_free()      *)
(* takes a symbol's string for a number and refuses the same text written    *)
(* there (eval.c:550).                                                       *)
RECURSIVE Inlined(_)
Inlined(n) ==
    CASE n.type = "id" /\ Len(n.as_list) = 1 /\ n.as_list[1].type = "string" ->
           LET name == n.as_list[1].as_string
           IN  IF name \in DOMAIN sources
               THEN IF n.attr = "none" /\ sources[name].attr \in Signs THEN sources[name]
                    ELSE [sources[name] EXCEPT !.attr = n.attr]
               ELSE IF tried.quiet THEN IntNode(0, n.attr) ELSE n
      [] n.type = "oper" ->
           [n EXCEPT !.as_args = [i \in DOMAIN n.as_args |->
               IF n.as_oper = "?" /\ i = 1 THEN n.as_args[i] ELSE Inlined(n.as_args[i])]]
      [] OTHER -> n

Unchanged == \A name \in DOMAIN symbols :
    symbols[name].type # "undef" /\ Eval(sources[name], tried.quiet).node = symbols[name]
Substitutable ==
    (Done /\ Unchanged)
    => LET other == Eval(Inlined(tried.expr), tried.quiet)
       IN  other.node = Res.node /\ other.level = Res.level

(* A value that is missing has been reported, so that there is another pass, *)
(* or else nothing is amiss: the operands are ones the operator is not for   *)
(* (two strings, a register, a text as a condition, what has no text to be   *)
(* pasted) or an argument the call reported; of the early returns of eval.c. *)
Unfit(op, values) ==
    \/ \E i \in DOMAIN values : values[i].type \in {"reg", "empty"}
    \/ Len(values) = 2 /\ values[1].type = "string" /\ values[2].type = "string"
    \/ op = "?" /\ values[1].type = "string"

RECURSIVE Silenced(_)
Silenced(n) ==
    CASE n.type = "oper" ->
           \/ \E i \in DOMAIN n.as_args : Silenced(n.as_args[i])
           \/ Unfit(n.as_oper, [i \in DOMAIN n.as_args |-> Eval(n.as_args[i], tried.quiet).node])
      [] n.type \in {"id", "text"} ->
           \E i \in DOMAIN n.as_list :
              /\ n.as_list[i].type = "interp"
              /\ Printed(Eval(n.as_list[i], tried.quiet).node).type # "string"
      [] OTHER -> FALSE

UndefinedReported ==
    (Done /\ Res.node.type = "undef") => Res.level >= Inconsistent \/ Silenced(tried.expr)

(* Nothing is reported that the value did not depend on: an operand never    *)
(* read (the branch of "?" not chosen) costs no pass; of eval.c:553.         *)
ReportsJustified == (Done /\ Res.level # None) => Stops(Res)

(* A condition never reports a symbol, only local labels and positional      *)
(* variables, so IF may ask whether one is defined; of symbol_get()          *)
(* (symbol.c:102).                                                           *)
RECURSIVE Leaves(_)
Leaves(n) ==
    CASE n.type = "oper" -> UNION {Leaves(n.as_args[i]) : i \in DOMAIN n.as_args}
      [] n.type \in {"id", "text"} -> UNION {Leaves(n.as_list[i]) : i \in DOMAIN n.as_list}
      [] OTHER -> {n.type}
ConditionQuiet ==
    (Done /\ tried.quiet /\ Leaves(tried.expr) \cap {"local", "interp"} = {})
    => Res.level = None

(* Reports and values fit together: another pass is asked for exactly by     *)
(* what is missing and matters; of the early returns of eval.c and           *)
(* symbol_get().                                                             *)
ReportsMatchValues == UndefinedReported /\ ReportsJustified /\ ConditionQuiet

(* "Bitwise operators and modulo all cast their operands to integers and     *)
(* return an integer" (README:255), strings being used in place of integers  *)
(* (README:209); of eval.c:377.                                              *)
BitwiseReturnsInteger ==
    (/\ IsOp(2, Bitwises)
     /\ \A i \in 1 .. 2 : Values[i].type \in Numeric \cup {"string"})
    => Res.node.type = "int"

=============================================================================
