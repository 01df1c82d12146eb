--------------------------- MODULE MCExpressions ----------------------------
(* Expressions over few leaves: numbers at the ends of the range, strings,   *)
(* registers, symbols (one's name can be pasted from the other's and an      *)
(* argument) and positional variables.                                       *)
EXTENDS Expressions

N(v)    == IntNode(v, "none")
Text(s) == TextNode(<<StringNode(s, "none")>>)
Id(s)   == IdNode(<<StringNode(s, "none")>>)

S      == <<10>>
S1     == <<10, 49>>
Arg    == IdNode(<<InterpNode(1)>>)
SArg   == IdNode(<<StringNode(S, "none"), InterpNode(1)>>)
Quoted == TextNode(<<InterpNode(1), StringNode(<<5>>, "none")>>)
Stepped == RegNode("X", "postinc")
Half   == FloatNode(<<1, 2>>, "none")

MCNames    == {S, S1}
MCDefining == {IntNode(2, "8bit"), Text(<<11, 100>>), Half, Stepped, Oper("+", <<Id(S), N(1)>>)}
MCPassing  == {<<N(1)>>, <<Text(S)>>, <<Stepped>>, <<Id(S1)>>}

Numbers == {N(v) : v \in {-32768, -7, -1, 0, 3, 32767}}
Held    == {Id(S), Id(S1), Arg}
Leafs   == Numbers \cup Held \cup {FloatNode(<<-3, 2>>, "none"), Text(<<11>>), Text(<<11, 12>>)}
Plain   == Leafs \ Held
Ops     == Relations \cup Arithmetic \cup Bitwises
SomeOps == {"<", "==", "/", "%", "&", "||"}

Shallow == {Oper(op, <<m, n>>) : op \in Ops, m, n \in Plain}
    \cup {Oper(op, <<m, n>>) : op \in SomeOps, m \in Held, n \in Leafs}
    \cup {Oper(op, <<m, n>>) : op \in SomeOps, m \in Plain, n \in Held}
    \cup {Oper(op, <<n>>) : op \in {"-", "+", "!", "~"}, n \in Leafs}
    \cup {Oper("?", <<m, Id(S), N(3)>>) : m \in Leafs}
    \cup {[n EXCEPT !.attr = a] : n \in Held \cup {SArg, Quoted, PcNode}, a \in {"none", "8bit"}}
    \cup {Text(<<>>), LocalNode, EmptyNode}

Operand == {Id(S), Arg, N(0), Text(<<11>>)}
Deep == {Oper(p, <<Oper(q, <<a, b>>), c>>) :
            p \in {"/", "+", "<"}, q \in {"/", "%", "&"}, a, b, c \in Operand}
    \cup {Oper("+", <<a, Oper("?", <<b, SArg, c>>)>>) : a, b, c \in Operand}

MCTried == Shallow \cup Deep
MCPc == 5
MCIntMin == -32768
MCRegisterText == [X |-> <<24>>]
MCLocal == Undefined
MCNoTrial == [expr |-> EmptyNode]

=============================================================================
