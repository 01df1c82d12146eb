----------------------------- MODULE MCEncoding -----------------------------
(* Lines for Encoding: every kind of instruction and data pseudo-op, with    *)
(* operands on both sides of every boundary between encodings.               *)
EXTENDS Encoding

Op(ext, mem, length) == [ext |-> ext, mem |-> mem, length |-> length]
Line(op, args)       == [op |-> op, args |-> args, immediate |-> FALSE]

Mem == {"direct", "indexed", "extended"}
Leax == Op("none", {"indexed"}, 1)
Lda  == Op("imm8", Mem, 1)
Ldy  == Op("imm16", Mem, 2)

Boundaries == {-32769, -32768, -129, -128, -17, -16, -1, 0, 1, 15, 16, 127, 128,
               32767, 32768, 65535}
Near  == {4660 + d : d \in {-127, -126, -125, 0, 128, 129, 130, 131, 132}}

Offsets ==
    {IntNode(v, "none") : v \in Boundaries \cup Near}
        \cup {IntNode(v, a) : v \in {-129, -17, 0, 15, 127, 4660}, a \in Coercions}
        \cup {RegNode(r, "none") : r \in {"A", "B", "D", "E", "F", "W", "X"}}
        \cup {RegNode("A", "8bit"), StringNode(<<5>>, "none"), EmptyNode, Undefined}

Bases ==
    {RegNode(r, a) : r \in {"X", "Y", "U", "S", "PC", "PCR", "W", "A"},
                     a \in {"none", "postinc", "postinc2", "predec", "predec2"}}
        \cup {IntNode(1, "none"), Undefined, RegNode("X", "postdec")}

Indexeds ==
    {Line(op, <<n0, n1>>) : op \in {Leax, Ldy}, n0 \in Offsets, n1 \in Bases}
        \cup {Line(Leax, <<ArrayNode(<<n0, n1>>)>>) : n0 \in Offsets, n1 \in Bases}
        \cup {Line(Lda, <<ArrayNode(<<n>>)>>) : n \in Offsets}
        \cup {Line(Lda, <<ArrayNode(<<FloatNode(<<5, 2>>, "none"), RegNode("X", "none")>>)>>)}

Values == {IntNode(v, a) : v \in {0, 1, 255, 256, 4660, 4863, 65535, 65541, -1},
                           a \in {"none", "5bit", "8bit", "16bit", "immediate"}}
    \cup {FloatNode(<<9, 2>>, "none"), StringNode(<<65, 66>>, "none"),
          RegNode("X", "none"), EmptyNode, Undefined}

Addresses ==
    {Line(op, <<n>>) : op \in {Leax, Lda, Ldy}, n \in Values}
        \cup {Line(Op("imm8_mem", Mem, 1), <<IntNode(300, "immediate"), n>>) : n \in Values}
        \cup {Line(Op("imm8_mem", Mem, 1), <<m, IntNode(5, "none"), RegNode("X", "none")>>) :
                  m \in {IntNode(7, "immediate"), Undefined, StringNode(<<65>>, "immediate")}}
        \cup {Line(Lda, <<>>), Line(Leax, <<EmptyNode, EmptyNode, EmptyNode>>)}

Targets == {IntNode(v, a) : v \in Near \cup {0, 37427, 37429, 37430, 65535},
                            a \in {"none", "16bit"}} \cup {Undefined}

Branches ==
    {Line(op, <<n>>) : op \in {Op("rel8", {}, 1), Op("rel16", {}, 1), Op("rel16", {}, 2)},
                       n \in Targets}
        \cup {Line(Op("rel8", {}, 1), <<>>)}

ImmediateOps == {Op("imm8", Mem, 1), Op("imm16", Mem, 2), Op("imm32", Mem, 1)}
ImmediateLines ==
    {[op |-> op, args |-> <<n>>, immediate |-> TRUE] : op \in ImmediateOps, n \in Values}
        \cup {Line(Op("imm8", {}, 1), <<IntNode(5, "none")>>), Line(Op("inherent", {}, 1), <<>>),
              Line(Op("inherent", {}, 1), <<EmptyNode>>)}

AnyReg == {RegNode(r, "none") : r \in Registers}
Pairs ==
    {Line(Op("pair", {}, 1), <<m, n>>) :
        m, n \in AnyReg \cup {IntNode(v, "none") : v \in {-1, 0, 3, 16, WordRange, WordRange + 3}}
                        \cup {Undefined, EmptyNode}}
        \cup {Line(Op("pair", {}, 1), <<EmptyNode>>)}

Stacks ==
    {Line(Op(ext, {}, 1), args) : ext \in {"stacks", "stacku"},
        args \in {<<>>} \cup {<<n>> : n \in AnyReg \cup {Undefined, IntNode(1, "none")}}
                        \cup {<<m, n>> : m, n \in AnyReg}}

Blocks ==
    {Line(Op("tfm", {}, 2), <<m, n>>) :
        m, n \in {RegNode(r, a) : r \in {"X", "D", "PC", "Q"},
                                  a \in {"none", "postinc", "postdec"}}
                 \cup {Undefined, EmptyNode} \cup {IntNode(v, "none") : v \in {2, 5, WordRange + 2}}}

Bits ==
    {Line(Op("reg_mem", {}, 2), <<r, IntNode(s, "none"), d, IntNode(a, "8bit")>>) :
        r \in {RegNode(x, "none") : x \in {"CC", "A", "B", "X"}}
                \cup {Undefined, EmptyNode, IntNode(1, "none")},
        s \in {-1, 0, 7, 8}, d \in {IntNode(3, "none"), IntNode(8, "none"), Undefined},
        a \in {5, 4660}}
        \cup {Line(Op("reg_mem", {}, 2), <<RegNode("A", "none")>>)}

Datum == {IntNode(v, "none") : v \in {-1, 0, 5, 200, 300}}
    \cup {StringNode(s, "none") : s \in {<<>>, <<65>>, <<32, 96, 122>>, <<5, 140>>}}
    \cup {FloatNode(f, "none") : f \in {<<-7, 2>>, <<WordRange + 5, 1>>}}
    \cup {EmptyNode, Undefined, RegNode("X", "none")}

Pseudo(ext, args) == Line(Op(ext, {}, 0), args)
Counts == {IntNode(v, "none") : v \in {-1, 0, 1, 3, 4}}
    \cup {FloatNode(<<5, 2>>, "none"), StringNode(<<49>>, "none"), EmptyNode, Undefined}
UpTo(n, S) == UNION {[1 .. k -> S] : k \in 0 .. n}

DataLines ==
    {Pseudo(ext, args) : ext \in DOMAIN FormMode \cup {"fdb", "fqb"}, args \in UpTo(2, Datum)}
        \cup {Pseudo(ext, args) : ext \in {"rzb", "fill", "rmb", "align"},
                                  args \in UpTo(2, Counts)}
        \cup {Pseudo("includebin", args) : args \in
                  {<<>>, <<StringNode(<<70>>, "none")>>, <<StringNode(<<71>>, "none")>>, <<Undefined>>}}

MCLines == Indexeds \cup Addresses \cup Branches \cup ImmediateLines \cup Pairs
               \cup Stacks \cup Blocks \cup Bits \cup DataLines
MCCounters == {-3, 4660, 65534}
MCAfter == {4660}
MCPages == {-1, 0, 18}
MCGarbage == {-1, 0, 9}
MCFiles == <<70>> :> <<1, 2>>
MCNoLine == Line(Op("none", {}, 0), <<>>)
MCIntMin == -2147483647

=============================================================================
