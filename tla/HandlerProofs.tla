---------------------------- MODULE HandlerProofs ---------------------------
(* Proofs, for any line, program counter and page, of what the handlers that *)
(* encode no address make of their arguments: the registers named are those  *)
(* the processor moves, an operand not known yet is borne, and data read     *)
(* back is what was written.                                                 *)
EXTENDS EncodingProofs

(* What the line encoded last came to is what its handler makes of it.       *)
Handled(l, o, p, page) ==
    LET args == IntArgs(l)
    IN  \/ Is(l, "inherent") /\ o = InstrInherent(args)
        \/ l.op.ext \in Immediates /\ l.immediate /\ o = InstrImmediate(l.op, args)
        \/ Is(l, "imm8_mem") /\ o = InstrImm8Mem(l.op, args, page, p)
        \/ IsMem(l) /\ o = InstrAddress(l.op, args, <<>>, page, p)
        \/ l.op.ext \in {"rel8", "rel16"} /\ o = InstrRel(l.op, args, p + l.op.length)
        \/ Is(l, "stacks") /\ o = InstrStack(args, "S")
        \/ Is(l, "stacku") /\ o = InstrStack(args, "U")
        \/ Is(l, "pair") /\ o \in InstrPair(args)
        \/ Is(l, "tfm") /\ o = InstrTfm(args)
        \/ Is(l, "reg_mem") /\ o = InstrRegMem(args)
        \/ l.op.ext \in DOMAIN FormMode /\ o = PseudoForm(l.op.ext, l.args)
        \/ l.op.ext \in {"fdb", "fqb"} /\ o = PseudoWords(l.op.ext, l.args)
        \/ l.op.ext \in {"rzb", "fill"} /\ o = PseudoFill(l.op.ext, l.args)
        \/ Is(l, "rmb") /\ o = PseudoRmb(l.args)
        \/ Is(l, "align") /\ o = PseudoAlign(l.args, p)
        \/ Is(l, "includebin") /\ o = PseudoIncludebin(l.args)
        \/ l.op.ext \in Immediates /\ ~l.immediate /\ l.op.mem = {} /\ o = Refuse("none")

DInv ==
    /\ pc \in Int
    /\ line # NoLine => line \in Lines /\ Handled(line, out, pc, dp)

LEMMA InitDInv == Init => DInv
BY EncodingConstants DEF Init, DInv

LEMMA NextDInv == DInv /\ [Next]_vars => DInv'
<1> SUFFICES ASSUME DInv, [Next]_vars PROVE DInv'
  OBVIOUS
<1>1. CASE UNCHANGED vars
  BY <1>1 DEF vars, DInv
<1>2. CASE Next
  <2>1. PICK l \in Lines :
           \/ Inherent(l) \/ Immediate(l) \/ Imm8Mem(l) \/ Address(l) \/ Rel(l)
           \/ StackS(l) \/ StackU(l) \/ Pair(l) \/ Tfm(l) \/ RegMem(l)
           \/ Form(l) \/ Words(l) \/ Fill(l) \/ Rmb(l) \/ Align(l) \/ Includebin(l)
           \/ NoMode(l)
    BY <1>2, Zenon DEF Next, Waiting
  <2>2. line' = l /\ pc' = pc /\ dp' = dp
    BY <2>1 DEF Inherent, Immediate, Imm8Mem, Address, Rel, StackS, StackU, Pair, Tfm,
                RegMem, Form, Words, Fill, Rmb, Align, Includebin, NoMode, Yields
  <2>3. Handled(l, out', pc, dp)
    <3>1. CASE Inherent(l) \/ Immediate(l) \/ Imm8Mem(l) \/ Address(l) \/ Rel(l) \/ StackS(l) \/ StackU(l)
      BY <3>1 DEF Inherent, Immediate, Imm8Mem, Address, Rel, StackS, StackU, Yields, Handled
    <3>2. CASE Pair(l) \/ Tfm(l) \/ RegMem(l)
      BY <3>2 DEF Pair, Tfm, RegMem, Yields, Handled
    <3>3. CASE Form(l) \/ Words(l) \/ Fill(l)
      BY <3>3, Zenon DEF Form, Words, Fill, Yields, Handled
    <3>4. CASE Rmb(l)
      <4>1. Is(l, "rmb") /\ out' = PseudoRmb(l.args)
        BY <3>4 DEF Rmb, Yields, Is
      <4> QED BY <4>1 DEF Handled
    <3>7. CASE Align(l)
      <4>1. Is(l, "align") /\ out' = PseudoAlign(l.args, pc)
        BY <3>7 DEF Align, Yields, Is
      <4> QED BY <4>1 DEF Handled
    <3>6. CASE Includebin(l)
      <4>1. Is(l, "includebin") /\ out' = PseudoIncludebin(l.args)
        BY <3>6 DEF Includebin, Yields, Is
      <4> QED BY <4>1 DEF Handled
    <3>5. CASE NoMode(l)
      BY <3>5, Zenon DEF NoMode, Yields, Handled
    <3> QED BY <2>1, <3>1, <3>2, <3>3, <3>4, <3>5, <3>6, <3>7, Zenon
  <2> QED BY <2>2, <2>3 DEF DInv
<1> QED BY <1>1, <1>2

(* Which handler it is, the type of the mnemonic says.                       *)
LEMMA OwnHandler ==
    ASSUME NEW l \in Lines, NEW o, NEW p, NEW page, Handled(l, o, p, page)
    PROVE  LET args == IntArgs(l)
           IN  /\ Is(l, "stacks") => o = InstrStack(args, "S")
               /\ Is(l, "stacku") => o = InstrStack(args, "U")
               /\ Is(l, "pair") => o \in InstrPair(args)
               /\ Is(l, "tfm") => o = InstrTfm(args)
               /\ Is(l, "reg_mem") => o = InstrRegMem(args)
               /\ l.op.ext \in {"fcb", "fcc", "fcn", "fcv", "fci", "fcs"} => o = PseudoForm(l.op.ext, l.args)
               /\ Is(l, "fdb") => o = PseudoWords("fdb", l.args)
               /\ Is(l, "align") => o = PseudoAlign(l.args, p)
<1>1. IsMem(l) => l.op.ext \in {"none", "imm8", "imm16", "imm32"}
  BY EncodingConstants DEF IsMem, Immediates
<1> QED BY <1>1 DEF Handled, Is, Immediates, FormMode

(* Without an immediate byte before it, the operand's code is all the bytes. *)
LEMMA AllCode ==
    ASSUME ~Is(line, "imm8_mem"), out.bytes \in Seq(Int)
    PROVE  Code = out.bytes
BY DEF Code, Skipped

-----------------------------------------------------------------------------
(* The registers of PSHS and its kin.  A byte is the sum of its bits.        *)
LEMMA ByteBits ==
    ASSUME NEW B
    PROVE  /\ Byte(B) \in 0 .. 255
           /\ \A k \in 1 .. 8 : (Byte(B) \div StackMasks[k]) % 2 = 1 <=> StackMasks[k] \in B
<1> DEFINE b(m) == IF m \in B THEN 1 ELSE 0
<1>1. \A m : b(m) \in {0, 1} /\ (b(m) = 1 <=> m \in B)
  OBVIOUS
<1>2. Byte(B) = b(1) + 2 * b(2) + 4 * b(4) + 8 * b(8) + 16 * b(16) + 32 * b(32) + 64 * b(64) + 128 * b(128)
  BY DEF Byte
<1> HIDE DEF b
<1> DEFINE v == Byte(B)
<1> HIDE DEF v
<1>3. PICK b1, b2, b3, b4, b5, b6, b7, b8 \in {0, 1} :
         /\ b1 = b(1) /\ b2 = b(2) /\ b3 = b(4) /\ b4 = b(8)
         /\ b5 = b(16) /\ b6 = b(32) /\ b7 = b(64) /\ b8 = b(128)
  BY <1>1
<1>4. v = b1 + 2 * b2 + 4 * b3 + 8 * b4 + 16 * b5 + 32 * b6 + 64 * b7 + 128 * b8
  BY <1>2, <1>3 DEF v
<1>5. v \in 0 .. 255
  BY <1>4
<1>6. /\ (v \div 1) % 2 = b1 /\ (v \div 2) % 2 = b2 /\ (v \div 4) % 2 = b3 /\ (v \div 8) % 2 = b4
      /\ (v \div 16) % 2 = b5 /\ (v \div 32) % 2 = b6 /\ (v \div 64) % 2 = b7 /\ (v \div 128) % 2 = b8
  BY <1>4
<1>7. \A k \in 1 .. 8 : (v \div StackMasks[k]) % 2 = b(StackMasks[k])
  BY <1>3, <1>6 DEF StackMasks
<1>8. \A k \in 1 .. 8 : (v \div StackMasks[k]) % 2 = 1 <=> StackMasks[k] \in B
  BY <1>1, <1>7
<1> QED BY <1>5, <1>8 DEF v

StackName(k, other) == <<"CC", "A", "B", "DP", "X", "Y", other, "PC">>[k]
Named2(r) == IF r = "D" THEN {"A", "B"} ELSE {r}

LEMMA RegisterBits ==
    ASSUME NEW stack \in {"S", "U"}, NEW r \in Registers, r # stack, StackBits[r] # {}
    PROVE  Named2(r) = {StackName(k, IF stack = "S" THEN "U" ELSE "S") :
                           k \in {j \in 1 .. 8 : StackMasks[j] \in StackBits[r]}}
<1> DEFINE other == IF stack = "S" THEN "U" ELSE "S"
           K == {j \in 1 .. 8 : StackMasks[j] \in StackBits[r]}
<1>1. r \in {"CC", "A", "B", "DP", "X", "Y", "U", "S", "PC", "D"}
  BY DEF Registers, TfrNibble, StackBits
<1>2. r \in {"U", "S"} => r = other
  OBVIOUS
<1>3. CASE r = "CC"
  <2>1. K = {1}
    BY <1>3 DEF StackMasks, StackBits
  <2> QED BY <1>3, <2>1 DEF StackName, Named2
<1>4. CASE r = "A"
  <2>1. K = {2}
    BY <1>4 DEF StackMasks, StackBits
  <2> QED BY <1>4, <2>1 DEF StackName, Named2
<1>5. CASE r = "B"
  <2>1. K = {3}
    BY <1>5 DEF StackMasks, StackBits
  <2> QED BY <1>5, <2>1 DEF StackName, Named2
<1>6. CASE r = "DP"
  <2>1. K = {4}
    BY <1>6 DEF StackMasks, StackBits
  <2> QED BY <1>6, <2>1 DEF StackName, Named2
<1>7. CASE r = "X"
  <2>1. K = {5}
    BY <1>7 DEF StackMasks, StackBits
  <2> QED BY <1>7, <2>1 DEF StackName, Named2
<1>8. CASE r = "Y"
  <2>1. K = {6}
    BY <1>8 DEF StackMasks, StackBits
  <2> QED BY <1>8, <2>1 DEF StackName, Named2
<1>9. CASE r \in {"U", "S"}
  <2>1. K = {7}
    BY <1>9 DEF StackMasks, StackBits
  <2> QED BY <1>2, <1>9, <2>1 DEF StackName, Named2
<1>10. CASE r = "PC"
  <2>1. K = {8}
    BY <1>10 DEF StackMasks, StackBits
  <2> QED BY <1>10, <2>1 DEF StackName, Named2
<1>11. CASE r = "D"
  <2>1. K = {2, 3}
    BY <1>11 DEF StackMasks, StackBits
  <2> QED BY <1>11, <2>1 DEF StackName, Named2
<1> QED BY <1>1, <1>3, <1>4, <1>5, <1>6, <1>7, <1>8, <1>9, <1>10, <1>11

LEMMA StackRead ==
    ASSUME NEW args, NEW stack \in {"S", "U"}, \A i \in DOMAIN args : Evaluated(args[i]),
           NEW o, o = InstrStack(args, stack), ~Failing(o.error)
    PROVE  /\ o.bytes \in Seq(Int)
           /\ \A i \in DOMAIN args : args[i].type = "reg"
           /\ Stacked(o.bytes[1], IF stack = "S" THEN "U" ELSE "S")
                  = UNION {Named2(args[i].as_reg) : i \in DOMAIN args}
<1> DEFINE B == UNION {StackBits[args[i].as_reg] : i \in DOMAIN args}
           other == IF stack = "S" THEN "U" ELSE "S"
<1>1. /\ \A i \in DOMAIN args : args[i].type = "reg" /\ args[i].as_reg # stack
                                  /\ StackBits[args[i].as_reg] # {}
      /\ o = Emit("immediate", Uint8(Byte(B)), None)
  <2> DEFINE Bad == \E i \in DOMAIN args : \/ args[i].type # "reg"
                                            \/ args[i].as_reg = stack
                                            \/ StackBits[args[i].as_reg] = {}
             e == Emit("immediate", Uint8(Byte(B)), None)
  <2>1. o = IF Bad THEN Refuse("none") ELSE e
    BY DEF InstrStack
  <2>2. Failing(Refuse("none").error)
    BY DEF Refuse, Emit, Failing, Syntax, Inconsistent
  <2> HIDE DEF Bad, e
  <2>3. ~Bad /\ o = e
    BY <2>1, <2>2
  <2> QED BY <2>3 DEF Bad, e
<1> HIDE DEF B
<1>2. Byte(B) \in 0 .. 255 /\ \A k \in 1 .. 8 : (Byte(B) \div StackMasks[k]) % 2 = 1 <=> StackMasks[k] \in B
  BY ByteBits
<1>3. o.bytes = <<Byte(B)>>
  <2>1. Byte(B) % 256 = Byte(B)
    BY <1>2
  <2> QED BY <1>1, <2>1 DEF Emit, Uint8
<1>4. Stacked(Byte(B), other) = {StackName(k, other) : k \in {j \in 1 .. 8 : StackMasks[j] \in B}}
  BY <1>2 DEF Stacked, StackName
<1>5. \A i \in DOMAIN args : Named2(args[i].as_reg) = {StackName(k, other) :
                               k \in {j \in 1 .. 8 : StackMasks[j] \in StackBits[args[i].as_reg]}}
  <2>1. \A i \in DOMAIN args : args[i].as_reg \in Registers
    BY <1>1 DEF Evaluated
  <2> QED BY <1>1, <2>1, RegisterBits
<1>6. \A x : x \in B <=> \E i \in DOMAIN args : x \in StackBits[args[i].as_reg]
  BY DEF B
<1> HIDE DEF other
<1>7. ASSUME NEW x
      PROVE  x \in Stacked(Byte(B), other) <=> \E i \in DOMAIN args : x \in Named2(args[i].as_reg)
  <2>1. x \in Stacked(Byte(B), other) <=>
            \E k \in 1 .. 8 : StackMasks[k] \in B /\ x = StackName(k, other)
    BY <1>4
  <2>2. ASSUME NEW i \in DOMAIN args
        PROVE  x \in Named2(args[i].as_reg) <=>
                   \E k \in 1 .. 8 : StackMasks[k] \in StackBits[args[i].as_reg] /\ x = StackName(k, other)
    BY <1>5
  <2> QED BY <1>6, <2>1, <2>2, Zenon
<1>8. Stacked(Byte(B), other) = UNION {Named2(args[i].as_reg) : i \in DOMAIN args}
  BY <1>7, Zenon
<1>9. o.bytes \in Seq(Int) /\ o.bytes[1] = Byte(B)
  <2> HIDE DEF B
  <2> QED BY <1>2, <1>3
<1> QED BY <1>1, <1>8, <1>9, Zenon DEF other

-----------------------------------------------------------------------------
(* The registers of TFR and its kin.                                         *)
NamedRegs == {"CC", "A", "B", "DP", "X", "Y", "U", "S", "PC", "D", "E", "F", "W", "V"}

LEMMA NibbleOf ==
    ASSUME NEW r \in NamedRegs
    PROVE  /\ TfrNibble[r] \in 0 .. 15
           /\ NibbleNames[TfrNibble[r]] = r
           /\ TfrSize[r] = {8} \/ TfrSize[r] = {16}
<1>1. TfrNibble[r] \in 0 .. 15 /\ (TfrSize[r] = {8} \/ TfrSize[r] = {16})
  BY DEF NamedRegs, TfrNibble, TfrSize
<1>2. NibbleNames[TfrNibble[r]] =
          <<"D", "X", "Y", "U", "S", "PC", "W", "V", "A", "B", "CC", "DP", "0", "0", "E", "F">>[TfrNibble[r] + 1]
  BY <1>1 DEF NibbleNames
<1>3. NibbleNames[TfrNibble[r]] = r
  BY <1>2 DEF NamedRegs, TfrNibble
<1> QED BY <1>1, <1>3

LEMMA NamedRegister ==
    ASSUME NEW n, Evaluated(n), Named(n)
    PROVE  n.as_reg \in NamedRegs
BY DEF Evaluated, Named, NamedRegs, Registers, TfrNibble

(* Two nibbles of a byte.                                                    *)
LEMMA TwoNibbles ==
    ASSUME NEW hi \in 0 .. 15, NEW lo \in 0 .. 15
    PROVE  LET b == PairByte(hi, lo)
           IN  b \in 0 .. 255 /\ b \div 16 = hi /\ b % 16 = lo
<1>1. PairByte(hi, lo) = 16 * hi + lo
  <2>1. (16 * hi + lo) % 256 = 16 * hi + lo
    OBVIOUS
  <2> QED BY <2>1 DEF PairByte
<1> QED BY <1>1

LEMMA NibblesRead ==
    ASSUME NEW q \in NamedRegs, NEW r \in NamedRegs
    PROVE  LET b == PairByte(TfrNibble[q], TfrNibble[r])
           IN  b \in Int /\ Nibbles(b) = <<q, r>>
<1> DEFINE b == PairByte(TfrNibble[q], TfrNibble[r])
<1>1. /\ b \in Int /\ b \div 16 = TfrNibble[q] /\ b % 16 = TfrNibble[r]
  <2>1. TfrNibble[q] \in 0 .. 15 /\ TfrNibble[r] \in 0 .. 15
    BY NibbleOf
  <2>2. b \in 0 .. 255 /\ b \div 16 = TfrNibble[q] /\ b % 16 = TfrNibble[r]
    BY <2>1, TwoNibbles
  <2> HIDE DEF b
  <2> QED BY <2>2
<1>2. NibbleNames[TfrNibble[q]] = q /\ NibbleNames[TfrNibble[r]] = r
  BY NibbleOf
<1> HIDE DEF b
<1> QED BY <1>1, <1>2 DEF Nibbles, b

LEMMA PairRead ==
    ASSUME NEW args, Len(args) = 2, Evaluated(args[1]), Evaluated(args[2]),
           Named(args[1]), Named(args[2]), NEW o \in InstrPair(args)
    PROVE  /\ o.bytes \in Seq(Int)
           /\ Nibbles(o.bytes[1]) = <<args[1].as_reg, args[2].as_reg>>
           /\ (o.error = None) = (TfrSize[args[1].as_reg] = TfrSize[args[2].as_reg])
<1> DEFINE q == args[1].as_reg
           r == args[2].as_reg
           P(x) == [nibble |-> TfrNibble[x], size |-> TfrSize[x], error |-> None]
           b == PairByte(TfrNibble[q], TfrNibble[r])
           e == Raise(Raise(None, None), IF TfrSize[q] \cap TfrSize[r] = {} THEN Illegal ELSE None)
<1>1. q \in NamedRegs /\ r \in NamedRegs
  BY NamedRegister
<1>2. PairArg(args[1]) = {P(q)} /\ PairArg(args[2]) = {P(r)}
  BY DEF PairArg, Named
<1>3. ~\E i \in 1 .. 2 : PairArg(args[i]) = {}
  <2>1. PairArg(args[1]) # {} /\ PairArg(args[2]) # {}
    BY <1>2, Zenon
  <2> QED BY <2>1
<1>4. o = Emit("immediate", <<b>>, e)
  <2> DEFINE Z == {Emit("immediate", <<PairByte(x.nibble, y.nibble)>>,
                       Raise(Raise(x.error, y.error),
                             IF x.size \cap y.size = {} THEN Illegal ELSE None)) :
                      x \in PairArg(args[1]), y \in PairArg(args[2])}
  <2>4. InstrPair(args) = IF Len(args) # 2 THEN {Refuse("none")}
                          ELSE IF \E i \in 1 .. 2 : PairArg(args[i]) = {} THEN {Refuse("none")} ELSE Z
    BY DEF InstrPair
  <2> HIDE DEF Z
  <2>1. InstrPair(args) = Z
    BY <1>3, <2>4
  <2> USE DEF Z
  <2>2. PICK x \in PairArg(args[1]), y \in PairArg(args[2]) :
           o = Emit("immediate", <<PairByte(x.nibble, y.nibble)>>,
               Raise(Raise(x.error, y.error),
                     IF x.size \cap y.size = {} THEN Illegal ELSE None))
    BY <2>1
  <2>3. x = P(q) /\ y = P(r)
    BY <1>2, <2>2
  <2> QED BY <2>2, <2>3
<1>5. b \in Int /\ Nibbles(b) = <<q, r>>
  BY <1>1, NibblesRead
<1>6. e = (IF TfrSize[q] \cap TfrSize[r] = {} THEN Illegal ELSE None) /\ Illegal # None
  BY DEF Raise, None, Illegal, Inconsistent
<1>7. (TfrSize[q] \cap TfrSize[r] = {}) <=> TfrSize[q] # TfrSize[r]
  <2>1. /\ TfrSize[q] = {8} \/ TfrSize[q] = {16}
        /\ TfrSize[r] = {8} \/ TfrSize[r] = {16}
    BY <1>1, NibbleOf
  <2>2. {8} \cap {16} = {} /\ {16} \cap {8} = {} /\ {8} # {16} /\ {8} \cap {8} # {} /\ {16} \cap {16} # {}
    OBVIOUS
  <2> QED BY <2>1, <2>2, Zenon
<1> HIDE DEF b, e, q, r
<1>8. o.bytes = <<b>> /\ o.error = e
  BY <1>4 DEF Emit
<1>9. (o.error = None) = (TfrSize[q] = TfrSize[r])
  BY <1>6, <1>7, <1>8
<1> QED BY <1>5, <1>8, <1>9 DEF q, r

(* TFM: its registers are the first five; the table says in which direction. *)
LEMMA TfmMode ==
    ASSUME NEW from, NEW to
    PROVE  LET k == SelectInSeq(TfmModes, LAMBDA m : m = <<from, to>>)
           IN  k # 0 => k \in 1 .. 4 /\ TfmModes[k] = <<from, to>>
<1> DEFINE T == {j \in 1 .. Len(TfmModes) : TfmModes[j] = <<from, to>>}
           k == SelectInSeq(TfmModes, LAMBDA m : m = <<from, to>>)
<1>1. Len(TfmModes) = 4
  BY DEF TfmModes
<1>2. k = IF T # {} THEN Min(T) ELSE 0
  BY DEF SelectInSeq
<1>3. T \subseteq Nat /\ T \subseteq 1 .. 4
  BY <1>1
<1>4. \A j \in T : TfmModes[j] = <<from, to>>
  OBVIOUS
<1> HIDE DEF T, k
<1>5. T # {} => Min(T) \in T
  <2>1. SUFFICES ASSUME T # {} PROVE Min(T) \in T
    OBVIOUS
  <2>2. \E x \in T : \A y \in T : x <= y
    BY <1>3, <2>1, Least
  <2> QED BY <2>2 DEF Min
<1>6. k # 0 => k \in 1 .. 4 /\ TfmModes[k] = <<from, to>>
  BY <1>2, <1>3, <1>4, <1>5
<1> QED BY <1>6 DEF k

LEMMA TfmDirection ==
    ASSUME NEW from, NEW to, NEW k \in 1 .. 4, TfmModes[k] = <<from, to>>
    PROVE  <<"tfm++", "tfm--", "tfm+.", "tfm.+">>[k] = Direction(from, to)
<1>1. CASE k = 1
  BY <1>1 DEF TfmModes, Direction
<1>2. CASE k = 2
  BY <1>2 DEF TfmModes, Direction
<1>3. CASE k = 3
  BY <1>3 DEF TfmModes, Direction
<1>4. CASE k = 4
  BY <1>4 DEF TfmModes, Direction
<1> QED BY <1>1, <1>2, <1>3, <1>4

LEMMA TfmRead ==
    ASSUME NEW args, Evaluated(args[1]), Evaluated(args[2]),
           args[1].type = "reg", args[2].type = "reg",
           NEW o, o = InstrTfm(args), ~Failing(o.error)
    PROVE  /\ o.bytes \in Seq(Int)
           /\ Nibbles(o.bytes[1]) = <<args[1].as_reg, args[2].as_reg>>
           /\ o.form = Direction(args[1].attr, args[2].attr)
<1> DEFINE q == args[1].as_reg
           r == args[2].as_reg
           b == PairByte(TfrNibble[q], TfrNibble[r])
           k == SelectInSeq(TfmModes, LAMBDA m : m = <<args[1].attr, args[2].attr>>)
           form == <<"tfm++", "tfm--", "tfm+.", "tfm.+">>[k]
           e == Raise(TfmError(args[1]), TfmError(args[2]))
           Bad == TfmRefuses(args[1]) \/ TfmRefuses(args[2]) \/ k = 0
           x == Emit(form, <<PairByte(TfmNibble(args[1]), TfmNibble(args[2]))>>, e)
<1>1. o = IF Len(args) # 2 THEN Refuse("none") ELSE IF Bad THEN Refuse("none") ELSE x
  BY DEF InstrTfm
<1>2. Failing(Refuse("none").error)
  BY DEF Refuse, Emit, Failing, Syntax, Inconsistent
<1>3. o = x /\ ~Bad
  <2> HIDE DEF Bad, x
  <2> QED BY <1>1, <1>2
<1>4. TfrNibble[q] \in 0 .. 4 /\ TfrNibble[r] \in 0 .. 4
  BY <1>3 DEF TfmRefuses
<1>5. q \in NamedRegs /\ r \in NamedRegs
  <2>1. q \in Registers /\ r \in Registers
    BY DEF Evaluated
  <2>2. TfrNibble["Q"] = -1 /\ TfrNibble["PCR"] = -1
    BY DEF TfrNibble
  <2>3. q \notin {"Q", "PCR"} /\ r \notin {"Q", "PCR"}
    BY <1>4, <2>2
  <2> QED BY <2>1, <2>3 DEF NamedRegs, Registers, TfrNibble
<1>6. b \in Int /\ Nibbles(b) = <<q, r>>
  BY <1>5, NibblesRead
<1>7. x.bytes = <<b>> /\ x.form = form
  BY DEF Emit, TfmNibble
<1>8. form = Direction(args[1].attr, args[2].attr)
  <2>1. k \in 1 .. 4 /\ TfmModes[k] = <<args[1].attr, args[2].attr>>
    BY <1>3, TfmMode
  <2> QED BY <2>1, TfmDirection
<1> HIDE DEF x, b, form, q, r
<1> QED BY <1>3, <1>6, <1>7, <1>8 DEF q, r

(* Bit operations: three fields of a byte.                                   *)
LEMMA Fields ==
    ASSUME NEW r \in 0 .. 2, NEW s \in 0 .. 7, NEW d \in 0 .. 7
    PROVE  LET b == 64 * r + 8 * s + d
           IN  b \div 64 = r /\ (b \div 8) % 8 = s /\ b % 8 = d
OBVIOUS

LEMMA RegMemRead ==
    ASSUME NEW args, NEW o, o = InstrRegMem(args), ~Failing(o.error), args[1].type = "reg",
           Evaluated(args[2]), Evaluated(args[3]), Evaluated(args[4])
    PROVE  /\ o.bytes \in Seq(Int)
           /\ <<"CC", "A", "B">>[o.bytes[1] \div 64 + 1] = args[1].as_reg
           /\ args[2].type = "int" => (o.bytes[1] \div 8) % 8 = args[2].as_int
           /\ args[3].type = "int" => o.bytes[1] % 8 = args[3].as_int
<1> DEFINE r == args[1].as_reg
           s == Bit(args[2])
           d == Bit(args[3])
           low == IF args[4].type = "int" THEN Uint8(args[4].as_int) ELSE Pad(1)
           e == IF BitRefused(args[2]) \/ BitRefused(args[3]) THEN OutOfRange
                ELSE IF args[1].type = "int" THEN Illegal ELSE None
           x == Emit("direct", <<RegMemRegister[r] + 8 * s + d>> \o low, e)
<1>1. o = x /\ r \in DOMAIN RegMemRegister
  <2> DEFINE Bad == \/ args[1].type \notin {"undef", "int", "reg"}
                    \/ args[1].type = "reg" /\ r \notin DOMAIN RegMemRegister
  <2>1. o = IF Len(args) # 4 THEN Refuse("none") ELSE IF Bad THEN Refuse("none") ELSE x
    BY DEF InstrRegMem
  <2>2. Failing(Refuse("none").error)
    BY DEF Refuse, Emit, Failing, Syntax, Inconsistent
  <2>3. ~Bad => r \in DOMAIN RegMemRegister
    OBVIOUS
  <2> HIDE DEF Bad, x
  <2> QED BY <2>1, <2>2, <2>3
<1>2. ~BitRefused(args[2]) /\ ~BitRefused(args[3])
  <2>1. o.error = e
    BY <1>1 DEF Emit
  <2>2. BitRefused(args[2]) \/ BitRefused(args[3]) => e = OutOfRange
    OBVIOUS
  <2>3. Failing(OutOfRange)
    BY DEF Failing, OutOfRange, Inconsistent
  <2> QED BY <2>1, <2>2, <2>3
<1>3. /\ s \in 0 .. 7 /\ (args[2].type = "int" => s = args[2].as_int)
      /\ d \in 0 .. 7 /\ (args[3].type = "int" => d = args[3].as_int)
  BY <1>2 DEF Bit, BitRefused
<1>4. PICK k \in 0 .. 2 : RegMemRegister[r] = 64 * k /\ <<"CC", "A", "B">>[k + 1] = r
  <2>1. CASE r = "CC"
    <3>1. RegMemRegister[r] = 64 * 0 /\ <<"CC", "A", "B">>[0 + 1] = r
      BY <2>1 DEF RegMemRegister
    <3> QED BY <3>1
  <2>2. CASE r = "A"
    <3>1. RegMemRegister[r] = 64 * 1 /\ <<"CC", "A", "B">>[1 + 1] = r
      BY <2>2 DEF RegMemRegister
    <3> QED BY <3>1
  <2>3. CASE r = "B"
    <3>1. RegMemRegister[r] = 64 * 2 /\ <<"CC", "A", "B">>[2 + 1] = r
      BY <2>3 DEF RegMemRegister
    <3> QED BY <3>1
  <2> QED BY <1>1, <2>1, <2>2, <2>3 DEF RegMemRegister
<1>5. low \in Seq(Int)
  <2>1. CASE args[4].type = "int"
    <3>1. args[4].as_int \in Int
      BY <2>1 DEF Evaluated
    <3> QED BY <2>1, <3>1 DEF Uint8
  <2>2. CASE args[4].type # "int"
    BY <2>2 DEF Pad
  <2> QED BY <2>1, <2>2
<1> DEFINE b == 64 * k + 8 * s + d
<1>6. b \in Int /\ b \div 64 = k /\ (b \div 8) % 8 = s /\ b % 8 = d
  <2> HIDE DEF s, d
  <2>1. b \in Int
    BY <1>3
  <2> QED BY <1>3, <2>1, Fields
<1>7. o.bytes = <<b>> \o low
  BY <1>1, <1>4 DEF Emit
<1>8. o.bytes \in Seq(Int) /\ o.bytes[1] = b
  <2> HIDE DEF b, low, x
  <2> QED BY <1>5, <1>6, <1>7
<1> HIDE DEF b, s, d, x
<1> QED BY <1>3, <1>4, <1>6, <1>8

-----------------------------------------------------------------------------
LEMMA DInvRegisters == DInv => RegistersKept
<1> SUFFICES ASSUME DInv, Accepted PROVE RegistersKept
  BY DEF RegistersKept
<1> DEFINE args == IntArgs(line)
<1>1. line \in Lines /\ Handled(line, out, pc, dp) /\ ~Failing(out.error)
  BY DEF DInv, Accepted
<1>2. /\ Is(line, "stacks") => out = InstrStack(args, "S")
      /\ Is(line, "stacku") => out = InstrStack(args, "U")
      /\ Is(line, "pair") => out \in InstrPair(args)
      /\ Is(line, "tfm") => out = InstrTfm(args)
      /\ Is(line, "reg_mem") => out = InstrRegMem(args)
  BY <1>1, OwnHandler, Zenon
<1>3. /\ DOMAIN args = 1 .. Len(args) /\ Len(args) = Len(line.args) /\ Len(args) \in Nat
      /\ DOMAIN line.args = DOMAIN args
      /\ \A i \in DOMAIN args :
             /\ Evaluated(args[i])
             /\ line.args[i].type # "float" => args[i] = line.args[i]
             /\ line.args[i].type = "float" => args[i].type = "int"
  BY <1>1, ArgsType DEF IntArgs
<1>4. \A i \in DOMAIN args : args[i].type = "reg" => line.args[i] = args[i]
  BY <1>3
<1>5. \A i \in DOMAIN args : line.args[i].type \in {"int", "reg"} => args[i] = line.args[i]
  BY <1>3
<1> HIDE DEF args
<1>6. Failing(Refuse("none").error)
  BY DEF Refuse, Emit, Failing, Syntax, Inconsistent
<1>7. ASSUME NEW stack \in {"S", "U"}, out = InstrStack(args, stack), ~Is(line, "imm8_mem")
      PROVE  Stacked(Code[1], IF stack = "S" THEN "U" ELSE "S") = StackedNames
  <2>1. /\ out.bytes \in Seq(Int)
        /\ \A i \in DOMAIN args : args[i].type = "reg"
        /\ Stacked(out.bytes[1], IF stack = "S" THEN "U" ELSE "S")
               = UNION {Named2(args[i].as_reg) : i \in DOMAIN args}
    BY <1>1, <1>3, <1>7, StackRead
  <2>2. Code = out.bytes
    BY <1>7, <2>1, AllCode
  <2>3. StackedNames = UNION {Named2(line.args[i].as_reg) : i \in DOMAIN line.args}
    BY Zenon DEF StackedNames, Named2
  <2>4. {Named2(line.args[i].as_reg) : i \in DOMAIN line.args} = {Named2(args[i].as_reg) : i \in DOMAIN args}
    BY <1>3, <1>4, <2>1
  <2> QED BY <2>1, <2>2, <2>3, <2>4, Zenon
<1>8. /\ Is(line, "stacks") => Stacked(Code[1], "U") = StackedNames
      /\ Is(line, "stacku") => Stacked(Code[1], "S") = StackedNames
  <2>1. ASSUME Is(line, "stacks") PROVE Stacked(Code[1], "U") = StackedNames
    BY <1>2, <1>7, <2>1 DEF Is
  <2>2. ASSUME Is(line, "stacku") PROVE Stacked(Code[1], "S") = StackedNames
    BY <1>2, <1>7, <2>2 DEF Is
  <2> QED BY <2>1, <2>2
<1>9. ASSUME Is(line, "pair"), \A i \in 1 .. 2 : Named(line.args[i])
      PROVE  /\ Nibbles(Code[1]) = <<line.args[1].as_reg, line.args[2].as_reg>>
             /\ (out.error = None) = (TfrSize[line.args[1].as_reg] = TfrSize[line.args[2].as_reg])
  <2>1. Len(args) = 2
    <3>1. Len(args) # 2 => InstrPair(args) = {Refuse("none")}
      BY DEF InstrPair
    <3> QED BY <1>1, <1>2, <1>6, <1>9, <3>1
  <2>2. \A i \in 1 .. 2 : args[i] = line.args[i] /\ Evaluated(args[i]) /\ Named(args[i])
    BY <1>3, <1>9, <2>1 DEF Named
  <2>3. Evaluated(args[1]) /\ Evaluated(args[2]) /\ Named(args[1]) /\ Named(args[2])
    BY <2>2
  <2>4. out \in InstrPair(args)
    BY <1>2, <1>9
  <2>5. /\ out.bytes \in Seq(Int)
        /\ Nibbles(out.bytes[1]) = <<args[1].as_reg, args[2].as_reg>>
        /\ (out.error = None) = (TfrSize[args[1].as_reg] = TfrSize[args[2].as_reg])
    BY <2>1, <2>3, <2>4, PairRead, Zenon
  <2>6. Code = out.bytes
    BY <1>9, <2>5, AllCode DEF Is
  <2>7. args[1] = line.args[1] /\ args[2] = line.args[2]
    BY <2>2
  <2> QED BY <2>5, <2>6, <2>7
<1>10. ASSUME Is(line, "tfm"), \A i \in 1 .. 2 : line.args[i].type = "reg"
       PROVE  /\ Nibbles(Code[1]) = <<line.args[1].as_reg, line.args[2].as_reg>>
              /\ out.form = Direction(line.args[1].attr, line.args[2].attr)
  <2>1. out = InstrTfm(args)
    BY <1>2, <1>10
  <2>2. Len(args) = 2
    <3>1. Len(args) # 2 => InstrTfm(args) = Refuse("none")
      BY DEF InstrTfm
    <3> QED BY <1>1, <1>6, <2>1, <3>1
  <2>3. \A i \in 1 .. 2 : args[i] = line.args[i] /\ Evaluated(args[i]) /\ args[i].type = "reg"
    BY <1>3, <1>10, <2>2
  <2>4. Evaluated(args[1]) /\ Evaluated(args[2]) /\ args[1].type = "reg" /\ args[2].type = "reg"
    BY <2>3
  <2>5. /\ out.bytes \in Seq(Int)
        /\ Nibbles(out.bytes[1]) = <<args[1].as_reg, args[2].as_reg>>
        /\ out.form = Direction(args[1].attr, args[2].attr)
    BY <1>1, <2>1, <2>4, TfmRead, Zenon
  <2>6. Code = out.bytes
    BY <1>10, <2>5, AllCode DEF Is
  <2>7. args[1] = line.args[1] /\ args[2] = line.args[2]
    BY <2>3
  <2> QED BY <2>5, <2>6, <2>7
<1>11. ASSUME Is(line, "reg_mem"), line.args[1].type = "reg"
       PROVE  /\ <<"CC", "A", "B">>[Code[1] \div 64 + 1] = line.args[1].as_reg
              /\ line.args[2].type = "int" => (Code[1] \div 8) % 8 = line.args[2].as_int
              /\ line.args[3].type = "int" => Code[1] % 8 = line.args[3].as_int
  <2>1. out = InstrRegMem(args)
    BY <1>2, <1>11
  <2>2. Len(args) = 4
    <3>1. Len(args) # 4 => InstrRegMem(args) = Refuse("none")
      BY DEF InstrRegMem
    <3> QED BY <1>1, <1>6, <2>1, <3>1
  <2>3. \A i \in 1 .. 4 : /\ Evaluated(args[i])
                          /\ line.args[i].type \in {"int", "reg"} => args[i] = line.args[i]
    BY <1>3, <1>5, <2>2
  <2>4. /\ Evaluated(args[2]) /\ Evaluated(args[3]) /\ Evaluated(args[4])
        /\ args[1] = line.args[1] /\ args[1].type = "reg"
        /\ line.args[2].type = "int" => args[2] = line.args[2]
        /\ line.args[3].type = "int" => args[3] = line.args[3]
    BY <1>11, <2>3
  <2>5. /\ out.bytes \in Seq(Int)
        /\ <<"CC", "A", "B">>[out.bytes[1] \div 64 + 1] = args[1].as_reg
        /\ args[2].type = "int" => (out.bytes[1] \div 8) % 8 = args[2].as_int
        /\ args[3].type = "int" => out.bytes[1] % 8 = args[3].as_int
    BY <1>1, <2>1, <2>4, RegMemRead, Zenon
  <2>6. Code = out.bytes
    BY <1>11, <2>5, AllCode DEF Is
  <2> QED BY <2>4, <2>5, <2>6
<1> QED BY <1>8, <1>9, <1>10, <1>11 DEF RegistersKept

(* PSHS and its kin, TFR and its kin, TFM and the bit operations move the    *)
(* registers that were named, whatever the line; of instr_stack(),           *)
(* instr_pair(), instr_tfm() and instr_reg_mem() (instr.c:500).              *)
THEOREM RegistersAreKept == Spec => []RegistersKept
<1>1. Init => DInv
  BY InitDInv
<1>2. DInv /\ [Next]_vars => DInv'
  BY NextDInv
<1> QED BY <1>1, <1>2, DInvRegisters, PTL DEF Spec

-----------------------------------------------------------------------------
(* Arguments that are not known, among others that are good whatever comes.  *)
Number7(n) == n.type = "int" /\ n.as_int \in 1 .. 7
Borne(o)   == o.error \in {None, Illegal}

LEMMA BorneHolds == ASSUME NEW o, Borne(o) PROVE ~Failing(o.error)
BY DEF Borne, Failing, None, Illegal, Inconsistent

(* One operand, alone.                                                       *)
LEMMA OneIndexed ==
    ASSUME NEW args, Len(args) = 1, NEW p,
           args[1] = Undefined \/ (Number7(args[1]) /\ args[1].attr = "none")
    PROVE  Borne(InstrIndexed(args, p))
<1> DEFINE n == args[1]
<1>1. /\ n.type \in {"int", "undef"} /\ n.type # "array" /\ n.type # "string"
      /\ n.attr \in {"undef", "none", "16bit"}
  BY DEF Undefined, Number7
<1>2. InstrIndexed(args, p) = Indexed1(FALSE, n)
  <2>1. InstrIndexed(args, p) = CASE Len(args) = 1 -> Indexed1(FALSE, n)
                                  [] Len(args) = 2 -> Indexed2(FALSE, n, args[2], p)
                                  [] OTHER -> Refuse("none")
    BY <1>1 DEF InstrIndexed
  <2> HIDE DEF n
  <2> QED BY <2>1
<1> HIDE DEF n
<1> QED BY <1>1, <1>2 DEF Indexed1, Emit, Borne

(* Two, one of which is not known.                                           *)
LEMMA TwoIndexed ==
    ASSUME NEW args, Len(args) = 2, NEW p, Undefined \in {args[1], args[2]},
           args[1].type # "string"
    PROVE  Borne(InstrIndexed(args, p))
<1> DEFINE q == Indexed2(FALSE, args[1], args[2], p)
<1> DEFINE i == Len(args) = 1 /\ args[1].type = "array"
           inner == IF i THEN args[1].as_array ELSE args
           n == IF inner # <<>> /\ inner[1].type = "string" THEN EvalInt(inner[1]) ELSE inner[1]
<1>5. InstrIndexed(args, p) = CASE Len(inner) = 1 -> Indexed1(i, n)
                                [] Len(inner) = 2 -> Indexed2(i, n, inner[2], p)
                                [] OTHER -> Refuse("none")
  BY DEF InstrIndexed
<1>6. i = FALSE /\ inner = args /\ n = args[1]
  OBVIOUS
<1> HIDE DEF i, inner, n
<1>1. InstrIndexed(args, p) = CASE Len(args) = 1 -> Indexed1(FALSE, args[1])
                                [] Len(args) = 2 -> q
                                [] OTHER -> Refuse("none")
  BY <1>5, <1>6
<1>2. "undef" \in {args[1].type, args[2].type}
  BY DEF Undefined
<1>3. q = Emit("indexed", Pad(1), None)
  BY <1>2 DEF Indexed2
<1> HIDE DEF q
<1>4. InstrIndexed(args, p) = q
  BY <1>1
<1> QED BY <1>3, <1>4 DEF Emit, Borne

LEMMA PrefixedError ==
    ASSUME NEW imm, NEW f, NEW b, NEW e
    PROVE  Prefixed(imm, Emit(f, b, e)).error = e
BY DEF Prefixed, Emit

LEMMA PrefixedBorne ==
    ASSUME NEW imm, NEW args, NEW p, Borne(InstrIndexed(args, p))
    PROVE  Borne(Prefixed(imm, InstrIndexed(args, p)))
<1> DEFINE o == InstrIndexed(args, p)
<1>1. PICK f \in {"none", "indexed"} : \E b, e : o = Emit(f, b, e)
  BY IndexedForm DEF IsIndexed
<1>2. PICK b, e : o = Emit(f, b, e)
  BY <1>1
<1>5. Prefixed(imm, Emit(f, b, e)).error = e
  BY PrefixedError
<1> HIDE DEF o
<1>3. Prefixed(imm, o).error = e
  BY <1>2, <1>5
<1>4. o.error = e
  BY <1>2 DEF Emit
<1>6. Borne(Prefixed(imm, o))
  BY <1>3, <1>4 DEF Borne, o
<1> QED BY <1>6 DEF o

(* instr_address() of one operand that is not known: two bytes, if it can be *)
(* extended.                                                                 *)
LEMMA OneAddress ==
    ASSUME NEW op, NEW args, NEW imm, NEW page, NEW p, Len(args) = 1,
           args[1] = Undefined \/ (Number7(args[1]) /\ args[1].attr = "none")
    PROVE  LET o == InstrAddress(op, args, imm, page, p)
           IN  /\ Borne(o)
               /\ (args[1] = Undefined /\ "extended" \in op.mem) => o.bytes = imm \o Uint16(p)
<1> DEFINE o == InstrAddress(op, args, imm, page, p)
           n == EvalInt(args[1])
           attr == IF n.type = "undef" THEN "16bit" ELSE n.attr
           addr == IF n.type = "undef" THEN p ELSE n.as_int % 65536
           direct == /\ "direct" \in op.mem
                     /\ attr = "8bit" \/ (attr = "none" /\ InPage(page, addr))
           extended == /\ "extended" \in op.mem
                       /\ attr \in {"none", "16bit"}
                       /\ ~("direct" \in op.mem /\ attr = "none" /\ InPage(page, addr))
           d == Emit("direct", Uint8(addr), None)
           x == Emit("extended", Uint16(addr), None)
           i == InstrIndexed(args, p + op.length + Len(imm))
           list == args[1].type = "array"
<1>1. o = CASE Len(args) \notin 1 .. 2 -> Refuse("none")
            [] Len(args) = 2 /\ "indexed" \notin op.mem -> Refuse("none")
            [] Len(args) = 2 \/ (Len(args) = 1 /\ list) -> Prefixed(imm, i)
            [] OTHER -> Prefixed(imm, CASE direct -> d [] extended -> x [] OTHER -> i)
  BY DEF InstrAddress, Prefixed
<1>2. ~list
  BY DEF Number7, Undefined
<1>3. Borne(Prefixed(imm, i))
  BY OneIndexed, PrefixedBorne
<1>4. Borne(Prefixed(imm, d)) /\ Borne(Prefixed(imm, x))
  <2>1. \A f, b : Borne(Prefixed(imm, Emit(f, b, None)))
    <3> TAKE f, b
    <3>1. Prefixed(imm, Emit(f, b, None)).error = None
      BY PrefixedError
    <3> QED BY <3>1 DEF Borne
  <2> QED BY <2>1
<1>5. args[1] = Undefined => attr = "16bit" /\ addr = p
  BY DEF EvalInt, Undefined
<1>6. args[1] = Undefined /\ "extended" \in op.mem => ~direct /\ extended
  BY <1>5
<1>7. "extended" # "none" /\ args[1] = Undefined => Prefixed(imm, x).bytes = imm \o Uint16(p)
  <2>1. Prefixed(imm, x) = Emit("extended", imm \o Uint16(addr), None)
    BY PrefixedEmit
  <2> HIDE DEF x, addr
  <2> QED BY <1>5, <2>1 DEF Emit
<1> HIDE DEF o, i, d, x, direct, extended, list
<1>8. o = Prefixed(imm, CASE direct -> d [] extended -> x [] OTHER -> i)
  BY <1>1, <1>2
<1>9. o \in {Prefixed(imm, d), Prefixed(imm, x), Prefixed(imm, i)}
  BY <1>8
<1>10. ~direct /\ extended => o = Prefixed(imm, x)
  BY <1>8
<1>11. Borne(o)
  BY <1>3, <1>4, <1>9
<1>12. args[1] = Undefined /\ "extended" \in op.mem => o.bytes = imm \o Uint16(p)
  BY <1>6, <1>7, <1>10
<1> QED BY <1>11, <1>12 DEF o

LEMMA TwoAddress ==
    ASSUME NEW op, NEW args, NEW imm, NEW page, NEW p, Len(args) = 2, "indexed" \in op.mem,
           Undefined \in {args[1], args[2]}, args[1].type # "string"
    PROVE  Borne(InstrAddress(op, args, imm, page, p))
<1> DEFINE o == InstrAddress(op, args, imm, page, p)
           i == InstrIndexed(args, p + op.length + Len(imm))
<1>1. o = Prefixed(imm, i)
  <2> DEFINE n == EvalInt(args[1])
             attr == IF n.type = "undef" THEN "16bit" ELSE n.attr
             addr == IF n.type = "undef" THEN p ELSE n.as_int % 65536
             z == CASE /\ "direct" \in op.mem
                       /\ attr = "8bit" \/ (attr = "none" /\ InPage(page, addr))
                         -> Emit("direct", Uint8(addr), None)
                    [] /\ "extended" \in op.mem
                       /\ attr \in {"none", "16bit"}
                       /\ ~("direct" \in op.mem /\ attr = "none" /\ InPage(page, addr))
                         -> Emit("extended", Uint16(addr), None)
                    [] OTHER -> i
             list == args[1].type = "array"
  <2>1. o = CASE Len(args) \notin 1 .. 2 -> Refuse("none")
              [] Len(args) = 2 /\ "indexed" \notin op.mem -> Refuse("none")
              [] Len(args) = 2 \/ (Len(args) = 1 /\ list) -> Prefixed(imm, i)
              [] OTHER -> Prefixed(imm, z)
    BY DEF InstrAddress, Prefixed
  <2> HIDE DEF z, i, list, o
  <2> QED BY <2>1
<1>2. Borne(Prefixed(imm, i))
  BY TwoIndexed, PrefixedBorne
<1> HIDE DEF i, o
<1> QED BY <1>1, <1>2 DEF o

(* The other handlers that wait.                                             *)
LEMMA PadLength == ASSUME NEW n \in Nat PROVE Len(Pad(n)) = n
BY DEF Pad

LEMMA ImmediateBorne ==
    ASSUME NEW op, op.ext \in Immediates, NEW args, Len(args) = 1
    PROVE  LET o == InstrImmediate(op, args)
           IN  /\ Borne(o)
               /\ op.ext = "imm8" => Len(o.bytes) = 1
               /\ op.ext = "imm16" => Len(o.bytes) = 2
<1> DEFINE v == EvalInt(args[1]).as_int
           b == CASE op.ext = "imm8" -> Uint8(v) [] op.ext = "imm16" -> Uint16(v)
                  [] op.ext = "imm32" -> Uint32(v)
           o == InstrImmediate(op, args)
<1>1. o = Emit("immediate", b, None)
  BY DEF InstrImmediate
<1>2. (op.ext = "imm8" => b = Uint8(v)) /\ (op.ext = "imm16" => b = Uint16(v))
  BY DEF Immediates
<1> HIDE DEF v, b, o
<1>3. Len(Uint8(v)) = 1 /\ Len(Uint16(v)) = 2
  BY DEF Uint8, Uint16
<1>4. o.bytes = b /\ o.error = None
  BY <1>1 DEF Emit
<1> QED BY <1>2, <1>3, <1>4 DEF o, Borne

LEMMA RelBorne ==
    ASSUME NEW op, NEW args, Len(args) = 1, args[1] = Undefined, NEW p
    PROVE  LET o == InstrRel(op, args, p)
           IN  /\ Borne(o)
               /\ op.ext = "rel8" => Len(o.bytes) = 1
               /\ op.ext = "rel16" => Len(o.bytes) = 2
<1> DEFINE n == IF op.ext = "rel8" THEN 1 ELSE 2
           o == InstrRel(op, args, p)
<1>1. args[1].type # "int"
  BY DEF Undefined
<1>2. o = Emit("immediate", Pad(n), None)
  BY <1>1 DEF InstrRel
<1>3. Len(Pad(1)) = 1 /\ Len(Pad(2)) = 2
  BY PadLength
<1>4. o.bytes = Pad(n) /\ o.error = None
  <2> HIDE DEF o
  <2> QED BY <1>2 DEF Emit
<1> HIDE DEF o
<1> QED BY <1>3, <1>4 DEF o, Borne

LEMMA Errors ==
    ASSUME NEW a \in {None, Illegal}, NEW b \in {None, Illegal}
    PROVE  Raise(a, b) \in {None, Illegal}
BY DEF Raise, None, Illegal, Inconsistent, OutOfRange

(* An int holds the numbers of a byte's nibble.                              *)
LEMMA SmallUncut ==
    ASSUME NEW v \in 0 .. 15
    PROVE  IntCut(v) = v
<1>1. WordRange \in Nat /\ WordRange > 31
  BY OperandConstants
<1> DEFINE h == WordRange \div 2
<1>2. h \in Nat /\ h >= 15 /\ WordRange >= 2 * h
  BY <1>1
<1> HIDE DEF h
<1>3. v + h \in 0 .. WordRange - 1
  BY <1>1, <1>2
<1>4. (v + h) % WordRange = v + h
  BY <1>1, <1>3
<1>5. IntLeast = -h /\ v - IntLeast = v + h
  BY <1>2 DEF IntLeast, h
<1> QED BY <1>2, <1>4, <1>5 DEF IntCut

LEMMA PairArgBorne ==
    ASSUME NEW n, n = Undefined \/ Number7(n) \/ n.type = "reg"
    PROVE  PairArg(n) # {} /\ \A x \in PairArg(n) : x.error \in {None, Illegal}
<1>1. CASE n.type = "reg"
  <2>1. PairArg(n) = {[nibble |-> TfrNibble[n.as_reg], size |-> TfrSize[n.as_reg], error |-> None]}
    BY <1>1 DEF PairArg
  <2> QED BY <2>1
<1>2. CASE Number7(n)
  <2>1. n.type = "int" /\ n.as_int # 0 /\ n.as_int \in 0 .. 15
    BY <1>2 DEF Number7
  <2>2. IntCut(n.as_int) = n.as_int
    BY <2>1, SmallUncut
  <2>3. PairArg(n) = {[nibble |-> n.as_int % 16, size |-> {8, 16}, error |-> Illegal]}
    BY <2>1, <2>2 DEF PairArg
  <2> QED BY <2>3
<1>3. CASE n = Undefined
  <2> DEFINE P(g, s) == [nibble |-> g, size |-> s, error |-> None]
             S == SUBSET {8, 16, 32}
  <2>1. PairArg(n) = {P(g, s) : g \in Garbage, s \in S}
    BY <1>3 DEF PairArg, Undefined
  <2>2. PICK g \in Garbage : TRUE
    BY GarbageHeld
  <2>3. PICK s : s \in S
    <3>1. {} \in S
      OBVIOUS
    <3> QED BY <3>1
  <2>4. \A h, r : P(h, r).error = None
    OBVIOUS
  <2> HIDE DEF P, S
  <2>5. P(g, s) \in PairArg(n)
    BY <2>1, <2>2, <2>3
  <2>6. ASSUME NEW x \in PairArg(n) PROVE x.error = None
    <3>1. PICK h \in Garbage, r \in S : x = P(h, r)
      BY <2>1
    <3> QED BY <2>4, <3>1
  <2> QED BY <2>5, <2>6
<1> QED BY <1>1, <1>2, <1>3

LEMMA PairBorne ==
    ASSUME NEW args, Len(args) = 2, NEW o \in InstrPair(args),
           \A i \in 1 .. 2 : args[i] = Undefined \/ Number7(args[i]) \/ args[i].type = "reg"
    PROVE  Borne(o) /\ Len(o.bytes) = 1
<1>1. /\ PairArg(args[1]) # {} /\ \A x \in PairArg(args[1]) : x.error \in {None, Illegal}
      /\ PairArg(args[2]) # {} /\ \A x \in PairArg(args[2]) : x.error \in {None, Illegal}
  BY PairArgBorne
<1>2. ~\E i \in 1 .. 2 : PairArg(args[i]) = {}
  BY <1>1
<1> DEFINE E(x, y) == IF x.size \cap y.size = {} THEN Illegal ELSE None
           F(x, y) == Emit("immediate", <<PairByte(x.nibble, y.nibble)>>,
                           Raise(Raise(x.error, y.error), E(x, y)))
           Z == {F(x, y) : x \in PairArg(args[1]), y \in PairArg(args[2])}
<1>3. InstrPair(args) = IF Len(args) # 2 THEN {Refuse("none")}
                        ELSE IF \E i \in 1 .. 2 : PairArg(args[i]) = {} THEN {Refuse("none")} ELSE Z
  BY DEF InstrPair
<1> HIDE DEF Z
<1>4. o \in Z
  BY <1>2, <1>3
<1> USE DEF Z
<1> HIDE DEF F
<1>5. PICK x \in PairArg(args[1]), y \in PairArg(args[2]) : o = F(x, y)
  BY <1>4
<1>6. E(x, y) \in {None, Illegal} /\ x.error \in {None, Illegal} /\ y.error \in {None, Illegal}
  BY <1>1
<1>7. Raise(Raise(x.error, y.error), E(x, y)) \in {None, Illegal}
  BY <1>6, Errors
<1> HIDE DEF E
<1> QED BY <1>5, <1>7 DEF F, Emit, Borne

LEMMA RegMemBorne ==
    ASSUME NEW args, Len(args) = 4,
           \A i \in 1 .. 4 : \/ args[i] = Undefined
                             \/ Number7(args[i])
                             \/ args[i].type = "reg" /\ args[i].as_reg \in DOMAIN RegMemRegister
    PROVE  LET o == InstrRegMem(args) IN Borne(o) /\ Len(o.bytes) = 2
<1> DEFINE first == (IF args[1].type = "reg" THEN RegMemRegister[args[1].as_reg] ELSE 192)
                        + 8 * Bit(args[2]) + Bit(args[3])
           low == IF args[4].type = "int" THEN Uint8(args[4].as_int) ELSE Pad(1)
           e == IF BitRefused(args[2]) \/ BitRefused(args[3]) THEN OutOfRange
                ELSE IF args[1].type = "int" THEN Illegal ELSE None
           Bad == \/ args[1].type \notin {"undef", "int", "reg"}
                  \/ args[1].type = "reg" /\ args[1].as_reg \notin DOMAIN RegMemRegister
           o == InstrRegMem(args)
<1>1. o = IF Len(args) # 4 THEN Refuse("none") ELSE IF Bad THEN Refuse("none")
          ELSE Emit("direct", <<first>> \o low, e)
  BY DEF InstrRegMem
<1>2. ~Bad
  <2>1. 1 \in 1 .. 4
    OBVIOUS
  <2> QED BY <2>1 DEF Number7, Undefined
<1>3. e \in {None, Illegal}
  <2>1. 2 \in 1 .. 4 /\ 3 \in 1 .. 4
    OBVIOUS
  <2>2. ~BitRefused(args[2]) /\ ~BitRefused(args[3])
    BY <2>1 DEF BitRefused, Number7, Undefined
  <2> QED BY <2>2
<1>4. \E b : low = <<b>>
  <2>1. Pad(1) = <<0>>
    BY DEF Pad
  <2> QED BY <2>1 DEF Uint8
<1> HIDE DEF first, low, e, Bad, o
<1>5. o.bytes = <<first>> \o low /\ o.error = e
  BY <1>1, <1>2 DEF Emit
<1>6. PICK b : low = <<b>>
  BY <1>4
<1>7. Len(o.bytes) = 2
  BY <1>5, <1>6
<1> QED BY <1>3, <1>5, <1>7 DEF o, Borne

(* The data pseudo-ops, which emit or reserve by the argument.               *)
Plainly(n) == n.type \in {"undef", "int", "float"}

LEMMA JoinedError ==
    ASSUME NEW outs, \A i \in DOMAIN outs : outs[i].error = None
    PROVE  Joined(outs).error = None
<1>1. ~\E i \in DOMAIN outs : outs[i].error = Syntax
  BY DEF None, Syntax
<1> QED BY <1>1, Zenon DEF Joined, Stored, Emit

LEMMA FormattedBorne ==
    ASSUME NEW n, Plainly(n), NEW mode
    PROVE  Formatted(n, mode).error = None
<1>1. CASE n.type = "undef"
  BY <1>1 DEF Formatted, Stored, Emit
<1>2. CASE n.type \in {"int", "float"}
  BY <1>2 DEF Formatted, Stored, Emit
<1> QED BY <1>1, <1>2 DEF Plainly

LEMMA FormBorne ==
    ASSUME NEW op, NEW args, NEW n \in Nat \ {0}, DOMAIN args = 1 .. n, args # <<>>,
           \A i \in 1 .. n : Plainly(args[i])
    PROVE  Borne(PseudoForm(op, args))
<1> DEFINE outs == [i \in 1 .. n |-> Formatted(args[i], FormMode[op])]
           zero == Stored(Pad(1), None)
           all  == IF op = "fcn" THEN Append(outs, zero) ELSE outs
<1>1. PseudoForm(op, args) = Joined(all)
  BY DEF PseudoForm
<1>2. \A i \in 1 .. n : outs[i].error = None
  BY FormattedBorne
<1>3. zero.error = None
  BY DEF Stored, Emit
<1>4. \A i \in DOMAIN all : all[i].error = None
  <2>1. DOMAIN outs = 1 .. n
    OBVIOUS
  <2>2. ASSUME op = "fcn" PROVE \A i \in DOMAIN all : all[i].error = None
    <3> DEFINE R == Range(outs)
    <3>1. \A i \in 1 .. n : outs[i] \in R
      BY <2>1 DEF Range
    <3>2. outs = [i \in 1 .. n |-> outs[i]]
      OBVIOUS
    <3> HIDE DEF outs, zero, R
    <3>3. outs \in [1 .. n -> R]
      BY <3>1, <3>2
    <3>4. outs \in Seq(R) /\ Len(outs) = n
      BY <3>2, <3>3
    <3>5. all = Append(outs, zero)
      BY <2>2
    <3> HIDE DEF all
    <3>6. DOMAIN all = 1 .. n + 1 /\ all[n + 1] = zero /\ \A i \in 1 .. n : all[i] = outs[i]
      BY <3>4, <3>5
    <3>7. \A i \in 1 .. n + 1 : i \in 1 .. n \/ i = n + 1
      OBVIOUS
    <3> QED BY <1>2, <1>3, <3>6, <3>7
  <2>3. ASSUME op # "fcn" PROVE \A i \in DOMAIN all : all[i].error = None
    BY <1>2, <2>1, <2>3
  <2> QED BY <2>2, <2>3
<1> HIDE DEF all
<1>5. Joined(all).error = None
  BY <1>4, JoinedError
<1> QED BY <1>1, <1>5 DEF Borne

LEMMA WordsBorne ==
    ASSUME NEW op, NEW args, args # <<>>, \A i \in DOMAIN args : Plainly(args[i])
    PROVE  Borne(PseudoWords(op, args))
<1> DEFINE outs == [i \in DOMAIN args |->
             LET v == HaveInt(args, i, 0)
             IN  Stored(IF op = "fdb" THEN Uint16(v) ELSE Uint32(v),
                        IF IntRefused(args, i) THEN Syntax ELSE None)]
<1>1. PseudoWords(op, args) = Joined(outs)
  BY DEF PseudoWords
<1>2. ASSUME NEW i \in DOMAIN outs PROVE outs[i].error = None
  <2>1. ~IntRefused(args, i)
    BY DEF IntRefused, Plainly
  <2> QED BY <2>1 DEF Stored, Emit
<1> HIDE DEF outs
<1>3. Joined(outs).error = None
  BY <1>2, JoinedError
<1> QED BY <1>1, <1>3 DEF Borne

(* A count that is not known is 0, and one that is, not negative.            *)
Counted(n) == n = Undefined \/ (n.type \in {"int", "float"} /\ EvalInt(n).as_int \in 1 .. 7)

LEMMA CountedFacts ==
    ASSUME NEW args, NEW i, i \in DOMAIN args => Counted(args[i])
    PROVE  ~IntRefused(args, i) /\ HaveInt(args, i, 0) \in 0 .. 7
<1>1. CASE i \notin DOMAIN args
  BY <1>1 DEF IntRefused, HaveInt
<1>2. CASE i \in DOMAIN args /\ args[i] = Undefined
  BY <1>2 DEF IntRefused, HaveInt, Undefined
<1>3. CASE i \in DOMAIN args /\ args[i].type \in {"int", "float"} /\ EvalInt(args[i]).as_int \in 1 .. 7
  BY <1>3 DEF IntRefused, HaveInt
<1> QED BY <1>1, <1>2, <1>3 DEF Counted

LEMMA FillBorne ==
    ASSUME NEW op \in {"rzb", "fill"}, NEW args,
           op = "rzb" => Len(args) \in 1 .. 2, op = "fill" => Len(args) = 2,
           \A i \in DOMAIN args : Counted(args[i])
    PROVE  Borne(PseudoFill(op, args))
<1> DEFINE c == IF op = "rzb" THEN 1 ELSE 2
           count == HaveInt(args, c, 0)
           fill  == HaveInt(args, 3 - c, 0)
           b == [i \in 1 .. count |-> fill % 256]
           refused == IntRefused(args, 1) \/ IntRefused(args, 2)
           wrong == Len(args) \notin (IF op = "rzb" THEN 1 .. 2 ELSE {2})
<1>1. PseudoFill(op, args) = IF wrong THEN Stored(<<>>, Syntax)
                             ELSE Stored(b, IF refused THEN Syntax
                                            ELSE IF count < 0 THEN OutOfRange ELSE None)
  BY DEF PseudoFill
<1>2. ~wrong /\ ~refused /\ ~(count < 0)
  <2>1. ~IntRefused(args, 1) /\ ~IntRefused(args, 2) /\ HaveInt(args, 1, 0) \in 0 .. 7
        /\ HaveInt(args, 2, 0) \in 0 .. 7
    BY CountedFacts
  <2> QED BY <2>1
<1> HIDE DEF b, refused, wrong, count
<1> QED BY <1>1, <1>2 DEF Stored, Emit, Borne

LEMMA RmbBorne ==
    ASSUME NEW args, Len(args) = 1, \A i \in DOMAIN args : Counted(args[i])
    PROVE  Borne(PseudoRmb(args))
<1> DEFINE count == HaveInt(args, 1, 0)
           refused == IntRefused(args, 1)
<1>1. PseudoRmb(args) = CASE Len(args) # 1 \/ refused -> Reserved(0, Syntax)
                          [] Len(args) = 1 /\ count < 0 -> Reserved(0, OutOfRange)
                          [] OTHER -> Reserved(count, None)
  BY DEF PseudoRmb
<1>2. ~refused /\ ~(count < 0)
  <2>1. ~IntRefused(args, 1) /\ HaveInt(args, 1, 0) \in 0 .. 7
    BY CountedFacts
  <2> QED BY <2>1
<1> HIDE DEF refused, count
<1> QED BY <1>1, <1>2 DEF Reserved, Emit, Borne

(* How many arguments a handler takes.                                       *)
LEMMA OwnMode ==
    ASSUME NEW l \in Lines, IsMem(l)
    PROVE  l.op.ext \in {"none", "imm8", "imm16", "imm32"}
BY EncodingConstants DEF IsMem, Immediates

LEMMA TakenCount ==
    ASSUME NEW l \in Lines, NEW n, Takes(l, n)
    PROVE  /\ IsMem(l) => n \in 1 .. 2 /\ (n = 2 => "indexed" \in l.op.mem)
           /\ Is(l, "imm8_mem") => n \in 2 .. 3 /\ (n = 3 => "indexed" \in l.op.mem)
           /\ (l.op.ext \in Immediates /\ ~IsMem(l)) => l.immediate /\ n = 1
           /\ Is(l, "inherent") => n = 0
           /\ l.op.ext \in {"rel8", "rel16", "rmb"} => n = 1
           /\ l.op.ext = "rzb" => n \in 1 .. 2
           /\ l.op.ext \in {"pair", "fill"} => n = 2
           /\ l.op.ext = "reg_mem" => n = 4
<1> DEFINE most == IF "indexed" \in l.op.mem THEN 1 ELSE 0
           rest == CASE l.op.ext = "inherent" -> n = 0
                     [] l.op.ext \in {"rel8", "rel16", "rmb"} -> n = 1
                     [] l.op.ext = "rzb" -> n \in 1 .. 2
                     [] l.op.ext \in {"pair", "fill"} -> n = 2
                     [] l.op.ext = "reg_mem" -> n = 4
                     [] OTHER -> TRUE
<1>1. (CASE IsMem(l) -> n \in 1 .. 1 + most
         [] Is(l, "imm8_mem") -> n \in 2 .. 2 + most
         [] ~IsMem(l) /\ l.op.ext \in Immediates -> l.immediate /\ n = 1
         [] OTHER -> rest)
  BY DEF Takes
<1>2. IsMem(l) => ~Is(l, "imm8_mem")
  BY DEF IsMem, Is
<1>3. Is(l, "imm8_mem") => l.op.ext \notin Immediates
  BY DEF Is, Immediates
<1> HIDE DEF most, rest
<1>4. IsMem(l) => n \in 1 .. 1 + most
  BY <1>1, <1>2
<1>5. Is(l, "imm8_mem") => n \in 2 .. 2 + most
  BY <1>1, <1>2, <1>3
<1>6. l.op.ext \in Immediates /\ ~IsMem(l) => l.immediate /\ n = 1
  BY <1>1, <1>3
<1>7. l.op.ext \in {"inherent", "rel8", "rel16", "rmb", "rzb", "pair", "fill", "reg_mem"} => rest
  <2> SUFFICES ASSUME l.op.ext \in {"inherent", "rel8", "rel16", "rmb", "rzb", "pair", "fill", "reg_mem"}
               PROVE  rest
    OBVIOUS
  <2>1. ~IsMem(l)
    BY OwnMode
  <2>2. ~Is(l, "imm8_mem") /\ l.op.ext \notin Immediates
    BY DEF Is, Immediates
  <2> QED BY <1>1, <2>1, <2>2
<1>8. IsMem(l) => n \in 1 .. 2 /\ (n = 2 => "indexed" \in l.op.mem)
  BY <1>4 DEF most
<1>9. Is(l, "imm8_mem") => n \in 2 .. 3 /\ (n = 3 => "indexed" \in l.op.mem)
  BY <1>5 DEF most
<1>10. Is(l, "inherent") => n = 0
  BY <1>7 DEF rest, Is
<1>11. l.op.ext \in {"rel8", "rel16", "rmb"} => n = 1
  BY <1>7 DEF rest
<1>12. l.op.ext = "rzb" => n \in 1 .. 2
  BY <1>7 DEF rest
<1>13. l.op.ext \in {"pair", "fill"} => n = 2
  BY <1>7 DEF rest
<1>14. l.op.ext = "reg_mem" => n = 4
  BY <1>7 DEF rest
<1> QED BY <1>6, <1>8, <1>9, <1>10, <1>11, <1>12, <1>13, <1>14

(* What UndefinedTolerated asks of a line, and what it promises.             *)
Waiting1 == /\ Waits(line) /\ Takes(line, Len(line.args))
            /\ Undefined \in Range(IF Len(Operand) = 1 THEN line.args ELSE Operand)
            /\ \A n \in Range(Operand) : n.type = "undef" \/ Settled(n)

Goes(o) ==
    /\ Borne(o)
    /\ (line.op.ext \in OneByte /\ ~IsMem(line)) => Len(o.bytes) = 1
    /\ (line.op.ext \in TwoBytes /\ ~IsMem(line)) => Len(o.bytes) = 2
    /\ (IsMem(line) /\ line.args = <<Undefined>> /\ "extended" \in line.op.mem) => Len(o.bytes) = 2

(* The arguments of such a line, without an immediate byte.                  *)
LEMMA WaitingArgs ==
    ASSUME line \in Lines, Waiting1, ~Is(line, "imm8_mem")
    PROVE  LET args == IntArgs(line)
           IN  /\ \E k \in DOMAIN args : args[k] = Undefined
               /\ \A k \in DOMAIN args : args[k] = Undefined \/ Settled(args[k])
               /\ Operand = args
<1> DEFINE args == IntArgs(line)
<1>1. Operand = args
  BY DEF Operand
<1>2. /\ DOMAIN args = 1 .. Len(args) /\ Len(args) = Len(line.args) /\ DOMAIN line.args = DOMAIN args
      /\ \A i \in DOMAIN args :
             /\ Evaluated(args[i])
             /\ line.args[i].type # "float" => args[i] = line.args[i]
  BY ArgsType DEF IntArgs
<1> HIDE DEF args
<1>3. \A k \in DOMAIN args : args[k] = Undefined \/ Settled(args[k])
  <2> TAKE k \in DOMAIN args
  <2>1. args[k] \in Range(Operand)
    BY <1>1 DEF Range
  <2>2. args[k].type = "undef" \/ Settled(args[k])
    BY <2>1 DEF Waiting1
  <2>3. args[k].type = "undef" => args[k] = Undefined
    BY <1>2 DEF Evaluated
  <2> QED BY <2>2, <2>3
<1>4. \E k \in DOMAIN args : args[k] = Undefined
  <2>1. CASE Undefined \in Range(line.args)
    <3>1. PICK k \in DOMAIN line.args : line.args[k] = Undefined
      BY <2>1 DEF Range
    <3>2. line.args[k].type # "float"
      BY <3>1 DEF Undefined
    <3> QED BY <1>2, <3>1, <3>2
  <2>2. CASE Undefined \in Range(args)
    BY <2>2 DEF Range
  <2> QED BY <1>1, <2>1, <2>2 DEF Waiting1
<1> QED BY <1>1, <1>3, <1>4 DEF args

(* Addresses, alone                                                          *)
LEMMA MemGoes ==
    ASSUME line \in Lines, Waiting1, IsMem(line)
    PROVE  Goes(InstrAddress(line.op, IntArgs(line), <<>>, dp, pc))
<1> DEFINE args == IntArgs(line)
           o == InstrAddress(line.op, args, <<>>, dp, pc)
<1>1. ~Is(line, "imm8_mem") /\ ~Is(line, "pair") /\ ~Is(line, "reg_mem") /\ Addressing
  BY OwnMode DEF Is, Addressing
<1>2. /\ \E k \in DOMAIN args : args[k] = Undefined
      /\ \A k \in DOMAIN args : args[k] = Undefined \/ Settled(args[k])
      /\ Operand = args
  BY <1>1, WaitingArgs
<1>3. /\ DOMAIN args = 1 .. Len(args) /\ Len(args) = Len(line.args)
      /\ \A i \in DOMAIN args : line.args[i].type # "float" => args[i] = line.args[i]
  BY ArgsType
<1>4. Len(args) \in 1 .. 2 /\ (Len(args) = 2 => "indexed" \in line.op.mem)
  BY <1>3, TakenCount DEF Waiting1
<1> HIDE DEF args
<1>5. \A k \in DOMAIN args : \/ args[k] = Undefined
                             \/ Number7(args[k]) /\ args[k].attr = "none"
                             \/ args[k].type = "reg" /\ Len(args) = 2
  BY <1>1, <1>2 DEF Settled, Number7
<1>6. \A x \in OneByte \cup TwoBytes : line.op.ext = x => IsMem(line)
  OBVIOUS
<1>7. CASE Len(args) = 1
  <2>1. args[1] = Undefined \/ (Number7(args[1]) /\ args[1].attr = "none")
    BY <1>3, <1>5, <1>7
  <2>2. Borne(o) /\ (args[1] = Undefined /\ "extended" \in line.op.mem => o.bytes = <<>> \o Uint16(pc))
    <3>1. \A imm : LET z == InstrAddress(line.op, args, imm, dp, pc)
                   IN  /\ Borne(z)
                       /\ (args[1] = Undefined /\ "extended" \in line.op.mem) => z.bytes = imm \o Uint16(pc)
      BY <1>7, <2>1, OneAddress
    <3> QED BY <3>1
  <2>3. line.args = <<Undefined>> => args[1] = Undefined
    BY <1>3, <1>7 DEF Undefined
  <2>4. Len(<<>> \o Uint16(pc)) = 2
    BY DEF Uint16
  <2> HIDE DEF o
  <2>5. Goes(o)
    BY <2>2, <2>3, <2>4 DEF Goes
  <2> QED BY <2>5 DEF o, args
<1>8. CASE Len(args) = 2
  <2>1. Undefined \in {args[1], args[2]}
    BY <1>2, <1>3, <1>8
  <2>2. args[1].type # "string"
    <3>1. 1 \in DOMAIN args
      BY <1>3, <1>8
    <3> QED BY <1>5, <3>1 DEF Undefined, Number7
  <2>3. Borne(o)
    BY <1>4, <1>8, <2>1, <2>2, TwoAddress
  <2>4. line.args # <<Undefined>>
    <3>1. Len(<<Undefined>>) = 1 /\ 1 # 2
      OBVIOUS
    <3>2. Len(line.args) = 2
      BY <1>3, <1>8
    <3> QED BY <3>1, <3>2, Zenon
  <2> HIDE DEF o
  <2>5. Goes(o)
    BY <2>3, <2>4 DEF Goes
  <2> QED BY <2>5 DEF o, args
<1> QED BY <1>4, <1>7, <1>8

(* and after an immediate byte.                                              *)
LEMMA Imm8MemGoes ==
    ASSUME line \in Lines, Waiting1, Is(line, "imm8_mem")
    PROVE  Goes(InstrImm8Mem(line.op, IntArgs(line), dp, pc))
<1> DEFINE args == IntArgs(line)
           rest == Tail(args)
           imm == Uint8(IF args[1].type = "int" THEN args[1].as_int ELSE 0)
           x == InstrAddress(line.op, rest, imm, dp, pc)
           o == InstrImm8Mem(line.op, args, dp, pc)
<1>1. ~IsMem(line) /\ ~Is(line, "pair") /\ ~Is(line, "reg_mem") /\ Addressing
  BY DEF Is, IsMem, Addressing
<1>2. Operand = rest
  BY DEF Operand
<1>3. /\ args \in Seq(Range(args)) /\ DOMAIN args = 1 .. Len(args) /\ Len(args) = Len(line.args)
      /\ \A i \in DOMAIN args : Evaluated(args[i])
  BY ArgsType
<1>4. Len(args) \in 2 .. 3 /\ (Len(args) = 3 => "indexed" \in line.op.mem)
  BY <1>3, TakenCount DEF Waiting1
<1>5. o = x
  <2>1. o = IF Len(args) \notin 2 .. 3 \/ (Len(args) = 3 /\ "indexed" \notin line.op.mem)
            THEN Refuse("none") ELSE x
    BY DEF InstrImm8Mem
  <2> HIDE DEF o, x, args
  <2> QED BY <1>4, <2>1
<1> HIDE DEF args
<1>6. /\ Len(rest) = Len(args) - 1 /\ DOMAIN rest = 1 .. Len(rest)
      /\ \A j \in DOMAIN rest : j + 1 \in DOMAIN args /\ rest[j] = args[j + 1]
  <2> DEFINE S == Range(args)
  <2>1. args \in Seq(S) /\ DOMAIN args = 1 .. Len(args) /\ rest = Tail(args)
    BY <1>3
  <2> HIDE DEF S, rest
  <2>2. Len(rest) = Len(args) - 1 /\ rest \in Seq(S)
    BY <1>4, <2>1
  <2>3. \A j \in 1 .. Len(rest) : rest[j] = args[j + 1]
    BY <1>4, <2>1, <2>2
  <2>4. \A j \in 1 .. Len(rest) : j + 1 \in 1 .. Len(args)
    BY <1>4, <2>2
  <2> QED BY <2>1, <2>2, <2>3, <2>4
<1> HIDE DEF rest
<1>7. ASSUME NEW j \in DOMAIN rest
      PROVE  \/ rest[j] = Undefined
             \/ Number7(rest[j]) /\ rest[j].attr = "none"
             \/ rest[j].type = "reg" /\ Len(rest) = 2
  <2>1. rest[j] \in Range(Operand)
    BY <1>2 DEF Range
  <2>2. rest[j].type = "undef" \/ Settled(rest[j])
    BY <2>1 DEF Waiting1
  <2>3. rest[j].type = "undef" => rest[j] = Undefined
    BY <1>3, <1>6 DEF Evaluated
  <2> QED BY <1>1, <1>2, <2>2, <2>3 DEF Settled, Number7
<1>8. Borne(x)
  <2>1. CASE Len(args) = 2
    <3>1. Len(rest) = 1 /\ 1 \in DOMAIN rest
      BY <1>6, <2>1
    <3>2. rest[1] = Undefined \/ (Number7(rest[1]) /\ rest[1].attr = "none")
      BY <1>7, <3>1
    <3> QED BY <3>1, <3>2, OneAddress
  <2>2. CASE Len(args) = 3
    <3>1. Len(rest) = 2 /\ DOMAIN rest = 1 .. 2
      BY <1>6, <2>2
    <3>2. Undefined \in Range(rest)
      BY <1>2, <3>1 DEF Waiting1
    <3>3. Undefined \in {rest[1], rest[2]}
      BY <3>1, <3>2 DEF Range
    <3>4. rest[1].type # "string"
      <4>1. 1 \in DOMAIN rest
        BY <3>1
      <4> QED BY <1>7, <4>1 DEF Undefined, Number7
    <3> QED BY <1>4, <2>2, <3>1, <3>3, <3>4, TwoAddress
  <2> QED BY <1>4, <2>1, <2>2
<1> HIDE DEF x, o
<1>9. Goes(o)
  BY <1>1, <1>5, <1>8 DEF Goes, Is, OneByte, TwoBytes
<1> QED BY <1>9 DEF o, args

(* The arguments of any other line, as numbers and as they came.             *)
LEMMA OtherArgs ==
    ASSUME line \in Lines, Waiting1, ~Addressing
    PROVE  LET args == IntArgs(line)
           IN  /\ DOMAIN args = 1 .. Len(args) /\ Len(args) = Len(line.args) /\ Len(args) \in Nat \ {0}
               /\ DOMAIN line.args = DOMAIN args /\ line.args # <<>>
               /\ \E k \in DOMAIN args : args[k] = Undefined /\ line.args[k] = Undefined
               /\ \A k \in DOMAIN args :
                      \/ args[k] = Undefined
                      \/ Number7(args[k])
                      \/ args[k].type = "reg" /\ Is(line, "pair")
                      \/ /\ args[k].type = "reg" /\ Is(line, "reg_mem")
                         /\ args[k].as_reg \in DOMAIN RegMemRegister
               /\ ~(Is(line, "pair") \/ Is(line, "reg_mem")) =>
                      \A k \in DOMAIN args : Plainly(line.args[k]) /\ Counted(line.args[k])
<1> DEFINE args == IntArgs(line)
<1>1. /\ DOMAIN args = 1 .. Len(args) /\ Len(args) = Len(line.args) /\ Len(args) \in Nat
      /\ DOMAIN line.args = DOMAIN args
      /\ \A i \in DOMAIN args :
             /\ line.args[i].type # "float" => args[i] = line.args[i]
             /\ line.args[i].type = "float" => args[i].type = "int"
  BY ArgsType DEF IntArgs
<1>2. \A i \in DOMAIN args : line.args[i].type = "float" => args[i] = EvalInt(line.args[i])
  BY DEF IntArgs
<1>3. /\ \E k \in DOMAIN args : args[k] = Undefined
      /\ \A k \in DOMAIN args : args[k] = Undefined \/ Settled(args[k])
  BY WaitingArgs DEF Addressing
<1> HIDE DEF args
<1>4. PICK k \in DOMAIN args : args[k] = Undefined
  BY <1>3
<1>5. line.args[k] = Undefined
  <2>1. args[k].type # "int"
    BY <1>4 DEF Undefined
  <2> QED BY <1>1, <1>4, <2>1
<1>6. Len(args) \in Nat \ {0} /\ line.args # <<>>
  BY <1>1, <1>4
<1>7. \A j \in DOMAIN args :
                      \/ args[j] = Undefined
                      \/ Number7(args[j])
                      \/ args[j].type = "reg" /\ Is(line, "pair")
                      \/ /\ args[j].type = "reg" /\ Is(line, "reg_mem")
                         /\ args[j].as_reg \in DOMAIN RegMemRegister
  BY <1>3 DEF Settled, Number7
<1>8. ASSUME ~(Is(line, "pair") \/ Is(line, "reg_mem")), NEW j \in DOMAIN args
      PROVE  Plainly(line.args[j]) /\ Counted(line.args[j])
  <2>1. args[j] = Undefined \/ Number7(args[j])
    BY <1>7, <1>8
  <2>2. CASE line.args[j].type = "float"
    <3>1. args[j] = EvalInt(line.args[j]) /\ args[j].type = "int"
      BY <1>1, <1>2, <2>2
    <3>2. Number7(args[j])
      BY <2>1, <3>1 DEF Undefined
    <3> QED BY <2>2, <3>1, <3>2 DEF Plainly, Counted, Number7
  <2>3. CASE line.args[j].type # "float"
    <3>1. args[j] = line.args[j]
      BY <1>1, <2>3
    <3>2. Plainly(args[j])
      BY <2>1 DEF Plainly, Undefined, Number7
    <3>3. Number7(args[j]) => EvalInt(args[j]) = args[j]
      BY DEF Number7, EvalInt
    <3>4. Counted(args[j])
      BY <2>1, <3>3 DEF Counted, Number7
    <3> QED BY <3>1, <3>2, <3>4
  <2> QED BY <2>2, <2>3
<1> QED BY <1>1, <1>4, <1>5, <1>6, <1>7, <1>8 DEF args

LEMMA OtherGoes ==
    ASSUME line \in Lines, Waiting1, ~Addressing, NEW o, Handled(line, o, pc, dp)
    PROVE  Goes(o)
<1> DEFINE args == IntArgs(line)
           n == Len(args)
<1>1. /\ DOMAIN args = 1 .. n /\ n = Len(line.args) /\ n \in Nat \ {0}
      /\ DOMAIN line.args = DOMAIN args /\ line.args # <<>>
      /\ \E k \in DOMAIN args : args[k] = Undefined /\ line.args[k] = Undefined
      /\ \A k \in DOMAIN args :
             \/ args[k] = Undefined
             \/ Number7(args[k])
             \/ args[k].type = "reg" /\ Is(line, "pair")
             \/ /\ args[k].type = "reg" /\ Is(line, "reg_mem")
                /\ args[k].as_reg \in DOMAIN RegMemRegister
      /\ ~(Is(line, "pair") \/ Is(line, "reg_mem")) =>
             \A k \in DOMAIN args : Plainly(line.args[k]) /\ Counted(line.args[k])
  BY OtherArgs
<1>2. Waits(line) /\ Takes(line, n)
  BY <1>1 DEF Waiting1
<1>3. /\ (line.op.ext \in Immediates /\ ~IsMem(line)) => line.immediate /\ n = 1
      /\ Is(line, "inherent") => n = 0
      /\ line.op.ext \in {"rel8", "rel16", "rmb"} => n = 1
      /\ line.op.ext = "rzb" => n \in 1 .. 2
      /\ line.op.ext \in {"pair", "fill"} => n = 2
      /\ line.op.ext = "reg_mem" => n = 4
  <2> HIDE DEF n, args
  <2> QED BY <1>2, TakenCount
<1>4. ~IsMem(line) /\ ~Is(line, "imm8_mem")
  BY DEF Addressing
<1> DEFINE Handler ==
        \/ line.op.ext \in Immediates /\ o = InstrImmediate(line.op, args)
        \/ line.op.ext \in {"rel8", "rel16"} /\ o = InstrRel(line.op, args, pc + line.op.length)
        \/ Is(line, "pair") /\ o \in InstrPair(args)
        \/ Is(line, "reg_mem") /\ o = InstrRegMem(args)
        \/ line.op.ext \in DOMAIN FormMode /\ o = PseudoForm(line.op.ext, line.args)
        \/ line.op.ext \in {"fdb", "fqb"} /\ o = PseudoWords(line.op.ext, line.args)
        \/ line.op.ext \in {"rzb", "fill"} /\ o = PseudoFill(line.op.ext, line.args)
        \/ Is(line, "rmb") /\ o = PseudoRmb(line.args)
<1>5. Handler
  <2>1. ~Is(line, "inherent")
    BY <1>1, <1>3
  <2>2. line.op.ext \in Immediates => line.immediate
    BY <1>3, <1>4
  <2>3. ~(Is(line, "stacks") \/ Is(line, "stacku") \/ Is(line, "tfm") \/ Is(line, "align")
            \/ Is(line, "includebin"))
    BY <1>2 DEF Waits, Is
  <2> HIDE DEF args, n
  <2>4. Handled(line, o, pc, dp) <=>
        \/ Is(line, "inherent") /\ o = InstrInherent(args)
        \/ line.op.ext \in Immediates /\ line.immediate /\ o = InstrImmediate(line.op, args)
        \/ Is(line, "imm8_mem") /\ o = InstrImm8Mem(line.op, args, dp, pc)
        \/ IsMem(line) /\ o = InstrAddress(line.op, args, <<>>, dp, pc)
        \/ line.op.ext \in {"rel8", "rel16"} /\ o = InstrRel(line.op, args, pc + line.op.length)
        \/ Is(line, "stacks") /\ o = InstrStack(args, "S")
        \/ Is(line, "stacku") /\ o = InstrStack(args, "U")
        \/ Is(line, "pair") /\ o \in InstrPair(args)
        \/ Is(line, "tfm") /\ o = InstrTfm(args)
        \/ Is(line, "reg_mem") /\ o = InstrRegMem(args)
        \/ line.op.ext \in DOMAIN FormMode /\ o = PseudoForm(line.op.ext, line.args)
        \/ line.op.ext \in {"fdb", "fqb"} /\ o = PseudoWords(line.op.ext, line.args)
        \/ line.op.ext \in {"rzb", "fill"} /\ o = PseudoFill(line.op.ext, line.args)
        \/ Is(line, "rmb") /\ o = PseudoRmb(line.args)
        \/ Is(line, "align") /\ o = PseudoAlign(line.args, pc)
        \/ Is(line, "includebin") /\ o = PseudoIncludebin(line.args)
        \/ line.op.ext \in Immediates /\ ~line.immediate /\ line.op.mem = {} /\ o = Refuse("none")
    BY Zenon DEF Handled, args
  <2> QED BY <1>4, <2>1, <2>2, <2>3, <2>4, Zenon
<1> HIDE DEF args, n
<1>6. CASE line.op.ext \in Immediates /\ o = InstrImmediate(line.op, args)
  <2>1. Len(args) = 1
    BY <1>3, <1>4, <1>6 DEF n
  <2>2. /\ Borne(o)
        /\ line.op.ext = "imm8" => Len(o.bytes) = 1
        /\ line.op.ext = "imm16" => Len(o.bytes) = 2
    BY <1>6, <2>1, ImmediateBorne
  <2> QED BY <1>4, <1>6, <2>2 DEF Goes, OneByte, TwoBytes, Immediates
<1>7. CASE line.op.ext \in {"rel8", "rel16"} /\ o = InstrRel(line.op, args, pc + line.op.length)
  <2>1. Len(args) = 1 /\ args[1] = Undefined
    BY <1>1, <1>3, <1>7 DEF n
  <2>2. /\ Borne(o)
        /\ line.op.ext = "rel8" => Len(o.bytes) = 1
        /\ line.op.ext = "rel16" => Len(o.bytes) = 2
    BY <1>7, <2>1, RelBorne
  <2> QED BY <1>4, <1>7, <2>2 DEF Goes, OneByte, TwoBytes
<1>8. CASE Is(line, "pair") /\ o \in InstrPair(args)
  <2>1. Len(args) = 2
    BY <1>3, <1>8 DEF n, Is
  <2>2. \A i \in 1 .. 2 : args[i] = Undefined \/ Number7(args[i]) \/ args[i].type = "reg"
    BY <1>1, <2>1 DEF n
  <2>3. Borne(o) /\ Len(o.bytes) = 1
    BY <1>8, <2>1, <2>2, PairBorne
  <2> QED BY <1>4, <1>8, <2>3 DEF Goes, OneByte, TwoBytes, Is
<1>9. CASE Is(line, "reg_mem") /\ o = InstrRegMem(args)
  <2>1. Len(args) = 4
    BY <1>3, <1>9 DEF n, Is
  <2>2. \A i \in 1 .. 4 : \/ args[i] = Undefined
                          \/ Number7(args[i])
                          \/ args[i].type = "reg" /\ args[i].as_reg \in DOMAIN RegMemRegister
    BY <1>1, <1>9, <2>1 DEF n, Is
  <2>3. Borne(o) /\ Len(o.bytes) = 2
    BY <1>9, <2>1, <2>2, RegMemBorne
  <2> QED BY <1>4, <1>9, <2>3 DEF Goes, OneByte, TwoBytes, Is
<1>10. line.op.ext \notin OneByte \cup TwoBytes /\ Borne(o) => Goes(o)
  BY <1>4 DEF Goes
<1>11. CASE line.op.ext \in DOMAIN FormMode /\ o = PseudoForm(line.op.ext, line.args)
  <2>1. line.op.ext \in {"fcb", "fcc", "fcn", "fcv", "fci", "fcs"}
    BY <1>11 DEF FormMode
  <2>2. \A i \in 1 .. n : Plainly(line.args[i])
    BY <1>1, <2>1 DEF Is
  <2>3. Borne(o)
    BY <1>1, <1>11, <2>2, FormBorne
  <2> QED BY <1>10, <2>1, <2>3 DEF OneByte, TwoBytes
<1>12. CASE line.op.ext \in {"fdb", "fqb"} /\ o = PseudoWords(line.op.ext, line.args)
  <2>1. \A i \in DOMAIN line.args : Plainly(line.args[i])
    BY <1>1, <1>12 DEF Is
  <2>2. Borne(o)
    BY <1>1, <1>12, <2>1, WordsBorne
  <2> QED BY <1>10, <1>12, <2>2 DEF OneByte, TwoBytes
<1>13. CASE line.op.ext \in {"rzb", "fill"} /\ o = PseudoFill(line.op.ext, line.args)
  <2>1. \A i \in DOMAIN line.args : Counted(line.args[i])
    BY <1>1, <1>13 DEF Is
  <2>2. Borne(o)
    BY <1>1, <1>3, <1>13, <2>1, FillBorne
  <2> QED BY <1>10, <1>13, <2>2 DEF OneByte, TwoBytes
<1>14. CASE Is(line, "rmb") /\ o = PseudoRmb(line.args)
  <2>1. \A i \in DOMAIN line.args : Counted(line.args[i])
    BY <1>1, <1>14 DEF Is
  <2>2. Len(line.args) = 1
    BY <1>1, <1>3, <1>14 DEF Is
  <2>3. Borne(o)
    BY <1>14, <2>1, <2>2, RmbBorne
  <2> QED BY <1>10, <1>14, <2>3 DEF OneByte, TwoBytes, Is
<1> QED BY <1>5, <1>6, <1>7, <1>8, <1>9, <1>11, <1>12, <1>13, <1>14, Zenon

LEMMA DInvTolerated == DInv => UndefinedTolerated
<1> SUFFICES ASSUME DInv, line # NoLine, Waiting1
             PROVE  /\ ~Failing(out.error)
                    /\ (line.op.ext \in OneByte /\ ~IsMem(line)) => Len(out.bytes) = 1
                    /\ (line.op.ext \in TwoBytes /\ ~IsMem(line)) => Len(out.bytes) = 2
                    /\ (IsMem(line) /\ line.args = <<Undefined>> /\ "extended" \in line.op.mem) =>
                           Len(out.bytes) = 2
  BY Zenon DEF UndefinedTolerated, Waiting1
<1>1. line \in Lines /\ Handled(line, out, pc, dp)
  BY DEF DInv
<1>2. Goes(out)
  <2>1. CASE IsMem(line)
    <3>1. line.op.ext \in {"none", "imm8", "imm16", "imm32"}
      BY <1>1, <2>1, OwnMode
    <3>2. line.op.ext \in Immediates => ~line.immediate /\ line.op.mem # {}
      BY <2>1 DEF IsMem
    <3>3. out = InstrAddress(line.op, IntArgs(line), <<>>, dp, pc)
      BY <1>1, <3>1, <3>2 DEF Handled, Is, FormMode
    <3> QED BY <1>1, <2>1, <3>3, MemGoes
  <2>2. CASE Is(line, "imm8_mem")
    <3>1. ~IsMem(line)
      BY <2>2 DEF IsMem, Is
    <3>2. out = InstrImm8Mem(line.op, IntArgs(line), dp, pc)
      BY <1>1, <2>2, <3>1 DEF Handled, Is, FormMode, Immediates
    <3> QED BY <1>1, <2>2, <3>2, Imm8MemGoes
  <2>3. CASE ~Addressing
    BY <1>1, <2>3, OtherGoes
  <2> QED BY <2>1, <2>2, <2>3 DEF Addressing
<1> QED BY <1>2, BorneHolds DEF Goes

(* No instruction or pseudo-op but those that do not wait refuses a line for *)
(* an operand not known yet, and it takes its room, whatever the line; of    *)
(* the handlers of instr.c and assemble.c.                                   *)
THEOREM UndefinedIsTolerated == Spec => []UndefinedTolerated
<1>1. Init => DInv
  BY InitDInv
<1>2. DInv /\ [Next]_vars => DInv'
  BY NextDInv
<1> QED BY <1>1, <1>2, DInvTolerated, PTL DEF Spec

-----------------------------------------------------------------------------
(* ALIGN.  Division by any number.                                           *)
LEMMA Divided ==
    ASSUME NEW n \in Int, NEW d \in Nat \ {0}
    PROVE  /\ n \div d \in Int /\ n % d \in Int
           /\ n = d * (n \div d) + (n % d)
           /\ 0 <= n % d /\ n % d < d
OBVIOUS

LEMMA Multiple ==
    ASSUME NEW m \in Int, NEW d \in Nat \ {0}, NEW k \in Int, k = d * m
    PROVE  k % d = 0
OBVIOUS

(* The remainder of C: of the same class, with the sign of the dividend.     *)
LEMMA RemainderIs ==
    ASSUME NEW n \in Int, NEW d \in Nat \ {0}
    PROVE  LET r == Remainder(n, d)
           IN  /\ r \in Int /\ -d < r /\ r < d /\ (n >= 0 => 0 <= r)
               /\ \E q \in Int : n = d * q + r
<1>1. Magnitude(d) = d /\ ~(d < 0)
  BY DEF Magnitude
<1>2. CASE n >= 0
  <2>1. Quotient(n, d) = n \div d
    <3>1. Magnitude(n) = n /\ (n < 0) = FALSE /\ (d < 0) = FALSE
      BY <1>2 DEF Magnitude
    <3> QED BY <1>1, <3>1 DEF Quotient
  <2> DEFINE q == n \div d
             m == n % d
  <2>2. q \in Int /\ m \in Int /\ n = d * q + m /\ 0 <= m /\ m < d
    BY Divided
  <2>3. Remainder(n, d) = n - d * q
    BY <2>1 DEF Remainder
  <2> HIDE DEF q, m
  <2> DEFINE s == d * q
  <2>4. s \in Int
    BY <2>2
  <2>5. Remainder(n, d) = m
    <3> HIDE DEF s
    <3>1. n = s + m /\ Remainder(n, d) = n - s
      BY <2>2, <2>3 DEF s
    <3> QED BY <2>2, <2>4, <3>1
  <2>6. n = d * q + Remainder(n, d)
    BY <2>2, <2>5
  <2>7. \E x \in Int : n = d * x + Remainder(n, d)
    BY <2>2, <2>6
  <2>8. Remainder(n, d) \in Int /\ -d < Remainder(n, d) /\ Remainder(n, d) < d /\ 0 <= Remainder(n, d)
    BY <2>2, <2>5
  <2> QED BY <2>7, <2>8
<1>3. CASE n < 0
  <2> DEFINE q == (-n) \div d
             m == (-n) % d
  <2>1. Quotient(n, d) = -q
    <3>1. Magnitude(n) = -n /\ (n < 0) # (d < 0)
      BY <1>3 DEF Magnitude
    <3> QED BY <1>1, <3>1 DEF Quotient
  <2>2. q \in Int /\ m \in Int /\ -n = d * q + m /\ 0 <= m /\ m < d
    <3>1. -n \in Int
      OBVIOUS
    <3> QED BY <3>1, Divided
  <2>3. Remainder(n, d) = n - d * (-q)
    BY <2>1 DEF Remainder
  <2> HIDE DEF q, m
  <2> DEFINE s == d * q
  <2>4. s \in Int /\ d * (-q) = -s
    BY <2>2
  <2>5. Remainder(n, d) = -m /\ n = -s - m
    <3> HIDE DEF s
    <3>1. -n = s + m /\ Remainder(n, d) = n - (-s)
      BY <2>2, <2>3, <2>4 DEF s
    <3> QED BY <2>2, <2>4, <3>1
  <2>6. -q \in Int /\ n = d * (-q) + (-m)
    BY <2>2, <2>4, <2>5
  <2> QED BY <1>3, <2>2, <2>5, <2>6
<1> QED BY <1>2, <1>3

LEMMA PaddingIs ==
    ASSUME NEW p \in Int, NEW d \in Nat \ {0}
    PROVE  LET c == Padding(p, d)
           IN  c \in Nat /\ c < d /\ (p + c) % d = 0
<1> DEFINE r == Remainder(p, d)
           c == Padding(p, d)
<1>1. r \in Int /\ -d < r /\ r < d /\ \E q \in Int : p = d * q + r
  BY RemainderIs
<1>2. c = Remainder(d - r, d)
  BY DEF Padding
<1> HIDE DEF r, c
<1>3. PICK q \in Int : p = d * q + r
  BY <1>1
<1>4. d - r \in Int /\ d - r >= 0
  BY <1>1
<1>5. /\ c \in Int /\ 0 <= c /\ c < d
      /\ \E k \in Int : d - r = d * k + c
  BY <1>2, <1>4, RemainderIs
<1>6. PICK k \in Int : d - r = d * k + c
  BY <1>5
<1>7. p + c = d * (q + 1 - k)
  <2> DEFINE s == d * q
             u == d * k
  <2>1. s \in Int /\ u \in Int
    OBVIOUS
  <2>2. d * (q + 1 - k) = s + d - u
    OBVIOUS
  <2>3. p = s + r /\ d - r = u + c
    BY <1>3, <1>6
  <2> HIDE DEF s, u
  <2> QED BY <1>1, <1>5, <2>1, <2>2, <2>3
<1>8. (p + c) % d = 0
  <2>1. q + 1 - k \in Int /\ p + c \in Int
    BY <1>5
  <2> QED BY <1>7, <2>1, Multiple
<1> QED BY <1>5, <1>8 DEF c

LEMMA HaveIntType ==
    ASSUME NEW args, NEW i, i \in DOMAIN args => Evaluated(args[i])
    PROVE  HaveInt(args, i, 0) \in Int
<1>1. CASE i \notin DOMAIN args
  BY <1>1 DEF HaveInt
<1>2. CASE i \in DOMAIN args
  <2> DEFINE n == args[i]
             e == EvalInt(n)
  <2>1. e.type \in {"int", "undef"} /\ (e.type = "int" => e.as_int \in Int) /\ (e.type = "undef" => e = Undefined)
    BY <1>2, EvalIntType
  <2>2. e.as_int \in Int
    <3> HIDE DEF e
    <3> QED BY <2>1 DEF Undefined
  <2>3. HaveInt(args, i, 0) = CASE n.type \in {"int", "float"} -> e.as_int
                                [] n.type = "empty" -> 0
                                [] OTHER -> 0
    BY <1>2 DEF HaveInt
  <2> HIDE DEF n, e
  <2> QED BY <2>2, <2>3
<1> QED BY <1>1, <1>2

LEMMA AlignRead ==
    ASSUME NEW args, NEW p \in Int, Len(args) \in 1 .. 2 => Evaluated(args[1]),
           DOMAIN args = 1 .. Len(args),
           NEW o, o = PseudoAlign(args, p), o.error = None
    PROVE  LET align == HaveInt(args, 1, 0)
           IN  (p + Len(o.bytes)) % align = 0 /\ Len(o.bytes) < align
<1> DEFINE align == HaveInt(args, 1, 0)
           fill  == HaveInt(args, 2, 0)
           count == Padding(p, align)
           e == IF IntRefused(args, 2) THEN Syntax ELSE None
           f == IF IntRefused(args, 1) \/ IntRefused(args, 2) THEN Syntax ELSE OutOfRange
           b == [i \in 1 .. count |-> fill % 256]
<1>1. o = CASE Len(args) \notin 1 .. 2 -> Reserved(0, Syntax)
            [] Len(args) \in 1 .. 2 /\ align < 1 -> Reserved(0, f)
            [] Len(args) = 1 /\ align >= 1 -> Reserved(count, None)
            [] OTHER -> Stored(b, e)
  BY DEF PseudoAlign
<1>2. f # None /\ Syntax # None /\ Reserved(0, f).error = f /\ Reserved(0, Syntax).error = Syntax
  BY DEF None, Syntax, OutOfRange, Reserved, Emit
<1>3. Len(args) \in 1 .. 2 => align \in Int
  BY HaveIntType
<1> HIDE DEF align, f, e, b, count
<1>4. /\ Len(args) \in 1 .. 2 /\ align \in Nat \ {0}
      /\ o = Reserved(count, None) \/ o = Stored(b, e)
  <2>1. Len(args) \in 1 .. 2
    BY <1>1, <1>2
  <2>2. ~(align < 1)
    BY <1>1, <1>2, <1>3, <2>1
  <2> QED BY <1>1, <1>3, <2>1, <2>2
<1>5. count \in Nat /\ count < align /\ (p + count) % align = 0
  BY <1>4, PaddingIs DEF count
<1>6. Len(Pad(count)) = count /\ Len(b) = count
  BY <1>5, PadLength DEF b
<1>7. Len(o.bytes) = count
  BY <1>4, <1>6 DEF Reserved, Stored, Emit
<1> QED BY <1>5, <1>7 DEF align

-----------------------------------------------------------------------------
(* Lists of bytes, one after the other.  What holds of the first, and of     *)
(* each with the one before it, holds of all.                                *)
LEMMA OneByOne ==
    ASSUME NEW n \in Nat, NEW G, n > 0 => 1 \in G, \A k \in 1 .. n - 1 : k \in G => k + 1 \in G
    PROVE  \A k \in 1 .. n : k \in G
<1> DEFINE Bad == {k \in 1 .. n : k \notin G}
<1>1. SUFFICES ASSUME Bad # {} PROVE FALSE
  OBVIOUS
<1>2. Bad \subseteq Nat
  OBVIOUS
<1>3. PICK k \in Bad : \A j \in Bad : k <= j
  BY <1>1, <1>2, Least
<1>4. k \in 1 .. n /\ k \notin G /\ k # 1
  BY <1>3
<1>5. k - 1 \in 1 .. n - 1 /\ k - 1 \in 1 .. n /\ ~(k <= k - 1) /\ k - 1 + 1 = k
  BY <1>4
<1>6. k - 1 \in G
  BY <1>3, <1>5
<1> QED BY <1>4, <1>5, <1>6

Run(f, s, n) == f = [i \in 1 .. n |-> IF i = 1 THEN s[i] ELSE f[i - 1] \o s[i]]

LEMMA RunExists ==
    ASSUME NEW s, NEW n \in Nat
    PROVE  n > 0 => \E f : Run(f, s, n)
<1> DEFINE G == {k \in Nat : \E f : Run(f, s, k)}
<1>1. 1 \in G
  <2> DEFINE f == [i \in 1 .. 1 |-> s[1]]
  <2>1. f = [i \in 1 .. 1 |-> IF i = 1 THEN s[i] ELSE f[i - 1] \o s[i]]
    OBVIOUS
  <2>2. Run(f, s, 1)
    BY <2>1 DEF Run
  <2> QED BY <2>2
<1>2. ASSUME NEW k \in 1 .. n - 1, k \in G
      PROVE  k + 1 \in G
  <2>1. PICK f : f = [i \in 1 .. k |-> IF i = 1 THEN s[i] ELSE f[i - 1] \o s[i]]
    BY <1>2 DEF Run
  <2> DEFINE g == [i \in 1 .. k + 1 |-> IF i <= k THEN f[i] ELSE f[k] \o s[k + 1]]
  <2>2. ASSUME NEW i \in 1 .. k + 1
        PROVE  g[i] = IF i = 1 THEN s[i] ELSE g[i - 1] \o s[i]
    <3>1. CASE i <= k
      <4>1. g[i] = f[i] /\ i \in 1 .. k
        BY <3>1
      <4>3. \A j \in 1 .. k : f[j] = IF j = 1 THEN s[j] ELSE f[j - 1] \o s[j]
        BY <2>1, Zenon
      <4>2. i # 1 => g[i - 1] = f[i - 1]
        BY <3>1
      <4>4. f[i] = IF i = 1 THEN s[i] ELSE f[i - 1] \o s[i]
        BY <4>1, <4>3, Zenon
      <4> QED BY <4>1, <4>2, <4>4
    <3>2. CASE i = k + 1
      BY <3>2
    <3> QED BY <3>1, <3>2
  <2>3. g = [i \in 1 .. k + 1 |-> IF i = 1 THEN s[i] ELSE g[i - 1] \o s[i]]
    BY <2>2
  <2>4. Run(g, s, k + 1)
    <3> HIDE DEF g
    <3> QED BY <2>3 DEF Run
  <2> QED BY <2>4
<1> HIDE DEF G
<1>3. \A k \in 1 .. n : k \in G
  BY <1>1, <1>2, OneByOne
<1> QED BY <1>3 DEF G

LEMMA Flattened ==
    ASSUME NEW s, NEW n \in Nat \ {0}, Len(s) = n
    PROVE  \E f : Run(f, s, n) /\ FlattenSeq(s) = f[n]
<1> DEFINE f[i \in 1 .. Len(s)] == IF i = 1 THEN s[i] ELSE f[i - 1] \o s[i]
<1>1. FlattenSeq(s) = f[n]
  BY DEF FlattenSeq
<1>2. \E g : g = [i \in 1 .. Len(s) |-> IF i = 1 THEN s[i] ELSE g[i - 1] \o s[i]]
  <2>1. \E g : Run(g, s, n)
    BY RunExists
  <2> QED BY <2>1 DEF Run
<1>3. f = [i \in 1 .. Len(s) |-> IF i = 1 THEN s[i] ELSE f[i - 1] \o s[i]]
  BY <1>2
<1> HIDE DEF f
<1>4. Run(f, s, n)
  BY <1>3 DEF Run
<1> QED BY <1>1, <1>4

LEMMA RunSteps ==
    ASSUME NEW f, NEW s, NEW n \in Nat \ {0}, Run(f, s, n)
    PROVE  f[1] = s[1] /\ \A k \in 1 .. n - 1 : f[k + 1] = f[k] \o s[k + 1]
<1>1. \A i \in 1 .. n : f[i] = IF i = 1 THEN s[i] ELSE f[i - 1] \o s[i]
  BY DEF Run
<1>2. f[1] = s[1]
  BY <1>1
<1>3. ASSUME NEW k \in 1 .. n - 1 PROVE f[k + 1] = f[k] \o s[k + 1]
  <2>1. k + 1 \in 1 .. n /\ k + 1 # 1 /\ k + 1 - 1 = k
    OBVIOUS
  <2> DEFINE j == k + 1
  <2>2. j \in 1 .. n /\ j # 1 /\ j - 1 = k
    BY <2>1
  <2> HIDE DEF j
  <2>3. f[j] = f[j - 1] \o s[j]
    BY <1>1, <2>2, Zenon
  <2> QED BY <2>2, <2>3 DEF j
<1> QED BY <1>2, <1>3

LEMMA RunType ==
    ASSUME NEW f, NEW s, NEW n \in Nat \ {0}, Run(f, s, n), NEW S, \A i \in 1 .. n : s[i] \in Seq(S)
    PROVE  \A i \in 1 .. n : f[i] \in Seq(S)
<1> DEFINE G == {k \in Nat : f[k] \in Seq(S)}
<1>1. f[1] = s[1] /\ \A k \in 1 .. n - 1 : f[k + 1] = f[k] \o s[k + 1]
  BY RunSteps
<1>2. 1 \in G
  BY <1>1
<1>3. \A k \in 1 .. n - 1 : k \in G => k + 1 \in G
  <2> SUFFICES ASSUME NEW k \in 1 .. n - 1, k \in G PROVE k + 1 \in G
    OBVIOUS
  <2> DEFINE u == f[k]
             v == s[k + 1]
  <2>1. k + 1 \in 1 .. n /\ k + 1 \in Nat
    OBVIOUS
  <2>2. u \in Seq(S) /\ v \in Seq(S)
    BY <2>1
  <2>3. f[k + 1] = u \o v
    BY <1>1, Zenon
  <2>4. f[k + 1] \in Seq(S)
    <3> HIDE DEF u, v
    <3>1. u \o v \in Seq(S)
      BY <2>2
    <3> QED BY <2>3, <3>1
  <2> QED BY <2>1, <2>4
<1> HIDE DEF G
<1>4. \A k \in 1 .. n : k \in G
  BY <1>2, <1>3, OneByOne
<1> QED BY <1>4 DEF G

LEMMA FlattenedType ==
    ASSUME NEW s, NEW n \in Nat \ {0}, Len(s) = n, NEW S, \A i \in 1 .. n : s[i] \in Seq(S)
    PROVE  FlattenSeq(s) \in Seq(S)
<1>1. PICK f : Run(f, s, n) /\ FlattenSeq(s) = f[n]
  BY Flattened
<1>2. \A i \in 1 .. n : f[i] \in Seq(S)
  BY <1>1, RunType
<1> QED BY <1>1, <1>2

LEMMA FlattenedSteps ==
    ASSUME NEW s, NEW n \in Nat \ {0}, Len(s) = n
    PROVE  \E f : /\ f[1] = s[1] /\ FlattenSeq(s) = f[n]
                  /\ \A k \in 1 .. n - 1 : f[k + 1] = f[k] \o s[k + 1]
<1>1. PICK f : Run(f, s, n) /\ FlattenSeq(s) = f[n]
  BY Flattened
<1>2. f[1] = s[1] /\ \A k \in 1 .. n - 1 : f[k + 1] = f[k] \o s[k + 1]
  BY <1>1, RunSteps
<1> QED BY <1>1, <1>2, Zenon

(* One list more.                                                            *)
LEMMA FlattenedMore ==
    ASSUME NEW s, NEW n \in Nat \ {0}, Len(s) = n,
           NEW t, Len(t) = n + 1, \A i \in 1 .. n : t[i] = s[i]
    PROVE  FlattenSeq(t) = FlattenSeq(s) \o t[n + 1]
<1>1. PICK f : /\ f[1] = s[1] /\ FlattenSeq(s) = f[n]
               /\ \A k \in 1 .. n - 1 : f[k + 1] = f[k] \o s[k + 1]
  BY FlattenedSteps, Zenon
<1>2. n + 1 \in Nat \ {0}
  OBVIOUS
<1>3. PICK g : Run(g, t, n + 1) /\ FlattenSeq(t) = g[n + 1]
  BY <1>2, Flattened
<1>5. g[1] = t[1] /\ \A k \in 1 .. n : g[k + 1] = g[k] \o t[k + 1]
  <2> DEFINE m == n + 1
  <2>1. m \in Nat \ {0} /\ Run(g, t, m) /\ 1 .. m - 1 = 1 .. n
    BY <1>2, <1>3
  <2> HIDE DEF m
  <2>2. g[1] = t[1] /\ \A k \in 1 .. m - 1 : g[k + 1] = g[k] \o t[k + 1]
    BY <2>1, RunSteps, Zenon
  <2> QED BY <2>1, <2>2, Zenon
<1> DEFINE G == {k \in Nat : g[k] = f[k]}
<1>6. 1 \in G
  BY <1>1, <1>5
<1>7. \A k \in 1 .. n - 1 : k \in G => k + 1 \in G
  <2> SUFFICES ASSUME NEW k \in 1 .. n - 1, k \in G PROVE k + 1 \in G
    OBVIOUS
  <2>1. k + 1 \in 1 .. n /\ k + 1 \in Nat /\ k \in 1 .. n
    OBVIOUS
  <2>2. g[k + 1] = g[k] \o t[k + 1]
    BY <1>5, <2>1, Zenon
  <2>3. f[k + 1] = f[k] \o s[k + 1]
    BY <1>1, Zenon
  <2>4. t[k + 1] = s[k + 1]
    BY <2>1, Zenon
  <2>5. g[k + 1] = f[k + 1]
    BY <2>2, <2>3, <2>4
  <2> QED BY <2>1, <2>5
<1> HIDE DEF G
<1>8. \A k \in 1 .. n : k \in G
  BY <1>6, <1>7, OneByOne
<1>9. g[n] = f[n]
  BY <1>8 DEF G
<1>10. g[n + 1] = g[n] \o t[n + 1]
  <2>1. n \in 1 .. n
    OBVIOUS
  <2> QED BY <1>5, <2>1, Zenon
<1> QED BY <1>1, <1>3, <1>9, <1>10

LEMMA Concat ==
    ASSUME NEW u \in Seq(Int), NEW v \in Seq(Int)
    PROVE  /\ Len(u) \in Nat /\ Len(v) \in Nat /\ Len(u \o v) = Len(u) + Len(v)
           /\ \A j \in 1 .. Len(u) : (u \o v)[j] = u[j]
           /\ \A j \in 1 .. Len(v) : (u \o v)[Len(u) + j] = v[j]
OBVIOUS

(* Two rows of lists of the same lengths, compared number by number.         *)
LEMMA JoinedBeside ==
    ASSUME NEW R, NEW u \in Seq(Int), NEW v \in Seq(Int), NEW x \in Seq(Int), NEW y \in Seq(Int),
           Len(u) = Len(x), Len(v) = Len(y),
           \A j \in 1 .. Len(u) : <<u[j], x[j]>> \in R, \A j \in 1 .. Len(v) : <<v[j], y[j]>> \in R
    PROVE  /\ Len(u \o v) = Len(x \o y)
           /\ \A j \in 1 .. Len(u \o v) : <<(u \o v)[j], (x \o y)[j]>> \in R
<1> DEFINE a == u \o v
           b == x \o y
           m == Len(u)
           n == Len(v)
<1>1. /\ m \in Nat /\ n \in Nat /\ Len(a) = m + n /\ Len(b) = m + n
      /\ \A j \in 1 .. m : a[j] = u[j] /\ b[j] = x[j]
      /\ \A j \in 1 .. n : a[m + j] = v[j] /\ b[m + j] = y[j]
  <2>1. /\ m \in Nat /\ n \in Nat /\ Len(a) = m + n
        /\ \A j \in 1 .. m : a[j] = u[j]
        /\ \A j \in 1 .. n : a[m + j] = v[j]
    BY Concat, Zenon
  <2>2. /\ Len(b) = Len(x) + Len(y)
        /\ \A j \in 1 .. Len(x) : b[j] = x[j]
        /\ \A j \in 1 .. Len(y) : b[Len(x) + j] = y[j]
    BY Concat, Zenon
  <2>3. Len(x) = m /\ Len(y) = n
    OBVIOUS
  <2> HIDE DEF a, b, m, n
  <2> QED BY <2>1, <2>2, <2>3
<1> HIDE DEF a, b, m, n
<1>2. ASSUME NEW j \in 1 .. Len(a)
      PROVE  <<a[j], b[j]>> \in R
  <2>1. CASE j \in 1 .. m
    BY <1>1, <2>1 DEF m
  <2>2. CASE j \notin 1 .. m
    <3> DEFINE k == j - m
    <3>1. k \in 1 .. n /\ j = m + k
      BY <1>1, <2>2
    <3> HIDE DEF k
    <3>2. a[j] = v[k] /\ b[j] = y[k]
      BY <1>1, <3>1
    <3> QED BY <3>1, <3>2 DEF n
  <2> QED BY <2>1, <2>2
<1>3. Len(a) = Len(b)
  BY <1>1
<1> QED BY <1>2, <1>3 DEF a, b

LEMMA FlattenedBeside ==
    ASSUME NEW R, NEW s, NEW t, NEW n \in Nat \ {0}, Len(s) = n, Len(t) = n,
           \A i \in 1 .. n : s[i] \in Seq(Int) /\ t[i] \in Seq(Int) /\ Len(s[i]) = Len(t[i]),
           \A i \in 1 .. n : \A j \in 1 .. Len(s[i]) : <<s[i][j], t[i][j]>> \in R
    PROVE  /\ Len(FlattenSeq(s)) = Len(FlattenSeq(t))
           /\ \A j \in 1 .. Len(FlattenSeq(s)) : <<FlattenSeq(s)[j], FlattenSeq(t)[j]>> \in R
<1>1. PICK f : Run(f, s, n) /\ FlattenSeq(s) = f[n]
  BY Flattened
<1>2. PICK g : Run(g, t, n) /\ FlattenSeq(t) = g[n]
  BY Flattened
<1>3. f[1] = s[1] /\ \A k \in 1 .. n - 1 : f[k + 1] = f[k] \o s[k + 1]
  BY <1>1, RunSteps
<1>4. g[1] = t[1] /\ \A k \in 1 .. n - 1 : g[k + 1] = g[k] \o t[k + 1]
  BY <1>2, RunSteps
<1>5. \A i \in 1 .. n : f[i] \in Seq(Int)
  BY <1>1, RunType
<1>6. \A i \in 1 .. n : g[i] \in Seq(Int)
  BY <1>2, RunType
<1> DEFINE Alike(x, y) == Len(x) = Len(y) /\ \A j \in 1 .. Len(x) : <<x[j], y[j]>> \in R
           G == {k \in Nat : Alike(f[k], g[k])}
<1>7. \A i \in 1 .. n : Alike(s[i], t[i])
  OBVIOUS
<1>8. 1 \in G
  BY <1>3, <1>4
<1>9. \A k \in 1 .. n - 1 : k \in G => k + 1 \in G
  <2> SUFFICES ASSUME NEW k \in 1 .. n - 1, k \in G PROVE k + 1 \in G
    OBVIOUS
  <2>1. k + 1 \in 1 .. n /\ k + 1 \in Nat /\ k \in 1 .. n
    OBVIOUS
  <2> DEFINE u == f[k]
             v == s[k + 1]
             x == g[k]
             y == t[k + 1]
  <2>2. u \in Seq(Int) /\ x \in Seq(Int)
    BY <1>5, <1>6, <2>1, Zenon
  <2>3. v \in Seq(Int) /\ y \in Seq(Int) /\ Alike(v, y)
    BY <1>7, <2>1, Zenon
  <2>4. Alike(u, x)
    OBVIOUS
  <2>5. f[k + 1] = u \o v /\ g[k + 1] = x \o y
    BY <1>3, <1>4, Zenon
  <2> HIDE DEF u, v, x, y
  <2>6. Alike(u \o v, x \o y)
    BY <2>2, <2>3, <2>4, JoinedBeside
  <2>7. Alike(f[k + 1], g[k + 1])
    BY <2>5, <2>6, Zenon
  <2> QED BY <2>1, <2>7
<1> HIDE DEF G
<1>10. \A k \in 1 .. n : k \in G
  BY <1>8, <1>9, OneByOne
<1>11. Alike(f[n], g[n])
  BY <1>10 DEF G
<1> QED BY <1>1, <1>2, <1>11

(* Nothing of any list is lost.                                              *)
LEMMA FlattenedContains ==
    ASSUME NEW s, NEW n \in Nat \ {0}, Len(s) = n, \A i \in 1 .. n : s[i] \in Seq(Int),
           NEW k \in 1 .. n, NEW j \in 1 .. Len(s[k])
    PROVE  Contains(FlattenSeq(s), s[k][j])
<1>1. PICK f : Run(f, s, n) /\ FlattenSeq(s) = f[n]
  BY Flattened
<1>2. f[1] = s[1] /\ \A i \in 1 .. n - 1 : f[i + 1] = f[i] \o s[i + 1]
  BY <1>1, RunSteps
<1>3. \A i \in 1 .. n : f[i] \in Seq(Int)
  BY <1>1, RunType
<1> DEFINE e == s[k][j]
           Has(x) == \E q \in 1 .. Len(x) : x[q] = e
           G == {m \in Nat : m >= k => Has(f[m])}
<1>4. 1 \in G
  <2>1. 1 >= k => k = 1
    OBVIOUS
  <2>2. Has(s[k])
    OBVIOUS
  <2> HIDE DEF Has
  <2> QED BY <1>2, <2>1, <2>2
<1>5. \A m \in 1 .. n - 1 : m \in G => m + 1 \in G
  <2> SUFFICES ASSUME NEW m \in 1 .. n - 1, m \in G PROVE m + 1 \in G
    OBVIOUS
  <2>1. m + 1 \in 1 .. n /\ m + 1 \in Nat /\ m \in 1 .. n
    OBVIOUS
  <2> DEFINE u == f[m]
             v == s[m + 1]
  <2>2. u \in Seq(Int) /\ v \in Seq(Int)
    BY <1>3, <2>1, Zenon
  <2>3. f[m + 1] = u \o v
    BY <1>2, Zenon
  <2>4. ASSUME m + 1 >= k PROVE Has(u) \/ Has(v)
    <3>1. CASE m >= k
      BY <3>1
    <3>2. CASE m + 1 = k
      BY <3>2
    <3> QED BY <2>4, <3>1, <3>2
  <2> HIDE DEF u, v
  <2>5. ASSUME m + 1 >= k PROVE Has(u \o v)
    <3> HIDE DEF e
    <3>1. CASE Has(u)
      <4>1. PICK q \in 1 .. Len(u) : u[q] = e
        BY <3>1
      <4>2. q \in 1 .. Len(u \o v) /\ (u \o v)[q] = e
        BY <2>2, <4>1
      <4> QED BY <4>2
    <3>2. CASE Has(v)
      <4>1. PICK q \in 1 .. Len(v) : v[q] = e
        BY <3>2
      <4>2. q + Len(u) \in 1 .. Len(u \o v) /\ (u \o v)[q + Len(u)] = e
        BY <2>2, <4>1
      <4> QED BY <4>2
    <3> QED BY <2>4, <2>5, <3>1, <3>2
  <2>6. m + 1 >= k => Has(f[m + 1])
    BY <2>3, <2>5, Zenon
  <2> QED BY <2>1, <2>6
<1> HIDE DEF G
<1>6. \A m \in 1 .. n : m \in G
  BY <1>4, <1>5, OneByOne
<1>7. Has(f[n])
  <2>1. n \in 1 .. n /\ n >= k
    OBVIOUS
  <2> QED BY <1>6, <2>1, Zenon DEF G
<1> QED BY <1>1, <1>7 DEF Contains

(* Words of two bytes each lie at every second place.                        *)
LEMMA FlattenedWords ==
    ASSUME NEW s, NEW n \in Nat \ {0}, Len(s) = n,
           \A i \in 1 .. n : s[i] \in Seq(Int) /\ Len(s[i]) = 2
    PROVE  \A i \in 1 .. n : /\ FlattenSeq(s)[2 * i - 1] = s[i][1]
                             /\ FlattenSeq(s)[2 * i] = s[i][2]
<1>1. PICK f : Run(f, s, n) /\ FlattenSeq(s) = f[n]
  BY Flattened
<1>2. f[1] = s[1] /\ \A i \in 1 .. n - 1 : f[i + 1] = f[i] \o s[i + 1]
  BY <1>1, RunSteps
<1>3. \A i \in 1 .. n : f[i] \in Seq(Int)
  BY <1>1, RunType
<1> DEFINE Laid(x, k) == /\ Len(x) = 2 * k
                         /\ \A i \in 1 .. k : x[2 * i - 1] = s[i][1] /\ x[2 * i] = s[i][2]
           G == {k \in Nat : Laid(f[k], k)}
<1>4. 1 \in G
  <2>1. Laid(s[1], 1)
    <3>1. \A i \in 1 .. 1 : i = 1 /\ 2 * i - 1 = 1 /\ 2 * i = 2
      OBVIOUS
    <3>2. Len(s[1]) = 2 * 1
      OBVIOUS
    <3> QED BY <3>1, <3>2
  <2> HIDE DEF Laid
  <2> QED BY <1>2, <2>1
<1>5. \A k \in 1 .. n - 1 : k \in G => k + 1 \in G
  <2> SUFFICES ASSUME NEW k \in 1 .. n - 1, k \in G PROVE k + 1 \in G
    OBVIOUS
  <2>1. k + 1 \in 1 .. n /\ k + 1 \in Nat /\ k \in 1 .. n
    OBVIOUS
  <2> DEFINE u == f[k]
             v == s[k + 1]
  <2>2. u \in Seq(Int) /\ v \in Seq(Int) /\ Len(v) = 2
    BY <1>3, <2>1, Zenon
  <2>3. f[k + 1] = u \o v
    BY <1>2, Zenon
  <2>4. Len(u) = 2 * k /\ \A i \in 1 .. k : u[2 * i - 1] = s[i][1] /\ u[2 * i] = s[i][2]
    OBVIOUS
  <2>5. v[1] = s[k + 1][1] /\ v[2] = s[k + 1][2]
    OBVIOUS
  <2> HIDE DEF u, v
  <2>10. /\ Len(u \o v) = Len(u) + Len(v)
         /\ \A j \in 1 .. Len(u) : (u \o v)[j] = u[j]
         /\ \A j \in 1 .. Len(v) : (u \o v)[Len(u) + j] = v[j]
    BY <2>2, Concat, Zenon
  <2> DEFINE w == u \o v
  <2>11. /\ Len(w) = Len(u) + 2
         /\ \A j \in 1 .. Len(u) : w[j] = u[j]
         /\ w[Len(u) + 1] = v[1] /\ w[Len(u) + 2] = v[2]
    BY <2>2, <2>10
  <2> HIDE DEF w
  <2>6. Len(w) = 2 * (k + 1)
    BY <2>4, <2>11
  <2>7. ASSUME NEW i \in 1 .. k + 1
        PROVE  w[2 * i - 1] = s[i][1] /\ w[2 * i] = s[i][2]
    <3>1. CASE i \in 1 .. k
      <4>1. i \in 1 .. k /\ 2 * i - 1 \in 1 .. Len(u) /\ 2 * i \in 1 .. Len(u)
        <5>1. Len(u) = 2 * k
          BY <2>4
        <5> QED BY <3>1, <5>1
      <4>2. w[2 * i - 1] = u[2 * i - 1] /\ w[2 * i] = u[2 * i]
        BY <2>11, <4>1
      <4> QED BY <2>4, <4>1, <4>2
    <3>2. CASE i = k + 1
      <4>1. 2 * i - 1 = Len(u) + 1 /\ 2 * i = Len(u) + 2
        BY <2>4, <3>2
      <4>2. w[2 * i - 1] = v[1] /\ w[2 * i] = v[2]
        BY <2>11, <4>1
      <4> QED BY <2>5, <3>2, <4>2
    <3>3. i \in 1 .. k \/ i = k + 1
      OBVIOUS
    <3> QED BY <3>1, <3>2, <3>3
  <2>8. Laid(w, k + 1)
    BY <2>6, <2>7
  <2>9. Laid(f[k + 1], k + 1)
    BY <2>3, <2>8, Zenon DEF w
  <2> QED BY <2>1, <2>9
<1> HIDE DEF G
<1>6. \A k \in 1 .. n : k \in G
  BY <1>4, <1>5, OneByOne
<1>7. Laid(f[n], n)
  BY <1>6 DEF G
<1> QED BY <1>1, <1>7

-----------------------------------------------------------------------------
(* What an argument of FCB and its kin becomes, by its type.                 *)
Formats == {"none", "vdg", "inverse", "keyword"}
Formattable == {"undef", "empty", "int", "float", "string"}

LEMMA FormattedError ==
    ASSUME NEW n, NEW mode
    PROVE  Formatted(n, mode).error # Syntax <=> n.type \in Formattable
<1>1. CASE n.type \in {"undef", "empty"}
  BY <1>1 DEF Formatted, Stored, Emit, Formattable, None, Syntax
<1>2. CASE n.type \in {"int", "float"}
  BY <1>2 DEF Formatted, Stored, Emit, Formattable, None, Syntax
<1>3. CASE n.type = "string"
  BY <1>3 DEF Formatted, Stored, Emit, Formattable, None, Syntax
<1>4. CASE n.type \notin Formattable
  BY <1>4 DEF Formatted, Stored, Emit, Formattable, None, Syntax
<1> QED BY <1>1, <1>2, <1>3, <1>4 DEF Formattable

LEMMA NumberOf ==
    ASSUME NEW n, Evaluated(n)
    PROVE  EvalInt(n).as_int \in Int
<1> DEFINE e == EvalInt(n)
<1>1. /\ e.type \in {"int", "undef"}
      /\ e.type = "int" => e.as_int \in Int
      /\ e.type = "undef" => e = Undefined
  BY EvalIntType
<1> HIDE DEF e
<1>2. e.as_int \in Int
  BY <1>1 DEF Undefined
<1> QED BY <1>2 DEF e

(* A float that an int holds is cut as any other.                            *)
LEMMA GivenNumber ==
    ASSUME NEW n, Evaluated(n), n.type \in {"int", "float"}
    PROVE  Given(n) \in Int /\ (IntHolds(n) => Given(n) = EvalInt(n).as_int)
<1>1. CASE n.type = "int"
  BY <1>1 DEF Evaluated, Given, EvalInt
<1>2. CASE n.type = "float"
  <2> DEFINE f == n.as_float
             q == Quotient(f[1], f[2])
  <2>1. f \in Int \X Nat
    BY <1>2 DEF Evaluated
  <2>2. /\ IntLeast \in Int /\ IntMin \in Int /\ IntMin <= IntLeast
        /\ Given(n) = TruncatedTo(f, IntLeast) /\ EvalInt(n).as_int = TruncatedTo(f, IntMin)
    BY <1>2, OperandConstants DEF IntLeast, Given, EvalInt, IntNode, Truncated
  <2>3. Given(n) \in Int
    <3> HIDE DEF f
    <3> QED BY <2>1, <2>2, TruncatedToType
  <2>4. ASSUME IntHolds(n) PROVE Given(n) = EvalInt(n).as_int
    <3>1. f[2] # 0 /\ q \in IntLeast .. -(IntLeast + 1)
      BY <1>2, <2>4 DEF IntHolds
    <3> HIDE DEF f
    <3>2. q \in IntMin .. -(IntMin + 1)
      <4> HIDE DEF q
      <4> QED BY <2>2, <3>1
    <3> QED BY <2>2, <3>1, <3>2 DEF TruncatedTo
  <2> QED BY <2>3, <2>4
<1> QED BY <1>1, <1>2

LEMMA FormattedNumber ==
    ASSUME NEW n, Evaluated(n), NEW mode \in Formats, n.type \in Formattable \ {"string"}
    PROVE  LET b == Formatted(n, mode).bytes
           IN  /\ b \in Seq(Int)
               /\ mode # "keyword" => b = Formatted(n, "none").bytes
               /\ (mode # "keyword" /\ IntHolds(n)) => b = Plain(n)
               /\ (mode = "keyword" /\ n.type \in {"int", "float"} /\ IntHolds(n)) =>
                      b = Marked(Plain(n))
<1> DEFINE v == IF n.type \in {"int", "float"} THEN Given(n) ELSE 0
<1>1. v \in Int /\ (IntHolds(n) => Plain(n) = <<v % 256>>)
  <2>1. CASE n.type \in {"int", "float"}
    BY <2>1, GivenNumber DEF Plain
  <2>2. CASE n.type \in {"undef", "empty"}
    BY <2>2 DEF Plain, EvalInt, Undefined
  <2> QED BY <2>1, <2>2 DEF Formattable
<1>2. CASE n.type \in {"undef", "empty"}
  <2>1. v = 0
    BY <1>2
  <2>2. Formatted(n, mode).bytes = Pad(1) /\ Formatted(n, "none").bytes = Pad(1)
    BY <1>2 DEF Formatted, Stored, Emit
  <2>3. Pad(1) = <<0>> /\ <<0>> \in Seq(Int)
    BY DEF Pad
  <2>4. IntHolds(n) => Plain(n) = <<0>>
    BY <1>1, <2>1
  <2> QED BY <1>2, <2>2, <2>3, <2>4
<1>3. CASE n.type \in {"int", "float"}
  <2> DEFINE w == IF mode = "keyword" THEN TopBit(v) ELSE v
  <2>1. Formatted(n, mode).bytes = <<w % 256>> /\ Formatted(n, "none").bytes = <<v % 256>>
    BY <1>3 DEF Formatted, Stored, Emit, Uint8
  <2>2. w \in Int
    BY <1>1 DEF TopBit
  <2>3. mode = "keyword" => w % 256 = ((v % 256) % 128) + 128
    <3>1. TopBit(v) % 256 = ((v % 256) % 128) + 128
      <4> HIDE DEF v
      <4> QED BY <1>1 DEF TopBit
    <3> QED BY <3>1
  <2>4. IntHolds(n) => Marked(Plain(n)) = <<((v % 256) % 128) + 128>>
    <3> DEFINE x == v % 256
    <3>1. Marked(<<x>>) = <<(x % 128) + 128>>
      <4> HIDE DEF x
      <4> QED BY DEF Marked
    <3> QED BY <1>1, <3>1
  <2>5. w % 256 \in Int
    BY <2>2
  <2> HIDE DEF w, v
  <2>6. <<w % 256>> \in Seq(Int)
    BY <2>5
  <2>7. mode # "keyword" => w = v
    BY DEF w
  <2> QED BY <1>1, <2>1, <2>3, <2>4, <2>6, <2>7
<1> QED BY <1>2, <1>3 DEF Formattable

(* Characters, in turn; those of graphics are shown as they are.             *)
LEMMA VdgRange ==
    ASSUME NEW c \in 0 .. 255
    PROVE  LET x == Vdg(c)
           IN  x \in 0 .. 255 /\ (c < 128 => Inverted(x) = (x + 64) % 128 /\ (x + 64) % 128 \in Int)
<1> DEFINE x == Vdg(c)
<1>1. x \in 0 .. 255 /\ (c < 128 => x \in 0 .. 127)
  <2>1. CASE c < 32 \/ c \in 64 .. 95 \/ c >= 128
    BY <2>1 DEF Vdg
  <2>2. CASE c \in 32 .. 63
    BY <2>2 DEF Vdg
  <2>3. CASE c \in 96 .. 127
    BY <2>3 DEF Vdg
  <2> QED BY <2>1, <2>2, <2>3
<1> HIDE DEF x
<1>2. c < 128 => Inverted(x) = (x + 64) % 128 /\ (x + 64) % 128 \in Int
  BY <1>1 DEF Inverted
<1> QED BY <1>1, <1>2 DEF x

LEMMA VdgShown ==
    ASSUME NEW c
    PROVE  /\ AsciiToVdg(c, FALSE) = Vdg(c)
           /\ AsciiToVdg(c, TRUE) = IF c < 128 THEN Inverted(Vdg(c)) ELSE Vdg(c)
BY DEF AsciiToVdg

LEMMA FormattedString ==
    ASSUME NEW n, Evaluated(n), n.type = "string"
    PROVE  LET s == n.as_string
               Bytes(mode) == Formatted(n, mode).bytes
           IN  /\ s \in Seq(0 .. 255) /\ s \in Seq(Int)
               /\ Bytes("none") = s
               /\ Bytes("keyword") = Marked(s)
               /\ Bytes("vdg") = [i \in 1 .. Len(s) |-> Vdg(s[i])]
               /\ Bytes("inverse") = [i \in 1 .. Len(s) |->
                                         IF s[i] < 128 THEN Inverted(Vdg(s[i])) ELSE Vdg(s[i])]
<1> DEFINE s == n.as_string
           Top(v, mode)  == IF mode = "keyword" THEN TopBit(v) ELSE v
           Char(i, mode) == CASE mode = "vdg"     -> AsciiToVdg(s[i], FALSE)
                              [] mode = "inverse" -> AsciiToVdg(s[i], TRUE)
                              [] OTHER -> IF i = Len(s) THEN Top(s[i], mode) ELSE s[i]
<1>1. s \in Seq(0 .. 255)
  BY DEF Evaluated
<1>2. \A mode : Formatted(n, mode).bytes = [i \in DOMAIN s |-> Char(i, mode)]
  BY DEF Formatted, Stored, Emit
<1> HIDE DEF s
<1>3. s \in Seq(Int)
  BY <1>1, CharactersAreNumbers
<1>4. DOMAIN s = 1 .. Len(s) /\ Len(s) \in Nat /\ \A i \in 1 .. Len(s) : s[i] \in 0 .. 255
  <2> DEFINE C == 0 .. 255
  <2>1. s \in Seq(C)
    BY <1>1
  <2> HIDE DEF C
  <2>2. DOMAIN s = 1 .. Len(s) /\ Len(s) \in Nat /\ \A i \in 1 .. Len(s) : s[i] \in C
    BY <2>1
  <2> QED BY <2>2 DEF C
<1>5. [i \in DOMAIN s |-> Char(i, "none")] = s
  <2>1. \A i \in DOMAIN s : Char(i, "none") = s[i]
    OBVIOUS
  <2>2. s = [i \in DOMAIN s |-> s[i]]
    BY <1>1
  <2> HIDE DEF Char
  <2> QED BY <2>1, <2>2
<1>6. [i \in DOMAIN s |-> Char(i, "keyword")] = Marked(s)
  <2>1. ASSUME NEW i \in DOMAIN s
        PROVE  Char(i, "keyword") = IF i = Len(s) THEN (s[i] % 128) + 128 ELSE s[i]
    <3>1. ASSUME NEW c \in 0 .. 255 PROVE TopBit(c) = (c % 128) + 128
      BY DEF TopBit
    <3>2. TopBit(s[i]) = (s[i] % 128) + 128
      BY <1>4, <3>1
    <3> QED BY <3>2
  <2> HIDE DEF Char
  <2> QED BY <2>1 DEF Marked
<1>7. [i \in DOMAIN s |-> Char(i, "vdg")] = [i \in 1 .. Len(s) |-> Vdg(s[i])]
  <2>1. \A i \in DOMAIN s : Char(i, "vdg") = Vdg(s[i])
    BY VdgShown
  <2> HIDE DEF Char
  <2> QED BY <1>4, <2>1
<1>8. [i \in DOMAIN s |-> Char(i, "inverse")] = [i \in 1 .. Len(s) |->
          IF s[i] < 128 THEN Inverted(Vdg(s[i])) ELSE Vdg(s[i])]
  <2>1. \A i \in DOMAIN s : Char(i, "inverse") = IF s[i] < 128 THEN Inverted(Vdg(s[i])) ELSE Vdg(s[i])
    BY VdgShown
  <2> HIDE DEF Char
  <2> QED BY <1>4, <2>1
<1> HIDE DEF Char
<1> QED BY <1>1, <1>2, <1>3, <1>5, <1>6, <1>7, <1>8 DEF s

LEMMA FormattedType ==
    ASSUME NEW n, Evaluated(n), NEW mode \in Formats, n.type \in Formattable
    PROVE  Formatted(n, mode).bytes \in Seq(Int)
<1>1. CASE n.type # "string"
  BY <1>1, FormattedNumber
<1>2. CASE n.type = "string"
  <2> DEFINE s == n.as_string
             m == Len(s)
             v == [i \in 1 .. m |-> Vdg(s[i])]
             w == [i \in 1 .. m |-> IF s[i] < 128 THEN Inverted(Vdg(s[i])) ELSE Vdg(s[i])]
             k == [i \in 1 .. m |-> IF i = m THEN (s[i] % 128) + 128 ELSE s[i]]
  <2>1. /\ s \in Seq(Int)
        /\ mode = "none" => Formatted(n, mode).bytes = s
        /\ mode = "keyword" => Formatted(n, mode).bytes = Marked(s)
        /\ mode = "vdg" => Formatted(n, mode).bytes = v
        /\ mode = "inverse" => Formatted(n, mode).bytes = w
    BY <1>2, FormattedString
  <2>2. m \in Nat /\ DOMAIN s = 1 .. m /\ \A i \in 1 .. m : s[i] \in 0 .. 255
    <3>1. s \in Seq(0 .. 255)
      BY <1>2, FormattedString
    <3> DEFINE C == 0 .. 255
    <3>2. s \in Seq(C)
      BY <3>1
    <3> HIDE DEF C
    <3>3. m \in Nat /\ DOMAIN s = 1 .. m /\ \A i \in 1 .. m : s[i] \in C
      BY <3>2
    <3> QED BY <3>3 DEF C
  <2>3. Marked(s) = k
    BY <2>2 DEF Marked
  <2>4. \A i \in 1 .. m : v[i] \in Int /\ w[i] \in Int
    <3> TAKE i \in 1 .. m
    <3> DEFINE c == s[i]
    <3>1. c \in 0 .. 255
      BY <2>2
    <3> HIDE DEF c, v, w, k, s, m
    <3> DEFINE x == Vdg(c)
    <3>2. x \in 0 .. 255 /\ (c < 128 => Inverted(x) = (x + 64) % 128 /\ (x + 64) % 128 \in Int)
      BY <3>1, VdgRange
    <3> HIDE DEF x
    <3>3. x \in Int /\ (c < 128 => Inverted(x) \in Int)
      BY <3>2
    <3>4. v[i] = x /\ w[i] = IF c < 128 THEN Inverted(x) ELSE x
      BY Zenon DEF v, w, x, c
    <3> QED BY <3>3, <3>4
  <2>5. \A i \in 1 .. m : k[i] \in Int
    <3> TAKE i \in 1 .. m
    <3> DEFINE c == s[i]
    <3>1. c \in 0 .. 255
      BY <2>2
    <3>2. k[i] = IF i = m THEN (c % 128) + 128 ELSE c
      OBVIOUS
    <3> HIDE DEF c, k, m
    <3>3. c \in Int /\ (c % 128) + 128 \in Int
      BY <3>1
    <3> QED BY <3>2, <3>3
  <2>6. v \in Seq(Int)
    <3> DEFINE V(i) == Vdg(s[i])
    <3>1. \A i \in 1 .. m : V(i) \in Int
      BY <2>4
    <3> HIDE DEF V
    <3>2. [i \in 1 .. m |-> V(i)] \in Seq(Int)
      BY <2>2, <3>1
    <3> QED BY <3>2 DEF V
  <2>7. w \in Seq(Int)
    <3> DEFINE V(i) == IF s[i] < 128 THEN Inverted(Vdg(s[i])) ELSE Vdg(s[i])
    <3>1. \A i \in 1 .. m : V(i) \in Int
      BY <2>4
    <3> HIDE DEF V
    <3>2. [i \in 1 .. m |-> V(i)] \in Seq(Int)
      BY <2>2, <3>1
    <3> QED BY <3>2 DEF V
  <2>8. k \in Seq(Int)
    <3> DEFINE V(i) == IF i = m THEN (s[i] % 128) + 128 ELSE s[i]
    <3>1. \A i \in 1 .. m : V(i) \in Int
      BY <2>5
    <3> HIDE DEF V
    <3>2. [i \in 1 .. m |-> V(i)] \in Seq(Int)
      BY <2>2, <3>1
    <3> QED BY <3>2 DEF V
  <2> HIDE DEF v, w, k, s, m
  <2> QED BY <2>1, <2>3, <2>6, <2>7, <2>8 DEF Formats
<1> QED BY <1>1, <1>2

(* FCI has FCV's bytes, some of them inverted.                               *)
Negative == {p \in Int \X Int : p[1] = p[2] \/ p[1] = (p[2] + 64) % 128}

LEMMA FormattedInverse ==
    ASSUME NEW n, Evaluated(n), n.type \in Formattable
    PROVE  LET w == Formatted(n, "inverse").bytes
               v == Formatted(n, "vdg").bytes
           IN  /\ w \in Seq(Int) /\ v \in Seq(Int) /\ Len(w) = Len(v)
               /\ \A j \in 1 .. Len(w) : <<w[j], v[j]>> \in Negative
               /\ n.type = "string" =>
                      \A j \in DOMAIN n.as_string : ~Graphic(n.as_string[j]) =>
                          j \in 1 .. Len(w) /\ w[j] = (Vdg(n.as_string[j]) + 64) % 128
<1> DEFINE w == Formatted(n, "inverse").bytes
           v == Formatted(n, "vdg").bytes
<1>1. w \in Seq(Int) /\ v \in Seq(Int)
  BY FormattedType DEF Formats
<1>2. CASE n.type # "string"
  <2>1. w = v
    BY <1>2, FormattedNumber DEF Formats
  <2> HIDE DEF w, v
  <2>2. \A j \in 1 .. Len(w) : w[j] \in Int
    BY <1>1
  <2>3. \A j \in 1 .. Len(w) : <<w[j], v[j]>> \in Negative
    BY <2>1, <2>2 DEF Negative
  <2> QED BY <1>1, <1>2, <2>1, <2>3 DEF w, v
<1>3. CASE n.type = "string"
  <2> DEFINE s == n.as_string
             m == Len(s)
  <2>1. /\ v = [i \in 1 .. m |-> Vdg(s[i])]
        /\ w = [i \in 1 .. m |-> IF s[i] < 128 THEN Inverted(Vdg(s[i])) ELSE Vdg(s[i])]
    BY <1>3, FormattedString
  <2>2. m \in Nat /\ DOMAIN s = 1 .. m /\ \A i \in 1 .. m : s[i] \in 0 .. 255
    <3>1. s \in Seq(0 .. 255)
      BY <1>3, FormattedString
    <3> DEFINE C == 0 .. 255
    <3>2. s \in Seq(C)
      BY <3>1
    <3> HIDE DEF C
    <3>3. m \in Nat /\ DOMAIN s = 1 .. m /\ \A i \in 1 .. m : s[i] \in C
      BY <3>2
    <3> QED BY <3>3 DEF C
  <2> HIDE DEF w, v, s, m
  <2>3. Len(w) = m /\ Len(v) = m
    BY <2>1, <2>2
  <2>4. ASSUME NEW j \in 1 .. m
        PROVE  <<w[j], v[j]>> \in Negative /\ (~Graphic(s[j]) => w[j] = (Vdg(s[j]) + 64) % 128)
    <3> DEFINE c == s[j]
               x == Vdg(c)
    <3>1. c \in 0 .. 255
      BY <2>2
    <3>2. x \in 0 .. 255 /\ (c < 128 => Inverted(x) = (x + 64) % 128 /\ (x + 64) % 128 \in Int)
      <4> HIDE DEF c
      <4> QED BY <3>1, VdgRange
    <3>3. v[j] = x /\ w[j] = IF c < 128 THEN Inverted(x) ELSE x
      BY <2>1
    <3> HIDE DEF c, x
    <3>4. ~Graphic(c) => c < 128
      BY <3>1 DEF Graphic
    <3>5. x \in Int
      BY <3>2
    <3>6. <<w[j], v[j]>> \in Negative
      <4>1. CASE c < 128
        BY <3>2, <3>3, <3>5, <4>1 DEF Negative
      <4>2. CASE ~(c < 128)
        BY <3>3, <3>5, <4>2 DEF Negative
      <4> QED BY <4>1, <4>2
    <3>7. ~Graphic(c) => w[j] = (x + 64) % 128
      BY <3>2, <3>3, <3>4
    <3> QED BY <3>6, <3>7 DEF c, x
  <2>5. \A j \in 1 .. m : <<w[j], v[j]>> \in Negative
    BY <2>4
  <2>6. \A j \in 1 .. m : ~Graphic(s[j]) => w[j] = (Vdg(s[j]) + 64) % 128
    BY <2>4
  <2> QED BY <1>1, <2>2, <2>3, <2>5, <2>6 DEF w, v, s
<1> QED BY <1>2, <1>3

(* What the lists joined are, and that each of them was accepted.            *)
LEMMA JoinedRead ==
    ASSUME NEW outs, Joined(outs).error = None
    PROVE  /\ Joined(outs).bytes = FlattenSeq([i \in DOMAIN outs |-> outs[i].bytes])
           /\ \A i \in DOMAIN outs : outs[i].error # Syntax
<1>1. Joined(outs).error = IF \E i \in DOMAIN outs : outs[i].error = Syntax THEN Syntax ELSE None
  BY DEF Joined, Stored, Emit
<1>2. Joined(outs).bytes = FlattenSeq([i \in DOMAIN outs |-> outs[i].bytes])
  BY DEF Joined, Stored, Emit
<1>3. Syntax # None
  BY DEF Syntax, None
<1> QED BY <1>1, <1>2, <1>3

LEMMA JoinedErrorIs ==
    ASSUME NEW outs, \A i \in DOMAIN outs : outs[i].error # Syntax
    PROVE  Joined(outs).bytes = FlattenSeq([i \in DOMAIN outs |-> outs[i].bytes])
BY DEF Joined, Stored, Emit

LEMMA FormRead ==
    ASSUME NEW op \in DOMAIN FormMode, NEW args, NEW n \in Nat \ {0}, DOMAIN args = 1 .. n,
           args # <<>>, PseudoForm(op, args).error = None
    PROVE  LET b == [i \in 1 .. n |-> Formatted(args[i], FormMode[op]).bytes]
           IN  /\ \A i \in 1 .. n : args[i].type \in Formattable
               /\ op # "fcn" => PseudoForm(op, args).bytes = FlattenSeq(b)
               /\ op = "fcn" => PseudoForm(op, args).bytes = FlattenSeq(b) \o <<0>>
<1> DEFINE outs == [i \in 1 .. n |-> Formatted(args[i], FormMode[op])]
           b    == [i \in 1 .. n |-> Formatted(args[i], FormMode[op]).bytes]
           zero == Stored(Pad(1), None)
           all  == IF op = "fcn" THEN Append(outs, zero) ELSE outs
<1>1. PseudoForm(op, args) = Joined(all)
  BY DEF PseudoForm
<1>2. /\ Joined(all).bytes = FlattenSeq([i \in DOMAIN all |-> all[i].bytes])
      /\ \A i \in DOMAIN all : all[i].error # Syntax
  <2> HIDE DEF all
  <2>1. Joined(all).error = None
    BY <1>1
  <2> QED BY <2>1, JoinedRead
<1>3. DOMAIN outs = 1 .. n /\ \A i \in 1 .. n : outs[i].bytes = b[i]
  OBVIOUS
<1>4. zero.bytes = <<0>>
  BY DEF Stored, Emit, Pad
<1>5. CASE op = "fcn"
  <2> DEFINE R == Range(outs)
             t == [i \in DOMAIN all |-> all[i].bytes]
  <2>1. \A i \in 1 .. n : outs[i] \in R
    BY <1>3 DEF Range
  <2>2. outs = [i \in 1 .. n |-> outs[i]] /\ all = Append(outs, zero) /\ DOMAIN b = 1 .. n
    BY <1>5
  <2>3. b = [i \in 1 .. n |-> b[i]]
    OBVIOUS
  <2>9. \A i \in 1 .. n : outs[i].error # Syntax => args[i].type \in Formattable
    BY FormattedError
  <2> HIDE DEF outs, zero, R, all, b
  <2>4. outs \in Seq(R) /\ Len(outs) = n
    BY <2>1, <2>2
  <2>5. DOMAIN all = 1 .. n + 1 /\ all[n + 1] = zero /\ \A i \in 1 .. n : all[i] = outs[i]
    BY <2>2, <2>4
  <2>6. Len(t) = n + 1 /\ t[n + 1] = <<0>> /\ \A i \in 1 .. n : t[i] = b[i]
    <3>1. \A i \in 1 .. n + 1 : t[i] = all[i].bytes
      BY <2>5
    <3>2. Len(t) = n + 1
      BY <2>5
    <3>3. n + 1 \in 1 .. n + 1 /\ \A i \in 1 .. n : i \in 1 .. n + 1
      OBVIOUS
    <3> HIDE DEF t
    <3> QED BY <1>3, <1>4, <2>5, <3>1, <3>2, <3>3
  <2>7. Len(b) = n
    BY <2>3
  <2> HIDE DEF t
  <2>8. FlattenSeq(t) = FlattenSeq(b) \o t[n + 1]
    BY <2>6, <2>7, FlattenedMore, Zenon
  <2>10. \A i \in 1 .. n : args[i].type \in Formattable
    <3>1. \A i \in 1 .. n : i \in 1 .. n + 1
      OBVIOUS
    <3> QED BY <1>2, <2>5, <2>9, <3>1, Zenon
  <2>11. Joined(all).bytes = FlattenSeq(b) \o <<0>>
    BY <1>2, <2>6, <2>8 DEF t
  <2> QED BY <1>1, <1>5, <2>10, <2>11 DEF b
<1>6. CASE op # "fcn"
  <2>1. all = outs
    BY <1>6
  <2>2. \A i \in 1 .. n : outs[i].error # Syntax => args[i].type \in Formattable
    BY FormattedError
  <2>3. DOMAIN b = 1 .. n /\ b = [i \in 1 .. n |-> b[i]]
    OBVIOUS
  <2> HIDE DEF outs, all, b
  <2>4. [i \in DOMAIN all |-> all[i].bytes] = b
    BY <1>3, <2>1, <2>3
  <2>5. \A i \in 1 .. n : args[i].type \in Formattable
    BY <1>2, <1>3, <2>1, <2>2, Zenon
  <2>6. Joined(all).bytes = FlattenSeq(b)
    BY <1>2, <2>4, Zenon
  <2> QED BY <1>1, <1>6, <2>5, <2>6 DEF b
<1> QED BY <1>5, <1>6

LEMMA FormMade ==
    ASSUME NEW op \in DOMAIN FormMode \ {"fcn"}, NEW args, NEW n \in Nat \ {0},
           DOMAIN args = 1 .. n, args # <<>>, \A i \in 1 .. n : args[i].type \in Formattable
    PROVE  PseudoForm(op, args).bytes =
               FlattenSeq([i \in 1 .. n |-> Formatted(args[i], FormMode[op]).bytes])
<1> DEFINE outs == [i \in 1 .. n |-> Formatted(args[i], FormMode[op])]
           b    == [i \in 1 .. n |-> Formatted(args[i], FormMode[op]).bytes]
<1>1. PseudoForm(op, args) = Joined(outs)
  BY DEF PseudoForm
<1>2. \A i \in 1 .. n : outs[i].error # Syntax
  BY FormattedError
<1>3. DOMAIN outs = 1 .. n /\ b = [i \in DOMAIN outs |-> outs[i].bytes]
  OBVIOUS
<1> HIDE DEF outs, b
<1>4. Joined(outs).bytes = FlattenSeq(b)
  BY <1>2, <1>3, JoinedErrorIs
<1> QED BY <1>1, <1>4 DEF b

(* A word's two bytes make it again.                                         *)
LEMMA WordRead ==
    ASSUME NEW v \in Int
    PROVE  /\ Uint16(v) \in Seq(Int) /\ Len(Uint16(v)) = 2
           /\ Same(256 * Uint16(v)[1] + Uint16(v)[2], v)
<1> DEFINE a == (v \div 256) % 256
           b == v % 256
<1>1. a \in Int /\ b \in Int /\ (256 * a + b - v) % 65536 = 0
  OBVIOUS
<1>2. Uint16(v) = <<a, b>>
  BY DEF Uint16
<1> HIDE DEF a, b
<1>3. <<a, b>> \in Seq(Int) /\ Len(<<a, b>>) = 2 /\ <<a, b>>[1] = a /\ <<a, b>>[2] = b
  BY <1>1
<1> QED BY <1>1, <1>2, <1>3 DEF Same

LEMMA WordsRead ==
    ASSUME NEW args, NEW n \in Nat \ {0}, DOMAIN args = 1 .. n, args # <<>>,
           \A i \in 1 .. n : Evaluated(args[i]), NEW o, o = PseudoWords("fdb", args), o.error = None
    PROVE  \A i \in 1 .. n : args[i].type # "undef" =>
               Same(256 * o.bytes[2 * i - 1] + o.bytes[2 * i], EvalInt(args[i]).as_int)
<1> DEFINE v(i) == HaveInt(args, i, 0)
           outs == [i \in 1 .. n |-> Stored(Uint16(v(i)), IF IntRefused(args, i) THEN Syntax ELSE None)]
           b    == [i \in 1 .. n |-> Uint16(v(i))]
<1>1. o = Joined(outs)
  BY DEF PseudoWords
<1>2. DOMAIN outs = 1 .. n /\ [i \in DOMAIN outs |-> outs[i].bytes] = b
  BY DEF Stored, Emit
<1>3. \A i \in 1 .. n : outs[i].error = IF IntRefused(args, i) THEN Syntax ELSE None
  BY DEF Stored, Emit
<1>4. \A i \in 1 .. n : v(i) \in Int
  BY HaveIntType
<1>5. \A i \in 1 .. n : b[i] = Uint16(v(i))
  OBVIOUS
<1>6. Len(b) = n
  OBVIOUS
<1> HIDE DEF outs, b
<1>7. o.bytes = FlattenSeq(b) /\ \A i \in 1 .. n : outs[i].error # Syntax
  BY <1>1, <1>2, JoinedRead
<1>8. \A i \in 1 .. n : ~IntRefused(args, i)
  BY <1>3, <1>7
<1>9. \A i \in 1 .. n : args[i].type # "undef" => v(i) = EvalInt(args[i]).as_int
  <2> SUFFICES ASSUME NEW i \in 1 .. n, args[i].type # "undef" PROVE v(i) = EvalInt(args[i]).as_int
    OBVIOUS
  <2>1. args[i].type \in {"int", "float", "empty"}
    BY <1>8 DEF IntRefused
  <2>2. CASE args[i].type \in {"int", "float"}
    BY <2>2 DEF HaveInt
  <2>3. CASE args[i].type = "empty"
    BY <2>3 DEF HaveInt, EvalInt, Undefined
  <2> QED BY <2>1, <2>2, <2>3
<1> HIDE DEF v
<1>10. \A i \in 1 .. n : b[i] \in Seq(Int) /\ Len(b[i]) = 2 /\ Same(256 * b[i][1] + b[i][2], v(i))
  BY <1>4, <1>5, WordRead
<1>11. \A i \in 1 .. n : FlattenSeq(b)[2 * i - 1] = b[i][1] /\ FlattenSeq(b)[2 * i] = b[i][2]
  BY <1>6, <1>10, FlattenedWords
<1> QED BY <1>7, <1>9, <1>10, <1>11

LEMMA PlainForm ==
    ASSUME NEW args, NEW n \in Nat \ {0}, DOMAIN args = 1 .. n, args # <<>>,
           \A i \in 1 .. n : Evaluated(args[i]) /\ IntHolds(args[i]),
           NEW op \in {"fcb", "fcc", "fcn"},
           PseudoForm(op, args).error = None
    PROVE  LET written == FlattenSeq([i \in DOMAIN args |-> Plain(args[i])])
           IN  PseudoForm(op, args).bytes = IF op = "fcn" THEN Append(written, 0) ELSE written
<1> DEFINE b == [i \in 1 .. n |-> Formatted(args[i], FormMode[op]).bytes]
           p == [i \in DOMAIN args |-> Plain(args[i])]
<1>1. FormMode[op] = "none" /\ op \in DOMAIN FormMode
  BY DEF FormMode
<1>2. /\ \A i \in 1 .. n : args[i].type \in Formattable
      /\ op # "fcn" => PseudoForm(op, args).bytes = FlattenSeq(b)
      /\ op = "fcn" => PseudoForm(op, args).bytes = FlattenSeq(b) \o <<0>>
  BY <1>1, FormRead
<1>3. \A i \in 1 .. n : /\ Formatted(args[i], "none").bytes = Plain(args[i])
                        /\ Plain(args[i]) \in Seq(Int)
  <2> SUFFICES ASSUME NEW i \in 1 .. n
               PROVE  /\ Formatted(args[i], "none").bytes = Plain(args[i])
                      /\ Plain(args[i]) \in Seq(Int)
    OBVIOUS
  <2>1. CASE args[i].type # "string"
    BY <1>2, <2>1, FormattedNumber DEF Formats
  <2>2. CASE args[i].type = "string"
    BY <2>2, FormattedString DEF Plain
  <2> QED BY <2>1, <2>2
<1>4. b = p
  BY <1>1, <1>3
<1>5. Len(p) = n /\ \A i \in 1 .. n : p[i] = Plain(args[i])
  OBVIOUS
<1> HIDE DEF b, p
<1>6. FlattenSeq(p) \in Seq(Int)
  BY <1>3, <1>5, FlattenedType
<1>7. FlattenSeq(p) \o <<0>> = Append(FlattenSeq(p), 0)
  <2> DEFINE w == FlattenSeq(p)
  <2>1. w \in Seq(Int)
    BY <1>6
  <2> HIDE DEF w
  <2>2. w \o <<0>> = Append(w, 0)
    BY <2>1
  <2> QED BY <2>2 DEF w
<1> QED BY <1>2, <1>4, <1>7 DEF p

LEMMA MarkedForm ==
    ASSUME NEW args, NEW n \in Nat \ {0}, DOMAIN args = 1 .. n, args # <<>>,
           \A i \in 1 .. n : /\ Evaluated(args[i]) /\ IntHolds(args[i])
                              /\ args[i].type \notin {"empty", "undef"},
           PseudoForm("fcs", args).error = None
    PROVE  PseudoForm("fcs", args).bytes = FlattenSeq([i \in DOMAIN args |-> Marked(Plain(args[i]))])
<1> DEFINE b == [i \in 1 .. n |-> Formatted(args[i], FormMode["fcs"]).bytes]
           p == [i \in DOMAIN args |-> Marked(Plain(args[i]))]
<1>1. FormMode["fcs"] = "keyword" /\ "fcs" \in DOMAIN FormMode
  BY DEF FormMode
<1>2. /\ \A i \in 1 .. n : args[i].type \in Formattable
      /\ PseudoForm("fcs", args).bytes = FlattenSeq(b)
  BY <1>1, FormRead
<1>3. \A i \in 1 .. n : Formatted(args[i], "keyword").bytes = Marked(Plain(args[i]))
  <2> SUFFICES ASSUME NEW i \in 1 .. n
               PROVE  Formatted(args[i], "keyword").bytes = Marked(Plain(args[i]))
    OBVIOUS
  <2>1. CASE args[i].type # "string"
    <3>1. args[i].type \in {"int", "float"}
      BY <1>2, <2>1 DEF Formattable
    <3> QED BY <1>2, <2>1, <3>1, FormattedNumber DEF Formats
  <2>2. CASE args[i].type = "string"
    BY <2>2, FormattedString DEF Plain
  <2> QED BY <2>1, <2>2
<1>4. b = p
  BY <1>1, <1>3
<1> HIDE DEF b
<1> QED BY <1>2, <1>4

LEMMA InverseForm ==
    ASSUME NEW args, NEW n \in Nat \ {0}, DOMAIN args = 1 .. n, args # <<>>,
           \A i \in 1 .. n : Evaluated(args[i]), PseudoForm("fci", args).error = None
    PROVE  LET w == PseudoForm("fci", args).bytes
               v == PseudoForm("fcv", args).bytes
           IN  /\ Len(w) = Len(v)
               /\ \A i \in DOMAIN w : w[i] \in {v[i], (v[i] + 64) % 128}
               /\ \A k \in 1 .. n : args[k].type = "string" =>
                      \A i \in DOMAIN args[k].as_string : ~Graphic(args[k].as_string[i]) =>
                          Contains(w, (Vdg(args[k].as_string[i]) + 64) % 128)
<1> DEFINE w == PseudoForm("fci", args).bytes
           v == PseudoForm("fcv", args).bytes
           x == [i \in 1 .. n |-> Formatted(args[i], FormMode["fci"]).bytes]
           y == [i \in 1 .. n |-> Formatted(args[i], FormMode["fcv"]).bytes]
<1>1. /\ FormMode["fci"] = "inverse" /\ "fci" \in DOMAIN FormMode
      /\ FormMode["fcv"] = "vdg" /\ "fcv" \in DOMAIN FormMode
  BY DEF FormMode
<1>2. (\A i \in 1 .. n : args[i].type \in Formattable) /\ w = FlattenSeq(x)
  BY <1>1, FormRead
<1>3. v = FlattenSeq(y)
  BY <1>1, <1>2, FormMade
<1>4. /\ Len(x) = n /\ Len(y) = n
      /\ \A i \in 1 .. n : x[i] = Formatted(args[i], "inverse").bytes /\ y[i] = Formatted(args[i], "vdg").bytes
  BY <1>1
<1> HIDE DEF x, y, v, w
<1>5. \A i \in 1 .. n :
          /\ x[i] \in Seq(Int) /\ y[i] \in Seq(Int) /\ Len(x[i]) = Len(y[i])
          /\ \A j \in 1 .. Len(x[i]) : <<x[i][j], y[i][j]>> \in Negative
          /\ args[i].type = "string" =>
                 \A j \in DOMAIN args[i].as_string : ~Graphic(args[i].as_string[j]) =>
                     j \in 1 .. Len(x[i]) /\ x[i][j] = (Vdg(args[i].as_string[j]) + 64) % 128
  <2> TAKE i \in 1 .. n
  <2> DEFINE a == args[i]
             p == Formatted(a, "inverse").bytes
             q == Formatted(a, "vdg").bytes
  <2>1. x[i] = p /\ y[i] = q
    BY <1>4
  <2>2. Evaluated(a) /\ a.type \in Formattable
    BY <1>2
  <2> HIDE DEF a
  <2>3. /\ p \in Seq(Int) /\ q \in Seq(Int) /\ Len(p) = Len(q)
        /\ \A j \in 1 .. Len(p) : <<p[j], q[j]>> \in Negative
        /\ a.type = "string" =>
               \A j \in DOMAIN a.as_string : ~Graphic(a.as_string[j]) =>
                   j \in 1 .. Len(p) /\ p[j] = (Vdg(a.as_string[j]) + 64) % 128
    BY <2>2, FormattedInverse
  <2> HIDE DEF p, q
  <2> QED BY <2>1, <2>3 DEF a
<1>6. Len(w) = Len(v) /\ \A j \in 1 .. Len(w) : <<w[j], v[j]>> \in Negative
  <2>1. \A i \in 1 .. n : x[i] \in Seq(Int) /\ y[i] \in Seq(Int) /\ Len(x[i]) = Len(y[i])
    BY <1>5
  <2>2. \A i \in 1 .. n : \A j \in 1 .. Len(x[i]) : <<x[i][j], y[i][j]>> \in Negative
    BY <1>5
  <2>3. /\ Len(FlattenSeq(x)) = Len(FlattenSeq(y))
        /\ \A j \in 1 .. Len(FlattenSeq(x)) : <<FlattenSeq(x)[j], FlattenSeq(y)[j]>> \in Negative
    <3>1. Len(x) = n /\ Len(y) = n
      BY <1>4
    <3> QED BY <2>1, <2>2, <3>1, FlattenedBeside, Zenon
  <2> QED BY <1>2, <1>3, <2>3, Zenon
<1>7. DOMAIN w = 1 .. Len(w)
  <2>1. w \in Seq(Int)
    BY <1>2, <1>4, <1>5, FlattenedType
  <2> QED BY <2>1
<1>8. \A i \in DOMAIN w : w[i] \in {v[i], (v[i] + 64) % 128}
  BY <1>6, <1>7 DEF Negative
<1>9. ASSUME NEW k \in 1 .. n, args[k].type = "string", NEW i \in DOMAIN args[k].as_string,
             ~Graphic(args[k].as_string[i])
      PROVE  Contains(w, (Vdg(args[k].as_string[i]) + 64) % 128)
  <2>1. i \in 1 .. Len(x[k]) /\ x[k][i] = (Vdg(args[k].as_string[i]) + 64) % 128
    BY <1>5, <1>9
  <2>2. Contains(FlattenSeq(x), x[k][i])
    <3>1. \A m \in 1 .. n : x[m] \in Seq(Int)
      BY <1>5
    <3> QED BY <1>4, <2>1, <3>1, FlattenedContains
  <2> QED BY <1>2, <2>1, <2>2
<1> QED BY <1>6, <1>8, <1>9 DEF v, w

LEMMA DInvData == DInv => DataAsDocumented
<1> SUFFICES ASSUME DInv, line # NoLine, out.error = None, line.args # <<>>
             PROVE  DataAsDocumented
  BY DEF DataAsDocumented
<1> DEFINE args == line.args
           n == Len(args)
<1>1. line \in Lines /\ Handled(line, out, pc, dp) /\ pc \in Int
  BY DEF DInv
<1>2. /\ line.op.ext \in {"fcb", "fcc", "fcn", "fcv", "fci", "fcs"} => out = PseudoForm(line.op.ext, args)
      /\ Is(line, "fdb") => out = PseudoWords("fdb", args)
      /\ Is(line, "align") => out = PseudoAlign(args, pc)
  BY <1>1, OwnHandler, Zenon
<1>3. /\ args \in Seq(Range(args)) /\ n \in Nat /\ DOMAIN args = 1 .. n
      /\ \A i \in DOMAIN args : Evaluated(args[i])
  BY <1>1, LineFacts
<1>4. n # 0
  <2> DEFINE S == Range(args)
  <2>1. args \in Seq(S) /\ args # <<>>
    BY <1>3
  <2> HIDE DEF S
  <2> QED BY <2>1
<1>5. n \in Nat \ {0} /\ DOMAIN args = 1 .. n /\ args # <<>> /\ \A i \in 1 .. n : Evaluated(args[i])
  BY <1>3, <1>4
<1>6. \A i \in 1 .. n : args[i] \in Range(args)
  BY <1>5 DEF Range
<1>7. \A a \in Range(args) : \E i \in 1 .. n : a = args[i]
  BY <1>5 DEF Range
<1> HIDE DEF args, n
<1>14. (\A a \in Range(args) : IntHolds(a)) => \A i \in 1 .. n : IntHolds(args[i])
  BY <1>6
<1>8. (\A a \in Range(args) : IntHolds(a)) =>
        (line.op.ext \in {"fcb", "fcc"} =>
             out.bytes = FlattenSeq([i \in DOMAIN args |-> Plain(args[i])]))
  BY <1>2, <1>5, <1>14, PlainForm
<1>9. (\A a \in Range(args) : IntHolds(a)) =>
        (Is(line, "fcn") =>
             out.bytes = Append(FlattenSeq([i \in DOMAIN args |-> Plain(args[i])]), 0))
  <2> SUFFICES ASSUME line.op.ext = "fcn", \A a \in Range(args) : IntHolds(a)
               PROVE  out.bytes = Append(FlattenSeq([i \in DOMAIN args |-> Plain(args[i])]), 0)
    BY DEF Is
  <2>1. out = PseudoForm("fcn", args)
    BY <1>2
  <2> QED BY <1>5, <1>14, <2>1, PlainForm
<1>10. (Is(line, "fcs") /\ \A a \in Range(args) : IntHolds(a) /\ a.type \notin {"empty", "undef"}) =>
           out.bytes = FlattenSeq([i \in DOMAIN args |-> Marked(Plain(args[i]))])
  <2> SUFFICES ASSUME line.op.ext = "fcs",
                      \A a \in Range(args) : IntHolds(a) /\ a.type \notin {"empty", "undef"}
               PROVE  out.bytes = FlattenSeq([i \in DOMAIN args |-> Marked(Plain(args[i]))])
    BY DEF Is
  <2>1. out = PseudoForm("fcs", args)
    BY <1>2
  <2>2. \A i \in 1 .. n : /\ Evaluated(args[i]) /\ IntHolds(args[i])
                           /\ args[i].type \notin {"empty", "undef"}
    BY <1>5, <1>6
  <2> QED BY <1>5, <2>1, <2>2, MarkedForm
<1>11. Is(line, "fci") =>
          LET v == PseudoForm("fcv", args).bytes
          IN  /\ Len(out.bytes) = Len(v)
              /\ \A i \in DOMAIN out.bytes : out.bytes[i] \in {v[i], (v[i] + 64) % 128}
              /\ \A a \in Range(args) : a.type = "string" =>
                     \A i \in DOMAIN a.as_string : ~Graphic(a.as_string[i]) =>
                         Contains(out.bytes, (Vdg(a.as_string[i]) + 64) % 128)
  <2> SUFFICES ASSUME line.op.ext = "fci"
               PROVE  LET v == PseudoForm("fcv", args).bytes
                      IN  /\ Len(out.bytes) = Len(v)
                          /\ \A i \in DOMAIN out.bytes : out.bytes[i] \in {v[i], (v[i] + 64) % 128}
                          /\ \A a \in Range(args) : a.type = "string" =>
                                 \A i \in DOMAIN a.as_string : ~Graphic(a.as_string[i]) =>
                                     Contains(out.bytes, (Vdg(a.as_string[i]) + 64) % 128)
    BY DEF Is
  <2> DEFINE v == PseudoForm("fcv", args).bytes
  <2>1. out = PseudoForm("fci", args)
    BY <1>2
  <2>2. /\ Len(out.bytes) = Len(v)
        /\ \A i \in DOMAIN out.bytes : out.bytes[i] \in {v[i], (v[i] + 64) % 128}
        /\ \A k \in 1 .. n : args[k].type = "string" =>
               \A i \in DOMAIN args[k].as_string : ~Graphic(args[k].as_string[i]) =>
                   Contains(out.bytes, (Vdg(args[k].as_string[i]) + 64) % 128)
    BY <1>5, <2>1, InverseForm
  <2> HIDE DEF v
  <2>3. \A a \in Range(args) : a.type = "string" =>
            \A i \in DOMAIN a.as_string : ~Graphic(a.as_string[i]) =>
                Contains(out.bytes, (Vdg(a.as_string[i]) + 64) % 128)
    <3> SUFFICES ASSUME NEW a \in Range(args), a.type = "string", NEW i \in DOMAIN a.as_string,
                        ~Graphic(a.as_string[i])
                 PROVE  Contains(out.bytes, (Vdg(a.as_string[i]) + 64) % 128)
      OBVIOUS
    <3>1. PICK k \in 1 .. n : a = args[k]
      BY <1>7
    <3> QED BY <2>2, <3>1
  <2> QED BY <2>2, <2>3 DEF v
<1>12. Is(line, "fdb") =>
           \A i \in DOMAIN args : args[i].type # "undef" =>
               Same(256 * out.bytes[2 * i - 1] + out.bytes[2 * i], EvalInt(args[i]).as_int)
  BY <1>2, <1>5, WordsRead
<1>13. Is(line, "align") =>
           LET align == HaveInt(args, 1, 0)
           IN  (pc + Len(out.bytes)) % align = 0 /\ Len(out.bytes) < align
  <2>1. Len(args) \in 1 .. 2 => Evaluated(args[1])
    BY <1>5 DEF n
  <2> QED BY <1>1, <1>2, <1>5, <2>1, AlignRead DEF n
<1> QED BY <1>8, <1>9, <1>10, <1>11, <1>12, <1>13, Zenon DEF DataAsDocumented, WrittenBytes, Shown, args

(* The data pseudo-ops emit every argument in its turn, as their names say,  *)
(* and ALIGN aligns, for any arguments and program counter; of               *)
(* emit_formatted(), pseudo_fdb() and pseudo_align() (assemble.c:738).       *)
THEOREM DataIsAsDocumented == Spec => []DataAsDocumented
<1>1. Init => DInv
  BY InitDInv
<1>2. DInv /\ [Next]_vars => DInv'
  BY NextDInv
<1> QED BY <1>1, <1>2, DInvData, PTL DEF Spec

=============================================================================
