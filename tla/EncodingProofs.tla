--------------------------- MODULE EncodingProofs ---------------------------
(* Proofs, for any line, program counter and page, that a relative branch is *)
(* encoded to land where it was meant to, or refused because none can, that  *)
(* the bytes of a direct or extended operand are its address, and that those *)
(* of an indexed one say what was written, and no fewer could.               *)
EXTENDS Encoding, TLAPS, WellFoundedInduction

(* Intervals as inequalities, which the provers take better.                 *)
LEMMA Between == \A a, b, x \in Int : x \in a .. b <=> a <= x /\ x <= b
OBVIOUS

(* A number is its high part and its low byte.                               *)
LEMMA Halves ==
    ASSUME NEW x \in Int
    PROVE  /\ x \div 256 \in Int /\ x % 256 \in Int
           /\ 0 <= x % 256 /\ x % 256 <= 255
           /\ x = 256 * (x \div 256) + (x % 256)
OBVIOUS

(* to_rel16() takes the multiple of 65536 that leaves a signed word.         *)
LEMMA Wrapped ==
    ASSUME NEW d \in Int
    PROVE  /\ ToRel16(d) \in Int
           /\ -32768 <= ToRel16(d) /\ ToRel16(d) <= 32767
           /\ Same(ToRel16(d), d)
BY DEF ToRel16, Same

(* Numbers of one class that differ by less than 65536 are one.              *)
LEMMA Classes ==
    ASSUME NEW a \in Int, NEW b \in Int, NEW d \in Int,
           Same(a, d), Same(b, d)
    PROVE  Same(a, b)
BY DEF Same

(* Numbers that differ by a multiple of 65536 and by less than that are one. *)
LEMMA OneOfClass ==
    ASSUME NEW a \in Int, NEW b \in Int, Same(a, b), a - b < 65536, b - a < 65536
    PROVE  a = b
BY DEF Same

(* Being of one class depends on the difference only,                        *)
LEMMA SameDistance ==
    ASSUME NEW a, NEW b, NEW c, NEW d, a - b = c - d
    PROVE  Same(a, b) <=> Same(c, d)
BY DEF Same

(* An address and the one after it, measured from the same place.            *)
LEMMA Follows ==
    ASSUME NEW a \in Int, NEW b \in Int, NEW d \in Int, Same(a, b - 1), Same(b, d)
    PROVE  Same(a + 1, d)
BY DEF Same

(* A byte, or two, read back as the number they were written from.           *)
LEMMA Byte8 ==
    ASSUME NEW v \in Int, -128 <= v, v <= 127
    PROVE  /\ Uint8(v) = <<v % 256>>
           /\ Signed8(v % 256) = v
BY DEF Uint8, Signed8

(* Two bytes read back as a number of the class they were written from.      *)
LEMMA Word16 ==
    ASSUME NEW v \in Int
    PROVE  LET w == Uint16(v)
           IN  /\ w \in Seq(Int) /\ Len(w) = 2
               /\ Signed16(w[1], w[2]) \in Int
               /\ Same(Signed16(w[1], w[2]), v)
<1> DEFINE h == v \div 256
           l == v % 256
           q == h \div 256
           b == h % 256
<1>1. h \in Int /\ l \in Int /\ 0 <= l /\ l <= 255 /\ v = 256 * h + l
  BY Halves
<1>2. q \in Int /\ b \in Int /\ 0 <= b /\ b <= 255 /\ h = 256 * q + b
  <2> HIDE DEF h
  <2> QED BY <1>1, Halves
<1>3. Uint16(v)[1] = b /\ Uint16(v)[2] = l /\ Len(Uint16(v)) = 2
  BY DEF Uint16
<1> HIDE DEF h, l, q, b
<1>4. /\ Signed16(b, l) \in Int
      /\ \/ Signed16(b, l) - v = 65536 * (-q)
         \/ Signed16(b, l) - v = 65536 * (-q - 1)
  BY <1>1, <1>2 DEF Signed16
<1>5. ASSUME NEW m \in Int PROVE (65536 * m) % 65536 = 0
  OBVIOUS
<1>6. -q \in Int /\ -q - 1 \in Int
  BY <1>2
<1>7. (65536 * (-q)) % 65536 = 0 /\ (65536 * (-q - 1)) % 65536 = 0
  BY <1>5, <1>6
<1>8. Same(Signed16(b, l), v)
  BY <1>4, <1>7 DEF Same
<1>9. Uint16(v) \in Seq(Int)
  BY <1>1, <1>2 DEF Uint16, h, l, b
<1> QED BY <1>3, <1>4, <1>8, <1>9

-----------------------------------------------------------------------------
(* What is assumed of a line, argument by argument.                          *)
LEMMA LineFacts ==
    ASSUME NEW l \in Lines
    PROVE  /\ l.op.length \in Nat
           /\ l.args \in Seq(Range(l.args)) /\ Len(l.args) \in Nat
           /\ DOMAIN l.args = 1 .. Len(l.args)
           /\ \A i \in DOMAIN l.args : Evaluated(l.args[i])
<1>1. l.op.length \in Nat /\ l.args \in Seq(Range(l.args))
  BY EncodingConstants
<1>2. \A n \in Range(l.args) : Evaluated(n)
  BY EncodingConstants
<1>3. \A i \in DOMAIN l.args : l.args[i] \in Range(l.args)
  BY DEF Range
<1>4. Len(l.args) \in Nat /\ DOMAIN l.args = 1 .. Len(l.args)
  BY <1>1
<1> QED BY <1>1, <1>2, <1>3, <1>4, Zenon

(* No short branch, counted from the address "from", reaches t.              *)
NoneReaches(from, t) == ~\E x \in -128 .. 127 : Same(from + x, t)

(* The distances a byte can hold.                                            *)
LEMMA Distances == \A x \in -128 .. 127 : x \in Int /\ -128 <= x /\ x <= 127
OBVIOUS

(* A short branch: the byte is the distance, unless it does not fit.         *)
LEMMA ShortBranch ==
    ASSUME NEW op, NEW args, NEW p \in Int, op.ext = "rel8", Len(args) = 1,
           args[1].type = "int", args[1].as_int \in Int
    PROVE  LET o == InstrRel(op, args, p)
               t == args[1].as_int
           IN  /\ o.bytes \in Seq(Int) /\ Len(o.bytes) = 1
               /\ Failing(o.error) => NoneReaches(p + 1, t)
               /\ ~Failing(o.error) => Same(p + 1 + Signed8(o.bytes[1]), t)
<1> DEFINE t == args[1].as_int
           d == t - (p + 1)
           r == ToRel16(d)
           o == InstrRel(op, args, p)
<1>1. d \in Int /\ r \in Int /\ -32768 <= r /\ r <= 32767 /\ Same(r, d)
  <2>1. d \in Int
    OBVIOUS
  <2> HIDE DEF d
  <2> QED BY <2>1, Wrapped
<1>2. o = Emit("immediate", Uint8(r), IF r \in -128 .. 127 THEN None ELSE OutOfRange)
  BY DEF InstrRel
<1>3. r \in -128 .. 127 <=> -128 <= r /\ r <= 127
  BY <1>1, Between
<1>4. \A x \in Int : Same(p + 1 + x, t) <=> Same(x, d)
  <2> SUFFICES ASSUME NEW x \in Int PROVE Same(p + 1 + x, t) <=> Same(x, d)
    OBVIOUS
  <2>1. p + 1 + x - t = x - d
    OBVIOUS
  <2> QED BY <2>1, SameDistance
<1> HIDE DEF d, r, o
<1>5. /\ o.bytes = <<r % 256>> /\ o.bytes \in Seq(Int)
      /\ Failing(o.error) <=> ~(-128 <= r /\ r <= 127)
  <2>1. r % 256 \in Int
    BY <1>1, Halves
  <2>2. o.bytes = <<r % 256>> /\ o.error = IF r \in -128 .. 127 THEN None ELSE OutOfRange
    BY <1>2 DEF Emit, Uint8
  <2>3. o.bytes \in Seq(Int)
    BY <2>1, <2>2
  <2> QED BY <1>3, <2>2, <2>3 DEF Failing, None, Inconsistent, OutOfRange
<1>6. Failing(o.error) => \A x \in Int : -128 <= x /\ x <= 127 => ~Same(x, d)
  <2> SUFFICES ASSUME Failing(o.error), NEW x \in Int, -128 <= x, x <= 127,
                      Same(x, d)
               PROVE  FALSE
    OBVIOUS
  <2>1. Same(x, r)
    BY <1>1, Classes
  <2>2. x = r
    BY <1>1, <2>1, OneOfClass
  <2> QED BY <1>5, <2>2
<1>7. ~Failing(o.error) => Same(Signed8(o.bytes[1]), d)
  BY <1>1, <1>5, Byte8
<1>8. ~Failing(o.error) => Signed8(o.bytes[1]) \in Int
  BY <1>1, <1>5, Byte8
<1>9. Failing(o.error) => NoneReaches(p + 1, t)
  BY <1>4, <1>6, Distances DEF NoneReaches
<1> QED BY <1>4, <1>5, <1>7, <1>8, <1>9 DEF o

(* A long branch: two bytes, which always reach.                             *)
LEMMA LongBranch ==
    ASSUME NEW op, NEW args, NEW p \in Int, op.ext = "rel16", Len(args) = 1,
           args[1].type = "int", args[1].as_int \in Int
    PROVE  LET o == InstrRel(op, args, p)
               t == args[1].as_int
           IN  /\ o.bytes \in Seq(Int) /\ Len(o.bytes) = 2
               /\ ~Failing(o.error)
               /\ Same(p + 2 + Signed16(o.bytes[1], o.bytes[2]), t)
<1> DEFINE t == args[1].as_int
           d == t - (p + 1)
           r == ToRel16(d)
           o == InstrRel(op, args, p)
           v == r - 1
           s == Signed16(o.bytes[1], o.bytes[2])
<1>1. d \in Int /\ r \in Int /\ Same(r, d)
  <2>1. d \in Int
    OBVIOUS
  <2> HIDE DEF d
  <2> QED BY <2>1, Wrapped
<1>2. \E e \in {None, Inefficient} : o = Emit("immediate", Uint16(v), e)
  BY DEF InstrRel
<1>3. \A x \in Int : Same(p + 2 + x, t) <=> Same(x + 1, d)
  <2> SUFFICES ASSUME NEW x \in Int PROVE Same(p + 2 + x, t) <=> Same(x + 1, d)
    OBVIOUS
  <2>1. p + 2 + x - t = (x + 1) - d
    OBVIOUS
  <2> QED BY <2>1, SameDistance
<1> HIDE DEF d, r, o
<1>4. o.bytes = Uint16(v) /\ ~Failing(o.error)
  BY <1>2 DEF Emit, Failing, None, Inefficient, Inconsistent
<1>5. v \in Int
  BY <1>1
<1>6. o.bytes \in Seq(Int) /\ Len(o.bytes) = 2 /\ s \in Int /\ Same(s, v)
  <2> HIDE DEF v
  <2> QED BY <1>4, <1>5, Word16
<1> HIDE DEF s
<1>7. Same(s + 1, d)
  BY <1>1, <1>6, Follows
<1> QED BY <1>3, <1>4, <1>6, <1>7 DEF o, s

(* What BranchReaches says of a line and its outcome at program counter p.   *)
Reaches(l, o, p) ==
    (l.op.ext \in {"rel8", "rel16"} /\ o.form = "immediate" /\ l.args[1].type = "int") =>
        LET t      == l.args[1].as_int
            offset == IF Len(o.bytes) = 1 THEN Signed8(o.bytes[1])
                                          ELSE Signed16(o.bytes[1], o.bytes[2])
            end    == p + l.op.length + Len(o.bytes)
        IN  /\ o.bytes \in Seq(Int) /\ Len(o.bytes) \in 1 .. 2
            /\ IF Failing(o.error) THEN NoneReaches(end, t)
                                   ELSE Same(end + offset, t)

(* The handler of branches, whatever its arguments.                          *)
LEMMA RelReaches ==
    ASSUME NEW l \in Lines, l.op.ext \in {"rel8", "rel16"}, NEW p \in Int
    PROVE  Reaches(l, InstrRel(l.op, IntArgs(l), p + l.op.length), p)
<1> DEFINE args == IntArgs(l)
           q == p + l.op.length
           o == InstrRel(l.op, args, q)
           t == l.args[1].as_int
<1> SUFFICES ASSUME o.form = "immediate", l.args[1].type = "int"
             PROVE  Reaches(l, o, p)
  BY DEF Reaches
<1>1. l.op.length \in Nat /\ l.args \in Seq(Range(l.args)) /\ q \in Int
  BY LineFacts
<1>2. Len(args) = 1
  <2>1. CASE Len(args) # 1
    <3>1. o = Refuse("none")
      BY <2>1 DEF InstrRel
    <3> QED BY <3>1 DEF Refuse, Emit
  <2> QED BY <2>1
<1>3. DOMAIN args = DOMAIN l.args /\ 1 \in DOMAIN l.args
  <2>1. DOMAIN args = DOMAIN l.args /\ Len(l.args) \in Nat /\ DOMAIN l.args = 1 .. Len(l.args)
    BY <1>1 DEF IntArgs
  <2>2. args \in Seq({args[i] : i \in DOMAIN args})
    BY <2>1 DEF IntArgs
  <2>3. DOMAIN args = 1 .. 1
    <3> HIDE DEF args
    <3> QED BY <1>2, <2>2
  <2> QED BY <2>1, <2>3
<1>4. args[1] = l.args[1]
  BY <1>3 DEF IntArgs
<1>5. t \in Int /\ t = args[1].as_int /\ args[1].type = "int"
  BY <1>3, <1>4, LineFacts DEF Evaluated
<1> HIDE DEF args, q, t
<1>6. CASE l.op.ext = "rel8"
  <2>1. /\ o.bytes \in Seq(Int) /\ Len(o.bytes) = 1
        /\ Failing(o.error) => NoneReaches(q + 1, t)
        /\ ~Failing(o.error) => Same(q + 1 + Signed8(o.bytes[1]), t)
    BY <1>1, <1>2, <1>5, <1>6, ShortBranch
  <2>2. p + l.op.length + Len(o.bytes) = q + 1
    BY <1>1, <2>1 DEF q
  <2> HIDE DEF o
  <2> QED BY <2>1, <2>2 DEF Reaches, t
<1>7. CASE l.op.ext = "rel16"
  <2>1. /\ o.bytes \in Seq(Int) /\ Len(o.bytes) = 2
        /\ ~Failing(o.error)
        /\ Same(q + 2 + Signed16(o.bytes[1], o.bytes[2]), t)
    BY <1>1, <1>2, <1>5, <1>7, LongBranch
  <2>2. p + l.op.length + Len(o.bytes) = q + 2
    BY <1>1, <2>1 DEF q
  <2> HIDE DEF o
  <2> QED BY <2>1, <2>2 DEF Reaches, t
<1> QED BY <1>6, <1>7 DEF q, args

-----------------------------------------------------------------------------
(* A branch is taken by its own handler, as it has no other addressing mode. *)
LEMMA OnlyRel ==
    ASSUME NEW l \in Lines, l.op.ext \in {"rel8", "rel16"},
           \/ Inherent(l) \/ Immediate(l) \/ Imm8Mem(l) \/ Address(l) \/ Rel(l)
           \/ StackS(l) \/ StackU(l) \/ Pair(l) \/ Tfm(l) \/ RegMem(l)
           \/ Form(l) \/ Words(l) \/ Fill(l) \/ Rmb(l) \/ Align(l) \/ Includebin(l)
           \/ NoMode(l)
    PROVE  Rel(l)
<1>1. l.op.mem = {}
  <2>1. l.op.ext \notin {"none", "imm8_mem"} \cup Immediates
    BY DEF Immediates
  <2> QED BY <2>1, EncodingConstants
<1>2. "rel8" \notin DOMAIN FormMode /\ "rel16" \notin DOMAIN FormMode
  BY DEF FormMode
<1> QED BY <1>1, <1>2 DEF Inherent, Immediate, Imm8Mem, Address, StackS, StackU, Pair, Tfm,
                          RegMem, Form, Words, Fill, Rmb, Align, Includebin, NoMode,
                          Is, IsMem, Immediates

BInv == pc \in Int /\ Reaches(line, out, pc)

(* No line has been encoded at first.                                        *)
LEMMA InitBInv == Init => BInv
<1> SUFFICES ASSUME Init PROVE BInv
  OBVIOUS
<1>1. pc \in Int
  BY EncodingConstants DEF Init
<1>2. out.form = "none"
  BY DEF Init, Emit
<1> QED BY <1>1, <1>2 DEF BInv, Reaches

(* Every handler but that of branches is of no concern; theirs is above.     *)
LEMMA NextBInv == BInv /\ [Next]_vars => BInv'
<1> SUFFICES ASSUME BInv, [Next]_vars PROVE BInv'
  OBVIOUS
<1>1. CASE UNCHANGED vars
  BY <1>1 DEF vars, BInv
<1>2. CASE Next
  <2>1. PICK l \in Lines :
           \/ Inherent(l) \/ Immediate(l) \/ Imm8Mem(l) \/ Address(l) \/ Rel(l)
           \/ StackS(l) \/ StackU(l) \/ Pair(l) \/ Tfm(l) \/ RegMem(l)
           \/ Form(l) \/ Words(l) \/ Fill(l) \/ Rmb(l) \/ Align(l) \/ Includebin(l)
           \/ NoMode(l)
    BY <1>2, Zenon DEF Next, Waiting
  <2>2. line' = l /\ pc' = pc
    BY <2>1 DEF Inherent, Immediate, Imm8Mem, Address, Rel, StackS, StackU, Pair, Tfm,
                RegMem, Form, Words, Fill, Rmb, Align, Includebin, NoMode, Yields
  <2>3. CASE l.op.ext \in {"rel8", "rel16"}
    <3>1. Rel(l)
      BY <2>1, <2>3, OnlyRel
    <3>2. out' = InstrRel(l.op, IntArgs(l), pc + l.op.length)
      BY <3>1 DEF Rel, Yields
    <3> QED BY <2>2, <2>3, <3>2, RelReaches DEF BInv
  <2>4. CASE l.op.ext \notin {"rel8", "rel16"}
    BY <2>2, <2>4 DEF BInv, Reaches
  <2> QED BY <2>3, <2>4
<1> QED BY <1>1, <1>2

(* What is said of the outcome is what the property asks.                    *)
LEMMA BInvReaches == BInv => BranchReaches
<1> SUFFICES ASSUME BInv, line.op.ext \in {"rel8", "rel16"}, out.form = "immediate",
                    line.args[1].type = "int"
             PROVE  BranchReaches
  BY DEF BranchReaches
<1>1. Skipped = 0
  BY DEF Skipped, Is
<1>2. out.bytes \in Seq(Int) /\ Len(out.bytes) \in 1 .. 2
  BY DEF BInv, Reaches
<1>3. Code = SubSeq(out.bytes, 1, Len(out.bytes))
  BY <1>1 DEF Code
<1>4. Len(Code) = Len(out.bytes) /\ \A i \in 1 .. Len(out.bytes) : Code[i] = out.bytes[i]
  BY <1>2, <1>3
<1> DEFINE offset == IF Len(out.bytes) = 1 THEN Signed8(out.bytes[1])
                                           ELSE Signed16(out.bytes[1], out.bytes[2])
           byCode == IF Len(Code) = 1 THEN Signed8(Code[1]) ELSE Signed16(Code[1], Code[2])
           t      == line.args[1].as_int
<1>5. byCode = offset
  BY <1>2, <1>4
<1>6. EndPc = pc + line.op.length + Len(out.bytes)
  BY DEF EndPc
<1>7. IF Failing(out.error) THEN ~\E o \in -128 .. 127 : Same(EndPc + o, t)
                            ELSE Same(EndPc + offset, t)
  BY <1>6 DEF BInv, Reaches, NoneReaches
<1> HIDE DEF offset
<1>8. IF Failing(out.error) THEN ~\E o \in -128 .. 127 : Same(EndPc + o, t)
                            ELSE Same(EndPc + byCode, t)
  BY <1>5, <1>7
<1> QED BY <1>8 DEF BranchReaches

(* For every target, program counter and opcode, an accepted branch lands    *)
(* where it was meant to, and a short one is refused only if none reaches.   *)
THEOREM BranchesReach == Spec => []BranchReaches
<1>1. Init => BInv
  BY InitBInv
<1>2. BInv /\ [Next]_vars => BInv'
  BY NextBInv
<1> QED BY <1>1, <1>2, BInvReaches, PTL DEF Spec

-----------------------------------------------------------------------------
(* What evaluation to an integer gives.                                      *)

(* A set of numbers has a least one.                                         *)
LEMMA Least ==
    ASSUME NEW S, S \subseteq Nat, S # {}
    PROVE  \E x \in S : \A y \in S : x <= y
<1>1. PICK x \in S : \A y \in S : ~(<<y, x>> \in OpToRel(<, Nat))
  BY NatLessThanWellFounded, WFMin
<1>2. \A y \in S : ~(y < x)
  BY <1>1 DEF OpToRel
<1> QED BY <1>2

(* Remainders and quotients are integers.                                    *)
LEMMA Integral ==
    ASSUME NEW n \in Int, NEW d \in Nat \ {0}
    PROVE  n % d \in Int /\ n \div d \in Int
OBVIOUS

(* A character more.                                                         *)
LEMMA ShiftInType ==
    ASSUME NEW word \in Int, NEW c \in Nat
    PROVE  ShiftIn(word, c) \in Int
<1> DEFINE product == word * CharRange
<1>1. CharRange \in Nat \ {0} /\ WordRange \in Nat \ {0}
  BY OperandConstants
<1>2. product \in Int
  BY <1>1
<1> HIDE DEF product
<1>3. product % WordRange \in Int
  BY <1>1, <1>2, Integral
<1> DEFINE rest == product % WordRange
<1>4. rest \in Int /\ ShiftIn(word, c) = IF c < CharRange \div 2 THEN rest + c ELSE WordRange - CharRange + c
  BY <1>3 DEF ShiftIn, product
<1> HIDE DEF rest
<1> QED BY <1>1, <1>4

(* The function that Word() chooses exists.                                  *)
LEMMA WordExists ==
    ASSUME NEW chars, NEW n \in Nat
    PROVE  \E f : f = [i \in 0 .. n |-> IF i = 0 THEN 0 ELSE ShiftIn(f[i - 1], chars[i])]
<1> DEFINE Runs(k) == \E f : f = [i \in 0 .. k |->
                                     IF i = 0 THEN 0 ELSE ShiftIn(f[i - 1], chars[i])]
           Bad == {k \in Nat : ~Runs(k)}
<1>1. Runs(0)
  <2> DEFINE f == [i \in 0 .. 0 |-> 0]
  <2>1. f = [i \in 0 .. 0 |-> IF i = 0 THEN 0 ELSE ShiftIn(f[i - 1], chars[i])]
    OBVIOUS
  <2> QED BY <2>1
<1>2. ASSUME NEW k \in Nat, Runs(k)
      PROVE  Runs(k + 1)
  <2>1. PICK f : f = [i \in 0 .. k |-> IF i = 0 THEN 0 ELSE ShiftIn(f[i - 1], chars[i])]
    BY <1>2
  <2> DEFINE g == [i \in 0 .. k + 1 |-> IF i <= k THEN f[i] ELSE ShiftIn(f[k], chars[k + 1])]
  <2>2. ASSUME NEW i \in 0 .. k + 1
        PROVE  g[i] = IF i = 0 THEN 0 ELSE ShiftIn(g[i - 1], chars[i])
    <3>1. CASE i <= k
      <4>1. g[i] = f[i] /\ f[i] = IF i = 0 THEN 0 ELSE ShiftIn(f[i - 1], chars[i])
        BY <2>1, <3>1
      <4>2. i # 0 => g[i - 1] = f[i - 1]
        BY <3>1
      <4> QED BY <4>1, <4>2
    <3>2. CASE i = k + 1
      BY <3>2
    <3> QED BY <3>1, <3>2
  <2>3. g = [i \in 0 .. k + 1 |-> IF i = 0 THEN 0 ELSE ShiftIn(g[i - 1], chars[i])]
    BY <2>2
  <2> QED BY <2>3
<1>3. Bad = {}
  <2>1. SUFFICES ASSUME Bad # {} PROVE FALSE
    OBVIOUS
  <2>2. PICK k \in Bad : \A j \in Bad : k <= j
    BY <2>1, Least
  <2>3. k # 0 /\ k - 1 \in Nat
    <3> HIDE DEF Runs
    <3> QED BY <1>1, <2>2
  <2>4. Runs(k - 1)
    <3> HIDE DEF Runs
    <3> QED BY <2>2, <2>3
  <2>5. Runs(k - 1 + 1)
    BY <1>2, <2>3, <2>4
  <2> QED BY <2>2, <2>5
<1> QED BY <1>3

(* A string is a number.                                                     *)
LEMMA WordType ==
    ASSUME NEW chars \in Seq(Nat)
    PROVE  Word(chars) \in Int
<1> DEFINE upto[i \in 0 .. Len(chars)] == IF i = 0 THEN 0 ELSE ShiftIn(upto[i - 1], chars[i])
           Bad == {k \in 0 .. Len(chars) : upto[k] \notin Int}
<1>1. Word(chars) = upto[Len(chars)]
  BY DEF Word
<1>2. \E f : f = [i \in 0 .. Len(chars) |-> IF i = 0 THEN 0 ELSE ShiftIn(f[i - 1], chars[i])]
  BY WordExists
<1>3. upto = [i \in 0 .. Len(chars) |-> IF i = 0 THEN 0 ELSE ShiftIn(upto[i - 1], chars[i])]
  BY <1>2
<1> HIDE DEF upto
<1>4. \A i \in 0 .. Len(chars) : upto[i] = IF i = 0 THEN 0 ELSE ShiftIn(upto[i - 1], chars[i])
  BY <1>3
<1>5. Bad = {}
  <2>1. SUFFICES ASSUME Bad # {} PROVE FALSE
    OBVIOUS
  <2>2. Bad \subseteq Nat
    OBVIOUS
  <2>3. PICK k \in Bad : \A j \in Bad : k <= j
    BY <2>1, <2>2, Least
  <2>4. k \in 0 .. Len(chars) /\ upto[k] \notin Int /\ k # 0
    BY <1>4, <2>3
  <2>5. k - 1 \in 0 .. Len(chars) /\ ~(k <= k - 1) /\ k \in 1 .. Len(chars)
    BY <2>4
  <2>6. upto[k - 1] \in Int
    BY <2>3, <2>5
  <2>7. upto[k] = ShiftIn(upto[k - 1], chars[k]) /\ chars[k] \in Nat
    BY <1>4, <2>4, <2>5
  <2> QED BY <2>4, <2>6, <2>7, ShiftInType
<1>6. Len(chars) \in 0 .. Len(chars)
  OBVIOUS
<1> QED BY <1>1, <1>5, <1>6

(* A number that was a fraction, or had none.                                *)
LEMMA TruncatedToType ==
    ASSUME NEW f \in Int \X Nat, NEW least \in Int
    PROVE  TruncatedTo(f, least) \in Int
<1>1. f[1] \in Int /\ f[2] \in Nat
  OBVIOUS
<1>2. CASE f[2] = 0
  BY <1>1, <1>2 DEF TruncatedTo
<1>3. CASE f[2] # 0
  <2> DEFINE n == Magnitude(f[1])
             d == Magnitude(f[2])
             q == n \div d
  <2>1. n \in Int /\ d \in Nat \ {0}
    BY <1>1, <1>3 DEF Magnitude
  <2>2. q \in Int
    <3> HIDE DEF n, d
    <3> QED BY <2>1, Integral
  <2>3. Quotient(f[1], f[2]) \in {q, -q}
    BY DEF Quotient
  <2> HIDE DEF q
  <2>4. Quotient(f[1], f[2]) \in Int
    BY <2>2, <2>3
  <2> QED BY <1>1, <2>4 DEF TruncatedTo
<1> QED BY <1>2, <1>3

LEMMA TruncatedType ==
    ASSUME NEW f \in Int \X Nat
    PROVE  Truncated(f) \in Int
BY TruncatedToType, OperandConstants DEF Truncated

(* Characters are numbers.                                                   *)
LEMMA CharactersAreNumbers ==
    ASSUME NEW s \in Seq(0 .. 255)
    PROVE  s \in Seq(Nat)
<1> DEFINE C == 0 .. 255
<1>1. C \subseteq Nat /\ s \in Seq(C)
  OBVIOUS
<1> HIDE DEF C
<1> DEFINE n == Len(s)
<1>2. n \in Nat /\ s = [i \in 1 .. n |-> s[i]] /\ \A i \in 1 .. n : s[i] \in C
  BY <1>1
<1> HIDE DEF n
<1>3. s \in [1 .. n -> Nat]
  BY <1>1, <1>2
<1> QED BY <1>2, <1>3

(* eval_int() of what evaluation leaves is an integer, or undefined.         *)
LEMMA EvalIntType ==
    ASSUME NEW n, Evaluated(n)
    PROVE  LET e == EvalInt(n)
           IN  /\ e.type \in {"int", "undef"}
               /\ e.type = "int" => e.as_int \in Int
               /\ e.type = "undef" => e = Undefined
<1>1. CASE n.type = "int"
  BY <1>1 DEF EvalInt, Evaluated
<1>2. CASE n.type = "float"
  <2>1. Truncated(n.as_float) \in Int
    BY <1>2, TruncatedType DEF Evaluated
  <2> QED BY <1>2, <2>1 DEF EvalInt, IntNode
<1>3. CASE n.type = "string"
  <2>1. n.as_string \in Seq(Nat)
    BY <1>3, CharactersAreNumbers DEF Evaluated
  <2>2. Word(n.as_string) \in Int
    BY <2>1, WordType
  <2> QED BY <1>3, <2>2 DEF EvalInt, IntNode
<1>4. CASE n.type \notin {"int", "float", "string"}
  BY <1>4 DEF EvalInt, Undefined
<1> QED BY <1>1, <1>2, <1>3, <1>4

(* The arguments of a line with its floats made integers.                    *)
LEMMA ArgsType ==
    ASSUME NEW l \in Lines
    PROVE  LET args == IntArgs(l)
           IN  /\ args \in Seq(Range(args)) /\ DOMAIN args = 1 .. Len(args)
               /\ Len(args) = Len(l.args) /\ Len(args) \in Nat
               /\ \A i \in DOMAIN args :
                      /\ Evaluated(args[i])
                      /\ l.args[i].type # "float" => args[i] = l.args[i]
                      /\ l.args[i].type = "float" => args[i].type = "int"
<1> DEFINE args == IntArgs(l)
<1>1. /\ l.args \in Seq(Range(l.args)) /\ DOMAIN l.args = 1 .. Len(l.args)
      /\ Len(l.args) \in Nat
      /\ \A i \in DOMAIN l.args : Evaluated(l.args[i])
  BY LineFacts
<1>2. DOMAIN args = DOMAIN l.args
  BY DEF IntArgs
<1>3. args = [i \in 1 .. Len(l.args) |-> args[i]]
  BY <1>1, <1>2 DEF IntArgs
<1>4. \A i \in DOMAIN args : args[i] \in Range(args)
  BY DEF Range
<1> DEFINE S == Range(args)
<1>5. args \in Seq(S) /\ Len(args) = Len(l.args)
  <2> DEFINE n == Len(l.args)
  <2>1. \A i \in 1 .. n : args[i] \in S
    BY <1>1, <1>2, <1>4
  <2>2. n \in Nat /\ args = [i \in 1 .. n |-> args[i]]
    BY <1>1, <1>3
  <2> HIDE DEF args, S, n
  <2>3. args \in [1 .. n -> S]
    BY <2>1, <2>2
  <2>4. args \in Seq(S) /\ Len(args) = n
    BY <2>2, <2>3
  <2> QED BY <2>4 DEF n
<1>6. ASSUME NEW i \in DOMAIN args
      PROVE  /\ Evaluated(args[i])
             /\ l.args[i].type # "float" => args[i] = l.args[i]
             /\ l.args[i].type = "float" => args[i].type = "int"
  <2>1. Evaluated(l.args[i])
    BY <1>1, <1>2
  <2>2. args[i] = IF l.args[i].type = "float" THEN EvalInt(l.args[i]) ELSE l.args[i]
    BY <1>2 DEF IntArgs
  <2>3. CASE l.args[i].type = "float"
    <3>1. args[i] = IntNode(Truncated(l.args[i].as_float), l.args[i].attr)
      BY <2>2, <2>3 DEF EvalInt
    <3>2. Truncated(l.args[i].as_float) \in Int
      BY <2>1, <2>3, TruncatedType DEF Evaluated
    <3> QED BY <2>3, <3>1, <3>2 DEF IntNode, Evaluated
  <2>4. CASE l.args[i].type # "float"
    BY <2>1, <2>2, <2>4
  <2> QED BY <2>3, <2>4
<1> QED BY <1>1, <1>2, <1>5, <1>6

-----------------------------------------------------------------------------
(* Direct and extended addressing.  What AddressKept says of the form and    *)
(* the code of an operand n.                                                 *)
AddressRead(op, n, form, code, page) ==
    IF form = "direct"
    THEN /\ n.type = "int"
         /\ n.attr = "8bit" \/ Same(256 * page + code[1], n.as_int)
         /\ (code[1] - n.as_int) % 256 = 0
    ELSE /\ n.type = "int" => Same(256 * code[1] + code[2], n.as_int)
         /\ n.attr = "none" /\ "direct" \in op.mem => code[1] # page

(* An address has a page and a byte within the page.                         *)
LEMMA Paged ==
    ASSUME NEW v \in Int
    PROVE  LET a == v % 65536
           IN  /\ a \in Int /\ a \div 256 \in Int /\ a % 256 \in Int
               /\ a = 256 * (a \div 256) + (a % 256)
               /\ (a \div 256) % 256 = a \div 256
               /\ Same(a, v)
               /\ ((a % 256) - v) % 256 = 0
<1> DEFINE a == v % 65536
           q == v \div 65536
<1>1. a \in Int /\ q \in Int /\ 0 <= a /\ a <= 65535 /\ v = 65536 * q + a
  OBVIOUS
<1> HIDE DEF a, q
<1>2. /\ a \div 256 \in Int /\ a % 256 \in Int
      /\ a = 256 * (a \div 256) + (a % 256)
      /\ 0 <= a % 256 /\ a % 256 <= 255
  BY <1>1, Halves
<1> DEFINE h == a \div 256
           b == a % 256
<1>3. h \in Int /\ b \in Int /\ a = 256 * h + b /\ 0 <= b /\ b <= 255
  BY <1>2
<1> HIDE DEF h, b
<1>4. 0 <= h /\ h <= 255
  BY <1>1, <1>3
<1>5. h % 256 = h
  BY <1>3, <1>4
<1>6. Same(a, v)
  <2>1. a - v = 65536 * (-q)
    BY <1>1
  <2>2. \A m \in Int : (65536 * m) % 65536 = 0
    OBVIOUS
  <2>3. -q \in Int
    BY <1>1
  <2> QED BY <2>1, <2>2, <2>3 DEF Same
<1>7. (b - v) % 256 = 0
  <2>1. b - v = 256 * (-h - 256 * q) /\ -h - 256 * q \in Int
    BY <1>1, <1>3
  <2>2. \A m \in Int : (256 * m) % 256 = 0
    OBVIOUS
  <2> QED BY <2>1, <2>2
<1>8. (a \div 256) % 256 = a \div 256 /\ ((a % 256) - v) % 256 = 0
  BY <1>5, <1>7 DEF h, b
<1> QED BY <1>1, <1>2, <1>6, <1>8 DEF a

(* No other form comes of indexed addressing.                                *)
IsIndexed(o) == \E f \in {"none", "indexed"} : \E b, e : o = Emit(f, b, e)

LEMMA IndexedForm ==
    ASSUME NEW args, NEW p
    PROVE  IsIndexed(InstrIndexed(args, p))
<1>0. \A b, e : IsIndexed(Emit("indexed", b, e)) /\ IsIndexed(Emit("none", b, e))
  BY DEF IsIndexed
<1>1. ASSUME NEW i, NEW n PROVE IsIndexed(Indexed1(i, n))
  <2> DEFINE b == <<IF i THEN \h9f ELSE \h8f>> \o Uint16(n.as_int)
             e == IF i THEN None ELSE Illegal
  <2>1. Indexed1(i, n) \in {Emit("indexed", <<>>, Syntax), Emit("indexed", b, e)}
    <3>1. Indexed1(i, n) = IF n.type \notin {"int", "undef"} \/ n.attr \notin {"undef", "none", "16bit"}
                           THEN Emit("indexed", <<>>, Syntax)
                           ELSE Emit("indexed", b, e)
      BY Zenon DEF Indexed1, Refuse
    <3> HIDE DEF b, e
    <3> QED BY <3>1
  <2> HIDE DEF b, e
  <2> QED BY <1>0, <2>1
<1>2. ASSUME NEW i, NEW m, NEW n PROVE IsIndexed(Indexed2(i, m, n, p))
  <2> DEFINE k    == FirstMode(i, m, n, p)
             mode == Mode(IndexedModes[k])
             post == Postbyte(mode, i, Offset(mode.off, m, n, p), n)
             tail == CASE mode.off = "8bit"  -> Uint8(Offset(mode.off, m, n, p))
                       [] mode.off = "16bit" -> Uint16(Offset(mode.off, m, n, p))
                       [] OTHER -> <<>>
             e    == IF i /\ mode.indirect = "illegal" THEN Illegal ELSE None
  <2>1. Indexed2(i, m, n, p) \in {Emit("indexed", Pad(1), None), Emit("indexed", <<>>, Syntax),
                                  Emit("indexed", <<post>> \o tail, e)}
    <3>1. Indexed2(i, m, n, p) =
             IF "undef" \in {m.type, n.type} THEN Emit("indexed", Pad(1), None)
             ELSE IF n.type # "reg" \/ n.as_reg \notin DOMAIN IdxType \/ k = 0
             THEN Refuse("indexed") ELSE Emit("indexed", <<post>> \o tail, e)
      BY DEF Indexed2
    <3> HIDE DEF k, post, tail, e
    <3> QED BY <3>1 DEF Refuse
  <2> HIDE DEF post, tail, e
  <2> QED BY <1>0, <2>1
<1> DEFINE indirect == Len(args) = 1 /\ args[1].type = "array"
           inner == IF indirect THEN args[1].as_array ELSE args
           n == IF inner # <<>> /\ inner[1].type = "string" THEN EvalInt(inner[1])
                ELSE inner[1]
<1>3. InstrIndexed(args, p) = CASE Len(inner) = 1 -> Indexed1(indirect, n)
                                [] Len(inner) = 2 -> Indexed2(indirect, n, inner[2], p)
                                [] OTHER -> Refuse("none")
  BY DEF InstrIndexed
<1>4. IsIndexed(Refuse("none"))
  BY <1>0 DEF Refuse
<1> HIDE DEF indirect, inner, n
<1> QED BY <1>1, <1>2, <1>3, <1>4

(* What instr_address() makes of an outcome, with a byte before its own.      *)
Prefixed(imm, o) == [o EXCEPT !.bytes = IF o.form = "none" THEN @ ELSE imm \o @]

LEMMA PrefixedEmit ==
    ASSUME NEW imm, NEW f, NEW b, NEW e, f # "none"
    PROVE  Prefixed(imm, Emit(f, b, e)) = Emit(f, imm \o b, e)
<1> DEFINE x == imm \o b
           o == Emit(f, b, e)
<1>1. o.form = f /\ o.bytes = b
  BY DEF Emit
<1>2. Prefixed(imm, o) = [o EXCEPT !.bytes = x]
  <2> HIDE DEF o
  <2> QED BY <1>1 DEF Prefixed
<1>3. \A y : [o EXCEPT !.bytes = y] = Emit(f, y, e)
  BY DEF Emit
<1> HIDE DEF o, x
<1>4. Prefixed(imm, o) = Emit(f, x, e)
  BY <1>2, <1>3
<1> QED BY <1>4 DEF o, x

(* An outcome keeps its form.                                                *)
LEMMA PrefixedForm ==
    ASSUME NEW imm, NEW f, NEW b, NEW e
    PROVE  Prefixed(imm, Emit(f, b, e)).form = f
BY DEF Prefixed, Emit

(* An outcome of indexed addressing remains one.                             *)
LEMMA PrefixedIndexed ==
    ASSUME NEW imm, NEW o, IsIndexed(o)
    PROVE  Prefixed(imm, o).form \in {"none", "indexed"}
<1>1. PICK f \in {"none", "indexed"} : \E b, e : o = Emit(f, b, e)
  BY DEF IsIndexed
<1>2. PICK b, e : o = Emit(f, b, e)
  BY <1>1
<1>3. Prefixed(imm, Emit(f, b, e)).form = f
  BY PrefixedForm
<1> QED BY <1>1, <1>2, <1>3

(* The outcome of a direct or extended operand: an address's bytes.          *)
AddressOutcome(op, args, imm, page, o) ==
    /\ Len(args) = 1
    /\ \E b \in Seq(Int) :
           /\ Len(b) \in 1 .. 2
           /\ o.bytes = imm \o b
           /\ AddressRead(op, EvalInt(args[1]), o.form, b, page)

LEMMA AddressEmitted ==
    ASSUME NEW op, NEW args, NEW imm, NEW page, NEW f, NEW b \in Seq(Int), Len(b) \in 1 .. 2,
           Len(args) = 1, AddressRead(op, EvalInt(args[1]), f, b, page)
    PROVE  AddressOutcome(op, args, imm, page, Emit(f, imm \o b, None))
<1> DEFINE x == imm \o b
           o == Emit(f, x, None)
<1>1. o.form = f /\ o.bytes = x
  BY DEF Emit
<1> HIDE DEF o
<1>2. o.bytes = imm \o b /\ AddressRead(op, EvalInt(args[1]), o.form, b, page)
  BY <1>1
<1>3. AddressOutcome(op, args, imm, page, o)
  BY <1>2, Zenon DEF AddressOutcome
<1> QED BY <1>3 DEF o

(* The direct form: the byte within the page in DP, or the one forced.       *)
TakenDirect(n, page, a) ==
    /\ n.type = "int" /\ n.as_int \in Int /\ a = n.as_int % 65536
    /\ n.attr = "8bit" \/ (n.attr = "none" /\ InPage(page, a))

LEMMA DirectBytes ==
    ASSUME NEW op, NEW n, NEW page \in Int, NEW a, TakenDirect(n, page, a)
    PROVE  LET b == Uint8(a)
           IN  b \in Seq(Int) /\ Len(b) = 1 /\ AddressRead(op, n, "direct", b, page)
<1> DEFINE v == n.as_int
           b == Uint8(a)
<1>1. v \in Int /\ a = v % 65536
  BY DEF TakenDirect
<1>2. n.type = "int" /\ (n.attr = "8bit" \/ page = a \div 256)
  BY DEF TakenDirect, InPage
<1> HIDE DEF v
<1>3. /\ a \in Int /\ a \div 256 \in Int /\ a % 256 \in Int
      /\ a = 256 * (a \div 256) + (a % 256)
      /\ Same(a, v) /\ ((a % 256) - v) % 256 = 0
  BY <1>1, Paged
<1>4. b \in Seq(Int) /\ Len(b) = 1 /\ b[1] = a % 256
  BY <1>3 DEF Uint8
<1> HIDE DEF b
<1>5. n.attr = "8bit" \/ Same(256 * page + b[1], v)
  BY <1>2, <1>3, <1>4
<1>6. (b[1] - v) % 256 = 0
  BY <1>3, <1>4
<1>7. AddressRead(op, n, "direct", b, page)
  BY <1>2, <1>5, <1>6 DEF AddressRead, v
<1> QED BY <1>4, <1>7 DEF b, v

(* The extended form: the address, or anything if it is not known yet.       *)
TakenExtended(op, n, page, a) ==
    /\ a \in Int
    /\ n.type = "int" => n.as_int \in Int /\ a = n.as_int % 65536
    /\ n.attr = "none" /\ "direct" \in op.mem => n.type = "int" /\ ~InPage(page, a)

LEMMA ExtendedBytes ==
    ASSUME NEW op, NEW n, NEW page \in Int, NEW a, TakenExtended(op, n, page, a)
    PROVE  LET b == Uint16(a)
           IN  b \in Seq(Int) /\ Len(b) = 2 /\ AddressRead(op, n, "extended", b, page)
<1> DEFINE b == Uint16(a)
           h == (a \div 256) % 256
           v == n.as_int
<1>1. b \in Seq(Int) /\ Len(b) = 2 /\ b[1] = h /\ b[2] = a % 256
  <2>1. a \div 256 \in Int /\ a % 256 \in Int
    BY Halves DEF TakenExtended
  <2>2. h \in Int
    BY <2>1, Halves
  <2> QED BY <2>1, <2>2 DEF Uint16
<1>2. n.type = "int" => 256 * b[1] + b[2] = a /\ b[1] = a \div 256 /\ Same(a, v)
  <2> SUFFICES ASSUME n.type = "int"
               PROVE  256 * b[1] + b[2] = a /\ b[1] = a \div 256 /\ Same(a, v)
    OBVIOUS
  <2>1. v \in Int /\ a = v % 65536
    BY DEF TakenExtended
  <2> HIDE DEF v
  <2>2. a = 256 * h + (a % 256) /\ h = a \div 256 /\ Same(a, v)
    BY <2>1, Paged
  <2> HIDE DEF b, h
  <2> QED BY <1>1, <2>2
<1>3. n.attr = "none" /\ "direct" \in op.mem => n.type = "int" /\ page # a \div 256
  BY DEF TakenExtended, InPage
<1> HIDE DEF b, h, v
<1>4. n.type = "int" => Same(256 * b[1] + b[2], v)
  BY <1>2
<1>5. n.attr = "none" /\ "direct" \in op.mem => b[1] # page
  BY <1>2, <1>3
<1>6. AddressRead(op, n, "extended", b, page)
  BY <1>4, <1>5 DEF AddressRead, v
<1> QED BY <1>1, <1>6 DEF b

(* instr_address(): an address's bytes are the address, with the page in DP  *)
(* if they are direct.                                                       *)
LEMMA AddressBytes ==
    ASSUME NEW op, NEW args, NEW imm, NEW page \in Int, NEW p \in Int,
           Len(args) \in 1 .. 2 => Evaluated(args[1]),
           InstrAddress(op, args, imm, page, p).form \in {"direct", "extended"}
    PROVE  AddressOutcome(op, args, imm, page, InstrAddress(op, args, imm, page, p))
<1> DEFINE o == InstrAddress(op, args, imm, page, p)
           n == EvalInt(args[1])
           attr == IF n.type = "undef" THEN "16bit" ELSE n.attr
           addr == IF n.type = "undef" THEN p ELSE n.as_int % 65536
           direct == /\ "direct" \in op.mem
                     /\ attr = "8bit" \/ (attr = "none" /\ InPage(page, addr))
           extended == /\ "extended" \in op.mem
                       /\ attr \in {"none", "16bit"}
                       /\ ~("direct" \in op.mem /\ attr = "none" /\ InPage(page, addr))
           d == Emit("direct", Uint8(addr), None)
           x == Emit("extended", Uint16(addr), None)
           i == InstrIndexed(args, p + op.length + Len(imm))
<1>1. o = CASE Len(args) \notin 1 .. 2 -> Refuse("none")
            [] Len(args) = 2 /\ "indexed" \notin op.mem -> Refuse("none")
            [] Len(args) = 2 \/ (Len(args) = 1 /\ args[1].type = "array") -> Prefixed(imm, i)
            [] OTHER -> Prefixed(imm, CASE direct -> d [] extended -> x [] OTHER -> i)
  BY DEF InstrAddress, Prefixed
<1>2. Refuse("none").form = "none"
  BY DEF Refuse, Emit
<1>3. Prefixed(imm, i).form \in {"none", "indexed"}
  BY IndexedForm, PrefixedIndexed
<1>4. o.form \in {"direct", "extended"}
  OBVIOUS
<1> HIDE DEF o, i, d, x, direct, extended
<1>5. Len(args) = 1 /\ (\/ direct /\ o = Prefixed(imm, d)
                        \/ extended /\ o = Prefixed(imm, x))
  BY <1>1, <1>2, <1>3, <1>4
<1>6. /\ n.type \in {"int", "undef"} /\ (n.type = "int" => n.as_int \in Int)
      /\ n.type = "undef" => n = Undefined
  BY <1>5, EvalIntType
<1>7. CASE direct /\ o = Prefixed(imm, d)
  <2>1. TakenDirect(n, page, addr)
    BY <1>6, <1>7 DEF direct, TakenDirect
  <2> DEFINE b == Uint8(addr)
  <2>2. d = Emit("direct", b, None)
    BY DEF d
  <2> HIDE DEF addr, n
  <2>3. b \in Seq(Int) /\ Len(b) = 1 /\ AddressRead(op, n, "direct", b, page)
    BY <2>1, DirectBytes
  <2> HIDE DEF b
  <2>4. o = Emit("direct", imm \o b, None)
    <3>1. "direct" # "none"
      OBVIOUS
    <3>2. Prefixed(imm, Emit("direct", b, None)) = Emit("direct", imm \o b, None)
      BY <3>1, PrefixedEmit
    <3> QED BY <1>7, <2>2, <3>2, Zenon
  <2>5. Len(b) \in 1 .. 2
    BY <2>3
  <2>6. AddressOutcome(op, args, imm, page, Emit("direct", imm \o b, None))
    BY <1>5, <2>3, <2>5, AddressEmitted DEF n
  <2>7. AddressOutcome(op, args, imm, page, o)
    BY <2>4, <2>6, Zenon
  <2> QED BY <2>7 DEF o
<1>8. CASE extended /\ o = Prefixed(imm, x)
  <2> DEFINE b == Uint16(addr)
  <2>1. TakenExtended(op, n, page, addr)
    <3>1. n.type = "undef" => n.attr # "none"
      BY <1>6 DEF Undefined
    <3> QED BY <1>6, <1>8, <3>1 DEF extended, TakenExtended
  <2>2. x = Emit("extended", b, None)
    BY DEF x
  <2> HIDE DEF addr, n
  <2>3. b \in Seq(Int) /\ Len(b) = 2 /\ AddressRead(op, n, "extended", b, page)
    BY <2>1, ExtendedBytes
  <2> HIDE DEF b
  <2>4. o = Emit("extended", imm \o b, None)
    <3>1. "extended" # "none"
      OBVIOUS
    <3>2. Prefixed(imm, Emit("extended", b, None)) = Emit("extended", imm \o b, None)
      BY <3>1, PrefixedEmit
    <3> QED BY <1>8, <2>2, <3>2, Zenon
  <2>5. Len(b) \in 1 .. 2
    BY <2>3
  <2>6. AddressOutcome(op, args, imm, page, Emit("extended", imm \o b, None))
    BY <1>5, <2>3, <2>5, AddressEmitted DEF n
  <2>7. AddressOutcome(op, args, imm, page, o)
    BY <2>4, <2>6, Zenon
  <2> QED BY <2>7 DEF o
<1> QED
  <2> HIDE DEF n, addr, attr
  <2> QED BY <1>5, <1>7, <1>8

-----------------------------------------------------------------------------
(* What follows the immediate byte, if there is one, is the operand's.       *)
LEMMA PastImm ==
    ASSUME NEW imm \in Seq(Int), NEW b \in Seq(Int)
    PROVE  SubSeq(imm \o b, Len(imm) + 1, Len(imm \o b)) = b
<1> DEFINE m == Len(imm)
           x == imm \o b
<1>1. /\ x \in Seq(Int) /\ m \in Nat /\ Len(b) \in Nat /\ Len(x) = m + Len(b)
      /\ \A i \in 1 .. Len(b) : x[m + i] = b[i]
  OBVIOUS
<1>2. b = [i \in 1 .. Len(b) |-> b[i]]
  OBVIOUS
<1> HIDE DEF m, x
<1>3. SubSeq(x, m + 1, Len(x)) = [i \in 1 .. Len(b) |-> x[m + i]]
  <2>1. Len(x) - (m + 1) + 1 = Len(b)
    BY <1>1
  <2>2. SubSeq(x, m + 1, Len(x)) = [i \in 1 .. (Len(x) - (m + 1) + 1) |-> x[i + (m + 1) - 1]]
    BY <1>1
  <2>3. \A i \in 1 .. Len(b) : i + (m + 1) - 1 = m + i
    BY <1>1
  <2> QED BY <2>1, <2>2, <2>3
<1>4. SubSeq(x, m + 1, Len(x)) = [i \in 1 .. Len(b) |-> b[i]]
  BY <1>1, <1>3
<1> QED BY <1>2, <1>4 DEF m, x

(* The operand of a line, and the number of bytes before it.                 *)
OperandOf(l) == LET args == IntArgs(l) IN IF Is(l, "imm8_mem") THEN Tail(args) ELSE args
SkippedOf(l) == IF Is(l, "imm8_mem") THEN 1 ELSE 0

(* What AddressKept says of a line and its outcome.                          *)
Addressed(l, o, page) ==
    (IsMem(l) \/ Is(l, "imm8_mem")) /\ o.form \in {"direct", "extended"} =>
        \E imm \in Seq(Int) :
            Len(imm) = SkippedOf(l) /\ AddressOutcome(l.op, OperandOf(l), imm, page, o)

(* Addressing without an immediate byte.                                     *)
LEMMA AddressAddressed ==
    ASSUME NEW l \in Lines, ~Is(l, "imm8_mem"), NEW page \in Int, NEW p \in Int
    PROVE  Addressed(l, InstrAddress(l.op, IntArgs(l), <<>>, page, p), page)
<1> DEFINE args == IntArgs(l)
           o == InstrAddress(l.op, args, <<>>, page, p)
<1>1. Len(args) \in 1 .. 2 => Evaluated(args[1])
  BY ArgsType
<1>2. OperandOf(l) = args /\ SkippedOf(l) = 0 /\ <<>> \in Seq(Int) /\ Len(<<>>) = 0
  BY DEF OperandOf, SkippedOf
<1> HIDE DEF args
<1>3. o.form \in {"direct", "extended"} => AddressOutcome(l.op, args, <<>>, page, o)
  BY <1>1, AddressBytes
<1> HIDE DEF o
<1>4. Addressed(l, o, page)
  BY <1>2, <1>3 DEF Addressed
<1> QED BY <1>4 DEF o, args

(* Addressing with one, of instr_imm8_mem().                                 *)
LEMMA Imm8MemAddressed ==
    ASSUME NEW l \in Lines, Is(l, "imm8_mem"), NEW page \in Int, NEW p \in Int
    PROVE  Addressed(l, InstrImm8Mem(l.op, IntArgs(l), page, p), page)
<1> DEFINE args == IntArgs(l)
           rest == Tail(args)
           v == IF args[1].type = "int" THEN args[1].as_int ELSE 0
           imm == Uint8(v)
           o == InstrAddress(l.op, rest, imm, page, p)
           r == InstrImm8Mem(l.op, args, page, p)
<1>1. r = Refuse("none") \/ (Len(args) \in 2 .. 3 /\ r = o)
  BY DEF InstrImm8Mem
<1>2. OperandOf(l) = rest /\ SkippedOf(l) = 1
  BY DEF OperandOf, SkippedOf
<1>3. /\ args \in Seq(Range(args)) /\ DOMAIN args = 1 .. Len(args) /\ Len(args) \in Nat
      /\ \A i \in DOMAIN args : Evaluated(args[i])
  BY ArgsType
<1> HIDE DEF args
<1>4. CASE r = Refuse("none")
  <2>1. r.form = "none"
    BY <1>4 DEF Refuse, Emit
  <2> HIDE DEF r
  <2>2. Addressed(l, r, page)
    BY <2>1 DEF Addressed
  <2> QED BY <2>2 DEF r, args
<1>5. CASE Len(args) \in 2 .. 3 /\ r = o
  <2>1. Evaluated(args[1]) /\ Evaluated(args[2])
    BY <1>3, <1>5
  <2>2. v \in Int
    BY <2>1 DEF Evaluated
  <2>3. imm \in Seq(Int) /\ Len(imm) = 1
    <3> HIDE DEF v
    <3>1. v % 256 \in Int
      BY <2>2
    <3> QED BY <3>1 DEF Uint8
  <2>4. rest[1] = args[2]
    BY <1>3, <1>5
  <2> HIDE DEF rest, imm, r
  <2>5. o.form \in {"direct", "extended"} => AddressOutcome(l.op, rest, imm, page, o)
    BY <2>1, <2>4, AddressBytes
  <2> HIDE DEF o
  <2>6. Addressed(l, o, page)
    BY <1>2, <2>3, <2>5 DEF Addressed
  <2> QED BY <1>5, <2>6 DEF r, args
<1> QED BY <1>1, <1>4, <1>5

(* Only the two handlers of addresses take a line with an address.           *)
LEMMA OnlyAddress ==
    ASSUME NEW l \in Lines, IsMem(l) \/ Is(l, "imm8_mem"),
           \/ Inherent(l) \/ Immediate(l) \/ Imm8Mem(l) \/ Address(l) \/ Rel(l)
           \/ StackS(l) \/ StackU(l) \/ Pair(l) \/ Tfm(l) \/ RegMem(l)
           \/ Form(l) \/ Words(l) \/ Fill(l) \/ Rmb(l) \/ Align(l) \/ Includebin(l)
           \/ NoMode(l)
    PROVE  Imm8Mem(l) \/ (Address(l) /\ ~Is(l, "imm8_mem"))
<1>1. l.op.ext \in {"none", "imm8_mem", "imm8", "imm16", "imm32"}
  <2>1. l.op.mem # {} => l.op.ext \in {"none", "imm8_mem"} \cup Immediates
    BY EncodingConstants
  <2> QED BY <2>1 DEF IsMem, Is, Immediates
<1>2. l.op.ext \in Immediates => ~l.immediate /\ l.op.mem # {}
  BY DEF IsMem, Is, Immediates
<1>3. DOMAIN FormMode \cap {"none", "imm8_mem", "imm8", "imm16", "imm32"} = {}
  BY DEF FormMode
<1> QED BY <1>1, <1>2, <1>3
        DEF Inherent, Immediate, Imm8Mem, Address, Rel, StackS, StackU, Pair, Tfm, RegMem,
            Form, Words, Fill, Rmb, Align, Includebin, NoMode, Is, IsMem

AInv == pc \in Int /\ dp \in Int /\ Addressed(line, out, dp)

LEMMA InitAInv == Init => AInv
<1> SUFFICES ASSUME Init PROVE AInv
  OBVIOUS
<1>1. pc \in Int /\ dp \in Int
  BY EncodingConstants DEF Init
<1>2. out.form = "none"
  BY DEF Init, Emit
<1> QED BY <1>1, <1>2 DEF AInv, Addressed

LEMMA NextAInv == AInv /\ [Next]_vars => AInv'
<1> SUFFICES ASSUME AInv, [Next]_vars PROVE AInv'
  OBVIOUS
<1>1. CASE UNCHANGED vars
  BY <1>1 DEF vars, AInv
<1>2. CASE Next
  <2>1. PICK l \in Lines :
           \/ Inherent(l) \/ Immediate(l) \/ Imm8Mem(l) \/ Address(l) \/ Rel(l)
           \/ StackS(l) \/ StackU(l) \/ Pair(l) \/ Tfm(l) \/ RegMem(l)
           \/ Form(l) \/ Words(l) \/ Fill(l) \/ Rmb(l) \/ Align(l) \/ Includebin(l)
           \/ NoMode(l)
    BY <1>2, Zenon DEF Next, Waiting
  <2>2. line' = l /\ pc' = pc /\ dp' = dp
    BY <2>1 DEF Inherent, Immediate, Imm8Mem, Address, Rel, StackS, StackU, Pair, Tfm,
                RegMem, Form, Words, Fill, Rmb, Align, Includebin, NoMode, Yields
  <2>3. CASE IsMem(l) \/ Is(l, "imm8_mem")
    <3>1. Imm8Mem(l) \/ (Address(l) /\ ~Is(l, "imm8_mem"))
      BY <2>1, <2>3, OnlyAddress
    <3>2. CASE Imm8Mem(l)
      <4>1. out' = InstrImm8Mem(l.op, IntArgs(l), dp, pc) /\ Is(l, "imm8_mem")
        BY <3>2 DEF Imm8Mem, Yields
      <4>2. Addressed(l, out', dp)
        BY <4>1, Imm8MemAddressed DEF AInv
      <4> QED BY <2>2, <4>2 DEF AInv
    <3>3. CASE Address(l) /\ ~Is(l, "imm8_mem")
      <4>1. out' = InstrAddress(l.op, IntArgs(l), <<>>, dp, pc)
        BY <3>3 DEF Address, Yields
      <4>2. Addressed(l, out', dp)
        BY <3>3, <4>1, AddressAddressed DEF AInv
      <4> QED BY <2>2, <4>2 DEF AInv
    <3> QED BY <3>1, <3>2, <3>3
  <2>4. CASE ~(IsMem(l) \/ Is(l, "imm8_mem"))
    BY <2>2, <2>4 DEF AInv, Addressed
  <2> QED BY <2>3, <2>4
<1> QED BY <1>1, <1>2

LEMMA AInvKept == AInv => AddressKept
<1> SUFFICES ASSUME AInv, IsMem(line) \/ Is(line, "imm8_mem"),
                    out.form \in {"direct", "extended"}
             PROVE  AddressKept
  BY DEF AddressKept
<1>1. PICK imm \in Seq(Int) :
         Len(imm) = SkippedOf(line) /\ AddressOutcome(line.op, OperandOf(line), imm, dp, out)
  BY DEF AInv, Addressed
<1>2. PICK b \in Seq(Int) :
         /\ out.bytes = imm \o b
         /\ AddressRead(line.op, EvalInt(OperandOf(line)[1]), out.form, b, dp)
  BY <1>1 DEF AddressOutcome
<1>3. Operand = OperandOf(line) /\ Skipped = SkippedOf(line)
  BY DEF Operand, OperandOf, Skipped, SkippedOf
<1>4. Code = b
  BY <1>1, <1>2, <1>3, PastImm, Zenon DEF Code
<1> DEFINE n == EvalInt(Operand[1])
<1>5. AddressRead(line.op, n, out.form, Code, dp)
  BY <1>2, <1>3, <1>4
<1> HIDE DEF n
<1>6. CASE out.form = "direct"
  BY <1>5, <1>6 DEF AddressRead, AddressKept, n
<1>7. CASE out.form = "extended"
  BY <1>5, <1>7 DEF AddressRead, AddressKept, n
<1> QED BY <1>6, <1>7

(* For every line, page and program counter, an address's bytes are the      *)
(* address, the page in DP understood; of instr_address() (instr.c:428).     *)
THEOREM AddressesKept == Spec => []AddressKept
<1>1. Init => AInv
  BY InitAInv
<1>2. AInv /\ [Next]_vars => AInv'
  BY NextAInv
<1> QED BY <1>1, <1>2, AInvKept, PTL DEF Spec

-----------------------------------------------------------------------------
(* The least of the rows that fit is one that does.                          *)
LEMMA FirstFits ==
    ASSUME NEW i, NEW m, NEW n, NEW p
    PROVE  LET k == FirstMode(i, m, n, p)
           IN  k # 0 => /\ k \in 1 .. 22 /\ Fits(k, i, m, n, p)
                        /\ \A j \in 1 .. 22 : Fits(j, i, m, n, p) => k <= j
<1> DEFINE S == [j \in 1 .. Len(IndexedModes) |-> j]
           T == {j \in 1 .. Len(S) : Fits(S[j], i, m, n, p)}
           k == FirstMode(i, m, n, p)
<1>1. Len(IndexedModes) = 22
  BY DEF IndexedModes
<1>2. Len(S) = 22 /\ \A j \in 1 .. 22 : S[j] = j
  BY <1>1
<1>3. k = IF T # {} THEN Min(T) ELSE 0
  BY DEF FirstMode, SelectInSeq
<1> HIDE DEF S
<1>4. T = {j \in 1 .. 22 : Fits(j, i, m, n, p)}
  BY <1>2
<1> HIDE DEF T, k
<1>5. ASSUME T # {} PROVE Min(T) \in T /\ \A y \in T : Min(T) <= y
  <2>1. T \subseteq Nat
    BY <1>4
  <2>2. \E x \in T : \A y \in T : x <= y
    BY <1>5, <2>1, Least
  <2> QED BY <2>2 DEF Min
<1>6. k # 0 => k \in T /\ \A y \in T : k <= y
  BY <1>3, <1>5
<1> HIDE DEF T
<1>7. \A j : j \in T <=> j \in 1 .. 22 /\ Fits(j, i, m, n, p)
  BY <1>4
<1>8. k # 0 => /\ k \in 1 .. 22 /\ Fits(k, i, m, n, p)
               /\ \A j \in 1 .. 22 : Fits(j, i, m, n, p) => k <= j
  BY <1>6, <1>7, Zenon
<1> QED BY <1>8 DEF k

(* What the table has: the low bits of a postbyte tell the kind of offset,   *)
LowOf(off) ==
    CASE off = "zero" -> 4 [] off = "B" -> 5 [] off = "A" -> 6 [] off = "E" -> 7
      [] off = "8bit" -> 8 [] off = "16bit" -> 9 [] off = "F" -> 10 [] off = "D" -> 11
      [] off = "W" -> 14

(* or the step; register W has postbytes of its own.                         *)
Steps == {"postinc", "postinc2", "predec", "predec2"}
LowOfStep(attr) ==
    CASE attr = "postinc" -> 0 [] attr = "postinc2" -> 1 [] attr = "predec" -> 2
      [] attr = "predec2" -> 3

Offset5(r) == /\ r.idx = "xyus" /\ r.attr = "none" /\ r.off = "5bit"
              /\ r.postbyte = 0 /\ r.indirect = "impossible"
Shifted(r) == /\ r.idx = "xyus" /\ r.attr = "none" /\ r.off \in {"zero", "8bit", "16bit"}
              /\ r.postbyte = 128 + LowOf(r.off) /\ r.indirect = "ok"
ByIndex(r) == /\ r.idx = "xyus" /\ r.attr = "none" /\ r.off \in {"A", "B", "D", "E", "F", "W"}
              /\ r.postbyte = 128 + LowOf(r.off) /\ r.indirect = "ok"
Stepped(r) == /\ r.idx = "xyus" /\ r.attr \in Steps /\ r.off \in {"none", "zero"}
              /\ r.postbyte = 128 + LowOfStep(r.attr) /\ r.indirect \in {"ok", "illegal"}
              /\ r.attr = "postinc" => r.indirect = "illegal"
Distance(r) == /\ r.idx = "pcr" /\ r.attr = "none" /\ r.off \in {"8bit", "16bit"}
               /\ r.postbyte = 132 + LowOf(r.off) /\ r.indirect = "ok"
OfW(r) == /\ r.idx = "w" /\ r.indirect = "6309"
          /\ \/ r.attr = "none" /\ r.off = "none" /\ r.postbyte = 143
             \/ r.attr = "none" /\ r.off = "16bit" /\ r.postbyte = 175
             \/ r.attr = "postinc2" /\ r.off = "none" /\ r.postbyte = 207
             \/ r.attr = "predec2" /\ r.off = "none" /\ r.postbyte = 239

Row(k) == Mode(IndexedModes[k])

LEMMA TableRows ==
    ASSUME NEW k \in 1 .. 22
    PROVE  \/ Offset5(Row(k)) \/ Shifted(Row(k)) \/ ByIndex(Row(k)) \/ Stepped(Row(k))
           \/ Distance(Row(k)) \/ OfW(Row(k))
<1> USE DEF Row, Mode, IndexedModes
<1>1. Shifted(Row(1))
  BY DEF Shifted, LowOf
<1>2. Offset5(Row(2))
  BY DEF Offset5
<1>3. Shifted(Row(3))
  BY DEF Shifted, LowOf
<1>4. Shifted(Row(4))
  BY DEF Shifted, LowOf
<1>5. ByIndex(Row(5))
  BY DEF ByIndex, LowOf
<1>6. ByIndex(Row(6))
  BY DEF ByIndex, LowOf
<1>7. ByIndex(Row(7))
  BY DEF ByIndex, LowOf
<1>8. Stepped(Row(8))
  BY DEF Stepped, LowOfStep, Steps
<1>9. Stepped(Row(9))
  BY DEF Stepped, LowOfStep, Steps
<1>10. Stepped(Row(10))
  BY DEF Stepped, LowOfStep, Steps
<1>11. Stepped(Row(11))
  BY DEF Stepped, LowOfStep, Steps
<1>12. Stepped(Row(12))
  BY DEF Stepped, LowOfStep, Steps
<1>13. Stepped(Row(13))
  BY DEF Stepped, LowOfStep, Steps
<1>14. Distance(Row(14))
  BY DEF Distance, LowOf
<1>15. Distance(Row(15))
  BY DEF Distance, LowOf
<1>16. ByIndex(Row(16))
  BY DEF ByIndex, LowOf
<1>17. ByIndex(Row(17))
  BY DEF ByIndex, LowOf
<1>18. ByIndex(Row(18))
  BY DEF ByIndex, LowOf
<1>19. OfW(Row(19))
  BY DEF OfW
<1>20. OfW(Row(20))
  BY DEF OfW
<1>21. OfW(Row(21))
  BY DEF OfW
<1>22. OfW(Row(22))
  BY DEF OfW
<1> HIDE DEF Row, Mode, IndexedModes
<1> QED BY <1>1, <1>2, <1>3, <1>4, <1>5, <1>6, <1>7, <1>8, <1>9, <1>10, <1>11,
           <1>12, <1>13, <1>14, <1>15, <1>16, <1>17, <1>18, <1>19, <1>20, <1>21, <1>22

(* The parts of a postbyte.                                                  *)
HighByte(k, j, low) == 128 + low + 32 * k + 16 * j

PartsOf(pb, k, j, low) ==
    /\ pb \in Int /\ pb >= 128 /\ ~(pb < 128) /\ pb % 16 = low
    /\ (pb \div 32) % 4 = k /\ (pb \div 16) % 2 = j
    /\ WMode(pb) => (low = 15 /\ j = 0) \/ (low = 0 /\ j = 1)

LEMMA PostbyteParts ==
    ASSUME NEW k \in 0 .. 3, NEW j \in 0 .. 1, NEW low \in 0 .. 15,
           NEW pb, pb = HighByte(k, j, low)
    PROVE  PartsOf(pb, k, j, low)
<1>0. pb = 128 + low + 32 * k + 16 * j
  BY DEF HighByte
<1>1. pb \in Int /\ pb >= 128 /\ pb % 16 = low /\ (pb \div 16) = 8 + 2 * k + j
      /\ (pb \div 32) = 4 + k
  BY <1>0
<1>2. (pb \div 32) % 4 = k
  BY <1>1
<1>3. (pb \div 16) % 2 = j
  BY <1>1
<1>4. WMode(pb) => (low = 15 /\ j = 0) \/ (low = 0 /\ j = 1)
  BY <1>0 DEF WMode
<1> QED BY <1>1, <1>2, <1>3, <1>4 DEF PartsOf

(* A postbyte with its top bit set, read again.                              *)
After(low) == CASE low \in {8, 12} -> 1 [] low \in {9, 13} -> 2 [] OTHER -> 0

HighRead(d, bytes, base, low, i) ==
    /\ low = 0 => d = Place(base, "postinc", "none", 0, i)
    /\ low = 1 => d = Place(base, "postinc2", "none", 0, i)
    /\ low = 2 => d = Place(base, "predec", "none", 0, i)
    /\ low = 3 => d = Place(base, "predec2", "none", 0, i)
    /\ low = 4 => d = Place(base, "none", "none", 0, i)
    /\ low = 5 => d = Place(base, "none", "B", 0, i)
    /\ low = 6 => d = Place(base, "none", "A", 0, i)
    /\ low = 7 => d = Place(base, "none", "E", 0, i)
    /\ low = 8 => d = Place(base, "none", "none", Signed8(bytes[2]), i)
    /\ low = 9 => d = Place(base, "none", "none", Signed16(bytes[2], bytes[3]), i)
    /\ low = 10 => d = Place(base, "none", "F", 0, i)
    /\ low = 11 => d = Place(base, "none", "D", 0, i)
    /\ low = 12 => d = Place("PC", "none", "none", Signed8(bytes[2]), i)
    /\ low = 13 => d = Place("PC", "none", "none", Signed16(bytes[2], bytes[3]), i)
    /\ low = 14 => d = Place(base, "none", "W", 0, i)

LEMMA DecodedHigh ==
    ASSUME NEW k \in 0 .. 3, NEW j \in 0 .. 1, NEW low \in 0 .. 14, low = 0 => j = 0,
           NEW bytes, bytes[1] = HighByte(k, j, low), Len(bytes) = 1 + After(low)
    PROVE  HighRead(Decoded(bytes), bytes, <<"X", "Y", "U", "S">>[k + 1], low, j = 1)
<1> DEFINE pb == HighByte(k, j, low)
           base == <<"X", "Y", "U", "S">>[k + 1]
           baseOf == <<"X", "Y", "U", "S">>[((pb \div 32) % 4) + 1]
           i == (pb \div 16) % 2 = 1
           l == pb % 16
           s8 == Signed8(bytes[2])
           s16 == Signed16(bytes[2], bytes[3])
<1>1. /\ pb >= 128 /\ ~(pb < 128) /\ l = low
      /\ (pb \div 32) % 4 = k /\ (pb \div 16) % 2 = j
      /\ ~WMode(pb)
  <2>1. low \in 0 .. 15 /\ low # 15
    OBVIOUS
  <2>2. /\ pb >= 128 /\ ~(pb < 128) /\ l = low
        /\ (pb \div 32) % 4 = k /\ (pb \div 16) % 2 = j
        /\ WMode(pb) => (low = 15 /\ j = 0) \/ (low = 0 /\ j = 1)
    <3>1. low \in 0 .. 15 /\ pb = HighByte(k, j, low)
      BY <2>1
    <3> HIDE DEF pb
    <3>2. PartsOf(pb, k, j, low)
      BY <3>1, PostbyteParts
    <3> QED BY <3>2 DEF PartsOf
  <2> HIDE DEF pb, l
  <2> QED BY <2>1, <2>2
<1>2. bytes[1] = pb
  OBVIOUS
<1> HIDE DEF pb
<1>3. OffsetBytes(pb) = After(low)
  BY <1>1 DEF OffsetBytes, After
<1>4. Decoded(bytes) =
          CASE l = 0  -> Place(baseOf, "postinc", "none", 0, i)
            [] l = 1  -> Place(baseOf, "postinc2", "none", 0, i)
            [] l = 2  -> Place(baseOf, "predec", "none", 0, i)
            [] l = 3  -> Place(baseOf, "predec2", "none", 0, i)
            [] l = 4  -> Place(baseOf, "none", "none", 0, i)
            [] l = 5  -> Place(baseOf, "none", "B", 0, i)
            [] l = 6  -> Place(baseOf, "none", "A", 0, i)
            [] l = 7  -> Place(baseOf, "none", "E", 0, i)
            [] l = 8  -> Place(baseOf, "none", "none", s8, i)
            [] l = 9  -> Place(baseOf, "none", "none", s16, i)
            [] l = 10 -> Place(baseOf, "none", "F", 0, i)
            [] l = 11 -> Place(baseOf, "none", "D", 0, i)
            [] l = 12 -> Place("PC", "none", "none", s8, i)
            [] l = 13 -> Place("PC", "none", "none", s16, i)
            [] l = 14 -> Place(baseOf, "none", "W", 0, i)
            [] l = 15 -> Place("none", "none", "none", s16, i)
  <2>1. Decoded(bytes) = DecodedXyus(bytes)
    BY <1>1, <1>2, <1>3 DEF Decoded
  <2> QED BY <1>2, <2>1 DEF DecodedXyus
<1>5. baseOf = base /\ i = (j = 1)
  BY <1>1
<1> HIDE DEF l, i, base, baseOf, s8, s16
<1> DEFINE d == Decoded(bytes)
<1>6. /\ low = 0 => d = Place(base, "postinc", "none", 0, j = 1)
      /\ low = 1 => d = Place(base, "postinc2", "none", 0, j = 1)
      /\ low = 2 => d = Place(base, "predec", "none", 0, j = 1)
      /\ low = 3 => d = Place(base, "predec2", "none", 0, j = 1)
  BY <1>1, <1>4, <1>5, SMTT(40)
<1>8. /\ low = 4 => d = Place(base, "none", "none", 0, j = 1)
      /\ low = 5 => d = Place(base, "none", "B", 0, j = 1)
      /\ low = 6 => d = Place(base, "none", "A", 0, j = 1)
      /\ low = 7 => d = Place(base, "none", "E", 0, j = 1)
  BY <1>1, <1>4, <1>5, SMTT(40)
<1>7. /\ low = 8 => d = Place(base, "none", "none", s8, j = 1)
      /\ low = 9 => d = Place(base, "none", "none", s16, j = 1)
      /\ low = 10 => d = Place(base, "none", "F", 0, j = 1)
      /\ low = 11 => d = Place(base, "none", "D", 0, j = 1)
      /\ low = 12 => d = Place("PC", "none", "none", s8, j = 1)
      /\ low = 13 => d = Place("PC", "none", "none", s16, j = 1)
      /\ low = 14 => d = Place(base, "none", "W", 0, j = 1)
  BY <1>1, <1>4, <1>5, SMTT(40)
<1> HIDE DEF d
<1> QED BY <1>6, <1>7, <1>8 DEF HighRead, d, base, s8, s16

(* A postbyte of 5 bits of offset.                                           *)
LEMMA DecodedLow ==
    ASSUME NEW k \in 0 .. 3, NEW v \in -16 .. 15, NEW bytes,
           bytes[1] = 32 * k + (v % 32), Len(bytes) = 1
    PROVE  Decoded(bytes) = Place(<<"X", "Y", "U", "S">>[k + 1], "none", "none", v, FALSE)
<1> DEFINE pb == 32 * k + (v % 32)
<1>1. /\ pb \in Int /\ pb < 128 /\ ~(pb >= 128) /\ pb % 32 = v % 32 /\ (pb \div 32) % 4 = k
      /\ v = (IF v % 32 < 16 THEN v % 32 ELSE (v % 32) - 32)
  OBVIOUS
<1>2. bytes[1] = pb
  OBVIOUS
<1> HIDE DEF pb
<1>3. OffsetBytes(pb) = 0
  BY <1>1 DEF OffsetBytes
<1> DEFINE n == pb % 32
<1>4. Decoded(bytes) =
         Place(<<"X", "Y", "U", "S">>[((pb \div 32) % 4) + 1], "none", "none",
               IF n < 16 THEN n ELSE n - 32, FALSE)
  <2>1. ~(Len(bytes) # 1 + OffsetBytes(pb)) /\ Len(bytes) = 1 + OffsetBytes(pb)
    BY <1>3
  <2> QED BY <1>1, <1>2, <2>1 DEF Decoded
<1>5. (IF n < 16 THEN n ELSE n - 32) = v
  BY <1>1
<1> QED BY <1>1, <1>4, <1>5

(* The postbytes of register W.                                              *)
LEMMA DecodedOfW ==
    ASSUME NEW bytes, NEW i \in BOOLEAN, NEW pb \in {143, 175, 207, 239},
           bytes[1] = pb + (IF i THEN 1 ELSE 0),
           Len(bytes) = IF pb = 175 THEN 3 ELSE 1
    PROVE  Decoded(bytes) =
               CASE pb = 143 -> Place("W", "none", "none", 0, i)
                 [] pb = 175 -> Place("W", "none", "none", Signed16(bytes[2], bytes[3]), i)
                 [] pb = 207 -> Place("W", "postinc2", "none", 0, i)
                 [] pb = 239 -> Place("W", "predec2", "none", 0, i)
<1> DEFINE q == pb + (IF i THEN 1 ELSE 0)
           s == Signed16(bytes[2], bytes[3])
<1>1. /\ q \in Int /\ q >= 128 /\ ~(q < 128) /\ WMode(q) /\ (q % 2 = 0) = i
      /\ pb = 175 <=> q \in {175, 176}
  BY DEF WMode
<1>2. /\ pb = 143 => (q \div 32) % 4 = 0
      /\ pb = 175 => (q \div 32) % 4 = 1
      /\ pb = 207 => (q \div 32) % 4 = 2
      /\ pb = 239 => (q \div 32) % 4 = 3
  OBVIOUS
<1>3. bytes[1] = q
  OBVIOUS
<1> HIDE DEF q
<1>4. OffsetBytes(q) = IF pb = 175 THEN 2 ELSE 0
  BY <1>1 DEF OffsetBytes
<1>5. Len(bytes) = 1 + OffsetBytes(q)
  BY <1>4
<1>6. Decoded(bytes) = DecodedW(bytes)
  BY <1>1, <1>3, <1>5 DEF Decoded
<1> DEFINE k == (q \div 32) % 4
<1>7. DecodedW(bytes) = CASE k = 0 -> Place("W", "none", "none", 0, i)
                          [] k = 1 -> Place("W", "none", "none", s, i)
                          [] k = 2 -> Place("W", "postinc2", "none", 0, i)
                          [] k = 3 -> Place("W", "predec2", "none", 0, i)
  BY <1>1, <1>3 DEF DecodedW
<1> HIDE DEF s, k
<1>8. CASE pb = 143
  BY <1>2, <1>6, <1>7, <1>8 DEF k
<1>9. CASE pb = 175
  BY <1>2, <1>6, <1>7, <1>9 DEF k, s
<1>10. CASE pb = 207
  BY <1>2, <1>6, <1>7, <1>10 DEF k
<1>11. CASE pb = 239
  BY <1>2, <1>6, <1>7, <1>11 DEF k
<1> QED BY <1>8, <1>9, <1>10, <1>11

(* The registers that share rows.                                            *)
LEMMA Xyus ==
    ASSUME NEW r \in DOMAIN IdxType, IdxType[r] = "xyus"
    PROVE  /\ r # "PCR"
           /\ \E k \in 0 .. 3 : IdxSelect[r] = 32 * k /\ <<"X", "Y", "U", "S">>[k + 1] = r
<1>1. r \in {"X", "Y", "U", "S"}
  BY DEF IdxType
<1>2. CASE r = "X"
  <2>1. IdxSelect[r] = 32 * 0 /\ <<"X", "Y", "U", "S">>[0 + 1] = r
    BY <1>2 DEF IdxSelect
  <2> QED BY <1>2, <2>1
<1>3. CASE r = "Y"
  <2>1. IdxSelect[r] = 32 * 1 /\ <<"X", "Y", "U", "S">>[1 + 1] = r
    BY <1>3 DEF IdxSelect
  <2> QED BY <1>3, <2>1
<1>4. CASE r = "U"
  <2>1. IdxSelect[r] = 32 * 2 /\ <<"X", "Y", "U", "S">>[2 + 1] = r
    BY <1>4 DEF IdxSelect
  <2> QED BY <1>4, <2>1
<1>5. CASE r = "S"
  <2>1. IdxSelect[r] = 32 * 3 /\ <<"X", "Y", "U", "S">>[3 + 1] = r
    BY <1>5 DEF IdxSelect
  <2> QED BY <1>5, <2>1
<1> QED BY <1>1, <1>2, <1>3, <1>4, <1>5

LEMMA OtherRegisters ==
    ASSUME NEW r \in DOMAIN IdxType
    PROVE  /\ IdxType[r] = "w" => r = "W" /\ IdxSelect[r] = 0
           /\ IdxType[r] = "pcr" => r \in {"PC", "PCR"} /\ IdxSelect[r] = 0
BY DEF IdxType, IdxSelect

(* What is known of an offset from the kind of row it was found to fit: it   *)
(* is the register named, or a number that the row has bits for.             *)
NotCut(m, pcr, end) ==
    m.attr \in Coercions =>
        /\ m.type \in {"int", "empty"}
        /\ (IF pcr THEN ToRel16(Stated(m) - end) ELSE Stated(m)) \in Fitting[m.attr]

Indexes == {"A", "B", "D", "E", "F", "W"}

Kinds(off, pcr, m, p) ==
    /\ off \in Indexes => m.type = "reg" /\ m.as_reg = off
    /\ off \notin Indexes => m.type \in {"int", "empty"}
    /\ Stated(m) \in Int
    /\ off \in {"zero", "none"} => Stated(m) = 0
    /\ off = "5bit" /\ ~pcr => Stated(m) \in -16 .. 15
    /\ off = "8bit" => (IF pcr THEN ToRel16(Stated(m) - (p + 2)) ELSE Stated(m)) \in -128 .. 127

LEMMA OffsetKinds ==
    ASSUME NEW off, NEW pcr \in BOOLEAN, NEW m, NEW p \in Int,
           OffCompatible(off, pcr, m, p),
           m.type = "int" => m.as_int \in Int,
           off = "8bit" => NotCut(m, pcr, p + 2),
           off # "8bit" => \E end : NotCut(m, pcr, end),
           pcr => m.type # "empty"
    PROVE  Kinds(off, pcr, m, p)
<1>0. Fitting["5bit"] = -16 .. 15 /\ Fitting["8bit"] = -128 .. 127
  BY DEF Fitting, Coercions
<1>1. Stated(m) \in Int /\ (m.type = "int" => Stated(m) = m.as_int) /\ (m.type # "int" => Stated(m) = 0)
  BY DEF Stated
<1> DEFINE v == Stated(m)
<1>2. CASE m.attr # "none"
  <2>1. m.attr \in Coercions /\ off = m.attr
    BY <1>2 DEF OffCompatible
  <2>2. m.type \in {"int", "empty"}
    BY <2>1 DEF NotCut
  <2>3. off = "5bit" /\ ~pcr => v \in -16 .. 15
    BY <1>0, <2>1 DEF NotCut
  <2>4. off = "8bit" => (IF pcr THEN ToRel16(v - (p + 2)) ELSE v) \in -128 .. 127
    BY <1>0, <2>1 DEF NotCut
  <2>5. off \notin Indexes /\ off \notin {"zero", "none"}
    BY <2>1 DEF Coercions, Indexes
  <2> QED BY <1>1, <2>2, <2>3, <2>4, <2>5 DEF Kinds
<1>3. CASE m.attr = "none"
  <2>1. \/ m.type = "empty" /\ off \in {"none", "zero"} \cup Coercions
        \/ /\ m.type = "int"
           /\ \/ off = "zero" /\ m.as_int = 0
              \/ off = "5bit" /\ m.as_int \in -16 .. 15
              \/ off = "8bit" /\ OffsetFits(m.as_int, pcr, p)
              \/ off = "16bit"
        \/ m.type = "reg" /\ off = m.as_reg /\ off \in Indexes
    BY <1>3 DEF OffCompatible, Indexes
  <2>2. CASE m.type = "empty" /\ off \in {"none", "zero"} \cup Coercions
    BY <1>1, <2>2 DEF Kinds, Coercions, Indexes
  <2>3. CASE m.type = "int" /\ off \in {"zero", "5bit", "16bit"}
    BY <1>1, <2>1, <2>3 DEF Kinds, Indexes
  <2>4. CASE m.type = "int" /\ off = "8bit"
    <3>1. OffsetFits(v, pcr, p)
      BY <1>1, <2>1, <2>4
    <3>2. (IF pcr THEN ToRel16(v - (p + 2)) ELSE v) \in -128 .. 127
      BY <3>1 DEF OffsetFits
    <3> QED BY <1>1, <2>4, <3>2 DEF Kinds, Indexes
  <2>5. CASE m.type = "reg"
    BY <1>1, <2>1, <2>5 DEF Kinds, Indexes
  <2> QED BY <2>1, <2>2, <2>3, <2>4, <2>5
<1> QED BY <1>2, <1>3

(* The bytes of an indexed operand: the postbyte, and what the row has.      *)
TailOf(off, v) ==
    CASE off = "8bit" -> Uint8(v) [] off = "16bit" -> Uint16(v) [] OTHER -> <<>>

CodedAs(bytes, off, pb, v) ==
    /\ bytes \in Seq(Int) /\ bytes[1] = pb
    /\ off \notin {"8bit", "16bit"} => Len(bytes) = 1
    /\ off = "8bit" => Len(bytes) = 2 /\ bytes[2] = v % 256
    /\ off = "16bit" => Len(bytes) = 3 /\ bytes[2] = Uint16(v)[1] /\ bytes[3] = Uint16(v)[2]

Prepended(b, a, w) ==
    /\ b \in Seq(Int) /\ Len(b) = 1 + Len(w) /\ b[1] = a
    /\ \A i \in 1 .. Len(w) : b[i + 1] = w[i]

LEMMA Joins ==
    ASSUME NEW a \in Int, NEW w \in Seq(Int), NEW b, b = <<a>> \o w
    PROVE  Prepended(b, a, w)
BY DEF Prepended

LEMMA Coded ==
    ASSUME NEW pb \in Int, NEW v \in Int, NEW off,
           NEW b, b = <<pb>> \o TailOf(off, v)
    PROVE  CodedAs(b, off, pb, v)
<1> DEFINE w == TailOf(off, v)
<1>1. /\ w \in Seq(Int)
      /\ off \notin {"8bit", "16bit"} => Len(w) = 0
      /\ off = "8bit" => Len(w) = 1 /\ w[1] = v % 256
      /\ off = "16bit" => Len(w) = 2 /\ w = Uint16(v)
  <2>1. CASE off \notin {"8bit", "16bit"}
    BY <2>1 DEF TailOf
  <2>2. CASE off = "8bit"
    <3> DEFINE x == v % 256
    <3>1. w = <<x>> /\ x \in Int
      BY <2>2 DEF TailOf, Uint8
    <3> HIDE DEF x
    <3>2. w \in Seq(Int) /\ Len(w) = 1 /\ w[1] = x
      BY <3>1
    <3> QED BY <2>2, <3>2 DEF x
  <2>3. CASE off = "16bit"
    BY <2>3, Word16 DEF TailOf
  <2> QED BY <2>1, <2>2, <2>3
<1>2. b = <<pb>> \o w
  OBVIOUS
<1> HIDE DEF w
<1>3. /\ b \in Seq(Int) /\ Len(b) = 1 + Len(w) /\ b[1] = pb
      /\ \A i \in 1 .. Len(w) : b[i + 1] = w[i]
  <2>1. w \in Seq(Int)
    BY <1>1
  <2>2. Prepended(b, pb, w)
    BY <1>2, <2>1, Joins, Zenon
  <2> QED BY <2>2, Zenon DEF Prepended
<1>4. off \notin {"8bit", "16bit"} => Len(b) = 1
  BY <1>1, <1>3
<1>5. off = "8bit" => Len(b) = 2 /\ b[2] = v % 256
  <2> SUFFICES ASSUME off = "8bit" PROVE Len(b) = 2 /\ b[2] = v % 256
    OBVIOUS
  <2>1. Len(w) = 1 /\ w[1] = v % 256
    BY <1>1
  <2>2. b[1 + 1] = w[1]
    BY <1>3, <2>1
  <2> QED BY <1>3, <2>1, <2>2
<1>6. off = "16bit" => Len(b) = 3 /\ b[2] = Uint16(v)[1] /\ b[3] = Uint16(v)[2]
  <2> SUFFICES ASSUME off = "16bit"
               PROVE  Len(b) = 3 /\ b[2] = Uint16(v)[1] /\ b[3] = Uint16(v)[2]
    OBVIOUS
  <2>1. Len(w) = 2 /\ w = Uint16(v)
    BY <1>1
  <2>2. b[1 + 1] = w[1] /\ b[2 + 1] = w[2]
    BY <1>3, <2>1
  <2> QED BY <1>3, <2>1, <2>2
<1> QED BY <1>3, <1>4, <1>5, <1>6 DEF CodedAs

LEMMA SameSelf ==
    ASSUME NEW x \in Int
    PROVE  Same(x, x)
BY DEF Same

(* A distance that fits a byte, or is put into two, ends at the address.     *)
LEMMA NearDistance ==
    ASSUME NEW v \in Int, NEW end \in Int, ToRel16(v - end) \in -128 .. 127
    PROVE  Same(end + Signed8((v - end) % 256), v)
<1> DEFINE x == v - end
           r == ToRel16(x)
<1>1. x \in Int /\ r \in Int /\ Same(r, x)
  <2>1. x \in Int
    OBVIOUS
  <2> HIDE DEF x
  <2> QED BY <2>1, Wrapped
<1>2. x % 256 = r % 256
  <2> HIDE DEF x, r
  <2> QED BY <1>1 DEF Same
<1>3. -128 <= r /\ r <= 127
  <2>1. r \in -128 .. 127
    OBVIOUS
  <2> HIDE DEF r
  <2> QED BY <1>1, <2>1
<1>4. Signed8(x % 256) = r
  <2> HIDE DEF x, r
  <2> QED BY <1>1, <1>2, <1>3, Byte8
<1>5. end + r - v = r - x
  <2> HIDE DEF r
  <2> QED BY <1>1
<1>6. Same(end + r, v)
  <2> HIDE DEF x, r
  <2> QED BY <1>1, <1>5, SameDistance
<1> QED BY <1>4, <1>6

LEMMA FarDistance ==
    ASSUME NEW v \in Int, NEW end \in Int
    PROVE  Same(end + Signed16(Uint16(v - end)[1], Uint16(v - end)[2]), v)
<1> DEFINE x == v - end
           s == Signed16(Uint16(x)[1], Uint16(x)[2])
<1>1. x \in Int
  OBVIOUS
<1>2. s \in Int /\ Same(s, x)
  <2> HIDE DEF x
  <2> QED BY <1>1, Word16
<1>3. end + s - v = s - x
  <2> HIDE DEF s
  <2> QED BY <1>2
<1>4. Same(end + s, v)
  <2> HIDE DEF x, s
  <2> QED BY <1>2, <1>3, SameDistance
<1> QED BY <1>4

-----------------------------------------------------------------------------
(* What IndexedKept says of an operand's bytes.                              *)
Written(code, i, m, n, p) ==
    LET d   == Decoded(code)
        pcr == n.as_reg = "PCR"
    IN  /\ d.base = (IF pcr THEN "PC" ELSE n.as_reg)
        /\ d.step = n.attr
        /\ d.index = (IF m.type = "reg" THEN m.as_reg ELSE "none")
        /\ d.indirect = i
        /\ Same(IF pcr THEN p + Len(code) + d.offset ELSE d.offset, Stated(m))

(* What is known of a row that was chosen, and of the bytes it gave.         *)
Chosen(r, code, i, m, n, p) ==
    /\ i \in BOOLEAN /\ p \in Int
    /\ m.type = "int" => m.as_int \in Int
    /\ n.as_reg \in DOMAIN IdxType
    /\ r.idx = IdxType[n.as_reg] /\ r.attr = n.attr
    /\ OffCompatible(r.off, n.as_reg = "PCR", m, p)
    /\ ~(i /\ r.indirect \in {"impossible", "illegal"})
    /\ n.as_reg = "PCR" => m.type # "empty" /\ ~(m.type = "int" /\ m.as_int = 0 /\ m.attr = "none")
    /\ NotCut(m, n.as_reg = "PCR", p + Len(code))
    /\ LET v == Offset(r.off, m, n, p)
       IN  code = <<Postbyte(r, i, v, n)>> \o TailOf(r.off, v)

(* The offset of a row with a base register is what was stated; ...          *)
LEMMA PlainOffset ==
    ASSUME NEW r, NEW code, NEW i, NEW m, NEW n, NEW p, Chosen(r, code, i, m, n, p),
           n.as_reg # "PCR", NEW pb \in Int, pb = Postbyte(r, i, Offset(r.off, m, n, p), n)
    PROVE  /\ Offset(r.off, m, n, p) = Stated(m) /\ Stated(m) \in Int
           /\ CodedAs(code, r.off, pb, Stated(m))
           /\ r.off \in Indexes => m.type = "reg" /\ m.as_reg = r.off
           /\ r.off \notin Indexes => m.type \in {"int", "empty"}
           /\ r.off \in {"zero", "none"} => Stated(m) = 0
           /\ r.off = "5bit" => Stated(m) \in -16 .. 15
           /\ r.off = "8bit" => Stated(m) \in -128 .. 127
<1> DEFINE v == Offset(r.off, m, n, p)
<1>1. v = Stated(m) /\ v \in Int
  BY DEF Offset, Stated, Chosen
<1>2. CodedAs(code, r.off, pb, v)
  <2>1. code = <<pb>> \o TailOf(r.off, v)
    BY DEF Chosen
  <2> HIDE DEF v
  <2> QED BY <1>1, <2>1, Coded
<1>3. /\ p \in Int /\ OffCompatible(r.off, FALSE, m, p)
      /\ m.type = "int" => m.as_int \in Int
      /\ NotCut(m, FALSE, p + Len(code))
  BY DEF Chosen
<1>4. r.off = "8bit" => NotCut(m, FALSE, p + 2)
  BY <1>2, <1>3 DEF CodedAs
<1>5. /\ r.off \in Indexes => m.type = "reg" /\ m.as_reg = r.off
      /\ r.off \notin Indexes => m.type \in {"int", "empty"}
      /\ r.off \in {"zero", "none"} => Stated(m) = 0
      /\ r.off = "5bit" => Stated(m) \in -16 .. 15
      /\ r.off = "8bit" => Stated(m) \in -128 .. 127
  <2>1. Kinds(r.off, FALSE, m, p)
    BY <1>3, <1>4, OffsetKinds
  <2> QED BY <2>1 DEF Kinds
<1> HIDE DEF v
<1> QED BY <1>1, <1>2, <1>5 DEF v

(* ... the rows with a base register, by what they add to it.                *)
LEMMA XyusPostbyte ==
    ASSUME NEW r, NEW i \in BOOLEAN, NEW v \in Int, NEW n, n.as_reg \in DOMAIN IdxType,
           IdxType[n.as_reg] = "xyus", r.idx = "xyus", r.off # "5bit",
           NEW low \in 0 .. 14, r.postbyte = 128 + low, r.indirect # "6309"
    PROVE  \E k \in 0 .. 3 :
               /\ <<"X", "Y", "U", "S">>[k + 1] = n.as_reg
               /\ Postbyte(r, i, v, n) = HighByte(k, IF i THEN 1 ELSE 0, low)
<1>1. PICK k \in 0 .. 3 : IdxSelect[n.as_reg] = 32 * k /\ <<"X", "Y", "U", "S">>[k + 1] = n.as_reg
  BY Xyus
<1> DEFINE j == IF i THEN 1 ELSE 0
<1>2. Postbyte(r, i, v, n) = (128 + low) + (32 * k) + 0 + (16 * j)
  BY <1>1 DEF Postbyte
<1>3. j \in Int
  OBVIOUS
<1> HIDE DEF j
<1>4. Postbyte(r, i, v, n) = HighByte(k, j, low)
  BY <1>2, <1>3 DEF HighByte
<1> QED BY <1>1, <1>4 DEF j

(* The bytes of such a row, read again.                                      *)
LEMMA XyusRead ==
    ASSUME NEW r, NEW code, NEW i, NEW m, NEW n, NEW p, Chosen(r, code, i, m, n, p),
           r.idx = "xyus", r.off # "5bit", NEW low \in 0 .. 11 \cup {14}, r.postbyte = 128 + low,
           r.indirect # "6309", low = 0 => r.indirect = "illegal",
           low = 8 <=> r.off = "8bit", low = 9 <=> r.off = "16bit"
    PROVE  /\ HighRead(Decoded(code), code, n.as_reg, low, i)
           /\ n.as_reg # "PCR" /\ code \in Seq(Int)
           /\ low = 8 => Signed8(code[2]) = Stated(m)
           /\ low = 9 => Same(Signed16(code[2], code[3]), Stated(m))
           /\ r.off \in Indexes => m.type = "reg" /\ m.as_reg = r.off
           /\ r.off \notin Indexes => m.type \in {"int", "empty"}
           /\ r.off \in {"zero", "none"} => Stated(m) = 0
           /\ m.type = "reg" => Stated(m) = 0
<1> DEFINE v == Offset(r.off, m, n, p)
           pb == Postbyte(r, i, v, n)
           j == IF i THEN 1 ELSE 0
<1>1. /\ i \in BOOLEAN /\ p \in Int /\ n.as_reg \in DOMAIN IdxType /\ IdxType[n.as_reg] = "xyus"
      /\ ~(i /\ r.indirect = "illegal")
  BY DEF Chosen
<1>2. n.as_reg # "PCR"
  BY <1>1, Xyus
<1>3. v \in Int
  BY <1>2 DEF Offset, Stated, Chosen
<1> HIDE DEF v
<1>4. PICK k \in 0 .. 3 : <<"X", "Y", "U", "S">>[k + 1] = n.as_reg /\ pb = HighByte(k, j, low)
  <2>1. low \in 0 .. 14
    OBVIOUS
  <2> HIDE DEF pb
  <2> QED BY <1>1, <1>3, <2>1, XyusPostbyte DEF pb
<1> HIDE DEF pb
<1>5. j \in 0 .. 1 /\ (j = 1) = i /\ (low = 0 => j = 0)
  BY <1>1
<1> HIDE DEF j
<1>6. pb \in Int
  BY <1>4, <1>5 DEF HighByte
<1>7. /\ Stated(m) \in Int /\ CodedAs(code, r.off, pb, Stated(m))
      /\ r.off \in Indexes => m.type = "reg" /\ m.as_reg = r.off
      /\ r.off \notin Indexes => m.type \in {"int", "empty"}
      /\ r.off \in {"zero", "none"} => Stated(m) = 0
      /\ r.off = "8bit" => Stated(m) \in -128 .. 127
  BY <1>2, <1>6, PlainOffset DEF pb, v
<1>8. code[1] = HighByte(k, j, low) /\ Len(code) = 1 + After(low) /\ code \in Seq(Int)
  BY <1>4, <1>7 DEF CodedAs, After
<1>9. HighRead(Decoded(code), code, n.as_reg, low, i)
  <2>1. low \in 0 .. 14
    OBVIOUS
  <2>2. HighRead(Decoded(code), code, <<"X", "Y", "U", "S">>[k + 1], low, j = 1)
    BY <1>5, <1>8, <2>1, DecodedHigh
  <2> QED BY <1>4, <1>5, <2>2
<1>10. low = 8 => Signed8(code[2]) = Stated(m)
  <2> SUFFICES ASSUME low = 8 PROVE Signed8(code[2]) = Stated(m)
    OBVIOUS
  <2>1. code[2] = Stated(m) % 256
    BY <1>7 DEF CodedAs
  <2>2. -128 <= Stated(m) /\ Stated(m) <= 127
    BY <1>7
  <2> QED BY <1>7, <2>1, <2>2, Byte8
<1>11. low = 9 => Same(Signed16(code[2], code[3]), Stated(m))
  BY <1>7, Word16 DEF CodedAs
<1>12. m.type = "reg" => Stated(m) = 0
  BY DEF Stated
<1> QED BY <1>2, <1>7, <1>8, <1>9, <1>10, <1>11, <1>12

LEMMA ShiftedRead ==
    ASSUME NEW r, NEW code, NEW i, NEW m, NEW n, NEW p, Chosen(r, code, i, m, n, p), Shifted(r)
    PROVE  code \in Seq(Int) /\ Written(code, i, m, n, p)
<1> DEFINE low == LowOf(r.off)
           d == Decoded(code)
<1>1. /\ low \in 0 .. 11 \cup {14} /\ low # 0 /\ r.idx = "xyus" /\ r.off # "5bit"
      /\ r.postbyte = 128 + low /\ r.indirect # "6309"
      /\ low = 8 <=> r.off = "8bit"
      /\ low = 9 <=> r.off = "16bit"
      /\ low = 4 <=> r.off = "zero"
      /\ low \in {4, 8, 9} /\ r.off \notin Indexes
  <2>1. <<low, r.off>> \in {<<4, "zero">>, <<8, "8bit">>, <<9, "16bit">>}
    BY DEF Shifted, LowOf
  <2>2. r.idx = "xyus" /\ r.off # "5bit" /\ r.postbyte = 128 + low /\ r.indirect # "6309"
    BY DEF Shifted
  <2>3. r.off \notin Indexes
    BY DEF Shifted, Indexes
  <2> HIDE DEF low
  <2> QED BY <2>1, <2>2, <2>3
<1> HIDE DEF low
<1>2. /\ HighRead(Decoded(code), code, n.as_reg, low, i)
      /\ n.as_reg # "PCR" /\ code \in Seq(Int)
      /\ low = 8 => Signed8(code[2]) = Stated(m)
      /\ low = 9 => Same(Signed16(code[2], code[3]), Stated(m))
      /\ r.off \notin Indexes => m.type \in {"int", "empty"}
      /\ r.off \in {"zero", "none"} => Stated(m) = 0
  BY <1>1, XyusRead
<1>3. Stated(m) \in Int /\ n.attr = "none" /\ m.type # "reg"
  BY <1>1, <1>2 DEF Chosen, Shifted, Stated
<1>4. \E x : d = Place(n.as_reg, "none", "none", x, i) /\ Same(x, Stated(m))
  <2>1. CASE low = 4
    BY <1>1, <1>2, <1>3, <2>1, SameSelf DEF HighRead
  <2>2. CASE low = 8
    BY <1>1, <1>2, <1>3, <2>2, SameSelf DEF HighRead
  <2>3. CASE low = 9
    BY <1>1, <1>2, <1>3, <2>3 DEF HighRead
  <2> QED BY <1>1, <2>1, <2>2, <2>3
<1> QED BY <1>2, <1>3, <1>4 DEF Written, Place

LEMMA ByIndexRead ==
    ASSUME NEW r, NEW code, NEW i, NEW m, NEW n, NEW p, Chosen(r, code, i, m, n, p), ByIndex(r)
    PROVE  code \in Seq(Int) /\ Written(code, i, m, n, p)
<1> DEFINE low == LowOf(r.off)
           d == Decoded(code)
<1>1. /\ low \in 0 .. 11 \cup {14} /\ low # 0 /\ r.idx = "xyus" /\ r.off # "5bit"
      /\ r.postbyte = 128 + low /\ r.indirect # "6309"
      /\ low # 8 /\ low # 9 /\ r.off # "8bit" /\ r.off # "16bit"
      /\ r.off \in Indexes
  BY DEF ByIndex, LowOf, Indexes
<1>2. <<low, r.off>> \in {<<5, "B">>, <<6, "A">>, <<7, "E">>, <<10, "F">>, <<11, "D">>, <<14, "W">>}
  BY DEF ByIndex, LowOf
<1> HIDE DEF low
<1>3. /\ HighRead(Decoded(code), code, n.as_reg, low, i)
      /\ n.as_reg # "PCR" /\ code \in Seq(Int)
      /\ r.off \in Indexes => m.type = "reg" /\ m.as_reg = r.off
      /\ m.type = "reg" => Stated(m) = 0
  BY <1>1, XyusRead
<1>4. n.attr = "none"
  BY <1>1 DEF Chosen, ByIndex
<1>5. d = Place(n.as_reg, "none", r.off, 0, i)
  BY <1>2, <1>3 DEF HighRead
<1> QED BY <1>1, <1>3, <1>4, <1>5, SameSelf DEF Written, Place

LEMMA SteppedRead ==
    ASSUME NEW r, NEW code, NEW i, NEW m, NEW n, NEW p, Chosen(r, code, i, m, n, p), Stepped(r)
    PROVE  code \in Seq(Int) /\ Written(code, i, m, n, p)
<1> DEFINE low == LowOfStep(r.attr)
           d == Decoded(code)
<1>1. /\ low \in 0 .. 11 \cup {14} /\ r.idx = "xyus" /\ r.off # "5bit"
      /\ r.postbyte = 128 + low /\ r.indirect # "6309"
      /\ low = 0 => r.indirect = "illegal"
      /\ low # 8 /\ low # 9 /\ r.off # "8bit" /\ r.off # "16bit"
      /\ r.off \notin Indexes /\ r.off \in {"zero", "none"}
  BY DEF Stepped, LowOfStep, Indexes, Steps
<1>2. <<low, r.attr>> \in {<<0, "postinc">>, <<1, "postinc2">>, <<2, "predec">>, <<3, "predec2">>}
  BY DEF Stepped, LowOfStep, Steps
<1> HIDE DEF low
<1>3. /\ HighRead(Decoded(code), code, n.as_reg, low, i)
      /\ n.as_reg # "PCR" /\ code \in Seq(Int)
      /\ r.off \notin Indexes => m.type \in {"int", "empty"}
      /\ r.off \in {"zero", "none"} => Stated(m) = 0
  BY <1>1, XyusRead
<1>4. r.attr = n.attr
  BY DEF Chosen
<1>5. d = Place(n.as_reg, n.attr, "none", 0, i)
  BY <1>2, <1>3, <1>4 DEF HighRead
<1> QED BY <1>1, <1>3, <1>5, SameSelf DEF Written, Place

LEMMA Offset5Read ==
    ASSUME NEW r, NEW code, NEW i, NEW m, NEW n, NEW p, Chosen(r, code, i, m, n, p), Offset5(r)
    PROVE  code \in Seq(Int) /\ Written(code, i, m, n, p)
<1> DEFINE v == Offset(r.off, m, n, p)
           s == Stated(m)
           pb == Postbyte(r, i, v, n)
<1>1. /\ ~i /\ n.as_reg \in DOMAIN IdxType /\ IdxType[n.as_reg] = "xyus"
      /\ r.off = "5bit" /\ r.postbyte = 0 /\ n.attr = "none" /\ i \in BOOLEAN
  BY DEF Chosen, Offset5
<1>2. PICK k \in 0 .. 3 : IdxSelect[n.as_reg] = 32 * k /\ <<"X", "Y", "U", "S">>[k + 1] = n.as_reg
  BY <1>1, Xyus
<1>3. n.as_reg # "PCR"
  BY <1>1, Xyus
<1>4. v = s /\ s \in Int
  BY <1>3 DEF Offset, Stated, Chosen
<1> HIDE DEF v, s
<1>5. pb = 32 * k + (s % 32)
  BY <1>1, <1>2, <1>4 DEF Postbyte
<1>6. pb \in Int
  BY <1>4, <1>5
<1> HIDE DEF pb
<1>7. /\ CodedAs(code, r.off, pb, Stated(m))
      /\ r.off \notin Indexes => m.type \in {"int", "empty"}
      /\ r.off = "5bit" => Stated(m) \in -16 .. 15
  BY <1>3, <1>6, PlainOffset DEF pb, v
<1>8. s \in -16 .. 15 /\ code \in Seq(Int) /\ code[1] = pb /\ Len(code) = 1
  BY <1>1, <1>7 DEF CodedAs, s
<1>9. Decoded(code) = Place(n.as_reg, "none", "none", s, FALSE)
  BY <1>2, <1>5, <1>8, DecodedLow
<1>10. m.type # "reg"
  BY <1>1, <1>7 DEF Indexes
<1>11. Same(s, s)
  BY <1>4, SameSelf
<1> DEFINE d == Decoded(code)
<1>12. d = Place(n.as_reg, "none", "none", s, FALSE)
  BY <1>9
<1> HIDE DEF d
<1>13. d.base = n.as_reg /\ d.step = "none" /\ d.index = "none" /\ d.offset = s /\ ~d.indirect
       /\ d.indirect = FALSE
  BY <1>12, Zenon DEF Place
<1>14. Same(d.offset, s)
  BY <1>11, <1>13
<1>15. d.step = n.attr /\ d.indirect = i
  BY <1>1, <1>13
<1> QED BY <1>3, <1>8, <1>10, <1>13, <1>14, <1>15 DEF Written, d, s

(* ... the rows of register W, ...                                           *)
LEMMA OfWRead ==
    ASSUME NEW r, NEW code, NEW i, NEW m, NEW n, NEW p, Chosen(r, code, i, m, n, p), OfW(r)
    PROVE  code \in Seq(Int) /\ Written(code, i, m, n, p)
<1> DEFINE v == Offset(r.off, m, n, p)
           s == Stated(m)
           pb == Postbyte(r, i, v, n)
           q == r.postbyte
<1>1. /\ i \in BOOLEAN /\ n.as_reg \in DOMAIN IdxType /\ IdxType[n.as_reg] = "w"
      /\ r.indirect = "6309" /\ r.off # "5bit" /\ r.attr = n.attr
  BY DEF Chosen, OfW
<1>2. n.as_reg = "W" /\ IdxSelect[n.as_reg] = 0
  BY <1>1, OtherRegisters
<1>3. n.as_reg # "PCR"
  BY <1>2
<1>4. <<r.attr, r.off, q>> \in {<<"none", "none", 143>>, <<"none", "16bit", 175>>,
                                <<"postinc2", "none", 207>>, <<"predec2", "none", 239>>}
  BY DEF OfW
<1>5. q \in {143, 175, 207, 239} /\ q \in Int
  BY <1>4
<1>6. pb = q + (IF i THEN 1 ELSE 0)
  BY <1>1, <1>2, <1>5 DEF Postbyte
<1> HIDE DEF v
<1>7. pb \in Int
  BY <1>1, <1>5, <1>6
<1> HIDE DEF pb
<1>8. /\ CodedAs(code, r.off, pb, Stated(m)) /\ Stated(m) \in Int
      /\ r.off \notin Indexes => m.type \in {"int", "empty"}
      /\ r.off \in {"zero", "none"} => Stated(m) = 0
  BY <1>3, <1>7, PlainOffset DEF pb, v
<1> HIDE DEF s, q
<1>9. code \in Seq(Int) /\ code[1] = pb /\ Len(code) = (IF q = 175 THEN 3 ELSE 1)
  BY <1>4, <1>8 DEF CodedAs
<1>10. Decoded(code) =
           CASE q = 143 -> Place("W", "none", "none", 0, i)
             [] q = 175 -> Place("W", "none", "none", Signed16(code[2], code[3]), i)
             [] q = 207 -> Place("W", "postinc2", "none", 0, i)
             [] q = 239 -> Place("W", "predec2", "none", 0, i)
  BY <1>1, <1>5, <1>6, <1>9, DecodedOfW
<1>11. \E x : Decoded(code) = Place("W", n.attr, "none", x, i) /\ Same(x, s)
  <2>1. CASE r.off = "16bit"
    <3>1. Same(Signed16(code[2], code[3]), s)
      BY <1>8, <2>1, Word16 DEF CodedAs, s
    <3> QED BY <1>1, <1>4, <1>10, <2>1, <3>1
  <2>2. CASE r.off = "none"
    <3>1. s = 0 /\ Same(0, 0)
      BY <1>8, <2>2, SameSelf DEF s
    <3> QED BY <1>1, <1>4, <1>10, <2>2, <3>1
  <2> QED BY <1>4, <2>1, <2>2
<1>12. m.type # "reg"
  BY <1>4, <1>8 DEF Indexes
<1> QED BY <1>2, <1>9, <1>11, <1>12 DEF Written, Place, s

(* ... and those of distances from the program counter, or offsets from it.  *)
LEMMA DistanceRead ==
    ASSUME NEW r, NEW code, NEW i, NEW m, NEW n, NEW p, Chosen(r, code, i, m, n, p), Distance(r)
    PROVE  code \in Seq(Int) /\ Written(code, i, m, n, p)
<1> DEFINE v == Offset(r.off, m, n, p)
           s == Stated(m)
           pb == Postbyte(r, i, v, n)
           low == 4 + LowOf(r.off)
           j == IF i THEN 1 ELSE 0
           pcr == n.as_reg = "PCR"
           end == p + Len(code)
           d == Decoded(code)
<1>1. /\ i \in BOOLEAN /\ p \in Int /\ n.as_reg \in DOMAIN IdxType /\ IdxType[n.as_reg] = "pcr"
      /\ r.indirect = "ok" /\ n.attr = "none"
      /\ m.type = "int" => m.as_int \in Int
      /\ OffCompatible(r.off, pcr, m, p) /\ NotCut(m, pcr, end)
      /\ pcr => m.type # "empty"
  BY DEF Chosen, Distance
<1>2. n.as_reg \in {"PC", "PCR"} /\ IdxSelect[n.as_reg] = 0
  BY <1>1, OtherRegisters
<1>3. <<r.off, low, r.postbyte>> \in {<<"8bit", 12, 140>>, <<"16bit", 13, 141>>}
  BY DEF Distance, LowOf
<1> HIDE DEF low
<1>4. low \in {12, 13} /\ low \in 0 .. 14 /\ r.postbyte = 128 + low
  BY <1>3
<1>5. v \in Int
  <2>1. v \in {0, m.as_int - (p + 2), m.as_int - (p + 3), m.as_int}
    BY DEF Offset
  <2>2. m.type # "int" => v = 0
    BY DEF Offset
  <2> HIDE DEF v
  <2> QED BY <1>1, <2>1, <2>2
<1> HIDE DEF v
<1>6. j \in 0 .. 1 /\ (j = 1) = i
  BY <1>1
<1>7. pb = HighByte(0, j, low)
  BY <1>1, <1>2, <1>3, <1>4 DEF Postbyte, HighByte
<1> HIDE DEF j
<1>8. pb \in Int
  BY <1>4, <1>6, <1>7 DEF HighByte
<1> HIDE DEF pb
<1>9. CodedAs(code, r.off, pb, v)
  <2>1. code = <<pb>> \o TailOf(r.off, v)
    BY DEF Chosen, pb, v
  <2> QED BY <1>5, <1>8, <2>1, Coded
<1>10. code \in Seq(Int) /\ code[1] = HighByte(0, j, low) /\ Len(code) = 1 + After(low)
  BY <1>3, <1>7, <1>9 DEF CodedAs, After
<1>11. HighRead(d, code, <<"X", "Y", "U", "S">>[0 + 1], low, j = 1)
  BY <1>4, <1>6, <1>10, DecodedHigh
<1>12. Kinds(r.off, pcr, m, p)
  <2>1. r.off = "8bit" => NotCut(m, pcr, p + 2)
    BY <1>1, <1>9 DEF CodedAs
  <2>2. \E e : NotCut(m, pcr, e)
    BY <1>1
  <2> QED BY <1>1, <2>1, <2>2, OffsetKinds
<1>13. s \in Int /\ m.type \in {"int", "empty"}
  BY <1>3, <1>12 DEF Kinds, Indexes
<1>14. ~pcr => v = s
  BY DEF v, Offset, Stated
<1>15. pcr => m.type = "int" /\ ~(m.as_int = 0 /\ m.attr = "none") /\ s = m.as_int
  BY <1>13 DEF Chosen, Stated
<1>16. CASE r.off = "8bit"
  <2>1. Len(code) = 2 /\ code[2] = v % 256
    BY <1>9, <1>16 DEF CodedAs
  <2>2. d = Place("PC", "none", "none", Signed8(v % 256), i)
    BY <1>3, <1>6, <1>11, <1>16, <2>1 DEF HighRead
  <2>3. CASE pcr
    <3>1. v = s - (p + 2)
      BY <1>15, <1>16, <2>3 DEF v, Offset
    <3>2. ToRel16(s - (p + 2)) \in -128 .. 127
      BY <1>12, <1>16, <2>3 DEF Kinds
    <3> HIDE DEF s
    <3>3. p + 2 \in Int
      BY <1>1
    <3>4. Same(p + 2 + Signed8((s - (p + 2)) % 256), s)
      BY <1>13, <3>2, <3>3, NearDistance
    <3>5. Same(p + Len(code) + Signed8(v % 256), s)
      BY <2>1, <3>1, <3>4
    <3> QED BY <1>1, <1>10, <1>13, <2>2, <2>3, <3>5 DEF Written, Place, s
  <2>4. CASE ~pcr
    <3>1. v = s /\ s \in -128 .. 127
      BY <1>12, <1>14, <1>16, <2>4 DEF Kinds
    <3>2. Signed8(v % 256) = s /\ Same(s, s)
      <4> HIDE DEF s
      <4>1. -128 <= s /\ s <= 127
        BY <1>13, <3>1
      <4> QED BY <1>13, <3>1, <4>1, Byte8, SameSelf
    <3>3. n.as_reg = "PC"
      BY <1>2, <2>4
    <3> QED BY <1>1, <1>10, <1>13, <2>2, <2>4, <3>2, <3>3 DEF Written, Place
  <2> QED BY <2>3, <2>4
<1>17. CASE r.off = "16bit"
  <2>1. Len(code) = 3 /\ code[2] = Uint16(v)[1] /\ code[3] = Uint16(v)[2]
    BY <1>9, <1>17 DEF CodedAs
  <2>2. d = Place("PC", "none", "none", Signed16(Uint16(v)[1], Uint16(v)[2]), i)
    BY <1>3, <1>6, <1>11, <1>17, <2>1 DEF HighRead
  <2>3. CASE pcr
    <3>1. v = s - (p + 3)
      BY <1>15, <1>17, <2>3 DEF v, Offset
    <3> HIDE DEF s
    <3>2. p + 3 \in Int
      BY <1>1
    <3>3. Same(p + 3 + Signed16(Uint16(s - (p + 3))[1], Uint16(s - (p + 3))[2]), s)
      BY <1>13, <3>2, FarDistance
    <3>4. Same(p + Len(code) + Signed16(Uint16(v)[1], Uint16(v)[2]), s)
      BY <2>1, <3>1, <3>3
    <3> QED BY <1>1, <1>10, <1>13, <2>2, <2>3, <3>4 DEF Written, Place, s
  <2>4. CASE ~pcr
    <3>1. v = s
      BY <1>14, <2>4
    <3>2. Same(Signed16(Uint16(v)[1], Uint16(v)[2]), s)
      <4> HIDE DEF s
      <4> QED BY <1>5, <3>1, Word16
    <3>3. n.as_reg = "PC"
      BY <1>2, <2>4
    <3> QED BY <1>1, <1>10, <1>13, <2>2, <2>4, <3>2, <3>3 DEF Written, Place
  <2> QED BY <2>3, <2>4
<1> QED BY <1>3, <1>16, <1>17

(* Of the rows that fit, the first is chosen; of instr_indexed2().           *)
Asked(m, n, p, code) ==
    /\ m.type = "int" => m.as_int \in Int
    /\ n.as_reg = "PCR" => m.type # "empty" /\ ~(m.type = "int" /\ m.as_int = 0 /\ m.attr = "none")
    /\ NotCut(m, n.as_reg = "PCR", p + Len(code))

LEMMA ChosenRead ==
    ASSUME NEW r, NEW code, NEW i, NEW m, NEW n, NEW p, Chosen(r, code, i, m, n, p),
           NEW k \in 1 .. 22, r = Row(k)
    PROVE  code \in Seq(Int) /\ Written(code, i, m, n, p)
BY TableRows, Offset5Read, ShiftedRead, ByIndexRead, SteppedRead, DistanceRead, OfWRead

ByRow(i, m, n, p, o) ==
    /\ n.type = "reg" /\ n.as_reg \in DOMAIN IdxType
    /\ \E k \in 1 .. 22 :
           LET v == Offset(Row(k).off, m, n, p)
           IN  /\ Fits(k, i, m, n, p)
               /\ \A j \in 1 .. 22 : Fits(j, i, m, n, p) => k <= j
               /\ o.bytes = <<Postbyte(Row(k), i, v, n)>> \o TailOf(Row(k).off, v)
               /\ ~(i /\ Row(k).indirect = "illegal")

LEMMA Indexed2Chosen ==
    ASSUME NEW i \in BOOLEAN, NEW m, NEW n, NEW p, m.type # "undef", n.type # "undef",
           NEW o, o = Indexed2(i, m, n, p), o.error = None
    PROVE  ByRow(i, m, n, p, o)
<1> DEFINE k    == FirstMode(i, m, n, p)
           v    == Offset(Row(k).off, m, n, p)
           code == <<Postbyte(Row(k), i, v, n)>> \o TailOf(Row(k).off, v)
           e    == IF i /\ Row(k).indirect = "illegal" THEN Illegal ELSE None
<1>1. o = IF "undef" \in {m.type, n.type} THEN Emit("indexed", Pad(1), None)
          ELSE IF n.type # "reg" \/ n.as_reg \notin DOMAIN IdxType \/ k = 0
          THEN Refuse("indexed") ELSE Emit("indexed", code, e)
  BY DEF Indexed2, TailOf, Row
<1>2. Refuse("indexed").error # None
  BY DEF Refuse, Emit, Syntax, None
<1>3. Emit("indexed", code, e).error = e /\ Emit("indexed", code, e).bytes = code
  <2> HIDE DEF code, e
  <2> QED BY DEF Emit
<1> DEFINE known == n.as_reg \in DOMAIN IdxType
<1> HIDE DEF code, e, k, known
<1>4. o = IF "undef" \in {m.type, n.type} THEN Emit("indexed", Pad(1), None)
          ELSE IF n.type # "reg" \/ ~known \/ k = 0
          THEN Refuse("indexed") ELSE Emit("indexed", code, e)
  BY <1>1 DEF known
<1>5. n.type = "reg" /\ known /\ k # 0 /\ o = Emit("indexed", code, e)
  BY <1>2, <1>4
<1>6. o.bytes = code /\ e = None
  BY <1>3, <1>5
<1>7. ~(i /\ Row(k).indirect = "illegal")
  BY <1>6 DEF e, Illegal, None
<1>8. /\ k \in 1 .. 22 /\ Fits(k, i, m, n, p)
      /\ \A j \in 1 .. 22 : Fits(j, i, m, n, p) => k <= j
  BY <1>5, FirstFits DEF k
<1> QED BY <1>5, <1>6, <1>7, <1>8 DEF code, known, ByRow

LEMMA IndexedRead ==
    ASSUME NEW i \in BOOLEAN, NEW m, NEW n, NEW p \in Int, m.type # "undef", n.type # "undef",
           NEW o, o = Indexed2(i, m, n, p), o.error = None, Asked(m, n, p, o.bytes)
    PROVE  n.type = "reg" /\ o.bytes \in Seq(Int) /\ Written(o.bytes, i, m, n, p)
<1>0. ByRow(i, m, n, p, o)
  BY Indexed2Chosen
<1>1. n.type = "reg" /\ n.as_reg \in DOMAIN IdxType
  BY <1>0 DEF ByRow
<1>2. PICK k \in 1 .. 22 :
         LET v == Offset(Row(k).off, m, n, p)
         IN  /\ Fits(k, i, m, n, p)
             /\ o.bytes = <<Postbyte(Row(k), i, v, n)>> \o TailOf(Row(k).off, v)
             /\ ~(i /\ Row(k).indirect = "illegal")
  BY <1>0 DEF ByRow
<1>3. /\ Row(k).idx = IdxType[n.as_reg] /\ Row(k).attr = n.attr
      /\ OffCompatible(Row(k).off, n.as_reg = "PCR", m, p)
      /\ ~(i /\ Row(k).indirect = "impossible")
  BY <1>2 DEF Fits, Row
<1>4. Chosen(Row(k), o.bytes, i, m, n, p)
  <2> DEFINE r == Row(k)
             code == o.bytes
             v == Offset(r.off, m, n, p)
  <2>1. r.idx = IdxType[n.as_reg] /\ r.attr = n.attr /\ OffCompatible(r.off, n.as_reg = "PCR", m, p)
    BY <1>3
  <2>2. code = <<Postbyte(r, i, v, n)>> \o TailOf(r.off, v)
    BY <1>2
  <2>3. ~(i /\ r.indirect \in {"impossible", "illegal"})
    BY <1>2, <1>3
  <2> HIDE DEF r, code
  <2>4. /\ m.type = "int" => m.as_int \in Int
        /\ n.as_reg = "PCR" => m.type # "empty" /\ ~(m.type = "int" /\ m.as_int = 0 /\ m.attr = "none")
        /\ NotCut(m, n.as_reg = "PCR", p + Len(code))
    BY DEF Asked, code
  <2>5. Chosen(r, code, i, m, n, p)
    BY <1>1, <2>1, <2>2, <2>3, <2>4, Zenon DEF Chosen
  <2> QED BY <2>5 DEF r, code
<1> QED BY <1>1, <1>4, ChosenRead

(* Its bytes are numbers, as many as the row says.                           *)
IsCoded(c, off) == \E pb, w \in Int : CodedAs(c, off, pb, w)

LEMMA RowBytes ==
    ASSUME NEW i \in BOOLEAN, NEW m, NEW n, NEW p \in Int, NEW k \in 1 .. 22,
           m.type = "int" => m.as_int \in Int, n.as_reg \in DOMAIN IdxType
    PROVE  LET v == Offset(Row(k).off, m, n, p)
           IN  IsCoded(<<Postbyte(Row(k), i, v, n)>> \o TailOf(Row(k).off, v), Row(k).off)
<1> DEFINE r == Row(k)
           v == Offset(r.off, m, n, p)
           pb == Postbyte(r, i, v, n)
<1>1. v \in Int
  <2>1. v \in {0, m.as_int - (p + 2), m.as_int - (p + 3), m.as_int}
    BY DEF Offset
  <2>2. m.type # "int" => v = 0
    BY DEF Offset
  <2> HIDE DEF v
  <2> QED BY <2>1, <2>2
<1>2. r.postbyte \in Int
  <2>1. \/ Offset5(r) \/ Shifted(r) \/ ByIndex(r) \/ Stepped(r) \/ Distance(r) \/ OfW(r)
    BY TableRows
  <2> HIDE DEF r
  <2>2. CASE Offset5(r)
    BY <2>2 DEF Offset5
  <2>3. CASE Shifted(r)
    <3>1. LowOf(r.off) \in Int
      BY <2>3 DEF Shifted, LowOf
    <3> QED BY <2>3, <3>1 DEF Shifted
  <2>4. CASE ByIndex(r)
    <3>1. LowOf(r.off) \in Int
      BY <2>4 DEF ByIndex, LowOf
    <3> QED BY <2>4, <3>1 DEF ByIndex
  <2>5. CASE Stepped(r)
    <3>1. LowOfStep(r.attr) \in Int
      BY <2>5 DEF Stepped, LowOfStep, Steps
    <3> QED BY <2>5, <3>1 DEF Stepped
  <2>6. CASE Distance(r)
    <3>1. LowOf(r.off) \in Int
      BY <2>6 DEF Distance, LowOf
    <3> QED BY <2>6, <3>1 DEF Distance
  <2>7. CASE OfW(r)
    BY <2>7 DEF OfW
  <2> QED BY <2>1, <2>2, <2>3, <2>4, <2>5, <2>6, <2>7
<1>3. IdxSelect[n.as_reg] \in Int
  BY DEF IdxSelect, IdxType
<1> HIDE DEF v, r
<1>4. pb \in Int
  <2> DEFINE a == IF r.off = "5bit" THEN v % 32 ELSE 0
             b == CASE ~i -> 0 [] i /\ r.indirect = "6309" -> 1 [] OTHER -> 16
             s == IdxSelect[n.as_reg]
             q == r.postbyte
  <2>1. a \in Int
    BY <1>1
  <2>2. b \in Int
    OBVIOUS
  <2>3. pb = q + s + a + b
    BY DEF Postbyte
  <2>4. q \in Int /\ s \in Int
    BY <1>2, <1>3
  <2> HIDE DEF a, b, s, q, pb
  <2> QED BY <2>1, <2>2, <2>3, <2>4
<1> HIDE DEF pb
<1> DEFINE c == <<pb>> \o TailOf(r.off, v)
<1>5. c = <<pb>> \o TailOf(r.off, v)
  OBVIOUS
<1> HIDE DEF c
<1>6. CodedAs(c, r.off, pb, v)
  BY <1>1, <1>4, <1>5, Coded
<1>7. IsCoded(c, r.off)
  BY <1>1, <1>4, <1>6 DEF IsCoded
<1> QED BY <1>7 DEF c, pb, v, r

(* An outcome of indexed addressing, after the bytes of "imm".               *)
IndexedOutcome(args, imm, p, o) ==
    LET x == InstrIndexed(args, p + Len(imm))
    IN  o.bytes = imm \o x.bytes /\ o.error = x.error

LEMMA PrefixedParts ==
    ASSUME NEW imm, NEW x, IsIndexed(x), Prefixed(imm, x).form = "indexed"
    PROVE  Prefixed(imm, x).bytes = imm \o x.bytes /\ Prefixed(imm, x).error = x.error
<1>1. PICK f \in {"none", "indexed"} : \E b, e : x = Emit(f, b, e)
  BY DEF IsIndexed
<1>2. PICK b, e : x = Emit(f, b, e)
  BY <1>1
<1>3. f = "indexed"
  BY <1>1, <1>2, PrefixedForm
<1>4. Prefixed(imm, Emit(f, b, e)) = Emit(f, imm \o b, e)
  BY <1>3, PrefixedEmit
<1>5. \A y : Emit(f, y, e).bytes = y /\ Emit(f, y, e).error = e
  BY DEF Emit
<1> QED BY <1>2, <1>4, <1>5

LEMMA AddressIndexed ==
    ASSUME NEW op, NEW args, NEW imm, NEW page, NEW p,
           InstrAddress(op, args, imm, page, p).form = "indexed"
    PROVE  IndexedOutcome(args, imm, p + op.length, InstrAddress(op, args, imm, page, p))
<1> DEFINE o == InstrAddress(op, args, imm, page, p)
           n == EvalInt(args[1])
           attr == IF n.type = "undef" THEN "16bit" ELSE n.attr
           addr == IF n.type = "undef" THEN p ELSE n.as_int % 65536
           direct == /\ "direct" \in op.mem
                     /\ attr = "8bit" \/ (attr = "none" /\ InPage(page, addr))
           extended == /\ "extended" \in op.mem
                       /\ attr \in {"none", "16bit"}
                       /\ ~("direct" \in op.mem /\ attr = "none" /\ InPage(page, addr))
           d == Emit("direct", Uint8(addr), None)
           x == Emit("extended", Uint16(addr), None)
           i == InstrIndexed(args, p + op.length + Len(imm))
<1>1. o = CASE Len(args) \notin 1 .. 2 -> Refuse("none")
            [] Len(args) = 2 /\ "indexed" \notin op.mem -> Refuse("none")
            [] Len(args) = 2 \/ (Len(args) = 1 /\ args[1].type = "array") -> Prefixed(imm, i)
            [] OTHER -> Prefixed(imm, CASE direct -> d [] extended -> x [] OTHER -> i)
  BY DEF InstrAddress, Prefixed
<1>2. Refuse("none").form = "none"
  BY DEF Refuse, Emit
<1>3. Prefixed(imm, d).form = "direct" /\ Prefixed(imm, x).form = "extended"
  BY PrefixedForm
<1>4. o.form = "indexed"
  OBVIOUS
<1>5. IsIndexed(i)
  BY IndexedForm
<1> HIDE DEF o, d, x, direct, extended, i
<1>6. o \in {Refuse("none"), Prefixed(imm, i), Prefixed(imm, d), Prefixed(imm, x)}
  BY <1>1
<1>7. o = Prefixed(imm, i)
  BY <1>2, <1>3, <1>4, <1>6
<1>8. o.bytes = imm \o i.bytes /\ o.error = i.error
  BY <1>4, <1>5, <1>7, PrefixedParts
<1> QED BY <1>8 DEF IndexedOutcome, o, i

(* What an indexed outcome of a line comes of.                               *)
Came(l, o, p) ==
    o.form = "indexed" =>
        \E imm \in Seq(Int) :
            /\ Len(imm) = SkippedOf(l)
            /\ Is(l, "imm8_mem") => Len(IntArgs(l)) \in 2 .. 3
            /\ IndexedOutcome(OperandOf(l), imm, p + l.op.length, o)

LEMMA AddressCame ==
    ASSUME NEW l \in Lines, ~Is(l, "imm8_mem"), NEW page, NEW p
    PROVE  Came(l, InstrAddress(l.op, IntArgs(l), <<>>, page, p), p)
<1> DEFINE args == IntArgs(l)
           o == InstrAddress(l.op, args, <<>>, page, p)
<1>1. OperandOf(l) = args /\ SkippedOf(l) = 0 /\ <<>> \in Seq(Int) /\ Len(<<>>) = 0
  BY DEF OperandOf, SkippedOf
<1> HIDE DEF args
<1>2. o.form = "indexed" => IndexedOutcome(args, <<>>, p + l.op.length, o)
  BY AddressIndexed
<1> HIDE DEF o
<1>3. Came(l, o, p)
  BY <1>1, <1>2 DEF Came
<1> QED BY <1>3 DEF o, args

LEMMA Imm8MemCame ==
    ASSUME NEW l \in Lines, Is(l, "imm8_mem"), NEW page, NEW p
    PROVE  Came(l, InstrImm8Mem(l.op, IntArgs(l), page, p), p)
<1> DEFINE args == IntArgs(l)
           rest == Tail(args)
           v == IF args[1].type = "int" THEN args[1].as_int ELSE 0
           imm == Uint8(v)
           o == InstrAddress(l.op, rest, imm, page, p)
           r == InstrImm8Mem(l.op, args, page, p)
<1>1. r = Refuse("none") \/ (Len(args) \in 2 .. 3 /\ r = o)
  BY DEF InstrImm8Mem
<1>2. OperandOf(l) = rest /\ SkippedOf(l) = 1
  BY DEF OperandOf, SkippedOf
<1>3. /\ args \in Seq(Range(args)) /\ DOMAIN args = 1 .. Len(args) /\ Len(args) \in Nat
      /\ \A i \in DOMAIN args : Evaluated(args[i])
  BY ArgsType
<1> HIDE DEF args
<1>4. CASE r = Refuse("none")
  <2>1. r.form = "none"
    BY <1>4 DEF Refuse, Emit
  <2> HIDE DEF r
  <2>2. Came(l, r, p)
    BY <2>1 DEF Came
  <2> QED BY <2>2 DEF r, args
<1>5. CASE Len(args) \in 2 .. 3 /\ r = o
  <2>1. Evaluated(args[1])
    BY <1>3, <1>5
  <2>2. v \in Int
    BY <2>1 DEF Evaluated
  <2>3. imm \in Seq(Int) /\ Len(imm) = 1
    <3> HIDE DEF v
    <3>1. v % 256 \in Int
      BY <2>2
    <3> QED BY <3>1 DEF Uint8
  <2> HIDE DEF rest, imm, r
  <2>5. o.form = "indexed" => IndexedOutcome(rest, imm, p + l.op.length, o)
    BY AddressIndexed
  <2> HIDE DEF o
  <2>6. Came(l, o, p)
    BY <1>2, <1>5, <2>3, <2>5 DEF Came, args
  <2> QED BY <1>5, <2>6 DEF r, args
<1> QED BY <1>1, <1>4, <1>5

(* Handlers that have no indexed addressing.                                 *)
Other(o) == o.form # "indexed"

LEMMA OtherForms ==
    ASSUME NEW l,
           \/ Inherent(l) \/ Immediate(l) \/ Rel(l)
           \/ StackS(l) \/ StackU(l) \/ Pair(l) \/ Tfm(l) \/ RegMem(l)
           \/ Form(l) \/ Words(l) \/ Fill(l) \/ Rmb(l) \/ Align(l) \/ Includebin(l)
           \/ NoMode(l)
    PROVE  Other(out')
<1> DEFINE F == {"none", "immediate", "direct", "data", "skip", "tfm++", "tfm--", "tfm+.", "tfm.+"}
<1>0. /\ \A f, b, e : Emit(f, b, e).form = f
      /\ \A b, e : Other(Emit("immediate", b, e)) /\ Other(Emit("direct", b, e))
      /\ Other(Refuse("none"))
      /\ \A b, e : Other(Stored(b, e)) /\ Other(Reserved(b, e))
      /\ \A outs : Other(Joined(outs))
  BY DEF Emit, Refuse, Stored, Reserved, Joined, Other
<1>1. CASE Inherent(l)
  BY <1>0, <1>1 DEF Inherent, Yields, InstrInherent
<1>2. CASE Immediate(l)
  <2>1. out' = InstrImmediate(l.op, IntArgs(l))
    BY <1>2 DEF Immediate, Yields
  <2> QED BY <1>0, <2>1 DEF InstrImmediate
<1>3. CASE Rel(l)
  <2>1. out' = InstrRel(l.op, IntArgs(l), pc + l.op.length)
    BY <1>3 DEF Rel, Yields
  <2> QED BY <1>0, <2>1 DEF InstrRel
<1>4. CASE StackS(l) \/ StackU(l)
  <2>1. out' = InstrStack(IntArgs(l), "S") \/ out' = InstrStack(IntArgs(l), "U")
    BY <1>4 DEF StackS, StackU, Yields
  <2> QED BY <1>0, <2>1 DEF InstrStack
<1>5. CASE Pair(l)
  <2>1. out' \in InstrPair(IntArgs(l))
    BY <1>5 DEF Pair, Yields
  <2> DEFINE args == IntArgs(l)
             error(a, b) == Raise(Raise(a.error, b.error),
                                  IF a.size \cap b.size = {} THEN Illegal ELSE None)
             outcome(a, b) == Emit("immediate", <<PairByte(a.nibble, b.nibble)>>, error(a, b))
  <2>2. InstrPair(args) = IF Len(args) # 2 THEN {Refuse("none")}
                          ELSE IF \E i \in 1 .. 2 : PairArg(args[i]) = {} THEN {Refuse("none")}
                          ELSE {outcome(a, b) : a \in PairArg(args[1]), b \in PairArg(args[2])}
    BY DEF InstrPair
  <2>3. \A a, b : Other(outcome(a, b))
    BY <1>0
  <2> HIDE DEF outcome, args
  <2> QED BY <1>0, <2>1, <2>2, <2>3 DEF args
<1>6. CASE Tfm(l)
  <2> DEFINE args == IntArgs(l)
             mod == SelectInSeq(TfmModes, LAMBDA m : m = <<args[1].attr, args[2].attr>>)
             code == <<PairByte(TfmNibble(args[1]), TfmNibble(args[2]))>>
             e == Raise(TfmError(args[1]), TfmError(args[2]))
             T == {i \in 1 .. Len(TfmModes) : TfmModes[i] = <<args[1].attr, args[2].attr>>}
  <2>1. out' = InstrTfm(args)
    BY <1>6 DEF Tfm, Yields
  <2>2. InstrTfm(args) \in {Refuse("none")} \cup
            (IF mod = 0 THEN {} ELSE {Emit(<<"tfm++", "tfm--", "tfm+.", "tfm.+">>[mod], code, e)})
    BY Zenon DEF InstrTfm
  <2>3. mod = IF T # {} THEN Min(T) ELSE 0
    BY DEF SelectInSeq
  <2>4. Len(TfmModes) = 4
    BY DEF TfmModes
  <2>5. T \subseteq 1 .. 4 /\ T \subseteq Nat
    BY <2>4
  <2> HIDE DEF mod, code, e, T, args
  <2>6. T # {} => Min(T) \in T
    <3>1. T # {} => \E x \in T : \A y \in T : x <= y
      BY <2>5, Least
    <3> QED BY <3>1 DEF Min
  <2>7. mod # 0 => mod \in {1, 2, 3, 4}
    <3>1. mod # 0 => mod \in T
      BY <2>3, <2>6
    <3>2. mod # 0 => mod \in 1 .. 4
      BY <2>5, <3>1, Zenon
    <3> QED BY <3>2
  <2>8. mod # 0 => <<"tfm++", "tfm--", "tfm+.", "tfm.+">>[mod] \in F
    BY <2>7
  <2> QED BY <1>0, <2>1, <2>2, <2>8 DEF Other
<1>7. CASE RegMem(l)
  <2>1. out' = InstrRegMem(IntArgs(l))
    BY <1>7 DEF RegMem, Yields
  <2> QED BY <1>0, <2>1 DEF InstrRegMem
<1>8. CASE Form(l)
  <2>1. out' = PseudoForm(l.op.ext, l.args)
    BY <1>8 DEF Form, Yields
  <2> QED BY <1>0, <2>1 DEF PseudoForm
<1>9. CASE Words(l)
  <2>1. out' = PseudoWords(l.op.ext, l.args)
    BY <1>9 DEF Words, Yields
  <2> QED BY <1>0, <2>1 DEF PseudoWords
<1>10. CASE Fill(l)
  <2>1. out' = PseudoFill(l.op.ext, l.args)
    BY <1>10 DEF Fill, Yields
  <2> QED BY <1>0, <2>1 DEF PseudoFill
<1>11. CASE Rmb(l)
  <2>1. out' = PseudoRmb(l.args)
    BY <1>11 DEF Rmb, Yields
  <2> QED BY <1>0, <2>1 DEF PseudoRmb
<1>12. CASE Align(l)
  <2>1. out' = PseudoAlign(l.args, pc)
    BY <1>12 DEF Align, Yields
  <2> QED BY <1>0, <2>1 DEF PseudoAlign
<1>13. CASE Includebin(l)
  <2>1. out' = PseudoIncludebin(l.args)
    BY <1>13 DEF Includebin, Yields
  <2> QED BY <1>0, <2>1 DEF PseudoIncludebin
<1>14. CASE NoMode(l)
  BY <1>0, <1>14 DEF NoMode, Yields
<1> QED BY <1>1, <1>2, <1>3, <1>4, <1>5, <1>6, <1>7, <1>8, <1>9, <1>10, <1>11, <1>12, <1>13, <1>14

-----------------------------------------------------------------------------
(* The two arguments of an indexed operand, in brackets or not.              *)
NestedIn(a) == Len(a) = 1 /\ a[1].type = "array"
InnerOf(a)  == IF NestedIn(a) THEN a[1].as_array ELSE a

LEMMA OperandType ==
    ASSUME NEW l \in Lines, Is(l, "imm8_mem") => Len(IntArgs(l)) \in 2 .. 3
    PROVE  LET a == OperandOf(l)
           IN  /\ a \in Seq(Range(a))
               /\ \A j \in DOMAIN a : \E k \in DOMAIN l.args : a[j] = IntArgs(l)[k]
<1> DEFINE args == IntArgs(l)
           a == OperandOf(l)
           S == Range(args)
<1>1. /\ args \in Seq(S) /\ DOMAIN args = 1 .. Len(args) /\ Len(args) \in Nat
      /\ DOMAIN args = DOMAIN l.args
  BY ArgsType
<1> HIDE DEF args, S
<1>2. a \in Seq(S) /\ \A j \in 1 .. Len(a) : \E k \in DOMAIN args : a[j] = args[k]
  <2>1. CASE Is(l, "imm8_mem")
    <3>1. a = Tail(args) /\ Len(args) \in 2 .. 3
      BY <2>1 DEF OperandOf, args
    <3> HIDE DEF a
    <3>2. a \in Seq(S) /\ Len(a) = Len(args) - 1
      BY <1>1, <3>1
    <3>3. ASSUME NEW j \in 1 .. Len(a) PROVE \E k \in DOMAIN args : a[j] = args[k]
      <4>1. j + 1 \in DOMAIN args /\ a[j] = args[j + 1]
        BY <1>1, <3>1, <3>2
      <4> QED BY <4>1
    <3> QED BY <3>2, <3>3
  <2>2. CASE ~Is(l, "imm8_mem")
    <3>1. a = args
      BY <2>2 DEF OperandOf, args
    <3> HIDE DEF a
    <3> QED BY <1>1, <3>1
  <2> QED BY <2>1, <2>2
<1> HIDE DEF a
<1>3. DOMAIN a = 1 .. Len(a) /\ Len(a) \in Nat /\ a = [j \in 1 .. Len(a) |-> a[j]]
  BY <1>2
<1> DEFINE R == Range(a)
           n == Len(a)
<1>4. \A j \in 1 .. n : a[j] \in R
  BY <1>3 DEF Range
<1>5. n \in Nat /\ a = [j \in 1 .. n |-> a[j]]
  BY <1>3
<1> HIDE DEF R, n
<1>6. a \in Seq(R)
  <2>1. a \in [1 .. n -> R]
    BY <1>4, <1>5
  <2> QED BY <1>5, <2>1
<1>7. \A j \in DOMAIN a : \E k \in DOMAIN l.args : a[j] = args[k]
  BY <1>1, <1>2, <1>3
<1> QED BY <1>6, <1>7 DEF a, args, R

LEMMA InnerType ==
    ASSUME NEW l \in Lines, Is(l, "imm8_mem") => Len(IntArgs(l)) \in 2 .. 3
    PROVE  LET b == InnerOf(OperandOf(l))
           IN  b \in Seq(Range(b)) /\ \A j \in DOMAIN b : Evaluated(b[j])
<1> DEFINE args == IntArgs(l)
           a == OperandOf(l)
           b == InnerOf(a)
<1>1. a \in Seq(Range(a)) /\ \A j \in DOMAIN a : \E k \in DOMAIN l.args : a[j] = args[k]
  BY OperandType
<1>2. /\ DOMAIN args = DOMAIN l.args
      /\ \A k \in DOMAIN args :
             /\ Evaluated(args[k])
             /\ l.args[k].type # "float" => args[k] = l.args[k]
             /\ l.args[k].type = "float" => args[k].type = "int"
  BY ArgsType
<1> HIDE DEF args, a
<1>3. CASE NestedIn(a)
  <2>1. 1 \in DOMAIN a
    BY <1>1, <1>3 DEF NestedIn
  <2>2. PICK k \in DOMAIN l.args : a[1] = args[k]
    BY <1>1, <2>1
  <2>3. args[k] = l.args[k] /\ l.args[k].type = "array"
    BY <1>2, <1>3, <2>2 DEF NestedIn
  <2>4. l.args[k] \in Range(l.args)
    BY <2>2 DEF Range
  <2> DEFINE c == l.args[k].as_array
  <2>5. c \in Seq(Range(c)) /\ \A m \in Range(c) : Evaluated(m)
    BY <2>3, <2>4, EncodingConstants
  <2>6. b = c
    BY <1>3, <2>2, <2>3 DEF InnerOf
  <2> HIDE DEF c
  <2>7. \A j \in DOMAIN c : c[j] \in Range(c)
    BY DEF Range
  <2> QED BY <2>5, <2>6, <2>7 DEF a
<1>4. CASE ~NestedIn(a)
  <2>1. b = a
    BY <1>4 DEF InnerOf
  <2>2. \A j \in DOMAIN a : Evaluated(a[j])
    BY <1>1, <1>2
  <2> QED BY <1>1, <2>1, <2>2 DEF a
<1> QED BY <1>3, <1>4

(* A string becomes a number first.                                          *)
Number(n) == IF n.type = "string" THEN EvalInt(n) ELSE n

LEMMA NumberEvaluated ==
    ASSUME NEW n, Evaluated(n)
    PROVE  /\ Evaluated(Number(n))
           /\ Number(n).type # "string"
           /\ n.type # "string" => Number(n) = n
<1>1. CASE n.type = "string"
  <2>1. Number(n) = IntNode(Word(n.as_string), n.attr)
    BY <1>1 DEF Number, EvalInt
  <2>2. Word(n.as_string) \in Int
    BY <1>1, CharactersAreNumbers, WordType DEF Evaluated
  <2> DEFINE w == Word(n.as_string)
  <2> HIDE DEF w
  <2>3. Number(n).type = "int" /\ Number(n).as_int = w /\ Number(n).attr = n.attr
    BY <2>1 DEF IntNode, w
  <2>4. Number(n) = IntNode(w, n.attr) /\ w \in Int
    BY <2>1, <2>2 DEF w
  <2> DEFINE x == Number(n)
  <2> HIDE DEF x
  <2>5. x.type = "int" /\ x.as_int \in Int /\ x = IntNode(x.as_int, x.attr)
    BY <2>3, <2>4 DEF x
  <2>6. Evaluated(x)
    BY <2>5 DEF Evaluated
  <2> QED BY <1>1, <2>3, <2>6 DEF x
<1>2. CASE n.type # "string"
  BY <1>2 DEF Number
<1> QED BY <1>1, <1>2

(* instr_indexed(), of two arguments.                                        *)
LEMMA IndexedOfTwo ==
    ASSUME NEW a, NEW p, Len(InnerOf(a)) = 2, InnerOf(a) \in Seq(Range(InnerOf(a)))
    PROVE  InstrIndexed(a, p) = Indexed2(NestedIn(a), Number(InnerOf(a)[1]), InnerOf(a)[2], p)
<1> DEFINE b == InnerOf(a)
           q == Indexed2(NestedIn(a), Number(b[1]), b[2], p)
<1>1. b # <<>>
  <2>1. Len(b) = 2
    OBVIOUS
  <2> HIDE DEF b
  <2> QED BY <2>1
<1>2. ~(Len(b) = 1) /\ Len(b) = 2
  OBVIOUS
<1>3. InstrIndexed(a, p) = CASE Len(b) = 1 -> Indexed1(NestedIn(a), Number(b[1]))
                             [] Len(b) = 2 -> q
                             [] OTHER -> Refuse("none")
  BY <1>1 DEF InstrIndexed, NestedIn, InnerOf, Number
<1> HIDE DEF b, q
<1> QED BY <1>2, <1>3 DEF q, b

XInv ==
    /\ pc \in Int
    /\ out.form = "indexed" => line \in Lines
    /\ Came(line, out, pc)

LEMMA InitXInv == Init => XInv
<1> SUFFICES ASSUME Init PROVE XInv
  OBVIOUS
<1>1. pc \in Int
  BY EncodingConstants DEF Init
<1>2. out.form = "none"
  BY DEF Init, Emit
<1> QED BY <1>1, <1>2 DEF XInv, Came

LEMMA NextXInv == XInv /\ [Next]_vars => XInv'
<1> SUFFICES ASSUME XInv, [Next]_vars PROVE XInv'
  OBVIOUS
<1>1. CASE UNCHANGED vars
  BY <1>1 DEF vars, XInv
<1>2. CASE Next
  <2>1. PICK l \in Lines :
           \/ Inherent(l) \/ Immediate(l) \/ Imm8Mem(l) \/ Address(l) \/ Rel(l)
           \/ StackS(l) \/ StackU(l) \/ Pair(l) \/ Tfm(l) \/ RegMem(l)
           \/ Form(l) \/ Words(l) \/ Fill(l) \/ Rmb(l) \/ Align(l) \/ Includebin(l)
           \/ NoMode(l)
    BY <1>2, Zenon DEF Next, Waiting
  <2>2. line' = l /\ pc' = pc
    BY <2>1 DEF Inherent, Immediate, Imm8Mem, Address, Rel, StackS, StackU, Pair, Tfm,
                RegMem, Form, Words, Fill, Rmb, Align, Includebin, NoMode, Yields
  <2>3. CASE Imm8Mem(l)
    <3>1. out' = InstrImm8Mem(l.op, IntArgs(l), dp, pc) /\ Is(l, "imm8_mem")
      BY <2>3 DEF Imm8Mem, Yields
    <3>2. Came(l, out', pc)
      BY <3>1, Imm8MemCame
    <3> QED BY <2>2, <3>2 DEF XInv
  <2>4. CASE Address(l)
    <3>1. out' = InstrAddress(l.op, IntArgs(l), <<>>, dp, pc) /\ ~Is(l, "imm8_mem")
      BY <2>4 DEF Address, Yields, IsMem, Is
    <3>2. Came(l, out', pc)
      BY <3>1, AddressCame
    <3> QED BY <2>2, <3>2 DEF XInv
  <2>5. CASE ~(Imm8Mem(l) \/ Address(l))
    <3>1. out'.form # "indexed"
      BY <2>1, <2>5, OtherForms DEF Other
    <3> QED BY <2>2, <3>1 DEF XInv, Came
  <2> QED BY <2>3, <2>4, <2>5
<1> QED BY <1>1, <1>2

(* The bytes past the immediate one, and where they end.                     *)
LEMMA Lengths ==
    ASSUME NEW s \in Seq(Int), NEW t \in Seq(Int)
    PROVE  Len(s \o t) = Len(s) + Len(t) /\ Len(s) \in Int /\ Len(t) \in Int
OBVIOUS

LEMMA PastBytes ==
    ASSUME NEW imm \in Seq(Int), NEW b \in Seq(Int), out.bytes = imm \o b, Len(imm) = Skipped,
           pc \in Int, line.op.length \in Int
    PROVE  Code = b /\ EndPc = pc + line.op.length + Len(imm) + Len(b)
<1>1. Code = b
  BY PastImm, Zenon DEF Code
<1>2. Len(imm \o b) = Len(imm) + Len(b) /\ Len(imm) \in Int /\ Len(b) \in Int
  BY Lengths, Zenon
<1>3. EndPc = pc + line.op.length + (Len(imm) + Len(b))
  BY <1>2 DEF EndPc
<1> QED BY <1>1, <1>2, <1>3

(* The two arguments of an operand that was encoded, and the call it came    *)
(* from, with the address p of its postbyte.                                 *)
FromCall(m, n, p, x) ==
    /\ Pair2 = <<m, n>> /\ Evaluated(m) /\ Evaluated(n)
    /\ m.type # "undef" /\ n.type = "reg" /\ n.as_reg \in DOMAIN IdxType
    /\ p \in Int /\ Nested \in BOOLEAN /\ (ToPcr <=> n.as_reg = "PCR")
    /\ x = Indexed2(Nested, m, n, p) /\ x.error = None
    /\ x.bytes \in Seq(Int) /\ Code = x.bytes /\ EndPc = p + Len(x.bytes)

LEMMA Encoded == ASSUME XInv, OfTwo, Known, out.error = None
                 PROVE  \E m, n, p, x : FromCall(m, n, p, x)
<1> DEFINE a == OperandOf(line)
           b == InnerOf(a)
           m == Number(b[1])
           n == b[2]
           i == NestedIn(a)
<1>1. line \in Lines /\ pc \in Int /\ line.op.length \in Nat
  BY EncodingConstants DEF XInv, OfTwo
<1>2. PICK imm \in Seq(Int) :
         /\ Len(imm) = SkippedOf(line)
         /\ Is(line, "imm8_mem") => Len(IntArgs(line)) \in 2 .. 3
         /\ IndexedOutcome(a, imm, pc + line.op.length, out)
  BY DEF XInv, OfTwo, Came
<1>3. Operand = a /\ Skipped = SkippedOf(line) /\ Nested = i
  BY DEF Operand, OperandOf, Skipped, SkippedOf, Nested, NestedIn
<1>4. b \in Seq(Range(b)) /\ \A j \in DOMAIN b : Evaluated(b[j])
  BY <1>1, <1>2, InnerType
<1>5. Pair2 = [j \in DOMAIN b |-> Number(b[j])]
  BY <1>3 DEF Pair2, Number, InnerOf
<1> HIDE DEF a, b, i
<1>6. Len(b) = 2 /\ 1 \in DOMAIN b /\ 2 \in DOMAIN b
  <2> DEFINE c == [j \in DOMAIN b |-> Number(b[j])]
  <2>1. DOMAIN b = 1 .. Len(b) /\ Len(b) \in Nat
    BY <1>4
  <2>2. c = [j \in 1 .. Len(b) |-> Number(b[j])]
    BY <2>1
  <2>3. Len(c) = Len(b)
    <3> DEFINE k == Len(b)
    <3> HIDE DEF k
    <3>1. k \in Nat /\ c = [j \in 1 .. k |-> Number(b[j])]
      BY <2>1, <2>2 DEF k
    <3> HIDE DEF c
    <3>2. Len(c) = k
      BY <3>1
    <3> QED BY <3>2 DEF k
  <2>4. Len(c) = 2
    BY <1>5 DEF OfTwo
  <2> HIDE DEF c
  <2>5. Len(b) = 2
    BY <2>3, <2>4
  <2> QED BY <2>1, <2>5
<1>7. Pair2[1] = m /\ Pair2[2] = Number(n)
  BY <1>5, <1>6
<1>8. Evaluated(m) /\ m.type # "undef" /\ Number(n).type # "undef" /\ Evaluated(n)
  <2>1. Evaluated(b[1]) /\ Evaluated(b[2])
    BY <1>4, <1>6
  <2>2. Pair2[1].type # "undef" /\ Pair2[2].type # "undef"
    BY <1>5, <1>6 DEF Known
  <2> QED BY <1>7, <2>1, <2>2, NumberEvaluated
<1> DEFINE p == pc + line.op.length + Len(imm)
           x == InstrIndexed(a, p)
<1>9. p \in Int
  BY <1>1
<1> HIDE DEF p
<1>10. x = Indexed2(i, m, n, p)
  BY <1>4, <1>6, IndexedOfTwo DEF b, i
<1>11. out.bytes = imm \o x.bytes /\ x.error = None
  BY <1>2 DEF IndexedOutcome, p
<1> HIDE DEF x, m, n
<1>12. n.type # "undef"
  BY <1>8 DEF Number
<1>13. i \in BOOLEAN
  BY DEF i, NestedIn
<1>14. n.type = "reg" /\ n.as_reg \in DOMAIN IdxType /\ x.bytes \in Seq(Int)
  <2>0. ByRow(i, m, n, p, x)
    BY <1>8, <1>10, <1>11, <1>12, <1>13, Indexed2Chosen, Zenon
  <2>1. n.type = "reg" /\ n.as_reg \in DOMAIN IdxType
    BY <2>0 DEF ByRow
  <2>2. PICK k \in 1 .. 22 :
           LET v == Offset(Row(k).off, m, n, p)
           IN  x.bytes = <<Postbyte(Row(k), i, v, n)>> \o TailOf(Row(k).off, v)
    BY <2>0 DEF ByRow
  <2>3. m.type = "int" => m.as_int \in Int
    BY <1>8 DEF Evaluated
  <2>4. IsCoded(x.bytes, Row(k).off)
    BY <1>9, <1>13, <2>1, <2>2, <2>3, RowBytes
  <2>5. x.bytes \in Seq(Int)
    BY <2>4 DEF IsCoded, CodedAs
  <2> QED BY <2>1, <2>5
<1>15. Pair2[2] = n
  BY <1>7, <1>8, <1>14, NumberEvaluated
<1> DEFINE code == x.bytes
<1>16. Code = code /\ EndPc = p + Len(code)
  <2>1. code \in Seq(Int) /\ out.bytes = imm \o code /\ Len(imm) = Skipped
    BY <1>2, <1>3, <1>11, <1>14
  <2>2. line.op.length \in Int
    BY <1>1
  <2> HIDE DEF code
  <2>3. Code = code /\ EndPc = pc + line.op.length + Len(imm) + Len(code)
    BY <1>1, <2>1, <2>2, PastBytes, Zenon
  <2> QED BY <2>3 DEF p
<1> HIDE DEF code
<1>17. ToPcr <=> n.as_reg = "PCR"
  BY <1>14, <1>15 DEF ToPcr
<1>18. Pair2 = <<m, n>>
  <2> DEFINE c == [j \in 1 .. 2 |-> Number(b[j])]
  <2>1. Pair2 = c
    <3>1. DOMAIN b = 1 .. 2
      BY <1>4, <1>6
    <3> QED BY <1>5, <3>1
  <2>2. c = <<c[1], c[2]>>
    OBVIOUS
  <2> HIDE DEF c
  <2> QED BY <1>7, <1>15, <2>1, <2>2
<1> QED BY <1>3, <1>8, <1>9, <1>10, <1>11, <1>13, <1>14, <1>16, <1>17, <1>18, Zenon DEF FromCall, code

LEMMA XInvKept == XInv => IndexedKept
<1> SUFFICES ASSUME XInv, OfTwo, Known, out.error = None, ~Cut(Pair2[1]), ~ZeroRelative, ~EmptyForced
             PROVE  IndexedKept
  BY DEF IndexedKept
<1>1. PICK m, n, p, x : FromCall(m, n, p, x)
  BY Encoded
<1> DEFINE code == x.bytes
           i == Nested
<1>2. Pair2[1] = m /\ Pair2[2] = n
  BY <1>1 DEF FromCall
<1>3. /\ Evaluated(m) /\ Evaluated(n) /\ m.type # "undef" /\ n.type = "reg" /\ p \in Int /\ i \in BOOLEAN
      /\ x = Indexed2(i, m, n, p) /\ x.error = None
      /\ Code = code /\ EndPc = p + Len(code) /\ (ToPcr <=> n.as_reg = "PCR")
  BY <1>1 DEF FromCall
<1> HIDE DEF code, i
<1>4. Asked(m, n, p, code)
  <2>1. m.type = "int" => m.as_int \in Int /\ m = IntNode(m.as_int, m.attr)
    BY <1>3 DEF Evaluated
  <2>2. n.as_reg = "PCR" => m.type # "empty" /\ ~(m.type = "int" /\ m.as_int = 0 /\ m.attr = "none")
    BY <1>2, <1>3, <2>1 DEF ZeroRelative, EmptyForced
  <2>3. NotCut(m, n.as_reg = "PCR", p + Len(code))
    BY <1>2, <1>3 DEF Cut, NotCut
  <2> QED BY <2>1, <2>2, <2>3 DEF Asked
<1>5. Written(code, i, m, n, p)
  <2>1. n.type # "undef"
    BY <1>3
  <2> QED BY <1>3, <1>4, <2>1, IndexedRead DEF code
<1>6. LET d == Decoded(Code)
      IN  /\ d.base = (IF ToPcr THEN "PC" ELSE Pair2[2].as_reg)
          /\ d.step = Pair2[2].attr
          /\ d.index = (IF Pair2[1].type = "reg" THEN Pair2[1].as_reg ELSE "none")
          /\ d.indirect = Nested
          /\ Same(Reached, Stated(Pair2[1]))
  <2> DEFINE d == Decoded(code)
  <2> HIDE DEF d
  <2>1. /\ d.base = (IF n.as_reg = "PCR" THEN "PC" ELSE n.as_reg)
        /\ d.step = n.attr
        /\ d.index = (IF m.type = "reg" THEN m.as_reg ELSE "none")
        /\ d.indirect = i
        /\ Same(IF n.as_reg = "PCR" THEN p + Len(code) + d.offset ELSE d.offset, Stated(m))
    BY <1>5 DEF Written, d
  <2>2. Reached = IF n.as_reg = "PCR" THEN p + Len(code) + d.offset ELSE d.offset
    BY <1>3 DEF Reached, d
  <2>3. Decoded(Code) = d
    BY <1>3 DEF d
  <2> QED BY <1>2, <1>3, <2>1, <2>2, <2>3 DEF i
<1> QED BY <1>6 DEF IndexedKept

(* For every line and program counter, an indexed operand of two arguments   *)
(* is encoded as written, whichever row of the table was chosen; of          *)
(* instr_indexed2() (instr.c:243).                                           *)
THEOREM IndexedIsKept == Spec => []IndexedKept
<1>1. Init => XInv
  BY InitXInv
<1>2. XInv /\ [Next]_vars => XInv'
  BY NextXInv
<1> QED BY <1>1, <1>2, XInvKept, PTL DEF Spec

-----------------------------------------------------------------------------

(* What one byte says: no register PC, and an offset only in five bits.      *)
Brief(d) ==
    /\ d.base # "PC"
    /\ d.offset # 0 => d.base # "W" /\ d.indirect = FALSE /\ d.offset \in -16 .. 15

LEMMA ByteParts ==
    ASSUME NEW pb \in 0 .. 255
    PROVE  /\ (pb \div 32) % 4 \in 0 .. 3 /\ pb % 16 \in 0 .. 15 /\ pb % 32 \in 0 .. 31
OBVIOUS

LEMMA BaseName ==
    ASSUME NEW k \in 0 .. 3
    PROVE  <<"X", "Y", "U", "S">>[k + 1] \in {"X", "Y", "U", "S"}
OBVIOUS

LEMMA OneByteBrief ==
    ASSUME NEW pb \in 0 .. 255, OffsetBytes(pb) = 0
    PROVE  Brief(Decoded(<<pb>>))
<1> DEFINE bytes == <<pb>>
           k == (pb \div 32) % 4
           base == <<"X", "Y", "U", "S">>[k + 1]
           n == pb % 32
           low == pb % 16
           i == (pb \div 16) % 2 = 1
<1>1. bytes[1] = pb /\ Len(bytes) = 1 + OffsetBytes(pb) /\ ~(Len(bytes) # 1 + OffsetBytes(pb))
  OBVIOUS
<1>2. k \in 0 .. 3 /\ low \in 0 .. 15 /\ n \in 0 .. 31
  BY ByteParts
<1>3. base \in {"X", "Y", "U", "S"}
  <2> HIDE DEF k
  <2> QED BY <1>2, BaseName
<1> HIDE DEF bytes
<1>4. CASE pb < 128
  <2> DEFINE x == IF n < 16 THEN n ELSE n - 32
  <2>1. Decoded(bytes) = Place(base, "none", "none", x, FALSE)
    <3>1. ~(pb >= 128)
      BY <1>4
    <3> QED BY <1>1, <1>4, <3>1 DEF Decoded
  <2>2. x \in -16 .. 15
    BY <1>2
  <2> HIDE DEF x, base
  <2> QED BY <1>3, <2>1, <2>2 DEF Brief, Place, bytes
<1>5. CASE pb >= 128 /\ WMode(pb)
  <2> DEFINE j == bytes[1] % 2 = 0
             s == Signed16(bytes[2], bytes[3])
  <2>1. Decoded(bytes) = DecodedW(bytes)
    BY <1>1, <1>5 DEF Decoded
  <2>2. DecodedW(bytes) = CASE k = 0 -> Place("W", "none", "none", 0, j)
                            [] k = 1 -> Place("W", "none", "none", s, j)
                            [] k = 2 -> Place("W", "postinc2", "none", 0, j)
                            [] k = 3 -> Place("W", "predec2", "none", 0, j)
    BY <1>1 DEF DecodedW
  <2>3. pb \notin {175, 176}
    BY <1>5 DEF OffsetBytes
  <2>4. k # 1
    BY <1>5, <2>3 DEF WMode
  <2> HIDE DEF s, j, k
  <2>5. \E t : Decoded(bytes) = Place("W", t, "none", 0, j)
    <3>1. k \in {0, 2, 3}
      BY <1>2, <2>4
    <3> QED BY <2>1, <2>2, <3>1
  <2> QED BY <2>5 DEF Brief, Place, bytes
<1>6. CASE pb >= 128 /\ ~WMode(pb)
  <2> DEFINE s8 == Signed8(bytes[2])
             s16 == Signed16(bytes[2], bytes[3])
  <2>1. Decoded(bytes) = DecodedXyus(bytes)
    <3>1. ~(pb < 128)
      BY <1>6
    <3> QED BY <1>1, <1>6, <3>1 DEF Decoded
  <2>2. DecodedXyus(bytes) =
          CASE low = 0  -> Place(base, "postinc", "none", 0, i)
            [] low = 1  -> Place(base, "postinc2", "none", 0, i)
            [] low = 2  -> Place(base, "predec", "none", 0, i)
            [] low = 3  -> Place(base, "predec2", "none", 0, i)
            [] low = 4  -> Place(base, "none", "none", 0, i)
            [] low = 5  -> Place(base, "none", "B", 0, i)
            [] low = 6  -> Place(base, "none", "A", 0, i)
            [] low = 7  -> Place(base, "none", "E", 0, i)
            [] low = 8  -> Place(base, "none", "none", s8, i)
            [] low = 9  -> Place(base, "none", "none", s16, i)
            [] low = 10 -> Place(base, "none", "F", 0, i)
            [] low = 11 -> Place(base, "none", "D", 0, i)
            [] low = 12 -> Place("PC", "none", "none", s8, i)
            [] low = 13 -> Place("PC", "none", "none", s16, i)
            [] low = 14 -> Place(base, "none", "W", 0, i)
            [] low = 15 -> Place("none", "none", "none", s16, i)
    BY <1>1 DEF DecodedXyus
  <2>3. low \notin {8, 9, 12, 13, 15}
    <3> HIDE DEF low
    <3> QED BY <1>6 DEF OffsetBytes, low
  <2> HIDE DEF s8, s16, i, base, low
  <2>4. low \in {0, 1, 2, 3, 4, 5, 6, 7, 10, 11, 14}
    BY <1>2, <2>3
  <2>5. \E t, x : Decoded(bytes) = Place(base, t, x, 0, i)
    BY <2>1, <2>2, <2>4, SMTT(40)
  <2> QED BY <1>3, <2>5 DEF Brief, Place, bytes
<1>7. pb < 128 \/ pb >= 128
  OBVIOUS
<1> QED BY <1>4, <1>5, <1>6, <1>7

(* What more bytes say: the offsets that there is room for.                  *)
LEMMA SignsOf8 ==
    ASSUME NEW lo \in 0 .. 255
    PROVE  Signed8(lo) \in -128 .. 127 /\ Signed8(lo) % 256 = lo
BY DEF Signed8

LEMMA SignsOf16 ==
    ASSUME NEW hi \in 0 .. 255, NEW lo \in 0 .. 255
    PROVE  /\ Signed16(hi, lo) \in Int /\ SignedWord(Signed16(hi, lo))
           /\ Signed16(hi, lo) % 256 = lo
<1> DEFINE w == 256 * hi + lo
           v == w - 65536
           s == Signed16(hi, lo)
<1>1. hi \in Int /\ lo \in Int /\ 0 <= hi /\ hi <= 255 /\ 0 <= lo /\ lo <= 255
  OBVIOUS
<1>2. w \in Int /\ 0 <= w /\ w <= 65535 /\ w % 256 = lo
  BY <1>1
<1>3. v \in Int /\ v % 256 = w % 256 /\ v = w - 65536
  <2> HIDE DEF w
  <2> QED BY <1>2
<1>4. s = IF w < 32768 THEN w ELSE v
  BY DEF Signed16
<1> HIDE DEF w, v, s
<1>5. CASE w < 32768
  <2>1. s = w /\ SignedWord(w)
    BY <1>2, <1>4, <1>5 DEF SignedWord
  <2> QED BY <1>2, <2>1 DEF s
<1>6. CASE ~(w < 32768)
  <2>1. s = v /\ SignedWord(v)
    BY <1>2, <1>3, <1>4, <1>6 DEF SignedWord
  <2> QED BY <1>2, <1>3, <2>1 DEF s
<1> QED BY <1>5, <1>6

IsPlace(d) == \E b, t, x, v, i : d = Place(b, t, x, v, i)

LEMMA LongRange ==
    ASSUME NEW bytes, bytes[1] \in Int, Len(bytes) = 2 => bytes[2] \in 0 .. 255,
           Len(bytes) = 3 => bytes[2] \in 0 .. 255 /\ bytes[3] \in 0 .. 255
    PROVE  LET d == Decoded(bytes)
           IN  /\ Len(bytes) = 2 => IsPlace(d) /\ d.base # "W" /\ d.offset \in -128 .. 127
               /\ Len(bytes) = 3 => d.offset \in Int /\ SignedWord(d.offset)
<1> DEFINE pb == bytes[1]
           k == (pb \div 32) % 4
           base == <<"X", "Y", "U", "S">>[k + 1]
           n == pb % 32
           low == pb % 16
           i == (pb \div 16) % 2 = 1
           s8 == Signed8(bytes[2])
           s16 == Signed16(bytes[2], bytes[3])
           d == Decoded(bytes)
<1>1. /\ Len(bytes) = 2 => s8 \in -128 .. 127
      /\ Len(bytes) = 3 => s16 \in Int /\ SignedWord(s16)
  BY SignsOf8, SignsOf16
<1>2. k \in 0 .. 3 /\ low \in 0 .. 15
  <2>1. \A x \in Int : (x \div 32) % 4 \in 0 .. 3 /\ x % 16 \in 0 .. 15
    OBVIOUS
  <2> QED BY <2>1
<1>3. base \in {"X", "Y", "U", "S"}
  <2> HIDE DEF k
  <2> QED BY <1>2, BaseName
<1>4. CASE Len(bytes) # 1 + OffsetBytes(pb)
  <2>1. d = Place("none", "none", "none", 0, FALSE)
    BY <1>4 DEF Decoded
  <2> HIDE DEF d
  <2>2. IsPlace(d)
    BY <2>1 DEF IsPlace
  <2> QED BY <2>1, <2>2 DEF Place, d, SignedWord
<1>5. CASE Len(bytes) = 1 + OffsetBytes(pb) /\ Len(bytes) \in {2, 3}
  <2>1. /\ pb >= 128 /\ ~(pb < 128)
        /\ Len(bytes) = 2 => ~WMode(pb) /\ low \in {8, 12}
        /\ Len(bytes) = 3 => IF WMode(pb) THEN pb \in {175, 176} ELSE low \in {9, 13, 15}
    <3>1. OffsetBytes(pb) # 0 /\ (Len(bytes) = 2 => OffsetBytes(pb) = 1)
          /\ (Len(bytes) = 3 => OffsetBytes(pb) = 2)
      <4>1. OffsetBytes(pb) \in {0, 1, 2}
        BY DEF OffsetBytes
      <4> QED BY <1>5, <4>1
    <3>2. pb \in Int /\ (pb >= 128 \/ pb < 128)
      OBVIOUS
    <3> HIDE DEF pb, low
    <3>3. /\ OffsetBytes(pb) # 0 => pb >= 128 /\ ~(pb < 128)
          /\ OffsetBytes(pb) = 1 => ~WMode(pb) /\ low \in {8, 12}
          /\ OffsetBytes(pb) = 2 => IF WMode(pb) THEN pb \in {175, 176} ELSE low \in {9, 13, 15}
      BY <3>2 DEF OffsetBytes, low
    <3> QED BY <3>1, <3>3
  <2>2. CASE WMode(pb)
    <3> DEFINE j == pb % 2 = 0
    <3>1. d = DecodedW(bytes)
      BY <1>5, <2>1, <2>2 DEF Decoded
    <3>2. DecodedW(bytes) = CASE k = 0 -> Place("W", "none", "none", 0, j)
                              [] k = 1 -> Place("W", "none", "none", s16, j)
                              [] k = 2 -> Place("W", "postinc2", "none", 0, j)
                              [] k = 3 -> Place("W", "predec2", "none", 0, j)
      BY DEF DecodedW
    <3>3. Len(bytes) = 3 /\ k = 1
      BY <1>5, <2>1, <2>2
    <3> HIDE DEF s16, j, k, d
    <3>4. d = Place("W", "none", "none", s16, j)
      BY <3>1, <3>2, <3>3
    <3>5. d.offset = s16
      BY <3>4 DEF Place
    <3> QED BY <1>1, <3>3, <3>5 DEF d
  <2>3. CASE ~WMode(pb)
    <3>1. d = DecodedXyus(bytes)
      BY <1>5, <2>1, <2>3 DEF Decoded
    <3>2. DecodedXyus(bytes) =
          CASE low = 0  -> Place(base, "postinc", "none", 0, i)
            [] low = 1  -> Place(base, "postinc2", "none", 0, i)
            [] low = 2  -> Place(base, "predec", "none", 0, i)
            [] low = 3  -> Place(base, "predec2", "none", 0, i)
            [] low = 4  -> Place(base, "none", "none", 0, i)
            [] low = 5  -> Place(base, "none", "B", 0, i)
            [] low = 6  -> Place(base, "none", "A", 0, i)
            [] low = 7  -> Place(base, "none", "E", 0, i)
            [] low = 8  -> Place(base, "none", "none", s8, i)
            [] low = 9  -> Place(base, "none", "none", s16, i)
            [] low = 10 -> Place(base, "none", "F", 0, i)
            [] low = 11 -> Place(base, "none", "D", 0, i)
            [] low = 12 -> Place("PC", "none", "none", s8, i)
            [] low = 13 -> Place("PC", "none", "none", s16, i)
            [] low = 14 -> Place(base, "none", "W", 0, i)
            [] low = 15 -> Place("none", "none", "none", s16, i)
      BY DEF DecodedXyus
    <3> HIDE DEF s8, s16, i, base, low, d
    <3>3. CASE Len(bytes) = 2
      <4>1. low \in {8, 12}
        BY <2>1, <3>3
      <4>2. d = Place(base, "none", "none", s8, i) \/ d = Place("PC", "none", "none", s8, i)
        <5>1. CASE low = 8
          BY <3>1, <3>2, <5>1
        <5>2. CASE low = 12
          BY <3>1, <3>2, <5>2
        <5> QED BY <4>1, <5>1, <5>2
      <4>3. d.base # "W" /\ d.offset = s8
        BY <1>3, <4>2 DEF Place
      <4>4. IsPlace(d)
        BY <4>2 DEF IsPlace
      <4> QED BY <1>1, <3>3, <4>3, <4>4 DEF d
    <3>4. CASE Len(bytes) = 3
      <4>1. \E b : d = Place(b, "none", "none", s16, i)
        BY <2>1, <2>3, <3>1, <3>2, <3>4, SMTT(40)
      <4>2. d.offset = s16
        BY <4>1 DEF Place
      <4> QED BY <1>1, <3>4, <4>2 DEF d
    <3> QED BY <1>5, <3>3, <3>4
  <2> QED BY <2>2, <2>3
<1> QED BY <1>4, <1>5

(* The rows with one byte of offset, and with two.                           *)
LEMMA LongRows ==
    ASSUME NEW k \in 1 .. 22
    PROVE  /\ Row(k).off = "8bit" => k \in {3, 14}
           /\ Row(k).off = "16bit" => k \in {4, 15, 20}
<1> DEFINE R == <<"zero", "5bit", "8bit", "16bit", "A", "B", "D", "none", "zero", "none", "zero",
                  "none", "none", "8bit", "16bit", "E", "F", "W", "none", "16bit", "none", "none">>
<1>1. Row(k).off = R[k]
  BY DEF Row, Mode, IndexedModes
<1> QED BY <1>1

LEMMA SomeRows ==
    /\ Row(1).idx = "xyus" /\ Row(1).attr = "none" /\ Row(1).off = "zero" /\ Row(1).indirect = "ok"
    /\ Row(2).idx = "xyus" /\ Row(2).attr = "none" /\ Row(2).off = "5bit"
    /\ Row(3).idx = "xyus" /\ Row(3).attr = "none" /\ Row(3).off = "8bit" /\ Row(3).indirect = "ok"
    /\ Row(4).idx = "xyus" /\ Row(4).attr = "none" /\ Row(4).off = "16bit"
    /\ Row(14).idx = "pcr" /\ Row(14).attr = "none" /\ Row(14).off = "8bit" /\ Row(14).indirect = "ok"
    /\ Row(15).idx = "pcr" /\ Row(15).attr = "none" /\ Row(15).off = "16bit"
    /\ Row(19).idx = "w" /\ Row(19).attr = "none" /\ Row(19).off = "none" /\ Row(19).indirect = "6309"
    /\ Row(20).idx = "w" /\ Row(20).attr = "none" /\ Row(20).off = "16bit"
BY DEF Row, Mode, IndexedModes

(* A row that comes before the first that fits does not fit: what is known   *)
(* of the offset when more bytes than one are needed.                        *)
NeedsBytes(off, i, m, n, p) ==
    LET v   == Stated(m)
        idx == IdxType[n.as_reg]
        pcr == n.as_reg = "PCR"
    IN  /\ off = "8bit" /\ idx = "xyus" => m.type = "int" /\ v # 0 /\ (i \/ v \notin -16 .. 15)
        /\ off = "16bit" /\ idx = "xyus" => m.type = "int" /\ v \notin -128 .. 127
        /\ off = "8bit" => idx \in {"xyus", "pcr"}
        /\ off = "16bit" /\ idx = "pcr" =>
               m.type = "int" /\ (IF pcr THEN ToRel16(v - (p + 2)) ELSE v) \notin -128 .. 127
        /\ off = "16bit" /\ idx = "w" => m.type = "int" /\ n.attr = "none"
        /\ off = "16bit" => idx \in {"xyus", "pcr", "w"}

LEMMA FirstNeeds ==
    ASSUME NEW i \in BOOLEAN, NEW m, NEW n, NEW p, NEW k \in 1 .. 22, m.attr = "none",
           Fits(k, i, m, n, p), \A j \in 1 .. 22 : Fits(j, i, m, n, p) => k <= j
    PROVE  NeedsBytes(Row(k).off, i, m, n, p)
<1> DEFINE pcr == n.as_reg = "PCR"
           idx == IdxType[n.as_reg]
           v == Stated(m)
           Fit(j) == Fits(j, i, m, n, p)
<1>1. \A j \in 1 .. 22 : Fit(j) <=> /\ Row(j).idx = idx /\ Row(j).attr = n.attr
                                    /\ OffCompatible(Row(j).off, pcr, m, p)
                                    /\ ~(i /\ Row(j).indirect = "impossible")
  BY DEF Fits, Row
<1>2. \A off : OffCompatible(off, pcr, m, p) <=>
                   \/ m.type = "empty" /\ off \in {"none", "zero"} \cup Coercions
                   \/ /\ m.type = "int"
                      /\ \/ off = "zero" /\ m.as_int = 0
                         \/ off = "5bit" /\ m.as_int \in -16 .. 15
                         \/ off = "8bit" /\ OffsetFits(m.as_int, pcr, p)
                         \/ off = "16bit"
                   \/ m.type = "reg" /\ off = m.as_reg /\ off \in {"A", "B", "D", "E", "F", "W"}
  BY DEF OffCompatible
<1>3. Fit(k) /\ \A j \in 1 .. 22 : Fit(j) => k <= j
  OBVIOUS
<1>4. m.type = "int" => v = m.as_int
  BY DEF Stated
<1>5. 1 \in 1 .. 22 /\ 2 \in 1 .. 22 /\ 14 \in 1 .. 22 /\ 19 \in 1 .. 22 /\ 3 \in 1 .. 22
  OBVIOUS
<1> HIDE DEF Fit, pcr, idx, v
<1>6. ASSUME k \in {3, 4}
      PROVE  /\ idx = "xyus" /\ m.type = "int" /\ v # 0
             /\ k = 3 => i \/ v \notin -16 .. 15
             /\ k = 4 => ~OffsetFits(v, pcr, p)
  <2>1. idx = "xyus" /\ n.attr = "none" /\ Row(k).off \in {"8bit", "16bit"}
    BY <1>1, <1>3, <1>6, SomeRows
  <2>2. ~Fit(1) /\ ~Fit(2) /\ (k = 4 => ~Fit(3))
    BY <1>3, <1>5, <1>6
  <2>3. ~OffCompatible("zero", pcr, m, p)
    BY <1>1, <1>5, <2>1, <2>2, SomeRows
  <2>4. ~i => ~OffCompatible("5bit", pcr, m, p)
    BY <1>1, <1>5, <2>1, <2>2, SomeRows
  <2>5. k = 4 => ~OffCompatible("8bit", pcr, m, p)
    BY <1>1, <1>5, <2>1, <2>2, SomeRows
  <2>6. OffCompatible(Row(k).off, pcr, m, p)
    BY <1>1, <1>3
  <2>7. m.type = "int"
    BY <1>2, <2>1, <2>3, <2>6
  <2> QED BY <1>2, <1>4, <2>1, <2>3, <2>4, <2>5, <2>7
<1>7. ASSUME k = 14 PROVE idx = "pcr"
  BY <1>1, <1>3, <1>7, SomeRows
<1>8. ASSUME k = 15 PROVE idx = "pcr" /\ m.type = "int" /\ ~OffsetFits(v, pcr, p)
  <2>1. idx = "pcr" /\ n.attr = "none" /\ Row(k).off = "16bit" /\ OffCompatible("16bit", pcr, m, p)
    BY <1>1, <1>3, <1>8, SomeRows
  <2>2. ~Fit(14)
    BY <1>3, <1>5, <1>8
  <2>3. ~OffCompatible("8bit", pcr, m, p)
    BY <1>1, <1>5, <2>1, <2>2, SomeRows
  <2>4. m.type # "empty"
    BY <1>2, <2>3 DEF Coercions
  <2>5. m.type = "int"
    BY <1>2, <2>1, <2>4
  <2> QED BY <1>2, <1>4, <2>1, <2>3, <2>5
<1>9. ASSUME k = 20 PROVE idx = "w" /\ m.type = "int" /\ n.attr = "none"
  <2>1. idx = "w" /\ n.attr = "none" /\ OffCompatible("16bit", pcr, m, p)
    BY <1>1, <1>3, <1>9, SomeRows
  <2>2. ~Fit(19)
    BY <1>3, <1>5, <1>9
  <2>3. ~OffCompatible("none", pcr, m, p)
    BY <1>1, <1>5, <2>1, <2>2, SomeRows
  <2>4. m.type # "empty"
    BY <1>2, <2>3
  <2> QED BY <1>2, <2>1, <2>4
<1>10. idx = "xyus" => ~pcr
  BY Xyus DEF idx, pcr, IdxType
<1>11. /\ Row(k).off = "8bit" => k \in {3, 14}
       /\ Row(k).off = "16bit" => k \in {4, 15, 20}
  BY LongRows
<1>12. OffsetFits(v, pcr, p) <=> (IF pcr THEN ToRel16(v - (p + 2)) ELSE v) \in -128 .. 127
  BY DEF OffsetFits
<1> HIDE DEF Fit
<1>13. CASE Row(k).off = "8bit"
  BY <1>6, <1>7, <1>11, <1>13 DEF NeedsBytes, idx, v
<1>14. CASE Row(k).off = "16bit"
  <2> DEFINE w == IF pcr THEN ToRel16(v - (p + 2)) ELSE v
  <2>1. OffsetFits(v, pcr, p) <=> w \in -128 .. 127
    BY <1>12
  <2>2. ~pcr => w = v
    OBVIOUS
  <2> HIDE DEF w
  <2>3. k \in {4, 15, 20}
    BY <1>11, <1>14
  <2>4. CASE k = 4
    <3>1. idx = "xyus" /\ m.type = "int" /\ v \notin -128 .. 127
      BY <1>6, <1>10, <2>1, <2>2, <2>4
    <3> QED BY <1>14, <3>1 DEF NeedsBytes, idx, v
  <2>5. CASE k = 15
    <3>1. idx = "pcr" /\ m.type = "int" /\ w \notin -128 .. 127
      BY <1>8, <2>1, <2>5
    <3> QED BY <1>14, <3>1 DEF NeedsBytes, idx, v, w, pcr
  <2>6. CASE k = 20
    BY <1>9, <1>14, <2>6 DEF NeedsBytes, idx
  <2> QED BY <2>3, <2>4, <2>5, <2>6
<1>15. CASE Row(k).off \notin {"8bit", "16bit"}
  BY <1>15 DEF NeedsBytes
<1> QED BY <1>13, <1>14, <1>15

(* What Shorter says of bytes that are not too long.                         *)
Short(code, pcr) ==
    /\ ~(Len(code) > 1 /\ ~pcr /\ Decoded(code) \in Encodings1)
    /\ ~(/\ Len(code) = 3
         /\ \E q \in Postbytes2 :
               LET d == Decoded(<<q, (code[3] + (IF pcr THEN 1 ELSE 0)) % 256>>)
               IN  [d EXCEPT !.offset = IF pcr THEN @ - 1 ELSE @] = Decoded(code))

LEMMA Briefly ==
    ASSUME NEW d \in Encodings1
    PROVE  Brief(d)
<1>1. PICK b \in {p \in 0 .. 255 : OffsetBytes(p) = 0} : d = Decoded(<<b>>)
  BY DEF Encodings1
<1> QED BY <1>1, OneByteBrief

(* Two bytes instead of three give the same, or a byte less of a distance.   *)
LEMMA NearOnly ==
    ASSUME NEW q \in Postbytes2, NEW x \in Int, NEW pcr \in BOOLEAN, NEW to,
           LET d == Decoded(<<q, x % 256>>)
           IN  [d EXCEPT !.offset = IF pcr THEN @ - 1 ELSE @] = to
    PROVE  /\ to.base # "W"
           /\ ~pcr => to.offset \in -128 .. 127
           /\ pcr => to.offset + 1 \in -128 .. 127
<1> DEFINE bytes == <<q, x % 256>>
           d == Decoded(bytes)
<1>1. q \in Int /\ x % 256 \in 0 .. 255
  BY DEF Postbytes2
<1>2. bytes[1] \in Int /\ Len(bytes) = 2 /\ bytes[2] \in 0 .. 255
  BY <1>1
<1> HIDE DEF bytes
<1>3. IsPlace(d) /\ d.base # "W" /\ d.offset \in -128 .. 127
  BY <1>2, LongRange
<1>4. [d EXCEPT !.offset = IF pcr THEN @ - 1 ELSE @] = to
  BY DEF bytes
<1> HIDE DEF d
<1>5. PICK b, t, y, v, i : d = Place(b, t, y, v, i)
  BY <1>3 DEF IsPlace
<1>6. to = Place(b, t, y, IF pcr THEN v - 1 ELSE v, i)
  BY <1>4, <1>5 DEF Place
<1>7. b # "W" /\ v \in -128 .. 127
  BY <1>3, <1>5 DEF Place
<1>8. to.base = b /\ to.offset = IF pcr THEN v - 1 ELSE v
  BY <1>6 DEF Place
<1> QED BY <1>7, <1>8

(* The bytes of a row.                                                       *)
LEMMA CodedBytes ==
    ASSUME NEW code, NEW off, IsCoded(code, off)
    PROVE  /\ code[1] \in Int /\ Len(code) \in {1, 2, 3}
           /\ Len(code) = 2 => off = "8bit" /\ code[2] \in 0 .. 255
           /\ Len(code) = 3 => off = "16bit" /\ code[2] \in 0 .. 255 /\ code[3] \in 0 .. 255
<1>1. PICK pb, w \in Int : CodedAs(code, off, pb, w)
  BY DEF IsCoded
<1>2. w % 256 \in 0 .. 255 /\ w \div 256 \in Int
  BY <1>1
<1>3. (w \div 256) % 256 \in 0 .. 255
  <2> DEFINE h == w \div 256
  <2>1. h \in Int
    BY <1>2
  <2> HIDE DEF h
  <2>2. h % 256 \in 0 .. 255
    BY <2>1
  <2> QED BY <2>2 DEF h
<1>4. Uint16(w)[1] = (w \div 256) % 256 /\ Uint16(w)[2] = w % 256
  BY DEF Uint16
<1> DEFINE l == Len(code)
           first == code[1]
           second == code[2]
           third == code[3]
           hi == (w \div 256) % 256
           lo == w % 256
<1>5. /\ first = pb
      /\ off \notin {"8bit", "16bit"} => l = 1
      /\ off = "8bit" => l = 2 /\ second = lo
      /\ off = "16bit" => l = 3 /\ second = hi /\ third = lo
  BY <1>1, <1>4 DEF CodedAs
<1>6. lo \in 0 .. 255 /\ hi \in 0 .. 255
  BY <1>2, <1>3
<1> HIDE DEF l, first, second, third, hi, lo
<1>7. /\ first \in Int /\ l \in {1, 2, 3}
      /\ l = 2 => off = "8bit" /\ second \in 0 .. 255
      /\ l = 3 => off = "16bit" /\ second \in 0 .. 255 /\ third \in 0 .. 255
  <2>1. pb \in Int
    BY <1>1
  <2>2. CASE off = "8bit"
    BY <1>5, <1>6, <2>1, <2>2
  <2>3. CASE off = "16bit"
    BY <1>5, <1>6, <2>1, <2>3
  <2>4. CASE off \notin {"8bit", "16bit"}
    BY <1>5, <2>1, <2>4
  <2> QED BY <2>2, <2>3, <2>4
<1> QED BY <1>7 DEF l, first, second, third

(* The offset read, of what was written, is the number if that is a word.    *)
LEMMA SameWord ==
    ASSUME NEW x \in Int, NEW y \in Int, SignedWord(x), SignedWord(y), Same(x, y)
    PROVE  x = y
BY OneOfClass DEF SignedWord

LEMMA InWord ==
    ASSUME NEW x \in -128 .. 127
    PROVE  x \in Int /\ SignedWord(x)
BY DEF SignedWord

(* An operand's bytes, those of the first row that fits, are not too many.   *)
LEMMA NotTooLong ==
    ASSUME NEW i \in BOOLEAN, NEW m, NEW n, NEW p \in Int, m.attr = "none",
           m.type = "int" => m.as_int \in Int, n.as_reg \in DOMAIN IdxType,
           NEW code, NEW off, NeedsBytes(off, i, m, n, p), IsCoded(code, off),
           (n.as_reg = "PCR" /\ m.type = "empty") \/ Written(code, i, m, n, p),
           n.as_reg = "W" /\ n.attr = "none" => ~(m.type = "int" /\ m.as_int = 0),
           n.as_reg # "PCR" => SignedWord(Stated(m))
    PROVE  Short(code, n.as_reg = "PCR")
<1> DEFINE pcr == n.as_reg = "PCR"
           s == Stated(m)
           d == Decoded(code)
           idx == IdxType[n.as_reg]
<1>1. /\ code[1] \in Int /\ Len(code) \in {1, 2, 3}
      /\ Len(code) = 2 => off = "8bit" /\ code[2] \in 0 .. 255
      /\ Len(code) = 3 => off = "16bit" /\ code[2] \in 0 .. 255 /\ code[3] \in 0 .. 255
  BY CodedBytes
<1>2. /\ Len(code) = 2 => d.offset \in -128 .. 127
      /\ Len(code) = 3 => d.offset \in Int /\ SignedWord(d.offset)
  BY <1>1, LongRange
<1>3. s \in Int /\ (m.type = "int" => s = m.as_int)
  BY DEF Stated
<1>4. Written(code, i, m, n, p) => /\ d.base = (IF pcr THEN "PC" ELSE n.as_reg)
                                   /\ d.indirect = i
                                   /\ Same(IF pcr THEN p + Len(code) + d.offset ELSE d.offset, s)
  BY DEF Written
<1>5. /\ idx = "xyus" => ~pcr
      /\ idx = "w" => n.as_reg = "W"
      /\ idx = "pcr" => n.as_reg \in {"PC", "PCR"}
  BY Xyus, OtherRegisters
<1>6. ~pcr /\ Len(code) \in {2, 3} => d.offset = s
  <2> SUFFICES ASSUME ~pcr, Len(code) \in {2, 3} PROVE d.offset = s
    OBVIOUS
  <2>1. Same(d.offset, s) /\ SignedWord(s)
    BY <1>4
  <2>2. d.offset \in Int /\ SignedWord(d.offset)
    BY <1>2, InWord
  <2> HIDE DEF d, s
  <2> QED BY <1>3, <2>1, <2>2, SameWord
<1> DEFINE r == ToRel16(s - (p + 2))
<1>7. /\ off = "8bit" /\ idx = "xyus" => s # 0 /\ (i \/ s \notin -16 .. 15)
      /\ off = "16bit" /\ idx = "xyus" => s \notin -128 .. 127
      /\ off = "8bit" => idx \in {"xyus", "pcr"}
      /\ off = "16bit" /\ idx = "pcr" => m.type = "int" /\ (IF pcr THEN r ELSE s) \notin -128 .. 127
      /\ off = "16bit" /\ idx = "w" => m.type = "int" /\ n.attr = "none"
      /\ off = "16bit" => idx \in {"xyus", "pcr", "w"}
  BY DEF NeedsBytes
<1>8. i \in BOOLEAN /\ p \in Int
  OBVIOUS
<1>13. pcr \in BOOLEAN
  OBVIOUS
<1> DEFINE l == Len(code)
<1>14. l \in {1, 2, 3} /\ (l = 2 => off = "8bit") /\ (l = 3 => off = "16bit")
  BY <1>1
<1>15. l > 1 => l \in {2, 3} /\ off \in {"8bit", "16bit"}
  <2> HIDE DEF l
  <2> QED BY <1>14
<1>16. Len(code) > 1 => Len(code) \in {2, 3} /\ off \in {"8bit", "16bit"}
  BY <1>15
<1> HIDE DEF s, d, idx, pcr, r, l
<1>17. ~pcr => Written(code, i, m, n, p)
  BY DEF pcr
<1>9. ASSUME Len(code) > 1, ~pcr, d \in Encodings1 PROVE FALSE
  <2>1. d.base # "PC" /\ (d.offset # 0 => d.base # "W" /\ d.indirect = FALSE /\ d.offset \in -16 .. 15)
    BY <1>9, Briefly DEF Brief
  <2>2. d.base = n.as_reg /\ d.indirect = i /\ d.offset = s
    BY <1>4, <1>6, <1>9, <1>16, <1>17
  <2>6. off = "8bit" \/ off = "16bit"
    BY <1>9, <1>16
  <2>3. CASE idx = "xyus"
    <3>1. s # 0 /\ (i \/ s \notin -16 .. 15)
      <4>1. CASE off = "8bit"
        BY <1>7, <2>3, <4>1
      <4>2. CASE off = "16bit"
        BY <1>3, <1>7, <2>3, <4>2
      <4> QED BY <2>6, <4>1, <4>2
    <3> QED BY <1>8, <2>1, <2>2, <3>1
  <2>4. CASE idx = "pcr"
    BY <1>5, <1>9, <2>1, <2>2, <2>4 DEF pcr
  <2>5. CASE idx = "w"
    <3>1. n.as_reg = "W" /\ s # 0
      <4>1. off = "16bit"
        BY <1>7, <2>5, <2>6
      <4>2. n.as_reg = "W" /\ n.attr = "none" /\ m.type = "int"
        BY <1>5, <1>7, <2>5, <4>1
      <4> QED BY <1>3, <4>2
    <3> QED BY <2>1, <2>2, <3>1
  <2> QED BY <1>7, <2>3, <2>4, <2>5, <2>6
<1>10. ASSUME Len(code) = 3, NEW q \in Postbytes2,
              LET e == Decoded(<<q, (code[3] + (IF pcr THEN 1 ELSE 0)) % 256>>)
              IN  [e EXCEPT !.offset = IF pcr THEN @ - 1 ELSE @] = d
       PROVE  FALSE
  <2> DEFINE x == code[3] + (IF pcr THEN 1 ELSE 0)
  <2>1. x \in Int /\ pcr \in BOOLEAN
    BY <1>1, <1>10 DEF pcr
  <2>2. LET e == Decoded(<<q, x % 256>>)
        IN  [e EXCEPT !.offset = IF pcr THEN @ - 1 ELSE @] = d
    BY <1>10
  <2> HIDE DEF x
  <2>3. d.base # "W" /\ (~pcr => d.offset \in -128 .. 127) /\ (pcr => d.offset + 1 \in -128 .. 127)
    BY <2>1, <2>2, NearOnly
  <2>4. CASE ~pcr
    <3>1. d.offset = s /\ d.base = n.as_reg
      BY <1>4, <1>6, <1>10, <2>4 DEF pcr
    <3>2. CASE idx = "w"
      BY <1>5, <2>3, <3>1, <3>2
    <3>3. CASE idx \in {"xyus", "pcr"}
      BY <1>1, <1>7, <1>10, <2>3, <2>4, <3>1, <3>3
    <3> QED BY <1>1, <1>7, <1>10, <3>2, <3>3
  <2>5. CASE pcr
    <3>1. idx = "pcr"
      BY <2>5 DEF pcr, idx, IdxType
    <3>2. m.type = "int" /\ r \notin -128 .. 127
      BY <1>1, <1>7, <1>10, <2>5, <3>1
    <3> DEFINE o == d.offset + 1
               t == s - (p + 2)
    <3>3. Same(p + 3 + d.offset, s)
      <4>1. Written(code, i, m, n, p)
        BY <3>2
      <4> QED BY <1>4, <1>10, <2>5, <4>1
    <3>4. d.offset \in Int
      BY <1>2, <1>10
    <3>5. o \in Int /\ t \in Int /\ p + 3 + d.offset - s = o - t
      BY <1>3, <1>8, <3>4
    <3>6. Same(o, t)
      <4> DEFINE a == p + 3 + d.offset
      <4>1. Same(a, s) /\ a - s = o - t
        <5> DEFINE c == d.offset
        <5>1. c \in Int /\ p \in Int /\ s \in Int /\ Same(p + 3 + c, s)
          BY <1>3, <1>8, <3>3, <3>4
        <5> HIDE DEF c
        <5>2. (p + 3 + c) - s = (c + 1) - (s - (p + 2))
          BY <5>1
        <5> QED BY <5>1, <5>2 DEF c
      <4> HIDE DEF a, o, t
      <4> QED BY <4>1, SameDistance
    <3>7. r \in Int /\ SignedWord(r) /\ Same(r, t)
      <4> HIDE DEF t
      <4> QED BY <3>5, Wrapped DEF r, t, SignedWord
    <3>8. o \in -128 .. 127
      BY <2>3, <2>5
    <3> HIDE DEF o, t
    <3>9. Same(o, r)
      BY <3>5, <3>6, <3>7, Classes
    <3>10. o = r
      BY <3>5, <3>7, <3>8, <3>9, InWord, SameWord
    <3> QED BY <3>2, <3>8, <3>10
  <2> QED BY <2>4, <2>5
<1>11. ~(Len(code) > 1 /\ ~pcr /\ d \in Encodings1)
  BY <1>9
<1>12. ~(/\ Len(code) = 3
         /\ \E q \in Postbytes2 :
               LET e == Decoded(<<q, (code[3] + (IF pcr THEN 1 ELSE 0)) % 256>>)
               IN  [e EXCEPT !.offset = IF pcr THEN @ - 1 ELSE @] = d)
  BY <1>10
<1> QED BY <1>11, <1>12 DEF Short, pcr, d

LEMMA XInvShortest == XInv => ShortestForm
<1> SUFFICES ASSUME XInv, OfTwo, Known, out.error = None, Pair2[1].attr = "none", ~ZeroRelative,
                    Pair2 # <<IntNode(0, "none"), RegNode("W", "none")>>,
                    ToPcr \/ SignedWord(Stated(Pair2[1]))
             PROVE  ~Shorter(Code)
  BY DEF ShortestForm
<1>1. PICK m, n, p, x : FromCall(m, n, p, x)
  BY Encoded
<1> DEFINE code == x.bytes
           i == Nested
<1>2. Pair2 = <<m, n>> /\ Pair2[1] = m
  BY <1>1 DEF FromCall
<1>3. /\ Evaluated(m) /\ Evaluated(n) /\ m.type # "undef" /\ n.type = "reg"
      /\ n.as_reg \in DOMAIN IdxType /\ p \in Int /\ i \in BOOLEAN
      /\ x = Indexed2(i, m, n, p) /\ x.error = None
      /\ Code = code /\ (ToPcr <=> n.as_reg = "PCR")
  BY <1>1 DEF FromCall
<1> HIDE DEF i
<1>4. m.attr = "none" /\ n.type # "undef" /\ (m.type = "int" => m.as_int \in Int)
  BY <1>2, <1>3 DEF Evaluated
<1>5. PICK k \in 1 .. 22 :
         LET v == Offset(Row(k).off, m, n, p)
         IN  /\ Fits(k, i, m, n, p)
             /\ \A j \in 1 .. 22 : Fits(j, i, m, n, p) => k <= j
             /\ code = <<Postbyte(Row(k), i, v, n)>> \o TailOf(Row(k).off, v)
  <2>1. ByRow(i, m, n, p, x)
    BY <1>3, <1>4, Indexed2Chosen, Zenon
  <2> QED BY <2>1 DEF ByRow
<1>6. NeedsBytes(Row(k).off, i, m, n, p)
  BY <1>3, <1>4, <1>5, FirstNeeds
<1>7. IsCoded(code, Row(k).off)
  BY <1>3, <1>4, <1>5, RowBytes
<1>8. (n.as_reg = "PCR" /\ m.type = "empty") \/ Written(code, i, m, n, p)
  <2> SUFFICES ASSUME ~(n.as_reg = "PCR" /\ m.type = "empty") PROVE Written(code, i, m, n, p)
    OBVIOUS
  <2>1. m.type = "int" => m = IntNode(m.as_int, m.attr)
    BY <1>3 DEF Evaluated
  <2>2. n.as_reg = "PCR" => ~(m.type = "int" /\ m.as_int = 0 /\ m.attr = "none")
    BY <1>2, <1>3, <2>1 DEF ZeroRelative
  <2>3. NotCut(m, n.as_reg = "PCR", p + Len(code))
    BY <1>4 DEF NotCut, Coercions
  <2>4. Asked(m, n, p, code)
    BY <1>4, <2>2, <2>3 DEF Asked
  <2> QED BY <1>3, <1>4, <2>4, IndexedRead
<1>9. n.as_reg = "W" /\ n.attr = "none" => ~(m.type = "int" /\ m.as_int = 0)
  <2>1. m.type = "int" => m = IntNode(m.as_int, m.attr)
    BY <1>3 DEF Evaluated
  <2>2. n = RegNode(n.as_reg, n.attr)
    BY <1>3 DEF Evaluated
  <2> QED BY <1>2, <1>4, <2>1, <2>2
<1>10. n.as_reg # "PCR" => SignedWord(Stated(m))
  BY <1>2, <1>3
<1> HIDE DEF code
<1> DEFINE off == Row(k).off
<1>11. NeedsBytes(off, i, m, n, p) /\ IsCoded(code, off)
  BY <1>6, <1>7
<1> HIDE DEF off
<1>12. Short(code, n.as_reg = "PCR")
  BY <1>3, <1>4, <1>8, <1>9, <1>10, <1>11, NotTooLong
<1>13. ToPcr = (n.as_reg = "PCR")
  BY <1>3 DEF ToPcr
<1>14. Shorter(code) = ~Short(code, ToPcr)
  BY DEF Short, Shorter
<1> QED BY <1>3, <1>12, <1>13, <1>14

(* For every line and program counter, no shorter encoding of an indexed     *)
(* operand of two arguments says what the one chosen says; of the order of   *)
(* the rows of indexed_modes[] (instr.c:105).                                *)
THEOREM FormsAreShortest == Spec => []ShortestForm
<1>1. Init => XInv
  BY InitXInv
<1>2. XInv /\ [Next]_vars => XInv'
  BY NextXInv
<1> QED BY <1>1, <1>2, XInvShortest, PTL DEF Spec

=============================================================================
