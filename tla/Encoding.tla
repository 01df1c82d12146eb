------------------------------ MODULE Encoding ------------------------------
(* One line of a program, its arguments evaluated, becomes bytes: the choice *)
(* of assemble_prog() between the handlers of instr.c and the data           *)
(* pseudo-ops, at any program counter and direct page.                       *)
EXTENDS Instructions, DataOps, Decoder

CONSTANTS
    Lines,      \* lines: [op, args, immediate], see Instructions
    Counters,   \* program counters
    Pages,      \* values of DP, -1 for none
    NoLine

Immediates == {"imm8", "imm16", "imm32"}

(* Evaluation gives numbers that are integers or fractions, strings of       *)
(* characters, registers, no node at all, and lists of these.                *)
Evaluated(n) ==
    /\ n.type = "undef" => n = Undefined
    /\ n.type = "int" => n.as_int \in Int /\ n = IntNode(n.as_int, n.attr)
    /\ n.type = "float" => n.as_float \in Int \X Nat
    /\ n.type = "string" => n.as_string \in Seq(0 .. 255)
    /\ n.type = "reg" => n.as_reg \in Registers /\ n = RegNode(n.as_reg, n.attr)

(* Lines come from the parser and the table of opcodes (opcode.c:24), in     *)
(* which only two extended types have addressing modes besides.              *)
ASSUME EncodingConstants ==
    /\ Counters \subseteq Int
    /\ Pages \subseteq Int
    /\ \A l \in Lines :
           /\ l.op.length \in Nat
           /\ l.op.ext \notin {"none", "imm8_mem"} \cup Immediates => l.op.mem = {}
           /\ l.args \in Seq(Range(l.args))
           /\ \A n \in Range(l.args) :
                  /\ Evaluated(n)
                  /\ n.type = "array" =>
                         /\ n.as_array \in Seq(Range(n.as_array))
                         /\ \A m \in Range(n.as_array) : Evaluated(m)

VARIABLES pc, dp, line, out

vars == <<pc, dp, line, out>>

Init ==
    /\ pc \in Counters
    /\ dp \in Pages
    /\ line = NoLine
    /\ out = Emit("none", <<>>, None)

(* args_float_to_int(): instructions take no floats, save in a nested list.  *)
IntArgs(l) ==
    [i \in DOMAIN l.args |->
        IF l.args[i].type = "float" THEN EvalInt(l.args[i]) ELSE l.args[i]]

Is(l, ext) == l.op.ext = ext
IsMem(l)   == /\ l.op.mem # {}
              /\ l.op.ext # "imm8_mem"
              /\ ~(l.op.ext \in Immediates /\ l.immediate)

Yields(l, outcome) ==
    /\ line' = l
    /\ out' = outcome
    /\ UNCHANGED <<pc, dp>>

Inherent(l)  == Is(l, "inherent") /\ Yields(l, InstrInherent(IntArgs(l)))
Immediate(l) == /\ l.op.ext \in Immediates /\ l.immediate
                /\ Yields(l, InstrImmediate(l.op, IntArgs(l)))
Imm8Mem(l)   == Is(l, "imm8_mem") /\ Yields(l, InstrImm8Mem(l.op, IntArgs(l), dp, pc))
Address(l)   == IsMem(l) /\ Yields(l, InstrAddress(l.op, IntArgs(l), <<>>, dp, pc))
Rel(l)       == /\ l.op.ext \in {"rel8", "rel16"}
                /\ Yields(l, InstrRel(l.op, IntArgs(l), pc + l.op.length))
StackS(l)    == Is(l, "stacks") /\ Yields(l, InstrStack(IntArgs(l), "S"))
StackU(l)    == Is(l, "stacku") /\ Yields(l, InstrStack(IntArgs(l), "U"))
Pair(l)      == Is(l, "pair") /\ \E o \in InstrPair(IntArgs(l)) : Yields(l, o)
Tfm(l)       == Is(l, "tfm") /\ Yields(l, InstrTfm(IntArgs(l)))
RegMem(l)    == Is(l, "reg_mem") /\ Yields(l, InstrRegMem(IntArgs(l)))
Form(l)      == l.op.ext \in DOMAIN FormMode /\ Yields(l, PseudoForm(l.op.ext, l.args))
Words(l)     == l.op.ext \in {"fdb", "fqb"} /\ Yields(l, PseudoWords(l.op.ext, l.args))
Fill(l)      == l.op.ext \in {"rzb", "fill"} /\ Yields(l, PseudoFill(l.op.ext, l.args))
Rmb(l)       == l.op.ext = "rmb" /\ Yields(l, PseudoRmb(l.args))
Align(l)     == l.op.ext = "align" /\ Yields(l, PseudoAlign(l.args, pc))
Includebin(l) == l.op.ext = "includebin" /\ Yields(l, PseudoIncludebin(l.args))

(* None of the above: an immediate operand of an instruction without, or     *)
(* another one's only form missing.                                          *)
NoMode(l) ==
    /\ l.op.ext \in Immediates /\ ~l.immediate /\ l.op.mem = {}
    /\ Yields(l, Refuse("none"))

Waiting == IF line = NoLine THEN Lines ELSE {}

Next ==
    \E l \in Waiting :
        \/ Inherent(l) \/ Immediate(l) \/ Imm8Mem(l) \/ Address(l) \/ Rel(l)
        \/ StackS(l) \/ StackU(l) \/ Pair(l) \/ Tfm(l) \/ RegMem(l)
        \/ Form(l) \/ Words(l) \/ Fill(l) \/ Rmb(l) \/ Align(l) \/ Includebin(l)
        \/ NoMode(l)

Spec == Init /\ [][Next]_vars

-----------------------------------------------------------------------------
(* What a line was meant to say, against what the processor reads.           *)

(* Two numbers that are one address, or one word.                            *)
Same(a, b) == (a - b) % 65536 = 0

Accepted == line # NoLine /\ ~Failing(out.error)

(* The operand of a line, past an immediate byte, and its encoding.          *)
Operand == LET args == IntArgs(line) IN IF Is(line, "imm8_mem") THEN Tail(args) ELSE args
Skipped == IF Is(line, "imm8_mem") THEN 1 ELSE 0
Code    == SubSeq(out.bytes, Skipped + 1, Len(out.bytes))
EndPc   == pc + line.op.length + Len(out.bytes)

Nested == Len(Operand) = 1 /\ Operand[1].type = "array"
Pair2  == LET args == IF Nested THEN Operand[1].as_array ELSE Operand
          IN  [i \in DOMAIN args |-> IF args[i].type = "string" THEN EvalInt(args[i])
                                                                ELSE args[i]]
OfTwo  == out.form = "indexed" /\ Len(Pair2) = 2
Known  == \A i \in DOMAIN Pair2 : Pair2[i].type # "undef"
ToPcr  == OfTwo /\ Pair2[2].type = "reg" /\ Pair2[2].as_reg = "PCR"

(* What an offset adds up to, PCR's being an address.                        *)
Stated(n) == IF n.type = "int" THEN n.as_int ELSE 0
Reached   == IF ToPcr THEN EndPc + Decoded(Code).offset ELSE Decoded(Code).offset

(* An offset forced into a width that it does not fit, or that is none.      *)
Fitting == [w \in Coercions |->
    CASE w = "5bit" -> -16 .. 15 [] w = "8bit" -> -128 .. 127 [] OTHER -> -65536 .. 65535]
Cut(n)  == /\ n.attr \in Coercions
           /\ \/ n.type \notin {"int", "empty"}
              \/ (IF ToPcr THEN ToRel16(Stated(n) - EndPc) ELSE Stated(n)) \notin Fitting[n.attr]
ZeroRelative == ToPcr /\ Pair2[1] = IntNode(0, "none")
EmptyForced  == ToPcr /\ Pair2[1].type = "empty"

(* An encoding read again names the register, the step, the index and the    *)
(* offset that were written, whichever of the table's rows was chosen; of    *)
(* instr_indexed2() (instr.c:243).  Excepted are offsets that a prefix       *)
(* forces into too few bits, and a distance to address 0 (PcrReachesTarget). *)
IndexedKept ==
    (OfTwo /\ Known /\ out.error = None /\ ~Cut(Pair2[1]) /\ ~ZeroRelative /\ ~EmptyForced)
    =>  LET d == Decoded(Code)
        IN  /\ d.base = (IF ToPcr THEN "PC" ELSE Pair2[2].as_reg)
            /\ d.step = Pair2[2].attr
            /\ d.index = (IF Pair2[1].type = "reg" THEN Pair2[1].as_reg ELSE "none")
            /\ d.indirect = Nested
            /\ Same(Reached, Stated(Pair2[1]))

(* A distance to any constant address lands on it, as "cmpu $f0d9,pcr" of    *)
(* the tests does; of instr_indexed2() (instr.c:294).                        *)
PcrReachesTarget ==
    (ToPcr /\ out.error = None /\ Pair2[1].type = "int" /\ ~Cut(Pair2[1]))
    => Same(Reached, Stated(Pair2[1]))

(* No shorter encoding says the same, unless a prefix asked for the longer,  *)
(* so that the order of the table's rows is right; of indexed_modes          *)
(* (instr.c:152).  A distance is tried with one byte less between.  Left out *)
(* are "0,W", encoded with 16 bits of zero though ",W" has none, and offsets *)
(* that are no signed word, such as 65535, which the bytes have as -1 though *)
(* the row is chosen for a large number.                                     *)
Encodings1 == {Decoded(<<b>>) : b \in {p \in 0 .. 255 : OffsetBytes(p) = 0}}
Postbytes2 == {p \in 0 .. 255 : OffsetBytes(p) = 1}
Shorter(bytes) ==
    \/ Len(bytes) > 1 /\ ~ToPcr /\ Decoded(bytes) \in Encodings1
    \/ /\ Len(bytes) = 3
       /\ \E p \in Postbytes2 :
             LET d == Decoded(<<p, (bytes[3] + (IF ToPcr THEN 1 ELSE 0)) % 256>>)
             IN  [d EXCEPT !.offset = IF ToPcr THEN @ - 1 ELSE @] = Decoded(bytes)

SignedWord(v) == -32768 <= v /\ v <= 32767

ShortestForm ==
    (/\ OfTwo /\ Known /\ out.error = None /\ Pair2[1].attr = "none" /\ ~ZeroRelative
     /\ Pair2 # <<IntNode(0, "none"), RegNode("W", "none")>>
     /\ ToPcr \/ SignedWord(Stated(Pair2[1])))
    => ~Shorter(Code)

(* A direct operand read with the page in DP, or an extended one, is the     *)
(* address written; "<" vouches for the page.  A known address within the    *)
(* page is never three bytes long, and one that is not known always is; of   *)
(* instr_address() (instr.c:428).  A register's name counts as not known.    *)
AddressKept ==
    (IsMem(line) \/ Is(line, "imm8_mem")) /\ out.form \in {"direct", "extended"}
    =>  LET n == EvalInt(Operand[1])
        IN  CASE out.form = "direct" ->
                   /\ n.type = "int"
                   /\ n.attr = "8bit" \/ Same(256 * dp + Code[1], n.as_int)
                   /\ (Code[1] - n.as_int) % 256 = 0
              [] OTHER ->
                   /\ n.type = "int" => Same(256 * Code[1] + Code[2], n.as_int)
                   /\ n.attr = "none" /\ "direct" \in line.op.mem => Code[1] # dp

(* An accepted branch lands on its target, and one is refused only if no     *)
(* offset reaches; of instr_rel() (instr.c:89).                              *)
BranchReaches ==
    (line.op.ext \in {"rel8", "rel16"} /\ out.form = "immediate" /\ line.args[1].type = "int")
    =>  LET offset == IF Len(Code) = 1 THEN Signed8(Code[1]) ELSE Signed16(Code[1], Code[2])
            lands(o) == Same(EndPc + o, line.args[1].as_int)
        IN  IF Failing(out.error) THEN ~\E o \in -128 .. 127 : lands(o)
                                  ELSE lands(offset)

(* The registers named are those the processor moves: PSHS and its kin stack *)
(* the set of them, TFR and its kin pair nibbles of equal size in order, TFM *)
(* takes its direction from the signs, and a bit operation has register and  *)
(* bits in their fields; of instr.c:500, 531, 580, 639.  Q and PCR, which    *)
(* have no nibble, and registers or bits that are no names are left out.     *)
Named(n)  == n.type = "reg" /\ n.as_reg \notin {"Q", "PCR"}
Nibbles(b) == <<NibbleNames[b \div 16], NibbleNames[b % 16]>>
Direction(from, to) ==
    CASE from = "postinc" /\ to = "postinc" -> "tfm++" [] from = "postdec" /\ to = "postdec" -> "tfm--"
      [] from = "postinc" /\ to = "none" -> "tfm+." [] from = "none" /\ to = "postinc" -> "tfm.+"
StackedNames ==
    UNION {IF line.args[i].as_reg = "D" THEN {"A", "B"} ELSE {line.args[i].as_reg} : i \in DOMAIN line.args}

RegistersKept ==
    Accepted =>
        /\ Is(line, "stacks") => Stacked(Code[1], "U") = StackedNames
        /\ Is(line, "stacku") => Stacked(Code[1], "S") = StackedNames
        /\ (Is(line, "pair") /\ \A i \in 1 .. 2 : Named(line.args[i])) =>
               /\ Nibbles(Code[1]) = <<line.args[1].as_reg, line.args[2].as_reg>>
               /\ (out.error = None) = (TfrSize[line.args[1].as_reg] = TfrSize[line.args[2].as_reg])
        /\ (Is(line, "tfm") /\ \A i \in 1 .. 2 : line.args[i].type = "reg") =>
               /\ Nibbles(Code[1]) = <<line.args[1].as_reg, line.args[2].as_reg>>
               /\ out.form = Direction(line.args[1].attr, line.args[2].attr)
        /\ (Is(line, "reg_mem") /\ line.args[1].type = "reg") =>
               /\ <<"CC", "A", "B">>[Code[1] \div 64 + 1] = line.args[1].as_reg
               /\ line.args[2].type = "int" => (Code[1] \div 8) % 8 = line.args[2].as_int
               /\ line.args[3].type = "int" => Code[1] % 8 = line.args[3].as_int

(* An operand that is not known yet never ends assembly, for a later pass    *)
(* may know it; of every handler.  Of those whose length it could change, a  *)
(* short branch, a pair of registers and an immediate byte take one byte of  *)
(* operand, a long branch, an immediate word and a bit operation two, and an *)
(* address two unless it turns out shorter.  The line has as many arguments as its handler takes, and  *)
(* the others are ones that it takes whatever comes of the unknown.  PSHS,   *)
(* TFM, ALIGN and INCLUDEBIN do not wait (NameMayBeForward).                 *)
Waits(l) == l.op.ext \notin {"stacks", "stacku", "tfm", "align", "includebin"}
Takes(l, n) ==
    LET most == IF "indexed" \in l.op.mem THEN 1 ELSE 0
    IN  CASE IsMem(l) -> n \in 1 .. 1 + most
          [] Is(l, "imm8_mem") -> n \in 2 .. 2 + most
          [] ~IsMem(l) /\ l.op.ext \in Immediates -> l.immediate /\ n = 1
          [] OTHER ->
               CASE l.op.ext = "inherent" -> n = 0
                 [] l.op.ext \in {"rel8", "rel16", "rmb"} -> n = 1
                 [] l.op.ext = "rzb" -> n \in 1 .. 2
                 [] l.op.ext \in {"pair", "fill"} -> n = 2
                 [] l.op.ext = "reg_mem" -> n = 4
                 [] OTHER -> TRUE
Addressing == IsMem(line) \/ Is(line, "imm8_mem")
Settled(n) ==
    \/ n.type = "int" /\ n.as_int \in 1 .. 7 /\ (Addressing => n.attr = "none")
    \/ n.type = "reg" /\ (Is(line, "pair") \/ (Addressing /\ Len(Operand) = 2))
    \/ n.type = "reg" /\ Is(line, "reg_mem") /\ n.as_reg \in DOMAIN RegMemRegister
OneByte   == {"rel8", "pair", "imm8"}
TwoBytes  == {"rel16", "imm16", "reg_mem"}

UndefinedTolerated ==
    (/\ line # NoLine /\ Waits(line) /\ Takes(line, Len(line.args))
     /\ Undefined \in Range(IF Len(Operand) = 1 THEN line.args ELSE Operand)
     /\ \A n \in Range(Operand) : n.type = "undef" \/ Settled(n))
    => /\ ~Failing(out.error)
       /\ (line.op.ext \in OneByte /\ ~IsMem(line)) => Len(out.bytes) = 1
       /\ (line.op.ext \in TwoBytes /\ ~IsMem(line)) => Len(out.bytes) = 2
       /\ (IsMem(line) /\ line.args = <<Undefined>> /\ "extended" \in line.op.mem) =>
              Len(out.bytes) = 2

(* The file name of INCLUDEBIN may be a forward reference, says the comment  *)
(* above pseudo_includebin() (assemble.c:954).                               *)
NameMayBeForward ==
    (line # NoLine /\ Is(line, "includebin") /\ line.args = <<Undefined>>) => ~Failing(out.error)

(* Data read back: every argument in its turn and alone, numbers cut to      *)
(* their width, strings character by character, if no float is beyond what   *)
(* an int holds; FCN ends with a zero, FCS marks the last byte of each value *)
(* only, FCI is FCV in inverse video save for graphics characters; of        *)
(* emit_formatted() (assemble.c:738) and the handlers that call it.  After ALIGN the program counter is a multiple of  *)
(* the alignment, by the least number of bytes, wherever it stood, below     *)
(* zero too (ORG takes any number); of pseudo_align() (assemble.c:914).      *)
Plain(n) == IF n.type = "string" THEN n.as_string ELSE <<EvalInt(n).as_int % 256>>
Graphic(c) == c >= 128
IntHolds(n) == n.type = "float" =>
    n.as_float[2] # 0 /\ Quotient(n.as_float[1], n.as_float[2]) \in IntLeast .. -(IntLeast + 1)
Marked(s)  == [i \in DOMAIN s |-> IF i = Len(s) THEN (s[i] % 128) + 128 ELSE s[i]]
WrittenBytes(l)  == FlattenSeq([i \in DOMAIN l.args |-> Plain(l.args[i])])
Shown(op)  == PseudoForm(op, line.args).bytes

DataAsDocumented ==
    (line # NoLine /\ out.error = None /\ line.args # <<>>) =>
        /\ (\A n \in Range(line.args) : IntHolds(n)) =>
               /\ line.op.ext \in {"fcb", "fcc"} => out.bytes = WrittenBytes(line)
               /\ Is(line, "fcn") => out.bytes = Append(WrittenBytes(line), 0)
        /\ (Is(line, "fcs") /\ \A n \in Range(line.args) :
                                   IntHolds(n) /\ n.type \notin {"empty", "undef"}) =>
               out.bytes = FlattenSeq([i \in DOMAIN line.args |-> Marked(Plain(line.args[i]))])
        /\ Is(line, "fci") =>
               /\ Len(out.bytes) = Len(Shown("fcv"))
               /\ \A i \in DOMAIN out.bytes :
                      out.bytes[i] \in {Shown("fcv")[i], (Shown("fcv")[i] + 64) % 128}
               /\ \A n \in Range(line.args) : n.type = "string" =>
                      \A i \in DOMAIN n.as_string : ~Graphic(n.as_string[i]) =>
                          Contains(out.bytes, ((Vdg(n.as_string[i]) + 64) % 128))
        /\ Is(line, "fdb") =>
               \A i \in DOMAIN line.args : line.args[i].type # "undef" =>
                   Same(256 * out.bytes[2 * i - 1] + out.bytes[2 * i], EvalInt(line.args[i]).as_int)
        /\ Is(line, "align") =>
               LET align == HaveInt(line.args, 1, 0)
               IN  (pc + Len(out.bytes)) % align = 0 /\ Len(out.bytes) < align

=============================================================================
