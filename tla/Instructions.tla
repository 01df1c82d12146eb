---------------------------- MODULE Instructions ----------------------------
(* The other handlers of instr.c, and the choice between them in             *)
(* assemble_prog().  An opcode is a record: "mem", the addressing modes it   *)
(* has; "ext", its extended type; "length", 1 or 2 bytes of opcode.          *)
EXTENDS Indexed

CONSTANTS
    Isa6309,        \* asm6809_options.isa is the 6309's
    Garbage         \* what an uninitialised integer may hold

ASSUME GarbageHeld == Garbage # {}

(* register.c.  A size is the set of its bits, all of them for -1.           *)
TfrSize ==
    [CC |-> {8}, A |-> {8}, B |-> {8}, DP |-> {8}, X |-> {16}, Y |-> {16},
     U |-> {16}, S |-> {16}, PC |-> {16}, D |-> {16}, PCR |-> {8, 16, 32},
     E |-> {8}, F |-> {8}, W |-> {16}, Q |-> {32}, V |-> {16}]
TfrNibble ==
    [CC |-> 10, A |-> 8, B |-> 9, DP |-> 11, X |-> 1, Y |-> 2, U |-> 3, S |-> 4,
     PC |-> 5, D |-> 0, PCR |-> -1, E |-> 14, F |-> 15, W |-> 6, Q |-> -1, V |-> 7]
StackBits ==
    [CC |-> {1}, A |-> {2}, B |-> {4}, DP |-> {8}, X |-> {16}, Y |-> {32},
     U |-> {64}, S |-> {64}, PC |-> {128}, D |-> {2, 4}, PCR |-> {},
     E |-> {}, F |-> {}, W |-> {}, Q |-> {}, V |-> {}]
Registers == DOMAIN TfrNibble

(* instr_inherent()                                                          *)
InstrInherent(args) ==
    Emit("immediate", <<>>, IF args = <<>> THEN None ELSE Syntax)

(* instr_immediate()                                                         *)
InstrImmediate(op, args) ==
    LET v == EvalInt(args[1]).as_int
    IN  IF Len(args) # 1 THEN Refuse("none")
        ELSE Emit("immediate",
                  CASE op.ext = "imm8" -> Uint8(v) [] op.ext = "imm16" -> Uint16(v)
                    [] op.ext = "imm32" -> Uint32(v), None)

(* instr_rel(); a distance taken from the wrong end of the opcode; ...       *)
InstrRelFromOpcode(op, args, pc) ==
    IF Len(args) # 1 THEN Refuse("none")
    ELSE IF args[1].type # "int"
    THEN Emit("immediate", Pad(IF op.ext = "rel8" THEN 1 ELSE 2), None)
    ELSE LET rel8  == ToRel16(args[1].as_int - pc)
             short == rel8 \in -128 .. 127
         IN  IF op.ext = "rel8"
             THEN Emit("immediate", Uint8(rel8), IF short THEN None ELSE OutOfRange)
             ELSE Emit("immediate", Uint16(rel8), None)

InstrRel(op, args, pc) ==
    IF Len(args) # 1 THEN Refuse("none")
    ELSE IF args[1].type # "int"
    THEN Emit("immediate", Pad(IF op.ext = "rel8" THEN 1 ELSE 2), None)
    ELSE LET rel8  == ToRel16(args[1].as_int - (pc + 1))
             short == rel8 \in -128 .. 127
         IN  IF op.ext = "rel8"
             THEN Emit("immediate", Uint8(rel8), IF short THEN None ELSE OutOfRange)
             ELSE Emit("immediate", Uint16(rel8 - 1),
                       IF short /\ args[1].attr # "16bit" THEN Inefficient ELSE None)

(* instr_address(): "imm" is the immediate byte before the operand, <<>> if  *)
(* there is none, and "pc" the program counter of the opcode.  What is no    *)
(* number counts as not known yet: 16 bits, of the program counter.          *)
AnyPage(dp, addr) == dp # -1
InPage(dp, addr)  == dp = addr \div 256

InstrAddress(op, args, imm, dp, pc) ==
    LET n       == EvalInt(args[1])
        attr    == IF n.type = "undef" THEN "16bit" ELSE n.attr
        addr    == IF n.type = "undef" THEN pc ELSE n.as_int % 65536
        Before(out) == [out EXCEPT !.bytes = IF out.form = "none" THEN @ ELSE imm \o @]
    IN  CASE Len(args) \notin 1 .. 2 -> Refuse("none")
          [] Len(args) = 2 /\ "indexed" \notin op.mem -> Refuse("none")
          [] Len(args) = 2 \/ (Len(args) = 1 /\ args[1].type = "array") ->
               Before(InstrIndexed(args, pc + op.length + Len(imm)))
          [] OTHER ->
               Before(CASE /\ "direct" \in op.mem
                           /\ \/ attr = "8bit"
                              \/ attr = "none" /\ InPage(dp, addr)
                             -> Emit("direct", Uint8(addr), None)
                        [] /\ "extended" \in op.mem
                           /\ attr \in {"none", "16bit"}
                           /\ ~("direct" \in op.mem /\ attr = "none"
                                  /\ InPage(dp, addr))
                             -> Emit("extended", Uint16(addr), None)
                        [] OTHER -> InstrIndexed(args, pc + op.length + Len(imm)))

(* instr_imm8_mem(): what is not an integer counts as 0.                     *)
InstrImm8Mem(op, args, dp, pc) ==
    LET imm == Uint8(IF args[1].type = "int" THEN args[1].as_int ELSE 0)
    IN  IF Len(args) \notin 2 .. 3 \/ (Len(args) = 3 /\ "indexed" \notin op.mem)
        THEN Refuse("none")
        ELSE InstrAddress(op, Tail(args), imm, dp, pc)

(* instr_stack(), which sets the bits of one register after the other.       *)
Byte(bits) == LET Of(b) == IF b \in bits THEN b ELSE 0
              IN  Of(1) + Of(2) + Of(4) + Of(8) + Of(16) + Of(32) + Of(64) + Of(128)

InstrStack(args, stack) ==
    IF \E i \in DOMAIN args : \/ args[i].type # "reg"
                              \/ args[i].as_reg = stack
                              \/ StackBits[args[i].as_reg] = {}
    THEN Refuse("none")
    ELSE Emit("immediate",
              Uint8(Byte(UNION {StackBits[args[i].as_reg] : i \in DOMAIN args})),
              None)

(* instr_pair(), for one argument: its nibble, its size, what it reports.    *)
(* A number is cut to an int; an undefined argument leaves nibble and size   *)
(* as they are found, the size with any bits that a register's may have.     *)
PairArg(n) ==
    LET v == IntCut(n.as_int)
    IN  CASE n.type = "reg" ->
               {[nibble |-> TfrNibble[n.as_reg], size |-> TfrSize[n.as_reg], error |-> None]}
          [] n.type = "int" /\ v = 0 /\ Isa6309 ->
               {[nibble |-> 12, size |-> {8, 16}, error |-> None]}
          [] n.type = "int" /\ ~(v = 0 /\ Isa6309) ->
               {[nibble |-> v % 16, size |-> {8, 16},
                 error |-> IF v \in 0 .. 15 THEN Illegal ELSE OutOfRange]}
          [] n.type = "undef" ->
               {[nibble |-> g, size |-> s, error |-> None] :
                    g \in Garbage, s \in SUBSET {8, 16, 32}}
          [] OTHER -> {}

(* (nibble[0] << 4) | nibble[1], where a nibble of -1 has every bit set; ... *)
(* the two exchanged.                                                        *)
PairByteExchanged(hi, lo) == (16 * lo + hi) % 256
PairByte(hi, lo) == IF lo = -1 THEN 255 ELSE (16 * hi + lo) % 256

InstrPair(args) ==
    IF Len(args) # 2 THEN {Refuse("none")}
    ELSE IF \E i \in 1 .. 2 : PairArg(args[i]) = {} THEN {Refuse("none")}
    ELSE {Emit("immediate", <<PairByte(a.nibble, b.nibble)>>,
               Raise(Raise(a.error, b.error),
                     IF a.size \cap b.size = {} THEN Illegal ELSE None)) :
              a \in PairArg(args[1]), b \in PairArg(args[2])}

(* instr_tfm(): the attributes choose one of four opcodes.                   *)
TfmModes == << <<"postinc", "postinc">>, <<"postdec", "postdec">>,
               <<"postinc", "none">>, <<"none", "postinc">> >>

TfmRefuses(n) ==
    \/ n.type \notin {"reg", "int"}
    \/ n.type = "reg" /\ TfrNibble[n.as_reg] \notin 0 .. 4
TfmNibble(n) == IF n.type = "reg" THEN TfrNibble[n.as_reg] ELSE IntCut(n.as_int) % 16
TfmError(n) ==
    CASE n.type # "int" -> None
      [] n.type = "int" /\ IntCut(n.as_int) \in 0 .. 4 -> Illegal
      [] OTHER -> OutOfRange

InstrTfm(args) ==
    IF Len(args) # 2 THEN Refuse("none")
    ELSE LET mod == SelectInSeq(TfmModes, LAMBDA m : m = <<args[1].attr, args[2].attr>>)
         IN  IF TfmRefuses(args[1]) \/ TfmRefuses(args[2]) \/ mod = 0 THEN Refuse("none")
             ELSE Emit(<<"tfm++", "tfm--", "tfm+.", "tfm.+">>[mod],
                       <<PairByte(TfmNibble(args[1]), TfmNibble(args[2]))>>,
                       Raise(TfmError(args[1]), TfmError(args[2])))

(* instr_reg_mem(): the register's bits, 3 for what is not one; ... a bit    *)
(* that is not known yet refused.                                            *)
RegMemRegister == [CC |-> 0, A |-> 64, B |-> 128]
BitRefusedUnknown(n) == n.type # "int" \/ n.as_int \notin 0 .. 7
BitRefused(n) == n.type = "int" /\ n.as_int \notin 0 .. 7
Bit(n) == IF n.type = "int" /\ ~BitRefused(n) THEN n.as_int ELSE 0

InstrRegMem(args) ==
    IF Len(args) # 4 THEN Refuse("none")
    ELSE IF \/ args[1].type \notin {"undef", "int", "reg"}
            \/ args[1].type = "reg" /\ args[1].as_reg \notin DOMAIN RegMemRegister
    THEN Refuse("none")
    ELSE Emit("direct",
              <<(IF args[1].type = "reg" THEN RegMemRegister[args[1].as_reg] ELSE 192)
                    + 8 * Bit(args[2]) + Bit(args[3])>> \o
                  (IF args[4].type = "int" THEN Uint8(args[4].as_int) ELSE Pad(1)),
              IF BitRefused(args[2]) \/ BitRefused(args[3]) THEN OutOfRange
              ELSE IF args[1].type = "int" THEN Illegal ELSE None)

=============================================================================
