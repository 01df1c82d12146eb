------------------------------ MODULE Indexed -------------------------------
(* Indexed addressing (instr.c): the form an operand takes and the bytes it  *)
(* becomes.  What an instruction's handler does is a record: the opcode it   *)
(* emitted ("form", "none" if it returned before), the bytes after it, and   *)
(* the worst it reported.                                                    *)
EXTENDS Operands, ErrorLevels

Emit(form, bytes, error) == [form |-> form, bytes |-> bytes, error |-> error]
Refuse(form)             == Emit(form, <<>>, Syntax)

(* section_emit_uint8() and its kin, big-endian.                             *)
Uint8(v)  == <<v % 256>>
Uint16(v) == <<(v \div 256) % 256, v % 256>>
Uint32(v) == Uint16(v \div 65536) \o Uint16(v)
Pad(n)    == [i \in 1 .. n |-> 0]

(* to_rel16(): the loops that add or subtract 65536.                         *)
ToRel16(v) == ((v + 32768) % 65536) - 32768

(* indexed_modes, in order, and each row as a record.                        *)
IndexedModes == <<
    <<"xyus", "none",     "zero",  \h84, "ok">>,
    <<"xyus", "none",     "5bit",  \h00, "impossible">>,
    <<"xyus", "none",     "8bit",  \h88, "ok">>,
    <<"xyus", "none",     "16bit", \h89, "ok">>,
    <<"xyus", "none",     "A",     \h86, "ok">>,
    <<"xyus", "none",     "B",     \h85, "ok">>,
    <<"xyus", "none",     "D",     \h8b, "ok">>,
    <<"xyus", "postinc",  "none",  \h80, "illegal">>,
    <<"xyus", "postinc",  "zero",  \h80, "illegal">>,
    <<"xyus", "postinc2", "none",  \h81, "ok">>,
    <<"xyus", "postinc2", "zero",  \h81, "ok">>,
    <<"xyus", "predec",   "none",  \h82, "illegal">>,
    <<"xyus", "predec2",  "none",  \h83, "ok">>,
    <<"pcr",  "none",     "8bit",  \h8c, "ok">>,
    <<"pcr",  "none",     "16bit", \h8d, "ok">>,
    <<"xyus", "none",     "E",     \h87, "ok">>,
    <<"xyus", "none",     "F",     \h8a, "ok">>,
    <<"xyus", "none",     "W",     \h8e, "ok">>,
    <<"w",    "none",     "none",  \h8f, "6309">>,
    <<"w",    "none",     "16bit", \haf, "6309">>,
    <<"w",    "postinc2", "none",  \hcf, "6309">>,
    <<"w",    "predec2",  "none",  \hef, "6309">> >>

Mode(row) ==
    [idx |-> row[1], attr |-> row[2], off |-> row[3], postbyte |-> row[4],
     indirect |-> row[5]]

(* The register of the second argument: the rows it may use, the bits it     *)
(* sets.                                                                     *)
IdxType ==
    [X |-> "xyus", Y |-> "xyus", U |-> "xyus", S |-> "xyus",
     PC |-> "pcr", PCR |-> "pcr", W |-> "w"]
IdxSelect == [X |-> \h00, Y |-> \h20, U |-> \h40, S |-> \h60,
              PC |-> 0, PCR |-> 0, W |-> 0]

Coercions == {"5bit", "8bit", "16bit"}

(* An 8-bit offset that is one only by its distance from the program counter *)
(* after the instruction, judged a byte early; ...                           *)
OffsetFitsEarly(v, pcr, pc) == (IF pcr THEN ToRel16(v - (pc + 1)) ELSE v) \in -128 .. 127
OffsetFits(v, pcr, pc) == (IF pcr THEN ToRel16(v - (pc + 2)) ELSE v) \in -128 .. 127

(* off_type_compatible(): a coercing attribute decides alone.                *)
OffCompatible(off, pcr, n, pc) ==
    IF n.attr # "none" THEN n.attr \in Coercions /\ off = n.attr
    ELSE \/ n.type = "empty" /\ off \in {"none", "zero"} \cup Coercions
         \/ /\ n.type = "int"
            /\ \/ off = "zero" /\ n.as_int = 0
               \/ off = "5bit" /\ n.as_int \in -16 .. 15
               \/ off = "8bit" /\ OffsetFits(n.as_int, pcr, pc)
               \/ off = "16bit"
         \/ n.type = "reg" /\ off = n.as_reg /\ off \in {"A", "B", "D", "E", "F", "W"}

(* The first row that fits, 0 if none does; ... the last one.                *)
Fits(i, indirect, n0, n1, pc) ==
    LET mode == Mode(IndexedModes[i])
    IN  /\ mode.idx = IdxType[n1.as_reg]
        /\ mode.attr = n1.attr
        /\ OffCompatible(mode.off, n1.as_reg = "PCR", n0, pc)
        /\ ~(indirect /\ mode.indirect = "impossible")

LastMode(indirect, n0, n1, pc) ==
    SelectLastInSeq([i \in 1 .. Len(IndexedModes) |-> i],
                    LAMBDA i : Fits(i, indirect, n0, n1, pc))

FirstMode(indirect, n0, n1, pc) ==
    SelectInSeq([i \in 1 .. Len(IndexedModes) |-> i],
                LAMBDA i : Fits(i, indirect, n0, n1, pc))

(* The offset as it is emitted: an operand of constant zero counts as none,  *)
(* a distance is from the end of the instruction.                            *)
Offset(off, n0, n1, pc) ==
    IF n0.type # "int" \/ (n0.as_int = 0 /\ n0.attr = "none") THEN 0
    ELSE CASE n1.as_reg = "PCR" /\ off = "8bit"  -> n0.as_int - (pc + 2)
           [] n1.as_reg = "PCR" /\ off = "16bit" -> n0.as_int - (pc + 3)
           [] OTHER -> n0.as_int

(* The bits of a postbyte are disjoint: the row's, the register's, those of  *)
(* a 5-bit offset, and of indirection.                                       *)
Postbyte(mode, indirect, offset, n1) ==
    mode.postbyte + IdxSelect[n1.as_reg]
        + (IF mode.off = "5bit" THEN offset % 32 ELSE 0)
        + (CASE ~indirect -> 0
             [] indirect /\ mode.indirect = "6309" -> 1
             [] OTHER -> 16)

(* instr_indexed2() at program counter "pc", that of the postbyte.           *)
Indexed2(indirect, n0, n1, pc) ==
    LET i      == FirstMode(indirect, n0, n1, pc)
        mode   == Mode(IndexedModes[i])
        offset == Offset(mode.off, n0, n1, pc)
    IN  IF "undef" \in {n0.type, n1.type} THEN Emit("indexed", Pad(1), None)
        ELSE IF n1.type # "reg" \/ n1.as_reg \notin DOMAIN IdxType \/ i = 0
        THEN Refuse("indexed")
        ELSE Emit("indexed",
                  <<Postbyte(mode, indirect, offset, n1)>> \o
                      (CASE mode.off = "8bit"  -> Uint8(offset)
                         [] mode.off = "16bit" -> Uint16(offset)
                         [] OTHER -> <<>>),
                  IF indirect /\ mode.indirect = "illegal" THEN Illegal ELSE None)

(* One argument, [n] or what fits neither direct nor extended addressing.    *)
Indexed1(indirect, n) ==
    IF \/ n.type \notin {"int", "undef"}
       \/ n.attr \notin {"undef", "none", "16bit"}
    THEN Refuse("indexed")
    ELSE Emit("indexed", <<IF indirect THEN \h9f ELSE \h8f>> \o Uint16(n.as_int),
              IF indirect THEN None ELSE Illegal)

(* instr_indexed()                                                           *)
InstrIndexed(args, pc) ==
    LET indirect == Len(args) = 1 /\ args[1].type = "array"
        inner    == IF indirect THEN args[1].as_array ELSE args
        n        == IF inner # <<>> /\ inner[1].type = "string" THEN EvalInt(inner[1])
                    ELSE inner[1]
    IN  CASE Len(inner) = 1 -> Indexed1(indirect, n)
          [] Len(inner) = 2 -> Indexed2(indirect, n, inner[2], pc)
          [] OTHER -> Refuse("none")

=============================================================================
