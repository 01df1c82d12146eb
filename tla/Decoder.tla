------------------------------ MODULE Decoder -------------------------------
(* How the processor reads what the assembler wrote: the programming model   *)
(* of the 6809 and 6309, against which the encodings are checked.  It is     *)
(* read off the postbyte's bits, not off instr.c's table.                    *)
EXTENDS Integers, Sequences

Signed8(b)       == IF b < 128 THEN b ELSE b - 256
Signed16(hi, lo) == LET w == 256 * hi + lo IN IF w < 32768 THEN w ELSE w - 65536

(* An indexed operand: the base register, its pre-decrement or               *)
(* post-increment, the register and the number added to it.                  *)
Place(base, step, index, offset, indirect) ==
    [base |-> base, step |-> step, index |-> index, offset |-> offset,
     indirect |-> indirect]

WMode(postbyte) == postbyte \in {\h8f, \haf, \hcf, \hef, \h90, \hb0, \hd0, \hf0}

(* The modes of register W; the indirect ones share postbytes with an        *)
(* indirection through a register incremented by one, which there is not.    *)
DecodedW(bytes) ==
    LET k        == (bytes[1] \div 32) % 4
        indirect == bytes[1] % 2 = 0
    IN  CASE k = 0 -> Place("W", "none", "none", 0, indirect)
          [] k = 1 -> Place("W", "none", "none", Signed16(bytes[2], bytes[3]), indirect)
          [] k = 2 -> Place("W", "postinc2", "none", 0, indirect)
          [] k = 3 -> Place("W", "predec2", "none", 0, indirect)

(* The numbers of bytes after each postbyte.                                 *)
OffsetBytes(postbyte) ==
    CASE postbyte < 128 -> 0
      [] postbyte >= 128 /\ WMode(postbyte) -> IF postbyte \in {\haf, \hb0} THEN 2 ELSE 0
      [] postbyte >= 128 /\ ~WMode(postbyte) /\ postbyte % 16 \in {8, 12} -> 1
      [] postbyte >= 128 /\ ~WMode(postbyte) /\ postbyte % 16 \in {9, 13, 15} -> 2
      [] OTHER -> 0

(* The modes of the other registers.                                         *)
DecodedXyus(bytes) ==
    LET pb       == bytes[1]
        low      == pb % 16
        base     == <<"X", "Y", "U", "S">>[((pb \div 32) % 4) + 1]
        indirect == (pb \div 16) % 2 = 1
        Stepped(step)   == Place(base, step, "none", 0, indirect)
        Indexed(index)  == Place(base, "none", index, 0, indirect)
        Shifted(b, n)   == Place(b, "none", "none", n, indirect)
    IN  CASE low = 0  -> Stepped("postinc")
          [] low = 1  -> Stepped("postinc2")
          [] low = 2  -> Stepped("predec")
          [] low = 3  -> Stepped("predec2")
          [] low = 4  -> Shifted(base, 0)
          [] low = 5  -> Indexed("B")
          [] low = 6  -> Indexed("A")
          [] low = 7  -> Indexed("E")
          [] low = 8  -> Shifted(base, Signed8(bytes[2]))
          [] low = 9  -> Shifted(base, Signed16(bytes[2], bytes[3]))
          [] low = 10 -> Indexed("F")
          [] low = 11 -> Indexed("D")
          [] low = 12 -> Shifted("PC", Signed8(bytes[2]))
          [] low = 13 -> Shifted("PC", Signed16(bytes[2], bytes[3]))
          [] low = 14 -> Indexed("W")
          [] low = 15 -> Shifted("none", Signed16(bytes[2], bytes[3]))

(* An offset of 5 bits lies in the postbyte.                                 *)
Decoded(bytes) ==
    LET pb   == bytes[1]
        base == <<"X", "Y", "U", "S">>[((pb \div 32) % 4) + 1]
        n    == pb % 32
    IN  CASE Len(bytes) # 1 + OffsetBytes(pb) -> Place("none", "none", "none", 0, FALSE)
          [] Len(bytes) = 1 + OffsetBytes(pb) /\ pb < 128 ->
               Place(base, "none", "none", IF n < 16 THEN n ELSE n - 32, FALSE)
          [] Len(bytes) = 1 + OffsetBytes(pb) /\ pb >= 128 /\ WMode(pb) -> DecodedW(bytes)
          [] OTHER -> DecodedXyus(bytes)

(* The registers a nibble of TFR names, and those a byte of PSHS and PULS    *)
(* (PSHU and PULU) stands for.                                               *)
NibbleNames == [n \in 0 .. 15 |->
    <<"D", "X", "Y", "U", "S", "PC", "W", "V", "A", "B", "CC", "DP", "0", "0",
      "E", "F">>[n + 1]]

StackMasks == <<1, 2, 4, 8, 16, 32, 64, 128>>
Stacked(byte, other) ==
    {<<"CC", "A", "B", "DP", "X", "Y", other, "PC">>[i] :
        i \in {j \in 1 .. 8 : (byte \div StackMasks[j]) % 2 = 1}}

=============================================================================
