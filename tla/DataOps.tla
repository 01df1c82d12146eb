------------------------------ MODULE DataOps -------------------------------
(* Pseudo-ops that emit or reserve data (assemble.c), of arguments already   *)
(* evaluated: the bytes they emit or, for RMB and ALIGN, the bytes they skip *)
(* ("skip").  Files are the binary objects INCLUDEBIN finds.                 *)
EXTENDS Indexed

CONSTANT Files     \* name -> bytes

Stored(bytes, error)   == Emit("data", bytes, error)
Reserved(count, error) == Emit("skip", Pad(count), error)

(* ascii_to_vdg(): bit 6, inverted for inverse video but not in graphics     *)
(* characters.                                                               *)
Inverted(v) == IF (v \div 64) % 2 = 0 THEN v + 64 ELSE v - 64
Vdg(c) ==
    CASE c < 32 \/ c \in 64 .. 95 \/ c >= 128 -> c
      [] c \in 32 .. 63 -> c + 64
      [] OTHER -> c - (IF c = 96 THEN 64 ELSE 96)
AsciiToVdg(c, invert) == IF invert /\ c < 128 THEN Inverted(Vdg(c)) ELSE Vdg(c)

(* A number FCB is given: a float is converted to an int32_t.                *)
Given(n) == IF n.type = "float" THEN TruncatedTo(n.as_float, IntLeast) ELSE n.as_int

(* ... the top bit set in every character, not the last only; ...            *)
TopBit(v) == IF v % 256 < 128 THEN v + 128 ELSE v
FormattedAllTop(n, mode) ==
    CASE n.type = "string" /\ mode = "keyword" ->
           Stored([i \in DOMAIN n.as_string |-> TopBit(n.as_string[i])], None)
      [] n.type = "string" /\ mode # "keyword" -> Stored(n.as_string, None)
      [] n.type \in {"undef", "empty"} -> Stored(Pad(1), None)
      [] n.type \in {"int", "float"} -> Stored(Uint8(Given(n)), None)
      [] OTHER -> Stored(<<>>, Syntax)

(* emit_formatted(), mode one of "none", "vdg", "inverse", "keyword".        *)
Formatted(n, mode) ==
    LET Top(v)  == IF mode = "keyword" THEN TopBit(v) ELSE v
        Char(i) == CASE mode = "vdg"     -> AsciiToVdg(n.as_string[i], FALSE)
                     [] mode = "inverse" -> AsciiToVdg(n.as_string[i], TRUE)
                     [] OTHER -> IF i = Len(n.as_string) THEN Top(n.as_string[i]) ELSE n.as_string[i]
    IN  CASE n.type \in {"undef", "empty"} -> Stored(Pad(1), None)
          [] n.type \in {"int", "float"}   -> Stored(Uint8(Top(Given(n))), None)
          [] n.type = "string"             -> Stored([i \in DOMAIN n.as_string |-> Char(i)], None)
          [] OTHER                         -> Stored(<<>>, Syntax)

(* have_int_optional() and have_int_required(): the value, and what is       *)
(* reported.                                                                 *)
HaveInt(args, i, default) ==
    IF i \notin DOMAIN args THEN default
    ELSE CASE args[i].type \in {"int", "float"} -> EvalInt(args[i]).as_int
           [] args[i].type = "empty" -> 0
           [] OTHER -> default
IntRefused(args, i) ==
    i \in DOMAIN args /\ args[i].type \notin {"int", "float", "empty", "undef"}

(* What a list of arguments emits one after the other.                       *)
Joined(outs) ==
    Stored(FlattenSeq([i \in DOMAIN outs |-> outs[i].bytes]),
         IF \E i \in DOMAIN outs : outs[i].error = Syntax THEN Syntax ELSE None)

FormMode == [fcb |-> "none", fcc |-> "none", fcn |-> "none", fcv |-> "vdg",
             fci |-> "inverse", fcs |-> "keyword"]

(* FCB, FCC, FCV, FCI, FCN, FCS                                              *)
PseudoForm(op, args) ==
    LET outs == [i \in DOMAIN args |-> Formatted(args[i], FormMode[op])]
    IN  IF args = <<>> THEN Stored(<<>>, Syntax)
        ELSE Joined(IF op = "fcn" THEN Append(outs, Stored(Pad(1), None)) ELSE outs)

(* FDB, FQB                                                                  *)
PseudoWords(op, args) ==
    IF args = <<>> THEN Stored(<<>>, Syntax)
    ELSE Joined([i \in DOMAIN args |->
             LET v == HaveInt(args, i, 0)
             IN  Stored(IF op = "fdb" THEN Uint16(v) ELSE Uint32(v),
                      IF IntRefused(args, i) THEN Syntax ELSE None)])

(* RZB count[,fill] and FILL fill,count                                      *)
PseudoFill(op, args) ==
    LET c == IF op = "rzb" THEN 1 ELSE 2
        count == HaveInt(args, c, 0)
        fill  == HaveInt(args, 3 - c, 0)
    IN  IF Len(args) \notin (IF op = "rzb" THEN 1 .. 2 ELSE {2}) THEN Stored(<<>>, Syntax)
        ELSE Stored([i \in 1 .. count |-> fill % 256],
                  IF IntRefused(args, 1) \/ IntRefused(args, 2) THEN Syntax
                  ELSE IF count < 0 THEN OutOfRange ELSE None)

(* RMB count                                                                 *)
PseudoRmb(args) ==
    LET count == HaveInt(args, 1, 0)
    IN  CASE Len(args) # 1 \/ IntRefused(args, 1) -> Reserved(0, Syntax)
          [] Len(args) = 1 /\ count < 0 -> Reserved(0, OutOfRange)
          [] OTHER -> Reserved(count, None)

(* The distance to the alignment ahead.                                      *)
Padding(pc, align) == Remainder(align - Remainder(pc, align), align)

(* ALIGN align[,fill]                                                        *)
PseudoAlign(args, pc) ==
    LET align == HaveInt(args, 1, 0)
        fill  == HaveInt(args, 2, 0)
        count == Padding(pc, align)
    IN  CASE Len(args) \notin 1 .. 2 -> Reserved(0, Syntax)
          [] Len(args) \in 1 .. 2 /\ align < 1 ->
               Reserved(0, IF IntRefused(args, 1) \/ IntRefused(args, 2) THEN Syntax
                                                                     ELSE OutOfRange)
          [] Len(args) = 1 /\ align >= 1 -> Reserved(count, None)
          [] OTHER -> Stored([i \in 1 .. count |-> fill % 256],
                           IF IntRefused(args, 2) THEN Syntax ELSE None)

(* INCLUDEBIN                                                                *)
PseudoIncludebin(args) ==
    CASE Len(args) # 1 \/ args[1].type # "string" -> Stored(<<>>, Syntax)
      [] Len(args) = 1 /\ args[1].type = "string" /\ args[1].as_string \notin DOMAIN Files ->
           Stored(<<>>, Fatal)
      [] OTHER -> Stored(Files[args[1].as_string], None)

=============================================================================
