------------------------------ MODULE Operands ------------------------------
(* What evaluation leaves of an argument (node.h): a value of a base type    *)
(* with the attribute its place in the source gave it, and the casts of      *)
(* eval.c.  A float is a fraction <<n, d>> with d >= 0, not finite when d is *)
(* 0; a string is the sequence of its characters' codes.                     *)
EXTENDS Integers, Sequences, SequencesExt

CONSTANTS
    CharRange,      \* 256
    WordRange,      \* 2^32, the width of an int, and what a string is cut to
    IntMin          \* the least integer, -2^63

ASSUME OperandConstants ==
    /\ CharRange \in Nat \ {0}
    /\ WordRange \in Nat \ {0}
    /\ WordRange > 31
    /\ IntMin \in Int
    /\ IntMin <= -(WordRange \div 2)

IntNode(v, attr)    == [type |-> "int", as_int |-> v, attr |-> attr]
FloatNode(v, attr)  == [type |-> "float", as_float |-> v, attr |-> attr]
RegNode(r, attr)    == [type |-> "reg", as_reg |-> r, attr |-> attr]
StringNode(s, attr) == [type |-> "string", as_string |-> s, attr |-> attr]
EmptyNode           == [type |-> "empty", as_int |-> 0, attr |-> "none"]
ArrayNode(args)     == [type |-> "array", as_array |-> args, attr |-> "none"]
Undefined           == [type |-> "undef", as_int |-> 0, attr |-> "undef"]

(* C divides towards zero, and a remainder has the sign of the dividend; ... *)
(* that of the divisor.                                                      *)
Magnitude(n)   == IF n < 0 THEN -n ELSE n
Quotient(n, d) == LET q == Magnitude(n) \div Magnitude(d)
                  IN  IF (n < 0) = (d < 0) THEN q ELSE -q
RemainderFloored(n, d) == IF d < 0 THEN -((-n) % (-d)) ELSE n % d
Remainder(n, d) == n - d * Quotient(n, d)

(* The conversion of a double to a type whose least number is "least", which *)
(* stands for whatever that type does not have, as the hardware has it.      *)
TruncatedTo(frac, least) ==
    IF frac[2] = 0 \/ Quotient(frac[1], frac[2]) \notin least .. -(least + 1)
    THEN least
    ELSE Quotient(frac[1], frac[2])

Truncated(frac) == TruncatedTo(frac, IntMin)

(* An int64_t cut to an int.                                                 *)
IntLeast  == -(WordRange \div 2)
IntCut(v) == ((v - IntLeast) % WordRange) + IntLeast

(* A character joins the low end of a word; "char" being signed, one of the  *)
(* upper half sets every bit above its own.                                  *)
ShiftIn(word, c) ==
    IF c < CharRange \div 2 THEN ((word * CharRange) % WordRange) + c
                            ELSE WordRange - CharRange + c

(* A string as a number, its characters one after the other.                 *)
Word(chars) ==
    LET upto[i \in 0 .. Len(chars)] ==
            IF i = 0 THEN 0 ELSE ShiftIn(upto[i - 1], chars[i])
    IN  upto[Len(chars)]

(* eval_int()                                                                *)
EvalInt(n) ==
    CASE n.type = "int"    -> n
      [] n.type = "float"  -> IntNode(Truncated(n.as_float), n.attr)
      [] n.type = "string" -> IntNode(Word(n.as_string), n.attr)
      [] OTHER             -> Undefined

(* eval_float()                                                              *)
EvalFloat(n) ==
    CASE n.type = "float" -> n
      [] n.type = "int"   -> FloatNode(<<n.as_int, 1>>, n.attr)
      [] OTHER            -> Undefined

=============================================================================
