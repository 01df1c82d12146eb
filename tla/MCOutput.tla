------------------------------ MODULE MCOutput ------------------------------
(* A memory of 64 bytes, in pages of 8: up to three spans of up to three     *)
(* bytes, in every position and order around the end of a page, some at the  *)
(* end of memory, some that leave a byte of it or none, and more that begin  *)
(* at the same address.                                                      *)
EXTENDS Output

S(put, size) == [put |-> put, size |-> size]

MCInputs ==
    UNION {[1 .. n -> [put : 6 .. 9, size : 1 .. 3]] : n \in 0 .. 3}
      \cup [1 .. 4 -> {S(6, 1), S(7, 1), S(9, 2)}]
      \cup {<<S(61, 3)>>, <<S(62, 2), S(59, 3)>>, <<S(63, 1), S(58, 2)>>,
            <<S(0, 63)>>, <<S(60, 3), S(1, 59)>>, <<S(0, 30), S(30, 34)>>, <<S(63, 1), S(0, 1)>>}

MCFullInputs == {<<S(0, 64)>>}

MCExecs == {Unset, 10, 64 + 15}

MCByte(b) == IF b = Zero THEN 0 ELSE (3 * b.by + 5 * b.put) % 8

=============================================================================
