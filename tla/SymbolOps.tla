----------------------------- MODULE SymbolOps -----------------------------
(* The symbol table (symbol.c) as pure operators.  A node is abstracted to   *)
(* an integer or to nothing (NULL, type "undef"), which is what an           *)
(* expression with an undefined symbol evaluates to.                         *)
EXTENDS Integers, ErrorLevels

CONSTANT Symbols

Node == [kind : {"undef", "int"}, n : Int]

Undef  == [kind |-> "undef", n |-> 0]
Num(v) == [kind |-> "int", n |-> v]

Defined(node) == node.kind = "int"

(* node_equal(): nothing equals an undefined node, itself included.          *)
NodeEqual(a, b) == Defined(a) /\ Defined(b) /\ a.n = b.n

(* An entry remembers the pass that wrote it.  A symbol with no entry is     *)
(* told from one that was entered with an undefined value.                   *)
NotEntered == -1
Entry == [pass : Int, node : Node]
NoEntry == [pass |-> NotEntered, node |-> Undef]

EmptyTable == [x \in Symbols |-> NoEntry]

(* symbol_force_set(): a second definition in a pass is refused unless the   *)
(* symbol may change; otherwise the table and what it says of the old value. *)
Redefined(table, x, changeable, pass) == ~changeable /\ table[x].pass = pass

SymbolSet(table, x, node, changeable, pass) ==
    IF Redefined(table, x, changeable, pass) THEN table
    ELSE [table EXCEPT ![x] = [pass |-> pass, node |-> node]]

Moved(table, x, node) ==
    table[x].pass # NotEntered /\ ~NodeEqual(table[x].node, node)

(* A wrong version of the next, which a run must refute: a symbol that moves *)
(* unnoticed.                                                                *)
RedefinitionError(table, x, node, changeable, pass) ==
    IF Redefined(table, x, changeable, pass) THEN Syntax ELSE None

(* symbol_set() reports a changed value unless the symbol may change.        *)
SymbolError(table, x, node, changeable, pass) ==
    IF Redefined(table, x, changeable, pass) THEN Syntax
    ELSE IF Moved(table, x, node) /\ ~changeable THEN Inconsistent ELSE None

=============================================================================
