---------------------------- MODULE ErrorLevels ----------------------------
(* The error levels of error.h, ordered as the enumeration orders them, and  *)
(* the way verror() folds one more report into the level of the pass.  The   *)
(* message list itself is not modelled: only the level decides control flow. *)
EXTENDS Naturals

None         == 0
Inefficient  == 1
Illegal      == 2
Inconsistent == 3
OutOfRange   == 4
Syntax       == 5
Data         == 6
Fatal        == 7

ErrorTypes == None .. Fatal

(* A wrong version of the next, which a run must refute: the highest type    *)
(* reported, an out-of-range staying when an inconsistency comes after it.   *)
RaiseHighest(level, type) == IF type > level THEN type ELSE level

(* error_level after error(type, ...) when it was "level" before.  Reporting *)
(* None stands for reporting nothing.                                        *)
Raise(level, type) ==
    LET highest == IF type > level THEN type ELSE level
    IN  IF type = Inconsistent /\ highest = OutOfRange
        THEN Inconsistent
        ELSE highest

(* A level of this kind at the end of a pass ends assembly in failure unless *)
(* it is exactly Inconsistent and a further pass is allowed.                 *)
Failing(level) == level >= Inconsistent

=============================================================================
