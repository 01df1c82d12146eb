--------------------------- MODULE MCLocalLabels ---------------------------
(* Every short program, and longer ones with included files, sections left   *)
(* and resumed, and a label used on its own line.                            *)
EXTENDS LocalLabels

MCNoDP == -1

Code(label, dir, ref) ==
    [op |-> "code", label |-> label, ref |-> ref, dir |-> dir, section |-> "none"]
Plain(label) == Code(label, "none", "none")
In(label, section) == [Plain(label) EXCEPT !.op = "section", !.section = section]
Include == [Plain("none") EXCEPT !.op = "include"]
End     == [Plain("none") EXCEPT !.op = "end"]

MCLabels == {"1", "2"}

Vocabulary ==
    {Code(l, d, "1") : l \in {"none", "1"}, d \in {"B", "F"}}
        \cup {Plain("none"), Plain("1"), Plain("2")}
        \cup {In(l, s) : l \in {"none", "1"}, s \in {"CODE", "DATA"}}

Longer ==
    {<<Plain("1"), Code("none", "F", "1"), In("none", "DATA"), Plain("1"),
       Code("1", "B", "1"), In("1", "CODE"), Code("none", "B", "1"), Plain("1")>>,
     <<In("none", "DATA"), Code("1", "F", "1"), Include, Plain("1"), In("1", "CODE"),
       Code("none", "B", "1"), End, Code("none", "B", "1"), Plain("1")>>,
     <<Code("none", "F", "1"), Include, Code("1", "F", "2"), Include, In("2", "DATA"), End,
       Code("2", "B", "1"), End, Plain("1"), Code("none", "B", "2")>>}

(* A section an included file ends in, resumed by a labelled line, which     *)
(* then has the number of a line before it, with a reference or a label.     *)
Resumed ==
    {<<Include, In("none", "DATA"), l, End, In("1", "DATA"), m>> :
        l \in {Plain("1"), Code("none", "B", "1"), Code("none", "F", "1")},
        m \in {Plain("none"), Plain("1"), Code("none", "B", "1")}}
        \cup {<<In("none", "DATA"), Plain("1"), In("none", "CODE"), In("1", "DATA"), Plain("none")>>}

MCPrograms == UNION {[1 .. n -> Vocabulary] : n \in 1 .. 3} \cup Longer \cup Resumed

=============================================================================
