---------------------------- MODULE LocalLabels ----------------------------
(* Local labels (symbol_local_*()): each section has a table of them, by the *)
(* number of the line they are on, as counted in that section, and 1B and 1F *)
(* are searched for from the line they are used on.  The tables are kept     *)
(* from pass to pass, the line numbers begin again in each.                  *)
(*                                                                           *)
(* A program is the lines met in one pass, those of included files between   *)
(* "include" and "end".  How many bytes a line with a forward reference      *)
(* emits is a free choice; any other emits one.                              *)
EXTENDS SectionOps, SequencesExt

CONSTANTS
    Programs,       \* sequences of [op, label, ref, dir, section]
    Labels,         \* the numbers used as local labels
    First,          \* the section every pass begins in, "CODE"
    MaxPasses       \* max_passes

NoLabel == "none"
NoValue == -1

ASSUME LocalConstants ==
    /\ First \in SectionNames
    /\ MaxPasses \in Nat \ {0}
    /\ NoLabel \notin Labels
    /\ \A p \in Programs :
           /\ p \in Seq([op : {"code", "section", "include", "end"},
                         label : Labels \cup {NoLabel}, ref : Labels \cup {NoLabel},
                         dir : {"none", "B", "F"}, section : SectionNames \cup {"none"}])
           /\ \A i \in DOMAIN p : p[i].op = "section" => p[i].section \in SectionNames

VARIABLES
    prog,
    line,           \* the next line of it
    pass,           \* asm_pass
    phase,          \* "between" passes, "assembling", or "done" or "failed"
    sections,       \* the sections, by name
    numbers,        \* the line_number of each
    locals,         \* the local_labels of each: for every label, values by line number
    cur,            \* cur_section
    saved,          \* the sections to return to at the end of included files
    level,          \* error_level
    defs,           \* history: the labels set in this pass, ...
    before,         \* ... those of the pass before, ...
    uses,           \* ... and the references made in this pass
    trail,          \* history: where each line of the first pass was met
    resized         \* history: the end of a section moved in the pass that is over

vars == <<prog, line, pass, phase, sections, numbers, locals, cur, saved, level,
          defs, before, uses, trail, resized>>

Init ==
    /\ prog \in Programs
    /\ line = 0
    /\ pass = NoPass
    /\ phase = "between"
    /\ sections = [n \in SectionNames |-> NewSection]
    /\ numbers = [n \in SectionNames |-> 0]
    /\ locals = [n \in SectionNames |-> [k \in Labels |-> <<>>]]
    /\ cur = First
    /\ saved = <<>>
    /\ level = None
    /\ defs = <<>>
    /\ before = <<>>
    /\ uses = {}
    /\ trail = <<>>
    /\ resized = FALSE

-----------------------------------------------------------------------------
(* Wrong versions of the operators below, which the runs must refute: the    *)
(* earliest label for the nearest, a moved one unreported, line numbers that *)
(* go on counting.                                                           *)
EarliestBack(table, n) ==
    LET found == {i \in DOMAIN table : i <= n}
    IN  IF found = {} THEN NoValue ELSE table[Min(found)]

NoLocalError(table, n, value) == None

NumberContinued(s, p, n) == n

(* symbol_local_backref(): the last label up to line n, that line included.  *)
Back(table, n) ==
    LET found == {i \in DOMAIN table : i <= n}
    IN  IF found = {} THEN NoValue ELSE table[Max(found)]

(* symbol_local_fwdref(): the first label after line n.                      *)
Fwd(table, n) ==
    LET found == {i \in DOMAIN table : i > n}
    IN  IF found = {} THEN NoValue ELSE table[Min(found)]

(* symbol_local_set(): the value takes the place of one at the same line,    *)
(* which should be equal.                                                    *)
LocalSet(table, n, value) ==
    [i \in DOMAIN table \cup {n} |-> IF i = n THEN value ELSE table[i]]

LocalError(table, n, value) ==
    IF n \in DOMAIN table /\ table[n] # value THEN Inconsistent ELSE None

(* section_set(): the line number of the section s after it.                 *)
Number(s, p, n) == IF s.pass = p THEN n ELSE 0

(* A reference on line n of the current section.                             *)
Found(l, n) ==
    IF l.dir = "B" THEN Back(locals[cur][l.ref], n) ELSE Fwd(locals[cur][l.ref], n)

RefError(l, n) == IF l.ref # NoLabel /\ Found(l, n) = NoValue THEN Inconsistent ELSE None

Use(l, n) ==
    uses' = IF l.ref = NoLabel THEN uses
            ELSE uses \cup {[section |-> cur, key |-> l.ref, dir |-> l.dir, at |-> line,
                             number |-> n, value |-> Found(l, n)]}

(* set_label() on line n of section s, to the program counter.               *)
SetLabel(l, s, n, pc) ==
    IF l.label = NoLabel THEN UNCHANGED <<locals, defs>>
    ELSE /\ locals' = [locals EXCEPT ![s][l.label] = LocalSet(@, n, pc)]
         /\ defs' = Append(defs, [section |-> s, key |-> l.label, at |-> line,
                                    number |-> n, value |-> pc])

LabelError(l, s, n, pc) ==
    IF l.label = NoLabel THEN None ELSE LocalError(locals[s][l.label], n, pc)

EndPosition(p) == StartAfter(sections[cur], p)

-----------------------------------------------------------------------------
BeginPass ==
    /\ phase = "between"
    /\ pass = NoPass \/ level = Inconsistent
    /\ pass + 1 < MaxPasses
    /\ phase' = "assembling"
    /\ pass' = pass + 1
    /\ line' = 1
    /\ level' = None
    /\ sections' = [sections EXCEPT ![First] = Selected(@, pass + 1, EndPosition(pass + 1))]
    /\ numbers' = [numbers EXCEPT ![First] = Number(sections[First], pass + 1, @)]
    /\ cur' = First
    /\ before' = defs
    /\ defs' = <<>>
    /\ uses' = {}
    /\ saved' = <<>>
    /\ UNCHANGED <<prog, locals, resized>>

Take(op) ==
    /\ phase = "assembling"
    /\ line \in DOMAIN prog
    /\ prog[line].op = op
    /\ line' = line + 1
    /\ UNCHANGED <<prog, pass, phase, before, resized>>

(* Any line that emits: its operand is evaluated, its label set, in this     *)
(* order.                                                                    *)
CodeLine ==
    /\ Take("code")
    /\ LET l == prog[line]
           n == numbers[cur] + 1
           pc == sections[cur].pc
       IN  /\ numbers' = [numbers EXCEPT ![cur] = n]
           /\ Use(l, n)
           /\ SetLabel(l, cur, n, pc)
           /\ level' = Raise(Raise(level, RefError(l, n)), LabelError(l, cur, n, pc))
           /\ \E size \in IF l.dir = "F" THEN {1, 2} ELSE {1} :
                  sections' = [sections EXCEPT ![cur] = Skipped(@, size)]
    /\ UNCHANGED <<cur, saved>>

(* SECTION.  The line is counted in the section it leaves; its label belongs *)
(* to the section it selects, and has the line number reached there.         *)
SectionLine ==
    /\ Take("section")
    /\ LET l == prog[line]
           s == l.section
           chosen == Selected(sections[s], pass, EndPosition(pass))
           counted == [numbers EXCEPT ![cur] = @ + 1]
           n == Number(sections[s], pass, counted[s])
       IN  /\ numbers' = [counted EXCEPT ![s] = n]
           /\ sections' = [sections EXCEPT ![s] = chosen]
           /\ cur' = s
           /\ SetLabel(l, s, n, chosen.pc)
           /\ level' = Raise(level, LabelError(l, s, n, chosen.pc))
    /\ UNCHANGED <<saved, uses>>

(* INCLUDE, and its return to the section it was met in.                     *)
IncludeLine ==
    /\ Take("include")
    /\ numbers' = [numbers EXCEPT ![cur] = @ + 1]
    /\ saved' = Append(saved, cur)
    /\ UNCHANGED <<sections, locals, cur, level, defs, uses>>

EndInclude ==
    /\ Take("end")
    /\ saved # <<>>
    /\ cur' = saved[Len(saved)]
    /\ saved' = SubSeq(saved, 1, Len(saved) - 1)
    /\ UNCHANGED <<sections, numbers, locals, level, defs, uses>>

EndPass ==
    /\ phase = "assembling"
    /\ line > Len(prog)
    /\ phase' = "between"
    /\ sections' = FinishedSections(sections)
    /\ level' = Raise(level, FinishError(sections))
    /\ resized' = (FinishError(sections) # None)
    /\ UNCHANGED <<prog, line, pass, numbers, locals, cur, saved, defs, before, uses>>

Decide ==
    /\ phase = "between"
    /\ pass # NoPass
    /\ level # Inconsistent \/ pass + 1 = MaxPasses
    /\ phase' = IF Failing(level) THEN "failed" ELSE "done"
    /\ UNCHANGED <<prog, line, pass, sections, numbers, locals, cur, saved, level,
                   defs, before, uses, resized>>

(* History: the place a line is met in, a section's number being of interest *)
(* once it has been selected in the pass.                                    *)
Place ==
    [cur |-> cur, saved |-> saved,
     numbers |-> [n \in SectionNames |-> IF sections[n].pass = pass THEN numbers[n] ELSE 0]]

Remember == trail' = IF pass' = 0 /\ phase' = "assembling" THEN Append(trail, Place') ELSE trail

Next ==
    /\ \/ BeginPass \/ CodeLine \/ SectionLine \/ IncludeLine \/ EndInclude
       \/ EndPass \/ Decide
    /\ Remember

Spec == Init /\ [][Next]_vars

-----------------------------------------------------------------------------
(* The labels set in this pass that the reference u is about, nearest first  *)
(* in its direction.                                                         *)
Targets(u) ==
    {i \in DOMAIN defs :
        /\ defs[i].section = u.section /\ defs[i].key = u.key
        /\ IF u.dir = "B" THEN defs[i].at < u.at ELSE defs[i].at > u.at}

Nearest(u) ==
    IF Targets(u) = {} THEN NoValue
    ELSE IF u.dir = "B" THEN defs[Max(Targets(u))].value ELSE defs[Min(Targets(u))].value

(* A label that a pass sets after the reference u was read, but which has    *)
(* the line number of u: it is on the line of u, or on the SECTION line that *)
(* selects the section again after an included file ended in it.             *)
SharesNumber(u) ==
    \E d \in Range(before) :
        /\ d.section = u.section /\ d.key = u.key /\ d.number = u.number
        /\ d.at > u.at \/ (d.at = u.at /\ u.dir = "B")

(* A backward reference finds the nearest such label before it in the        *)
(* section, in every pass, whatever earlier passes left in the table, and    *)
(* however sections were left and resumed; of symbol_local_backref()         *)
(* (symbol.c:167).  Labels that share its number are another matter          *)
(* (BackrefsPrevious).                                                       *)
BackrefNearest ==
    \A u \in uses : u.dir = "B" /\ ~SharesNumber(u) => u.value = Nearest(u)

(* In the pass output is made from, a forward reference was given the value  *)
(* the next such label took later in the pass, numbers not being shared; of  *)
(* symbol_local_fwdref() and the check of symbol_local_set() (symbol.c:203). *)
FwdrefNearest ==
    phase = "done" =>
        \A u \in uses : u.dir = "F" /\ ~SharesNumber(u) => u.value = Nearest(u)

(* Assembly fails only if, in the last pass, a label was missing, or one or  *)
(* the end of a section moved, or one number of a section had two values of  *)
(* a label; of symbol_local_set() (symbol.c:226).                            *)
RefusalJustified ==
    phase = "failed" =>
        \/ resized
        \/ \E d \in Range(defs), e \in Range(before) : d.at = e.at /\ d.value # e.value
        \/ \E u \in uses : u.value = NoValue
        \/ \E d, e \in Range(defs) :
               /\ d.section = e.section /\ d.key = e.key /\ d.number = e.number
               /\ d.value # e.value

-----------------------------------------------------------------------------
(* What README says and the code does not do.                                *)

(* "a decimal number followed by B or F is considered to be a back or        *)
(* forward reference to the previous or next occurrence".  A label on the    *)
(* line of the reference is found by it in a later pass, and one that shares *)
(* its number.                                                               *)
BackrefsPrevious == \A u \in uses : u.dir = "B" => u.value = Nearest(u)

(* "the same local label may appear mulitple times, unlike other labels":    *)
(* each is remembered with the value it took.                                *)
LabelsDistinct ==
    \A d \in Range(defs) : \E i \in DOMAIN locals[d.section][d.key] :
        locals[d.section][d.key][i] = d.value

=============================================================================
