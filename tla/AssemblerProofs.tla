-------------------------- MODULE AssemblerProofs --------------------------
(* Proofs, for every set of programs and every limit, that a pass which ends *)
(* in output was clean, read one value of each symbol and placed sections    *)
(* after the ends they have.                                                 *)
EXTENDS Assembler, TLAPS

(* A section's record: which fields it has, whatever its spans.              *)
SectionRecord(s) ==
    s \in [spans : {s.spans}, pass : Int, pc : Int, put : Nat, dp : Int,
           last_pc : Int, last_put : Nat]

(* "t" is "s" after operations within a pass.                                *)
SamePass(s, t) ==
    SectionRecord(t) /\ t.pass = s.pass /\ t.last_pc = s.last_pc

(* The inductive invariant, part by part.                                    *)
Types ==
    /\ TypeOK
    /\ \A n \in SectionNames : SectionRecord(sections[n])

(* No report of a failing type leaves error_level below Inconsistent.        *)
Clean == ~Failing(level) => \A e \in seen : ~Failing(e)

(* error_level is the type of some report; an out-of-range it shows stands.  *)
Reported == level \in seen \cup {None} /\ (level = OutOfRange => stands)

(* A symbol with no entry has no value.                                      *)
Entered ==
    \A x \in Symbols : symbols[x].pass = NotEntered => ~Defined(symbols[x].node)

(* Unless the pass has failed, no symbol moved after it was read.            *)
Steady ==
    ~Failing(level) => \A u \in uses : \/ Changeable(u.sym)
                                       \/ symbols[u.sym].node = Num(u.n)

(* Unless it has failed, sections stand after the last known ends of those   *)
(* they follow.                                                              *)
Placed ==
    ~Failing(level) => \A n \in SectionNames :
        LET f == follow[n]
        IN  sections[n].pass = pass /\ f.after = "section"
                => /\ sections[f.section].pass = pass
                   /\ f.pc = sections[f.section].last_pc

PassesOrdered == \A n \in SectionNames : sections[n].pass <= pass

(* A pass that has not failed at its end left every section where it was.    *)
Settled ==
    phase \in {"between", "done"} /\ pass # NoPass /\ ~Failing(level)
        => \A n \in SectionNames : sections[n].last_pc = sections[n].pc

(* Unless the pass has failed, the execution address is the operand of the   *)
(* last END, as it was read.                                                 *)
Aimed ==
    ~Failing(level) /\ ended.end =>
        \/ ended.sym = NoSymbol /\ exec[".exec"].node = Num(ended.off)
        \/ \E u \in uses : /\ u.sym = ended.sym
                           /\ exec[".exec"].node = Num(u.n + ended.off)

Outcome ==
    /\ phase = "done" => pass # NoPass /\ ~Failing(level)
    /\ phase = "failed" => Failing(level) /\ (level # Inconsistent \/ pass + 1 = MaxPasses)
    /\ phase = "assembling" => pass # NoPass

IInv ==
    /\ Types /\ Clean /\ Reported /\ Entered /\ Steady /\ Placed /\ PassesOrdered
    /\ Settled /\ Aimed /\ Outcome

(* The inductive invariant says what the properties do, of the output.       *)
LEMMA IInvImplies ==
    IInv => /\ TypeOK /\ SuccessMeansClean /\ SuccessConsistent /\ FollowsPredecessor
            /\ ExecResolved /\ FailureJustified
<1> SUFFICES ASSUME IInv
             PROVE  /\ TypeOK /\ SuccessMeansClean /\ SuccessConsistent
                    /\ FollowsPredecessor /\ ExecResolved /\ FailureJustified
  OBVIOUS
<1>1. TypeOK
  BY DEF IInv, Types
<1>2. SuccessMeansClean
  BY DEF IInv, Outcome, Clean, SuccessMeansClean, Succeeded
<1>3. SuccessConsistent
  BY DEF IInv, Outcome, Steady, SuccessConsistent, Succeeded
<1>4. FollowsPredecessor
  <2> SUFFICES ASSUME Succeeded, NEW n \in SectionNames,
                      sections[n].pass = pass, follow[n].after = "section"
               PROVE  follow[n].pc = sections[follow[n].section].pc
    BY DEF FollowsPredecessor
  <2>1. follow[n].section \in SectionNames
    BY <1>1 DEF TypeOK, Follow
  <2>2. ~Failing(level) /\ pass # NoPass
    BY DEF IInv, Outcome, Succeeded
  <2>3. follow[n].pc = sections[follow[n].section].last_pc
    BY <2>2 DEF IInv, Placed
  <2>4. sections[follow[n].section].last_pc = sections[follow[n].section].pc
    BY <2>1, <2>2 DEF IInv, Settled, Succeeded
  <2> QED BY <2>3, <2>4
<1>5. FailureJustified
  <2> SUFFICES ASSUME phase = "failed"
               PROVE  \/ \E e \in seen : e > OutOfRange
                      \/ stands
                      \/ Inconsistent \in seen /\ pass + 1 = MaxPasses
    BY DEF FailureJustified
  <2>1. /\ Failing(level) /\ (level # Inconsistent \/ pass + 1 = MaxPasses)
        /\ level \in seen \cup {None} /\ level \in Nat
        /\ level = OutOfRange => stands
    BY <1>1 DEF IInv, Outcome, Reported, TypeOK, ErrorTypes, None, Fatal
  <2>2. level \in seen
    BY <2>1 DEF Failing, Inconsistent, None
  <2>3. CASE level = Inconsistent
    BY <2>1, <2>2, <2>3
  <2>4. CASE level = OutOfRange
    BY <2>1, <2>4
  <2>5. CASE level > OutOfRange
    BY <2>2, <2>5
  <2>6. level = Inconsistent \/ level = OutOfRange \/ level > OutOfRange
    BY <2>1 DEF Failing, Inconsistent, OutOfRange
  <2> QED BY <2>3, <2>4, <2>5, <2>6
<1>6. ExecResolved
  <2> SUFFICES ASSUME Succeeded, ended.end, ~Changeable(ended.sym)
               PROVE  exec[".exec"].node = Value(ended)
    BY DEF ExecResolved
  <2>1. ~Failing(level) /\ Aimed /\ Steady
    BY DEF IInv, Outcome, Succeeded
  <2>2. CASE ended.sym = NoSymbol /\ exec[".exec"].node = Num(ended.off)
    BY <2>2 DEF Value, UsesSymbol
  <2>3. ASSUME NEW u \in uses, u.sym = ended.sym,
               exec[".exec"].node = Num(u.n + ended.off)
        PROVE  exec[".exec"].node = Value(ended)
    <3>1. u.sym \in Symbols /\ u.sym # NoSymbol
      BY <1>1, AssemblerConstants DEF TypeOK, Use
    <3>2. symbols[ended.sym].node = Num(u.n)
      BY <2>1, <2>3 DEF Steady
    <3>3. Num(u.n).n = u.n /\ Defined(Num(u.n))
      BY DEF Num, Defined
    <3> QED BY <2>3, <3>1, <3>2, <3>3 DEF Value, UsesSymbol
  <2> QED BY <2>1, <2>2, <2>3 DEF Aimed
<1> QED BY <1>1, <1>2, <1>3, <1>4, <1>5, <1>6

-----------------------------------------------------------------------------
(* Error levels.                                                             *)
LEMMA RaiseFacts ==
    ASSUME NEW l \in ErrorTypes, NEW e \in ErrorTypes
    PROVE  /\ Raise(l, e) \in ErrorTypes
           /\ Raise(l, e) \in {l, e}
           /\ ~Failing(Raise(l, e)) => ~Failing(l) /\ ~Failing(e)
BY DEF Raise, ErrorTypes, None, Fatal, Inconsistent, OutOfRange, Failing

(* One more report, and whether an out-of-range stands behind the level.     *)
LEMMA RaiseStands ==
    ASSUME NEW l \in ErrorTypes, NEW e \in ErrorTypes, NEW b \in BOOLEAN,
           l = OutOfRange => b
    PROVE  /\ StandsAfter(b, e) \in BOOLEAN
           /\ Raise(l, e) = OutOfRange => StandsAfter(b, e)
BY DEF Raise, StandsAfter, ErrorTypes, None, Fatal, Inconsistent, OutOfRange

(* The error types that lines report, and which of them fail.                *)
LEMMA Kinds ==
    /\ None \in ErrorTypes /\ Inconsistent \in ErrorTypes
    /\ OutOfRange \in ErrorTypes /\ Syntax \in ErrorTypes
    /\ Failing(Inconsistent) /\ Failing(Syntax) /\ Failing(OutOfRange) /\ ~Failing(None)
BY DEF ErrorTypes, None, Fatal, Inconsistent, OutOfRange, Syntax, Failing

(* A line's four reports: the level is one of them, and if it does not fail  *)
(* none of them does.                                                        *)
LEMMA Reports ==
    ASSUME level \in ErrorTypes, seen \subseteq ErrorTypes, Clean, Reported,
           stands \in BOOLEAN,
           NEW e1 \in ErrorTypes, NEW e2 \in ErrorTypes,
           NEW e3 \in ErrorTypes, NEW e4 \in ErrorTypes, Report(e1, e2, e3, e4)
    PROVE  /\ level' \in ErrorTypes /\ seen' \subseteq ErrorTypes /\ stands' \in BOOLEAN
           /\ Clean' /\ Reported'
           /\ ~Failing(level') => /\ ~Failing(level) /\ ~Failing(e1) /\ ~Failing(e2)
                                  /\ ~Failing(e3) /\ ~Failing(e4)
<1> DEFINE l1 == Raise(level, e1)
           l2 == Raise(l1, e2)
           l3 == Raise(l2, e3)
           l4 == Raise(l3, e4)
           b1 == StandsAfter(stands, e1)
           b2 == StandsAfter(b1, e2)
           b3 == StandsAfter(b2, e3)
           b4 == StandsAfter(b3, e4)
<1>1. /\ l1 \in ErrorTypes /\ l1 \in {level, e1}
      /\ ~Failing(l1) => ~Failing(level) /\ ~Failing(e1)
      /\ b1 \in BOOLEAN /\ (l1 = OutOfRange => b1)
  BY RaiseFacts, RaiseStands DEF Reported
<1> HIDE DEF l1, b1
<1>2. /\ l2 \in ErrorTypes /\ l2 \in {l1, e2}
      /\ ~Failing(l2) => ~Failing(l1) /\ ~Failing(e2)
      /\ b2 \in BOOLEAN /\ (l2 = OutOfRange => b2)
  BY <1>1, RaiseFacts, RaiseStands
<1> HIDE DEF l2, b2
<1>3. /\ l3 \in ErrorTypes /\ l3 \in {l2, e3}
      /\ ~Failing(l3) => ~Failing(l2) /\ ~Failing(e3)
      /\ b3 \in BOOLEAN /\ (l3 = OutOfRange => b3)
  BY <1>2, RaiseFacts, RaiseStands
<1> HIDE DEF l3, b3
<1>4. /\ l4 \in ErrorTypes /\ l4 \in {l3, e4}
      /\ ~Failing(l4) => ~Failing(l3) /\ ~Failing(e4)
      /\ b4 \in BOOLEAN /\ (l4 = OutOfRange => b4)
  BY <1>3, RaiseFacts, RaiseStands
<1> HIDE DEF l4, b4
<1>5. level' = l4 /\ seen' = seen \cup {e1, e2, e3, e4} /\ stands' = b4
  BY DEF Report, l1, l2, l3, l4, b1, b2, b3, b4
<1>6. level' \in seen' \cup {None}
  BY <1>1, <1>2, <1>3, <1>4, <1>5 DEF Reported
<1>7. ~Failing(level') => /\ ~Failing(level) /\ ~Failing(e1) /\ ~Failing(e2)
                          /\ ~Failing(e3) /\ ~Failing(e4)
  BY <1>1, <1>2, <1>3, <1>4, <1>5
<1>8. Clean'
  BY <1>5, <1>7 DEF Clean
<1> QED BY <1>4, <1>5, <1>6, <1>7, <1>8 DEF Reported

-----------------------------------------------------------------------------
(* What the operations on a section leave alone.                             *)
LEMMA Updated ==
    ASSUME NEW s, SectionRecord(s), NEW spans, NEW pc \in Int, NEW put \in Nat
    PROVE  SamePass(s, [s EXCEPT !.spans = spans, !.pc = pc, !.put = put])
BY DEF SectionRecord, SamePass

(* Emission keeps a section's type, its pass and its last end.               *)
LEMMA EmittedRecord ==
    ASSUME NEW s, SectionRecord(s), NEW k \in Nat, NEW seq
    PROVE  SamePass(s, Emitted(s, k, seq))
<1> DEFINE spans == Opened(s, seq)
           filled == [spans EXCEPT ![Len(spans)] = Filled(@, k, s.pc + k)]
           pc == s.pc + k
           put == s.put + k
<1>1. pc \in Int /\ put \in Nat
  BY DEF SectionRecord
<1>2. Emitted(s, k, seq) = [s EXCEPT !.spans = filled, !.pc = pc, !.put = put]
  BY DEF Emitted
<1>3. ASSUME NEW sp PROVE SamePass(s, [s EXCEPT !.spans = sp, !.pc = pc, !.put = put])
  <2> HIDE DEF pc, put
  <2> QED BY <1>1, Updated
<1>4. SamePass(s, [s EXCEPT !.spans = filled, !.pc = pc, !.put = put])
  <2> HIDE DEF filled, pc, put
  <2> QED BY <1>3
<1> HIDE DEF filled, pc, put
<1> QED BY <1>2, <1>4

(* Operations within a pass can follow each other.                           *)
LEMMA SamePassTransitive ==
    ASSUME NEW s, NEW t, NEW u, SamePass(s, t), SamePass(t, u)
    PROVE  SamePass(s, u)
BY DEF SamePass

(* So do the operations that only move a section's addresses, with any       *)
(* operand.                                                                  *)
LEMMA MovedRecord ==
    ASSUME NEW s, SectionRecord(s), NEW k \in Int
    PROVE  /\ SamePass(s, s) /\ (k \in Nat => SamePass(s, Skipped(s, k)))
           /\ SamePass(s, Orged(s, k)) /\ SamePass(s, PutAt(s, k))
           /\ SamePass(s, [s EXCEPT !.dp = k])
<1>1. s.pc + k \in Int /\ (k \in Nat => s.put + k \in Nat)
  BY DEF SectionRecord
<1>2. /\ SamePass(s, s) /\ SamePass(s, [s EXCEPT !.dp = k])
      /\ \A a \in Nat : SamePass(s, [s EXCEPT !.put = a])
      /\ \A a \in Int, b \in Nat : SamePass(s, [s EXCEPT !.pc = a, !.put = b])
  BY DEF SectionRecord, SamePass
<1>3. SamePass(s, PutAt(s, k))
  <2>1. CASE k < 0
    BY <1>2, <2>1 DEF PutAt
  <2>2. CASE ~(k < 0)
    <3>1. k \in Nat
      BY <2>2
    <3>2. PutAt(s, k) = [s EXCEPT !.put = k]
      BY <2>2 DEF PutAt
    <3> QED BY <1>2, <3>1, <3>2
  <2> QED BY <2>1, <2>2
<1>4. k \in Nat => SamePass(s, Skipped(s, k))
  BY <1>1, <1>2 DEF Skipped
<1>5. SamePass(s, Orged(s, k))
  <2>1. (IF k >= 0 THEN k ELSE s.put) \in Nat
    BY DEF SectionRecord
  <2> QED BY <1>2, <2>1 DEF Orged
<1> QED BY <1>2, <1>3, <1>4, <1>5

(* A section once selected in pass p: from a position unless it already was. *)
LEMMA SelectedRecord ==
    ASSUME NEW s, SectionRecord(s), NEW p \in Int, NEW pos \in [pc : Int, put : Nat]
    PROVE  /\ SectionRecord(Selected(s, p, pos))
           /\ Selected(s, p, pos).pass = p
           /\ s.pass = p => Selected(s, p, pos) = s
           /\ Selected(s, p, pos).last_pc = s.last_pc
<1>1. SetDP \in Int
  BY SectionConstants
<1> QED BY <1>1 DEF SectionRecord, Selected

(* A section starts at an address, which PUT cannot take below zero.         *)
LEMMA StartPlace ==
    ASSUME NEW s, SectionRecord(s), NEW p
    PROVE  StartAfter(s, p) \in [pc : Int, put : Nat]
BY DEF SectionRecord, StartAfter

(* A symbol that is set without permission to change, and without an error,  *)
(* keeps its value.                                                          *)
LEMMA SymbolKept ==
    ASSUME NEW table \in [Symbols -> Entry], NEW x \in Symbols, NEW node \in Node,
           NEW p \in Nat, NEW v \in Int,
           table[x].pass = NotEntered => ~Defined(table[x].node),
           table[x].node = Num(v),
           ~Failing(SymbolError(table, x, node, FALSE, p))
    PROVE  SymbolSet(table, x, node, FALSE, p)[x].node = Num(v)
<1> DEFINE t == SymbolSet(table, x, node, FALSE, p)
           new == [pass |-> p, node |-> node]
<1>1. CASE Redefined(table, x, FALSE, p)
  BY <1>1 DEF SymbolSet
<1>2. CASE ~Redefined(table, x, FALSE, p)
  <2>1. t = [table EXCEPT ![x] = new]
    BY <1>2 DEF SymbolSet
  <2>2. ~Moved(table, x, node)
    BY <1>2, Kinds DEF SymbolError
  <2>3. table[x].pass # NotEntered
    BY DEF Defined, Num
  <2>4. Defined(node) /\ node.n = v
    BY <2>2, <2>3 DEF Moved, NodeEqual, Num
  <2>5. node = Num(v)
    BY <2>4 DEF Node, Defined, Num
  <2>6. t[x] = new /\ new.node = node
    BY <2>1
  <2> HIDE DEF t, new
  <2> QED BY <2>5, <2>6 DEF t
<1> QED BY <1>1, <1>2

(* The table's type, and that only entered symbols have values.              *)
LEMMA SymbolTypes ==
    ASSUME NEW table \in [Symbols -> Entry], NEW x \in Symbols, NEW node \in Node,
           NEW p \in Nat, NEW changeable,
           \A z \in Symbols : table[z].pass = NotEntered => ~Defined(table[z].node)
    PROVE  LET t == SymbolSet(table, x, node, changeable, p)
           IN  /\ t \in [Symbols -> Entry]
               /\ \A z \in Symbols : t[z].pass = NotEntered => ~Defined(t[z].node)
               /\ \A z \in Symbols : z # x => t[z] = table[z]
<1> DEFINE new == [pass |-> p, node |-> node]
<1>1. new \in Entry /\ new.pass # NotEntered
  BY DEF Entry, NotEntered
<1> HIDE DEF new
<1> QED BY <1>1 DEF SymbolSet, new

-----------------------------------------------------------------------------
(* What every line does, in five independent respects: to the error level,   *)
Levels ==
    /\ level' \in ErrorTypes /\ seen' \subseteq ErrorTypes /\ stands' \in BOOLEAN
    /\ Clean' /\ Reported'
    /\ ~Failing(level') => ~Failing(level)

(* to the symbol table,                                                      *)
Labels ==
    \/ UNCHANGED symbols
    \/ \E x \in Symbols, node \in Node, changeable \in BOOLEAN :
          /\ symbols' = SymbolSet(symbols, x, node, changeable, pass)
          /\ ~Failing(level') =>
                ~Failing(SymbolError(symbols, x, node, changeable, pass))
          /\ changeable => Changeable(x)

(* to the record of values read,                                             *)
Uses ==
    /\ uses \subseteq uses' /\ uses' \subseteq Use
    /\ \A u \in uses' : u \in uses \/ symbols[u.sym].node = Num(u.n)

(* to the execution address,                                                 *)
Execs ==
    \/ UNCHANGED <<exec, ended>>
    \/ /\ exec' \in [{".exec"} -> Entry] /\ ended' \in End
       /\ Aimed'

(* and to the sections.                                                      *)
Places ==
    \/ UNCHANGED <<sections, cur, follow>>
    \/ /\ \E s : /\ SamePass(sections[cur], s)
                 /\ sections' = [sections EXCEPT ![cur] = s]
       /\ UNCHANGED <<cur, follow>>
    \/ \E n \in SectionNames : Select(n, pass)

LineStep ==
    /\ phase = "assembling"
    /\ UNCHANGED <<prog, phase, pass>>
    /\ line' \in Nat /\ sequence' \in Nat /\ tested' \subseteq Use
    /\ Levels /\ Labels /\ Uses /\ Execs /\ Places

(* The symbol table through such a line.                                     *)
LEMMA LabelsKeep ==
    ASSUME IInv, LineStep
    PROVE  /\ symbols' \in [Symbols -> Entry]
           /\ Entered'
           /\ ~Failing(level') => \A u \in uses' :
                 Changeable(u.sym) \/ symbols'[u.sym].node = Num(u.n)
<1>1. symbols \in [Symbols -> Entry] /\ pass \in Nat
  BY DEF IInv, Types, TypeOK, LineStep, Outcome
<1>2. \A z \in Symbols : symbols[z].pass = NotEntered => ~Defined(symbols[z].node)
  BY DEF IInv, Entered
<1>3. \A u \in uses' : u.sym \in Symbols /\ u.n \in Int
  BY DEF LineStep, Uses, Use
<1>4. ~Failing(level') => \A u \in uses' :
         Changeable(u.sym) \/ symbols[u.sym].node = Num(u.n)
  BY DEF LineStep, Levels, Uses, IInv, Steady
<1>5. CASE UNCHANGED symbols
  BY <1>1, <1>2, <1>4, <1>5 DEF Entered
<1>6. ASSUME NEW x \in Symbols, NEW node \in Node, NEW changeable \in BOOLEAN,
             symbols' = SymbolSet(symbols, x, node, changeable, pass),
             ~Failing(level') =>
                ~Failing(SymbolError(symbols, x, node, changeable, pass)),
             changeable => Changeable(x)
      PROVE  /\ symbols' \in [Symbols -> Entry]
             /\ Entered'
             /\ ~Failing(level') => \A u \in uses' :
                   Changeable(u.sym) \/ symbols'[u.sym].node = Num(u.n)
  <2>1. /\ symbols' \in [Symbols -> Entry]
        /\ \A z \in Symbols : symbols'[z].pass = NotEntered => ~Defined(symbols'[z].node)
        /\ \A z \in Symbols : z # x => symbols'[z] = symbols[z]
    BY <1>1, <1>2, <1>6, SymbolTypes
  <2>2. Entered'
    BY <2>1 DEF Entered
  <2>3. ASSUME ~Failing(level'), NEW u \in uses', ~Changeable(u.sym)
        PROVE  symbols'[u.sym].node = Num(u.n)
    <3>1. /\ u.sym \in Symbols /\ u.n \in Int
          /\ symbols[u.sym].node = Num(u.n)
      BY <1>3, <1>4, <2>3
    <3>2. CASE u.sym # x
      BY <2>1, <3>1, <3>2
    <3>3. CASE u.sym = x
      <4>1. changeable = FALSE
        BY <1>6, <2>3, <3>3
      <4>2. ~Failing(SymbolError(symbols, x, node, FALSE, pass))
        BY <1>6, <2>3, <4>1
      <4>3. /\ symbols[x].node = Num(u.n) /\ u.n \in Int
            /\ symbols[x].pass = NotEntered => ~Defined(symbols[x].node)
        BY <1>2, <3>1, <3>3
      <4>4. SymbolSet(symbols, x, node, FALSE, pass)[x].node = Num(u.n)
        BY <1>1, <4>2, <4>3, SymbolKept
      <4> QED BY <1>6, <3>3, <4>1, <4>4
    <3> QED BY <3>2, <3>3
  <2> QED BY <2>1, <2>2, <2>3
<1>7. \/ UNCHANGED symbols
      \/ \E x \in Symbols, node \in Node, changeable \in BOOLEAN :
            /\ symbols' = SymbolSet(symbols, x, node, changeable, pass)
            /\ ~Failing(level') =>
                  ~Failing(SymbolError(symbols, x, node, changeable, pass))
            /\ changeable => Changeable(x)
  BY DEF LineStep, Labels
<1> QED BY <1>5, <1>6, <1>7

(* Selecting section n, which may be in pass p already.                      *)
LEMMA SelectStep ==
    ASSUME Types, NEW n \in SectionNames, NEW p \in Nat, Select(n, p)
    PROVE  /\ cur' = n
           /\ DOMAIN sections' = SectionNames
           /\ \A m \in SectionNames : SectionRecord(sections'[m])
           /\ \A m \in SectionNames : sections'[m].last_pc = sections[m].last_pc
           /\ \A m \in SectionNames \ {n} : sections'[m] = sections[m]
           /\ sections'[n].pass = p
           /\ follow' \in [SectionNames -> Follow]
           /\ \A m \in SectionNames \ {n} : follow'[m] = follow[m]
           /\ sections[n].pass = p => follow' = follow
           /\ sections[n].pass # p =>
                 \/ follow'[n].after = "none"
                 \/ /\ sections[cur].pass = p
                    /\ follow'[n].section = cur
                    /\ follow'[n].pc = sections[cur].last_pc
<1> DEFINE pos == StartAfter(sections[cur], p)
           new == Selected(sections[n], p, pos)
           f == [after |-> IF sections[cur].pass = p THEN "section" ELSE "none",
                 section |-> cur, pc |-> pos.pc, put |-> pos.put]
<1>1. /\ cur \in SectionNames /\ DOMAIN sections = SectionNames
      /\ follow \in [SectionNames -> Follow]
      /\ \A m \in SectionNames : SectionRecord(sections[m])
  BY DEF Types, TypeOK
<1>2. pos \in [pc : Int, put : Nat]
  BY <1>1, StartPlace
<1>3. /\ SectionRecord(new) /\ new.pass = p
      /\ new.last_pc = sections[n].last_pc
  <2> HIDE DEF pos
  <2>1. SectionRecord(sections[n]) /\ p \in Int
    BY <1>1
  <2> QED BY <1>2, <2>1, SelectedRecord
<1>4. f \in Follow
  <2> HIDE DEF pos
  <2> QED BY <1>1, <1>2 DEF Follow
<1>5. sections[cur].pass = p => pos.pc = sections[cur].last_pc
  BY DEF StartAfter
<1>6. f.after = "none" \/ (sections[cur].pass = p /\ f.section = cur /\ f.pc = pos.pc)
  <2> HIDE DEF pos
  <2> QED OBVIOUS
<1>7. /\ sections' = [sections EXCEPT ![n] = new]
      /\ cur' = n
      /\ follow' = IF sections[n].pass = p THEN follow ELSE [follow EXCEPT ![n] = f]
  BY DEF Select
<1> HIDE DEF pos, new, f
<1>8. /\ DOMAIN sections' = SectionNames /\ sections'[n] = new
      /\ \A m \in SectionNames \ {n} : sections'[m] = sections[m]
  BY <1>1, <1>7
<1>9. /\ follow' \in [SectionNames -> Follow]
      /\ \A m \in SectionNames \ {n} : follow'[m] = follow[m]
      /\ sections[n].pass = p => follow' = follow
      /\ sections[n].pass # p => follow'[n] = f
  BY <1>1, <1>4, <1>7
<1>10. \A m \in SectionNames : SectionRecord(sections'[m])
                               /\ sections'[m].last_pc = sections[m].last_pc
  BY <1>1, <1>3, <1>8
<1>11. sections'[n].pass = p
  BY <1>3, <1>8
<1>12. sections[n].pass # p =>
         \/ follow'[n].after = "none"
         \/ /\ sections[cur].pass = p
            /\ follow'[n].section = cur
            /\ follow'[n].pc = sections[cur].last_pc
  BY <1>5, <1>6, <1>9
<1> QED BY <1>7, <1>8, <1>9, <1>10, <1>11, <1>12

(* Sections through a line.                                                  *)
LEMMA PlacesKeep ==
    ASSUME IInv, LineStep
    PROVE  /\ DOMAIN sections' = SectionNames /\ cur' \in SectionNames
           /\ follow' \in [SectionNames -> Follow]
           /\ \A m \in SectionNames : SectionRecord(sections'[m])
           /\ Placed' /\ PassesOrdered'
<1>1. /\ Types /\ PassesOrdered /\ Placed
      /\ pass \in Nat /\ pass' = pass /\ phase' = phase
      /\ ~Failing(level') => ~Failing(level)
  BY DEF IInv, Types, TypeOK, LineStep, Outcome, Levels
<1>2. /\ DOMAIN sections = SectionNames /\ cur \in SectionNames
      /\ follow \in [SectionNames -> Follow]
      /\ \A m \in SectionNames : SectionRecord(sections[m])
      /\ \A m \in SectionNames : follow[m].section \in SectionNames
  BY <1>1 DEF Types, TypeOK, Follow
<1>3. CASE UNCHANGED <<sections, cur, follow>>
  BY <1>1, <1>2, <1>3 DEF Placed, PassesOrdered
<1>4. ASSUME NEW s, SamePass(sections[cur], s), UNCHANGED <<cur, follow>>,
             sections' = [sections EXCEPT ![cur] = s]
      PROVE  /\ DOMAIN sections' = SectionNames /\ cur' \in SectionNames
             /\ follow' \in [SectionNames -> Follow]
             /\ \A m \in SectionNames : SectionRecord(sections'[m])
             /\ Placed' /\ PassesOrdered'
  <2>1. /\ DOMAIN sections' = SectionNames
        /\ \A m \in SectionNames : sections'[m] = IF m = cur THEN s ELSE sections[m]
    BY <1>2, <1>4
  <2>2. SectionRecord(s) /\ s.pass = sections[cur].pass /\ s.last_pc = sections[cur].last_pc
    BY <1>4 DEF SamePass
  <2>3. \A m \in SectionNames : /\ SectionRecord(sections'[m])
                                /\ sections'[m].pass = sections[m].pass
                                /\ sections'[m].last_pc = sections[m].last_pc
    BY <1>2, <2>1, <2>2
  <2>4. PassesOrdered'
    BY <1>1, <2>3 DEF PassesOrdered
  <2>5. Placed'
    BY <1>1, <1>2, <1>4, <2>3 DEF Placed
  <2> QED BY <1>2, <1>4, <2>1, <2>3, <2>4, <2>5
<1>5. ASSUME NEW n \in SectionNames, Select(n, pass)
      PROVE  /\ DOMAIN sections' = SectionNames /\ cur' \in SectionNames
             /\ follow' \in [SectionNames -> Follow]
             /\ \A m \in SectionNames : SectionRecord(sections'[m])
             /\ Placed' /\ PassesOrdered'
  <2>1. /\ cur' = n
        /\ DOMAIN sections' = SectionNames
        /\ \A m \in SectionNames : SectionRecord(sections'[m])
        /\ \A m \in SectionNames : sections'[m].last_pc = sections[m].last_pc
        /\ \A m \in SectionNames \ {n} : sections'[m] = sections[m]
        /\ sections'[n].pass = pass
        /\ follow' \in [SectionNames -> Follow]
        /\ \A m \in SectionNames \ {n} : follow'[m] = follow[m]
        /\ sections[n].pass = pass => follow' = follow
        /\ sections[n].pass # pass =>
              \/ follow'[n].after = "none"
              \/ /\ sections[cur].pass = pass
                 /\ follow'[n].section = cur
                 /\ follow'[n].pc = sections[cur].last_pc
    BY <1>1, <1>5, SelectStep
  <2>2. \A m \in SectionNames : sections[m].pass = pass => sections'[m].pass = pass
    BY <2>1
  <2>3. PassesOrdered'
    <3> SUFFICES ASSUME NEW m \in SectionNames PROVE sections'[m].pass <= pass
      BY <1>1 DEF PassesOrdered
    <3>1. CASE m = n
      BY <1>1, <2>1, <3>1
    <3>2. CASE m # n
      BY <1>1, <2>1, <3>2 DEF PassesOrdered
    <3> QED BY <3>1, <3>2
  <2>4. Placed'
    <3> SUFFICES ASSUME ~Failing(level'), NEW m \in SectionNames,
                        sections'[m].pass = pass, follow'[m].after = "section"
                 PROVE  /\ sections'[follow'[m].section].pass = pass
                        /\ follow'[m].pc = sections'[follow'[m].section].last_pc
      BY <1>1 DEF Placed
    <3>1. CASE sections[m].pass = pass
      <4>1. follow'[m] = follow[m]
        BY <2>1, <3>1
      <4>2. /\ sections[follow[m].section].pass = pass
            /\ follow[m].pc = sections[follow[m].section].last_pc
        BY <1>1, <3>1, <4>1 DEF Placed
      <4> QED BY <1>2, <2>1, <2>2, <4>1, <4>2
    <3>2. CASE sections[m].pass # pass
      <4>1. m = n
        BY <2>1, <3>2
      <4>2. /\ sections[cur].pass = pass
            /\ follow'[n].section = cur
            /\ follow'[n].pc = sections[cur].last_pc
        BY <2>1, <3>2, <4>1
      <4> QED BY <1>2, <2>1, <2>2, <4>1, <4>2
    <3> QED BY <3>1, <3>2
  <2> QED BY <2>1, <2>3, <2>4
<1>6. \/ UNCHANGED <<sections, cur, follow>>
      \/ /\ \E s : /\ SamePass(sections[cur], s)
                   /\ sections' = [sections EXCEPT ![cur] = s]
         /\ UNCHANGED <<cur, follow>>
      \/ \E n \in SectionNames : Select(n, pass)
  BY DEF LineStep, Places
<1> QED BY <1>3, <1>4, <1>5, <1>6

(* The execution address through a line.                                     *)
LEMMA ExecsKeep ==
    ASSUME IInv, LineStep
    PROVE  exec' \in [{".exec"} -> Entry] /\ ended' \in End /\ Aimed'
<1>1. /\ exec \in [{".exec"} -> Entry] /\ ended \in End /\ Aimed
      /\ uses \subseteq uses' /\ (~Failing(level') => ~Failing(level))
  BY DEF IInv, Types, TypeOK, LineStep, Uses, Levels
<1>2. CASE UNCHANGED <<exec, ended>>
  BY <1>1, <1>2 DEF Aimed
<1>3. CASE ~UNCHANGED <<exec, ended>>
  BY <1>3 DEF LineStep, Execs
<1> QED BY <1>2, <1>3

(* Every line preserves the invariant.                                       *)
LEMMA LineStepInv ==
    ASSUME IInv, LineStep
    PROVE  IInv'
<1>1. /\ symbols' \in [Symbols -> Entry]
      /\ Entered'
      /\ ~Failing(level') => \A u \in uses' :
            Changeable(u.sym) \/ symbols'[u.sym].node = Num(u.n)
  BY LabelsKeep
<1>2. /\ DOMAIN sections' = SectionNames /\ cur' \in SectionNames
      /\ follow' \in [SectionNames -> Follow]
      /\ \A m \in SectionNames : SectionRecord(sections'[m])
      /\ Placed' /\ PassesOrdered'
  BY PlacesKeep
<1>3. /\ TypeOK /\ Outcome /\ phase = "assembling"
      /\ prog' = prog /\ phase' = phase /\ pass' = pass
      /\ line' \in Nat /\ sequence' \in Nat /\ tested' \subseteq Use
      /\ uses' \subseteq Use
      /\ level' \in ErrorTypes /\ seen' \subseteq ErrorTypes /\ stands' \in BOOLEAN
      /\ Clean' /\ Reported'
  BY DEF IInv, Types, LineStep, Levels, Uses
<1>9. exec' \in [{".exec"} -> Entry] /\ ended' \in End /\ Aimed'
  BY ExecsKeep
<1>4. TypeOK'
  <2>1. \A m \in SectionNames : sections'[m].put \in Nat
    BY <1>2 DEF SectionRecord
  <2> QED BY <1>1, <1>2, <1>3, <1>9, <2>1 DEF TypeOK
<1>5. Types'
  BY <1>2, <1>4 DEF Types
<1>6. Steady'
  BY <1>1, <1>3 DEF Steady, Changeable
<1>7. Settled'
  BY <1>3 DEF Settled
<1>8. Outcome'
  BY <1>3 DEF Outcome
<1> QED BY <1>1, <1>2, <1>3, <1>5, <1>6, <1>7, <1>8, <1>9 DEF IInv

-----------------------------------------------------------------------------
(* That each action on a line is such a step.  What its operand is:          *)
LEMMA Operand ==
    ASSUME Types, NEW l \in Line
    PROVE  /\ Value(l) \in Node /\ ArgError(l) \in ErrorTypes
           /\ \A default \in Int : IntArg(l, default) \in Int
           /\ CondArg(l) \in Int
           /\ UsesSymbol(l) => l.sym \in Symbols
<1>1. /\ l.off \in Int /\ l.sym \in Symbols \cup {NoSymbol}
      /\ symbols \in [Symbols -> Entry]
  BY DEF Line, Types, TypeOK
<1>2. UsesSymbol(l) => l.sym \in Symbols /\ symbols[l.sym].node.n \in Int
  BY <1>1 DEF UsesSymbol, Entry, Node
<1>3. Value(l) \in Node
  BY <1>1, <1>2 DEF Value, Node, Num, Undef
<1>4. \A default \in Int : IntArg(l, default) \in Int
  BY <1>3 DEF IntArg, Node
<1>5. CondArg(l) \in Int
  BY <1>1, <1>2 DEF CondArg
<1>6. ArgError(l) \in ErrorTypes
  BY Kinds DEF ArgError
<1> QED BY <1>2, <1>3, <1>4, <1>5, <1>6

(* Reading an operand records its symbol with the value it has.              *)
LEMMA ReadUses ==
    ASSUME Types, NEW l \in Line, Read(l)
    PROVE  Uses
<1>1. l.sym \in Symbols \cup {NoSymbol} /\ l.off \in Int
      /\ symbols \in [Symbols -> Entry] /\ uses \subseteq Use
  BY DEF Line, Types, TypeOK
<1>2. CASE ~(UsesSymbol(l) /\ Defined(Value(l)))
  BY <1>1, <1>2 DEF Read, Uses
<1>3. CASE UsesSymbol(l) /\ Defined(Value(l))
  <2>1. l.sym \in Symbols /\ Defined(symbols[l.sym].node)
        /\ symbols[l.sym].node \in Node
    BY <1>1, <1>3 DEF UsesSymbol, Value, Defined, Undef, Entry
  <2>2. symbols[l.sym].node = Num(symbols[l.sym].node.n)
        /\ symbols[l.sym].node.n \in Int
    BY <2>1 DEF Node, Defined, Num
  <2> DEFINE u == [sym |-> l.sym, n |-> symbols[l.sym].node.n]
  <2>3. u \in Use /\ symbols[u.sym].node = Num(u.n)
    BY <2>1, <2>2 DEF Use
  <2>4. uses' = uses \cup {u}
    BY <1>3 DEF Read
  <2> HIDE DEF u
  <2> QED BY <1>1, <2>3, <2>4 DEF Uses
<1> QED BY <1>2, <1>3

(* Setting a label is a step of the symbol table.                            *)
LEMMA LabelStep ==
    ASSUME NEW l \in Line, NEW node \in Node, NEW changeable \in BOOLEAN,
           SetLabel(l, node, changeable),
           ~Failing(level') => ~Failing(LabelError(l, node, changeable)),
           changeable => Changeable(l.label)
    PROVE  Labels
<1>1. CASE l.label = NoSymbol
  BY <1>1 DEF SetLabel, Labels
<1>2. CASE l.label # NoSymbol
  <2>1. l.label \in Symbols
    BY <1>2 DEF Line
  <2>2. symbols' = SymbolSet(symbols, l.label, node, changeable, pass)
    BY <1>2 DEF SetLabel
  <2>3. ~Failing(level') =>
           ~Failing(SymbolError(symbols, l.label, node, changeable, pass))
    BY <1>2 DEF LabelError
  <2> QED BY <2>1, <2>2, <2>3 DEF Labels
<1> QED BY <1>1, <1>2

(* What a label reports is an error type,                                    *)
LEMMA LabelErrors ==
    ASSUME NEW l, NEW node, NEW changeable \in BOOLEAN
    PROVE  LabelError(l, node, changeable) \in ErrorTypes
BY Kinds DEF LabelError, SymbolError

(* and so is what an emission or PUT does.                                   *)
LEMMA EmitErrors ==
    ASSUME NEW s, NEW n
    PROVE  EmitError(s, n) \in ErrorTypes /\ PutError(n) \in ErrorTypes
BY Kinds DEF EmitError, PutError

(* A line's reports are a step of the error level.                           *)
LEMMA ReportLevels ==
    ASSUME Types, Clean, Reported, NEW e1 \in ErrorTypes, NEW e2 \in ErrorTypes,
           NEW e3 \in ErrorTypes, NEW e4 \in ErrorTypes, Report(e1, e2, e3, e4)
    PROVE  /\ Levels
           /\ ~Failing(level') => ~Failing(e2)
BY Reports DEF Levels, Types, TypeOK

(* What is known of a line that is taken.                                    *)
LEMMA TakeFacts ==
    ASSUME IInv, NEW ops, Take(ops)
    PROVE  /\ Types /\ Clean /\ Reported
           /\ prog[line] \in Line /\ prog[line].op \in ops
           /\ phase = "assembling" /\ UNCHANGED <<prog, phase, pass>>
           /\ line' \in Nat /\ pass \in Nat
           /\ cur \in SectionNames /\ SectionRecord(sections[cur])
           /\ sequence \in Nat /\ tested \subseteq Use /\ uses \subseteq Use
<1>1. /\ Types /\ TypeOK /\ Clean /\ Reported /\ Outcome
  BY DEF IInv, Types
<1>2. prog \in Seq(Line) /\ line \in 1 .. Len(prog)
  BY <1>1, ProgramsAreLines DEF TypeOK, Take
<1>3. prog[line] \in Line
  BY <1>2
<1> QED BY <1>1, <1>2, <1>3 DEF Take, TypeOK, Types, Outcome

(* EQU and SET: only the latter's label may change within a pass.            *)
LEMMA EquStep == ASSUME IInv, EquLine PROVE LineStep
<1> DEFINE l == prog[line]
           changeable == l.op = "set"
<1>1. /\ TakeIncluded({"equ", "set"}) /\ Take({"equ", "set"})
      /\ Read(l) /\ SetLabel(l, Value(l), changeable)
      /\ Report(ArgError(l), LabelError(l, Value(l), changeable), None, None)
      /\ UNCHANGED <<sections, cur, sequence, follow, cond, tested, exec, ended>>
  BY DEF EquLine, TakeIncluded, TakeRunning
<1>2. /\ Types /\ Clean /\ Reported /\ l \in Line
      /\ phase = "assembling" /\ UNCHANGED <<prog, phase, pass>>
      /\ line' \in Nat /\ sequence \in Nat /\ tested \subseteq Use
  BY <1>1, TakeFacts
<1>3. changeable \in BOOLEAN /\ (changeable => Changeable(l.label))
  <2>1. line \in DOMAIN prog
    <3>1. prog \in Seq(Line) /\ line \in 1 .. Len(prog)
      BY <1>1, <1>2, ProgramsAreLines DEF Types, TypeOK, Take
    <3> QED BY <3>1
  <2> QED BY <2>1 DEF Changeable
<1> HIDE DEF l, changeable
<1>4. Value(l) \in Node /\ ArgError(l) \in ErrorTypes
  BY <1>2, Operand
<1>5. LabelError(l, Value(l), changeable) \in ErrorTypes
  BY <1>3, LabelErrors
<1>6. Levels /\ (~Failing(level') => ~Failing(LabelError(l, Value(l), changeable)))
  BY <1>1, <1>2, <1>4, <1>5, Kinds, ReportLevels
<1>7. Labels
  BY <1>1, <1>2, <1>3, <1>4, <1>6, LabelStep
<1>8. Uses
  BY <1>1, <1>2, ReadUses
<1>9. Places
  BY <1>1 DEF Places
<1> QED BY <1>1, <1>2, <1>6, <1>7, <1>8, <1>9 DEF LineStep, Execs

(* ORG moves the current section, within its pass.                           *)
LEMMA OrgStep == ASSUME IInv, OrgLine PROVE LineStep
<1> DEFINE l == prog[line]
           addr == IntArg(l, sections[cur].pc)
<1>1. /\ Take({"org"})
      /\ Read(l) /\ SetLabel(l, Num(addr), FALSE)
      /\ sections' = [sections EXCEPT ![cur] = Orged(sections[cur], addr)]
      /\ Report(ArgError(l), LabelError(l, Num(addr), FALSE), None, None)
      /\ UNCHANGED <<cur, sequence, follow, cond, tested, exec, ended>>
  BY DEF OrgLine, TakeIncluded, TakeRunning
<1>2. /\ Types /\ Clean /\ Reported /\ l \in Line
      /\ phase = "assembling" /\ UNCHANGED <<prog, phase, pass>>
      /\ line' \in Nat /\ sequence \in Nat /\ tested \subseteq Use
      /\ SectionRecord(sections[cur])
  BY <1>1, TakeFacts
<1>3. sections[cur].pc \in Int
  BY <1>2 DEF SectionRecord
<1>4. addr \in Int /\ ArgError(l) \in ErrorTypes
  <2> HIDE DEF l
  <2> QED BY <1>2, <1>3, Operand
<1> HIDE DEF l, addr
<1>5. Num(addr) \in Node
  BY <1>4 DEF Num, Node
<1>6. LabelError(l, Num(addr), FALSE) \in ErrorTypes
  BY LabelErrors
<1>7. Levels /\ (~Failing(level') => ~Failing(LabelError(l, Num(addr), FALSE)))
  BY <1>1, <1>2, <1>4, <1>6, Kinds, ReportLevels
<1>8. Labels
  BY <1>1, <1>2, <1>5, <1>7, LabelStep
<1>9. Uses
  BY <1>1, <1>2, ReadUses
<1>10. Places
  <2>1. SamePass(sections[cur], Orged(sections[cur], addr))
    BY <1>2, <1>4, MovedRecord
  <2> QED BY <1>1, <2>1 DEF Places
<1> QED BY <1>1, <1>2, <1>7, <1>8, <1>9, <1>10 DEF LineStep, Execs

(* SECTION selects a section, its label being where that one stands.         *)
LEMMA SectionStep == ASSUME IInv, SectionLine PROVE LineStep
<1> DEFINE l == prog[line]
           node == Num(Selected(sections[l.section], pass,
                                StartAfter(sections[cur], pass)).pc)
<1>1. /\ Take({"section"})
      /\ Select(l.section, pass) /\ SetLabel(l, node, FALSE)
      /\ Report(None, LabelError(l, node, FALSE), None, None)
      /\ UNCHANGED <<sequence, uses, cond, tested, exec, ended>>
  BY DEF SectionLine, TakeIncluded, TakeRunning
<1>2. /\ Types /\ Clean /\ Reported /\ l \in Line
      /\ phase = "assembling" /\ UNCHANGED <<prog, phase, pass>>
      /\ line' \in Nat /\ sequence \in Nat /\ tested \subseteq Use /\ uses \subseteq Use
      /\ SectionRecord(sections[cur]) /\ pass \in Nat
  BY <1>1, TakeFacts
<1>3. l.section \in SectionNames
  BY <1>2 DEF Line
<1>4. node \in Node
  <2>1. SectionRecord(sections[l.section])
    BY <1>2, <1>3 DEF Types
  <2> HIDE DEF l
  <2>2. StartAfter(sections[cur], pass) \in [pc : Int, put : Nat]
    BY <1>2, StartPlace
  <2>3. SectionRecord(Selected(sections[l.section], pass, StartAfter(sections[cur], pass)))
    BY <1>2, <2>1, <2>2, SelectedRecord
  <2> QED BY <2>3 DEF SectionRecord, Num, Node
<1> HIDE DEF l, node
<1>5. LabelError(l, node, FALSE) \in ErrorTypes
  BY LabelErrors
<1>6. Levels /\ (~Failing(level') => ~Failing(LabelError(l, node, FALSE)))
  BY <1>1, <1>2, <1>5, Kinds, ReportLevels
<1>7. Labels
  BY <1>1, <1>2, <1>4, <1>6, LabelStep
<1>8. Uses
  BY <1>1, <1>2 DEF Uses
<1>9. Places
  BY <1>1, <1>3 DEF Places
<1> QED BY <1>1, <1>2, <1>6, <1>7, <1>8, <1>9 DEF LineStep, Execs

(* A symbol in its place is read and refused.                                *)
LEMMA BadSectionStep == ASSUME IInv, BadSectionLine PROVE LineStep
<1> DEFINE l == prog[line]
           e == IF Defined(Value(l)) THEN Syntax ELSE None
<1>1. /\ Take({"section"}) /\ Read(l)
      /\ Report(ArgError(l), e, None, None)
      /\ UNCHANGED <<symbols, sections, cur, sequence, follow, cond, tested, exec, ended>>
  BY DEF BadSectionLine, TakeIncluded, TakeRunning
<1>2. /\ Types /\ Clean /\ Reported /\ l \in Line
      /\ phase = "assembling" /\ UNCHANGED <<prog, phase, pass>>
      /\ line' \in Nat /\ sequence \in Nat /\ tested \subseteq Use
  BY <1>1, TakeFacts
<1> HIDE DEF l
<1>3. ArgError(l) \in ErrorTypes /\ e \in ErrorTypes
  BY <1>2, Operand, Kinds
<1> HIDE DEF e
<1>4. Levels
  BY <1>1, <1>2, <1>3, Kinds, ReportLevels
<1>5. Uses
  BY <1>1, <1>2, ReadUses
<1>6. Labels /\ Places
  BY <1>1 DEF Labels, Places
<1> QED BY <1>1, <1>2, <1>4, <1>5, <1>6 DEF LineStep, Execs

(* The label of a line that has no other value.                              *)
LEMMA HereNode == ASSUME SectionRecord(sections[cur]) PROVE Here \in Node
BY DEF Here, SectionRecord, Num, Node

(* A label alone sets a symbol.                                              *)
LEMMA LabelLineStep == ASSUME IInv, LabelLine PROVE LineStep
<1> DEFINE l == prog[line]
<1>1. /\ Take({"label"})
      /\ SetLabel(l, Here, FALSE)
      /\ Report(None, LabelError(l, Here, FALSE), None, None)
      /\ UNCHANGED <<sections, cur, sequence, uses, follow, cond, tested, exec, ended>>
  BY DEF LabelLine, TakeIncluded, TakeRunning
<1>2. /\ Types /\ Clean /\ Reported /\ l \in Line
      /\ phase = "assembling" /\ UNCHANGED <<prog, phase, pass>>
      /\ line' \in Nat /\ sequence \in Nat /\ tested \subseteq Use /\ uses \subseteq Use
      /\ SectionRecord(sections[cur])
  BY <1>1, TakeFacts
<1> HIDE DEF l
<1>3. Here \in Node
  BY <1>2, HereNode
<1>4. LabelError(l, Here, FALSE) \in ErrorTypes
  BY LabelErrors
<1>5. Levels /\ (~Failing(level') => ~Failing(LabelError(l, Here, FALSE)))
  BY <1>1, <1>2, <1>4, Kinds, ReportLevels
<1>6. Labels
  BY <1>1, <1>2, <1>3, <1>5, LabelStep
<1>7. Uses
  BY <1>1, <1>2 DEF Uses
<1>8. Places
  BY <1>1 DEF Places
<1> QED BY <1>1, <1>2, <1>5, <1>6, <1>7, <1>8 DEF LineStep, Execs

(* Any line that operates on the current section.                            *)
LEMMA OperateStep ==
    ASSUME IInv, NEW ops, Take(ops), UNCHANGED <<cond, tested>>, Execs,
           NEW s, SamePass(sections[cur], s), NEW opened,
           NEW e3 \in ErrorTypes, NEW e4 \in ErrorTypes, Operate(s, opened, e3, e4)
    PROVE  LineStep
<1> DEFINE l == prog[line]
<1>1. /\ Read(l) /\ SetLabel(l, Here, FALSE)
      /\ sections' = [sections EXCEPT ![cur] = s]
      /\ sequence' = IF opened THEN sequence + 1 ELSE sequence
      /\ Report(ArgError(l), LabelError(l, Here, FALSE), e3, e4)
      /\ UNCHANGED <<cur, follow>>
  BY DEF Operate
<1>2. /\ Types /\ Clean /\ Reported /\ l \in Line
      /\ phase = "assembling" /\ UNCHANGED <<prog, phase, pass>>
      /\ line' \in Nat /\ sequence \in Nat /\ tested \subseteq Use /\ uses \subseteq Use
      /\ SectionRecord(sections[cur])
  BY TakeFacts
<1> HIDE DEF l
<1>3. Here \in Node /\ ArgError(l) \in ErrorTypes
  BY <1>2, HereNode, Operand
<1>4. LabelError(l, Here, FALSE) \in ErrorTypes
  BY LabelErrors
<1>5. Levels /\ (~Failing(level') => ~Failing(LabelError(l, Here, FALSE)))
  BY <1>1, <1>2, <1>3, <1>4, ReportLevels
<1>6. Labels
  BY <1>1, <1>2, <1>3, <1>5, LabelStep
<1>7. Uses
  BY <1>1, <1>2, ReadUses
<1>8. Places
  BY <1>1 DEF Places
<1>9. sequence' \in Nat
  BY <1>1, <1>2
<1> QED BY <1>1, <1>2, <1>5, <1>6, <1>7, <1>8, <1>9 DEF LineStep

(* PUT moves the put address, a negative operand leaving it alone.           *)
LEMMA PutStep == ASSUME IInv, PutLine PROVE LineStep
<1> DEFINE s == sections[cur]
           addr == IntArg(prog[line], s.put)
<1>1. /\ Take({"put"}) /\ UNCHANGED <<cond, tested, exec, ended>>
      /\ Operate(PutAt(s, addr), FALSE, PutError(addr), None)
  BY DEF PutLine, TakeIncluded, TakeRunning
<1>2. Types /\ prog[line] \in Line /\ SectionRecord(s)
  BY <1>1, TakeFacts
<1>3. addr \in Int
  <2>1. s.put \in Int
    BY <1>2 DEF SectionRecord
  <2> HIDE DEF s
  <2> QED BY <1>2, <2>1, Operand
<1> HIDE DEF addr
<1>4. SamePass(s, PutAt(s, addr))
  BY <1>2, <1>3, MovedRecord
<1> QED BY <1>1, <1>4, Kinds, EmitErrors, OperateStep DEF Execs

(* SETDP changes the direct page only.                                       *)
LEMMA SetdpStep == ASSUME IInv, SetdpLine PROVE LineStep
<1> DEFINE s == sections[cur]
           dp == IntArg(prog[line], -1)
           new == IF dp >= 0 THEN dp % (AddrLimit \div PageSize) ELSE -1
<1>1. /\ Take({"setdp"}) /\ UNCHANGED <<cond, tested, exec, ended>>
      /\ Operate([s EXCEPT !.dp = new], FALSE, None, None)
  BY DEF SetdpLine, TakeIncluded, TakeRunning
<1>2. Types /\ prog[line] \in Line /\ SectionRecord(s)
  BY <1>1, TakeFacts
<1>3. dp \in Int
  BY <1>2, Operand
<1>4. new \in Int
  <2>1. \A d \in Nat \ {0} : dp >= 0 => dp % d \in Int
    BY <1>3
  <2>2. AddrLimit \div PageSize \in Nat \ {0}
    BY SectionConstants, AssemblerConstants
  <2> HIDE DEF dp
  <2> QED BY <2>1, <2>2
<1> HIDE DEF new
<1>5. SamePass(s, [s EXCEPT !.dp = new])
  BY <1>2, <1>4, MovedRecord
<1> QED BY <1>1, <1>5, Kinds, OperateStep DEF Execs

(* RMB reserves, or refuses a negative count.                                *)
LEMMA RmbStep == ASSUME IInv, RmbLine PROVE LineStep
<1> DEFINE s == sections[cur]
           count == IntArg(prog[line], 0)
<1>1. /\ Take({"rmb"}) /\ UNCHANGED <<cond, tested, exec, ended>>
      /\ IF count < 0 THEN Operate(s, FALSE, OutOfRange, None)
         ELSE Operate(Skipped(s, count), FALSE, None, None)
  BY DEF RmbLine, TakeIncluded, TakeRunning
<1>2. Types /\ prog[line] \in Line /\ SectionRecord(s)
  BY <1>1, TakeFacts
<1>3. count \in Int
  BY <1>2, Operand
<1> HIDE DEF count
<1>4. SamePass(s, s) /\ (count \in Nat => SamePass(s, Skipped(s, count)))
  BY <1>2, <1>3, MovedRecord
<1>5. CASE count < 0
  BY <1>1, <1>4, <1>5, Kinds, OperateStep DEF Execs
<1>6. CASE ~(count < 0)
  <2>1. count \in Nat
    BY <1>3, <1>6
  <2>2. Operate(Skipped(s, count), FALSE, None, None)
    BY <1>1, <1>6
  <2>3. SamePass(s, Skipped(s, count))
    BY <1>4, <2>1
  <2> QED BY <1>1, <2>2, <2>3, Kinds, OperateStep DEF Execs
<1> QED BY <1>5, <1>6

(* FCB emits one byte.                                                       *)
LEMMA FcbStep == ASSUME IInv, FcbLine PROVE LineStep
<1> DEFINE s == sections[cur]
<1>1. /\ Take({"fcb"}) /\ UNCHANGED <<cond, tested, exec, ended>>
      /\ Operate(Emitted(s, 1, sequence), OpensSpan(s), EmitError(s, 1), None)
  BY DEF FcbLine, TakeIncluded, TakeRunning
<1>2. SectionRecord(s)
  BY <1>1, TakeFacts
<1>3. SamePass(s, Emitted(s, 1, sequence))
  BY <1>2, EmittedRecord
<1> QED BY <1>1, <1>3, Kinds, EmitErrors, OperateStep DEF Execs

(* An operation code and n more bytes.                                       *)
LEMMA InstrRecord ==
    ASSUME SectionRecord(sections[cur]), NEW n \in Nat
    PROVE  SamePass(sections[cur], Emitted(AfterOp(sections[cur]), n, sequence))
<1>1. SamePass(sections[cur], AfterOp(sections[cur]))
  BY EmittedRecord DEF AfterOp
<1>2. SamePass(AfterOp(sections[cur]), Emitted(AfterOp(sections[cur]), n, sequence))
  BY <1>1, EmittedRecord DEF SamePass
<1> QED BY <1>1, <1>2, SamePassTransitive

(* A direct or extended address emits one byte more, or two.                 *)
LEMMA LdaStep == ASSUME IInv, LdaLine PROVE LineStep
<1> DEFINE s == sections[cur]
           direct == Defined(Value(prog[line])) /\ s.dp = Page(Value(prog[line]).n)
           n == IF direct THEN 1 ELSE 2
<1>1. /\ Take({"lda"}) /\ UNCHANGED <<cond, tested, exec, ended>>
      /\ Operate(Emitted(AfterOp(s), n, sequence), OpensSpan(s),
                 EmitError(s, 1), EmitError(AfterOp(s), n))
  BY DEF LdaLine, TakeIncluded, TakeRunning
<1>2. SectionRecord(s) /\ n \in Nat
  BY <1>1, TakeFacts
<1> HIDE DEF n
<1>3. SamePass(s, Emitted(AfterOp(s), n, sequence))
  BY <1>2, InstrRecord
<1> QED BY <1>1, <1>3, Kinds, EmitErrors, OperateStep DEF Execs

(* A short branch may be out of range as well.                               *)
LEMMA BraStep == ASSUME IInv, BraLine PROVE LineStep
<1> DEFINE s == sections[cur]
           v == Value(prog[line])
           outside == /\ Defined(v)
                      /\ ToRel(v.n - (AfterOp(s).pc + 1)) \notin -RelRange .. RelRange - 1
           e == Raise(EmitError(s, 1), IF outside THEN OutOfRange ELSE None)
<1>1. /\ Take({"bra"}) /\ UNCHANGED <<cond, tested, exec, ended>>
      /\ Operate(Emitted(AfterOp(s), 1, sequence), OpensSpan(s), e,
                 EmitError(AfterOp(s), 1))
  BY DEF BraLine, TakeIncluded, TakeRunning
<1>2. SectionRecord(s)
  BY <1>1, TakeFacts
<1>3. e \in ErrorTypes
  <2>1. (IF outside THEN OutOfRange ELSE None) \in ErrorTypes
    BY Kinds
  <2> HIDE DEF outside
  <2> QED BY <2>1, EmitErrors, RaiseFacts
<1> HIDE DEF e
<1>4. SamePass(s, Emitted(AfterOp(s), 1, sequence))
  BY <1>2, InstrRecord
<1> QED BY <1>1, <1>3, <1>4, Kinds, EmitErrors, OperateStep DEF Execs

(* END: its own operand, now or in the pass before, and no other.            *)
LEMMA EndStep == ASSUME IInv, EndLine PROVE LineStep
<1> DEFINE l == prog[line]
           v == Value(l)
           e == ExecError(v)
           new == [pass |-> 0, node |-> v]
<1>1. /\ Take({"end"}) /\ UNCHANGED <<cond, tested>>
      /\ exec' = ExecSet(v) /\ ended' = [end |-> TRUE, sym |-> l.sym, off |-> l.off]
      /\ Operate(sections[cur], FALSE, e, None)
  BY DEF EndLine, TakeRunning
<1>2. /\ Types /\ Clean /\ Reported /\ l \in Line /\ SectionRecord(sections[cur])
      /\ level \in ErrorTypes /\ seen \subseteq ErrorTypes /\ stands \in BOOLEAN
      /\ exec \in [{".exec"} -> Entry] /\ symbols \in [Symbols -> Entry]
  BY <1>1, TakeFacts DEF Types, TypeOK
<1>3. SamePass(sections[cur], sections[cur])
  BY <1>2 DEF SamePass
<1>4. /\ Read(l)
      /\ Report(ArgError(l), LabelError(l, Here, FALSE), e, None)
  BY <1>1 DEF Operate
<1> HIDE DEF l
<1>5. v \in Node /\ ArgError(l) \in ErrorTypes /\ (UsesSymbol(l) => l.sym \in Symbols)
      /\ LabelError(l, Here, FALSE) \in ErrorTypes
  BY <1>2, Operand, LabelErrors
<1>6. e \in ErrorTypes
  BY Kinds DEF ExecError, SymbolError
<1>7. new \in Entry
  BY <1>5 DEF Entry
<1>8. /\ exec' \in [{".exec"} -> Entry]
      /\ ~Failing(e) => exec'[".exec"] = new
  <2> HIDE DEF v, new
  <2>1. CASE Redefined(exec, ".exec", pass # 0, 0)
    BY <1>1, <1>2, <2>1, Kinds DEF ExecSet, SymbolSet, e, ExecError, SymbolError
  <2>2. CASE ~Redefined(exec, ".exec", pass # 0, 0)
    <3>1. exec' = [exec EXCEPT ![".exec"] = new]
      BY <1>1, <2>2 DEF ExecSet, SymbolSet, new
    <3> QED BY <1>2, <1>7, <3>1
  <2> QED BY <2>1, <2>2
<1>9. ended' \in End
  BY <1>1, <1>2 DEF End, Line
<1> HIDE DEF e
<1>10. ~Failing(level') => ~Failing(ArgError(l)) /\ ~Failing(e)
  BY <1>2, <1>4, <1>5, <1>6, Kinds, Reports
<1>11. ASSUME ~Failing(level') PROVE Aimed'
  <2>1. Defined(v) /\ exec'[".exec"].node = v
    BY <1>8, <1>10, <1>11, Kinds DEF ArgError
  <2>2. CASE ~UsesSymbol(l)
    BY <1>1, <2>1, <2>2 DEF Aimed, Value, UsesSymbol
  <2>3. CASE UsesSymbol(l)
    <3> DEFINE u == [sym |-> l.sym, n |-> symbols[l.sym].node.n]
    <3>1. v = Num(u.n + l.off) /\ u.sym = l.sym
      BY <2>1, <2>3 DEF Value, Defined, Undef
    <3>2. u \in uses'
      BY <1>4, <2>1, <2>3 DEF Read
    <3> HIDE DEF u, v
    <3> QED BY <1>1, <2>1, <3>1, <3>2 DEF Aimed
  <2> QED BY <2>2, <2>3
<1>12. Execs
  BY <1>8, <1>9, <1>11 DEF Execs, Aimed
<1> QED BY <1>1, <1>3, <1>6, <1>12, Kinds, OperateStep

(* So every line outside conditions is such a step,                          *)
LEMMA PlainStep == ASSUME IInv, PlainLine PROVE LineStep
BY EquStep, OrgStep, SectionStep, BadSectionStep, LabelLineStep, PutStep, SetdpStep, RmbStep,
   FcbStep, LdaStep, BraStep, EndStep DEF PlainLine

-----------------------------------------------------------------------------
(* Lines about conditions, and excluded ones.                                *)
LEMMA TestTypes ==
    ASSUME Types, NEW l \in Line, Test(l)
    PROVE  Uses /\ tested' \subseteq Use
<1>1. Read(l) /\ tested \subseteq Use
  BY DEF Test, Types, TypeOK
<1>2. Uses
  BY <1>1, ReadUses
<1>3. /\ UsesSymbol(l) => l.sym \in Symbols
      /\ CondArg(l) \in Int /\ l.off \in Int
  BY Operand DEF Line
<1>4. UsesSymbol(l) => [sym |-> l.sym, n |-> CondArg(l) - l.off] \in Use
  BY <1>3 DEF Use
<1>5. tested' \subseteq Use
  BY <1>1, <1>4 DEF Test
<1> QED BY <1>2, <1>5

(* A line that only tests and reports leaves symbols and sections alone.     *)
LEMMA ConditionStep ==
    ASSUME IInv, NEW ops, Take(ops), NothingElse,
           Test(prog[line]) \/ UNCHANGED <<uses, tested>>,
           \/ UNCHANGED <<level, seen, stands>>
           \/ \E e \in ErrorTypes : Report(e, None, None, None)
    PROVE  LineStep
<1>1. /\ Types /\ Clean /\ Reported /\ prog[line] \in Line
      /\ phase = "assembling" /\ UNCHANGED <<prog, phase, pass>>
      /\ line' \in Nat /\ sequence \in Nat /\ tested \subseteq Use /\ uses \subseteq Use
  BY TakeFacts
<1>2. Uses /\ tested' \subseteq Use
  <2>1. CASE Test(prog[line])
    BY <1>1, <2>1, TestTypes
  <2>2. CASE UNCHANGED <<uses, tested>>
    BY <1>1, <2>2 DEF Uses
  <2> QED BY <2>1, <2>2
<1>3. Levels
  <2>1. CASE UNCHANGED <<level, seen, stands>>
    BY <1>1, <2>1 DEF Levels, Clean, Reported, Types, TypeOK
  <2>2. CASE \E e \in ErrorTypes : Report(e, None, None, None)
    BY <1>1, <2>2, Kinds, ReportLevels
  <2> QED BY <2>1, <2>2
<1>4. Labels /\ Execs /\ Places /\ sequence' \in Nat
  BY <1>1 DEF NothingElse, Labels, Execs, Places
<1> QED BY <1>1, <1>2, <1>3, <1>4 DEF LineStep

(* and so is every line about conditions,                                    *)
LEMMA ConditionalStep == ASSUME IInv, ConditionalLine PROVE LineStep
<1> DEFINE misplaced == IF Misplaced(cond) THEN Syntax ELSE None
           unopened == IF Depth(cond) = 0 THEN Syntax ELSE None
<1>1. misplaced \in ErrorTypes /\ unopened \in ErrorTypes
  BY Kinds
<1>2. CASE IfLine
  BY <1>2, ConditionStep DEF IfLine
<1>3. CASE ElsifLine
  <2>1. /\ Take({"elsif"}) /\ NothingElse
        /\ Test(prog[line]) \/ UNCHANGED <<uses, tested>>
        /\ Report(misplaced, None, None, None)
    BY <1>3 DEF ElsifLine
  <2> QED BY <1>1, <2>1, ConditionStep
<1>4. CASE ElseLine
  <2>1. /\ Take({"else"}) /\ NothingElse
        /\ UNCHANGED <<uses, tested>>
        /\ Report(misplaced, None, None, None)
    BY <1>4 DEF ElseLine
  <2> QED BY <1>1, <2>1, ConditionStep
<1>5. CASE EndifLine
  <2>1. /\ Take({"endif"}) /\ NothingElse
        /\ UNCHANGED <<uses, tested>>
        /\ Report(unopened, None, None, None)
    BY <1>5 DEF EndifLine
  <2> QED BY <1>1, <2>1, ConditionStep
<1> QED BY <1>2, <1>3, <1>4, <1>5 DEF ConditionalLine

(* and every line that is skipped.                                           *)
LEMMA SkipStep == ASSUME IInv, SkipExcluded PROVE LineStep
<1>1. /\ Take(Ops \ CondLine) /\ NothingElse
      /\ UNCHANGED <<uses, tested>> /\ UNCHANGED <<level, seen, stands>>
  BY DEF SkipExcluded, NothingElse
<1> QED BY <1>1, ConditionStep

-----------------------------------------------------------------------------
(* The steps between the lines.                                              *)
LEMMA NewSectionRecord == SectionRecord(NewSection)
BY SectionConstants DEF SectionRecord, NewSection, NoPass

(* The invariant holds before the first pass.                                *)
LEMMA InitIInv == Init => IInv
<1> SUFFICES ASSUME Init PROVE IInv
  OBVIOUS
<1> DEFINE blank == [n \in SectionNames |-> NewSection]
<1>1. /\ sections = blank /\ symbols = EmptyTable /\ cur = First
      /\ seen = {} /\ stands = FALSE /\ uses = {} /\ tested = {} /\ level = None
      /\ follow = [n \in SectionNames |-> Nobody] /\ ended = NoEnd
      /\ exec = [x \in {".exec"} |-> NoEntry]
      /\ phase = "between" /\ pass = NoPass /\ line = 0 /\ sequence = 0
      /\ prog \in Programs
  BY DEF Init
<1>2. EmptyTable \in [Symbols -> Entry] /\ NoEntry \in Entry
      /\ \A x \in Symbols : ~Defined(EmptyTable[x].node)
  BY DEF EmptyTable, NoEntry, Entry, Node, Undef, NotEntered, Defined
<1>3. \A n \in SectionNames : sections[n] = NewSection /\ sections[n].pass = NoPass
  BY <1>1 DEF NewSection
<1>4. Nobody \in Follow /\ Nobody.after = "none"
  BY AssemblerConstants DEF Nobody, Follow
<1>5. follow \in [SectionNames -> Follow] /\ \A n \in SectionNames : follow[n].after = "none"
  BY <1>1, <1>4
<1>6. TypeOK
  <2>1. \A m \in SectionNames : sections[m].put \in Nat
    BY <1>3 DEF NewSection
  <2>2. exec \in [{".exec"} -> Entry] /\ ended \in End
    BY <1>1, <1>2 DEF NoEnd, End
  <2> QED BY <1>1, <1>2, <1>5, <2>1, <2>2, Kinds, AssemblerConstants DEF TypeOK, None
<1>7. Types
  BY <1>3, <1>6, NewSectionRecord DEF Types
<1>8. Entered
  BY <1>1, <1>2 DEF Entered
<1>9. Steady /\ Clean /\ Reported /\ Settled /\ Aimed /\ Outcome
  BY <1>1 DEF NoEnd, Aimed, Steady, Clean, Reported, Settled, Outcome, None, OutOfRange
<1>10. Placed
  BY <1>5 DEF Placed
<1>11. PassesOrdered
  BY <1>1, <1>3 DEF PassesOrdered, NoPass
<1> QED BY <1>7, <1>8, <1>9, <1>10, <1>11 DEF IInv

(* A new pass begins with nothing reported, read or followed.                *)
LEMMA BeginPassInv == ASSUME IInv, BeginPass PROVE IInv'
<1>1. /\ phase' = "assembling" /\ pass' = pass + 1 /\ line' = 1
      /\ level' = None /\ seen' = {} /\ stands' = FALSE /\ uses' = {} /\ tested' = {}
      /\ ended' = NoEnd /\ Select(First, pass + 1)
      /\ UNCHANGED <<prog, symbols, exec, sequence>>
  BY DEF BeginPass
<1>2. /\ TypeOK /\ Types /\ Entered /\ PassesOrdered
      /\ pass \in Nat \cup {NoPass}
  BY DEF IInv, Types, TypeOK
<1>3. pass + 1 \in Nat /\ First \in SectionNames
  BY <1>2, AssemblerConstants DEF NoPass
<1>4. /\ DOMAIN sections = SectionNames /\ cur \in SectionNames
      /\ \A m \in SectionNames : sections[m].pass \in Int /\ sections[m].pass <= pass
  BY <1>2 DEF Types, TypeOK, SectionRecord, PassesOrdered
<1>5. \A m \in SectionNames : sections[m].pass # pass + 1
  BY <1>2, <1>4 DEF NoPass
<1>6. /\ cur' = First
      /\ DOMAIN sections' = SectionNames
      /\ \A m \in SectionNames : SectionRecord(sections'[m])
      /\ \A m \in SectionNames \ {First} : sections'[m] = sections[m]
      /\ sections'[First].pass = pass + 1
      /\ follow' \in [SectionNames -> Follow]
      /\ follow'[First].after = "none"
  BY <1>1, <1>2, <1>3, <1>4, <1>5, SelectStep
<1>7. TypeOK'
  <2>1. \A m \in SectionNames : sections'[m].put \in Nat
    BY <1>6 DEF SectionRecord
  <2>2. ended' \in End
    BY <1>1 DEF NoEnd, End
  <2> QED BY <1>1, <1>2, <1>3, <1>6, <2>1, <2>2, Kinds DEF TypeOK
<1>8. Types'
  BY <1>6, <1>7 DEF Types
<1>9. Entered'
  BY <1>1, <1>2 DEF Entered
<1>10. Placed'
  BY <1>1, <1>5, <1>6 DEF Placed
<1>11. PassesOrdered'
  <2> SUFFICES ASSUME NEW m \in SectionNames PROVE sections'[m].pass <= pass + 1
    BY <1>1 DEF PassesOrdered
  <2>1. CASE m = First
    BY <1>3, <1>6, <2>1
  <2>2. CASE m # First
    BY <1>2, <1>4, <1>6, <2>2 DEF NoPass
  <2> QED BY <2>1, <2>2
<1>12. Steady' /\ Clean' /\ Reported' /\ Settled' /\ Aimed'
  BY <1>1 DEF NoEnd, Aimed, Steady, Clean, Reported, Settled, None, OutOfRange
<1>13. Outcome'
  BY <1>1, <1>3 DEF Outcome, NoPass
<1> QED BY <1>8, <1>9, <1>10, <1>11, <1>12, <1>13 DEF IInv

(* What the end of a pass does to a section.                                 *)
LEMMA VerifiedRecord ==
    ASSUME NEW s, SectionRecord(s)
    PROVE  /\ SectionRecord(Verified(s))
           /\ Verified(s).pass = s.pass
           /\ ~Unstable(s) => Verified(s).last_pc = s.last_pc
           /\ Verified(s).last_pc = Verified(s).pc
BY DEF SectionRecord, Verified, Unstable

(* A pass that ends without a failing report left every section where it     *)
(* was.                                                                      *)
LEMMA EndPassInv == ASSUME IInv, EndPass PROVE IInv'
<1> DEFINE e1 == IF Depth(cond) > 0 THEN Syntax ELSE None
           e2 == FinishError(sections)
<1>1. /\ phase = "assembling" /\ phase' = "between"
      /\ sections' = FinishedSections(sections)
      /\ Report(e1, e2, None, None)
      /\ UNCHANGED <<prog, pass, line, symbols, exec, cur, sequence, uses, tested,
                     follow, ended>>
  BY DEF EndPass
<1>2. e1 \in ErrorTypes /\ e2 \in ErrorTypes
  BY Kinds DEF FinishError
<1>3. /\ TypeOK /\ Types /\ Clean /\ Reported /\ Entered /\ Steady /\ Placed
      /\ PassesOrdered /\ Aimed /\ Outcome
  BY DEF IInv, Types
<1> HIDE DEF e1
<1>4. /\ Levels
      /\ ~Failing(level') => ~Failing(e2)
  <2> HIDE DEF e2
  <2> QED BY <1>1, <1>2, <1>3, Kinds, ReportLevels
<1>5. \A n \in SectionNames : sections'[n] = Verified(sections[n])
  BY <1>1 DEF FinishedSections
<1>6. DOMAIN sections' = SectionNames
  BY <1>1 DEF FinishedSections
<1>7. \A n \in SectionNames : SectionRecord(sections[n])
  BY <1>3 DEF Types
<1>8. \A n \in SectionNames :
         /\ SectionRecord(sections'[n])
         /\ sections'[n].pass = sections[n].pass
         /\ ~Unstable(sections[n]) => sections'[n].last_pc = sections[n].last_pc
         /\ sections'[n].last_pc = sections'[n].pc
  BY <1>5, <1>7, VerifiedRecord
<1>9. ~Failing(level') => \A n \in SectionNames : ~Unstable(sections[n])
  BY <1>4, Kinds DEF FinishError
<1>10. level' \in ErrorTypes /\ seen' \subseteq ErrorTypes /\ stands' \in BOOLEAN
       /\ Clean' /\ Reported'
       /\ (~Failing(level') => ~Failing(level))
  BY <1>4 DEF Levels
<1>11. TypeOK'
  BY <1>1, <1>3, <1>6, <1>8, <1>10 DEF TypeOK, SectionRecord
<1>12. Types'
  BY <1>8, <1>11 DEF Types
<1>13. Entered' /\ Steady' /\ Aimed'
  BY <1>1, <1>3, <1>10 DEF Entered, Steady, Aimed, Changeable
<1>14. PassesOrdered'
  BY <1>1, <1>3, <1>8 DEF PassesOrdered
<1>15. Placed'
  <2>1. \A n \in SectionNames : follow[n].section \in SectionNames
    BY <1>3 DEF TypeOK, Follow
  <2> QED BY <1>1, <1>3, <1>8, <1>9, <1>10, <2>1 DEF Placed
<1>16. Settled'
  BY <1>8 DEF Settled
<1>17. Outcome'
  BY <1>1 DEF Outcome
<1> QED BY <1>10, <1>12, <1>13, <1>14, <1>15, <1>16, <1>17 DEF IInv

(* The decision looks at the level only.                                     *)
LEMMA DecideInv == ASSUME IInv, Decide PROVE IInv'
<1>1. /\ phase = "between" /\ pass # NoPass
      /\ level # Inconsistent \/ pass + 1 = MaxPasses
      /\ phase' = IF Failing(level) THEN "failed" ELSE "done"
      /\ UNCHANGED <<prog, pass, line, level, symbols, exec, sections, cur, sequence, cond,
                     seen, stands, uses, tested, follow, ended>>
  BY DEF Decide, Stop
<1>2. Types'
  BY <1>1 DEF IInv, Types, TypeOK
<1>3. Clean' /\ Reported' /\ Entered' /\ Steady' /\ Placed' /\ PassesOrdered' /\ Aimed'
  BY <1>1 DEF IInv, Aimed, Clean, Reported, Entered, Steady, Placed, PassesOrdered, Changeable
<1>4. Settled'
  BY <1>1 DEF IInv, Settled
<1>5. Outcome'
  BY <1>1 DEF IInv, Outcome
<1> QED BY <1>2, <1>3, <1>4, <1>5 DEF IInv

(* Every step preserves the invariant.                                       *)
LEMMA NextIInv == IInv /\ [Next]_vars => IInv'
<1> SUFFICES ASSUME IInv, [Next]_vars PROVE IInv'
  OBVIOUS
<1>1. CASE BeginPass
  BY <1>1, BeginPassInv
<1>2. CASE EndPass
  BY <1>2, EndPassInv
<1>3. CASE Decide
  BY <1>3, DecideInv
<1>4. CASE SkipExcluded
  BY <1>4, SkipStep, LineStepInv
<1>5. CASE PlainLine
  BY <1>5, PlainStep, LineStepInv
<1>6. CASE ConditionalLine
  BY <1>6, ConditionalStep, LineStepInv
<1>7. CASE UNCHANGED vars
  BY <1>7 DEF vars, IInv, Types, TypeOK, Clean, Reported, Entered, Steady, Placed,
              PassesOrdered, Settled, Aimed, Outcome, Changeable
<1> QED BY <1>1, <1>2, <1>3, <1>4, <1>5, <1>6, <1>7 DEF Next

(* The invariant holds of every program, however many passes it is given.    *)
THEOREM Invariance == Spec => []IInv
BY InitIInv, NextIInv, PTL DEF Spec

(* Every variable keeps its type; no line writes a symbol or a section that  *)
(* does not exist.                                                           *)
THEOREM TypeCorrect == Spec => []TypeOK
BY Invariance, IInvImplies, PTL

(* In the pass that output is made from, every operand of a symbol was read  *)
(* with the value the symbol ends with, forward references included.         *)
THEOREM ConsistentOutput == Spec => []SuccessConsistent
BY Invariance, IInvImplies, PTL

(* In the output, every section that was placed after another begins where   *)
(* that one's program counter ended.                                         *)
THEOREM SectionsFollow == Spec => []FollowsPredecessor
BY Invariance, IInvImplies, PTL

(* The execution address is what the last END of the last pass names.        *)
THEOREM ExecIsResolved == Spec => []ExecResolved
BY Invariance, IInvImplies, PTL

(* Output is made only after a pass in which nothing that should fail was    *)
(* reported, although verror() may lower error_level; a program is refused   *)
(* only for an error above out-of-range, for an out-of-range that no         *)
(* inconsistency of the pass followed, or when it is still inconsistent at   *)
(* the limit of passes.                                                      *)
THEOREM OutcomeIsJustified == Spec => []OutcomeJustified
<1>1. IInv => OutcomeJustified
  BY IInvImplies DEF OutcomeJustified
<1> QED BY <1>1, Invariance, PTL

-----------------------------------------------------------------------------
(* Where nothing parts them, a section's two addresses are one throughout,   *)
(* and so are the two it is remembered by: only then does it do no harm that *)
(* only the program counter is compared at the end of a pass.                *)
AtOne(s) == s.pc = s.put /\ s.last_pc = s.last_put

NoValueNegative == \A x \in Symbols : Defined(symbols[x].node) => symbols[x].node.n >= 0

Unparted ==
    NeverParts =>
        /\ \A n \in SectionNames : AtOne(sections[n])
        /\ \A n \in SectionNames : follow[n].pc = follow[n].put
        /\ NothingNegative => NoValueNegative

(* Placed by its program counter, a section is placed by its put address.    *)
LEMMA UnpartedFollows == IInv /\ Unparted => PutFollows
<1> SUFFICES ASSUME IInv, Unparted, Succeeded, NeverParts, NEW n \in SectionNames,
                    sections[n].pass = pass, follow[n].after = "section"
             PROVE  follow[n].put = sections[follow[n].section].put
  BY DEF PutFollows
<1>1. follow[n].pc = sections[follow[n].section].pc
  BY IInvImplies DEF FollowsPredecessor
<1>2. follow[n].section \in SectionNames
  BY DEF IInv, Types, TypeOK, Follow
<1> QED BY <1>1, <1>2 DEF Unparted, AtOne

(* What moves both addresses by as much, or to one place, keeps them so.     *)
LEMMA KeptAtOne ==
    ASSUME NEW s, SectionRecord(s), AtOne(s), NEW k \in Nat, NEW seq
    PROVE  /\ AtOne(Skipped(s, k)) /\ AtOne(Orged(s, k)) /\ AtOne(Verified(s))
           /\ AtOne(Emitted(s, k, seq))
           /\ \A d : AtOne([s EXCEPT !.dp = d])
           /\ \A p, pos : pos.pc = pos.put => AtOne(Selected(s, p, pos))
<1>1. /\ \A d : AtOne([s EXCEPT !.dp = d])
      /\ \A a : AtOne([s EXCEPT !.pc = a, !.put = a])
      /\ \A sp, a : AtOne([s EXCEPT !.spans = sp, !.pc = a, !.put = a])
      /\ AtOne([s EXCEPT !.last_pc = s.pc, !.last_put = s.put])
  BY DEF SectionRecord, AtOne
<1>2. s.pc = s.put /\ k >= 0
  BY DEF AtOne
<1>3. AtOne(Skipped(s, k)) /\ AtOne(Orged(s, k))
  <2>1. s.pc + k = s.put + k
    BY <1>2
  <2>2. Skipped(s, k) = [s EXCEPT !.pc = s.pc + k, !.put = s.pc + k]
    BY <2>1 DEF Skipped
  <2>3. Orged(s, k) = [s EXCEPT !.pc = k, !.put = k]
    BY <1>2 DEF Orged
  <2> QED BY <1>1, <2>2, <2>3, Zenon
<1>4. AtOne(Verified(s))
  BY <1>1, Zenon DEF Verified
<1>5. AtOne(Emitted(s, k, seq))
  <2> DEFINE spans == Opened(s, seq)
  <2> DEFINE filled == [spans EXCEPT ![Len(spans)] = Filled(@, k, s.pc + k)]
  <2>1. Emitted(s, k, seq) = [s EXCEPT !.spans = filled, !.pc = s.pc + k, !.put = s.pc + k]
    BY <1>2 DEF Emitted
  <2> HIDE DEF filled
  <2> DEFINE a == s.pc + k
  <2>2. AtOne([s EXCEPT !.spans = filled, !.pc = a, !.put = a])
    <3> HIDE DEF a
    <3> QED BY DEF SectionRecord, AtOne
  <2> QED BY <2>1, <2>2, Zenon
<1>6. ASSUME NEW p, NEW pos, pos.pc = pos.put PROVE AtOne(Selected(s, p, pos))
  <2>1. CASE s.pass = p
    BY <2>1 DEF Selected
  <2>2. CASE s.pass # p
    <3> DEFINE t == [s EXCEPT !.spans = <<>>, !.pc = pos.pc, !.put = pos.put, !.pass = p,
                              !.dp = SetDP]
    <3>1. /\ t.pc = pos.pc /\ t.put = pos.put
          /\ t.last_pc = s.last_pc /\ t.last_put = s.last_put
      BY DEF SectionRecord
    <3>2. Selected(s, p, pos) = t
      BY <2>2 DEF Selected
    <3> HIDE DEF t
    <3> QED BY <1>6, <3>1, <3>2 DEF AtOne
  <2> QED BY <2>1, <2>2
<1> QED BY <1>1, <1>3, <1>4, <1>5, <1>6, Zenon

(* No label is set to a negative value.                                      *)
LEMMA LabelNotNegative ==
    ASSUME symbols \in [Symbols -> Entry], NoValueNegative, NEW l \in Line, NEW node,
           Defined(node) => node.n >= 0, NEW changeable, SetLabel(l, node, changeable)
    PROVE  NoValueNegative'
<1> DEFINE new == [pass |-> pass, node |-> node]
<1>1. symbols' = symbols \/ (l.label \in Symbols /\ symbols' = [symbols EXCEPT ![l.label] = new])
  BY DEF SetLabel, SymbolSet, Line
<1>2. new.node = node
  OBVIOUS
<1> HIDE DEF new
<1>3. CASE symbols' = symbols
  BY <1>3 DEF NoValueNegative
<1>4. CASE l.label \in Symbols /\ symbols' = [symbols EXCEPT ![l.label] = new]
  <2>1. \A x \in Symbols : symbols'[x] = IF x = l.label THEN new ELSE symbols[x]
    BY <1>4
  <2> QED BY <1>2, <2>1 DEF NoValueNegative
<1> QED BY <1>1, <1>3, <1>4

(* What is known of a line where nothing parts the two.                      *)
LEMMA UnpartedFacts ==
    ASSUME IInv, Unparted, NeverParts, NEW ops, Take(ops)
    PROVE  /\ \A n \in SectionNames :
                  SectionRecord(sections[n]) /\ AtOne(sections[n]) /\ sections[n].pc \in Nat
           /\ \A n \in SectionNames : follow[n].pc = follow[n].put
           /\ DOMAIN sections = SectionNames /\ cur \in SectionNames
           /\ line \in DOMAIN prog /\ prog[line] \in Line /\ prog[line].op \in ops
           /\ prog[line].op # "put" /\ prog' = prog
           /\ symbols \in [Symbols -> Entry] /\ follow \in [SectionNames -> Follow]
           /\ prog[line].op = "org" =>
                  prog[line].off >= 0 /\ (UsesSymbol(prog[line]) => NothingNegative)
           /\ NothingNegative =>
                  /\ NoValueNegative
                  /\ Defined(Value(prog[line])) => Value(prog[line]).n >= 0
<1>1. /\ Types /\ prog[line] \in Line /\ prog[line].op \in ops /\ prog' = prog
      /\ cur \in SectionNames
  BY TakeFacts
<1>2. line \in DOMAIN prog
  <2>1. prog \in Seq(Line) /\ line \in 1 .. Len(prog)
    BY <1>1, ProgramsAreLines DEF Types, TypeOK, Take
  <2> QED BY <2>1
<1>3. /\ \A n \in SectionNames : SectionRecord(sections[n])
      /\ \A n \in SectionNames : AtOne(sections[n]) /\ follow[n].pc = follow[n].put
      /\ DOMAIN sections = SectionNames
      /\ symbols \in [Symbols -> Entry] /\ follow \in [SectionNames -> Follow]
      /\ NothingNegative => NoValueNegative
  BY <1>1 DEF Types, TypeOK, Unparted
<1>4. \A n \in SectionNames : sections[n].pc \in Nat
  BY <1>3 DEF SectionRecord, AtOne
<1>5. prog[line].op # "put" /\
      (prog[line].op = "org" =>
          prog[line].off >= 0 /\ (UsesSymbol(prog[line]) => NothingNegative))
  BY <1>2 DEF NeverParts
<1>6. ASSUME NothingNegative, Defined(Value(prog[line])) PROVE Value(prog[line]).n >= 0
  <2> DEFINE l == prog[line]
  <2>1. l.off >= 0 /\ l.off \in Int /\ l.sym \in Symbols \cup {NoSymbol}
    BY <1>1, <1>2, <1>6 DEF NothingNegative, Line
  <2>2. CASE ~UsesSymbol(l)
    BY <2>1, <2>2 DEF Value, Num
  <2>3. CASE UsesSymbol(l)
    <3>1. l.sym \in Symbols /\ Defined(symbols[l.sym].node)
      BY <1>6, <2>1, <2>3 DEF Value, UsesSymbol, Defined, Undef
    <3>2. symbols[l.sym].node.n \in Int /\ symbols[l.sym].node.n >= 0
      BY <1>3, <1>6, <3>1 DEF NoValueNegative, Entry, Node
    <3>3. Value(l).n = symbols[l.sym].node.n + l.off
      BY <2>3, <3>1 DEF Value, Num
    <3> QED BY <2>1, <3>2, <3>3
  <2> QED BY <2>2, <2>3
<1> QED BY <1>1, <1>2, <1>3, <1>4, <1>5, <1>6

(* A line that does as much to both addresses of the current section.        *)
LEMMA UnpartedLine ==
    ASSUME IInv, Unparted, NeverParts, NEW ops, Take(ops),
           NEW s, AtOne(s), UNCHANGED follow,
           sections' = sections \/ sections' = [sections EXCEPT ![cur] = s],
           NEW node, Defined(node) => (NothingNegative => node.n >= 0), NEW changeable,
           SetLabel(prog[line], node, changeable)
    PROVE  Unparted'
<1>1. /\ \A n \in SectionNames : AtOne(sections[n]) /\ follow[n].pc = follow[n].put
      /\ DOMAIN sections = SectionNames /\ prog[line] \in Line /\ prog' = prog
      /\ symbols \in [Symbols -> Entry] /\ (NothingNegative => NoValueNegative)
  BY UnpartedFacts
<1>2. \A n \in SectionNames : sections'[n] = sections[n] \/ sections'[n] = s
  BY <1>1
<1>3. \A n \in SectionNames : AtOne(sections'[n])
  BY <1>1, <1>2
<1>4. NothingNegative => NoValueNegative'
  BY <1>1, LabelNotNegative
<1>5. NothingNegative' <=> NothingNegative
  BY <1>1 DEF NothingNegative
<1>6. (\A n \in SectionNames : AtOne(sections[n]))'
  BY <1>3 DEF AtOne
<1> QED BY <1>1, <1>4, <1>5, <1>6 DEF Unparted

(* One that operates on the current section.                                 *)
LEMMA UnpartedOperate ==
    ASSUME IInv, Unparted, NeverParts, NEW ops, Take(ops), NEW s, AtOne(s),
           NEW opened, NEW e3, NEW e4, Operate(s, opened, e3, e4)
    PROVE  Unparted'
<1>1. /\ sections' = [sections EXCEPT ![cur] = s] /\ UNCHANGED follow
      /\ SetLabel(prog[line], Here, FALSE)
  BY DEF Operate
<1>2. Here.n >= 0
  BY UnpartedFacts DEF Here, Num
<1> QED BY <1>1, <1>2, UnpartedLine

(* Every line outside conditions.                                            *)
LEMMA UnpartedPlain ==
    ASSUME IInv, Unparted, NeverParts, PlainLine
    PROVE  Unparted'
<1> DEFINE l == prog[line]
<1> DEFINE c == sections[cur]
<1>1. ASSUME NEW ops, Take(ops)
      PROVE  SectionRecord(c) /\ AtOne(c) /\ c.pc \in Nat
  BY <1>1, UnpartedFacts
<1>2. ASSUME NEW ops, Take(ops), NEW k \in Nat
      PROVE  /\ AtOne(Skipped(c, k)) /\ AtOne(Orged(c, k))
             /\ \A q : AtOne(Emitted(c, k, q)) /\ AtOne(Emitted(AfterOp(c), k, q))
             /\ \A d : AtOne([c EXCEPT !.dp = d])
  <2>1. SectionRecord(c) /\ AtOne(c)
    BY <1>1, <1>2
  <2>2. SectionRecord(AfterOp(c)) /\ AtOne(AfterOp(c))
    BY <2>1, KeptAtOne, EmittedRecord DEF AfterOp, SamePass
  <2> HIDE DEF c
  <2> QED BY <1>2, <2>1, <2>2, KeptAtOne
<1>3. CASE EquLine
  <2>1. /\ Take({"equ", "set"}) /\ SetLabel(l, Value(l), l.op = "set")
        /\ UNCHANGED <<sections, follow>>
    BY <1>3 DEF EquLine, TakeIncluded, TakeRunning
  <2>2. NothingNegative => (Defined(Value(l)) => Value(l).n >= 0)
    BY <2>1, UnpartedFacts
  <2> QED BY <1>1, <2>1, <2>2, UnpartedLine
<1>4. CASE OrgLine
  <2> DEFINE addr == IntArg(l, c.pc)
  <2>1. /\ Take({"org"}) /\ SetLabel(l, Num(addr), FALSE) /\ UNCHANGED follow
        /\ sections' = [sections EXCEPT ![cur] = Orged(c, addr)]
    BY <1>4 DEF OrgLine, TakeIncluded, TakeRunning
  <2>2. addr \in Nat
    <3>1. /\ Types /\ l \in Line /\ c.pc \in Nat
          /\ l.off >= 0 /\ (UsesSymbol(l) => NothingNegative)
          /\ (NothingNegative => (Defined(Value(l)) => Value(l).n >= 0))
      BY <2>1, <1>1, TakeFacts, UnpartedFacts
    <3>2. Value(l) \in Node
      BY <3>1, Operand
    <3>3. ~UsesSymbol(l) => Value(l).n = l.off
      BY DEF Value, Num
    <3> HIDE DEF l, c
    <3> QED BY <3>1, <3>2, <3>3 DEF IntArg, Node
  <2>3. AtOne(Orged(c, addr))
    BY <1>2, <2>1, <2>2
  <2>4. Num(addr).n >= 0
    BY <2>2 DEF Num
  <2> HIDE DEF addr
  <2> QED BY <2>1, <2>3, <2>4, UnpartedLine
<1>5. CASE SectionLine
  <2> DEFINE pos == StartAfter(c, pass)
  <2> DEFINE new == Selected(sections[l.section], pass, pos)
  <2>1. /\ Take({"section"}) /\ Select(l.section, pass) /\ SetLabel(l, Num(new.pc), FALSE)
    BY <1>5 DEF SectionLine, TakeIncluded, TakeRunning
  <2>2. /\ l \in Line /\ prog' = prog /\ DOMAIN sections = SectionNames
        /\ cur \in SectionNames /\ symbols \in [Symbols -> Entry]
        /\ \A n \in SectionNames : SectionRecord(sections[n]) /\ AtOne(sections[n])
        /\ \A n \in SectionNames : follow[n].pc = follow[n].put
        /\ follow \in [SectionNames -> Follow]
        /\ NothingNegative => NoValueNegative
        /\ pass \in Nat
    BY <2>1, UnpartedFacts, TakeFacts
  <2>3. l.section \in SectionNames
    BY <2>2 DEF Line
  <2>4. pos.pc = pos.put /\ pos \in [pc : Int, put : Nat]
    BY <2>2, StartPlace DEF StartAfter, AtOne
  <2>5. AtOne(new) /\ SectionRecord(new)
    <3> DEFINE t == sections[l.section]
    <3>1. SectionRecord(t) /\ AtOne(t) /\ pass \in Int /\ 0 \in Nat
      BY <2>2, <2>3
    <3> HIDE DEF pos, t
    <3>2. AtOne(Selected(t, pass, pos))
      BY <2>4, <3>1, KeptAtOne, Zenon
    <3>3. SectionRecord(Selected(t, pass, pos))
      BY <2>4, <3>1, SelectedRecord
    <3> QED BY <3>2, <3>3 DEF t
  <2>6. Num(new.pc).n >= 0
    <3> HIDE DEF new
    <3> QED BY <2>5 DEF AtOne, SectionRecord, Num
  <2>7. NothingNegative => NoValueNegative'
    <3> HIDE DEF new, l
    <3> QED BY <2>1, <2>2, <2>6, LabelNotNegative
  <2>8. \A n \in SectionNames : AtOne(sections'[n])
    <3>1. sections' = [sections EXCEPT ![l.section] = new]
      BY <2>1 DEF Select
    <3> HIDE DEF new, l
    <3> QED BY <2>2, <2>5, <3>1
  <2>9. \A n \in SectionNames : follow'[n].pc = follow'[n].put
    <3> DEFINE f == [after |-> IF c.pass = pass THEN "section" ELSE "none",
                     section |-> cur, pc |-> pos.pc, put |-> pos.put]
    <3>1. follow' = follow \/ follow' = [follow EXCEPT ![l.section] = f]
      BY <2>1 DEF Select
    <3>2. f.pc = f.put
      BY <2>4
    <3> HIDE DEF f, l
    <3> QED BY <2>2, <3>1, <3>2
  <2>10. NothingNegative' <=> NothingNegative
    BY <2>2 DEF NothingNegative
  <2>11. (\A n \in SectionNames : AtOne(sections[n]))'
    BY <2>8 DEF AtOne
  <2> QED BY <2>7, <2>9, <2>10, <2>11 DEF Unparted
<1>6. CASE LabelLine
  <2>1. /\ Take({"label"}) /\ SetLabel(l, Here, FALSE) /\ UNCHANGED <<sections, follow>>
    BY <1>6 DEF LabelLine, TakeIncluded, TakeRunning
  <2>2. Here.n >= 0
    BY <2>1, <1>1 DEF Here, Num
  <2> QED BY <1>1, <2>1, <2>2, UnpartedLine
<1>7. CASE PutLine
  <2>1. Take({"put"})
    BY <1>7 DEF PutLine, TakeIncluded, TakeRunning
  <2> QED BY <2>1, UnpartedFacts
<1>8. CASE SetdpLine
  <2>1. Take({"setdp"}) /\ \E d : Operate([c EXCEPT !.dp = d], FALSE, None, None)
    BY <1>8 DEF SetdpLine, TakeIncluded, TakeRunning
  <2>2. \A d : AtOne([c EXCEPT !.dp = d])
    BY <2>1, <1>2
  <2> QED BY <2>1, <2>2, UnpartedOperate
<1>9. CASE RmbLine
  <2> DEFINE count == IntArg(l, 0)
  <2>1. Take({"rmb"}) /\ IF count < 0 THEN Operate(c, FALSE, OutOfRange, None)
                         ELSE Operate(Skipped(c, count), FALSE, None, None)
    BY <1>9 DEF RmbLine, TakeIncluded, TakeRunning
  <2>2. count \in Int
    BY <2>1, TakeFacts, Operand
  <2> HIDE DEF count
  <2>3. CASE count < 0
    BY <1>1, <2>1, <2>3, UnpartedOperate
  <2>4. CASE ~(count < 0)
    <3>1. count \in Nat
      BY <2>2, <2>4
    <3>2. AtOne(Skipped(c, count))
      BY <1>2, <2>1, <3>1
    <3> QED BY <2>1, <2>4, <3>2, UnpartedOperate
  <2> QED BY <2>3, <2>4
<1>10. CASE FcbLine
  <2>1. Take({"fcb"})
        /\ \E opened, e3, e4 : Operate(Emitted(c, 1, sequence), opened, e3, e4)
    BY <1>10, Zenon DEF FcbLine, TakeIncluded, TakeRunning
  <2>2. AtOne(Emitted(c, 1, sequence))
    BY <1>2, <2>1
  <2> QED BY <2>1, <2>2, UnpartedOperate
<1>11. CASE LdaLine \/ BraLine
  <2>1. PICK n \in {1, 2} : /\ Take({"lda"}) \/ Take({"bra"})
                            /\ \E opened, e3, e4 :
                                  Operate(Emitted(AfterOp(c), n, sequence), opened, e3, e4)
    <3>1. CASE LdaLine
      <4> DEFINE direct == Defined(Value(l)) /\ c.dp = Page(Value(l).n)
      <4> DEFINE n == IF direct THEN 1 ELSE 2
      <4>1. /\ Take({"lda"})
            /\ Operate(Emitted(AfterOp(c), n, sequence), OpensSpan(c), EmitError(c, 1),
                       EmitError(AfterOp(c), n))
        BY <3>1 DEF LdaLine, TakeIncluded, TakeRunning
      <4>2. n \in {1, 2}
        OBVIOUS
      <4> HIDE DEF n
      <4> QED BY <4>1, <4>2, Zenon
    <3>2. CASE BraLine
      <4>1. /\ Take({"bra"})
            /\ \E opened, e3, e4 : Operate(Emitted(AfterOp(c), 1, sequence), opened, e3, e4)
        BY <3>2, Zenon DEF BraLine, TakeIncluded, TakeRunning
      <4> QED BY <4>1
    <3> QED BY <1>11, <3>1, <3>2
  <2>2. AtOne(Emitted(AfterOp(c), n, sequence))
    BY <1>2, <2>1
  <2> QED BY <2>1, <2>2, UnpartedOperate
<1>12. CASE EndLine
  <2>1. Take({"end"}) /\ \E e3, e4 : Operate(c, FALSE, e3, e4)
    BY <1>12, Zenon DEF EndLine, TakeRunning
  <2> QED BY <1>1, <2>1, UnpartedOperate
<1>13. CASE BadSectionLine
  <2>1. UNCHANGED <<prog, symbols, sections, follow>>
    BY <1>13 DEF BadSectionLine, TakeIncluded, TakeRunning, Take
  <2>2. /\ NoValueNegative' <=> NoValueNegative
        /\ NothingNegative' <=> NothingNegative
    BY <2>1 DEF NoValueNegative, NothingNegative
  <2>3. \A n \in SectionNames : AtOne(sections[n]) /\ follow[n].pc = follow[n].put
    BY DEF Unparted
  <2>4. (\A n \in SectionNames : AtOne(sections[n]))'
    BY <2>1, <2>3 DEF AtOne
  <2> QED BY <2>1, <2>2, <2>3, <2>4 DEF Unparted
<1> QED BY <1>3, <1>4, <1>5, <1>6, <1>7, <1>8, <1>9, <1>10, <1>11, <1>12, <1>13
        DEF PlainLine

(* Every step.                                                               *)
LEMMA NextUnparted == IInv /\ Unparted /\ [Next]_vars => Unparted'
<1> SUFFICES ASSUME IInv, Unparted, [Next]_vars, NeverParts' PROVE Unparted'
  BY DEF Unparted
<1>1. prog' = prog
  BY DEF Next, BeginPass, EndPass, Decide, Stop, SkipExcluded, PlainLine, ConditionalLine,
         EquLine, OrgLine, SectionLine, BadSectionLine, LabelLine, PutLine, SetdpLine,
         RmbLine, FcbLine, LdaLine, BraLine, EndLine, IfLine, ElsifLine, ElseLine, EndifLine, TakeIncluded,
         TakeRunning, Take, vars
<1>2. NeverParts /\ (NothingNegative' <=> NothingNegative)
  BY <1>1 DEF NeverParts, NothingNegative, UsesSymbol
<1>3. /\ \A n \in SectionNames : SectionRecord(sections[n]) /\ AtOne(sections[n])
      /\ \A n \in SectionNames : follow[n].pc = follow[n].put
      /\ NothingNegative => NoValueNegative
      /\ DOMAIN sections = SectionNames /\ cur \in SectionNames
      /\ follow \in [SectionNames -> Follow]
  BY <1>2 DEF Unparted, IInv, Types, TypeOK
<1>4. CASE UNCHANGED <<sections, follow, symbols>>
  <2>1. NoValueNegative' <=> NoValueNegative
    BY <1>4 DEF NoValueNegative
  <2>2. (\A n \in SectionNames : AtOne(sections[n]))'
    BY <1>3, <1>4 DEF AtOne
  <2> QED BY <1>2, <1>3, <1>4, <2>1, <2>2 DEF Unparted
<1>5. CASE BeginPass
  <2> DEFINE p == pass + 1
  <2> DEFINE pos == StartAfter(sections[cur], p)
  <2> DEFINE new == Selected(sections[First], p, pos)
  <2> DEFINE f == [after |-> IF sections[cur].pass = p THEN "section" ELSE "none",
                   section |-> cur, pc |-> pos.pc, put |-> pos.put]
  <2>1. /\ sections' = [sections EXCEPT ![First] = new]
        /\ follow' = follow \/ follow' = [follow EXCEPT ![First] = f]
        /\ symbols' = symbols
    BY <1>5 DEF BeginPass, Select
  <2>2. pos.pc = pos.put
    BY <1>3 DEF StartAfter, AtOne
  <2>3. f.pc = f.put
    BY <2>2
  <2>4. AtOne(new)
    <3> HIDE DEF pos, p
    <3> QED BY <1>3, <2>2, AssemblerConstants, KeptAtOne
  <2> HIDE DEF new, f
  <2>5. \A n \in SectionNames : AtOne(sections'[n])
    BY <1>3, <2>1, <2>4
  <2>6. \A n \in SectionNames : follow'[n].pc = follow'[n].put
    BY <1>3, <2>1, <2>3
  <2>7. (\A n \in SectionNames : AtOne(sections[n]))'
    BY <2>5 DEF AtOne
  <2>8. NoValueNegative' <=> NoValueNegative
    BY <2>1 DEF NoValueNegative
  <2> QED BY <1>2, <1>3, <2>6, <2>7, <2>8 DEF Unparted
<1>6. CASE EndPass
  <2>1. /\ \A n \in SectionNames : sections'[n] = Verified(sections[n])
        /\ UNCHANGED <<follow, symbols>>
    BY <1>6 DEF EndPass, FinishedSections
  <2>2. \A n \in SectionNames : AtOne(sections'[n])
    BY <1>3, <2>1, KeptAtOne
  <2>3. (\A n \in SectionNames : AtOne(sections[n]))'
    BY <2>2 DEF AtOne
  <2>4. NoValueNegative' <=> NoValueNegative
    BY <2>1 DEF NoValueNegative
  <2> QED BY <1>2, <1>3, <2>1, <2>3, <2>4 DEF Unparted
<1>7. CASE Decide \/ SkipExcluded \/ ConditionalLine \/ UNCHANGED vars
  BY <1>4, <1>7 DEF Decide, Stop, SkipExcluded, ConditionalLine, IfLine, ElsifLine, ElseLine,
                    EndifLine, NothingElse, vars
<1>8. CASE PlainLine
  BY <1>2, <1>8, UnpartedPlain
<1> QED BY <1>5, <1>6, <1>7, <1>8 DEF Next

LEMMA InitUnparted == Init => Unparted
<1> SUFFICES ASSUME Init PROVE Unparted
  OBVIOUS
<1>1. \A n \in SectionNames : sections[n] = NewSection /\ follow[n] = Nobody
  BY DEF Init
<1>2. AtOne(NewSection) /\ Nobody.pc = Nobody.put
  BY DEF AtOne, NewSection, Nobody
<1>3. NoValueNegative
  BY DEF Init, NoValueNegative, EmptyTable, NoEntry, Undef, Defined
<1> QED BY <1>1, <1>2, <1>3 DEF Unparted

(* Where no line parts a section's two addresses, the put address of the     *)
(* section that follows it is right too, though it is never compared.        *)
THEOREM PutsFollow == Spec => []PutFollows
<1>1. Init => IInv /\ Unparted
  BY InitIInv, InitUnparted
<1>2. IInv /\ Unparted /\ [Next]_vars => (IInv /\ Unparted)'
  BY NextIInv, NextUnparted
<1> QED BY <1>1, <1>2, UnpartedFollows, PTL DEF Spec

=============================================================================
