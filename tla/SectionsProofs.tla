--------------------------- MODULE SectionsProofs ---------------------------
(* Proofs, for any section names, passes, operands and bounds, of the        *)
(* invariants of Sections that TLC checks on small instances, and of what    *)
(* the listing shows of the sections.                                        *)
EXTENDS Listing, TLAPS, SequenceTheorems, WellFoundedInduction

(* What one section satisfies when the next span will be numbered "seq".     *)
SectionInv(s, seq) ==
    /\ s \in Section
    /\ \A i \in DOMAIN s.spans :
           /\ 0 < s.spans[i].size
           /\ s.spans[i].size <= s.spans[i].allocated
           /\ s.spans[i].sequence < seq
    /\ \A i \in 1 .. Len(s.spans) - 1 :
           \/ s.spans[i + 1].put # NextPut(s.spans[i])
           \/ s.spans[i + 1].org # NextPc(s.spans[i])
    /\ \A i, j \in DOMAIN s.spans :
           i < j => s.spans[i].sequence < s.spans[j].sequence

(* Filling a span whose section stands at its end keeps its place and        *)
(* number, and what is written fits the buffer.                              *)
LEMMA FilledSpan ==
    ASSUME NEW span \in Span, NEW k \in 1 .. MaxEmit, NEW pc \in Int,
           span.size <= span.allocated, pc = NextPc(span) + k
    PROVE  LET f == Filled(span, k, pc)
           IN  /\ f \in Span
               /\ f.sequence = span.sequence
               /\ f.put = span.put
               /\ f.org = span.org
               /\ f.size = span.size + k
               /\ 0 < f.size /\ f.size <= f.allocated
<1>1. k \in Nat /\ 0 < k /\ k <= AllocStep /\ AllocStep \in Nat
  BY SectionConstants, SectionsConstants
<1>2. /\ span.size \in Nat /\ span.allocated \in Nat /\ span.org \in Int
      /\ span.sequence \in Nat /\ span.put \in Nat
      /\ pc = span.org + span.size + k
  BY DEF Span, NextPc
<1> DEFINE room == IF pc >= span.org + span.allocated
                   THEN span.allocated + AllocStep ELSE span.allocated
           size == span.size + k
<1>3. room \in Nat /\ size \in Nat /\ 0 < size /\ size <= room
  BY <1>1, <1>2
<1>4. Filled(span, k, pc) = [span EXCEPT !.allocated = room, !.size = size]
  BY DEF Filled
<1> HIDE DEF room, size
<1>5. /\ Filled(span, k, pc) \in Span
      /\ Filled(span, k, pc).size = size
      /\ Filled(span, k, pc).allocated = room
      /\ Filled(span, k, pc).sequence = span.sequence
      /\ Filled(span, k, pc).put = span.put
      /\ Filled(span, k, pc).org = span.org
  BY <1>3, <1>4 DEF Span
<1> QED BY <1>3, <1>5 DEF size

(* Emitting into a section that satisfies SectionInv extends its last span   *)
(* or appends one numbered "seq"; a section without empty spans never reuses *)
(* one.                                                                      *)
LEMMA EmittedSpans ==
    ASSUME NEW s \in Section, NEW k \in 1 .. MaxEmit, NEW seq \in Nat,
           SectionInv(s, seq)
    PROVE  LET t == Emitted(s, k, seq)
               n == Len(s.spans)
           IN  /\ t.spans \in Seq(Span)
               /\ \/ /\ ~OpensSpan(s)
                     /\ n > 0
                     /\ Len(t.spans) = n
                     /\ \A i \in 1 .. n - 1 : t.spans[i] = s.spans[i]
                     /\ t.spans[n].sequence = s.spans[n].sequence
                     /\ t.spans[n].put = s.spans[n].put
                     /\ t.spans[n].org = s.spans[n].org
                     /\ t.spans[n].size = s.spans[n].size + k
                     /\ s.put = NextPut(s.spans[n])
                     /\ s.pc = NextPc(s.spans[n])
                     /\ 0 < t.spans[n].size
                     /\ t.spans[n].size <= t.spans[n].allocated
                  \/ /\ OpensSpan(s)
                     /\ Len(t.spans) = n + 1
                     /\ \A i \in 1 .. n : t.spans[i] = s.spans[i]
                     /\ t.spans[n + 1].sequence = seq
                     /\ t.spans[n + 1].put = s.put
                     /\ t.spans[n + 1].org = s.pc
                     /\ t.spans[n + 1].size = k
                     /\ 0 < t.spans[n + 1].size
                     /\ t.spans[n + 1].size <= t.spans[n + 1].allocated
                     /\ n > 0 => \/ s.put # NextPut(s.spans[n])
                                 \/ s.pc # NextPc(s.spans[n])
<1> DEFINE n == Len(s.spans)
           t == Emitted(s, k, seq)
<1>0. /\ k \in Nat /\ k > 0 /\ n \in Nat
      /\ s.spans \in Seq(Span)
      /\ s.pc \in Int /\ s.put \in Nat
      /\ DOMAIN s.spans = 1 .. n
      /\ s.spans # <<>> <=> n > 0
      /\ DOMAIN s = {"spans", "pass", "pc", "put", "dp", "last_pc", "last_put"}
  BY SectionConstants, SectionsConstants DEF Section
<1>1. CASE Continues(s)
  <2>1. n > 0 /\ ~OpensSpan(s)
    BY <1>0, <1>1 DEF Continues, OpensSpan
  <2> DEFINE last == s.spans[n]
             f == Filled(last, k, s.pc + k)
  <2>2. /\ last \in Span /\ last.size <= last.allocated
        /\ s.pc = NextPc(last) /\ s.put = NextPut(last)
    BY <1>0, <1>1, <2>1 DEF SectionInv, Continues, CurrentSpan
  <2>3. t.spans = [s.spans EXCEPT ![n] = f]
    BY <1>0, <1>1 DEF Emitted, Opened
  <2>4. /\ f \in Span
        /\ f.sequence = last.sequence
        /\ f.put = last.put
        /\ f.org = last.org
        /\ f.size = last.size + k
        /\ 0 < f.size /\ f.size <= f.allocated
    BY <1>0, <2>2, FilledSpan
  <2> HIDE DEF f
  <2>5. /\ t.spans \in Seq(Span)
        /\ Len(t.spans) = n
        /\ t.spans[n] = f
        /\ \A i \in 1 .. n - 1 : t.spans[i] = s.spans[i]
    BY <1>0, <2>1, <2>3, <2>4
  <2> QED BY <2>1, <2>2, <2>4, <2>5
<1>2. CASE ~Continues(s)
  <2>1. n > 0 => s.spans[n] \in Span /\ s.spans[n].size # 0
    BY <1>0 DEF SectionInv
  <2>2. OpensSpan(s)
    BY <1>0, <1>2, <2>1 DEF OpensSpan, CurrentSpan
  <2> DEFINE new == [sequence |-> seq, org |-> s.pc, put |-> s.put, size |-> 0,
                     allocated |-> 0]
             f == Filled(new, k, s.pc + k)
             spans == Append(s.spans, new)
  <2>3. Opened(s, seq) = spans
    BY <1>0, <1>2, <2>1 DEF Opened, CurrentSpan
  <2>4. new \in Span /\ new.size = 0 /\ new.allocated = 0 /\ NextPc(new) = s.pc
        /\ new.sequence = seq /\ new.put = s.put /\ new.org = s.pc
    BY <1>0 DEF Span, NextPc
  <2> HIDE DEF new
  <2>5. /\ f \in Span
        /\ f.sequence = seq
        /\ f.put = s.put
        /\ f.org = s.pc
        /\ f.size = k
        /\ 0 < f.size /\ f.size <= f.allocated
    BY <1>0, <2>4, FilledSpan
  <2> HIDE DEF f
  <2>6. spans \in Seq(Span) /\ Len(spans) = n + 1 /\ spans[n + 1] = new
        /\ \A i \in 1 .. n : spans[i] = s.spans[i]
    BY <1>0, <2>4
  <2>7. t.spans = [spans EXCEPT ![n + 1] = f]
    <3> HIDE DEF spans
    <3> QED BY <1>0, <2>3, <2>6 DEF Emitted, f
  <2> HIDE DEF spans
  <2>8. /\ t.spans \in Seq(Span)
        /\ Len(t.spans) = n + 1
        /\ t.spans[n + 1] = f
        /\ \A i \in 1 .. n : t.spans[i] = s.spans[i]
    BY <1>0, <2>5, <2>6, <2>7
  <2>9. n > 0 => s.put # NextPut(s.spans[n]) \/ s.pc # NextPc(s.spans[n])
    BY <1>0, <1>2 DEF Continues, CurrentSpan
  <2> QED BY <2>2, <2>5, <2>8, <2>9
<1> QED BY <1>1, <1>2

(* Fields of the section an emission leaves that its spans do not show.      *)
LEMMA EmittedFields ==
    ASSUME NEW s \in Section, NEW k \in 1 .. MaxEmit, NEW seq \in Nat,
           Emitted(s, k, seq).spans \in Seq(Span)
    PROVE  /\ Emitted(s, k, seq) \in Section
           /\ Emitted(s, k, seq).pass = s.pass
<1>1. k \in Nat
  BY SectionConstants, SectionsConstants
<1> DEFINE spans == Emitted(s, k, seq).spans
           pc    == s.pc + k
           put   == s.put + k
<1>2. Emitted(s, k, seq) = [s EXCEPT !.spans = spans, !.pc = pc, !.put = put]
  BY DEF Emitted, Section
<1>3. pc \in Int /\ put \in Nat
  BY <1>1 DEF Section
<1> HIDE DEF spans, pc, put
<1>4. spans \in Seq(Span)
  BY DEF spans
<1> QED BY <1>2, <1>3, <1>4 DEF Section

(* Emitting keeps a section's invariant.                                     *)
LEMMA EmittedInv ==
    ASSUME NEW s \in Section, NEW k \in 1 .. MaxEmit, NEW seq \in Nat,
           SectionInv(s, seq)
    PROVE  SectionInv(Emitted(s, k, seq), IF OpensSpan(s) THEN seq + 1 ELSE seq)
<1> DEFINE t == Emitted(s, k, seq)
           n == Len(s.spans)
<1>0. s.spans \in Seq(Span) /\ n \in Nat /\ DOMAIN s.spans = 1 .. n
  BY DEF Section
<1>1. t.spans \in Seq(Span)
  BY EmittedSpans
<1>2. t \in Section
  BY <1>1, EmittedFields
<1> HIDE DEF t
<1>3. DOMAIN t.spans = 1 .. Len(t.spans) /\ Len(t.spans) \in Nat
      /\ \A i \in DOMAIN t.spans : t.spans[i] \in Span
  BY <1>1
<1>4. \A i \in 1 .. n : /\ s.spans[i] \in Span
                        /\ 0 < s.spans[i].size
                        /\ s.spans[i].size <= s.spans[i].allocated
                        /\ s.spans[i].sequence < seq
                        /\ s.spans[i].sequence \in Nat
  <2>1. \A i \in 1 .. n : /\ 0 < s.spans[i].size
                          /\ s.spans[i].size <= s.spans[i].allocated
                          /\ s.spans[i].sequence < seq
    BY <1>0 DEF SectionInv
  <2>2. \A i \in 1 .. n : s.spans[i] \in Span
    BY <1>0
  <2> QED BY <2>1, <2>2 DEF Span
<1>5. CASE ~OpensSpan(s)
  <2>1. /\ n > 0
        /\ Len(t.spans) = n
        /\ \A i \in 1 .. n - 1 : t.spans[i] = s.spans[i]
        /\ t.spans[n].sequence = s.spans[n].sequence
        /\ t.spans[n].put = s.spans[n].put
        /\ t.spans[n].org = s.spans[n].org
        /\ 0 < t.spans[n].size
        /\ t.spans[n].size <= t.spans[n].allocated
    BY <1>5, EmittedSpans DEF t
  <2>2. \A i \in 1 .. n : /\ 0 < t.spans[i].size
                          /\ t.spans[i].size <= t.spans[i].allocated
                          /\ t.spans[i].sequence = s.spans[i].sequence
                          /\ t.spans[i].put = s.spans[i].put
                          /\ t.spans[i].org = s.spans[i].org
    <3> SUFFICES ASSUME NEW i \in 1 .. n
                 PROVE  /\ 0 < t.spans[i].size
                        /\ t.spans[i].size <= t.spans[i].allocated
                        /\ t.spans[i].sequence = s.spans[i].sequence
                        /\ t.spans[i].put = s.spans[i].put
                        /\ t.spans[i].org = s.spans[i].org
      OBVIOUS
    <3>1. CASE i = n
      BY <2>1, <3>1
    <3>2. CASE i # n
      <4>1. i \in 1 .. n - 1
        BY <1>0, <3>2
      <4> QED BY <4>1, <2>1, <1>4
    <3> QED BY <3>1, <3>2
  <2>3. \A i \in 1 .. n - 1 : \/ t.spans[i + 1].put # NextPut(t.spans[i])
                             \/ t.spans[i + 1].org # NextPc(t.spans[i])
    <3> SUFFICES ASSUME NEW i \in 1 .. n - 1
                 PROVE  \/ t.spans[i + 1].put # NextPut(t.spans[i])
                        \/ t.spans[i + 1].org # NextPc(t.spans[i])
      OBVIOUS
    <3>1. t.spans[i] = s.spans[i] /\ i + 1 \in 1 .. n
      BY <1>0, <2>1
    <3>2. \/ s.spans[i + 1].put # NextPut(s.spans[i])
          \/ s.spans[i + 1].org # NextPc(s.spans[i])
      BY DEF SectionInv
    <3> QED BY <2>2, <3>1, <3>2
  <2>4. \A i, j \in 1 .. n : i < j => t.spans[i].sequence < t.spans[j].sequence
    BY <1>0, <2>2 DEF SectionInv
  <2>5. \A i \in 1 .. n : t.spans[i].sequence < seq
    BY <1>4, <2>2
  <2> QED BY <1>2, <1>3, <1>5, <2>1, <2>2, <2>3, <2>4, <2>5 DEF SectionInv, t
<1>6. CASE OpensSpan(s)
  <2>1. /\ Len(t.spans) = n + 1
        /\ \A i \in 1 .. n : t.spans[i] = s.spans[i]
        /\ t.spans[n + 1].sequence = seq
        /\ t.spans[n + 1].put = s.put
        /\ t.spans[n + 1].org = s.pc
        /\ 0 < t.spans[n + 1].size
        /\ t.spans[n + 1].size <= t.spans[n + 1].allocated
        /\ n > 0 => \/ s.put # NextPut(s.spans[n])
                    \/ s.pc # NextPc(s.spans[n])
    BY <1>6, EmittedSpans DEF t
  <2>2. \A i \in 1 .. n + 1 : i \in 1 .. n \/ i = n + 1
    BY <1>0
  <2>3. \A i \in 1 .. n + 1 : /\ 0 < t.spans[i].size
                              /\ t.spans[i].size <= t.spans[i].allocated
                              /\ t.spans[i].sequence < seq + 1
    <3> SUFFICES ASSUME NEW i \in 1 .. n + 1
                 PROVE  /\ 0 < t.spans[i].size
                        /\ t.spans[i].size <= t.spans[i].allocated
                        /\ t.spans[i].sequence < seq + 1
      OBVIOUS
    <3>1. CASE i \in 1 .. n
      <4>1. t.spans[i] = s.spans[i]
        BY <2>1, <3>1
      <4>2. s.spans[i].sequence < seq /\ s.spans[i].sequence \in Nat
        BY <1>4, <3>1
      <4>3. s.spans[i].sequence < seq + 1
        BY <4>2
      <4> QED BY <1>4, <3>1, <4>1, <4>3
    <3>2. CASE i = n + 1
      BY <2>1, <3>2
    <3> QED BY <2>2, <3>1, <3>2
  <2>4. \A i \in 1 .. n : \/ t.spans[i + 1].put # NextPut(t.spans[i])
                         \/ t.spans[i + 1].org # NextPc(t.spans[i])
    <3> SUFFICES ASSUME NEW i \in 1 .. n
                 PROVE  \/ t.spans[i + 1].put # NextPut(t.spans[i])
                        \/ t.spans[i + 1].org # NextPc(t.spans[i])
      OBVIOUS
    <3>1. CASE i = n
      BY <1>0, <2>1, <3>1
    <3>2. CASE i # n
      <4>1. i \in 1 .. n - 1 /\ i + 1 \in 1 .. n
        BY <1>0, <3>2
      <4>2. \/ s.spans[i + 1].put # NextPut(s.spans[i])
            \/ s.spans[i + 1].org # NextPc(s.spans[i])
        BY <4>1 DEF SectionInv
      <4> QED BY <2>1, <4>1, <4>2
    <3> QED BY <3>1, <3>2
  <2>5. \A i, j \in 1 .. n + 1 :
            i < j => t.spans[i].sequence < t.spans[j].sequence
    <3> SUFFICES ASSUME NEW i \in 1 .. n + 1, NEW j \in 1 .. n + 1, i < j
                 PROVE  t.spans[i].sequence < t.spans[j].sequence
      OBVIOUS
    <3>1. i \in 1 .. n
      BY <1>0
    <3>2. CASE j = n + 1
      BY <1>4, <2>1, <3>1, <3>2
    <3>3. CASE j \in 1 .. n
      BY <1>0, <2>1, <3>1, <3>3 DEF SectionInv
    <3> QED BY <2>2, <3>2, <3>3
  <2>6. 1 .. Len(t.spans) - 1 = 1 .. n
    BY <1>0, <2>1
  <2> QED BY <1>2, <1>3, <1>6, <2>1, <2>3, <2>4, <2>5, <2>6 DEF SectionInv, t
<1> QED BY <1>5, <1>6

-----------------------------------------------------------------------------
(* The inductive invariant: every section satisfies SectionInv, no two of    *)
(* them share a span number, none is ahead of the pass, and each holds spans *)
(* of its own pass only.                                                     *)
NumbersApart(secs) ==
    \A m, n \in SectionNames : m # n =>
        \A i \in DOMAIN secs[n].spans : \A j \in DOMAIN secs[m].spans :
            secs[n].spans[i].sequence # secs[m].spans[j].sequence

(* The pass that "begun" says every span was begun in is its section's.      *)
OfOnePass(secs, begun) ==
    \A n \in SectionNames : \A i \in DOMAIN secs[n].spans :
        begun[secs[n].spans[i].sequence + 1] = secs[n].pass

IInv ==
    /\ TypeOK
    /\ \A n \in SectionNames : SectionInv(sections[n], sequence)
    /\ NumbersApart(sections)
    /\ PassesInOrder
    /\ OfOnePass(sections, begunIn)

(* The invariants TLC checks are what IInv says, section by section.         *)
LEMMA IInvImplies ==
    IInv => TypeOK /\ BufferSuffices /\ SpansMaximal /\ SpansOrdered /\ PassesInOrder
            /\ SpansOfOnePass
BY DEF IInv, SectionInv, NumbersApart, BufferSuffices, SpansMaximal, SpansOrdered,
       OfOnePass, SpansOfOnePass

(* Selecting a section, in its own pass or a new one, keeps its invariant.   *)
LEMMA SelectedInv ==
    ASSUME NEW s, NEW seq \in Nat, SectionInv(s, seq), NEW p \in Nat,
           NEW pos \in [pc : Int, put : Nat]
    PROVE  /\ SectionInv(Selected(s, p, pos), seq)
           /\ Selected(s, p, pos).pass = p
           /\ \/ Selected(s, p, pos).spans = s.spans /\ s.pass = p
              \/ Selected(s, p, pos).spans = <<>>
<1>1. s \in Section
  BY DEF SectionInv
<1>2. CASE s.pass = p
  BY <1>2 DEF Selected
<1>3. CASE s.pass # p
  <2> DEFINE t == Selected(s, p, pos)
  <2>0. /\ t = [s EXCEPT !.spans = <<>>, !.pc = pos.pc, !.put = pos.put,
                         !.pass = p, !.dp = SetDP]
        /\ SetDP \in Int /\ pos.pc \in Int /\ pos.put \in Nat
        /\ <<>> \in Seq(Span)
    BY <1>3, SectionConstants DEF Selected
  <2>1. t \in Section /\ t.spans = <<>> /\ t.pass = p
    <3> HIDE DEF t
    <3> QED BY <2>0, <1>1 DEF Section
  <2> HIDE DEF t
  <2>2. DOMAIN t.spans = {} /\ Len(t.spans) = 0
    BY <2>1
  <2>3. 1 .. Len(t.spans) - 1 = {}
    BY <2>2
  <2>4. SectionInv(t, seq)
    BY <2>1, <2>2, <2>3 DEF SectionInv
  <2> QED BY <2>1, <2>4 DEF t
<1> QED BY <1>2, <1>3

(* Changing a section's position or remembered position does not touch its   *)
(* spans, which are all SectionInv and NumbersApart look at.                 *)
LEMMA SameSpansInv ==
    ASSUME NEW s, NEW t \in Section, NEW seq \in Nat, SectionInv(s, seq),
           t.spans = s.spans
    PROVE  SectionInv(t, seq)
BY DEF SectionInv

(* A report leaves error_level an error type.                                *)
LEMMA RaiseType == \A l, e \in ErrorTypes : Raise(l, e) \in ErrorTypes
BY DEF Raise, ErrorTypes, None, Inefficient, Illegal, Inconsistent, OutOfRange,
       Syntax, Data, Fatal

(* The spans of t carry span numbers of s or the number "seq".               *)
NumbersFrom(t, s, seq) ==
    \A i \in DOMAIN t.spans :
        \/ \E j \in DOMAIN s.spans : t.spans[i].sequence = s.spans[j].sequence
        \/ t.spans[i].sequence = seq

(* One section replaced by one that satisfies SectionInv, whose span numbers *)
(* were the old section's or are new, leaves IInv's section part intact.     *)
LEMMA ReplacedSection ==
    ASSUME IInv, NEW n \in SectionNames, NEW t, NEW seq \in {sequence, sequence + 1},
           SectionInv(t, seq), NumbersFrom(t, sections[n], sequence)
    PROVE  LET secs == [sections EXCEPT ![n] = t]
           IN  /\ secs \in [SectionNames -> Section]
               /\ \A m \in SectionNames : SectionInv(secs[m], seq)
               /\ NumbersApart(secs)
<1> DEFINE secs == [sections EXCEPT ![n] = t]
<1>0. sections \in [SectionNames -> Section] /\ sequence \in Nat /\ t \in Section
  BY DEF IInv, TypeOK, SectionInv
<1>1. secs \in [SectionNames -> Section] /\ secs[n] = t
      /\ \A m \in SectionNames : m # n => secs[m] = sections[m]
  BY <1>0
<1> HIDE DEF secs
<1>2. \A m \in SectionNames : \A i \in DOMAIN sections[m].spans :
          /\ sections[m].spans[i].sequence < sequence
          /\ sections[m].spans[i].sequence \in Nat
  <2> SUFFICES ASSUME NEW m \in SectionNames, NEW i \in DOMAIN sections[m].spans
               PROVE  /\ sections[m].spans[i].sequence < sequence
                      /\ sections[m].spans[i].sequence \in Nat
    OBVIOUS
  <2>1. SectionInv(sections[m], sequence)
    BY DEF IInv
  <2>2. sections[m].spans \in Seq(Span)
    BY <1>0 DEF Section
  <2>3. sections[m].spans[i] \in Span
    BY <2>2
  <2> QED BY <2>1, <2>3 DEF SectionInv, Span
<1>3. \A m \in SectionNames : SectionInv(secs[m], seq)
  <2> SUFFICES ASSUME NEW m \in SectionNames PROVE SectionInv(secs[m], seq)
    OBVIOUS
  <2>1. CASE m = n
    BY <1>1, <2>1
  <2>2. CASE m # n
    <3>1. SectionInv(sections[m], sequence) /\ secs[m] = sections[m]
      BY <1>1, <2>2 DEF IInv
    <3>2. \A i \in DOMAIN sections[m].spans : sections[m].spans[i].sequence < seq
      BY <1>0, <1>2
    <3> QED BY <3>1, <3>2 DEF SectionInv
  <2> QED BY <2>1, <2>2
<1>4. NumbersApart(secs)
  <2> SUFFICES ASSUME NEW a \in SectionNames, NEW b \in SectionNames, a # b,
                      NEW i \in DOMAIN secs[b].spans, NEW j \in DOMAIN secs[a].spans
               PROVE  secs[b].spans[i].sequence # secs[a].spans[j].sequence
    BY DEF NumbersApart
  <2>1. CASE b = n
    <3>1. secs[a] = sections[a] /\ secs[b] = t
      BY <1>1, <2>1
    <3> QED BY <1>0, <1>2, <2>1, <3>1 DEF IInv, NumbersApart, NumbersFrom
  <2>2. CASE a = n
    <3>1. secs[b] = sections[b] /\ secs[a] = t
      BY <1>1, <2>2
    <3> QED BY <1>0, <1>2, <2>2, <3>1 DEF IInv, NumbersApart, NumbersFrom
  <2>3. CASE a # n /\ b # n
    BY <1>1, <2>3 DEF IInv, NumbersApart
  <2> QED BY <2>1, <2>2, <2>3
<1> QED BY <1>1, <1>3, <1>4 DEF secs

-----------------------------------------------------------------------------
(* The invariant holds of new sections.                                      *)
LEMMA InitIInv == Init => IInv
<1> SUFFICES ASSUME Init PROVE IInv
  OBVIOUS
<1>1. <<>> \in Seq(Span) /\ SetDP \in Int /\ First \in SectionNames
  BY SectionConstants, SectionsConstants
<1>2. NewSection \in Section /\ NewSection.spans = <<>> /\ NewSection.pass = NoPass
  BY <1>1 DEF NewSection, Section, NoPass
<1>3. TypeOK
  <2>1. sections \in [SectionNames -> Section]
    BY <1>2 DEF Init
  <2>2. None \in ErrorTypes
    BY DEF ErrorTypes, None, Fatal
  <2>3. begunIn \in Seq(Nat) /\ Len(begunIn) = sequence
    <3>1. <<>> \in Seq(Nat) /\ Len(<<>>) = 0
      OBVIOUS
    <3> QED BY <3>1 DEF Init
  <2>4. /\ cur \in SectionNames /\ sequence \in Nat /\ pass \in Nat \cup {NoPass}
        /\ open \in BOOLEAN /\ level \in ErrorTypes /\ ops \in Nat
    BY <1>1, <2>2 DEF Init
  <2> QED BY <2>1, <2>3, <2>4 DEF TypeOK
<1>4. SectionInv(NewSection, 0)
  <2>1. DOMAIN NewSection.spans = {} /\ 1 .. Len(NewSection.spans) - 1 = {}
    BY <1>2
  <2> QED BY <1>2, <2>1 DEF SectionInv
<1>5. NumbersApart(sections) /\ PassesInOrder /\ OfOnePass(sections, begunIn)
  BY <1>2 DEF Init, NumbersApart, PassesInOrder, NoPass, OfOnePass
<1> QED BY <1>3, <1>4, <1>5 DEF IInv, Init

(* A selection made in pass "p", no earlier than the running one.            *)
LEMMA SelectStep ==
    ASSUME IInv, NEW n \in SectionNames, NEW p \in Nat, pass <= p, Select(n, p)
    PROVE  /\ sections' \in [SectionNames -> Section]
           /\ \A m \in SectionNames : SectionInv(sections'[m], sequence)
           /\ NumbersApart(sections')
           /\ cur' = n
           /\ sections'[n].pass = p
           /\ \A m \in SectionNames : sections'[m].pass <= p
           /\ OfOnePass(sections', begunIn)
<1> DEFINE pos == StartAfter(sections[cur], p)
           t == Selected(sections[n], p, pos)
<1>0. /\ sections \in [SectionNames -> Section] /\ cur \in SectionNames
      /\ sequence \in Nat /\ pass \in Nat \cup {NoPass}
      /\ SectionInv(sections[n], sequence)
  BY DEF IInv, TypeOK
<1>1. pos \in [pc : Int, put : Nat]
  <2>1. sections[cur] \in Section
    BY <1>0
  <2> QED BY <2>1 DEF StartAfter, Section
<1> HIDE DEF pos
<1>2. /\ SectionInv(t, sequence)
      /\ t.pass = p
      /\ \/ t.spans = sections[n].spans /\ sections[n].pass = p
         \/ t.spans = <<>>
  BY <1>0, <1>1, SelectedInv
<1>3. sections' = [sections EXCEPT ![n] = t] /\ cur' = n
  BY DEF Select, pos
<1> HIDE DEF t
<1>4. NumbersFrom(t, sections[n], sequence)
  BY <1>2 DEF NumbersFrom
<1>5. /\ sections' \in [SectionNames -> Section]
      /\ \A m \in SectionNames : SectionInv(sections'[m], sequence)
      /\ NumbersApart(sections')
  BY <1>0, <1>2, <1>3, <1>4, ReplacedSection
<1>6. sections'[n] = t /\ \A m \in SectionNames : m # n => sections'[m] = sections[m]
  BY <1>0, <1>3
<1>7. \A m \in SectionNames : sections'[m].pass <= p
  <2> SUFFICES ASSUME NEW m \in SectionNames PROVE sections'[m].pass <= p
    OBVIOUS
  <2>1. CASE m = n
    BY <1>2, <1>6, <2>1
  <2>2. CASE m # n
    <3>1. sections[m] \in Section /\ sections[m].pass <= pass
      BY <1>0 DEF IInv, PassesInOrder
    <3>2. sections[m].pass \in Int
      BY <3>1 DEF Section, NoPass
    <3> QED BY <1>0, <1>6, <2>2, <3>1, <3>2 DEF NoPass
  <2> QED BY <2>1, <2>2
<1>8. OfOnePass(sections', begunIn)
  BY <1>2, <1>6 DEF IInv, OfOnePass
<1> QED BY <1>2, <1>3, <1>5, <1>6, <1>7, <1>8

(* A span that is begun is of the running pass, as its section is; the       *)
(* others are in the record of them already.                                 *)
LEMMA BegunStep ==
    ASSUME IInv, pass \in Nat, sections[cur].pass = pass, NEW t,
           NEW seq \in {sequence, sequence + 1}, NEW begun,
           begun = IF seq = sequence THEN begunIn ELSE Append(begunIn, pass),
           SectionInv(t, seq), t.pass = pass, NumbersFrom(t, sections[cur], sequence)
    PROVE  /\ begun \in Seq(Nat) /\ Len(begun) = seq
           /\ OfOnePass([sections EXCEPT ![cur] = t], begun)
<1> DEFINE secs == [sections EXCEPT ![cur] = t]
<1>0. /\ sections \in [SectionNames -> Section] /\ cur \in SectionNames
      /\ sequence \in Nat /\ begunIn \in Seq(Nat) /\ Len(begunIn) = sequence
  BY DEF IInv, TypeOK
<1>1. begun \in Seq(Nat) /\ Len(begun) = seq
  BY <1>0
<1>2. \A q \in 0 .. sequence - 1 : begun[q + 1] = begunIn[q + 1]
  BY <1>0
<1>3. seq = sequence + 1 => begun[sequence + 1] = pass
  BY <1>0
<1>4. \A m \in SectionNames : \A i \in DOMAIN sections[m].spans :
          sections[m].spans[i].sequence \in 0 .. sequence - 1
  <2> SUFFICES ASSUME NEW m \in SectionNames, NEW i \in DOMAIN sections[m].spans
               PROVE  sections[m].spans[i].sequence \in 0 .. sequence - 1
    OBVIOUS
  <2>1. SectionInv(sections[m], sequence) /\ sections[m].spans \in Seq(Span)
    BY <1>0 DEF IInv, Section
  <2>2. sections[m].spans[i] \in Span
    BY <2>1
  <2> QED BY <1>0, <2>1, <2>2 DEF SectionInv, Span
<1>5. secs[cur] = t /\ \A m \in SectionNames : m # cur => secs[m] = sections[m]
  BY <1>0
<1> HIDE DEF secs
<1>6. ASSUME NEW i \in DOMAIN t.spans
      PROVE  begun[t.spans[i].sequence + 1] = pass
  <2>1. CASE t.spans[i].sequence = sequence
    <3>1. sequence < seq
      BY <2>1 DEF SectionInv
    <3> QED BY <1>0, <1>3, <2>1, <3>1
  <2>2. CASE \E j \in DOMAIN sections[cur].spans :
                 t.spans[i].sequence = sections[cur].spans[j].sequence
    BY <1>0, <1>2, <1>4, <2>2 DEF IInv, OfOnePass
  <2> QED BY <2>1, <2>2 DEF NumbersFrom
<1>7. ASSUME NEW m \in SectionNames, NEW i \in DOMAIN secs[m].spans
      PROVE  begun[secs[m].spans[i].sequence + 1] = secs[m].pass
  <2>1. CASE m = cur
    BY <1>5, <1>6, <2>1
  <2>2. CASE m # cur
    BY <1>2, <1>4, <1>5, <2>2 DEF IInv, OfOnePass
  <2> QED BY <2>1, <2>2
<1>8. OfOnePass(secs, begun)
  BY <1>7 DEF OfOnePass
<1> QED BY <1>1, <1>8 DEF secs

(* A step within a pass that gives the current section the new value t.      *)
LEMMA OperationStep ==
    ASSUME IInv, Operation, NEW t,
           sections' = [sections EXCEPT ![cur] = t], cur' = cur,
           sequence' \in {sequence, sequence + 1},
           begunIn' = IF sequence' = sequence THEN begunIn ELSE Append(begunIn, pass),
           level' \in ErrorTypes,
           SectionInv(t, sequence'), t.pass = sections[cur].pass,
           NumbersFrom(t, sections[cur], sequence)
    PROVE  IInv'
<1>0. /\ sections \in [SectionNames -> Section] /\ cur \in SectionNames
      /\ sequence \in Nat /\ pass \in Nat \cup {NoPass} /\ ops \in Nat
      /\ open /\ ops > 0 /\ ops' = ops - 1 /\ pass' = pass /\ open' = open
      /\ pass # NoPass /\ sections[cur].pass = pass
  BY DEF IInv, TypeOK, Operation, PassesInOrder
<1>1. /\ sections' \in [SectionNames -> Section]
      /\ \A m \in SectionNames : SectionInv(sections'[m], sequence')
      /\ NumbersApart(sections')
  <2>1. ASSUME NEW n \in SectionNames, NEW q \in {sequence, sequence + 1},
               SectionInv(t, q), NumbersFrom(t, sections[n], sequence)
        PROVE  LET secs == [sections EXCEPT ![n] = t]
               IN  /\ secs \in [SectionNames -> Section]
                   /\ \A m \in SectionNames : SectionInv(secs[m], q)
                   /\ NumbersApart(secs)
    BY <2>1, ReplacedSection
  <2>2. \A q \in {sequence, sequence + 1} : SectionInv(t, q) =>
            /\ sections' \in [SectionNames -> Section]
            /\ \A m \in SectionNames : SectionInv(sections'[m], q)
            /\ NumbersApart(sections')
    BY <1>0, <2>1
  <2> QED BY <2>2
<1>2. begunIn' \in Seq(Nat) /\ Len(begunIn') = sequence' /\ OfOnePass(sections', begunIn')
  <2>1. \A q \in {sequence, sequence + 1} : \A b :
            /\ b = IF q = sequence THEN begunIn ELSE Append(begunIn, pass)
            /\ SectionInv(t, q)
            => /\ b \in Seq(Nat) /\ Len(b) = q
               /\ OfOnePass([sections EXCEPT ![cur] = t], b)
    BY <1>0, BegunStep
  <2> QED BY <2>1
<1>3. sections'[cur] = t /\ \A m \in SectionNames : m # cur => sections'[m] = sections[m]
  BY <1>0
<1>4. TypeOK'
  BY <1>0, <1>1, <1>2 DEF TypeOK, IInv
<1>5. \A m \in SectionNames : sections'[m].pass = sections[m].pass
  BY <1>3
<1>6. PassesInOrder'
  BY <1>0, <1>5 DEF IInv, PassesInOrder
<1> QED BY <1>1, <1>2, <1>4, <1>6 DEF IInv, NumbersApart, OfOnePass

(* The sections after FinishPass: positions are remembered, spans kept.      *)
LEMMA VerifiedSection ==
    ASSUME NEW s \in Section
    PROVE  /\ Verified(s) \in Section
           /\ Verified(s).spans = s.spans
           /\ Verified(s).pass = s.pass
BY DEF Verified, Section

(* A section moved to another position keeps its type, spans and pass.       *)
LEMMA MovedSection ==
    \A s \in Section, pc \in Int, put \in Nat :
        LET t == [s EXCEPT !.pc = pc, !.put = put]
        IN  t \in Section /\ t.spans = s.spans /\ t.pass = s.pass
BY DEF Section

(* A put address that moves leaves the spans alone.                          *)
LEMMA PutSection ==
    \A s \in Section, put \in Nat :
        LET t == [s EXCEPT !.put = put]
        IN  t \in Section /\ t.spans = s.spans /\ t.pass = s.pass
BY DEF Section

(* ... and so does one that reserves memory, or refuses to.                  *)
LEMMA ReservedSection ==
    ASSUME NEW s \in Section, NEW c \in Int
    PROVE  /\ Reserved(s, c) \in Section
           /\ Reserved(s, c).spans = s.spans
           /\ Reserved(s, c).pass = s.pass
<1>1. CASE c < 0
  BY <1>1 DEF Reserved
<1>2. CASE ~(c < 0)
  <2> DEFINE pc  == s.pc + c
             put == s.put + c
  <2>1. pc \in Int /\ put \in Nat
    BY <1>2 DEF Section
  <2>2. Reserved(s, c) = [s EXCEPT !.pc = pc, !.put = put]
    BY <1>2 DEF Reserved, Skipped, Section
  <2> HIDE DEF pc, put
  <2>3. LET t == [s EXCEPT !.pc = pc, !.put = put]
        IN  t \in Section /\ t.spans = s.spans /\ t.pass = s.pass
    BY <2>1, MovedSection
  <2> QED BY <2>2, <2>3
<1> QED BY <1>1, <1>2

(* Every operation preserves the invariant.                                  *)
LEMMA NextIInv == IInv /\ [Next]_vars => IInv'
<1> SUFFICES ASSUME IInv, [Next]_vars PROVE IInv'
  OBVIOUS
<1>0. /\ sections \in [SectionNames -> Section] /\ cur \in SectionNames
      /\ sequence \in Nat /\ pass \in Nat \cup {NoPass} /\ ops \in Nat
      /\ level \in ErrorTypes /\ open \in BOOLEAN
      /\ begunIn \in Seq(Nat) /\ Len(begunIn) = sequence
      /\ sections[cur] \in Section
      /\ SectionInv(sections[cur], sequence)
      /\ First \in SectionNames /\ MaxOps \in Nat
      /\ None \in ErrorTypes /\ OutOfRange \in ErrorTypes /\ Inconsistent \in ErrorTypes
  BY SectionsConstants
     DEF IInv, TypeOK, ErrorTypes, None, OutOfRange, Inconsistent, Fatal
<1>1. CASE BeginPass
  <2>1. pass + 1 \in Nat /\ pass <= pass + 1
    BY <1>0 DEF NoPass
  <2>2. /\ sections' \in [SectionNames -> Section]
        /\ \A m \in SectionNames : SectionInv(sections'[m], sequence)
        /\ NumbersApart(sections')
        /\ cur' = First
        /\ sections'[First].pass = pass + 1
        /\ \A m \in SectionNames : sections'[m].pass <= pass + 1
        /\ OfOnePass(sections', begunIn)
    BY <1>0, <1>1, <2>1, SelectStep DEF BeginPass
  <2>3. /\ pass' = pass + 1 /\ sequence' = sequence /\ open' = TRUE
        /\ level' = None /\ ops' = MaxOps /\ begunIn' = begunIn
    BY <1>1 DEF BeginPass
  <2>4. TypeOK'
    BY <1>0, <2>1, <2>2, <2>3 DEF TypeOK
  <2>5. PassesInOrder'
    BY <2>1, <2>2, <2>3 DEF PassesInOrder, NoPass
  <2> QED BY <2>2, <2>3, <2>4, <2>5 DEF IInv, NumbersApart, OfOnePass
<1>2. ASSUME NEW n \in SectionNames, SetSection(n) PROVE IInv'
  <2>1. /\ open /\ pass # NoPass /\ pass \in Nat /\ pass <= pass
        /\ pass' = pass /\ open' = open /\ ops' \in Nat
        /\ sequence' = sequence /\ level' = level /\ begunIn' = begunIn
    BY <1>0, <1>2 DEF SetSection, Operation, IInv, PassesInOrder
  <2>2. /\ sections' \in [SectionNames -> Section]
        /\ \A m \in SectionNames : SectionInv(sections'[m], sequence)
        /\ NumbersApart(sections')
        /\ cur' = n
        /\ sections'[n].pass = pass
        /\ \A m \in SectionNames : sections'[m].pass <= pass
        /\ OfOnePass(sections', begunIn)
    BY <1>2, <2>1, SelectStep DEF SetSection
  <2>3. TypeOK'
    BY <1>0, <2>1, <2>2 DEF TypeOK
  <2>4. PassesInOrder'
    BY <2>1, <2>2 DEF PassesInOrder
  <2> QED BY <2>1, <2>2, <2>3, <2>4 DEF IInv, NumbersApart, OfOnePass
<1>3. ASSUME NEW k \in 1 .. MaxEmit, Emit(k) PROVE IInv'
  <2> DEFINE s == sections[cur]
             t == Emitted(s, k, sequence)
  <2>1. /\ Operation
        /\ sections' = [sections EXCEPT ![cur] = t] /\ cur' = cur
        /\ sequence' = IF OpensSpan(s) THEN sequence + 1 ELSE sequence
        /\ begunIn' = IF OpensSpan(s) THEN Append(begunIn, pass) ELSE begunIn
        /\ level' = Raise(level, EmitError(s, k))
    BY <1>3 DEF Emit
  <2>2. level' \in ErrorTypes
    BY <1>0, <2>1, RaiseType DEF EmitError
  <2>3. SectionInv(t, sequence')
    BY <1>0, <2>1, EmittedInv
  <2>4. t.pass = s.pass
    BY <1>0, EmittedSpans, EmittedFields
  <2>5. NumbersFrom(t, s, sequence)
    <3>1. /\ s.spans \in Seq(Span) /\ Len(s.spans) \in Nat
          /\ DOMAIN s.spans = 1 .. Len(s.spans)
      BY <1>0 DEF Section
    <3>2. t.spans \in Seq(Span) /\ DOMAIN t.spans = 1 .. Len(t.spans)
      BY <1>0, EmittedSpans
    <3>3. CASE ~OpensSpan(s)
      <4>1. /\ Len(t.spans) = Len(s.spans) /\ Len(s.spans) > 0
            /\ \A i \in 1 .. Len(s.spans) - 1 : t.spans[i] = s.spans[i]
            /\ t.spans[Len(s.spans)].sequence = s.spans[Len(s.spans)].sequence
        BY <1>0, <3>3, EmittedSpans
      <4> HIDE DEF t, s
      <4>2. \A i \in 1 .. Len(s.spans) :
                i \in 1 .. Len(s.spans) - 1 \/ i = Len(s.spans)
        BY <3>1
      <4> QED BY <3>1, <3>2, <4>1, <4>2 DEF NumbersFrom
    <3>4. CASE OpensSpan(s)
      <4>1. /\ Len(t.spans) = Len(s.spans) + 1
            /\ \A i \in 1 .. Len(s.spans) : t.spans[i] = s.spans[i]
            /\ t.spans[Len(s.spans) + 1].sequence = sequence
        BY <1>0, <3>4, EmittedSpans
      <4> HIDE DEF t, s
      <4>2. \A i \in 1 .. Len(s.spans) + 1 :
                i \in 1 .. Len(s.spans) \/ i = Len(s.spans) + 1
        BY <3>1
      <4> QED BY <3>1, <3>2, <4>1, <4>2 DEF NumbersFrom
    <3> QED BY <3>3, <3>4
  <2> HIDE DEF t
  <2>6. /\ sequence' \in {sequence, sequence + 1}
        /\ begunIn' = IF sequence' = sequence THEN begunIn ELSE Append(begunIn, pass)
    BY <1>0, <2>1
  <2> QED BY <2>1, <2>2, <2>3, <2>4, <2>5, <2>6, OperationStep
<1>4. ASSUME NEW t \in Section, Operation, cur' = cur, sequence' = sequence,
             begunIn' = begunIn, level' \in ErrorTypes,
             sections' = [sections EXCEPT ![cur] = t],
             t.spans = sections[cur].spans, t.pass = sections[cur].pass
      PROVE  IInv'
  <2>1. SectionInv(t, sequence') /\ sequence' \in {sequence, sequence + 1}
    BY <1>0, <1>4, SameSpansInv
  <2>2. NumbersFrom(t, sections[cur], sequence)
    BY <1>4 DEF NumbersFrom
  <2> QED BY <1>4, <2>1, <2>2, OperationStep
<1>5. ASSUME NEW c \in Counts, Rmb(c) PROVE IInv'
  <2> DEFINE t == Reserved(sections[cur], c)
  <2>1. c \in Int
    BY SectionsConstants
  <2>2. t \in Section /\ t.spans = sections[cur].spans /\ t.pass = sections[cur].pass
    BY <1>0, <2>1, ReservedSection
  <2>3. sections' = [sections EXCEPT ![cur] = t] /\ level' = Raise(level, ReserveError(c))
    BY <1>0, <1>5 DEF Rmb
  <2>4. level' \in ErrorTypes
    BY <1>0, <2>3, RaiseType DEF ReserveError
  <2> HIDE DEF t
  <2> QED BY <1>0, <1>4, <1>5, <2>2, <2>3, <2>4 DEF Rmb
<1>6. ASSUME NEW a \in Addresses, Org(a) PROVE IInv'
  <2> DEFINE t == Orged(sections[cur], a)
  <2>1. a \in Int
    BY SectionsConstants
  <2>2. t \in Section /\ t.spans = sections[cur].spans /\ t.pass = sections[cur].pass
    <3> DEFINE pc  == a
               put == IF a >= 0 THEN a ELSE sections[cur].put
    <3>1. pc \in Int /\ put \in Nat
      BY <1>0, <2>1 DEF Section
    <3>2. t = [sections[cur] EXCEPT !.pc = pc, !.put = put]
      BY <1>0 DEF Orged, Section
    <3>3. sections[cur] \in Section
      BY <1>0
    <3> HIDE DEF pc, put
    <3>4. LET u == [sections[cur] EXCEPT !.pc = pc, !.put = put]
          IN  u \in Section /\ u.spans = sections[cur].spans
              /\ u.pass = sections[cur].pass
      BY <3>1, <3>3, MovedSection
    <3> HIDE DEF t
    <3> QED BY <3>2, <3>4
  <2>3. sections' = [sections EXCEPT ![cur] = t]
    BY <1>0, <1>6 DEF Org
  <2> HIDE DEF t
  <2> QED BY <1>0, <1>4, <1>6, <2>2, <2>3 DEF Org
<1>7. ASSUME NEW a \in Addresses, Put(a) PROVE IInv'
  <2> DEFINE t == PutAt(sections[cur], a)
  <2>1. a \in Int
    BY SectionsConstants
  <2>2. t \in Section /\ t.spans = sections[cur].spans /\ t.pass = sections[cur].pass
    <3>1. CASE a < 0
      BY <1>0, <3>1 DEF PutAt
    <3>2. CASE ~(a < 0)
      <4>1. a \in Nat
        BY <2>1, <3>2
      <4>2. t = [sections[cur] EXCEPT !.put = a]
        BY <3>2 DEF PutAt
      <4> HIDE DEF t
      <4> QED BY <1>0, <4>1, <4>2, PutSection
    <3> QED BY <3>1, <3>2
  <2>3. sections' = [sections EXCEPT ![cur] = t]
    BY <1>0, <1>7 DEF Put
  <2>4. level' \in ErrorTypes
    BY <1>0, <1>7, RaiseType DEF Put, PutError
  <2> HIDE DEF t
  <2> QED BY <1>0, <1>4, <1>7, <2>2, <2>3, <2>4 DEF Put
<1>8. CASE FinishPass
  <2>1. \A m \in SectionNames : /\ sections'[m] \in Section
                                /\ sections'[m].spans = sections[m].spans
                                /\ sections'[m].pass = sections[m].pass
    BY <1>0, <1>8, VerifiedSection DEF FinishPass, FinishedSections
  <2>2. sections' \in [SectionNames -> Section]
    BY <1>8, <2>1 DEF FinishPass, FinishedSections
  <2>3. /\ cur' = cur /\ sequence' = sequence /\ pass' = pass /\ ops' = ops
        /\ begunIn' = begunIn
        /\ open' = FALSE /\ level' = Raise(level, FinishError(sections))
    BY <1>8 DEF FinishPass
  <2>4. level' \in ErrorTypes
    BY <1>0, <2>3, RaiseType DEF FinishError
  <2>5. TypeOK'
    BY <1>0, <2>2, <2>3, <2>4 DEF TypeOK
  <2>6. \A m \in SectionNames : SectionInv(sections'[m], sequence)
    BY <1>0, <2>1, SameSpansInv DEF IInv
  <2>7. NumbersApart(sections')
    BY <2>1 DEF IInv, NumbersApart
  <2>8. PassesInOrder'
    BY <2>1, <2>3 DEF IInv, PassesInOrder
  <2>9. OfOnePass(sections', begunIn)
    BY <2>1 DEF IInv, OfOnePass
  <2> QED BY <2>3, <2>5, <2>6, <2>7, <2>8, <2>9 DEF IInv, NumbersApart, OfOnePass
<1>9. CASE UNCHANGED vars
  BY <1>9 DEF vars, IInv, TypeOK, NumbersApart, PassesInOrder, OfOnePass
<1> QED BY <1>1, <1>2, <1>3, <1>5, <1>6, <1>7, <1>8, <1>9 DEF Next

(* IInv holds throughout: it is inductive.                                   *)
THEOREM Invariance == Spec => []IInv
BY InitIInv, NextIInv, PTL DEF Spec

(* Every variable of the section store keeps its type, whatever operations   *)
(* assembly performs: no put address ever goes negative.                     *)
THEOREM TypeCorrect == Spec => []TypeOK
BY Invariance, IInvImplies, PTL

(* section_emit() never writes past the buffer it has grown.                 *)
THEOREM BuffersSufficient == Spec => []BufferSuffices
BY Invariance, IInvImplies, PTL

(* The spans of a section are maximal runs of consecutive bytes, their       *)
(* numbers unique over all sections and in the order they were begun, so     *)
(* that span_cmp() orders any two, and all were begun in the pass the        *)
(* section was last selected in, which is none to come.                      *)
THEOREM SpansAreWellFormed == Spec => []SpansWellFormed
<1>1. IInv => SpansWellFormed
  BY IInvImplies DEF SpansWellFormed
<1> QED BY <1>1, Invariance, PTL

-----------------------------------------------------------------------------
(* Refinement: the bytes in a section's spans are the log of SectionLog.     *)
Places == [pc : Int, put : Nat]

(* k bytes from a place.                                                     *)
RunOf(pc, put, k) == [j \in 1 .. k |-> [pc |-> pc + j - 1, put |-> put + j - 1]]

(* "f" adds up the bytes of the first n spans, as BytesIn() does.            *)
Adds(f, spans, n) ==
    /\ f[0] = <<>>
    /\ \A i \in 1 .. n : f[i] = f[i - 1] \o BytesOf(spans[i])

(* ... and those of fewer on the way.                                        *)
LEMMA AddsFewer ==
    ASSUME NEW f, NEW spans, NEW n \in Nat, Adds(f, spans, n), NEW m \in 0 .. n
    PROVE  Adds(f, spans, m)
<1>1. 1 .. m \subseteq 1 .. n
  OBVIOUS
<1> QED BY <1>1, Zenon DEF Adds

(* A set of numbers has a least one.                                         *)
LEMMA LeastOf ==
    ASSUME NEW S, S \subseteq Nat, S # {}
    PROVE  \E x \in S : \A y \in S : x <= y
<1>1. PICK x \in S : \A y \in S : ~(<<y, x>> \in OpToRel(<, Nat))
  BY NatLessThanWellFounded, WFMin
<1>2. \A y \in S : ~(y < x)
  BY <1>1 DEF OpToRel
<1> QED BY <1>2

(* The function that BytesIn() chooses exists.                               *)
LEMMA AddsExist ==
    ASSUME NEW spans, NEW n \in Nat
    PROVE  \E f : f = [i \in 0 .. n |->
                          IF i = 0 THEN <<>> ELSE f[i - 1] \o BytesOf(spans[i])]
<1> DEFINE Runs(k) == \E f : f = [i \in 0 .. k |->
                          IF i = 0 THEN <<>> ELSE f[i - 1] \o BytesOf(spans[i])]
           Bad == {k \in Nat : ~Runs(k)}
<1>1. Runs(0)
  <2> DEFINE f == [i \in 0 .. 0 |-> <<>>]
  <2>1. f = [i \in 0 .. 0 |-> IF i = 0 THEN <<>> ELSE f[i - 1] \o BytesOf(spans[i])]
    OBVIOUS
  <2> QED BY <2>1
<1>2. ASSUME NEW k \in Nat, Runs(k)
      PROVE  Runs(k + 1)
  <2>1. PICK f : f = [i \in 0 .. k |->
                         IF i = 0 THEN <<>> ELSE f[i - 1] \o BytesOf(spans[i])]
    BY <1>2
  <2> DEFINE g == [i \in 0 .. k + 1 |->
                      IF i <= k THEN f[i] ELSE f[k] \o BytesOf(spans[k + 1])]
  <2>2. ASSUME NEW i \in 0 .. k + 1
        PROVE  g[i] = IF i = 0 THEN <<>> ELSE g[i - 1] \o BytesOf(spans[i])
    <3>1. CASE i <= k
      <4>1. g[i] = f[i] /\ f[i] = IF i = 0 THEN <<>> ELSE f[i - 1] \o BytesOf(spans[i])
        BY <2>1, <3>1
      <4>2. i # 0 => g[i - 1] = f[i - 1]
        BY <3>1
      <4> QED BY <4>1, <4>2
    <3>2. CASE i = k + 1
      BY <3>2
    <3> QED BY <3>1, <3>2
  <2>3. g = [i \in 0 .. k + 1 |->
                IF i = 0 THEN <<>> ELSE g[i - 1] \o BytesOf(spans[i])]
    BY <2>2
  <2> QED BY <2>3
<1>3. Bad = {}
  <2>1. SUFFICES ASSUME Bad # {} PROVE FALSE
    OBVIOUS
  <2>2. PICK k \in Bad : \A j \in Bad : k <= j
    BY <2>1, LeastOf
  <2>3. k # 0 /\ k - 1 \in Nat
    <3> HIDE DEF Runs
    <3> QED BY <1>1, <2>2
  <2>4. Runs(k - 1)
    <3> HIDE DEF Runs
    <3> QED BY <2>2, <2>3
  <2>5. Runs(k - 1 + 1)
    BY <1>2, <2>3, <2>4
  <2> QED BY <2>2, <2>5
<1> QED BY <1>3

(* A span's bytes are places, one after the other from where it begins.      *)
LEMMA BytesType ==
    ASSUME NEW span \in Span
    PROVE  /\ BytesOf(span) = RunOf(span.org, span.put, span.size)
           /\ BytesOf(span) \in Seq(Places)
           /\ Len(BytesOf(span)) = span.size
<1>1. span.size \in Nat /\ span.org \in Int /\ span.put \in Nat
  BY DEF Span
<1>2. \A j \in 1 .. span.size : [pc |-> span.org + j - 1, put |-> span.put + j - 1] \in Places
  BY <1>1 DEF Places
<1> QED BY <1>1, <1>2 DEF BytesOf, RunOf

(* BytesIn() adds up the bytes of the spans, in order.                       *)
LEMMA BytesAdd ==
    ASSUME NEW spans \in Seq(Span)
    PROVE  \E f : Adds(f, spans, Len(spans)) /\ BytesIn(spans) = f[Len(spans)]
<1> DEFINE n == Len(spans)
           upto[i \in 0 .. n] ==
               IF i = 0 THEN <<>> ELSE upto[i - 1] \o BytesOf(spans[i])
<1>1. n \in Nat
  OBVIOUS
<1>2. BytesIn(spans) = upto[n]
  BY DEF BytesIn
<1>3. \E f : f = [i \in 0 .. n |-> IF i = 0 THEN <<>> ELSE f[i - 1] \o BytesOf(spans[i])]
  BY <1>1, AddsExist
<1>4. upto = [i \in 0 .. n |-> IF i = 0 THEN <<>> ELSE upto[i - 1] \o BytesOf(spans[i])]
  BY <1>3
<1> HIDE DEF upto
<1>5. \A i \in 0 .. n : upto[i] = IF i = 0 THEN <<>> ELSE upto[i - 1] \o BytesOf(spans[i])
  BY <1>4
<1>6. Adds(upto, spans, n)
  <2>1. upto[0] = <<>>
    BY <1>1, <1>5
  <2>2. ASSUME NEW i \in 1 .. n
        PROVE  upto[i] = upto[i - 1] \o BytesOf(spans[i])
    <3>1. i \in 0 .. n /\ i # 0
      BY <1>1
    <3> QED BY <1>5, <3>1, Zenon
  <2> QED BY <2>1, <2>2, Zenon DEF Adds
<1> QED BY <1>2, <1>6

(* No spans, no bytes.                                                       *)
LEMMA NothingIn == BytesIn(<<>>) = <<>>
<1>1. <<>> \in Seq(Span) /\ Len(<<>>) = 0
  OBVIOUS
<1> QED BY <1>1, BytesAdd, Zenon DEF Adds

(* What spans have in common at their beginning adds up to the same bytes.   *)
LEMMA AddsAgree ==
    ASSUME NEW f, NEW g, NEW s, NEW t, NEW n \in Nat,
           Adds(f, s, n), Adds(g, t, n), \A i \in 1 .. n : s[i] = t[i]
    PROVE  f[n] = g[n]
<1> DEFINE Bad == {i \in 0 .. n : f[i] # g[i]}
<1>0. f[0] = g[0]
  BY DEF Adds
<1>1. Bad = {}
  <2>1. SUFFICES ASSUME Bad # {} PROVE FALSE
    OBVIOUS
  <2>2. Bad \subseteq Nat
    OBVIOUS
  <2>3. PICK k \in Bad : \A j \in Bad : k <= j
    BY <2>1, <2>2, LeastOf
  <2>4. k \in 1 .. n /\ k - 1 \in 0 .. n /\ ~(k <= k - 1)
    BY <1>0, <2>3
  <2>5. f[k - 1] = g[k - 1]
    BY <2>3, <2>4
  <2>6. f[k] = f[k - 1] \o BytesOf(s[k])
    BY <2>4, Zenon DEF Adds
  <2>7. g[k] = g[k - 1] \o BytesOf(t[k])
    BY <2>4, Zenon DEF Adds
  <2>8. f[k] = g[k]
    BY <2>4, <2>5, <2>6, <2>7, Zenon
  <2> QED BY <2>3, <2>8
<1> QED BY <1>1

(* They are places.                                                          *)
LEMMA AddsType ==
    ASSUME NEW f, NEW spans \in Seq(Span), NEW n \in 0 .. Len(spans),
           Adds(f, spans, n)
    PROVE  f[n] \in Seq(Places)
<1> DEFINE Bad == {i \in 0 .. n : f[i] \notin Seq(Places)}
<1>0. f[0] \in Seq(Places) /\ n \in Nat
  BY DEF Adds
<1>1. Bad = {}
  <2>1. SUFFICES ASSUME Bad # {} PROVE FALSE
    OBVIOUS
  <2>2. Bad \subseteq Nat
    OBVIOUS
  <2>3. PICK k \in Bad : \A j \in Bad : k <= j
    BY <2>1, <2>2, LeastOf
  <2>4. k \in 1 .. n /\ k - 1 \in 0 .. n /\ ~(k <= k - 1)
    BY <1>0, <2>3
  <2>5. f[k - 1] \in Seq(Places)
    BY <2>3, <2>4
  <2>6. spans[k] \in Span
    BY <2>4
  <2>7. BytesOf(spans[k]) \in Seq(Places)
    BY <2>6, BytesType
  <2>8. f[k] = f[k - 1] \o BytesOf(spans[k])
    BY <2>4, Zenon DEF Adds
  <2>9. f[k] \in Seq(Places)
    BY <2>5, <2>7, <2>8, ConcatProperties, Zenon
  <2> QED BY <2>3, <2>9
<1> QED BY <1>1

(* A span more adds its bytes at the end.                                    *)
LEMMA SpanAdds ==
    ASSUME NEW s \in Seq(Span), NEW t \in Seq(Span), Len(t) = Len(s) + 1,
           \A i \in 1 .. Len(s) : t[i] = s[i]
    PROVE  BytesIn(t) = BytesIn(s) \o BytesOf(t[Len(t)])
<1> DEFINE n == Len(s)
<1>1. n \in Nat
  OBVIOUS
<1>2. PICK f : Adds(f, s, n) /\ BytesIn(s) = f[n]
  BY BytesAdd
<1>3. PICK g : Adds(g, t, n + 1) /\ BytesIn(t) = g[n + 1]
  BY BytesAdd
<1>4. Adds(g, t, n)
  BY <1>1, <1>3, AddsFewer
<1>5. f[n] = g[n]
  BY <1>1, <1>2, <1>4, AddsAgree
<1>6. g[n + 1] = g[n] \o BytesOf(t[n + 1])
  <2> DEFINE m == n + 1
  <2>1. m \in 1 .. m /\ m - 1 = n
    BY <1>1
  <2>2. \A i \in 1 .. m : g[i] = g[i - 1] \o BytesOf(t[i])
    BY <1>3, Zenon DEF Adds
  <2> HIDE DEF m
  <2>3. g[m] = g[m - 1] \o BytesOf(t[m])
    BY <2>1, <2>2, Zenon
  <2>4. g[m] = g[n] \o BytesOf(t[m])
    BY <2>1, <2>3, Zenon
  <2> QED BY <2>4 DEF m
<1> QED BY <1>2, <1>3, <1>5, <1>6

(* A run of bytes and the one that follows on from it are one run.           *)
LEMMA RunsJoin ==
    ASSUME NEW pc \in Int, NEW put \in Nat, NEW m \in Nat, NEW k \in Nat
    PROVE  RunOf(pc, put, m + k) = RunOf(pc, put, m) \o RunOf(pc + m, put + m, k)
<1> DEFINE a == RunOf(pc, put, m)
           b == RunOf(pc + m, put + m, k)
           c == RunOf(pc, put, m + k)
<1>1. /\ a \in Seq(Places) /\ Len(a) = m
      /\ \A j \in 1 .. m : a[j] = [pc |-> pc + j - 1, put |-> put + j - 1]
  BY DEF RunOf, Places
<1>2. /\ b \in Seq(Places) /\ Len(b) = k
      /\ \A j \in 1 .. k : b[j] = [pc |-> pc + m + j - 1, put |-> put + m + j - 1]
  BY DEF RunOf, Places
<1>3. /\ c \in Seq(Places) /\ Len(c) = m + k
      /\ \A j \in 1 .. m + k : c[j] = [pc |-> pc + j - 1, put |-> put + j - 1]
  BY DEF RunOf, Places
<1> HIDE DEF a, b, c
<1>4. /\ a \o b \in Seq(Places) /\ Len(a \o b) = m + k
      /\ \A j \in 1 .. m + k : (a \o b)[j] = IF j <= m THEN a[j] ELSE b[j - m]
  BY <1>1, <1>2, ConcatProperties
<1>5. ASSUME NEW j \in 1 .. m + k
      PROVE  c[j] = (a \o b)[j]
  <2>1. CASE j <= m
    BY <1>1, <1>3, <1>4, <2>1
  <2>2. CASE ~(j <= m)
    <3>1. j - m \in 1 .. k /\ pc + m + (j - m) - 1 = pc + j - 1
          /\ put + m + (j - m) - 1 = put + j - 1
      BY <2>2
    <3> QED BY <1>2, <1>3, <1>4, <2>2, <3>1
  <2> QED BY <2>1, <2>2
<1>6. c = a \o b
  BY <1>3, <1>4, <1>5, SeqEqual
<1> QED BY <1>6 DEF a, b, c

(* A last span that grows adds the bytes that it grew by.                    *)
LEMMA GrowthAdds ==
    ASSUME NEW s \in Seq(Span), NEW t \in Seq(Span), NEW n \in Nat, NEW k \in Nat,
           n > 0, Len(s) = n, Len(t) = n,
           \A i \in 1 .. n - 1 : t[i] = s[i],
           t[n].put = s[n].put, t[n].org = s[n].org, t[n].size = s[n].size + k
    PROVE  BytesIn(t) = BytesIn(s) \o RunOf(NextPc(s[n]), NextPut(s[n]), k)
<1> DEFINE run == RunOf(NextPc(s[n]), NextPut(s[n]), k)
<1>1. PICK f : Adds(f, s, n) /\ BytesIn(s) = f[n]
  BY BytesAdd
<1>2. PICK g : Adds(g, t, n) /\ BytesIn(t) = g[n]
  BY BytesAdd
<1>3. /\ n - 1 \in Nat /\ n \in 1 .. n /\ n - 1 \in 0 .. Len(s)
      /\ s[n] \in Span /\ t[n] \in Span
  OBVIOUS
<1>4. Adds(f, s, n - 1) /\ Adds(g, t, n - 1)
  <2>1. n - 1 \in 0 .. n
    BY <1>3
  <2> QED BY <1>1, <1>2, <2>1, AddsFewer
<1>5. f[n - 1] = g[n - 1]
  BY <1>3, <1>4, AddsAgree
<1>6. f[n - 1] \in Seq(Places)
  BY <1>3, <1>4, AddsType
<1>7. f[n] = f[n - 1] \o BytesOf(s[n]) /\ g[n] = g[n - 1] \o BytesOf(t[n])
  BY <1>1, <1>2, <1>3, Zenon DEF Adds
<1>8. s[n].org \in Int /\ s[n].put \in Nat /\ s[n].size \in Nat
  BY <1>3 DEF Span
<1>9. BytesOf(t[n]) = BytesOf(s[n]) \o run
  <2>1. BytesOf(s[n]) = RunOf(s[n].org, s[n].put, s[n].size)
    BY <1>3, BytesType
  <2>2. BytesOf(t[n]) = RunOf(s[n].org, s[n].put, s[n].size + k)
    BY <1>3, BytesType
  <2> DEFINE pc == s[n].org
             put == s[n].put
             m == s[n].size
  <2>3. pc \in Int /\ put \in Nat /\ m \in Nat
    BY <1>8
  <2>4. run = RunOf(pc + m, put + m, k)
    BY DEF NextPc, NextPut
  <2>5. BytesOf(s[n]) = RunOf(pc, put, m) /\ BytesOf(t[n]) = RunOf(pc, put, m + k)
    BY <2>1, <2>2
  <2> HIDE DEF pc, put, m, run
  <2>6. RunOf(pc, put, m + k) = RunOf(pc, put, m) \o RunOf(pc + m, put + m, k)
    BY <2>3, RunsJoin
  <2> QED BY <2>4, <2>5, <2>6, Zenon
<1>10. run \in Seq(Places)
  <2> DEFINE pc == s[n].org + s[n].size
             put == s[n].put + s[n].size
  <2>1. pc \in Int /\ put \in Nat
    BY <1>8
  <2>2. run = RunOf(pc, put, k)
    BY DEF NextPc, NextPut
  <2> HIDE DEF pc, put
  <2>3. RunOf(pc, put, k) \in Seq(Places)
    BY <2>1 DEF RunOf, Places
  <2> QED BY <2>2, <2>3
<1>11. BytesOf(s[n]) \in Seq(Places)
  BY <1>3, BytesType
<1> HIDE DEF run
<1>12. (f[n - 1] \o BytesOf(s[n])) \o run = f[n - 1] \o (BytesOf(s[n]) \o run)
  <2> DEFINE a == f[n - 1]
             b == BytesOf(s[n])
  <2>1. a \in Seq(Places) /\ b \in Seq(Places)
    BY <1>6, <1>11
  <2> HIDE DEF a, b
  <2>2. (a \o b) \o run = a \o (b \o run)
    BY <1>10, <2>1, ConcatAssociative, SMTT(60)
  <2> QED BY <2>2 DEF a, b
<1>13. BytesIn(t) = BytesIn(s) \o run
  BY <1>1, <1>2, <1>5, <1>7, <1>9, <1>12
<1> QED BY <1>13 DEF run

(* section_emit() adds its bytes, at the place the section stood at, to what *)
(* the section's spans hold.                                                 *)
LEMMA EmittedBytes ==
    ASSUME NEW s \in Section, NEW k \in 1 .. MaxEmit, NEW seq \in Nat,
           SectionInv(s, seq)
    PROVE  BytesIn(Emitted(s, k, seq).spans) = BytesIn(s.spans) \o RunOf(s.pc, s.put, k)
<1> DEFINE t == Emitted(s, k, seq)
           n == Len(s.spans)
<1>1. s.spans \in Seq(Span) /\ n \in Nat /\ t.spans \in Seq(Span) /\ k \in Nat
  BY EmittedSpans, SectionsConstants, SectionConstants DEF Section
<1>2. CASE ~OpensSpan(s)
  <2>1. /\ n > 0 /\ Len(t.spans) = n
        /\ \A i \in 1 .. n - 1 : t.spans[i] = s.spans[i]
        /\ t.spans[n].put = s.spans[n].put
        /\ t.spans[n].org = s.spans[n].org
        /\ t.spans[n].size = s.spans[n].size + k
        /\ s.put = NextPut(s.spans[n])
        /\ s.pc = NextPc(s.spans[n])
    BY <1>2, EmittedSpans
  <2> HIDE DEF t, n
  <2>2. n = Len(s.spans)
    BY DEF n
  <2>3. BytesIn(t.spans) = BytesIn(s.spans) \o RunOf(NextPc(s.spans[n]), NextPut(s.spans[n]), k)
    BY <1>1, <2>1, <2>2, GrowthAdds
  <2> QED BY <2>1, <2>3 DEF t
<1>3. CASE OpensSpan(s)
  <2>1. /\ Len(t.spans) = n + 1
        /\ \A i \in 1 .. n : t.spans[i] = s.spans[i]
        /\ t.spans[n + 1].put = s.put
        /\ t.spans[n + 1].org = s.pc
        /\ t.spans[n + 1].size = k
    BY <1>3, EmittedSpans
  <2> HIDE DEF t
  <2>2. BytesIn(t.spans) = BytesIn(s.spans) \o BytesOf(t.spans[n + 1])
    BY <1>1, <2>1, SpanAdds
  <2>3. t.spans[n + 1] \in Span
    BY <1>1, <2>1
  <2>4. BytesOf(t.spans[n + 1]) = RunOf(s.pc, s.put, k)
    BY <2>1, <2>3, BytesType
  <2> QED BY <2>2, <2>4 DEF t
<1> QED BY <1>2, <1>3

(* The log, the place and the pass of each section, and what a step makes of *)
(* them.                                                                     *)
Written == [n \in SectionNames |-> BytesIn(sections[n].spans)]
Stands  == [n \in SectionNames |-> [pc |-> sections[n].pc, put |-> sections[n].put]]
Of      == [n \in SectionNames |-> sections[n].pass]

(* A section that moves in its pass leaves the log alone.                    *)
LEMMA LogMoves ==
    ASSUME NEW t \in Section, sections \in [SectionNames -> Section], cur \in SectionNames,
           sections' = [sections EXCEPT ![cur] = t], t.spans = sections[cur].spans,
           t.pass = sections[cur].pass, cur' = cur, pass' = pass,
           pass # NoPass, sections[cur].pass = pass
    PROVE  Log!Move
<1>1. /\ sections'[cur] = t
      /\ \A n \in SectionNames : n # cur => sections'[n] = sections[n]
      /\ t.pc \in Int /\ t.put \in Nat
  BY DEF Section
<1>2. Stands'[cur] = [pc |-> t.pc, put |-> t.put]
  BY <1>1 DEF Stands
<1>3. Stands'[cur] \in [pc : Int, put : Nat]
  BY <1>1, <1>2
<1>4. Stands' = [Stands EXCEPT ![cur] = Stands'[cur]]
  BY <1>1, <1>2 DEF Stands
<1>5. Written' = Written /\ Of' = Of
  BY <1>1 DEF Written, Of
<1>6. Log!Begun(cur)
  BY DEF Log!Begun, Log!NoPass, NoPass
<1> QED BY <1>3, <1>4, <1>5, <1>6 DEF Log!Move, Log!Place, Written, Stands, Of

(* Emission is a write.                                                      *)
LEMMA LogWrites ==
    ASSUME IInv, NEW k \in 1 .. MaxEmit, Emit(k)
    PROVE  Log!Write(k)
<1> DEFINE s == sections[cur]
           t == Emitted(s, k, sequence)
<1>1. /\ sections \in [SectionNames -> Section] /\ cur \in SectionNames
      /\ s \in Section /\ sequence \in Nat /\ SectionInv(s, sequence)
      /\ s.pc \in Int /\ s.put \in Nat /\ k \in Nat
  BY SectionConstants, SectionsConstants DEF IInv, TypeOK, Section
<1>2. sections' = [sections EXCEPT ![cur] = t] /\ cur' = cur /\ pass' = pass
  BY DEF Emit, Operation
<1>3. BytesIn(t.spans) = BytesIn(s.spans) \o RunOf(s.pc, s.put, k)
  BY <1>1, EmittedBytes
<1>4. t.pc = s.pc + k /\ t.put = s.put + k
  BY <1>1 DEF Emitted, Section
<1>5. t.pass = s.pass
  BY <1>1, EmittedSpans, EmittedFields
<1> HIDE DEF t
<1>6. sections'[cur] = t /\ \A n \in SectionNames : n # cur => sections'[n] = sections[n]
  BY <1>1, <1>2
<1>7. Written' = [Written EXCEPT ![cur] = Written[cur] \o RunOf(Stands[cur].pc, Stands[cur].put, k)]
  <2>1. Stands[cur].pc = s.pc /\ Stands[cur].put = s.put /\ Written[cur] = BytesIn(s.spans)
    BY <1>1 DEF Stands, Written
  <2> DEFINE w == BytesIn(s.spans) \o RunOf(s.pc, s.put, k)
  <2>2. BytesIn(sections'[cur].spans) = w
    BY <1>3, <1>6
  <2> HIDE DEF w
  <2>3. Written' = [Written EXCEPT ![cur] = w]
    BY <1>1, <1>6, <2>2 DEF Written
  <2> QED BY <2>1, <2>3, Zenon DEF w
<1>8. Stands' = [Stands EXCEPT ![cur].pc = @ + k, ![cur].put = @ + k]
  BY <1>1, <1>4, <1>6 DEF Stands
<1>9. Of' = Of
  BY <1>5, <1>6 DEF Of
<1>10. Log!Begun(cur)
  BY <1>1 DEF Emit, Operation, IInv, PassesInOrder, Log!Begun, Log!NoPass, NoPass
<1> QED BY <1>2, <1>7, <1>8, <1>9, <1>10, Zenon DEF Log!Write, Written, Stands, Of, RunOf

(* A section selected in a pass it was not selected in before has an empty   *)
(* log of that pass, the others theirs.                                      *)
LEMMA LogStarts ==
    ASSUME sections \in [SectionNames -> Section], NEW n \in SectionNames, NEW p \in Nat,
           Select(n, p), sections' \in [SectionNames -> Section], sections[n].pass # p
    PROVE  /\ cur' = n
           /\ Written' = [Written EXCEPT ![n] = <<>>]
           /\ Stands'[n] = [pc |-> StartAfter(sections[cur], p).pc,
                            put |-> StartAfter(sections[cur], p).put]
           /\ Stands'[n] \in Places
           /\ Stands' = [Stands EXCEPT ![n] = Stands'[n]]
           /\ Of' = [Of EXCEPT ![n] = p]
<1> DEFINE pos == StartAfter(sections[cur], p)
           t == Selected(sections[n], p, pos)
<1>1. cur' = n /\ sections' = [sections EXCEPT ![n] = t]
  BY DEF Select
<1>2. t.spans = <<>> /\ t.pass = p /\ t.pc = pos.pc /\ t.put = pos.put
  <2> HIDE DEF pos
  <2> QED BY DEF Selected, Section
<1> HIDE DEF t, pos
<1>3. /\ sections'[n] = t
      /\ \A m \in SectionNames : m # n => sections'[m] = sections[m]
      /\ t \in Section
  BY <1>1
<1>4. BytesIn(t.spans) = <<>>
  BY <1>2, NothingIn
<1>5. Written' = [Written EXCEPT ![n] = <<>>]
  BY <1>3, <1>4 DEF Written
<1>6. Stands'[n] = [pc |-> t.pc, put |-> t.put]
  BY <1>3 DEF Stands
<1>7. Stands'[n] \in Places
  BY <1>3, <1>6 DEF Section, Places
<1>8. Stands' = [Stands EXCEPT ![n] = Stands'[n]]
  BY <1>3, <1>6 DEF Stands
<1>9. Of' = [Of EXCEPT ![n] = p]
  BY <1>2, <1>3 DEF Of
<1> QED BY <1>1, <1>2, <1>5, <1>6, <1>7, <1>8, <1>9 DEF pos

(* Selection within a pass resumes a section's log or starts it afresh.      *)
LEMMA LogSelects ==
    ASSUME IInv, NEW n \in SectionNames, pass \in Nat, pass' = pass, Select(n, pass),
           sections' \in [SectionNames -> Section]
    PROVE  Log!Resume(n) \/ Log!Restart(n)
<1>1. sections \in [SectionNames -> Section] /\ pass # NoPass /\ cur' = n
  BY DEF IInv, TypeOK, NoPass, Select
<1>2. Log!Begun(n) <=> sections[n].pass = pass
  BY <1>1 DEF Log!Begun, Log!NoPass, NoPass
<1>3. CASE sections[n].pass = pass
  <2>1. sections' = sections
    BY <1>1, <1>3 DEF Selected, Select
  <2> QED BY <1>1, <1>2, <1>3, <2>1 DEF Log!Resume
<1>4. CASE sections[n].pass # pass
  <2>1. /\ Written' = [Written EXCEPT ![n] = <<>>]
        /\ Stands'[n] \in Places
        /\ Stands' = [Stands EXCEPT ![n] = Stands'[n]]
        /\ Of' = [Of EXCEPT ![n] = pass]
    BY <1>1, <1>4, LogStarts
  <2> QED BY <1>1, <1>2, <1>4, <2>1
        DEF Log!Restart, Log!Place, Log!NoPass, NoPass, Written, Stands, Of, Places
<1> QED BY <1>3, <1>4

(* The head of the loop starts the first section's log.                      *)
LEMMA LogBegins ==
    ASSUME IInv, BeginPass, sections' \in [SectionNames -> Section]
    PROVE  Log!NewPass
<1>1. /\ sections \in [SectionNames -> Section] /\ First \in SectionNames
      /\ cur \in SectionNames /\ pass + 1 \in Nat /\ pass \in Int
      /\ pass' = pass + 1 /\ Select(First, pass + 1) /\ cur' = First
  BY SectionsConstants DEF IInv, TypeOK, NoPass, BeginPass, Select
<1>2. sections[First].pass # pass + 1 /\ sections[cur].pass # pass + 1
  <2>1. sections[First].pass <= pass /\ sections[cur].pass <= pass
    BY <1>1 DEF IInv, PassesInOrder
  <2>2. sections[First].pass \in Int /\ sections[cur].pass \in Int
    <3>1. \A s \in Section : s.pass \in Int
      BY DEF Section, NoPass
    <3> QED BY <1>1, <3>1
  <2> QED BY <1>1, <2>1, <2>2
<1>3. StartAfter(sections[cur], pass + 1) = [pc |-> 0, put |-> 0]
  BY <1>2 DEF StartAfter
<1>4. /\ Written' = [Written EXCEPT ![First] = <<>>]
      /\ Stands'[First] = [pc |-> 0, put |-> 0]
      /\ Stands' = [Stands EXCEPT ![First] = Stands'[First]]
      /\ Of' = [Of EXCEPT ![First] = pass + 1]
  BY <1>1, <1>2, <1>3, LogStarts
<1> QED BY <1>1, <1>4 DEF Log!NewPass, Log!Origin, Written, Stands, Of

(* Every operation on the sections is one on their logs, or none.            *)
LEMMA LogStep == IInv /\ IInv' /\ [Next]_vars => [Log!Next]_(Log!vars)
<1> SUFFICES ASSUME IInv, IInv', [Next]_vars PROVE [Log!Next]_(Log!vars)
  OBVIOUS
<1>0. /\ sections \in [SectionNames -> Section] /\ sections' \in [SectionNames -> Section]
      /\ cur \in SectionNames /\ cur' \in SectionNames /\ sections'[cur] \in Section
  BY DEF IInv, TypeOK
<1>1. CASE BeginPass
  BY <1>0, <1>1, LogBegins DEF Log!Next
<1>2. ASSUME NEW n \in SectionNames, SetSection(n) PROVE Log!Next
  <2>1. pass \in Nat /\ pass' = pass
    BY <1>2 DEF SetSection, Operation, IInv, TypeOK, PassesInOrder
  <2> QED BY <1>0, <1>2, <2>1, LogSelects DEF SetSection, Log!Next
<1>3. ASSUME NEW k \in 1 .. MaxEmit, Emit(k) PROVE Log!Next
  BY <1>3, LogWrites DEF Log!Next
<1>4. ASSUME NEW t, sections' = [sections EXCEPT ![cur] = t], cur' = cur, Operation,
             t.spans = sections[cur].spans, t.pass = sections[cur].pass
      PROVE  Log!Next
  <2>1. t \in Section
    BY <1>0, <1>4
  <2>2. pass' = pass /\ pass # NoPass /\ sections[cur].pass = pass
    BY <1>4 DEF Operation, IInv, PassesInOrder
  <2> QED BY <1>0, <1>4, <2>1, <2>2, LogMoves DEF Log!Next
<1>5. ASSUME NEW c \in Counts, Rmb(c) PROVE Log!Next
  <2>1. /\ Reserved(sections[cur], c).spans = sections[cur].spans
        /\ Reserved(sections[cur], c).pass = sections[cur].pass
    BY <1>0, SectionsConstants, ReservedSection
  <2> QED BY <1>4, <1>5, <2>1 DEF Rmb
<1>6. ASSUME NEW a \in Addresses, Org(a) PROVE Log!Next
  <2>1. /\ Orged(sections[cur], a).spans = sections[cur].spans
        /\ Orged(sections[cur], a).pass = sections[cur].pass
    BY <1>0 DEF Orged, Section
  <2> QED BY <1>4, <1>6, <2>1 DEF Org
<1>7. ASSUME NEW a \in Addresses, Put(a) PROVE Log!Next
  <2>1. /\ PutAt(sections[cur], a).spans = sections[cur].spans
        /\ PutAt(sections[cur], a).pass = sections[cur].pass
    BY <1>0 DEF PutAt, Section
  <2> QED BY <1>4, <1>7, <2>1 DEF Put
<1>8. CASE FinishPass
  <2>1. \A n \in SectionNames : /\ sections'[n].spans = sections[n].spans
                                /\ sections'[n].pc = sections[n].pc
                                /\ sections'[n].put = sections[n].put
                                /\ sections'[n].pass = sections[n].pass
    BY <1>0, <1>8 DEF FinishPass, FinishedSections, Verified, Section
  <2>2. Written' = Written /\ Stands' = Stands /\ Of' = Of
    BY <2>1 DEF Written, Stands, Of
  <2> QED BY <1>8, <2>2 DEF FinishPass, Log!vars, Written, Stands, Of
<1>9. CASE UNCHANGED vars
  BY <1>9 DEF vars, Log!vars
<1> QED BY <1>1, <1>2, <1>3, <1>5, <1>6, <1>7, <1>8, <1>9 DEF Next

(* The sections start with empty logs.                                       *)
LEMMA LogInit == Init => Log!Init
<1> SUFFICES ASSUME Init PROVE Log!Init
  OBVIOUS
<1>1. \A n \in SectionNames : BytesIn(sections[n].spans) = <<>>
  BY NothingIn DEF Init, NewSection
<1>2. Stands = [n \in SectionNames |-> [pc |-> 0, put |-> 0]]
  BY DEF Stands, Init, NewSection
<1>3. Of = [n \in SectionNames |-> NoPass] /\ pass = NoPass /\ cur = First
  BY DEF Of, Init, NewSection
<1> QED BY <1>1, <1>2, <1>3 DEF Log!Init, Log!Origin, Log!NoPass, NoPass, Stands, Of

(* Through every pass and change of section, the spans of a section hold the *)
(* bytes assembled into it in the last pass that selected it, each once and  *)
(* at the addresses the section stood at when it was assembled: none is lost *)
(* on returning to it in that pass, none kept over to the next that selects  *)
(* it, which is what SectionLog promises without spans.                      *)
THEOREM Refinement == Spec => ImplementsLog
BY LogInit, LogStep, Invariance, PTL DEF Spec, ImplementsLog, Log!Spec

-----------------------------------------------------------------------------
(* The listing shows with a line the code the line assembled: spans grow     *)
(* behind what was listed from them, and are discarded only with the listing.*)
SpanRef == [section : SectionNames, number : Nat]
Bytes   == [span : SpanRef, from : Int, count : Int]
Kinds   == {"instr", "data"}
Entry   == [kind : Kinds, pc : Int, nbytes : Int, span : SpanRef, wrote : Bytes]
Doing   == [kind : Kinds \cup {"none"}, pc : Int, wrote : Bytes]

(* What holds of an entry of the listing that emitted bytes: the span they   *)
(* went to is there, of the running pass, it is the one noted unless the     *)
(* line is data that PUT displaced, and the bytes are where the entry's      *)
(* program counter says, unless an error was reported.                       *)
EntryKept(e, secs, lev, p) ==
    e.wrote # Nothing =>
        LET w == e.wrote.span
            s == secs[w.section]
        IN  /\ s.pass = p
            /\ w.number \in 1 .. Len(s.spans)
            /\ e.span = IF e.kind = "data" /\ s.spans[w.number].put # s.spans[w.number].org
                        THEN NoSpan ELSE w
            /\ e.nbytes = e.wrote.count
            /\ e.nbytes > 0
            /\ Failing(lev) \/ e.pc = s.spans[w.number].org + e.wrote.from

(* What holds of a line in progress: the last bytes of the span at whose end *)
(* its section n stands are those it emitted, from where it began.           *)
LineKept(d, s, n, lev) ==
    /\ d.kind \in Kinds
    /\ d.wrote.span = SpanOf(n, s)
    /\ d.wrote.count > 0
    /\ s.spans # <<>>
    /\ s.pc = NextPc(CurrentSpan(s))
    /\ s.put = NextPut(CurrentSpan(s))
    /\ CurrentSpan(s).size = d.wrote.from + d.wrote.count
    /\ s.pc = d.pc + d.wrote.count
    /\ Failing(lev) \/ d.pc \in 0 .. AddrLimit - 1

LInv ==
    /\ IInv
    /\ listing \in Seq(Entry)
    /\ \A i \in DOMAIN listing : EntryKept(listing[i], sections, level, pass)
    /\ doing \in Doing
    /\ doing # NoLine => open /\ LineKept(doing, sections[cur], cur, level)

(* A section whose spans have all kept their places, in the same pass.       *)
Grown(s, t) ==
    /\ t.pass = s.pass
    /\ Len(s.spans) <= Len(t.spans)
    /\ \A i \in 1 .. Len(s.spans) : /\ t.spans[i].put = s.spans[i].put
                                    /\ t.spans[i].org = s.spans[i].org

(* Growing sections keep what a line was noted with.                         *)
LEMMA GrownKeeps ==
    ASSUME NEW e \in Entry, NEW old \in [SectionNames -> Section],
           NEW new \in [SectionNames -> Section], NEW l, NEW m, NEW p,
           EntryKept(e, old, l, p), Failing(l) => Failing(m),
           \A n \in SectionNames : old[n].pass = p => Grown(old[n], new[n])
    PROVE  EntryKept(e, new, m, p)
<1> SUFFICES ASSUME e.wrote # Nothing PROVE EntryKept(e, new, m, p)
  BY DEF EntryKept
<1> DEFINE w == e.wrote.span
           s == old[w.section]
           t == new[w.section]
<1>1. /\ s.pass = p /\ w.number \in 1 .. Len(s.spans)
      /\ e.span = IF e.kind = "data" /\ s.spans[w.number].put # s.spans[w.number].org
                  THEN NoSpan ELSE w
      /\ e.nbytes = e.wrote.count /\ e.nbytes > 0
      /\ Failing(l) \/ e.pc = s.spans[w.number].org + e.wrote.from
  BY DEF EntryKept
<1>2. w.section \in SectionNames
  BY DEF Entry, Bytes, SpanRef
<1>3. Grown(s, t)
  BY <1>1, <1>2
<1>4. Len(s.spans) \in Nat /\ Len(t.spans) \in Nat
  <2>1. s \in Section /\ t \in Section
    BY <1>2
  <2> HIDE DEF s, t
  <2> QED BY <2>1 DEF Section
<1> HIDE DEF w, s, t
<1>5. /\ t.pass = p /\ w.number \in 1 .. Len(t.spans)
      /\ t.spans[w.number].put = s.spans[w.number].put
      /\ t.spans[w.number].org = s.spans[w.number].org
  BY <1>1, <1>3, <1>4 DEF Grown
<1> QED BY <1>1, <1>5 DEF EntryKept, w, t

(* A report never makes a failing level one that is not.                     *)
LEMMA RaiseFails ==
    ASSUME NEW l \in ErrorTypes, NEW type \in ErrorTypes, Failing(l) \/ Failing(type)
    PROVE  Failing(Raise(l, type))
BY DEF Raise, Failing, ErrorTypes, None, Inconsistent, OutOfRange, Fatal

(* A section has grown to itself.                                            *)
LEMMA SameGrown == \A s : s.spans \in Seq(Span) => Grown(s, s)
BY DEF Grown

(* After an emission the section stands at the end of its last span, ...     *)
LEMMA EmittedEnd ==
    ASSUME NEW s \in Section, NEW k \in 1 .. MaxEmit, NEW seq \in Nat,
           SectionInv(s, seq)
    PROVE  LET t == Emitted(s, k, seq)
           IN  /\ t.pc = s.pc + k
               /\ NextPc(CurrentSpan(t)) = t.pc
               /\ NextPut(CurrentSpan(t)) = t.put
               /\ s.pc = CurrentSpan(t).org + (CurrentSpan(t).size - k)
               /\ CurrentSpan(t) \in Span
               /\ Len(t.spans) \in Nat \ {0}
<1> DEFINE t == Emitted(s, k, seq)
           spans == Opened(s, seq)
           n == Len(spans)
<1>0. /\ k \in Int /\ s.spans \in Seq(Span) /\ s.pc \in Int /\ s.put \in Nat
      /\ DOMAIN s = {"spans", "pass", "pc", "put", "dp", "last_pc", "last_put"}
  BY SectionConstants, SectionsConstants DEF Section
<1>1. /\ spans \in Seq(Span) /\ n \in Nat \ {0}
      /\ NextPc(spans[n]) = s.pc /\ NextPut(spans[n]) = s.put
  <2> DEFINE new == [sequence |-> seq, org |-> s.pc, put |-> s.put, size |-> 0,
                     allocated |-> 0]
  <2>1. CASE Continues(s)
    <3>1. spans = s.spans /\ s.spans # <<>>
      <4>1. spans = s.spans
        BY <2>1 DEF Opened
      <4> QED BY <2>1, <4>1 DEF Continues
    <3>2. n \in Nat \ {0}
      BY <1>0, <3>1
    <3>3. NextPc(spans[n]) = s.pc /\ NextPut(spans[n]) = s.put
      BY <2>1, <3>1 DEF Continues, CurrentSpan
    <3> QED BY <1>0, <3>1, <3>2, <3>3
  <2>2. CASE ~Continues(s)
    <3>1. s.spans # <<>> => CurrentSpan(s).size # 0
      BY <1>0 DEF SectionInv, CurrentSpan
    <3>2. spans = Append(s.spans, new)
      BY <2>2, <3>1 DEF Opened
    <3>3. new \in Span /\ NextPc(new) = s.pc /\ NextPut(new) = s.put
      BY <1>0 DEF Span, NextPc, NextPut
    <3> HIDE DEF new
    <3> QED BY <1>0, <3>2, <3>3
  <2> QED BY <2>1, <2>2
<1>1a. n \in DOMAIN spans /\ n = Len(spans) /\ spans[n] \in Span
  <2> HIDE DEF spans
  <2> QED BY <1>1
<1> HIDE DEF spans, n
<1> DEFINE last == spans[n]
           f == Filled(last, k, s.pc + k)
<1>2. last \in Span /\ NextPc(last) = s.pc /\ NextPut(last) = s.put
  BY <1>1, <1>1a
<1> HIDE DEF last
<1>3. f.org = last.org /\ f.put = last.put /\ f.size = last.size + k
  BY <1>2 DEF Filled, Span
<1>4. last.org \in Int /\ last.put \in Nat /\ last.size \in Nat
  BY <1>2 DEF Span
<1>5. NextPc(f) = s.pc + k /\ NextPut(f) = s.put + k
  <2> HIDE DEF f
  <2>1. NextPc(f) = s.pc + k
    BY <1>0, <1>2, <1>3, <1>4 DEF NextPc
  <2>2. NextPut(f) = s.put + k
    BY <1>0, <1>2, <1>3, <1>4 DEF NextPut
  <2> QED BY <2>1, <2>2
<1>9. f.org = last.org /\ s.pc = f.org + (f.size - k)
  BY <1>0, <1>2, <1>3, <1>4 DEF NextPc
<1> HIDE DEF f
<1>6. t.spans = [spans EXCEPT ![n] = f] /\ t.pc = s.pc + k /\ t.put = s.put + k
  BY <1>0 DEF Emitted, spans, n, f, last
<1> HIDE DEF t
<1>7. CurrentSpan(t) = f /\ Len(t.spans) = n
  BY <1>1, <1>1a, <1>6 DEF CurrentSpan
<1>8. t.spans \in Seq(Span)
  BY EmittedSpans DEF t
<1> QED BY <1>1, <1>5, <1>6, <1>7, <1>8, <1>9 DEF t, CurrentSpan

(* ... and its other spans, with the one it may have continued, have not     *)
(* moved.                                                                    *)
LEMMA EmittedGrown ==
    ASSUME NEW s \in Section, NEW k \in 1 .. MaxEmit, NEW seq \in Nat,
           SectionInv(s, seq)
    PROVE  Grown(s, Emitted(s, k, seq))
<1> DEFINE t == Emitted(s, k, seq)
           n == Len(s.spans)
<1>1. t.pass = s.pass /\ n \in Nat
  BY EmittedSpans, EmittedFields DEF Section
<1>2. CASE ~OpensSpan(s)
  <2>1. /\ Len(t.spans) = n
        /\ \A i \in 1 .. n - 1 : t.spans[i] = s.spans[i]
        /\ t.spans[n].put = s.spans[n].put /\ t.spans[n].org = s.spans[n].org
    BY <1>2, EmittedSpans
  <2> HIDE DEF t
  <2>2. \A i \in 1 .. n : i \in 1 .. n - 1 \/ i = n
    BY <1>1
  <2> QED BY <1>1, <2>1, <2>2 DEF Grown, t
<1>3. CASE OpensSpan(s)
  <2>1. Len(t.spans) = n + 1 /\ \A i \in 1 .. n : t.spans[i] = s.spans[i]
    BY <1>3, EmittedSpans
  <2> HIDE DEF t
  <2> QED BY <1>1, <2>1 DEF Grown, t
<1> QED BY <1>2, <1>3

(* Emission where the section stands at the end of its last span, which all  *)
(* but the first of a line's emissions are, lets that span grow.             *)
LEMMA EmittedOn ==
    ASSUME NEW s \in Section, NEW k \in 1 .. MaxEmit, NEW seq \in Nat,
           SectionInv(s, seq), s.spans # <<>>,
           s.pc = NextPc(CurrentSpan(s)), s.put = NextPut(CurrentSpan(s))
    PROVE  /\ Len(Emitted(s, k, seq).spans) = Len(s.spans)
           /\ CurrentSpan(Emitted(s, k, seq)).size = CurrentSpan(s).size + k
<1>1. ~OpensSpan(s)
  BY DEF OpensSpan, Continues
<1> QED BY <1>1, EmittedSpans DEF CurrentSpan

-----------------------------------------------------------------------------
(* The listing is empty at first.                                            *)
LEMMA ListInitLInv == ListInit => LInv
<1>1. Nothing \in Bytes /\ NoLine \in Doing
  BY SectionsConstants DEF Nothing, NoSpan, NoLine, Bytes, SpanRef, Doing
<1> QED BY <1>1, InitIInv DEF ListInit, LInv

(* A step that only lets sections grow keeps what holds of the entries.      *)
LEMMA GrowthStep ==
    ASSUME LInv, IInv', pass' = pass, Failing(level) => Failing(level'),
           \A n \in SectionNames : sections[n].pass = pass => Grown(sections[n], sections'[n])
    PROVE  \A i \in DOMAIN listing : EntryKept(listing[i], sections', level', pass')
<1>1. /\ sections \in [SectionNames -> Section] /\ sections' \in [SectionNames -> Section]
      /\ \A i \in DOMAIN listing : listing[i] \in Entry
      /\ \A i \in DOMAIN listing : EntryKept(listing[i], sections, level, pass)
  BY DEF LInv, IInv, TypeOK
<1> QED BY <1>1, GrownKeeps

(* A line is added to the listing, the others staying.                       *)
LEMMA AppendKept ==
    ASSUME listing \in Seq(Entry), NEW e \in Entry, NEW secs, NEW lev, NEW p,
           listing' = Append(listing, e), EntryKept(e, secs, lev, p),
           \A i \in DOMAIN listing : EntryKept(listing[i], secs, lev, p)
    PROVE  /\ listing' \in Seq(Entry)
           /\ \A i \in DOMAIN listing' : EntryKept(listing'[i], secs, lev, p)
<1>1. /\ DOMAIN listing' = 1 .. Len(listing) + 1
      /\ DOMAIN listing = 1 .. Len(listing) /\ Len(listing) \in Nat
      /\ listing'[Len(listing) + 1] = e
      /\ \A i \in 1 .. Len(listing) : listing'[i] = listing[i]
  OBVIOUS
<1>2. \A i \in 1 .. Len(listing) + 1 : i \in 1 .. Len(listing) \/ i = Len(listing) + 1
  BY <1>1
<1> QED BY <1>1, <1>2

(* Emission leaves what is listed true, and the level failing if it fails or *)
(* the bytes do not lie in the address space.                                *)
LEMMA EmitKeeps ==
    ASSUME LInv, IInv', NEW k \in 1 .. MaxEmit, Emit(k)
    PROVE  /\ \A i \in DOMAIN listing : EntryKept(listing[i], sections', level', pass')
           /\ sections'[cur] = Emitted(sections[cur], k, sequence)
           /\ Failing(level) \/ EmitError(sections[cur], k) = OutOfRange => Failing(level')
           /\ cur' = cur /\ pass' = pass /\ open /\ open'
<1> DEFINE s == sections[cur]
           t == sections'[cur]
<1>0. /\ sections \in [SectionNames -> Section] /\ cur \in SectionNames
      /\ s \in Section /\ SectionInv(s, sequence) /\ sequence \in Nat
      /\ level \in ErrorTypes /\ cur' = cur /\ pass' = pass /\ open /\ open'
  BY DEF LInv, IInv, TypeOK, Emit, Operation
<1>1. /\ t = Emitted(s, k, sequence)
      /\ \A n \in SectionNames : n # cur => sections'[n] = sections[n]
      /\ level' = Raise(level, EmitError(s, k))
  BY <1>0 DEF Emit
<1>2. \A n \in SectionNames : Grown(sections[n], sections'[n])
  <2>1. Grown(s, t)
    BY <1>0, <1>1, EmittedGrown
  <2>2. \A n \in SectionNames : n # cur => Grown(sections[n], sections'[n])
    BY <1>0, <1>1, SameGrown DEF Section
  <2> QED BY <2>1, <2>2
<1>3. Failing(level) \/ EmitError(s, k) = OutOfRange => Failing(level')
  <2>1. EmitError(s, k) \in ErrorTypes /\ OutOfRange \in ErrorTypes /\ Failing(OutOfRange)
    BY DEF EmitError, ErrorTypes, None, OutOfRange, Fatal, Failing, Inconsistent
  <2> QED BY <1>0, <1>1, <2>1, RaiseFails
<1>4. \A i \in DOMAIN listing : EntryKept(listing[i], sections', level', pass')
  BY <1>0, <1>2, <1>3, GrowthStep
<1> QED BY <1>0, <1>1, <1>3, <1>4

(* The first bytes of a line are the last of the span it leaves its section  *)
(* at the end of.                                                            *)
LEMMA StartStep ==
    ASSUME LInv, IInv', NEW kind \in Kinds, NEW k \in 1 .. MaxEmit, StartLine(kind, k)
    PROVE  LInv'
<1> DEFINE s == sections[cur]
           t == sections'[cur]
           last == CurrentSpan(t)
           wrote == [span |-> SpanOf(cur, t), from |-> last.size - k, count |-> k]
           d == [kind |-> kind, pc |-> s.pc, wrote |-> wrote]
<1>0. /\ cur \in SectionNames /\ s \in Section
      /\ SectionInv(s, sequence) /\ sequence \in Nat /\ k \in Nat \ {0}
      /\ s.pc \in Int /\ First \in SectionNames /\ AddrLimit \in Nat \ {0}
      /\ Emit(k) /\ doing' = d /\ listing' = listing
  <2>1. s \in Section /\ cur \in SectionNames
    BY DEF LInv, IInv, TypeOK
  <2>2. s.pc \in Int
    BY <2>1 DEF Section
  <2>3. First \in SectionNames /\ AddrLimit \in Nat \ {0} /\ k \in Nat \ {0}
    BY SectionConstants, SectionsConstants
  <2>4. SectionInv(s, sequence) /\ sequence \in Nat
    BY <2>1 DEF LInv, IInv, TypeOK
  <2>5. Emit(k) /\ doing' = d /\ listing' = listing
    BY DEF StartLine
  <2> QED BY <2>1, <2>2, <2>3, <2>4, <2>5
<1>1. /\ \A i \in DOMAIN listing : EntryKept(listing[i], sections', level', pass')
      /\ t = Emitted(s, k, sequence)
      /\ Failing(level) \/ EmitError(s, k) = OutOfRange => Failing(level')
      /\ cur' = cur /\ pass' = pass /\ open'
  BY <1>0, EmitKeeps
<1>2. /\ t.pc = s.pc + k /\ NextPc(last) = t.pc /\ NextPut(last) = t.put
      /\ last \in Span /\ Len(t.spans) \in Nat \ {0}
  BY <1>0, <1>1, EmittedEnd
<1>3. last.size \in Nat /\ t.spans # <<>>
  <2>1. t.spans # <<>>
    BY <1>2
  <2> HIDE DEF last
  <2> QED BY <1>2, <2>1 DEF Span
<1>4. SpanOf(cur, t) \in SpanRef
  BY <1>0, <1>2, <1>3 DEF SpanOf, SpanRef
<1>5. wrote \in Bytes
  <2> HIDE DEF last, t
  <2> QED BY <1>0, <1>3, <1>4 DEF Bytes
<1>6. d \in Doing
  <2> HIDE DEF wrote, s
  <2> QED BY <1>0, <1>5 DEF Doing, Kinds
<1>7. Failing(level') \/ s.pc \in 0 .. AddrLimit - 1
  BY <1>0, <1>1 DEF EmitError
<1>8. LineKept(d, t, cur, level')
  <2>1. last.size = (last.size - k) + k
    BY <1>0, <1>3
  <2> HIDE DEF last, t, s
  <2> QED BY <1>0, <1>2, <1>3, <1>7, <2>1 DEF LineKept, last
<1> HIDE DEF d
<1> QED BY <1>0, <1>1, <1>6, <1>8 DEF LInv

(* Further bytes of a line follow on from the first.                         *)
LEMMA GoOnStep ==
    ASSUME LInv, IInv', NEW k \in 1 .. MaxEmit, GoOn(k)
    PROVE  LInv'
<1> DEFINE s == sections[cur]
           t == sections'[cur]
           d == [doing EXCEPT !.wrote.count = @ + k]
<1>0. /\ cur \in SectionNames /\ s \in Section /\ t \in Section
      /\ SectionInv(s, sequence) /\ sequence \in Nat /\ k \in Nat \ {0}
      /\ AddrLimit \in Nat \ {0}
      /\ doing \in Doing /\ LineKept(doing, s, cur, level)
      /\ Emit(k) /\ doing' = d /\ listing' = listing
  BY SectionConstants, SectionsConstants
     DEF LInv, IInv, TypeOK, GoOn, Emit, Operation
<1>1. /\ \A i \in DOMAIN listing : EntryKept(listing[i], sections', level', pass')
      /\ t = Emitted(s, k, sequence)
      /\ Failing(level) => Failing(level')
      /\ cur' = cur /\ pass' = pass /\ open'
  BY <1>0, EmitKeeps
<1>2. /\ t.pc = s.pc + k /\ NextPc(CurrentSpan(t)) = t.pc /\ NextPut(CurrentSpan(t)) = t.put
      /\ Len(t.spans) \in Nat \ {0}
  BY <1>0, <1>1, EmittedEnd
<1>3. Len(t.spans) = Len(s.spans) /\ CurrentSpan(t).size = CurrentSpan(s).size + k
  <2>1. /\ s.spans # <<>> /\ s.pc = NextPc(CurrentSpan(s))
        /\ s.put = NextPut(CurrentSpan(s))
    BY <1>0 DEF LineKept
  <2>2. /\ Len(Emitted(s, k, sequence).spans) = Len(s.spans)
        /\ CurrentSpan(Emitted(s, k, sequence)).size = CurrentSpan(s).size + k
    <3> HIDE DEF s
    <3> QED BY <1>0, <2>1, EmittedOn
  <2> QED BY <1>1, <2>2
<1>4. t.spans # <<>> /\ SpanOf(cur, t) = SpanOf(cur, s)
  <2>1. t.spans # <<>>
    BY <1>2
  <2> QED BY <1>0, <1>3, <2>1 DEF SpanOf, LineKept
<1>5. doing.pc \in Int /\ doing.wrote \in Bytes
  BY <1>0 DEF Doing
<1>6. doing.wrote.from \in Int /\ doing.wrote.count \in Int /\ doing.wrote.span \in SpanRef
  BY <1>5 DEF Bytes
<1>7. /\ d \in Doing /\ d.kind = doing.kind /\ d.pc = doing.pc
      /\ d.wrote.span = doing.wrote.span /\ d.wrote.from = doing.wrote.from
      /\ d.wrote.count = doing.wrote.count + k
  <2> DEFINE w == [doing.wrote EXCEPT !.count = @ + k]
  <2>1. w \in Bytes /\ w.span = doing.wrote.span /\ w.from = doing.wrote.from
        /\ w.count = doing.wrote.count + k
    BY <1>0, <1>5, <1>6 DEF Bytes
  <2>2. d = [doing EXCEPT !.wrote = w]
    OBVIOUS
  <2> HIDE DEF w, d
  <2> QED BY <1>0, <2>1, <2>2 DEF Doing
<1> HIDE DEF d
<1>8. LineKept(d, t, cur, level')
  <2> DEFINE ls == CurrentSpan(s).size
             lt == CurrentSpan(t).size
  <2>1. /\ ls = doing.wrote.from + doing.wrote.count /\ s.pc = doing.pc + doing.wrote.count
        /\ doing.wrote.count > 0 /\ doing.kind \in Kinds
        /\ doing.wrote.span = SpanOf(cur, s)
        /\ Failing(level) \/ doing.pc \in 0 .. AddrLimit - 1
    BY <1>0 DEF LineKept
  <2>2. lt = ls + k
    BY <1>3
  <2> HIDE DEF ls, lt, s, t
  <2>3. lt = d.wrote.from + d.wrote.count /\ t.pc = d.pc + d.wrote.count /\ d.wrote.count > 0
    <3>1. k \in Nat /\ doing.pc \in Int /\ doing.wrote.from \in Int /\ doing.wrote.count \in Int
      BY <1>0, <1>5, <1>6
    <3>2. lt = doing.wrote.from + (doing.wrote.count + k)
      BY <2>1, <2>2, <3>1
    <3>3. t.pc = doing.pc + (doing.wrote.count + k)
      BY <1>2, <2>1, <3>1
    <3>4. doing.wrote.count + k > 0
      BY <2>1, <3>1
    <3> QED BY <1>7, <3>2, <3>3, <3>4
  <2>4. Failing(level') \/ d.pc \in 0 .. AddrLimit - 1
    BY <1>1, <1>7, <2>1
  <2> QED BY <1>2, <1>4, <1>7, <2>1, <2>3, <2>4 DEF LineKept, lt
<1> QED BY <1>0, <1>1, <1>7, <1>8 DEF LInv

(* A line that is done is listed with the bytes it emitted.                  *)
LEMMA EndStep ==
    ASSUME LInv, IInv', EndLine
    PROVE  LInv'
<1> DEFINE s == sections[cur]
           last == CurrentSpan(s)
           noted == IF doing.kind = "instr" THEN InstrSpan(cur, s) ELSE DataSpan(cur, s)
           e == Line(doing.kind, doing.pc, s.pc - doing.pc, noted, doing.wrote)
<1>0. /\ cur \in SectionNames /\ s \in Section
      /\ First \in SectionNames /\ AddrLimit \in Nat \ {0}
      /\ doing \in Doing /\ LineKept(doing, s, cur, level) /\ open
      /\ s.pass = pass
      /\ listing' = Append(listing, e) /\ doing' = NoLine /\ listing \in Seq(Entry)
      /\ sections' = sections /\ level' = level /\ pass' = pass
  BY SectionConstants, SectionsConstants
     DEF LInv, IInv, TypeOK, EndLine, PassesInOrder, vars
<1>1. /\ s.pc \in Int /\ s.put \in Nat /\ s.spans \in Seq(Span) /\ s.spans # <<>>
      /\ Len(s.spans) \in Nat \ {0} /\ last \in Span
  BY <1>0 DEF Section, LineKept, CurrentSpan
<1>2. last.org \in Int /\ last.put \in Nat /\ last.size \in Nat
  <2> HIDE DEF last
  <2> QED BY <1>1 DEF Span
<1>3. /\ doing.kind \in Kinds /\ doing.pc \in Int /\ doing.wrote \in Bytes
      /\ doing.wrote.from \in Int /\ doing.wrote.count \in Int
  BY <1>0 DEF Doing, Bytes, LineKept
<1>4. /\ doing.wrote.span = SpanOf(cur, s) /\ doing.wrote.count > 0
      /\ s.pc = last.org + last.size /\ s.put = last.put + last.size
      /\ last.size = doing.wrote.from + doing.wrote.count
      /\ s.pc = doing.pc + doing.wrote.count
      /\ Failing(level) \/ doing.pc \in 0 .. AddrLimit - 1
  BY <1>0 DEF LineKept, NextPc, NextPut
<1>5. SpanOf(cur, s) = [section |-> cur, number |-> Len(s.spans)]
  BY <1>1 DEF SpanOf
<1>6. noted = IF doing.kind = "data" /\ last.put # last.org THEN NoSpan ELSE SpanOf(cur, s)
  <2>1. s.pc = NextPut(last) <=> last.put = last.org
    <3> HIDE DEF last, s
    <3> QED BY <1>2, <1>4 DEF NextPut
  <2> HIDE DEF last, s
  <2> QED BY <1>1, <1>3, <2>1 DEF InstrSpan, DataSpan, Kinds, last
<1>7. noted \in SpanRef
  <2>1. SpanOf(cur, s) \in SpanRef /\ NoSpan \in SpanRef
    BY <1>0, <1>1, <1>5 DEF SpanRef, NoSpan
  <2> HIDE DEF noted, s
  <2> QED BY <1>6, <2>1
<1>8. s.pc - doing.pc = doing.wrote.count
  <2> HIDE DEF s
  <2> QED BY <1>1, <1>3, <1>4
<1>9. e \in Entry /\ e.kind = doing.kind /\ e.wrote = doing.wrote /\ e.span = noted
      /\ e.nbytes = doing.wrote.count /\ e.pc = doing.pc % AddrLimit
  <2>1. doing.pc % AddrLimit \in Int
    BY <1>0, <1>3
  <2> HIDE DEF noted, s
  <2> QED BY <1>3, <1>7, <1>8, <2>1 DEF Entry, Line
<1>10. Failing(level) \/ e.pc = last.org + e.wrote.from
  <2>1. doing.pc = last.org + doing.wrote.from
    <3> DEFINE from == doing.wrote.from
               count == doing.wrote.count
               org == last.org
               size == last.size
    <3>1. /\ from \in Int /\ count \in Int /\ org \in Int /\ size \in Nat
          /\ doing.pc \in Int /\ size = from + count
          /\ doing.pc + count = org + size
      BY <1>2, <1>3, <1>4
    <3> HIDE DEF from, count, org, size
    <3>2. doing.pc = org + from
      BY <3>1
    <3> QED BY <3>2 DEF org, from
  <2>2. doing.pc \in 0 .. AddrLimit - 1 => doing.pc % AddrLimit = doing.pc
    BY <1>0
  <2> HIDE DEF last, e
  <2> QED BY <1>4, <1>9, <2>1, <2>2
<1>11. EntryKept(e, sections, level, pass)
  <2>1. s.spans[Len(s.spans)] = last
    BY DEF CurrentSpan
  <2>2. doing.wrote.span.section = cur /\ doing.wrote.span.number = Len(s.spans)
    BY <1>4, <1>5
  <2>3. /\ sections[cur].pass = pass /\ Len(sections[cur].spans) \in Nat \ {0}
        /\ sections[cur].spans[Len(sections[cur].spans)] = last
        /\ e.wrote.span.section = cur /\ e.wrote.span.number = Len(sections[cur].spans)
        /\ e.wrote.span = SpanOf(cur, sections[cur])
    BY <1>0, <1>1, <1>4, <1>9, <2>1, <2>2
  <2> HIDE DEF e, last, noted
  <2>4. e.nbytes = e.wrote.count /\ e.nbytes > 0
    BY <1>4, <1>9
  <2>5. e.span = IF e.kind = "data" /\ last.put # last.org THEN NoSpan ELSE e.wrote.span
    BY <1>6, <1>9, <2>3
  <2> QED BY <1>10, <2>3, <2>4, <2>5 DEF EntryKept
<1>12. NoLine \in Doing
  BY SectionsConstants DEF Nothing, NoSpan, NoLine, Bytes, SpanRef, Doing
<1> HIDE DEF e
<1> QED BY <1>0, <1>9, <1>11, <1>12, AppendKept DEF LInv

(* A step that reserves: the line wrote nothing.                             *)
LEMMA ReserveStep ==
    ASSUME LInv, IInv', NEW c \in Counts, ReserveLine(c)
    PROVE  LInv'
<1> DEFINE t == sections'[cur]
           noted == DataSpan(cur, t)
           e == Line("data", sections[cur].pc, t.pc - sections[cur].pc, noted, Nothing)
<1>0. /\ sections \in [SectionNames -> Section] /\ cur \in SectionNames
      /\ sections[cur] \in Section /\ t \in Section /\ c \in Int
      /\ pass' = pass /\ level' = Raise(level, ReserveError(c))
      /\ level \in ErrorTypes
      /\ First \in SectionNames /\ AddrLimit \in Nat \ {0}
      /\ sections' = [sections EXCEPT ![cur] = Reserved(@, c)]
      /\ listing' = Append(listing, e) /\ listing \in Seq(Entry)
      /\ doing = NoLine /\ doing' = doing /\ doing \in Doing
  BY SectionConstants, SectionsConstants
     DEF LInv, IInv, TypeOK, ReserveLine, Rmb, Operation
<1>1. t.spans = sections[cur].spans /\ t.pass = sections[cur].pass
  BY <1>0, ReservedSection
<1>2. \A n \in SectionNames : Grown(sections[n], sections'[n])
  <2>1. \A n \in SectionNames : sections[n].spans \in Seq(Span)
    BY <1>0 DEF Section
  <2>2. \A n \in SectionNames : n # cur => sections'[n] = sections[n]
    BY <1>0
  <2>3. Grown(sections[cur], t)
    <3> HIDE DEF t
    <3> QED BY <1>0, <1>1, <2>1 DEF Grown
  <2> QED BY <2>1, <2>2, <2>3, SameGrown
<1>3. Failing(level) => Failing(level')
  <2>1. ReserveError(c) \in ErrorTypes
    BY DEF ReserveError, ErrorTypes, None, OutOfRange, Fatal
  <2> QED BY <1>0, <2>1, RaiseFails
<1>4. \A i \in DOMAIN listing : EntryKept(listing[i], sections', level', pass')
  BY <1>0, <1>2, <1>3, GrowthStep
<1>5. e \in Entry /\ e.wrote = Nothing
  <2>1. Len(t.spans) \in Nat /\ sections[cur].pc \in Int /\ t.pc \in Int
    BY <1>0 DEF Section
  <2>2. NoSpan \in SpanRef /\ noted \in SpanRef
    BY <1>0, <2>1 DEF SpanRef, NoSpan, DataSpan, SpanOf
  <2>3. Nothing \in Bytes
    BY <2>2 DEF Nothing, Bytes
  <2>4. sections[cur].pc % AddrLimit \in Int /\ t.pc - sections[cur].pc \in Int
    BY <1>0, <2>1
  <2> HIDE DEF noted, t
  <2> QED BY <2>2, <2>3, <2>4 DEF Entry, Line, Kinds
<1>6. EntryKept(e, sections', level', pass')
  BY <1>5 DEF EntryKept
<1> HIDE DEF e
<1> QED BY <1>0, <1>4, <1>5, <1>6, AppendKept DEF LInv

(* Other steps of a pass leave the listing and every section's spans.        *)
LEMMA OtherGrown ==
    ASSUME LInv, OtherStep
    PROVE  /\ \A n \in SectionNames : sections[n].pass = pass => Grown(sections[n], sections'[n])
           /\ Failing(level) => Failing(level')
           /\ pass' = pass
<1>0. /\ sections \in [SectionNames -> Section] /\ cur \in SectionNames
      /\ \A n \in SectionNames : sections[n] \in Section
      /\ level \in ErrorTypes
      /\ Inconsistent \in ErrorTypes /\ OutOfRange \in ErrorTypes /\ None \in ErrorTypes
  BY DEF LInv, IInv, TypeOK, ErrorTypes, None, Inconsistent, OutOfRange, Fatal
<1>1. \A n \in SectionNames : Grown(sections[n], sections[n])
  BY <1>0, SameGrown DEF Section
<1>2. ASSUME NEW n \in SectionNames, SetSection(n)
      PROVE  /\ \A m \in SectionNames : sections[m].pass = pass => sections'[m] = sections[m]
             /\ level' = level /\ pass' = pass
  <2>1. sections' = [sections EXCEPT ![n] =
                        Selected(@, pass, StartAfter(sections[cur], pass))]
        /\ level' = level /\ pass' = pass
    BY <1>2 DEF SetSection, Select, Operation
  <2> QED BY <1>0, <2>1 DEF Selected
<1>3. ASSUME NEW t, sections' = [sections EXCEPT ![cur] = t],
             t.spans = sections[cur].spans, t.pass = sections[cur].pass
      PROVE  \A n \in SectionNames : Grown(sections[n], sections'[n])
  <2>1. sections'[cur] = t /\ \A n \in SectionNames : n # cur => sections'[n] = sections[n]
    BY <1>0, <1>3
  <2>2. Grown(sections[cur], t)
    BY <1>0, <1>1, <1>3 DEF Grown
  <2> QED BY <1>1, <2>1, <2>2
<1>4. ASSUME NEW a \in Addresses, Org(a)
      PROVE  /\ \A n \in SectionNames : Grown(sections[n], sections'[n])
             /\ level' = level /\ pass' = pass
  <2>1. a \in Int
    BY SectionsConstants
  <2>2. /\ sections' = [sections EXCEPT ![cur] = Orged(sections[cur], a)]
        /\ level' = level /\ pass' = pass
    BY <1>4 DEF Org, Operation
  <2>3. Orged(sections[cur], a).spans = sections[cur].spans
        /\ Orged(sections[cur], a).pass = sections[cur].pass
    BY <1>0, <2>1 DEF Orged, Section
  <2> QED BY <1>3, <2>2, <2>3
<1>5. ASSUME NEW a \in Addresses, Put(a)
      PROVE  /\ \A n \in SectionNames : Grown(sections[n], sections'[n])
             /\ Failing(level) => Failing(level')
             /\ pass' = pass
  <2>1. /\ sections' = [sections EXCEPT ![cur] = PutAt(sections[cur], a)]
        /\ level' = Raise(level, PutError(a)) /\ pass' = pass
    BY <1>5 DEF Put, Operation
  <2>2. PutAt(sections[cur], a).spans = sections[cur].spans
        /\ PutAt(sections[cur], a).pass = sections[cur].pass
    BY <1>0 DEF PutAt, Section
  <2>3. PutError(a) \in ErrorTypes
    BY <1>0 DEF PutError
  <2>4. Failing(level) => Failing(level')
    BY <1>0, <2>1, <2>3, RaiseFails
  <2> QED BY <1>3, <2>1, <2>2, <2>4
<1>6. CASE FinishPass
  <2>1. /\ sections' = [n \in SectionNames |-> Verified(sections[n])]
        /\ level' = Raise(level, FinishError(sections)) /\ pass' = pass
    BY <1>6 DEF FinishPass, FinishedSections
  <2>2. \A n \in SectionNames : sections'[n].spans = sections[n].spans
                                /\ sections'[n].pass = sections[n].pass
    BY <1>0, <2>1, VerifiedSection
  <2>3. FinishError(sections) \in ErrorTypes
    BY <1>0 DEF FinishError
  <2>4. Failing(level) => Failing(level')
    BY <1>0, <2>1, <2>3, RaiseFails
  <2>5. \A n \in SectionNames : Grown(sections[n], sections'[n])
    BY <1>1, <2>2 DEF Grown
  <2> QED BY <2>1, <2>4, <2>5
<1> QED BY <1>1, <1>2, <1>4, <1>5, <1>6 DEF OtherStep

(* Every step of the listing's specification is one of the sections'.        *)
LEMMA ListStep == [ListNext]_listVars => [Next]_vars
<1> SUFFICES ASSUME [ListNext]_listVars PROVE [Next]_vars
  OBVIOUS
<1>1. CASE UNCHANGED vars
  BY <1>1
<1>2. CASE \E k \in 1 .. MaxEmit : Emit(k)
  BY <1>2 DEF Next
<1> QED BY <1>1, <1>2 DEF ListNext, listVars, ListBegin, StartLine, GoOn, EndLine,
                          ReserveLine, OtherStep, Next

(* Every step keeps the listing true.                                        *)
LEMMA ListNextLInv == LInv /\ [ListNext]_listVars => LInv'
<1> SUFFICES ASSUME LInv, [ListNext]_listVars PROVE LInv'
  OBVIOUS
<1>0. IInv'
  BY ListStep, NextIInv DEF LInv
<1>1. CASE ListBegin
  <2>1. ~open /\ listing' = <<>> /\ doing' = doing
    BY <1>1 DEF ListBegin, BeginPass
  <2>2. doing = NoLine /\ doing' \in Doing
    BY <2>1 DEF LInv
  <2> QED BY <1>0, <2>1, <2>2 DEF LInv
<1>2. ASSUME NEW k \in 1 .. MaxEmit, StartLine("instr", k) \/ StartLine("data", k) PROVE LInv'
  <2>1. "instr" \in Kinds /\ "data" \in Kinds
    BY DEF Kinds
  <2> QED BY <1>0, <1>2, <2>1, StartStep
<1>3. ASSUME NEW k \in 1 .. MaxEmit, GoOn(k) PROVE LInv'
  BY <1>0, <1>3, GoOnStep
<1>4. CASE EndLine
  BY <1>0, <1>4, EndStep
<1>5. ASSUME NEW c \in Counts, ReserveLine(c) PROVE LInv'
  BY <1>0, <1>5, ReserveStep
<1>6. CASE OtherStep
  <2>1. \A i \in DOMAIN listing : EntryKept(listing[i], sections', level', pass')
    BY <1>0, <1>6, OtherGrown, GrowthStep
  <2>2. listing' = listing /\ doing = NoLine /\ doing' = doing
    BY <1>6 DEF OtherStep
  <2> QED BY <1>0, <2>1, <2>2 DEF LInv
<1>7. CASE UNCHANGED listVars
  <2>1. /\ listing' = listing /\ doing' = doing /\ sections' = sections /\ cur' = cur
        /\ level' = level /\ pass' = pass /\ open' = open
    BY <1>7 DEF listVars, vars
  <2> QED BY <1>0, <2>1 DEF LInv
<1> QED BY <1>1, <1>2, <1>3, <1>4, <1>5, <1>6, <1>7 DEF ListNext

(* A true listing is printed with each line's own code.                      *)
LEMMA LInvShows == LInv => ListingShowsCode
<1> SUFFICES ASSUME LInv, Printed, NEW i \in DOMAIN listing, listing[i].wrote # Nothing
             PROVE  Shown(listing[i]) =
                        IF listing[i].kind = "data" /\ Displaced(listing[i].wrote.span)
                        THEN Nothing ELSE listing[i].wrote
  BY DEF ListingShowsCode
<1> DEFINE e == listing[i]
           w == e.wrote.span
           span == Pointed(w)
<1>1. e \in Entry /\ ~Failing(level) /\ EntryKept(e, sections, level, pass)
  BY DEF LInv, Printed
<1>2. /\ e.span = IF e.kind = "data" /\ Displaced(w) THEN NoSpan ELSE w
      /\ e.nbytes = e.wrote.count /\ e.nbytes > 0
      /\ e.pc = span.org + e.wrote.from
      /\ w.number \in 1 .. Len(sections[w.section].spans)
  BY <1>1 DEF EntryKept, Pointed, Displaced
<1>3. ~(e.nbytes <= 0)
  <2>1. e.nbytes \in Int
    BY <1>1 DEF Entry
  <2> HIDE DEF e
  <2> QED BY <1>2, <2>1
<1>4. w # NoSpan
  <2>1. w.number # 0
    BY <1>2
  <2> QED BY <2>1 DEF NoSpan
<1>5. CASE e.kind = "data" /\ Displaced(w)
  BY <1>2, <1>5 DEF Shown
<1>6. CASE ~(e.kind = "data" /\ Displaced(w))
  <2>1. e.wrote = [span |-> w, from |-> e.wrote.from, count |-> e.wrote.count]
    BY <1>1 DEF Entry, Bytes
  <2>2. e.wrote.from \in Int /\ span.org \in Int
    <3>1. e.wrote.from \in Int /\ w.section \in SectionNames
      BY <1>1 DEF Entry, Bytes, SpanRef
    <3>2. sections[w.section] \in Section
      BY <3>1 DEF LInv, IInv, TypeOK
    <3>3. span \in Span
      BY <1>2, <3>2 DEF Pointed, Section
    <3> HIDE DEF span
    <3> QED BY <3>1, <3>3 DEF Span
  <2>3. e.pc - span.org = e.wrote.from
    <3> HIDE DEF span, e
    <3> QED BY <1>2, <2>2
  <2>4. e.span = w
    BY <1>2, <1>6
  <2>5. Shown(e) = [span |-> w, from |-> e.pc - span.org, count |-> e.nbytes]
    <3> HIDE DEF e
    <3> QED BY <1>3, <1>4, <2>4 DEF Shown
  <2> QED BY <1>2, <1>6, <2>1, <2>3, <2>5
<1> QED BY <1>5, <1>6

-----------------------------------------------------------------------------
(* The invariants of the section store hold of a listed assembly too.        *)
THEOREM ListingRefines == ListSpec => Spec
BY ListStep, PTL DEF ListSpec, ListInit, Spec

(* A line is listed with the code it assembled, all of it and none but its   *)
(* own, for every sequence of lines, except that data PUT has displaced is   *)
(* listed with none.                                                         *)
THEOREM ListingCorrect == ListSpec => []ListingShowsCode
<1>1. ListInit => LInv
  BY ListInitLInv
<1>2. LInv /\ [ListNext]_listVars => LInv'
  BY ListNextLInv
<1> QED BY <1>1, <1>2, LInvShows, PTL DEF ListSpec

=============================================================================
