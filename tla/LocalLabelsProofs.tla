------------------------- MODULE LocalLabelsProofs --------------------------
(* Proofs, for any program, section names and number of passes, that 1B and  *)
(* 1F are given the nearest label, and that a refusal has a reason.  They    *)
(* rest on every pass meeting the lines at the places of the first.          *)
EXTENDS LocalLabels, TLAPS, WellFoundedInduction

Places == [cur : SectionNames, saved : Seq(SectionNames), numbers : [SectionNames -> Nat]]

(* The place a pass begins at, and the one after a line met at P.            *)
Start == [cur |-> First, saved |-> <<>>, numbers |-> [n \in SectionNames |-> 0]]
After(l, P) ==
    [cur     |-> CASE l.op = "section" -> l.section
                   [] l.op = "end"     -> P.saved[Len(P.saved)]
                   [] OTHER            -> P.cur,
     saved   |-> CASE l.op = "include" -> Append(P.saved, P.cur)
                   [] l.op = "end"     -> SubSeq(P.saved, 1, Len(P.saved) - 1)
                   [] OTHER            -> P.saved,
     numbers |-> IF l.op = "end" THEN P.numbers ELSE [P.numbers EXCEPT ![P.cur] = @ + 1]]

(* The places "t" of the lines of p, in order; numbers grow along them.      *)
Chained(p, t) ==
    /\ t \in Seq(Places)
    /\ Len(t) \in 1 .. Len(p) + 1
    /\ t[1] = Start
    /\ \A i \in 1 .. Len(t) - 1 : t[i + 1] = After(p[i], t[i])
Rising(t) ==
    \A i, j \in DOMAIN t :
        i <= j => \A n \in SectionNames : t[i].numbers[n] <= t[j].numbers[n]

(* The section and number line i has once it has been carried out.           *)
SecAt(t, i) == t[i + 1].cur
NumAt(t, i) == t[i + 1].numbers[t[i + 1].cur]

Labelled(p, i) == p[i].op \in {"code", "section"} /\ p[i].label # NoLabel
LabelAt(p, t, d) ==
    /\ Labelled(p, d.at) /\ d.key = p[d.at].label
    /\ d.section = SecAt(t, d.at) /\ d.number = NumAt(t, d.at)

Defs == [section : SectionNames, key : Labels, at : Nat, number : Nat, value : Int]

(* "ds" is the labels of the lines below n, in order.                        *)
LabelsOf(p, t, ds, n) ==
    /\ ds \in Seq(Defs)
    /\ \A j \in DOMAIN ds : ds[j].at \in 1 .. n - 1 /\ LabelAt(p, t, ds[j])
    /\ \A i, j \in DOMAIN ds : i < j => ds[i].at < ds[j].at
    /\ \A i \in 1 .. n - 1 : Labelled(p, i) => \E j \in DOMAIN ds : ds[j].at = i

SameSlot(d, e) == d.section = e.section /\ d.key = e.key /\ d.number = e.number

(* The tables hold the labels "ds" of the pass and those "bs" of the one     *)
(* before, the latest of a number.                                           *)
Held(locs, d) == locs[d.section][d.key][d.number]
TableOf(locs, ds, bs) ==
    /\ \A s \in SectionNames, k \in Labels : \A i \in DOMAIN locs[s][k] :
           \E d \in Range(ds) \cup Range(bs) :
               d.section = s /\ d.key = k /\ d.number = i /\ d.value = locs[s][k][i]
    /\ \A d \in Range(ds) \cup Range(bs) : d.number \in DOMAIN locs[d.section][d.key]
    /\ \A j \in DOMAIN ds :
           (\A i \in DOMAIN ds : i > j => ~SameSlot(ds[i], ds[j])) => Held(locs, ds[j]) = ds[j].value

(* Labels of one name and number had two values.                             *)
Disagree(ds, bs) ==
    \E d \in Range(ds), e \in Range(ds) \cup Range(bs) : SameSlot(d, e) /\ d.value # e.value

UseAt(t, u, n) ==
    /\ u.at \in 1 .. n - 1 /\ u.key \in Labels
    /\ u.section = SecAt(t, u.at) /\ u.number = NumAt(t, u.at)

Sects == [spans : {<<>>}, pass : Int, pc : Int, put : Int, dp : Int,
          last_pc : Int, last_put : Int]

Types ==
    /\ prog \in Programs
    /\ line \in Nat
    /\ pass \in Int /\ NoPass <= pass
    /\ phase \in {"between", "assembling", "done", "failed"}
    /\ sections \in [SectionNames -> Sects]
    /\ \A n \in SectionNames : sections[n].pass <= pass
    /\ numbers \in [SectionNames -> Nat]
    /\ DOMAIN locals = SectionNames
    /\ \A n \in SectionNames : DOMAIN locals[n] = Labels
    /\ cur \in SectionNames
    /\ saved \in Seq(SectionNames)
    /\ level \in {None, Inconsistent}

Unbegun ==
    /\ phase = "between" /\ line = 0 /\ level = None
    /\ trail = <<>> /\ defs = <<>> /\ before = <<>> /\ uses = {}
    /\ \A n \in SectionNames, k \in Labels : locals[n][k] = <<>>

(* The pass goes the way of the first.                                       *)
OnTrail ==
    /\ line \in 1 .. Len(prog) + 1
    /\ Len(trail) = IF pass = 0 THEN line ELSE Len(prog) + 1
    /\ phase # "assembling" => line = Len(prog) + 1
    /\ phase = "assembling" =>
           /\ Place = trail[line]
           /\ sections[cur].pass = pass
           /\ \A i \in DOMAIN saved : sections[saved[i]].pass = pass

Tables ==
    /\ LabelsOf(prog, trail, defs, line)
    /\ IF pass = 0 THEN before = <<>> ELSE LabelsOf(prog, trail, before, Len(prog) + 1)
    /\ TableOf(locals, defs, before)
    /\ \A u \in uses : UseAt(trail, u, line)

(* As long as nothing was reported, forward references have what the tables  *)
(* say, and the tables what was set.                                         *)
Steady ==
    level = None =>
        /\ \A u \in uses : u.value # NoValue
        /\ \A u \in uses : u.dir = "F" =>
               pass # 0 /\ u.value = Fwd(locals[u.section][u.key], u.number)
        /\ \A j \in DOMAIN defs : Held(locals, defs[j]) = defs[j].value

Caused ==
    level # None =>
        \/ phase # "assembling" /\ resized
        \/ \E u \in uses : u.value = NoValue
        \/ Disagree(defs, before)

Begun ==
    /\ Chained(prog, trail)
    /\ Rising(trail)
    /\ OnTrail
    /\ Tables
    /\ BackrefNearest
    /\ Steady
    /\ Caused

Inv ==
    /\ Types
    /\ IF pass = NoPass THEN Unbegun ELSE Begun
    /\ phase = "done" => level = None
    /\ phase = "failed" => level # None

-----------------------------------------------------------------------------
(* A set of numbers has a least one, and if it has a bound ...               *)
LEMMA Least ==
    ASSUME NEW S, S \subseteq Nat, S # {}
    PROVE  \E x \in S : \A y \in S : x <= y
<1>1. PICK x \in S : \A y \in S : ~(<<y, x>> \in OpToRel(<, Nat))
  BY NatLessThanWellFounded, WFMin
<1>2. \A y \in S : ~(y < x)
  BY <1>1 DEF OpToRel
<1> QED BY <1>2

(* ... a greatest one.                                                       *)
LEMMA Greatest ==
    ASSUME NEW S, S \subseteq Nat, NEW n \in Nat, \A x \in S : x <= n, S # {}
    PROVE  \E x \in S : \A y \in S : y <= x
<1> DEFINE T == {n - x : x \in S}
<1>1. T \subseteq Nat /\ T # {}
  <2>1. \A x \in S : x \in Nat /\ x <= n /\ n - x \in Nat
    OBVIOUS
  <2> QED BY <2>1
<1>2. PICK t \in T : \A y \in T : t <= y
  <2> HIDE DEF T
  <2> QED BY <1>1, Least
<1>3. PICK x \in S : t = n - x
  OBVIOUS
<1>4. ASSUME NEW y \in S PROVE y <= x
  <2>1. n - y \in T
    OBVIOUS
  <2>2. n - x <= n - y
    BY <1>2, <1>3, <2>1
  <2> QED BY <2>2
<1> QED BY <1>4

(* Min chooses the least, ...                                                *)
LEMMA MinIs ==
    ASSUME NEW S, S \subseteq Nat, S # {}
    PROVE  Min(S) \in S /\ \A y \in S : Min(S) <= y
<1>1. \E x \in S : \A y \in S : x <= y
  BY Least
<1>2. Min(S) = CHOOSE x \in S : \A y \in S : x =< y
  BY DEF Min
<1> QED BY <1>1, <1>2

(* ... Max the greatest.                                                     *)
LEMMA MaxIs ==
    ASSUME NEW S, S \subseteq Nat, NEW n \in Nat, \A x \in S : x <= n, S # {}
    PROVE  Max(S) \in S /\ \A y \in S : y <= Max(S)
<1>1. \E x \in S : \A y \in S : x >= y
  BY Greatest
<1>2. Max(S) = CHOOSE x \in S : \A y \in S : x >= y
  BY DEF Max
<1>3. Max(S) \in S /\ \A y \in S : Max(S) >= y
  BY <1>1, <1>2
<1>4. ASSUME NEW y \in S PROVE y <= Max(S)
  BY <1>3
<1> QED BY <1>3, <1>4

(* The two levels that occur.                                                *)
LEMMA Raised ==
    ASSUME NEW l \in {None, Inconsistent}, NEW e \in {None, Inconsistent}
    PROVE  /\ Raise(l, e) \in {None, Inconsistent}
           /\ Raise(l, e) = None <=> l = None /\ e = None
BY DEF Raise, None, Inconsistent, OutOfRange

-----------------------------------------------------------------------------
(* Programs are sequences.                                                   *)
LEMMA ProgramSeq ==
    ASSUME NEW p \in Programs
    PROVE  Len(p) \in Nat /\ DOMAIN p = 1 .. Len(p)
<1> DEFINE Lines == [op : {"code", "section", "include", "end"},
                     label : Labels \cup {NoLabel}, ref : Labels \cup {NoLabel},
                     dir : {"none", "B", "F"}, section : SectionNames \cup {"none"}]
<1>1. p \in Seq(Lines)
  BY LocalConstants
<1> HIDE DEF Lines
<1> QED BY <1>1

(* What a line of a program can be.                                          *)
LEMMA ProgramLine ==
    ASSUME NEW p \in Programs, NEW i \in 1 .. Len(p)
    PROVE  /\ p[i].op \in {"code", "section", "include", "end"}
           /\ p[i].label \in Labels \cup {NoLabel}
           /\ p[i].ref \in Labels \cup {NoLabel}
           /\ p[i].op = "section" => p[i].section \in SectionNames
           /\ Len(p) \in Nat /\ DOMAIN p = 1 .. Len(p)
<1> DEFINE Lines == [op : {"code", "section", "include", "end"},
                     label : Labels \cup {NoLabel}, ref : Labels \cup {NoLabel},
                     dir : {"none", "B", "F"}, section : SectionNames \cup {"none"}]
<1>1. p \in Seq(Lines) /\ \A j \in DOMAIN p : p[j].op = "section" => p[j].section \in SectionNames
  BY LocalConstants
<1>2. p[i] \in Lines /\ Len(p) \in Nat /\ DOMAIN p = 1 .. Len(p)
  <2> HIDE DEF Lines
  <2> QED BY <1>1
<1> QED BY <1>1, <1>2

(* The place after a line is one, and its numbers are no less.               *)
LEMMA AfterIs ==
    ASSUME NEW p \in Programs, NEW i \in 1 .. Len(p), NEW P \in Places,
           p[i].op = "end" => P.saved # <<>>
    PROVE  /\ After(p[i], P) \in Places
           /\ \A n \in SectionNames : P.numbers[n] <= After(p[i], P).numbers[n]
<1> DEFINE l == p[i]
           Q == After(l, P)
<1>1. /\ l.op \in {"code", "section", "include", "end"}
      /\ l.op = "section" => l.section \in SectionNames
  BY ProgramLine
<1>2. P.cur \in SectionNames /\ P.saved \in Seq(SectionNames) /\ P.numbers \in [SectionNames -> Nat]
  BY DEF Places
<1> HIDE DEF l
<1>3. Q.cur \in SectionNames
  <2>1. l.op = "end" => P.saved[Len(P.saved)] \in SectionNames
    BY <1>2 DEF l
  <2> QED BY <1>1, <1>2, <2>1 DEF After
<1>4. Q.saved \in Seq(SectionNames)
  <2>1. l.op = "end" => SubSeq(P.saved, 1, Len(P.saved) - 1) \in Seq(SectionNames)
    BY <1>2 DEF l
  <2>2. Append(P.saved, P.cur) \in Seq(SectionNames)
    BY <1>2
  <2> QED BY <1>1, <1>2, <2>1, <2>2 DEF After
<1>5. /\ Q.numbers \in [SectionNames -> Nat]
      /\ \A n \in SectionNames : P.numbers[n] <= Q.numbers[n]
  <2>1. P.numbers[P.cur] + 1 \in Nat
    BY <1>2
  <2>2. Q.numbers = IF l.op = "end" THEN P.numbers
                    ELSE [P.numbers EXCEPT ![P.cur] = P.numbers[P.cur] + 1]
    BY DEF After
  <2> QED BY <1>2, <2>1, <2>2
<1>6. Q = [cur |-> Q.cur, saved |-> Q.saved, numbers |-> Q.numbers]
  BY DEF After
<1> HIDE DEF Q
<1>7. Q \in Places
  BY <1>3, <1>4, <1>5, <1>6 DEF Places
<1> QED BY <1>5, <1>7 DEF Q, l

(* A trail goes on with the place after its last line.                       *)
LEMMA TrailGrows ==
    ASSUME NEW p, NEW t, NEW Q \in Places, Len(p) \in Nat,
           Chained(p, t), Rising(t), Len(t) <= Len(p),
           Q = After(p[Len(t)], t[Len(t)]),
           \A n \in SectionNames : t[Len(t)].numbers[n] <= Q.numbers[n]
    PROVE  Chained(p, Append(t, Q)) /\ Rising(Append(t, Q))
<1> DEFINE u == Append(t, Q)
           m == Len(t)
<1>1. t \in Seq(Places) /\ m \in Nat /\ 1 <= m
  BY DEF Chained
<1>2. /\ u \in Seq(Places) /\ Len(u) = m + 1 /\ u[m + 1] = Q
      /\ \A i \in 1 .. m : u[i] = t[i]
  BY <1>1
<1>3. t[1] = Start /\ \A i \in 1 .. m - 1 : t[i + 1] = After(p[i], t[i])
  BY DEF Chained
<1> HIDE DEF u, m
<1>4. Chained(p, u)
  <2>1. u[1] = Start
    BY <1>1, <1>2, <1>3
  <2>2. ASSUME NEW i \in 1 .. m PROVE u[i + 1] = After(p[i], u[i])
    <3>1. CASE i = m
      BY <1>1, <1>2, <3>1 DEF m
    <3>2. CASE i # m
      <4>1. i \in 1 .. m - 1 /\ i + 1 \in 1 .. m
        BY <1>1, <3>2
      <4> QED BY <1>2, <1>3, <4>1
    <3> QED BY <3>1, <3>2
  <2>3. Len(u) \in 1 .. Len(p) + 1
    BY <1>1, <1>2 DEF m
  <2> QED BY <1>1, <1>2, <2>1, <2>2, <2>3 DEF Chained
<1>5. Rising(u)
  <2> SUFFICES ASSUME NEW i \in DOMAIN u, NEW j \in DOMAIN u, i <= j, NEW n \in SectionNames
               PROVE  u[i].numbers[n] <= u[j].numbers[n]
    BY DEF Rising
  <2>1. DOMAIN u = 1 .. m + 1 /\ DOMAIN t = 1 .. m
    BY <1>1, <1>2 DEF m
  <2>2. CASE j <= m
    <3>1. i \in 1 .. m /\ j \in 1 .. m
      BY <1>1, <2>1, <2>2
    <3> QED BY <1>2, <2>1, <3>1 DEF Rising
  <2>3. CASE i <= m /\ j = m + 1
    <3>1. i \in 1 .. m /\ m \in 1 .. m
      BY <1>1, <2>1, <2>3
    <3>2. t[i].numbers[n] <= t[m].numbers[n]
      BY <1>1, <2>1, <3>1 DEF Rising
    <3>3. t[i].numbers[n] \in Nat /\ t[m].numbers[n] \in Nat /\ Q.numbers[n] \in Nat
      <4>1. t[i] \in Places /\ t[m] \in Places
        BY <1>1, <2>1, <3>1
      <4> QED BY <4>1 DEF Places
    <3>4. t[m].numbers[n] <= Q.numbers[n]
      BY DEF m
    <3> QED BY <1>2, <2>3, <3>1, <3>2, <3>3, <3>4
  <2>4. CASE i = m + 1 /\ j = m + 1
    <3>1. Q.numbers[n] \in Nat
      BY DEF Places
    <3> QED BY <1>2, <2>4, <3>1
  <2> QED BY <1>1, <2>1, <2>2, <2>3, <2>4
<1> QED BY <1>4, <1>5 DEF u

-----------------------------------------------------------------------------
(* The trail "u" has the places of "t".                                      *)
Extends(u, t) == Len(t) <= Len(u) /\ \A i \in 1 .. Len(t) : u[i] = t[i]

(* What is known of a trail's places.                                        *)
LEMMA OnPlaces ==
    ASSUME NEW p, NEW t, Chained(p, t)
    PROVE  /\ Len(t) \in Nat /\ DOMAIN t = 1 .. Len(t)
           /\ \A i \in 1 .. Len(t) :
                  /\ t[i].cur \in SectionNames
                  /\ \A n \in SectionNames : t[i].numbers[n] \in Nat
<1>1. t \in Seq(Places)
  BY DEF Chained
<1>2. \A i \in 1 .. Len(t) : t[i] \in Places
  BY <1>1
<1> QED BY <1>1, <1>2 DEF Places

(* The labels of the lines carried out stay that as the trail goes on, ...   *)
LEMMA LabelsExtend ==
    ASSUME NEW p, NEW t, NEW u, NEW ds, NEW n \in Nat, Len(t) \in Nat, n <= Len(t),
           LabelsOf(p, t, ds, n), Extends(u, t)
    PROVE  LabelsOf(p, u, ds, n)
<1>1. ASSUME NEW j \in DOMAIN ds
      PROVE  ds[j].at \in 1 .. n - 1 /\ LabelAt(p, u, ds[j])
  <2>1. ds[j].at \in 1 .. n - 1 /\ LabelAt(p, t, ds[j])
    BY DEF LabelsOf
  <2>2. ds[j].at + 1 \in 1 .. Len(t)
    BY <2>1
  <2>3. u[ds[j].at + 1] = t[ds[j].at + 1]
    BY <2>2 DEF Extends
  <2> QED BY <2>1, <2>3 DEF LabelAt, SecAt, NumAt
<1> QED BY <1>1 DEF LabelsOf

(* ... also past a line without one, ...                                     *)
LEMMA LabelsPass ==
    ASSUME NEW p, NEW t, NEW ds, NEW n \in Nat, LabelsOf(p, t, ds, n), ~Labelled(p, n)
    PROVE  LabelsOf(p, t, ds, n + 1)
<1>1. \A i \in 1 .. n : i = n \/ i \in 1 .. n - 1
  OBVIOUS
<1>2. \A i \in 1 .. n - 1 : i \in 1 .. (n + 1) - 1
  OBVIOUS
<1>3. (n + 1) - 1 = n
  OBVIOUS
<1> QED BY <1>1, <1>2, <1>3 DEF LabelsOf

(* ... and with the one a line has.                                          *)
LEMMA LabelsAppend ==
    ASSUME NEW p, NEW t, NEW ds, NEW n \in Nat \ {0}, NEW d \in Defs,
           LabelsOf(p, t, ds, n), d.at = n, LabelAt(p, t, d)
    PROVE  LabelsOf(p, t, Append(ds, d), n + 1)
<1> DEFINE es == Append(ds, d)
           m == Len(ds)
<1>1. ds \in Seq(Defs) /\ m \in Nat /\ DOMAIN ds = 1 .. m
  BY DEF LabelsOf
<1>2. /\ es \in Seq(Defs) /\ DOMAIN es = 1 .. m + 1 /\ es[m + 1] = d
      /\ \A j \in 1 .. m : es[j] = ds[j]
  BY <1>1
<1> HIDE DEF es, m
<1>3. \A j \in 1 .. m : ds[j].at \in 1 .. n - 1 /\ LabelAt(p, t, ds[j])
  BY <1>1 DEF LabelsOf
<1>4. (n + 1) - 1 = n /\ n \in 1 .. n /\ \A i \in 1 .. n - 1 : i \in 1 .. n /\ i < n
  OBVIOUS
<1>5. \A j \in 1 .. m + 1 : j = m + 1 \/ j \in 1 .. m
  BY <1>1
<1>6. ASSUME NEW j \in DOMAIN es PROVE es[j].at \in 1 .. n /\ LabelAt(p, t, es[j])
  BY <1>2, <1>3, <1>4, <1>5
<1>7. ASSUME NEW i \in DOMAIN es, NEW j \in DOMAIN es, i < j PROVE es[i].at < es[j].at
  <2>1. i \in 1 .. m
    BY <1>1, <1>2, <1>7
  <2>2. CASE j = m + 1
    BY <1>2, <1>3, <1>4, <2>1, <2>2
  <2>3. CASE j \in 1 .. m
    <3>1. ds[i].at < ds[j].at
      BY <1>1, <1>7, <2>1, <2>3 DEF LabelsOf
    <3> QED BY <1>2, <2>1, <2>3, <3>1
  <2> QED BY <1>2, <1>5, <2>2, <2>3
<1>8. ASSUME NEW i \in 1 .. n, Labelled(p, i) PROVE \E j \in DOMAIN es : es[j].at = i
  <2>1. CASE i = n
    BY <1>1, <1>2, <2>1
  <2>2. CASE i # n
    <3>1. i \in 1 .. n - 1
      BY <2>2
    <3>2. PICK j \in 1 .. m : ds[j].at = i
      BY <1>1, <1>8, <3>1 DEF LabelsOf
    <3>3. j \in 1 .. m + 1
      BY <1>1
    <3> QED BY <1>2, <3>2, <3>3
  <2> QED BY <2>1, <2>2
<1>9. LabelsOf(p, t, es, n + 1)
  BY <1>2, <1>4, <1>6, <1>7, <1>8 DEF LabelsOf
<1> QED BY <1>9 DEF es

(* A label's number is that of its section, and grows along the lines.       *)
LEMMA LabelNumbers ==
    ASSUME NEW p, NEW t, NEW ds, NEW n \in Nat \ {0}, Chained(p, t), Rising(t), n <= Len(t),
           LabelsOf(p, t, ds, n), NEW j \in DOMAIN ds
    PROVE  /\ ds[j] \in Defs
           /\ ds[j].number <= t[n].numbers[ds[j].section]
           /\ \A i \in DOMAIN ds : ds[i].at <= ds[j].at /\ ds[i].section = ds[j].section =>
                  ds[i].number <= ds[j].number
           /\ \A k \in 1 .. ds[j].at + 1 : t[k].numbers[ds[j].section] <= ds[j].number
<1>1. ds \in Seq(Defs) /\ \A i \in DOMAIN ds : ds[i] \in Defs
  BY DEF LabelsOf
<1>2. ASSUME NEW i \in DOMAIN ds
      PROVE  /\ ds[i].at \in Nat /\ ds[i].at + 1 \in 1 .. Len(t) /\ ds[i].at + 1 <= n
             /\ ds[i].section \in SectionNames
             /\ ds[i].number = t[ds[i].at + 1].numbers[ds[i].section]
  <2>1. ds[i].at \in 1 .. n - 1 /\ LabelAt(p, t, ds[i])
    BY DEF LabelsOf
  <2>2. Len(t) \in Nat
    BY OnPlaces
  <2>3. ds[i].at \in Nat /\ ds[i].at + 1 \in 1 .. Len(t) /\ ds[i].at + 1 <= n
    BY <2>1, <2>2
  <2>4. ds[i].section \in SectionNames
    BY <1>1 DEF Defs
  <2> QED BY <2>1, <2>3, <2>4 DEF LabelAt, SecAt, NumAt
<1>3. Len(t) \in Nat /\ DOMAIN t = 1 .. Len(t) /\ n \in 1 .. Len(t)
  BY OnPlaces
<1>4. ds[j].number <= t[n].numbers[ds[j].section]
  BY <1>2, <1>3 DEF Rising
<1>5. ASSUME NEW i \in DOMAIN ds, ds[i].at <= ds[j].at, ds[i].section = ds[j].section
      PROVE  ds[i].number <= ds[j].number
  <2>1. ds[i].at + 1 <= ds[j].at + 1
    BY <1>2, <1>5
  <2> QED BY <1>2, <1>3, <1>5, <2>1 DEF Rising
<1>6. ASSUME NEW k \in 1 .. ds[j].at + 1
      PROVE  t[k].numbers[ds[j].section] <= ds[j].number
  <2>1. k \in DOMAIN t /\ k <= ds[j].at + 1
    BY <1>2, <1>3
  <2> QED BY <1>2, <1>3, <2>1 DEF Rising
<1> QED BY <1>1, <1>4, <1>5, <1>6

-----------------------------------------------------------------------------
(* The tables with the label d set in them.                                  *)
WithLabel(locs, d) == [locs EXCEPT ![d.section][d.key] = LocalSet(@, d.number, d.value)]

TablesOk(locs) == DOMAIN locs = SectionNames /\ \A s \in SectionNames : DOMAIN locs[s] = Labels

(* Setting a label changes its own entry only.                               *)
LEMMA LabelSet ==
    ASSUME NEW locs, TablesOk(locs), NEW d \in Defs
    PROVE  LET new == WithLabel(locs, d)
           IN  /\ TablesOk(new)
               /\ d.number \in DOMAIN new[d.section][d.key]
               /\ Held(new, d) = d.value
               /\ \A s \in SectionNames, k \in Labels :
                      /\ \A i \in DOMAIN new[s][k] :
                             i \in DOMAIN locs[s][k] \/ (s = d.section /\ k = d.key /\ i = d.number)
                      /\ \A i \in DOMAIN locs[s][k] :
                             /\ i \in DOMAIN new[s][k]
                             /\ ~(s = d.section /\ k = d.key /\ i = d.number) =>
                                    new[s][k][i] = locs[s][k][i]
<1> DEFINE new == WithLabel(locs, d)
           table == locs[d.section][d.key]
           set == LocalSet(table, d.number, d.value)
<1>1. d.section \in SectionNames /\ d.key \in Labels
  BY DEF Defs
<1>2. /\ DOMAIN set = DOMAIN table \cup {d.number}
      /\ set[d.number] = d.value
      /\ \A i \in DOMAIN table : i # d.number => set[i] = table[i]
  <2> HIDE DEF table
  <2> QED BY DEF LocalSet
<1>3. new = [locs EXCEPT ![d.section] = [@ EXCEPT ![d.key] = set]]
  BY DEF WithLabel
<1> HIDE DEF set
<1>4. /\ DOMAIN new = SectionNames
      /\ \A s \in SectionNames : DOMAIN new[s] = Labels
      /\ new[d.section][d.key] = set
      /\ \A s \in SectionNames, k \in Labels :
             s # d.section \/ k # d.key => new[s][k] = locs[s][k]
  <2>1. DOMAIN new = SectionNames
    BY <1>3 DEF TablesOk
  <2>2. new[d.section] = [locs[d.section] EXCEPT ![d.key] = set]
    BY <1>1, <1>3 DEF TablesOk
  <2>3. \A s \in SectionNames : s # d.section => new[s] = locs[s]
    BY <1>3 DEF TablesOk
  <2> HIDE DEF new
  <2> QED BY <1>1, <2>1, <2>2, <2>3 DEF TablesOk
<1> HIDE DEF new
<1>5. TablesOk(new)
  BY <1>4 DEF TablesOk
<1>6. d.number \in DOMAIN new[d.section][d.key] /\ Held(new, d) = d.value
  BY <1>2, <1>4 DEF Held
<1>7. ASSUME NEW s \in SectionNames, NEW k \in Labels
      PROVE  /\ \A i \in DOMAIN new[s][k] :
                    i \in DOMAIN locs[s][k] \/ (s = d.section /\ k = d.key /\ i = d.number)
             /\ \A i \in DOMAIN locs[s][k] :
                    /\ i \in DOMAIN new[s][k]
                    /\ ~(s = d.section /\ k = d.key /\ i = d.number) =>
                           new[s][k][i] = locs[s][k][i]
  <2>1. CASE s = d.section /\ k = d.key
    BY <1>2, <1>4, <2>1
  <2>2. CASE ~(s = d.section /\ k = d.key)
    BY <1>4, <2>2
  <2> QED BY <2>1, <2>2
<1> QED BY <1>5, <1>6, <1>7 DEF new

(* The tables hold the labels still, with one more.                          *)
LEMMA TableKept ==
    ASSUME NEW locs, TablesOk(locs), NEW d \in Defs, NEW ds \in Seq(Defs), NEW bs \in Seq(Defs),
           TableOf(locs, ds, bs)
    PROVE  TableOf(WithLabel(locs, d), Append(ds, d), bs)
<1> DEFINE new == WithLabel(locs, d)
           es == Append(ds, d)
           m == Len(ds)
<1>1. /\ m \in Nat /\ DOMAIN ds = 1 .. m /\ es \in Seq(Defs) /\ DOMAIN es = 1 .. m + 1
      /\ es[m + 1] = d /\ \A j \in 1 .. m : es[j] = ds[j]
  OBVIOUS
<1>2. Range(es) = Range(ds) \cup {d}
  <2> HIDE DEF es, m
  <2>1. \A j \in 1 .. m + 1 : j = m + 1 \/ j \in 1 .. m
    BY <1>1
  <2>2. m + 1 \in 1 .. m + 1 /\ \A j \in 1 .. m : j \in 1 .. m + 1
    BY <1>1
  <2> QED BY <1>1, <2>1, <2>2 DEF Range
<1>3. \A e \in Range(ds) \cup Range(bs) : e \in Defs
  BY DEF Range
<1>4. \A e \in Defs : e.section \in SectionNames /\ e.key \in Labels
  BY DEF Defs
<1>5. /\ d.number \in DOMAIN new[d.section][d.key]
      /\ Held(new, d) = d.value
      /\ \A s \in SectionNames, k \in Labels :
             /\ \A i \in DOMAIN new[s][k] :
                    i \in DOMAIN locs[s][k] \/ (s = d.section /\ k = d.key /\ i = d.number)
             /\ \A i \in DOMAIN locs[s][k] :
                    /\ i \in DOMAIN new[s][k]
                    /\ ~(s = d.section /\ k = d.key /\ i = d.number) =>
                           new[s][k][i] = locs[s][k][i]
  BY LabelSet
<1> HIDE DEF new, es, m
<1>6. ASSUME NEW s \in SectionNames, NEW k \in Labels, NEW i \in DOMAIN new[s][k]
      PROVE  \E e \in Range(es) \cup Range(bs) :
                 e.section = s /\ e.key = k /\ e.number = i /\ e.value = new[s][k][i]
  <2>1. CASE s = d.section /\ k = d.key /\ i = d.number
    BY <1>2, <1>5, <2>1 DEF Held
  <2>2. CASE ~(s = d.section /\ k = d.key /\ i = d.number)
    <3>1. i \in DOMAIN locs[s][k] /\ new[s][k][i] = locs[s][k][i]
      BY <1>5, <1>6, <2>2
    <3>2. PICK e \in Range(ds) \cup Range(bs) :
             e.section = s /\ e.key = k /\ e.number = i /\ e.value = locs[s][k][i]
      BY <3>1 DEF TableOf
    <3> QED BY <1>2, <3>1, <3>2
  <2> QED BY <2>1, <2>2
<1>7. ASSUME NEW e \in Range(es) \cup Range(bs)
      PROVE  e.number \in DOMAIN new[e.section][e.key]
  <2>1. CASE e = d
    BY <1>5, <2>1
  <2>2. CASE e # d
    <3>1. e \in Range(ds) \cup Range(bs)
      BY <1>2, <2>2
    <3>2. e.number \in DOMAIN locs[e.section][e.key]
      BY <3>1 DEF TableOf
    <3> QED BY <1>3, <1>4, <1>5, <3>1, <3>2
  <2> QED BY <2>1, <2>2
<1>8. ASSUME NEW j \in DOMAIN es, \A i \in DOMAIN es : i > j => ~SameSlot(es[i], es[j])
      PROVE  Held(new, es[j]) = es[j].value
  <2>1. CASE j = m + 1
    BY <1>1, <1>5, <2>1
  <2>2. CASE j # m + 1
    <3>1. j \in 1 .. m /\ m + 1 > j /\ m + 1 \in DOMAIN es
      BY <1>1, <2>2
    <3>2. ~SameSlot(d, ds[j])
      BY <1>1, <1>8, <3>1
    <3>3. \A i \in 1 .. m : i > j => ~SameSlot(ds[i], ds[j])
      BY <1>1, <1>8, <3>1
    <3>4. Held(locs, ds[j]) = ds[j].value
      BY <1>1, <3>1, <3>3 DEF TableOf
    <3>5. ds[j] \in Range(ds) /\ ds[j] \in Defs
      BY <1>1, <3>1 DEF Range
    <3>6. ds[j].number \in DOMAIN locs[ds[j].section][ds[j].key]
      BY <3>5 DEF TableOf
    <3>7. Held(new, ds[j]) = Held(locs, ds[j])
      BY <1>4, <1>5, <3>2, <3>5, <3>6 DEF Held, SameSlot
    <3> QED BY <1>1, <3>1, <3>4, <3>7
  <2> QED BY <2>1, <2>2
<1>9. TableOf(new, es, bs)
  BY <1>6, <1>7, <1>8 DEF TableOf
<1> QED BY <1>9 DEF new, es

-----------------------------------------------------------------------------
(* The labels of the pass before, if there was one, are those of all lines.  *)
BeforeOf(p, t, bs) ==
    bs = <<>> \/ (Len(t) = Len(p) + 1 /\ LabelsOf(p, t, bs, Len(p) + 1))

(* A label of the pass before, on a line carried out again, was set again.   *)
LEMMA SetAgain ==
    ASSUME NEW p, NEW t, NEW ds, NEW bs, NEW n \in Nat, LabelsOf(p, t, ds, n),
           BeforeOf(p, t, bs), NEW e \in Range(bs), e.at < n
    PROVE  \E j \in DOMAIN ds : ds[j].at = e.at /\ SameSlot(ds[j], e)
<1>1. PICK i \in DOMAIN bs : e = bs[i]
  BY DEF Range
<1>2. bs # <<>>
  BY <1>1
<1>3. e.at \in 1 .. Len(p) + 1 - 1 /\ LabelAt(p, t, e)
  BY <1>1, <1>2 DEF BeforeOf, LabelsOf
<1>4. e.at \in 1 .. n - 1
  BY <1>3
<1>5. PICK j \in DOMAIN ds : ds[j].at = e.at
  BY <1>3, <1>4 DEF LabelsOf, LabelAt
<1>6. LabelAt(p, t, ds[j])
  BY DEF LabelsOf
<1> QED BY <1>3, <1>5, <1>6 DEF LabelAt, SameSlot

(* A label of the pass before on line n or later has no lesser a number.     *)
LEMMA LaterNumbers ==
    ASSUME NEW p, NEW t, NEW bs, NEW n \in Nat, Chained(p, t), Rising(t), Len(p) \in Nat,
           BeforeOf(p, t, bs), NEW e \in Range(bs), n <= e.at
    PROVE  e \in Defs /\ e.at \in Nat /\ t[n + 1].numbers[e.section] <= e.number
<1>1. PICK i \in DOMAIN bs : e = bs[i]
  BY DEF Range
<1>2. Len(t) = Len(p) + 1 /\ LabelsOf(p, t, bs, Len(p) + 1)
  BY <1>1 DEF BeforeOf
<1>3. bs[i] \in Defs /\ \A k \in 1 .. bs[i].at + 1 : t[k].numbers[bs[i].section] <= bs[i].number
  BY <1>2, LabelNumbers
<1>4. e.at \in Nat
  BY <1>1, <1>3 DEF Defs
<1>5. n + 1 \in 1 .. bs[i].at + 1
  BY <1>1, <1>4
<1> QED BY <1>1, <1>3, <1>4, <1>5

(* The labels of a section with one name, and those beyond a line.           *)
Named(ds, s, k) == {j \in DOMAIN ds : ds[j].section = s /\ ds[j].key = k}
Beyond(ds, s, k, n) ==
    {j \in DOMAIN ds : ds[j].section = s /\ ds[j].key = k /\ ds[j].at > n}

(* The search backwards from line n, when no label that is still to come in  *)
(* the pass has its number.                                                  *)
LEMMA BackFinds ==
    ASSUME NEW p, NEW t, NEW ds, NEW bs, NEW locs, NEW n \in Nat \ {0}, NEW k \in Labels,
           Chained(p, t), Rising(t), Len(p) \in Nat, n + 1 <= Len(t),
           LabelsOf(p, t, ds, n), BeforeOf(p, t, bs), TableOf(locs, ds, bs),
           \A e \in Range(bs) :
               ~(e.section = SecAt(t, n) /\ e.key = k /\ e.number = NumAt(t, n) /\ e.at >= n)
    PROVE  LET T == Named(ds, SecAt(t, n), k)
           IN  Back(locs[SecAt(t, n)][k], NumAt(t, n)) =
                   IF T = {} THEN NoValue ELSE ds[Max(T)].value
<1> DEFINE s == SecAt(t, n)
           m == NumAt(t, n)
           table == locs[s][k]
           found == {i \in DOMAIN table : i <= m}
           T == {j \in DOMAIN ds : ds[j].section = s /\ ds[j].key = k}
<1>0. Named(ds, SecAt(t, n), k) = T
  BY DEF Named
<1>1. /\ s \in SectionNames /\ m \in Nat /\ m = t[n + 1].numbers[s]
      /\ Len(t) \in Nat /\ n \in 1 .. Len(t) /\ n + 1 \in 1 .. Len(t) /\ DOMAIN t = 1 .. Len(t)
  <2>1. Len(t) \in Nat /\ DOMAIN t = 1 .. Len(t)
    BY OnPlaces
  <2>2. n \in 1 .. Len(t) /\ n + 1 \in 1 .. Len(t)
    BY <2>1
  <2>3. t[n + 1].cur \in SectionNames /\ \A x \in SectionNames : t[n + 1].numbers[x] \in Nat
    BY <2>2, OnPlaces
  <2> QED BY <2>1, <2>2, <2>3 DEF SecAt, NumAt
<1>2. /\ ds \in Seq(Defs) /\ Len(ds) \in Nat /\ DOMAIN ds = 1 .. Len(ds)
      /\ \A j \in DOMAIN ds : ds[j] \in Defs /\ ds[j] \in Range(ds)
      /\ \A j \in DOMAIN ds : ds[j].number \in Nat /\ ds[j].at \in Nat
  <2>1. ds \in Seq(Defs)
    BY DEF LabelsOf
  <2>2. \A j \in DOMAIN ds : ds[j] \in Defs
    BY <2>1
  <2> QED BY <2>1, <2>2 DEF Range, Defs
<1> HIDE DEF s, m, table
<1>3. ASSUME NEW i \in found
      PROVE  \E j \in T : ds[j].number = i
  <2>1. PICK e \in Range(ds) \cup Range(bs) : e.section = s /\ e.key = k /\ e.number = i
    BY <1>1 DEF TableOf, table
  <2>2. CASE e \in Range(ds)
    BY <2>1, <2>2 DEF Range
  <2>3. CASE e \in Range(bs) /\ e.at < n
    <3>1. PICK j \in DOMAIN ds : SameSlot(ds[j], e)
      BY <2>3, SetAgain
    <3> QED BY <2>1, <3>1 DEF SameSlot
  <2>4. CASE e \in Range(bs) /\ ~(e.at < n)
    <3>1. e.at \in Nat
      <4>1. PICK x \in DOMAIN bs : e = bs[x]
        BY <2>4 DEF Range
      <4>2. bs \in Seq(Defs)
        BY <4>1 DEF BeforeOf, LabelsOf
      <4>3. e \in Defs
        BY <4>1, <4>2
      <4> QED BY <4>3 DEF Defs
    <3>2. n <= e.at /\ e.at >= n
      BY <2>4, <3>1
    <3>3. e \in Defs /\ t[n + 1].numbers[e.section] <= e.number
      BY <2>4, <3>2, LaterNumbers
    <3>4. m <= i /\ i <= m /\ i \in Nat
      BY <1>1, <2>1, <3>3 DEF Defs
    <3>5. e.number = m
      BY <1>1, <2>1, <3>4
    <3> QED BY <2>1, <2>4, <3>2, <3>5 DEF s, m
  <2> QED BY <2>2, <2>3, <2>4
<1>4. ASSUME NEW j \in T
      PROVE  ds[j].number \in found
  <2>1. ds[j].number \in DOMAIN table
    BY <1>2 DEF TableOf, table
  <2>2. ds[j].number <= t[n].numbers[s]
    BY <1>1, LabelNumbers
  <2>3. t[n].numbers[s] <= m /\ t[n].numbers[s] \in Nat
    BY <1>1, OnPlaces DEF Rising
  <2>4. ds[j].number <= m
    BY <1>1, <1>2, <2>2, <2>3
  <2> QED BY <2>1, <2>4
<1>5. ASSUME T = {} PROVE Back(table, m) = NoValue
  <2>1. found = {}
    BY <1>3, <1>5
  <2> QED BY <2>1 DEF Back
<1>6. ASSUME T # {} PROVE Back(table, m) = ds[Max(T)].value
  <2> DEFINE last == Max(T)
  <2>1. last \in T /\ \A j \in T : j <= last
    <3>1. T \subseteq Nat /\ \A j \in T : j <= Len(ds)
      BY <1>2
    <3> HIDE DEF T
    <3> QED BY <1>2, <1>6, <3>1, MaxIs
  <2> HIDE DEF last
  <2>2. ASSUME NEW j \in T PROVE ds[j].number <= ds[last].number
    <3>1. j = last \/ j < last
      BY <1>2, <2>1
    <3>2. ds[j].at <= ds[last].at
      <4>1. CASE j = last
        BY <1>2, <4>1
      <4>2. CASE j < last
        BY <1>2, <2>1, <4>2 DEF LabelsOf
      <4> QED BY <3>1, <4>1, <4>2
    <3> QED BY <1>1, <2>1, <3>2, LabelNumbers
  <2>3. found \subseteq Nat /\ found # {} /\ \A i \in found : i <= ds[last].number
    BY <1>2, <1>3, <1>4, <2>1, <2>2
  <2>4. ds[last].number \in found
    BY <1>4, <2>1
  <2>5. Max(found) = ds[last].number
    <3> HIDE DEF found
    <3>1. Max(found) \in found /\ \A i \in found : i <= Max(found)
      BY <1>2, <2>1, <2>3, MaxIs
    <3>2. Max(found) \in Nat /\ ds[last].number \in Nat
      BY <2>3, <2>4, <3>1
    <3>3. Max(found) <= ds[last].number /\ ds[last].number <= Max(found)
      BY <2>3, <2>4, <3>1
    <3> QED BY <3>2, <3>3
  <2>6. Held(locs, ds[last]) = ds[last].value
    <3>1. \A i \in DOMAIN ds : i > last => ~SameSlot(ds[i], ds[last])
      BY <1>2, <2>1 DEF SameSlot
    <3> QED BY <2>1, <3>1 DEF TableOf
  <2>7. table[ds[last].number] = ds[last].value
    BY <2>1, <2>6 DEF Held, table
  <2>8. Back(table, m) = table[Max(found)]
    BY <2>3 DEF Back
  <2> QED BY <2>5, <2>7, <2>8 DEF last
<1>7. Back(table, m) = IF T = {} THEN NoValue ELSE ds[Max(T)].value
  BY <1>5, <1>6
<1> HIDE DEF T
<1> QED BY <1>0, <1>7 DEF s, m, table

-----------------------------------------------------------------------------
(* The numbers in a table are those of labels.                               *)
LEMMA TableNumbers ==
    ASSUME NEW locs, NEW ds \in Seq(Defs), NEW bs \in Seq(Defs), TableOf(locs, ds, bs),
           NEW s \in SectionNames, NEW k \in Labels
    PROVE  DOMAIN locs[s][k] \subseteq Nat
<1> SUFFICES ASSUME NEW i \in DOMAIN locs[s][k] PROVE i \in Nat
  OBVIOUS
<1>1. PICK e \in Range(ds) \cup Range(bs) : e.number = i
  BY DEF TableOf
<1>2. e \in Defs
  BY DEF Range
<1> QED BY <1>1, <1>2 DEF Defs

(* The tables have the labels' values; searches forwards find the same.      *)
Agreed(locs, ds) == \A j \in DOMAIN ds : Held(locs, ds[j]) = ds[j].value
SameAhead(new, locs) ==
    \A s \in SectionNames, k \in Labels, m \in Nat : Fwd(new[s][k], m) = Fwd(locs[s][k], m)

(* No label k after line n has its number.                                   *)
Unshared(bs, t, n, k) ==
    \A e \in Range(bs) :
        ~(e.section = SecAt(t, n) /\ e.key = k /\ e.number = NumAt(t, n) /\ e.at > n)

(* The search forwards from line n, once the pass is over and nothing moved. *)
LEMMA FwdFinds ==
    ASSUME NEW p, NEW t, NEW ds, NEW bs, NEW locs, NEW n \in Nat \ {0}, NEW k \in Labels,
           NEW q, q = Len(p) + 1, Chained(p, t), Rising(t), Len(p) \in Nat, n <= Len(p),
           Len(t) = q, LabelsOf(p, t, ds, q), LabelsOf(p, t, bs, q),
           TableOf(locs, ds, bs), Agreed(locs, ds),
           Unshared(bs, t, n, k)
    PROVE  LET T == Beyond(ds, SecAt(t, n), k, n)
           IN  Fwd(locs[SecAt(t, n)][k], NumAt(t, n)) =
                   IF T = {} THEN NoValue ELSE ds[Min(T)].value
<1> DEFINE s == SecAt(t, n)
           m == NumAt(t, n)
           table == locs[s][k]
           found == {i \in DOMAIN table : i > m}
           T == {j \in DOMAIN ds : ds[j].section = s /\ ds[j].key = k /\ ds[j].at > n}
<1>0. Beyond(ds, SecAt(t, n), k, n) = T
  BY DEF Beyond
<1>1. /\ s \in SectionNames /\ m \in Nat /\ m = t[n + 1].numbers[s] /\ q \in Nat \ {0}
      /\ n \in 1 .. Len(t) /\ n + 1 \in 1 .. Len(t) /\ DOMAIN t = 1 .. Len(t) /\ Len(t) = q
  <2>1. DOMAIN t = 1 .. Len(t) /\ q \in Nat \ {0} /\ Len(t) = q
    BY OnPlaces
  <2>2. n \in 1 .. Len(t) /\ n + 1 \in 1 .. Len(t)
    BY <2>1
  <2>3. t[n + 1].cur \in SectionNames /\ \A x \in SectionNames : t[n + 1].numbers[x] \in Nat
    BY <2>2, OnPlaces
  <2> QED BY <2>1, <2>2, <2>3 DEF SecAt, NumAt
<1>2. /\ ds \in Seq(Defs) /\ bs \in Seq(Defs) /\ Len(ds) \in Nat /\ DOMAIN ds = 1 .. Len(ds)
      /\ \A j \in DOMAIN ds : ds[j] \in Defs /\ ds[j] \in Range(ds)
      /\ \A j \in DOMAIN ds : ds[j].number \in Nat /\ ds[j].at \in Nat /\ ds[j].at < q
      /\ \A e \in Range(bs) : e.number \in Nat /\ e.at \in Nat /\ e.at < q
  <2>1. ds \in Seq(Defs) /\ bs \in Seq(Defs)
    BY DEF LabelsOf
  <2>2. \A j \in DOMAIN ds : ds[j] \in Defs /\ ds[j].at \in 1 .. q - 1
    BY <2>1 DEF LabelsOf
  <2>3. \A j \in DOMAIN bs : bs[j] \in Defs /\ bs[j].at \in 1 .. q - 1
    BY <2>1 DEF LabelsOf
  <2>4. \A x \in 1 .. q - 1 : x < q
    BY <1>1
  <2>5. \A d \in Defs : d.number \in Nat /\ d.at \in Nat
    BY DEF Defs
  <2> QED BY <2>1, <2>2, <2>3, <2>4, <2>5 DEF Range
<1>3. BeforeOf(p, t, bs) /\ BeforeOf(p, t, ds) /\ LabelsOf(p, t, ds, q) /\ LabelsOf(p, t, bs, q)
  BY DEF BeforeOf
<1> HIDE DEF s, m, table
<1>4. ASSUME NEW i \in found
      PROVE  \E j \in T : ds[j].number = i
  <2>1. PICK e \in Range(ds) \cup Range(bs) : e.section = s /\ e.key = k /\ e.number = i
    BY <1>1 DEF TableOf, table
  <2>2. PICK j \in DOMAIN ds : SameSlot(ds[j], e)
    <3>1. CASE e \in Range(ds)
      BY <3>1 DEF Range, SameSlot
    <3>2. CASE e \in Range(bs)
      BY <1>1, <1>2, <1>3, <3>2, SetAgain
    <3> QED BY <3>1, <3>2
  <2>3. ds[j].number = i /\ ds[j].section = s /\ ds[j].key = k
    BY <2>1, <2>2 DEF SameSlot
  <2>4. ASSUME ds[j].at <= n PROVE FALSE
    <3>1. LabelAt(p, t, ds[j]) /\ ds[j].at + 1 \in 1 .. Len(t) /\ ds[j].at + 1 <= n + 1
      <4>1. LabelAt(p, t, ds[j])
        BY DEF LabelsOf
      <4> QED BY <1>1, <1>2, <2>4, <4>1
    <3>2. i = t[ds[j].at + 1].numbers[s]
      BY <2>3, <3>1 DEF LabelAt, SecAt, NumAt
    <3>3. i <= m
      BY <1>1, <3>1, <3>2 DEF Rising
    <3>4. i \in Nat
      BY <1>2, <2>3
    <3> QED BY <1>1, <3>3, <3>4
  <2> QED BY <1>2, <2>3, <2>4
<1>5. ASSUME NEW j \in T
      PROVE  ds[j].number \in found
  <2>1. ds[j].number \in DOMAIN table
    BY <1>2 DEF TableOf, table
  <2>2. m <= ds[j].number
    <3>1. n <= ds[j].at
      BY <1>2
    <3> QED BY <1>1, <1>2, <1>3, <3>1, LaterNumbers
  <2>3. ds[j].number # m
    <3>1. ASSUME NEW x \in DOMAIN bs, bs[x].at = ds[j].at, SameSlot(bs[x], ds[j])
          PROVE  ds[j].number # m
      BY <3>1 DEF Range, SameSlot, Unshared, s, m
    <3>2. ds[j].at < q /\ ds[j] \in Range(ds)
      BY <1>2
    <3>3. \E x \in DOMAIN bs : bs[x].at = ds[j].at /\ SameSlot(bs[x], ds[j])
      BY <1>1, <1>3, <3>2, SetAgain
    <3> QED BY <3>1, <3>3
  <2> QED BY <1>1, <1>2, <2>1, <2>2, <2>3
<1>6. ASSUME T = {} PROVE Fwd(table, m) = NoValue
  <2>1. found = {}
    BY <1>4, <1>6
  <2> QED BY <2>1 DEF Fwd
<1>7. ASSUME T # {} PROVE Fwd(table, m) = ds[Min(T)].value
  <2> DEFINE next == Min(T)
  <2>1. next \in T /\ \A j \in T : next <= j
    <3>1. T \subseteq Nat
      BY <1>2
    <3> HIDE DEF T
    <3> QED BY <1>7, <3>1, MinIs
  <2> HIDE DEF next
  <2>2. ASSUME NEW j \in T PROVE ds[next].number <= ds[j].number
    <3>1. j = next \/ next < j
      BY <1>2, <2>1
    <3>2. ds[next].at <= ds[j].at
      <4>1. CASE j = next
        BY <1>2, <4>1
      <4>2. CASE next < j
        BY <1>2, <2>1, <4>2 DEF LabelsOf
      <4> QED BY <3>1, <4>1, <4>2
    <3> QED BY <1>1, <1>3, <2>1, <3>2, LabelNumbers
  <2>3. found \subseteq Nat /\ found # {} /\ \A i \in found : ds[next].number <= i
    <3>1. ASSUME NEW i \in found PROVE i \in Nat /\ ds[next].number <= i
      <4>1. PICK j \in T : ds[j].number = i
        BY <1>4
      <4> QED BY <1>2, <2>2, <4>1
    <3>2. ds[next].number \in found
      BY <1>5, <2>1
    <3> HIDE DEF found
    <3> QED BY <3>1, <3>2
  <2>4. ds[next].number \in found
    BY <1>5, <2>1
  <2>5. Min(found) = ds[next].number
    <3> HIDE DEF found
    <3>1. Min(found) \in found /\ \A i \in found : Min(found) <= i
      BY <2>3, MinIs
    <3>2. Min(found) \in Nat /\ ds[next].number \in Nat
      BY <2>3, <2>4, <3>1
    <3>3. Min(found) <= ds[next].number /\ ds[next].number <= Min(found)
      BY <2>3, <2>4, <3>1
    <3> QED BY <3>2, <3>3
  <2>6. table[ds[next].number] = ds[next].value
    BY <2>1 DEF Held, table, Agreed
  <2>7. Fwd(table, m) = table[Min(found)]
    BY <2>3 DEF Fwd
  <2> QED BY <2>5, <2>6, <2>7 DEF next
<1>8. Fwd(table, m) = IF T = {} THEN NoValue ELSE ds[Min(T)].value
  BY <1>6, <1>7
<1> HIDE DEF T
<1> QED BY <1>0, <1>8 DEF s, m, table

(* A label set to the value its number has changes no search forwards.       *)
LEMMA FwdKept ==
    ASSUME NEW locs, TablesOk(locs), NEW d \in Defs, NEW ds \in Seq(Defs), NEW bs \in Seq(Defs),
           TableOf(locs, ds, bs), d.number \in DOMAIN locs[d.section][d.key],
           Held(locs, d) = d.value,
           NEW s \in SectionNames, NEW k \in Labels, NEW m \in Nat
    PROVE  Fwd(WithLabel(locs, d)[s][k], m) = Fwd(locs[s][k], m)
<1> DEFINE new == WithLabel(locs, d)[s][k]
           table == locs[s][k]
           found == {i \in DOMAIN table : i > m}
<1>1. DOMAIN table \subseteq Nat
  BY TableNumbers
<1>2. /\ Held(WithLabel(locs, d), d) = d.value
      /\ \A i \in DOMAIN new : i \in DOMAIN table \/ (s = d.section /\ k = d.key /\ i = d.number)
      /\ \A i \in DOMAIN table :
             /\ i \in DOMAIN new
             /\ ~(s = d.section /\ k = d.key /\ i = d.number) => new[i] = table[i]
  <2> DEFINE whole == WithLabel(locs, d)
  <2>1. /\ Held(whole, d) = d.value
        /\ \A x \in SectionNames, y \in Labels :
               /\ \A i \in DOMAIN whole[x][y] :
                      i \in DOMAIN locs[x][y] \/ (x = d.section /\ y = d.key /\ i = d.number)
               /\ \A i \in DOMAIN locs[x][y] :
                      /\ i \in DOMAIN whole[x][y]
                      /\ ~(x = d.section /\ y = d.key /\ i = d.number) =>
                             whole[x][y][i] = locs[x][y][i]
    BY LabelSet
  <2>2. new = whole[s][k] /\ table = locs[s][k]
    OBVIOUS
  <2> HIDE DEF whole, new, table
  <2> QED BY <2>1, <2>2 DEF whole
<1>3. DOMAIN new = DOMAIN table /\ \A i \in DOMAIN table : new[i] = table[i]
  BY <1>2 DEF Held
<1> HIDE DEF new, table
<1>4. {i \in DOMAIN new : i > m} = found
  BY <1>3
<1>5. ASSUME found = {} PROVE Fwd(new, m) = Fwd(table, m)
  BY <1>4, <1>5 DEF Fwd
<1>6. ASSUME found # {} PROVE Fwd(new, m) = Fwd(table, m)
  <2>1. Min(found) \in found
    <3>1. found \subseteq Nat
      BY <1>1
    <3> HIDE DEF found
    <3> QED BY <1>6, <3>1, MinIs
  <2> QED BY <1>3, <1>4, <1>6, <2>1 DEF Fwd
<1> QED BY <1>5, <1>6 DEF new, table

-----------------------------------------------------------------------------
(* What setting a label does to the tables, and what a report means.         *)
LEMMA LabelOutcome ==
    ASSUME NEW p, NEW t, NEW ds, NEW bs \in Seq(Defs), NEW locs, NEW n \in Nat \ {0},
           NEW d \in Defs, LabelsOf(p, t, ds, n), TablesOk(locs), TableOf(locs, ds, bs),
           d.at = n, LabelAt(p, t, d)
    PROVE  LET new == WithLabel(locs, d)
               es  == Append(ds, d)
               err == LocalError(locs[d.section][d.key], d.number, d.value)
           IN  /\ LabelsOf(p, t, es, n + 1)
               /\ TablesOk(new) /\ TableOf(new, es, bs)
               /\ err \in {None, Inconsistent}
               /\ err # None \/ Disagree(ds, bs) => Disagree(es, bs)
               /\ err = None /\ Agreed(locs, ds) => Agreed(new, es)
               /\ (err = None /\ Len(p) \in Nat /\ n \in 1 .. Len(p) /\ LabelsOf(p, t, bs, Len(p) + 1)) =>
                      SameAhead(new, locs)
<1> DEFINE new == WithLabel(locs, d)
           es  == Append(ds, d)
           err == LocalError(locs[d.section][d.key], d.number, d.value)
           m   == Len(ds)
<1>1. /\ ds \in Seq(Defs) /\ m \in Nat /\ DOMAIN ds = 1 .. m /\ DOMAIN es = 1 .. m + 1
      /\ es[m + 1] = d /\ \A j \in 1 .. m : es[j] = ds[j] /\ ds[j] \in Defs
  BY DEF LabelsOf
<1>2. d.section \in SectionNames /\ d.key \in Labels /\ d.number \in Nat
  BY DEF Defs
<1>3. LabelsOf(p, t, es, n + 1)
  BY LabelsAppend
<1>4. /\ TablesOk(new) /\ Held(new, d) = d.value
      /\ \A x \in SectionNames, y \in Labels : \A i \in DOMAIN locs[x][y] :
             ~(x = d.section /\ y = d.key /\ i = d.number) => new[x][y][i] = locs[x][y][i]
  BY LabelSet
<1>5. TableOf(new, es, bs)
  BY <1>1, TableKept
<1>6. /\ err \in {None, Inconsistent}
      /\ err # None <=> d.number \in DOMAIN locs[d.section][d.key] /\ Held(locs, d) # d.value
  BY DEF LocalError, Held, None, Inconsistent
<1>7. Range(ds) \subseteq Range(es) /\ d \in Range(es)
  <2>1. m + 1 \in 1 .. m + 1 /\ \A j \in 1 .. m : j \in 1 .. m + 1
    BY <1>1
  <2> HIDE DEF es, m
  <2> QED BY <1>1, <2>1 DEF Range
<1> HIDE DEF new, es, err, m
<1>8. ASSUME err # None PROVE Disagree(es, bs)
  <2>1. PICK e \in Range(ds) \cup Range(bs) :
           e.section = d.section /\ e.key = d.key /\ e.number = d.number /\ e.value = Held(locs, d)
    BY <1>2, <1>6, <1>8 DEF TableOf, Held
  <2>2. SameSlot(d, e) /\ d.value # e.value /\ e \in Range(es) \cup Range(bs)
    BY <1>6, <1>7, <1>8, <2>1 DEF SameSlot
  <2> QED BY <1>7, <2>2 DEF Disagree
<1>9. ASSUME Disagree(ds, bs) PROVE Disagree(es, bs)
  BY <1>7, <1>9 DEF Disagree
<1>10. ASSUME err = None, \A j \in DOMAIN ds : Held(locs, ds[j]) = ds[j].value, NEW j \in DOMAIN es
       PROVE  Held(new, es[j]) = es[j].value
  <2>1. CASE j = m + 1
    BY <1>1, <1>4, <2>1
  <2>2. CASE j # m + 1
    <3>1. j \in 1 .. m /\ ds[j] \in Defs /\ ds[j] \in Range(ds)
      BY <1>1, <1>10, <2>2 DEF Range
    <3>2. ds[j].number \in DOMAIN locs[ds[j].section][ds[j].key]
      BY <3>1 DEF TableOf
    <3>3. CASE SameSlot(ds[j], d)
      <4>1. Held(locs, d) = d.value
        BY <1>6, <1>10, <3>2, <3>3 DEF SameSlot
      <4> QED BY <1>1, <1>4, <1>10, <3>1, <3>3, <4>1 DEF SameSlot, Held
    <3>4. CASE ~SameSlot(ds[j], d)
      <4>1. ds[j].section \in SectionNames /\ ds[j].key \in Labels
        BY <3>1 DEF Defs
      <4>2. Held(new, ds[j]) = Held(locs, ds[j])
        BY <1>4, <3>2, <3>4, <4>1 DEF SameSlot, Held
      <4> QED BY <1>1, <1>10, <3>1, <4>2
    <3> QED BY <3>3, <3>4
  <2> QED BY <2>1, <2>2
<1>11. ASSUME err = None, Len(p) \in Nat, n \in 1 .. Len(p), LabelsOf(p, t, bs, Len(p) + 1),
              NEW s \in SectionNames, NEW k \in Labels, NEW x \in Nat
       PROVE  Fwd(new[s][k], x) = Fwd(locs[s][k], x)
  <2>1. PICK j \in DOMAIN bs : bs[j].at = n
    <3>1. n \in 1 .. (Len(p) + 1) - 1 /\ Labelled(p, n)
      BY <1>11 DEF LabelAt
    <3> QED BY <1>11, <3>1 DEF LabelsOf
  <2>2. LabelAt(p, t, bs[j])
    BY <1>11 DEF LabelsOf
  <2>3. bs[j].section = d.section /\ bs[j].key = d.key /\ bs[j].number = d.number
    BY <2>1, <2>2 DEF LabelAt
  <2>4. d.number \in DOMAIN locs[d.section][d.key]
    <3>1. bs[j] \in Range(bs)
      BY DEF Range
    <3> QED BY <2>3, <3>1 DEF TableOf
  <2>5. Held(locs, d) = d.value
    BY <1>6, <1>11, <2>4
  <2> QED BY <1>1, <2>4, <2>5, FwdKept DEF new
<1> QED BY <1>3, <1>4, <1>5, <1>6, <1>8, <1>9, <1>10, <1>11 DEF new, es, err, Agreed, SameAhead

-----------------------------------------------------------------------------
LineAction == CodeLine \/ SectionLine \/ IncludeLine \/ EndInclude

(* The sections that are current or to be returned to are of this pass.      *)
Standing ==
    /\ sections[cur].pass = pass
    /\ \A i \in DOMAIN saved : sections[saved[i]].pass = pass

(* Every line leads to the place after it.                                   *)
Placed ==
    /\ Place' = After(prog[line], Place)
    /\ sections' \in [SectionNames -> Sects]
    /\ \A n \in SectionNames : sections'[n].pass <= pass
    /\ numbers' \in [SectionNames -> Nat]
    /\ cur' \in SectionNames
    /\ saved' \in Seq(SectionNames)
    /\ Standing'

(* A line that emits, ...                                                    *)
LEMMA CodePlaced == Types /\ Standing /\ CodeLine => Placed
<1> SUFFICES ASSUME Types, Standing, CodeLine PROVE Placed
  OBVIOUS
<1>1. /\ sections \in [SectionNames -> Sects] /\ numbers \in [SectionNames -> Nat]
      /\ cur \in SectionNames /\ saved \in Seq(SectionNames)
      /\ \A n \in SectionNames : sections[n].pass <= pass
  BY DEF Types
<1>2. prog[line].op = "code" /\ pass' = pass /\ cur' = cur /\ saved' = saved
  BY DEF CodeLine, Take
<1>3. numbers' = [numbers EXCEPT ![cur] = numbers[cur] + 1]
  BY DEF CodeLine
<1>4. PICK size \in {1, 2} : sections' = [sections EXCEPT ![cur] = Skipped(sections[cur], size)]
  BY DEF CodeLine
<1>5. Skipped(sections[cur], size) \in Sects /\ Skipped(sections[cur], size).pass = sections[cur].pass
  <2>1. ASSUME NEW s \in Sects
        PROVE  Skipped(s, size) \in Sects /\ Skipped(s, size).pass = s.pass
    <3>1. ASSUME NEW a \in Int, NEW b \in Int
          PROVE  LET t == [s EXCEPT !.pc = a, !.put = b] IN t \in Sects /\ t.pass = s.pass
      BY DEF Sects
    <3>2. s.pc + size \in Int /\ s.put + size \in Int
      BY DEF Sects
    <3> QED BY <3>1, <3>2 DEF Skipped
  <2>2. sections[cur] \in Sects
    BY <1>1
  <2> QED BY <2>1, <2>2
<1>6. sections' \in [SectionNames -> Sects] /\ \A n \in SectionNames : sections'[n].pass = sections[n].pass
  BY <1>1, <1>4, <1>5
<1>7. numbers' \in [SectionNames -> Nat]
  BY <1>1, <1>3
<1>8. Standing'
  <2>1. \A i \in DOMAIN saved : saved[i] \in SectionNames
    BY <1>1
  <2> QED BY <1>1, <1>2, <1>6, <2>1 DEF Standing
<1>9. Place' = After(prog[line], Place)
  <2> DEFINE before_ == Place.numbers
             after_ == [n \in SectionNames |-> IF sections'[n].pass = pass' THEN numbers'[n] ELSE 0]
  <2>1. before_ = [n \in SectionNames |-> IF sections[n].pass = pass THEN numbers[n] ELSE 0]
    BY DEF Place
  <2>2. \A n \in SectionNames :
           after_[n] = IF n = cur THEN before_[n] + 1 ELSE before_[n]
    <3>1. \A n \in SectionNames : after_[n] = IF sections[n].pass = pass THEN numbers'[n] ELSE 0
      BY <1>2, <1>6
    <3>2. numbers'[cur] = numbers[cur] + 1 /\ \A n \in SectionNames : n # cur => numbers'[n] = numbers[n]
      BY <1>1, <1>3
    <3>3. sections[cur].pass = pass /\ \A n \in SectionNames :
             before_[n] = IF sections[n].pass = pass THEN numbers[n] ELSE 0
      BY <2>1 DEF Standing
    <3> HIDE DEF after_, before_
    <3> QED BY <1>1, <3>1, <3>2, <3>3
  <2>3. after_ = [before_ EXCEPT ![cur] = before_[cur] + 1]
    <3>1. after_ = [n \in SectionNames |-> after_[n]]
      OBVIOUS
    <3> HIDE DEF after_, before_
    <3> QED BY <1>1, <2>1, <2>2, <3>1
  <2> QED BY <1>2, <2>3 DEF Place, After
<1> QED BY <1>1, <1>2, <1>6, <1>7, <1>8, <1>9 DEF Placed

(* ... a SECTION line counted where it stands, whatever it selects, ...      *)
LEMMA SectionPlaced ==
    Types /\ Standing /\ SectionLine /\ prog[line].section \in SectionNames => Placed
<1> SUFFICES ASSUME Types, Standing, SectionLine, prog[line].section \in SectionNames PROVE Placed
  OBVIOUS
<1> DEFINE s == prog[line].section
           chosen == Selected(sections[s], pass, EndPosition(pass))
           counted == [numbers EXCEPT ![cur] = numbers[cur] + 1]
           k == Number(sections[s], pass, counted[s])
<1>1. /\ sections \in [SectionNames -> Sects] /\ numbers \in [SectionNames -> Nat]
      /\ cur \in SectionNames /\ saved \in Seq(SectionNames) /\ s \in SectionNames
      /\ \A n \in SectionNames : sections[n].pass <= pass
      /\ pass \in Int
  BY DEF Types
<1>2. prog[line].op = "section" /\ pass' = pass /\ cur' = s /\ saved' = saved
  BY DEF SectionLine, Take
<1>3. numbers' = [counted EXCEPT ![s] = k] /\ sections' = [sections EXCEPT ![s] = chosen]
  BY DEF SectionLine
<1>4. chosen \in Sects /\ chosen.pass = pass
  <2>1. sections[s] \in Sects
    BY <1>1
  <2>2. EndPosition(pass).pc \in Int /\ EndPosition(pass).put \in Int
    BY <1>1 DEF EndPosition, StartAfter, Sects
  <2> QED BY <1>1, <2>1, <2>2, SectionConstants DEF Selected, Sects
<1>5. counted \in [SectionNames -> Nat] /\ k \in Nat
  BY <1>1 DEF Number
<1> HIDE DEF chosen
<1>6. /\ sections' \in [SectionNames -> Sects] /\ sections'[s].pass = pass
      /\ \A n \in SectionNames : n # s => sections'[n].pass = sections[n].pass
  BY <1>1, <1>3, <1>4
<1>7. numbers' \in [SectionNames -> Nat]
  BY <1>3, <1>5
<1>8. Standing'
  <2>1. \A i \in DOMAIN saved : saved[i] \in SectionNames
    BY <1>1
  <2> QED BY <1>1, <1>2, <1>6, <2>1 DEF Standing
<1>9. Place' = After(prog[line], Place)
  <2> DEFINE before_ == Place.numbers
             after_ == [n \in SectionNames |-> IF sections'[n].pass = pass' THEN numbers'[n] ELSE 0]
  <2>1. before_ = [n \in SectionNames |-> IF sections[n].pass = pass THEN numbers[n] ELSE 0]
    BY DEF Place
  <2>2. \A n \in SectionNames :
           after_[n] = IF n = cur THEN before_[n] + 1 ELSE before_[n]
    <3> SUFFICES ASSUME NEW n \in SectionNames
                 PROVE  after_[n] = IF n = cur THEN before_[n] + 1 ELSE before_[n]
      OBVIOUS
    <3>1. CASE n = s
      <4>1. after_[n] = k
        BY <1>1, <1>2, <1>3, <1>5, <1>6, <3>1
      <4> QED BY <1>1, <2>1, <3>1, <4>1 DEF Number, Standing
    <3>2. CASE n # s
      <4>1. after_[n] = IF sections[n].pass = pass THEN counted[n] ELSE 0
        BY <1>1, <1>2, <1>3, <1>5, <1>6, <3>2
      <4> QED BY <1>1, <2>1, <4>1 DEF Standing
    <3> QED BY <3>1, <3>2
  <2>3. after_ = [before_ EXCEPT ![cur] = before_[cur] + 1]
    <3>1. after_ = [n \in SectionNames |-> after_[n]]
      OBVIOUS
    <3> HIDE DEF after_, before_
    <3> QED BY <1>1, <2>1, <2>2, <3>1
  <2> QED BY <1>2, <2>3 DEF Place, After
<1>10. \A n \in SectionNames : sections'[n].pass <= pass
  BY <1>1, <1>6
<1> QED BY <1>1, <1>2, <1>6, <1>7, <1>8, <1>9, <1>10 DEF Placed

(* ... and INCLUDE and its end.                                              *)
LEMMA IncludePlaced == Types /\ Standing /\ (IncludeLine \/ EndInclude) => Placed
<1> SUFFICES ASSUME Types, Standing, IncludeLine \/ EndInclude PROVE Placed
  OBVIOUS
<1>1. /\ sections \in [SectionNames -> Sects] /\ numbers \in [SectionNames -> Nat]
      /\ cur \in SectionNames /\ saved \in Seq(SectionNames)
      /\ \A n \in SectionNames : sections[n].pass <= pass
  BY DEF Types
<1>2. sections' = sections /\ pass' = pass
  BY DEF IncludeLine, EndInclude, Take
<1>3. CASE IncludeLine
  <2>1. /\ prog[line].op = "include" /\ cur' = cur /\ saved' = Append(saved, cur)
        /\ numbers' = [numbers EXCEPT ![cur] = numbers[cur] + 1]
    BY <1>3 DEF IncludeLine, Take
  <2>2. saved' \in Seq(SectionNames) /\ numbers' \in [SectionNames -> Nat]
    BY <1>1, <2>1
  <2>3. Standing'
    <3>1. \A i \in DOMAIN saved' : i \in DOMAIN saved \/ saved'[i] = cur
      BY <1>1, <2>1
    <3>2. \A i \in DOMAIN saved : saved'[i] = saved[i]
      BY <1>1, <2>1
    <3> QED BY <1>2, <2>1, <3>1, <3>2 DEF Standing
  <2>4. Place' = After(prog[line], Place)
    <3>1. \A n \in SectionNames :
             (IF sections[n].pass = pass THEN numbers'[n] ELSE 0) =
                 IF n = cur THEN Place.numbers[n] + 1 ELSE Place.numbers[n]
      BY <1>1, <2>1 DEF Standing, Place
    <3>2. [n \in SectionNames |-> IF sections[n].pass = pass THEN numbers'[n] ELSE 0] =
              [Place.numbers EXCEPT ![cur] = Place.numbers[cur] + 1]
      BY <1>1, <3>1 DEF Place
    <3>3. Place'.numbers =
              [n \in SectionNames |-> IF sections[n].pass = pass THEN numbers'[n] ELSE 0]
      BY <1>2 DEF Place
    <3>4. Place'.cur = cur /\ Place'.saved = Append(saved, cur)
      BY <2>1 DEF Place
    <3>5. After(prog[line], Place) =
              [cur |-> cur, saved |-> Append(saved, cur),
               numbers |-> [Place.numbers EXCEPT ![cur] = Place.numbers[cur] + 1]]
      BY <2>1 DEF Place, After
    <3>6. Place' = [cur |-> Place'.cur, saved |-> Place'.saved, numbers |-> Place'.numbers]
      BY DEF Place
    <3> QED BY <3>2, <3>3, <3>4, <3>5, <3>6
  <2> QED BY <1>1, <1>2, <2>1, <2>2, <2>3, <2>4 DEF Placed
<1>4. CASE EndInclude
  <2>1. /\ prog[line].op = "end" /\ saved # <<>> /\ cur' = saved[Len(saved)]
        /\ saved' = SubSeq(saved, 1, Len(saved) - 1) /\ numbers' = numbers
    BY <1>4 DEF EndInclude, Take
  <2>2. Len(saved) \in DOMAIN saved /\ cur' \in SectionNames /\ saved' \in Seq(SectionNames)
    BY <1>1, <2>1
  <2>3. \A i \in DOMAIN saved' : i \in DOMAIN saved /\ saved'[i] = saved[i]
    BY <1>1, <2>1
  <2>4. Standing'
    BY <1>2, <2>1, <2>2, <2>3 DEF Standing
  <2>5. Place' = After(prog[line], Place)
    BY <1>2, <2>1 DEF Place, After
  <2> QED BY <1>1, <1>2, <2>1, <2>2, <2>4, <2>5 DEF Placed
<1> QED BY <1>3, <1>4

(* What all lines have in common.                                            *)
LEMMA Taken ==
    ASSUME LineAction
    PROVE  /\ phase = "assembling" /\ line \in DOMAIN prog /\ line' = line + 1
           /\ UNCHANGED <<prog, pass, phase, before, resized>>
           /\ prog[line].op = "end" => saved # <<>>
<1>1. CASE CodeLine
  BY <1>1 DEF CodeLine, Take
<1>2. CASE SectionLine
  BY <1>2 DEF SectionLine, Take
<1>3. CASE IncludeLine
  BY <1>3 DEF IncludeLine, Take
<1>4. CASE EndInclude
  BY <1>4 DEF EndInclude, Take
<1> QED BY <1>1, <1>2, <1>3, <1>4 DEF LineAction

(* A line is met in a pass that has begun, and leads to the next place.      *)
LEMMA LinePlaced ==
    ASSUME Inv, LineAction
    PROVE  /\ pass # NoPass /\ Types /\ Begun /\ line \in 1 .. Len(prog)
           /\ Len(prog) \in Nat /\ Placed
<1>1. /\ phase = "assembling" /\ line \in DOMAIN prog
  BY Taken
<1>2. pass # NoPass /\ Types /\ Begun
  BY <1>1 DEF Inv, Unbegun
<1>3. line \in 1 .. Len(prog) /\ Len(prog) \in Nat /\ prog \in Programs
  <2>1. prog \in Programs
    BY <1>2 DEF Types
  <2>2. Len(prog) \in Nat /\ DOMAIN prog = 1 .. Len(prog)
    BY <2>1, ProgramSeq
  <2> QED BY <1>1, <2>1, <2>2
<1>4. prog[line].op = "section" => prog[line].section \in SectionNames
  BY <1>3, ProgramLine
<1>5. Standing
  BY <1>1, <1>2 DEF Begun, OnTrail, Standing
<1>6. Placed
  <2>1. CASE SectionLine
    <3>1. prog[line].op = "section"
      BY <2>1 DEF SectionLine, Take
    <3> QED BY <1>2, <1>4, <1>5, <2>1, <3>1, SectionPlaced
  <2> QED BY <1>2, <1>5, <2>1, CodePlaced, IncludePlaced DEF LineAction
<1> QED BY <1>2, <1>3, <1>6

(* Every line is met at the place it had in the first pass.                  *)
LEMMA LineTrail ==
    ASSUME Inv, LineAction, Remember
    PROVE  /\ Chained(prog, trail') /\ Rising(trail') /\ Extends(trail', trail)
           /\ Len(trail') = (IF pass = 0 THEN line + 1 ELSE Len(prog) + 1)
           /\ line + 1 <= Len(trail') /\ Len(trail') \in Nat
           /\ Place' = trail'[line + 1]
<1>1. /\ phase = "assembling" /\ phase' = phase /\ pass' = pass
      /\ prog[line].op = "end" => saved # <<>>
  BY Taken
<1>2. /\ pass # NoPass /\ Types /\ Begun /\ line \in 1 .. Len(prog)
      /\ Len(prog) \in Nat /\ Placed
  BY LinePlaced
<1>3. /\ Chained(prog, trail) /\ Rising(trail) /\ Place = trail[line]
      /\ Len(trail) = (IF pass = 0 THEN line ELSE Len(prog) + 1)
  BY <1>1, <1>2 DEF Begun, OnTrail
<1>4. trail \in Seq(Places) /\ Len(trail) \in Nat
  BY <1>3 DEF Chained
<1>5. Place \in Places
  BY <1>2, <1>3, <1>4
<1>6. Place.saved = saved
  BY DEF Place
<1>7. /\ Place' = After(prog[line], trail[line]) /\ Place' \in Places
      /\ \A n \in SectionNames : trail[line].numbers[n] <= Place'.numbers[n]
  <2>1. Place' = After(prog[line], Place)
    BY <1>2 DEF Placed
  <2>2. prog \in Programs
    BY <1>2 DEF Types
  <2>3. /\ After(prog[line], Place) \in Places
        /\ \A n \in SectionNames : Place.numbers[n] <= After(prog[line], Place).numbers[n]
    BY <1>1, <1>2, <1>5, <1>6, <2>2, AfterIs
  <2> QED BY <1>3, <2>1, <2>3
<1>8. CASE pass = 0
  <2> DEFINE Q == Place'
  <2>1. trail' = Append(trail, Q) /\ Len(trail) = line
    BY <1>1, <1>3, <1>8 DEF Remember
  <2>2. /\ Q \in Places /\ Q = After(prog[line], trail[line])
        /\ \A n \in SectionNames : trail[line].numbers[n] <= Q.numbers[n]
    BY <1>7
  <2> HIDE DEF Q
  <2>3. Chained(prog, Append(trail, Q)) /\ Rising(Append(trail, Q))
    <3>1. Len(trail) <= Len(prog)
      BY <1>2, <2>1
    <3> QED BY <1>2, <1>3, <2>1, <2>2, <3>1, TrailGrows
  <2>4. /\ Len(trail') = line + 1 /\ trail'[line + 1] = Q
        /\ \A i \in 1 .. Len(trail) : trail'[i] = trail[i]
    BY <1>4, <2>1, <2>2
  <2>5. Extends(trail', trail)
    BY <1>2, <2>1, <2>4 DEF Extends
  <2> QED BY <1>2, <1>8, <2>1, <2>3, <2>4, <2>5 DEF Q
<1>9. CASE pass # 0
  <2>1. trail' = trail /\ Len(trail) = Len(prog) + 1
    BY <1>1, <1>3, <1>9 DEF Remember
  <2>2. line \in 1 .. Len(trail) - 1
    BY <1>2, <2>1
  <2>3. trail[line + 1] = After(prog[line], trail[line])
    BY <1>3, <2>2 DEF Chained
  <2>4. Extends(trail', trail)
    BY <1>4, <2>1 DEF Extends
  <2> QED BY <1>2, <1>3, <1>4, <1>7, <1>9, <2>1, <2>3, <2>4
<1> QED BY <1>8, <1>9

-----------------------------------------------------------------------------
(* In the first pass no label is found forwards.                             *)
LEMMA FwdNone ==
    ASSUME NEW p, NEW t, NEW ds, NEW locs, NEW n \in Nat \ {0}, NEW k \in Labels,
           Chained(p, t), Rising(t), n + 1 <= Len(t), LabelsOf(p, t, ds, n),
           TableOf(locs, ds, <<>>)
    PROVE  Fwd(locs[SecAt(t, n)][k], NumAt(t, n)) = NoValue
<1> DEFINE s == SecAt(t, n)
           m == NumAt(t, n)
<1>1. /\ s \in SectionNames /\ m \in Nat /\ m = t[n + 1].numbers[s]
      /\ Len(t) \in Nat /\ n \in 1 .. Len(t) /\ n + 1 \in 1 .. Len(t) /\ DOMAIN t = 1 .. Len(t)
      /\ t[n].numbers[s] \in Nat
  <2>1. Len(t) \in Nat /\ DOMAIN t = 1 .. Len(t)
    BY OnPlaces
  <2>2. n \in 1 .. Len(t) /\ n + 1 \in 1 .. Len(t)
    BY <2>1
  <2>3. /\ t[n + 1].cur \in SectionNames /\ \A x \in SectionNames : t[n + 1].numbers[x] \in Nat
        /\ \A x \in SectionNames : t[n].numbers[x] \in Nat
    BY <2>2, OnPlaces
  <2> QED BY <2>1, <2>2, <2>3 DEF SecAt, NumAt
<1> HIDE DEF s, m
<1>2. ASSUME NEW i \in DOMAIN locs[s][k] PROVE ~(i > m)
  <2>1. PICK e \in Range(ds) \cup Range(<<>>) : e.section = s /\ e.key = k /\ e.number = i
    BY <1>1 DEF TableOf
  <2>2. PICK j \in DOMAIN ds : e = ds[j]
    BY DEF Range
  <2>3. ds[j] \in Defs /\ ds[j].number <= t[n].numbers[ds[j].section]
    BY <1>1, LabelNumbers
  <2>4. i \in Nat /\ i <= t[n].numbers[s]
    BY <2>1, <2>2, <2>3 DEF Defs
  <2>5. t[n].numbers[s] <= m
    BY <1>1 DEF Rising
  <2> QED BY <1>1, <2>4, <2>5
<1>3. {i \in DOMAIN locs[s][k] : i > m} = {}
  BY <1>2
<1> QED BY <1>3 DEF Fwd, s, m

(* A line sets the label d, makes the reference u.                           *)
Sets(d) ==
    /\ defs' = Append(defs, d) /\ locals' = WithLabel(locals, d)
    /\ d.at = line /\ LabelAt(prog, trail', d)
Refers(u) ==
    /\ uses' = uses \cup {u}
    /\ u.at = line /\ u.key \in Labels
    /\ u.section = SecAt(trail', line) /\ u.number = NumAt(trail', line)
    /\ u.value = IF u.dir = "B" THEN Back(locals[u.section][u.key], u.number)
                 ELSE Fwd(locals[u.section][u.key], u.number)

Effect(lerr, rerr) ==
    /\ level' = Raise(Raise(level, rerr), lerr)
    /\ \/ ~Labelled(prog, line) /\ UNCHANGED <<defs, locals>> /\ lerr = None
       \/ \E d \in Defs : Sets(d) /\ lerr = LocalError(locals[d.section][d.key], d.number, d.value)
    /\ \/ uses' = uses /\ rerr = None
       \/ \E u : Refers(u) /\ rerr = IF u.value = NoValue THEN Inconsistent ELSE None

(* A line that emits or selects a section, and what it reports.              *)
LEMMA SetLabelSets ==
    ASSUME Inv, LineAction, Remember, NEW n, NEW pc \in Int, SetLabel(prog[line], cur', n, pc),
           n = numbers'[cur'], prog[line].op \in {"code", "section"}
    PROVE  \/ /\ ~Labelled(prog, line) /\ UNCHANGED <<defs, locals>>
              /\ LabelError(prog[line], cur', n, pc) = None
           \/ \E d \in Defs : /\ Sets(d)
                              /\ LabelError(prog[line], cur', n, pc)
                                     = LocalError(locals[d.section][d.key], d.number, d.value)
<1> DEFINE l == prog[line]
           d == [section |-> cur', key |-> l.label, at |-> line, number |-> n, value |-> pc]
<1>1. /\ Types /\ line \in 1 .. Len(prog) /\ Placed
  BY LinePlaced
<1>2. CASE l.label = NoLabel
  BY <1>2 DEF SetLabel, LabelError, Labelled
<1>3. CASE l.label # NoLabel
  <2>1. l.label \in Labels
    BY <1>1, <1>3, ProgramLine DEF Types
  <2>2. n \in Nat /\ cur' \in SectionNames /\ line \in Nat
    BY <1>1 DEF Placed
  <2>3. d \in Defs
    BY <2>1, <2>2 DEF Defs
  <2>4. SecAt(trail', line) = cur' /\ NumAt(trail', line) = n
    <3>1. Place' = trail'[line + 1]
      BY LineTrail
    <3>2. sections'[cur'].pass = pass'
      BY <1>1 DEF Placed, Standing
    <3>3. Place'.cur = cur' /\ Place'.numbers[cur'] = n
      BY <2>2, <3>2 DEF Place
    <3> QED BY <3>1, <3>3 DEF SecAt, NumAt
  <2>5. LabelAt(prog, trail', d)
    BY <1>3, <2>4 DEF LabelAt, Labelled
  <2>6. defs' = Append(defs, d) /\ locals' = WithLabel(locals, d)
    BY <1>3 DEF SetLabel, WithLabel
  <2>7. LabelError(l, cur', n, pc) = LocalError(locals[d.section][d.key], d.number, d.value)
    BY <1>3 DEF LabelError
  <2> HIDE DEF l
  <2> QED BY <2>3, <2>5, <2>6, <2>7 DEF Sets, l
<1> QED BY <1>2, <1>3

(* What the lines do to labels and references, and what they report.         *)
LEMMA CodeEffect ==
    ASSUME Inv, CodeLine, Remember
    PROVE  \E lerr, rerr \in {None, Inconsistent} : Effect(lerr, rerr)
<1> DEFINE l == prog[line]
           n == numbers[cur] + 1
           pc == sections[cur].pc
           lerr == LabelError(l, cur, n, pc)
           rerr == RefError(l, n)
           u == [section |-> cur, key |-> l.ref, dir |-> l.dir, at |-> line,
                 number |-> n, value |-> Found(l, n)]
<1>1. /\ LineAction /\ l.op = "code" /\ cur' = cur
      /\ numbers' = [numbers EXCEPT ![cur] = n]
      /\ Use(l, n) /\ SetLabel(l, cur, n, pc)
      /\ level' = Raise(Raise(level, rerr), lerr)
  BY DEF CodeLine, Take, LineAction
<1>2. Types /\ line \in 1 .. Len(prog) /\ Placed
  BY <1>1, LinePlaced
<1>3. /\ cur \in SectionNames /\ numbers \in [SectionNames -> Nat]
      /\ sections \in [SectionNames -> Sects] /\ l.ref \in Labels \cup {NoLabel}
  BY <1>2, ProgramLine DEF Types
<1>4. pc \in Int /\ numbers'[cur'] = n
  <2>1. sections[cur] \in Sects
    BY <1>3
  <2> QED BY <1>1, <1>3, <2>1 DEF Sects
<1>5. lerr \in {None, Inconsistent} /\ rerr \in {None, Inconsistent}
  BY DEF LabelError, LocalError, RefError
<1>6. \/ ~Labelled(prog, line) /\ UNCHANGED <<defs, locals>> /\ lerr = None
      \/ \E d \in Defs : Sets(d) /\ lerr = LocalError(locals[d.section][d.key], d.number, d.value)
  <2> HIDE DEF n, pc
  <2>1. SetLabel(prog[line], cur', n, pc) /\ n = numbers'[cur'] /\ prog[line].op \in {"code", "section"}
    BY <1>1, <1>4
  <2> QED BY <1>1, <1>4, <2>1, SetLabelSets
<1>7. CASE l.ref = NoLabel
  <2>1. uses' = uses /\ rerr = None
    BY <1>1, <1>7 DEF Use, RefError
  <2> HIDE DEF lerr, rerr
  <2> QED BY <1>1, <1>5, <1>6, <2>1 DEF Effect
<1>8. CASE l.ref # NoLabel
  <2>1. Place' = trail'[line + 1] /\ Place'.cur = cur' /\ Place'.numbers[cur'] = numbers'[cur']
    <3>1. sections'[cur'].pass = pass'
      BY <1>2 DEF Placed, Standing
    <3> QED BY <1>1, <1>3, <3>1, LineTrail DEF Place
  <2>2. SecAt(trail', line) = cur /\ NumAt(trail', line) = n
    BY <1>1, <1>4, <2>1 DEF SecAt, NumAt
  <2>3. Refers(u)
    <3>1. uses' = uses \cup {u}
      BY <1>1, <1>8 DEF Use
    <3>2. u.value = IF u.dir = "B" THEN Back(locals[u.section][u.key], u.number)
                    ELSE Fwd(locals[u.section][u.key], u.number)
      BY DEF Found
    <3>3. u.key \in Labels /\ u.at = line /\ u.section = cur /\ u.number = n
      BY <1>3, <1>8
    <3> HIDE DEF u
    <3> QED BY <2>2, <3>1, <3>2, <3>3 DEF Refers
  <2>4. rerr = IF u.value = NoValue THEN Inconsistent ELSE None
    BY <1>8 DEF RefError
  <2> HIDE DEF lerr, rerr, u
  <2> QED BY <1>1, <1>5, <1>6, <2>3, <2>4 DEF Effect
<1> QED BY <1>7, <1>8

(* So a SECTION line, which makes no reference, ...                          *)
LEMMA SectionEffect ==
    ASSUME Inv, SectionLine, Remember
    PROVE  \E lerr, rerr \in {None, Inconsistent} : Effect(lerr, rerr)
<1> DEFINE l == prog[line]
           s == l.section
           chosen == Selected(sections[s], pass, EndPosition(pass))
           counted == [numbers EXCEPT ![cur] = numbers[cur] + 1]
           n == Number(sections[s], pass, counted[s])
           lerr == LabelError(l, s, n, chosen.pc)
<1>1. /\ LineAction /\ l.op = "section" /\ cur' = s
      /\ numbers' = [counted EXCEPT ![s] = n]
      /\ sections' = [sections EXCEPT ![s] = chosen]
      /\ SetLabel(l, s, n, chosen.pc)
      /\ level' = Raise(level, lerr) /\ uses' = uses
  BY DEF SectionLine, Take, LineAction
<1>2. Types /\ line \in 1 .. Len(prog) /\ Placed
  BY <1>1, LinePlaced
<1>3. /\ s \in SectionNames /\ sections' \in [SectionNames -> Sects]
      /\ numbers \in [SectionNames -> Nat] /\ sections \in [SectionNames -> Sects]
      /\ level \in {None, Inconsistent}
  BY <1>1, <1>2 DEF Types, Placed
<1> HIDE DEF chosen
<1>4. numbers'[cur'] = n
  BY <1>1, <1>3
<1>5. chosen.pc \in Int
  <2>1. sections'[s] = chosen /\ sections'[s] \in Sects
    BY <1>1, <1>3
  <2> QED BY <2>1 DEF Sects
<1>6. lerr \in {None, Inconsistent}
  BY DEF LabelError, LocalError
<1>7. \/ ~Labelled(prog, line) /\ UNCHANGED <<defs, locals>> /\ lerr = None
      \/ \E d \in Defs : Sets(d) /\ lerr = LocalError(locals[d.section][d.key], d.number, d.value)
  <2>1. SetLabel(prog[line], cur', n, chosen.pc) /\ lerr = LabelError(prog[line], cur', n, chosen.pc)
    BY <1>1
  <2>2. n = numbers'[cur'] /\ prog[line].op \in {"code", "section"}
    BY <1>1, <1>4
  <2> HIDE DEF n, lerr
  <2> QED BY <1>1, <1>5, <2>1, <2>2, SetLabelSets
<1>8. Raise(level, None) = level
  BY <1>3 DEF Raise, None, Inconsistent, OutOfRange
<1> HIDE DEF lerr
<1> QED BY <1>1, <1>6, <1>7, <1>8 DEF Effect

(* ... and any line.                                                         *)
LEMMA LineEffect ==
    ASSUME Inv, LineAction, Remember
    PROVE  \E lerr, rerr \in {None, Inconsistent} : Effect(lerr, rerr)
<1>1. CASE IncludeLine \/ EndInclude
  <2>1. /\ UNCHANGED <<locals, level, defs, uses>> /\ ~Labelled(prog, line)
    BY <1>1 DEF IncludeLine, EndInclude, Take, Labelled
  <2>2. level \in {None, Inconsistent}
    BY LinePlaced DEF Types
  <2>3. Raise(Raise(level, None), None) = level
    BY <2>2 DEF Raise, None, Inconsistent, OutOfRange
  <2>4. Effect(None, None)
    BY <2>1, <2>3 DEF Effect
  <2> QED BY <2>4
<1> QED BY <1>1, CodeEffect, SectionEffect DEF LineAction

-----------------------------------------------------------------------------
(* What was known of labels and references, along the trail as it goes on.   *)
LEMMA LineBase ==
    ASSUME Inv, LineAction, Remember
    PROVE  /\ line \in Nat \ {0} /\ line + 1 <= Len(trail')
           /\ Chained(prog, trail') /\ Rising(trail')
           /\ TablesOk(locals) /\ TableOf(locals, defs, before)
           /\ defs \in Seq(Defs) /\ before \in Seq(Defs)
           /\ LabelsOf(prog, trail', defs, line)
           /\ BeforeOf(prog, trail', before)
           /\ pass = 0 => before = <<>>
           /\ pass # 0 => LabelsOf(prog, trail', before, Len(prog) + 1)
           /\ \A u \in uses : UseAt(trail', u, line)
<1>1. /\ pass # NoPass /\ Types /\ Begun /\ line \in 1 .. Len(prog) /\ Len(prog) \in Nat
  BY LinePlaced
<1>2. /\ Chained(prog, trail') /\ Rising(trail') /\ Extends(trail', trail)
      /\ Len(trail') = (IF pass = 0 THEN line + 1 ELSE Len(prog) + 1)
      /\ line + 1 <= Len(trail')
  BY LineTrail
<1>3. /\ LabelsOf(prog, trail, defs, line) /\ TableOf(locals, defs, before)
      /\ \A u \in uses : UseAt(trail, u, line)
      /\ IF pass = 0 THEN before = <<>> ELSE LabelsOf(prog, trail, before, Len(prog) + 1)
  BY <1>1 DEF Begun, Tables
<1>4. Chained(prog, trail) /\ Len(trail) = (IF pass = 0 THEN line ELSE Len(prog) + 1)
  <2>1. phase = "assembling"
    BY Taken
  <2> QED BY <1>1, <2>1 DEF Begun, OnTrail
<1>5. Len(trail) \in Nat /\ line <= Len(trail)
  BY <1>1, <1>4
<1>6. LabelsOf(prog, trail', defs, line)
  BY <1>1, <1>2, <1>3, <1>5, LabelsExtend
<1>7. ASSUME pass # 0
      PROVE  LabelsOf(prog, trail', before, Len(prog) + 1) /\ Len(trail') = Len(prog) + 1
  <2>1. Len(prog) + 1 \in Nat /\ Len(prog) + 1 <= Len(trail)
    BY <1>1, <1>4, <1>7
  <2> QED BY <1>2, <1>3, <1>5, <1>7, <2>1, LabelsExtend
<1>8. BeforeOf(prog, trail', before)
  BY <1>3, <1>7 DEF BeforeOf
<1>9. defs \in Seq(Defs) /\ before \in Seq(Defs)
  <2>1. defs \in Seq(Defs)
    BY <1>6 DEF LabelsOf
  <2>2. CASE pass = 0
    <3>1. before = <<>>
      BY <1>3, <2>2
    <3> QED BY <2>1, <3>1
  <2>3. CASE pass # 0
    BY <1>7, <2>1, <2>3 DEF LabelsOf
  <2> QED BY <2>2, <2>3
<1>10. TablesOk(locals)
  BY <1>1 DEF Types, TablesOk
<1>11. ASSUME NEW u \in uses PROVE UseAt(trail', u, line)
  <2>1. UseAt(trail, u, line)
    BY <1>3
  <2>2. u.at + 1 \in 1 .. Len(trail)
    BY <1>1, <1>5, <2>1 DEF UseAt
  <2>3. trail'[u.at + 1] = trail[u.at + 1]
    BY <1>2, <2>2 DEF Extends
  <2> QED BY <2>1, <2>3 DEF UseAt, SecAt, NumAt
<1> QED BY <1>1, <1>2, <1>3, <1>6, <1>7, <1>8, <1>9, <1>10, <1>11

(* The tables hold the labels of the pass, and of the pass before.           *)
LEMMA LineTables ==
    ASSUME Inv, LineAction, Remember, NEW lerr \in {None, Inconsistent},
           NEW rerr \in {None, Inconsistent}, Effect(lerr, rerr)
    PROVE  Types' /\ Tables'
<1>1. /\ Types /\ line \in 1 .. Len(prog) /\ Len(prog) \in Nat /\ Placed
  BY LinePlaced
<1>2. /\ line \in Nat \ {0} /\ line + 1 <= Len(trail')
      /\ Chained(prog, trail') /\ Rising(trail')
      /\ TablesOk(locals) /\ TableOf(locals, defs, before)
      /\ defs \in Seq(Defs) /\ before \in Seq(Defs)
      /\ LabelsOf(prog, trail', defs, line)
      /\ pass = 0 => before = <<>>
      /\ pass # 0 => LabelsOf(prog, trail', before, Len(prog) + 1)
      /\ \A u \in uses : UseAt(trail', u, line)
  BY LineBase
<1>3. phase = "assembling" /\ line' = line + 1 /\ UNCHANGED <<prog, pass, phase, before>>
  BY Taken
<1>4. /\ TablesOk(locals') /\ TableOf(locals', defs', before)
      /\ LabelsOf(prog, trail', defs', line + 1)
  <2>1. CASE ~Labelled(prog, line) /\ UNCHANGED <<defs, locals>>
    <3>1. LabelsOf(prog, trail', defs, line + 1)
      BY <1>2, <2>1, LabelsPass
    <3> QED BY <1>2, <2>1, <3>1
  <2>2. ASSUME NEW d \in Defs, Sets(d)
        PROVE  /\ TablesOk(locals') /\ TableOf(locals', defs', before)
               /\ LabelsOf(prog, trail', defs', line + 1)
    <3>1. /\ LabelsOf(prog, trail', Append(defs, d), line + 1)
          /\ TablesOk(WithLabel(locals, d)) /\ TableOf(WithLabel(locals, d), Append(defs, d), before)
      BY <1>2, <2>2, LabelOutcome DEF Sets
    <3> QED BY <2>2, <3>1 DEF Sets
  <2> QED BY <2>1, <2>2 DEF Effect
<1>5. ASSUME NEW u \in uses' PROVE UseAt(trail', u, line + 1)
  <2>1. CASE u \in uses
    <3>1. UseAt(trail', u, line) /\ \A x \in 1 .. line - 1 : x \in 1 .. line
      BY <1>2, <2>1
    <3>2. (line + 1) - 1 = line
      BY <1>2
    <3> QED BY <3>1, <3>2 DEF UseAt
  <2>2. CASE Refers(u)
    <3>1. line \in 1 .. (line + 1) - 1
      BY <1>2
    <3> QED BY <2>2, <3>1 DEF Refers, UseAt
  <2>3. u \in uses \/ Refers(u)
    BY <1>5 DEF Effect, Refers
  <2> QED BY <2>1, <2>2, <2>3
<1>6. Tables'
  <2>1. LabelsOf(prog', trail', defs', line') /\ TableOf(locals', defs', before')
    BY <1>3, <1>4
  <2>2. IF pass' = 0 THEN before' = <<>> ELSE LabelsOf(prog', trail', before', Len(prog') + 1)
    BY <1>2, <1>3
  <2>3. \A u \in uses' : UseAt(trail', u, line')
    BY <1>3, <1>5
  <2> QED BY <2>1, <2>2, <2>3 DEF Tables
<1>7. level' \in {None, Inconsistent}
  <2>1. level \in {None, Inconsistent}
    BY <1>1 DEF Types
  <2>2. Raise(level, rerr) \in {None, Inconsistent}
    BY <2>1, Raised
  <2>3. Raise(Raise(level, rerr), lerr) \in {None, Inconsistent}
    BY <2>2, Raised
  <2> QED BY <2>3 DEF Effect
<1>8. Types'
  <2>1. line' \in Nat
    BY <1>2, <1>3
  <2> QED BY <1>1, <1>3, <1>4, <1>7, <2>1 DEF Types, Placed, TablesOk
<1> QED BY <1>6, <1>8

(* A line adds no label before it.                                           *)
LEMMA LabelsGrow ==
    ASSUME Inv, LineAction, Remember, NEW lerr, NEW rerr, Effect(lerr, rerr)
    PROVE  /\ \A j \in DOMAIN defs : j \in DOMAIN defs' /\ defs'[j] = defs[j]
           /\ \A j \in DOMAIN defs' : j \in DOMAIN defs \/ defs'[j].at = line
           /\ \A j \in DOMAIN defs : defs[j].at \in Nat /\ defs[j].at < line
           /\ Range(defs) \subseteq Range(defs')
<1>1. /\ line \in Nat \ {0} /\ defs \in Seq(Defs) /\ LabelsOf(prog, trail', defs, line)
  BY LineBase
<1>2. ASSUME NEW j \in DOMAIN defs PROVE defs[j].at \in Nat /\ defs[j].at < line
  <2>1. defs[j].at \in 1 .. line - 1
    BY <1>1 DEF LabelsOf
  <2> QED BY <1>1, <2>1
<1>3. /\ \A j \in DOMAIN defs : j \in DOMAIN defs' /\ defs'[j] = defs[j]
      /\ \A j \in DOMAIN defs' : j \in DOMAIN defs \/ defs'[j].at = line
  <2>1. CASE defs' = defs
    BY <2>1
  <2>2. ASSUME NEW d \in Defs, defs' = Append(defs, d), d.at = line
        PROVE  /\ \A j \in DOMAIN defs : j \in DOMAIN defs' /\ defs'[j] = defs[j]
               /\ \A j \in DOMAIN defs' : j \in DOMAIN defs \/ defs'[j].at = line
    BY <1>1, <2>2
  <2> QED BY <2>1, <2>2 DEF Effect, Sets
<1> QED BY <1>2, <1>3 DEF Range

(* A new reference backwards finds the nearest label, and what an earlier    *)
(* one found remains that.                                                   *)
LEMMA LineBack ==
    ASSUME Inv, LineAction, Remember, NEW lerr, NEW rerr, Effect(lerr, rerr)
    PROVE  BackrefNearest'
<1>1. /\ line \in Nat \ {0} /\ line + 1 <= Len(trail')
      /\ Chained(prog, trail') /\ Rising(trail')
      /\ TableOf(locals, defs, before) /\ before \in Seq(Defs)
      /\ LabelsOf(prog, trail', defs, line)
      /\ BeforeOf(prog, trail', before)
      /\ \A u \in uses : UseAt(trail', u, line)
  BY LineBase
<1>2. Begun /\ Len(prog) \in Nat
  BY LinePlaced
<1>3. before' = before
  BY Taken
<1>4. /\ \A j \in DOMAIN defs : j \in DOMAIN defs' /\ defs'[j] = defs[j]
      /\ \A j \in DOMAIN defs' : j \in DOMAIN defs \/ defs'[j].at = line
      /\ \A j \in DOMAIN defs : defs[j].at \in Nat /\ defs[j].at < line
  BY LabelsGrow
<1> SUFFICES ASSUME NEW u \in uses', u.dir = "B", ~SharesNumber(u)'
             PROVE  u.value = Nearest(u)'
  BY DEF BackrefNearest
<1>5. ~SharesNumber(u)
  BY <1>3 DEF SharesNumber
<1> DEFINE T == Targets(u)
           T2 == Targets(u)'
<1>6. ASSUME u.at \in Nat, u.at <= line
      PROVE  /\ T2 = T /\ \A j \in T : defs'[j] = defs[j]
             /\ T \subseteq DOMAIN defs
  <2>1. T2 = {i \in DOMAIN defs' : /\ defs'[i].section = u.section /\ defs'[i].key = u.key
                                   /\ defs'[i].at < u.at}
    BY DEF Targets
  <2>2. T = {i \in DOMAIN defs : /\ defs[i].section = u.section /\ defs[i].key = u.key
                                 /\ defs[i].at < u.at}
    BY DEF Targets
  <2>3. ASSUME NEW i \in DOMAIN defs', defs'[i].at < u.at PROVE i \in DOMAIN defs
    BY <1>1, <1>4, <1>6, <2>3
  <2> HIDE DEF T, T2
  <2> QED BY <1>4, <2>1, <2>2, <2>3
<1>7. ASSUME u.at \in Nat, u.at <= line
      PROVE  Nearest(u)' = Nearest(u)
  <2>1. Nearest(u) = IF T = {} THEN NoValue ELSE defs[Max(T)].value
    BY DEF Nearest
  <2>2. Nearest(u)' = IF T2 = {} THEN NoValue ELSE defs'[Max(T2)].value
    BY DEF Nearest
  <2>3. ASSUME T # {} PROVE Max(T) \in T
    <3>1. defs \in Seq(Defs)
      BY LineBase
    <3>2. T \subseteq Nat /\ Len(defs) \in Nat /\ \A j \in T : j <= Len(defs)
      BY <1>6, <1>7, <3>1
    <3> HIDE DEF T
    <3> QED BY <2>3, <3>2, MaxIs
  <2> HIDE DEF T, T2
  <2> QED BY <1>6, <1>7, <2>1, <2>2, <2>3
<1>8. CASE u \in uses
  <2>1. u.at \in Nat /\ u.at <= line
    BY <1>1, <1>8 DEF UseAt
  <2> QED BY <1>2, <1>5, <1>7, <1>8, <2>1 DEF Begun, BackrefNearest
<1>9. CASE Refers(u)
  <2> DEFINE s == SecAt(trail', line)
             m == NumAt(trail', line)
             S == Named(defs, s, u.key)
  <2>1. /\ u.at = line /\ u.key \in Labels /\ u.section = s /\ u.number = m
        /\ u.value = Back(locals[s][u.key], m)
    BY <1>9 DEF Refers
  <2>2. ASSUME NEW e \in Range(before)
        PROVE  ~(e.section = s /\ e.key = u.key /\ e.number = m /\ e.at >= line)
    <3>1. e.at \in Nat
      <4>1. PICK x \in DOMAIN before : e = before[x]
        BY DEF Range
      <4>2. e \in Defs
        BY <1>1, <4>1
      <4> QED BY <4>2 DEF Defs
    <3> QED BY <1>1, <1>5, <2>1, <3>1 DEF SharesNumber
  <2>3. Back(locals[s][u.key], m) = IF S = {} THEN NoValue ELSE defs[Max(S)].value
    BY <1>1, <1>2, <2>1, <2>2, BackFinds
  <2>4. T = S
    BY <1>4, <2>1 DEF Targets, Named
  <2>5. Nearest(u) = IF T = {} THEN NoValue ELSE defs[Max(T)].value
    BY DEF Nearest
  <2> HIDE DEF s, m, S, T
  <2> QED BY <1>1, <1>7, <2>1, <2>3, <2>4, <2>5
<1>10. u \in uses \/ Refers(u)
  BY DEF Effect, Refers
<1> QED BY <1>8, <1>9, <1>10

(* Unless something is reported, references forwards still have what the     *)
(* tables say.                                                               *)
LEMMA LineSteady ==
    ASSUME Inv, LineAction, Remember, NEW lerr \in {None, Inconsistent},
           NEW rerr \in {None, Inconsistent}, Effect(lerr, rerr)
    PROVE  Steady'
<1>1. /\ line \in Nat \ {0} /\ line + 1 <= Len(trail')
      /\ Chained(prog, trail') /\ Rising(trail')
      /\ TablesOk(locals) /\ TableOf(locals, defs, before) /\ before \in Seq(Defs)
      /\ LabelsOf(prog, trail', defs, line)
      /\ pass = 0 => before = <<>>
      /\ pass # 0 => LabelsOf(prog, trail', before, Len(prog) + 1)
      /\ \A u \in uses : UseAt(trail', u, line)
  BY LineBase
<1>2. Types /\ Begun /\ Len(prog) \in Nat /\ line \in 1 .. Len(prog)
  BY LinePlaced
<1>3. pass' = pass
  BY Taken
<1>4. level \in {None, Inconsistent} /\ Raise(level, rerr) \in {None, Inconsistent}
  <2>1. level \in {None, Inconsistent}
    BY <1>2 DEF Types
  <2> QED BY <2>1, Raised
<1> SUFFICES ASSUME level' = None
             PROVE  /\ \A u \in uses' : u.value # NoValue
                    /\ \A u \in uses' : u.dir = "F" =>
                           pass # 0 /\ u.value = Fwd(locals'[u.section][u.key], u.number)
                    /\ \A j \in DOMAIN defs' : Held(locals', defs'[j]) = defs'[j].value
  BY <1>3 DEF Steady
<1>5. level = None /\ rerr = None /\ lerr = None
  <2>1. Raise(Raise(level, rerr), lerr) = None
    BY DEF Effect
  <2>2. Raise(level, rerr) = None /\ lerr = None
    BY <1>4, <2>1, Raised
  <2> QED BY <1>4, <2>2, Raised
<1>6. /\ \A u \in uses : u.value # NoValue
      /\ \A u \in uses : u.dir = "F" =>
             pass # 0 /\ u.value = Fwd(locals[u.section][u.key], u.number)
      /\ \A j \in DOMAIN defs : Held(locals, defs[j]) = defs[j].value
  BY <1>2, <1>5 DEF Begun, Steady
<1>7. ASSUME NEW u \in uses' PROVE u \in uses \/ (Refers(u) /\ u.value # NoValue)
  BY <1>5 DEF Effect, Refers, None, Inconsistent
<1>8. /\ \A j \in DOMAIN defs' : Held(locals', defs'[j]) = defs'[j].value
      /\ pass # 0 => \A s \in SectionNames, k \in Labels, m \in Nat :
                         Fwd(locals'[s][k], m) = Fwd(locals[s][k], m)
  <2>1. CASE UNCHANGED <<defs, locals>>
    BY <1>6, <2>1
  <2>2. ASSUME NEW d \in Defs, Sets(d),
               lerr = LocalError(locals[d.section][d.key], d.number, d.value)
        PROVE  /\ \A j \in DOMAIN defs' : Held(locals', defs'[j]) = defs'[j].value
               /\ pass # 0 => \A s \in SectionNames, k \in Labels, m \in Nat :
                                  Fwd(locals'[s][k], m) = Fwd(locals[s][k], m)
    <3>1. defs' = Append(defs, d) /\ locals' = WithLabel(locals, d) /\ d.at = line
          /\ LabelAt(prog, trail', d)
      BY <2>2 DEF Sets
    <3>2. LocalError(locals[d.section][d.key], d.number, d.value) = None
      BY <1>5, <2>2
    <3>3. Agreed(locals, defs)
      BY <1>6 DEF Agreed
    <3>4. Agreed(WithLabel(locals, d), Append(defs, d))
      BY <1>1, <3>1, <3>2, <3>3, LabelOutcome
    <3>5. ASSUME pass # 0 PROVE SameAhead(WithLabel(locals, d), locals)
      BY <1>1, <1>2, <3>1, <3>2, <3>5, LabelOutcome
    <3> QED BY <3>1, <3>4, <3>5 DEF Agreed, SameAhead
  <2> QED BY <2>1, <2>2 DEF Effect
<1>9. ASSUME NEW u \in uses'
      PROVE  u.section \in SectionNames /\ u.key \in Labels /\ u.number \in Nat
  <2>1. UseAt(trail', u, line + 1)
    <3>1. Tables' /\ line' = line + 1
      BY LineTables, Taken
    <3> QED BY <3>1 DEF Tables
  <2>2. u.at + 1 \in 1 .. Len(trail') /\ u.key \in Labels
    <3>1. Len(trail') \in Nat
      BY <1>1, OnPlaces
    <3> QED BY <1>1, <2>1, <3>1 DEF UseAt
  <2>3. /\ trail'[u.at + 1].cur \in SectionNames
        /\ \A n \in SectionNames : trail'[u.at + 1].numbers[n] \in Nat
    BY <1>1, <2>2, OnPlaces
  <2> QED BY <2>1, <2>2, <2>3 DEF UseAt, SecAt, NumAt
<1>10. ASSUME NEW u \in uses', u.dir = "F"
       PROVE  pass # 0 /\ u.value = Fwd(locals'[u.section][u.key], u.number)
  <2>1. CASE u \in uses
    BY <1>6, <1>8, <1>9, <1>10, <2>1
  <2>2. CASE Refers(u) /\ u.value # NoValue
    <3>1. /\ u.key \in Labels /\ u.section = SecAt(trail', line) /\ u.number = NumAt(trail', line)
          /\ u.value = Fwd(locals[u.section][u.key], u.number)
      BY <1>10, <2>2 DEF Refers
    <3>2. pass # 0
      <4>1. ASSUME pass = 0 PROVE FALSE
        <5>1. TableOf(locals, defs, <<>>)
          BY <1>1, <4>1
        <5>2. Fwd(locals[SecAt(trail', line)][u.key], NumAt(trail', line)) = NoValue
          BY <1>1, <3>1, <5>1, FwdNone
        <5> QED BY <2>2, <3>1, <5>2
      <4> QED BY <4>1
    <3> QED BY <1>8, <1>9, <3>1, <3>2
  <2> QED BY <1>7, <2>1, <2>2
<1>11. ASSUME NEW u \in uses' PROVE u.value # NoValue
  BY <1>6, <1>7
<1> QED BY <1>8, <1>10, <1>11

(* Whatever is reported has its cause.                                       *)
LEMMA LineCaused ==
    ASSUME Inv, LineAction, Remember, NEW lerr \in {None, Inconsistent},
           NEW rerr \in {None, Inconsistent}, Effect(lerr, rerr)
    PROVE  Caused'
<1>1. /\ line \in Nat \ {0} /\ TablesOk(locals) /\ TableOf(locals, defs, before)
      /\ before \in Seq(Defs) /\ LabelsOf(prog, trail', defs, line)
  BY LineBase
<1>2. Types /\ Begun
  BY LinePlaced
<1>3. phase = "assembling" /\ before' = before
  BY Taken
<1>4. level \in {None, Inconsistent} /\ Raise(level, rerr) \in {None, Inconsistent}
  <2>1. level \in {None, Inconsistent}
    BY <1>2 DEF Types
  <2> QED BY <2>1, Raised
<1> SUFFICES ASSUME level' # None
             PROVE  (\E u \in uses' : u.value = NoValue) \/ Disagree(defs', before)
  BY <1>3 DEF Caused
<1>5. level # None \/ rerr # None \/ lerr # None
  <2>1. Raise(Raise(level, rerr), lerr) # None
    BY DEF Effect
  <2> QED BY <1>4, <2>1, Raised
<1>6. ASSUME Disagree(defs, before) PROVE Disagree(defs', before)
  <2>1. Range(defs) \subseteq Range(defs')
    BY LabelsGrow
  <2> QED BY <1>6, <2>1 DEF Disagree
<1>7. CASE level # None
  <2>1. (\E u \in uses : u.value = NoValue) \/ Disagree(defs, before)
    BY <1>2, <1>3, <1>7 DEF Begun, Caused
  <2>2. uses \subseteq uses'
    BY DEF Effect, Refers
  <2> QED BY <1>6, <2>1, <2>2
<1>8. CASE rerr # None
  BY <1>8 DEF Effect, Refers
<1>9. CASE lerr # None
  <2>1. PICK d \in Defs : Sets(d) /\ lerr = LocalError(locals[d.section][d.key], d.number, d.value)
    BY <1>9 DEF Effect
  <2>2. Disagree(Append(defs, d), before)
    <3>1. defs' = Append(defs, d) /\ locals' = WithLabel(locals, d) /\ d.at = line
          /\ LabelAt(prog, trail', d)
      BY <2>1 DEF Sets
    <3>2. LET err == LocalError(locals[d.section][d.key], d.number, d.value)
          IN  err # None \/ Disagree(defs, before) => Disagree(Append(defs, d), before)
      BY <1>1, <3>1, LabelOutcome, Zenon
    <3> QED BY <1>9, <2>1, <3>2
  <2> QED BY <2>1, <2>2 DEF Sets
<1> QED BY <1>5, <1>7, <1>8, <1>9

-----------------------------------------------------------------------------
(* A line keeps the invariant.                                               *)
LEMMA LineStep == ASSUME Inv, LineAction, Remember PROVE Inv'
<1>1. PICK lerr \in {None, Inconsistent}, rerr \in {None, Inconsistent} : Effect(lerr, rerr)
  BY LineEffect
<1>2. Types' /\ Tables'
  BY <1>1, LineTables
<1>3. BackrefNearest'
  BY <1>1, LineBack
<1>4. Steady'
  BY <1>1, LineSteady
<1>5. Caused'
  BY <1>1, LineCaused
<1>6. /\ phase = "assembling" /\ line' = line + 1
      /\ UNCHANGED <<prog, pass, phase>>
  BY Taken
<1>7. /\ pass # NoPass /\ line \in 1 .. Len(prog) /\ Len(prog) \in Nat /\ Standing'
  BY LinePlaced DEF Placed
<1>8. /\ Chained(prog, trail') /\ Rising(trail')
      /\ Len(trail') = (IF pass = 0 THEN line + 1 ELSE Len(prog) + 1)
      /\ Place' = trail'[line + 1]
  BY LineTrail
<1>9. OnTrail'
  <2>1. line + 1 \in 1 .. Len(prog) + 1
    BY <1>7
  <2> QED BY <1>6, <1>7, <1>8, <2>1 DEF OnTrail, Standing
<1>10. Begun'
  BY <1>2, <1>3, <1>4, <1>5, <1>6, <1>8, <1>9 DEF Begun
<1> QED BY <1>2, <1>6, <1>7, <1>10 DEF Inv

(* At the end of a pass every number of the tables has the value of a label  *)
(* of that pass.                                                             *)
LEMMA TableOver ==
    ASSUME NEW p, NEW t, NEW locs, NEW ds, NEW bs, Chained(p, t), Len(p) \in Nat,
           LabelsOf(p, t, ds, Len(p) + 1), BeforeOf(p, t, bs), TableOf(locs, ds, bs)
    PROVE  TableOf(locs, <<>>, ds)
<1>1. ds \in Seq(Defs) /\ Len(ds) \in Nat /\ DOMAIN ds = 1 .. Len(ds)
  BY DEF LabelsOf
<1>2. Range(<<>>) = {}
  BY DEF Range
<1>3. ASSUME NEW s \in SectionNames, NEW k \in Labels, NEW i \in DOMAIN locs[s][k]
      PROVE  \E d \in Range(ds) :
                 d.section = s /\ d.key = k /\ d.number = i /\ d.value = locs[s][k][i]
  <2> DEFINE S == {j \in DOMAIN ds : ds[j].section = s /\ ds[j].key = k /\ ds[j].number = i}
  <2>1. PICK e \in Range(ds) \cup Range(bs) : e.section = s /\ e.key = k /\ e.number = i
    BY DEF TableOf
  <2>2. S # {}
    <3>1. CASE e \in Range(ds)
      BY <2>1, <3>1 DEF Range
    <3>2. CASE e \in Range(bs)
      <4>1. e.at < Len(p) + 1
        <5>1. PICK x \in DOMAIN bs : e = bs[x]
          BY <3>2 DEF Range
        <5>2. LabelsOf(p, t, bs, Len(p) + 1)
          BY <5>1 DEF BeforeOf
        <5>3. e.at \in 1 .. (Len(p) + 1) - 1
          BY <5>1, <5>2 DEF LabelsOf
        <5> QED BY <5>3
      <4>2. PICK j \in DOMAIN ds : SameSlot(ds[j], e)
        BY <3>2, <4>1, SetAgain
      <4> QED BY <2>1, <4>2 DEF SameSlot
    <3> QED BY <3>1, <3>2
  <2>3. PICK last \in S : \A j \in S : j <= last
    <3>1. S \subseteq Nat /\ \A j \in S : j <= Len(ds)
      BY <1>1
    <3> HIDE DEF S
    <3> QED BY <1>1, <2>2, <3>1, Greatest
  <2>4. \A j \in DOMAIN ds : j > last => ~SameSlot(ds[j], ds[last])
    BY <1>1, <2>3 DEF SameSlot
  <2>5. Held(locs, ds[last]) = ds[last].value
    BY <2>4 DEF TableOf
  <2> QED BY <2>5 DEF Held, Range
<1>4. \A d \in Range(ds) : d.number \in DOMAIN locs[d.section][d.key]
  BY DEF TableOf
<1> QED BY <1>2, <1>3, <1>4 DEF TableOf

(* So does the beginning of a pass, which knows the labels of the last, ...  *)
LEMMA BeginStep == ASSUME Inv, BeginPass, Remember PROVE Inv'
<1> DEFINE q == pass + 1
           chosen == Selected(sections[First], q, EndPosition(q))
           n == Number(sections[First], q, numbers[First])
<1>1. /\ phase = "between" /\ phase' = "assembling" /\ pass' = q /\ line' = 1 /\ level' = None
      /\ sections' = [sections EXCEPT ![First] = chosen]
      /\ numbers' = [numbers EXCEPT ![First] = n]
      /\ cur' = First /\ before' = defs /\ defs' = <<>> /\ uses' = {} /\ saved' = <<>>
      /\ UNCHANGED <<prog, locals>>
  BY DEF BeginPass
<1>2. Types /\ First \in SectionNames
  BY LocalConstants DEF Inv
<1>3. /\ sections \in [SectionNames -> Sects] /\ numbers \in [SectionNames -> Nat]
      /\ \A x \in SectionNames : sections[x].pass <= pass
      /\ pass \in Int /\ NoPass <= pass /\ q \in Int /\ cur \in SectionNames
      /\ \A x \in SectionNames : sections[x].pass \in Int
  <2>1. sections \in [SectionNames -> Sects]
    BY <1>2 DEF Types
  <2>2. \A x \in SectionNames : sections[x] \in Sects
    BY <2>1
  <2>3. \A s \in Sects : s.pass \in Int
    BY DEF Sects
  <2> QED BY <1>2, <2>1, <2>2, <2>3 DEF Types
<1>4. sections[First].pass # q /\ n = 0
  BY <1>2, <1>3 DEF Number
<1>5. chosen \in Sects /\ chosen.pass = q
  <2>1. sections[First] \in Sects /\ sections[cur] \in Sects
    BY <1>2, <1>3
  <2>2. EndPosition(q).pc \in Int /\ EndPosition(q).put \in Int
    BY <2>1 DEF EndPosition, StartAfter, Sects
  <2> QED BY <1>3, <1>4, <2>1, <2>2, SectionConstants DEF Selected, Sects
<1> HIDE DEF chosen, n
<1>6. /\ sections' \in [SectionNames -> Sects] /\ sections'[First].pass = q
      /\ \A x \in SectionNames : x # First => sections'[x].pass = sections[x].pass
      /\ numbers' \in [SectionNames -> Nat] /\ numbers'[First] = 0
  BY <1>1, <1>2, <1>3, <1>4, <1>5
<1>7. Place' = Start
  <2>1. \A x \in SectionNames : (IF sections'[x].pass = q THEN numbers'[x] ELSE 0) = 0
    BY <1>3, <1>6
  <2> QED BY <1>1, <2>1 DEF Place, Start
<1>8. Types'
  <2>1. \A x \in SectionNames : sections'[x].pass <= q
    BY <1>3, <1>6
  <2>2. NoPass <= q /\ saved' \in Seq(SectionNames)
    BY <1>1, <1>3 DEF NoPass
  <2> QED BY <1>1, <1>2, <1>3, <1>6, <2>1, <2>2 DEF Types
<1>9. Len(prog) \in Nat
  BY <1>2, ProgramSeq DEF Types
<1>10. /\ Chained(prog, trail') /\ Rising(trail')
       /\ Len(trail') = (IF q = 0 THEN 1 ELSE Len(prog) + 1)
       /\ IF q = 0 THEN defs = <<>> ELSE LabelsOf(prog, trail', defs, Len(prog) + 1)
       /\ TableOf(locals, <<>>, defs)
  <2>1. CASE pass = NoPass
    <3>1. /\ q = 0 /\ trail = <<>> /\ defs = <<>>
          /\ \A x \in SectionNames, k \in Labels : locals[x][k] = <<>>
      BY <2>1 DEF Inv, Unbegun, NoPass
    <3>2. trail' = <<Start>>
      BY <1>1, <1>7, <3>1 DEF Remember
    <3>3. Start \in Places
      BY <1>2 DEF Start, Places
    <3>4. Chained(prog, <<Start>>)
      <4>1. /\ <<Start>> \in Seq(Places) /\ Len(<<Start>>) = 1 /\ <<Start>>[1] = Start
        BY <3>3
      <4> QED BY <1>9, <4>1 DEF Chained
    <3>5. Rising(<<Start>>)
      BY DEF Rising, Start
    <3>6. TableOf(locals, <<>>, <<>>)
      BY <3>1 DEF TableOf, Range
    <3> QED BY <3>1, <3>2, <3>4, <3>5, <3>6
  <2>2. CASE pass # NoPass
    <3>1. Begun /\ q # 0
      BY <1>3, <2>2 DEF Inv, NoPass
    <3>2. trail' = trail
      BY <1>1, <3>1 DEF Remember
    <3>3. /\ Chained(prog, trail) /\ Rising(trail) /\ Len(trail) = Len(prog) + 1
          /\ line = Len(prog) + 1
      BY <1>1, <3>1 DEF Begun, OnTrail
    <3>4. /\ LabelsOf(prog, trail, defs, Len(prog) + 1) /\ TableOf(locals, defs, before)
          /\ IF pass = 0 THEN before = <<>> ELSE LabelsOf(prog, trail, before, Len(prog) + 1)
      BY <3>1, <3>3 DEF Begun, Tables
    <3>5. BeforeOf(prog, trail, before)
      BY <3>3, <3>4 DEF BeforeOf
    <3>6. TableOf(locals, <<>>, defs)
      BY <1>9, <3>3, <3>4, <3>5, TableOver
    <3> QED BY <3>1, <3>2, <3>3, <3>4, <3>6
  <2> QED BY <2>1, <2>2
<1>11. trail'[1] = Start
  BY <1>10 DEF Chained
<1>12. OnTrail'
  BY <1>1, <1>6, <1>7, <1>9, <1>10, <1>11 DEF OnTrail
<1>13. Tables'
  <2>1. LabelsOf(prog, trail', <<>>, 1)
    BY DEF LabelsOf
  <2>2. LabelsOf(prog', trail', defs', line') /\ TableOf(locals', defs', before')
    BY <1>1, <1>10, <2>1
  <2>3. IF pass' = 0 THEN before' = <<>> ELSE LabelsOf(prog', trail', before', Len(prog') + 1)
    BY <1>1, <1>10
  <2> QED BY <1>1, <2>2, <2>3 DEF Tables
<1>14. BackrefNearest' /\ Steady' /\ Caused'
  BY <1>1 DEF BackrefNearest, Steady, Caused
<1>15. Begun'
  BY <1>1, <1>10, <1>12, <1>13, <1>14 DEF Begun
<1>16. pass' # NoPass
  BY <1>1, <1>3 DEF NoPass
<1> QED BY <1>1, <1>8, <1>15, <1>16 DEF Inv

(* ... its end ...                                                           *)
LEMMA EndStep == ASSUME Inv, EndPass, Remember PROVE Inv'
<1>1. /\ phase = "assembling" /\ phase' = "between" /\ line > Len(prog)
      /\ sections' = FinishedSections(sections)
      /\ level' = Raise(level, FinishError(sections))
      /\ resized' = (FinishError(sections) # None)
      /\ UNCHANGED <<prog, line, pass, numbers, locals, cur, saved, defs, before, uses>>
  BY DEF EndPass
<1>2. Types /\ Begun /\ pass # NoPass
  BY <1>1 DEF Inv, Unbegun
<1>3. trail' = trail
  BY <1>1 DEF Remember
<1>4. /\ sections \in [SectionNames -> Sects] /\ level \in {None, Inconsistent}
  BY <1>2 DEF Types
<1>5. ASSUME NEW s \in Sects PROVE Verified(s) \in Sects /\ Verified(s).pass = s.pass
  <2>1. ASSUME NEW a \in Int, NEW b \in Int
        PROVE  LET t == [s EXCEPT !.last_pc = a, !.last_put = b] IN t \in Sects /\ t.pass = s.pass
    BY DEF Sects
  <2>2. s.pc \in Int /\ s.put \in Int
    BY DEF Sects
  <2> QED BY <2>1, <2>2 DEF Verified
<1>6. /\ sections' \in [SectionNames -> Sects]
      /\ \A x \in SectionNames : sections'[x].pass = sections[x].pass
  BY <1>1, <1>4, <1>5 DEF FinishedSections
<1>7. FinishError(sections) \in {None, Inconsistent}
  BY DEF FinishError
<1>8. level' \in {None, Inconsistent} /\ (level' = None <=> level = None /\ FinishError(sections) = None)
  BY <1>1, <1>4, <1>7, Raised
<1>9. Types'
  BY <1>1, <1>2, <1>6, <1>8 DEF Types
<1>10. OnTrail'
  <2>1. line \in 1 .. Len(prog) + 1 /\ Len(prog) \in Nat
    BY <1>2, ProgramSeq DEF Types, Begun, OnTrail
  <2>2. line = Len(prog) + 1
    BY <1>1, <2>1
  <2> QED BY <1>1, <1>2, <1>3, <2>2 DEF Begun, OnTrail
<1>11. Tables'
  BY <1>1, <1>2, <1>3 DEF Begun, Tables
<1>12. BackrefNearest'
  BY <1>1, <1>2 DEF Begun, BackrefNearest, SharesNumber, Nearest, Targets
<1>13. Steady'
  BY <1>1, <1>2, <1>8 DEF Begun, Steady
<1>14. Caused'
  BY <1>1, <1>2, <1>8 DEF Begun, Caused
<1>15. Begun'
  BY <1>1, <1>2, <1>3, <1>10, <1>11, <1>12, <1>13, <1>14 DEF Begun
<1> QED BY <1>1, <1>2, <1>9, <1>15 DEF Inv

(* ... and the decision after it.                                            *)
LEMMA DecideStep == ASSUME Inv, Decide, Remember PROVE Inv'
<1>1. /\ phase = "between" /\ pass # NoPass
      /\ phase' = IF Failing(level) THEN "failed" ELSE "done"
      /\ UNCHANGED <<prog, line, pass, sections, numbers, locals, cur, saved, level,
                     defs, before, uses, resized>>
  BY DEF Decide
<1>2. trail' = trail
  BY <1>1 DEF Remember
<1>3. Types /\ Begun
  BY <1>1 DEF Inv
<1>4. Types'
  BY <1>1, <1>3 DEF Types
<1>5. OnTrail' /\ Tables'
  BY <1>1, <1>2, <1>3 DEF Begun, OnTrail, Tables
<1>6. BackrefNearest' /\ Steady' /\ Caused'
  BY <1>1, <1>3 DEF Begun, BackrefNearest, SharesNumber, Nearest, Targets, Steady, Caused
<1>7. Begun'
  BY <1>1, <1>2, <1>3, <1>5, <1>6 DEF Begun
<1>8. (phase' = "done" => level = None) /\ (phase' = "failed" => level # None)
  <2>1. level \in {None, Inconsistent}
    BY <1>3 DEF Types
  <2> QED BY <1>1, <2>1 DEF Failing, None, Inconsistent
<1> QED BY <1>1, <1>4, <1>7, <1>8 DEF Inv

(* The invariant holds throughout.                                           *)
THEOREM Invariant == Spec => []Inv
<1>1. Init => Inv
  <2> SUFFICES ASSUME Init PROVE Inv
    OBVIOUS
  <2>1. NewSection \in Sects /\ NewSection.pass = NoPass
    BY SectionConstants DEF NewSection, Sects, NoPass
  <2>2. Types
    <3>1. /\ sections \in [SectionNames -> Sects]
          /\ \A n \in SectionNames : sections[n].pass <= pass
      BY <2>1 DEF Init, NoPass
    <3>2. saved \in Seq(SectionNames) /\ cur \in SectionNames
      BY LocalConstants DEF Init
    <3>3. DOMAIN locals = SectionNames /\ \A n \in SectionNames : DOMAIN locals[n] = Labels
      BY DEF Init
    <3> QED BY <3>1, <3>2, <3>3 DEF Init, Types, NoPass
  <2>3. Unbegun
    BY DEF Init, Unbegun
  <2> QED BY <2>2, <2>3 DEF Init, Inv
<1>2. Inv /\ [Next]_vars => Inv'
  <2> SUFFICES ASSUME Inv, [Next]_vars PROVE Inv'
    OBVIOUS
  <2>1. CASE LineAction /\ Remember
    BY <2>1, LineStep
  <2>2. CASE BeginPass /\ Remember
    BY <2>2, BeginStep
  <2>3. CASE EndPass /\ Remember
    BY <2>3, EndStep
  <2>4. CASE Decide /\ Remember
    BY <2>4, DecideStep
  <2>5. CASE UNCHANGED vars
    BY <2>5 DEF vars, Inv, Types, Unbegun, Begun, OnTrail, Place, Tables, BackrefNearest,
                SharesNumber, Nearest, Targets, Steady, Caused
  <2> QED BY <2>1, <2>2, <2>3, <2>4, <2>5 DEF Next, LineAction
<1> QED BY <1>1, <1>2, PTL DEF Spec

-----------------------------------------------------------------------------
(* In every pass 1B gets the nearest label before it, unless a label after   *)
(* it has its number (symbol_local_backref()).                               *)
THEOREM BackrefsAreNearest == Spec => []BackrefNearest
<1>1. Inv => BackrefNearest
  BY DEF Inv, Unbegun, Begun, BackrefNearest
<1> QED BY <1>1, Invariant, PTL

(* 1F was given the value of the nearest label after it, once a pass ends    *)
(* without a report (symbol_local_fwdref(), and the check of                 *)
(* symbol_local_set()).                                                      *)
THEOREM FwdrefsAreNearest == Spec => []FwdrefNearest
<1>1. ASSUME Inv, phase = "done", NEW u \in uses, u.dir = "F", ~SharesNumber(u)
      PROVE  u.value = Nearest(u)
  <2>1. Types /\ Begun /\ level = None
    BY <1>1 DEF Inv, Unbegun
  <2>2. /\ Chained(prog, trail) /\ Rising(trail) /\ line = Len(prog) + 1 /\ Tables
        /\ Len(trail) = (IF pass = 0 THEN line ELSE Len(prog) + 1)
    BY <1>1, <2>1 DEF Begun, OnTrail
  <2>3. /\ pass # 0 /\ u.value = Fwd(locals[u.section][u.key], u.number)
        /\ Agreed(locals, defs)
    BY <1>1, <2>1 DEF Begun, Steady, Agreed
  <2>4. /\ LabelsOf(prog, trail, defs, Len(prog) + 1) /\ LabelsOf(prog, trail, before, Len(prog) + 1)
        /\ TableOf(locals, defs, before) /\ UseAt(trail, u, Len(prog) + 1)
    BY <1>1, <2>2, <2>3 DEF Tables
  <2>5. Len(prog) \in Nat
    BY <2>1, ProgramSeq DEF Types
  <2>6. /\ u.at \in Nat \ {0} /\ u.at <= Len(prog) /\ u.key \in Labels
        /\ u.section = SecAt(trail, u.at) /\ u.number = NumAt(trail, u.at)
    BY <2>4, <2>5 DEF UseAt
  <2>7. Unshared(before, trail, u.at, u.key)
    BY <1>1, <2>6 DEF SharesNumber, Unshared
  <2> DEFINE T == Beyond(defs, SecAt(trail, u.at), u.key, u.at)
  <2>8. Fwd(locals[SecAt(trail, u.at)][u.key], NumAt(trail, u.at)) =
            IF T = {} THEN NoValue ELSE defs[Min(T)].value
    <3>1. /\ Chained(prog, trail) /\ Rising(trail) /\ Len(trail) = Len(prog) + 1
          /\ Agreed(locals, defs) /\ u.at \in Nat \ {0} /\ u.at <= Len(prog) /\ u.key \in Labels
      BY <2>2, <2>3, <2>6
    <3>2. PICK n \in Nat \ {0} : n = u.at
      BY <3>1
    <3>3. PICK q \in Nat : q = Len(prog) + 1
      BY <2>5
    <3>4. PICK k \in Labels : k = u.key
      BY <3>1
    <3>5. /\ LabelsOf(prog, trail, defs, q) /\ LabelsOf(prog, trail, before, q) /\ Len(trail) = q
          /\ n <= Len(prog) /\ Unshared(before, trail, n, k)
      BY <2>4, <2>7, <3>1, <3>2, <3>3, <3>4
    <3>6. Fwd(locals[SecAt(trail, n)][k], NumAt(trail, n)) =
              IF Beyond(defs, SecAt(trail, n), k, n) = {} THEN NoValue
              ELSE defs[Min(Beyond(defs, SecAt(trail, n), k, n))].value
      <4>1. /\ Chained(prog, trail) /\ Rising(trail) /\ TableOf(locals, defs, before)
            /\ Agreed(locals, defs)
        BY <2>4, <3>1
      <4> QED BY <2>5, <3>3, <3>5, <4>1, FwdFinds, SMTT(30)
    <3> QED BY <3>2, <3>4, <3>6
  <2>9. Targets(u) = T
    BY <1>1, <2>6 DEF Targets, Beyond
  <2>10. Nearest(u) = IF T = {} THEN NoValue ELSE defs[Min(T)].value
    BY <1>1, <2>9 DEF Nearest
  <2> QED BY <2>3, <2>6, <2>8, <2>10
<1>2. Inv => FwdrefNearest
  BY <1>1 DEF FwdrefNearest
<1> QED BY <1>2, Invariant, PTL

(* Whatever is refused has a reason in the last pass (symbol_local_set()).   *)
THEOREM RefusalsJustified == Spec => []RefusalJustified
<1>1. ASSUME Inv, phase = "failed" PROVE RefusalJustified
  <2>1. Types /\ Begun /\ level # None
    BY <1>1 DEF Inv, Unbegun
  <2>2. resized \/ (\E u \in uses : u.value = NoValue) \/ Disagree(defs, before)
    BY <1>1, <2>1 DEF Begun, Caused
  <2>3. ASSUME NEW d \in Range(defs), NEW e \in Range(before), SameSlot(d, e), d.value # e.value
        PROVE  RefusalJustified
    <3>1. /\ line = Len(prog) + 1 /\ Len(trail) = (IF pass = 0 THEN line ELSE Len(prog) + 1)
          /\ LabelsOf(prog, trail, defs, line)
          /\ IF pass = 0 THEN before = <<>> ELSE LabelsOf(prog, trail, before, Len(prog) + 1)
      BY <1>1, <2>1 DEF Begun, OnTrail, Tables
    <3>2. before # <<>> /\ pass # 0
      <4>1. PICK x \in DOMAIN before : e = before[x]
        BY DEF Range
      <4>2. before # <<>>
        BY <4>1
      <4> QED BY <3>1, <4>2
    <3>3. BeforeOf(prog, trail, before) /\ Len(prog) + 1 \in Nat
      <4>1. Len(prog) + 1 \in Nat
        BY <2>1, ProgramSeq DEF Types
      <4> QED BY <3>1, <3>2, <4>1 DEF BeforeOf
    <3>4. e.at < Len(prog) + 1
      <4>1. PICK x \in DOMAIN before : e = before[x]
        BY DEF Range
      <4>2. e.at \in 1 .. (Len(prog) + 1) - 1
        BY <3>1, <3>2, <4>1 DEF LabelsOf
      <4> QED BY <3>3, <4>2
    <3>5. PICK j \in DOMAIN defs : defs[j].at = e.at /\ SameSlot(defs[j], e)
      BY <3>1, <3>3, <3>4, SetAgain
    <3>6. defs[j] \in Range(defs)
      BY DEF Range
    <3>7. CASE defs[j].value # e.value
      BY <3>5, <3>6, <3>7 DEF RefusalJustified
    <3>8. CASE defs[j].value = e.value
      BY <2>3, <3>5, <3>6, <3>8 DEF RefusalJustified, SameSlot
    <3> QED BY <3>7, <3>8
  <2>4. ASSUME NEW d \in Range(defs), NEW e \in Range(defs), SameSlot(d, e), d.value # e.value
        PROVE  RefusalJustified
    BY <2>4 DEF RefusalJustified, SameSlot
  <2> QED BY <2>2, <2>3, <2>4 DEF Disagree, RefusalJustified
<1>2. Inv => RefusalJustified
  BY <1>1 DEF RefusalJustified
<1> QED BY <1>2, Invariant, PTL

(* In a later pass each line is met in the section, among the included files *)
(* and at the number it had in the first ("Must be consistent across         *)
(* passes", section.h:56).                                                   *)
THEOREM PlacesAlike == Spec => [](phase = "assembling" => Place = trail[line])
<1>1. Inv => (phase = "assembling" => Place = trail[line])
  BY DEF Inv, Unbegun, Begun, OnTrail
<1> QED BY <1>1, Invariant, PTL

=============================================================================
