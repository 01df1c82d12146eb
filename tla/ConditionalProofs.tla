------------------------- MODULE ConditionalProofs -------------------------
(* Proofs, for programs and nestings of any size, that conditional assembly  *)
(* selects at most one branch of each IF and implements CondSpec.            *)
EXTENDS Conditional, SequenceTheorems, TLAPS

Cond == [list : Seq(CondStates), excluded : Nat]

Nested(c) ==
    /\ c.excluded <= Depth(c)
    /\ \A i \in 1 .. Depth(c) :
           /\ Included(c) \/ i < c.excluded => c.list[i] # "if"
           /\ ~Included(c) /\ i > c.excluded => c.list[i] = "if_done"

(* An IF met in assembled code has had a branch assembled unless it is still *)
(* in state "if"; one met in excluded code has had none.                     *)
History(c, r, e) ==
    /\ r \in Seq(Nat)
    /\ Len(r) = Depth(c)
    /\ e \subseteq 1 .. Depth(c)
    /\ \A i \in 1 .. Depth(c) :
           /\ Included(c) \/ i <= c.excluded =>
                  /\ r[i] = IF c.list[i] = "if" THEN 0 ELSE 1
                  /\ i \in e => c.list[i] # "if"
           /\ ~Included(c) /\ i > c.excluded => r[i] = 0

(* The inductive invariant.                                                  *)
IInv ==
    /\ cond \in Cond
    /\ level \in ErrorTypes
    /\ lines \in Nat
    /\ Nested(cond)
    /\ History(cond, ran, elses)

(* A line is assembled exactly when every IF around it selects its current   *)
(* branch.                                                                   *)
AssembledWhenSelected == Included(cond) <=> Abstract!Assembling

(* The invariants TLC checks follow from IInv.                               *)
LEMMA IInvImplies ==
    IInv => /\ TypeOK /\ ExclusionNested /\ AtMostOneBranch /\ ElseCompletes
            /\ AssembledWhenSelected
<1> SUFFICES ASSUME IInv
             PROVE  /\ TypeOK /\ ExclusionNested /\ AtMostOneBranch /\ ElseCompletes
                    /\ AssembledWhenSelected
  OBVIOUS
<1>1. /\ cond.list \in Seq(CondStates) /\ cond.excluded \in Nat
      /\ Depth(cond) \in Nat /\ DOMAIN ran = 1 .. Depth(cond)
      /\ cond.excluded <= Depth(cond) /\ elses \subseteq 1 .. Depth(cond)
  BY DEF IInv, Cond, Depth, History, Nested
<1>2. TypeOK /\ ExclusionNested
  BY DEF IInv, Cond, TypeOK, ExclusionNested, Nested, History
<1>3. \A i \in 1 .. Depth(cond) :
          /\ Included(cond) \/ i <= cond.excluded \/ i > cond.excluded
          /\ ran[i] <= 1
          /\ i \in elses /\ (Included(cond) \/ i <= cond.excluded) => ran[i] = 1
  BY <1>1 DEF IInv, History
<1>4. AtMostOneBranch /\ ElseCompletes
  BY <1>1, <1>3 DEF AtMostOneBranch, ElseCompletes
<1>5. AssembledWhenSelected
  <2>1. DOMAIN Selection(cond) = 1 .. Depth(cond)
        /\ \A i \in 1 .. Depth(cond) :
               Selection(cond)[i] = "selected" <=> Included(cond) \/ i < cond.excluded
    BY DEF Selection
  <2>2. CASE Included(cond)
    BY <2>1, <2>2 DEF AssembledWhenSelected, Abstract!Assembling
  <2>3. CASE ~Included(cond)
    <3>1. cond.excluded \in 1 .. Depth(cond)
      BY <1>1, <2>3 DEF Included
    <3>2. Selection(cond)[cond.excluded] # "selected"
      BY <1>1, <2>1, <2>3, <3>1
    <3> QED BY <2>1, <2>3, <3>1, <3>2 DEF AssembledWhenSelected, Abstract!Assembling
  <2> QED BY <2>2, <2>3
<1> QED BY <1>2, <1>4, <1>5

-----------------------------------------------------------------------------
(* Two sequences of one length with the same elements are equal.             *)
LEMMA SameElements ==
    ASSUME NEW S, NEW s \in Seq(S), NEW t \in Seq(S), Len(s) = Len(t),
           \A i \in 1 .. Len(s) : s[i] = t[i]
    PROVE  s = t
OBVIOUS

(* Sequences: a new last element,                                            *)
LEMMA Appended ==
    ASSUME NEW S, NEW s \in Seq(S), NEW x \in S
    PROVE  /\ Append(s, x) \in Seq(S)
           /\ Len(Append(s, x)) = Len(s) + 1
           /\ Append(s, x)[Len(s) + 1] = x
           /\ \A i \in 1 .. Len(s) : Append(s, x)[i] = s[i]
OBVIOUS

(* What a selection is, element by element.                                  *)
LEMMA SelectionType ==
    ASSUME NEW c \in Cond
    PROVE  /\ Depth(c) \in Nat
           /\ Selection(c) \in Seq(Abstract!IfStates)
           /\ Len(Selection(c)) = Depth(c)
           /\ \A i \in 1 .. Depth(c) : Selection(c)[i] =
                  IF Included(c) \/ i < c.excluded THEN "selected"
                  ELSE IF c.list[i] = "if" THEN "pending" ELSE "spent"
<1>1. Depth(c) \in Nat
  BY DEF Cond, Depth
<1> QED BY <1>1 DEF Selection, Abstract!IfStates

(* IF pushes one element: in assembled code "selected" or "pending" after    *)
(* the condition, in excluded code "spent".                                  *)
LEMMA IfOpens ==
    ASSUME NEW c \in Cond, Nested(c), NEW r, NEW e, History(c, r, e),
           NEW holds \in BOOLEAN
    PROVE  LET d == AfterIf(c, holds)
               q == Append(r, IF Included(c) /\ holds THEN 1 ELSE 0)
           IN  /\ d \in Cond /\ Nested(d) /\ History(d, q, e)
               /\ Selection(d) =
                      Append(Selection(c), IF ~Included(c) THEN "spent"
                                           ELSE IF holds THEN "selected" ELSE "pending")
<1> DEFINE d == AfterIf(c, holds)
           n == Depth(c)
           top == IF Included(c) /\ ~holds THEN "if" ELSE "if_done"
           out == IF Included(c) /\ ~holds THEN n + 1 ELSE c.excluded
           one == IF Included(c) /\ holds THEN 1 ELSE 0
           q == Append(r, one)
           new == IF ~Included(c) THEN "spent"
                  ELSE IF holds THEN "selected" ELSE "pending"
<1>0. /\ c.list \in Seq(CondStates) /\ c.excluded \in Nat /\ n \in Nat
      /\ c.excluded <= n /\ n = Len(c.list)
      /\ r \in Seq(Nat) /\ Len(r) = n /\ e \subseteq 1 .. n
      /\ Included(c) <=> c.excluded = 0
  BY DEF Cond, Depth, Nested, History, Included
<1>1. d = [list |-> Append(c.list, top), excluded |-> out]
  BY DEF AfterIf, Cond, Depth
<1>2. top \in CondStates /\ out \in Nat /\ one \in Nat /\ new \in Abstract!IfStates
  BY <1>0 DEF CondStates, Abstract!IfStates
<1>3. \/ /\ Included(c) /\ top = "if_done" /\ out = 0 /\ one = 1 /\ new = "selected"
      \/ /\ Included(c) /\ top = "if" /\ out = n + 1 /\ one = 0 /\ new = "pending"
      \/ /\ ~Included(c) /\ top = "if_done" /\ out = c.excluded /\ one = 0
         /\ new = "spent"
  BY <1>0
<1> HIDE DEF d, top, out, one, new
<1>4. /\ d \in Cond /\ Depth(d) = n + 1 /\ d.list[n + 1] = top /\ d.excluded = out
      /\ \A i \in 1 .. n : d.list[i] = c.list[i]
  <2>1. d.list = Append(c.list, top) /\ d.excluded = out
    BY <1>1
  <2> DEFINE t == Append(c.list, top)
  <2>a. /\ t \in Seq(CondStates) /\ Len(t) = Len(c.list) + 1
        /\ t[Len(c.list) + 1] = top /\ \A i \in 1 .. Len(c.list) : t[i] = c.list[i]
    <3>1. c.list \in Seq(CondStates) /\ top \in CondStates
      BY <1>0, <1>2
    <3> QED BY ONLY <3>1
  <2> HIDE DEF t
  <2>b. d.list = t
    BY <2>1 DEF t
  <2>2. /\ d.list \in Seq(CondStates) /\ Len(d.list) = n + 1
        /\ d.list[n + 1] = top /\ \A i \in 1 .. n : d.list[i] = c.list[i]
    BY <1>0, <2>a, <2>b
  <2>3. d \in Cond
    BY <1>1, <1>2, <2>1, <2>2 DEF Cond
  <2> QED BY <2>1, <2>2, <2>3 DEF Depth
<1>5. /\ q \in Seq(Nat) /\ Len(q) = n + 1 /\ q[n + 1] = one
      /\ \A i \in 1 .. n : q[i] = r[i]
  <2>1. r \in Seq(Nat) /\ one \in Nat
    BY <1>0, <1>2
  <2>2. /\ q \in Seq(Nat) /\ Len(q) = Len(r) + 1 /\ q[Len(r) + 1] = one
        /\ \A i \in 1 .. Len(r) : q[i] = r[i]
    BY ONLY <2>1 DEF q
  <2> QED BY <1>0, <2>2
<1> HIDE DEF q
<1>6. /\ n + 1 \in 1 .. n + 1 /\ \A i \in 1 .. n + 1 : i \in 1 .. n \/ i = n + 1
      /\ \A i \in 1 .. n : i \in 1 .. n + 1 /\ i < n + 1
      /\ n + 1 \notin e
  BY <1>0
<1>7. \A i \in 1 .. n : Included(c) => c.list[i] # "if" /\ r[i] = 1
  BY DEF Nested, History
<1>8. Nested(d) /\ History(d, q, e)
  <2>1. CASE Included(c) /\ top = "if_done" /\ out = 0 /\ one = 1
    <3>1. \A i \in 1 .. n + 1 : d.list[i] # "if" /\ q[i] = 1
      BY <1>4, <1>5, <1>6, <1>7, <2>1
    <3> QED BY <1>0, <1>4, <1>5, <2>1, <3>1 DEF Nested, History, Included
  <2>2. CASE Included(c) /\ top = "if" /\ out = n + 1 /\ one = 0
    <3>1. \A i \in 1 .. n : d.list[i] # "if" /\ q[i] = 1
      BY <1>4, <1>5, <1>7, <2>2
    <3>2. d.list[n + 1] = "if" /\ q[n + 1] = 0 /\ ~Included(d)
      BY <1>0, <1>4, <1>5, <2>2 DEF Included
    <3>3. \A i \in 1 .. n + 1 : ~(i > d.excluded)
      BY <1>0, <1>4, <2>2
    <3>4. Nested(d)
      BY <1>0, <1>4, <1>6, <2>2, <3>1, <3>2, <3>3 DEF Nested
    <3> QED BY <1>0, <1>4, <1>5, <1>6, <3>1, <3>2, <3>3, <3>4 DEF History
  <2>3. CASE ~Included(c) /\ top = "if_done" /\ out = c.excluded /\ one = 0
    <3>1. ~Included(d) /\ n + 1 > d.excluded /\ d.excluded = c.excluded
          /\ ~(n + 1 <= d.excluded)
      BY <1>0, <1>4, <2>3 DEF Included
    <3>2. Nested(d)
      <4>1. d.excluded <= n + 1
        BY <1>0, <3>1 DEF Nested
      <4>2. \A i \in 1 .. n : /\ i < d.excluded => d.list[i] # "if"
                              /\ i > d.excluded => d.list[i] = "if_done"
        BY <1>4, <2>3, <3>1 DEF Nested
      <4>3. d.list[n + 1] = "if_done"
        BY <1>4, <2>3
      <4> QED BY <1>4, <1>6, <3>1, <4>1, <4>2, <4>3 DEF Nested
    <3> QED BY <1>0, <1>4, <1>5, <1>6, <2>3, <3>1, <3>2 DEF History
  <2> QED BY <1>3, <2>1, <2>2, <2>3
<1>9. Selection(d) = Append(Selection(c), new)
  <2>1. /\ Selection(c) \in Seq(Abstract!IfStates) /\ Len(Selection(c)) = n
        /\ \A i \in 1 .. n : Selection(c)[i] =
               IF Included(c) \/ i < c.excluded THEN "selected"
               ELSE IF c.list[i] = "if" THEN "pending" ELSE "spent"
        /\ Selection(d) \in Seq(Abstract!IfStates) /\ Len(Selection(d)) = n + 1
        /\ \A i \in 1 .. n + 1 : Selection(d)[i] =
               IF Included(d) \/ i < d.excluded THEN "selected"
               ELSE IF d.list[i] = "if" THEN "pending" ELSE "spent"
    BY <1>4, SelectionType
  <2>2. Selection(d)[n + 1] = new
    BY <1>0, <1>3, <1>4, <1>6, <2>1 DEF Included
  <2>3. \A i \in 1 .. n : Selection(d)[i] = Selection(c)[i]
    BY <1>0, <1>3, <1>4, <1>6, <2>1 DEF Included
  <2> DEFINE s == Append(Selection(c), new)
  <2>4. s \in Seq(Abstract!IfStates) /\ Len(s) = n + 1 /\ s[n + 1] = new
        /\ \A i \in 1 .. n : s[i] = Selection(c)[i]
    <3>1. Selection(c) \in Seq(Abstract!IfStates) /\ new \in Abstract!IfStates
      BY <1>2, <2>1
    <3>2. /\ s \in Seq(Abstract!IfStates) /\ Len(s) = Len(Selection(c)) + 1
          /\ s[Len(Selection(c)) + 1] = new
          /\ \A i \in 1 .. Len(Selection(c)) : s[i] = Selection(c)[i]
      BY ONLY <3>1
    <3> QED BY <2>1, <3>2
  <2> HIDE DEF s
  <2>5. \A i \in 1 .. n + 1 : Selection(d)[i] = s[i]
    BY <1>6, <2>2, <2>3, <2>4
  <2>6. Selection(d) = s
    BY <2>1, <2>4, <2>5, SameElements
  <2> QED BY <2>6 DEF s
<1> QED BY <1>4, <1>8, <1>9 DEF d, q, one, new

-----------------------------------------------------------------------------
(* another last element,                                                     *)
LEMMA Replaced ==
    ASSUME NEW S, NEW s \in Seq(S), NEW x \in S, Len(s) > 0
    PROVE  LET t == [s EXCEPT ![Len(s)] = x]
           IN  /\ t \in Seq(S) /\ Len(t) = Len(s) /\ t[Len(s)] = x
               /\ \A i \in 1 .. Len(s) - 1 : t[i] = s[i]
OBVIOUS

(* and the last element removed.                                             *)
LEMMA Popped ==
    ASSUME NEW S, NEW s \in Seq(S), Len(s) > 0
    PROVE  LET t == SubSeq(s, 1, Len(s) - 1)
           IN  /\ t \in Seq(S) /\ Len(t) = Len(s) - 1
               /\ \A i \in 1 .. Len(s) - 1 : t[i] = s[i]
<1>1. /\ Len(s) - 1 \in Int /\ 1 \in Int /\ Len(s) \in Nat
      /\ \A i \in 1 .. Len(s) - 1 : s[i] \in S
  OBVIOUS
<1> DEFINE t == SubSeq(s, 1, Len(s) - 1)
<1>2. /\ t \in Seq(S)
      /\ Len(t) = IF 1 <= Len(s) - 1 THEN Len(s) - 1 - 1 + 1 ELSE 0
      /\ \A i \in 1 .. Len(s) - 1 - 1 + 1 : t[i] = s[1 + i - 1]
  BY <1>1, SubSeqProperties
<1> HIDE DEF t
<1>3. Len(t) = Len(s) - 1
  <2>1. /\ Len(s) \in Nat /\ Len(s) > 0
        /\ Len(t) = IF 1 <= Len(s) - 1 THEN Len(s) - 1 - 1 + 1 ELSE 0
    BY <1>1, <1>2
  <2>2. \A k \in Nat : k > 0 => (IF 1 <= k - 1 THEN k - 1 - 1 + 1 ELSE 0) = k - 1
    OBVIOUS
  <2> QED BY ONLY <2>1, <2>2
<1>4. ASSUME NEW i \in 1 .. Len(s) - 1 PROVE t[i] = s[i]
  <2>1. i \in 1 .. Len(s) - 1 - 1 + 1 /\ 1 + i - 1 = i
    BY <1>1
  <2> QED BY <1>2, <2>1
<1> QED BY <1>2, <1>3, <1>4 DEF t

(* The lists an ELSIF or ELSE leaves: its state set at the top.              *)
LEMMA TopSet ==
    ASSUME NEW c \in Cond, Depth(c) > 0, NEW state \in CondStates
    PROVE  /\ SetTop(c, state) \in Seq(CondStates)
           /\ Len(SetTop(c, state)) = Depth(c)
           /\ SetTop(c, state)[Depth(c)] = state
           /\ \A i \in 1 .. Depth(c) - 1 : SetTop(c, state)[i] = c.list[i]
<1>1. c.list \in Seq(CondStates) /\ Len(c.list) > 0
  BY DEF Cond, Depth
<1> QED BY <1>1, Replaced DEF SetTop, Depth

(* A branch of the excluding IF is selected: it ends the exclusion.          *)
LEMMA BranchSelected ==
    ASSUME NEW c \in Cond, Nested(c), NEW r, NEW e, History(c, r, e),
           TopExcludes(c), Top(c) = "if", NEW state \in {"if_done", "else"},
           NEW more \in SUBSET {Depth(c)}
    PROVE  LET d == [list |-> SetTop(c, state), excluded |-> 0]
               q == [r EXCEPT ![Depth(c)] = @ + 1]
           IN  /\ d \in Cond /\ Nested(d) /\ History(d, q, e \cup more)
               /\ Depth(d) = Depth(c)
               /\ \A i \in 1 .. Depth(c) - 1 : Selection(c)[i] = "selected"
               /\ Selection(c)[Depth(c)] = "pending"
               /\ Selection(d) = [Selection(c) EXCEPT ![Depth(c)] = "selected"]
<1> DEFINE n == Depth(c)
           l == SetTop(c, state)
           d == [list |-> l, excluded |-> 0]
           q == [r EXCEPT ![n] = @ + 1]
<1>0. /\ n \in Nat /\ n > 0 /\ c.excluded = n /\ n = Len(c.list)
      /\ c.list[n] = "if" /\ n \in 1 .. n
      /\ r \in Seq(Nat) /\ Len(r) = n /\ e \subseteq 1 .. n
      /\ state \in CondStates /\ state # "if"
  BY DEF Cond, TopExcludes, Top, Depth, History, CondStates
<1>1. /\ l \in Seq(CondStates) /\ Len(l) = n /\ l[n] = state
      /\ \A i \in 1 .. n - 1 : l[i] = c.list[i]
  BY <1>0, TopSet
<1> HIDE DEF l
<1>2. d \in Cond /\ Depth(d) = n /\ d.list = l /\ d.excluded = 0 /\ Included(d)
  BY <1>1 DEF Cond, Depth, Included
<1>3. \A i \in 1 .. n : i # n => i \in 1 .. n - 1 /\ i < c.excluded
  BY <1>0
<1>4. \A i \in 1 .. n - 1 : i \in 1 .. n /\ i < c.excluded /\ i <= c.excluded
                              /\ c.list[i] # "if" /\ r[i] = 1
  BY <1>0 DEF Nested, History
<1>5. r[n] = 0
  BY <1>0 DEF History
<1>6. q \in Seq(Nat) /\ Len(q) = n /\ \A i \in 1 .. n : q[i] = 1
  <2>1. q \in Seq(Nat) /\ Len(q) = n /\ q[n] = 1
        /\ \A i \in 1 .. n - 1 : q[i] = r[i]
    BY <1>0, <1>5
  <2> HIDE DEF q
  <2> QED BY <1>3, <1>4, <2>1
<1> HIDE DEF d, q
<1>7. \A i \in 1 .. n : d.list[i] # "if"
  BY <1>0, <1>1, <1>2, <1>3, <1>4
<1>8. Nested(d)
  BY <1>0, <1>2, <1>7 DEF Nested, Included
<1>9. History(d, q, e \cup more)
  BY <1>0, <1>2, <1>6, <1>7 DEF History
<1>10. \A i \in 1 .. n : Selection(d)[i] = "selected"
  BY <1>2, SelectionType
<1>11. /\ \A i \in 1 .. n - 1 : Selection(c)[i] = "selected"
       /\ Selection(c)[n] = "pending"
  <2>1. ~Included(c)
    BY <1>0 DEF Included
  <2>2. \A i \in 1 .. n : Selection(c)[i] =
            IF Included(c) \/ i < c.excluded THEN "selected"
            ELSE IF c.list[i] = "if" THEN "pending" ELSE "spent"
    BY SelectionType
  <2>3. Selection(c)[n] = "pending"
    <3>1. ~(n < c.excluded)
      BY <1>0
    <3> QED BY <1>0, <2>1, <2>2, <3>1
  <2> QED BY <1>4, <2>2, <2>3
<1>12. Selection(d) = [Selection(c) EXCEPT ![n] = "selected"]
  BY <1>2, <1>3, <1>10, <1>11, SelectionType DEF Abstract!IfStates
<1> QED BY <1>2, <1>8, <1>9, <1>11, <1>12 DEF d, q, l

(* The selected branch of the innermost IF ends: the IF excludes from here.  *)
LEMMA BranchEnds ==
    ASSUME NEW c \in Cond, Nested(c), NEW r, NEW e, History(c, r, e),
           Included(c), Depth(c) > 0, NEW l \in {c.list, SetTop(c, "else")},
           NEW more \in SUBSET {Depth(c)}
    PROVE  LET d == [list |-> l, excluded |-> Depth(c)]
           IN  /\ d \in Cond /\ Nested(d) /\ History(d, r, e \cup more)
               /\ Depth(d) = Depth(c) /\ ~Included(d)
               /\ Selection(c)[Depth(c)] = "selected"
               /\ Selection(d) = [Selection(c) EXCEPT ![Depth(c)] = "spent"]
<1> DEFINE n == Depth(c)
           d == [list |-> l, excluded |-> n]
<1>0. /\ n \in Nat /\ n > 0 /\ n = Len(c.list) /\ n \in 1 .. n
      /\ r \in Seq(Nat) /\ Len(r) = n /\ e \subseteq 1 .. n
      /\ "else" \in CondStates
  BY DEF Cond, Depth, History, CondStates
<1>1. \A i \in 1 .. n : c.list[i] # "if" /\ r[i] = 1
  BY DEF Nested, History
<1>2. l \in Seq(CondStates) /\ Len(l) = n /\ \A i \in 1 .. n : l[i] # "if"
  <2>1. CASE l = c.list
    BY <1>0, <1>1, <2>1 DEF Cond
  <2>2. CASE l = SetTop(c, "else")
    <3>1. /\ l \in Seq(CondStates) /\ Len(l) = n /\ l[n] = "else"
          /\ \A i \in 1 .. n - 1 : l[i] = c.list[i]
      BY <1>0, <2>2, TopSet
    <3>2. \A i \in 1 .. n : i \in 1 .. n - 1 \/ i = n
      BY <1>0
    <3> QED BY <1>1, <3>1, <3>2
  <2> QED BY <2>1, <2>2
<1>3. d \in Cond /\ Depth(d) = n /\ d.list = l /\ d.excluded = n /\ ~Included(d)
  BY <1>0, <1>2 DEF Cond, Depth, Included
<1> HIDE DEF d
<1>4. \A i \in 1 .. n : ~(i > n) /\ i <= n /\ (i < n \/ i = n) /\ ~(n < n)
  BY <1>0
<1>5. Nested(d)
  BY <1>0, <1>2, <1>3, <1>4 DEF Nested
<1>6. History(d, r, e \cup more)
  BY <1>0, <1>1, <1>2, <1>3, <1>4 DEF History
<1>7. \A i \in 1 .. n : /\ Selection(c)[i] = "selected"
                         /\ Selection(d)[i] = IF i < n THEN "selected" ELSE "spent"
  BY <1>2, <1>3, <1>4, SelectionType
<1>8. Selection(d) = [Selection(c) EXCEPT ![n] = "spent"]
  BY <1>0, <1>3, <1>4, <1>7, SelectionType DEF Abstract!IfStates
<1> QED BY <1>0, <1>3, <1>5, <1>6, <1>7, <1>8 DEF d

(* ENDIF pops one element.                                                   *)
LEMMA EndifCloses ==
    ASSUME NEW c \in Cond, Nested(c), NEW r, NEW e, History(c, r, e), Depth(c) > 0,
           NEW q, q = SubSeq(r, 1, Depth(c) - 1), NEW f, f = e \ {Depth(c)}
    PROVE  LET d == AfterEndif(c)
           IN  /\ d \in Cond /\ Nested(d) /\ History(d, q, f)
               /\ Len(Selection(c)) > 0
               /\ Selection(d) = SubSeq(Selection(c), 1, Len(Selection(c)) - 1)
<1> DEFINE n == Depth(c)
           l == SubSeq(c.list, 1, n - 1)
           out == IF TopExcludes(c) THEN 0 ELSE c.excluded
           d == AfterEndif(c)
<1>0. /\ n \in Nat /\ n > 0 /\ n = Len(c.list) /\ c.list \in Seq(CondStates)
      /\ r \in Seq(Nat) /\ Len(r) = n /\ e \subseteq 1 .. n
      /\ c.excluded \in Nat /\ c.excluded <= n
  BY DEF Cond, Depth, Nested, History
<1>1. /\ l \in Seq(CondStates) /\ Len(l) = n - 1
      /\ \A i \in 1 .. n - 1 : l[i] = c.list[i]
  BY <1>0, Popped
<1>2. q \in Seq(Nat) /\ Len(q) = n - 1 /\ \A i \in 1 .. n - 1 : q[i] = r[i]
  BY <1>0, Popped
<1>3. d = [list |-> l, excluded |-> out]
  BY <1>0 DEF AfterEndif
<1>4. \/ out = 0 /\ (c.excluded = 0 \/ c.excluded = n)
      \/ out = c.excluded /\ c.excluded # 0 /\ c.excluded <= n - 1
  BY <1>0 DEF TopExcludes
<1> HIDE DEF l, d, out
<1>5. d \in Cond /\ Depth(d) = n - 1 /\ d.list = l /\ d.excluded = out
  BY <1>0, <1>1, <1>3, <1>4 DEF Cond, Depth
<1>6. \A i \in 1 .. n - 1 :
          /\ i \in 1 .. n
          /\ out = 0 => Included(c) \/ i < c.excluded
  BY <1>0, <1>4 DEF Included
<1>7. out # 0 => out = c.excluded /\ ~Included(c)
  BY <1>4 DEF Included
<1>8. Nested(d)
  <2>1. CASE out = 0
    <3>1. \A i \in 1 .. n - 1 : d.list[i] # "if"
      BY <1>1, <1>5, <1>6, <2>1 DEF Nested
    <3> QED BY <1>0, <1>5, <2>1, <3>1 DEF Nested, Included
  <2>2. CASE out # 0
    <3>1. /\ d.excluded = c.excluded /\ d.excluded <= n - 1
          /\ ~Included(c) /\ ~Included(d)
      BY <1>4, <1>5, <2>2 DEF Included
    <3> QED BY <1>1, <1>5, <1>6, <3>1 DEF Nested
  <2> QED BY <2>1, <2>2
<1>9. History(d, q, f)
  <2>1. f \subseteq 1 .. n - 1
    <3>1. \A i \in 1 .. n : i # n => i \in 1 .. n - 1
      BY <1>0
    <3> QED BY <1>0, <3>1
  <2>2. CASE out = 0
    <3>1. \A i \in 1 .. n - 1 : /\ d.list[i] # "if" /\ q[i] = 1
      <4>1. \A i \in 1 .. n - 1 : i < c.excluded => i <= c.excluded
        BY <1>0
      <4>2. \A i \in 1 .. n - 1 : c.list[i] # "if" /\ r[i] = 1
        BY <1>6, <2>2, <4>1 DEF Nested, History
      <4> QED BY <1>1, <1>2, <1>5, <4>2
    <3>2. Included(d)
      BY <1>5, <2>2 DEF Included
    <3> QED BY <1>0, <1>2, <1>5, <2>1, <3>1, <3>2 DEF History
  <2>3. CASE out # 0
    <3>1. d.excluded = c.excluded /\ ~Included(c) /\ ~Included(d)
      BY <1>5, <1>7, <2>3 DEF Included
    <3>2. \A i \in 1 .. n - 1 : /\ i \in 1 .. n /\ d.list[i] = c.list[i]
                                 /\ q[i] = r[i] /\ (i \in f => i \in e)
      BY <1>1, <1>2, <1>5, <1>6
    <3> QED BY <1>2, <1>5, <2>1, <3>1, <3>2 DEF History
  <2> QED BY <2>2, <2>3
<1>10. \A i \in 1 .. n - 1 : Selection(d)[i] = Selection(c)[i]
  <2>1. \A i \in 1 .. n - 1 : d.list[i] = c.list[i] /\ i \in 1 .. n
    BY <1>1, <1>5, <1>6
  <2>2. \A i \in 1 .. n - 1 : (Included(d) \/ i < d.excluded)
                                <=> (Included(c) \/ i < c.excluded)
    BY <1>4, <1>5, <1>6 DEF Included
  <2> QED BY <1>5, <2>1, <2>2, SelectionType
<1>11. Selection(d) = SubSeq(Selection(c), 1, Len(Selection(c)) - 1)
  <2> DEFINE s == Selection(c)
             t == SubSeq(s, 1, Len(s) - 1)
  <2>1. s \in Seq(Abstract!IfStates) /\ Len(s) = n
    BY SelectionType
  <2> HIDE DEF s
  <2>2. /\ t \in Seq(Abstract!IfStates) /\ Len(t) = n - 1
        /\ \A i \in 1 .. n - 1 : t[i] = s[i]
    BY <1>0, <2>1, Popped
  <2> HIDE DEF t
  <2>3. Selection(d) \in Seq(Abstract!IfStates) /\ Len(Selection(d)) = n - 1
    BY <1>5, SelectionType
  <2>4. \A i \in 1 .. n - 1 : Selection(d)[i] = t[i]
    BY <1>10, <2>2 DEF s
  <2>5. Selection(d) = t
    BY <2>2, <2>3, <2>4, SameElements
  <2> QED BY <2>5 DEF t, s
<1>12. Len(Selection(c)) > 0
  BY <1>0, SelectionType
<1> QED BY <1>5, <1>8, <1>9, <1>11, <1>12 DEF d

-----------------------------------------------------------------------------
(* Both specifications start with no IF.                                     *)
LEMMA InitIInv == Init => IInv /\ Abstract!Init
<1> SUFFICES ASSUME Init PROVE IInv /\ Abstract!Init
  OBVIOUS
<1>1. cond \in Cond /\ Depth(cond) = 0 /\ cond.excluded = 0 /\ ran \in Seq(Nat)
  BY DEF Init, NoConds, Cond, Depth
<1>2. level \in ErrorTypes /\ lines \in Nat
  BY CondConstants DEF Init, ErrorTypes, None, Fatal
<1>3. Nested(cond) /\ History(cond, ran, elses)
  BY <1>1 DEF Init, Nested, History
<1>4. Selection(cond) = <<>>
  BY <1>1, SelectionType
<1> QED BY <1>1, <1>2, <1>3, <1>4 DEF IInv, Abstract!Init

(* A report leaves error_level an error type.                                *)
LEMMA Levels ==
    ASSUME NEW l \in ErrorTypes, NEW e \in ErrorTypes
    PROVE  Raise(l, e) \in ErrorTypes
BY DEF Raise, ErrorTypes, None, Fatal, Inconsistent, OutOfRange

(* What every step does to the level and to the lines left.                  *)
LEMMA CounterStep ==
    ASSUME IInv, Next
    PROVE  level' \in ErrorTypes /\ lines' \in Nat
<1>1. lines \in Nat /\ level \in ErrorTypes
  BY DEF IInv
<1>2. \/ lines > 1 /\ lines' = lines - 1
      \/ lines' = 0
  BY DEF Next, NextLine, IfLine, ElsifLine, ElseLine, EndifLine, OtherLine,
         BadCondition, EndProg
<1>3. \/ level' = level
      \/ \E wrong \in BOOLEAN : level' = Raise(level, IF wrong THEN Syntax ELSE None)
  BY Zenon DEF Next, IfLine, ElsifLine, ElseLine, EndifLine, OtherLine,
         BadCondition, EndProg, Report
<1>4. \A wrong \in BOOLEAN : (IF wrong THEN Syntax ELSE None) \in ErrorTypes
  BY DEF ErrorTypes, None, Fatal, Syntax
<1>5. level' \in ErrorTypes
  BY <1>1, <1>3, <1>4, Levels
<1> QED BY <1>1, <1>2, <1>5

-----------------------------------------------------------------------------
(* What every step that touches the stack keeps, and how it looks from the   *)
(* abstract specification.                                                   *)
Step ==
    /\ cond' \in Cond /\ Nested(cond') /\ History(cond', ran', elses')
    /\ Abstract!Next \/ Selection(cond)' = Selection(cond)

(* A line that leaves the conditions alone is a step of nested selection.    *)
LEMMA Unmoved ==
    ASSUME IInv, cond' = cond, ran' = ran, elses' = elses
    PROVE  Step
BY DEF Step, IInv

(* IF opens a level of both.                                                 *)
LEMMA IfStep ==
    ASSUME IInv, NEW holds \in BOOLEAN, IfLine(holds)
    PROVE  Step
<1> DEFINE d == AfterIf(cond, holds)
           new == IF ~Included(cond) THEN "spent"
                  ELSE IF holds THEN "selected" ELSE "pending"
<1>1. cond \in Cond /\ Nested(cond) /\ History(cond, ran, elses)
  BY DEF IInv
<1>2. /\ cond' = d /\ elses' = elses
      /\ ran' = Append(ran, IF Included(cond) /\ holds THEN 1 ELSE 0)
  BY DEF IfLine
<1>3. /\ d \in Cond /\ Nested(d) /\ History(d, ran', elses)
      /\ Selection(d) = Append(Selection(cond), new)
  BY <1>1, <1>2, IfOpens
<1> HIDE DEF d
<1>4. cond' \in Cond /\ Nested(cond') /\ History(cond', ran', elses')
  BY <1>2, <1>3
<1>5. Selection(cond)' = Append(Selection(cond), new)
  BY <1>2, <1>3 DEF Selection, Depth, Included
<1>6. Abstract!Open
  <2>1. AssembledWhenSelected
    BY IInvImplies
  <2> QED BY <1>5, <2>1 DEF AssembledWhenSelected, Abstract!Open
<1> QED BY <1>4, <1>6 DEF Step, Abstract!Next

(* The three ways an ELSIF or ELSE moves the innermost IF on.                *)
LEMMA MovesOn ==
    ASSUME IInv, NEW s \in {"spent", "selected"},
           Depth(cond) > 0, Depth(cond') = Depth(cond),
           Selection(cond)' = [Selection(cond) EXCEPT ![Depth(cond)] = s],
           \/ s = "spent" /\ Selection(cond)[Depth(cond)] = "selected"
           \/ /\ s = "selected" /\ Selection(cond)[Depth(cond)] = "pending"
              /\ \A i \in 1 .. Depth(cond) - 1 : Selection(cond)[i] = "selected"
    PROVE  Abstract!Next
<1>1. Len(Selection(cond)) = Depth(cond)
  BY SelectionType DEF IInv
<1> QED BY <1>1 DEF Abstract!Next, Abstract!Branch

(* ELSIF selects a branch only if none was,                                  *)
LEMMA ElsifStep ==
    ASSUME IInv, NEW holds \in BOOLEAN, ElsifLine(holds)
    PROVE  Step
<1> DEFINE n == Depth(cond)
<1>1. cond \in Cond /\ Nested(cond) /\ History(cond, ran, elses) /\ n \in Nat
  BY SelectionType DEF IInv
<1>2. /\ cond' = AfterElsif(cond, holds) /\ elses' = elses
      /\ ran' = IF ~Included(cond) /\ Included(cond')
                THEN [ran EXCEPT ![n] = @ + 1] ELSE ran
  BY DEF ElsifLine, CountBranch
<1>3. CASE ~Misplaced(cond) /\ Included(cond)
  <2> DEFINE d == [list |-> cond.list, excluded |-> n]
  <2>1. cond' = d /\ n > 0
    <3>1. ~TopExcludes(cond) /\ ~EvaluatesElsif(cond) /\ n > 0
      BY <1>1, <1>3 DEF EvaluatesElsif, TopExcludes, Included, Misplaced
    <3>2. cond' = [cond EXCEPT !.excluded = n]
      BY <1>2, <1>3, <3>1 DEF AfterElsif
    <3> QED BY <1>1, <3>1, <3>2 DEF Cond
  <2>2. /\ d \in Cond /\ Nested(d) /\ History(d, ran, elses \cup {})
        /\ Depth(d) = n /\ ~Included(d)
        /\ Selection(cond)[n] = "selected"
        /\ Selection(d) = [Selection(cond) EXCEPT ![n] = "spent"]
    BY <1>1, <1>3, <2>1, BranchEnds
  <2> HIDE DEF d
  <2>3. ran' = ran /\ Selection(cond)' = Selection(d)
    BY <1>2, <2>1, <2>2 DEF Selection, Depth, Included
  <2>4. Abstract!Next
    BY <2>1, <2>2, <2>3, MovesOn
  <2> QED BY <1>2, <2>1, <2>2, <2>3, <2>4 DEF Step
<1>4. CASE ~Misplaced(cond) /\ ~Included(cond) /\ EvaluatesElsif(cond) /\ holds
  <2> DEFINE d == [list |-> SetTop(cond, "if_done"), excluded |-> 0]
             q == [ran EXCEPT ![n] = @ + 1]
  <2>1. cond' = d /\ n > 0 /\ TopExcludes(cond) /\ Top(cond) = "if"
    BY <1>1, <1>2, <1>4 DEF AfterElsif, EvaluatesElsif, TopExcludes
  <2>2. /\ d \in Cond /\ Nested(d) /\ History(d, q, elses \cup {})
        /\ Depth(d) = n
        /\ \A i \in 1 .. n - 1 : Selection(cond)[i] = "selected"
        /\ Selection(cond)[n] = "pending"
        /\ Selection(d) = [Selection(cond) EXCEPT ![n] = "selected"]
    BY <1>1, <2>1, BranchSelected
  <2>3. Included(d)
    BY DEF Included
  <2> HIDE DEF d
  <2>4. ran' = q /\ Selection(cond)' = Selection(d)
    BY <1>2, <1>4, <2>1, <2>3 DEF Selection, Depth, Included
  <2> HIDE DEF q
  <2>5. Abstract!Next
    BY <2>1, <2>2, <2>4, MovesOn
  <2> QED BY <1>2, <2>1, <2>2, <2>4, <2>5 DEF Step
<1>5. CASE \/ Misplaced(cond)
           \/ ~Included(cond) /\ ~(EvaluatesElsif(cond) /\ holds)
  <2>1. cond' = cond
    BY <1>2, <1>5 DEF AfterElsif
  <2>2. ran' = ran
    BY <1>2, <2>1
  <2> QED BY <1>2, <2>1, <2>2, Unmoved
<1> QED BY <1>3, <1>4, <1>5

(* and so does ELSE.                                                         *)
LEMMA ElseStep ==
    ASSUME IInv, ElseLine
    PROVE  Step
<1> DEFINE n == Depth(cond)
<1>1. cond \in Cond /\ Nested(cond) /\ History(cond, ran, elses) /\ n \in Nat
  BY SelectionType DEF IInv
<1>2. /\ cond' = AfterElse(cond)
      /\ elses' = IF Misplaced(cond) THEN elses ELSE elses \cup {n}
      /\ ran' = IF ~Included(cond) /\ Included(cond')
                THEN [ran EXCEPT ![n] = @ + 1] ELSE ran
  BY DEF ElseLine, CountBranch
<1>3. CASE Misplaced(cond)
  <2>1. cond' = cond /\ elses' = elses
    BY <1>2, <1>3 DEF AfterElse
  <2> QED BY <1>2, <2>1, Unmoved
<1>4. CASE ~Misplaced(cond) /\ TopExcludes(cond) /\ Top(cond) = "if"
  <2> DEFINE d == [list |-> SetTop(cond, "else"), excluded |-> 0]
             q == [ran EXCEPT ![n] = @ + 1]
  <2>1. cond' = d /\ n > 0 /\ ~Included(cond) /\ elses' = elses \cup {n}
    BY <1>1, <1>2, <1>4 DEF AfterElse, TopExcludes, Included
  <2>2. /\ d \in Cond /\ Nested(d) /\ History(d, q, elses \cup {n})
        /\ Depth(d) = n
        /\ \A i \in 1 .. n - 1 : Selection(cond)[i] = "selected"
        /\ Selection(cond)[n] = "pending"
        /\ Selection(d) = [Selection(cond) EXCEPT ![n] = "selected"]
    BY <1>1, <1>4, BranchSelected
  <2>3. Included(d)
    BY DEF Included
  <2> HIDE DEF d
  <2>4. ran' = q /\ Selection(cond)' = Selection(d)
    BY <1>2, <2>1, <2>3 DEF Selection, Depth, Included
  <2> HIDE DEF q
  <2>5. Abstract!Next
    BY <2>1, <2>2, <2>4, MovesOn
  <2> QED BY <2>1, <2>2, <2>4, <2>5 DEF Step
<1>5. CASE ~Misplaced(cond) /\ Included(cond)
  <2> DEFINE d == [list |-> SetTop(cond, "else"), excluded |-> n]
  <2>0. ~TopExcludes(cond)
    BY <1>1, <1>5 DEF TopExcludes, Included
  <2>1. cond' = d /\ n > 0 /\ elses' = elses \cup {n}
    BY <1>1, <1>2, <1>5, <2>0 DEF AfterElse, Misplaced
  <2>2. /\ d \in Cond /\ Nested(d) /\ History(d, ran, elses \cup {n})
        /\ Depth(d) = n /\ ~Included(d)
        /\ Selection(cond)[n] = "selected"
        /\ Selection(d) = [Selection(cond) EXCEPT ![n] = "spent"]
    BY <1>1, <1>5, <2>1, BranchEnds
  <2> HIDE DEF d
  <2>3. ran' = ran /\ Selection(cond)' = Selection(d)
    BY <1>2, <2>1, <2>2 DEF Selection, Depth, Included
  <2>4. Abstract!Next
    BY <2>1, <2>2, <2>3, MovesOn
  <2> QED BY <2>1, <2>2, <2>3, <2>4 DEF Step
<1>6. CASE ~Misplaced(cond) /\ ~Included(cond)
           /\ ~(TopExcludes(cond) /\ Top(cond) = "if")
  <2>1. cond' = cond /\ elses' = elses \cup {n} /\ n > 0
    BY <1>1, <1>2, <1>6 DEF AfterElse, Misplaced
  <2>2. ran' = ran
    BY <1>2, <2>1
  <2>3. n <= cond.excluded => cond.list[n] # "if"
    BY <1>1, <1>6, <2>1 DEF TopExcludes, Nested, Top, Cond
  <2>4. History(cond, ran, elses \cup {n})
    <3>1. n \in 1 .. n
      BY <1>1, <2>1
    <3> QED BY <1>1, <1>6, <2>3, <3>1 DEF History
  <2> QED BY <1>1, <2>1, <2>2, <2>4 DEF Step
<1> QED BY <1>3, <1>4, <1>5, <1>6

(* ENDIF closes a level of both, and ends the exclusion if it began there.   *)
LEMMA EndifStep ==
    ASSUME IInv, EndifLine
    PROVE  Step
<1> DEFINE n == Depth(cond)
           d == AfterEndif(cond)
<1>1. /\ cond \in Cond /\ Nested(cond) /\ History(cond, ran, elses) /\ n \in Nat
      /\ elses \subseteq 1 .. n
  BY SelectionType DEF IInv, History
<1>2. /\ cond' = d /\ elses' = elses \ {n}
      /\ ran' = IF n = 0 THEN ran ELSE SubSeq(ran, 1, n - 1)
  BY DEF EndifLine
<1>3. CASE n = 0
  BY <1>1, <1>2, <1>3, Unmoved DEF AfterEndif
<1>4. CASE n > 0
  <2>1. /\ d \in Cond /\ Nested(d) /\ History(d, ran', elses')
        /\ Len(Selection(cond)) > 0
        /\ Selection(d) = SubSeq(Selection(cond), 1, Len(Selection(cond)) - 1)
    <3>1. ran' = SubSeq(ran, 1, n - 1) /\ elses' = elses \ {n}
      BY <1>1, <1>2, <1>4
    <3>2. cond \in Cond /\ Nested(cond) /\ History(cond, ran, elses) /\ n > 0
      BY <1>1, <1>4
    <3> QED BY <3>1, <3>2, EndifCloses
  <2> HIDE DEF d
  <2>2. Selection(cond)' = Selection(d)
    BY <1>2 DEF Selection, Depth, Included
  <2>3. Abstract!Close
    BY <2>1, <2>2 DEF Abstract!Close
  <2> QED BY <1>2, <2>1, <2>3 DEF Step, Abstract!Next
<1> QED BY <1>1, <1>3, <1>4

(* Every line preserves the invariant and is a step of nested selection.     *)
LEMMA NextIInv ==
    ASSUME IInv, [Next]_vars
    PROVE  IInv' /\ [Abstract!Next]_(Selection(cond))
<1>1. CASE UNCHANGED vars
  <2>1. cond' = cond /\ ran' = ran /\ elses' = elses /\ level' = level /\ lines' = lines
    BY <1>1 DEF vars
  <2>2. Selection(cond)' = Selection(cond)
    BY <2>1 DEF Selection, Depth, Included
  <2> QED BY <2>1, <2>2 DEF IInv
<1>2. CASE Next
  <2>1. Step
    <3>1. ASSUME NEW holds \in BOOLEAN, IfLine(holds) PROVE Step
      BY <3>1, IfStep
    <3>2. ASSUME NEW holds \in BOOLEAN, ElsifLine(holds) PROVE Step
      BY <3>2, ElsifStep
    <3>3. CASE ElseLine
      BY <3>3, ElseStep
    <3>4. CASE EndifLine
      BY <3>4, EndifStep
    <3>5. CASE OtherLine
      BY <3>5, Unmoved DEF OtherLine
    <3>6. CASE BadCondition
      BY <3>6, Unmoved DEF BadCondition
    <3>7. CASE EndProg
      BY <3>7, Unmoved DEF EndProg
    <3> QED BY <1>2, <3>1, <3>2, <3>3, <3>4, <3>5, <3>6, <3>7 DEF Next
  <2>2. level' \in ErrorTypes /\ lines' \in Nat
    BY <1>2, CounterStep
  <2> QED BY <2>1, <2>2 DEF Step, IInv
<1> QED BY <1>1, <1>2

-----------------------------------------------------------------------------
(* The invariant holds for every program, every nesting and every outcome of *)
(* the conditions.                                                           *)
THEOREM Invariance == Spec => []IInv
<1>1. Init => IInv
  BY InitIInv
<1>2. IInv /\ [Next]_vars => IInv'
  BY NextIInv
<1> QED BY <1>1, <1>2, PTL DEF Spec

(* The variables keep their types.                                           *)
THEOREM TypeCorrect == Spec => []TypeOK
BY Invariance, IInvImplies, PTL

(* No IF has two of its branches assembled, and one that has met its ELSE    *)
(* in assembled code has had exactly one.                                    *)
THEOREM BranchesExact == Spec => []OneBranchEach
<1>1. IInv => OneBranchEach
  BY IInvImplies DEF OneBranchEach
<1> QED BY <1>1, Invariance, PTL

(* The IF that excludes is open, and none inside it can select a branch.      *)
THEOREM ExclusionCorrect == Spec => []ExclusionNested
<1>1. IInv => ExclusionNested
  BY IInvImplies
<1> QED BY <1>1, Invariance, PTL

(* The stack with its marker implements nested selection.                    *)
THEOREM Refinement == Spec => ImplementsCondSpec
<1>1. Init => Abstract!Init
  BY InitIInv
<1>2. IInv /\ [Next]_vars => [Abstract!Next]_(Selection(cond))
  BY NextIInv
<1> QED BY <1>1, <1>2, Invariance, PTL DEF Spec, ImplementsCondSpec, Abstract!Spec

=============================================================================
