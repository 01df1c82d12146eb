---------------------------- MODULE OutputProofs ----------------------------
(* Proofs, for any spans in any order, that the merge sort sorts, that       *)
(* coalescing keeps and reports what it has to, and that the files written   *)
(* give a loader every byte at its address.                                  *)
EXTENDS Output, TLAPS, WellFoundedInduction

(* Spans, and those of an input.                                             *)
Spans == [put : Nat, sequence : Nat, data : Seq([by : Nat, put : Nat])]

-----------------------------------------------------------------------------
(* A set of numbers has a least one.                                         *)
LEMMA Least ==
    ASSUME NEW S, S \subseteq Nat, S # {}
    PROVE  \E x \in S : \A y \in S : x <= y
<1>1. PICK x \in S : \A y \in S : ~(<<y, x>> \in OpToRel(<, Nat))
  BY NatLessThanWellFounded, WFMin
<1>2. \A y \in S : ~(y < x)
  BY <1>1 DEF OpToRel
<1> QED BY <1>2

(* A loop that takes a head a turn, n times.                                 *)
LEMMA TurnsExist ==
    ASSUME NEW start, NEW n \in Nat
    PROVE  \E f : f = [i \in 0 .. n |-> IF i = 0 THEN start ELSE Taken(f[i - 1])]
<1> DEFINE Runs(k) == \E f : f = [i \in 0 .. k |-> IF i = 0 THEN start ELSE Taken(f[i - 1])]
<1> DEFINE Bad == {k \in Nat : ~Runs(k)}
<1>1. Runs(0)
  <2> DEFINE f == [i \in 0 .. 0 |-> start]
  <2>1. f = [i \in 0 .. 0 |-> IF i = 0 THEN start ELSE Taken(f[i - 1])]
    OBVIOUS
  <2> QED BY <2>1
<1>2. ASSUME NEW k \in Nat, Runs(k)
      PROVE  Runs(k + 1)
  <2>1. PICK f : f = [i \in 0 .. k |-> IF i = 0 THEN start ELSE Taken(f[i - 1])]
    BY <1>2
  <2> DEFINE g == [i \in 0 .. k + 1 |-> IF i <= k THEN f[i] ELSE Taken(f[k])]
  <2>2. ASSUME NEW i \in 0 .. k + 1
        PROVE  g[i] = IF i = 0 THEN start ELSE Taken(g[i - 1])
    <3>1. CASE i <= k
      <4>1. g[i] = f[i] /\ f[i] = IF i = 0 THEN start ELSE Taken(f[i - 1])
        BY <2>1, <3>1
      <4>2. i # 0 => g[i - 1] = f[i - 1]
        BY <3>1
      <4> QED BY <4>1, <4>2
    <3>2. CASE i = k + 1
      BY <3>2
    <3> QED BY <3>1, <3>2
  <2>3. g = [i \in 0 .. k + 1 |-> IF i = 0 THEN start ELSE Taken(g[i - 1])]
    BY <2>2
  <2> QED BY <2>3
<1>3. Bad = {}
  <2>1. SUFFICES ASSUME Bad # {} PROVE FALSE
    OBVIOUS
  <2>2. PICK k \in Bad : \A j \in Bad : k <= j
    BY <2>1, Least
  <2>3. k # 0 /\ k - 1 \in Nat
    <3> HIDE DEF Runs
    <3> QED BY <1>1, <2>2
  <2>4. Runs(k - 1)
    <3> HIDE DEF Runs
    <3> QED BY <2>2, <2>3
  <2>5. Runs(k - 1 + 1)
    BY <1>2, <2>3, <2>4
  <2> QED BY <2>2, <2>5
<1> QED BY <1>3

LEMMA MergeTurns ==
    ASSUME NEW left, NEW right, Len(left) + Len(right) \in Nat
    PROVE  \E f :
               /\ f = [i \in 0 .. Len(left) + Len(right) |->
                         IF i = 0 THEN [left |-> left, right |-> right, new |-> <<>>]
                         ELSE Taken(f[i - 1])]
               /\ Merge(left, right) = f[Len(left) + Len(right)].new
<1> DEFINE turn[i \in 0 .. Len(left) + Len(right)] ==
        IF i = 0 THEN [left |-> left, right |-> right, new |-> <<>>] ELSE Taken(turn[i - 1])
<1>1. Merge(left, right) = turn[Len(left) + Len(right)].new
  BY DEF Merge
<1>2. \E f : f = [i \in 0 .. Len(left) + Len(right) |->
                     IF i = 0 THEN [left |-> left, right |-> right, new |-> <<>>]
                     ELSE Taken(f[i - 1])]
  BY TurnsExist
<1>3. turn = [i \in 0 .. Len(left) + Len(right) |->
                 IF i = 0 THEN [left |-> left, right |-> right, new |-> <<>>]
                 ELSE Taken(turn[i - 1])]
  BY <1>2
<1> QED BY <1>1, <1>3

(* A list in the order of span_cmp(), no two elements of which compare equal. *)
Strict(s) == \A i, j \in DOMAIN s : i < j => Before(s[i], s[j])

LEMMA BeforeTransitive ==
    ASSUME NEW a \in Spans, NEW b \in Spans, NEW c \in Spans, Before(a, b), Before(b, c)
    PROVE  Before(a, c)
BY DEF Before, Spans

LEMMA Beheaded ==
    ASSUME NEW S, NEW s \in Seq(S), s # <<>>
    PROVE  /\ Head(s) = s[1] /\ s[1] \in S /\ Len(s) \in Nat \ {0}
           /\ Tail(s) \in Seq(S) /\ Len(Tail(s)) = Len(s) - 1
           /\ \A i \in 1 .. Len(s) - 1 : Tail(s)[i] = s[i + 1]
OBVIOUS

LEMMA Extended ==
    ASSUME NEW S, NEW s \in Seq(S), NEW x \in S
    PROVE  /\ Append(s, x) \in Seq(S) /\ Len(Append(s, x)) = Len(s) + 1 /\ Len(s) \in Nat
           /\ \A i \in 1 .. Len(s) : Append(s, x)[i] = s[i]
           /\ Append(s, x)[Len(s) + 1] = x
OBVIOUS

(* In the course of a merge: what is in the new list comes before what is    *)
(* left, and nothing of the sets L and R that are merged is missing.         *)
Has(s, a) == \E i \in DOMAIN s : s[i] = a

Precedes(s, t) == \A i \in DOMAIN s, j \in DOMAIN t : Before(s[i], t[j])

Merging(m, L, R) ==
    /\ m.left \in Seq(L) /\ m.right \in Seq(R) /\ m.new \in Seq(L \cup R)
    /\ Strict(m.left) /\ Strict(m.right) /\ Strict(m.new)
    /\ Precedes(m.new, m.left) /\ Precedes(m.new, m.right)
    /\ \A a \in L \cup R : Has(m.new, a) \/ Has(m.left, a) \/ Has(m.right, a)

Waiting(m) == Len(m.left) + Len(m.right)

Apart(L, R) == \A a \in L, b \in R : Before(a, b) \/ Before(b, a)

(* A head that comes before all that is left goes to the end.                *)
LEMMA HeadMoves ==
    ASSUME NEW S, S \subseteq Spans, NEW s \in Seq(S), NEW new \in Seq(S), s # <<>>,
           Strict(s), Strict(new), Precedes(new, s)
    PROVE  /\ Strict(Tail(s)) /\ Strict(Append(new, Head(s)))
           /\ Precedes(Append(new, Head(s)), Tail(s))
           /\ \A a \in S : Has(new, a) \/ Has(s, a) => Has(Append(new, Head(s)), a) \/ Has(Tail(s), a)
<1> DEFINE x == Head(s)
<1> DEFINE t == Tail(s)
<1> DEFINE n == Append(new, x)
<1>1. /\ x = s[1] /\ x \in S /\ Len(s) \in Nat \ {0}
      /\ t \in Seq(S) /\ Len(t) = Len(s) - 1
      /\ \A i \in 1 .. Len(s) - 1 : t[i] = s[i + 1]
  BY Beheaded
<1>2. /\ n \in Seq(S) /\ Len(n) = Len(new) + 1 /\ Len(new) \in Nat
      /\ \A i \in 1 .. Len(new) : n[i] = new[i]
      /\ n[Len(new) + 1] = x
  BY <1>1, Extended
<1>3. DOMAIN s = 1 .. Len(s) /\ DOMAIN t = 1 .. Len(s) - 1 /\ DOMAIN new = 1 .. Len(new)
        /\ DOMAIN n = 1 .. Len(new) + 1
  BY <1>1, <1>2
<1> HIDE DEF x, t, n
<1>4. Strict(t)
  <2> SUFFICES ASSUME NEW i \in DOMAIN t, NEW j \in DOMAIN t, i < j
               PROVE  Before(t[i], t[j])
    BY DEF Strict
  <2>1. t[i] = s[i + 1] /\ t[j] = s[j + 1] /\ i + 1 \in DOMAIN s /\ j + 1 \in DOMAIN s
    BY <1>1, <1>3
  <2> QED BY <2>1, <1>3 DEF Strict
<1>5. Strict(n)
  <2> SUFFICES ASSUME NEW i \in DOMAIN n, NEW j \in DOMAIN n, i < j
               PROVE  Before(n[i], n[j])
    BY DEF Strict
  <2>1. i \in DOMAIN new /\ n[i] = new[i]
    BY <1>2, <1>3
  <2>2. CASE j = Len(new) + 1
    <3>1. Before(new[i], s[1])
      BY <2>1, <1>1, <1>3 DEF Precedes
    <3> QED BY <2>1, <2>2, <3>1, <1>1, <1>2
  <2>3. CASE j # Len(new) + 1
    <3>1. j \in DOMAIN new /\ n[j] = new[j]
      BY <1>2, <1>3, <2>3
    <3> QED BY <2>1, <3>1 DEF Strict
  <2> QED BY <2>2, <2>3
<1>6. Precedes(n, t)
  <2> SUFFICES ASSUME NEW i \in DOMAIN n, NEW j \in DOMAIN t
               PROVE  Before(n[i], t[j])
    BY DEF Precedes
  <2>1. t[j] = s[j + 1] /\ j + 1 \in DOMAIN s /\ 1 \in DOMAIN s /\ 1 < j + 1
    BY <1>1, <1>3
  <2>2. CASE i = Len(new) + 1
    <3>1. Before(s[1], s[j + 1])
      BY <2>1 DEF Strict
    <3> QED BY <2>1, <2>2, <3>1, <1>1, <1>2
  <2>3. CASE i # Len(new) + 1
    <3>1. i \in DOMAIN new /\ n[i] = new[i]
      BY <1>2, <1>3, <2>3
    <3> QED BY <2>1, <3>1 DEF Precedes
  <2> QED BY <2>2, <2>3
<1>7. ASSUME NEW a \in S, Has(new, a) \/ Has(s, a)
      PROVE  Has(n, a) \/ Has(t, a)
  <2>1. CASE Has(new, a)
    <3>1. PICK i \in DOMAIN new : new[i] = a
      BY <2>1 DEF Has
    <3>2. i \in DOMAIN n /\ n[i] = a
      BY <3>1, <1>2, <1>3
    <3> QED BY <3>2 DEF Has
  <2>2. CASE Has(s, a)
    <3>1. PICK i \in DOMAIN s : s[i] = a
      BY <2>2 DEF Has
    <3>2. CASE i = 1
      <4>1. Len(new) + 1 \in DOMAIN n /\ n[Len(new) + 1] = a
        BY <3>1, <3>2, <1>1, <1>2, <1>3
      <4> QED BY <4>1 DEF Has
    <3>3. CASE i # 1
      <4>1. i - 1 \in DOMAIN t /\ t[i - 1] = a
        <5>1. i - 1 \in 1 .. Len(s) - 1 /\ (i - 1) + 1 = i
          BY <3>3, <1>1, <1>3
        <5> QED BY <5>1, <3>1, <1>1, <1>3
      <4> QED BY <4>1 DEF Has
    <3> QED BY <3>2, <3>3
  <2> QED BY <1>7, <2>1, <2>2
<1> QED BY <1>4, <1>5, <1>6, <1>7 DEF x, t, n

LEMMA OneLess ==
    ASSUME NEW a \in Nat, NEW b \in Nat, NEW c, c = a - 1
    PROVE  c + b = (a + b) - 1 /\ b + c = (b + a) - 1
OBVIOUS

LEMMA NoneOfEither ==
    ASSUME NEW a \in Nat, NEW b \in Nat, a + b = 0
    PROVE  a = 0 /\ b = 0
OBVIOUS

LEMMA TakenMerges ==
    ASSUME NEW L, L \subseteq Spans, NEW R, R \subseteq Spans, Apart(L, R),
           NEW m, Merging(m, L, R), m.left # <<>> \/ m.right # <<>>
    PROVE  /\ Merging(Taken(m), L, R)
           /\ Len(Taken(m).new) = Len(m.new) + 1
           /\ Waiting(Taken(m)) = Waiting(m) - 1
<1>1. /\ m.left \in Seq(L) /\ m.right \in Seq(R) /\ m.new \in Seq(L \cup R)
      /\ Strict(m.left) /\ Strict(m.right) /\ Strict(m.new)
      /\ Precedes(m.new, m.left) /\ Precedes(m.new, m.right)
  BY DEF Merging
<1>2. m.left \in Seq(L \cup R) /\ m.right \in Seq(L \cup R) /\ L \cup R \subseteq Spans
  BY <1>1
(* The head of one comes before all of the other.                            *)
<1>3. ASSUME NEW s \in Seq(L \cup R), NEW t \in Seq(L \cup R), s # <<>>, Strict(t),
             t = <<>> \/ Before(Head(s), Head(t)), Precedes(m.new, t)
      PROVE  Precedes(Append(m.new, Head(s)), t)
  <2> DEFINE n == Append(m.new, Head(s))
  <2>1. Head(s) \in L \cup R
    BY <1>3, Beheaded
  <2>2. /\ n \in Seq(L \cup R) /\ Len(n) = Len(m.new) + 1 /\ Len(m.new) \in Nat
        /\ \A i \in 1 .. Len(m.new) : n[i] = m.new[i]
        /\ n[Len(m.new) + 1] = Head(s)
    BY <1>1, <2>1, Extended
  <2>3. DOMAIN n = 1 .. Len(m.new) + 1 /\ DOMAIN m.new = 1 .. Len(m.new) /\ DOMAIN t = 1 .. Len(t)
    BY <1>1, <2>2
  <2> HIDE DEF n
  <2> SUFFICES ASSUME NEW i \in DOMAIN n, NEW j \in DOMAIN t
               PROVE  Before(n[i], t[j])
    BY DEF Precedes, n
  <2>4. CASE i # Len(m.new) + 1
    <3>1. i \in DOMAIN m.new /\ n[i] = m.new[i]
      BY <2>2, <2>3, <2>4
    <3> QED BY <3>1, <1>3 DEF Precedes
  <2>5. CASE i = Len(m.new) + 1
    <3>1. t # <<>> /\ t[1] = Head(t) /\ 1 \in DOMAIN t /\ t[1] \in Spans /\ t[j] \in Spans
      BY <1>2, <2>3
    <3>2. Before(Head(s), t[1])
      BY <3>1, <1>3
    <3>3. CASE j = 1
      BY <3>2, <3>3, <2>2, <2>5
    <3>4. CASE j # 1
      <4>1. 1 < j
        BY <3>4, <2>3
      <4>2. Before(t[1], t[j])
        BY <4>1, <3>1, <1>3 DEF Strict
      <4>3. Head(s) \in Spans
        BY <2>1, <1>2
      <4> QED BY <4>2, <4>3, <3>1, <3>2, <2>2, <2>5, BeforeTransitive
    <3> QED BY <3>3, <3>4
  <2> QED BY <2>4, <2>5
<1>4. CASE m.right = <<>> \/ (m.left # <<>> /\ Before(Head(m.left), Head(m.right)))
  <2>1. Taken(m) = [left |-> Tail(m.left), right |-> m.right, new |-> Append(m.new, Head(m.left))]
    BY <1>4 DEF Taken
  <2>2. m.left # <<>>
    BY <1>4
  <2>3. /\ Head(m.left) \in L /\ Tail(m.left) \in Seq(L) /\ Len(Tail(m.left)) = Len(m.left) - 1
        /\ Len(m.left) \in Nat
    BY <1>1, <2>2, Beheaded
  <2>4. /\ Append(m.new, Head(m.left)) \in Seq(L \cup R)
        /\ Len(Append(m.new, Head(m.left))) = Len(m.new) + 1
    BY <1>1, <2>3, Extended
  <2>5. /\ Strict(Tail(m.left)) /\ Strict(Append(m.new, Head(m.left)))
        /\ Precedes(Append(m.new, Head(m.left)), Tail(m.left))
        /\ \A a \in L \cup R : Has(m.new, a) \/ Has(m.left, a)
                => Has(Append(m.new, Head(m.left)), a) \/ Has(Tail(m.left), a)
    BY <1>1, <1>2, <2>2, HeadMoves
  <2>6. Precedes(Append(m.new, Head(m.left)), m.right)
    BY <1>1, <1>2, <1>3, <1>4, <2>2
  <2>7. Merging(Taken(m), L, R)
    BY <2>1, <2>3, <2>4, <2>5, <2>6, <1>1 DEF Merging
  <2>8. Len(m.right) \in Nat
    BY <1>1
  <2>9. /\ Taken(m).left = Tail(m.left) /\ Taken(m).right = m.right
        /\ Taken(m).new = Append(m.new, Head(m.left))
    BY <2>1
  <2>10. Len(Taken(m).left) + Len(Taken(m).right) = (Len(m.left) + Len(m.right)) - 1
    <3>1. Len(Tail(m.left)) + Len(m.right) = (Len(m.left) + Len(m.right)) - 1
      BY <2>3, <2>8, OneLess, Zenon
    <3> QED BY <3>1, <2>9, Zenon
  <2>11. Waiting(Taken(m)) = Waiting(m) - 1
    BY <2>10 DEF Waiting
  <2> QED BY <2>4, <2>7, <2>9, <2>11
<1>5. CASE ~(m.right = <<>> \/ (m.left # <<>> /\ Before(Head(m.left), Head(m.right))))
  <2>1. Taken(m) = [left |-> m.left, right |-> Tail(m.right), new |-> Append(m.new, Head(m.right))]
    BY <1>5 DEF Taken
  <2>2. m.right # <<>>
    BY <1>5
  <2>3. /\ Head(m.right) \in R /\ Tail(m.right) \in Seq(R) /\ Len(Tail(m.right)) = Len(m.right) - 1
        /\ Len(m.right) \in Nat
    BY <1>1, <2>2, Beheaded
  <2>4. /\ Append(m.new, Head(m.right)) \in Seq(L \cup R)
        /\ Len(Append(m.new, Head(m.right))) = Len(m.new) + 1
    BY <1>1, <2>3, Extended
  <2>5. /\ Strict(Tail(m.right)) /\ Strict(Append(m.new, Head(m.right)))
        /\ Precedes(Append(m.new, Head(m.right)), Tail(m.right))
        /\ \A a \in L \cup R : Has(m.new, a) \/ Has(m.right, a)
                => Has(Append(m.new, Head(m.right)), a) \/ Has(Tail(m.right), a)
    BY <1>1, <1>2, <2>2, HeadMoves
  <2>6. m.left = <<>> \/ Before(Head(m.right), Head(m.left))
    <3>1. m.left # <<>> => Head(m.left) \in L
      BY <1>1, Beheaded
    <3> QED BY <3>1, <2>3, <1>5 DEF Apart
  <2>7. Precedes(Append(m.new, Head(m.right)), m.left)
    BY <1>1, <1>2, <1>3, <2>2, <2>6
  <2>8. Merging(Taken(m), L, R)
    BY <2>1, <2>3, <2>4, <2>5, <2>7, <1>1 DEF Merging
  <2>9. Len(m.left) \in Nat
    BY <1>1
  <2>10. /\ Taken(m).left = m.left /\ Taken(m).right = Tail(m.right)
         /\ Taken(m).new = Append(m.new, Head(m.right))
    BY <2>1
  <2>11. Len(Taken(m).left) + Len(Taken(m).right) = (Len(m.left) + Len(m.right)) - 1
    <3>1. Len(m.left) + Len(Tail(m.right)) = (Len(m.left) + Len(m.right)) - 1
      BY <2>3, <2>9, OneLess, Zenon
    <3> QED BY <3>1, <2>10, Zenon
  <2>12. Waiting(Taken(m)) = Waiting(m) - 1
    BY <2>11 DEF Waiting
  <2> QED BY <2>4, <2>8, <2>10, <2>12
<1> QED BY <1>4, <1>5

(* slist_merge(): two lists in order become one.                             *)
LEMMA MergeMerges ==
    ASSUME NEW left \in Seq(Spans), NEW right \in Seq(Spans), Strict(left), Strict(right),
           Apart(Range(left), Range(right))
    PROVE  /\ Merge(left, right) \in Seq(Range(left) \cup Range(right))
           /\ Len(Merge(left, right)) = Len(left) + Len(right)
           /\ Strict(Merge(left, right))
           /\ Range(Merge(left, right)) = Range(left) \cup Range(right)
<1> DEFINE n == Len(left) + Len(right)
<1> DEFINE L == Range(left)
<1> DEFINE R == Range(right)
<1>1. n \in Nat /\ Len(left) \in Nat /\ Len(right) \in Nat
  OBVIOUS
<1>2. PICK f :
          /\ f = [i \in 0 .. n |-> IF i = 0 THEN [left |-> left, right |-> right, new |-> <<>>]
                                  ELSE Taken(f[i - 1])]
          /\ Merge(left, right) = f[n].new
  BY <1>1, MergeTurns
<1>3. left \in Seq(L) /\ right \in Seq(R) /\ L \subseteq Spans /\ R \subseteq Spans /\ Apart(L, R)
  BY DEF Range
<1> DEFINE Sofar(k) == /\ Merging(f[k], L, R)
                       /\ Len(f[k].new) = k
                       /\ Waiting(f[k]) = n - k
<1>4. Sofar(0)
  <2>1. f[0] = [left |-> left, right |-> right, new |-> <<>>]
    BY <1>1, <1>2
  <2>2. Merging([left |-> left, right |-> right, new |-> <<>>], L, R)
    <3>1. \A a \in L \cup R : Has(left, a) \/ Has(right, a)
      BY DEF Has, Range
    <3>2. Strict(<<>>) /\ Precedes(<<>>, left) /\ Precedes(<<>>, right) /\ <<>> \in Seq(L \cup R)
      BY DEF Strict, Precedes
    <3> HIDE DEF L, R
    <3> QED BY <3>1, <3>2, <1>3 DEF Merging
  <2> HIDE DEF L, R
  <2>3. Waiting(f[0]) = n - 0
    BY <2>1, <1>1 DEF Waiting
  <2> HIDE DEF n
  <2> QED BY <2>1, <2>2, <2>3, <1>1
<1>5. ASSUME NEW k \in 0 .. n, k # n, Sofar(k)
      PROVE  Sofar(k + 1)
  <2>1. f[k + 1] = Taken(f[k])
    <3>1. k + 1 \in 0 .. n /\ k + 1 # 0 /\ (k + 1) - 1 = k
      BY <1>1, <1>5
    <3> HIDE DEF n
    <3> QED BY <3>1, <1>2
  <2> HIDE DEF L, R, n
  <2>2. Merging(f[k], L, R) /\ Len(f[k].new) = k /\ Waiting(f[k]) = n - k
    BY <1>5
  <2> HIDE DEF Sofar
  <2>3. f[k].left # <<>> \/ f[k].right # <<>>
    <3>1. Waiting(f[k]) # 0
      BY <2>2, <1>1, <1>5
    <3>2. Len(<<>>) + Len(<<>>) = 0
      OBVIOUS
    <3>3. f[k].left = <<>> /\ f[k].right = <<>> => Waiting(f[k]) = 0
      BY <3>2 DEF Waiting
    <3> QED BY <3>1, <3>3
  <2>4. /\ Merging(Taken(f[k]), L, R)
        /\ Len(Taken(f[k]).new) = Len(f[k].new) + 1
        /\ Waiting(Taken(f[k])) = Waiting(f[k]) - 1
    BY <2>2, <2>3, <1>3, TakenMerges
  <2>5. n - k - 1 = n - (k + 1)
    BY <1>1, <1>5
  <2>6. Merging(f[k + 1], L, R) /\ Len(f[k + 1].new) = k + 1 /\ Waiting(f[k + 1]) = n - (k + 1)
    BY <2>1, <2>2, <2>4, <2>5
  <2> QED BY <2>6 DEF Sofar
<1> DEFINE Bad == {k \in 0 .. n : ~Sofar(k)}
<1>6. Sofar(n)
  <2> HIDE DEF Sofar, n
  <2>1. SUFFICES ASSUME Bad # {} PROVE FALSE
    BY <1>1
  <2>2. Bad \subseteq Nat
    BY <1>1
  <2>3. PICK k \in Bad : \A j \in Bad : k <= j
    BY <2>1, <2>2, Least
  <2>4. k # 0 /\ k - 1 \in 0 .. n /\ k - 1 # n /\ ~(k <= k - 1)
    BY <1>1, <1>4, <2>3
  <2>5. Sofar(k - 1)
    BY <2>3, <2>4
  <2>6. Sofar(k - 1 + 1)
    BY <2>4, <2>5, <1>5
  <2> QED BY <2>3, <2>4, <2>6
<1>7. f[n].left = <<>> /\ f[n].right = <<>>
  <2> HIDE DEF L, R, n
  <2>1. Waiting(f[n]) = 0
    BY <1>1, <1>6
  <2>2. f[n].left \in Seq(L) /\ f[n].right \in Seq(R)
    BY <1>6 DEF Merging
  <2>3. Len(f[n].left) \in Nat /\ Len(f[n].right) \in Nat
    BY <2>2
  <2>4. Len(f[n].left) = 0 /\ Len(f[n].right) = 0
    BY <2>1, <2>3, NoneOfEither DEF Waiting
  <2> QED BY <2>2, <2>4
<1> DEFINE s == f[n].new
<1>8. s \in Seq(L \cup R) /\ Len(s) = n /\ Strict(s)
  BY <1>6 DEF Merging
<1>9. Range(s) = L \cup R
  <2>1. \A a \in L \cup R : Has(s, a)
    <3>1. \A a : ~Has(<<>>, a)
      BY DEF Has
    <3> QED BY <3>1, <1>6, <1>7 DEF Merging
  <2> HIDE DEF s, L, R
  <2>2. L \cup R \subseteq Range(s)
    BY <2>1 DEF Has, Range
  <2>3. Range(s) \subseteq L \cup R
    BY <1>8 DEF Range
  <2> QED BY <2>2, <2>3
<1> QED BY <1>2, <1>8, <1>9

(* Dealing a list out into two.                                              *)
LEMMA Half ==
    ASSUME NEW n \in Nat, n >= 2
    PROVE  /\ (n - 1) \div 2 + 1 \in 1 .. n - 1
           /\ (n - 2) \div 2 + 1 \in 1 .. n - 1
           /\ ((n - 1) \div 2 + 1) + ((n - 2) \div 2 + 1) = n
           /\ \A i \in 1 .. (n - 1) \div 2 + 1 : 2 * i + 1 - 2 \in 1 .. n
           /\ \A i \in 1 .. (n - 2) \div 2 + 1 : 2 * i + 2 - 2 \in 1 .. n
           /\ \A j \in 1 .. n :
                  \/ \E i \in 1 .. (n - 1) \div 2 + 1 : j = 2 * i + 1 - 2
                  \/ \E i \in 1 .. (n - 2) \div 2 + 1 : j = 2 * i + 2 - 2
<1> DEFINE p == (n - 1) \div 2 + 1
<1> DEFINE q == (n - 2) \div 2 + 1
<1>1. PICK h \in Nat : n = 2 * h \/ n = 2 * h + 1
  <2>1. n \div 2 \in Nat /\ (n = 2 * (n \div 2) \/ n = 2 * (n \div 2) + 1)
    OBVIOUS
  <2> QED BY <2>1
<1>2. CASE n = 2 * h
  <2>1. p = h /\ q = h /\ h >= 1
    BY <1>2
  <2>2. ASSUME NEW j \in 1 .. n
        PROVE  \/ \E i \in 1 .. h : j = 2 * i + 1 - 2
               \/ \E i \in 1 .. h : j = 2 * i + 2 - 2
    <3>1. PICK g \in Nat : j = 2 * g \/ j = 2 * g + 1
      <4>1. j \div 2 \in Nat /\ (j = 2 * (j \div 2) \/ j = 2 * (j \div 2) + 1)
        OBVIOUS
      <4> QED BY <4>1
    <3>2. CASE j = 2 * g
      <4>1. g \in 1 .. h /\ j = 2 * g + 2 - 2
        BY <3>2, <1>2
      <4> QED BY <4>1
    <3>3. CASE j = 2 * g + 1
      <4>1. g + 1 \in 1 .. h /\ j = 2 * (g + 1) + 1 - 2
        BY <3>3, <1>2
      <4> QED BY <4>1
    <3> QED BY <3>1, <3>2, <3>3
  <2> HIDE DEF p, q
  <2>3. p \in 1 .. n - 1 /\ q \in 1 .. n - 1 /\ p + q = n
    BY <1>2, <2>1
  <2>4. /\ \A i \in 1 .. p : 2 * i + 1 - 2 \in 1 .. n
        /\ \A i \in 1 .. q : 2 * i + 2 - 2 \in 1 .. n
    BY <1>2, <2>1
  <2>5. \A j \in 1 .. n :
            \/ \E i \in 1 .. p : j = 2 * i + 1 - 2
            \/ \E i \in 1 .. q : j = 2 * i + 2 - 2
    BY <2>1, <2>2
  <2> QED BY <2>3, <2>4, <2>5 DEF p, q
<1>3. CASE n = 2 * h + 1
  <2>1. p = h + 1 /\ q = h /\ h >= 1
    BY <1>3
  <2>2. ASSUME NEW j \in 1 .. n
        PROVE  \/ \E i \in 1 .. h + 1 : j = 2 * i + 1 - 2
               \/ \E i \in 1 .. h : j = 2 * i + 2 - 2
    <3>1. PICK g \in Nat : j = 2 * g \/ j = 2 * g + 1
      <4>1. j \div 2 \in Nat /\ (j = 2 * (j \div 2) \/ j = 2 * (j \div 2) + 1)
        OBVIOUS
      <4> QED BY <4>1
    <3>2. CASE j = 2 * g
      <4>1. g \in 1 .. h /\ j = 2 * g + 2 - 2
        BY <3>2, <1>3
      <4> QED BY <4>1
    <3>3. CASE j = 2 * g + 1
      <4>1. g + 1 \in 1 .. h + 1 /\ j = 2 * (g + 1) + 1 - 2
        BY <3>3, <1>3
      <4> QED BY <4>1
    <3> QED BY <3>1, <3>2, <3>3
  <2> HIDE DEF p, q
  <2>3. p \in 1 .. n - 1 /\ q \in 1 .. n - 1 /\ p + q = n
    BY <1>3, <2>1
  <2>4. /\ \A i \in 1 .. p : 2 * i + 1 - 2 \in 1 .. n
        /\ \A i \in 1 .. q : 2 * i + 2 - 2 \in 1 .. n
    BY <1>3, <2>1
  <2>5. \A j \in 1 .. n :
            \/ \E i \in 1 .. p : j = 2 * i + 1 - 2
            \/ \E i \in 1 .. q : j = 2 * i + 2 - 2
    BY <2>1, <2>2
  <2> QED BY <2>3, <2>4, <2>5 DEF p, q
<1> QED BY <1>1, <1>2, <1>3

LEMMA Dealt ==
    ASSUME NEW S, NEW l \in Seq(S), Len(l) >= 2
    PROVE  /\ Every(l, 1) \in Seq(S) /\ Len(Every(l, 1)) \in 1 .. Len(l) - 1
           /\ Every(l, 2) \in Seq(S) /\ Len(Every(l, 2)) \in 1 .. Len(l) - 1
           /\ Len(Every(l, 1)) + Len(Every(l, 2)) = Len(l)
           /\ Range(Every(l, 1)) \cup Range(Every(l, 2)) = Range(l)
           /\ \A i \in DOMAIN Every(l, 1) : 2 * i - 1 \in DOMAIN l /\ Every(l, 1)[i] = l[2 * i - 1]
           /\ \A i \in DOMAIN Every(l, 2) : 2 * i \in DOMAIN l /\ Every(l, 2)[i] = l[2 * i]
<1> DEFINE n == Len(l)
<1> DEFINE p == (n - 1) \div 2 + 1
<1> DEFINE q == (n - 2) \div 2 + 1
<1>1. n \in Nat /\ n >= 2 /\ DOMAIN l = 1 .. n
  OBVIOUS
<1>2. /\ p \in 1 .. n - 1 /\ q \in 1 .. n - 1 /\ p + q = n
      /\ \A i \in 1 .. p : 2 * i + 1 - 2 \in 1 .. n
      /\ \A i \in 1 .. q : 2 * i + 2 - 2 \in 1 .. n
      /\ \A j \in 1 .. n :
             \/ \E i \in 1 .. p : j = 2 * i + 1 - 2
             \/ \E i \in 1 .. q : j = 2 * i + 2 - 2
  <2> HIDE DEF n
  <2> QED BY <1>1, Half
<1>3. /\ Every(l, 1) = [i \in 1 .. p |-> l[2 * i + 1 - 2]]
      /\ Every(l, 2) = [i \in 1 .. q |-> l[2 * i + 2 - 2]]
  BY DEF Every
<1> HIDE DEF n, p, q
<1>4. \A i \in 1 .. n : l[i] \in S
  BY DEF n
<1>5. Every(l, 1) \in Seq(S) /\ Len(Every(l, 1)) = p /\ DOMAIN Every(l, 1) = 1 .. p
  <2>1. \A i \in 1 .. p : l[2 * i + 1 - 2] \in S
    BY <1>2, <1>4
  <2>2. p \in Nat
    BY <1>1, <1>2
  <2>3. Every(l, 1) \in [1 .. p -> S]
    BY <2>1, <1>3
  <2> QED BY <2>2, <2>3
<1>6. Every(l, 2) \in Seq(S) /\ Len(Every(l, 2)) = q /\ DOMAIN Every(l, 2) = 1 .. q
  <2>1. \A i \in 1 .. q : l[2 * i + 2 - 2] \in S
    BY <1>2, <1>4
  <2>2. q \in Nat
    BY <1>1, <1>2
  <2>3. Every(l, 2) \in [1 .. q -> S]
    BY <2>1, <1>3
  <2> QED BY <2>2, <2>3
<1>7. Range(Every(l, 1)) \subseteq Range(l) /\ Range(Every(l, 2)) \subseteq Range(l)
  <2>1. ASSUME NEW i \in 1 .. p PROVE Every(l, 1)[i] \in Range(l)
    BY <1>1, <1>2, <1>3 DEF Range
  <2>2. ASSUME NEW i \in 1 .. q PROVE Every(l, 2)[i] \in Range(l)
    BY <1>1, <1>2, <1>3 DEF Range
  <2>3. /\ Range(Every(l, 1)) = {Every(l, 1)[i] : i \in 1 .. p}
        /\ Range(Every(l, 2)) = {Every(l, 2)[i] : i \in 1 .. q}
    BY <1>5, <1>6 DEF Range
  <2> QED BY <2>1, <2>2, <2>3
<1>8. ASSUME NEW x \in Range(l)
      PROVE  x \in Range(Every(l, 1)) \/ x \in Range(Every(l, 2))
  <2>1. PICK j \in 1 .. n : x = l[j]
    BY <1>1 DEF Range
  <2>2. CASE \E i \in 1 .. p : j = 2 * i + 1 - 2
    BY <2>1, <2>2, <1>3, <1>5 DEF Range
  <2>3. CASE \E i \in 1 .. q : j = 2 * i + 2 - 2
    BY <2>1, <2>3, <1>3, <1>6 DEF Range
  <2> QED BY <2>1, <2>2, <2>3, <1>2
<1>9. \A i \in 1 .. p : 2 * i - 1 = 2 * i + 1 - 2
  BY <1>2
<1>10. \A i \in 1 .. q : 2 * i = 2 * i + 2 - 2
  BY <1>2
<1>11. \A i \in 1 .. p : 2 * i - 1 \in 1 .. n /\ Every(l, 1)[i] = l[2 * i - 1]
  BY <1>2, <1>3, <1>9
<1>12. \A i \in 1 .. q : 2 * i \in 1 .. n /\ Every(l, 2)[i] = l[2 * i]
  BY <1>2, <1>3, <1>10
<1>13. Range(Every(l, 1)) \cup Range(Every(l, 2)) = Range(l)
  BY <1>7, <1>8
<1> QED BY <1>1, <1>2, <1>5, <1>6, <1>11, <1>12, <1>13 DEF n

LEMMA Bounded ==
    ASSUME NEW S, NEW k \in Nat
    PROVE  \A l : l \in BoundedSeq(S, k) <=> l \in Seq(S) /\ Len(l) <= k
<1>1. ASSUME NEW l \in BoundedSeq(S, k) PROVE l \in Seq(S) /\ Len(l) <= k
  <2>1. PICK m \in 0 .. k : l \in [1 .. m -> S]
    BY DEF BoundedSeq, SeqOf
  <2> QED BY <2>1
<1>2. ASSUME NEW l \in Seq(S), Len(l) <= k PROVE l \in BoundedSeq(S, k)
  <2>1. Len(l) \in 0 .. k /\ l \in [1 .. Len(l) -> S]
    BY <1>2
  <2> QED BY <2>1 DEF BoundedSeq, SeqOf
<1> QED BY <1>1, <1>2

(* slist_sort() as a function on the lists that are no longer than k.        *)
Sorting(f, S, k) ==
    f = [l \in BoundedSeq(S, k) |->
            IF Len(l) <= 1 THEN l ELSE Merge(f[Every(l, 1)], f[Every(l, 2)])]

LEMMA SortExists ==
    ASSUME NEW S, NEW n \in Nat
    PROVE  \E f : Sorting(f, S, n)
<1> DEFINE Runs(k) == \E f : Sorting(f, S, k)
<1> DEFINE Bad == {k \in Nat : ~Runs(k)}
<1>1. Runs(0)
  <2> DEFINE f == [l \in BoundedSeq(S, 0) |-> l]
  <2>1. \A l \in BoundedSeq(S, 0) : Len(l) <= 1
    BY Bounded
  <2>2. f = [l \in BoundedSeq(S, 0) |->
                IF Len(l) <= 1 THEN l ELSE Merge(f[Every(l, 1)], f[Every(l, 2)])]
    BY <2>1
  <2> QED BY <2>2 DEF Sorting
<1>2. ASSUME NEW k \in Nat, Runs(k)
      PROVE  Runs(k + 1)
  <2>1. PICK f : Sorting(f, S, k)
    BY <1>2
  <2> DEFINE g == [l \in BoundedSeq(S, k + 1) |->
                      IF Len(l) <= 1 THEN l ELSE Merge(f[Every(l, 1)], f[Every(l, 2)])]
  <2>2. \A l \in BoundedSeq(S, k) : l \in BoundedSeq(S, k + 1) /\ g[l] = f[l]
    <3> SUFFICES ASSUME NEW l \in BoundedSeq(S, k)
                 PROVE  l \in BoundedSeq(S, k + 1) /\ g[l] = f[l]
      OBVIOUS
    <3>1. l \in Seq(S) /\ Len(l) <= k /\ Len(l) <= k + 1
      BY Bounded
    <3>2. l \in BoundedSeq(S, k + 1)
      BY <3>1, Bounded
    <3>3. f[l] = IF Len(l) <= 1 THEN l ELSE Merge(f[Every(l, 1)], f[Every(l, 2)])
      BY <2>1 DEF Sorting
    <3> QED BY <3>2, <3>3
  <2>3. ASSUME NEW l \in BoundedSeq(S, k + 1), ~(Len(l) <= 1)
        PROVE  g[l] = Merge(g[Every(l, 1)], g[Every(l, 2)])
    <3>1. l \in Seq(S) /\ Len(l) <= k + 1 /\ Len(l) \in Nat /\ Len(l) >= 2
      BY <2>3, Bounded
    <3>2. /\ Every(l, 1) \in Seq(S) /\ Len(Every(l, 1)) \in 1 .. Len(l) - 1
          /\ Every(l, 2) \in Seq(S) /\ Len(Every(l, 2)) \in 1 .. Len(l) - 1
      BY <3>1, Dealt
    <3>3. Len(Every(l, 1)) <= k /\ Len(Every(l, 2)) <= k
      BY <3>1, <3>2
    <3>4. Every(l, 1) \in BoundedSeq(S, k) /\ Every(l, 2) \in BoundedSeq(S, k)
      BY <3>2, <3>3, Bounded
    <3>5. g[l] = Merge(f[Every(l, 1)], f[Every(l, 2)])
      BY <2>3
    <3> HIDE DEF g
    <3> QED BY <2>2, <3>4, <3>5
  <2>4. ASSUME NEW l \in BoundedSeq(S, k + 1)
        PROVE  g[l] = IF Len(l) <= 1 THEN l ELSE Merge(g[Every(l, 1)], g[Every(l, 2)])
    <3>1. Len(l) <= 1 => g[l] = l
      OBVIOUS
    <3> HIDE DEF g
    <3> QED BY <3>1, <2>3
  <2>5. g = [l \in BoundedSeq(S, k + 1) |-> g[l]]
    OBVIOUS
  <2>6. Sorting(g, S, k + 1)
    <3> HIDE DEF g
    <3> QED BY <2>4, <2>5 DEF Sorting
  <2> HIDE DEF g
  <2> QED BY <2>6
<1>3. Bad = {}
  <2> HIDE DEF Runs
  <2>1. SUFFICES ASSUME Bad # {} PROVE FALSE
    OBVIOUS
  <2>2. PICK k \in Bad : \A j \in Bad : k <= j
    BY <2>1, Least
  <2>3. k # 0 /\ k - 1 \in Nat /\ ~(k <= k - 1)
    BY <1>1, <2>2
  <2>4. Runs(k - 1)
    BY <2>2, <2>3
  <2>5. Runs(k - 1 + 1)
    BY <1>2, <2>3, <2>4
  <2> QED BY <2>2, <2>3, <2>5
<1> QED BY <1>3

LEMMA SortIs ==
    ASSUME NEW S, NEW list \in Seq(S)
    PROVE  \E f : Sorting(f, Range(list), Len(list)) /\ SlistSort(list) = f[list]
<1> DEFINE sort[l \in BoundedSeq(Range(list), Len(list))] ==
        IF Len(l) <= 1 THEN l ELSE Merge(sort[Every(l, 1)], sort[Every(l, 2)])
<1>1. SlistSort(list) = sort[list]
  BY DEF SlistSort
<1>2. \E f : f = [l \in BoundedSeq(Range(list), Len(list)) |->
                     IF Len(l) <= 1 THEN l ELSE Merge(f[Every(l, 1)], f[Every(l, 2)])]
  <2>1. Len(list) \in Nat
    OBVIOUS
  <2> QED BY <2>1, SortExists DEF Sorting
<1>3. sort = [l \in BoundedSeq(Range(list), Len(list)) |->
                 IF Len(l) <= 1 THEN l ELSE Merge(sort[Every(l, 1)], sort[Every(l, 2)])]
  BY <1>2
<1> HIDE DEF sort
<1> QED BY <1>1, <1>3 DEF Sorting

(* Of a list of different spans slist_sort() makes one in their order.       *)
Different(l) == \A i, j \in DOMAIN l : i # j => l[i].sequence # l[j].sequence

InOrder(l, s) ==
    /\ s \in Seq(Range(l)) /\ Len(s) = Len(l)
    /\ Strict(s)
    /\ Range(s) = Range(l)

LEMMA HalvesDiffer ==
    ASSUME NEW l \in Seq(Spans), Different(l), Len(l) >= 2
    PROVE  /\ Different(Every(l, 1)) /\ Different(Every(l, 2))
           /\ Apart(Range(Every(l, 1)), Range(Every(l, 2)))
<1> DEFINE a == Every(l, 1)
<1> DEFINE b == Every(l, 2)
<1>1. /\ \A i \in DOMAIN a : 2 * i - 1 \in DOMAIN l /\ a[i] = l[2 * i - 1]
      /\ \A i \in DOMAIN b : 2 * i \in DOMAIN l /\ b[i] = l[2 * i]
      /\ a \in Seq(Spans) /\ b \in Seq(Spans)
  BY Dealt
<1>2. \A i \in DOMAIN a : i \in Nat
  BY <1>1
<1>3. \A i \in DOMAIN b : i \in Nat
  BY <1>1
<1> HIDE DEF a, b
<1>4. Different(a)
  <2> SUFFICES ASSUME NEW i \in DOMAIN a, NEW j \in DOMAIN a, i # j
               PROVE  a[i].sequence # a[j].sequence
    BY DEF Different
  <2>1. 2 * i - 1 # 2 * j - 1
    BY <1>2
  <2> QED BY <2>1, <1>1 DEF Different
<1>5. Different(b)
  <2> SUFFICES ASSUME NEW i \in DOMAIN b, NEW j \in DOMAIN b, i # j
               PROVE  b[i].sequence # b[j].sequence
    BY DEF Different
  <2>1. 2 * i # 2 * j
    BY <1>3
  <2> QED BY <2>1, <1>1 DEF Different
<1>6. Apart(Range(a), Range(b))
  <2> SUFFICES ASSUME NEW i \in DOMAIN a, NEW j \in DOMAIN b
               PROVE  Before(a[i], b[j]) \/ Before(b[j], a[i])
    BY DEF Apart, Range
  <2>1. 2 * i - 1 # 2 * j
    BY <1>2, <1>3
  <2>2. a[i].sequence # b[j].sequence
    BY <2>1, <1>1 DEF Different
  <2>3. a[i] \in Spans /\ b[j] \in Spans
    BY <1>1
  <2> QED BY <2>2, <2>3 DEF Before, Spans
<1> QED BY <1>4, <1>5, <1>6 DEF a, b

THEOREM SortSorts ==
    ASSUME NEW list \in Seq(Spans), Different(list)
    PROVE  InOrder(list, SlistSort(list))
<1> DEFINE S == Range(list)
<1> DEFINE n == Len(list)
<1>1. PICK f : Sorting(f, S, n) /\ SlistSort(list) = f[list]
  BY SortIs
<1>2. n \in Nat /\ S \subseteq Spans /\ list \in Seq(S)
  BY DEF Range
<1> HIDE DEF S, n
<1> DEFINE Sofar(k) == \A l \in BoundedSeq(S, k) : Different(l) => InOrder(l, f[l])
<1>3. ASSUME NEW k \in Nat, k <= n, NEW l \in BoundedSeq(S, k), Different(l),
             k > 0 => Sofar(k - 1)
      PROVE  InOrder(l, f[l])
  <2>1. l \in Seq(S) /\ Len(l) <= k /\ Len(l) <= n /\ Len(l) \in Nat /\ l \in Seq(Spans)
    BY <1>2, <1>3, Bounded
  <2>2. l \in BoundedSeq(S, n)
    BY <2>1, <1>2, Bounded
  <2>3. f[l] = IF Len(l) <= 1 THEN l ELSE Merge(f[Every(l, 1)], f[Every(l, 2)])
    BY <2>2, <1>1 DEF Sorting
  <2>4. CASE Len(l) <= 1
    <3>1. l \in Seq(Range(l))
      BY <2>1 DEF Range
    <3>2. Strict(l)
      BY <2>1, <2>4 DEF Strict
    <3> QED BY <2>3, <2>4, <3>1, <3>2 DEF InOrder
  <2>5. CASE Len(l) >= 2
    <3> DEFINE a == Every(l, 1)
    <3> DEFINE b == Every(l, 2)
    <3>1. /\ a \in Seq(S) /\ Len(a) \in 1 .. Len(l) - 1
          /\ b \in Seq(S) /\ Len(b) \in 1 .. Len(l) - 1
          /\ Len(a) + Len(b) = Len(l)
          /\ Range(a) \cup Range(b) = Range(l)
      BY <2>1, <2>5, Dealt
    <3>2. Different(a) /\ Different(b) /\ Apart(Range(a), Range(b))
      BY <2>1, <2>5, <1>3, HalvesDiffer
    <3>3. f[l] = Merge(f[a], f[b])
      BY <2>1, <2>3, <2>5
    <3> HIDE DEF a, b
    <3>4. k - 1 \in Nat /\ k > 0 /\ Len(a) <= k - 1 /\ Len(b) <= k - 1
      BY <2>1, <2>5, <3>1, <1>3
    <3>5. a \in BoundedSeq(S, k - 1) /\ b \in BoundedSeq(S, k - 1)
      BY <3>1, <3>4, Bounded
    <3>6. InOrder(a, f[a]) /\ InOrder(b, f[b])
      BY <3>2, <3>4, <3>5, <1>3
    <3>7. /\ f[a] \in Seq(Spans) /\ f[b] \in Seq(Spans)
          /\ Range(a) \subseteq Spans /\ Range(b) \subseteq Spans
      <4>1. Range(a) \subseteq Spans /\ Range(b) \subseteq Spans
        BY <3>1, <1>2 DEF Range
      <4> QED BY <3>6, <4>1 DEF InOrder
    <3>8. /\ Merge(f[a], f[b]) \in Seq(Range(f[a]) \cup Range(f[b]))
          /\ Len(Merge(f[a], f[b])) = Len(f[a]) + Len(f[b])
          /\ Strict(Merge(f[a], f[b]))
          /\ Range(Merge(f[a], f[b])) = Range(f[a]) \cup Range(f[b])
      BY <3>2, <3>6, <3>7, MergeMerges DEF InOrder
    <3> QED BY <3>1, <3>3, <3>6, <3>8 DEF InOrder
  <2> QED BY <2>1, <2>4, <2>5
<1> DEFINE Bad == {k \in 0 .. n : ~Sofar(k)}
<1>4. Sofar(n)
  <2> HIDE DEF Sofar
  <2>1. SUFFICES ASSUME Bad # {} PROVE FALSE
    BY <1>2
  <2>2. Bad \subseteq Nat
    BY <1>2
  <2>3. PICK k \in Bad : \A j \in Bad : k <= j
    BY <2>1, <2>2, Least
  <2>4. k \in Nat /\ k <= n /\ ~(k <= k - 1) /\ (k > 0 => k - 1 \in 0 .. n)
    BY <1>2, <2>3
  <2>5. k > 0 => Sofar(k - 1)
    BY <2>3, <2>4
  <2>6. Sofar(k)
    <3> SUFFICES ASSUME NEW l \in BoundedSeq(S, k), Different(l) PROVE InOrder(l, f[l])
      BY DEF Sofar
    <3> QED BY <1>3, <2>4, <2>5
  <2> QED BY <2>3, <2>6
<1>5. list \in BoundedSeq(S, n)
  <2>1. Len(list) <= n
    BY <1>2 DEF n
  <2> QED BY <2>1, <1>2, Bounded
<1> QED BY <1>1, <1>4, <1>5

-----------------------------------------------------------------------------
(* The invariant of section_coalesce_all().  The spans after "l" are as they *)
(* were begun, in order; those before it have been dealt with; what "l" has  *)
(* taken in are bytes of inputs, at their addresses, and zeros.              *)
Real(b) == b # Zero /\ b.by \in DOMAIN input /\ b.put \in Addresses(input[b.by])

Typed ==
    /\ input \in Inputs
    /\ pad \in BOOLEAN
    /\ spans \in Seq(Spans)
    /\ at \in Nat \ {0}
    /\ at <= Len(spans) \/ (at = 1 /\ spans = <<>>)
    /\ level \in {None, Data}
    /\ done \in BOOLEAN
    /\ done => at >= Len(spans)

Untouched ==
    \A i \in DOMAIN spans : i > at =>
        spans[i].sequence \in DOMAIN input /\ spans[i] = Begun(input, spans[i].sequence)

Placed ==
    \A i \in DOMAIN spans : \A j \in DOMAIN spans[i].data :
        LET b == spans[i].data[j]
        IN  b = Zero \/ (Real(b) /\ b.put = spans[i].put + j - 1)

(* The byte of input n at address a is in span i.                            *)
Stands(i, n, a) ==
    /\ spans[i].put <= a /\ a < End(spans[i])
    /\ spans[i].data[a - spans[i].put + 1] = [by |-> n, put |-> a]

Present ==
    level = None => \A n \in DOMAIN input : \A a \in Addresses(input[n]) :
        \E i \in DOMAIN spans : Stands(i, n, a)

Separate ==
    \A i \in DOMAIN spans : i < at =>
        /\ End(spans[i]) <= spans[i + 1].put
        /\ level = None => End(spans[i]) < spans[i + 1].put /\ ~pad

(* Zeros are for gaps, and so below what comes next; and the last byte is    *)
(* that of an input which is not to come and began no later.                 *)
ZerosBelow ==
    at \in DOMAIN spans => \A j \in DOMAIN spans[at].data :
        spans[at].data[j] = Zero =>
            \A i \in DOMAIN spans : i > at => spans[at].put + j - 1 < spans[i].put

LastOf(span) == span.data[Len(span.data)]

LastReal ==
    at \in DOMAIN spans =>
        /\ Len(spans[at].data) > 0
        /\ Real(LastOf(spans[at]))
        /\ \A i \in DOMAIN spans : i > at =>
               /\ spans[i].sequence # LastOf(spans[at]).by
               /\ input[LastOf(spans[at]).by].put <= spans[i].put

Noticed == level = Data => Overlap

Coalesces ==
    /\ Typed /\ Untouched /\ Strict(spans) /\ Placed /\ Present
    /\ Separate /\ ZerosBelow /\ LastReal /\ Noticed

-----------------------------------------------------------------------------
LEMMA Element ==
    ASSUME NEW S, NEW s \in Seq(S), NEW n \in DOMAIN s
    PROVE  n \in Nat \ {0} /\ n <= Len(s) /\ s[n] \in S
OBVIOUS

LEMMA IsSeq ==
    ASSUME NEW S, NEW n \in Nat, NEW s \in [1 .. n -> S]
    PROVE  s \in Seq(S) /\ Len(s) = n
OBVIOUS

LEMMA Length ==
    ASSUME NEW S, NEW s \in Seq(S)
    PROVE  Len(s) \in Nat /\ DOMAIN s = 1 .. Len(s) /\ (Len(s) = 0 => s = <<>>)
<1>1. Len(s) \in Nat /\ DOMAIN s = 1 .. Len(s)
  OBVIOUS
<1>2. Len(s) = 0 => s = <<>>
  BY SMT
<1> QED BY <1>1, <1>2

LEMMA InputType ==
    ASSUME NEW in \in Inputs
    PROVE  /\ in \in Seq([put : Nat, size : Nat \ {0}])
           /\ \A n \in DOMAIN in :
                  n \in Nat \ {0} /\ in[n].put \in Nat /\ in[n].size \in Nat \ {0}
<1>1. in \in Seq([put : Nat, size : Nat \ {0}])
  BY InputsAreSpans
<1>2. \A n \in DOMAIN in : n \in Nat \ {0} /\ in[n] \in [put : Nat, size : Nat \ {0}]
  BY <1>1, Element
<1> QED BY <1>1, <1>2

LEMMA BegunType ==
    ASSUME NEW in \in Inputs, NEW n \in DOMAIN in
    PROVE  /\ Begun(in, n) \in Spans
           /\ Begun(in, n).put = in[n].put /\ Begun(in, n).sequence = n
           /\ Len(Begun(in, n).data) = in[n].size
           /\ \A j \in 1 .. in[n].size :
                  Begun(in, n).data[j] = [by |-> n, put |-> in[n].put + j - 1]
<1>1. n \in Nat /\ in[n].put \in Nat /\ in[n].size \in Nat
  BY InputType
<1>2. Begun(in, n).data = [j \in 1 .. in[n].size |-> [by |-> n, put |-> in[n].put + j - 1]]
  BY DEF Begun, BytesOf
<1>3. \A j \in 1 .. in[n].size : in[n].put + j - 1 \in Nat
  BY <1>1
<1>4. Begun(in, n).data \in Seq([by : Nat, put : Nat]) /\ Len(Begun(in, n).data) = in[n].size
  <2>1. \A j \in 1 .. in[n].size : [by |-> n, put |-> in[n].put + j - 1] \in [by : Nat, put : Nat]
    BY <1>1, <1>3
  <2>2. Begun(in, n).data \in [1 .. in[n].size -> [by : Nat, put : Nat]]
    BY <1>2, <2>1
  <2> HIDE DEF Begun
  <2> QED BY <1>1, <2>2, IsSeq
<1>5. /\ Begun(in, n) = [put |-> in[n].put, sequence |-> n, data |-> Begun(in, n).data]
      /\ Begun(in, n).put = in[n].put /\ Begun(in, n).sequence = n
  BY DEF Begun
<1>6. Begun(in, n) \in Spans
  BY <1>1, <1>4, <1>5 DEF Spans
<1> QED BY <1>2, <1>4, <1>5, <1>6

LEMMA SpanType ==
    ASSUME NEW s \in Seq(Spans), NEW i \in DOMAIN s
    PROVE  /\ i \in Nat \ {0} /\ i <= Len(s) /\ Len(s) \in Nat
           /\ s[i] \in Spans
           /\ s[i].put \in Nat /\ s[i].sequence \in Nat
           /\ s[i].data \in Seq([by : Nat, put : Nat])
           /\ Len(s[i].data) \in Nat /\ DOMAIN s[i].data = 1 .. Len(s[i].data)
           /\ End(s[i]) = s[i].put + Len(s[i].data) /\ End(s[i]) \in Nat
<1>1. s[i] \in Spans /\ i \in Nat \ {0} /\ i <= Len(s) /\ Len(s) \in Nat
  OBVIOUS
<1>2. /\ s[i].put \in Nat /\ s[i].sequence \in Nat
      /\ s[i].data \in Seq([by : Nat, put : Nat])
  BY <1>1 DEF Spans
<1>3. Len(s[i].data) \in Nat /\ DOMAIN s[i].data = 1 .. Len(s[i].data)
  BY <1>2
<1> QED BY <1>1, <1>2, <1>3 DEF End

(* A span as it was begun.                                                   *)
LEMMA BegunReal ==
    ASSUME Typed, NEW n \in DOMAIN input
    PROVE  /\ \A j \in DOMAIN Begun(input, n).data :
                  /\ Real(Begun(input, n).data[j])
                  /\ Begun(input, n).data[j].by = n
                  /\ Begun(input, n).data[j].put = Begun(input, n).put + j - 1
                  /\ Begun(input, n).data[j] # Zero
           /\ Len(Begun(input, n).data) > 0
           /\ Real(LastOf(Begun(input, n))) /\ LastOf(Begun(input, n)).by = n
<1>1. n \in Nat \ {0} /\ input[n].put \in Nat /\ input[n].size \in Nat \ {0}
  BY InputType DEF Typed
<1>2. /\ Begun(input, n).put = input[n].put
      /\ Len(Begun(input, n).data) = input[n].size
      /\ Begun(input, n).data \in Seq([by : Nat, put : Nat])
      /\ \A j \in 1 .. input[n].size :
             Begun(input, n).data[j] = [by |-> n, put |-> input[n].put + j - 1]
  BY BegunType DEF Typed, Spans
<1>3. DOMAIN Begun(input, n).data = 1 .. input[n].size
  BY <1>2
<1>4. ASSUME NEW j \in 1 .. input[n].size
      PROVE  /\ Real(Begun(input, n).data[j])
             /\ Begun(input, n).data[j].by = n
             /\ Begun(input, n).data[j].put = Begun(input, n).put + j - 1
             /\ Begun(input, n).data[j] # Zero
  <2>1. Begun(input, n).data[j] = [by |-> n, put |-> input[n].put + j - 1]
    BY <1>2
  <2>2. input[n].put + j - 1 \in Addresses(input[n])
    BY <1>1 DEF Addresses
  <2>3. [by |-> n, put |-> input[n].put + j - 1] # Zero
    BY <1>1 DEF Zero
  <2> QED BY <1>2, <2>1, <2>2, <2>3 DEF Real
<1>5. input[n].size \in 1 .. input[n].size /\ input[n].size > 0
  BY <1>1
<1> QED BY <1>2, <1>3, <1>4, <1>5 DEF LastOf

(* What stands in the list.                                                  *)
LEMMA ListFacts ==
    ASSUME Typed, at \in DOMAIN spans
    PROVE  /\ at \in Nat \ {0} /\ Len(spans) \in Nat /\ at <= Len(spans)
           /\ DOMAIN spans = 1 .. Len(spans)
BY DEF Typed

(* A turn looks at the span of "l" and the one begun that comes next.        *)
LEMMA TurnFacts ==
    ASSUME Coalesces, Turn
    PROVE  /\ at \in DOMAIN spans /\ at + 1 \in DOMAIN spans
           /\ Span \in Spans /\ NSpan \in Spans
           /\ Span.put \in Nat /\ NSpan.put \in Nat /\ Span.put <= NSpan.put
           /\ Len(Span.data) \in Nat \ {0} /\ Len(NSpan.data) \in Nat \ {0}
           /\ End(Span) = Span.put + Len(Span.data)
           /\ Gap = NSpan.put - (Span.put + Len(Span.data)) /\ Gap \in Int
           /\ NSpan.sequence \in DOMAIN input /\ NSpan = Begun(input, NSpan.sequence)
<1>1. Typed /\ Untouched /\ Strict(spans) /\ LastReal
  BY DEF Coalesces
<1>2. /\ at \in DOMAIN spans /\ at + 1 \in DOMAIN spans /\ at \in Nat /\ at < at + 1
      /\ spans \in Seq(Spans)
  BY <1>1 DEF Typed, Turn
<1>3. Before(Span, NSpan)
  BY <1>1, <1>2 DEF Strict, Span, NSpan
<1>4. /\ Span \in Spans /\ NSpan \in Spans
      /\ Span.put \in Nat /\ NSpan.put \in Nat
      /\ Len(Span.data) \in Nat /\ Len(NSpan.data) \in Nat
      /\ End(Span) = Span.put + Len(Span.data)
  BY <1>2, SpanType DEF Span, NSpan
<1>5. Span.put <= NSpan.put
  BY <1>3, <1>4 DEF Before
<1>6. Len(Span.data) > 0
  BY <1>1, <1>2 DEF LastReal, Span
<1>7. NSpan.sequence \in DOMAIN input /\ NSpan = Begun(input, NSpan.sequence)
  BY <1>1, <1>2 DEF Untouched, NSpan
<1>8. Len(NSpan.data) > 0
  BY <1>1, <1>7, BegunReal
<1>9. Gap = NSpan.put - (Span.put + Len(Span.data)) /\ Gap \in Int
  BY <1>4 DEF Gap
<1> QED BY <1>2, <1>4, <1>5, <1>6, <1>7, <1>8, <1>9

(* Before a span that is to come none has a later address; and none of those *)
(* to come is another's input.                                               *)
LEMMA ToCome ==
    ASSUME Typed, Untouched, Strict(spans),
           NEW i \in DOMAIN spans, NEW k \in DOMAIN spans, i < k, at < i
    PROVE  /\ spans[i].sequence # spans[k].sequence
           /\ spans[i].put <= spans[k].put
           /\ input[spans[i].sequence].put <= spans[k].put
<1>1. /\ i \in Nat /\ k \in Nat /\ at \in Nat /\ spans[i] \in Spans /\ spans[k] \in Spans
      /\ spans[i].put \in Nat /\ spans[k].put \in Nat
      /\ spans[i].sequence \in Nat /\ spans[k].sequence \in Nat
  BY SpanType DEF Typed
<1>2. Before(spans[i], spans[k])
  BY DEF Strict
<1>3. at < k
  BY <1>1
<1>4. /\ spans[i] = Begun(input, spans[i].sequence) /\ spans[i].sequence \in DOMAIN input
      /\ spans[k] = Begun(input, spans[k].sequence)
  BY <1>3 DEF Untouched
<1>5. spans[i].sequence # spans[k].sequence
  <2>1. spans[i].sequence = spans[k].sequence => spans[i] = spans[k]
    BY <1>4
  <2>2. spans[i] # spans[k]
    BY <1>1, <1>2 DEF Before
  <2> QED BY <2>1, <2>2
<1>6. spans[i].put <= spans[k].put
  BY <1>1, <1>2 DEF Before
<1>7. spans[i].put = input[spans[i].sequence].put
  BY <1>4, BegunType DEF Typed
<1> QED BY <1>5, <1>6, <1>7

(* A move of "l" to the next span, which leaves those after it alone.        *)
LEMMA NextIsReal ==
    ASSUME Typed, Untouched, Strict(spans), NEW i \in DOMAIN spans, at < i
    PROVE  /\ Len(spans[i].data) > 0
           /\ Real(LastOf(spans[i]))
           /\ LastOf(spans[i]).by = spans[i].sequence
           /\ \A k \in DOMAIN spans : i < k =>
                  /\ spans[k].sequence # LastOf(spans[i]).by
                  /\ input[LastOf(spans[i]).by].put <= spans[k].put
           /\ \A j \in DOMAIN spans[i].data : spans[i].data[j] # Zero
<1>1. spans[i].sequence \in DOMAIN input /\ spans[i] = Begun(input, spans[i].sequence)
  BY DEF Untouched
<1>2. /\ Len(spans[i].data) > 0
      /\ Real(LastOf(spans[i]))
      /\ LastOf(spans[i]).by = spans[i].sequence
      /\ \A j \in DOMAIN spans[i].data : spans[i].data[j] # Zero
  BY <1>1, BegunReal
<1> QED BY <1>2, ToCome

LEMMA StepOverKeeps == Coalesces /\ StepOver => Coalesces'
<1> SUFFICES ASSUME Coalesces, StepOver PROVE Coalesces'
  OBVIOUS
<1>1. /\ Turn /\ Gap > 0 /\ ~pad
      /\ at' = at + 1 /\ spans' = spans /\ level' = level
      /\ input' = input /\ pad' = pad /\ done' = done /\ ~done
  BY DEF StepOver, Turn
<1>2. /\ Typed /\ Untouched /\ Strict(spans) /\ Placed /\ Present
      /\ Separate /\ Noticed
  BY DEF Coalesces
<1>3. /\ at \in DOMAIN spans /\ at + 1 \in DOMAIN spans /\ at \in Nat \ {0} /\ at < at + 1
      /\ DOMAIN spans = 1 .. Len(spans) /\ Len(spans) \in Nat
  BY <1>1, <1>2, TurnFacts, ListFacts
<1>4. Typed'
  BY <1>1, <1>2, <1>3 DEF Typed
<1>5. Untouched'
  BY <1>1, <1>2, <1>3 DEF Untouched
<1>6. Strict(spans)'
  BY <1>1, <1>2
<1>7. Placed'
  BY <1>1, <1>2 DEF Placed, Real
<1>8. Present'
  BY <1>1, <1>2 DEF Present, Stands
<1>9. Separate'
  <2> SUFFICES ASSUME NEW i \in DOMAIN spans, i < at + 1
               PROVE  /\ End(spans[i]) <= spans[i + 1].put
                      /\ level = None => End(spans[i]) < spans[i + 1].put /\ ~pad
    BY <1>1 DEF Separate
  <2>1. CASE i < at
    BY <2>1, <1>2 DEF Separate
  <2>2. CASE i = at
    <3>1. End(spans[at]) < spans[at + 1].put
      BY <1>1, TurnFacts DEF Span, NSpan
    <3>2. End(spans[at]) \in Nat /\ spans[at + 1].put \in Nat
      BY <1>2, <1>3, SpanType DEF Typed
    <3> QED BY <2>2, <3>1, <3>2, <1>1
  <2> QED BY <2>1, <2>2, <1>3
<1>10. ZerosBelow'
  BY <1>1, <1>2, <1>3, NextIsReal DEF ZerosBelow
<1>11. LastReal'
  BY <1>1, <1>2, <1>3, NextIsReal DEF LastReal, Real
<1>12. Noticed'
  BY <1>1, <1>2 DEF Noticed, Overlap
<1> QED BY <1>4, <1>5, <1>6, <1>7, <1>8, <1>9, <1>10, <1>11, <1>12 DEF Coalesces

LEMMA RaiseData == \A l \in {None, Data} : Raise(l, Data) = Data
BY DEF Raise, None, Data, Inconsistent, OutOfRange

(* The list after a turn that cuts a span.                                   *)
LEMMA Cut ==
    ASSUME NEW S, NEW s \in Seq(S), NEW n \in Nat, n <= Len(s)
    PROVE  /\ SubSeq(s, 1, n) \in Seq(S) /\ Len(SubSeq(s, 1, n)) = n
           /\ \A i \in 1 .. n : SubSeq(s, 1, n)[i] = s[i]
OBVIOUS

LEMMA WithData ==
    ASSUME NEW s \in Spans, NEW d \in Seq([by : Nat, put : Nat])
    PROVE  /\ [s EXCEPT !.data = d] \in Spans
           /\ [s EXCEPT !.data = d].put = s.put
           /\ [s EXCEPT !.data = d].sequence = s.sequence
           /\ [s EXCEPT !.data = d].data = d
BY DEF Spans

LEMMA Replaced ==
    ASSUME NEW S, NEW s \in Seq(S), NEW k \in DOMAIN s, NEW x \in S
    PROVE  /\ [s EXCEPT ![k] = x] \in Seq(S) /\ Len([s EXCEPT ![k] = x]) = Len(s)
           /\ [s EXCEPT ![k] = x][k] = x
           /\ \A i \in DOMAIN s : i # k => [s EXCEPT ![k] = x][i] = s[i]
OBVIOUS

LEMMA CutList ==
    ASSUME Coalesces, Truncate
    PROVE  LET n == NSpan.put - Span.put
           IN  /\ n \in Nat /\ n < Len(Span.data)
               /\ spans' \in Seq(Spans) /\ Len(spans') = Len(spans)
               /\ \A i \in DOMAIN spans : i # at => spans'[i] = spans[i]
               /\ spans'[at].put = Span.put /\ spans'[at].sequence = Span.sequence
               /\ Len(spans'[at].data) = n
               /\ \A j \in 1 .. n : spans'[at].data[j] = Span.data[j]
<1> DEFINE n == NSpan.put - Span.put
<1> DEFINE d == SubSeq(Span.data, 1, n)
<1> DEFINE x == [Span EXCEPT !.data = d]
<1>1. Turn /\ Gap < 0 /\ spans' = [spans EXCEPT ![at].data = SubSeq(@, 1, Len(@) + Gap)]
  BY DEF Truncate
<1>2. /\ at \in DOMAIN spans /\ Span \in Spans
      /\ Span.put \in Nat /\ NSpan.put \in Nat /\ Span.put <= NSpan.put
      /\ Len(Span.data) \in Nat /\ Gap = NSpan.put - (Span.put + Len(Span.data))
  BY <1>1, TurnFacts
<1>3. n \in Nat /\ n < Len(Span.data) /\ Len(Span.data) + Gap = n
  BY <1>1, <1>2
<1>4. spans \in Seq(Spans) /\ Span = spans[at] /\ Span.data \in Seq([by : Nat, put : Nat])
  BY <1>2 DEF Coalesces, Typed, Span, Spans
<1>5. spans' = [spans EXCEPT ![at] = x]
  BY <1>1, <1>3, <1>4
<1>6. /\ d \in Seq([by : Nat, put : Nat]) /\ Len(d) = n
      /\ \A i \in 1 .. n : d[i] = Span.data[i]
  <2>1. n <= Len(Span.data)
    BY <1>2, <1>3
  <2> HIDE DEF n
  <2> QED BY <2>1, <1>3, <1>4, Cut
<1> HIDE DEF d
<1>7. x \in Spans /\ x.put = Span.put /\ x.sequence = Span.sequence /\ x.data = d
  BY <1>2, <1>6, WithData
<1> HIDE DEF x
<1>8. /\ spans' \in Seq(Spans) /\ Len(spans') = Len(spans) /\ spans'[at] = x
      /\ \A i \in DOMAIN spans : i # at => spans'[i] = spans[i]
  BY <1>2, <1>4, <1>5, <1>7, Replaced
<1> QED BY <1>3, <1>6, <1>7, <1>8

(* Where a span is cut two inputs overlap: that of its last byte, and the    *)
(* next.                                                                     *)
LEMMA CutOverlaps == Coalesces /\ Turn /\ Gap < 0 => Overlap
<1> SUFFICES ASSUME Coalesces, Turn, Gap < 0 PROVE Overlap
  OBVIOUS
<1>1. /\ at \in DOMAIN spans /\ at + 1 \in DOMAIN spans /\ at \in Nat /\ at + 1 > at
      /\ Span.put \in Nat /\ NSpan.put \in Nat
      /\ Len(Span.data) \in Nat \ {0} /\ Len(NSpan.data) \in Nat \ {0}
      /\ Gap = NSpan.put - (Span.put + Len(Span.data))
      /\ NSpan.sequence \in DOMAIN input /\ NSpan = Begun(input, NSpan.sequence)
  BY TurnFacts, ListFacts DEF Coalesces
<1> DEFINE b == LastOf(Span)
<1> DEFINE n == NSpan.sequence
<1>2. /\ Real(b) /\ n # b.by /\ input[b.by].put <= NSpan.put
  BY <1>1 DEF Coalesces, LastReal, Span, NSpan
<1>3. b.put = Span.put + Len(Span.data) - 1
  <2>1. Len(Span.data) \in DOMAIN Span.data
    BY <1>1, SpanType DEF Coalesces, Typed, Span
  <2>2. b # Zero
    BY <1>2 DEF Real
  <2> QED BY <2>1, <2>2, <1>1 DEF Coalesces, Placed, LastOf, Span
<1>4. /\ b.by \in DOMAIN input /\ b.put \in input[b.by].put .. input[b.by].put + input[b.by].size - 1
  BY <1>2 DEF Real, Addresses
<1>5. input[b.by].put \in Nat /\ input[b.by].size \in Nat
  BY <1>4, InputType DEF Coalesces, Typed
<1>6. NSpan.put \in Addresses(input[b.by])
  <2>1. NSpan.put <= b.put /\ b.put \in Nat
    BY <1>1, <1>3
  <2> HIDE DEF b
  <2>2. b.put <= input[b.by].put + input[b.by].size - 1
    BY <1>4, <1>5
  <2> DEFINE last == input[b.by].put + input[b.by].size - 1
  <2>3. last \in Int
    BY <1>5
  <2>4. b.put <= last
    BY <2>2
  <2> HIDE DEF last
  <2>5. NSpan.put <= last
    BY <2>1, <2>3, <2>4, <1>1
  <2>6. NSpan.put \in input[b.by].put .. last
    BY <2>3, <2>5, <1>1, <1>2, <1>5
  <2> QED BY <2>6 DEF Addresses, last
<1>7. NSpan.put \in Addresses(input[n])
  <2>1. input \in Inputs
    BY DEF Coalesces, Typed
  <2>2. Begun(input, n).put = input[n].put
    BY <2>1, <1>1, BegunType
  <2>3. input[n].put \in Nat /\ input[n].size \in Nat \ {0}
    BY <2>1, <1>1, InputType
  <2>4. NSpan.put = input[n].put
    BY <2>2, <1>1
  <2> QED BY <2>3, <2>4 DEF Addresses
<1> QED BY <1>1, <1>2, <1>4, <1>6, <1>7 DEF Overlap, Covers

LEMMA TruncateKeeps == Coalesces /\ Truncate => Coalesces'
<1> SUFFICES ASSUME Coalesces, Truncate PROVE Coalesces'
  OBVIOUS
<1>1. /\ Turn /\ Gap < 0 /\ at' = at + 1
      /\ input' = input /\ pad' = pad /\ done' = done /\ ~done
  BY DEF Truncate, Turn
<1>2. /\ Typed /\ Untouched /\ Strict(spans) /\ Placed /\ Separate
  BY DEF Coalesces
<1>3. /\ at \in DOMAIN spans /\ at + 1 \in DOMAIN spans /\ at \in Nat \ {0} /\ at < at + 1
      /\ DOMAIN spans = 1 .. Len(spans) /\ Len(spans) \in Nat
  BY <1>1, <1>2, TurnFacts, ListFacts
<1> DEFINE n == NSpan.put - Span.put
<1>4. /\ n \in Nat /\ n < Len(Span.data)
      /\ spans' \in Seq(Spans) /\ Len(spans') = Len(spans)
      /\ \A i \in DOMAIN spans : i # at => spans'[i] = spans[i]
      /\ spans'[at].put = Span.put /\ spans'[at].sequence = Span.sequence
      /\ Len(spans'[at].data) = n
      /\ \A j \in 1 .. n : spans'[at].data[j] = Span.data[j]
  BY CutList
<1>5. Span = spans[at] /\ NSpan = spans[at + 1] /\ DOMAIN spans' = DOMAIN spans
  BY <1>3, <1>4 DEF Span, NSpan
<1>6. level' = Data /\ Data # None
  BY <1>2, RaiseData DEF Truncate, Typed, Data, None
<1>7. /\ Span.put \in Nat /\ NSpan.put \in Nat /\ Len(Span.data) \in Nat
  BY <1>1, TurnFacts
<1> HIDE DEF n
<1>8. \A i \in DOMAIN spans : spans'[i].put = spans[i].put /\ spans'[i].sequence = spans[i].sequence
  BY <1>4, <1>5
<1>9. Typed'
  BY <1>1, <1>2, <1>3, <1>4, <1>6 DEF Typed
<1>10. Untouched'
  BY <1>1, <1>2, <1>3, <1>4, <1>5 DEF Untouched
<1>11. Strict(spans)'
  BY <1>2, <1>5, <1>8 DEF Strict, Before
<1>12. Placed'
  <2> SUFFICES ASSUME NEW i \in DOMAIN spans, NEW j \in DOMAIN spans'[i].data
               PROVE  \/ spans'[i].data[j] = Zero
                      \/ /\ Real(spans'[i].data[j])
                         /\ spans'[i].data[j].put = spans'[i].put + j - 1
    BY <1>1, <1>5 DEF Placed, Real
  <2>1. CASE i # at
    BY <2>1, <1>2, <1>4 DEF Placed
  <2>2. CASE i = at
    <3>1. DOMAIN spans'[at].data = 1 .. n
      <4>1. spans'[at].data \in Seq([by : Nat, put : Nat])
        BY <1>3, <1>4, <1>5, SpanType
      <4> QED BY <4>1, <1>4
    <3>2. j \in DOMAIN spans[at].data
      BY <2>2, <3>1, <1>2, <1>3, <1>4, <1>5, SpanType DEF Typed
    <3>3. spans'[at].data[j] = spans[at].data[j] /\ spans'[at].put = spans[at].put
      BY <2>2, <3>1, <1>4, <1>5
    <3> QED BY <2>2, <3>2, <3>3, <1>2, <1>3 DEF Placed
  <2> QED BY <2>1, <2>2
<1>13. Present'
  BY <1>6 DEF Present
<1>14. Separate'
  <2> SUFFICES ASSUME NEW i \in DOMAIN spans, i < at + 1
               PROVE  End(spans'[i]) <= spans'[i + 1].put
    BY <1>1, <1>5, <1>6 DEF Separate
  <2>1. CASE i < at
    <3>1. spans'[i] = spans[i] /\ i + 1 \in DOMAIN spans
      BY <2>1, <1>3, <1>4
    <3>2. spans'[i + 1].put = spans[i + 1].put
      BY <3>1, <1>8
    <3> QED BY <2>1, <3>1, <3>2, <1>2 DEF Separate
  <2>2. CASE i = at
    <3>1. End(spans'[at]) = NSpan.put
      BY <1>4, <1>7 DEF End, n
    <3>2. spans'[at + 1].put = NSpan.put
      BY <1>3, <1>5, <1>8
    <3> QED BY <2>2, <3>1, <3>2, <1>7
  <2> QED BY <2>1, <2>2, <1>3
<1>15. spans'[at + 1] = spans[at + 1]
  BY <1>3, <1>4
<1>16. ZerosBelow'
  <2>1. \A j \in DOMAIN spans[at + 1].data : spans[at + 1].data[j] # Zero
    BY <1>2, <1>3, NextIsReal
  <2> QED BY <2>1, <1>1, <1>15 DEF ZerosBelow
<1>17. LastReal'
  <2>1. /\ Len(spans[at + 1].data) > 0
        /\ Real(LastOf(spans[at + 1]))
        /\ \A k \in DOMAIN spans : at + 1 < k =>
               /\ spans[k].sequence # LastOf(spans[at + 1]).by
               /\ input[LastOf(spans[at + 1]).by].put <= spans[k].put
    BY <1>2, <1>3, NextIsReal
  <2> QED BY <2>1, <1>1, <1>3, <1>5, <1>8, <1>15 DEF LastReal, Real
<1>18. Noticed'
  <2>1. Overlap
    BY <1>1, CutOverlaps
  <2> QED BY <2>1, <1>1 DEF Noticed, Overlap
<1> QED BY <1>9, <1>10, <1>11, <1>12, <1>13, <1>14, <1>16, <1>17, <1>18 DEF Coalesces

(* The list after a turn that takes the next span in.                        *)
LEMMA Joined ==
    ASSUME NEW S, NEW s \in Seq(S), NEW t \in Seq(S), NEW g \in Nat, NEW z \in S
    PROVE  LET d == s \o [j \in 1 .. g |-> z] \o t
           IN  /\ d \in Seq(S) /\ Len(d) = Len(s) + g + Len(t)
               /\ \A j \in 1 .. Len(s) : d[j] = s[j]
               /\ \A j \in 1 .. g : d[Len(s) + j] = z
               /\ \A j \in 1 .. Len(t) : d[Len(s) + g + j] = t[j]
<1> DEFINE p == [j \in 1 .. g |-> z]
<1>1. p \in Seq(S) /\ Len(p) = g /\ \A j \in 1 .. g : p[j] = z
  OBVIOUS
<1> HIDE DEF p
<1> DEFINE e == s \o p
<1>2. /\ e \in Seq(S) /\ Len(e) = Len(s) + g
      /\ \A j \in 1 .. Len(s) : e[j] = s[j]
      /\ \A j \in 1 .. g : e[Len(s) + j] = z
  BY <1>1
<1> HIDE DEF e
<1>3. /\ e \o t \in Seq(S) /\ Len(e \o t) = Len(e) + Len(t)
      /\ \A j \in 1 .. Len(e) : (e \o t)[j] = e[j]
      /\ \A j \in 1 .. Len(t) : (e \o t)[Len(e) + j] = t[j]
  BY <1>2
<1>4. Len(s) \in Nat /\ Len(t) \in Nat
  OBVIOUS
<1>5. \A j \in 1 .. Len(s) : j \in 1 .. Len(e)
  BY <1>2, <1>4
<1>6. \A j \in 1 .. g : Len(s) + j \in 1 .. Len(e)
  BY <1>2, <1>4
<1>7. /\ \A j \in 1 .. Len(s) : (e \o t)[j] = s[j]
      /\ \A j \in 1 .. g : (e \o t)[Len(s) + j] = z
  BY <1>2, <1>3, <1>5, <1>6
<1> QED BY <1>2, <1>3, <1>7 DEF e, p

LEMMA Catenated ==
    ASSUME NEW S, NEW s \in Seq(S), NEW t \in Seq(S)
    PROVE  /\ s \o t \in Seq(S) /\ Len(s \o t) = Len(s) + Len(t)
           /\ \A i \in 1 .. Len(s) : (s \o t)[i] = s[i]
           /\ \A i \in 1 .. Len(t) : (s \o t)[Len(s) + i] = t[i]
OBVIOUS

LEMMA Without ==
    ASSUME NEW S, NEW s \in Seq(S), NEW k \in DOMAIN s
    PROVE  /\ RemoveAt(s, k) \in Seq(S) /\ Len(RemoveAt(s, k)) = Len(s) - 1
           /\ \A i \in 1 .. k - 1 : RemoveAt(s, k)[i] = s[i]
           /\ \A i \in k .. Len(s) - 1 : RemoveAt(s, k)[i] = s[i + 1]
<1> DEFINE a == SubSeq(s, 1, k - 1)
<1> DEFINE b == SubSeq(s, k + 1, Len(s))
<1>1. k \in Nat \ {0} /\ k <= Len(s) /\ Len(s) \in Nat
  OBVIOUS
<1>2. a \in Seq(S) /\ Len(a) = k - 1 /\ \A i \in 1 .. k - 1 : a[i] = s[i]
  BY <1>1
<1>3. b \in Seq(S) /\ Len(b) = Len(s) - k /\ \A i \in 1 .. Len(s) - k : b[i] = s[i + k]
  BY <1>1
<1> HIDE DEF a, b
<1>4. /\ a \o b \in Seq(S) /\ Len(a \o b) = Len(s) - 1
      /\ \A i \in 1 .. k - 1 : (a \o b)[i] = a[i]
      /\ \A i \in 1 .. Len(s) - k : (a \o b)[(k - 1) + i] = b[i]
  <2>1. /\ a \o b \in Seq(S) /\ Len(a \o b) = Len(a) + Len(b)
        /\ \A i \in 1 .. Len(a) : (a \o b)[i] = a[i]
        /\ \A i \in 1 .. Len(b) : (a \o b)[Len(a) + i] = b[i]
    <3>1. a \in Seq(S) /\ b \in Seq(S)
      BY <1>2, <1>3
    <3> QED BY <3>1, Catenated
  <2>2. (k - 1) + (Len(s) - k) = Len(s) - 1
    BY <1>1
  <2>3. Len(a \o b) = Len(s) - 1
    BY <2>1, <2>2, <1>2, <1>3
  <2> QED BY <2>1, <2>3, <1>2, <1>3
<1>5. ASSUME NEW i \in k .. Len(s) - 1 PROVE (a \o b)[i] = s[i + 1]
  <2>1. i - k + 1 \in 1 .. Len(s) - k /\ (k - 1) + (i - k + 1) = i /\ (i - k + 1) + k = i + 1
    BY <1>1
  <2> DEFINE m == i - k + 1
  <2>2. m \in 1 .. Len(s) - k /\ (k - 1) + m = i /\ m + k = i + 1
    BY <2>1
  <2> HIDE DEF m
  <2>3. (a \o b)[(k - 1) + m] = b[m] /\ b[m] = s[m + k]
    BY <2>2, <1>3, <1>4
  <2> QED BY <2>2, <2>3
<1> QED BY <1>2, <1>4, <1>5 DEF RemoveAt, a, b

LEMMA JoinList ==
    ASSUME Coalesces, Join
    PROVE  /\ spans' \in Seq(Spans) /\ Len(spans') = Len(spans) - 1
           /\ \A i \in 1 .. at - 1 : spans'[i] = spans[i]
           /\ \A i \in at + 1 .. Len(spans) - 1 : spans'[i] = spans[i + 1]
           /\ spans'[at].put = Span.put /\ spans'[at].sequence = Span.sequence
           /\ Len(spans'[at].data) = Len(Span.data) + Gap + Len(NSpan.data)
           /\ \A j \in 1 .. Len(Span.data) : spans'[at].data[j] = Span.data[j]
           /\ \A j \in 1 .. Gap : spans'[at].data[Len(Span.data) + j] = Zero
           /\ \A j \in 1 .. Len(NSpan.data) :
                  spans'[at].data[Len(Span.data) + Gap + j] = NSpan.data[j]
<1> DEFINE d == Span.data \o [j \in 1 .. Gap |-> Zero] \o NSpan.data
<1> DEFINE x == [Span EXCEPT !.data = d]
<1> DEFINE s == [spans EXCEPT ![at] = x]
<1> DEFINE B == [by : Nat, put : Nat]
<1>1. /\ Turn /\ (Gap = 0 \/ Gap > 0)
      /\ spans' = RemoveAt([spans EXCEPT ![at].data =
                               @ \o [j \in 1 .. Gap |-> Zero] \o NSpan.data], at + 1)
  BY DEF Join
<1>2. /\ at \in DOMAIN spans /\ at + 1 \in DOMAIN spans /\ Span \in Spans /\ NSpan \in Spans
      /\ Gap \in Nat
  BY <1>1, TurnFacts
<1>3. /\ spans \in Seq(Spans) /\ Span = spans[at]
      /\ Span.data \in Seq(B) /\ NSpan.data \in Seq(B) /\ Zero \in B
      /\ at \in Nat \ {0} /\ at + 1 <= Len(spans) /\ Len(spans) \in Nat
  BY <1>2, ListFacts DEF Coalesces, Typed, Span, Spans, Zero
<1>4. spans' = RemoveAt(s, at + 1)
  BY <1>1, <1>3
<1>5. /\ d \in Seq(B) /\ Len(d) = Len(Span.data) + Gap + Len(NSpan.data)
      /\ \A j \in 1 .. Len(Span.data) : d[j] = Span.data[j]
      /\ \A j \in 1 .. Gap : d[Len(Span.data) + j] = Zero
      /\ \A j \in 1 .. Len(NSpan.data) : d[Len(Span.data) + Gap + j] = NSpan.data[j]
  <2> HIDE DEF B
  <2>1. Gap \in Nat
    BY <1>2
  <2> DEFINE a == Span.data
  <2> DEFINE b == NSpan.data
  <2>2. a \in Seq(B) /\ b \in Seq(B) /\ Zero \in B
    BY <1>3
  <2> HIDE DEF a, b
  <2>3. LET e == a \o [j \in 1 .. Gap |-> Zero] \o b
        IN  /\ e \in Seq(B) /\ Len(e) = Len(a) + Gap + Len(b)
            /\ \A j \in 1 .. Len(a) : e[j] = a[j]
            /\ \A j \in 1 .. Gap : e[Len(a) + j] = Zero
            /\ \A j \in 1 .. Len(b) : e[Len(a) + Gap + j] = b[j]
    BY <2>1, <2>2, Joined
  <2> QED BY <2>3 DEF a, b
<1> HIDE DEF d
<1>6. x \in Spans /\ x.put = Span.put /\ x.sequence = Span.sequence /\ x.data = d
  BY <1>2, <1>5, WithData
<1> HIDE DEF x
<1>7. /\ s \in Seq(Spans) /\ Len(s) = Len(spans) /\ s[at] = x
      /\ \A i \in DOMAIN spans : i # at => s[i] = spans[i]
  BY <1>2, <1>3, <1>6, Replaced
<1> HIDE DEF s
<1>8. at + 1 \in DOMAIN s
  BY <1>3, <1>7
<1>9. /\ spans' \in Seq(Spans) /\ Len(spans') = Len(s) - 1
      /\ \A i \in 1 .. (at + 1) - 1 : spans'[i] = s[i]
      /\ \A i \in at + 1 .. Len(s) - 1 : spans'[i] = s[i + 1]
  BY <1>4, <1>7, <1>8, Without
<1>10. spans'[at] = x
  BY <1>3, <1>7, <1>9
<1>11. \A i \in 1 .. at - 1 : spans'[i] = spans[i]
  <2> SUFFICES ASSUME NEW i \in 1 .. at - 1 PROVE spans'[i] = spans[i]
    OBVIOUS
  <2>1. i \in 1 .. (at + 1) - 1 /\ i # at /\ i \in DOMAIN spans
    BY <1>3
  <2> QED BY <2>1, <1>7, <1>9
<1>12. \A i \in at + 1 .. Len(spans) - 1 : spans'[i] = spans[i + 1]
  BY <1>3, <1>7, <1>9
<1> QED BY <1>5, <1>6, <1>7, <1>9, <1>10, <1>11, <1>12

LEMMA JoinKeeps == Coalesces /\ Join => Coalesces'
<1> SUFFICES ASSUME Coalesces, Join PROVE Coalesces'
  OBVIOUS
<1>1. /\ Turn /\ (Gap = 0 \/ (Gap > 0 /\ pad)) /\ at' = at /\ level' = level
      /\ input' = input /\ pad' = pad /\ done' = done /\ ~done
  BY DEF Join, Turn
<1>2. /\ Typed /\ Untouched /\ Strict(spans) /\ Placed /\ Present
      /\ Separate /\ ZerosBelow /\ LastReal /\ Noticed
  BY DEF Coalesces
<1> DEFINE N == Len(spans) - 1
<1> DEFINE d == Span.data
<1> DEFINE c == NSpan.data
<1> DEFINE x == spans'[at]
<1>3. /\ at \in Nat \ {0} /\ at \in DOMAIN spans /\ at + 1 \in DOMAIN spans
      /\ DOMAIN spans = 1 .. N + 1 /\ N \in Nat /\ at <= N
      /\ Span = spans[at] /\ NSpan = spans[at + 1]
  BY <1>1, <1>2, TurnFacts, ListFacts DEF Span, NSpan
<1>4. /\ Span.put \in Nat /\ NSpan.put \in Nat
      /\ Len(d) \in Nat \ {0} /\ Len(c) \in Nat \ {0}
      /\ DOMAIN d = 1 .. Len(d) /\ DOMAIN c = 1 .. Len(c)
      /\ Gap = NSpan.put - (Span.put + Len(d)) /\ Gap \in Nat
      /\ End(Span) = Span.put + Len(d) /\ End(NSpan) = NSpan.put + Len(c)
  <2>1. /\ Span.put \in Nat /\ NSpan.put \in Nat
        /\ Len(d) \in Nat \ {0} /\ Len(c) \in Nat \ {0}
        /\ Gap = NSpan.put - (Span.put + Len(d)) /\ Gap \in Int
    BY <1>1, TurnFacts
  <2>2. /\ DOMAIN d = 1 .. Len(d) /\ DOMAIN c = 1 .. Len(c)
        /\ End(Span) = Span.put + Len(d) /\ End(NSpan) = NSpan.put + Len(c)
    BY <1>2, <1>3, SpanType DEF Typed
  <2> QED BY <2>1, <2>2, <1>1
<1>5. /\ spans' \in Seq(Spans) /\ Len(spans') = N
      /\ \A i \in 1 .. at - 1 : spans'[i] = spans[i]
      /\ \A i \in at + 1 .. N : spans'[i] = spans[i + 1]
      /\ x.put = Span.put /\ x.sequence = Span.sequence
      /\ Len(x.data) = Len(d) + Gap + Len(c)
      /\ \A j \in 1 .. Len(d) : x.data[j] = d[j]
      /\ \A j \in 1 .. Gap : x.data[Len(d) + j] = Zero
      /\ \A j \in 1 .. Len(c) : x.data[Len(d) + Gap + j] = c[j]
  BY JoinList
<1>6. DOMAIN spans' = 1 .. N /\ at \in 1 .. N /\ DOMAIN x.data = 1 .. Len(d) + Gap + Len(c)
  <2>1. DOMAIN spans' = 1 .. N /\ at \in 1 .. N
    BY <1>3, <1>5
  <2>2. DOMAIN x.data = 1 .. Len(x.data)
    BY <2>1, <1>5, SpanType
  <2> QED BY <2>1, <2>2, <1>5
<1> HIDE DEF N, d, c, x
<1>7. End(x) = NSpan.put + Len(c) /\ End(Span) <= NSpan.put
  <2>1. End(x) = Span.put + (Len(d) + Gap + Len(c))
    BY <1>5 DEF End
  <2> SUFFICES Span.put + (Len(d) + Gap + Len(c)) = NSpan.put + Len(c) /\ End(Span) <= NSpan.put
    BY <2>1
  <2> DEFINE put == Span.put
             next == NSpan.put
             dl == Len(d)
             cl == Len(c)
             gap == Gap
             end == End(Span)
  <2>2. /\ put \in Nat /\ next \in Nat /\ dl \in Nat /\ cl \in Nat
        /\ gap = next - (put + dl) /\ gap \in Nat /\ end = put + dl
    BY <1>4
  <2> HIDE DEF put, next, dl, cl, gap, end
  <2>3. put + (dl + gap + cl) = next + cl /\ end <= next
    BY <2>2
  <2> QED BY <2>3 DEF put, next, dl, cl, gap, end
(* A byte of the joined span is one of the first, a zero, or of the second.  *)
<1>8. ASSUME NEW j \in DOMAIN x.data
      PROVE  \/ /\ j \in DOMAIN d /\ x.data[j] = d[j]
             \/ /\ x.data[j] = Zero /\ Span.put + j - 1 < NSpan.put
             \/ \E k \in DOMAIN c : j = Len(d) + Gap + k /\ x.data[j] = c[k]
  <2>1. CASE j <= Len(d)
    <3>1. j \in 1 .. Len(d)
      BY <2>1, <1>4, <1>6
    <3>2. j \in DOMAIN d
      BY <3>1, <1>4
    <3> QED BY <3>1, <3>2, <1>5
  <2>2. CASE Len(d) < j /\ j <= Len(d) + Gap
    <3> DEFINE k == j - Len(d)
    <3>1. k \in 1 .. Gap /\ j = Len(d) + k
      BY <2>2, <1>4, <1>6
    <3>2. Span.put + j - 1 < NSpan.put
      BY <2>2, <1>4, <1>6
    <3> HIDE DEF k
    <3> QED BY <3>1, <3>2, <1>5
  <2>3. CASE Len(d) + Gap < j
    <3> DEFINE k == j - (Len(d) + Gap)
    <3>1. k \in 1 .. Len(c) /\ j = (Len(d) + Gap) + k
      <4>1. j \in 1 .. Len(d) + Gap + Len(c) /\ Len(d) \in Nat /\ Gap \in Nat /\ Len(c) \in Nat
        BY <1>4, <1>6
      <4> QED BY <4>1, <2>3
    <3> HIDE DEF k
    <3>a. k \in DOMAIN c
      BY <3>1, <1>4
    <3>2. x.data[j] = c[k]
      BY <3>1, <1>5
    <3> QED BY <3>1, <3>a, <3>2
  <2>4. j \in Nat /\ Len(d) \in Nat /\ Gap \in Nat
    <3>1. j \in 1 .. Len(d) + Gap + Len(c)
      BY <1>6
    <3> QED BY <3>1, <1>4
  <2>5. \/ j <= Len(d) \/ (Len(d) < j /\ j <= Len(d) + Gap) \/ Len(d) + Gap < j
    <3> DEFINE l == Len(d)
    <3> DEFINE g == Gap
    <3>1. j \in Nat /\ l \in Nat /\ g \in Nat
      BY <2>4
    <3> HIDE DEF l, g
    <3>2. \/ j <= l \/ (l < j /\ j <= l + g) \/ l + g < j
      BY <3>1
    <3> QED BY <3>2 DEF l, g
  <2> QED BY <2>1, <2>2, <2>3, <2>5, Zenon
(* An element of the new list is as one of the old.                          *)
<1> DEFINE old(i) == IF i <= at THEN i ELSE i + 1
<1>9. ASSUME NEW i \in 1 .. N
      PROVE  /\ old(i) \in DOMAIN spans /\ old(i) \in Nat
             /\ spans'[i].put = spans[old(i)].put
             /\ spans'[i].sequence = spans[old(i)].sequence
             /\ i # at => spans'[i] = spans[old(i)]
             /\ i > at => old(i) = i + 1 /\ old(i) > at /\ old(i) > at + 1
             /\ i < at => old(i) = i
  <2>1. CASE i < at
    <3>1. i \in 1 .. at - 1 /\ i \in DOMAIN spans /\ i \in Nat /\ ~(i > at) /\ old(i) = i
      BY <2>1, <1>3
    <3> HIDE DEF old
    <3>2. spans'[i] = spans[i]
      BY <3>1, <1>5
    <3> QED BY <3>1, <3>2, <2>1
  <2>2. CASE i = at
    <3>1. old(i) = at /\ at \in DOMAIN spans /\ at \in Nat /\ ~(i > at) /\ ~(i < at)
      BY <2>2, <1>3
    <3>2. spans'[i] = x
      BY <2>2 DEF x
    <3> HIDE DEF old
    <3> QED BY <3>1, <3>2, <2>2, <1>3, <1>5
  <2>3. CASE i > at
    <3>1. /\ i \in at + 1 .. N /\ i + 1 \in DOMAIN spans /\ i + 1 \in Nat
          /\ old(i) = i + 1 /\ i + 1 > at /\ i + 1 > at + 1 /\ ~(i < at)
      BY <2>3, <1>3
    <3> HIDE DEF old
    <3>2. spans'[i] = spans[i + 1]
      BY <3>1, <1>5
    <3> QED BY <3>1, <3>2, <2>3
  <2>4. i \in Nat /\ at \in Nat
    BY <1>3
  <2> QED BY <2>1, <2>2, <2>3, <2>4
<1>10. \A i, j \in 1 .. N : i < j => old(i) < old(j)
  BY <1>3
<1> HIDE DEF old
<1>11. Typed'
  BY <1>1, <1>2, <1>3, <1>5, <1>6 DEF Typed
<1>12. Untouched'
  <2> SUFFICES ASSUME NEW i \in 1 .. N, i > at
               PROVE  /\ spans'[i].sequence \in DOMAIN input
                      /\ spans'[i] = Begun(input, spans'[i].sequence)
    BY <1>1, <1>6 DEF Untouched
  <2>1. spans'[i] = spans[old(i)] /\ old(i) \in DOMAIN spans /\ old(i) > at
    BY <1>3, <1>9
  <2> QED BY <2>1, <1>2 DEF Untouched
<1>13. Strict(spans)'
  <2> SUFFICES ASSUME NEW i \in 1 .. N, NEW j \in 1 .. N, i < j
               PROVE  Before(spans'[i], spans'[j])
    BY <1>6 DEF Strict
  <2>1. Before(spans[old(i)], spans[old(j)])
    BY <1>2, <1>9, <1>10 DEF Strict
  <2> QED BY <2>1, <1>9 DEF Before
<1>14. Placed'
  <2> SUFFICES ASSUME NEW i \in 1 .. N, NEW j \in DOMAIN spans'[i].data
               PROVE  \/ spans'[i].data[j] = Zero
                      \/ /\ Real(spans'[i].data[j])
                         /\ spans'[i].data[j].put = spans'[i].put + j - 1
    BY <1>1, <1>6 DEF Placed, Real
  <2>1. CASE i # at
    BY <2>1, <1>2, <1>9 DEF Placed
  <2>2. CASE i = at
    <3>1. CASE j \in DOMAIN d /\ x.data[j] = d[j]
      BY <2>2, <3>1, <1>2, <1>3, <1>5 DEF Placed, x, d
    <3>2. CASE x.data[j] = Zero
      BY <2>2, <3>2 DEF x
    <3>3. CASE \E k \in DOMAIN c : j = Len(d) + Gap + k /\ x.data[j] = c[k]
      <4>1. PICK k \in DOMAIN c : j = Len(d) + Gap + k /\ x.data[j] = c[k]
        BY <3>3
      <4>2. c[k] = Zero \/ (Real(c[k]) /\ c[k].put = NSpan.put + k - 1)
        BY <1>2, <1>3 DEF Placed, c
      <4>3. NSpan.put + k - 1 = Span.put + j - 1
        <5> DEFINE p == Span.put
        <5> DEFINE q == NSpan.put
        <5> DEFINE l == Len(d)
        <5>1. k \in Nat /\ l \in Nat /\ Gap = q - (p + l) /\ p \in Nat /\ q \in Nat
          BY <1>4
        <5>2. j = l + (q - (p + l)) + k
          BY <4>1, <5>1
        <5> HIDE DEF p, q, l
        <5>3. q + k - 1 = p + j - 1
          BY <5>1, <5>2
        <5> QED BY <5>3 DEF p, q
      <4> QED BY <2>2, <4>1, <4>2, <4>3, <1>5 DEF x
    <3> QED BY <2>2, <3>1, <3>2, <3>3, <1>8 DEF x
  <2> QED BY <2>1, <2>2
<1>15. Present'
  <2> SUFFICES ASSUME level = None, NEW n \in DOMAIN input, NEW a \in Addresses(input[n])
               PROVE  \E i \in 1 .. N : Stands(i, n, a)'
    BY <1>1, <1>6 DEF Present
  <2>1. PICK i \in DOMAIN spans : Stands(i, n, a)
    BY <1>2 DEF Present
  <2>2. a \in Nat
    <3>1. input[n].put \in Nat /\ input[n].size \in Nat
      BY <1>2, InputType DEF Typed
    <3> QED BY <3>1 DEF Addresses
  <2>3. CASE i < at
    <3>1. i \in 1 .. N /\ spans'[i] = spans[i]
      BY <2>3, <1>3, <1>5
    <3>2. Stands(i, n, a)'
      BY <2>1, <3>1 DEF Stands, End
    <3> QED BY <3>1, <3>2
  <2>4. CASE i = at
    <3> DEFINE j == a - Span.put + 1
    <3>1. Span.put <= a /\ a < End(Span) /\ d[j] = [by |-> n, put |-> a]
      BY <2>1, <2>4, <1>3 DEF Stands, d
    <3>2. j \in 1 .. Len(d)
      BY <3>1, <2>2, <1>4
    <3>3. a < End(x)
      BY <3>1, <2>2, <1>4, <1>7
    <3>4. x.data[j] = d[j]
      <4> HIDE DEF j
      <4> QED BY <3>2, <1>5
    <3>5. x.put <= a /\ a < End(x) /\ x.data[a - x.put + 1] = [by |-> n, put |-> a]
      BY <3>1, <3>3, <3>4, <1>5
    <3>6. Stands(at, n, a)'
      BY <3>5, <1>1 DEF Stands, x, End
    <3> QED BY <3>6, <1>1, <1>6
  <2>5. CASE i = at + 1
    <3> DEFINE k == a - NSpan.put + 1
    <3>1. NSpan.put <= a /\ a < End(NSpan) /\ c[k] = [by |-> n, put |-> a]
      BY <2>1, <2>5, <1>3 DEF Stands, c
    <3>2. k \in 1 .. Len(c) /\ a - Span.put + 1 = Len(d) + Gap + k
      <4>1. /\ Span.put \in Nat /\ NSpan.put \in Nat /\ Len(c) \in Nat /\ Len(d) \in Nat
            /\ End(NSpan) = NSpan.put + Len(c) /\ Gap = NSpan.put - (Span.put + Len(d))
        BY <1>4
      <4>2. k \in 1 .. Len(c)
        BY <3>1, <2>2, <4>1
      <4>3. a - Span.put + 1 = (Len(d) + (NSpan.put - (Span.put + Len(d)))) + k
        BY <2>2, <4>1
      <4> QED BY <4>1, <4>2, <4>3
    <3>3. a < End(x) /\ Span.put <= a
      BY <3>1, <2>2, <1>4, <1>7
    <3>4. x.data[Len(d) + Gap + k] = c[k]
      <4> HIDE DEF k
      <4> QED BY <3>2, <1>5
    <3>5. x.data[a - Span.put + 1] = [by |-> n, put |-> a]
      BY <3>1, <3>2, <3>4
    <3>6. x.put <= a /\ a < End(x) /\ x.data[a - x.put + 1] = [by |-> n, put |-> a]
      BY <3>3, <3>5, <1>5
    <3>7. Stands(at, n, a)'
      BY <3>6, <1>1 DEF Stands, x, End
    <3> QED BY <3>7, <1>1, <1>6
  <2>6. CASE i > at + 1
    <3>1. i - 1 \in at + 1 .. N /\ i - 1 \in 1 .. N /\ (i - 1) + 1 = i
      BY <2>6, <1>3
    <3> DEFINE k == i - 1
    <3>2. k \in 1 .. N /\ spans'[k] = spans[i]
      BY <3>1, <1>5
    <3> HIDE DEF k
    <3>3. Stands(k, n, a)'
      BY <2>1, <3>2 DEF Stands, End
    <3> QED BY <3>2, <3>3
  <2> QED BY <2>3, <2>4, <2>5, <2>6, <1>3
<1>16. Separate'
  <2> SUFFICES ASSUME NEW i \in 1 .. N, i < at
               PROVE  /\ End(spans'[i]) <= spans'[i + 1].put
                      /\ level = None => End(spans'[i]) < spans'[i + 1].put /\ ~pad
    BY <1>1, <1>6 DEF Separate
  <2>1. spans'[i] = spans[i] /\ spans'[i + 1].put = spans[i + 1].put
    <3>1. i + 1 \in 1 .. N /\ i + 1 <= at
      BY <1>3, <1>6
    <3>2. old(i + 1) = i + 1
      BY <3>1 DEF old
    <3> QED BY <3>1, <3>2, <1>5, <1>9
  <2> QED BY <2>1, <1>2, <1>3 DEF Separate
<1>17. ASSUME NEW i \in 1 .. N, i > at
       PROVE  NSpan.put <= spans'[i].put /\ spans'[i].put \in Nat
  <2>1. old(i) \in DOMAIN spans /\ at + 1 < old(i) /\ spans'[i].put = spans[old(i)].put
    BY <1>3, <1>9, <1>17
  <2>2. spans[at + 1].put <= spans[old(i)].put
    BY <2>1, <1>2, <1>3, ToCome
  <2> QED BY <2>1, <2>2, <1>2, <1>3, SpanType DEF Typed
<1>18. ZerosBelow'
  <2> SUFFICES ASSUME NEW j \in DOMAIN x.data, x.data[j] = Zero, NEW i \in 1 .. N, i > at
               PROVE  x.put + j - 1 < spans'[i].put
    BY <1>1, <1>6 DEF ZerosBelow, x
  <2>1. NSpan.put <= spans'[i].put /\ spans'[i].put \in Nat
    BY <1>17
  <2>2. CASE j \in DOMAIN d /\ x.data[j] = d[j]
    <3>1. old(i) \in DOMAIN spans /\ old(i) > at /\ spans'[i].put = spans[old(i)].put
      BY <1>3, <1>9
    <3>2. d[j] = Zero
      BY <2>2
    <3>3. Span.put + j - 1 < spans[old(i)].put
      BY <2>2, <3>1, <3>2, <1>2, <1>3 DEF ZerosBelow, d
    <3> QED BY <3>1, <3>3, <1>5
  <2>3. CASE Span.put + j - 1 < NSpan.put
    <3>1. j \in Nat /\ Span.put \in Nat /\ NSpan.put \in Nat /\ x.put = Span.put
      BY <1>4, <1>5, <1>6
    <3>2. Span.put + j - 1 < spans'[i].put
      BY <3>1, <2>1, <2>3
    <3> QED BY <3>1, <3>2
  <2>4. CASE \E k \in DOMAIN c : x.data[j] = c[k]
    <3>1. \A k \in DOMAIN c : c[k] # Zero
      BY <1>2, <1>3, NextIsReal DEF c
    <3> QED BY <2>4, <3>1
  <2> QED BY <2>2, <2>3, <2>4, <1>8
<1>19. LastReal'
  <2>1. /\ Real(LastOf(NSpan))
        /\ \A k \in DOMAIN spans : at + 1 < k =>
               /\ spans[k].sequence # LastOf(NSpan).by
               /\ input[LastOf(NSpan).by].put <= spans[k].put
    BY <1>2, <1>3, NextIsReal
  <2>2. LastOf(x) = LastOf(NSpan) /\ Len(x.data) > 0
    <3>1. Len(c) \in 1 .. Len(c) /\ Len(x.data) > 0
      BY <1>4, <1>5
    <3> QED BY <3>1, <1>5 DEF LastOf, c
  <2>3. \A i \in 1 .. N : i > at =>
            /\ spans'[i].sequence # LastOf(NSpan).by
            /\ input[LastOf(NSpan).by].put <= spans'[i].put
    BY <2>1, <1>9
  <2> QED BY <2>1, <2>2, <2>3, <1>1, <1>6 DEF LastReal, Real, x
<1>20. Noticed'
  BY <1>1, <1>2 DEF Noticed, Overlap
<1> QED BY <1>11, <1>12, <1>13, <1>14, <1>15, <1>16, <1>18, <1>19, <1>20 DEF Coalesces

LEMMA FinishKeeps == Coalesces /\ Finish => Coalesces'
<1> SUFFICES ASSUME Coalesces, Finish PROVE Coalesces'
  OBVIOUS
<1>1. /\ at >= Len(spans) /\ done' = TRUE
      /\ at' = at /\ spans' = spans /\ level' = level /\ input' = input /\ pad' = pad
  BY DEF Finish
<1> QED BY <1>1 DEF Coalesces, Typed, Untouched, Placed, Real, Present, Stands, Separate,
            ZerosBelow, LastReal, Noticed, Overlap

LEMMA StutterKeeps == Coalesces /\ UNCHANGED vars => Coalesces'
BY DEF vars, Coalesces, Typed, Untouched, Placed, Real, Present, Stands, Separate,
       ZerosBelow, LastReal, Noticed, Overlap

(* The sections' lists hold each span that was begun, once.                  *)
LEMMA GatheredFacts ==
    ASSUME NEW in \in Inputs, NEW list \in Gathered(in)
    PROVE  /\ list \in Seq(Spans) /\ Different(list)
           /\ \A i \in DOMAIN list :
                  list[i].sequence \in DOMAIN in /\ list[i] = Begun(in, list[i].sequence)
           /\ \A n \in DOMAIN in : Begun(in, n) \in Range(list)
<1> DEFINE D == DOMAIN in
<1>1. PICK p \in Bijection(D, D) : list = [i \in D |-> Begun(in, p[i])]
  BY DEF Gathered
<1>2. Len(in) \in Nat /\ D = 1 .. Len(in)
  BY InputType, Length
<1>3. p \in [D -> D] /\ \A w \in D : \E v \in D : p[v] = w
  BY DEF Bijection, Surjection
<1> HIDE DEF D
<1>4. \A i, j \in D : i # j => p[i] # p[j]
  BY <1>3 DEF Bijection, Injection, IsInjective
<1>5. \A n \in D : Begun(in, n) \in Spans /\ Begun(in, n).sequence = n
  BY BegunType DEF D
<1>6. \A i \in D : p[i] \in D /\ list[i] = Begun(in, p[i]) /\ list[i].sequence = p[i]
  BY <1>1, <1>3, <1>5
<1>7. list \in Seq(Spans) /\ DOMAIN list = D
  <2>1. list \in [1 .. Len(in) -> Spans]
    BY <1>1, <1>2, <1>5, <1>6
  <2> QED BY <2>1, <1>2, IsSeq
<1>8. Different(list)
  BY <1>4, <1>6, <1>7 DEF Different
<1>9. \A n \in D : Begun(in, n) \in Range(list)
  <2> SUFFICES ASSUME NEW n \in D PROVE Begun(in, n) \in Range(list)
    OBVIOUS
  <2>1. PICK i \in D : p[i] = n
    BY <1>3
  <2> QED BY <2>1, <1>6, <1>7 DEF Range
<1> QED BY <1>6, <1>7, <1>8, <1>9 DEF D

(* What slist_sort() gives of them.                                          *)
LEMMA SortedFacts ==
    ASSUME NEW in \in Inputs, NEW list \in Gathered(in), NEW s, s = SlistSort(list)
    PROVE  /\ s \in Seq(Spans) /\ Strict(s)
           /\ \A i \in DOMAIN s :
                  s[i].sequence \in DOMAIN in /\ s[i] = Begun(in, s[i].sequence)
           /\ \A n \in DOMAIN in : \E i \in DOMAIN s : s[i] = Begun(in, n)
<1>1. /\ list \in Seq(Spans) /\ Different(list)
      /\ \A i \in DOMAIN list :
             list[i].sequence \in DOMAIN in /\ list[i] = Begun(in, list[i].sequence)
      /\ \A n \in DOMAIN in : Begun(in, n) \in Range(list)
  BY GatheredFacts
<1>2. s \in Seq(Range(list)) /\ Strict(s) /\ Range(s) = Range(list)
  BY <1>1, SortSorts DEF InOrder
<1>3. Range(list) \subseteq Spans
  BY <1>1 DEF Range
<1>4. s \in Seq(Spans)
  BY <1>2, <1>3
<1>5. \A i \in DOMAIN s : s[i] \in Range(list)
  BY <1>2 DEF Range
<1>6. \A i \in DOMAIN s :
          s[i].sequence \in DOMAIN in /\ s[i] = Begun(in, s[i].sequence)
  <2> SUFFICES ASSUME NEW i \in DOMAIN s
               PROVE  s[i].sequence \in DOMAIN in /\ s[i] = Begun(in, s[i].sequence)
    OBVIOUS
  <2>1. PICK k \in DOMAIN list : s[i] = list[k]
    BY <1>5 DEF Range
  <2> QED BY <2>1, <1>1
<1>7. \A n \in DOMAIN in : \E i \in DOMAIN s : s[i] = Begun(in, n)
  <2> SUFFICES ASSUME NEW n \in DOMAIN in PROVE \E i \in DOMAIN s : s[i] = Begun(in, n)
    OBVIOUS
  <2>1. Begun(in, n) \in Range(s)
    BY <1>1, <1>2
  <2> QED BY <2>1 DEF Range
<1> QED BY <1>2, <1>4, <1>6, <1>7

LEMMA InitCoalesces == Init => Coalesces
<1> SUFFICES ASSUME Init PROVE Coalesces
  OBVIOUS
<1>1. /\ input \in Inputs /\ pad \in BOOLEAN /\ at = 1 /\ level = None /\ done = FALSE
      /\ \E list \in Gathered(input) : spans = SlistSort(list)
  BY DEF Init
<1>2. /\ spans \in Seq(Spans) /\ Strict(spans)
      /\ \A i \in DOMAIN spans :
             spans[i].sequence \in DOMAIN input /\ spans[i] = Begun(input, spans[i].sequence)
      /\ \A n \in DOMAIN input : \E i \in DOMAIN spans : spans[i] = Begun(input, n)
  BY <1>1, SortedFacts
<1>3. Len(spans) \in Nat /\ DOMAIN spans = 1 .. Len(spans) /\ (Len(spans) = 0 => spans = <<>>)
  BY <1>2, Length
<1>4. Typed
  <2>1. at \in Nat \ {0} /\ (at <= Len(spans) \/ (at = 1 /\ spans = <<>>))
    BY <1>1, <1>3
  <2>2. spans \in Seq(Spans) /\ level \in {None, Data}
    BY <1>1, <1>2
  <2> QED BY <1>1, <2>1, <2>2 DEF Typed
<1>5. Untouched
  BY <1>2 DEF Untouched
<1>6. ASSUME NEW i \in DOMAIN spans
      PROVE  /\ spans[i].sequence \in DOMAIN input
             /\ \A j \in DOMAIN spans[i].data :
                    /\ Real(spans[i].data[j])
                    /\ spans[i].data[j].put = spans[i].put + j - 1
                    /\ spans[i].data[j] # Zero
             /\ Len(spans[i].data) > 0
             /\ Real(LastOf(spans[i])) /\ LastOf(spans[i]).by = spans[i].sequence
  <2>1. spans[i].sequence \in DOMAIN input /\ spans[i] = Begun(input, spans[i].sequence)
    BY <1>2
  <2> QED BY <2>1, <1>4, BegunReal
<1>7. Placed
  BY <1>6 DEF Placed
<1>8. Present
  <2> SUFFICES ASSUME NEW n \in DOMAIN input, NEW a \in Addresses(input[n])
               PROVE  \E i \in DOMAIN spans : Stands(i, n, a)
    BY DEF Present
  <2>1. PICK i \in DOMAIN spans : spans[i] = Begun(input, n)
    BY <1>2
  <2>2. /\ input[n].put \in Nat /\ input[n].size \in Nat
        /\ spans[i].put = input[n].put /\ Len(spans[i].data) = input[n].size
        /\ \A j \in 1 .. input[n].size :
               spans[i].data[j] = [by |-> n, put |-> input[n].put + j - 1]
    BY <1>1, <2>1, BegunType, InputType
  <2> DEFINE j == a - input[n].put + 1
  <2>3. /\ j \in 1 .. input[n].size /\ input[n].put + j - 1 = a
        /\ input[n].put <= a /\ a < input[n].put + input[n].size
    BY <2>2 DEF Addresses
  <2>4. spans[i].data[j] = [by |-> n, put |-> a]
    <3> HIDE DEF j
    <3> QED BY <2>2, <2>3
  <2> QED BY <2>2, <2>3, <2>4 DEF Stands, End
<1>9. Separate
  <2>1. \A i \in DOMAIN spans : ~(i < at)
    BY <1>1, <1>3
  <2> QED BY <2>1 DEF Separate
<1>10. ZerosBelow
  BY <1>6 DEF ZerosBelow
<1>11. LastReal
  <2> SUFFICES ASSUME at \in DOMAIN spans, NEW k \in DOMAIN spans, k > at
               PROVE  /\ spans[k].sequence # LastOf(spans[at]).by
                      /\ input[LastOf(spans[at]).by].put <= spans[k].put
    BY <1>6 DEF LastReal
  <2>1. LastOf(spans[at]).by = spans[at].sequence
    BY <1>6
  <2>2. /\ spans[at] \in Spans /\ spans[k] \in Spans /\ at < k
        /\ spans[at] = Begun(input, spans[at].sequence) /\ spans[at].sequence \in DOMAIN input
        /\ spans[k] = Begun(input, spans[k].sequence)
    BY <1>1, <1>2, <1>3
  <2>3. Before(spans[at], spans[k])
    BY <1>2, <2>2 DEF Strict
  <2>4. spans[at] # spans[k] /\ spans[at].put <= spans[k].put
    BY <2>2, <2>3 DEF Before, Spans
  <2>5. spans[at].sequence # spans[k].sequence
    BY <2>2, <2>4
  <2>6. input[spans[at].sequence].put = spans[at].put
    BY <1>1, <2>2, BegunType
  <2> QED BY <2>1, <2>4, <2>5, <2>6
<1>12. Noticed
  BY <1>1 DEF Noticed, None, Data
<1> QED BY <1>2, <1>4, <1>5, <1>7, <1>8, <1>9, <1>10, <1>11, <1>12 DEF Coalesces

LEMMA NextKeeps == Coalesces /\ [Next]_vars => Coalesces'
BY TruncateKeeps, JoinKeeps, StepOverKeeps, FinishKeeps, StutterKeeps DEF Next

-----------------------------------------------------------------------------
(* What the invariant says of the list.                                      *)
LEMMA Following ==
    ASSUME Coalesces, NEW i \in DOMAIN spans, NEW k \in DOMAIN spans, i < k
    PROVE  /\ spans[i].put <= spans[k].put
           /\ i < at => End(spans[i]) <= spans[k].put
<1>1. /\ i \in Nat /\ k \in Nat /\ spans[i] \in Spans /\ spans[k] \in Spans
      /\ k <= Len(spans) /\ Len(spans) \in Nat /\ DOMAIN spans = 1 .. Len(spans)
      /\ at \in Nat /\ i # 0
  <2>1. spans \in Seq(Spans) /\ at \in Nat
    BY DEF Coalesces, Typed
  <2> QED BY <2>1, SpanType, Length
<1>2. \A m, n \in DOMAIN spans : m < n => spans[m].put <= spans[n].put
  <2> SUFFICES ASSUME NEW m \in DOMAIN spans, NEW n \in DOMAIN spans, m < n
               PROVE  spans[m].put <= spans[n].put
    OBVIOUS
  <2>1. spans[m].put \in Nat /\ spans[n].put \in Nat
    BY SpanType DEF Coalesces, Typed
  <2>2. Before(spans[m], spans[n])
    BY DEF Coalesces, Strict
  <2> QED BY <2>1, <2>2 DEF Before
<1>3. ASSUME i < at PROVE End(spans[i]) <= spans[k].put
  <2>1. i + 1 \in DOMAIN spans /\ (i + 1 = k \/ i + 1 < k)
    BY <1>1
  <2>2. End(spans[i]) <= spans[i + 1].put
    BY <1>3 DEF Coalesces, Separate
  <2>3. spans[i + 1].put <= spans[k].put
    <3>1. spans[k].put \in Nat
      BY <1>1 DEF Spans
    <3> QED BY <1>2, <2>1, <3>1
  <2>4. End(spans[i]) \in Nat /\ spans[i + 1].put \in Nat /\ spans[k].put \in Nat
    BY <2>1, SpanType DEF Coalesces, Typed
  <2> QED BY <2>2, <2>3, <2>4
<1> QED BY <1>2, <1>3

Within(i, a) == spans[i].put <= a /\ a < End(spans[i])

(* Two spans share no address if the first has been dealt with.              *)
LEMMA Alone ==
    ASSUME Coalesces, NEW i \in DOMAIN spans, NEW k \in DOMAIN spans, i < at,
           NEW a \in Nat, Within(i, a), Within(k, a)
    PROVE  i = k \/ k < i
<1>1. i \in Nat /\ k \in Nat /\ End(spans[i]) \in Nat /\ spans[k].put \in Nat
  BY SpanType DEF Coalesces, Typed
<1>2. ~(i < k)
  <2> SUFFICES ASSUME i < k PROVE FALSE
    OBVIOUS
  <2>1. End(spans[i]) <= spans[k].put
    BY Following
  <2> QED BY <1>1, <2>1 DEF Within
<1> QED BY <1>1, <1>2

(* An address and the byte a span has there.                                 *)
LEMMA ByteAt ==
    ASSUME Coalesces, NEW k \in DOMAIN spans, NEW a \in Nat, Within(k, a)
    PROVE  LET j == a - spans[k].put + 1
               b == spans[k].data[j]
           IN  /\ j \in DOMAIN spans[k].data /\ spans[k].put + j - 1 = a
               /\ b \in [by : Nat, put : Nat]
               /\ b = Zero \/ (Real(b) /\ b.put = a)
<1> DEFINE j == a - spans[k].put + 1
<1>1. /\ spans[k].put \in Nat /\ spans[k].data \in Seq([by : Nat, put : Nat])
      /\ Len(spans[k].data) \in Nat /\ DOMAIN spans[k].data = 1 .. Len(spans[k].data)
      /\ End(spans[k]) = spans[k].put + Len(spans[k].data)
  BY SpanType DEF Coalesces, Typed
<1>2. j \in 1 .. Len(spans[k].data) /\ spans[k].put + j - 1 = a
  <2> DEFINE p == spans[k].put
  <2> DEFINE l == Len(spans[k].data)
  <2>1. p \in Nat /\ l \in Nat /\ p <= a /\ a < p + l
    BY <1>1 DEF Within
  <2> HIDE DEF p, l
  <2>2. a - p + 1 \in 1 .. l /\ p + (a - p + 1) - 1 = a
    BY <2>1
  <2> QED BY <2>2 DEF p, l
<1> HIDE DEF j
<1>3. j \in DOMAIN spans[k].data
  BY <1>1, <1>2
<1>4. spans[k].data[j] \in [by : Nat, put : Nat]
  <2> DEFINE B == [by : Nat, put : Nat]
  <2>1. spans[k].data \in Seq(B)
    BY <1>1
  <2> HIDE DEF B
  <2>2. spans[k].data[j] \in B
    BY <2>1, <1>3, Element
  <2> QED BY <2>2 DEF B
<1>5. spans[k].data[j] = Zero \/ (Real(spans[k].data[j]) /\ spans[k].data[j].put = a)
  BY <1>2, <1>3 DEF Coalesces, Placed
<1> QED BY <1>2, <1>3, <1>4, <1>5 DEF j

LEMMA AddressType ==
    ASSUME Typed, NEW n \in DOMAIN input, NEW a \in Addresses(input[n])
    PROVE  a \in Nat /\ n \in Nat \ {0}
<1>1. n \in Nat \ {0} /\ input[n].put \in Nat /\ input[n].size \in Nat
  BY InputType DEF Typed
<1> QED BY <1>1 DEF Addresses

(* Where a byte of an input stands no span has a zero.                       *)
LEMMA NoZero ==
    ASSUME Coalesces, NEW i \in DOMAIN spans, NEW k \in DOMAIN spans,
           NEW n \in DOMAIN input, NEW a \in Addresses(input[n]),
           Stands(i, n, a), Within(k, a)
    PROVE  spans[k].data[a - spans[k].put + 1] # Zero
<1> DEFINE j == a - spans[k].put + 1
<1>1. a \in Nat /\ n \in Nat \ {0}
  BY AddressType DEF Coalesces
<1>2. Within(i, a)
  BY DEF Stands, Within
<1>3. i \in Nat /\ k \in Nat /\ at \in Nat /\ spans[i].put \in Nat
  BY SpanType DEF Coalesces, Typed
<1>4. j \in DOMAIN spans[k].data /\ spans[k].put + j - 1 = a
  BY <1>1, ByteAt
<1>5. CASE i = k
  <2>1. [by |-> n, put |-> a] # Zero
    BY <1>1 DEF Zero
  <2> QED BY <1>5, <2>1 DEF Stands
<1>6. CASE i < k
  <2>1. ~(i < at)
    BY <1>1, <1>2, <1>3, <1>6, Alone
  <2>2. k > at
    BY <1>3, <1>6, <2>1
  <2> HIDE DEF j
  <2>3. spans[k].data[j] # Zero
    BY <1>4, <2>2, NextIsReal DEF Coalesces
  <2> QED BY <2>3 DEF j
<1>7. CASE k < i
  <2>1. ~(k < at)
    BY <1>1, <1>2, <1>3, <1>7, Alone
  <2>2. CASE k > at
    <3> HIDE DEF j
    <3>1. spans[k].data[j] # Zero
      BY <1>4, <2>2, NextIsReal DEF Coalesces
    <3> QED BY <3>1 DEF j
  <2>3. CASE k = at
    <3> HIDE DEF j
    <3> SUFFICES ASSUME spans[k].data[j] = Zero PROVE FALSE
      BY DEF j
    <3>1. spans[k].put + j - 1 < spans[i].put
      BY <1>4, <1>7, <2>3 DEF Coalesces, ZerosBelow
    <3>2. spans[i].put <= a /\ ~(a < spans[i].put)
      BY <1>1, <1>2, <1>3 DEF Within
    <3> QED BY <3>1, <3>2, <1>4
  <2> QED BY <2>1, <2>2, <2>3, <1>3
<1> QED BY <1>3, <1>5, <1>6, <1>7

(* Of the list: every byte of an input is there, and is alone there.         *)
LEMMA Keeps == Coalesces => BytesKept
<1> SUFFICES ASSUME Coalesces PROVE BytesKept
  OBVIOUS
<1>1. \A i \in DOMAIN spans : \A j \in DOMAIN spans[i].data :
          LET b == spans[i].data[j] IN b = Zero \/ b.put = spans[i].put + j - 1
  BY DEF Coalesces, Placed
<1>2. ASSUME level = None, NEW n \in DOMAIN input, NEW a \in Addresses(input[n]),
             \A m \in DOMAIN input \ {n} : ~Covers(input[m], a)
      PROVE  Held(a) = {[by |-> n, put |-> a]}
  <2>1. a \in Nat
    BY AddressType DEF Coalesces
  <2>2. PICK i \in DOMAIN spans : Stands(i, n, a)
    BY <1>2 DEF Coalesces, Present
  <2>3. [by |-> n, put |-> a] \in Held(a)
    BY <2>2 DEF Held, Stands
  <2>4. ASSUME NEW k \in DOMAIN spans, Within(k, a)
        PROVE  spans[k].data[a - spans[k].put + 1] = [by |-> n, put |-> a]
    <3> DEFINE b == spans[k].data[a - spans[k].put + 1]
    <3>1. b # Zero
      BY <2>2, <2>4, NoZero
    <3>2. b \in [by : Nat, put : Nat] /\ (b = Zero \/ (Real(b) /\ b.put = a))
      BY <2>1, <2>4, ByteAt
    <3> HIDE DEF b
    <3>3. b.by \in DOMAIN input /\ Covers(input[b.by], a)
      BY <3>1, <3>2 DEF Real, Covers
    <3>4. b.by = n /\ b.put = a
      BY <1>2, <3>1, <3>2, <3>3
    <3>5. b = [by |-> n, put |-> a]
      BY <3>2, <3>4
    <3> QED BY <3>5 DEF b
  <2>5. \A b \in Held(a) : b = [by |-> n, put |-> a]
    BY <2>4 DEF Held, Within
  <2> QED BY <2>3, <2>5
<1> QED BY <1>1, <1>2 DEF BytesKept

(* Of what is reported: two inputs' bytes cannot both be where they belong.  *)
LEMMA Reports == Coalesces => OverlapReported
<1> SUFFICES ASSUME Coalesces, done PROVE level = Data <=> Overlap
  BY DEF OverlapReported
<1>1. level \in {None, Data} /\ (level = Data => Overlap)
  BY DEF Coalesces, Typed, Noticed
<1>2. ASSUME level = None, Overlap PROVE FALSE
  <2>1. PICK m, n \in DOMAIN input : m # n /\ \E a \in Addresses(input[m]) : Covers(input[n], a)
    BY <1>2 DEF Overlap
  <2>2. PICK a \in Addresses(input[m]) : a \in Addresses(input[n])
    BY <2>1 DEF Covers
  <2>3. a \in Nat
    BY <2>2, AddressType DEF Coalesces
  <2>4. PICK i \in DOMAIN spans : Stands(i, m, a)
    BY <1>2, <2>2 DEF Coalesces, Present
  <2>5. PICK k \in DOMAIN spans : Stands(k, n, a)
    BY <1>2, <2>2 DEF Coalesces, Present
  <2>6. i # k
    BY <2>1, <2>4, <2>5 DEF Stands
  <2>7. Within(i, a) /\ Within(k, a)
    BY <2>4, <2>5 DEF Stands, Within
  <2>8. /\ i \in Nat /\ k \in Nat /\ i <= Len(spans) /\ k <= Len(spans)
        /\ Len(spans) \in Nat /\ at \in Nat /\ at >= Len(spans)
    BY SpanType DEF Coalesces, Typed
  <2>9. CASE i < k
    <3>1. i < at
      BY <2>8, <2>9
    <3> QED BY <2>3, <2>7, <2>8, <2>9, <3>1, Alone
  <2>10. CASE k < i
    <3>1. k < at
      BY <2>8, <2>10
    <3> QED BY <2>3, <2>7, <2>8, <2>10, <3>1, Alone
  <2> QED BY <2>6, <2>8, <2>9, <2>10
<1> QED BY <1>1, <1>2 DEF None, Data

(* Of what is written.                                                       *)
LEMMA Merges == Coalesces => OutputMerged
<1> SUFFICES ASSUME Coalesces, done PROVE
        /\ \A i \in 1 .. Len(spans) - 1 : End(spans[i]) <= spans[i + 1].put
        /\ ~Overlap =>
               /\ \A i \in 1 .. Len(spans) - 1 : End(spans[i]) < spans[i + 1].put
               /\ pad => Len(spans) <= 1
  BY DEF OutputMerged
<1>1. Len(spans) \in Nat /\ DOMAIN spans = 1 .. Len(spans) /\ at \in Nat /\ at >= Len(spans)
  BY Length DEF Coalesces, Typed
<1>2. \A i \in 1 .. Len(spans) - 1 : i \in DOMAIN spans /\ i < at
  BY <1>1
<1>3. ~Overlap => level = None
  BY DEF Coalesces, Noticed, Typed
<1>4. \A i \in 1 .. Len(spans) - 1 :
          /\ End(spans[i]) <= spans[i + 1].put
          /\ level = None => End(spans[i]) < spans[i + 1].put /\ ~pad
  BY <1>2 DEF Coalesces, Separate
<1>5. level = None /\ pad => Len(spans) <= 1
  <2> SUFFICES ASSUME level = None, Len(spans) > 1 PROVE ~pad
    BY <1>1
  <2>1. 1 \in 1 .. Len(spans) - 1
    BY <1>1
  <2> QED BY <2>1, <1>4
<1> QED BY <1>3, <1>4, <1>5

-----------------------------------------------------------------------------
(* Sums of bytes.                                                            *)
LEMMA Division ==
    ASSUME NEW b \in Nat \ {0}, NEW x \in Int
    PROVE  /\ x = b * (x \div b) + (x % b)
           /\ x \div b \in Int /\ x % b \in 0 .. b - 1
           /\ x \in Nat => x \div b \in Nat
OBVIOUS

LEMMA Remainder ==
    ASSUME NEW b \in Nat \ {0}, NEW q \in Int, NEW r \in 0 .. b - 1
    PROVE  (b * q + r) % b = r
OBVIOUS

LEMMA Multiples ==
    ASSUME NEW b \in Nat \ {0}, NEW x \in Int, NEW q \in Int
    PROVE  (x + b * q) % b = x % b
<1> DEFINE p == x \div b
<1> DEFINE r == x % b
<1>1. x = b * p + r /\ p \in Int /\ r \in 0 .. b - 1
  BY Division
<1> HIDE DEF p, r
<1>2. x + b * q = b * (p + q) + r
  <2>1. b * (p + q) = b * p + b * q
    BY <1>1
  <2>2. b * p \in Int /\ b * q \in Int /\ r \in Int
    BY <1>1
  <2> QED BY <1>1, <2>1, <2>2
<1>3. p + q \in Int
  BY <1>1
<1>4. (b * (p + q) + r) % b = r
  BY <1>1, <1>3, Remainder
<1> QED BY <1>2, <1>4 DEF r

LEMMA Page ==
    ASSUME NEW b \in Nat \ {0}, NEW a \in 0 .. b * b - 1
    PROVE  a \div b \in 0 .. b - 1 /\ (a \div b) % b = a \div b
<1> DEFINE q == a \div b
<1>1. b * b \in Nat /\ a \in Nat
  OBVIOUS
<1>2. q \in Nat /\ a = b * q + (a % b) /\ a % b \in Nat
  BY <1>1, Division
<1> HIDE DEF q
<1>3. b * q < b * b
  <2>1. b * q \in Int
    BY <1>2
  <2> QED BY <1>1, <1>2, <2>1
<1>4. q < b
  BY <1>2, <1>3
<1>5. q \in 0 .. b - 1
  BY <1>2, <1>4
<1>6. q % b = q
  BY <1>5
<1> QED BY <1>5, <1>6 DEF q

LEMMA AddsToGreatest ==
    ASSUME NEW b \in Nat \ {0}, NEW x \in Nat
    PROVE  b - 1 - (x % b) \in 0 .. b - 1 /\ (x + (b - 1 - (x % b))) % b = b - 1
<1> DEFINE q == x \div b
<1> DEFINE r == x % b
<1>1. x = b * q + r /\ q \in Int /\ r \in 0 .. b - 1
  BY Division
<1>2. b - 1 \in 0 .. b - 1
  OBVIOUS
<1> HIDE DEF q, r
<1>3. (b * q + (b - 1)) % b = b - 1
  BY <1>1, <1>2, Remainder
<1>4. x + (b - 1 - r) = b * q + (b - 1)
  <2> DEFINE m == b * q
  <2>1. m \in Int /\ x = m + r
    BY <1>1
  <2> HIDE DEF m
  <2>2. x + (b - 1 - r) = m + (b - 1)
    BY <2>1, <1>1
  <2> QED BY <2>2 DEF m
<1>5. b - 1 - r \in 0 .. b - 1
  BY <1>1
<1> QED BY <1>3, <1>4, <1>5 DEF r

LEMMA AddsToZero ==
    ASSUME NEW b \in Nat \ {0}, NEW x \in Nat
    PROVE  (b - (x % b)) % b \in 0 .. b - 1 /\ (x + ((b - (x % b)) % b)) % b = 0
<1> DEFINE q == x \div b
<1> DEFINE r == x % b
<1> DEFINE s == (b - r) % b
<1>1. x = b * q + r /\ q \in Int /\ r \in 0 .. b - 1
  BY Division
<1>2. 0 \in 0 .. b - 1
  OBVIOUS
<1> HIDE DEF q, r
<1>3. s = IF r = 0 THEN 0 ELSE b - r
  <2>1. CASE r = 0
    <3>1. (b * 1 + 0) % b = 0 /\ b - r = b * 1 + 0
      BY <1>2, <2>1, Remainder
    <3> QED BY <2>1, <3>1
  <2>2. CASE r # 0
    <3>1. b - r \in 0 .. b - 1
      BY <1>1, <2>2
    <3>2. (b - r) % b = b - r
      BY <3>1
    <3> QED BY <2>2, <3>2
  <2> QED BY <2>1, <2>2
<1> HIDE DEF s
<1>4. s \in 0 .. b - 1
  BY <1>1, <1>2, <1>3
<1>5. x + s = b * (IF r = 0 THEN q ELSE q + 1) + 0
  <2> DEFINE m == b * q
  <2>1. m \in Int /\ x = m + r
    BY <1>1
  <2>2. b * (q + 1) = m + b
    BY <1>1
  <2> HIDE DEF m
  <2>3. x + s = IF r = 0 THEN m ELSE m + b
    BY <1>1, <1>3, <2>1
  <2> QED BY <2>1, <2>2, <2>3 DEF m
<1>6. (IF r = 0 THEN q ELSE q + 1) \in Int
  BY <1>1
<1>7. (b * (IF r = 0 THEN q ELSE q + 1) + 0) % b = 0
  BY <1>2, <1>6, Remainder
<1> QED BY <1>4, <1>5, <1>7 DEF s, r

LEMMA SumsExist ==
    ASSUME NEW data, NEW n \in Nat
    PROVE  \E f : f = [i \in 0 .. n |-> IF i = 0 THEN 0 ELSE f[i - 1] + Byte(data[i])]
<1> DEFINE Runs(k) == \E f : f = [i \in 0 .. k |-> IF i = 0 THEN 0 ELSE f[i - 1] + Byte(data[i])]
<1> DEFINE Bad == {k \in Nat : ~Runs(k)}
<1>1. Runs(0)
  <2> DEFINE f == [i \in 0 .. 0 |-> 0]
  <2>1. f = [i \in 0 .. 0 |-> IF i = 0 THEN 0 ELSE f[i - 1] + Byte(data[i])]
    OBVIOUS
  <2> QED BY <2>1
<1>2. ASSUME NEW k \in Nat, Runs(k)
      PROVE  Runs(k + 1)
  <2>1. PICK f : f = [i \in 0 .. k |-> IF i = 0 THEN 0 ELSE f[i - 1] + Byte(data[i])]
    BY <1>2
  <2> DEFINE g == [i \in 0 .. k + 1 |-> IF i <= k THEN f[i] ELSE f[k] + Byte(data[k + 1])]
  <2>2. ASSUME NEW i \in 0 .. k + 1
        PROVE  g[i] = IF i = 0 THEN 0 ELSE g[i - 1] + Byte(data[i])
    <3>1. CASE i <= k
      <4>1. g[i] = f[i] /\ f[i] = IF i = 0 THEN 0 ELSE f[i - 1] + Byte(data[i])
        BY <2>1, <3>1
      <4>2. i # 0 => g[i - 1] = f[i - 1]
        BY <3>1
      <4> QED BY <4>1, <4>2
    <3>2. CASE i = k + 1
      BY <3>2
    <3> QED BY <3>1, <3>2
  <2>3. g = [i \in 0 .. k + 1 |-> IF i = 0 THEN 0 ELSE g[i - 1] + Byte(data[i])]
    BY <2>2
  <2> QED BY <2>3
<1>3. Bad = {}
  <2>1. SUFFICES ASSUME Bad # {} PROVE FALSE
    OBVIOUS
  <2>2. PICK k \in Bad : \A j \in Bad : k <= j
    BY <2>1, Least
  <2>3. k # 0 /\ k - 1 \in Nat
    <3> HIDE DEF Runs
    <3> QED BY <1>1, <2>2
  <2>4. Runs(k - 1)
    <3> HIDE DEF Runs
    <3> QED BY <2>2, <2>3
  <2>5. Runs(k - 1 + 1)
    BY <1>2, <2>3, <2>4
  <2> QED BY <2>2, <2>5
<1> QED BY <1>3

(* The sum of bytes is a number.                                             *)
LEMMA SumType ==
    ASSUME NEW data, Len(data) \in Nat, \A j \in 1 .. Len(data) : Byte(data[j]) \in Nat
    PROVE  SumOf(data) \in Nat
<1> DEFINE sum[i \in 0 .. Len(data)] == IF i = 0 THEN 0 ELSE sum[i - 1] + Byte(data[i])
<1> DEFINE Bad == {k \in 0 .. Len(data) : sum[k] \notin Nat}
<1>1. SumOf(data) = sum[Len(data)]
  BY DEF SumOf
<1>2. \E f : f = [i \in 0 .. Len(data) |-> IF i = 0 THEN 0 ELSE f[i - 1] + Byte(data[i])]
  BY SumsExist
<1>3. sum = [i \in 0 .. Len(data) |-> IF i = 0 THEN 0 ELSE sum[i - 1] + Byte(data[i])]
  BY <1>2
<1> HIDE DEF sum
<1>4. \A i \in 0 .. Len(data) : sum[i] = IF i = 0 THEN 0 ELSE sum[i - 1] + Byte(data[i])
  BY <1>3
<1>5. Bad = {}
  <2>1. SUFFICES ASSUME Bad # {} PROVE FALSE
    OBVIOUS
  <2>2. Bad \subseteq Nat
    OBVIOUS
  <2>3. PICK k \in Bad : \A j \in Bad : k <= j
    BY <2>1, <2>2, Least
  <2>4. k \in 0 .. Len(data) /\ sum[k] \notin Nat /\ k # 0
    BY <1>4, <2>3
  <2>5. k - 1 \in 0 .. Len(data) /\ ~(k <= k - 1) /\ k \in 1 .. Len(data)
    BY <2>4
  <2>6. sum[k - 1] \in Nat
    BY <2>3, <2>5
  <2>7. sum[k] = sum[k - 1] + Byte(data[k]) /\ Byte(data[k]) \in Nat
    BY <1>4, <2>4, <2>5
  <2> QED BY <2>4, <2>6, <2>7
<1>6. Len(data) \in 0 .. Len(data)
  OBVIOUS
<1> QED BY <1>1, <1>5, <1>6

-----------------------------------------------------------------------------
(* The invariant of output.c: what is open or coalesced, how far it has got, *)
(* and that what it has passed has been written.                             *)
Recs == [kind : {"data", "end"}, size : Nat, addr : Int, data : Seq([by : Nat, put : Nat]),
         sum : Int]

OutTyped ==
    /\ format \in Formats
    /\ pad = (format \in Padded)
    /\ exec \in Int
    /\ format \in Chunked => exec \in -1 .. ByteRange * ByteRange - 1
    /\ records \in Seq(Recs)
    /\ stage \in {"unopened", "opened", "coalesced", "closed"}
    /\ out \in Nat \ {0}
    /\ base \in Nat

Staged ==
    /\ stage \in {"unopened", "opened"} => records = <<>> /\ out = 1 /\ base = 0
    /\ stage = "coalesced" => done
    /\ stage = "coalesced" /\ format \in Padded => records = <<>>
    /\ stage = "closed" /\ records # <<>> => done /\ (format \in Padded \/ out > Len(spans))
    /\ format \in Chunked /\ out \in DOMAIN spans => base <= Len(spans[out].data)

InPlace(rec) ==
    \A j \in DOMAIN rec.data : rec.data[j] = Zero \/ rec.data[j].put = rec.addr + j - 1

Moved == \A i \in DOMAIN records : InPlace(records[i])

(* A loader gets the first n bytes of span i.                                *)
Stored(i, n) ==
    \A j \in 1 .. n : \E r \in DOMAIN records :
        Loads(records[r], spans[i].put + j - 1, spans[i].data[j])

Progress ==
    /\ format \notin Padded /\ (format \in Chunked \/ ~FillsMemory) =>
           \A i \in DOMAIN spans : i < out => Stored(i, Len(spans[i].data))
    /\ format \in Chunked /\ out \in DOMAIN spans => Stored(out, base)
    /\ format \in Padded /\ stage = "closed" /\ records # <<>> /\ ~FillsMemory /\ spans # <<>> =>
           Stored(1, Len(spans[1].data))

Outputs == Coalesces /\ OutTyped /\ Staged /\ Moved /\ Progress /\ RecordsValid

(* The spans that were begun end within the memory.                          *)
InMemory ==
    \A in \in Inputs : \A n \in DOMAIN in : in[n].put + in[n].size <= ByteRange * ByteRange

LEMMA Memory ==
    /\ ByteRange \in Nat \ {0} /\ ByteRange > 4
    /\ ByteRange * ByteRange \in Nat \ {0}
    /\ Chunk \in Nat \ {0} /\ Chunk < ByteRange - 3
<1>1. ByteRange \in Nat /\ Chunk \in 1 .. ByteRange - 4
  BY OutputConstants
<1>2. ByteRange > 4 /\ Chunk \in Nat \ {0} /\ Chunk < ByteRange - 3
  BY <1>1
<1>3. ByteRange * ByteRange \in Nat \ {0}
  BY <1>1, <1>2
<1> QED BY <1>1, <1>2, <1>3

(* So do those that are left when they have been joined.                     *)
LEMMA Fits ==
    ASSUME Coalesces, InMemory, NEW i \in DOMAIN spans
    PROVE  End(spans[i]) <= ByteRange * ByteRange
<1>1. /\ i \in Nat \ {0} /\ i <= Len(spans) /\ Len(spans) \in Nat /\ at \in Nat
      /\ at <= Len(spans) \/ (at = 1 /\ spans = <<>>)
  BY SpanType DEF Coalesces, Typed
<1>2. at \in DOMAIN spans
  <2>1. spans # <<>>
    OBVIOUS
  <2> QED BY <1>1, <2>1 DEF Coalesces, Typed
<1>3. ASSUME NEW k \in DOMAIN spans, Len(spans[k].data) > 0, Real(LastOf(spans[k]))
      PROVE  End(spans[k]) <= ByteRange * ByteRange
  <2> DEFINE b == LastOf(spans[k])
  <2>1. /\ spans[k].put \in Nat /\ Len(spans[k].data) \in Nat
        /\ DOMAIN spans[k].data = 1 .. Len(spans[k].data)
        /\ End(spans[k]) = spans[k].put + Len(spans[k].data)
    BY SpanType DEF Coalesces, Typed
  <2>2. Len(spans[k].data) \in DOMAIN spans[k].data
    BY <1>3, <2>1
  <2>3. b # Zero /\ b.put = spans[k].put + Len(spans[k].data) - 1
    BY <1>3, <2>2 DEF Coalesces, Placed, LastOf, Real
  <2>4. b.by \in DOMAIN input /\ b.put \in Addresses(input[b.by])
    BY <1>3 DEF Real
  <2>5. /\ input[b.by].put \in Nat /\ input[b.by].size \in Nat
        /\ input[b.by].put + input[b.by].size <= ByteRange * ByteRange
    BY <2>4, InputType DEF Coalesces, Typed, InMemory
  <2>6. b.put < ByteRange * ByteRange
    BY <2>4, <2>5, Memory DEF Addresses
  <2> HIDE DEF b
  <2> QED BY <2>1, <2>3, <2>6, Memory
<1>4. ASSUME NEW k \in DOMAIN spans, at <= k
      PROVE  End(spans[k]) <= ByteRange * ByteRange
  <2>1. Len(spans[k].data) > 0 /\ Real(LastOf(spans[k]))
    <3>1. k \in Nat /\ (k = at \/ at < k)
      BY <1>1, <1>4
    <3>2. CASE k = at
      BY <1>2, <3>2 DEF Coalesces, LastReal
    <3>3. CASE at < k
      BY <3>3, NextIsReal DEF Coalesces
    <3> QED BY <3>1, <3>2, <3>3
  <2> QED BY <1>3, <2>1
<1>5. CASE i < at
  <2>1. End(spans[i]) <= spans[at].put
    BY <1>2, <1>5, Following
  <2>2. End(spans[at]) <= ByteRange * ByteRange
    BY <1>1, <1>2, <1>4
  <2>3. /\ End(spans[i]) \in Nat /\ spans[at].put \in Nat /\ Len(spans[at].data) \in Nat
        /\ End(spans[at]) = spans[at].put + Len(spans[at].data)
    BY <1>2, SpanType DEF Coalesces, Typed
  <2> QED BY <2>1, <2>2, <2>3, Memory
<1> QED BY <1>1, <1>4, <1>5

LEMMA Appended ==
    ASSUME NEW S, NEW s \in Seq(S), NEW x \in S
    PROVE  /\ Append(s, x) \in Seq(S) /\ Append(s, x) # <<>>
           /\ Len(s) + 1 \in DOMAIN Append(s, x) /\ Append(s, x)[Len(s) + 1] = x
           /\ \A i \in DOMAIN s : i \in DOMAIN Append(s, x) /\ Append(s, x)[i] = s[i]
           /\ \A i \in DOMAIN Append(s, x) : i \in DOMAIN s \/ i = Len(s) + 1
OBVIOUS

(* A record that is written.                                                 *)
LEMMA Writes ==
    ASSUME Outputs, NEW rec \in Recs, Write(rec)
    PROVE  /\ records' \in Seq(Recs) /\ records' # <<>>
           /\ spans' = spans /\ UNCHANGED <<vars, format>> /\ Coalesces'
           /\ \A i \in DOMAIN records' : records'[i] = rec \/
                  \E k \in DOMAIN records : records'[i] = records[k]
           /\ InPlace(rec) => Moved'
           /\ \A a, b : Loads(rec, a, b) => \E r \in DOMAIN records' : Loads(records'[r], a, b)
           /\ \A i, n : Stored(i, n) => Stored(i, n)'
           /\ \A i, n : (\A j \in 1 .. n : Loads(rec, spans[i].put + j - 1, spans[i].data[j]))
                            => Stored(i, n)'
           /\ \A i, n : Stored(i, n) => \A j \in 1 .. n : \E r \in DOMAIN records' :
                  Loads(records'[r], spans[i].put + j - 1, spans[i].data[j])
<1>1. /\ records' = Append(records, rec) /\ UNCHANGED <<vars, format>>
      /\ records \in Seq(Recs)
  BY DEF Write, Outputs, OutTyped
<1>2. /\ records' \in Seq(Recs) /\ records' # <<>>
      /\ Len(records) + 1 \in DOMAIN records' /\ records'[Len(records) + 1] = rec
      /\ \A i \in DOMAIN records : i \in DOMAIN records' /\ records'[i] = records[i]
      /\ \A i \in DOMAIN records' : i \in DOMAIN records \/ i = Len(records) + 1
  <2> HIDE DEF Recs
  <2> QED BY <1>1, Appended
<1>3. \A i \in DOMAIN records' :
          records'[i] = rec \/ \E k \in DOMAIN records : records'[i] = records[k]
  BY <1>2
<1>4. InPlace(rec) => Moved'
  BY <1>3 DEF Outputs, Moved, InPlace
<1>5. \A a, b : Loads(rec, a, b) => \E r \in DOMAIN records' : Loads(records'[r], a, b)
  BY <1>2
<1>6. spans' = spans
  BY <1>1 DEF vars
<1>7. \A i, n : Stored(i, n) => Stored(i, n)'
  BY <1>2, <1>6 DEF Stored, Loads
<1>8. Coalesces'
  BY <1>1, StutterKeeps DEF Outputs
<1>9. ASSUME NEW i, NEW n,
             \A j \in 1 .. n : Loads(rec, spans[i].put + j - 1, spans[i].data[j])
      PROVE  Stored(i, n)'
  <2> SUFFICES ASSUME NEW j \in 1 .. n
               PROVE  \E r \in DOMAIN records' :
                          Loads(records'[r], spans'[i].put + j - 1, spans'[i].data[j])
    BY DEF Stored, Loads
  <2>1. Loads(rec, spans[i].put + j - 1, spans[i].data[j])
    BY <1>9
  <2>2. \E r \in DOMAIN records' : Loads(records'[r], spans[i].put + j - 1, spans[i].data[j])
    BY <1>5, <2>1
  <2> QED BY <1>6, <2>2
<1>10. ASSUME NEW i, NEW n, Stored(i, n), NEW j \in 1 .. n
       PROVE  \E r \in DOMAIN records' :
                  Loads(records'[r], spans[i].put + j - 1, spans[i].data[j])
  <2>1. PICK r \in DOMAIN records : Loads(records[r], spans[i].put + j - 1, spans[i].data[j])
    BY <1>10 DEF Stored
  <2> QED BY <1>2, <2>1
<1> QED BY <1>1, <1>2, <1>3, <1>4, <1>5, <1>6, <1>7, <1>8, <1>9, <1>10

LEMMA Words ==
    ASSUME NEW x \in Int
    PROVE  /\ Word(x) \in 0 .. ByteRange * ByteRange - 1 /\ Word(x) \in Nat
           /\ x >= 0 /\ x < ByteRange * ByteRange => Word(x) = x
<1> DEFINE m == ByteRange * ByteRange
<1>1. m \in Nat \ {0}
  BY Memory
<1>2. Word(x) = x % m
  BY DEF Word
<1> HIDE DEF m
<1>3. x % m \in 0 .. m - 1
  BY <1>1, Division
<1>4. x >= 0 /\ x < m => x % m = x
  BY <1>1
<1>5. x % m \in Nat
  BY <1>1, <1>3
<1> QED BY <1>2, <1>3, <1>4, <1>5 DEF m

(* A whole span as a block.                                                  *)
LEMMA BlockFacts ==
    ASSUME Coalesces, InMemory, NEW i \in DOMAIN spans
    PROVE  /\ Written(spans[i]) \in Recs /\ InPlace(Written(spans[i]))
           /\ ~FillsMemory => \A j \in 1 .. Len(spans[i].data) :
                  Loads(Written(spans[i]), spans[i].put + j - 1, spans[i].data[j])
<1> DEFINE s == spans[i]
<1> DEFINE b == Written(s)
<1> DEFINE B == [by : Nat, put : Nat]
<1>1. /\ s.put \in Nat /\ s.data \in Seq(B) /\ Len(s.data) \in Nat
      /\ DOMAIN s.data = 1 .. Len(s.data) /\ End(s) = s.put + Len(s.data)
  BY SpanType DEF Coalesces, Typed
<1>2. s.put + Len(s.data) <= ByteRange * ByteRange
  BY <1>1, Fits
<1>3. /\ b.kind = "data" /\ b.size = Word(Len(s.data)) /\ b.addr = Word(s.put)
      /\ b.data = s.data /\ b.sum = 0
      /\ b = [kind |-> b.kind, size |-> b.size, addr |-> b.addr, data |-> b.data, sum |-> b.sum]
  BY DEF Written
<1>4. b.size \in Nat /\ b.addr \in Nat
  <2>1. Word(Len(s.data)) \in Nat /\ Word(s.put) \in Nat
    BY <1>1, Words
  <2> QED BY <1>3, <2>1
<1> HIDE DEF b, s, B
<1>5. b \in Recs
  BY <1>1, <1>3, <1>4 DEF Recs, B
<1>6. ASSUME Len(s.data) > 0 PROVE b.addr = s.put
  <2>1. s.put >= 0 /\ s.put < ByteRange * ByteRange
    <3> DEFINE m == ByteRange * ByteRange
    <3>1. m \in Nat /\ s.put + Len(s.data) <= m
      BY <1>2, Memory
    <3> HIDE DEF m
    <3>2. s.put >= 0 /\ s.put < m
      BY <1>1, <1>6, <3>1
    <3> QED BY <3>2 DEF m
  <2> QED BY <1>1, <1>3, <2>1, Words
<1>7. InPlace(b)
  <2> SUFFICES ASSUME NEW j \in DOMAIN s.data
               PROVE  s.data[j] = Zero \/ s.data[j].put = b.addr + j - 1
    BY <1>3 DEF InPlace
  <2>1. b.addr = s.put
    BY <1>1, <1>6
  <2> QED BY <2>1 DEF Coalesces, Placed, s
<1>8. ASSUME ~FillsMemory, NEW j \in 1 .. Len(s.data)
      PROVE  Loads(b, s.put + j - 1, s.data[j])
  <2>1. Len(s.data) < ByteRange * ByteRange
    <3> DEFINE m == ByteRange * ByteRange
    <3>1. m \in Nat /\ ~(Len(s.data) >= m)
      BY <1>8, Memory DEF FillsMemory, s
    <3> HIDE DEF m
    <3>2. Len(s.data) < m
      BY <1>1, <3>1
    <3> QED BY <3>2 DEF m
  <2>2. b.size = Len(s.data)
    BY <1>1, <1>3, <2>1, Words
  <2>3. b.addr = s.put
    BY <1>1, <1>6
  <2>4. (s.put + j - 1) - b.addr + 1 = j /\ j \in 1 .. b.size
    BY <1>1, <2>2, <2>3
  <2> QED BY <1>3, <2>4 DEF Loads
<1> QED BY <1>5, <1>7, <1>8 DEF b, s

(* The next bytes of a span as a record.                                     *)
LEMMA Least2 ==
    ASSUME NEW m \in Nat, NEW n \in Nat
    PROVE  Min({m, n}) = IF m <= n THEN m ELSE n
<1> DEFINE k == IF m <= n THEN m ELSE n
<1>1. k \in {m, n} /\ \A y \in {m, n} : k <= y
  OBVIOUS
<1>2. \A x \in {m, n} : (\A y \in {m, n} : x <= y) => x = k
  OBVIOUS
<1> HIDE DEF k
<1>3. (CHOOSE x \in {m, n} : \A y \in {m, n} : x <= y) = k
  BY <1>1, <1>2
<1> QED BY <1>3 DEF Min, k

LEMMA Part ==
    ASSUME NEW S, NEW s \in Seq(S), NEW b \in Nat, NEW n \in Nat, b + n <= Len(s)
    PROVE  /\ SubSeq(s, b + 1, b + n) \in Seq(S) /\ Len(SubSeq(s, b + 1, b + n)) = n
           /\ \A j \in 1 .. n : SubSeq(s, b + 1, b + n)[j] = s[b + j] /\ b + j \in DOMAIN s
OBVIOUS

LEMMA ChunkFacts ==
    ASSUME Coalesces, InMemory, NEW i \in DOMAIN spans, base \in Nat,
           base < Len(spans[i].data)
    PROVE  LET c == ChunkOf(spans[i])
           IN  /\ c.size \in Nat \ {0} /\ c.size <= Chunk /\ base + c.size <= Len(spans[i].data)
               /\ c.addr = spans[i].put + base
               /\ c.addr \in 0 .. ByteRange * ByteRange - 1
               /\ c.data \in Seq([by : Nat, put : Nat]) /\ Len(c.data) = c.size
               /\ \A j \in 1 .. c.size :
                      c.data[j] = spans[i].data[base + j] /\ base + j \in DOMAIN spans[i].data
<1> DEFINE s == spans[i]
<1> DEFINE B == [by : Nat, put : Nat]
<1> DEFINE n == Min({Chunk, Len(s.data) - base})
<1>1. /\ s.put \in Nat /\ s.data \in Seq(B) /\ Len(s.data) \in Nat
      /\ DOMAIN s.data = 1 .. Len(s.data) /\ End(s) = s.put + Len(s.data)
  BY SpanType DEF Coalesces, Typed
<1>2. s.put + Len(s.data) <= ByteRange * ByteRange
  BY <1>1, Fits
<1>3. base \in Nat /\ base < Len(s.data)
  OBVIOUS
<1>4. ChunkOf(s) = [size |-> n, addr |-> s.put + base, data |-> SubSeq(s.data, base + 1, base + n)]
  BY DEF ChunkOf
<1> HIDE DEF s, B
<1>5. n \in Nat \ {0} /\ n <= Chunk /\ base + n <= Len(s.data)
  <2> DEFINE m == Len(s.data) - base
  <2>1. m \in Nat \ {0} /\ base + m = Len(s.data) /\ Chunk \in Nat \ {0}
    BY <1>1, <1>3, Memory
  <2> HIDE DEF m
  <2>2. Min({Chunk, m}) = IF Chunk <= m THEN Chunk ELSE m
    BY <2>1, Least2
  <2>3. Min({Chunk, m}) \in Nat \ {0} /\ Min({Chunk, m}) <= Chunk /\ Min({Chunk, m}) <= m
    BY <2>1, <2>2
  <2>4. n = Min({Chunk, m})
    BY DEF m
  <2> HIDE DEF n
  <2> QED BY <1>1, <1>3, <2>1, <2>3, <2>4
<1> HIDE DEF n
<1>6. /\ SubSeq(s.data, base + 1, base + n) \in Seq(B)
      /\ Len(SubSeq(s.data, base + 1, base + n)) = n
      /\ \A j \in 1 .. n : SubSeq(s.data, base + 1, base + n)[j] = s.data[base + j]
                           /\ base + j \in DOMAIN s.data
  <2> DEFINE d == s.data
  <2>1. d \in Seq(B) /\ n \in Nat /\ base \in Nat /\ base + n <= Len(d)
    BY <1>1, <1>3, <1>5
  <2> HIDE DEF d
  <2>2. /\ SubSeq(d, base + 1, base + n) \in Seq(B) /\ Len(SubSeq(d, base + 1, base + n)) = n
        /\ \A j \in 1 .. n : SubSeq(d, base + 1, base + n)[j] = d[base + j]
                             /\ base + j \in DOMAIN d
    BY <2>1, Part
  <2> QED BY <2>2 DEF d
<1>7. s.put + base \in 0 .. ByteRange * ByteRange - 1
  <2> DEFINE m == ByteRange * ByteRange
  <2>1. m \in Nat /\ s.put + Len(s.data) <= m
    BY <1>2, Memory
  <2> HIDE DEF m
  <2>2. s.put + base \in 0 .. m - 1
    BY <1>1, <1>3, <2>1
  <2> QED BY <2>2 DEF m
<1> QED BY <1>4, <1>5, <1>6, <1>7 DEF s, B

(* The bytes of a span, of a part of one or of no span add up.               *)
LEMMA ByteType ==
    ASSUME Coalesces, NEW i \in DOMAIN spans, NEW j \in DOMAIN spans[i].data
    PROVE  Byte(spans[i].data[j]) \in Nat
<1> DEFINE b == spans[i].data[j]
<1>1. b = Zero \/ Real(b)
  BY DEF Coalesces, Placed
<1>2. b \in [by : Nat, put : Nat]
  <2> DEFINE B == [by : Nat, put : Nat]
  <2>1. spans[i].data \in Seq(B)
    BY SpanType DEF Coalesces, Typed
  <2> HIDE DEF B
  <2>2. b \in B
    BY <2>1, Element
  <2> QED BY <2>2 DEF B
<1> HIDE DEF b
<1>3. Byte(Zero) \in Nat
  BY OutputConstants
<1>4. Real(b) => Byte([by |-> b.by, put |-> b.put]) \in Nat
  BY OutputConstants DEF Real, Coalesces, Typed
<1>5. b = [by |-> b.by, put |-> b.put]
  BY <1>2
<1>6. Byte(b) \in Nat
  BY <1>1, <1>3, <1>4, <1>5, Zenon
<1> QED BY <1>6 DEF b

(* A record's sum, with what it sums up, is as its format wants it.          *)
LEMMA SumsUp ==
    ASSUME format \in Chunked, NEW kind \in {"data", "end"}, NEW size \in Nat,
           NEW addr \in 0 .. ByteRange * ByteRange - 1, NEW data, SumOf(data) \in Nat
    PROVE  LET sum == Sum(size, IF kind = "end" THEN 1 ELSE 0, addr, data)
               rec == [kind |-> kind, size |-> size, addr |-> addr, data |-> data, sum |-> sum]
           IN  /\ Total(rec) = IF format = "srec" THEN ByteRange - 1 ELSE 0
               /\ sum \in 0 .. ByteRange - 1
<1> DEFINE type == IF kind = "end" THEN 1 ELSE 0
<1> DEFINE sum == Sum(size, type, addr, data)
<1> DEFINE rec == [kind |-> kind, size |-> size, addr |-> addr, data |-> data, sum |-> sum]
<1> DEFINE h == addr \div ByteRange
<1> DEFINE l == addr % ByteRange
<1> DEFINE d == SumOf(data)
<1>1. ByteRange \in Nat \ {0} /\ d \in Nat /\ type \in Nat
  BY Memory
<1>2. addr \in Nat
  BY Memory
<1>3. /\ h \in Nat /\ l \in Nat /\ addr = ByteRange * h + l
      /\ h % ByteRange = h
  <2>1. /\ h \in Nat /\ l \in 0 .. ByteRange - 1 /\ addr = ByteRange * h + l
    <3>1. addr \in Int
      BY <1>2
    <3> QED BY <1>1, <1>2, <3>1, Division, Zenon
  <2>2. h % ByteRange = h
    BY <1>1, Page, Zenon
  <2> QED BY <2>1, <2>2, <1>1
<1>4. Total(rec) = Low((IF format = "srec" THEN size + 3 ELSE size + type) + h + l + d + sum)
  BY <1>3 DEF Total, High, Low
<1>5. CASE format = "srec"
  <2>1. sum = ByteRange - 1 - ((size + 3 + h + l + d) % ByteRange)
    BY <1>5 DEF Sum, SrecSum, Low
  <2> HIDE DEF type, sum, rec, h, l, d
  <2> DEFINE x == size + 3 + h + l + d
  <2>2. x \in Nat
    BY <1>1, <1>3
  <2>3. sum = ByteRange - 1 - (x % ByteRange) /\ Total(rec) = (x + sum) % ByteRange
    BY <1>4, <1>5, <2>1 DEF Low
  <2> HIDE DEF x
  <2> QED BY <1>1, <1>5, <2>2, <2>3, AddsToGreatest DEF sum, rec, type
<1>6. CASE format = "hex"
  <2>1. format # "srec"
    BY <1>6
  <2>2. sum = (ByteRange - ((size + type + addr + h + d) % ByteRange)) % ByteRange
    BY <2>1 DEF Sum, HexSum, Low
  <2> HIDE DEF type, sum, rec, h, l, d
  <2> DEFINE x == size + type + h + l + d
  <2>3. x \in Nat
    BY <1>1, <1>3
  <2>4. size + type + addr + h + d = x + ByteRange * h
    <3> DEFINE m == ByteRange * h
    <3>1. m \in Int /\ addr = m + l
      BY <1>1, <1>3
    <3> HIDE DEF m
    <3>2. size + type + addr + h + d = x + m
      BY <1>1, <1>3, <3>1
    <3> QED BY <3>2 DEF m
  <2>5. Total(rec) = (x + sum) % ByteRange
    BY <1>4, <2>1 DEF Low
  <2> HIDE DEF x
  <2>6. (size + type + addr + h + d) % ByteRange = x % ByteRange
    <3>1. x \in Int /\ h \in Int /\ ByteRange \in Nat \ {0}
      BY <1>1, <1>3, <2>3
    <3>2. (x + ByteRange * h) % ByteRange = x % ByteRange
      BY <3>1, Multiples, Zenon
    <3> QED BY <2>4, <3>2, Zenon
  <2>7. sum = (ByteRange - (x % ByteRange)) % ByteRange
    BY <2>2, <2>6
  <2> QED BY <1>1, <2>1, <2>3, <2>5, <2>7, AddsToZero DEF sum, rec, type
<1> QED BY <1>5, <1>6 DEF Chunked

-----------------------------------------------------------------------------
LEMMA Begins == OutInit => Outputs
<1> SUFFICES ASSUME OutInit PROVE Outputs
  OBVIOUS
<1>1. /\ Init /\ format \in Formats /\ pad = (format \in Padded)
      /\ \E n \in Execs : exec = ExecAddr(n)
      /\ records = <<>> /\ out = 1 /\ base = 0 /\ stage = "unopened"
  BY DEF OutInit
<1>2. Coalesces
  BY <1>1, InitCoalesces
<1>3. exec \in Int /\ exec \in -1 .. ByteRange * ByteRange - 1
  <2>1. PICK n \in Execs : exec = ExecAddr(n)
    BY <1>1
  <2>2. n \in Int
    BY <2>1, OutputConstants
  <2> DEFINE m == ByteRange * ByteRange
  <2>3. Word(n) \in 0 .. m - 1 /\ m \in Nat \ {0}
    BY <2>2, Words, Memory
  <2>4. exec = -1 \/ exec = Word(n)
    BY <2>1 DEF ExecAddr
  <2> HIDE DEF m
  <2>5. exec \in -1 .. m - 1
    BY <2>3, <2>4
  <2>6. exec \in Int
    BY <2>3, <2>5
  <2> QED BY <2>5, <2>6 DEF m
<1>4. OutTyped
  <2>1. records \in Seq(Recs)
    BY <1>1
  <2> QED BY <1>1, <1>3, <2>1 DEF OutTyped
<1>5. Staged
  <2>1. \A i \in DOMAIN spans : Len(spans[i].data) \in Nat
    BY <1>2, SpanType DEF Coalesces, Typed
  <2>2. out \in DOMAIN spans => base <= Len(spans[out].data)
    BY <1>1, <2>1
  <2> QED BY <1>1, <2>2 DEF Staged
<1>6. \A i \in DOMAIN spans : ~(i < out) /\ i \in Nat
  <2>1. \A i \in DOMAIN spans : i \in Nat \ {0}
    BY <1>2, SpanType DEF Coalesces, Typed
  <2> QED BY <1>1, <2>1
<1>7. Moved
  BY <1>1 DEF Moved
<1>8. Progress
  <2>1. \A i : Stored(i, 0)
    BY DEF Stored
  <2> QED BY <1>1, <1>6, <2>1 DEF Progress
<1>9. RecordsValid
  BY <1>1 DEF RecordsValid
<1> QED BY <1>2, <1>4, <1>5, <1>7, <1>8, <1>9 DEF Outputs

(* Steps that write nothing.                                                 *)
LEMMA OpenFailsKeeps == Outputs /\ OpenFails => Outputs'
<1> SUFFICES ASSUME Outputs, OpenFails PROVE Outputs'
  OBVIOUS
<1>1. /\ stage = "unopened" /\ stage' = "closed"
      /\ UNCHANGED <<vars, format, exec, records, out, base>>
  BY DEF OpenFails
<1>2. Coalesces'
  BY <1>1, StutterKeeps DEF Outputs
<1>3. OutTyped'
  BY <1>1 DEF vars, Outputs, OutTyped
<1>4. Staged'
  BY <1>1 DEF vars, Outputs, Staged
<1>5. Moved'
  BY <1>1 DEF vars, Outputs, Moved, InPlace
<1>6. Progress'
  <2>1. records' = <<>>
    BY <1>1 DEF Outputs, Staged
  <2> QED BY <1>1, <2>1 DEF vars, Outputs, Progress, Stored, Loads, FillsMemory
<1>7. RecordsValid'
  BY <1>1 DEF vars, Outputs, RecordsValid, Total
<1> QED BY <1>2, <1>3, <1>4, <1>5, <1>6, <1>7 DEF Outputs

LEMMA OpenKeeps == Outputs /\ Open => Outputs'
<1> SUFFICES ASSUME Outputs, Open PROVE Outputs'
  OBVIOUS
<1>1. /\ stage = "unopened" /\ stage' = "opened"
      /\ UNCHANGED <<vars, format, exec, records, out, base>>
  BY DEF Open
<1>2. Coalesces'
  BY <1>1, StutterKeeps DEF Outputs
<1>3. OutTyped'
  BY <1>1 DEF vars, Outputs, OutTyped
<1>4. Staged'
  BY <1>1 DEF vars, Outputs, Staged
<1>5. Moved'
  BY <1>1 DEF vars, Outputs, Moved, InPlace
<1>6. Progress'
  BY <1>1 DEF vars, Outputs, Progress, Stored, Loads, FillsMemory
<1>7. RecordsValid'
  BY <1>1 DEF vars, Outputs, RecordsValid, Total
<1> QED BY <1>2, <1>3, <1>4, <1>5, <1>6, <1>7 DEF Outputs

LEMMA CoalescedKeeps == Outputs /\ Coalesced => Outputs'
<1> SUFFICES ASSUME Outputs, Coalesced PROVE Outputs'
  OBVIOUS
<1>1. /\ stage = "opened" /\ done /\ stage' = "coalesced"
      /\ UNCHANGED <<vars, format, exec, records, out, base>>
  BY DEF Coalesced
<1>2. Coalesces'
  BY <1>1, StutterKeeps DEF Outputs
<1>3. OutTyped'
  BY <1>1 DEF vars, Outputs, OutTyped
<1>4. Staged'
  BY <1>1 DEF vars, Outputs, Staged
<1>5. Moved'
  BY <1>1 DEF vars, Outputs, Moved, InPlace
<1>6. Progress'
  BY <1>1 DEF vars, Outputs, Progress, Stored, Loads, FillsMemory
<1>7. RecordsValid'
  BY <1>1 DEF vars, Outputs, RecordsValid, Total
<1> QED BY <1>2, <1>3, <1>4, <1>5, <1>6, <1>7 DEF Outputs

LEMMA IdleKeeps == Outputs /\ UNCHANGED <<vars, outVars>> => Outputs'
<1> SUFFICES ASSUME Outputs, UNCHANGED <<vars, outVars>> PROVE Outputs'
  OBVIOUS
<1>1. UNCHANGED vars /\ UNCHANGED outVars
  OBVIOUS
<1>2. Coalesces'
  BY <1>1, StutterKeeps DEF Outputs
<1>3. OutTyped'
  BY <1>1 DEF vars, outVars, Outputs, OutTyped
<1>4. Staged'
  BY <1>1 DEF vars, outVars, Outputs, Staged
<1>5. Moved'
  BY <1>1 DEF vars, outVars, Outputs, Moved, InPlace
<1>6. Progress'
  BY <1>1 DEF vars, outVars, Outputs, Progress, Stored, Loads, FillsMemory
<1>7. RecordsValid'
  BY <1>1 DEF vars, outVars, Outputs, RecordsValid, Total
<1> QED BY <1>2, <1>3, <1>4, <1>5, <1>6, <1>7 DEF Outputs

(* Nothing has been written when the spans are coalesced.                    *)
LEMMA CoalescingKeeps == Outputs /\ Coalescing => Outputs'
<1> SUFFICES ASSUME Outputs, Coalescing PROVE Outputs'
  OBVIOUS
<1>1. stage = "opened" /\ Next /\ UNCHANGED outVars
  BY DEF Coalescing
<1>2. Coalesces'
  BY <1>1, NextKeeps DEF Outputs
<1>3. pad' = pad
  BY <1>1 DEF Next, Truncate, Join, StepOver, Finish, Turn
<1>4. records' = <<>> /\ out' = 1 /\ base' = 0 /\ stage' = "opened" /\ format' = format /\ exec' = exec
  BY <1>1 DEF outVars, Outputs, Staged
<1>5. OutTyped'
  BY <1>1, <1>3 DEF outVars, Outputs, OutTyped
<1>6. \A i \in DOMAIN spans' : i \in Nat \ {0} /\ Len(spans'[i].data) \in Nat
  BY <1>2, SpanType DEF Coalesces, Typed
<1>7. Staged'
  <2>1. out' \in DOMAIN spans' => base' <= Len(spans'[out'].data)
    BY <1>4, <1>6
  <2> QED BY <1>4, <2>1 DEF Staged
<1>8. Moved'
  BY <1>4 DEF Moved
<1>9. Progress'
  <2>1. \A i : Stored(i, 0)'
    BY DEF Stored
  <2>2. \A i \in DOMAIN spans' : ~(i < out')
    BY <1>4, <1>6
  <2>3. stage' # "closed" /\ base' = 0
    BY <1>4
  <2> QED BY <2>1, <2>2, <2>3 DEF Progress
<1>10. RecordsValid'
  BY <1>4 DEF RecordsValid
<1> QED BY <1>2, <1>5, <1>7, <1>8, <1>9, <1>10 DEF Outputs

(* Steps that write.                                                         *)
LEMMA Exclusive ==
    /\ format \in Padded => format \notin Chunked /\ format # "coco"
    /\ format \in Chunked => format \notin Padded
    /\ format = "coco" => format \notin Padded /\ format \notin Chunked
BY DEF Padded, Chunked

LEMMA WriteBlockKeeps == Outputs /\ InMemory /\ WriteBlock => Outputs'
<1> SUFFICES ASSUME Outputs, InMemory, WriteBlock PROVE Outputs'
  OBVIOUS
<1>1. /\ stage = "coalesced" /\ format \in Padded /\ stage' = "closed"
      /\ out' = out /\ base' = base
  BY DEF WriteBlock
<1>2. done /\ records = <<>> /\ Coalesces /\ OutTyped /\ Staged
  BY <1>1 DEF Outputs, Staged
<1>3. CASE spans = <<>> /\ format = "binary"
  <2>1. UNCHANGED <<vars, format, exec, records>>
    BY <1>3 DEF WriteBlock
  <2>2. Coalesces'
    BY <1>2, <2>1, StutterKeeps
  <2>3. OutTyped'
    BY <1>1, <1>2, <2>1 DEF vars, OutTyped
  <2>4. records' = <<>> /\ format' \in Padded /\ format' \notin Chunked /\ spans' = <<>>
    BY <1>1, <1>2, <1>3, <2>1, Exclusive DEF vars
  <2>5. Staged'
    BY <1>1, <1>2, <2>1 DEF vars, Staged
  <2>6. Moved' /\ Progress' /\ RecordsValid'
    BY <2>4 DEF Moved, Progress, RecordsValid
  <2> QED BY <2>2, <2>3, <2>5, <2>6 DEF Outputs
<1>4. CASE ~(spans = <<>> /\ format = "binary")
  <2> DEFINE block == Written(IF spans = <<>> THEN NoSpan ELSE spans[1])
  <2>1. /\ Write(block)
        /\ exec' = IF exec >= 0 \/ format = "binary" THEN exec ELSE block.addr
    BY <1>4 DEF WriteBlock
  <2>2. spans # <<>> => 1 \in DOMAIN spans
    <3>1. Len(spans) \in Nat /\ DOMAIN spans = 1 .. Len(spans) /\ (Len(spans) = 0 => spans = <<>>)
      BY <1>2, Length DEF Coalesces, Typed
    <3> QED BY <3>1
  <2>3. /\ block \in Recs /\ InPlace(block)
        /\ spans # <<>> /\ ~FillsMemory => \A j \in 1 .. Len(spans[1].data) :
               Loads(block, spans[1].put + j - 1, spans[1].data[j])
    <3>1. CASE spans = <<>>
      <4>1. block = [kind |-> "data", size |-> Word(0), addr |-> Word(0), data |-> <<>>, sum |-> 0]
        BY <3>1 DEF Written, NoSpan
      <4>2. Word(0) \in Nat
        BY Words
      <4> HIDE DEF block
      <4>3. <<>> \in Seq([by : Nat, put : Nat])
        OBVIOUS
      <4>4. block \in Recs
        BY <4>1, <4>2, <4>3 DEF Recs
      <4>5. InPlace(block)
        BY <4>1 DEF InPlace
      <4> QED BY <3>1, <4>4, <4>5
    <3>2. CASE spans # <<>>
      <4>1. block = Written(spans[1]) /\ 1 \in DOMAIN spans
        BY <2>2, <3>2
      <4> HIDE DEF block
      <4> QED BY <1>2, <4>1, BlockFacts
    <3> QED BY <3>1, <3>2
  <2> HIDE DEF block
  <2>4. /\ records' \in Seq(Recs) /\ records' # <<>>
        /\ spans' = spans /\ UNCHANGED <<vars, format>> /\ Coalesces' /\ Moved'
        /\ \A i, n : (\A j \in 1 .. n : Loads(block, spans[i].put + j - 1, spans[i].data[j]))
                         => Stored(i, n)'
    BY <2>1, <2>3, Writes
  <2>5. OutTyped'
    <3>1. exec' \in Int
      BY <1>2, <2>1, <2>3 DEF OutTyped, Recs
    <3>2. format' \notin Chunked
      BY <1>1, <2>4, Exclusive
    <3> QED BY <1>1, <1>2, <2>4, <3>1, <3>2 DEF vars, OutTyped
  <2>6. Staged'
    BY <1>1, <1>2, <2>4 DEF vars, Staged
  <2>7. Progress'
    <3>1. format' \in Padded /\ format' \notin Chunked
      BY <1>1, <2>4, Exclusive
    <3>2. FillsMemory' <=> FillsMemory
      BY <2>4 DEF FillsMemory
    <3>3. spans # <<>> /\ ~FillsMemory => Stored(1, Len(spans[1].data))'
      <4>1. spans # <<>> /\ ~FillsMemory => \A n : n = Len(spans[1].data) => Stored(1, n)'
        BY <2>3, <2>4
      <4> QED BY <2>4, <4>1
    <3> QED BY <2>4, <3>1, <3>2, <3>3 DEF Progress
  <2>8. RecordsValid'
    BY <1>1, <2>4, Exclusive DEF RecordsValid
  <2> QED BY <2>4, <2>5, <2>6, <2>7, <2>8 DEF Outputs
<1> QED BY <1>3, <1>4

LEMMA WriteSpanKeeps == Outputs /\ InMemory /\ WriteSpan => Outputs'
<1> SUFFICES ASSUME Outputs, InMemory, WriteSpan PROVE Outputs'
  OBVIOUS
<1> DEFINE block == Written(spans[out])
<1>1. /\ stage = "coalesced" /\ format = "coco" /\ stage' = stage /\ out \in DOMAIN spans
      /\ Write(block) /\ exec' = (IF exec >= 0 THEN exec ELSE Word(spans[out].put))
      /\ out' = out + 1 /\ base' = base
  BY DEF WriteSpan
<1>2. done /\ Coalesces /\ OutTyped /\ Staged /\ Progress
  BY <1>1 DEF Outputs, Staged
<1>3. format \notin Padded /\ format \notin Chunked
  BY <1>1, Exclusive
<1>4. /\ block \in Recs /\ InPlace(block)
      /\ ~FillsMemory => \A j \in 1 .. Len(spans[out].data) :
             Loads(block, spans[out].put + j - 1, spans[out].data[j])
  BY <1>1, <1>2, BlockFacts
<1> HIDE DEF block
<1>5. /\ records' \in Seq(Recs) /\ records' # <<>>
      /\ spans' = spans /\ UNCHANGED <<vars, format>> /\ Coalesces' /\ Moved'
      /\ \A i, n : Stored(i, n) => Stored(i, n)'
      /\ \A i, n : (\A j \in 1 .. n : Loads(block, spans[i].put + j - 1, spans[i].data[j]))
                       => Stored(i, n)'
  BY <1>1, <1>4, Writes
<1>6. OutTyped'
  <2>1. spans[out].put \in Int
    BY <1>1, <1>2, SpanType DEF Coalesces, Typed
  <2>2. exec' \in Int
    <3>1. Word(spans[out].put) \in Int
      BY <2>1, Words
    <3> QED BY <1>1, <1>2, <3>1 DEF OutTyped
  <2>3. out' \in Nat \ {0}
    BY <1>1, <1>2 DEF OutTyped
  <2>4. format' \notin Chunked
    BY <1>3, <1>5
  <2> QED BY <1>1, <1>2, <1>5, <2>2, <2>3, <2>4 DEF vars, OutTyped
<1>7. Staged'
  <2>1. stage' = "coalesced" /\ done' /\ format' \notin Padded /\ format' \notin Chunked
    BY <1>1, <1>2, <1>3, <1>5 DEF vars
  <2> QED BY <2>1 DEF Staged
<1>8. Progress'
  <2>1. format' \notin Padded /\ format' \notin Chunked
    BY <1>3, <1>5
  <2>2. ASSUME ~FillsMemory, NEW i \in DOMAIN spans, i < out + 1
        PROVE  \A n : n = Len(spans[i].data) => Stored(i, n)'
    <3>1. CASE i < out
      <4>1. Stored(i, Len(spans[i].data))
        BY <1>2, <1>3, <2>2, <3>1 DEF Progress
      <4> QED BY <1>5, <4>1
    <3>2. CASE i = out
      BY <1>4, <1>5, <2>2, <3>2
    <3>3. i \in Nat /\ out \in Nat
      BY <1>2, SpanType DEF Coalesces, Typed, OutTyped
    <3> QED BY <2>2, <3>1, <3>2, <3>3
  <2>3. FillsMemory' <=> FillsMemory
    BY <1>5 DEF FillsMemory
  <2>4. \A i \in DOMAIN spans : ~FillsMemory /\ i < out' =>
            \A n : n = Len(spans[i].data) => Stored(i, n)'
    BY <1>1, <2>2
  <2>5. ASSUME NEW i \in DOMAIN spans', ~FillsMemory', i < out'
        PROVE  Stored(i, Len(spans[i].data))'
    <3>1. i \in DOMAIN spans /\ ~FillsMemory
      BY <1>5, <2>3, <2>5
    <3> DEFINE n == Len(spans[i].data)
    <3>2. Stored(i, n)'
      BY <1>5, <2>4, <2>5, <3>1
    <3> QED BY <3>2
  <2> QED BY <2>1, <2>5 DEF Progress
<1>9. RecordsValid'
  BY <1>3, <1>5 DEF RecordsValid
<1> QED BY <1>5, <1>6, <1>7, <1>8, <1>9 DEF Outputs

LEMMA NextSpanKeeps == Outputs /\ NextSpan => Outputs'
<1> SUFFICES ASSUME Outputs, NextSpan PROVE Outputs'
  OBVIOUS
<1>1. /\ stage = "coalesced" /\ format \in Chunked /\ out \in DOMAIN spans
      /\ base = Len(spans[out].data) /\ out' = out + 1 /\ base' = 0
      /\ UNCHANGED <<vars, format, exec, records, stage>>
  BY DEF NextSpan
<1>2. done /\ Coalesces /\ OutTyped /\ Staged /\ Progress /\ Moved /\ RecordsValid
  BY <1>1 DEF Outputs, Staged
<1>3. Coalesces' /\ spans' = spans
  BY <1>1, <1>2, StutterKeeps DEF vars
<1>4. OutTyped'
  <2>1. out' \in Nat \ {0} /\ base' \in Nat
    BY <1>1, <1>2 DEF OutTyped
  <2> QED BY <1>1, <1>2, <2>1 DEF vars, OutTyped
<1>5. Staged'
  <2>1. stage' = "coalesced" /\ done' /\ format' \notin Padded
    BY <1>1, <1>2, Exclusive DEF vars
  <2>2. out' \in DOMAIN spans' => base' <= Len(spans'[out'].data)
    <3>1. \A i \in DOMAIN spans : Len(spans[i].data) \in Nat
      BY <1>2, SpanType DEF Coalesces, Typed
    <3> QED BY <1>1, <1>3, <3>1
  <2> QED BY <2>1, <2>2 DEF Staged
<1>6. Moved'
  BY <1>1, <1>2 DEF Moved, InPlace
<1>7. Progress'
  <2>1. format \notin Padded /\ format' = format
    BY <1>1, Exclusive
  <2>2. ASSUME NEW i \in DOMAIN spans, i < out + 1
        PROVE  Stored(i, Len(spans[i].data))
    <3>1. CASE i < out
      BY <1>1, <1>2, <2>1, <2>2, <3>1 DEF Progress
    <3>2. CASE i = out
      <4>1. Stored(out, base)
        BY <1>1, <1>2 DEF Progress
      <4> QED BY <1>1, <3>2, <4>1
    <3>3. i \in Nat /\ out \in Nat
      BY <1>2, SpanType DEF Coalesces, Typed, OutTyped
    <3> QED BY <2>2, <3>1, <3>2, <3>3
  <2>3. \A i \in DOMAIN spans' : i < out' => Stored(i, Len(spans[i].data))'
    BY <1>1, <1>3, <2>2 DEF Stored, Loads
  <2>4. Stored(out, base)'
    BY <1>1 DEF Stored
  <2> QED BY <2>1, <2>3, <2>4 DEF Progress
<1>8. RecordsValid'
  BY <1>1, <1>2 DEF RecordsValid, Total
<1> QED BY <1>3, <1>4, <1>5, <1>6, <1>7, <1>8 DEF Outputs

(* The end of an S-record file or of an Intel one is a record as well.       *)
LEMMA ValidAfter ==
    ASSUME Outputs, format \in Chunked, NEW kind \in {"data", "end"},
           NEW size \in Nat, size < ByteRange - 3,
           NEW addr \in 0 .. ByteRange * ByteRange - 1, NEW data \in Seq([by : Nat, put : Nat]),
           SumOf(data) \in Nat, NEW rec, Write(rec),
           rec = [kind |-> kind, size |-> size, addr |-> addr, data |-> data,
                  sum |-> Sum(size, IF kind = "end" THEN 1 ELSE 0, addr, data)]
    PROVE  rec \in Recs /\ RecordsValid'
<1>1. /\ Total(rec) = IF format = "srec" THEN ByteRange - 1 ELSE 0
      /\ rec.sum \in 0 .. ByteRange - 1
  BY SumsUp
<1>2. rec \in Recs
  <2>1. addr \in Int /\ rec.sum \in Int
    BY <1>1, Memory
  <2> QED BY <2>1 DEF Recs
<1>3. /\ UNCHANGED <<vars, format>>
      /\ \A i \in DOMAIN records' : records'[i] = rec \/
             \E k \in DOMAIN records : records'[i] = records[k]
  BY <1>2, Writes
<1>4. /\ rec.size < ByteRange - 3 /\ rec.addr \in 0 .. ByteRange * ByteRange - 1
  OBVIOUS
<1>5. RecordsValid'
  <2> SUFFICES ASSUME NEW i \in DOMAIN records'
               PROVE  /\ Total(records'[i]) = IF format = "srec" THEN ByteRange - 1 ELSE 0
                      /\ records'[i].size < ByteRange - 3
                      /\ records'[i].addr \in 0 .. ByteRange * ByteRange - 1
                      /\ records'[i].sum \in 0 .. ByteRange - 1
    BY <1>3 DEF RecordsValid, Total
  <2>1. CASE records'[i] = rec
    BY <1>1, <1>4, <2>1
  <2>2. CASE \E k \in DOMAIN records : records'[i] = records[k]
    BY <2>2 DEF Outputs, RecordsValid
  <2> QED BY <1>3, <2>1, <2>2
<1> QED BY <1>2, <1>5

LEMMA WriteChunkKeeps == Outputs /\ InMemory /\ WriteChunk => Outputs'
<1> SUFFICES ASSUME Outputs, InMemory, WriteChunk PROVE Outputs'
  OBVIOUS
<1> DEFINE c == ChunkOf(spans[out])
<1> DEFINE rec == [kind |-> "data", size |-> c.size, addr |-> c.addr, data |-> c.data,
                   sum |-> Sum(c.size, 0, c.addr, c.data)]
<1>1. /\ stage = "coalesced" /\ format \in Chunked /\ out \in DOMAIN spans
      /\ base < Len(spans[out].data) /\ Write(rec) /\ base' = base + c.size
      /\ exec' = exec /\ out' = out /\ stage' = stage
  BY DEF WriteChunk
<1>2. done /\ Coalesces /\ OutTyped /\ Staged /\ Progress
  BY <1>1 DEF Outputs, Staged
<1>3. /\ c.size \in Nat \ {0} /\ c.size <= Chunk /\ base + c.size <= Len(spans[out].data)
      /\ c.addr = spans[out].put + base
      /\ c.addr \in 0 .. ByteRange * ByteRange - 1
      /\ c.data \in Seq([by : Nat, put : Nat]) /\ Len(c.data) = c.size
      /\ \A j \in 1 .. c.size :
             c.data[j] = spans[out].data[base + j] /\ base + j \in DOMAIN spans[out].data
  <2>1. base \in Nat
    BY <1>2 DEF OutTyped
  <2> QED BY <1>1, <1>2, <2>1, ChunkFacts
<1>4. /\ base \in Nat /\ out \in Nat \ {0} /\ spans[out].put \in Nat
      /\ Len(spans[out].data) \in Nat
  BY <1>1, <1>2, SpanType DEF OutTyped, Coalesces, Typed
<1> HIDE DEF c
<1>5. SumOf(c.data) \in Nat
  <2>1. \A j \in 1 .. Len(c.data) : Byte(c.data[j]) \in Nat
    <3> SUFFICES ASSUME NEW j \in 1 .. Len(c.data) PROVE Byte(c.data[j]) \in Nat
      OBVIOUS
    <3>1. c.data[j] = spans[out].data[base + j] /\ base + j \in DOMAIN spans[out].data
      BY <1>3
    <3>2. Byte(spans[out].data[base + j]) \in Nat
      BY <1>1, <1>2, <3>1, ByteType
    <3> QED BY <3>1, <3>2, Zenon
  <2>2. Len(c.data) \in Nat
    BY <1>3
  <2> QED BY <2>1, <2>2, SumType
<1>6. rec \in Recs /\ RecordsValid'
  <2> DEFINE kind == "data"
  <2>1. /\ kind \in {"data", "end"} /\ c.size \in Nat /\ c.size < ByteRange - 3
        /\ (IF kind = "end" THEN 1 ELSE 0) = 0
    BY <1>3, Memory
  <2>2. rec = [kind |-> kind, size |-> c.size, addr |-> c.addr, data |-> c.data,
               sum |-> Sum(c.size, IF kind = "end" THEN 1 ELSE 0, c.addr, c.data)]
    BY <2>1
  <2> HIDE DEF kind, rec
  <2> QED BY <1>1, <1>3, <1>5, <2>1, <2>2, ValidAfter
<1>7. /\ rec.kind = "data" /\ rec.size = c.size /\ rec.addr = c.addr /\ rec.data = c.data
  OBVIOUS
<1> HIDE DEF rec
<1>8. InPlace(rec)
  <2> SUFFICES ASSUME NEW j \in 1 .. c.size
               PROVE  c.data[j] = Zero \/ c.data[j].put = c.addr + j - 1
    <3>1. DOMAIN c.data = 1 .. c.size
      BY <1>3, Length
    <3> QED BY <1>7, <3>1 DEF InPlace
  <2>1. c.data[j] = spans[out].data[base + j] /\ base + j \in DOMAIN spans[out].data
    BY <1>3
  <2>2. \/ spans[out].data[base + j] = Zero
        \/ spans[out].data[base + j].put = spans[out].put + (base + j) - 1
    BY <1>1, <1>2, <2>1 DEF Coalesces, Placed
  <2>3. spans[out].put + (base + j) - 1 = (spans[out].put + base) + j - 1
    BY <1>3, <1>4
  <2> QED BY <1>3, <2>1, <2>2, <2>3
<1>9. /\ records' \in Seq(Recs) /\ records' # <<>>
      /\ spans' = spans /\ UNCHANGED <<vars, format>> /\ Coalesces' /\ Moved'
      /\ \A a, b : Loads(rec, a, b) => \E r \in DOMAIN records' : Loads(records'[r], a, b)
      /\ \A i, n : Stored(i, n) => Stored(i, n)'
      /\ \A i, n : Stored(i, n) => \A j \in 1 .. n : \E r \in DOMAIN records' :
             Loads(records'[r], spans[i].put + j - 1, spans[i].data[j])
  BY <1>1, <1>6, <1>8, Writes
<1>10. OutTyped'
  <2>1. base' \in Nat
    BY <1>1, <1>3, <1>4
  <2> QED BY <1>1, <1>2, <1>9, <2>1 DEF vars, OutTyped
<1>11. Staged'
  <2>1. stage' = "coalesced" /\ done' /\ format' \notin Padded
    BY <1>1, <1>2, <1>9, Exclusive DEF vars
  <2>2. base' <= Len(spans'[out'].data)
    BY <1>1, <1>3, <1>9
  <2> QED BY <2>1, <2>2 DEF Staged
<1>12. Progress'
  <2>1. format \notin Padded /\ format' = format
    BY <1>1, <1>9, Exclusive
  <2>2. ASSUME NEW i \in DOMAIN spans', i < out'
        PROVE  Stored(i, Len(spans[i].data))'
    <3> DEFINE n == Len(spans[i].data)
    <3>1. Stored(i, n)
      BY <1>1, <1>2, <1>9, <2>1, <2>2 DEF Progress
    <3>2. Stored(i, n)'
      BY <1>9, <3>1
    <3> QED BY <3>2
  <2>3. Stored(out, base)'
    <3> SUFFICES ASSUME NEW j \in 1 .. base + c.size
                 PROVE  \E r \in DOMAIN records' :
                            Loads(records'[r], spans[out].put + j - 1, spans[out].data[j])
      BY <1>1, <1>9 DEF Stored, Loads
    <3>1. CASE j <= base
      <4>1. Stored(out, base)
        BY <1>1, <1>2 DEF Progress
      <4>2. j \in 1 .. base
        BY <1>4, <3>1
      <4> QED BY <1>9, <4>1, <4>2
    <3>2. CASE base < j
      <4> DEFINE k == j - base
      <4>1. k \in 1 .. c.size /\ base + k = j
        BY <1>3, <1>4, <3>2
      <4> HIDE DEF k
      <4>2. c.data[k] = spans[out].data[j]
        BY <1>3, <4>1
      <4>3. (spans[out].put + j - 1) - (spans[out].put + base) + 1 = k
        BY <1>4, <4>1
      <4>4. Loads(rec, spans[out].put + j - 1, spans[out].data[j])
        BY <1>3, <1>7, <4>1, <4>2, <4>3 DEF Loads
      <4> QED BY <1>9, <4>4
    <3>3. j \in Nat
      BY <1>3, <1>4
    <3> QED BY <1>4, <3>1, <3>2, <3>3
  <2> QED BY <2>1, <2>2, <2>3 DEF Progress
<1> QED BY <1>6, <1>9, <1>10, <1>11, <1>12 DEF Outputs

LEMMA CloseKeeps == Outputs /\ Close => Outputs'
<1> SUFFICES ASSUME Outputs, Close PROVE Outputs'
  OBVIOUS
<1> DEFINE addr == IF format = "coco" THEN Word(exec) ELSE IF exec < 0 THEN 0 ELSE exec
<1> DEFINE rec == [kind |-> "end", size |-> 0, addr |-> addr, data |-> <<>>,
                   sum |-> Sum(0, 1, addr, <<>>)]
<1>1. /\ stage = "coalesced" /\ format \notin Padded /\ out > Len(spans)
      /\ Write(rec) /\ stage' = "closed" /\ exec' = exec /\ out' = out /\ base' = base
  BY DEF Close
<1>2. done /\ Coalesces /\ OutTyped /\ Staged /\ Progress
  BY <1>1 DEF Outputs, Staged
<1>3. addr \in 0 .. ByteRange * ByteRange - 1 /\ addr \in Int
  <2> DEFINE m == ByteRange * ByteRange
  <2>1. exec \in Int /\ m \in Nat \ {0} /\ Word(exec) \in 0 .. m - 1
    BY <1>2, Words, Memory DEF OutTyped
  <2>2. format = "coco" \/ exec \in -1 .. m - 1
    BY <1>1, <1>2 DEF OutTyped, Formats, Padded, Chunked
  <2> HIDE DEF m
  <2>3. addr \in 0 .. m - 1
    BY <2>1, <2>2
  <2>4. addr \in Int
    BY <2>1, <2>3
  <2> QED BY <2>3, <2>4 DEF m
<1> HIDE DEF addr
<1>4. SumOf(<<>>) \in Nat
  <2>1. Len(<<>>) \in Nat /\ \A j \in 1 .. Len(<<>>) : Byte(<<>>[j]) \in Nat
    OBVIOUS
  <2> QED BY <2>1, SumType
<1>5. rec \in Recs
  <2>1. Sum(0, 1, addr, <<>>) \in Int
    <3>1. addr \div ByteRange \in Int /\ addr % ByteRange \in Int
      BY <1>3, Memory, Division
    <3>2. \A x \in Int : Low(x) \in Int
      BY Memory DEF Low
    <3>3. SrecSum(0, addr, <<>>) \in Int
      BY <1>4, <3>1, <3>2, Memory DEF SrecSum, Low
    <3>4. HexSum(0, 1, addr, <<>>) \in Int
      <4>1. 0 + 1 + addr + addr \div ByteRange + SumOf(<<>>) \in Int
        BY <1>3, <1>4, <3>1
      <4>2. ByteRange - Low(0 + 1 + addr + addr \div ByteRange + SumOf(<<>>)) \in Int
        BY <3>2, <4>1, Memory
      <4> QED BY <3>2, <4>2 DEF HexSum
    <3> QED BY <3>3, <3>4 DEF Sum
  <2>2. <<>> \in Seq([by : Nat, put : Nat])
    OBVIOUS
  <2> QED BY <1>3, <2>1, <2>2 DEF Recs
<1>6. RecordsValid'
  <2>1. CASE format \in Chunked
    <3> DEFINE kind == "end"
    <3> DEFINE size == 0
    <3> DEFINE data == <<>>
    <3>1. /\ kind \in {"data", "end"} /\ size \in Nat /\ size < ByteRange - 3
          /\ (IF kind = "end" THEN 1 ELSE 0) = 1 /\ data \in Seq([by : Nat, put : Nat])
          /\ SumOf(data) \in Nat
      BY <1>4, Memory
    <3>2. rec = [kind |-> kind, size |-> size, addr |-> addr, data |-> data,
                 sum |-> Sum(size, IF kind = "end" THEN 1 ELSE 0, addr, data)]
      BY <3>1
    <3> HIDE DEF kind, rec, size, data
    <3> QED BY <1>1, <1>3, <2>1, <3>1, <3>2, ValidAfter
  <2>2. CASE format \notin Chunked
    BY <1>1, <2>2 DEF Write, RecordsValid
  <2> QED BY <2>1, <2>2
<1>7. InPlace(rec)
  BY DEF InPlace
<1> HIDE DEF rec
<1>8. /\ records' \in Seq(Recs) /\ records' # <<>>
      /\ spans' = spans /\ UNCHANGED <<vars, format>> /\ Coalesces' /\ Moved'
      /\ \A i, n : Stored(i, n) => Stored(i, n)'
  BY <1>1, <1>5, <1>7, Writes
<1>9. OutTyped'
  BY <1>1, <1>2, <1>8 DEF vars, OutTyped
<1>10. Staged'
  <2>1. stage' = "closed" /\ done' /\ out' > Len(spans')
    BY <1>1, <1>2, <1>8 DEF vars
  <2>2. ~(out \in DOMAIN spans)
    <3>1. \A i \in DOMAIN spans : i \in Nat /\ i <= Len(spans) /\ Len(spans) \in Nat
      BY <1>2, SpanType DEF Coalesces, Typed
    <3> QED BY <1>1, <3>1
  <2> QED BY <1>1, <1>8, <2>1, <2>2 DEF Staged
<1>11. Progress'
  <2>1. format' \notin Padded /\ format' = format /\ (FillsMemory' <=> FillsMemory)
    BY <1>1, <1>8 DEF FillsMemory
  <2>2. ASSUME NEW i \in DOMAIN spans', i < out', format' \in Chunked \/ ~FillsMemory'
        PROVE  Stored(i, Len(spans[i].data))'
    <3> DEFINE n == Len(spans[i].data)
    <3>1. Stored(i, n)
      BY <1>1, <1>2, <1>8, <2>1, <2>2 DEF Progress
    <3>2. Stored(i, n)'
      BY <1>8, <3>1
    <3> QED BY <3>2
  <2>3. ~(out' \in DOMAIN spans')
    <3>1. \A i \in DOMAIN spans : i \in Nat /\ i <= Len(spans) /\ Len(spans) \in Nat
      BY <1>2, SpanType DEF Coalesces, Typed
    <3> QED BY <1>1, <1>8, <3>1
  <2> QED BY <2>1, <2>2, <2>3 DEF Progress
<1> QED BY <1>6, <1>8, <1>9, <1>10, <1>11 DEF Outputs

LEMMA OutNextKeeps ==
    ASSUME InMemory
    PROVE  Outputs /\ [OutNext]_<<vars, outVars>> => Outputs'
<1> SUFFICES ASSUME Outputs, [OutNext]_<<vars, outVars>> PROVE Outputs'
  OBVIOUS
<1>1. CASE UNCHANGED <<vars, outVars>>
  BY <1>1, IdleKeeps
<1>2. CASE OpenFails \/ Open \/ Coalescing \/ Coalesced
  BY <1>2, OpenFailsKeeps, OpenKeeps, CoalescingKeeps, CoalescedKeeps
<1>3. CASE WriteBlock \/ WriteSpan \/ WriteChunk \/ NextSpan \/ Close
  BY <1>3, WriteBlockKeeps, WriteSpanKeeps, WriteChunkKeeps, NextSpanKeeps, CloseKeeps
<1> QED BY <1>1, <1>2, <1>3 DEF OutNext

LEMMA Loaded == Outputs => LoaderGetsBytes
<1> SUFFICES ASSUME Outputs PROVE LoaderGetsBytes
  OBVIOUS
<1>1. \A i \in DOMAIN records : \A j \in DOMAIN records[i].data :
          LET b == records[i].data[j] IN b = Zero \/ b.put = records[i].addr + j - 1
  BY DEF Outputs, Moved, InPlace
<1>2. ASSUME stage = "closed", records # <<>>, level = None, format \in Chunked \/ ~FillsMemory,
             NEW n \in DOMAIN input, NEW a \in Addresses(input[n])
      PROVE  \E r \in DOMAIN records : Loads(records[r], a, [by |-> n, put |-> a])
  <2>1. Coalesces /\ done /\ (format \in Padded \/ out > Len(spans)) /\ pad = (format \in Padded)
    BY <1>2 DEF Outputs, Staged, OutTyped
  <2>2. PICK i \in DOMAIN spans : Stands(i, n, a)
    BY <1>2, <2>1 DEF Coalesces, Present
  <2>3. a \in Nat
    BY <2>1, AddressType DEF Coalesces
  <2>4. /\ i \in Nat \ {0} /\ i <= Len(spans) /\ Len(spans) \in Nat /\ out \in Nat
        /\ spans # <<>>
    BY <2>1, SpanType DEF Coalesces, Typed, Outputs, OutTyped
  <2>5. Stored(i, Len(spans[i].data))
    <3>1. CASE format \in Padded
      <4>1. ~FillsMemory
        BY <1>2, <3>1, Exclusive
      <4>2. Len(spans) <= 1
        <5>1. ~Overlap
          BY <1>2, <2>1, Reports DEF OverlapReported, None, Data
        <5> QED BY <2>1, <3>1, <5>1, Merges DEF OutputMerged
      <4>3. i = 1
        BY <2>4, <4>2
      <4> QED BY <1>2, <2>4, <3>1, <4>1, <4>3 DEF Outputs, Progress
    <3>2. CASE format \notin Padded
      <4>1. i < out
        BY <2>1, <2>4, <3>2
      <4> QED BY <1>2, <3>2, <4>1 DEF Outputs, Progress
    <3> QED BY <3>1, <3>2
  <2> DEFINE j == a - spans[i].put + 1
  <2>6. /\ j \in 1 .. Len(spans[i].data) /\ spans[i].put + j - 1 = a
        /\ spans[i].data[j] = [by |-> n, put |-> a]
    <3>1. Within(i, a)
      BY <2>2 DEF Stands, Within
    <3>2. j \in DOMAIN spans[i].data /\ spans[i].put + j - 1 = a
      BY <2>1, <2>3, <3>1, ByteAt
    <3>3. DOMAIN spans[i].data = 1 .. Len(spans[i].data)
      BY <2>1, SpanType DEF Coalesces, Typed
    <3>4. spans[i].data[j] = [by |-> n, put |-> a]
      BY <2>2 DEF Stands
    <3> QED BY <3>2, <3>3, <3>4
  <2> HIDE DEF j
  <2> QED BY <2>5, <2>6 DEF Stored
<1> QED BY <1>1, <1>2 DEF LoaderGetsBytes

LEMMA OutCoalesces == OutSpec => []Coalesces
<1>1. OutInit => Coalesces
  BY InitCoalesces DEF OutInit
<1>2. Coalesces /\ [OutNext]_<<vars, outVars>> => Coalesces'
  <2> SUFFICES ASSUME Coalesces, [OutNext]_<<vars, outVars>> PROVE Coalesces'
    OBVIOUS
  <2>1. Next \/ UNCHANGED vars
    BY DEF OutNext, OpenFails, Open, Coalescing, Coalesced, WriteBlock, WriteSpan,
           WriteChunk, NextSpan, Close, Write
  <2> QED BY <2>1, NextKeeps
<1> QED BY <1>1, <1>2, PTL DEF OutSpec

-----------------------------------------------------------------------------
(* section_coalesce_all() moves no byte, and loses one only where it reports *)
(* an error: joining, cutting and filling keep each where it was put.        *)
THEOREM BytesStay == OutSpec => []BytesKept
BY OutCoalesces, Keeps, PTL

(* Looking at neighbours only it finds an overlap exactly if there is one.   *)
THEOREM OverlapsNoticed == OutSpec => []OverlapReported
BY OutCoalesces, Reports, PTL

(* What it leaves neither overlaps nor, without errors, meets.               *)
THEOREM SpansMerged == OutSpec => []OutputMerged
BY OutCoalesces, Merges, PTL

(* If all spans begun end within the memory a loader gets every byte, and no *)
(* other, at its address, whatever the format.                               *)
THEOREM BytesLoaded ==
    ASSUME InMemory
    PROVE  OutSpec => []LoaderGetsBytes
<1>1. OutInit => Outputs
  BY Begins
<1>2. Outputs /\ [OutNext]_<<vars, outVars>> => Outputs'
  BY OutNextKeeps
<1>3. Outputs => LoaderGetsBytes
  BY Loaded
<1> QED BY <1>1, <1>2, <1>3, PTL DEF OutSpec

(* The sums, sizes and addresses of S-records and of Intel records are as    *)
(* these formats want them.                                                  *)
THEOREM RecordsAddUp ==
    ASSUME InMemory
    PROVE  OutSpec => []RecordsValid
<1>1. OutInit => Outputs
  BY Begins
<1>2. Outputs /\ [OutNext]_<<vars, outVars>> => Outputs'
  BY OutNextKeeps
<1>3. Outputs => RecordsValid
  BY DEF Outputs
<1> QED BY <1>1, <1>2, <1>3, PTL DEF OutSpec

=============================================================================
