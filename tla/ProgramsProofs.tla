--------------------------- MODULE ProgramsProofs ---------------------------
(* Proofs, for any texts and limits, that contexts nest, that macros get the *)
(* arguments that are theirs and have the bodies that were written, and that *)
(* every pass goes where the first went.                                     *)
EXTENDS Programs, TLAPS, FiniteSetTheorems, WellFoundedInduction

Names == {l.name : l \in AllLines}

(* A program is one of the files F or the macros M.                          *)
ProgsOf(F, M) == [type : {"file"}, name : F] \cup [type : {"macro"}, name : M]
Conds == [list : Seq(CondStates), excluded : Nat]
ContextsOf(F, M) ==
    [prog : ProgsOf(F, M), line : Nat, cond : Conds, section : Names \cup {"CODE"},
     defines : BOOLEAN]
Contexts == ContextsOf(DOMAIN text, DOMAIN macros)

Macros == [body : Seq(AllLines), pass : Nat]

Types ==
    /\ text \in Texts
    /\ pass \in Nat
    /\ queue \in Seq(DOMAIN text)
    /\ stack \in Seq(Contexts)
    /\ macros \in [DOMAIN macros -> Macros]
    /\ defining \in Nat
    /\ depth \in Nat
    /\ args \in Seq(DOMAIN macros)
    /\ section \in Names \cup {"CODE"}
    /\ level \in {None, Syntax, Fatal}

(* The contexts of a stack s that are being assembled, and the macros among  *)
(* them.                                                                     *)
ActiveIn(s)    == {i \in DOMAIN s : ~s[i].defines}
ExpandingIn(s) == {i \in ActiveIn(s) : s[i].prog.type = "macro"}

ArgsIn(a, s) ==
    /\ Len(a) = Cardinality(ExpandingIn(s))
    /\ \A i \in ExpandingIn(s) :
           a[Cardinality({j \in ExpandingIn(s) : j <= i})] = s[i].prog.name

Stacked ==
    /\ depth = Cardinality(ActiveIn(stack))
    /\ defCtx \in {NoCtx, Dangling} \cup DOMAIN stack
    /\ defCtx > NoCtx => stack[defCtx].defines /\ stack[defCtx].prog.type = "macro"
    /\ ArgsIn(args, stack)

-----------------------------------------------------------------------------
(* A set of numbers has a least one, and if it has a bound ...               *)
LEMMA Least ==
    ASSUME NEW S, S \subseteq Nat, S # {}
    PROVE  \E x \in S : \A y \in S : x <= y
<1>1. PICK x \in S : \A y \in S : ~(<<y, x>> \in OpToRel(<, Nat))
  BY NatLessThanWellFounded, WFMin
<1>2. \A y \in S : ~(y < x)
  BY <1>1 DEF OpToRel
<1> QED BY <1>2

(* ... a greatest one, ...                                                   *)
LEMMA Greatest ==
    ASSUME NEW S, S \subseteq Nat, NEW n \in Nat, \A x \in S : x <= n, S # {}
    PROVE  \E x \in S : \A y \in S : y <= x
<1> DEFINE T == {n - x : x \in S}
<1>1. T \subseteq Nat /\ T # {}
  <2>1. \A x \in S : x \in Nat /\ x <= n /\ n - x \in Nat
    OBVIOUS
  <2> QED BY <2>1
<1>2. PICK t \in T : \A y \in T : t <= y
  <2> HIDE DEF T
  <2> QED BY <1>1, Least
<1>3. PICK x \in S : t = n - x
  OBVIOUS
<1>4. ASSUME NEW y \in S PROVE y <= x
  <2>1. n - y \in T
    OBVIOUS
  <2>2. n - x <= n - y
    BY <1>2, <1>3, <2>1
  <2> QED BY <2>2
<1> QED BY <1>4

(* ... which Max chooses.                                                    *)
LEMMA MaxIs ==
    ASSUME NEW S, S \subseteq Nat, NEW n \in Nat, \A x \in S : x <= n, S # {}
    PROVE  Max(S) \in S /\ \A y \in S : y <= Max(S)
<1>1. \E x \in S : \A y \in S : x >= y
  BY Greatest
<1>2. Max(S) = CHOOSE x \in S : \A y \in S : x >= y
  BY DEF Max
<1>3. Max(S) \in S /\ \A y \in S : Max(S) >= y
  BY <1>1, <1>2
<1>4. ASSUME NEW y \in S PROVE y <= Max(S)
  BY <1>3
<1> QED BY <1>3, <1>4

(* Where something is assembled there is a context for it.                   *)
LEMMA RunningIs ==
    ASSUME NEW C, stack \in Seq(C), depth = Cardinality(ActiveIn(stack)), depth # 0
    PROVE  /\ Running \in 1 .. Len(stack)
           /\ Running \in ActiveIn(stack)
           /\ \A i \in ActiveIn(stack) : i <= Running
<1>1. ActiveIn(stack) # {}
  BY FS_EmptySet
<1>2. ActiveIn(stack) \subseteq 1 .. Len(stack) /\ Len(stack) \in Nat
  BY DEF ActiveIn
<1>3. Running = Max(ActiveIn(stack))
  BY DEF Running, Active, ActiveIn
<1> QED BY <1>1, <1>2, <1>3, MaxIs

(* The numbers of a set up to one of them, counted.                          *)
LEMMA Ranks ==
    ASSUME NEW S, IsFiniteSet(S), S \subseteq Nat, NEW i \in S
    PROVE  Cardinality({j \in S : j <= i}) \in 1 .. Cardinality(S)
<1> DEFINE T == {j \in S : j <= i}
<1>1. IsFiniteSet(T) /\ Cardinality(T) <= Cardinality(S)
  BY FS_Subset
<1>2. Cardinality(T) # 0
  <2>1. i \in T
    OBVIOUS
  <2> QED BY <1>1, <2>1, FS_EmptySet
<1>3. Cardinality(T) \in Nat /\ Cardinality(S) \in Nat
  BY <1>1, FS_CardinalityType
<1> QED BY <1>1, <1>2, <1>3

(* Stacks of the same programs have the same active contexts.                *)
LEMMA AlikeStacks ==
    ASSUME NEW s, NEW t, DOMAIN s = DOMAIN t,
           \A i \in DOMAIN s : s[i].defines = t[i].defines /\ s[i].prog = t[i].prog
    PROVE  /\ ActiveIn(t) = ActiveIn(s)
           /\ \A a : ArgsIn(a, s) => ArgsIn(a, t)
<1>1. ActiveIn(t) = ActiveIn(s)
  BY DEF ActiveIn
<1>2. ExpandingIn(t) = ExpandingIn(s) /\ ExpandingIn(s) \subseteq DOMAIN s
  BY <1>1 DEF ExpandingIn, ActiveIn
<1> QED BY <1>1, <1>2 DEF ArgsIn

(* The contexts of macros being defined do not count.                        *)
LEMMA DefinerPushed ==
    ASSUME NEW C, NEW s \in Seq(C), NEW c \in C, c.defines = TRUE
    PROVE  /\ ActiveIn(Append(s, c)) = ActiveIn(s)
           /\ \A a : ArgsIn(a, s) => ArgsIn(a, Append(s, c))
<1> DEFINE t == Append(s, c)
<1>1. DOMAIN t = DOMAIN s \cup {Len(s) + 1} /\ t[Len(s) + 1] = c
      /\ Len(s) \in Nat /\ DOMAIN s = 1 .. Len(s)
      /\ \A i \in 1 .. Len(s) : t[i] = s[i]
  OBVIOUS
<1> HIDE DEF t
<1>2. ActiveIn(t) = ActiveIn(s)
  BY <1>1 DEF ActiveIn
<1>3. ExpandingIn(t) = ExpandingIn(s) /\ ExpandingIn(s) \subseteq DOMAIN s
  BY <1>1, <1>2 DEF ExpandingIn, ActiveIn
<1>4. \A a : ArgsIn(a, s) => ArgsIn(a, t)
  BY <1>1, <1>3 DEF ArgsIn
<1> QED BY <1>2, <1>4 DEF t

LEMMA DefinersCut ==
    ASSUME NEW C, NEW s \in Seq(C), NEW n \in 0 .. Len(s),
           \A i \in n + 1 .. Len(s) : s[i].defines
    PROVE  /\ ActiveIn(SubSeq(s, 1, n)) = ActiveIn(s)
           /\ \A a : ArgsIn(a, s) => ArgsIn(a, SubSeq(s, 1, n))
<1> DEFINE t == SubSeq(s, 1, n)
<1>1. DOMAIN t = 1 .. n /\ DOMAIN s = 1 .. Len(s) /\ Len(s) \in Nat /\ n \in Nat
      /\ \A i \in 1 .. n : t[i] = s[i]
  OBVIOUS
<1> HIDE DEF t
<1>2. ActiveIn(t) = ActiveIn(s)
  BY <1>1 DEF ActiveIn
<1>3. ExpandingIn(t) = ExpandingIn(s) /\ ExpandingIn(s) \subseteq 1 .. n
  <2>1. ActiveIn(s) \subseteq 1 .. n
    BY <1>1, <1>2 DEF ActiveIn
  <2> QED BY <1>1, <1>2, <2>1 DEF ExpandingIn
<1>4. \A a : ArgsIn(a, s) => ArgsIn(a, t)
  BY <1>1, <1>3 DEF ArgsIn
<1> QED BY <1>2, <1>4 DEF t

LEMMA FiniteStack ==
    ASSUME NEW C, NEW s \in Seq(C)
    PROVE  /\ IsFiniteSet(ActiveIn(s)) /\ ActiveIn(s) \subseteq 1 .. Len(s)
           /\ IsFiniteSet(ExpandingIn(s)) /\ ExpandingIn(s) \subseteq 1 .. Len(s)
<1>1. IsFiniteSet(1 .. Len(s)) /\ DOMAIN s = 1 .. Len(s)
  BY FS_Interval
<1>2. ActiveIn(s) \subseteq 1 .. Len(s) /\ ExpandingIn(s) \subseteq 1 .. Len(s)
  BY <1>1 DEF ActiveIn, ExpandingIn
<1> QED BY <1>1, <1>2, FS_Subset

(* A program is entered, with its arguments if it is a macro, ...            *)
LEMMA ProgPushed ==
    ASSUME NEW C, NEW s \in Seq(C), NEW c \in C, c.defines = FALSE
    PROVE  /\ Cardinality(ActiveIn(Append(s, c))) = Cardinality(ActiveIn(s)) + 1
           /\ \A N : \A a \in Seq(N) : ArgsIn(a, s) /\ c.prog.type # "macro" => ArgsIn(a, Append(s, c))
           /\ \A N : \A a \in Seq(N) : ArgsIn(a, s) /\ c.prog.type = "macro" /\ c.prog.name \in N =>
                    ArgsIn(Append(a, c.prog.name), Append(s, c))
<1> DEFINE t == Append(s, c)
           n == Len(s) + 1
           E == ExpandingIn(s)
<1>1. DOMAIN t = DOMAIN s \cup {n} /\ t[n] = c /\ Len(s) \in Nat /\ DOMAIN s = 1 .. Len(s)
      /\ n \notin DOMAIN s /\ n \in Nat
      /\ \A i \in 1 .. Len(s) : t[i] = s[i]
  OBVIOUS
<1>2. IsFiniteSet(ActiveIn(s)) /\ ActiveIn(s) \subseteq 1 .. Len(s)
      /\ IsFiniteSet(E) /\ E \subseteq 1 .. Len(s)
  BY FiniteStack
<1> HIDE DEF t
<1>3. ActiveIn(t) = ActiveIn(s) \cup {n}
  BY <1>1 DEF ActiveIn
<1>4. Cardinality(ActiveIn(t)) = Cardinality(ActiveIn(s)) + 1
  <2>1. n \notin ActiveIn(s)
    BY <1>1, <1>2
  <2> QED BY <1>2, <1>3, <2>1, FS_AddElement
<1>5. ASSUME c.prog.type # "macro"
      PROVE  ExpandingIn(t) = E
  BY <1>1, <1>2, <1>3, <1>5 DEF ExpandingIn
<1>6. \A N : \A a \in Seq(N) : ArgsIn(a, s) /\ c.prog.type # "macro" => ArgsIn(a, t)
  BY <1>1, <1>2, <1>5 DEF ArgsIn
<1>7. ASSUME NEW N, NEW a \in Seq(N), ArgsIn(a, s), c.prog.type = "macro", c.prog.name \in N
      PROVE  ArgsIn(Append(a, c.prog.name), t)
  <2> DEFINE b == Append(a, c.prog.name)
  <2>1. ExpandingIn(t) = E \cup {n} /\ n \notin E
    BY <1>1, <1>2, <1>3, <1>7 DEF ExpandingIn
  <2>2. Len(b) = Len(a) + 1 /\ b[Len(a) + 1] = c.prog.name /\ Len(a) \in Nat
        /\ \A k \in 1 .. Len(a) : b[k] = a[k]
    BY <1>7
  <2>3. Len(a) = Cardinality(E) /\ Cardinality(E \cup {n}) = Cardinality(E) + 1
    BY <1>2, <1>7, <2>1, FS_AddElement DEF ArgsIn
  <2>7. n \in Nat /\ \A j \in E : j \in Nat /\ j < n /\ j \in 1 .. Len(s)
    BY <1>1, <1>2
  <2>8. IsFiniteSet(E) /\ E \subseteq Nat
    BY <1>2, <2>7
  <2> HIDE DEF b, E, n
  <2>4. ASSUME NEW i \in E
        PROVE  b[Cardinality({j \in E \cup {n} : j <= i})] = t[i].prog.name
    <3>1. {j \in E \cup {n} : j <= i} = {j \in E : j <= i}
      BY <2>7
    <3>2. Cardinality({j \in E : j <= i}) \in 1 .. Cardinality(E)
      BY <2>8, Ranks
    <3>3. a[Cardinality({j \in E : j <= i})] = s[i].prog.name
      BY <1>7 DEF ArgsIn, E
    <3> QED BY <1>1, <2>7, <2>2, <2>3, <3>1, <3>2, <3>3
  <2>5. b[Cardinality({j \in E \cup {n} : j <= n})] = t[n].prog.name
    <3>1. {j \in E \cup {n} : j <= n} = E \cup {n}
      BY <2>7
    <3> QED BY <1>1, <2>2, <2>3, <3>1
  <2>6. Len(b) = Cardinality(ExpandingIn(t))
    BY <2>1, <2>2, <2>3
  <2> QED BY <2>1, <2>4, <2>5, <2>6 DEF ArgsIn, b
<1> QED BY <1>4, <1>6, <1>7 DEF t

(* ... and left, from the innermost on.                                      *)
LEMMA ProgCut ==
    ASSUME NEW C, NEW s \in Seq(C), NEW r \in ActiveIn(s), \A i \in ActiveIn(s) : i <= r
    PROVE  /\ Cardinality(ActiveIn(SubSeq(s, 1, r - 1))) = Cardinality(ActiveIn(s)) - 1
           /\ \A N : \A a \in Seq(N) : ArgsIn(a, s) /\ s[r].prog.type # "macro" =>
                    ArgsIn(a, SubSeq(s, 1, r - 1))
           /\ \A N : \A a \in Seq(N) : ArgsIn(a, s) /\ s[r].prog.type = "macro" =>
                    ArgsIn(Front(a), SubSeq(s, 1, r - 1))
<1> DEFINE t == SubSeq(s, 1, r - 1)
           E == ExpandingIn(s)
<1>2. IsFiniteSet(ActiveIn(s)) /\ ActiveIn(s) \subseteq 1 .. Len(s)
      /\ IsFiniteSet(E) /\ E \subseteq 1 .. Len(s)
  BY FiniteStack
<1>1. DOMAIN t = 1 .. r - 1 /\ DOMAIN s = 1 .. Len(s) /\ Len(s) \in Nat /\ r \in 1 .. Len(s)
      /\ \A i \in 1 .. r - 1 : t[i] = s[i]
  BY <1>2
<1> HIDE DEF t
<1>3. ActiveIn(t) = ActiveIn(s) \ {r}
  BY <1>1, <1>2 DEF ActiveIn
<1>4. Cardinality(ActiveIn(t)) = Cardinality(ActiveIn(s)) - 1
  BY <1>2, <1>3, FS_RemoveElement
<1>5. ASSUME s[r].prog.type # "macro"
      PROVE  ExpandingIn(t) = E
  BY <1>1, <1>2, <1>3, <1>5 DEF ExpandingIn, ActiveIn
<1>6. \A N : \A a \in Seq(N) : ArgsIn(a, s) /\ s[r].prog.type # "macro" => ArgsIn(a, t)
  <2>1. \A i \in ExpandingIn(t) : t[i] = s[i]
    BY <1>1 DEF ExpandingIn, ActiveIn
  <2> QED BY <1>5, <2>1 DEF ArgsIn
<1>7. ASSUME NEW N, NEW a \in Seq(N), ArgsIn(a, s), s[r].prog.type = "macro"
      PROVE  ArgsIn(Front(a), t)
  <2> DEFINE b == Front(a)
             D == ExpandingIn(t)
  <2>1. E = D \cup {r} /\ r \notin D /\ D = E \ {r} /\ r \in E
    BY <1>1, <1>2, <1>3, <1>7 DEF ExpandingIn, ActiveIn
  <2>2. Len(a) = Cardinality(E) /\ Cardinality(D) = Cardinality(E) - 1 /\ IsFiniteSet(D)
        /\ Cardinality(D) \in Nat /\ Cardinality(E) \in Nat
    <3>1. Len(a) = Cardinality(E)
      BY <1>7 DEF ArgsIn
    <3>2. IsFiniteSet(E \ {r}) /\ Cardinality(E \ {r}) = Cardinality(E) - 1
      BY <1>2, <2>1, FS_RemoveElement
    <3>3. Cardinality(E) \in Nat /\ Cardinality(E \ {r}) \in Nat
      BY <1>2, <3>2, FS_CardinalityType
    <3> QED BY <2>1, <3>1, <3>2, <3>3
  <2>3. Len(b) = Len(a) - 1 /\ \A k \in 1 .. Len(a) - 1 : b[k] = a[k]
    BY <2>2 DEF Front
  <2>4. \A i \in D : i < r /\ t[i] = s[i] /\ i \in Nat
    BY <1>1 DEF ExpandingIn, ActiveIn
  <2> HIDE DEF b, D
  <2>5. ASSUME NEW i \in D
        PROVE  b[Cardinality({j \in D : j <= i})] = t[i].prog.name
    <3>1. {j \in E : j <= i} = {j \in D : j <= i}
      BY <1>1, <2>1, <2>4
    <3>2. Cardinality({j \in D : j <= i}) \in 1 .. Cardinality(D)
      BY <2>2, <2>4, Ranks
    <3>3. a[Cardinality({j \in E : j <= i})] = s[i].prog.name
      BY <1>7, <2>1 DEF ArgsIn
    <3> QED BY <2>2, <2>3, <2>4, <3>1, <3>2, <3>3
  <2> QED BY <2>2, <2>3, <2>5 DEF ArgsIn, b, D
<1> QED BY <1>4, <1>6, <1>7 DEF t

-----------------------------------------------------------------------------
(* The line that is met.                                                     *)
LEMMA TextLines ==
    ASSUME Types, NEW p \in ProgsOf(DOMAIN text, DOMAIN macros)
    PROVE  Lines(p) \in Seq(AllLines)
<1>1. CASE p.type = "file"
  <2>1. p.name \in DOMAIN text
    BY <1>1 DEF ProgsOf
  <2> QED BY <1>1, <2>1, ProgramsConstants DEF Lines, Types
<1>2. CASE p.type = "macro"
  <2>1. p.name \in DOMAIN macros
    BY <1>2 DEF ProgsOf
  <2> QED BY <1>2, <2>1 DEF Lines, Types, Macros
<1> QED BY <1>1, <1>2 DEF ProgsOf

LEMMA LineIs ==
    ASSUME Types, Stacked, Assembling
    PROVE  /\ Running \in 1 .. Len(stack)
           /\ Running \in ActiveIn(stack)
           /\ \A i \in ActiveIn(stack) : i <= Running
           /\ Ctx \in Contexts
           /\ Lines(Ctx.prog) \in Seq(AllLines)
           /\ ~Ended => Ctx.line + 1 \in 1 .. Len(Lines(Ctx.prog)) /\ Line \in AllLines
<1>1. /\ Running \in 1 .. Len(stack)
      /\ Running \in ActiveIn(stack)
      /\ \A i \in ActiveIn(stack) : i <= Running
  BY RunningIs DEF Types, Stacked, Assembling
<1>2. Ctx \in Contexts
  BY <1>1 DEF Ctx, Types
<1>3. Ctx.prog \in ProgsOf(DOMAIN text, DOMAIN macros) /\ Ctx.line \in Nat
  BY <1>2 DEF Contexts, ContextsOf
<1>4. Lines(Ctx.prog) \in Seq(AllLines)
  BY <1>3, TextLines
<1>5. ~Ended => Ctx.line + 1 \in 1 .. Len(Lines(Ctx.prog)) /\ Line \in AllLines
  BY <1>3, <1>4 DEF Ended, Line
<1> QED BY <1>1, <1>2, <1>4, <1>5

(* The stack once the line has been read.                                    *)
LEMMA MovedIs ==
    ASSUME Types, Stacked, Assembling
    PROVE  /\ Moved \in Seq(Contexts) /\ Len(Moved) = Len(stack)
           /\ \A i \in 1 .. Len(stack) :
                  Moved[i] = IF i = Running THEN [stack[i] EXCEPT !.line = @ + 1] ELSE stack[i]
           /\ \A i \in 1 .. Len(stack) :
                  Moved[i].defines = stack[i].defines /\ Moved[i].prog = stack[i].prog
           /\ ActiveIn(Moved) = ActiveIn(stack)
           /\ ArgsIn(args, Moved)
<1>1. Running \in 1 .. Len(stack) /\ Ctx = stack[Running] /\ Ctx \in Contexts
      /\ stack \in Seq(Contexts) /\ Len(stack) \in Nat
  BY LineIs DEF Ctx, Types
<1>2. [Ctx EXCEPT !.line = @ + 1] \in Contexts
  BY <1>1 DEF Contexts, ContextsOf
<1>3. Moved = [stack EXCEPT ![Running] = [stack[Running] EXCEPT !.line = @ + 1]]
  BY DEF Moved
<1>4. Moved \in Seq(Contexts) /\ Len(Moved) = Len(stack) /\ DOMAIN Moved = DOMAIN stack
      /\ DOMAIN stack = 1 .. Len(stack)
  BY <1>1, <1>2, <1>3
<1>5. \A i \in 1 .. Len(stack) :
          Moved[i] = IF i = Running THEN [stack[i] EXCEPT !.line = @ + 1] ELSE stack[i]
  BY <1>1, <1>3
<1>6. \A i \in 1 .. Len(stack) : stack[i] \in Contexts
  BY <1>1
<1>7. \A i \in 1 .. Len(stack) :
          Moved[i].defines = stack[i].defines /\ Moved[i].prog = stack[i].prog
  BY <1>5, <1>6 DEF Contexts, ContextsOf
<1>8. ActiveIn(Moved) = ActiveIn(stack) /\ \A a : ArgsIn(a, stack) => ArgsIn(a, Moved)
  BY <1>4, <1>7, AlikeStacks
<1> QED BY <1>4, <1>5, <1>7, <1>8 DEF Stacked

LEMMA CondTypes ==
    ASSUME NEW c \in Conds, NEW h \in BOOLEAN
    PROVE  /\ AfterIf(c, h) \in Conds /\ AfterElsif(c, h) \in Conds
           /\ AfterElse(c) \in Conds /\ AfterEndif(c) \in Conds
<1>1. c.list \in Seq(CondStates) /\ c.excluded \in Nat /\ Len(c.list) \in Nat
      /\ c = [list |-> c.list, excluded |-> c.excluded]
  BY DEF Conds
<1>2. {"if", "if_done", "else"} = CondStates
  BY DEF CondStates
<1>3. AfterIf(c, h) \in Conds
  <2>1. Append(c.list, "if") \in Seq(CondStates) /\ Append(c.list, "if_done") \in Seq(CondStates)
    BY <1>1, <1>2
  <2> QED BY <1>1, <2>1 DEF AfterIf, Conds, Depth
<1>4. ASSUME ~Misplaced(c), NEW x \in CondStates
      PROVE  SetTop(c, x) \in Seq(CondStates)
  <2>1. Len(c.list) \in 1 .. Len(c.list)
    BY <1>1, <1>4 DEF Misplaced, Depth
  <2> QED BY <1>1, <2>1, <1>4 DEF SetTop, Depth
<1>5. AfterElsif(c, h) \in Conds
  <2>1. "if_done" \in CondStates
    BY <1>2
  <2> QED BY <1>1, <1>4, <2>1 DEF AfterElsif, Conds, Depth
<1>6. AfterElse(c) \in Conds
  <2>1. "else" \in CondStates
    BY <1>2
  <2> QED BY <1>1, <1>4, <2>1 DEF AfterElse, Conds, Depth
<1>7. AfterEndif(c) \in Conds
  <2>1. ASSUME Depth(c) # 0
        PROVE  SubSeq(c.list, 1, Depth(c) - 1) \in Seq(CondStates)
    BY <1>1, <2>1 DEF Depth
  <2> QED BY <1>1, <2>1 DEF AfterEndif, Conds
<1> QED BY <1>3, <1>5, <1>6, <1>7

LEMMA Raised ==
    ASSUME NEW l \in {None, Syntax, Fatal}, NEW e \in {None, Syntax, Fatal}
    PROVE  /\ Raise(l, e) \in {None, Syntax, Fatal}
           /\ Raise(l, e) < Syntax <=> l = None /\ e = None
           /\ Raise(l, None) = l
           /\ l < Syntax <=> l = None
BY DEF Raise, None, Syntax, Fatal, Inconsistent, OutOfRange

(* Whatever is met, the stack holds a context for each program under way and *)
(* the macros among them have their arguments.                               *)
Sound == Types /\ Stacked

LEMMA InitSound == Init => Sound
<1> SUFFICES ASSUME Init PROVE Sound
  OBVIOUS
<1>1. Types
  <2>1. Sources \in Seq(DOMAIN text)
    BY ProgramsConstants DEF Init
  <2>2. stack \in Seq(Contexts) /\ args \in Seq(DOMAIN macros)
    BY DEF Init
  <2>3. macros \in [DOMAIN macros -> Macros]
    BY DEF Init
  <2> QED BY <2>1, <2>2, <2>3 DEF Init, Types
<1>2. Stacked
  <2>1. ActiveIn(stack) = {} /\ ExpandingIn(stack) = {}
    BY DEF Init, ActiveIn, ExpandingIn
  <2>2. Cardinality({}) = 0 /\ Len(<<>>) = 0
    BY FS_EmptySet
  <2>3. ArgsIn(args, stack)
    BY <2>1, <2>2 DEF Init, ArgsIn
  <2> QED BY <2>1, <2>2, <2>3 DEF Init, Stacked, NoCtx
<1> QED BY <1>1, <1>2 DEF Sound

(* Lines that only move on.                                                  *)
LEMMA MovedSound ==
    ASSUME Sound, ReadLine, stack' = Moved, UNCHANGED <<macros, depth, args>>,
           defining' \in Nat, defCtx' = defCtx, level' \in {None, Syntax, Fatal},
           section' \in Names \cup {"CODE"}
    PROVE  Sound'
<1>1. Assembling /\ UNCHANGED <<text, pass, queue>>
  BY DEF ReadLine
<1>2. Moved \in Seq(Contexts) /\ Len(Moved) = Len(stack) /\ ActiveIn(Moved) = ActiveIn(stack)
      /\ ArgsIn(args, Moved)
      /\ \A i \in 1 .. Len(stack) :
             Moved[i].defines = stack[i].defines /\ Moved[i].prog = stack[i].prog
  BY <1>1, MovedIs DEF Sound
<1>3. Contexts' = Contexts
  BY <1>1 DEF Contexts
<1>4. Types'
  BY <1>1, <1>2, <1>3 DEF Sound, Types
<1>5. stack \in Seq(Contexts)
  BY DEF Sound, Types
<1>6. DOMAIN Moved = DOMAIN stack /\ DOMAIN stack = 1 .. Len(stack)
  BY <1>2, <1>5
<1>7. Stacked'
  <2>1. depth' = Cardinality(ActiveIn(stack'))
    BY <1>2 DEF Sound, Stacked
  <2>2. defCtx' \in {NoCtx, Dangling} \cup DOMAIN stack'
    BY <1>6 DEF Sound, Stacked
  <2>3. (defCtx > NoCtx)' => stack'[defCtx'].defines /\ stack'[defCtx'].prog.type = "macro"
    BY <1>2, <1>6 DEF Sound, Stacked, NoCtx, Dangling
  <2>4. ArgsIn(args, stack)'
    BY <1>2 DEF ArgsIn, ExpandingIn, ActiveIn
  <2> QED BY <2>1, <2>2, <2>3, <2>4 DEF Stacked, ActiveIn
<1> QED BY <1>4, <1>7 DEF Sound

LEMMA OtherSound == ASSUME Sound, OtherLine PROVE Sound'
<1>1. defining' \in Nat /\ level' \in {None, Syntax, Fatal} /\ section' \in Names \cup {"CODE"}
  BY DEF OtherLine, Sound, Types
<1> QED BY <1>1, MovedSound DEF OtherLine

LEMMA StrayEndmSound == ASSUME Sound, StrayEndm PROVE Sound'
<1>1. level' \in {None, Syntax, Fatal}
  BY Raised DEF StrayEndm, Report, Sound, Types
<1>2. defining' \in Nat /\ section' \in Names \cup {"CODE"}
  BY DEF StrayEndm, Sound, Types
<1> QED BY <1>1, <1>2, MovedSound DEF StrayEndm

LEMMA SectionSound == ASSUME Sound, SectionLine PROVE Sound'
<1>1. Line \in AllLines
  BY LineIs DEF Sound, SectionLine, Assembled, ReadLine
<1>2. section' \in Names \cup {"CODE"}
  BY <1>1 DEF SectionLine, Names
<1>3. defining' \in Nat /\ level' \in {None, Syntax, Fatal}
  BY DEF SectionLine, Assembled, Sound, Types
<1> QED BY <1>2, <1>3, MovedSound DEF SectionLine, Assembled

LEMMA CondSound == ASSUME Sound, CondLine PROVE Sound'
<1>1. Assembling /\ UNCHANGED <<text, pass, queue, macros, defining, defCtx, depth, args, section>>
  BY DEF CondLine, ReadLine
<1>2. Moved \in Seq(Contexts) /\ Len(Moved) = Len(stack) /\ ActiveIn(Moved) = ActiveIn(stack)
      /\ ArgsIn(args, Moved) /\ Running \in 1 .. Len(stack)
      /\ (\A i \in 1 .. Len(stack) :
             Moved[i].defines = stack[i].defines /\ Moved[i].prog = stack[i].prog)
      /\ Moved[Running] \in Contexts /\ Ctx \in Contexts /\ stack \in Seq(Contexts)
  BY <1>1, MovedIs, LineIs DEF Sound, Types
<1>3. AfterCond(Ctx.cond) \in Conds
  <2>1. Ctx.cond \in Conds /\ Holds \in BOOLEAN
    BY <1>2 DEF Contexts, ContextsOf, Holds
  <2> QED BY <2>1, CondTypes DEF CondLine, AfterCond, CondKinds
<1>4. [Moved[Running] EXCEPT !.cond = AfterCond(Ctx.cond)] \in Contexts
  BY <1>2, <1>3 DEF Contexts, ContextsOf
<1>5. stack' = [Moved EXCEPT ![Running] = [Moved[Running] EXCEPT !.cond = AfterCond(Ctx.cond)]]
  BY DEF CondLine
<1>6. stack' \in Seq(Contexts) /\ DOMAIN stack' = DOMAIN Moved /\ DOMAIN Moved = 1 .. Len(stack)
      /\ DOMAIN stack = 1 .. Len(stack)
  BY <1>2, <1>4, <1>5
<1>7. \A i \in DOMAIN Moved : Moved[i].defines = stack'[i].defines /\ Moved[i].prog = stack'[i].prog
  BY <1>2, <1>5, <1>6 DEF Contexts, ContextsOf
<1>8. ActiveIn(stack') = ActiveIn(Moved) /\ ArgsIn(args, stack')
  BY <1>2, <1>6, <1>7, AlikeStacks
<1>9. level' \in {None, Syntax, Fatal}
  BY Raised DEF CondLine, Report, Sound, Types
<1>10. Contexts' = Contexts
  BY <1>1 DEF Contexts
<1>11. Types'
  BY <1>1, <1>6, <1>9, <1>10 DEF Sound, Types
<1>12. Stacked'
  <2>1. depth' = Cardinality(ActiveIn(stack'))
    BY <1>1, <1>2, <1>8 DEF Sound, Stacked
  <2>2. defCtx' \in {NoCtx, Dangling} \cup DOMAIN stack'
    BY <1>1, <1>6 DEF Sound, Stacked
  <2>3. (defCtx > NoCtx)' => stack'[defCtx'].defines /\ stack'[defCtx'].prog.type = "macro"
    BY <1>1, <1>2, <1>6, <1>7 DEF Sound, Stacked, NoCtx, Dangling
  <2>4. ArgsIn(args, stack)'
    BY <1>1, <1>8 DEF ArgsIn, ExpandingIn, ActiveIn
  <2> QED BY <2>1, <2>2, <2>3, <2>4 DEF Stacked, ActiveIn
<1> QED BY <1>11, <1>12 DEF Sound

LEMMA MacroSound == ASSUME Sound, MacroLine PROVE Sound'
<1>1. Assembling /\ UNCHANGED <<text, pass, queue, depth, args, section, status>> /\ defining' = 1
  BY DEF MacroLine, ReadLine
<1>2. Moved \in Seq(Contexts) /\ Len(Moved) = Len(stack) /\ ActiveIn(Moved) = ActiveIn(stack)
      /\ ArgsIn(args, Moved) /\ stack \in Seq(Contexts)
      /\ (\A i \in 1 .. Len(stack) :
             Moved[i].defines = stack[i].defines /\ Moved[i].prog = stack[i].prog)
  BY <1>1, MovedIs DEF Sound, Types
<1>3. CASE Line.name \notin DOMAIN macros /\ Line.name # "none"
  <2> DEFINE m == Line.name
             c == Context(Named(m), TRUE)
  <2>1. macros' = WithMacro(m) /\ stack' = Append(Moved, c) /\ defCtx' = Len(stack) + 1
        /\ level' = level
    BY <1>3 DEF MacroLine
  <2>2. DOMAIN macros' = DOMAIN macros \cup {m} /\ macros' \in [DOMAIN macros' -> Macros]
    BY <2>1 DEF WithMacro, Macros, Sound, Types
  <2>3. Contexts \subseteq Contexts'
    BY <1>1, <2>2 DEF Contexts, ContextsOf, ProgsOf
  <2>4. c \in Contexts' /\ c.defines = TRUE /\ c.prog.type = "macro"
    BY <1>1, <2>2 DEF Contexts, ContextsOf, ProgsOf, Context, Named, Sound, Types, NoConds, Conds
  <2>5. Moved \in Seq(Contexts')
    BY <1>2, <2>3
  <2> HIDE DEF c, m
  <2>6. stack' \in Seq(Contexts') /\ DOMAIN stack' = 1 .. Len(stack) + 1 /\ stack'[Len(stack) + 1] = c
    BY <1>2, <2>1, <2>4, <2>5
  <2>7. ActiveIn(stack') = ActiveIn(stack) /\ ArgsIn(args, stack')
    BY <1>2, <2>1, <2>4, <2>5, DefinerPushed
  <2>8. args \in Seq(DOMAIN macros')
    BY <2>2 DEF Sound, Types
  <2>9. Types'
    BY <1>1, <2>1, <2>2, <2>6, <2>8 DEF Sound, Types
  <2>10. Stacked'
    <3>1. depth' = Cardinality(ActiveIn(stack'))
      BY <1>1, <2>7 DEF Sound, Stacked
    <3>2. defCtx' \in {NoCtx, Dangling} \cup DOMAIN stack'
      BY <1>2, <2>1, <2>6
    <3>3. (defCtx > NoCtx)' => stack'[defCtx'].defines /\ stack'[defCtx'].prog.type = "macro"
      BY <2>1, <2>4, <2>6
    <3>4. ArgsIn(args, stack)'
      BY <1>1, <2>7 DEF ArgsIn, ExpandingIn, ActiveIn
    <3> QED BY <3>1, <3>2, <3>3, <3>4 DEF Stacked, ActiveIn
  <2> QED BY <2>9, <2>10 DEF Sound
<1>4. CASE ~(Line.name \notin DOMAIN macros /\ Line.name # "none")
  <2>1. stack' = Moved /\ UNCHANGED <<macros, defCtx>>
        /\ Report(IF MacroError(Line.name) THEN Syntax ELSE None)
    BY <1>4 DEF MacroLine
  <2>2. level' \in {None, Syntax, Fatal}
    BY <2>1, Raised DEF Report, Sound, Types
  <2>3. ReadLine /\ UNCHANGED <<depth, args>> /\ section' \in Names \cup {"CODE"}
    BY DEF MacroLine, Sound, Types
  <2> QED BY <1>1, <2>1, <2>2, <2>3, MovedSound
<1> QED BY <1>3, <1>4

(* A step that breaks off changes nothing that Sound is about.               *)
LEMMA BreakSound ==
    ASSUME Sound, NEW how, Break(how), UNCHANGED <<text, pass, queue>>
    PROVE  Sound'
<1>1. UNCHANGED <<text, pass, queue, stack, macros, defining, defCtx, depth, args, section, level>>
  BY DEF Break
<1>2. Types'
  BY <1>1 DEF Sound, Types, Contexts
<1>3. Stacked'
  BY <1>1 DEF Sound, Stacked, ArgsIn, ExpandingIn, ActiveIn
<1> QED BY <1>2, <1>3 DEF Sound

LEMMA BodySound == ASSUME Sound, BodyLine PROVE Sound'
<1>1. Assembling /\ ~Ended /\ UNCHANGED <<text, pass, queue>>
  BY DEF BodyLine, ReadLine
<1>2. CASE defCtx = Dangling
  BY <1>1, <1>2, BreakSound DEF BodyLine
<1>3. CASE defCtx # Dangling
  <2>1. /\ defining' = LevelAfter
        /\ macros' = IF defCtx = NoCtx THEN macros
                     ELSE [macros EXCEPT ![stack[defCtx].prog.name].body = Append(@, Line)]
        /\ stack' = Moved
        /\ UNCHANGED <<defCtx, depth, args, section, level, status>>
    BY <1>3 DEF BodyLine
  <2>2. Line \in AllLines
    BY <1>1, LineIs DEF Sound
  <2>3. DOMAIN macros' = DOMAIN macros /\ macros' \in [DOMAIN macros' -> Macros]
    <3>1. CASE defCtx = NoCtx
      BY <2>1, <3>1 DEF Sound, Types
    <3>2. CASE defCtx # NoCtx
      <4>1. defCtx \in DOMAIN stack /\ defCtx > NoCtx /\ stack \in Seq(Contexts)
        BY <1>3, <3>2 DEF Sound, Stacked, Types, NoCtx
      <4>2. stack[defCtx].prog.name \in DOMAIN macros
        <5>1. stack[defCtx] \in Contexts /\ stack[defCtx].prog.type = "macro"
          BY <4>1 DEF Sound, Stacked
        <5>2. stack[defCtx].prog \in ProgsOf(DOMAIN text, DOMAIN macros)
          BY <5>1 DEF Contexts, ContextsOf
        <5> QED BY <5>1, <5>2 DEF ProgsOf
      <4>3. macros[stack[defCtx].prog.name] \in Macros
        BY <4>2 DEF Sound, Types
      <4>4. [macros[stack[defCtx].prog.name] EXCEPT !.body = Append(@, Line)] \in Macros
        <5>1. macros[stack[defCtx].prog.name].body \in Seq(AllLines)
          BY <4>3 DEF Macros
        <5>2. Append(macros[stack[defCtx].prog.name].body, Line) \in Seq(AllLines)
          BY <2>2, <5>1
        <5> QED BY <4>3, <5>2 DEF Macros
      <4> QED BY <2>1, <3>2, <4>2, <4>4 DEF Sound, Types
    <3> QED BY <3>1, <3>2
  <2>4. Contexts' = Contexts
    BY <1>1, <2>3 DEF Contexts
  <2>5. Moved \in Seq(Contexts) /\ Len(Moved) = Len(stack) /\ ActiveIn(Moved) = ActiveIn(stack)
        /\ ArgsIn(args, Moved) /\ stack \in Seq(Contexts)
        /\ (\A i \in 1 .. Len(stack) :
               Moved[i].defines = stack[i].defines /\ Moved[i].prog = stack[i].prog)
    BY <1>1, MovedIs DEF Sound, Types
  <2>6. defining' \in Nat
    BY <2>1 DEF LevelAfter, BodyLine, Opens, Closes, Sound, Types
  <2>7. Types'
    BY <1>1, <2>1, <2>3, <2>4, <2>5, <2>6 DEF Sound, Types
  <2>8. Stacked'
    <3>1. depth' = Cardinality(ActiveIn(stack'))
      BY <2>1, <2>5 DEF Sound, Stacked
    <3>2. defCtx' \in {NoCtx, Dangling} \cup DOMAIN stack' /\ DOMAIN stack' = DOMAIN stack
      BY <2>1, <2>5 DEF Sound, Stacked
    <3>3. (defCtx > NoCtx)' => stack'[defCtx'].defines /\ stack'[defCtx'].prog.type = "macro"
      BY <2>1, <2>5, <3>2 DEF Sound, Stacked, NoCtx, Dangling
    <3>4. ArgsIn(args, stack)'
      BY <2>1, <2>5 DEF ArgsIn, ExpandingIn, ActiveIn
    <3> QED BY <3>1, <3>2, <3>3, <3>4 DEF Stacked, ActiveIn
  <2> QED BY <2>7, <2>8 DEF Sound
<1> QED BY <1>2, <1>3

LEMMA EndmSound == ASSUME Sound, EndmLine PROVE Sound'
<1>1. Assembling /\ ReadLine /\ UNCHANGED <<text, pass, queue>>
  BY DEF EndmLine, ReadLine
<1>2. \/ /\ defining' = 0 /\ stack' = Moved /\ level' \in {level, Raise(level, Syntax)}
         /\ UNCHANGED <<macros, defCtx, depth, args, section, status>>
      \/ /\ defCtx > NoCtx /\ CanFree(defCtx)
         /\ defining' = 0
         /\ stack' = SubSeq(Moved, 1, defCtx - 1)
         /\ defCtx' = NoCtx
         /\ Report(IF Unfinished(defCtx) THEN Syntax ELSE None)
         /\ UNCHANGED <<macros, depth, args, section, status>>
      \/ \E how : Break(how)
  BY DEF EndmLine, Report
<1>3. CASE /\ defining' = 0 /\ stack' = Moved /\ level' \in {level, Raise(level, Syntax)}
           /\ UNCHANGED <<macros, defCtx, depth, args, section, status>>
  <2>1. level' \in {None, Syntax, Fatal}
    BY <1>3, Raised DEF Sound, Types
  <2>2. section' \in Names \cup {"CODE"} /\ defining' \in Nat
    BY <1>3 DEF Sound, Types
  <2> QED BY <1>1, <1>3, <2>1, <2>2, MovedSound
<1>4. CASE /\ defCtx > NoCtx /\ CanFree(defCtx)
           /\ defining' = 0
           /\ stack' = SubSeq(Moved, 1, defCtx - 1)
           /\ defCtx' = NoCtx
           /\ Report(IF Unfinished(defCtx) THEN Syntax ELSE None)
           /\ UNCHANGED <<macros, depth, args, section, status>>
  <2>1. Moved \in Seq(Contexts) /\ Len(Moved) = Len(stack) /\ ActiveIn(Moved) = ActiveIn(stack)
        /\ ArgsIn(args, Moved) /\ stack \in Seq(Contexts)
        /\ (\A i \in 1 .. Len(stack) :
               Moved[i].defines = stack[i].defines /\ Moved[i].prog = stack[i].prog)
    BY <1>1, MovedIs DEF Sound, Types
  <2>2. defCtx \in 1 .. Len(stack) /\ stack[defCtx].defines
    BY <1>4, <2>1 DEF Sound, Stacked, NoCtx, Dangling
  <2>3. \A i \in defCtx .. Len(stack) : stack[i].defines
    BY <1>4, <2>1, <2>2 DEF CanFree
  <2>4. defCtx - 1 \in 0 .. Len(Moved) /\ \A i \in (defCtx - 1) + 1 .. Len(Moved) : Moved[i].defines
    BY <2>1, <2>2, <2>3
  <2>5. ActiveIn(stack') = ActiveIn(stack) /\ ArgsIn(args, stack')
    BY <1>4, <2>1, <2>4, DefinersCut
  <2>6. stack' \in Seq(Contexts)
    BY <1>4, <2>1, <2>4
  <2>7. Contexts' = Contexts /\ level' \in {None, Syntax, Fatal}
    BY <1>1, <1>4, Raised DEF Contexts, Report, Sound, Types
  <2>8. Types'
    BY <1>1, <1>4, <2>6, <2>7 DEF Sound, Types
  <2>9. Stacked'
    <3>1. depth' = Cardinality(ActiveIn(stack'))
      BY <1>4, <2>5 DEF Sound, Stacked
    <3>2. ArgsIn(args, stack)'
      BY <1>4, <2>5 DEF ArgsIn, ExpandingIn, ActiveIn
    <3> QED BY <1>4, <3>1, <3>2 DEF Stacked, ActiveIn, NoCtx
  <2> QED BY <2>8, <2>9 DEF Sound
<1>5. CASE \E how : Break(how)
  BY <1>1, <1>5, BreakSound
<1> QED BY <1>2, <1>3, <1>4, <1>5

(* A program is begun on top of a stack like the one there was.              *)
LEMMA EnterSound ==
    ASSUME Sound, NEW p \in ProgsOf(DOMAIN text, DOMAIN macros), NEW under, Enter(p, under),
           under \in Seq(Contexts), Len(under) = Len(stack), ActiveIn(under) = ActiveIn(stack),
           ArgsIn(args, under),
           \A i \in 1 .. Len(stack) :
               under[i].defines = stack[i].defines /\ under[i].prog = stack[i].prog,
           queue' \in Seq(DOMAIN text),
           UNCHANGED <<text, pass, macros, defining, defCtx, section>>,
           args' = IF p.type = "macro" THEN ArgsOf(p.name) ELSE args
    PROVE  Sound'
<1>1. Contexts' = Contexts /\ Len(under) \in Nat /\ DOMAIN under = 1 .. Len(stack)
      /\ DOMAIN stack = 1 .. Len(stack)
  BY DEF Contexts, Sound, Types
<1>2. CASE depth >= MaxDepth
  <2>1. stack' = under /\ Report(Fatal) /\ depth' = depth /\ args' = args
    BY <1>2 DEF Enter, ArgsOf
  <2>2. level' \in {None, Syntax, Fatal}
    BY <2>1, Raised DEF Report, Sound, Types
  <2>3. Types'
    BY <1>1, <2>1, <2>2 DEF Sound, Types
  <2>4. Stacked'
    <3>1. depth' = Cardinality(ActiveIn(stack'))
      BY <2>1 DEF Sound, Stacked
    <3>2. defCtx' \in {NoCtx, Dangling} \cup DOMAIN stack'
      BY <1>1, <2>1 DEF Sound, Stacked
    <3>3. (defCtx > NoCtx)' => stack'[defCtx'].defines /\ stack'[defCtx'].prog.type = "macro"
      BY <1>1, <2>1 DEF Sound, Stacked, NoCtx, Dangling
    <3>4. ArgsIn(args, stack)'
      BY <2>1 DEF ArgsIn, ExpandingIn, ActiveIn
    <3> QED BY <3>1, <3>2, <3>3, <3>4 DEF Stacked, ActiveIn
  <2> QED BY <2>3, <2>4 DEF Sound
<1>3. CASE ~(depth >= MaxDepth)
  <2> DEFINE c == Context(p, FALSE)
  <2>1. stack' = Append(under, c) /\ depth' = depth + 1 /\ level' = level
        /\ args' = IF p.type = "macro" THEN Append(args, p.name) ELSE args
    BY <1>3 DEF Enter, ArgsOf
  <2>2. c \in Contexts /\ c.defines = FALSE /\ c.prog = p
    BY DEF Contexts, ContextsOf, Context, Sound, Types, NoConds, Conds
  <2> HIDE DEF c
  <2>3. stack' \in Seq(Contexts) /\ DOMAIN stack' = 1 .. Len(stack) + 1
        /\ \A i \in 1 .. Len(stack) : stack'[i] = under[i]
    BY <1>1, <2>1, <2>2
  <2>4. p.type = "macro" => p.name \in DOMAIN macros
    BY DEF ProgsOf
  <2>5. args' \in Seq(DOMAIN macros) /\ args \in Seq(DOMAIN macros)
    <3>1. args \in Seq(DOMAIN macros)
      BY DEF Sound, Types
    <3>2. p.type = "macro" => Append(args, p.name) \in Seq(DOMAIN macros)
      BY <2>4, <3>1
    <3> QED BY <2>1, <3>1, <3>2
  <2>6. Cardinality(ActiveIn(stack')) = Cardinality(ActiveIn(under)) + 1 /\ ArgsIn(args', stack')
    BY <2>1, <2>2, <2>4, <2>5, ProgPushed
  <2>7. Types'
    BY <1>1, <2>1, <2>3, <2>5 DEF Sound, Types
  <2>8. Stacked'
    <3>1. depth' = Cardinality(ActiveIn(stack'))
      BY <2>1, <2>6 DEF Sound, Stacked
    <3>2. defCtx' \in {NoCtx, Dangling} \cup DOMAIN stack'
      BY <1>1, <2>3 DEF Sound, Stacked
    <3>3. (defCtx > NoCtx)' => stack'[defCtx'].defines /\ stack'[defCtx'].prog.type = "macro"
      BY <1>1, <2>3 DEF Sound, Stacked, NoCtx, Dangling
    <3>4. ArgsIn(args, stack)'
      BY <2>6 DEF ArgsIn, ExpandingIn, ActiveIn
    <3> QED BY <3>1, <3>2, <3>3, <3>4 DEF Stacked, ActiveIn
  <2> QED BY <2>7, <2>8 DEF Sound
<1> QED BY <1>2, <1>3

LEMMA IncludeSound == ASSUME Sound, IncludeLine PROVE Sound'
<1>1. Assembling /\ ReadLine /\ UNCHANGED <<text, pass, queue, macros, defining, defCtx, args, section>>
  BY DEF IncludeLine, Assembled, ReadLine
<1>2. Moved \in Seq(Contexts) /\ Len(Moved) = Len(stack) /\ ActiveIn(Moved) = ActiveIn(stack)
      /\ ArgsIn(args, Moved)
      /\ (\A i \in 1 .. Len(stack) :
             Moved[i].defines = stack[i].defines /\ Moved[i].prog = stack[i].prog)
  BY <1>1, MovedIs DEF Sound
<1>3. CASE Line.name \in DOMAIN text
  <2> DEFINE p == [type |-> "file", name |-> Line.name]
  <2>1. Enter(p, Moved)
    BY <1>3 DEF IncludeLine
  <2>2. p \in ProgsOf(DOMAIN text, DOMAIN macros) /\ p.type # "macro"
    BY <1>3 DEF ProgsOf
  <2>3. queue' \in Seq(DOMAIN text) /\ args' = args
    BY <1>1 DEF Sound, Types
  <2> HIDE DEF p
  <2> QED BY <1>1, <1>2, <2>1, <2>2, <2>3, EnterSound
<1>4. CASE Line.name \notin DOMAIN text
  <2>1. stack' = Moved /\ Report(Fatal) /\ UNCHANGED depth
    BY <1>4 DEF IncludeLine
  <2>2. level' \in {None, Syntax, Fatal} /\ section' \in Names \cup {"CODE"} /\ defining' \in Nat
    BY <1>1, <2>1, Raised DEF Report, Sound, Types
  <2> QED BY <1>1, <2>1, <2>2, MovedSound
<1> QED BY <1>3, <1>4

LEMMA CallSound == ASSUME Sound, CallLine PROVE Sound'
<1>1. Assembling /\ ReadLine /\ UNCHANGED <<text, pass, queue, macros, defining, defCtx, section>>
  BY DEF CallLine, Assembled, ReadLine
<1>2. Moved \in Seq(Contexts) /\ Len(Moved) = Len(stack) /\ ActiveIn(Moved) = ActiveIn(stack)
      /\ ArgsIn(args, Moved)
      /\ (\A i \in 1 .. Len(stack) :
             Moved[i].defines = stack[i].defines /\ Moved[i].prog = stack[i].prog)
  BY <1>1, MovedIs DEF Sound
<1>3. CASE Line.name \in DOMAIN macros
  <2> DEFINE p == Named(Line.name)
  <2>1. Enter(p, Moved) /\ args' = ArgsOf(p.name) /\ p.type = "macro"
    BY <1>3 DEF CallLine, Named
  <2>2. p \in ProgsOf(DOMAIN text, DOMAIN macros)
    BY <1>3 DEF ProgsOf, Named
  <2>3. queue' \in Seq(DOMAIN text)
    BY <1>1 DEF Sound, Types
  <2> HIDE DEF p
  <2> QED BY <1>1, <1>2, <2>1, <2>2, <2>3, EnterSound
<1>4. CASE Line.name \notin DOMAIN macros
  <2>1. stack' = Moved /\ Report(Syntax) /\ UNCHANGED <<depth, args>>
    BY <1>4 DEF CallLine
  <2>2. level' \in {None, Syntax, Fatal} /\ section' \in Names \cup {"CODE"} /\ defining' \in Nat
    BY <1>1, <2>1, Raised DEF Report, Sound, Types
  <2> QED BY <1>1, <2>1, <2>2, MovedSound
<1> QED BY <1>3, <1>4

LEMMA BeginFileSound == ASSUME Sound, BeginFile PROVE Sound'
<1> DEFINE p == [type |-> "file", name |-> Head(queue)]
<1>1. Enter(p, stack) /\ queue # <<>> /\ queue' = Tail(queue)
      /\ UNCHANGED <<text, pass, macros, defining, defCtx, args, section, status, first>>
  BY DEF BeginFile
<1>2. queue \in Seq(DOMAIN text) /\ stack \in Seq(Contexts)
  BY DEF Sound, Types
<1>3. Head(queue) \in DOMAIN text /\ Tail(queue) \in Seq(DOMAIN text)
  BY <1>1, <1>2
<1>4. p \in ProgsOf(DOMAIN text, DOMAIN macros) /\ p.type # "macro"
  BY <1>3 DEF ProgsOf
<1>5. ArgsIn(args, stack)
  BY DEF Sound, Stacked
<1> HIDE DEF p
<1> QED BY <1>1, <1>2, <1>3, <1>4, <1>5, EnterSound

LEMMA EndProgSound == ASSUME Sound, EndProg PROVE Sound'
<1>1. Assembling /\ UNCHANGED <<text, pass, queue>>
  BY DEF EndProg
<1>2. CASE ~CanFree(Running)
  BY <1>1, <1>2, BreakSound DEF EndProg
<1>3. CASE CanFree(Running)
  <2>1. /\ stack' = SubSeq(stack, 1, Running - 1)
        /\ defCtx' = IF defCtx > Running THEN Dangling ELSE defCtx
        /\ depth' = depth - 1
        /\ Report(IF Depth(Ctx.cond) > 0 \/ Unfinished(Running) THEN Syntax ELSE None)
        /\ args' = IF Ctx.prog.type = "macro" THEN Front(args) ELSE args
        /\ section' = IF Ctx.prog.type = "file" /\ depth > 1 THEN Ctx.section ELSE section
        /\ UNCHANGED <<macros, defining, status>>
    BY <1>3 DEF EndProg
  <2>2. /\ Running \in 1 .. Len(stack) /\ Running \in ActiveIn(stack)
        /\ \A i \in ActiveIn(stack) : i <= Running
        /\ Ctx \in Contexts /\ Ctx = stack[Running] /\ stack \in Seq(Contexts)
    BY <1>1, LineIs DEF Sound, Ctx, Types
  <2>3. args \in Seq(DOMAIN macros) /\ ArgsIn(args, stack)
    BY DEF Sound, Types, Stacked
  <2>4. stack' \in Seq(Contexts) /\ DOMAIN stack' = 1 .. Running - 1
        /\ \A i \in 1 .. Running - 1 : stack'[i] = stack[i]
    BY <2>1, <2>2
  <2>5. ArgsIn(args', stack') /\ Cardinality(ActiveIn(stack')) = Cardinality(ActiveIn(stack)) - 1
    BY <2>1, <2>2, <2>3, ProgCut
  <2>6. args' \in Seq(DOMAIN macros)
    <3>1. CASE Ctx.prog.type = "macro"
      <4>1. Len(args) # 0
        <5>1. Running \in ExpandingIn(stack)
          BY <2>2, <3>1 DEF ExpandingIn
        <5>2. Cardinality(ExpandingIn(stack)) # 0
          BY <2>2, <5>1, FiniteStack, FS_EmptySet
        <5> QED BY <2>3, <5>2 DEF ArgsIn
      <4>2. Front(args) \in Seq(DOMAIN macros)
        BY <2>3, <4>1 DEF Front
      <4> QED BY <2>1, <3>1, <4>2
    <3>2. CASE Ctx.prog.type # "macro"
      BY <2>1, <2>3, <3>2
    <3> QED BY <3>1, <3>2
  <2>7. Contexts' = Contexts /\ level' \in {None, Syntax, Fatal}
    BY <1>1, <2>1, Raised DEF Contexts, Report, Sound, Types
  <2>8. section' \in Names \cup {"CODE"}
    BY <2>1, <2>2 DEF Contexts, ContextsOf, Sound, Types
  <2>9. depth' \in Nat
    BY <1>1, <2>1 DEF Assembling, Sound, Types
  <2>10. Types'
    BY <1>1, <2>1, <2>4, <2>6, <2>7, <2>8, <2>9 DEF Sound, Types
  <2>11. Stacked'
    <3>1. depth' = Cardinality(ActiveIn(stack'))
      BY <2>1, <2>5 DEF Sound, Stacked
    <3>2. defCtx \in {NoCtx, Dangling} \cup 1 .. Len(stack) /\ defCtx # Running
      BY <2>2 DEF Sound, Stacked, ActiveIn, NoCtx, Dangling
    <3>3. defCtx' \in {NoCtx, Dangling} \cup DOMAIN stack'
      BY <2>1, <2>2, <2>4, <3>2 DEF NoCtx, Dangling
    <3>4. (defCtx > NoCtx)' => stack'[defCtx'].defines /\ stack'[defCtx'].prog.type = "macro"
      BY <2>1, <2>2, <2>4, <3>2 DEF Sound, Stacked, NoCtx, Dangling
    <3>5. ArgsIn(args, stack)'
      BY <2>5 DEF ArgsIn, ExpandingIn, ActiveIn
    <3> QED BY <3>1, <3>3, <3>4, <3>5 DEF Stacked, ActiveIn
  <2> QED BY <2>10, <2>11 DEF Sound
<1> QED BY <1>2, <1>3

LEMMA NextPassSound == ASSUME Sound, NextPass PROVE Sound'
<1>1. queue' = Sources /\ pass' = pass + 1 /\ level' = None /\ section' = "CODE"
      /\ UNCHANGED <<text, stack, macros, defining, defCtx, depth, args, status>>
  BY DEF NextPass, PassAfter, FirstSection
<1>2. Sources \in Seq(DOMAIN text)
  BY ProgramsConstants DEF Sound, Types
<1>3. Types'
  BY <1>1, <1>2 DEF Sound, Types, Contexts
<1>4. Stacked'
  BY <1>1 DEF Sound, Stacked, ArgsIn, ExpandingIn, ActiveIn
<1> QED BY <1>3, <1>4 DEF Sound

LEMMA StillSound ==
    ASSUME Sound, UNCHANGED <<text, pass, queue, stack, macros, defining, defCtx, depth, args,
                              section, level>>
    PROVE  Sound'
<1>1. Types'
  BY DEF Sound, Types, Contexts
<1>2. Stacked'
  BY DEF Sound, Stacked, ArgsIn, ExpandingIn, ActiveIn
<1> QED BY <1>1, <1>2 DEF Sound

LEMMA NextSound == ASSUME Sound, [Next]_vars PROVE Sound'
<1>1. CASE LastPass \/ UNCHANGED vars
  BY <1>1, StillSound DEF LastPass, vars
<1> QED BY <1>1, OtherSound, MacroSound, BodySound, EndmSound, StrayEndmSound, CondSound,
           SectionSound, IncludeSound, CallSound, EndProgSound, BeginFileSound, NextPassSound
        DEF Next

(* Positional variables are those of the innermost macro being expanded,     *)
(* whatever programs contain: interp_push() and interp_pop() match, also     *)
(* where the limit of depth or an unfinished definition intervenes.          *)
THEOREM ArgumentsAreTheirs == Spec => []ArgumentsMatch
<1>1. Init => Sound
  BY InitSound
<1>2. Sound /\ [Next]_vars => Sound'
  BY NextSound
<1>3. Sound => ArgumentsMatch
  BY DEF Sound, Stacked, ArgsIn, ArgumentsMatch, Expanding, ExpandingIn, Active, ActiveIn
<1> QED BY <1>1, <1>2, <1>3, PTL DEF Spec

-----------------------------------------------------------------------------
(* While a pass is free of errors the stack holds the contexts of the        *)
(* programs under way and, on top, that of the macro being defined, which is *)
(* not one of them; the first pass has a context for each definition.        *)
Nest ==
    /\ status \notin {"aborted", "undefined"}
    /\ \A i \in DOMAIN stack : stack[i].defines <=> i = defCtx
    /\ defCtx # NoCtx =>
           /\ defCtx = Len(stack) /\ defining > 0 /\ depth > 0
           /\ \A i \in DOMAIN stack : i # defCtx => stack[i].prog # stack[defCtx].prog
    /\ pass = 0 =>
           /\ \A m \in DOMAIN macros : macros[m].pass = 0
           /\ defining > 0 => defCtx # NoCtx

Clean == level < Syntax => Nest

LEMMA Clear ==
    ASSUME Types, NEW e \in {None, Syntax, Fatal}, Report(e), level' < Syntax
    PROVE  level = None /\ e = None /\ level' = None /\ level < Syntax
BY Raised DEF Types, Report, None, Syntax, Fatal, Raise, Inconsistent, OutOfRange

LEMMA Heights ==
    ASSUME Sound, Nest
    PROVE  /\ stack \in Seq(Contexts) /\ Len(stack) \in Nat /\ depth \in Nat
           /\ defCtx = NoCtx \/ defCtx = depth + 1
           /\ Len(stack) = IF defCtx = NoCtx THEN depth ELSE depth + 1
           /\ ActiveIn(stack) = 1 .. depth
           /\ depth # 0 => Running = depth
           /\ depth = 0 => defCtx = NoCtx /\ stack = <<>>
<1> DEFINE n == IF defCtx = NoCtx THEN Len(stack) ELSE Len(stack) - 1
<1>1. stack \in Seq(Contexts) /\ Len(stack) \in Nat /\ depth \in Nat /\ DOMAIN stack = 1 .. Len(stack)
      /\ depth = Cardinality(ActiveIn(stack))
      /\ defCtx \in {NoCtx, Dangling} \cup DOMAIN stack
      /\ (\A i \in 1 .. Len(stack) : stack[i] \in Contexts)
  BY DEF Sound, Types, Stacked
<1>2. defCtx # NoCtx => defCtx = Len(stack) /\ defCtx \in 1 .. Len(stack)
  BY <1>1 DEF Nest, NoCtx, Dangling
<1>3. n \in Nat /\ n <= Len(stack)
  BY <1>1, <1>2
<1>4. ActiveIn(stack) = 1 .. n
  <2>1. \A i \in 1 .. Len(stack) : ~stack[i].defines <=> i # defCtx
    BY <1>1 DEF Nest
  <2>2. \A i \in 1 .. Len(stack) : i # defCtx <=> i \in 1 .. n
    <3>1. CASE defCtx = NoCtx
      BY <1>1, <3>1 DEF NoCtx
    <3>2. CASE defCtx # NoCtx
      BY <1>1, <1>2, <3>2
    <3> QED BY <3>1, <3>2
  <2> QED BY <1>1, <1>3, <2>1, <2>2 DEF ActiveIn
<1>5. depth = n
  <2> HIDE DEF n
  <2>1. n \in Int /\ 1 \in Int
    BY <1>3
  <2>2. Cardinality(1 .. n) = IF 1 > n THEN 0 ELSE n - 1 + 1
    BY <2>1, FS_Interval
  <2> QED BY <1>1, <1>3, <1>4, <2>2
<1>6. depth # 0 => Running = depth
  BY <1>1, <1>4, <1>5, RunningIs
<1>7. depth = 0 => defCtx = NoCtx
  BY <1>1 DEF Nest
<1>8. depth = 0 => stack = <<>>
  <2>1. ASSUME depth = 0 PROVE Len(stack) = 0
    BY <1>5, <1>7, <2>1
  <2> QED BY <1>1, <2>1
<1> QED BY <1>1, <1>2, <1>4, <1>5, <1>6, <1>7, <1>8

(* Lines that only move on keep the contexts nested.                         *)
LEMMA MovedClean ==
    ASSUME Sound, Nest, ReadLine, stack' = Moved,
           UNCHANGED <<depth, pass, defCtx, status>>,
           defCtx # NoCtx => defining' > 0,
           pass = 0 /\ defining' > 0 => defCtx # NoCtx,
           pass = 0 => \A m \in DOMAIN macros' : macros'[m].pass = 0
    PROVE  Nest'
<1>1. Moved \in Seq(Contexts) /\ Len(Moved) = Len(stack)
      /\ (\A i \in 1 .. Len(stack) :
             Moved[i].defines = stack[i].defines /\ Moved[i].prog = stack[i].prog)
  BY MovedIs DEF Sound, ReadLine
<1>2. DOMAIN Moved = 1 .. Len(stack) /\ DOMAIN stack = 1 .. Len(stack) /\ Len(stack) \in Nat
  BY <1>1 DEF Sound, Types
<1>3. \A i \in DOMAIN stack' : stack'[i].defines <=> i = defCtx'
  BY <1>1, <1>2 DEF Nest
<1>4. ASSUME defCtx' # NoCtx
      PROVE  /\ defCtx' = Len(stack') /\ defining' > 0 /\ depth' > 0
             /\ \A i \in DOMAIN stack' : i # defCtx' => stack'[i].prog # stack'[defCtx'].prog
  <2>1. defCtx \in 1 .. Len(stack)
    BY <1>2, <1>4 DEF Nest, Sound, Stacked, NoCtx, Dangling
  <2> QED BY <1>1, <1>2, <1>4, <2>1 DEF Nest
<1> QED BY <1>3, <1>4 DEF Nest

LEMMA OtherClean == ASSUME Sound, Clean, OtherLine PROVE Clean'
BY MovedClean DEF OtherLine, ReadLine, Clean, Nest

LEMMA SectionClean == ASSUME Sound, Clean, SectionLine PROVE Clean'
BY MovedClean DEF SectionLine, Assembled, ReadLine, Clean, Nest

LEMMA StrayEndmClean == ASSUME Sound, Clean, StrayEndm PROVE Clean'
<1>1. Syntax \in {None, Syntax, Fatal} /\ Syntax # None
  BY DEF None, Syntax
<1>2. ~(level' < Syntax)
  BY <1>1, Clear DEF StrayEndm, Sound
<1> QED BY <1>2 DEF Clean, Syntax

LEMMA CondClean == ASSUME Sound, Clean, CondLine PROVE Clean'
<1> SUFFICES ASSUME level' < Syntax PROVE Nest'
  BY DEF Clean, Syntax
<1>1. Assembling /\ ReadLine
      /\ UNCHANGED <<text, pass, macros, defining, defCtx, depth, args, section, status>>
  BY DEF CondLine, ReadLine
<1>2. Nest
  <2>1. (IF CondError(Ctx.cond) THEN Syntax ELSE None) \in {None, Syntax, Fatal}
    OBVIOUS
  <2> QED BY <2>1, Clear DEF CondLine, Sound, Clean
<1>3. Moved \in Seq(Contexts) /\ Len(Moved) = Len(stack) /\ Running \in 1 .. Len(stack)
      /\ (\A i \in 1 .. Len(stack) :
             Moved[i].defines = stack[i].defines /\ Moved[i].prog = stack[i].prog)
      /\ stack \in Seq(Contexts)
  BY <1>1, MovedIs, LineIs DEF Sound, Types
<1>4. stack' = [Moved EXCEPT ![Running] = [Moved[Running] EXCEPT !.cond = AfterCond(Ctx.cond)]]
  BY DEF CondLine
<1>5. DOMAIN stack' = 1 .. Len(stack) /\ DOMAIN stack = 1 .. Len(stack) /\ Len(stack') = Len(stack)
      /\ Len(stack) \in Nat
  BY <1>3, <1>4
<1>6. \A i \in 1 .. Len(stack) : stack'[i].defines = stack[i].defines /\ stack'[i].prog = stack[i].prog
  <2>1. \A i \in 1 .. Len(stack) : Moved[i] \in Contexts
    BY <1>3
  <2>2. \A i \in 1 .. Len(stack) : stack'[i].defines = Moved[i].defines /\ stack'[i].prog = Moved[i].prog
    BY <1>3, <1>4, <2>1 DEF Contexts, ContextsOf
  <2> QED BY <1>3, <2>2
<1>7. \A i \in DOMAIN stack' : stack'[i].defines <=> i = defCtx'
  BY <1>1, <1>2, <1>5, <1>6 DEF Nest
<1>8. defCtx = NoCtx
  BY <1>2 DEF Nest, CondLine, NoCtx
<1> QED BY <1>1, <1>2, <1>7, <1>8 DEF Nest

LEMMA MacroClean == ASSUME Sound, Clean, MacroLine PROVE Clean'
<1> SUFFICES ASSUME level' < Syntax PROVE Nest'
  BY DEF Clean, Syntax
<1>1. Assembling /\ ReadLine /\ UNCHANGED <<text, pass, depth, status>> /\ defining' = 1 /\ defining = 0
  BY DEF MacroLine, ReadLine
<1>2. Moved \in Seq(Contexts) /\ Len(Moved) = Len(stack) /\ Running \in 1 .. Len(stack)
      /\ (\A i \in 1 .. Len(stack) :
             Moved[i].defines = stack[i].defines /\ Moved[i].prog = stack[i].prog)
      /\ stack \in Seq(Contexts)
  BY <1>1, MovedIs, LineIs DEF Sound, Types
<1>3. CASE Line.name \notin DOMAIN macros /\ Line.name # "none"
  <2> DEFINE m == Line.name
             c == Context(Named(m), TRUE)
  <2>1. macros' = WithMacro(m) /\ stack' = Append(Moved, c) /\ defCtx' = Len(stack) + 1
        /\ level' = level
    BY <1>3 DEF MacroLine
  <2>2. Nest
    BY <2>1 DEF Clean
  <2>3. defCtx = NoCtx
    BY <1>1, <2>2 DEF Nest, NoCtx
  <2>4. c.defines = TRUE /\ c.prog = Named(m)
    BY DEF Context
  <2>5. \A i \in 1 .. Len(stack) : stack[i].prog # Named(m)
    <3>1. \A i \in 1 .. Len(stack) : stack[i].prog \in ProgsOf(DOMAIN text, DOMAIN macros)
      <4>1. \A i \in 1 .. Len(stack) : stack[i] \in Contexts
        BY <1>2
      <4> QED BY <4>1 DEF Contexts, ContextsOf
    <3>2. Named(m) \notin ProgsOf(DOMAIN text, DOMAIN macros)
      BY <1>3 DEF Named, ProgsOf
    <3> QED BY <3>1, <3>2
  <2>6. pass = 0 => \A n \in DOMAIN macros' : macros'[n].pass = 0
    BY <2>1, <2>2 DEF Nest, WithMacro
  <2> HIDE DEF c, m
  <2>7. DOMAIN stack' = 1 .. Len(stack) + 1 /\ stack'[Len(stack) + 1] = c /\ Len(stack) \in Nat
        /\ Len(stack') = Len(stack) + 1 /\ DOMAIN stack = 1 .. Len(stack)
        /\ \A i \in 1 .. Len(stack) : stack'[i] = Moved[i]
    BY <1>2, <2>1
  <2>8. depth > 0
    BY <1>1 DEF Assembling
  <2>9. \A i \in DOMAIN stack' : stack'[i].defines <=> i = defCtx'
    <3>1. \A i \in 1 .. Len(stack) : ~stack'[i].defines /\ i # defCtx'
      <4>1. \A i \in 1 .. Len(stack) : ~stack[i].defines
        BY <2>2, <2>3, <2>7 DEF Nest, NoCtx
      <4>2. \A i \in 1 .. Len(stack) : ~stack'[i].defines
        BY <1>2, <2>7, <4>1
      <4> QED BY <2>1, <2>7, <4>2
    <3> QED BY <2>1, <2>4, <2>7, <3>1
  <2>10. \A i \in DOMAIN stack' : i # defCtx' => stack'[i].prog # stack'[defCtx'].prog
    BY <1>2, <2>1, <2>4, <2>5, <2>7
  <2> QED BY <1>1, <2>1, <2>2, <2>6, <2>7, <2>8, <2>9, <2>10 DEF Nest, NoCtx
<1>4. CASE ~(Line.name \notin DOMAIN macros /\ Line.name # "none")
  <2>1. stack' = Moved /\ UNCHANGED <<macros, defCtx>>
        /\ Report(IF MacroError(Line.name) THEN Syntax ELSE None)
    BY <1>4 DEF MacroLine
  <2>2. Nest /\ ~MacroError(Line.name)
    <3>1. (IF MacroError(Line.name) THEN Syntax ELSE None) \in {None, Syntax, Fatal} /\ Syntax # None
      BY DEF None, Syntax
    <3> QED BY <2>1, <3>1, Clear DEF Sound, Clean
  <2>3. Line.name \in DOMAIN macros /\ macros[Line.name].pass # pass
    BY <1>4, <2>2 DEF MacroError
  <2>4. pass # 0
    BY <2>2, <2>3 DEF Nest
  <2>5. defCtx # NoCtx => defining' > 0
    BY <1>1
  <2> QED BY <1>1, <2>1, <2>2, <2>4, <2>5, MovedClean
<1> QED BY <1>3, <1>4

LEMMA BodyClean == ASSUME Sound, Clean, BodyLine PROVE Clean'
<1> SUFFICES ASSUME level' < Syntax PROVE Nest'
  BY DEF Clean, Syntax
<1>1. ReadLine /\ Assembling /\ UNCHANGED <<text, pass>> /\ defining > 0 /\ defining \in Nat
  BY DEF BodyLine, ReadLine, Sound, Types
<1>2. level' = level
  BY DEF BodyLine, Break
<1>3. Nest
  BY <1>2 DEF Clean
<1>4. defCtx # Dangling
  BY <1>3, Heights DEF NoCtx, Dangling
<1>5. /\ defining' = LevelAfter
      /\ macros' = IF defCtx = NoCtx THEN macros
                   ELSE [macros EXCEPT ![stack[defCtx].prog.name].body = Append(@, Line)]
      /\ stack' = Moved
      /\ UNCHANGED <<defCtx, depth, args, section, level, status>>
  BY <1>4 DEF BodyLine
<1>6. defining' > 0
  BY <1>1, <1>5 DEF LevelAfter, BodyLine
<1>7. pass = 0 => \A m \in DOMAIN macros' : macros'[m].pass = 0
  <2>1. \A m \in DOMAIN macros' : m \in DOMAIN macros /\ macros'[m].pass = macros[m].pass
    <3>1. CASE defCtx = NoCtx
      BY <1>5, <3>1
    <3>2. CASE defCtx # NoCtx
      <4>1. macros \in [DOMAIN macros -> Macros]
        BY DEF Sound, Types
      <4>2. \A m \in DOMAIN macros : macros[m] \in Macros
        BY <4>1
      <4> QED BY <1>5, <3>2, <4>2 DEF Macros
    <3> QED BY <3>1, <3>2
  <2> QED BY <1>3, <2>1 DEF Nest
<1>8. pass = 0 => defCtx # NoCtx
  BY <1>1, <1>3 DEF Nest
<1> QED BY <1>1, <1>3, <1>5, <1>6, <1>7, <1>8, MovedClean

LEMMA EndmClean == ASSUME Sound, Clean, EndmLine PROVE Clean'
<1> SUFFICES ASSUME level' < Syntax PROVE Nest'
  BY DEF Clean, Syntax
<1>1. ReadLine /\ Assembling /\ UNCHANGED <<text, pass>> /\ defining = 1 /\ Closes
  BY DEF EndmLine, ReadLine
<1>2. Line.op = "endm" \/ Line.op = "badendm"
  BY <1>1 DEF Closes
<1>3. CASE Line.op = "badendm"
  <2>1. Report(Syntax)
    BY <1>3 DEF EndmLine
  <2>2. Syntax \in {None, Syntax, Fatal} /\ Syntax # None
    BY DEF None, Syntax
  <2> QED BY <2>1, <2>2, Clear DEF Sound
<1>4. CASE Line.op = "endm" /\ defCtx = NoCtx
  <2>1. /\ defining' = 0
        /\ stack' = Moved
        /\ UNCHANGED <<macros, defCtx, depth, args, section, level, status>>
    BY <1>4 DEF EndmLine, NoCtx
  <2>2. Nest
    BY <2>1 DEF Clean
  <2>3. pass # 0
    BY <1>1, <1>4, <2>2 DEF Nest
  <2> QED BY <1>1, <1>4, <2>1, <2>2, <2>3, MovedClean
<1>5. CASE Line.op = "endm" /\ defCtx > NoCtx /\ CanFree(defCtx)
  <2>1. /\ defining' = 0
        /\ stack' = SubSeq(Moved, 1, defCtx - 1)
        /\ defCtx' = NoCtx
        /\ Report(IF Unfinished(defCtx) THEN Syntax ELSE None)
        /\ UNCHANGED <<macros, depth, args, section, status>>
    BY <1>5 DEF EndmLine, NoCtx
  <2>2. Nest
    <3>1. (IF Unfinished(defCtx) THEN Syntax ELSE None) \in {None, Syntax, Fatal}
      OBVIOUS
    <3> QED BY <2>1, <3>1, Clear DEF Sound, Clean
  <2>3. defCtx = Len(stack) /\ Len(stack) \in Nat /\ DOMAIN stack = 1 .. Len(stack)
    BY <1>5, <2>2, Heights DEF Nest, NoCtx
  <2>4. Moved \in Seq(Contexts) /\ Len(Moved) = Len(stack)
        /\ (\A i \in 1 .. Len(stack) :
               Moved[i].defines = stack[i].defines /\ Moved[i].prog = stack[i].prog)
    BY <1>1, MovedIs DEF Sound
  <2>5. DOMAIN stack' = 1 .. Len(stack) - 1 /\ \A i \in 1 .. Len(stack) - 1 : stack'[i] = Moved[i]
    BY <1>5, <2>1, <2>3, <2>4 DEF NoCtx
  <2>6. \A i \in DOMAIN stack' : stack'[i].defines <=> i = defCtx'
    <3>1. \A i \in 1 .. Len(stack) - 1 : i \in 1 .. Len(stack) /\ ~stack[i].defines
      BY <2>2, <2>3 DEF Nest
    <3>2. \A i \in 1 .. Len(stack) - 1 : ~stack'[i].defines /\ i # 0
      BY <2>4, <2>5, <3>1
    <3> QED BY <2>1, <2>5, <3>2 DEF NoCtx
  <2>7. pass' = 0 => \A m \in DOMAIN macros' : macros'[m].pass = 0
    BY <1>1, <2>1, <2>2 DEF Nest
  <2>8. status' \notin {"aborted", "undefined"} /\ ~(defining' > 0)
    BY <2>1, <2>2 DEF Nest
  <2> QED BY <2>1, <2>6, <2>7, <2>8 DEF Nest
<1>6. CASE Line.op = "endm" /\ ~(defCtx = NoCtx) /\ ~(defCtx > NoCtx /\ CanFree(defCtx))
  <2>1. Break(IF defCtx = Dangling THEN "undefined" ELSE BadFree(defCtx))
    BY <1>6 DEF EndmLine
  <2>2. Nest
    BY <2>1 DEF Break, Clean
  <2>3. defCtx = Len(stack) /\ defCtx > NoCtx
    BY <1>6, <2>2, Heights DEF Nest, NoCtx
  <2> QED BY <1>6, <2>3 DEF CanFree
<1> QED BY <1>2, <1>3, <1>4, <1>5, <1>6

LEMMA EnterClean ==
    ASSUME Sound, Clean, NEW p \in ProgsOf(DOMAIN text, DOMAIN macros), NEW under \in Seq(Contexts),
           Len(under) = Len(stack), \A i \in 1 .. Len(stack) : under[i].defines = stack[i].defines,
           defining = 0 \/ depth = 0, Enter(p, under), pass' = pass,
           UNCHANGED <<macros, defining, defCtx, status>>, level' < Syntax
    PROVE  /\ Nest' /\ level' = level /\ defCtx = NoCtx
           /\ stack' = Append(under, Context(p, FALSE)) /\ depth' = depth + 1
<1>1. ~(depth >= MaxDepth)
  <2>1. Fatal \in {None, Syntax, Fatal} /\ Fatal # None
    BY DEF None, Fatal
  <2> QED BY <2>1, Clear DEF Enter, Sound
<1>2. stack' = Append(under, Context(p, FALSE)) /\ depth' = depth + 1 /\ level' = level
  BY <1>1 DEF Enter
<1>3. Nest
  BY <1>2 DEF Clean
<1>4. defCtx = NoCtx
  BY <1>3 DEF Nest, NoCtx
<1>5. stack \in Seq(Contexts) /\ Len(stack) \in Nat /\ DOMAIN stack = 1 .. Len(stack)
  BY DEF Sound, Types
<1>6. DOMAIN stack' = 1 .. Len(stack) + 1 /\ stack'[Len(stack) + 1] = Context(p, FALSE)
      /\ \A i \in 1 .. Len(stack) : stack'[i] = under[i]
  <2>1. \A c : DOMAIN Append(under, c) = 1 .. Len(under) + 1
                /\ Append(under, c)[Len(under) + 1] = c
                /\ \A i \in 1 .. Len(under) : Append(under, c)[i] = under[i]
    OBVIOUS
  <2> QED BY <1>2, <2>1
<1>7. \A i \in DOMAIN stack' : ~stack'[i].defines /\ i # 0
  <2>1. \A i \in 1 .. Len(stack) : ~stack[i].defines /\ i # 0
    BY <1>3, <1>4, <1>5 DEF Nest, NoCtx
  <2>2. Context(p, FALSE).defines = FALSE
    BY DEF Context
  <2>3. \A i \in 1 .. Len(stack) : ~stack'[i].defines
    BY <1>6, <2>1
  <2>4. ~stack'[Len(stack) + 1].defines
    BY <1>6, <2>2
  <2>5. ASSUME NEW i \in 1 .. Len(stack) + 1 PROVE ~stack'[i].defines
    <3>1. i \in 1 .. Len(stack) \/ i = Len(stack) + 1
      BY <1>5
    <3> QED BY <2>3, <2>4, <3>1
  <2>6. \A i \in 1 .. Len(stack) + 1 : i # 0
    BY <1>5
  <2> QED BY <1>6, <2>5, <2>6
<1> QED BY <1>2, <1>3, <1>4, <1>7 DEF Nest, NoCtx

LEMMA IncludeClean == ASSUME Sound, Clean, IncludeLine PROVE Clean'
<1> SUFFICES ASSUME level' < Syntax PROVE Nest'
  BY DEF Clean, Syntax
<1>1. Assembling /\ defining = 0 /\ pass' = pass /\ UNCHANGED <<macros, defining, defCtx, status>>
  BY DEF IncludeLine, Assembled, ReadLine
<1>2. Moved \in Seq(Contexts) /\ Len(Moved) = Len(stack)
      /\ (\A i \in 1 .. Len(stack) :
             Moved[i].defines = stack[i].defines /\ Moved[i].prog = stack[i].prog)
  BY <1>1, MovedIs DEF Sound
<1>3. Line.name \in DOMAIN text
  <2>1. Fatal \in {None, Syntax, Fatal} /\ Fatal # None
    BY DEF None, Fatal
  <2> QED BY <2>1, Clear DEF IncludeLine, Sound
<1>4. Enter([type |-> "file", name |-> Line.name], Moved)
  BY <1>3 DEF IncludeLine
<1>5. [type |-> "file", name |-> Line.name] \in ProgsOf(DOMAIN text, DOMAIN macros)
  BY <1>3 DEF ProgsOf
<1> QED BY <1>1, <1>2, <1>4, <1>5, EnterClean

LEMMA CallClean == ASSUME Sound, Clean, CallLine PROVE Clean'
<1> SUFFICES ASSUME level' < Syntax PROVE Nest'
  BY DEF Clean, Syntax
<1>1. Assembling /\ defining = 0 /\ pass' = pass /\ UNCHANGED <<macros, defining, defCtx, status>>
  BY DEF CallLine, Assembled, ReadLine
<1>2. Moved \in Seq(Contexts) /\ Len(Moved) = Len(stack)
      /\ (\A i \in 1 .. Len(stack) :
             Moved[i].defines = stack[i].defines /\ Moved[i].prog = stack[i].prog)
  BY <1>1, MovedIs DEF Sound
<1>3. Line.name \in DOMAIN macros
  <2>1. Syntax \in {None, Syntax, Fatal} /\ Syntax # None
    BY DEF None, Syntax
  <2> QED BY <2>1, Clear DEF CallLine, Sound
<1>4. Enter(Named(Line.name), Moved)
  BY <1>3 DEF CallLine
<1>5. Named(Line.name) \in ProgsOf(DOMAIN text, DOMAIN macros)
  BY <1>3 DEF ProgsOf, Named
<1> QED BY <1>1, <1>2, <1>4, <1>5, EnterClean

LEMMA BeginFileClean == ASSUME Sound, Clean, BeginFile PROVE Clean'
<1> SUFFICES ASSUME level' < Syntax PROVE Nest'
  BY DEF Clean, Syntax
<1>1. depth = 0 /\ queue # <<>> /\ pass' = pass /\ UNCHANGED <<macros, defining, defCtx, status>>
      /\ Enter([type |-> "file", name |-> Head(queue)], stack)
  BY DEF BeginFile
<1>2. queue \in Seq(DOMAIN text) /\ stack \in Seq(Contexts)
  BY DEF Sound, Types
<1>3. Head(queue) \in DOMAIN text
  BY <1>1, <1>2
<1>4. [type |-> "file", name |-> Head(queue)] \in ProgsOf(DOMAIN text, DOMAIN macros)
  BY <1>3 DEF ProgsOf
<1> QED BY <1>1, <1>2, <1>4, EnterClean

(* A program that ends without an error leaves nothing on top of it.         *)
LEMMA Ends ==
    ASSUME Sound, Clean, EndProg, level' < Syntax
    PROVE  /\ Nest /\ Nest' /\ level = None /\ level' = None
           /\ defCtx = NoCtx /\ defCtx' = NoCtx /\ Depth(Ctx.cond) = 0
           /\ Running = depth /\ depth # 0
           /\ stack' = SubSeq(stack, 1, depth - 1) /\ depth' = depth - 1
           /\ section' = IF Ctx.prog.type = "file" /\ depth > 1 THEN Ctx.section ELSE section
           /\ UNCHANGED <<text, pass, queue, macros, defining, status>>
<1>1. Assembling /\ depth # 0 /\ UNCHANGED <<text, pass, queue>>
  BY DEF EndProg, Assembling
<1>2. /\ Running \in 1 .. Len(stack) /\ Running \in ActiveIn(stack)
      /\ Ctx \in Contexts /\ Ctx = stack[Running] /\ stack \in Seq(Contexts)
      /\ DOMAIN stack = 1 .. Len(stack) /\ Len(stack) \in Nat
  BY <1>1, LineIs DEF Sound, Ctx, Types
<1>3. CanFree(Running)
  <2> SUFFICES ASSUME ~CanFree(Running) PROVE FALSE
    OBVIOUS
  <2>1. level' = level
    BY DEF EndProg, Break
  <2>2. Nest
    BY <2>1 DEF Clean
  <2>3. Running = depth /\ Len(stack) = IF defCtx = NoCtx THEN depth ELSE depth + 1
    BY <1>1, <2>2, Heights
  <2>4. defCtx # NoCtx => stack[Len(stack)].defines
    BY <1>2, <2>2 DEF Nest
  <2> QED BY <1>2, <2>3, <2>4 DEF CanFree
<1>4. /\ stack' = SubSeq(stack, 1, Running - 1)
      /\ defCtx' = IF defCtx > Running THEN Dangling ELSE defCtx
      /\ depth' = depth - 1
      /\ Report(IF Depth(Ctx.cond) > 0 \/ Unfinished(Running) THEN Syntax ELSE None)
      /\ section' = IF Ctx.prog.type = "file" /\ depth > 1 THEN Ctx.section ELSE section
      /\ UNCHANGED <<macros, defining, status>>
  BY <1>3 DEF EndProg
<1>5. level = None /\ level' = None /\ ~(Depth(Ctx.cond) > 0 \/ Unfinished(Running)) /\ Nest
  <2>1. (IF Depth(Ctx.cond) > 0 \/ Unfinished(Running) THEN Syntax ELSE None) \in {None, Syntax, Fatal}
        /\ Syntax # None
    BY DEF None, Syntax
  <2> QED BY <1>4, <2>1, Clear DEF Sound, Clean
<1>6. Running = depth /\ Len(stack) = (IF defCtx = NoCtx THEN depth ELSE depth + 1) /\ depth \in Nat
      /\ (defCtx = NoCtx \/ defCtx = depth + 1)
  BY <1>1, <1>5, Heights
<1>7. defCtx = NoCtx
  BY <1>5, <1>6 DEF Unfinished
<1>8. defCtx' = NoCtx
  BY <1>1, <1>4, <1>6, <1>7 DEF NoCtx
<1>9. Depth(Ctx.cond) = 0
  <2>1. Ctx.cond.list \in Seq(CondStates)
    BY <1>2 DEF Contexts, ContextsOf, Conds
  <2> QED BY <1>5, <2>1 DEF Depth
<1>10. Nest'
  <2>1. DOMAIN stack' = 1 .. depth - 1 /\ \A i \in 1 .. depth - 1 : stack'[i] = stack[i]
    BY <1>1, <1>2, <1>4, <1>6
  <2>2. \A i \in 1 .. depth - 1 : i \in DOMAIN stack /\ i # 0
    BY <1>2, <1>6, <1>7
  <2>3. \A i \in DOMAIN stack' : stack'[i].defines <=> i = defCtx'
    BY <1>5, <1>7, <1>8, <2>1, <2>2 DEF Nest, NoCtx
  <2> QED BY <1>1, <1>4, <1>5, <1>7, <1>8, <2>3 DEF Nest
<1> QED BY <1>1, <1>4, <1>5, <1>6, <1>7, <1>8, <1>9, <1>10

LEMMA EndProgClean == ASSUME Sound, Clean, EndProg PROVE Clean'
BY Ends DEF Clean, Syntax

LEMMA NextPassClean == ASSUME Sound, Clean, NextPass PROVE Clean'
<1>1. level < Syntax /\ depth = 0 /\ pass' = pass + 1 /\ pass \in Nat
      /\ UNCHANGED <<text, stack, macros, defining, defCtx, depth, args, status>>
  BY DEF NextPass, PassAfter, BetweenPasses, Sound, Types
<1>2. Nest
  BY <1>1 DEF Clean
<1> QED BY <1>1, <1>2 DEF Clean, Nest

LEMMA NextClean == ASSUME Sound, Clean, [Next]_vars PROVE Clean'
<1>1. CASE UNCHANGED vars
  BY <1>1 DEF vars, Clean, Nest, Syntax
<1>2. CASE LastPass
  BY <1>2 DEF LastPass, Clean, Nest, Syntax
<1> QED BY <1>1, <1>2, OtherClean, MacroClean, BodyClean, EndmClean, StrayEndmClean, CondClean,
           SectionClean, IncludeClean, CallClean, EndProgClean, BeginFileClean, NextPassClean
        DEF Next

LEMMA InitClean == Init => Clean
BY DEF Init, Clean, Nest, NoCtx

-----------------------------------------------------------------------------
(* What has been defined completely does not change.                         *)
LEMMA FrozenIf ==
    ASSUME Types, Stacked, macros' = macros,
           \/ defCtx = NoCtx /\ defCtx' = NoCtx
           \/ defCtx # NoCtx /\ defCtx' = defCtx /\ stack'[defCtx].prog = stack[defCtx].prog
    PROVE  Complete' = Complete /\ \A m \in Complete : macros'[m].body = macros[m].body
BY DEF Complete

LEMMA Frozen ==
    ASSUME Sound, Clean, [Next]_vars, level' < Syntax
    PROVE  /\ text' = text
           /\ Complete \subseteq Complete'
           /\ \A m \in Complete : macros'[m].body = macros[m].body
           /\ Complete' = Complete \/ (EndmLine /\ defCtx # NoCtx)
<1> DEFINE Goal == /\ text' = text
                   /\ Complete \subseteq Complete'
                   /\ \A m \in Complete : macros'[m].body = macros[m].body
                   /\ Complete' = Complete \/ (EndmLine /\ defCtx # NoCtx)
<1>1. Types /\ Stacked
  BY DEF Sound
<1>2. Clean' /\ Nest'
  BY NextClean DEF Clean
<1>3. ASSUME ReadLine, stack' = Moved, macros' = macros, defCtx' = defCtx, Nest
      PROVE  Goal
  <2>1. text' = text
    BY <1>3 DEF ReadLine
  <2>2. ASSUME defCtx # NoCtx PROVE stack'[defCtx].prog = stack[defCtx].prog
    <3>1. Moved \in Seq(Contexts) /\ Len(Moved) = Len(stack)
          /\ \A i \in 1 .. Len(stack) : Moved[i].prog = stack[i].prog
      BY <1>3, <1>1, MovedIs DEF ReadLine
    <3>2. defCtx \in 1 .. Len(stack)
      BY <1>1, <1>3, <2>2, Heights DEF Stacked, Nest, NoCtx, Dangling
    <3> QED BY <1>3, <3>1, <3>2
  <2>3. Complete' = Complete /\ \A m \in Complete : macros'[m].body = macros[m].body
    BY <1>1, <1>3, <2>2, FrozenIf
  <2> QED BY <2>1, <2>3
<1>4. ASSUME text' = text, macros' = macros, defCtx = NoCtx, defCtx' = NoCtx
      PROVE  Goal
  BY <1>1, <1>4, FrozenIf
<1>5. CASE UNCHANGED vars
  BY <1>1, <1>5, FrozenIf DEF vars
<1>6. CASE OtherLine
  BY <1>3, <1>6 DEF OtherLine, Clean
<1>7. CASE MacroLine
  <2>1. ReadLine /\ text' = text /\ defining = 0
    BY <1>7 DEF MacroLine, ReadLine
  <2>2. CASE Line.name \notin DOMAIN macros /\ Line.name # "none"
    <3> DEFINE n == Line.name
    <3>1. macros' = WithMacro(n) /\ stack' = Append(Moved, Context(Named(n), TRUE))
          /\ defCtx' = Len(stack) + 1 /\ level' = level
      BY <1>7, <2>2 DEF MacroLine
    <3>2. defCtx = NoCtx
      BY <2>1, <3>1 DEF Clean, Nest, NoCtx
    <3>3. DOMAIN macros' = DOMAIN macros \cup {n} /\ \A m \in DOMAIN macros : macros'[m] = macros[m]
      BY <3>1 DEF WithMacro
    <3>4. stack'[defCtx'].prog.name = n
      <4>1. Moved \in Seq(Contexts) /\ Len(Moved) = Len(stack)
        BY <1>1, <2>1, MovedIs DEF ReadLine
      <4>2. \A c : Append(Moved, c)[Len(Moved) + 1] = c
        BY <4>1
      <4>3. stack'[defCtx'] = Context(Named(n), TRUE)
        BY <3>1, <4>1, <4>2
      <4> QED BY <4>3 DEF Context, Named
    <3>5. defCtx' # NoCtx
      BY <1>1, <3>1 DEF Types, NoCtx
    <3>6. Complete = DOMAIN macros /\ Complete' = DOMAIN macros
      <4> HIDE DEF n
      <4> QED BY <2>2, <3>2, <3>3, <3>4, <3>5 DEF Complete, n
    <3> QED BY <2>1, <3>3, <3>6
  <2>3. CASE ~(Line.name \notin DOMAIN macros /\ Line.name # "none")
    <3>1. stack' = Moved /\ UNCHANGED <<macros, defCtx>>
          /\ Report(IF MacroError(Line.name) THEN Syntax ELSE None)
      BY <1>7, <2>3 DEF MacroLine
    <3>2. Nest
      <4>1. (IF MacroError(Line.name) THEN Syntax ELSE None) \in {None, Syntax, Fatal}
        OBVIOUS
      <4> QED BY <3>1, <4>1, Clear DEF Sound, Clean
    <3> QED BY <1>3, <2>1, <3>1, <3>2
  <2> QED BY <2>2, <2>3
<1>8. CASE BodyLine
  <2>1. ReadLine /\ text' = text /\ level' = level /\ Nest
    BY <1>8 DEF BodyLine, ReadLine, Break, Clean
  <2>2. defCtx # Dangling
    BY <1>1, <2>1, Heights DEF Sound, NoCtx, Dangling
  <2>3. /\ macros' = IF defCtx = NoCtx THEN macros
                     ELSE [macros EXCEPT ![stack[defCtx].prog.name].body = Append(@, Line)]
        /\ stack' = Moved /\ defCtx' = defCtx
    BY <1>8, <2>2 DEF BodyLine
  <2>4. CASE defCtx = NoCtx
    BY <1>3, <2>1, <2>3, <2>4
  <2>5. CASE defCtx # NoCtx
    <3>1. Moved \in Seq(Contexts) /\ Len(Moved) = Len(stack)
          /\ \A i \in 1 .. Len(stack) : Moved[i].prog = stack[i].prog
      BY <2>1, <1>1, MovedIs DEF ReadLine
    <3>2. defCtx \in 1 .. Len(stack)
      BY <1>1, <2>1, <2>5, Heights DEF Stacked, Nest, NoCtx, Dangling
    <3>3. stack'[defCtx'].prog = stack[defCtx].prog
      BY <2>3, <3>1, <3>2
    <3>4. DOMAIN macros' = DOMAIN macros
          /\ \A m \in DOMAIN macros : m # stack[defCtx].prog.name => macros'[m] = macros[m]
      BY <2>3, <2>5
    <3>5. Complete' = Complete
      BY <2>3, <2>5, <3>3, <3>4 DEF Complete
    <3> QED BY <2>1, <2>5, <3>4, <3>5 DEF Complete
  <2> QED BY <2>4, <2>5
<1>9. CASE EndmLine
  <2>1. ReadLine /\ text' = text /\ Closes
    BY <1>9 DEF EndmLine, ReadLine
  <2>2. Line.op = "endm"
    <3>1. Syntax \in {None, Syntax, Fatal} /\ Syntax # None
      BY DEF None, Syntax
    <3>2. Line.op = "badendm" => Report(Syntax)
      BY <1>9 DEF EndmLine
    <3> QED BY <2>1, <1>1, <3>1, <3>2, Clear DEF Closes
  <2>3. CASE defCtx = NoCtx
    BY <1>3, <1>9, <2>1, <2>2, <2>3 DEF EndmLine, NoCtx, Clean
  <2>4. CASE defCtx # NoCtx
    <3>1. macros' = macros
      BY <1>9 DEF EndmLine, Break
    <3>2. defCtx' = NoCtx \/ UNCHANGED <<defCtx, stack>>
      BY <1>9, <2>2 DEF EndmLine, Break
    <3> QED BY <1>9, <2>1, <2>4, <3>1, <3>2 DEF Complete
  <2> QED BY <2>3, <2>4
<1>10. CASE StrayEndm
  <2>1. Syntax \in {None, Syntax, Fatal} /\ Syntax # None /\ Report(Syntax)
    BY <1>10 DEF None, Syntax, StrayEndm
  <2> QED BY <1>1, <2>1, Clear
<1>11. ASSUME Nest, defining = 0 \/ depth = 0
       PROVE  defCtx = NoCtx
  BY <1>11 DEF Nest, NoCtx
<1>12. CASE CondLine
  <2>1. Nest
    <3>1. (IF CondError(Ctx.cond) THEN Syntax ELSE None) \in {None, Syntax, Fatal}
      OBVIOUS
    <3> QED BY <1>1, <1>12, <3>1, Clear DEF CondLine, Clean
  <2> QED BY <1>4, <1>11, <1>12, <2>1 DEF CondLine, ReadLine
<1>13. CASE SectionLine
  BY <1>4, <1>11, <1>13 DEF SectionLine, Assembled, ReadLine, Clean
<1>14. ASSUME NEW p, NEW under, Enter(p, under)
       PROVE  Nest
  <2>1. Fatal \in {None, Syntax, Fatal} /\ Fatal # None
    BY DEF None, Fatal
  <2> QED BY <1>1, <1>14, <2>1, Clear DEF Enter, Clean
<1>15. CASE IncludeLine
  <2>1. Nest
    <3>1. Fatal \in {None, Syntax, Fatal} /\ Fatal # None
      BY DEF None, Fatal
    <3>2. Line.name \in DOMAIN text
      BY <1>1, <1>15, <3>1, Clear DEF IncludeLine
    <3> QED BY <1>14, <1>15, <3>2 DEF IncludeLine
  <2> QED BY <1>4, <1>11, <1>15, <2>1 DEF IncludeLine, Assembled, ReadLine
<1>16. CASE CallLine
  <2>1. Nest
    <3>1. Syntax \in {None, Syntax, Fatal} /\ Syntax # None
      BY DEF None, Syntax
    <3>2. Line.name \in DOMAIN macros
      BY <1>1, <1>16, <3>1, Clear DEF CallLine
    <3> QED BY <1>14, <1>16, <3>2 DEF CallLine
  <2> QED BY <1>4, <1>11, <1>16, <2>1 DEF CallLine, Assembled, ReadLine
<1>17. CASE EndProg
  BY <1>4, <1>17, Ends
<1>18. CASE BeginFile
  <2>1. Nest /\ depth = 0
    BY <1>14, <1>18 DEF BeginFile
  <2> QED BY <1>4, <1>11, <1>18, <2>1 DEF BeginFile
<1>19. CASE NextPass
  <2>1. Nest /\ depth = 0
    BY <1>19 DEF NextPass, BetweenPasses, Clean
  <2> QED BY <1>4, <1>11, <1>19, <2>1 DEF NextPass
<1>20. CASE LastPass
  BY <1>1, <1>20, FrozenIf DEF LastPass
<1> QED
  BY <1>5, <1>6, <1>7, <1>8, <1>9, <1>10, <1>12, <1>13, <1>15, <1>16, <1>17, <1>18, <1>19, <1>20
     DEF Next

(* Lines counted up to one more.                                             *)
Those(i, k, T) == {j \in i .. k : j \in T}

LEMMA Counted ==
    ASSUME NEW i \in Nat, NEW k \in Nat, i <= k + 1, NEW T
    PROVE  /\ IsFiniteSet(Those(i, k, T)) /\ Those(i, k, T) \subseteq Nat
           /\ Those(i, k + 1, T) = IF k + 1 \in T THEN Those(i, k, T) \cup {k + 1} ELSE Those(i, k, T)
           /\ Cardinality(Those(i, k, T)) \in Nat
           /\ Cardinality(Those(i, k + 1, T)) =
                  Cardinality(Those(i, k, T)) + (IF k + 1 \in T THEN 1 ELSE 0)
<1> DEFINE S == Those(i, k, T)
           U == Those(i, k + 1, T)
<1> USE DEF Those
<1>1. IsFiniteSet(i .. k) /\ S \subseteq i .. k
  BY FS_Interval
<1>2. IsFiniteSet(S) /\ S \subseteq Nat
  BY <1>1, FS_Subset
<1>3. i .. k + 1 = (i .. k) \cup {k + 1} /\ k + 1 \notin i .. k
  OBVIOUS
<1>4. U = IF k + 1 \in T THEN S \cup {k + 1} ELSE S
  BY <1>3
<1>5. Cardinality(S) \in Nat
  BY <1>2, FS_CardinalityType
<1>6. k + 1 \notin S
  BY <1>3
<1> HIDE DEF S, U
<1>7. Cardinality(S \cup {k + 1}) = Cardinality(S) + 1
  BY <1>2, <1>6, FS_AddElement
<1>8. Cardinality(U) = Cardinality(S) + (IF k + 1 \in T THEN 1 ELSE 0)
  BY <1>4, <1>5, <1>7
<1> QED BY <1>2, <1>4, <1>5, <1>8 DEF S, U

LEMMA LevelIs ==
    ASSUME NEW ls, NEW i \in Nat, NEW k \in Nat, i <= k + 1
    PROVE  /\ Level(ls, i, k) \in Int
           /\ Level(ls, i, k + 1) =
                  CASE ls[k + 1].op = "macro" -> Level(ls, i, k) + 1
                    [] ls[k + 1].op \in {"endm", "badendm"} -> Level(ls, i, k) - 1
                    [] OTHER -> Level(ls, i, k)
<1> DEFINE T == {j \in Nat : ls[j].op = "macro"}
           V == {j \in Nat : ls[j].op \in {"endm", "badendm"}}
           S(X, n) == Those(i, n, X)
<1>1. ASSUME NEW n \in Nat
      PROVE  Level(ls, i, n) = Cardinality(S(T, n)) - Cardinality(S(V, n))
  <2>1. S(T, n) = {j \in i .. n : ls[j].op = "macro"}
    BY DEF Those
  <2>2. S(V, n) = {j \in i .. n : ls[j].op \in {"endm", "badendm"}}
    BY DEF Those
  <2> QED BY <2>1, <2>2 DEF Level
<1>2. k + 1 \in Nat /\ (k + 1 \in T <=> ls[k + 1].op = "macro")
      /\ (k + 1 \in V <=> ls[k + 1].op \in {"endm", "badendm"})
  OBVIOUS
<1>3. Cardinality(S(T, k)) \in Nat /\ Cardinality(S(V, k)) \in Nat
      /\ Cardinality(S(T, k + 1)) = Cardinality(S(T, k)) + (IF k + 1 \in T THEN 1 ELSE 0)
      /\ Cardinality(S(V, k + 1)) = Cardinality(S(V, k)) + (IF k + 1 \in V THEN 1 ELSE 0)
  <2> HIDE DEF T, V
  <2> QED BY Counted
<1>4. Level(ls, i, k) = Cardinality(S(T, k)) - Cardinality(S(V, k))
      /\ Level(ls, i, k + 1) = Cardinality(S(T, k + 1)) - Cardinality(S(V, k + 1))
  BY <1>1, <1>2
<1> HIDE DEF T, V, S
<1> QED BY <1>2, <1>3, <1>4

LEMMA HoldingIs ==
    ASSUME NEW L, NEW ls, NEW i \in Nat, NEW k \in Nat, i <= k + 1, NEW body \in Seq(L),
           Holding(body, ls, i, k)
    PROVE  IF ls[k + 1].op = "blank" THEN Holding(body, ls, i, k + 1)
           ELSE Holding(Append(body, ls[k + 1]), ls, i, k + 1)
<1> DEFINE T == {j \in Nat : ls[j].op # "blank"}
           S(n) == Those(i, n, T)
<1>1. ASSUME NEW n \in Nat PROVE Nonblank(ls, i, n) = S(n)
  BY DEF Nonblank, Those
<1>2. k + 1 \in Nat /\ (k + 1 \in T <=> ls[k + 1].op # "blank")
  OBVIOUS
<1>3. /\ IsFiniteSet(S(k)) /\ S(k) \subseteq Nat
      /\ S(k + 1) = IF k + 1 \in T THEN S(k) \cup {k + 1} ELSE S(k)
      /\ Cardinality(S(k)) \in Nat
      /\ Cardinality(S(k + 1)) = Cardinality(S(k)) + (IF k + 1 \in T THEN 1 ELSE 0)
  <2> HIDE DEF T
  <2> QED BY Counted
<1>4. Nonblank(ls, i, k) = S(k) /\ Nonblank(ls, i, k + 1) = S(k + 1)
  BY <1>1, <1>2
<1>5. \A j \in S(k) : j \in Nat /\ Nonblank(ls, i, j) = {h \in S(k) : h <= j}
                      /\ Cardinality(Nonblank(ls, i, j)) \in 1 .. Cardinality(S(k))
  <2> SUFFICES ASSUME NEW j \in S(k)
               PROVE  j \in Nat /\ Nonblank(ls, i, j) = {h \in S(k) : h <= j}
                      /\ Cardinality(Nonblank(ls, i, j)) \in 1 .. Cardinality(S(k))
    OBVIOUS
  <2>1. j \in Nat /\ j <= k
    BY <1>3 DEF Those
  <2>2. Nonblank(ls, i, j) = S(j)
    BY <1>1, <2>1
  <2>3. S(j) = {h \in S(k) : h <= j}
    BY <2>1 DEF Those
  <2>4. Cardinality({h \in S(k) : h <= j}) \in 1 .. Cardinality(S(k))
    <3> HIDE DEF S
    <3> QED BY <1>3, Ranks
  <2> QED BY <2>1, <2>2, <2>3, <2>4
<1>6. Len(body) = Cardinality(S(k))
      /\ \A j \in S(k) : body[Cardinality(Nonblank(ls, i, j))] = ls[j]
  BY <1>4 DEF Holding
<1> HIDE DEF S, T
<1>7. CASE ls[k + 1].op = "blank"
  BY <1>2, <1>3, <1>4, <1>6, <1>7 DEF Holding
<1>8. CASE ls[k + 1].op # "blank"
  <2> DEFINE b == Append(body, ls[k + 1])
  <2>1. Len(b) = Len(body) + 1 /\ b[Len(body) + 1] = ls[k + 1]
        /\ \A n \in 1 .. Len(body) : b[n] = body[n]
    OBVIOUS
  <2>2. S(k + 1) = S(k) \cup {k + 1} /\ Cardinality(S(k + 1)) = Cardinality(S(k)) + 1
    BY <1>2, <1>3, <1>8
  <2> HIDE DEF b
  <2>3. Len(b) = Cardinality(Nonblank(ls, i, k + 1))
    BY <1>4, <1>6, <2>1, <2>2
  <2>4. \A j \in S(k) : b[Cardinality(Nonblank(ls, i, j))] = ls[j]
    BY <1>5, <1>6, <2>1
  <2>5. b[Cardinality(Nonblank(ls, i, k + 1))] = ls[k + 1]
    BY <1>4, <1>6, <2>1, <2>2
  <2>6. \A j \in Nonblank(ls, i, k + 1) : b[Cardinality(Nonblank(ls, i, j))] = ls[j]
    BY <1>4, <2>2, <2>4, <2>5
  <2>7. Holding(b, ls, i, k + 1)
    BY <2>3, <2>6 DEF Holding
  <2> QED BY <1>8, <2>7 DEF b
<1> QED BY <1>7, <1>8

-----------------------------------------------------------------------------
(* The shape of the stack, before and after a step.                          *)
Shape ==
    /\ defCtx = NoCtx \/ defCtx = depth + 1
    /\ Len(stack) = IF defCtx = NoCtx THEN depth ELSE depth + 1
    /\ depth # 0 => Running = depth
    /\ depth = 0 => defCtx = NoCtx /\ stack = <<>>

LEMMA Shapes == Sound /\ Nest => Shape
BY Heights DEF Shape

LEMMA ShapesNext == (Sound /\ Nest)' => Shape'
BY Shapes, PTL

(* The definitions found so far, and the lines of the one under way: from    *)
(* the MACRO line at i of the program ls up to the line k.                   *)
Written ==
    \A m \in Complete :
        \E p \in ProgsOf(DOMAIN text, Complete) :
            \E i, k \in DOMAIN Lines(p) : i < k /\ DefinedAt(Lines(p), m, i, k)

Recording(ls, m, i, k) ==
    /\ ls[i].op = "macro" /\ ls[i].name = m
    /\ Level(ls, i, k) = defining
    /\ \A j \in i .. k : Level(ls, i, j) > 0
    /\ Holding(macros[m].body, ls, i + 1, k)

Recorded ==
    defCtx # NoCtx =>
        /\ Included(Ctx.cond)
        /\ \E i \in 1 .. Ctx.line :
               Recording(Lines(Ctx.prog), stack[defCtx].prog.name, i, Ctx.line)

Bodies == level < Syntax => Written /\ Recorded

LEMMA InitBodies == Init => Bodies
BY DEF Init, Bodies, Written, Recorded, Complete

(* The same lines, in any later state.                                       *)
LEMMA FrozenLines ==
    ASSUME text' = text, Complete \subseteq Complete',
           \A m \in Complete : macros'[m].body = macros[m].body,
           NEW p \in ProgsOf(DOMAIN text, Complete)
    PROVE  p \in ProgsOf(DOMAIN text', Complete') /\ Lines(p)' = Lines(p)
BY DEF ProgsOf, Lines

LEMMA StillWritten ==
    ASSUME text' = text, Complete \subseteq Complete',
           \A m \in Complete : macros'[m].body = macros[m].body, Written, NEW m \in Complete
    PROVE  \E p \in ProgsOf(DOMAIN text', Complete') :
               \E i, k \in DOMAIN Lines(p)' : i < k /\ DefinedAt(Lines(p), m, i, k)'
<1>1. PICK p \in ProgsOf(DOMAIN text, Complete) :
          \E i, k \in DOMAIN Lines(p) : i < k /\ DefinedAt(Lines(p), m, i, k)
  BY DEF Written
<1>2. p \in ProgsOf(DOMAIN text', Complete') /\ Lines(p)' = Lines(p)
  BY <1>1, FrozenLines
<1>3. macros'[m].body = macros[m].body
  OBVIOUS
<1>4. \A i, k : DefinedAt(Lines(p), m, i, k) => DefinedAt(Lines(p), m, i, k)'
  BY <1>2, <1>3 DEF DefinedAt, Level, Holding, Nonblank
<1> QED BY <1>1, <1>2, <1>4

(* Where a definition is under way, the program that holds it.               *)
LEMMA Definer ==
    ASSUME Sound, Nest, Assembling, defCtx # NoCtx
    PROVE  /\ Running = depth /\ defCtx = depth + 1 /\ Len(stack) = depth + 1
           /\ depth \in Nat /\ depth # 0
           /\ Ctx \in Contexts /\ Ctx = stack[depth] /\ Ctx.line \in Nat
           /\ Ctx.prog \in ProgsOf(DOMAIN text, Complete)
           /\ stack[defCtx] \in Contexts
           /\ stack[defCtx].prog.name \in DOMAIN macros \ Complete
           /\ stack[defCtx].prog.type = "macro"
<1>1. Running = depth /\ defCtx = depth + 1 /\ Len(stack) = depth + 1 /\ depth \in Nat /\ depth # 0
      /\ stack \in Seq(Contexts)
  BY Heights DEF Assembling
<1>2. stack[depth] \in Contexts /\ stack[depth + 1] \in Contexts /\ depth \in DOMAIN stack
      /\ depth + 1 \in DOMAIN stack /\ depth # depth + 1
  BY <1>1
<1>3. Ctx = stack[depth] /\ Ctx \in Contexts /\ Ctx.line \in Nat
      /\ Ctx.prog \in ProgsOf(DOMAIN text, DOMAIN macros)
      /\ stack[defCtx].prog \in ProgsOf(DOMAIN text, DOMAIN macros)
  BY <1>1, <1>2 DEF Ctx, Contexts, ContextsOf
<1>4. stack[defCtx].prog.type = "macro"
  BY <1>1 DEF Sound, Stacked, NoCtx
<1>5. stack[defCtx].prog.name \in DOMAIN macros
  BY <1>3, <1>4 DEF ProgsOf
<1>6. Ctx.prog # stack[defCtx].prog
  BY <1>1, <1>2, <1>3 DEF Nest
<1>7. Ctx.prog.type = "macro" => Ctx.prog.name \in DOMAIN macros
      /\ Ctx.prog.name # stack[defCtx].prog.name
  BY <1>3, <1>4, <1>6 DEF ProgsOf
<1>8. Ctx.prog \in ProgsOf(DOMAIN text, Complete)
  BY <1>3, <1>7 DEF ProgsOf, Complete
<1>9. stack[defCtx].prog.name \notin Complete
  BY <1>1 DEF Complete
<1> QED BY <1>1, <1>2, <1>3, <1>4, <1>5, <1>8, <1>9

(* The context in which a line was read, after a step that only moves on.    *)
LEMMA CtxMoved ==
    ASSUME Sound, Nest, Sound', Nest', ReadLine, stack' = Moved, UNCHANGED depth
    PROVE  Ctx' = [Ctx EXCEPT !.line = @ + 1]
<1>1. depth # 0 /\ Assembling
  BY DEF ReadLine, Assembling, Sound, Types
<1>2. Running = depth /\ Running' = depth
  BY <1>1, Shapes, ShapesNext DEF Shape
<1>3. Running \in 1 .. Len(stack) /\ Moved[Running] = [stack[Running] EXCEPT !.line = @ + 1]
  BY <1>1, LineIs, MovedIs DEF Sound
<1> QED BY <1>2, <1>3 DEF Ctx

(* One more line of a definition.                                            *)
LEMMA RecordingOn ==
    ASSUME Sound, Nest, Sound', Nest', ReadLine, stack' = Moved, defCtx # NoCtx,
           UNCHANGED <<defCtx, depth>>, Recorded,
           \A ls, m, i, k :
               /\ ls = Lines(Ctx.prog) /\ m = stack[defCtx].prog.name /\ k = Ctx.line
               /\ i \in 1 .. k
               /\ Recording(ls, m, i, k)
               => Recording(ls, m, i, k + 1)',
           \A n \in Complete : macros'[n].body = macros[n].body, Complete' = Complete
    PROVE  Recorded'
<1>1. Assembling /\ text' = text
  BY DEF ReadLine
<1>2. /\ Running = depth /\ defCtx = depth + 1 /\ Len(stack) = depth + 1
      /\ depth \in Nat /\ depth # 0
      /\ Ctx \in Contexts /\ Ctx.line \in Nat
      /\ Ctx.prog \in ProgsOf(DOMAIN text, Complete)
  BY <1>1, Definer
<1>3. Ctx' = [Ctx EXCEPT !.line = @ + 1]
  BY CtxMoved
<1>4. Ctx'.line = Ctx.line + 1 /\ Ctx'.prog = Ctx.prog /\ Ctx'.cond = Ctx.cond
  BY <1>2, <1>3 DEF Contexts, ContextsOf
<1>5. Lines(Ctx.prog)' = Lines(Ctx.prog)
  <2>1. \A p \in ProgsOf(DOMAIN text, Complete) : Lines(p)' = Lines(p)
    BY <1>1, FrozenLines
  <2> QED BY <1>2, <1>4, <2>1 DEF Lines
<1>6. stack'[defCtx'].prog.name = stack[defCtx].prog.name
  <2>1. Moved \in Seq(Contexts) /\ Len(Moved) = Len(stack)
        /\ \A i \in 1 .. Len(stack) : Moved[i].prog = stack[i].prog
    BY <1>1, MovedIs DEF Sound
  <2> QED BY <1>2, <2>1
<1>7. PICK i \in 1 .. Ctx.line : Recording(Lines(Ctx.prog), stack[defCtx].prog.name, i, Ctx.line)
  BY DEF Recorded
<1>8. ASSUME NEW ls, NEW m, NEW k, ls = Lines(Ctx.prog), m = stack[defCtx].prog.name, k = Ctx.line
      PROVE  Recorded'
  <2>1. Recording(ls, m, i, k + 1)'
    BY <1>7, <1>8
  <2>2. i \in 1 .. k + 1
    BY <1>2, <1>8
  <2>3. Ctx'.line = k + 1 /\ Lines(Ctx.prog)' = ls /\ (stack[defCtx].prog.name)' = m
    BY <1>4, <1>5, <1>6, <1>8
  <2>4. Included(Ctx.cond)'
    BY <1>4 DEF Recorded, Included
  <2>5. Recording(Lines(Ctx.prog), stack[defCtx].prog.name, i, Ctx.line)'
    BY <2>1, <2>3 DEF Recording
  <2> QED BY <2>2, <2>3, <2>4, <2>5 DEF Recorded
<1> QED BY <1>8

(* A pass does not recover from an error.                                    *)
LEMMA Earlier == ASSUME Types, [Next]_vars, level' < Syntax PROVE level < Syntax
<1>1. level = level' => level < Syntax
  OBVIOUS
<1>2. \A e \in {None, Syntax, Fatal} : Report(e) => level < Syntax
  BY Clear
<1>3. \A p, under : Enter(p, under) => level < Syntax
  BY <1>1, <1>2 DEF Enter, Fatal
<1>4. CASE OtherLine \/ BodyLine \/ SectionLine \/ LastPass \/ UNCHANGED vars
  BY <1>1, <1>4 DEF OtherLine, BodyLine, Break, SectionLine, LastPass, vars
<1>5. CASE MacroLine \/ StrayEndm \/ CondLine
  BY <1>1, <1>2, <1>5 DEF MacroLine, StrayEndm, CondLine
<1>6. CASE EndmLine
  BY <1>1, <1>2, <1>6 DEF EndmLine, Closes, Break
<1>7. CASE EndProg
  BY <1>1, <1>2, <1>7 DEF EndProg, Break
<1>8. CASE IncludeLine \/ CallLine \/ BeginFile
  BY <1>2, <1>3, <1>8 DEF IncludeLine, CallLine, BeginFile
<1>9. CASE NextPass
  BY <1>9 DEF NextPass
<1> QED BY <1>4, <1>5, <1>6, <1>7, <1>8, <1>9 DEF Next

(* MACRO begins a definition ...                                             *)
LEMMA MacroRecorded ==
    ASSUME Sound, Nest, Sound', Nest', MacroLine, defCtx' # NoCtx
    PROVE  Recorded'
<1>1. ReadLine /\ Assembling /\ text' = text /\ Opens /\ ~Ended /\ defining = 0 /\ defining' = 1
      /\ depth' = depth
  BY DEF MacroLine, ReadLine
<1>2. defCtx = NoCtx
  BY <1>1 DEF Nest, NoCtx
<1>3. Line.name \notin DOMAIN macros /\ Line.name # "none"
  BY <1>2 DEF MacroLine
<1> DEFINE m == Line.name
<1>4. macros' = WithMacro(m) /\ stack' = Append(Moved, Context(Named(m), TRUE)) /\ defCtx' = Len(stack) + 1
  BY <1>3 DEF MacroLine
<1>5. depth # 0 /\ Running = depth /\ Len(stack) = depth /\ Running' = depth /\ depth \in Nat
  BY <1>1, <1>2, Shapes, ShapesNext DEF Shape, Assembling, Sound, Types
<1>6. /\ Moved \in Seq(Contexts) /\ Len(Moved) = Len(stack) /\ Ctx \in Contexts
      /\ Moved[depth] = [stack[depth] EXCEPT !.line = @ + 1] /\ Ctx = stack[depth]
      /\ Ctx.line + 1 \in 1 .. Len(Lines(Ctx.prog))
  BY <1>1, <1>5, MovedIs, LineIs DEF Sound, Ctx
<1>7. \A c : Append(Moved, c)[Len(Moved) + 1] = c /\ Append(Moved, c)[depth] = Moved[depth]
  BY <1>5, <1>6
<1>8. Ctx' = [Ctx EXCEPT !.line = @ + 1]
  BY <1>4, <1>5, <1>6, <1>7 DEF Ctx
<1>9. Ctx'.line = Ctx.line + 1 /\ Ctx'.prog = Ctx.prog /\ Ctx'.cond = Ctx.cond /\ Ctx.line \in Nat
      /\ Ctx.prog \in ProgsOf(DOMAIN text, DOMAIN macros)
  BY <1>6, <1>8 DEF Contexts, ContextsOf
<1>10. stack'[defCtx'].prog.name = m
  BY <1>4, <1>5, <1>6, <1>7 DEF Context, Named
<1>11. m \in DOMAIN macros' /\ macros'[m].body = <<>> /\ \A n \in DOMAIN macros : macros'[n] = macros[n]
  BY <1>3, <1>4 DEF WithMacro
<1>12. Lines(Ctx.prog)' = Lines(Ctx.prog)
  BY <1>1, <1>9, <1>11 DEF Lines, ProgsOf
<1>13. Line.op = "macro" /\ Included(Ctx.cond)
  BY <1>1 DEF Opens
<1> HIDE DEF m
<1>14. ASSUME NEW ls, NEW k, ls = Lines(Ctx.prog), k = Ctx.line, NEW n, n = m
       PROVE  Recorded'
  <2>1. k \in Nat /\ k + 1 \in Nat /\ ls[k + 1] = Line
    BY <1>9, <1>14 DEF Line
  <2>2. Level(ls, k + 1, k) = 0
    <3>1. {j \in k + 1 .. k : ls[j].op = "macro"} = {}
          /\ {j \in k + 1 .. k : ls[j].op \in {"endm", "badendm"}} = {}
      BY <2>1
    <3>2. Level(ls, k + 1, k) = Cardinality({}) - Cardinality({})
      BY <3>1 DEF Level
    <3>3. Cardinality({}) = 0
      BY FS_EmptySet
    <3> QED BY <3>2, <3>3
  <2>3. Level(ls, k + 1, k + 1) = 1
    <3>1. Level(ls, k + 1, k + 1) = Level(ls, k + 1, k) + 1
      BY <1>13, <2>1, LevelIs
    <3> QED BY <2>2, <3>1
  <2>4. \A j \in k + 1 .. k + 1 : Level(ls, k + 1, j) > 0
    <3>1. \A j \in k + 1 .. k + 1 : j = k + 1
      BY <2>1
    <3> QED BY <2>3, <3>1
  <2>5. Holding(<<>>, ls, k + 1 + 1, k + 1)
    <3>1. Nonblank(ls, k + 1 + 1, k + 1) = {}
      BY <2>1 DEF Nonblank
    <3>2. Len(<<>>) = 0
      OBVIOUS
    <3> QED BY <3>1, <3>2, FS_EmptySet DEF Holding
  <2>6. Recording(ls, n, k + 1, k + 1)'
    <3>1. macros'[n].body = <<>>
      BY <1>11, <1>14
    <3>2. Holding(macros[n].body, ls, k + 1 + 1, k + 1)'
      BY <2>5, <3>1
    <3> QED BY <1>1, <1>13, <1>14, <2>1, <2>3, <2>4, <3>2 DEF Recording, m
  <2>7. k + 1 \in 1 .. Ctx'.line
    BY <1>9, <1>14, <2>1
  <2>8. Ctx'.line = k + 1 /\ Lines(Ctx.prog)' = ls /\ (stack[defCtx].prog.name)' = n
    BY <1>9, <1>10, <1>12, <1>14
  <2>9. Recording(Lines(Ctx.prog), stack[defCtx].prog.name, k + 1, Ctx.line)'
    BY <2>6, <2>8 DEF Recording
  <2>10. Included(Ctx.cond)'
    BY <1>9, <1>13 DEF Included
  <2>11. \E i \in 1 .. Ctx'.line : Recording(Lines(Ctx.prog), stack[defCtx].prog.name, i, Ctx.line)'
    BY <2>7, <2>9
  <2> QED BY <2>10, <2>11 DEF Recorded
<1> QED BY <1>14

(* ... which the lines that follow go on with ...                            *)
LEMMA BlankRecorded ==
    ASSUME Sound, Nest, Sound', Nest', OtherLine, Recorded, defCtx # NoCtx,
           \A n \in Complete : macros'[n].body = macros[n].body, Complete' = Complete
    PROVE  Recorded'
<1>1. ReadLine /\ Assembling /\ ~Ended /\ stack' = Moved
      /\ UNCHANGED <<macros, defining, defCtx, depth>>
  BY DEF OtherLine, ReadLine
<1>2. defining > 0 /\ defining \in Nat
  BY DEF Nest, Sound, Types
<1>3. Line.op = "blank"
  BY <1>2 DEF OtherLine
<1>4. stack[defCtx].prog.name \in DOMAIN macros /\ Ctx.line \in Nat
  BY <1>1, Definer
<1>5. ASSUME NEW ls, NEW m, NEW i, NEW k, ls = Lines(Ctx.prog), m = stack[defCtx].prog.name,
             k = Ctx.line, i \in 1 .. k, Recording(ls, m, i, k)
      PROVE  Recording(ls, m, i, k + 1)'
  <2>1. ls[k + 1].op = "blank" /\ k \in Nat /\ i \in Nat /\ i <= k
    BY <1>3, <1>4, <1>5 DEF Line
  <2>2. Level(ls, i, k + 1) = Level(ls, i, k)
    BY <2>1, LevelIs
  <2>3. \A j \in i .. k + 1 : Level(ls, i, j) > 0
    <3>1. \A j \in i .. k + 1 : j \in i .. k \/ j = k + 1
      BY <2>1
    <3>2. k \in i .. k
      BY <2>1
    <3> QED BY <1>5, <2>2, <3>1, <3>2 DEF Recording
  <2>4. macros[m].body \in Seq(AllLines)
    BY <1>4, <1>5 DEF Sound, Types, Macros
  <2>5. Holding(macros[m].body, ls, i + 1, k + 1)
    <3>1. i + 1 \in Nat /\ i + 1 <= k + 1
      BY <2>1
    <3> QED BY <1>5, <2>1, <2>4, <3>1, HoldingIs DEF Recording
  <2> QED BY <1>1, <1>5, <2>2, <2>3, <2>5 DEF Recording
<1> QED BY <1>1, <1>5, RecordingOn

LEMMA BodyRecorded ==
    ASSUME Sound, Nest, Sound', Nest', BodyLine, Recorded, defCtx # NoCtx,
           \A n \in Complete : macros'[n].body = macros[n].body, Complete' = Complete
    PROVE  Recorded'
<1>1. ReadLine /\ Assembling /\ ~Ended /\ defining > 0 /\ defining \in Nat /\ Line.op # "blank"
      /\ ~(Closes /\ defining = 1)
  BY DEF BodyLine, ReadLine, Sound, Types
<1>2. defCtx # Dangling
  BY <1>1, Definer DEF Dangling
<1> DEFINE d == stack[defCtx].prog.name
<1>3. /\ defining' = LevelAfter
      /\ macros' = [macros EXCEPT ![d].body = Append(@, Line)]
      /\ stack' = Moved
      /\ UNCHANGED <<defCtx, depth>>
  BY <1>2 DEF BodyLine
<1>4. d \in DOMAIN macros /\ Ctx.line \in Nat /\ macros[d] \in Macros /\ Included(Ctx.cond)
  BY <1>1, Definer DEF Sound, Types, Recorded
<1>5. macros'[d].body = Append(macros[d].body, Line) /\ macros[d].body \in Seq(AllLines)
  BY <1>3, <1>4 DEF Macros
<1> HIDE DEF d
<1>6. ASSUME NEW ls, NEW m, NEW i, NEW k, ls = Lines(Ctx.prog), m = d,
             k = Ctx.line, i \in 1 .. k, Recording(ls, m, i, k)
      PROVE  Recording(ls, m, i, k + 1)'
  <2>1. ls[k + 1] = Line /\ k \in Nat /\ i \in Nat /\ i <= k
    BY <1>4, <1>6 DEF Line
  <2>2. Level(ls, i, k + 1) = defining' /\ defining' > 0
    <3>1. Level(ls, i, k) = defining
      BY <1>6 DEF Recording
    <3>2. Level(ls, i, k + 1) =
              CASE Line.op = "macro" -> defining + 1
                [] Line.op \in {"endm", "badendm"} -> defining - 1
                [] OTHER -> defining
      BY <2>1, <3>1, LevelIs
    <3>3. (Opens <=> Line.op = "macro") /\ (Closes <=> Line.op \in {"endm", "badendm"})
      BY <1>4 DEF Opens, Closes
    <3>4. Line.op = "macro" => Line.op \notin {"endm", "badendm"}
      OBVIOUS
    <3> QED BY <1>1, <1>3, <3>2, <3>3, <3>4 DEF LevelAfter
  <2>3. \A j \in i .. k + 1 : Level(ls, i, j) > 0
    <3>1. \A j \in i .. k + 1 : j \in i .. k \/ j = k + 1
      BY <2>1
    <3> QED BY <1>6, <2>2, <3>1 DEF Recording
  <2>4. Holding(Append(macros[m].body, Line), ls, i + 1, k + 1)
    <3>1. i + 1 \in Nat /\ i + 1 <= k + 1
      BY <2>1
    <3>2. Holding(macros[m].body, ls, i + 1, k)
      BY <1>6 DEF Recording
    <3> QED BY <1>1, <1>5, <1>6, <2>1, <3>1, <3>2, HoldingIs
  <2> QED BY <1>5, <1>6, <2>2, <2>3, <2>4 DEF Recording
<1> QED BY <1>1, <1>3, <1>6, RecordingOn DEF d

(* ... and ENDM ends.                                                        *)
LEMMA EndmWritten ==
    ASSUME Sound, Nest, Nest', EndmLine, level' < Syntax, Written, Recorded, defCtx # NoCtx,
           text' = text, Complete \subseteq Complete',
           \A n \in Complete : macros'[n].body = macros[n].body
    PROVE  Written'
<1>1. ReadLine /\ Assembling /\ ~Ended /\ defining = 1 /\ Closes
  BY DEF EndmLine, ReadLine
<1>2. Line.op = "endm"
  <2>1. Syntax \in {None, Syntax, Fatal} /\ Syntax # None
    BY DEF None, Syntax
  <2>2. Line.op = "badendm" => Report(Syntax)
    BY DEF EndmLine
  <2> QED BY <1>1, <2>1, <2>2, Clear DEF Closes, Sound
<1> DEFINE d == stack[defCtx].prog.name
<1>3. macros' = macros
  BY DEF EndmLine, Break
<1>4. /\ Ctx.prog \in ProgsOf(DOMAIN text, Complete) /\ Ctx.line \in Nat
      /\ d \in DOMAIN macros
  BY <1>1, Definer
<1>5. Complete' \subseteq Complete \cup {d}
  BY <1>3 DEF Complete
<1> HIDE DEF d
<1>6. ASSUME NEW ls, NEW k, ls = Lines(Ctx.prog), k = Ctx.line, NEW p, p = Ctx.prog, NEW m, m = d
      PROVE  Written'
  <2>1. PICK i \in 1 .. k : Recording(ls, m, i, k)
    BY <1>6 DEF Recorded, d
  <2>2. ls[k + 1] = Line /\ k \in Nat /\ i \in Nat /\ i <= k
    BY <1>4, <1>6 DEF Line
  <2>3. Level(ls, i, k + 1) = 0
    <3>1. Level(ls, i, k) = 1
      BY <1>1, <2>1 DEF Recording
    <3>2. Level(ls, i, k + 1) = Level(ls, i, k) - 1
      BY <1>2, <2>2, LevelIs
    <3> QED BY <3>1, <3>2
  <2>4. i \in DOMAIN ls /\ k + 1 \in DOMAIN ls /\ i < k + 1
    <3>1. ls \in Seq(AllLines) /\ k + 1 \in 1 .. Len(ls)
      BY <1>1, <1>6, LineIs DEF Sound
    <3> QED BY <2>2, <3>1
  <2>5. DefinedAt(ls, m, i, k + 1)
    <3>1. k + 1 - 1 = k
      BY <2>2
    <3> QED BY <1>2, <2>1, <2>2, <2>3, <3>1 DEF DefinedAt, Recording
  <2>6. DefinedAt(ls, m, i, k + 1)'
    BY <1>3, <2>5 DEF DefinedAt, Level, Holding, Nonblank
  <2>7. p \in ProgsOf(DOMAIN text', Complete') /\ Lines(p)' = ls
    BY <1>4, <1>6, FrozenLines
  <2>8. \E q \in ProgsOf(DOMAIN text', Complete') :
            \E h, j \in DOMAIN Lines(q)' : h < j /\ DefinedAt(Lines(q), m, h, j)'
    BY <2>4, <2>6, <2>7
  <2>9. ASSUME NEW n \in Complete'
        PROVE  \E q \in ProgsOf(DOMAIN text', Complete') :
                   \E h, j \in DOMAIN Lines(q)' : h < j /\ DefinedAt(Lines(q), n, h, j)'
    <3>1. CASE n = m
      BY <2>8, <3>1
    <3>2. CASE n # m
      <4>1. n \in Complete
        BY <1>5, <1>6, <3>2
      <4> QED BY <4>1, StillWritten
    <3> QED BY <3>1, <3>2
  <2> QED BY <2>9 DEF Written
<1> QED BY <1>6

(* After every other step no definition is under way.                        *)
LEMMA Undefining ==
    ASSUME Sound, Nest, Nest', Next, level' < Syntax,
           ~OtherLine, ~MacroLine, ~BodyLine, ~LastPass
    PROVE  defCtx' = NoCtx
<1>1. defining' = 0 \/ depth' = 0 => defCtx' = NoCtx
  BY DEF Nest, NoCtx
<1>2. CASE EndmLine
  <2>1. defining' = 0 \/ status' \in {"aborted", "undefined"}
    <3>1. \A h : BadFree(h) \in {"aborted", "undefined"}
      BY DEF BadFree
    <3> QED BY <1>2, <3>1 DEF EndmLine, Closes, Break
  <2> QED BY <1>1, <2>1 DEF Nest
<1>3. CASE StrayEndm \/ CondLine \/ SectionLine \/ IncludeLine \/ CallLine
  BY <1>1, <1>3 DEF StrayEndm, CondLine, SectionLine, IncludeLine, CallLine, Assembled
<1>4. CASE EndProg
  BY <1>4, Ends DEF Clean
<1>5. CASE BeginFile \/ NextPass
  BY <1>5 DEF BeginFile, NextPass, BetweenPasses, Nest
<1> QED BY <1>2, <1>3, <1>4, <1>5 DEF Next

LEMMA NextBodies == ASSUME Sound, Clean, Bodies, [Next]_vars PROVE Bodies'
<1> SUFFICES ASSUME level' < Syntax PROVE Written' /\ Recorded'
  BY DEF Bodies, Syntax
<1>1. level < Syntax
  BY Earlier DEF Sound
<1>2. Nest /\ Written /\ Recorded
  BY <1>1 DEF Clean, Bodies
<1>3. Sound' /\ Nest'
  BY NextSound, NextClean DEF Clean
<1>4. /\ text' = text /\ Complete \subseteq Complete'
      /\ \A m \in Complete : macros'[m].body = macros[m].body
      /\ Complete' = Complete \/ (EndmLine /\ defCtx # NoCtx)
  BY Frozen
<1>5. Written'
  <2>1. CASE Complete' = Complete
    BY <1>2, <1>4, <2>1, StillWritten DEF Written
  <2>2. CASE EndmLine /\ defCtx # NoCtx
    BY <1>2, <1>3, <1>4, <2>2, EndmWritten
  <2> QED BY <1>4, <2>1, <2>2
<1>6. ASSUME defCtx' # NoCtx
      PROVE  Recorded'
  <2>1. CASE MacroLine
    BY <1>2, <1>3, <1>6, <2>1, MacroRecorded
  <2>2. CASE OtherLine
    <3>1. defCtx # NoCtx
      BY <1>6, <2>2 DEF OtherLine
    <3>2. Complete' = Complete
      BY <1>4, <2>2 DEF OtherLine, EndmLine, Closes, Complete, ReadLine
    <3> QED BY <1>2, <1>3, <1>4, <2>2, <3>1, <3>2, BlankRecorded
  <2>3. CASE BodyLine
    <3>1. defCtx # NoCtx
      BY <1>6, <2>3 DEF BodyLine, Break
    <3>2. Complete' = Complete
      BY <1>4, <2>3 DEF BodyLine, EndmLine
    <3> QED BY <1>2, <1>3, <1>4, <2>3, <3>1, <3>2, BodyRecorded
  <2>4. CASE LastPass \/ UNCHANGED vars
    <3>1. UNCHANGED <<text, stack, macros, defining, defCtx>>
      BY <2>4 DEF LastPass, vars
    <3>2. Ctx' = Ctx
      BY <3>1 DEF Ctx, Running, Active
    <3>3. Lines(Ctx.prog)' = Lines(Ctx.prog)
      BY <3>1, <3>2 DEF Lines
    <3>4. \A ls, m, i, k : Recording(ls, m, i, k)' <=> Recording(ls, m, i, k)
      BY <3>1 DEF Recording
    <3> QED BY <1>2, <3>1, <3>2, <3>3, <3>4 DEF Recorded
  <2> QED BY <1>2, <1>3, <1>6, <2>1, <2>2, <2>3, <2>4, Undefining DEF Next
<1>7. defCtx' = NoCtx => Recorded'
  BY DEF Recorded
<1> QED BY <1>5, <1>6, <1>7

(* While a pass is free of errors every macro that is completely defined has *)
(* the lines of a definition of its name for its body, in one of the files   *)
(* or in the body of another: what add_line() has recorded and no later pass *)
(* changes.                                                                  *)
THEOREM MacrosAreAsWritten == Spec => []BodiesAsWritten
<1>1. Init => Sound /\ Clean /\ Bodies
  BY InitSound, InitClean, InitBodies
<1>2. Sound /\ Clean /\ Bodies /\ [Next]_vars => (Sound /\ Clean /\ Bodies)'
  BY NextSound, NextClean, NextBodies
<1>3. Bodies => BodiesAsWritten
  <2> SUFFICES ASSUME Bodies, level < Syntax, NEW m \in Complete
               PROVE  \E ls \in {text[f] : f \in DOMAIN text} \cup
                                    {macros[n].body : n \in DOMAIN macros} :
                          \E i, k \in DOMAIN ls : i < k /\ DefinedAt(ls, m, i, k)
    BY DEF BodiesAsWritten
  <2>1. PICK p \in ProgsOf(DOMAIN text, Complete) :
            \E i, k \in DOMAIN Lines(p) : i < k /\ DefinedAt(Lines(p), m, i, k)
    BY DEF Bodies, Written
  <2>2. Lines(p) \in {text[f] : f \in DOMAIN text} \cup {macros[n].body : n \in DOMAIN macros}
    BY <2>1 DEF Lines, ProgsOf, Complete
  <2> QED BY <2>1, <2>2
<1> QED BY <1>1, <1>2, <1>3, PTL DEF Spec

-----------------------------------------------------------------------------
(* Where a place leads, as the lines there have it, ...                      *)
Innermost(a) == a.progs[Len(a.progs)]
AtEnd(a)     == Innermost(a).line >= Len(Lines(Innermost(a).prog))
LineOf(a)    == Lines(Innermost(a).prog)[Innermost(a).line + 1]
Seen(a)      == Included(Innermost(a).cond)
Passed(a)    == [a.progs EXCEPT ![Len(a.progs)].line = @ + 1]

Entry(p, s) ==
    [prog |-> p, line |-> 0, cond |-> NoConds, section |-> s, defines |-> FALSE]

Entered(l) == [type |-> IF l.op = "include" THEN "file" ELSE "macro", name |-> l.name]

CondOf(l, c) ==
    CASE l.op = "if"    -> AfterIf(c, l.name = "yes")
      [] l.op = "elsif" -> AfterElsif(c, l.name = "yes")
      [] l.op = "else"  -> AfterElse(c)
      [] l.op = "endif" -> AfterEndif(c)

ProgsAfter(a) ==
    CASE a.defining = 0 /\ LineOf(a).op \in CondKinds ->
            [Passed(a) EXCEPT ![Len(a.progs)].cond = CondOf(LineOf(a), Innermost(a).cond)]
      [] a.defining = 0 /\ Seen(a) /\ LineOf(a).op \in {"include", "call"} ->
            Append(Passed(a), Entry(Entered(LineOf(a)), a.section))
      [] OTHER -> Passed(a)

SectionAfter(a) ==
    IF a.defining = 0 /\ Seen(a) /\ LineOf(a).op = "section" THEN LineOf(a).name ELSE a.section

DefiningAfter(a) ==
    CASE Seen(a) /\ LineOf(a).op = "macro"              -> a.defining + 1
      [] Seen(a) /\ LineOf(a).op \in {"endm", "badendm"} -> a.defining - 1
      [] OTHER                                          -> a.defining

AfterFile(a) ==
    [queue    |-> Tail(a.queue),
     progs    |-> <<Entry([type |-> "file", name |-> Head(a.queue)], a.section)>>,
     section  |-> a.section,
     defining |-> a.defining]

AfterEnd(a) ==
    [queue    |-> a.queue,
     progs    |-> SubSeq(a.progs, 1, Len(a.progs) - 1),
     section  |-> IF Innermost(a).prog.type = "file" /\ Len(a.progs) > 1
                  THEN Innermost(a).section ELSE a.section,
     defining |-> a.defining]

AfterLine(a) ==
    [queue    |-> a.queue,
     progs    |-> ProgsAfter(a),
     section  |-> SectionAfter(a),
     defining |-> DefiningAfter(a)]

After(a) ==
    IF a.progs = <<>> THEN AfterFile(a)
    ELSE IF AtEnd(a) THEN AfterEnd(a) ELSE AfterLine(a)

(* ... when nothing is wrong there.                                          *)
Known(a) ==
    a.progs # <<>> => Innermost(a).prog \in ProgsOf(DOMAIN text, Complete)

LineOk(a) ==
    LET l == LineOf(a)
        c == Innermost(a).cond
    IN  /\ a.defining = 0 =>
               /\ l.op \in {"elsif", "else"} => ~Misplaced(c)
               /\ l.op = "endif" => Depth(c) # 0
        /\ a.defining = 0 /\ Seen(a) =>
               /\ l.op \in {"include", "call"} => Len(a.progs) < MaxDepth
               /\ l.op = "include" => l.name \in DOMAIN text
               /\ l.op = "call" => l.name \in DOMAIN macros
               /\ l.op = "macro" => l.name \in DOMAIN macros /\ l.name # "none"
        /\ Seen(a) =>
               /\ l.op = "endm" => a.defining > 0
               /\ l.op = "badendm" => a.defining > 1

Ok(a) ==
    /\ Known(a)
    /\ a.progs = <<>> => a.queue # <<>> /\ a.defining = 0
    /\ a.progs # <<>> /\ AtEnd(a) => a.defining = 0 /\ Depth(Innermost(a).cond) = 0
    /\ a.progs # <<>> /\ ~AtEnd(a) => LineOk(a)

(* Conditions that every pass finds alike.                                   *)
Steady == \A l \in AllLines : l.op \in {"if", "elsif"} => l.name # "later"

LEMMA Cut ==
    ASSUME NEW C, NEW s \in Seq(C), NEW n \in 0 .. Len(s)
    PROVE  /\ SubSeq(s, 1, n) \in Seq(C) /\ Len(SubSeq(s, 1, n)) = n
           /\ \A i \in 1 .. n : SubSeq(s, 1, n)[i] = s[i]
OBVIOUS

LEMMA SameSeq ==
    ASSUME NEW C, NEW s \in Seq(C), NEW D, NEW t \in Seq(D), Len(s) = Len(t),
           \A i \in 1 .. Len(s) : s[i] = t[i]
    PROVE  s = t
OBVIOUS

(* The place, while contexts nest.                                           *)
PlaceShape ==
    /\ Place = [queue |-> queue, progs |-> SubSeq(stack, 1, depth), section |-> section,
                defining |-> defining]
    /\ Place.progs \in Seq(Contexts) /\ Len(Place.progs) = depth /\ depth \in Nat
    /\ depth <= Len(stack)
    /\ \A i \in 1 .. depth : Place.progs[i] = stack[i]
    /\ Place.progs = <<>> <=> depth = 0
    /\ depth # 0 => Innermost(Place) = Ctx /\ Ctx = stack[depth] /\ Ctx \in Contexts
                    /\ Ctx.prog \in ProgsOf(DOMAIN text, Complete) /\ Running = depth

LEMMA Placed == Sound /\ Nest => PlaceShape
<1> SUFFICES ASSUME Sound, Nest PROVE PlaceShape
  OBVIOUS
<1>1. /\ stack \in Seq(Contexts) /\ Len(stack) \in Nat /\ depth \in Nat
      /\ Len(stack) = (IF defCtx = NoCtx THEN depth ELSE depth + 1)
      /\ (depth # 0 => Running = depth)
      /\ (depth = 0 => stack = <<>>)
      /\ (defCtx = NoCtx \/ defCtx = depth + 1)
  BY Heights
<1> DEFINE s == SubSeq(stack, 1, depth)
<1>2. s \in Seq(Contexts) /\ Len(s) = depth /\ (\A i \in 1 .. depth : s[i] = stack[i])
      /\ depth <= Len(stack) /\ (s = <<>> <=> depth = 0)
  BY <1>1
<1>3. Place = [queue |-> queue, progs |-> s, section |-> section, defining |-> defining]
      /\ Place.progs = s
  BY <1>1, <1>2 DEF Place
<1> HIDE DEF s
<1>4. ASSUME depth # 0
      PROVE  Innermost(Place) = Ctx /\ Ctx = stack[depth] /\ Ctx \in Contexts
             /\ Ctx.prog \in ProgsOf(DOMAIN text, Complete)
  <2>1. depth \in 1 .. depth /\ depth \in 1 .. Len(stack)
    BY <1>1, <1>2, <1>4
  <2>2. Ctx = stack[depth] /\ Ctx \in Contexts
    BY <1>1, <1>4, <2>1 DEF Ctx
  <2>3. Innermost(Place) = Ctx
    BY <1>2, <1>3, <2>1, <2>2 DEF Innermost
  <2>4. Ctx.prog \in ProgsOf(DOMAIN text, DOMAIN macros)
    BY <2>2 DEF Contexts, ContextsOf
  <2>5. ASSUME defCtx # NoCtx, Ctx.prog.type = "macro"
        PROVE  Ctx.prog.name # stack[defCtx].prog.name
    <3>1. stack[defCtx].prog.type = "macro" /\ defCtx = depth + 1
          /\ stack[defCtx].prog \in ProgsOf(DOMAIN text, DOMAIN macros)
      <4>1. defCtx = depth + 1 /\ defCtx \in 1 .. Len(stack)
        BY <1>1, <2>5
      <4>2. stack[defCtx] \in Contexts
        BY <1>1, <4>1
      <4> QED BY <1>1, <4>1, <4>2 DEF Sound, Stacked, NoCtx, Contexts, ContextsOf
    <3>2. Ctx.prog # stack[defCtx].prog
      BY <1>1, <2>1, <2>2, <2>5, <3>1 DEF Nest
    <3> QED BY <2>4, <2>5, <3>1, <3>2 DEF ProgsOf
  <2>6. Ctx.prog \in ProgsOf(DOMAIN text, Complete)
    BY <2>4, <2>5 DEF ProgsOf, Complete
  <2> QED BY <2>2, <2>3, <2>6
<1> QED BY <1>1, <1>2, <1>3, <1>4 DEF PlaceShape, s

LEMMA PlacedNext == (Sound /\ Nest)' => PlaceShape'
BY Placed, PTL

(* The line at the place where assembly is.                                  *)
LEMMA LineHere ==
    ASSUME Sound, Nest, ReadLine
    PROVE  /\ Place.progs # <<>> /\ ~AtEnd(Place) /\ After(Place) = AfterLine(Place)
           /\ LineOf(Place) = Line /\ Innermost(Place) = Ctx
           /\ Seen(Place) <=> Included(Ctx.cond)
           /\ Place.queue = queue /\ Place.section = section /\ Place.defining = defining
           /\ Len(Place.progs) = depth /\ depth # 0 /\ depth \in Nat /\ Line \in AllLines
           /\ Assembling /\ ~Ended
<1>1. Assembling /\ ~Ended /\ depth # 0
  BY DEF ReadLine, Assembling, Sound, Types
<1>2. PlaceShape
  BY Placed
<1>3. Innermost(Place) = Ctx /\ Place.progs # <<>>
  BY <1>1, <1>2 DEF PlaceShape
<1>4. LineOf(Place) = Line /\ ~AtEnd(Place) /\ (Seen(Place) <=> Included(Ctx.cond))
  BY <1>1, <1>3 DEF LineOf, Line, AtEnd, Ended, Seen
<1>5. Line \in AllLines
  BY <1>1, LineIs DEF Sound
<1> QED BY <1>1, <1>2, <1>3, <1>4, <1>5 DEF PlaceShape, After

LEMMA PassedIs ==
    ASSUME Sound, Nest, Assembling
    PROVE  /\ Passed(Place) \in Seq(Contexts) /\ Len(Passed(Place)) = depth
           /\ \A i \in 1 .. depth : Passed(Place)[i] = Moved[i]
<1>1. PlaceShape /\ depth # 0
  BY Placed DEF Assembling, Sound, Types
<1>2. /\ Place.progs \in Seq(Contexts) /\ Len(Place.progs) = depth /\ depth \in Nat
      /\ depth \in 1 .. depth /\ depth <= Len(stack)
      /\ (\A i \in 1 .. depth : Place.progs[i] = stack[i])
      /\ Running = depth /\ Len(stack) \in Nat
  BY <1>1 DEF PlaceShape, Sound, Types
<1> DEFINE ps == Place.progs
           c  == [stack[depth] EXCEPT !.line = @ + 1]
<1>3. \A i \in 1 .. Len(stack) : Moved[i] = IF i = Running THEN [stack[i] EXCEPT !.line = @ + 1] ELSE stack[i]
  BY MovedIs DEF Sound
<1>4. c \in Contexts
  <2>1. stack[depth] \in Contexts
    BY <1>1, <1>2 DEF PlaceShape
  <2> QED BY <2>1 DEF Contexts, ContextsOf
<1>5. Passed(Place) = [ps EXCEPT ![depth] = c]
  BY <1>2 DEF Passed
<1>6. Passed(Place) \in Seq(Contexts) /\ Len(Passed(Place)) = depth
      /\ (\A i \in 1 .. depth : Passed(Place)[i] = IF i = depth THEN c ELSE ps[i])
  <2> HIDE DEF ps, c
  <2>1. ps \in Seq(Contexts) /\ Len(ps) = depth
    BY <1>2 DEF ps
  <2> QED BY <1>2, <1>4, <1>5, <2>1
<1>7. \A i \in 1 .. depth : i \in 1 .. Len(stack)
  BY <1>2
<1> QED BY <1>2, <1>3, <1>6, <1>7

(* Lines that only move on, and those that begin another program.            *)
LEMMA MovedLeads ==
    ASSUME Sound, Nest, Sound', Nest', ReadLine, depth' = depth,
           \A i \in 1 .. depth : stack'[i] = Moved[i],
           ProgsAfter(Place) = Passed(Place),
           section' = SectionAfter(Place), defining' = DefiningAfter(Place)
    PROVE  Place' = After(Place)
<1>1. Assembling /\ queue' = queue /\ After(Place) = AfterLine(Place) /\ Place.queue = queue
  BY LineHere DEF ReadLine
<1>2. PlaceShape'
  BY PlacedNext
<1>3. Passed(Place) \in Seq(Contexts) /\ Len(Passed(Place)) = depth
      /\ \A i \in 1 .. depth : Passed(Place)[i] = Moved[i]
  BY <1>1, PassedIs
<1>4. Place'.progs \in Seq(Contexts') /\ Len(Place'.progs) = depth /\ depth \in Nat
      /\ \A i \in 1 .. depth : Place'.progs[i] = stack'[i]
  BY <1>2 DEF PlaceShape
<1>5. Place'.progs = Passed(Place)
  <2>1. \A i \in 1 .. depth : Place'.progs[i] = Passed(Place)[i]
    BY <1>3, <1>4
  <2> QED BY <1>3, <1>4, <2>1, SameSeq
<1> QED BY <1>1, <1>2, <1>5 DEF PlaceShape, AfterLine

LEMMA EnterLeads ==
    ASSUME Sound, Nest, Sound', Nest', ReadLine, NEW p, defCtx = NoCtx,
           stack' = Append(Moved, Context(p, FALSE)), depth' = depth + 1,
           ProgsAfter(Place) = Append(Passed(Place), Entry(p, section)),
           section' = SectionAfter(Place), defining' = DefiningAfter(Place)
    PROVE  Place' = After(Place)
<1>1. Assembling /\ queue' = queue /\ After(Place) = AfterLine(Place) /\ Place.queue = queue
  BY LineHere DEF ReadLine
<1>2. PlaceShape'
  BY PlacedNext
<1> DEFINE e == Entry(p, section)
           b == Append(Passed(Place), e)
<1>3. Passed(Place) \in Seq(Contexts) /\ Len(Passed(Place)) = depth
      /\ \A i \in 1 .. depth : Passed(Place)[i] = Moved[i]
  BY <1>1, PassedIs
<1>4. Place'.progs \in Seq(Contexts') /\ Len(Place'.progs) = depth + 1 /\ depth + 1 \in Nat
      /\ \A i \in 1 .. depth + 1 : Place'.progs[i] = stack'[i]
  BY <1>2 DEF PlaceShape
<1>5. depth \in Nat /\ Len(Moved) = depth /\ Moved \in Seq(Contexts)
  BY <1>1, Heights, MovedIs DEF Sound
<1>6. e = Context(p, FALSE)
  BY DEF Entry, Context
<1> HIDE DEF e
<1>7. \A i \in 1 .. depth + 1 : stack'[i] = IF i = depth + 1 THEN e ELSE Moved[i]
  <2>1. \A c : \A i \in 1 .. depth + 1 :
            Append(Moved, c)[i] = IF i = depth + 1 THEN c ELSE Moved[i]
    BY <1>5
  <2> QED BY <1>6, <2>1
<1>8. b \in Seq(Contexts \cup {e}) /\ Len(b) = depth + 1
      /\ \A i \in 1 .. depth + 1 : b[i] = IF i = depth + 1 THEN e ELSE Passed(Place)[i]
  <2> HIDE DEF b
  <2>1. Passed(Place) \in Seq(Contexts \cup {e})
    BY <1>3
  <2> QED BY <1>3, <1>5, <2>1 DEF b
<1>9. \A i \in 1 .. depth + 1 : Place'.progs[i] = b[i]
  <2>1. \A i \in 1 .. depth + 1 : i = depth + 1 \/ i \in 1 .. depth
    BY <1>5
  <2> HIDE DEF b
  <2> QED BY <1>3, <1>4, <1>7, <1>8, <2>1
<1>10. Place'.progs = b
  <2> HIDE DEF b
  <2> QED BY <1>4, <1>8, <1>9, SameSeq
<1> QED BY <1>1, <1>2, <1>10 DEF PlaceShape, AfterLine, e

(* Each step of an error-free pass leads where its place does.               *)
Going == Next /\ ~NextPass /\ ~LastPass

LEMMA Leads ==
    ASSUME Sound, Clean, Going, Steady, level' < Syntax
    PROVE  Place' = After(Place)
<1>1. Nest
  BY Earlier DEF Sound, Clean, Going
<1>2. Sound' /\ Nest'
  BY NextSound, NextClean DEF Going, Clean
<1>3. ASSUME ReadLine
      PROVE  /\ LineOf(Place) = Line /\ Innermost(Place) = Ctx
             /\ Seen(Place) <=> Included(Ctx.cond)
             /\ Place.section = section /\ Place.defining = defining
             /\ Len(Place.progs) = depth /\ depth # 0 /\ depth \in Nat /\ Line \in AllLines
             /\ Assembling
  BY <1>1, <1>3, LineHere
<1>4. CondKinds = {"if", "elsif", "else", "endif"}
  BY DEF CondKinds
<1>5. ASSUME Assembling
      PROVE  \A i \in 1 .. depth : i \in 1 .. Len(stack) /\ i \in 1 .. Len(Moved)
  <2>1. Len(Moved) = Len(stack) /\ depth \in Nat /\ Len(stack) \in Nat
        /\ Len(stack) = IF defCtx = NoCtx THEN depth ELSE depth + 1
    BY <1>1, <1>5, MovedIs, Heights DEF Sound
  <2> QED BY <2>1
<1>6. CASE OtherLine
  <2>1. ReadLine /\ stack' = Moved /\ UNCHANGED <<section, defining, depth>>
    BY <1>6 DEF OtherLine
  <2>2. \/ Line.op = "blank"
        \/ defining = 0 /\ Line.op \notin CondKinds /\ (Included(Ctx.cond) => Line.op = "plain")
    BY <1>6 DEF OtherLine
  <2>3. ProgsAfter(Place) = Passed(Place)
    BY <1>3, <1>4, <2>1, <2>2 DEF ProgsAfter
  <2>4. section' = SectionAfter(Place) /\ defining' = DefiningAfter(Place)
    BY <1>3, <2>1, <2>2 DEF SectionAfter, DefiningAfter
  <2> QED BY <1>1, <1>2, <2>1, <2>3, <2>4, MovedLeads
<1>7. CASE MacroLine
  <2>1. ReadLine /\ Opens /\ defining = 0 /\ defining' = 1 /\ UNCHANGED <<section, depth>>
    BY <1>7 DEF MacroLine
  <2>2. \A i \in 1 .. depth : stack'[i] = Moved[i]
    <3>1. stack' = Moved \/ stack' = Append(Moved, Context(Named(Line.name), TRUE))
      BY <1>7 DEF MacroLine
    <3>2. \A c : \A i \in 1 .. Len(Moved) : Append(Moved, c)[i] = Moved[i]
      BY <1>3, <2>1, MovedIs DEF Sound
    <3> QED BY <1>3, <1>5, <2>1, <3>1, <3>2
  <2>3. ProgsAfter(Place) = Passed(Place)
    BY <1>3, <1>4, <2>1 DEF ProgsAfter, Opens
  <2>4. section' = SectionAfter(Place) /\ defining' = DefiningAfter(Place)
    BY <1>3, <2>1 DEF SectionAfter, DefiningAfter, Opens
  <2> QED BY <1>1, <1>2, <2>1, <2>2, <2>3, <2>4, MovedLeads
<1>8. CASE BodyLine
  <2>1. ReadLine /\ defining > 0 /\ defining \in Nat
    BY <1>8 DEF BodyLine, Sound, Types
  <2>2. defCtx # Dangling
    BY <1>1, Heights DEF NoCtx, Dangling
  <2>3. stack' = Moved /\ UNCHANGED <<section, depth>> /\ defining' = LevelAfter
    BY <1>8, <2>2 DEF BodyLine
  <2>4. ProgsAfter(Place) = Passed(Place)
    BY <1>3, <2>1 DEF ProgsAfter
  <2>5. section' = SectionAfter(Place)
    BY <1>3, <2>1, <2>3 DEF SectionAfter
  <2>6. defining' = DefiningAfter(Place)
    <3>1. (Opens <=> Seen(Place) /\ LineOf(Place).op = "macro")
          /\ (Closes <=> Seen(Place) /\ LineOf(Place).op \in {"endm", "badendm"})
      BY <1>3, <2>1 DEF Opens, Closes
    <3>2. ~(Opens /\ Closes)
      BY DEF Opens, Closes
    <3> QED BY <1>3, <2>1, <2>3, <3>1, <3>2 DEF LevelAfter, DefiningAfter
  <2> QED BY <1>1, <1>2, <2>1, <2>3, <2>4, <2>5, <2>6, MovedLeads
<1>9. CASE EndmLine
  <2>1. ReadLine /\ Closes /\ defining = 1
    BY <1>9 DEF EndmLine
  <2>2. defining' = 0 /\ UNCHANGED <<section, depth>>
        /\ (stack' = Moved \/ (defCtx > NoCtx /\ stack' = SubSeq(Moved, 1, defCtx - 1)))
    <3>1. status' \notin {"aborted", "undefined"}
      BY <1>2 DEF Nest
    <3>2. \A h : BadFree(h) \in {"aborted", "undefined"}
      BY DEF BadFree
    <3> QED BY <1>9, <2>1, <3>1, <3>2 DEF EndmLine, Closes, Break
  <2>3. \A i \in 1 .. depth : stack'[i] = Moved[i]
    <3>1. CASE defCtx > NoCtx /\ stack' = SubSeq(Moved, 1, defCtx - 1)
      <4>1. defCtx = depth + 1 /\ Len(Moved) = depth + 1 /\ Moved \in Seq(Contexts) /\ depth \in Nat
        BY <1>1, <1>3, <2>1, <3>1, Heights, MovedIs DEF Sound, NoCtx
      <4> QED BY <3>1, <4>1
    <3> QED BY <2>2, <3>1
  <2>4. ProgsAfter(Place) = Passed(Place)
    BY <1>3, <2>1 DEF ProgsAfter
  <2>5. section' = SectionAfter(Place) /\ defining' = DefiningAfter(Place)
    BY <1>3, <2>1, <2>2 DEF SectionAfter, DefiningAfter, Closes
  <2> QED BY <1>1, <1>2, <2>1, <2>2, <2>3, <2>4, <2>5, MovedLeads
<1>10. CASE StrayEndm
  <2>1. Syntax \in {None, Syntax, Fatal} /\ Syntax # None /\ Report(Syntax)
    BY <1>10 DEF None, Syntax, StrayEndm
  <2> QED BY <2>1, Clear DEF Sound
<1>11. CASE SectionLine
  <2>1. ReadLine /\ defining = 0 /\ Line.op = "section" /\ Included(Ctx.cond) /\ stack' = Moved
        /\ section' = Line.name /\ UNCHANGED <<defining, depth>>
    BY <1>11 DEF SectionLine, Assembled
  <2>2. ProgsAfter(Place) = Passed(Place)
    BY <1>3, <1>4, <2>1 DEF ProgsAfter
  <2>3. section' = SectionAfter(Place) /\ defining' = DefiningAfter(Place)
    BY <1>3, <2>1 DEF SectionAfter, DefiningAfter
  <2> QED BY <1>1, <1>2, <2>1, <2>2, <2>3, MovedLeads
<1>12. CASE IncludeLine
  <2>1. ReadLine /\ defining = 0 /\ Line.op = "include" /\ Included(Ctx.cond)
        /\ UNCHANGED <<pass, macros, section, defining, defCtx, status>>
    BY <1>12 DEF IncludeLine, Assembled, ReadLine
  <2>2. Line.name \in DOMAIN text
    <3>1. Fatal \in {None, Syntax, Fatal} /\ Fatal # None
      BY DEF None, Fatal
    <3> QED BY <1>12, <3>1, Clear DEF IncludeLine, Sound
  <2> DEFINE p == [type |-> "file", name |-> Line.name]
  <2>3. Enter(p, Moved) /\ p \in ProgsOf(DOMAIN text, DOMAIN macros)
    BY <1>12, <2>2 DEF IncludeLine, ProgsOf
  <2>4. Moved \in Seq(Contexts) /\ Len(Moved) = Len(stack)
        /\ \A i \in 1 .. Len(stack) : Moved[i].defines = stack[i].defines
    BY <1>3, <2>1, MovedIs DEF Sound
  <2>5. defCtx = NoCtx /\ stack' = Append(Moved, Context(p, FALSE)) /\ depth' = depth + 1
    <3> HIDE DEF p
    <3> QED BY <2>1, <2>3, <2>4, EnterClean
  <2>6. ProgsAfter(Place) = Append(Passed(Place), Entry(p, section))
    BY <1>3, <1>4, <2>1 DEF ProgsAfter, Entered
  <2>7. section' = SectionAfter(Place) /\ defining' = DefiningAfter(Place)
    BY <1>3, <2>1 DEF SectionAfter, DefiningAfter
  <2> HIDE DEF p
  <2> QED BY <1>1, <1>2, <2>1, <2>5, <2>6, <2>7, EnterLeads
<1>13. CASE CallLine
  <2>1. ReadLine /\ defining = 0 /\ Line.op = "call" /\ Included(Ctx.cond)
        /\ UNCHANGED <<pass, macros, section, defining, defCtx, status>>
    BY <1>13 DEF CallLine, Assembled, ReadLine
  <2>2. Line.name \in DOMAIN macros
    <3>1. Syntax \in {None, Syntax, Fatal} /\ Syntax # None
      BY DEF None, Syntax
    <3> QED BY <1>13, <3>1, Clear DEF CallLine, Sound
  <2> DEFINE p == Named(Line.name)
  <2>3. Enter(p, Moved) /\ p \in ProgsOf(DOMAIN text, DOMAIN macros)
    BY <1>13, <2>2 DEF CallLine, ProgsOf, Named
  <2>4. Moved \in Seq(Contexts) /\ Len(Moved) = Len(stack)
        /\ \A i \in 1 .. Len(stack) : Moved[i].defines = stack[i].defines
    BY <1>3, <2>1, MovedIs DEF Sound
  <2>5. defCtx = NoCtx /\ stack' = Append(Moved, Context(p, FALSE)) /\ depth' = depth + 1
    <3> HIDE DEF p
    <3> QED BY <2>1, <2>3, <2>4, EnterClean
  <2>6. ProgsAfter(Place) = Append(Passed(Place), Entry(p, section))
    BY <1>3, <1>4, <2>1 DEF ProgsAfter, Entered, Named
  <2>7. section' = SectionAfter(Place) /\ defining' = DefiningAfter(Place)
    BY <1>3, <2>1 DEF SectionAfter, DefiningAfter
  <2> HIDE DEF p
  <2> QED BY <1>1, <1>2, <2>1, <2>5, <2>6, <2>7, EnterLeads
<1>14. CASE CondLine
  <2>1. ReadLine /\ defining = 0 /\ Line.op \in CondKinds /\ UNCHANGED <<section, defining, depth>>
        /\ stack' = [Moved EXCEPT ![Running].cond = AfterCond(Ctx.cond)]
    BY <1>14 DEF CondLine
  <2>2. After(Place) = AfterLine(Place) /\ Place.queue = queue /\ queue' = queue
    BY <1>1, <2>1, LineHere DEF ReadLine
  <2>3. PlaceShape' /\ PlaceShape
    BY <1>1, <1>2, Placed, PlacedNext
  <2>4. Passed(Place) \in Seq(Contexts) /\ Len(Passed(Place)) = depth
        /\ \A i \in 1 .. depth : Passed(Place)[i] = Moved[i]
    BY <1>1, <1>3, <2>1, PassedIs
  <2> DEFINE c == AfterCond(Ctx.cond)
  <2>5. c = CondOf(Line, Ctx.cond)
    <3>1. Line.op \in {"if", "elsif"} => (Holds <=> Line.name = "yes") /\ Holds \in BOOLEAN
      BY <1>3, <2>1 DEF Steady, Holds
    <3> QED BY <1>4, <2>1, <3>1 DEF AfterCond, CondOf, Holds
  <2>6. c \in Conds
    <3>1. Ctx.cond \in Conds /\ Holds \in BOOLEAN
      BY <1>3, <2>1, LineIs DEF Contexts, ContextsOf, Holds, Sound
    <3> QED BY <2>1, <3>1, CondTypes DEF AfterCond, CondKinds
  <2> HIDE DEF c
  <2> DEFINE b == [Passed(Place) EXCEPT ![depth] = [Passed(Place)[depth] EXCEPT !.cond = c]]
  <2>7. ProgsAfter(Place) = b
    <3>1. ProgsAfter(Place) = [Passed(Place) EXCEPT ![Len(Place.progs)].cond =
                                   CondOf(LineOf(Place), Innermost(Place).cond)]
      <4>1. Place.defining = 0 /\ LineOf(Place).op \in CondKinds
        BY <1>3, <2>1
      <4>2. LineOf(Place).op \notin {"include", "call"}
        BY <1>4, <4>1
      <4> QED BY <4>1, <4>2 DEF ProgsAfter
    <3>2. Len(Place.progs) = depth /\ CondOf(LineOf(Place), Innermost(Place).cond) = c
      BY <1>3, <2>1, <2>5
    <3> QED BY <3>1, <3>2
  <2>8. depth \in 1 .. depth /\ Running = depth
    BY <1>3, <2>1, <2>3 DEF PlaceShape
  <2>9. [Passed(Place)[depth] EXCEPT !.cond = c] \in Contexts
    <3>1. Passed(Place)[depth] \in Contexts
      BY <2>4, <2>8
    <3> QED BY <2>6, <3>1 DEF Contexts, ContextsOf
  <2>10. b \in Seq(Contexts) /\ Len(b) = depth
         /\ \A i \in 1 .. depth :
                b[i] = IF i = depth THEN [Passed(Place)[depth] EXCEPT !.cond = c] ELSE Passed(Place)[i]
    BY <2>4, <2>8, <2>9
  <2> HIDE DEF b
  <2>11. Place'.progs \in Seq(Contexts') /\ Len(Place'.progs) = depth
         /\ \A i \in 1 .. depth : Place'.progs[i] = stack'[i]
    BY <2>1, <2>3 DEF PlaceShape
  <2>12. \A i \in 1 .. depth : stack'[i] = IF i = depth THEN [Moved[depth] EXCEPT !.cond = c] ELSE Moved[i]
    <3>1. stack' = [Moved EXCEPT ![depth] = [Moved[depth] EXCEPT !.cond = c]]
      BY <2>1, <2>8 DEF c
    <3>2. Moved \in Seq(Contexts)
      BY <1>3, <2>1, MovedIs DEF Sound
    <3> QED BY <1>3, <1>5, <2>1, <3>1, <3>2
  <2>13. \A i \in 1 .. depth : Place'.progs[i] = b[i]
    BY <2>4, <2>8, <2>10, <2>11, <2>12
  <2>14. Place'.progs = ProgsAfter(Place)
    BY <2>7, <2>10, <2>11, <2>13, SameSeq
  <2>15. section' = SectionAfter(Place) /\ defining' = DefiningAfter(Place)
    BY <1>3, <1>4, <2>1 DEF SectionAfter, DefiningAfter
  <2> QED BY <2>2, <2>3, <2>14, <2>15 DEF PlaceShape, AfterLine
<1>15. CASE EndProg
  <2>1. /\ Running = depth /\ depth # 0
        /\ stack' = SubSeq(stack, 1, depth - 1) /\ depth' = depth - 1
        /\ section' = IF Ctx.prog.type = "file" /\ depth > 1 THEN Ctx.section ELSE section
        /\ UNCHANGED <<text, pass, queue, macros, defining, status>>
    BY <1>15, Ends
  <2>2. PlaceShape' /\ PlaceShape /\ Ended
    BY <1>1, <1>2, <1>15, Placed, PlacedNext DEF EndProg
  <2>3. Place.progs # <<>> /\ Innermost(Place) = Ctx /\ AtEnd(Place)
    BY <2>1, <2>2 DEF PlaceShape, AtEnd, Ended
  <2>4. After(Place) = AfterEnd(Place)
    BY <2>3 DEF After
  <2>5. /\ Place.progs \in Seq(Contexts) /\ Len(Place.progs) = depth /\ depth \in Nat
        /\ (\A i \in 1 .. depth : Place.progs[i] = stack[i])
        /\ depth <= Len(stack) /\ stack \in Seq(Contexts)
    BY <2>2 DEF PlaceShape, Sound, Types
  <2> DEFINE b == SubSeq(Place.progs, 1, depth - 1)
  <2>6. b \in Seq(Contexts) /\ Len(b) = depth - 1 /\ \A i \in 1 .. depth - 1 : b[i] = stack[i]
    <3>1. depth - 1 \in 0 .. Len(Place.progs)
      BY <2>1, <2>5
    <3>2. b \in Seq(Contexts) /\ Len(b) = depth - 1
          /\ \A i \in 1 .. depth - 1 : b[i] = Place.progs[i]
      BY <2>5, <3>1, Cut
    <3> QED BY <2>5, <3>2
  <2> HIDE DEF b
  <2>7. Place'.progs \in Seq(Contexts') /\ Len(Place'.progs) = depth - 1
        /\ \A i \in 1 .. depth - 1 : Place'.progs[i] = stack'[i]
    BY <2>1, <2>2 DEF PlaceShape
  <2>8. \A i \in 1 .. depth - 1 : stack'[i] = stack[i]
    BY <2>1, <2>5
  <2>9. Place'.progs = b
    <3>1. \A i \in 1 .. depth - 1 : Place'.progs[i] = b[i]
      BY <2>6, <2>7, <2>8
    <3> QED BY <2>6, <2>7, <3>1, SameSeq
  <2>10. Place.queue = queue /\ Place.section = section /\ Place.defining = defining
    BY <2>2 DEF PlaceShape
  <2> QED BY <2>1, <2>2, <2>3, <2>4, <2>5, <2>9, <2>10 DEF PlaceShape, AfterEnd, b
<1>16. CASE BeginFile
  <2> DEFINE p == [type |-> "file", name |-> Head(queue)]
  <2>1. depth = 0 /\ queue # <<>> /\ queue' = Tail(queue) /\ Enter(p, stack)
        /\ UNCHANGED <<text, pass, macros, defining, defCtx, args, section, status>>
    BY <1>16 DEF BeginFile
  <2>2. PlaceShape' /\ PlaceShape
    BY <1>1, <1>2, Placed, PlacedNext
  <2>3. queue \in Seq(DOMAIN text) /\ stack \in Seq(Contexts) /\ stack = <<>>
    BY <1>1, <2>1, Heights DEF Sound, Types
  <2>4. p \in ProgsOf(DOMAIN text, DOMAIN macros)
    BY <2>1, <2>3 DEF ProgsOf
  <2>5. stack' = Append(stack, Context(p, FALSE)) /\ depth' = 1
    <3> HIDE DEF p
    <3>1. stack' = Append(stack, Context(p, FALSE)) /\ depth' = depth + 1
      BY <2>1, <2>3, <2>4, EnterClean
    <3> QED BY <2>1, <3>1
  <2>6. Context(p, FALSE) = Entry(p, section)
    BY DEF Context, Entry
  <2>7. stack'[1] = Entry(p, section)
    <3>1. \A e : Append(<<>>, e)[1] = e
      OBVIOUS
    <3> QED BY <2>3, <2>5, <2>6, <3>1
  <2>8. Place'.progs = <<Entry(p, section)>>
    <3>1. Place'.progs \in Seq(Contexts') /\ Len(Place'.progs) = 1 /\ Place'.progs[1] = Entry(p, section)
      <4>1. 1 \in 1 .. 1
        OBVIOUS
      <4> QED BY <2>2, <2>5, <2>7, <4>1 DEF PlaceShape
    <3>2. \A e : <<e>> \in Seq({e}) /\ Len(<<e>>) = 1 /\ <<e>>[1] = e
      OBVIOUS
    <3>3. \A i \in 1 .. 1 : i = 1
      OBVIOUS
    <3> HIDE DEF p
    <3> QED BY <3>1, <3>2, <3>3, SameSeq
  <2>9. Place.progs = <<>> /\ Place.queue = queue /\ Place.section = section /\ Place.defining = defining
    BY <2>1, <2>2 DEF PlaceShape
  <2> QED BY <2>1, <2>2, <2>8, <2>9 DEF PlaceShape, After, AfterFile
<1> QED BY <1>6, <1>7, <1>8, <1>9, <1>10, <1>11, <1>12, <1>13, <1>14, <1>15, <1>16 DEF Going, Next

LEMMA Kept == ASSUME [Next]_vars PROVE text' = text /\ DOMAIN macros \subseteq DOMAIN macros'
<1>1. DOMAIN macros \subseteq DOMAIN WithMacro(Line.name)
  BY DEF WithMacro
<1>2. CASE MacroLine
  BY <1>1, <1>2 DEF MacroLine, ReadLine
<1>3. CASE BodyLine
  BY <1>3 DEF BodyLine, ReadLine, Break
<1>4. CASE EndmLine \/ EndProg
  BY <1>4 DEF EndmLine, EndProg, ReadLine, Break
<1>5. CASE OtherLine \/ StrayEndm \/ CondLine
  BY <1>5 DEF OtherLine, StrayEndm, CondLine, ReadLine
<1>6. CASE SectionLine \/ IncludeLine \/ CallLine
  BY <1>6 DEF SectionLine, IncludeLine, CallLine, Assembled, ReadLine
<1>7. CASE BeginFile \/ NextPass \/ LastPass \/ UNCHANGED vars
  BY <1>7 DEF BeginFile, NextPass, LastPass, vars
<1> QED BY <1>2, <1>3, <1>4, <1>5, <1>6, <1>7 DEF Next

(* What is known of a place stays so.                                        *)
LEMMA FrozenPlace ==
    ASSUME text' = text, Complete \subseteq Complete', DOMAIN macros \subseteq DOMAIN macros',
           \A m \in Complete : macros'[m].body = macros[m].body, NEW a
    PROVE  Known(a) => /\ Known(a)' /\ After(a)' = After(a) /\ (Ok(a) => Ok(a)')
                       /\ a.progs # <<>> => (LineOf(a)' = LineOf(a) /\ (AtEnd(a)' <=> AtEnd(a)))
<1> SUFFICES ASSUME Known(a)
             PROVE  /\ Known(a)' /\ After(a)' = After(a) /\ (Ok(a) => Ok(a)')
                    /\ a.progs # <<>> => (LineOf(a)' = LineOf(a) /\ (AtEnd(a)' <=> AtEnd(a)))
  OBVIOUS
<1>1. CASE a.progs = <<>>
  BY <1>1 DEF After, AfterFile, Ok, Known
<1>2. CASE a.progs # <<>>
  <2>1. Innermost(a).prog \in ProgsOf(DOMAIN text, Complete)
    BY <1>2 DEF Known
  <2>2. \A p \in ProgsOf(DOMAIN text, Complete) :
            p \in ProgsOf(DOMAIN text', Complete') /\ Lines(p)' = Lines(p)
    BY FrozenLines
  <2>3. Lines(Innermost(a).prog)' = Lines(Innermost(a).prog) /\ Known(a)'
    BY <2>1, <2>2 DEF Known, Innermost
  <2>4. LineOf(a)' = LineOf(a) /\ (AtEnd(a)' <=> AtEnd(a))
    BY <2>3 DEF LineOf, AtEnd, Innermost
  <2>5. After(a)' = After(a)
    BY <2>4 DEF After, AfterFile, AfterEnd, AfterLine, ProgsAfter, SectionAfter, DefiningAfter,
                Innermost, Seen, Passed
  <2>6. LineOk(a) => LineOk(a)'
    BY <2>4 DEF LineOk, Innermost, Seen
  <2>7. Ok(a) => Ok(a)'
    BY <1>2, <2>3, <2>4, <2>6 DEF Ok, Innermost
  <2> QED BY <2>3, <2>4, <2>5, <2>7
<1> QED BY <1>1, <1>2

(* Nothing is wrong at the places of an error-free first pass, ...           *)
LEMMA FirstOk ==
    ASSUME Sound, Clean, Going, level' < Syntax, pass = 0, NEW a, a = Place
    PROVE  Ok(a)'
<1>1. Nest
  BY Earlier DEF Sound, Clean, Going
<1>2. PlaceShape
  BY <1>1, Placed
<1>3. Known(a)
  BY <1>2 DEF Known, PlaceShape
<1>4. text' = text /\ Complete \subseteq Complete' /\ DOMAIN macros \subseteq DOMAIN macros'
      /\ \A m \in Complete : macros'[m].body = macros[m].body
  BY Frozen, Kept DEF Going
<1>5. Known(a)' /\ (a.progs # <<>> => LineOf(a)' = LineOf(a) /\ (AtEnd(a)' <=> AtEnd(a)))
  BY <1>3, <1>4, FrozenPlace
<1>6. ASSUME ReadLine
      PROVE  /\ a.progs # <<>> /\ ~AtEnd(a) /\ LineOf(a) = Line /\ Innermost(a) = Ctx
             /\ Seen(a) <=> Included(Ctx.cond)
             /\ a.defining = defining /\ Len(a.progs) = depth
             /\ LineOf(a)' = Line /\ (LineOk(a)' => Ok(a)')
  BY <1>1, <1>5, <1>6, LineHere DEF Ok
<1>7. CASE EndProg
  <2>1. depth # 0 /\ Depth(Ctx.cond) = 0 /\ defCtx = NoCtx /\ Ended
    BY <1>7, Ends DEF EndProg
  <2>2. defining = 0
    BY <1>1, <2>1 DEF Nest, Sound, Types
  <2>3. a.progs # <<>> /\ AtEnd(a) /\ Innermost(a) = Ctx /\ a.defining = defining
    BY <1>2, <2>1 DEF PlaceShape, AtEnd, Ended
  <2> QED BY <1>5, <2>1, <2>2, <2>3 DEF Ok, Innermost
<1>8. CASE BeginFile
  <2>1. depth = 0 /\ queue # <<>>
    BY <1>8 DEF BeginFile
  <2>2. defining = 0
    BY <1>1, <2>1, Heights DEF Nest, Sound, Types
  <2>3. a.progs = <<>> /\ a.queue = queue /\ a.defining = defining
    BY <1>2, <2>1 DEF PlaceShape
  <2> QED BY <1>5, <2>1, <2>2, <2>3 DEF Ok
<1>9. ASSUME ReadLine, LineOk(a)' PROVE Ok(a)'
  BY <1>6, <1>9
<1>10. CASE OtherLine
  <2>1. ReadLine
    BY <1>10 DEF OtherLine
  <2>2. LineOk(a)'
    BY <1>6, <1>10, <2>1 DEF OtherLine, LineOk, CondKinds, Seen, Innermost
  <2> QED BY <1>9, <2>1, <2>2
<1>11. CASE MacroLine
  <2>1. ReadLine /\ Line.op = "macro"
    BY <1>11 DEF MacroLine, Opens
  <2>2. Line.name \in DOMAIN macros' /\ Line.name # "none"
    <3>1. CASE Line.name \notin DOMAIN macros /\ Line.name # "none"
      BY <1>11, <3>1 DEF MacroLine, WithMacro
    <3>2. CASE ~(Line.name \notin DOMAIN macros /\ Line.name # "none")
      <4>1. ~MacroError(Line.name)
        <5>1. (IF MacroError(Line.name) THEN Syntax ELSE None) \in {None, Syntax, Fatal} /\ Syntax # None
          BY DEF None, Syntax
        <5> QED BY <1>11, <3>2, <5>1, Clear DEF MacroLine, Sound
      <4>2. Line.name \in DOMAIN macros /\ macros[Line.name].pass # 0
        BY <3>2, <4>1 DEF MacroError
      <4> QED BY <1>1, <4>2 DEF Nest
    <3> QED BY <3>1, <3>2
  <2>3. LineOk(a)'
    BY <1>6, <2>1, <2>2 DEF LineOk, Seen, Innermost
  <2> QED BY <1>9, <2>1, <2>3
<1>12. CASE BodyLine
  <2>1. ReadLine /\ defining > 0 /\ defining \in Nat /\ ~(Closes /\ defining = 1)
    BY <1>12 DEF BodyLine, Sound, Types
  <2>2. LineOk(a)'
    BY <1>6, <2>1 DEF LineOk, Seen, Innermost, Closes
  <2> QED BY <1>9, <2>1, <2>2
<1>13. CASE EndmLine
  <2>1. ReadLine /\ Closes /\ defining = 1
    BY <1>13 DEF EndmLine
  <2>2. Line.op = "endm"
    <3>1. Syntax \in {None, Syntax, Fatal} /\ Syntax # None
      BY DEF None, Syntax
    <3>2. Line.op = "badendm" => Report(Syntax)
      BY <1>13 DEF EndmLine
    <3> QED BY <2>1, <3>1, <3>2, Clear DEF Closes, Sound
  <2>3. LineOk(a)'
    BY <1>6, <2>1, <2>2 DEF LineOk, Seen, Innermost
  <2> QED BY <1>9, <2>1, <2>3
<1>14. CASE StrayEndm
  <2>1. Syntax \in {None, Syntax, Fatal} /\ Syntax # None /\ Report(Syntax)
    BY <1>14 DEF None, Syntax, StrayEndm
  <2> QED BY <2>1, Clear DEF Sound
<1>15. CASE CondLine
  <2>1. ReadLine /\ defining = 0 /\ Line.op \in {"if", "elsif", "else", "endif"}
    BY <1>15 DEF CondLine, CondKinds
  <2>2. ~CondError(Ctx.cond)
    <3>1. (IF CondError(Ctx.cond) THEN Syntax ELSE None) \in {None, Syntax, Fatal} /\ Syntax # None
      BY DEF None, Syntax
    <3> QED BY <1>15, <3>1, Clear DEF CondLine, Sound
  <2>3. LineOk(a)'
    BY <1>6, <2>1, <2>2 DEF LineOk, Seen, Innermost, CondError
  <2> QED BY <1>9, <2>1, <2>3
<1>16. CASE SectionLine
  <2>1. ReadLine /\ Line.op = "section"
    BY <1>16 DEF SectionLine, Assembled
  <2>2. LineOk(a)'
    BY <1>6, <2>1 DEF LineOk, Seen, Innermost
  <2> QED BY <1>9, <2>1, <2>2
<1>17. ASSUME NEW p, Enter(p, Moved) PROVE depth < MaxDepth
  <2>1. Fatal \in {None, Syntax, Fatal} /\ Fatal # None
    BY DEF None, Fatal
  <2>2. depth \in Nat /\ MaxDepth \in Nat
    BY ProgramsConstants DEF Sound, Types
  <2>3. ~(depth >= MaxDepth)
    BY <1>17, <2>1, Clear DEF Enter, Sound
  <2> QED BY <2>2, <2>3
<1>18. CASE IncludeLine
  <2>1. ReadLine /\ Line.op = "include"
    BY <1>18 DEF IncludeLine, Assembled
  <2>2. Line.name \in DOMAIN text
    <3>1. Fatal \in {None, Syntax, Fatal} /\ Fatal # None
      BY DEF None, Fatal
    <3> QED BY <1>18, <3>1, Clear DEF IncludeLine, Sound
  <2>3. depth < MaxDepth
    BY <1>17, <1>18, <2>2 DEF IncludeLine
  <2>4. LineOk(a)'
    BY <1>4, <1>6, <2>1, <2>2, <2>3 DEF LineOk, Seen, Innermost
  <2> QED BY <1>9, <2>1, <2>4
<1>19. CASE CallLine
  <2>1. ReadLine /\ Line.op = "call"
    BY <1>19 DEF CallLine, Assembled
  <2>2. Line.name \in DOMAIN macros
    <3>1. Syntax \in {None, Syntax, Fatal} /\ Syntax # None
      BY DEF None, Syntax
    <3> QED BY <1>19, <3>1, Clear DEF CallLine, Sound
  <2>3. depth < MaxDepth
    BY <1>17, <1>19, <2>2 DEF CallLine
  <2>4. LineOk(a)'
    BY <1>4, <1>6, <2>1, <2>2, <2>3 DEF LineOk, Seen, Innermost
  <2> QED BY <1>9, <2>1, <2>4
<1> QED BY <1>7, <1>8, <1>10, <1>11, <1>12, <1>13, <1>14, <1>15, <1>16, <1>18, <1>19 DEF Going, Next

(* ... and where nothing is wrong no later pass finds an error, or changes a *)
(* macro.                                                                    *)
Settled ==
    /\ pass > 0 /\ level = None /\ defCtx = NoCtx
    /\ \A m \in DOMAIN macros : macros[m].pass < pass

LEMMA NothingRaised == Raise(None, None) = None
BY DEF Raise, None, Inconsistent, OutOfRange

LEMMA StaysSettled ==
    ASSUME Sound, Nest, Going, Settled, Ok(Place)
    PROVE  Settled' /\ macros' = macros
<1>1. Shape /\ PlaceShape
  BY Shapes, Placed
<1>2. ASSUME level' = None, macros' = macros, defCtx' = NoCtx, pass' = pass
      PROVE  Settled' /\ macros' = macros
  BY <1>2 DEF Settled
<1>3. ASSUME ReadLine
      PROVE  /\ pass' = pass /\ LineOk(Place) /\ LineOf(Place) = Line /\ Innermost(Place) = Ctx
             /\ Seen(Place) <=> Included(Ctx.cond)
             /\ Place.defining = defining /\ Len(Place.progs) = depth
  BY <1>3, LineHere DEF Ok, ReadLine
<1>4. ASSUME NEW p, NEW under, Enter(p, under), depth < MaxDepth
      PROVE  level' = None
  <2>1. ~(depth >= MaxDepth)
    BY <1>4, ProgramsConstants DEF Sound, Types
  <2> QED BY <1>4, <2>1 DEF Enter, Settled
<1>5. CASE OtherLine
  BY <1>2, <1>3, <1>5 DEF OtherLine, Settled
<1>6. CASE MacroLine
  <2>1. ReadLine /\ Line.op = "macro" /\ Included(Ctx.cond) /\ defining = 0
    BY <1>6 DEF MacroLine, Opens
  <2>2. Line.name \in DOMAIN macros /\ Line.name # "none"
    BY <1>3, <2>1 DEF LineOk
  <2>3. macros[Line.name].pass < pass /\ macros[Line.name] \in Macros /\ pass \in Nat
    BY <2>2 DEF Settled, Sound, Types
  <2>4. ~MacroError(Line.name)
    BY <2>2, <2>3 DEF MacroError, Macros
  <2>5. level' = None /\ UNCHANGED <<macros, defCtx>>
    BY <1>6, <2>2, <2>4, NothingRaised DEF MacroLine, Report, Settled
  <2> QED BY <1>2, <1>3, <2>1, <2>5 DEF Settled
<1>7. CASE BodyLine
  BY <1>2, <1>3, <1>7 DEF BodyLine, Settled, NoCtx, Dangling
<1>8. CASE EndmLine
  <2>1. ReadLine /\ Closes /\ defining = 1
    BY <1>8 DEF EndmLine
  <2>2. Line.op = "endm"
    BY <1>3, <2>1 DEF LineOk, Closes
  <2> QED BY <1>2, <1>3, <1>8, <2>1, <2>2 DEF EndmLine, Settled, NoCtx
<1>9. CASE StrayEndm
  BY <1>3, <1>9 DEF StrayEndm, Closes, LineOk
<1>10. CASE CondLine
  <2>1. ReadLine /\ defining = 0 /\ UNCHANGED <<macros, defCtx>>
    BY <1>10 DEF CondLine
  <2>2. ~CondError(Ctx.cond)
    BY <1>3, <2>1 DEF CondError, LineOk
  <2>3. level' = None
    BY <1>10, <2>2, NothingRaised DEF CondLine, Report, Settled
  <2> QED BY <1>2, <1>3, <2>1, <2>3 DEF Settled
<1>11. CASE SectionLine
  BY <1>2, <1>3, <1>11 DEF SectionLine, Assembled, Settled
<1>12. CASE IncludeLine
  <2>1. ReadLine /\ Line.op = "include" /\ Included(Ctx.cond) /\ defining = 0
        /\ UNCHANGED <<macros, defCtx>>
    BY <1>12 DEF IncludeLine, Assembled
  <2>2. Line.name \in DOMAIN text /\ depth < MaxDepth
    BY <1>3, <2>1 DEF LineOk
  <2>3. level' = None
    BY <1>4, <1>12, <2>2 DEF IncludeLine
  <2> QED BY <1>2, <1>3, <2>1, <2>3 DEF Settled
<1>13. CASE CallLine
  <2>1. ReadLine /\ Line.op = "call" /\ Included(Ctx.cond) /\ defining = 0
        /\ UNCHANGED <<macros, defCtx>>
    BY <1>13 DEF CallLine, Assembled
  <2>2. Line.name \in DOMAIN macros /\ depth < MaxDepth
    BY <1>3, <2>1 DEF LineOk
  <2>3. level' = None
    BY <1>4, <1>13, <2>2 DEF CallLine
  <2> QED BY <1>2, <1>3, <2>1, <2>3 DEF Settled
<1>14. CASE EndProg
  <2>1. depth # 0 /\ Ended /\ depth \in Nat
    BY <1>14 DEF EndProg, Assembling, Sound, Types
  <2>2. Running = depth /\ Len(stack) = depth
    BY <1>1, <2>1 DEF Shape, Settled
  <2>3. Innermost(Place) = Ctx /\ Place.progs # <<>> /\ AtEnd(Place)
    BY <1>1, <2>1 DEF PlaceShape, AtEnd, Ended
  <2>4. Depth(Ctx.cond) = 0
    BY <2>3 DEF Ok
  <2>5. CanFree(Running) /\ ~Unfinished(Running)
    BY <2>1, <2>2 DEF CanFree, Unfinished
  <2>6. level' = None /\ defCtx' = NoCtx /\ macros' = macros /\ pass' = pass
    BY <1>14, <2>1, <2>2, <2>4, <2>5, NothingRaised DEF EndProg, Report, Settled, NoCtx
  <2> QED BY <1>2, <2>6
<1>15. CASE BeginFile
  <2>1. depth = 0 /\ UNCHANGED <<pass, macros, defCtx>>
        /\ Enter([type |-> "file", name |-> Head(queue)], stack)
    BY <1>15 DEF BeginFile
  <2>2. depth < MaxDepth
    BY <2>1, ProgramsConstants
  <2> QED BY <1>2, <1>4, <2>1, <2>2 DEF Settled
<1> QED BY <1>5, <1>6, <1>7, <1>8, <1>9, <1>10, <1>11, <1>12, <1>13, <1>14, <1>15 DEF Going, Next

-----------------------------------------------------------------------------
(* The places of a pass form a chain, and a later pass is on that of the     *)
(* first one.                                                                *)
Start == [queue |-> Sources, progs |-> <<>>, section |-> "CODE", defining |-> 0]

Upto(h, k) == IF k = 0 THEN Start ELSE After(h[k])

Chain(h) == \A k \in 1 .. Len(h) : Ok(h[k]) /\ h[k] = Upto(h, k - 1)

Finished(a) == a.progs = <<>> /\ a.queue = <<>> /\ a.defining = 0

FirstPass ==
    pass = 0 /\ level < Syntax =>
        /\ \E S : trace \in Seq(S)
        /\ Chain(trace)
        /\ Place = Upto(trace, Len(trace))

LaterPass ==
    pass > 0 =>
        /\ Settled
        /\ \E S : first \in Seq(S) /\ trace \in Seq(S)
        /\ Chain(first)
        /\ Finished(Upto(first, Len(first)))
        /\ Len(trace) <= Len(first)
        /\ \A k \in 1 .. Len(trace) : trace[k] = first[k]
        /\ Place = Upto(first, Len(trace))

Alike == FirstPass /\ LaterPass

LEMMA InitAlike == Init => Alike
<1> SUFFICES ASSUME Init PROVE Alike
  OBVIOUS
<1>1. pass = 0 /\ trace = <<>> /\ Place = Start
  BY DEF Init, Place, Start
<1>2. trace \in Seq({}) /\ Len(trace) = 0
  BY <1>1
<1> QED BY <1>1, <1>2 DEF Alike, FirstPass, LaterPass, Chain, Upto

(* A chain that is not at its end is on its way.                             *)
LEMMA OnTheWay ==
    ASSUME NEW h, NEW n \in Nat, Len(h) \in Nat, n <= Len(h), Chain(h), Finished(Upto(h, Len(h))),
           NEW a, a = Upto(h, n)
    PROVE  \/ n = Len(h) /\ Finished(a)
           \/ n + 1 \in 1 .. Len(h) /\ a = h[n + 1] /\ Ok(a) /\ (a.progs = <<>> => a.queue # <<>>)
<1>1. CASE n = Len(h)
  BY <1>1
<1>2. CASE n # Len(h)
  <2>1. n + 1 \in 1 .. Len(h) /\ n + 1 - 1 = n
    BY <1>2
  <2>2. Ok(h[n + 1]) /\ h[n + 1] = Upto(h, n)
    BY <2>1 DEF Chain
  <2> QED BY <2>1, <2>2 DEF Ok
<1> QED BY <1>1, <1>2

LEMMA FrozenChain ==
    ASSUME text' = text, Complete \subseteq Complete', DOMAIN macros \subseteq DOMAIN macros',
           \A m \in Complete : macros'[m].body = macros[m].body,
           NEW h, Len(h) \in Nat, Chain(h)
    PROVE  Chain(h)' /\ \A k \in 0 .. Len(h) : Upto(h, k)' = Upto(h, k)
<1>1. \A k \in 1 .. Len(h) : Ok(h[k])' /\ After(h[k])' = After(h[k])
  <2> SUFFICES ASSUME NEW k \in 1 .. Len(h) PROVE Ok(h[k])' /\ After(h[k])' = After(h[k])
    OBVIOUS
  <2>1. ASSUME NEW a, a = h[k] PROVE Ok(a)' /\ After(a)' = After(a)
    <3>1. Ok(a) /\ Known(a)
      BY <2>1 DEF Chain, Ok
    <3> QED BY <3>1, FrozenPlace
  <2> QED BY <2>1
<1>2. \A k \in 0 .. Len(h) : Upto(h, k)' = Upto(h, k)
  BY <1>1 DEF Upto
<1>3. \A k \in 1 .. Len(h) : k - 1 \in 0 .. Len(h)
  OBVIOUS
<1>4. \A k \in 1 .. Len(h) : Ok(h[k])' /\ h[k] = Upto(h, k - 1)'
  BY <1>1, <1>2, <1>3 DEF Chain
<1> QED BY <1>2, <1>4 DEF Chain

(* Every step of a pass adds its place to the history.                       *)
LEMMA Visits ==
    ASSUME Going
    PROVE  trace' = Append(trace, Place) /\ first' = first /\ pass' = pass
BY DEF Going, Next, OtherLine, MacroLine, BodyLine, EndmLine, StrayEndm, CondLine, SectionLine,
       IncludeLine, CallLine, Assembled, EndProg, BeginFile, ReadLine, Visit

LEMMA FirstGoes ==
    ASSUME Sound, Clean, Going, Steady, FirstPass, level' < Syntax, pass = 0
    PROVE  FirstPass'
<1>1. level < Syntax
  BY Earlier DEF Sound, Going
<1>2. Nest /\ PlaceShape
  BY <1>1, Placed DEF Clean
<1>3. text' = text /\ Complete \subseteq Complete' /\ DOMAIN macros \subseteq DOMAIN macros'
      /\ \A m \in Complete : macros'[m].body = macros[m].body
  BY Frozen, Kept DEF Going
<1>4. Chain(trace) /\ Place = Upto(trace, Len(trace))
  BY <1>1 DEF FirstPass
<1>5. PICK S : trace \in Seq(S)
  BY <1>1 DEF FirstPass
<1>6. ASSUME NEW h, h = trace, NEW a, a = Place, NEW g, g = trace'
      PROVE  FirstPass'
  <2>1. h \in Seq(S) /\ g = Append(h, a) /\ Len(h) \in Nat
    BY <1>5, <1>6, Visits
  <2>2. g \in Seq(S \cup {a}) /\ Len(g) = Len(h) + 1 /\ g[Len(h) + 1] = a
        /\ \A k \in 1 .. Len(h) : g[k] = h[k]
    <3>1. h \in Seq(S \cup {a})
      BY <2>1
    <3> QED BY <2>1, <3>1
  <2>3. Chain(h)' /\ \A k \in 0 .. Len(h) : Upto(h, k)' = Upto(h, k)
    BY <1>3, <1>4, <1>6, <2>1, FrozenChain
  <2>4. Ok(a)'
    BY <1>6, FirstOk
  <2>5. After(a)' = After(a)
    <3>1. Known(a)
      BY <1>2, <1>6 DEF Known, PlaceShape
    <3> QED BY <1>3, <3>1, FrozenPlace
  <2>6. a = Upto(h, Len(h))'
    BY <1>4, <1>6, <2>1, <2>3
  <2>7. \A k \in 0 .. Len(h) : Upto(g, k)' = Upto(h, k)'
    BY <2>1, <2>2 DEF Upto
  <2>8. Chain(g)'
    <3> SUFFICES ASSUME NEW k \in 1 .. Len(g) PROVE Ok(g[k])' /\ g[k] = Upto(g, k - 1)'
      BY DEF Chain
    <3>1. CASE k \in 1 .. Len(h)
      <4>1. k - 1 \in 0 .. Len(h) /\ g[k] = h[k]
        BY <2>1, <2>2, <3>1
      <4> QED BY <2>3, <2>7, <3>1, <4>1 DEF Chain
    <3>2. CASE k = Len(h) + 1
      <4>1. k - 1 = Len(h) /\ Len(h) \in 0 .. Len(h)
        BY <2>1, <3>2
      <4> QED BY <2>2, <2>4, <2>6, <2>7, <3>2, <4>1
    <3> QED BY <2>1, <2>2, <3>1, <3>2
  <2>9. Place' = Upto(g, Len(g))'
    <3>1. Place' = After(a)'
      BY <1>6, <2>5, Leads
    <3> QED BY <2>1, <2>2, <3>1 DEF Upto
  <2>10. Chain(trace)' /\ Place' = Upto(trace, Len(trace))'
    BY <1>6, <2>8, <2>9 DEF Chain, Upto
  <2>11. \E T : trace' \in Seq(T)
    BY <1>6, <2>2
  <2> QED BY <2>10, <2>11 DEF FirstPass
<1> QED BY <1>6

LEMMA LaterGoes ==
    ASSUME Sound, Clean, Going, Steady, LaterPass, pass > 0
    PROVE  LaterPass'
<1>1. Settled /\ Chain(first) /\ Finished(Upto(first, Len(first))) /\ Len(trace) <= Len(first)
      /\ (\A k \in 1 .. Len(trace) : trace[k] = first[k]) /\ Place = Upto(first, Len(trace))
  BY DEF LaterPass
<1>2. Nest /\ PlaceShape
  <2>1. level < Syntax
    BY <1>1 DEF Settled, None, Syntax
  <2> QED BY <2>1, Placed DEF Clean
<1>3. PICK S : first \in Seq(S) /\ trace \in Seq(S)
  BY DEF LaterPass
<1>4. Len(first) \in Nat /\ Len(trace) \in Nat
  BY <1>3
<1>5. ~Finished(Place)
  <2>1. depth # 0 \/ queue # <<>>
    <3>1. Assembling \/ queue # <<>>
      BY DEF Going, Next, OtherLine, MacroLine, BodyLine, EndmLine, StrayEndm, CondLine, SectionLine,
             IncludeLine, CallLine, Assembled, EndProg, BeginFile, ReadLine
    <3> QED BY <3>1 DEF Assembling, Sound, Types
  <2> QED BY <1>2, <2>1 DEF PlaceShape, Finished
<1>6. ASSUME NEW h, h = first, NEW a, a = Place, NEW g, g = trace', NEW n, n = Len(trace)
      PROVE  LaterPass'
  <2>1. n + 1 \in 1 .. Len(h) /\ a = h[n + 1] /\ Ok(a) /\ n \in Nat /\ Len(h) \in Nat
    BY <1>1, <1>4, <1>5, <1>6, OnTheWay
  <2>2. Settled' /\ macros' = macros
    BY <1>1, <1>2, <1>6, <2>1, StaysSettled
  <2>3. level' < Syntax
    BY <2>2 DEF Settled, None, Syntax
  <2>4. text' = text /\ Complete \subseteq Complete' /\ DOMAIN macros \subseteq DOMAIN macros'
        /\ \A m \in Complete : macros'[m].body = macros[m].body
    BY <2>3, Frozen, Kept DEF Going
  <2>5. Chain(h)' /\ \A k \in 0 .. Len(h) : Upto(h, k)' = Upto(h, k)
    BY <1>1, <1>6, <2>1, <2>4, FrozenChain
  <2>6. Place' = Upto(h, n + 1)'
    <3>1. Place' = After(a)
      BY <1>6, <2>3, Leads
    <3>2. Upto(h, n + 1)' = Upto(h, n + 1)
      BY <2>1, <2>5
    <3> QED BY <2>1, <3>1, <3>2 DEF Upto
  <2>7. Finished(Upto(h, Len(h)))'
    <3>1. Upto(h, Len(h))' = Upto(h, Len(h))
      BY <2>1, <2>5
    <3> QED BY <1>1, <1>6, <3>1 DEF Finished
  <2>8. trace' = Append(trace, a) /\ first' = h
    BY <1>6, Visits
  <2>9. a \in S
    BY <1>3, <1>6, <2>1
  <2>10. trace' \in Seq(S) /\ Len(trace') = n + 1
         /\ \A k \in 1 .. n + 1 : trace'[k] = IF k = n + 1 THEN a ELSE trace[k]
    BY <1>3, <1>6, <2>8, <2>9
  <2>11. \A k \in 1 .. n + 1 : trace'[k] = h[k]
    <3>1. \A k \in 1 .. n + 1 : k = n + 1 \/ k \in 1 .. n
      BY <2>1
    <3> QED BY <1>1, <1>6, <2>1, <2>10, <3>1
  <2>12. \E T : first' \in Seq(T) /\ trace' \in Seq(T)
    BY <1>3, <1>6, <2>8, <2>10
  <2>13. Chain(first)' /\ Finished(Upto(first, Len(first)))' /\ Place' = Upto(first, Len(trace))'
    BY <2>5, <2>6, <2>7, <2>8, <2>10 DEF Chain, Finished, Upto
  <2> QED BY <2>1, <2>2, <2>8, <2>10, <2>11, <2>12, <2>13 DEF LaterPass
<1> QED BY <1>6

(* The next pass starts where the first one did, which is at its end.        *)
LEMMA NextPassGoes ==
    ASSUME Sound, Clean, NextPass, Alike
    PROVE  LaterPass'
<1>1. depth = 0 /\ queue = <<>> /\ level < Syntax /\ queue' = Sources /\ section' = "CODE"
      /\ level' = None /\ pass' = pass + 1 /\ pass \in Nat /\ trace' = <<>>
      /\ first' = (IF pass = 0 THEN trace ELSE first)
      /\ UNCHANGED <<text, stack, macros, defining, defCtx, depth, args, status>>
  BY DEF NextPass, BetweenPasses, PassAfter, FirstSection, Sound, Types
<1>2. Nest /\ PlaceShape /\ defCtx = NoCtx
  BY <1>1, Placed, Heights DEF Clean
<1>3. Place.progs = <<>> /\ Place.queue = <<>> /\ Place.defining = defining
  BY <1>1, <1>2 DEF PlaceShape
<1>4. defining = 0 => Place' = Start
  BY <1>1 DEF Place, Start
<1>5. Complete' = Complete /\ macros' = macros
  BY <1>1 DEF Complete
<1>6. ASSUME NEW h, Chain(h), Len(h) \in Nat, Finished(Upto(h, Len(h))), defining = 0,
             first' = h, \E S : h \in Seq(S), Settled'
      PROVE  LaterPass'
  <2>1. Chain(h)' /\ \A k \in 0 .. Len(h) : Upto(h, k)' = Upto(h, k)
    BY <1>1, <1>5, <1>6, FrozenChain
  <2>2. Upto(h, Len(h))' = Upto(h, Len(h))
    BY <1>6, <2>1
  <2>3. Chain(first)' /\ Finished(Upto(first, Len(first)))'
    BY <1>6, <2>1, <2>2 DEF Chain, Finished, Upto
  <2>4. trace' \in Seq({}) /\ Len(trace') = 0 /\ \A S : trace' \in Seq(S)
    BY <1>1
  <2>5. Place' = Upto(first, Len(trace))'
    BY <1>4, <1>6, <2>4 DEF Upto
  <2> QED BY <1>6, <2>3, <2>4, <2>5 DEF LaterPass
<1>7. CASE pass = 0
  <2>1. defining = 0
    BY <1>2, <1>7 DEF Nest, Sound, Types
  <2>2. Chain(trace) /\ Place = Upto(trace, Len(trace)) /\ \E S : trace \in Seq(S)
    BY <1>1, <1>7 DEF Alike, FirstPass
  <2>3. Finished(Upto(trace, Len(trace)))
    BY <1>3, <2>1, <2>2 DEF Finished
  <2>4. Settled'
    BY <1>1, <1>2, <1>7 DEF Settled, Nest
  <2>5. Len(trace) \in Nat
    BY <2>2
  <2>6. first' = trace
    BY <1>1, <1>7
  <2> QED BY <1>6, <2>1, <2>2, <2>3, <2>4, <2>5, <2>6
<1>8. CASE pass > 0
  <2>1. Settled /\ Chain(first) /\ Finished(Upto(first, Len(first))) /\ Len(trace) <= Len(first)
        /\ Place = Upto(first, Len(trace)) /\ \E S : first \in Seq(S) /\ trace \in Seq(S)
    BY <1>8 DEF Alike, LaterPass
  <2>2. Len(first) \in Nat /\ Len(trace) \in Nat
    BY <2>1
  <2>3. Finished(Place)
    <3>1. ASSUME NEW a, a = Place, NEW n, n = Len(trace) PROVE Finished(a)
      BY <1>3, <2>1, <2>2, <3>1, OnTheWay
    <3> QED BY <3>1
  <2>4. defining = 0
    BY <1>3, <2>3 DEF Finished
  <2>5. Settled'
    <3>1. \A m \in DOMAIN macros : macros[m] \in Macros
      BY DEF Sound, Types
    <3>2. \A m \in DOMAIN macros : macros[m].pass < pass + 1
      BY <1>1, <2>1, <3>1 DEF Settled, Macros
    <3> QED BY <1>1, <1>2, <3>2 DEF Settled
  <2>6. first' = first
    BY <1>1, <1>8
  <2> QED BY <1>6, <2>1, <2>2, <2>4, <2>5, <2>6
<1> QED BY <1>1, <1>7, <1>8

LEMMA StillAlike ==
    ASSUME Alike, UNCHANGED <<text, pass, queue, stack, macros, defining, defCtx, depth, args,
                              section, level, trace, first>>
    PROVE  Alike'
<1>1. Place' = Place
  BY DEF Place, Running, Active
<1>2. \A p : Lines(p)' = Lines(p)
  BY DEF Lines
<1>3. Complete' = Complete
  BY DEF Complete
<1>4. \A a : Innermost(a)' = Innermost(a) /\ LineOf(a)' = LineOf(a) /\ (AtEnd(a)' <=> AtEnd(a))
  BY <1>2 DEF Innermost, LineOf, AtEnd
<1>5. \A a : After(a)' = After(a)
  BY <1>4 DEF After, AfterFile, AfterEnd, AfterLine, ProgsAfter, SectionAfter, DefiningAfter,
              Innermost, Seen, Passed
<1>6. \A a : Ok(a)' <=> Ok(a)
  BY <1>3, <1>4 DEF Ok, LineOk, Known, Seen, Innermost
<1>7. (Chain(trace)' <=> Chain(trace)) /\ (Chain(first)' <=> Chain(first))
      /\ \A k : Upto(trace, k)' = Upto(trace, k) /\ Upto(first, k)' = Upto(first, k)
  BY <1>5, <1>6 DEF Chain, Upto
<1>8. FirstPass'
  BY <1>1, <1>7 DEF Alike, FirstPass
<1>9. LaterPass'
  <2>1. Settled' <=> Settled
    BY DEF Settled
  <2>2. Finished(Upto(first, Len(first)))' <=> Finished(Upto(first, Len(first)))
    BY <1>7 DEF Finished
  <2> QED BY <1>1, <1>7, <2>1, <2>2 DEF Alike, LaterPass
<1> QED BY <1>8, <1>9 DEF Alike

LEMMA NextAlike == ASSUME Sound, Clean, Alike, Steady, [Next]_vars PROVE Alike'
<1>1. CASE UNCHANGED vars \/ LastPass
  BY <1>1, StillAlike DEF vars, LastPass
<1>2. CASE NextPass
  <2>1. pass' # 0
    BY <1>2 DEF NextPass, PassAfter, Sound, Types
  <2> QED BY <1>2, <2>1, NextPassGoes DEF Alike, FirstPass
<1>3. CASE Going
  <2>1. pass' = pass /\ pass \in Nat
    BY <1>3, Visits DEF Sound, Types
  <2>2. CASE pass = 0
    BY <1>3, <2>1, <2>2, FirstGoes DEF Alike, FirstPass, LaterPass
  <2>3. CASE pass > 0
    BY <1>3, <2>1, <2>3, LaterGoes DEF Alike, FirstPass
  <2> QED BY <2>1, <2>2, <2>3
<1> QED BY <1>1, <1>2, <1>3 DEF Going

-----------------------------------------------------------------------------
(* What follows holds where conditions are steady.  With a condition that    *)
(* only a later pass finds true it does not: an INCLUDE after it moves the   *)
(* lines that follow to other places of the history.                         *)

LEMMA Together ==
    ASSUME Steady PROVE Spec => [](Sound /\ Clean /\ Alike)
<1>1. Init => Sound /\ Clean /\ Alike
  BY InitSound, InitClean, InitAlike
<1>2. Sound /\ Clean /\ Alike /\ [Next]_vars => (Sound /\ Clean /\ Alike)'
  BY NextSound, NextClean, NextAlike
<1> QED BY <1>1, <1>2, PTL DEF Spec

(* While a pass is free of errors no assertion fails, no freed context is    *)
(* used, the contexts on the stack are nested as the programs are, and       *)
(* nothing of a file is left when it ends: the static variables of           *)
(* assemble.c are as at the start whenever a file or a pass begins.          *)
THEOREM ContextsAreNested == ASSUME Steady PROVE Spec => []ContextsNest
<1>1. ASSUME Sound, Clean, Alike PROVE ContextsNest
  <2> SUFFICES ASSUME level < Syntax PROVE ContextsNest
    BY DEF ContextsNest
  <2>1. Nest /\ Shape /\ PlaceShape
    BY <1>1, Shapes, Placed DEF Clean
  <2>2. depth = Cardinality(Active)
    BY <1>1 DEF Sound, Stacked, Active, ActiveIn
  <2>3. ASSUME depth = 0 PROVE defining = 0
    <3>1. CASE pass = 0
      BY <1>1, <2>1, <2>3, <3>1 DEF Nest, Shape, Sound, Types
    <3>2. CASE pass > 0
      <4>1. Chain(first) /\ Finished(Upto(first, Len(first))) /\ Len(trace) <= Len(first)
            /\ Place = Upto(first, Len(trace)) /\ \E S : first \in Seq(S) /\ trace \in Seq(S)
        BY <1>1, <3>2 DEF Alike, LaterPass
      <4>2. Len(first) \in Nat /\ Len(trace) \in Nat
        BY <4>1
      <4>3. Place.progs = <<>> /\ Place.defining = defining
        BY <2>1, <2>3 DEF PlaceShape
      <4>4. ASSUME NEW a, a = Place, NEW n, n = Len(trace) PROVE a.defining = 0
        <5>1. Finished(a) \/ Ok(a)
          BY <4>1, <4>2, <4>4, OnTheWay
        <5> QED BY <4>3, <4>4, <5>1 DEF Finished, Ok
      <4> QED BY <4>3, <4>4
    <3> QED BY <1>1, <3>1, <3>2 DEF Sound, Types
  <2> QED BY <2>1, <2>2, <2>3 DEF ContextsNest, Nest, Shape
<1> QED BY <1>1, Together, PTL

(* Every pass goes the way of the first one, place by place, so that the     *)
(* line numbers local labels are stored and looked up by mean the same lines *)
(* in all passes.                                                            *)
THEOREM PassesGoAlike == ASSUME Steady PROVE Spec => []PassesAlike
<1>1. ASSUME Sound, Clean, Alike PROVE PassesAlike
  <2> SUFFICES ASSUME pass > 0
               PROVE  IsPrefix(trace, first) /\ (BetweenPasses => trace = first)
    BY DEF PassesAlike
  <2>1. Settled /\ Chain(first) /\ Finished(Upto(first, Len(first))) /\ Len(trace) <= Len(first)
        /\ (\A k \in 1 .. Len(trace) : trace[k] = first[k]) /\ Place = Upto(first, Len(trace))
    BY <1>1 DEF Alike, LaterPass
  <2>2. PICK S : first \in Seq(S) /\ trace \in Seq(S)
    BY <1>1 DEF Alike, LaterPass
  <2>3. Len(first) \in Nat /\ Len(trace) \in Nat
    BY <2>2
  <2>4. IsPrefix(trace, first)
    <3>1. Len(trace) \in 0 .. Len(trace) /\ Len(trace) \in 0 .. Len(first)
      BY <2>1, <2>3
    <3>2. SubSeq(trace, 1, Len(trace)) = SubSeq(first, 1, Len(trace))
      <4> DEFINE x == SubSeq(trace, 1, Len(trace))
                 y == SubSeq(first, 1, Len(trace))
      <4>1. x \in Seq(S) /\ Len(x) = Len(trace) /\ \A i \in 1 .. Len(trace) : x[i] = trace[i]
        BY <2>2, <3>1, Cut
      <4>2. y \in Seq(S) /\ Len(y) = Len(trace) /\ \A i \in 1 .. Len(trace) : y[i] = first[i]
        BY <2>2, <3>1, Cut
      <4> HIDE DEF x, y
      <4>3. x = y
        BY <2>1, <4>1, <4>2, SameSeq
      <4> QED BY <4>3 DEF x, y
    <3> QED BY <2>1, <3>2 DEF IsPrefix
  <2>5. ASSUME BetweenPasses PROVE trace = first
    <3>1. PlaceShape /\ depth = 0 /\ queue = <<>>
      <4>1. level < Syntax
        BY <2>1 DEF Settled, None, Syntax
      <4> QED BY <1>1, <2>5, <4>1, Placed DEF Clean, BetweenPasses
    <3>2. Place.progs = <<>> /\ Place.queue = <<>>
      BY <3>1 DEF PlaceShape
    <3>3. ASSUME NEW a, a = Place, NEW n, n = Len(trace) PROVE n = Len(first)
      BY <2>1, <2>3, <3>2, <3>3, OnTheWay
    <3>4. Len(trace) = Len(first)
      BY <3>3
    <3> QED BY <2>1, <2>2, <3>4, SameSeq
  <2> QED BY <2>4, <2>5
<1> QED BY <1>1, Together, PTL

(* What is wrong with the nesting of a program is found by the first pass:   *)
(* a second one is made only without errors of this kind, and no later pass  *)
(* reports any or defines another macro.                                     *)
THEOREM LaterPassesSettled == ASSUME Steady PROVE Spec => [](pass > 0 => level = None /\ defCtx = NoCtx)
<1>1. ASSUME Sound, Clean, Alike PROVE pass > 0 => level = None /\ defCtx = NoCtx
  BY <1>1 DEF Alike, LaterPass, Settled
<1> QED BY <1>1, Together, PTL
=============================================================================
