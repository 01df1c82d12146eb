------------------------------ MODULE Coalesce ------------------------------
(* section_coalesce_all(): before output, the spans of all sections are      *)
(* sorted by put address and joined where they meet, or, with padding, into  *)
(* one.  One action is one turn of the inner loop.                           *)
(*                                                                           *)
(* A byte is abstracted to where it comes from: the number of its span,      *)
(* counted in the order they were begun, and its put address.                *)
EXTENDS Integers, SequencesExt, ErrorLevels

CONSTANT Inputs     \* sequences of [put, size], in the order they were begun

ASSUME InputsAreSpans == Inputs \subseteq Seq([put : Nat, size : Nat \ {0}])

VARIABLES
    input,
    pad,            \* whether gaps are to be filled
    spans,          \* the list "spans"
    at,             \* the position of "l" in it
    level,          \* error_level
    done

vars == <<input, pad, spans, at, level, done>>

Zero == [by |-> 0, put |-> 0]

BytesOf(n, s) == [j \in 1 .. s.size |-> [by |-> n, put |-> s.put + j - 1]]

End(span) == span.put + Len(span.data)

(* span_cmp(): by address, then in the order spans were begun.               *)
Before(a, b) == a.put < b.put \/ (a.put = b.put /\ a.sequence < b.sequence)

(* The span begun n-th.                                                      *)
Begun(in, n) == [put |-> in[n].put, sequence |-> n, data |-> BytesOf(n, in[n])]

(* slist_merge(): a turn of its loop takes the head of one of the lists.     *)
(* The wrong version, which a run must refute, compares the heads once.      *)
MergeOnce(left, right) ==
    IF left = <<>> \/ right = <<>> THEN left \o right
    ELSE IF Before(Head(left), Head(right)) THEN left \o right ELSE right \o left

Taken(m) ==
    IF m.right = <<>> \/ (m.left # <<>> /\ Before(Head(m.left), Head(m.right)))
    THEN [left |-> Tail(m.left), right |-> m.right, new |-> Append(m.new, Head(m.left))]
    ELSE [left |-> m.left, right |-> Tail(m.right), new |-> Append(m.new, Head(m.right))]

Merge(left, right) ==
    LET n == Len(left) + Len(right)
        turn[i \in 0 .. n] ==
            IF i = 0 THEN [left |-> left, right |-> right, new |-> <<>>] ELSE Taken(turn[i - 1])
    IN  turn[n].new

(* slist_sort(): a merge sort, which deals the elements out in turn to two   *)
(* lists, so that it would not keep elements that compare equal in order.    *)
Every(list, first) == [i \in 1 .. (Len(list) - first) \div 2 + 1 |-> list[2 * i + first - 2]]

SlistSort(list) ==
    LET sort[l \in BoundedSeq(Range(list), Len(list))] ==
            IF Len(l) <= 1 THEN l ELSE Merge(sort[Every(l, 1)], sort[Every(l, 2)])
    IN  sort[list]

(* The sections' lists of spans are joined in the order a hash table gives   *)
(* them.                                                                     *)
Gathered(in) ==
    {[i \in DOMAIN in |-> Begun(in, p[i])] : p \in Bijection(DOMAIN in, DOMAIN in)}

Init ==
    /\ input \in Inputs
    /\ pad \in BOOLEAN
    /\ \E list \in Gathered(input) : spans = SlistSort(list)
    /\ at = 1
    /\ level = None
    /\ done = FALSE

Span  == spans[at]
NSpan == spans[at + 1]
Gap   == NSpan.put - End(Span)

Turn == ~done /\ at < Len(spans) /\ UNCHANGED <<input, pad, done>>

(* Wrong versions of the actions below, which the runs must refute: no       *)
(* padding, a join that moves on, and a gap that does not.                   *)
JoinUnpadded ==
    /\ Turn
    /\ Gap = 0 \/ (Gap > 0 /\ pad)
    /\ spans' = RemoveAt([spans EXCEPT ![at].data = @ \o NSpan.data], at + 1)
    /\ UNCHANGED <<level, at>>

JoinOnce ==
    /\ Turn
    /\ Gap = 0 \/ (Gap > 0 /\ pad)
    /\ spans' = RemoveAt([spans EXCEPT ![at].data =
                             @ \o [j \in 1 .. Gap |-> Zero] \o NSpan.data], at + 1)
    /\ at' = at + 1
    /\ UNCHANGED level

StepOnSpot ==
    /\ Turn
    /\ Gap > 0
    /\ ~pad
    /\ UNCHANGED <<spans, at, level>>

(* Overlapping data is an error; the span at the lower address is cut where  *)
(* the next begins.  As span_end is not brought up to date, the two are not  *)
(* joined.                                                                   *)
Truncate ==
    /\ Turn
    /\ Gap < 0
    /\ spans' = [spans EXCEPT ![at].data = SubSeq(@, 1, Len(@) + Gap)]
    /\ level' = Raise(level, Data)
    /\ at' = at + 1

(* A gap is filled if it is to be; then the next span is taken in, and the   *)
(* one after it is looked at in turn.                                        *)
Join ==
    /\ Turn
    /\ Gap = 0 \/ (Gap > 0 /\ pad)
    /\ spans' = RemoveAt([spans EXCEPT ![at].data =
                             @ \o [j \in 1 .. Gap |-> Zero] \o NSpan.data], at + 1)
    /\ UNCHANGED <<level, at>>

StepOver ==
    /\ Turn
    /\ Gap > 0
    /\ ~pad
    /\ at' = at + 1
    /\ UNCHANGED <<spans, level>>

Finish ==
    /\ ~done
    /\ at >= Len(spans)
    /\ done' = TRUE
    /\ UNCHANGED <<input, pad, spans, at, level>>

Next == Truncate \/ Join \/ StepOver \/ Finish

Spec == Init /\ [][Next]_vars

-----------------------------------------------------------------------------
Addresses(s) == s.put .. s.put + s.size - 1

Covers(s, a) == a \in Addresses(s)

Overlap ==
    \E m, n \in DOMAIN input : m # n /\ \E a \in Addresses(input[m]) : Covers(input[n], a)

(* What the list of spans holds at address "a".                              *)
Held(a) == {spans[i].data[a - spans[i].put + 1] :
               i \in {k \in DOMAIN spans : spans[k].put <= a /\ a < End(spans[k])}}

(* Joining, cutting and padding never move a byte: each stands at the put    *)
(* address it was assembled to.  While no error has been reported every byte *)
(* is still held, at an address that holds nothing else; of the list         *)
(* section_coalesce_all() shortens as it walks it (section.c:183).           *)
BytesKept ==
    /\ \A i \in DOMAIN spans : \A j \in DOMAIN spans[i].data :
           LET b == spans[i].data[j] IN b = Zero \/ b.put = spans[i].put + j - 1
    /\ level = None => \A n \in DOMAIN input :
           \A a \in {a \in Addresses(input[n]) :
                        \A m \in DOMAIN input \ {n} : ~Covers(input[m], a)} :
               Held(a) = {[by |-> n, put |-> a]}

(* An error is reported exactly if some data overlapped: looking at          *)
(* neighbours only, and cutting as it goes, misses none (section.c:184).     *)
OverlapReported == done => (level = Data <=> Overlap)

(* In what is written to the output no address occurs twice, whatever        *)
(* overlapped.  Without overlaps no two spans that meet are left apart, and  *)
(* padding leaves one span (section.c:195).                                  *)
OutputMerged ==
    done =>
        /\ \A i \in 1 .. Len(spans) - 1 : End(spans[i]) <= spans[i + 1].put
        /\ ~Overlap =>
               /\ \A i \in 1 .. Len(spans) - 1 : End(spans[i]) < spans[i + 1].put
               /\ pad => Len(spans) <= 1

-----------------------------------------------------------------------------
(* What the comments say and the code does not do.                           *)

(* section.h: "Used to ensure later code overwrites earlier code when        *)
(* coelesced sections overlap."                                              *)
LaterOverwrites ==
    done => \A m, n \in DOMAIN input : m < n =>
        \A a \in Addresses(input[n]) :
            [by |-> m, put |-> a] \notin Held(a)

=============================================================================
