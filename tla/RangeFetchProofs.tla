--------------------------- MODULE RangeFetchProofs ---------------------------
(***************************************************************************)
(* The bisection of a range of seconds, for any range, events, page size   *)
(* and arrivals: it tiles the range, it is complete, and it is a scan.     *)
(***************************************************************************)
EXTENDS RangeFetch, FiniteSetTheorems, SequenceTheorems, TLAPS

\* Without its top a stack is one shorter and its ranges move up.
LEMMA PoppedStack ==
  ASSUME NEW R, NEW s \in Seq(R), s # <<>>
  PROVE  /\ s[1] \in R /\ Len(s) \in Nat \ {0}
         /\ Tail(s) \in Seq(R) /\ Len(Tail(s)) = Len(s) - 1
         /\ \A i \in 1 .. Len(s) - 1 : Tail(s)[i] = s[i + 1]
         /\ Tail(s) = <<>> <=> Len(s) = 1
<1>1. Len(s) \in Nat \ {0} /\ s[1] \in R
  BY EmptySeq, SMT
<1>2. Tail(s) \in Seq(R) /\ Len(Tail(s)) = Len(s) - 1
      /\ \A i \in 1 .. Len(s) - 1 : Tail(s)[i] = s[i + 1]
  BY HeadTailProperties, <1>1
<1>3. Len(<<>>) = 0
  BY EmptySeq
<1>4. Tail(s) # <<>> => Len(Tail(s)) # 0
  BY <1>2, EmptySeq
<1>5. Tail(s) = <<>> <=> Len(s) = 1
  <2>1. Tail(s) = <<>> => Len(Tail(s)) = 0
    BY <1>3, Zenon
  <2>2. Len(Tail(s)) = 0 <=> Len(s) = 1
    BY <1>1, <1>2
  <2>3. QED
    BY <2>1, <2>2, <1>4
<1>6. QED
  BY <1>1, <1>2, <1>5

LEMMA PushedStack ==
  ASSUME NEW R, NEW s \in Seq(R), NEW a \in R, NEW b \in R
  PROVE  /\ <<a, b>> \o s \in Seq(R) /\ Len(<<a, b>> \o s) = Len(s) + 2
         /\ <<a, b>> \o s # <<>>
         /\ (<<a, b>> \o s)[1] = a /\ (<<a, b>> \o s)[2] = b
         /\ \A i \in 1 .. Len(s) : (<<a, b>> \o s)[i + 2] = s[i]
<1>1. <<a, b>> \in Seq(R) /\ Len(<<a, b>>) = 2
  OBVIOUS
<1>2. QED
  BY <1>1

\* The midpoint is strictly inside a range of more than one second.
LEMMA MidpointInside ==
  ASSUME NEW from \in Nat, NEW to \in Nat, to - from > 1
  PROVE  Midpoint(from, to) \in Nat /\ from < Midpoint(from, to) /\ Midpoint(from, to) < to
<1> DEFINE half == (to - from) \div 2
<1>1. half \in Int /\ 2 * half <= to - from /\ to - from < 2 * half + 2
  BY SMT
<1>2. Midpoint(from, to) = (IF from + (IF half > 1 THEN half ELSE 1) >= to THEN to - 1
                            ELSE from + (IF half > 1 THEN half ELSE 1))
  BY DEF Midpoint
<1> HIDE DEF half
<1>3. QED
  BY <1>1, <1>2
-----------------------------------------------------------------------------
(* The inductive invariant *)

\* The pending ranges are those that are left of the window, from left to right.
Tiling == PendingTilesTheRest /\ \A i \in 1 .. Len(todo) : todo[i].to <= call.to

\* Every event that was searchable at the start and is left of the pending
\* ranges was fetched, or its second is too full to be fetched whole.
Excused(e) ==
  call.truncate /\ Cardinality(Matches(Second[e], Second[e])) >= EffectivePageSize

Covered ==
  outcome # "failed" =>
    \A e \in known : call.from <= Second[e] /\ Second[e] < Reached =>
      e \in got \/ Excused(e)

DoneMeansNothingPending == outcome = "done" => todo = <<>>

RInv == TypeOK /\ Tiling /\ Covered /\ DoneMeansNothingPending

\* A request's matches stay matches: the index only grows.
LEMMA MatchesGrow ==
  ASSUME TypeOK, index \subseteq index', index' \subseteq Event,
         NEW from \in Int, NEW to \in Int
  PROVE  /\ Cardinality(Matches(from, to)) <= Cardinality(Matches(from, to)')
         /\ Cardinality(Matches(from, to)) \in Nat
         /\ Cardinality(Matches(from, to)') \in Nat
<1>1. Matches(from, to) \subseteq Matches(from, to)'
  BY DEF Matches
<1>2. IsFiniteSet(Matches(from, to)')
  BY FS_Subset, RangeAssumption DEF Matches
<1>3. QED
  BY <1>1, <1>2, FS_Subset, FS_CardinalityType

\* The range on top of the stack.
LEMMA TopRange ==
  ASSUME TypeOK, Tiling, todo # <<>>
  PROVE  /\ todo[1].from \in Nat /\ todo[1].to \in Nat
         /\ todo[1].from < todo[1].to /\ todo[1].to <= call.to
         /\ call.from <= todo[1].from
         /\ call.from \in Nat /\ call.to \in Nat
         /\ Reached = todo[1].from
<1>1. todo[1] \in Span /\ 1 \in 1 .. Len(todo)
  BY PoppedStack DEF TypeOK
<1>2. call.from \in Nat /\ call.to \in Nat
  BY RangeAssumption DEF TypeOK, Call
<1>3. QED
  BY <1>1, <1>2 DEF Span, Tiling, PendingTilesTheRest, Reached

\* When the top range is dealt with, the stack still tiles what is left, which
\* begins where that range ended.
LEMMA PoppedTiling ==
  ASSUME TypeOK, Tiling, todo # <<>>, todo' = Tail(todo), call' = call
  PROVE  todo' \in Seq(Span) /\ Tiling' /\ Reached' = todo[1].to
<1> DEFINE n == Len(todo)
<1>1. /\ n \in Nat \ {0}
      /\ todo' \in Seq(Span) /\ Len(todo') = n - 1
      /\ \A i \in 1 .. n - 1 : todo'[i] = todo[i + 1]
      /\ todo' = <<>> <=> n = 1
  BY PoppedStack DEF TypeOK
<1>2. /\ todo[n].to = call.to
      /\ \A i \in 1 .. n - 1 : todo[i].to = todo[i + 1].from
      /\ \A i \in 1 .. n : todo[i].to <= call.to
      /\ call.from <= todo[1].from
  BY DEF Tiling, PendingTilesTheRest
<1>3. todo[1].from \in Nat /\ todo[1].to \in Nat /\ todo[1].from < todo[1].to
      /\ call.from \in Nat
  BY TopRange
<1> HIDE DEF n
<1>4. CASE n = 1
  <2>1. todo' = <<>> /\ Len(todo') = 0
    BY <1>1, <1>4
  <2>2. Reached' = todo[1].to
    BY <2>1, <1>2, <1>4 DEF Reached
  <2>3. Tiling'
    BY <2>1 DEF Tiling, PendingTilesTheRest
  <2>4. QED
    BY <1>1, <2>2, <2>3
<1>5. CASE n > 1
  <2>1. todo' # <<>> /\ todo'[1] = todo[2] /\ todo[2].from = todo[1].to
    BY <1>1, <1>2, <1>5
  <2>2. Reached' = todo[1].to
    BY <2>1 DEF Reached
  <2>3. todo'[n - 1].to = call'.to
    BY <1>1, <1>2, <1>5
  <2>4. \A i \in 1 .. n - 2 : todo'[i].to = todo'[i + 1].from
    BY <1>1, <1>2
  <2>5. \A i \in 1 .. n - 1 : todo'[i].to <= call'.to
    BY <1>1, <1>2
  <2>6. call'.from <= todo'[1].from
    BY <1>2, <1>3, <2>1
  <2>7. Len(todo') - 1 = n - 2
    BY <1>1
  <2>8. Tiling'
    BY <1>1, <2>3, <2>4, <2>5, <2>6, <2>7 DEF Tiling, PendingTilesTheRest
  <2>9. QED
    BY <1>1, <2>2, <2>8
<1>6. QED
  BY <1>1, <1>4, <1>5

\* Cutting the top range in two leaves the stack tiling the same seconds.
LEMMA SplitTiling ==
  ASSUME TypeOK, Tiling, Split
  PROVE  todo' \in Seq(Span) /\ Tiling' /\ Reached' = Reached
<1> DEFINE n == Len(todo)
           mid == Midpoint(todo[1].from, todo[1].to)
           left == [from |-> todo[1].from, to |-> mid]
           right == [from |-> mid, to |-> todo[1].to]
<1>1. /\ todo # <<>> /\ todo[1].to - todo[1].from > 1
      /\ todo' = <<left, right>> \o Tail(todo)
      /\ call' = call
  BY DEF Split, Searching
<1>2. /\ todo[1].from \in Nat /\ todo[1].to \in Nat /\ todo[1].to <= call.to
      /\ call.from <= todo[1].from /\ Reached = todo[1].from
      /\ call.from \in Nat /\ call.to \in Nat
  BY <1>1, TopRange
<1>3. mid \in Nat /\ todo[1].from < mid /\ mid < todo[1].to
  BY <1>1, <1>2, MidpointInside
<1>4. left \in Span /\ right \in Span
  BY <1>2, <1>3 DEF Span
<1>5. /\ n \in Nat \ {0} /\ Tail(todo) \in Seq(Span) /\ Len(Tail(todo)) = n - 1
      /\ \A i \in 1 .. n - 1 : Tail(todo)[i] = todo[i + 1]
  BY <1>1, PoppedStack DEF TypeOK
<1>6. /\ todo[n].to = call.to
      /\ \A i \in 1 .. n - 1 : todo[i].to = todo[i + 1].from
      /\ \A i \in 1 .. n : todo[i].to <= call.to
  BY <1>1 DEF Tiling, PendingTilesTheRest
<1> HIDE DEF n, mid, left, right
<1>7. /\ todo' \in Seq(Span) /\ Len(todo') = n + 1 /\ todo' # <<>>
      /\ todo'[1] = left /\ todo'[2] = right
      /\ \A i \in 1 .. n - 1 : todo'[i + 2] = Tail(todo)[i]
  <2>1. /\ todo' \in Seq(Span) /\ Len(todo') = Len(Tail(todo)) + 2 /\ todo' # <<>>
        /\ todo'[1] = left /\ todo'[2] = right
        /\ \A i \in 1 .. Len(Tail(todo)) : todo'[i + 2] = Tail(todo)[i]
    BY <1>1, <1>4, <1>5, PushedStack
  <2>2. QED
    BY <2>1, <1>5
<1>8. \A i \in 1 .. n - 1 : todo'[i + 2] = todo[i + 1]
  BY <1>5, <1>7
<1>9. /\ left.from = todo[1].from /\ left.to = mid
      /\ right.from = mid /\ right.to = todo[1].to
  BY DEF left, right
<1>10. \A i \in 3 .. n + 1 : todo'[i] = todo[i - 1]
  <2>1. TAKE i \in 3 .. n + 1
  <2>2. i - 2 \in 1 .. n - 1 /\ (i - 2) + 2 = i /\ (i - 2) + 1 = i - 1
    BY <1>5
  <2>3. QED
    BY <2>2, <1>8
<1>11. Reached' = Reached
  BY <1>2, <1>7, <1>9 DEF Reached
<1>12. todo'[n + 1].to = call'.to
  <2>1. CASE n = 1
    BY <2>1, <1>1, <1>6, <1>7, <1>9
  <2>2. CASE n > 1
    <3>1. n + 1 \in 3 .. n + 1 /\ (n + 1) - 1 = n
      BY <2>2, <1>5
    <3>2. QED
      BY <3>1, <1>10, <1>6, <1>1
  <2>3. QED
    BY <2>1, <2>2, <1>5
<1>13. \A i \in 1 .. n : todo'[i].to = todo'[i + 1].from
  <2>1. TAKE i \in 1 .. n
  <2>2. CASE i = 1
    BY <2>2, <1>7, <1>9
  <2>3. CASE i = 2
    <3>1. n > 1 /\ i + 1 \in 3 .. n + 1 /\ (i + 1) - 1 = 2
      BY <2>3, <1>5
    <3>2. todo'[3] = todo[2] /\ todo[1].to = todo[2].from
      BY <3>1, <2>3, <1>10, <1>6, <1>5
    <3>3. QED
      BY <3>2, <2>3, <1>7, <1>9
  <2>4. CASE i > 2
    <3>1. /\ i \in 3 .. n + 1 /\ i + 1 \in 3 .. n + 1 /\ (i + 1) - 1 = i
          /\ i - 1 \in 1 .. n - 1 /\ (i - 1) + 1 = i
      BY <2>4, <1>5
    <3>2. todo'[i] = todo[i - 1] /\ todo'[i + 1] = todo[i]
      BY <3>1, <1>10
    <3>3. QED
      BY <3>1, <3>2, <1>6
  <2>5. QED
    BY <2>2, <2>3, <2>4, <1>5
<1>14. \A i \in 1 .. n + 1 : todo'[i].to <= call'.to
  <2>1. TAKE i \in 1 .. n + 1
  <2>2. CASE i = 1
    BY <2>2, <1>1, <1>2, <1>3, <1>7, <1>9
  <2>3. CASE i = 2
    BY <2>3, <1>1, <1>2, <1>7, <1>9
  <2>4. CASE i > 2
    <3>1. i \in 3 .. n + 1 /\ i - 1 \in 1 .. n
      BY <2>4, <1>5
    <3>2. QED
      BY <3>1, <1>10, <1>6, <1>1
  <2>5. QED
    BY <2>2, <2>3, <2>4, <1>5
<1>15. call'.from <= todo'[1].from
  BY <1>1, <1>2, <1>7, <1>9
<1>16. Tiling'
  <2>1. Len(todo') - 1 = n /\ Len(todo') = n + 1
    BY <1>5, <1>7
  <2>2. QED
    BY <2>1, <1>12, <1>13, <1>14, <1>15 DEF Tiling, PendingTilesTheRest
<1>17. QED
  BY <1>7, <1>11, <1>16

-----------------------------------------------------------------------------
(* Every step keeps the invariant *)

LEMMA RInit == Init => RInv
<1> SUFFICES ASSUME Init PROVE RInv
  OBVIOUS
<1>1. call \in Call /\ call.from \in Nat /\ call.to \in Nat
  BY RangeAssumption DEF Init, Call
<1>2. /\ index \in SUBSET Event /\ known = index /\ got = {}
      /\ outcome = "running"
  BY DEF Init
<1>3. CASE call.to <= call.from
  <2>1. todo = <<>> /\ Len(todo) = 0 /\ todo \in Seq(Span)
    BY <1>3, EmptySeq DEF Init
  <2>2. \A e \in known : ~ (call.from <= Second[e] /\ Second[e] < Reached)
    BY <1>1, <1>2, <1>3, <2>1, RangeAssumption DEF Reached
  <2>3. QED
    BY <1>1, <1>2, <2>1, <2>2
       DEF RInv, TypeOK, Tiling, PendingTilesTheRest, Covered, DoneMeansNothingPending
<1>4. CASE call.from < call.to
  <2> DEFINE whole == [from |-> call.from, to |-> call.to]
  <2>1. todo = <<whole>> /\ whole \in Span
    BY <1>1, <1>4 DEF Init, Span
  <2>2. whole.from = call.from /\ whole.to = call.to
    OBVIOUS
  <2> HIDE DEF whole
  <2>3. /\ todo \in Seq(Span) /\ Len(todo) = 1 /\ todo[1] = whole /\ todo # <<>>
    BY <2>1
  <2>4. Reached = call.from
    BY <2>2, <2>3 DEF Reached
  <2>5. \A e \in known : ~ (call.from <= Second[e] /\ Second[e] < Reached)
    BY <1>1, <1>2, <2>4, RangeAssumption
  <2>6. Tiling
    BY <1>1, <2>2, <2>3 DEF Tiling, PendingTilesTheRest
  <2>7. QED
    BY <1>1, <1>2, <2>3, <2>5, <2>6
       DEF RInv, TypeOK, Covered, DoneMeansNothingPending
<1>5. QED
  BY <1>1, <1>3, <1>4

LEMMA ArriveStep ==
  ASSUME RInv, Arrive
  PROVE  RInv'
<1>1. PICK a \in Event : index' = index \cup {a}
  BY DEF Arrive
<1>2. /\ outcome = "running" /\ outcome' = outcome
      /\ call' = call /\ todo' = todo /\ got' = got /\ known' = known
  BY DEF Arrive
<1>3. TypeOK' /\ index \subseteq index' /\ index' \subseteq Event
  BY <1>1, <1>2 DEF RInv, TypeOK
<1>4. Tiling' /\ Reached' = Reached
  BY <1>2 DEF RInv, Tiling, PendingTilesTheRest, Reached
<1>5. ASSUME NEW e \in known, Excused(e)
      PROVE  Excused(e)'
  <2>1. Second[e] \in Int
    BY <1>5, RangeAssumption DEF RInv, TypeOK
  <2>2. /\ Cardinality(Matches(Second[e], Second[e]))
             <= Cardinality(Matches(Second[e], Second[e])')
        /\ Cardinality(Matches(Second[e], Second[e])) \in Nat
        /\ Cardinality(Matches(Second[e], Second[e])') \in Nat
    BY <1>3, <2>1, MatchesGrow DEF RInv
  <2>3. EffectivePageSize \in Nat /\ EffectivePageSize' = EffectivePageSize
    BY RangeAssumption DEF EffectivePageSize
  <2>4. QED
    BY <1>2, <1>5, <2>2, <2>3 DEF Excused
<1>6. Covered'
  BY <1>2, <1>4, <1>5 DEF RInv, Covered
<1>7. DoneMeansNothingPending'
  BY <1>2 DEF DoneMeansNothingPending
<1>8. QED
  BY <1>3, <1>4, <1>6, <1>7 DEF RInv

\* A search that deals with the range on top: what it returns, together with the
\* excuse a full second gives, covers that range.
LEMMA PopStep ==
  ASSUME RInv, outcome = "running", todo # <<>>, todo' = Tail(todo),
         NEW page \in SUBSET Hits, got' = got \cup page,
         UNCHANGED <<call, index, outcome, known>>,
         page = Hits \/ (/\ call.truncate /\ IsFull
                        /\ todo[1].to - todo[1].from <= 1)
  PROVE  RInv'
<1>1. /\ todo[1].from \in Nat /\ todo[1].to \in Nat /\ todo[1].from < todo[1].to
      /\ Reached = todo[1].from
  BY TopRange DEF RInv
<1>2. todo' \in Seq(Span) /\ Tiling' /\ Reached' = todo[1].to
  BY PoppedTiling DEF RInv
<1>3. Hits \subseteq index
  BY DEF Hits, Matches
<1>4. TypeOK'
  BY <1>2, <1>3 DEF RInv, TypeOK
<1>5. \A e \in known : Excused(e) => Excused(e)'
  BY DEF Excused, Matches
<1>6. ASSUME NEW e \in known, call.from <= Second[e], Second[e] < todo[1].to
      PROVE  e \in got' \/ Excused(e)'
  <2>1. Second[e] \in Nat /\ e \in index
    BY RangeAssumption DEF RInv, TypeOK
  <2>2. CASE Second[e] < todo[1].from
    BY <1>1, <1>5, <1>6, <2>2 DEF RInv, Covered
  <2>3. CASE todo[1].from <= Second[e]
    <3>1. e \in Hits
      BY <1>1, <1>6, <2>1, <2>3 DEF Hits, Matches
    <3>2. CASE page = Hits
      BY <3>1, <3>2
    <3>3. CASE call.truncate /\ IsFull /\ todo[1].to - todo[1].from <= 1
      <4>1. Second[e] = todo[1].from /\ Second[e] = todo[1].to - 1
        BY <1>1, <1>6, <2>1, <2>3, <3>3
      <4>2. Matches(Second[e], Second[e]) = Hits
        BY <4>1, Zenon DEF Hits
      <4>3. Excused(e)
        BY <3>3, <4>2 DEF Excused, IsFull
      <4>4. QED
        BY <1>5, <4>3
    <3>4. QED
      BY <3>2, <3>3
  <2>4. QED
    BY <1>1, <2>1, <2>2, <2>3
<1>7. Covered'
  BY <1>2, <1>6 DEF Covered
<1>8. DoneMeansNothingPending'
  BY DEF DoneMeansNothingPending
<1>9. QED
  BY <1>2, <1>4, <1>7, <1>8 DEF RInv

LEMMA SplitStep ==
  ASSUME RInv, Split
  PROVE  RInv'
<1>1. todo' \in Seq(Span) /\ Tiling' /\ Reached' = Reached
  BY SplitTiling DEF RInv
<1>2. /\ UNCHANGED <<call, index, got, outcome, known>>
      /\ outcome = "running"
  BY DEF Split, Searching
<1>3. \A e \in known : Excused(e) => Excused(e)'
  BY <1>2 DEF Excused, Matches
<1>4. Covered'
  BY <1>1, <1>2, <1>3 DEF RInv, Covered
<1>5. TypeOK' /\ DoneMeansNothingPending'
  BY <1>1, <1>2 DEF RInv, TypeOK, DoneMeansNothingPending
<1>6. QED
  BY <1>1, <1>4, <1>5 DEF RInv

\* A fetch that fails returns nothing and leaves its call stack as it was.
LEMMA FailedStep ==
  ASSUME RInv, outcome' = "failed", got' = {},
         UNCHANGED <<call, index, todo, known>>
  PROVE  RInv'
<1>1. TypeOK' /\ Covered' /\ DoneMeansNothingPending'
  BY DEF RInv, TypeOK, Covered, DoneMeansNothingPending
<1>2. Tiling'
  BY DEF RInv, Tiling, PendingTilesTheRest
<1>3. QED
  BY <1>1, <1>2 DEF RInv

LEMMA ReturnStep ==
  ASSUME RInv, ReturnAll
  PROVE  RInv'
<1>1. /\ outcome = "running" /\ todo = <<>> /\ outcome' = "done"
      /\ UNCHANGED <<call, index, todo, got, known>>
  BY DEF ReturnAll
<1>2. \A e \in known : Excused(e) => Excused(e)'
  BY <1>1 DEF Excused, Matches
<1>3. Reached' = Reached
  BY <1>1 DEF Reached
<1>4. Covered'
  BY <1>1, <1>2, <1>3 DEF RInv, Covered
<1>5. TypeOK' /\ DoneMeansNothingPending'
  BY <1>1 DEF RInv, TypeOK, DoneMeansNothingPending
<1>6. Tiling'
  BY <1>1 DEF RInv, Tiling, PendingTilesTheRest
<1>7. QED
  BY <1>4, <1>5, <1>6 DEF RInv

LEMMA RStutter ==
  ASSUME RInv, UNCHANGED vars
  PROVE  RInv'
BY DEF RInv, vars, TypeOK, Tiling, PendingTilesTheRest, Covered, Excused, Matches,
       Reached, DoneMeansNothingPending

LEMMA RStep == RInv /\ [Next]_vars => RInv'
<1> SUFFICES ASSUME RInv, [Next]_vars PROVE RInv'
  OBVIOUS
<1>1. CASE Arrive
  BY <1>1, ArriveStep
<1>2. CASE Leaf
  BY <1>2, PopStep DEF Leaf, Searching
<1>3. CASE Split
  BY <1>3, SplitStep
<1>4. CASE TruncateSecond
  <2>1. PICK page \in SUBSET Hits : got' = got \cup page
    BY <1>4 DEF TruncateSecond
  <2>2. /\ outcome = "running" /\ todo # <<>> /\ todo' = Tail(todo)
        /\ UNCHANGED <<call, index, outcome, known>>
        /\ call.truncate /\ IsFull /\ todo[1].to - todo[1].from <= 1
    BY <1>4 DEF TruncateSecond, Searching
  <2>3. QED
    BY <2>1, <2>2, PopStep
<1>5. CASE SecondSaturated \/ SearchRaises
  BY <1>5, FailedStep DEF SecondSaturated, SearchRaises
<1>6. CASE ReturnAll
  BY <1>6, ReturnStep
<1>7. CASE UNCHANGED vars
  BY <1>7, RStutter
<1>8. QED
  BY <1>1, <1>2, <1>3, <1>4, <1>5, <1>6, <1>7 DEF Next, Fetch, Over

LEMMA RInvAlways == Spec => []RInv
BY RInit, RStep, PTL DEF Spec

-----------------------------------------------------------------------------
(* Theorems *)

\* The variables of a fetch keep their types: above all, no pending range is ever
\* empty or reaches outside of the naturals.
THEOREM FetchTypes == Spec => []TypeOK
<1>1. RInv => TypeOK
  BY DEF RInv
<1>2. QED
  BY <1>1, RInvAlways, PTL

\* However often the bisection cuts, the ranges on the call stack of
\* _fetch_range_recursive tile the rest of the window.
THEOREM BisectionTiles == Spec => []PendingTilesTheRest
<1>1. RInv => PendingTilesTheRest
  BY DEF RInv, Tiling
<1>2. QED
  BY <1>1, RInvAlways, PTL

\* A fetch_window that returns has every event of its window that was searchable
\* when it began, except in truncated seconds.
THEOREM FetchIsComplete == Spec => []CompleteUnlessSaturated
<1>1. RInv => CompleteUnlessSaturated
  BY DEF RInv, Covered, Excused, DoneMeansNothingPending, Reached, CompleteUnlessSaturated
<1>2. QED
  BY <1>1, RInvAlways, PTL

-----------------------------------------------------------------------------
(* The bisection is a scan of the window *)

\* The instance counts as its host does.
LEMMA ScanCounts ==
  ASSUME NEW S
  PROVE  Scan!Cardinality(S) = Cardinality(S)
BY Zenon DEF Cardinality, Scan!Cardinality

\* The matches of a request are the events of a slice of the scan.
LEMMA HitsAreASlice ==
  ASSUME RInv, todo # <<>>
  PROVE  Hits = Scan!In(index, Reached, todo[1].to)
<1>1. Reached = todo[1].from /\ todo[1].to \in Nat
  BY TopRange DEF RInv
<1>2. \A e \in index : Second[e] \in Nat
  BY RangeAssumption DEF RInv, TypeOK
<1>3. QED
  BY <1>1, <1>2 DEF Hits, Matches, Scan!In

\* A full page over a single second is a saturated second of the scan.
LEMMA FullSecondIsSaturated ==
  ASSUME RInv, todo # <<>>, IsFull, todo[1].to - todo[1].from <= 1
  PROVE  /\ Scan!Saturated(Reached) /\ Reached < call.to
         /\ todo[1].to = Reached + 1
         /\ Hits = Scan!In(index, Reached, Reached + 1)
<1>1. /\ todo[1].from \in Nat /\ todo[1].to \in Nat /\ todo[1].from < todo[1].to
      /\ todo[1].to <= call.to /\ Reached = todo[1].from /\ call.to \in Nat
  BY TopRange DEF RInv
<1>2. todo[1].to = Reached + 1 /\ Reached < call.to
  BY <1>1
<1>3. Hits = Scan!In(index, Reached, Reached + 1)
  BY <1>2, HitsAreASlice
<1>4. QED
  BY <1>2, <1>3, ScanCounts DEF Scan!Saturated, IsFull

LEMMA ScanInit == Init => Scan!Init
<1> SUFFICES ASSUME Init PROVE Scan!Init
  OBVIOUS
<1>1. call \in [from : Nat, to : Nat, truncate : BOOLEAN]
      /\ call.from \in Nat /\ call.to \in Nat
  BY RangeAssumption DEF Init, Call
<1>2. Reached = IF call.from < call.to THEN call.from ELSE call.to
  <2>1. CASE call.to <= call.from
    BY <1>1, <2>1 DEF Init, Reached
  <2>2. CASE call.from < call.to
    <3> DEFINE whole == [from |-> call.from, to |-> call.to]
    <3>1. todo = <<whole>> /\ whole.from = call.from
      BY <1>1, <2>2 DEF Init
    <3>2. todo # <<>> /\ todo[1] = whole
      BY <3>1
    <3>3. QED
      BY <2>2, <3>1, <3>2 DEF Reached
  <2>3. QED
    BY <1>1, <2>1, <2>2
<1>3. QED
  BY <1>1, <1>2 DEF Init, Scan!Init

LEMMA ScanStep == RInv /\ RInv' /\ [Next]_vars => [Scan!Next]_(Scan!vars)
<1> SUFFICES ASSUME RInv, RInv', [Next]_vars
             PROVE  Scan!Next \/ UNCHANGED Scan!vars
  OBVIOUS
<1>1. CASE Arrive
  <2>1. /\ UNCHANGED <<call, todo, got, outcome>>
        /\ \E e \in Event : index' = index \cup {e}
    BY <1>1 DEF Arrive
  <2>2. Reached' = Reached
    BY <2>1 DEF Reached
  <2>3. QED
    BY <2>1, <2>2 DEF Scan!Next, Scan!Arrive
<1>2. CASE Leaf
  <2>1. /\ outcome = "running" /\ todo # <<>> /\ todo' = Tail(todo)
        /\ got' = got \cup Hits /\ UNCHANGED <<call, index, outcome>>
    BY <1>2 DEF Leaf, Searching
  <2>2. Reached' = todo[1].to
    BY <2>1, PoppedTiling DEF RInv
  <2>3. todo[1].to \in (Reached + 1) .. call.to
    BY <2>1, TopRange DEF RInv
  <2>4. Hits = Scan!In(index, Reached, todo[1].to)
    BY <2>1, HitsAreASlice
  <2>5. QED
    BY <2>1, <2>2, <2>3, <2>4 DEF Scan!Next, Scan!Fetch, Scan!Slice
<1>3. CASE Split
  BY <1>3, SplitTiling DEF RInv, Split, Scan!vars
<1>4. CASE TruncateSecond
  <2>1. PICK page \in SUBSET Hits :
          Cardinality(page) = EffectivePageSize /\ got' = got \cup page
    BY <1>4 DEF TruncateSecond
  <2>2. /\ outcome = "running" /\ todo # <<>> /\ todo' = Tail(todo)
        /\ UNCHANGED <<call, index, outcome>>
        /\ call.truncate /\ IsFull /\ todo[1].to - todo[1].from <= 1
    BY <1>4 DEF TruncateSecond, Searching
  <2>3. /\ Scan!Saturated(Reached) /\ Reached < call.to
        /\ todo[1].to = Reached + 1
        /\ Hits = Scan!In(index, Reached, Reached + 1)
    BY <2>2, FullSecondIsSaturated
  <2>4. Reached' = Reached + 1
    BY <2>2, <2>3, PoppedTiling DEF RInv
  <2>5. QED
    BY <2>1, <2>2, <2>3, <2>4, ScanCounts DEF Scan!Next, Scan!Fetch, Scan!ShortSecond
<1>5. CASE SecondSaturated \/ SearchRaises
  <2>1. /\ outcome = "running" /\ todo # <<>> /\ outcome' = "failed" /\ got' = {}
        /\ UNCHANGED <<call, index, todo>>
    BY <1>5 DEF SecondSaturated, SearchRaises, Searching
  <2>2. Reached < call.to
    BY <2>1, TopRange DEF RInv
  <2>3. Reached' = Reached
    BY <2>1 DEF Reached
  <2>4. QED
    BY <2>1, <2>2, <2>3 DEF Scan!Next, Scan!Fetch, Scan!Fail
<1>6. CASE ReturnAll
  <2>1. /\ outcome = "running" /\ todo = <<>> /\ outcome' = "done"
        /\ UNCHANGED <<call, index, todo, got>>
    BY <1>6 DEF ReturnAll
  <2>2. Reached = call.to /\ Reached' = Reached
    BY <2>1 DEF Reached
  <2>3. QED
    BY <2>1, <2>2 DEF Scan!Next, Scan!Fetch, Scan!Finish
<1>7. CASE UNCHANGED vars
  BY <1>7 DEF vars, Scan!vars, Reached
<1>8. QED
  BY <1>1, <1>2, <1>3, <1>4, <1>5, <1>6, <1>7 DEF Next, Fetch, Over

\* fetch_window implements the window scan that TsugaSync reads its windows by: its
\* initial states are the scan's, and each of its steps is one of the scan or none.
THEOREM BisectionIsAScan == Spec => ScanSafety
<1>1. Spec => Scan!Init /\ [][Scan!Next]_(Scan!vars)
  BY ScanInit, ScanStep, RInvAlways, PTL DEF Spec
<1>2. QED
  BY <1>1 DEF ScanSafety
=============================================================================
