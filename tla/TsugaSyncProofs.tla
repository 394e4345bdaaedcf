--------------------------- MODULE TsugaSyncProofs ---------------------------
(***************************************************************************)
(* What TsugaSync guarantees for every set of events and every value of    *)
(* the options: what IInv carries when batches are not capped, whatever    *)
(* fails; what CleanInv carries with a cap too.                            *)
(***************************************************************************)
EXTENDS TsugaSyncInv, FiniteSetTheorems, TLAPS

-----------------------------------------------------------------------------
(* Windows *)

LEMMA Division ==
  ASSUME NEW s \in Nat, NEW w \in Nat \ {0}
  PROVE  \E q \in Nat : q * w <= s /\ s < q * w + w
<1> DEFINE q == s \div w
<1>1. q \in Int
  BY SMT
<1>2. w * q <= s /\ s < w * q + w
  BY SMT
<1> HIDE DEF q
<1>3. q >= 0
  BY <1>1, <1>2, SMT
<1>4. q * w <= s /\ s < q * w + w
  BY <1>1, <1>2, SMT
<1>5. QED
  BY <1>1, <1>3, <1>4

LEMMA TimesMonotone ==
  ASSUME NEW i \in Nat, NEW j \in Nat, NEW w \in Nat, i <= j
  PROVE  i * w <= j * w
BY SMT

\* What iter_windows returns: its windows are inside the range, and every
\* second before the end of a window that is the last one lies in a window.
LEMMA WindowsInRange ==
  ASSUME NEW from \in Nat, NEW end \in Nat, from < end,
         NEW i \in DOMAIN IterWindows(from, end)
  PROVE  /\ i \in 1 .. MaxConcurrency
         /\ IterWindows(from, end)[i].from = from + (i - 1) * WindowSeconds
         /\ IterWindows(from, end)[i].to = Smaller(from + i * WindowSeconds, end)
         /\ IterWindows(from, end)[i].from \in Nat
         /\ IterWindows(from, end)[i].to \in Nat
         /\ from <= IterWindows(from, end)[i].from
         /\ IterWindows(from, end)[i].from < IterWindows(from, end)[i].to
         /\ IterWindows(from, end)[i].to <= end
<1> DEFINE a == (i - 1) * WindowSeconds
           b == i * WindowSeconds
<1>1. i \in 1 .. MaxConcurrency /\ from + a < end
  BY DEF IterWindows
<1>2. i \in Nat /\ i >= 1 /\ i - 1 \in Nat /\ WindowSeconds \in Nat /\ WindowSeconds > 0
  BY <1>1, OptionsAssumption
<1>3. a \in Nat /\ b \in Nat
  BY <1>2, SMT
<1>4. b = a + WindowSeconds
  BY <1>2, SMT
<1>5. /\ IterWindows(from, end)[i].from = from + a
      /\ IterWindows(from, end)[i].to = Smaller(from + b, end)
  BY DEF IterWindows
<1> HIDE DEF a, b
<1>6. QED
  <2>1. Smaller(from + b, end) \in Nat /\ Smaller(from + b, end) <= end
    BY <1>3 DEF Smaller
  <2>2. from + a < Smaller(from + b, end)
    BY <1>1, <1>2, <1>3, <1>4 DEF Smaller
  <2>3. QED
    BY <1>1, <1>3, <1>5, <2>1, <2>2 DEF a, b

LEMMA WindowsDomain ==
  ASSUME NEW from \in Nat, NEW end \in Nat
  PROVE  DOMAIN IterWindows(from, end)
           = {k \in 1 .. MaxConcurrency : from + (k - 1) * WindowSeconds < end}
BY DEF IterWindows

\* The end of a round: the last window ends where all of them together do.
LEMMA LastWindowEnd ==
  ASSUME NEW from \in Nat, NEW end \in Nat, from < end,
         NEW i \in DOMAIN IterWindows(from, end),
         i + 1 \notin DOMAIN IterWindows(from, end)
  PROVE  IterWindows(from, end)[i].to
           = Smaller(from + MaxConcurrency * WindowSeconds, end)
<1>1. /\ i \in 1 .. MaxConcurrency /\ MaxConcurrency \in Nat
      /\ WindowSeconds \in Nat /\ i \in Nat
      /\ IterWindows(from, end)[i].to = Smaller(from + i * WindowSeconds, end)
  BY WindowsInRange, OptionsAssumption
<1>2. CASE i = MaxConcurrency
  BY <1>1, <1>2
<1>3. CASE i # MaxConcurrency
  <2>1. i + 1 \in 1 .. MaxConcurrency /\ i + 1 - 1 = i
    BY <1>1, <1>3
  <2>2. ~ (from + i * WindowSeconds < end)
    <3>1. SUFFICES ASSUME from + i * WindowSeconds < end PROVE FALSE
      OBVIOUS
    <3>2. PICK k \in 1 .. MaxConcurrency : k = i + 1
      BY <2>1
    <3>3. k - 1 = i
      BY <1>1, <3>2
    <3>4. from + (k - 1) * WindowSeconds < end
      BY <3>1, <3>3
    <3>5. k \in DOMAIN IterWindows(from, end)
      BY <3>4, WindowsDomain
    <3>6. QED
      BY <3>2, <3>5
  <2>3. i * WindowSeconds <= MaxConcurrency * WindowSeconds
    BY <1>1, TimesMonotone
  <2>4. i * WindowSeconds \in Nat /\ MaxConcurrency * WindowSeconds \in Nat
    BY <1>1, SMT
  <2> DEFINE a == i * WindowSeconds
             b == MaxConcurrency * WindowSeconds
  <2> HIDE DEF a, b
  <2>5. Smaller(from + a, end) = Smaller(from + b, end)
    BY <2>2, <2>3, <2>4 DEF Smaller, a, b
  <2>6. QED
    BY <1>1, <2>5 DEF a, b
<1>4. QED
  BY <1>2, <1>3

\* A second of the round's range has a window.
LEMMA WindowsCover ==
  ASSUME NEW from \in Nat, NEW end \in Nat, from < end,
         NEW s \in Nat, from <= s, s < end, s < from + MaxConcurrency * WindowSeconds
  PROVE  \E i \in DOMAIN IterWindows(from, end) :
           /\ IterWindows(from, end)[i].from <= s
           /\ s < IterWindows(from, end)[i].to
<1>1. s - from \in Nat /\ WindowSeconds \in Nat \ {0} /\ MaxConcurrency \in Nat
  BY OptionsAssumption
<1>2. PICK q \in Nat : q * WindowSeconds <= s - from
                       /\ s - from < q * WindowSeconds + WindowSeconds
  BY <1>1, Division
<1>3. (q + 1) * WindowSeconds = q * WindowSeconds + WindowSeconds
  BY <1>1, SMT
<1>4. q * WindowSeconds \in Nat
  BY <1>1, SMT
<1>5. q < MaxConcurrency
  <2>1. SUFFICES ASSUME MaxConcurrency <= q PROVE FALSE
    BY <1>1
  <2>2. MaxConcurrency * WindowSeconds <= q * WindowSeconds
    BY <1>1, <2>1, TimesMonotone
  <2>3. MaxConcurrency * WindowSeconds \in Nat
    BY <1>1, SMT
  <2> DEFINE a == q * WindowSeconds
             b == MaxConcurrency * WindowSeconds
  <2> HIDE DEF a, b
  <2>4. a \in Nat /\ b \in Nat /\ b <= a /\ a <= s - from /\ s < from + b
    BY <1>2, <1>4, <2>2, <2>3 DEF a, b
  <2>5. QED
    BY <2>4
<1>6. q + 1 \in DOMAIN IterWindows(from, end)
  <2> DEFINE a == q * WindowSeconds
  <2>1. from + a < end
    <3> HIDE DEF a
    <3>1. a \in Nat /\ a <= s - from
      BY <1>2, <1>4 DEF a
    <3>2. QED
      BY <3>1
  <2>2. q + 1 \in 1 .. MaxConcurrency /\ (q + 1) - 1 = q
    BY <1>1, <1>5
  <2>3. QED
    BY <2>1, <2>2, WindowsDomain
<1>7. /\ IterWindows(from, end)[q + 1].from = from + q * WindowSeconds
      /\ IterWindows(from, end)[q + 1].to
           = Smaller(from + (q * WindowSeconds + WindowSeconds), end)
  <2>1. (q + 1) - 1 = q
    OBVIOUS
  <2>2. QED
    BY <1>3, <1>6, <2>1, WindowsInRange
<1> DEFINE a == q * WindowSeconds
<1>8. from + a <= s /\ s < Smaller(from + (a + WindowSeconds), end)
  <2>1. a \in Nat /\ a <= s - from /\ s - from < a + WindowSeconds /\ WindowSeconds \in Nat
    BY <1>1, <1>2, <1>4
  <2> HIDE DEF a
  <2>2. QED
    BY <2>1 DEF Smaller
<1>9. QED
  BY <1>6, <1>7, <1>8

\* A round ends after it starts, inside the range, and its windows hold every
\* second up to there.
LEMMA RoundFacts ==
  ASSUME nextStart \in Nat, initEnd \in Nat, nextStart < initEnd,
         windows = IterWindows(nextStart, initEnd)
  PROVE  /\ RoundEnd \in Nat
         /\ nextStart < RoundEnd /\ RoundEnd <= initEnd
         /\ \A s \in Nat : nextStart <= s /\ s < RoundEnd =>
              \E i \in DOMAIN windows : windows[i].from <= s /\ s < windows[i].to
         /\ \A i \in DOMAIN windows : windows[i].to <= RoundEnd
<1> DEFINE end == Smaller(nextStart + MaxConcurrency * WindowSeconds, initEnd)
           total == MaxConcurrency * WindowSeconds
<1>1. total \in Nat /\ total > 0
  BY OptionsAssumption, SMT
<1>2. end \in Nat /\ nextStart < end /\ end <= initEnd /\ end <= nextStart + total
  <2> HIDE DEF total
  <2>1. Smaller(nextStart + total, initEnd) \in Nat
        /\ nextStart < Smaller(nextStart + total, initEnd)
        /\ Smaller(nextStart + total, initEnd) <= initEnd
        /\ Smaller(nextStart + total, initEnd) <= nextStart + total
    BY <1>1 DEF Smaller
  <2>2. QED
    BY <2>1 DEF total
<1>3. \E i \in DOMAIN windows : i + 1 \notin DOMAIN windows
  <2>1. end - 1 \in Nat /\ nextStart <= end - 1 /\ end - 1 < initEnd
        /\ end - 1 < nextStart + total
    <3> HIDE DEF end, total
    <3>1. QED
      BY <1>1, <1>2
  <2>2. PICK i \in DOMAIN windows : windows[i].from <= end - 1 /\ end - 1 < windows[i].to
    <3> HIDE DEF end
    <3>1. QED
      BY <2>1, WindowsCover
  <2>3. i + 1 \in DOMAIN windows => FALSE
    <3>1. SUFFICES ASSUME i + 1 \in DOMAIN windows PROVE FALSE
      OBVIOUS
    <3>2. /\ windows[i + 1].from = nextStart + (i + 1 - 1) * WindowSeconds
          /\ i + 1 \in 1 .. MaxConcurrency
          /\ windows[i + 1].from < initEnd
      <4>1. /\ windows[i + 1].from < windows[i + 1].to /\ windows[i + 1].to <= initEnd
            /\ windows[i + 1].from \in Nat /\ windows[i + 1].to \in Nat
        BY <3>1, WindowsInRange
      <4>2. QED
        BY <3>1, <4>1, WindowsInRange
    <3>3. i \in 1 .. MaxConcurrency
          /\ windows[i].to = Smaller(nextStart + i * WindowSeconds, initEnd)
      BY WindowsInRange
    <3>4. i + 1 - 1 = i
      BY <3>3
    <3>5. /\ i * WindowSeconds \in Nat
          /\ (i + 1) * WindowSeconds = i * WindowSeconds + WindowSeconds
          /\ (i + 1) * WindowSeconds \in Nat
          /\ (i + 1) * WindowSeconds <= MaxConcurrency * WindowSeconds
      <4>1. i \in Nat /\ i + 1 \in Nat /\ MaxConcurrency \in Nat /\ WindowSeconds \in Nat
            /\ i + 1 <= MaxConcurrency
        BY <3>2, <3>3, OptionsAssumption
      <4>2. (i + 1) * WindowSeconds <= MaxConcurrency * WindowSeconds
        BY <4>1, TimesMonotone
      <4>3. QED
        BY <4>1, <4>2, SMT
    <3> DEFINE a == i * WindowSeconds
               b == (i + 1) * WindowSeconds
    <3>6. nextStart + a < initEnd /\ windows[i].to = Smaller(nextStart + a, initEnd)
      BY <3>2, <3>3, <3>4
    <3>7. a \in Nat /\ b \in Nat /\ b = a + WindowSeconds /\ b <= total
          /\ WindowSeconds \in Nat /\ WindowSeconds > 0
      BY <3>5, OptionsAssumption
    <3> HIDE DEF a, b, total
    <3>8. end = Smaller(nextStart + total, initEnd)
      BY DEF total
    <3> HIDE DEF end
    <3>9. windows[i].to = nextStart + a
      BY <3>6, <3>7 DEF Smaller
    <3>10. QED
      BY <1>1, <1>2, <2>2, <3>6, <3>7, <3>8, <3>9 DEF Smaller
  <2>4. QED
    BY <2>2, <2>3
<1>4. RoundEnd = end
  <2> DEFINE last == CHOOSE i \in DOMAIN windows : i + 1 \notin DOMAIN windows
  <2>1. last \in DOMAIN windows /\ last + 1 \notin DOMAIN windows
    BY <1>3
  <2>2. RoundEnd = windows[last].to
    BY DEF RoundEnd
  <2> HIDE DEF last
  <2>3. QED
    BY <2>1, <2>2, LastWindowEnd
<1>5. ASSUME NEW s \in Nat, nextStart <= s, s < RoundEnd
      PROVE  \E i \in DOMAIN windows : windows[i].from <= s /\ s < windows[i].to
  <2>1. s < initEnd /\ s < nextStart + total
    <3> HIDE DEF end, total
    <3>1. QED
      BY <1>1, <1>2, <1>4, <1>5
  <2>2. QED
    BY <1>5, <2>1, WindowsCover
<1>6. ASSUME NEW i \in DOMAIN windows
      PROVE  windows[i].to <= RoundEnd
  <2> DEFINE a == i * WindowSeconds
  <2>1. i \in 1 .. MaxConcurrency /\ windows[i].to = Smaller(nextStart + a, initEnd)
    BY WindowsInRange
  <2>2. a \in Nat /\ a <= total
    <3>1. i \in Nat /\ MaxConcurrency \in Nat /\ WindowSeconds \in Nat /\ i <= MaxConcurrency
      BY <2>1, OptionsAssumption
    <3>2. QED
      BY <3>1, TimesMonotone, SMT
  <2>3. Smaller(nextStart + a, initEnd) <= Smaller(nextStart + total, initEnd)
    <3> HIDE DEF a, total
    <3>1. QED
      BY <1>1, <2>2 DEF Smaller
  <2>4. QED
    BY <1>4, <2>1, <2>3
<1>7. QED
  BY <1>2, <1>4, <1>5, <1>6

-----------------------------------------------------------------------------
(* The start of a batch *)

\* Where a batch starts that resumes from an offset without fingerprints.
LEMMA StartFacts ==
  ASSUME NEW off \in Offset, NEW end \in Nat, off.seen = {}, end >= 1
  PROVE  /\ StartSeconds(off, end) \in Nat
         /\ off.cursor < end => StartSeconds(off, end) < end
         /\ off.cursor >= end => StartSeconds(off, end) = off.cursor
         /\ off # NoOffset /\ off.cursor < end =>
              /\ off.cursor - Overlap <= StartSeconds(off, end)
              /\ \A s \in Nat : off.cursor - Overlap <= s => StartSeconds(off, end) <= s
<1>1. off.cursor \in Nat \cup {-1}
  BY DEF Offset
<1>2. off # NoOffset => off.cursor \in Nat
  <2>1. off.cursor = -1 => off = [cursor |-> -1, seen |-> {}]
    BY DEF Offset
  <2>2. QED
    BY <1>1, <2>1 DEF NoOffset
<1>3. CASE off = NoOffset
  <2>1. StartSeconds(off, end) = Larger(0, end - InitialLookback)
    BY <1>3 DEF StartSeconds
  <2>2. off.cursor = -1
    BY <1>3 DEF NoOffset
  <2>3. QED
    BY <1>3, <2>1, <2>2, OptionsAssumption DEF Larger
<1>4. CASE off # NoOffset
  <2>1. StartSeconds(off, end)
          = IF off.cursor >= end THEN off.cursor ELSE Larger(0, off.cursor - Overlap)
    BY <1>4 DEF StartSeconds
  <2>2. QED
    BY <1>2, <1>4, <2>1, OptionsAssumption DEF Larger
<1>5. QED
  BY <1>3, <1>4

LEMMA KnownUnchanged ==
  ASSUME UNCHANGED <<arrival, initEnd, replaying, planned>>
  PROVE  Known' = Known /\ Indexed' = Indexed
BY DEF Known, Indexed

-----------------------------------------------------------------------------
(* Without a cap: the invariant holds initially and every step keeps it. *)

LEMMA EmptyTuple ==
  ASSUME NEW S
  PROVE  DOMAIN <<>> = {} /\ <<>> \in [DOMAIN <<>> -> S]
OBVIOUS

LEMMA InitInv == Init => IInv
<1> SUFFICES ASSUME Init PROVE IInv
  OBVIOUS
<1>1. TypeOK
  <2>1. /\ DOMAIN windows \subseteq 1 .. MaxConcurrency
        /\ windows \in [DOMAIN windows -> [from : Nat, to : Nat]]
        /\ reached \in [DOMAIN windows -> Nat]
        /\ fetched \in [DOMAIN windows -> SUBSET Event]
    BY EmptyTuple DEF Init, NoBatch
  <2>2. NoOffset \in Offset
    BY DEF NoOffset, Offset
  <2>3. QED
    BY <2>1, <2>2 DEF Init, NoBatch, TypeOK, Phases, NotIndexed
<1>2. ClockInv /\ OffsetInv
  BY DEF Init, ClockInv, OffsetInv, NotIndexed, NoOffset, Pending
<1>3. PlannedInv /\ StartInv /\ FetchInv /\ CollectedInv /\ ReturnedInv /\ WriteInv
  BY DEF Init, NoBatch, PlannedInv, StartInv, Reading, FetchInv, CollectedInv,
         ReturnedInv, WriteInv
<1>4. NoLateLoss /\ ReplayMissesNothing /\ NoFutureRows
  BY DEF Init, NoLateLoss, InTime, ReplayMissesNothing, NoFutureRows
<1>5. QED
  BY <1>1, <1>2, <1>3, <1>4 DEF IInv

LEMMA TickKeepsInv == IInv /\ Tick => IInv'
<1> SUFFICES ASSUME IInv, Tick PROVE IInv'
  OBVIOUS
<1> USE DEF IInv, Tick, durable, run, batch, history
<1>1. TypeOK'
  BY DEF TypeOK
<1>2. now \in Nat /\ now' = now + 1 /\ initEnd \in Nat
      /\ arrival \in [Event -> Nat \cup {NotIndexed}]
      /\ committed \in Offset /\ logged \in Offset
  BY DEF TypeOK
<1>3. ClockInv'
  BY <1>2 DEF ClockInv, NotIndexed
<1>4. OffsetInv'
  BY <1>2 DEF OffsetInv, Pending, Offset
<1>5. Known' = Known /\ Indexed' = Indexed
  BY KnownUnchanged
<1>6. PlannedInv' /\ StartInv' /\ CollectedInv' /\ ReturnedInv' /\ WriteInv'
  BY <1>5 DEF PlannedInv, StartInv, Reading, CollectedInv, ReturnedInv, WriteInv, Covers,
              Pending
<1>7. FetchInv'
  BY <1>5 DEF FetchInv, Covers
<1>8. NoLateLoss' /\ ReplayMissesNothing'
  BY DEF NoLateLoss, InTime, ResumePoint, ReplayMissesNothing, Pending
<1>9. NoFutureRows'
  BY <1>2, EventAssumption DEF NoFutureRows, TypeOK
<1>10. QED
  BY <1>1, <1>3, <1>4, <1>6, <1>7, <1>8, <1>9

LEMMA IndexKeepsInv ==
  ASSUME IInv, NEW e \in Event, Index(e)
  PROVE  IInv'
<1> USE DEF durable, run, batch, history
<1>1. /\ now \in Nat /\ now' = now /\ initEnd \in Nat
      /\ arrival \in [Event -> Nat \cup {NotIndexed}]
      /\ committed \in Offset /\ logged \in Offset /\ planned \subseteq Event
      /\ arrival[e] = NotIndexed
      /\ arrival' = [arrival EXCEPT ![e] = now]
      /\ initEnd <= now + 1
      /\ UNCHANGED <<durable, run, batch, history>>
  BY DEF Index, IInv, TypeOK, ClockInv
<1>2. TypeOK'
  BY <1>1 DEF IInv, TypeOK
<1>3. ClockInv' /\ OffsetInv'
  BY <1>1 DEF IInv, ClockInv, OffsetInv, Pending
<1>4. Indexed' = Indexed \cup {e}
  BY <1>1 DEF Indexed, NotIndexed
<1>5. e \notin planned
  BY <1>1 DEF IInv, PlannedInv, Indexed
<1>6. Known' = Known
  <2>1. ASSUME NEW f \in Event
        PROVE  f \in Known' <=> f \in Known
    <3>1. CASE f = e
      BY <1>1, <1>5, <3>1 DEF Known, Indexed, NotIndexed
    <3>2. CASE f # e
      BY <1>1, <3>2 DEF Known, Indexed
    <3>3. QED
      BY <3>1, <3>2
  <2>2. Known \subseteq Event /\ Known' \subseteq Event
    BY DEF Known, Indexed
  <2>3. QED
    BY <2>1, <2>2
<1>7. PlannedInv'
  BY <1>1, <1>4 DEF IInv, PlannedInv, Pending
<1>8. StartInv' /\ CollectedInv' /\ ReturnedInv' /\ WriteInv'
  BY <1>1, <1>4, <1>6
  DEF IInv, StartInv, Reading, CollectedInv, ReturnedInv, WriteInv, Covers
<1>9. FetchInv'
  BY <1>1, <1>4, <1>6 DEF IInv, FetchInv, Covers
<1>10. NoLateLoss'
  <2>1. ResumePoint' = ResumePoint /\ ResumePoint = committed.cursor - Overlap
    BY <1>1 DEF ResumePoint, IInv, OffsetInv
  <2>2. committed.cursor <= now + 1 /\ committed.cursor \in Int
    BY <1>1 DEF IInv, OffsetInv, Pending, Offset
  <2>3. ASSUME NEW f \in Event, InTime(f)', since' <= Second[f], Second[f] < ResumePoint'
        PROVE  f \in table'
    <3>1. CASE f = e
      <4>1. Second[f] \in Nat /\ now < Second[f] + Overlap
        BY <1>1, <2>3, <3>1, EventAssumption DEF InTime
      <4>2. Second[f] < now + 1 - Overlap
        BY <1>1, <2>1, <2>2, <2>3, <4>1, OptionsAssumption
      <4>3. QED
        BY <1>1, <4>1, <4>2, OptionsAssumption
    <3>2. CASE f # e
      BY <1>1, <2>1, <2>3, <3>2 DEF IInv, NoLateLoss, InTime
    <3>3. QED
      BY <3>1, <3>2
  <2>4. QED
    BY <2>3 DEF NoLateLoss
<1>11. ReplayMissesNothing' /\ NoFutureRows'
  BY <1>1 DEF IInv, ReplayMissesNothing, NoFutureRows, Pending
<1>12. QED
  BY <1>2, <1>3, <1>7, <1>8, <1>9, <1>10, <1>11 DEF IInv

LEMMA StartRunKeepsInv == IInv /\ StartRun => IInv'
<1> SUFFICES ASSUME IInv, StartRun PROVE IInv'
  OBVIOUS
<1> USE DEF StartRun, service, durable, batch, history
<1>1. TypeOK'
  BY DEF IInv, TypeOK, Phases, Pending
<1>2. now \in Nat
  BY DEF IInv, TypeOK
<1>3. ClockInv'
  BY <1>2 DEF IInv, ClockInv
<1>4. OffsetInv'
  <2>1. /\ committed.seen = {} /\ logged.seen = {}
        /\ logged.cursor <= now + 1
        /\ Pending => committed.cursor < logged.cursor
    BY DEF IInv, OffsetInv
  <2>2. Pending' <=> Pending
    BY DEF Pending
  <2>3. replaying' <=> Pending'
    BY <2>2
  <2>4. phase' = "call"
    OBVIOUS
  <2>5. QED
    BY <2>1, <2>2, <2>3, <2>4, Zenon DEF OffsetInv
<1>5. PlannedInv' /\ StartInv' /\ FetchInv' /\ CollectedInv' /\ ReturnedInv' /\ WriteInv'
  BY DEF IInv, PlannedInv, StartInv, Reading, FetchInv, CollectedInv, ReturnedInv,
         WriteInv, Pending, Indexed
<1>6. NoLateLoss' /\ ReplayMissesNothing' /\ NoFutureRows'
  BY DEF IInv, OffsetInv, NoLateLoss, InTime, ResumePoint, ReplayMissesNothing, Pending,
         NoFutureRows
<1>7. QED
  BY <1>1, <1>3, <1>4, <1>5, <1>6 DEF IInv

LEMMA ReadNothingKeepsInv == IInv /\ ReadNothing => IInv'
<1> SUFFICES ASSUME IInv, ReadNothing PROVE IInv'
  OBVIOUS
<1> USE DEF ReadNothing, service, durable, history
<1>1. /\ committed \in Offset /\ initEnd \in Nat /\ initEnd >= 1 /\ committed.seen = {}
      /\ collected = {}
  BY DEF IInv, TypeOK, ClockInv, OffsetInv, CollectedInv
<1>2. StartSeconds(committed, initEnd) \in Nat
  BY <1>1, StartFacts
<1>3. TypeOK'
  BY <1>1, <1>2 DEF IInv, TypeOK, Phases
<1>4. ClockInv' /\ OffsetInv' /\ PlannedInv'
  BY DEF IInv, ClockInv, OffsetInv, PlannedInv, Pending, Indexed
<1>5. StartInv' /\ FetchInv' /\ CollectedInv' /\ ReturnedInv' /\ WriteInv'
  BY <1>1 DEF IInv, StartInv, FetchInv, CollectedInv, ReturnedInv, WriteInv
<1>6. NoLateLoss' /\ ReplayMissesNothing' /\ NoFutureRows'
  BY DEF IInv, NoLateLoss, InTime, ResumePoint, ReplayMissesNothing, Pending, NoFutureRows
<1>7. QED
  BY <1>3, <1>4, <1>5, <1>6 DEF IInv

\* The windows a round starts with.
LEMMA PlannedRound ==
  ASSUME NEW from \in Nat, initEnd \in Nat, from < initEnd, initEnd' = initEnd,
         UNCHANGED <<arrival, replaying, planned>>,
         PlanWindows(from)
  PROVE  /\ nextStart' = from /\ nextStart' \in Nat
         /\ windows' = IterWindows(nextStart', initEnd')
         /\ DOMAIN windows' \subseteq 1 .. MaxConcurrency
         /\ windows' \in [DOMAIN windows' -> [from : Nat, to : Nat]]
         /\ reached' \in [DOMAIN windows' -> Nat]
         /\ fetched' \in [DOMAIN windows' -> SUBSET Event]
         /\ \A i \in DOMAIN windows' : reached'[i] \in windows'[i].from .. windows'[i].to
         /\ \A i \in DOMAIN windows' : Covers(fetched[i], windows[i].from, reached[i])'
         /\ \A i \in DOMAIN windows' : fetched'[i] = {}
<1>1. /\ windows' = IterWindows(from, initEnd)
      /\ reached' = [i \in DOMAIN windows' |-> windows'[i].from]
      /\ fetched' = [i \in DOMAIN windows' |-> {}]
      /\ nextStart' = from
  BY DEF PlanWindows
<1>2. ASSUME NEW i \in DOMAIN windows'
      PROVE  /\ i \in 1 .. MaxConcurrency
             /\ windows'[i].from \in Nat /\ windows'[i].to \in Nat
             /\ windows'[i].from < windows'[i].to
             /\ windows'[i] \in [from : Nat, to : Nat]
  <2>1. windows'[i] = [from |-> from + (i - 1) * WindowSeconds,
                       to |-> Smaller(from + i * WindowSeconds, initEnd)]
    BY <1>1 DEF IterWindows
  <2>2. /\ i \in 1 .. MaxConcurrency
        /\ windows'[i].from \in Nat /\ windows'[i].to \in Nat
        /\ windows'[i].from < windows'[i].to
    BY <1>1, <1>2, WindowsInRange
  <2>3. windows'[i] \in [from : Nat, to : Nat]
    BY <2>1, <2>2
  <2>4. QED
    BY <2>2, <2>3
<1>3. windows' = [i \in DOMAIN windows' |-> windows'[i]]
  BY <1>1 DEF IterWindows
<1>4. windows' \in [DOMAIN windows' -> [from : Nat, to : Nat]]
  BY <1>2, <1>3
<1>5. ASSUME NEW i \in DOMAIN windows'
      PROVE  Covers(fetched[i], windows[i].from, reached[i])'
  <2>1. reached'[i] = windows'[i].from /\ windows'[i].from \in Nat
    BY <1>1, <1>2
  <2>2. QED
    BY <2>1, EventAssumption DEF Covers, Known, Indexed
<1>6. QED
  BY <1>1, <1>2, <1>4, <1>5

LEMMA BeginReadKeepsInv == IInv /\ BeginRead => IInv'
<1> SUFFICES ASSUME IInv, BeginRead PROVE IInv'
  OBVIOUS
<1> USE DEF BeginRead, service, durable, history
<1> DEFINE start == StartSeconds(committed, initEnd)
<1>1. /\ committed \in Offset /\ initEnd \in Nat /\ initEnd >= 1 /\ committed.seen = {}
      /\ collected = {} /\ start < initEnd
  BY DEF IInv, TypeOK, ClockInv, OffsetInv, CollectedInv
<1>2. start \in Nat
  BY <1>1, StartFacts
<1>3. PlanWindows(start)
  OBVIOUS
<1> HIDE DEF start
<1>4. /\ nextStart' = start /\ nextStart' \in Nat
      /\ windows' = IterWindows(nextStart', initEnd')
      /\ DOMAIN windows' \subseteq 1 .. MaxConcurrency
      /\ windows' \in [DOMAIN windows' -> [from : Nat, to : Nat]]
      /\ reached' \in [DOMAIN windows' -> Nat]
      /\ fetched' \in [DOMAIN windows' -> SUBSET Event]
      /\ \A i \in DOMAIN windows' : reached'[i] \in windows'[i].from .. windows'[i].to
      /\ \A i \in DOMAIN windows' : Covers(fetched[i], windows[i].from, reached[i])'
      /\ \A i \in DOMAIN windows' : fetched'[i] = {}
  BY <1>1, <1>2, <1>3, PlannedRound
<1>5. startSeconds' = start
  BY DEF start
<1>6. TypeOK'
  BY <1>1, <1>2, <1>4, <1>5 DEF IInv, TypeOK, Phases
<1>7. ClockInv' /\ OffsetInv' /\ PlannedInv'
  BY DEF IInv, ClockInv, OffsetInv, PlannedInv, Pending, Indexed
<1>8. StartInv' /\ CollectedInv' /\ ReturnedInv' /\ WriteInv'
  BY <1>1, <1>5 DEF start, IInv, StartInv, CollectedInv, ReturnedInv, WriteInv
<1>9. FetchInv'
  <2>1. Covers(collected, startSeconds, nextStart)'
    BY <1>2, <1>4, <1>5, EventAssumption DEF Covers, Known, Indexed
  <2>2. startSeconds' <= nextStart' /\ nextStart' < initEnd'
    BY <1>1, <1>2, <1>4, <1>5
  <2>3. QED
    BY <1>4, <2>1, <2>2 DEF FetchInv
<1>10. NoLateLoss' /\ ReplayMissesNothing' /\ NoFutureRows'
  BY DEF IInv, NoLateLoss, InTime, ResumePoint, ReplayMissesNothing, Pending, NoFutureRows
<1>11. QED
  BY <1>6, <1>7, <1>8, <1>9, <1>10 DEF IInv

LEMMA FetchSliceKeepsInv ==
  ASSUME IInv, NEW i \in DOMAIN windows, FetchSlice(i)
  PROVE  IInv'
<1> USE DEF service, durable, run, history
<1>1. PICK to \in (reached[i] + 1) .. windows[i].to :
        /\ reached' = [reached EXCEPT ![i] = to]
        /\ fetched' = [fetched EXCEPT ![i] = @ \cup Search(reached[i], to)]
  BY DEF FetchSlice
<1>2. /\ phase = "fetch"
      /\ UNCHANGED <<service, durable, run, startSeconds, nextStart, windows, collected,
                     result, history>>
  BY DEF FetchSlice
<1>3. /\ windows \in [DOMAIN windows -> [from : Nat, to : Nat]]
      /\ reached \in [DOMAIN windows -> Nat]
      /\ fetched \in [DOMAIN windows -> SUBSET Event]
      /\ initEnd \in Nat /\ nextStart \in Nat
  BY DEF IInv, TypeOK
<1>4. /\ windows = IterWindows(nextStart, initEnd)
      /\ nextStart < initEnd
      /\ \A j \in DOMAIN windows : reached[j] \in windows[j].from .. windows[j].to
      /\ \A j \in DOMAIN windows : Covers(fetched[j], windows[j].from, reached[j])
      /\ \A j \in DOMAIN windows : \A e \in fetched[j] :
           e \in Indexed /\ Second[e] < initEnd
  BY <1>2 DEF IInv, FetchInv
<1>5. /\ windows[i].from \in Nat /\ windows[i].to \in Nat /\ windows[i].to <= initEnd
      /\ reached[i] \in Nat /\ to \in Nat /\ reached[i] < to /\ to <= windows[i].to
  BY <1>1, <1>3, <1>4, WindowsInRange
<1>6. Search(reached[i], to) \subseteq Event
  BY DEF Search, Indexed
<1>7. /\ reached' \in [DOMAIN windows -> Nat]
      /\ fetched' \in [DOMAIN windows -> SUBSET Event]
  BY <1>1, <1>3, <1>5, <1>6
<1>8. TypeOK'
  BY <1>2, <1>7 DEF IInv, TypeOK
<1>9. ClockInv' /\ OffsetInv' /\ PlannedInv'
  BY <1>2 DEF IInv, ClockInv, OffsetInv, PlannedInv, Pending, Indexed
<1>10. StartInv' /\ CollectedInv' /\ ReturnedInv' /\ WriteInv'
  BY <1>2 DEF IInv, StartInv, Reading, CollectedInv, ReturnedInv, WriteInv, Indexed
<1>11. Known' = Known /\ Indexed' = Indexed
  BY <1>2, KnownUnchanged
<1>12. FetchInv'
  <2>1. ASSUME NEW j \in DOMAIN windows
        PROVE  /\ reached'[j] \in windows[j].from .. windows[j].to
               /\ Covers(fetched[j], windows[j].from, reached[j])'
               /\ \A e \in fetched'[j] : e \in Indexed' /\ Second[e] < initEnd'
    <3>1. CASE j # i
      <4>1. reached'[j] = reached[j] /\ fetched'[j] = fetched[j]
        BY <1>1, <1>3, <3>1
      <4>2. QED
        BY <1>2, <1>4, <1>11, <4>1 DEF Covers
    <3>2. CASE j = i
      <4>1. reached'[j] = to /\ fetched'[j] = fetched[i] \cup Search(reached[i], to)
        BY <1>1, <1>3, <3>2
      <4>2. reached'[j] \in windows[j].from .. windows[j].to
        BY <1>4, <1>5, <3>2, <4>1
      <4>3. Covers(fetched[j], windows[j].from, reached[j])'
        <5>1. ASSUME NEW e \in Known, windows[i].from <= Second[e], Second[e] < to
              PROVE  e \in fetched[i] \cup Search(reached[i], to)
          <6>1. e \in Indexed /\ Second[e] \in Nat
            BY EventAssumption DEF Known, Indexed
          <6>2. CASE Second[e] < reached[i]
            BY <1>4, <5>1, <6>2 DEF Covers
          <6>3. CASE reached[i] <= Second[e]
            BY <5>1, <6>1, <6>3 DEF Search
          <6>4. QED
            BY <1>5, <6>1, <6>2, <6>3
        <5>2. QED
          BY <1>2, <1>11, <3>2, <4>1, <5>1 DEF Covers
      <4>4. ASSUME NEW e \in fetched'[j] PROVE e \in Indexed' /\ Second[e] < initEnd'
        <5>1. CASE e \in fetched[i]
          BY <1>2, <1>4, <1>11, <5>1
        <5>2. CASE e \in Search(reached[i], to)
          <6>1. e \in Indexed /\ Second[e] \in Nat /\ Second[e] < to
            BY <5>2, EventAssumption DEF Search, Indexed
          <6>2. QED
            BY <1>2, <1>3, <1>5, <1>11, <6>1
        <5>3. QED
          BY <4>1, <4>4, <5>1, <5>2
      <4>5. QED
        BY <4>2, <4>3, <4>4
    <3>3. QED
      BY <3>1, <3>2
  <2>2. Covers(collected, startSeconds, nextStart)'
    BY <1>2, <1>11 DEF IInv, FetchInv, Covers
  <2>3. startSeconds <= nextStart
    BY <1>2 DEF IInv, FetchInv
  <2>4. QED
    BY <1>2, <1>4, <2>1, <2>2, <2>3 DEF FetchInv
<1>13. NoLateLoss' /\ ReplayMissesNothing' /\ NoFutureRows'
  BY <1>2 DEF IInv, NoLateLoss, InTime, ResumePoint, ReplayMissesNothing, Pending, NoFutureRows
<1>14. QED
  BY <1>8, <1>9, <1>10, <1>12, <1>13 DEF IInv

LEMMA NoTruncation ==
  ASSUME MaxRecords = 0
  PROVE  ~ Truncate
BY DEF Truncate, Capped

\* A round that was fetched and kept covers the seconds up to its end.
LEMMA RoundKept ==
  ASSUME IInv, KeepAll
  PROVE  /\ RoundEnd \in Nat /\ nextStart < RoundEnd /\ RoundEnd <= initEnd
         /\ startSeconds \in Nat /\ startSeconds < RoundEnd
         /\ collected' \subseteq Event
         /\ \A e \in collected' :
              e \in Indexed /\ startSeconds <= Second[e] /\ Second[e] < initEnd
         /\ Covers(collected', startSeconds, RoundEnd)
<1>1. /\ phase = "fetch" /\ FetchDone
      /\ collected' = collected \cup Fresh
  BY DEF KeepAll
<1>2. /\ initEnd \in Nat /\ nextStart \in Nat /\ startSeconds \in Nat
      /\ committed.seen = {} /\ collected \subseteq Event
      /\ fetched \in [DOMAIN windows -> SUBSET Event]
  BY DEF IInv, TypeOK, OffsetInv
<1>3. /\ startSeconds <= nextStart /\ nextStart < initEnd
      /\ windows = IterWindows(nextStart, initEnd)
      /\ \A i \in DOMAIN windows : Covers(fetched[i], windows[i].from, reached[i])
      /\ \A i \in DOMAIN windows : \A e \in fetched[i] :
           e \in Indexed /\ Second[e] < initEnd
      /\ Covers(collected, startSeconds, nextStart)
  BY <1>1 DEF IInv, FetchInv
<1>4. /\ RoundEnd \in Nat /\ nextStart < RoundEnd /\ RoundEnd <= initEnd
      /\ \A s \in Nat : nextStart <= s /\ s < RoundEnd =>
           \E i \in DOMAIN windows : windows[i].from <= s /\ s < windows[i].to
  BY <1>2, <1>3, RoundFacts
<1>5. Fresh = UNION {{e \in fetched[i] : Second[e] >= startSeconds} : i \in DOMAIN windows}
  <2>1. ASSUME NEW i \in DOMAIN windows
        PROVE  FilterRecordsFromOffset(fetched[i], startSeconds,
                 IF nextStart = startSeconds /\ i = 1 THEN committed.seen ELSE {})
                 = {e \in fetched[i] : Second[e] >= startSeconds}
    <3>1. (IF nextStart = startSeconds /\ i = 1 THEN committed.seen ELSE {}) = {}
      BY <1>2
    <3>2. FilterRecordsFromOffset(fetched[i], startSeconds, {})
            = {e \in fetched[i] : Second[e] >= startSeconds}
      BY DEF FilterRecordsFromOffset
    <3>3. QED
      BY <3>1, <3>2
  <2>2. QED
    BY <2>1 DEF Fresh
<1>6. ASSUME NEW e \in Fresh
      PROVE  e \in Indexed /\ startSeconds <= Second[e] /\ Second[e] < initEnd
  <2>1. PICK i \in DOMAIN windows : e \in fetched[i] /\ Second[e] >= startSeconds
    BY <1>5, <1>6
  <2>2. e \in Indexed /\ Second[e] < initEnd
    BY <1>3, <2>1
  <2>3. Second[e] \in Nat
    BY <2>2, EventAssumption DEF Indexed
  <2>4. QED
    BY <1>2, <2>1, <2>2, <2>3
<1>7. ASSUME NEW e \in Known, startSeconds <= Second[e], Second[e] < RoundEnd
      PROVE  e \in collected'
  <2>1. Second[e] \in Nat
    BY EventAssumption DEF Known, Indexed
  <2>2. CASE Second[e] < nextStart
    BY <1>1, <1>3, <1>7, <2>2 DEF Covers
  <2>3. CASE nextStart <= Second[e]
    <3>1. PICK i \in DOMAIN windows : windows[i].from <= Second[e] /\ Second[e] < windows[i].to
      BY <1>4, <1>7, <2>1, <2>3
    <3>2. reached[i] = windows[i].to
      BY <1>1 DEF FetchDone
    <3>3. e \in fetched[i]
      BY <1>3, <3>1, <3>2 DEF Covers
    <3>4. Second[e] >= startSeconds
      BY <1>2, <1>7, <2>1
    <3>5. QED
      BY <1>1, <1>5, <3>3, <3>4
  <2>4. QED
    BY <1>2, <2>1, <2>2, <2>3
<1>8. \A e \in collected' :
        e \in Indexed /\ startSeconds <= Second[e] /\ Second[e] < initEnd
  BY <1>1, <1>6 DEF IInv, CollectedInv
<1>9. collected' \subseteq Event /\ startSeconds < RoundEnd
  BY <1>2, <1>3, <1>4, <1>8 DEF Indexed
<1>10. QED
  BY <1>2, <1>4, <1>7, <1>8, <1>9 DEF Covers

LEMMA NextRoundKeepsInv == IInv /\ NextRound => IInv'
<1> SUFFICES ASSUME IInv, NextRound PROVE IInv'
  OBVIOUS
<1> USE DEF service, durable, run, history
<1>1. /\ KeepAll /\ PlanWindows(RoundEnd) /\ RoundEnd < initEnd /\ phase = "fetch"
      /\ UNCHANGED <<service, durable, run, startSeconds, result, history>>
  BY DEF NextRound, MoreToRead, KeepAll
<1>2. /\ RoundEnd \in Nat /\ startSeconds \in Nat /\ startSeconds < RoundEnd
      /\ collected' \subseteq Event
      /\ \A e \in collected' :
           e \in Indexed /\ startSeconds <= Second[e] /\ Second[e] < initEnd
      /\ Covers(collected', startSeconds, RoundEnd)
  BY <1>1, RoundKept
<1>3. initEnd \in Nat
  BY DEF IInv, TypeOK
<1> DEFINE next == RoundEnd
<1>4. /\ next \in Nat /\ next < initEnd /\ initEnd' = initEnd
      /\ UNCHANGED <<arrival, replaying, planned>>
      /\ PlanWindows(next)
  BY <1>1, <1>2
<1> HIDE DEF next
<1>5. /\ nextStart' = next
      /\ windows' = IterWindows(nextStart', initEnd')
      /\ DOMAIN windows' \subseteq 1 .. MaxConcurrency
      /\ windows' \in [DOMAIN windows' -> [from : Nat, to : Nat]]
      /\ reached' \in [DOMAIN windows' -> Nat]
      /\ fetched' \in [DOMAIN windows' -> SUBSET Event]
      /\ \A i \in DOMAIN windows' : reached'[i] \in windows'[i].from .. windows'[i].to
      /\ \A i \in DOMAIN windows' : Covers(fetched[i], windows[i].from, reached[i])'
      /\ \A i \in DOMAIN windows' : fetched'[i] = {}
  BY <1>3, <1>4, PlannedRound
<1>6. Known' = Known /\ Indexed' = Indexed
  BY <1>1, KnownUnchanged
<1>7. TypeOK'
  BY <1>1, <1>2, <1>4, <1>5 DEF IInv, TypeOK
<1>8. ClockInv' /\ OffsetInv' /\ PlannedInv'
  BY <1>1 DEF IInv, ClockInv, OffsetInv, PlannedInv, Pending, Indexed
<1>9. StartInv' /\ CollectedInv' /\ ReturnedInv' /\ WriteInv'
  BY <1>1, <1>2, <1>6 DEF IInv, StartInv, Reading, CollectedInv, ReturnedInv, WriteInv
<1>10. FetchInv'
  <2>1. Covers(collected, startSeconds, nextStart)'
    BY <1>1, <1>2, <1>5, <1>6 DEF Covers, next
  <2>2. startSeconds' <= nextStart' /\ nextStart' < initEnd'
    BY <1>1, <1>2, <1>3, <1>5 DEF next
  <2>3. QED
    BY <1>5, <2>1, <2>2 DEF FetchInv
<1>11. NoLateLoss' /\ ReplayMissesNothing' /\ NoFutureRows'
  BY <1>1 DEF IInv, NoLateLoss, InTime, ResumePoint, ReplayMissesNothing, Pending, NoFutureRows
<1>12. QED
  BY <1>7, <1>8, <1>9, <1>10, <1>11 DEF IInv

LEMMA FinishReadKeepsInv ==
  ASSUME MaxRecords = 0, IInv, FinishRead
  PROVE  IInv'
<1> USE DEF service, durable, history
<1>1. /\ KeepAll /\ phase = "fetch" /\ phase' = "returned"
      /\ nextStart' = RoundEnd /\ result' = WindowOffset(RoundEnd)
      /\ NoWindows
      /\ UNCHANGED <<service, durable, replaying, initEnd, startSeconds, history>>
  BY DEF FinishRead, KeepAll
<1>2. /\ RoundEnd \in Nat /\ startSeconds \in Nat /\ startSeconds < RoundEnd
      /\ RoundEnd <= initEnd
      /\ collected' \subseteq Event
      /\ \A e \in collected' :
           e \in Indexed /\ startSeconds <= Second[e] /\ Second[e] < initEnd
      /\ Covers(collected', startSeconds, RoundEnd)
  BY <1>1, RoundKept
<1>3. initEnd \in Nat
  BY DEF IInv, TypeOK
<1>4. RoundEnd = initEnd
  <2>1. ~ (RoundEnd < initEnd)
    BY DEF FinishRead, MoreToRead, Capped
  <2>2. QED
    BY <1>2, <1>3, <2>1
<1>5. Known' = Known /\ Indexed' = Indexed
  BY <1>1, KnownUnchanged
<1>6. TypeOK'
  <2>1. /\ DOMAIN windows' \subseteq 1 .. MaxConcurrency
        /\ windows' \in [DOMAIN windows' -> [from : Nat, to : Nat]]
        /\ reached' \in [DOMAIN windows' -> Nat]
        /\ fetched' \in [DOMAIN windows' -> SUBSET Event]
    BY <1>1, EmptyTuple DEF NoWindows
  <2>2. result' \in Offset
    BY <1>1, <1>2 DEF WindowOffset, Offset
  <2>3. QED
    BY <1>1, <1>2, <2>1, <2>2 DEF IInv, TypeOK, Phases
<1>7. ClockInv' /\ OffsetInv' /\ PlannedInv'
  BY <1>1 DEF IInv, ClockInv, OffsetInv, PlannedInv, Pending, Indexed
<1>8. StartInv' /\ FetchInv' /\ CollectedInv' /\ WriteInv'
  BY <1>1, <1>2, <1>5 DEF IInv, StartInv, Reading, FetchInv, CollectedInv, WriteInv
<1>9. ReturnedInv'
  <2>1. Covers(collected, startSeconds, initEnd)'
    BY <1>1, <1>2, <1>4, <1>5 DEF Covers
  <2>2. QED
    BY <1>1, <1>2, <1>4, <2>1 DEF ReturnedInv
<1>10. NoLateLoss' /\ ReplayMissesNothing' /\ NoFutureRows'
  BY <1>1 DEF IInv, NoLateLoss, InTime, ResumePoint, ReplayMissesNothing, Pending, NoFutureRows
<1>11. QED
  BY <1>6, <1>7, <1>8, <1>9, <1>10 DEF IInv

\* What is left when the locals of a batch are gone.
LEMMA DroppedBatch ==
  ASSUME DropBatch
  PROVE  /\ startSeconds' \in Nat /\ nextStart' \in Nat
         /\ DOMAIN windows' \subseteq 1 .. MaxConcurrency
         /\ windows' \in [DOMAIN windows' -> [from : Nat, to : Nat]]
         /\ reached' \in [DOMAIN windows' -> Nat]
         /\ fetched' \in [DOMAIN windows' -> SUBSET Event]
         /\ collected' = {} /\ result' \in Offset
<1>1. NoOffset \in Offset
  BY DEF NoOffset, Offset
<1>2. QED
  BY <1>1, EmptyTuple DEF DropBatch, NoWindows

LEMMA StopPaginatingKeepsInv == IInv /\ StopPaginating => IInv'
<1> SUFFICES ASSUME IInv, StopPaginating PROVE IInv'
  OBVIOUS
<1> USE DEF StopPaginating, service, durable
<1>1. /\ startSeconds' \in Nat /\ nextStart' \in Nat
      /\ DOMAIN windows' \subseteq 1 .. MaxConcurrency
      /\ windows' \in [DOMAIN windows' -> [from : Nat, to : Nat]]
      /\ reached' \in [DOMAIN windows' -> Nat]
      /\ fetched' \in [DOMAIN windows' -> SUBSET Event]
      /\ collected' = {} /\ result' \in Offset
  BY DroppedBatch
<1>2. TypeOK'
  BY <1>1 DEF IInv, TypeOK, Phases
<1>3. ClockInv' /\ OffsetInv' /\ PlannedInv'
  BY DEF IInv, ClockInv, OffsetInv, PlannedInv, Pending, Indexed
<1>4. StartInv' /\ FetchInv' /\ CollectedInv' /\ ReturnedInv' /\ WriteInv'
  BY <1>1 DEF StartInv, Reading, FetchInv, CollectedInv, ReturnedInv, WriteInv
<1>5. NoLateLoss' /\ ReplayMissesNothing' /\ NoFutureRows'
  BY DEF IInv, NoLateLoss, InTime, ResumePoint, ReplayMissesNothing, Pending, NoFutureRows
<1>6. QED
  BY <1>2, <1>3, <1>4, <1>5 DEF IInv

LEMMA LogOffsetKeepsInv == IInv /\ LogOffset => IInv'
<1> SUFFICES ASSUME IInv, LogOffset PROVE IInv'
  OBVIOUS
<1> USE DEF LogOffset, service, batch
<1>1. /\ phase = "returned" /\ ~ replaying /\ result # committed
      /\ logged' = result /\ planned' = collected /\ phase' = "write"
      /\ UNCHANGED <<service, table, committed, replaying, initEnd, batch, since,
                     failures>>
  OBVIOUS
<1>2. /\ committed \in Offset /\ initEnd \in Nat /\ now \in Nat /\ result \in Offset
      /\ collected \subseteq Event /\ committed.seen = {} /\ initEnd >= 1
      /\ initEnd <= now + 1
  BY <1>1 DEF IInv, TypeOK, OffsetInv, ClockInv
<1>3. /\ startSeconds < initEnd /\ result = WindowOffset(initEnd)
      /\ Covers(collected, startSeconds, initEnd)
  BY <1>1 DEF IInv, ReturnedInv
<1>4. startSeconds = StartSeconds(committed, initEnd) /\ startSeconds \in Nat
  BY <1>1 DEF IInv, StartInv, Reading, TypeOK
<1>5. committed.cursor < initEnd
  <2>1. committed.cursor >= initEnd => startSeconds >= initEnd
    BY <1>2, <1>4, StartFacts
  <2>2. committed.cursor \in Int
    BY <1>2 DEF Offset
  <2>3. QED
    BY <1>2, <1>3, <1>4, <2>1, <2>2
<1>6. \A e \in collected :
        e \in Indexed /\ startSeconds <= Second[e] /\ Second[e] < initEnd
        /\ Second[e] \in Nat
  BY EventAssumption DEF IInv, CollectedInv, Indexed
<1>7. logged'.cursor = initEnd /\ logged'.seen = {}
  BY <1>1, <1>3 DEF WindowOffset
<1>8. TypeOK'
  BY <1>1, <1>2 DEF IInv, TypeOK, Phases
<1>9. ClockInv'
  BY <1>1 DEF IInv, ClockInv
<1>10. OffsetInv'
  BY <1>1, <1>2, <1>5, <1>7 DEF OffsetInv, Pending
<1>11. PlannedInv'
  <2>1. planned' \subseteq Indexed'
    BY <1>1, <1>6 DEF Indexed
  <2>2. \A e \in planned' : Second[e] < logged'.cursor
    BY <1>1, <1>6, <1>7
  <2>3. ASSUME committed' # NoOffset, NEW e \in planned'
        PROVE  Second[e] >= committed'.cursor - Overlap
    <3>1. committed.cursor - Overlap <= startSeconds
      BY <1>1, <1>2, <1>4, <1>5, <2>3, StartFacts
    <3>2. startSeconds <= Second[e] /\ Second[e] \in Nat
      BY <1>1, <1>6
    <3>3. committed.cursor - Overlap \in Int
      BY <1>2, OptionsAssumption DEF Offset
    <3>4. QED
      BY <1>1, <1>4, <3>1, <3>2, <3>3
  <2>4. QED
    BY <2>1, <2>2, <2>3 DEF PlannedInv
<1>12. StartInv' /\ FetchInv' /\ CollectedInv' /\ ReturnedInv'
  BY <1>1 DEF IInv, StartInv, Reading, FetchInv, CollectedInv, ReturnedInv, Indexed
<1>13. WriteInv'
  BY <1>1, <1>3 DEF WriteInv, Covers, Known, Indexed
<1>14. NoLateLoss' /\ ReplayMissesNothing' /\ NoFutureRows'
  <2>1. Pending'
    BY <1>1 DEF Pending
  <2>2. QED
    BY <1>1, <2>1 DEF IInv, NoLateLoss, InTime, ResumePoint, ReplayMissesNothing,
                      NoFutureRows
<1>15. QED
  BY <1>8, <1>9, <1>10, <1>11, <1>12, <1>13, <1>14 DEF IInv

LEMMA ReplayBatchKeepsInv == IInv /\ ReplayBatch => IInv'
<1> SUFFICES ASSUME IInv, ReplayBatch PROVE IInv'
  OBVIOUS
<1> USE DEF ReplayBatch, service, durable, batch, history
<1>1. /\ phase = "returned" /\ phase' = "write" /\ replaying
      /\ UNCHANGED <<service, durable, replaying, initEnd, batch, history>>
  OBVIOUS
<1>2. /\ committed \in Offset /\ logged \in Offset /\ initEnd \in Nat
      /\ committed.seen = {} /\ initEnd >= 1
  BY <1>1 DEF IInv, TypeOK, OffsetInv, ClockInv
<1>3. Pending
  BY <1>1 DEF IInv, OffsetInv
<1>4. committed.cursor < initEnd
  <2>1. committed.cursor < logged.cursor /\ logged.cursor <= initEnd
    BY <1>1, <1>3 DEF IInv, OffsetInv
  <2>2. committed.cursor \in Int /\ logged.cursor \in Int
    BY <1>2 DEF Offset
  <2>3. QED
    BY <1>2, <2>1, <2>2
<1>5. startSeconds = StartSeconds(committed, initEnd)
  BY <1>1 DEF IInv, StartInv, Reading
<1>6. startSeconds < initEnd /\ startSeconds \in Nat
  BY <1>2, <1>4, <1>5, StartFacts
<1>7. Covers(collected, startSeconds, initEnd)
  BY <1>1, <1>2, <1>6 DEF IInv, ReturnedInv
<1>8. TypeOK'
  BY <1>1 DEF IInv, TypeOK, Phases
<1>9. ClockInv' /\ PlannedInv'
  BY <1>1 DEF IInv, ClockInv, PlannedInv, Pending, Indexed
<1>10. OffsetInv'
  BY <1>1, <1>3 DEF IInv, OffsetInv, Pending
<1>11. StartInv' /\ FetchInv' /\ CollectedInv' /\ ReturnedInv'
  BY <1>1 DEF IInv, StartInv, Reading, FetchInv, CollectedInv, ReturnedInv, Indexed
<1>12. WriteInv'
  BY <1>1, <1>7 DEF WriteInv, Covers, Known, Indexed
<1>13. NoLateLoss' /\ ReplayMissesNothing' /\ NoFutureRows'
  BY <1>1 DEF IInv, NoLateLoss, InTime, ResumePoint, ReplayMissesNothing, Pending, NoFutureRows
<1>14. QED
  BY <1>8, <1>9, <1>10, <1>11, <1>12, <1>13 DEF IInv

LEMMA WriteRowsKeepsInv == IInv /\ WriteRows => IInv'
<1> SUFFICES ASSUME IInv, WriteRows PROVE IInv'
  OBVIOUS
<1> USE DEF WriteRows, service, batch
<1>1. /\ phase = "write" /\ phase' = "commit"
      /\ table' = table \cup collected
      /\ UNCHANGED <<service, committed, logged, replaying, initEnd, batch, since, planned,
                     failures>>
  OBVIOUS
<1>2. TypeOK'
  BY <1>1 DEF IInv, TypeOK, Phases
<1>3. ClockInv' /\ OffsetInv' /\ PlannedInv'
  BY <1>1 DEF IInv, ClockInv, OffsetInv, PlannedInv, Pending, Indexed
<1>4. StartInv' /\ FetchInv' /\ CollectedInv' /\ ReturnedInv'
  BY <1>1 DEF IInv, StartInv, Reading, FetchInv, CollectedInv, ReturnedInv, Indexed
<1>5. WriteInv'
  <2>1. Known' = Known
    BY <1>1, KnownUnchanged
  <2>2. Covers(table, startSeconds, initEnd)'
    BY <1>1, <2>1 DEF IInv, WriteInv, Covers
  <2>3. ~ replaying' => planned' \subseteq table'
    BY <1>1 DEF IInv, WriteInv
  <2>4. QED
    BY <1>1, <2>2, <2>3 DEF WriteInv
<1>6. NoLateLoss' /\ ReplayMissesNothing'
  BY <1>1 DEF IInv, NoLateLoss, InTime, ResumePoint, ReplayMissesNothing, Pending
<1>7. NoFutureRows'
  <2>1. ASSUME NEW e \in collected PROVE Second[e] <= now
    <3>1. Second[e] < initEnd /\ e \in Event
      BY DEF IInv, CollectedInv, Indexed
    <3>2. Second[e] \in Nat /\ initEnd \in Nat /\ now \in Nat /\ initEnd <= now + 1
      BY <3>1, EventAssumption DEF IInv, TypeOK, ClockInv
    <3>3. QED
      BY <3>1, <3>2
  <2>2. QED
    BY <1>1, <2>1 DEF IInv, NoFutureRows
<1>8. QED
  BY <1>2, <1>3, <1>4, <1>5, <1>6, <1>7 DEF IInv

LEMMA CommitKeepsInv == IInv /\ Commit => IInv'
<1> SUFFICES ASSUME IInv, Commit PROVE IInv'
  OBVIOUS
<1> USE DEF Commit, service
<1>1. /\ phase = "commit" /\ phase' = "call" /\ ~ replaying'
      /\ replaying' = FALSE
      /\ committed' = logged
      /\ since' = IF committed = NoOffset THEN startSeconds ELSE since
      /\ DropBatch
      /\ UNCHANGED <<service, table, logged, initEnd, planned, failures>>
  OBVIOUS
<1>2. /\ committed \in Offset /\ logged \in Offset /\ initEnd \in Nat
      /\ committed.seen = {} /\ logged.seen = {} /\ initEnd >= 1 /\ since \in Nat
      /\ startSeconds \in Nat
      /\ arrival \in [Event -> Nat \cup {NotIndexed}]
      /\ logged.cursor <= initEnd
      /\ committed.cursor \in Int /\ logged.cursor \in Int
  BY <1>1 DEF IInv, TypeOK, OffsetInv, ClockInv, Offset
<1>3. committed.cursor < logged.cursor /\ committed.cursor < initEnd
  BY <1>1, <1>2 DEF IInv, OffsetInv
<1>4. startSeconds = StartSeconds(committed, initEnd)
  BY <1>1 DEF IInv, StartInv, Reading
<1>5. Covers(table, startSeconds, initEnd)
  BY <1>1 DEF IInv, WriteInv
<1>6. /\ startSeconds' \in Nat /\ nextStart' \in Nat
      /\ DOMAIN windows' \subseteq 1 .. MaxConcurrency
      /\ windows' \in [DOMAIN windows' -> [from : Nat, to : Nat]]
      /\ reached' \in [DOMAIN windows' -> Nat]
      /\ fetched' \in [DOMAIN windows' -> SUBSET Event]
      /\ collected' = {} /\ result' \in Offset
  BY <1>1, DroppedBatch
<1>7. TypeOK'
  BY <1>1, <1>2, <1>6 DEF IInv, TypeOK, Phases
<1>8. ~ Pending'
  BY <1>1 DEF Pending
<1>9. ClockInv' /\ OffsetInv' /\ PlannedInv'
  <2>1. ClockInv' /\ PlannedInv'
    BY <1>1, <1>8 DEF IInv, ClockInv, PlannedInv, Indexed
  <2>2. /\ committed'.seen = {} /\ logged'.seen = {}
        /\ logged'.cursor <= now' + 1 /\ logged'.cursor <= initEnd'
    BY <1>1, <1>2 DEF IInv, OffsetInv
  <2>3. QED
    BY <1>1, <1>8, <2>1, <2>2 DEF OffsetInv
<1>10. StartInv' /\ FetchInv' /\ CollectedInv' /\ ReturnedInv' /\ WriteInv'
  BY <1>1, <1>6 DEF StartInv, Reading, FetchInv, CollectedInv, ReturnedInv, WriteInv
<1>11. ASSUME NEW e \in Event, since' <= Second[e], committed # NoOffset =>
                 Second[e] >= committed.cursor - Overlap
       PROVE  startSeconds <= Second[e]
  <2>1. Second[e] \in Nat
    BY EventAssumption
  <2>2. CASE committed = NoOffset
    BY <1>1, <1>11, <2>2
  <2>3. CASE committed # NoOffset
    <3>1. committed.cursor - Overlap <= Second[e]
      BY <1>2, <1>11, <2>1, <2>3, OptionsAssumption
    <3>2. QED
      BY <1>2, <1>3, <1>4, <2>1, <2>3, <3>1, StartFacts
  <2>4. QED
    BY <2>2, <2>3
<1>12. NoLateLoss'
  <2>1. ASSUME NEW e \in Event, InTime(e), since' <= Second[e],
               Second[e] < logged.cursor - Overlap
        PROVE  e \in table
    <3>1. /\ Second[e] \in Nat /\ Overlap \in Nat /\ arrival[e] \in Nat
          /\ arrival[e] < Second[e] + Overlap /\ e \in Indexed
      BY <1>2, <2>1, EventAssumption, OptionsAssumption DEF InTime, Indexed, NotIndexed
    <3>2. Second[e] < initEnd /\ arrival[e] < initEnd - 1
      BY <1>2, <2>1, <3>1
    <3>3. e \in Known
      BY <3>1, <3>2 DEF Known
    <3>4. CASE startSeconds <= Second[e]
      BY <1>5, <3>2, <3>3, <3>4 DEF Covers
    <3>5. CASE ~ (startSeconds <= Second[e])
      <4>1. committed # NoOffset /\ Second[e] < committed.cursor - Overlap
        BY <1>2, <1>11, <2>1, <3>1, <3>5
      <4>2. since <= Second[e]
        BY <1>1, <2>1, <4>1
      <4>3. ResumePoint = committed.cursor - Overlap
        BY <1>2 DEF ResumePoint
      <4>4. QED
        BY <2>1, <4>1, <4>2, <4>3 DEF IInv, NoLateLoss
    <3>6. QED
      BY <3>4, <3>5
  <2>2. ResumePoint' = logged.cursor - Overlap
    BY <1>1, <1>2 DEF ResumePoint
  <2>3. QED
    BY <1>1, <2>1, <2>2 DEF NoLateLoss, InTime
<1>13. ReplayMissesNothing'
  <2>1. ASSUME NEW e \in planned, since' <= Second[e]
        PROVE  e \in table
    <3>1. CASE ~ replaying
      BY <1>1, <3>1 DEF IInv, WriteInv
    <3>2. CASE replaying
      <4>1. e \in Known /\ e \in Event
        BY <3>2 DEF IInv, PlannedInv, Known, Indexed
      <4>2. Second[e] < initEnd
        <5>1. Second[e] < logged.cursor /\ Second[e] \in Nat
          BY <4>1, EventAssumption DEF IInv, PlannedInv
        <5>2. QED
          BY <1>2, <5>1
      <4>3. committed # NoOffset => Second[e] >= committed.cursor - Overlap
        BY <1>1, <1>2, <1>3 DEF IInv, PlannedInv, Pending
      <4>4. startSeconds <= Second[e]
        BY <1>11, <2>1, <4>1, <4>3
      <4>5. QED
        BY <1>5, <4>1, <4>2, <4>4 DEF Covers
    <3>3. QED
      BY <3>1, <3>2
  <2>2. QED
    BY <1>1, <2>1 DEF ReplayMissesNothing
<1>14. NoFutureRows'
  BY <1>1 DEF IInv, NoFutureRows
<1>15. QED
  BY <1>7, <1>9, <1>10, <1>12, <1>13, <1>14 DEF IInv

LEMMA RunFailsKeepsInv == IInv /\ RunFails => IInv'
<1> SUFFICES ASSUME IInv, RunFails PROVE IInv'
  OBVIOUS
<1> USE DEF RunFails, service, durable
<1>1. /\ startSeconds' \in Nat /\ nextStart' \in Nat
      /\ DOMAIN windows' \subseteq 1 .. MaxConcurrency
      /\ windows' \in [DOMAIN windows' -> [from : Nat, to : Nat]]
      /\ reached' \in [DOMAIN windows' -> Nat]
      /\ fetched' \in [DOMAIN windows' -> SUBSET Event]
      /\ collected' = {} /\ result' \in Offset
  BY DroppedBatch
<1>2. TypeOK'
  <2>1. failures' \in Nat
    BY DEF IInv, TypeOK
  <2>2. /\ UNCHANGED <<service, durable, initEnd, since, planned>>
        /\ phase' = "idle" /\ replaying' = FALSE
    OBVIOUS
  <2>3. QED
    BY <1>1, <2>1, <2>2 DEF IInv, TypeOK, Phases
<1>3. ClockInv' /\ OffsetInv' /\ PlannedInv'
  BY DEF IInv, ClockInv, OffsetInv, PlannedInv, Pending, Indexed
<1>4. StartInv' /\ FetchInv' /\ CollectedInv' /\ ReturnedInv' /\ WriteInv'
  BY <1>1 DEF StartInv, Reading, FetchInv, CollectedInv, ReturnedInv, WriteInv
<1>5. NoLateLoss' /\ ReplayMissesNothing' /\ NoFutureRows'
  BY DEF IInv, OffsetInv, NoLateLoss, InTime, ResumePoint, ReplayMissesNothing, Pending,
         NoFutureRows
<1>6. QED
  BY <1>2, <1>3, <1>4, <1>5 DEF IInv

LEMMA StutterKeepsInv == IInv /\ UNCHANGED vars => IInv'
<1> SUFFICES ASSUME IInv, UNCHANGED vars PROVE IInv'
  OBVIOUS
<1>1. UNCHANGED <<service, durable, run, batch, history>>
  BY DEF vars
<1> USE <1>1 DEF service, durable, run, batch, history
<1>2. TypeOK'
  BY DEF IInv, TypeOK
<1>3. ClockInv' /\ OffsetInv' /\ PlannedInv'
  BY DEF IInv, ClockInv, OffsetInv, PlannedInv, Pending, Indexed
<1>4. StartInv' /\ CollectedInv' /\ ReturnedInv' /\ WriteInv'
  BY DEF IInv, StartInv, Reading, CollectedInv, ReturnedInv, WriteInv, Covers, Known, Indexed
<1>5. FetchInv'
  BY DEF IInv, FetchInv, Covers, Known, Indexed
<1>6. NoLateLoss' /\ ReplayMissesNothing' /\ NoFutureRows'
  BY DEF IInv, NoLateLoss, InTime, ResumePoint, ReplayMissesNothing, Pending, NoFutureRows
<1>7. QED
  BY <1>2, <1>3, <1>4, <1>5, <1>6 DEF IInv

LEMMA NextKeepsInv ==
  ASSUME MaxRecords = 0, IInv, [Next]_vars
  PROVE  IInv'
<1>1. CASE Tick
  BY <1>1, TickKeepsInv
<1>2. ASSUME NEW e \in Event, Index(e) PROVE IInv'
  BY <1>2, IndexKeepsInv
<1>3. CASE StartRun
  BY <1>3, StartRunKeepsInv
<1>4. CASE Connector
  <2>1. CASE ReadNothing
    BY <2>1, ReadNothingKeepsInv
  <2>2. CASE BeginRead
    BY <2>2, BeginReadKeepsInv
  <2>3. ASSUME NEW i \in DOMAIN windows, FetchSlice(i) PROVE IInv'
    BY <2>3, FetchSliceKeepsInv
  <2>4. CASE Truncate
    BY <2>4, NoTruncation
  <2>5. CASE NextRound
    BY <2>5, NextRoundKeepsInv
  <2>6. CASE FinishRead
    BY <2>6, FinishReadKeepsInv
  <2>7. QED
    BY <1>4, <2>1, <2>2, <2>3, <2>4, <2>5, <2>6 DEF Connector
<1>5. CASE Engine
  <2>1. CASE StopPaginating
    BY <2>1, StopPaginatingKeepsInv
  <2>2. CASE LogOffset
    BY <2>2, LogOffsetKeepsInv
  <2>3. CASE ReplayBatch
    BY <2>3, ReplayBatchKeepsInv
  <2>4. CASE WriteRows
    BY <2>4, WriteRowsKeepsInv
  <2>5. CASE Commit
    BY <2>5, CommitKeepsInv
  <2>6. QED
    BY <1>5, <2>1, <2>2, <2>3, <2>4, <2>5 DEF Engine
<1>6. CASE RunFails
  BY <1>6, RunFailsKeepsInv
<1>7. CASE UNCHANGED vars
  BY <1>7, StutterKeepsInv
<1>8. QED
  BY <1>1, <1>2, <1>3, <1>4, <1>5, <1>6, <1>7 DEF Next

-----------------------------------------------------------------------------
(* The order of the records *)

LEMMA EventsAreFinite ==
  ASSUME NEW S \in SUBSET Event
  PROVE  IsFiniteSet(S) /\ Cardinality(S) \in Nat
BY EventAssumption, FS_Subset, FS_CardinalityType

\* Some record comes first, the one with the fewest up to it, and some last.
LEMMA RecordsHaveAFirst ==
  ASSUME NEW S \in SUBSET Event, S # {}
  PROVE  \E e \in S : \A f \in S : Rank[e] <= Rank[f]
<1> DEFINE UpTo(e) == {f \in S : Rank[f] <= Rank[e]}
           heads == {UpTo(e) : e \in S}
<1>1. IsWellFoundedOn(StrictSubsetOrdering(S), SUBSET S)
  BY EventsAreFinite, FS_StrictSubsetOrderingWellFounded, FS_FiniteSubsetsOfFinite
<1>2. heads \subseteq SUBSET S /\ heads # {}
  OBVIOUS
<1>3. PICK head \in heads : \A h \in heads : <<h, head>> \notin StrictSubsetOrdering(S)
  <2> HIDE DEF heads
  <2>1. QED
    BY <1>1, <1>2, WFMin
<1>4. PICK e \in S : head = UpTo(e)
  OBVIOUS
<1>5. ASSUME NEW f \in S, ~ (Rank[e] <= Rank[f])
      PROVE  FALSE
  <2>1. \A x \in S : Rank[x] \in Nat
    BY EventAssumption
  <2>2. UpTo(f) \subseteq UpTo(e) /\ e \in UpTo(e) /\ e \notin UpTo(f)
    BY <1>5, <2>1
  <2>3. <<UpTo(f), UpTo(e)>> \in StrictSubsetOrdering(S)
    BY <2>2 DEF StrictSubsetOrdering
  <2>4. QED
    BY <1>3, <1>4, <2>3
<1>6. QED
  BY <1>5

LEMMA RecordsHaveALast ==
  ASSUME NEW S \in SUBSET Event, S # {}
  PROVE  \E e \in S : \A f \in S : Rank[f] <= Rank[e]
<1> DEFINE From(e) == {f \in S : Rank[e] <= Rank[f]}
           tails == {From(e) : e \in S}
<1>1. IsWellFoundedOn(StrictSubsetOrdering(S), SUBSET S)
  BY EventsAreFinite, FS_StrictSubsetOrderingWellFounded, FS_FiniteSubsetsOfFinite
<1>2. tails \subseteq SUBSET S /\ tails # {}
  OBVIOUS
<1>3. PICK tail \in tails : \A t \in tails : <<t, tail>> \notin StrictSubsetOrdering(S)
  <2> HIDE DEF tails
  <2>1. QED
    BY <1>1, <1>2, WFMin
<1>4. PICK e \in S : tail = From(e)
  OBVIOUS
<1>5. ASSUME NEW f \in S, ~ (Rank[f] <= Rank[e])
      PROVE  FALSE
  <2>1. \A x \in S : Rank[x] \in Nat
    BY EventAssumption
  <2>2. From(f) \subseteq From(e) /\ e \in From(e) /\ e \notin From(f)
    BY <1>5, <2>1
  <2>3. <<From(f), From(e)>> \in StrictSubsetOrdering(S)
    BY <2>2 DEF StrictSubsetOrdering
  <2>4. QED
    BY <1>3, <1>4, <2>3
<1>6. QED
  BY <1>5

\* A cut that keeps any record keeps one, and with each one all before it.
LEMMA FirstRecordsAreFirst ==
  ASSUME NEW S \in SUBSET Event, NEW n \in Nat
  PROVE  /\ FirstRecords(S, n) \subseteq S
         /\ S # {} /\ n > 0 => FirstRecords(S, n) # {}
         /\ \A e \in S, f \in FirstRecords(S, n) :
              Rank[e] < Rank[f] => e \in FirstRecords(S, n)
<1> DEFINE Earlier(e) == {f \in S : Rank[f] < Rank[e]}
<1>1. FirstRecords(S, n) = {e \in S : Cardinality(Earlier(e)) < n}
  BY DEF FirstRecords
<1>2. \A e \in S : Rank[e] \in Nat
  BY EventAssumption
<1>3. ASSUME S # {}, n > 0
      PROVE  FirstRecords(S, n) # {}
  <2>1. PICK e \in S : \A f \in S : Rank[e] <= Rank[f]
    BY <1>3, RecordsHaveAFirst
  <2>2. Earlier(e) = {}
    BY <1>2, <2>1
  <2>3. Cardinality(Earlier(e)) < n
    BY <1>3, <2>2, FS_EmptySet
  <2>4. QED
    BY <1>1, <2>3
<1>4. ASSUME NEW e \in S, NEW f \in FirstRecords(S, n), Rank[e] < Rank[f]
      PROVE  e \in FirstRecords(S, n)
  <2>1. f \in S /\ Cardinality(Earlier(f)) < n
    BY <1>1
  <2>2. Earlier(e) \in SUBSET Earlier(f)
    BY <1>2, <1>4, <2>1
  <2>3. Earlier(e) \in SUBSET Event /\ Earlier(f) \in SUBSET Event
    OBVIOUS
  <2> HIDE DEF Earlier
  <2>4. IsFiniteSet(Earlier(f)) /\ Cardinality(Earlier(e)) \in Nat /\ Cardinality(Earlier(f)) \in Nat
    BY <2>3, EventsAreFinite
  <2>5. Cardinality(Earlier(e)) <= Cardinality(Earlier(f))
    BY <2>2, <2>4, FS_Subset
  <2>6. QED
    BY <1>1, <2>1, <2>4, <2>5
<1>5. QED
  BY <1>1, <1>3, <1>4

\* A resume offset names the records of the last second kept.
LEMMA ResumeOffsetFacts ==
  ASSUME NEW kept \in SUBSET Event, kept # {}
  PROVE  \E last \in kept :
           /\ BuildResumeOffset(kept).cursor = Second[last]
           /\ BuildResumeOffset(kept).seen = {e \in kept : Second[e] = Second[last]}
           /\ BuildResumeOffset(kept) \in Offset
           /\ \A e \in kept : Rank[e] <= Rank[last] /\ Second[e] <= Second[last]
<1> DEFINE last == CHOOSE e \in kept : \A f \in kept : Rank[f] <= Rank[e]
<1>1. last \in kept /\ \A f \in kept : Rank[f] <= Rank[last]
  BY RecordsHaveALast
<1>2. BuildResumeOffset(kept)
        = [cursor |-> Second[last], seen |-> {e \in kept : Second[e] = Second[last]}]
  BY DEF BuildResumeOffset
<1> HIDE DEF last
<1>3. last \in Event /\ Second[last] \in Nat
  BY <1>1, EventAssumption
<1>4. BuildResumeOffset(kept) \in Offset
  BY <1>2, <1>3 DEF Offset
<1>5. ASSUME NEW e \in kept
      PROVE  Second[e] <= Second[last]
  <2>1. /\ e \in Event /\ Second[e] \in Nat /\ Rank[e] \in Nat /\ Rank[last] \in Nat
        /\ Rank[e] <= Rank[last]
    BY <1>1, <1>3, EventAssumption
  <2>2. ~ (Second[last] < Second[e])
    BY <1>3, <2>1, EventAssumption
  <2>3. QED
    BY <1>3, <2>1, <2>2
<1>6. /\ BuildResumeOffset(kept).cursor = Second[last]
      /\ BuildResumeOffset(kept).seen = {e \in kept : Second[e] = Second[last]}
  BY <1>2
<1>7. \A e \in kept : Rank[e] <= Rank[last] /\ Second[e] <= Second[last]
  BY <1>1, <1>5
<1>8. QED
  BY <1>1, <1>4, <1>6, <1>7, Zenon

-----------------------------------------------------------------------------
(* A round of a batch, capped or not *)

LEMMA StartIsInRange ==
  ASSUME NEW off \in Offset, off # NoOffset => off.cursor \in Nat, NEW end \in Nat, end >= 1
  PROVE  /\ StartSeconds(off, end) \in Nat
         /\ off.cursor \in Int
         /\ off.seen # {} => StartSeconds(off, end) = off.cursor
         /\ off.cursor < end => StartSeconds(off, end) < end
         /\ off # NoOffset /\ off.seen = {} /\ off.cursor < end =>
              \A s \in Nat : off.cursor - Overlap <= s => StartSeconds(off, end) <= s
<1>1. CASE off = NoOffset
  <2>1. StartSeconds(off, end) = Larger(0, end - InitialLookback)
    BY <1>1 DEF StartSeconds
  <2>2. off.cursor = -1 /\ off.seen = {}
    BY <1>1 DEF NoOffset
  <2>3. QED
    BY <1>1, <2>1, <2>2, OptionsAssumption DEF Larger
<1>2. CASE off # NoOffset
  <2>1. StartSeconds(off, end)
          = IF off.cursor >= end \/ off.seen # {} THEN off.cursor
            ELSE Larger(0, off.cursor - Overlap)
    BY <1>2 DEF StartSeconds
  <2>2. off.cursor \in Nat
    BY <1>2
  <2>3. CASE off.cursor >= end \/ off.seen # {}
    BY <1>2, <2>1, <2>2, <2>3
  <2>4. CASE ~ (off.cursor >= end \/ off.seen # {})
    BY <1>2, <2>1, <2>2, <2>4, OptionsAssumption DEF Larger
  <2>5. QED
    BY <2>3, <2>4
<1>3. QED
  BY <1>1, <1>2

\* What a batch knows of the offset it starts from.
LEMMA StartOfBatch ==
  ASSUME BatchInv, phase # "idle"
  PROVE  /\ committed \in Offset /\ initEnd \in Nat /\ initEnd >= 1 /\ committed.cursor \in Int
         /\ StartSeconds(committed, initEnd) \in Nat
         /\ committed.seen # {} => StartSeconds(committed, initEnd) = committed.cursor
         /\ committed.cursor < initEnd <=> StartSeconds(committed, initEnd) < initEnd
         /\ committed # NoOffset /\ committed.seen = {} /\ committed.cursor < initEnd =>
              \A s \in Nat : committed.cursor - Overlap <= s =>
                StartSeconds(committed, initEnd) <= s
<1>1. /\ committed \in Offset /\ initEnd \in Nat /\ initEnd >= 1
      /\ committed # NoOffset => committed.cursor \in Nat
  BY DEF BatchInv, TypeOK, ClockInv, PointInv, Point
<1>2. ~ (committed.cursor < initEnd) => ~ (StartSeconds(committed, initEnd) < initEnd)
  <2>1. SUFFICES ASSUME ~ (committed.cursor < initEnd)
                 PROVE  ~ (StartSeconds(committed, initEnd) < initEnd)
    OBVIOUS
  <2>2. committed # NoOffset
    BY <1>1, <2>1 DEF NoOffset
  <2>3. committed.cursor \in Nat /\ committed.cursor >= initEnd
    BY <1>1, <2>1, <2>2
  <2>4. StartSeconds(committed, initEnd) = committed.cursor
    BY <2>2, <2>3 DEF StartSeconds
  <2>5. QED
    BY <2>1, <2>4
<1>3. QED
  BY <1>1, <1>2, StartIsInRange

\* The new records of a fetched round lie in the seconds of the round, none is
\* one of the batch's fingerprints, and with those they are all that was known.
LEMMA RoundRead ==
  ASSUME BatchInv, phase = "fetch", FetchDone
  PROVE  /\ RoundEnd \in Nat /\ nextStart < RoundEnd /\ RoundEnd <= initEnd
         /\ startSeconds \in Nat /\ nextStart \in Nat /\ startSeconds <= nextStart
         /\ Fresh \subseteq Indexed
         /\ \A e \in Fresh : nextStart <= Second[e] /\ Second[e] < RoundEnd
         /\ \A e \in Fresh : Second[e] = startSeconds => e \notin committed.seen
         /\ Covers(Fresh \cup committed.seen, nextStart, RoundEnd)
<1>1. /\ initEnd \in Nat /\ nextStart \in Nat /\ startSeconds \in Nat
      /\ fetched \in [DOMAIN windows -> SUBSET Event]
  BY DEF BatchInv, TypeOK
<1>2. /\ startSeconds <= nextStart /\ nextStart < initEnd
      /\ windows = IterWindows(nextStart, initEnd)
      /\ \A i \in DOMAIN windows : Covers(fetched[i], windows[i].from, reached[i])
      /\ \A i \in DOMAIN windows : \A e \in fetched[i] :
           e \in Indexed /\ windows[i].from <= Second[e] /\ Second[e] < windows[i].to
  BY DEF BatchInv, RoundInv
<1>3. /\ RoundEnd \in Nat /\ nextStart < RoundEnd /\ RoundEnd <= initEnd
      /\ \A s \in Nat : nextStart <= s /\ s < RoundEnd =>
           \E i \in DOMAIN windows : windows[i].from <= s /\ s < windows[i].to
      /\ \A i \in DOMAIN windows : windows[i].to <= RoundEnd
  BY <1>1, <1>2, RoundFacts
<1>4. ASSUME NEW i \in DOMAIN windows
      PROVE  /\ windows[i].from \in Nat /\ windows[i].to \in Nat
             /\ nextStart <= windows[i].from
             /\ i # 1 => nextStart < windows[i].from
  <2>1. /\ i \in 1 .. MaxConcurrency
        /\ windows[i].from = nextStart + (i - 1) * WindowSeconds
        /\ windows[i].from \in Nat /\ windows[i].to \in Nat
        /\ nextStart <= windows[i].from
    BY <1>1, <1>2, WindowsInRange
  <2>2. CASE i # 1
    <3>1. i - 1 \in Nat /\ 1 <= i - 1 /\ WindowSeconds \in Nat \ {0}
      BY <2>1, <2>2, OptionsAssumption
    <3>2. 1 * WindowSeconds <= (i - 1) * WindowSeconds /\ (i - 1) * WindowSeconds \in Nat
      BY <3>1, TimesMonotone, SMT
    <3> DEFINE a == (i - 1) * WindowSeconds
    <3>3. windows[i].from = nextStart + a /\ a \in Nat /\ WindowSeconds <= a
      BY <2>1, <3>1, <3>2
    <3> HIDE DEF a
    <3>4. nextStart < windows[i].from
      BY <1>1, <3>1, <3>3
    <3>5. QED
      BY <2>1, <3>4
  <2>3. QED
    BY <2>1, <2>2
<1> DEFINE seen(i) == IF nextStart = startSeconds /\ i = 1 THEN committed.seen ELSE {}
           new(i) == FilterRecordsFromOffset(fetched[i], startSeconds, seen(i))
<1>5. Fresh = UNION {new(i) : i \in DOMAIN windows}
  BY DEF Fresh
<1>6. ASSUME NEW e \in Fresh
      PROVE  /\ e \in Indexed /\ nextStart <= Second[e] /\ Second[e] < RoundEnd
             /\ Second[e] = startSeconds => e \notin committed.seen
  <2>1. PICK i \in DOMAIN windows : e \in new(i)
    BY <1>5, <1>6
  <2>2. e \in fetched[i] /\ ~ (Second[e] = startSeconds /\ e \in seen(i))
    BY <2>1 DEF FilterRecordsFromOffset
  <2>3. e \in Indexed /\ windows[i].from <= Second[e] /\ Second[e] < windows[i].to
    BY <1>2, <2>2
  <2>4. Second[e] \in Nat
    BY <2>3, EventAssumption DEF Indexed
  <2>5. nextStart <= Second[e] /\ Second[e] < RoundEnd
    BY <1>1, <1>3, <1>4, <2>3, <2>4
  <2>6. Second[e] = startSeconds => nextStart = startSeconds /\ i = 1
    BY <1>1, <1>2, <1>4, <2>3, <2>4, <2>5
  <2>7. QED
    BY <2>2, <2>3, <2>5, <2>6
<1>7. ASSUME NEW e \in Known, nextStart <= Second[e], Second[e] < RoundEnd
      PROVE  e \in Fresh \cup committed.seen
  <2>1. Second[e] \in Nat
    BY EventAssumption DEF Known, Indexed
  <2>2. PICK i \in DOMAIN windows : windows[i].from <= Second[e] /\ Second[e] < windows[i].to
    BY <1>3, <1>7, <2>1
  <2>3. reached[i] = windows[i].to
    BY DEF FetchDone
  <2>4. e \in fetched[i]
    BY <1>2, <2>2, <2>3 DEF Covers
  <2>5. Second[e] >= startSeconds
    BY <1>1, <1>2, <1>7, <2>1
  <2>6. e \in new(i) \/ e \in committed.seen
    BY <2>4, <2>5 DEF FilterRecordsFromOffset
  <2>7. QED
    BY <1>5, <2>6
<1>8. QED
  BY <1>1, <1>2, <1>3, <1>6, <1>7 DEF Covers

-----------------------------------------------------------------------------
(* What every batch keeps to, capped or not *)

LEMMA InitBatch == Init => BatchInv
<1> SUFFICES ASSUME Init PROVE BatchInv
  OBVIOUS
<1>1. TypeOK /\ ClockInv /\ StartInv /\ CollectedInv /\ NoFutureRows
  BY InitInv DEF IInv
<1>2. PointInv /\ RoundInv /\ ReplyInv /\ planned \subseteq Indexed
  BY DEF Init, PointInv, Point, NoOffset, RoundInv, ReplyInv
<1>3. QED
  BY <1>1, <1>2 DEF BatchInv

LEMMA TickKeepsBatch == BatchInv /\ Tick => BatchInv'
<1> SUFFICES ASSUME BatchInv, Tick PROVE BatchInv'
  OBVIOUS
<1> USE DEF BatchInv, Tick, durable, run, batch, history
<1>1. TypeOK'
  BY DEF TypeOK
<1>2. /\ now \in Nat /\ now' = now + 1 /\ initEnd \in Nat
      /\ arrival \in [Event -> Nat \cup {NotIndexed}]
      /\ committed.cursor \in Int /\ logged.cursor \in Int
  BY DEF TypeOK, Offset
<1>3. ClockInv' /\ PointInv'
  BY <1>2 DEF ClockInv, NotIndexed, PointInv, Point
<1>4. Known' = Known /\ Indexed' = Indexed
  BY KnownUnchanged
<1>5. StartInv' /\ CollectedInv' /\ ReplyInv' /\ (planned \subseteq Indexed)'
  BY <1>4 DEF StartInv, Reading, CollectedInv, ReplyInv, Covers
<1>6. RoundInv'
  BY <1>4 DEF RoundInv, Covers
<1>7. NoFutureRows'
  BY <1>2, EventAssumption DEF NoFutureRows, TypeOK
<1>8. QED
  BY <1>1, <1>3, <1>5, <1>6, <1>7

\* An event that becomes searchable during a run is not one a batch must find.
LEMMA IndexedLate ==
  ASSUME BatchInv, NEW e \in Event, Index(e)
  PROVE  Known' = Known /\ Indexed' = Indexed \cup {e} /\ arrival'[e] = now
<1>1. /\ now \in Nat /\ initEnd \in Nat
      /\ arrival \in [Event -> Nat \cup {NotIndexed}]
      /\ arrival[e] = NotIndexed
      /\ arrival' = [arrival EXCEPT ![e] = now]
      /\ initEnd <= now + 1
      /\ UNCHANGED <<initEnd, replaying, planned>>
  BY DEF Index, BatchInv, TypeOK, ClockInv, run, history
<1>2. Indexed' = Indexed \cup {e}
  BY <1>1 DEF Indexed, NotIndexed
<1>3. e \notin planned
  BY <1>1 DEF BatchInv, Indexed
<1>4. ASSUME NEW f \in Event
      PROVE  f \in Known' <=> f \in Known
  <2>1. CASE f = e
    BY <1>1, <1>3, <2>1 DEF Known, Indexed, NotIndexed
  <2>2. CASE f # e
    BY <1>1, <2>2 DEF Known, Indexed
  <2>3. QED
    BY <2>1, <2>2
<1>5. Known \subseteq Event /\ Known' \subseteq Event
  BY DEF Known, Indexed
<1>6. QED
  BY <1>1, <1>2, <1>4, <1>5

LEMMA IndexKeepsBatch ==
  ASSUME BatchInv, NEW e \in Event, Index(e)
  PROVE  BatchInv'
<1> USE DEF durable, run, batch, history
<1>1. /\ now \in Nat /\ now' = now /\ arrival' = [arrival EXCEPT ![e] = now]
      /\ arrival \in [Event -> Nat \cup {NotIndexed}]
      /\ UNCHANGED <<durable, run, batch, history>>
  BY DEF Index, BatchInv, TypeOK
<1>2. Known' = Known /\ Indexed' = Indexed \cup {e}
  BY IndexedLate
<1>3. TypeOK'
  BY <1>1 DEF BatchInv, TypeOK
<1>4. ClockInv' /\ PointInv'
  BY <1>1 DEF BatchInv, ClockInv, PointInv, Point
<1>5. StartInv' /\ CollectedInv' /\ ReplyInv' /\ (planned \subseteq Indexed)'
  BY <1>1, <1>2 DEF BatchInv, StartInv, Reading, CollectedInv, ReplyInv, Covers
<1>6. RoundInv'
  BY <1>1, <1>2 DEF BatchInv, RoundInv, Covers
<1>7. NoFutureRows'
  BY <1>1 DEF BatchInv, NoFutureRows
<1>8. QED
  BY <1>3, <1>4, <1>5, <1>6, <1>7 DEF BatchInv

LEMMA StartRunKeepsBatch == BatchInv /\ StartRun => BatchInv'
<1> SUFFICES ASSUME BatchInv, StartRun PROVE BatchInv'
  OBVIOUS
<1> USE DEF StartRun, service, durable, batch, history
<1>1. TypeOK'
  BY DEF BatchInv, TypeOK, Phases, Pending
<1>2. now \in Nat /\ committed.cursor \in Int /\ logged.cursor \in Int
  BY DEF BatchInv, TypeOK, Offset
<1>3. ClockInv'
  BY <1>2 DEF BatchInv, ClockInv
<1>4. PointInv'
  BY <1>2 DEF BatchInv, PointInv, Point
<1>5. StartInv' /\ RoundInv' /\ CollectedInv' /\ ReplyInv' /\ (planned \subseteq Indexed)'
      /\ NoFutureRows'
  BY DEF BatchInv, StartInv, Reading, RoundInv, CollectedInv, ReplyInv, Indexed, NoFutureRows
<1>6. QED
  BY <1>1, <1>3, <1>4, <1>5 DEF BatchInv

LEMMA ReadNothingKeepsBatch == BatchInv /\ ReadNothing => BatchInv'
<1> SUFFICES ASSUME BatchInv, ReadNothing PROVE BatchInv'
  OBVIOUS
<1> USE DEF ReadNothing, service, durable, history
<1>1. StartSeconds(committed, initEnd) \in Nat /\ committed \in Offset /\ collected = {}
  BY StartOfBatch DEF BatchInv, CollectedInv
<1>2. TypeOK'
  BY <1>1 DEF BatchInv, TypeOK, Phases
<1>3. ClockInv' /\ PointInv' /\ NoFutureRows' /\ (planned \subseteq Indexed)'
  BY DEF BatchInv, ClockInv, PointInv, Point, NoFutureRows, Indexed
<1>4. StartInv' /\ RoundInv' /\ CollectedInv' /\ ReplyInv'
  BY <1>1 DEF BatchInv, StartInv, RoundInv, CollectedInv, ReplyInv
<1>5. QED
  BY <1>2, <1>3, <1>4 DEF BatchInv

LEMMA BeginReadKeepsBatch == BatchInv /\ BeginRead => BatchInv'
<1> SUFFICES ASSUME BatchInv, BeginRead PROVE BatchInv'
  OBVIOUS
<1> USE DEF BeginRead, service, durable, history
<1> DEFINE start == StartSeconds(committed, initEnd)
<1>1. /\ initEnd \in Nat /\ start \in Nat /\ start < initEnd /\ collected = {}
      /\ MaxRecords \in Nat
  BY StartOfBatch, OptionsAssumption DEF BatchInv, CollectedInv
<1>2. PlanWindows(start) /\ startSeconds' = start
  OBVIOUS
<1> HIDE DEF start
<1>3. /\ nextStart' = start /\ nextStart' \in Nat
      /\ windows' = IterWindows(nextStart', initEnd')
      /\ DOMAIN windows' \subseteq 1 .. MaxConcurrency
      /\ windows' \in [DOMAIN windows' -> [from : Nat, to : Nat]]
      /\ reached' \in [DOMAIN windows' -> Nat]
      /\ fetched' \in [DOMAIN windows' -> SUBSET Event]
      /\ \A i \in DOMAIN windows' : reached'[i] \in windows'[i].from .. windows'[i].to
      /\ \A i \in DOMAIN windows' : Covers(fetched[i], windows[i].from, reached[i])'
      /\ \A i \in DOMAIN windows' : fetched'[i] = {}
  BY <1>1, <1>2, PlannedRound
<1>4. TypeOK'
  BY <1>1, <1>2, <1>3 DEF BatchInv, TypeOK, Phases
<1>5. ClockInv' /\ PointInv' /\ NoFutureRows' /\ (planned \subseteq Indexed)'
  BY DEF BatchInv, ClockInv, PointInv, Point, NoFutureRows, Indexed
<1>6. StartInv' /\ CollectedInv' /\ ReplyInv'
  BY <1>1, <1>2 DEF start, BatchInv, StartInv, CollectedInv, ReplyInv
<1>7. RoundInv'
  <2>1. Covers(collected \cup committed.seen, startSeconds, nextStart)'
    BY <1>1, <1>2, <1>3, EventAssumption DEF Covers, Known, Indexed
  <2>2. Capped' => Cardinality(collected') < MaxRecords
    <3>1. collected' = {}
      BY <1>1
    <3>2. QED
      BY <1>1, <3>1, FS_EmptySet DEF Capped
  <2>3. startSeconds' <= nextStart' /\ nextStart' < initEnd' /\ collected' = {}
    BY <1>1, <1>2, <1>3
  <2>4. QED
    BY <1>3, <2>1, <2>2, <2>3 DEF RoundInv
<1>8. QED
  BY <1>4, <1>5, <1>6, <1>7 DEF BatchInv

LEMMA FetchSliceKeepsBatch ==
  ASSUME BatchInv, NEW i \in DOMAIN windows, FetchSlice(i)
  PROVE  BatchInv'
<1> USE DEF service, durable, run, history
<1>1. PICK to \in (reached[i] + 1) .. windows[i].to :
        /\ reached' = [reached EXCEPT ![i] = to]
        /\ fetched' = [fetched EXCEPT ![i] = @ \cup Search(reached[i], to)]
  BY DEF FetchSlice
<1>2. /\ phase = "fetch"
      /\ UNCHANGED <<service, durable, run, startSeconds, nextStart, windows, collected,
                     result, history>>
  BY DEF FetchSlice
<1>3. /\ windows \in [DOMAIN windows -> [from : Nat, to : Nat]]
      /\ reached \in [DOMAIN windows -> Nat]
      /\ fetched \in [DOMAIN windows -> SUBSET Event]
      /\ windows[i].from \in Nat /\ windows[i].to \in Nat
  BY DEF BatchInv, TypeOK
<1>4. /\ \A j \in DOMAIN windows : reached[j] \in windows[j].from .. windows[j].to
      /\ \A j \in DOMAIN windows : Covers(fetched[j], windows[j].from, reached[j])
      /\ \A j \in DOMAIN windows : \A e \in fetched[j] :
           e \in Indexed /\ windows[j].from <= Second[e] /\ Second[e] < windows[j].to
  BY <1>2 DEF BatchInv, RoundInv
<1>5. /\ reached[i] \in Nat /\ to \in Nat /\ windows[i].from <= reached[i]
      /\ reached[i] < to /\ to <= windows[i].to
  BY <1>1, <1>3, <1>4
<1>6. Search(reached[i], to) \subseteq Event
  BY DEF Search, Indexed
<1>7. /\ reached' \in [DOMAIN windows -> Nat]
      /\ fetched' \in [DOMAIN windows -> SUBSET Event]
  BY <1>1, <1>3, <1>5, <1>6
<1>8. TypeOK'
  BY <1>2, <1>7 DEF BatchInv, TypeOK
<1>9. ClockInv' /\ PointInv' /\ NoFutureRows' /\ (planned \subseteq Indexed)'
  BY <1>2 DEF BatchInv, ClockInv, PointInv, Point, NoFutureRows, Indexed
<1>10. StartInv' /\ CollectedInv' /\ ReplyInv'
  BY <1>2 DEF BatchInv, StartInv, Reading, CollectedInv, ReplyInv, Indexed
<1>11. Known' = Known /\ Indexed' = Indexed
  BY <1>2, KnownUnchanged
<1>12. RoundInv'
  <2>1. ASSUME NEW j \in DOMAIN windows
        PROVE  /\ reached'[j] \in windows[j].from .. windows[j].to
               /\ Covers(fetched[j], windows[j].from, reached[j])'
               /\ \A e \in fetched'[j] :
                    e \in Indexed /\ windows[j].from <= Second[e] /\ Second[e] < windows[j].to
    <3>1. CASE j # i
      <4>1. reached'[j] = reached[j] /\ fetched'[j] = fetched[j]
        BY <1>1, <1>3, <3>1
      <4>2. QED
        BY <1>2, <1>4, <1>11, <4>1 DEF Covers
    <3>2. CASE j = i
      <4>1. reached'[j] = to /\ fetched'[j] = fetched[i] \cup Search(reached[i], to)
        BY <1>1, <1>3, <3>2
      <4>2. reached'[j] \in windows[j].from .. windows[j].to
        BY <1>3, <1>5, <3>2, <4>1
      <4>3. Covers(fetched[j], windows[j].from, reached[j])'
        <5>1. ASSUME NEW e \in Known, windows[i].from <= Second[e], Second[e] < to
              PROVE  e \in fetched[i] \cup Search(reached[i], to)
          <6>1. e \in Indexed /\ Second[e] \in Nat
            BY EventAssumption DEF Known, Indexed
          <6>2. CASE Second[e] < reached[i]
            BY <1>4, <5>1, <6>2 DEF Covers
          <6>3. CASE reached[i] <= Second[e]
            BY <5>1, <6>1, <6>3 DEF Search
          <6>4. QED
            BY <1>5, <6>1, <6>2, <6>3
        <5>2. QED
          BY <1>2, <1>11, <3>2, <4>1, <5>1 DEF Covers
      <4>4. ASSUME NEW e \in Search(reached[i], to)
            PROVE  e \in Indexed /\ windows[i].from <= Second[e] /\ Second[e] < windows[i].to
        <5>1. /\ e \in Indexed /\ Second[e] \in Nat
              /\ reached[i] <= Second[e] /\ Second[e] < to
          BY EventAssumption DEF Search, Indexed
        <5>2. QED
          BY <1>3, <1>5, <5>1
      <4>5. QED
        BY <1>4, <3>2, <4>1, <4>2, <4>3, <4>4
    <3>3. QED
      BY <3>1, <3>2
  <2>2. Covers(collected \cup committed.seen, startSeconds, nextStart)'
    BY <1>2, <1>11 DEF BatchInv, RoundInv, Covers
  <2>3. /\ startSeconds <= nextStart /\ nextStart < initEnd
        /\ windows = IterWindows(nextStart, initEnd)
        /\ \A e \in collected : Second[e] < nextStart
        /\ Capped => Cardinality(collected) < MaxRecords
    BY <1>2 DEF BatchInv, RoundInv
  <2>4. QED
    BY <1>2, <1>11, <2>1, <2>2, <2>3 DEF RoundInv
<1>13. QED
  BY <1>8, <1>9, <1>10, <1>12 DEF BatchInv

\* A round that is kept whole: the batch has read all up to the end of the round.
LEMMA WholeRound ==
  ASSUME BatchInv, KeepAll, UNCHANGED <<arrival, committed, initEnd, replaying, planned>>
  PROVE  /\ phase = "fetch"
         /\ RoundEnd \in Nat /\ RoundEnd <= initEnd
         /\ startSeconds \in Nat /\ startSeconds < RoundEnd
         /\ collected' \subseteq Indexed
         /\ \A e \in collected' : startSeconds <= Second[e] /\ Second[e] < RoundEnd
         /\ Covers(collected' \cup committed.seen, startSeconds, RoundEnd)
<1>1. phase = "fetch" /\ FetchDone /\ collected' = collected \cup Fresh
  BY DEF KeepAll
<1>2. /\ RoundEnd \in Nat /\ nextStart < RoundEnd /\ RoundEnd <= initEnd
      /\ startSeconds \in Nat /\ nextStart \in Nat /\ startSeconds <= nextStart
      /\ Fresh \subseteq Indexed
      /\ \A e \in Fresh : nextStart <= Second[e] /\ Second[e] < RoundEnd
      /\ Covers(Fresh \cup committed.seen, nextStart, RoundEnd)
  BY <1>1, RoundRead
<1>3. /\ Covers(collected \cup committed.seen, startSeconds, nextStart)
      /\ \A e \in collected : e \in Indexed /\ startSeconds <= Second[e]
                              /\ Second[e] < nextStart
  BY <1>1 DEF BatchInv, RoundInv, CollectedInv
<1>4. \A e \in Indexed : Second[e] \in Nat
  BY EventAssumption DEF Indexed
<1>5. ASSUME NEW e \in collected'
      PROVE  e \in Indexed /\ startSeconds <= Second[e] /\ Second[e] < RoundEnd
  <2>1. e \in Indexed
    BY <1>1, <1>2, <1>3, <1>5
  <2>2. Second[e] \in Nat
    BY <1>4, <2>1
  <2>3. CASE e \in collected
    BY <1>2, <1>3, <2>1, <2>2, <2>3
  <2>4. CASE e \in Fresh
    BY <1>2, <2>1, <2>2, <2>4
  <2>5. QED
    BY <1>1, <1>5, <2>3, <2>4
<1>6. ASSUME NEW e \in Known, startSeconds <= Second[e], Second[e] < RoundEnd
      PROVE  e \in collected' \cup committed.seen
  <2>1. Second[e] \in Nat
    BY <1>4 DEF Known
  <2>2. CASE Second[e] < nextStart
    BY <1>1, <1>3, <1>6, <2>2 DEF Covers
  <2>3. CASE nextStart <= Second[e]
    BY <1>1, <1>2, <1>6, <2>3 DEF Covers
  <2>4. QED
    BY <1>2, <2>1, <2>2, <2>3
<1>7. QED
  BY <1>1, <1>2, <1>5, <1>6 DEF Covers

LEMMA NextRoundKeepsBatch == BatchInv /\ NextRound => BatchInv'
<1> SUFFICES ASSUME BatchInv, NextRound PROVE BatchInv'
  OBVIOUS
<1> USE DEF service, durable, run, history
<1>1. /\ KeepAll /\ PlanWindows(RoundEnd) /\ RoundEnd < initEnd
      /\ Capped => Cardinality(collected') < MaxRecords
      /\ UNCHANGED <<service, durable, run, startSeconds, result, history>>
  BY DEF NextRound, MoreToRead
<1>2. /\ phase = "fetch"
      /\ RoundEnd \in Nat /\ startSeconds \in Nat /\ startSeconds < RoundEnd
      /\ RoundEnd <= initEnd
      /\ collected' \subseteq Indexed
      /\ \A e \in collected' : startSeconds <= Second[e] /\ Second[e] < RoundEnd
      /\ Covers(collected' \cup committed.seen, startSeconds, RoundEnd)
  BY <1>1, WholeRound
<1>3. initEnd \in Nat
  BY DEF BatchInv, TypeOK
<1> DEFINE next == RoundEnd
<1>4. /\ next \in Nat /\ next < initEnd /\ initEnd' = initEnd
      /\ UNCHANGED <<arrival, replaying, planned>>
      /\ PlanWindows(next)
  BY <1>1, <1>2
<1> HIDE DEF next
<1>5. /\ nextStart' = next
      /\ windows' = IterWindows(nextStart', initEnd')
      /\ DOMAIN windows' \subseteq 1 .. MaxConcurrency
      /\ windows' \in [DOMAIN windows' -> [from : Nat, to : Nat]]
      /\ reached' \in [DOMAIN windows' -> Nat]
      /\ fetched' \in [DOMAIN windows' -> SUBSET Event]
      /\ \A i \in DOMAIN windows' : reached'[i] \in windows'[i].from .. windows'[i].to
      /\ \A i \in DOMAIN windows' : Covers(fetched[i], windows[i].from, reached[i])'
      /\ \A i \in DOMAIN windows' : fetched'[i] = {}
  BY <1>3, <1>4, PlannedRound
<1>6. Known' = Known /\ Indexed' = Indexed
  BY <1>1, KnownUnchanged
<1>7. \A e \in collected' : e \in Event /\ Second[e] \in Nat
  BY <1>2, EventAssumption DEF Indexed
<1>8. TypeOK'
  BY <1>1, <1>4, <1>5, <1>7 DEF BatchInv, TypeOK
<1>9. ClockInv' /\ PointInv' /\ NoFutureRows' /\ (planned \subseteq Indexed)'
  BY <1>1 DEF BatchInv, ClockInv, PointInv, Point, NoFutureRows, Indexed
<1>10. CollectedInv'
  <2>1. ASSUME NEW e \in collected'
        PROVE  e \in Indexed /\ startSeconds <= Second[e] /\ Second[e] < initEnd
    BY <1>2, <1>3, <1>7
  <2>2. QED
    BY <1>1, <1>2, <1>6, <2>1 DEF CollectedInv
<1>11. StartInv' /\ ReplyInv'
  BY <1>1, <1>2 DEF BatchInv, StartInv, Reading, ReplyInv
<1>12. RoundInv'
  <2>1. Covers(collected \cup committed.seen, startSeconds, nextStart)'
    BY <1>1, <1>2, <1>5, <1>6 DEF Covers, next
  <2>2. /\ startSeconds' <= nextStart' /\ nextStart' < initEnd'
        /\ \A e \in collected' : Second[e] < nextStart'
    BY <1>1, <1>2, <1>3, <1>5 DEF next
  <2>3. Capped' => Cardinality(collected') < MaxRecords
    BY <1>1 DEF Capped
  <2>4. QED
    BY <1>5, <2>1, <2>2, <2>3 DEF RoundInv
<1>13. QED
  BY <1>8, <1>9, <1>10, <1>11, <1>12 DEF BatchInv

\* A batch that comes back with the new records it kept and the offset after them.
LEMMA BatchReturns ==
  ASSUME BatchInv, phase = "fetch", phase' = "returned", NoWindows, nextStart' \in Nat,
         UNCHANGED <<service, durable, replaying, initEnd, startSeconds, history>>,
         collected' \subseteq Indexed,
         \A e \in collected' : startSeconds <= Second[e] /\ Second[e] < initEnd,
         result' \in Offset, result'.cursor \in Nat, result'.cursor <= initEnd,
         Covers(collected' \cup committed.seen, startSeconds, result'.cursor),
         result'.seen \subseteq collected',
         result'.seen # {} => result' # committed /\ result'.cursor < initEnd,
         result'.seen = {} => \/ result'.cursor = initEnd
                              \/ Capped /\ Cardinality(collected') >= MaxRecords
  PROVE  BatchInv'
<1> USE DEF service, durable, history
<1>1. Known' = Known /\ Indexed' = Indexed
  BY KnownUnchanged
<1>2. /\ DOMAIN windows' \subseteq 1 .. MaxConcurrency
      /\ windows' \in [DOMAIN windows' -> [from : Nat, to : Nat]]
      /\ reached' \in [DOMAIN windows' -> Nat]
      /\ fetched' \in [DOMAIN windows' -> SUBSET Event]
  BY EmptyTuple DEF NoWindows
<1>3. TypeOK'
  <2>1. collected' \subseteq Event
    BY DEF Indexed
  <2>2. QED
    BY <1>2, <2>1 DEF BatchInv, TypeOK, Phases
<1>4. ClockInv' /\ PointInv' /\ NoFutureRows' /\ (planned \subseteq Indexed)'
  BY DEF BatchInv, ClockInv, PointInv, Point, NoFutureRows, Indexed
<1>5. StartInv' /\ RoundInv' /\ CollectedInv'
  BY <1>1 DEF BatchInv, StartInv, Reading, RoundInv, CollectedInv
<1>6. ReplyInv'
  <2>1. startSeconds < initEnd
    <3>1. /\ startSeconds <= nextStart /\ nextStart < initEnd
          /\ startSeconds \in Nat /\ nextStart \in Nat /\ initEnd \in Nat
      BY DEF BatchInv, RoundInv, TypeOK
    <3>2. QED
      BY <3>1
  <2>2. Covers(collected \cup committed.seen, startSeconds, result.cursor)'
    BY <1>1 DEF Covers
  <2>3. QED
    BY <2>1, <2>2 DEF ReplyInv, Capped
<1>7. QED
  BY <1>3, <1>4, <1>5, <1>6 DEF BatchInv

LEMMA FinishReadKeepsBatch == BatchInv /\ FinishRead => BatchInv'
<1> SUFFICES ASSUME BatchInv, FinishRead PROVE BatchInv'
  OBVIOUS
<1>1. /\ KeepAll /\ ~ MoreToRead /\ phase' = "returned"
      /\ nextStart' = RoundEnd /\ result' = WindowOffset(RoundEnd)
      /\ NoWindows
      /\ UNCHANGED <<service, durable, replaying, initEnd, startSeconds, history>>
  BY DEF FinishRead
<1>2. /\ phase = "fetch" /\ RoundEnd \in Nat /\ RoundEnd <= initEnd
      /\ collected' \subseteq Indexed
      /\ \A e \in collected' : startSeconds <= Second[e] /\ Second[e] < RoundEnd
      /\ Covers(collected' \cup committed.seen, startSeconds, RoundEnd)
  BY <1>1, WholeRound DEF service, durable, history
<1>3. initEnd \in Nat /\ MaxRecords \in Nat
  BY OptionsAssumption DEF BatchInv, TypeOK
<1>4. \A e \in collected' : e \in Event /\ Second[e] \in Nat
  BY <1>2, EventAssumption DEF Indexed
<1>5. Cardinality(collected') \in Nat
  BY <1>4, EventsAreFinite
<1>6. RoundEnd = initEnd \/ (Capped /\ Cardinality(collected') >= MaxRecords)
  BY <1>1, <1>2, <1>3, <1>5 DEF MoreToRead
<1>7. /\ result'.cursor = RoundEnd /\ result'.seen = {} /\ result' \in Offset
  BY <1>1, <1>2 DEF WindowOffset, Offset
<1>8. \A e \in collected' : startSeconds <= Second[e] /\ Second[e] < initEnd
  BY <1>2, <1>3, <1>4
<1>9. QED
  BY <1>1, <1>2, <1>6, <1>7, <1>8, BatchReturns

LEMMA TruncateKeepsBatch == BatchInv /\ Truncate => BatchInv'
<1> SUFFICES ASSUME BatchInv, Truncate PROVE BatchInv'
  OBVIOUS
<1> DEFINE first == FirstRecords(Fresh, Remaining)
           kept == collected \cup first
<1>1. /\ phase = "fetch" /\ FetchDone /\ Capped /\ Cardinality(Fresh) > Remaining
      /\ collected' = kept /\ result' = BuildResumeOffset(kept)
      /\ phase' = "returned" /\ NoWindows
      /\ UNCHANGED <<service, durable, replaying, initEnd, startSeconds, history>>
      /\ nextStart' = nextStart
  BY DEF Truncate
<1>2. /\ RoundEnd \in Nat /\ nextStart < RoundEnd /\ RoundEnd <= initEnd
      /\ startSeconds \in Nat /\ nextStart \in Nat /\ startSeconds <= nextStart
      /\ Fresh \subseteq Indexed
      /\ \A e \in Fresh : nextStart <= Second[e] /\ Second[e] < RoundEnd
      /\ \A e \in Fresh : Second[e] = startSeconds => e \notin committed.seen
      /\ Covers(Fresh \cup committed.seen, nextStart, RoundEnd)
  BY <1>1, RoundRead
<1>3. /\ Covers(collected \cup committed.seen, startSeconds, nextStart)
      /\ \A e \in collected : e \in Indexed /\ startSeconds <= Second[e]
                              /\ Second[e] < nextStart
      /\ Cardinality(collected) < MaxRecords
      /\ initEnd \in Nat /\ startSeconds = StartSeconds(committed, initEnd)
  BY <1>1 DEF BatchInv, RoundInv, CollectedInv, TypeOK, StartInv, Reading
<1>4. \A e \in Indexed : e \in Event /\ Second[e] \in Nat /\ Rank[e] \in Nat
  BY EventAssumption DEF Indexed
<1>5. collected \in SUBSET Event /\ Fresh \in SUBSET Event
  BY <1>2, <1>3, <1>4
<1>6. Remaining \in Nat /\ Remaining > 0 /\ Fresh # {}
  <2>1. /\ Cardinality(collected) \in Nat /\ Cardinality(Fresh) \in Nat
        /\ MaxRecords \in Nat
    BY <1>5, EventsAreFinite, OptionsAssumption
  <2>2. Remaining \in Nat /\ Remaining > 0
    BY <1>3, <2>1 DEF Remaining
  <2>3. Cardinality(Fresh) # 0
    BY <1>1, <2>1, <2>2
  <2>4. QED
    BY <2>2, <2>3, FS_EmptySet
<1>7. /\ first \subseteq Fresh /\ first # {}
      /\ \A e \in Fresh, f \in first : Rank[e] < Rank[f] => e \in first
  BY <1>5, <1>6, FirstRecordsAreFirst
<1>8. PICK last \in kept :
        /\ BuildResumeOffset(kept).cursor = Second[last]
        /\ BuildResumeOffset(kept).seen = {e \in kept : Second[e] = Second[last]}
        /\ BuildResumeOffset(kept) \in Offset
        /\ \A e \in kept : Rank[e] <= Rank[last] /\ Second[e] <= Second[last]
  <2>1. kept \in SUBSET Event /\ kept # {}
    BY <1>5, <1>7
  <2> HIDE DEF kept
  <2>2. QED
    BY <2>1, ResumeOffsetFacts
<1>9. last \in first /\ nextStart <= Second[last] /\ Second[last] < RoundEnd
      /\ last \in Indexed
  <2>1. PICK f \in first : TRUE
    BY <1>7
  <2>2. f \in kept /\ f \in Indexed /\ nextStart <= Second[f] /\ Second[f] <= Second[last]
    BY <1>2, <1>7, <1>8, <2>1
  <2>3. last \in Indexed
    BY <1>2, <1>3, <1>7
  <2>4. ~ (Second[last] < nextStart)
    BY <1>2, <1>4, <2>2, <2>3
  <2>5. last \in first
    BY <1>3, <2>4
  <2>6. QED
    BY <1>2, <1>7, <2>3, <2>5
<1>10. ASSUME NEW e \in kept
       PROVE  e \in Indexed /\ startSeconds <= Second[e] /\ Second[e] < initEnd
  <2>1. e \in Indexed
    BY <1>2, <1>3, <1>7
  <2>2. Second[e] \in Nat
    BY <1>4, <2>1
  <2>3. CASE e \in collected
    BY <1>2, <1>3, <2>1, <2>2, <2>3
  <2>4. CASE e \in first
    <3>1. nextStart <= Second[e] /\ Second[e] < RoundEnd
      BY <1>2, <1>7, <2>4
    <3>2. QED
      BY <1>2, <1>3, <2>1, <2>2, <3>1
  <2>5. QED
    BY <2>3, <2>4
<1>11. ASSUME NEW e \in Known, startSeconds <= Second[e], Second[e] < Second[last]
       PROVE  e \in kept \cup committed.seen
  <2>1. e \in Indexed /\ last \in Indexed
    BY <1>9 DEF Known
  <2>2. Second[e] \in Nat /\ Second[last] \in Nat
    BY <1>4, <2>1
  <2>3. CASE Second[e] < nextStart
    BY <1>3, <1>11, <2>3 DEF Covers
  <2>4. CASE nextStart <= Second[e]
    <3>1. Second[e] < RoundEnd
      BY <1>2, <1>9, <1>11, <2>2
    <3>2. e \in Fresh \/ e \in committed.seen
      BY <1>2, <1>11, <2>4, <3>1 DEF Covers
    <3>3. Rank[e] < Rank[last]
      BY <1>4, <1>11, <2>1, EventAssumption
    <3>4. QED
      BY <1>7, <1>9, <3>2, <3>3
  <2>5. QED
    BY <1>2, <2>2, <2>3, <2>4
<1>12. result' # committed
  <2>1. SUFFICES ASSUME result' = committed PROVE FALSE
    OBVIOUS
  <2>2. last \in committed.seen /\ committed.cursor = Second[last]
    BY <1>1, <1>8, <2>1
  <2>3. startSeconds = Second[last]
    BY <1>1, <1>3, <2>2, StartOfBatch
  <2>4. QED
    BY <1>2, <1>7, <1>9, <2>2, <2>3
<1>13. /\ result' \in Offset /\ result'.cursor = Second[last]
       /\ result'.seen \subseteq kept /\ result'.seen # {}
  BY <1>1, <1>8
<1>14. result'.cursor \in Nat /\ result'.cursor < initEnd /\ result'.cursor <= initEnd
  BY <1>2, <1>3, <1>4, <1>9, <1>13
<1>15. Covers(collected' \cup committed.seen, startSeconds, result'.cursor)
  BY <1>1, <1>11, <1>13 DEF Covers
<1>16. /\ collected' \subseteq Indexed
       /\ \A e \in collected' : startSeconds <= Second[e] /\ Second[e] < initEnd
       /\ result'.seen \subseteq collected' /\ nextStart' \in Nat
  BY <1>1, <1>2, <1>10, <1>13
<1> HIDE DEF kept, first
<1>17. QED
  BY <1>1, <1>12, <1>13, <1>14, <1>15, <1>16, BatchReturns

\* The locals of a batch are dropped and the offsets it leaves are in range.
LEMMA BatchEnds ==
  ASSUME BatchInv, DropBatch, phase' \in {"idle", "call"}, replaying' \in BOOLEAN,
         UNCHANGED <<service, table, logged, initEnd, planned>>,
         committed' \in {committed, logged}, since' \in Nat, failures' \in Nat,
         phase # "idle"
  PROVE  BatchInv'
<1> USE DEF service
<1>1. /\ startSeconds' \in Nat /\ nextStart' \in Nat
      /\ DOMAIN windows' \subseteq 1 .. MaxConcurrency
      /\ windows' \in [DOMAIN windows' -> [from : Nat, to : Nat]]
      /\ reached' \in [DOMAIN windows' -> Nat]
      /\ fetched' \in [DOMAIN windows' -> SUBSET Event]
      /\ collected' = {} /\ result' \in Offset
  BY DroppedBatch
<1>2. TypeOK'
  BY <1>1 DEF BatchInv, TypeOK, Phases
<1>3. ClockInv' /\ NoFutureRows' /\ (planned \subseteq Indexed)'
  BY DEF BatchInv, ClockInv, NoFutureRows, Indexed
<1>4. PointInv'
  BY DEF BatchInv, PointInv, Point
<1>5. StartInv' /\ RoundInv' /\ CollectedInv' /\ ReplyInv'
  BY <1>1 DEF StartInv, Reading, RoundInv, CollectedInv, ReplyInv
<1>6. QED
  BY <1>2, <1>3, <1>4, <1>5 DEF BatchInv

LEMMA StopPaginatingKeepsBatch == BatchInv /\ StopPaginating => BatchInv'
BY BatchEnds DEF StopPaginating, durable, BatchInv, TypeOK

LEMMA CommitKeepsBatch == BatchInv /\ Commit => BatchInv'
<1> SUFFICES ASSUME BatchInv, Commit PROVE BatchInv'
  OBVIOUS
<1>1. since' \in Nat /\ failures' \in Nat /\ committed' \in {committed, logged}
  BY DEF Commit, BatchInv, TypeOK
<1>2. QED
  BY <1>1, BatchEnds DEF Commit

LEMMA RunFailsKeepsBatch == BatchInv /\ RunFails => BatchInv'
<1> SUFFICES ASSUME BatchInv, RunFails PROVE BatchInv'
  OBVIOUS
<1>1. failures' \in Nat /\ phase # "idle" /\ since' \in Nat
  BY DEF RunFails, BatchInv, TypeOK
<1>2. QED
  BY <1>1, BatchEnds DEF RunFails, durable

LEMMA LogOffsetKeepsBatch == BatchInv /\ LogOffset => BatchInv'
<1> SUFFICES ASSUME BatchInv, LogOffset PROVE BatchInv'
  OBVIOUS
<1> USE DEF LogOffset, service, batch
<1>1. /\ phase = "returned" /\ result # committed /\ logged' = result
      /\ planned' = collected /\ phase' = "write"
      /\ UNCHANGED <<service, table, committed, replaying, initEnd, batch, since, failures>>
  OBVIOUS
<1>2. /\ result.cursor \in Nat /\ result.cursor <= initEnd
      /\ result.seen # {} => result.cursor < initEnd
  BY <1>1 DEF BatchInv, ReplyInv
<1>3. now \in Nat /\ initEnd \in Nat /\ initEnd <= now + 1
  BY DEF BatchInv, TypeOK, ClockInv
<1>4. TypeOK'
  BY <1>1 DEF BatchInv, TypeOK, Phases
<1>5. PointInv'
  BY <1>1, <1>2, <1>3 DEF BatchInv, PointInv, Point
<1>6. ClockInv' /\ NoFutureRows'
  BY <1>1 DEF BatchInv, ClockInv, NoFutureRows
<1>7. StartInv' /\ RoundInv' /\ CollectedInv' /\ ReplyInv' /\ (planned \subseteq Indexed)'
  BY <1>1 DEF BatchInv, StartInv, Reading, RoundInv, CollectedInv, ReplyInv, Indexed
<1>8. QED
  BY <1>4, <1>5, <1>6, <1>7 DEF BatchInv

LEMMA ReplayBatchKeepsBatch == BatchInv /\ ReplayBatch => BatchInv'
<1> SUFFICES ASSUME BatchInv, ReplayBatch PROVE BatchInv'
  OBVIOUS
<1> USE DEF ReplayBatch, service, durable, batch, history
<1>1. TypeOK'
  BY DEF BatchInv, TypeOK, Phases
<1>2. ClockInv' /\ PointInv' /\ NoFutureRows' /\ (planned \subseteq Indexed)'
  BY DEF BatchInv, ClockInv, PointInv, Point, NoFutureRows, Indexed
<1>3. StartInv' /\ RoundInv' /\ CollectedInv' /\ ReplyInv'
  BY DEF BatchInv, StartInv, Reading, RoundInv, CollectedInv, ReplyInv, Indexed
<1>4. QED
  BY <1>1, <1>2, <1>3 DEF BatchInv

LEMMA WriteRowsKeepsBatch == BatchInv /\ WriteRows => BatchInv'
<1> SUFFICES ASSUME BatchInv, WriteRows PROVE BatchInv'
  OBVIOUS
<1> USE DEF WriteRows, service, batch
<1>1. TypeOK'
  BY DEF BatchInv, TypeOK, Phases
<1>2. ClockInv' /\ PointInv' /\ (planned \subseteq Indexed)'
  BY DEF BatchInv, ClockInv, PointInv, Point, Indexed
<1>3. StartInv' /\ RoundInv' /\ CollectedInv' /\ ReplyInv'
  BY DEF BatchInv, StartInv, Reading, RoundInv, CollectedInv, ReplyInv, Indexed
<1>4. NoFutureRows'
  <2>1. ASSUME NEW e \in collected PROVE Second[e] <= now
    <3>1. Second[e] < initEnd /\ Second[e] \in Nat
      BY EventAssumption DEF BatchInv, CollectedInv, Indexed
    <3>2. initEnd \in Nat /\ now \in Nat /\ initEnd <= now + 1
      BY DEF BatchInv, TypeOK, ClockInv
    <3>3. QED
      BY <3>1, <3>2
  <2>2. QED
    BY <2>1 DEF BatchInv, NoFutureRows
<1>5. QED
  BY <1>1, <1>2, <1>3, <1>4 DEF BatchInv

LEMMA StutterKeepsBatch == BatchInv /\ UNCHANGED vars => BatchInv'
<1> SUFFICES ASSUME BatchInv, UNCHANGED vars PROVE BatchInv'
  OBVIOUS
<1> USE DEF vars, service, durable, run, batch, history
<1>1. TypeOK' /\ ClockInv' /\ PointInv' /\ NoFutureRows' /\ (planned \subseteq Indexed)'
  BY DEF BatchInv, TypeOK, ClockInv, PointInv, Point, NoFutureRows, Indexed
<1>2. StartInv' /\ CollectedInv' /\ ReplyInv'
  BY DEF BatchInv, StartInv, Reading, CollectedInv, ReplyInv, Covers, Known, Indexed
<1>3. RoundInv'
  BY DEF BatchInv, RoundInv, Covers, Known, Indexed
<1>4. QED
  BY <1>1, <1>2, <1>3 DEF BatchInv

LEMMA NextKeepsBatch == BatchInv /\ [Next]_vars => BatchInv'
<1> SUFFICES ASSUME BatchInv, [Next]_vars PROVE BatchInv'
  OBVIOUS
<1>1. ASSUME NEW e \in Event, Index(e) PROVE BatchInv'
  BY <1>1, IndexKeepsBatch
<1>2. CASE Connector
  <2>1. ASSUME NEW i \in DOMAIN windows, FetchSlice(i) PROVE BatchInv'
    BY <2>1, FetchSliceKeepsBatch
  <2>2. QED
    BY <1>2, <2>1, ReadNothingKeepsBatch, BeginReadKeepsBatch, TruncateKeepsBatch,
       NextRoundKeepsBatch, FinishReadKeepsBatch DEF Connector
<1>3. CASE Engine
  BY <1>3, StopPaginatingKeepsBatch, LogOffsetKeepsBatch, ReplayBatchKeepsBatch,
     WriteRowsKeepsBatch, CommitKeepsBatch DEF Engine
<1>4. QED
  BY <1>1, <1>2, <1>3, TickKeepsBatch, StartRunKeepsBatch, RunFailsKeepsBatch,
     StutterKeepsBatch DEF Next

-----------------------------------------------------------------------------
(* What holds beside it as long as no batch was replayed *)

LEMMA FailuresCount ==
  ASSUME BatchInv, [Next]_vars
  PROVE  failures \in Nat /\ (failures' = failures \/ failures' = failures + 1)
<1>1. failures \in Nat
  BY DEF BatchInv, TypeOK
<1>2. CASE Connector
  <2>1. UNCHANGED history
    <3>1. ReadNothing \/ BeginRead \/ Truncate => UNCHANGED history
      BY DEF ReadNothing, BeginRead, Truncate
    <3>2. NextRound \/ FinishRead => UNCHANGED history
      BY DEF NextRound, FinishRead
    <3>3. ASSUME NEW i \in DOMAIN windows, FetchSlice(i) PROVE UNCHANGED history
      BY <3>3 DEF FetchSlice
    <3>4. QED
      BY <1>2, <3>1, <3>2, <3>3 DEF Connector
  <2>2. QED
    BY <1>1, <2>1 DEF history
<1>3. CASE Engine
  <2>1. StopPaginating \/ LogOffset \/ WriteRows \/ Commit => UNCHANGED failures
    BY DEF StopPaginating, LogOffset, WriteRows, Commit
  <2>2. ReplayBatch => UNCHANGED failures
    BY DEF ReplayBatch, history
  <2>3. QED
    BY <1>1, <1>3, <2>1, <2>2 DEF Engine
<1>4. CASE RunFails
  BY <1>1, <1>4 DEF RunFails
<1>5. CASE StartRun \/ Tick \/ UNCHANGED vars
  BY <1>1, <1>5 DEF StartRun, Tick, vars, history
<1>6. ASSUME NEW e \in Event, Index(e) PROVE UNCHANGED failures
  BY <1>6 DEF Index, history
<1>7. QED
  BY <1>1, <1>2, <1>3, <1>4, <1>5, <1>6 DEF Next

LEMMA NextKeepsSeen ==
  ASSUME BatchInv, [Next]_vars, NoReplays => SeenInv
  PROVE  (NoReplays => SeenInv)'
<1> SUFFICES ASSUME NoReplays' PROVE SeenInv'
  OBVIOUS
<1>1. failures \in Nat /\ (failures' = failures \/ failures' = failures + 1)
  BY FailuresCount
<1>2. NoReplays
  BY <1>1 DEF NoReplays
<1>3. SeenInv
  BY <1>2
<1> USE DEF service, durable, run, batch, history
<1>4. ASSUME UNCHANGED <<durable, phase, replaying, collected>>
      PROVE  SeenInv'
  BY <1>3, <1>4 DEF SeenInv, Pending, SeenIsWritten
<1>5. ASSUME UNCHANGED durable, phase \notin {"write", "commit"},
             phase' \notin {"write", "commit"}, ~ replaying'
      PROVE  SeenInv'
  BY <1>3, <1>5 DEF SeenInv, Pending, SeenIsWritten
<1>6. CASE StartRun
  BY <1>3, <1>5, <1>6 DEF StartRun, SeenInv, Pending
<1>7. CASE Connector
  <2>1. UNCHANGED <<durable, replaying>> /\ phase \in {"call", "fetch"}
        /\ phase' \in {"fetch", "returned"}
    BY <1>7 DEF Connector, ReadNothing, BeginRead, FetchSlice, Truncate, NextRound, KeepAll,
                FinishRead
  <2>2. QED
    BY <1>3, <1>5, <2>1 DEF SeenInv
<1>8. CASE StopPaginating
  BY <1>3, <1>5, <1>8 DEF StopPaginating, SeenInv
<1>9. CASE LogOffset
  <2>1. result.seen \subseteq collected
    BY <1>9 DEF LogOffset, BatchInv, ReplyInv
  <2>2. QED
    BY <1>3, <1>9, <2>1 DEF LogOffset, SeenInv, SeenIsWritten
<1>10. CASE ReplayBatch
  BY <1>3, <1>10 DEF ReplayBatch, SeenInv
<1>11. CASE WriteRows
  BY <1>3, <1>11 DEF WriteRows, SeenInv, Pending, SeenIsWritten
<1>12. CASE Commit
  BY <1>3, <1>12 DEF Commit, SeenInv, Pending, SeenIsWritten
<1>13. CASE RunFails
  <2>1. failures' # 0 /\ phase \in FailurePhases /\ phase' = "idle" /\ ~ replaying'
        /\ UNCHANGED durable
    BY <1>1, <1>13 DEF RunFails
  <2>2. phase \notin {"write", "commit"}
    BY <2>1 DEF NoReplays
  <2>3. QED
    BY <1>5, <2>1, <2>2
<1>14. CASE Tick \/ UNCHANGED vars \/ \E e \in Event : Index(e)
  BY <1>4, <1>14 DEF Tick, Index, vars
<1>15. QED
  BY <1>6, <1>7, <1>8, <1>9, <1>10, <1>11, <1>12, <1>13, <1>14 DEF Next, Engine

-----------------------------------------------------------------------------
(* What holds beside it as long as no run failed *)

LEMMA CommitKeepsSwept ==
  ASSUME BatchInv, SeenInv, LateInv, Commit
  PROVE  Swept'
<1> USE DEF service
<1>1. /\ phase = "commit" /\ committed' = logged
      /\ since' = IF committed = NoOffset THEN startSeconds ELSE since
      /\ UNCHANGED <<service, table, logged, initEnd>>
  BY DEF Commit
<1>2. /\ committed.cursor \in Int /\ initEnd \in Nat
      /\ startSeconds = StartSeconds(committed, initEnd) /\ startSeconds \in Nat
      /\ committed.seen # {} => startSeconds = committed.cursor
      /\ committed.cursor < initEnd <=> startSeconds < initEnd
      /\ committed # NoOffset /\ committed.seen = {} /\ committed.cursor < initEnd =>
           \A s \in Nat : committed.cursor - Overlap <= s => startSeconds <= s
  BY <1>1, StartOfBatch DEF BatchInv, StartInv, Reading
<1>3. /\ logged.cursor \in Int /\ logged.cursor <= initEnd
      /\ arrival \in [Event -> Nat \cup {NotIndexed}]
      /\ Covers(table, startSeconds, logged.cursor)
      /\ Overlap \in Nat /\ since \in Nat
  BY <1>1, OptionsAssumption DEF BatchInv, TypeOK, Offset, PointInv, Point, LateInv
<1>4. ASSUME NEW e \in Event, InTime(e), since' <= Second[e],
             IF logged.seen = {} THEN Second[e] < logged.cursor - Overlap
             ELSE Second[e] < logged.cursor /\ arrival[e] < initEnd - 1
      PROVE  e \in table
  <2>1. /\ Second[e] \in Nat /\ arrival[e] \in Nat /\ arrival[e] < Second[e] + Overlap
        /\ e \in Indexed
    BY <1>3, <1>4, EventAssumption DEF InTime, Indexed, NotIndexed
  <2>2. Second[e] < logged.cursor /\ arrival[e] < initEnd - 1
    <3>1. CASE logged.seen = {}
      <4>1. Second[e] < logged.cursor - Overlap
        BY <1>4, <3>1
      <4>2. QED
        BY <1>2, <1>3, <2>1, <4>1
    <3>2. CASE logged.seen # {}
      BY <1>4, <3>2
    <3>3. QED
      BY <3>1, <3>2
  <2>3. e \in Known
    BY <2>1, <2>2 DEF Known
  <2>4. CASE startSeconds <= Second[e]
    BY <1>3, <2>2, <2>3, <2>4 DEF Covers
  <2>5. CASE Second[e] < startSeconds
    <3>1. committed # NoOffset
      BY <1>1, <1>2, <1>4, <2>1, <2>5
    <3>2. since <= Second[e]
      BY <1>1, <1>4, <3>1
    <3>3. CASE committed.seen # {}
      BY <1>2, <1>4, <2>2, <2>5, <3>2, <3>3 DEF LateInv, Swept
    <3>4. CASE committed.seen = {}
      <4>1. committed.cursor < initEnd
        BY <1>1, <1>2 DEF LateInv
      <4>2. Second[e] < committed.cursor - Overlap
        BY <1>2, <1>3, <2>1, <2>5, <3>1, <3>4, <4>1
      <4>3. QED
        BY <1>4, <3>2, <3>4, <4>2 DEF LateInv, Swept
    <3>5. QED
      BY <3>3, <3>4
  <2>6. QED
    BY <1>2, <2>1, <2>4, <2>5
<1>5. QED
  BY <1>1, <1>4 DEF Swept, InTime

LEMMA NextKeepsLate ==
  ASSUME BatchInv, [Next]_vars, NoReplays => SeenInv, failures = 0 => LateInv
  PROVE  (failures = 0 => LateInv)'
<1> SUFFICES ASSUME failures' = 0 PROVE LateInv'
  OBVIOUS
<1>1. failures = 0
  BY FailuresCount
<1>2. SeenInv /\ LateInv
  BY <1>1 DEF NoReplays
<1> USE DEF service, durable, run, batch, history
\* A step that leaves the table and what it is compared with alone.
<1>3. ASSUME UNCHANGED <<arrival, table, committed, since, initEnd>>
      PROVE  Swept'
  BY <1>2, <1>3 DEF LateInv, Swept, InTime
<1>4. ASSUME UNCHANGED <<arrival, durable, phase, replaying, initEnd, startSeconds, collected,
                         since, planned>>
      PROVE  LateInv'
  <2>1. Known' = Known
    BY <1>4, KnownUnchanged
  <2>2. QED
    BY <1>2, <1>3, <1>4, <2>1 DEF LateInv, Covers
<1>5. ASSUME UNCHANGED <<arrival, table, committed, since, initEnd>>,
             phase' \notin {"idle", "write", "commit"}
      PROVE  LateInv'
  BY <1>3, <1>5 DEF LateInv
<1>6. CASE Tick \/ UNCHANGED vars
  BY <1>4, <1>6 DEF Tick, vars
<1>7. ASSUME NEW e \in Event, Index(e) PROVE LateInv'
  <2>1. /\ Known' = Known /\ arrival' = [arrival EXCEPT ![e] = now]
        /\ arrival \in [Event -> Nat \cup {NotIndexed}]
        /\ UNCHANGED <<now, durable, run, batch, history>>
    BY <1>7, IndexedLate DEF Index, BatchInv, TypeOK
  <2>2. /\ now \in Nat /\ initEnd \in Nat /\ initEnd <= now + 1
        /\ committed.cursor \in Int /\ committed.cursor <= now + 1 /\ Overlap \in Nat
    BY OptionsAssumption DEF BatchInv, TypeOK, Offset, ClockInv, PointInv, Point
  <2>3. Swept'
    <3>1. ASSUME NEW f \in Event, InTime(f)', since <= Second[f],
                 IF committed.seen = {} THEN Second[f] < committed.cursor - Overlap
                 ELSE Second[f] < committed.cursor /\ arrival'[f] < initEnd - 1
          PROVE  f \in table
      <4>1. CASE f # e
        BY <1>2, <2>1, <3>1, <4>1 DEF LateInv, Swept, InTime
      <4>2. CASE f = e
        <5>1. arrival'[f] = now /\ Second[f] \in Nat /\ now < Second[f] + Overlap
          BY <2>1, <3>1, <4>2, EventAssumption DEF InTime
        <5>2. CASE committed.seen = {}
          BY <2>2, <3>1, <5>1, <5>2
        <5>3. CASE committed.seen # {}
          BY <2>2, <3>1, <5>1, <5>3
        <5>4. QED
          BY <5>2, <5>3
      <4>3. QED
        BY <4>1, <4>2
    <3>2. QED
      BY <2>1, <3>1 DEF Swept, InTime
  <2>4. QED
    BY <1>2, <2>1, <2>3 DEF LateInv, Covers
<1>8. CASE StartRun
  BY <1>2, <1>8 DEF StartRun, LateInv, Swept, InTime
<1>9. CASE Connector
  <2>1. /\ UNCHANGED <<arrival, table, committed, since, initEnd>>
        /\ phase' \in {"fetch", "returned"}
    <3>1. CASE ReadNothing \/ BeginRead \/ Truncate
      BY <3>1 DEF ReadNothing, BeginRead, Truncate
    <3>2. CASE NextRound \/ FinishRead
      BY <3>2 DEF NextRound, FinishRead, KeepAll
    <3>3. ASSUME NEW i \in DOMAIN windows, FetchSlice(i)
          PROVE  /\ UNCHANGED <<arrival, table, committed, since, initEnd>>
                 /\ phase' \in {"fetch", "returned"}
      BY <3>3 DEF FetchSlice
    <3>4. QED
      BY <1>9, <3>1, <3>2, <3>3 DEF Connector
  <2>2. QED
    BY <1>5, <2>1
<1>10. CASE StopPaginating
  <2>1. /\ phase = "returned" /\ phase' = "idle" /\ result = committed
        /\ UNCHANGED <<arrival, table, committed, since, initEnd>>
    BY <1>10 DEF StopPaginating
  <2>2. committed.seen = {}
    <3>1. CASE startSeconds >= initEnd
      <4>1. /\ startSeconds = StartSeconds(committed, initEnd) /\ startSeconds \in Nat
            /\ initEnd \in Nat /\ committed.cursor \in Int
            /\ committed.cursor < initEnd <=> startSeconds < initEnd
        BY <2>1, StartOfBatch DEF BatchInv, StartInv, Reading
      <4>2. ~ (committed.cursor < initEnd)
        BY <3>1, <4>1
      <4>3. QED
        BY <2>1, <4>2 DEF BatchInv, PointInv, Point
    <3>2. CASE ~ (startSeconds >= initEnd)
      BY <2>1, <3>2 DEF BatchInv, ReplyInv
    <3>3. QED
      BY <3>1, <3>2
  <2>3. QED
    BY <1>3, <2>1, <2>2 DEF LateInv
<1>11. CASE LogOffset
  <2>1. /\ phase = "returned" /\ phase' = "write" /\ result # committed /\ logged' = result
        /\ ~ replaying
        /\ UNCHANGED <<arrival, table, committed, replaying, since, initEnd, startSeconds,
                       collected>>
    BY <1>11 DEF LogOffset
  <2>2. startSeconds < initEnd /\ Covers(collected \cup committed.seen, startSeconds, result.cursor)
    BY <2>1 DEF BatchInv, ReplyInv
  <2>3. Known' = Known
    BY <2>1 DEF Known, Indexed
  <2>4. QED
    BY <1>3, <2>1, <2>2, <2>3 DEF LateInv, Covers
<1>12. CASE ReplayBatch
  BY <1>2, <1>12 DEF ReplayBatch, SeenInv
<1>13. CASE WriteRows
  <2>1. /\ phase = "write" /\ phase' = "commit" /\ table' = table \cup collected
        /\ UNCHANGED <<arrival, committed, logged, replaying, since, initEnd, startSeconds,
                       collected, planned>>
    BY <1>13 DEF WriteRows
  <2>2. Known' = Known
    BY <2>1, KnownUnchanged
  <2>3. committed.seen \subseteq table
    BY <1>2 DEF SeenInv, SeenIsWritten
  <2>4. Swept'
    BY <1>2, <2>1 DEF LateInv, Swept, InTime
  <2>5. QED
    BY <1>2, <2>1, <2>2, <2>3, <2>4 DEF LateInv, Covers
<1>14. CASE Commit
  <2>1. Swept'
    BY <1>2, <1>14, CommitKeepsSwept
  <2>2. phase' = "call"
    BY <1>14 DEF Commit
  <2>3. QED
    BY <2>1, <2>2 DEF LateInv
<1>15. CASE RunFails
  BY <1>1, <1>15 DEF RunFails
<1>16. QED
  BY <1>6, <1>7, <1>8, <1>9, <1>10, <1>11, <1>12, <1>13, <1>14, <1>15 DEF Next, Engine

\* A run that no run has failed before loses no late arrival.
LEMMA LateInvSuffices ==
  ASSUME BatchInv, LateInv
  PROVE  NoLateLoss
<1>1. /\ committed.cursor \in Int /\ initEnd \in Nat /\ Overlap \in Nat
      /\ arrival \in [Event -> Nat \cup {NotIndexed}]
  BY OptionsAssumption DEF BatchInv, TypeOK, Offset
<1>2. ASSUME NEW e \in Event, InTime(e), since <= Second[e], Second[e] < ResumePoint
      PROVE  e \in table
  <2>1. /\ Second[e] \in Nat /\ arrival[e] \in Nat /\ arrival[e] < Second[e] + Overlap
    BY <1>1, <1>2, EventAssumption DEF InTime, NotIndexed
  <2>2. CASE committed.seen = {}
    BY <1>2, <2>2 DEF ResumePoint, LateInv, Swept
  <2>3. CASE committed.seen # {}
    <3>1. Second[e] < Smaller(committed.cursor, initEnd - Overlap)
      BY <1>2, <2>3 DEF ResumePoint
    <3>2. Second[e] < committed.cursor /\ Second[e] < initEnd - Overlap
      BY <1>1, <2>1, <3>1 DEF Smaller
    <3>3. arrival[e] < initEnd - 1
      BY <1>1, <2>1, <3>2
    <3>4. QED
      BY <1>2, <2>3, <3>2, <3>3 DEF LateInv, Swept
  <2>4. QED
    BY <2>2, <2>3
<1>3. QED
  BY <1>2 DEF NoLateLoss

LEMMA CleanInvariance == Spec => []CleanInv
<1>1. Init => CleanInv
  <2>1. SUFFICES ASSUME Init PROVE SeenInv /\ LateInv
    BY InitBatch DEF CleanInv
  <2>2. /\ phase = "idle" /\ ~ replaying /\ ~ Pending /\ committed.seen = {}
    BY <2>1 DEF Init, Pending, NoOffset
  <2>3. Swept
    BY <2>1 DEF Init, Swept, InTime
  <2>4. QED
    BY <2>2, <2>3 DEF SeenInv, LateInv, SeenIsWritten
<1>2. CleanInv /\ [Next]_vars => CleanInv'
  BY NextKeepsBatch, NextKeepsSeen, NextKeepsLate DEF CleanInv
<1>3. QED
  BY <1>1, <1>2, PTL DEF Spec

-----------------------------------------------------------------------------
(* The theorems *)

LEMMA Invariance ==
  ASSUME MaxRecords = 0
  PROVE  Spec => []IInv
<1>1. Init => IInv
  BY InitInv
<1>2. IInv /\ [Next]_vars => IInv'
  BY NextKeepsInv
<1>3. QED
  BY <1>1, <1>2, PTL DEF Spec

\* The variables of a table always have their types, capped or not.
THEOREM TypeCorrect ==
  Spec => []TypeOK
<1>1. CleanInv => TypeOK
  BY DEF CleanInv, BatchInv
<1>2. QED
  BY <1>1, CleanInvariance, PTL

\* Without a cap, whatever the events, their arrival, the other options and the
\* failures: an event searchable within the overlap is written or still to be read.
THEOREM LateArrivalsSurvive ==
  ASSUME MaxRecords = 0
  PROVE  Spec => []NoLateLoss
<1>1. IInv => NoLateLoss
  BY DEF IInv
<1>2. QED
  BY <1>1, Invariance, PTL

\* Without a cap a replayed batch writes every row of the batch that was planned,
\* from the start of the first committed batch on.
THEOREM ReplayIsComplete ==
  ASSUME MaxRecords = 0
  PROVE  Spec => []ReplayMissesNothing
<1>1. IInv => ReplayMissesNothing
  BY DEF IInv
<1>2. QED
  BY <1>1, Invariance, PTL

\* With a cap the same holds as long as no run has failed: a truncated batch
\* leaves nothing behind its cursor that was searchable when the run began.
THEOREM LateArrivalsSurviveTheCap ==
  Spec => [](failures = 0 => NoLateLoss)
<1>1. CleanInv => (failures = 0 => NoLateLoss)
  BY LateInvSuffices DEF CleanInv
<1>2. QED
  BY <1>1, CleanInvariance, PTL

\* The fingerprints of the committed offset are those of written rows, as long
\* as no run failed or none may fail with a batch that is logged: a replay can
\* read other rows than the fingerprints that are committed after it.
THEOREM SkipsOnlyWritten ==
  Spec => [](NoReplays => SeenIsWritten)
<1>1. CleanInv => (NoReplays => SeenIsWritten)
  BY DEF CleanInv, SeenInv
<1>2. QED
  BY <1>1, CleanInvariance, PTL

\* No row of a second that has not begun is ever written, capped or not.
THEOREM NoRowFromTheFuture ==
  Spec => []NoFutureRows
<1>1. CleanInv => NoFutureRows
  BY DEF CleanInv, BatchInv
<1>2. QED
  BY <1>1, CleanInvariance, PTL

\* Whatever run stops, its cursor is at the end of its range or its last batch
\* used up the cap: a truncated batch never ends a run, an exact fit may.
THEOREM StopsAtTheEndOrTheCap ==
  Spec => [][StopPaginating =>
               \/ committed.cursor >= initEnd
               \/ Capped /\ Cardinality(collected) >= MaxRecords]_vars
<1>1. CleanInv /\ StopPaginating =>
        \/ committed.cursor >= initEnd
        \/ Capped /\ Cardinality(collected) >= MaxRecords
  <2>1. SUFFICES ASSUME BatchInv, StopPaginating
                 PROVE  \/ committed.cursor >= initEnd
                        \/ Capped /\ Cardinality(collected) >= MaxRecords
    BY DEF CleanInv
  <2>2. phase = "returned" /\ result = committed
    BY <2>1 DEF StopPaginating
  <2>3. /\ startSeconds = StartSeconds(committed, initEnd) /\ startSeconds \in Nat
        /\ initEnd \in Nat /\ committed.cursor \in Int
        /\ committed.cursor < initEnd <=> startSeconds < initEnd
    BY <2>1, <2>2, StartOfBatch DEF BatchInv, StartInv, Reading
  <2>4. CASE startSeconds >= initEnd
    BY <2>3, <2>4
  <2>5. CASE ~ (startSeconds >= initEnd)
    BY <2>1, <2>2, <2>3, <2>5 DEF BatchInv, ReplyInv
  <2>6. QED
    BY <2>4, <2>5
<1>2. QED
  BY <1>1, CleanInvariance, PTL DEF Spec

\* Without a cap a run stops only when it has committed up to its snapshot.
THEOREM StopsCaughtUp ==
  ASSUME MaxRecords = 0
  PROVE  Spec => StopMeansCaughtUp
<1>1. ~ Capped
  BY DEF Capped
<1>2. QED
  BY <1>1, StopsAtTheEndOrTheCap, PTL DEF StopMeansCaughtUp

\* Without a cap the committed cursor only moves forward.
THEOREM CursorMovesForward ==
  ASSUME MaxRecords = 0
  PROVE  Spec => CursorNeverRegresses
<1>1. IInv /\ [Next]_vars => [committed'.cursor >= committed.cursor]_committed
  <2>1. SUFFICES ASSUME IInv, Next, committed' # committed
                 PROVE  committed'.cursor >= committed.cursor
    BY DEF vars, durable
  <2>2. Commit
    BY <2>1 DEF Next, Tick, Index, StartRun, Connector, ReadNothing, BeginRead, FetchSlice,
                Truncate, NextRound, FinishRead, Engine, StopPaginating, LogOffset,
                ReplayBatch, WriteRows, RunFails, durable
  <2>3. committed' = logged /\ Pending
    BY <2>1, <2>2 DEF Commit, IInv, OffsetInv
  <2>4. committed.cursor < logged.cursor
    BY <2>1, <2>3 DEF IInv, OffsetInv
  <2>5. committed.cursor \in Int /\ logged.cursor \in Int
    BY <2>1 DEF IInv, TypeOK, Offset
  <2>6. QED
    BY <2>3, <2>4, <2>5
<1>2. QED
  BY <1>1, Invariance, PTL DEF Spec, CursorNeverRegresses
=============================================================================
