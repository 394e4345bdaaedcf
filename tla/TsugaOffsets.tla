---------------------------- MODULE TsugaOffsets ----------------------------
(***************************************************************************)
(* The pure half of the Tsuga logs connector: which second a read starts   *)
(* at, how a time range is cut into windows, which fetched records are     *)
(* new, and the offset a read hands back.                                  *)
(*                                                                         *)
(* A log event stands for its canonical JSON text, the raw_json that is    *)
(* both the fingerprint's preimage and the primary key of the destination. *)
(* Times are whole seconds, the unit of the search API and of every offset.*)
(***************************************************************************)
EXTENDS Integers, FiniteSets, Sequences

CONSTANTS
  Event,            \* the log events the Tsuga account will ever hold
  Second,           \* Second[e]: event_time_sec of e
  Rank,             \* Rank[e]: place of e in the order (event_time_ms, fingerprint)
  InitialLookback,  \* option initial_lookback_seconds
  Overlap,          \* option incremental_overlap_seconds
  WindowSeconds,    \* option window_seconds
  MaxConcurrency,   \* option max_concurrency
  MaxRecords        \* option max_records_per_batch; 0 when the option is absent

\* The ranges _parse_positive_int, _parse_non_negative_int and
\* _parse_optional_positive_int enforce.
ASSUME OptionsAssumption ==
  /\ InitialLookback \in Nat \ {0}
  /\ Overlap \in Nat
  /\ WindowSeconds \in Nat \ {0}
  /\ MaxConcurrency \in Nat \ {0}
  /\ MaxRecords \in Nat

\* The sort key orders events by time first and never ties.
ASSUME EventAssumption ==
  /\ IsFiniteSet(Event)
  /\ Second \in [Event -> Nat]
  /\ Rank \in [Event -> Nat]
  /\ \A e, f \in Event : Rank[e] = Rank[f] => e = f
  /\ \A e, f \in Event : Second[e] < Second[f] => Rank[e] < Rank[f]

Capped == MaxRecords > 0

Larger(a, b) == IF a > b THEN a ELSE b
Smaller(a, b) == IF a < b THEN a ELSE b

-----------------------------------------------------------------------------
(* Offsets *)

Offset == [cursor : Nat \cup {-1}, seen : SUBSET Event]

\* The empty dictionary the stream reader starts from.
NoOffset == [cursor |-> -1, seen |-> {}]

WindowOffset(next) == [cursor |-> next, seen |-> {}]

\* records is never empty here; its last record carries the largest second.
BuildResumeOffset(records) ==
  LET last == CHOOSE e \in records : \A f \in records : Rank[f] <= Rank[e]
  IN  [cursor |-> Second[last],
       seen   |-> {e \in records : Second[e] = Second[last]}]

(* Mutants of StartSeconds. *)

\* Never rewinds.
StartSecondsNeverRewinding(start, end) ==
  IF start = NoOffset THEN Larger(0, end - InitialLookback) ELSE start.cursor

\* Rewinds a truncated offset and a caught-up one too.
StartSecondsAlwaysRewinding(start, end) ==
  IF start = NoOffset THEN Larger(0, end - InitialLookback)
  ELSE Larger(0, start.cursor - Overlap)

\* Rewinds from the end of the range in place of the cursor.
StartSecondsFromEnd(start, end) ==
  IF start = NoOffset THEN Larger(0, end - InitialLookback)
  ELSE IF start.cursor >= end \/ start.seen # {} THEN start.cursor
  ELSE Larger(0, end - Overlap)

\* Does not stop at the epoch.
StartSecondsBelowZero(start, end) ==
  IF start = NoOffset THEN end - InitialLookback
  ELSE IF start.cursor >= end \/ start.seen # {} THEN start.cursor
  ELSE start.cursor - Overlap

\* The first second a read with offset start fetches, when the run's snapshot
\* ends at end. A caught-up cursor and a truncated read are not rewound.
StartSeconds(start, end) ==
  IF start = NoOffset THEN Larger(0, end - InitialLookback)
  ELSE IF start.cursor >= end \/ start.seen # {} THEN start.cursor
  ELSE Larger(0, start.cursor - Overlap)

-----------------------------------------------------------------------------
(* Windows *)

\* At most MaxConcurrency consecutive half-open windows, cut off at end.
IterWindows(from, end) ==
  [i \in {k \in 1 .. MaxConcurrency : from + (k - 1) * WindowSeconds < end} |->
     [from |-> from + (i - 1) * WindowSeconds,
      to   |-> Smaller(from + i * WindowSeconds, end)]]

-----------------------------------------------------------------------------
(* Records *)

FilterRecordsFromOffset(records, cursor, seen) ==
  {e \in records : /\ Second[e] >= cursor
                   /\ ~ (Second[e] = cursor /\ e \in seen)}

\* filtered[:n] of the sorted list
FirstRecords(records, n) ==
  {e \in records : Cardinality({f \in records : Rank[f] < Rank[e]}) < n}
=============================================================================
