------------------------------ MODULE TsugaSync ------------------------------
(***************************************************************************)
(* One table of the Tsuga logs connector under a streaming engine.         *)
(*                                                                         *)
(* A run builds a connector, which fixes the end of its time range to the  *)
(* present second, and asks it for batches until a batch returns the       *)
(* offset it was given. A batch cuts the range into windows, fetches some  *)
(* of them at a time while the log index goes on growing, keeps what is    *)
(* new and stops at max_records_per_batch. The engine logs the offset of   *)
(* the batch, writes its rows to a table keyed by raw_json, and commits.   *)
(* A run that fails loses the connector; the next one replays the batch    *)
(* that was logged and not committed.                                      *)
(***************************************************************************)
EXTENDS TsugaOffsets

CONSTANTS
  MaxNow,         \* bound: the clock stops at this second
  MaxFailures,    \* bound: how many runs may fail
  FailurePhases   \* the phases of a run in which it may fail

ASSUME BoundsAssumption == MaxNow \in Nat /\ MaxFailures \in Nat

VARIABLES
  \* The Tsuga service.
  now,            \* the present second
  arrival,        \* when each event became searchable, or NotIndexed
  \* The engine's durable state.
  table,          \* the events in the destination table
  committed,      \* the offset of the last committed batch
  logged,         \* the offset of the last planned batch
  \* The run.
  phase,          \* what the engine does next, or "idle" between runs
  replaying,      \* the present batch was logged by an earlier run
  initEnd,        \* _init_end_exclusive_seconds of the run's connector
  \* The batch being read, the locals of collect_windowed_records.
  startSeconds,   \* where this batch starts
  nextStart,      \* next_start_seconds
  windows,        \* the windows being fetched
  reached,        \* reached[i]: window i is fetched up to this second
  fetched,        \* fetched[i]: the events window i has returned so far
  collected,      \* the new events kept so far
  result,         \* the offset read_table returned
  \* History, for the properties only.
  since,          \* where the first committed batch started
  planned,        \* the events read when the logged offset was planned
  failures        \* how many runs have failed

service == <<now, arrival>>
durable == <<table, committed, logged>>
run == <<phase, replaying, initEnd>>
batch == <<startSeconds, nextStart, windows, reached, fetched, collected, result>>
history == <<since, planned, failures>>
vars == <<service, durable, run, batch, history>>

NotIndexed == -1
Indexed == {e \in Event : arrival[e] # NotIndexed}
Pending == logged # committed
Phases == {"idle", "call", "fetch", "returned", "write", "commit"}

TypeOK ==
  /\ now \in Nat
  /\ arrival \in [Event -> Nat \cup {NotIndexed}]
  /\ table \subseteq Event
  /\ committed \in Offset /\ logged \in Offset
  /\ phase \in Phases
  /\ replaying \in BOOLEAN
  /\ initEnd \in Nat
  /\ startSeconds \in Nat /\ nextStart \in Nat
  /\ DOMAIN windows \subseteq 1 .. MaxConcurrency
  /\ windows \in [DOMAIN windows -> [from : Nat, to : Nat]]
  /\ reached \in [DOMAIN windows -> Nat]
  /\ fetched \in [DOMAIN windows -> SUBSET Event]
  /\ collected \subseteq Event
  /\ result \in Offset
  /\ since \in Nat
  /\ planned \subseteq Event
  /\ failures \in Nat

NoBatch ==
  /\ startSeconds = 0 /\ nextStart = 0
  /\ windows = <<>> /\ reached = <<>> /\ fetched = <<>>
  /\ collected = {} /\ result = NoOffset

Init ==
  /\ now = 0 /\ arrival = [e \in Event |-> NotIndexed]
  /\ table = {} /\ committed = NoOffset /\ logged = NoOffset
  /\ phase = "idle" /\ replaying = FALSE /\ initEnd = 0
  /\ NoBatch
  /\ since = 0 /\ planned = {} /\ failures = 0

-----------------------------------------------------------------------------
(* The service *)

Tick ==
  /\ now < MaxNow
  /\ now' = now + 1
  /\ UNCHANGED <<arrival, durable, run, batch, history>>

\* An event becomes searchable, possibly long after the second it is stamped
\* with, possibly before it when its sender's clock is ahead. Bound: nothing is
\* indexed in the last second, so that a run still follows every arrival.
Index(e) ==
  /\ now < MaxNow
  /\ arrival[e] = NotIndexed
  /\ arrival' = [arrival EXCEPT ![e] = now]
  /\ UNCHANGED <<now, durable, run, batch, history>>

\* What one search request for the seconds from .. to - 1 returns, when the
\* result is below the page size.
Search(from, to) == {e \in Indexed : from <= Second[e] /\ Second[e] < to}

-----------------------------------------------------------------------------
(* The connector *)

\* A mutant of StartRun: the snapshot ends one second in the future.
StartRunAhead ==
  /\ phase = "idle"
  /\ phase' = "call"
  /\ initEnd' = now + 2
  /\ replaying' = Pending
  /\ UNCHANGED <<service, durable, batch, history>>

\* A new connector, with its snapshot of the clock. A batch that was logged and
\* not committed is read again first.
StartRun ==
  /\ phase = "idle"
  /\ phase' = "call"
  /\ initEnd' = now + 1
  /\ replaying' = Pending
  /\ UNCHANGED <<service, durable, batch, history>>

\* The next round of windows, nothing of them fetched yet.
PlanWindows(from) ==
  /\ nextStart' = from
  /\ windows' = IterWindows(from, initEnd)
  /\ reached' = [i \in DOMAIN windows' |-> windows'[i].from]
  /\ fetched' = [i \in DOMAIN windows' |-> {}]

NoWindows == windows' = <<>> /\ reached' = <<>> /\ fetched' = <<>>

\* read_table on a cursor that is already at the end of the range.
ReadNothing ==
  /\ phase = "call"
  /\ StartSeconds(committed, initEnd) >= initEnd
  /\ phase' = "returned"
  /\ startSeconds' = StartSeconds(committed, initEnd)
  /\ result' = committed
  /\ UNCHANGED <<service, durable, replaying, initEnd, nextStart, windows, reached,
                 fetched, collected, history>>

\* read_table enters collect_windowed_records.
BeginRead ==
  /\ phase = "call"
  /\ StartSeconds(committed, initEnd) < initEnd
  /\ phase' = "fetch"
  /\ startSeconds' = StartSeconds(committed, initEnd)
  /\ PlanWindows(StartSeconds(committed, initEnd))
  /\ UNCHANGED <<service, durable, replaying, initEnd, collected, result, history>>

\* Window i gets the answer for its next slice of seconds; the windows of one
\* round are fetched by a thread each, in any order.
FetchSlice(i) ==
  /\ phase = "fetch"
  /\ \E to \in (reached[i] + 1) .. windows[i].to :
       /\ reached' = [reached EXCEPT ![i] = to]
       /\ fetched' = [fetched EXCEPT ![i] = @ \cup Search(reached[i], to)]
  /\ UNCHANGED <<service, durable, run, startSeconds, nextStart, windows, collected,
                 result, history>>

FetchDone == \A i \in DOMAIN windows : reached[i] = windows[i].to

\* The new records of this round: the fingerprints of the start offset apply
\* to the first window of the first round only.
Fresh ==
  UNION {FilterRecordsFromOffset(fetched[i], startSeconds,
           IF nextStart = startSeconds /\ i = 1 THEN committed.seen ELSE {}) :
         i \in DOMAIN windows}

Remaining == MaxRecords - Cardinality(collected)
RoundEnd == LET last == CHOOSE i \in DOMAIN windows : i + 1 \notin DOMAIN windows
            IN  windows[last].to

\* A mutant of Truncate: the fingerprints of records that were not kept.
TruncateSeeingAll ==
  /\ phase = "fetch" /\ FetchDone
  /\ Capped /\ Cardinality(Fresh) > Remaining
  /\ LET kept == collected \cup FirstRecords(Fresh, Remaining)
         resume == BuildResumeOffset(kept)
     IN  /\ collected' = kept
         /\ result' = [resume EXCEPT !.seen = {e \in Fresh : Second[e] = resume.cursor}]
  /\ phase' = "returned"
  /\ NoWindows
  /\ UNCHANGED <<service, durable, replaying, initEnd, startSeconds, nextStart, history>>

\* The round brings more than remaining records: keep the first of them and
\* return a resume offset.
Truncate ==
  /\ phase = "fetch" /\ FetchDone
  /\ Capped /\ Cardinality(Fresh) > Remaining
  /\ LET kept == collected \cup FirstRecords(Fresh, Remaining)
     IN  /\ collected' = kept
         /\ result' = BuildResumeOffset(kept)
  /\ phase' = "returned"
  /\ NoWindows
  /\ UNCHANGED <<service, durable, replaying, initEnd, startSeconds, nextStart, history>>

KeepAll ==
  /\ phase = "fetch" /\ FetchDone
  /\ Capped => Cardinality(Fresh) <= Remaining
  /\ collected' = collected \cup Fresh

MoreToRead ==
  /\ RoundEnd < initEnd
  /\ Capped => Cardinality(collected') < MaxRecords

\* The round fits and the range goes on.
NextRound ==
  /\ KeepAll /\ MoreToRead
  /\ PlanWindows(RoundEnd)
  /\ UNCHANGED <<service, durable, run, startSeconds, result, history>>

\* A mutant of FinishRead: an empty batch hands back where it started.
FinishReadAtStart ==
  /\ KeepAll /\ ~ MoreToRead
  /\ nextStart' = RoundEnd
  /\ result' = WindowOffset(IF collected' = {} THEN startSeconds ELSE RoundEnd)
  /\ phase' = "returned"
  /\ NoWindows
  /\ UNCHANGED <<service, durable, replaying, initEnd, startSeconds, history>>

\* The round fits and ends the batch, at the end of the range or because the
\* cap is used up exactly; the offset carries no fingerprint.
FinishRead ==
  /\ KeepAll /\ ~ MoreToRead
  /\ nextStart' = RoundEnd
  /\ result' = WindowOffset(RoundEnd)
  /\ phase' = "returned"
  /\ NoWindows
  /\ UNCHANGED <<service, durable, replaying, initEnd, startSeconds, history>>

-----------------------------------------------------------------------------
(* The engine *)

DropBatch ==
  /\ startSeconds' = 0 /\ nextStart' = 0
  /\ NoWindows
  /\ collected' = {} /\ result' = NoOffset

\* The batch returned the offset it was given: the run is over, and whatever
\* rows came with it are not written.
StopPaginating ==
  /\ phase = "returned" /\ ~ replaying
  /\ result = committed
  /\ phase' = "idle"
  /\ DropBatch
  /\ UNCHANGED <<service, durable, replaying, initEnd, since, planned, failures>>

\* A new offset goes to the offset log before any row is written.
LogOffset ==
  /\ phase = "returned" /\ ~ replaying
  /\ result # committed
  /\ logged' = result
  /\ planned' = collected
  /\ phase' = "write"
  /\ UNCHANGED <<service, table, committed, replaying, initEnd, batch, since, failures>>

\* readBetweenOffsets keeps the rows of the read and ignores both its offset
\* and the logged one.
ReplayBatch ==
  /\ phase = "returned" /\ replaying
  /\ phase' = "write"
  /\ UNCHANGED <<service, durable, replaying, initEnd, batch, history>>

\* The rows are merged into the table by raw_json.
WriteRows ==
  /\ phase = "write"
  /\ table' = table \cup collected
  /\ phase' = "commit"
  /\ UNCHANGED <<service, committed, logged, replaying, initEnd, batch, since, planned,
                 failures>>

Commit ==
  /\ phase = "commit"
  /\ committed' = logged
  /\ since' = IF committed = NoOffset THEN startSeconds ELSE since
  /\ phase' = "call" /\ replaying' = FALSE
  /\ DropBatch
  /\ UNCHANGED <<service, table, logged, initEnd, planned, failures>>

\* The process dies, or a request fails for good and read_table raises.
RunFails ==
  /\ phase \in FailurePhases \ {"idle"}
  /\ failures < MaxFailures
  /\ failures' = failures + 1
  /\ phase' = "idle" /\ replaying' = FALSE
  /\ DropBatch
  /\ UNCHANGED <<service, durable, initEnd, since, planned>>

-----------------------------------------------------------------------------

Connector ==
  \/ ReadNothing \/ BeginRead
  \/ \E i \in DOMAIN windows : FetchSlice(i)
  \/ Truncate \/ NextRound \/ FinishRead

Engine == StopPaginating \/ LogOffset \/ ReplayBatch \/ WriteRows \/ Commit

Next ==
  \/ Tick
  \/ \E e \in Event : Index(e)
  \/ StartRun
  \/ Connector
  \/ Engine
  \/ RunFails

Spec == Init /\ [][Next]_vars

\* Time passes, the pipeline is scheduled again, and a run that has not failed
\* goes on. Nothing says that an event is ever indexed or that a run fails.
Fairness ==
  /\ WF_vars(Tick)
  /\ WF_vars(StartRun)
  /\ WF_vars(Connector)
  /\ WF_vars(Engine)

FairSpec == Spec /\ Fairness

-----------------------------------------------------------------------------
(* Properties *)

\* The event was searchable less than incremental_overlap_seconds after its stamp.
InTime(e) == arrival[e] # NotIndexed /\ arrival[e] < Second[e] + Overlap

\* The first second the runs to come are still going to read.
ResumePoint ==
  IF committed.seen = {} THEN committed.cursor - Overlap
  ELSE Smaller(committed.cursor, initEnd - Overlap)

\* No late arrival is lost: an event that became searchable within the overlap
\* is in the table or is still ahead of the point from which later runs read
\* ("Each run rewinds the saved cursor by incremental_overlap_seconds to pick
\* up late-arriving events"). Events before the first batch do not count.
NoLateLoss ==
  \A e \in Event :
    InTime(e) /\ since <= Second[e] /\ Second[e] < ResumePoint => e \in table

\* Fingerprints are only skipped for rows that were written: the filter of the
\* next read drops nothing the table does not have.
SeenIsWritten == committed.seen \subseteq table

\* A replay may read another batch than the one that was planned, yet every
\* planned event from the first committed batch's start on reaches the table.
ReplayMissesNothing ==
  ~ Pending => \A e \in planned : since <= Second[e] => e \in table

\* The table never holds an event of a second that has not begun.
NoFutureRows == \A e \in table : Second[e] <= now

\* Commits never move the cursor back.
CursorNeverRegresses == [][committed'.cursor >= committed.cursor]_committed

\* "Pagination stops when the returned offset equals start_offset (i.e., no
\* more data)": a run that stops has committed up to its snapshot.
StopMeansCaughtUp ==
  [][StopPaginating => committed.cursor >= initEnd]_vars

\* A replay delivers what the planned batch read ("it is only necessary that no
\* new changes are missed"), or leaves it ahead of the point from which later
\* batches read.
ReplayDeliversThePlan ==
  ~ Pending => \A e \in planned : Second[e] < ResumePoint => e \in table

\* A run that does not fail ends: paging reaches an offset it returns twice.
RunEnds == phase # "idle" ~> phase = "idle"

\* Every in-time event is written in the end, or is older than the first batch.
EventuallyDelivered ==
  \A e \in Event : InTime(e) ~> (e \in table \/ Second[e] < since)
=============================================================================
