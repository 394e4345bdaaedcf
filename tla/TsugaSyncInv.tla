---------------------------- MODULE TsugaSyncInv ----------------------------
(***************************************************************************)
(* The inductive invariants of TsugaSync: IInv when batches are not        *)
(* capped, BatchInv with or without a cap, and the two that hold beside it *)
(* while no run has failed.                                                *)
(***************************************************************************)
EXTENDS TsugaSync

\* The events a batch of the present run cannot miss: those searchable before
\* the second the connector was built in, and, when the batch is a replay, those
\* its first reading returned.
Known ==
  {e \in Indexed : arrival[e] < initEnd - 1 \/ (replaying /\ e \in planned)}

Covers(events, from, to) ==
  \A e \in Known : from <= Second[e] /\ Second[e] < to => e \in events

Reading == phase \in {"fetch", "returned", "write", "commit"}

\* Clocks: the past is before the present, the run's snapshot included.
ClockInv ==
  /\ \A e \in Event : arrival[e] <= now
  /\ initEnd <= now + 1
  /\ phase # "idle" => initEnd >= 1

\* Offsets: none carries a fingerprint, the log is ahead of the commits exactly
\* while a batch is pending.
OffsetInv ==
  /\ committed.seen = {} /\ logged.seen = {}
  /\ logged.cursor <= now + 1
  /\ phase # "idle" => logged.cursor <= initEnd
  /\ Pending => committed.cursor < logged.cursor
  /\ phase \in {"write", "commit"} => Pending
  /\ phase \in {"call", "fetch", "returned"} => (replaying <=> Pending)
  /\ phase = "idle" => ~ replaying

\* The planned events lie in the range of the pending batch.
PlannedInv ==
  /\ planned \subseteq Indexed
  /\ \A e \in planned : Second[e] < logged.cursor
  /\ Pending /\ committed # NoOffset =>
       \A e \in planned : Second[e] >= committed.cursor - Overlap

StartInv ==
  Reading => startSeconds = StartSeconds(committed, initEnd)

FetchInv ==
  phase = "fetch" =>
    /\ startSeconds <= nextStart /\ nextStart < initEnd
    /\ windows = IterWindows(nextStart, initEnd)
    /\ \A i \in DOMAIN windows : reached[i] \in windows[i].from .. windows[i].to
    /\ \A i \in DOMAIN windows : Covers(fetched[i], windows[i].from, reached[i])
    /\ \A i \in DOMAIN windows : \A e \in fetched[i] :
         e \in Indexed /\ Second[e] < initEnd
    /\ Covers(collected, startSeconds, nextStart)

\* Whatever was kept is in the range of the batch and was searchable.
CollectedInv ==
  /\ phase \in {"idle", "call"} => collected = {}
  /\ \A e \in collected :
       e \in Indexed /\ startSeconds <= Second[e] /\ Second[e] < initEnd

ReturnedInv ==
  phase = "returned" =>
    \/ startSeconds >= initEnd /\ result = committed
    \/ startSeconds < initEnd /\ result = WindowOffset(initEnd)
       /\ Covers(collected, startSeconds, initEnd)

WriteInv ==
  /\ phase = "write" => Covers(collected, startSeconds, initEnd)
  /\ phase = "commit" => Covers(table, startSeconds, initEnd)
  /\ phase = "write" /\ ~ replaying => planned = collected
  /\ phase = "commit" /\ ~ replaying => planned \subseteq table

IInv ==
  /\ TypeOK
  /\ ClockInv /\ OffsetInv /\ PlannedInv
  /\ StartInv /\ FetchInv /\ CollectedInv /\ ReturnedInv /\ WriteInv
  /\ NoLateLoss /\ ReplayMissesNothing /\ NoFutureRows

-----------------------------------------------------------------------------
(* With or without a cap. *)

\* The last batch is read and written by one run: nothing was replayed.
NoReplays == failures = 0 \/ FailurePhases \cap {"write", "commit"} = {}

\* An offset is the empty one or names a second of the run's range or its end;
\* one with fingerprints names a second that has begun.
Point(off) ==
  /\ off # NoOffset => off.cursor \in Nat
  /\ off.cursor <= now + 1
  /\ off.seen # {} => off.cursor <= now
  /\ phase # "idle" => off.cursor <= initEnd /\ (off.seen # {} => off.cursor < initEnd)

PointInv == Point(committed) /\ Point(logged)

\* A round that is being fetched: its windows lie before the end of the range
\* and after what the rounds before it kept, which leaves room under the cap.
RoundInv ==
  phase = "fetch" =>
    /\ startSeconds <= nextStart /\ nextStart < initEnd
    /\ windows = IterWindows(nextStart, initEnd)
    /\ \A i \in DOMAIN windows : reached[i] \in windows[i].from .. windows[i].to
    /\ \A i \in DOMAIN windows : Covers(fetched[i], windows[i].from, reached[i])
    /\ \A i \in DOMAIN windows : \A e \in fetched[i] :
         e \in Indexed /\ windows[i].from <= Second[e] /\ Second[e] < windows[i].to
    /\ Covers(collected \cup committed.seen, startSeconds, nextStart)
    /\ \A e \in collected : Second[e] < nextStart
    /\ Capped => Cardinality(collected) < MaxRecords

\* A batch that read something hands back an offset up to which it read all;
\* a truncated one names kept events and another offset than it was given, one
\* without fingerprints ends the range or used up the cap.
ReplyInv ==
  phase = "returned" =>
    \/ startSeconds >= initEnd /\ result = committed
    \/ /\ startSeconds < initEnd
       /\ result.cursor \in Nat /\ result.cursor <= initEnd
       /\ Covers(collected \cup committed.seen, startSeconds, result.cursor)
       /\ result.seen \subseteq collected
       /\ result.seen # {} => result # committed /\ result.cursor < initEnd
       /\ result.seen = {} =>
            \/ result.cursor = initEnd
            \/ Capped /\ Cardinality(collected) >= MaxRecords

BatchInv ==
  /\ TypeOK
  /\ ClockInv /\ PointInv /\ StartInv /\ RoundInv /\ CollectedInv /\ ReplyInv
  /\ planned \subseteq Indexed
  /\ NoFutureRows

\* The fingerprints of the pending batch are among the rows it writes.
SeenInv ==
  /\ ~ replaying
  /\ Pending => phase \in {"write", "commit"}
  /\ phase = "write" => logged.seen \subseteq collected
  /\ phase = "commit" => logged.seen \subseteq table
  /\ SeenIsWritten

\* Up to the committed cursor, or up to the overlap before it when the next
\* batch rewinds, the table has what was searchable when the run began.
Swept ==
  \A e \in Event :
    /\ InTime(e) /\ since <= Second[e]
    /\ IF committed.seen = {} THEN Second[e] < committed.cursor - Overlap
       ELSE Second[e] < committed.cursor /\ arrival[e] < initEnd - 1
    => e \in table

LateInv ==
  /\ phase = "idle" => committed.seen = {}
  /\ phase \in {"write", "commit"} => startSeconds < initEnd
  /\ phase = "write" => Covers(collected \cup committed.seen, startSeconds, logged.cursor)
  /\ phase = "commit" => Covers(table, startSeconds, logged.cursor)
  /\ Swept

CleanInv ==
  /\ BatchInv
  /\ NoReplays => SeenInv
  /\ failures = 0 => LateInv
=============================================================================
