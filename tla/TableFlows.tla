------------------------------ MODULE TableFlows ------------------------------
(***************************************************************************)
(* The flows of one table: the readers of the data source, a connector     *)
(* over the simulated source behind them, the engine that drives them, and *)
(* the destination they write to.                                          *)
(*                                                                         *)
(* A streaming flow logs the end of a batch before it reads and writes it, *)
(* and commits it afterwards. A simple reader learns the end by reading;   *)
(* when the batch is read again its end is not looked at. A partitioned    *)
(* reader learns the end first and reads every partition up to it. The     *)
(* batch reader walks all pages of all partitions and starts over when it  *)
(* fails.                                                                  *)
(***************************************************************************)
EXTENDS SimulatedSource

CONSTANTS
  Partition,    \* the parts a partitioned connector divides the keys into
  Connectors,   \* the tables considered, each partitioned or not
  MaxFailures   \* bound: how often a flow fails

ASSUME FlowsAssumption ==
  /\ UNION Partition = Key
  /\ \A p, q \in Partition : p # q => p \cap q = {}
  /\ Connectors \subseteq Tables \X BOOLEAN
  /\ MaxFailures \in Nat

VARIABLES
  partitioned,  \* whether the connector supports partitions of this table
  phase,        \* of each flow
  committed,    \* of each flow: the offset it has read up to, in the commit log
  end,          \* of each flow: the end of the batch in hand
  batch,        \* of each flow: the rows of the batch in hand
  parts,        \* of each flow: the partitions still to read
  page,         \* the page of each partition the batch reader reads next
  replica,      \* the destination: for each key its last change
  copies,       \* the destination of an append flow: the copies of each row
  failures,     \* how many failures there have been
  posted,       \* every row there ever was
  known         \* the rows there were when the batch reader began

vars == <<sourceVars, partitioned, phase, committed, end, batch, parts, page,
          replica, copies, failures, posted, known>>

Flow == {"upsert", "delete", "append", "snapshot"}
Streaming == Flow \ {"snapshot"}

\* The flows of a table, as ingest declares them for its ingestion type.
FlowsOf(t) ==
  CASE t = "products" -> {"snapshot"}
    [] t = "events" -> {"append"}
    [] t = "users" -> {"upsert"}
    [] t = "orders" -> {"upsert", "delete"}

Phase == {"idle",      \* nothing is in hand
          "found",     \* the end of the next batch is known
          "logged",    \* it is in the offset log, the rows are not in hand
          "reading",   \* partitions are being read
          "ready",     \* the rows are in hand
          "written"}   \* and in the destination

TypeOK ==
  /\ SourceTypeOK
  /\ partitioned \in BOOLEAN
  /\ phase \in [Flow -> Phase]
  /\ committed \in [Flow -> Time] /\ end \in [Flow -> Time]
  /\ batch \in [Flow -> SUBSET Row]
  /\ parts \in [Flow -> SUBSET (Partition \cup {Key})]
  /\ page \in [Partition \cup {Key} -> Nat \ {0}]
  /\ replica \in [Key -> [seq : Time, deleted : BOOLEAN]]
  /\ copies \in [Row -> Nat]
  /\ failures \in 0 .. MaxFailures /\ posted \subseteq Row /\ known \subseteq posted
  /\ \A f \in Streaming : /\ committed[f] <= clock
                          /\ phase[f] = "idle" => batch[f] = {}
                          /\ phase[f] # "idle" => committed[f] < end[f] /\ end[f] <= clock

Init ==
  /\ SourceInit
  /\ partitioned \in BOOLEAN /\ <<table, partitioned>> \in Connectors
  /\ phase = [f \in Flow |-> "idle"]
  /\ committed = [f \in Flow |-> 0] /\ end = [f \in Flow |-> 0]
  /\ batch = [f \in Flow |-> {}] /\ parts = [f \in Flow |-> {}]
  /\ page = [p \in Partition \cup {Key} |-> 1]
  /\ replica = [k \in Key |-> [seq |-> 0, deleted |-> TRUE]]
  /\ copies = [r \in Row |-> 0]
  /\ failures = 0 /\ posted = GetAllRecords /\ known = {}

-----------------------------------------------------------------------------
(* The connector *)

LastSeq(rows, start) ==
  IF rows = {} THEN start
  ELSE (CHOOSE r \in rows : \A s \in rows : s.seq <= r.seq).seq

\* read_table and read_table_deletes answer with one page.
ReadTable(start) == PageRecords(ListRecords(start), 1)
ReadTableDeletes(start) == PageRecords(ListDeletedRecords(start), 1)

\* latest_offset and read_partition know nothing of deletes.
LatestOffset(start) == LastSeq(ListRecords(start), start)
ReadPartition(p, start, stop) ==
  {r \in ListRecords(start) : r.seq <= stop /\ r.key \in p}

-----------------------------------------------------------------------------
(* The stream readers *)

\* A mutant of SimpleRead: the option of the delete flow is ignored.
SimpleReadOfRecords(f, start) == ReadTable(start)

SimpleRead(f, start) == IF f = "delete" THEN ReadTableDeletes(start) ELSE ReadTable(start)

\* A mutant of ReadAgainFrom: the batch is read from its end on.
ReadAgainFromEnd(f) == end[f]

ReadAgainFrom(f) == committed[f]

\* The end of the next batch, and its rows if the reader had to read for it.
NextEnd(f) ==
  IF partitioned THEN LatestOffset(committed[f])
  ELSE LastSeq(SimpleRead(f, committed[f]), committed[f])

Latest(f) ==
  /\ phase[f] = "idle" /\ NextEnd(f) # committed[f]
  /\ end' = [end EXCEPT ![f] = NextEnd(f)]
  /\ batch' = [batch EXCEPT ![f] = IF partitioned THEN {} ELSE SimpleRead(f, committed[f])]
  /\ phase' = [phase EXCEPT ![f] = "found"]
  /\ UNCHANGED <<sourceVars, partitioned, committed, parts, page, replica, copies,
                 failures, posted, known>>

\* An offset that has not moved starts no batch.
NothingNew(f) ==
  /\ phase[f] = "idle" /\ NextEnd(f) = committed[f]
  /\ UNCHANGED vars

LogOffset(f) ==
  /\ phase[f] = "found"
  /\ phase' = [phase EXCEPT ![f] = IF partitioned THEN "logged" ELSE "ready"]
  /\ UNCHANGED <<sourceVars, partitioned, committed, end, batch, parts, page, replica,
                 copies, failures, posted, known>>

\* The simple reader reads from the start again and ignores the end.
ReadBetweenOffsets(f) ==
  /\ phase[f] = "logged" /\ ~ partitioned
  /\ batch' = [batch EXCEPT ![f] = SimpleRead(f, ReadAgainFrom(f))]
  /\ phase' = [phase EXCEPT ![f] = "ready"]
  /\ UNCHANGED <<sourceVars, partitioned, committed, end, parts, page, replica, copies,
                 failures, posted, known>>

PlanStream(f) ==
  /\ phase[f] = "logged" /\ partitioned
  /\ parts' = [parts EXCEPT ![f] = Partition]
  /\ phase' = [phase EXCEPT ![f] = "reading"]
  /\ UNCHANGED <<sourceVars, partitioned, committed, end, batch, page, replica, copies,
                 failures, posted, known>>

\* Executors read the partitions, each at its own moment.
ReadStream(f, p) ==
  /\ phase[f] = "reading" /\ p \in parts[f]
  /\ batch' = [batch EXCEPT ![f] = @ \cup ReadPartition(p, committed[f], end[f])]
  /\ parts' = [parts EXCEPT ![f] = @ \ {p}]
  /\ phase' = [phase EXCEPT ![f] = IF parts[f] = {p} THEN "ready" ELSE "reading"]
  /\ UNCHANGED <<sourceVars, partitioned, committed, end, page, replica, copies,
                 failures, posted, known>>

-----------------------------------------------------------------------------
(* The batch reader *)

\* One partition, the whole table, where there are none.
BatchPartitions(supported) == IF supported THEN Partition ELSE {Key}

\* An exception of get_partitions is swallowed.
PlanBatch(supported) ==
  /\ phase["snapshot"] = "idle" /\ (supported => partitioned)
  /\ parts' = [parts EXCEPT !["snapshot"] = BatchPartitions(supported)]
  /\ page' = [p \in DOMAIN page |-> 1]
  /\ phase' = [phase EXCEPT !["snapshot"] = "reading"]
  /\ known' = GetAllRecords
  /\ UNCHANGED <<sourceVars, partitioned, committed, end, batch, replica, copies,
                 failures, posted>>

\* The connector follows the pages of a partition, one request at a time.
ReadPage(p) ==
  LET rows == {r \in GetAllRecords : r.key \in p}
      next == NextPage(rows, page[p])
  IN  /\ phase["snapshot"] = "reading" /\ p \in parts["snapshot"]
      /\ batch' = [batch EXCEPT !["snapshot"] = @ \cup PageRecords(rows, page[p])]
      /\ page' = IF next = NoPage THEN page ELSE [page EXCEPT ![p] = next]
      /\ parts' = IF next = NoPage THEN [parts EXCEPT !["snapshot"] = @ \ {p}] ELSE parts
      /\ phase' = IF next = NoPage /\ parts["snapshot"] = {p}
                  THEN [phase EXCEPT !["snapshot"] = "ready"] ELSE phase
      /\ UNCHANGED <<sourceVars, partitioned, committed, end, replica, copies, failures,
                     posted, known>>

-----------------------------------------------------------------------------
(* The destination and the engine *)

\* apply_changes keeps the change with the latest time of each key.
Applied(rows, deleted) ==
  [k \in Key |->
     LET last == LastSeq({r \in rows : r.key = k}, 0)
     IN  IF last > replica[k].seq THEN [seq |-> last, deleted |-> deleted] ELSE replica[k]]

\* apply_changes_from_snapshot makes the destination equal to the snapshot.
Replaced(rows) ==
  [k \in Key |-> [seq |-> LastSeq({r \in rows : r.key = k}, 0),
                  deleted |-> k \notin {r.key : r \in rows}]]

Write(f) ==
  /\ phase[f] = "ready"
  /\ replica' = CASE f = "snapshot" -> Replaced(batch[f])
                  [] f = "append" -> replica
                  [] OTHER -> Applied(batch[f], f = "delete")
  /\ copies' = IF f = "append"
               THEN [r \in Row |-> copies[r] + (IF r \in batch[f] THEN 1 ELSE 0)]
               ELSE copies
  /\ phase' = [phase EXCEPT ![f] = "written"]
  /\ UNCHANGED <<sourceVars, partitioned, committed, end, batch, parts, page, failures,
                 posted, known>>

Commit(f) ==
  /\ phase[f] = "written"
  /\ committed' = IF f = "snapshot" THEN committed ELSE [committed EXCEPT ![f] = end[f]]
  /\ batch' = [batch EXCEPT ![f] = {}]
  /\ phase' = [phase EXCEPT ![f] = "idle"]
  /\ UNCHANGED <<sourceVars, partitioned, end, parts, page, replica, copies, failures,
                 posted, known>>

\* A flow dies: a request failed for good, or a row did not parse. A batch in
\* the offset log is run again; one that was written is not written twice.
Fail(f) ==
  /\ phase[f] \in {"found", "reading", "ready"} /\ failures < MaxFailures
  /\ failures' = failures + 1
  /\ phase' = [phase EXCEPT ![f] = IF phase[f] = "found" \/ f = "snapshot" THEN "idle"
                                   ELSE "logged"]
  /\ batch' = [batch EXCEPT ![f] = {}]
  /\ parts' = [parts EXCEPT ![f] = {}]
  /\ UNCHANGED <<sourceVars, partitioned, committed, end, page, replica, copies, posted, known>>

-----------------------------------------------------------------------------

Stream(f) ==
  \/ Latest(f) \/ NothingNew(f) \/ LogOffset(f) \/ ReadBetweenOffsets(f)
  \/ PlanStream(f) \/ \E p \in Partition : ReadStream(f, p)

Batch ==
  \/ \E supported \in BOOLEAN : PlanBatch(supported)
  \/ \E p \in Partition \cup {Key} : ReadPage(p)

Run(f) ==
  /\ f \in FlowsOf(table)
  /\ \/ f \in Streaming /\ Stream(f)
     \/ f = "snapshot" /\ Batch
     \/ Write(f) \/ Commit(f)

Change ==
  /\ SourceNext
  /\ posted' = posted \cup {[key |-> k, seq |-> records'[k]] : k \in {l \in Key : records'[l] # 0}}
  /\ UNCHANGED <<partitioned, phase, committed, end, batch, parts, page, replica, copies,
                 failures, known>>

Next == Change \/ \E f \in Flow : Run(f) \/ Fail(f)

Spec == Init /\ [][Next]_vars /\ \A f \in Flow : WF_vars(Run(f))

-----------------------------------------------------------------------------
(* Properties *)

Rows(f) == IF f = "delete" THEN tombstones ELSE GetAllRecords

Delivered(f, r) == IF f = "append" THEN copies[r] > 0 ELSE replica[r.key].seq >= r.seq

\* Whatever is read again after a failure and however rows move between the
\* reads: a change the committed offset has passed is in the destination, or
\* one of the same key that came after it.
NothingMissed ==
  \A f \in FlowsOf(table) \cap Streaming : \A r \in Rows(f) :
    r.seq <= committed[f] => Delivered(f, r)

\* The destination shows no row that never was, and has deleted only what the
\* source has deleted, at the time it did.
OnlyRealChanges ==
  table # "products" =>
    /\ \A k \in Key : LET change == [key |-> k, seq |-> replica[k].seq]
                      IN  change.seq # 0 =>
                            IF replica[k].deleted THEN change \in tombstones
                                                  ELSE change \in posted
    /\ \A r \in Row : copies[r] > 0 => r \in posted

\* Through a partitioned reader, whose batches end where they were planned to
\* end, an append flow writes no row twice.
AppendedOnce == partitioned => \A r \in Row : copies[r] <= 1

\* Records that are added while the pages are followed only push others to
\* later pages: a snapshot has every record there was when its read began, at
\* least as it was then.
SnapshotIsComplete ==
  phase["snapshot"] = "ready" =>
    \A r \in known : \E s \in batch["snapshot"] : s.key = r.key /\ s.seq >= r.seq

Replicated ==
  IF table = "events" THEN \A r \in GetAllRecords : copies[r] > 0
  ELSE \A k \in Key : IF records[k] = 0 THEN replica[k].deleted
                      ELSE replica[k] = [seq |-> records[k], deleted |-> FALSE]

\* Once the source has come to rest, the destination becomes and stays equal
\* to it, although the flows of a table run on their own.
Converges == <>[]Replicated
=============================================================================
