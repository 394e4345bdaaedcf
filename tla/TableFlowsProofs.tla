--------------------------- MODULE TableFlowsProofs ---------------------------
(***************************************************************************)
(* The flows of a table, for any set of keys, any page size, any division  *)
(* into partitions, any changes of the source and any failures of the      *)
(* flows: a committed offset passes nothing that is not delivered, the     *)
(* destination shows only what was, an append flow through partitions      *)
(* writes no row twice, and a snapshot has every record of its beginning.  *)
(***************************************************************************)
EXTENDS TableFlows, FiniteSetTheorems, TLAPS

-----------------------------------------------------------------------------
(* Sets of rows *)

LEMMA RowsAreFinite ==
  ASSUME NEW rows \in SUBSET Row
  PROVE  IsFiniteSet(rows)
<1> DEFINE Pair == Key \X Time
           pair == [r \in Row |-> <<r.key, r.seq>>]
<1>1. IsFiniteSet(Pair)
  <2>1. IsFiniteSet(Time)
    BY SourceAssumption, FS_Interval DEF Time
  <2>2. QED
    BY <2>1, SourceAssumption, FS_Product
<1>2. pair \in Injection(Row, Pair)
  <2>1. pair \in [Row -> Pair]
    BY DEF Row
  <2>2. \A r, s \in Row : pair[r] = pair[s] => r = s
    BY DEF Row
  <2>3. QED
    BY <2>1, <2>2 DEF Injection, IsInjective
<1>3. IsFiniteSet(Row)
  <2> HIDE DEF Pair, pair
  <2>1. QED
    BY <1>1, <1>2, FS_Injection
<1>4. QED
  BY <1>3, FS_Subset

\* Rows that there are any of have a last one: the one the fewest are not before.
LEMMA RowsHaveALast ==
  ASSUME NEW rows \in SUBSET Row, rows # {}
  PROVE  \E r \in rows : \A s \in rows : s.seq <= r.seq
<1> DEFINE From(r) == {s \in rows : s.seq >= r.seq}
           tails == {From(r) : r \in rows}
<1>1. IsWellFoundedOn(StrictSubsetOrdering(rows), SUBSET rows)
  BY RowsAreFinite, FS_StrictSubsetOrderingWellFounded, FS_FiniteSubsetsOfFinite
<1>2. tails \subseteq SUBSET rows /\ tails # {}
  OBVIOUS
<1>3. PICK tail \in tails : \A t \in tails : <<t, tail>> \notin StrictSubsetOrdering(rows)
  <2> HIDE DEF tails
  <2>1. QED
    BY <1>1, <1>2, WFMin
<1>4. PICK r \in rows : tail = From(r)
  OBVIOUS
<1>5. ASSUME NEW s \in rows, ~ (s.seq <= r.seq)
      PROVE  FALSE
  <2>1. r.seq \in Nat /\ s.seq \in Nat /\ \A x \in rows : x.seq \in Nat
    BY DEF Row, Time
  <2>2. From(s) \subseteq From(r)
    BY <1>5, <2>1
  <2>3. r \in From(r) /\ r \notin From(s)
    BY <1>5, <2>1
  <2>4. <<From(s), From(r)>> \in StrictSubsetOrdering(rows)
    BY <2>2, <2>3 DEF StrictSubsetOrdering
  <2>5. QED
    BY <1>3, <1>4, <2>4
<1>6. QED
  BY <1>5

\* LastSeq answers with the time of the last row.
LEMMA LastSeqIsTheLast ==
  ASSUME NEW rows \in SUBSET Row, NEW start \in Time
  PROVE  /\ LastSeq(rows, start) \in Time
         /\ rows = {} => LastSeq(rows, start) = start
         /\ rows # {} => \E r \in rows : r.seq = LastSeq(rows, start)
         /\ \A s \in rows : s.seq <= LastSeq(rows, start)
<1>1. CASE rows = {}
  BY <1>1 DEF LastSeq
<1>2. CASE rows # {}
  <2> DEFINE last == CHOOSE r \in rows : \A s \in rows : s.seq <= r.seq
  <2>1. last \in rows /\ \A s \in rows : s.seq <= last.seq
    BY <1>2, RowsHaveALast
  <2>2. LastSeq(rows, start) = last.seq
    BY <1>2 DEF LastSeq
  <2> HIDE DEF last
  <2>3. last.seq \in Time
    BY <2>1 DEF Row
  <2>4. QED
    BY <1>2, <2>1, <2>2, <2>3
<1>3. QED
  BY <1>1, <1>2

-----------------------------------------------------------------------------
(* Pages *)

LEMMA StartInRange ==
  ASSUME NEW rows \in SUBSET Row, NEW r \in Row
  PROVE  /\ Start(r, rows) \in Nat /\ Cardinality(rows) \in Nat
         /\ r \in rows => Start(r, rows) < Cardinality(rows)
<1> DEFINE earlier == {s \in rows : Before(s, r)}
<1>1. IsFiniteSet(rows) /\ earlier \in SUBSET rows
  BY RowsAreFinite
<1>2. /\ IsFiniteSet(earlier) /\ Cardinality(earlier) <= Cardinality(rows)
      /\ Cardinality(rows) = Cardinality(earlier) => rows = earlier
  BY <1>1, FS_Subset
<1>3. Cardinality(rows) \in Nat /\ Cardinality(earlier) \in Nat
  BY <1>1, <1>2, FS_CardinalityType
<1>4. r \notin earlier
  <2>1. r.key \in Nat /\ r.seq \in Nat
    <3>1. r.key \in Key /\ r.seq \in Time
      BY DEF Row
    <3>2. Key \subseteq Nat
      BY SourceAssumption
    <3>3. r.seq \in Nat
      BY <3>1 DEF Time
    <3>4. QED
      BY <3>1, <3>2, <3>3
  <2>2. ~ Before(r, r)
    BY <2>1 DEF Before
  <2>3. QED
    BY <2>2
<1>5. Start(r, rows) = Cardinality(earlier)
  BY DEF Start
<1> HIDE DEF earlier
<1>6. QED
  BY <1>2, <1>3, <1>4, <1>5

\* A row before which there are no others than before another is no later.
LEMMA StartIsMonotone ==
  ASSUME NEW rows \in SUBSET Row, NEW more \in SUBSET Row, NEW r, NEW q,
         {s \in rows : Before(s, r)} \subseteq {s \in more : Before(s, q)}
  PROVE  Start(r, rows) <= Start(q, more)
<1>1. IsFiniteSet({s \in more : Before(s, q)})
  BY RowsAreFinite
<1>2. QED
  BY <1>1, FS_Subset DEF Start

LEMMA FirstPage ==
  ASSUME NEW rows \in SUBSET Row
  PROVE  PageRecords(rows, 1) = {r \in rows : Start(r, rows) < MaxPageSize}
<1>1. \A r \in rows : Start(r, rows) \in Nat
  BY StartInRange
<1>2. 1 - 1 = 0 /\ 0 * MaxPageSize = 0 /\ 1 * MaxPageSize = MaxPageSize
  BY SourceAssumption
<1>3. QED
  BY <1>1, <1>2, SourceAssumption DEF PageRecords

\* A page sorted by time has every row before one that is in it.
LEMMA FirstPageIsAPrefix ==
  ASSUME HasCursor(table), NEW rows \in SUBSET Row, NEW r \in rows,
         NEW s \in PageRecords(rows, 1), r.seq <= s.seq
  PROVE  r \in PageRecords(rows, 1)
<1>1. s \in rows /\ Start(s, rows) < MaxPageSize
  BY FirstPage
<1>2. {q \in rows : Before(q, r)} \subseteq {q \in rows : Before(q, s)}
  BY <1>1 DEF Before, Row, Time
<1>3. Start(r, rows) <= Start(s, rows)
  BY <1>2, StartIsMonotone
<1>4. Start(r, rows) \in Nat /\ Start(s, rows) \in Nat
  BY <1>1, StartInRange
<1>5. QED
  BY <1>1, <1>3, <1>4, FirstPage, SourceAssumption

\* Rows that stay while no other comes before them stay on the first page.
LEMMA FirstPageKeeps ==
  ASSUME NEW rows \in SUBSET Row, NEW rest \in SUBSET Row,
         NEW r \in PageRecords(rows, 1), r \in rest,
         \A s \in rest : Before(s, r) => s \in rows
  PROVE  r \in PageRecords(rest, 1)
<1>1. r \in rows /\ Start(r, rows) < MaxPageSize
  BY FirstPage
<1>2. Start(r, rest) <= Start(r, rows)
  BY StartIsMonotone
<1>3. Start(r, rest) \in Nat /\ Start(r, rows) \in Nat
  BY <1>1, StartInRange
<1>4. QED
  BY <1>1, <1>2, <1>3, FirstPage, SourceAssumption

-----------------------------------------------------------------------------
(* The inductive invariant *)

\* The table's deletes, if it has any, are not read by partitions: a partitioned
\* reader reads records where it should read tombstones.
NoPartitionedDeletes == ~ (table = "orders" /\ partitioned)

Active == FlowsOf(table) \cap Streaming

\* The rows of flow f between its committed offset and the end of its batch.
Ahead(f) == {r \in Rows(f) : committed[f] < r.seq /\ r.seq <= end[f]}

\* What a simple reader would be answered now.
Listed(f) == IF f = "delete" THEN ListDeletedRecords(committed[f])
             ELSE ListRecords(committed[f])

\* Only the flows of the table run, and no row is of a time to come.
SourceInv ==
  /\ <<table, partitioned>> \in Connectors
  /\ \A f \in Flow \ FlowsOf(table) : phase[f] = "idle"
  /\ \A k \in Key : records[k] <= clock
  /\ \A r \in tombstones : r.seq <= clock
  /\ GetAllRecords \subseteq posted

\* The rows in hand are rows of the source, of the planned range if the reader
\* has planned it.
BatchInv(f) ==
  /\ batch[f] \subseteq IF f = "delete" THEN tombstones ELSE posted
  /\ partitioned => \A r \in batch[f] : committed[f] < r.seq /\ r.seq <= end[f]

\* One page still holds whatever is left of a batch that one page held, so that
\* it can be read again.
PageInv(f) ==
  ~ partitioned =>
    /\ phase[f] # "reading"
    /\ phase[f] # "idle" => Ahead(f) \subseteq PageRecords(Listed(f), 1)
    /\ phase[f] = "found" => Ahead(f) \subseteq batch[f]

\* The rows of a batch are in the partitions still to read, then in hand, then
\* in the destination; those of earlier batches are in the destination.
AheadInv(f) ==
  /\ phase[f] = "reading" =>
       \A r \in Ahead(f) : r \in batch[f] \/ \E p \in parts[f] : r.key \in p
  /\ phase[f] = "reading" => parts[f] # {}
  /\ phase[f] = "ready" => Ahead(f) \subseteq batch[f]
  /\ phase[f] = "written" => \A r \in Ahead(f) : Delivered(f, r)
  /\ \A r \in Rows(f) : r.seq <= committed[f] => Delivered(f, r)

FlowInv(f) == BatchInv(f) /\ PageInv(f) /\ AheadInv(f)

\* What an append flow has written, it has committed or is about to.
AppendInv ==
  partitioned => \A r \in Row : copies[r] > 0 =>
    /\ copies[r] = 1
    /\ \/ r.seq <= committed["append"]
       \/ phase["append"] = "written" /\ r.seq <= end["append"]

Covered(r) == \E s \in batch["snapshot"] : s.key = r.key /\ s.seq >= r.seq
RecordOf(k) == [key |-> k, seq |-> records[k]]
RecordsIn(p) == {r \in GetAllRecords : r.key \in p}

\* The record of r's key is not on a page of p that has been read.
ToCome(r, p) ==
  r.key \in p /\ Start(RecordOf(r.key), RecordsIn(p)) >= (page[p] - 1) * MaxPageSize

\* A record the snapshot has to have is in it, or on a page still to be read:
\* nothing of this table is deleted, and sorted by key it only moves back.
SnapshotInv ==
  phase["snapshot"] \in {"reading", "ready"} =>
    /\ \A r \in known : records[r.key] >= r.seq
    /\ phase["snapshot"] = "reading" =>
         /\ parts["snapshot"] # {}
         /\ \A r \in known : Covered(r) \/ \E p \in parts["snapshot"] : ToCome(r, p)
    /\ phase["snapshot"] = "ready" => \A r \in known : Covered(r)

FlowsInv ==
  /\ TypeOK /\ SourceInv /\ AppendInv /\ SnapshotInv /\ OnlyRealChanges
  /\ \A f \in Active : FlowInv(f)

-----------------------------------------------------------------------------
(* What holds of rows and flows in every state of the invariant *)

LEMMA TableFacts ==
  ASSUME FlowsInv
  PROVE  /\ Active \subseteq Streaming /\ Streaming \subseteq Flow
         /\ Active # {} => HasCursor(table) /\ table # "products"
         /\ phase["snapshot"] # "idle" => table = "products"
         /\ "snapshot" \in FlowsOf(table) => table = "products"
         /\ "append" \in FlowsOf(table) => table = "events"
         /\ \A f \in Flow : phase[f] # "idle" => f \in FlowsOf(table)
<1>1. table \in Tables
  BY DEF FlowsInv, TypeOK, SourceTypeOK
<1>2. QED
  BY <1>1 DEF FlowsInv, SourceInv, Active, Streaming, Flow, FlowsOf, HasCursor, Tables

LEMMA DeletesAreSimple ==
  ASSUME NoPartitionedDeletes, FlowsInv, "delete" \in FlowsOf(table)
  PROVE  ~ partitioned
<1>1. table = "orders"
  BY DEF FlowsInv, TypeOK, SourceTypeOK, FlowsOf, Tables
<1>2. QED
  BY <1>1 DEF NoPartitionedDeletes

LEMMA RowFacts ==
  ASSUME SourceTypeOK
  PROVE  /\ GetAllRecords \subseteq Row /\ tombstones \subseteq Row
         /\ \A f \in Flow : Rows(f) \subseteq Row
         /\ \A f \in Flow : Listed(f) = {r \in Rows(f) : r.seq > committed[f]}
         /\ \A r \in Row : r.seq \in Nat \ {0} /\ r.seq \in Time /\ r.key \in Key
<1>1. records \in [Key -> Time] /\ tombstones \subseteq Row
  BY DEF SourceTypeOK
<1>2. GetAllRecords \subseteq Row
  BY <1>1 DEF GetAllRecords, Row
<1>3. \A r \in Row : r.seq \in Nat \ {0} /\ r.seq \in Time /\ r.key \in Key
  BY DEF Row, Time
<1>4. QED
  BY <1>1, <1>2, <1>3 DEF Rows, Listed, ListRecords, ListDeletedRecords

\* A flow whose own state a step leaves alone keeps its invariant, if the step
\* takes nothing from the destination.
LEMMA OthersKeep ==
  ASSUME NEW g \in Active, FlowInv(g), UNCHANGED <<sourceVars, partitioned, posted>>,
         phase'[g] = phase[g], committed'[g] = committed[g], end'[g] = end[g],
         batch'[g] = batch[g], parts'[g] = parts[g],
         \A r \in Rows(g) : Delivered(g, r) => Delivered(g, r)'
  PROVE  FlowInv(g)'
<1>1. /\ table' = table /\ records' = records /\ tombstones' = tombstones
      /\ partitioned' = partitioned /\ posted' = posted
  BY DEF sourceVars
<1>2. GetAllRecords' = GetAllRecords
  BY <1>1 DEF GetAllRecords
<1>3. Rows(g)' = Rows(g)
  BY <1>1, <1>2 DEF Rows
<1>4. Ahead(g)' = Ahead(g)
  BY <1>3 DEF Ahead
<1>5. Listed(g)' = Listed(g)
  BY <1>1, <1>2 DEF Listed, ListRecords, ListDeletedRecords
<1>6. PageRecords(Listed(g), 1)' = PageRecords(Listed(g), 1)
  BY <1>1, <1>5 DEF PageRecords, Start, Before
<1>7. BatchInv(g)'
  BY <1>1 DEF FlowInv, BatchInv
<1>8. PageInv(g)'
  BY <1>1, <1>4, <1>6 DEF FlowInv, PageInv
<1>9. AheadInv(g)'
  <2>1. \A r \in Rows(g)' : r.seq <= committed'[g] => Delivered(g, r)'
    BY <1>3 DEF FlowInv, AheadInv
  <2>2. phase'[g] = "written" => \A r \in Ahead(g)' : Delivered(g, r)'
    BY <1>4 DEF FlowInv, AheadInv, Ahead
  <2>3. /\ phase'[g] = "reading" =>
             \A r \in Ahead(g)' : r \in batch'[g] \/ \E p \in parts'[g] : r.key \in p
        /\ phase'[g] = "reading" => parts'[g] # {}
        /\ phase'[g] = "ready" => Ahead(g)' \subseteq batch'[g]
    BY <1>4 DEF FlowInv, AheadInv
  <2>4. QED
    BY <2>1, <2>2, <2>3 DEF AheadInv
<1>10. QED
  BY <1>7, <1>8, <1>9 DEF FlowInv

-----------------------------------------------------------------------------
(* The steps of a stream reader, and its failures *)

LEMMA RowsStay ==
  ASSUME UNCHANGED sourceVars, NEW f, committed'[f] = committed[f]
  PROVE  /\ Rows(f)' = Rows(f) /\ GetAllRecords' = GetAllRecords
         /\ Listed(f)' = Listed(f)
         /\ PageRecords(Listed(f), 1)' = PageRecords(Listed(f), 1)
         /\ FlowsOf(table)' = FlowsOf(table)
<1>1. table' = table /\ records' = records /\ tombstones' = tombstones
  BY DEF sourceVars
<1>2. GetAllRecords' = GetAllRecords
  BY <1>1 DEF GetAllRecords
<1>3. Rows(f)' = Rows(f) /\ FlowsOf(table)' = FlowsOf(table)
  BY <1>1, <1>2 DEF Rows, FlowsOf
<1>4. Listed(f)' = Listed(f)
  BY <1>1, <1>2 DEF Listed, ListRecords, ListDeletedRecords
<1>5. PageRecords(Listed(f), 1)' = PageRecords(Listed(f), 1)
  BY <1>1, <1>4 DEF PageRecords, Start, Before
<1>6. QED
  BY <1>2, <1>3, <1>4, <1>5

\* A step of one flow that writes nothing keeps the invariant if it keeps the
\* flow's part of it.
LEMMA ReaderStep ==
  ASSUME FlowsInv, NEW f \in Active, phase[f] # "written",
         UNCHANGED <<sourceVars, partitioned, committed, page, replica, copies, posted, known>>,
         failures' \in 0 .. MaxFailures,
         NEW stage \in Phase \ {"written"}, phase' = [phase EXCEPT ![f] = stage],
         NEW stop \in Time, end' = [end EXCEPT ![f] = stop],
         NEW rows \in SUBSET Row, batch' = [batch EXCEPT ![f] = rows],
         NEW left \in SUBSET (Partition \cup {Key}), parts' = [parts EXCEPT ![f] = left],
         stage = "idle" => rows = {},
         stage # "idle" => committed[f] < stop /\ stop <= clock,
         FlowInv(f)'
  PROVE  FlowsInv'
<1>1. /\ table' = table /\ clock' = clock /\ records' = records
      /\ tombstones' = tombstones /\ GetAllRecords' = GetAllRecords
      /\ FlowsOf(table)' = FlowsOf(table) /\ Active' = Active
  <2>1. FlowsOf(table)' = FlowsOf(table) /\ GetAllRecords' = GetAllRecords
    BY RowsStay
  <2>2. QED
    BY <2>1 DEF sourceVars, Active
<1>2. /\ f \in Streaming /\ f \in Flow /\ f # "snapshot" /\ f \in FlowsOf(table)
      /\ phase \in [Flow -> Phase] /\ end \in [Flow -> Time]
      /\ batch \in [Flow -> SUBSET Row] /\ parts \in [Flow -> SUBSET (Partition \cup {Key})]
  BY TableFacts DEF FlowsInv, TypeOK, Streaming, Active
<1>3. /\ phase'[f] = stage /\ end'[f] = stop /\ batch'[f] = rows /\ parts'[f] = left
      /\ \A g \in Flow \ {f} : /\ phase'[g] = phase[g] /\ end'[g] = end[g]
                               /\ batch'[g] = batch[g] /\ parts'[g] = parts[g]
  BY <1>2
<1>4. TypeOK'
  <2>1. SourceTypeOK'
    BY <1>1 DEF FlowsInv, TypeOK, SourceTypeOK
  <2>2. /\ phase' \in [Flow -> Phase] /\ end' \in [Flow -> Time]
        /\ batch' \in [Flow -> SUBSET Row] /\ parts' \in [Flow -> SUBSET (Partition \cup {Key})]
    BY <1>2
  <2>3. \A g \in Streaming : /\ committed'[g] <= clock'
                             /\ phase'[g] = "idle" => batch'[g] = {}
                             /\ phase'[g] # "idle" => committed'[g] < end'[g] /\ end'[g] <= clock'
    BY <1>1, <1>2, <1>3 DEF FlowsInv, TypeOK, Streaming
  <2>4. QED
    BY <2>1, <2>2, <2>3 DEF FlowsInv, TypeOK
<1>5. SourceInv'
  BY <1>1, <1>2, <1>3 DEF FlowsInv, SourceInv
<1>6. AppendInv'
  BY <1>2, <1>3 DEF FlowsInv, AppendInv, Flow
<1>7. SnapshotInv'
  <2>1. /\ phase'["snapshot"] = phase["snapshot"] /\ batch'["snapshot"] = batch["snapshot"]
        /\ parts'["snapshot"] = parts["snapshot"] /\ page' = page /\ known' = known
    BY <1>2, <1>3 DEF Flow
  <2>2. \A r, p : ToCome(r, p)' = ToCome(r, p) /\ Covered(r)' = Covered(r)
    BY <1>1, <2>1 DEF ToCome, Covered, RecordOf, RecordsIn, Start, Before
  <2>3. QED
    BY <1>1, <2>1, <2>2 DEF FlowsInv, SnapshotInv
<1>8. OnlyRealChanges'
  BY <1>1 DEF FlowsInv, OnlyRealChanges
<1>9. ASSUME NEW g \in Active PROVE FlowInv(g)'
  <2>1. CASE g = f
    BY <2>1
  <2>2. CASE g # f
    <3>1. \A r : Delivered(g, r)' = Delivered(g, r)
      BY DEF Delivered
    <3>2. FlowInv(g) /\ g \in Flow
      BY TableFacts DEF FlowsInv
    <3>3. QED
      BY <1>3, <2>2, <3>1, <3>2, OthersKeep
  <2>3. QED
    BY <2>1, <2>2
<1>10. QED
  BY <1>1, <1>4, <1>5, <1>6, <1>7, <1>8, <1>9 DEF FlowsInv

\* The invariant of one flow after a step that reads: what it says of delivered
\* rows is as it was.
LEMMA FlowInvAfter ==
  ASSUME FlowsInv, NEW f \in Active,
         UNCHANGED <<sourceVars, partitioned, committed, replica, copies, posted>>,
         batch'[f] \subseteq IF f = "delete" THEN tombstones ELSE posted,
         partitioned => \A r \in batch'[f] : committed[f] < r.seq /\ r.seq <= end'[f],
         PageInv(f)',
         phase'[f] = "reading" =>
           /\ parts'[f] # {}
           /\ \A r \in Ahead(f)' : r \in batch'[f] \/ \E p \in parts'[f] : r.key \in p,
         phase'[f] = "ready" => Ahead(f)' \subseteq batch'[f],
         phase'[f] # "written"
  PROVE  FlowInv(f)'
<1>1. Rows(f)' = Rows(f) /\ \A r : Delivered(f, r)' = Delivered(f, r)
  BY RowsStay DEF Delivered
<1>2. \A r \in Rows(f) : r.seq <= committed[f] => Delivered(f, r)
  BY DEF FlowsInv, FlowInv, AheadInv
<1>3. BatchInv(f)'
  BY DEF BatchInv, sourceVars
<1>4. AheadInv(f)'
  BY <1>1, <1>2 DEF AheadInv
<1>5. QED
  BY <1>3, <1>4 DEF FlowInv

LEMMA FlowFacts ==
  ASSUME FlowsInv, NEW f \in Active
  PROVE  /\ f \in Flow /\ f \in Streaming /\ f # "snapshot"
         /\ Rows(f) \subseteq Row /\ Listed(f) \subseteq Rows(f)
         /\ Listed(f) = {r \in Rows(f) : r.seq > committed[f]}
         /\ \A r \in Rows(f) : r.seq <= clock
         /\ Rows(f) \subseteq IF f = "delete" THEN tombstones ELSE posted
         /\ PageRecords(Listed(f), 1) \subseteq Listed(f)
         /\ SimpleRead(f, committed[f]) = PageRecords(Listed(f), 1)
         /\ committed[f] \in Time /\ end[f] \in Time /\ clock \in Time
         /\ phase \in [Flow -> Phase] /\ end \in [Flow -> Time]
         /\ batch \in [Flow -> SUBSET Row]
         /\ parts \in [Flow -> SUBSET (Partition \cup {Key})]
         /\ failures \in 0 .. MaxFailures
<1>1. f \in Flow /\ f \in Streaming /\ f # "snapshot"
  BY TableFacts DEF Streaming
<1>2. SourceTypeOK
  BY DEF FlowsInv, TypeOK
<1>3. Rows(f) \subseteq Row /\ Listed(f) = {r \in Rows(f) : r.seq > committed[f]}
  BY <1>1, <1>2, RowFacts
<1>4. \A r \in GetAllRecords : r.seq <= clock
  BY DEF GetAllRecords, FlowsInv, SourceInv
<1>5. \A r \in Rows(f) : r.seq <= clock
  BY <1>4 DEF Rows, FlowsInv, SourceInv
<1>6. Rows(f) \subseteq IF f = "delete" THEN tombstones ELSE posted
  BY DEF Rows, FlowsInv, SourceInv
<1>7. PageRecords(Listed(f), 1) \subseteq Listed(f)
  BY DEF PageRecords
<1>8. SimpleRead(f, committed[f]) = PageRecords(Listed(f), 1)
  BY DEF SimpleRead, ReadTable, ReadTableDeletes, Listed
<1>9. QED
  BY <1>1, <1>2, <1>3, <1>5, <1>6, <1>7, <1>8 DEF FlowsInv, TypeOK, SourceTypeOK

LEMMA LatestStep ==
  ASSUME NoPartitionedDeletes, FlowsInv, NEW f \in Active, Latest(f)
  PROVE  FlowsInv'
<1> DEFINE stop == NextEnd(f)
           rows == IF partitioned THEN {} ELSE SimpleRead(f, committed[f])
           start == committed[f]
<1>1. /\ f \in Flow /\ Rows(f) \subseteq Row /\ Listed(f) \subseteq Rows(f)
      /\ Listed(f) = {r \in Rows(f) : r.seq > start}
      /\ \A r \in Rows(f) : r.seq <= clock
      /\ Rows(f) \subseteq IF f = "delete" THEN tombstones ELSE posted
      /\ PageRecords(Listed(f), 1) \subseteq Listed(f)
      /\ SimpleRead(f, start) = PageRecords(Listed(f), 1)
      /\ start \in Time /\ phase \in [Flow -> Phase] /\ end \in [Flow -> Time]
      /\ batch \in [Flow -> SUBSET Row] /\ failures \in 0 .. MaxFailures
      /\ parts \in [Flow -> SUBSET (Partition \cup {Key})]
  BY FlowFacts
<1>2. /\ phase[f] = "idle" /\ stop # start
      /\ end' = [end EXCEPT ![f] = stop] /\ batch' = [batch EXCEPT ![f] = rows]
      /\ phase' = [phase EXCEPT ![f] = "found"] /\ parts' = parts
      /\ UNCHANGED <<sourceVars, partitioned, committed, page, replica, copies, posted,
                     known, failures>>
  BY DEF Latest
<1>3. \E set \in SUBSET Listed(f) :
        stop = LastSeq(set, start) /\ (~ partitioned => set = PageRecords(Listed(f), 1))
  <2>1. CASE partitioned
    <3>1. f # "delete"
      BY <2>1, DeletesAreSimple DEF Active
    <3>2. stop = LastSeq(Listed(f), start)
      BY <2>1, <3>1 DEF NextEnd, LatestOffset, Listed
    <3>3. QED
      BY <2>1, <3>2
  <2>2. CASE ~ partitioned
    BY <1>1, <2>2 DEF NextEnd
  <2>3. QED
    BY <2>1, <2>2
<1>4. PICK set \in SUBSET Listed(f) :
        stop = LastSeq(set, start) /\ (~ partitioned => set = PageRecords(Listed(f), 1))
  BY <1>3
<1> HIDE DEF stop
<1>5. /\ stop \in Time /\ start < stop /\ stop <= clock
      /\ \E r \in set : r.seq = stop
  <2>1. set \in SUBSET Row
    BY <1>1
  <2>2. stop \in Time /\ (set # {} => \E r \in set : r.seq = stop) /\ (set = {} => stop = start)
    BY <1>1, <1>4, <2>1, LastSeqIsTheLast
  <2>3. PICK r \in set : r.seq = stop
    BY <1>2, <2>2
  <2>4. QED
    BY <1>1, <2>2, <2>3
<1>6. rows \in SUBSET Row /\ rows \subseteq Rows(f)
  BY <1>1
<1>7. PageInv(f)'
  <2> SUFFICES ASSUME ~ partitioned PROVE PageInv(f)'
    BY <1>2 DEF PageInv
  <2>1. Rows(f)' = Rows(f) /\ PageRecords(Listed(f), 1)' = PageRecords(Listed(f), 1)
    BY <1>2, RowsStay
  <2>2. PICK s \in PageRecords(Listed(f), 1) : s.seq = stop
    BY <1>4, <1>5
  <2>3. \A r \in Ahead(f)' : r \in PageRecords(Listed(f), 1)
    <3> SUFFICES ASSUME NEW r \in Ahead(f)' PROVE r \in PageRecords(Listed(f), 1)
      OBVIOUS
    <3>1. r \in Rows(f) /\ start < r.seq /\ r.seq <= stop
      BY <1>1, <1>2, <2>1 DEF Ahead
    <3>2. r \in Listed(f) /\ HasCursor(table) /\ Listed(f) \in SUBSET Row
      BY <1>1, <3>1, TableFacts
    <3>3. QED
      BY <2>2, <3>1, <3>2, FirstPageIsAPrefix
  <2>4. phase'[f] = "found" /\ batch'[f] = PageRecords(Listed(f), 1)
    BY <1>1, <1>2
  <2>5. QED
    BY <2>1, <2>3, <2>4 DEF PageInv
<1> HIDE DEF rows
<1>8. FlowInv(f)'
  <2>1. phase'[f] = "found" /\ batch'[f] = rows
    BY <1>1, <1>2
  <2>2. partitioned => rows = {}
    BY DEF rows
  <2>3. QED
    BY <1>1, <1>2, <1>6, <1>7, <2>1, <2>2, FlowInvAfter
<1>9. parts' = [parts EXCEPT ![f] = parts[f]] /\ parts[f] \in SUBSET (Partition \cup {Key})
  BY <1>1, <1>2
<1>10. failures' \in 0 .. MaxFailures
  BY <1>1, <1>2
<1>11. /\ phase[f] # "written" /\ "found" \in Phase \ {"written"}
       /\ committed[f] < stop /\ stop <= clock
  BY <1>2, <1>5 DEF Phase
<1> HIDE DEF start
<1>12. QED
  BY <1>2, <1>5, <1>6, <1>8, <1>9, <1>10, <1>11, ReaderStep

LEMMA LogOffsetStep ==
  ASSUME FlowsInv, NEW f \in Active, LogOffset(f)
  PROVE  FlowsInv'
<1> DEFINE stage == IF partitioned THEN "logged" ELSE "ready"
<1>1. /\ f \in Flow /\ f \in Streaming /\ phase \in [Flow -> Phase] /\ end \in [Flow -> Time]
      /\ batch \in [Flow -> SUBSET Row] /\ failures \in 0 .. MaxFailures
      /\ parts \in [Flow -> SUBSET (Partition \cup {Key})]
  BY FlowFacts
<1>2. /\ phase[f] = "found" /\ phase' = [phase EXCEPT ![f] = stage] /\ phase'[f] = stage
      /\ end' = end /\ batch' = batch /\ parts' = parts
      /\ UNCHANGED <<sourceVars, partitioned, committed, page, replica, copies, posted,
                     known, failures>>
  BY <1>1 DEF LogOffset
<1>3. Ahead(f)' = Ahead(f) /\ PageRecords(Listed(f), 1)' = PageRecords(Listed(f), 1)
  BY <1>2, RowsStay DEF Ahead
<1>4. BatchInv(f) /\ PageInv(f)
  BY DEF FlowsInv, FlowInv
<1>5. PageInv(f)' /\ (phase'[f] = "ready" => Ahead(f)' \subseteq batch'[f])
  BY <1>2, <1>3, <1>4 DEF PageInv
<1>6. FlowInv(f)'
  BY <1>2, <1>4, <1>5, FlowInvAfter DEF BatchInv
<1>7. /\ end' = [end EXCEPT ![f] = end[f]] /\ batch' = [batch EXCEPT ![f] = batch[f]]
      /\ parts' = [parts EXCEPT ![f] = parts[f]]
      /\ end[f] \in Time /\ batch[f] \in SUBSET Row
      /\ parts[f] \in SUBSET (Partition \cup {Key}) /\ failures' \in 0 .. MaxFailures
      /\ committed[f] < end[f] /\ end[f] <= clock
  BY <1>1, <1>2 DEF FlowsInv, TypeOK
<1>8. stage \in Phase \ {"written"} /\ stage # "idle" /\ phase[f] # "written"
  BY <1>2 DEF Phase
<1> HIDE DEF stage
<1>9. QED
  BY <1>2, <1>6, <1>7, <1>8, ReaderStep

\* What is left of the batch fits into the page that is read again.
LEMMA ReadBetweenOffsetsStep ==
  ASSUME FlowsInv, NEW f \in Active, ReadBetweenOffsets(f)
  PROVE  FlowsInv'
<1> DEFINE rows == PageRecords(Listed(f), 1)
<1>1. /\ f \in Flow /\ f \in Streaming /\ phase \in [Flow -> Phase] /\ end \in [Flow -> Time]
      /\ batch \in [Flow -> SUBSET Row] /\ failures \in 0 .. MaxFailures
      /\ parts \in [Flow -> SUBSET (Partition \cup {Key})]
      /\ SimpleRead(f, committed[f]) = rows
      /\ rows \subseteq Listed(f) /\ Listed(f) \subseteq Rows(f) /\ Rows(f) \subseteq Row
      /\ Rows(f) \subseteq IF f = "delete" THEN tombstones ELSE posted
  BY FlowFacts
<1>2. /\ phase[f] = "logged" /\ ~ partitioned
      /\ phase' = [phase EXCEPT ![f] = "ready"] /\ phase'[f] = "ready"
      /\ batch' = [batch EXCEPT ![f] = rows] /\ batch'[f] = rows
      /\ end' = end /\ parts' = parts
      /\ UNCHANGED <<sourceVars, partitioned, committed, page, replica, copies, posted,
                     known, failures>>
  BY <1>1 DEF ReadBetweenOffsets, ReadAgainFrom
<1>3. Ahead(f)' = Ahead(f) /\ PageRecords(Listed(f), 1)' = PageRecords(Listed(f), 1)
  BY <1>2, RowsStay DEF Ahead
<1>4. PageInv(f)
  BY DEF FlowsInv, FlowInv
<1> HIDE DEF rows
<1>5. PageInv(f)' /\ Ahead(f)' \subseteq batch'[f]
  BY <1>2, <1>3, <1>4 DEF PageInv, rows
<1>6. FlowInv(f)'
  BY <1>1, <1>2, <1>5, FlowInvAfter
<1>7. /\ end' = [end EXCEPT ![f] = end[f]] /\ parts' = [parts EXCEPT ![f] = parts[f]]
      /\ end[f] \in Time /\ rows \in SUBSET Row
      /\ parts[f] \in SUBSET (Partition \cup {Key}) /\ failures' \in 0 .. MaxFailures
      /\ committed[f] < end[f] /\ end[f] <= clock
  BY <1>1, <1>2 DEF FlowsInv, TypeOK
<1>8. QED
  BY <1>2, <1>6, <1>7, ReaderStep DEF Phase

LEMMA PlanStreamStep ==
  ASSUME FlowsInv, NEW f \in Active, PlanStream(f)
  PROVE  FlowsInv'
<1>1. /\ f \in Flow /\ f \in Streaming /\ phase \in [Flow -> Phase] /\ end \in [Flow -> Time]
      /\ batch \in [Flow -> SUBSET Row] /\ failures \in 0 .. MaxFailures
      /\ parts \in [Flow -> SUBSET (Partition \cup {Key})]
      /\ Rows(f) \subseteq Row
  BY FlowFacts
<1>2. /\ phase[f] = "logged" /\ partitioned
      /\ phase' = [phase EXCEPT ![f] = "reading"] /\ phase'[f] = "reading"
      /\ parts' = [parts EXCEPT ![f] = Partition] /\ parts'[f] = Partition
      /\ end' = end /\ batch' = batch
      /\ UNCHANGED <<sourceVars, partitioned, committed, page, replica, copies, posted,
                     known, failures>>
  BY <1>1 DEF PlanStream
<1>3. Ahead(f)' \subseteq Row
  BY <1>1, <1>2, RowsStay DEF Ahead
<1>4. Partition # {} /\ \A r \in Row : \E p \in Partition : r.key \in p
  BY FlowsAssumption, SourceAssumption DEF Row
<1>5. PageInv(f)' /\ BatchInv(f)
  BY <1>2 DEF PageInv, FlowsInv, FlowInv
<1>6. FlowInv(f)'
  BY <1>2, <1>3, <1>4, <1>5, FlowInvAfter DEF BatchInv
<1>7. /\ end' = [end EXCEPT ![f] = end[f]] /\ batch' = [batch EXCEPT ![f] = batch[f]]
      /\ end[f] \in Time /\ batch[f] \in SUBSET Row
      /\ Partition \in SUBSET (Partition \cup {Key}) /\ failures' \in 0 .. MaxFailures
      /\ committed[f] < end[f] /\ end[f] <= clock
  BY <1>1, <1>2 DEF FlowsInv, TypeOK
<1>8. QED
  BY <1>2, <1>6, <1>7, ReaderStep DEF Phase

\* A partition is read up to the planned end, however late.
LEMMA ReadStreamStep ==
  ASSUME NoPartitionedDeletes, FlowsInv, NEW f \in Active, NEW p \in Partition,
         ReadStream(f, p)
  PROVE  FlowsInv'
<1> DEFINE read == ReadPartition(p, committed[f], end[f])
           rows == batch[f] \cup read
           left == parts[f] \ {p}
           stage == IF parts[f] = {p} THEN "ready" ELSE "reading"
<1>1. /\ f \in Flow /\ f \in Streaming /\ phase \in [Flow -> Phase] /\ end \in [Flow -> Time]
      /\ batch \in [Flow -> SUBSET Row] /\ failures \in 0 .. MaxFailures
      /\ parts \in [Flow -> SUBSET (Partition \cup {Key})]
      /\ Rows(f) \subseteq Row
      /\ Rows(f) \subseteq IF f = "delete" THEN tombstones ELSE posted
  BY FlowFacts
<1>2. /\ phase[f] = "reading" /\ p \in parts[f]
      /\ phase' = [phase EXCEPT ![f] = stage] /\ phase'[f] = stage
      /\ parts' = [parts EXCEPT ![f] = left] /\ parts'[f] = left
      /\ batch' = [batch EXCEPT ![f] = rows] /\ batch'[f] = rows
      /\ end' = end
      /\ UNCHANGED <<sourceVars, partitioned, committed, page, replica, copies, posted,
                     known, failures>>
  BY <1>1 DEF ReadStream
<1>3. partitioned /\ f # "delete"
  <2>1. partitioned
    BY <1>2 DEF FlowsInv, FlowInv, PageInv
  <2>2. QED
    BY <2>1, DeletesAreSimple DEF Active
<1>4. read = {r \in Ahead(f) : r.key \in p} /\ Ahead(f)' = Ahead(f)
  <2>1. Rows(f) = GetAllRecords
    BY <1>3 DEF Rows
  <2>2. Rows(f)' = Rows(f)
    BY <1>2, RowsStay
  <2>3. QED
    BY <1>2, <2>1, <2>2 DEF ReadPartition, ListRecords, Ahead
<1>5. read \subseteq Rows(f) /\ \A r \in read : committed[f] < r.seq /\ r.seq <= end[f]
  BY <1>4 DEF Ahead
<1>6. /\ batch[f] \subseteq IF f = "delete" THEN tombstones ELSE posted
      /\ \A r \in batch[f] : committed[f] < r.seq /\ r.seq <= end[f]
      /\ \A r \in Ahead(f) : r \in batch[f] \/ \E q \in parts[f] : r.key \in q
  BY <1>2, <1>3 DEF FlowsInv, FlowInv, BatchInv, AheadInv
<1>7. \A r \in Ahead(f) : r \in rows \/ \E q \in left : r.key \in q
  BY <1>4, <1>6
<1>8. /\ stage = "reading" => left # {}
      /\ stage = "ready" => left = {}
      /\ stage \in Phase \ {"written"} /\ stage # "idle"
  BY <1>2 DEF Phase
<1>9. /\ rows \in SUBSET Row /\ rows \subseteq IF f = "delete" THEN tombstones ELSE posted
      /\ \A r \in rows : committed[f] < r.seq /\ r.seq <= end[f]
      /\ left \in SUBSET (Partition \cup {Key})
  BY <1>1, <1>5, <1>6
<1>10. PageInv(f)'
  BY <1>2, <1>3 DEF PageInv
<1> HIDE DEF rows, left, stage, read
<1>11. FlowInv(f)'
  BY <1>2, <1>4, <1>7, <1>8, <1>9, <1>10, FlowInvAfter
<1>12. /\ end' = [end EXCEPT ![f] = end[f]] /\ end[f] \in Time
       /\ failures' \in 0 .. MaxFailures
       /\ committed[f] < end[f] /\ end[f] <= clock
  BY <1>1, <1>2 DEF FlowsInv, TypeOK
<1>13. QED
  BY <1>2, <1>8, <1>9, <1>11, <1>12, ReaderStep

\* A flow that dies keeps its committed offset and the end it has logged.
LEMMA StreamFails ==
  ASSUME FlowsInv, NEW f \in Active, Fail(f)
  PROVE  FlowsInv'
<1> DEFINE stage == IF phase[f] = "found" THEN "idle" ELSE "logged"
<1>1. /\ f \in Flow /\ f \in Streaming /\ f # "snapshot"
      /\ phase \in [Flow -> Phase] /\ end \in [Flow -> Time]
      /\ batch \in [Flow -> SUBSET Row] /\ failures \in 0 .. MaxFailures
      /\ parts \in [Flow -> SUBSET (Partition \cup {Key})]
  BY FlowFacts
<1>2. /\ phase[f] \in {"found", "reading", "ready"}
      /\ phase' = [phase EXCEPT ![f] = stage] /\ phase'[f] = stage
      /\ batch' = [batch EXCEPT ![f] = {}] /\ batch'[f] = {}
      /\ parts' = [parts EXCEPT ![f] = {}]
      /\ end' = end
      /\ UNCHANGED <<sourceVars, partitioned, committed, page, replica, copies, posted, known>>
  BY <1>1 DEF Fail
<1>3. failures' \in 0 .. MaxFailures
  BY <1>1, FlowsAssumption DEF Fail
<1>4. Ahead(f)' = Ahead(f) /\ PageRecords(Listed(f), 1)' = PageRecords(Listed(f), 1)
  BY <1>2, RowsStay DEF Ahead
<1>5. stage \in Phase \ {"written"} /\ stage \notin {"found", "reading", "ready"}
  BY DEF Phase
<1>6. PageInv(f)
  BY DEF FlowsInv, FlowInv
<1> HIDE DEF stage
<1>7. PageInv(f)'
  BY <1>2, <1>4, <1>5, <1>6 DEF PageInv
<1>8. FlowInv(f)'
  BY <1>2, <1>5, <1>7, FlowInvAfter
<1>9. /\ end' = [end EXCEPT ![f] = end[f]] /\ end[f] \in Time
      /\ committed[f] < end[f] /\ end[f] <= clock
      /\ {} \in SUBSET Row /\ {} \in SUBSET (Partition \cup {Key})
      /\ phase[f] # "written"
  BY <1>1, <1>2 DEF FlowsInv, TypeOK
<1>10. QED
  BY <1>2, <1>3, <1>5, <1>8, <1>9, ReaderStep

-----------------------------------------------------------------------------
(* Writing a batch and committing it *)

\* apply_changes goes forward only, takes in every row of the batch, and makes
\* up no change.
LEMMA AppliedFacts ==
  ASSUME replica \in [Key -> [seq : Time, deleted : BOOLEAN]],
         NEW rows \in SUBSET Row, NEW deleted \in BOOLEAN
  PROVE  /\ Applied(rows, deleted) \in [Key -> [seq : Time, deleted : BOOLEAN]]
         /\ \A k \in Key :
              /\ Applied(rows, deleted)[k].seq >= replica[k].seq
              /\ \A r \in rows : r.key = k => Applied(rows, deleted)[k].seq >= r.seq
              /\ \/ Applied(rows, deleted)[k] = replica[k]
                 \/ /\ Applied(rows, deleted)[k].deleted = deleted
                    /\ [key |-> k, seq |-> Applied(rows, deleted)[k].seq] \in rows
<1> DEFINE last(k) == LastSeq({r \in rows : r.key = k}, 0)
<1>1. ASSUME NEW k \in Key
      PROVE  /\ last(k) \in Time
             /\ \A r \in rows : r.key = k => r.seq <= last(k)
             /\ last(k) > 0 => [key |-> k, seq |-> last(k)] \in rows
  <2> DEFINE set == {r \in rows : r.key = k}
  <2>1. set \in SUBSET Row /\ 0 \in Time
    BY SourceAssumption DEF Time
  <2>2. /\ last(k) \in Time /\ (set = {} => last(k) = 0)
        /\ set # {} => \E r \in set : r.seq = last(k)
        /\ \A r \in set : r.seq <= last(k)
    <3> HIDE DEF set
    <3>1. /\ LastSeq(set, 0) \in Time /\ (set = {} => LastSeq(set, 0) = 0)
          /\ set # {} => \E r \in set : r.seq = LastSeq(set, 0)
          /\ \A r \in set : r.seq <= LastSeq(set, 0)
      BY <2>1, LastSeqIsTheLast
    <3>2. QED
      BY <3>1 DEF set
  <2> HIDE DEF last
  <2>3. ASSUME last(k) > 0 PROVE [key |-> k, seq |-> last(k)] \in rows
    <3>1. PICK r \in set : r.seq = last(k)
      BY <2>2, <2>3
    <3>2. r = [key |-> k, seq |-> last(k)]
      BY <3>1 DEF Row
    <3>3. QED
      BY <3>1, <3>2
  <2>4. QED
    BY <2>2, <2>3
<1>2. \A k \in Key : Applied(rows, deleted)[k] =
        IF last(k) > replica[k].seq THEN [seq |-> last(k), deleted |-> deleted] ELSE replica[k]
  BY DEF Applied
<1>3. Applied(rows, deleted) = [k \in Key |-> Applied(rows, deleted)[k]]
  BY DEF Applied
<1> HIDE DEF last
<1>4. ASSUME NEW k \in Key
      PROVE  /\ Applied(rows, deleted)[k] \in [seq : Time, deleted : BOOLEAN]
             /\ Applied(rows, deleted)[k].seq >= replica[k].seq
             /\ \A r \in rows : r.key = k => Applied(rows, deleted)[k].seq >= r.seq
             /\ \/ Applied(rows, deleted)[k] = replica[k]
                \/ /\ Applied(rows, deleted)[k].deleted = deleted
                   /\ [key |-> k, seq |-> Applied(rows, deleted)[k].seq] \in rows
  <2>1. replica[k].seq \in Nat /\ last(k) \in Nat /\ \A r \in rows : r.seq \in Nat
    <3>1. replica[k].seq \in Time /\ last(k) \in Time /\ \A r \in rows : r.seq \in Time
      BY <1>1 DEF Row
    <3>2. \A n \in Time : n \in Nat
      BY DEF Time
    <3>3. QED
      BY <3>1, <3>2
  <2>2. CASE last(k) > replica[k].seq
    <3>1. Applied(rows, deleted)[k] = [seq |-> last(k), deleted |-> deleted] /\ last(k) > 0
      BY <1>2, <2>1, <2>2
    <3>2. QED
      BY <1>1, <2>1, <2>2, <3>1
  <2>3. CASE ~ (last(k) > replica[k].seq)
    <3>1. Applied(rows, deleted)[k] = replica[k]
      BY <1>2, <2>3
    <3>2. ASSUME NEW r \in rows, r.key = k PROVE replica[k].seq >= r.seq
      <4>1. r.seq <= last(k) /\ r.seq \in Nat
        BY <1>1, <2>1, <3>2
      <4>2. QED
        BY <2>1, <2>3, <4>1
    <3>3. QED
      BY <2>1, <3>1, <3>2
  <2>4. QED
    BY <2>2, <2>3
<1>5. QED
  BY <1>3, <1>4

\* What a streaming flow writes: nothing delivered is taken back, its batch is
\* delivered, and it shows nothing but the rows of its batch.
LEMMA Written ==
  ASSUME FlowsInv, NEW f \in Active, Write(f)
  PROVE  /\ replica' \in [Key -> [seq : Time, deleted : BOOLEAN]]
         /\ copies' \in [Row -> Nat]
         /\ \A k \in Key : replica'[k].seq >= replica[k].seq
         /\ \A r \in Row : copies'[r] >= copies[r]
         /\ \A r \in batch[f] : Delivered(f, r)'
         /\ \A k \in Key :
              \/ replica'[k] = replica[k]
              \/ /\ replica'[k].deleted = (f = "delete")
                 /\ [key |-> k, seq |-> replica'[k].seq] \in batch[f]
         /\ \A r \in Row :
              \/ copies'[r] = copies[r]
              \/ f = "append" /\ r \in batch[f] /\ copies'[r] = copies[r] + 1
<1>1. /\ f # "snapshot" /\ batch[f] \in SUBSET Row
      /\ replica \in [Key -> [seq : Time, deleted : BOOLEAN]] /\ copies \in [Row -> Nat]
      /\ \A r \in Row : r.key \in Key
  BY FlowFacts DEF FlowsInv, TypeOK, Row
<1>2. CASE f = "append"
  <2>1. /\ replica' = replica
        /\ copies' = [r \in Row |-> copies[r] + (IF r \in batch[f] THEN 1 ELSE 0)]
    BY <1>2 DEF Write
  <2>2. copies' \in [Row -> Nat] /\ \A r \in Row : copies'[r] >= copies[r]
    BY <1>1, <2>1
  <2>3. \A r \in batch[f] : Delivered(f, r)'
    BY <1>1, <1>2, <2>1 DEF Delivered
  <2>4. \A r \in Row : copies'[r] = copies[r] \/ (r \in batch[f] /\ copies'[r] = copies[r] + 1)
    BY <1>1, <2>1
  <2>5. \A k \in Key : replica'[k].seq >= replica[k].seq
    BY <1>1, <2>1 DEF Time
  <2>6. QED
    BY <1>1, <1>2, <2>1, <2>2, <2>3, <2>4, <2>5
<1>3. CASE f # "append"
  <2>1. replica' = Applied(batch[f], f = "delete") /\ copies' = copies
    BY <1>1, <1>3 DEF Write
  <2>2. (f = "delete") \in BOOLEAN
    OBVIOUS
  <2>3. /\ replica' \in [Key -> [seq : Time, deleted : BOOLEAN]]
        /\ \A k \in Key :
             /\ replica'[k].seq >= replica[k].seq
             /\ \A r \in batch[f] : r.key = k => replica'[k].seq >= r.seq
             /\ \/ replica'[k] = replica[k]
                \/ /\ replica'[k].deleted = (f = "delete")
                   /\ [key |-> k, seq |-> replica'[k].seq] \in batch[f]
    BY <1>1, <2>1, <2>2, AppliedFacts
  <2>4. \A r \in batch[f] : Delivered(f, r)'
    BY <1>1, <1>3, <2>3 DEF Delivered
  <2>5. \A r \in Row : copies'[r] >= copies[r] /\ copies'[r] = copies[r]
    BY <1>1, <2>1
  <2>6. QED
    BY <1>1, <2>1, <2>3, <2>4, <2>5
<1>4. QED
  BY <1>2, <1>3

LEMMA WriteStep ==
  ASSUME FlowsInv, NEW f \in Active, Write(f)
  PROVE  FlowsInv'
<1>1. /\ f \in Flow /\ f \in Streaming /\ f # "snapshot" /\ phase \in [Flow -> Phase]
      /\ Rows(f) \subseteq Row
  BY FlowFacts
<1>2. /\ phase[f] = "ready" /\ phase' = [phase EXCEPT ![f] = "written"]
      /\ phase'[f] = "written" /\ \A g \in Flow \ {f} : phase'[g] = phase[g]
      /\ UNCHANGED <<sourceVars, partitioned, committed, end, batch, parts, page, failures,
                     posted, known>>
  BY <1>1 DEF Write
<1>3. /\ replica' \in [Key -> [seq : Time, deleted : BOOLEAN]] /\ copies' \in [Row -> Nat]
      /\ \A k \in Key : replica'[k].seq >= replica[k].seq
      /\ \A r \in Row : copies'[r] >= copies[r]
      /\ \A r \in batch[f] : Delivered(f, r)'
      /\ \A k \in Key :
           \/ replica'[k] = replica[k]
           \/ /\ replica'[k].deleted = (f = "delete")
              /\ [key |-> k, seq |-> replica'[k].seq] \in batch[f]
      /\ \A r \in Row :
           \/ copies'[r] = copies[r]
           \/ f = "append" /\ r \in batch[f] /\ copies'[r] = copies[r] + 1
  BY Written
<1>4. /\ table' = table /\ clock' = clock /\ records' = records
      /\ tombstones' = tombstones /\ GetAllRecords' = GetAllRecords
      /\ FlowsOf(table)' = FlowsOf(table) /\ Active' = Active
  <2>1. FlowsOf(table)' = FlowsOf(table) /\ GetAllRecords' = GetAllRecords
    BY <1>2, RowsStay
  <2>2. QED
    BY <1>2, <2>1 DEF sourceVars, Active
<1>5. ASSUME NEW g \in Flow, NEW r \in Row, Delivered(g, r) PROVE Delivered(g, r)'
  <2>1. r.key \in Key /\ r.seq \in Nat
    BY DEF Row, Time
  <2>2. CASE g = "append"
    <3>1. copies[r] \in Nat /\ copies'[r] \in Nat /\ copies'[r] >= copies[r]
      BY <1>3 DEF FlowsInv, TypeOK
    <3>2. QED
      BY <1>5, <2>2, <3>1 DEF Delivered
  <2>3. CASE g # "append"
    <3>1. replica[r.key].seq \in Time /\ replica'[r.key].seq \in Time
      BY <1>3, <2>1 DEF FlowsInv, TypeOK
    <3>2. replica[r.key].seq \in Nat /\ replica'[r.key].seq \in Nat
      BY <3>1 DEF Time
    <3>3. replica'[r.key].seq >= replica[r.key].seq
      BY <1>3, <2>1
    <3>4. QED
      BY <1>5, <2>1, <2>3, <3>2, <3>3 DEF Delivered
  <2>4. QED
    BY <2>2, <2>3
<1>6. TypeOK'
  <2>1. SourceTypeOK'
    BY <1>4 DEF FlowsInv, TypeOK, SourceTypeOK
  <2>2. phase' \in [Flow -> Phase]
    BY <1>1, <1>2 DEF Phase
  <2>3. \A g \in Streaming : /\ phase'[g] = "idle" => batch'[g] = {}
                             /\ phase'[g] # "idle" => committed'[g] < end'[g] /\ end'[g] <= clock'
                             /\ committed'[g] <= clock'
    BY <1>1, <1>2, <1>4 DEF FlowsInv, TypeOK, Streaming
  <2>4. QED
    BY <1>2, <1>3, <2>1, <2>2, <2>3 DEF FlowsInv, TypeOK
<1>7. SourceInv'
  BY <1>1, <1>2, <1>4 DEF FlowsInv, SourceInv, Active
<1>8. AppendInv'
  <2> SUFFICES ASSUME partitioned, NEW r \in Row, copies'[r] > 0
               PROVE  /\ copies'[r] = 1
                      /\ \/ r.seq <= committed["append"]
                         \/ phase'["append"] = "written" /\ r.seq <= end["append"]
    BY <1>2 DEF AppendInv
  <2>1. CASE f = "append"
    <3>1. copies[r] > 0 => copies[r] = 1 /\ r.seq <= committed["append"]
      BY <1>2, <2>1 DEF FlowsInv, AppendInv
    <3>2. r \in batch[f] => committed["append"] < r.seq /\ r.seq <= end["append"]
      BY <2>1 DEF FlowsInv, FlowInv, BatchInv
    <3>3. /\ copies[r] \in Nat /\ r.seq \in Nat
          /\ committed["append"] \in Nat /\ end["append"] \in Nat
      <4>1. copies[r] \in Nat /\ r.seq \in Time
        BY DEF FlowsInv, TypeOK, Row
      <4>2. committed["append"] \in Time /\ end["append"] \in Time
        BY <2>1, FlowFacts
      <4>3. \A n \in Time : n \in Nat
        BY DEF Time
      <4>4. QED
        BY <4>1, <4>2, <4>3
    <3>4. CASE r \in batch[f]
      <4>1. ~ (copies[r] > 0)
        BY <3>1, <3>2, <3>3, <3>4
      <4>2. copies'[r] = 1
        BY <1>3, <3>3, <4>1
      <4>3. QED
        BY <1>2, <2>1, <3>2, <3>4, <4>2
    <3>5. CASE r \notin batch[f]
      <4>1. copies'[r] = copies[r]
        BY <1>3, <3>5
      <4>2. QED
        BY <3>1, <4>1
    <3>6. QED
      BY <3>4, <3>5
  <2>2. CASE f # "append"
    <3>1. copies'[r] = copies[r] /\ phase'["append"] = phase["append"]
      BY <1>2, <1>3, <2>2 DEF Flow
    <3>2. QED
      BY <3>1 DEF FlowsInv, AppendInv
  <2>3. QED
    BY <2>1, <2>2
<1>9. SnapshotInv'
  <2>1. phase'["snapshot"] = "idle"
    BY <1>1, <1>2, TableFacts DEF Flow
  <2>2. QED
    BY <2>1 DEF SnapshotInv
<1>10. OnlyRealChanges'
  <2>1. batch[f] \subseteq IF f = "delete" THEN tombstones ELSE posted
    BY DEF FlowsInv, FlowInv, BatchInv
  <2>2. table # "products" /\ OnlyRealChanges
    BY TableFacts DEF FlowsInv
  <2>3. ASSUME NEW k \in Key, replica'[k].seq # 0
        PROVE  IF replica'[k].deleted THEN [key |-> k, seq |-> replica'[k].seq] \in tombstones
               ELSE [key |-> k, seq |-> replica'[k].seq] \in posted
    <3>1. CASE replica'[k] = replica[k]
      BY <2>2, <2>3, <3>1 DEF OnlyRealChanges
    <3>2. CASE replica'[k] # replica[k]
      BY <1>3, <2>1, <3>2
    <3>3. QED
      BY <3>1, <3>2
  <2>4. ASSUME NEW r \in Row, copies'[r] > 0 PROVE r \in posted
    BY <1>3, <2>1, <2>2, <2>4 DEF OnlyRealChanges
  <2>5. QED
    BY <1>2, <1>4, <2>3, <2>4 DEF OnlyRealChanges
<1>11. ASSUME NEW g \in Active PROVE FlowInv(g)'
  <2>1. CASE g # f
    <3>1. g \in Flow /\ FlowInv(g) /\ Rows(g) \subseteq Row
      BY FlowFacts DEF FlowsInv
    <3>2. \A r \in Rows(g) : Delivered(g, r) => Delivered(g, r)'
      BY <1>5, <3>1
    <3>3. QED
      BY <1>2, <2>1, <3>1, <3>2, OthersKeep
  <2>2. CASE g = f
    <3>1. Rows(f)' = Rows(f) /\ Ahead(f)' = Ahead(f)
          /\ PageRecords(Listed(f), 1)' = PageRecords(Listed(f), 1)
      BY <1>2, RowsStay DEF Ahead
    <3>2. BatchInv(f) /\ PageInv(f) /\ AheadInv(f)
      BY DEF FlowsInv, FlowInv
    <3>3. BatchInv(f)'
      BY <1>2, <1>4, <3>2 DEF BatchInv
    <3>4. PageInv(f)'
      BY <1>2, <3>1, <3>2 DEF PageInv
    <3>5. \A r \in Ahead(f)' : Delivered(f, r)'
      BY <1>2, <1>3, <3>1, <3>2 DEF AheadInv
    <3>6. \A r \in Rows(f)' : r.seq <= committed'[f] => Delivered(f, r)'
      BY <1>1, <1>2, <1>5, <3>1, <3>2 DEF AheadInv
    <3>7. AheadInv(f)'
      BY <1>2, <3>5, <3>6 DEF AheadInv
    <3>8. QED
      BY <2>2, <3>3, <3>4, <3>7 DEF FlowInv
  <2>3. QED
    BY <2>1, <2>2
<1>12. QED
  BY <1>4, <1>6, <1>7, <1>8, <1>9, <1>10, <1>11 DEF FlowsInv

LEMMA CommitStep ==
  ASSUME FlowsInv, NEW f \in Active, Commit(f)
  PROVE  FlowsInv'
<1>1. /\ f \in Flow /\ f \in Streaming /\ f # "snapshot" /\ phase \in [Flow -> Phase]
      /\ committed \in [Flow -> Time] /\ batch \in [Flow -> SUBSET Row]
      /\ end[f] \in Time /\ clock \in Time /\ \A g \in Flow : committed[g] \in Nat /\ end[g] \in Nat
  <2>1. committed \in [Flow -> Time] /\ end \in [Flow -> Time]
    BY DEF FlowsInv, TypeOK
  <2>2. \A n \in Time : n \in Nat
    BY DEF Time
  <2>3. QED
    BY <2>1, <2>2, FlowFacts
<1>2. /\ phase[f] = "written" /\ phase' = [phase EXCEPT ![f] = "idle"]
      /\ committed' = [committed EXCEPT ![f] = end[f]]
      /\ batch' = [batch EXCEPT ![f] = {}]
      /\ phase'[f] = "idle" /\ committed'[f] = end[f] /\ batch'[f] = {}
      /\ \A g \in Flow \ {f} : /\ phase'[g] = phase[g] /\ committed'[g] = committed[g]
                               /\ batch'[g] = batch[g]
      /\ UNCHANGED <<sourceVars, partitioned, end, parts, page, replica, copies, failures,
                     posted, known>>
  BY <1>1 DEF Commit
<1>3. committed[f] < end[f] /\ end[f] <= clock
  BY <1>1, <1>2 DEF FlowsInv, TypeOK
<1>4. /\ table' = table /\ clock' = clock /\ records' = records
      /\ tombstones' = tombstones /\ GetAllRecords' = GetAllRecords
      /\ FlowsOf(table)' = FlowsOf(table) /\ Active' = Active
  <2>1. \A g \in Flow \ {f} : committed'[g] = committed[g]
    BY <1>2
  <2>2. FlowsOf(table)' = FlowsOf(table) /\ GetAllRecords' = GetAllRecords
    BY <1>2 DEF sourceVars, FlowsOf, GetAllRecords
  <2>3. QED
    BY <1>2, <2>2 DEF sourceVars, Active
<1>5. TypeOK'
  <2>1. SourceTypeOK'
    BY <1>4 DEF FlowsInv, TypeOK, SourceTypeOK
  <2>2. /\ phase' \in [Flow -> Phase] /\ committed' \in [Flow -> Time]
        /\ batch' \in [Flow -> SUBSET Row]
    BY <1>1, <1>2 DEF Phase
  <2>3. ASSUME NEW g \in Streaming
        PROVE  /\ committed'[g] <= clock'
               /\ phase'[g] = "idle" => batch'[g] = {}
               /\ phase'[g] # "idle" => committed'[g] < end'[g] /\ end'[g] <= clock'
    <3>1. CASE g = f
      BY <1>2, <1>3, <1>4, <3>1
    <3>2. CASE g # f
      BY <1>2, <1>4, <3>2 DEF FlowsInv, TypeOK, Streaming
    <3>3. QED
      BY <3>1, <3>2
  <2>4. QED
    BY <1>2, <2>1, <2>2, <2>3 DEF FlowsInv, TypeOK
<1>6. SourceInv'
  BY <1>1, <1>2, <1>4 DEF FlowsInv, SourceInv, Active
<1>7. AppendInv'
  <2> SUFFICES ASSUME partitioned, NEW r \in Row, copies[r] > 0
               PROVE  /\ copies[r] = 1
                      /\ \/ r.seq <= committed'["append"]
                         \/ phase'["append"] = "written" /\ r.seq <= end["append"]
    BY <1>2 DEF AppendInv
  <2>1. /\ copies[r] = 1
        /\ \/ r.seq <= committed["append"]
           \/ phase["append"] = "written" /\ r.seq <= end["append"]
    BY DEF FlowsInv, AppendInv
  <2>2. CASE f = "append"
    <3>1. r.seq \in Nat
      BY DEF Row, Time
    <3>2. QED
      BY <1>1, <1>2, <1>3, <2>1, <2>2, <3>1
  <2>3. CASE f # "append"
    BY <1>2, <2>1, <2>3 DEF Flow
  <2>4. QED
    BY <2>2, <2>3
<1>8. SnapshotInv'
  <2>1. phase'["snapshot"] = "idle"
    BY <1>1, <1>2, TableFacts DEF Flow
  <2>2. QED
    BY <2>1 DEF SnapshotInv
<1>9. OnlyRealChanges'
  BY <1>2, <1>4 DEF FlowsInv, OnlyRealChanges
<1>10. ASSUME NEW g \in Active PROVE FlowInv(g)'
  <2>1. CASE g # f
    <3>1. g \in Flow /\ FlowInv(g)
      BY FlowFacts DEF FlowsInv
    <3>2. \A r \in Rows(g) : Delivered(g, r) => Delivered(g, r)'
      BY <1>2 DEF Delivered
    <3>3. QED
      BY <1>2, <2>1, <3>1, <3>2, OthersKeep
  <2>2. CASE g = f
    <3>1. Rows(f)' = Rows(f) /\ \A r : Delivered(f, r)' = Delivered(f, r)
      BY <1>2, <1>4 DEF Rows, Delivered
    <3>2. BatchInv(f)' /\ PageInv(f)'
      BY <1>2 DEF BatchInv, PageInv
    <3>3. ASSUME NEW r \in Rows(f), r.seq <= end[f] PROVE Delivered(f, r)
      <4>1. r.seq \in Nat
        BY FlowFacts DEF Row, Time
      <4>2. r.seq <= committed[f] \/ r \in Ahead(f)
        BY <1>1, <3>3, <4>1 DEF Ahead
      <4>3. QED
        BY <1>2, <4>2 DEF FlowsInv, FlowInv, AheadInv
    <3>4. AheadInv(f)'
      BY <1>2, <3>1, <3>3 DEF AheadInv
    <3>5. QED
      BY <2>2, <3>2, <3>4 DEF FlowInv
  <2>3. QED
    BY <2>1, <2>2
<1>11. QED
  BY <1>4, <1>5, <1>6, <1>7, <1>8, <1>9, <1>10 DEF FlowsInv

-----------------------------------------------------------------------------
(* The steps of the batch reader *)

LEMMA SnapshotStep ==
  ASSUME FlowsInv, table = "products",
         UNCHANGED <<sourceVars, partitioned, committed, end, copies, posted>>,
         replica' \in [Key -> [seq : Time, deleted : BOOLEAN]],
         NEW stage \in Phase, phase' = [phase EXCEPT !["snapshot"] = stage],
         NEW rows \in SUBSET Row, batch' = [batch EXCEPT !["snapshot"] = rows],
         NEW left \in SUBSET (Partition \cup {Key}),
         parts' = [parts EXCEPT !["snapshot"] = left],
         page' \in [Partition \cup {Key} -> Nat \ {0}],
         failures' \in 0 .. MaxFailures, known' \subseteq posted,
         SnapshotInv'
  PROVE  FlowsInv'
<1>1. /\ table' = table /\ clock' = clock /\ records' = records
      /\ tombstones' = tombstones /\ GetAllRecords' = GetAllRecords
      /\ FlowsOf(table)' = FlowsOf(table)
  BY DEF sourceVars, GetAllRecords, FlowsOf
<1>2. Active' = {}
  BY <1>1 DEF Active, FlowsOf, Streaming
<1>3. /\ phase \in [Flow -> Phase] /\ batch \in [Flow -> SUBSET Row]
      /\ parts \in [Flow -> SUBSET (Partition \cup {Key})]
  BY DEF FlowsInv, TypeOK
<1>4. \A f \in Flow \ {"snapshot"} : phase'[f] = phase[f] /\ batch'[f] = batch[f]
  BY <1>3
<1>5. TypeOK'
  <2>1. SourceTypeOK'
    BY <1>1 DEF FlowsInv, TypeOK, SourceTypeOK
  <2>2. /\ phase' \in [Flow -> Phase] /\ batch' \in [Flow -> SUBSET Row]
        /\ parts' \in [Flow -> SUBSET (Partition \cup {Key})]
    BY <1>3
  <2>3. \A f \in Streaming : /\ committed'[f] <= clock'
                             /\ phase'[f] = "idle" => batch'[f] = {}
                             /\ phase'[f] # "idle" => committed'[f] < end'[f] /\ end'[f] <= clock'
    BY <1>1, <1>4 DEF FlowsInv, TypeOK, Streaming
  <2>4. QED
    BY <2>1, <2>2, <2>3 DEF FlowsInv, TypeOK
<1>6. SourceInv'
  BY <1>1, <1>4 DEF FlowsInv, SourceInv, FlowsOf
<1>7. AppendInv'
  BY <1>4 DEF FlowsInv, AppendInv, Flow
<1>8. OnlyRealChanges'
  BY <1>1 DEF OnlyRealChanges
<1>9. QED
  BY <1>2, <1>5, <1>6, <1>7, <1>8 DEF FlowsInv

LEMMA SnapshotFacts ==
  ASSUME FlowsInv
  PROVE  /\ phase \in [Flow -> Phase] /\ "snapshot" \in Flow
         /\ batch \in [Flow -> SUBSET Row] /\ batch["snapshot"] \in SUBSET Row
         /\ parts \in [Flow -> SUBSET (Partition \cup {Key})]
         /\ parts["snapshot"] \in SUBSET (Partition \cup {Key})
         /\ page \in [Partition \cup {Key} -> Nat \ {0}]
         /\ replica \in [Key -> [seq : Time, deleted : BOOLEAN]]
         /\ failures \in 0 .. MaxFailures /\ known \subseteq posted
         /\ GetAllRecords \subseteq Row /\ GetAllRecords \subseteq posted
         /\ posted \subseteq Row /\ records \in [Key -> Time]
  BY RowFacts DEF FlowsInv, TypeOK, SourceTypeOK, SourceInv, Flow

LEMMA PlanBatchStep ==
  ASSUME FlowsInv, table = "products", NEW supported \in BOOLEAN, PlanBatch(supported)
  PROVE  FlowsInv'
<1> DEFINE left == BatchPartitions(supported)
<1>1. /\ phase' = [phase EXCEPT !["snapshot"] = "reading"] /\ phase'["snapshot"] = "reading"
      /\ parts' = [parts EXCEPT !["snapshot"] = left] /\ parts'["snapshot"] = left
      /\ page' = [p \in Partition \cup {Key} |-> 1]
      /\ known' = GetAllRecords
      /\ UNCHANGED <<sourceVars, partitioned, committed, end, batch, replica, copies,
                     failures, posted>>
  BY SnapshotFacts DEF PlanBatch
<1>2. /\ left \in SUBSET (Partition \cup {Key}) /\ left # {}
      /\ \A k \in Key : \E p \in left : k \in p
  BY FlowsAssumption, SourceAssumption DEF BatchPartitions
<1> HIDE DEF left
<1>3. /\ records' = records /\ GetAllRecords' = GetAllRecords
      /\ \A p : RecordsIn(p)' = RecordsIn(p) /\ RecordsIn(p) \in SUBSET Row
      /\ \A k : RecordOf(k)' = RecordOf(k)
      /\ \A r, rows : Start(r, rows)' = Start(r, rows)
  BY <1>1, SnapshotFacts DEF sourceVars, GetAllRecords, RecordsIn, RecordOf, Start, Before
<1>4. ASSUME NEW r \in known'
      PROVE  /\ records'[r.key] >= r.seq
             /\ \E p \in left : ToCome(r, p)'
  <2>1. r \in GetAllRecords /\ r \in Row /\ r = RecordOf(r.key)
    BY <1>1, SnapshotFacts DEF GetAllRecords, RecordOf
  <2>2. r.key \in Key /\ records[r.key] = r.seq /\ r.seq \in Nat
    BY <2>1 DEF Row, Time, RecordOf
  <2>3. PICK p \in left : r.key \in p
    BY <1>2, <2>2
  <2>4. Start(r, RecordsIn(p)) \in Nat
    BY <1>3, <2>1, StartInRange
  <2>5. page'[p] = 1 /\ (1 - 1) * MaxPageSize = 0
    BY <1>1, <1>2, SourceAssumption
  <2>6. Start(RecordOf(r.key), RecordsIn(p))' = Start(r, RecordsIn(p))
    BY <1>3, <2>1 DEF Start, Before, sourceVars
  <2>7. ToCome(r, p)'
    BY <2>3, <2>4, <2>5, <2>6 DEF ToCome
  <2>8. QED
    BY <1>3, <2>2, <2>3, <2>7
<1>5. SnapshotInv'
  BY <1>1, <1>2, <1>4 DEF SnapshotInv
<1>6. /\ page' \in [Partition \cup {Key} -> Nat \ {0}] /\ known' \subseteq posted
      /\ batch' = [batch EXCEPT !["snapshot"] = batch["snapshot"]]
      /\ batch["snapshot"] \in SUBSET Row /\ failures' \in 0 .. MaxFailures
      /\ replica' \in [Key -> [seq : Time, deleted : BOOLEAN]]
  BY <1>1, SnapshotFacts
<1>7. QED
  BY <1>1, <1>2, <1>5, <1>6, SnapshotStep DEF Phase

\* What one page of a partition adds, and where the rows it leaves are.
LEMMA PageRead ==
  ASSUME NEW rows \in SUBSET Row, NEW number \in Nat \ {0}, NEW r \in rows,
         Start(r, rows) >= (number - 1) * MaxPageSize
  PROVE  \/ r \in PageRecords(rows, number)
         \/ NextPage(rows, number) = number + 1 /\ Start(r, rows) >= number * MaxPageSize
<1> DEFINE place == Start(r, rows)
           low == (number - 1) * MaxPageSize
           high == number * MaxPageSize
<1>1. /\ place \in Nat /\ Cardinality(rows) \in Nat /\ place < Cardinality(rows)
      /\ low \in Int /\ high \in Int
  BY StartInRange, SourceAssumption
<1>2. /\ r \in PageRecords(rows, number) <=> place \in low .. high - 1
      /\ NextPage(rows, number) = IF high < Cardinality(rows) THEN number + 1 ELSE NoPage
  BY DEF PageRecords, NextPage
<1>3. place >= low
  OBVIOUS
<1>4. place \in low .. high - 1 \/ (high < Cardinality(rows) /\ place >= high)
  <2> HIDE DEF place, low, high
  <2>1. QED
    BY <1>1, <1>3
<1>5. CASE place \in low .. high - 1
  BY <1>2, <1>5
<1>6. CASE high < Cardinality(rows) /\ place >= high
  BY <1>2, <1>6
<1>7. QED
  BY <1>4, <1>5, <1>6

LEMMA ReadPageStep ==
  ASSUME FlowsInv, table = "products", NEW p \in Partition \cup {Key}, ReadPage(p)
  PROVE  FlowsInv'
<1> DEFINE next == NextPage(RecordsIn(p), page[p])
           last == next = NoPage
           read == PageRecords(RecordsIn(p), page[p])
           rows == batch["snapshot"] \cup read
           left == IF last THEN parts["snapshot"] \ {p} ELSE parts["snapshot"]
           stage == IF last /\ parts["snapshot"] = {p} THEN "ready" ELSE "reading"
<1>1. /\ phase \in [Flow -> Phase] /\ "snapshot" \in Flow
      /\ batch \in [Flow -> SUBSET Row] /\ batch["snapshot"] \in SUBSET Row
      /\ parts \in [Flow -> SUBSET (Partition \cup {Key})]
      /\ parts["snapshot"] \in SUBSET (Partition \cup {Key})
      /\ page \in [Partition \cup {Key} -> Nat \ {0}] /\ page[p] \in Nat \ {0}
      /\ GetAllRecords \subseteq Row
  BY SnapshotFacts
<1>2. RecordsIn(p) = {r \in GetAllRecords : r.key \in p} /\ RecordsIn(p) \in SUBSET Row
  BY <1>1 DEF RecordsIn
<1>3. /\ phase["snapshot"] = "reading" /\ p \in parts["snapshot"]
      /\ page' = IF last THEN page ELSE [page EXCEPT ![p] = next]
      /\ UNCHANGED <<sourceVars, partitioned, committed, end, replica, copies, failures,
                     posted, known>>
  BY <1>2 DEF ReadPage
<1>4. /\ batch' = [batch EXCEPT !["snapshot"] = rows] /\ batch'["snapshot"] = rows
      /\ parts' = [parts EXCEPT !["snapshot"] = left] /\ parts'["snapshot"] = left
      /\ phase' = [phase EXCEPT !["snapshot"] = stage] /\ phase'["snapshot"] = stage
  BY <1>1, <1>2, <1>3 DEF ReadPage
<1>5. next \in Nat /\ (~ last => next \in Nat \ {0} /\ next = page[p] + 1)
  BY <1>1 DEF NextPage, NoPage
<1>6. rows \in SUBSET Row /\ left \in SUBSET (Partition \cup {Key})
      /\ (stage = "reading" => left # {}) /\ (stage = "ready" => left = {})
      /\ stage \in {"reading", "ready"}
  BY <1>1, <1>2, <1>3 DEF PageRecords
<1>7. page' \in [Partition \cup {Key} -> Nat \ {0}]
      /\ (~ last => page'[p] = next) /\ \A q \in Partition \cup {Key} : q # p => page'[q] = page[q]
  BY <1>1, <1>3, <1>5
<1>8. /\ \A q : RecordsIn(q)' = RecordsIn(q)
      /\ \A k : RecordOf(k)' = RecordOf(k)
      /\ records' = records
  BY <1>3 DEF sourceVars, GetAllRecords, RecordsIn, RecordOf
<1>9. \A q, r : Start(RecordOf(r.key), RecordsIn(q))' = Start(RecordOf(r.key), RecordsIn(q))
  BY <1>3, <1>8 DEF Start, Before, sourceVars
<1>10. \A r \in known : Covered(r) => Covered(r)'
  BY <1>4 DEF Covered
<1>11. ASSUME NEW r \in known
       PROVE  Covered(r)' \/ \E q \in left : ToCome(r, q)'
  <2>1. CASE Covered(r)
    BY <1>10, <2>1
  <2>2. ASSUME NEW q \in parts["snapshot"], ToCome(r, q), q # p
        PROVE  \E x \in left : ToCome(r, x)'
    <3>1. ToCome(r, q)'
      BY <1>1, <1>7, <1>9, <2>2 DEF ToCome
    <3>2. q \in left
      BY <2>2
    <3>3. QED
      BY <3>1, <3>2
  <2>3. CASE ToCome(r, p)
    <3>1. records[r.key] >= r.seq /\ r.seq \in Nat \ {0} /\ r.key \in Key
      BY <1>3, SnapshotFacts DEF FlowsInv, SnapshotInv, Row, Time
    <3>2. records[r.key] \in Nat
      BY <3>1, SnapshotFacts DEF Time
    <3>3. RecordOf(r.key) \in RecordsIn(p)
      BY <2>3, <3>1, <3>2 DEF RecordOf, RecordsIn, GetAllRecords, ToCome
    <3>4. Start(RecordOf(r.key), RecordsIn(p)) >= (page[p] - 1) * MaxPageSize /\ r.key \in p
      BY <2>3 DEF ToCome
    <3>5. CASE RecordOf(r.key) \in read
      BY <1>4, <3>1, <3>5 DEF Covered, RecordOf
    <3>6. CASE /\ next = page[p] + 1
               /\ Start(RecordOf(r.key), RecordsIn(p)) >= page[p] * MaxPageSize
      <4>1. ~ last /\ p \in left /\ page'[p] = page[p] + 1
        BY <1>1, <1>3, <1>7, <3>6 DEF NoPage
      <4>2. page'[p] - 1 = page[p]
        BY <1>1, <4>1
      <4>3. Start(RecordOf(r.key), RecordsIn(p))' = Start(RecordOf(r.key), RecordsIn(p))
        BY <1>9
      <4>4. ToCome(r, p)'
        BY <3>4, <3>6, <4>2, <4>3 DEF ToCome
      <4>5. QED
        BY <4>1, <4>4
    <3>7. QED
      BY <1>1, <1>2, <3>3, <3>4, <3>5, <3>6, PageRead
  <2>4. QED
    BY <1>3, <2>1, <2>2, <2>3 DEF FlowsInv, SnapshotInv
<1>12. \A r \in known : records[r.key] >= r.seq
  BY <1>3 DEF FlowsInv, SnapshotInv
<1> HIDE DEF next, last, read, rows, left, stage
<1>13. SnapshotInv'
  BY <1>3, <1>4, <1>6, <1>8, <1>11, <1>12 DEF SnapshotInv
<1>14. /\ failures' \in 0 .. MaxFailures /\ known' \subseteq posted /\ stage \in Phase
       /\ replica' \in [Key -> [seq : Time, deleted : BOOLEAN]]
  BY <1>3, <1>6, SnapshotFacts DEF Phase
<1>15. QED
  BY <1>3, <1>4, <1>6, <1>7, <1>13, <1>14, SnapshotStep

LEMMA ReplacedType ==
  ASSUME NEW rows \in SUBSET Row
  PROVE  Replaced(rows) \in [Key -> [seq : Time, deleted : BOOLEAN]]
<1>1. 0 \in Time
  BY SourceAssumption DEF Time
<1>2. \A k \in Key : LastSeq({r \in rows : r.key = k}, 0) \in Time
  <2> TAKE k \in Key
  <2>1. {r \in rows : r.key = k} \in SUBSET Row
    OBVIOUS
  <2>2. QED
    BY <1>1, <2>1, LastSeqIsTheLast
<1>3. QED
  BY <1>2 DEF Replaced

LEMMA SnapshotWriteStep ==
  ASSUME FlowsInv, table = "products", Write("snapshot")
  PROVE  FlowsInv'
<1>1. /\ phase' = [phase EXCEPT !["snapshot"] = "written"] /\ phase'["snapshot"] = "written"
      /\ replica' = Replaced(batch["snapshot"]) /\ copies' = copies
      /\ UNCHANGED <<sourceVars, partitioned, committed, end, batch, parts, page, failures,
                     posted, known>>
  BY SnapshotFacts DEF Write
<1>2. replica' \in [Key -> [seq : Time, deleted : BOOLEAN]]
  BY <1>1, SnapshotFacts, ReplacedType
<1>3. SnapshotInv'
  BY <1>1 DEF SnapshotInv
<1>4. /\ batch' = [batch EXCEPT !["snapshot"] = batch["snapshot"]]
      /\ parts' = [parts EXCEPT !["snapshot"] = parts["snapshot"]]
      /\ page' \in [Partition \cup {Key} -> Nat \ {0}]
      /\ failures' \in 0 .. MaxFailures /\ known' \subseteq posted
      /\ batch["snapshot"] \in SUBSET Row
      /\ parts["snapshot"] \in SUBSET (Partition \cup {Key})
  BY <1>1, SnapshotFacts
<1>5. QED
  BY <1>1, <1>2, <1>3, <1>4, SnapshotStep DEF Phase

\* Committed or failed, the batch is no longer in hand and the next snapshot
\* starts over.
LEMMA SnapshotEndsStep ==
  ASSUME FlowsInv, table = "products", Commit("snapshot") \/ Fail("snapshot")
  PROVE  FlowsInv'
<1>1. /\ phase' = [phase EXCEPT !["snapshot"] = "idle"] /\ phase'["snapshot"] = "idle"
      /\ batch' = [batch EXCEPT !["snapshot"] = {}]
      /\ UNCHANGED <<sourceVars, partitioned, committed, end, page, replica, copies, posted,
                     known>>
  BY SnapshotFacts DEF Commit, Fail
<1>2. failures' \in 0 .. MaxFailures
  <2>1. CASE Commit("snapshot")
    BY <2>1, SnapshotFacts DEF Commit
  <2>2. CASE Fail("snapshot")
    BY <2>2, SnapshotFacts, FlowsAssumption DEF Fail
  <2>3. QED
    BY <2>1, <2>2
<1>3. PICK left \in SUBSET (Partition \cup {Key}) : parts' = [parts EXCEPT !["snapshot"] = left]
  <2>1. CASE Commit("snapshot")
    <3>1. parts' = [parts EXCEPT !["snapshot"] = parts["snapshot"]]
      BY <2>1, SnapshotFacts DEF Commit
    <3>2. QED
      BY <3>1, SnapshotFacts
  <2>2. CASE Fail("snapshot")
    BY <2>2 DEF Fail
  <2>3. QED
    BY <2>1, <2>2
<1>4. SnapshotInv'
  BY <1>1 DEF SnapshotInv
<1>5. /\ page' \in [Partition \cup {Key} -> Nat \ {0}] /\ known' \subseteq posted
      /\ replica' \in [Key -> [seq : Time, deleted : BOOLEAN]]
      /\ {} \in SUBSET Row /\ "idle" \in Phase
      /\ UNCHANGED <<sourceVars, partitioned, committed, end, copies, posted>>
  BY <1>1, SnapshotFacts DEF Phase
<1>6. QED
  BY <1>1, <1>2, <1>3, <1>4, <1>5, SnapshotStep

-----------------------------------------------------------------------------
(* Changes of the source *)

\* Where rows are sorted by key, a row moves back at most: keys that had a row
\* before another still have one.
LEMMA StartOnlyGrows ==
  ASSUME ~ HasCursor(table), NEW rows \in SUBSET Row, NEW more \in SUBSET Row,
         NEW r, NEW q, r.key = q.key,
         \A s, t \in rows : s.key = t.key => s = t,
         \A s \in rows : \E t \in more : t.key = s.key
  PROVE  Start(r, rows) <= Start(q, more)
<1> DEFINE before == {s \in rows : Before(s, r)}
           after == {t \in more : Before(t, q)}
           move == [s \in before |-> CHOOSE t \in more : t.key = s.key]
<1>1. \A s \in before : move[s] \in more /\ move[s].key = s.key
  OBVIOUS
<1>2. \A s \in before : move[s] \in after
  BY <1>1 DEF Before
<1>3. \A s, t \in before : move[s] = move[t] => s = t
  BY <1>1
<1>4. move \in Injection(before, after)
  <2>1. move \in [before -> after]
    BY <1>2
  <2>2. QED
    BY <1>3, <2>1 DEF Injection, IsInjective
<1>5. IsFiniteSet(after)
  BY RowsAreFinite
<1>6. Start(r, rows) = Cardinality(before) /\ Start(q, more) = Cardinality(after)
  BY DEF Start
<1> HIDE DEF before, after, move
<1>7. QED
  BY <1>4, <1>5, <1>6, FS_Injection

\* A change adds rows of one new time and takes away at most a record, of the
\* one table that allows it.
LEMMA ChangeFacts ==
  ASSUME TypeOK, Change
  PROVE  /\ table' = table /\ clock' = clock + 1 /\ clock + 1 \in Time /\ clock \in Nat
         /\ SourceTypeOK'
         /\ \A k \in Key : \/ records'[k] \in {records[k], clock + 1}
                           \/ records'[k] = 0 /\ table = "orders"
         /\ tombstones \subseteq tombstones'
         /\ \A r \in tombstones' : r \in tombstones \/ r.seq = clock + 1
         /\ posted' = posted \cup GetAllRecords' /\ posted' \subseteq Row
         /\ UNCHANGED <<partitioned, phase, committed, end, batch, parts, page, replica,
                        copies, failures, known>>
<1>1. /\ clock \in Time /\ records \in [Key -> Time] /\ tombstones \subseteq Row
      /\ table \in Tables /\ posted \subseteq Row
  BY DEF TypeOK, SourceTypeOK
<1>2. clock \in Nat /\ 0 \in Time /\ MaxTime \in Nat
  BY <1>1, SourceAssumption DEF Time
<1>3. PICK k \in Key : PostRecord(k) \/ DeleteRecord(k)
  BY DEF Change, SourceNext
<1>4. clock < MaxTime /\ clock' = clock + 1 /\ table' = table
  BY <1>3 DEF PostRecord, DeleteRecord
<1>5. clock + 1 \in Time \ {0} /\ [key |-> k, seq |-> clock + 1] \in Row
  BY <1>2, <1>4 DEF Time, Row
<1>6. /\ posted' = posted \cup GetAllRecords' /\ (SourceTypeOK' => posted' \subseteq Row)
      /\ UNCHANGED <<partitioned, phase, committed, end, batch, parts, page, replica,
                     copies, failures, known>>
  <2>1. posted' = posted \cup GetAllRecords'
    BY DEF Change, GetAllRecords
  <2>2. SourceTypeOK' => GetAllRecords' \subseteq Row
    BY DEF SourceTypeOK, GetAllRecords, Row
  <2>3. QED
    BY <1>1, <2>1, <2>2 DEF Change
<1>7. CASE PostRecord(k)
  <2>1. /\ records' = [records EXCEPT ![k] = clock + 1] /\ tombstones' = tombstones
        /\ records' \in [Key -> Time]
    BY <1>1, <1>5, <1>7 DEF PostRecord
  <2>2. SourceTypeOK'
    BY <1>1, <1>4, <1>5, <2>1 DEF SourceTypeOK
  <2>3. \A l \in Key : records'[l] \in {records[l], clock + 1}
    BY <1>1, <2>1
  <2>4. QED
    BY <1>2, <1>4, <1>5, <1>6, <2>1, <2>2, <2>3
<1>8. CASE DeleteRecord(k)
  <2>1. /\ records' = [records EXCEPT ![k] = 0] /\ records' \in [Key -> Time]
        /\ tombstones' = tombstones \cup {[key |-> k, seq |-> clock + 1]}
        /\ table = "orders"
    BY <1>1, <1>2, <1>8 DEF DeleteRecord, AllowsDelete
  <2>2. SourceTypeOK'
    BY <1>1, <1>4, <1>5, <2>1 DEF SourceTypeOK
  <2>3. \A l \in Key : \/ records'[l] = records[l]
                       \/ records'[l] = 0 /\ table = "orders"
    BY <1>1, <2>1
  <2>4. \A r \in tombstones' : r \in tombstones \/ r.seq = clock + 1
    BY <2>1
  <2>5. QED
    BY <1>2, <1>4, <1>5, <1>6, <2>1, <2>2, <2>3, <2>4
<1>9. QED
  BY <1>3, <1>7, <1>8

\* A flow with a batch in hand finds nothing new below its end, and a row of
\* the batch is still on the page it was on.
LEMMA FlowAfterChange ==
  ASSUME FlowsInv, Change, NEW f \in Active
  PROVE  FlowInv(f)'
<1>1. /\ table' = table /\ clock' = clock + 1 /\ clock \in Nat /\ SourceTypeOK'
      /\ tombstones \subseteq tombstones'
      /\ posted' = posted \cup GetAllRecords'
      /\ UNCHANGED <<partitioned, phase, committed, end, batch, parts, replica, copies>>
  BY ChangeFacts DEF FlowsInv
<1>2. ASSUME NEW r \in Rows(f)'
      PROVE  /\ r \in Row /\ r.seq \in Nat
             /\ r \in Rows(f) \/ r.seq = clock + 1
  <2>1. r \in Row /\ r.seq \in Nat
    <3>1. GetAllRecords' \subseteq Row /\ tombstones' \subseteq Row
      BY <1>1 DEF GetAllRecords, SourceTypeOK, Row
    <3>2. QED
      BY <3>1 DEF Rows, Row, Time
  <2>2. CASE f = "delete"
    BY <2>1, <2>2, ChangeFacts DEF FlowsInv, Rows
  <2>3. CASE f # "delete"
    <3>1. PICK k \in Key : records'[k] # 0 /\ r = [key |-> k, seq |-> records'[k]]
      BY <2>3 DEF Rows, GetAllRecords
    <3>2. records'[k] = records[k] \/ records'[k] = clock + 1
      BY <3>1, ChangeFacts DEF FlowsInv
    <3>3. QED
      BY <2>1, <2>3, <3>1, <3>2 DEF Rows, GetAllRecords
  <2>4. QED
    BY <2>1, <2>2, <2>3
<1>3. /\ committed[f] \in Nat /\ end[f] \in Nat /\ committed[f] <= clock
      /\ phase[f] # "idle" => end[f] <= clock
      /\ Listed(f) \in SUBSET Row
      /\ Listed(f) = {r \in Rows(f) : r.seq > committed[f]}
  <2>1. f \in Streaming /\ committed[f] \in Time /\ end[f] \in Time
    BY FlowFacts
  <2>2. committed[f] <= clock /\ (phase[f] # "idle" => end[f] <= clock)
    BY <2>1 DEF FlowsInv, TypeOK
  <2>3. QED
    BY <2>1, <2>2, FlowFacts DEF Time
<1>4. PICK rest : rest = Listed(f)'
  OBVIOUS
<1>5. rest = {r \in Rows(f)' : r.seq > committed[f]} /\ rest \in SUBSET Row
  <2>1. rest = {r \in Rows(f)' : r.seq > committed[f]}
    BY <1>1, <1>4 DEF Listed, Rows, ListRecords, ListDeletedRecords
  <2>2. QED
    BY <1>2, <2>1
<1>6. phase[f] # "idle" => Ahead(f)' \subseteq Ahead(f)
  BY <1>1, <1>2, <1>3 DEF Ahead
<1>7. BatchInv(f)'
  BY <1>1 DEF FlowsInv, FlowInv, BatchInv
<1>8. PageInv(f)'
  <2> SUFFICES ASSUME ~ partitioned
               PROVE  /\ phase[f] # "reading"
                      /\ phase[f] # "idle" => Ahead(f)' \subseteq PageRecords(Listed(f), 1)'
                      /\ phase[f] = "found" => Ahead(f)' \subseteq batch[f]
    BY <1>1 DEF PageInv
  <2>1. /\ phase[f] # "reading"
        /\ phase[f] # "idle" => Ahead(f) \subseteq PageRecords(Listed(f), 1)
        /\ phase[f] = "found" => Ahead(f) \subseteq batch[f]
    BY DEF FlowsInv, FlowInv, PageInv
  <2>2. ASSUME phase[f] # "idle", NEW r \in Ahead(f)' PROVE r \in PageRecords(Listed(f), 1)'
    <3>1. r \in Ahead(f) /\ r \in PageRecords(Listed(f), 1)
      BY <1>6, <2>1, <2>2
    <3>2. r \in Rows(f)' /\ committed[f] < r.seq /\ r.seq <= end[f] /\ r.seq \in Nat
      BY <1>1, <1>2, <2>2 DEF Ahead
    <3>3. r \in rest
      BY <1>3, <1>5, <3>2
    <3>4. ASSUME NEW s \in rest, Before(s, r) PROVE s \in Listed(f)
      <4>1. s.seq < r.seq
        BY <3>4, TableFacts DEF Before
      <4>2. s.seq \in Nat /\ s.seq > committed[f] /\ (s \in Rows(f) \/ s.seq = clock + 1)
        BY <1>2, <1>5, <3>4
      <4>3. s \in Rows(f)
        BY <1>1, <1>3, <2>2, <3>2, <4>1, <4>2
      <4>4. QED
        BY <1>3, <4>2, <4>3
    <3>5. r \in PageRecords(rest, 1)
      BY <1>3, <1>5, <3>1, <3>3, <3>4, FirstPageKeeps
    <3>6. PageRecords(Listed(f), 1)' = PageRecords(rest, 1)
      BY <1>1, <1>4 DEF PageRecords, Start, Before
    <3>7. QED
      BY <3>5, <3>6
  <2>3. QED
    BY <1>6, <2>1, <2>2
<1>9. AheadInv(f)'
  <2>1. \A r : Delivered(f, r)' = Delivered(f, r)
    BY <1>1 DEF Delivered
  <2>2. AheadInv(f)
    BY DEF FlowsInv, FlowInv
  <2>3. \A r \in Rows(f)' : r.seq <= committed'[f] => Delivered(f, r)'
    <3> TAKE r \in Rows(f)'
    <3>1. r.seq <= committed[f] => r \in Rows(f)
      BY <1>1, <1>2, <1>3
    <3>2. QED
      BY <1>1, <2>1, <2>2, <3>1 DEF AheadInv
  <2>4. QED
    BY <1>1, <1>6, <2>1, <2>2, <2>3 DEF AheadInv
<1>10. QED
  BY <1>7, <1>8, <1>9 DEF FlowInv

\* Records replaced while a snapshot is read are newer than it has to have
\* them, and records added push others to later pages.
LEMMA SnapshotAfterChange ==
  ASSUME FlowsInv, Change
  PROVE  SnapshotInv'
<1>1. /\ table' = table /\ clock' = clock + 1 /\ clock \in Nat
      /\ UNCHANGED <<phase, batch, parts, page, known>>
      /\ posted' \subseteq Row /\ GetAllRecords' \subseteq posted'
  BY ChangeFacts DEF FlowsInv
<1> SUFFICES ASSUME phase["snapshot"] \in {"reading", "ready"}
             PROVE  SnapshotInv'
  BY <1>1 DEF SnapshotInv
<1>2. table = "products" /\ ~ HasCursor(table)
  BY TableFacts DEF HasCursor
<1>3. \A k \in Key : records[k] \in Nat /\ records'[k] \in Nat /\ records[k] <= clock
  <2>1. records \in [Key -> Time] /\ records' \in [Key -> Time]
    BY ChangeFacts DEF FlowsInv, TypeOK, SourceTypeOK
  <2>2. QED
    BY <2>1 DEF FlowsInv, SourceInv, Time
<1>4. \A k \in Key : records'[k] >= records[k] /\ (records[k] # 0 => records'[k] # 0)
  BY <1>1, <1>2, <1>3, ChangeFacts DEF FlowsInv
<1>5. \A r \in known : r.key \in Key /\ r.seq \in Nat /\ records[r.key] >= r.seq
  <2>1. known \subseteq Row
    BY SnapshotFacts
  <2>2. QED
    BY <2>1 DEF FlowsInv, SnapshotInv, Row, Time
<1>6. \A r \in known : records'[r.key] >= r.seq
  BY <1>3, <1>4, <1>5
<1>7. \A r : Covered(r)' = Covered(r)
  BY <1>1 DEF Covered
<1>8. ASSUME NEW r \in known, NEW p \in Partition \cup {Key}, ToCome(r, p)
      PROVE  ToCome(r, p)'
  <2>1. PICK more : more = RecordsIn(p)'
    OBVIOUS
  <2>2. PICK q : q = RecordOf(r.key)'
    OBVIOUS
  <2>3. RecordsIn(p) \in SUBSET Row /\ more \in SUBSET Row
    BY <1>1, <2>1, SnapshotFacts DEF RecordsIn
  <2>4. RecordOf(r.key).key = q.key
    BY <2>2 DEF RecordOf
  <2>5. \A s, t \in RecordsIn(p) : s.key = t.key => s = t
    BY DEF RecordsIn, GetAllRecords
  <2>6. ASSUME NEW s \in RecordsIn(p) PROVE \E t \in more : t.key = s.key
    <3>1. s.key \in Key /\ s.key \in p /\ records[s.key] # 0
      BY DEF RecordsIn, GetAllRecords
    <3>2. [key |-> s.key, seq |-> records'[s.key]] \in more
      BY <1>4, <2>1, <3>1 DEF RecordsIn, GetAllRecords
    <3>3. QED
      BY <3>2
  <2>7. Start(RecordOf(r.key), RecordsIn(p)) <= Start(q, more)
    BY <1>2, <2>3, <2>4, <2>5, <2>6, StartOnlyGrows
  <2>8. Start(RecordOf(r.key), RecordsIn(p))' = Start(q, more)
    BY <1>1, <2>1, <2>2 DEF Start, Before
  <2>9. Start(RecordOf(r.key), RecordsIn(p)) \in Nat /\ Start(q, more) \in Nat
    <3>1. IsFiniteSet({s \in RecordsIn(p) : Before(s, RecordOf(r.key))})
      BY <2>3, RowsAreFinite
    <3>2. IsFiniteSet({s \in more : Before(s, q)})
      BY <2>3, RowsAreFinite
    <3>3. QED
      BY <3>1, <3>2, FS_CardinalityType DEF Start
  <2>10. (page[p] - 1) * MaxPageSize \in Int
    <3>1. page[p] \in Nat
      BY SnapshotFacts
    <3>2. QED
      BY <3>1, SourceAssumption
  <2>11. r.key \in p /\ Start(RecordOf(r.key), RecordsIn(p)) >= (page[p] - 1) * MaxPageSize
    BY <1>8 DEF ToCome
  <2>12. Start(q, more) >= (page[p] - 1) * MaxPageSize
    <3> DEFINE low == (page[p] - 1) * MaxPageSize
    <3> HIDE DEF low
    <3>1. low \in Int /\ Start(RecordOf(r.key), RecordsIn(p)) >= low
      BY <2>10, <2>11 DEF low
    <3>2. Start(q, more) >= low
      BY <2>7, <2>9, <3>1
    <3>3. QED
      BY <3>2 DEF low
  <2>13. QED
    BY <1>1, <2>8, <2>11, <2>12 DEF ToCome
<1>9. SnapshotInv
  BY DEF FlowsInv
<1>10. parts["snapshot"] \subseteq Partition \cup {Key}
  BY SnapshotFacts
<1>11. phase["snapshot"] = "reading" =>
         \A r \in known : Covered(r) \/ \E p \in parts["snapshot"] : ToCome(r, p)'
  BY <1>8, <1>9, <1>10 DEF SnapshotInv
<1>12. QED
  BY <1>1, <1>6, <1>7, <1>9, <1>11 DEF SnapshotInv

LEMMA ChangeTypes ==
  ASSUME TypeOK, SourceInv, Change
  PROVE  TypeOK' /\ SourceInv'
<1>1. /\ table' = table /\ clock' = clock + 1 /\ clock + 1 \in Time /\ clock \in Nat
      /\ SourceTypeOK' /\ tombstones \subseteq tombstones'
      /\ posted' = posted \cup GetAllRecords' /\ posted' \subseteq Row
      /\ UNCHANGED <<partitioned, phase, committed, end, batch, parts, page, replica,
                     copies, failures, known>>
  BY ChangeFacts
<1>2. TypeOK'
  <2>1. \A f \in Streaming : committed[f] \in Nat /\ end[f] \in Nat
    BY DEF TypeOK, Streaming, Time
  <2>2. known' \subseteq posted'
    BY <1>1 DEF TypeOK
  <2>3. \A f \in Streaming : /\ committed'[f] <= clock'
                             /\ phase'[f] = "idle" => batch'[f] = {}
                             /\ phase'[f] # "idle" => committed'[f] < end'[f] /\ end'[f] <= clock'
    BY <1>1, <2>1 DEF TypeOK
  <2>4. QED
    BY <1>1, <2>2, <2>3 DEF TypeOK
<1>3. SourceInv'
  <2>1. \A k \in Key : records[k] \in Nat
    BY DEF TypeOK, SourceTypeOK, Time
  <2>2. \A k \in Key : records'[k] <= clock'
    BY <1>1, <2>1, ChangeFacts DEF SourceInv
  <2>3. \A r \in tombstones' : r.seq <= clock'
    <3>1. \A r \in tombstones : r.seq \in Nat /\ r.seq <= clock
      BY DEF TypeOK, SourceTypeOK, SourceInv, Row, Time
    <3>2. QED
      BY <1>1, <3>1, ChangeFacts
  <2>4. FlowsOf(table)' = FlowsOf(table)
    BY <1>1 DEF FlowsOf
  <2>5. QED
    BY <1>1, <2>2, <2>3, <2>4 DEF SourceInv
<1>4. QED
  BY <1>2, <1>3

LEMMA ChangeStep ==
  ASSUME FlowsInv, Change
  PROVE  FlowsInv'
<1>1. /\ table' = table
      /\ posted' = posted \cup GetAllRecords' /\ tombstones \subseteq tombstones'
      /\ UNCHANGED <<partitioned, phase, committed, end, replica, copies>>
  BY ChangeFacts DEF FlowsInv
<1>2. TypeOK' /\ SourceInv'
  BY ChangeTypes DEF FlowsInv
<1>3. AppendInv' /\ OnlyRealChanges'
  BY <1>1 DEF FlowsInv, AppendInv, OnlyRealChanges
<1>4. Active' = Active
  BY <1>1 DEF Active, FlowsOf
<1>5. QED
  BY <1>2, <1>3, <1>4, FlowAfterChange, SnapshotAfterChange DEF FlowsInv

-----------------------------------------------------------------------------
(* The invariant *)

LEMMA InitFlowsInv ==
  ASSUME Init
  PROVE  FlowsInv
<1>1. /\ <<table, partitioned>> \in Connectors /\ partitioned \in BOOLEAN
      /\ phase = [f \in Flow |-> "idle"]
      /\ committed = [f \in Flow |-> 0] /\ end = [f \in Flow |-> 0]
      /\ batch = [f \in Flow |-> {}] /\ parts = [f \in Flow |-> {}]
      /\ page = [p \in Partition \cup {Key} |-> 1]
      /\ replica = [k \in Key |-> [seq |-> 0, deleted |-> TRUE]]
      /\ copies = [r \in Row |-> 0]
      /\ failures = 0 /\ posted = GetAllRecords /\ known = {}
  BY DEF Init
<1>2. /\ table \in Tables /\ clock = Cardinality(Key)
      /\ records \in [Key -> 0 .. clock] /\ tombstones = {}
  BY DEF Init, SourceInit
<1>3. clock \in Time /\ clock \in Nat /\ 0 \in Time /\ 0 .. clock \subseteq Time
  BY <1>2, SourceAssumption, FS_CardinalityType DEF Time
<1>4. SourceTypeOK
  BY <1>2, <1>3 DEF SourceTypeOK
<1>5. GetAllRecords \subseteq Row /\ \A f \in Flow : Rows(f) \subseteq Row
  BY <1>4, RowFacts
<1>6. TypeOK
  <2>1. \A f \in Flow : phase[f] = "idle" /\ batch[f] = {} /\ committed[f] = 0
    BY <1>1
  <2>2. Streaming \subseteq Flow
    BY DEF Streaming
  <2>3. failures \in 0 .. MaxFailures
    BY <1>1, FlowsAssumption
  <2>4. QED
    BY <1>1, <1>3, <1>4, <1>5, <2>1, <2>2, <2>3 DEF TypeOK, Phase
<1>7. SourceInv
  BY <1>1, <1>2 DEF SourceInv
<1>8. AppendInv /\ OnlyRealChanges
  BY <1>1 DEF AppendInv, OnlyRealChanges
<1>9. SnapshotInv
  BY <1>1 DEF SnapshotInv, Flow
<1>10. ASSUME NEW f \in Active PROVE FlowInv(f)
  <2>1. f \in Flow /\ phase[f] = "idle" /\ batch[f] = {} /\ committed[f] = 0
    BY <1>1 DEF Active, Streaming
  <2>2. \A r \in Rows(f) : ~ (r.seq <= committed[f])
    BY <1>5, <2>1 DEF Row, Time
  <2>3. QED
    BY <2>1, <2>2 DEF FlowInv, BatchInv, PageInv, AheadInv
<1>11. QED
  BY <1>6, <1>7, <1>8, <1>9, <1>10 DEF FlowsInv

\* Every variable as it was, so is the invariant.
LEMMA StutterStep ==
  ASSUME FlowsInv, UNCHANGED vars
  PROVE  FlowsInv'
<1>1. /\ UNCHANGED <<table, clock, records, tombstones>>
      /\ UNCHANGED <<partitioned, phase, committed, end, batch, parts, page,
                     replica, copies, failures, posted, known>>
  BY DEF vars, sourceVars
<1>2. /\ GetAllRecords' = GetAllRecords /\ FlowsOf(table)' = FlowsOf(table)
      /\ Active' = Active /\ UNCHANGED sourceVars
  BY <1>1 DEF GetAllRecords, FlowsOf, Active, sourceVars
<1>3. TypeOK' /\ SourceInv' /\ AppendInv' /\ OnlyRealChanges'
  BY <1>1, <1>2
     DEF FlowsInv, TypeOK, SourceTypeOK, SourceInv, AppendInv, OnlyRealChanges
<1>4. SnapshotInv'
  <2>1. \A r, p : ToCome(r, p)' = ToCome(r, p) /\ Covered(r)' = Covered(r)
    BY <1>1, <1>2 DEF ToCome, Covered, RecordOf, RecordsIn, Start, Before
  <2>2. QED
    BY <1>1, <2>1 DEF FlowsInv, SnapshotInv
<1>5. ASSUME NEW f \in Active PROVE FlowInv(f)'
  <2>1. \A r : Delivered(f, r)' = Delivered(f, r)
    BY <1>1 DEF Delivered
  <2>2. QED
    BY <1>1, <1>2, <2>1, OthersKeep DEF FlowsInv
<1>6. QED
  BY <1>2, <1>3, <1>4, <1>5 DEF FlowsInv

LEMMA NextFlowsInv ==
  ASSUME NoPartitionedDeletes, FlowsInv, [Next]_vars
  PROVE  FlowsInv' /\ NoPartitionedDeletes'
<1>1. CASE UNCHANGED vars
  BY <1>1, StutterStep DEF NoPartitionedDeletes, vars, sourceVars
<1>2. CASE Change
  BY <1>2, ChangeStep, ChangeFacts DEF FlowsInv, NoPartitionedDeletes
<1>3. ASSUME NEW f \in Flow, Run(f) \/ Fail(f)
      PROVE  FlowsInv' /\ UNCHANGED <<table, partitioned>>
  <2>1. f \in FlowsOf(table)
    <3>1. CASE Run(f)
      BY <3>1 DEF Run
    <3>2. CASE Fail(f)
      BY <3>2, TableFacts DEF Fail
    <3>3. QED
      BY <1>3, <3>1, <3>2
  <2>2. CASE f = "snapshot"
    <3>1. table = "products"
      BY <2>1, <2>2, TableFacts
    <3>2. CASE Batch
      BY <3>1, <3>2, PlanBatchStep, ReadPageStep DEF Batch, PlanBatch, ReadPage, sourceVars
    <3>3. CASE Write(f)
      BY <2>2, <3>1, <3>3, SnapshotWriteStep DEF Write, sourceVars
    <3>4. CASE Commit(f) \/ Fail(f)
      BY <2>2, <3>1, <3>4, SnapshotEndsStep DEF Commit, Fail, sourceVars
    <3>5. QED
      BY <1>3, <2>2, <3>2, <3>3, <3>4 DEF Run, Streaming
  <2>3. CASE f # "snapshot"
    <3>1. f \in Active
      BY <2>1, <2>3 DEF Active, Streaming
    <3>2. CASE Latest(f)
      BY <3>1, <3>2, LatestStep DEF Latest, sourceVars
    <3>3. CASE NothingNew(f)
      BY <3>3, StutterStep DEF NothingNew, vars, sourceVars
    <3>4. CASE LogOffset(f)
      BY <3>1, <3>4, LogOffsetStep DEF LogOffset, sourceVars
    <3>5. CASE ReadBetweenOffsets(f)
      BY <3>1, <3>5, ReadBetweenOffsetsStep DEF ReadBetweenOffsets, sourceVars
    <3>6. CASE PlanStream(f)
      BY <3>1, <3>6, PlanStreamStep DEF PlanStream, sourceVars
    <3>7. ASSUME NEW p \in Partition, ReadStream(f, p)
          PROVE  FlowsInv' /\ UNCHANGED <<table, partitioned>>
      BY <3>1, <3>7, ReadStreamStep DEF ReadStream, sourceVars
    <3>8. CASE Write(f)
      BY <3>1, <3>8, WriteStep DEF Write, sourceVars
    <3>9. CASE Commit(f)
      BY <3>1, <3>9, CommitStep DEF Commit, sourceVars
    <3>10. CASE Fail(f)
      BY <3>1, <3>10, StreamFails DEF Fail, sourceVars
    <3>11. QED
      BY <1>3, <2>3, <3>2, <3>3, <3>4, <3>5, <3>6, <3>7, <3>8, <3>9, <3>10 DEF Run, Stream
  <2>4. QED
    BY <2>2, <2>3
<1>4. QED
  BY <1>1, <1>2, <1>3 DEF Next, NoPartitionedDeletes

-----------------------------------------------------------------------------
(* Types, of partitioned deletes too *)

TypeInv ==
  /\ TypeOK /\ SourceInv
  /\ table # "events" => \A r \in Row : copies[r] = 0

\* A flow of the table may move as its types allow.
LEMMA FlowKeepsTypes ==
  ASSUME TypeInv, NEW f \in Flow, f \in FlowsOf(table),
         UNCHANGED <<sourceVars, partitioned, posted>>,
         phase' \in [Flow -> Phase], committed' \in [Flow -> Time], end' \in [Flow -> Time],
         batch' \in [Flow -> SUBSET Row], parts' \in [Flow -> SUBSET (Partition \cup {Key})],
         page' \in [Partition \cup {Key} -> Nat \ {0}],
         replica' \in [Key -> [seq : Time, deleted : BOOLEAN]], copies' \in [Row -> Nat],
         failures' \in 0 .. MaxFailures, known' \subseteq posted,
         \A g \in Flow \ {f} : /\ phase'[g] = phase[g] /\ committed'[g] = committed[g]
                               /\ end'[g] = end[g] /\ batch'[g] = batch[g],
         f # "append" => copies' = copies,
         f \in Streaming => /\ committed'[f] <= clock
                            /\ phase'[f] = "idle" => batch'[f] = {}
                            /\ phase'[f] # "idle" => committed'[f] < end'[f] /\ end'[f] <= clock
  PROVE  TypeInv'
<1>1. /\ UNCHANGED <<table, clock, records, tombstones>>
      /\ GetAllRecords' = GetAllRecords /\ FlowsOf(table)' = FlowsOf(table)
  BY DEF sourceVars, GetAllRecords, FlowsOf
<1>2. TypeOK'
  <2>1. SourceTypeOK'
    BY <1>1 DEF TypeInv, TypeOK, SourceTypeOK
  <2>2. \A g \in Streaming : /\ committed'[g] <= clock'
                             /\ phase'[g] = "idle" => batch'[g] = {}
                             /\ phase'[g] # "idle" => committed'[g] < end'[g] /\ end'[g] <= clock'
    BY <1>1 DEF TypeInv, TypeOK, Streaming
  <2>3. QED
    BY <2>1, <2>2 DEF TypeInv, TypeOK
<1>3. SourceInv'
  BY <1>1 DEF TypeInv, SourceInv
<1>4. table # "events" => copies' = copies
  BY DEF FlowsOf, TypeInv, TypeOK, SourceTypeOK, Tables
<1>5. QED
  BY <1>1, <1>2, <1>3, <1>4 DEF TypeInv

\* Whatever is read are rows of the source, of no time to come.
LEMMA ReadsRows ==
  ASSUME TypeOK, SourceInv, NEW start \in Time
  PROVE  /\ \A r \in ListRecords(start) \cup ListDeletedRecords(start) :
              r \in Row /\ r.seq > start /\ r.seq <= clock /\ r.seq \in Nat
         /\ \A f : SimpleRead(f, start) \subseteq ListRecords(start) \cup ListDeletedRecords(start)
<1>1. SourceTypeOK
  BY DEF TypeOK
<1>2. \A r \in GetAllRecords \cup tombstones : r \in Row /\ r.seq <= clock /\ r.seq \in Nat
  BY <1>1, RowFacts DEF SourceInv, GetAllRecords
<1>3. QED
  BY <1>2 DEF ListRecords, ListDeletedRecords, SimpleRead, ReadTable, ReadTableDeletes,
              PageRecords

LEMMA TypedFacts ==
  ASSUME TypeInv
  PROVE  /\ phase \in [Flow -> Phase] /\ committed \in [Flow -> Time] /\ end \in [Flow -> Time]
         /\ batch \in [Flow -> SUBSET Row] /\ parts \in [Flow -> SUBSET (Partition \cup {Key})]
         /\ page \in [Partition \cup {Key} -> Nat \ {0}]
         /\ replica \in [Key -> [seq : Time, deleted : BOOLEAN]] /\ copies \in [Row -> Nat]
         /\ failures \in 0 .. MaxFailures /\ known \subseteq posted
         /\ clock \in Nat /\ \A f \in Flow : committed[f] \in Nat /\ end[f] \in Nat
         /\ TypeOK /\ SourceInv /\ SourceTypeOK
         /\ GetAllRecords \subseteq Row /\ GetAllRecords \subseteq posted
         /\ \A f \in Streaming : /\ committed[f] <= clock
                                 /\ phase[f] = "idle" => batch[f] = {}
                                 /\ phase[f] # "idle" => committed[f] < end[f] /\ end[f] <= clock
<1>1. \A n \in Time : n \in Nat
  BY DEF Time
<1>2. SourceTypeOK
  BY DEF TypeInv, TypeOK
<1>3. /\ phase \in [Flow -> Phase] /\ committed \in [Flow -> Time] /\ end \in [Flow -> Time]
      /\ batch \in [Flow -> SUBSET Row] /\ parts \in [Flow -> SUBSET (Partition \cup {Key})]
      /\ page \in [Partition \cup {Key} -> Nat \ {0}]
      /\ replica \in [Key -> [seq : Time, deleted : BOOLEAN]] /\ copies \in [Row -> Nat]
      /\ failures \in 0 .. MaxFailures /\ known \subseteq posted /\ clock \in Time
  BY DEF TypeInv, TypeOK, SourceTypeOK
<1>4. GetAllRecords \subseteq Row /\ GetAllRecords \subseteq posted
  BY <1>2, RowFacts DEF TypeInv, SourceInv
<1>5. \A f \in Flow : committed[f] \in Nat /\ end[f] \in Nat
  BY <1>1, <1>3
<1>6. QED
  BY <1>1, <1>2, <1>3, <1>4, <1>5 DEF TypeInv, TypeOK

LEMMA LatestTypes ==
  ASSUME TypeInv, NEW f \in Streaming, f \in FlowsOf(table), Latest(f)
  PROVE  TypeInv'
<1> DEFINE stop == NextEnd(f)
           rows == IF partitioned THEN {} ELSE SimpleRead(f, committed[f])
<1>1. f \in Flow /\ f # "snapshot"
  BY DEF Streaming
<1>2. committed[f] \in Time /\ committed[f] \in Nat
  BY <1>1, TypedFacts
<1>3. PICK set \in SUBSET (ListRecords(committed[f]) \cup ListDeletedRecords(committed[f])) :
        stop = LastSeq(set, committed[f])
  BY <1>2, TypedFacts, ReadsRows DEF NextEnd, LatestOffset
<1>4. /\ \A r \in set : r \in Row /\ r.seq > committed[f] /\ r.seq <= clock /\ r.seq \in Nat
      /\ rows \in SUBSET Row
  BY <1>2, <1>3, TypedFacts, ReadsRows
<1>5. /\ phase[f] = "idle" /\ stop # committed[f]
      /\ end' = [end EXCEPT ![f] = stop] /\ batch' = [batch EXCEPT ![f] = rows]
      /\ phase' = [phase EXCEPT ![f] = "found"]
      /\ UNCHANGED <<sourceVars, partitioned, committed, parts, page, replica, copies,
                     failures, posted, known>>
  BY DEF Latest
<1> HIDE DEF stop, rows
<1>6. stop \in Time /\ committed[f] < stop /\ stop <= clock
  <2>1. set \in SUBSET Row
    BY <1>4
  <2>2. /\ stop \in Time /\ (set = {} => stop = committed[f])
        /\ set # {} => \E r \in set : r.seq = stop
    BY <1>2, <1>3, <2>1, LastSeqIsTheLast
  <2>3. PICK r \in set : r.seq = stop
    BY <1>5, <2>2
  <2>4. QED
    BY <1>2, <1>4, <2>2, <2>3
<1>7. /\ phase' \in [Flow -> Phase] /\ end' \in [Flow -> Time] /\ batch' \in [Flow -> SUBSET Row]
      /\ phase'[f] = "found" /\ end'[f] = stop
      /\ \A g \in Flow \ {f} : phase'[g] = phase[g] /\ end'[g] = end[g] /\ batch'[g] = batch[g]
  BY <1>1, <1>4, <1>5, <1>6, TypedFacts DEF Phase
<1>8. /\ committed' \in [Flow -> Time] /\ parts' \in [Flow -> SUBSET (Partition \cup {Key})]
      /\ page' \in [Partition \cup {Key} -> Nat \ {0}]
      /\ replica' \in [Key -> [seq : Time, deleted : BOOLEAN]] /\ copies' \in [Row -> Nat]
      /\ failures' \in 0 .. MaxFailures /\ known' \subseteq posted /\ committed' = committed
      /\ copies' = copies /\ committed[f] <= clock
      /\ UNCHANGED <<sourceVars, partitioned, posted>>
  BY <1>5, TypedFacts
<1>9. QED
  BY <1>1, <1>6, <1>7, <1>8, FlowKeepsTypes

\* The other steps of a reader move no offset.
LEMMA ReaderTypes ==
  ASSUME TypeInv, NEW f \in Flow, f \in FlowsOf(table),
         UNCHANGED <<sourceVars, partitioned, committed, end, replica, copies, posted>>,
         phase' \in [Flow -> Phase], batch' \in [Flow -> SUBSET Row],
         parts' \in [Flow -> SUBSET (Partition \cup {Key})],
         page' \in [Partition \cup {Key} -> Nat \ {0}],
         failures' \in 0 .. MaxFailures, known' \subseteq posted,
         \A g \in Flow \ {f} : phase'[g] = phase[g] /\ batch'[g] = batch[g],
         f \in Streaming => /\ phase[f] # "idle"
                            /\ phase'[f] = "idle" => batch'[f] = {}
  PROVE  TypeInv'
<1>1. /\ committed' \in [Flow -> Time] /\ end' \in [Flow -> Time]
      /\ replica' \in [Key -> [seq : Time, deleted : BOOLEAN]] /\ copies' \in [Row -> Nat]
      /\ committed' = committed /\ end' = end /\ copies' = copies
  BY TypedFacts
<1>2. f \in Streaming => committed[f] <= clock /\ committed[f] < end[f] /\ end[f] <= clock
  BY TypedFacts
<1>3. UNCHANGED <<sourceVars, partitioned, posted>>
  OBVIOUS
<1>4. QED
  BY <1>1, <1>2, <1>3, FlowKeepsTypes

LEMMA StreamTypes ==
  ASSUME TypeInv, NEW f \in Streaming, f \in FlowsOf(table), Stream(f)
  PROVE  TypeInv' \/ UNCHANGED vars
<1>1. /\ f \in Flow /\ phase \in [Flow -> Phase] /\ batch \in [Flow -> SUBSET Row]
      /\ parts \in [Flow -> SUBSET (Partition \cup {Key})]
      /\ page \in [Partition \cup {Key} -> Nat \ {0}]
      /\ failures \in 0 .. MaxFailures /\ known \subseteq posted
  BY TypedFacts DEF Streaming
<1>2. CASE Latest(f)
  BY <1>2, LatestTypes
<1>3. CASE NothingNew(f)
  BY <1>3 DEF NothingNew
<1>4. CASE LogOffset(f)
  <2>1. /\ phase' \in [Flow -> Phase] /\ phase[f] # "idle" /\ phase'[f] # "idle"
        /\ \A g \in Flow \ {f} : phase'[g] = phase[g]
        /\ UNCHANGED <<sourceVars, partitioned, committed, end, batch, parts, page, replica,
                       copies, failures, posted, known>>
    BY <1>1, <1>4 DEF LogOffset, Phase
  <2>2. QED
    BY <1>1, <2>1, ReaderTypes
<1>5. CASE ReadBetweenOffsets(f)
  <2> DEFINE rows == SimpleRead(f, ReadAgainFrom(f))
  <2>1. rows \in SUBSET Row
    <3>1. committed[f] \in Time
      BY <1>1, TypedFacts
    <3>2. QED
      BY <3>1, TypedFacts, ReadsRows DEF ReadAgainFrom
  <2>2. /\ phase[f] # "idle" /\ phase' = [phase EXCEPT ![f] = "ready"]
        /\ batch' = [batch EXCEPT ![f] = rows]
        /\ UNCHANGED <<sourceVars, partitioned, committed, end, parts, page, replica, copies,
                       failures, posted, known>>
    BY <1>5 DEF ReadBetweenOffsets
  <2> HIDE DEF rows
  <2>3. /\ phase' \in [Flow -> Phase] /\ phase'[f] = "ready" /\ batch' \in [Flow -> SUBSET Row]
        /\ \A g \in Flow \ {f} : phase'[g] = phase[g] /\ batch'[g] = batch[g]
    BY <1>1, <2>1, <2>2 DEF Phase
  <2>4. QED
    BY <1>1, <2>2, <2>3, ReaderTypes
<1>6. CASE PlanStream(f)
  <2>1. /\ phase' \in [Flow -> Phase] /\ phase[f] # "idle" /\ phase'[f] # "idle"
        /\ \A g \in Flow \ {f} : phase'[g] = phase[g]
        /\ parts' \in [Flow -> SUBSET (Partition \cup {Key})]
        /\ UNCHANGED <<sourceVars, partitioned, committed, end, batch, page, replica,
                       copies, failures, posted, known>>
    BY <1>1, <1>6 DEF PlanStream, Phase
  <2>2. QED
    BY <1>1, <2>1, ReaderTypes
<1>7. ASSUME NEW p \in Partition, ReadStream(f, p) PROVE TypeInv'
  <2> DEFINE rows == batch[f] \cup ReadPartition(p, committed[f], end[f])
             stage == IF parts[f] = {p} THEN "ready" ELSE "reading"
             left == parts[f] \ {p}
  <2>1. rows \in SUBSET Row
    <3>1. ReadPartition(p, committed[f], end[f]) \subseteq GetAllRecords
      BY DEF ReadPartition, ListRecords
    <3>2. QED
      BY <1>1, <3>1, TypedFacts
  <2>2. left \in SUBSET (Partition \cup {Key}) /\ stage \in Phase /\ stage # "idle"
    BY <1>1 DEF Phase
  <2>3. /\ phase[f] # "idle" /\ phase' = [phase EXCEPT ![f] = stage]
        /\ batch' = [batch EXCEPT ![f] = rows] /\ parts' = [parts EXCEPT ![f] = left]
        /\ UNCHANGED <<sourceVars, partitioned, committed, end, page, replica, copies,
                       failures, posted, known>>
    BY <1>1, <1>7 DEF ReadStream
  <2> HIDE DEF rows, stage, left
  <2>4. /\ phase' \in [Flow -> Phase] /\ phase'[f] = stage /\ batch' \in [Flow -> SUBSET Row]
        /\ parts' \in [Flow -> SUBSET (Partition \cup {Key})]
        /\ \A g \in Flow \ {f} : phase'[g] = phase[g] /\ batch'[g] = batch[g]
    BY <1>1, <2>1, <2>2, <2>3
  <2>5. QED
    BY <1>1, <2>2, <2>3, <2>4, ReaderTypes
<1>8. QED
  BY <1>2, <1>3, <1>4, <1>5, <1>6, <1>7 DEF Stream

LEMMA BatchTypes ==
  ASSUME TypeInv, "snapshot" \in FlowsOf(table), Batch
  PROVE  TypeInv'
<1>1. /\ "snapshot" \in Flow /\ "snapshot" \notin Streaming
      /\ phase \in [Flow -> Phase] /\ batch \in [Flow -> SUBSET Row]
      /\ parts \in [Flow -> SUBSET (Partition \cup {Key})]
      /\ page \in [Partition \cup {Key} -> Nat \ {0}]
      /\ failures \in 0 .. MaxFailures /\ known \subseteq posted
      /\ GetAllRecords \subseteq Row /\ GetAllRecords \subseteq posted
  BY TypedFacts DEF Flow, Streaming
<1>2. ASSUME NEW supported \in BOOLEAN, PlanBatch(supported) PROVE TypeInv'
  <2>1. BatchPartitions(supported) \in SUBSET (Partition \cup {Key})
    BY DEF BatchPartitions
  <2>2. /\ phase' = [phase EXCEPT !["snapshot"] = "reading"]
        /\ parts' = [parts EXCEPT !["snapshot"] = BatchPartitions(supported)]
        /\ page' = [p \in DOMAIN page |-> 1] /\ known' = GetAllRecords
        /\ UNCHANGED <<sourceVars, partitioned, committed, end, batch, replica, copies,
                       failures, posted>>
    BY <1>2 DEF PlanBatch
  <2>3. /\ phase' \in [Flow -> Phase] /\ batch' \in [Flow -> SUBSET Row]
        /\ parts' \in [Flow -> SUBSET (Partition \cup {Key})]
        /\ page' \in [Partition \cup {Key} -> Nat \ {0}] /\ known' \subseteq posted
        /\ failures' \in 0 .. MaxFailures
        /\ \A g \in Flow \ {"snapshot"} : phase'[g] = phase[g] /\ batch'[g] = batch[g]
    BY <1>1, <2>1, <2>2 DEF Phase
  <2>4. QED
    BY <1>1, <2>2, <2>3, ReaderTypes
<1>3. ASSUME NEW p \in Partition \cup {Key}, ReadPage(p) PROVE TypeInv'
  <2> DEFINE rows == {r \in GetAllRecords : r.key \in p}
             next == NextPage(rows, page[p])
             got == PageRecords(rows, page[p])
  <2>1. got \subseteq Row /\ (next # NoPage => next \in Nat \ {0})
    <3>1. got \subseteq rows
      BY DEF PageRecords
    <3>2. page[p] \in Nat \ {0}
      BY <1>1
    <3>3. QED
      BY <1>1, <3>1, <3>2 DEF NextPage
  <2>2. /\ batch' = [batch EXCEPT !["snapshot"] = @ \cup got]
        /\ page' = IF next = NoPage THEN page ELSE [page EXCEPT ![p] = next]
        /\ parts' = IF next = NoPage THEN [parts EXCEPT !["snapshot"] = @ \ {p}] ELSE parts
        /\ phase' = IF next = NoPage /\ parts["snapshot"] = {p}
                    THEN [phase EXCEPT !["snapshot"] = "ready"] ELSE phase
        /\ UNCHANGED <<sourceVars, partitioned, committed, end, replica, copies, failures,
                       posted, known>>
    BY <1>3 DEF ReadPage
  <2> HIDE DEF rows, next, got
  <2>3. phase' \in [Flow -> Phase] /\ \A g \in Flow \ {"snapshot"} : phase'[g] = phase[g]
    BY <1>1, <2>2 DEF Phase
  <2>4. /\ batch' \in [Flow -> SUBSET Row]
        /\ \A g \in Flow \ {"snapshot"} : batch'[g] = batch[g]
    BY <1>1, <2>1, <2>2
  <2>5. /\ parts' \in [Flow -> SUBSET (Partition \cup {Key})]
        /\ page' \in [Partition \cup {Key} -> Nat \ {0}]
        /\ failures' \in 0 .. MaxFailures /\ known' \subseteq posted
    BY <1>1, <2>1, <2>2
  <2>6. QED
    BY <1>1, <2>2, <2>3, <2>4, <2>5, ReaderTypes
<1>4. QED
  BY <1>2, <1>3 DEF Batch

LEMMA WriteTypes ==
  ASSUME TypeInv, NEW f \in Flow, f \in FlowsOf(table), Write(f)
  PROVE  TypeInv'
<1>1. /\ phase \in [Flow -> Phase] /\ batch[f] \in SUBSET Row /\ copies \in [Row -> Nat]
      /\ replica \in [Key -> [seq : Time, deleted : BOOLEAN]]
      /\ (f = "delete") \in BOOLEAN
  BY TypedFacts
<1>2. /\ phase[f] = "ready" /\ phase' = [phase EXCEPT ![f] = "written"]
      /\ UNCHANGED <<sourceVars, partitioned, committed, end, batch, parts, page, failures,
                     posted, known>>
  BY DEF Write
<1>3. replica' \in [Key -> [seq : Time, deleted : BOOLEAN]]
  <2>1. CASE f = "snapshot"
    BY <1>1, <2>1, ReplacedType DEF Write
  <2>2. CASE f = "append"
    BY <1>1, <2>2 DEF Write
  <2>3. CASE f # "snapshot" /\ f # "append"
    <3>1. replica' = Applied(batch[f], f = "delete")
      BY <2>3 DEF Write, Flow
    <3>2. QED
      BY <1>1, <3>1, AppliedFacts
  <2>4. QED
    BY <2>1, <2>2, <2>3
<1>4. copies' \in [Row -> Nat] /\ (f # "append" => copies' = copies)
  <2>1. CASE f = "append"
    <3>1. copies' = [r \in Row |-> copies[r] + (IF r \in batch[f] THEN 1 ELSE 0)]
      BY <2>1 DEF Write
    <3>2. \A r \in Row : copies[r] + (IF r \in batch[f] THEN 1 ELSE 0) \in Nat
      BY <1>1
    <3>3. QED
      BY <2>1, <3>1, <3>2
  <2>2. CASE f # "append"
    BY <1>1, <2>2 DEF Write
  <2>3. QED
    BY <2>1, <2>2
<1>5. /\ phase' \in [Flow -> Phase] /\ phase'[f] = "written"
      /\ \A g \in Flow \ {f} : phase'[g] = phase[g]
  BY <1>1, <1>2 DEF Phase
<1>6. /\ committed' \in [Flow -> Time] /\ end' \in [Flow -> Time]
      /\ batch' \in [Flow -> SUBSET Row] /\ parts' \in [Flow -> SUBSET (Partition \cup {Key})]
      /\ page' \in [Partition \cup {Key} -> Nat \ {0}]
      /\ failures' \in 0 .. MaxFailures /\ known' \subseteq posted
      /\ UNCHANGED <<committed, end, batch>> /\ UNCHANGED <<sourceVars, partitioned, posted>>
  BY <1>2, TypedFacts
<1>7. f \in Streaming => committed[f] <= clock /\ committed[f] < end[f] /\ end[f] <= clock
  BY <1>2, TypedFacts
<1>8. QED
  BY <1>3, <1>4, <1>5, <1>6, <1>7, FlowKeepsTypes

LEMMA CommitTypes ==
  ASSUME TypeInv, NEW f \in Flow, f \in FlowsOf(table), Commit(f)
  PROVE  TypeInv'
<1>1. /\ phase \in [Flow -> Phase] /\ batch \in [Flow -> SUBSET Row]
      /\ committed \in [Flow -> Time] /\ end \in [Flow -> Time]
  BY TypedFacts
<1>2. /\ phase[f] = "written" /\ phase' = [phase EXCEPT ![f] = "idle"]
      /\ batch' = [batch EXCEPT ![f] = {}]
      /\ committed' = IF f = "snapshot" THEN committed ELSE [committed EXCEPT ![f] = end[f]]
      /\ UNCHANGED <<sourceVars, partitioned, end, parts, page, replica, copies, failures,
                     posted, known>>
  BY DEF Commit
<1>3. /\ phase' \in [Flow -> Phase] /\ batch' \in [Flow -> SUBSET Row]
      /\ committed' \in [Flow -> Time] /\ phase'[f] = "idle" /\ batch'[f] = {}
      /\ f \in Streaming => committed'[f] = end[f]
      /\ \A g \in Flow \ {f} : /\ phase'[g] = phase[g] /\ batch'[g] = batch[g]
                               /\ committed'[g] = committed[g]
  BY <1>1, <1>2 DEF Phase, Streaming
<1>4. f \in Streaming => end[f] <= clock
  BY <1>2, TypedFacts
<1>5. /\ end' \in [Flow -> Time] /\ parts' \in [Flow -> SUBSET (Partition \cup {Key})]
      /\ page' \in [Partition \cup {Key} -> Nat \ {0}]
      /\ replica' \in [Key -> [seq : Time, deleted : BOOLEAN]] /\ copies' \in [Row -> Nat]
      /\ failures' \in 0 .. MaxFailures /\ known' \subseteq posted
      /\ UNCHANGED <<end, copies>> /\ UNCHANGED <<sourceVars, partitioned, posted>>
  BY <1>2, TypedFacts
<1>6. QED
  BY <1>3, <1>4, <1>5, FlowKeepsTypes

LEMMA FailTypes ==
  ASSUME TypeInv, NEW f \in Flow, f \in FlowsOf(table), Fail(f)
  PROVE  TypeInv'
<1>1. /\ phase \in [Flow -> Phase] /\ batch \in [Flow -> SUBSET Row]
      /\ parts \in [Flow -> SUBSET (Partition \cup {Key})]
      /\ page \in [Partition \cup {Key} -> Nat \ {0}]
      /\ failures \in 0 .. MaxFailures /\ known \subseteq posted
  BY TypedFacts
<1>2. /\ phase[f] # "idle" /\ failures < MaxFailures /\ failures' = failures + 1
      /\ phase' = [phase EXCEPT ![f] = IF phase[f] = "found" \/ f = "snapshot" THEN "idle"
                                       ELSE "logged"]
      /\ batch' = [batch EXCEPT ![f] = {}] /\ parts' = [parts EXCEPT ![f] = {}]
      /\ UNCHANGED <<sourceVars, partitioned, committed, end, page, replica, copies, posted,
                     known>>
  BY DEF Fail
<1>3. failures' \in 0 .. MaxFailures
  BY <1>1, <1>2, FlowsAssumption
<1>4. /\ phase' \in [Flow -> Phase] /\ batch' \in [Flow -> SUBSET Row] /\ batch'[f] = {}
      /\ parts' \in [Flow -> SUBSET (Partition \cup {Key})]
      /\ \A g \in Flow \ {f} : phase'[g] = phase[g] /\ batch'[g] = batch[g]
  BY <1>1, <1>2 DEF Phase
<1>5. QED
  BY <1>1, <1>2, <1>3, <1>4, ReaderTypes

LEMMA NextTypeInv ==
  ASSUME TypeInv, [Next]_vars
  PROVE  TypeInv'
<1>1. CASE UNCHANGED vars
  <2>1. /\ UNCHANGED <<table, clock, records, tombstones>>
        /\ UNCHANGED <<partitioned, phase, committed, end, batch, parts, page,
                       replica, copies, failures, posted, known>>
    BY <1>1 DEF vars, sourceVars
  <2>2. GetAllRecords' = GetAllRecords /\ FlowsOf(table)' = FlowsOf(table)
    BY <2>1 DEF GetAllRecords, FlowsOf
  <2>3. QED
    BY <2>1, <2>2 DEF TypeInv, TypeOK, SourceTypeOK, SourceInv
<1>2. CASE Change
  BY <1>2, ChangeTypes, ChangeFacts DEF TypeInv
<1>3. ASSUME NEW f \in Flow, Run(f) PROVE TypeInv'
  <2>1. f \in FlowsOf(table)
    BY <1>3 DEF Run
  <2>2. CASE f \in Streaming /\ Stream(f)
    BY <1>1, <2>1, <2>2, StreamTypes
  <2>3. CASE f = "snapshot" /\ Batch
    BY <2>1, <2>3, BatchTypes
  <2>4. CASE Write(f) \/ Commit(f)
    BY <2>1, <2>4, WriteTypes, CommitTypes
  <2>5. QED
    BY <1>3, <2>2, <2>3, <2>4 DEF Run
<1>4. ASSUME NEW f \in Flow, Fail(f) PROVE TypeInv'
  <2>1. f \in FlowsOf(table)
    BY <1>4 DEF Fail, TypeInv, SourceInv
  <2>2. QED
    BY <1>4, <2>1, FailTypes
<1>5. QED
  BY <1>1, <1>2, <1>3, <1>4 DEF Next

-----------------------------------------------------------------------------
(* Theorems *)

\* Every reachable state of the flows is well typed, of a table with
\* partitioned deletes too: a batch in hand has an end after the committed
\* offset and not after the last write.
THEOREM FlowsTypes == Spec => []TypeInv
<1>1. Init => TypeInv
  <2> SUFFICES ASSUME Init PROVE TypeInv
    OBVIOUS
  <2>1. TypeOK /\ SourceInv
    BY InitFlowsInv DEF FlowsInv
  <2>2. \A r \in Row : copies[r] = 0
    BY DEF Init
  <2>3. QED
    BY <2>1, <2>2 DEF TypeInv
<1>2. TypeInv /\ [Next]_vars => TypeInv'
  BY NextTypeInv
<1>3. QED
  BY <1>1, <1>2, PTL DEF Spec

\* Every state of a table's source and of its flows is well typed, whichever
\* reader serves a flow and whatever fails.
THEOREM FlowsTypeCorrect == Spec => []TypeOK
<1>1. TypeInv => TypeOK
  BY DEF TypeInv
<1>2. QED
  BY <1>1, FlowsTypes, PTL

\* Whatever fails, however the flows of a table interleave and whatever changes
\* at the source between two reads: the inductive invariant holds unless
\* deletes are read by partitions.
THEOREM FlowsInvariant == Spec => [](NoPartitionedDeletes => FlowsInv)
<1> DEFINE Inv == NoPartitionedDeletes => FlowsInv
<1>1. Init => Inv
  BY InitFlowsInv
<1>2. TypeInv /\ Inv /\ [Next]_vars => Inv'
  <2> SUFFICES ASSUME TypeInv, Inv, [Next]_vars, NoPartitionedDeletes' PROVE FlowsInv'
    OBVIOUS
  <2>1. table' = table /\ partitioned' = partitioned
    <3>1. CASE Change
      BY <3>1, ChangeFacts DEF TypeInv
    <3>2. ASSUME NEW f \in Flow, Run(f) \/ Fail(f)
          PROVE  table' = table /\ partitioned' = partitioned
      BY <3>2 DEF Run, Stream, Latest, NothingNew, LogOffset, ReadBetweenOffsets, PlanStream,
                  ReadStream, Batch, PlanBatch, ReadPage, Write, Commit, Fail, vars, sourceVars
    <3>3. CASE UNCHANGED vars
      BY <3>3 DEF vars, sourceVars
    <3>4. QED
      BY <3>1, <3>2, <3>3 DEF Next
  <2>2. NoPartitionedDeletes
    BY <2>1 DEF NoPartitionedDeletes
  <2>3. QED
    BY <2>2, NextFlowsInv
<1>3. QED
  BY <1>1, <1>2, FlowsTypes, PTL DEF Spec

\* A change the committed offset has passed is in the destination, or a later
\* one of the same key: no failure, no change between the planning of a batch
\* and its reading, no page that is full makes a stream reader skip a row.
THEOREM PassedIsDelivered == Spec => [](NoPartitionedDeletes => NothingMissed)
<1>1. FlowsInv => NothingMissed
  BY DEF FlowsInv, FlowInv, AheadInv, NothingMissed, Active
<1>2. QED
  BY <1>1, FlowsInvariant, PTL

\* The destination shows only rows that were, and only deletions the source
\* has made, at the time it made them.
THEOREM ShowsOnlyRealChanges == Spec => [](NoPartitionedDeletes => OnlyRealChanges)
<1>1. FlowsInv => OnlyRealChanges
  BY DEF FlowsInv
<1>2. QED
  BY <1>1, FlowsInvariant, PTL

\* Through a partitioned reader an append flow writes no row twice, whatever
\* fails between the planning of a batch and its commit.
THEOREM AppendsOnce == Spec => []AppendedOnce
<1>1. TypeInv /\ (NoPartitionedDeletes => FlowsInv) => AppendedOnce
  <2> SUFFICES ASSUME TypeInv, NoPartitionedDeletes => FlowsInv, partitioned, NEW r \in Row
               PROVE  copies[r] <= 1
    BY DEF AppendedOnce
  <2>1. copies[r] \in Nat
    BY TypedFacts
  <2>2. CASE table = "events"
    BY <2>1, <2>2 DEF NoPartitionedDeletes, FlowsInv, AppendInv
  <2>3. CASE table # "events"
    BY <2>3 DEF TypeInv
  <2>4. QED
    BY <2>2, <2>3
<1>2. QED
  BY <1>1, FlowsTypes, FlowsInvariant, PTL

\* A snapshot has every record there was when its read began, at least as it
\* was then, whatever is added or replaced while its pages are followed.
THEOREM SnapshotsAreComplete == Spec => []SnapshotIsComplete
<1>1. TypeInv /\ (NoPartitionedDeletes => FlowsInv) => SnapshotIsComplete
  <2> SUFFICES ASSUME TypeInv, NoPartitionedDeletes => FlowsInv, phase["snapshot"] = "ready"
               PROVE  SnapshotIsComplete
    BY DEF SnapshotIsComplete
  <2>1. table = "products"
    BY DEF TypeInv, SourceInv, TypeOK, SourceTypeOK, FlowsOf, Tables, Flow
  <2>2. SnapshotInv
    BY <2>1 DEF NoPartitionedDeletes, FlowsInv
  <2>3. QED
    BY <2>2 DEF SnapshotInv, SnapshotIsComplete, Covered
<1>2. QED
  BY <1>1, FlowsTypes, FlowsInvariant, PTL

===============================================================================
