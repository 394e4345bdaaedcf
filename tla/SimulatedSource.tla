--------------------------- MODULE SimulatedSource ---------------------------
(***************************************************************************)
(* One table of the simulated source: the records of the store, the        *)
(* tombstones beside them, and the pages the API answers with.             *)
(*                                                                         *)
(* A row is a primary key and the time it was written at, which is the     *)
(* cursor field where the table has one and stands for the content where   *)
(* it has none. The clock moves with every write, so no two writes share a *)
(* time: the store's clock counts microseconds.                            *)
(***************************************************************************)
EXTENDS Naturals, FiniteSets

CONSTANTS
  Key,           \* the primary keys, in their order
  MaxPageSize,   \* the number of records of a page
  MaxTime        \* bound: no write follows this time

Time == 0 .. MaxTime
Tables == {"products", "events", "users", "orders"}

\* products has no cursor field; only orders takes DELETE requests.
HasCursor(t) == t # "products"
AllowsDelete(t) == t = "orders"

ASSUME SourceAssumption ==
  /\ Key \subseteq Nat /\ IsFiniteSet(Key) /\ Key # {}
  /\ MaxPageSize \in Nat \ {0} /\ MaxTime \in Nat
  /\ Cardinality(Key) <= MaxTime   \* the seeding is within the bound

VARIABLES
  table,       \* the table
  clock,       \* the time of the last write
  records,     \* the time each key was written at, or 0
  tombstones   \* the rows of deleted records

sourceVars == <<table, clock, records, tombstones>>

Row == [key : Key, seq : Time \ {0}]

SourceTypeOK ==
  /\ table \in Tables /\ clock \in Time
  /\ records \in [Key -> Time] /\ tombstones \subseteq Row

\* The tables are seeded, with distinct times before the present.
SourceInit ==
  /\ table \in Tables
  /\ clock = Cardinality(Key)
  /\ records \in [Key -> 0 .. clock]
  /\ \A k, l \in Key : k # l /\ records[k] # 0 => records[k] # records[l]
  /\ tombstones = {}

-----------------------------------------------------------------------------
(* POST and DELETE *)

\* A mutant of PostRecord: the time is rounded up past the clock.
PostRecordAhead(k) ==
  /\ clock < MaxTime
  /\ records' = [records EXCEPT ![k] = clock + 1]
  /\ UNCHANGED <<table, clock, tombstones>>

\* A record that exists is replaced, in every table.
PostRecord(k) ==
  /\ clock < MaxTime
  /\ clock' = clock + 1
  /\ records' = [records EXCEPT ![k] = clock + 1]
  /\ UNCHANGED <<table, tombstones>>

\* A mutant of DeleteRecord: a deletion leaves no tombstone.
DeleteRecordUntracked(k) ==
  /\ AllowsDelete(table) /\ records[k] # 0
  /\ clock < MaxTime
  /\ clock' = clock + 1
  /\ records' = [records EXCEPT ![k] = 0]
  /\ UNCHANGED <<table, tombstones>>

\* The tombstone stays when the key is written again. A DELETE of a missing
\* key, or of another table, is answered with an error and changes nothing.
DeleteRecord(k) ==
  /\ AllowsDelete(table) /\ records[k] # 0
  /\ clock < MaxTime
  /\ clock' = clock + 1
  /\ records' = [records EXCEPT ![k] = 0]
  /\ tombstones' = tombstones \cup {[key |-> k, seq |-> clock + 1]}
  /\ UNCHANGED table

SourceNext == \E k \in Key : PostRecord(k) \/ DeleteRecord(k)

-----------------------------------------------------------------------------
(* GET *)

GetAllRecords == {[key |-> k, seq |-> records[k]] : k \in {l \in Key : records[l] # 0}}

\* A mutant of ListRecords: since is inclusive.
ListRecordsInclusive(since) == {r \in GetAllRecords : r.seq >= since}

ListRecords(since) == {r \in GetAllRecords : r.seq > since}
ListDeletedRecords(since) == {r \in tombstones : r.seq > since}

\* A mutant of Before: rows are sorted by the time they were written at where
\* there is no cursor field, too.
BeforeInTime(r, s) == r.seq < s.seq

\* Rows are sorted by the cursor field, or by key where there is none.
Before(r, s) == IF HasCursor(table) THEN r.seq < s.seq ELSE r.key < s.key
Start(r, rows) == Cardinality({s \in rows : Before(s, r)})

PageRecords(rows, page) ==
  {r \in rows : Start(r, rows) \in (page - 1) * MaxPageSize .. page * MaxPageSize - 1}

NoPage == 0

NextPage(rows, page) ==
  IF page * MaxPageSize < Cardinality(rows) THEN page + 1 ELSE NoPage
=============================================================================
