------------------------------ MODULE Discovery ------------------------------
(***************************************************************************)
(* The virtual tables of LakeflowSource: metadata, namespaces and tables,  *)
(* answered by a batch read, and the client that walks the namespace tree  *)
(* with them while the source changes.                                     *)
(*                                                                         *)
(* Each call of the connector is a step of its own. The rows of a real     *)
(* table are TableFlows' matter: here it has none.                         *)
(***************************************************************************)
EXTENDS Connector

CONSTANT Ask   \* requests beside the walk's, records like the ones below

(* An option of a request is absent, not the JSON it should be, or decoded. *)
Absent == [is |-> "absent"]
Malformed == [is |-> "malformed"]
Given(value) == [is |-> "given", value |-> value]
OrElse(option, value) == IF option.is = "given" THEN option.value ELSE value

METADATA_TABLE == "_community_table_metadata"
NAMESPACES_TABLE == "_community_namespaces"
TABLES_TABLE == "_community_tables"
VIRTUAL_TABLES == {METADATA_TABLE, NAMESPACES_TABLE, TABLES_TABLE}
Typo == "_community_tabels"   \* any other name in the reserved space

Request(table, option) == [table |-> table, option |-> option, configs |-> Absent]
NoRequest == Request("none", Absent)

ASSUME DiscoveryAssumption ==   \* tableNameList decodes to names, nothing else
  \A r \in Ask : r.table = METADATA_TABLE /\ r.option.is = "given" =>
                   r.option.value \in Seq(STRING)

VARIABLES
  direct,   \* the source is LakeflowSource itself, not the registry's wrapper
  ask,      \* the request in hand
  phase,    \* "idle", "opened", "typed", "reading", "answered" or "failed"
  left,     \* the partitions left to read
  at,       \* the tables whose metadata this partition's read has fetched
  answer,   \* the rows of the partitions read so far
  walk,     \* "on", "over", or "none": the client asks as it likes
  todo,     \* the walk's requests to come: {<<virtual table, namespace>>}
  found,    \* the tables the walk found: {<<namespace, table>>}
  steady,   \* history: the tables there throughout the walk
  seen      \* history: the tables there at some time of the walk

requestVars == <<ask, phase, left, at, answer>>
walkVars == <<walk, todo, found, steady, seen>>
discoveryVars == <<direct, requestVars, walkVars>>

Present == {p \in spaces \X Table : p[2] \in held[p[1]]}

DiscoveryInit ==
  /\ direct = TRUE
  /\ ask = NoRequest /\ phase = "idle" /\ left = 0 /\ at = 0 /\ answer = << >>
  /\ walk \in {"none", "on"}
  /\ todo = {<<NAMESPACES_TABLE, Root>>, <<TABLES_TABLE, Root>>}
  /\ found = {} /\ steady = Present /\ seen = Present

-----------------------------------------------------------------------------
(* A request *)

Fails == phase' = "failed" /\ UNCHANGED <<ask, left, at, answer>>

\* LakeflowSource.__init__ refuses a name in the reserved space that is no
\* virtual table. The wrapper's does not; it imports the class by its name.
Open(r, importable) ==
  /\ phase = "idle" /\ ask' = r
  /\ phase' = IF (direct /\ r.table = Typo) \/ ~(direct \/ importable)
                THEN "failed" ELSE "opened"
  /\ left' = 0 /\ at' = 0 /\ answer' = << >>

\* The schema of a virtual table is fixed; another's is the connector's.
ResolveSchema ==
  /\ phase = "opened"
  /\ \/ /\ ask.table \in VIRTUAL_TABLES \cup ListTables
        /\ phase' = "typed" /\ UNCHANGED <<ask, left, at, answer>>
     \/ ask.table \notin VIRTUAL_TABLES /\ ~reachable /\ Fails
     \/ ask.table \notin VIRTUAL_TABLES \cup ListTables /\ Fails

\* A mutant of MayPartition: every table is partitioned, virtual or not.
MayPartitionAll(table) == partitions > 0

MayPartition(table) == partitions > 0 /\ table \notin VIRTUAL_TABLES

\* A get_partitions that raises leaves one partition, read as a whole.
Plan ==
  /\ phase = "typed" /\ phase' = "reading"
  /\ left' \in IF MayPartition(ask.table)
                 THEN {partitions} \cup (IF reachable THEN {} ELSE {1}) ELSE {1}
  /\ UNCHANGED <<ask, at, answer>>

Reading(table) == phase = "reading" /\ left > 0 /\ ask.table = table
Rows(rows) ==
  answer' = answer \o rows /\ left' = left - 1 /\ UNCHANGED <<ask, phase>>

\* sorted(): the same order for the same set.
Sorted(set) ==
  CHOOSE s \in [1 .. Cardinality(set) -> set] : {s[i] : i \in DOMAIN s} = set

\* One row for each table named, in the order of the names: a table at a time.
TableNames == OrElse(ask.option, << >>)
ReadTableMetadata ==
  /\ Reading(METADATA_TABLE)
  /\ IF ask.option = Malformed \/ ask.configs = Malformed THEN Fails
       ELSE IF at = Len(TableNames)
         THEN at' = 0 /\ Rows(<< >>)
         ELSE \/ /\ TableNames[at + 1] \in ListTables
                 /\ at' = at + 1
                 /\ answer' = Append(answer, [table |-> TableNames[at']])
                 /\ UNCHANGED <<ask, phase, left>>
              \/ TableNames[at + 1] \notin ListTables /\ Fails
              \/ ~reachable /\ Fails

ReadNamespaces ==
  LET spacesBelow == Sorted(ListNamespaces(OrElse(ask.option, Root)))
  IN /\ Reading(NAMESPACES_TABLE)
     /\ IF ~hierarchical THEN Rows(<< >>) /\ UNCHANGED at
          ELSE IF ask.option = Malformed \/ ~reachable THEN Fails
          ELSE /\ Rows([i \in DOMAIN spacesBelow |-> [namespace |-> spacesBelow[i]]])
               /\ UNCHANGED at

\* A mutant of NamespaceAsked: it is read from namespacePrefix, which is absent.
NamespacePrefixAsked(option) == Root

NamespaceAsked(option) == OrElse(option, Root)

\* The namespace is required of a connector that has them, and refused by one
\* that has none.
ReadTables ==
  LET ns == NamespaceAsked(ask.option)
      tables == Sorted(IF hierarchical THEN ListTablesInNamespace(ns) ELSE ListTables)
  IN /\ Reading(TABLES_TABLE)
     /\ IF \/ hierarchical /\ (ask.option.is # "given" \/ ~reachable)
           \/ ~hierarchical /\ (ask.option # Absent \/ ~ListTablesAnswers)
          THEN Fails
          ELSE /\ Rows([i \in DOMAIN tables |-> [namespace |-> ns, table |-> tables[i]]])
               /\ UNCHANGED at

ReadRealTable ==
  /\ ask.table \notin VIRTUAL_TABLES /\ Reading(ask.table)
  /\ \/ Rows(<< >>) /\ UNCHANGED at
     \/ ~reachable /\ Fails

Collect ==
  /\ phase = "reading" /\ left = 0 /\ phase' = "answered"
  /\ UNCHANGED <<ask, left, at, answer>>

Serve ==
  \/ ResolveSchema \/ Plan \/ Collect
  \/ ReadTableMetadata \/ ReadNamespaces \/ ReadTables \/ ReadRealTable

-----------------------------------------------------------------------------
(* The clients *)

AskAnything(importable) ==
  /\ walk = "none"
  /\ \E r \in Ask : Open(r, importable)
  /\ UNCHANGED walkVars

CloseRequest ==
  /\ walk = "none" /\ phase \in {"answered", "failed"}
  /\ phase' = "idle" /\ ask' = NoRequest /\ left' = 0 /\ at' = 0 /\ answer' = << >>
  /\ UNCHANGED walkVars

\* A flat catalog is asked for with no namespace, a tree from "[]" downwards.
WalkRequest(table, ns) ==
  Request(table, IF hierarchical THEN Given(ns) ELSE Absent)

WalkAsks(importable) ==
  /\ walk = "on" /\ phase = "idle"
  /\ \E q \in todo : Open(WalkRequest(q[1], q[2]), importable)
  /\ UNCHANGED walkVars

\* It asks under every namespace it is told of; a request that fails again.
WalkTakes ==
  LET rows == {answer[i] : i \in DOMAIN answer}
      asked == <<ask.table, OrElse(ask.option, Root)>>
      below == IF ask.table # NAMESPACES_TABLE THEN {}
                 ELSE {NAMESPACES_TABLE, TABLES_TABLE} \X {r.namespace : r \in rows}
  IN /\ walk = "on" /\ phase \in {"answered", "failed"}
     /\ phase' = "idle" /\ ask' = NoRequest /\ left' = 0 /\ at' = 0 /\ answer' = << >>
     /\ UNCHANGED <<steady, seen>>
     /\ IF phase = "failed" THEN UNCHANGED <<walk, todo, found>>
          ELSE /\ todo' = (todo \ {asked}) \cup below
               /\ found' = IF ask.table # TABLES_TABLE THEN found
                             ELSE found \cup {<<r.namespace, r.table>> : r \in rows}
               /\ walk' = IF todo' = {} THEN "over" ELSE "on"

\* What a change of the source does to the histories.
WalkSees ==
  /\ steady' = IF walk = "on" THEN steady \cap Present' ELSE steady
  /\ seen' = IF walk = "on" THEN seen \cup Present' ELSE seen
  /\ UNCHANGED <<direct, requestVars, walk, todo, found>>
=============================================================================
