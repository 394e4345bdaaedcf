------------------------------ MODULE Connector ------------------------------
(***************************************************************************)
(* A source connector as the framework may rely on it: the interface       *)
(* LakeflowConnect and its mixins, and a source that changes behind it.    *)
(*                                                                         *)
(* A call either answers from what the source holds at that moment or,     *)
(* where it has to ask the source and the source does not answer, raises.  *)
(***************************************************************************)
EXTENDS Naturals, Sequences, FiniteSets

CONSTANTS
  Table,        \* names of tables
  Namespace,    \* the namespaces that may exist, sequences of segments
  Offer,        \* what agent_operations may answer, see AgentOperations
  MaxChanges    \* bound: the source changes no more often than this

Root == << >>
Parent(ns) == SubSeq(ns, 1, Len(ns) - 1)
Above(ns) == {SubSeq(ns, 1, k) : k \in 0 .. Len(ns)}   \* with ns itself

ASSUME ConnectorAssumption ==
  /\ Namespace \subseteq Seq(STRING) /\ Root \in Namespace
  /\ IsFiniteSet(Namespace) /\ IsFiniteSet(Table)
  /\ MaxChanges \in Nat

VARIABLES
  hierarchical,   \* whether the class implements SupportsNamespaces
  partitions,     \* how many get_partitions returns; 0: no SupportsPartition
  asksSource,     \* whether list_tables asks the source or is a static list
  reachable,      \* whether the source answers
  spaces,         \* the namespaces that exist; a flat catalog has the root
  held,           \* the tables directly under each namespace
  offered,        \* what agent_operations would answer
  changes         \* bounds the changes

catalogVars == <<hierarchical, partitions, asksSource, spaces, held>>
connectorVars == <<catalogVars, reachable, offered, changes>>

ConnectorTypeOK ==
  /\ hierarchical \in BOOLEAN /\ asksSource \in BOOLEAN /\ reachable \in BOOLEAN
  /\ partitions \in 0 .. 2
  /\ spaces \subseteq Namespace /\ held \in [Namespace -> SUBSET Table]
  /\ offered \in Offer /\ changes \in 0 .. MaxChanges

\* Namespaces exist under namespaces that exist; a flat catalog has none.
ConnectorInit ==
  /\ hierarchical \in BOOLEAN /\ partitions \in {0, 2} /\ asksSource \in BOOLEAN
  /\ spaces \in {s \in SUBSET Namespace :
                   /\ Root \in s /\ \A ns \in s : Above(ns) \subseteq s
                   /\ hierarchical \/ s = {Root}}
  /\ held \in [Namespace -> SUBSET Table]
  /\ \A ns \in Namespace \ spaces : held[ns] = {}
  /\ reachable = TRUE /\ offered \in Offer /\ changes = 0

-----------------------------------------------------------------------------
(* What the calls return. A call that asks the source raises unless         *)
(* `reachable`, and its caller has that case.                               *)

\* list_namespaces: the children of a prefix, one level of them.
ListNamespaces(prefix) ==
  {ns \in spaces : ns # Root /\ Parent(ns) = prefix}

\* list_tables_in_namespace: what lies directly under it, and nothing below.
ListTablesInNamespace(ns) == IF ns \in spaces THEN held[ns] ELSE {}

\* list_tables: every table.
ListTables == UNION {held[ns] : ns \in spaces}
ListTablesAnswers == asksSource => reachable

-----------------------------------------------------------------------------
(* How a source changes *)

Change == changes < MaxChanges /\ changes' = changes + 1

ConnectionChanges ==
  /\ Change /\ reachable' = ~reachable
  /\ UNCHANGED <<catalogVars, offered>>

NamespaceAppears(ns) ==
  /\ hierarchical /\ ns \notin spaces /\ Parent(ns) \in spaces
  /\ Change /\ spaces' = spaces \cup {ns}
  /\ UNCHANGED <<hierarchical, partitions, asksSource, held, reachable, offered>>

\* A namespace is dropped with everything under it.
NamespaceDisappears(ns) ==
  LET under == {m \in spaces : ns \in Above(m)}
  IN /\ ns \in spaces \ {Root}
     /\ Change /\ spaces' = spaces \ under
     /\ held' = [m \in Namespace |-> IF m \in under THEN {} ELSE held[m]]
     /\ UNCHANGED <<hierarchical, partitions, asksSource, reachable, offered>>

TableAppears(ns, t) ==
  /\ ns \in spaces /\ t \notin held[ns]
  /\ Change /\ held' = [held EXCEPT ![ns] = @ \cup {t}]
  /\ UNCHANGED <<hierarchical, partitions, asksSource, spaces, reachable, offered>>

TableDisappears(ns, t) ==
  /\ ns \in spaces /\ t \in held[ns]
  /\ Change /\ held' = [held EXCEPT ![ns] = @ \ {t}]
  /\ UNCHANGED <<hierarchical, partitions, asksSource, spaces, reachable, offered>>

OfferChanges(o) ==
  /\ offered # o
  /\ Change /\ offered' = o
  /\ UNCHANGED <<catalogVars, reachable>>

CatalogChanges ==
  \E ns \in Namespace :
    \/ NamespaceAppears(ns)
    \/ NamespaceDisappears(ns)
    \/ \E t \in Table : TableAppears(ns, t) \/ TableDisappears(ns, t)
=============================================================================
