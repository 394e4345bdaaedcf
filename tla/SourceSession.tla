---------------------------- MODULE SourceSession ----------------------------
(***************************************************************************)
(* A Spark session that registers a source and asks it: the registration,  *)
(* then a client of the virtual tables, or a client of the agent's         *)
(* operations, over one connector whose source changes meanwhile.          *)
(***************************************************************************)
EXTENDS AgentOperations, Discovery, Registration

VARIABLE client   \* "reader" or "agent", the client of this session

vars == <<client, connectorVars, registrationVars, discoveryVars, agentVars>>

(* Each client meets the source in the states that make a difference to it: *)
(* the walker a tree and a source deployed as it should be, another reader   *)
(* any deployment and a catalog that holds everything, the agent a flat      *)
(* catalog, since its dispatcher is handed a connector, registered or not.   *)
Full == [ns \in Namespace |-> IF ns \in spaces THEN Table ELSE {}]
Init ==
  /\ client \in {"reader", "agent"}
  /\ ConnectorInit /\ RegistrationInit /\ DiscoveryInit /\ AgentInit
  /\ CASE client = "agent" ->
            /\ ~hierarchical /\ partitions = 0 /\ held = Full
            /\ package = "missing" /\ generated = "missing" /\ walk = "none"
       [] client = "reader" /\ walk = "on" ->
            /\ partitions = 0 /\ hierarchical = asksSource /\ offered = NoOffer
            /\ package = "exposes" /\ generated = "fit"
       [] client = "reader" /\ walk = "none" ->
            held = Full /\ offered = NoOffer /\ (hierarchical => spaces # {Root})

\* Before the first request of the reader, the session registers its source.
Registers ==
  /\ client = "reader" /\ phase = "idle" /\ registered \notin {"generated", "wrapped"}
  /\ \/ \E argument \in Arguments : Register(argument)
     \/ walk = "none" /\ Deploy
  /\ UNCHANGED <<client, connectorVars, discoveryVars, agentVars>>

Reads ==
  /\ client = "reader" /\ registered \in {"generated", "wrapped"}
  /\ \/ Serve /\ UNCHANGED walkVars
     \/ AskAnything(Importable) \/ CloseRequest
     \/ WalkAsks(Importable) \/ WalkTakes
  /\ direct' = (registered = "generated")
  /\ UNCHANGED <<client, connectorVars, registrationVars, agentVars>>

Operates ==
  /\ client = "agent" /\ AgentNext
  /\ UNCHANGED <<client, connectorVars, registrationVars, discoveryVars>>

SourceChanges ==
  /\ IF client = "reader" THEN registered \in {"generated", "wrapped"} ELSE TRUE
  /\ \/ ConnectionChanges
     \/ client = "reader" /\ walk = "on" /\ CatalogChanges
     \/ client = "agent" /\ \E o \in Offer : OfferChanges(o)
  /\ AgentSees /\ WalkSees
  /\ UNCHANGED <<client, registrationVars>>

Next == Registers \/ Reads \/ Operates \/ SourceChanges

Spec == Init /\ [][Next]_vars

-----------------------------------------------------------------------------
(* Properties *)

\* Every variable has its type, and every code of an answer is an ErrorCode.
TypeOK ==
  /\ client \in {"reader", "agent"}
  /\ ConnectorTypeOK /\ RegistrationTypeOK
  /\ direct \in BOOLEAN /\ left \in 0 .. 2 /\ at \in Nat
  /\ phase \in {"idle", "opened", "typed", "reading", "answered", "failed"}
  /\ walk \in {"none", "on", "over"}
  /\ found \subseteq Namespace \X Table /\ steady \subseteq seen
  /\ stage \in {"idle", "resolved", "typed", "pulling", "emitting", "done", "raised"}
  /\ request \in Requests /\ brought \in BOOLEAN /\ produced \in Nat
  /\ \A i \in DOMAIN emitted : emitted[i].code \in Codes \cup {"none"}
  /\ ended \in {"no", "exhausted", "failed"} /\ contact \subseteq BOOLEAN

(* Registering a source by its name: a package that exposes a connector is  *)
(* enough, whatever became of the generated module beside it, unless that   *)
(* module breaks with an error that is no ImportError; and a call of        *)
(* register that raises leaves the format with the class that served it.    *)
RegisterFallsBack ==
  /\ /\ called.argument = "name" /\ package = "exposes" /\ "package" \in imported
     /\ generated # "broken"
     => called.outcome = "registered"
  /\ called.outcome # "registered" => registered = called.before

(* A read of the metadata virtual table returns one row for each table it   *)
(* was asked for, in the order asked, also where the connector partitions   *)
(* its tables; the pipeline joins its specification to these rows.          *)
MetadataOncePerTable ==
  phase = "answered" /\ ask.table = METADATA_TABLE =>
    [i \in DOMAIN answer |-> answer[i].table] = TableNames

(* The walk of the namespace tree, one level a request, each at a time of   *)
(* its own: it finds every table that was there throughout the walk, and    *)
(* none that was never there.                                               *)
WalkFindsAll ==
  /\ found \subseteq seen
  /\ walk = "over" => steady \subseteq found

\* The operation declares a _meta column of its own.
DeclaresMeta(op) == \E i \in DOMAIN op.fields : op.fields[i].name = "_meta"

(* The answer of a metadata operation is whole: every row the operation     *)
(* yields or, when it raises at any row, one row without data and nothing   *)
(* of what it had yielded before. That row says "error" wherever the schema *)
(* keeps a status, as the dispatcher's does unless the operation declares   *)
(* a _meta that has none. A data operation that is done has emitted all.    *)
AnswersAreWhole ==
  stage = "done" =>
    IF ended = "failed"
      THEN /\ operation.kind # "data" /\ Len(emitted) = 1 /\ ~emitted[1].data
           /\ Keeps(schema, "status") \/ (~brought /\ ~DeclaresMeta(operation))
              => emitted[1].status = "error"
      ELSE Len(emitted) = produced

\* A _meta column among these takes the _meta of an error row.
TakesErrors(fields) ==
  \A i \in DOMAIN fields :
    fields[i].name = "_meta" =>
      ParseColumn(MetaValue(ErrorRow("internal_error")), fields[i].type) = "parsed"

(* A metadata operation answers errors with a row, and under the schema the *)
(* dispatcher gives it that row parses, whatever columns it has: the        *)
(* request itself raises only for an operation of the source's own, one     *)
(* that states no schema, yields a row its schema does not take, or         *)
(* declares a _meta of another type than that of an error row.              *)
RaisesForACause ==
  stage = "raised" /\ operation.kind = "metadata" /\ ~brought =>
    /\ operation.owner = "source"
    /\ operation.typed => ended = "exhausted" \/ ~TakesErrors(operation.fields)

(* validate_connection: where list_tables asks the source, "ok" means the   *)
(* source answered during the request; and a connector that could not be    *)
(* built, or a source that was silent throughout, is connection_failed,     *)
(* whichever of the code's two paths reports it, under the dispatcher's     *)
(* schema and under any other that keeps a code.                            *)
HealthIsTrue ==
  stage = "done" /\ operation = ValidateConnectionOp =>
    /\ /\ ~brought \/ Keeps(schema, "code")
       /\ initError # "none" \/ (asksSource /\ contact = {FALSE})
       => emitted[1].code = "connection_failed"
    /\ ~brought => emitted[1].status \in {"ok", "error"}
    /\ asksSource /\ emitted[1].status = "ok" => TRUE \in contact
=============================================================================
