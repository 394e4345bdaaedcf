--------------------------- MODULE AgentOperations ---------------------------
(***************************************************************************)
(* The ingestion agent's requests: IngestionAgentDispatcher resolves the   *)
(* operation and its schema, IngestionAgentReader runs it.                 *)
(*                                                                         *)
(* One request is in hand at a time, and the source may change between its *)
(* stages and between the rows an operation yields. A row that goes out is *)
(* told apart by what its schema keeps of it: whether it has any data, and *)
(* the status and code it carries.                                         *)
(***************************************************************************)
EXTENDS Connector, ValueParser

CONSTANTS
  Requests,       \* the requests clients make: records of operation, the
                  \* options given, the table named and whether search compiles
  SourceRows,     \* the rows a source may yield, their _meta aside: sequences
                  \* of <<column, value>>
  TableFields,    \* the columns of a source's tables
  BroughtFields,  \* the schemas a client may bring instead of asking for one
  MaxRows         \* bound: an operation yields no more rows than this

-----------------------------------------------------------------------------
(* Rows and schemas *)

Text == Scalar("text")
TextField(name, nullable) == Field(name, Primitive("string"), nullable)

\* A row is its columns and its _meta: a status and a code, "none" where it has none.
RowOf(cells) == [cells |-> cells, status |-> "none", code |-> "none"]
Meta(status, code) == [cells |-> << >>, status |-> status, code |-> code]
WithDefaultMeta(row) == IF row.status = "none" THEN [row EXCEPT !.status = "ok"] ELSE row

\* An error tells its code and a message, success neither.
MetaValue(row) ==
  LET told == IF row.code = "none" THEN Null ELSE Text
  IN Dict(<< <<"status", Text>>, <<"code", told>>, <<"message", told>> >>)
AsValue(row) ==
  Dict(row.cells \o IF row.status = "none" THEN << >> ELSE << <<"_meta", MetaValue(row)>> >>)

MetaField ==
  Field("_meta", StructOf(<<TextField("status", FALSE), TextField("code", TRUE),
                            TextField("message", TRUE)>>), TRUE)

\* A mutant of RelaxNullability: the columns stay as they were declared.
KeepNullability(fields) == fields

RelaxNullability(fields) ==
  [i \in DOMAIN fields |-> IF fields[i].name = "_meta" THEN fields[i]
                             ELSE [fields[i] EXCEPT !.nullable = TRUE]]
EnsureMetaField(fields) ==
  IF \E i \in DOMAIN fields : fields[i].name = "_meta" THEN fields
    ELSE Append(fields, MetaField)

(* What a schema keeps of a row. Its columns have names of their own, and a  *)
(* part of _meta is lost in a schema without that column, in a struct       *)
(* without that part, and in a boolean, which any text becomes.             *)
Boolean == Primitive("boolean")
KeepsPart(type, part) ==
  CASE type.is = "struct" ->
         \E i \in DOMAIN type.fields :
           type.fields[i].name = part /\ type.fields[i].type # Boolean
    [] type.is = "map" -> type.type # Boolean
    [] OTHER -> type # Boolean
Keeps(fields, part) ==
  \E i \in DOMAIN fields :
    /\ fields[i].name = "_meta"
    /\ LET type == fields[i].type
       IN KeepsPart(IF type.is = "array" THEN type.type ELSE type, part)

HasData(row, fields) ==
  \E i \in DOMAIN fields :
    Has(row.cells, fields[i].name) /\ At(row.cells, fields[i].name) # Null

\* The row that parse_value makes of one that fits.
Parsed(row, fields) ==
  [data   |-> HasData(row, fields),
   status |-> IF Keeps(fields, "status") THEN row.status ELSE "none",
   code   |-> IF Keeps(fields, "code") THEN row.code ELSE "none"]

Codes == {"auth_failed", "bad_request", "internal_error", "connection_failed"}

\* A mutant of ErrorCode: the class of an uncategorised error is its code.
ErrorCodeOrClass(error) == IF error = "ValueError" THEN "bad_request" ELSE error

\* An AgentError brings its own code.
ErrorCode(error) ==
  CASE error = "ValueError" -> "bad_request"
    [] error = "other" -> "internal_error"
    [] OTHER -> error
ErrorRow(error) == Meta("error", ErrorCode(error))

-----------------------------------------------------------------------------
(* Operations: a built-in has the framework as its owner; one that is not   *)
(* typed states no schema. An operation is found by the key it is mapped    *)
(* under, and bears a name of its own, which for a built-in is its key.     *)

BuiltIn(name, kind, fields, required) ==
  [key |-> name, name |-> name, owner |-> "framework", kind |-> kind, typed |-> kind = "metadata",
   fields |-> fields, required |-> required]

ListObjectsColumns ==
  <<TextField("name", TRUE), TextField("type", TRUE), TextField("full_path", TRUE)>>
GetObjectMetadataColumns == <<TextField("key", TRUE), TextField("value", TRUE)>>
ListOperationsColumns ==
  <<TextField("name", FALSE), TextField("description", TRUE), TextField("kind", TRUE),
    TextField("result_schema_json", TRUE), TextField("parameters_json", TRUE)>>

ListObjectsOp == BuiltIn("list_objects", "metadata", ListObjectsColumns, {})
GetObjectMetadataOp ==
  BuiltIn("get_object_metadata", "metadata", GetObjectMetadataColumns, {"name"})
ReadTableOp == BuiltIn("read_table", "data", << >>, {"tableName"})
ValidateConnectionOp == BuiltIn("validate_connection", "metadata", << >>, {})
ListOperationsOp == BuiltIn("list_operations", "metadata", ListOperationsColumns, {})
BuiltInOperations ==
  {ListObjectsOp, ReadTableOp, GetObjectMetadataOp, ValidateConnectionOp, ListOperationsOp}
Unknown ==
  [key |-> "none", name |-> "none", owner |-> "none", kind |-> "none", typed |-> FALSE,
   fields |-> << >>, required |-> {}]

(* What agent_operations does: "answers" with operations, each under a key  *)
(* of the mapping; answers with something "malformed" among them; or        *)
(* "raises", which counts as offering nothing, like a class without the     *)
(* mixin. Assumed of a source: its mapping is finite, and its operations    *)
(* are of the kinds an AgentOperation may have.                             *)
ASSUME AgentAssumption ==
  /\ MaxRows \in Nat \ {0} /\ Requests # {}
  /\ \A o \in Offer :
       /\ o.does \in {"answers", "malformed", "raises"} /\ IsFiniteSet(o.operations)
       /\ \A op1, op2 \in o.operations : op1.key = op2.key => op1 = op2
       /\ \A op \in o.operations :
            /\ op.owner = "source" /\ op.kind \in {"metadata", "data"}
            /\ op.fields \in Seq({op.fields[i] : i \in DOMAIN op.fields})
            /\ \A i \in DOMAIN op.fields : IsField(op.fields[i])

NoOffer == [does |-> "answers", operations |-> {}]
SourceOperations(offer) == IF offer.does = "raises" THEN {} ELSE offer.operations

\* The operations by key: a source's own replaces the built-in of the same key.
ResolveOperationCatalog(offer) ==
  LET own == SourceOperations(offer)
  IN own \cup {o \in BuiltInOperations : \A s \in own : s.key # o.key}

Under(operations, key) ==
  LET known == {o \in operations : o.key = key}
  IN IF known = {} THEN Unknown ELSE CHOOSE o \in known : TRUE

ResolveOperation(offer, key) == Under(ResolveOperationCatalog(offer), key)

\* Every operation but list_operations needs a connector that was built.
RequiresConnector(op) == op.name # "list_operations"

-----------------------------------------------------------------------------
VARIABLES
  stage,       \* "idle", "resolved", "typed", "pulling", "emitting", "done", "raised"
  request,     \* the request in hand
  initError,   \* the error that building the connector raised, or "none"
  operation,   \* the operation the request resolved to
  schema,      \* the columns of the answer
  brought,     \* whether the client brought that schema
  pulled,      \* the rows pulled and not yet emitted
  emitted,     \* the rows of the answer so far
  produced,    \* history: how many rows the operation has yielded
  ended,       \* history: "no", "exhausted" or "failed", how the pull ended
  contact      \* history: whether the source answered, at times of the request

answerVars == <<schema, brought, pulled, emitted, produced, ended>>
agentVars == <<stage, request, initError, operation, answerVars, contact>>

\* Rows that come one by one: a source's own operation, and a table's records.
Streams(op) ==
  \/ op.owner = "source" /\ op.name # "validate_connection"
  \/ op.kind = "data"
CurrentOffer == IF initError = "none" THEN offered ELSE NoOffer

NoRequestYet == CHOOSE r \in Requests : TRUE

AgentInit ==
  /\ stage = "idle" /\ request = NoRequestYet /\ initError = "none"
  /\ operation = Unknown /\ schema = << >> /\ brought = FALSE
  /\ pulled = << >> /\ emitted = << >> /\ produced = 0 /\ ended = "no"
  /\ contact = {}

Raise == stage' = "raised" /\ UNCHANGED answerVars

\* IngestionAgentDispatcher.__init__, with the connector or the error that
\* building it raised. It has the catalog built, and so asks for the offer.
Construct(r, error) ==
  LET offer == IF error = "none" THEN offered ELSE NoOffer
      fails == r.operation = "none" \/ offer.does = "malformed"
  IN /\ stage = "idle"
     /\ stage' = IF fails THEN "raised" ELSE "resolved"
     /\ operation' = IF fails THEN Unknown ELSE ResolveOperation(offer, r.operation)
     /\ request' = r /\ initError' = error /\ contact' = {reachable}
     /\ UNCHANGED answerVars

MissingParameter(op) == ~(op.required \subseteq request.given)
FailsToBuild ==
  operation # Unknown /\ initError # "none" /\ RequiresConnector(operation)

Typed(fields) ==
  /\ stage' = "typed"
  /\ schema' = IF operation.kind = "metadata"
                 THEN EnsureMetaField(RelaxNullability(fields)) ELSE fields
  /\ UNCHANGED <<brought, pulled, emitted, produced, ended>>

\* resolve_schema of read_table asks the connector for the table's columns.
TypedByTable ==
  \/ request.table \in ListTables /\ Typed(TableFields)
  \/ request.table \notin ListTables /\ Raise
  \/ ~reachable /\ Raise

Schema ==
  /\ stage = "resolved"
  /\ CASE operation = Unknown -> Raise
       [] FailsToBuild -> IF operation.kind = "data" THEN Raise ELSE Typed(operation.fields)
       [] operation # Unknown /\ ~FailsToBuild ->
            IF operation.kind = "data" /\ MissingParameter(operation) THEN Raise
            ELSE IF operation = ReadTableOp THEN TypedByTable
            ELSE IF operation.typed THEN Typed(operation.fields) ELSE Raise
  /\ UNCHANGED <<request, initError, operation, contact>>

\* A client that states a schema of its own is not asked to have one resolved.
BringSchema(fields) ==
  /\ stage = "resolved" /\ stage' = "typed"
  /\ schema' = fields /\ brought' = TRUE
  /\ UNCHANGED <<request, initError, operation, pulled, emitted, produced, ended,
                 contact>>

-----------------------------------------------------------------------------
(* IngestionAgentReader.read *)

Answers(rows, how) ==
  /\ stage' = "emitting" /\ pulled' = rows /\ ended' = how
  /\ produced' = IF how = "exhausted" THEN Len(rows) ELSE produced
  /\ UNCHANGED <<schema, brought, emitted>>

\* A mutant of InitErrorRow: a failed health check is an error like another.
InitErrorRowAnyCode(op) == ErrorRow(initError)

InitErrorRow(op) ==
  IF op.name = "validate_connection" THEN Meta("error", "connection_failed")
    ELSE ErrorRow(initError)

\* What is decided before pull. A metadata operation turns into a row what a
\* data operation raises, if it has not raised it in Schema.
StartRead ==
  /\ stage = "typed"
  /\ CASE operation = Unknown -> Answers(<<ErrorRow("ValueError")>>, "failed")
       [] FailsToBuild ->
            IF operation.kind = "data" THEN Raise
              ELSE Answers(<<InitErrorRow(operation)>>, "failed")
       [] operation # Unknown /\ ~FailsToBuild ->
            IF MissingParameter(operation) /\ operation.kind = "metadata"
              THEN Answers(<<ErrorRow("bad_request")>>, "failed")
            ELSE IF MissingParameter(operation) /\ operation = ReadTableOp THEN Raise
            ELSE stage' = "pulling" /\ UNCHANGED answerVars
  /\ UNCHANGED <<request, initError, operation, contact>>

Copies(row, n) == [i \in 1 .. n |-> row]
TextRow(columns) == RowOf([i \in DOMAIN columns |-> <<columns[i].name, Text>>])

\* _default_list_objects: flat, so nothing lies under a path.
PullListObjects ==
  IF "path" \in request.given THEN Answers(<< >>, "exhausted")
    ELSE IF ("search" \in request.given /\ ~request.compiles) \/ ~ListTablesAnswers
      THEN Answers(<<ErrorRow("other")>>, "failed")
      ELSE \E hits \in SUBSET ListTables :
             /\ "search" \in request.given \/ hits = ListTables
             /\ Answers(Copies(TextRow(ListObjectsColumns), Cardinality(hits)), "exhausted")

\* The metadata of a table by key, filtered by metadataKey where it is given.
PullGetObjectMetadata ==
  \/ /\ request.table \in ListTables
     /\ \E n \in IF "metadataKey" \in request.given THEN 0 .. 1 ELSE 1 .. MaxRows :
          Answers(Copies(TextRow(GetObjectMetadataColumns), n), "exhausted")
  \/ request.table \notin ListTables /\ Answers(<<ErrorRow("ValueError")>>, "failed")
  \/ ~reachable /\ Answers(<<ErrorRow("other")>>, "failed")

\* The health check asks for list_tables; a source's own says what it likes,
\* and one that returns no mapping is a TypeError.
PullValidateConnection ==
  IF operation.owner = "framework"
    THEN Answers(<<IF ListTablesAnswers THEN Meta("ok", "none")
                     ELSE Meta("error", "connection_failed")>>, "exhausted")
    ELSE \/ \E row \in {Meta("ok", "none"), Meta("error", "auth_failed")} :
              Answers(<<row>>, "exhausted")
         \/ Answers(<<ErrorRow("other")>>, "failed")

\* The catalog again, as the source offers it by now.
PullListOperations ==
  LET catalog == ResolveOperationCatalog(CurrentOffer)
  IN IF CurrentOffer.does = "malformed"
       THEN Answers(<<ErrorRow("other")>>, "failed")
       ELSE Answers(Copies(TextRow(ListOperationsColumns), Cardinality(catalog)), "exhausted")

PullAtOnce ==
  /\ stage = "pulling" /\ ~Streams(operation)
  /\ CASE operation.name = "list_objects" -> PullListObjects
       [] operation.name = "get_object_metadata" -> PullGetObjectMetadata
       [] operation.name = "validate_connection" -> PullValidateConnection
       [] operation.name = "list_operations" -> PullListOperations
  /\ UNCHANGED <<request, initError, operation, contact>>

\* parse_value on the way out; nobody catches what it raises.
Fits(row) == ParseRow(AsValue(row), schema) = "parsed"
Emits(row) ==
  /\ IF Fits(row) THEN stage' = stage /\ emitted' = Append(emitted, Parsed(row, schema))
       ELSE stage' = "raised" /\ UNCHANGED emitted
  /\ UNCHANGED <<schema, brought, ended>>

Yields == stage = "pulling" /\ Streams(operation) /\ produced < MaxRows /\ produced' = produced + 1

\* A mutant of PullRow: the rows of a metadata operation go out as they come.
PullRowLazily(row) ==
  /\ Yields
  /\ Emits(IF operation.kind = "data" THEN row ELSE WithDefaultMeta(row))
  /\ UNCHANGED <<request, initError, operation, pulled, contact>>

\* A data operation's row goes straight out; a metadata operation's waits for
\* the last one.
PullRow(row) ==
  /\ Yields
  /\ IF operation.kind = "data" THEN Emits(row) /\ UNCHANGED pulled
       ELSE pulled' = Append(pulled, row) /\ UNCHANGED <<stage, schema, brought, emitted, ended>>
  /\ UNCHANGED <<request, initError, operation, contact>>

PullEnds ==
  /\ stage = "pulling" /\ Streams(operation)
  /\ stage' = IF operation.kind = "data" THEN "done" ELSE "emitting"
  /\ ended' = "exhausted"
  /\ UNCHANGED <<request, initError, operation, schema, brought, pulled, emitted, produced,
                 contact>>

\* The operation may raise at its first row or after some.
PullRaises(error) ==
  /\ stage = "pulling" /\ Streams(operation)
  /\ IF operation.kind = "data" THEN Raise ELSE Answers(<<ErrorRow(error)>>, "failed")
  /\ UNCHANGED <<request, initError, operation, contact>>

Emit ==
  /\ stage = "emitting"
  /\ IF pulled = << >>
       THEN stage' = "done" /\ UNCHANGED answerVars
       ELSE Emits(WithDefaultMeta(Head(pulled))) /\ pulled' = Tail(pulled) /\ UNCHANGED produced
  /\ UNCHANGED <<request, initError, operation, contact>>

\* The next request has a dispatcher of its own.
CloseAnswer ==
  /\ stage \in {"done", "raised"} /\ stage' = "idle" /\ request' = NoRequestYet
  /\ initError' = "none" /\ operation' = Unknown /\ schema' = << >> /\ brought' = FALSE
  /\ pulled' = << >> /\ emitted' = << >> /\ produced' = 0 /\ ended' = "no" /\ contact' = {}

AgentNext ==
  \/ \E r \in Requests, error \in {"none", "ValueError", "other"} : Construct(r, error)
  \/ Schema \/ StartRead \/ PullAtOnce \/ PullEnds \/ Emit \/ CloseAnswer
  \/ \E fields \in BroughtFields : BringSchema(fields)
  \/ \E cells \in SourceRows, status \in {"none", "error"} :
       PullRow([RowOf(cells) EXCEPT !.status = status])
  \/ \E error \in {"ValueError", "other", "auth_failed"} : PullRaises(error)

\* What a change of the source does to the history.
AgentSees ==
  /\ contact' = IF stage \in {"idle", "done", "raised"} THEN contact ELSE contact \cup {reachable'}
  /\ UNCHANGED <<stage, request, initError, operation, answerVars>>
=============================================================================
