-------------------------- MODULE IngestionPipeline --------------------------
(***************************************************************************)
(* ingest: a pipeline specification becomes views over the source and      *)
(* flows into destination tables. The specification is validated, the      *)
(* connector is asked for the metadata of every table, and each table of   *)
(* the list is declared in turn. Everything about a table is looked up by  *)
(* its source name, which picks the first object with that name.           *)
(*                                                                         *)
(* A name is the sequence of the words between its underscores; a data set *)
(* name adds a catalog and a schema, empty where there is none.            *)
(***************************************************************************)
EXTENDS Naturals, Sequences

CONSTANTS
  Word,      \* the words names consist of
  Table,     \* the names of the source tables
  Option,    \* the options a table configuration may hold for the source
  Column,    \* the column names
  Specs,     \* the specifications considered
  Answers    \* what the connector may know of the tables

Name == Seq(Word)
NoName == <<>>
Blank == ""   \* the word between two underscores that follow each other
DatasetName == [catalog : Name, schema : Name, table : Name]
Plain(name) == [catalog |-> NoName, schema |-> NoName, table |-> name]

\* The text a null becomes when the configuration is normalised.
NullText == "None"
NoColumn == "no column"

\* A configuration entry as it is written in the specification.
KeyEntry ==
  {e \in [kind : {"absent", "null", "string", "list", "malformed"}, cols : Seq(Column)] :
     e.kind \notin {"string", "list"} => e.cols = <<>>}
ColumnEntry == Column \cup {NoColumn, NullText}
ScdEntry == {"absent", "null", "SCD_TYPE_1", "SCD_TYPE_2", "APPEND_ONLY", "other"}

Object ==
  [source : Table, catalog : Name, schema : Name, table : Name,
   config : SUBSET Option, scd : ScdEntry, keys : KeyEntry, sequence : ColumnEntry]

KnownTypes == {"cdc", "cdc_with_deletes", "snapshot", "append"}

\* What read_table_metadata answers; known is FALSE when it raises.
Answer == [known : BOOLEAN, keys : Seq(Column), cursor : Column \cup {NoColumn},
           type : KnownTypes \cup {"absent", "other"}]

ASSUME PipelineAssumption ==
  /\ Table \subseteq Name \ {NoName}
  /\ NullText \in Column /\ NoColumn \notin Column
  /\ {"source", "upsert", "delete", "snapshot", "append", Blank} \subseteq Word
  /\ Specs \subseteq Seq(Object)
  /\ Answers \subseteq [Table -> Answer]

VARIABLES
  spec,      \* the objects of the specification
  answers,   \* what the connector knows of each source table
  stage,     \* "parse", "describe", "ingest", "done" or "failed"
  position,  \* the object that is ingested next
  views,     \* the views declared so far
  targets,   \* the streaming tables created so far
  flows      \* the flows declared so far

vars == <<spec, answers, stage, position, views, targets, flows>>

View == [name : DatasetName, table : Table, config : SUBSET Option, deletes : BOOLEAN]
Flow == [kind : {"upsert", "delete", "snapshot", "append"}, target : DatasetName,
         view : DatasetName, keys : Seq(Column), sequence : Column \cup {NoColumn},
         scd : {"1", "2"}]

NeedsKeys(flow) == flow.kind # "append"
NeedsSequence(flow) == flow.kind \in {"upsert", "delete"}

TypeOK ==
  /\ spec \in Seq(Object) /\ answers \in [Table -> Answer]
  /\ stage \in {"parse", "describe", "ingest", "done", "failed"}
  /\ position \in 1 .. Len(spec) + 1
  /\ views \subseteq View /\ targets \subseteq DatasetName /\ flows \subseteq Flow
  /\ \A f \in flows : /\ NeedsKeys(f) => f.keys # <<>>
                      /\ NeedsSequence(f) => f.sequence # NoColumn

Init ==
  /\ spec \in Specs /\ answers \in Answers
  /\ stage = "parse" /\ position = 1
  /\ views = {} /\ targets = {} /\ flows = {}

-----------------------------------------------------------------------------
(* The specification *)

\* Every getter stops at the first object of the source table.
ObjectOf(t) ==
  spec[CHOOSE i \in DOMAIN spec :
         spec[i].source = t /\ \A j \in 1 .. i - 1 : spec[j].source # t]

GetTableConfiguration(t) == ObjectOf(t).config

\* A null was normalised to its text, which is no valid type.
ScdTypeIsValid(t) ==
  ObjectOf(t).scd \in {"absent", "SCD_TYPE_1", "SCD_TYPE_2", "APPEND_ONLY"}

\* <<>> stands for None and for an empty list, which ingest treats alike.
PrimaryKeysParse(t) == ObjectOf(t).keys.kind # "malformed"
GetPrimaryKeys(t) ==
  CASE ObjectOf(t).keys.kind = "absent" -> <<>>
    [] ObjectOf(t).keys.kind = "null" -> <<NullText>>
    [] OTHER -> ObjectOf(t).keys.cols

GetSequenceBy(t) == ObjectOf(t).sequence

\* Without both a catalog and a schema, neither counts.
GetFullDestinationTableName(t) ==
  LET o == ObjectOf(t)
      table == IF o.table = NoName THEN t ELSE o.table
  IN  IF o.catalog = NoName \/ o.schema = NoName THEN Plain(table)
      ELSE [catalog |-> o.catalog, schema |-> o.schema, table |-> table]

-----------------------------------------------------------------------------
(* One table *)

PrimaryKeys(t) ==
  IF GetPrimaryKeys(t) # <<>> THEN GetPrimaryKeys(t) ELSE answers[t].keys

SequenceBy(t) ==
  IF GetSequenceBy(t) # NoColumn THEN GetSequenceBy(t) ELSE answers[t].cursor

\* A mutant of IngestionType: the type of the connector wins.
IngestionTypeOfSource(t) ==
  IF answers[t].type = "absent" THEN "cdc" ELSE answers[t].type

\* The connector's type, unless the specification says append only.
IngestionType(t) ==
  IF ObjectOf(t).scd = "APPEND_ONLY" THEN "append"
  ELSE IF answers[t].type = "absent" THEN "cdc"
  ELSE answers[t].type

\* A mutant of FlowType: every type is a flow type.
FlowTypeItself(type) == type

FlowType(type) == IF type \in {"snapshot", "append"} THEN type ELSE "upsert"

\* Backticks and dots become underscores.
Sanitized(d) ==
  IF d.catalog = NoName THEN d.table
  ELSE <<Blank>> \o d.catalog \o <<Blank, Blank>> \o d.schema \o <<Blank, Blank>> \o d.table
         \o <<Blank>>

\* A mutant of BuildViewName: the flow type is left out.
BuildViewNameWithoutFlow(t, flow, d) == Plain(<<"source">> \o t \o Sanitized(d))

BuildViewName(t, flow, d) == Plain(<<"source">> \o t \o <<flow>> \o Sanitized(d))

ViewOf(t, flow) ==
  [name |-> BuildViewName(t, flow, GetFullDestinationTableName(t)), table |-> t,
   config |-> GetTableConfiguration(t), deletes |-> flow = "delete"]

FlowOf(t, flow) ==
  [kind |-> flow, target |-> GetFullDestinationTableName(t), view |-> ViewOf(t, flow).name,
   keys |-> IF flow = "append" THEN <<>> ELSE PrimaryKeys(t),
   sequence |-> IF flow \in {"upsert", "delete"} THEN SequenceBy(t) ELSE NoColumn,
   scd |-> IF ObjectOf(t).scd = "SCD_TYPE_2" /\ flow # "append" THEN "2" ELSE "1"]

\* The flows of a table; a type of no branch declares nothing.
FlowTypes(t) ==
  IF IngestionType(t) \notin KnownTypes THEN {}
  ELSE {FlowType(IngestionType(t))}
         \cup (IF IngestionType(t) = "cdc_with_deletes" THEN {"delete"} ELSE {})

NewViews(t) == {ViewOf(t, flow) : flow \in FlowTypes(t)}
NewFlows(t) == {FlowOf(t, flow) : flow \in FlowTypes(t)}
NewTargets(t) == IF FlowTypes(t) = {} THEN {} ELSE {GetFullDestinationTableName(t)}

Names(vs) == {v.name : v \in vs}

\* Spark refuses a data set that is declared twice.
Redefines(t) ==
  \/ (Names(NewViews(t)) \cup NewTargets(t)) \cap (Names(views) \cup targets) # {}
  \/ Names(NewViews(t)) \cap NewTargets(t) # {}
  \/ \E a, b \in FlowTypes(t) : a # b /\ ViewOf(t, a).name = ViewOf(t, b).name

\* Spark refuses a flow of changes without a key or without a sequence.
Incomplete(f) ==
  \/ NeedsKeys(f) /\ f.keys = <<>>
  \/ NeedsSequence(f) /\ f.sequence = NoColumn

Raises(t) ==
  \/ ~ ScdTypeIsValid(t) \/ ~ PrimaryKeysParse(t)
  \/ Redefines(t)
  \/ \E f \in NewFlows(t) : Incomplete(f)

-----------------------------------------------------------------------------
(* ingest *)

Current == spec[position].source

ParseSpec ==
  /\ stage = "parse"
  /\ stage' = IF spec = <<>> THEN "failed" ELSE "describe"
  /\ UNCHANGED <<spec, answers, position, views, targets, flows>>

\* The virtual metadata table is read for all tables at once.
GetTableMetadata ==
  /\ stage = "describe"
  /\ stage' = IF \A i \in DOMAIN spec : answers[spec[i].source].known THEN "ingest"
              ELSE "failed"
  /\ UNCHANGED <<spec, answers, position, views, targets, flows>>

IngestTable ==
  /\ stage = "ingest" /\ position <= Len(spec)
  /\ ~ Raises(Current)
  /\ views' = views \cup NewViews(Current)
  /\ targets' = targets \cup NewTargets(Current)
  /\ flows' = flows \cup NewFlows(Current)
  /\ position' = position + 1
  /\ UNCHANGED <<spec, answers, stage>>

\* Nothing of a pipeline whose definition raises is run; what was declared of
\* its last table is left out.
TableRaises ==
  /\ stage = "ingest" /\ position <= Len(spec)
  /\ Raises(Current)
  /\ stage' = "failed"
  /\ UNCHANGED <<spec, answers, position, views, targets, flows>>

Finish ==
  /\ stage = "ingest" /\ position > Len(spec)
  /\ stage' = "done"
  /\ UNCHANGED <<spec, answers, position, views, targets, flows>>

\* The definition has been evaluated.
Over == stage \in {"done", "failed"} /\ UNCHANGED vars

Next == ParseSpec \/ GetTableMetadata \/ IngestTable \/ TableRaises \/ Finish \/ Over

Spec == Init /\ [][Next]_vars

-----------------------------------------------------------------------------
(* Properties, in terms of each object and not of the look-ups *)

Destination(o) ==
  LET table == IF o.table = NoName THEN o.source ELSE o.table
  IN  IF o.catalog # NoName /\ o.schema # NoName
      THEN [catalog |-> o.catalog, schema |-> o.schema, table |-> table]
      ELSE Plain(table)

AskedType(o) ==
  IF o.scd = "APPEND_ONLY" THEN "append"
  ELSE IF answers[o.source].type = "absent" THEN "cdc" ELSE answers[o.source].type

AskedFlows(o) ==
  CASE AskedType(o) = "cdc" -> {"upsert"}
    [] AskedType(o) = "cdc_with_deletes" -> {"upsert", "delete"}
    [] AskedType(o) \in {"snapshot", "append"} -> {AskedType(o)}
    [] OTHER -> {}

\* Flow f takes the rows of object o's table, read with o's configuration, to
\* o's destination; o's own keys and sequence go before the connector's.
Serves(f, o) ==
  /\ f.target = Destination(o)
  /\ \E v \in views : /\ v.name = f.view /\ v.table = o.source /\ v.config = o.config
                      /\ v.deletes <=> f.kind = "delete"
  /\ f.kind # "append" /\ o.keys.kind # "null" =>
       f.keys = (IF o.keys.cols # <<>> THEN o.keys.cols ELSE answers[o.source].keys)
  /\ f.kind \in {"upsert", "delete"} =>
       f.sequence = (IF o.sequence # NoColumn THEN o.sequence
                     ELSE answers[o.source].cursor)

\* When ingest returns, every object has the flows it asks for, with its own
\* configuration, and no flow serves two objects or none. Only an object whose
\* source has an ingestion type ingest does not know may be left out, silently.
SpecIsFulfilled ==
  stage = "done" =>
    /\ \A i \in DOMAIN spec : answers[spec[i].source].type # "other" =>
         {f.kind : f \in {g \in flows : Serves(g, spec[i])}} = AskedFlows(spec[i])
    /\ \A f \in flows : \E i \in DOMAIN spec :
         /\ Serves(f, spec[i])
         /\ \A j \in DOMAIN spec : Serves(f, spec[j]) => j = i

Colliding(o, p) ==
  \/ o.source = p.source
  \/ Destination(o) = Destination(p)
  \/ \E a \in AskedFlows(o) :
       LET view == BuildViewName(o.source, a, Destination(o))
       IN  \/ view = Destination(p)
           \/ \E b \in AskedFlows(p) : view = BuildViewName(p.source, b, Destination(p))

Flawed(o) ==
  \/ ~ answers[o.source].known
  \/ o.scd \in {"null", "other"} \/ o.keys.kind = "malformed"
  \/ /\ AskedFlows(o) \cap {"upsert", "snapshot"} # {}
     /\ o.keys.cols = <<>> /\ answers[o.source].keys = <<>>
  \/ /\ "upsert" \in AskedFlows(o)
     /\ o.sequence = NoColumn /\ answers[o.source].cursor = NoColumn

\* ingest raises only over an empty list, over an object that is flawed by
\* itself, or over two objects that want a data set of the same name.
FailsForACause ==
  stage = "failed" =>
    \/ spec = <<>>
    \/ \E i \in DOMAIN spec : Flawed(spec[i])
    \/ \E i, j \in DOMAIN spec : i # j /\ Colliding(spec[i], spec[j])
=============================================================================
