----------------------- MODULE IngestionPipelineProofs -----------------------
(***************************************************************************)
(* For every specification and whatever metadata the connector answers: a  *)
(* pipeline whose definition does not raise gives every object its own     *)
(* flows, and one that raises has a cause in its objects.                  *)
(***************************************************************************)
EXTENDS IngestionPipeline, TLAPS

Ingested == 1 .. position - 1
SourceOf(i) == spec[i].source
DatasetsOf(t) == Names(NewViews(t)) \cup NewTargets(t)

Sound(t) ==
  /\ ScdTypeIsValid(t) /\ PrimaryKeysParse(t)
  /\ \A f \in NewFlows(t) : ~ Incomplete(f)

StageInv ==
  /\ spec \in Seq(Object) /\ answers \in [Table -> Answer]
  /\ stage \in {"parse", "describe", "ingest", "done", "failed"}
  /\ position \in 1 .. Len(spec) + 1
  /\ stage = "done" => position = Len(spec) + 1

\* What is declared is what the objects ingested so far declare.
DeclaredInv ==
  /\ views = UNION {NewViews(SourceOf(i)) : i \in Ingested}
  /\ targets = UNION {NewTargets(SourceOf(i)) : i \in Ingested}
  /\ flows = UNION {NewFlows(SourceOf(i)) : i \in Ingested}

\* No two of them declared a data set of the same name.
ApartInv ==
  /\ \A i \in Ingested : Sound(SourceOf(i))
  /\ \A i, j \in Ingested :
       i < j => DatasetsOf(SourceOf(i)) \cap DatasetsOf(SourceOf(j)) = {}

\* There is a first object of each source, the one the look-ups find.
IsFirst(j, t) == spec[j].source = t /\ \A k \in 1 .. j - 1 : spec[k].source # t
FirstInv == \A i \in Ingested : \E j \in 1 .. i : IsFirst(j, SourceOf(i))

PipelineInv == StageInv /\ DeclaredInv /\ ApartInv /\ FirstInv

-----------------------------------------------------------------------------
(* What one table declares does not depend on the state of ingest. *)

LEMMA TablesStay ==
  ASSUME UNCHANGED <<spec, answers>>, NEW t
  PROVE  /\ NewViews(t)' = NewViews(t)
         /\ NewTargets(t)' = NewTargets(t)
         /\ NewFlows(t)' = NewFlows(t)
         /\ DatasetsOf(t)' = DatasetsOf(t)
         /\ Sound(t)' = Sound(t)
<1>1. ObjectOf(t)' = ObjectOf(t)
  BY DEF ObjectOf
<1>2. IngestionType(t)' = IngestionType(t)
  BY <1>1 DEF IngestionType
<1>3. FlowTypes(t)' = FlowTypes(t)
  BY <1>2 DEF FlowTypes
<1>4. GetFullDestinationTableName(t)' = GetFullDestinationTableName(t)
  BY <1>1 DEF GetFullDestinationTableName
<1>5. PrimaryKeys(t)' = PrimaryKeys(t) /\ SequenceBy(t)' = SequenceBy(t)
  BY <1>1 DEF PrimaryKeys, SequenceBy, GetPrimaryKeys, GetSequenceBy
<1>6. \A flow : ViewOf(t, flow)' = ViewOf(t, flow)
  BY <1>1, <1>4 DEF ViewOf, GetTableConfiguration
<1>7. \A flow : FlowOf(t, flow)' = FlowOf(t, flow)
  BY <1>1, <1>4, <1>5, <1>6 DEF FlowOf
<1>8. /\ NewViews(t)' = NewViews(t) /\ NewTargets(t)' = NewTargets(t)
      /\ NewFlows(t)' = NewFlows(t)
  BY <1>3, <1>4, <1>6, <1>7 DEF NewViews, NewTargets, NewFlows
<1>9. Sound(t)' = Sound(t)
  BY <1>1, <1>8 DEF Sound, ScdTypeIsValid, PrimaryKeysParse
<1> QED
  BY <1>8, <1>9 DEF DatasetsOf

\* A step that changes neither the objects nor what is declared keeps the
\* invariant, if it enters "done" only at the end of the list.
LEMMA StageStep ==
  ASSUME PipelineInv, UNCHANGED <<spec, answers, position, views, targets, flows>>,
         stage' \in {"parse", "describe", "ingest", "done", "failed"},
         stage' = "done" => position = Len(spec) + 1
  PROVE  PipelineInv'
<1>1. StageInv'
  BY DEF PipelineInv, StageInv
<1>2. \A i \in Ingested : SourceOf(i)' = SourceOf(i)
  BY DEF SourceOf
<1>3. Ingested' = Ingested
  BY DEF Ingested
<1>4. DeclaredInv'
  BY <1>2, <1>3, TablesStay DEF PipelineInv, DeclaredInv, SourceOf
<1>5. ApartInv'
  BY <1>2, <1>3, TablesStay DEF PipelineInv, ApartInv, SourceOf
<1>6. FirstInv'
  BY <1>2, <1>3 DEF PipelineInv, FirstInv, IsFirst, SourceOf
<1> QED
  BY <1>1, <1>4, <1>5, <1>6 DEF PipelineInv

LEMMA PipelineInit == Init => PipelineInv
<1> SUFFICES ASSUME Init PROVE PipelineInv
  OBVIOUS
<1>1. spec \in Seq(Object) /\ answers \in [Table -> Answer]
  BY PipelineAssumption DEF Init
<1>2. StageInv
  <2>1. Len(spec) \in Nat
    BY <1>1
  <2> QED
    BY <1>1, <2>1 DEF Init, StageInv
<1>3. Ingested = {}
  BY DEF Init, Ingested
<1> QED
  BY <1>2, <1>3 DEF Init, PipelineInv, DeclaredInv, ApartInv, FirstInv

LEMMA PipelineIngest == PipelineInv /\ IngestTable => PipelineInv'
<1> SUFFICES ASSUME PipelineInv, IngestTable PROVE PipelineInv'
  OBVIOUS
<1> USE DEF Ingested, SourceOf
<1>1. /\ spec' = spec /\ answers' = answers /\ stage' = stage
      /\ position' = position + 1 /\ position \in 1 .. Len(spec) /\ Len(spec) \in Nat
  BY DEF IngestTable, PipelineInv, StageInv
<1>2. Ingested' = Ingested \cup {position}
  BY <1>1
<1>3. \A i \in Ingested' : SourceOf(i)' = SourceOf(i)
  BY <1>1
<1>4. SourceOf(position) = Current
  BY DEF Current
<1>5. StageInv'
  BY <1>1 DEF IngestTable, PipelineInv, StageInv
<1>6. DeclaredInv'
  <2>1. views' = UNION {NewViews(SourceOf(i)) : i \in Ingested'}
    BY <1>2, <1>4 DEF IngestTable, PipelineInv, DeclaredInv
  <2>2. targets' = UNION {NewTargets(SourceOf(i)) : i \in Ingested'}
    BY <1>2, <1>4 DEF IngestTable, PipelineInv, DeclaredInv
  <2>3. flows' = UNION {NewFlows(SourceOf(i)) : i \in Ingested'}
    BY <1>2, <1>4 DEF IngestTable, PipelineInv, DeclaredInv
  <2> QED
    BY <1>1, <2>1, <2>2, <2>3, TablesStay DEF DeclaredInv
<1>7. ApartInv'
  <2>1. Sound(Current)
    BY DEF IngestTable, Raises, Sound
  <2>2. DatasetsOf(Current) \cap (Names(views) \cup targets) = {}
    BY DEF IngestTable, Raises, Redefines, DatasetsOf
  <2>3. \A i \in Ingested : DatasetsOf(SourceOf(i)) \subseteq Names(views) \cup targets
    BY DEF PipelineInv, DeclaredInv, DatasetsOf, Names
  <2>4. \A i, j \in Ingested' :
          i < j => DatasetsOf(SourceOf(i)) \cap DatasetsOf(SourceOf(j)) = {}
    <3> SUFFICES ASSUME NEW i \in Ingested', NEW j \in Ingested', i < j
                 PROVE  DatasetsOf(SourceOf(i)) \cap DatasetsOf(SourceOf(j)) = {}
      OBVIOUS
    <3>1. i \in Ingested
      BY <1>1, <1>2
    <3>2. CASE j = position
      BY <2>2, <2>3, <3>1, <3>2, <1>4
    <3>3. CASE j \in Ingested
      BY <3>1, <3>3 DEF PipelineInv, ApartInv
    <3> QED
      BY <1>2, <3>2, <3>3
  <2>5. \A i \in Ingested' : Sound(SourceOf(i))
    BY <1>2, <1>4, <2>1 DEF PipelineInv, ApartInv
  <2>6. \A i \in Ingested' : Sound(SourceOf(i))'
    BY <1>1, <2>5, TablesStay
  <2>7. \A i \in Ingested' : DatasetsOf(SourceOf(i))' = DatasetsOf(SourceOf(i))
    BY <1>1, TablesStay
  <2> QED
    BY <2>4, <2>6, <2>7 DEF ApartInv
<1>8. FirstInv'
  <2>1. \A i \in Ingested' : \E j \in 1 .. i : IsFirst(j, SourceOf(i))
    <3> SUFFICES ASSUME NEW i \in Ingested' PROVE \E j \in 1 .. i : IsFirst(j, SourceOf(i))
      OBVIOUS
    <3>1. CASE i \in Ingested
      BY <3>1 DEF PipelineInv, FirstInv
    <3>2. CASE i = position /\ \E k \in Ingested : SourceOf(k) = Current
      <4> PICK k \in Ingested : SourceOf(k) = Current
        BY <3>2
      <4>1. PICK j \in 1 .. k : IsFirst(j, SourceOf(k))
        BY DEF PipelineInv, FirstInv
      <4>2. j \in 1 .. i
        BY <1>1, <3>2
      <4> QED
        BY <1>4, <3>2, <4>1, <4>2
    <3>3. CASE i = position /\ \A k \in Ingested : SourceOf(k) # Current
      <4>1. IsFirst(position, SourceOf(position))
        BY <1>4, <3>3 DEF IsFirst
      <4> QED
        BY <1>1, <3>3, <4>1
    <3> QED
      BY <1>2, <3>1, <3>2, <3>3
  <2> QED
    BY <1>1, <2>1 DEF FirstInv, IsFirst
<1> QED
  BY <1>5, <1>6, <1>7, <1>8 DEF PipelineInv

LEMMA PipelineStep == PipelineInv /\ [Next]_vars => PipelineInv'
<1> SUFFICES ASSUME PipelineInv, [Next]_vars PROVE PipelineInv'
  OBVIOUS
<1>1. CASE ParseSpec
  BY <1>1, StageStep DEF ParseSpec
<1>2. CASE GetTableMetadata
  BY <1>2, StageStep DEF GetTableMetadata
<1>3. CASE IngestTable
  BY <1>3, PipelineIngest
<1>4. CASE TableRaises
  BY <1>4, StageStep DEF TableRaises
<1>5. CASE Finish
  <2>1. position = Len(spec) + 1
    BY <1>5 DEF Finish, PipelineInv, StageInv
  <2> QED
    BY <1>5, <2>1, StageStep DEF Finish
<1>6. CASE UNCHANGED vars
  <2>1. stage' = "done" => position = Len(spec) + 1
    BY <1>6 DEF vars, PipelineInv, StageInv
  <2> QED
    BY <1>6, <2>1, StageStep DEF vars, PipelineInv, StageInv
<1> QED
  BY <1>1, <1>2, <1>3, <1>4, <1>5, <1>6 DEF Next, Over

-----------------------------------------------------------------------------
(* What has been declared when ingest returns *)

\* A table that declares anything is looked up as the object it comes from.
LEMMA LookUpFindsObject ==
  ASSUME PipelineInv, NEW i \in Ingested, FlowTypes(SourceOf(i)) # {}
  PROVE  /\ IsFirst(i, SourceOf(i))
         /\ ObjectOf(SourceOf(i)) = spec[i]
<1>1. /\ spec \in Seq(Object) /\ i \in Nat /\ i \in 1 .. Len(spec) /\ position \in Nat
      /\ DOMAIN spec = 1 .. Len(spec)
  BY DEF PipelineInv, StageInv, Ingested
<1>2. GetFullDestinationTableName(SourceOf(i)) \in DatasetsOf(SourceOf(i))
  BY DEF DatasetsOf, NewTargets
<1>3. PICK j \in 1 .. i : IsFirst(j, SourceOf(i))
  BY DEF PipelineInv, FirstInv
<1>4. j = i
  <2> SUFFICES ASSUME j # i PROVE FALSE
    OBVIOUS
  <2>1. j \in Ingested /\ j < i
    BY <1>1 DEF Ingested
  <2>2. SourceOf(j) = SourceOf(i)
    BY <1>3 DEF IsFirst, SourceOf
  <2>3. DatasetsOf(SourceOf(j)) \cap DatasetsOf(SourceOf(i)) = {}
    BY <2>1 DEF PipelineInv, ApartInv
  <2> QED
    BY <1>2, <2>2, <2>3
<1>5. IsFirst(i, SourceOf(i))
  BY <1>3, <1>4
<1>6. \A k \in DOMAIN spec : IsFirst(k, SourceOf(i)) => k = i
  BY <1>1, <1>5 DEF IsFirst
<1>7. ObjectOf(SourceOf(i)) = spec[i]
  BY <1>1, <1>5, <1>6 DEF ObjectOf, IsFirst
<1> QED
  BY <1>5, <1>7

\* The look-ups of an object that is found say what the object says.
LEMMA LookUpsAgree ==
  ASSUME NEW o \in Object, ObjectOf(o.source) = o
  PROVE  /\ GetFullDestinationTableName(o.source) = Destination(o)
         /\ IngestionType(o.source) = AskedType(o)
         /\ SequenceBy(o.source) = IF o.sequence # NoColumn THEN o.sequence
                                   ELSE answers[o.source].cursor
         /\ o.keys.kind # "null" =>
              PrimaryKeys(o.source) = IF o.keys.cols # <<>> THEN o.keys.cols
                                      ELSE answers[o.source].keys
<1>1. GetFullDestinationTableName(o.source) = Destination(o)
  BY DEF GetFullDestinationTableName, Destination
<1>2. IngestionType(o.source) = AskedType(o)
  BY DEF IngestionType, AskedType
<1>3. SequenceBy(o.source) = IF o.sequence # NoColumn THEN o.sequence
                             ELSE answers[o.source].cursor
  BY DEF SequenceBy, GetSequenceBy
<1>4. o.keys \in KeyEntry
  BY DEF Object
<1>5. o.keys.kind # "null" => GetPrimaryKeys(o.source) = o.keys.cols
  BY <1>4 DEF GetPrimaryKeys, KeyEntry
<1>6. o.keys.kind # "null" =>
        PrimaryKeys(o.source) = IF o.keys.cols # <<>> THEN o.keys.cols
                                ELSE answers[o.source].keys
  BY <1>5 DEF PrimaryKeys
<1> QED
  BY <1>1, <1>2, <1>3, <1>6

\* The branches of ingest declare the flows that are asked for.
LEMMA FlowsAgree ==
  ASSUME NEW o \in Object, IngestionType(o.source) = AskedType(o)
  PROVE  FlowTypes(o.source) = AskedFlows(o)
<1>1. CASE AskedType(o) \notin KnownTypes
  BY <1>1 DEF FlowTypes, AskedFlows, KnownTypes
<1>2. CASE AskedType(o) = "cdc_with_deletes"
  BY <1>2 DEF FlowTypes, FlowType, AskedFlows, KnownTypes
<1>3. CASE AskedType(o) = "cdc"
  BY <1>3 DEF FlowTypes, FlowType, AskedFlows, KnownTypes
<1>4. CASE AskedType(o) \in {"snapshot", "append"}
  BY <1>4 DEF FlowTypes, FlowType, AskedFlows, KnownTypes
<1> QED
  BY <1>1, <1>2, <1>3, <1>4 DEF KnownTypes

\* A flow that was declared for an object serves it.
LEMMA DeclaredFlowServes ==
  ASSUME PipelineInv, NEW i \in Ingested, NEW a \in FlowTypes(SourceOf(i))
  PROVE  Serves(FlowOf(SourceOf(i), a), spec[i])
<1> DEFINE o == spec[i]
           t == SourceOf(i)
           f == FlowOf(t, a)
<1>1. o \in Object /\ o.source = t /\ ObjectOf(t) = o
  <2>1. i \in 1 .. Len(spec) /\ spec \in Seq(Object)
    BY DEF PipelineInv, StageInv, Ingested
  <2> QED
    BY <2>1, LookUpFindsObject DEF SourceOf
<1>2. /\ GetFullDestinationTableName(t) = Destination(o)
      /\ SequenceBy(t) = IF o.sequence # NoColumn THEN o.sequence
                         ELSE answers[o.source].cursor
      /\ o.keys.kind # "null" =>
           PrimaryKeys(t) = IF o.keys.cols # <<>> THEN o.keys.cols
                            ELSE answers[o.source].keys
  BY <1>1, LookUpsAgree
<1>3. /\ f.kind = a /\ f.target = Destination(o) /\ f.view = ViewOf(t, a).name
      /\ a # "append" => f.keys = PrimaryKeys(t)
      /\ a \in {"upsert", "delete"} => f.sequence = SequenceBy(t)
  BY <1>2 DEF FlowOf
<1>4. ViewOf(t, a) \in views
  BY DEF PipelineInv, DeclaredInv, NewViews
<1>5. /\ ViewOf(t, a).table = o.source /\ ViewOf(t, a).config = o.config
      /\ ViewOf(t, a).deletes <=> a = "delete"
  BY <1>1 DEF ViewOf, GetTableConfiguration
<1> HIDE DEF f
<1> QED
  BY <1>1, <1>2, <1>3, <1>4, <1>5 DEF Serves, f

\* A declared flow serves no other object: one that shares its view has the
\* same source, and then one of the two would have declared nothing.
LEMMA FlowServesOne ==
  ASSUME PipelineInv, NEW i \in Ingested, NEW j \in Ingested,
         NEW a \in FlowTypes(SourceOf(i)), Serves(FlowOf(SourceOf(i), a), spec[j])
  PROVE  j = i
<1> DEFINE f == FlowOf(SourceOf(i), a)
<1>1. PICK v \in views : v.name = f.view /\ v.table = spec[j].source
  BY DEF Serves
<1>2. PICK k \in Ingested : v \in NewViews(SourceOf(k))
  BY DEF PipelineInv, DeclaredInv
<1>3. f.view = ViewOf(SourceOf(i), a).name
  BY DEF FlowOf
<1>4. f.view \in DatasetsOf(SourceOf(i)) /\ f.view \in DatasetsOf(SourceOf(k))
  BY <1>1, <1>2, <1>3 DEF DatasetsOf, Names, NewViews
<1>5. i \in Nat \ {0} /\ j \in Nat \ {0} /\ k \in Nat \ {0}
  BY DEF Ingested
<1>6. k = i
  BY <1>4, <1>5 DEF PipelineInv, ApartInv
<1>7. SourceOf(j) = SourceOf(i)
  BY <1>1, <1>2, <1>6 DEF NewViews, ViewOf, SourceOf
<1>8. IsFirst(i, SourceOf(i)) /\ IsFirst(j, SourceOf(i))
  BY <1>7, LookUpFindsObject
<1> QED
  BY <1>5, <1>8 DEF IsFirst

LEMMA PipelineDone == PipelineInv /\ stage = "done" => SpecIsFulfilled
<1> SUFFICES ASSUME PipelineInv, stage = "done" PROVE SpecIsFulfilled
  OBVIOUS
<1>1. /\ DOMAIN spec = Ingested
      /\ \A i \in Ingested : spec[i] \in Object /\ SourceOf(i) = spec[i].source
  BY DEF PipelineInv, StageInv, Ingested, SourceOf
<1>2. \A f \in flows : \E i \in Ingested : \E a \in FlowTypes(SourceOf(i)) :
        f = FlowOf(SourceOf(i), a)
  BY DEF PipelineInv, DeclaredInv, NewFlows
<1>3. \A i \in Ingested : \A a \in FlowTypes(SourceOf(i)) :
        /\ FlowOf(SourceOf(i), a) \in flows
        /\ FlowOf(SourceOf(i), a).kind = a
  BY DEF PipelineInv, DeclaredInv, NewFlows, FlowOf
<1>4. ASSUME NEW i \in Ingested, answers[spec[i].source].type # "other"
      PROVE  {f.kind : f \in {g \in flows : Serves(g, spec[i])}} = AskedFlows(spec[i])
  <2>1. FlowTypes(SourceOf(i)) # {}
    <3>1. IngestionType(SourceOf(i)) \in KnownTypes
      <4>1. SourceOf(i) \in Table
        BY <1>1 DEF Object
      <4>2. answers[SourceOf(i)].type \in KnownTypes \cup {"absent", "other"}
        BY <4>1 DEF PipelineInv, StageInv, Answer
      <4> QED
        BY <1>1, <1>4, <4>2 DEF IngestionType, KnownTypes
    <3> QED
      BY <3>1 DEF FlowTypes
  <2>2. FlowTypes(SourceOf(i)) = AskedFlows(spec[i])
    BY <1>1, <2>1, LookUpFindsObject, LookUpsAgree, FlowsAgree
  <2>3. \A a \in AskedFlows(spec[i]) : \E f \in flows : Serves(f, spec[i]) /\ f.kind = a
    BY <1>3, <2>2, DeclaredFlowServes
  <2>4. ASSUME NEW f \in flows, Serves(f, spec[i])
        PROVE  f.kind \in AskedFlows(spec[i])
    <3>1. PICK k \in Ingested : \E a \in FlowTypes(SourceOf(k)) : f = FlowOf(SourceOf(k), a)
      BY <1>2
    <3>2. PICK a \in FlowTypes(SourceOf(k)) : f = FlowOf(SourceOf(k), a)
      BY <3>1
    <3>3. k = i
      BY <2>4, <3>2, FlowServesOne
    <3> QED
      BY <1>3, <2>2, <3>2, <3>3
  <2> QED
    BY <2>3, <2>4
<1>5. ASSUME NEW f \in flows
      PROVE  \E i \in DOMAIN spec : /\ Serves(f, spec[i])
                                    /\ \A j \in DOMAIN spec : Serves(f, spec[j]) => j = i
  <2>1. PICK i \in Ingested : \E a \in FlowTypes(SourceOf(i)) : f = FlowOf(SourceOf(i), a)
    BY <1>2
  <2>2. PICK a \in FlowTypes(SourceOf(i)) : f = FlowOf(SourceOf(i), a)
    BY <2>1
  <2>3. Serves(f, spec[i])
    BY <2>2, DeclaredFlowServes
  <2>4. \A j \in Ingested : Serves(f, spec[j]) => j = i
    BY <2>2, FlowServesOne
  <2> QED
    BY <1>1, <2>3, <2>4
<1> QED
  BY <1>1, <1>4, <1>5 DEF SpecIsFulfilled

\* For every specification and whatever the connector answers: a pipeline
\* whose definition returns gives every object the flows it asks for, with its
\* own configuration, keys and sequence, and no flow serves two objects.
THEOREM PipelineFulfilsSpec == Spec => []SpecIsFulfilled
<1>1. PipelineInv => SpecIsFulfilled
  BY PipelineDone DEF SpecIsFulfilled
<1> QED
  BY <1>1, PipelineInit, PipelineStep, PTL DEF Spec

-----------------------------------------------------------------------------
(* Names *)

\* A data set name is a sequence of words, and so is the view name made from it.
LEMMA SanitizedIsAName ==
  ASSUME NEW d \in DatasetName
  PROVE  Sanitized(d) \in Seq(Word)
<1>1. /\ d.catalog \in Seq(Word) /\ d.schema \in Seq(Word) /\ d.table \in Seq(Word)
      /\ <<Blank>> \in Seq(Word) /\ <<Blank, Blank>> \in Seq(Word)
  BY PipelineAssumption DEF DatasetName, Name
<1>2. <<Blank>> \o d.catalog \in Seq(Word)
  BY <1>1
<1>3. <<Blank>> \o d.catalog \o <<Blank, Blank>> \in Seq(Word)
  BY <1>1, <1>2
<1>4. <<Blank>> \o d.catalog \o <<Blank, Blank>> \o d.schema \in Seq(Word)
  BY <1>1, <1>3
<1>5. <<Blank>> \o d.catalog \o <<Blank, Blank>> \o d.schema \o <<Blank, Blank>> \in Seq(Word)
  BY <1>1, <1>4
<1>6. <<Blank>> \o d.catalog \o <<Blank, Blank>> \o d.schema \o <<Blank, Blank>> \o d.table \in Seq(Word)
  BY <1>1, <1>5
<1>7. <<Blank>> \o d.catalog \o <<Blank, Blank>> \o d.schema \o <<Blank, Blank>> \o d.table \o <<Blank>>
        \in Seq(Word)
  BY <1>1, <1>6
<1> QED
  BY <1>1, <1>7 DEF Sanitized

\* A view name tells the flow, and is longer than what it is made from.
LEMMA ViewNames ==
  ASSUME NEW t \in Table, NEW d \in DatasetName, NEW a \in Word
  PROVE  /\ BuildViewName(t, a, d) \in DatasetName
         /\ BuildViewName(t, a, d) # d
         /\ \A b \in Word : BuildViewName(t, a, d) = BuildViewName(t, b, d) => a = b
<1> DEFINE s == Sanitized(d)
           name(b) == <<"source">> \o t \o <<b>> \o s
<1>1. /\ t \in Seq(Word) /\ s \in Seq(Word) /\ "source" \in Word
      /\ <<"source">> \in Seq(Word)
  BY SanitizedIsAName, PipelineAssumption DEF Name
<1> HIDE DEF s
<1>2. ASSUME NEW b \in Word
      PROVE  /\ name(b) \in Seq(Word) /\ Len(name(b)) = Len(t) + Len(s) + 2
             /\ name(b)[Len(t) + 2] = b
  <2> DEFINE head == <<"source">> \o t
             front == head \o <<b>>
  <2>1. head \in Seq(Word) /\ Len(head) = Len(t) + 1
    BY <1>1
  <2> HIDE DEF head
  <2>2. <<b>> \in Seq(Word) /\ Len(<<b>>) = 1 /\ <<b>>[1] = b
    BY <1>2
  <2>3. front \in Seq(Word) /\ Len(front) = Len(t) + 2 /\ front[Len(t) + 2] = b
    BY <1>1, <2>1, <2>2
  <2> HIDE DEF front
  <2>4. front \o s \in Seq(Word) /\ Len(front \o s) = Len(t) + Len(s) + 2
    BY <1>1, <2>3
  <2>5. (front \o s)[Len(t) + 2] = b
    BY <1>1, <2>3
  <2> QED
    BY <2>4, <2>5 DEF front, head
<1>3. \A b \in Word : BuildViewName(t, b, d) = Plain(name(b))
  BY DEF BuildViewName, s
<1> HIDE DEF name
<1>4. BuildViewName(t, a, d) \in DatasetName
  <2>1. NoName \in Name /\ name(a) \in Name
    BY <1>2 DEF NoName, Name
  <2> QED
    BY <1>3, <2>1 DEF Plain, DatasetName
<1>5. BuildViewName(t, a, d) # d
  <2> SUFFICES ASSUME Plain(name(a)) = d PROVE FALSE
    BY <1>3
  <2>1. d.catalog = NoName /\ d.table = name(a)
    BY DEF Plain
  <2>2. s = name(a)
    BY <2>1 DEF s, Sanitized
  <2>3. Len(t) \in Nat /\ Len(s) \in Nat
    BY <1>1
  <2> QED
    BY <1>2, <2>2, <2>3
<1>6. \A b \in Word : BuildViewName(t, a, d) = BuildViewName(t, b, d) => a = b
  BY <1>2, <1>3 DEF Plain
<1> QED
  BY <1>4, <1>5, <1>6

LEMMA DestinationIsAName ==
  ASSUME NEW o \in Object
  PROVE  Destination(o) \in DatasetName
BY PipelineAssumption DEF Object, Destination, DatasetName, Plain, Name, NoName

\* The flow types of a table are words; deletes come with the changes.
LEMMA FlowTypesAre ==
  ASSUME NEW t
  PROVE  /\ FlowTypes(t) \subseteq {"upsert", "delete", "snapshot", "append"}
         /\ FlowTypes(t) \subseteq Word
         /\ "delete" \in FlowTypes(t) => "upsert" \in FlowTypes(t)
<1>1. /\ FlowTypes(t) \subseteq {"upsert", "delete", "snapshot", "append"}
      /\ "delete" \in FlowTypes(t) => "upsert" \in FlowTypes(t)
  BY DEF FlowTypes, FlowType
<1>2. FlowTypes(t) \subseteq Word
  BY <1>1, PipelineAssumption
<1> QED
  BY <1>1, <1>2

-----------------------------------------------------------------------------
(* Types *)

\* What is looked up of a table is an object of the specification, where the
\* table has a first one.
LEMMA LookUpIsAnObject ==
  ASSUME PipelineInv, NEW j \in 1 .. Len(spec), NEW t, IsFirst(j, t)
  PROVE  ObjectOf(t) = spec[j] /\ spec[j] \in Object /\ spec[j].source = t
<1>1. spec \in Seq(Object) /\ DOMAIN spec = 1 .. Len(spec) /\ Len(spec) \in Nat
  BY DEF PipelineInv, StageInv
<1>2. \A k \in DOMAIN spec : IsFirst(k, t) => k = j
  BY <1>1 DEF IsFirst
<1>3. ObjectOf(t) = spec[j]
  BY <1>1, <1>2 DEF ObjectOf, IsFirst
<1> QED
  BY <1>1, <1>3 DEF IsFirst

\* What one table declares is well typed.
LEMMA DeclaredTypes ==
  ASSUME NEW o \in Object, ObjectOf(o.source) = o, answers \in [Table -> Answer]
  PROVE  /\ NewViews(o.source) \subseteq View
         /\ NewTargets(o.source) \subseteq DatasetName
         /\ NewFlows(o.source) \subseteq Flow
<1> DEFINE t == o.source
           d == Destination(o)
<1>1. /\ t \in Table /\ o.config \in SUBSET Option /\ o.keys \in KeyEntry
      /\ o.sequence \in ColumnEntry /\ answers[t] \in Answer
  BY DEF Object
<1>2. d \in DatasetName /\ GetFullDestinationTableName(t) = d
  BY LookUpsAgree, DestinationIsAName
<1>3. PrimaryKeys(t) \in Seq(Column)
  <2>1. o.keys.cols \in Seq(Column) /\ answers[t].keys \in Seq(Column)
    BY <1>1 DEF KeyEntry, Answer
  <2>2. <<>> \in Seq(Column) /\ <<NullText>> \in Seq(Column)
    BY PipelineAssumption
  <2> QED
    BY <2>1, <2>2 DEF PrimaryKeys, GetPrimaryKeys
<1>4. SequenceBy(t) \in Column \cup {NoColumn}
  BY <1>1, PipelineAssumption DEF SequenceBy, GetSequenceBy, ColumnEntry, Answer
<1>5. ASSUME NEW a \in FlowTypes(t)
      PROVE  ViewOf(t, a) \in View /\ FlowOf(t, a) \in Flow
  <2>1. a \in Word /\ a \in {"upsert", "delete", "snapshot", "append"}
    BY <1>5, FlowTypesAre
  <2>2. BuildViewName(t, a, d) \in DatasetName
    BY <1>1, <1>2, <2>1, ViewNames
  <2>3. GetTableConfiguration(t) \in SUBSET Option
    BY <1>1 DEF GetTableConfiguration
  <2>4. ViewOf(t, a).name \in DatasetName /\ ViewOf(t, a) \in View
    BY <1>1, <1>2, <2>2, <2>3 DEF ViewOf, View
  <2>5. <<>> \in Seq(Column)
    OBVIOUS
  <2> QED
    BY <1>2, <1>3, <1>4, <2>1, <2>4, <2>5 DEF FlowOf, Flow
<1> QED
  BY <1>2, <1>5 DEF NewViews, NewTargets, NewFlows

LEMMA PipelineTypes == PipelineInv => TypeOK
<1> SUFFICES ASSUME PipelineInv PROVE TypeOK
  OBVIOUS
<1>1. /\ spec \in Seq(Object) /\ answers \in [Table -> Answer]
      /\ position \in 1 .. Len(spec) + 1 /\ Len(spec) \in Nat
      /\ stage \in {"parse", "describe", "ingest", "done", "failed"}
  BY DEF PipelineInv, StageInv
<1>2. ASSUME NEW i \in Ingested
      PROVE  /\ NewViews(SourceOf(i)) \subseteq View
             /\ NewTargets(SourceOf(i)) \subseteq DatasetName
             /\ NewFlows(SourceOf(i)) \subseteq Flow
  <2>1. PICK j \in 1 .. i : IsFirst(j, SourceOf(i))
    BY DEF PipelineInv, FirstInv
  <2>2. j \in 1 .. Len(spec)
    BY <1>1 DEF Ingested
  <2> QED
    BY <1>1, <2>1, <2>2, LookUpIsAnObject, DeclaredTypes
<1>3. views \subseteq View /\ targets \subseteq DatasetName /\ flows \subseteq Flow
  BY <1>2 DEF PipelineInv, DeclaredInv
<1>4. \A f \in flows : ~ Incomplete(f)
  BY DEF PipelineInv, DeclaredInv, ApartInv, Sound
<1> QED
  BY <1>1, <1>3, <1>4 DEF TypeOK, Incomplete

-----------------------------------------------------------------------------
(* Why ingest raises *)

Caused ==
  \/ spec = <<>>
  \/ \E i \in DOMAIN spec : Flawed(spec[i])
  \/ \E i, j \in DOMAIN spec : i # j /\ Colliding(spec[i], spec[j])

\* The data sets of an object that is found are those Colliding speaks of.
LEMMA DatasetsAre ==
  ASSUME NEW o \in Object, ObjectOf(o.source) = o, NEW n \in DatasetsOf(o.source)
  PROVE  \/ n = Destination(o)
         \/ \E a \in AskedFlows(o) : n = BuildViewName(o.source, a, Destination(o))
<1>1. /\ GetFullDestinationTableName(o.source) = Destination(o)
      /\ FlowTypes(o.source) = AskedFlows(o)
  BY LookUpsAgree, FlowsAgree
<1> QED
  BY <1>1 DEF DatasetsOf, Names, NewViews, NewTargets, ViewOf

\* Two objects that declare the same data set collide, one way or the other.
LEMMA SharedCollides ==
  ASSUME NEW o \in Object, ObjectOf(o.source) = o,
         NEW p \in Object, ObjectOf(p.source) = p,
         NEW n \in DatasetsOf(o.source) \cap DatasetsOf(p.source)
  PROVE  Colliding(o, p) \/ Colliding(p, o)
<1>1. CASE n = Destination(o)
  BY <1>1, DatasetsAre DEF Colliding
<1>2. ASSUME NEW a \in AskedFlows(o), n = BuildViewName(o.source, a, Destination(o))
      PROVE  Colliding(o, p)
  BY <1>2, DatasetsAre DEF Colliding
<1> QED
  BY <1>1, <1>2, DatasetsAre

\* A flow that lacks a key or a sequence is of a flawed object.
LEMMA IncompleteIsFlawed ==
  ASSUME NEW o \in Object, ObjectOf(o.source) = o,
         NEW f \in NewFlows(o.source), Incomplete(f)
  PROVE  Flawed(o)
<1> DEFINE t == o.source
<1>1. PICK a \in FlowTypes(t) : f = FlowOf(t, a)
  BY DEF NewFlows
<1>2. /\ FlowTypes(t) = AskedFlows(o)
      /\ SequenceBy(t) = IF o.sequence # NoColumn THEN o.sequence ELSE answers[t].cursor
      /\ o.keys.kind # "null" =>
           PrimaryKeys(t) = IF o.keys.cols # <<>> THEN o.keys.cols ELSE answers[t].keys
  BY LookUpsAgree, FlowsAgree
<1>3. /\ a \in {"upsert", "delete", "snapshot", "append"}
      /\ a = "delete" => "upsert" \in AskedFlows(o)
  BY <1>2, FlowTypesAre
<1>4. f.kind = a
  BY <1>1 DEF FlowOf
<1>5. CASE NeedsKeys(f) /\ f.keys = <<>>
  <2>1. a # "append" /\ PrimaryKeys(t) = <<>>
    BY <1>1, <1>4, <1>5 DEF NeedsKeys, FlowOf
  <2>2. o.keys.kind # "null"
    <3> SUFFICES ASSUME o.keys.kind = "null" PROVE FALSE
      OBVIOUS
    <3>1. PrimaryKeys(t) = <<NullText>> /\ <<NullText>> # <<>>
      BY DEF PrimaryKeys, GetPrimaryKeys
    <3> QED
      BY <2>1, <3>1
  <2>3. o.keys.cols = <<>> /\ answers[t].keys = <<>>
    BY <1>2, <2>1, <2>2
  <2>4. AskedFlows(o) \cap {"upsert", "snapshot"} # {}
    BY <1>2, <1>3, <2>1
  <2> QED
    BY <2>3, <2>4 DEF Flawed
<1>6. CASE NeedsSequence(f) /\ f.sequence = NoColumn
  <2>1. a \in {"upsert", "delete"} /\ SequenceBy(t) = NoColumn
    BY <1>1, <1>4, <1>6 DEF NeedsSequence, FlowOf
  <2>2. o.sequence = NoColumn /\ answers[t].cursor = NoColumn
    BY <1>2, <2>1
  <2>3. "upsert" \in AskedFlows(o)
    BY <1>2, <1>3, <2>1
  <2> QED
    BY <2>2, <2>3 DEF Flawed
<1> QED
  BY <1>5, <1>6 DEF Incomplete

\* A table that declares a data set a second time collides with one before.
LEMMA RedefinedCollides ==
  ASSUME PipelineInv, NEW o \in Object, ObjectOf(o.source) = o, Redefines(o.source)
  PROVE  \E i \in Ingested : Colliding(o, spec[i]) \/ Colliding(spec[i], o)
<1> DEFINE t == o.source
           d == Destination(o)
<1>1. t \in Table /\ d \in DatasetName /\ GetFullDestinationTableName(t) = d
  BY LookUpsAgree, DestinationIsAName DEF Object
<1>2. Names(NewViews(t)) \cap NewTargets(t) = {}
  <2>1. \A a \in FlowTypes(t) : ViewOf(t, a).name # d
    BY <1>1, ViewNames, FlowTypesAre DEF ViewOf
  <2> QED
    BY <1>1, <2>1 DEF Names, NewViews, NewTargets
<1>3. \A a, b \in FlowTypes(t) : ViewOf(t, a).name = ViewOf(t, b).name => a = b
  BY <1>1, ViewNames, FlowTypesAre DEF ViewOf
<1>4. PICK n \in DatasetsOf(t) : n \in Names(views) \cup targets
  BY <1>2, <1>3 DEF Redefines, DatasetsOf
<1>5. PICK i \in Ingested : n \in DatasetsOf(SourceOf(i))
  BY <1>4 DEF PipelineInv, DeclaredInv, Names, DatasetsOf
<1>6. FlowTypes(SourceOf(i)) # {}
  BY <1>5 DEF DatasetsOf, Names, NewViews, NewTargets
<1>7. spec[i] \in Object /\ spec[i].source = SourceOf(i) /\ ObjectOf(SourceOf(i)) = spec[i]
  <2>1. i \in 1 .. Len(spec) /\ spec \in Seq(Object)
    BY DEF PipelineInv, StageInv, Ingested
  <2> QED
    BY <1>6, <2>1, LookUpFindsObject DEF SourceOf
<1> QED
  BY <1>4, <1>5, <1>7, SharedCollides

LEMMA RaisesForCause ==
  ASSUME PipelineInv, position <= Len(spec), Raises(Current)
  PROVE  Caused
<1> DEFINE o == spec[position]
<1>1. /\ spec \in Seq(Object) /\ Len(spec) \in Nat /\ DOMAIN spec = 1 .. Len(spec)
      /\ position \in 1 .. Len(spec) /\ Ingested \subseteq DOMAIN spec
      /\ position \notin Ingested
  BY DEF PipelineInv, StageInv, Ingested
<1>2. o \in Object /\ o.source = Current
  BY <1>1 DEF Current
<1>3. CASE \E k \in Ingested : SourceOf(k) = Current
  <2>1. PICK k \in Ingested : SourceOf(k) = Current
    BY <1>3
  <2>2. k \in DOMAIN spec /\ k # position /\ Colliding(spec[k], o)
    BY <1>1, <1>2, <2>1 DEF SourceOf, Colliding
  <2> QED
    BY <1>1, <2>2 DEF Caused
<1>4. CASE \A k \in Ingested : SourceOf(k) # Current
  <2>1. IsFirst(position, Current)
    BY <1>1, <1>2, <1>4 DEF IsFirst, SourceOf, Ingested
  <2>2. ObjectOf(o.source) = o
    BY <1>1, <1>2, <2>1, LookUpIsAnObject
  <2>3. CASE ~ ScdTypeIsValid(Current) \/ ~ PrimaryKeysParse(Current)
    BY <1>1, <1>2, <2>2, <2>3 DEF ScdTypeIsValid, PrimaryKeysParse, Caused, Flawed, Object,
                                  ScdEntry
  <2>4. CASE Redefines(Current)
    <3>1. PICK i \in Ingested : Colliding(o, spec[i]) \/ Colliding(spec[i], o)
      BY <1>2, <2>2, <2>4, RedefinedCollides
    <3> QED
      BY <1>1, <3>1 DEF Caused
  <2>5. CASE \E f \in NewFlows(Current) : Incomplete(f)
    <3>1. Flawed(o)
      BY <1>2, <2>2, <2>5, IncompleteIsFlawed
    <3> QED
      BY <1>1, <3>1 DEF Caused
  <2> QED
    BY <2>3, <2>4, <2>5 DEF Raises
<1> QED
  BY <1>3, <1>4

LEMMA FailureStep == PipelineInv /\ FailsForACause /\ [Next]_vars => FailsForACause'
<1> SUFFICES ASSUME PipelineInv, FailsForACause, [Next]_vars, stage' = "failed"
             PROVE  Caused'
  BY DEF FailsForACause, Caused
<1>1. spec' = spec /\ answers' = answers
  BY DEF Next, ParseSpec, GetTableMetadata, IngestTable, TableRaises, Finish, Over, vars
<1>2. Caused' = Caused
  BY <1>1 DEF Caused, Flawed, Colliding, AskedFlows, AskedType
<1>3. CASE stage = "failed"
  BY <1>2, <1>3 DEF FailsForACause, Caused
<1>4. CASE ParseSpec
  BY <1>2, <1>4 DEF ParseSpec, Caused
<1>5. CASE GetTableMetadata
  BY <1>2, <1>5 DEF GetTableMetadata, Caused, Flawed
<1>6. CASE TableRaises
  BY <1>2, <1>6, RaisesForCause DEF TableRaises
<1>7. CASE IngestTable \/ Finish \/ UNCHANGED vars
  BY <1>3, <1>7 DEF IngestTable, Finish, vars
<1> QED
  BY <1>4, <1>5, <1>6, <1>7 DEF Next, Over

\* Every reachable state is well typed: what is declared of a table are data
\* set names, and flows with the keys and the sequence they need.
THEOREM PipelineTypeCorrect == Spec => []TypeOK
BY PipelineTypes, PipelineInit, PipelineStep, PTL DEF Spec

\* ingest raises only over an empty list, over an object flawed by itself, or
\* over two that want a data set of the same name: no specification of
\* flawless, apart objects is refused.
THEOREM RaisesOnlyOverItsObjects == Spec => []FailsForACause
<1>1. Init => FailsForACause
  BY DEF Init, FailsForACause
<1> QED
  BY <1>1, FailureStep, PipelineInit, PipelineStep, PTL DEF Spec

===============================================================================
