----------------------------- MODULE AgentProofs -----------------------------
(***************************************************************************)
(* What the agent's requests answer, for any connector, any operations the *)
(* source offers and any schema a client brings.                           *)
(***************************************************************************)
EXTENDS SourceSession, FiniteSetTheorems, TLAPS

-----------------------------------------------------------------------------
(* The catalog of operations *)

\* The columns an operation declares, a _meta of its own included or not.
HasColumns(fields) ==
  /\ fields \in Seq({fields[i] : i \in DOMAIN fields})
  /\ \A i \in DOMAIN fields : IsField(fields[i])
NoMeta(fields) == \A i \in DOMAIN fields : fields[i].name # "_meta"

IsOperation(op) ==
  \/ op \in BuiltInOperations
  \/ /\ op.owner = "source" /\ op.kind \in {"metadata", "data"}
     /\ HasColumns(op.fields)

LEMMA NoOfferOffers == SourceOperations(NoOffer) = {} /\ NoOffer.does = "answers"
BY DEF SourceOperations, NoOffer

LEMMA SourceOperationsAreOperations ==
  ASSUME NEW o \in Offer \cup {NoOffer}
  PROVE  /\ IsFiniteSet(SourceOperations(o))
         /\ \A op \in SourceOperations(o) : op.owner = "source" /\ IsOperation(op)
         /\ \A op1, op2 \in SourceOperations(o) : op1.key = op2.key => op1 = op2
<1>1. CASE o = NoOffer \/ o.does = "raises"
  <2>1. SourceOperations(o) = {}
    BY <1>1, NoOfferOffers DEF SourceOperations
  <2>2. QED
    BY <2>1, FS_EmptySet
<1>2. CASE o \in Offer /\ o.does # "raises"
  <2>1. SourceOperations(o) = o.operations
    BY <1>2 DEF SourceOperations
  <2>2. ASSUME NEW op \in o.operations PROVE op.owner = "source" /\ IsOperation(op)
    BY <1>2, AgentAssumption, Zenon DEF IsOperation, HasColumns
  <2>3. QED
    BY <1>2, <2>1, <2>2, AgentAssumption
<1>3. QED
  BY <1>1, <1>2

LEMMA BuiltInIs ==
  ASSUME NEW name, NEW kind, NEW fields, NEW required
  PROVE  LET op == BuiltIn(name, kind, fields, required)
         IN /\ op.key = name /\ op.name = name /\ op.kind = kind /\ op.fields = fields
            /\ op.required = required /\ op.owner = "framework"
            /\ op.typed <=> kind = "metadata"
BY Zenon DEF BuiltIn

LEMMA BuiltInFacts ==
  /\ \A op \in BuiltInOperations : op.key = op.name
  /\ ListObjectsOp.name = "list_objects" /\ GetObjectMetadataOp.name = "get_object_metadata"
  /\ ReadTableOp.name = "read_table" /\ ListOperationsOp.name = "list_operations"
  /\ ValidateConnectionOp.name = "validate_connection"
  /\ ListObjectsOp.kind = "metadata" /\ GetObjectMetadataOp.kind = "metadata"
  /\ ReadTableOp.kind = "data" /\ ListOperationsOp.kind = "metadata"
  /\ ValidateConnectionOp.kind = "metadata"
  /\ ValidateConnectionOp.required = {} /\ ValidateConnectionOp.fields = << >>
  /\ \A op \in BuiltInOperations :
       op.owner = "framework" /\ (op.typed <=> op.kind = "metadata")
<1>1. /\ ListObjectsOp.owner = "framework" /\ ListObjectsOp.name = "list_objects"
      /\ ListObjectsOp.kind = "metadata" /\ ListObjectsOp.typed
  BY BuiltInIs DEF ListObjectsOp
<1>2. /\ GetObjectMetadataOp.owner = "framework"
      /\ GetObjectMetadataOp.name = "get_object_metadata"
      /\ GetObjectMetadataOp.kind = "metadata" /\ GetObjectMetadataOp.typed
  BY BuiltInIs DEF GetObjectMetadataOp
<1>3. /\ ReadTableOp.owner = "framework" /\ ReadTableOp.name = "read_table"
      /\ ReadTableOp.kind = "data" /\ ~ReadTableOp.typed
  BY BuiltInIs DEF ReadTableOp
<1>4. /\ ListOperationsOp.owner = "framework" /\ ListOperationsOp.name = "list_operations"
      /\ ListOperationsOp.kind = "metadata" /\ ListOperationsOp.typed
  BY BuiltInIs DEF ListOperationsOp
<1>5. /\ ValidateConnectionOp.owner = "framework"
      /\ ValidateConnectionOp.name = "validate_connection"
      /\ ValidateConnectionOp.kind = "metadata" /\ ValidateConnectionOp.typed
      /\ ValidateConnectionOp.required = {} /\ ValidateConnectionOp.fields = << >>
  BY BuiltInIs DEF ValidateConnectionOp
<1>6. \A op \in BuiltInOperations :
        op.owner = "framework" /\ (op.typed <=> op.kind = "metadata")
  BY <1>1, <1>2, <1>3, <1>4, <1>5, Zenon DEF BuiltInOperations
<1>7. \A op \in BuiltInOperations : op.key = op.name
  BY BuiltInIs DEF BuiltInOperations, ListObjectsOp, ReadTableOp, GetObjectMetadataOp,
                   ValidateConnectionOp, ListOperationsOp
<1>8. QED
  BY <1>1, <1>2, <1>3, <1>4, <1>5, <1>6, <1>7

LEMMA BuiltInNames ==
  /\ IsFiniteSet(BuiltInOperations)
  /\ \A op1, op2 \in BuiltInOperations : op1.key = op2.key => op1 = op2
  /\ \A op \in BuiltInOperations : op # Unknown
<1>1. IsFiniteSet(BuiltInOperations)
  <2>1. BuiltInOperations =
          {ListObjectsOp} \cup {ReadTableOp} \cup {GetObjectMetadataOp}
            \cup {ValidateConnectionOp} \cup {ListOperationsOp}
    BY DEF BuiltInOperations
  <2>2. \A op : IsFiniteSet({op})
    BY FS_Singleton
  <2>3. QED
    BY <2>1, <2>2, FS_Union
<1>2. \A op1, op2 \in BuiltInOperations : op1.key = op2.key => op1 = op2
  BY BuiltInFacts DEF BuiltInOperations
<1>3. Unknown.owner = "none"
  BY DEF Unknown
<1>4. ASSUME NEW op \in BuiltInOperations PROVE op # Unknown
  BY <1>3, BuiltInFacts
<1>5. QED
  BY <1>1, <1>2, <1>4

LEMMA CatalogIsKeyed ==
  ASSUME NEW o \in Offer \cup {NoOffer}
  PROVE  /\ \A op1, op2 \in ResolveOperationCatalog(o) : op1.key = op2.key => op1 = op2
         /\ \A op \in ResolveOperationCatalog(o) : IsOperation(op)
         /\ Cardinality(ResolveOperationCatalog(o)) \in Nat
<1> DEFINE own == SourceOperations(o)
           others == {op \in BuiltInOperations : \A s \in own : s.key # op.key}
<1>1. ResolveOperationCatalog(o) = own \cup others
  BY DEF ResolveOperationCatalog
<1>2. IsFiniteSet(others)
  BY BuiltInNames, FS_Subset
<1>3. Cardinality(own \cup others) \in Nat
  BY <1>2, SourceOperationsAreOperations, FS_Union, FS_CardinalityType
<1>4. \A op \in others : IsOperation(op)
  BY DEF IsOperation
<1>5. \A op1, op2 \in own \cup others : op1.key = op2.key => op1 = op2
  BY SourceOperationsAreOperations, BuiltInNames
<1>6. QED
  BY <1>1, <1>3, <1>4, <1>5, SourceOperationsAreOperations

LEMMA ResolvesInTheCatalog ==
  ASSUME NEW o \in Offer \cup {NoOffer}, NEW key
  PROVE  LET op == ResolveOperation(o, key)
         IN /\ op # Unknown => op \in ResolveOperationCatalog(o) /\ op.key = key
            /\ \A other \in ResolveOperationCatalog(o) : other.key = key => op = other
<1> DEFINE known == {op \in ResolveOperationCatalog(o) : op.key = key}
<1>1. ResolveOperation(o, key) = IF known = {} THEN Unknown ELSE CHOOSE op \in known : TRUE
  BY DEF ResolveOperation, Under
<1>2. CASE known = {}
  BY <1>1, <1>2
<1>3. CASE known # {}
  <2>1. ResolveOperation(o, key) \in known
    BY <1>1, <1>3
  <2>2. QED
    BY <2>1, CatalogIsKeyed
<1>4. QED
  BY <1>2, <1>3

-----------------------------------------------------------------------------
(* The invariant of a request *)

ErrorRows == [cells : {<< >>}, status : {"error"}, code : Codes]
MetaRows == [cells : {<< >>}, status : {"ok", "error"}, code : Codes \cup {"none"}]
TextCells(op) == TextRow(op.fields).cells
AnswerRows ==
  [cells : SourceRows \cup {<< >>} \cup
             {TextCells(op) : op \in {ListObjectsOp, GetObjectMetadataOp, ListOperationsOp}},
   status : {"none", "ok", "error"}, code : Codes \cup {"none"}]
OutRows == [data : BOOLEAN, status : {"none", "ok", "error"}, code : Codes \cup {"none"}]
FrameworkRows(op) == MetaRows \cup {TextRow(op.fields)}

AgentType ==
  /\ ConnectorTypeOK
  /\ stage \in {"idle", "resolved", "typed", "pulling", "emitting", "done", "raised"}
  /\ request \in Requests /\ initError \in {"none", "ValueError", "other"}
  /\ operation = Unknown \/ IsOperation(operation)
  /\ initError # "none" => operation = Unknown \/ operation \in BuiltInOperations
  /\ brought \in BOOLEAN /\ produced \in Nat /\ ended \in {"no", "exhausted", "failed"}
  /\ pulled \in Seq(AnswerRows) /\ emitted \in Seq(OutRows)
  /\ contact \subseteq BOOLEAN

Listens ==
  stage \in {"resolved", "typed", "pulling", "emitting"} => reachable \in contact

\* The answer is one row, out or about to go out.
InHand(row) ==
  \/ pulled = <<row>> /\ emitted = << >>
  \/ pulled = << >> /\ emitted = <<Parsed(row, schema)>>

\* How the rows pulled, emitted and yielded add up at each stage.
WholeInv ==
  /\ stage \in {"idle", "resolved", "typed"} =>
       pulled = << >> /\ emitted = << >> /\ produced = 0 /\ ended = "no"
  /\ stage = "pulling" =>
       /\ ended = "no" /\ operation # Unknown
       /\ operation.kind = "data" => pulled = << >> /\ Len(emitted) = produced
       /\ operation.kind # "data" => emitted = << >> /\ Len(pulled) = produced
  /\ stage = "emitting" =>
       /\ operation.kind # "data" /\ ended # "no"
       /\ ended = "exhausted" => Len(emitted) + Len(pulled) = produced
       /\ ended = "failed" => \E r \in ErrorRows : InHand(r)
  /\ stage = "done" =>
       /\ ended = "exhausted" => Len(emitted) = produced
       /\ ended # "exhausted" =>
            /\ ended = "failed" /\ operation.kind # "data"
            /\ \E r \in ErrorRows : emitted = <<Parsed(r, schema)>>

\* The dispatcher's own schema takes an error row and the framework's rows.
SchemaInv ==
  /\ stage \in {"typed", "pulling", "emitting", "done"} /\ ~brought =>
       /\ operation # Unknown
       /\ operation.kind = "metadata" =>
            schema = EnsureMetaField(RelaxNullability(operation.fields))
  /\ stage = "emitting" /\ operation.owner = "framework" /\ ended = "exhausted" =>
       \A i \in DOMAIN pulled : pulled[i] \in FrameworkRows(operation)
  /\ RaisesForACause

Healthy(row) ==
  /\ initError # "none" \/ (asksSource /\ contact = {FALSE}) => row.code = "connection_failed"
  /\ asksSource /\ row.status = "ok" => TRUE \in contact

HealthInv ==
  operation = ValidateConnectionOp =>
    /\ stage = "pulling" => initError = "none"
    /\ stage = "emitting" => \E r \in MetaRows : Healthy(r) /\ InHand(r)
    /\ stage = "done" => \E r \in MetaRows : Healthy(r) /\ emitted = <<Parsed(r, schema)>>

AgentInv ==
  AgentType /\ Listens /\ WholeInv /\ SchemaInv /\ HealthInv

-----------------------------------------------------------------------------
(* The rows that parse *)

LEMMA AllParsed ==
  ASSUME NEW outcomes, \A i \in DOMAIN outcomes : outcomes[i] = "parsed"
  PROVE  FirstError(outcomes) = "parsed"
BY DEF FirstError

LEMMA RowParses ==
  ASSUME NEW pairs, NEW fields, pairs # << >>,
         \A i \in DOMAIN fields :
           IF Has(pairs, fields[i].name)
             THEN ParseColumn(At(pairs, fields[i].name), fields[i].type) = "parsed"
             ELSE fields[i].nullable
  PROVE  ParseRow(Dict(pairs), fields) = "parsed"
<1> DEFINE Of(f) == IF Has(pairs, f.name) THEN ParseColumn(At(pairs, f.name), f.type)
                      ELSE IF f.nullable THEN "parsed" ELSE "value_error"
           outcomes == [i \in DOMAIN fields |-> Of(fields[i])]
<1>1. /\ Dict(pairs).is = "dict" /\ Dict(pairs).pairs = pairs
      /\ Dict(pairs) # Dict(<< >>)
  BY DEF Dict
<1>2. StructOf(fields).is = "struct" /\ StructOf(fields).fields = fields
  BY DEF StructOf
<1>3. FirstError(outcomes) = "parsed"
  BY AllParsed
<1>4. ParseRow(Dict(pairs), fields) = FirstError(outcomes)
  BY <1>1, <1>2 DEF ParseRow, ParseLevel, ParseStruct
<1>5. QED
  BY <1>3, <1>4

LEMMA Triples ==
  ASSUME NEW a, NEW b, NEW c
  PROVE  /\ DOMAIN <<a, b, c>> = {1, 2, 3}
         /\ <<a, b, c>>[1] = a /\ <<a, b, c>>[2] = b /\ <<a, b, c>>[3] = c
OBVIOUS

LEMMA Pairs == ASSUME NEW a, NEW b PROVE <<a, b>>[1] = a /\ <<a, b>>[2] = b
OBVIOUS

LEMMA TextFields ==
  ASSUME NEW name, NEW nullable
  PROVE  /\ TextField(name, nullable).name = name
         /\ TextField(name, nullable).type = Primitive("string")
         /\ IsField(TextField(name, nullable))
BY Zenon DEF TextField, Field, IsField

LEMMA StringsParse ==
  ASSUME NEW v PROVE ParsePrimitive(v, Primitive("string")) = "parsed"
<1>1. Primitive("string").class = "string"
  BY DEF Primitive
<1>2. Converts(v, "string")
  BY DEF Converts
<1>3. QED
  BY <1>1, <1>2 DEF ParsePrimitive

LEMMA MetaFieldName == MetaField.name = "_meta"
BY Zenon DEF MetaField, Field

LEMMA MetaParses ==
  ASSUME NEW row
  PROVE  ParseColumn(MetaValue(row), MetaField.type) = "parsed"
<1> DEFINE told == IF row.code = "none" THEN Null ELSE Text
           fields == <<TextField("status", FALSE), TextField("code", TRUE),
                       TextField("message", TRUE)>>
           pairs == << <<"status", Text>>, <<"code", told>>, <<"message", told>> >>
           Of(f) == IF Has(pairs, f.name) THEN ParsePrimitive(At(pairs, f.name), f.type)
                      ELSE IF f.nullable THEN "parsed" ELSE "value_error"
           outcomes == [i \in DOMAIN fields |-> Of(fields[i])]
<1>1. /\ MetaValue(row).is = "dict" /\ MetaValue(row).pairs = pairs
      /\ MetaValue(row) # Dict(<< >>)
  BY DEF MetaValue, Dict
<1>2. MetaField.type.is = "struct" /\ MetaField.type.fields = fields
  BY DEF MetaField, Field, StructOf
<1>3. \A i \in DOMAIN fields :
         fields[i].type = Primitive("string") /\ fields[i].name \in {"status", "code", "message"}
  <2>1. /\ DOMAIN fields = {1, 2, 3} /\ fields[1] = TextField("status", FALSE)
        /\ fields[2] = TextField("code", TRUE) /\ fields[3] = TextField("message", TRUE)
    BY Triples
  <2> HIDE DEF fields
  <2>2. /\ TextField("status", FALSE).name = "status"
        /\ TextField("status", FALSE).type = Primitive("string")
        /\ TextField("code", TRUE).name = "code"
        /\ TextField("code", TRUE).type = Primitive("string")
        /\ TextField("message", TRUE).name = "message"
        /\ TextField("message", TRUE).type = Primitive("string")
    BY Zenon DEF TextField, Field
  <2>3. QED
    BY <2>1, <2>2
<1>4. ASSUME NEW key \in {"status", "code", "message"} PROVE Has(pairs, key)
  <2>1. /\ DOMAIN pairs = {1, 2, 3} /\ pairs[1][1] = "status" /\ pairs[2][1] = "code"
        /\ pairs[3][1] = "message"
    BY Triples, Pairs
  <2> HIDE DEF pairs
  <2>2. QED
    BY <2>1, Zenon DEF Has
<1>5. FirstError(outcomes) = "parsed"
  <2> HIDE DEF fields, pairs
  <2>1. QED
    BY <1>3, <1>4, StringsParse, AllParsed
<1>6. ParseColumn(MetaValue(row), MetaField.type) = FirstError(outcomes)
  BY <1>1, <1>2 DEF ParseColumn, ParseLevel, ParseStruct
<1>7. QED
  BY <1>5, <1>6

LEMMA NullableField ==
  ASSUME NEW name, NEW type
  PROVE  LET f == Field(name, type, TRUE) IN f.name = name /\ f.type = type /\ f.nullable
BY DEF Field

LEMMA SeqOfFunction ==
  ASSUME NEW n \in Nat, NEW s, s = [i \in 1 .. n |-> s[i]]
  PROVE  s \in Seq({s[i] : i \in 1 .. n}) /\ Len(s) = n /\ DOMAIN s = 1 .. n
<1>1. s \in [1 .. n -> {s[i] : i \in 1 .. n}]
  OBVIOUS
<1> DEFINE S == {s[i] : i \in 1 .. n}
<1> HIDE DEF S
<1>2. s \in Seq(S) /\ Len(s) = n /\ DOMAIN s = 1 .. n
  BY <1>1 DEF S
<1>3. QED
  BY <1>2 DEF S

LEMMA OneMore ==
  ASSUME NEW S, NEW s \in Seq(S), NEW x
  PROVE  /\ Len(s) \in Nat /\ DOMAIN s = 1 .. Len(s)
         /\ DOMAIN (s \o <<x>>) = 1 .. Len(s) + 1
         /\ (s \o <<x>>)[Len(s) + 1] = x
         /\ \A j \in 1 .. Len(s) : (s \o <<x>>)[j] = s[j]
OBVIOUS

LEMMA DispatcherSchema ==
  ASSUME NEW fields, HasColumns(fields),
         NEW i \in DOMAIN EnsureMetaField(RelaxNullability(fields))
  PROVE  LET column == EnsureMetaField(RelaxNullability(fields))[i]
         IN \/ column = MetaField
            \/ /\ i \in DOMAIN fields
               /\ column.name = fields[i].name /\ column.type = fields[i].type
               /\ column.name # "_meta" => column.nullable
<1> DEFINE relaxed == RelaxNullability(fields)
           n == Len(fields)
<1>1. fields \in Seq({fields[j] : j \in DOMAIN fields}) /\ n \in Nat /\ DOMAIN fields = 1 .. n
  BY DEF HasColumns
<1>2. ASSUME NEW j \in 1 .. n
      PROVE  /\ relaxed[j].name = fields[j].name /\ relaxed[j].type = fields[j].type
             /\ relaxed[j].name # "_meta" => relaxed[j].nullable
  <2>1. relaxed[j] = IF fields[j].name = "_meta" THEN fields[j]
                       ELSE [fields[j] EXCEPT !.nullable = TRUE]
    BY <1>1 DEF RelaxNullability
  <2>2. CASE fields[j].name = "_meta"
    BY <2>1, <2>2
  <2>3. CASE fields[j].name # "_meta"
    <3>1. fields[j] = Field(fields[j].name, fields[j].type, fields[j].nullable)
      BY <1>1 DEF HasColumns, IsField
    <3>2. relaxed[j] = Field(fields[j].name, fields[j].type, TRUE)
      BY <2>1, <2>3, <3>1, Zenon DEF Field
    <3>3. QED
      BY <3>2 DEF Field
  <2>4. QED
    BY <2>2, <2>3
<1>3. relaxed \in Seq({relaxed[j] : j \in DOMAIN relaxed}) /\ Len(relaxed) = n
      /\ DOMAIN relaxed = 1 .. n
  <2>1. relaxed = [j \in 1 .. n |-> relaxed[j]]
    BY <1>1 DEF RelaxNullability
  <2>2. QED
    BY <1>1, <2>1, SeqOfFunction
<1>4. EnsureMetaField(relaxed) = relaxed \/ EnsureMetaField(relaxed) = Append(relaxed, MetaField)
  BY DEF EnsureMetaField
<1> HIDE DEF relaxed, n
<1>5. /\ DOMAIN Append(relaxed, MetaField) = 1 .. n + 1
      /\ Append(relaxed, MetaField)[n + 1] = MetaField
      /\ \A j \in 1 .. n : Append(relaxed, MetaField)[j] = relaxed[j]
  BY <1>1, <1>3
<1>6. \/ i \in 1 .. n /\ EnsureMetaField(relaxed)[i] = relaxed[i]
      \/ EnsureMetaField(relaxed)[i] = MetaField
  <2>1. i \in DOMAIN EnsureMetaField(relaxed)
    BY DEF relaxed
  <2>2. QED
    BY <1>1, <1>3, <1>4, <1>5, <2>1
<1>7. QED
  BY <1>1, <1>2, <1>6 DEF relaxed

\* The schema the dispatcher makes for columns without a _meta keeps both of its
\* parts.
LEMMA DispatcherKeeps ==
  ASSUME NEW fields, HasColumns(fields), NoMeta(fields), NEW part \in {"status", "code"}
  PROVE  Keeps(EnsureMetaField(RelaxNullability(fields)), part)
<1> DEFINE relaxed == RelaxNullability(fields)
           columns == EnsureMetaField(relaxed)
           n == Len(fields)
<1>1. n \in Nat /\ DOMAIN fields = 1 .. n
  BY DEF HasColumns
<1>2. \A j \in 1 .. n : relaxed[j].name # "_meta"
  <2>1. TAKE j \in 1 .. n
  <2>2. relaxed[j] = [fields[j] EXCEPT !.nullable = TRUE] /\ fields[j].name # "_meta"
    BY <1>1 DEF RelaxNullability, NoMeta
  <2>3. fields[j] = Field(fields[j].name, fields[j].type, fields[j].nullable)
    BY <1>1 DEF HasColumns, IsField
  <2>4. relaxed[j] = Field(fields[j].name, fields[j].type, TRUE)
    BY <2>2, <2>3, Zenon DEF Field
  <2>5. QED
    BY <2>2, <2>4 DEF Field
<1>3. relaxed \in Seq({relaxed[j] : j \in DOMAIN relaxed}) /\ Len(relaxed) = n
      /\ DOMAIN relaxed = 1 .. n
  <2>1. relaxed = [j \in 1 .. n |-> relaxed[j]]
    BY <1>1 DEF RelaxNullability
  <2>2. QED
    BY <1>1, <2>1, SeqOfFunction
<1>4. columns = Append(relaxed, MetaField)
  BY <1>2, <1>3 DEF EnsureMetaField
<1> HIDE DEF relaxed, columns, n
<1>5. n + 1 \in DOMAIN columns /\ columns[n + 1] = MetaField
  BY <1>1, <1>3, <1>4
<1>6. MetaField.type.is = "struct" /\ KeepsPart(MetaField.type, part)
  <2> DEFINE parts == <<TextField("status", FALSE), TextField("code", TRUE),
                        TextField("message", TRUE)>>
  <2>1. MetaField.type.is = "struct" /\ MetaField.type.fields = parts
    BY DEF MetaField, Field, StructOf
  <2>2. DOMAIN parts = {1, 2, 3} /\ parts[1] = TextField("status", FALSE)
        /\ parts[2] = TextField("code", TRUE)
    BY Triples
  <2> HIDE DEF parts
  <2>3. Primitive("string") # Boolean
    BY DEF Primitive, Boolean
  <2>4. /\ parts[1].name = "status" /\ parts[1].type # Boolean
        /\ parts[2].name = "code" /\ parts[2].type # Boolean
    <3>1. /\ TextField("status", FALSE).name = "status"
          /\ TextField("status", FALSE).type = Primitive("string")
          /\ TextField("code", TRUE).name = "code"
          /\ TextField("code", TRUE).type = Primitive("string")
      BY TextFields, Zenon
    <3>2. QED
      BY <2>2, <2>3, <3>1
  <2>5. QED
    BY <2>1, <2>2, <2>4 DEF KeepsPart
<1>7. QED
  BY <1>5, <1>6, MetaFieldName DEF Keeps, columns, relaxed

\* A row whose cells are texts fits the schema the dispatcher makes, provided
\* that the columns it fills are strings.
LEMMA TextCellsFit ==
  ASSUME NEW fields, HasColumns(fields), NEW row, row.status # "none",
         NEW Cells, row.cells \in Seq(Cells),
         \A j \in DOMAIN row.cells : row.cells[j][1] # "_meta" /\ row.cells[j][2] = Text,
         \A i \in DOMAIN fields :
           /\ Has(row.cells, fields[i].name) => fields[i].type = Primitive("string")
           /\ fields[i].name = "_meta"
                => ParseColumn(MetaValue(row), fields[i].type) = "parsed"
  PROVE  ParseRow(AsValue(row), EnsureMetaField(RelaxNullability(fields))) = "parsed"
<1> DEFINE cells == row.cells
           meta == <<"_meta", MetaValue(row)>>
           pairs == cells \o <<meta>>
           columns == EnsureMetaField(RelaxNullability(fields))
           Chosen(key) == CHOOSE i \in DOMAIN pairs : pairs[i][1] = key
<1>1. /\ Len(cells) \in Nat /\ DOMAIN pairs = 1 .. Len(cells) + 1
      /\ DOMAIN cells = 1 .. Len(cells)
      /\ pairs[Len(cells) + 1] = meta
      /\ \A j \in 1 .. Len(cells) : pairs[j] = cells[j]
  BY OneMore
<1>2. meta[1] = "_meta" /\ meta[2] = MetaValue(row)
  BY Pairs
<1>3. \A j \in 1 .. Len(cells) : pairs[j][1] # "_meta" /\ pairs[j][2] = Text
  BY <1>1
<1>4. AsValue(row) = Dict(pairs)
  BY DEF AsValue
<1>5. pairs # << >>
  BY <1>1
<1> HIDE DEF pairs, meta
<1>6. ASSUME NEW i \in DOMAIN columns
      PROVE  IF Has(pairs, columns[i].name)
               THEN ParseColumn(At(pairs, columns[i].name), columns[i].type) = "parsed"
               ELSE columns[i].nullable
  <2> DEFINE key == columns[i].name
             j == Chosen(key)
  <2>1. Has(pairs, key) => j \in DOMAIN pairs /\ pairs[j][1] = key /\ At(pairs, key) = pairs[j][2]
    BY DEF Has, At
  <2> HIDE DEF j
  <2>2. CASE key = "_meta"
    <3>1. Has(pairs, key)
      BY <1>1, <1>2, <2>2 DEF Has
    <3>2. j = Len(cells) + 1
      <4>1. j \in 1 .. Len(cells) + 1 /\ Len(cells) \in Nat
        BY <1>1, <2>1, <3>1
      <4>2. j \notin 1 .. Len(cells)
        BY <1>3, <2>1, <2>2, <3>1
      <4>3. QED
        BY <4>1, <4>2
    <3>3. At(pairs, key) = MetaValue(row)
      BY <1>1, <1>2, <2>1, <3>1, <3>2
    <3>4. ParseColumn(MetaValue(row), columns[i].type) = "parsed"
      BY <2>2, DispatcherSchema, MetaParses
    <3>5. QED
      BY <3>1, <3>3, <3>4
  <2>3. CASE key # "_meta"
    <3>1. /\ i \in DOMAIN fields /\ key = fields[i].name
          /\ columns[i].type = fields[i].type /\ columns[i].nullable
      BY <2>3, DispatcherSchema, MetaFieldName
    <3>2. CASE Has(pairs, key)
      <4>1. j \in 1 .. Len(cells) /\ cells[j][1] = key /\ At(pairs, key) = Text
        BY <1>1, <1>2, <1>3, <2>1, <2>3, <3>2
      <4>2. fields[i].type = Primitive("string")
        BY <1>1, <3>1, <4>1 DEF Has
      <4>3. ParseColumn(Text, Primitive("string")) = "parsed"
        BY StringsParse DEF ParseColumn, ParseLevel, Text, Scalar, Primitive
      <4>4. QED
        BY <3>1, <3>2, <4>1, <4>2, <4>3
    <3>3. QED
      BY <3>1, <3>2
  <2>4. QED
    BY <2>2, <2>3
<1>7. QED
  BY <1>4, <1>5, <1>6, RowParses

LEMMA MetaRowFits ==
  ASSUME NEW fields, HasColumns(fields), NEW row \in MetaRows,
         \A i \in DOMAIN fields :
           fields[i].name = "_meta" => ParseColumn(MetaValue(row), fields[i].type) = "parsed"
  PROVE  ParseRow(AsValue(row), EnsureMetaField(RelaxNullability(fields))) = "parsed"
<1>1. row.cells = << >> /\ row.status # "none"
  BY DEF MetaRows
<1>2. row.cells \in Seq({}) /\ \A key : ~Has(row.cells, key)
  BY <1>1 DEF Has
<1>3. \A j \in DOMAIN row.cells : row.cells[j][1] # "_meta" /\ row.cells[j][2] = Text
  BY <1>1
<1>4. QED
  BY <1>1, <1>2, <1>3, TextCellsFit

\* All error rows have one value for _meta.
LEMMA ErrorRowFits ==
  ASSUME NEW fields, HasColumns(fields), TakesErrors(fields), NEW row \in ErrorRows
  PROVE  ParseRow(AsValue(row), EnsureMetaField(RelaxNullability(fields))) = "parsed"
<1>1. row.code # "none" /\ row \in MetaRows
  BY DEF ErrorRows, MetaRows, Codes
<1>2. ErrorRow("internal_error").code = "internal_error"
  BY DEF ErrorRow, ErrorCode, Meta
<1>3. MetaValue(row) = MetaValue(ErrorRow("internal_error"))
  BY <1>1, <1>2 DEF MetaValue
<1>4. QED
  BY <1>1, <1>3, MetaRowFits DEF TakesErrors

LEMMA TextRowFits ==
  ASSUME NEW fields, HasColumns(fields), NoMeta(fields),
         \A i \in DOMAIN fields : fields[i].type = Primitive("string")
  PROVE  ParseRow(AsValue(WithDefaultMeta(TextRow(fields))),
                  EnsureMetaField(RelaxNullability(fields))) = "parsed"
<1> DEFINE cells == [i \in DOMAIN fields |-> <<fields[i].name, Text>>]
           row == WithDefaultMeta(TextRow(fields))
<1>1. row.cells = cells /\ row.status # "none"
  BY DEF WithDefaultMeta, TextRow, RowOf
<1>2. DOMAIN fields = 1 .. Len(fields) /\ Len(fields) \in Nat
  BY DEF HasColumns
<1>3. cells \in Seq({cells[i] : i \in 1 .. Len(fields)})
  BY <1>2, SeqOfFunction
<1>4. \A j \in DOMAIN cells : cells[j][1] # "_meta" /\ cells[j][2] = Text
  BY DEF NoMeta
<1>5. \A i \in DOMAIN fields : fields[i].name # "_meta"
  BY DEF NoMeta
<1> DEFINE Cells == {cells[i] : i \in 1 .. Len(fields)}
<1>6. cells \in Seq(Cells)
  BY <1>3
<1> HIDE DEF cells, row, Cells
<1>7. ParseRow(AsValue(row), EnsureMetaField(RelaxNullability(fields))) = "parsed"
  BY <1>1, <1>4, <1>5, <1>6, TextCellsFit
<1>8. QED
  BY <1>7 DEF row

IsTextColumn(f) == IsField(f) /\ f.name # "_meta" /\ f.type = Primitive("string")

LEMMA TextFieldIsTextColumn ==
  ASSUME NEW name, name # "_meta"
  PROVE  IsTextColumn(TextField(name, TRUE)) /\ IsTextColumn(TextField(name, FALSE))
BY Zenon DEF IsTextColumn, TextField, Field, IsField

LEMMA TextColumns ==
  ASSUME NEW n \in Nat, NEW fields, fields = [i \in 1 .. n |-> fields[i]],
         \A i \in 1 .. n : IsTextColumn(fields[i])
  PROVE  /\ HasColumns(fields) /\ NoMeta(fields)
         /\ \A i \in DOMAIN fields : fields[i].type = Primitive("string")
<1>1. fields \in Seq({fields[i] : i \in DOMAIN fields}) /\ DOMAIN fields = 1 .. n
  BY SeqOfFunction
<1>2. QED
  BY <1>1 DEF HasColumns, NoMeta, IsTextColumn

LEMMA BuiltInColumns ==
  ASSUME NEW op \in BuiltInOperations
  PROVE  /\ HasColumns(op.fields) /\ NoMeta(op.fields)
         /\ \A i \in DOMAIN op.fields : op.fields[i].type = Primitive("string")
<1>1. CASE op \in {ReadTableOp, ValidateConnectionOp}
  <2>1. op.fields = << >>
    BY <1>1, BuiltInIs DEF ReadTableOp, ValidateConnectionOp
  <2>2. QED
    BY <2>1 DEF HasColumns, NoMeta
<1>2. CASE op = ListObjectsOp
  <2>1. op.fields = ListObjectsColumns
    BY <1>2, BuiltInIs DEF ListObjectsOp
  <2>2. ListObjectsColumns = [i \in 1 .. 3 |-> ListObjectsColumns[i]]
    BY DEF ListObjectsColumns
  <2>3. /\ IsTextColumn(TextField("name", TRUE)) /\ IsTextColumn(TextField("type", TRUE))
        /\ IsTextColumn(TextField("full_path", TRUE))
    BY TextFieldIsTextColumn
  <2>4. /\ ListObjectsColumns[1] = TextField("name", TRUE)
        /\ ListObjectsColumns[2] = TextField("type", TRUE)
        /\ ListObjectsColumns[3] = TextField("full_path", TRUE)
    BY DEF ListObjectsColumns
  <2>5. /\ IsTextColumn(ListObjectsColumns[1]) /\ IsTextColumn(ListObjectsColumns[2])
        /\ IsTextColumn(ListObjectsColumns[3])
    BY <2>3, <2>4, Zenon
  <2>6. \A i \in 1 .. 3 : IsTextColumn(ListObjectsColumns[i])
    BY <2>5
  <2>7. QED
    BY <2>1, <2>2, <2>6, TextColumns
<1>3. CASE op = GetObjectMetadataOp
  <2>1. op.fields = GetObjectMetadataColumns
    BY <1>3, BuiltInIs DEF GetObjectMetadataOp
  <2>2. GetObjectMetadataColumns = [i \in 1 .. 2 |-> GetObjectMetadataColumns[i]]
    BY DEF GetObjectMetadataColumns
  <2>3. IsTextColumn(TextField("key", TRUE)) /\ IsTextColumn(TextField("value", TRUE))
    BY TextFieldIsTextColumn
  <2>4. /\ GetObjectMetadataColumns[1] = TextField("key", TRUE)
        /\ GetObjectMetadataColumns[2] = TextField("value", TRUE)
    BY DEF GetObjectMetadataColumns
  <2>5. /\ IsTextColumn(GetObjectMetadataColumns[1]) /\ IsTextColumn(GetObjectMetadataColumns[2])
    BY <2>3, <2>4, Zenon
  <2>6. \A i \in 1 .. 2 : IsTextColumn(GetObjectMetadataColumns[i])
    BY <2>5
  <2>7. QED
    BY <2>1, <2>2, <2>6, TextColumns
<1>4. CASE op = ListOperationsOp
  <2>1. op.fields = ListOperationsColumns
    BY <1>4, BuiltInIs DEF ListOperationsOp
  <2>2. ListOperationsColumns = [i \in 1 .. 5 |-> ListOperationsColumns[i]]
    BY DEF ListOperationsColumns
  <2>3. /\ IsTextColumn(TextField("name", FALSE)) /\ IsTextColumn(TextField("description", TRUE))
        /\ IsTextColumn(TextField("kind", TRUE))
        /\ IsTextColumn(TextField("result_schema_json", TRUE))
        /\ IsTextColumn(TextField("parameters_json", TRUE))
    BY TextFieldIsTextColumn
  <2>4. /\ ListOperationsColumns[1] = TextField("name", FALSE)
        /\ ListOperationsColumns[2] = TextField("description", TRUE)
        /\ ListOperationsColumns[3] = TextField("kind", TRUE)
        /\ ListOperationsColumns[4] = TextField("result_schema_json", TRUE)
        /\ ListOperationsColumns[5] = TextField("parameters_json", TRUE)
    BY DEF ListOperationsColumns
  <2>5. /\ IsTextColumn(ListOperationsColumns[1]) /\ IsTextColumn(ListOperationsColumns[2])
        /\ IsTextColumn(ListOperationsColumns[3]) /\ IsTextColumn(ListOperationsColumns[4])
        /\ IsTextColumn(ListOperationsColumns[5])
    BY <2>3, <2>4, Zenon
  <2>6. \A i \in 1 .. 5 : IsTextColumn(ListOperationsColumns[i])
    BY <2>5
  <2>7. QED
    BY <2>1, <2>2, <2>6, TextColumns
<1>5. QED
  BY <1>1, <1>2, <1>3, <1>4 DEF BuiltInOperations

-----------------------------------------------------------------------------
(* The source changes *)

LEMMA ConnectorTypeInit == Init => ConnectorTypeOK
BY ConnectorAssumption DEF Init, ConnectorInit, ConnectorTypeOK

LEMMA ConnectorTypeChanges ==
  ASSUME ConnectorTypeOK,
         \/ ConnectionChanges \/ CatalogChanges
         \/ \E o \in Offer : OfferChanges(o)
  PROVE  ConnectorTypeOK' /\ asksSource' = asksSource /\ hierarchical' = hierarchical
<1> USE ConnectorAssumption DEF ConnectorTypeOK, Change
<1>1. CASE ConnectionChanges
  BY <1>1 DEF ConnectionChanges, catalogVars
<1>2. CASE \E o \in Offer : OfferChanges(o)
  BY <1>2 DEF OfferChanges, catalogVars
<1>3. CASE CatalogChanges
  <2>1. PICK ns \in Namespace :
          \/ NamespaceAppears(ns) \/ NamespaceDisappears(ns)
          \/ \E t \in Table : TableAppears(ns, t) \/ TableDisappears(ns, t)
    BY <1>3 DEF CatalogChanges
  <2>2. CASE NamespaceAppears(ns)
    BY <2>2 DEF NamespaceAppears
  <2>3. CASE NamespaceDisappears(ns)
    BY <2>3 DEF NamespaceDisappears
  <2>4. ASSUME NEW t \in Table, TableAppears(ns, t) \/ TableDisappears(ns, t)
        PROVE  ConnectorTypeOK' /\ asksSource' = asksSource /\ hierarchical' = hierarchical
    <3>1. held' = [held EXCEPT ![ns] = held[ns] \cup {t}] \/
          held' = [held EXCEPT ![ns] = held[ns] \ {t}]
      BY <2>4 DEF TableAppears, TableDisappears
    <3>2. held' \in [Namespace -> SUBSET Table]
      BY <3>1
    <3>3. QED
      BY <2>4, <3>2 DEF TableAppears, TableDisappears
  <2>5. QED
    BY <2>1, <2>2, <2>3, <2>4
<1>4. QED
  BY <1>1, <1>2, <1>3

LEMMA TablesAreFinite ==
  ASSUME ConnectorTypeOK, NEW hits \in SUBSET ListTables
  PROVE  Cardinality(hits) \in Nat
<1>1. ListTables \subseteq Table
  BY DEF ListTables, ConnectorTypeOK
<1>2. QED
  BY <1>1, ConnectorAssumption, FS_Subset, FS_CardinalityType

-----------------------------------------------------------------------------
(* An answer *)

\* What the invariant needs of the rows an operation answers with.
Sound(rows, how) ==
  /\ rows \in Seq(AnswerRows) /\ how \in {"exhausted", "failed"} /\ operation.kind # "data"
  /\ how = "failed" => \E r \in ErrorRows : rows = <<r>>
  /\ operation.owner = "framework" /\ how = "exhausted" =>
       \A i \in DOMAIN rows : rows[i] \in FrameworkRows(operation)
  /\ operation = ValidateConnectionOp => \E r \in MetaRows : rows = <<r>> /\ Healthy(r)

LEMMA AnswersStep ==
  ASSUME AgentInv, stage \in {"typed", "pulling"}, NEW rows, NEW how,
         Sound(rows, how), Answers(rows, how),
         UNCHANGED <<request, initError, operation, contact, connectorVars>>
  PROVE  AgentInv'
<1> USE DEF connectorVars, catalogVars, Answers
<1>1. emitted = << >> /\ produced \in Nat
  BY DEF AgentInv, WholeInv, AgentType, Sound
<1>2. Len(rows) \in Nat
  BY DEF Sound
<1>3. AgentType'
  <2>1. produced' \in Nat /\ pulled' \in Seq(AnswerRows) /\ ended' \in {"no", "exhausted", "failed"}
    BY <1>1, <1>2 DEF Sound
  <2>2. QED
    BY <2>1 DEF AgentInv, AgentType, ConnectorTypeOK
<1>4. Listens'
  BY DEF AgentInv, Listens
<1>5. WholeInv'
  <2>1. ended' = "failed" => (\E r \in ErrorRows : InHand(r))'
    BY <1>1 DEF Sound, InHand
  <2>2. ended' = "exhausted" => Len(emitted') + Len(pulled') = produced'
    BY <1>1, <1>2
  <2>3. QED
    BY <2>1, <2>2 DEF WholeInv, Sound
<1>6. SchemaInv'
  <2>1. FrameworkRows(operation)' = FrameworkRows(operation)
    OBVIOUS
  <2>2. QED
    BY <2>1 DEF AgentInv, SchemaInv, RaisesForACause, Sound
<1>7. HealthInv'
  <2>1. ASSUME NEW r, Healthy(r) PROVE Healthy(r)'
    BY <2>1 DEF Healthy
  <2>2. QED
    BY <1>1, <2>1 DEF HealthInv, Sound, InHand
<1>8. QED
  BY <1>3, <1>4, <1>5, <1>6, <1>7 DEF AgentInv

LEMMA MetaIsRow ==
  ASSUME NEW status \in {"ok", "error"}, NEW code \in Codes \cup {"none"}
  PROVE  Meta(status, code) \in MetaRows /\ Meta(status, code).status = status
         /\ Meta(status, code).code = code
BY DEF Meta, MetaRows

LEMMA RowsAreRows ==
  /\ ErrorRows \subseteq MetaRows /\ MetaRows \subseteq AnswerRows
  /\ \A op \in {ListObjectsOp, GetObjectMetadataOp, ListOperationsOp} :
       TextRow(op.fields) \in AnswerRows
<1>1. ErrorRows \subseteq MetaRows /\ MetaRows \subseteq AnswerRows
  BY DEF ErrorRows, MetaRows, AnswerRows
<1>2. ASSUME NEW op \in {ListObjectsOp, GetObjectMetadataOp, ListOperationsOp}
      PROVE  TextRow(op.fields) \in AnswerRows
  <2>1. TextRow(op.fields) = [cells |-> TextCells(op), status |-> "none", code |-> "none"]
    BY DEF TextCells, TextRow, RowOf
  <2>2. QED
    BY <2>1 DEF AnswerRows
<1>3. QED
  BY <1>1, <1>2

LEMMA ErrorRowIsError ==
  ASSUME NEW error \in {"ValueError", "other", "auth_failed", "bad_request"}
  PROVE  ErrorRow(error) \in ErrorRows
<1>1. ErrorCode(error) \in Codes
  BY DEF ErrorCode, Codes
<1>2. QED
  BY <1>1 DEF ErrorRow, Meta, ErrorRows

LEMMA CopiesAreRows ==
  ASSUME NEW row \in AnswerRows, NEW n \in Nat
  PROVE  Copies(row, n) \in Seq(AnswerRows) /\ \A i \in DOMAIN Copies(row, n) : Copies(row, n)[i] = row
<1>1. Copies(row, n) \in [1 .. n -> AnswerRows]
  BY DEF Copies
<1>2. QED
  BY <1>1 DEF Copies

\* An answer of one error row is sound, except that a health check has more to say.
LEMMA ErrorsAreSound ==
  ASSUME NEW row \in ErrorRows, operation.kind # "data",
         operation = ValidateConnectionOp => Healthy(row)
  PROVE  Sound(<<row>>, "failed")
BY RowsAreRows DEF Sound

LEMMA CopiesAreSound ==
  ASSUME NEW n \in Nat, operation \in {ListObjectsOp, GetObjectMetadataOp, ListOperationsOp}
  PROVE  Sound(Copies(TextRow(operation.fields), n), "exhausted")
<1>1. operation.kind # "data" /\ operation # ValidateConnectionOp
  BY BuiltInFacts
<1>2. QED
  BY <1>1, RowsAreRows, CopiesAreRows DEF Sound, FrameworkRows

LEMMA ColumnsOfTheBuiltIns ==
  /\ ListObjectsOp.fields = ListObjectsColumns
  /\ GetObjectMetadataOp.fields = GetObjectMetadataColumns
  /\ ListOperationsOp.fields = ListOperationsColumns
BY BuiltInIs DEF ListObjectsOp, GetObjectMetadataOp, ListOperationsOp

LEMMA PulledAtOnce ==
  ASSUME AgentInv, stage = "pulling", ~Streams(operation)
  PROVE  /\ operation.kind # "data"
         /\ operation = ListObjectsOp \/ operation = GetObjectMetadataOp
            \/ operation = ListOperationsOp \/ operation = ValidateConnectionOp
            \/ (operation.owner = "source" /\ operation.name = "validate_connection")
<1>1. operation # Unknown /\ IsOperation(operation)
  BY DEF AgentInv, AgentType, WholeInv
<1>2. CASE operation \in BuiltInOperations
  BY <1>2, BuiltInFacts DEF Streams, BuiltInOperations
<1>3. CASE operation.owner = "source"
  BY <1>3 DEF Streams
<1>4. QED
  BY <1>1, <1>2, <1>3 DEF IsOperation

LEMMA PullAtOnceAnswers ==
  ASSUME AgentInv, PullAtOnce
  PROVE  \E rows, how : Sound(rows, how) /\ Answers(rows, how)
<1>1. /\ operation.kind # "data"
      /\ operation = ListObjectsOp \/ operation = GetObjectMetadataOp
         \/ operation = ListOperationsOp \/ operation = ValidateConnectionOp
         \/ (operation.owner = "source" /\ operation.name = "validate_connection")
  BY PulledAtOnce DEF PullAtOnce
<1>2. /\ ErrorRow("other") \in ErrorRows /\ ErrorRow("ValueError") \in ErrorRows
  BY ErrorRowIsError
<1>3. operation # ValidateConnectionOp =>
        Sound(<<ErrorRow("other")>>, "failed") /\ Sound(<<ErrorRow("ValueError")>>, "failed")
  BY <1>1, <1>2, ErrorsAreSound
<1>4. CASE operation = ListObjectsOp
  <2>1. PullListObjects /\ operation # ValidateConnectionOp
    BY <1>4, BuiltInFacts DEF PullAtOnce
  <2>2. Sound(<< >>, "exhausted")
    BY <1>1, <2>1 DEF Sound
  <2>3. ASSUME NEW hits \in SUBSET ListTables
        PROVE  Sound(Copies(TextRow(ListObjectsColumns), Cardinality(hits)), "exhausted")
    BY <1>4, TablesAreFinite, CopiesAreSound, ColumnsOfTheBuiltIns DEF AgentInv, AgentType
  <2>4. QED
    BY <1>3, <2>1, <2>2, <2>3, Zenon DEF PullListObjects
<1>5. CASE operation = GetObjectMetadataOp
  <2>1. PullGetObjectMetadata /\ operation # ValidateConnectionOp
    BY <1>5, BuiltInFacts DEF PullAtOnce
  <2>2. ASSUME NEW n \in (0 .. 1) \cup (1 .. MaxRows)
        PROVE  Sound(Copies(TextRow(GetObjectMetadataColumns), n), "exhausted")
    BY <1>5, CopiesAreSound, ColumnsOfTheBuiltIns, AgentAssumption
  <2>3. QED
    BY <1>3, <2>1, <2>2 DEF PullGetObjectMetadata
<1>6. CASE operation = ListOperationsOp
  <2>1. PullListOperations /\ operation # ValidateConnectionOp
    BY <1>6, BuiltInFacts DEF PullAtOnce
  <2>2. CurrentOffer \in Offer \cup {NoOffer}
    BY DEF CurrentOffer, AgentInv, AgentType, ConnectorTypeOK
  <2>3. Sound(Copies(TextRow(ListOperationsColumns),
                     Cardinality(ResolveOperationCatalog(CurrentOffer))), "exhausted")
    BY <1>6, <2>2, CatalogIsKeyed, CopiesAreSound, ColumnsOfTheBuiltIns
  <2>4. QED
    BY <1>3, <2>1, <2>3 DEF PullListOperations
<1>7. CASE operation.name = "validate_connection"
  <2>1. PullValidateConnection
    BY <1>7 DEF PullAtOnce
  <2>2. /\ Meta("ok", "none") \in MetaRows /\ Meta("error", "auth_failed") \in MetaRows
        /\ Meta("error", "connection_failed") \in MetaRows
        /\ Meta("ok", "none").status = "ok" /\ Meta("error", "connection_failed").status = "error"
        /\ Meta("error", "connection_failed").code = "connection_failed"
    BY MetaIsRow DEF Codes
  <2>3. CASE operation = ValidateConnectionOp
    <3> DEFINE row == IF ListTablesAnswers THEN Meta("ok", "none")
                        ELSE Meta("error", "connection_failed")
    <3>1. Answers(<<row>>, "exhausted")
      BY <2>1, <2>3, BuiltInFacts DEF PullValidateConnection, BuiltInOperations
    <3>2. reachable \in contact /\ initError = "none"
      BY <2>3 DEF AgentInv, Listens, HealthInv, PullAtOnce
    <3>3. Healthy(row)
      BY <2>2, <3>2 DEF Healthy, ListTablesAnswers
    <3>4. Sound(<<row>>, "exhausted")
      BY <1>1, <2>2, <3>3, RowsAreRows DEF Sound, FrameworkRows
    <3>5. QED
      BY <2>1, <3>1, <3>4
  <2>4. CASE operation # ValidateConnectionOp
    <3>1. operation.owner = "source"
      BY <1>1, <1>7, <2>4, BuiltInFacts
    <3>2. ASSUME NEW row \in MetaRows PROVE Sound(<<row>>, "exhausted")
      BY <1>1, <2>4, <3>1, RowsAreRows DEF Sound
    <3>3. QED
      BY <1>3, <2>1, <2>2, <2>4, <3>1, <3>2 DEF PullValidateConnection
  <2>5. QED
    BY <2>3, <2>4
<1>8. QED
  BY <1>1, <1>4, <1>5, <1>6, <1>7, BuiltInFacts

LEMMA PullAtOnceStep ==
  ASSUME AgentInv, PullAtOnce, UNCHANGED connectorVars
  PROVE  AgentInv'
<1>1. PICK rows, how : Sound(rows, how) /\ Answers(rows, how)
  BY PullAtOnceAnswers
<1>2. stage = "pulling" /\ UNCHANGED <<request, initError, operation, contact>>
  BY DEF PullAtOnce
<1>3. QED
  BY <1>1, <1>2, AnswersStep

LEMMA PullRaisesStep ==
  ASSUME AgentInv, NEW error \in {"ValueError", "other", "auth_failed"}, PullRaises(error),
         UNCHANGED connectorVars
  PROVE  AgentInv'
<1>1. operation # ValidateConnectionOp
  BY BuiltInFacts DEF PullRaises, Streams, BuiltInOperations
<1>2. CASE operation.kind = "data"
  BY <1>1, <1>2
     DEF PullRaises, Raise, answerVars, connectorVars, catalogVars, AgentInv, AgentType, Listens,
         WholeInv, SchemaInv, RaisesForACause, HealthInv, ConnectorTypeOK
<1>3. CASE operation.kind # "data"
  <2>1. Sound(<<ErrorRow(error)>>, "failed")
    BY <1>1, <1>3, ErrorRowIsError, ErrorsAreSound
  <2>2. QED
    BY <1>3, <2>1, AnswersStep DEF PullRaises
<1>4. QED
  BY <1>2, <1>3

LEMMA StartReadStep ==
  ASSUME AgentInv, StartRead, UNCHANGED connectorVars
  PROVE  AgentInv'
<1>1. stage = "typed" /\ UNCHANGED <<request, initError, operation, contact>>
  BY DEF StartRead
<1>2. ASSUME NEW row \in ErrorRows, operation.kind # "data", Answers(<<row>>, "failed"),
             operation = ValidateConnectionOp => Healthy(row)
      PROVE  AgentInv'
  BY <1>1, <1>2, ErrorsAreSound, AnswersStep
<1>3. ASSUME Raise, operation.kind = "data" PROVE AgentInv'
  <2>1. operation # ValidateConnectionOp
    BY <1>3, BuiltInFacts
  <2>2. QED
    BY <1>1, <1>3, <2>1
       DEF Raise, answerVars, connectorVars, catalogVars, AgentInv, AgentType, Listens,
           WholeInv, SchemaInv, RaisesForACause, HealthInv, ConnectorTypeOK
<1>4. CASE operation = Unknown
  <2>1. operation.kind # "data" /\ operation # ValidateConnectionOp
    BY <1>4, BuiltInNames DEF Unknown, BuiltInOperations
  <2>2. Answers(<<ErrorRow("ValueError")>>, "failed")
    BY <1>4 DEF StartRead, FailsToBuild
  <2>3. QED
    BY <1>2, <2>1, <2>2, ErrorRowIsError
<1>5. CASE FailsToBuild
  <2>1. CASE operation.kind = "data"
    BY <1>3, <1>5, <2>1 DEF StartRead, FailsToBuild
  <2>2. CASE operation.kind # "data"
    <3>1. Answers(<<InitErrorRow(operation)>>, "failed")
      BY <1>5, <2>2 DEF StartRead, FailsToBuild
    <3>2. InitErrorRow(operation) \in ErrorRows
      BY <1>5, ErrorRowIsError
         DEF InitErrorRow, FailsToBuild, AgentInv, AgentType, Meta, ErrorRows, Codes
    <3>3. operation = ValidateConnectionOp => Healthy(InitErrorRow(operation))
      BY BuiltInFacts DEF InitErrorRow, Healthy, Meta
    <3>4. QED
      BY <1>2, <2>2, <3>1, <3>2, <3>3
  <2>3. QED
    BY <2>1, <2>2
<1>6. CASE operation # Unknown /\ ~FailsToBuild
  <2>1. CASE MissingParameter(operation) /\ operation.kind = "metadata"
    <3>1. operation # ValidateConnectionOp
      BY <2>1, BuiltInFacts DEF MissingParameter
    <3>2. Answers(<<ErrorRow("bad_request")>>, "failed")
      BY <1>6, <2>1 DEF StartRead
    <3>3. QED
      BY <1>2, <2>1, <3>1, <3>2, ErrorRowIsError
  <2>2. CASE MissingParameter(operation) /\ operation = ReadTableOp
    BY <1>3, <1>6, <2>2, BuiltInFacts DEF StartRead
  <2>3. CASE stage' = "pulling" /\ UNCHANGED answerVars
    <3>1. operation = ValidateConnectionOp => initError = "none"
      BY <1>6, BuiltInFacts DEF FailsToBuild, RequiresConnector
    <3>2. QED
      BY <1>1, <1>6, <2>3, <3>1
         DEF answerVars, connectorVars, catalogVars, AgentInv, AgentType, Listens,
             WholeInv, SchemaInv, RaisesForACause, HealthInv, ConnectorTypeOK
  <2>4. QED
    BY <1>6, <2>1, <2>2, <2>3 DEF StartRead
<1>7. QED
  BY <1>4, <1>5, <1>6

-----------------------------------------------------------------------------
(* The other steps of a request *)

LEMMA AgentInitInv == Init => AgentInv
<1> SUFFICES ASSUME Init PROVE AgentInv
  OBVIOUS
<1>1. AgentInit
  BY DEF Init
<1>2. NoRequestYet \in Requests
  BY AgentAssumption DEF NoRequestYet
<1>3. Unknown # ValidateConnectionOp
  BY BuiltInNames DEF BuiltInOperations
<1>4. AgentType
  <2>1. << >> \in Seq(AnswerRows) /\ << >> \in Seq(OutRows)
    OBVIOUS
  <2>2. /\ stage = "idle" /\ request \in Requests /\ initError = "none" /\ operation = Unknown
        /\ brought = FALSE /\ produced = 0 /\ ended = "no" /\ contact = {}
        /\ pulled = << >> /\ emitted = << >>
    BY <1>1, <1>2 DEF AgentInit
  <2>3. QED
    BY <2>1, <2>2, ConnectorTypeInit DEF AgentType
<1>5. QED
  BY <1>1, <1>3, <1>4
     DEF AgentInit, AgentInv, Listens, WholeInv, SchemaInv,
         RaisesForACause, HealthInv

LEMMA ConstructStep ==
  ASSUME AgentInv, NEW r \in Requests, NEW error \in {"none", "ValueError", "other"},
         Construct(r, error), UNCHANGED connectorVars
  PROVE  AgentInv'
<1> DEFINE offer == IF error = "none" THEN offered ELSE NoOffer
<1>1. stage' \in {"raised", "resolved"} /\ stage = "idle"
  BY DEF Construct
<1>2. offer \in Offer \cup {NoOffer}
  BY DEF AgentInv, AgentType, ConnectorTypeOK
<1>3. operation' = Unknown \/ IsOperation(operation)'
  BY <1>2, ResolvesInTheCatalog, CatalogIsKeyed DEF Construct, IsOperation
<1>4. error # "none" => operation' = Unknown \/ operation' \in BuiltInOperations
  <2>1. ResolveOperationCatalog(NoOffer) \subseteq BuiltInOperations
    BY NoOfferOffers DEF ResolveOperationCatalog
  <2>2. QED
    BY <2>1, ResolvesInTheCatalog DEF Construct
<1>5. AgentType'
  BY <1>1, <1>3, <1>4
     DEF Construct, AgentInv, AgentType, answerVars, connectorVars, catalogVars, ConnectorTypeOK
<1>6. stage' = "raised" => operation' = Unknown
  BY DEF Construct
<1>7. Unknown.kind = "none"
  BY DEF Unknown
<1>8. QED
  BY <1>1, <1>5, <1>6, <1>7
     DEF Construct, AgentInv, answerVars, connectorVars, catalogVars, Listens,
         WholeInv, SchemaInv, RaisesForACause, HealthInv

LEMMA RaiseInSchema ==
  ASSUME AgentInv, stage = "resolved", Raise,
         operation.kind = "metadata" => operation.owner = "source" /\ ~operation.typed,
         UNCHANGED <<request, initError, operation, contact, connectorVars>>
  PROVE  AgentInv'
BY DEF Raise, answerVars, connectorVars, catalogVars, AgentInv, AgentType, Listens,
       WholeInv, SchemaInv, RaisesForACause, HealthInv, ConnectorTypeOK

LEMMA TypedStep ==
  ASSUME AgentInv, stage = "resolved", operation # Unknown, NEW fields, Typed(fields),
         operation.kind = "metadata" => fields = operation.fields,
         UNCHANGED <<request, initError, operation, contact, connectorVars>>
  PROVE  AgentInv'
BY DEF Typed, connectorVars, catalogVars, AgentInv, AgentType, Listens,
       WholeInv, SchemaInv, RaisesForACause, HealthInv, ConnectorTypeOK

LEMMA SchemaStep ==
  ASSUME AgentInv, Schema, UNCHANGED connectorVars
  PROVE  AgentInv'
<1>1. stage = "resolved" /\ UNCHANGED <<request, initError, operation, contact>>
  BY DEF Schema
<1>2. ASSUME Raise, operation.kind = "metadata" => operation.owner = "source" /\ ~operation.typed
      PROVE  AgentInv'
  BY <1>1, <1>2, RaiseInSchema
<1>3. ASSUME operation # Unknown, NEW fields, Typed(fields),
             operation.kind = "metadata" => fields = operation.fields
      PROVE  AgentInv'
  BY <1>1, <1>3, TypedStep
<1>4. CASE operation = Unknown
  <2>1. Raise /\ operation.kind = "none"
    BY <1>4 DEF Schema, FailsToBuild, Unknown
  <2>2. QED
    BY <1>2, <2>1
<1>5. CASE FailsToBuild
  BY <1>2, <1>3, <1>5 DEF Schema, FailsToBuild
<1>6. CASE operation # Unknown /\ ~FailsToBuild
  <2>1. CASE operation.kind = "data" /\ MissingParameter(operation)
    BY <1>2, <1>6, <2>1 DEF Schema
  <2>2. CASE operation = ReadTableOp /\ ~MissingParameter(operation)
    <3>1. operation.kind = "data" /\ TypedByTable
      BY <1>6, <2>2, BuiltInFacts DEF Schema
    <3>2. CASE Raise
      BY <1>2, <3>1, <3>2
    <3>3. CASE Typed(TableFields)
      BY <1>3, <1>6, <3>1, <3>3
    <3>4. QED
      BY <3>1, <3>2, <3>3 DEF TypedByTable
  <2>3. CASE operation # ReadTableOp /\ operation.typed
    BY <1>2, <1>3, <1>6, <2>3 DEF Schema
  <2>4. CASE operation # ReadTableOp /\ ~operation.typed
    <3>1. operation.kind = "metadata" => operation.owner = "source"
      BY <1>6, <2>4, BuiltInFacts DEF AgentInv, AgentType, IsOperation
    <3>2. QED
      BY <1>2, <1>6, <2>4, <3>1 DEF Schema
  <2>5. QED
    BY <2>1, <2>2, <2>3, <2>4, BuiltInFacts
<1>7. QED
  BY <1>4, <1>5, <1>6

LEMMA BringSchemaStep ==
  ASSUME AgentInv, NEW fields, BringSchema(fields), UNCHANGED connectorVars
  PROVE  AgentInv'
<1>1. /\ stage = "resolved" /\ stage' = "typed" /\ brought'
      /\ UNCHANGED <<request, initError, operation, pulled, emitted, produced, ended, contact>>
  BY DEF BringSchema
<1>2. AgentType'
  BY <1>1 DEF AgentInv, AgentType, connectorVars, catalogVars, ConnectorTypeOK
<1>3. Listens' /\ WholeInv'
  BY <1>1 DEF AgentInv, Listens, WholeInv, connectorVars, catalogVars
<1>4. SchemaInv' /\ HealthInv'
  BY <1>1 DEF SchemaInv, RaisesForACause, HealthInv
<1>5. QED
  BY <1>2, <1>3, <1>4 DEF AgentInv

LEMMA SomeRows ==
  ASSUME NEW rows \in Seq(AnswerRows), rows # << >>
  PROVE  /\ Head(rows) \in AnswerRows /\ Head(rows) = rows[1] /\ 1 \in DOMAIN rows
         /\ Tail(rows) \in Seq(AnswerRows) /\ Len(Tail(rows)) = Len(rows) - 1
         /\ Len(rows) \in Nat
         /\ \A i \in DOMAIN Tail(rows) : i + 1 \in DOMAIN rows /\ Tail(rows)[i] = rows[i + 1]
OBVIOUS

LEMMA DefaultMeta ==
  /\ \A row \in AnswerRows : WithDefaultMeta(row) \in AnswerRows
  /\ \A row \in MetaRows : WithDefaultMeta(row) = row
<1>1. ASSUME NEW row \in AnswerRows PROVE WithDefaultMeta(row) \in AnswerRows
  BY DEF WithDefaultMeta, AnswerRows
<1>2. ASSUME NEW row \in MetaRows PROVE WithDefaultMeta(row) = row
  BY DEF WithDefaultMeta, MetaRows
<1>3. QED
  BY <1>1, <1>2

LEMMA ParsedIsOut ==
  ASSUME NEW row \in AnswerRows, NEW fields
  PROVE  Parsed(row, fields) \in OutRows
<1>1. HasData(row, fields) \in BOOLEAN
  BY DEF HasData
<1>2. QED
  BY <1>1 DEF Parsed, OutRows, AnswerRows

LEMMA PullRowStep ==
  ASSUME AgentInv, NEW row \in AnswerRows, PullRow(row), UNCHANGED connectorVars
  PROVE  AgentInv'
<1>1. /\ stage = "pulling" /\ produced' = produced + 1 /\ produced \in Nat
      /\ UNCHANGED <<request, initError, operation, contact, brought, ended, schema>>
  BY DEF PullRow, Yields, Emits, AgentInv, AgentType
<1>2. operation # ValidateConnectionOp
  BY BuiltInFacts DEF PullRow, Yields, Streams, BuiltInOperations
<1>3. CASE operation.kind = "data"
  <2>1. /\ pulled' = pulled
        /\ \/ stage' = "pulling" /\ emitted' = Append(emitted, Parsed(row, schema))
           \/ stage' = "raised" /\ emitted' = emitted
    BY <1>1, <1>3 DEF PullRow, Emits
  <2>2. emitted \in Seq(OutRows) /\ Parsed(row, schema) \in OutRows
    BY ParsedIsOut DEF AgentInv, AgentType
  <2>3. emitted' \in Seq(OutRows) /\ (stage' = "pulling" => Len(emitted') = Len(emitted) + 1)
    BY <2>1, <2>2
  <2>4. QED
    BY <1>1, <1>2, <1>3, <2>1, <2>3
       DEF connectorVars, catalogVars, AgentInv, AgentType, Listens, WholeInv,
           SchemaInv, RaisesForACause, HealthInv, ConnectorTypeOK
<1>4. CASE operation.kind # "data"
  <2>1. pulled' = Append(pulled, row) /\ stage' = stage /\ emitted' = emitted
    BY <1>4 DEF PullRow
  <2>2. pulled \in Seq(AnswerRows)
    BY DEF AgentInv, AgentType
  <2>3. pulled' \in Seq(AnswerRows) /\ Len(pulled') = Len(pulled) + 1
    BY <2>1, <2>2
  <2>4. QED
    BY <1>1, <1>2, <1>4, <2>1, <2>3
       DEF connectorVars, catalogVars, AgentInv, AgentType, Listens, WholeInv,
           SchemaInv, RaisesForACause, HealthInv, ConnectorTypeOK
<1>5. QED
  BY <1>3, <1>4

LEMMA PullEndsStep ==
  ASSUME AgentInv, PullEnds, UNCHANGED connectorVars
  PROVE  AgentInv'
<1>1. /\ operation # ValidateConnectionOp
      /\ operation.kind # "data" => operation.owner = "source"
  BY BuiltInFacts DEF PullEnds, Streams, BuiltInOperations
<1>2. QED
  BY <1>1
     DEF PullEnds, connectorVars, catalogVars, AgentInv, AgentType, Listens, WholeInv,
         SchemaInv, RaisesForACause, HealthInv, ConnectorTypeOK

\* A row that does not fit the dispatcher's schema is the source's own.
LEMMA MisfitsAreTheSources ==
  ASSUME AgentInv, stage = "emitting", pulled # << >>, ~Fits(WithDefaultMeta(Head(pulled))),
         operation.kind = "metadata", ~brought
  PROVE  /\ operation.owner = "source"
         /\ ended = "exhausted" \/ ~TakesErrors(operation.fields)
<1>1. IsOperation(operation)
  BY DEF AgentInv, AgentType, Unknown
<1>2. HasColumns(operation.fields)
  BY <1>1, BuiltInColumns DEF IsOperation
<1>3. schema = EnsureMetaField(RelaxNullability(operation.fields))
  BY DEF AgentInv, SchemaInv
<1>4. Head(pulled) = pulled[1] /\ 1 \in DOMAIN pulled
  BY SomeRows DEF AgentInv, AgentType
<1>5. \A row \in MetaRows : WithDefaultMeta(row) = row
  BY DefaultMeta
<1>6. TakesErrors(operation.fields) => Head(pulled) \notin ErrorRows
  BY <1>2, <1>3, <1>5, ErrorRowFits, RowsAreRows DEF Fits
<1>7. ended = "failed" => Head(pulled) \in ErrorRows
  <2>1. ended = "failed" => \E r \in ErrorRows : pulled = <<r>>
    BY DEF AgentInv, WholeInv, InHand
  <2>2. QED
    BY <1>4, <2>1
<1>8. ended \in {"exhausted", "failed"}
  BY DEF AgentInv, AgentType, WholeInv
<1>9. operation \notin BuiltInOperations
  <2>1. SUFFICES ASSUME operation \in BuiltInOperations PROVE FALSE
    OBVIOUS
  <2>2. NoMeta(operation.fields) /\ TakesErrors(operation.fields)
    BY <2>1, BuiltInColumns DEF NoMeta, TakesErrors
  <2>3. \A row \in MetaRows : Fits(row)
    BY <1>2, <1>3, <2>2, MetaRowFits DEF Fits, NoMeta
  <2>4. Head(pulled) \notin MetaRows
    BY <1>5, <2>3
  <2>5. ended = "exhausted"
    BY <1>6, <1>7, <1>8, <2>2
  <2>6. Head(pulled) = TextRow(operation.fields)
    BY <1>4, <2>1, <2>4, <2>5, BuiltInFacts DEF AgentInv, SchemaInv, FrameworkRows
  <2>7. QED
    BY <1>3, <2>1, <2>6, TextRowFits, BuiltInColumns DEF Fits
<1>10. QED
  BY <1>1, <1>6, <1>7, <1>8, <1>9 DEF IsOperation

LEMMA EmitStep ==
  ASSUME AgentInv, Emit, UNCHANGED connectorVars
  PROVE  AgentInv'
<1>1. stage = "emitting" /\ UNCHANGED <<request, initError, operation, contact>>
  BY DEF Emit
<1>2. CASE pulled = << >>
  <2>1. stage' = "done" /\ UNCHANGED answerVars
    BY <1>2 DEF Emit
  <2>2. ASSUME NEW r, InHand(r) PROVE emitted' = <<Parsed(r, schema)>>
    BY <1>2, <2>1, <2>2 DEF InHand, answerVars
  <2>3. AgentType'
    BY <1>1, <2>1
       DEF answerVars, connectorVars, catalogVars, AgentInv, AgentType, ConnectorTypeOK
  <2>4. WholeInv'
    <3>1. ended' = "failed" => \E r \in ErrorRows : emitted' = <<Parsed(r, schema)>>
      BY <1>1, <2>1, <2>2 DEF AgentInv, WholeInv, answerVars
    <3>2. schema' = schema
      BY <2>1 DEF answerVars
    <3>3. ended' = "exhausted" => Len(emitted') = produced'
      <4>1. Len(pulled) = 0 /\ emitted \in Seq(OutRows)
        BY <1>2 DEF AgentInv, AgentType
      <4>2. QED
        BY <1>1, <2>1, <4>1 DEF AgentInv, WholeInv, answerVars
    <3>4. /\ stage' = "done" /\ ended' \in {"exhausted", "failed"}
          /\ operation'.kind # "data"
      BY <1>1, <2>1 DEF AgentInv, WholeInv, AgentType, answerVars
    <3>5. ended' = "failed" => \E r \in ErrorRows : emitted' = <<Parsed(r, schema')>>
      BY <3>1, <3>2
    <3>6. QED
      BY <3>3, <3>4, <3>5 DEF WholeInv
  <2>5. HealthInv'
    <3>1. ASSUME NEW r, Healthy(r) PROVE Healthy(r)'
      BY <1>1, <3>1 DEF Healthy, connectorVars, catalogVars
    <3>2. schema' = schema
      BY <2>1 DEF answerVars
    <3>3. operation = ValidateConnectionOp =>
            \E r \in MetaRows : Healthy(r)' /\ emitted' = <<Parsed(r, schema)>>
      BY <1>1, <2>2, <3>1 DEF AgentInv, HealthInv
    <3>4. QED
      BY <1>1, <2>1, <3>2, <3>3 DEF HealthInv
  <2>6. Listens' /\ SchemaInv'
    BY <1>1, <2>1 DEF AgentInv, Listens, SchemaInv, RaisesForACause, answerVars
  <2>7. QED
    BY <2>3, <2>4, <2>5, <2>6 DEF AgentInv
<1>3. CASE pulled # << >>
  <2> DEFINE row == WithDefaultMeta(Head(pulled))
  <2>1. /\ pulled' = Tail(pulled) /\ UNCHANGED <<produced, schema, brought, ended>>
        /\ \/ Fits(row) /\ stage' = "emitting" /\ emitted' = Append(emitted, Parsed(row, schema))
           \/ ~Fits(row) /\ stage' = "raised" /\ emitted' = emitted
    BY <1>1, <1>3 DEF Emit, Emits
  <2>2. pulled \in Seq(AnswerRows) /\ emitted \in Seq(OutRows)
    BY DEF AgentInv, AgentType
  <2>3. row \in AnswerRows /\ pulled' \in Seq(AnswerRows) /\ Len(pulled') = Len(pulled) - 1
    BY <1>3, <2>1, <2>2, SomeRows, DefaultMeta
  <2>4. emitted' \in Seq(OutRows)
    BY <2>1, <2>2, <2>3, ParsedIsOut
  <2>5. AgentType'
    BY <1>1, <2>1, <2>3, <2>4
       DEF AgentInv, AgentType, connectorVars, catalogVars, ConnectorTypeOK
  <2>6. ASSUME NEW r \in MetaRows, InHand(r), Fits(row)
        PROVE  pulled' = << >> /\ emitted' = <<Parsed(r, schema)>>
    <3>1. pulled = <<r>> /\ emitted = << >>
      BY <1>3, <2>6 DEF InHand
    <3>2. row = r
      BY <3>1, DefaultMeta
    <3>3. QED
      BY <2>1, <2>6, <3>1, <3>2
  <2>7. CASE Fits(row)
    <3>1. Len(emitted') = Len(emitted) + 1
      BY <2>1, <2>2, <2>7
    <3>2. WholeInv'
      <4>1. ended' = "failed" => \E r \in ErrorRows : InHand(r)'
        BY <1>1, <2>1, <2>6, <2>7, RowsAreRows DEF AgentInv, WholeInv, InHand
      <4>2. ended = "exhausted" => Len(emitted') + Len(pulled') = produced'
        <5>1. ended = "exhausted" => Len(emitted) + Len(pulled) = produced
          BY <1>1 DEF AgentInv, WholeInv
        <5>2. Len(emitted) \in Nat /\ Len(pulled) \in Nat /\ produced' = produced
          BY <2>1, <2>2
        <5>3. QED
          BY <2>3, <3>1, <5>1, <5>2
      <4>3. QED
        BY <1>1, <2>1, <2>7, <4>1, <4>2 DEF AgentInv, WholeInv
    <3>3. SchemaInv'
      <4>1. \A i \in DOMAIN pulled' : i + 1 \in DOMAIN pulled /\ pulled'[i] = pulled[i + 1]
        BY <1>3, <2>1, <2>2, SomeRows
      <4>2. FrameworkRows(operation)' = FrameworkRows(operation)
        BY <1>1
      <4>3. QED
        BY <1>1, <2>1, <2>7, <4>1, <4>2 DEF AgentInv, SchemaInv, RaisesForACause
    <3>4. HealthInv'
      <4>1. ASSUME NEW r, Healthy(r) PROVE Healthy(r)'
        BY <1>1, <4>1 DEF Healthy, connectorVars, catalogVars
      <4>2. QED
        BY <1>1, <2>1, <2>6, <2>7, <4>1 DEF AgentInv, HealthInv, InHand
    <3>5. QED
      BY <1>1, <2>1, <2>5, <2>7, <3>2, <3>3, <3>4
         DEF AgentInv, Listens, connectorVars, catalogVars
  <2>8. CASE ~Fits(row)
    <3>1. RaisesForACause'
      BY <1>1, <1>3, <2>1, <2>8, MisfitsAreTheSources DEF RaisesForACause
    <3>2. QED
      BY <1>1, <2>1, <2>5, <2>8, <3>1
         DEF AgentInv, Listens, WholeInv, SchemaInv, HealthInv
  <2>9. QED
    BY <2>7, <2>8
<1>4. QED
  BY <1>2, <1>3

LEMMA CloseAnswerStep ==
  ASSUME AgentInv, CloseAnswer, UNCHANGED connectorVars
  PROVE  AgentInv'
<1>1. NoRequestYet \in Requests
  BY AgentAssumption DEF NoRequestYet
<1>2. Unknown # ValidateConnectionOp
  BY BuiltInNames DEF BuiltInOperations
<1>3. << >> \in Seq(AnswerRows) /\ << >> \in Seq(OutRows)
  OBVIOUS
<1>4. AgentType'
  BY <1>1, <1>3
     DEF CloseAnswer, connectorVars, catalogVars, AgentInv, AgentType, ConnectorTypeOK
<1>5. QED
  BY <1>2, <1>4
     DEF CloseAnswer, AgentInv, Listens, WholeInv, SchemaInv,
         RaisesForACause, HealthInv

-----------------------------------------------------------------------------
(* Every step *)

LEMMA OperatesStep ==
  ASSUME AgentInv, AgentNext, UNCHANGED connectorVars
  PROVE  AgentInv'
<1>1. CASE \E r \in Requests, error \in {"none", "ValueError", "other"} : Construct(r, error)
  BY <1>1, ConstructStep
<1>2. CASE \E fields \in BroughtFields : BringSchema(fields)
  BY <1>2, BringSchemaStep
<1>3. CASE \E cells \in SourceRows, status \in {"none", "error"} :
             PullRow([RowOf(cells) EXCEPT !.status = status])
  <2>1. PICK cells \in SourceRows, status \in {"none", "error"} :
          PullRow([RowOf(cells) EXCEPT !.status = status])
    BY <1>3
  <2>2. [RowOf(cells) EXCEPT !.status = status] \in AnswerRows
    BY DEF RowOf, AnswerRows
  <2>3. QED
    BY <2>1, <2>2, PullRowStep
<1>4. CASE \E error \in {"ValueError", "other", "auth_failed"} : PullRaises(error)
  BY <1>4, PullRaisesStep
<1>5. QED
  BY <1>1, <1>2, <1>3, <1>4, SchemaStep, StartReadStep, PullAtOnceStep, PullEndsStep, EmitStep,
     CloseAnswerStep DEF AgentNext

LEMMA SourceChangesStep ==
  ASSUME AgentInv, SourceChanges
  PROVE  AgentInv'
<1>1. ConnectorTypeOK' /\ asksSource' = asksSource
  BY ConnectorTypeChanges DEF SourceChanges, AgentInv, AgentType
<1>2. /\ UNCHANGED <<stage, request, initError, operation>> /\ UNCHANGED answerVars
      /\ contact' = IF stage \in {"idle", "done", "raised"} THEN contact
                      ELSE contact \cup {reachable'}
  BY DEF SourceChanges, AgentSees
<1>3. AgentType'
  <2>1. reachable' \in BOOLEAN
    BY <1>1 DEF ConnectorTypeOK
  <2>2. contact' \subseteq BOOLEAN
    BY <1>2, <2>1 DEF AgentInv, AgentType
  <2>3. QED
    BY <1>1, <1>2, <2>2 DEF AgentInv, AgentType, answerVars
<1>4. Listens' /\ WholeInv' /\ SchemaInv'
  BY <1>2 DEF AgentInv, Listens, WholeInv, SchemaInv,
              RaisesForACause, answerVars, InHand, FrameworkRows
<1>5. HealthInv'
  <2>1. ASSUME NEW r, Healthy(r), stage \in {"emitting", "done"}
        PROVE  Healthy(r)'
    <3>1. stage = "emitting" => reachable \in contact
      BY DEF AgentInv, Listens
    <3>2. contact' = {FALSE} => contact = {FALSE}
      BY <1>2, <2>1, <3>1
    <3>3. TRUE \in contact => TRUE \in contact'
      BY <1>2
    <3>4. QED
      BY <1>1, <1>2, <2>1, <3>2, <3>3 DEF Healthy
  <2>2. QED
    BY <1>2, <2>1 DEF AgentInv, HealthInv, InHand, answerVars
<1>6. QED
  BY <1>3, <1>4, <1>5 DEF AgentInv

LEMMA NothingOfTheAgentsStep ==
  ASSUME AgentInv, UNCHANGED <<connectorVars, agentVars>>
  PROVE  AgentInv'
<1> USE DEF connectorVars, catalogVars, agentVars, answerVars, AgentInv
<1>1. AgentType' /\ Listens'
  BY DEF AgentType, ConnectorTypeOK, Listens
<1>2. WholeInv'
  BY DEF WholeInv, InHand
<1>3. SchemaInv'
  BY DEF SchemaInv, RaisesForACause, FrameworkRows
<1>4. HealthInv'
  BY DEF HealthInv, Healthy, InHand
<1>5. QED
  BY <1>1, <1>2, <1>3, <1>4

\* The invariant of the agent's requests, which the theorems below rest on.
THEOREM AgentInvariant == Spec => []AgentInv
<1>1. Init => AgentInv
  BY AgentInitInv
<1>2. AgentInv /\ [Next]_vars => AgentInv'
  <2>1. CASE Operates
    BY <2>1, OperatesStep DEF Operates
  <2>2. CASE SourceChanges
    BY <2>2, SourceChangesStep
  <2>3. CASE Registers \/ Reads \/ UNCHANGED vars
    BY <2>3, NothingOfTheAgentsStep DEF Registers, Reads, vars
  <2>4. QED
    BY <2>1, <2>2, <2>3 DEF Next
<1>3. QED
  BY <1>1, <1>2, PTL DEF Spec

-----------------------------------------------------------------------------
(* Theorems *)

\* The answer of a metadata operation is every row it yields or one row without
\* data, whatever the operation yields, however the source fails meanwhile, and
\* that row says "error" under every schema that keeps a status.
THEOREM AnswersWhole == Spec => []AnswersAreWhole
<1>1. AgentInv => AnswersAreWhole
  <2>1. SUFFICES ASSUME AgentInv, stage = "done", ended = "failed"
                 PROVE  /\ operation.kind # "data" /\ Len(emitted) = 1 /\ ~emitted[1].data
                        /\ Keeps(schema, "status") \/ (~brought /\ ~DeclaresMeta(operation))
                             => emitted[1].status = "error"
    BY DEF AnswersAreWhole, AgentInv, WholeInv
  <2>2. PICK r \in ErrorRows : emitted = <<Parsed(r, schema)>>
    BY <2>1 DEF AgentInv, WholeInv
  <2>3. Len(emitted) = 1 /\ emitted[1] = Parsed(r, schema) /\ operation.kind # "data"
    BY <2>1, <2>2 DEF AgentInv, WholeInv
  <2>4. ~emitted[1].data
    BY <2>3 DEF Parsed, HasData, Has, ErrorRows
  <2>5. Keeps(schema, "status") => emitted[1].status = "error"
    BY <2>3 DEF Parsed, ErrorRows
  <2>6. ~brought /\ ~DeclaresMeta(operation) => Keeps(schema, "status")
    <3>1. SUFFICES ASSUME ~brought, ~DeclaresMeta(operation) PROVE Keeps(schema, "status")
      OBVIOUS
    <3>2. IsOperation(operation)
      BY <2>1, <3>1 DEF AgentInv, AgentType, SchemaInv
    <3>3. operation.kind = "metadata" /\ HasColumns(operation.fields)
      BY <2>3, <3>2, BuiltInFacts, BuiltInColumns DEF IsOperation, BuiltInOperations
    <3>4. schema = EnsureMetaField(RelaxNullability(operation.fields))
      BY <2>1, <3>1, <3>3 DEF AgentInv, SchemaInv
    <3>5. QED
      BY <3>1, <3>3, <3>4, DispatcherKeeps DEF DeclaresMeta, NoMeta
  <2>7. QED
    BY <2>3, <2>4, <2>5, <2>6
<1>2. QED
  BY <1>1, AgentInvariant, PTL

\* Under the dispatcher's own schema an error row parses, whatever columns the
\* operation declares, a _meta of its own included unless its type takes no error:
\* a metadata operation raises only for a cause of its own.
THEOREM RaisesOnlyForACause == Spec => []RaisesForACause
<1>1. AgentInv => RaisesForACause
  BY DEF AgentInv, SchemaInv
<1>2. QED
  BY <1>1, AgentInvariant, PTL

\* What the built-in health check reports is what happened during the request,
\* under the dispatcher's schema and under any other that keeps a code.
THEOREM HealthTrue == Spec => []HealthIsTrue
<1>1. AgentInv => HealthIsTrue
  <2>1. SUFFICES ASSUME AgentInv, stage = "done", operation = ValidateConnectionOp
                 PROVE  /\ /\ ~brought \/ Keeps(schema, "code")
                           /\ initError # "none" \/ (asksSource /\ contact = {FALSE})
                           => emitted[1].code = "connection_failed"
                        /\ ~brought => emitted[1].status \in {"ok", "error"}
                        /\ asksSource /\ emitted[1].status = "ok" => TRUE \in contact
    BY DEF HealthIsTrue
  <2>2. PICK r \in MetaRows : Healthy(r) /\ emitted = <<Parsed(r, schema)>>
    BY <2>1 DEF AgentInv, HealthInv
  <2>3. emitted[1] = Parsed(r, schema)
    BY <2>2
  <2>4. /\ emitted[1].code = IF Keeps(schema, "code") THEN r.code ELSE "none"
        /\ emitted[1].status = IF Keeps(schema, "status") THEN r.status ELSE "none"
    BY <2>3 DEF Parsed
  <2>5. ~brought => Keeps(schema, "status") /\ Keeps(schema, "code")
    <3>1. ValidateConnectionOp \in BuiltInOperations /\ ValidateConnectionOp.kind = "metadata"
      BY BuiltInFacts DEF BuiltInOperations
    <3>2. ~brought => schema = EnsureMetaField(RelaxNullability(operation.fields))
      BY <2>1, <3>1 DEF AgentInv, SchemaInv
    <3>3. QED
      BY <2>1, <3>1, <3>2, BuiltInColumns, DispatcherKeeps
  <2>6. r.status \in {"ok", "error"}
    BY DEF MetaRows
  <2>7. QED
    BY <2>2, <2>4, <2>5, <2>6 DEF Healthy
<1>2. QED
  BY <1>1, AgentInvariant, PTL
=============================================================================
