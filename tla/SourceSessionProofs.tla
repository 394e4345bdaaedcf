------------------------- MODULE SourceSessionProofs -------------------------
(***************************************************************************)
(* What the reader's side of a session promises, for any tree of           *)
(* namespaces, any tables, and any changes of the source and of what is    *)
(* deployed; and the types of the whole session.                           *)
(***************************************************************************)
EXTENDS AgentProofs, SequenceTheorems

-----------------------------------------------------------------------------
(* Registration *)

\* A package that was imported stays, and so does a generated module that broke.
RegisterInv ==
  /\ RegistrationTypeOK
  /\ called.argument = "name" /\ package = "exposes" /\ "package" \in imported =>
       called.outcome = "registered" \/ (generated = "broken" /\ "generated" \in imported)
  /\ called.outcome # "registered" => registered = called.before

LEMMA RegisterInitInv == Init => RegisterInv
BY RegistrationAssumption DEF Init, RegistrationInit, RegisterInv, RegistrationTypeOK, Serving

LEMMA RegisterByNameResult ==
  ASSUME RegistrationTypeOK
  PROVE  /\ RegisterByName[1] \in Serving /\ RegisterByName[2] \in Outcomes
         /\ RegisterByName[2] # "registered" => RegisterByName[1] = registered
         /\ package = "exposes" /\ generated # "broken" => RegisterByName[2] = "registered"
<1> DEFINE error == IF GetRegisterFunction # "found" THEN GetRegisterFunction
                      ELSE CallRegisterFunction
<1>1. /\ GetRegisterFunction \in {"found", "ValueError", "ImportError"}
      /\ FindConnectorClass \in {"found", "ValueError", "ImportError"}
      /\ CallRegisterFunction \in {"registered", "ImportError", "other"}
  BY DEF GetRegisterFunction, FindConnectorClass, CallRegisterFunction
<1>2. package = "exposes" => FindConnectorClass = "found"
  BY DEF FindConnectorClass
<1>3. package = "exposes" /\ generated # "broken" => error \in {"registered", "ImportError"}
  BY DEF GetRegisterFunction, CallRegisterFunction, RegistrationTypeOK, Generated
<1>4. error \in {"registered", "ValueError", "ImportError", "other"}
  BY <1>1
<1> HIDE DEF error
<1>5. RegisterByName =
        CASE error = "registered" -> <<"generated", "registered">>
          [] FallsBack(error) /\ FindConnectorClass = "found" -> <<"wrapped", "registered">>
          [] FallsBack(error) /\ FindConnectorClass # "found" -> <<registered, FindConnectorClass>>
          [] OTHER -> <<registered, error>>
  BY DEF RegisterByName, error
<1>6. CASE error = "registered"
  <2>1. RegisterByName = <<"generated", "registered">>
    BY <1>5, <1>6 DEF FallsBack
  <2>2. QED
    BY <2>1 DEF Serving, Outcomes
<1>7. CASE error = "ImportError" /\ FindConnectorClass = "found"
  <2>1. RegisterByName = <<"wrapped", "registered">>
    BY <1>5, <1>7 DEF FallsBack
  <2>2. QED
    BY <2>1 DEF Serving, Outcomes
<1>8. CASE error = "ImportError" /\ FindConnectorClass # "found"
  <2>1. RegisterByName = <<registered, FindConnectorClass>>
    BY <1>5, <1>8 DEF FallsBack
  <2>2. QED
    BY <1>1, <1>2, <1>8, <2>1 DEF Serving, Outcomes, RegistrationTypeOK
<1>9. CASE error \in {"ValueError", "other"}
  <2>1. RegisterByName = <<registered, error>>
    BY <1>5, <1>9 DEF FallsBack
  <2>2. QED
    BY <1>3, <1>9, <2>1 DEF Serving, Outcomes, RegistrationTypeOK
<1>10. QED
  BY <1>4, <1>6, <1>7, <1>8, <1>9

LEMMA RegisterStep ==
  ASSUME RegisterInv, NEW argument \in Arguments, Register(argument)
  PROVE  RegisterInv'
<1>1. RegistrationTypeOK /\ UNCHANGED <<package, generated, deployments>>
  BY DEF RegisterInv, Register
<1>2. PICK result : /\ Called(argument, result)
                    /\ result[1] \in Serving /\ result[2] \in Outcomes
                    /\ result[2] # "registered" => result[1] = registered
                    /\ argument = "name" /\ package = "exposes" /\ generated # "broken" =>
                         result[2] = "registered"
  <2>1. CASE argument = "name"
    BY <1>1, <2>1, RegisterByNameResult DEF Register
  <2>2. CASE argument = "connector"
    BY <2>2 DEF Register, RegisterConnector, Serving, Outcomes
  <2>3. CASE argument = "data_source"
    BY <2>3 DEF Register, RegisterDataSource, Serving, Outcomes
  <2>4. CASE argument = "neither"
    BY <1>1, <2>4 DEF Register, RegistrationTypeOK, Outcomes
  <2>5. QED
    BY <2>1, <2>2, <2>3, <2>4 DEF Arguments
<1>3. imported' \subseteq {"package", "generated"}
      /\ (argument = "name" /\ package = "exposes" /\ generated = "broken" =>
            "generated" \in imported')
  BY <1>1 DEF Register, RegistrationTypeOK
<1>4. called' = [argument |-> argument, outcome |-> result[2], before |-> registered]
      /\ registered' = result[1]
  BY <1>2 DEF Called
<1>5. QED
  BY <1>1, <1>2, <1>3, <1>4 DEF RegisterInv, RegistrationTypeOK

LEMMA DeployStep ==
  ASSUME RegisterInv, Deploy
  PROVE  RegisterInv'
BY RegistrationAssumption DEF RegisterInv, RegistrationTypeOK, Deploy

\* What was imported stays imported and the package that was imported stays as
\* it was found, so the outcome of the last call still fits what is deployed.
THEOREM RegisterInvariant == Spec => []RegisterInv
<1>1. RegisterInv /\ [Next]_vars => RegisterInv'
  <2>1. CASE Registers
    BY <2>1, RegisterStep, DeployStep DEF Registers
  <2>2. CASE Reads \/ Operates \/ SourceChanges \/ UNCHANGED vars
    BY <2>2
       DEF Reads, Operates, SourceChanges, vars, registrationVars, RegisterInv, RegistrationTypeOK
  <2>3. QED
    BY <2>1, <2>2 DEF Next
<1>2. QED
  BY <1>1, RegisterInitInv, PTL DEF Spec

\* A package that exposes a connector registers by its name, whatever became of
\* the generated module, and a call that raises changes nothing.
THEOREM RegistersOrKeeps == Spec => []RegisterFallsBack
<1>1. RegisterInv => RegisterFallsBack
  BY DEF RegisterInv, RegisterFallsBack
<1>2. QED
  BY <1>1, RegisterInvariant, PTL

-----------------------------------------------------------------------------
(* Prefixes of a namespace *)

LEMMA Prefixes ==
  ASSUME NEW ns \in Seq(STRING), NEW k \in 0 .. Len(ns)
  PROVE  /\ SubSeq(ns, 1, k) \in Seq(STRING) /\ Len(SubSeq(ns, 1, k)) = k
         /\ \A j \in 0 .. k : SubSeq(SubSeq(ns, 1, k), 1, j) = SubSeq(ns, 1, j)
<1>1. /\ SubSeq(ns, 1, k) \in Seq(STRING) /\ Len(SubSeq(ns, 1, k)) = k
      /\ \A i \in 1 .. k : SubSeq(ns, 1, k)[i] = ns[i]
  BY SubSeqProperties
<1>2. ASSUME NEW j \in 0 .. k
      PROVE  SubSeq(SubSeq(ns, 1, k), 1, j) = SubSeq(ns, 1, j)
  <2> DEFINE p == SubSeq(ns, 1, k)
             left2 == SubSeq(p, 1, j)
             right == SubSeq(ns, 1, j)
  <2>1. /\ left2 \in Seq(STRING) /\ Len(left2) = j
        /\ \A i \in 1 .. j : left2[i] = p[i]
    BY <1>1, SubSeqProperties
  <2>2. /\ right \in Seq(STRING) /\ Len(right) = j
        /\ \A i \in 1 .. j : right[i] = ns[i]
    BY SubSeqProperties
  <2>3. \A i \in 1 .. j : left2[i] = right[i]
    BY <1>1, <2>1, <2>2
  <2> HIDE DEF left2, right
  <2>4. QED
    BY <2>1, <2>2, <2>3 DEF left2, right
<1>3. QED
  BY <1>1, <1>2

LEMMA ParentOfPrefix ==
  ASSUME NEW ns \in Seq(STRING), NEW k \in 1 .. Len(ns)
  PROVE  SubSeq(ns, 1, k) # Root /\ Parent(SubSeq(ns, 1, k)) = SubSeq(ns, 1, k - 1)
<1>1. Len(SubSeq(ns, 1, k)) = k /\ k - 1 \in 0 .. k /\ k \in 0 .. Len(ns)
  BY Prefixes
<1>2. QED
  BY <1>1, Prefixes DEF Parent, Root

LEMMA AboveOfParent ==
  ASSUME NEW ns \in Seq(STRING), ns # Root
  PROVE  Above(ns) \subseteq Above(Parent(ns)) \cup {ns}
<1>1. Len(ns) \in Nat \ {0} /\ SubSeq(ns, 1, Len(ns)) = ns
  BY SubSeqFull DEF Root
<1>2. ASSUME NEW k \in 0 .. Len(ns) - 1 PROVE SubSeq(ns, 1, k) \in Above(Parent(ns))
  <2>1. /\ Len(Parent(ns)) = Len(ns) - 1
        /\ SubSeq(Parent(ns), 1, k) = SubSeq(ns, 1, k)
    BY <1>1, Prefixes DEF Parent
  <2>2. QED
    BY <2>1 DEF Above
<1>3. \A k \in 0 .. Len(ns) : k \in 0 .. Len(ns) - 1 \/ k = Len(ns)
  <2>1. Len(ns) \in Nat
    BY <1>1
  <2> HIDE <1>1
  <2>2. QED
    BY <2>1
<1>4. QED
  BY <1>1, <1>2, <1>3 DEF Above

LEMMA AboveIsTransitive ==
  ASSUME NEW ns \in Seq(STRING), NEW m \in Above(ns)
  PROVE  Above(m) \subseteq Above(ns)
<1>1. PICK k \in 0 .. Len(ns) : m = SubSeq(ns, 1, k)
  BY DEF Above
<1>2. Len(m) = k /\ \A j \in 0 .. k : SubSeq(m, 1, j) = SubSeq(ns, 1, j)
  BY <1>1, Prefixes
<1>3. \A j \in 0 .. k : j \in 0 .. Len(ns)
  OBVIOUS
<1>4. QED
  BY <1>2, <1>3 DEF Above

-----------------------------------------------------------------------------
(* The tree of namespaces stays a tree. *)

TreeInv ==
  /\ ConnectorTypeOK
  /\ Root \in spaces /\ \A ns \in spaces : Above(ns) \subseteq spaces
  /\ ~hierarchical => spaces = {Root}

LEMMA TreeChanges ==
  ASSUME TreeInv,
         \/ ConnectionChanges \/ CatalogChanges
         \/ \E o \in Offer : OfferChanges(o)
  PROVE  TreeInv'
<1>1. ConnectorTypeOK' /\ hierarchical' = hierarchical
  BY ConnectorTypeChanges DEF TreeInv
<1>2. spaces \subseteq Seq(STRING) /\ Namespace \subseteq Seq(STRING)
  BY ConnectorAssumption DEF TreeInv, ConnectorTypeOK
<1>3. CASE UNCHANGED spaces
  BY <1>1, <1>3 DEF TreeInv
<1>4. ASSUME NEW ns \in Namespace, NamespaceAppears(ns)
      PROVE  TreeInv'
  <2>1. /\ ns # Root /\ Parent(ns) \in spaces /\ spaces' = spaces \cup {ns} /\ hierarchical
    BY <1>4 DEF NamespaceAppears, TreeInv
  <2>2. Above(ns) \subseteq spaces \cup {ns}
    BY <1>2, <2>1, AboveOfParent DEF TreeInv
  <2>3. QED
    BY <1>1, <2>1, <2>2 DEF TreeInv
<1>5. ASSUME NEW ns \in Namespace, NamespaceDisappears(ns)
      PROVE  TreeInv'
  <2> DEFINE under == {m \in spaces : ns \in Above(m)}
  <2>1. ns \in spaces \ {Root} /\ spaces' = spaces \ under
    BY <1>5 DEF NamespaceDisappears
  <2>2. Root \notin under
    <3>1. Above(Root) = {Root}
      <4>1. Len(Root) = 0 /\ Root \in Seq(STRING)
        BY DEF Root
      <4>2. SubSeq(Root, 1, 0) = Root
        BY SubSeqEmpty DEF Root
      <4>3. 0 .. 0 = {0}
        OBVIOUS
      <4>4. QED
        BY <4>1, <4>2, <4>3 DEF Above
    <3>2. QED
      BY <2>1, <3>1
  <2>3. ASSUME NEW m \in spaces', NEW a \in Above(m) PROVE a \in spaces'
    <3>1. a \in spaces
      BY <2>1, <2>3 DEF TreeInv
    <3>2. ns \in Above(a) => ns \in Above(m)
      BY <1>2, <2>1, AboveIsTransitive
    <3>3. QED
      BY <2>1, <3>1, <3>2
  <2>4. hierarchical
    BY <2>1 DEF TreeInv
  <2>5. QED
    BY <1>1, <2>1, <2>2, <2>3, <2>4 DEF TreeInv
<1>6. QED
  BY <1>3, <1>4, <1>5
     DEF ConnectionChanges, CatalogChanges, OfferChanges, TableAppears, TableDisappears, catalogVars

-----------------------------------------------------------------------------
(* Sets sorted *)

LEMMA SortedIsTheSet ==
  ASSUME NEW set, IsFiniteSet(set)
  PROVE  /\ Cardinality(set) \in Nat
         /\ Sorted(set) \in [1 .. Cardinality(set) -> set]
         /\ {Sorted(set)[i] : i \in DOMAIN Sorted(set)} = set
<1>1. Cardinality(set) \in Nat /\ ExistsBijection(1 .. Cardinality(set), set)
  BY FS_CardinalityType
<1>2. \E s \in [1 .. Cardinality(set) -> set] : {s[i] : i \in DOMAIN s} = set
  BY <1>1 DEF ExistsBijection, Bijection, Injection, Surjection
<1>3. QED
  BY <1>1, <1>2, Zenon DEF Sorted

LEMMA RowsOfNothing ==
  ASSUME NEW n \in Nat, NEW rows, rows = [i \in 1 .. n |-> rows[i]]
  PROVE  << >> \o rows = rows
<1>1. rows \in Seq({rows[i] : i \in 1 .. n})
  BY SeqOfFunction
<1> DEFINE S == {rows[i] : i \in 1 .. n}
<1> HIDE DEF S
<1>2. \A s \in Seq(S) : << >> \o s = s
  OBVIOUS
<1>3. QED
  BY <1>1, <1>2 DEF S

-----------------------------------------------------------------------------
(* The invariant of the reader *)

Here == OrElse(ask.option, Root)
Complete == phase = "answered" \/ (phase = "reading" /\ left = 0)

\* The first n rows of a metadata answer.
MetadataRows(n) ==
  /\ answer \in Seq({[table |-> TableNames[i]] : i \in 1 .. Len(TableNames)}) /\ Len(answer) = n
  /\ \A i \in 1 .. n : answer[i].table = TableNames[i]

RequestInv ==
  /\ phase \in {"idle", "opened", "typed", "reading", "answered", "failed"}
  /\ walk \in {"none", "on", "over"} /\ left \in 0 .. 2 /\ at \in Nat
  /\ walk = "over" => phase = "idle"
  /\ walk = "none" /\ phase # "idle" => ask \in Ask
  /\ walk = "on" /\ phase # "idle" =>
       \E table \in {NAMESPACES_TABLE, TABLES_TABLE}, ns \in Namespace :
         ask = WalkRequest(table, ns)
  /\ phase \in {"opened", "typed"} => answer = << >> /\ at = 0
  /\ phase = "reading" /\ ask.table \in VIRTUAL_TABLES =>
       /\ left \in {0, 1}
       /\ left = 1 /\ ask.table # METADATA_TABLE => answer = << >>

MetadataInv ==
  /\ phase = "reading" /\ left = 1 /\ ask.table = METADATA_TABLE =>
       at <= Len(TableNames) /\ MetadataRows(at)
  /\ Complete /\ ask.table = METADATA_TABLE => MetadataRows(Len(TableNames))

\* A table that was there throughout is found, or a request to come finds it,
\* or one finds the next namespace on the way to it.
Covered(p) ==
  \/ p \in found
  \/ <<TABLES_TABLE, p[1]>> \in todo
  \/ \E k \in 0 .. Len(p[1]) - 1 : <<NAMESPACES_TABLE, SubSeq(p[1], 1, k)>> \in todo

\* An answer names what is there, and nothing that was never there.
TablesAnswered ==
  /\ \A i \in DOMAIN answer : <<answer[i].namespace, answer[i].table>> \in seen
  /\ \A p \in steady : p[1] = Here =>
       \E i \in DOMAIN answer : p = <<answer[i].namespace, answer[i].table>>
NamespacesAnswered ==
  /\ \A i \in DOMAIN answer : answer[i].namespace \in Namespace
  /\ \A p \in steady : \A k \in 0 .. Len(p[1]) - 1 : SubSeq(p[1], 1, k) = Here =>
       \E i \in DOMAIN answer : answer[i].namespace = SubSeq(p[1], 1, k + 1)

WalkInv ==
  /\ found \subseteq seen /\ steady \subseteq seen /\ seen \subseteq Namespace \X Table
  /\ todo \subseteq {NAMESPACES_TABLE, TABLES_TABLE} \X Namespace
  /\ walk = "on" => steady \subseteq Present /\ Present \subseteq seen
  /\ walk = "on" => \A p \in steady : Covered(p)
  /\ walk = "over" => steady \subseteq found
  /\ walk = "on" /\ Complete /\ ask.table = TABLES_TABLE => TablesAnswered
  /\ walk = "on" /\ Complete /\ ask.table = NAMESPACES_TABLE => NamespacesAnswered

ReaderInv == TreeInv /\ RequestInv /\ MetadataInv /\ WalkInv

LEMMA TreeKeeps ==
  ASSUME TreeInv, UNCHANGED connectorVars PROVE TreeInv'
BY DEF TreeInv, ConnectorTypeOK, connectorVars, catalogVars

LEMMA WalkKeeps ==
  ASSUME WalkInv, UNCHANGED connectorVars, UNCHANGED walkVars, ~Complete'
  PROVE  WalkInv'
BY DEF WalkInv, Covered, Present, connectorVars, catalogVars, walkVars

LEMMA ReaderInitInv == Init => ReaderInv
<1> SUFFICES ASSUME Init PROVE ReaderInv
  OBVIOUS
<1>1. TreeInv
  BY ConnectorTypeInit DEF Init, ConnectorInit, TreeInv
<1>2. RequestInv /\ MetadataInv
  BY DEF Init, DiscoveryInit, RequestInv, MetadataInv, Complete
<1>3. Present \subseteq Namespace \X Table
  BY <1>1 DEF Present, TreeInv, ConnectorTypeOK
<1>4. ASSUME NEW p \in Present PROVE Covered(p)
  <2>1. p[1] \in Seq(STRING)
    BY <1>3, ConnectorAssumption
  <2>2. CASE p[1] = Root
    BY <2>2 DEF Covered, Init, DiscoveryInit
  <2>3. CASE p[1] # Root
    <3>1. Len(p[1]) \in Nat \ {0}
      BY <2>1, <2>3 DEF Root
    <3>2. SubSeq(p[1], 1, 0) = Root /\ 0 \in 0 .. Len(p[1]) - 1
      BY <3>1, SubSeqEmpty DEF Root
    <3>3. QED
      BY <3>2 DEF Covered, Init, DiscoveryInit
  <2>4. QED
    BY <2>2, <2>3
<1>5. WalkInv
  BY <1>3, <1>4, ConnectorAssumption DEF Init, DiscoveryInit, WalkInv, Complete
<1>6. QED
  BY <1>1, <1>2, <1>5 DEF ReaderInv

-----------------------------------------------------------------------------
(* The steps of a request *)

LEMMA OpenStep ==
  ASSUME ReaderInv, NEW r, NEW importable, Open(r, importable), UNCHANGED connectorVars,
         UNCHANGED walkVars, walk # "over", walk = "none" => r \in Ask,
         walk = "on" => \E table \in {NAMESPACES_TABLE, TABLES_TABLE}, ns \in Namespace :
                          r = WalkRequest(table, ns)
  PROVE  ReaderInv'
<1>1. phase' \in {"opened", "failed"} /\ ask' = r /\ left' = 0 /\ at' = 0 /\ answer' = << >>
  BY DEF Open
<1>2. WalkInv'
  BY <1>1, WalkKeeps DEF ReaderInv, Complete
<1>3. walk = "on" => \E table \in {NAMESPACES_TABLE, TABLES_TABLE}, ns \in Namespace :
                       ask' = WalkRequest(table, ns)'
  BY <1>1 DEF WalkRequest, connectorVars, catalogVars
<1>4. RequestInv' /\ MetadataInv'
  BY <1>1, <1>3 DEF ReaderInv, RequestInv, MetadataInv, Complete, walkVars
<1>5. QED
  BY <1>2, <1>4, TreeKeeps DEF ReaderInv

\* A step that leaves the rows and the request alone and completes nothing.
LEMMA QuietStep ==
  ASSUME ReaderInv, UNCHANGED <<ask, connectorVars>>, UNCHANGED walkVars, walk # "over",
         phase # "idle", phase' \in {"idle", "opened", "typed", "reading", "failed"},
         left' \in 0 .. 2, at' \in Nat, ~Complete',
         phase' \in {"opened", "typed"} => answer' = << >> /\ at' = 0,
         phase' = "reading" /\ ask.table \in VIRTUAL_TABLES =>
           /\ left' = 1
           /\ ask.table # METADATA_TABLE => answer' = << >>
           /\ ask.table = METADATA_TABLE => at' <= Len(TableNames) /\ MetadataRows(at)'
  PROVE  ReaderInv'
<1>1. WalkInv'
  BY WalkKeeps DEF ReaderInv
<1>2. \A table, ns : WalkRequest(table, ns)' = WalkRequest(table, ns)
  BY DEF WalkRequest, connectorVars, catalogVars
<1>3. RequestInv'
  BY <1>2 DEF ReaderInv, RequestInv, walkVars
<1>4. MetadataInv'
  BY DEF MetadataInv, TableNames, VIRTUAL_TABLES
<1>5. QED
  BY <1>1, <1>3, <1>4, TreeKeeps DEF ReaderInv

\* The names a metadata request brings are a sequence: the walk brings none.
LEMMA MetadataNames ==
  ASSUME ReaderInv, phase # "idle", ask.table = METADATA_TABLE
  PROVE  TableNames \in Seq(STRING) /\ walk = "none"
<1>1. walk # "on"
  <2>1. \A table \in {NAMESPACES_TABLE, TABLES_TABLE} : \A ns : WalkRequest(table, ns).table # METADATA_TABLE
    BY DEF WalkRequest, Request, METADATA_TABLE, NAMESPACES_TABLE, TABLES_TABLE
  <2>2. QED
    BY <2>1 DEF ReaderInv, RequestInv
<1>2. walk = "none" /\ ask \in Ask
  BY <1>1 DEF ReaderInv, RequestInv
<1>3. ask.option.is = "given" => ask.option.value \in Seq(STRING)
  BY <1>2, DiscoveryAssumption
<1>4. << >> \in Seq(STRING)
  OBVIOUS
<1>5. QED
  BY <1>2, <1>3, <1>4, Zenon DEF TableNames, OrElse

LEMMA WalkRequestKeeps ==
  ASSUME UNCHANGED connectorVars
  PROVE  \A table, ns : WalkRequest(table, ns)' = WalkRequest(table, ns)
BY DEF WalkRequest, connectorVars, catalogVars

LEMMA NotTheWalks ==
  ASSUME WalkInv, UNCHANGED connectorVars, UNCHANGED walkVars,
         ask'.table \notin {NAMESPACES_TABLE, TABLES_TABLE}
  PROVE  WalkInv'
BY DEF WalkInv, Covered, Present, connectorVars, catalogVars, walkVars

LEMMA ServeQuietly ==
  ASSUME ReaderInv, ResolveSchema \/ Plan, UNCHANGED connectorVars, UNCHANGED walkVars
  PROVE  ReaderInv'
<1>1. UNCHANGED <<ask, at, answer>> /\ phase \in {"opened", "typed"} /\ answer = << >> /\ at = 0
  BY DEF ResolveSchema, Plan, Fails, ReaderInv, RequestInv
<1>2. walk # "over"
  BY <1>1 DEF ReaderInv, RequestInv
<1>3. CASE ResolveSchema
  BY <1>1, <1>2, <1>3, QuietStep
     DEF ResolveSchema, Fails, Complete, ReaderInv, RequestInv
<1>4. CASE Plan
  <2>1. phase' = "reading" /\ left' \in {1, 2}
    BY <1>4 DEF Plan, MayPartition, ReaderInv, TreeInv, ConnectorTypeOK
  <2>2. ask.table \in VIRTUAL_TABLES => left' = 1
    BY <1>4 DEF Plan, MayPartition
  <2>3. ask.table = METADATA_TABLE => at' <= Len(TableNames) /\ MetadataRows(at)'
    <3>1. SUFFICES ASSUME ask.table = METADATA_TABLE
                   PROVE  0 <= Len(TableNames) /\ MetadataRows(0)
      BY <1>1 DEF MetadataRows, TableNames
    <3>2. TableNames \in Seq(STRING)
      BY <3>1, MetadataNames, <1>1
    <3>3. Len(TableNames) \in Nat
      BY <3>2
    <3>4. QED
      BY <1>1, <3>3 DEF MetadataRows
  <2>4. QED
    BY <1>1, <1>2, <2>1, <2>2, <2>3, QuietStep DEF Complete, ReaderInv, RequestInv
<1>5. QED
  BY <1>3, <1>4

LEMMA ReadMetadataStep ==
  ASSUME ReaderInv, ReadTableMetadata, UNCHANGED connectorVars, UNCHANGED walkVars
  PROVE  ReaderInv'
<1>1. phase = "reading" /\ left = 1 /\ ask.table = METADATA_TABLE /\ ask' = ask
  BY DEF ReadTableMetadata, Reading, ReaderInv, RequestInv, VIRTUAL_TABLES, Fails, Rows
<1>2. /\ TableNames \in Seq(STRING) /\ Len(TableNames) \in Nat /\ DOMAIN TableNames = 1 .. Len(TableNames)
      /\ TableNames' = TableNames
  BY <1>1, MetadataNames DEF TableNames
<1>3. at \in Nat /\ at <= Len(TableNames) /\ MetadataRows(at) /\ walk # "over"
  BY <1>1 DEF ReaderInv, RequestInv, MetadataInv
<1>4. CASE Fails
  BY <1>1, <1>3, <1>4, QuietStep DEF Fails, Complete, ReaderInv, RequestInv
<1>5. CASE at = Len(TableNames) /\ at' = 0 /\ Rows(<< >>)
  <2>1. answer' = answer /\ left' = 0 /\ phase' = phase
    BY <1>1, <1>3, <1>5 DEF Rows, MetadataRows
  <2>2. MetadataRows(Len(TableNames))'
    BY <1>2, <1>3, <1>5, <2>1 DEF MetadataRows
  <2>3. MetadataInv'
    BY <1>2, <2>1, <2>2 DEF MetadataInv
  <2>4. RequestInv'
    BY <1>1, <1>5, <2>1, WalkRequestKeeps DEF ReaderInv, RequestInv, walkVars
  <2>5. WalkInv'
    BY <1>1, NotTheWalks DEF ReaderInv, METADATA_TABLE, NAMESPACES_TABLE, TABLES_TABLE
  <2>6. QED
    BY <2>3, <2>4, <2>5, TreeKeeps DEF ReaderInv
<1>6. CASE /\ at # Len(TableNames) /\ at' = at + 1
           /\ answer' = Append(answer, [table |-> TableNames[at']])
           /\ UNCHANGED <<ask, phase, left>>
  <2>1. at' = at + 1 /\ at' \in 1 .. Len(TableNames) /\ phase' = "reading" /\ left' = 1
    <3>1. at' = at + 1 /\ at # Len(TableNames) /\ phase' = "reading" /\ left' = 1
      BY <1>1, <1>6
    <3>2. at \in Nat /\ at <= Len(TableNames) /\ Len(TableNames) \in Nat
      BY <1>2, <1>3
    <3> HIDE <1>6
    <3>3. QED
      BY <3>1, <3>2
  <2> DEFINE S == {[table |-> TableNames[i]] : i \in 1 .. Len(TableNames)}
             row == [table |-> TableNames[at']]
  <2>2. row \in S /\ row.table = TableNames[at']
    BY <2>1
  <2>3. answer \in Seq(S) /\ Len(answer) = at
    BY <1>3 DEF MetadataRows
  <2>4. answer' = Append(answer, row)
    BY <1>6
  <2> HIDE DEF S, row
  <2>5. /\ answer' \in Seq(S) /\ Len(answer') = at'
        /\ answer'[at'] = row /\ \A i \in 1 .. at : answer'[i] = answer[i]
    BY <1>3, <1>6, <2>2, <2>3, <2>4
  <2>6. \A i \in 1 .. at' : i \in 1 .. at \/ i = at'
    BY <1>3, <1>6
  <2>7. \A i \in 1 .. at' : answer'[i].table = TableNames[i]
    BY <1>3, <2>2, <2>5, <2>6 DEF MetadataRows
  <2>8. MetadataRows(at)'
    BY <1>2, <2>5, <2>7 DEF MetadataRows, S
  <2>9. ~Complete' /\ at' \in Nat /\ at' <= Len(TableNames)
    BY <1>2, <2>1 DEF Complete
  <2>10. QED
    BY <1>1, <1>3, <2>1, <2>8, <2>9, QuietStep
<1>7. QED
  BY <1>1, <1>4, <1>5, <1>6 DEF ReadTableMetadata

\* The one partition of a walk's table is read: its rows are what is there now.
LEMMA AnswerStep ==
  ASSUME ReaderInv, phase = "reading", left = 1, ask.table \in {NAMESPACES_TABLE, TABLES_TABLE},
         UNCHANGED <<ask, at>>, UNCHANGED connectorVars, UNCHANGED walkVars,
         phase' = "reading", left' = 0,
         walk = "on" /\ ask.table = TABLES_TABLE => TablesAnswered',
         walk = "on" /\ ask.table = NAMESPACES_TABLE => NamespacesAnswered'
  PROVE  ReaderInv'
<1>1. RequestInv'
  BY WalkRequestKeeps DEF ReaderInv, RequestInv, walkVars
<1>2. MetadataInv'
  <2>1. ask'.table # METADATA_TABLE
    BY DEF METADATA_TABLE, NAMESPACES_TABLE, TABLES_TABLE
  <2>2. QED
    BY <2>1 DEF MetadataInv
<1>3. WalkInv'
  <2>1. WalkInv /\ Present' = Present /\ UNCHANGED <<walk, todo, found, steady, seen>>
    BY DEF ReaderInv, Present, connectorVars, catalogVars, walkVars
  <2>2. \A p : Covered(p)' = Covered(p)
    BY <2>1 DEF Covered
  <2>3. QED
    BY <2>1, <2>2 DEF WalkInv
<1>4. QED
  BY <1>1, <1>2, <1>3, TreeKeeps DEF ReaderInv

\* What the walk asks for, and where.
LEMMA WalkAsksHere ==
  ASSUME ReaderInv, walk = "on", phase # "idle"
  PROVE  Here \in Namespace /\ (~hierarchical => Here = Root)
<1>1. PICK table \in {NAMESPACES_TABLE, TABLES_TABLE}, ns \in Namespace : ask = WalkRequest(table, ns)
  BY DEF ReaderInv, RequestInv
<1>2. Here = IF hierarchical THEN ns ELSE Root
  BY <1>1 DEF Here, WalkRequest, Request, OrElse, Given, Absent
<1>3. QED
  BY <1>2, ConnectorAssumption

LEMMA ReadNamespacesStep ==
  ASSUME ReaderInv, ReadNamespaces, UNCHANGED connectorVars, UNCHANGED walkVars
  PROVE  ReaderInv'
<1>1. /\ phase = "reading" /\ left = 1 /\ ask.table = NAMESPACES_TABLE /\ ask' = ask
      /\ answer = << >> /\ walk # "over"
  BY DEF ReadNamespaces, Reading, ReaderInv, RequestInv, VIRTUAL_TABLES, METADATA_TABLE,
         NAMESPACES_TABLE, Fails, Rows
<1>2. CASE Fails
  BY <1>1, <1>2, QuietStep DEF Fails, Complete, ReaderInv, RequestInv
<1> DEFINE below == ListNamespaces(Here)
           s == Sorted(below)
<1>3. CASE hierarchical /\ UNCHANGED at /\ Rows([i \in DOMAIN s |-> [namespace |-> s[i]]])
  <2>1. below \subseteq Namespace /\ IsFiniteSet(below)
    BY ConnectorAssumption, FS_Subset
       DEF ListNamespaces, ReaderInv, TreeInv, ConnectorTypeOK
  <2>2. /\ Cardinality(below) \in Nat /\ DOMAIN s = 1 .. Cardinality(below)
        /\ {s[i] : i \in DOMAIN s} = below
    BY <2>1, SortedIsTheSet
  <2> DEFINE rows == [i \in DOMAIN s |-> [namespace |-> s[i]]]
  <2>3. << >> \o rows = rows
    BY <2>2, RowsOfNothing
  <2>4. phase' = "reading" /\ left' = 0 /\ answer' = rows /\ at' = at
    BY <1>1, <1>3, <2>3 DEF Rows
  <2>5. ASSUME walk = "on" PROVE NamespacesAnswered'
    <3>1. \A i \in DOMAIN answer' : answer'[i].namespace \in Namespace
      BY <2>1, <2>2, <2>4
    <3>2. ASSUME NEW p \in steady, NEW k \in 0 .. Len(p[1]) - 1, SubSeq(p[1], 1, k) = Here
          PROVE  \E i \in DOMAIN answer' : answer'[i].namespace = SubSeq(p[1], 1, k + 1)
      <4>1. p[1] \in spaces /\ p[1] \in Seq(STRING)
        BY <2>5, ConnectorAssumption
           DEF ReaderInv, WalkInv, Present, TreeInv, ConnectorTypeOK
      <4>2. k + 1 \in 1 .. Len(p[1]) /\ k + 1 \in 0 .. Len(p[1]) /\ k + 1 - 1 = k
        BY <4>1
      <4>3. SubSeq(p[1], 1, k + 1) \in spaces
        BY <4>1, <4>2 DEF ReaderInv, TreeInv, Above
      <4>4. /\ SubSeq(p[1], 1, k + 1) # Root
            /\ Parent(SubSeq(p[1], 1, k + 1)) = Here
        <5>1. /\ SubSeq(p[1], 1, k + 1) # Root
              /\ Parent(SubSeq(p[1], 1, k + 1)) = SubSeq(p[1], 1, k + 1 - 1)
          BY <4>1, <4>2, ParentOfPrefix
        <5>2. QED
          BY <3>2, <4>2, <5>1
      <4>5. SubSeq(p[1], 1, k + 1) \in below
        BY <4>3, <4>4 DEF ListNamespaces
      <4>6. QED
        BY <2>2, <2>4, <4>5
    <3>3. steady' = steady /\ Here' = Here
      BY <1>1 DEF walkVars, Here
    <3>4. QED
      BY <3>1, <3>2, <3>3 DEF NamespacesAnswered
  <2>6. QED
    BY <1>1, <2>4, <2>5, AnswerStep DEF NAMESPACES_TABLE, TABLES_TABLE
<1>4. CASE ~hierarchical /\ Rows(<< >>) /\ UNCHANGED at
  <2>1. phase' = "reading" /\ left' = 0 /\ answer' = << >>
    BY <1>1, <1>4 DEF Rows
  <2>2. ASSUME walk = "on", NEW p \in steady PROVE 0 .. Len(p[1]) - 1 = {}
    <3>1. p[1] = Root
      BY <1>4, <2>2 DEF ReaderInv, WalkInv, Present, TreeInv
    <3>2. QED
      BY <3>1 DEF Root
  <2>3. ASSUME walk = "on" PROVE NamespacesAnswered'
    <3>1. DOMAIN answer' = {} /\ steady' = steady
      BY <2>1 DEF walkVars
    <3>2. \A p \in steady : 0 .. Len(p[1]) - 1 = {}
      BY <2>2, <2>3
    <3>3. QED
      BY <3>1, <3>2, Zenon DEF NamespacesAnswered
  <2>4. QED
    BY <1>1, <1>4, <2>1, <2>3, AnswerStep DEF NAMESPACES_TABLE, TABLES_TABLE
<1>5. QED
  BY <1>2, <1>3, <1>4 DEF ReadNamespaces, Here

LEMMA ReadTablesStep ==
  ASSUME ReaderInv, ReadTables, UNCHANGED connectorVars, UNCHANGED walkVars
  PROVE  ReaderInv'
<1>1. /\ phase = "reading" /\ left = 1 /\ ask.table = TABLES_TABLE /\ ask' = ask
      /\ answer = << >> /\ walk # "over"
  BY DEF ReadTables, Reading, ReaderInv, RequestInv, VIRTUAL_TABLES, METADATA_TABLE,
         TABLES_TABLE, Fails, Rows
<1>2. CASE Fails
  BY <1>1, <1>2, QuietStep DEF Fails, Complete, ReaderInv, RequestInv
<1> DEFINE tables == IF hierarchical THEN ListTablesInNamespace(Here) ELSE ListTables
           s == Sorted(tables)
<1>3. CASE UNCHANGED at /\ Rows([i \in DOMAIN s |-> [namespace |-> Here, table |-> s[i]]])
  <2>1. tables \subseteq Table /\ IsFiniteSet(tables)
    BY ConnectorAssumption, FS_Subset
       DEF ListTablesInNamespace, ListTables, ReaderInv, TreeInv, ConnectorTypeOK
  <2>2. /\ Cardinality(tables) \in Nat /\ DOMAIN s = 1 .. Cardinality(tables)
        /\ {s[i] : i \in DOMAIN s} = tables
    BY <2>1, SortedIsTheSet
  <2> DEFINE rows == [i \in DOMAIN s |-> [namespace |-> Here, table |-> s[i]]]
  <2>3. << >> \o rows = rows
    BY <2>2, RowsOfNothing
  <2>4. phase' = "reading" /\ left' = 0 /\ answer' = rows /\ at' = at
    BY <1>1, <1>3, <2>3 DEF Rows
  <2>5. ASSUME walk = "on" PROVE TablesAnswered'
    <3>1. Here \in Namespace /\ (~hierarchical => Here = Root)
      BY <1>1, <2>5, WalkAsksHere
    <3>2. \A t : t \in tables <=> <<Here, t>> \in Present
      <4>1. CASE hierarchical
        BY <2>1, <4>1 DEF ListTablesInNamespace, Present
      <4>2. CASE ~hierarchical
        BY <2>1, <3>1, <4>2 DEF ListTables, Present, ReaderInv, TreeInv
      <4>3. QED
        BY <4>1, <4>2
    <3>3. ASSUME NEW i \in DOMAIN answer'
          PROVE  <<answer'[i].namespace, answer'[i].table>> \in seen
      <4>1. answer'[i].namespace = Here /\ answer'[i].table \in tables
        BY <2>2, <2>4
      <4>2. QED
        BY <2>5, <3>2, <4>1 DEF ReaderInv, WalkInv
    <3>4. ASSUME NEW p \in steady, p[1] = Here
          PROVE  \E i \in DOMAIN answer' : p = <<answer'[i].namespace, answer'[i].table>>
      <4>1. p \in Present /\ p = <<Here, p[2]>>
        BY <2>5, <3>4 DEF ReaderInv, WalkInv, Present
      <4>2. p[2] \in tables
        BY <3>2, <4>1
      <4>3. QED
        BY <2>2, <2>4, <4>1, <4>2
    <3>5. steady' = steady /\ seen' = seen /\ Here' = Here
      BY <1>1 DEF walkVars, Here
    <3>6. QED
      BY <3>3, <3>4, <3>5 DEF TablesAnswered
  <2>6. QED
    BY <1>1, <2>4, <2>5, AnswerStep DEF NAMESPACES_TABLE, TABLES_TABLE
<1>4. QED
  BY <1>2, <1>3 DEF ReadTables, NamespaceAsked, Here

LEMMA ReadRealStep ==
  ASSUME ReaderInv, ReadRealTable, UNCHANGED connectorVars, UNCHANGED walkVars
  PROVE  ReaderInv'
<1>1. phase = "reading" /\ ask.table \notin VIRTUAL_TABLES /\ ask' = ask /\ left \in 1 .. 2
  BY DEF ReadRealTable, Reading, Fails, Rows, ReaderInv, RequestInv
<1>2. \/ phase' = "reading" /\ left' = left - 1 /\ at' = at
      \/ phase' = "failed" /\ left' = left /\ at' = at
  BY <1>1 DEF ReadRealTable, Rows, Fails
<1>3. left' \in 0 .. 2 /\ phase' \in {"reading", "failed"} /\ at' = at
  BY <1>1, <1>2
<1>4. WalkInv'
  BY <1>1, NotTheWalks DEF ReaderInv, VIRTUAL_TABLES
<1>5. RequestInv'
  BY <1>1, <1>3, WalkRequestKeeps DEF ReaderInv, RequestInv, walkVars
<1>6. MetadataInv'
  BY <1>1 DEF MetadataInv, VIRTUAL_TABLES
<1>7. QED
  BY <1>4, <1>5, <1>6, TreeKeeps DEF ReaderInv

LEMMA CollectStep ==
  ASSUME ReaderInv, Collect, UNCHANGED connectorVars, UNCHANGED walkVars
  PROVE  ReaderInv'
<1>1. /\ phase = "reading" /\ left = 0 /\ phase' = "answered" /\ UNCHANGED <<ask, left, at, answer>>
      /\ Complete /\ Complete'
  BY DEF Collect, Complete
<1>2. MetadataInv'
  BY <1>1 DEF ReaderInv, MetadataInv, MetadataRows, TableNames
<1>3. RequestInv'
  BY <1>1, WalkRequestKeeps DEF ReaderInv, RequestInv, walkVars
<1>4. WalkInv'
  <2>1. /\ WalkInv /\ Present' = Present /\ UNCHANGED <<walk, todo, found, steady, seen>>
        /\ Here' = Here
    BY <1>1 DEF ReaderInv, Present, Here, connectorVars, catalogVars, walkVars
  <2>2. /\ \A p : Covered(p)' = Covered(p)
        /\ TablesAnswered' = TablesAnswered /\ NamespacesAnswered' = NamespacesAnswered
    BY <1>1, <2>1 DEF Covered, TablesAnswered, NamespacesAnswered
  <2>3. QED
    BY <1>1, <2>1, <2>2 DEF WalkInv
<1>5. QED
  BY <1>2, <1>3, <1>4, TreeKeeps DEF ReaderInv

\* The walk takes an answer: what it removes from todo the answer covers.
LEMMA TakesAnswer ==
  ASSUME ReaderInv, WalkTakes, phase = "answered", UNCHANGED connectorVars
  PROVE  WalkInv'
<1> DEFINE rows == {answer[i] : i \in DOMAIN answer}
           asked == <<ask.table, Here>>
           below == IF ask.table # NAMESPACES_TABLE THEN {}
                      ELSE {NAMESPACES_TABLE, TABLES_TABLE} \X {r.namespace : r \in rows}
<1>1. /\ walk = "on" /\ phase' = "idle" /\ steady' = steady /\ seen' = seen
      /\ todo' = (todo \ {asked}) \cup below
      /\ found' = IF ask.table # TABLES_TABLE THEN found
                    ELSE found \cup {<<r.namespace, r.table>> : r \in rows}
      /\ walk' = IF todo' = {} THEN "over" ELSE "on"
  BY DEF WalkTakes, Here
<1>2. Complete /\ ~Complete' /\ WalkInv /\ Present' = Present
  BY <1>1 DEF Complete, ReaderInv, Present, connectorVars, catalogVars
<1>3. /\ ask.table = TABLES_TABLE => TablesAnswered
      /\ ask.table = NAMESPACES_TABLE => NamespacesAnswered
  BY <1>1, <1>2 DEF WalkInv
<1>4. found \subseteq found' /\ found' \subseteq seen'
  BY <1>1, <1>2, <1>3 DEF WalkInv, TablesAnswered
<1>5. todo' \subseteq {NAMESPACES_TABLE, TABLES_TABLE} \X Namespace
  BY <1>1, <1>2, <1>3 DEF WalkInv, NamespacesAnswered
<1>6. ASSUME NEW p \in steady PROVE Covered(p)'
  <2>1. p[1] \in Seq(STRING) /\ p = <<p[1], p[2]>> /\ Covered(p)
    BY <1>1, <1>2, ConnectorAssumption DEF WalkInv
  <2>2. CASE p \in found
    BY <1>4, <2>2 DEF Covered
  <2>3. CASE <<TABLES_TABLE, p[1]>> \in todo
    <3>1. CASE asked = <<TABLES_TABLE, p[1]>>
      <4>1. ask.table = TABLES_TABLE /\ p[1] = Here
        BY <3>1
      <4>2. PICK i \in DOMAIN answer : p = <<answer[i].namespace, answer[i].table>>
        BY <1>3, <4>1 DEF TablesAnswered
      <4>3. p \in found'
        BY <1>1, <4>1, <4>2
      <4>4. QED
        BY <4>3 DEF Covered
    <3>2. CASE asked # <<TABLES_TABLE, p[1]>>
      BY <1>1, <2>3, <3>2 DEF Covered
    <3>3. QED
      BY <3>1, <3>2
  <2>4. ASSUME NEW k \in 0 .. Len(p[1]) - 1, <<NAMESPACES_TABLE, SubSeq(p[1], 1, k)>> \in todo
        PROVE  Covered(p)'
    <3>1. CASE asked = <<NAMESPACES_TABLE, SubSeq(p[1], 1, k)>>
      <4>1. ask.table = NAMESPACES_TABLE /\ SubSeq(p[1], 1, k) = Here
        BY <3>1
      <4>2. PICK i \in DOMAIN answer : answer[i].namespace = SubSeq(p[1], 1, k + 1)
        BY <1>3, <4>1 DEF NamespacesAnswered
      <4>3. /\ <<NAMESPACES_TABLE, SubSeq(p[1], 1, k + 1)>> \in todo'
            /\ <<TABLES_TABLE, SubSeq(p[1], 1, k + 1)>> \in todo'
        BY <1>1, <4>1, <4>2
      <4>4. k + 1 \in 0 .. Len(p[1]) - 1 \/ k + 1 = Len(p[1])
        BY <2>1
      <4>5. CASE k + 1 = Len(p[1])
        BY <2>1, <4>3, <4>5, SubSeqFull DEF Covered
      <4>6. CASE k + 1 \in 0 .. Len(p[1]) - 1
        BY <4>3, <4>6 DEF Covered
      <4>7. QED
        BY <4>4, <4>5, <4>6
    <3>2. CASE asked # <<NAMESPACES_TABLE, SubSeq(p[1], 1, k)>>
      BY <1>1, <2>4, <3>2 DEF Covered
    <3>3. QED
      BY <3>1, <3>2
  <2>5. QED
    BY <2>1, <2>2, <2>3, <2>4 DEF Covered
<1>7. walk' = "over" => steady' \subseteq found'
  BY <1>1, <1>6 DEF Covered
<1>8. QED
  BY <1>1, <1>2, <1>4, <1>5, <1>6, <1>7 DEF WalkInv

\* The client takes an answer or a failure and is idle again.
LEMMA IdleStep ==
  ASSUME ReaderInv, CloseRequest \/ WalkTakes, UNCHANGED connectorVars
  PROVE  ReaderInv'
<1>1. /\ phase' = "idle" /\ left' = 0 /\ at' = 0 /\ ~Complete' /\ phase \in {"answered", "failed"}
      /\ walk' \in {"none", "on", "over"}
  BY DEF CloseRequest, WalkTakes, Complete, walkVars
<1>2. RequestInv' /\ MetadataInv'
  BY <1>1 DEF RequestInv, MetadataInv
<1>3. WalkInv'
  <2>1. CASE UNCHANGED walkVars
    BY <1>1, <2>1, WalkKeeps DEF ReaderInv
  <2>2. CASE WalkTakes /\ phase = "answered"
    BY <2>2, TakesAnswer
  <2>3. QED
    BY <2>1, <2>2 DEF CloseRequest, WalkTakes, walkVars
<1>4. QED
  BY <1>2, <1>3, TreeKeeps DEF ReaderInv

\* A table that disappears is steady no more, one that appears was seen.
LEMMA ReaderSeesChanges ==
  ASSUME ReaderInv, SourceChanges
  PROVE  ReaderInv'
<1>1. TreeInv' /\ hierarchical' = hierarchical
  BY TreeChanges, ConnectorTypeChanges DEF ReaderInv, TreeInv, SourceChanges
<1>2. /\ UNCHANGED <<ask, phase, left, at, answer, walk, todo, found>>
      /\ steady' = IF walk = "on" THEN steady \cap Present' ELSE steady
      /\ seen' = IF walk = "on" THEN seen \cup Present' ELSE seen
  BY DEF SourceChanges, WalkSees, requestVars
<1>3. \A table, ns : WalkRequest(table, ns)' = WalkRequest(table, ns)
  BY <1>1 DEF WalkRequest
<1>4. RequestInv' /\ MetadataInv'
  BY <1>2, <1>3 DEF ReaderInv, RequestInv, MetadataInv, MetadataRows, TableNames, Complete
<1>5. Present' \subseteq Namespace \X Table
  BY <1>1 DEF Present, TreeInv, ConnectorTypeOK
<1>6. WalkInv'
  <2>1. WalkInv /\ (\A p : Covered(p)' = Covered(p)) /\ Here' = Here /\ Complete' = Complete
    BY <1>2 DEF ReaderInv, Covered, Here, Complete
  <2>2. TablesAnswered => TablesAnswered'
    BY <1>2, <2>1 DEF TablesAnswered
  <2>3. NamespacesAnswered => NamespacesAnswered'
    BY <1>2, <2>1 DEF NamespacesAnswered
  <2>4. QED
    BY <1>2, <1>5, <2>1, <2>2, <2>3 DEF WalkInv
<1>7. QED
  BY <1>1, <1>4, <1>6 DEF ReaderInv

LEMMA ReadsStep ==
  ASSUME ReaderInv, Reads
  PROVE  ReaderInv'
<1>1. UNCHANGED connectorVars
  BY DEF Reads
<1>2. CASE Serve /\ UNCHANGED walkVars
  BY <1>1, <1>2, ServeQuietly, ReadMetadataStep, ReadNamespacesStep, ReadTablesStep,
     ReadRealStep, CollectStep DEF Serve
<1>3. CASE AskAnything(Importable)
  BY <1>1, <1>3, OpenStep DEF AskAnything
<1>4. CASE WalkAsks(Importable)
  <2>1. PICK q \in todo : Open(WalkRequest(q[1], q[2]), Importable)
    BY <1>4 DEF WalkAsks
  <2>2. q[1] \in {NAMESPACES_TABLE, TABLES_TABLE} /\ q[2] \in Namespace
    BY DEF ReaderInv, WalkInv
  <2>3. walk = "on" /\ UNCHANGED walkVars
    BY <1>4 DEF WalkAsks
  <2>4. QED
    BY <1>1, <2>1, <2>2, <2>3, OpenStep
<1>5. CASE CloseRequest \/ WalkTakes
  BY <1>1, <1>5, IdleStep
<1>6. QED
  BY <1>2, <1>3, <1>4, <1>5 DEF Reads

\* A read of a virtual table goes through its phases with the rows its place
\* in them makes due, and what the walk has not found it still asks for.
THEOREM ReaderInvariant == Spec => []ReaderInv
<1>1. ReaderInv /\ [Next]_vars => ReaderInv'
  <2>1. CASE Reads
    BY <2>1, ReadsStep
  <2>2. CASE SourceChanges
    BY <2>2, ReaderSeesChanges
  <2>3. CASE Registers \/ Operates \/ UNCHANGED vars
    <3>1. UNCHANGED <<connectorVars, discoveryVars>>
      BY <2>3 DEF Registers, Operates, vars
    <3> HIDE <2>3
    <3>2. TreeInv => TreeInv'
      BY <3>1, TreeKeeps
    <3>3. \A table, ns : WalkRequest(table, ns)' = WalkRequest(table, ns)
      BY <3>1, WalkRequestKeeps
    <3>4. UNCHANGED <<ask, phase, left, at, answer, walk, todo, found, steady, seen>>
      BY <3>1 DEF discoveryVars, requestVars, walkVars
    <3>5. RequestInv /\ MetadataInv => RequestInv' /\ MetadataInv'
      BY <3>3, <3>4 DEF RequestInv, MetadataInv, MetadataRows, TableNames, Complete
    <3>6. WalkInv => WalkInv'
      BY <3>1, <3>4 DEF WalkInv, Covered, Present, Complete, TablesAnswered, NamespacesAnswered,
                        Here, connectorVars, catalogVars
    <3>7. QED
      BY <3>2, <3>5, <3>6 DEF ReaderInv
  <2>4. QED
    BY <2>1, <2>2, <2>3 DEF Next
<1>2. QED
  BY <1>1, ReaderInitInv, PTL DEF Spec

\* A metadata read answers one row for each name it was asked, in their order.
THEOREM MetadataOnce == Spec => []MetadataOncePerTable
<1>1. ReaderInv => MetadataOncePerTable
  <2> SUFFICES ASSUME ReaderInv, phase = "answered", ask.table = METADATA_TABLE
               PROVE  [i \in DOMAIN answer |-> answer[i].table] = TableNames
    BY DEF MetadataOncePerTable
  <2>1. MetadataRows(Len(TableNames)) /\ TableNames \in Seq(STRING)
    BY MetadataNames DEF ReaderInv, MetadataInv, Complete
  <2>2. Len(TableNames) \in Nat /\ TableNames = [i \in 1 .. Len(TableNames) |-> TableNames[i]]
    BY <2>1
  <2>3. DOMAIN answer = 1 .. Len(TableNames) /\ \A i \in DOMAIN answer : answer[i].table = TableNames[i]
    BY <2>1, <2>2 DEF MetadataRows
  <2>4. QED
    BY <2>2, <2>3
<1>2. QED
  BY <1>1, ReaderInvariant, PTL

\* The walk of the tree finds every table that was there throughout, and none
\* that never was.
THEOREM WalkFinds == Spec => []WalkFindsAll
<1>1. ReaderInv => WalkFindsAll
  BY DEF ReaderInv, WalkInv, WalkFindsAll
<1>2. QED
  BY <1>1, ReaderInvariant, PTL

\* Every variable of a session keeps its type, and every code is an ErrorCode.
THEOREM SessionTypes == Spec => []TypeOK
<1> DEFINE Kind == client \in {"reader", "agent"} /\ direct \in BOOLEAN
<1>1. Init => Kind
  BY DEF Init, DiscoveryInit
<1>2. Kind /\ [Next]_vars => Kind'
  <2>1. CASE Reads
    BY <2>1 DEF Reads
  <2>2. CASE Registers \/ Operates \/ SourceChanges \/ UNCHANGED vars
    BY <2>2 DEF Registers, Operates, SourceChanges, WalkSees, vars, discoveryVars
  <2>3. QED
    BY <2>1, <2>2 DEF Next
<1>3. Kind /\ AgentInv /\ ReaderInv /\ RegisterInv => TypeOK
  <2>1. SUFFICES ASSUME Kind, AgentInv, ReaderInv, RegisterInv PROVE TypeOK
    OBVIOUS
  <2>2. \A i \in DOMAIN emitted : emitted[i].code \in Codes \cup {"none"}
    <3>1. emitted \in Seq(OutRows)
      BY <2>1 DEF AgentInv, AgentType
    <3>2. \A r \in OutRows : r.code \in Codes \cup {"none"}
      BY DEF OutRows
    <3>3. QED
      BY <3>1, <3>2
  <2>3. found \subseteq Namespace \X Table /\ steady \subseteq seen
    BY <2>1 DEF ReaderInv, WalkInv
  <2>4. QED
    BY <2>1, <2>2, <2>3
       DEF TypeOK, AgentInv, AgentType, ReaderInv, TreeInv, RequestInv, RegisterInv
<1>4. QED
  BY <1>1, <1>2, <1>3, AgentInvariant, ReaderInvariant, RegisterInvariant, PTL DEF Spec
=============================================================================
