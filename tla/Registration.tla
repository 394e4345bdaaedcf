----------------------------- MODULE Registration -----------------------------
(***************************************************************************)
(* register: which class serves the format "lakeflow_connect" in a Spark   *)
(* session, by the name of a source or by a class.                         *)
(*                                                                         *)
(* A source named is looked up in what is deployed at that moment: the     *)
(* generated module of the source, then its package. Python keeps a module *)
(* that imported, so what was found once stays as it was found.            *)
(***************************************************************************)
EXTENDS Naturals

CONSTANT MaxDeployments   \* bound: what is deployed changes no more often

ASSUME RegistrationAssumption == MaxDeployments \in Nat

(* The package of a source: not there; raises an ImportError; imports, but  *)
(* exposes no connector, as when its conditional import missed a            *)
(* dependency; or exposes one.                                              *)
Packages == {"missing", "broken", "bare", "exposes"}
(* The generated module beside it: not there; without its function; with a  *)
(* function that raises an ImportError, or another error; or fit.           *)
Generated == {"missing", "no_function", "import_error", "broken", "fit"}

VARIABLES
  package,       \* what is deployed of the package
  generated,     \* what is deployed of the generated module
  imported,      \* the modules Python holds: {"package", "generated"}
  registered,    \* what serves the format, see Serving
  called,        \* the last call of register: its argument and its outcome
  deployments    \* bounds the deployments

registrationVars ==
  <<package, generated, imported, registered, called, deployments>>

\* LakeflowSource of the generated module, the wrapper of a connector class,
\* or a DataSource of the caller's own.
Serving == {"none", "generated", "wrapped", "own"}
Arguments == {"name", "connector", "data_source", "neither"}
Outcomes == {"registered", "ValueError", "ImportError", "TypeError", "other"}

RegistrationTypeOK ==
  /\ package \in Packages /\ generated \in Generated
  /\ imported \subseteq {"package", "generated"} /\ registered \in Serving
  /\ called \in [argument : Arguments \cup {"none"},
                 outcome : Outcomes \cup {"none"}, before : Serving]
  /\ deployments \in 0 .. MaxDeployments

RegistrationInit ==
  /\ package \in Packages /\ generated \in Generated
  /\ imported = {} /\ registered = "none" /\ deployments = 0
  /\ called = [argument |-> "none", outcome |-> "none", before |-> "none"]

-----------------------------------------------------------------------------

\* _get_register_function: the package has to import first; a module that is
\* missing, or lacks the function, is an ImportError.
GetRegisterFunction ==
  CASE package = "missing" -> "ValueError"
    [] package = "broken" -> "ImportError"
    [] package \in {"bare", "exposes"} /\ generated \in {"missing", "no_function"}
         -> "ImportError"
    [] OTHER -> "found"

\* _find_lakeflow_connect_class: the first class the package exposes.
FindConnectorClass ==
  CASE package = "exposes" -> "found"
    [] package = "broken" -> "ImportError"
    [] OTHER -> "ValueError"

\* The error a register function raises, if it does.
CallRegisterFunction ==
  CASE generated = "import_error" -> "ImportError"
    [] generated = "broken" -> "other"
    [] OTHER -> "registered"

\* A mutant of FallsBack: only a module that is not there counts.
FallsBackOnMissing(error) == error = "ImportError" /\ generated = "missing"

\* Which errors of the generated module make the package serve instead: an
\* ImportError, the register function's own included.
FallsBack(error) == error = "ImportError"

\* The class and the outcome of register(spark, name).
RegisterByName ==
  LET error == IF GetRegisterFunction # "found" THEN GetRegisterFunction
                 ELSE CallRegisterFunction
  IN CASE error = "registered" -> <<"generated", "registered">>
       [] FallsBack(error) /\ FindConnectorClass = "found" -> <<"wrapped", "registered">>
       [] FallsBack(error) /\ FindConnectorClass # "found" -> <<registered, FindConnectorClass>>
       [] OTHER -> <<registered, error>>

RegisterConnector == <<"wrapped", "registered">>
RegisterDataSource == <<"own", "registered">>

Called(argument, result) ==
  /\ registered' = result[1]
  /\ called' = [argument |-> argument, outcome |-> result[2], before |-> registered]

\* The last to register serves the format; a class that is neither raises.
Register(argument) ==
  /\ CASE argument = "name" -> Called(argument, RegisterByName)
       [] argument = "connector" -> Called(argument, RegisterConnector)
       [] argument = "data_source" -> Called(argument, RegisterDataSource)
       [] OTHER -> Called(argument, <<registered, "TypeError">>)
  /\ imported' = IF argument # "name" \/ package \in {"missing", "broken"} THEN imported
                   ELSE imported \cup {"package"} \cup
                          (IF generated = "missing" THEN {} ELSE {"generated"})
  /\ UNCHANGED <<package, generated, deployments>>

\* A module not imported yet is deployed, changed or removed.
Deploy ==
  /\ deployments < MaxDeployments /\ deployments' = deployments + 1
  /\ \/ /\ "package" \notin imported
        /\ package' \in Packages \ {package} /\ UNCHANGED generated
     \/ /\ "generated" \notin imported
        /\ generated' \in Generated \ {generated} /\ UNCHANGED package
  /\ UNCHANGED <<imported, registered, called>>

\* Whether the wrapper of a connector class finds it again by its name.
Importable == package = "exposes"
=============================================================================
