----------------------------- MODULE WindowScan -----------------------------
(***************************************************************************)
(* What fetching one window of the log index promises, whatever requests   *)
(* it takes: the window is gone through from left to right in slices of    *)
(* seconds, each slice seen at one moment. Only a single second that holds *)
(* as many events as one request returns may come back short, and only     *)
(* where that is allowed. A fetch that fails before its end returns        *)
(* nothing. TsugaSync reads its windows the same way.                      *)
(***************************************************************************)
EXTENDS Integers, FiniteSets

CONSTANTS
  Event,           \* the log events
  Second,          \* the second each event is stamped with
  Limit            \* the most events one request returns

VARIABLES
  call,     \* the window call.from .. call.to - 1, and call.truncate: whether a
            \* short second is accepted
  index,    \* the searchable events
  reached,  \* the window is fetched up to this second
  got,      \* the events fetched
  outcome   \* "running", "done" or "failed"

vars == <<call, index, reached, got, outcome>>

In(events, from, to) == {e \in events : from <= Second[e] /\ Second[e] < to}
Saturated(s) == Cardinality(In(index, s, s + 1)) >= Limit

Init ==
  /\ call \in [from : Nat, to : Nat, truncate : BOOLEAN]
  /\ index \in SUBSET Event
  /\ reached = (IF call.from < call.to THEN call.from ELSE call.to)
  /\ got = {} /\ outcome = "running"

Arrive ==
  /\ \E e \in Event : index' = index \cup {e}
  /\ UNCHANGED <<call, reached, got, outcome>>

\* The next slice, complete.
Slice ==
  /\ outcome = "running"
  /\ \E b \in (reached + 1) .. call.to :
       /\ got' = got \cup In(index, reached, b)
       /\ reached' = b
  /\ UNCHANGED <<call, index, outcome>>

\* The next second, as far as one request returns it.
ShortSecond ==
  /\ outcome = "running" /\ call.truncate
  /\ reached < call.to /\ Saturated(reached)
  /\ \E part \in SUBSET In(index, reached, reached + 1) :
       /\ Cardinality(part) = Limit
       /\ got' = got \cup part
  /\ reached' = reached + 1
  /\ UNCHANGED <<call, index, outcome>>

Finish ==
  /\ outcome = "running" /\ reached = call.to
  /\ outcome' = "done"
  /\ UNCHANGED <<call, index, reached, got>>

\* A request fails, its answer cannot be read, or a second that may not come
\* back short would: nothing is returned.
Fail ==
  /\ outcome = "running" /\ reached < call.to
  /\ outcome' = "failed" /\ got' = {}
  /\ UNCHANGED <<call, index, reached>>

Fetch == Slice \/ ShortSecond \/ Finish \/ Fail
Next == Arrive \/ Fetch

Spec == Init /\ [][Next]_vars /\ WF_vars(Fetch)

\* The fetch comes to an end.
Ends == <>(outcome # "running")
=============================================================================
