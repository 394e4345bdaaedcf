----------------------------- MODULE RangeFetch -----------------------------
(***************************************************************************)
(* TsugaPublicLogsClient.fetch_window: a range of seconds is searched with *)
(* one request; when the answer is as long as a request can be, the range  *)
(* is cut in two and each half searched in turn, down to single seconds.   *)
(* New events become searchable between any two requests.                  *)
(***************************************************************************)
EXTENDS Integers, FiniteSets, Sequences

CONSTANTS
  Event,           \* the log events
  Second,          \* the second each event is stamped with
  PageSize,        \* option page_size
  MaxPerCall,      \* MAX_PUBLIC_LOGS_PER_CALL
  MaxSecond        \* bound: the windows asked for lie in 0 .. MaxSecond

ASSUME RangeAssumption ==
  /\ IsFiniteSet(Event) /\ Second \in [Event -> Nat]
  /\ PageSize \in Nat \ {0} /\ MaxPerCall \in Nat \ {0}
  /\ MaxSecond \in Nat

VARIABLES
  call,     \* the arguments: the range call.from .. call.to - 1 and
            \* call.truncate, the option allow_truncated_seconds
  index,    \* the searchable events
  todo,     \* the ranges still to search, the call stack from its top
  got,      \* the events returned so far
  outcome,  \* "running", "done" or "failed"
  known     \* history: the events searchable when the fetch began

vars == <<call, index, todo, got, outcome, known>>

EffectivePageSize == IF PageSize < MaxPerCall THEN PageSize ELSE MaxPerCall

\* A half-open range of seconds that is not empty.
Span == {r \in [from : Nat, to : Nat] : r.from < r.to}

Call == [from : 0 .. MaxSecond, to : 0 .. MaxSecond, truncate : BOOLEAN]

TypeOK ==
  /\ call \in Call
  /\ index \subseteq Event /\ known \subseteq index
  /\ todo \in Seq(Span)
  /\ got \subseteq index
  /\ outcome \in {"running", "done", "failed"}

Init ==
  /\ call \in Call
  /\ index \in SUBSET Event /\ known = index
  /\ todo = IF call.to <= call.from THEN <<>>
            ELSE <<[from |-> call.from, to |-> call.to]>>
  /\ got = {} /\ outcome = "running"

\* An event becomes searchable.
Arrive ==
  /\ outcome = "running"
  /\ \E e \in Event \ index : index' = index \cup {e}
  /\ UNCHANGED <<call, todo, got, outcome, known>>

-----------------------------------------------------------------------------

\* The matches of a search request; both of its bounds are inclusive.
Matches(from, toInclusive) ==
  {e \in index : from <= Second[e] /\ Second[e] <= toInclusive}

\* A mutant of Hits: the exclusive bound goes into the request as it is.
HitsPastTheEnd == Matches(todo[1].from, todo[1].to)

\* The matches of the range on top, of which a request returns at most
\* EffectivePageSize.
Hits == Matches(todo[1].from, todo[1].to - 1)

IsFull == Cardinality(Hits) >= EffectivePageSize
Searching == outcome = "running" /\ todo # <<>>

\* Mutants of Midpoint: one second too far; without the max(1, ...).
MidpointPlusOne(from, to) == from + (to - from) \div 2 + 1
MidpointUnclamped(from, to) == from + (to - from - 1) \div 2

Midpoint(from, to) ==
  LET half == (to - from) \div 2
      mid == from + (IF half > 1 THEN half ELSE 1)
  IN  IF mid >= to THEN to - 1 ELSE mid

\* A mutant of Leaf: takes a full page for a complete one.
LeafIgnoringTheCap ==
  /\ Searching
  /\ \E page \in SUBSET Hits :
       /\ Cardinality(page) = (IF IsFull THEN EffectivePageSize ELSE Cardinality(Hits))
       /\ got' = got \cup page
  /\ todo' = Tail(todo)
  /\ UNCHANGED <<call, index, outcome, known>>

\* The answer is shorter than a full page: it is complete.
Leaf ==
  /\ Searching /\ ~ IsFull
  /\ got' = got \cup Hits
  /\ todo' = Tail(todo)
  /\ UNCHANGED <<call, index, outcome, known>>

\* A mutant of Split: the right half begins after the midpoint.
SplitDroppingMidpoint ==
  /\ Searching /\ IsFull /\ todo[1].to - todo[1].from > 1
  /\ LET mid == Midpoint(todo[1].from, todo[1].to)
     IN  todo' = <<[from |-> todo[1].from, to |-> mid],
                   [from |-> mid + 1, to |-> todo[1].to]>> \o Tail(todo)
  /\ UNCHANGED <<call, index, got, outcome, known>>

\* A full page of more than one second is thrown away and both halves searched.
Split ==
  /\ Searching /\ IsFull /\ todo[1].to - todo[1].from > 1
  /\ LET mid == Midpoint(todo[1].from, todo[1].to)
     IN  todo' = <<[from |-> todo[1].from, to |-> mid],
                   [from |-> mid, to |-> todo[1].to]>> \o Tail(todo)
  /\ UNCHANGED <<call, index, got, outcome, known>>

\* A full second is taken as far as one request returns it.
TruncateSecond ==
  /\ Searching /\ IsFull /\ todo[1].to - todo[1].from <= 1
  /\ call.truncate
  /\ \E page \in SUBSET Hits :
       /\ Cardinality(page) = EffectivePageSize
       /\ got' = got \cup page
  /\ todo' = Tail(todo)
  /\ UNCHANGED <<call, index, outcome, known>>

\* A full second cannot be paged: the whole fetch raises.
SecondSaturated ==
  /\ Searching /\ IsFull /\ todo[1].to - todo[1].from <= 1
  /\ ~ call.truncate
  /\ outcome' = "failed" /\ got' = {}
  /\ UNCHANGED <<call, index, todo, known>>

\* _search raises for good (see SearchClient), _extract_logs finds no list of
\* logs, or normalize_log raises over one of them: so does the whole fetch.
SearchRaises ==
  /\ Searching
  /\ outcome' = "failed" /\ got' = {}
  /\ UNCHANGED <<call, index, todo, known>>

\* The outermost call returns; fetch_window sorts what it got.
ReturnAll ==
  /\ outcome = "running" /\ todo = <<>>
  /\ outcome' = "done"
  /\ UNCHANGED <<call, index, todo, got, known>>

Fetch ==
  \/ Leaf \/ Split \/ TruncateSecond \/ SecondSaturated \/ SearchRaises
  \/ ReturnAll

\* The fetch is over.
Over == outcome # "running" /\ UNCHANGED vars

Next == Arrive \/ Fetch \/ Over

\* Every request ends, with an answer or raising (see SearchClient).
Spec == Init /\ [][Next]_vars /\ WF_vars(Fetch)

-----------------------------------------------------------------------------
(* Properties *)

\* What the client does is a WindowScan: each range left of the call stack has
\* been seen once, at one moment, and from left to right.
Reached == IF todo = <<>> THEN call.to ELSE todo[1].from

Scan == INSTANCE WindowScan WITH reached <- Reached, Limit <- EffectivePageSize

ImplementsWindowScan == Scan!Spec

\* The part of it that is not about progress.
ScanSafety == Scan!Init /\ [][Scan!Next]_(Scan!vars)

\* The pending ranges tile the rest of the window without a gap or an overlap.
PendingTilesTheRest ==
  todo # <<>> =>
    /\ todo[Len(todo)].to = call.to
    /\ \A i \in 1 .. Len(todo) - 1 : todo[i].to = todo[i + 1].from
    /\ call.from <= todo[1].from

\* "Exhausts a time range": when the fetch returns, an event of the window that
\* was searchable at its start is missing only where truncation is allowed and
\* its second alone fills a request.
CompleteUnlessSaturated ==
  outcome = "done" =>
    \A e \in known : call.from <= Second[e] /\ Second[e] < call.to =>
      \/ e \in got
      \/ /\ call.truncate
         /\ Cardinality(Matches(Second[e], Second[e])) >= EffectivePageSize

\* Whatever arrives meanwhile, the bisection ends.
FetchEnds == <>(outcome # "running")
=============================================================================
