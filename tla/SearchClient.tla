---------------------------- MODULE SearchClient ----------------------------
(***************************************************************************)
(* The HTTP side of TsugaPublicLogsClient. The worker threads of one round *)
(* of windows share a client: a lock and the earliest time of the next     *)
(* request pace them, and each request is retried with a growing delay.    *)
(* _fetch_windows builds a new client for every round.                     *)
(*                                                                         *)
(* Time is counted down: wait is _next_request_monotonic minus the clock,  *)
(* sleep[w] what is left of a time.sleep. A sleeper may oversleep.         *)
(***************************************************************************)
EXTENDS Integers, FiniteSets

CONSTANTS
  Worker,        \* the threads of the pool
  Calls,         \* bound: how many requests a worker makes in a round
  Rounds,        \* bound: how many rounds there are
  Interval,      \* min_request_interval_seconds
  MaxAttempts,   \* retry_max_attempts
  Backoff,       \* retry_backoff_seconds
  MaxBackoff,    \* max_retry_backoff_seconds
  RetryAfters    \* the Retry-After values the server sends

Nobody == "nobody"

ASSUME ClientAssumption ==
  /\ Nobody \notin Worker
  /\ Calls \in Nat \ {0} /\ Rounds \in Nat \ {0}
  /\ Interval \in Nat /\ MaxAttempts \in Nat \ {0}
  /\ Backoff \in Nat /\ MaxBackoff \in Nat
  /\ RetryAfters \subseteq Nat

VARIABLES
  round,       \* the number of clients built so far
  lock,        \* the worker that holds _request_lock, or Nobody
  wait,        \* how long until _next_request_monotonic, 0 when it is past
  pc,          \* what each worker does next
  sleep,       \* what is left of each worker's sleep
  attempt,     \* the local attempt of _search
  calls,       \* how many requests each worker still has to make
  answer,      \* the last answer each worker got
  sincePermit, \* history: time since the last permit of any client, up to Interval
  used         \* history: the present client has given a permit

vars == <<round, lock, wait, pc, sleep, attempt, calls, answer, sincePermit, used>>

Stages == {"search", "acquire", "pace", "permit", "send", "inflight", "backoff",
           "done", "failed"}

MinOf(a, b) == IF a < b THEN a ELSE b
Less(n) == IF n > 0 THEN n - 1 ELSE 0

TypeOK ==
  /\ round \in 1 .. Rounds
  /\ lock \in Worker \cup {Nobody}
  /\ wait \in 0 .. Interval
  /\ pc \in [Worker -> Stages]
  /\ sleep \in [Worker -> 0 .. (IF Interval > MaxBackoff THEN Interval ELSE MaxBackoff)]
  /\ attempt \in [Worker -> 0 .. (MaxAttempts - 1)]
  /\ calls \in [Worker -> 0 .. Calls]
  /\ answer \in [Worker -> {"none", "ok", "retryable", "fatal"}]
  /\ sincePermit \in 0 .. Interval
  /\ used \in BOOLEAN

Init ==
  /\ round = 1 /\ sincePermit = Interval
  /\ lock = Nobody /\ wait = 0 /\ used = FALSE
  /\ pc = [w \in Worker |-> "search"]
  /\ sleep = [w \in Worker |-> 0]
  /\ attempt = [w \in Worker |-> 0]
  /\ calls = [w \in Worker |-> Calls]
  /\ answer = [w \in Worker |-> "none"]

Goto(w, stage) == pc' = [pc EXCEPT ![w] = stage]

Tick ==
  /\ wait' = Less(wait)
  /\ sleep' = [w \in Worker |-> Less(sleep[w])]
  /\ sincePermit' = MinOf(sincePermit + 1, Interval)
  /\ UNCHANGED <<round, lock, pc, attempt, calls, answer, used>>

-----------------------------------------------------------------------------
(* _search and _apply_request_rate_limit *)

\* A call of _search, without pacing when the interval is zero.
BeginSearch(w) ==
  /\ pc[w] = "search"
  /\ Goto(w, IF Interval = 0 THEN "send" ELSE "acquire")
  /\ attempt' = [attempt EXCEPT ![w] = 0]
  /\ UNCHANGED <<round, lock, wait, sleep, calls, answer, sincePermit, used>>

\* A mutant of Acquire: no lock around the pacing.
AcquireUnlocked(w) ==
  /\ pc[w] = "acquire"
  /\ Goto(w, IF wait > 0 THEN "pace" ELSE "permit")
  /\ sleep' = [sleep EXCEPT ![w] = wait]
  /\ UNCHANGED <<round, lock, wait, attempt, calls, answer, sincePermit, used>>

\* The lock is taken and the time to wait read from the clock.
Acquire(w) ==
  /\ pc[w] = "acquire" /\ lock = Nobody
  /\ lock' = w
  /\ Goto(w, IF wait > 0 THEN "pace" ELSE "permit")
  /\ sleep' = [sleep EXCEPT ![w] = wait]
  /\ UNCHANGED <<round, wait, attempt, calls, answer, sincePermit, used>>

\* The sleep is over; the lock was held all along.
Pace(w) ==
  /\ pc[w] = "pace" /\ sleep[w] = 0
  /\ Goto(w, "permit")
  /\ UNCHANGED <<round, lock, wait, sleep, attempt, calls, answer, sincePermit, used>>

\* A mutant of Permit: the lock is not released.
PermitKeepingLock(w) ==
  /\ pc[w] = "permit"
  /\ wait' = Interval
  /\ sincePermit' = 0 /\ used' = TRUE
  /\ Goto(w, "send")
  /\ UNCHANGED <<round, lock, sleep, attempt, calls, answer>>

\* The next request is put off and the lock released.
Permit(w) ==
  /\ pc[w] = "permit"
  /\ wait' = Interval
  /\ lock' = Nobody
  /\ sincePermit' = 0 /\ used' = TRUE
  /\ Goto(w, "send")
  /\ UNCHANGED <<round, sleep, attempt, calls, answer>>

\* requests.get, outside of the lock.
Send(w) ==
  /\ pc[w] = "send"
  /\ Goto(w, "inflight")
  /\ UNCHANGED <<round, lock, wait, sleep, attempt, calls, answer, sincePermit, used>>

\* A mutant of ShouldRetry: one attempt short.
ShouldRetryOneLess(w) == attempt[w] < MaxAttempts - 2

ShouldRetry(w) == attempt[w] < MaxAttempts - 1

\* An answer with a 2xx status.
Succeed(w) ==
  /\ pc[w] = "inflight"
  /\ answer' = [answer EXCEPT ![w] = "ok"]
  /\ calls' = [calls EXCEPT ![w] = @ - 1]
  /\ Goto(w, IF calls[w] > 1 THEN "search" ELSE "done")
  /\ UNCHANGED <<round, lock, wait, sleep, attempt, sincePermit, used>>

RetryDelay(w) == MinOf(Backoff * 2 ^ attempt[w], MaxBackoff)

\* A mutant of RetryAfterDelay: the server's wish is not bounded.
RetryAfterUnbounded(after) == after

RetryAfterDelay(after) == MinOf(after, MaxBackoff)

\* A timeout or connection error, or status 408, 429 or 5xx, perhaps with a
\* Retry-After header: the worker sleeps, or gives up at the last attempt.
Retry(w) ==
  /\ pc[w] = "inflight" /\ ShouldRetry(w)
  /\ answer' = [answer EXCEPT ![w] = "retryable"]
  /\ Goto(w, "backoff")
  /\ \E delay \in {RetryDelay(w)} \cup {RetryAfterDelay(after) : after \in RetryAfters} :
       sleep' = [sleep EXCEPT ![w] = delay]
  /\ UNCHANGED <<round, lock, wait, attempt, calls, sincePermit, used>>

GiveUp(w) ==
  /\ pc[w] = "inflight" /\ ~ ShouldRetry(w)
  /\ answer' = [answer EXCEPT ![w] = "retryable"]
  /\ Goto(w, "failed")
  /\ UNCHANGED <<round, lock, wait, sleep, attempt, calls, sincePermit, used>>

\* Any other status, or a body that is not a list of logs.
Reject(w) ==
  /\ pc[w] = "inflight"
  /\ answer' = [answer EXCEPT ![w] = "fatal"]
  /\ Goto(w, "failed")
  /\ UNCHANGED <<round, lock, wait, sleep, attempt, calls, sincePermit, used>>

\* The backoff is over: the loop of _search goes round again.
Again(w) ==
  /\ pc[w] = "backoff" /\ sleep[w] = 0
  /\ attempt' = [attempt EXCEPT ![w] = @ + 1]
  /\ Goto(w, IF Interval = 0 THEN "send" ELSE "acquire")
  /\ UNCHANGED <<round, lock, wait, sleep, calls, answer, sincePermit, used>>

Step(w) ==
  \/ BeginSearch(w) \/ Acquire(w) \/ Pace(w) \/ Permit(w) \/ Send(w)
  \/ Succeed(w) \/ Retry(w) \/ GiveUp(w) \/ Reject(w) \/ Again(w)

\* The pool waits for every worker. The next round has a client of its own; a
\* round with a failed worker raises instead.
NextRound ==
  /\ \A w \in Worker : pc[w] = "done"
  /\ round < Rounds
  /\ round' = round + 1
  /\ lock' = Nobody /\ wait' = 0 /\ used' = FALSE
  /\ pc' = [w \in Worker |-> "search"]
  /\ calls' = [w \in Worker |-> Calls]
  /\ UNCHANGED <<sleep, attempt, answer, sincePermit>>

RoundOver == \A w \in Worker : pc[w] \in {"done", "failed"}

Next == Tick \/ (\E w \in Worker : Step(w)) \/ NextRound

\* Every thread is scheduled, every request times out in the end, time passes.
Spec ==
  /\ Init /\ [][Next]_vars
  /\ WF_vars(Tick)
  /\ \A w \in Worker : WF_vars(Step(w))

-----------------------------------------------------------------------------
(* Properties *)

\* The permits one client gives, to whatever workers, are an interval apart;
\* the first one of the next round, of a new client, need not be.
ClientSpacing ==
  [][\A w \in Worker : Permit(w) /\ used => sincePermit >= Interval]_vars

\* A worker that fails over something that may pass has made every attempt it
\* may make ("retries 429/5xx responses").
FailsOnlyExhausted ==
  \A w \in Worker :
    pc[w] = "failed" => answer[w] = "fatal" \/ attempt[w] = MaxAttempts - 1

\* No worker is held up for good, by the lock, by the pacing or by its retries:
\* every round ends.
RoundsEnd == ~ RoundOver ~> RoundOver
=============================================================================
