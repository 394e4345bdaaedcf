-------------------------- MODULE SearchClientProofs --------------------------
(***************************************************************************)
(* The pacing of one client, for any number of threads, any interval and   *)
(* any pattern of answers and retries.                                     *)
(***************************************************************************)
EXTENDS SearchClient, FiniteSetTheorems, TLAPS

\* A worker in the critical section holds the lock; one that sleeps in it sleeps
\* as long as the client has to wait; and the time since the last permit and the
\* time still to wait make up an interval.
PacingInv ==
  /\ wait \in Nat /\ sincePermit \in Nat
  /\ pc \in [Worker -> Stages]
  /\ sleep = [w \in Worker |-> sleep[w]]
  /\ \A w \in Worker : pc[w] \in {"pace", "permit"} => lock = w
  /\ \A w \in Worker : pc[w] = "pace" => sleep[w] = wait
  /\ \A w \in Worker : pc[w] = "permit" => wait = 0
  /\ used => sincePermit + wait >= Interval

LEMMA PacingInit == Init => PacingInv
BY ClientAssumption DEF Init, PacingInv, Stages

LEMMA PacingTick == PacingInv /\ Tick => PacingInv'
<1> SUFFICES ASSUME PacingInv, Tick PROVE PacingInv'
  OBVIOUS
<1>1. /\ wait' \in Nat /\ sincePermit' \in Nat
      /\ used' => sincePermit' + wait' >= Interval
  BY ClientAssumption DEF PacingInv, Tick, Less, MinOf
<1>2. pc' = pc /\ lock' = lock /\ sleep' = [w \in Worker |-> Less(sleep[w])]
      /\ wait' = Less(wait)
  BY DEF Tick
<1>3. \A w \in Worker : pc[w] = "permit" => wait' = 0
  BY <1>2 DEF PacingInv, Less
<1>4. \A w \in Worker : pc[w] = "pace" => sleep'[w] = wait'
  BY <1>2 DEF PacingInv
<1>5. sleep' = [w \in Worker |-> sleep'[w]]
  BY <1>2
<1>6. QED
  BY <1>1, <1>2, <1>3, <1>4, <1>5 DEF PacingInv

\* Steps that leave the lock, the clock and the critical section alone.
LEMMA PacingOutside ==
  ASSUME PacingInv, NEW w \in Worker, NEW stage \in Stages \ {"pace", "permit"},
         pc' = [pc EXCEPT ![w] = stage],
         pc[w] \notin {"pace", "permit"},
         sleep' = [v \in Worker |-> sleep'[v]],
         \A v \in Worker \ {w} : sleep'[v] = sleep[v],
         UNCHANGED <<lock, wait, sincePermit, used>>
  PROVE  PacingInv'
<1>1. ASSUME NEW v \in Worker, pc'[v] \in {"pace", "permit"}
      PROVE  v # w /\ pc'[v] = pc[v] /\ sleep'[v] = sleep[v]
  BY <1>1 DEF PacingInv
<1>2. pc' \in [Worker -> Stages]
  BY DEF PacingInv
<1>3. QED
  BY <1>1, <1>2 DEF PacingInv

LEMMA PacingAcquire ==
  ASSUME PacingInv, NEW w \in Worker, Acquire(w)
  PROVE  PacingInv'
<1>1. /\ pc[w] = "acquire" /\ lock = Nobody /\ lock' = w
      /\ pc' = [pc EXCEPT ![w] = IF wait > 0 THEN "pace" ELSE "permit"]
      /\ sleep' = [sleep EXCEPT ![w] = wait]
      /\ UNCHANGED <<wait, sincePermit, used>>
  BY DEF Acquire, Goto
<1>2. ASSUME NEW v \in Worker, pc'[v] \in {"pace", "permit"}
      PROVE  v = w
  BY <1>1, <1>2, ClientAssumption DEF PacingInv
<1>3. pc' \in [Worker -> Stages] /\ pc'[w] = (IF wait > 0 THEN "pace" ELSE "permit")
  BY <1>1 DEF PacingInv, Stages
<1>4. sleep'[w] = wait /\ sleep' = [v \in Worker |-> sleep'[v]]
  BY <1>1 DEF PacingInv
<1>5. QED
  BY <1>1, <1>2, <1>3, <1>4 DEF PacingInv

LEMMA PacingPace ==
  ASSUME PacingInv, NEW w \in Worker, Pace(w)
  PROVE  PacingInv'
<1>1. /\ pc[w] = "pace" /\ sleep[w] = 0
      /\ pc' = [pc EXCEPT ![w] = "permit"]
      /\ UNCHANGED <<lock, sleep, wait, sincePermit, used>>
  BY DEF Pace, Goto
<1>2. wait = 0 /\ lock = w
  BY <1>1 DEF PacingInv
<1>3. pc' \in [Worker -> Stages]
  BY <1>1 DEF PacingInv, Stages
<1>4. \A v \in Worker : pc'[v] = IF v = w THEN "permit" ELSE pc[v]
  BY <1>1 DEF PacingInv
<1>5. QED
  BY <1>1, <1>2, <1>3, <1>4 DEF PacingInv

LEMMA PacingPermit ==
  ASSUME PacingInv, NEW w \in Worker, Permit(w)
  PROVE  PacingInv'
<1>1. /\ pc[w] = "permit" /\ lock' = Nobody /\ wait' = Interval
      /\ pc' = [pc EXCEPT ![w] = "send"] /\ sincePermit' = 0
      /\ sleep' = sleep
  BY DEF Permit, Goto
<1>2. \A v \in Worker : pc'[v] \notin {"pace", "permit"}
  BY <1>1 DEF PacingInv
<1>3. pc' \in [Worker -> Stages]
  BY <1>1 DEF PacingInv, Stages
<1>4. wait' \in Nat /\ sincePermit' \in Nat /\ sincePermit' + wait' >= Interval
  BY <1>1, ClientAssumption
<1>5. sleep' = [v \in Worker |-> sleep'[v]]
  BY <1>1 DEF PacingInv
<1>6. QED
  BY <1>2, <1>3, <1>4, <1>5 DEF PacingInv

LEMMA PacingStep ==
  ASSUME PacingInv, NEW w \in Worker, Step(w)
  PROVE  PacingInv'
<1>1. CASE Acquire(w)
  BY <1>1, PacingAcquire
<1>2. CASE Pace(w)
  BY <1>2, PacingPace
<1>3. CASE Permit(w)
  BY <1>3, PacingPermit
<1>4. CASE BeginSearch(w)
  BY <1>4, PacingOutside DEF BeginSearch, Goto, Stages, PacingInv
<1>5. CASE Send(w)
  BY <1>5, PacingOutside DEF Send, Goto, Stages, PacingInv
<1>6. CASE Succeed(w)
  BY <1>6, PacingOutside DEF Succeed, Goto, Stages, PacingInv
<1>7. CASE Retry(w)
  <2>1. PICK delay : sleep' = [sleep EXCEPT ![w] = delay]
    BY <1>7 DEF Retry
  <2>2. sleep' = [v \in Worker |-> sleep'[v]]
        /\ \A v \in Worker \ {w} : sleep'[v] = sleep[v]
    BY <2>1 DEF PacingInv
  <2>3. QED
    BY <1>7, <2>2, PacingOutside DEF Retry, Goto, Stages
<1>8. CASE GiveUp(w)
  BY <1>8, PacingOutside DEF GiveUp, Goto, Stages, PacingInv
<1>9. CASE Reject(w)
  BY <1>9, PacingOutside DEF Reject, Goto, Stages, PacingInv
<1>10. CASE Again(w)
  BY <1>10, PacingOutside DEF Again, Goto, Stages, PacingInv
<1>11. QED
  BY <1>1, <1>2, <1>3, <1>4, <1>5, <1>6, <1>7, <1>8, <1>9, <1>10 DEF Step

LEMMA PacingNext == PacingInv /\ [Next]_vars => PacingInv'
<1> SUFFICES ASSUME PacingInv, [Next]_vars PROVE PacingInv'
  OBVIOUS
<1>1. CASE Tick
  BY <1>1, PacingTick
<1>2. ASSUME NEW w \in Worker, Step(w) PROVE PacingInv'
  BY <1>2, PacingStep
<1>3. CASE NextRound
  BY <1>3 DEF NextRound, PacingInv, Stages
<1>4. CASE UNCHANGED vars
  BY <1>4 DEF vars, PacingInv
<1>5. QED
  BY <1>1, <1>2, <1>3, <1>4 DEF Next

\* Any two permits of one client are at least an interval apart, whichever
\* threads they go to.
THEOREM ClientIsPaced == Spec => ClientSpacing
<1>1. Init => PacingInv
  BY PacingInit
<1>2. PacingInv /\ [Next]_vars => PacingInv'
  BY PacingNext
<1>3. PacingInv /\ [Next]_vars =>
        [\A w \in Worker : Permit(w) /\ used => sincePermit >= Interval]_vars
  <2>1. ASSUME PacingInv, NEW w \in Worker, Permit(w), used
        PROVE  sincePermit >= Interval
    <3>1. wait = 0 /\ sincePermit + wait >= Interval /\ sincePermit \in Nat
      BY <2>1 DEF PacingInv, Permit
    <3>2. QED
      BY <3>1, ClientAssumption
  <2>2. QED
    BY <2>1
<1>4. QED
  BY <1>1, <1>2, <1>3, PTL DEF Spec, ClientSpacing

-----------------------------------------------------------------------------
(* Types and failures *)

\* A worker that is not at its end has a request to make; one that backs off
\* has an attempt left, and one that failed without cause has none.
ClientInv ==
  /\ TypeOK
  /\ \A w \in Worker : /\ pc[w] \notin {"done", "failed"} => calls[w] >= 1
                       /\ pc[w] = "backoff" => ShouldRetry(w)
                       /\ pc[w] = "failed" => answer[w] = "fatal" \/ ~ ShouldRetry(w)

\* The provers know nothing of powers: this one counts the subsets of an interval.
LEMMA PowersOfTwo ==
  ASSUME NEW n \in Nat
  PROVE  2 ^ n \in Nat
<1>1. IsFiniteSet(1 .. n) /\ Cardinality(1 .. n) = n
  BY FS_Interval
<1>2. IsFiniteSet(SUBSET (1 .. n)) /\ Cardinality(SUBSET (1 .. n)) = 2 ^ n
  BY <1>1, FS_SUBSET
<1>3. QED
  BY <1>2, FS_CardinalityType

LEMMA DelaysAreBounded ==
  ASSUME ClientInv, NEW w \in Worker
  PROVE  /\ RetryDelay(w) \in 0 .. MaxBackoff
         /\ \A after \in RetryAfters : RetryAfterDelay(after) \in 0 .. MaxBackoff
<1>1. attempt[w] \in Nat
  BY ClientAssumption DEF ClientInv, TypeOK
<1>2. 2 ^ attempt[w] \in Nat
  BY <1>1, PowersOfTwo
<1>3. Backoff * 2 ^ attempt[w] \in Nat
  <2> DEFINE power == 2 ^ attempt[w]
  <2>1. power \in Nat
    BY <1>2
  <2> HIDE DEF power
  <2>2. Backoff * power \in Nat
    BY <2>1, ClientAssumption
  <2>3. QED
    BY <2>2 DEF power
<1>4. \A n \in Nat : MinOf(n, MaxBackoff) \in 0 .. MaxBackoff
  BY ClientAssumption DEF MinOf
<1>5. QED
  BY <1>3, <1>4, ClientAssumption DEF RetryDelay, RetryAfterDelay

\* A step of one worker, that stays within the types.
LEMMA WorkerStep ==
  ASSUME ClientInv, NEW w \in Worker,
         NEW stage \in Stages, pc' = [pc EXCEPT ![w] = stage],
         NEW s \in 0 .. (IF Interval > MaxBackoff THEN Interval ELSE MaxBackoff),
         sleep' = [sleep EXCEPT ![w] = s],
         NEW a \in 0 .. (MaxAttempts - 1), attempt' = [attempt EXCEPT ![w] = a],
         NEW c \in 0 .. Calls, calls' = [calls EXCEPT ![w] = c],
         NEW t \in {"none", "ok", "retryable", "fatal"}, answer' = [answer EXCEPT ![w] = t],
         lock' \in Worker \cup {Nobody}, wait' \in 0 .. Interval, used' \in BOOLEAN,
         sincePermit' \in 0 .. Interval, round' = round,
         stage \notin {"done", "failed"} => c >= 1,
         stage = "backoff" => a < MaxAttempts - 1,
         stage = "failed" => t = "fatal" \/ ~ (a < MaxAttempts - 1)
  PROVE  ClientInv'
<1>1. /\ pc \in [Worker -> Stages] /\ calls \in [Worker -> 0 .. Calls]
      /\ sleep \in [Worker -> 0 .. (IF Interval > MaxBackoff THEN Interval ELSE MaxBackoff)]
      /\ attempt \in [Worker -> 0 .. (MaxAttempts - 1)]
      /\ answer \in [Worker -> {"none", "ok", "retryable", "fatal"}]
      /\ round \in 1 .. Rounds
  BY DEF ClientInv, TypeOK
<1>2. TypeOK'
  BY <1>1 DEF TypeOK
<1>3. ASSUME NEW v \in Worker
      PROVE  /\ pc'[v] \notin {"done", "failed"} => calls'[v] >= 1
             /\ pc'[v] = "backoff" => ShouldRetry(v)'
             /\ pc'[v] = "failed" => answer'[v] = "fatal" \/ ~ ShouldRetry(v)'
  <2>1. CASE v = w
    BY <1>1, <2>1 DEF ShouldRetry
  <2>2. CASE v # w
    BY <1>1, <2>2 DEF ShouldRetry, ClientInv
  <2>3. QED
    BY <2>1, <2>2
<1>4. QED
  BY <1>2, <1>3 DEF ClientInv

LEMMA WorkerMoves ==
  ASSUME ClientInv, NEW w \in Worker, pc[w] \notin {"done", "failed"},
         NEW stage \in Stages \ {"backoff", "done", "failed"}, pc' = [pc EXCEPT ![w] = stage],
         UNCHANGED <<round, sleep, attempt, calls, answer>>,
         lock' \in Worker \cup {Nobody}, wait' \in 0 .. Interval, used' \in BOOLEAN,
         sincePermit' \in 0 .. Interval
  PROVE  ClientInv'
<1>1. pc \in [Worker -> Stages]
  BY DEF ClientInv, TypeOK
<1>2. TypeOK'
  BY <1>1 DEF ClientInv, TypeOK
<1>3. \A v \in Worker : /\ ShouldRetry(v)' = ShouldRetry(v)
                        /\ pc'[v] = IF v = w THEN stage ELSE pc[v]
  BY <1>1 DEF ShouldRetry
<1>4. QED
  BY <1>2, <1>3 DEF ClientInv

LEMMA StepKeepsClientInv ==
  ASSUME ClientInv, NEW w \in Worker, Step(w)
  PROVE  ClientInv'
<1> DEFINE Longest == IF Interval > MaxBackoff THEN Interval ELSE MaxBackoff
<1>1. /\ pc \in [Worker -> Stages] /\ calls \in [Worker -> 0 .. Calls]
      /\ sleep \in [Worker -> 0 .. Longest]
      /\ attempt \in [Worker -> 0 .. (MaxAttempts - 1)]
      /\ answer \in [Worker -> {"none", "ok", "retryable", "fatal"}]
      /\ lock \in Worker \cup {Nobody} /\ wait \in 0 .. Interval /\ used \in BOOLEAN
      /\ sincePermit \in 0 .. Interval
  BY DEF ClientInv, TypeOK
<1>2. /\ pc = [pc EXCEPT ![w] = pc[w]] /\ calls = [calls EXCEPT ![w] = calls[w]]
      /\ sleep = [sleep EXCEPT ![w] = sleep[w]]
      /\ attempt = [attempt EXCEPT ![w] = attempt[w]]
      /\ answer = [answer EXCEPT ![w] = answer[w]]
      /\ sleep[w] \in 0 .. Longest /\ attempt[w] \in 0 .. (MaxAttempts - 1)
      /\ calls[w] \in 0 .. Calls /\ answer[w] \in {"none", "ok", "retryable", "fatal"}
  BY <1>1
<1>3. pc[w] \notin {"done", "failed"} => calls[w] >= 1
  BY DEF ClientInv
<1>4. /\ 0 \in 0 .. Interval /\ Interval \in 0 .. Interval /\ 0 \in 0 .. (MaxAttempts - 1)
      /\ 0 .. Interval \subseteq 0 .. Longest /\ 0 .. MaxBackoff \subseteq 0 .. Longest
  BY ClientAssumption
<1> HIDE DEF Longest
<1>5. CASE BeginSearch(w)
  BY <1>1, <1>2, <1>3, <1>4, <1>5, WorkerStep DEF BeginSearch, Goto, Stages, Longest
<1>6. CASE Acquire(w)
  <2> DEFINE stage == IF wait > 0 THEN "pace" ELSE "permit"
  <2>1. stage \in Stages /\ stage \in {"pace", "permit"} /\ wait \in 0 .. Longest
    BY <1>1, <1>4 DEF Stages
  <2>2. /\ pc[w] = "acquire" /\ pc' = [pc EXCEPT ![w] = stage]
        /\ sleep' = [sleep EXCEPT ![w] = wait] /\ lock' = w
        /\ UNCHANGED <<round, wait, attempt, calls, answer, sincePermit, used>>
    BY <1>6 DEF Acquire, Goto
  <2> HIDE DEF stage
  <2>3. QED
    BY <1>1, <1>2, <1>3, <2>1, <2>2, WorkerStep DEF Longest
<1>7. CASE Pace(w)
  BY <1>1, <1>4, <1>7, WorkerMoves DEF Pace, Goto, Stages
<1>8. CASE Permit(w)
  BY <1>1, <1>4, <1>8, WorkerMoves DEF Permit, Goto, Stages
<1>9. CASE Send(w)
  BY <1>1, <1>4, <1>9, WorkerMoves DEF Send, Goto, Stages
<1>10. CASE Succeed(w)
  <2> DEFINE stage == IF calls[w] > 1 THEN "search" ELSE "done"
             left == calls[w] - 1
  <2>1. calls[w] \in 1 .. Calls
    <3>1. calls[w] \in 0 .. Calls /\ calls[w] >= 1
      BY <1>2, <1>3, <1>10 DEF Succeed
    <3>2. QED
      BY <3>1, ClientAssumption
  <2>2. left \in 0 .. Calls /\ (stage # "done" => left >= 1)
    BY <2>1, ClientAssumption
  <2>3. /\ pc[w] = "inflight" /\ pc' = [pc EXCEPT ![w] = stage] /\ stage \in Stages
        /\ calls' = [calls EXCEPT ![w] = left] /\ answer' = [answer EXCEPT ![w] = "ok"]
        /\ stage \in {"search", "done"}
        /\ UNCHANGED <<round, lock, wait, sleep, attempt, sincePermit, used>>
    BY <1>1, <1>10 DEF Succeed, Goto, Stages
  <2> HIDE DEF stage, left
  <2>4. QED
    BY <1>1, <1>2, <2>2, <2>3, WorkerStep DEF Longest
<1>11. CASE Retry(w)
  <2>1. PICK delay \in 0 .. MaxBackoff : sleep' = [sleep EXCEPT ![w] = delay]
    BY <1>11, DelaysAreBounded DEF Retry
  <2>2. QED
    BY <1>1, <1>2, <1>3, <1>4, <1>11, <2>1, WorkerStep
       DEF Retry, ShouldRetry, Goto, Stages, Longest
<1>12. CASE GiveUp(w)
  BY <1>1, <1>2, <1>3, <1>4, <1>12, WorkerStep DEF GiveUp, ShouldRetry, Goto, Stages, Longest
<1>13. CASE Reject(w)
  BY <1>1, <1>2, <1>3, <1>4, <1>13, WorkerStep DEF Reject, Goto, Stages, Longest
<1>14. CASE Again(w)
  <2> DEFINE stage == IF Interval = 0 THEN "send" ELSE "acquire"
             next == attempt[w] + 1
  <2>1. next \in 0 .. (MaxAttempts - 1)
    BY <1>2, <1>14, ClientAssumption DEF Again, ClientInv, ShouldRetry
  <2>2. /\ pc[w] = "backoff" /\ pc' = [pc EXCEPT ![w] = stage] /\ stage \in Stages
        /\ stage \in {"send", "acquire"} /\ attempt' = [attempt EXCEPT ![w] = next]
        /\ UNCHANGED <<round, lock, wait, sleep, calls, answer, sincePermit, used>>
    BY <1>1, <1>14 DEF Again, Goto, Stages
  <2> HIDE DEF stage, next
  <2>3. QED
    BY <1>1, <1>2, <1>3, <2>1, <2>2, WorkerStep DEF Longest
<1>15. QED
  BY <1>5, <1>6, <1>7, <1>8, <1>9, <1>10, <1>11, <1>12, <1>13, <1>14 DEF Step

LEMMA NextKeepsClientInv == ClientInv /\ [Next]_vars => ClientInv'
<1> SUFFICES ASSUME ClientInv, [Next]_vars PROVE ClientInv'
  OBVIOUS
<1>1. CASE Tick
  <2>1. wait' \in 0 .. Interval /\ sincePermit' \in 0 .. Interval
    BY <1>1, ClientAssumption DEF Tick, ClientInv, TypeOK, Less, MinOf
  <2>2. sleep' \in [Worker -> 0 .. (IF Interval > MaxBackoff THEN Interval ELSE MaxBackoff)]
    <3> DEFINE Longest == IF Interval > MaxBackoff THEN Interval ELSE MaxBackoff
    <3>1. Longest \in Nat /\ sleep \in [Worker -> 0 .. Longest]
          /\ sleep' = [w \in Worker |-> Less(sleep[w])]
      BY <1>1, ClientAssumption DEF Tick, ClientInv, TypeOK
    <3> HIDE DEF Longest
    <3>2. \A n \in 0 .. Longest : Less(n) \in 0 .. Longest
      BY <3>1 DEF Less
    <3>3. sleep' \in [Worker -> 0 .. Longest]
      BY <3>1, <3>2
    <3>4. QED
      BY <3>3 DEF Longest
  <2>3. QED
    BY <1>1, <2>1, <2>2 DEF Tick, ClientInv, TypeOK, ShouldRetry
<1>2. ASSUME NEW w \in Worker, Step(w) PROVE ClientInv'
  BY <1>2, StepKeepsClientInv
<1>3. CASE NextRound
  <2>1. round' \in 1 .. Rounds /\ wait' \in 0 .. Interval /\ Calls \in 0 .. Calls /\ Calls >= 1
    BY <1>3, ClientAssumption DEF NextRound, ClientInv, TypeOK
  <2>2. \A w \in Worker : pc'[w] = "search" /\ calls'[w] = Calls
    BY <1>3 DEF NextRound
  <2>3. pc' \in [Worker -> Stages] /\ calls' \in [Worker -> 0 .. Calls]
    BY <1>3, <2>1 DEF NextRound, Stages
  <2>4. QED
    BY <1>3, <2>1, <2>2, <2>3 DEF NextRound, ClientInv, TypeOK
<1>4. CASE UNCHANGED vars
  BY <1>4 DEF vars, ClientInv, TypeOK, ShouldRetry
<1>5. QED
  BY <1>1, <1>2, <1>3, <1>4 DEF Next

\* A client's state is well typed: no thread sleeps longer than the interval or
\* the backoff allows, none makes more attempts or requests than it may.
THEOREM ClientInvariant == Spec => []ClientInv
<1>1. Init => ClientInv
  <2> SUFFICES ASSUME Init PROVE ClientInv
    OBVIOUS
  <2>1. /\ 1 \in 1 .. Rounds /\ 0 \in 0 .. Interval /\ Interval \in 0 .. Interval
        /\ 0 \in 0 .. (MaxAttempts - 1) /\ Calls \in 0 .. Calls /\ Calls >= 1
        /\ 0 \in 0 .. (IF Interval > MaxBackoff THEN Interval ELSE MaxBackoff)
    BY ClientAssumption
  <2>2. TypeOK
    BY <2>1 DEF Init, TypeOK, Stages
  <2>3. QED
    BY <2>1, <2>2 DEF Init, ClientInv
<1>2. QED
  BY <1>1, NextKeepsClientInv, PTL DEF Spec

\* The threads of a client, their sleeps, attempts and answers have their types.
THEOREM ClientTypes == Spec => []TypeOK
<1>1. ClientInv => TypeOK
  BY DEF ClientInv
<1>2. QED
  BY <1>1, ClientInvariant, PTL

\* A worker that fails over something that may pass has made every attempt it
\* may make, for any number of attempts and any pattern of answers.
THEOREM FailsExhausted == Spec => []FailsOnlyExhausted
<1>1. ClientInv => FailsOnlyExhausted
  BY ClientAssumption DEF ClientInv, TypeOK, ShouldRetry, FailsOnlyExhausted
<1>2. QED
  BY <1>1, ClientInvariant, PTL

===============================================================================
