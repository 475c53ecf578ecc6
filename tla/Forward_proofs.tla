--------------------------- MODULE Forward_proofs ---------------------------
(* Proofs about a buffered request, for every timeout: how often the upstream *)
(* may execute it, how long the caller may wait, whose JA4 it is told, and   *)
(* that the wait for the head of an answer ends.                             *)
EXTENDS Forward, TLAPS, FiniteSetTheorems

(* The attempts stay within the retries, and only they have been sent.       *)
Sent ==
    /\ attempt \in 0..MaxRetries
    /\ wire \cup ran \subseteq 0..attempt

(* What is left of the current wait fits in what the attempts may take.      *)
Within ==
    /\ elapsed \in Nat /\ left \in Nat
    /\ phase \in {"ready", "sending", "backoff", "reading", "done"}
    /\ phase = "ready" => elapsed + Timeout <= Allowed(attempt)
    /\ phase = "backoff" => elapsed + left + Timeout <= Allowed(attempt)
    /\ phase = "sending" => elapsed + left <= Allowed(attempt)
    /\ phase \in {"reading", "done"} => elapsed <= Allowed(attempt)

Params == method \in {"idempotent", "other"} /\ large \in BOOLEAN
Inv == Params /\ Sent /\ Within

(* The allowance grows with each attempt by its backoff and its timeout      *)
(* (forward/mod.rs:154-158).                                                 *)
LEMMA AllowedSteps ==
    /\ Allowed(0) = Timeout
    /\ Allowed(1) = Allowed(0) + Backoff(1) + Timeout
    /\ Allowed(2) = Allowed(1) + Backoff(2) + Timeout
    /\ \A n \in 0..2 : Allowed(n) \in Nat
    /\ \A m, n \in 0..2 : m <= n => Allowed(m) <= Allowed(n)
<1>1. Timeout \in Nat
  BY ForwardAssumption
<1>2. Allowed(0) = Timeout /\ Allowed(1) = Timeout + Timeout + 1
        /\ Allowed(2) = Timeout + Timeout + Timeout + 5
  BY <1>1 DEF Allowed
<1>3. Backoff(1) = 1 /\ Backoff(2) = 4
  BY DEF Backoff
<1>4. 0..2 = {0, 1, 2}
  OBVIOUS
<1> QED BY <1>1, <1>2, <1>3, <1>4

(* There are two retries at most.                                            *)
LEMMA FewRetries == MaxRetries \in 0..2
BY DEF MaxRetries

(* A retry moves to the next attempt, whose backoff is within the allowance. *)
LEMMA RetryWithin ==
    ASSUME Inv, Again, phase = "sending", UNCHANGED <<request, elapsed, upstream>>
    PROVE  Inv'
<1>1. attempt \in {0, 1} /\ MaxRetries' = MaxRetries /\ attempt + 1 \in 0..MaxRetries
  BY FewRetries DEF Again, Inv, Sent, MaxRetries, request
<1>2. Params' /\ Sent'
  <2>1. wire' = wire /\ ran' = ran /\ attempt' = attempt + 1
    BY DEF Again, upstream
  <2>2. 0..attempt \subseteq 0..(attempt + 1)
    BY <1>1
  <2>3. Params'
    BY DEF Inv, Params, request
  <2> QED BY <1>1, <2>1, <2>2, <2>3 DEF Inv, Sent
<1>3. Within'
  <2>1. phase' = "backoff" /\ left' = Backoff(attempt + 1) /\ elapsed' = elapsed
          /\ attempt' = attempt + 1
    BY DEF Again
  <2>2. elapsed \in Nat /\ left \in Nat /\ elapsed + left <= Allowed(attempt)
    BY DEF Inv, Within
  <2>3. Backoff(1) \in Nat /\ Backoff(2) \in Nat /\ Timeout \in Nat
    BY ForwardAssumption DEF Backoff
  <2>4. CASE attempt = 0
    BY <2>1, <2>2, <2>3, <2>4, AllowedSteps DEF Within
  <2>5. CASE attempt = 1
    BY <2>1, <2>2, <2>3, <2>5, AllowedSteps DEF Within
  <2> QED BY <1>1, <2>4, <2>5
<1> QED BY <1>2, <1>3 DEF Inv

(* Steps that leave the attempt, the parameters and the waiting as they are  *)
(* keep the invariant.                                                       *)
LEMMA Settled ==
    ASSUME Inv, UNCHANGED <<request, attempt, elapsed>>, left' \in Nat,
           wire' \cup ran' \subseteq wire \cup ran \cup {attempt},
           elapsed' <= Allowed(attempt),
           phase' \in {"ready", "sending", "backoff", "reading", "done"},
           phase' = "ready" => elapsed' + Timeout <= Allowed(attempt),
           phase' = "backoff" => elapsed' + left' + Timeout <= Allowed(attempt),
           phase' = "sending" => elapsed' + left' <= Allowed(attempt)
    PROVE  Inv'
<1>1. MaxRetries' = MaxRetries /\ Params'
  BY DEF MaxRetries, request, Inv, Params
<1>2. attempt \in 0..attempt
  BY FewRetries DEF Inv, Sent
<1>3. Sent'
  BY <1>1, <1>2 DEF Inv, Sent
<1>4. Within'
  BY DEF Inv, Within
<1> QED BY <1>1, <1>3, <1>4 DEF Inv

(* The invariant is inductive.                                               *)
LEMMA InvStep == Inv /\ [Next]_vars => Inv'
<1> SUFFICES ASSUME Inv, [Next]_vars PROVE Inv'
  OBVIOUS
<1>0. /\ elapsed \in Nat /\ left \in Nat /\ Timeout \in Nat
      /\ attempt \in 0..2 /\ Allowed(attempt) \in Nat
  BY ForwardAssumption, AllowedSteps, FewRetries DEF Inv, Within, Sent
<1>1. ASSUME NEW r, GiveUp(r), phase \in {"ready", "sending"},
             UNCHANGED <<request, elapsed, upstream>>
      PROVE  Inv'
  <2>1. elapsed <= Allowed(attempt)
    BY <1>0, <1>1 DEF Inv, Within
  <2> QED BY <1>0, <1>1, <2>1, Settled DEF GiveUp, upstream
<1>2. CASE Refused
  BY <1>1, <1>2 DEF Refused
<1>3. CASE Send
  <2>1. elapsed + Timeout <= Allowed(attempt)
    BY <1>3 DEF Send, Inv, Within
  <2> QED BY <1>0, <1>3, <2>1, Settled DEF Send
<1>4. CASE SendFails
  BY <1>1, <1>4, RetryWithin DEF SendFails
<1>5. CASE TimedOut
  BY <1>1, <1>5, RetryWithin DEF TimedOut
<1>6. CASE Responds
  <2>1. CASE Again
    BY <1>6, <2>1, RetryWithin DEF Responds
  <2>2. CASE phase' = "reading" /\ UNCHANGED <<attempt, left>>
    <3>1. elapsed + left <= Allowed(attempt)
      BY <1>6 DEF Responds, Inv, Within
    <3>2. elapsed <= Allowed(attempt)
      BY <1>0, <3>1
    <3> QED BY <1>0, <1>6, <2>2, <3>2, Settled DEF Responds, upstream
  <2> QED BY <1>6, <2>1, <2>2 DEF Responds, Head
<1>7. CASE BackoffEnds
  <2>1. elapsed + Timeout <= Allowed(attempt)
    BY <1>0, <1>7 DEF BackoffEnds, Inv, Within
  <2> QED BY <1>0, <1>7, <2>1, Settled DEF BackoffEnds, upstream
<1>8. CASE BodyRead
  <2>1. elapsed <= Allowed(attempt)
    BY <1>8 DEF BodyRead, Inv, Within
  <2> QED BY <1>0, <1>8, <2>1, Settled DEF BodyRead, upstream
<1>9. CASE Tick
  <2>1. Params' /\ Sent' /\ attempt' = attempt /\ phase' = phase
    BY <1>9 DEF Tick, Inv, Params, Sent, request, upstream, MaxRetries
  <2>2. left' \in Nat /\ elapsed' \in Nat /\ elapsed' + left' = elapsed + left
    BY <1>0, <1>9 DEF Tick
  <2>3. Within'
    BY <1>0, <1>9, <2>1, <2>2 DEF Tick, Inv, Within
  <2> QED BY <2>1, <2>3 DEF Inv
<1>10. ASSUME NEW a \in 0..2, Executes(a) PROVE Inv'
  <2>1. wire' \cup ran' \subseteq wire \cup ran
    BY <1>10 DEF Executes
  <2>2. Params' /\ Within'
    BY <1>10 DEF Executes, Inv, Params, Within, request
  <2>3. Sent'
    BY <1>10, <2>1 DEF Executes, Inv, Sent, MaxRetries, request
  <2> QED BY <2>2, <2>3 DEF Inv
<1>11. CASE UNCHANGED vars
  <2>1. Params' /\ Within'
    BY <1>11 DEF vars, Inv, Params, Within, request
  <2>2. Sent'
    BY <1>11 DEF vars, Inv, Sent, MaxRetries, request, upstream
  <2> QED BY <2>1, <2>2 DEF Inv
<1> QED BY <1>2, <1>3, <1>4, <1>5, <1>6, <1>7, <1>8, <1>9, <1>10, <1>11 DEF Next, Step

(* The invariant holds in every behaviour.                                   *)
LEMMA Invariance == Spec => []Inv
<1>1. Init => Inv
  <2> SUFFICES ASSUME Init PROVE Inv
    OBVIOUS
  <2>1. Timeout \in Nat
    BY ForwardAssumption
  <2>2. Params /\ Sent
    BY DEF Init, Params, Sent, MaxRetries
  <2>3. Within
    BY <2>1, AllowedSteps DEF Init, Within
  <2> QED BY <2>2, <2>3 DEF Inv
<1> QED BY <1>1, InvStep, PTL DEF Spec

(* For every timeout, a large request that is not idempotent is executed     *)
(* once at most, however late the upstream is (forward/mod.rs:140-146).      *)
THEOREM RunsOnce == Spec => []LargeRunsOnce
<1>1. Inv => LargeRunsOnce
  <2> SUFFICES ASSUME Inv, method = "other", large PROVE Cardinality(ran \cup wire) <= 1
    BY DEF LargeRunsOnce
  <2>1. attempt = 0
    BY DEF Inv, Sent, MaxRetries
  <2>2. ran \cup wire \subseteq {0}
    BY <2>1 DEF Inv, Sent
  <2>3. ran \cup wire = {} \/ ran \cup wire = {0}
    BY <2>2
  <2> QED BY <2>3, FS_EmptySet, FS_Singleton
<1> QED BY <1>1, Invariance, PTL

(* For every timeout, the caller waits no longer for the head of an answer   *)
(* than the timeouts of the attempts and their backoffs                      *)
(* (forward/mod.rs:154-184).                                                 *)
THEOREM Waits == Spec => []WaitBound
<1>1. Inv => WaitBound
  <2> SUFFICES ASSUME Inv PROVE WaitBound
    OBVIOUS
  <2>1. attempt \in 0..2 /\ MaxRetries \in 0..2 /\ attempt <= MaxRetries
    BY FewRetries DEF Inv, Sent
  <2>2. Allowed(attempt) <= Allowed(MaxRetries) /\ Allowed(attempt) \in Nat
          /\ Allowed(MaxRetries) \in Nat
    BY <2>1, AllowedSteps
  <2>3. elapsed \in Nat /\ left \in Nat /\ Timeout \in Nat
    BY ForwardAssumption DEF Inv, Within
  <2>4. PICK w \in Nat : w = IF phase = "sending" THEN left ELSE 0
    BY <2>3
  <2>5. elapsed + w <= Allowed(attempt)
    <3>1. phase \in {"ready", "sending", "backoff", "reading", "done"}
      BY DEF Inv, Within
    <3> QED BY <2>2, <2>3, <2>4, <3>1 DEF Inv, Within
  <2> QED BY <2>2, <2>3, <2>4, <2>5 DEF WaitBound
<1> QED BY <1>1, Invariance, PTL

(* The answer and its JA4, and how long the waits are.                       *)
RecordInv ==
    /\ target \in {"diagnostics", "other"} /\ ja4 \in BOOLEAN
    /\ result \in Results /\ from \in {"nobody", "target", "redirected"}
    /\ phase = "reading" => from = "target"
    /\ left <= Timeout + 4
    /\ phase # "done" => ~ja4
    /\ Ja4IsTrusted

(* No wait is longer than the timeout and the longer backoff.                *)
LEMMA WaitFits ==
    /\ 0 <= Timeout + 4 /\ Timeout <= Timeout + 4
    /\ \A n : Backoff(n) <= Timeout + 4
    /\ \A n \in Nat : n <= Timeout + 4 => n - 1 <= Timeout + 4
BY ForwardAssumption DEF Backoff

(* Each step keeps it.                                                       *)
LEMMA RecordStep == Inv /\ RecordInv /\ [Next]_vars => RecordInv'
<1> SUFFICES ASSUME Inv, RecordInv, [Next]_vars PROVE RecordInv'
  OBVIOUS
<1>0. Timeout \in Nat /\ left \in Nat /\ attempt \in 0..2 /\ left <= Timeout + 4
  BY ForwardAssumption, FewRetries DEF Inv, Within, Sent, RecordInv
<1> USE DEF RecordInv, Ja4IsTrusted, Results
<1>1. CASE Refused
  BY <1>0, <1>1 DEF Refused, GiveUp, request, record
<1>2. CASE Send
  <2>1. left' = Timeout
    BY <1>2 DEF Send
  <2> QED BY <1>2, <2>1, WaitFits DEF Send, request, record
<1>3. ASSUME Again, phase = "sending", UNCHANGED request PROVE RecordInv'
  <2>1. left' = Backoff(attempt + 1)
    BY <1>3 DEF Again
  <2>2. left' <= Timeout + 4
    BY <2>1, WaitFits
  <2> QED BY <1>3, <2>2 DEF Again, request, record
<1>4. ASSUME NEW r \in {"error", "timeout"}, GiveUp(r), phase = "sending", UNCHANGED request
      PROVE RecordInv'
  BY <1>4 DEF GiveUp, request, record
<1>5. CASE SendFails
  BY <1>3, <1>4, <1>5 DEF SendFails
<1>6. CASE TimedOut
  BY <1>3, <1>4, <1>6 DEF TimedOut
<1>7. CASE Responds
  <2>1. ASSUME NEW r \in {"success", "answer", "server error"}, Head(r) PROVE RecordInv'
    BY <1>7, <2>1 DEF Responds, Head, Answerers, request
  <2> QED BY <1>3, <1>7, <2>1 DEF Responds
<1>8. CASE BackoffEnds
  BY <1>8 DEF BackoffEnds, request, record
<1>9. CASE BodyRead
  <2>1. ja4' \in BOOLEAN /\ (ja4' => Diagnostic /\ result' = result)
    BY <1>9 DEF BodyRead
  <2>2. phase = "reading" /\ phase' = "done" /\ result' \in {result, "error"}
          /\ UNCHANGED <<target, left, from>>
    BY <1>9 DEF BodyRead, request
  <2> QED BY <2>1, <2>2 DEF Diagnostic
<1>10. CASE Tick
  <2>1. left' = left - 1
    BY <1>10 DEF Tick
  <2>2. left' <= Timeout + 4
    BY <1>0, <2>1, WaitFits
  <2> QED BY <1>10, <2>2 DEF Tick, request, record
<1>11. ASSUME NEW a \in 0..2, Executes(a) PROVE RecordInv'
  BY <1>11 DEF Executes, request, record
<1>12. CASE UNCHANGED vars
  BY <1>12 DEF vars, request, record
<1> QED BY <1>1, <1>2, <1>5, <1>6, <1>7, <1>8, <1>9, <1>10, <1>11, <1>12 DEF Next, Step

(* It holds in every behaviour.                                              *)
LEMMA RecordAlways == Spec => [](Inv /\ RecordInv)
<1>1. Init => RecordInv
  <2> SUFFICES ASSUME Init PROVE RecordInv
    OBVIOUS
  <2>1. left <= Timeout + 4
    BY WaitFits DEF Init
  <2> QED BY <2>1 DEF Init, RecordInv, Ja4IsTrusted, Results
<1> QED BY <1>1, Invariance, RecordStep, PTL DEF Spec

(* Every variable keeps its type; the waits and the sum of them have a bound *)
(* that depends on the timeout only.                                         *)
THEOREM TypeCorrect == Spec => []TypeOK
<1>1. Inv /\ RecordInv => TypeOK
  <2> SUFFICES ASSUME Inv, RecordInv PROVE TypeOK
    OBVIOUS
  <2>1. attempt \in 0..2 /\ wire \cup ran \subseteq 0..2
    BY FewRetries DEF Inv, Sent
  <2>2. elapsed \in Nat /\ left \in Nat /\ Timeout \in Nat
    BY ForwardAssumption DEF Inv, Within
  <2>3. elapsed <= Allowed(attempt)
    BY <2>1, <2>2, AllowedSteps DEF Inv, Within
  <2>4. Allowed(attempt) <= Allowed(2) /\ Allowed(2) \in Nat /\ Allowed(attempt) \in Nat
    BY <2>1, AllowedSteps
  <2>5. elapsed \in 0..Allowed(2)
    BY <2>2, <2>3, <2>4
  <2>6. left \in 0..Timeout + 4
    BY <2>2 DEF RecordInv
  <2>7. phase \in {"ready", "sending", "backoff", "reading", "done"}
    BY DEF Inv, Within
  <2> QED BY <2>1, <2>5, <2>6, <2>7 DEF TypeOK, RecordInv, Inv, Params
<1> QED BY <1>1, RecordAlways, PTL

(* The JA4 told to the caller is the trusted service's own, in answer to     *)
(* this call (forward/mod.rs:58-73, transport.rs:29).                        *)
THEOREM Trusted == Spec => []Ja4IsTrusted
<1>1. RecordInv => Ja4IsTrusted
  BY DEF RecordInv
<1> QED BY <1>1, RecordAlways, PTL

-----------------------------------------------------------------------------
(* The end of the call.                                                      *)

(* What the counting needs to know of a reachable state.                     *)
LEMMA Counts ==
    ASSUME Inv, RecordInv
    PROVE  /\ Timeout \in Nat /\ left \in Nat /\ attempt \in {0, 1, 2}
           /\ phase \in {"ready", "sending", "backoff", "reading", "done"}
           /\ StepsLeft \in Nat
<1>1. Timeout \in Nat /\ left \in Nat /\ attempt \in 0..2
        /\ phase \in {"ready", "sending", "backoff", "reading", "done"}
  BY ForwardAssumption, FewRetries DEF Inv, Within, Sent
<1>2. attempt \in {0, 1, 2}
  BY <1>1
<1> QED BY <1>1, <1>2 DEF StepsLeft

(* A retry costs less than the attempt it adds was counted for.              *)
LEMMA RetryCounts ==
    ASSUME Inv, RecordInv, Again, phase = "sending" PROVE Counted
<1>1. attempt \in {0, 1} /\ left \in Nat /\ Timeout \in Nat
  BY Counts, FewRetries DEF Again
<1>2. phase' = "backoff" /\ left' = Backoff(attempt + 1) /\ attempt' = attempt + 1
  BY DEF Again
<1>3. Backoff(1) = 1 /\ Backoff(2) = 4
  BY DEF Backoff
<1>4. CASE attempt = 0
  <2>1. StepsLeft = 2 * (Timeout + 7) + left + 2
    BY <1>1, <1>4 DEF StepsLeft
  <2>2. StepsLeft' = Timeout + 7 + 1 + Timeout + 4
    BY <1>1, <1>2, <1>3, <1>4 DEF StepsLeft
  <2> QED BY <1>1, <2>1, <2>2 DEF Counted
<1>5. CASE attempt = 1
  <2>1. StepsLeft = Timeout + 7 + left + 2
    BY <1>1, <1>5 DEF StepsLeft
  <2>2. StepsLeft' = 4 + Timeout + 4
    BY <1>1, <1>2, <1>3, <1>5 DEF StepsLeft
  <2> QED BY <1>1, <2>1, <2>2 DEF Counted
<1> QED BY <1>1, <1>4, <1>5

(* Every step of the call or of time is counted.                             *)
LEMMA CountStep ==
    ASSUME Inv, RecordInv, Next
    PROVE  Counted \/ \E a \in 0..2 : Executes(a) /\ StepsLeft' = StepsLeft
<1>0. /\ Timeout \in Nat /\ left \in Nat /\ attempt \in {0, 1, 2}
      /\ phase \in {"ready", "sending", "backoff", "reading", "done"}
  BY Counts
<1> USE DEF Counted, StepsLeft
<1>1. ASSUME phase = "ready", phase' = "done", attempt' = attempt PROVE Counted
  BY <1>0, <1>1
<1>2. ASSUME phase = "sending", phase' \in {"reading", "done"}, attempt' = attempt PROVE Counted
  BY <1>0, <1>2
<1>3. CASE Refused
  BY <1>1, <1>3 DEF Refused, GiveUp
<1>4. CASE Send
  BY <1>0, <1>4 DEF Send
<1>5. CASE SendFails \/ TimedOut
  BY <1>2, <1>5, RetryCounts DEF SendFails, TimedOut, GiveUp
<1>6. CASE Responds
  BY <1>2, <1>6, RetryCounts DEF Responds, Head
<1>7. CASE BackoffEnds
  BY <1>0, <1>7 DEF BackoffEnds
<1>8. CASE BodyRead
  BY <1>0, <1>8 DEF BodyRead
<1>9. CASE Tick
  BY <1>0, <1>9 DEF Tick
<1>10. ASSUME NEW a \in 0..2, Executes(a) PROVE StepsLeft' = StepsLeft
  BY <1>10 DEF Executes
<1> QED BY <1>3, <1>4, <1>5, <1>6, <1>7, <1>8, <1>9, <1>10 DEF Next, Step

(* For every timeout the call has a fixed number of steps left, and each step *)
(* it takes, or time takes for it, is one of them: it cannot go on for ever,  *)
(* whatever the upstream does (forward/mod.rs:140-184).                       *)
THEOREM CallRunsDown == Spec => RunsDown
<1>1. Inv /\ RecordInv /\ Inv' /\ RecordInv' /\ [Next]_vars
        => [Counted \/ \E a \in 0..2 : Executes(a) /\ StepsLeft' = StepsLeft]_vars
  BY CountStep
<1> QED BY <1>1, RecordAlways, PTL DEF Spec, RunsDown

(* The hypotheses of CallEnds. Time goes past every bound for a call whose    *)
(* wait never runs out, and the task is polled when its next step is due.     *)
InWait == phase \in {"sending", "backoff"}
TimeGoesPast(n) == []<>(elapsed > n \/ left = 0 \/ ~InWait)
StepDue == phase = "ready" \/ (InWait /\ left = 0)
Polled == []<>~StepDue \/ []<><<Step>>_vars

(* How far the call has come: every attempt is a backoff, a wait for the      *)
(* client and a wait for the upstream, and 9 is behind them all.             *)
Rank == IF phase = "backoff" THEN 3 * attempt
        ELSE IF phase = "ready" THEN 3 * attempt + 1
        ELSE IF phase = "sending" THEN 3 * attempt + 2
        ELSE 9

(* The call never goes back: an attempt, once given up, is not made again.    *)
LEMMA RankGrows ==
    ASSUME Inv, RecordInv, [Next]_vars
    PROVE  /\ Rank \in 0..9 /\ Rank' \in 0..9 /\ Rank' >= Rank
           /\ Rank' = Rank /\ Rank < 9 => phase' = phase /\ (left = 0 /\ phase # "ready" => left' = 0)
<1>0. /\ left \in Nat /\ attempt \in {0, 1, 2}
      /\ phase \in {"ready", "sending", "backoff", "reading", "done"}
  BY Counts
<1>1. Rank \in 0..9
  BY <1>0 DEF Rank
<1>2. ASSUME phase = "ready", phase' = "done", attempt' = attempt
      PROVE  Rank' \in 0..9 /\ Rank' > Rank
  BY <1>0, <1>2 DEF Rank
<1>3. ASSUME phase = "sending", phase' \in {"reading", "done"}, attempt' = attempt
      PROVE  Rank' \in 0..9 /\ Rank' > Rank
  BY <1>0, <1>3 DEF Rank
<1>4. ASSUME phase = "sending", Again
      PROVE  Rank' \in 0..9 /\ Rank' > Rank
  <2>1. attempt \in {0, 1} /\ attempt' = attempt + 1 /\ phase' = "backoff"
    BY <1>0, <1>4, FewRetries DEF Again
  <2> QED BY <1>4, <2>1 DEF Rank
<1>5. CASE Refused
  BY <1>1, <1>2, <1>5 DEF Refused, GiveUp
<1>6. CASE Send
  BY <1>0, <1>6 DEF Send, Rank
<1>7. CASE SendFails \/ TimedOut
  BY <1>0, <1>1, <1>3, <1>4, <1>7 DEF SendFails, TimedOut, GiveUp
<1>8. CASE Responds
  <2>1. phase = "sending" /\ (Again \/ \E r : Head(r))
    BY <1>8, Zenon DEF Responds
  <2>2. ASSUME NEW r, Head(r)
        PROVE  phase' = "reading" /\ attempt' = attempt
    BY <2>2 DEF Head
  <2>3. Rank' \in 0..9 /\ Rank' > Rank
    BY <1>3, <1>4, <2>1, <2>2
  <2> QED BY <1>1, <2>3
<1>9. CASE BackoffEnds
  BY <1>0, <1>9 DEF BackoffEnds, Rank
<1>10. CASE BodyRead
  BY <1>0, <1>10 DEF BodyRead, Rank
<1>11. CASE Tick
  BY <1>0, <1>11 DEF Tick, Rank
<1>12. ASSUME NEW a \in 0..2, Executes(a)
       PROVE  /\ Rank' \in 0..9 /\ Rank' >= Rank
              /\ Rank' = Rank /\ Rank < 9 => phase' = phase /\ (left = 0 /\ phase # "ready" => left' = 0)
  BY <1>0, <1>12 DEF Executes, Rank
<1>13. CASE UNCHANGED vars
  BY <1>0, <1>13 DEF vars, Rank
<1> QED
  BY <1>1, <1>5, <1>6, <1>7, <1>8, <1>9, <1>10, <1>11, <1>12, <1>13 DEF Next, Step

(* Each stage is left for a later one.                                       *)
Leaves(k) == Rank = k ~> Rank > k
LEMMA StageEnds ==
    ASSUME NEW k \in 0..8
    PROVE  Spec /\ TimeGoesPast(Allowed(2)) /\ Polled => Leaves(k)
<1>1. Inv /\ RecordInv /\ Rank = k /\ [Next]_vars => (Rank = k)' \/ (Rank > k)'
  BY RankGrows
<1>2. Inv /\ RecordInv /\ Rank = k /\ StepDue /\ [Next]_vars => StepDue' \/ (Rank > k)'
  BY RankGrows DEF StepDue, InWait
<1>3. Inv /\ RecordInv /\ [Next]_vars /\ Rank = k /\ <<Step>>_vars => (Rank > k)'
  <2> SUFFICES ASSUME Inv, RecordInv, [Next]_vars, Rank = k, Step
               PROVE  Rank' > k
    OBVIOUS
  <2>1. Rank' >= k /\ Rank' \in 0..9 /\ (Rank' = k => phase' = phase)
    BY RankGrows
  <2>2. phase' # phase
    BY FewRetries, Counts DEF Step, Send, TimedOut, Again, GiveUp, BackoffEnds
  <2> QED BY <2>1, <2>2
<1>4. Inv /\ RecordInv => ~(elapsed > Allowed(2))
  <2>1. Allowed(2) \in Nat /\ Allowed(1) \in Nat /\ Allowed(0) \in Nat
          /\ Allowed(0) <= Allowed(2) /\ Allowed(1) <= Allowed(2)
    BY AllowedSteps
  <2> SUFFICES ASSUME Inv, RecordInv
               PROVE  elapsed \in Nat /\ elapsed <= Allowed(2)
    BY <2>1
  <2>2. elapsed \in Nat /\ left \in Nat /\ attempt \in {0, 1, 2} /\ Timeout \in Nat
    BY Counts DEF Inv, Within
  <2>3. elapsed <= Allowed(attempt)
    BY <2>1, <2>2, AllowedSteps DEF Inv, Within
  <2> QED BY <2>1, <2>2, <2>3
<1>5. Inv /\ RecordInv /\ Rank = k /\ (left = 0 \/ ~InWait) => StepDue
  BY Counts DEF Rank, StepDue, InWait
<1>6. TimeGoesPast(Allowed(2)) => []<>(elapsed > Allowed(2) \/ left = 0 \/ ~InWait)
  BY PTL DEF TimeGoesPast
<1> HIDE DEF InWait
<1> QED
  BY <1>1, <1>2, <1>3, <1>4, <1>5, <1>6, RecordAlways, PTL DEF Spec, Polled, Leaves

(* Whatever the upstream does or leaves undone, and for every timeout: the    *)
(* head of an answer arrives or the call gives up, when time passes and the   *)
(* runtime polls the task (forward/mod.rs:140-184).                           *)
THEOREM CallEnds ==
    Spec /\ (\A n \in Nat : TimeGoesPast(n)) /\ Polled => HeadOrGiveUp
<1> DEFINE Hyps == Spec /\ TimeGoesPast(Allowed(2)) /\ Polled
<1>1. Spec /\ (\A n \in Nat : TimeGoesPast(n)) /\ Polled => Hyps
  <2>1. Allowed(2) \in Nat
    BY AllowedSteps
  <2>2. (\A n \in Nat : TimeGoesPast(n)) => TimeGoesPast(Allowed(2))
    BY <2>1
  <2> QED BY <2>2
<1>2. ASSUME NEW k \in 0..8
      PROVE  Hyps => Leaves(k)
  BY StageEnds
<1>3. Init => Rank = 1
  BY DEF Init, Rank
<1>4. ASSUME NEW k \in 0..8
      PROVE  Inv /\ RecordInv => (Rank > k => Rank = k + 1 \/ Rank > k + 1)
  BY Counts DEF Rank
<1>5. Hyps => [](Inv /\ RecordInv)
  BY RecordAlways, PTL
<1>6. Hyps => <>(Rank = 1)
  BY <1>3, PTL DEF Spec
<1> HIDE DEF Hyps
<1>7. Hyps => <>(Rank > 1)
  <2>1. Hyps => Leaves(1)
    BY <1>2
  <2> QED BY <1>6, <2>1, PTL DEF Leaves
<1>8. Hyps => <>(Rank > 2)
  <2>1. Hyps => Leaves(2)
    BY <1>2
  <2>2. Inv /\ RecordInv => (Rank > 1 => Rank = 2 \/ Rank > 2)
    BY <1>4
  <2> QED BY <1>5, <1>7, <2>1, <2>2, PTL DEF Leaves
<1>9. Hyps => <>(Rank > 3)
  <2>1. Hyps => Leaves(3)
    BY <1>2
  <2>2. Inv /\ RecordInv => (Rank > 2 => Rank = 3 \/ Rank > 3)
    BY <1>4
  <2> QED BY <1>5, <1>8, <2>1, <2>2, PTL DEF Leaves
<1>10. Hyps => <>(Rank > 4)
  <2>1. Hyps => Leaves(4)
    BY <1>2
  <2>2. Inv /\ RecordInv => (Rank > 3 => Rank = 4 \/ Rank > 4)
    BY <1>4
  <2> QED BY <1>5, <1>9, <2>1, <2>2, PTL DEF Leaves
<1>11. Hyps => <>(Rank > 5)
  <2>1. Hyps => Leaves(5)
    BY <1>2
  <2>2. Inv /\ RecordInv => (Rank > 4 => Rank = 5 \/ Rank > 5)
    BY <1>4
  <2> QED BY <1>5, <1>10, <2>1, <2>2, PTL DEF Leaves
<1>12. Hyps => <>(Rank > 6)
  <2>1. Hyps => Leaves(6)
    BY <1>2
  <2>2. Inv /\ RecordInv => (Rank > 5 => Rank = 6 \/ Rank > 6)
    BY <1>4
  <2> QED BY <1>5, <1>11, <2>1, <2>2, PTL DEF Leaves
<1>13. Hyps => <>(Rank > 7)
  <2>1. Hyps => Leaves(7)
    BY <1>2
  <2>2. Inv /\ RecordInv => (Rank > 6 => Rank = 7 \/ Rank > 7)
    BY <1>4
  <2> QED BY <1>5, <1>12, <2>1, <2>2, PTL DEF Leaves
<1>14. Hyps => <>(Rank > 8)
  <2>1. Hyps => Leaves(8)
    BY <1>2
  <2>2. Inv /\ RecordInv => (Rank > 7 => Rank = 8 \/ Rank > 8)
    BY <1>4
  <2> QED BY <1>5, <1>13, <2>1, <2>2, PTL DEF Leaves
<1>15. Inv /\ RecordInv => (Rank > 8 => phase \in {"reading", "done"})
  BY Counts DEF Rank
<1> QED BY <1>1, <1>5, <1>14, <1>15, PTL DEF HeadOrGiveUp
=============================================================================
