------------------------------- MODULE Forward -------------------------------
(* One buffered request of the FFI (proxy_send_request): the attempts, their  *)
(* timeouts, the backoff between them and the read of the answer              *)
(* (proxy/forward/mod.rs).  The upstream may execute a request long after its *)
(* attempt was given up.  A response of the TLS diagnostics service carries    *)
(* the JA4 it reports.  Time is counted in units of 100 ms.                   *)
EXTENDS Integers, FiniteSets

CONSTANTS Timeout       \* effective_timeout: each attempt has it anew

ASSUME ForwardAssumption == Timeout \in Nat \ {0}

VARIABLES
    method,     \* "idempotent" (GET, HEAD, OPTIONS, PUT, DELETE) or "other"
    large,      \* the body is longer than MAX_RETRY_BODY_SIZE
    target,     \* "diagnostics": https://tls.peet.ws/api/all, or "other"
    phase,      \* "ready", "sending", "backoff", "reading", "done"
    attempt,    \* the attempt under way
    left,       \* time left of the attempt's timeout or of the backoff
    elapsed,    \* time since the call, until the answer is read
    wire,       \* attempts whose request is on its way
    ran,        \* attempts whose request the upstream executed
    result,     \* "none", "success" (2xx), "answer" (1xx, 3xx, 4xx),
                \* "server error", "error", "timeout"
    from,       \* who answered: "nobody", the "target", or one it redirects to
    ja4         \* the response record carries a JA4

request == <<method, large, target>>
upstream == <<wire, ran>>
record == <<from, ja4>>
vars == <<request, phase, attempt, left, elapsed, upstream, result, record>>

Results == {"none", "success", "answer", "server error", "error", "timeout"}

\* Mutated: the size of the body is not looked at.
MaxRetries_anySize == IF method = "idempotent" THEN 2 ELSE 1

MaxRetries == IF method = "idempotent" THEN 2 ELSE IF large THEN 0 ELSE 1

Backoff(n) == IF n = 1 THEN 1 ELSE 4

\* All the time the attempts up to n may take.
Allowed(n) == (n + 1) * Timeout + (IF n >= 1 THEN 1 ELSE 0) + (IF n = 2 THEN 4 ELSE 0)

TypeOK ==
    /\ method \in {"idempotent", "other"} /\ large \in BOOLEAN
    /\ phase \in {"ready", "sending", "backoff", "reading", "done"}
    /\ attempt \in 0..2
    /\ left \in 0..Timeout + 4
    /\ elapsed \in 0..Allowed(2)
    /\ wire \subseteq 0..2 /\ ran \subseteq 0..2
    /\ result \in Results
    /\ target \in {"diagnostics", "other"}
    /\ from \in {"nobody", "target", "redirected"} /\ ja4 \in BOOLEAN

Init ==
    /\ method \in {"idempotent", "other"} /\ large \in BOOLEAN
    /\ phase = "ready" /\ attempt = 0 /\ left = 0 /\ elapsed = 0
    /\ wire = {} /\ ran = {}
    /\ result = "none"
    /\ target \in {"diagnostics", "other"} /\ from = "nobody" /\ ja4 = FALSE

-----------------------------------------------------------------------------
(* The loop of forward_request.                                              *)

GiveUp(r) ==
    /\ phase' = "done" /\ result' = r
    /\ UNCHANGED <<attempt, left, record>>

\* No client for the profile, an invalid URL or method.
Refused ==
    /\ phase = "ready" /\ attempt = 0
    /\ GiveUp("error")
    /\ UNCHANGED <<request, elapsed, upstream>>

Send ==
    /\ phase = "ready"
    /\ phase' = "sending" /\ left' = Timeout
    /\ wire' = wire \cup {attempt}
    /\ UNCHANGED <<request, attempt, elapsed, ran, result, record>>

\* Mutated: the limit is compared with the next attempt, one too late.
Again_oneMore ==
    /\ attempt <= MaxRetries
    /\ attempt' = attempt + 1
    /\ phase' = "backoff" /\ left' = Backoff(attempt + 1)
    /\ UNCHANGED <<result, record>>

\* The next attempt, after its backoff.
Again ==
    /\ attempt < MaxRetries
    /\ attempt' = attempt + 1
    /\ phase' = "backoff" /\ left' = Backoff(attempt + 1)
    /\ UNCHANGED <<result, record>>

\* The request fails: transient errors are retried, others are not.
SendFails ==
    /\ phase = "sending"
    /\ \/ Again
       \/ GiveUp("error")
    /\ UNCHANGED <<request, elapsed, upstream>>

\* Mutated: the last attempt has no timeout.
TimedOut_lastWaits ==
    /\ phase = "sending" /\ left = 0
    /\ Again
    /\ UNCHANGED <<request, elapsed, upstream>>

TimedOut ==
    /\ phase = "sending" /\ left = 0
    /\ IF attempt < MaxRetries THEN Again ELSE GiveUp("timeout")
    /\ UNCHANGED <<request, elapsed, upstream>>

\* Mutated: redirects are followed, as wreq's default policy would.
Answerers_redirects == {"target", "redirected"}

\* The client follows no redirect: whoever answers is the target.
Answerers == {"target"}

\* The head of an answer arrives, and is what the caller gets.
Head(r) ==
    /\ phase' = "reading" /\ result' = r
    /\ from' \in Answerers
    /\ UNCHANGED <<attempt, left, ja4>>

\* The upstream answers the current attempt; a server error is retried, and
\* returned when no retry is left.
Responds ==
    /\ phase = "sending" /\ attempt \in ran
    /\ \/ Head("success") \/ Head("answer")
       \/ attempt = MaxRetries /\ Head("server error")
       \/ Again
    /\ UNCHANGED <<request, elapsed, upstream>>

BackoffEnds ==
    /\ phase = "backoff" /\ left = 0
    /\ phase' = "ready"
    /\ UNCHANGED <<request, attempt, left, elapsed, upstream, result, record>>

\* diagnostic_ja4: only a success of the diagnostics service is read for a JA4,
\* which may be missing or malformed.
Diagnostic == target = "diagnostics" /\ result = "success"

\* convert_response: the body is read without a deadline.
BodyRead ==
    /\ phase = "reading" /\ phase' = "done"
    /\ \/ result' = "error" /\ ja4' = FALSE
       \/ result' = result /\ ja4' \in (IF Diagnostic THEN BOOLEAN ELSE {FALSE})
    /\ UNCHANGED <<request, attempt, left, elapsed, upstream, from>>

-----------------------------------------------------------------------------
(* The environment: time and the upstream.                                   *)

Tick ==
    /\ phase \in {"sending", "backoff"} /\ left > 0
    /\ left' = left - 1 /\ elapsed' = elapsed + 1
    /\ UNCHANGED <<request, phase, attempt, upstream, result, record>>

\* A request that was sent is executed, even after its attempt was given up.
Executes(a) ==
    /\ a \in wire
    /\ wire' = wire \ {a} /\ ran' = ran \cup {a}
    /\ UNCHANGED <<request, phase, attempt, left, elapsed, result, record>>

\* What the task does by itself.
Step == Send \/ TimedOut \/ BackoffEnds

Next == Refused \/ Step \/ SendFails \/ Responds \/ BodyRead \/ Tick \/ \E a \in 0..2 : Executes(a)

Spec == Init /\ [][Next]_vars

\* Time passes and the runtime polls the task; the upstream owes nothing.
FairSpec == Spec /\ WF_vars(Tick) /\ WF_vars(Step)

-----------------------------------------------------------------------------
(* Properties.                                                               *)

\* However late the upstream executes what it was sent, a request that is
\* neither idempotent nor small is executed once at most (forward/mod.rs:140).
LargeRunsOnce == (method = "other" /\ large) => Cardinality(ran \cup wire) <= 1

\* Until the answer's head has arrived the call never takes longer than the
\* timeouts of the attempts made and the backoffs between them: a retry is never
\* added to one that has run out, and no wait is counted twice (154-184).
WaitBound == elapsed + (IF phase = "sending" THEN left ELSE 0) <= Allowed(MaxRetries)

\* The head of an answer arrives, or the call gives up, even when no upstream
\* ever answers.
HeadOrGiveUp == <>(phase \in {"reading", "done"})

\* The steps the call may still take by itself, timer ticks included. Everything but
\* the upstream, which owes nothing and may act late, takes one of them: no retry
\* starts the count again, and a call that has none left is over (140-184).
StepsLeft ==
    (IF attempt = 0 THEN 2 * (Timeout + 7) ELSE IF attempt = 1 THEN Timeout + 7 ELSE 0)
      + (IF phase = "ready" THEN Timeout + 3 ELSE IF phase = "sending" THEN left + 2
         ELSE IF phase = "backoff" THEN left + Timeout + 4 ELSE IF phase = "reading" THEN 1 ELSE 0)
Counted == StepsLeft' \in Nat /\ StepsLeft' < StepsLeft
RunsDown == [][Counted \/ \E a \in 0..2 : Executes(a) /\ StepsLeft' = StepsLeft]_vars

\* A JA4 in the record is what the trusted diagnostics service said of this very
\* call: it was asked, it answered itself and with success. The endpoint is
\* compared with the URL that was asked for (forward/mod.rs:58-69), so this rests
\* on the client's redirect policy (transport.rs:29).
Ja4IsTrusted ==
    ja4 => target = "diagnostics" /\ from = "target" /\ result = "success"
=============================================================================
