----------------------------- MODULE ClientPool -----------------------------
(* What the cache of HTTP clients promises its callers: there is at most one *)
(* client of a fingerprint, it is opened in the one instant it is first      *)
(* needed, everybody who asks for the fingerprint from then on is given that *)
(* client, and it is never replaced nor given to somebody who asked for      *)
(* another fingerprint.                                                      *)
CONSTANTS Callers,
          Prints,       \* fingerprints that may be asked for
          Handles       \* identities of clients

VARIABLES
    calling,    \* callers that wait for an answer
    want,       \* want[c]: the fingerprint of c's last call
    pool,       \* the clients in use, [handle, print]
    answer      \* answer[c]: the client c was given, as a set of at most one

pvars == <<calling, want, pool, answer>>

PlInit ==
    /\ calling = {} /\ pool = {}
    /\ want \in [Callers -> Prints]
    /\ answer = [c \in Callers |-> {}]

\* A call begins; one that is refused is over at once.
PlAsk(c, p) ==
    /\ c \notin calling
    /\ calling' \in {calling, calling \cup {c}}
    /\ want' = [want EXCEPT ![c] = p]
    /\ answer' = [answer EXCEPT ![c] = {}]
    /\ pool' = pool

PlAnswer(c, m) ==
    /\ c \in calling /\ calling' = calling \ {c}
    /\ answer' = [answer EXCEPT ![c] = {m}]
    /\ want' = want

\* The caller is given the client there is.
PlShare(c) ==
    \E m \in pool : m.print = want[c] /\ PlAnswer(c, m) /\ pool' = pool

\* There is none: a new one is opened, and the caller is given it.
PlOpen(c) ==
    \E h \in Handles :
        /\ \A m \in pool : m.print # want[c] /\ m.handle # h
        /\ pool' = pool \cup {[handle |-> h, print |-> want[c]]}
        /\ PlAnswer(c, [handle |-> h, print |-> want[c]])

\* No client can be opened: the caller gets none.
PlFail(c) ==
    /\ c \in calling /\ calling' = calling \ {c}
    /\ UNCHANGED <<want, pool, answer>>

PlNext ==
    \E c \in Callers :
        \/ PlShare(c) \/ PlOpen(c) \/ PlFail(c)
        \/ \E p \in Prints : PlAsk(c, p)

PlSpec == PlInit /\ [][PlNext]_pvars
=============================================================================
