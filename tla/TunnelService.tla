---------------------------- MODULE TunnelService ----------------------------
(* What the proxy promises of the WebSocket tunnels of one connection: a     *)
(* tunnel is announced only by a task that is there, carries traffic after   *)
(* it was announced, is over once and for good; the task takes every tunnel  *)
(* with it when it returns by itself, and soon after when it is aborted.     *)
CONSTANT Reqs           \* tunnel requests of the client

VARIABLES service,      \* "serving", "aborted", "returned"
          tunnel        \* tunnel[r]: "none", "announced", "carrying", "over"

tvars == <<service, tunnel>>

TsInit ==
    /\ service = "serving"
    /\ tunnel = [r \in Reqs |-> "none"]

Becomes(r, what) == tunnel' = [tunnel EXCEPT ![r] = what] /\ service' = service

TsAnnounce(r) ==
    service = "serving" /\ tunnel[r] = "none" /\ Becomes(r, "announced")

\* An aborted task's bridge may still start before it meets its next await.
TsCarry(r) ==
    service # "returned" /\ tunnel[r] = "announced" /\ Becomes(r, "carrying")

TsOver(r) ==
    service # "returned" /\ tunnel[r] \in {"announced", "carrying"} /\ Becomes(r, "over")

\* The task ends: tunnels it had no time to take in hand are over at once, and
\* nothing is left of one that returns by itself.
TsEnd(how) ==
    /\ service = "serving" /\ service' = how
    /\ \E unserved \in SUBSET {r \in Reqs : tunnel[r] = "announced"} :
         tunnel' = [r \in Reqs |-> IF r \in unserved THEN "over" ELSE tunnel[r]]
    /\ how = "returned" => \A r \in Reqs : tunnel'[r] \in {"none", "over"}

TsNext ==
    \/ \E r \in Reqs : TsAnnounce(r) \/ TsCarry(r) \/ TsOver(r)
    \/ TsEnd("returned") \/ TsEnd("aborted")

TsSpec == TsInit /\ [][TsNext]_tvars
=============================================================================
