---------------------------- MODULE ProxyControl ----------------------------
(* What the control interface of the embedded proxy promises its callers:   *)
(* start_local_server, stop_local_server and server_status behave as atomic *)
(* operations on one cell that holds the address being served, or none.     *)
(* A stop takes effect at some moment between its call and its return.      *)
EXTENDS Integers

CONSTANTS Callers,      \* threads of the host that call the exported functions
          Addrs,        \* socket addresses a server can be bound to
          NoAddr        \* the absence of an address (Option::None)

VARIABLES up,           \* the address served, or NoAddr
          call,         \* call[c]: the operation caller c is inside, or "idle"
          reply         \* reply[c]: what the last operation of c returned

cvars == <<up, call, reply>>

Operations == {"start", "stop", "status"}
Reply(r, a) == [running |-> r, addr |-> a]
Replies == [running : BOOLEAN, addr : Addrs \cup {NoAddr}]

CtlInit ==
    /\ up = NoAddr
    /\ call = [c \in Callers |-> "idle"]
    /\ reply = [c \in Callers |-> Reply(FALSE, NoAddr)]

CtlCall(c, op) ==
    /\ call[c] = "idle"
    /\ call' = [call EXCEPT ![c] = op]
    /\ reply' = [reply EXCEPT ![c] = Reply(FALSE, NoAddr)]
    /\ up' = up

Answer(c, r) ==
    /\ call' = [call EXCEPT ![c] = "idle"]
    /\ reply' = [reply EXCEPT ![c] = r]

\* A start finds a server running and names its address, starts one, or fails.
CtlStart(c) ==
    /\ call[c] = "start"
    /\ \/ up # NoAddr /\ up' = up /\ Answer(c, Reply(TRUE, up))
       \/ up = NoAddr /\ up' = up /\ Answer(c, Reply(FALSE, NoAddr))
       \/ \E a \in Addrs : up = NoAddr /\ up' = a /\ Answer(c, Reply(TRUE, a))

CtlStatus(c) ==
    /\ call[c] = "status"
    /\ up' = up
    /\ Answer(c, Reply(up # NoAddr, up))

\* A stop takes effect, then returns; it may do both at once.
CtlStopEffect(c) ==
    /\ call[c] = "stop"
    /\ up' = NoAddr
    /\ call' = [call EXCEPT ![c] = "stopping"]
    /\ reply' = reply

CtlStopNoop(c) ==
    /\ call[c] = "stop"
    /\ up = NoAddr
    /\ up' = up
    /\ Answer(c, Reply(FALSE, NoAddr))

CtlStopReturn(c) ==
    /\ call[c] = "stopping"
    /\ up' = up
    /\ \E a \in Addrs : Answer(c, Reply(FALSE, a))

CtlNext ==
    \E c \in Callers :
        \/ \E op \in Operations : CtlCall(c, op)
        \/ CtlStart(c) \/ CtlStatus(c)
        \/ CtlStopEffect(c) \/ CtlStopNoop(c) \/ CtlStopReturn(c)

CtlSpec == CtlInit /\ [][CtlNext]_cvars
=============================================================================
