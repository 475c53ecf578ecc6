--------------------------- MODULE ServerLifecycle ---------------------------
(* The lifecycle of the embedded proxy server (proxy/server/mod.rs and the   *)
(* ServerState of lib.rs): the exported start, stop and status functions,    *)
(* called by any thread of the host, share one mutex; every successful start *)
(* spawns a server task (a "generation") that owns a listening socket and    *)
(* its connection tasks; a stop signals the generation over a oneshot, keeps *)
(* the mutex and waits a bounded time for the completion message, while the  *)
(* server task closes the listener, lets its connections finish for a grace  *)
(* period and aborts the rest.                                               *)
EXTENDS Integers

CONSTANTS Callers,      \* threads of the host inside the exported functions
          Addrs,        \* loopback socket addresses
          Conns,        \* identities of connection tasks (bounds how many live at once)
          MaxServers,   \* bound: successful starts in a behaviour
          Grace,        \* CONNECTION_SHUTDOWN_GRACE, in ticks
          StopTimeout,  \* SERVER_STOP_TIMEOUT, in ticks
          NoAddr,       \* Option::None for an address
          NoCaller      \* the mutex is free

Gens == 1..MaxServers
NoGen == 0
External == -1          \* owner of a socket that belongs to another process

ASSUME LifecycleAssumption ==
    /\ MaxServers \in Nat
    /\ Grace \in Nat /\ StopTimeout \in Nat
    /\ NoAddr \notin Addrs
    /\ NoCaller \notin Callers
    /\ \A s \in {"port0", "unparsable", "remote"} : s \notin Addrs

\* What a caller may pass as listen_addr: an address, 127.0.0.1:0, a text
\* that is no socket address, an address that is not loopback.
ListenArgs == Addrs \cup {"port0", "unparsable", "remote"}

VARIABLES
    running, listenAddr, shutdown,  \* ServerState (shutdown: the generation it can stop)
    lock,                           \* who holds SERVER_STATE's mutex across a wait
    pc, arg, reply,                 \* the callers: operation, argument, last result
    taken, previous,                \* locals of stop: the handle and address it took
    waited,                         \* ticks spent in completion.recv_timeout
    phase, grace,                   \* each server task: where it is, ticks of its drain
    socket,                         \* socket[a]: who is bound to address a
    conn,                           \* conn[k]: the generation whose JoinSet holds task k
    runtimeOk,                      \* the lazily built RUNTIME is Ok
    prompt                          \* the runtime is responsive, see Overdue

stateVars == <<running, listenAddr, shutdown>>
callerVars == <<pc, arg, reply, taken, previous>>
serverVars == <<phase, grace, conn>>
machine == <<runtimeOk, prompt>>
vars == <<stateVars, lock, callerVars, waited, serverVars, socket, machine>>

Ops == {"start", "stop", "status"}
Notes == {"none", "already running", "invalid address", "not loopback", "no runtime",
          "bind failed", "started", "stopped", "stop timed out", "not running", "status"}
Reply(r, a, n) == [running |-> r, addr |-> a, note |-> n]
NoReply == Reply(FALSE, NoAddr, "none")

TypeOK ==
    /\ running \in BOOLEAN
    /\ listenAddr \in Addrs \cup {NoAddr}
    /\ shutdown \in Gens \cup {NoGen}
    /\ lock \in Callers \cup {NoCaller}
    /\ pc \in [Callers -> Ops \cup {"idle", "stopping"}]
    /\ arg \in [Callers -> ListenArgs \cup {NoAddr}]
    /\ reply \in [Callers -> [running : BOOLEAN, addr : Addrs \cup {NoAddr}, note : Notes]]
    /\ taken \in [Callers -> Gens \cup {NoGen}]
    /\ previous \in [Callers -> Addrs \cup {NoAddr}]
    /\ waited \in 0..StopTimeout
    /\ phase \in [Gens -> {"unborn", "serving", "signalled", "draining", "aborting", "done"}]
    /\ grace \in [Gens -> 0..Grace]
    /\ socket \in [Addrs -> Gens \cup {NoGen, External}]
    /\ conn \in [Conns -> Gens \cup {NoGen}]
    /\ runtimeOk \in BOOLEAN /\ prompt \in BOOLEAN

Init ==
    /\ running = FALSE /\ listenAddr = NoAddr /\ shutdown = NoGen
    /\ lock = NoCaller
    /\ pc = [c \in Callers |-> "idle"]
    /\ arg = [c \in Callers |-> NoAddr]
    /\ reply = [c \in Callers |-> NoReply]
    /\ taken = [c \in Callers |-> NoGen]
    /\ previous = [c \in Callers |-> NoAddr]
    /\ waited = 0
    /\ phase = [g \in Gens |-> "unborn"]
    /\ grace = [g \in Gens |-> 0]
    /\ socket = [a \in Addrs |-> NoGen]
    /\ conn = [k \in Conns |-> NoGen]
    /\ runtimeOk \in BOOLEAN /\ prompt \in BOOLEAN

-----------------------------------------------------------------------------
(* Callers.                                                                  *)

\* A thread of the host enters one of the exported functions.
Call(c, op, a) ==
    /\ pc[c] = "idle"
    /\ pc' = [pc EXCEPT ![c] = op]
    /\ arg' = [arg EXCEPT ![c] = IF op = "start" THEN a ELSE NoAddr]
    /\ reply' = [reply EXCEPT ![c] = NoReply]
    /\ UNCHANGED <<stateVars, lock, taken, previous, waited, serverVars, socket, machine>>

Return(c, r) ==
    /\ pc' = [pc EXCEPT ![c] = "idle"]
    /\ arg' = [arg EXCEPT ![c] = NoAddr]
    /\ reply' = [reply EXCEPT ![c] = r]

\* The early returns of start, in the order of the code.
StartRefusal(c) ==
    IF running THEN Reply(TRUE, listenAddr, "already running")
    ELSE IF arg[c] = "unparsable" THEN Reply(FALSE, NoAddr, "invalid address")
    ELSE IF arg[c] = "remote" THEN Reply(FALSE, NoAddr, "not loopback")
    ELSE Reply(FALSE, NoAddr, "no runtime")

StartRefused(c) ==
    /\ pc[c] = "start" /\ lock = NoCaller
    /\ running \/ arg[c] \in {"unparsable", "remote"} \/ ~runtimeOk
    /\ Return(c, StartRefusal(c))
    /\ UNCHANGED <<stateVars, lock, taken, previous, waited, serverVars, socket, machine>>

\* Port 0 lets the system choose any free address.
Candidates(c) == IF arg[c] = "port0" THEN Addrs ELSE {arg[c]} \cap Addrs

\* Mutated: the guard on state.running is forgotten.
MayBind_unguarded(c) ==
    /\ pc[c] = "start" /\ lock = NoCaller
    /\ runtimeOk
    /\ arg[c] \in Addrs \cup {"port0"}

MayBind(c) ==
    /\ pc[c] = "start" /\ lock = NoCaller
    /\ ~running /\ runtimeOk
    /\ arg[c] \in Addrs \cup {"port0"}

StartBindFailed(c) ==
    /\ MayBind(c)
    /\ \A a \in Candidates(c) : socket[a] # NoGen
    /\ Return(c, Reply(FALSE, NoAddr, "bind failed"))
    /\ UNCHANGED <<stateVars, lock, taken, previous, waited, serverVars, socket, machine>>

\* The bind succeeds: the server task is spawned and the state records it.
StartBound(c, a, g) ==
    /\ MayBind(c)
    /\ a \in Candidates(c) /\ socket[a] = NoGen
    /\ phase[g] = "unborn" /\ \A h \in Gens : h < g => phase[h] # "unborn"
    /\ socket' = [socket EXCEPT ![a] = g]
    /\ phase' = [phase EXCEPT ![g] = "serving"]
    /\ running' = TRUE /\ listenAddr' = a /\ shutdown' = g
    /\ Return(c, Reply(TRUE, a, "started"))
    /\ UNCHANGED <<lock, taken, previous, waited, grace, conn, machine>>

\* Mutated: status reads the state although a stop holds the mutex.
Status_unlocked(c) ==
    /\ pc[c] = "status"
    /\ Return(c, Reply(running, listenAddr, "status"))
    /\ UNCHANGED <<stateVars, lock, taken, previous, waited, serverVars, socket, machine>>

Status(c) ==
    /\ pc[c] = "status" /\ lock = NoCaller
    /\ Return(c, Reply(running, listenAddr, "status"))
    /\ UNCHANGED <<stateVars, lock, taken, previous, waited, serverVars, socket, machine>>

\* stop takes the address and the handle, signals, and waits holding the mutex.
StopSignal(c) ==
    /\ pc[c] = "stop" /\ lock = NoCaller
    /\ shutdown # NoGen
    /\ lock' = c
    /\ previous' = [previous EXCEPT ![c] = listenAddr]
    /\ taken' = [taken EXCEPT ![c] = shutdown]
    /\ listenAddr' = NoAddr /\ shutdown' = NoGen
    /\ phase' = [phase EXCEPT ![shutdown] = "signalled"]
    /\ waited' = 0
    /\ pc' = [pc EXCEPT ![c] = "stopping"]
    /\ UNCHANGED <<running, arg, reply, grace, conn, socket, machine>>

StopNotRunning(c) ==
    /\ pc[c] = "stop" /\ lock = NoCaller
    /\ shutdown = NoGen
    /\ running' = FALSE /\ listenAddr' = NoAddr
    /\ Return(c, Reply(FALSE, listenAddr, "not running"))
    /\ UNCHANGED <<shutdown, lock, taken, previous, waited, serverVars, socket, machine>>

EndStop(c, note) ==
    /\ Return(c, Reply(FALSE, previous[c], note))
    /\ lock' = NoCaller
    /\ taken' = [taken EXCEPT ![c] = NoGen]
    /\ previous' = [previous EXCEPT ![c] = NoAddr]
    /\ waited' = 0
    /\ UNCHANGED <<listenAddr, shutdown, serverVars, socket, machine>>

\* Mutated: state.running is cleared only when the completion arrived.
StopReturn_flagKept(c) ==
    /\ pc[c] = "stopping"
    /\ \/ phase[taken[c]] = "done" /\ running' = FALSE /\ EndStop(c, "stopped")
       \/ /\ phase[taken[c]] # "done" /\ waited = StopTimeout
          /\ running' = running /\ EndStop(c, "stop timed out")

\* Mutated: recv instead of recv_timeout.
StopReturn_noTimeout(c) ==
    /\ pc[c] = "stopping" /\ phase[taken[c]] = "done"
    /\ running' = FALSE
    /\ EndStop(c, "stopped")

\* The completion message is looked for before the deadline is.
StopReturn(c) ==
    /\ pc[c] = "stopping"
    /\ running' = FALSE
    /\ \/ phase[taken[c]] = "done" /\ EndStop(c, "stopped")
       \/ /\ phase[taken[c]] # "done" /\ waited = StopTimeout
          /\ EndStop(c, "stop timed out")

-----------------------------------------------------------------------------
(* Server tasks.                                                             *)

Live(g) == {k \in Conns : conn[k] = g}

\* The select loop is unbiased: it may accept after the signal was sent.
Accept(g, k) ==
    /\ phase[g] \in {"serving", "signalled"}
    /\ conn[k] = NoGen
    /\ conn' = [conn EXCEPT ![k] = g]
    /\ UNCHANGED <<stateVars, lock, callerVars, waited, phase, grace, socket, machine>>

ConnEnds(k) ==
    /\ conn' = [conn EXCEPT ![k] = NoGen]
    /\ UNCHANGED <<stateVars, lock, callerVars, waited, phase, grace, socket, machine>>

\* A connection ends because its peer closed it, at the watch signal, or at an abort.
ConnClosed(k) == conn[k] # NoGen /\ ConnEnds(k)
ConnObeysShutdown(k) ==
    conn[k] # NoGen /\ phase[conn[k]] = "draining" /\ ConnEnds(k)
ConnAborted(k) ==
    conn[k] # NoGen /\ phase[conn[k]] = "aborting" /\ ConnEnds(k)

\* Mutated: the listener is kept until the drain ends (drop(listener) lost).
BeginDrain_keepsListener(g) ==
    /\ phase[g] = "signalled"
    /\ phase' = [phase EXCEPT ![g] = "draining"]
    /\ grace' = [grace EXCEPT ![g] = 0]
    /\ UNCHANGED <<stateVars, lock, callerVars, waited, conn, socket, machine>>

\* The signal is seen: tell the connections, leave the loop, drop the listener.
BeginDrain(g) ==
    /\ phase[g] = "signalled"
    /\ phase' = [phase EXCEPT ![g] = "draining"]
    /\ grace' = [grace EXCEPT ![g] = 0]
    /\ socket' = [a \in Addrs |-> IF socket[a] = g THEN NoGen ELSE socket[a]]
    /\ UNCHANGED <<stateVars, lock, callerVars, waited, conn, machine>>

\* Mutated: the grace period ends the task without aborting and joining.
DrainTimeout_noAbort(g) ==
    /\ phase[g] = "draining" /\ Live(g) # {} /\ grace[g] = Grace
    /\ phase' = [phase EXCEPT ![g] = "done"]
    /\ grace' = [grace EXCEPT ![g] = 0]
    /\ UNCHANGED <<stateVars, lock, callerVars, waited, conn, socket, machine>>

\* Mutated: the connections are granted the grace period again and again.
DrainTimeout_again(g) ==
    /\ phase[g] = "draining" /\ Live(g) # {} /\ grace[g] = Grace
    /\ grace' = [grace EXCEPT ![g] = 0]
    /\ UNCHANGED <<stateVars, lock, callerVars, waited, phase, conn, socket, machine>>

DrainTimeout(g) ==
    /\ phase[g] = "draining" /\ Live(g) # {} /\ grace[g] = Grace
    /\ phase' = [phase EXCEPT ![g] = "aborting"]
    /\ grace' = [grace EXCEPT ![g] = 0]
    /\ UNCHANGED <<stateVars, lock, callerVars, waited, conn, socket, machine>>

\* Every connection is joined: the completion message is sent.
Complete(g) ==
    /\ phase[g] \in {"draining", "aborting"} /\ Live(g) = {}
    /\ phase' = [phase EXCEPT ![g] = "done"]
    /\ grace' = [grace EXCEPT ![g] = 0]
    /\ UNCHANGED <<stateVars, lock, callerVars, waited, conn, socket, machine>>

-----------------------------------------------------------------------------
(* The environment: other processes' sockets, and time.                      *)

ExternalBind(a) ==
    /\ socket[a] = NoGen /\ socket' = [socket EXCEPT ![a] = External]
    /\ UNCHANGED <<stateVars, lock, callerVars, waited, serverVars, machine>>

ExternalRelease(a) ==
    /\ socket[a] = External /\ socket' = [socket EXCEPT ![a] = NoGen]
    /\ UNCHANGED <<stateVars, lock, callerVars, waited, serverVars, machine>>

Timing(g) == phase[g] = "draining" /\ grace[g] < Grace

\* Mutated: the deadline of the wait is not looked at.
Waiting_unbounded == lock # NoCaller

Waiting == lock # NoCaller /\ waited < StopTimeout

\* A responsive runtime: within a tick the server task and the waiting thread
\* take every step they can and an aborted task is gone. A connection task may
\* still ignore the shutdown signal for as long as it likes.
Overdue ==
    \/ \E g \in Gens : \/ phase[g] \in {"signalled", "aborting"}
                       \/ phase[g] = "draining" /\ (Live(g) = {} \/ grace[g] = Grace)
    \/ \E c \in Callers : /\ pc[c] = "stopping"
                          /\ phase[taken[c]] = "done" \/ waited = StopTimeout

Tick ==
    /\ prompt => ~Overdue
    /\ Waiting \/ \E g \in Gens : Timing(g)
    /\ waited' = IF Waiting THEN waited + 1 ELSE waited
    /\ grace' = [g \in Gens |-> IF Timing(g) THEN grace[g] + 1 ELSE grace[g]]
    /\ UNCHANGED <<stateVars, lock, callerVars, phase, conn, socket, machine>>

-----------------------------------------------------------------------------
CallerStep(c) ==
    \/ \E op \in Ops, a \in ListenArgs : Call(c, op, a)
    \/ StartRefused(c) \/ StartBindFailed(c)
    \/ \E a \in Addrs, g \in Gens : StartBound(c, a, g)
    \/ Status(c)
    \/ StopSignal(c) \/ StopNotRunning(c) \/ StopReturn(c)

ServerStep(g) ==
    \/ \E k \in Conns : Accept(g, k)
    \/ BeginDrain(g) \/ DrainTimeout(g) \/ Complete(g)

ConnStep(k) == ConnClosed(k) \/ ConnObeysShutdown(k) \/ ConnAborted(k)

Step ==
    \/ \E c \in Callers : CallerStep(c)
    \/ \E g \in Gens : ServerStep(g)
    \/ \E k \in Conns : ConnStep(k)
    \/ \E a \in Addrs : ExternalBind(a) \/ ExternalRelease(a)

Next == Step \/ Tick

\* Time passes and the operating system keeps scheduling the thread inside
\* stop; nothing is asked of the runtime.
CallerFairness == WF_vars(Tick) /\ \A c \in Callers : WF_vars(StopReturn(c))

\* The runtime's workers keep polling ready tasks and drop aborted ones. Nothing
\* makes a connection end by itself or obey the shutdown signal.
RuntimeFairness ==
    /\ \A g \in Gens : WF_vars(BeginDrain(g) \/ DrainTimeout(g) \/ Complete(g))
    /\ \A k \in Conns : WF_vars(ConnAborted(k))

Spec == Init /\ [][Next]_vars

\* The runtime may be stuck: it is not a prompt one, and nothing makes it poll.
\* Without the urgency of Tick there are only more behaviours.
StuckInit == Init /\ ~prompt
StuckRuntimeSpec == StuckInit /\ [][Next]_vars /\ CallerFairness

-----------------------------------------------------------------------------
(* Properties.                                                               *)

\* With the mutex free, the status the API reports is the truth: running with
\* an address exactly when the recorded handle stops a task that is accepting
\* on that very address (server_status and the "already running" reply of start).
StatusIsTruth ==
    lock = NoCaller =>
        /\ running <=> shutdown # NoGen
        /\ running <=> listenAddr # NoAddr
        /\ running => phase[shutdown] = "serving" /\ socket[listenAddr] = shutdown

\* No server task is ever out of reach: one that has not been told to stop is
\* the one recorded in the state, so a stop can still end it; in particular two
\* generations never accept side by side unless one is being stopped.
NoOrphanServer ==
    \A g \in Gens : phase[g] = "serving" => shutdown = g

\* A generation that has let go of its listener never holds a socket again, and
\* one that sent its completion message has no connection task left.
CompletionMeansQuiet ==
    \A g \in Gens :
        /\ phase[g] \in {"draining", "aborting", "done"} => \A a \in Addrs : socket[a] # g
        /\ phase[g] = "done" => Live(g) = {}

\* A stop that reports "stopped" leaves nothing of the server behind: at its
\* return no task of the generation it stopped lives and its address is free
\* for an immediate restart, unless another process already took it.
StoppedFrees(c) ==
    (pc[c] = "stopping" /\ pc'[c] = "idle" /\ reply'[c].note = "stopped") =>
        /\ Live(taken[c]) = {}
        /\ socket[previous[c]] \notin Gens
StopFreesAll == \A c \in Callers : StoppedFrees(c)
StoppedMeansFree == [][StopFreesAll]_vars

\* The documented promise of an immediate restart: on a responsive runtime, a
\* start of a stopped server at an address no other process holds is never
\* refused for the address being in use.
ImmediateRestart ==
    [][\A c \in Callers :
         (prompt /\ MayBind(c) /\ reply'[c].note = "bind failed")
            => \A a \in Candidates(c) : socket[a] = External]_vars

\* The stop timeout leaves room for the drain's grace period and the abort: on
\* a responsive runtime no stop is ever reported as timed out, however long
\* connections ignore the shutdown signal.
StopNeverTimesOut ==
    prompt => \A c \in Callers : reply[c].note # "stop timed out"

\* The mutex held across a stop is always released, so the calls queued behind
\* it (status is on the path of every request of the host) can go on.
StopTerminates ==
    \A c \in Callers : pc[c] = "stopping" ~> pc[c] # "stopping"

\* On a runtime that polls its tasks, a generation told to stop ends, whatever
\* its connections do.
SignalledServerEnds ==
    RuntimeFairness => \A g \in Gens : phase[g] = "signalled" ~> phase[g] = "done"

\* The three exported functions are linearizable operations on one cell.
Up == IF shutdown = NoGen THEN NoAddr ELSE listenAddr
Shown == [c \in Callers |-> [running |-> reply[c].running, addr |-> reply[c].addr]]
Control == INSTANCE ProxyControl WITH up <- Up, call <- pc, reply <- Shown
ControlSpec == Control!CtlSpec
=============================================================================
