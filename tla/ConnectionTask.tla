--------------------------- MODULE ConnectionTask ---------------------------
(* One accepted connection (proxy/server/connection.rs) and the WebSocket    *)
(* tunnels opened on it (proxy/websocket/mod.rs). The task runs a biased     *)
(* select loop over the shutdown signal, a bounded channel of bridge jobs,   *)
(* the HTTP connection and a JoinSet of bridges. Handlers open the tunnel    *)
(* upstream and hand the two ends over through the channel: on HTTP/1.1 they *)
(* run inside the poll of the connection, on HTTP/2 as detached tasks.       *)
EXTENDS Integers, FiniteSets

CONSTANTS Reqs,         \* tunnel requests of the client (bounds how many arrive)
          Cap           \* capacity of the bridge channel (1 in the source)

ASSUME ConnectionAssumption == IsFiniteSet(Reqs) /\ Cap \in Nat \ {0}

VARIABLES
    proto,        \* "h1" or "h2": what the client speaks on this connection
    pc,           \* the task: "loop", "inConn" (polling the connection), "closing", ended
    shutdown,     \* the watch channel says true
    conn,         \* the HTTP connection: "open", "gone" (peer left), "upgraded" (h1)
    finished,     \* connection_finished
    channelOpen,  \* bridge_channel_open
    handler,      \* handler[r]: where websocket::proxy is with request r
    told,         \* told[r]: what the handler answered
    inbound,      \* inbound[r]: the client's side of the upgrade
    channel,      \* jobs sent over bridge_tx and not yet received
    bridge        \* bridge[r]: the bridge of r; "lost" when its job was dropped

hvars == <<handler, told>>
lvars == <<pc, finished, channelOpen>>
vars == <<proto, shutdown, conn, lvars, hvars, inbound, channel, bridge>>

Active == {"upstream", "upgrade", "send"}
Running == {"waiting", "tunnel"}
Ended == {"returned", "aborted"}

\* The channel is bounded: a send waits for room.
RoomOK == Cardinality(channel) <= Cap

TypeOK ==
    /\ proto \in {"h1", "h2"}
    /\ pc \in {"loop", "inConn", "closing"} \cup Ended
    /\ shutdown \in BOOLEAN /\ finished \in BOOLEAN /\ channelOpen \in BOOLEAN
    /\ conn \in {"open", "gone", "upgraded"}
    /\ handler \in [Reqs -> {"none", "done", "dropped"} \cup Active]
    /\ told \in [Reqs -> {"nothing", "opened", "error"}]
    /\ inbound \in [Reqs -> {"pending", "ready", "failed"}]
    /\ channel \subseteq Reqs /\ RoomOK
    /\ bridge \in [Reqs -> {"none", "ended", "cancelled", "joined", "lost"} \cup Running]

Init ==
    /\ proto \in {"h1", "h2"}
    /\ pc = "loop" /\ shutdown = FALSE /\ conn = "open"
    /\ finished = FALSE /\ channelOpen = TRUE
    /\ handler = [r \in Reqs |-> "none"]
    /\ told = [r \in Reqs |-> "nothing"]
    /\ inbound = [r \in Reqs |-> "pending"]
    /\ channel = {}
    /\ bridge = [r \in Reqs |-> "none"]

-----------------------------------------------------------------------------
(* The select loop.                                                          *)

\* The JoinSet: bridges spawned and not yet joined.
Unjoined == {r \in Reqs : bridge[r] \in Running \cup {"ended", "cancelled"}}
Returnable == finished /\ Unjoined = {}

\* At a new iteration that does not return, the shutdown branch is polled
\* first and the channel second: a later branch is reached when both are pending.
PastRecv ==
    \/ pc = "inConn"
    \/ pc = "loop" /\ ~Returnable /\ ~shutdown /\ (channelOpen => channel = {})
PollsConnection == PastRecv /\ ~finished

\* The receiver lives as long as the task's frame.
ReceiverAlive == pc \notin Ended

\* The frame ends: the receiver, what is queued, and the connection are dropped.
DropFrame(how) ==
    /\ pc' = how
    /\ channel' = {}
    /\ bridge' = [r \in Reqs |-> IF r \in channel THEN "lost" ELSE bridge[r]]
    /\ inbound' = [r \in Reqs |-> IF inbound[r] = "pending" THEN "failed" ELSE inbound[r]]
    /\ UNCHANGED <<proto, shutdown, conn, finished, channelOpen, hvars>>

\* Mutated: the loop ends only once the channel was seen closed, although the
\* connection's own service keeps a sender.
LoopReturn_channelClosed ==
    pc = "loop" /\ Returnable /\ ~channelOpen /\ DropFrame("returned")

LoopReturn == pc = "loop" /\ Returnable /\ DropFrame("returned")

\* Mutated: the shutdown branch is forgotten.
SelectShutdown_never ==
    FALSE /\ pc = "loop" /\ UNCHANGED vars

SelectShutdown ==
    /\ pc = "loop" /\ ~Returnable /\ shutdown
    /\ pc' = "closing"
    /\ UNCHANGED <<proto, shutdown, conn, finished, channelOpen, hvars, inbound, channel, bridge>>

Spawn(jobs) ==
    /\ bridge' = [r \in Reqs |-> IF r \in jobs THEN "waiting" ELSE bridge[r]]
    /\ channel' = channel \ jobs

\* Mutated: jobs are received only after the connection completed.
SelectRecv_late(r) ==
    /\ pc = "loop" /\ ~Returnable /\ ~shutdown /\ finished
    /\ channelOpen /\ r \in channel
    /\ Spawn({r})
    /\ UNCHANGED <<proto, shutdown, conn, lvars, hvars, inbound>>

SelectRecv(r) ==
    /\ pc = "loop" /\ ~Returnable /\ ~shutdown
    /\ channelOpen /\ r \in channel
    /\ Spawn({r})
    /\ UNCHANGED <<proto, shutdown, conn, lvars, hvars, inbound>>

\* Every sender is gone: an h1 upgrade dropped the service, no handler runs.
SelectRecvNone ==
    /\ pc = "loop" /\ ~Returnable /\ ~shutdown
    /\ channelOpen /\ channel = {}
    /\ conn = "upgraded" /\ finished /\ \A r \in Reqs : handler[r] \notin Active
    /\ channelOpen' = FALSE
    /\ UNCHANGED <<proto, shutdown, conn, pc, finished, hvars, inbound, channel, bridge>>

\* An h1 connection whose handler answered 101 turns into the client's tunnel end.
Upgrading == {r \in Reqs : proto = "h1" /\ told[r] = "opened" /\ inbound[r] = "pending"}

ConnectionReady ==
    /\ PollsConnection
    /\ \/ conn = "gone" /\ conn' = conn
          /\ inbound' = [r \in Reqs |-> IF inbound[r] = "pending" THEN "failed" ELSE inbound[r]]
          /\ handler' = [r \in Reqs |->
                 IF proto = "h1" /\ handler[r] \in Active THEN "dropped" ELSE handler[r]]
       \/ conn = "open" /\ Upgrading # {} /\ conn' = "upgraded"
          /\ inbound' = [r \in Reqs |-> IF r \in Upgrading THEN "ready" ELSE inbound[r]]
          /\ handler' = handler
    /\ finished' = TRUE
    /\ pc' = "loop"

\* Mutated: the try_recv loop after the connection completed is left out.
ConnectionDone_noDrain ==
    /\ ConnectionReady
    /\ UNCHANGED <<proto, shutdown, channelOpen, told, channel, bridge>>

\* The connection completes; jobs its last poll queued are spawned at once.
ConnectionDone ==
    /\ ConnectionReady
    /\ Spawn(channel)
    /\ UNCHANGED <<proto, shutdown, channelOpen, told>>

\* The poll of the connection ends without completing it.
PollEnds ==
    /\ pc = "inConn" /\ pc' = "loop"
    /\ UNCHANGED <<proto, shutdown, conn, finished, channelOpen, hvars, inbound, channel, bridge>>

\* join_next is the last branch of an iteration.
SelectJoin(r) ==
    /\ PastRecv
    /\ bridge[r] \in {"ended", "cancelled"}
    /\ bridge' = [bridge EXCEPT ![r] = "joined"]
    /\ pc' = "loop"
    /\ UNCHANGED <<proto, shutdown, conn, finished, channelOpen, hvars, inbound, channel>>

\* After the break every bridge is aborted, then joined.
CloseJoin(r) ==
    /\ pc = "closing"
    /\ bridge[r] \in {"ended", "cancelled"}
    /\ bridge' = [bridge EXCEPT ![r] = "joined"]
    /\ UNCHANGED <<proto, shutdown, conn, lvars, hvars, inbound, channel>>

\* Mutated: the task returns after abort_all without joining.
CloseReturn_noJoin == pc = "closing" /\ DropFrame("returned")

CloseReturn == pc = "closing" /\ Unjoined = {} /\ DropFrame("returned")

-----------------------------------------------------------------------------
(* Handlers (websocket::proxy).                                              *)

\* An h1 handler is part of the connection's future; an h2 handler runs freely.
HandlerRuns(r) == proto = "h1" => PollsConnection /\ conn = "open"
HandlerPc == pc' = IF proto = "h1" THEN "inConn" ELSE pc

\* A request reaches the service: one at a time on h1, and none after a 101.
Arrive(r) ==
    /\ handler[r] = "none" /\ PollsConnection /\ conn = "open"
    /\ proto = "h1" => \A q \in Reqs : handler[q] \notin Active /\ told[q] # "opened"
    /\ handler' = [handler EXCEPT ![r] = "upstream"]
    /\ pc' = "inConn"
    /\ UNCHANGED <<proto, shutdown, conn, finished, channelOpen, told, inbound, channel, bridge>>

\* The upstream accepted the upgrade, then delivered its side of the stream.
Advance(r) ==
    /\ HandlerRuns(r) /\ HandlerPc
    /\ handler[r] \in {"upstream", "upgrade"}
    /\ handler' = [handler EXCEPT ![r] = IF @ = "upstream" THEN "upgrade" ELSE "send"]
    /\ UNCHANGED <<proto, shutdown, conn, finished, channelOpen, told, inbound, channel, bridge>>

Answer(r, what) ==
    /\ handler' = [handler EXCEPT ![r] = "done"]
    /\ told' = [told EXCEPT ![r] = what]

\* A bad request, an upstream error or refusal, or the deadline: no tunnel.
Refuse(r) ==
    /\ HandlerRuns(r) /\ HandlerPc
    /\ handler[r] \in {"upstream", "upgrade"}
    /\ Answer(r, "error")
    /\ inbound' = [inbound EXCEPT ![r] = "failed"]
    /\ UNCHANGED <<proto, shutdown, conn, finished, channelOpen, channel, bridge>>

\* Mutated: the channel is unbounded.
SendJob_unbounded(r) ==
    /\ HandlerRuns(r) /\ HandlerPc
    /\ handler[r] = "send" /\ ReceiverAlive
    /\ channel' = channel \cup {r}
    /\ Answer(r, "opened")
    /\ inbound' = IF proto = "h1" THEN inbound
                  ELSE [inbound EXCEPT ![r] = IF conn = "open" /\ @ = "pending" THEN "ready" ELSE "failed"]
    /\ UNCHANGED <<proto, shutdown, conn, finished, channelOpen, bridge>>

\* The job is sent and the handler answers 101 or 200. On h2 the answer itself
\* completes the client's side, unless its stream is gone.
SendJob(r) ==
    /\ HandlerRuns(r) /\ HandlerPc
    /\ handler[r] = "send" /\ ReceiverAlive /\ Cardinality(channel) < Cap
    /\ channel' = channel \cup {r}
    /\ Answer(r, "opened")
    /\ inbound' = IF proto = "h1" THEN inbound
                  ELSE [inbound EXCEPT ![r] = IF conn = "open" /\ @ = "pending" THEN "ready" ELSE "failed"]
    /\ UNCHANGED <<proto, shutdown, conn, finished, channelOpen, bridge>>

\* The receiver is gone: "WebSocket bridge is unavailable".
SendFails(r) ==
    /\ proto = "h2" /\ handler[r] = "send" /\ ~ReceiverAlive
    /\ Answer(r, "error")
    /\ UNCHANGED <<proto, shutdown, conn, lvars, inbound, channel, bridge>>

\* The stream of an h2 handler is reset, or the frame that polled an h1 one is gone.
HandlerDropped(r) ==
    /\ handler[r] \in Active
    /\ IF proto = "h2" THEN conn = "gone" \/ ~ReceiverAlive ELSE ~ReceiverAlive
    /\ handler' = [handler EXCEPT ![r] = "dropped"]
    /\ UNCHANGED <<proto, shutdown, conn, lvars, told, inbound, channel, bridge>>

-----------------------------------------------------------------------------
(* Bridges (websocket::run_bridge).                                          *)

BridgeMoves(r, from, to) ==
    /\ bridge[r] = from
    /\ bridge' = [bridge EXCEPT ![r] = to]
    /\ UNCHANGED <<proto, shutdown, conn, lvars, hvars, inbound, channel>>

BridgeOpens(r) == inbound[r] = "ready" /\ BridgeMoves(r, "waiting", "tunnel")

\* The client's side failed, or did not come within INBOUND_UPGRADE_TIMEOUT.
BridgeGivesUp(r) == inbound[r] # "ready" /\ BridgeMoves(r, "waiting", "ended")

\* One of the two ends closes the tunnel.
TunnelCloses(r) == BridgeMoves(r, "tunnel", "ended")

\* On h2 the tunnel is a stream of the connection and dies with it.
TunnelBreaks(r) ==
    proto = "h2" /\ (conn = "gone" \/ ~ReceiverAlive) /\ BridgeMoves(r, "tunnel", "ended")

\* Mutated: bridges are detached tasks that only abort_all can reach.
BridgeCancelled_abortAllOnly(r) ==
    /\ pc = "closing" /\ bridge[r] \in Running
    /\ BridgeMoves(r, bridge[r], "cancelled")

\* abort_all, or the drop of the JoinSet: the bridge stops at its next await.
BridgeCancelled(r) ==
    /\ pc \in {"closing", "aborted"} /\ bridge[r] \in Running
    /\ BridgeMoves(r, bridge[r], "cancelled")

-----------------------------------------------------------------------------
(* The environment: the peer and the server task.                            *)

PeerCloses ==
    /\ conn = "open" /\ conn' = "gone"
    /\ UNCHANGED <<proto, shutdown, lvars, hvars, inbound, channel, bridge>>

SignalShutdown ==
    /\ ~shutdown /\ shutdown' = TRUE
    /\ UNCHANGED <<proto, conn, lvars, hvars, inbound, channel, bridge>>

\* The server's abort_all after the grace period: the frame is dropped at an await.
Abort == shutdown /\ pc \in {"loop", "closing"} /\ DropFrame("aborted")

Loop ==
    \/ LoopReturn \/ SelectShutdown \/ SelectRecvNone \/ ConnectionDone \/ PollEnds
    \/ \E r \in Reqs : SelectRecv(r) \/ SelectJoin(r) \/ CloseJoin(r)
    \/ CloseReturn

HandlerStep(r) ==
    Advance(r) \/ Refuse(r) \/ SendJob(r) \/ SendFails(r) \/ HandlerDropped(r)
BridgeStep(r) == BridgeOpens(r) \/ BridgeGivesUp(r) \/ TunnelBreaks(r) \/ BridgeCancelled(r)

Next ==
    \/ Loop
    \/ \E r \in Reqs : Arrive(r) \/ HandlerStep(r) \/ BridgeStep(r) \/ TunnelCloses(r)
    \/ PeerCloses \/ SignalShutdown \/ Abort

Spec == Init /\ [][Next]_vars

\* The 101 of an h1 upgrade may stay unflushed for as long as the client likes.
Progress == Loop /\ ~(conn = "open" /\ conn' = "upgraded")

\* The runtime polls a task that can make progress; every await of a handler
\* and the wait of a bridge for the client's side have a deadline. Nothing makes
\* a peer close or a tunnel end, and nothing makes the server stop or abort.
Fairness ==
    /\ WF_vars(Progress)
    /\ \A r \in Reqs : WF_vars(HandlerStep(r)) /\ WF_vars(BridgeStep(r))
FairSpec == Spec /\ Fairness

-----------------------------------------------------------------------------
(* Properties.                                                               *)

\* A tunnel announced to the client is in good hands while the client is
\* connected and no shutdown was asked: its job waits in the channel of a live
\* task or was given to a bridge. In particular it survives a connection that
\* completes in the very poll that queued the job (connection.rs:45-51).
NoTunnelLost ==
    \A r \in Reqs : (told[r] = "opened" /\ ~shutdown /\ conn # "gone") =>
        \/ r \in channel /\ ReceiverAlive
        \/ bridge[r] \notin {"none", "lost"}

\* When the task has returned by itself, no bridge of it is still running: the
\* server's join of the connection task is a join of its tunnels.
ReturnMeansJoined ==
    pc = "returned" => \A r \in Reqs : bridge[r] \notin Running

\* No handler waits for ever for room in the bounded channel, whichever way the
\* connection, the loop and the shutdown race with it (the send at
\* websocket/mod.rs:164 has no deadline of its own).
HandlersFinish ==
    \A r \in Reqs : handler[r] \in Active ~> handler[r] \notin Active

\* A connection task told to shut down ends, even with tunnels open.
ShutdownEndsTask == shutdown ~> pc \in Ended

\* However much the connection and the bridge channel keep the task busy, the loop
\* sees the shutdown: the select is biased and polls it first (connection.rs:31-40).
InLoop == pc \in {"loop", "inConn"}
ShutdownHeard == shutdown ~> ~InLoop

\* When the peer is gone the task ends by itself: nothing of it leaks.
GonePeerEndsTask == conn = "gone" ~> pc \in Ended

\* However the task ends, its tunnels end too.
NoTunnelOutlivesTask ==
    \A r \in Reqs : pc \in Ended ~> bridge[r] \notin Running

\* What can move without the peer, the server or an open tunnel: the guards of the
\* fair steps of the task, of a handler and of a bridge.
Finished(r) == bridge[r] \in {"ended", "cancelled"}
TaskReady ==
    \/ pc = "inConn"
    \/ pc = "loop" /\ (Returnable \/ shutdown \/ (channelOpen /\ channel # {}))
    \/ PollsConnection /\ conn = "gone"
    \/ PastRecv /\ \E r \in Reqs : Finished(r)
    \/ pc = "closing" /\ (Unjoined = {} \/ \E r \in Reqs : Finished(r))
HandlerReady(r) ==
    \/ handler[r] \in {"upstream", "upgrade"} /\ HandlerRuns(r)
    \/ handler[r] = "send" /\ HandlerRuns(r) /\ ReceiverAlive /\ Cardinality(channel) < Cap
    \/ handler[r] \in Active /\ (~ReceiverAlive \/ (proto = "h2" /\ conn = "gone"))
BridgeReady(r) ==
    \/ bridge[r] = "waiting"
    \/ bridge[r] = "tunnel" /\ proto = "h2" /\ (conn = "gone" \/ ~ReceiverAlive)
    \/ bridge[r] \in Running /\ pc \in {"closing", "aborted"}

\* Handlers, the bounded channel, the joins and the select loop never wait for
\* each other in a circle: while a handler is under way, while a task that was told
\* to stop or lost its peer is there, or a bridge outlives its task, one of them can
\* move by itself (connection.rs:31-75, websocket/mod.rs:164).
Owing ==
    \/ \E r \in Reqs : handler[r] \in Active
    \/ pc \notin Ended /\ (shutdown \/ conn = "gone")
    \/ pc \in Ended /\ \E r \in Reqs : bridge[r] \in Running
NeverWedged == Owing => TaskReady \/ \E r \in Reqs : HandlerReady(r) \/ BridgeReady(r)

\* No step of anyone undoes what another did: handlers, bridges, the task and the
\* connection only move on, and every step moves one of them, but for the end of a
\* poll, which some step inside the poll preceded. The select loop cannot spin.
HandlerStage(r) ==
    IF handler[r] = "none" THEN 0 ELSE IF handler[r] = "upstream" THEN 1
    ELSE IF handler[r] = "upgrade" THEN 2 ELSE IF handler[r] = "send" THEN 3 ELSE 4
BridgeStage(r) ==
    IF bridge[r] = "none" THEN 0 ELSE IF bridge[r] = "waiting" THEN 1
    ELSE IF bridge[r] = "tunnel" THEN 2 ELSE IF Finished(r) THEN 3 ELSE 4
TaskStage == IF pc \in {"loop", "inConn"} THEN 0 ELSE IF pc = "closing" THEN 1 ELSE 2
Past == <<shutdown, finished, ~channelOpen, conn # "open">>
NoneBack ==
    /\ \A r \in Reqs : HandlerStage(r)' >= HandlerStage(r) /\ BridgeStage(r)' >= BridgeStage(r)
    /\ TaskStage' >= TaskStage /\ \A i \in 1..4 : Past[i] => Past[i]'
OneOnward ==
    \/ \E r \in Reqs : HandlerStage(r)' > HandlerStage(r) \/ BridgeStage(r)' > BridgeStage(r)
    \/ TaskStage' > TaskStage \/ Past' # Past
OnlyOnward == [][NoneBack /\ (OneOnward \/ PollEnds)]_vars

\* The tunnels of a connection keep what is promised of them: each is announced
\* by a live task, then carries, then is over for good, and none is left when the
\* task returns - so that the server's join of its connection tasks ends every
\* tunnel of theirs.
ServiceOf == IF pc \in Ended THEN pc ELSE "serving"
TunnelOf ==
    [r \in Reqs |-> IF told[r] # "opened" THEN "none"
                    ELSE IF bridge[r] = "tunnel" THEN "carrying"
                    ELSE IF bridge[r] \in {"none", "waiting"} THEN "announced"
                    ELSE "over"]
Service == INSTANCE TunnelService WITH service <- ServiceOf, tunnel <- TunnelOf
ServiceSpec == Service!TsSpec
=============================================================================
