------------------------ MODULE ConnectionTask_proofs ------------------------
(* Proofs about ConnectionTask for any set of tunnel requests and any        *)
(* capacity of the bridge channel: typing, NoTunnelLost, ReturnMeansJoined,  *)
(* that the task implements TunnelService, that nobody waits in a circle and *)
(* nothing is undone, and the end of the tunnels and of the loop.            *)
EXTENDS ConnectionTask, TLAPS, FiniteSetTheorems

\* What an h1 upgrade leaves behind: it completed inside the poll that finished
\* the connection, after which no handler of it can queue another job.
UpgradeInv ==
    /\ conn = "upgraded" => proto = "h1" /\ finished
    /\ conn = "open" => ~finished
    /\ proto = "h1" =>
         \A r \in Reqs : told[r] = "opened" => \A q \in Reqs : handler[q] \notin Active
    /\ proto = "h1" =>
         \A q, r \in Reqs : handler[q] \in Active /\ handler[r] \in Active => q = r
    /\ conn = "upgraded" => channel = {} /\ \E r \in Reqs : told[r] = "opened"

\* Where the task can be, and why.
TaskInv ==
    /\ pc \in {"closing", "aborted"} => shutdown
    /\ pc = "returned" => (shutdown \/ finished) /\ Unjoined = {}
    /\ pc = "inConn" => ~finished

\* The whereabouts of the job of an announced tunnel.
JobInv ==
    \A r \in Reqs :
        /\ told[r] = "opened" => r \in channel \/ bridge[r] # "none"
        /\ bridge[r] = "lost" => shutdown \/ conn = "gone"
        /\ told[r] = "opened" => handler[r] = "done"

\* After the task has ended, its channel is empty.
EndInv == pc \in Ended => channel = {}

IInv == TypeOK /\ UpgradeInv /\ TaskInv /\ JobInv /\ EndInv

\* The initial states satisfy the invariant.
LEMMA InitInv == Init => IInv
<1> SUFFICES ASSUME Init PROVE IInv
  OBVIOUS
<1>1. TypeOK
  <2>1. RoomOK
    BY ConnectionAssumption, FS_EmptySet DEF Init, RoomOK
  <2> QED BY <2>1 DEF Init, TypeOK
<1>2. UpgradeInv /\ TaskInv
  BY DEF Init, UpgradeInv, TaskInv, Active, Ended
<1>3. JobInv /\ EndInv
  BY DEF Init, JobInv, EndInv, Ended
<1> QED BY <1>1, <1>2, <1>3 DEF IInv

\* A send that waits for room keeps the bridge channel within its capacity.
LEMMA RoomStep == TypeOK /\ [Next]_vars => RoomOK'
<1> SUFFICES ASSUME TypeOK, [Next]_vars PROVE RoomOK'
  OBVIOUS
<1>1. IsFiniteSet(channel) /\ Cardinality(channel) \in Nat /\ Cap \in Nat
        /\ Cardinality(channel) <= Cap
  BY ConnectionAssumption, FS_Subset, FS_CardinalityType DEF TypeOK, RoomOK
<1>2. \/ channel' \subseteq channel
      \/ Cardinality(channel) < Cap /\ \E r \in Reqs : channel' = channel \cup {r}
  <2>1. CASE Loop \/ Abort
    BY <2>1 DEF Spawn, Loop, Abort, LoopReturn, SelectShutdown, SelectRecvNone, PollEnds, CloseReturn,
       DropFrame, ConnectionDone, SelectRecv, SelectJoin, CloseJoin, hvars, lvars
  <2>2. ASSUME NEW r \in Reqs, Arrive(r) \/ HandlerStep(r) PROVE <1>2
    BY <2>2 DEF Arrive, HandlerStep, Advance, Refuse, SendJob, SendFails, HandlerDropped,
       hvars, lvars
  <2>3. ASSUME NEW r \in Reqs, BridgeStep(r) \/ TunnelCloses(r) PROVE <1>2
    BY <2>3 DEF BridgeStep, BridgeOpens, BridgeGivesUp, TunnelBreaks, BridgeCancelled,
       TunnelCloses, BridgeMoves, hvars, lvars
  <2>4. CASE PeerCloses \/ SignalShutdown \/ UNCHANGED vars
    BY <2>4 DEF PeerCloses, SignalShutdown, vars, hvars, lvars
  <2> QED BY <2>1, <2>2, <2>3, <2>4 DEF Next
<1>3. CASE channel' \subseteq channel
  <2>1. Cardinality(channel') \in Nat /\ Cardinality(channel') <= Cardinality(channel)
    BY <1>1, <1>3, FS_Subset, FS_CardinalityType
  <2> QED BY <1>1, <2>1 DEF RoomOK
<1>4. CASE Cardinality(channel) < Cap /\ \E r \in Reqs : channel' = channel \cup {r}
  <2>1. PICK r \in Reqs : channel' = channel \cup {r}
    BY <1>4
  <2>2. Cardinality(channel \cup {r}) \in {Cardinality(channel), Cardinality(channel) + 1}
    BY <1>1, FS_AddElement
  <2> QED BY <1>1, <1>4, <2>1, <2>2 DEF RoomOK
<1> QED BY <1>2, <1>3, <1>4

\* Every step keeps every variable in its type.
LEMMA TypeStep == TypeOK /\ [Next]_vars => TypeOK'
<1> SUFFICES ASSUME TypeOK, [Next]_vars PROVE TypeOK'
  OBVIOUS
<1>0. RoomOK'
  BY RoomStep
<1> USE <1>0 DEF TypeOK, hvars, lvars, Active, Running, Ended
<1>1. CASE LoopReturn \/ SelectShutdown \/ SelectRecvNone \/ PollEnds \/ CloseReturn \/ Abort
  BY <1>1 DEF LoopReturn, SelectShutdown, SelectRecvNone, PollEnds, CloseReturn, Abort, DropFrame
<1>2. CASE ConnectionDone
  BY <1>2 DEF ConnectionDone, ConnectionReady, Spawn
<1>3. ASSUME NEW r \in Reqs, SelectRecv(r) \/ SelectJoin(r) \/ CloseJoin(r) PROVE TypeOK'
  BY <1>3 DEF SelectRecv, SelectJoin, CloseJoin, Spawn
<1>4. ASSUME NEW r \in Reqs, Arrive(r) \/ HandlerStep(r) PROVE TypeOK'
  <2>1. CASE Arrive(r) \/ Advance(r) \/ SendFails(r) \/ HandlerDropped(r)
    BY <2>1 DEF Arrive, Advance, SendFails, HandlerDropped, Answer, HandlerPc
  <2>2. CASE Refuse(r)
    BY <2>2 DEF Refuse, Answer, HandlerPc
  <2>3. CASE SendJob(r)
    BY <2>3 DEF SendJob, Answer, HandlerPc
  <2> QED BY <1>4, <2>1, <2>2, <2>3 DEF HandlerStep
<1>5. ASSUME NEW r \in Reqs, BridgeStep(r) \/ TunnelCloses(r) PROVE TypeOK'
  BY <1>5 DEF BridgeStep, BridgeOpens, BridgeGivesUp, TunnelBreaks, BridgeCancelled,
     TunnelCloses, BridgeMoves
<1>6. CASE PeerCloses \/ SignalShutdown \/ UNCHANGED vars
  BY <1>6 DEF PeerCloses, SignalShutdown, vars
<1> QED BY <1>1, <1>2, <1>3, <1>4, <1>5, <1>6 DEF Next, Loop

SafeInv == UpgradeInv /\ TaskInv /\ JobInv /\ EndInv

\* The frame of the task is dropped.
LEMMA DropInv ==
  ASSUME TypeOK, SafeInv, NEW how \in Ended, DropFrame(how),
         how = "aborted" => shutdown,
         how = "returned" => Unjoined = {} /\ (shutdown \/ finished)
  PROVE  SafeInv'
<1> USE DEF hvars, lvars, DropFrame, SafeInv
<1>1. UpgradeInv'
  BY DEF UpgradeInv
<1>2. TaskInv'
  BY DEF TaskInv, Unjoined, Ended, Running
<1>3. \A r \in channel : conn # "upgraded"
  BY DEF UpgradeInv
<1>4. conn = "open" => shutdown
  BY DEF UpgradeInv, Ended
<1>5. JobInv'
  BY <1>3, <1>4 DEF JobInv, TypeOK
<1>6. EndInv'
  BY DEF EndInv
<1> QED BY <1>1, <1>2, <1>5, <1>6

\* A step of the select loop preserves the invariant.
LEMMA LoopInv == ASSUME TypeOK, SafeInv, Loop \/ Abort PROVE SafeInv'
<1> USE DEF hvars, lvars
<1>1. CASE LoopReturn
  BY <1>1, DropInv DEF LoopReturn, Returnable, Ended
<1>2. CASE CloseReturn
  BY <1>2, DropInv DEF CloseReturn, SafeInv, TaskInv, Ended
<1>3. CASE Abort
  BY <1>3, DropInv DEF Abort, Ended
<1>4. CASE SelectShutdown \/ PollEnds \/ SelectRecvNone
  BY <1>4 DEF SelectShutdown, PollEnds, SelectRecvNone, SafeInv, UpgradeInv, TaskInv, JobInv,
     EndInv, Ended, Unjoined
<1>5. ASSUME NEW r \in Reqs, SelectRecv(r) PROVE SafeInv'
  <2> USE <1>5 DEF SelectRecv, Spawn, SafeInv
  <2>1. UpgradeInv'
    BY DEF UpgradeInv
  <2>2. TaskInv' /\ EndInv'
    BY DEF TaskInv, EndInv, Ended
  <2>3. JobInv'
    BY DEF JobInv, TypeOK
  <2> QED BY <2>1, <2>2, <2>3
<1>6. CASE ConnectionDone
  <2>1. /\ pc \in {"loop", "inConn"} /\ ~finished /\ finished' /\ pc' = "loop"
        /\ bridge' = [r \in Reqs |-> IF r \in channel THEN "waiting" ELSE bridge[r]]
        /\ channel' = {}
        /\ UNCHANGED <<proto, shutdown, told>>
        /\ \/ conn = "gone" /\ conn' = "gone"
              /\ handler' = [r \in Reqs |->
                   IF proto = "h1" /\ handler[r] \in Active THEN "dropped" ELSE handler[r]]
           \/ conn = "open" /\ conn' = "upgraded" /\ Upgrading # {} /\ handler' = handler
    BY <1>6 DEF ConnectionDone, ConnectionReady, PollsConnection, PastRecv, Spawn
  <2>2. UpgradeInv'
    BY <2>1 DEF SafeInv, UpgradeInv, Upgrading, TypeOK, Active
  <2>3. TaskInv' /\ EndInv'
    BY <2>1 DEF TaskInv, EndInv, Ended
  <2>4. JobInv'
    BY <2>1 DEF SafeInv, JobInv, TypeOK, Active
  <2> QED BY <2>2, <2>3, <2>4 DEF SafeInv
<1>7. ASSUME NEW r \in Reqs, SelectJoin(r) \/ CloseJoin(r) PROVE SafeInv'
  <2>1. /\ pc \in {"loop", "inConn", "closing"} /\ pc' \in {"loop", "closing"}
        /\ pc' = "closing" => pc = "closing"
        /\ bridge[r] # "none" /\ bridge' = [bridge EXCEPT ![r] = "joined"]
        /\ UNCHANGED <<proto, shutdown, conn, finished, hvars, channel>>
    BY <1>7 DEF SelectJoin, CloseJoin, PastRecv
  <2>2. UpgradeInv' /\ TaskInv' /\ EndInv'
    BY <2>1 DEF SafeInv, UpgradeInv, TaskInv, EndInv, Ended
  <2>3. JobInv'
    BY <2>1 DEF SafeInv, JobInv, TypeOK
  <2> QED BY <2>2, <2>3 DEF SafeInv
<1> QED BY <1>1, <1>2, <1>3, <1>4, <1>5, <1>6, <1>7 DEF Loop

\* A step of a handler or the arrival of a request preserves the invariant.
LEMMA HandlerInv ==
  ASSUME TypeOK, SafeInv, NEW r \in Reqs, Arrive(r) \/ HandlerStep(r) PROVE SafeInv'
<1> USE DEF hvars, lvars
<1>1. CASE Arrive(r)
  <2>1. /\ handler[r] = "none" /\ pc \in {"loop", "inConn"} /\ ~finished /\ pc' = "inConn"
        /\ conn = "open"
        /\ proto = "h1" => \A q \in Reqs : told[q] # "opened" /\ handler[q] \notin Active
        /\ handler' = [handler EXCEPT ![r] = "upstream"]
        /\ UNCHANGED <<proto, shutdown, conn, finished, told, channel, bridge>>
    BY <1>1 DEF Arrive, PollsConnection, PastRecv
  <2>2. UpgradeInv'
    BY <2>1 DEF SafeInv, UpgradeInv, TypeOK
  <2>3. TaskInv' /\ EndInv'
    BY <2>1 DEF SafeInv, TaskInv, EndInv, Ended
  <2>4. JobInv'
    BY <2>1 DEF SafeInv, JobInv, TypeOK
  <2> QED BY <2>2, <2>3, <2>4 DEF SafeInv
<1>2. CASE Advance(r) \/ Refuse(r) \/ SendFails(r) \/ HandlerDropped(r)
  <2>1. /\ handler[r] \in Active
        /\ \E h \in Active \cup {"done", "dropped"} : handler' = [handler EXCEPT ![r] = h]
    BY <1>2 DEF Advance, Refuse, SendFails, HandlerDropped, Answer, Active, TypeOK
  <2>2. told' = told \/ told' = [told EXCEPT ![r] = "error"]
    BY <1>2 DEF Advance, Refuse, SendFails, HandlerDropped, Answer
  <2>3. pc' = pc \/ (pc' = "inConn" /\ ~finished)
    BY <1>2 DEF Advance, Refuse, SendFails, HandlerDropped, HandlerRuns, HandlerPc, PollsConnection
  <2>4. UNCHANGED <<proto, shutdown, conn, finished, channel, bridge>>
    BY <1>2 DEF Advance, Refuse, SendFails, HandlerDropped
  <2>5. told[r] # "opened"
    BY <2>1 DEF SafeInv, JobInv, Active
  <2>6. \A q \in Reqs : told'[q] = "opened" <=> told[q] = "opened"
    BY <2>2, <2>5 DEF TypeOK
  <2>7. \A q \in Reqs : /\ handler'[q] \in Active => handler[q] \in Active
                        /\ q # r => handler'[q] = handler[q]
    BY <2>1 DEF TypeOK
  <2>8. UpgradeInv'
    BY <2>4, <2>6, <2>7 DEF SafeInv, UpgradeInv
  <2>9. TaskInv' /\ EndInv'
    BY <2>3, <2>4 DEF SafeInv, TaskInv, EndInv, Ended, Unjoined
  <2>10. JobInv'
    BY <2>4, <2>5, <2>6, <2>7 DEF SafeInv, JobInv
  <2> QED BY <2>8, <2>9, <2>10 DEF SafeInv
<1>3. CASE SendJob(r)
  <2>1. /\ handler[r] = "send" /\ pc \notin Ended
        /\ handler' = [handler EXCEPT ![r] = "done"]
        /\ told' = [told EXCEPT ![r] = "opened"]
        /\ channel' = channel \cup {r}
        /\ UNCHANGED <<proto, shutdown, conn, finished, bridge>>
    BY <1>3 DEF SendJob, Answer, ReceiverAlive
  <2>2. pc' = pc \/ (pc' = "inConn" /\ ~finished)
    BY <1>3 DEF SendJob, HandlerRuns, HandlerPc, PollsConnection
  <2>3. conn # "upgraded"
    BY <1>3 DEF SendJob, HandlerRuns, SafeInv, UpgradeInv
  <2>4. UpgradeInv'
    BY <2>1, <2>3 DEF SafeInv, UpgradeInv, TypeOK, Active
  <2>5. TaskInv' /\ EndInv'
    BY <2>1, <2>2 DEF SafeInv, TaskInv, EndInv, Ended, Unjoined
  <2>6. JobInv'
    BY <2>1 DEF SafeInv, JobInv, TypeOK, Active
  <2> QED BY <2>4, <2>5, <2>6 DEF SafeInv
<1> QED BY <1>1, <1>2, <1>3 DEF HandlerStep

\* The invariant is inductive.
LEMMA StepInv == IInv /\ [Next]_vars => IInv'
<1> SUFFICES ASSUME IInv, [Next]_vars PROVE IInv'
  OBVIOUS
<1>1. TypeOK /\ SafeInv
  BY DEF IInv, SafeInv
<1>2. TypeOK'
  BY <1>1, TypeStep
<1>3. SafeInv'
  <2> USE DEF hvars, lvars
  <2>1. CASE Loop \/ Abort
    BY <1>1, <2>1, LoopInv
  <2>2. ASSUME NEW r \in Reqs, Arrive(r) \/ HandlerStep(r) PROVE SafeInv'
    BY <1>1, <2>2, HandlerInv
  <2>3. ASSUME NEW r \in Reqs, BridgeStep(r) \/ TunnelCloses(r) PROVE SafeInv'
    <3>1. /\ bridge[r] \in Running
          /\ \E b \in {"tunnel", "ended", "cancelled"} : bridge' = [bridge EXCEPT ![r] = b]
          /\ UNCHANGED <<proto, shutdown, conn, lvars, hvars, inbound, channel>>
      BY <2>3 DEF BridgeStep, BridgeOpens, BridgeGivesUp, TunnelBreaks, BridgeCancelled,
         TunnelCloses, BridgeMoves, Running
    <3>2. UpgradeInv' /\ EndInv'
      BY <1>1, <3>1 DEF SafeInv, UpgradeInv, EndInv
    <3>3. JobInv'
      BY <1>1, <3>1 DEF SafeInv, JobInv, TypeOK, Running
    <3>4. pc # "returned"
      BY <1>1, <3>1 DEF SafeInv, TaskInv, Unjoined
    <3>5. TaskInv'
      BY <1>1, <3>1, <3>4 DEF SafeInv, TaskInv
    <3> QED BY <3>2, <3>3, <3>5 DEF SafeInv
  <2>4. CASE PeerCloses \/ SignalShutdown \/ UNCHANGED vars
    BY <1>1, <2>4 DEF PeerCloses, SignalShutdown, vars, SafeInv, UpgradeInv, TaskInv,
       JobInv, EndInv, Unjoined
  <2> QED BY <2>1, <2>2, <2>3, <2>4 DEF Next
<1> QED BY <1>2, <1>3 DEF IInv, SafeInv

\* The invariant holds in every reachable state.
LEMMA Invariance == Spec => []IInv
  BY InitInv, StepInv, PTL DEF Spec

-----------------------------------------------------------------------------
\* Every variable keeps its type.
THEOREM TypeCorrect == Spec => []TypeOK
<1>1. IInv => TypeOK
  BY DEF IInv
<1> QED BY Invariance, <1>1, PTL

\* A task that returns by itself has joined every bridge.
THEOREM ReturnJoined == Spec => []ReturnMeansJoined
<1>1. IInv => ReturnMeansJoined
  BY DEF IInv, TaskInv, ReturnMeansJoined, Unjoined
<1> QED BY Invariance, <1>1, PTL

\* No tunnel announced to a connected client is lost before a shutdown.
THEOREM TunnelKept == Spec => []NoTunnelLost
<1>1. IInv => NoTunnelLost
  BY DEF IInv, UpgradeInv, JobInv, EndInv, NoTunnelLost, ReceiverAlive
<1> QED BY Invariance, <1>1, PTL

-----------------------------------------------------------------------------
\* Jobs and bridges belong to announced tunnels, and a queued job has no bridge.
LinkInv ==
    \A r \in Reqs : /\ r \in channel \/ bridge[r] # "none" => told[r] = "opened"
                    /\ r \in channel => bridge[r] = "none"

\* How a step that changes no announced tunnel looks from outside.
LEMMA Stutter ==
    ASSUME ServiceOf' = ServiceOf, TunnelOf' = TunnelOf
    PROVE  UNCHANGED Service!tvars
BY DEF Service!tvars

\* The jobs of a task that is dropped, or a step that changes one tunnel.
LEMMA OneTunnel ==
    ASSUME TypeOK, told' = told, NEW r \in Reqs, told[r] = "opened",
           NEW b, bridge' = [bridge EXCEPT ![r] = b], ServiceOf' = ServiceOf,
           NEW what, what = IF b = "tunnel" THEN "carrying"
                            ELSE IF b \in {"none", "waiting"} THEN "announced" ELSE "over"
    PROVE  Service!Becomes(r, what)
BY DEF Service!Becomes, TunnelOf, TypeOK

\* Spawning bridges for queued jobs is invisible.
LEMMA SpawnStep ==
    ASSUME TypeOK, LinkInv, NEW jobs \in SUBSET channel, Spawn(jobs), told' = told,
           ServiceOf' = ServiceOf
    PROVE  LinkInv' /\ TunnelOf' = TunnelOf
<1>1. channel \subseteq Reqs
  BY DEF TypeOK
<1>2. \A r \in Reqs : bridge'[r] = IF r \in jobs THEN "waiting" ELSE bridge[r]
  BY DEF Spawn
<1>3. LinkInv'
  BY <1>1, <1>2 DEF LinkInv, Spawn
<1>4. TunnelOf' = TunnelOf
  BY <1>1, <1>2 DEF TunnelOf, LinkInv
<1> QED BY <1>3, <1>4

\* The end of the task is the end of the service.
LEMMA DropStep ==
    ASSUME IInv, LinkInv, NEW how \in Ended, DropFrame(how), pc \notin Ended,
           how = "returned" => Unjoined = {}
    PROVE  LinkInv' /\ Service!TsEnd(how)
<1>1. channel \subseteq Reqs /\ bridge \in [Reqs -> {"none", "ended", "cancelled", "joined", "lost"} \cup Running]
  BY DEF IInv, TypeOK
<1>2. \A r \in Reqs : bridge'[r] = IF r \in channel THEN "lost" ELSE bridge[r]
  BY DEF DropFrame
<1>3. told' = told /\ channel' = {} /\ pc' = how
  BY DEF DropFrame, hvars
<1>4. LinkInv'
  BY <1>2, <1>3 DEF LinkInv
<1>5. ServiceOf = "serving" /\ ServiceOf' = how
  BY <1>3 DEF ServiceOf
<1>6. channel \in SUBSET {r \in Reqs : TunnelOf[r] = "announced"}
  BY <1>1 DEF TunnelOf, LinkInv
<1>7. TunnelOf' = [r \in Reqs |-> IF r \in channel THEN "over" ELSE TunnelOf[r]]
  BY <1>1, <1>2, <1>3 DEF TunnelOf, LinkInv
<1>8. ASSUME how = "returned", NEW r \in Reqs PROVE TunnelOf'[r] \in {"none", "over"}
  <2>1. r \in channel \/ told[r] # "opened" \/ bridge[r] # "none"
    BY DEF IInv, JobInv
  <2>2. bridge[r] \notin Running
    BY <1>8 DEF Unjoined
  <2>3. CASE r \in channel
    BY <1>7, <2>3
  <2>4. CASE r \notin channel
    BY <1>7, <2>1, <2>2, <2>4 DEF TunnelOf, Running
  <2> QED BY <2>3, <2>4
<1> QED BY <1>4, <1>5, <1>6, <1>7, <1>8 DEF Service!TsEnd

\* Each step of the task, a handler or a bridge is a step of the service.
LEMMA ServiceStep ==
    IInv /\ LinkInv /\ [Next]_vars => LinkInv' /\ [Service!TsNext]_(Service!tvars)
<1> SUFFICES ASSUME IInv, LinkInv, [Next]_vars
             PROVE LinkInv' /\ (Service!TsNext \/ UNCHANGED Service!tvars)
  OBVIOUS
<1>t. TypeOK
  BY DEF IInv
<1> USE DEF hvars, lvars
<1>1. CASE LoopReturn \/ CloseReturn
  <2>1. pc \notin Ended /\ Unjoined = {} /\ DropFrame("returned")
    BY <1>1 DEF LoopReturn, CloseReturn, Returnable, Ended
  <2> QED BY <2>1, DropStep DEF Ended, Service!TsNext
<1>2. CASE Abort
  <2>1. pc \notin Ended /\ DropFrame("aborted")
    BY <1>2 DEF Abort, Ended
  <2> QED BY <2>1, DropStep DEF Ended, Service!TsNext
<1>3. CASE SelectShutdown \/ SelectRecvNone \/ PollEnds
  <2>1. UNCHANGED <<told, channel, bridge>> /\ pc \notin Ended /\ pc' \notin Ended
    BY <1>3 DEF SelectShutdown, SelectRecvNone, PollEnds, Ended
  <2> QED BY <2>1, Stutter DEF LinkInv, ServiceOf, TunnelOf
<1>4. ASSUME NEW r \in Reqs, SelectRecv(r) PROVE LinkInv' /\ UNCHANGED Service!tvars
  <2>1. ServiceOf' = ServiceOf /\ told' = told /\ Spawn({r}) /\ {r} \in SUBSET channel
    BY <1>4 DEF SelectRecv, ServiceOf
  <2> QED BY <1>t, <2>1, SpawnStep, Stutter
<1>5. CASE ConnectionDone
  <2>1. ServiceOf' = ServiceOf /\ told' = told /\ Spawn(channel)
    BY <1>5 DEF ConnectionDone, ConnectionReady, PollsConnection, PastRecv, ServiceOf, Ended
  <2> QED BY <1>t, <2>1, SpawnStep, Stutter
<1>6. ASSUME NEW r \in Reqs, SelectJoin(r) \/ CloseJoin(r) PROVE LinkInv' /\ UNCHANGED Service!tvars
  <2>1. /\ bridge[r] \in {"ended", "cancelled"} /\ bridge' = [bridge EXCEPT ![r] = "joined"]
        /\ UNCHANGED <<told, channel>> /\ pc \notin Ended /\ pc' \notin Ended
    BY <1>6 DEF SelectJoin, CloseJoin, PastRecv, Ended
  <2>2. LinkInv'
    BY <1>t, <2>1 DEF LinkInv, TypeOK
  <2>3. TunnelOf' = TunnelOf
    BY <1>t, <2>1 DEF TunnelOf, TypeOK
  <2> QED BY <2>1, <2>2, <2>3, Stutter DEF ServiceOf
<1>7. ASSUME NEW r \in Reqs, Arrive(r) \/ Advance(r) \/ Refuse(r) \/ SendFails(r) \/ HandlerDropped(r)
      PROVE LinkInv' /\ UNCHANGED Service!tvars
  <2>1. told' = told \/ told' = [told EXCEPT ![r] = "error"]
    BY <1>7 DEF Arrive, Advance, Refuse, SendFails, HandlerDropped, Answer
  <2>2. UNCHANGED <<channel, bridge>> /\ (pc' = pc \/ (pc \notin Ended /\ pc' = "inConn"))
    BY <1>7 DEF Arrive, Advance, Refuse, SendFails, HandlerDropped, HandlerRuns, HandlerPc,
       PollsConnection, PastRecv, Ended
  <2>3. told[r] # "opened"
    BY <1>7 DEF Arrive, Advance, Refuse, SendFails, HandlerDropped, Active, IInv, JobInv
  <2>4. \A q \in Reqs : told'[q] = "opened" <=> told[q] = "opened"
    BY <1>t, <2>1, <2>3 DEF TypeOK
  <2>5. LinkInv' /\ TunnelOf' = TunnelOf
    BY <2>2, <2>4 DEF LinkInv, TunnelOf
  <2>6. ServiceOf' = ServiceOf
    BY <2>2 DEF ServiceOf, Ended
  <2> QED BY <2>5, <2>6, Stutter
<1>8. ASSUME NEW r \in Reqs, SendJob(r) PROVE LinkInv' /\ Service!TsAnnounce(r)
  <2>1. /\ handler[r] = "send" /\ pc \notin Ended /\ told' = [told EXCEPT ![r] = "opened"]
        /\ channel' = channel \cup {r} /\ bridge' = bridge
    BY <1>8 DEF SendJob, Answer, ReceiverAlive
  <2>2. pc' = pc \/ pc' = "inConn"
    BY <1>8 DEF SendJob, HandlerPc
  <2>3. told[r] # "opened" /\ bridge[r] = "none" /\ r \notin channel
    BY <2>1 DEF IInv, JobInv, LinkInv
  <2>4. \A q \in Reqs : told'[q] = IF q = r THEN "opened" ELSE told[q]
    BY <1>t, <2>1 DEF TypeOK
  <2>5. LinkInv'
    BY <2>1, <2>3, <2>4 DEF LinkInv
  <2>6. ServiceOf = "serving" /\ ServiceOf' = "serving"
    BY <2>1, <2>2 DEF ServiceOf, Ended
  <2>7. TunnelOf[r] = "none" /\ TunnelOf' = [TunnelOf EXCEPT ![r] = "announced"]
    BY <2>1, <2>3, <2>4 DEF TunnelOf
  <2> QED BY <2>5, <2>6, <2>7 DEF Service!TsAnnounce, Service!Becomes
<1>9. ASSUME NEW r \in Reqs, BridgeStep(r) \/ TunnelCloses(r)
      PROVE LinkInv' /\ (Service!TsCarry(r) \/ Service!TsOver(r))
  <2>1. /\ bridge[r] \in Running
        /\ UNCHANGED <<told, channel, pc>>
        /\ \E b \in {"tunnel", "ended", "cancelled"} :
             bridge' = [bridge EXCEPT ![r] = b] /\ (b = "tunnel" => bridge[r] = "waiting")
    BY <1>9 DEF BridgeStep, BridgeOpens, BridgeGivesUp, TunnelBreaks, BridgeCancelled,
       TunnelCloses, BridgeMoves, Running
  <2>2. told[r] = "opened" /\ ServiceOf' = ServiceOf
    BY <2>1 DEF LinkInv, Running, ServiceOf
  <2>3. ServiceOf # "returned"
    BY <2>1 DEF IInv, TaskInv, Unjoined, ServiceOf, Ended
  <2>4. LinkInv'
    BY <1>t, <2>1, <2>2 DEF LinkInv, TypeOK, Running
  <2>5. PICK b \in {"tunnel", "ended", "cancelled"} :
             bridge' = [bridge EXCEPT ![r] = b] /\ (b = "tunnel" => bridge[r] = "waiting")
    BY <2>1
  <2>6. TunnelOf[r] = IF bridge[r] = "tunnel" THEN "carrying" ELSE "announced"
    BY <2>1, <2>2 DEF TunnelOf, Running
  <2>7. CASE b = "tunnel"
    <3>1. Service!Becomes(r, "carrying")
      BY <1>t, <2>1, <2>2, <2>5, <2>7, OneTunnel
    <3> QED BY <2>3, <2>4, <2>5, <2>6, <2>7, <3>1 DEF Service!TsCarry
  <2>8. CASE b # "tunnel"
    <3>1. Service!Becomes(r, "over")
      BY <1>t, <2>1, <2>2, <2>5, <2>8, OneTunnel
    <3> QED BY <2>3, <2>4, <2>6, <3>1 DEF Service!TsOver
  <2> QED BY <2>7, <2>8
<1>10. CASE PeerCloses \/ SignalShutdown \/ UNCHANGED vars
  <2>1. UNCHANGED <<told, channel, bridge, pc>>
    BY <1>10 DEF PeerCloses, SignalShutdown, vars
  <2> QED BY <2>1, Stutter DEF LinkInv, ServiceOf, TunnelOf
<1> QED BY <1>1, <1>2, <1>3, <1>4, <1>5, <1>6, <1>7, <1>8, <1>9, <1>10
       DEF Next, Loop, HandlerStep, Service!TsNext

\* The connection task, its handlers and its bridges keep what is promised of
\* the tunnels of a connection, for any number of requests.
THEOREM TunnelsServed == Spec => ServiceSpec
<1>1. Init => LinkInv /\ Service!TsInit
  BY DEF Init, LinkInv, Service!TsInit, ServiceOf, TunnelOf, Ended
<1> QED BY <1>1, Invariance, ServiceStep, PTL DEF Spec, ServiceSpec, Service!TsSpec

-----------------------------------------------------------------------------
(* Progress without fairness: nothing is wedged, and nothing spins.          *)

\* Jobs are refused only after an h1 upgrade, an h1 connection that finished has
\* no handler, and on h1 the client's side exists only as an upgraded connection.
QuietInv ==
    /\ ~channelOpen => conn = "upgraded"
    /\ proto = "h1" /\ finished => \A r \in Reqs : handler[r] \notin Active
    /\ proto = "h1" => \A r \in Reqs :
         inbound[r] = "ready" \/ bridge[r] = "tunnel" => conn = "upgraded"

\* A step of the select loop, of a handler or of a bridge preserves it.
LEMMA QuietStep == IInv /\ QuietInv /\ [Next]_vars => QuietInv'
<1> SUFFICES ASSUME IInv, QuietInv, [Next]_vars PROVE QuietInv'
  OBVIOUS
<1>t. TypeOK /\ UpgradeInv
  BY DEF IInv
<1> USE DEF hvars, lvars
<1>1. CASE LoopReturn \/ CloseReturn \/ Abort
  BY <1>1, <1>t DEF LoopReturn, CloseReturn, Abort, DropFrame, QuietInv, TypeOK
<1>2. CASE SelectShutdown \/ SelectRecvNone \/ PollEnds
  BY <1>2, <1>t DEF SelectShutdown, SelectRecvNone, PollEnds, QuietInv
<1>3. ASSUME NEW r \in Reqs, SelectRecv(r) \/ SelectJoin(r) \/ CloseJoin(r) PROVE QuietInv'
  BY <1>3, <1>t DEF SelectRecv, SelectJoin, CloseJoin, Spawn, QuietInv, TypeOK
<1>4. CASE ConnectionDone
  BY <1>4, <1>t DEF ConnectionDone, ConnectionReady, PollsConnection, Spawn, Upgrading, QuietInv,
     UpgradeInv, TypeOK, Active
<1>5. ASSUME NEW r \in Reqs, Arrive(r) PROVE QuietInv'
  BY <1>5, <1>t DEF Arrive, PollsConnection, QuietInv, TypeOK
<1>6. ASSUME NEW r \in Reqs, HandlerStep(r) PROVE QuietInv'
  <2>1. /\ \A q \in Reqs : handler'[q] \in Active => handler[q] \in Active
        /\ UNCHANGED <<proto, conn, finished, channelOpen, bridge>>
    BY <1>6, <1>t DEF HandlerStep, Advance, Refuse, SendJob, SendFails, HandlerDropped, Answer,
       Active, TypeOK
  <2>2. proto = "h1" => \A q \in Reqs : inbound'[q] = "ready" => inbound[q] = "ready"
    BY <1>6, <1>t DEF HandlerStep, Advance, Refuse, SendJob, SendFails, HandlerDropped, TypeOK
  <2> QED BY <2>1, <2>2 DEF QuietInv
<1>7. ASSUME NEW r \in Reqs, BridgeStep(r) \/ TunnelCloses(r) PROVE QuietInv'
  BY <1>7, <1>t DEF BridgeStep, BridgeOpens, BridgeGivesUp, TunnelBreaks, BridgeCancelled,
     TunnelCloses, BridgeMoves, QuietInv, TypeOK
<1>8. CASE PeerCloses \/ SignalShutdown \/ UNCHANGED vars
  BY <1>8, <1>t DEF PeerCloses, SignalShutdown, vars, QuietInv, UpgradeInv
<1> QED BY <1>1, <1>2, <1>3, <1>4, <1>5, <1>6, <1>7, <1>8 DEF Next, Loop

\* Some actor that is owed something can move.
CanMove == TaskReady \/ \E r \in Reqs : HandlerReady(r) \/ BridgeReady(r)

\* A task that closes is waiting for nobody but its bridges.
LEMMA ClosingMoves == ASSUME pc = "closing" PROVE CanMove
<1>1. CASE Unjoined = {}
  BY <1>1 DEF CanMove, TaskReady
<1>2. ASSUME NEW q \in Unjoined PROVE CanMove
  BY <1>2 DEF CanMove, TaskReady, BridgeReady, Unjoined, Finished
<1> QED BY <1>1, <1>2

\* A task in its loop either has something to do or polls its connection.
LEMMA LoopMoves ==
    ASSUME pc = "loop", ~TaskReady
    PROVE  ~Returnable /\ ~shutdown /\ (channelOpen => channel = {}) /\ PastRecv
BY DEF TaskReady, PastRecv

\* A handler under way is not stuck behind the channel.
LEMMA HandlerMoves ==
    ASSUME IInv, QuietInv, NEW r \in Reqs, handler[r] \in Active PROVE CanMove
<1>1. CASE pc \in Ended
  BY <1>1 DEF CanMove, HandlerReady, ReceiverAlive
<1>2. CASE pc = "inConn"
  BY <1>2 DEF CanMove, TaskReady
<1>3. CASE pc = "closing"
  BY <1>3, ClosingMoves
<1>4. ASSUME pc = "loop", ~TaskReady PROVE HandlerReady(r)
  <2>1. ReceiverAlive /\ PastRecv /\ (channelOpen => channel = {})
    BY <1>4, LoopMoves DEF ReceiverAlive, Ended
  <2>2. conn # "upgraded"
    BY DEF IInv, UpgradeInv
  <2>3. Cardinality(channel) < Cap
    BY <2>1, <2>2, ConnectionAssumption, FS_EmptySet DEF QuietInv
  <2>4. HandlerRuns(r)
    <3>1. CASE proto = "h2"
      BY <3>1 DEF HandlerRuns
    <3>2. CASE proto = "h1"
      <4>1. PollsConnection
        BY <2>1, <3>2 DEF QuietInv, PollsConnection
      <4>2. conn = "open"
        BY <1>4, <2>2, <4>1 DEF IInv, TypeOK, TaskReady
      <4> QED BY <4>1, <4>2 DEF HandlerRuns
    <3> QED BY <3>1, <3>2 DEF IInv, TypeOK
  <2> QED BY <2>1, <2>3, <2>4 DEF HandlerReady, Active
<1> QED BY <1>1, <1>2, <1>3, <1>4 DEF IInv, TypeOK, Ended, CanMove

\* A task that was told to stop or lost its peer is not stuck.
LEMMA LeavingMoves ==
    ASSUME IInv, QuietInv, pc \notin Ended, shutdown \/ conn = "gone" PROVE CanMove
<1>1. CASE pc = "inConn"
  BY <1>1 DEF CanMove, TaskReady
<1>2. CASE pc = "closing"
  BY <1>2, ClosingMoves
<1>3. ASSUME pc = "loop", ~TaskReady PROVE CanMove
  <2>1. ~Returnable /\ PastRecv /\ conn = "gone"
    BY <1>3, LoopMoves
  <2>2. finished
    BY <1>3, <2>1 DEF TaskReady, PollsConnection
  <2>3. PICK q \in Reqs : bridge[q] \in Running \cup {"ended", "cancelled"}
    BY <2>1, <2>2 DEF Returnable, Unjoined
  <2>4. bridge[q] \in Running
    BY <1>3, <2>1, <2>3 DEF TaskReady, Finished
  <2>5. BridgeReady(q)
    BY <2>1, <2>4 DEF BridgeReady, QuietInv, Running, IInv, TypeOK
  <2> QED BY <2>5 DEF CanMove
<1> QED BY <1>1, <1>2, <1>3 DEF IInv, TypeOK, CanMove, Ended

\* However many requests and whatever the capacity of the channel: handlers, the
\* select loop, the joins and the bridges never wait for each other in a circle.
THEOREM Unwedged == Spec => []NeverWedged
<1>1. Init => QuietInv
  BY DEF Init, QuietInv, Active
<1>2. IInv /\ QuietInv => NeverWedged
  <2> SUFFICES ASSUME IInv, QuietInv, Owing PROVE CanMove
    BY DEF NeverWedged, CanMove
  <2>1. ASSUME NEW r \in Reqs, pc \in Ended, bridge[r] \in Running PROVE CanMove
    <3>1. pc = "aborted"
      BY <2>1 DEF IInv, TaskInv, Unjoined, Ended
    <3> QED BY <2>1, <3>1 DEF BridgeReady, CanMove
  <2> QED BY <2>1, HandlerMoves, LeavingMoves DEF Owing
<1> QED BY Invariance, <1>1, <1>2, QuietStep, PTL DEF Spec

\* How far everything has come, when a step leaves it where it was.
LEMMA HandlersStay == ASSUME handler' = handler PROVE \A r \in Reqs : HandlerStage(r)' >= HandlerStage(r)
BY DEF HandlerStage
LEMMA BridgesStay == ASSUME bridge' = bridge PROVE \A r \in Reqs : BridgeStage(r)' >= BridgeStage(r)
BY DEF BridgeStage, Finished
LEMMA PastStays ==
    ASSUME shutdown => shutdown', finished => finished', ~channelOpen => ~channelOpen',
           conn # "open" => conn' # "open"
    PROVE  \A i \in 1..4 : Past[i] => Past[i]'
<1>1. /\ Past[1] = shutdown /\ Past[2] = finished
      /\ Past[3] = ~channelOpen /\ Past[4] = (conn # "open")
  BY DEF Past
<1>2. /\ Past'[1] = shutdown' /\ Past'[2] = finished'
      /\ Past'[3] = ~channelOpen' /\ Past'[4] = (conn' # "open")
  BY DEF Past
<1>3. \A i \in 1..4 : i = 1 \/ i = 2 \/ i = 3 \/ i = 4
  OBVIOUS
<1> QED BY <1>1, <1>2, <1>3, Zenon
LEMMA TaskStays ==
    ASSUME pc' = pc \/ (pc \in {"loop", "inConn"} /\ pc' \in {"loop", "inConn"})
    PROVE  TaskStage' >= TaskStage
BY DEF TaskStage

\* One bridge moves on.
LEMMA BridgeOnward ==
    ASSUME TypeOK, NEW r \in Reqs, NEW b, bridge' = [bridge EXCEPT ![r] = b],
           \/ bridge[r] \in Running /\ b \in {"ended", "cancelled"}
           \/ bridge[r] = "waiting" /\ b = "tunnel"
           \/ bridge[r] = "none" /\ b = "waiting"
           \/ bridge[r] \in {"ended", "cancelled"} /\ b = "joined"
    PROVE  /\ \A q \in Reqs : BridgeStage(q)' >= BridgeStage(q)
           /\ BridgeStage(r)' > BridgeStage(r)
BY DEF BridgeStage, Finished, TypeOK, Running

\* One handler moves on.
LEMMA HandlerOnward ==
    ASSUME TypeOK, NEW r \in Reqs, NEW h, handler' = [handler EXCEPT ![r] = h],
           \/ handler[r] = "none" /\ h = "upstream"
           \/ handler[r] = "upstream" /\ h = "upgrade"
           \/ handler[r] = "upgrade" /\ h = "send"
           \/ handler[r] \in Active /\ h \in {"done", "dropped"}
    PROVE  /\ \A q \in Reqs : HandlerStage(q)' >= HandlerStage(q)
           /\ HandlerStage(r)' > HandlerStage(r)
BY DEF HandlerStage, TypeOK, Active

\* Bridges are spawned, or dropped, for jobs that have none yet.
LEMMA JobsOnward ==
    ASSUME TypeOK, LinkInv, NEW jobs \in SUBSET channel, NEW b \in {"waiting", "lost"},
           bridge' = [r \in Reqs |-> IF r \in jobs THEN b ELSE bridge[r]]
    PROVE  \A q \in Reqs : BridgeStage(q)' >= BridgeStage(q)
BY DEF BridgeStage, Finished, TypeOK, Running, LinkInv

\* Each action moves something on and nothing back.
LEMMA OnwardStep ==
    ASSUME IInv, LinkInv, Next PROVE NoneBack /\ (OneOnward \/ PollEnds)
<1>t. TypeOK
  BY DEF IInv
<1> USE DEF hvars, lvars
<1>1. CASE LoopReturn \/ CloseReturn \/ Abort
  <2>1. /\ pc \in {"loop", "closing"} /\ pc' \in Ended
        /\ UNCHANGED <<shutdown, conn, finished, channelOpen, handler>>
        /\ bridge' = [r \in Reqs |-> IF r \in channel THEN "lost" ELSE bridge[r]]
    BY <1>1 DEF LoopReturn, CloseReturn, Abort, DropFrame, Ended
  <2>2. TaskStage' > TaskStage /\ TaskStage' >= TaskStage
    BY <2>1 DEF TaskStage, Ended
  <2>3. \A q \in Reqs : BridgeStage(q)' >= BridgeStage(q)
    BY <1>t, <2>1, JobsOnward
  <2>4. \A q \in Reqs : HandlerStage(q)' >= HandlerStage(q)
    BY <2>1, HandlersStay
  <2> QED BY <2>1, <2>2, <2>3, <2>4, PastStays DEF NoneBack, OneOnward
<1>2. CASE SelectShutdown
  <2>1. /\ pc = "loop" /\ pc' = "closing"
        /\ UNCHANGED <<shutdown, conn, finished, channelOpen, handler, bridge>>
    BY <1>2 DEF SelectShutdown
  <2>2. TaskStage' > TaskStage /\ TaskStage' >= TaskStage
    BY <2>1 DEF TaskStage
  <2> QED BY <2>1, <2>2, HandlersStay, BridgesStay, PastStays
          DEF NoneBack, OneOnward
<1>3. CASE SelectRecvNone
  <2>1. /\ channelOpen /\ ~channelOpen'
        /\ UNCHANGED <<pc, shutdown, conn, finished, handler, bridge>>
    BY <1>3 DEF SelectRecvNone
  <2>2. Past' # Past
    BY <2>1 DEF Past
  <2> QED BY <2>1, <2>2, HandlersStay, BridgesStay, PastStays, TaskStays
          DEF NoneBack, OneOnward
<1>4. CASE PollEnds
  <2>1. /\ pc = "inConn" /\ pc' = "loop"
        /\ UNCHANGED <<shutdown, conn, finished, channelOpen, handler, bridge>>
    BY <1>4 DEF PollEnds
  <2> QED BY <1>4, <2>1, HandlersStay, BridgesStay, PastStays, TaskStays
          DEF NoneBack
<1>5. ASSUME NEW r \in Reqs, SelectRecv(r) PROVE NoneBack /\ OneOnward
  <2>1. /\ r \in channel /\ bridge' = [bridge EXCEPT ![r] = "waiting"]
        /\ UNCHANGED <<pc, shutdown, conn, finished, channelOpen, handler>>
    BY <1>5, <1>t DEF SelectRecv, Spawn, TypeOK
  <2>2. bridge[r] = "none"
    BY <2>1 DEF LinkInv
  <2> QED BY <1>t, <2>1, <2>2, BridgeOnward, HandlersStay, PastStays, TaskStays
          DEF NoneBack, OneOnward
<1>6. CASE ConnectionDone
  <2>1. /\ ~finished /\ finished' /\ pc \in {"loop", "inConn"} /\ pc' = "loop"
        /\ UNCHANGED <<shutdown, channelOpen>> /\ conn' # "open"
        /\ bridge' = [r \in Reqs |-> IF r \in channel THEN "waiting" ELSE bridge[r]]
        /\ \/ handler' = handler
           \/ handler' = [r \in Reqs |->
                 IF proto = "h1" /\ handler[r] \in Active THEN "dropped" ELSE handler[r]]
    BY <1>6 DEF ConnectionDone, ConnectionReady, PollsConnection, PastRecv, Spawn
  <2>2. \A q \in Reqs : BridgeStage(q)' >= BridgeStage(q)
    BY <1>t, <2>1, JobsOnward
  <2>3. \A q \in Reqs : HandlerStage(q)' >= HandlerStage(q)
    BY <1>t, <2>1 DEF HandlerStage, TypeOK, Active
  <2>4. Past' # Past
    BY <2>1 DEF Past
  <2> QED BY <2>1, <2>2, <2>3, <2>4, PastStays, TaskStays DEF NoneBack, OneOnward
<1>7. ASSUME NEW r \in Reqs, SelectJoin(r) \/ CloseJoin(r) PROVE NoneBack /\ OneOnward
  <2>1. /\ bridge[r] \in {"ended", "cancelled"} /\ bridge' = [bridge EXCEPT ![r] = "joined"]
        /\ pc' = pc \/ (pc \in {"loop", "inConn"} /\ pc' \in {"loop", "inConn"})
        /\ UNCHANGED <<shutdown, conn, finished, channelOpen, handler>>
    BY <1>7 DEF SelectJoin, CloseJoin, PastRecv
  <2> QED BY <1>t, <2>1, BridgeOnward, HandlersStay, PastStays, TaskStays
          DEF NoneBack, OneOnward
<1>8. ASSUME NEW r \in Reqs, Arrive(r) \/ HandlerStep(r) PROVE NoneBack /\ OneOnward
  <2>1. /\ pc' = pc \/ (pc \in {"loop", "inConn"} /\ pc' \in {"loop", "inConn"})
        /\ UNCHANGED <<shutdown, conn, finished, channelOpen, bridge>>
    BY <1>8 DEF Arrive, HandlerStep, Advance, Refuse, SendJob, SendFails, HandlerDropped,
       HandlerRuns, HandlerPc, PollsConnection, PastRecv
  <2>2. \E h \in {"upstream", "upgrade", "send", "done", "dropped"} :
          /\ handler' = [handler EXCEPT ![r] = h]
          /\ \/ handler[r] = "none" /\ h = "upstream"
             \/ handler[r] = "upstream" /\ h = "upgrade"
             \/ handler[r] = "upgrade" /\ h = "send"
             \/ handler[r] \in Active /\ h \in {"done", "dropped"}
    BY <1>8, <1>t DEF Arrive, HandlerStep, Advance, Refuse, SendJob, SendFails, HandlerDropped,
       Answer, Active, TypeOK
  <2> QED BY <1>t, <2>1, <2>2, HandlerOnward, BridgesStay, PastStays, TaskStays
          DEF NoneBack, OneOnward
<1>9. ASSUME NEW r \in Reqs, BridgeStep(r) \/ TunnelCloses(r) PROVE NoneBack /\ OneOnward
  <2>1. /\ UNCHANGED <<pc, shutdown, conn, finished, channelOpen, handler>>
        /\ \E b \in {"tunnel", "ended", "cancelled"} :
             /\ bridge' = [bridge EXCEPT ![r] = b]
             /\ \/ bridge[r] \in Running /\ b \in {"ended", "cancelled"}
                \/ bridge[r] = "waiting" /\ b = "tunnel"
    BY <1>9 DEF BridgeStep, BridgeOpens, BridgeGivesUp, TunnelBreaks, BridgeCancelled,
       TunnelCloses, BridgeMoves, Running
  <2> QED BY <1>t, <2>1, BridgeOnward, HandlersStay, PastStays, TaskStays
          DEF NoneBack, OneOnward
<1>10. CASE PeerCloses \/ SignalShutdown
  <2>1. /\ UNCHANGED <<pc, finished, channelOpen, handler, bridge>>
        /\ shutdown => shutdown'
        /\ conn # "open" => conn' # "open"
        /\ (~shutdown /\ shutdown') \/ (conn = "open" /\ conn' # "open")
    BY <1>10 DEF PeerCloses, SignalShutdown
  <2>2. Past' # Past
    BY <2>1 DEF Past
  <2> QED BY <2>1, <2>2, HandlersStay, BridgesStay, PastStays, TaskStays
          DEF NoneBack, OneOnward
<1> QED BY <1>1, <1>2, <1>3, <1>4, <1>5, <1>6, <1>7, <1>8, <1>9, <1>10 DEF Next, Loop

\* Everything moves on only, whatever the order of the steps, for any number of
\* requests: with Unwedged this is why the task, its handlers and its bridges end.
THEOREM Onward == Spec => OnlyOnward
<1>1. Init => LinkInv
  BY DEF Init, LinkInv
<1>2. IInv /\ LinkInv /\ [Next]_vars => [NoneBack /\ (OneOnward \/ PollEnds)]_vars
  BY OnwardStep
<1> QED BY Invariance, <1>1, <1>2, ServiceStep, PTL DEF Spec, OnlyOnward

\* The runtime keeps polling the bridge of r while it can move: the fairness of
\* BridgeStep(r), with its guard spelled out.
BridgePolled(r) == []<>~BridgeReady(r) \/ []<><<BridgeStep(r)>>_vars

\* Where one bridge is once its task has ended.
Orphan(r, where) == pc \in Ended /\ bridge[r] = where

\* Nobody brings an orphaned bridge back, and its own step takes it further.
LEMMA OrphanStep ==
    ASSUME NEW r \in Reqs, IInv, [Next]_vars
    PROVE  /\ Orphan(r, "waiting") => (Orphan(r, "waiting") \/ Orphan(r, "tunnel")
                                          \/ bridge[r] \notin Running)'
           /\ Orphan(r, "tunnel") => (Orphan(r, "tunnel") \/ bridge[r] \notin Running)'
           /\ BridgeStep(r) => /\ Orphan(r, "waiting") => (Orphan(r, "tunnel") \/ bridge[r] \notin Running)'
                               /\ Orphan(r, "tunnel") => (bridge[r] \notin Running)'
<1>t. TypeOK
  BY DEF IInv
<1> USE DEF Orphan, Ended, Running, hvars, lvars
<1> SUFFICES ASSUME pc \in Ended, bridge[r] \in Running
             PROVE  /\ pc' = pc
                    /\ bridge'[r] = bridge[r] \/ bridge'[r] = "tunnel" \/ bridge'[r] \notin Running
                    /\ bridge[r] = "tunnel" => bridge'[r] = "tunnel" \/ bridge'[r] \notin Running
                    /\ BridgeStep(r) => bridge'[r] # bridge[r]
  BY <1>t DEF TypeOK
<1>1. ASSUME NEW q \in Reqs, BridgeStep(q) \/ TunnelCloses(q)
      PROVE  /\ pc' = pc
             /\ bridge'[r] = bridge[r] \/ bridge'[r] = "tunnel" \/ bridge'[r] \notin Running
             /\ bridge[r] = "tunnel" => bridge'[r] = "tunnel" \/ bridge'[r] \notin Running
             /\ q = r => bridge'[r] # bridge[r]
  BY <1>1, <1>t DEF BridgeStep, BridgeOpens, BridgeGivesUp, TunnelBreaks, BridgeCancelled,
     TunnelCloses, BridgeMoves, TypeOK
<1>2. CASE UNCHANGED <<pc, bridge>>
  <2>1. ~BridgeStep(r)
    BY <1>1, <1>2
  <2> QED BY <1>2, <2>1
<1>3. ASSUME NEW q \in Reqs, HandlerStep(q) PROVE UNCHANGED <<pc, bridge>>
  BY <1>3 DEF HandlerStep, Advance, Refuse, SendJob, SendFails, HandlerDropped, HandlerRuns,
     HandlerPc, PollsConnection, PastRecv, ReceiverAlive
<1>4. ASSUME Loop \/ Abort PROVE FALSE
  BY <1>4 DEF Loop, LoopReturn, SelectShutdown, SelectRecvNone, ConnectionDone, ConnectionReady,
     PollEnds, SelectRecv, SelectJoin, CloseJoin, CloseReturn, PollsConnection, PastRecv, Abort
<1>5. ASSUME NEW q \in Reqs, Arrive(q) PROVE FALSE
  BY <1>5 DEF Arrive, PollsConnection, PastRecv
<1>6. CASE PeerCloses \/ SignalShutdown \/ UNCHANGED vars
  BY <1>2, <1>6 DEF PeerCloses, SignalShutdown, vars
<1> QED BY <1>1, <1>2, <1>3, <1>4, <1>5, <1>6 DEF Next

\* A bridge whose task is over stops, when it is polled.
LEMMA OrphanEnds ==
    ASSUME NEW r \in Reqs
    PROVE  Spec /\ BridgePolled(r) => (pc \in Ended ~> bridge[r] \notin Running)
<1>1. IInv /\ (Orphan(r, "waiting") \/ Orphan(r, "tunnel")) => BridgeReady(r)
  BY DEF IInv, TaskInv, Unjoined, Orphan, Ended, Running, BridgeReady
<1>2. pc \in Ended => \/ Orphan(r, "waiting") \/ Orphan(r, "tunnel")
                      \/ bridge[r] \notin Running
  BY DEF Orphan, Running
<1>3. IInv /\ [Next]_vars /\ Orphan(r, "waiting")
        => (Orphan(r, "waiting") \/ Orphan(r, "tunnel") \/ bridge[r] \notin Running)'
  BY OrphanStep
<1>4. IInv /\ [Next]_vars /\ Orphan(r, "tunnel") => (Orphan(r, "tunnel") \/ bridge[r] \notin Running)'
  BY OrphanStep
<1>5. IInv /\ [Next]_vars /\ <<BridgeStep(r)>>_vars /\ Orphan(r, "waiting")
        => (Orphan(r, "tunnel") \/ bridge[r] \notin Running)'
  BY OrphanStep
<1>6. IInv /\ [Next]_vars /\ <<BridgeStep(r)>>_vars /\ Orphan(r, "tunnel") => (bridge[r] \notin Running)'
  BY OrphanStep
<1> QED BY <1>1, <1>2, <1>3, <1>4, <1>5, <1>6, Invariance, PTL DEF Spec, BridgePolled

\* However the task ends, its tunnels end too, for any number of them: all this
\* takes is that the runtime polls each bridge while it can move.
THEOREM TunnelsEnd == Spec /\ (\A r \in Reqs : BridgePolled(r)) => NoTunnelOutlivesTask
BY OrphanEnds DEF NoTunnelOutlivesTask

\* The task is polled while it can move.
TaskPolled == []<>~TaskReady \/ []<><<Progress>>_vars

\* In the loop with the shutdown signalled.
Asked(where) == shutdown /\ pc = where

\* A poll of the connection ends at a new iteration, which reads the signal before
\* anything else: no request, job or bridge gets in between.
LEMMA AskedStep ==
    ASSUME IInv, [Next]_vars
    PROVE  /\ Asked("inConn") => (Asked("inConn") \/ Asked("loop"))'
           /\ Asked("loop") => (Asked("loop") \/ ~InLoop)'
           /\ Progress => /\ Asked("inConn") => Asked("loop")'
                          /\ Asked("loop") => (~InLoop)'
<1> USE DEF Asked, InLoop, Ended, hvars, lvars
<1> SUFFICES ASSUME shutdown, InLoop
             PROVE  /\ shutdown' = shutdown
                    /\ pc = "inConn" => pc' \in {"inConn", "loop"} /\ (Progress => pc' = "loop")
                    /\ pc = "loop" => pc' \notin {"inConn"} /\ (Progress => pc' # "loop")
  OBVIOUS
<1>1. ASSUME Loop
      PROVE  /\ shutdown' = shutdown
             /\ pc = "inConn" => pc' = "loop"
             /\ pc = "loop" => pc' \notin {"inConn", "loop"}
  BY <1>1 DEF Loop, LoopReturn, SelectShutdown, SelectRecvNone, ConnectionDone, ConnectionReady,
     PollEnds, SelectRecv, SelectJoin, CloseJoin, CloseReturn, PollsConnection, PastRecv, DropFrame
<1>2. ASSUME Abort
      PROVE  /\ shutdown' = shutdown /\ pc = "loop" /\ pc' \notin {"inConn", "loop"}
  BY <1>2 DEF Abort, DropFrame
<1>3. ASSUME NEW q \in Reqs, Arrive(q) \/ HandlerStep(q)
      PROVE  shutdown' = shutdown /\ pc' = pc
  <2>1. PollsConnection => pc = "inConn"
    BY DEF PollsConnection, PastRecv
  <2>2. HandlerRuns(q) /\ HandlerPc => pc' = pc
    BY <2>1 DEF HandlerRuns, HandlerPc
  <2>3. CASE Arrive(q)
    BY <2>1, <2>3 DEF Arrive
  <2>4. CASE Advance(q) \/ Refuse(q) \/ SendJob(q)
    <3>1. HandlerRuns(q) /\ HandlerPc /\ shutdown' = shutdown
      BY <2>4, Zenon DEF Advance, Refuse, SendJob
    <3> QED BY <2>2, <3>1
  <2>5. CASE SendFails(q) \/ HandlerDropped(q)
    BY <2>5 DEF SendFails, HandlerDropped
  <2> QED BY <1>3, <2>3, <2>4, <2>5 DEF HandlerStep
<1>4. ASSUME NEW q \in Reqs, BridgeStep(q) \/ TunnelCloses(q)
      PROVE  shutdown' = shutdown /\ pc' = pc
  BY <1>4 DEF BridgeStep, BridgeOpens, BridgeGivesUp, TunnelBreaks, BridgeCancelled,
     TunnelCloses, BridgeMoves
<1>5. CASE PeerCloses \/ SignalShutdown \/ UNCHANGED vars
  BY <1>1, <1>5 DEF PeerCloses, SignalShutdown, vars, Progress
<1>6. Progress => Loop
  BY DEF Progress
<1> QED BY <1>1, <1>2, <1>3, <1>4, <1>5, <1>6 DEF Next

\* The shutdown is seen, for any number of requests and any capacity of the channel,
\* whatever the peer, the handlers and the bridges do: all it takes is that the
\* runtime polls the task while it can move (connection.rs:31-40).
THEOREM Heard == Spec /\ TaskPolled => ShutdownHeard
<1>1. IInv /\ (Asked("inConn") \/ Asked("loop")) => TaskReady
  BY DEF Asked, TaskReady
<1>2. shutdown => Asked("inConn") \/ Asked("loop") \/ ~InLoop
  BY DEF Asked, InLoop
<1>3. IInv /\ [Next]_vars /\ Asked("inConn") => (Asked("inConn") \/ Asked("loop"))'
  BY AskedStep
<1>4. IInv /\ [Next]_vars /\ Asked("loop") => (Asked("loop") \/ ~InLoop)'
  BY AskedStep
<1>5. IInv /\ [Next]_vars /\ <<Progress>>_vars /\ Asked("inConn") => Asked("loop")'
  BY AskedStep
<1>6. IInv /\ [Next]_vars /\ <<Progress>>_vars /\ Asked("loop") => (~InLoop)'
  BY AskedStep
<1> QED
  BY <1>1, <1>2, <1>3, <1>4, <1>5, <1>6, Invariance, PTL DEF Spec, TaskPolled, ShutdownHeard
=============================================================================
