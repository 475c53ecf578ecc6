----------------------- MODULE ServerLifecycle_proofs -----------------------
(* Proofs about ServerLifecycle for any set of callers, addresses and        *)
(* connections, any number of generations and any timeouts: typing, the      *)
(* invariants StatusIsTruth, NoOrphanServer and CompletionMeansQuiet, the    *)
(* action property StoppedMeansFree, the implementation of ProxyControl, the *)
(* timing of a responsive machine, and the end of every stop and of every    *)
(* server told to stop.                                                      *)
EXTENDS ServerLifecycle, TLAPS

USE DEF Gens, NoGen, External

\* What the mutex protects: exactly the caller inside stop holds it, the handle
\* it took is gone from the state, and nobody else may bind its address.
LockInv ==
    /\ \A c \in Callers : pc[c] = "stopping" <=> lock = c
    /\ lock # NoCaller => shutdown = NoGen
    /\ \A c \in Callers : pc[c] = "stopping" =>
         /\ taken[c] \in Gens
         /\ previous[c] \in Addrs
         /\ phase[taken[c]] \notin {"unborn", "serving"}
         /\ socket[previous[c]] \notin Gens \ {taken[c]}

\* The recorded handle, address and flag belong to one serving generation.
HandleInv ==
    /\ shutdown # NoGen =>
         /\ running
         /\ listenAddr \in Addrs
         /\ phase[shutdown] = "serving"
         /\ socket[listenAddr] = shutdown
    /\ shutdown = NoGen => listenAddr = NoAddr
    /\ running /\ lock = NoCaller => shutdown # NoGen

\* Sockets and connection tasks belong to generations in the right phase.
OwnerInv ==
    /\ \A a \in Addrs : socket[a] \in Gens => phase[socket[a]] \in {"serving", "signalled"}
    /\ \A k \in Conns : conn[k] \in Gens => phase[conn[k]] \notin {"unborn", "done"}

IInv == TypeOK /\ LockInv /\ HandleInv /\ OwnerInv /\ NoOrphanServer

-----------------------------------------------------------------------------
\* Zero is a legal value of both timers.
LEMMA ZeroTicks == 0 \in 0..StopTimeout /\ 0 \in 0..Grace
  BY LifecycleAssumption DEF LifecycleAssumption

\* The initial states satisfy the invariant: everything is stopped and free.
LEMMA InitInv == Init => IInv
<1> SUFFICES ASSUME Init PROVE IInv
  OBVIOUS
<1> USE LifecycleAssumption DEF LifecycleAssumption, Init
<1>1. TypeOK
  <2>2. reply \in [Callers -> [running : BOOLEAN, addr : Addrs \cup {NoAddr}, note : Notes]]
    BY DEF NoReply, Reply, Notes
  <2>3. waited \in 0..StopTimeout /\ grace \in [Gens -> 0..Grace]
    BY ZeroTicks
  <2>4. conn \in [Conns -> Gens \cup {NoGen}] /\ taken \in [Callers -> Gens \cup {NoGen}]
    OBVIOUS
  <2> QED BY <2>2, <2>3, <2>4 DEF TypeOK
<1>2. LockInv
  BY DEF LockInv
<1>3. HandleInv /\ OwnerInv /\ NoOrphanServer
  BY DEF HandleInv, OwnerInv, NoOrphanServer
<1> QED BY <1>1, <1>2, <1>3 DEF IInv

\* Every step keeps every variable in its type.
LEMMA TypeStep == TypeOK /\ [Next]_vars => TypeOK'
<1> SUFFICES ASSUME TypeOK, [Next]_vars PROVE TypeOK'
  OBVIOUS
<1> USE DEF TypeOK, Notes, Reply, NoReply, Ops, ListenArgs, stateVars, callerVars, serverVars, machine
<1>1. ASSUME NEW c \in Callers, CallerStep(c) PROVE TypeOK'
  <2>1. ASSUME NEW op \in Ops, NEW a \in ListenArgs, Call(c, op, a) PROVE TypeOK'
    BY <2>1 DEF Call
  <2>2. CASE StartRefused(c)
    BY <2>2 DEF StartRefused, StartRefusal, Return
  <2>3. CASE StartBindFailed(c)
    BY <2>3 DEF StartBindFailed, Return
  <2>4. ASSUME NEW a \in Addrs, NEW g \in Gens, StartBound(c, a, g) PROVE TypeOK'
    BY <2>4 DEF StartBound, Return
  <2>5. CASE Status(c)
    BY <2>5 DEF Status, Return
  <2>6. CASE StopSignal(c)
    <3>1. phase' \in [Gens -> {"unborn", "serving", "signalled", "draining", "aborting", "done"}]
      BY <2>6 DEF StopSignal
    <3>2. waited' \in 0..StopTimeout
      BY <2>6, ZeroTicks DEF StopSignal
    <3> QED BY <2>6, <3>1, <3>2 DEF StopSignal
  <2>7. CASE StopNotRunning(c)
    BY <2>7 DEF StopNotRunning, Return
  <2>8. CASE StopReturn(c)
    <3>1. PICK n \in {"stopped", "stop timed out"} : EndStop(c, n)
      BY <2>8 DEF StopReturn
    <3>2. waited' \in 0..StopTimeout
      BY <3>1, ZeroTicks DEF EndStop
    <3> QED BY <2>8, <3>1, <3>2 DEF StopReturn, EndStop, Return
  <2> QED BY <1>1, <2>1, <2>2, <2>3, <2>4, <2>5, <2>6, <2>7, <2>8 DEF CallerStep
<1>2. ASSUME NEW g \in Gens, ServerStep(g) PROVE TypeOK'
  <2>2. ASSUME NEW k \in Conns, Accept(g, k) PROVE TypeOK'
    BY <2>2 DEF Accept
  <2>3. CASE BeginDrain(g)
    BY ZeroTicks, <2>3 DEF BeginDrain
  <2>4. CASE DrainTimeout(g)
    BY ZeroTicks, <2>4 DEF DrainTimeout
  <2>5. CASE Complete(g)
    BY ZeroTicks, <2>5 DEF Complete
  <2> QED BY <1>2, <2>2, <2>3, <2>4, <2>5 DEF ServerStep
<1>3. ASSUME NEW k \in Conns, ConnStep(k) PROVE TypeOK'
  BY <1>3 DEF ConnStep, ConnClosed, ConnObeysShutdown, ConnAborted, ConnEnds
<1>4. ASSUME NEW a \in Addrs, ExternalBind(a) \/ ExternalRelease(a) PROVE TypeOK'
  BY <1>4 DEF ExternalBind, ExternalRelease
<1>5. CASE Tick
  <2>1. /\ waited \in 0..StopTimeout /\ StopTimeout \in Nat
        /\ grace \in [Gens -> 0..Grace] /\ Grace \in Nat
    BY LifecycleAssumption DEF LifecycleAssumption
  <2> HIDE DEF TypeOK
  <2>2. waited' \in 0..StopTimeout
    BY <1>5, <2>1 DEF Tick, Waiting
  <2>3. grace' \in [Gens -> 0..Grace]
    BY <1>5, <2>1 DEF Tick, Timing
  <2> QED BY <1>5, <2>2, <2>3 DEF Tick, TypeOK
<1>6. CASE UNCHANGED vars
  BY <1>6 DEF vars
<1> QED BY <1>1, <1>2, <1>3, <1>4, <1>5, <1>6 DEF Next, Step

-----------------------------------------------------------------------------
SafeInv == LockInv /\ HandleInv /\ OwnerInv /\ NoOrphanServer

\* Steps that touch none of the variables the invariant is about.
LEMMA QuietStep ==
  ASSUME SafeInv, UNCHANGED <<stateVars, lock, taken, previous, phase, conn, socket>>,
         \A c \in Callers : pc'[c] = "stopping" <=> pc[c] = "stopping"
  PROVE  SafeInv'
  BY DEF SafeInv, LockInv, HandleInv, OwnerInv, NoOrphanServer, stateVars

\* A step of a caller preserves the invariant.
LEMMA CallerInv ==
  ASSUME TypeOK, SafeInv, NEW c \in Callers, CallerStep(c) PROVE SafeInv'
<1> USE DEF stateVars, callerVars, serverVars
<1>1. ASSUME NEW op \in Ops, NEW a \in ListenArgs, Call(c, op, a) PROVE SafeInv'
  BY <1>1, QuietStep DEF Call, Ops, TypeOK
<1>2. CASE StartRefused(c) \/ StartBindFailed(c) \/ Status(c)
  BY <1>2, QuietStep DEF StartRefused, StartBindFailed, Status, MayBind, Return, TypeOK
<1>3. ASSUME NEW a \in Addrs, NEW g \in Gens, StartBound(c, a, g) PROVE SafeInv'
  <2> USE DEF SafeInv, TypeOK
  <2>1. /\ lock = NoCaller /\ ~running /\ pc[c] = "start"
        /\ phase[g] = "unborn" /\ socket[a] = NoGen
        /\ running' /\ listenAddr' = a /\ shutdown' = g
        /\ phase' = [phase EXCEPT ![g] = "serving"]
        /\ socket' = [socket EXCEPT ![a] = g]
        /\ pc' = [pc EXCEPT ![c] = "idle"]
        /\ UNCHANGED <<lock, taken, previous, conn>>
    BY <1>3 DEF StartBound, MayBind, Return
  <2>2. shutdown = NoGen /\ \A h \in Gens : phase[h] # "serving"
    BY <2>1 DEF HandleInv, NoOrphanServer
  <2>3. \A d \in Callers : pc[d] # "stopping" /\ pc'[d] # "stopping"
    BY <2>1, LifecycleAssumption DEF LockInv, LifecycleAssumption
  <2>4. LockInv'
    BY <2>1, <2>3, LifecycleAssumption DEF LockInv, LifecycleAssumption
  <2>5. HandleInv'
    BY <2>1 DEF HandleInv
  <2>6. OwnerInv'
    <3>1. \A b \in Addrs : socket'[b] \in Gens => phase'[socket'[b]] \in {"serving", "signalled"}
      BY <2>1 DEF OwnerInv
    <3>2. \A k \in Conns : conn'[k] \in Gens => phase'[conn'[k]] \notin {"unborn", "done"}
      BY <2>1 DEF OwnerInv
    <3> QED BY <3>1, <3>2 DEF OwnerInv
  <2>7. NoOrphanServer'
    BY <2>1, <2>2 DEF NoOrphanServer
  <2> QED BY <2>4, <2>5, <2>6, <2>7
<1>4. CASE StopSignal(c)
  <2> USE DEF SafeInv, TypeOK
  <2> DEFINE g == shutdown
  <2>1. /\ lock = NoCaller /\ g \in Gens
        /\ lock' = c /\ shutdown' = NoGen /\ listenAddr' = NoAddr
        /\ taken' = [taken EXCEPT ![c] = g]
        /\ previous' = [previous EXCEPT ![c] = listenAddr]
        /\ phase' = [phase EXCEPT ![g] = "signalled"]
        /\ pc' = [pc EXCEPT ![c] = "stopping"]
        /\ UNCHANGED <<running, conn, socket>>
    BY <1>4 DEF StopSignal
  <2>2. listenAddr \in Addrs /\ phase[g] = "serving" /\ socket[listenAddr] = g
    BY <2>1 DEF HandleInv
  <2>3. \A d \in Callers : pc[d] # "stopping"
    BY <2>1, LifecycleAssumption DEF LockInv, LifecycleAssumption
  <2>4. LockInv'
    BY <2>1, <2>2, <2>3 DEF LockInv
  <2>5. HandleInv'
    BY <2>1, LifecycleAssumption DEF HandleInv, LifecycleAssumption
  <2>6. OwnerInv'
    BY <2>1, <2>2 DEF OwnerInv
  <2>7. NoOrphanServer'
    BY <2>1 DEF NoOrphanServer
  <2> QED BY <2>4, <2>5, <2>6, <2>7
<1>5. CASE StopNotRunning(c)
  <2>1. /\ lock = NoCaller /\ shutdown = NoGen /\ pc[c] = "stop"
        /\ running' = FALSE /\ listenAddr' = NoAddr
        /\ pc' = [pc EXCEPT ![c] = "idle"]
        /\ UNCHANGED <<shutdown, lock, taken, previous, phase, conn, socket>>
    BY <1>5 DEF StopNotRunning, Return
  <2>2. LockInv'
    BY <2>1 DEF SafeInv, TypeOK, LockInv
  <2> QED BY <2>1, <2>2 DEF SafeInv, HandleInv, OwnerInv, NoOrphanServer
<1>6. CASE StopReturn(c)
  <2>1. /\ pc[c] = "stopping" /\ running' = FALSE /\ lock' = NoCaller
        /\ pc' = [pc EXCEPT ![c] = "idle"]
        /\ taken' = [taken EXCEPT ![c] = NoGen]
        /\ previous' = [previous EXCEPT ![c] = NoAddr]
        /\ UNCHANGED <<listenAddr, shutdown, phase, conn, socket>>
    BY <1>6 DEF StopReturn, EndStop, Return
  <2>2. lock = c /\ shutdown = NoGen
    BY <2>1, LifecycleAssumption DEF SafeInv, LockInv, LifecycleAssumption
  <2>3. LockInv'
    BY <2>1, <2>2, LifecycleAssumption DEF SafeInv, TypeOK, LockInv, LifecycleAssumption
  <2> QED BY <2>1, <2>2, <2>3 DEF SafeInv, HandleInv, OwnerInv, NoOrphanServer
<1> QED BY <1>1, <1>2, <1>3, <1>4, <1>5, <1>6 DEF CallerStep

\* A step of a server task preserves the invariant.
LEMMA ServerInv ==
  ASSUME TypeOK, SafeInv, NEW g \in Gens, ServerStep(g) PROVE SafeInv'
<1> USE DEF stateVars, callerVars, serverVars, TypeOK, SafeInv
<1>1. ASSUME NEW k \in Conns, Accept(g, k) PROVE SafeInv'
  BY <1>1 DEF Accept, LockInv, HandleInv, OwnerInv, NoOrphanServer
<1>2. CASE BeginDrain(g)
  <2>1. /\ phase[g] = "signalled"
        /\ phase' = [phase EXCEPT ![g] = "draining"]
        /\ socket' = [a \in Addrs |-> IF socket[a] = g THEN NoGen ELSE socket[a]]
        /\ UNCHANGED <<running, listenAddr, shutdown, lock, pc, taken, previous, conn>>
    BY <1>2 DEF BeginDrain
  <2>2. LockInv'
    BY <2>1 DEF LockInv
  <2>3. HandleInv'
    BY <2>1 DEF HandleInv
  <2>4. OwnerInv'
    BY <2>1 DEF OwnerInv
  <2> QED BY <2>1, <2>2, <2>3, <2>4 DEF NoOrphanServer
<1>3. CASE DrainTimeout(g) \/ Complete(g)
  <2>1. PICK to \in {"aborting", "done"} :
          /\ phase[g] \in {"draining", "aborting"}
          /\ to = "done" => Live(g) = {}
          /\ phase' = [phase EXCEPT ![g] = to]
          /\ UNCHANGED <<running, listenAddr, shutdown, lock, pc, taken, previous, conn, socket>>
    BY <1>3 DEF DrainTimeout, Complete
  <2>2. LockInv'
    BY <2>1 DEF LockInv
  <2>3. HandleInv'
    BY <2>1 DEF HandleInv
  <2>4. OwnerInv'
    BY <2>1 DEF OwnerInv, Live
  <2> QED BY <2>1, <2>2, <2>3, <2>4 DEF NoOrphanServer
<1> QED BY <1>1, <1>2, <1>3 DEF ServerStep

\* The invariant is inductive.
LEMMA StepInv == IInv /\ [Next]_vars => IInv'
<1> SUFFICES ASSUME IInv, [Next]_vars PROVE IInv'
  OBVIOUS
<1>1. TypeOK /\ SafeInv
  BY DEF IInv, SafeInv
<1>2. TypeOK'
  BY <1>1, TypeStep
<1>3. SafeInv'
  <2> USE DEF stateVars, callerVars, serverVars
  <2>1. ASSUME NEW c \in Callers, CallerStep(c) PROVE SafeInv'
    BY <1>1, <2>1, CallerInv
  <2>2. ASSUME NEW g \in Gens, ServerStep(g) PROVE SafeInv'
    BY <1>1, <2>2, ServerInv
  <2>3. ASSUME NEW k \in Conns, ConnStep(k) PROVE SafeInv'
    <3>1. /\ conn' = [conn EXCEPT ![k] = NoGen]
          /\ UNCHANGED <<running, listenAddr, shutdown, lock, pc, taken, previous, phase, socket>>
      BY <2>3 DEF ConnStep, ConnClosed, ConnObeysShutdown, ConnAborted, ConnEnds
    <3>2. LockInv' /\ HandleInv' /\ NoOrphanServer'
      BY <1>1, <3>1 DEF SafeInv, LockInv, HandleInv, NoOrphanServer
    <3>3. OwnerInv'
      BY <1>1, <3>1 DEF SafeInv, OwnerInv, TypeOK
    <3> QED BY <3>2, <3>3 DEF SafeInv
  <2>4. ASSUME NEW a \in Addrs, ExternalBind(a) \/ ExternalRelease(a) PROVE SafeInv'
    <3>1. PICK o \in {NoGen, External} :
            /\ socket[a] \notin Gens
            /\ socket' = [socket EXCEPT ![a] = o]
            /\ UNCHANGED <<running, listenAddr, shutdown, lock, pc, taken, previous, phase, conn>>
      BY <2>4 DEF ExternalBind, ExternalRelease
    <3>2. LockInv'
      BY <1>1, <3>1 DEF SafeInv, LockInv, TypeOK
    <3>3. HandleInv' /\ NoOrphanServer'
      BY <1>1, <3>1 DEF SafeInv, HandleInv, NoOrphanServer, TypeOK
    <3>4. OwnerInv'
      BY <1>1, <3>1 DEF SafeInv, OwnerInv, TypeOK
    <3> QED BY <3>2, <3>3, <3>4 DEF SafeInv
  <2>5. CASE Tick \/ UNCHANGED vars
    BY <1>1, <2>5, QuietStep DEF Tick, vars
  <2> QED BY <2>1, <2>2, <2>3, <2>4, <2>5 DEF Next, Step
<1> QED BY <1>2, <1>3 DEF IInv, SafeInv

\* The invariant holds in every reachable state.
LEMMA Invariance == Spec => []IInv
  BY InitInv, StepInv, PTL DEF Spec

-----------------------------------------------------------------------------
\* Every variable keeps its type.
THEOREM TypeCorrect == Spec => []TypeOK
<1>1. IInv => TypeOK
  BY DEF IInv
<1> QED BY Invariance, <1>1, PTL

\* What status and start report under the mutex is the truth about the server.
THEOREM StatusTruth == Spec => []StatusIsTruth
<1>1. IInv => StatusIsTruth
  BY LifecycleAssumption DEF IInv, HandleInv, StatusIsTruth, LifecycleAssumption
<1> QED BY Invariance, <1>1, PTL

\* A serving generation is always the one a stop would reach.
THEOREM NoOrphan == Spec => []NoOrphanServer
<1>1. IInv => NoOrphanServer
  BY DEF IInv
<1> QED BY Invariance, <1>1, PTL

\* A closed listener stays closed, a completed generation has no connection.
THEOREM CompletionQuiet == Spec => []CompletionMeansQuiet
<1>1. IInv => CompletionMeansQuiet
  <2> SUFFICES ASSUME OwnerInv, TypeOK, NEW g \in Gens
               PROVE  /\ phase[g] \in {"draining", "aborting", "done"}
                           => \A a \in Addrs : socket[a] # g
                      /\ phase[g] = "done" => Live(g) = {}
    BY DEF IInv, CompletionMeansQuiet
  <2>1. ASSUME NEW a \in Addrs, socket[a] = g PROVE phase[g] \in {"serving", "signalled"}
    BY <2>1 DEF OwnerInv
  <2>2. ASSUME NEW k \in Conns, conn[k] = g PROVE phase[g] # "done"
    BY <2>2 DEF OwnerInv
  <2> QED BY <2>1, <2>2 DEF Live
<1> QED BY Invariance, <1>1, PTL

\* A stop that reports success leaves no task and no socket of its server.
THEOREM StoppedFree == Spec => StoppedMeansFree
<1>1. IInv /\ [Next]_vars => [StopFreesAll]_vars
  <2> SUFFICES ASSUME IInv, Next, NEW c \in Callers,
                      pc[c] = "stopping", pc'[c] = "idle", reply'[c].note = "stopped"
               PROVE  Live(taken[c]) = {} /\ socket[previous[c]] \notin Gens
    BY DEF StopFreesAll, StoppedFrees
  <2>1. StopReturn(c)
    <3> USE DEF IInv, TypeOK, stateVars, callerVars, serverVars
    <3>1. ASSUME NEW d \in Callers, CallerStep(d), ~StopReturn(c) PROVE pc'[c] = "stopping"
      <4>1. d # c => pc'[c] = pc[c]
        BY <3>1 DEF CallerStep, Call, StartRefused, StartBindFailed, StartBound, Status,
           StopSignal, StopNotRunning, StopReturn, EndStop, Return
      <4>2. d # c
        BY <3>1 DEF CallerStep, Call, StartRefused, StartBindFailed, StartBound, MayBind,
           Status, StopSignal, StopNotRunning
      <4> QED BY <4>1, <4>2
    <3>2. ASSUME NEW g \in Gens, ServerStep(g) PROVE pc' = pc
      BY <3>2 DEF ServerStep, Accept, BeginDrain, DrainTimeout, Complete
    <3>3. ASSUME NEW k \in Conns, ConnStep(k) PROVE pc' = pc
      BY <3>3 DEF ConnStep, ConnClosed, ConnObeysShutdown, ConnAborted, ConnEnds
    <3>4. ASSUME NEW a \in Addrs, ExternalBind(a) \/ ExternalRelease(a) PROVE pc' = pc
      BY <3>4 DEF ExternalBind, ExternalRelease
    <3>5. CASE Tick
      BY <3>5 DEF Tick
    <3> QED BY <3>1, <3>2, <3>3, <3>4, <3>5 DEF Next, Step
  <2>2. phase[taken[c]] = "done"
    <3>1. ASSUME NEW n \in {"stopped", "stop timed out"}, EndStop(c, n) PROVE reply'[c].note = n
      <4>1. reply' = [reply EXCEPT ![c] = Reply(FALSE, previous[c], n)]
        BY <3>1 DEF EndStop, Return
      <4>2. reply'[c] = Reply(FALSE, previous[c], n)
        BY <4>1 DEF IInv, TypeOK
      <4> QED BY <4>2 DEF Reply
    <3>2. ~EndStop(c, "stop timed out")
      BY <3>1
    <3> QED BY <2>1, <3>2 DEF StopReturn
  <2>3. /\ taken[c] \in Gens /\ previous[c] \in Addrs
        /\ socket[previous[c]] \notin Gens \ {taken[c]}
    BY DEF IInv, LockInv
  <2>4. Live(taken[c]) = {}
    BY <2>2, <2>3 DEF IInv, OwnerInv, Live
  <2>5. socket[previous[c]] # taken[c]
    BY <2>2, <2>3 DEF IInv, OwnerInv
  <2> QED BY <2>3, <2>4, <2>5
<1> QED BY Invariance, <1>1, PTL DEF Spec, StoppedMeansFree

-----------------------------------------------------------------------------
(* A responsive runtime.                                                     *)

\* While a stop waits, its generation is no slower than the clock of the wait:
\* nothing has elapsed when it is signalled, the drain counts with the wait, and
\* the end of the drain is reached with time to spare.
InTime(c) ==
    /\ waited <= Grace
    /\ phase[taken[c]] = "signalled" => waited = 0
    /\ phase[taken[c]] = "draining" => waited <= grace[taken[c]]
WaitInv == \A c \in Callers : pc[c] = "stopping" => InTime(c)
SignalInv ==
    \A g \in Gens : phase[g] = "signalled" => \E c \in Callers : pc[c] = "stopping" /\ taken[c] = g
PromptInv ==
    prompt =>
        /\ \A c \in Callers : reply[c].note # "stop timed out"
        /\ WaitInv /\ SignalInv

\* One caller at most is inside stop.
LEMMA OneStop ==
  ASSUME IInv, NEW c \in Callers, NEW d \in Callers, pc[c] = "stopping", pc[d] = "stopping"
  PROVE  c = d
  BY DEF IInv, LockInv

\* Steps that leave the stops, the drains and the results of stops alone.
LEMMA PromptQuiet ==
  ASSUME PromptInv, UNCHANGED <<taken, waited, phase, grace, prompt>>,
         \A c \in Callers : pc'[c] = "stopping" <=> pc[c] = "stopping",
         \A c \in Callers : reply'[c] = reply[c] \/ reply'[c].note # "stop timed out"
  PROVE  PromptInv'
  BY DEF PromptInv, WaitInv, SignalInv, InTime

\* A step of a caller preserves the timing invariant.
LEMMA PromptCaller ==
  ASSUME StopTimeout > Grace, IInv, PromptInv, NEW c \in Callers, CallerStep(c)
  PROVE  PromptInv'
<1> USE DEF stateVars, callerVars, serverVars, machine
<1>t. TypeOK
  BY DEF IInv
<1>n. Grace \in Nat /\ StopTimeout \in Nat /\ waited \in Int /\ NoCaller \notin Callers
  BY <1>t, LifecycleAssumption DEF LifecycleAssumption, TypeOK
<1>1. ASSUME NEW op \in Ops, NEW a \in ListenArgs, Call(c, op, a) PROVE PromptInv'
  BY <1>1, <1>t, PromptQuiet DEF Call, Ops, TypeOK, NoReply, Reply
<1>2. CASE StartRefused(c) \/ StartBindFailed(c) \/ Status(c) \/ StopNotRunning(c)
  <2>1. PICK r, a, n : /\ Return(c, Reply(r, a, n)) /\ n # "stop timed out"
                       /\ pc[c] # "stopping"
                       /\ UNCHANGED <<taken, waited, phase, grace, prompt>>
    BY <1>2 DEF StartRefused, StartRefusal, StartBindFailed, Status, StopNotRunning, MayBind
  <2>2. /\ pc' = [pc EXCEPT ![c] = "idle"]
        /\ reply' = [reply EXCEPT ![c] = [running |-> r, addr |-> a, note |-> n]]
    BY <2>1 DEF Return, Reply
  <2> QED BY <1>t, <2>1, <2>2, PromptQuiet DEF TypeOK
<1>3. ASSUME NEW a \in Addrs, NEW g \in Gens, StartBound(c, a, g) PROVE PromptInv'
  <2>1. /\ pc[c] = "start" /\ lock = NoCaller /\ phase[g] = "unborn"
        /\ phase' = [phase EXCEPT ![g] = "serving"]
        /\ pc' = [pc EXCEPT ![c] = "idle"]
        /\ reply' = [reply EXCEPT ![c] = [running |-> TRUE, addr |-> a, note |-> "started"]]
        /\ UNCHANGED <<taken, waited, grace, prompt>>
    BY <1>3 DEF StartBound, MayBind, Return, Reply
  <2>2. \A d \in Callers : pc[d] # "stopping" /\ pc'[d] # "stopping"
    BY <1>n, <1>t, <2>1 DEF IInv, LockInv, TypeOK
  <2>3. prompt => \A h \in Gens : phase'[h] # "signalled"
    BY <1>t, <2>1, <2>2 DEF PromptInv, WaitInv, SignalInv, InTime, TypeOK
  <2>4. prompt => \A d \in Callers : reply'[d].note # "stop timed out"
    BY <1>t, <2>1 DEF PromptInv, WaitInv, SignalInv, InTime, TypeOK
  <2> QED BY <2>1, <2>2, <2>3, <2>4 DEF PromptInv, WaitInv, SignalInv, InTime
<1>4. CASE StopSignal(c)
  <2>1. /\ lock = NoCaller /\ shutdown \in Gens /\ waited' = 0
        /\ taken' = [taken EXCEPT ![c] = shutdown]
        /\ phase' = [phase EXCEPT ![shutdown] = "signalled"]
        /\ pc' = [pc EXCEPT ![c] = "stopping"]
        /\ UNCHANGED <<reply, grace, prompt>>
    BY <1>4, <1>t DEF StopSignal, TypeOK
  <2>2. \A d \in Callers : pc[d] # "stopping"
    BY <1>n, <2>1 DEF IInv, LockInv
  <2>3. prompt => \A h \in Gens : phase[h] # "signalled"
    BY <2>2 DEF PromptInv, WaitInv, SignalInv, InTime
  <2>4. \A d \in Callers : pc'[d] = "stopping" => d = c
    BY <1>t, <2>1, <2>2 DEF TypeOK
  <2>5. taken'[c] = shutdown /\ pc'[c] = "stopping" /\ phase'[shutdown] = "signalled"
    BY <1>t, <2>1 DEF TypeOK
  <2>6. prompt => \A h \in Gens : phase'[h] = "signalled" => h = shutdown
    BY <1>t, <2>1, <2>3 DEF TypeOK
  <2>7. WaitInv'
    <3>1. waited' = 0 /\ 0 <= Grace
      BY <1>n, <2>1
    <3>2. ASSUME NEW d \in Callers, pc'[d] = "stopping" PROVE phase'[taken'[d]] = "signalled"
      BY <2>4, <2>5, <3>2
    <3> QED BY <3>1, <3>2 DEF WaitInv, InTime
  <2>8. prompt => SignalInv'
    BY <2>5, <2>6 DEF SignalInv
  <2> QED BY <2>1, <2>7, <2>8 DEF PromptInv
<1>5. CASE StopReturn(c)
  <2>1. pc[c] = "stopping" /\ UNCHANGED <<phase, grace, prompt>>
    BY <1>5 DEF StopReturn, EndStop
  <2> SUFFICES ASSUME prompt PROVE PromptInv'
    BY <2>1 DEF PromptInv, WaitInv, SignalInv, InTime
  <2>2. phase[taken[c]] = "done" /\ EndStop(c, "stopped")
    <3>1. waited <= Grace
      BY <2>1 DEF PromptInv, WaitInv, InTime
    <3>2. waited # StopTimeout
      BY <1>n, <3>1
    <3> QED BY <1>5, <3>2 DEF StopReturn
  <2>3. /\ pc' = [pc EXCEPT ![c] = "idle"]
        /\ reply' = [reply EXCEPT ![c] = [running |-> FALSE, addr |-> previous[c], note |-> "stopped"]]
    BY <2>2 DEF EndStop, Return, Reply
  <2>4. \A d \in Callers : pc'[d] # "stopping"
    BY <1>t, <2>1, <2>3, OneStop DEF TypeOK
  <2>5. \A h \in Gens : phase'[h] # "signalled"
    BY <2>1, <2>2, OneStop DEF PromptInv, WaitInv, SignalInv, InTime
  <2>6. \A d \in Callers : reply'[d].note # "stop timed out"
    BY <1>t, <2>3 DEF PromptInv, WaitInv, SignalInv, InTime, TypeOK
  <2> QED BY <2>4, <2>5, <2>6 DEF PromptInv, WaitInv, SignalInv, InTime
<1> QED BY <1>1, <1>2, <1>3, <1>4, <1>5 DEF CallerStep

\* A step of a server task preserves it: the drain starts with the wait.
LEMMA PromptServer ==
  ASSUME IInv, PromptInv, NEW g \in Gens, ServerStep(g) PROVE PromptInv'
<1> USE DEF stateVars, callerVars, serverVars, machine
<1>t. TypeOK
  BY DEF IInv
<1>n. Grace \in Nat /\ waited \in Int /\ \A h \in Gens : grace[h] \in Int
  BY <1>t, LifecycleAssumption DEF LifecycleAssumption, TypeOK
<1>1. ASSUME NEW k \in Conns, Accept(g, k) PROVE PromptInv'
  BY <1>1, PromptQuiet DEF Accept
<1>2. ASSUME NEW to \in {"draining", "aborting", "done"},
             to = "draining" => phase[g] = "signalled",
             phase' = [phase EXCEPT ![g] = to], grace' = [grace EXCEPT ![g] = 0],
             UNCHANGED <<pc, reply, taken, waited, prompt>>
      PROVE  PromptInv'
  <2>1. \A h \in Gens : /\ h # g => phase'[h] = phase[h] /\ grace'[h] = grace[h]
                        /\ phase'[g] = to /\ grace'[g] = 0
    BY <1>2, <1>t DEF TypeOK
  <2>2. \A c \in Callers : pc[c] = "stopping" => taken[c] \in Gens
    BY DEF IInv, LockInv
  <2>3. ASSUME prompt, NEW c \in Callers, pc[c] = "stopping" PROVE InTime(c)'
    <3>1. InTime(c)
      BY <2>3 DEF PromptInv, WaitInv
    <3>2. CASE taken[c] = g
      BY <1>2, <1>n, <2>1, <2>2, <2>3, <3>1, <3>2 DEF InTime
    <3>3. CASE taken[c] # g
      BY <1>2, <2>1, <2>2, <2>3, <3>1, <3>3 DEF InTime
    <3> QED BY <3>2, <3>3
  <2>4. SignalInv => SignalInv'
    BY <1>2, <2>1 DEF SignalInv
  <2> QED BY <1>2, <2>3, <2>4 DEF PromptInv, WaitInv
<1>3. CASE BeginDrain(g)
  BY <1>2, <1>3 DEF BeginDrain
<1>4. CASE DrainTimeout(g) \/ Complete(g)
  BY <1>2, <1>4 DEF DrainTimeout, Complete
<1> QED BY <1>1, <1>3, <1>4 DEF ServerStep

\* When time passes on a responsive runtime, the generation a stop waits for is
\* draining, so its drain advances with the wait.
LEMMA PromptTick ==
  ASSUME IInv, PromptInv, Tick PROVE PromptInv'
<1> USE DEF stateVars, callerVars, serverVars, machine
<1>t. TypeOK
  BY DEF IInv
<1>n. /\ Grace \in Nat /\ waited \in Int /\ \A h \in Gens : grace[h] \in 0..Grace
  BY <1>t, LifecycleAssumption DEF LifecycleAssumption, TypeOK
<1>1. /\ waited' \in {waited, waited + 1}
      /\ grace' = [g \in Gens |-> IF Timing(g) THEN grace[g] + 1 ELSE grace[g]]
      /\ UNCHANGED <<pc, reply, taken, phase, prompt>>
  BY DEF Tick
<1> SUFFICES ASSUME prompt PROVE PromptInv'
  BY <1>1 DEF PromptInv, WaitInv, SignalInv, InTime
<1>2. ~Overdue
  BY DEF Tick
<1>3. ASSUME NEW c \in Callers, pc[c] = "stopping"
      PROVE  phase[taken[c]] = "draining" /\ grace[taken[c]] < Grace /\ taken[c] \in Gens
  <2>1. taken[c] \in Gens /\ phase[taken[c]] \notin {"unborn", "serving"}
    BY <1>3 DEF IInv, LockInv
  <2>2. phase[taken[c]] \notin {"signalled", "aborting", "done"}
    BY <1>2, <1>3, <2>1 DEF Overdue
  <2>3. phase[taken[c]] = "draining"
    BY <1>t, <2>1, <2>2 DEF TypeOK
  <2>4. grace[taken[c]] # Grace
    BY <1>2, <2>1, <2>3 DEF Overdue
  <2> QED BY <1>n, <2>1, <2>3, <2>4
<1>4. ASSUME NEW c \in Callers, pc[c] = "stopping"
      PROVE  waited' <= Grace /\ waited' <= grace'[taken[c]] /\ phase[taken[c]] # "signalled"
  <2>1. waited <= grace[taken[c]]
    BY <1>3, <1>4 DEF PromptInv, WaitInv, SignalInv, InTime
  <2>2. grace'[taken[c]] = grace[taken[c]] + 1
    BY <1>1, <1>3, <1>4 DEF Timing
  <2> QED BY <1>1, <1>3, <1>4, <1>n, <2>1, <2>2
<1>5. WaitInv'
  BY <1>1, <1>4 DEF WaitInv, InTime
<1>6. SignalInv'
  BY <1>1 DEF PromptInv, SignalInv
<1> QED BY <1>1, <1>5, <1>6 DEF PromptInv

\* The timing invariant holds when the stop timeout exceeds the grace period.
LEMMA PromptInvariance == ASSUME StopTimeout > Grace PROVE Spec => []PromptInv
<1>1. Init => PromptInv
  <2> SUFFICES ASSUME Init PROVE PromptInv
    OBVIOUS
  <2>1. \A c \in Callers : reply[c].note = "none"
    BY DEF Init, NoReply, Reply
  <2>2. WaitInv /\ SignalInv
    BY DEF Init, WaitInv, SignalInv
  <2> QED BY <2>1, <2>2 DEF PromptInv
<1>2. IInv /\ PromptInv /\ [Next]_vars => PromptInv'
  <2> SUFFICES ASSUME IInv, PromptInv, [Next]_vars PROVE PromptInv'
    OBVIOUS
  <2>1. ASSUME NEW c \in Callers, CallerStep(c) PROVE PromptInv'
    BY <2>1, PromptCaller
  <2>2. ASSUME NEW g \in Gens, ServerStep(g) PROVE PromptInv'
    BY <2>2, PromptServer
  <2>3. CASE Tick
    BY <2>3, PromptTick
  <2> USE DEF stateVars, callerVars, serverVars, machine
  <2>4. ASSUME NEW k \in Conns, ConnStep(k) PROVE PromptInv'
    BY <2>4, PromptQuiet DEF ConnStep, ConnClosed, ConnObeysShutdown, ConnAborted, ConnEnds
  <2>5. ASSUME NEW a \in Addrs, ExternalBind(a) \/ ExternalRelease(a) PROVE PromptInv'
    BY <2>5, PromptQuiet DEF ExternalBind, ExternalRelease
  <2>6. CASE UNCHANGED vars
    BY <2>6, PromptQuiet DEF vars
  <2> QED BY <2>1, <2>2, <2>3, <2>4, <2>5, <2>6 DEF Next, Step
<1> QED BY Invariance, <1>1, <1>2, PTL DEF Spec

\* With a stop timeout above the grace period, a responsive runtime never lets a
\* stop run out of time.
THEOREM NeverTimesOut == ASSUME StopTimeout > Grace PROVE Spec => []StopNeverTimesOut
<1>1. PromptInv => StopNeverTimesOut
  BY DEF PromptInv, WaitInv, SignalInv, InTime, StopNeverTimesOut
<1> QED BY PromptInvariance, <1>1, PTL

\* Generations are numbered from one.
LEMMA NotAGeneration == NoGen \notin Gens
  BY LifecycleAssumption DEF LifecycleAssumption

\* A caller that enters start has no result yet.
FreshReply == \A c \in Callers : pc[c] = "start" => reply[c].note = "none"

\* Only the caller itself gives its call a result.
LEMMA FreshStep ==
  ASSUME TypeOK, FreshReply, [Next]_vars
  PROVE  /\ FreshReply'
         /\ \A c \in Callers : pc[c] = "start" => reply'[c] = reply[c] \/ CallerStep(c)
<1> USE DEF stateVars, callerVars, serverVars, machine
<1>1. ASSUME NEW d \in Callers, CallerStep(d)
      PROVE  /\ \A c \in Callers \ {d} : pc'[c] = pc[c] /\ reply'[c] = reply[c]
             /\ pc'[d] = "start" => reply'[d].note = "none"
  <2>1. ASSUME NEW op \in Ops, NEW a \in ListenArgs, Call(d, op, a)
        PROVE  /\ pc' = [pc EXCEPT ![d] = op]
               /\ reply' = [reply EXCEPT ![d] = [running |-> FALSE, addr |-> NoAddr, note |-> "none"]]
    BY <2>1 DEF Call, NoReply, Reply
  <2>2. ASSUME NEW r, Return(d, r)
        PROVE  pc' = [pc EXCEPT ![d] = "idle"] /\ reply' = [reply EXCEPT ![d] = r]
    BY <2>2 DEF Return
  <2>3. CASE \E op \in Ops, a \in ListenArgs : Call(d, op, a)
    BY <2>1, <2>3 DEF TypeOK
  <2>4. CASE StopSignal(d)
    BY <2>4 DEF StopSignal, TypeOK
  <2>5. CASE \E r : Return(d, r)
    BY <2>2, <2>5 DEF TypeOK
  <2> QED BY <1>1, <2>3, <2>4, <2>5 DEF CallerStep, StartRefused, StartBindFailed, StartBound,
         Status, StopNotRunning, StopReturn, EndStop
<1>2. CASE UNCHANGED <<pc, reply>>
  BY <1>2 DEF FreshReply
<1>3. ASSUME NEW g \in Gens, ServerStep(g) PROVE UNCHANGED <<pc, reply>>
  BY <1>3 DEF ServerStep, Accept, BeginDrain, DrainTimeout, Complete
<1>4. ASSUME NEW k \in Conns, ConnStep(k) PROVE UNCHANGED <<pc, reply>>
  BY <1>4 DEF ConnStep, ConnClosed, ConnObeysShutdown, ConnAborted, ConnEnds
<1>5. ASSUME NEW a \in Addrs, ExternalBind(a) \/ ExternalRelease(a) PROVE UNCHANGED <<pc, reply>>
  BY <1>5 DEF ExternalBind, ExternalRelease
<1>6. CASE Tick \/ UNCHANGED vars
  BY <1>2, <1>6 DEF Tick, vars
<1>7. CASE \E d \in Callers : CallerStep(d)
  BY <1>1, <1>7 DEF FreshReply
<1> QED BY <1>2, <1>3, <1>4, <1>5, <1>6, <1>7 DEF Next, Step

\* Under the same condition a restart is refused only for an address another
\* process holds.
THEOREM Restartable == ASSUME StopTimeout > Grace PROVE Spec => ImmediateRestart
<1> DEFINE Refused(c) == (prompt /\ MayBind(c) /\ reply'[c].note = "bind failed")
                             => \A a \in Candidates(c) : socket[a] = External
<1>1. IInv /\ PromptInv /\ FreshReply /\ [Next]_vars => [\A c \in Callers : Refused(c)]_vars
  <2> SUFFICES ASSUME IInv, PromptInv, FreshReply, [Next]_vars, NEW c \in Callers, prompt,
                      MayBind(c), reply'[c].note = "bind failed", NEW a \in Candidates(c)
               PROVE  socket[a] = External
    OBVIOUS
  <2>t. TypeOK
    BY DEF IInv
  <2>1. \A d \in Callers : pc[d] # "stopping"
    BY LifecycleAssumption DEF MayBind, IInv, LockInv, LifecycleAssumption
  <2>2. shutdown = NoGen
    BY DEF MayBind, IInv, HandleInv
  <2>3. \A g \in Gens : phase[g] \notin {"serving", "signalled"}
    <3>1. \A g \in Gens : phase[g] # "signalled"
      BY <2>1 DEF PromptInv, SignalInv
    <3>2. NoGen \notin Gens
      BY NotAGeneration
    <3>3. \A g \in Gens : phase[g] = "serving" => g = NoGen
      BY <2>2 DEF IInv, NoOrphanServer
    <3>4. \A g \in Gens : phase[g] # "serving"
      BY <3>2, <3>3
    <3> QED BY <3>1, <3>4
  <2>4. a \in Addrs /\ socket[a] \notin Gens
    BY <2>3 DEF Candidates, IInv, OwnerInv
  <2>5. socket[a] # NoGen
    <3> USE DEF stateVars, callerVars, serverVars, machine
    <3>1. pc[c] = "start" /\ reply[c].note = "none"
      BY DEF MayBind, FreshReply
    <3>2. CallerStep(c)
      BY <2>t, <3>1, FreshStep
    <3>3. ASSUME NEW r, NEW b, NEW n, Return(c, Reply(r, b, n)) PROVE reply'[c].note = n
      BY <2>t, <3>3 DEF Return, Reply, TypeOK
    <3>4. \A b \in Addrs, g \in Gens : ~StartBound(c, b, g)
      BY <3>3 DEF StartBound
    <3>5. ~StartRefused(c)
      BY <3>1, <3>3 DEF StartRefused, StartRefusal, MayBind
    <3>6. StartBindFailed(c)
      BY <3>1, <3>2, <3>4, <3>5 DEF CallerStep, Call, Status, StopSignal, StopNotRunning, StopReturn
    <3> QED BY <3>6 DEF StartBindFailed
  <2> QED BY <2>t, <2>4, <2>5 DEF TypeOK
<1>2. Init => FreshReply
  BY DEF Init, FreshReply
<1>3. IInv /\ FreshReply /\ [Next]_vars => FreshReply'
  BY FreshStep DEF IInv
<1> QED BY Invariance, PromptInvariance, <1>1, <1>2, <1>3, PTL DEF Spec, ImmediateRestart

-----------------------------------------------------------------------------
(* The refinement of ProxyControl.                                           *)

\* A result recorded by a caller is what ProxyControl records as its answer.
LEMMA ShownReturn ==
  ASSUME TypeOK, NEW c \in Callers, NEW r, NEW a, NEW n, Return(c, Reply(r, a, n))
  PROVE  /\ Shown' = [Shown EXCEPT ![c] = [running |-> r, addr |-> a]]
         /\ pc' = [pc EXCEPT ![c] = "idle"]
<1>1. reply' = [reply EXCEPT ![c] = [running |-> r, addr |-> a, note |-> n]]
  BY DEF Return, Reply
<1>2. DOMAIN reply = Callers
  BY DEF TypeOK
<1>3. Shown' = [Shown EXCEPT ![c] = [running |-> r, addr |-> a]]
  BY <1>1, <1>2 DEF Shown
<1> QED BY <1>3 DEF Return

\* Steps that change nothing ProxyControl sees are stutters of it.
LEMMA Unseen ==
  ASSUME UNCHANGED <<shutdown, listenAddr, pc, reply>> PROVE UNCHANGED <<Up, pc, Shown>>
  BY DEF Up, Shown

\* The exported functions implement the atomic operations of ProxyControl.
THEOREM Implements == Spec => ControlSpec
<1>1. Init => Control!CtlInit
  BY DEF Init, Control!CtlInit, Control!Reply, NoReply, Reply, Up, Shown
<1>2. IInv /\ [Next]_vars => [Control!CtlNext]_<<Up, pc, Shown>>
  <2> SUFFICES ASSUME IInv, Next PROVE Control!CtlNext \/ UNCHANGED <<Up, pc, Shown>>
    <3>1. UNCHANGED vars => UNCHANGED <<Up, pc, Shown>>
      BY Unseen DEF vars, stateVars, callerVars
    <3> QED BY <3>1
  <2> USE DEF stateVars, callerVars, serverVars
  <2>t. TypeOK
    BY DEF IInv
  <2>1. ASSUME NEW c \in Callers, CallerStep(c) PROVE Control!CtlNext
    <3>1. ASSUME NEW op \in Ops, NEW a \in ListenArgs, Call(c, op, a) PROVE Control!CtlCall(c, op)
      <4>1. reply' = [reply EXCEPT ![c] = [running |-> FALSE, addr |-> NoAddr, note |-> "none"]]
        BY <3>1 DEF Call, NoReply, Reply
      <4>2. DOMAIN reply = Callers
        BY <2>t DEF TypeOK
      <4>3. Shown' = [Shown EXCEPT ![c] = [running |-> FALSE, addr |-> NoAddr]]
        BY <4>1, <4>2 DEF Shown
      <4>4. Up' = Up
        BY <3>1 DEF Call, Up
      <4> QED BY <3>1, <4>3, <4>4 DEF Call, Control!CtlCall, Control!Reply
    <3>2. ASSUME StartRefused(c) \/ StartBindFailed(c) PROVE Control!CtlStart(c)
      <4>1. /\ pc[c] = "start" /\ lock = NoCaller
            /\ UNCHANGED <<shutdown, listenAddr>>
        BY <3>2 DEF StartRefused, StartBindFailed, MayBind
      <4>2. Up' = Up
        BY <4>1 DEF Up
      <4>3. CASE running
        <5>1. Return(c, Reply(TRUE, listenAddr, "already running"))
          BY <3>2, <4>3 DEF StartRefused, StartRefusal, StartBindFailed, MayBind
        <5>2. Up = listenAddr /\ Up # NoAddr
          BY <4>1, <4>3, LifecycleAssumption DEF IInv, HandleInv, Up, LifecycleAssumption
        <5>3. /\ Shown' = [Shown EXCEPT ![c] = [running |-> TRUE, addr |-> listenAddr]]
              /\ pc' = [pc EXCEPT ![c] = "idle"]
          BY <2>t, <5>1, ShownReturn
        <5> QED BY <4>1, <4>2, <5>2, <5>3 DEF Control!CtlStart, Control!Answer, Control!Reply
      <4>4. CASE ~running
        <5>1. PICK n \in Notes : Return(c, Reply(FALSE, NoAddr, n))
          BY <3>2, <4>4 DEF StartRefused, StartRefusal, StartBindFailed, MayBind, Notes
        <5>2. Up = NoAddr
          BY <4>4 DEF IInv, HandleInv, Up
        <5>3. /\ Shown' = [Shown EXCEPT ![c] = [running |-> FALSE, addr |-> NoAddr]]
              /\ pc' = [pc EXCEPT ![c] = "idle"]
          BY <2>t, <5>1, ShownReturn
        <5> QED BY <4>1, <4>2, <5>2, <5>3 DEF Control!CtlStart, Control!Answer, Control!Reply
      <4> QED BY <4>3, <4>4
    <3>3. ASSUME NEW a \in Addrs, NEW g \in Gens, StartBound(c, a, g) PROVE Control!CtlStart(c)
      <4>1. /\ pc[c] = "start" /\ ~running /\ lock = NoCaller
            /\ Return(c, Reply(TRUE, a, "started"))
            /\ Up' = a
        <5>1. Up' = a
          BY <3>3 DEF StartBound, Up
        <5> QED BY <3>3, <5>1 DEF StartBound, MayBind
      <4>2. Up = NoAddr
        BY <4>1 DEF IInv, HandleInv, Up
      <4>3. /\ Shown' = [Shown EXCEPT ![c] = [running |-> TRUE, addr |-> a]]
            /\ pc' = [pc EXCEPT ![c] = "idle"]
        BY <2>t, <4>1, ShownReturn
      <4> QED BY <4>1, <4>2, <4>3 DEF Control!CtlStart, Control!Answer, Control!Reply
    <3>4. ASSUME Status(c) PROVE Control!CtlStatus(c)
      <4>1. /\ pc[c] = "status" /\ lock = NoCaller
            /\ Return(c, Reply(running, listenAddr, "status"))
            /\ UNCHANGED <<shutdown, listenAddr>>
        BY <3>4 DEF Status
      <4>2. running = (Up # NoAddr) /\ listenAddr = Up
        BY <4>1, LifecycleAssumption DEF IInv, TypeOK, HandleInv, Up, LifecycleAssumption
      <4>3. /\ Shown' = [Shown EXCEPT ![c] = [running |-> running, addr |-> listenAddr]]
            /\ pc' = [pc EXCEPT ![c] = "idle"]
        BY <2>t, <4>1, ShownReturn
      <4>4. Up' = Up
        BY <4>1 DEF Up
      <4>5. CASE running
        <5>1. Up # NoAddr /\ Control!Reply(Up # NoAddr, Up) = [running |-> running, addr |-> listenAddr]
          BY <4>2, <4>5 DEF Control!Reply
        <5> QED BY <4>1, <4>3, <4>4, <5>1 DEF Control!CtlStatus, Control!Answer
      <4>6. CASE ~running
        <5>1. Up = NoAddr /\ Control!Reply(Up # NoAddr, Up) = [running |-> running, addr |-> listenAddr]
          BY <2>t, <4>2, <4>6 DEF Control!Reply, TypeOK
        <5> QED BY <4>1, <4>3, <4>4, <5>1 DEF Control!CtlStatus, Control!Answer
      <4> QED BY <4>5, <4>6
    <3>5. ASSUME StopSignal(c) PROVE Control!CtlStopEffect(c)
      <4>1. /\ pc[c] = "stop" /\ pc' = [pc EXCEPT ![c] = "stopping"]
            /\ Up' = NoAddr /\ Shown' = Shown
        BY <3>5 DEF StopSignal, Up, Shown
      <4> QED BY <4>1 DEF Control!CtlStopEffect
    <3>6. ASSUME StopNotRunning(c) PROVE Control!CtlStopNoop(c)
      <4>1. /\ pc[c] = "stop" /\ shutdown = NoGen /\ shutdown' = NoGen
            /\ Return(c, Reply(FALSE, listenAddr, "not running"))
        BY <3>6 DEF StopNotRunning
      <4>2. listenAddr = NoAddr /\ Up = NoAddr /\ Up' = NoAddr
        BY <4>1 DEF IInv, HandleInv, Up
      <4>3. /\ Shown' = [Shown EXCEPT ![c] = [running |-> FALSE, addr |-> listenAddr]]
            /\ pc' = [pc EXCEPT ![c] = "idle"]
        BY <2>t, <4>1, ShownReturn
      <4> QED BY <4>1, <4>2, <4>3 DEF Control!CtlStopNoop, Control!Answer, Control!Reply
    <3>7. ASSUME StopReturn(c) PROVE Control!CtlStopReturn(c)
      <4>1. PICK n \in Notes :
              /\ pc[c] = "stopping" /\ Return(c, Reply(FALSE, previous[c], n))
              /\ UNCHANGED <<shutdown, listenAddr>>
        BY <3>7 DEF StopReturn, EndStop, Notes
      <4>2. previous[c] \in Addrs /\ Up' = Up
        BY <4>1 DEF IInv, LockInv, Up
      <4>3. /\ Shown' = [Shown EXCEPT ![c] = [running |-> FALSE, addr |-> previous[c]]]
            /\ pc' = [pc EXCEPT ![c] = "idle"]
        BY <2>t, <4>1, ShownReturn
      <4> QED BY <4>1, <4>2, <4>3 DEF Control!CtlStopReturn, Control!Answer, Control!Reply
    <3> QED BY <2>1, <3>1, <3>2, <3>3, <3>4, <3>5, <3>6, <3>7
         DEF CallerStep, Control!CtlNext, Control!Operations, Ops
  <2>2. ASSUME NEW g \in Gens, ServerStep(g) PROVE UNCHANGED <<Up, pc, Shown>>
    BY <2>2, Unseen DEF ServerStep, Accept, BeginDrain, DrainTimeout, Complete
  <2>3. ASSUME NEW k \in Conns, ConnStep(k) PROVE UNCHANGED <<Up, pc, Shown>>
    BY <2>3, Unseen DEF ConnStep, ConnClosed, ConnObeysShutdown, ConnAborted, ConnEnds
  <2>4. ASSUME NEW a \in Addrs, ExternalBind(a) \/ ExternalRelease(a)
        PROVE UNCHANGED <<Up, pc, Shown>>
    BY <2>4, Unseen DEF ExternalBind, ExternalRelease
  <2>5. CASE Tick
    BY <2>5, Unseen DEF Tick
  <2> QED BY <2>1, <2>2, <2>3, <2>4, <2>5 DEF Next, Step
<1> QED BY Invariance, <1>1, <1>2, PTL DEF Spec, ControlSpec, Control!CtlSpec, Control!cvars

-----------------------------------------------------------------------------
(* The end of a stop and of a stopped server.                                *)

(* The hypotheses: time goes past every bound for a wait or a drain that does *)
(* not run out, the thread inside stop is scheduled when its wait is over, a  *)
(* server task is polled when it has a step to take, and the tasks that were  *)
(* aborted are gone in the end.                                              *)
WaitTime(n) == []<>(waited > n \/ ~Waiting)
StopDue(c) == pc[c] = "stopping" /\ (phase[taken[c]] = "done" \/ waited = StopTimeout)
StopScheduled(c) == []<>~StopDue(c) \/ []<><<StopReturn(c)>>_vars

Drain(g) == BeginDrain(g) \/ DrainTimeout(g) \/ Complete(g)
GraceTime(g, n) == []<>(grace[g] > n \/ ~Timing(g))
DrainDue(g) ==
    \/ phase[g] = "signalled"
    \/ phase[g] = "draining" /\ (Live(g) = {} \/ grace[g] = Grace)
    \/ phase[g] = "aborting" /\ Live(g) = {}
ServerPolled(g) == []<>~DrainDue(g) \/ []<><<Drain(g)>>_vars
AbortsLand(g) == []<>(Live(g) = {} \/ ~(phase[g] = "aborting"))

(* A caller stays inside stop, with the handle it took and its clock running  *)
(* on, until it returns: nobody else's stop can reset that clock.             *)
LEMMA StopKept ==
    ASSUME IInv, [Next]_vars, NEW c \in Callers, pc[c] = "stopping", ~(pc'[c] # "stopping")
    PROVE  taken'[c] = taken[c] /\ waited' \in Nat /\ waited' >= waited
<1>1. TypeOK /\ TypeOK' /\ lock = c /\ lock # NoCaller
  BY TypeStep, LifecycleAssumption DEF IInv, LockInv, LifecycleAssumption
<1>2. waited \in Nat /\ waited' \in Nat
  BY <1>1, LifecycleAssumption DEF TypeOK, LifecycleAssumption
<1>3. UNCHANGED <<taken, waited>> => taken'[c] = taken[c] /\ waited' >= waited
  BY <1>2
<1> USE DEF stateVars, callerVars, serverVars, machine
<1>4. ASSUME NEW d \in Callers, CallerStep(d) PROVE taken'[c] = taken[c] /\ waited' >= waited
  <2>1. ~StopSignal(d)
    BY <1>1 DEF StopSignal
  <2>2. ASSUME StopReturn(d) PROVE FALSE
    <3>1. pc[d] = "stopping"
      BY <2>2 DEF StopReturn
    <3>2. d = c
      BY <3>1, OneStop
    <3>3. pc' = [pc EXCEPT ![d] = "idle"]
      BY <2>2 DEF StopReturn, EndStop, Return
    <3> QED BY <1>1, <3>2, <3>3 DEF TypeOK
  <2>3. UNCHANGED <<taken, waited>>
    BY <1>4, <2>1, <2>2
       DEF CallerStep, Call, StartRefused, StartBindFailed, StartBound, Status, StopNotRunning
  <2> QED BY <1>3, <2>3
<1>5. ASSUME NEW g \in Gens, ServerStep(g) PROVE UNCHANGED <<taken, waited>>
  BY <1>5 DEF ServerStep, Accept, BeginDrain, DrainTimeout, Complete
<1>6. ASSUME NEW k \in Conns, ConnStep(k) PROVE UNCHANGED <<taken, waited>>
  BY <1>6 DEF ConnStep, ConnClosed, ConnObeysShutdown, ConnAborted, ConnEnds
<1>7. ASSUME NEW a \in Addrs, ExternalBind(a) \/ ExternalRelease(a) PROVE UNCHANGED <<taken, waited>>
  BY <1>7 DEF ExternalBind, ExternalRelease
<1>8. CASE Tick
  BY <1>2, <1>8 DEF Tick
<1>9. CASE UNCHANGED vars
  BY <1>2, <1>3, <1>9 DEF vars
<1> QED BY <1>2, <1>3, <1>4, <1>5, <1>6, <1>7, <1>8, <1>9 DEF Next, Step

(* A server task without connections gets none unless one is accepted.       *)
LEMMA LiveKept ==
    ASSUME NEW g, \A k \in Conns : conn'[k] = g => conn[k] = g, Live(g) = {}
    PROVE  Live(g)' = {}
BY DEF Live

(* A task that has been told to stop only goes on: no step of another task,   *)
(* thread or process takes it back or gives it a connection it must wait for. *)
LEMMA DrainKept ==
    ASSUME IInv, [Next]_vars, NEW g \in Gens
    PROVE  /\ phase[g] = "signalled" => phase'[g] \in {"signalled", "draining"}
           /\ phase[g] = "draining" =>
                \/ phase'[g] \in {"aborting", "done"}
                \/ /\ phase'[g] = "draining"
                   /\ Live(g) = {} => Live(g)' = {}
                   /\ grace[g] = Grace => grace'[g] = Grace
           /\ phase[g] = "aborting" =>
                \/ phase'[g] = "done"
                \/ phase'[g] = "aborting" /\ (Live(g) = {} => Live(g)' = {})
           /\ phase[g] = "done" => phase'[g] = "done"
<1> DEFINE Same == phase'[g] = phase[g] /\ grace'[g] = grace[g] /\ Live(g)' = Live(g)
<1>1. TypeOK
  BY DEF IInv
<1>2. UNCHANGED <<phase, grace, conn>> => Same
  BY DEF Live
<1> USE DEF stateVars, callerVars, serverVars, machine
<1>3. ASSUME NEW c \in Callers, CallerStep(c)
      PROVE  Same \/ (phase[g] \in {"unborn", "serving"})
  <2>1. CASE StopSignal(c)
    <3>1. shutdown \in Gens /\ phase[shutdown] = "serving"
      BY <1>1, <2>1 DEF StopSignal, IInv, HandleInv, TypeOK
    <3> QED BY <1>1, <2>1, <3>1 DEF StopSignal, TypeOK, Live
  <2>2. CASE StopReturn(c)
    BY <1>2, <2>2 DEF StopReturn, EndStop
  <2>3. ASSUME NEW a \in Addrs, NEW h \in Gens, StartBound(c, a, h)
        PROVE  Same \/ phase[g] = "unborn"
    BY <1>1, <2>3 DEF StartBound, TypeOK, Live
  <2> QED
    BY <1>2, <1>3, <2>1, <2>2, <2>3
       DEF CallerStep, Call, StartRefused, StartBindFailed, Status, StopNotRunning
<1>4. ASSUME NEW h \in Gens, ServerStep(h), h # g
      PROVE  /\ phase'[g] = phase[g] /\ grace'[g] = grace[g]
             /\ Live(g) = {} => Live(g)' = {}
  <2>1. phase'[g] = phase[g] /\ grace'[g] = grace[g]
    BY <1>1, <1>4 DEF ServerStep, Accept, BeginDrain, DrainTimeout, Complete, TypeOK
  <2>2. \A k \in Conns : conn'[k] = g => conn[k] = g
    BY <1>1, <1>4 DEF ServerStep, Accept, BeginDrain, DrainTimeout, Complete, TypeOK
  <2> QED BY <2>1, <2>2, LiveKept
<1>5. ASSUME ServerStep(g)
      PROVE  \/ phase[g] \in {"serving", "signalled"} /\ phase'[g] = phase[g]
             \/ phase[g] = "signalled" /\ phase'[g] = "draining"
             \/ phase[g] = "draining" /\ phase'[g] \in {"aborting", "done"}
             \/ phase[g] = "aborting" /\ phase'[g] = "done"
  BY <1>1, <1>5 DEF ServerStep, Accept, BeginDrain, DrainTimeout, Complete, TypeOK
<1>6. ASSUME NEW k \in Conns, ConnStep(k)
      PROVE  phase'[g] = phase[g] /\ grace'[g] = grace[g] /\ (Live(g) = {} => Live(g)' = {})
  <2>1. phase' = phase /\ grace' = grace /\ conn' = [conn EXCEPT ![k] = NoGen]
    BY <1>6 DEF ConnStep, ConnClosed, ConnObeysShutdown, ConnAborted, ConnEnds
  <2>2. \A j \in Conns : conn'[j] = g => conn[j] = g
    BY <1>1, <2>1 DEF TypeOK
  <2> QED BY <2>1, <2>2, LiveKept
<1>7. ASSUME NEW a \in Addrs, ExternalBind(a) \/ ExternalRelease(a) PROVE Same
  BY <1>2, <1>7 DEF ExternalBind, ExternalRelease
<1>8. CASE Tick
  <2>1. grace[g] = Grace => ~Timing(g)
    BY LifecycleAssumption DEF Timing, LifecycleAssumption
  <2> QED BY <1>8, <2>1 DEF Tick, Live
<1>9. CASE UNCHANGED vars
  BY <1>2, <1>9 DEF vars
<1> QED
  BY <1>3, <1>4, <1>5, <1>6, <1>7, <1>8, <1>9 DEF Next, Step

(* Each stop ends, whatever becomes of the server it stops.                  *)
CallEnds(c) == pc[c] = "stopping" ~> pc[c] # "stopping"
LEMMA StopEnds ==
    ASSUME NEW c \in Callers
    PROVE  Spec /\ WaitTime(StopTimeout) /\ StopScheduled(c) => CallEnds(c)
<1>1. IInv /\ [Next]_vars /\ pc[c] = "stopping" /\ StopDue(c)
        => StopDue(c)' \/ (pc[c] # "stopping")'
  <2> SUFFICES ASSUME IInv, [Next]_vars, pc[c] = "stopping", StopDue(c), ~(pc'[c] # "stopping")
               PROVE  StopDue(c)'
    OBVIOUS
  <2>1. taken'[c] = taken[c] /\ waited' \in Nat /\ waited' >= waited /\ taken[c] \in Gens
    BY StopKept DEF IInv, LockInv
  <2>2. waited' <= StopTimeout /\ StopTimeout \in Nat
    BY TypeStep, LifecycleAssumption DEF TypeOK, LifecycleAssumption, IInv
  <2> QED BY <2>1, <2>2, DrainKept DEF StopDue
<1>2. IInv /\ pc[c] = "stopping" /\ <<StopReturn(c)>>_vars => (pc[c] # "stopping")'
  BY DEF StopReturn, EndStop, Return, IInv, TypeOK
<1>3. IInv => ~(waited > StopTimeout)
  BY LifecycleAssumption DEF IInv, TypeOK, LifecycleAssumption
<1>4. IInv /\ pc[c] = "stopping" /\ ~Waiting => StopDue(c)
  BY LifecycleAssumption DEF IInv, LockInv, TypeOK, Waiting, StopDue, LifecycleAssumption
<1>5. StopDue(c) => pc[c] = "stopping"
  BY DEF StopDue
<1>6. pc[c] # "stopping" <=> ~(pc[c] = "stopping")
  OBVIOUS
<1> HIDE DEF StopDue, Waiting
<1> QED
  BY <1>1, <1>2, <1>3, <1>4, <1>5, <1>6, Invariance, PTL DEF Spec, WaitTime, StopScheduled, CallEnds

(* The mutex held across a stop is always let go of, for any number of        *)
(* callers and any timeout and however the server task behaves: neither a     *)
(* stuck runtime nor a connection that ignores the shutdown can keep it       *)
(* (server/mod.rs:77-107).                                                    *)
THEOREM StopsEnd ==
    Spec /\ (\A n \in Nat : WaitTime(n)) /\ (\A c \in Callers : StopScheduled(c))
      => StopTerminates
<1>1. StopTimeout \in Nat
  BY LifecycleAssumption DEF LifecycleAssumption
<1>2. (\A n \in Nat : WaitTime(n)) => WaitTime(StopTimeout)
  BY <1>1
<1>3. ASSUME NEW c \in Callers
      PROVE  Spec /\ WaitTime(StopTimeout) /\ StopScheduled(c) => CallEnds(c)
  BY StopEnds
<1>4. Spec /\ (\A n \in Nat : WaitTime(n)) /\ (\A c \in Callers : StopScheduled(c))
        => \A c \in Callers : CallEnds(c)
  BY <1>2, <1>3
<1> QED BY <1>4 DEF StopTerminates, CallEnds

(* A generation told to stop gets through its drain.                         *)
ServerEnds(g) == phase[g] = "signalled" ~> phase[g] = "done"
LEMMA DrainEnds ==
    ASSUME NEW g \in Gens
    PROVE  Spec /\ GraceTime(g, Grace) /\ ServerPolled(g) /\ AbortsLand(g) => ServerEnds(g)
<1> DEFINE Signalled == phase[g] = "signalled"
           Draining == phase[g] = "draining"
           Aborting == phase[g] = "aborting"
           Done == phase[g] = "done"
<1>1. IInv /\ [Next]_vars /\ Signalled => Signalled' \/ Draining'
  BY DrainKept
<1>2. IInv /\ [Next]_vars /\ Draining => Draining' \/ Aborting' \/ Done'
  BY DrainKept
<1>3. IInv /\ [Next]_vars /\ Draining /\ DrainDue(g)
        => (Draining /\ DrainDue(g))' \/ Aborting' \/ Done'
  BY DrainKept, LifecycleAssumption DEF DrainDue, LifecycleAssumption
<1>4. IInv /\ [Next]_vars /\ Aborting => Aborting' \/ Done'
  BY DrainKept
<1>5. IInv /\ [Next]_vars /\ Aborting /\ DrainDue(g) => (Aborting /\ DrainDue(g))' \/ Done'
  BY DrainKept DEF DrainDue
<1>6. IInv /\ <<Drain(g)>>_vars
        => /\ Signalled => Draining'
           /\ Draining => Aborting' \/ Done'
           /\ Aborting => Done'
  BY DEF Drain, BeginDrain, DrainTimeout, Complete, IInv, TypeOK
<1>7. IInv => ~(grace[g] > Grace)
  BY LifecycleAssumption DEF IInv, TypeOK, LifecycleAssumption
<1>8. IInv /\ Draining /\ ~Timing(g) => DrainDue(g)
  BY LifecycleAssumption DEF IInv, TypeOK, Timing, DrainDue, LifecycleAssumption
<1>9. Signalled => DrainDue(g)
  BY DEF DrainDue
<1>10. Aborting /\ (Live(g) = {} \/ ~Aborting) => DrainDue(g)
  BY DEF DrainDue
<1>11. AbortsLand(g) => []<>(Live(g) = {} \/ ~Aborting)
  BY PTL DEF AbortsLand
<1>12. ServerEnds(g) <=> (Signalled ~> Done)
  BY PTL DEF ServerEnds
<1> HIDE DEF Signalled, Draining, Aborting, Done
<1> QED
  BY <1>1, <1>2, <1>3, <1>4, <1>5, <1>6, <1>7, <1>8, <1>9, <1>10, <1>11, <1>12, Invariance, PTL
     DEF Spec, GraceTime, ServerPolled

(* Every generation told to stop ends, whatever its connections do and for    *)
(* any number of them: those that outlast the grace period are aborted        *)
(* (server/mod.rs:199-257). What the runtime owes is stated by the hypotheses, *)
(* which take the place of the property's own RuntimeFairness.                *)
THEOREM ServersEnd ==
    Spec /\ (\A g \in Gens : /\ \A n \in Nat : GraceTime(g, n)
                             /\ ServerPolled(g) /\ AbortsLand(g))
      => SignalledServerEnds
<1>1. Grace \in Nat
  BY LifecycleAssumption DEF LifecycleAssumption
<1>2. ASSUME NEW g \in Gens
      PROVE  Spec /\ GraceTime(g, Grace) /\ ServerPolled(g) /\ AbortsLand(g) => ServerEnds(g)
  BY DrainEnds
<1>3. ASSUME NEW g \in Gens
      PROVE  (\A n \in Nat : GraceTime(g, n)) => GraceTime(g, Grace)
  BY <1>1
<1>4. Spec /\ (\A g \in Gens : (\A n \in Nat : GraceTime(g, n)) /\ ServerPolled(g) /\ AbortsLand(g))
        => \A g \in Gens : ServerEnds(g)
  BY <1>2, <1>3
<1> QED BY <1>4 DEF SignalledServerEnds, ServerEnds
=============================================================================
