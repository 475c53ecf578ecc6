------------------------ MODULE BurpExtension_proofs ------------------------
(* Proofs about the Burp side of the lifecycle, for any number of workers,   *)
(* addresses, fallbacks and user actions: typing, the stored address, the    *)
(* unload, the use of ProxyControl, and the end of the workers.              *)
EXTENDS BurpExtension, TLAPS

(* Every thread is somewhere.                                                *)
Typed ==
    /\ up \in Addrs \cup {NoAddr}
    /\ call \in [Callers -> Operations \cup {"idle", "stopping"}]
    /\ reply \in [Callers -> Replies]
    /\ task \in [Callers -> Tasks]
    /\ at \in [Callers -> {"ready", "called"}]

(* A thread is inside the native start only for a job that starts.           *)
StartsHaveJobs ==
    \A t \in Callers : call[t] = "start" => task[t] \in {"auto", "start"} /\ at[t] = "called"

(* What the unload handler found stays so: no job that starts is left.       *)
Calm == unload # "loaded" /\ calm
NoneStarts == Calm => \A t \in Callers : ~StartUnderWay(t)

(* The handler's stop is ahead as long as something is served.               *)
StopAhead ==
    /\ unload = "unloading" => task[Unloader] = "unload" /\ at[Unloader] = "called"
    /\ Calm /\ up # NoAddr => unload = "unloading" /\ call[Unloader] = "stop"

UnloadInv == Typed /\ StartsHaveJobs /\ NoneStarts /\ StopAhead

(* What the assumption says about the threads.                               *)
LEMMA Threads ==
    /\ AutoThread \in Callers /\ Unloader \in Callers /\ AutoThread # Unloader
    /\ \A w \in Workers : w \in Callers /\ w # Unloader /\ w # AutoThread
BY ExtensionAssumption

(* The initial states satisfy the invariant.                                 *)
LEMMA UnloadInit == Init => UnloadInv
<1> SUFFICES ASSUME Init PROVE UnloadInv
  OBVIOUS
<1>1. Typed
  BY DEF Init, CtlInit, Typed, Reply, Replies, Operations, Tasks
<1>2. StartsHaveJobs
  BY DEF Init, CtlInit, StartsHaveJobs
<1>3. NoneStarts /\ StopAhead
  BY DEF Init, NoneStarts, StopAhead, Calm
<1> QED BY <1>1, <1>2, <1>3 DEF UnloadInv

(* A native call or the effect of one.                                       *)
LEMMA EffectTyped ==
    ASSUME Typed, NEW t \in Callers, TakesEffect(t)
    PROVE  Typed'
<1>1. UNCHANGED <<task, at>>
  BY DEF TakesEffect, threads
<1>2. up' \in Addrs \cup {NoAddr} /\ call' \in [Callers -> Operations \cup {"idle", "stopping"}]
        /\ reply' \in [Callers -> Replies]
  <2> USE DEF Typed, Operations, Replies, Reply, Answer
  <2>1. CASE StartTakesEffect(t)
    <3>1. CASE up # NoAddr /\ up' = up /\ Answer(t, Reply(TRUE, up))
      BY <3>1
    <3>2. CASE up' = up /\ Answer(t, Reply(FALSE, NoAddr))
      BY <3>2
    <3>3. ASSUME NEW a \in Addrs, up' = a, Answer(t, Reply(TRUE, a))
          PROVE  /\ up' \in Addrs \cup {NoAddr}
                 /\ call' \in [Callers -> Operations \cup {"idle", "stopping"}]
                 /\ reply' \in [Callers -> Replies]
      BY <3>3
    <3> QED BY <2>1, <3>1, <3>2, <3>3 DEF StartTakesEffect, CtlStart
  <2>2. CASE CtlStatus(t)
    BY <2>2 DEF CtlStatus
  <2>3. CASE CtlStopEffect(t)
    BY <2>3 DEF CtlStopEffect
  <2>4. CASE CtlStopNoop(t)
    BY <2>4 DEF CtlStopNoop
  <2>5. CASE CtlStopReturn(t)
    BY <2>5 DEF CtlStopReturn
  <2> QED BY <2>1, <2>2, <2>3, <2>4, <2>5 DEF TakesEffect
<1> QED BY <1>1, <1>2 DEF Typed

LEMMA EffectKeeps ==
    ASSUME UnloadInv, NEW t \in Callers, TakesEffect(t)
    PROVE  UnloadInv'
<1>1. Typed'
  BY EffectTyped DEF UnloadInv
<1>2. /\ UNCHANGED <<task, at, unload, calm>>
      /\ call[t] # "idle" /\ call'[t] # "start"
      /\ \A s \in Callers \ {t} : call'[s] = call[s] /\ reply'[s] = reply[s]
  BY DEF TakesEffect, StartTakesEffect, CtlStart, CtlStatus, CtlStopEffect, CtlStopNoop,
     CtlStopReturn, Answer, threads, ending, UnloadInv, Typed
<1>3. StartsHaveJobs'
  BY <1>2 DEF UnloadInv, StartsHaveJobs
<1>4. ASSUME Calm PROVE call[t] # "start" /\ task[t] \notin {"auto", "start"}
  BY <1>2, <1>4 DEF UnloadInv, NoneStarts, StartUnderWay, Returned, StartsHaveJobs
<1>5. NoneStarts'
  BY <1>2, <1>4 DEF UnloadInv, NoneStarts, StartUnderWay, Returned, Calm
<1>6. StopAhead'
  <2>1. Calm /\ up' # NoAddr => up' = up /\ (call[t] = "stop" => call'[t] = "stop" \/ up = NoAddr)
    BY <1>4 DEF TakesEffect, StartTakesEffect, CtlStart, CtlStatus, CtlStopEffect, CtlStopNoop,
       CtlStopReturn, Answer
  <2> QED BY <1>2, <2>1, Threads DEF UnloadInv, StopAhead, Calm
<1> QED BY <1>1, <1>3, <1>5, <1>6 DEF UnloadInv

(* A thread other than the unload handler's enters a native call.            *)
LEMMA CallKeeps ==
    ASSUME UnloadInv, NEW t \in Callers, NEW op \in Operations, NativeCall(t, op),
           t # Unloader, UNCHANGED <<task, unload, calm>>,
           op = "start" <=> task[t] \in {"auto", "start"}
    PROVE  UnloadInv'
<1>1. /\ call' = [call EXCEPT ![t] = op] /\ at' = [at EXCEPT ![t] = "called"]
      /\ reply' = [reply EXCEPT ![t] = Reply(FALSE, NoAddr)] /\ up' = up
      /\ at[t] = "ready" /\ call[t] = "idle"
  BY DEF NativeCall, CtlCall
<1>2. Typed'
  BY <1>1 DEF UnloadInv, Typed, Reply, Replies
<1>3. StartsHaveJobs'
  BY <1>1 DEF UnloadInv, Typed, StartsHaveJobs
<1>4. Calm => task[t] \notin {"auto", "start"}
  BY <1>1 DEF UnloadInv, NoneStarts, StartUnderWay, Returned
<1>5. NoneStarts'
  BY <1>1, <1>4 DEF UnloadInv, Typed, NoneStarts, StartUnderWay, Returned, Calm
<1>6. StopAhead'
  BY <1>1, Threads DEF UnloadInv, Typed, StopAhead, Calm
<1> QED BY <1>2, <1>3, <1>5, <1>6 DEF UnloadInv

(* A thread that is not inside a native call changes its job: it ends, or a  *)
(* worker takes a job that does not start - unless nothing is unloading.     *)
LEMMA JobKeeps ==
    ASSUME UnloadInv, NEW t \in Callers, NEW job \in Tasks, t # Unloader,
           call[t] # "start", UNCHANGED <<cvars, unload, calm>>,
           task' = [task EXCEPT ![t] = job],
           at' \in [Callers -> {"ready", "called"}],
           \A s \in Callers \ {t} : at'[s] = at[s],
           Calm => job \notin {"auto", "start"}
    PROVE  UnloadInv'
<1> USE DEF cvars
<1>1. Typed'
  BY DEF UnloadInv, Typed
<1>2. StartsHaveJobs'
  BY DEF UnloadInv, Typed, StartsHaveJobs
<1>3. NoneStarts'
  BY DEF UnloadInv, Typed, NoneStarts, StartUnderWay, Returned, Calm
<1>4. StopAhead'
  BY Threads DEF UnloadInv, Typed, StopAhead, Calm
<1> QED BY <1>1, <1>2, <1>3, <1>4 DEF UnloadInv

(* Steps that leave the threads and the server alone.                        *)
LEMMA UiKeeps ==
    ASSUME UnloadInv, UNCHANGED <<cvars, task, at, unload, calm>>
    PROVE  UnloadInv'
BY DEF UnloadInv, Typed, StartsHaveJobs, NoneStarts, StopAhead, StartUnderWay, Returned,
   Calm, cvars

(* The invariant is inductive.                                               *)
LEMMA UnloadStep == UnloadInv /\ [Next]_vars => UnloadInv'
<1> SUFFICES ASSUME UnloadInv, [Next]_vars PROVE UnloadInv'
  OBVIOUS
<1>0. task \in [Callers -> Tasks] /\ at \in [Callers -> {"ready", "called"}]
        /\ {"none", "refresh", "start", "stop"} \subseteq Tasks
  BY DEF UnloadInv, Typed, Tasks
<1> USE Threads DEF threads, ui, ending
<1>1. ASSUME NEW t \in Callers, TakesEffect(t) PROVE UnloadInv'
  BY <1>1, EffectKeeps
<1>2. CASE AutoCall
  BY <1>2, CallKeeps DEF AutoCall, Operations
<1>3. CASE AutoStarted
  BY <1>0, <1>3, JobKeeps DEF AutoStarted, Finish, Returned
<1>4. CASE AutoFailed
  <2>1. StartUnderWay(AutoThread)
    BY <1>4 DEF AutoFailed, StartUnderWay
  <2>2. ~Calm /\ call[AutoThread] = "idle" /\ UNCHANGED <<cvars, unload, calm>>
    BY <1>4, <2>1 DEF AutoFailed, Returned, UnloadInv, NoneStarts
  <2>3. task[AutoThread] = "auto" /\ "auto" \in Tasks
    BY <1>4 DEF AutoFailed, Tasks
  <2>4. PICK job \in Tasks : task' = [task EXCEPT ![AutoThread] = job]
    BY <1>0, <1>4, <2>3 DEF AutoFailed, Finish
  <2>5. at' \in [Callers -> {"ready", "called"}] /\ \A s \in Callers \ {AutoThread} : at'[s] = at[s]
    BY <1>0, <1>4 DEF AutoFailed, Finish
  <2> QED BY <2>2, <2>4, <2>5, JobKeeps
<1>5. ASSUME NEW w \in Workers, WorkerStep(w) PROVE UnloadInv'
  <2>1. CASE WorkerCall(w)
    <3>1. PICK op \in Operations : NativeCall(w, op)
                                 /\ (op = "start" <=> task[w] \in {"auto", "start"})
      BY <2>1 DEF WorkerCall, Operations
    <3> QED BY <2>1, <3>1, CallKeeps DEF WorkerCall
  <2>2. CASE StartDone(w) \/ StopDone(w) \/ RefreshDone(w)
    BY <1>0, <2>2, JobKeeps DEF StartDone, StopDone, RefreshDone, Finish, Returned
  <2> QED BY <1>5, <2>1, <2>2 DEF WorkerStep
<1>6. ASSUME NEW w \in Workers, NEW job \in {"refresh", "start", "stop"}, Spawn(w, job),
             UNCHANGED <<cvars, unload, calm>>, job = "refresh" \/ unload = "loaded"
      PROVE  UnloadInv'
  <2>1. call[w] # "start"
    BY <1>6 DEF Spawn, UnloadInv, StartsHaveJobs
  <2> QED BY <1>0, <1>6, <2>1, JobKeeps DEF Spawn, Calm
<1>7. CASE EventStep
  <2>1. CASE ApplyProxyStatus
    BY <2>1, UiKeeps DEF ApplyProxyStatus
  <2>2. ASSUME NEW w \in Workers, RefreshStatus(w) PROVE UnloadInv'
    BY <1>6, <2>2 DEF RefreshStatus
  <2> QED BY <1>7, <2>1, <2>2 DEF EventStep
<1>8. CASE Tick
  BY <1>8, UiKeeps DEF Tick
<1>9. CASE User
  <2>1. ASSUME NEW w \in Workers, NEW r \in Requests, OnStartServer(w, r) PROVE UnloadInv'
    BY <1>6, <2>1 DEF OnStartServer, UserActs
  <2>2. ASSUME NEW w \in Workers, OnStopServer(w) PROVE UnloadInv'
    BY <1>6, <2>2 DEF OnStopServer, UserActs
  <2>3. ASSUME NEW r \in Requests, SaveAddress(r) PROVE UnloadInv'
    BY <2>3, UiKeeps DEF SaveAddress
  <2> QED BY <1>9, <2>1, <2>2, <2>3 DEF User
<1>10. CASE BeginUnload
  <2>1. /\ call' = [call EXCEPT ![Unloader] = "stop"] /\ at' = [at EXCEPT ![Unloader] = "called"]
        /\ reply' = [reply EXCEPT ![Unloader] = Reply(FALSE, NoAddr)] /\ up' = up
        /\ task' = [task EXCEPT ![Unloader] = "unload"]
        /\ unload' = "unloading" /\ calm' = \A t \in Callers : ~StartUnderWay(t)
    BY <1>10 DEF BeginUnload, NativeCall, CtlCall
  <2>2. Typed'
    BY <2>1 DEF UnloadInv, Typed, Reply, Replies, Operations, Tasks
  <2>3. StartsHaveJobs'
    BY <2>1 DEF UnloadInv, Typed, StartsHaveJobs
  <2>4. NoneStarts'
    BY <2>1 DEF UnloadInv, Typed, NoneStarts, StartUnderWay, Returned, Calm
  <2>5. StopAhead'
    BY <2>1 DEF UnloadInv, Typed, StopAhead, Calm
  <2> QED BY <2>2, <2>3, <2>4, <2>5 DEF UnloadInv
<1>11. CASE EndUnload
  <2>1. /\ task' = [task EXCEPT ![Unloader] = "none"] /\ call[Unloader] = "idle"
        /\ UNCHANGED <<cvars, at, calm>> /\ unload = "unloading" /\ unload' = "unloaded"
    BY <1>11 DEF EndUnload, Returned
  <2>2. Typed'
    BY <2>1 DEF UnloadInv, Typed, Tasks, cvars
  <2>3. StartsHaveJobs'
    BY <2>1 DEF UnloadInv, Typed, StartsHaveJobs, cvars
  <2>4. NoneStarts'
    BY <2>1 DEF UnloadInv, Typed, NoneStarts, StartUnderWay, Returned, Calm, cvars
  <2>5. StopAhead'
    BY <2>1 DEF UnloadInv, StopAhead, Calm, cvars
  <2> QED BY <2>2, <2>3, <2>4, <2>5 DEF UnloadInv
<1>12. CASE UNCHANGED vars
  BY <1>12, UiKeeps DEF vars
<1> QED BY <1>1, <1>2, <1>3, <1>4, <1>5, <1>7, <1>8, <1>9, <1>10, <1>11, <1>12 DEF Next, AutoStep

(* For any number of workers, addresses and fallbacks: when no start was     *)
(* under way as the unload handler began, no server is left once it has      *)
(* returned, and none comes back (TlsPlusExtension.kt:78).                   *)
THEOREM UnloadStops == Spec => []UnloadStopsServer
<1>1. UnloadInv => UnloadStopsServer
  BY DEF UnloadInv, StopAhead, Calm, UnloadStopsServer
<1> QED BY <1>1, UnloadInit, UnloadStep, PTL DEF Spec

-----------------------------------------------------------------------------
(* A reply that says "running" names an address.                             *)
RepliesName == \A t \in Callers : reply[t].running => reply[t].addr \in Addrs

TypeInv == TypeOK /\ RepliesName

LEMMA TypeInit == Init => TypeInv
<1> SUFFICES ASSUME Init PROVE TypeInv
  OBVIOUS
<1>1. /\ UnloadInv
      /\ want \in [Callers -> Requests] /\ settings \in Requests
      /\ plain \in BOOLEAN /\ calm \in BOOLEAN
      /\ unload \in {"loaded", "unloading", "unloaded"}
      /\ buttons \subseteq {"start", "stop"}
  BY UnloadInit, ExtensionAssumption DEF Init, Requests
<1>2. try \in 0..Len(Fallbacks) /\ clicks \in 0..MaxClicks /\ edt \in Seq(Events)
  BY ExtensionAssumption DEF Init
<1>3. RepliesName
  BY DEF Init, CtlInit, Reply, RepliesName
<1> QED BY <1>1, <1>2, <1>3 DEF TypeInv, TypeOK, UnloadInv, Typed

(* A native call, its effect, and what the server does keep the replies true.*)
LEMMA RepliesKept ==
    ASSUME TypeInv, NEW t \in Callers,
           TakesEffect(t) \/ \E op \in Operations : NativeCall(t, op)
    PROVE  RepliesName'
<1>1. \A s \in Callers \ {t} : reply'[s] = reply[s]
  BY DEF TypeInv, TypeOK, TakesEffect, NativeCall, CtlCall, StartTakesEffect, CtlStart, CtlStatus,
     CtlStopEffect, CtlStopNoop, CtlStopReturn, Answer
<1>2. reply'[t].running => reply'[t].addr \in Addrs
  <2> USE DEF TypeInv, TypeOK, RepliesName, Reply, Answer
  <2>1. CASE \E op \in Operations : NativeCall(t, op)
    BY <2>1 DEF NativeCall, CtlCall
  <2>2. CASE StartTakesEffect(t)
    BY <2>2 DEF StartTakesEffect, CtlStart
  <2>3. CASE CtlStatus(t)
    BY <2>3 DEF CtlStatus
  <2>4. CASE CtlStopEffect(t) \/ CtlStopNoop(t) \/ CtlStopReturn(t)
    BY <2>4 DEF CtlStopEffect, CtlStopNoop, CtlStopReturn
  <2> QED BY <2>1, <2>2, <2>3, <2>4 DEF TakesEffect
<1> QED BY <1>1, <1>2 DEF TypeInv, RepliesName

LEMMA TypeStep == TypeInv /\ UnloadInv' /\ [Next]_vars => TypeInv'
<1> SUFFICES ASSUME TypeInv, UnloadInv', [Next]_vars PROVE TypeInv'
  OBVIOUS
<1> DEFINE Rest == /\ want \in [Callers -> Requests]
                   /\ try \in 0..Len(Fallbacks)
                   /\ edt \in Seq(Events)
                   /\ buttons \subseteq {"start", "stop"}
                   /\ settings \in Requests
                   /\ clicks \in 0..MaxClicks
                   /\ plain \in BOOLEAN /\ calm \in BOOLEAN
                   /\ unload \in {"loaded", "unloading", "unloaded"}
<1>0. Rest /\ RepliesName
  BY DEF TypeInv, TypeOK
<1>a. Rest' /\ RepliesName' => TypeInv'
  BY DEF TypeInv, TypeOK, UnloadInv, Typed
<1> USE Threads DEF cvars, threads, ui, ending
<1>1. ASSUME NEW t \in Callers, TakesEffect(t) PROVE TypeInv'
  <2>1. RepliesName'
    BY <1>1, RepliesKept
  <2>2. Rest'
    BY <1>0, <1>1 DEF TakesEffect
  <2> QED BY <1>a, <2>1, <2>2
<1>2. CASE AutoCall
  <2>1. RepliesName'
    BY <1>2, RepliesKept DEF AutoCall, Operations
  <2>2. (IF try = 0 THEN settings ELSE Fallbacks[try]) \in Requests
    BY <1>0, ExtensionAssumption DEF Requests
  <2>3. Rest'
    BY <1>0, <1>2, <2>2 DEF AutoCall
  <2> QED BY <1>a, <2>1, <2>3
<1>b. ASSUME NEW t \in Callers, NEW e \in Events, Finish(t, e)
      PROVE  want' \in [Callers -> Requests] /\ edt' \in Seq(Events)
  BY <1>0, <1>b, ExtensionAssumption DEF Finish, Requests
<1>3. CASE AutoStarted
  <2>1. Rest'
    BY <1>0, <1>3, <1>b DEF AutoStarted, RepliesName, Requests, Events
  <2> QED BY <1>0, <1>3, <1>a, <2>1 DEF AutoStarted, RepliesName
<1>4. CASE AutoFailed
  <2>1. try' \in 0..Len(Fallbacks)
    BY <1>0, <1>4, ExtensionAssumption DEF AutoFailed
  <2>2. Rest'
    BY <1>0, <1>4, <1>b, <2>1 DEF AutoFailed, Events
  <2> QED BY <1>0, <1>4, <1>a, <2>2 DEF AutoFailed, RepliesName
<1>5. ASSUME NEW w \in Workers, WorkerStep(w) PROVE TypeInv'
  <2>1. CASE WorkerCall(w)
    <3>1. RepliesName'
      BY <2>1, RepliesKept DEF WorkerCall, Operations
    <3> QED BY <1>0, <1>a, <2>1, <3>1 DEF WorkerCall
  <2>2. CASE StartDone(w)
    <3>1. Rest'
      BY <1>0, <1>b, <2>2 DEF StartDone, RepliesName, Requests, Events
    <3> QED BY <1>0, <1>a, <2>2, <3>1 DEF StartDone, RepliesName
  <2>3. CASE StopDone(w)
    <3>1. Rest'
      BY <1>0, <1>b, <2>3 DEF StopDone, Events
    <3> QED BY <1>0, <1>a, <2>3, <3>1 DEF StopDone, RepliesName
  <2>4. CASE RefreshDone(w)
    <3>1. Rest'
      BY <1>0, <1>b, <2>4 DEF RefreshDone, Events
    <3> QED BY <1>0, <1>a, <2>4, <3>1 DEF RefreshDone, RepliesName
  <2> QED BY <1>5, <2>1, <2>2, <2>3, <2>4 DEF WorkerStep
<1>6. CASE EventStep
  <2>1. UNCHANGED <<cvars, want, try, settings, clicks, plain, unload, calm>>
    BY <1>6 DEF EventStep, ApplyProxyStatus, RefreshStatus
  <2>2. edt' = Tail(edt) /\ edt # <<>>
    BY <1>6 DEF EventStep, ApplyProxyStatus, RefreshStatus, Dispatch
  <2>3. edt' \in Seq(Events)
    BY <1>0, <2>2
  <2>4. buttons' \subseteq {"start", "stop"}
    BY <1>0, <1>6 DEF EventStep, ApplyProxyStatus, RefreshStatus
  <2> QED BY <1>0, <1>a, <2>1, <2>3, <2>4 DEF RepliesName
<1>7. CASE Tick
  <2>1. edt' \in Seq(Events)
    BY <1>0, <1>7 DEF Tick, Events
  <2> QED BY <1>0, <1>a, <1>7, <2>1 DEF Tick, RepliesName
<1>8. CASE User
  <2>1. UserActs
    BY <1>8 DEF User, OnStartServer, OnStopServer, SaveAddress
  <2>2. clicks' \in 0..MaxClicks
    BY <1>0, <2>1, ExtensionAssumption DEF UserActs
  <2>3. /\ want' \in [Callers -> Requests] /\ settings' \in Requests
        /\ buttons' \subseteq {"start", "stop"} /\ plain' \in BOOLEAN
        /\ UNCHANGED <<cvars, try, edt, ending>>
    BY <1>0, <1>8 DEF User, OnStartServer, OnStopServer, SaveAddress
  <2> QED BY <1>0, <1>a, <2>2, <2>3 DEF RepliesName
<1>9. CASE BeginUnload
  <2>1. RepliesName'
    BY <1>9, RepliesKept DEF BeginUnload, Operations
  <2>2. calm' \in BOOLEAN
    BY <1>9 DEF BeginUnload
  <2> QED BY <1>0, <1>9, <1>a, <2>1, <2>2 DEF BeginUnload
<1>10. CASE EndUnload \/ UNCHANGED vars
  BY <1>0, <1>10, <1>a DEF EndUnload, RepliesName, vars
<1> QED BY <1>1, <1>2, <1>3, <1>4, <1>5, <1>6, <1>7, <1>8, <1>9, <1>10 DEF Next, AutoStep

(* Every variable keeps its type; the fallbacks have an end.                 *)
THEOREM TypeCorrect == Spec => []TypeOK
<1>1. TypeInv => TypeOK
  BY DEF TypeInv
<1> QED BY <1>1, TypeInit, TypeStep, UnloadInit, UnloadStep, PTL DEF Spec

-----------------------------------------------------------------------------
(* A thread that may yet store an address.                                   *)
Starter(t) == task[t] \in {"auto", "start"}

(* While the user leaves the address alone, a thread of the extension that   *)
(* is in a native call starts the server or asks for its status, for a job.  *)
NoStop ==
    \A t \in Callers :
        /\ task[t] # "stop" /\ call[t] \notin {"stop", "stopping"}
        /\ task[t] = "none" => call[t] = "idle"

(* A starter is on its way, or knows what is served.                         *)
StartersKnow ==
    \A t \in Callers : Starter(t) =>
        /\ call[t] \in {"idle", "start"}
        /\ (Returned(t) /\ reply[t].running) => up # NoAddr /\ reply[t].addr = up

(* An address that is not stored yet is what some starter will store: a start *)
(* that has not failed finds the server running.                              *)
WillStore(t) == Starter(t) /\ ~(Returned(t) /\ ~reply[t].running)
StoredOrWill == up = NoAddr \/ settings = up \/ \E t \in Callers : WillStore(t)

Undisturbed == plain /\ unload = "loaded"
StoreInv == Undisturbed => NoStop /\ StartersKnow /\ StoredOrWill

(* The initial states satisfy it.                                            *)
LEMMA StoreInit == Init => StoreInv
  BY DEF Init, CtlInit, StoreInv, NoStop, StartersKnow, StoredOrWill, Starter, Returned

(* What every step needs to know of the state before it.                     *)
LEMMA TypedBefore ==
    ASSUME TypeInv
    PROVE  /\ call \in [Callers -> Operations \cup {"idle", "stopping"}]
           /\ reply \in [Callers -> Replies]
           /\ task \in [Callers -> Tasks]
           /\ at \in [Callers -> {"ready", "called"}]
  BY DEF TypeInv, TypeOK

(* A start, or a status query, takes effect.                                 *)
LEMMA StoreEffect ==
    ASSUME TypeInv, StoreInv, UnloadInv, Undisturbed, NEW t \in Callers, TakesEffect(t)
    PROVE  NoStop' /\ StartersKnow' /\ StoredOrWill'
<1>0. NoStop /\ StartersKnow /\ StoredOrWill
  BY DEF StoreInv
<1>1. /\ call' = [call EXCEPT ![t] = "idle"] /\ UNCHANGED <<task, at, settings>>
      /\ call[t] \in {"start", "status"}
      /\ \A s \in Callers \ {t} : call'[s] = call[s] /\ reply'[s] = reply[s]
  BY <1>0, TypedBefore DEF TakesEffect, StartTakesEffect, CtlStart, CtlStatus, CtlStopEffect,
     CtlStopNoop, CtlStopReturn, Answer, NoStop, threads, ui
<1>2. call[t] = "start" \/ ~Starter(t)
  BY <1>0, <1>1 DEF StartersKnow
<1>3. up # NoAddr => up' = up
  BY <1>1 DEF TakesEffect, StartTakesEffect, CtlStart, CtlStatus, CtlStopEffect, CtlStopNoop,
     CtlStopReturn
<1>4. call[t] = "start" =>
        IF reply'[t].running THEN up' # NoAddr /\ reply'[t].addr = up' ELSE up' = NoAddr
  <2> SUFFICES ASSUME call[t] = "start"
               PROVE  IF reply'[t].running THEN up' # NoAddr /\ reply'[t].addr = up' ELSE up' = NoAddr
    OBVIOUS
  <2>1. CtlStart(t)
    BY DEF TakesEffect, StartTakesEffect, CtlStatus, CtlStopEffect, CtlStopNoop, CtlStopReturn
  <2> QED BY <2>1, TypedBefore, ExtensionAssumption DEF CtlStart, Answer, Reply
<1>5. call[t] # "start" => up' = up
  BY <1>1 DEF TakesEffect, StartTakesEffect, CtlStart, CtlStatus, CtlStopEffect, CtlStopNoop,
     CtlStopReturn
<1>6. NoStop'
  BY <1>0, <1>1, TypedBefore DEF NoStop
<1>7. StartersKnow'
  BY <1>0, <1>1, <1>2, <1>3, <1>4, TypedBefore DEF StartersKnow, Starter, Returned
<1>8. call[t] = "start" => Starter(t) /\ at[t] = "called"
  BY DEF UnloadInv, StartsHaveJobs, Starter
<1>9. StoredOrWill'
  <2>1. CASE call[t] = "start"
    <3>1. up' # NoAddr => WillStore(t)'
      BY <1>1, <1>4, <1>8, <2>1 DEF WillStore, Starter, Returned
    <3> QED BY <3>1 DEF StoredOrWill
  <2>2. CASE call[t] # "start"
    <3>1. \A s \in Callers : WillStore(s) => WillStore(s)'
      BY <1>1, <1>2, <2>2 DEF WillStore, Starter, Returned
    <3> QED BY <1>0, <1>1, <1>5, <2>2, <3>1 DEF StoredOrWill
  <2> QED BY <2>1, <2>2
<1> QED BY <1>6, <1>7, <1>9

(* A thread enters a native call that is not a stop.                         *)
LEMMA StoreCall ==
    ASSUME TypeInv, StoreInv, Undisturbed, NEW t \in Callers, NEW op \in {"start", "status"},
           NativeCall(t, op), UNCHANGED <<task, settings>>, Starter(t) => op = "start",
           task[t] # "none"
    PROVE  NoStop' /\ StartersKnow' /\ StoredOrWill'
<1>0. NoStop /\ StartersKnow /\ StoredOrWill
  BY DEF StoreInv
<1>1. /\ call' = [call EXCEPT ![t] = op] /\ at' = [at EXCEPT ![t] = "called"] /\ up' = up
      /\ \A s \in Callers \ {t} : reply'[s] = reply[s]
  BY TypedBefore DEF NativeCall, CtlCall
<1>2. NoStop'
  BY <1>0, <1>1, TypedBefore DEF NoStop
<1>3. StartersKnow'
  BY <1>0, <1>1, TypedBefore DEF StartersKnow, Starter, Returned
<1>4. \A s \in Callers : WillStore(s) => WillStore(s)'
  BY <1>1, TypedBefore DEF WillStore, Starter, Returned
<1>5. StoredOrWill'
  BY <1>0, <1>1, <1>4 DEF StoredOrWill
<1> QED BY <1>2, <1>3, <1>5

(* A thread changes its job outside a native call: what is stored then must  *)
(* be what is served, or still be on its way.                                *)
LEMMA StoreJob ==
    ASSUME TypeInv, StoreInv, Undisturbed, NEW t \in Callers, NEW job \in Tasks \ {"stop"},
           call[t] = "idle", UNCHANGED cvars,
           task' = [task EXCEPT ![t] = job],
           job \in {"auto", "start"} => at'[t] = "ready",
           \A s \in Callers \ {t} : at'[s] = at[s],
           \/ WillStore(t)' \/ settings' = up
           \/ settings' = settings /\ ~WillStore(t)
    PROVE  NoStop' /\ StartersKnow' /\ StoredOrWill'
<1> USE DEF cvars
<1>0. NoStop /\ StartersKnow /\ StoredOrWill
  BY DEF StoreInv
<1>1. NoStop'
  BY <1>0, TypedBefore DEF NoStop
<1>2. StartersKnow'
  BY <1>0, TypedBefore DEF StartersKnow, Starter, Returned
<1>3. \A s \in Callers \ {t} : WillStore(s) => WillStore(s)'
  BY TypedBefore DEF WillStore, Starter, Returned
<1>4. StoredOrWill'
  BY <1>0, <1>3 DEF StoredOrWill
<1> QED BY <1>1, <1>2, <1>4

(* Steps that leave the threads, the server and the address alone.           *)
LEMMA StoreUi ==
    ASSUME StoreInv, Undisturbed, UNCHANGED <<cvars, task, at, settings>>
    PROVE  NoStop' /\ StartersKnow' /\ StoredOrWill'
  BY DEF StoreInv, NoStop, StartersKnow, StoredOrWill, WillStore, Starter, Returned, cvars

LEMMA StoreStep == TypeInv /\ UnloadInv /\ StoreInv /\ [Next]_vars => StoreInv'
<1> SUFFICES ASSUME TypeInv, UnloadInv, StoreInv, [Next]_vars, Undisturbed'
             PROVE  NoStop' /\ StartersKnow' /\ StoredOrWill'
  BY DEF StoreInv
<1>0. Undisturbed /\ NoStop /\ StartersKnow /\ StoredOrWill
  <2>1. plain' => plain
    BY DEF Next, TakesEffect, AutoStep, AutoCall, AutoStarted, AutoFailed, WorkerStep, WorkerCall,
       StartDone, StopDone, RefreshDone, EventStep, ApplyProxyStatus, RefreshStatus, Tick, User,
       OnStartServer, OnStopServer, SaveAddress, BeginUnload, EndUnload, vars, ui
  <2>2. unload' = "loaded" => unload = "loaded"
    BY DEF Next, TakesEffect, AutoStep, AutoCall, AutoStarted, AutoFailed, WorkerStep, WorkerCall,
       StartDone, StopDone, RefreshDone, EventStep, ApplyProxyStatus, RefreshStatus, Tick, User,
       OnStartServer, OnStopServer, SaveAddress, BeginUnload, EndUnload, vars, ui, ending
  <2> QED BY <2>1, <2>2 DEF Undisturbed, StoreInv
<1>t. {"none", "auto", "refresh", "start"} \subseteq Tasks \ {"stop"}
  BY DEF Tasks
<1> USE Threads, TypedBefore DEF threads, ui
<1>1. ASSUME NEW t \in Callers, TakesEffect(t) PROVE NoStop' /\ StartersKnow' /\ StoredOrWill'
  BY <1>0, <1>1, StoreEffect
<1>2. CASE AutoCall
  BY <1>0, <1>2, StoreCall DEF AutoCall
<1>3. CASE AutoStarted
  <2>1. settings' = up
    BY <1>0, <1>3 DEF AutoStarted, StartersKnow, Starter
  <2> QED BY <1>0, <1>3, <1>t, <2>1, StoreJob DEF AutoStarted, Finish, Returned
<1>4. CASE AutoFailed
  <2>1. ~WillStore(AutoThread) /\ settings' = settings /\ call[AutoThread] = "idle"
    BY <1>4 DEF AutoFailed, WillStore, Returned
  <2>2. CASE task' = task /\ at' = [at EXCEPT ![AutoThread] = "ready"]
    <3>1. task' = [task EXCEPT ![AutoThread] = "auto"] /\ at'[AutoThread] = "ready"
      BY <1>4, <2>2 DEF AutoFailed
    <3> QED BY <1>0, <1>4, <1>t, <2>1, <2>2, <3>1, StoreJob DEF AutoFailed
  <2>3. CASE task' = [task EXCEPT ![AutoThread] = "none"] /\ at' = at
    BY <1>0, <1>4, <1>t, <2>1, <2>3, StoreJob DEF AutoFailed
  <2> QED BY <1>4, <2>2, <2>3 DEF AutoFailed, Finish
<1>5. ASSUME NEW w \in Workers, WorkerStep(w) PROVE NoStop' /\ StartersKnow' /\ StoredOrWill'
  <2>1. CASE WorkerCall(w)
    <3>1. PICK op \in {"start", "status"} :
                NativeCall(w, op) /\ (Starter(w) => op = "start") /\ task[w] # "none"
      BY <1>0, <2>1 DEF WorkerCall, NoStop, Starter
    <3> QED BY <1>0, <2>1, <3>1, StoreCall DEF WorkerCall
  <2>2. CASE StartDone(w)
    <3>1. CASE reply[w].running
      BY <1>0, <1>t, <2>2, <3>1, StoreJob DEF StartDone, StartersKnow, Starter, Finish, Returned
    <3>2. CASE ~reply[w].running
      BY <1>0, <1>t, <2>2, <3>2, StoreJob DEF StartDone, WillStore, Finish, Returned
    <3> QED BY <3>1, <3>2
  <2>3. CASE StopDone(w)
    BY <1>0, <2>3 DEF StopDone, NoStop
  <2>4. CASE RefreshDone(w)
    BY <1>0, <1>t, <2>4, StoreJob DEF RefreshDone, Finish, Returned, WillStore, Starter
  <2> QED BY <1>5, <2>1, <2>2, <2>3, <2>4 DEF WorkerStep
<1>6. CASE EventStep
  <2>1. CASE ApplyProxyStatus
    BY <1>0, <2>1, StoreUi DEF ApplyProxyStatus
  <2>2. ASSUME NEW w \in Workers, RefreshStatus(w) PROVE NoStop' /\ StartersKnow' /\ StoredOrWill'
    BY <1>0, <1>t, <2>2, StoreJob DEF RefreshStatus, Spawn, WillStore, Starter, NoStop
  <2> QED BY <1>6, <2>1, <2>2 DEF EventStep
<1>7. CASE Tick
  BY <1>0, <1>7, StoreUi DEF Tick
<1>8. CASE User
  <2>1. ASSUME NEW w \in Workers, NEW r \in Requests, OnStartServer(w, r)
        PROVE  NoStop' /\ StartersKnow' /\ StoredOrWill'
    <3>1. /\ task[w] = "none" /\ task' = [task EXCEPT ![w] = "start"]
          /\ at' = [at EXCEPT ![w] = "ready"] /\ UNCHANGED cvars
      BY <2>1 DEF OnStartServer, Spawn
    <3>2. WillStore(w)' /\ at'[w] = "ready"
      BY <3>1 DEF WillStore, Starter, Returned
    <3>3. NoStop'
      BY <1>0, <3>1 DEF NoStop, cvars
    <3>4. StartersKnow'
      BY <1>0, <3>1 DEF StartersKnow, Starter, Returned, NoStop, cvars
    <3> QED BY <3>2, <3>3, <3>4 DEF StoredOrWill
  <2>2. ASSUME NEW w \in Workers, OnStopServer(w) PROVE FALSE
    BY <2>2 DEF OnStopServer, Undisturbed
  <2>3. ASSUME NEW r \in Requests, SaveAddress(r) PROVE FALSE
    BY <2>3 DEF SaveAddress, Undisturbed
  <2> QED BY <1>8, <2>1, <2>2, <2>3 DEF User
<1>9. CASE BeginUnload \/ EndUnload
  BY <1>0, <1>9 DEF BeginUnload, EndUnload, Undisturbed
<1>10. CASE UNCHANGED vars
  BY <1>0, <1>10, StoreUi DEF vars
<1> QED BY <1>1, <1>2, <1>3, <1>4, <1>5, <1>6, <1>7, <1>8, <1>9, <1>10 DEF Next, AutoStep

(* With no start under way the stored address is the one being served,       *)
(* whoever brought it up, as long as the user neither stopped the server nor *)
(* saved another address (TlsPlusExtension.kt:56-70, TlsPlusTab.kt:502-506). *)
THEOREM AddressStored == Spec => []StoredAddressIsServed
<1>1. StoreInv => StoredAddressIsServed
  BY DEF StoreInv, Undisturbed, StoredOrWill, WillStore, Starter, StoredAddressIsServed
<1> QED BY <1>1, TypeInit, TypeStep, UnloadInit, UnloadStep, StoreInit, StoreStep, PTL DEF Spec

-----------------------------------------------------------------------------
(* The use of the control interface, and the end of the workers.             *)

(* The extension is a client of the control interface and of nothing else of *)
(* the server: each of its steps is a step of ProxyControl or none of it, so *)
(* that what is shown of it over ProxyControl holds over every               *)
(* implementation of ProxyControl.                                           *)
THEOREM UsesControl == Spec => CtlSpec
<1>1. Init => CtlInit
  BY DEF Init
<1>2. [Next]_vars => [CtlNext]_cvars
  <2> SUFFICES ASSUME [Next]_vars PROVE CtlNext \/ UNCHANGED cvars
    OBVIOUS
  <2>1. ASSUME NEW t \in Callers, TakesEffect(t) PROVE CtlNext
    BY <2>1 DEF TakesEffect, StartTakesEffect, CtlNext
  <2>2. ASSUME NEW t \in Callers, NEW op \in Operations, NativeCall(t, op) PROVE CtlNext
    BY <2>2 DEF NativeCall, CtlNext
  <2>3. CASE AutoStep
    BY <2>2, <2>3, Threads DEF AutoStep, AutoCall, AutoStarted, AutoFailed, Operations
  <2>4. ASSUME NEW w \in Workers, WorkerStep(w) PROVE CtlNext \/ UNCHANGED cvars
    BY <2>2, <2>4, Threads DEF WorkerStep, WorkerCall, StartDone, StopDone, RefreshDone, Operations
  <2>5. CASE EventStep \/ Tick \/ User
    BY <2>5 DEF EventStep, ApplyProxyStatus, RefreshStatus, Tick, User, OnStartServer,
       OnStopServer, SaveAddress
  <2>6. CASE BeginUnload \/ EndUnload
    BY <2>2, <2>6, Threads DEF BeginUnload, EndUnload, Operations
  <2>7. CASE UNCHANGED vars
    BY <2>7 DEF vars
  <2> QED BY <2>1, <2>3, <2>4, <2>5, <2>6, <2>7 DEF Next
<1> QED BY <1>1, <1>2, PTL DEF Spec, CtlSpec

(* A worker is inside a native call only for a job it has called for.        *)
WorkerInv ==
    \A w \in Workers :
        /\ task[w] \in {"none", "start", "stop", "refresh"}
        /\ call[w] # "idle" => task[w] # "none" /\ at[w] = "called"

(* The native call of worker w as the worker's own progress.                 *)
Ready(w) == task[w] # "none" /\ call[w] = "idle" /\ at[w] = "ready"
InCall(w) == task[w] # "none" /\ call[w] \in Operations
Stopping(w) == task[w] # "none" /\ call[w] = "stopping"
Back(w) == task[w] # "none" /\ Returned(w)
Over(w) == task[w] = "none"

(* What one step does to worker w: nothing, the next stage, or a new job.    *)
WorkerMoves(w) ==
    \/ UNCHANGED <<task[w], at[w], call[w]>>
    \/ Over(w) /\ Ready(w)' /\ task'[w] \in {"start", "stop", "refresh"}
    \/ Ready(w) /\ InCall(w)' /\ at'[w] = "called" /\ task'[w] = task[w]
    \/ InCall(w) /\ (Stopping(w) \/ Back(w))' /\ at'[w] = at[w] /\ task'[w] = task[w]
    \/ Stopping(w) /\ Back(w)' /\ at'[w] = at[w] /\ task'[w] = task[w]
    \/ Back(w) /\ Over(w)' /\ call'[w] = call[w]

LEMMA WorkerMove ==
    ASSUME Typed, WorkerInv, NEW w \in Workers, [Next]_vars
    PROVE  /\ WorkerMoves(w)
           /\ TakesEffect(w) => call'[w] # call[w]
           /\ WorkerStep(w) => <<task[w], at[w]>>' # <<task[w], at[w]>>
<1> USE Threads DEF threads, Typed
<1>d. w \in Callers /\ w # AutoThread /\ w # Unloader
  OBVIOUS
<1>1. ASSUME NEW t \in Callers, TakesEffect(t)
      PROVE  /\ UNCHANGED <<task, at>>
             /\ \A s \in Callers \ {t} : call'[s] = call[s]
             /\ \/ call[t] \in Operations /\ call'[t] \in {"idle", "stopping"}
                \/ call[t] = "stopping" /\ call'[t] = "idle"
  <2>1. UNCHANGED <<task, at>>
    BY <1>1 DEF TakesEffect
  <2>2. \/ call[t] \in Operations /\ call' = [call EXCEPT ![t] = "idle"]
        \/ call[t] \in Operations /\ call' = [call EXCEPT ![t] = "stopping"]
        \/ call[t] = "stopping" /\ call' = [call EXCEPT ![t] = "idle"]
    BY <1>1 DEF TakesEffect, StartTakesEffect, CtlStart, CtlStatus, CtlStopEffect, CtlStopNoop,
       CtlStopReturn, Answer, Operations
  <2> QED BY <2>1, <2>2
<1>2. ASSUME NEW t \in Callers, NEW op \in Operations, NativeCall(t, op)
      PROVE  /\ at[t] = "ready" /\ call[t] = "idle"
             /\ at' = [at EXCEPT ![t] = "called"] /\ call' = [call EXCEPT ![t] = op]
  BY <1>2 DEF NativeCall, CtlCall
<1>3. ASSUME WorkerStep(w)
      PROVE  \/ Ready(w) /\ InCall(w)' /\ at'[w] = "called" /\ task'[w] = task[w]
             \/ Back(w) /\ Over(w)' /\ call'[w] = call[w] /\ at'[w] = at[w]
  <2>1. CASE WorkerCall(w)
    BY <1>2, <2>1 DEF WorkerCall, Operations, Ready, InCall
  <2>2. CASE StartDone(w) \/ StopDone(w) \/ RefreshDone(w)
    BY <2>2 DEF StartDone, StopDone, RefreshDone, Finish, Back, Over, cvars
  <2> QED BY <1>3, <2>1, <2>2 DEF WorkerStep
<1>4. TakesEffect(w) => call'[w] # call[w]
  BY <1>1, <1>d DEF Operations
<1>5. WorkerStep(w) => <<task[w], at[w]>>' # <<task[w], at[w]>>
  BY <1>3 DEF Ready, Back, Over
<1>6. WorkerMoves(w)
  <2> USE DEF WorkerMoves
  <2>1. ASSUME NEW t \in Callers, TakesEffect(t) PROVE WorkerMoves(w)
    <3>1. CASE t # w
      BY <1>1, <2>1, <3>1
    <3>2. CASE t = w
      <4>1. call[w] # "idle"
        BY <1>1, <2>1, <3>2 DEF Operations
      <4>2. task[w] # "none" /\ at[w] = "called" /\ UNCHANGED <<task, at>>
        BY <1>1, <2>1, <4>1 DEF WorkerInv
      <4>3. \/ call[w] \in Operations /\ call'[w] \in {"idle", "stopping"}
            \/ call[w] = "stopping" /\ call'[w] = "idle"
        BY <1>1, <2>1, <3>2
      <4> QED BY <4>2, <4>3 DEF InCall, Stopping, Back, Returned
    <3> QED BY <3>1, <3>2
  <2>2. CASE AutoStep
    BY <1>2, <2>2, <1>d DEF AutoStep, AutoCall, AutoStarted, AutoFailed, Finish, Operations, cvars
  <2>3. ASSUME NEW v \in Workers, WorkerStep(v) PROVE WorkerMoves(w)
    <3>1. CASE v = w
      BY <1>3, <2>3, <3>1
    <3>2. CASE v # w
      BY <1>2, <2>3, <3>2 DEF WorkerStep, WorkerCall, StartDone, StopDone, RefreshDone, Finish,
         Operations, cvars
    <3> QED BY <3>1, <3>2
  <2>4. ASSUME NEW v \in Workers, NEW job \in {"start", "stop", "refresh"}, Spawn(v, job),
               UNCHANGED cvars
        PROVE  WorkerMoves(w)
    BY <2>4 DEF Spawn, cvars, Over, Ready, WorkerInv
  <2>5. CASE EventStep \/ Tick \/ User
    <3>1. ASSUME NEW v \in Workers,
                 RefreshStatus(v) \/ OnStopServer(v) \/ \E r \in Requests : OnStartServer(v, r)
          PROVE  WorkerMoves(w)
      BY <2>4, <3>1 DEF RefreshStatus, OnStartServer, OnStopServer
    <3>2. CASE ApplyProxyStatus \/ Tick \/ \E r \in Requests : SaveAddress(r)
      BY <3>2 DEF ApplyProxyStatus, Tick, SaveAddress, cvars
    <3> QED BY <2>5, <3>1, <3>2 DEF EventStep, User
  <2>6. CASE BeginUnload \/ EndUnload
    <3>1. task'[w] = task[w]
      BY <2>6 DEF BeginUnload, EndUnload
    <3>2. at'[w] = at[w] /\ call'[w] = call[w]
      <4>1. CASE BeginUnload
        <5>1. NativeCall(Unloader, "stop") /\ "stop" \in Operations
          BY <4>1 DEF BeginUnload, Operations
        <5> QED BY <1>2, <5>1
      <4>2. CASE EndUnload
        BY <4>2 DEF EndUnload, cvars
      <4> QED BY <2>6, <4>1, <4>2
    <3> QED BY <3>1, <3>2
  <2>7. CASE UNCHANGED vars
    BY <2>7 DEF vars, cvars
  <2> QED BY <2>1, <2>2, <2>3, <2>5, <2>6, <2>7 DEF Next
<1> QED BY <1>4, <1>5, <1>6

(* A worker calls for a job it has, and has a job as long as it is inside.   *)
LEMMA WorkerInvStep == Typed /\ WorkerInv /\ [Next]_vars => WorkerInv'
<1> SUFFICES ASSUME Typed, WorkerInv, [Next]_vars, NEW w \in Workers
             PROVE  /\ task'[w] \in {"none", "start", "stop", "refresh"}
                    /\ call'[w] # "idle" => task'[w] # "none" /\ at'[w] = "called"
  BY DEF WorkerInv
<1>1. WorkerMoves(w)
  BY WorkerMove
<1> USE DEF WorkerInv, Over, Ready, InCall, Stopping, Back, Returned
<1>2. CASE UNCHANGED <<task[w], at[w], call[w]>>
  BY <1>2
<1>3. CASE ~UNCHANGED <<task[w], at[w], call[w]>>
  BY <1>1, <1>3 DEF WorkerMoves, Operations
<1> QED BY <1>2, <1>3

(* A native call returns: the fairness of TakesEffect(t), and of the step of *)
(* a worker that is outside a call, with their guards spelled out.           *)
CallReturns(t) == []<>(call[t] = "idle") \/ []<><<TakesEffect(t)>>_vars
WorkerRuns(w) ==
    []<>~(task[w] # "none" /\ call[w] = "idle") \/ []<><<WorkerStep(w)>>_vars

LEMMA WorkerEnds ==
    ASSUME NEW w \in Workers
    PROVE  Spec /\ CallReturns(w) /\ WorkerRuns(w) => (task[w] # "none" ~> task[w] = "none")
<1>1. Init => WorkerInv
  BY Threads DEF Init, CtlInit, WorkerInv
<1>2. UnloadInv => Typed
  BY DEF UnloadInv
<1>3. Typed /\ task[w] # "none" => Ready(w) \/ InCall(w) \/ Stopping(w) \/ Back(w)
  BY Threads DEF Typed, Ready, InCall, Stopping, Back, Returned
<1>4. /\ Ready(w) \/ Back(w) => task[w] # "none" /\ call[w] = "idle"
      /\ InCall(w) \/ Stopping(w) => ~(call[w] = "idle")
      /\ Over(w) <=> task[w] = "none"
  BY DEF Ready, Back, Returned, InCall, Stopping, Over, Operations
<1> USE WorkerMove DEF WorkerMoves, Ready, InCall, Stopping, Back, Returned, Over, Operations
<1>5. Typed /\ WorkerInv /\ [Next]_vars /\ Ready(w) => (Ready(w) \/ InCall(w))'
  OBVIOUS
<1>6. Typed /\ WorkerInv /\ [Next]_vars /\ <<WorkerStep(w)>>_vars /\ Ready(w) => InCall(w)'
  OBVIOUS
<1>7. Typed /\ WorkerInv /\ [Next]_vars /\ InCall(w) => (InCall(w) \/ Stopping(w) \/ Back(w))'
  OBVIOUS
<1>8. Typed /\ WorkerInv /\ [Next]_vars /\ <<TakesEffect(w)>>_vars /\ InCall(w)
        => (Stopping(w) \/ Back(w))'
  OBVIOUS
<1>9. Typed /\ WorkerInv /\ [Next]_vars /\ Stopping(w) => (Stopping(w) \/ Back(w))'
  OBVIOUS
<1>10. Typed /\ WorkerInv /\ [Next]_vars /\ <<TakesEffect(w)>>_vars /\ Stopping(w) => Back(w)'
  OBVIOUS
<1>11. Typed /\ WorkerInv /\ [Next]_vars /\ Back(w) => (Back(w) \/ Over(w))'
  OBVIOUS
<1>12. Typed /\ WorkerInv /\ [Next]_vars /\ <<WorkerStep(w)>>_vars /\ Back(w) => Over(w)'
  OBVIOUS
<1> HIDE WorkerMove DEF WorkerMoves, Ready, InCall, Stopping, Back, Returned, Over, Operations
<1> QED BY <1>1, <1>2, <1>3, <1>4, <1>5, <1>6, <1>7, <1>8, <1>9, <1>10, <1>11, <1>12, WorkerInvStep,
        UnloadInit, UnloadStep, PTL DEF Spec, CallReturns, WorkerRuns

(* However many workers call at once and whatever the server answers, each   *)
(* ends: all it takes is that native calls return and the worker runs.       *)
THEOREM WorkersFinish ==
    Spec /\ (\A w \in Workers : CallReturns(w) /\ WorkerRuns(w)) => WorkersEnd
BY WorkerEnds DEF WorkersEnd
=============================================================================
