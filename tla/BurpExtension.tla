---------------------------- MODULE BurpExtension ----------------------------
(* The Burp side of the lifecycle: the autostart thread, the tab's buttons,  *)
(* its status timer and background workers, the event dispatch thread they   *)
(* post to, the persisted listen address and the unload handler              *)
(* (TlsPlusExtension.kt, TlsPlusTab.kt).  The native server is ProxyControl, *)
(* which ServerLifecycle implements.                                         *)
EXTENDS ProxyControl, Sequences

CONSTANTS Workers,      \* background workers that may run at once (a bound)
          AutoThread,   \* the autostart thread
          Unloader,     \* the thread that runs the unload handler
          AnyPort,      \* a configured address with port 0
          Default,      \* the address stored when the extension is loaded
          Fallbacks,    \* the ports autostart tries when that one fails
          MaxClicks,    \* bound: user actions
          MaxQueue      \* bound: the timer fires while fewer events wait

ASSUME ExtensionAssumption ==
    /\ Callers = Workers \cup {AutoThread, Unloader}
    /\ AutoThread # Unloader /\ AutoThread \notin Workers /\ Unloader \notin Workers
    /\ NoAddr \notin Addrs \cup {AnyPort} /\ AnyPort \notin Addrs
    /\ Default \in Addrs \cup {AnyPort}
    /\ Fallbacks \in Seq(Addrs)
    /\ MaxClicks \in Nat /\ MaxQueue \in Nat

VARIABLES
    task,       \* task[t]: the job of thread t; the native call is its middle
    at,         \* at[t]: "ready" before the native call, "called" after it
    want,       \* want[t]: the address a start asks for
    try,        \* the fallback autostart is at, 0 for the stored address
    edt,        \* the event dispatch queue
    buttons,    \* the enabled ones of Start and Stop
    settings,   \* ExtensionSettings.serverListenAddr
    clicks,     \* user actions so far
    plain,      \* the user neither stopped the server nor saved an address
    unload,     \* "loaded", "unloading", "unloaded"
    calm        \* no start was under way when the unload handler began

threads == <<task, at, want, try>>
ui == <<edt, buttons, settings, clicks, plain>>
ending == <<unload, calm>>
vars == <<cvars, threads, ui, ending>>

Requests == Addrs \cup {AnyPort}
Tasks == {"none", "auto", "start", "stop", "refresh", "unload"}
Events == {"refresh", "tick", "running", "stopped"}
Has(s, e) == \E i \in 1..Len(s) : s[i] = e

TypeOK ==
    /\ up \in Addrs \cup {NoAddr}
    /\ call \in [Callers -> Operations \cup {"idle", "stopping"}]
    /\ reply \in [Callers -> Replies]
    /\ task \in [Callers -> Tasks]
    /\ at \in [Callers -> {"ready", "called"}]
    /\ want \in [Callers -> Requests]
    /\ try \in 0..Len(Fallbacks)
    /\ edt \in Seq(Events)
    /\ buttons \subseteq {"start", "stop"}
    /\ settings \in Requests
    /\ clicks \in 0..MaxClicks
    /\ plain \in BOOLEAN /\ calm \in BOOLEAN
    /\ unload \in {"loaded", "unloading", "unloaded"}

\* initialize: the tab has spawned its first refresh, autostart sleeps.
Init ==
    /\ CtlInit
    /\ \E w \in Workers :
         task = [t \in Callers |-> IF t = AutoThread THEN "auto"
                                   ELSE IF t = w THEN "refresh" ELSE "none"]
    /\ at = [t \in Callers |-> "ready"]
    /\ want = [t \in Callers |-> Default]
    /\ try = 0
    /\ edt = <<>> /\ buttons = {"start", "stop"}
    /\ settings = Default
    /\ clicks = 0 /\ plain = TRUE
    /\ unload = "loaded" /\ calm = TRUE

-----------------------------------------------------------------------------
(* The native call every thread makes.                                       *)

\* TlsPlusCore.startServer, stopServer, serverStatus.
NativeCall(t, op) ==
    /\ at[t] = "ready"
    /\ CtlCall(t, op)
    /\ at' = [at EXCEPT ![t] = "called"]

\* A start binds the address it asks for, with port 0 any.
StartTakesEffect(t) ==
    /\ CtlStart(t)
    /\ up = NoAddr => up' \in {NoAddr} \cup (IF want[t] = AnyPort THEN Addrs ELSE {want[t]})

TakesEffect(t) ==
    /\ StartTakesEffect(t) \/ CtlStatus(t)
         \/ CtlStopEffect(t) \/ CtlStopNoop(t) \/ CtlStopReturn(t)
    /\ UNCHANGED <<threads, ui, ending>>

Returned(t) == at[t] = "called" /\ call[t] = "idle"

\* runBackground: a fresh worker takes the job.
Spawn(w, job) ==
    /\ w \in Workers /\ task[w] = "none"
    /\ task' = [task EXCEPT ![w] = job]
    /\ at' = [at EXCEPT ![w] = "ready"]

\* The thread is over and what it leaves for the event thread is queued.
Finish(t, event) ==
    /\ task' = [task EXCEPT ![t] = "none"]
    /\ want' = [want EXCEPT ![t] = Default]
    /\ edt' = Append(edt, event)

-----------------------------------------------------------------------------
(* The autostart thread.                                                     *)

AutoCall ==
    /\ task[AutoThread] = "auto"
    /\ want' = [want EXCEPT ![AutoThread] = IF try = 0 THEN settings ELSE Fallbacks[try]]
    /\ NativeCall(AutoThread, "start")
    /\ UNCHANGED <<task, try, ui, ending>>

\* Mutated: a fallback that came up is not written to the settings.
AutoStarted_unsaved ==
    /\ task[AutoThread] = "auto" /\ Returned(AutoThread) /\ reply[AutoThread].running
    /\ settings' = IF try = 0 THEN reply[AutoThread].addr ELSE settings
    /\ Finish(AutoThread, "refresh")
    /\ UNCHANGED <<cvars, at, try, buttons, clicks, plain, ending>>

\* The live address is stored, which may not be the one asked for.
AutoStarted ==
    /\ task[AutoThread] = "auto" /\ Returned(AutoThread) /\ reply[AutoThread].running
    /\ settings' = reply[AutoThread].addr
    /\ Finish(AutoThread, "refresh")
    /\ UNCHANGED <<cvars, at, try, buttons, clicks, plain, ending>>

\* Mutated: the list of fallbacks has no end.
AutoFailed_noEnd ==
    /\ task[AutoThread] = "auto" /\ Returned(AutoThread) /\ ~reply[AutoThread].running
    /\ try' = try + 1
    /\ at' = [at EXCEPT ![AutoThread] = "ready"]
    /\ UNCHANGED <<cvars, task, want, ui, ending>>

AutoFailed ==
    /\ task[AutoThread] = "auto" /\ Returned(AutoThread) /\ ~reply[AutoThread].running
    /\ \/ /\ try < Len(Fallbacks)
          /\ try' = try + 1
          /\ at' = [at EXCEPT ![AutoThread] = "ready"]
          /\ UNCHANGED <<task, edt, want>>
       \/ /\ try = Len(Fallbacks)
          /\ Finish(AutoThread, "refresh")
          /\ UNCHANGED <<try, at>>
    /\ UNCHANGED <<cvars, buttons, settings, clicks, plain, ending>>

-----------------------------------------------------------------------------
(* Background workers of the tab.                                            *)

WorkerCall(w) ==
    /\ \/ task[w] \in {"start", "stop"} /\ NativeCall(w, task[w])
       \/ task[w] = "refresh" /\ NativeCall(w, "status")
    /\ UNCHANGED <<task, want, try, ui, ending>>

\* Mutated: the address the server came up on is not stored.
StartDone_unsaved(w) ==
    /\ task[w] = "start" /\ Returned(w)
    /\ settings' = settings
    /\ Finish(w, "refresh")
    /\ UNCHANGED <<cvars, at, try, buttons, clicks, plain, ending>>

\* A running server's address is stored, whoever started it.
StartDone(w) ==
    /\ task[w] = "start" /\ Returned(w)
    /\ settings' = IF reply[w].running THEN reply[w].addr ELSE settings
    /\ Finish(w, "refresh")
    /\ UNCHANGED <<cvars, at, try, buttons, clicks, plain, ending>>

StopDone(w) ==
    /\ task[w] = "stop" /\ Returned(w)
    /\ Finish(w, "refresh")
    /\ UNCHANGED <<cvars, at, try, buttons, settings, clicks, plain, ending>>

\* What the worker saw is applied later, on the event thread.
RefreshDone(w) ==
    /\ task[w] = "refresh" /\ Returned(w)
    /\ Finish(w, IF reply[w].running THEN "running" ELSE "stopped")
    /\ UNCHANGED <<cvars, at, try, buttons, settings, clicks, plain, ending>>

-----------------------------------------------------------------------------
(* The event dispatch thread.                                                *)

Dispatch(events) ==
    /\ edt # <<>> /\ Head(edt) \in events
    /\ edt' = Tail(edt)

\* refreshStatus.
RefreshStatus(w) ==
    /\ Dispatch({"refresh", "tick"})
    /\ Spawn(w, "refresh")
    /\ UNCHANGED <<cvars, want, try, buttons, settings, clicks, plain, ending>>

ApplyProxyStatus ==
    /\ Dispatch({"running", "stopped"})
    /\ buttons' = IF Head(edt) = "running" THEN {"stop"} ELSE {"start"}
    /\ UNCHANGED <<cvars, threads, settings, clicks, plain, ending>>

\* Mutated: the timer fires once only, before anything has happened.
Tick_once ==
    /\ unload = "loaded" /\ ~Has(edt, "tick") /\ Len(edt) < MaxQueue
    /\ clicks = 0 /\ task[AutoThread] = "auto"
    /\ edt' = Append(edt, "tick")
    /\ UNCHANGED <<cvars, threads, buttons, settings, clicks, plain, ending>>

\* The Swing timer coalesces: one of its events at most is queued.
Tick ==
    /\ unload = "loaded" /\ ~Has(edt, "tick") /\ Len(edt) < MaxQueue
    /\ edt' = Append(edt, "tick")
    /\ UNCHANGED <<cvars, threads, buttons, settings, clicks, plain, ending>>

UserActs ==
    /\ unload = "loaded" /\ clicks < MaxClicks
    /\ clicks' = clicks + 1

\* onStartServer with r in the address field.
OnStartServer(w, r) ==
    /\ UserActs /\ "start" \in buttons
    /\ settings' = r
    /\ buttons' = {}
    /\ Spawn(w, "start")
    /\ want' = [want EXCEPT ![w] = r]
    /\ UNCHANGED <<cvars, try, edt, plain, ending>>

OnStopServer(w) ==
    /\ UserActs /\ "stop" \in buttons
    /\ buttons' = {}
    /\ plain' = FALSE
    /\ Spawn(w, "stop")
    /\ UNCHANGED <<cvars, want, try, edt, settings, ending>>

\* onSaveSettings, or the settings panel's commitListenAddr.
SaveAddress(r) ==
    /\ UserActs
    /\ settings' = r /\ plain' = FALSE
    /\ UNCHANGED <<cvars, threads, edt, buttons, ending>>

-----------------------------------------------------------------------------
(* The unload handler.                                                       *)

StartUnderWay(t) ==
    /\ task[t] \in {"auto", "start"}
    /\ ~(Returned(t) /\ reply[t].running)

\* Mutated: the handler does not stop the server.
BeginUnload_noStop ==
    /\ unload = "loaded"
    /\ unload' = "unloaded"
    /\ calm' = \A t \in Callers : ~StartUnderWay(t)
    /\ UNCHANGED <<cvars, threads, ui>>

BeginUnload ==
    /\ unload = "loaded"
    /\ unload' = "unloading"
    /\ calm' = \A t \in Callers : ~StartUnderWay(t)
    /\ NativeCall(Unloader, "stop")
    /\ task' = [task EXCEPT ![Unloader] = "unload"]
    /\ UNCHANGED <<want, try, ui>>

EndUnload ==
    /\ unload = "unloading" /\ Returned(Unloader)
    /\ unload' = "unloaded"
    /\ task' = [task EXCEPT ![Unloader] = "none"]
    /\ UNCHANGED <<cvars, at, want, try, ui, calm>>

WorkerStep(w) ==
    \/ WorkerCall(w) \/ StartDone(w) \/ StopDone(w) \/ RefreshDone(w)

EventStep == ApplyProxyStatus \/ \E w \in Workers : RefreshStatus(w)

User ==
    \/ \E w \in Workers, r \in Requests : OnStartServer(w, r)
    \/ \E w \in Workers : OnStopServer(w)
    \/ \E r \in Requests : SaveAddress(r)

AutoStep == AutoCall \/ AutoStarted \/ AutoFailed

Next ==
    \/ \E t \in Callers : TakesEffect(t)
    \/ AutoStep
    \/ \E w \in Workers : WorkerStep(w)
    \/ EventStep \/ Tick \/ User
    \/ BeginUnload \/ EndUnload

Spec == Init /\ [][Next]_vars

\* Threads run, native calls return (ServerStuck's StopTerminates), the event
\* thread handles its queue and the timer of an attached tab keeps firing.  The
\* user and Burp owe nothing.
FairSpec ==
    /\ Spec
    /\ \A t \in Callers : WF_vars(TakesEffect(t))
    /\ WF_vars(AutoStep)
    /\ \A w \in Workers : WF_vars(WorkerStep(w))
    /\ WF_vars(EventStep)
    /\ WF_vars(Tick)
    /\ WF_vars(EndUnload)

-----------------------------------------------------------------------------
(* Properties.                                                               *)

\* Once no start is under way, the stored address is the one being served,
\* whichever of autostart and the start workers brought it up, on a fallback or
\* on a port the system chose - as long as the user neither stopped the server
\* nor saved another address (TlsPlusExtension.kt:56-70, TlsPlusTab.kt:502-506).
StoredAddressIsServed ==
    (plain /\ unload = "loaded" /\ up # NoAddr
       /\ \A t \in Callers : task[t] \notin {"auto", "start"})
        => settings = up

\* If no start was under way when Burp began to unload the extension, nothing
\* is served once the handler has returned, and nothing brings a server back
\* (TlsPlusExtension.kt:78).
UnloadStopsServer == (unload = "unloaded" /\ calm) => up = NoAddr

\* No background worker stays under way, whatever the server answers: each ends,
\* and leaves the event that enables the buttons again (TlsPlusTab.kt:486-530).
WorkersEnd == \A w \in Workers : task[w] # "none" ~> task[w] = "none"

\* As long as the tab stays loaded, the buttons settle on what the server
\* really does, although status results are applied later than they are read and
\* in any order (TlsPlusTab.kt:615-665).
ButtonsSettle ==
    [](unload = "loaded") =>
        <>[](buttons = IF up = NoAddr THEN {"start"} ELSE {"stop"})

\* Documented (TlsPlusExtension.kt:77): unloading cleans up - no server is left.
UnloadLeavesNoServer ==
    (unload = "unloaded" /\ \A t \in Callers : task[t] = "none") => up = NoAddr
=============================================================================
