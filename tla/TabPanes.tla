------------------------------- MODULE TabPanes -------------------------------
(* The fingerprint pane of the TLS+ tab over the native library: its buttons, *)
(* the background workers, the event dispatch thread that shows what they     *)
(* found (TlsPlusTab.kt), and TlsPlusCore.withNative, which loads the library *)
(* first and turns whatever is thrown into a text.                            *)
EXTENDS NativeLoader, Fingerprint

CONSTANTS Tab,          \* the process whose tab is looked at
          EventThread,  \* its event dispatch thread
          Worker,       \* its background worker; the buttons admit one at a time
          Inputs,       \* hex texts a user may paste
          MaxClicks     \* bound: clicks on the buttons of the pane

ASSUME TabAssumption ==
    /\ EventThread \in Threads /\ Worker \in Threads /\ EventThread # Worker
    /\ ProcOf[EventThread] = Tab /\ ProcOf[Worker] = Tab
    /\ MaxClicks \in Nat

VARIABLES
    job,        \* the computation under way, with its text: Idle when enabled
    posted,     \* what the worker left for the event thread, or Nothing
    output,     \* what the console shows
    clicks

tvars == <<job, posted, output, clicks>>
vars == <<lvars, tvars>>

Nothing == [kind |-> "nothing"]
Info == [kind |-> "info"]
Computing == [kind |-> "computing"]
Failure(why) == [kind |-> "failed", why |-> why]
Idle == Nothing
Jobs == [kind : {"ja3", "ja4"}, input : Inputs]
Answer(j, r) == [kind |-> j.kind, input |-> j.input, result |-> r]
Compute(j) == IF j.kind = "ja3" THEN ComputeJa3(j.input) ELSE ComputeJa4(j.input)
Shown == {Answer(j, Compute(j)) : j \in {i \in Jobs : ~HexThrows(i.input)}}
           \cup {Failure("not loaded"), Failure("bad hex")}

TabTypeOK ==
    /\ LoaderTypeOK
    /\ job \in Jobs \cup {Idle}
    /\ posted \in Shown \cup {Nothing}
    /\ output \in Shown \cup {Info, Computing, Nothing}
    /\ clicks \in 0..MaxClicks

Init == LoaderInit /\ job = Idle /\ posted = Nothing /\ output = Nothing /\ clicks = 0

\* The event thread handles an event to its end before the next.
EventThreadFree == step[EventThread] = "idle"

Click == EventThreadFree /\ clicks < MaxClicks /\ clicks' = clicks + 1

\* onComputeJa3, onComputeJa4: both buttons are disabled, a worker is spawned.
OnCompute(j) ==
    /\ Click /\ job = Idle
    /\ job' = j /\ output' = Computing
    /\ UNCHANGED <<lvars, posted>>

\* The Clear button asks the core for its description on the event thread.
OnClear ==
    /\ Click
    /\ EnsureLoaded(EventThread)
    /\ UNCHANGED <<job, posted, output>>

Described ==
    /\ step[EventThread] \in Ended
    /\ output' = IF step[EventThread] = "linked" THEN Info ELSE Failure("not loaded")
    /\ Goto(EventThread, "idle")
    /\ UNCHANGED <<loaded, mapped, monitor, path, whole, onExit, host, faults, job, posted, clicks>>

WorkerCalls ==
    /\ job # Idle /\ posted = Nothing
    /\ EnsureLoaded(Worker)
    /\ UNCHANGED tvars

\* Mutated: withNative catches exceptions, not errors such as a library that
\* cannot be linked; the worker then only reports and posts no result.
WorkerDone_errorsEscape ==
    /\ step[Worker] = "linked"
    /\ posted' = IF HexThrows(job.input) THEN Failure("bad hex") ELSE Answer(job, Compute(job))
    /\ Goto(Worker, "idle")
    /\ UNCHANGED <<loaded, mapped, monitor, path, whole, onExit, host, faults, job, output, clicks>>

\* Mutated: an odd digit is dropped instead of refused.
WorkerDone_oddHex ==
    /\ step[Worker] \in Ended
    /\ posted' = IF step[Worker] = "failed" THEN Failure("not loaded")
                 ELSE Answer(job, Compute(job))
    /\ Goto(Worker, "idle")
    /\ UNCHANGED <<loaded, mapped, monitor, path, whole, onExit, host, faults, job, output, clicks>>

\* computeJa3ClientHello, computeClientHelloHex.
WorkerDone ==
    /\ step[Worker] \in Ended
    /\ posted' = IF step[Worker] = "failed" THEN Failure("not loaded")
                 ELSE IF HexThrows(job.input) THEN Failure("bad hex")
                 ELSE Answer(job, Compute(job))
    /\ Goto(Worker, "idle")
    /\ UNCHANGED <<loaded, mapped, monitor, path, whole, onExit, host, faults, job, output, clicks>>

\* The event the worker posted: the console and the buttons.
ShowResult ==
    /\ EventThreadFree /\ posted # Nothing
    /\ output' = posted
    /\ posted' = Nothing /\ job' = Idle
    /\ UNCHANGED <<lvars, clicks>>

\* Any other thread: status refreshes, request handlers, other processes.
OtherCall(t) ==
    /\ t \notin {EventThread, Worker}
    /\ \/ EnsureLoaded(t)
       \/ /\ step[t] \in Ended /\ Goto(t, "idle")
          /\ UNCHANGED <<loaded, mapped, monitor, path, whole, onExit, host, faults>>
    /\ UNCHANGED tvars

\* The process of the tab starts with a new tab.
Restarts(p) ==
    /\ Restart(p)
    /\ IF p = Tab THEN job' = Idle /\ posted' = Nothing /\ output' = Nothing ELSE UNCHANGED <<job, posted, output>>
    /\ UNCHANGED clicks

Loading(t) == LoaderStep(t) /\ UNCHANGED tvars
TabStep == Described \/ WorkerCalls \/ WorkerDone \/ ShowResult

Next ==
    \/ \E j \in Jobs : OnCompute(j)
    \/ OnClear \/ TabStep
    \/ \E t \in Threads : Loading(t) \/ OtherCall(t) \/ (Fault(t) /\ UNCHANGED tvars)
    \/ \E p \in Procs : Restarts(p)

Spec == Init /\ [][Next]_vars

\* Threads run, the event thread handles its queue, and the status timer keeps
\* making native calls.  Nobody owes a click.
FairSpec ==
    /\ Spec
    /\ \A t \in Threads : WF_vars(Loading(t)) /\ WF_vars(OtherCall(t))
    /\ WF_vars(Described \/ ShowResult) /\ WF_vars(WorkerCalls \/ WorkerDone)

-----------------------------------------------------------------------------
(* Properties.                                                               *)

\* The buttons of the pane come back after every click: whatever happens to the
\* library, the worker ends with a result or a failure text, and the event
\* thread, which may itself wait for the loader's monitor, shows it
\* (TlsPlusTab.kt:547-571, TlsPlusCore.kt:43-50).
ButtonsComeBack == (job # Idle) ~> (job = Idle)

\* A failed load is not final: once nothing is in its way, a process that keeps
\* making native calls gets the library and keeps it, whatever was left at the
\* shared path (NativeLoader.kt:14-43).
LoadsWhenUnhindered ==
    \A p \in Procs :
        (<>[]Unhindered(p) /\ []<>(\E t \in Threads : ProcOf[t] = p /\ step[t] # "idle"))
            => <>[]loaded[p]

\* Documented (ja4.rs:96, 194): JA3 starts with the TLS version, and the version
\* of a TLS 1.2 hello is the number 0x0303 it carries.
Ja3StartsWithVersion ==
    (output.kind = "ja3" /\ output.result.ok) => output.result.ja3[1] = output.input.sig.wire
=============================================================================
