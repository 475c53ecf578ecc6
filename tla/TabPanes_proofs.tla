---------------------------- MODULE TabPanes_proofs ----------------------------
(* Proofs about TabPanes for any number of processes and threads and any      *)
(* number of faults: typing, the two safety properties of the loader that     *)
(* every native call of every component goes through, that its monitor is     *)
(* always let go of, and that the buttons of the pane come back.              *)
EXTENDS TabPanes, TLAPS

\* Who is inside synchronized holds the monitor, of a process that has not
\* loaded; the flag is only ever set over a mapped library; and whoever was let
\* through saw the flag.
MonitorInv ==
    \A t \in Threads : step[t] \in Inside =>
        monitor[ProcOf[t]] = t /\ ~loaded[ProcOf[t]]
MappedInv ==
    /\ \A p \in Procs : loaded[p] => mapped[p] # NoFile
    /\ \A p \in Procs : monitor[p] = NoThread /\ mapped[p] # NoFile => loaded[p]
    /\ \A t \in Threads : step[t] = "loaded" => mapped[ProcOf[t]] # NoFile
LinkedInv == \A t \in Threads : step[t] = "linked" => loaded[ProcOf[t]]
LoaderInv == LoaderTypeOK /\ MonitorInv /\ MappedInv /\ LinkedInv /\ LoadedOnce

\* The worker is busy for the job the buttons are disabled for.
JobInv == step[Worker] # "idle" => job \in Jobs /\ posted = Nothing

IInv == LoaderInv /\ TabTypeOK /\ JobInv

USE DEF Inside, Ended

\* Initially nothing is loaded and nobody is inside.
LEMMA InitInv == Init => IInv
<1> SUFFICES ASSUME Init PROVE IInv
  OBVIOUS
<1> USE LoaderAssumption, TabAssumption DEF LoaderAssumption, TabAssumption, Init, LoaderInit
<1>1. LoaderTypeOK
  BY DEF LoaderTypeOK
<1>2. MonitorInv /\ MappedInv /\ LinkedInv /\ LoadedOnce
  BY DEF MonitorInv, MappedInv, LinkedInv, LoadedOnce
<1>3. TabTypeOK
  BY <1>1 DEF TabTypeOK, Idle
<1>4. JobInv
  BY DEF JobInv
<1> QED BY <1>1, <1>2, <1>3, <1>4 DEF IInv, LoaderInv

\* A thread takes a step outside the monitor.
LEMMA OutsideStep ==
  ASSUME LoaderInv, NEW t \in Threads, NEW s \in {"idle", "entered", "linked", "failed"},
         step' = [step EXCEPT ![t] = s], s = "linked" => loaded[ProcOf[t]],
         step[t] \notin Inside,
         UNCHANGED <<loaded, mapped, monitor, path, whole, onExit, host, faults>>
  PROVE  LoaderInv'
<1>1. LoaderTypeOK'
  BY DEF LoaderInv, LoaderTypeOK
<1>2. \A u \in Threads : step'[u] = IF u = t THEN s ELSE step[u]
  BY DEF LoaderInv, LoaderTypeOK
<1>3. MonitorInv' /\ MappedInv' /\ LinkedInv' /\ LoadedOnce'
  BY <1>2 DEF LoaderInv, MonitorInv, MappedInv, LinkedInv, LoadedOnce
<1> QED BY <1>1, <1>3 DEF LoaderInv

\* The thread inside takes a step inside that neither maps nor sets the flag.
LEMMA InsideStep ==
  ASSUME LoaderInv, NEW t \in Threads, NEW s \in {"create", "write", "load"},
         step' = [step EXCEPT ![t] = s], step[t] \in {"delete", "create", "write"},
         path' \in Threads \cup {NoFile}, whole' \subseteq Threads, onExit' \subseteq Procs,
         UNCHANGED <<loaded, mapped, monitor, host, faults>>
  PROVE  LoaderInv'
<1>1. LoaderTypeOK'
  BY DEF LoaderInv, LoaderTypeOK
<1>2. \A u \in Threads : step'[u] = IF u = t THEN s ELSE step[u]
  BY DEF LoaderInv, LoaderTypeOK
<1>3. MonitorInv' /\ MappedInv' /\ LinkedInv' /\ LoadedOnce'
  BY <1>2 DEF LoaderInv, MonitorInv, MappedInv, LinkedInv, LoadedOnce
<1> QED BY <1>1, <1>3 DEF LoaderInv

\* A step that throws leaves the monitor; nothing was mapped by then.
LEMMA ThrowStep ==
  ASSUME LoaderInv, NEW t \in Threads, step[t] \in Inside \ {"loaded"}, Throw(t),
         faults' \in 0..MaxFaults
  PROVE  LoaderInv'
<1> USE LoaderAssumption DEF LoaderAssumption
<1>1. /\ step' = [step EXCEPT ![t] = "failed"]
      /\ monitor' = [monitor EXCEPT ![ProcOf[t]] = NoThread]
      /\ UNCHANGED <<loaded, mapped, path, whole, onExit, host>>
  BY DEF Throw, Goto
<1>2. LoaderTypeOK'
  BY <1>1 DEF LoaderInv, LoaderTypeOK
<1>3. \A u \in Threads : step'[u] = IF u = t THEN "failed" ELSE step[u]
  BY <1>1 DEF LoaderInv, LoaderTypeOK
<1>4. \A p \in Procs : monitor'[p] = IF p = ProcOf[t] THEN NoThread ELSE monitor[p]
  BY <1>1 DEF LoaderInv, LoaderTypeOK
<1>5. MonitorInv'
  BY <1>1, <1>3, <1>4 DEF LoaderInv, MonitorInv
<1>6. mapped[ProcOf[t]] = NoFile
  BY DEF LoaderInv, LoadedOnce
<1>7. MappedInv' /\ LinkedInv' /\ LoadedOnce'
  BY <1>1, <1>3, <1>4, <1>6 DEF LoaderInv, MappedInv, LinkedInv, LoadedOnce
<1> QED BY <1>2, <1>5, <1>7 DEF LoaderInv

\* Every step of ensureLoaded inside or at the monitor preserves the invariant.
LEMMA LoadingInv == ASSUME LoaderInv, NEW t \in Threads, LoaderStep(t) PROVE LoaderInv'
<1> USE LoaderAssumption DEF LoaderAssumption
<1> DEFINE p == ProcOf[t]
<1>t. LoaderTypeOK /\ p \in Procs
  BY DEF LoaderInv
<1>1. CASE Enter(t)
  <2>1. CASE loaded[p]
    BY <1>1, <2>1, OutsideStep DEF Enter, Goto
  <2>2. CASE ~loaded[p]
    <3>1. PICK s \in {"delete", "system"} :
            /\ step[t] = "entered" /\ monitor[p] = NoThread
            /\ monitor' = [monitor EXCEPT ![p] = t]
            /\ step' = [step EXCEPT ![t] = s]
            /\ UNCHANGED <<loaded, mapped, path, whole, onExit, host, faults>>
      BY <1>1, <2>2 DEF Enter, Goto
    <3>2. LoaderTypeOK'
      BY <1>t, <3>1 DEF LoaderTypeOK
    <3>3. /\ \A u \in Threads : step'[u] = IF u = t THEN s ELSE step[u]
          /\ \A q \in Procs : monitor'[q] = IF q = p THEN t ELSE monitor[q]
      BY <1>t, <3>1 DEF LoaderTypeOK
    <3>4. mapped[p] = NoFile
      BY <1>t, <2>2, <3>1 DEF LoaderInv, MappedInv
    <3>5. MonitorInv'
      BY <2>2, <3>1, <3>3 DEF LoaderInv, MonitorInv
    <3>6. MappedInv'
      BY <3>1, <3>3, <3>4 DEF LoaderInv, MappedInv
    <3>7. LinkedInv' /\ LoadedOnce'
      BY <3>1, <3>3, <3>4 DEF LoaderInv, LinkedInv, LoadedOnce
    <3> QED BY <3>2, <3>5, <3>6, <3>7 DEF LoaderInv
  <2> QED BY <2>1, <2>2
<1>2. CASE Delete(t) \/ Create(t) \/ Write(t)
  BY <1>2, <1>t, InsideStep DEF Delete, Create, Write, Goto, LoaderTypeOK
<1>3. CASE Load(t) \/ SystemLoad(t)
  <2>1. PICK f \in Threads \cup {Installed} :
          /\ step[t] \in {"load", "system"}
          /\ mapped' = [mapped EXCEPT ![p] = f]
          /\ step' = [step EXCEPT ![t] = "loaded"]
          /\ UNCHANGED <<loaded, monitor, path, whole, onExit, host, faults>>
    BY <1>3, <1>t DEF Load, SystemLoad, Goto, LoaderTypeOK
  <2>2. LoaderTypeOK'
    BY <1>t, <2>1 DEF LoaderTypeOK
  <2>3. /\ \A u \in Threads : step'[u] = IF u = t THEN "loaded" ELSE step[u]
        /\ \A q \in Procs : mapped'[q] = IF q = p THEN f ELSE mapped[q]
        /\ f # NoFile
    BY <1>t, <2>1 DEF LoaderTypeOK
  <2>4. monitor[p] = t /\ t # NoThread
    BY <2>1 DEF LoaderInv, MonitorInv
  <2>5. MonitorInv' /\ MappedInv' /\ LinkedInv'
    BY <2>1, <2>3, <2>4 DEF LoaderInv, MonitorInv, MappedInv, LinkedInv
  <2>6. LoadedOnce'
    <3>1. \A u \in Threads : step[u] \in Inside /\ ProcOf[u] = p => u = t
      BY <2>4 DEF LoaderInv, MonitorInv
    <3> QED BY <2>3, <3>1 DEF LoaderInv, LoadedOnce
  <2> QED BY <2>2, <2>5, <2>6 DEF LoaderInv
<1>4. CASE SetLoaded(t)
  <2>1. /\ step[t] = "loaded"
        /\ loaded' = [loaded EXCEPT ![p] = TRUE]
        /\ monitor' = [monitor EXCEPT ![p] = NoThread]
        /\ step' = [step EXCEPT ![t] = "linked"]
        /\ UNCHANGED <<mapped, path, whole, onExit, host, faults>>
    BY <1>4 DEF SetLoaded, Goto
  <2>2. LoaderTypeOK'
    BY <1>t, <2>1 DEF LoaderTypeOK
  <2>3. /\ \A u \in Threads : step'[u] = IF u = t THEN "linked" ELSE step[u]
        /\ \A q \in Procs : /\ loaded'[q] <=> (q = p \/ loaded[q])
                            /\ monitor'[q] = IF q = p THEN NoThread ELSE monitor[q]
    BY <1>t, <2>1 DEF LoaderTypeOK
  <2>4. \A u \in Threads : step[u] \in Inside /\ ProcOf[u] = p => u = t
    BY <2>1 DEF LoaderInv, MonitorInv
  <2>5. MonitorInv'
    BY <2>3, <2>4 DEF LoaderInv, MonitorInv
  <2>6. MappedInv'
    <3>1. mapped[p] # NoFile
      BY <2>1 DEF LoaderInv, MappedInv
    <3> QED BY <2>1, <2>3, <3>1 DEF LoaderInv, MappedInv
  <2>7. LinkedInv'
    BY <1>t, <2>3 DEF LoaderInv, LinkedInv
  <2>8. LoadedOnce'
    BY <2>1, <2>3 DEF LoaderInv, LoadedOnce
  <2> QED BY <2>2, <2>5, <2>6, <2>7, <2>8 DEF LoaderInv
<1>5. CASE Fails(t)
  <2>1. step[t] \in Inside \ {"loaded"} /\ Throw(t) /\ faults' \in 0..MaxFaults
    BY <1>5, <1>t DEF Fails, Blocked, LoaderTypeOK
  <2> QED BY <2>1, ThrowStep
<1> QED BY <1>1, <1>2, <1>3, <1>4, <1>5 DEF LoaderStep

\* A process that starts again has no thread inside and nothing loaded.
LEMMA RestartInv == ASSUME LoaderInv, NEW p \in Procs, Restart(p) PROVE LoaderInv'
<1> USE LoaderAssumption DEF LoaderAssumption
<1>1. /\ faults < MaxFaults /\ faults' = faults + 1
      /\ loaded' = [loaded EXCEPT ![p] = FALSE]
      /\ mapped' = [mapped EXCEPT ![p] = NoFile]
      /\ monitor' = [monitor EXCEPT ![p] = NoThread]
      /\ step' = [t \in Threads |-> IF ProcOf[t] = p THEN "idle" ELSE step[t]]
      /\ path' \in {path, NoFile} /\ onExit' = onExit \ {p}
      /\ UNCHANGED <<whole, host>>
  BY DEF Restart
<1>2. LoaderTypeOK'
  BY <1>1 DEF LoaderInv, LoaderTypeOK
<1>3. /\ \A q \in Procs : /\ loaded'[q] <=> (q # p /\ loaded[q])
                          /\ mapped'[q] = IF q = p THEN NoFile ELSE mapped[q]
                          /\ monitor'[q] = IF q = p THEN NoThread ELSE monitor[q]
      /\ \A t \in Threads : step'[t] = IF ProcOf[t] = p THEN "idle" ELSE step[t]
  BY <1>1 DEF LoaderInv, LoaderTypeOK
<1>4. \A t \in Threads : step'[t] # "idle" =>
        step'[t] = step[t] /\ ProcOf[t] \in Procs \ {p}
  BY <1>3
<1>5. MonitorInv' /\ LinkedInv' /\ LoadedOnce'
  BY <1>3, <1>4 DEF LoaderInv, MonitorInv, LinkedInv, LoadedOnce
<1>6. MappedInv'
  BY <1>3, <1>4 DEF LoaderInv, MappedInv
<1> QED BY <1>2, <1>5, <1>6 DEF LoaderInv

\* The invariant of the loader survives every step of the composition.
LEMMA LoaderPart == LoaderInv /\ [Next]_vars => LoaderInv'
<1> SUFFICES ASSUME LoaderInv, [Next]_vars PROVE LoaderInv'
  OBVIOUS
<1> USE TabAssumption DEF TabAssumption
<1>1. ASSUME NEW t \in Threads, EnsureLoaded(t) PROVE LoaderInv'
  BY <1>1, OutsideStep DEF EnsureLoaded, Goto
<1>2. ASSUME NEW t \in Threads, step[t] \in Ended, Goto(t, "idle"),
             UNCHANGED <<loaded, mapped, monitor, path, whole, onExit, host, faults>>
      PROVE  LoaderInv'
  BY <1>2, OutsideStep DEF Goto
<1>3. CASE UNCHANGED lvars
  BY <1>3 DEF lvars, LoaderInv, LoaderTypeOK, MonitorInv, MappedInv, LinkedInv, LoadedOnce
<1>4. CASE (\E j \in Jobs : OnCompute(j)) \/ ShowResult \/ UNCHANGED vars
  BY <1>3, <1>4 DEF OnCompute, ShowResult, vars
<1>5. CASE OnClear \/ WorkerCalls
  BY <1>1, <1>5 DEF OnClear, WorkerCalls
<1>6. CASE Described \/ WorkerDone
  BY <1>2, <1>6 DEF Described, WorkerDone
<1>7. ASSUME NEW t \in Threads, Loading(t) \/ OtherCall(t) PROVE LoaderInv'
  BY <1>1, <1>2, <1>7, LoadingInv DEF Loading, OtherCall
<1>8. ASSUME NEW t \in Threads, Fault(t) PROVE LoaderInv'
  <2>1. step[t] \in Inside \ {"loaded"} /\ Throw(t)
    BY <1>8 DEF Fault
  <2>2. faults' \in 0..MaxFaults
    BY <1>8, LoaderAssumption DEF Fault, LoaderAssumption, LoaderInv, LoaderTypeOK
  <2> QED BY <2>1, <2>2, ThrowStep
<1>9. ASSUME NEW p \in Procs, Restarts(p) PROVE LoaderInv'
  BY <1>9, RestartInv DEF Restarts
<1> QED BY <1>4, <1>5, <1>6, <1>7, <1>8, <1>9 DEF Next, TabStep

\* Only its own steps and a restart move the worker.
LEMMA WorkerStill ==
  ASSUME LoaderTypeOK, NEW t \in Threads \ {Worker}, NEW s, step' = [step EXCEPT ![t] = s]
  PROVE  step'[Worker] = step[Worker]
  BY TabAssumption DEF TabAssumption, LoaderTypeOK

\* Steps of the pane keep the types and the worker's job.
LEMMA TabPart == IInv /\ [Next]_vars => TabTypeOK' /\ JobInv'
<1> SUFFICES ASSUME IInv, [Next]_vars PROVE TabTypeOK' /\ JobInv'
  OBVIOUS
<1> USE TabAssumption DEF TabAssumption
<1>l. LoaderTypeOK /\ LoaderTypeOK' /\ TabTypeOK /\ JobInv
  BY LoaderPart DEF IInv, LoaderInv
<1>n. Nothing \notin Jobs /\ Nothing \notin Shown
  BY DEF Nothing, Jobs, Shown, Answer, Failure
<1>1. ASSUME NEW j \in Jobs, OnCompute(j) PROVE TabTypeOK' /\ JobInv'
  <2>1. clicks' \in 0..MaxClicks
    BY <1>1, <1>l DEF OnCompute, Click, TabTypeOK
  <2>2. step[Worker] = "idle"
    BY <1>1, <1>l, <1>n DEF OnCompute, JobInv, Idle
  <2> QED BY <1>1, <1>l, <2>1, <2>2 DEF OnCompute, TabTypeOK, JobInv, lvars
<1>2. CASE OnClear
  <2>1. clicks' \in 0..MaxClicks
    BY <1>2, <1>l DEF OnClear, Click, TabTypeOK
  <2>2. step'[Worker] = step[Worker]
    BY <1>2, <1>l, WorkerStill DEF OnClear, EnsureLoaded, Goto
  <2> QED BY <1>2, <1>l, <2>1, <2>2 DEF OnClear, TabTypeOK, JobInv
<1>3. CASE Described
  <2>1. output' \in {Info, Failure("not loaded")}
    BY <1>3 DEF Described
  <2>2. step'[Worker] = step[Worker]
    BY <1>3, <1>l, WorkerStill DEF Described, Goto
  <2> QED BY <1>3, <1>l, <2>1, <2>2 DEF Described, TabTypeOK, JobInv, Shown
<1>4. CASE WorkerCalls
  <2>1. job \in Jobs /\ posted = Nothing
    BY <1>4, <1>l DEF WorkerCalls, TabTypeOK
  <2> QED BY <1>4, <1>l, <2>1 DEF WorkerCalls, tvars, TabTypeOK, JobInv
<1>5. CASE WorkerDone
  <2>1. job \in Jobs
    BY <1>5, <1>l DEF WorkerDone, JobInv
  <2>2. posted' \in Shown
    BY <1>5, <2>1 DEF WorkerDone, Shown
  <2>3. step'[Worker] = "idle"
    BY <1>5, <1>l DEF WorkerDone, Goto, LoaderTypeOK
  <2> QED BY <1>5, <1>l, <2>2, <2>3 DEF WorkerDone, TabTypeOK, JobInv
<1>6. CASE ShowResult
  <2>1. step[Worker] = "idle" /\ posted \in Shown
    BY <1>6, <1>l DEF ShowResult, JobInv, TabTypeOK
  <2> QED BY <1>6, <1>l, <2>1 DEF ShowResult, TabTypeOK, JobInv, lvars
<1>7. ASSUME NEW t \in Threads, Loading(t) \/ OtherCall(t) \/ (Fault(t) /\ UNCHANGED tvars)
      PROVE  TabTypeOK' /\ JobInv'
  <2>1. UNCHANGED tvars
    BY <1>7 DEF Loading, OtherCall
  <2>2. PICK s : step' = [step EXCEPT ![t] = s] \/ step' = step
    BY <1>7 DEF Loading, OtherCall, Fault, LoaderStep, Enter, Delete, Create, Write, Load,
       SystemLoad, SetLoaded, Fails, Throw, EnsureLoaded, Goto
  <2>3. step[Worker] = "idle" => step'[Worker] = "idle"
    <3>1. CASE t = Worker
      BY <1>7, <3>1 DEF Loading, OtherCall, Fault, LoaderStep, Enter, Delete, Create, Write,
         Load, SystemLoad, SetLoaded, Fails, Blocked
    <3>2. CASE t # Worker
      BY <1>l, <2>2, <3>2, WorkerStill
    <3> QED BY <3>1, <3>2
  <2> QED BY <1>l, <2>1, <2>3 DEF TabTypeOK, JobInv, tvars
<1>8. ASSUME NEW p \in Procs, Restarts(p) PROVE TabTypeOK' /\ JobInv'
  <2>1. step' = [t \in Threads |-> IF ProcOf[t] = p THEN "idle" ELSE step[t]]
    BY <1>8 DEF Restarts, Restart
  <2>2. step'[Worker] = IF p = Tab THEN "idle" ELSE step[Worker]
    BY <2>1
  <2> QED BY <1>8, <1>l, <2>2 DEF Restarts, TabTypeOK, JobInv, Idle
<1>9. CASE UNCHANGED vars
  BY <1>9, <1>l DEF vars, tvars, lvars, TabTypeOK, JobInv
<1> QED BY <1>1, <1>2, <1>3, <1>4, <1>5, <1>6, <1>7, <1>8, <1>9 DEF Next, TabStep

\* The invariant holds in every reachable state.
LEMMA Invariance == Spec => []IInv
<1>1. IInv /\ [Next]_vars => IInv'
  BY LoaderPart, TabPart DEF IInv
<1> QED BY InitInv, <1>1, PTL DEF Spec

\* Every variable keeps its type.
THEOREM TypeCorrect == Spec => []TabTypeOK
<1>1. IInv => TabTypeOK
  BY DEF IInv
<1> QED BY Invariance, <1>1, PTL

\* No thread of a process that has mapped the library extracts it again.
THEOREM LoadsOnce == Spec => []LoadedOnce
<1>1. IInv => LoadedOnce
  BY DEF IInv, LoaderInv
<1> QED BY Invariance, <1>1, PTL

\* Native calls go ahead only where the library is mapped.
THEOREM Linked == Spec => []CallsAreLinked
<1>1. IInv => CallsAreLinked
  BY LoaderAssumption DEF IInv, LoaderInv, LinkedInv, MappedInv, CallsAreLinked, LoaderAssumption
<1> QED BY Invariance, <1>1, PTL

-----------------------------------------------------------------------------
(* The monitor: always held by someone inside, and never for ever.           *)

\* What a step of one thread does to the places of the others.
LEMMA OneMoves ==
  ASSUME LoaderTypeOK, NEW t \in Threads, NEW s, Goto(t, s)
  PROVE  \A u \in Threads : step'[u] = IF u = t THEN s ELSE step[u]
  BY DEF Goto, LoaderTypeOK

\* Steps of threads outside leave the monitors, and who is inside, alone.
LEMMA HeldOutside ==
  ASSUME LoaderTypeOK, MonitorIsHeld, NEW t \in Threads, NEW s, Goto(t, s), step[t] \notin Inside,
         UNCHANGED monitor
  PROVE  MonitorIsHeld'
  BY OneMoves DEF MonitorIsHeld, LoaderTypeOK

\* Nobody leaves with the monitor of its process.
LEMMA HeldStep == LoaderInv /\ MonitorIsHeld /\ [Next]_vars => MonitorIsHeld'
<1> SUFFICES ASSUME LoaderInv, MonitorIsHeld, [Next]_vars PROVE MonitorIsHeld'
  OBVIOUS
<1> USE LoaderAssumption, TabAssumption DEF LoaderAssumption, TabAssumption
<1>t. LoaderTypeOK
  BY DEF LoaderInv
<1>1. ASSUME NEW t \in Threads, LoaderStep(t) PROVE MonitorIsHeld'
  <2> DEFINE p == ProcOf[t]
  <2>1. CASE Enter(t)
    <3>1. CASE loaded[p]
      BY <1>t, <2>1, <3>1, HeldOutside DEF Enter
    <3>2. CASE ~loaded[p]
      <4>1. PICK s \in {"delete", "system"} : Goto(t, s) /\ monitor' = [monitor EXCEPT ![p] = t]
        BY <2>1, <3>2 DEF Enter
      <4>2. \A u \in Threads : step'[u] = IF u = t THEN s ELSE step[u]
        BY <1>t, <4>1, OneMoves
      <4> QED BY <1>t, <4>1, <4>2 DEF MonitorIsHeld, LoaderTypeOK
    <3> QED BY <3>1, <3>2
  <2>2. ASSUME NEW s \in {"create", "write", "load", "loaded"}, Goto(t, s), UNCHANGED monitor
        PROVE  MonitorIsHeld'
    <3>1. \A u \in Threads : step'[u] = IF u = t THEN s ELSE step[u]
      BY <1>t, <2>2, OneMoves
    <3> QED BY <1>t, <2>2, <3>1 DEF MonitorIsHeld, LoaderTypeOK
  <2>3. ASSUME NEW s \in Ended, Goto(t, s), monitor' = [monitor EXCEPT ![p] = NoThread],
               step[t] \in Inside
        PROVE  MonitorIsHeld'
    <3>1. \A u \in Threads : step'[u] = IF u = t THEN s ELSE step[u]
      BY <1>t, <2>3, OneMoves
    <3>2. \A q \in Procs : monitor'[q] = IF q = p THEN NoThread ELSE monitor[q]
      BY <1>t, <2>3 DEF LoaderTypeOK
    <3>3. \A q \in Procs \ {p} : monitor[q] # t
      BY DEF MonitorIsHeld
    <3> QED BY <1>t, <3>1, <3>2, <3>3 DEF MonitorIsHeld, LoaderTypeOK
  <2>4. CASE Delete(t) \/ Create(t) \/ Write(t) \/ Load(t) \/ SystemLoad(t)
    BY <2>2, <2>4 DEF Delete, Create, Write, Load, SystemLoad
  <2>5. CASE SetLoaded(t) \/ Fails(t)
    BY <2>3, <2>5 DEF SetLoaded, Fails, Blocked, Throw
  <2> QED BY <1>1, <2>1, <2>4, <2>5 DEF LoaderStep
<1>2. ASSUME NEW t \in Threads, Fault(t) PROVE MonitorIsHeld'
  <2>1. /\ Goto(t, "failed") /\ monitor' = [monitor EXCEPT ![ProcOf[t]] = NoThread]
    BY <1>2 DEF Fault, Throw
  <2>2. \A u \in Threads : step'[u] = IF u = t THEN "failed" ELSE step[u]
    BY <1>t, <2>1, OneMoves
  <2>3. \A q \in Procs : monitor'[q] = IF q = ProcOf[t] THEN NoThread ELSE monitor[q]
    BY <1>t, <2>1 DEF LoaderTypeOK
  <2>4. \A q \in Procs \ {ProcOf[t]} : monitor[q] # t
    BY DEF MonitorIsHeld
  <2> QED BY <1>t, <2>2, <2>3, <2>4 DEF MonitorIsHeld, LoaderTypeOK
<1>3. ASSUME NEW t \in Threads, EnsureLoaded(t) PROVE MonitorIsHeld'
  BY <1>t, <1>3, HeldOutside DEF EnsureLoaded
<1>4. ASSUME NEW t \in Threads, step[t] \in Ended, Goto(t, "idle"), UNCHANGED monitor
      PROVE  MonitorIsHeld'
  BY <1>t, <1>4, HeldOutside
<1>5. CASE OnClear \/ WorkerCalls
  BY <1>3, <1>5 DEF OnClear, WorkerCalls
<1>6. CASE Described \/ WorkerDone
  BY <1>4, <1>6 DEF Described, WorkerDone
<1>7. CASE (\E j \in Jobs : OnCompute(j)) \/ ShowResult \/ UNCHANGED vars
  BY <1>7 DEF OnCompute, ShowResult, vars, lvars, MonitorIsHeld
<1>8. ASSUME NEW t \in Threads, OtherCall(t) PROVE MonitorIsHeld'
  BY <1>3, <1>4, <1>8 DEF OtherCall
<1>9. ASSUME NEW p \in Procs, Restarts(p) PROVE MonitorIsHeld'
  <2>1. /\ monitor' = [monitor EXCEPT ![p] = NoThread]
        /\ step' = [t \in Threads |-> IF ProcOf[t] = p THEN "idle" ELSE step[t]]
    BY <1>9 DEF Restarts, Restart
  <2>2. \A q \in Procs : monitor'[q] = IF q = p THEN NoThread ELSE monitor[q]
    BY <1>t, <2>1 DEF LoaderTypeOK
  <2> QED BY <1>t, <2>1, <2>2 DEF MonitorIsHeld, LoaderTypeOK
<1> QED BY <1>1, <1>2, <1>5, <1>6, <1>7, <1>8, <1>9 DEF Next, TabStep, Loading

\* Whatever fails on the way in, no thread leaves the monitor of its process taken.
THEOREM Held == Spec => []MonitorIsHeld
<1>1. Init => MonitorIsHeld
  BY DEF Init, LoaderInit, MonitorIsHeld
<1>2. IInv => LoaderInv
  BY DEF IInv
<1> QED BY Invariance, <1>1, <1>2, HeldStep, PTL DEF Spec

\* A thread that waits for the loader waits for one that is inside, which waits
\* for nobody: not for another process either, although they share the file.
THEOREM Unstuck == Spec => []NobodyStuck
<1>1. IInv /\ MonitorIsHeld => NobodyStuck
  BY LoaderAssumption DEF IInv, LoaderInv, LoaderTypeOK, MonitorIsHeld, NobodyStuck, LoaderReady,
     LoaderAssumption
<1> QED BY Invariance, Held, <1>1, PTL

\* The places inside the monitor in the order a thread passes them.
Onward(a, b) ==
    \/ b \in {"linked", "failed", "idle"}
    \/ a = "delete" /\ b = "create"
    \/ a = "create" /\ b = "write"
    \/ a = "write" /\ b = "load"
    \/ a \in {"load", "system"} /\ b = "loaded"

\* A thread inside is moved only by its own step, the machine or the end of its
\* process, and then onward.
LEMMA OnwardStep ==
  ASSUME LoaderTypeOK, NEW t \in Threads, step[t] \in Inside, [Next]_vars
  PROVE  /\ step'[t] = step[t] \/ Onward(step[t], step'[t])
         /\ Loading(t) => Onward(step[t], step'[t])
<1> USE TabAssumption DEF TabAssumption
<1>1. ASSUME NEW u \in Threads, LoaderStep(u)
      PROVE  IF u = t THEN Onward(step[t], step'[t]) ELSE step'[t] = step[t]
  <2>1. PICK s : Goto(u, s) /\ (step[u] \in Inside => Onward(step[u], s))
    BY <1>1 DEF LoaderStep, Enter, Delete, Create, Write, Load, SystemLoad, SetLoaded, Fails,
       Blocked, Throw, Onward
  <2> QED BY <2>1, OneMoves
<1>2. CASE step' = step
  <2>1. ~Loading(t)
    BY <1>1, <1>2 DEF Loading, Onward
  <2> QED BY <1>2, <2>1
<1>3. ASSUME NEW u \in Threads \ {t}, NEW s, Goto(u, s) PROVE step'[t] = step[t]
  BY <1>3, OneMoves
<1>4. ASSUME NEW u \in Threads, EnsureLoaded(u) \/ (step[u] \in Ended /\ Goto(u, "idle"))
      PROVE  step'[t] = step[t]
  BY <1>3, <1>4 DEF EnsureLoaded
<1>5. CASE OnClear \/ WorkerCalls \/ Described \/ WorkerDone
  BY <1>4, <1>5, <1>1 DEF OnClear, WorkerCalls, Described, WorkerDone, Loading, Onward
<1>6. CASE (\E j \in Jobs : OnCompute(j)) \/ ShowResult \/ UNCHANGED vars
  BY <1>2, <1>6 DEF OnCompute, ShowResult, vars, lvars
<1>7. ASSUME NEW u \in Threads, OtherCall(u) PROVE step'[t] = step[t]
  BY <1>4, <1>7 DEF OtherCall
<1>8. ASSUME NEW u \in Threads, Fault(u) PROVE IF u = t THEN step'[t] = "failed" ELSE step'[t] = step[t]
  BY <1>8, OneMoves DEF Fault, Throw
<1>9. ASSUME NEW p \in Procs, Restarts(p) PROVE step'[t] = step[t] \/ step'[t] = "idle"
  BY <1>9 DEF Restarts, Restart
<1>10. Loading(t) => Onward(step[t], step'[t])
  BY <1>1 DEF Loading
<1>11. CASE \E u \in Threads : Loading(u) \/ OtherCall(u) \/ (Fault(u) /\ UNCHANGED tvars)
  BY <1>1, <1>7, <1>8, <1>11 DEF Loading, Onward
<1>12. CASE \E p \in Procs : Restarts(p)
  BY <1>9, <1>10, <1>12 DEF Onward
<1> QED BY <1>5, <1>6, <1>10, <1>11, <1>12, <1>2 DEF Next, TabStep

\* Thread t keeps running while the loader lets it: the fairness of Loading(t), with
\* its guard spelled out.
LoaderRuns(t) == []<>~LoaderReady(t) \/ []<><<Loading(t)>>_vars

\* One thread that is inside leaves.
LEMMA Leaves ==
  ASSUME NEW t \in Threads
  PROVE  Spec /\ LoaderRuns(t) => (step[t] \in Inside ~> step[t] \notin Inside)
<1> DEFINE At(s) == step[t] = s
           Out == step[t] \notin Inside
<1> USE DEF Onward
<1>1. /\ IInv => LoaderTypeOK
      /\ step[t] \in Inside => LoaderReady(t)
      /\ Out \/ At("delete") \/ At("create") \/ At("write") \/ At("load") \/ At("system") \/ At("loaded")
      /\ At("delete") \/ At("create") \/ At("write") \/ At("load") \/ At("system") \/ At("loaded")
           => step[t] \in Inside
  BY DEF IInv, LoaderInv, LoaderReady
<1>2. IInv /\ [Next]_vars /\ At("delete") => At("delete")' \/ At("create")' \/ Out'
  BY OnwardStep, <1>1
<1>3. IInv /\ [Next]_vars /\ <<Loading(t)>>_vars /\ At("delete") => At("create")' \/ Out'
  BY OnwardStep, <1>1
<1>4. IInv /\ [Next]_vars /\ At("create") => At("create")' \/ At("write")' \/ Out'
  BY OnwardStep, <1>1
<1>5. IInv /\ [Next]_vars /\ <<Loading(t)>>_vars /\ At("create") => At("write")' \/ Out'
  BY OnwardStep, <1>1
<1>6. IInv /\ [Next]_vars /\ At("write") => At("write")' \/ At("load")' \/ Out'
  BY OnwardStep, <1>1
<1>7. IInv /\ [Next]_vars /\ <<Loading(t)>>_vars /\ At("write") => At("load")' \/ Out'
  BY OnwardStep, <1>1
<1>8. IInv /\ [Next]_vars /\ At("load") => At("load")' \/ At("loaded")' \/ Out'
  BY OnwardStep, <1>1
<1>9. IInv /\ [Next]_vars /\ <<Loading(t)>>_vars /\ At("load") => At("loaded")' \/ Out'
  BY OnwardStep, <1>1
<1>10. IInv /\ [Next]_vars /\ At("system") => At("system")' \/ At("loaded")' \/ Out'
  BY OnwardStep, <1>1
<1>11. IInv /\ [Next]_vars /\ <<Loading(t)>>_vars /\ At("system") => At("loaded")' \/ Out'
  BY OnwardStep, <1>1
<1>12. IInv /\ [Next]_vars /\ At("loaded") => At("loaded")' \/ Out'
  BY OnwardStep, <1>1
<1>13. IInv /\ [Next]_vars /\ <<Loading(t)>>_vars /\ At("loaded") => Out'
  BY OnwardStep, <1>1
<1> HIDE DEF At, Out, Onward, Inside
<1>14. Out <=> step[t] \notin Inside
  BY DEF Out
<1> QED BY Invariance, <1>1, <1>2, <1>3, <1>4, <1>5, <1>6, <1>7, <1>8, <1>9, <1>10, <1>11, <1>12,
        <1>13, <1>14, PTL DEF Spec, LoaderRuns

\* However many threads of however many processes copy over one another, none stays
\* inside the monitor: all it takes is that each runs while it can.
THEOREM LetsGo == Spec /\ (\A t \in Threads : LoaderRuns(t)) => MonitorLetGo
BY Leaves DEF MonitorLetGo

-----------------------------------------------------------------------------
(* The buttons come back, with any number of threads in the tab's process.   *)

\* The monitor of the tab's process passes from hand to hand only by being free.
LEMMA MonitorStays ==
  ASSUME LoaderTypeOK, [Next]_vars, monitor[Tab] # NoThread
  PROVE  monitor'[Tab] \in {monitor[Tab], NoThread}
<1> USE LoaderAssumption, TabAssumption DEF LoaderAssumption, TabAssumption
<1>1. ASSUME NEW t \in Threads, LoaderStep(t) PROVE monitor'[Tab] \in {monitor[Tab], NoThread}
  <2>1. \/ monitor' = monitor \/ monitor' = [monitor EXCEPT ![ProcOf[t]] = NoThread]
        \/ monitor[ProcOf[t]] = NoThread /\ monitor' = [monitor EXCEPT ![ProcOf[t]] = t]
    BY <1>1 DEF LoaderStep, Enter, Delete, Create, Write, Load, SystemLoad, SetLoaded, Fails, Throw
  <2> QED BY <2>1 DEF LoaderTypeOK
<1>2. ASSUME NEW t \in Threads, Fault(t) PROVE monitor'[Tab] \in {monitor[Tab], NoThread}
  BY <1>2 DEF Fault, Throw, LoaderTypeOK
<1>3. ASSUME NEW t \in Threads, EnsureLoaded(t) \/ OtherCall(t) PROVE monitor' = monitor
  BY <1>3 DEF EnsureLoaded, OtherCall
<1>4. CASE OnClear \/ TabStep
  BY <1>3, <1>4 DEF OnClear, TabStep, WorkerCalls, Described, WorkerDone, ShowResult, lvars
<1>5. ASSUME NEW p \in Procs, Restarts(p) PROVE monitor'[Tab] \in {monitor[Tab], NoThread}
  BY <1>5 DEF Restarts, Restart, LoaderTypeOK
<1>6. CASE (\E j \in Jobs : OnCompute(j)) \/ UNCHANGED vars
  BY <1>6 DEF OnCompute, vars, lvars
<1> QED BY <1>1, <1>2, <1>3, <1>4, <1>5, <1>6 DEF Next, Loading

\* Where the thread is that holds it.
HolderAt(s) == monitor[Tab] # NoThread /\ step[monitor[Tab]] = s
RunsHolder == \E t \in Threads : monitor[Tab] = t /\ Loading(t)

\* The holder goes onward until it lets go.
LEMMA HolderStep ==
  ASSUME IInv, MonitorIsHeld, [Next]_vars, NEW s, HolderAt(s)
  PROVE  /\ s \in Inside
         /\ \/ monitor'[Tab] = NoThread
            \/ \E r \in Inside : HolderAt(r)' /\ (r = s \/ Onward(s, r)) /\ (RunsHolder => Onward(s, r))
<1> DEFINE m == monitor[Tab]
<1> USE LoaderAssumption, TabAssumption DEF LoaderAssumption, TabAssumption
<1>1. LoaderInv /\ LoaderTypeOK /\ MonitorIsHeld'
  BY HeldStep DEF IInv, LoaderInv
<1>2. m \in Threads /\ step[m] = s /\ s \in Inside
  BY <1>1 DEF HolderAt, MonitorIsHeld, LoaderTypeOK
<1>3. CASE monitor'[Tab] # NoThread
  <2>1. monitor'[Tab] = m
    BY <1>1, <1>2, <1>3, MonitorStays
  <2>2. step'[m] \in Inside
    BY <1>3, <2>1, <1>1 DEF MonitorIsHeld
  <2>3. step'[m] = s \/ Onward(s, step'[m])
    BY <1>1, <1>2, OnwardStep
  <2>4. RunsHolder => Onward(s, step'[m])
    BY <1>1, <1>2, OnwardStep DEF RunsHolder
  <2> QED BY <1>2, <2>1, <2>2, <2>3, <2>4, <1>3 DEF HolderAt
<1> QED BY <1>2, <1>3

\* The thread inside the monitor runs while there is one.
HolderRuns == []<>(monitor[Tab] = NoThread) \/ []<><<RunsHolder>>_vars

\* The monitor is free again and again, however many threads follow one another.
LEMMA MonitorFrees == Spec /\ HolderRuns => []<>(monitor[Tab] = NoThread)
<1> DEFINE Free == monitor[Tab] = NoThread
           At(s) == HolderAt(s)
<1> USE DEF Onward
<1>0. IInv /\ MonitorIsHeld =>
        Free \/ At("delete") \/ At("create") \/ At("write") \/ At("load") \/ At("system") \/ At("loaded")
  BY TabAssumption, LoaderAssumption DEF MonitorIsHeld, HolderAt, TabAssumption, LoaderAssumption
<1>1. IInv /\ MonitorIsHeld /\ [Next]_vars /\ At("delete") => At("delete")' \/ At("create")' \/ Free'
  BY HolderStep
<1>2. IInv /\ MonitorIsHeld /\ [Next]_vars /\ <<RunsHolder>>_vars /\ At("delete") => At("create")' \/ Free'
  BY HolderStep
<1>3. IInv /\ MonitorIsHeld /\ [Next]_vars /\ At("create") => At("create")' \/ At("write")' \/ Free'
  BY HolderStep
<1>4. IInv /\ MonitorIsHeld /\ [Next]_vars /\ <<RunsHolder>>_vars /\ At("create") => At("write")' \/ Free'
  BY HolderStep
<1>5. IInv /\ MonitorIsHeld /\ [Next]_vars /\ At("write") => At("write")' \/ At("load")' \/ Free'
  BY HolderStep
<1>6. IInv /\ MonitorIsHeld /\ [Next]_vars /\ <<RunsHolder>>_vars /\ At("write") => At("load")' \/ Free'
  BY HolderStep
<1>7. IInv /\ MonitorIsHeld /\ [Next]_vars /\ At("load") => At("load")' \/ At("loaded")' \/ Free'
  BY HolderStep
<1>8. IInv /\ MonitorIsHeld /\ [Next]_vars /\ <<RunsHolder>>_vars /\ At("load") => At("loaded")' \/ Free'
  BY HolderStep
<1>9. IInv /\ MonitorIsHeld /\ [Next]_vars /\ At("system") => At("system")' \/ At("loaded")' \/ Free'
  BY HolderStep
<1>10. IInv /\ MonitorIsHeld /\ [Next]_vars /\ <<RunsHolder>>_vars /\ At("system") => At("loaded")' \/ Free'
  BY HolderStep
<1>11. IInv /\ MonitorIsHeld /\ [Next]_vars /\ At("loaded") => At("loaded")' \/ Free'
  BY HolderStep
<1>12. IInv /\ MonitorIsHeld /\ [Next]_vars /\ <<RunsHolder>>_vars /\ At("loaded") => Free'
  BY HolderStep
<1>13. Free <=> monitor[Tab] = NoThread
  OBVIOUS
<1> HIDE DEF At, Free, Onward, Inside
<1> QED BY Invariance, Held, <1>0, <1>1, <1>2, <1>3, <1>4, <1>5, <1>6, <1>7, <1>8, <1>9, <1>10,
        <1>11, <1>12, <1>13, PTL DEF Spec, HolderRuns

\* A thread that finds the monitor free again and again gets in: monitors do not
\* pass a thread over for ever.
Admitted(t) ==
    <>[]~(step[t] = "entered" /\ monitor[Tab] = NoThread) \/ []<><<Loading(t)>>_vars

\* A thread of the tab that calls the loader comes out of it.
InLoader(t) == step[t] \in {"entered"} \cup Inside
Emerges(t) == InLoader(t) ~> ~InLoader(t)
LEMMA GetsThrough ==
  ASSUME NEW t \in {EventThread, Worker}
  PROVE  Spec /\ HolderRuns /\ Admitted(t) /\ LoaderRuns(t) => Emerges(t)
<1> DEFINE Waits == step[t] = "entered"
           In == step[t] \in Inside
<1> USE TabAssumption DEF TabAssumption
<1>1. t \in Threads
  OBVIOUS
<1>2. InLoader(t) <=> Waits \/ In
  BY DEF InLoader
<1>3. IInv /\ [Next]_vars /\ In => In' \/ (~InLoader(t))'
  <2> SUFFICES ASSUME IInv, [Next]_vars, In PROVE In' \/ ~InLoader(t)'
    OBVIOUS
  <2>1. step'[t] = step[t] \/ Onward(step[t], step'[t])
    BY <1>1, OnwardStep DEF IInv, LoaderInv
  <2> QED BY <2>1 DEF Onward, InLoader
<1>4. IInv /\ [Next]_vars /\ <<Loading(t)>>_vars /\ Waits => ~Waits'
  <2> SUFFICES ASSUME IInv, Loading(t), Waits PROVE step'[t] # "entered"
    OBVIOUS
  <2> QED BY <1>1 DEF IInv, LoaderInv, LoaderTypeOK, Loading, LoaderStep, Enter, Delete, Create,
            Write, Load, SystemLoad, SetLoaded, Fails, Blocked, Throw, Goto
<1>5. Spec /\ LoaderRuns(t) => (In ~> step[t] \notin Inside)
  BY <1>1, Leaves
<1>6. In <=> ~(step[t] \notin Inside)
  OBVIOUS
<1>7. Admitted(t) => <>[]~(Waits /\ monitor[Tab] = NoThread) \/ []<><<Loading(t)>>_vars
  BY PTL DEF Admitted
<1> HIDE DEF Waits, In, Inside
<1> QED BY <1>2, <1>3, <1>4, <1>5, <1>6, <1>7, Invariance, MonitorFrees, PTL DEF Spec, Emerges

\* The computation under way: before the worker's call, in the loader, after it, and
\* when the result waits for the event thread.
Due(where) == ~(job = Idle) /\ posted = Nothing /\ step[Worker] \in where
Posted == ~(job = Idle) /\ ~(posted = Nothing)

\* While a computation is under way, only the worker's own steps move it.
LEMMA WorkerMoves ==
  ASSUME IInv, [Next]_vars, ~(job = Idle), ~(job' = Idle)
  PROVE  \/ WorkerDone
         \/ posted' = posted /\ \/ step'[Worker] = step[Worker] \/ WorkerCalls
                                \/ /\ step[Worker] \in {"entered"} \cup Inside
                                   /\ step'[Worker] \in Inside \cup Ended
<1> USE TabAssumption DEF TabAssumption
<1>t. LoaderTypeOK
  BY DEF IInv, LoaderInv
<1>1. ASSUME NEW t \in Threads \ {Worker}, NEW s, Goto(t, s) PROVE step'[Worker] = step[Worker]
  BY <1>1, <1>t, OneMoves
<1>2. ASSUME NEW t \in Threads, EnsureLoaded(t) \/ OtherCall(t), t # Worker
      PROVE  step'[Worker] = step[Worker]
  BY <1>1, <1>2 DEF EnsureLoaded, OtherCall
<1>3. ASSUME NEW t \in Threads, Loading(t) \/ (Fault(t) /\ UNCHANGED tvars), t # Worker
      PROVE  posted' = posted /\ step'[Worker] = step[Worker]
  BY <1>1, <1>3 DEF Loading, LoaderStep, Enter, Delete, Create, Write, Load, SystemLoad, SetLoaded,
     Fails, Fault, Throw, tvars
<1>4. CASE Loading(Worker) \/ (Fault(Worker) /\ UNCHANGED tvars)
  <2>1. posted' = posted /\ step[Worker] \in {"entered"} \cup Inside
    BY <1>4 DEF Loading, LoaderStep, Enter, Delete, Create, Write, Load, SystemLoad, SetLoaded,
       Fails, Blocked, Fault, tvars
  <2>2. PICK s \in Inside \cup Ended : Goto(Worker, s)
    BY <1>4 DEF Loading, LoaderStep, Enter, Delete, Create, Write, Load, SystemLoad, SetLoaded,
       Fails, Fault, Throw
  <2>3. step'[Worker] = s
    BY <1>t, <2>2, OneMoves
  <2> QED BY <2>1, <2>3
<1>5. ASSUME NEW t \in Threads, OtherCall(t) PROVE posted' = posted /\ t # Worker
  BY <1>5 DEF OtherCall, tvars
<1>6. ASSUME NEW p \in Procs, Restarts(p)
      PROVE  posted' = posted /\ step'[Worker] = step[Worker]
  BY <1>6, <1>t DEF Restarts, Restart, LoaderTypeOK
<1>7. ASSUME NEW j \in Jobs, OnCompute(j) PROVE FALSE
  BY <1>7 DEF OnCompute
<1>8. CASE OnClear \/ Described \/ ShowResult
  <2>1. ~ShowResult
    BY DEF ShowResult
  <2> QED BY <1>1, <1>2, <1>8, <2>1 DEF OnClear, Described
<1>9. CASE WorkerCalls
  BY <1>9 DEF WorkerCalls, tvars
<1>10. CASE UNCHANGED vars
  BY <1>10 DEF vars, lvars, tvars
<1>11. CASE \E t \in Threads : Loading(t) \/ OtherCall(t) \/ (Fault(t) /\ UNCHANGED tvars)
  BY <1>2, <1>3, <1>4, <1>5, <1>11
<1> QED BY <1>6, <1>7, <1>8, <1>9, <1>10, <1>11 DEF Next, TabStep

\* The event thread comes back to its queue.
EventPolled == []<>~(step[EventThread] \in Ended) \/ []<><<Described>>_vars
LEMMA EventMoves ==
  ASSUME IInv, [Next]_vars, step[EventThread] \in Ended
  PROVE  /\ step'[EventThread] \in Ended \cup {"idle"}
         /\ Described => step'[EventThread] = "idle"
<1> DEFINE e == EventThread
<1> USE TabAssumption DEF TabAssumption
<1>t. LoaderTypeOK
  BY DEF IInv, LoaderInv
<1>1. ASSUME NEW t \in Threads \ {e}, NEW s, Goto(t, s) PROVE step'[e] = step[e]
  BY <1>1, <1>t, OneMoves
<1>2. Described => step'[e] = "idle"
  BY <1>t, OneMoves DEF Described
<1>3. ASSUME NEW t \in Threads, EnsureLoaded(t) PROVE step'[e] = step[e]
  BY <1>1, <1>3 DEF EnsureLoaded
<1>4. ASSUME NEW t \in Threads, LoaderStep(t) \/ Fault(t) PROVE step'[e] = step[e]
  <2>1. step[t] \notin Ended
    BY <1>4 DEF LoaderStep, Enter, Delete, Create, Write, Load, SystemLoad, SetLoaded, Fails,
       Blocked, Fault
  <2>2. PICK s : Goto(t, s)
    BY <1>4 DEF LoaderStep, Enter, Delete, Create, Write, Load, SystemLoad, SetLoaded, Fails,
       Fault, Throw
  <2> QED BY <1>1, <2>1, <2>2
<1>5. ASSUME NEW t \in Threads, OtherCall(t) PROVE step'[e] = step[e]
  <2>1. t # e /\ (EnsureLoaded(t) \/ Goto(t, "idle"))
    BY <1>5 DEF OtherCall
  <2> QED BY <1>1, <1>3, <2>1
<1>6. CASE WorkerDone
  BY <1>1, <1>2, <1>6 DEF WorkerDone
<1>7. ASSUME NEW p \in Procs, Restarts(p) PROVE step'[e] \in {step[e], "idle"}
  BY <1>7, <1>t DEF Restarts, Restart, LoaderTypeOK
<1>8. CASE (\E j \in Jobs : OnCompute(j)) \/ ShowResult \/ OnClear \/ WorkerCalls \/ UNCHANGED vars
  BY <1>2, <1>3, <1>8 DEF OnCompute, ShowResult, OnClear, WorkerCalls, vars, lvars
<1> QED BY <1>2, <1>3, <1>4, <1>5, <1>6, <1>7, <1>8 DEF Next, TabStep, Loading

\* It is idle again and again.
LEMMA EventFrees ==
  Spec /\ HolderRuns /\ Admitted(EventThread) /\ LoaderRuns(EventThread) /\ EventPolled
    => []<>(step[EventThread] = "idle")
<1> DEFINE Idles == step[EventThread] = "idle"
           Over == step[EventThread] \in Ended
<1>1. IInv => Idles \/ Over \/ InLoader(EventThread)
  BY TabAssumption DEF IInv, LoaderInv, LoaderTypeOK, InLoader, TabAssumption
<1>2. IInv /\ [Next]_vars /\ Over => Over' \/ Idles'
  BY EventMoves
<1>3. IInv /\ [Next]_vars /\ <<Described>>_vars /\ Over => Idles'
  BY EventMoves
<1>4. Spec /\ HolderRuns /\ Admitted(EventThread) /\ LoaderRuns(EventThread)
        => Emerges(EventThread)
  BY GetsThrough
<1>5. EventPolled <=> []<>~Over \/ []<><<Described>>_vars
  BY PTL DEF EventPolled
<1>6. Idles <=> step[EventThread] = "idle"
  OBVIOUS
<1> HIDE DEF Idles, Over
<1> QED BY <1>1, <1>2, <1>3, <1>4, <1>5, <1>6, Invariance, PTL DEF Spec, Emerges

\* The other hypotheses of ComesBack: the worker runs while it can, and an event
\* that was posted is handled, however often the event thread is busy: its queue
\* is served in order.
WorkerRuns == []<>~(Due({"idle"}) \/ Due(Ended)) \/ []<><<WorkerCalls \/ WorkerDone>>_vars
InOrder == <>[]~(Posted /\ EventThreadFree) \/ []<><<ShowResult>>_vars

\* The stages of a computation follow one another.
LEMMA PaneStep ==
  ASSUME IInv, [Next]_vars
  PROVE  /\ Due({"idle"}) => Due({"idle"})' \/ Due({"entered"} \cup Inside)' \/ Due(Ended)' \/ (job = Idle)'
         /\ Due({"entered"} \cup Inside) => Due({"entered"} \cup Inside)' \/ Due(Ended)' \/ (job = Idle)'
         /\ Due(Ended) => Due(Ended)' \/ Posted' \/ (job = Idle)'
         /\ Posted => Posted' \/ (job = Idle)'
         /\ WorkerCalls \/ WorkerDone =>
              /\ Due({"idle"}) => Due({"entered"} \cup Inside)' \/ Due(Ended)' \/ (job = Idle)'
              /\ Due(Ended) => Posted' \/ (job = Idle)'
         /\ ShowResult => (job = Idle)'
<1> SUFFICES ASSUME ~(job = Idle), ~(job' = Idle)
             PROVE  /\ Due({"idle"}) => Due({"idle"})' \/ Due({"entered"} \cup Inside)' \/ Due(Ended)'
                    /\ Due({"entered"} \cup Inside) => Due({"entered"} \cup Inside)' \/ Due(Ended)'
                    /\ Due(Ended) => Due(Ended)' \/ Posted'
                    /\ Posted => Posted'
                    /\ WorkerCalls \/ WorkerDone =>
                         /\ Due({"idle"}) => Due({"entered"} \cup Inside)' \/ Due(Ended)'
                         /\ Due(Ended) => Posted'
                    /\ ~ShowResult
  BY DEF Due, Posted, ShowResult
<1> USE TabAssumption DEF TabAssumption, Due, Posted
<1>t. LoaderTypeOK /\ LoaderTypeOK' /\ step[Worker] \in {"idle", "entered"} \cup Inside \cup Ended
  BY LoaderPart DEF IInv, LoaderInv, LoaderTypeOK
<1>0. ~ShowResult
  BY DEF ShowResult
<1>1. CASE WorkerDone
  <2>1. step[Worker] \in Ended /\ posted = Nothing
    BY <1>1 DEF WorkerDone, IInv, JobInv
  <2>2. posted' # Nothing
    BY <1>1 DEF WorkerDone, Nothing, Failure, Answer
  <2>3. ~WorkerCalls
    BY <2>1 DEF WorkerCalls, EnsureLoaded
  <2> QED BY <1>0, <2>1, <2>2, <2>3
<1>2. CASE WorkerCalls
  <2>1. step[Worker] = "idle" /\ posted' = posted /\ posted = Nothing
    BY <1>2 DEF WorkerCalls, EnsureLoaded, tvars
  <2>2. step'[Worker] \in {"entered", "linked"}
    BY <1>2, <1>t DEF WorkerCalls, EnsureLoaded, Goto, LoaderTypeOK
  <2> QED BY <1>0, <2>1, <2>2
<1>3. CASE ~WorkerDone /\ ~WorkerCalls
  <2>1. posted' = posted
    BY <1>3, WorkerMoves
  <2>2. \/ step'[Worker] = step[Worker]
        \/ step[Worker] \in {"entered"} \cup Inside /\ step'[Worker] \in Inside \cup Ended
    BY <1>3, WorkerMoves
  <2> QED BY <1>0, <1>3, <2>1, <2>2
<1> QED BY <1>1, <1>2, <1>3

\* However many threads of the tab's process call the loader, how often a load fails
\* and how often other processes are in the way: the buttons come back after every
\* click (TlsPlusTab.kt:547-571, TlsPlusCore.kt:43-50). What this rests on besides
\* threads that run is the monitor of the loader, which passes nobody over for ever.
THEOREM ComesBack ==
  Spec /\ HolderRuns /\ (\A t \in {EventThread, Worker} : Admitted(t) /\ LoaderRuns(t))
       /\ EventPolled /\ WorkerRuns /\ InOrder
    => ButtonsComeBack
<1> DEFINE W1 == Due({"idle"})
           W2 == Due({"entered"} \cup Inside)
           W3 == Due(Ended)
<1>1. IInv => (job = Idle \/ W1 \/ W2 \/ W3 \/ Posted)
  BY TabAssumption DEF IInv, LoaderInv, LoaderTypeOK, Due, Posted, TabAssumption
<1>2. IInv /\ [Next]_vars /\ W1 => W1' \/ W2' \/ W3' \/ (job = Idle)'
  BY PaneStep
<1>3. IInv /\ [Next]_vars /\ <<WorkerCalls \/ WorkerDone>>_vars /\ W1 => W2' \/ W3' \/ (job = Idle)'
  BY PaneStep
<1>4. IInv /\ [Next]_vars /\ W2 => W2' \/ W3' \/ (job = Idle)'
  BY PaneStep
<1>5. IInv /\ [Next]_vars /\ W3 => W3' \/ Posted' \/ (job = Idle)'
  BY PaneStep
<1>6. IInv /\ [Next]_vars /\ <<WorkerCalls \/ WorkerDone>>_vars /\ W3 => Posted' \/ (job = Idle)'
  BY PaneStep
<1>7. IInv /\ [Next]_vars /\ Posted => Posted' \/ (job = Idle)'
  BY PaneStep
<1>8. IInv /\ [Next]_vars /\ <<ShowResult>>_vars => (job = Idle)'
  BY PaneStep
<1>9. W2 => InLoader(Worker)
  BY DEF Due, InLoader
<1>10. Spec /\ HolderRuns /\ (\A t \in {EventThread, Worker} : Admitted(t) /\ LoaderRuns(t))
         => Emerges(Worker)
  <2>1. (\A t \in {EventThread, Worker} : Admitted(t) /\ LoaderRuns(t))
          => Admitted(Worker) /\ LoaderRuns(Worker)
    OBVIOUS
  <2>2. Spec /\ HolderRuns /\ Admitted(Worker) /\ LoaderRuns(Worker)
          => Emerges(Worker)
    BY GetsThrough
  <2> QED BY <2>1, <2>2
<1>11. Spec /\ HolderRuns /\ (\A t \in {EventThread, Worker} : Admitted(t) /\ LoaderRuns(t))
            /\ EventPolled
         => []<>(step[EventThread] = "idle")
  <2>1. (\A t \in {EventThread, Worker} : Admitted(t) /\ LoaderRuns(t))
          => Admitted(EventThread) /\ LoaderRuns(EventThread)
    OBVIOUS
  <2> QED BY <2>1, EventFrees
<1>12. WorkerRuns <=> []<>~(W1 \/ W3) \/ []<><<WorkerCalls \/ WorkerDone>>_vars
  BY PTL DEF WorkerRuns
<1>13. InOrder <=> <>[]~(Posted /\ step[EventThread] = "idle") \/ []<><<ShowResult>>_vars
  BY PTL DEF InOrder, EventThreadFree
<1>14. job # Idle <=> ~(job = Idle)
  OBVIOUS
<1> HIDE DEF W1, W2, W3
<1> QED BY <1>1, <1>2, <1>3, <1>4, <1>5, <1>6, <1>7, <1>8, <1>9, <1>10, <1>11, <1>12, <1>13, <1>14,
        Invariance, PTL DEF Spec, Emerges, ButtonsComeBack
=============================================================================
