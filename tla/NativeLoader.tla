----------------------------- MODULE NativeLoader -----------------------------
(* NativeLoader.ensureLoaded, which TlsPlusCore.withNative calls before every *)
(* native call: double-checked loading in each Burp process, over a copy of   *)
(* the library extracted to a directory that all processes of the user share. *)
(* A file is known by the thread that created it last.  The outside world     *)
(* may fail a step, end a process and start it again.                         *)
EXTENDS Naturals, FiniteSets

CONSTANTS Procs,        \* Burp processes
          Threads,      \* threads that make native calls
          ProcOf,       \* the process of a thread
          NoThread,     \* the monitor is free
          NoFile,       \* nothing at the path, nothing mapped
          Installed,    \* the library on java.library.path
          MaxFaults     \* bound: failed steps and process ends

ASSUME LoaderAssumption ==
    /\ ProcOf \in [Threads -> Procs]
    /\ NoThread \notin Threads /\ NoFile \notin Threads
    /\ Installed \notin Threads \cup {NoFile}
    /\ MaxFaults \in Nat

VARIABLES
    loaded,     \* loaded[p]: the volatile flag of process p
    mapped,     \* mapped[p]: the file System.load mapped, or NoFile
    monitor,    \* monitor[p]: the thread inside synchronized(this)
    step,       \* step[t]: where t is in ensureLoaded
    path,       \* the file at the shared path
    whole,      \* files that are completely written
    onExit,     \* processes that delete the path when they end
    host,       \* [packaged, installed, pins]: what the machine has
    faults      \* failed steps and process ends so far

lvars == <<loaded, mapped, monitor, step, path, whole, onExit, host, faults>>

Inside == {"delete", "create", "write", "load", "system", "loaded"}
Ended == {"linked", "failed"}

LoaderTypeOK ==
    /\ loaded \in [Procs -> BOOLEAN]
    /\ mapped \in [Procs -> Threads \cup {NoFile, Installed}]
    /\ monitor \in [Procs -> Threads \cup {NoThread}]
    /\ step \in [Threads -> {"idle", "entered"} \cup Inside \cup Ended]
    /\ path \in Threads \cup {NoFile}
    /\ whole \subseteq Threads
    /\ onExit \subseteq Procs
    /\ host \in [packaged : BOOLEAN, installed : BOOLEAN, pins : BOOLEAN]
    /\ faults \in 0..MaxFaults

LoaderInit ==
    /\ loaded = [p \in Procs |-> FALSE]
    /\ mapped = [p \in Procs |-> NoFile]
    /\ monitor = [p \in Procs |-> NoThread]
    /\ step = [t \in Threads |-> "idle"]
    /\ path = NoFile /\ whole = {} /\ onExit = {}
    /\ host \in [packaged : BOOLEAN, installed : BOOLEAN, pins : BOOLEAN]
    /\ faults = 0

Goto(t, s) == step' = [step EXCEPT ![t] = s]

-----------------------------------------------------------------------------
(* ensureLoaded.                                                             *)

\* The check outside the monitor.
EnsureLoaded(t) ==
    /\ step[t] = "idle"
    /\ Goto(t, IF loaded[ProcOf[t]] THEN "linked" ELSE "entered")
    /\ UNCHANGED <<loaded, mapped, monitor, path, whole, onExit, host, faults>>

\* Mutated: the check is not repeated inside the monitor.
Enter_once(t) ==
    /\ step[t] = "entered" /\ monitor[ProcOf[t]] = NoThread
    /\ monitor' = [monitor EXCEPT ![ProcOf[t]] = t]
    /\ Goto(t, IF host.packaged THEN "delete" ELSE "system")
    /\ UNCHANGED <<loaded, mapped, path, whole, onExit, host, faults>>

\* The check inside it, and the lookup of the packaged library.
Enter(t) ==
    /\ step[t] = "entered" /\ monitor[ProcOf[t]] = NoThread
    /\ IF loaded[ProcOf[t]] THEN Goto(t, "linked") /\ UNCHANGED monitor
       ELSE /\ monitor' = [monitor EXCEPT ![ProcOf[t]] = t]
            /\ Goto(t, IF host.packaged THEN "delete" ELSE "system")
    /\ UNCHANGED <<loaded, mapped, path, whole, onExit, host, faults>>

\* Windows refuses to delete a library some process has mapped.
Pinned == host.pins /\ \E p \in Procs : mapped[p] = path /\ path # NoFile

\* Files.copy with REPLACE_EXISTING deletes the old file, creates a new one,
\* which must not exist, and writes it.
Delete(t) ==
    /\ step[t] = "delete" /\ ~Pinned
    /\ path' = NoFile
    /\ Goto(t, "create")
    /\ UNCHANGED <<loaded, mapped, monitor, whole, onExit, host, faults>>

Create(t) ==
    /\ step[t] = "create" /\ path = NoFile
    /\ path' = t /\ whole' = whole \ {t}
    /\ Goto(t, "write")
    /\ UNCHANGED <<loaded, mapped, monitor, onExit, host, faults>>

\* The copy is complete; deleteOnExit and the search path of JNA are set.
Write(t) ==
    /\ step[t] = "write"
    /\ whole' = whole \cup {t}
    /\ onExit' = onExit \cup {ProcOf[t]}
    /\ Goto(t, "load")
    /\ UNCHANGED <<loaded, mapped, monitor, path, host, faults>>

\* Mutated: the flag is set before the library is loaded.
Load_flagFirst(t) ==
    /\ step[t] = "load" /\ path \in whole
    /\ loaded' = [loaded EXCEPT ![ProcOf[t]] = TRUE]
    /\ mapped' = mapped
    /\ Goto(t, "loaded")
    /\ UNCHANGED <<monitor, path, whole, onExit, host, faults>>

\* System.load maps whatever is at the path by now.
Load(t) ==
    /\ step[t] = "load" /\ path \in whole
    /\ mapped' = [mapped EXCEPT ![ProcOf[t]] = path]
    /\ Goto(t, "loaded")
    /\ UNCHANGED <<loaded, monitor, path, whole, onExit, host, faults>>

\* System.loadLibrary, when nothing is packaged for the platform.
SystemLoad(t) ==
    /\ step[t] = "system" /\ host.installed
    /\ mapped' = [mapped EXCEPT ![ProcOf[t]] = Installed]
    /\ Goto(t, "loaded")
    /\ UNCHANGED <<loaded, monitor, path, whole, onExit, host, faults>>

SetLoaded(t) ==
    /\ step[t] = "loaded"
    /\ loaded' = [loaded EXCEPT ![ProcOf[t]] = TRUE]
    /\ monitor' = [monitor EXCEPT ![ProcOf[t]] = NoThread]
    /\ Goto(t, "linked")
    /\ UNCHANGED <<mapped, path, whole, onExit, host, faults>>

\* The step throws: the file is pinned, another process created one first, or
\* there is no complete library to load.
Blocked(t) ==
    \/ step[t] = "delete" /\ Pinned
    \/ step[t] = "create" /\ path # NoFile
    \/ step[t] = "load" /\ path \notin whole
    \/ step[t] = "system" /\ ~host.installed

\* Mutated: the exception leaves the monitor taken.
Throw_keepsMonitor(t) ==
    /\ Goto(t, "failed")
    /\ UNCHANGED <<loaded, mapped, monitor, path, whole, onExit, host>>

\* It leaves synchronized, with the flag unset, and ends in runCatching.
Throw(t) ==
    /\ Goto(t, "failed")
    /\ monitor' = [monitor EXCEPT ![ProcOf[t]] = NoThread]
    /\ UNCHANGED <<loaded, mapped, path, whole, onExit, host>>

Fails(t) == Blocked(t) /\ Throw(t) /\ UNCHANGED faults

LoaderStep(t) ==
    \/ Enter(t) \/ Delete(t) \/ Create(t) \/ Write(t) \/ Load(t) \/ SystemLoad(t)
    \/ SetLoaded(t) \/ Fails(t)

-----------------------------------------------------------------------------
(* The machine.                                                              *)

\* A full disk, a missing permission: any step before the flag may fail.
Fault(t) ==
    /\ step[t] \in {"delete", "create", "write", "load"}
    /\ faults < MaxFaults /\ faults' = faults + 1
    /\ Throw(t)

\* Process p ends, orderly or killed, and is started again.
Restart(p) ==
    /\ faults < MaxFaults /\ faults' = faults + 1
    /\ loaded' = [loaded EXCEPT ![p] = FALSE]
    /\ mapped' = [mapped EXCEPT ![p] = NoFile]
    /\ monitor' = [monitor EXCEPT ![p] = NoThread]
    /\ step' = [t \in Threads |-> IF ProcOf[t] = p THEN "idle" ELSE step[t]]
    /\ path' \in {path} \cup (IF p \in onExit /\ ~(Pinned /\ \E q \in Procs \ {p} : mapped[q] = path)
                              THEN {NoFile} ELSE {})
    /\ onExit' = onExit \ {p}
    /\ UNCHANGED <<whole, host>>

-----------------------------------------------------------------------------
(* Properties.                                                               *)

\* Whatever the threads of a process and the other processes do, once a process
\* has mapped the library none of its threads extracts or loads it again: the
\* file under a running library is not replaced by its own process
\* (NativeLoader.kt:15-18).
LoadedOnce ==
    \A t \in Threads :
        step[t] \in Inside \ {"loaded"} => mapped[ProcOf[t]] = NoFile

\* A native call goes ahead only in a process whose System.load has returned: no
\* thread sees the flag before the load it announces (NativeLoader.kt:34-35).
CallsAreLinked ==
    \A t \in Threads : step[t] = "linked" => mapped[ProcOf[t]] # NoFile

\* A monitor that is taken is held by a thread of its process that is still inside:
\* whatever failed on the way, nobody leaves with it (NativeLoader.kt:16-43).
MonitorIsHeld ==
    \A p \in Procs : monitor[p] # NoThread =>
        ProcOf[monitor[p]] = p /\ step[monitor[p]] \in Inside

\* What can move by itself: a thread inside, since every step of the copy either
\* works or throws, and one that finds the monitor free.
LoaderReady(t) ==
    step[t] \in Inside \/ (step[t] = "entered" /\ monitor[ProcOf[t]] = NoThread)

\* A thread waits only for a thread of its own process, which waits for nobody.
NobodyStuck ==
    \A t \in Threads : step[t] \in Inside \cup {"entered"} =>
        LoaderReady(t) \/ \E u \in Threads : ProcOf[u] = ProcOf[t] /\ step[u] \in Inside

\* No thread stays inside the monitor.
MonitorLetGo == \A t \in Threads : step[t] \in Inside ~> step[t] \notin Inside

\* Nothing is in the way of process p: no other process is extracting, and the
\* machine has a library that can be loaded.
Unhindered(p) ==
    /\ \A t \in Threads : ProcOf[t] # p => step[t] \notin Inside
    /\ IF host.packaged THEN ~host.pins ELSE host.installed
=============================================================================
