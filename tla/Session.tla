------------------------------ MODULE Session ------------------------------
(***************************************************************************)
(* A test session and its monitor: the fixture monitor_loaded and the      *)
(* process it starts (conftest.py), and load, unload and run of            *)
(* monitoring/monitor.c.                                                   *)
(*                                                                         *)
(* The fixture forks a loader, which loads the monitor, and which unloads  *)
(* it when the session is over.  Neither sends anything: each waits for    *)
(* the end of file of a pipe, which comes when no process holds a write    *)
(* end any more.  The loader signals with pipe 1 that loading is finished, *)
(* the session with pipe 2 that the tests are, also when it is killed.     *)
(*                                                                         *)
(* The loaded monitor is the directory PIN_PATH with the pinned maps,      *)
(* programs and links; every session uses the same one.                    *)
(***************************************************************************)
EXTENDS Naturals

CONSTANTS
    MAX_SESSIONS,   \* bound on the sessions, which are numbered
    MAX_TESTS,      \* bound on the tests of a session
    Nobody          \* PIN_PATH does not exist

ASSUME SessionAssumption ==
    /\ MAX_SESSIONS \in Nat /\ MAX_TESTS \in Nat
    /\ Nobody \notin 1..MAX_SESSIONS

SESSIONS == 1..MAX_SESSIONS

VARIABLES
    parent,         \* where pytest is, of each session
    loader,         \* where its loader is
    snd1, snd2,     \* the processes that hold sndc1, sndc2
    tests,          \* tests started
    run,            \* where `monitor run` of the current test is
    pins,           \* [owner, complete]: who made PIN_PATH, or failed to remove
                    \* it, and is all there
    interrupted,    \* sessions interrupted while they waited for loading
    stranded        \* sessions whose loader was killed while it waited, or
                    \* could not remove PIN_PATH

vars == <<parent, loader, snd1, snd2, tests, run, pins, interrupted, stranded>>

NoPins == [owner |-> Nobody, complete |-> FALSE]
PARENT_OVER == {"done", "killed"}
LOADER_OVER == {"none", "zombie"}
Finished(s) == parent[s] \in PARENT_OVER /\ loader[s] \in LOADER_OVER /\ run[s] = "none"

Init ==
    /\ parent = [s \in SESSIONS |-> "none"]
    /\ loader = [s \in SESSIONS |-> "none"]
    /\ snd1 = [s \in SESSIONS |-> {}]
    /\ snd2 = [s \in SESSIONS |-> {}]
    /\ tests = [s \in SESSIONS |-> 0]
    /\ run = [s \in SESSIONS |-> "none"]
    /\ pins = NoPins
    /\ interrupted = {}
    /\ stranded = {}

ParentAt(s, from, to) == parent[s] = from /\ parent' = [parent EXCEPT ![s] = to]
LoaderAt(s, from, to) == loader[s] = from /\ loader' = [loader EXCEPT ![s] = to]
Closes(ends, s, who) == ends' = [ends EXCEPT ![s] = @ \ {who}]

-----------------------------------------------------------------------------
(* The session (monitor_loaded).                                           *)

\* The pipes are made and the loader is forked, with all four ends.  The user
\* waits, as the docstring asks, until the earlier session has finished.
Start(s) ==
    /\ ParentAt(s, "none", "started")
    /\ \A e \in SESSIONS : e < s => Finished(e)
    /\ loader' = [loader EXCEPT ![s] = "setsid"]
    /\ snd1' = [snd1 EXCEPT ![s] = {"parent", "loader"}]
    /\ snd2' = [snd2 EXCEPT ![s] = {"parent", "loader"}]
    /\ UNCHANGED <<tests, run, pins, interrupted, stranded>>

\* Seeded slip: the fixture keeps its write end of pipe 1.
CloseUnused_Keeps(s) ==
    /\ ParentAt(s, "started", "recv")
    /\ UNCHANGED <<loader, snd1, snd2, tests, run, pins, interrupted, stranded>>

\* sndc1.close(), rcvc2.close()
CloseUnused(s) ==
    /\ ParentAt(s, "started", "recv")
    /\ Closes(snd1, s, "parent")
    /\ UNCHANGED <<loader, snd2, tests, run, pins, interrupted, stranded>>

\* rcvc1.recv() raises EOFError.
AwaitLoaded(s) ==
    /\ ParentAt(s, "recv", "check")
    /\ snd1[s] = {}
    /\ UNCHANGED <<loader, snd1, snd2, tests, run, pins, interrupted, stranded>>

\* KeyboardInterrupt in recv: the finally clause goes on to yield, and holds
\* the exception back until the end of the session.
Interrupt(s) ==
    /\ ParentAt(s, "recv", "check")
    /\ interrupted' = interrupted \cup {s}
    /\ UNCHANGED <<loader, snd1, snd2, tests, run, pins, stranded>>

\* Seeded slip: the exit code of the loader is not looked at.
CheckLoader_Trusts(s) ==
    /\ ParentAt(s, "check", "testing")
    /\ UNCHANGED <<loader, snd1, snd2, tests, run, pins, interrupted, stranded>>

\* exitcode is known once the loader is a zombie.
CheckLoader(s) ==
    /\ ParentAt(s, "check", IF loader[s] = "zombie" THEN "failed" ELSE "testing")
    /\ UNCHANGED <<loader, snd1, snd2, tests, run, pins, interrupted, stranded>>

\* A test runs its program under `monitor run`.
StartTest(s) ==
    /\ parent[s] = "testing" /\ run[s] = "none"
    /\ tests[s] < MAX_TESTS
    /\ tests' = [tests EXCEPT ![s] = @ + 1]
    /\ run' = [run EXCEPT ![s] = "opening"]
    /\ UNCHANGED <<parent, loader, snd1, snd2, pins, interrupted, stranded>>

\* After yield: sndc2.close().
Teardown(s) ==
    /\ ParentAt(s, "testing", "join")
    /\ run[s] = "none"
    /\ Closes(snd2, s, "parent")
    /\ UNCHANGED <<loader, snd1, tests, run, pins, interrupted, stranded>>

\* loader.join(), and the end of pytest; or its end after the ValueError.
Leave(s) ==
    /\ \/ ParentAt(s, "join", "done") /\ loader[s] = "zombie"
       \/ ParentAt(s, "failed", "done")
    /\ Closes(snd2, s, "parent")
    /\ UNCHANGED <<loader, snd1, tests, run, pins, interrupted, stranded>>

\* pytest is killed; a run that is going on in a container goes on.
Kill(s) ==
    /\ parent[s] \notin {"none"} \cup PARENT_OVER
    /\ parent' = [parent EXCEPT ![s] = "killed"]
    /\ Closes(snd1, s, "parent")
    /\ Closes(snd2, s, "parent")
    /\ UNCHANGED <<loader, tests, run, pins, interrupted, stranded>>

ParentStep(s) ==
    CloseUnused(s) \/ AwaitLoaded(s) \/ CheckLoader(s) \/ StartTest(s) \/ Teardown(s) \/ Leave(s)

-----------------------------------------------------------------------------
(* `monitor run`.  The maps are opened by their names below PIN_PATH.      *)

\* While a load is under way they may be there or not.
OpenMaps(s) ==
    /\ run[s] = "opening"
    /\ \E opened \in BOOLEAN :
          /\ pins = NoPins => ~opened
          /\ pins.complete => opened
          /\ run' = [run EXCEPT ![s] = IF opened THEN "running" ELSE "none"]
    /\ UNCHANGED <<parent, loader, snd1, snd2, tests, pins, interrupted, stranded>>

\* The program has ended, and waitpid says so.
EndRun(s) ==
    /\ run[s] = "running"
    /\ run' = [run EXCEPT ![s] = "none"]
    /\ UNCHANGED <<parent, loader, snd1, snd2, tests, pins, interrupted, stranded>>

-----------------------------------------------------------------------------
(* The loader (loader_process), and load and unload, which it runs.        *)

\* rm -rf PIN_PATH removes everything, or fails and leaves some of it.
RemovePins == pins' = NoPins /\ UNCHANGED stranded
RemoveFails(s) ==
    /\ pins # NoPins
    /\ pins' \in {[owner |-> s, complete |-> FALSE], [pins EXCEPT !.owner = s]}
    /\ stranded' = stranded \cup {s}

\* open_and_load; a failure here leaves PIN_PATH alone.
LoadOpen(s) ==
    /\ \/ LoaderAt(s, "setsid", "mkdir")
       \/ LoaderAt(s, "setsid", "failed")
    /\ UNCHANGED <<parent, snd1, snd2, tests, run, pins, interrupted, stranded>>

\* mkdir(PIN_PATH) fails when there is one.
LoadMkdir(s) ==
    /\ LoaderAt(s, "mkdir", IF pins = NoPins THEN "pin" ELSE "END")
    /\ pins' = IF pins = NoPins THEN [owner |-> s, complete |-> FALSE] ELSE pins
    /\ UNCHANGED <<parent, snd1, snd2, tests, run, interrupted, stranded>>

\* Maps and programs are pinned, the links attached and pinned; any of it may
\* fail.
LoadPin(s) ==
    /\ \/ LoaderAt(s, "pin", "loaded") /\ pins' = [pins EXCEPT !.complete = TRUE]
       \/ LoaderAt(s, "pin", "END") /\ UNCHANGED pins
    /\ UNCHANGED <<parent, snd1, snd2, tests, run, interrupted, stranded>>

\* END: after an error, rm -rf PIN_PATH, whoever made it.
LoadEnd(s) ==
    /\ LoaderAt(s, "END", "failed")
    /\ RemovePins \/ RemoveFails(s)
    /\ UNCHANGED <<parent, snd1, snd2, tests, run, interrupted>>

\* Seeded slip: the loader keeps its write end of pipe 2.
LoaderReady_Keeps(s) ==
    /\ LoaderAt(s, "loaded", "waiting")
    /\ Closes(snd1, s, "loader")
    /\ UNCHANGED <<parent, snd2, tests, run, pins, interrupted, stranded>>

\* sndc2.close(), then sndc1.close()
LoaderReady(s) ==
    /\ \/ /\ LoaderAt(s, "loaded", "ready")
          /\ Closes(snd2, s, "loader")
          /\ UNCHANGED snd1
       \/ /\ LoaderAt(s, "ready", "waiting")
          /\ Closes(snd1, s, "loader")
          /\ UNCHANGED snd2
    /\ UNCHANGED <<parent, tests, run, pins, interrupted, stranded>>

\* Seeded slip: the loader does not wait for the end of file.
AwaitOver_Hasty(s) ==
    /\ LoaderAt(s, "waiting", "unload")
    /\ UNCHANGED <<parent, snd1, snd2, tests, run, pins, interrupted, stranded>>

\* rcvc2.recv() raises EOFError.
AwaitOver(s) ==
    /\ LoaderAt(s, "waiting", "unload")
    /\ snd2[s] = {}
    /\ UNCHANGED <<parent, snd1, snd2, tests, run, pins, interrupted, stranded>>

\* Fails if rm does, which the loader does not outlive either way.
unload(s) ==
    /\ LoaderAt(s, "unload", "unloaded")
    /\ RemovePins \/ RemoveFails(s)
    /\ UNCHANGED <<parent, snd1, snd2, tests, run, interrupted>>

\* The loader exits, after unloading or with CalledProcessError; the kernel
\* closes its descriptors before its exit code can be read.
ExitLoader(s) ==
    /\ \/ LoaderAt(s, "unloaded", "exiting")
       \/ LoaderAt(s, "failed", "exiting")
    /\ Closes(snd1, s, "loader")
    /\ Closes(snd2, s, "loader")
    /\ UNCHANGED <<parent, tests, run, pins, interrupted, stranded>>

BecomeZombie(s) ==
    /\ LoaderAt(s, "exiting", "zombie")
    /\ UNCHANGED <<parent, snd1, snd2, tests, run, pins, interrupted, stranded>>

\* The waiting loader is killed and the monitor stays.
KillLoader(s) ==
    /\ LoaderAt(s, "waiting", "zombie")
    /\ stranded' = stranded \cup {s}
    /\ UNCHANGED <<parent, snd1, snd2, tests, run, pins, interrupted>>

LoaderStep(s) ==
    \/ LoadOpen(s) \/ LoadMkdir(s) \/ LoadPin(s) \/ LoadEnd(s)
    \/ LoaderReady(s) \/ AwaitOver(s) \/ unload(s) \/ ExitLoader(s) \/ BecomeZombie(s)

-----------------------------------------------------------------------------
AllOver == (\A s \in SESSIONS : Finished(s)) /\ UNCHANGED vars

Next ==
    \/ \E s \in SESSIONS :
         \/ Start(s) \/ ParentStep(s) \/ Interrupt(s) \/ Kill(s)
         \/ OpenMaps(s) \/ EndRun(s)
         \/ LoaderStep(s) \/ KillLoader(s)
    \/ AllOver

\* The kernel runs both processes; `sudo make` ends, and so does the program
\* of a test, which has no loops.  A session need not be started, and nobody
\* need interrupt or kill.
Fairness ==
    \A s \in SESSIONS : /\ WF_vars(ParentStep(s))
                        /\ WF_vars(OpenMaps(s) \/ EndRun(s))
                        /\ WF_vars(LoaderStep(s))

Spec == Init /\ [][Next]_vars /\ Fairness

-----------------------------------------------------------------------------
(* Properties.                                                             *)

\* While a test runs under the monitor, in a session neither killed nor
\* interrupted during loading, the monitor stays completely loaded: neither
\* this session's loader nor a failing load takes it away (monitor_loaded: "When
\* all the things are finished, the monitor will be unloaded").  A test can only
\* run with a part of it if that is what a failed rm -rf has left.
UnloadAfterTests ==
    \A s \in SESSIONS :
      run[s] = "running" /\ parent[s] # "killed" /\ s \notin interrupted =>
        pins.complete \/ pins.owner \in stranded

\* Tests begin without a loaded monitor only when the session was interrupted,
\* or when the exit of a loader that failed has closed the pipe and its exit
\* code is not there yet (the check of loader.exitcode).
TestsMonitored ==
    [][\A s \in SESSIONS :
         parent[s] = "check" /\ parent'[s] = "testing" =>
           \/ pins.complete
           \/ loader[s] = "exiting"
           \/ s \in interrupted]_vars

\* However a session ends, also by a kill while the monitor is being loaded,
\* its loader comes to its end and leaves no monitor behind; unless it was
\* killed itself, its rm -rf failed, or it failed before it could touch what
\* another had left (the two pipes, load and unload).
MonitorRemoved ==
    \A s \in SESSIONS :
      parent[s] \in PARENT_OVER ~>
        /\ loader[s] = "zombie"
        /\ pins = NoPins \/ pins.owner \in stranded

\* The two processes never wait for each other for ever: a session that has
\* started ends (recv and join of monitor_loaded, recv of loader_process).
SessionEnds == \A s \in SESSIONS : parent[s] = "started" ~> parent[s] \in PARENT_OVER
=============================================================================
