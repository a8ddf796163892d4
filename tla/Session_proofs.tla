--------------------------- MODULE Session_proofs ---------------------------
(***************************************************************************)
(* Proofs about Session, for any number of sessions and tests: tests run   *)
(* under a loaded monitor, and nothing takes it away from them.  That a    *)
(* session ends, and that no monitor is left behind, is liveness and is    *)
(* checked by TLC only.                                                    *)
(***************************************************************************)
EXTENDS Session, TLAPS

PARENT == {"none", "started", "recv", "check", "testing", "failed", "join"} \cup PARENT_OVER
\* Before the loader has closed its write end of pipe 1.
LOADING == {"setsid", "mkdir", "pin", "END", "failed", "loaded", "ready"}
UNLOADING == {"unload", "unloaded"}
LOADER == LOADING \cup UNLOADING \cup {"waiting", "exiting"} \cup LOADER_OVER
ENDS == {"parent", "loader"}

TypeInv ==
    /\ parent \in [SESSIONS -> PARENT]
    /\ loader \in [SESSIONS -> LOADER]
    /\ snd1 \in [SESSIONS -> SUBSET ENDS]
    /\ snd2 \in [SESSIONS -> SUBSET ENDS]
    /\ tests \in [SESSIONS -> Nat]
    /\ run \in [SESSIONS -> {"none", "opening", "running"}]
    /\ pins \in [owner : SESSIONS \cup {Nobody}, complete : BOOLEAN]
    /\ interrupted \subseteq SESSIONS

\* Sessions follow one another.
OrderInv ==
    /\ \A e, s \in SESSIONS : e < s /\ parent[s] # "none" => Finished(e)
    /\ \A s \in SESSIONS : parent[s] = "none" => loader[s] = "none" /\ run[s] = "none"
    /\ \A s \in SESSIONS : loader[s] = "none" => parent[s] = "none"

\* Who still holds which end of the pipes.
PipeAt(s) ==
    /\ loader[s] \in LOADING => "loader" \in snd1[s]
    /\ parent[s] \in {"started", "recv", "check", "testing"} => "parent" \in snd2[s]
    /\ loader[s] \in UNLOADING => snd2[s] = {}
    /\ s \notin interrupted /\ parent[s] \in {"check", "testing"} => snd1[s] = {}
    /\ run[s] # "none" => parent[s] \in {"testing", "killed"}

RunAt(s) ==
    run[s] = "running" /\ parent[s] # "killed" /\ s \notin interrupted =>
      pins.complete \/ pins.owner \in stranded

PipeInv == \A s \in SESSIONS : PipeAt(s)
\* What is below PIN_PATH.
PinsInv ==
    /\ \A s \in SESSIONS : loader[s] \in {"loaded", "ready", "waiting", "unload"} => pins.complete
    /\ \/ pins = NoPins \/ pins.complete \/ pins.owner \in stranded
       \/ \E s \in SESSIONS : loader[s] \in {"pin", "END"}

IInv == TypeInv /\ OrderInv /\ PipeInv /\ PinsInv /\ UnloadAfterTests

-----------------------------------------------------------------------------
(* Only one session is under way.                                          *)

\* While a session is under way, no other has a loader or a run.
LEMMA Alone ==
    ASSUME IInv, NEW s \in SESSIONS, parent[s] # "none", ~Finished(s),
           NEW e \in SESSIONS, e # s
    PROVE  /\ loader[e] \in LOADER_OVER /\ run[e] = "none"
           /\ s < e => parent[e] = "none"
<1>1. e < s \/ s < e
  BY SessionAssumption DEF SESSIONS
<1> QED BY <1>1 DEF IInv, OrderInv, Finished, LOADER_OVER

Same(e) ==
    /\ parent'[e] = parent[e] /\ loader'[e] = loader[e] /\ run'[e] = run[e]
    /\ snd1'[e] = snd1[e] /\ snd2'[e] = snd2[e]
    /\ e \in interrupted' <=> e \in interrupted

\* A step of the session that is under way keeps the invariant if it keeps it
\* for that session.
LEMMA SessionStep ==
    ASSUME IInv, NEW s \in SESSIONS, parent[s] # "none", ~Finished(s), TypeInv',
           parent'[s] # "none", loader'[s] # "none",
           \A e \in SESSIONS \ {s} : Same(e),
           PipeAt(s)', RunAt(s)',
           loader'[s] \in {"loaded", "ready", "waiting", "unload"} => pins'.complete,
           \/ pins' = NoPins \/ pins'.complete \/ pins'.owner \in stranded'
           \/ loader'[s] \in {"pin", "END"}
    PROVE  IInv'
<1>1. \A e \in SESSIONS \ {s} : loader[e] \in LOADER_OVER /\ run[e] = "none"
                                /\ (s < e => parent[e] = "none")
  BY Alone
<1>2. OrderInv'
  <2>1. ASSUME NEW e \in SESSIONS, NEW t \in SESSIONS, e < t, parent'[t] # "none"
        PROVE  Finished(e)'
    <3>1. e # s
      BY <1>1, <2>1, SessionAssumption DEF Same, SESSIONS
    <3>2. parent[t] # "none"
      BY <2>1 DEF Same
    <3> QED BY <2>1, <3>1, <3>2 DEF IInv, OrderInv, Finished, Same
  <2>2. ASSUME NEW t \in SESSIONS
        PROVE  /\ parent'[t] = "none" => loader'[t] = "none" /\ run'[t] = "none"
               /\ loader'[t] = "none" => parent'[t] = "none"
    BY DEF IInv, OrderInv, Same
  <2> QED BY <2>1, <2>2 DEF OrderInv
<1>3. PipeInv'
  BY DEF IInv, PipeInv, PipeAt, Same
<1>4. PinsInv'
  BY <1>1 DEF PinsInv, Same, LOADER_OVER
<1>5. UnloadAfterTests'
  BY <1>1 DEF UnloadAfterTests, RunAt, Same
<1> QED BY <1>2, <1>3, <1>4, <1>5 DEF IInv

\* Where the loader and the parent are when the monitor has been waited for.
LEMMA MonitorThere ==
    ASSUME IInv, NEW s \in SESSIONS, s \notin interrupted, parent[s] \in {"check", "testing"}
    PROVE  loader[s] \in {"waiting", "exiting", "zombie"}
BY DEF IInv, TypeInv, OrderInv, PipeInv, PipeAt, LOADER, LOADING, UNLOADING, LOADER_OVER

LEMMA InitIInv == Init => IInv
BY DEF Init, IInv, TypeInv, OrderInv, PipeInv, PipeAt, PinsInv, UnloadAfterTests, NoPins,
       PARENT, PARENT_OVER, LOADER, LOADER_OVER, LOADING, UNLOADING, ENDS

-----------------------------------------------------------------------------
(* The steps of a session.                                                 *)

\* A step of the pytest process.
ParentMoves(s) ==
    CloseUnused(s) \/ AwaitLoaded(s) \/ Interrupt(s) \/ CheckLoader(s) \/ Teardown(s) \/ Leave(s)
      \/ Kill(s)

LEMMA ParentKeeps ==
    ASSUME IInv, NEW s \in SESSIONS, ParentMoves(s)
    PROVE  IInv'
<1> USE DEF ParentMoves, CloseUnused, AwaitLoaded, Interrupt, CheckLoader, Teardown, Leave, Kill,
            ParentAt, Closes
<1>1. parent[s] \notin {"none"} \cup PARENT_OVER /\ ~Finished(s) /\ loader[s] # "none"
  BY DEF PARENT_OVER, Finished, IInv, OrderInv
<1>2. /\ UNCHANGED <<loader, run, pins, stranded>>
      /\ interrupted' \in {interrupted, interrupted \cup {s}}
  OBVIOUS
<1>3. TypeInv'
  BY <1>2 DEF IInv, TypeInv, PARENT, PARENT_OVER
<1>4. parent'[s] # "none"
  BY DEF IInv, TypeInv
<1>5. \A e \in SESSIONS \ {s} : Same(e)
  BY DEF Same, IInv, TypeInv
<1>6. PipeAt(s)'
  BY DEF IInv, TypeInv, PipeInv, PipeAt, PARENT_OVER, LOADING, ENDS
<1>7. RunAt(s)'
  BY <1>2 DEF IInv, TypeInv, PipeInv, PipeAt, RunAt, UnloadAfterTests
<1>8. pins = NoPins \/ pins.complete \/ pins.owner \in stranded \/ loader[s] \in {"pin", "END"}
  BY <1>1, Alone DEF IInv, PinsInv, LOADER_OVER
<1>9. loader[s] \in {"loaded", "ready", "waiting", "unload"} => pins.complete
  BY DEF IInv, PinsInv
<1> HIDE DEF ParentMoves
<1> QED BY <1>1, <1>2, <1>3, <1>4, <1>5, <1>6, <1>7, <1>8, <1>9, SessionStep

\* A step of a test.
LEMMA TestKeeps ==
    ASSUME IInv, NEW s \in SESSIONS, StartTest(s) \/ OpenMaps(s) \/ EndRun(s)
    PROVE  IInv'
<1> USE DEF StartTest, OpenMaps, EndRun
<1>1. parent[s] \in {"testing", "killed"} /\ ~Finished(s) /\ loader[s] # "none"
  BY DEF PARENT_OVER, Finished, IInv, OrderInv, PipeInv, PipeAt
<1>2. UNCHANGED <<parent, loader, snd1, snd2, pins, interrupted, stranded>>
  OBVIOUS
<1>3. TypeInv'
  BY DEF IInv, TypeInv
<1>4. \A e \in SESSIONS \ {s} : Same(e)
  BY DEF Same, IInv, TypeInv
<1>5. PipeAt(s)'
  BY <1>1, <1>2 DEF IInv, PipeInv, PipeAt
<1>6. pins = NoPins \/ pins.complete \/ pins.owner \in stranded \/ loader[s] \in {"pin", "END"}
  BY <1>1, Alone DEF IInv, PinsInv, LOADER_OVER
<1>7. loader[s] \in {"loaded", "ready", "waiting", "unload"} => pins.complete
  BY DEF IInv, PinsInv
<1>8. RunAt(s)'
  <2>1. CASE OpenMaps(s)
    <3> SUFFICES ASSUME run'[s] = "running", parent[s] # "killed", s \notin interrupted
                 PROVE  pins.complete \/ pins.owner \in stranded
      BY <1>2 DEF RunAt
    <3>1. pins # NoPins
      BY <2>1 DEF IInv, TypeInv
    <3>2. loader[s] \notin {"pin", "END"}
      BY <1>1, MonitorThere
    <3> QED BY <1>6, <3>1, <3>2
  <2>2. CASE StartTest(s) \/ EndRun(s)
    BY <2>2 DEF RunAt, IInv, TypeInv
  <2> QED BY <2>1, <2>2
<1> HIDE DEF StartTest, OpenMaps, EndRun
<1> QED BY <1>1, <1>2, <1>3, <1>4, <1>5, <1>6, <1>7, <1>8, SessionStep

\* A step of the loader.
LEMMA LoaderKeeps ==
    ASSUME IInv, NEW s \in SESSIONS, LoaderStep(s) \/ KillLoader(s)
    PROVE  IInv'
<1> USE DEF LoaderStep, LoadOpen, LoadMkdir, LoadPin, LoadEnd, LoaderReady, AwaitOver, unload,
            ExitLoader, BecomeZombie, KillLoader, LoaderAt, Closes, RemovePins, RemoveFails
<1>1. loader[s] \notin LOADER_OVER /\ ~Finished(s) /\ parent[s] # "none"
  BY DEF LOADER_OVER, Finished, IInv, OrderInv
<1>2. UNCHANGED <<parent, run, interrupted, tests>>
  OBVIOUS
<1>3. pins' \in [owner : SESSIONS \cup {Nobody}, complete : BOOLEAN]
  <2>1. pins' \in {pins, NoPins, [owner |-> s, complete |-> FALSE], [pins EXCEPT !.complete = TRUE],
                   [pins EXCEPT !.owner = s]}
    OBVIOUS
  <2> HIDE DEF LoaderStep, KillLoader
  <2>2. pins \in [owner : SESSIONS \cup {Nobody}, complete : BOOLEAN]
    BY DEF IInv, TypeInv
  <2>3. /\ [pins EXCEPT !.complete = TRUE] \in [owner : SESSIONS \cup {Nobody}, complete : BOOLEAN]
        /\ [pins EXCEPT !.owner = s] \in [owner : SESSIONS \cup {Nobody}, complete : BOOLEAN]
    BY <2>2
  <2>4. /\ NoPins \in [owner : SESSIONS \cup {Nobody}, complete : BOOLEAN]
        /\ [owner |-> s, complete |-> FALSE] \in [owner : SESSIONS \cup {Nobody}, complete : BOOLEAN]
    BY DEF NoPins
  <2> QED BY <2>1, <2>2, <2>3, <2>4
<1>4. TypeInv'
  BY <1>2, <1>3 DEF IInv, TypeInv, LOADER, LOADING, UNLOADING, LOADER_OVER
<1>5. loader'[s] # "none"
  BY DEF IInv, TypeInv
<1>6. \A e \in SESSIONS \ {s} : Same(e)
  BY DEF Same, IInv, TypeInv
<1>7. PipeAt(s)'
  BY <1>2 DEF IInv, TypeInv, PipeInv, PipeAt, LOADING, UNLOADING, ENDS
<1>8. pins = NoPins \/ pins.complete \/ pins.owner \in stranded \/ loader[s] \in {"pin", "END"}
  BY <1>1, Alone DEF IInv, PinsInv, LOADER_OVER
<1>9. \/ pins' = NoPins \/ pins'.complete \/ pins'.owner \in stranded'
      \/ loader'[s] \in {"pin", "END"}
  <2>1. CASE RemoveFails(s)
    BY <2>1 DEF IInv, TypeInv, RemoveFails
  <2>2. CASE ~RemoveFails(s)
    BY <1>8, <2>2 DEF IInv, TypeInv, RemovePins
  <2> QED BY <2>1, <2>2
<1>10. loader'[s] \in {"loaded", "ready", "waiting", "unload"} => pins'.complete
  BY DEF IInv, TypeInv, PinsInv
<1>11. RunAt(s)'
  <2> SUFFICES ASSUME run[s] = "running", parent[s] # "killed", s \notin interrupted
               PROVE  pins'.complete \/ pins'.owner \in stranded'
    BY <1>2 DEF RunAt
  <2>1. parent[s] = "testing" /\ (pins.complete \/ pins.owner \in stranded)
    BY DEF IInv, PipeInv, PipeAt, UnloadAfterTests
  <2>2. loader[s] \in {"waiting", "exiting", "zombie"}
    BY <2>1, MonitorThere
  <2> QED BY <2>1, <2>2
<1> HIDE DEF LoaderStep, KillLoader
<1> QED BY <1>1, <1>2, <1>4, <1>5, <1>6, <1>7, <1>9, <1>10, <1>11, SessionStep

\* A session starts when every earlier one has finished.
LEMMA StartKeeps ==
    ASSUME IInv, NEW s \in SESSIONS, Start(s)
    PROVE  IInv'
<1> USE DEF Start, ParentAt
<1>1. TypeInv'
  BY DEF IInv, TypeInv, PARENT, LOADER, LOADING, ENDS
<1>2. \A e \in SESSIONS \ {s} : Same(e)
  BY DEF Same, IInv, TypeInv
<1>3. parent[s] = "none" /\ loader[s] = "none" /\ run[s] = "none"
  BY DEF IInv, OrderInv
<1>4. /\ parent'[s] = "started" /\ loader'[s] = "setsid" /\ run'[s] = "none"
      /\ snd1'[s] = {"parent", "loader"} /\ snd2'[s] = {"parent", "loader"}
      /\ UNCHANGED <<run, pins, interrupted>>
  BY <1>3 DEF IInv, TypeInv
<1>5. OrderInv'
  <2>1. ASSUME NEW e \in SESSIONS, NEW t \in SESSIONS, e < t, parent'[t] # "none"
        PROVE  Finished(e)'
    <3>1. e # s
      <4>1. ASSUME e = s PROVE FALSE
        <5>1. t # s
          BY <2>1, <4>1, SessionAssumption DEF SESSIONS
        <5>2. Finished(s)
          BY <2>1, <4>1, <5>1, <1>2 DEF Same, IInv, OrderInv
        <5> QED BY <5>2, <1>3 DEF Finished, PARENT_OVER
      <4> QED BY <4>1
    <3>2. Finished(e)
      BY <2>1, <1>2 DEF Same, IInv, OrderInv
    <3> QED BY <1>2, <3>1, <3>2 DEF Finished, Same
  <2>2. ASSUME NEW t \in SESSIONS
        PROVE  /\ parent'[t] = "none" => loader'[t] = "none" /\ run'[t] = "none"
               /\ loader'[t] = "none" => parent'[t] = "none"
    BY <1>2, <1>4 DEF IInv, OrderInv, Same
  <2> QED BY <2>1, <2>2 DEF OrderInv
<1>6. PipeInv'
  BY <1>2, <1>4 DEF IInv, PipeInv, PipeAt, Same, UNLOADING
<1>7. PinsInv'
  BY <1>2, <1>3, <1>4 DEF IInv, PinsInv, Same
<1>8. UnloadAfterTests'
  BY <1>2, <1>4 DEF IInv, UnloadAfterTests, Same
<1> QED BY <1>1, <1>5, <1>6, <1>7, <1>8 DEF IInv

LEMMA NextKeeps == IInv /\ [Next]_vars => IInv'
<1> SUFFICES ASSUME IInv, [Next]_vars PROVE IInv'
  OBVIOUS
<1>1. CASE UNCHANGED vars
  BY <1>1 DEF vars, IInv, TypeInv, OrderInv, Finished, PipeInv, PipeAt, PinsInv, UnloadAfterTests
<1>2. CASE AllOver
  BY <1>1, <1>2 DEF AllOver
<1>3. ASSUME NEW s \in SESSIONS,
             \/ Start(s) \/ ParentStep(s) \/ Interrupt(s) \/ Kill(s)
             \/ OpenMaps(s) \/ EndRun(s)
             \/ LoaderStep(s) \/ KillLoader(s)
      PROVE  IInv'
  BY <1>3, StartKeeps, ParentKeeps, TestKeeps, LoaderKeeps DEF ParentStep, ParentMoves
<1> QED BY <1>1, <1>2, <1>3 DEF Next

-----------------------------------------------------------------------------
(* The theorems.                                                           *)

\* The inductive invariant: sessions follow one another, each end of a pipe is
\* held until the step that may close it, and a half-made PIN_PATH has a loader
\* at work on it.
THEOREM SessionIInv == Spec => []IInv
BY InitIInv, NextKeeps, PTL DEF Spec

\* No step of any process takes the monitor from a running test, for any number
\* of sessions that follow one another.
THEOREM MonitorKept == Spec => []UnloadAfterTests
<1>1. IInv => UnloadAfterTests
  BY DEF IInv
<1> QED BY <1>1, SessionIInv, PTL

BeginsMonitored ==
    \A s \in SESSIONS :
      parent[s] = "check" /\ parent'[s] = "testing" =>
        pins.complete \/ loader[s] = "exiting" \/ s \in interrupted

\* A session that goes on to its tests has the whole monitor; the exceptions are
\* an interrupted one and the window between the exit of a failed loader and its
\* exit code.
THEOREM TestsBeginMonitored == Spec => TestsMonitored
<1>1. IInv /\ [Next]_vars => [BeginsMonitored]_vars
  <2> SUFFICES ASSUME IInv, Next, NEW s \in SESSIONS, parent[s] = "check",
                      parent'[s] = "testing", s \notin interrupted
               PROVE  pins.complete \/ loader[s] = "exiting"
    BY DEF BeginsMonitored
  <2>1. loader[s] \in {"waiting", "exiting", "zombie"}
    BY MonitorThere
  <2>2. CheckLoader(s)
    <3>1. parent' # parent
      OBVIOUS
    <3>2. PICK u \in SESSIONS : Start(u) \/ ParentStep(u) \/ Interrupt(u) \/ Kill(u)
      BY <3>1 DEF Next, AllOver, vars, OpenMaps, EndRun, LoaderStep, LoadOpen, LoadMkdir, LoadPin,
                  LoadEnd, LoaderReady, AwaitOver, unload, ExitLoader, BecomeZombie, KillLoader
    <3>3. \A to : parent' = [parent EXCEPT ![u] = to] => u = s /\ to = "testing"
      BY DEF IInv, TypeInv
    <3> QED BY <3>1, <3>2, <3>3 DEF Start, ParentStep, CloseUnused, AwaitLoaded, CheckLoader,
                                    Interrupt, StartTest, Teardown, Leave, Kill, ParentAt
  <2>3. loader[s] # "zombie"
    BY <2>2 DEF CheckLoader, ParentAt, IInv, TypeInv
  <2> QED BY <2>1, <2>3 DEF IInv, PinsInv
<1>2. [BeginsMonitored]_vars <=>
        [\A s \in SESSIONS :
           parent[s] = "check" /\ parent'[s] = "testing" =>
             \/ pins.complete
             \/ loader[s] = "exiting"
             \/ s \in interrupted]_vars
  BY DEF BeginsMonitored
<1> QED BY <1>1, <1>2, SessionIInv, PTL DEF Spec, TestsMonitored
=============================================================================
