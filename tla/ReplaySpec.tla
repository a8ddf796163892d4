----------------------------- MODULE ReplaySpec -----------------------------
(***************************************************************************)
(* What the replay of a trace promises (_replay_login and _replay_trace of *)
(* testing/spec_impl.py), without its queue and its reading ahead: after   *)
(* the login, each record of a system call is handed to its handler once,  *)
(* in the order of the trace, and a close with hashes that are those of    *)
(* the file it closed.                                                     *)
(*                                                                         *)
(* A record is [kind, op, ino]: op numbers the calls of the traced         *)
(* process, and the record of a release (__fput) has the number of the     *)
(* call that released the file.                                            *)
(***************************************************************************)
EXTENDS Naturals, Sequences

CONSTANT NoHash

VARIABLES
    trace,      \* the records the monitor printed
    handled,    \* what the handlers were called with: [call, hashes]
    result      \* "tracing", "replaying", "ended" or "failed"

absVars == <<trace, handled, result>>

IsSyscall(e) == e.kind # "fput"

\* The call handled last; the first record is the login's.
LastOp == IF handled = <<>> THEN trace[1].op ELSE handled[Len(handled)].call.op

\* The calls still to be replayed: those made after it, in trace order.
Waiting == {i \in DOMAIN trace : IsSyscall(trace[i]) /\ trace[i].op > LastOp}
IsNext(i) == i \in Waiting /\ \A j \in Waiting : i <= j

\* The releases whose hashes a close may be given: its own, and when the
\* record of that was lost, a later one of the same file.  A hash is named by
\* the call that released the file.
Releases(call) ==
    LET later == {i \in DOMAIN trace : /\ trace[i].kind = "fput"
                                       /\ trace[i].ino = call.ino
                                       /\ trace[i].op >= call.op}
        own   == {i \in later : trace[i].op = call.op}
    IN  {trace[i].op : i \in IF own # {} THEN own ELSE later}

HashesFor(call) == IF call.kind = "close" THEN Releases(call) ELSE {NoHash}

Init ==
    /\ trace = <<>>
    /\ handled = <<>>
    /\ result = "tracing"

\* The monitor prints a record; at the end the replay begins.
Record ==
    /\ result = "tracing"
    /\ Len(trace') = Len(trace) + 1
    /\ SubSeq(trace', 1, Len(trace)) = trace
    /\ UNCHANGED <<handled, result>>

Begin ==
    /\ result = "tracing"
    /\ result' = "replaying"
    /\ UNCHANGED <<trace, handled>>

\* The trace begins with the execve of the login.
LoggedIn == trace # <<>> /\ trace[1].kind = "execve"

Handle ==
    /\ result = "replaying" /\ LoggedIn
    /\ \E i \in DOMAIN trace :
         /\ IsNext(i)
         /\ \E hashes \in HashesFor(trace[i]) :
              handled' = Append(handled, [call |-> trace[i], hashes |-> hashes])
    /\ UNCHANGED <<trace, result>>

\* All calls are handled; or a handler raised StopIteration, which only a call
\* relative to a directory does.
End ==
    /\ result = "replaying" /\ LoggedIn
    /\ \/ Waiting = {}
       \/ \E i \in DOMAIN trace : IsNext(i) /\ trace[i].kind = "dirfd"
    /\ result' = "ended"
    /\ UNCHANGED <<trace, handled>>

\* No login, no release for a close, or an exception of a handler.
Fail ==
    /\ result = "replaying"
    /\ result' = "failed"
    /\ UNCHANGED <<trace, handled>>

Next == Record \/ Begin \/ Handle \/ End \/ Fail

Spec == Init /\ [][Next]_absVars

\* The promise of progress: a replay that has begun comes to its end.
Ends == (result = "replaying") ~> (result \in {"ended", "failed"})
=============================================================================
