------------------------------- MODULE Replay -------------------------------
(***************************************************************************)
(* The replay of a trace (_replay_login, _replay_trace, _handle_syscall    *)
(* and __seek_matching_fput of testing/spec_impl.py).  IMA and EVM store   *)
(* the hashes of a file when its last reference is dropped, in __fput,     *)
(* after the record of close has been written; so the replay of a close    *)
(* reads ahead for the record of __fput of the same inode, and keeps what  *)
(* it has read in a queue.                                                 *)
(*                                                                         *)
(* The traced process and its monitor are external: a call leaves a        *)
(* record, and the files it released leave records of __fput after it, on  *)
(* the return to user mode.  A record is lost when the ring buffer is      *)
(* full.  op numbers the calls and is not in the code's records.           *)
(***************************************************************************)
EXTENDS Naturals, Sequences

CONSTANTS
    FILES,          \* inodes, each for a pair of dev and ino
    MAX_CALLS,      \* bound on the calls of the traced process
    NoFile,         \* the inode of a failed close: none was looked up
    NoHash          \* a call that needs no hashes

ASSUME ReplayAssumption ==
    /\ MAX_CALLS \in Nat
    /\ NoFile \notin FILES
    /\ NoHash \notin Nat

VARIABLES
    calls,          \* calls made so far
    pending,        \* files the last call released, to be recorded
    trace,          \* the records printed
    pos,            \* records read from the trace by trace_iter
    events_queue,   \* records read ahead and not yet processed
    event,          \* the record in hand
    fput,           \* the call whose release the search found, or NoHash
    handled,        \* calls of the handlers, in order
    pc

traceVars  == <<calls, pending, trace>>
replayVars == <<pos, events_queue, event, fput, handled>>
vars == <<traceVars, replayVars, pc>>

\* dirfd stands for openat and fchdir, whose handlers look up the path of a
\* descriptor; other for the remaining calls, an execve that failed included.
SYSCALLS == {"execve", "close", "dirfd", "other"}
Entry(kind, op, ino) == [kind |-> kind, op |-> op, ino |-> ino]
NoEvent == Entry("none", 0, NoFile)

Init ==
    /\ calls = 0
    /\ pending = {}
    /\ trace = <<>>
    /\ pos = 0
    /\ events_queue = <<>>
    /\ event = NoEvent
    /\ fput = NoHash
    /\ handled = <<>>
    /\ pc = "tracing"

-----------------------------------------------------------------------------
(* The traced process, whose first call is the execve of the test's        *)
(* program, and its monitor.                                               *)

\* A record is written, or lost.
Write(record) == trace' \in {Append(trace, record), trace}

\* close releases its file, or fails; another call may release a file, as
\* execve does, or an open that appraisal refuses.
Call(kind, ino) ==
    /\ pc = "tracing" /\ pending = {}
    /\ calls < MAX_CALLS
    /\ calls = 0 => kind = "execve"
    /\ calls' = calls + 1
    /\ pending' = {ino} \ {NoFile}
    /\ Write(Entry(kind, calls', IF kind = "close" THEN ino ELSE NoFile))
    /\ UNCHANGED <<replayVars, pc>>

Release(ino) ==
    /\ pc = "tracing" /\ ino \in pending
    /\ pending' = pending \ {ino}
    /\ Write(Entry("fput", calls, ino))
    /\ UNCHANGED <<calls, replayVars, pc>>

\* The program has ended, and what the monitor printed is the trace.
Exit ==
    /\ pc = "tracing" /\ pending = {} /\ calls > 0
    /\ pc' = "login"
    /\ UNCHANGED <<traceVars, replayVars>>

-----------------------------------------------------------------------------
(* The replay.  pc = "failed" is the end by an exception.                  *)

HasNext == pos < Len(trace)

\* Each of the three checks of _replay_login raises ValueError; the record of
\* __fput has no key 'syscall', which is a KeyError.  tt.login raises too, if
\* the mediator does not know the program or the model refuses the login.
replay_login ==
    /\ pc = "login"
    /\ pos' = IF HasNext THEN pos + 1 ELSE pos
    /\ \/ pc' = "fetch" /\ HasNext /\ trace[pos + 1].kind = "execve"
       \/ pc' = "failed"
    /\ UNCHANGED <<traceVars, events_queue, event, fput, handled>>

\* Records other than those of calls are skipped.
After(e) == CASE e.kind = "fput"  -> "fetch"
              [] e.kind = "close" -> "search"
              [] OTHER            -> "handle"

\* Seeded slip: the trace is read on although records wait in the queue.
Fetch_Trace ==
    /\ pc = "fetch"
    /\ \/ /\ HasNext
          /\ event' = trace[pos + 1]
          /\ pos' = pos + 1
          /\ pc' = After(event')
          /\ UNCHANGED events_queue
       \/ /\ ~HasNext
          /\ pc' = "ended"
          /\ UNCHANGED <<event, events_queue, pos>>
    /\ fput' = NoHash
    /\ UNCHANGED <<traceVars, handled>>

\* The next record, from the queue first; the end of the trace, StopIteration,
\* ends the replay.
Fetch ==
    /\ pc = "fetch"
    /\ \/ /\ events_queue # <<>>
          /\ event' = Head(events_queue)
          /\ events_queue' = Tail(events_queue)
          /\ pc' = After(event')
          /\ UNCHANGED pos
       \/ /\ events_queue = <<>> /\ HasNext
          /\ event' = trace[pos + 1]
          /\ pos' = pos + 1
          /\ pc' = After(event')
          /\ UNCHANGED events_queue
       \/ /\ events_queue = <<>> /\ ~HasNext
          /\ pc' = "ended"
          /\ UNCHANGED <<event, events_queue, pos>>
    /\ fput' = NoHash
    /\ UNCHANGED <<traceVars, handled>>

\* Seeded slip: any release will do.
Matches_Any(e) == e.kind = "fput"

Matches(e) == e.kind = "fput" /\ e.ino = event.ino

\* __seek_matching_fput: first the queue, from its head.  What is found stays
\* where it is.
SearchQueue ==
    /\ pc = "search"
    /\ LET found == {i \in DOMAIN events_queue : Matches(events_queue[i])} IN
       IF found = {}
       THEN pc' = "read" /\ UNCHANGED fput
       ELSE /\ fput' = events_queue[CHOOSE i \in found : \A j \in found : i <= j].op
            /\ pc' = "handle"
    /\ UNCHANGED <<traceVars, pos, events_queue, event, handled>>

\* Seeded slip: at the end of the trace the search waits for more.
ReadAhead_Waits ==
    /\ pc = "read"
    /\ IF HasNext
       THEN LET e == trace[pos + 1] IN
              /\ events_queue' = Append(events_queue, e)
              /\ fput' = IF Matches(e) THEN e.op ELSE fput
              /\ pc' = IF Matches(e) THEN "handle" ELSE "read"
              /\ pos' = pos + 1
       ELSE UNCHANGED <<events_queue, fput, pos, pc>>
    /\ UNCHANGED <<traceVars, event, handled>>

\* Then the trace, record by record; at its end ValueError.
ReadAhead ==
    /\ pc = "read"
    /\ IF HasNext
       THEN LET e == trace[pos + 1] IN
              /\ events_queue' = Append(events_queue, e)
              /\ fput' = IF Matches(e) THEN e.op ELSE fput
              /\ pc' = IF Matches(e) THEN "handle" ELSE "read"
              /\ pos' = pos + 1
       ELSE pc' = "failed" /\ UNCHANGED <<events_queue, fput, pos>>
    /\ UNCHANGED <<traceVars, event, handled>>

\* The handler of the call is run, with the hashes of the release found.  It
\* may raise: the model refuses the event, there is no handler of that name;
\* get_path of a directory that is gone raises StopIteration, which the loop
\* takes for the end of the trace.
handle_syscall ==
    /\ pc = "handle"
    /\ \/ /\ handled' = Append(handled, [call |-> event, hashes |-> fput])
          /\ pc' = "fetch"
       \/ /\ pc' = "failed"
          /\ UNCHANGED handled
       \/ /\ event.kind = "dirfd"
          /\ pc' = "ended"
          /\ UNCHANGED handled
    /\ UNCHANGED <<traceVars, pos, events_queue, event, fput>>

replay_trace == Fetch \/ SearchQueue \/ ReadAhead \/ handle_syscall
Over == pc \in {"ended", "failed"}

Traced == \/ \E kind \in SYSCALLS, ino \in FILES \cup {NoFile} : Call(kind, ino)
          \/ \E ino \in FILES : Release(ino)
          \/ Exit

Next == Traced \/ replay_login \/ replay_trace \/ (Over /\ UNCHANGED vars)

\* The replay is a loop over a finite text that nothing blocks.  Nothing is
\* assumed of the traced program.
Spec == Init /\ [][Next]_vars /\ WF_vars(replay_login \/ replay_trace)

-----------------------------------------------------------------------------
(* Properties.                                                             *)

Result == CASE pc = "tracing" -> "tracing"
            [] Over           -> pc
            [] OTHER          -> "replaying"

Promise == INSTANCE ReplaySpec WITH result <- Result

\* Each call of the trace is handled once, in the order of the trace, although
\* the search for __fput reads past calls not yet handled; a close is given
\* the hashes of its own release if that was recorded, else of a later one of
\* its file, never of an earlier one or of another file (_replay_trace,
\* __seek_matching_fput).
KeepsPromise == Promise!Spec

\* Between records, what has been read and not handled is in the queue, as a
\* gapless piece of the trace that ends where reading stopped: no record is
\* skipped or read twice, wherever a search began (events_queue.pop and
\* queue.append of _replay_trace and __seek_matching_fput).
QueueIsWindow ==
    /\ Len(events_queue) <= pos
    /\ events_queue = SubSeq(trace, pos - Len(events_queue) + 1, pos)

\* Once the program has ended, the replay comes to an end too: no search for a
\* release that is not in the trace goes on for ever (__seek_matching_fput).
ReplayEnds == Promise!Ends
=============================================================================
