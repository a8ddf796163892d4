--------------------------- MODULE Replay_proofs ---------------------------
(***************************************************************************)
(* Proofs about Replay, for every number of calls and any files: the queue *)
(* is a gapless piece of the trace, and the replay implements ReplaySpec.  *)
(* That a replay ends is liveness and is checked by TLC only.              *)
(***************************************************************************)
EXTENDS Replay, SequenceTheorems, WellFoundedInduction, TLAPS

IsSyscall(e) == e.kind # "fput"

RECORDS == [kind : SYSCALLS \cup {"fput"}, op : Nat, ino : FILES \cup {NoFile}]
HANDLED == [call : RECORDS, hashes : Nat \cup {NoHash}]
BEFORE == {"tracing", "login"}
IN_HAND == {"search", "read", "handle"}

TypeInv ==
    /\ calls \in Nat
    /\ pending \subseteq FILES
    /\ trace \in Seq(RECORDS)
    /\ pos \in 0..Len(trace)
    /\ events_queue \in Seq(RECORDS)
    /\ handled \in Seq(HANDLED)
    /\ fput \in Nat \cup {NoHash}
    /\ pc \in BEFORE \cup IN_HAND \cup {"fetch", "ended", "failed"}

\* The records are numbered in the order of the calls; the record of a call
\* precedes those of the files it released.
TraceOrdered ==
    /\ \A i \in 1..Len(trace) : trace[i].op <= calls
    /\ \A i, j \in 1..Len(trace) :
         i < j => /\ trace[i].op <= trace[j].op
                  /\ IsSyscall(trace[j]) => trace[i].op < trace[j].op

\* The place of the record in hand, or of the one processed last.
At == pos - Len(events_queue)

WindowInv ==
    /\ Len(events_queue) <= pos
    /\ \A i \in 1..Len(events_queue) : events_queue[i] = trace[At + i]

NotBegun == pos = 0 /\ events_queue = <<>> /\ handled = <<>>

\* Records up to this place are processed.
Processed == IF pc = "fetch" THEN At ELSE At - 1
LastOp == IF handled = <<>> THEN trace[1].op ELSE handled[Len(handled)].call.op

\* What has been handled is what the processed part of the trace contains.
ProgressInv ==
    /\ Len(trace) > 0 /\ trace[1].kind = "execve"
    /\ Processed >= 1
    /\ LastOp <= trace[Processed].op
    /\ \A i \in 1..Processed : IsSyscall(trace[i]) => trace[i].op <= LastOp

\* The record found is the first release of the file after the close.
FoundAt(j) ==
    /\ Matches(trace[j]) /\ fput = trace[j].op
    /\ \A k \in (At + 1)..(j - 1) : ~Matches(trace[k])

InHandInv ==
    /\ event = trace[At] /\ IsSyscall(event)
    /\ pc = "search" => event.kind = "close"
    /\ pc = "read" =>
         /\ event.kind = "close"
         /\ \A k \in (At + 1)..pos : ~Matches(trace[k])
    /\ pc = "handle" =>
         IF event.kind = "close" THEN \E j \in (At + 1)..pos : FoundAt(j)
                                 ELSE fput = NoHash

IInv ==
    /\ TypeInv
    /\ TraceOrdered
    /\ WindowInv
    /\ pc \in BEFORE => NotBegun
    /\ pc \in IN_HAND \cup {"fetch"} => ProgressInv
    /\ pc \in IN_HAND => InHandInv

-----------------------------------------------------------------------------
(* The steps of the traced process.                                        *)

\* Before the replay every invariant but the order of the trace is idle.
LEMMA InitIInv == ReplayAssumption /\ Init => IInv
  BY DEF ReplayAssumption, Init, IInv, TypeInv, TraceOrdered, WindowInv, NotBegun, At,
         BEFORE, IN_HAND, Over

\* A record written, or lost, leaves the trace ordered if it has the number
\* of the last call, and a new one if it is the record of a call.
LEMMA WriteOrdered ==
  ASSUME IInv, NEW r \in RECORDS, Write(r),
         calls' \in Nat, calls <= calls', r.op = calls', IsSyscall(r) => calls < calls'
  PROVE  trace' \in Seq(RECORDS) /\ Len(trace') >= Len(trace) /\ TraceOrdered'
<1>1. calls \in Nat /\ trace \in Seq(RECORDS) /\ r.op \in Nat
  BY DEF IInv, TypeInv, RECORDS
<1>2. \A i \in 1..Len(trace) : trace[i].op \in Nat /\ trace[i].op <= calls'
  <2>1. \A i \in 1..Len(trace) : trace[i] \in RECORDS /\ trace[i].op <= calls
    BY <1>1 DEF IInv, TraceOrdered
  <2> QED  BY <1>1, <2>1 DEF RECORDS
<1>3. \A i, j \in 1..Len(trace) :
        i < j => /\ trace[i].op <= trace[j].op
                 /\ IsSyscall(trace[j]) => trace[i].op < trace[j].op
  BY DEF IInv, TraceOrdered
<1>4. CASE trace' = trace
  BY <1>1, <1>2, <1>3, <1>4 DEF TraceOrdered, IsSyscall
<1>5. CASE trace' = Append(trace, r)
  <2>1. /\ trace' \in Seq(RECORDS) /\ Len(trace') = Len(trace) + 1
        /\ \A i \in 1..Len(trace) : trace'[i] = trace[i]
        /\ trace'[Len(trace) + 1] = r
    BY <1>1, <1>5
  <2>2. \A i \in 1..Len(trace') : trace'[i].op <= calls'
    BY <1>1, <1>2, <2>1
  <2>3. ASSUME NEW i \in 1..Len(trace'), NEW j \in 1..Len(trace'), i < j
        PROVE  /\ trace'[i].op <= trace'[j].op
               /\ IsSyscall(trace'[j]) => trace'[i].op < trace'[j].op
    <3>1. CASE j <= Len(trace)
      BY <1>3, <2>1, <2>3, <3>1
    <3>2. CASE j = Len(trace) + 1
      <4>1. i \in 1..Len(trace) /\ trace'[i] = trace[i] /\ trace[i].op \in Nat
        BY <1>2, <2>1, <2>3, <3>2
      <4>2. trace[i].op <= calls /\ trace'[j] = r
        BY <4>1, <2>1, <3>2 DEF IInv, TraceOrdered
      <4> QED  BY <1>1, <1>2, <4>1, <4>2
    <3> QED  BY <2>1, <3>1, <3>2
  <2> QED  BY <2>1, <2>2, <2>3 DEF TraceOrdered, IsSyscall
<1> QED  BY <1>4, <1>5 DEF Write

LEMMA TracedStep ==
  ASSUME ReplayAssumption, IInv, Traced PROVE IInv'
<1>1. ASSUME NEW kind \in SYSCALLS, NEW ino \in FILES \cup {NoFile}, Call(kind, ino)
      PROVE  IInv'
  <2> DEFINE r == Entry(kind, calls', IF kind = "close" THEN ino ELSE NoFile)
  <2>1. calls \in Nat /\ calls' = calls + 1
    BY <1>1 DEF Call, IInv, TypeInv
  <2>2. r \in RECORDS /\ r.op = calls'
    BY <2>1 DEF Entry, RECORDS
  <2>3. trace' \in Seq(RECORDS) /\ Len(trace') >= Len(trace) /\ TraceOrdered'
    BY <1>1, <2>1, <2>2, WriteOrdered DEF Call
  <2>4. pc = "tracing" /\ NotBegun /\ UNCHANGED <<pos, events_queue, event, fput, handled, pc>>
    BY <1>1 DEF Call, IInv, BEFORE, replayVars
  <2>5. pending' \subseteq FILES
    BY <1>1 DEF Call
  <2>6. TypeInv' /\ WindowInv'
    BY <2>1, <2>3, <2>4, <2>5 DEF IInv, TypeInv, WindowInv, At, NotBegun
  <2> QED  BY <2>3, <2>4, <2>6 DEF IInv, NotBegun, BEFORE, IN_HAND
<1>2. ASSUME NEW ino \in FILES, Release(ino) PROVE IInv'
  <2> DEFINE r == Entry("fput", calls, ino)
  <2>1. calls \in Nat /\ calls' = calls
    BY <1>2 DEF Release, IInv, TypeInv
  <2>2. r \in RECORDS /\ r.op = calls' /\ ~IsSyscall(r)
    BY <2>1 DEF Entry, RECORDS, IsSyscall
  <2>3. trace' \in Seq(RECORDS) /\ Len(trace') >= Len(trace) /\ TraceOrdered'
    BY <1>2, <2>1, <2>2, WriteOrdered DEF Release
  <2>4. pc = "tracing" /\ NotBegun /\ UNCHANGED <<pos, events_queue, event, fput, handled, pc>>
    BY <1>2 DEF Release, IInv, BEFORE, replayVars
  <2>5. pending' \subseteq FILES
    BY <1>2 DEF Release, IInv, TypeInv
  <2>6. TypeInv' /\ WindowInv'
    BY <2>1, <2>3, <2>4, <2>5 DEF IInv, TypeInv, WindowInv, At, NotBegun
  <2> QED  BY <2>3, <2>4, <2>6 DEF IInv, NotBegun, BEFORE, IN_HAND
<1>3. CASE Exit
  BY <1>3 DEF Exit, IInv, TypeInv, TraceOrdered, WindowInv, At, NotBegun, BEFORE, IN_HAND,
              traceVars, replayVars
<1> QED  BY <1>1, <1>2, <1>3 DEF Traced

-----------------------------------------------------------------------------
(* The steps of the replay, which leave the trace as it is.                *)

\* The state of a replay, with the types of its parts.
LEMMA Facts ==
  ASSUME IInv
  PROVE  /\ trace \in Seq(RECORDS) /\ events_queue \in Seq(RECORDS)
         /\ Len(trace) \in Nat /\ Len(events_queue) \in Nat
         /\ pos \in Nat /\ pos <= Len(trace)
         /\ Len(events_queue) <= pos /\ At \in Nat /\ pos = At + Len(events_queue)
         /\ \A i \in 1..Len(trace) : /\ trace[i] \in RECORDS /\ trace[i].op \in Nat
                                      /\ trace[i].kind \in SYSCALLS \cup {"fput"}
         /\ \A i \in 1..Len(events_queue) : events_queue[i] = trace[At + i]
<1>1. trace \in Seq(RECORDS) /\ events_queue \in Seq(RECORDS) /\ pos \in 0..Len(trace)
  BY DEF IInv, TypeInv
<1>2. \A i \in 1..Len(trace) : trace[i] \in RECORDS
  BY <1>1
<1> QED  BY <1>1, <1>2 DEF IInv, WindowInv, At, RECORDS

\* The number of the call handled last is a number.
LEMMA LastOpNat ==
  ASSUME IInv, ProgressInv PROVE LastOp \in Nat
<1>1. CASE handled = <<>>
  BY <1>1, Facts DEF LastOp, ProgressInv
<1>2. CASE handled # <<>>
  <2>1. handled \in Seq(HANDLED)
    BY DEF IInv, TypeInv
  <2>2. handled[Len(handled)] \in HANDLED
    BY <2>1, <1>2
  <2> QED  BY <1>2, <2>2 DEF LastOp, HANDLED, RECORDS
<1> QED  BY <1>1, <1>2

\* _replay_login takes the first record and nothing else.
LEMMA LoginStep ==
  ASSUME IInv, replay_login PROVE IInv'
<1>1. pc = "login" /\ NotBegun /\ UNCHANGED <<calls, pending, trace, events_queue, event, fput, handled>>
  BY DEF replay_login, IInv, BEFORE, traceVars
<1>2. TraceOrdered'
  BY <1>1 DEF IInv, TraceOrdered
<1>3. CASE pc' = "fetch" /\ HasNext /\ trace[pos + 1].kind = "execve"
  <2>1. pos' = 1 /\ pc' = "fetch" /\ Len(trace) > 0 /\ trace[1].kind = "execve"
    BY <1>1, <1>3, Facts DEF replay_login, NotBegun, HasNext
  <2>2. TypeInv' /\ WindowInv'
    BY <1>1, <2>1, Facts DEF IInv, TypeInv, WindowInv, NotBegun, At
  <2>3. Processed' = 1 /\ LastOp' = trace[1].op /\ trace[1].op \in Nat
    BY <1>1, <2>1, Facts DEF Processed, At, LastOp, NotBegun
  <2>4. ProgressInv'
    BY <1>1, <2>1, <2>3 DEF ProgressInv
  <2> QED  BY <1>2, <2>1, <2>2, <2>4 DEF IInv, BEFORE, IN_HAND
<1>4. CASE pc' = "failed"
  <2>1. pos' \in 0..Len(trace) /\ pos' \in Nat
    BY Facts DEF replay_login, HasNext
  <2>2. TypeInv' /\ WindowInv'
    BY <1>1, <1>4, <2>1 DEF IInv, TypeInv, WindowInv, NotBegun, At
  <2> QED  BY <1>2, <1>4, <2>2 DEF IInv, BEFORE, IN_HAND
<1> QED  BY <1>3, <1>4 DEF replay_login

\* A record is taken, from the queue or from the trace: either way it is the
\* one after the record processed last.
LEMMA FetchStep ==
  ASSUME ReplayAssumption, IInv, Fetch PROVE IInv'
<1>1. /\ pc = "fetch" /\ UNCHANGED <<calls, pending, trace, handled>> /\ fput' = NoHash
      /\ ProgressInv /\ Processed = At
  BY DEF Fetch, traceVars, IInv, IN_HAND, Processed
<1>2. TraceOrdered' /\ LastOp' = LastOp
  BY <1>1 DEF IInv, TraceOrdered, LastOp
<1>3. CASE event' # event \/ pos' # pos \/ events_queue' # events_queue \/ pc' # "ended"
  <2>1. /\ events_queue' \in Seq(RECORDS) /\ pos' \in 0..Len(trace)
        /\ At' = At + 1 /\ event' = trace[At + 1] /\ pc' = After(event')
        /\ At + 1 \in 1..Len(trace) /\ WindowInv'
    <3>1. CASE events_queue # <<>> /\ event' = Head(events_queue)
               /\ events_queue' = Tail(events_queue) /\ pc' = After(event') /\ pos' = pos
      <4>1. /\ Len(events_queue) > 0 /\ event' = events_queue[1]
            /\ events_queue' \in Seq(RECORDS) /\ Len(events_queue') = Len(events_queue) - 1
            /\ \A i \in 1..Len(events_queue') : events_queue'[i] = events_queue[i + 1]
        BY <3>1, Facts
      <4>2. At' = At + 1
        BY <3>1, <4>1, Facts DEF At
      <4>3. \A i \in 1..Len(events_queue') : events_queue'[i] = trace[At' + i]
        BY <4>1, <4>2, Facts
      <4> QED  BY <1>1, <3>1, <4>1, <4>2, <4>3, Facts DEF WindowInv
    <3>2. CASE events_queue = <<>> /\ HasNext /\ event' = trace[pos + 1] /\ pos' = pos + 1
               /\ pc' = After(event') /\ events_queue' = events_queue
      BY <1>1, <3>2, Facts DEF HasNext, At, WindowInv
    <3> QED  BY <1>3, <3>1, <3>2 DEF Fetch
  <2>2. /\ trace[At + 1].kind \in SYSCALLS \cup {"fput"}
        /\ trace[At + 1].op \in Nat /\ trace[At].op \in Nat /\ At \in 1..Len(trace)
        /\ LastOp <= trace[At].op
    BY <1>1, <2>1, Facts DEF ProgressInv
  <2>3. LastOp \in Nat
    BY <1>1, LastOpNat
  <2>4. LastOp <= trace[At + 1].op
    <3>1. trace[At].op <= trace[At + 1].op
      BY <2>1, <2>2 DEF IInv, TraceOrdered
    <3> QED  BY <2>2, <2>3, <3>1
  <2>5. CASE trace[At + 1].kind = "fput"
    <3>1. pc' = "fetch"
      BY <2>1, <2>5 DEF After
    <3>2. Processed' = At + 1
      BY <2>1, <3>1 DEF Processed
    <3>3. ASSUME NEW i \in 1..(At + 1), IsSyscall(trace[i]) PROVE trace[i].op <= LastOp
      BY <1>1, <2>1, <2>5, <3>3, Facts DEF ProgressInv, IsSyscall
    <3>4. ProgressInv'
      BY <1>1, <1>2, <2>1, <2>4, <3>2, <3>3, Facts DEF ProgressInv, IsSyscall
    <3>5. TypeInv'
      BY <1>1, <2>1, <3>1 DEF IInv, TypeInv
    <3> QED  BY <1>2, <2>1, <3>1, <3>4, <3>5 DEF IInv, IN_HAND, BEFORE
  <2>6. CASE trace[At + 1].kind # "fput"
    <3>1. pc' = IF trace[At + 1].kind = "close" THEN "search" ELSE "handle"
      BY <2>1, <2>6 DEF After
    <3>2. Processed' = At
      BY <2>1, <3>1, Facts DEF Processed
    <3>3. ProgressInv'
      BY <1>1, <1>2, <3>2 DEF ProgressInv, IsSyscall
    <3>4. TypeInv'
      BY <1>1, <2>1, <3>1 DEF IInv, TypeInv, IN_HAND
    <3>5. InHandInv'
      BY <1>1, <2>1, <2>6, <3>1 DEF InHandInv, IsSyscall
    <3> QED  BY <1>2, <2>1, <3>1, <3>3, <3>4, <3>5 DEF IInv, IN_HAND, BEFORE
  <2> QED  BY <2>5, <2>6
<1>4. CASE UNCHANGED <<event, pos, events_queue>> /\ pc' = "ended"
  <2>1. TypeInv' /\ WindowInv'
    BY <1>1, <1>4 DEF IInv, TypeInv, WindowInv, At
  <2> QED  BY <1>2, <1>4, <2>1 DEF IInv, IN_HAND, BEFORE
<1> QED  BY <1>3, <1>4

\* A set of numbers that is not empty has a least member.
LEMMA LeastElement ==
  ASSUME NEW S \in SUBSET Nat, S # {}
  PROVE  \E i \in S : \A j \in S : i <= j
<1> DEFINE R == OpToRel(<, Nat)
<1>1. IsWellFoundedOn(R, Nat)
  BY NatLessThanWellFounded
<1> HIDE DEF R
<1>2. PICK i \in S : \A j \in S : ~(<<j, i>> \in R)
  BY <1>1, WFMin
<1>3. \A j \in S : j < i => <<j, i>> \in R
  BY DEF R, OpToRel
<1>4. ASSUME NEW j \in S PROVE i <= j
  <2>1. ~(j < i)
    BY <1>2, <1>3
  <2>2. i \in Nat /\ j \in Nat
    OBVIOUS
  <2> QED  BY <2>1, <2>2
<1> QED  BY <1>4

\* A search leaves the place of the close, and what was processed, alone.
LEMMA SearchKeeps ==
  ASSUME IInv, pc \in IN_HAND, pc' \in IN_HAND, At' = At,
         UNCHANGED <<calls, pending, trace, event, handled>>
  PROVE  TraceOrdered' /\ ProgressInv' /\ event' = trace'[At'] /\ IsSyscall(event')
<1>1. TraceOrdered' /\ LastOp' = LastOp
  BY DEF IInv, TraceOrdered, LastOp
<1>2. Processed' = Processed
  BY DEF Processed, IN_HAND
<1>3. ProgressInv /\ InHandInv
  BY DEF IInv
<1> QED  BY <1>1, <1>2, <1>3 DEF ProgressInv, InHandInv, IsSyscall

LEMMA SearchQueueStep ==
  ASSUME ReplayAssumption, IInv, SearchQueue PROVE IInv'
<1> DEFINE found == {i \in DOMAIN events_queue : Matches(events_queue[i])}
<1>1. /\ pc = "search" /\ InHandInv /\ event.kind = "close" /\ At' = At
      /\ UNCHANGED <<calls, pending, trace, pos, events_queue, event, handled>>
  BY DEF SearchQueue, traceVars, IInv, IN_HAND, InHandInv, At
<1>2. WindowInv' /\ DOMAIN events_queue = 1..Len(events_queue)
  BY <1>1, Facts DEF IInv, WindowInv
<1>3. CASE found = {}
  <2>1. pc' = "read" /\ fput' = fput
    BY <1>3 DEF SearchQueue
  <2>2. TraceOrdered' /\ ProgressInv' /\ event' = trace'[At'] /\ IsSyscall(event')
    BY <1>1, <2>1, SearchKeeps DEF IN_HAND
  <2>3. ASSUME NEW k \in (At + 1)..pos PROVE ~Matches(trace[k])
    <3>1. k - At \in 1..Len(events_queue) /\ events_queue[k - At] = trace[At + (k - At)]
      BY Facts
    <3>2. ~Matches(events_queue[k - At])
      BY <1>2, <1>3, <3>1
    <3> QED  BY <3>1, <3>2, Facts
  <2>4. InHandInv'
    BY <1>1, <2>1, <2>2, <2>3 DEF InHandInv, Matches, IsSyscall
  <2>5. TypeInv'
    BY <1>1, <2>1 DEF IInv, TypeInv, IN_HAND
  <2> QED  BY <1>2, <2>1, <2>2, <2>4, <2>5 DEF IInv, IN_HAND, BEFORE
<1>4. CASE found # {}
  <2> DEFINE first == CHOOSE i \in found : \A j \in found : i <= j
  <2>1. pc' = "handle" /\ fput' = events_queue[first].op
    BY <1>4 DEF SearchQueue
  <2>2. first \in found /\ \A j \in found : first <= j
    <3>1. found \subseteq Nat
      BY <1>2
    <3>2. \E i \in found : \A j \in found : i <= j
      BY <1>4, <3>1, LeastElement
    <3> QED  BY <3>2
  <2>3. TraceOrdered' /\ ProgressInv' /\ event' = trace'[At'] /\ IsSyscall(event')
    BY <1>1, <2>1, SearchKeeps DEF IN_HAND
  <2>4. /\ At + first \in (At + 1)..pos /\ events_queue[first] = trace[At + first]
        /\ Matches(trace[At + first]) /\ fput' = trace[At + first].op
    BY <1>2, <2>1, <2>2, Facts
  <2>5. ASSUME NEW k \in (At + 1)..((At + first) - 1) PROVE ~Matches(trace[k])
    <3>1. k - At \in 1..Len(events_queue) /\ events_queue[k - At] = trace[At + (k - At)]
          /\ k - At < first /\ At + (k - At) = k /\ first \in Nat
      BY <1>2, <2>2, <2>4, Facts
    <3>2. k - At \notin found
      BY <2>2, <3>1
    <3> QED  BY <1>2, <3>1, <3>2
  <2> HIDE DEF first
  <2>6. PICK m \in (At + 1)..pos : /\ Matches(trace[m]) /\ fput' = trace[m].op
                                  /\ \A k \in (At + 1)..(m - 1) : ~Matches(trace[k])
    <3> DEFINE n == At + first
    <3>1. n \in (At + 1)..pos /\ Matches(trace[n]) /\ fput' = trace[n].op
      BY <2>4
    <3>2. \A k \in (At + 1)..(n - 1) : ~Matches(trace[k])
      BY <2>5
    <3> HIDE DEF n
    <3> QED  BY <3>1, <3>2
  <2>7. InHandInv'
    <3>1. FoundAt(m)'
      BY <1>1, <2>6 DEF FoundAt, Matches
    <3> QED  BY <1>1, <2>1, <2>3, <2>6, <3>1 DEF InHandInv
  <2>8. TypeInv'
    <3>1. fput' \in Nat
      BY <2>4, Facts
    <3> QED  BY <1>1, <2>1, <3>1 DEF IInv, TypeInv, IN_HAND
  <2> QED  BY <1>2, <2>1, <2>3, <2>7, <2>8 DEF IInv, IN_HAND, BEFORE
<1> QED  BY <1>3, <1>4

LEMMA ReadAheadStep ==
  ASSUME ReplayAssumption, IInv, ReadAhead PROVE IInv'
<1>1. /\ pc = "read" /\ InHandInv /\ event.kind = "close"
      /\ \A k \in (At + 1)..pos : ~Matches(trace[k])
      /\ UNCHANGED <<calls, pending, trace, event, handled>>
  BY DEF ReadAhead, traceVars, IInv, IN_HAND, InHandInv
<1>2. CASE HasNext
  <2> DEFINE e == trace[pos + 1]
  <2>1. /\ events_queue' = Append(events_queue, e) /\ pos' = pos + 1
        /\ fput' = IF Matches(e) THEN e.op ELSE fput
        /\ pc' = IF Matches(e) THEN "handle" ELSE "read"
    BY <1>2 DEF ReadAhead
  <2>2. pos + 1 \in 1..Len(trace) /\ e \in RECORDS /\ e.op \in Nat
    BY <1>2, Facts DEF HasNext
  <2>3. /\ events_queue' \in Seq(RECORDS) /\ Len(events_queue') = Len(events_queue) + 1
        /\ \A i \in 1..Len(events_queue) : events_queue'[i] = events_queue[i]
        /\ events_queue'[Len(events_queue) + 1] = e
    BY <2>1, <2>2, Facts
  <2>4. At' = At
    BY <2>1, <2>3, Facts DEF At
  <2>5. ASSUME NEW i \in 1..Len(events_queue') PROVE events_queue'[i] = trace[At + i]
    <3>1. CASE i \in 1..Len(events_queue)
      BY <2>3, <3>1, Facts
    <3>2. CASE i = Len(events_queue) + 1
      BY <2>3, <3>2, Facts
    <3> QED  BY <2>3, <3>1, <3>2, Facts
  <2>6. WindowInv'
    <3>1. Len(events_queue') <= pos'
      BY <2>1, <2>3, Facts
    <3>2. \A i \in 1..Len(events_queue') : events_queue'[i] = trace'[At' + i]
      BY <1>1, <2>4, <2>5
    <3> QED  BY <3>1, <3>2 DEF WindowInv
  <2>7. TypeInv'
    BY <1>1, <2>1, <2>2, <2>3 DEF IInv, TypeInv, IN_HAND
  <2>8. TraceOrdered' /\ ProgressInv' /\ event' = trace'[At'] /\ IsSyscall(event')
    BY <1>1, <2>1, <2>4, SearchKeeps DEF IN_HAND
  <2>9. CASE Matches(e)
    <3>1. PICK m \in (At + 1)..pos' : m = pos + 1
      <4>1. pos + 1 \in (At + 1)..pos'
        BY <2>1, Facts
      <4> QED  BY <4>1
    <3>2. FoundAt(m)'
      BY <1>1, <2>1, <2>4, <2>9, <3>1, Facts DEF FoundAt, Matches
    <3>3. InHandInv'
      BY <1>1, <2>1, <2>4, <2>8, <2>9, <3>1, <3>2 DEF InHandInv
    <3> QED  BY <2>1, <2>6, <2>7, <2>8, <2>9, <3>3 DEF IInv, IN_HAND, BEFORE
  <2>10. CASE ~Matches(e)
    <3>1. \A k \in (At + 1)..pos' : ~Matches(trace[k])
      BY <1>1, <2>1, <2>10, Facts
    <3>2. InHandInv'
      BY <1>1, <2>1, <2>4, <2>8, <2>10, <3>1 DEF InHandInv, Matches
    <3> QED  BY <2>1, <2>6, <2>7, <2>8, <2>10, <3>2 DEF IInv, IN_HAND, BEFORE
  <2> QED  BY <2>9, <2>10
<1>3. CASE ~HasNext
  <2>1. pc' = "failed" /\ UNCHANGED <<events_queue, fput, pos>>
    BY <1>3 DEF ReadAhead
  <2>2. TypeInv' /\ WindowInv' /\ TraceOrdered'
    BY <1>1, <2>1 DEF IInv, TypeInv, WindowInv, At, TraceOrdered
  <2> QED  BY <2>1, <2>2 DEF IInv, IN_HAND, BEFORE
<1> QED  BY <1>2, <1>3

LEMMA HandleStep ==
  ASSUME ReplayAssumption, IInv, handle_syscall PROVE IInv'
<1>1. /\ pc = "handle" /\ InHandInv /\ ProgressInv
      /\ UNCHANGED <<calls, pending, trace, pos, events_queue, event, fput>>
  BY DEF handle_syscall, traceVars, IInv, IN_HAND
<1>2. TraceOrdered' /\ WindowInv' /\ At' = At
  BY <1>1 DEF IInv, TraceOrdered, WindowInv, At
<1>3. CASE handled' = handled /\ pc' \in {"ended", "failed"}
  <2>1. TypeInv'
    BY <1>1, <1>3 DEF IInv, TypeInv
  <2> QED  BY <1>2, <1>3, <2>1 DEF IInv, IN_HAND, BEFORE
<1>4. CASE handled' = Append(handled, [call |-> event, hashes |-> fput]) /\ pc' = "fetch"
  <2>1. /\ At \in 1..Len(trace) /\ event = trace[At] /\ event \in RECORDS
        /\ event.op \in Nat /\ IsSyscall(event)
    <3>1. At >= 1 /\ At <= Len(trace)
      BY <1>1, Facts DEF ProgressInv, Processed
    <3> QED  BY <1>1, <3>1, Facts DEF InHandInv
  <2>2. /\ handled \in Seq(HANDLED) /\ fput \in Nat \cup {NoHash}
        /\ [call |-> event, hashes |-> fput] \in HANDLED
    BY <2>1 DEF IInv, TypeInv, HANDLED
  <2>3. handled' \in Seq(HANDLED) /\ handled' # <<>>
        /\ handled'[Len(handled')] = [call |-> event, hashes |-> fput]
    BY <1>4, <2>2
  <2>4. LastOp' = trace[At].op /\ Processed' = At
    BY <1>2, <1>4, <2>1, <2>3 DEF LastOp, Processed
  <2>5. TypeInv'
    BY <1>1, <1>4, <2>3 DEF IInv, TypeInv
  <2>6. ASSUME NEW i \in 1..At PROVE trace[i].op <= trace[At].op
    BY <2>1, Facts DEF IInv, TraceOrdered
  <2>7. ProgressInv'
    BY <1>1, <2>1, <2>4, <2>6 DEF ProgressInv, IsSyscall
  <2> QED  BY <1>2, <1>4, <2>5, <2>7 DEF IInv, IN_HAND, BEFORE
<1> QED  BY <1>3, <1>4 DEF handle_syscall

-----------------------------------------------------------------------------
(* The theorems.                                                           *)

LEMMA NextIInv ==
  ASSUME ReplayAssumption, IInv, [Next]_vars PROVE IInv'
<1>1. CASE UNCHANGED vars
  <2>1. UNCHANGED <<calls, pending, trace, pos, events_queue, event, fput, handled, pc>>
    BY <1>1 DEF vars, traceVars, replayVars
  <2>2. /\ At' = At /\ Processed' = Processed /\ LastOp' = LastOp
        /\ TypeInv' /\ TraceOrdered' /\ WindowInv' /\ (NotBegun => NotBegun')
    BY <2>1 DEF At, Processed, LastOp, IInv, TypeInv, TraceOrdered, WindowInv, NotBegun
  <2>3. ProgressInv => ProgressInv'
    BY <2>1, <2>2 DEF ProgressInv
  <2>4. InHandInv => InHandInv'
    BY <2>1, <2>2 DEF InHandInv, FoundAt, Matches
  <2> QED  BY <2>1, <2>2, <2>3, <2>4 DEF IInv
<1> QED  BY <1>1, TracedStep, LoginStep, FetchStep, SearchQueueStep, ReadAheadStep, HandleStep
         DEF Next, replay_trace

\* The inductive invariant of the replay holds in every state.
THEOREM ReplayIInv == Spec => []IInv
<1>1. Init => IInv
  BY InitIInv, ReplayAssumption
<1>2. IInv /\ [Next]_vars => IInv'
  BY NextIInv, ReplayAssumption
<1> QED  BY <1>1, <1>2, PTL DEF Spec

\* However long the trace and wherever the searches for releases begin, what
\* is read and not handled is a gapless piece of the trace (events_queue of
\* _replay_trace and __seek_matching_fput).
THEOREM WindowHolds == Spec => []QueueIsWindow
<1>1. IInv => QueueIsWindow
  <2> SUFFICES ASSUME IInv PROVE QueueIsWindow
    OBVIOUS
  <2> DEFINE window == SubSeq(trace, pos - Len(events_queue) + 1, pos)
  <2>1. /\ At + 1 \in 1..(Len(trace) + 1) /\ pos \in At..Len(trace)
        /\ pos - Len(events_queue) = At
    BY Facts DEF At
  <2>2. /\ window \in Seq(RECORDS) /\ Len(window) = Len(events_queue)
        /\ \A i \in 1..Len(events_queue) : window[i] = trace[At + i]
    <3> DEFINE first == At + 1
    <3>1. pos - Len(events_queue) + 1 = first /\ first \in Int /\ pos \in Int
      BY <2>1, Facts
    <3>2. \A i \in first..pos : trace[i] \in RECORDS
      BY <2>1, Facts
    <3>3. \A i \in 1..Len(events_queue) : first + i - 1 = At + i
      BY Facts
    <3>4. pos - first + 1 = Len(events_queue) /\ (~(first <= pos) => Len(events_queue) = 0)
      BY Facts
    <3> HIDE DEF first
    <3>5. window = SubSeq(trace, first, pos)
      BY <3>1, Zenon
    <3> HIDE DEF window
    <3>6. /\ window \in Seq(RECORDS)
          /\ Len(window) = IF first <= pos THEN pos - first + 1 ELSE 0
          /\ \A i \in 1..(pos - first + 1) : window[i] = trace[first + i - 1]
      <4>1. /\ SubSeq(trace, first, pos) \in Seq(RECORDS)
            /\ Len(SubSeq(trace, first, pos)) = IF first <= pos THEN pos - first + 1 ELSE 0
            /\ \A i \in 1..(pos - first + 1) :
                 SubSeq(trace, first, pos)[i] = trace[first + i - 1]
        BY <3>1, <3>2, SubSeqProperties
      <4> QED  BY <3>5, <4>1, Zenon
    <3> QED  BY <3>3, <3>4, <3>6
  <2>3. window = events_queue
    <3> HIDE DEF window
    <3> QED  BY <2>2, Facts, SeqEqual
  <2> QED  BY <2>3, Facts DEF QueueIsWindow
<1> QED  BY <1>1, ReplayIInv, PTL

-----------------------------------------------------------------------------
(* Refinement: each step of the replay is a step of ReplaySpec, or leaves  *)
(* its variables alone.                                                    *)

LEMMA ResultOf ==
  /\ pc = "tracing" => Result = "tracing"
  /\ pc \in {"login", "fetch"} \cup IN_HAND => Result = "replaying"
  /\ pc = "ended" => Result = "ended"
  /\ pc = "failed" => Result = "failed"
BY DEF Result, Over, IN_HAND

\* The monitor prints one record after the others.
LEMMA WriteRefines ==
  ASSUME IInv, pc = "tracing", pc' = pc, handled' = handled,
         NEW r \in RECORDS, Write(r)
  PROVE  [Promise!Next]_(Promise!absVars)
<1>1. Result = "tracing" /\ Result' = "tracing"
  BY ResultOf DEF Result
<1>2. CASE trace' = trace
  BY <1>1, <1>2 DEF Promise!absVars
<1>3. CASE trace' = Append(trace, r)
  <2>1. trace \in Seq(RECORDS) /\ trace' \in Seq(RECORDS)
    BY <1>3, Facts
  <2>2. Len(trace') = Len(trace) + 1
    BY <1>3, <2>1
  <2>3. SubSeq(trace', 1, Len(trace)) = trace
    BY <1>3, <2>1, AppendProperties
  <2> QED  BY <1>1, <2>2, <2>3 DEF Promise!Record, Promise!Next
<1> QED  BY <1>2, <1>3 DEF Write

\* The record in hand is the next call of the trace that waits to be handled.
LEMMA InHandIsNext ==
  ASSUME IInv, pc = "handle"
  PROVE  /\ Promise!LoggedIn
         /\ At \in DOMAIN trace /\ event = trace[At] /\ Promise!IsNext(At)
<1>1. ProgressInv /\ InHandInv /\ Processed = At - 1
  BY DEF IInv, IN_HAND, Processed
<1>2. /\ Promise!LoggedIn /\ At \in 2..Len(trace) /\ event = trace[At]
      /\ DOMAIN trace = 1..Len(trace)
  BY <1>1, Facts DEF ProgressInv, InHandInv, Promise!LoggedIn
<1>3. Promise!LastOp = LastOp /\ LastOp \in Nat
  BY <1>1, LastOpNat DEF Promise!LastOp, LastOp
<1>4. IsSyscall(trace[At]) /\ trace[At].op > LastOp
  <2>1. trace[At - 1].op < trace[At].op
    BY <1>1, <1>2 DEF IInv, TraceOrdered, InHandInv
  <2>2. LastOp <= trace[At - 1].op
    BY <1>1 DEF ProgressInv
  <2>3. trace[At - 1].op \in Nat /\ trace[At].op \in Nat
    BY <1>2, Facts
  <2> QED  BY <1>1, <1>2, <1>3, <2>1, <2>2, <2>3 DEF InHandInv
<1>5. ASSUME NEW j \in Promise!Waiting PROVE At <= j
  <2>1. j \in 1..Len(trace) /\ IsSyscall(trace[j]) /\ trace[j].op > LastOp
    BY <1>2, <1>3 DEF Promise!Waiting, Promise!IsSyscall, IsSyscall
  <2>2. ~(j <= At - 1)
    BY <1>1, <1>3, <2>1, Facts DEF ProgressInv
  <2> QED  BY <1>2, <2>1, <2>2
<1>6. At \in Promise!Waiting
  BY <1>2, <1>3, <1>4 DEF Promise!Waiting, Promise!IsSyscall, IsSyscall
<1> QED  BY <1>2, <1>5, <1>6 DEF Promise!IsNext

\* A close is given the hashes of its own release if that was recorded, else
\* of a later one of its file.
LEMMA OwnHashes ==
  ASSUME IInv, pc = "handle"
  PROVE  fput \in Promise!HashesFor(event)
<1>1. InHandInv /\ At \in DOMAIN trace /\ DOMAIN trace = 1..Len(trace) /\ event = trace[At]
  BY InHandIsNext, Facts DEF IInv, IN_HAND
<1>2. CASE event.kind # "close"
  BY <1>1, <1>2 DEF InHandInv, Promise!HashesFor
<1>3. CASE event.kind = "close"
  <2>1. PICK j \in (At + 1)..pos : FoundAt(j)
    BY <1>1, <1>3 DEF InHandInv
  <2> DEFINE later == {i \in DOMAIN trace : /\ trace[i].kind = "fput"
                                           /\ trace[i].ino = event.ino
                                           /\ trace[i].op >= event.op}
             own == {i \in later : trace[i].op = event.op}
  <2>2. /\ j \in 1..Len(trace) /\ At < j /\ fput = trace[j].op
        /\ trace[j].kind = "fput" /\ trace[j].ino = event.ino
        /\ trace[j].op \in Nat /\ event.op \in Nat
    BY <1>1, <2>1, Facts DEF FoundAt, Matches
  <2>3. j \in later
    <3>1. trace[At].op <= trace[j].op
      BY <1>1, <2>2 DEF IInv, TraceOrdered
    <3> QED  BY <1>1, <2>2, <3>1
  <2>4. ASSUME NEW k \in own PROVE trace[j].op = event.op
    <3>1. /\ k \in 1..Len(trace) /\ trace[k].kind = "fput" /\ trace[k].ino = event.ino
          /\ trace[k].op = event.op
      BY <1>1
    <3>2. ~(k < At)
      <4>1. k < At => trace[k].op < trace[At].op
        BY <1>1, <3>1 DEF IInv, TraceOrdered, InHandInv
      <4> QED  BY <1>1, <2>2, <3>1, <4>1
    <3>3. k # At
      BY <1>1, <1>3, <3>1
    <3>4. ~(k < j)
      BY <1>1, <2>1, <2>2, <3>1, <3>2, <3>3, Facts DEF FoundAt, Matches
    <3>5. trace[j].op <= trace[k].op
      BY <2>2, <3>1, <3>4 DEF IInv, TraceOrdered
    <3> QED  BY <2>2, <2>3, <3>1, <3>5
  <2>5. j \in IF own # {} THEN own ELSE later
    BY <2>3, <2>4
  <2>6. Promise!HashesFor(event) = {trace[i].op : i \in IF own # {} THEN own ELSE later}
    BY <1>3 DEF Promise!HashesFor, Promise!Releases
  <2> HIDE DEF own, later
  <2> QED  BY <2>2, <2>5, <2>6
<1> QED  BY <1>2, <1>3

\* At the end of the trace no call waits.
LEMMA EndRefines ==
  ASSUME IInv, Fetch, pc' = "ended"
  PROVE  Promise!End
<1>1. /\ pc = "fetch" /\ ProgressInv /\ Processed = At /\ UNCHANGED <<trace, handled>>
  BY DEF Fetch, traceVars, IInv, Processed
<1>2. events_queue = <<>> /\ ~HasNext
  BY DEF Fetch, After
<1>3. At = Len(trace) /\ DOMAIN trace = 1..Len(trace)
  BY <1>2, Facts DEF HasNext, At
<1>4. Promise!LastOp = LastOp /\ LastOp \in Nat
  BY <1>1, LastOpNat DEF Promise!LastOp, LastOp
<1>5. Promise!Waiting = {}
  BY <1>1, <1>3, <1>4, Facts DEF Promise!Waiting, Promise!IsSyscall, IsSyscall, ProgressInv
<1>6. Promise!LoggedIn
  BY <1>1, Facts DEF Promise!LoggedIn, ProgressInv
<1>7. Result = "replaying" /\ Result' = "ended"
  BY <1>1, ResultOf DEF Result, Over
<1> QED  BY <1>1, <1>5, <1>6, <1>7 DEF Promise!End

LEMMA HandleRefines ==
  ASSUME IInv, handle_syscall
  PROVE  Promise!Handle \/ Promise!End \/ Promise!Fail
<1>1. pc = "handle" /\ Result = "replaying" /\ trace' = trace
  BY ResultOf DEF handle_syscall, traceVars, IN_HAND
<1>2. /\ Promise!LoggedIn
      /\ At \in DOMAIN trace /\ event = trace[At] /\ Promise!IsNext(At)
  BY <1>1, InHandIsNext
<1>3. CASE handled' = Append(handled, [call |-> event, hashes |-> fput]) /\ pc' = "fetch"
  <2>1. Result' = "replaying"
    BY <1>3 DEF Result, Over
  <2>2. fput \in Promise!HashesFor(trace[At])
    BY <1>1, <1>2, OwnHashes
  <2> QED  BY <1>1, <1>2, <1>3, <2>1, <2>2 DEF Promise!Handle
<1>4. CASE pc' = "failed" /\ handled' = handled
  <2>1. Result' = "failed"
    BY <1>4 DEF Result, Over
  <2> QED  BY <1>1, <1>4, <2>1 DEF Promise!Fail
<1>5. CASE event.kind = "dirfd" /\ pc' = "ended" /\ handled' = handled
  <2>1. Result' = "ended"
    BY <1>5 DEF Result, Over
  <2> QED  BY <1>1, <1>2, <1>5, <2>1 DEF Promise!End
<1> QED  BY <1>3, <1>4, <1>5 DEF handle_syscall

LEMMA StepRefines ==
  ASSUME IInv, [Next]_vars
  PROVE  [Promise!Next]_(Promise!absVars)
<1> USE DEF Promise!Next
<1>1. ASSUME NEW kind \in SYSCALLS, NEW ino \in FILES \cup {NoFile}, Call(kind, ino)
      PROVE  [Promise!Next]_(Promise!absVars)
  <2> DEFINE r == Entry(kind, calls', IF kind = "close" THEN ino ELSE NoFile)
  <2>1. r \in RECORDS
    BY <1>1 DEF Call, IInv, TypeInv, Entry, RECORDS
  <2>2. Write(r) /\ pc = "tracing" /\ pc' = pc /\ handled' = handled
    BY <1>1 DEF Call, replayVars
  <2> HIDE DEF r
  <2> QED  BY <2>1, <2>2, WriteRefines
<1>2. ASSUME NEW ino \in FILES, Release(ino)
      PROVE  [Promise!Next]_(Promise!absVars)
  <2> DEFINE r == Entry("fput", calls, ino)
  <2>1. r \in RECORDS
    BY <1>2 DEF Release, IInv, TypeInv, Entry, RECORDS
  <2>2. Write(r) /\ pc = "tracing" /\ pc' = pc /\ handled' = handled
    BY <1>2 DEF Release, replayVars
  <2> HIDE DEF r
  <2> QED  BY <2>1, <2>2, WriteRefines
<1>3. CASE Exit
  <2>1. Result = "tracing" /\ Result' = "replaying" /\ UNCHANGED <<trace, handled>>
    BY <1>3 DEF Exit, Result, Over, traceVars, replayVars
  <2> QED  BY <2>1 DEF Promise!Begin
<1>4. CASE replay_login
  <2>1. Result = "replaying" /\ Result' \in {"replaying", "failed"} /\ UNCHANGED <<trace, handled>>
    BY <1>4 DEF replay_login, Result, Over, traceVars
  <2> QED  BY <2>1 DEF Promise!Fail, Promise!absVars
<1>5. CASE Fetch
  <2>1. pc = "fetch" /\ Result = "replaying" /\ UNCHANGED <<trace, handled>>
    BY <1>5 DEF Fetch, Result, Over, traceVars
  <2>2. pc' = "ended" \/ pc' \in {"fetch", "search", "handle"}
    BY <1>5 DEF Fetch, After
  <2>3. CASE pc' # "ended"
    <3>1. Result' = "replaying"
      BY <2>2, <2>3 DEF Result, Over
    <3> QED  BY <2>1, <3>1 DEF Promise!absVars
  <2> QED  BY <1>5, <2>3, EndRefines
<1>6. CASE SearchQueue
  <2>1. Result = "replaying" /\ Result' = "replaying" /\ UNCHANGED <<trace, handled>>
    BY <1>6 DEF SearchQueue, Result, Over, traceVars
  <2> QED  BY <2>1 DEF Promise!absVars
<1>7. CASE ReadAhead
  <2>1. Result = "replaying" /\ Result' \in {"replaying", "failed"} /\ UNCHANGED <<trace, handled>>
    BY <1>7 DEF ReadAhead, Result, Over, traceVars
  <2> QED  BY <2>1 DEF Promise!Fail, Promise!absVars
<1>8. CASE handle_syscall
  BY <1>8, HandleRefines
<1>9. CASE UNCHANGED vars
  BY <1>9 DEF vars, traceVars, replayVars, Result, Over, Promise!absVars
<1> QED  BY <1>1, <1>2, <1>3, <1>4, <1>5, <1>6, <1>7, <1>8, <1>9 DEF Next, Traced, replay_trace

\* The replay with its queue and its reading ahead implements the promise of
\* ReplaySpec: each call is handled once, in the order of the trace, and a
\* close with hashes of its own file, of its own release whenever that was
\* recorded (_replay_trace, __seek_matching_fput).
THEOREM ReplayKeepsPromise == Spec => KeepsPromise
<1>1. Init => Promise!Init
  BY DEF Init, Promise!Init, Result, Over
<1>2. IInv /\ [Next]_vars => [Promise!Next]_(Promise!absVars)
  BY StepRefines
<1> QED  BY <1>1, <1>2, ReplayIInv, PTL DEF Spec, KeepsPromise, Promise!Spec
=============================================================================
