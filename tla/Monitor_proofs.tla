--------------------------- MODULE Monitor_proofs ---------------------------
(***************************************************************************)
(* Proofs about Monitor, for any number of threads, files and calls, any   *)
(* size of the ring buffer and any depth of stacked file systems.          *)
(***************************************************************************)
EXTENDS Monitor, FiniteSetTheorems, SequenceTheorems, TLAPS

AT == {"dead", "user", "kernel", "common", "returned", "returning", "put"}
CALL ==
    [kind : KINDS \cup {"none", "exit"}, call : Nat, file : FILES \cup {None}, ok : BOOLEAN,
     made : Nat, nest : Nat]
DENTRY == [dentry : FILES \cup {None, Lower}, depth : Nat]

KernelType ==
    /\ comm \in [THREADS -> BOOLEAN]
    /\ at \in [THREADS -> AT]
    /\ cur \in [THREADS -> CALL]
    /\ pending \in [THREADS -> SUBSET FILES]
    /\ calls \in Nat
MapsType ==
    /\ DOMAIN args_map \subseteq THREADS
    /\ DOMAIN fput_data_map \subseteq KEYS /\ Cardinality(DOMAIN fput_data_map) <= FPUT_MAX
    /\ DOMAIN ima_data_map \subseteq THREADS
    /\ DOMAIN evm_data_map \subseteq THREADS
    /\ DOMAIN path_map \subseteq ATTR_KINDS \X THREADS
    /\ DOMAIN mode_map \subseteq ATTR_KINDS \X THREADS
    /\ DOMAIN mkdir_dentry \subseteq THREADS
RunType ==
    /\ lost \in BOOLEAN /\ dropped \in BOOLEAN /\ enabled \in BOOLEAN
    /\ reader \in {"off", "poll", "wait"}
    /\ enabled = (reader # "off")
RingType ==
    /\ ring \in Seq(Records)
    /\ Len(ring) <= RING_SIZE

-----------------------------------------------------------------------------
(* What holds for each thread.                                             *)

InCall(t) == at[t] \in {"kernel", "common", "returned"}

\* Where a call can be.  A call other than close and execve is only followed
\* when the thread was monitored at its entry, and then still is.
CallInv(t) ==
    /\ at[t] # "dead" => reader # "off"
    /\ InCall(t) => /\ cur[t].kind \in KINDS
                    /\ cur[t].file = None => cur[t].kind = "close"
                    /\ cur[t].kind \notin {"close", "execve"} => comm[t]
    /\ ~InCall(t) => cur[t].kind \in {"none", "exit"}
    /\ at[t] = "common" => cur[t].kind \in ATTR_KINDS \cup {"fchmodat"}
    /\ cur[t].nest > 0 => at[t] = "kernel" /\ cur[t].kind \in {"mkdir", "chmod"}
    /\ cur[t].ok => at[t] = "returned"

\* What the entry handlers have put into the maps for the handlers of the
\* return.
ArgsInv(t) ==
    InCall(t) /\ cur[t].kind \in TRACED_KINDS \ {"execve"} /\ comm[t] =>
      t \in DOMAIN args_map /\ args_map[t] = cur[t].call
DentryInv(t) ==
    /\ t \in DOMAIN mkdir_dentry <=> cur[t].nest > 0
    /\ t \in DOMAIN mkdir_dentry =>
         /\ mkdir_dentry[t] \in DENTRY
         /\ mkdir_dentry[t].depth + 1 = cur[t].nest
         /\ cur[t].kind = "mkdir" => mkdir_dentry[t].dentry = cur[t].file
PathInv(t) ==
    \A kind \in ATTR_KINDS :
      /\ <<kind, t>> \in DOMAIN path_map <=> at[t] = "common" /\ kind = FunctionOf(cur[t].kind)
      /\ <<kind, t>> \in DOMAIN path_map => path_map[<<kind, t>>] = cur[t].file
DataInv(t) ==
    cur[t].ok =>
      /\ cur[t].kind \in ATTR_KINDS =>
           /\ <<cur[t].kind, t>> \in DOMAIN mode_map
           /\ mode_map[<<cur[t].kind, t>>] = <<cur[t].call, cur[t].file>>
      /\ cur[t].kind = "mkdir" =>
           t \in DOMAIN mkdir_map /\ mkdir_map[t] = <<cur[t].call, cur[t].file>>
      /\ cur[t].kind = "execve" /\ comm[t] =>
           t \in DOMAIN execve_map /\ execve_map[t] = cur[t].call
FputInv(t) ==
    (InCall(t) /\ cur[t].kind = "close") \/ (at[t] = "put" /\ comm[t]) =>
      /\ t \in DOMAIN fput_data_map => fput_data_map[t] = cur[t].file
      /\ ~dropped => t \in DOMAIN fput_data_map
ImaInv(t) ==
    ~lost /\ ~dropped /\ t \in DOMAIN ima_data_map =>
      at[t] = "put" /\ comm[t] /\ ima_data_map[t] = cur[t].file

ThreadInv(t) ==
    /\ CallInv(t) /\ ArgsInv(t) /\ DentryInv(t) /\ PathInv(t) /\ DataInv(t) /\ FputInv(t)
    /\ ImaInv(t)

-----------------------------------------------------------------------------
(* What holds for each record.                                             *)

OwnDataAt(e) ==
    e.type = "syscall" /\ e.kind \in KINDS =>
      /\ e.kind # "execve" => e.args = e.call
      /\ e.ok /\ e.kind \in ATTR_KINDS \cup {"mkdir", "open"} => e.data = <<e.call, e.origin>>
      /\ e.ok /\ e.kind = "execve" => e.data = e.call
InodeAt(e) ==
    e.kind \in {"close", "fput"} =>
      \/ e.data = e.origin
      \/ dropped /\ e.kind = "close" /\ e.data \in {None, Garbage}
ContentAt(e) == e.ima_hash \in {None, e.origin}

RecordInv(e) ==
    /\ OwnDataAt(e)
    /\ InodeAt(e)
    /\ ~lost /\ ~dropped => ContentAt(e)

IInv ==
    /\ KernelType /\ MapsType /\ RunType /\ RingType
    /\ \A t \in THREADS : ThreadInv(t)
    /\ \A e \in Records : RecordInv(e)
-----------------------------------------------------------------------------
(* The maps and the buffer.                                                *)

\* Two maps agree on a key.
SameAt(m, n, k) ==
    /\ k \in DOMAIN n <=> k \in DOMAIN m
    /\ k \in DOMAIN m => n[k] = m[k]

LEMMA PutFacts ==
    ASSUME NEW m, NEW k, NEW v
    PROVE  /\ DOMAIN Put(m, k, v) = DOMAIN m \cup {k}
           /\ Put(m, k, v)[k] = v
           /\ \A j : j # k => SameAt(m, Put(m, k, v), j)
BY DEF Put, SameAt

LEMMA DelFacts ==
    ASSUME NEW m, NEW k
    PROVE  /\ DOMAIN Del(m, k) = DOMAIN m \ {k}
           /\ \A j : j # k => SameAt(m, Del(m, k), j)
BY DEF Del, SameAt

LEMMA SameRefl == ASSUME NEW m, NEW k PROVE SameAt(m, m, k)
BY DEF SameAt

LEMMA KeysFinite == IsFiniteSet(KEYS) /\ Cardinality(KEYS) \in Nat /\ THREADS \subseteq KEYS
BY MonitorAssumption, FS_Union, FS_CardinalityType DEF KEYS

\* An update of fput_data_map succeeds, or for a thread of the test is noted.
LEMMA FputPut ==
    ASSUME MapsType, dropped \in BOOLEAN, NEW t \in KEYS, NEW file, PutFputData(t, file)
    PROVE  /\ DOMAIN fput_data_map' \subseteq KEYS
           /\ Cardinality(DOMAIN fput_data_map') <= FPUT_MAX
           /\ dropped' \in BOOLEAN /\ (dropped => dropped')
           /\ t \in DOMAIN fput_data_map' => fput_data_map'[t] = file
           /\ t \in THREADS /\ ~dropped' => t \in DOMAIN fput_data_map'
           /\ \A u : u # t => SameAt(fput_data_map, fput_data_map', u)
<1> DEFINE D == DOMAIN fput_data_map
<1>1. IsFiniteSet(D) /\ Cardinality(D) \in Nat
  BY KeysFinite, FS_Subset, FS_CardinalityType DEF MapsType
<1>2. IsFiniteSet(D \cup {t}) /\ Cardinality(D \cup {t})
                                   = (IF t \in D THEN Cardinality(D) ELSE Cardinality(D) + 1)
  BY <1>1, FS_AddElement
<1>3. dropped' = (dropped \/ (t \in THREADS /\ ~Fits(t)))
  BY DEF PutFputData
<1>4. CASE Fits(t)
  <2>1. fput_data_map' = Put(fput_data_map, t, file)
    BY <1>4 DEF PutFputData
  <2>2. FPUT_MAX \in Nat
    BY MonitorAssumption
  <2>3. Cardinality(D \cup {t}) <= FPUT_MAX
    BY <1>1, <1>2, <1>4, <2>2 DEF MapsType, Fits
  <2> HIDE DEF D
  <2>4. DOMAIN fput_data_map' = D \cup {t}
    BY <2>1, PutFacts DEF D
  <2>5. DOMAIN fput_data_map' \subseteq KEYS
    BY <2>4 DEF MapsType, D
  <2>6. Cardinality(DOMAIN fput_data_map') <= FPUT_MAX
    BY <2>3, <2>4
  <2>7. t \in DOMAIN fput_data_map' /\ fput_data_map'[t] = file
    BY <2>1, <2>4 DEF Put
  <2>8. \A u : u # t => SameAt(fput_data_map, fput_data_map', u)
    BY <2>1, PutFacts
  <2> QED BY <1>3, <2>5, <2>6, <2>7, <2>8
<1>5. CASE ~Fits(t)
  <2>1. fput_data_map' = fput_data_map /\ t \notin DOMAIN fput_data_map
    BY <1>5 DEF PutFputData, Fits
  <2> QED BY <1>3, <1>5, <2>1, SameRefl DEF MapsType
<1> QED BY <1>4, <1>5

\* A sequence is a sequence of its elements.
LEMMA SeqOfElements ==
    ASSUME NEW S, NEW s \in Seq(S), NEW R, \A i \in 1..Len(s) : s[i] \in R
    PROVE  s \in Seq(R)
<1>1. Len(s) \in Nat /\ s \in [1..Len(s) -> R]
  BY LenProperties
<1> QED BY <1>1, SeqDef

LEMMA SubmitFacts ==
    ASSUME RingType, HasRoom, NEW e, Submit(e)
    PROVE  RingType' /\ Records' = Records \cup {e} /\ UNCHANGED lost
<1>1. ring' = Append(ring, e) /\ UNCHANGED lost
  BY DEF Submit
<1>2. /\ Len(ring) \in Nat /\ Len(ring') = Len(ring) + 1
      /\ ring' \in Seq(Records \cup {e})
      /\ \A i \in 1..Len(ring) : ring'[i] = ring[i]
      /\ ring'[Len(ring) + 1] = e
  <2>1. ring \in Seq(Records \cup {e})
    BY DEF RingType
  <2> QED BY <1>1, <2>1
<1>3. DOMAIN ring = 1..Len(ring) /\ DOMAIN ring' = 1..Len(ring')
  BY <1>2 DEF RingType
<1>4. Records' = Records \cup {e}
  BY <1>2, <1>3 DEF Records
<1>5. ring' \in Seq(Records')
  BY <1>2, <1>4
<1>6. Len(ring') <= RING_SIZE
  BY <1>2, MonitorAssumption DEF HasRoom
<1> QED BY <1>1, <1>4, <1>5, <1>6 DEF RingType

\* A record that the reader has handled is gone, the others stay.
LEMMA TailFacts ==
    ASSUME RingType, ring # <<>>, ring' = Tail(ring)
    PROVE  RingType' /\ Records' \subseteq Records
<1>1. /\ Len(ring) \in Nat \ {0} /\ Len(ring') = Len(ring) - 1
      /\ ring' \in Seq(Records)
      /\ \A i \in 1..Len(ring') : ring'[i] = ring[i + 1]
  BY EmptySeq, LenProperties, HeadTailProperties DEF RingType
<1>2. DOMAIN ring = 1..Len(ring) /\ DOMAIN ring' = 1..Len(ring')
  BY <1>1 DEF RingType
<1>3. Records' \subseteq Records
  BY <1>1, <1>2 DEF Records
<1>4. \A i \in 1..Len(ring') : ring'[i] \in Records'
  BY <1>1, <1>2 DEF Records
<1>5. ring' \in Seq(Records')
  BY <1>1, <1>4, SeqOfElements
<1> QED BY <1>1, <1>3, <1>5, MonitorAssumption DEF RingType

\* After an overflow, or when nothing is written.
LEMMA QuietFacts ==
    ASSUME RingType, UNCHANGED ring
    PROVE  RingType' /\ Records' = Records
BY DEF RingType, Records

-----------------------------------------------------------------------------
(* A step concerns one thread.                                             *)

Same(u) ==
    /\ at'[u] = at[u] /\ cur'[u] = cur[u] /\ comm'[u] = comm[u]
    /\ SameAt(args_map, args_map', u)
    /\ SameAt(fput_data_map, fput_data_map', u)
    /\ SameAt(ima_data_map, ima_data_map', u)
    /\ \A kind \in ATTR_KINDS : /\ SameAt(path_map, path_map', <<kind, u>>)
                                /\ SameAt(mode_map, mode_map', <<kind, u>>)
    /\ SameAt(mkdir_dentry, mkdir_dentry', u)
    /\ SameAt(mkdir_map, mkdir_map', u)
    /\ SameAt(execve_map, execve_map', u)

LEMMA SameKeeps ==
    ASSUME NEW u \in THREADS, ThreadInv(u), Same(u), lost => lost', dropped => dropped',
           reader' = "off" => reader = "off" \/ at[u] = "dead"
    PROVE  ThreadInv(u)'
<1> USE DEF InCall
<1>1. CallInv(u)'
  BY DEF ThreadInv, CallInv, Same
<1>2. ArgsInv(u)'
  BY DEF ThreadInv, ArgsInv, Same, SameAt
<1>3. DentryInv(u)'
  BY DEF ThreadInv, DentryInv, Same, SameAt
<1>4. PathInv(u)'
  BY DEF ThreadInv, PathInv, Same, SameAt
<1>5. DataInv(u)'
  BY DEF ThreadInv, DataInv, Same, SameAt
<1>6. FputInv(u)'
  BY DEF ThreadInv, FputInv, Same, SameAt
<1>7. ImaInv(u)'
  BY DEF ThreadInv, ImaInv, Same, SameAt
<1> QED BY <1>1, <1>2, <1>3, <1>4, <1>5, <1>6, <1>7 DEF ThreadInv

\* The records that were in the buffer stay as good as they were.
LEMMA RecordsKeep ==
    ASSUME IInv, lost => lost', dropped => dropped', NEW e \in Records
    PROVE  RecordInv(e)'
BY DEF IInv, RecordInv, OwnDataAt, InodeAt, ContentAt

LEMMA ThreadStep ==
    ASSUME IInv, NEW t \in THREADS, KernelType', MapsType', RingType', UNCHANGED runVars,
           lost' \in {lost, TRUE}, dropped' \in {dropped, TRUE}, ThreadInv(t)',
           \A u \in THREADS \ {t} : Same(u),
           \A e \in Records' : e \in Records \/ RecordInv(e)'
    PROVE  IInv'
<1>1. RunType'
  BY DEF IInv, RunType, runVars
<1>2. (lost => lost') /\ (dropped => dropped')
  BY DEF IInv, RunType
<1>3. \A e \in Records' : RecordInv(e)'
  BY <1>2, RecordsKeep
<1>4. reader' = reader
  BY DEF runVars
<1>5. \A u \in THREADS : ThreadInv(u)'
  BY <1>2, <1>4, SameKeeps DEF IInv
<1> QED BY <1>1, <1>3, <1>5 DEF IInv

-----------------------------------------------------------------------------
(* The reader, and the threads outside the test.                           *)

LEMMA ReaderKeeps ==
    ASSUME IInv, Reader
    PROVE  IInv'
<1>1. CASE run
  <2>1. /\ reader = "off" /\ enabled' = TRUE /\ reader' = "poll"
        /\ at' = [t \in THREADS |-> "user"] /\ comm' = [t \in THREADS |-> FALSE]
        /\ UNCHANGED <<cur, pending, calls, maps, buffer>>
    BY <1>1 DEF run
  <2>2. KernelType' /\ MapsType' /\ RunType'
    BY <2>1 DEF IInv, KernelType, MapsType, RunType, AT, maps, fputVars, hashMaps, attrMaps,
                mkdirMaps, buffer
  <2>3. RingType' /\ Records' = Records /\ lost' = lost /\ dropped' = dropped
    BY <2>1, QuietFacts DEF IInv, buffer, maps, fputVars
  <2>4. ASSUME NEW t \in THREADS PROVE ThreadInv(t)'
    <3>1. at[t] = "dead" /\ at'[t] = "user" /\ cur'[t] = cur[t]
      BY <2>1 DEF IInv, ThreadInv, CallInv
    <3>2. /\ cur[t].kind \in {"none", "exit"} /\ ~cur[t].ok /\ ~(cur[t].nest > 0)
      BY <3>1 DEF IInv, ThreadInv, CallInv, InCall
    <3>3. UNCHANGED <<args_map, fput_data_map, dropped, ima_data_map, path_map, mode_map,
                      mkdir_dentry,
                      mkdir_map, execve_map>>
      BY <2>1 DEF maps, fputVars, hashMaps, attrMaps, mkdirMaps
    <3> QED BY <2>1, <2>3, <3>1, <3>2, <3>3
            DEF IInv, ThreadInv, CallInv, ArgsInv, DentryInv, PathInv, DataInv, FputInv, ImaInv,
                InCall
  <2> QED BY <2>2, <2>3, <2>4, RecordsKeep DEF IInv
<1>2. CASE handle_event \/ poll_timeout \/ waitpid
  <2>1. UNCHANGED <<kernelVars, maps>>
    BY <1>2 DEF handle_event, poll_timeout, waitpid
  <2>2. KernelType' /\ MapsType'
    BY <2>1 DEF IInv, KernelType, MapsType, kernelVars, maps, fputVars, hashMaps, attrMaps,
                mkdirMaps
  <2>3. RunType'
    BY <1>2, <2>1 DEF IInv, RunType, maps, fputVars, handle_event, poll_timeout, waitpid, runVars,
                      buffer
  <2>4. RingType' /\ Records' \subseteq Records /\ lost' = lost /\ dropped' = dropped
    BY <1>2, <2>1, QuietFacts, TailFacts DEF IInv, maps, fputVars, handle_event, poll_timeout,
                                             waitpid, buffer
  <2>5. \A u \in THREADS : Same(u)
    BY <2>1, SameRefl DEF Same, kernelVars, maps, fputVars, hashMaps, attrMaps, mkdirMaps
  <2>6. reader' = "off" => reader = "off" \/ \A u \in THREADS : at[u] = "dead"
    BY <1>2 DEF handle_event, poll_timeout, waitpid, runVars
  <2>7. \A u \in THREADS : ThreadInv(u)'
    BY <2>4, <2>5, <2>6, SameKeeps DEF IInv
  <2> QED BY <2>2, <2>3, <2>4, <2>7, RecordsKeep DEF IInv
<1> QED BY <1>1, <1>2 DEF Reader

LEMMA OtherKeeps ==
    ASSUME IInv, NEW o \in OTHERS, other_close(o)
    PROVE  IInv'
<1>1. /\ PutFputData(o, None)
      /\ UNCHANGED <<kernelVars, args_map, hashMaps, attrMaps, mkdirMaps, execve_map, buffer,
                     runVars>>
  BY DEF other_close, trace_enter_close
<1>2. KernelType' /\ RunType' /\ lost' = lost /\ dropped' = dropped /\ reader' = reader
  BY <1>1, MonitorAssumption DEF PutFputData, IInv, KernelType, RunType, kernelVars, buffer, runVars
<1>3. /\ DOMAIN fput_data_map' \subseteq KEYS
      /\ Cardinality(DOMAIN fput_data_map') <= FPUT_MAX
      /\ \A u : u # o => SameAt(fput_data_map, fput_data_map', u)
  BY <1>1, FputPut DEF IInv, RunType, KEYS
<1>4. MapsType'
  BY <1>1, <1>3 DEF IInv, MapsType, fputVars, hashMaps, attrMaps, mkdirMaps
<1>5. RingType' /\ Records' = Records
  BY <1>1, QuietFacts DEF IInv, buffer
<1>6. \A u \in THREADS : Same(u)
  BY <1>1, <1>3, SameRefl, MonitorAssumption DEF Same, kernelVars, fputVars, hashMaps, attrMaps,
                                                 mkdirMaps
<1>7. \A u \in THREADS : ThreadInv(u)'
  BY <1>2, <1>6, SameKeeps DEF IInv
<1> QED BY <1>2, <1>4, <1>5, <1>7, RecordsKeep DEF IInv

-----------------------------------------------------------------------------
(* The steps of a thread that write no record.                             *)

LEMMA QuietStep ==
    ASSUME IInv, NEW t \in THREADS, KernelType', MapsType', UNCHANGED <<buffer, runVars>>,
           dropped' \in {dropped, TRUE}, ThreadInv(t)', \A u \in THREADS \ {t} : Same(u)
    PROVE  IInv'
<1>1. RingType' /\ Records' = Records /\ lost' = lost
  BY QuietFacts DEF IInv, buffer
<1> QED BY <1>1, ThreadStep

LEMMA EnterKeeps ==
    ASSUME IInv, NEW t \in THREADS, NEW kind \in CALLS, NEW file \in FILES \cup {None},
           sys_enter(t, kind, file)
    PROVE  IInv'
<1> DEFINE call == [NoCall EXCEPT !.kind = kind, !.call = calls + 1, !.file = file]
<1>1. /\ at[t] = "user"
      /\ file = None => kind = "close"
      /\ should_monitor(t) \/ kind \in {"close", "execve"}
      /\ at' = [at EXCEPT ![t] = "kernel"]
      /\ cur' = [cur EXCEPT ![t] = call]
      /\ calls' = calls + 1
      /\ IF kind \in TRACED_KINDS THEN save_syscall_args(t) ELSE UNCHANGED args_map
      /\ IF kind = "close" THEN PutFputData(t, file) ELSE UNCHANGED <<fput_data_map, dropped>>
      /\ UNCHANGED <<comm, pending, ima_data_map, evm_data_map, path_map, mode_map, mkdir_dentry,
                     mkdir_map, execve_map, buffer, runVars>>
  BY DEF sys_enter, trace_enter_close, fputVars, hashMaps, attrMaps, mkdirMaps
<1>2. kind \in KINDS /\ calls + 1 \in Nat
  BY CallsAssumption DEF IInv, KernelType
<1>3. /\ call \in CALL
      /\ call.kind = kind /\ call.call = calls + 1 /\ call.file = file
      /\ call.ok = FALSE /\ call.made = 0 /\ call.nest = 0
  BY <1>2 DEF NoCall, CALL
<1> HIDE DEF call
<1>4. at'[t] = "kernel" /\ cur'[t] = call
  BY <1>1 DEF IInv, KernelType
<1>5. KernelType'
  BY <1>1, <1>2, <1>3 DEF IInv, KernelType, AT
<1>6. /\ DOMAIN fput_data_map' \subseteq KEYS
      /\ Cardinality(DOMAIN fput_data_map') <= FPUT_MAX
      /\ dropped' \in {dropped, TRUE}
      /\ kind = "close" => /\ t \in DOMAIN fput_data_map' => fput_data_map'[t] = file
                           /\ ~dropped' => t \in DOMAIN fput_data_map'
      /\ \A u : u # t => SameAt(fput_data_map, fput_data_map', u)
  <2>1. CASE kind = "close"
    BY <1>1, <2>1, FputPut, KeysFinite DEF IInv, RunType
  <2>2. CASE kind # "close"
    BY <1>1, <2>2, SameRefl DEF IInv, MapsType
  <2> QED BY <2>1, <2>2
<1>7. /\ DOMAIN args_map' \subseteq THREADS
      /\ kind \in TRACED_KINDS /\ should_monitor(t) =>
           t \in DOMAIN args_map' /\ args_map'[t] = calls + 1
      /\ \A u : u # t => SameAt(args_map, args_map', u)
  BY <1>1 DEF save_syscall_args, Put, SameAt, IInv, MapsType
<1>8. MapsType'
  BY <1>1, <1>6, <1>7 DEF IInv, MapsType
<1>9. \A u \in THREADS \ {t} : Same(u)
  BY <1>1, <1>6, <1>7, SameRefl DEF Same, IInv, KernelType
<1>10. reader # "off" /\ enabled /\ (should_monitor(t) <=> comm[t])
  BY <1>1 DEF IInv, RunType, ThreadInv, CallInv, should_monitor
<1>11. CallInv(t)'
  BY <1>1, <1>2, <1>3, <1>4, <1>10 DEF CallInv, InCall, runVars
<1>12. ArgsInv(t)'
  BY <1>1, <1>3, <1>4, <1>7, <1>10 DEF ArgsInv
<1>13. /\ ~InCall(t) /\ cur[t].nest = 0
  BY <1>1 DEF IInv, ThreadInv, CallInv, InCall, KernelType, CALL
<1>14. DentryInv(t)' /\ PathInv(t)' /\ DataInv(t)'
  <2>1. DentryInv(t)'
    BY <1>1, <1>3, <1>4, <1>13 DEF IInv, ThreadInv, DentryInv
  <2>2. PathInv(t)'
    BY <1>1, <1>3, <1>4, <1>13 DEF IInv, ThreadInv, PathInv
  <2>3. DataInv(t)'
    BY <1>3, <1>4 DEF DataInv
  <2> QED BY <2>1, <2>2, <2>3
<1>15. FputInv(t)'
  BY <1>3, <1>4, <1>6 DEF FputInv
<1>16. ImaInv(t)'
  <2>1. dropped => dropped'
    BY <1>6 DEF IInv, RunType
  <2>2. lost' = lost
    BY <1>1 DEF buffer
  <2>3. ~(~lost /\ ~dropped /\ t \in DOMAIN ima_data_map)
    BY <1>1 DEF IInv, ThreadInv, ImaInv
  <2> QED BY <1>1, <2>1, <2>2, <2>3 DEF ImaInv
<1>17. ThreadInv(t)'
  BY <1>11, <1>12, <1>14, <1>15, <1>16 DEF ThreadInv
<1> QED BY <1>1, <1>5, <1>6, <1>8, <1>9, <1>17, QuietStep

LEMMA EvmKeeps ==
    ASSUME IInv, NEW t \in THREADS, handle_evm_calc_hmac_or_hash(t)
    PROVE  IInv'
<1>1. /\ evm_data_map' = Put(evm_data_map, t, cur[t].file)
      /\ UNCHANGED <<kernelVars, args_map, fput_data_map, dropped, ima_data_map, attrMaps,
                     mkdirMaps, execve_map, buffer, runVars>>
  BY DEF handle_evm_calc_hmac_or_hash, fputVars
<1>2. KernelType' /\ MapsType'
  BY <1>1 DEF IInv, KernelType, MapsType, kernelVars, attrMaps, mkdirMaps, Put
<1>3. \A u \in THREADS : Same(u)
  BY <1>1, SameRefl DEF Same, kernelVars, attrMaps, mkdirMaps
<1>4. ThreadInv(t)'
  BY <1>1, <1>3, SameKeeps DEF IInv, buffer, runVars
<1> QED BY <1>1, <1>2, <1>3, <1>4, QuietStep

LEMMA ImaKeeps ==
    ASSUME IInv, NEW t \in THREADS, handle_ima_update_xattr(t)
    PROVE  IInv'
<1>1. /\ at[t] = "put" /\ comm[t]
      /\ ima_data_map' = Put(ima_data_map, t, cur[t].file)
      /\ UNCHANGED <<comm, at, cur, pending, calls, args_map, fput_data_map, dropped,
                     evm_data_map, path_map,
                     mode_map, mkdir_dentry, mkdir_map, execve_map, buffer, runVars>>
  BY DEF handle_ima_update_xattr, should_monitor, kernelVars, fputVars, attrMaps, mkdirMaps
<1>2. KernelType' /\ MapsType'
  BY <1>1 DEF IInv, KernelType, MapsType, Put
<1>3. \A u \in THREADS \ {t} : Same(u)
  BY <1>1, SameRefl, PutFacts DEF Same
<1>4. ImaInv(t)'
  BY <1>1 DEF ImaInv, Put, buffer
<1>5. CallInv(t)' /\ ArgsInv(t)' /\ DentryInv(t)' /\ PathInv(t)' /\ DataInv(t)' /\ FputInv(t)'
  BY <1>1 DEF IInv, ThreadInv, CallInv, ArgsInv, DentryInv, PathInv, DataInv, FputInv, InCall,
              runVars
<1> QED BY <1>1, <1>2, <1>3, <1>4, <1>5, QuietStep DEF ThreadInv

\* While a thread lives, the monitor is enabled.
LEMMA Monitored ==
    ASSUME IInv, NEW t \in THREADS, at[t] # "dead"
    PROVE  enabled /\ reader # "off" /\ (should_monitor(t) <=> comm[t])
BY DEF IInv, RunType, ThreadInv, CallInv, should_monitor

LEMMA CommonKeeps ==
    ASSUME IInv, NEW t \in THREADS, handle_common(t)
    PROVE  IInv'
<1> DEFINE key == <<FunctionOf(cur[t].kind), t>>
<1>1. /\ at[t] = "kernel" /\ cur[t].nest = 0 /\ cur[t].kind \in ATTR_KINDS \cup {"fchmodat"}
      /\ at' = [at EXCEPT ![t] = "common"]
      /\ path_map' = IF should_monitor(t) THEN Put(path_map, key, cur[t].file) ELSE path_map
      /\ UNCHANGED <<comm, cur, pending, calls, args_map, fput_data_map, dropped, ima_data_map,
                     evm_data_map,
                     mode_map, mkdir_dentry, mkdir_map, execve_map, buffer, runVars>>
  BY DEF handle_common, fputVars, hashMaps, mkdirMaps
<1>2. should_monitor(t) /\ comm[t]
  <2>1. comm[t]
    BY <1>1 DEF IInv, ThreadInv, CallInv, InCall, ATTR_KINDS
  <2> QED BY <1>1, <2>1, Monitored
<1>3. FunctionOf(cur[t].kind) \in ATTR_KINDS
  BY <1>1 DEF FunctionOf, ATTR_KINDS
<1>4. at'[t] = "common" /\ KernelType'
  BY <1>1 DEF IInv, KernelType, AT
<1>5. MapsType'
  BY <1>1, <1>3 DEF IInv, MapsType, Put
<1>6. \A u \in THREADS \ {t} : Same(u)
  BY <1>1, SameRefl, PutFacts DEF Same, IInv, KernelType
<1>7. CallInv(t)' /\ ArgsInv(t)' /\ DentryInv(t)' /\ DataInv(t)' /\ FputInv(t)' /\ ImaInv(t)'
  BY <1>1, <1>4 DEF IInv, ThreadInv, CallInv, ArgsInv, DentryInv, DataInv, FputInv, ImaInv, InCall,
                    runVars, buffer, ATTR_KINDS
<1>8. PathInv(t)'
  <2>1. \A kind \in ATTR_KINDS : <<kind, t>> \notin DOMAIN path_map
    BY <1>1 DEF IInv, ThreadInv, PathInv
  <2> QED BY <1>1, <1>2, <1>4, <2>1 DEF PathInv, Put
<1> QED BY <1>1, <1>4, <1>5, <1>6, <1>7, <1>8, QuietStep DEF ThreadInv

LEMMA CommonRetKeeps ==
    ASSUME IInv, NEW t \in THREADS, NEW ok \in BOOLEAN, handle_common_ret(t, ok)
    PROVE  IInv'
<1> DEFINE key == <<FunctionOf(cur[t].kind), t>>
<1>1. /\ at[t] = "common" /\ cur[t].kind \in ATTR_KINDS \cup {"fchmodat"} /\ comm[t]
      /\ cur[t].nest = 0
  BY DEF handle_common_ret, IInv, ThreadInv, CallInv, InCall, ATTR_KINDS, KernelType, CALL
<1>2. FunctionOf(cur[t].kind) \in ATTR_KINDS
  BY <1>1 DEF FunctionOf, ATTR_KINDS
<1>3. key \in DOMAIN path_map /\ path_map[key] = cur[t].file
  BY <1>1, <1>2 DEF IInv, ThreadInv, PathInv
<1>4. /\ at' = [at EXCEPT ![t] = "returned"]
      /\ cur' = [cur EXCEPT ![t].ok = ok]
      /\ mode_map' = IF ok THEN Put(mode_map, key, <<cur[t].call, cur[t].file>>) ELSE mode_map
      /\ path_map' = Del(path_map, key)
      /\ UNCHANGED <<comm, pending, calls, args_map, fput_data_map, dropped, ima_data_map,
                     evm_data_map,
                     mkdir_dentry, mkdir_map, execve_map, buffer, runVars>>
  BY <1>1, <1>3, Monitored DEF handle_common_ret, fputVars, hashMaps, mkdirMaps
<1>5. /\ at'[t] = "returned" /\ cur'[t] \in CALL
      /\ cur'[t].kind = cur[t].kind /\ cur'[t].call = cur[t].call /\ cur'[t].file = cur[t].file
      /\ cur'[t].nest = 0 /\ cur'[t].ok = ok
  BY <1>1, <1>4 DEF IInv, KernelType, CALL
<1>6. KernelType'
  BY <1>4, <1>5 DEF IInv, KernelType, AT
<1>7. MapsType'
  BY <1>2, <1>4 DEF IInv, MapsType, Put, Del
<1>8. \A u \in THREADS \ {t} : Same(u)
  BY <1>4, SameRefl, PutFacts, DelFacts DEF Same, IInv, KernelType
<1>9. CallInv(t)' /\ ArgsInv(t)' /\ DentryInv(t)'
  BY <1>1, <1>4, <1>5 DEF IInv, ThreadInv, CallInv, ArgsInv, DentryInv, InCall, runVars
<1>10. FputInv(t)' /\ ImaInv(t)'
  BY <1>1, <1>4, <1>5 DEF IInv, ThreadInv, FputInv, ImaInv, InCall, buffer, ATTR_KINDS
<1>11. PathInv(t)'
  BY <1>1, <1>4, <1>5 DEF IInv, ThreadInv, PathInv, Del
<1>12. DataInv(t)'
  BY <1>1, <1>4, <1>5 DEF DataInv, Put, FunctionOf, ATTR_KINDS
<1> QED BY <1>4, <1>6, <1>7, <1>8, <1>9, <1>10, <1>11, <1>12, QuietStep DEF ThreadInv

LEMMA MkdirKeeps ==
    ASSUME IInv, NEW t \in THREADS, handle_vfs_mkdir(t)
    PROVE  IInv'
<1> DEFINE dentry == IF cur[t].kind = "mkdir" /\ cur[t].nest = 0 THEN cur[t].file ELSE Lower
           entry == IF t \in DOMAIN mkdir_dentry
                    THEN [mkdir_dentry[t] EXCEPT !.depth = @ + 1]
                    ELSE [dentry |-> dentry, depth |-> 0]
<1>1. /\ at[t] = "kernel" /\ cur[t].kind \in {"mkdir", "chmod"} /\ comm[t]
      /\ ~cur[t].ok
  BY DEF handle_vfs_mkdir, IInv, ThreadInv, CallInv, InCall
<1>2. /\ cur' = [cur EXCEPT ![t].made = @ + 1, ![t].nest = @ + 1]
      /\ mkdir_dentry' = Put(mkdir_dentry, t, entry)
      /\ UNCHANGED <<comm, at, pending, calls, args_map, fput_data_map, dropped, ima_data_map,
                     evm_data_map,
                     path_map, mode_map, mkdir_map, execve_map, buffer, runVars>>
  BY <1>1, Monitored DEF handle_vfs_mkdir, FirstDentry, fputVars, hashMaps, attrMaps
<1>3. /\ cur'[t] \in CALL
      /\ cur'[t].kind = cur[t].kind /\ cur'[t].call = cur[t].call /\ cur'[t].file = cur[t].file
      /\ cur'[t].nest = cur[t].nest + 1 /\ cur'[t].ok = cur[t].ok /\ cur[t].nest \in Nat
  BY <1>2 DEF IInv, KernelType, CALL
<1>4. KernelType'
  BY <1>2, <1>3 DEF IInv, KernelType
<1>5. MapsType'
  BY <1>2 DEF IInv, MapsType, Put
<1>6. \A u \in THREADS \ {t} : Same(u)
  BY <1>2, SameRefl, PutFacts DEF Same, IInv, KernelType
<1>7. CallInv(t)' /\ ArgsInv(t)' /\ PathInv(t)' /\ DataInv(t)'
  BY <1>1, <1>2, <1>3
     DEF IInv, ThreadInv, CallInv, ArgsInv, PathInv, DataInv, InCall, runVars
<1>8. FputInv(t)' /\ ImaInv(t)'
  BY <1>1, <1>2, <1>3 DEF IInv, ThreadInv, FputInv, ImaInv, InCall, buffer
<1>9. entry \in DENTRY /\ entry.depth = cur[t].nest
      /\ (cur[t].kind = "mkdir" => entry.dentry = cur[t].file)
  <2>1. CASE t \in DOMAIN mkdir_dentry
    <3>1. /\ mkdir_dentry[t] \in DENTRY /\ mkdir_dentry[t].depth + 1 = cur[t].nest
          /\ cur[t].kind = "mkdir" => mkdir_dentry[t].dentry = cur[t].file
      BY <2>1 DEF IInv, ThreadInv, DentryInv
    <3> QED BY <2>1, <3>1 DEF DENTRY
  <2>2. CASE t \notin DOMAIN mkdir_dentry
    <3>1. cur[t].nest = 0 /\ cur[t].file \in FILES \cup {None}
      BY <2>2, <1>3 DEF IInv, ThreadInv, DentryInv, KernelType, CALL
    <3> QED BY <2>2, <3>1 DEF DENTRY
  <2> QED BY <2>1, <2>2
<1> HIDE DEF entry
<1>10. DentryInv(t)'
  BY <1>2, <1>3, <1>9 DEF DentryInv, Put
<1> QED BY <1>2, <1>4, <1>5, <1>6, <1>7, <1>8, <1>10, QuietStep DEF ThreadInv

LEMMA MkdirRetKeeps ==
    ASSUME IInv, NEW t \in THREADS, NEW ok \in BOOLEAN, handle_vfs_mkdir_ret(t, ok)
    PROVE  IInv'
<1> DEFINE outermost == cur[t].kind = "mkdir" /\ cur[t].nest = 1
           entry == mkdir_dentry[t]
<1>1. /\ at[t] = "kernel" /\ cur[t].nest > 0 /\ cur[t].kind \in {"mkdir", "chmod"} /\ comm[t]
      /\ cur[t].nest \in Nat
  BY DEF handle_vfs_mkdir_ret, IInv, ThreadInv, CallInv, InCall, KernelType, CALL
<1>2. /\ t \in DOMAIN mkdir_dentry
      /\ entry \in DENTRY /\ entry.depth + 1 = cur[t].nest
      /\ cur[t].kind = "mkdir" => entry.dentry = cur[t].file
  BY <1>1 DEF IInv, ThreadInv, DentryInv
<1>3. /\ cur' = [cur EXCEPT ![t].nest = @ - 1, ![t].ok = outermost /\ ok]
      /\ at' = [at EXCEPT ![t] = IF outermost THEN "returned" ELSE @]
      /\ IF entry.depth > 0
         THEN /\ mkdir_dentry' = [mkdir_dentry EXCEPT ![t].depth = @ - 1]
              /\ UNCHANGED mkdir_map
         ELSE /\ mkdir_dentry' = Del(mkdir_dentry, t)
              /\ mkdir_map' = IF ok THEN Put(mkdir_map, t, <<cur[t].call, entry.dentry>>)
                              ELSE mkdir_map
      /\ UNCHANGED <<comm, pending, calls, args_map, fput_data_map, dropped, ima_data_map,
                     evm_data_map,
                     path_map, mode_map, execve_map, buffer, runVars>>
  BY <1>1, <1>2, Monitored DEF handle_vfs_mkdir_ret, fputVars, hashMaps, attrMaps
<1>4. /\ at'[t] = IF outermost THEN "returned" ELSE "kernel"
      /\ cur'[t] \in CALL
      /\ cur'[t].kind = cur[t].kind /\ cur'[t].call = cur[t].call /\ cur'[t].file = cur[t].file
      /\ cur'[t].nest = cur[t].nest - 1
      /\ cur'[t].ok => outermost /\ ok
  <2> DEFINE made == outermost /\ ok
  <2>1. /\ at'[t] = IF outermost THEN "returned" ELSE "kernel"
        /\ cur'[t] = [cur[t] EXCEPT !.nest = @ - 1, !.ok = made]
    BY <1>1, <1>3 DEF IInv, KernelType
  <2>2. made \in BOOLEAN /\ (made => outermost /\ ok) /\ cur[t].nest - 1 \in Nat /\ cur[t] \in CALL
    BY <1>1 DEF IInv, KernelType
  <2> HIDE DEF made
  <2>3. /\ cur'[t] \in CALL
        /\ cur'[t].kind = cur[t].kind /\ cur'[t].call = cur[t].call /\ cur'[t].file = cur[t].file
        /\ cur'[t].nest = cur[t].nest - 1 /\ cur'[t].ok = made
    BY <2>1, <2>2 DEF CALL
  <2> QED BY <2>1, <2>2, <2>3
<1>5. KernelType'
  BY <1>3, <1>4 DEF IInv, KernelType, AT
<1>6. MapsType'
  BY <1>3 DEF IInv, MapsType, Del
<1>7. \A u \in THREADS \ {t} : /\ SameAt(mkdir_dentry, mkdir_dentry', u)
                               /\ SameAt(mkdir_map, mkdir_map', u)
  BY <1>3 DEF SameAt, Put, Del
<1>8. \A u \in THREADS \ {t} : Same(u)
  BY <1>3, <1>7, SameRefl DEF Same, IInv, KernelType
<1>9. CallInv(t)' /\ ArgsInv(t)'
  <2>1. ArgsInv(t)'
    BY <1>1, <1>3, <1>4 DEF IInv, ThreadInv, ArgsInv, InCall
  <2>2. InCall(t) /\ CallInv(t)
    BY <1>1 DEF IInv, ThreadInv, InCall
  <2>3. cur'[t].nest > 0 => at'[t] = "kernel"
    BY <1>1, <1>4
  <2> QED BY <1>1, <1>3, <1>4, <2>1, <2>2, <2>3 DEF CallInv, InCall, runVars
<1>10. PathInv(t)' /\ FputInv(t)' /\ ImaInv(t)'
  BY <1>1, <1>3, <1>4 DEF IInv, ThreadInv, PathInv, FputInv, ImaInv, InCall, buffer
<1>11. DentryInv(t)'
  <2>1. CASE entry.depth > 0
    <3>1. mkdir_dentry'[t] = [entry EXCEPT !.depth = @ - 1] /\ DOMAIN mkdir_dentry' = DOMAIN mkdir_dentry
      BY <1>2, <1>3, <2>1
    <3>2. /\ mkdir_dentry'[t] \in DENTRY /\ mkdir_dentry'[t].depth = entry.depth - 1
          /\ mkdir_dentry'[t].dentry = entry.dentry
      BY <1>2, <2>1, <3>1 DEF DENTRY
    <3>3. cur'[t].nest > 0 /\ mkdir_dentry'[t].depth + 1 = cur'[t].nest
      BY <1>1, <1>2, <1>4, <2>1, <3>2 DEF DENTRY
    <3> QED BY <1>2, <1>4, <3>1, <3>2, <3>3 DEF DentryInv
  <2>2. CASE ~(entry.depth > 0)
    <3>1. cur'[t].nest = 0
      BY <1>1, <1>2, <1>4, <2>2 DEF DENTRY
    <3> QED BY <1>3, <2>2, <3>1 DEF DentryInv, Del
  <2> QED BY <2>1, <2>2
<1>12. DataInv(t)'
  <2> SUFFICES ASSUME outermost, ok PROVE DataInv(t)'
    BY <1>4 DEF DataInv
  <2>1. ~(entry.depth > 0)
    BY <1>1, <1>2 DEF DENTRY
  <2>2. t \in DOMAIN mkdir_map' /\ mkdir_map'[t] = <<cur[t].call, cur[t].file>>
    BY <1>2, <1>3, <2>1 DEF Put
  <2> QED BY <1>4, <2>2 DEF DataInv, ATTR_KINDS
<1> QED BY <1>3, <1>5, <1>6, <1>8, <1>9, <1>10, <1>11, <1>12, QuietStep DEF ThreadInv

LEMMA ExecKeeps ==
    ASSUME IInv, NEW t \in THREADS, NEW tst \in BOOLEAN, trace_sched_process_exec(t, tst)
    PROVE  IInv'
<1>1. /\ at[t] = "kernel" /\ cur[t].kind = "execve" /\ enabled
      /\ cur[t].nest = 0
  BY Monitored DEF trace_sched_process_exec, IInv, ThreadInv, CallInv, KernelType, CALL
<1>2. /\ at' = [at EXCEPT ![t] = "returned"]
      /\ cur' = [cur EXCEPT ![t].ok = TRUE]
      /\ comm' = [comm EXCEPT ![t] = tst]
      /\ execve_map' = IF tst THEN Put(execve_map, t, cur[t].call) ELSE execve_map
      /\ UNCHANGED <<pending, calls, args_map, fput_data_map, dropped, ima_data_map, evm_data_map,
                     path_map,
                     mode_map, mkdir_dentry, mkdir_map, buffer, runVars>>
  BY <1>1 DEF trace_sched_process_exec, fputVars, hashMaps, attrMaps, mkdirMaps
<1>3. /\ at'[t] = "returned" /\ comm'[t] = tst /\ cur'[t] \in CALL
      /\ cur'[t].kind = "execve" /\ cur'[t].call = cur[t].call /\ cur'[t].file = cur[t].file
      /\ cur'[t].nest = 0 /\ cur'[t].ok = TRUE
  BY <1>1, <1>2 DEF IInv, KernelType, CALL
<1>4. KernelType'
  BY <1>2, <1>3 DEF IInv, KernelType, AT
<1>5. MapsType'
  BY <1>2 DEF IInv, MapsType
<1>6. \A u \in THREADS \ {t} : Same(u)
  BY <1>2, SameRefl, PutFacts DEF Same, IInv, KernelType
<1>7. CallInv(t)' /\ ArgsInv(t)' /\ FputInv(t)'
  BY <1>1, <1>2, <1>3
     DEF IInv, ThreadInv, CallInv, ArgsInv, FputInv, InCall, KINDS, TRACED_KINDS, runVars
<1>8. DentryInv(t)' /\ PathInv(t)' /\ ImaInv(t)'
  BY <1>1, <1>2, <1>3 DEF IInv, ThreadInv, DentryInv, PathInv, ImaInv, buffer
<1>9. DataInv(t)'
  BY <1>2, <1>3 DEF DataInv, Put, ATTR_KINDS
<1> QED BY <1>2, <1>4, <1>5, <1>6, <1>7, <1>8, <1>9, QuietStep DEF ThreadInv

LEMMA FputKeeps ==
    ASSUME IInv, NEW t \in THREADS, NEW file \in FILES, handle___fput(t, file)
    PROVE  IInv'
<1>1. /\ at[t] = "returning" /\ ~InCall(t) /\ cur[t].nest = 0 /\ ~cur[t].ok
      /\ cur[t].kind \in {"none", "exit"}
  BY DEF handle___fput, IInv, ThreadInv, CallInv, InCall, KernelType, CALL
<1>2. /\ at' = [at EXCEPT ![t] = "put"]
      /\ cur' = [cur EXCEPT ![t].file = file]
      /\ IF comm[t] THEN PutFputData(t, file) ELSE UNCHANGED <<fput_data_map, dropped>>
      /\ UNCHANGED <<comm, pending, calls, args_map, ima_data_map, evm_data_map, path_map, mode_map,
                     mkdir_dentry, mkdir_map, execve_map, buffer, runVars>>
  BY <1>1, Monitored DEF handle___fput, fputVars, hashMaps, attrMaps, mkdirMaps
<1>3. /\ at'[t] = "put" /\ cur'[t] \in CALL
      /\ cur'[t].kind = cur[t].kind /\ cur'[t].file = file
      /\ cur'[t].nest = 0 /\ ~cur'[t].ok
  BY <1>1, <1>2 DEF IInv, KernelType, CALL
<1>4. KernelType'
  BY <1>2, <1>3 DEF IInv, KernelType, AT
<1>5. /\ DOMAIN fput_data_map' \subseteq KEYS
      /\ Cardinality(DOMAIN fput_data_map') <= FPUT_MAX
      /\ dropped' \in {dropped, TRUE}
      /\ comm[t] => /\ t \in DOMAIN fput_data_map' => fput_data_map'[t] = file
                    /\ ~dropped' => t \in DOMAIN fput_data_map'
      /\ \A u : u # t => SameAt(fput_data_map, fput_data_map', u)
  <2>1. CASE comm[t]
    BY <1>2, <2>1, FputPut, KeysFinite DEF IInv, RunType
  <2>2. CASE ~comm[t]
    BY <1>2, <2>2, SameRefl DEF IInv, MapsType
  <2> QED BY <2>1, <2>2
<1>6. MapsType'
  BY <1>2, <1>5 DEF IInv, MapsType
<1>7. \A u \in THREADS \ {t} : Same(u)
  BY <1>2, <1>5, SameRefl DEF Same, IInv, KernelType
<1>8. CallInv(t)' /\ ArgsInv(t)' /\ DentryInv(t)' /\ PathInv(t)' /\ DataInv(t)'
  BY <1>1, <1>2, <1>3
     DEF IInv, ThreadInv, CallInv, ArgsInv, DentryInv, PathInv, DataInv, InCall, runVars
<1>9. FputInv(t)'
  BY <1>2, <1>3, <1>5 DEF FputInv, InCall
<1>10. ImaInv(t)'
  <2>1. dropped => dropped'
    BY <1>5 DEF IInv, RunType
  <2>2. lost' = lost
    BY <1>2 DEF buffer
  <2>3. ~(~lost /\ ~dropped /\ t \in DOMAIN ima_data_map)
    BY <1>1 DEF IInv, ThreadInv, ImaInv
  <2> QED BY <1>2, <2>1, <2>2, <2>3 DEF ImaInv
<1> QED BY <1>2, <1>4, <1>5, <1>6, <1>7, <1>8, <1>9, <1>10, QuietStep DEF ThreadInv

LEMMA ToUserKeeps ==
    ASSUME IInv, NEW t \in THREADS, to_user(t)
    PROVE  IInv'
<1>1. /\ at[t] = "returning" /\ ~InCall(t) /\ cur[t].nest = 0 /\ ~cur[t].ok
  BY DEF to_user, IInv, ThreadInv, CallInv, InCall, KernelType, CALL
<1>2. /\ at' = [at EXCEPT ![t] = IF cur[t].kind = "exit" THEN "dead" ELSE "user"]
      /\ cur' = [cur EXCEPT ![t] = NoCall]
      /\ UNCHANGED <<comm, pending, calls, args_map, fput_data_map, dropped, ima_data_map,
                     evm_data_map,
                     path_map, mode_map, mkdir_dentry, mkdir_map, execve_map, buffer, runVars>>
  BY DEF to_user, maps, fputVars, hashMaps, attrMaps, mkdirMaps
<1>3. /\ at'[t] \in {"dead", "user"} /\ cur'[t] \in CALL
      /\ cur'[t].kind = "none" /\ cur'[t].nest = 0 /\ ~cur'[t].ok
  BY <1>2 DEF IInv, KernelType, CALL, NoCall
<1>4. KernelType' /\ MapsType'
  BY <1>2, <1>3 DEF IInv, KernelType, MapsType, AT
<1>5. \A u \in THREADS \ {t} : Same(u)
  BY <1>2, SameRefl DEF Same, IInv, KernelType
<1>6. CallInv(t)' /\ ArgsInv(t)' /\ DataInv(t)' /\ FputInv(t)'
  BY <1>1, <1>2, <1>3, Monitored DEF CallInv, ArgsInv, DataInv, FputInv, InCall, runVars
<1>7. DentryInv(t)' /\ PathInv(t)' /\ ImaInv(t)'
  BY <1>1, <1>2, <1>3 DEF IInv, ThreadInv, DentryInv, PathInv, ImaInv, buffer
<1> QED BY <1>2, <1>4, <1>5, <1>6, <1>7, QuietStep DEF ThreadInv

-----------------------------------------------------------------------------
(* The steps of a thread that write a record.                              *)

\* What a step does to the buffer, if the record it writes is a good one.
BufferStep ==
    /\ RingType' /\ lost' \in {lost, TRUE}
    /\ \A e \in Records' : e \in Records \/ RecordInv(e)'

LEMMA SubmitGood ==
    ASSUME IInv, HasRoom, UNCHANGED dropped, NEW e, Submit(e), RecordInv(e)
    PROVE  BufferStep
<1>1. RingType' /\ Records' = Records \cup {e} /\ lost' = lost
  BY SubmitFacts DEF IInv
<1>2. RecordInv(e)'
  BY <1>1 DEF RecordInv, OwnDataAt, InodeAt, ContentAt
<1> QED BY <1>1, <1>2 DEF BufferStep

LEMMA NoSubmit ==
    ASSUME IInv, Overflow \/ UNCHANGED buffer
    PROVE  BufferStep
BY QuietFacts DEF IInv, BufferStep, Overflow, buffer

LEMMA DelCardinality ==
    ASSUME MapsType, NEW t
    PROVE  DOMAIN Del(fput_data_map, t) \subseteq KEYS
           /\ Cardinality(DOMAIN Del(fput_data_map, t)) <= FPUT_MAX
<1> DEFINE D == DOMAIN fput_data_map
<1>1. IsFiniteSet(D) /\ Cardinality(D) \in Nat /\ Cardinality(D) <= FPUT_MAX /\ D \subseteq KEYS
  BY KeysFinite, FS_Subset, FS_CardinalityType DEF MapsType
<1>2. Cardinality(D \ {t}) <= Cardinality(D) /\ Cardinality(D \ {t}) \in Nat
  BY <1>1, FS_Subset, FS_CardinalityType
<1>3. DOMAIN Del(fput_data_map, t) = D \ {t}
  BY DelFacts
<1> HIDE DEF D
<1>4. Cardinality(D \ {t}) <= FPUT_MAX
  BY <1>1, <1>2, MonitorAssumption
<1> QED BY <1>1, <1>3, <1>4

LEMMA EnterExitKeeps ==
    ASSUME IInv, NEW t \in THREADS, trace_enter_exit(t)
    PROVE  IInv'
<1>1. /\ at[t] = "user" /\ ~InCall(t) /\ cur[t].nest = 0 /\ ~cur[t].ok
  <2>1. at[t] = "user"
    BY DEF trace_enter_exit
  <2> QED BY <2>1 DEF IInv, ThreadInv, CallInv, InCall, KernelType, CALL
<1>2. /\ at' = [at EXCEPT ![t] = "returning"]
      /\ cur' = [cur EXCEPT ![t] = [NoCall EXCEPT !.kind = "exit"]]
      /\ UNCHANGED <<comm, calls, args_map, fput_data_map, dropped, ima_data_map, evm_data_map,
                     path_map, mode_map, mkdir_dentry, mkdir_map, execve_map, runVars>>
  BY DEF trace_enter_exit, maps, fputVars, hashMaps, attrMaps, mkdirMaps
<1>3. PICK P \in DroppedByExec : pending' = [pending EXCEPT ![t] = P]
  BY DEF trace_enter_exit
<1>4. /\ at'[t] = "returning" /\ cur'[t] \in CALL
      /\ cur'[t].kind = "exit" /\ cur'[t].nest = 0 /\ ~cur'[t].ok
  BY <1>2 DEF IInv, KernelType, CALL, NoCall
<1>5. KernelType' /\ MapsType'
  BY <1>2, <1>3, <1>4 DEF IInv, KernelType, MapsType, AT, DroppedByExec
<1>6. \A u \in THREADS \ {t} : Same(u)
  BY <1>2, SameRefl DEF Same, IInv, KernelType
<1>7. BufferStep
  <2>1. CASE should_monitor(t) /\ HasRoom
    <3>1. PICK type \in {IF u = Garbage THEN "fput" ELSE "syscall" : u \in Unwritten} :
            Submit([Record(t, type, TRUE) EXCEPT !.kind = "exit", !.origin = None, !.call = 0])
      BY <2>1 DEF trace_enter_exit
    <3> DEFINE e == [Record(t, type, TRUE) EXCEPT !.kind = "exit", !.origin = None, !.call = 0]
    <3>2. e.kind = "exit" /\ e.ima_hash = None
      BY DEF Record
    <3> HIDE DEF e
    <3>3. RecordInv(e)
      BY <3>2 DEF RecordInv, OwnDataAt, InodeAt, ContentAt, KINDS, TRACED_KINDS, ATTR_KINDS
    <3> QED BY <1>2, <2>1, <3>1, <3>3, SubmitGood DEF e
  <2>2. CASE ~(should_monitor(t) /\ HasRoom)
    BY <2>2, NoSubmit DEF trace_enter_exit
  <2> QED BY <2>1, <2>2
<1>8. CallInv(t)' /\ ArgsInv(t)' /\ DataInv(t)' /\ FputInv(t)'
  BY <1>1, <1>2, <1>4, Monitored DEF CallInv, ArgsInv, DataInv, FputInv, InCall, runVars
<1>9. DentryInv(t)' /\ PathInv(t)'
  BY <1>1, <1>2, <1>4 DEF IInv, ThreadInv, DentryInv, PathInv
<1>10. ImaInv(t)'
  <2>1. lost => lost'
    BY <1>7 DEF BufferStep, IInv, RunType
  <2> QED BY <1>1, <1>2, <2>1 DEF IInv, ThreadInv, ImaInv
<1> QED BY <1>2, <1>5, <1>6, <1>7, <1>8, <1>9, <1>10, ThreadStep DEF ThreadInv, BufferStep

LEMMA FputRetKeeps ==
    ASSUME IInv, NEW t \in THREADS, handle___fput_ret(t)
    PROVE  IInv'
<1>1. /\ at[t] = "put" /\ ~InCall(t) /\ cur[t].nest = 0 /\ ~cur[t].ok
      /\ cur[t].kind \in {"none", "exit"}
  BY DEF handle___fput_ret, IInv, ThreadInv, CallInv, InCall, KernelType, CALL
<1>2. /\ at' = [at EXCEPT ![t] = "returning"]
      /\ pending' = [pending EXCEPT ![t] = @ \ {cur[t].file}]
      /\ UNCHANGED <<comm, cur, calls, args_map, dropped, path_map, mode_map, mkdir_dentry,
                     mkdir_map, execve_map, runVars>>
  BY DEF handle___fput_ret, attrMaps, mkdirMaps
<1>3. at'[t] = "returning" /\ KernelType'
  BY <1>2 DEF IInv, KernelType, AT
<1> DEFINE taken == t \in DOMAIN fput_data_map /\ comm[t] /\ HasRoom
<1>4. CASE taken
  <2>1. /\ Submit([Record(t, "fput", TRUE) EXCEPT
                     !.kind = "fput", !.data = fput_data_map[t],
                     !.ima_hash = Get(ima_data_map, t, None),
                     !.evm_hash = Get(evm_data_map, t, None)])
        /\ fput_data_map' = Del(fput_data_map, t)
        /\ ima_data_map' = Del(ima_data_map, t)
        /\ evm_data_map' = Del(evm_data_map, t)
    BY <1>1, <1>4, Monitored DEF handle___fput_ret, TakeHashes
  <2>2. MapsType'
    BY <1>2, <2>1, DelCardinality DEF IInv, MapsType, Del
  <2>3. \A u \in THREADS \ {t} : Same(u)
    BY <1>2, <2>1, SameRefl, DelFacts DEF Same, IInv, KernelType
  <2> DEFINE e == [Record(t, "fput", TRUE) EXCEPT
                     !.kind = "fput", !.data = fput_data_map[t],
                     !.ima_hash = Get(ima_data_map, t, None),
                     !.evm_hash = Get(evm_data_map, t, None)]
  <2>4. /\ e.kind = "fput" /\ e.data = fput_data_map[t] /\ e.origin = cur[t].file
        /\ e.ima_hash = Get(ima_data_map, t, None)
    BY DEF Record
  <2> HIDE DEF e
  <2>5. OwnDataAt(e)
    BY <2>4 DEF OwnDataAt, KINDS, TRACED_KINDS, ATTR_KINDS
  <2>6. InodeAt(e)
    BY <1>1, <1>4, <2>4 DEF InodeAt, IInv, ThreadInv, FputInv
  <2>7. ~lost /\ ~dropped => ContentAt(e)
    BY <2>4 DEF ContentAt, Get, IInv, ThreadInv, ImaInv
  <2>8. BufferStep
    BY <1>2, <1>4, <2>1, <2>5, <2>6, <2>7, SubmitGood DEF RecordInv, e
  <2>9. ImaInv(t)'
    BY <2>1 DEF ImaInv, Del
  <2>10. CallInv(t)' /\ ArgsInv(t)' /\ DentryInv(t)' /\ PathInv(t)' /\ DataInv(t)' /\ FputInv(t)'
    BY <1>1, <1>2, <1>3
       DEF IInv, ThreadInv, CallInv, ArgsInv, DentryInv, PathInv, DataInv, FputInv, InCall, runVars
  <2> QED BY <1>2, <1>3, <2>2, <2>3, <2>8, <2>9, <2>10, ThreadStep DEF ThreadInv, BufferStep
<1>5. CASE ~taken
  <2>1. /\ UNCHANGED <<fput_data_map, ima_data_map, evm_data_map>>
        /\ Overflow \/ UNCHANGED buffer
        /\ t \in DOMAIN fput_data_map /\ comm[t] => Overflow
    BY <1>1, <1>5, Monitored DEF handle___fput_ret, fputVars, hashMaps
  <2>2. MapsType'
    BY <1>2, <2>1 DEF IInv, MapsType
  <2>3. \A u \in THREADS \ {t} : Same(u)
    BY <1>2, <2>1, SameRefl DEF Same, IInv, KernelType
  <2>4. BufferStep
    BY <2>1, NoSubmit
  <2>5. ImaInv(t)'
    <3> SUFFICES ASSUME ~lost', ~dropped, t \in DOMAIN ima_data_map PROVE FALSE
      BY <1>2, <2>1 DEF ImaInv
    <3>1. ~lost
      BY <2>4 DEF BufferStep
    <3>2. comm[t] /\ t \in DOMAIN fput_data_map
      BY <1>1, <3>1 DEF IInv, ThreadInv, ImaInv, FputInv
    <3> QED BY <2>1, <3>2 DEF Overflow
  <2>6. CallInv(t)' /\ ArgsInv(t)' /\ DentryInv(t)' /\ PathInv(t)' /\ DataInv(t)' /\ FputInv(t)'
    BY <1>1, <1>2, <1>3
       DEF IInv, ThreadInv, CallInv, ArgsInv, DentryInv, PathInv, DataInv, FputInv, InCall, runVars
  <2> QED BY <1>2, <1>3, <2>2, <2>3, <2>4, <2>5, <2>6, ThreadStep DEF ThreadInv, BufferStep
<1> QED BY <1>4, <1>5

\* The record of a call that returns, whichever of the six handlers writes it.
LEMMA ExitRecord ==
    ASSUME IInv, NEW t \in THREADS, NEW ok \in BOOLEAN, HasRoom, comm[t], UNCHANGED dropped,
           at[t] \in {"kernel", "returned"},
           cur[t].kind \notin {"open", "close", "other"} => ok = cur[t].ok,
           \/ trace_exit_other(t, ok) \/ trace_exit_open(t, ok)
           \/ trace_exit_mkdir(t, ok) \/ trace_exit_attr(t, ok)
           \/ trace_exit_close(t, ok) \/ trace_exit_execve(t, ok)
    PROVE  BufferStep
<1> DEFINE r == CallRecord(t, ok)
<1>1. /\ DOMAIN r = {"type", "kind", "call", "origin", "ok", "args", "data", "ima_hash", "evm_hash"}
      /\ r.type = "syscall" /\ r.kind = cur[t].kind /\ r.call = cur[t].call
      /\ r.origin = cur[t].file /\ r.ok = ok /\ r.ima_hash = None
      /\ r.args = Get(args_map, t, Garbage)
  BY DEF CallRecord, Record
<1>2. cur[t].kind \in TRACED_KINDS \ {"execve"} => r.args = cur[t].call
  BY <1>1 DEF IInv, ThreadInv, ArgsInv, InCall, Get
<1> HIDE DEF r
\* The record differs from r only in its data and hash of the metadata.
<1>3. ASSUME NEW e, Submit(e), e.type = r.type, e.kind = r.kind, e.call = r.call,
             e.origin = r.origin, e.ok = r.ok, e.ima_hash = r.ima_hash, e.args = r.args,
             cur[t].kind \in TRACED_KINDS,
             ok /\ cur[t].kind \in ATTR_KINDS \cup {"mkdir", "open"} =>
               e.data = <<cur[t].call, cur[t].file>>,
             ok /\ cur[t].kind = "execve" => e.data = cur[t].call,
             cur[t].kind = "close" => \/ e.data = cur[t].file
                                      \/ dropped /\ e.data \in {None, Garbage}
      PROVE  BufferStep
  <2>1. OwnDataAt(e)
    BY <1>1, <1>2, <1>3 DEF OwnDataAt
  <2>2. InodeAt(e)
    BY <1>1, <1>3 DEF InodeAt, TRACED_KINDS, ATTR_KINDS
  <2>3. ContentAt(e)
    BY <1>1, <1>3 DEF ContentAt
  <2> QED BY <1>3, <2>1, <2>2, <2>3, SubmitGood DEF RecordInv
<1>4. CASE trace_exit_other(t, ok)
  BY <1>3, <1>4 DEF trace_exit_other, r, TRACED_KINDS, ATTR_KINDS
<1>5. CASE trace_exit_open(t, ok)
  <2> DEFINE e == [r EXCEPT !.data = IF ok THEN <<cur[t].call, cur[t].file>> ELSE None]
  <2>1. cur[t].kind = "open" /\ Submit(e)
    BY <1>5 DEF trace_exit_open, r
  <2>2. ok => e.data = <<cur[t].call, cur[t].file>>
    BY <1>1
  <2> QED BY <1>1, <1>3, <2>1, <2>2 DEF TRACED_KINDS, ATTR_KINDS
<1>6. CASE trace_exit_mkdir(t, ok)
  <2> DEFINE e == [r EXCEPT !.data = IF ok THEN Get(mkdir_map, t, Garbage) ELSE None]
  <2>1. cur[t].kind = "mkdir" /\ Submit(e)
    BY <1>6 DEF trace_exit_mkdir, r
  <2>2. ok => Get(mkdir_map, t, Garbage) = <<cur[t].call, cur[t].file>>
    BY <2>1 DEF IInv, ThreadInv, DataInv, Get
  <2>3. ok => e.data = <<cur[t].call, cur[t].file>>
    BY <1>1, <2>2
  <2> QED BY <1>1, <1>3, <2>1, <2>3 DEF TRACED_KINDS, ATTR_KINDS
<1>7. CASE trace_exit_attr(t, ok)
  <2> DEFINE data == Get(mode_map, <<cur[t].kind, t>>, Garbage)
  <2>1. PICK hash : Submit(IF ok THEN [r EXCEPT !.evm_hash = hash, !.data = data] ELSE r)
    BY <1>7 DEF trace_exit_attr, r
  <2>2. cur[t].kind \in ATTR_KINDS
    BY <1>7 DEF trace_exit_attr
  <2>3. ok => data = <<cur[t].call, cur[t].file>>
    BY <2>2 DEF IInv, ThreadInv, DataInv, Get, ATTR_KINDS
  <2> HIDE DEF data
  <2>4. CASE ok
    BY <1>1, <1>3, <2>1, <2>2, <2>3, <2>4 DEF TRACED_KINDS, ATTR_KINDS
  <2>5. CASE ~ok
    BY <1>3, <2>1, <2>2, <2>5 DEF TRACED_KINDS, ATTR_KINDS
  <2> QED BY <2>4, <2>5
<1>8. CASE trace_exit_close(t, ok)
  <2>1. PICK ino \in IF t \in DOMAIN fput_data_map THEN {fput_data_map[t]} ELSE Unwritten :
          Submit([r EXCEPT !.data = ino])
    BY <1>8 DEF trace_exit_close, r
  <2>2. cur[t].kind = "close"
    BY <1>8 DEF trace_exit_close
  <2>3. ino = cur[t].file \/ (dropped /\ ino \in {None, Garbage})
    BY <2>1, <2>2 DEF IInv, ThreadInv, FputInv, InCall, Unwritten
  <2> QED BY <1>1, <1>3, <2>1, <2>2, <2>3 DEF TRACED_KINDS, ATTR_KINDS
<1>9. CASE trace_exit_execve(t, ok)
  <2> DEFINE e == [r EXCEPT !.data = IF ok THEN Get(execve_map, t, Garbage) ELSE None]
  <2>1. cur[t].kind = "execve" /\ Submit(e)
    BY <1>9 DEF trace_exit_execve, r
  <2>2. ok => Get(execve_map, t, Garbage) = cur[t].call
    BY <2>1 DEF IInv, ThreadInv, DataInv, Get
  <2>3. ok => e.data = cur[t].call
    BY <1>1, <2>2
  <2> QED BY <1>1, <1>3, <2>1, <2>3 DEF TRACED_KINDS, ATTR_KINDS
<1> QED BY <1>4, <1>5, <1>6, <1>7, <1>8, <1>9

LEMMA ExitKeeps ==
    ASSUME IInv, NEW t \in THREADS, NEW ok \in BOOLEAN, sys_exit(t, ok)
    PROVE  IInv'
<1> DEFINE writes == should_monitor(t) /\ cur[t].kind \in TRACED_KINDS
           handled == \/ trace_exit_other(t, ok) \/ trace_exit_open(t, ok)
                      \/ trace_exit_mkdir(t, ok) \/ trace_exit_attr(t, ok)
                      \/ trace_exit_close(t, ok) \/ trace_exit_execve(t, ok)
<1>1. /\ at[t] \in {"kernel", "returned"} /\ cur[t].nest = 0
      /\ IF cur[t].kind \in {"open", "close", "other"} THEN cur[t].file = None => ~ok
         ELSE ok = cur[t].ok
      /\ at' = [at EXCEPT ![t] = "returning"]
      /\ cur' = [cur EXCEPT ![t] = NoCall]
      /\ UNCHANGED <<comm, calls, dropped, ima_data_map, path_map, mkdir_dentry, runVars>>
  BY DEF sys_exit
<1>2. PICK P \in Released(t, ok) : pending' = [pending EXCEPT ![t] = P]
  BY DEF sys_exit
<1>3. /\ writes => args_map' = Del(args_map, t)
      /\ writes /\ HasRoom => handled
      /\ writes /\ ~HasRoom =>
           Overflow /\ UNCHANGED <<fput_data_map, evm_data_map, mode_map, mkdir_map, execve_map>>
      /\ ~writes => UNCHANGED <<maps, buffer>>
  BY DEF sys_exit
<1>4. /\ args_map' \in {args_map, Del(args_map, t)}
      /\ fput_data_map' \in {fput_data_map, Del(fput_data_map, t)}
      /\ evm_data_map' \in {evm_data_map, Del(evm_data_map, t)}
      /\ mode_map' \in {mode_map, Del(mode_map, <<cur[t].kind, t>>)}
      /\ mkdir_map' \in {mkdir_map, Del(mkdir_map, t)}
      /\ execve_map' \in {execve_map, Del(execve_map, t)}
  <2>1. CASE ~writes
    BY <1>3, <2>1 DEF maps, fputVars, hashMaps, attrMaps, mkdirMaps
  <2>2. CASE writes /\ ~HasRoom
    BY <1>3, <2>2
  <2>3. CASE writes /\ HasRoom
    BY <1>3, <2>3 DEF trace_exit_other, trace_exit_open, trace_exit_mkdir, trace_exit_attr,
                      trace_exit_close, trace_exit_execve
  <2> QED BY <2>1, <2>2, <2>3
<1>5. /\ at'[t] = "returning" /\ cur'[t] \in CALL
      /\ cur'[t].kind = "none" /\ cur'[t].nest = 0 /\ ~cur'[t].ok
  BY <1>1 DEF IInv, KernelType, CALL, NoCall
<1>6. P \subseteq FILES
  <2>1. /\ cur[t].file \in FILES \cup {None}
        /\ cur[t].file = None => cur[t].kind = "close"
    BY <1>1 DEF IInv, KernelType, CALL, ThreadInv, CallInv, InCall
  <2> QED BY <1>1, <1>2, <2>1 DEF Released, DroppedByExec
<1>7. KernelType'
  BY <1>1, <1>2, <1>5, <1>6 DEF IInv, KernelType, AT
<1>8. MapsType'
  BY <1>1, <1>4, DelCardinality DEF IInv, MapsType, Del
<1>9. \A u \in THREADS \ {t} : Same(u)
  <2> SUFFICES ASSUME NEW u \in THREADS \ {t} PROVE Same(u)
    OBVIOUS
  <2>1. /\ SameAt(args_map, args_map', u) /\ SameAt(fput_data_map, fput_data_map', u)
        /\ SameAt(mkdir_map, mkdir_map', u) /\ SameAt(execve_map, execve_map', u)
    BY <1>4 DEF SameAt, Del
  <2>2. \A kind \in ATTR_KINDS : SameAt(mode_map, mode_map', <<kind, u>>)
    BY <1>4 DEF SameAt, Del
  <2> QED BY <1>1, <2>1, <2>2, SameRefl DEF Same, IInv, KernelType
<1>10. BufferStep
  <2>1. CASE ~writes \/ ~HasRoom
    BY <1>3, <2>1, NoSubmit
  <2>2. CASE writes /\ HasRoom
    BY <1>1, <1>3, <2>2, Monitored, ExitRecord
  <2> QED BY <2>1, <2>2
<1>11. CallInv(t)' /\ ArgsInv(t)' /\ DataInv(t)' /\ FputInv(t)'
  BY <1>1, <1>5, Monitored DEF CallInv, ArgsInv, DataInv, FputInv, InCall, runVars
<1>12. DentryInv(t)' /\ PathInv(t)'
  BY <1>1, <1>5 DEF IInv, ThreadInv, DentryInv, PathInv
<1>13. ImaInv(t)'
  <2>1. lost => lost'
    BY <1>10 DEF BufferStep, IInv, RunType
  <2> QED BY <1>1, <2>1 DEF IInv, ThreadInv, ImaInv
<1> QED BY <1>1, <1>7, <1>8, <1>9, <1>10, <1>11, <1>12, <1>13, ThreadStep DEF ThreadInv, BufferStep

-----------------------------------------------------------------------------
(* The invariant.                                                          *)

LEMMA InitIInv == Init => IInv
<1> SUFFICES ASSUME Init PROVE IInv
  OBVIOUS
<1>1. KernelType /\ RunType
  BY DEF Init, KernelType, RunType, AT, CALL, NoCall
<1>2. MapsType
  <2>1. DOMAIN fput_data_map = {}
    BY DEF Init
  <2>2. Cardinality(DOMAIN fput_data_map) = 0
    BY <2>1, FS_EmptySet
  <2>3. 0 <= FPUT_MAX
    BY MonitorAssumption
  <2> QED BY <2>1, <2>2, <2>3 DEF Init, MapsType
<1>3. ring = <<>> /\ Records = {}
  BY DEF Init, Records
<1>4. RingType
  BY <1>3, MonitorAssumption DEF RingType
<1>5. ASSUME NEW t \in THREADS PROVE ThreadInv(t)
  <2>1. at[t] = "dead" /\ cur[t].kind = "none" /\ cur[t].ok = FALSE /\ cur[t].nest = 0
    BY DEF Init, NoCall
  <2> QED BY <2>1 DEF Init, ThreadInv, CallInv, ArgsInv, DentryInv, PathInv, DataInv, FputInv,
                      ImaInv,
                      InCall
<1> QED BY <1>1, <1>2, <1>3, <1>4, <1>5 DEF IInv

LEMMA NextKeeps == IInv /\ [Next]_vars => IInv'
<1> SUFFICES ASSUME IInv, [Next]_vars PROVE IInv'
  OBVIOUS
<1>1. ASSUME NEW t \in THREADS, Thread(t) PROVE IInv'
  BY <1>1, EnterKeeps, EvmKeeps, ImaKeeps, CommonKeeps, CommonRetKeeps, MkdirKeeps, MkdirRetKeeps,
     ExecKeeps, ExitKeeps, EnterExitKeeps, FputKeeps, FputRetKeeps, ToUserKeeps DEF Thread
<1>2. CASE UNCHANGED vars
  <2>1. /\ UNCHANGED <<comm, at, cur, pending, calls, args_map, fput_data_map, dropped,
                       ima_data_map,
                       evm_data_map, path_map, mode_map, mkdir_dentry, mkdir_map, execve_map>>
        /\ UNCHANGED <<ring, lost, reader, enabled>>
    BY <1>2 DEF vars, kernelVars, maps, fputVars, hashMaps, attrMaps, mkdirMaps, buffer, runVars
  <2>2. KernelType' /\ MapsType' /\ RunType'
    BY <2>1 DEF IInv, KernelType, MapsType, RunType
  <2>3. RingType' /\ Records' = Records
    BY <2>1, QuietFacts DEF IInv
  <2>4. \A u \in THREADS : Same(u)
    BY <2>1, SameRefl DEF Same
  <2>5. \A u \in THREADS : ThreadInv(u)'
    BY <2>1, <2>4, SameKeeps DEF IInv
  <2> QED BY <2>1, <2>2, <2>3, <2>5, RecordsKeep DEF IInv
<1> QED BY <1>1, <1>2, ReaderKeeps, OtherKeeps DEF Next

-----------------------------------------------------------------------------
(* The theorems.                                                           *)

\* The inductive invariant: for each thread, what the maps hold for the call it
\* is in; for each record in the buffer, whose data it carries.
THEOREM MonitorIInv == Spec => []IInv
BY InitIInv, NextKeeps, PTL DEF Spec

\* The entries of the maps belong to threads of the machine, mkdir_dentry counts
\* the running vfs_mkdir, and neither the ring buffer nor fput_data_map is
\* exceeded.
THEOREM MonitorTypeCorrect == Spec => []MonitorTypeOK
<1>1. IInv => MonitorTypeOK
  <2> SUFFICES ASSUME IInv PROVE MonitorTypeOK
    OBVIOUS
  <2>1. \A t \in DOMAIN mkdir_dentry : mkdir_dentry[t].depth + 1 = cur[t].nest
    BY DEF IInv, MapsType, ThreadInv, DentryInv
  <2> QED BY <2>1 DEF IInv, KernelType, MapsType, RunType, RingType, MonitorTypeOK, AT
<1> QED BY <1>1, MonitorIInv, PTL

\* A record never carries the data or the arguments of another call, whatever
\* failed, untraced or lost calls have left in the maps.
THEOREM DataOwn == Spec => []OwnData
<1>1. IInv => OwnData
  BY DEF IInv, RecordInv, OwnDataAt, OwnData
<1> QED BY <1>1, MonitorIInv, PTL

\* The records of close and __fput never name another inode than the one that
\* was closed, whatever the capacity of fput_data_map; that of close misses it
\* only once the map was too full for a thread of the test.
THEOREM InodesOwn == Spec => []InodeOwn
<1>1. IInv => InodeOwn
  BY DEF IInv, RecordInv, InodeAt, InodeOwn
<1> QED BY <1>1, MonitorIInv, PTL

\* Until a record is lost or fput_data_map was too full for a thread of the
\* test, the content hash in a record of __fput is that of its file.
THEOREM ContentsOwn == Spec => []ContentOwn
<1>1. IInv => ContentOwn
  BY DEF IInv, RecordInv, ContentAt, ContentOwn
<1> QED BY <1>1, MonitorIInv, PTL

\* No thread returns to user mode with a context of chmod_common, chown_common
\* or vfs_mkdir for its next call to find.
THEOREM ContextsGone == Spec => []NoLeftover
<1>1. IInv => NoLeftover
  <2> SUFFICES ASSUME IInv, NEW t \in THREADS, at[t] \in {"user", "dead"}
               PROVE  /\ t \notin DOMAIN mkdir_dentry
                      /\ \A kind \in ATTR_KINDS : <<kind, t>> \notin DOMAIN path_map
    BY DEF NoLeftover
  <2> QED BY DEF IInv, ThreadInv, CallInv, DentryInv, PathInv
<1> QED BY <1>1, MonitorIInv, PTL
=============================================================================
