------------------------------ MODULE Monitor ------------------------------
(***************************************************************************)
(* The eBPF monitor (monitoring/syscall_monitor.bpf.c) and the process     *)
(* that reads its ring buffer (monitoring/monitor.c).  A handler is        *)
(* attached to the entry or the return of a system call or of a kernel     *)
(* function; what an entry handler learns is kept in maps, keyed by        *)
(* thread, for the handler of the return.                                  *)
(*                                                                         *)
(* Each action is one step of a thread in the kernel together with the     *)
(* handler it triggers.  What the kernel does between the handlers         *)
(* (Linux 6.1) is external: the functions run in the order modelled here,  *)
(* and __fput of a closed file on the return to user mode, after the       *)
(* handler of the return of close.                                         *)
(*                                                                         *)
(* The data of a call is abstracted to its origin: the number of the call  *)
(* and the inode it is about.  A hash is the inode it was computed for.    *)
(***************************************************************************)
EXTENDS Naturals, Sequences, FiniteSets

CONSTANTS
    THREADS,        \* threads of the program under test, started by run
    OTHERS,         \* other threads of the machine
    FILES,          \* inodes
    CALLS,          \* the kinds of calls the program under test makes
    RING_SIZE,      \* records the ring buffer holds
    FPUT_MAX,       \* max_entries of fput_data_map
    MAX_MKDIR,      \* bound on the vfs_mkdir of one call (stacked file systems)
    MAX_CALLS,      \* bound on the calls of a behaviour
    None, Garbage,  \* a zero field; what earlier records left in the buffer
    Lower           \* the inode a nested vfs_mkdir makes

ASSUME MonitorAssumption ==
    /\ THREADS \cap OTHERS = {}
    /\ IsFiniteSet(THREADS) /\ IsFiniteSet(OTHERS)
    /\ {RING_SIZE, FPUT_MAX, MAX_MKDIR, MAX_CALLS} \subseteq Nat \ {0}
    /\ {None, Garbage, Lower} \cap FILES = {}

VARIABLES
    enabled,            \* config_map
    comm,               \* does the name of the thread's command begin with tst_
    at,                 \* where the thread is
    cur,                \* its call; made, nest: vfs_mkdir so far, and running
    pending,            \* files to be released on return to user mode
    args_map,           \* thread |-> call
    fput_data_map,      \* thread |-> inode
    ima_data_map,       \* thread |-> inode
    evm_data_map,       \* thread |-> inode
    path_map,           \* chmod_map, chown_map: <<kind, thread>> |-> inode
    mode_map,           \* chmod_data_map, chown_data_map: |-> <<call, inode>>
    mkdir_dentry,       \* thread |-> [dentry, depth]
    mkdir_map,          \* thread |-> <<call, inode>>
    execve_map,         \* thread |-> call
    ring,               \* events: records reserved and not yet read
    reserved,           \* how many of the buffer's slots were ever used
    lost,               \* "ringbuffer overflow" has happened
    dropped,            \* an update of fput_data_map for the test has failed
    reader,             \* the loop of monitor run
    calls               \* calls so far

kernelVars == <<comm, at, cur, pending, calls>>
fputVars   == <<fput_data_map, dropped>>
hashMaps   == <<ima_data_map, evm_data_map>>
attrMaps   == <<path_map, mode_map>>
mkdirMaps  == <<mkdir_dentry, mkdir_map>>
maps       == <<args_map, fputVars, hashMaps, attrMaps, mkdirMaps, execve_map>>
buffer     == <<ring, reserved, lost>>
runVars    == <<enabled, reader>>
vars       == <<kernelVars, maps, buffer, runVars>>

Put(map, key, value) == [k \in DOMAIN map \cup {key} |-> IF k = key THEN value ELSE map[k]]
Del(map, key) == [k \in DOMAIN map \ {key} |-> map[k]]
Get(map, key, default) == IF key \in DOMAIN map THEN map[key] ELSE default

\* The calls whose handlers use chmod_common's or chown_common's data;
\* fchmodat runs chmod_common and is not traced itself.  "other" is a traced
\* call whose handlers only read its arguments.
ATTR_KINDS   == {"chmod", "chown"}
TRACED_KINDS == ATTR_KINDS \cup {"open", "mkdir", "close", "execve", "other"}
KINDS        == TRACED_KINDS \cup {"fchmodat"}
ASSUME CallsAssumption == CALLS \subseteq KINDS
FunctionOf(kind) == IF kind = "fchmodat" THEN "chmod" ELSE kind

NoCall == [kind |-> "none", call |-> 0, file |-> None, ok |-> FALSE, made |-> 0, nest |-> 0]

Init ==
    /\ enabled = FALSE
    /\ comm = [t \in THREADS |-> FALSE]
    /\ at = [t \in THREADS |-> "dead"]
    /\ cur = [t \in THREADS |-> NoCall]
    /\ pending = [t \in THREADS |-> {}]
    /\ args_map = [t \in {} |-> 0]
    /\ fput_data_map = [t \in {} |-> None]
    /\ ima_data_map = [t \in {} |-> None]
    /\ evm_data_map = [t \in {} |-> None]
    /\ path_map = [k \in {} |-> None]
    /\ mode_map = [k \in {} |-> None]
    /\ mkdir_dentry = [t \in {} |-> None]
    /\ mkdir_map = [t \in {} |-> None]
    /\ execve_map = [t \in {} |-> 0]
    /\ ring = <<>>
    /\ reserved = 0
    /\ lost = FALSE
    /\ dropped = FALSE
    /\ reader = "off"
    /\ calls = 0

should_monitor(t) == enabled /\ comm[t]

-----------------------------------------------------------------------------
(* The ring buffer.  bpf_ringbuf_reserve does not clear the record: a      *)
(* field that is not written holds what an earlier record left there.      *)

Unwritten == IF reserved < RING_SIZE THEN {None} ELSE {None, Garbage}

\* What every record says.  call and origin are not in the code's record:
\* they name the call and the inode it ought to be about.
Record(t, type, ok) ==
    [type |-> type, kind |-> cur[t].kind, call |-> cur[t].call, origin |-> cur[t].file,
     ok |-> ok, args |-> None, data |-> None, ima_hash |-> None, evm_hash |-> None]

\* read_main_args, bpf_ringbuf_submit; a full buffer drops the record.
HasRoom == Len(ring) < RING_SIZE
Submit(e) ==
    /\ ring' = Append(ring, e)
    /\ reserved' = IF reserved < RING_SIZE THEN reserved + 1 ELSE reserved
    /\ UNCHANGED lost
Overflow ==
    /\ lost' = TRUE
    /\ UNCHANGED <<ring, reserved>>

-----------------------------------------------------------------------------
(* Entry of a system call.                                                 *)

save_syscall_args(t) ==
    args_map' = IF should_monitor(t) THEN Put(args_map, t, calls + 1) ELSE args_map

\* bpf_map_update_elem on fput_data_map, which fails for a new key when the
\* map is full: the handlers do not look at its result.
Fits(t) == t \in DOMAIN fput_data_map \/ Cardinality(DOMAIN fput_data_map) < FPUT_MAX
PutFputData(t, file) ==
    /\ fput_data_map' = IF Fits(t) THEN Put(fput_data_map, t, file) ELSE fput_data_map
    /\ dropped' = (dropped \/ (t \in THREADS /\ ~Fits(t)))

\* Seeded slip: an entry that is already there is kept.
trace_enter_close_Keeps(t, file) ==
    IF t \in DOMAIN fput_data_map THEN UNCHANGED fputVars ELSE PutFputData(t, file)

\* The inode is saved whether or not the thread is monitored; it is zero for
\* a number that is no descriptor.
trace_enter_close(t, file) == PutFputData(t, file)

\* The other calls of a thread that is not monitored trigger nothing.
sys_enter(t, kind, file) ==
    /\ at[t] = "user"
    /\ calls < MAX_CALLS
    /\ file = None => kind = "close"
    /\ should_monitor(t) \/ kind \in {"close", "execve"}
    /\ at' = [at EXCEPT ![t] = "kernel"]
    /\ cur' = [cur EXCEPT ![t] = [NoCall EXCEPT !.kind = kind, !.call = calls + 1, !.file = file]]
    /\ calls' = calls + 1
    /\ IF kind \in TRACED_KINDS THEN save_syscall_args(t) ELSE UNCHANGED args_map
    /\ IF kind = "close" THEN trace_enter_close(t, file) ELSE UNCHANGED fputVars
    /\ UNCHANGED <<comm, pending, hashMaps, attrMaps, mkdirMaps, execve_map, buffer, runVars>>

\* A thread outside the test closes a file; the handler of the return does
\* not get past should_monitor, and the entry stays.  Which file it is does
\* not matter.
other_close(o) ==
    /\ enabled
    /\ trace_enter_close(o, None)
    /\ UNCHANGED <<kernelVars, args_map, hashMaps, attrMaps, mkdirMaps, execve_map, buffer, runVars>>

-----------------------------------------------------------------------------
(* Functions of the kernel inside a call or inside __fput.                 *)

\* Entry and return: EVM computes the hash of the metadata of the file, to
\* verify it (open, execve, before chmod and chown) or to update it.  When it
\* fails nothing is stored.
handle_evm_calc_hmac_or_hash(t) ==
    /\ \/ at[t] = "kernel" /\ cur[t].kind \in {"open", "execve"}
       \/ at[t] \in {"common", "put"}
    /\ should_monitor(t)
    /\ evm_data_map' = Put(evm_data_map, t, cur[t].file)
    /\ UNCHANGED <<kernelVars, args_map, fputVars, ima_data_map, attrMaps, mkdirMaps,
                   execve_map, buffer, runVars>>

handle_ima_update_xattr(t) ==
    /\ at[t] = "put"
    /\ should_monitor(t)
    /\ ima_data_map' = Put(ima_data_map, t, cur[t].file)
    /\ UNCHANGED <<kernelVars, args_map, fputVars, evm_data_map, attrMaps, mkdirMaps,
                   execve_map, buffer, runVars>>

\* chmod_common and chown_common: the path at the entry, the mode at the return.
handle_common(t) ==
    /\ at[t] = "kernel" /\ cur[t].nest = 0
    /\ cur[t].kind \in ATTR_KINDS \cup {"fchmodat"}
    /\ at' = [at EXCEPT ![t] = "common"]
    /\ path_map' = IF should_monitor(t)
                   THEN Put(path_map, <<FunctionOf(cur[t].kind), t>>, cur[t].file) ELSE path_map
    /\ UNCHANGED <<comm, cur, pending, calls, args_map, fputVars, hashMaps, mode_map,
                   mkdirMaps, execve_map, buffer, runVars>>

\* Seeded slip: the context is only deleted on success.
handle_common_ret_Leaks(t, ok) ==
    /\ at[t] = "common"
    /\ at' = [at EXCEPT ![t] = "returned"]
    /\ cur' = [cur EXCEPT ![t].ok = ok]
    /\ LET key == <<FunctionOf(cur[t].kind), t>> IN
       IF should_monitor(t) /\ key \in DOMAIN path_map /\ ok
       THEN /\ mode_map' = Put(mode_map, key, <<cur[t].call, path_map[key]>>)
            /\ path_map' = Del(path_map, key)
       ELSE UNCHANGED attrMaps
    /\ UNCHANGED <<comm, pending, calls, args_map, fputVars, hashMaps, mkdirMaps, execve_map,
                   buffer, runVars>>

\* Seeded slip: a mode that is already there is kept.
handle_common_ret_Keeps(t, ok) ==
    /\ at[t] = "common"
    /\ at' = [at EXCEPT ![t] = "returned"]
    /\ cur' = [cur EXCEPT ![t].ok = ok]
    /\ LET key == <<FunctionOf(cur[t].kind), t>> IN
       IF should_monitor(t) /\ key \in DOMAIN path_map
       THEN /\ mode_map' = IF ok /\ key \notin DOMAIN mode_map
                           THEN Put(mode_map, key, <<cur[t].call, path_map[key]>>) ELSE mode_map
            /\ path_map' = Del(path_map, key)
       ELSE UNCHANGED attrMaps
    /\ UNCHANGED <<comm, pending, calls, args_map, fputVars, hashMaps, mkdirMaps, execve_map,
                   buffer, runVars>>

handle_common_ret(t, ok) ==
    /\ at[t] = "common"
    /\ at' = [at EXCEPT ![t] = "returned"]
    /\ cur' = [cur EXCEPT ![t].ok = ok]
    /\ LET key == <<FunctionOf(cur[t].kind), t>> IN
       IF should_monitor(t) /\ key \in DOMAIN path_map
       THEN /\ mode_map' = IF ok THEN Put(mode_map, key, <<cur[t].call, path_map[key]>>)
                           ELSE mode_map
            /\ path_map' = Del(path_map, key)
       ELSE UNCHANGED attrMaps
    /\ UNCHANGED <<comm, pending, calls, args_map, fputVars, hashMaps, mkdirMaps, execve_map,
                   buffer, runVars>>

\* Seeded slip: the dentry of the innermost call is remembered.
FirstDentry_Last(t, dentry) == Put(mkdir_dentry, t, [dentry |-> dentry, depth |-> 0])

\* vfs_mkdir runs once for the directory of mkdir and, in it, for the
\* directories a stacked file system makes below; a copy-up in chmod, too,
\* makes directories.  The outermost dentry is remembered.
FirstDentry(t, dentry) ==
    Put(mkdir_dentry, t, IF t \in DOMAIN mkdir_dentry
                         THEN [mkdir_dentry[t] EXCEPT !.depth = @ + 1]
                         ELSE [dentry |-> dentry, depth |-> 0])

handle_vfs_mkdir(t) ==
    /\ at[t] = "kernel"
    /\ cur[t].kind \in {"mkdir", "chmod"}
    /\ cur[t].made < MAX_MKDIR
    /\ cur' = [cur EXCEPT ![t].made = @ + 1, ![t].nest = @ + 1]
    /\ mkdir_dentry' =
         IF should_monitor(t)
         THEN FirstDentry(t, IF cur[t].kind = "mkdir" /\ cur[t].nest = 0 THEN cur[t].file ELSE Lower)
         ELSE mkdir_dentry
    /\ UNCHANGED <<comm, at, pending, calls, args_map, fputVars, hashMaps, attrMaps, mkdir_map,
                   execve_map, buffer, runVars>>

\* ok: the dentry has an inode now.
handle_vfs_mkdir_ret(t, ok) ==
    /\ at[t] = "kernel" /\ cur[t].nest > 0
    /\ LET outermost == cur[t].kind = "mkdir" /\ cur[t].nest = 1 IN
       /\ cur' = [cur EXCEPT ![t].nest = @ - 1, ![t].ok = outermost /\ ok]
       /\ at' = [at EXCEPT ![t] = IF outermost THEN "returned" ELSE @]
    /\ IF should_monitor(t) /\ t \in DOMAIN mkdir_dentry
       THEN IF mkdir_dentry[t].depth > 0
            THEN /\ mkdir_dentry' = [mkdir_dentry EXCEPT ![t].depth = @ - 1]
                 /\ UNCHANGED mkdir_map
            ELSE /\ mkdir_dentry' = Del(mkdir_dentry, t)
                 /\ mkdir_map' = IF ok THEN Put(mkdir_map, t, <<cur[t].call, mkdir_dentry[t].dentry>>)
                                 ELSE mkdir_map
       ELSE UNCHANGED mkdirMaps
    /\ UNCHANGED <<comm, pending, calls, args_map, fputVars, hashMaps, attrMaps, execve_map,
                   buffer, runVars>>

\* The thread has its new name when the handler runs.
trace_sched_process_exec(t, tst) ==
    /\ at[t] = "kernel" /\ cur[t].kind = "execve"
    /\ at' = [at EXCEPT ![t] = "returned"]
    /\ cur' = [cur EXCEPT ![t].ok = TRUE]
    /\ comm' = [comm EXCEPT ![t] = tst]
    /\ execve_map' = IF enabled /\ tst THEN Put(execve_map, t, cur[t].call) ELSE execve_map
    /\ UNCHANGED <<pending, calls, args_map, fputVars, hashMaps, attrMaps, mkdirMaps, buffer,
                   runVars>>

-----------------------------------------------------------------------------
(* Return of a system call.  Each handler adds one record.                 *)

\* read_syscall_args: the arguments, which the thread has not saved if it was
\* not monitored at the entry (the first execve).
CallRecord(t, ok) ==
    [Record(t, "syscall", ok) EXCEPT !.args = Get(args_map, t, Garbage)]

\* chdir, fchdir, umask, unlink, rmdir, getdents, link, symlink, getxattr and
\* setxattr add what they read through the arguments.
trace_exit_other(t, ok) ==
    /\ cur[t].kind = "other"
    /\ Submit(CallRecord(t, ok))
    /\ UNCHANGED <<fput_data_map, evm_data_map, mode_map, mkdir_map, execve_map>>

\* open, openat and creat read the inode through the new descriptor.
trace_exit_open(t, ok) ==
    /\ cur[t].kind = "open"
    /\ Submit([CallRecord(t, ok) EXCEPT !.data = IF ok THEN <<cur[t].call, cur[t].file>> ELSE None])
    /\ UNCHANGED <<fput_data_map, evm_data_map, mode_map, mkdir_map, execve_map>>

trace_exit_mkdir(t, ok) ==
    /\ cur[t].kind = "mkdir"
    /\ Submit([CallRecord(t, ok) EXCEPT !.data = IF ok THEN Get(mkdir_map, t, Garbage) ELSE None])
    /\ mkdir_map' = IF ok THEN Del(mkdir_map, t) ELSE mkdir_map
    /\ UNCHANGED <<fput_data_map, evm_data_map, mode_map, execve_map>>

\* chmod, fchmod, chown, fchown; evm_hash is not written when there is none.
trace_exit_attr(t, ok) ==
    /\ cur[t].kind \in ATTR_KINDS
    /\ \E hash \in IF t \in DOMAIN evm_data_map THEN {evm_data_map[t]} ELSE Unwritten :
         Submit(IF ok THEN [CallRecord(t, ok) EXCEPT
                              !.evm_hash = hash, !.data = Get(mode_map, <<cur[t].kind, t>>, Garbage)]
                ELSE CallRecord(t, ok))
    /\ evm_data_map' = IF ok THEN Del(evm_data_map, t) ELSE evm_data_map
    /\ mode_map' = IF ok THEN Del(mode_map, <<cur[t].kind, t>>) ELSE mode_map
    /\ UNCHANGED <<fput_data_map, mkdir_map, execve_map>>

trace_exit_close(t, ok) ==
    /\ cur[t].kind = "close"
    /\ \E ino \in IF t \in DOMAIN fput_data_map THEN {fput_data_map[t]} ELSE Unwritten :
         Submit([CallRecord(t, ok) EXCEPT !.data = ino])
    /\ fput_data_map' = Del(fput_data_map, t)
    /\ UNCHANGED <<evm_data_map, mode_map, mkdir_map, execve_map>>

trace_exit_execve(t, ok) ==
    /\ cur[t].kind = "execve"
    /\ Submit([CallRecord(t, ok) EXCEPT !.data = IF ok THEN Get(execve_map, t, Garbage) ELSE None])
    /\ execve_map' = IF ok THEN Del(execve_map, t) ELSE execve_map
    /\ UNCHANGED <<fput_data_map, evm_data_map, mode_map, mkdir_map>>

\* The files whose last reference the call may have dropped; of execve and
\* exit, which drop many, at most one is followed.
DroppedByExec == {{}} \cup {{f} : f \in FILES}
Released(t, ok) ==
    CASE cur[t].kind = "close" /\ ok       -> {{}, {cur[t].file}}
      [] cur[t].kind \in {"open", "execve"} /\ ~ok -> {{}, {cur[t].file}}
      [] cur[t].kind = "execve" /\ ok      -> DroppedByExec
      [] OTHER                             -> {{}}

sys_exit(t, ok) ==
    /\ at[t] \in {"kernel", "returned"} /\ cur[t].nest = 0
    /\ IF cur[t].kind \in {"open", "close", "other"} THEN cur[t].file = None => ~ok ELSE ok = cur[t].ok
    /\ at' = [at EXCEPT ![t] = "returning"]
    /\ cur' = [cur EXCEPT ![t] = NoCall]
    /\ pending' \in {[pending EXCEPT ![t] = P] : P \in Released(t, ok)}
    /\ IF should_monitor(t) /\ cur[t].kind \in TRACED_KINDS
       THEN /\ args_map' = Del(args_map, t)
            /\ IF HasRoom
               THEN \/ trace_exit_other(t, ok) \/ trace_exit_open(t, ok)
                    \/ trace_exit_mkdir(t, ok) \/ trace_exit_attr(t, ok)
                    \/ trace_exit_close(t, ok) \/ trace_exit_execve(t, ok)
               ELSE /\ Overflow
                    /\ UNCHANGED <<fput_data_map, evm_data_map, mode_map, mkdir_map, execve_map>>
       ELSE UNCHANGED <<maps, buffer>>
    /\ UNCHANGED <<comm, calls, dropped, ima_data_map, path_map, mkdir_dentry, runVars>>

\* exit and exit_group do not return.  The field type is not written.
trace_enter_exit(t) ==
    /\ at[t] = "user"
    /\ at' = [at EXCEPT ![t] = "returning"]
    /\ cur' = [cur EXCEPT ![t] = [NoCall EXCEPT !.kind = "exit"]]
    /\ pending' \in {[pending EXCEPT ![t] = P] : P \in DroppedByExec}
    /\ IF should_monitor(t)
       THEN IF HasRoom
            THEN \E type \in {IF u = Garbage THEN "fput" ELSE "syscall" : u \in Unwritten} :
                   Submit([Record(t, type, TRUE) EXCEPT !.kind = "exit", !.origin = None, !.call = 0])
            ELSE Overflow
       ELSE UNCHANGED buffer
    /\ UNCHANGED <<comm, calls, maps, runVars>>

-----------------------------------------------------------------------------
(* Return to user mode: the files without references are released.         *)

handle___fput(t, file) ==
    /\ at[t] = "returning" /\ file \in pending[t]
    /\ at' = [at EXCEPT ![t] = "put"]
    /\ cur' = [cur EXCEPT ![t].file = file]
    /\ IF should_monitor(t) THEN PutFputData(t, file) ELSE UNCHANGED fputVars
    /\ UNCHANGED <<comm, pending, calls, args_map, hashMaps, attrMaps, mkdirMaps, execve_map, buffer,
                   runVars>>

\* Seeded slip: the hash of the content is not deleted.
TakeHashes_KeepsIma(t) ==
    /\ evm_data_map' = Del(evm_data_map, t)
    /\ UNCHANGED ima_data_map

\* The hashes that went into a record leave the maps.
TakeHashes(t) ==
    /\ ima_data_map' = Del(ima_data_map, t)
    /\ evm_data_map' = Del(evm_data_map, t)

handle___fput_ret(t) ==
    /\ at[t] = "put"
    /\ at' = [at EXCEPT ![t] = "returning"]
    /\ pending' = [pending EXCEPT ![t] = @ \ {cur[t].file}]
    /\ IF t \in DOMAIN fput_data_map /\ should_monitor(t)
       THEN IF HasRoom
            THEN /\ Submit([Record(t, "fput", TRUE) EXCEPT
                              !.kind = "fput", !.data = fput_data_map[t],
                              !.ima_hash = Get(ima_data_map, t, None),
                              !.evm_hash = Get(evm_data_map, t, None)])
                 /\ fput_data_map' = Del(fput_data_map, t)
                 /\ TakeHashes(t)
            ELSE Overflow /\ UNCHANGED <<fput_data_map, hashMaps>>
       ELSE UNCHANGED <<fput_data_map, hashMaps, buffer>>
    /\ UNCHANGED <<comm, cur, calls, args_map, dropped, attrMaps, mkdirMaps, execve_map, runVars>>

to_user(t) ==
    /\ at[t] = "returning" /\ pending[t] = {}
    /\ at' = [at EXCEPT ![t] = IF cur[t].kind = "exit" THEN "dead" ELSE "user"]
    /\ cur' = [cur EXCEPT ![t] = NoCall]
    /\ UNCHANGED <<comm, pending, calls, maps, buffer, runVars>>

-----------------------------------------------------------------------------
(* monitor run.                                                            *)

\* The child is started under the name of the monitor.
run ==
    /\ reader = "off" /\ calls < MAX_CALLS
    /\ enabled' = TRUE
    /\ reader' = "poll"
    /\ at' = [t \in THREADS |-> "user"]
    /\ comm' = [t \in THREADS |-> FALSE]
    /\ UNCHANGED <<cur, pending, calls, maps, buffer>>

\* The child is waited for when ring_buffer__poll has found no record.
handle_event ==
    /\ reader = "poll" /\ ring # <<>>
    /\ ring' = Tail(ring)
    /\ UNCHANGED <<kernelVars, maps, reserved, lost, runVars>>

poll_timeout ==
    /\ reader = "poll" /\ ring = <<>>
    /\ reader' = "wait"
    /\ UNCHANGED <<kernelVars, maps, buffer, enabled>>

waitpid ==
    /\ reader = "wait"
    /\ IF \A t \in THREADS : at[t] = "dead"
       THEN reader' = "off" /\ enabled' = FALSE
       ELSE reader' = "poll" /\ UNCHANGED enabled
    /\ UNCHANGED <<kernelVars, maps, buffer>>

Reader == run \/ handle_event \/ poll_timeout \/ waitpid

Thread(t) ==
    \/ \E kind \in CALLS, file \in FILES \cup {None} : sys_enter(t, kind, file)
    \/ handle_evm_calc_hmac_or_hash(t)
    \/ handle_ima_update_xattr(t)
    \/ handle_common(t)
    \/ \E ok \in BOOLEAN : handle_common_ret(t, ok)
    \/ handle_vfs_mkdir(t)
    \/ \E ok \in BOOLEAN : handle_vfs_mkdir_ret(t, ok)
    \/ \E tst \in BOOLEAN : trace_sched_process_exec(t, tst)
    \/ \E ok \in BOOLEAN : sys_exit(t, ok)
    \/ trace_enter_exit(t)
    \/ \E file \in FILES : handle___fput(t, file)
    \/ handle___fput_ret(t)
    \/ to_user(t)

Next ==
    \/ Reader
    \/ \E t \in THREADS : Thread(t)
    \/ \E o \in OTHERS : other_close(o)

Spec == Init /\ [][Next]_vars

-----------------------------------------------------------------------------
(* Properties.                                                             *)

Records == {ring[i] : i \in DOMAIN ring}
KEYS == THREADS \cup OTHERS

\* Entries of the maps belong to threads of the machine, the depth of
\* mkdir_dentry counts the running vfs_mkdir, and the buffer is not exceeded.
MonitorTypeOK ==
    /\ {enabled, lost, dropped} \subseteq BOOLEAN
    /\ reader \in {"off", "poll", "wait"} /\ enabled = (reader # "off")
    /\ comm \in [THREADS -> BOOLEAN]
    /\ at \in [THREADS -> {"dead", "user", "kernel", "common", "returned", "returning", "put"}]
    /\ pending \in [THREADS -> SUBSET FILES]
    /\ DOMAIN args_map \subseteq THREADS
    /\ DOMAIN fput_data_map \subseteq KEYS /\ Cardinality(DOMAIN fput_data_map) <= FPUT_MAX
    /\ DOMAIN ima_data_map \subseteq THREADS /\ DOMAIN evm_data_map \subseteq THREADS
    /\ DOMAIN path_map \subseteq ATTR_KINDS \X THREADS /\ DOMAIN mode_map \subseteq ATTR_KINDS \X THREADS
    /\ \A t \in DOMAIN mkdir_dentry : mkdir_dentry[t].depth + 1 = cur[t].nest
    /\ Len(ring) <= RING_SIZE

\* A record of a call that succeeded carries the data of that call: the mode
\* chmod_common or chown_common left, the outermost directory of mkdir, the
\* program of execve; and its arguments, but for execve, which may have been
\* entered unmonitored.  Failed and untraced calls and lost records leave
\* entries in the maps (trace_exit_* delete them), which must be overwritten.
OwnData ==
    \A e \in Records : e.type = "syscall" /\ e.kind \in KINDS =>
        /\ e.kind # "execve" => e.args = e.call
        /\ e.ok /\ e.kind \in ATTR_KINDS \cup {"mkdir", "open"} => e.data = <<e.call, e.origin>>
        /\ e.ok /\ e.kind = "execve" => e.data = e.call

\* The records of close and __fput name the inode that was closed, although
\* both take it from one entry of fput_data_map, which unmonitored closes and
\* lost records leave behind.  Once the map was too full for a thread of the
\* test, a record of close may lack the inode (trace_exit_close), but neither
\* ever names another one.
InodeOwn ==
    \A e \in Records : e.kind \in {"close", "fput"} =>
        \/ e.data = e.origin
        \/ dropped /\ e.kind = "close" /\ e.data \in {None, Garbage}

\* The content hash in the record of __fput is that of the file released
\* (handle___fput_ret deletes it from ima_data_map), until a record is lost
\* or fput_data_map was too full for one: both leave the hash behind.
ContentOwn == ~lost /\ ~dropped => \A e \in Records : e.ima_hash \in {None, e.origin}

\* A thread in user mode has no context of chmod_common, chown_common or
\* vfs_mkdir: a failed call must not leave one for the next call to find.
NoLeftover ==
    \A t \in THREADS : at[t] \in {"user", "dead"} =>
        /\ t \notin DOMAIN mkdir_dentry
        /\ \A kind \in ATTR_KINDS : <<kind, t>> \notin DOMAIN path_map

\* As documented, __fput and chmod collect the hash of the metadata of their
\* own file.  Violated: evm_data_map keeps what a verification at open, a
\* failed chmod or an untraced fchmodat left, until the next record takes it.
MetaOwn == \A e \in Records : e.evm_hash \in {None, Garbage, e.origin}
=============================================================================
