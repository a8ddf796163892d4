# TLA+ models of ima_evm_verification

The repository checks that a Linux kernel implements discretionary access control (DAC) and the
integrity subsystems IMA and EVM as a formal model says. A test runs a small C program in a
container; a monitor records its system calls; the record is replayed against an Event-B model,
which must accept exactly the calls the kernel accepted. This directory holds TLA+ models of the
parts of that chain, their TLC configurations, and machine-checked proofs.

Source paths below are relative to the repository root (so `src/DAC.bm` is the file `DAC.bm` in the
repository's directory `src`).

## 1. The system

| Component | State it keeps | Operations | Correct when |
|---|---|---|---|
| **DAC machine** `src/DAC.bm`, contexts `DAC_CTX.bc`, `open.bc`, `xattrs.bc` | files, folders, names (`FileParents`), `PathToRoot`, owners, modes, ACLs, extended attributes, users, groups, processes, descriptor tables | one event per system call, `create_user`, `login`, `set_acl`, `any_transition`, ... | the tree and its ancestor index agree; nothing of a removed file survives; descriptors keep denoting the same file; the access guard decides as the kernel does |
| **IMA machine** `src/IMA.bm`, `IMA_CTX.bc` | content and metadata hash of each file, stored hashes (`security.ima`, `security.evm`), modes, immutable flags | DAC's events extended by hashes; `switch_ima_mode`, `mark_immutable`, ... | it refines DAC; in ENFORCE a measured file cannot be opened for writing; an immutable file stays |
| **Machine extensions** `src/DAC_EXT.bm`, `IMA_EXT.bm`, `ProtectedHardlinks.bm`, `RV.bc` | - | stronger guards for the machine that is run | its verdict on a call is the kernel's |
| **Mediator** `mediator/state.py`, `translator.py` | working directory, path -> inode, descriptor -> inode, stat and hashes of each inode, modes | one handler per record of the monitor | its copy of the file system is the kernel's, so that events name the inodes the kernel acted on |
| **Events builder** `mediator/builder.py`, `enums.py` | the event trace, tables of translated users, files, descriptors | one method per event, translation of flags, modes and ACLs | the event has the arguments of the call |
| **Replay** `testing/spec_impl.py` | record queue, phase of the test | set-up, replay of the trace, comparison with the model | each record is replayed once, in order, with the hashes of its `__fput` |
| **Snapshot builder** `testing/initialiser.py` | - | parses the file list of the container | folders come before what is in them |
| **Monitor** `monitoring/*.bpf.c`, `monitor.c` | per-thread maps between entry and return probes, a ring buffer | probes of calls and kernel functions; `monitor run` reads and prints | each record carries the data of its own call |
| **Loader and fixtures** `conftest.py`, `load`, `unload` of `monitor.c` | two pipes, the loader process, the pinned programs | load, wait, unload | tests run only with the monitor loaded, and it goes when they are over |
| **Open flags generator** `testgen/open_flags.py` | - | MC/DC cases over the guards of open, solved by an SMT solver | each case reaches the machine as it was meant |
| **Program maker, dumps, tests** | - | text generation, inputs | - |
| **Model interpreter** (external library) | the Event-B state | checks guards, applies events | - |

**Interaction.** The test's program runs in the kernel under the monitor. `_replay_setup` first sends
the snapshot (users, folders, files, links, ACLs), the integrity modes and the immutable files, then
the login, through the translator. `_replay_trace` then takes one record after the other: the
translator handler looks up inodes in the mediator's state, asks the builder to add one event, and
updates the state if the call succeeded. The interpreter runs the events: guards must hold exactly
when the call returned success. A close needs the hashes of a `__fput` that comes later in the trace, so the
replay reads ahead and keeps a queue. Around all this, a session fixture forks a loader process; each of the two
waits for the end of file of a pipe the other holds.

**What is hard.** The machine keeps redundant state (`PathToRoot`, the ACL maps, the limits) up to date
incrementally over unbounded sequences of calls, with inode reuse and with descriptors shared after
fork. The mediator shadows the kernel from paths alone, through relative paths, removed directories,
hard links, files removed while open and close-on-exec. The monitor and the replay correlate records by thread
and inode, and records get lost. The loader and the session must not wait for each other for ever, whoever
fails or is killed. `PROJECT.json` lists each such place under "hazards".

## 2. Modules

```
DAC  <---- MC_DAC                Kernel (external)         ReplaySpec
 ^ ^ \                              ^                          ^  (INSTANCE)
 | |  DAC_proofs <---.              |                        Replay <-- MC_Replay
 | IMA <-- IMA_proofs -'         Mediator <-- MC_Mediator
 |  ^
 | MC_IMA                        Monitor <-- MC_Monitor    Session <-- MC_Session
 |
DAC_EXT <-- Setup --> OpenFlags
             ^
          MC_Setup
```

An arrow points to the module that is extended. `Mediator`, `Monitor`, `Replay`, `Session` and `Setup` each have a
module of proofs too, which extends them: `Mediator_proofs` and so on.

### `DAC.tla`: the DAC machine
One action per event, named as the event; the parameters of the event are the parameters of the
action, guards are conjuncts. Total functions are functions, partial ones functions with a smaller
domain, relations sets of tuples. A permission is a pair <<class, access>>, so that the six
alternatives of the access guard (`Grants`), which the source repeats in each event and for each
class, are written once. The guards of the events that `Setup` replays are operators of their own, `grd_` and the name of
the event: the interpreter's verdict on a call is whether they hold. The invariants the source states are `MachineInv`; `any_transition`
replaces the whole state by any state that satisfies them (`ForcedSpec`), all other events are in
`Next`. `ProcArgv` and `ProcEnvp` (written, never read) and open flags no guard mentions are left out.

Peculiarities of the source kept in the model:
- `execve` removes close-on-exec descriptors from the tables of *all* processes;
- `close` of a descriptor that is shared after fork leaves it in the caller's table;
- `exit` removes the descriptors given as a parameter, so it may leave some that no process has;
- `mkdir` asks that the new inode is not open or executed, but not that it is no process's working
  directory; other creating events do ask. (`CwdIsFolder`, part of `MachineInv`, shows that this is harmless.)
- the comment over the access guard sends everybody but the owner and named users to the permissions of others when the mask is
  empty; the guard does so only outside the file's group, and is right (`AccessIsFirstMatch`);
- the invariants the machine states do not exclude a cycle of directories detached from the root.
  `any_transition` therefore preserves `MachineInv` but not `TreeRooted`, which is stated for `Spec`.

### `IMA.tla`: the IMA machine
`EXTENDS DAC`; each extended event is DAC's action conjoined with what IMA adds (prefix `ima_`).
`force_set_ima_evm_hash` is the event the builder makes of `any_transition` to set stored hashes.
Kept from the source: `link` adds names in immutable directories; `fchmod` and `fchown` have no guard
about immutable files; `exit` and `execve` drop writable descriptors without the update of the hashes
that `close` makes; `chmod` in FIX mode does not update `EVMHash`; `chown` to the same owner clears
set-user-ID and yet demands an unchanged hash.

### `DAC_EXT.tla`: the machines that are run
The guards `DAC_EXT.bm` adds to `open_create`, `open_exists`, their `openat` forms and `creat`, and the guard
`ProtectedHardlinks.bm` adds to `link`; every other event is extended without change. `IMA_EXT.bm` adds only
the guard of `creat`: it lacks the guards on the flags that `DAC_EXT.bm` has.

### `Kernel.tla`: the traced process's kernel (external)
What the mediator shadows: directory entries (`names`, from paths to inodes), the descriptor table,
the working directory and inode attributes. Inodes are reused as soon as nothing refers to them.

### `Mediator.tla`: mediator state and translator handlers
Each action is a call of the traced process together with the record of it and the handler that
consumes the record. `ok` is `retval >= 0`. A pathname is a base (root or working directory) and the
names below it. An event is represented by the inodes and descriptors it names (`sent`), next to what
the kernel did (`actual`). A call that failed may name anything, also a descriptor that is not open or
that the mediator still has although the kernel has dropped it. An exception
of a handler sets `raised` and ends the replay; where several checks may raise, an operator says which does (`LinkError`). Pseudo-hashes (`calc_fake_meta_hash`) are injective
functions of owner and mode; the owner -1 of a `chown` is kept (`KEEP`) as the code keeps it. Phases: set-up (folders, files, links, login), trace, exit.

Not represented: symbolic links on the way of a path (the mediator records no link, and would record
a file opened through one as a second name); files outside the snapshot; sticky directories; several
traced processes (the working directory and the descriptors are kept per process, and there is no handler
for fork); groups, which go the same way as owners.

### `Monitor.tla`: the eBPF handlers and the reader of the ring buffer
Each action is a step of a thread in the kernel with the handler it triggers: entry and return of a
call (`sys_enter`, `sys_exit` with one `trace_exit_*` per group of calls), the functions in between
(`chmod_common`, `chown_common`, `vfs_mkdir`, `evm_calc_hmac_or_hash`, `ima_update_xattr`), and `__fput`,
which Linux 6.1 runs on the return to user mode, after the handler of the return. The maps are
partial functions from threads. Data is abstracted to its origin: a mode or a directory is the number of the
call and the inode it is about, a hash is the inode it was computed for; a record also has the call and the
inode it *ought* to be about, which the properties compare. A field that a handler does not write holds
zero or, once the buffer has been filled, anything (`Unwritten`). `chmod`/`fchmod` and `chown`/`fchown` differ
only in the map they use; `fchmodat` stands for the untraced calls that reach the same functions; `other` for
the calls whose handlers only read arguments. The reader (`run`, `handle_event`, `poll_timeout`,
`waitpid`) is the loop of `monitor run`; a later run meets the pinned maps and buffer as the earlier left them,
and a thread number may be reused. `fput_data_map` may be full, with the entries of threads outside the test among others: an
insertion then fails without notice (`Fits`), and `dropped` remembers that this has happened to a thread of the test.

Not represented: the end of a run by `SIGINT` or by a failing `ring_buffer__poll`,
missed return probes, files of other threads of the same process, the text of the records.

### `ReplaySpec.tla`, `Replay.tla`: from the trace to the handlers
`ReplaySpec` is what the replay promises: after the login every record of a call goes to its handler once and
in order; a close comes with the hashes of its own release, or, if that record was lost, with those of a later
release of the same file; the replay ends early only with an exception, or at a call relative to a directory
descriptor, whose lookup may raise the `StopIteration` the loop takes for the end. `Replay` is the code:
`_replay_login`, the queue before the iterator (`Fetch`), the search of the queue and then of the trace
(`SearchQueue`, `ReadAhead`), the handler with its exceptions. The traced program makes any calls; each record,
also one of `__fput`, may be lost. `KeepsPromise` says that `Replay` implements the steps of `ReplaySpec`,
with `result` mapped from `pc`; `trace` and `handled` are the same in both. That a replay comes to its end is the other half of
the promise, `Ends`, checked as `ReplayEnds`.

### `Session.tla`: the fixture, the loader and the pinned monitor
Both processes as state machines over the statements of `conftest.py`; the holders of the write end of each
pipe; `load` in the steps that matter to others (open, create `PIN_PATH`, pin, clean up after an error), `unload`,
and the opening of the maps by `monitor run`. pytest may be killed at any point and interrupted while it waits;
the waiting loader may be killed. The `rm -rf` of `load` and of `unload` may fail and leave all or a part of `PIN_PATH`
(`stranded` has the sessions whose loader left it so). An exit closes the pipes before the exit code can be read. Sessions follow one another, as the docstring of the fixture asks,
with whatever the last one left in `PIN_PATH`.

### `OpenFlags.tla`, `Setup.tla`: from the snapshot to the machine's verdict
`OpenFlags` has the table of flags as sets of bits, `translate_file_flags`, and the generator: the guards, the
MC/DC cases and all solutions of each. `Setup` composes `DAC_EXT` with the translator's set-up and a kernel
(external). `pc` is the loop of `_replay_setup` that is running, `item` the element it is at, and `ops` the events of that
element that are still to be sent, with the arguments the builder makes up. An event whose guards do not hold (`Accepts`)
ends the set-up as `refused`, and so does a login whose guards do not hold. The guards include the group and the mode that the
builder reports for what it creates, and the mode it reports after a change of owner. After the login come `chmod`, generated `open` calls and `link`, and the machine's verdict,
whether its guards hold (`grd_open_exists_EXT` and so on), is put next to the kernel's (`Send`); `verdict.lacks` says that the
kernel has refused the call by a rule the machine does not have, and by nothing else. Groups, modes and ACL
entries are records of accesses, translated as the builder does (`translate_mode`, `AclEvent`).

What a snapshot may be is part of `SetupAssumption`: accounts are listed once (`AccountsFit`, as `getent` and `id` do);
directories are sorted, so that parents come first, and paths are the keys of a dictionary, so that no two entries share one
(`TreeFits`); `stat` and `getfacl` know every inode, and an ACL without a mask is the mode (`InodesFit`). The root directory
belongs to root and everybody may read, search and write it: the first set-up command of every test is `chmod a+w /`
(`testing/spec_impl.py:55`).

The kernel here is Linux 6.4 or later as to the flags of `open`, with `fs.protected_hardlinks` set, in both its parts (reading and
writing the source in `MayLink`, the ban on others' set-ID programs in `UnsafeSource`), and with any setting of
`fs.protected_regular` (`PROTECTED_REGULAR`). root executes a file only if somebody may. Left out: the success of `O_TMPFILE` on a
directory, FIFOs (`fs.protected_fifos`), mounts and capabilities.

## 3. Runs

| Run | Question | Instance |
|---|---|---|
| `dac_tree` | do tree, `PathToRoot`, names and references into the tree stay consistent through creation, links, removal, inode reuse; do the limits hold, also at `fork`; is a number ever used twice by processes that share descriptors, and does a descriptor ever denote another file, or a folder for writing? | 4 inodes, 2 names, 2 processes, 3 descriptors with limits of 2, one capability, within `Explored` |
| `dac_access` | does the access guard decide as the kernel's first-match rule; do ACLs and attributes die with the file; can an ordinary user make another's set-user-ID file? | 2 users, 2 groups, 2 processes, 12 ACLs, sticky and set-ID modes |
| `ima` | does ENFORCE freeze measured files, whatever was opened before the switch; does the immutable flag protect; does the metadata hash follow `chown`; do hashes and flags die with the file? | 3 inodes, 2 names, 2 groups, 2 hashes, one descriptor, all integrity modes, within `Small` |
| `med_paths` | do the mediator's paths and working directory stay the kernel's; does each event name the right directory and inode, and tell creation from opening? | 2 names, depth 2, 3 inodes, 2 descriptors, within `FewPaths` |
| `med_links` | with hard links, files removed while open, close-on-exec and reused inodes, do descriptors, stats, link counts, stored hashes and pseudo-hashes stay those of the right file? | 2 names in the root, one inode besides it, 2 descriptors, 2 modes, 2 owners and -1, with and without reported hashes, within `FewLinks` |
| `med_hashes` | *violated*: "should always be" | two hard links |
| `med_fake` | *violated*: a pseudo-hash is that of the actual metadata | as `med_links`, without a constraint |
| `mon_data` | does every record carry the data, the inode and the content hash of its own call, although failed, untraced and unmonitored calls, lost records and earlier runs leave entries in the maps? | one thread of the test and one other, an `execve` and two more calls, 2 files, 2 records, a `fput_data_map` of one entry |
| `mon_meta` | *violated*: a record has the metadata hash of its own file | as `mon_data` |
| `replay` | does the replay with its queue implement `ReplaySpec`; is the queue always a gapless piece of the trace; does every replay end? | 2 files, a program of up to 4 calls, any records lost |
| `session` | does a test ever lose its monitor while it runs, do tests begin without one, does every session end and leave no monitor behind? | 3 sessions in a row of up to 2 tests, failing loads, kills, interruptions |
| `setup` | does the machine accept the set-up; does it then grant what the kernel grants, also after `chmod`; is its verdict on each generated `open` and on `link` the kernel's, but for the two rules it lacks; does each case reach it as generated? | 608 snapshots: a directory, closed, set-group-ID or sticky, a file with or without ACL, set-ID bits and second name, a program; two users, two groups; `fs.protected_regular` = 1 |

**Bounds.** Every set is named by a constant. The tree needs two inodes beyond the initial ones so
that one directory is created in another, removed, and its inode reused. Two processes that share two descriptors suffice
for sharing and reuse of a number; limits of 2 with a third descriptor at hand for both limits, which `fork` then
meets exactly. All of this in one instance is out of reach: the constraint `Explored` of `MC_DAC` follows trees of
four files under one process with one descriptor, and two processes with two descriptors of at most three files; a step that
leaves this space is checked, and followed no further. For the access guard, one file
with and without mask, named user, named group and owning group entries covers the alternatives; the
theorem `AccessSound` covers the rest. In the IMA run two hashes suffice because hashes are only
compared; the constraint `Small` of `MC_IMA` follows one file or one directory besides the root at a time, and checks the
step to a symbolic link, which is hashed as a new file is, or to another working directory, but follows it no further; two names because an extended attribute has the name that stands for `security.ima` or another. `med_paths` needs depth 2 for a working directory below a removed directory, two names for a
link next to it, and two descriptors for an `openat` relative to one that is open; both runs follow only states in which the mediator has at most
one descriptor (`OneFd`), and check the steps to a second: `FewPaths` of up to four entries, or three and a descriptor, with integrity off, `FewLinks` with integrity on. The view of `MC_Mediator` leaves out the last event, which no
step reads and which is checked in the step that sends it. `MAX_LINKS` bounds the link count, which the mediator never decrements: 2 in `med_links` reaches
a count that is too large, 3 in `med_paths` one too large by more than one. In `mon_data` the first call must be the `execve` that gives the thread its
monitored name; of the two after it one leaves something in a map and one finds it. A buffer of two records is
empty, in use, full and reused within these calls; `FPUT_MAX` = 1 lets the thread outside the test fill `fput_data_map`
and the thread of the test find it full or not. In `replay`, `MAX_CALLS` = 4 is the `execve`, a close whose release is lost, a close of the same file
whose release is found instead, and one call between or after. In `session`, `MAX_SESSIONS` = 3 lets one session leave a monitor, the next
one's load fail on it and remove it, and a third begin clean; a second test (`MAX_TESTS`) starts after another has run. In
`setup`, `MAX_CHMODS` = 1 widens or empties the mask once. The snapshots have masks that are empty, narrow and
wide, entries for the user, for a group of his, for both and for none, owners both, set-ID files, and directories that are
set-group-ID, or sticky and writable for the group or for everybody. In these, and in the root directory, the ordinary user adds entries, so that
the rules for links and for `O_CREAT` decide. Symmetry is used for files, descriptors (also the descriptor numbers of the mediator, which it
only compares) and processes no
constant names; it is not used in runs with liveness or whose constants name each element.

**Deadlock** is checked in the DAC, IMA, replay and session runs. The replay of the mediator ends, with `exit` or
with an exception, the monitor with its last run, and the program of `setup` with its last call, so their runs do not check it.

**Fairness.** `Replay` assumes weak fairness of the replay as a whole: it is one loop of one thread over a finite
text, and nothing in it waits. Nothing is assumed of the traced program, so `ReplayEnds` speaks of a trace that is
complete. `Session` assumes weak fairness of pytest, of the loader and of `monitor run`, each as a whole: the
system schedules all three, `sudo make` returns, and the test program has no loops. Waiting is a guard, so fairness does
not end it; that it ends is `SessionEnds`. Starting a session, interrupting and killing are not fair. The machines
promise nothing about progress, and the handlers of the monitor never wait.

## 4. What the violated runs show

- `med_hashes`: `do_remove` deletes the hashes of the inode with its first name, so removing the second hard
  link raises `KeyError` in a legal trace.
- `med_fake`: `do_chown` stores its arguments in the stat of the file, -1 (keep the owner) included, and the next `chmod` without
  a reported hash computes the pseudo-hash of the owner -1; `docs/mediator.md:48` speaks of the actual metadata. What does hold,
  `FakeHashFollows`, is that a pseudo-hash is never of an older mode or of another owner than the actual one or this -1.
- `mon_meta`: every `evm_calc_hmac_or_hash` writes `evm_data_map`, also one that only verifies a file; the
  entry is taken by the next `__fput`, `chmod` or `chown` of the thread, whatever its file. In the
  counterexample `execve` verifies one file and drops the last descriptor of another, whose
  record then has the first one's hash.

Other places where the code differs from what one would expect, kept in the models and stated as exceptions
in the properties:

- `creat` of an existing file sends a creating event (`EventsActual`); the model has no other, as
  `tests/methodic/test_open_prevents_ocreat.py:64` says, where such a test is left out;
- `translate_fd` knows `AT_FDCWD` only as `(0, 0)`: the number -100 becomes a descriptor of its own;
- below a set-group-ID directory the set-up is refused: the builder says gid 0 and the machine
  computes the group of the directory (`SetupAccepted`);
- the machine accepts calls that the kernel refuses by `fs.protected_regular` or because the source of a link is the set-ID program of
  somebody else (`VerdictsAgree`). `tests/methodic/test_open_prevents_ocreat.py` begins: "open(file) with O_CREAT must not be allowed if all
  the following met"; the machine allows it, so its parameters `othprotect` and `grpprotect` cannot pass. The second rule is the part of
  `fs.protected_hardlinks`, named in the comment at `src/ProtectedHardlinks.bm:96`, that the guard there does not have;
- once `fput_data_map` is full, a record of `close` may lack its inode, one of `__fput` is not written, and its content hash stays for a later one
  (`InodeOwn`, `ContentOwn`);
- tests begin without a monitor when the loader's exit closes the pipe before its exit code is there, or after
  an interruption during loading (`TestsMonitored`);
- a release that was lost is replaced by a later one of the same file without notice, and a lookup that raises `StopIteration` ends a
  replay as if the trace were over (`ReplaySpec`).
- the generated cases of `open` without an access mode reach the machine with `O_RDONLY`, which is zero (`CasesKept`).

## 5. Proofs

The theorems hold for all values of the constants that satisfy the named assumptions. Those of DAC and IMA
(`ContextAssumption`, `LimitsAssumption`, `InputsAssumption`, `IntegrityContext`) are the axioms of the Event-B
contexts; the others (`KernelAssumption`, `MediatorAssumption`, `MonitorAssumption`, `CallsAssumption`, `ReplayAssumption`,
`SessionAssumption`) say that bounds are numbers and that values standing for "none" are none of the others.
`SetupAssumption` also says what a snapshot is (section 2) and that the machine has room for one more file and a descriptor.
TLC evaluates each of them on the instances. Every inductive invariant was model-checked before it was proved.

**`DAC_proofs.tla`**

- `TypeCorrect`: `TypeOK` is inductive by itself; one lemma per event, built from lemmas about updates
  of functions with a changing domain (`With`, `Without`).
- `TreeConsistent`: the index `PathToRoot` is the set of ancestors, every name has a folder as parent and no two
  entries of a folder share a name. The invariant is `TypeOK` with `HierarchySound` and
  `PathToRootSound`: without the hierarchy, `mkdir` could extend the index of something that is no folder, and
  without the index `rmdir` could not know that nothing has the removed folder as an ancestor.
  `TreeRooted` and `NamesUnique` follow step by step from these.
- `MachineSound`: `MachineInv`, the conjunction the source states, holds through every event, including
  `any_transition`. `AclSound` is the difficult part: `chmod` writes mask, group entry and mode together.
- `AccessSound`: in every state with `MachineInv` the six alternatives are equivalent to the first-match
  decision, for every process, file and set of accesses.
- `DescriptorsSound`: limits and uniqueness of numbers; uses the cardinality of descriptor sets.
- `DescriptorsKeepInode`: no step changes the file of an open descriptor, or gives the inode of an open removed
  file to a new one.
- `HierarchyHolds`, `NamesHold`, `LimitsNotExceeded`, `AclsHold`: the invariants of the runs one by one, from the above.
- `InodesFresh`: a file in a freed inode has nothing of the one before. From the types: attributes, masks and entries exist only for
  files, so an inode that is not a file has none.
- `UsersConfined`: an ordinary user does not get a set-user-ID file of another owner. No invariant beyond the types is needed; the proof
  goes through all calls of a process and sorts them by what they write of owner and mode.

**`IMA_proofs.tla`**

- `ImplementsDAC`: each IMA step is a DAC step or leaves DAC's variables alone, so that DAC's theorems hold of IMA.
- `IMATypeCorrect`: every file has both hashes; stored hashes and flags belong to existing files.
- `EnforceHolds`: needs the invariant that a descriptor has one access mode. `open` in ENFORCE mode refuses flags that write, while `close`
  keeps the content of a descriptor with `O_RDONLY`: only with this invariant do the two mean the same descriptors.
- `ImmutableFilesKept`, `MetaHashSound`: action by action, over a classification of the steps (removed, created,
  opened, kept) which the three theorems share.

**`Mediator_proofs.tla`**: one invariant, `CopyInv`, relates the copy to the kernel. Its parts need each other. That `path2ino` is `names`
without symbolic links (`PathsInv`, `NamesFollow`) depends on the working directory's path (`CwdInv`, `CwdFollows`), since most paths are
relative; that path is right only because a folder has exactly one name (`FoldersInv`). `LastLinkSound` holds because
`nlink`, never decremented, is never below the number of names (`StatsInv`); from it follows that a stat is dropped only with the last name,
hence `StatsFollow`, and from that `FakeHashesFollow`, which also needs that the root has neither a stat nor a pseudo-hash.
`IntegrityStays` needs that the mode is never FIX in the trace (`PhaseInv`). `EventsFollow` is then a fact about the state before the call. The
proof has a lemma per shape of change (a name added or removed, a descriptor opened or closed, attributes changed), and one
per handler that finds its shape; a failed call leaves the copy alone whatever it raised.

**`Monitor_proofs.tla`**: the invariant says what each map holds for a thread at each point of its call (`ThreadInv`) and what each
record in the buffer holds (`RecordInv`). `NoLeftover` (`ContextsGone`) is part of the reason for `OwnData` (`DataOwn`): an entry may
survive its call, but the call that reads it has written it again before. `InodesOwn` and `ContentsOwn` hold for every capacity of
`fput_data_map`. The entry of a thread at `close` is that of this close or absent: an insertion can fail only where the thread has no entry,
so a full map never leaves an older one in its place. What a failed insertion does leave behind is the content hash, which is why
`ContentOwn` ends with the first one.

**`Replay_proofs.tla`**: `ReplayKeepsPromise` is a step refinement. The queue is a gapless window of the trace that ends
at the position of the iterator (`WindowInv`); all calls before the record in hand are handled (`ProgressInv`); what a search has
passed is no release of the file (`InHandInv`), so that the release found is the first; and the trace has its records in the order of
the calls (`TraceOrdered`), so that the first release after a close is its own unless that was lost. The numbers of calls and the length
of the trace are unbounded.

**`Session_proofs.tla`**: `MonitorKept` and `TestsBeginMonitored`, from who holds which pipe (`PipeInv`), from the
order of the sessions (`OrderInv`: while one is under way, no other has a loader), and from what is below
`PIN_PATH` (`PinsInv`). The proof found a misplaced conjunct in `AllOver`, the stuttering step after the last session, which was
a step of unfinished sessions too; it is corrected.

**`Setup_proofs.tla`**

- `CasesArrive`: the bits of the flags and back are the identity for exactly one access mode (`RoundTrip`), and each case of the
  generator but the ones `CasesKept` excepts has only solutions with exactly one.
- `SetupNeverRefused`, for snapshots of any size. While the loops run, the invariant (`SetupInv`) says how far they have come
  (`Progress`: the events still to be sent are the rest of those of the current item) and that the machine holds exactly what
  has been sent: accounts (`AccountsMade`), entries and ancestors (`TreeMade`), owners (`OwnersMade`). These parts need
  each other: the guard of `chown` asks for accounts that an earlier loop made, that of `link` for the entry of
  an earlier item, and a new entry must not be there yet, which holds because no two items share a path. That the machine
  computes the group and the mode the builder made up depends on the directory above having no set-group-ID bit, which is the exception
  of the property (`ModesMade`); that it computes the mode reported after a change of owner, on a new entry still having 0777 (`NewMade`); and `close` must give back the one descriptor that every file of the set-up uses (`ProcsMade`).
- `AccessAgrees`: the last event of the set-up gives the machine the translation of the kernel's inodes (`AclMade`). From the
  login on (`RunInv`), owner, group, type and the owner's accesses of each file are the kernel's (`FileTracked`), and a file whose owner is
  not the program's user is as in the snapshot (`AsInSnapshot`): only its owner and root may `chmod`. This is what makes the effective rights
  enough. A wider mask makes the named entries of the machine differ from the kernel's, but only of files whose access does not
  depend on them for this user. For root, that somebody may execute the file is a fact about the mode, which is the same on both sides (`ExecuteBits`). The rest is that the six alternatives of the guard over translated entries are the kernel's decision.
- `VerdictsSame`: from the same access to every directory above, and from the flags as `RoundTrip` leaves them, the guards of each event
  hold exactly when the kernel's conditions other than `ProtectedRegular` and `UnsafeSource` do; so the two rules are the whole difference, for every
setting and every snapshot. It is an invariant since `verdict` keeps the last comparison.
- `SetupInvariant` is the inductive invariant behind the three; one lemma per event says that it is accepted and what it keeps.

**Only model-checked.** `ReplayEnds`, `MonitorRemoved` and `SessionEnds`, which are liveness under fairness; and the three violated
runs, which no theorem can state. Every other property of a run is a theorem.

## 6. Not modelled

`PROJECT.json` gives the reason for each part. In short: text generation and parsing (program maker, dumps,
snapshot), container handling, and the interpreter library, which runs the machines. `translate_xattr_flags` and
the table of integrity modes are one to one. The mediator is not composed with the IMA machine: the product of
both states is out of TLC's reach at bounds where the hashes matter; that the machine refuses the event of `creat` of an existing file, and the
resending of an old EVM hash, hazards of that composition, have no property for this reason. The monitor's lookup and
deletion of a map element are one step, and the type of an exit record is a choice no property is about.

## 7. What could follow

1. The exceptions of the handlers: under which conditions on a trace none is raised, next to `HashesAlwaysThere`, which shows one
   that a legal trace meets.
2. The mediator's events run by the IMA machine, at bounds where the hashes matter; this would give the hazards about `creat` of an
   existing file and the resent EVM hash a property.
3. Shorter proofs where several handlers have the same shape.
