# A TLA+ model of fiex

fiex copies and moves file trees: an engine (`crates/engine`) that plans, copies
and reports, and a CLI (`crates/cli`) that starts it, asks the user, shows what
happens and turns the result into an exit code. This directory holds TLA+
modules that model both, TLC configurations that check them on small
instances, and proofs checked by TLAPS.

Paths below are relative to the repository; `engine.rs`, `transfer.rs`,
`scan.rs`, `policy.rs`, `metadata.rs`, `config.rs`, `event.rs` are in
`crates/engine/src`, `main.rs`, `headless.rs` and `progress.rs` in
`crates/cli/src`.

## The system

| Component | State | Operations | Made hard by | Correct if |
| --- | --- | --- | --- | --- |
| `Engine::run` (engine.rs:153-366) | bounded channel, `cancel`, `errors`, `prompt_all`, the spawned tasks | make directories, copy links, spawn producer and workers, await them, prune, `Done`, return | tasks on threads, closing of the channel, a cancel at any moment | every file is taken once and settled, `Done` tells the truth and comes last, the run ends |
| Prompt and Ctrl-c (progress.rs:355-428) | one mutex, stdin | ask, re-ask, cancel | several workers queue for one terminal | "a" and "q" take effect, nobody waits for ever |
| `copy_file_with_progress`, `move_file` (transfer.rs) | the destination, its `.fiex.tmp`, the page cache | reflink, resume, append, hash, fsync, rename, fsync of the directory, unlink | kills, power losses, I/O errors, earlier runs, other workers | the destination is old or new but never torn, `Ok` means copied, nothing is lost |
| Scanner and `Engine::plan` (scan.rs, engine.rs:111-142) | the walk, an unbounded channel, the plan | walk, follow or keep links, compute destinations | two threads, links, a tree that changes meanwhile | the plan is the tree, the walk stays under the root and ends |
| Whole tree (engine.rs:161-236, 343-554) | source and destination trees | fast rename, phases, pruning | partial failures, cancel between phases | no entry is lost, success means moved |
| `process_file`, conflict policies, metadata (engine.rs:556-735, policy.rs, metadata.rs) | names in the destination, modes, times, xattrs, counters | pick or clear a name, capture, transfer, restore, count, report | names checked and used later by several workers, ignored failures, kills | no content is overwritten, metadata stay within what shares a destination, events are true |
| `main`, headless run, renderer (main.rs, headless.rs, progress.rs) | configuration, two tasks, event channel, what the renderer has counted | load and check, spawn, await, render, exit code | who is awaited first, when the channel closes, a panic of either task or of a worker | nothing unseen, a true summary, the right exit code, the command ends |
| Configuration (config.rs, main.rs) | options | load, override, validate | - | a value that makes no sense starts nothing |

How they interact: `headless::run` spawns `Engine::run` and a render task joined
by an unbounded event channel. `Engine::run` calls `plan`, which spawns a
scanner thread per source and reads its channel to the end; afterwards it
makes directories and links itself, and hands the files to a producer and
`parallelism` workers on tokio's blocking pool. The workers call the prompt (a
closure over one mutex) and then `copy_file_with_progress` or `move_file`. The
`cancel` flag is shared by all of them, and set by Ctrl-c or by a worker whose
file was answered with "q".

## The modules

| Module | Models | Abstract or detailed |
| --- | --- | --- |
| `RunContract` | what one run promises: each file claimed and settled once, a true announcement, a result | abstract |
| `Pipeline` | `Engine::run` from the first directory on, with the channel, the pool, the prompt and the cancel flag | implements `RunContract` |
| `PipelineProofs` | theorems about `Pipeline` | |
| `AtomicCopy` | what a copy or a move without reflinks promises: a destination changes from old to whole in one step, and a power loss undoes whole steps | abstract |
| `Transfer`, `TransferProofs` | `copy_file_with_progress`, `move_file` on a file system that may lose what is not synced | one call, system call by system call; implements `AtomicCopy` |
| `TransferRefinement` | that it does so, for every value of the constants | |
| `Delivery`, `DeliveryProofs` | `process_file` in several workers: the policies, `unique_path`, metadata, counters, events | a transfer is one step |
| `Scan`, `ScanProofs` | `scan_tree`, `Engine::plan`, `compute_dst` | an item is sent, received and planned in steps |
| `TreeRun`, `TreeRunProofs` | the fast path and the phases of `Engine::run` on a tree | a file is one step |
| `Cli`, `CliProofs` | `main`, `headless::run`, the renderer, the channel of events | composed with `RunContract` |
| `MC*` | instances for TLC | |

In each component module the definitions whose comment starts with "Mutant:" are
deliberate deviations from the code, used only
to see that the properties notice them. `PROJECT.json` maps every definition to
its lines.

### Pipeline

`main` is where the async function `run` is; `prod` and `wpc[w]` where the
producer and worker `w` are, at the grain of the shared accesses: each load or
store of an atomic, each channel operation, each lock is a step of its own.
`chan` is the crossbeam channel. A sender or receiver exists while its holder
has not exited, so a closed channel is a condition and not a flag (`mainTx`,
`mainRx` are the handles that `run` itself holds and drops). `ThreadFree` is the
blocking pool: tasks need a thread to start, in the order they were spawned in.
`Resolve` is the policy and the read of `prompt_all`; `TakeGate` to
`AnswerUnknown` are the prompt; `StoreAll` and `SetCancel` come later, as in
the code. `lateFiles` and `lateAsks` are history variables. `Overwrite`,
`RenameOld` and `RenameNew` are one policy, "direct", which reaches the transfer
without a question. Pruning is in `TreeRun`.

### Transfer

A file is an inode number with a sequence of blocks; names map to inodes
(`dir`), an open descriptor stays with its inode. `synced[i]` is how many blocks
of a file are on disk, `disk` the set of directory states that a power loss may
leave: a file system commits its directory operations in order, and an fsync
of the directory commits all so far. `PowerLoss` picks one of them and tears
each unsynced file: cut off, or with blocks that read as zeros. `Launch` starts
the program again on what is there, with sources that may have been edited.
Every action is one system call, or calls that nothing can observe in between.
`CopyRange` chooses from the constant `RangeResults`: the code passes the offset
-1 as a pointer, so today's answer is always an error (`MCBadPointer`); the
passing run also allows what the comments intend, a full copy or "unsupported",
so that `Ficlone` and `ReflinkSync` are checked.

`AtomicCopy` has no partial copies, descriptors or inodes. `now` is what each
source and each destination holds, `after` what they may hold after a power
loss, `at` how far a call is: copying, placed, committed, moved, over, down. A
copy is `Replace` and `Commit`; a move is `Rename`, or a copy and then `Discard`.
`Transfer` maps to it by `Present` (the names of sources and destinations in
`dir`, seen through the files), `Views` (the same for each state in `disk`) and
`Stages`. A file that is not synced shows as `AtRisk`, which `AtomicCopy` never
has: that a view shows only whole files is part of the refinement.

### Scan

A path is a sequence of names, `tree` says what each path is. The stack of
`scan_recursive` calls is explicit; each `stat`, `readlink`, `open` and
directory read is a step, and the tree may change in between (`Vanish`). The
planner reads the same tree when it canonicalizes (`Destination`). `IsTree` is
what a file system may hold: what is there is in directories. The walk has no
guard against circles: `MaxDepth` calls within each other are the path that is
too long for the kernel (relative links, `Seen`) or the stack that overflows
(absolute ones, `Overflow`). `Canon` is `canonicalize()`; the end of a chain of
links is stated without recursion (every set of links that the chain is in is
left, for another link or for the end), so that it can be reasoned about, and a
circle of links has no end.

### TreeRun

`here` and `there` are the entries in the source and the destination. `main`
walks through the phases of `run`; a file is delivered or fails in one step, in
any order, also after its rename or its copy. `FastPath` is the comparison of
devices, which a destination without a parent passes: one that is a bare name
("relative") or whose parent is missing ("orphan"). `Innermost` is the sort of
`prune_empty_source_dirs`: path lengths order a directory only after what it
contains.

### Delivery

Each worker of the pool is somewhere in `process_file` with one file, in a
destination directory that all of them change. A name is a sequence of
numbers: a stem and one number for every " (n)" that was appended, so that
`unique_path` of a name is a sequence one longer. It is modelled one candidate
per step, since others publish between two looks. Contents, modes (with times)
and xattrs are known by whose they are. `Take` looks at no directory, as
`resolve` does not: Skip skips every file and Prompt asks about every file.
`Aside` is the rename of an old file whose failure is ignored (`overrun` records
that it happened). The transfer publishes in one step; two workers with one
target share its partial copy, which is outside of this module. `Relaunch` is a
kill at any moment and the command given again.

### Cli

`main`, the engine task and the render task are three processes. The engine's
steps are those of `RunContract` (`E!Claim`, `E!Settle`, `E!Announce`, ...),
conjoined with the events they send, so `Pipeline`, which implements that
contract, may take its place. The standard error may lose its reader at any
moment (`BreakStderr`); from then on every `eprintln!` panics: the render task
dies and closes the channel, a worker that wants to ask dies with its file
("lost": `run` drops the `JoinError`), and `main` exits with 101. Of the events
only those that are printed or counted are kept. Bars are left out: on a
terminal the renderer draws, and counts the same.

## The runs

| Run | Instance | Result |
| --- | --- | --- |
| `pipeline` | 2 workers, 4 files, capacity 2, 1 early entry, 3 threads, three policies | passes: 752 157 states |
| `transfer` | 1 file, 1- and 2-block contents, 14 configurations, 2 launches | passes: 243 600 states |
| `scan` | 6 paths, all trees, circles of links included, 3 source lists, 4 option sets, 1 change | passes: 395 795 states |
| `tree_run` | 4 directories, 2 files, 1 link, 40 configurations, 2 faults | passes: 28 132 states |
| `delivery` | 2 files, 2 workers, 3 plans, 3 sets of old names, 5 policies, copies and both kinds of move, 1 fault, 2 launches | passes: 3 984 976 states up to the exchange of workers |
| `cli` | 3 files, 2 workers, 1 early error, all 32 settings | passes: 322 952 states |
| `exit_code` | policy direct | `ErrorsExitNonZero` fails |
| `reflink_leftover` | 1 copy with `try_reflink` | `NeverHalfWritten` fails |
| `scan_follow` | one source, links followed | `FollowedInPlace` fails |
| `announced` | as `tree_run` | `CompletedAreDelivered` fails |
| `rename_race` | 2 files of one name, RenameNew | `RenamesKeepAll` fails |
| `scan_circle` | one source, links followed | `ScannerExits` fails |

### What passes

`pipeline`. `Conveyed` and `OneWorkerPerFile`: the channel holds exactly the
files sent and not taken, in order, and no file has two workers.
`NothingDropped`: without a cancel everything is settled before `Done`.
`DoneIsAccurate`, `QuitIsReported`: the announcement is true, a "q" reaches the
caller. `BoundedOverrun` and
`FewAsksAfterAll` bound what the unsynchronised reads allow: after a cancel at
most one more file per worker, after "all" at most one more question for each
other worker. `Termination`: no deadlock between channel, mutex and awaits.
`ContractSpec`: the refinement of `RunContract`.

`transfer`. `DstAtomic`: whatever a power loss undoes, a destination is what it
was or a whole copy; with reflinks that is said of one that existed before.
`OkMeansCopied`, `OkIsDurable`: the result after any number of interrupted runs
is the source's content, and stays. `NoLoss`: a move leaves the content under
some name. It is conditional on `config.dirSync`, because the code ignores a
directory that cannot be synced and then unlinks the source. `ErrNeedsFault`,
`KeepsGoodPrefix`: leftovers never make a run fail and are used where possible.
`Returns`: a call ends. `IsAtomicCopy`: without reflinks the calls, with errors,
kills, power losses and launches, implement `AtomicCopy`. `DstAtomic` says that a
destination is always something it may be; this says also which, and when: it
changes at the rename and nowhere else, to what the source holds then; a power
loss takes it back to before, in the order of the changes, unless the directory
was synced; two file systems lose independently; an error changes nothing.

`scan`. `PlacedByRelative`, `PlanIsTree`, `OkMeansNoError`: the plan is the tree,
with destinations that agree with the scanner's relative paths, and an error
is never left out. `StaysUnderRoot`: no chain of links leads the listing
out of the root, in circles or not. `ReturnsByLink`: only through a followed link
does a walk come back to an entry that it is in. `PlanReturns`: if it never does,
the plan returns and the scanner ends.

`tree_run`. `NothingLost`: no entry is in neither tree, a copy leaves its source
alone, and pruning removes only what is empty. `SuccessMeansMoved`: what `Done`
and the result say of the tree.

`delivery`. `NothingLost`: the renaming policies keep what was in the
destination, and no policy loses a file of the plan, at any moment and also
when the process dies there. Its premises name what the code does not protect:
two workers that pick names from each other's reach (`rename_race` shows it),
an old file that could not be moved aside and is then overwritten, files that
share a destination under Overwrite and Prompt. `MetadataStayInReach`:
`restore` and `copy_xattrs` go by the name, so two workers with one destination
and RenameOld do put the metadata of one file on the other (engine.rs:589-594,
701-706); the invariant says how far this goes. With one worker it never
happens; otherwise the name starts with the planned destinations of both files,
and a file that was there before is hit only if RenameOld has moved it to such
a name of a file whose destination starts with another's.
`CompletedIsDelivered`: when `FileCompleted` is sent, content, metadata and
source are as they should be (not the xattrs of a move between file systems:
their source is gone when they are read). `ProgressIsHonest`: `files_done`
counts the delivered files, no snapshot is ahead of it, and in the end the
highest one is not behind. The last one sent may be older than that: workers
send in any order.

`cli`. `NothingUnseen`: a command that ends as its run ended has rendered every
event and printed the summary. `SummaryIsTrue`: its counts are those of the run,
although failed files are reported twice and failed directories once.
`ExitCodeIsRight`: 0 means that every file was settled, none of them lost with
a worker; 130 a cancel; 2 that nothing was started. `Exits`: the command ends
whatever panics.

### What fails

Six runs check a sentence of the repository that the code does not keep; each
counterexample was compared with the source. `PROJECT.json` quotes the sentence.

- Errors do not reach the exit code (`exit_code`); `Done.success` does not count
  directories and links.
- The reflink attempt creates the destination itself and leaves it empty
  (`reflink_leftover`).
- Followed links are planned at their target's place (`scan_follow`).
- The fast path announces files before they are moved (`announced`).
- `unique_path` leaves the race for its name to a caller that publishes with a
  rename, which replaces (`rename_race`).
- A scanner that follows a circle of links does not exit, with a receiver or
  without: it recurses until the stack of its thread overflows, which ends the
  process (`scan_circle`). With relative links the path gets too long first, and
  the plan ends with an error.

Seen while modelling, without a run of their own:

- A Ctrl-c does not interrupt a question on the terminal (progress.rs:355-400).
- Files of one name in two sources share the `.fiex.tmp`, and a file that is
  called like a partial copy is taken for one (transfer.rs:31, 98).
- "Prompt per conflict" (README.md:170-171) asks about every file: `resolve`
  looks at no directory (policy.rs:38-41), and Skip skips every file.
- A directory that is moved to a bare name on another file system takes the
  fast path, whose rename then fails: it is announced and not copied
  (engine.rs:447-453).
- The README says that unknown configuration keys are an error; `serde(default)`
  ignores them.
- An old file is moved to "name (n)", not to the `.fiex-old.<n>` of the doc; if
  that rename fails, it is overwritten (engine.rs:592).
- A move between file systems loses xattrs in spite of `--preserve-xattrs`, and
  a kill between unlink and restore loses mode and times: the next run does not
  meet the file again.
- Neither the outcome "skipped" nor `FileStarted` is ever sent for a skipped file.
- With NO_COLOR on a terminal there are neither bars nor plain lines.

### Bounds, and why they are enough

- Two workers: each race is between one reader and one writer of a flag, or two
  takers of a file. Four files fill the channel and both workers at once, so
  the producer blocks. The proofs need no bound.
- Two blocks tell apart an empty, a half, a whole and a wrong partial copy, and
  one with lost or zeroed blocks. Two launches: the second meets anything the
  first leaves, and what a second leaves is of the same kinds. `Inode` has room
  for each name that any surviving directory may hold.
- Trees of six paths hold chains of two links, links out, to nowhere, to
  themselves and to directories, also those that they are in. No walk without a
  circle has more than five calls, so `MaxDepth` 5 cuts circles only.
  `MaxChanges` bounds entries that vanish or cannot be read.
- Three levels of directories and an empty one make the order of creation and
  of pruning matter. `MaxFaults` is 2: an error and a consequence.
- In `delivery` two files have one destination, unrelated ones, or one of them a
  name that is tried for the other; up to two names exist before. `MaxSuffix`
  6 is never reached. One fault at any call and one kill at any moment; the
  metadata options are on together, or off for Overwrite. The proofs need none
  of these bounds.
- Three files for two workers in `cli`: one is left over when both panic. One
  early error is enough to tell what `Done` counts from what is reported.

### Fairness

`EngineFairness` is weak fairness of `run`, of the producer and of each worker:
threads and async tasks are scheduled. The mutex gets no more than that.
`UserFairness` is strong fairness of the useful answers: somebody who is asked
again and again does not type nonsense for ever. `Termination` needs it. In
`Transfer`, system calls return (weak fairness of each call, none of kills or
launches). In `Scan` each thread proceeds; nothing is assumed of what others do
to the tree. `Cli` has weak fairness of the main thread and of each task; that
a file which was taken gets settled and the engine ends is what `Termination`
says of `Pipeline`. `TreeRun` and `Delivery` state no fairness: they have
safety properties only.

## The proofs

Six of the seven proof modules show that an inductive invariant `IInv` holds
(`InvariantHolds`) beside the types (`TypeCorrect`), and draw the properties
from it; `TransferRefinement` builds on that of `TransferProofs`. They are
proved for every value of the constants that satisfies the module's assumption
(`TransferProofs` adds one, `Distinct`, below); none assumes a bound of the
runs. Every invariant that a run checks is also proved.

| Module | Theorem | States |
| --- | --- | --- |
| `PipelineProofs` | `TypeCorrect` | `[]TypeOK`, the channel's bound included |
| | `ConveyedHolds`, `OneWorkerPerFileHolds` | no file is lost in the channel or taken twice |
| | `DoneIsAccurateHolds`, `NothingDroppedHolds`, `QuitIsReportedHolds` | the announcement and the result are true |
| | `BoundedOverrunHolds`, `FewAsksAfterAllHolds` | what a cancel and "all" may still let through |
| | `PipelineImplementsContract` | `Spec => ContractSpec` |
| `TransferProofs` | `DstAtomicHolds` | a destination is whole whatever a power loss undoes |
| | `OkMeansCopiedHolds`, `OkIsDurableHolds`, `NoLossHolds` | what `Ok` means, and that a move loses nothing |
| | `ErrNeedsFaultHolds`, `KeepsGoodPrefixHolds` | what earlier runs left is no error, and is used |
| `TransferRefinement` | `CopyIsAtomic`, `TransferImplementsCopy` | `Spec => IsAtomicCopy`, and `Spec /\ ~config.reflink => Copy!Spec` |
| `ScanProofs` | `PlanIsTheTree` | the plan of an undisturbed tree is complete, and names nothing twice |
| | `NoErrorIsSkipped`, `DestinationsAgree` | what else may happen to a plan while entries vanish |
| | `ScanStaysUnderRoot`, `ScanReturnsByLink` | where a walk that follows links may lead |
| `TreeRunProofs` | `NothingLostHolds`, `SuccessMeansMovedHolds` | no entry is lost, success means moved |
| `DeliveryProofs` | `NothingLostHolds`, `MetadataStayInReachHolds`, `CompletedIsDeliveredHolds`, `ProgressIsHonestHolds` | all invariants of `Delivery` |
| `CliProofs` | `NothingUnseenHolds`, `SummaryIsTrueHolds`, `ExitCodeIsRightHolds` | all invariants of `Cli` |

**Pipeline**: any number of workers (at least one), files, early entries; a
capacity above 0; at least two threads. That `Done` counts each failed file,
say, holds because all workers have exited, which holds because `run` awaited
them, which they survive only if the channel was closed and empty or the flag
was set. `IInv` says this: `PhaseInv` (which tasks exist and which are over at
each place of `run`), `ExitInv` (why a task is over: out of files, or
cancelled), `Conveyed` and `OneWorkerPerFile` (every number below `next` is in
the channel or was taken by exactly one worker), `OutcomeInv` (the counter is
the number of failed files, and `Done` was made from it), `QuitInv` (a "q" is in
the flag or about to be). Each is preserved on its own under the types and
those before it, so there is one lemma per part, with one step per action, and
`WorkerFrame`/`WorkerEffect` state once what a worker's step can change. For the
two bounds, a worker that has read a flag before it was set is a token it
spends: `OverrunInv` (waiting workers and late files together are no more than
the workers), `AsksInv` (files asked late and workers on their way to the prompt
are fewer than the workers, since the one that stored "all" is not among them).
The refinement maps "quit" to "failed": a step of `Recv` is a `Claim`, each
settling step a `Settle`, the others stutter except `Report`, `Return`,
`SetCancel` and the early return.

**Transfer**: any calls, contents, configurations, launches and kills, and any
room on the file systems. Three assumptions are in the theorems. `Distinct`: no
two calls have one destination or one partial copy, and no partial copy is
called like a destination; the planner does not see to that (see "What fails").
`OkMeansCopied` and `NoLoss` need that copy_file_range never copies a part of
the file, which the code does not check. `NoLoss` and `OkIsDurable` are about
directories that can be synced. The invariant has two halves. `NamesInv` and
`AloneInv` are about names: over all the states that a power loss may leave,
the names a file has had belong to one call, and the file a call writes to, or
reads from, never had another name. So what is appended can reach no published
file in any of those states, and a step of a call stays inside its names
(`Frame`): it keeps the invariants of all the others (`OthersWorld`,
`OthersCall`), and `Assemble` leaves only its own to show. `SourceOk`,
`SoundOk` and `KeptOk` are about contents: a source, where it still is, is
whole; a destination is old or whole; and a state of the source's file system
without the source goes only with states of the destination's that have the
copy, two file systems losing independently (`Pair`). `CopyOk` says how far
each call is: the partial copy is the source up to the block that is read next,
whole from `verify` on, synced from `publish` on. `DoneOk` is what the unlink
and `Ok` rest on. `NamesOk` does the steps that change names, `FileOk` those
that write or sync, `Silent` the others; `PowerLossOk` and `LaunchOk` are the
crash and the next run.

**Transfer implements AtomicCopy**: with the same assumption `Distinct`, and
without reflinks, which write to the destination itself (`reflink_leftover` shows
what is seen then). A view depends on the paths that are shown and the files
under them (`ViewSame`). `Quiet` says that a step writes to no file that is shown
in any state of `disk`; a call writes to its partial copy alone, which `AloneInv`
keeps from every shown path (`QuietTmp`). A quiet step that changes names
changes the views by exactly one state (`Changes`, where two file systems make a
product), and by none if no shown name changes (`HiddenNames`). So the steps
of the buffered copy stutter, and what is left is `Publish` (`CopyOk`: the partial
copy is whole and synced, so the destination shows the source's content), the
rename of a move, `SyncDir`, `Unlink`, and the errors. For a power loss every
shown file is synced in full (`ShownIsWhole`), so tearing files changes no view;
`Launch` edits the files of the sources that are left, in all views alike
(`LaunchedView`). That no file's content is the value `Absent` is an assumption
of the module.

**Scan**: any paths, any trees of them, any sources and number of changes.
`FlowInv`: an error that a scanner has met stays in the channel until it ends the
plan, and a source is left only with an empty channel and no sender.
`PlacedInv`: without links to follow every call is at the root and its own
relative path, and the source still leads where it did or nowhere (when entries
vanish, a chain of links keeps its end or has none: `CanonShrinks`), so the
destination that `compute_dst` strips from the source is that relative path.
`StaysInv`: what is not under the root is no directory; what vanishes makes
nothing a directory, and a link that is followed leads to its end. `ClimbsInv`:
from each call to the next the walk goes down to a child, or through a link
that it follows, and paths only grow on the way down; so where two calls are of
one entry (`ReturnsByLink`) there is a followed link between them. Nothing is
assumed of the tree: the code keeps no record of where it has been.
`CompleteInv` counts: what a call has
still to find (`Yet`) is its own part of the tree, without that of any other
call; each step of an undisturbed scanner finds nothing, or one thing that was
awaited (`StepFinds`), which is then in the channel and later in the plan, at
each moment in exactly one of the three. Where the scanner has returned and the
channel is empty, all of the source is in the plan.

**TreeRun**: any finite tree, any order of its directories in which parents
come first, any number of faults. `FilesInv`: files the pool is through with
were delivered or counted. `PruneInv`: a directory that `remove_dir` was tried on
is gone or holds something that pruning will not take; this is where the order
by length matters.

**Delivery**: any files, destinations, old names and workers, any number of
faults and launches. The argument is about names. Everything a worker publishes
lies under a name that starts with the planned one (`LyingInv`), and two
prefixes of one name are prefixes of each other (`PrefixesMeet`); so with
destinations of which none is a prefix of another (`Apart`), or one worker at a
time, nobody else touches what a worker relies on: the name it has found free
(`FreeInv`), what it has published there until its metadata are set
(`HoldInv`). `AttrInv` follows the metadata from capture to `FileCompleted`, and
`DeliveredInv` keeps them afterwards. `SnapshotInv`: the snapshot that counts
everything is on its way or was sent. `Undisturbed`, `KeepAll`, `KeepFile` say
once what a step on one name leaves of the others. `MetadataStayInReach` needs
neither `Apart` nor one worker. `ThereInv` bounds where a worker's target can be
and what can lie there, `FitsInv` says it of every attribute of every file in the
directory; a step that moves a file, or restores to a name, keeps it (`FitsAside`,
`FitsRestored`).

**Cli**: any plan, workers and settings. `PhaseInv` says where main, engine and
renderer can be together; `CountInv` that what the renderer has counted and what
is still queued make up what happened; `DoneInv` that `Done` is the last event
and repeats the number of failed files. A panic voids these, and `LossInv` says
that nothing ends as if it had not happened.

Only model-checked: liveness (`Termination`, `Returns`, `PlanReturns`,
`Exits`), which is out of the prover's reach.

## Not modelled

- Bars, wording, throttling, speed and ETA, bytes and event indexes: display
  only, nothing depends on them.
- Runs of several sources below `plan`: the slow path takes their files one by
  one, as `Delivery` does, but `TreeRun` has one source.
- Empty files, and a failing unlink of a bad partial copy in a directory where
  create and rename succeed (`transfer.rs:179`, `187`): the code ignores it and
  appends.
- Two calls that share one partial copy, or a file named like one, have no run:
  the module allows them (`TmpOf` and `DstOf` are constants), the properties
  assume distinct names.
- `VerifyMode::should_verify` and the hash arithmetic: a choice per file.
  Blocks are compared in full: BLAKE3 is taken to have no collisions.
- In a destination, only regular files (`Delivery`). `Path::exists()` follows
  links, so the code takes a dangling link for a free name and replaces it.
- The ".." that the code leaves in the target of a relative link
  (scan.rs:170-176): `FollowLink` goes on under the normalized path. This
  matters for the planned destinations of what is followed, not for what is
  listed.
- The memory that the unbounded scan channel may take.
- A Ctrl-c before the handler is installed, which ends the process.
- clap's parsing, the build script.

## What is left

- A `pipeline` instance with fewer threads than tasks, for the producer's place
  in the queue.
- `TreeRun` with several sources.
