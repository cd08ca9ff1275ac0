------------------------------ MODULE Delivery ------------------------------
(***************************************************************************)
(* process_file(): what a worker of the pool does with one file, while the *)
(* other workers do the same in the same destination directory.  The       *)
(* conflict policy picks the target, the transfer publishes the file there *)
(* in one step (module Transfer has the steps inside, module Pipeline the  *)
(* channel, the prompt's "all" and "quit"), the metadata follow, then the  *)
(* counters and the events.                                                *)
(*                                                                         *)
(* A name is a sequence of numbers: a stem, then a number for every        *)
(* " (n)" that was appended.  Contents, permissions with times and         *)
(* extended attributes are known by whose they are: a file of the plan, or *)
(* the name of what stood in the destination before.  Two workers with one *)
(* target also share its partial copy: that is in Transfer.                *)
(***************************************************************************)
EXTENDS Integers, Sequences, SequencesExt, FiniteSets

CONSTANTS
  File,         \* the regular files of the plan
  None,         \* no file, and the permissions and attributes of a new file
  Plans,        \* destinations the files may have in the plan
  Olds,         \* sets of names that may exist in the destination
  Configs,      \* configurations
  Worker,       \* the tasks of the pool
  MaxSuffix,    \* bound: names tried by unique_path
  MaxFaults,    \* bound: system calls that fail
  MaxLaunches   \* bound: times the command is started

Name == Seq(Nat)

ASSUME DeliveryAssumption ==
  /\ IsFiniteSet(File) /\ None \notin File \cup Name /\ File \cap Name = {}
  /\ \A p \in Plans : \A f \in File : p[f] \in Name
  /\ \A o \in Olds : \A n \in o : n \in Name
  /\ IsFiniteSet(Worker) /\ MaxSuffix \in Nat \ {0}
  /\ MaxFaults \in Nat /\ MaxLaunches \in Nat \ {0}
  /\ Configs \subseteq
       [policy : {"overwrite", "skip", "rename-old", "rename-new", "prompt"},
        mode : {"copy", "move"}, sameFs : BOOLEAN, metadata : BOOLEAN,
        xattrs : BOOLEAN, parallelism : 1 .. Cardinality(Worker)]

VARIABLES
  config,       \* the configuration of the run
  plan,         \* PlanEntry::destination of each file
  old,          \* the names that existed in the destination at the start
  src,          \* the files that are still in the source
  dir,          \* the destination: what stands under each name
  pc,           \* where each worker is in process_file
  cur,          \* its file, or None
  target,       \* the path it will publish to
  suffix,       \* the number unique_path is at
  snap,         \* the file whose metadata it captured, or None
  status,       \* what has become of each file
  filesDone,    \* the counter files_done
  seen,         \* what each worker loaded from it for its snapshot
  told,         \* history: the highest files_done of a Progress event
  overrun,      \* history: an old file could not be moved aside
  faults,       \* system calls that have failed
  launches      \* times the command was started

worker == <<pc, cur, target, suffix, snap, seen>>
given == <<config, plan, old>>
vars == <<given, src, dir, worker, status, filesDone, told, overrun, faults, launches>>

Candidate(n, k) == Append(n, k)

All(x) == [w \in Worker |-> x]

Init ==
  /\ config \in Configs /\ plan \in Plans /\ old \in Olds
  /\ src = File
  /\ dir = [n \in old |-> [data |-> n, mode |-> n, xattrs |-> n]]
  /\ pc = All("idle") /\ cur = All(None) /\ target = All(<<>>)
  /\ suffix = All(0) /\ snap = All(None) /\ seen = All(0)
  /\ status = [f \in File |-> "todo"]
  /\ filesDone = 0 /\ told = 0 /\ overrun = FALSE
  /\ faults = 0 /\ launches = 1

\* Path::exists() follows links and takes an error for a no; here the names of the
\* destination are of regular files.
Exists(n) == n \in DOMAIN dir
At(w, where) == pc[w] = where
Goto(w, where) == pc' = [pc EXCEPT ![w] = where]
Fault == faults < MaxFaults /\ faults' = faults + 1
NoFault == UNCHANGED faults
Highest(n) == IF n > told THEN n ELSE told

\* rename(2) onto a name, or a new file published under it.
Put(n, entry) ==
  dir' = [m \in DOMAIN dir \cup {n} |-> IF m = n THEN entry ELSE dir[m]]

\* process_file() returns: the worker forgets its file.
Settle(w, s) ==
  /\ status' = [status EXCEPT ![cur[w]] = s]
  /\ Goto(w, "idle")
  /\ cur' = [cur EXCEPT ![w] = None]
  /\ snap' = [snap EXCEPT ![w] = None]
  /\ target' = [target EXCEPT ![w] = <<>>]
  /\ suffix' = [suffix EXCEPT ![w] = 0]
  /\ seen' = [seen EXCEPT ![w] = 0]
-----------------------------------------------------------------------------
(* The target                                                              *)

\* One of the config.parallelism workers takes a file and asks the policy, which
\* looks at no directory: Skip skips and Prompt asks whether something is in the
\* way or not.
Take(w, f) ==
  /\ At(w, "idle")
  /\ Cardinality({v \in Worker : pc[v] # "idle"}) < config.parallelism
  /\ status[f] = "todo"
  /\ IF config.policy = "skip"
       THEN status' = [status EXCEPT ![f] = "skipped"] /\ UNCHANGED worker
       ELSE /\ status' = [status EXCEPT ![f] = "busy"]
            /\ Goto(w, CASE config.policy = "rename-old" -> "exists"
                         [] config.policy = "rename-new" -> "try"
                         [] config.policy = "prompt"     -> "asking"
                         [] OTHER                        -> "start")
            /\ cur' = [cur EXCEPT ![w] = f]
            /\ target' = [target EXCEPT ![w] = plan[f]]
            /\ suffix' = [suffix EXCEPT ![w] = 1]
            /\ UNCHANGED <<snap, seen>>
  /\ UNCHANGED <<given, src, dir, filesDone, told, overrun, faults, launches>>

\* The answer, or the log line of a run that is not interactive.
Answer(w) ==
  /\ At(w, "asking")
  /\ \/ Goto(w, "start") /\ UNCHANGED <<status, cur, target, suffix, snap, seen>>
     \/ Settle(w, "skipped")
  /\ UNCHANGED <<given, src, dir, filesDone, told, overrun, faults, launches>>

\* RenameOld: is there anything to move aside?
LookForOld(w) ==
  /\ At(w, "exists")
  /\ Goto(w, IF Exists(target[w]) THEN "try" ELSE "start")
  /\ UNCHANGED <<given, src, dir, cur, target, suffix, snap, seen, status, filesDone,
                 told, overrun, faults, launches>>

\* Mutant: unique_path() returns its first candidate.
TryNameOnce(w) ==
  /\ At(w, "try")
  /\ target' = IF config.policy = "rename-new"
                 THEN [target EXCEPT ![w] = Candidate(@, suffix[w])] ELSE target
  /\ Goto(w, IF config.policy = "rename-new" THEN "start" ELSE "aside")
  /\ UNCHANGED <<given, src, dir, cur, suffix, snap, seen, status, filesDone, told,
                 overrun, faults, launches>>

\* unique_path(): one turn of its loop.  RenameNew publishes under the name
\* found, RenameOld moves the old file there.
TryName(w) ==
  /\ At(w, "try")
  /\ IF Exists(Candidate(target[w], suffix[w]))
       THEN /\ suffix[w] < MaxSuffix
            /\ suffix' = [suffix EXCEPT ![w] = @ + 1]
            /\ UNCHANGED <<pc, target>>
       ELSE /\ IF config.policy = "rename-new"
                 THEN /\ target' = [target EXCEPT ![w] = Candidate(@, suffix[w])]
                      /\ Goto(w, "start")
                 ELSE Goto(w, "aside") /\ UNCHANGED target
            /\ UNCHANGED suffix
  /\ UNCHANGED <<given, src, dir, cur, snap, seen, status, filesDone, told, overrun,
                 faults, launches>>

\* The rename of the old file, whose result is dropped.
Aside(w) ==
  /\ At(w, "aside")
  /\ LET t == target[w]
         side == Candidate(t, suffix[w])
     IN \/ /\ Exists(t) /\ NoFault /\ UNCHANGED overrun
           /\ dir' = [n \in (DOMAIN dir \ {t}) \cup {side} |->
                        IF n = side THEN dir[t] ELSE dir[n]]
        \/ ~Exists(t) /\ NoFault /\ UNCHANGED <<dir, overrun>>
        \/ Exists(t) /\ Fault /\ overrun' = TRUE /\ UNCHANGED dir
  /\ Goto(w, "start")
  /\ UNCHANGED <<given, src, cur, target, suffix, snap, seen, status, filesDone, told,
                 launches>>
-----------------------------------------------------------------------------
(* The transfer and the metadata                                           *)

\* Mutant: the metadata are captured from what the target names.
StartCapturesTarget(w) ==
  /\ At(w, "start")
  /\ snap' = [snap EXCEPT ![w] = IF config.metadata THEN target[w] ELSE None]
  /\ Goto(w, "transfer") /\ NoFault
  /\ UNCHANGED <<given, src, dir, cur, target, suffix, seen, status, filesDone, told,
                 overrun, launches>>

\* capture() of the source, and set_file_times() after set_permissions().
Captured(w) == IF config.metadata THEN cur[w] ELSE None
WithMetadata(entry, f) == [entry EXCEPT !.mode = f]

\* FileStarted, and the metadata are captured if they are to be preserved.
Start(w) ==
  /\ At(w, "start")
  /\ \/ snap' = [snap EXCEPT ![w] = Captured(w)] /\ NoFault
     \/ config.metadata /\ Fault /\ UNCHANGED snap
  /\ Goto(w, "transfer")
  /\ UNCHANGED <<given, src, dir, cur, target, suffix, seen, status, filesDone, told,
                 overrun, launches>>

New(f) == [data |-> f, mode |-> None, xattrs |-> None]
Moved(f) == [data |-> f, mode |-> f, xattrs |-> f]

\* A move within a file system takes the file as it is.
TransferRename(w) ==
  /\ At(w, "transfer")
  /\ config.mode = "move" /\ config.sameFs
  /\ Put(target[w], Moved(cur[w]))
  /\ src' = src \ {cur[w]}
  /\ Goto(w, "restore") /\ NoFault
  /\ UNCHANGED <<given, cur, target, suffix, snap, seen, status, filesDone, told, overrun,
                 launches>>

\* A copy is a new file; a move that cannot rename goes on to unlink its
\* source.
TransferCopy(w) ==
  /\ At(w, "transfer")
  /\ IF config.mode = "move" /\ config.sameFs THEN Fault ELSE NoFault
  /\ Put(target[w], New(cur[w]))
  /\ Goto(w, IF config.mode = "move" THEN "unlink" ELSE "restore")
  /\ UNCHANGED <<given, src, cur, target, suffix, snap, seen, status, filesDone, told,
                 overrun, launches>>

\* process_file() returns an error.  The destination may have been renamed
\* already, if only reading it back failed.
TransferFail(w) ==
  /\ At(w, "transfer") /\ Fault
  /\ \/ UNCHANGED <<dir, src>>
     \/ /\ config.mode = "move" /\ config.sameFs
        /\ Put(target[w], Moved(cur[w])) /\ src' = src \ {cur[w]}
  /\ Settle(w, "failed")
  /\ UNCHANGED <<given, filesDone, told, overrun, launches>>

\* Mutant: `let _ =` in front of remove_file().
UnlinkDropped(w) ==
  /\ At(w, "unlink")
  /\ \/ src' = src \ {cur[w]} /\ NoFault
     \/ Fault /\ UNCHANGED src
  /\ Goto(w, "restore")
  /\ UNCHANGED <<given, dir, cur, target, suffix, snap, seen, status, filesDone, told,
                 overrun, launches>>

\* If the source cannot be unlinked, both are left.
Unlink(w) ==
  /\ At(w, "unlink")
  /\ \/ /\ src' = src \ {cur[w]} /\ NoFault
        /\ Goto(w, "restore") /\ UNCHANGED <<cur, target, suffix, snap, seen, status>>
     \/ Fault /\ Settle(w, "failed") /\ UNCHANGED src
  /\ UNCHANGED <<given, dir, filesDone, told, overrun, launches>>

\* Mutant: the metadata go to the planned destination.
RestorePlanned(w) ==
  /\ At(w, "restore")
  /\ LET t == plan[cur[w]] IN
     IF snap[w] # None /\ Exists(t) THEN Put(t, WithMetadata(dir[t], snap[w]))
     ELSE UNCHANGED dir
  /\ Goto(w, "xattrs") /\ NoFault
  /\ UNCHANGED <<given, src, cur, target, suffix, snap, seen, status, filesDone, told,
                 overrun, launches>>

\* Permissions and times are set on whatever stands at the target now; a
\* failure is dropped.
Restore(w) ==
  /\ At(w, "restore")
  /\ LET t == target[w] IN
     \/ /\ snap[w] # None /\ Exists(t) /\ NoFault
        /\ Put(t, WithMetadata(dir[t], snap[w]))
     \/ (snap[w] = None \/ ~Exists(t)) /\ NoFault /\ UNCHANGED dir
     \/ snap[w] # None /\ Fault /\ UNCHANGED dir
  /\ Goto(w, "xattrs")
  /\ UNCHANGED <<given, src, cur, target, suffix, snap, seen, status, filesDone, told,
                 overrun, launches>>

\* The attributes are read from the source, which a move has just removed.
CopyXattrs(w) ==
  /\ At(w, "xattrs")
  /\ LET t == target[w]
         able == config.xattrs /\ cur[w] \in src /\ Exists(t)
     IN \/ able /\ NoFault /\ Put(t, [dir[t] EXCEPT !.xattrs = cur[w]])
        \/ ~able /\ NoFault /\ UNCHANGED dir
        \/ able /\ Fault /\ UNCHANGED dir
  /\ Goto(w, "count")
  /\ UNCHANGED <<given, src, cur, target, suffix, snap, seen, status, filesDone, told,
                 overrun, launches>>
-----------------------------------------------------------------------------
(* Counters and events                                                     *)

\* The progress callback of a copy (a move has none) takes a snapshot too.
Tick(w) ==
  /\ At(w, "transfer") /\ config.mode = "copy"
  /\ told' = Highest(filesDone)
  /\ UNCHANGED <<given, src, dir, worker, status, filesDone, overrun, faults, launches>>

\* The file is counted and FileCompleted is sent.
Complete(w) ==
  /\ At(w, "count")
  /\ filesDone' = filesDone + 1
  /\ status' = [status EXCEPT ![cur[w]] = "done"]
  /\ Goto(w, "load")
  /\ UNCHANGED <<given, src, dir, cur, target, suffix, snap, seen, told, overrun, faults,
                 launches>>

\* Mutant: the snapshot for the last event of a file leaves that file out.
LoadBefore(w) ==
  /\ At(w, "load")
  /\ seen' = [seen EXCEPT ![w] = filesDone - 1]
  /\ Goto(w, "send")
  /\ UNCHANGED <<given, src, dir, cur, target, suffix, snap, status, filesDone, told,
                 overrun, faults, launches>>

\* snapshot_progress() reads the counter, and the event is sent later.
Load(w) ==
  /\ At(w, "load")
  /\ seen' = [seen EXCEPT ![w] = filesDone]
  /\ Goto(w, "send")
  /\ UNCHANGED <<given, src, dir, cur, target, suffix, snap, status, filesDone, told,
                 overrun, faults, launches>>

SendProgress(w) ==
  /\ At(w, "send")
  /\ told' = Highest(seen[w])
  /\ Settle(w, "done")
  /\ UNCHANGED <<given, src, dir, filesDone, overrun, faults, launches>>

\* The process dies, its workers where they are, and the command is given
\* again: its plan is what the source still holds.
Relaunch ==
  /\ launches < MaxLaunches /\ launches' = launches + 1
  /\ pc' = All("idle") /\ cur' = All(None) /\ target' = All(<<>>)
  /\ suffix' = All(0) /\ snap' = All(None) /\ seen' = All(0)
  /\ status' = [f \in File |-> IF f \in src THEN "todo" ELSE "absent"]
  /\ filesDone' = 0 /\ told' = 0
  /\ UNCHANGED <<given, src, dir, overrun, faults>>

Quiet == \A w \in Worker : pc[w] = "idle"
AllTaken == \A f \in File : status[f] # "todo"
Finished == Quiet /\ AllTaken /\ UNCHANGED vars

ProcessFile(w) ==
  \/ (\E f \in File : Take(w, f)) \/ Answer(w)
  \/ LookForOld(w) \/ TryName(w) \/ Aside(w)
  \/ Start(w) \/ Tick(w) \/ TransferRename(w) \/ TransferCopy(w) \/ TransferFail(w)
  \/ Unlink(w) \/ Restore(w) \/ CopyXattrs(w)
  \/ Complete(w) \/ Load(w) \/ SendProgress(w)

Next == (\E w \in Worker : ProcessFile(w)) \/ Relaunch \/ Finished

Spec == Init /\ [][Next]_vars
-----------------------------------------------------------------------------
Owner == File \cup Name

TypeOK ==
  /\ config \in Configs /\ plan \in Plans /\ old \in Olds
  /\ src \subseteq File
  /\ \A n \in DOMAIN dir :
       /\ n \in Name
       /\ dir[n] \in [data : Owner, mode : Owner \cup {None}, xattrs : Owner \cup {None}]
  /\ pc \in [Worker -> {"idle", "asking", "exists", "try", "aside", "start", "transfer",
                        "unlink", "restore", "xattrs", "count", "load",
                        "send"}]
  /\ cur \in [Worker -> File \cup {None}]
  /\ target \in [Worker -> Name]
  /\ suffix \in [Worker -> 0 .. MaxSuffix]
  /\ snap \in [Worker -> File \cup {None}]
  /\ seen \in [Worker -> Nat]
  /\ status \in [File -> {"todo", "busy", "done", "skipped", "failed", "absent"}]
  /\ filesDone \in Nat /\ told \in Nat
  /\ overrun \in BOOLEAN /\ faults \in 0 .. MaxFaults /\ launches \in 1 .. MaxLaunches

Kept(owner) == \E n \in DOMAIN dir : dir[n].data = owner

\* No destination is another's, or one of the names tried on its behalf.
Apart == \A f, g \in File :
  IsPrefix(plan[f], plan[g]) => f = g
OneByOne == config.parallelism = 1
Renames == config.policy \in {"rename-old", "rename-new"}

\* The renaming policies keep what was in the destination, and no policy
\* loses a file of the plan: at every moment, also when the process is
\* killed there, each content stands under some name (or still in the source).
\* Two workers that pick names from each other's reach are left out, and so
\* are an old file that could not be moved aside and, for Overwrite and
\* Prompt, files that share a destination.
NothingLost ==
  /\ Renames /\ (Apart \/ OneByOne) /\ ~overrun => \A n \in old : Kept(n)
  /\ Apart \/ (Renames /\ OneByOne /\ ~overrun) => \A f \in File : f \in src \/ Kept(f)

\* Another file's planned destination is the start of this one's.
Nested(f) == \E g \in File \ {f} : plan[g] # plan[f] /\ IsPrefix(plan[g], plan[f])

\* What is captured from one file can be restored to another, since a target is
\* only a name.  That is so for two workers at once whose names meet: m's metadata
\* stay under the name planned for m, and come to another file of the plan only if
\* this lies under its own there too.  A file that was there before gets them only
\* from a RenameOld that moves it to a name that is m's.
MetadataStayInReach ==
  \A n \in DOMAIN dir : \A m \in {dir[n].mode, dir[n].xattrs} \ {dir[n].data, None} :
    /\ ~OneByOne /\ m \in File /\ IsPrefix(plan[m], n)
    /\ IF dir[n].data \in File THEN IsPrefix(plan[dir[n].data], n)
       ELSE config.policy = "rename-old" /\ Nested(m)

\* When FileCompleted is sent the file stands in the destination with what was
\* to be preserved, and is gone from the source if it was moved.  A move
\* between file systems keeps no extended attributes: its source is gone when
\* they are read.
CompletedIsDelivered ==
  \A f \in File : status[f] = "done" =>
    /\ f \in src <=> config.mode = "copy"
    /\ Apart => \E n \in DOMAIN dir :
         /\ dir[n].data = f
         /\ config.metadata /\ faults = 0 => dir[n].mode = f
         /\ config.xattrs /\ (config.mode = "copy" \/ config.sameFs) /\ faults = 0 =>
              dir[n].xattrs = f

\* No Progress event counts a file that is not delivered, and of the snapshots
\* that race each other one counts them all.
ProgressIsHonest ==
  /\ filesDone = Cardinality({f \in File : status[f] = "done"})
  /\ told <= filesDone
  /\ Quiet => told = filesDone
-----------------------------------------------------------------------------
(* What the repository says of a file, and the code does not do            *)

\* policy.rs:79-81: the caller of unique_path() handles the race for the name
\* it returned.
RenamesKeepAll ==
  Renames => (\A n \in old : Kept(n)) /\ (\A f \in File : f \in src \/ Kept(f))
=============================================================================
