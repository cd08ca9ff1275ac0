------------------------------ MODULE TreeRun ------------------------------
(***************************************************************************)
(* Engine::run on a source tree as a whole: the fast path of a move (one   *)
(* rename of the source directory, announced file by file beforehand), and *)
(* the slow path with its phases: plan, directories, symlinks, files,      *)
(* pruning of the source.  The pool that moves the files is module         *)
(* Pipeline and each single move module Transfer; here a file is delivered *)
(* or fails in one step, in any order.                                     *)
(*                                                                         *)
(* Entry is the plan, the root of the source included.  The conflict       *)
(* policy is Overwrite and symlinks are preserved.                         *)
(***************************************************************************)
EXTENDS Integers, Sequences, FiniteSets

CONSTANTS
  Entry,        \* the entries of the source tree
  Kind,         \* "dir", "file" or "link"
  Parent,       \* the directory of each entry; the root is its own
  Root,         \* the source directory
  DirOrder,     \* the directories, sorted by destination
  Configs,      \* modes, file systems, and what stands at the destination
  MaxFaults     \* bound: system calls that fail

Dir == {e \in Entry : Kind[e] = "dir"}
File == {e \in Entry : Kind[e] = "file"}
Link == {e \in Entry : Kind[e] = "link"}

ASSUME TreeAssumption ==
  /\ IsFiniteSet(Entry) /\ Kind \in [Entry -> {"dir", "file", "link"}]
  /\ Parent \in [Entry -> Dir] /\ Root \in Dir /\ Parent[Root] = Root
  /\ DirOrder \in Seq(Dir) /\ {DirOrder[i] : i \in DOMAIN DirOrder} = Dir
  /\ \A i, k \in DOMAIN DirOrder :   \* parents first, and nothing twice
       /\ DirOrder[i] = DirOrder[k] => i = k
       /\ DirOrder[i] = Parent[DirOrder[k]] => i <= k
  /\ Configs \subseteq [mode : {"copy", "move"}, sameFs : BOOLEAN, taken : BOOLEAN,
                        dest : {"absent", "relative", "orphan", "dir", "file"}]
  /\ MaxFaults \in Nat

VARIABLES
  main,         \* where run() is
  todo,         \* what its loop has left: entries, or numbers of directories
  here,         \* the entries that are in the source tree
  there,        \* the entries that are in the destination tree
  config,       \* mode, same file system, what the destination is, and whether
                \* it has a non-empty directory of the source's name; nothing is
                \* at a destination that is "absent", "relative" (a bare name) or
                \* an "orphan" (its parent is missing)
  cancel,       \* the cancel flag
  completed,    \* the files FileCompleted was sent for
  errors,       \* the error counter
  faults,       \* system calls that have failed so far
  done,         \* the Done event, or NoDone
  result        \* what run() returned, or "none"

vars == <<main, todo, here, there, config, cancel, completed, errors, faults,
          done, result>>
outcome == <<done, result>>
tally == <<completed, errors>>

NoDone == [success |-> FALSE, errors |-> -1]

Init ==
  /\ main = "start" /\ todo = {}
  /\ here = Entry /\ there = {}
  /\ config \in Configs
  /\ cancel = FALSE
  /\ completed = {} /\ errors = 0 /\ faults = 0
  /\ done = NoDone /\ result = "none"

Fault == faults < MaxFaults /\ faults' = faults + 1
NoFault == UNCHANGED faults
Announce(success, n) == done' = [success |-> success, errors |-> n]
Return(r) == main' = "returned" /\ result' = r
Goto(where, left) == main' = where /\ todo' = left
Numbers == DOMAIN DirOrder
-----------------------------------------------------------------------------
(* try_whole_tree_rename                                                   *)

\* build_simple_plan(): a walk of the source tree that follows no link.
SimplePlan == Entry

\* The fast path is for a move on one file system onto nothing or into a
\* directory.  A destination whose parent has no metadata passes for one on the
\* same file system: that of a bare name is "".
FastPath ==
  /\ config.mode = "move" /\ config.dest # "file"
  /\ config.sameFs \/ config.dest \in {"relative", "orphan"}

\* If the source cannot be walked, the fast path does not apply either.
Start ==
  /\ main = "start"
  /\ \/ FastPath /\ Goto("announce", SimplePlan) /\ NoFault
     \/ FastPath /\ Goto("plan", {}) /\ Fault
     \/ ~FastPath /\ Goto("plan", {}) /\ NoFault
  /\ UNCHANGED <<here, there, config, cancel, tally, outcome>>

\* Mutant: directories and links are announced like files.
AnnounceAnyEntry ==
  /\ main = "announce" /\ todo # {}
  /\ IF cancel
       THEN Announce(FALSE, 0) /\ Return("cancelled") /\ UNCHANGED <<todo, completed>>
       ELSE /\ \E e \in todo : todo' = todo \ {e} /\ completed' = completed \cup {e}
            /\ UNCHANGED <<main, outcome>>
  /\ UNCHANGED <<here, there, config, cancel, errors, faults>>

\* Each file is announced as completed before anything is done; a cancel in
\* between is a Done without success.
AnnounceEntry ==
  /\ main = "announce" /\ todo # {}
  /\ IF cancel
       THEN Announce(FALSE, 0) /\ Return("cancelled") /\ UNCHANGED <<todo, completed>>
       ELSE /\ \E e \in todo :
                 todo' = todo \ {e} /\ completed' = completed \cup ({e} \cap File)
            /\ UNCHANGED <<main, outcome>>
  /\ UNCHANGED <<here, there, config, cancel, errors, faults>>

\* rename() refuses another file system, a parent that is missing, and a
\* directory that holds something.
CanRename ==
  config.sameFs /\ config.dest # "orphan" /\ ~(config.dest = "dir" /\ config.taken)

\* The rename takes the whole tree or nothing.  One that fails is Done with
\* success and no errors, and the error is returned.
RenameTree ==
  /\ main = "announce" /\ todo = {}
  /\ \/ /\ CanRename
        /\ here' = {} /\ there' = here
        /\ Return("ok") /\ NoFault
     \/ /\ ~CanRename
        /\ Return("error") /\ NoFault /\ UNCHANGED <<here, there>>
     \/ Return("error") /\ Fault /\ UNCHANGED <<here, there>>
  /\ Announce(TRUE, 0)
  /\ UNCHANGED <<todo, config, cancel, tally>>
-----------------------------------------------------------------------------
(* The slow path                                                           *)

\* Whoever plans meets no error, or run() returns it and announces nothing.
Plan ==
  /\ main = "plan"
  /\ \/ Goto("dirs", Numbers) /\ NoFault /\ UNCHANGED result
     \/ Return("error") /\ Fault /\ UNCHANGED todo
  /\ UNCHANGED <<here, there, config, cancel, tally, done>>

First(s) == CHOOSE i \in s : \A k \in s : i <= k
Early == main \in {"dirs", "links"}

\* A cancel ends the first two loops with no Done event.
CancelledEarly ==
  /\ Early /\ todo # {} /\ cancel
  /\ Return("cancelled")
  /\ UNCHANGED <<todo, here, there, config, cancel, tally, faults, done>>

\* create_dir_all() creates the parents that are missing as well.
MakeDir ==
  /\ main = "dirs" /\ todo # {} /\ ~cancel
  /\ todo' = todo \ {First(todo)}
  /\ LET d == DirOrder[First(todo)]
         missing == {p \in Dir : \A s \in SUBSET Dir :   \* d and what it is in
                       d \in s /\ (\A x \in s : Parent[x] \in s) => p \in s}
     IN \/ config.dest # "file" /\ there' = there \cup missing /\ NoFault
        \/ config.dest = "file" /\ UNCHANGED there /\ NoFault
        \/ Fault /\ UNCHANGED there
  /\ UNCHANGED <<main, here, config, cancel, tally, outcome>>

DirsDone ==
  /\ main = "dirs" /\ todo = {}
  /\ Goto("links", Link)
  /\ UNCHANGED <<here, there, config, cancel, tally, faults, outcome>>

\* copy_symlink(): the link of the source stays, also in a move.
CopyLink ==
  /\ main = "links" /\ ~cancel
  /\ \E l \in todo :
       /\ todo' = todo \ {l}
       /\ \/ Parent[l] \in there /\ there' = there \cup {l} /\ NoFault
          \/ Parent[l] \notin there /\ UNCHANGED there /\ NoFault
          \/ Fault /\ UNCHANGED there
  /\ UNCHANGED <<main, here, config, cancel, tally, outcome>>

LinksDone ==
  /\ main = "links" /\ todo = {}
  /\ Goto("files", File)
  /\ UNCHANGED <<here, there, config, cancel, tally, faults, outcome>>

\* The pool is through with a file: delivered, failed where it is, or failed
\* after its move: a rename whose result cannot be read back, or a copy whose
\* source cannot be unlinked.
Deliver(f) ==
  /\ main = "files" /\ f \in todo
  /\ todo' = todo \ {f}
  /\ \/ /\ Parent[f] \in there /\ NoFault
        /\ there' = there \cup {f}
        /\ here' = IF config.mode = "move" THEN here \ {f} ELSE here
        /\ completed' = completed \cup {f}
        /\ UNCHANGED errors
     \/ /\ Parent[f] \notin there /\ NoFault
        /\ errors' = errors + 1 /\ UNCHANGED <<here, there, completed>>
     \/ /\ Fault
        /\ errors' = errors + 1 /\ UNCHANGED <<here, there, completed>>
     \/ /\ config.mode = "move" /\ Parent[f] \in there /\ Fault
        /\ there' = there \cup {f}
        /\ here' \in {IF config.sameFs THEN here \ {f} ELSE here, here}
        /\ errors' = errors + 1 /\ UNCHANGED completed
  /\ UNCHANGED <<main, config, cancel, outcome>>

\* The pool is through with the plan, or cancelled: a move is followed by the
\* pruning of the source.
FilesDone ==
  /\ main = "files" /\ (todo = {} \/ cancel)
  /\ IF config.mode = "move" THEN Goto("prune", Numbers) ELSE Goto("report", {})
  /\ UNCHANGED <<here, there, config, cancel, tally, faults, outcome>>

Empty(d) == \A e \in here : Parent[e] = d => e = d

\* A longer path first: directories are longer than what they are in.
Innermost == {i \in todo : \A k \in todo : Parent[DirOrder[k]] = DirOrder[i] => k = i}

\* Mutant: remove_dir_all().
PruneAll ==
  /\ main = "prune"
  /\ IF todo = {} \/ cancel
       THEN Goto("report", {}) /\ UNCHANGED here
       ELSE \E i \in Innermost :
            /\ todo' = todo \ {i}
            /\ here' = {x \in here : DirOrder[i] \notin {x, Parent[x]}}
            /\ UNCHANGED main
  /\ NoFault /\ UNCHANGED <<there, config, cancel, tally, outcome>>

\* Mutant: the directories in the order they were created in.
PruneOuterFirst ==
  /\ main = "prune"
  /\ IF todo = {} \/ cancel
       THEN Goto("report", {}) /\ UNCHANGED here
       ELSE /\ todo' = todo \ {First(todo)}
            /\ here' = IF Empty(DirOrder[First(todo)]) THEN here \ {DirOrder[First(todo)]}
                       ELSE here
            /\ UNCHANGED main
  /\ NoFault /\ UNCHANGED <<there, config, cancel, tally, outcome>>

\* remove_dir() of each directory; one that still holds something stays.
Prune ==
  /\ main = "prune"
  /\ IF todo = {} \/ cancel
       THEN Goto("report", {}) /\ NoFault /\ UNCHANGED here
       ELSE \E i \in Innermost :
            /\ todo' = todo \ {i}
            /\ \/ /\ here' = IF Empty(DirOrder[i]) THEN here \ {DirOrder[i]} ELSE here
                  /\ NoFault
               \/ Fault /\ UNCHANGED here
            /\ UNCHANGED main
  /\ UNCHANGED <<there, config, cancel, tally, outcome>>

Report ==
  /\ main = "report" /\ done = NoDone
  /\ Announce(errors = 0 /\ ~cancel, errors)
  /\ UNCHANGED <<main, todo, here, there, config, cancel, tally, faults, result>>

ReturnResult ==
  /\ main = "report" /\ done # NoDone
  /\ Return(IF ~done.success /\ cancel THEN "cancelled" ELSE "ok")
  /\ UNCHANGED <<todo, here, there, config, cancel, tally, faults, done>>

CtrlC ==
  /\ main # "returned" /\ ~cancel
  /\ cancel' = TRUE
  /\ UNCHANGED <<main, todo, here, there, config, tally, faults, outcome>>

Finished == main = "returned" /\ UNCHANGED vars

Run ==
  \/ Start \/ AnnounceEntry \/ RenameTree
  \/ Plan \/ CancelledEarly \/ MakeDir \/ DirsDone \/ CopyLink \/ LinksDone
  \/ (\E f \in File : Deliver(f)) \/ FilesDone \/ Prune \/ Report \/ ReturnResult

Next == Run \/ CtrlC \/ Finished

Spec == Init /\ [][Next]_vars
-----------------------------------------------------------------------------
TypeOK ==
  /\ main \in {"start", "announce", "plan", "dirs", "links", "files", "prune",
               "report", "returned"}
  /\ todo \subseteq Entry \/ todo \subseteq Numbers
  /\ here \subseteq Entry /\ there \subseteq Entry
  /\ config \in Configs /\ cancel \in BOOLEAN
  /\ completed \subseteq File /\ errors \in Nat /\ faults \in 0 .. MaxFaults
  /\ done \in [success : BOOLEAN, errors : Nat \cup {-1}]
  /\ result \in {"none", "ok", "cancelled", "error"}

\* No file and no link is ever in neither tree, and what is in a tree is in a
\* directory of that tree: pruning takes nothing away that was not delivered.
\* A copy takes nothing away at all.
NothingLost ==
  /\ File \cup Link \subseteq here \cup there
  /\ \A e \in here : Parent[e] \in here
  /\ \A e \in there : Parent[e] \in there
  /\ config.mode = "copy" => here = Entry

\* A move that announces success and returns Ok has delivered every file; and
\* if nothing failed, the source holds only links and what they are in: the
\* directories are pruned in an order in which the inner ones come first.
SuccessMeansMoved ==
  result = "ok" /\ done.success =>
    /\ File \subseteq there
    /\ config.mode = "move" => here \cap File = {}
    /\ config.mode = "move" /\ faults = 0 => \A x \in here : x \in Link \/ ~Empty(x)
-----------------------------------------------------------------------------
(* What the repository says of a run, and the code does not do             *)

\* event.rs:83: FileCompleted says that a file finished.
CompletedAreDelivered == main = "returned" => completed \subseteq there
=============================================================================
