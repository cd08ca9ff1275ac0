--------------------------- MODULE TreeRunProofs ---------------------------
(***************************************************************************)
(* Proofs about TreeRun for every source tree, every order of its          *)
(* directories that has parents first, and any number of failures.         *)
(***************************************************************************)
EXTENDS TreeRun, TLAPS

USE TreeAssumption
-----------------------------------------------------------------------------
(* The inductive invariant                                                 *)

\* What the loops have left, and what is the case in each phase.
PhaseInv ==
  /\ main = "announce" => todo \subseteq Entry
  /\ main \in {"dirs", "prune"} => todo \subseteq Numbers
  /\ main = "links" => todo \subseteq Link
  /\ main = "files" => todo \subseteq File
  /\ main \in {"start", "announce", "plan", "dirs", "links"} => here = Entry
  /\ main \in {"announce", "prune"} => config.mode = "move"
  /\ main \notin {"report", "returned"} => done = NoDone
  /\ main # "returned" => result = "none"

\* The outcome is, or is going to be, success.
Succeeding ==
  \/ main \in {"prune", "report"} /\ errors = 0 /\ ~cancel
  \/ (main = "report" \/ result = "ok") /\ done.success

Delivered(files) ==
  files \subseteq there /\ (config.mode = "move" => here \cap files = {})

\* Files that the pool is through with were delivered or counted.
FilesInv ==
  /\ main = "files" /\ errors = 0 => Delivered(File \ todo)
  /\ Succeeding => Delivered(File)

\* A directory that remove_dir() has been tried on is gone, or holds something
\* that pruning will not take away any more.
Settled(d) ==
  \/ d \notin here
  \/ \E e \in here : /\ e # d /\ Parent[e] = d
                     /\ e \in Dir => \E k \in Numbers \ todo : DirOrder[k] = e

PruneInv ==
  /\ main = "prune" /\ faults = 0 => \A i \in Numbers \ todo : Settled(DirOrder[i])
  /\ main # "prune" /\ Succeeding /\ config.mode = "move" /\ faults = 0 =>
       \A d \in Dir \cap here : ~Empty(d)

IInv == PhaseInv /\ NothingLost /\ FilesInv /\ PruneInv

\* The kinds of entries are disjoint, and entries lie in directories.
LEMMA Kinds ==
  /\ Dir \subseteq Entry /\ File \subseteq Entry /\ Link \subseteq Entry
  /\ Entry = Dir \cup File \cup Link
  /\ Dir \cap (File \cup Link) = {} /\ File \cap Link = {}
  /\ \A e \in Entry : Parent[e] \in Dir
BY DEF TreeAssumption, Dir, File, Link

LEMMA Order ==
  /\ \A i \in Numbers : DirOrder[i] \in Dir
  /\ \A d \in Dir : \E i \in Numbers : DirOrder[i] = d
  /\ \A i, k \in Numbers : DirOrder[i] = DirOrder[k] => i = k
BY DEF TreeAssumption, Numbers
-----------------------------------------------------------------------------
(* Types and phases                                                        *)

LEMMA TypeInit == Init => TypeOK /\ PhaseInv
<1> SUFFICES ASSUME Init PROVE TypeOK /\ PhaseInv
  OBVIOUS
<1>1. done \in [success : BOOLEAN, errors : Nat \cup {-1}] /\ faults \in 0 .. MaxFaults
  BY DEF Init, NoDone, TreeAssumption
<1>2. todo = {} /\ here = Entry /\ there = {} /\ completed = {}
  BY DEF Init
<1>3. TypeOK
  BY <1>1, <1>2 DEF Init, TypeOK
<1> QED
  BY <1>3 DEF Init, PhaseInv

LEMMA TypeFast ==
  TypeOK /\ PhaseInv /\ (Start \/ AnnounceEntry \/ RenameTree \/ Plan \/ CancelledEarly)
    => TypeOK' /\ PhaseInv'
<1> SUFFICES ASSUME TypeOK, PhaseInv,
                    Start \/ AnnounceEntry \/ RenameTree \/ Plan \/ CancelledEarly
             PROVE  TypeOK' /\ PhaseInv'
  OBVIOUS
<1> USE DEF TypeOK, PhaseInv, Goto, Return, Announce, Fault, NoFault, tally, outcome,
            NoDone, TreeAssumption
<1>1. CASE Start
  <2>1. /\ \/ main' = "announce" /\ todo' = Entry /\ config.mode = "move"
           \/ main' = "plan" /\ todo' = {}
        /\ faults' \in 0 .. MaxFaults
        /\ UNCHANGED <<here, there, config, cancel, tally, outcome>>
    BY <1>1 DEF Start, FastPath, SimplePlan
  <2> QED
    BY <1>1, <2>1 DEF Start
<1>2. CASE AnnounceEntry
  <2>1. /\ todo' \subseteq todo /\ completed' \subseteq File
        /\ main = "announce" /\ UNCHANGED <<here, there, config, cancel, errors, faults>>
    BY <1>2 DEF AnnounceEntry
  <2>2. CASE UNCHANGED <<main, outcome>>
    BY <2>1, <2>2
  <2>3. CASE /\ done' = [success |-> FALSE, errors |-> 0]
             /\ main' = "returned" /\ result' = "cancelled"
    <3>1. done' \in [success : BOOLEAN, errors : Nat \cup {-1}]
      BY <2>3
    <3>2. todo' \subseteq Entry
      BY <2>1
    <3>3. TypeOK'
      BY <2>1, <2>3, <3>1, <3>2 DEF TypeOK
    <3> QED
      BY <2>3, <3>3 DEF PhaseInv
  <2> QED
    BY <1>2, <2>2, <2>3 DEF AnnounceEntry
<1>3. CASE RenameTree      BY <1>3 DEF RenameTree
<1>4. CASE Plan            BY <1>4 DEF Plan
<1>5. CASE CancelledEarly  BY <1>5 DEF CancelledEarly, Early
<1> QED
  BY <1>1, <1>2, <1>3, <1>4, <1>5

LEMMA TypeSlow ==
  TypeOK /\ PhaseInv /\ (MakeDir \/ DirsDone \/ CopyLink \/ LinksDone)
    => TypeOK' /\ PhaseInv'
<1> SUFFICES ASSUME TypeOK, PhaseInv, MakeDir \/ DirsDone \/ CopyLink \/ LinksDone
             PROVE  TypeOK' /\ PhaseInv'
  OBVIOUS
<1> USE DEF TypeOK, PhaseInv, Goto, Fault, NoFault, tally, outcome, TreeAssumption
<1>1. CASE MakeDir
  <2>1. there' \subseteq there \cup Dir /\ todo' \subseteq todo
    BY <1>1 DEF MakeDir
  <2>2. faults' \in 0 .. MaxFaults
    BY <1>1 DEF MakeDir
  <2> QED
    BY <1>1, <2>1, <2>2, Kinds DEF MakeDir
<1>2. CASE DirsDone        BY <1>2, Kinds DEF DirsDone
<1>3. CASE CopyLink
  <2>1. there' \subseteq there \cup todo /\ todo' \subseteq todo
    BY <1>3 DEF CopyLink
  <2>2. faults' \in 0 .. MaxFaults
    BY <1>3 DEF CopyLink
  <2> QED
    BY <1>3, <2>1, <2>2, Kinds DEF CopyLink
<1>4. CASE LinksDone       BY <1>4, Kinds DEF LinksDone
<1> QED
  BY <1>1, <1>2, <1>3, <1>4

LEMMA TypeFiles ==
  TypeOK /\ PhaseInv /\ ((\E f \in File : Deliver(f)) \/ FilesDone \/ Prune)
    => TypeOK' /\ PhaseInv'
<1> SUFFICES ASSUME TypeOK, PhaseInv, (\E f \in File : Deliver(f)) \/ FilesDone \/ Prune
             PROVE  TypeOK' /\ PhaseInv'
  OBVIOUS
<1> USE DEF TypeOK, PhaseInv, Goto, Fault, NoFault, tally, outcome, TreeAssumption
<1>1. ASSUME NEW f \in File, Deliver(f) PROVE TypeOK' /\ PhaseInv'
  <2>1. here' \subseteq here /\ there' \subseteq there \cup {f}
        /\ completed' \subseteq completed \cup {f} /\ errors' \in Nat /\ todo' \subseteq todo
    BY <1>1 DEF Deliver
  <2>2. faults' \in 0 .. MaxFaults /\ main = "files"
        /\ UNCHANGED <<main, config, cancel, outcome>>
    BY <1>1 DEF Deliver
  <2>3. todo' \subseteq File /\ File \subseteq Entry /\ f \in Entry
    BY <2>1, <2>2, Kinds
  <2> QED
    BY <2>1, <2>2, <2>3
<1>2. CASE FilesDone       BY <1>2 DEF FilesDone
<1>3. CASE Prune           BY <1>3 DEF Prune
<1> QED
  BY <1>1, <1>2, <1>3

LEMMA TypeEnd ==
  TypeOK /\ PhaseInv /\ (Report \/ ReturnResult \/ CtrlC \/ UNCHANGED vars)
    => TypeOK' /\ PhaseInv'
<1> SUFFICES ASSUME TypeOK, PhaseInv, Report \/ ReturnResult \/ CtrlC \/ UNCHANGED vars
             PROVE  TypeOK' /\ PhaseInv'
  OBVIOUS
<1> USE DEF TypeOK, PhaseInv, Return, Announce, tally, outcome, NoDone
<1>1. CASE Report          BY <1>1 DEF Report
<1>2. CASE ReturnResult    BY <1>2 DEF ReturnResult
<1>3. CASE CtrlC           BY <1>3 DEF CtrlC
<1>4. CASE UNCHANGED vars  BY <1>4 DEF vars
<1> QED
  BY <1>1, <1>2, <1>3, <1>4

LEMMA TypeStep == TypeOK /\ PhaseInv /\ [Next]_vars => TypeOK' /\ PhaseInv'
BY TypeFast, TypeSlow, TypeFiles, TypeEnd DEF Next, Run, Finished
-----------------------------------------------------------------------------
(* Nothing is lost                                                         *)

LEMMA NothingLostInit == Init => NothingLost
<1> SUFFICES ASSUME Init PROVE NothingLost
  OBVIOUS
<1>1. Dir \subseteq here
  BY Kinds DEF Init
<1> QED
  BY <1>1, Kinds DEF Init, NothingLost

\* Steps that change neither tree nor the configuration.
LEMMA NothingLostFrame ==
  NothingLost /\ UNCHANGED <<here, there, config>> => NothingLost'
BY DEF NothingLost

LEMMA NothingLostStep ==
  TypeOK /\ PhaseInv /\ NothingLost /\ [Next]_vars => NothingLost'
<1> SUFFICES ASSUME TypeOK, PhaseInv, NothingLost, [Next]_vars PROVE NothingLost'
  OBVIOUS
<1>1. CASE UNCHANGED <<here, there, config>>
  BY <1>1, NothingLostFrame
<1>2. CASE RenameTree
  <2>1. CASE here' = {} /\ there' = here
    <3>1. here = Entry /\ config' = config /\ config.mode = "move"
      BY <1>2 DEF RenameTree, PhaseInv
    <3>2. \A e \in there' : Parent[e] \in there'
      BY <2>1, <3>1, Kinds
    <3> QED
      BY <2>1, <3>1, <3>2, Kinds DEF NothingLost
  <2> QED
    BY <1>1, <1>2, <2>1 DEF RenameTree
<1>3. CASE MakeDir
  <2>1. PICK d : there' \in {there, there \cup {p \in Dir : \A s \in SUBSET Dir :
                   d \in s /\ (\A x \in s : Parent[x] \in s) => p \in s}}
    BY <1>3 DEF MakeDir
  <2> DEFINE missing == {p \in Dir : \A s \in SUBSET Dir :
                           d \in s /\ (\A x \in s : Parent[x] \in s) => p \in s}
  <2>2. ASSUME NEW p \in missing PROVE Parent[p] \in missing
    <3>1. p \in Dir /\ Parent[p] \in Dir
      BY Kinds
    <3>2. ASSUME NEW s \in SUBSET Dir, d \in s, \A x \in s : Parent[x] \in s
          PROVE  Parent[p] \in s
      BY <3>2
    <3> QED
      BY <3>1, <3>2
  <2> HIDE DEF missing
  <2>3. \A e \in there' : Parent[e] \in there'
    BY <2>1, <2>2 DEF NothingLost, missing
  <2>4. there \subseteq there' /\ here' = here /\ config' = config
    BY <1>3, <2>1 DEF MakeDir
  <2> QED
    BY <2>3, <2>4 DEF NothingLost
<1>4. CASE CopyLink
  <2>1. PICK l \in Link : there' = there \/ (there' = there \cup {l} /\ Parent[l] \in there)
    BY <1>4 DEF CopyLink, PhaseInv
  <2> QED
    BY <1>4, <2>1 DEF CopyLink, NothingLost
<1>5. ASSUME NEW f \in File, Deliver(f) PROVE NothingLost'
  <2>1. CASE UNCHANGED <<here, there>>
    BY <1>1, <1>5, <2>1 DEF Deliver
  <2>2. CASE /\ Parent[f] \in there /\ there' = there \cup {f}
             /\ here' \in {here, here \ {f}}
             /\ config.mode # "move" => here' = here
    <3>1. \A e \in here' : Parent[e] \in here'
      BY <2>2, Kinds DEF NothingLost, TypeOK
    <3> QED
      BY <1>5, <2>2, <3>1 DEF Deliver, NothingLost
  <2> QED
    BY <1>5, <2>1, <2>2 DEF Deliver
<1>6. CASE Prune
  <2>1. CASE here' = here
    BY <1>1, <1>6, <2>1 DEF Prune
  <2>2. CASE \E i \in Numbers : Empty(DirOrder[i]) /\ here' = here \ {DirOrder[i]}
    <3>1. PICK d \in Dir : Empty(d) /\ here' = here \ {d}
      BY <2>2, Order
    <3>2. \A e \in here' : Parent[e] \in here'
      BY <3>1 DEF NothingLost, Empty
    <3>3. File \cup Link \subseteq here' \cup there
      BY <3>1, Kinds DEF NothingLost
    <3>4. config.mode = "move" /\ config' = config /\ there' = there
      BY <1>6 DEF Prune, PhaseInv
    <3> QED
      BY <3>2, <3>3, <3>4 DEF NothingLost
  <2>3. Innermost \subseteq Numbers
    BY <1>6 DEF Innermost, Prune, PhaseInv
  <2> QED
    BY <1>6, <2>1, <2>2, <2>3 DEF Prune
<1> QED
  BY <1>1, <1>2, <1>3, <1>4, <1>5, <1>6 DEF Next, Run, Start, AnnounceEntry, Plan,
     CancelledEarly, DirsDone, LinksDone, FilesDone, Report, ReturnResult, CtrlC,
     Finished, vars
-----------------------------------------------------------------------------
(* What the outcome says of the files                                      *)

LEMMA FilesInit == Init => FilesInv
BY DEF Init, FilesInv, Succeeding, NoDone

\* While files, directories and links are still ahead, nothing has succeeded.
LEMMA NotYet ==
  TypeOK /\ PhaseInv /\ main \notin {"prune", "report", "returned"} => ~Succeeding
BY DEF PhaseInv, Succeeding, NoDone

\* Steps that can only take success away.
LEMMA FilesFrame ==
  ASSUME FilesInv, UNCHANGED <<there, config>>, here' \subseteq here,
         main' # "files" \/ UNCHANGED <<main, todo, errors>>, Succeeding' => Succeeding
  PROVE  FilesInv'
BY DEF FilesInv, Delivered

LEMMA FilesStep ==
  TypeOK /\ PhaseInv /\ FilesInv /\ [Next]_vars => FilesInv'
<1> SUFFICES ASSUME TypeOK, PhaseInv, FilesInv, [Next]_vars PROVE FilesInv'
  OBVIOUS
<1> USE DEF Goto, Return, Announce, Fault, NoFault, tally, outcome
<1>1. CASE Start \/ AnnounceEntry \/ Plan \/ CancelledEarly \/ MakeDir \/ DirsDone \/ CopyLink
  <2>1. main' \notin {"files", "prune", "report"} /\ (done'.success => done' = done)
    BY <1>1 DEF Start, AnnounceEntry, Plan, CancelledEarly, Early, MakeDir, DirsDone, CopyLink
  <2>2. done = NoDone
    BY <1>1 DEF PhaseInv, Start, AnnounceEntry, Plan, CancelledEarly, Early, MakeDir,
                DirsDone, CopyLink
  <2>3. ~Succeeding'
    BY <2>1, <2>2 DEF Succeeding, NoDone
  <2> QED
    BY <2>1, <2>3 DEF FilesInv
<1>2. CASE RenameTree
  <2>1. CASE here' = {} /\ there' = here
    BY <1>2, <2>1, Kinds DEF RenameTree, PhaseInv, FilesInv, Delivered
  <2>2. CASE result' = "error"
    BY <1>2, <2>2 DEF RenameTree, FilesInv, Succeeding
  <2> QED
    BY <1>2, <2>1, <2>2 DEF RenameTree
<1>3. CASE LinksDone
  <2>1. ~Succeeding' /\ main' = "files" /\ todo' = File
    BY <1>3 DEF LinksDone, Succeeding, PhaseInv, NoDone
  <2> QED
    BY <2>1 DEF FilesInv, Delivered
<1>4. ASSUME NEW f \in File, Deliver(f) PROVE FilesInv'
  <2>1. main' = "files" /\ ~Succeeding' /\ config' = config
    BY <1>4 DEF Deliver, Succeeding, PhaseInv, NoDone
  <2>2. CASE errors' # 0
    BY <2>1, <2>2 DEF FilesInv
  <2>3. CASE errors' = 0
    <3>1. errors \in Nat
      BY DEF TypeOK
    <3>2. /\ errors = 0 /\ there' = there \cup {f} /\ todo' = todo \ {f}
          /\ here' = IF config.mode = "move" THEN here \ {f} ELSE here
      BY <1>4, <2>3, <3>1 DEF Deliver
    <3>3. Delivered(File \ todo)
      BY <1>4, <3>2 DEF FilesInv, Deliver
    <3> QED
      BY <2>1, <3>2, <3>3 DEF FilesInv, Delivered
  <2> QED
    BY <2>2, <2>3
<1>5. CASE FilesDone
  <2>1. main' # "files" /\ done' = NoDone /\ UNCHANGED <<here, there, config, cancel, errors>>
    BY <1>5 DEF FilesDone, PhaseInv
  <2>2. ASSUME Succeeding' PROVE Delivered(File)'
    <3>1. errors = 0 /\ ~cancel
      BY <2>1, <2>2 DEF Succeeding, NoDone
    <3>2. Delivered(File \ todo) /\ todo = {}
      BY <1>5, <3>1 DEF FilesDone, FilesInv
    <3> QED
      BY <2>1, <3>2 DEF Delivered
  <2> QED
    BY <2>1, <2>2 DEF FilesInv
<1>6. CASE Prune
  <2>1. /\ here' \subseteq here /\ UNCHANGED <<there, config, cancel, errors, done, result>>
        /\ main = "prune" /\ main' \in {"prune", "report"}
    BY <1>6 DEF Prune
  <2>2. Succeeding' => Succeeding
    BY <2>1 DEF Succeeding, PhaseInv, NoDone
  <2> QED
    BY <2>1, <2>2, FilesFrame
<1>7. CASE Report
  <2>1. /\ main = "report" /\ UNCHANGED <<main, todo, here, there, config, cancel, errors, result>>
        /\ done' = [success |-> errors = 0 /\ ~cancel, errors |-> errors]
    BY <1>7 DEF Report
  <2>2. Succeeding' => Succeeding
    BY <2>1 DEF Succeeding
  <2> QED
    BY <2>1, <2>2, FilesFrame
<1>8. CASE ReturnResult
  <2>1. /\ main = "report" /\ main' = "returned"
        /\ UNCHANGED <<here, there, config, cancel, errors, done>>
    BY <1>8 DEF ReturnResult
  <2>2. Succeeding' => Succeeding
    BY <2>1 DEF Succeeding
  <2> QED
    BY <2>1, <2>2, FilesFrame
<1>9. CASE CtrlC
  <2>1. cancel' /\ UNCHANGED <<main, todo, here, there, config, errors, done, result>>
    BY <1>9 DEF CtrlC
  <2>2. Succeeding' => Succeeding
    BY <2>1 DEF Succeeding
  <2> QED
    BY <2>1, <2>2, FilesFrame
<1>10. CASE UNCHANGED vars
  BY <1>10, FilesFrame DEF vars, Succeeding
<1> QED
  BY <1>1, <1>2, <1>3, <1>4, <1>5, <1>6, <1>7, <1>8, <1>9, <1>10 DEF Next, Run, Finished
-----------------------------------------------------------------------------
(* What pruning leaves                                                     *)

LEMMA PruneInit == Init => PruneInv
BY DEF Init, PruneInv, Succeeding, NoDone

\* Steps outside of the pruning that leave the source as it is.
LEMMA PruneFrame ==
  ASSUME PruneInv, UNCHANGED <<here, config, faults>>, main # "prune", main' # "prune",
         Succeeding' => Succeeding
  PROVE  PruneInv'
BY DEF PruneInv, Empty

\* One directory is removed if it is empty.  What was tried before it is
\* inside it or elsewhere and stays settled.
LEMMA RemoveOne ==
  ASSUME PhaseInv, main = "prune", faults = 0, PruneInv, NEW i \in Innermost,
         todo' = todo \ {i},
         here' = IF Empty(DirOrder[i]) THEN here \ {DirOrder[i]} ELSE here
  PROVE  \A k \in Numbers \ todo' : Settled(DirOrder[k])'
<1> DEFINE d == DirOrder[i]
<1>1. i \in todo /\ i \in Numbers /\ d \in Dir
  BY Order DEF PhaseInv, Innermost
<1>2. ASSUME NEW k \in Numbers \ todo' PROVE Settled(DirOrder[k])'
  <2>1. CASE k # i
    <3>1. Settled(DirOrder[k])
      BY <2>1 DEF PruneInv
    <3>2. CASE DirOrder[k] \notin here
      BY <3>2 DEF Settled
    <3>3. ASSUME NEW e \in here, e # DirOrder[k], Parent[e] = DirOrder[k],
                 e \in Dir => \E j \in Numbers \ todo : DirOrder[j] = e
          PROVE  Settled(DirOrder[k])'
      <4>1. e # d
        BY <1>1, <3>3, Order
      <4>2. e \in here'
        BY <4>1
      <4> QED
        BY <3>3, <4>2 DEF Settled
    <3> QED
      BY <3>1, <3>2, <3>3 DEF Settled
  <2>2. CASE k = i /\ Empty(d)
    BY <2>2 DEF Settled
  <2>3. CASE k = i /\ ~Empty(d)
    <3>1. PICK e \in here : Parent[e] = d /\ e # d
      BY <2>3 DEF Empty
    <3>2. ASSUME e \in Dir PROVE \E j \in Numbers \ todo : DirOrder[j] = e
      <4>1. PICK j \in Numbers : DirOrder[j] = e
        BY <3>2, Order
      <4>2. j \notin todo
        BY <3>1, <4>1 DEF Innermost
      <4> QED
        BY <4>1, <4>2
    <3> QED
      BY <2>3, <3>1, <3>2 DEF Settled
  <2> QED
    BY <2>1, <2>2, <2>3
<1> QED
  BY <1>2

LEMMA PruneStep ==
  TypeOK /\ PhaseInv /\ PruneInv /\ [Next]_vars => PruneInv'
<1> SUFFICES ASSUME TypeOK, PhaseInv, PruneInv, [Next]_vars PROVE PruneInv'
  OBVIOUS
<1> USE DEF Goto, Return, Announce, tally, outcome
<1>1. CASE \/ Start \/ AnnounceEntry \/ Plan \/ CancelledEarly \/ MakeDir \/ DirsDone
           \/ CopyLink \/ LinksDone \/ \E f \in File : Deliver(f)
  <2>1. main' \notin {"prune", "report"} /\ (done'.success => done' = done)
    BY <1>1 DEF Start, AnnounceEntry, Plan, CancelledEarly, Early, MakeDir, DirsDone,
                CopyLink, LinksDone, Deliver
  <2>2. done = NoDone
    BY <1>1 DEF PhaseInv, Start, AnnounceEntry, Plan, CancelledEarly, Early, MakeDir,
                DirsDone, CopyLink, LinksDone, Deliver
  <2>3. ~Succeeding'
    BY <2>1, <2>2 DEF Succeeding, NoDone
  <2> QED
    BY <2>1, <2>3 DEF PruneInv
<1>2. CASE RenameTree
  <2>1. CASE here' = {}
    BY <1>2, <2>1 DEF RenameTree, PruneInv
  <2>2. CASE result' = "error"
    BY <1>2, <2>2 DEF RenameTree, PruneInv, Succeeding
  <2> QED
    BY <1>2, <2>1, <2>2 DEF RenameTree
<1>3. CASE FilesDone
  <2>1. \/ main' = "prune" /\ todo' = Numbers
        \/ main' = "report" /\ config.mode # "move" /\ config' = config
    BY <1>3 DEF FilesDone
  <2> QED
    BY <2>1 DEF PruneInv
<1>4. CASE Prune
  <2>1. /\ main = "prune" /\ UNCHANGED <<config, cancel, errors, done, result>>
        /\ done = NoDone
    BY <1>4 DEF Prune, PhaseInv
  <2>2. CASE todo = {} \/ cancel
    <3>1. main' = "report" /\ UNCHANGED <<here, faults>>
      BY <1>4, <2>2 DEF Prune, NoFault
    <3>2. ASSUME Succeeding', faults = 0 PROVE \A d \in Dir \cap here : ~Empty(d)
      <4>1. todo = {}
        BY <2>1, <2>2, <3>2 DEF Succeeding, NoDone
      <4>2. \A d \in Dir : Settled(d)
        BY <2>1, <3>2, <4>1, Order DEF PruneInv
      <4> QED
        BY <4>2 DEF Settled, Empty
    <3> QED
      BY <3>1, <3>2 DEF PruneInv, Empty
  <2>3. CASE todo # {} /\ ~cancel
    <3>1. main' = "prune"
      BY <1>4, <2>1, <2>3 DEF Prune
    <3>2. ASSUME faults' = 0 PROVE \A k \in Numbers \ todo' : Settled(DirOrder[k])'
      <4>1. faults \in Nat
        BY DEF TypeOK, TreeAssumption
      <4>2. PICK i \in Innermost :
              /\ todo' = todo \ {i}
              /\ here' = IF Empty(DirOrder[i]) THEN here \ {DirOrder[i]} ELSE here
              /\ faults = 0
        BY <1>4, <2>3, <3>2, <4>1 DEF Prune, Fault, NoFault
      <4> QED
        BY <2>1, <4>2, RemoveOne
    <3> QED
      BY <3>1, <3>2 DEF PruneInv
  <2> QED
    BY <2>2, <2>3
<1>5. CASE Report
  <2>1. /\ main = "report" /\ UNCHANGED <<main, here, config, faults, cancel, errors, result>>
        /\ done' = [success |-> errors = 0 /\ ~cancel, errors |-> errors]
    BY <1>5 DEF Report
  <2>2. Succeeding' => Succeeding
    BY <2>1 DEF Succeeding
  <2> QED
    BY <2>1, <2>2, PruneFrame
<1>6. CASE ReturnResult
  <2>1. /\ main = "report" /\ main' = "returned"
        /\ UNCHANGED <<here, config, faults, cancel, errors, done>>
    BY <1>6 DEF ReturnResult
  <2>2. Succeeding' => Succeeding
    BY <2>1 DEF Succeeding
  <2> QED
    BY <2>1, <2>2, PruneFrame
<1>7. CASE CtrlC \/ UNCHANGED vars
  <2>1. /\ UNCHANGED <<main, todo, here, config, faults, errors, done, result>>
        /\ cancel => cancel'
    BY <1>7 DEF CtrlC, vars
  <2>2. Succeeding' => Succeeding
    BY <2>1 DEF Succeeding
  <2> QED
    BY <2>1, <2>2 DEF PruneInv, Settled, Empty
<1> QED
  BY <1>1, <1>2, <1>3, <1>4, <1>5, <1>6, <1>7 DEF Next, Run, Finished
-----------------------------------------------------------------------------
(* The theorems                                                            *)

LEMMA InvInit == Init => TypeOK /\ IInv
BY TypeInit, NothingLostInit, FilesInit, PruneInit DEF IInv

LEMMA InvStep == TypeOK /\ IInv /\ [Next]_vars => TypeOK' /\ IInv'
BY TypeStep, NothingLostStep, FilesStep, PruneStep DEF IInv

\* The variables keep their types: what a loop of run() has left is always
\* part of the plan.
THEOREM TypeCorrect == Spec => []TypeOK
<1> QED
  BY InvInit, InvStep, PTL DEF Spec

\* The parts of the inductive invariant hold in every reachable state.
THEOREM InvariantHolds == Spec => []IInv
<1> QED
  BY InvInit, InvStep, PTL DEF Spec

\* At no moment of a run, however it fails or is cancelled, is a file or a
\* link in neither tree; pruning removes no directory that holds something,
\* and a copy leaves the source alone.
THEOREM NothingLostHolds == Spec => []NothingLost
<1>1. IInv => NothingLost
  BY DEF IInv
<1> QED
  BY <1>1, InvariantHolds, PTL

\* A run that announces success has delivered every file, and after a move
\* without failures no empty directory is left in the source: for any tree,
\* because directories are removed from the inside out.
THEOREM SuccessMeansMovedHolds == Spec => []SuccessMeansMoved
<1>1. TypeOK /\ IInv => SuccessMeansMoved
  <2> SUFFICES ASSUME TypeOK, IInv, result = "ok", done.success
               PROVE  /\ File \subseteq there
                      /\ config.mode = "move" => here \cap File = {}
                      /\ config.mode = "move" /\ faults = 0 =>
                           \A x \in here : x \in Link \/ ~Empty(x)
    BY DEF SuccessMeansMoved
  <2>1. Succeeding /\ main # "prune"
    BY DEF Succeeding, IInv, PhaseInv
  <2>2. Delivered(File)
    BY <2>1 DEF IInv, FilesInv
  <2>3. config.mode = "move" /\ faults = 0 => \A d \in Dir \cap here : ~Empty(d)
    BY <2>1 DEF IInv, PruneInv
  <2>4. here \subseteq Dir \cup File \cup Link
    BY Kinds DEF TypeOK
  <2> QED
    BY <2>2, <2>3, <2>4 DEF Delivered
<1> QED
  BY <1>1, TypeCorrect, InvariantHolds, PTL
=============================================================================
