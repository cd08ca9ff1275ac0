--------------------------- MODULE DeliveryProofs ---------------------------
(***************************************************************************)
(* Proofs about Delivery for every set of files, destinations, old names,  *)
(* configurations and workers, and every number of faults and launches.    *)
(***************************************************************************)
EXTENDS Delivery, FiniteSetTheorems, SequenceTheorems, TLAPS

USE DeliveryAssumption
-----------------------------------------------------------------------------
(* The inductive invariant                                                 *)

Exclusive == Apart \/ OneByOne
Holding == {"unlink", "restore", "xattrs", "count"}

\* A worker that is not idle has a file.
CurInv == \A w \in Worker : cur[w] = None <=> pc[w] = "idle"

\* A worker's place, its file and that file's status belong together; the
\* target starts with the planned name.
PlaceOf(w) ==
  /\ pc[w] # "idle" =>
       /\ status[cur[w]] = IF pc[w] \in {"load", "send"} THEN "done" ELSE "busy"
       /\ IsPrefix(plan[cur[w]], target[w])
  /\ snap[w] \in {cur[w], None}
  /\ pc[w] = "unlink" => config.mode = "move"
  /\ pc[w] = "asking" => config.policy = "prompt"
  /\ pc[w] = "try" => Renames
  /\ pc[w] \in {"exists", "aside"} => config.policy = "rename-old"
  /\ pc[w] # "idle" /\ config.policy = "rename-old" => target[w] = plan[cur[w]]

\* Two workers are never on one file, and with parallelism 1 there are no two.
AloneInv ==
  \A v, w \in Worker : v # w /\ pc[v] # "idle" =>
    cur[v] # cur[w] /\ (OneByOne => pc[w] = "idle")

WorkInv == AloneInv /\ \A w \in Worker : PlaceOf(w)

\* A file lies under the name planned for it, or one tried on its behalf.
LyingInv ==
  \A n \in DOMAIN dir : dir[n].data \in File => IsPrefix(plan[dir[n].data], n)

\* Until a worker has restored the metadata, what stands at its target is a file of
\* the plan, or an old one that was moved there.
ThereOf(w) ==
  pc[w] \in {"unlink", "restore", "xattrs"} /\ Exists(target[w]) =>
    dir[target[w]].data \in File \/ (config.policy = "rename-old" /\ Nested(cur[w]))
ThereInv == \A w \in Worker : ThereOf(w)

\* Where nobody else may take it, the name a worker has found free stays free.
FreeOf(w) ==
  /\ pc[w] = "aside" => ~Exists(Candidate(target[w], suffix[w]))
  /\ Renames /\ ~overrun /\ pc[w] \in {"start", "transfer"} => ~Exists(target[w])
FreeInv == Exclusive => \A w \in Worker : FreeOf(w)

\* ... and what it has published there stays.
HoldOf(w) ==
  pc[w] \in Holding => Exists(target[w]) /\ dir[target[w]].data = cur[w]
HoldInv == Exclusive => \A w \in Worker : HoldOf(w)

\* A copy leaves the source alone; a move has removed a file before it goes on
\* to the metadata.
SourceInv ==
  /\ config.mode = "copy" => src = File
  /\ config.mode = "move" =>
       /\ \A w \in Worker :
            pc[w] \in {"restore", "xattrs", "count", "load", "send"} => cur[w] \notin src
       /\ \A f \in File : status[f] = "done" => f \notin src

KeepsMode == config.metadata /\ faults = 0
KeepsXattrs == config.xattrs /\ (config.mode = "copy" \/ config.sameFs) /\ faults = 0
HasXattrs == IF config.mode = "move" THEN {"restore", "xattrs", "count"} ELSE {"count"}

\* What has been preserved so far, at each place after the transfer.
AttrOf(w) ==
  /\ KeepsMode /\ pc[w] \in {"transfer", "unlink", "restore"} => snap[w] = cur[w]
  /\ KeepsMode /\ pc[w] \in {"xattrs", "count"} => dir[target[w]].mode = cur[w]
  /\ KeepsXattrs /\ pc[w] \in HasXattrs => dir[target[w]].xattrs = cur[w]
  /\ pc[w] = "unlink" => ~KeepsXattrs
AttrInv == Apart => \A w \in Worker : AttrOf(w)

Delivered(f) == \E n \in DOMAIN dir :
  /\ dir[n].data = f
  /\ KeepsMode => dir[n].mode = f
  /\ KeepsXattrs => dir[n].xattrs = f
DeliveredInv == Apart => \A f \in File : status[f] = "done" => Delivered(f)

\* Whose metadata an entry may have.
Fits(n, d, m) ==
  m \in {d, None} \/
    /\ ~OneByOne /\ m \in File /\ IsPrefix(plan[m], n)
    /\ IF d \in File THEN IsPrefix(plan[d], n)
       ELSE config.policy = "rename-old" /\ Nested(m)
FitsInv == \A n \in DOMAIN dir : Fits(n, dir[n].data, dir[n].mode)
                                 /\ Fits(n, dir[n].data, dir[n].xattrs)

\* The snapshot that counts everything is still on its way, or was sent.
SnapshotInv ==
  /\ \A w \in Worker : seen[w] <= filesDone
  /\ told <= filesDone
  /\ told < filesDone => \E w \in Worker :
       pc[w] = "load" \/ (pc[w] = "send" /\ seen[w] = filesDone)

CountInv == filesDone = Cardinality({f \in File : status[f] = "done"})

IInv == /\ WorkInv /\ LyingInv /\ ThereInv /\ FreeInv /\ HoldInv
        /\ SourceInv /\ AttrInv /\ DeliveredInv
        /\ SnapshotInv /\ CountInv
        /\ NothingLost /\ FitsInv
-----------------------------------------------------------------------------
(* Names                                                                   *)

LEMMA PrefixElements ==
  ASSUME NEW s \in Name, NEW t \in Name
  PROVE  IsPrefix(s, t) <=> Len(s) <= Len(t) /\ \A i \in 1 .. Len(s) : s[i] = t[i]
<1>1. Len(s) \in Nat /\ Len(t) \in Nat
  BY DEF Name
<1>2. ASSUME Len(s) <= Len(t)
      PROVE  SubSeq(s, 1, Len(s)) = SubSeq(t, 1, Len(s)) <=>
               \A i \in 1 .. Len(s) : s[i] = t[i]
  <2>1. \A i \in 1 .. Len(s) : s[i] \in Nat /\ t[i] \in Nat
    BY <1>1, <1>2 DEF Name
  <2>2. /\ SubSeq(s, 1, Len(s)) \in Seq(Nat) /\ SubSeq(t, 1, Len(s)) \in Seq(Nat)
        /\ Len(SubSeq(s, 1, Len(s))) = Len(s) /\ Len(SubSeq(t, 1, Len(s))) = Len(s)
        /\ \A i \in 1 .. Len(s) :
             SubSeq(s, 1, Len(s))[i] = s[i] /\ SubSeq(t, 1, Len(s))[i] = t[i]
    BY <1>1, <2>1, SubSeqProperties
  <2> QED
    BY <2>2, SeqEqual
<1> QED
  BY <1>2 DEF IsPrefix

\* Two prefixes of one name are prefixes of each other.
LEMMA PrefixesMeet ==
  ASSUME NEW p \in Name, NEW q \in Name, NEW n \in Name, IsPrefix(p, n), IsPrefix(q, n)
  PROVE  IsPrefix(p, q) \/ IsPrefix(q, p)
<1>1. Len(p) \in Nat /\ Len(q) \in Nat /\ Len(n) \in Nat
  BY DEF Name
<1>2. /\ \A i \in 1 .. Len(p) : p[i] = n[i]
      /\ \A i \in 1 .. Len(q) : q[i] = n[i]
  BY PrefixElements
<1>3. CASE Len(p) <= Len(q)
  BY <1>1, <1>2, <1>3, PrefixElements
<1>4. CASE Len(q) <= Len(p)
  BY <1>1, <1>2, <1>4, PrefixElements
<1> QED
  BY <1>1, <1>3, <1>4

LEMMA PrefixSelf == ASSUME NEW p \in Name PROVE IsPrefix(p, p)
BY PrefixElements DEF Name

LEMMA CandidateName ==
  ASSUME NEW n \in Name, NEW k \in Nat
  PROVE  /\ Candidate(n, k) \in Name /\ Candidate(n, k) # n
         /\ \A p \in Name : IsPrefix(p, n) => IsPrefix(p, Candidate(n, k))
<1>1. /\ Candidate(n, k) \in Name /\ Len(Candidate(n, k)) = Len(n) + 1
      /\ \A i \in 1 .. Len(n) : Candidate(n, k)[i] = n[i]
      /\ Len(n) \in Nat
  BY DEF Name, Candidate
<1>2. ASSUME NEW p \in Name, IsPrefix(p, n) PROVE IsPrefix(p, Candidate(n, k))
  <2>1. Len(p) \in Nat /\ Len(p) <= Len(n) /\ \A i \in 1 .. Len(p) : p[i] = n[i]
    BY <1>2, PrefixElements DEF Name
  <2>2. Len(p) <= Len(Candidate(n, k)) /\ \A i \in 1 .. Len(p) : p[i] = Candidate(n, k)[i]
    BY <1>1, <2>1
  <2> QED
    BY <1>1, <2>2, PrefixElements
<1> QED
  BY <1>1, <1>2
-----------------------------------------------------------------------------
(* Types                                                                   *)

TypeInv == TypeOK /\ CurInv

\* The parts of TypeOK, for the steps that disturb few of them.
LEMMA GivenTypes ==
  ASSUME TypeOK
  PROVE  /\ \A f \in File : plan[f] \in Name
         /\ old \subseteq Name
         /\ config.mode \in {"copy", "move"} /\ config.sameFs \in BOOLEAN
         /\ config.metadata \in BOOLEAN /\ config.xattrs \in BOOLEAN
         /\ config.parallelism \in Nat
<1>1. config \in Configs /\ plan \in Plans /\ old \in Olds
  BY DEF TypeOK
<1>2. Cardinality(Worker) \in Nat
  BY FS_CardinalityType
<1> QED
  BY <1>1, <1>2

EntryType == [data : Owner, mode : Owner \cup {None}, xattrs : Owner \cup {None}]
DirType == \A n \in DOMAIN dir : n \in Name /\ dir[n] \in EntryType

LEMMA PutType ==
  ASSUME DirType, NEW n \in Name, NEW e \in EntryType, Put(n, e)
  PROVE  DirType'
BY DEF DirType, Put

LEMMA TypeInit == Init => TypeInv
<1> SUFFICES ASSUME Init PROVE TypeInv
  OBVIOUS
<1>1. old \subseteq Name
  BY DEF Init
<1>2. <<>> \in Name
  BY DEF Name
<1>3. \A n \in DOMAIN dir : n \in Name /\ dir[n] \in EntryType
  BY <1>1 DEF Init, EntryType, Owner
<1>4. suffix \in [Worker -> 0 .. MaxSuffix] /\ launches \in 1 .. MaxLaunches
  BY DEF Init, All
<1>5. /\ pc = [w \in Worker |-> "idle"] /\ cur = [w \in Worker |-> None]
      /\ target \in [Worker -> Name] /\ snap \in [Worker -> File \cup {None}]
      /\ seen \in [Worker -> Nat]
  BY <1>2 DEF Init, All
<1>6. CurInv
  BY <1>5 DEF CurInv
<1>7. /\ config \in Configs /\ plan \in Plans /\ old \in Olds /\ src \subseteq File
      /\ filesDone = 0 /\ told = 0 /\ faults \in 0 .. MaxFaults
      /\ status \in [File -> {"todo", "busy", "done", "skipped", "failed", "absent"}]
  BY DEF Init
<1>8. overrun \in BOOLEAN
  BY DEF Init
<1> QED
  BY <1>3, <1>4, <1>5, <1>6, <1>7, <1>8 DEF TypeInv, TypeOK, EntryType

LEMMA TypeDir ==
  ASSUME TypeInv, NEW w \in Worker, ProcessFile(w)
  PROVE  DirType'
<1> USE DEF TypeInv, TypeOK, At, EntryType, Owner
<1>1. DirType
  BY DEF DirType
<1>2. CASE UNCHANGED dir
  BY <1>1, <1>2 DEF DirType
<1>3. CASE Aside(w)
  <2>1. Candidate(target[w], suffix[w]) \in Name
    BY CandidateName
  <2>2. CASE Exists(target[w]) /\ dir' = [n \in (DOMAIN dir \ {target[w]})
                                           \cup {Candidate(target[w], suffix[w])} |->
               IF n = Candidate(target[w], suffix[w]) THEN dir[target[w]] ELSE dir[n]]
    BY <1>1, <2>1, <2>2 DEF DirType, Exists
  <2> QED
    BY <1>2, <1>3, <2>2 DEF Aside
<1>4. CASE TransferRename(w) \/ TransferCopy(w) \/ TransferFail(w)
  <2>1. cur[w] \in File
    BY <1>4 DEF TransferRename, TransferCopy, TransferFail, CurInv
  <2>2. New(cur[w]) \in EntryType /\ Moved(cur[w]) \in EntryType
    BY <2>1 DEF New, Moved
  <2>3. UNCHANGED dir \/ Put(target[w], New(cur[w])) \/ Put(target[w], Moved(cur[w]))
    BY <1>4 DEF TransferRename, TransferCopy, TransferFail
  <2> HIDE DEF EntryType
  <2> QED
    BY <1>1, <1>2, <2>2, <2>3, PutType
<1>5. CASE Restore(w) \/ CopyXattrs(w)
  <2>1. CASE UNCHANGED dir
    BY <1>2, <2>1
  <2>2. CASE ~UNCHANGED dir
    <3>1. \E e \in EntryType : Put(target[w], e)
      <4>1. CASE Restore(w)
        <5>1. /\ snap[w] \in File /\ dir[target[w]] \in EntryType
              /\ Put(target[w], WithMetadata(dir[target[w]], snap[w]))
          BY <2>2, <4>1 DEF Restore, Exists
        <5>2. WithMetadata(dir[target[w]], snap[w]) \in EntryType
          BY <5>1 DEF WithMetadata
        <5> QED
          BY <5>1, <5>2
      <4>2. CASE CopyXattrs(w)
        <5>1. /\ cur[w] \in File /\ dir[target[w]] \in EntryType
              /\ Put(target[w], [dir[target[w]] EXCEPT !.xattrs = cur[w]])
          BY <2>2, <4>2 DEF CopyXattrs, Exists
        <5>2. [dir[target[w]] EXCEPT !.xattrs = cur[w]] \in EntryType
          BY <5>1
        <5> QED
          BY <5>1, <5>2
      <4> QED
        BY <1>5, <4>1, <4>2
    <3> HIDE DEF EntryType
    <3> QED
      BY <1>1, <3>1, PutType
  <2> QED
    BY <2>1, <2>2
<1> QED
  BY <1>2, <1>3, <1>4, <1>5
  DEF ProcessFile, Take, Answer, LookForOld, TryName, Start, Tick, Unlink, Complete,
      Load, SendProgress

LEMMA TypeWorker ==
  ASSUME TypeInv, NEW w \in Worker, ProcessFile(w)
  PROVE  TypeInv'
<1>1. DirType'
  BY TypeDir
<1>2. \A n \in Name : \A k \in Nat : Candidate(n, k) \in Name
  BY CandidateName
<1>3. <<>> \in Name
  BY DEF Name
<1>4. \A f \in File : plan[f] \in Name
  BY GivenTypes DEF TypeInv
<1> USE DEF TypeInv, TypeOK, CurInv, DirType, EntryType, At, Goto, NoFault, Fault,
            given, worker, Settle
<1>5. ASSUME NEW f \in File, Take(w, f) PROVE TypeInv'
  BY <1>1, <1>4, <1>5 DEF Take
<1>6. CASE Answer(w)
  <2>1. CASE Goto(w, "start") /\ UNCHANGED <<status, cur, target, suffix, snap, seen>>
    BY <1>1, <1>6, <2>1 DEF Answer
  <2>2. CASE Settle(w, "skipped")
    BY <1>1, <1>3, <1>6, <2>2, SMTT(30) DEF Answer
  <2> QED
    BY <1>6, <2>1, <2>2 DEF Answer
<1>7. CASE LookForOld(w)     BY <1>1, <1>7 DEF LookForOld
<1>8. CASE TryName(w)
  <2>1. CASE Exists(Candidate(target[w], suffix[w]))
    BY <1>1, <1>8, <2>1 DEF TryName
  <2>2. CASE ~Exists(Candidate(target[w], suffix[w]))
    <3>1. Candidate(target[w], suffix[w]) \in Name
      BY <1>2
    <3>2. target' \in [Worker -> Name]
      BY <1>8, <2>2, <3>1 DEF TryName
    <3>3. pc' \in {[pc EXCEPT ![w] = "start"], [pc EXCEPT ![w] = "aside"]}
      BY <1>8, <2>2 DEF TryName
    <3> QED
      BY <1>1, <1>8, <2>2, <3>2, <3>3 DEF TryName
  <2> QED
    BY <2>1, <2>2
<1>9. CASE Aside(w)
  <2>1. overrun' \in BOOLEAN /\ faults' \in 0 .. MaxFaults
    <3>1. (NoFault /\ UNCHANGED overrun) \/ (Fault /\ overrun' = TRUE)
      BY <1>9, Zenon DEF Aside
    <3>2. overrun' \in BOOLEAN
      BY <3>1, Zenon
    <3>3. faults' \in 0 .. MaxFaults
      BY <3>1
    <3> QED
      BY <3>2, <3>3
  <2>2. pc' = [pc EXCEPT ![w] = "start"]
    BY <1>9 DEF Aside
  <2>3. UNCHANGED <<given, src, cur, target, suffix, snap, seen, status, filesDone, told,
                    launches>> /\ pc[w] = "aside"
    BY <1>9 DEF Aside
  <2> QED
    BY <1>1, <2>1, <2>2, <2>3
<1>10. CASE Start(w)         BY <1>1, <1>10 DEF Start, Captured
<1>11. CASE Tick(w)          BY <1>1, <1>11 DEF Tick, Highest
<1>12. CASE TransferRename(w) BY <1>1, <1>12 DEF TransferRename
<1>13. CASE TransferCopy(w)  BY <1>1, <1>13 DEF TransferCopy
<1>14. CASE TransferFail(w)  BY <1>1, <1>3, <1>14 DEF TransferFail
<1>15. CASE Unlink(w)
  <2>1. CASE Goto(w, "restore")
    BY <1>1, <1>3, <1>15, <2>1, SMTT(30) DEF Unlink
  <2>2. CASE Fault /\ Settle(w, "failed")
    BY <1>1, <1>3, <1>15, <2>2, SMTT(30) DEF Unlink
  <2> QED
    BY <1>15, <2>1, <2>2 DEF Unlink
<1>16. CASE Restore(w)       BY <1>1, <1>16 DEF Restore
<1>17. CASE CopyXattrs(w)    BY <1>1, <1>17 DEF CopyXattrs
<1>18. CASE Complete(w)      BY <1>1, <1>18 DEF Complete
<1>19. CASE Load(w)          BY <1>1, <1>19 DEF Load
<1>20. CASE SendProgress(w)  BY <1>1, <1>3, <1>20 DEF SendProgress, Highest
<1> QED
  BY <1>5, <1>6, <1>7, <1>8, <1>9, <1>10, <1>11, <1>12, <1>13, <1>14, <1>15, <1>16,
     <1>17, <1>18, <1>19, <1>20 DEF ProcessFile

LEMMA TypeStep == TypeInv /\ [Next]_vars => TypeInv'
<1> SUFFICES ASSUME TypeInv, [Next]_vars PROVE TypeInv'
  OBVIOUS
<1>1. CASE Relaunch
  <2>1. <<>> \in Name
    BY DEF Name
  <2> QED
    BY <1>1, <2>1 DEF Relaunch, given, All, TypeInv, TypeOK, CurInv
<1>2. CASE Finished \/ UNCHANGED vars
  BY <1>2 DEF Finished, vars, given, worker, TypeInv, TypeOK, CurInv
<1> QED
  BY <1>1, <1>2, TypeWorker DEF Next

-----------------------------------------------------------------------------
(* What a step of one worker leaves alone                                  *)

LEMMA GivenSame ==
  ASSUME UNCHANGED given
  PROVE  /\ Apart' <=> Apart
         /\ OneByOne' <=> OneByOne
         /\ Renames' <=> Renames
         /\ Exclusive' <=> Exclusive
BY DEF given, Apart, OneByOne, Renames, Exclusive

Same(v) ==
  /\ pc'[v] = pc[v] /\ cur'[v] = cur[v] /\ target'[v] = target[v]
  /\ suffix'[v] = suffix[v] /\ snap'[v] = snap[v] /\ seen'[v] = seen[v]

Framed(w) ==
  /\ UNCHANGED <<given, launches>> /\ src' \subseteq src
  /\ overrun => overrun'
  /\ faults <= faults'
  /\ \A v \in Worker : v # w => Same(v)

LEMMA Frame ==
  ASSUME TypeInv, NEW w \in Worker, ProcessFile(w)
  PROVE  Framed(w)
<1> USE DEF TypeInv, TypeOK, At, Goto, NoFault, Fault, worker, Settle, Same, Framed
<1>1. ASSUME NEW f \in File, Take(w, f) PROVE Framed(w)
  BY <1>1 DEF Take
<1>2. CASE Answer(w)          BY <1>2 DEF Answer
<1>3. CASE LookForOld(w)      BY <1>3 DEF LookForOld
<1>4. CASE TryName(w)         BY <1>4 DEF TryName
<1>5. CASE Aside(w)           BY <1>5 DEF Aside
<1>6. CASE Start(w)           BY <1>6 DEF Start
<1>7. CASE Tick(w)            BY <1>7 DEF Tick
<1>8. CASE TransferRename(w)  BY <1>8 DEF TransferRename
<1>9. CASE TransferCopy(w)    BY <1>9 DEF TransferCopy
<1>10. CASE TransferFail(w)   BY <1>10 DEF TransferFail
<1>11. CASE Unlink(w)         BY <1>11 DEF Unlink
<1>12. CASE Restore(w)        BY <1>12 DEF Restore
<1>13. CASE CopyXattrs(w)     BY <1>13 DEF CopyXattrs
<1>14. CASE Complete(w)       BY <1>14 DEF Complete
<1>15. CASE Load(w)           BY <1>15 DEF Load
<1>16. CASE SendProgress(w)   BY <1>16 DEF SendProgress
<1> QED
  BY <1>1, <1>2, <1>3, <1>4, <1>5, <1>6, <1>7, <1>8, <1>9, <1>10, <1>11, <1>12,
     <1>13, <1>14, <1>15, <1>16 DEF ProcessFile

\* The status of a file changes when its worker takes, completes or leaves it.
StatusStep(w) ==
  \/ UNCHANGED status
  \/ \E f \in File : Take(w, f)
  \/ Complete(w)
  \/ /\ status' = [status EXCEPT ![cur[w]] = "done"] /\ pc[w] = "send"
     /\ pc'[w] = "idle"
  \/ /\ \E s \in {"skipped", "failed"} : status' = [status EXCEPT ![cur[w]] = s]
     /\ pc[w] \in {"asking", "transfer", "unlink"} /\ pc'[w] = "idle"

LEMMA StatusSteps ==
  ASSUME TypeInv, NEW w \in Worker, ProcessFile(w)
  PROVE  StatusStep(w)
<1> USE DEF TypeInv, TypeOK, At, Goto, Settle, StatusStep
<1>1. CASE Answer(w)          BY <1>1 DEF Answer
<1>2. CASE TransferFail(w)    BY <1>2 DEF TransferFail
<1>3. CASE Unlink(w)          BY <1>3 DEF Unlink
<1>4. CASE SendProgress(w)    BY <1>4 DEF SendProgress
<1>5. CASE \/ LookForOld(w) \/ TryName(w) \/ Aside(w) \/ Start(w) \/ Tick(w)
           \/ TransferRename(w) \/ TransferCopy(w) \/ Restore(w) \/ CopyXattrs(w)
           \/ Load(w)
  BY <1>5 DEF LookForOld, TryName, Aside, Start, Tick, TransferRename, TransferCopy,
              Restore, CopyXattrs, Load
<1> QED
  BY <1>1, <1>2, <1>3, <1>4, <1>5 DEF ProcessFile

\* The other workers' files are neither done nor undone by w.
LEMMA StatusOther ==
  ASSUME TypeInv, WorkInv, NEW w \in Worker, ProcessFile(w), NEW f \in File,
         f # cur[w], status[f] # "todo"
  PROVE  status'[f] = status[f]
<1>1. CASE \E g \in File : Take(w, g)
  BY <1>1 DEF Take, TypeInv, TypeOK
<1>2. CASE ~\E g \in File : Take(w, g)
  BY <1>2, StatusSteps DEF StatusStep, Complete, TypeInv, TypeOK
<1> QED
  BY <1>1, <1>2

\* Only Complete makes a file "done", and nothing takes it back.
LEMMA DoneStep ==
  ASSUME TypeInv, WorkInv, NEW w \in Worker, ProcessFile(w), ~Complete(w),
         NEW f \in File
  PROVE  status'[f] = "done" <=> status[f] = "done"
<1> USE DEF TypeInv, TypeOK, CurInv, WorkInv, PlaceOf
<1>1. CASE \E g \in File : Take(w, g)
  BY <1>1 DEF Take
<1>2. CASE ~\E g \in File : Take(w, g)
  BY <1>2, StatusSteps DEF StatusStep
<1> QED
  BY <1>1, <1>2
-----------------------------------------------------------------------------
(* One worker per file                                                     *)

LEMMA WorkInit == Init => WorkInv
<1> SUFFICES ASSUME Init PROVE WorkInv
  OBVIOUS
<1>1. \A w \in Worker : pc[w] = "idle" /\ snap[w] = None
  BY DEF Init, All
<1> QED
  BY <1>1 DEF WorkInv, AloneInv, PlaceOf

\* A worker that takes a file is alone with it.
LEMMA TakeAlone ==
  ASSUME TypeInv, WorkInv, NEW w \in Worker, NEW f \in File, Take(w, f),
         NEW v \in Worker, pc[v] # "idle"
  PROVE  v # w /\ cur[v] # f /\ ~OneByOne
<1> USE DEF TypeInv, TypeOK, CurInv, Take, At
<1>1. v # w
  OBVIOUS
<1>2. cur[v] # f
  BY DEF WorkInv, PlaceOf
<1>3. ASSUME OneByOne PROVE FALSE
  <2> DEFINE Going == {u \in Worker : pc[u] # "idle"}
  <2>1. Cardinality(Going) < 1
    BY <1>3 DEF OneByOne
  <2>2. IsFiniteSet(Going) /\ Cardinality(Going) \in Nat
    BY FS_Subset, FS_CardinalityType
  <2>3. Going = {}
    <3> HIDE DEF Going
    <3>1. Cardinality(Going) = 0
      BY <2>1, <2>2
    <3> QED
      BY <2>2, <3>1, FS_EmptySet
  <2> QED
    BY <2>3
<1> QED
  BY <1>1, <1>2, <1>3

\* w keeps its file, leaves it or takes one.
LEMMA CurStep ==
  ASSUME TypeInv, NEW w \in Worker, ProcessFile(w)
  PROVE  \/ \E f \in File : Take(w, f)
         \/ /\ pc[w] # "idle"
            /\ \/ cur'[w] = cur[w] /\ pc'[w] # "idle"
               \/ cur'[w] = None /\ pc'[w] = "idle"
<1> USE DEF TypeInv, TypeOK, At, Goto, Settle
<1>1. CASE Answer(w)          BY <1>1 DEF Answer
<1>2. CASE TransferFail(w)    BY <1>2 DEF TransferFail
<1>3. CASE Unlink(w)          BY <1>3 DEF Unlink
<1>4. CASE SendProgress(w)    BY <1>4 DEF SendProgress
<1>5. CASE LookForOld(w) \/ TryName(w) \/ Aside(w) \/ Start(w) \/ Tick(w)
  BY <1>5 DEF LookForOld, TryName, Aside, Start, Tick, worker
<1>6. CASE TransferRename(w) \/ TransferCopy(w) \/ Restore(w) \/ CopyXattrs(w)
  BY <1>6 DEF TransferRename, TransferCopy, Restore, CopyXattrs
<1>7. CASE Complete(w) \/ Load(w)
  BY <1>7 DEF Complete, Load
<1> QED
  BY <1>1, <1>2, <1>3, <1>4, <1>5, <1>6, <1>7 DEF ProcessFile

LEMMA AloneStep ==
  ASSUME TypeInv, WorkInv, NEW w \in Worker, ProcessFile(w)
  PROVE  AloneInv'
<1> USE DEF WorkInv, AloneInv
<1>1. /\ \A v \in Worker : v # w => pc'[v] = pc[v] /\ cur'[v] = cur[v]
      /\ OneByOne' <=> OneByOne
  BY Frame, GivenSame DEF Framed, Same
<1>2. ASSUME NEW f \in File, Take(w, f) PROVE AloneInv'
  <2>1. CASE UNCHANGED worker
    BY <1>1, <2>1 DEF worker
  <2>2. CASE ~UNCHANGED worker
    <3>1. cur'[w] = f /\ pc[w] = "idle"
      BY <1>2, <2>2 DEF Take, At, TypeInv, TypeOK
    <3>2. \A v \in Worker : pc[v] # "idle" => v # w /\ cur[v] # f /\ ~OneByOne
      BY <1>2, TakeAlone
    <3>3. \A v \in Worker : v # w => cur[v] # f
      BY <3>2 DEF TypeInv, CurInv
    <3> QED
      BY <1>1, <3>1, <3>2, <3>3
  <2> QED
    BY <2>1, <2>2
<1>3. CASE ~\E f \in File : Take(w, f)
  <2>1. /\ pc[w] # "idle"
        /\ \/ cur'[w] = cur[w] /\ pc'[w] # "idle"
           \/ cur'[w] = None /\ pc'[w] = "idle"
    BY <1>3, CurStep
  <2>2. \A v \in Worker : pc[v] # "idle" => cur[v] # None
    BY DEF TypeInv, CurInv
  <2> QED
    BY <1>1, <2>1, <2>2
<1> QED
  BY <1>2, <1>3

LEMMA PlaceOther ==
  ASSUME TypeInv, WorkInv, NEW w \in Worker, ProcessFile(w), NEW v \in Worker, v # w
  PROVE  PlaceOf(v)'
<1>1. Same(v) /\ UNCHANGED given /\ (Renames' <=> Renames)
  BY Frame, GivenSame DEF Framed
<1>2. PlaceOf(v) /\ (pc[v] # "idle" => cur[v] # cur[w] /\ cur[v] \in File)
  BY DEF WorkInv, AloneInv, TypeInv, TypeOK, CurInv
<1>3. pc[v] # "idle" => status'[cur[v]] = status[cur[v]]
  BY <1>2, StatusOther DEF PlaceOf
<1> QED
  BY <1>1, <1>2, <1>3 DEF PlaceOf, Same, given

LEMMA PlaceOwn ==
  ASSUME TypeInv, WorkInv, NEW w \in Worker, ProcessFile(w)
  PROVE  PlaceOf(w)'
<1>1. PlaceOf(w) /\ UNCHANGED given /\ (Renames' <=> Renames)
  BY Frame, GivenSame DEF Framed, WorkInv
<1>2. pc[w] # "idle" => cur[w] \in File /\ plan[cur[w]] \in Name
  BY GivenTypes DEF TypeInv, TypeOK, CurInv
<1>3. target[w] \in Name /\ suffix[w] \in Nat
  BY DEF TypeInv, TypeOK
<1> USE DEF TypeInv, TypeOK, CurInv, PlaceOf, At, Goto, Settle, given
<1>4. ASSUME NEW f \in File, Take(w, f) PROVE PlaceOf(w)'
  <2>1. IsPrefix(plan[f], plan[f])
    BY PrefixSelf, GivenTypes
  <2>2. snap[w] = None
    BY <1>4 DEF Take, WorkInv
  <2>3. CASE config.policy = "skip"
    BY <1>1, <1>4, <2>3 DEF Take, worker
  <2>4. CASE config.policy # "skip"
    <3>1. /\ cur'[w] = f /\ status'[f] = "busy" /\ target'[w] = plan[f]
          /\ snap'[w] = None
      BY <1>4, <2>2, <2>4 DEF Take
    <3>2. pc'[w] = CASE config.policy = "rename-old" -> "exists"
                     [] config.policy = "rename-new" -> "try"
                     [] config.policy = "prompt"     -> "asking"
                     [] OTHER                        -> "start"
      BY <1>4, <2>4 DEF Take
    <3> QED
      BY <1>1, <2>1, <3>1, <3>2 DEF Renames
  <2> QED
    BY <2>3, <2>4
<1>5. CASE Answer(w)          BY <1>1, <1>2, <1>5 DEF Answer
<1>6. CASE LookForOld(w)      BY <1>1, <1>2, <1>6 DEF LookForOld, Renames
<1>7. CASE TryName(w)
  <2>1. IsPrefix(plan[cur[w]], Candidate(target[w], suffix[w]))
    BY <1>1, <1>2, <1>3, <1>7, CandidateName DEF TryName
  <2> QED
    BY <1>1, <1>2, <1>7, <2>1 DEF TryName, Renames
<1>8. CASE Aside(w)           BY <1>1, <1>2, <1>8 DEF Aside
<1>9. CASE Start(w)           BY <1>1, <1>2, <1>9 DEF Start, Captured
<1>10. CASE Tick(w)           BY <1>1, <1>2, <1>10 DEF Tick, worker
<1>11. CASE TransferRename(w) BY <1>1, <1>2, <1>11 DEF TransferRename
<1>12. CASE TransferCopy(w)   BY <1>1, <1>2, <1>12 DEF TransferCopy
<1>13. CASE TransferFail(w)   BY <1>1, <1>2, <1>13 DEF TransferFail
<1>14. CASE Unlink(w)         BY <1>1, <1>2, <1>14 DEF Unlink
<1>15. CASE Restore(w)        BY <1>1, <1>2, <1>15 DEF Restore
<1>16. CASE CopyXattrs(w)     BY <1>1, <1>2, <1>16 DEF CopyXattrs
<1>17. CASE Complete(w)       BY <1>1, <1>2, <1>17 DEF Complete
<1>18. CASE Load(w)           BY <1>1, <1>2, <1>18 DEF Load
<1>19. CASE SendProgress(w)   BY <1>1, <1>2, <1>19 DEF SendProgress
<1> QED
  BY <1>4, <1>5, <1>6, <1>7, <1>8, <1>9, <1>10, <1>11, <1>12, <1>13, <1>14, <1>15,
     <1>16, <1>17, <1>18, <1>19 DEF ProcessFile

LEMMA WorkStep == TypeInv /\ WorkInv /\ [Next]_vars => WorkInv'
<1> SUFFICES ASSUME TypeInv, WorkInv, [Next]_vars PROVE WorkInv'
  OBVIOUS
<1>1. ASSUME NEW w \in Worker, ProcessFile(w) PROVE WorkInv'
  BY <1>1, AloneStep, PlaceOwn, PlaceOther DEF WorkInv
<1>2. CASE Relaunch
  <2>1. \A w \in Worker : pc'[w] = "idle" /\ snap'[w] = None
    BY <1>2 DEF Relaunch, All
  <2> QED
    BY <2>1 DEF WorkInv, AloneInv, PlaceOf
<1>3. CASE Finished \/ UNCHANGED vars
  BY <1>3, GivenSame
  DEF Finished, vars, given, worker, WorkInv, AloneInv, PlaceOf
<1> QED
  BY <1>1, <1>2, <1>3 DEF Next

-----------------------------------------------------------------------------
(* What a step does to the destination                                     *)

Publishes(w) ==
  /\ pc[w] = "transfer"
  /\ \E e \in {New(cur[w]), Moved(cur[w])} : Put(target[w], e)

\* Restore and CopyXattrs change an entry, but not its content.
Adorns(w) ==
  /\ pc[w] \in {"restore", "xattrs"} /\ Exists(target[w])
  /\ \E e \in EntryType : e.data = dir[target[w]].data /\ Put(target[w], e)

Side(w) == Candidate(target[w], suffix[w])
Displaces(w) ==
  /\ pc[w] = "aside" /\ Exists(target[w])
  /\ DOMAIN dir' = (DOMAIN dir \ {target[w]}) \cup {Side(w)}
  /\ dir'[Side(w)] = dir[target[w]]
  /\ \A n \in DOMAIN dir \ {target[w], Side(w)} : dir'[n] = dir[n]

LEMMA DirSteps ==
  ASSUME TypeInv, NEW w \in Worker, ProcessFile(w)
  PROVE  UNCHANGED dir \/ Publishes(w) \/ Adorns(w) \/ Displaces(w)
<1> USE DEF At
<1>1. CASE Aside(w)
  <2>1. CASE Exists(target[w]) /\ dir' = [n \in (DOMAIN dir \ {target[w]})
                                           \cup {Candidate(target[w], suffix[w])} |->
               IF n = Candidate(target[w], suffix[w]) THEN dir[target[w]] ELSE dir[n]]
    BY <1>1, <2>1 DEF Aside, Displaces, Side
  <2> QED
    BY <1>1, <2>1 DEF Aside
<1>2. CASE TransferRename(w)  BY <1>2 DEF TransferRename, Publishes
<1>3. CASE TransferCopy(w)    BY <1>3 DEF TransferCopy, Publishes
<1>4. CASE TransferFail(w)    BY <1>4 DEF TransferFail, Publishes
<1>5. CASE Restore(w)
  <2>1. CASE ~UNCHANGED dir
    <3>1. /\ snap[w] \in File /\ dir[target[w]] \in EntryType /\ Exists(target[w])
          /\ Put(target[w], WithMetadata(dir[target[w]], snap[w]))
      BY <1>5, <2>1 DEF Restore, Exists, TypeInv, TypeOK, EntryType
    <3>2. /\ WithMetadata(dir[target[w]], snap[w]) \in EntryType
          /\ WithMetadata(dir[target[w]], snap[w]).data = dir[target[w]].data
      BY <3>1 DEF WithMetadata, EntryType, Owner
    <3> QED
      BY <1>5, <3>1, <3>2 DEF Restore, Adorns
  <2> QED
    BY <2>1
<1>6. CASE CopyXattrs(w)
  <2>1. CASE ~UNCHANGED dir
    <3>1. /\ cur[w] \in File /\ dir[target[w]] \in EntryType /\ Exists(target[w])
          /\ Put(target[w], [dir[target[w]] EXCEPT !.xattrs = cur[w]])
      BY <1>6, <2>1 DEF CopyXattrs, Exists, TypeInv, TypeOK, EntryType
    <3>2. /\ [dir[target[w]] EXCEPT !.xattrs = cur[w]] \in EntryType
          /\ [dir[target[w]] EXCEPT !.xattrs = cur[w]].data = dir[target[w]].data
      BY <3>1 DEF EntryType, Owner
    <3> QED
      BY <1>6, <3>1, <3>2 DEF CopyXattrs, Adorns
  <2> QED
    BY <2>1
<1> QED
  BY <1>1, <1>2, <1>3, <1>4, <1>5, <1>6
  DEF ProcessFile, Take, Answer, LookForOld, TryName, Start, Tick, Unlink, Complete,
      Load, SendProgress

LEMMA NewData == ASSUME NEW f PROVE New(f).data = f /\ Moved(f).data = f
BY DEF New, Moved


\* Names of one file's reach are out of the reach of a worker on another file.
LEMMA Elsewhere ==
  ASSUME TypeInv, WorkInv, Apart, NEW w \in Worker, ProcessFile(w),
         NEW f \in File, f # cur[w], NEW n \in Name, IsPrefix(plan[f], n)
  PROVE  /\ n \in DOMAIN dir' <=> n \in DOMAIN dir
         /\ n \in DOMAIN dir => dir'[n] = dir[n]
<1>1. CASE UNCHANGED dir
  BY <1>1
<1>2. CASE ~UNCHANGED dir
  <2>1. pc[w] # "idle" /\ (Publishes(w) \/ Adorns(w) \/ Displaces(w))
    BY <1>2, DirSteps DEF Publishes, Adorns, Displaces
  <2>2. /\ cur[w] \in File /\ IsPrefix(plan[cur[w]], target[w])
        /\ target[w] \in Name /\ suffix[w] \in Nat
        /\ plan[f] \in Name /\ plan[cur[w]] \in Name
    BY <2>1, GivenTypes DEF WorkInv, PlaceOf, TypeInv, TypeOK, CurInv
  <2>3. ASSUME IsPrefix(plan[cur[w]], n) PROVE FALSE
    BY <2>2, <2>3, PrefixesMeet DEF Apart
  <2>4. n # target[w] /\ n # Side(w)
    BY <2>2, <2>3, CandidateName DEF Side
  <2> QED
    BY <2>1, <2>4 DEF Publishes, Adorns, Displaces, Put
<1> QED
  BY <1>1, <1>2

\* Where names are not shared, no step of another worker reaches what v has
\* found or published.
LEMMA Undisturbed ==
  ASSUME TypeInv, WorkInv, Exclusive, NEW w \in Worker, ProcessFile(w),
         NEW v \in Worker, v # w, pc[v] # "idle", NEW n \in {target[v], Side(v)}
  PROVE  /\ n \in DOMAIN dir' <=> n \in DOMAIN dir
         /\ n \in DOMAIN dir => dir'[n] = dir[n]
<1>1. /\ cur[v] \in File /\ cur[v] # cur[w] /\ IsPrefix(plan[cur[v]], target[v])
      /\ target[v] \in Name /\ suffix[v] \in Nat /\ plan[cur[v]] \in Name
  BY GivenTypes DEF WorkInv, AloneInv, PlaceOf, TypeInv, TypeOK, CurInv
<1>2. n \in Name /\ IsPrefix(plan[cur[v]], n)
  <2>1. Side(v) \in Name /\ IsPrefix(plan[cur[v]], Side(v))
    BY <1>1, CandidateName DEF Side
  <2> QED
    BY <1>1, <2>1
<1>3. CASE Apart
  BY <1>1, <1>2, <1>3, Elsewhere
<1>4. CASE OneByOne
  <2>1. pc[w] = "idle"
    BY <1>4 DEF WorkInv, AloneInv
  <2>2. UNCHANGED dir
    BY <2>1, DirSteps DEF Publishes, Adorns, Displaces
  <2> QED
    BY <2>2
<1> QED
  BY <1>3, <1>4 DEF Exclusive

-----------------------------------------------------------------------------
(* Where files lie, and which names are free                               *)

LEMMA LyingInit == Init => LyingInv
<1> SUFFICES ASSUME Init, NEW n \in DOMAIN dir, dir[n].data \in File PROVE FALSE
  BY DEF LyingInv
<1>1. n \in old /\ dir[n].data = n
  BY DEF Init
<1> QED
  BY <1>1 DEF Init

LEMMA LyingWorker ==
  ASSUME TypeInv, WorkInv, LyingInv, NEW w \in Worker, ProcessFile(w)
  PROVE  LyingInv'
<1>1. plan' = plan
  BY Frame DEF Framed, given
<1>2. CASE UNCHANGED dir
  BY <1>1, <1>2 DEF LyingInv
<1>3. CASE Publishes(w)
  <2>1. IsPrefix(plan[cur[w]], target[w])
    BY <1>3 DEF Publishes, WorkInv, PlaceOf
  <2> QED
    BY <1>1, <1>3, <2>1, NewData DEF Publishes, Put, LyingInv
<1>4. CASE Adorns(w)
  BY <1>1, <1>4 DEF Adorns, Put, LyingInv, Exists
<1>5. CASE Displaces(w)
  <2>1. ASSUME dir[target[w]].data \in File
        PROVE  IsPrefix(plan[dir[target[w]].data], Side(w))
    <3>1. IsPrefix(plan[dir[target[w]].data], target[w])
      BY <1>5, <2>1 DEF Displaces, Exists, LyingInv
    <3>2. target[w] \in Name /\ suffix[w] \in Nat /\ plan[dir[target[w]].data] \in Name
      BY <2>1, GivenTypes DEF TypeInv, TypeOK
    <3> QED
      BY <3>1, <3>2, CandidateName DEF Side
  <2> QED
    BY <1>1, <1>5, <2>1 DEF Displaces, LyingInv
<1> QED
  BY <1>2, <1>3, <1>4, <1>5, DirSteps

\* Another worker's step leaves at v's target a file of the plan, or moves an old one
\* there from the start of its name.
LEMMA ThereOther ==
  ASSUME TypeInv, WorkInv, NEW w \in Worker, ProcessFile(w),
         NEW v \in Worker, v # w, ThereOf(v)
  PROVE  ThereOf(v)'
<1>1. Same(v) /\ UNCHANGED given /\ (Nested(cur[v]) => Nested(cur[v])')
  BY Frame DEF Framed, Nested, Same, given
<1> SUFFICES ASSUME pc[v] \in {"unlink", "restore", "xattrs"}, target[v] \in DOMAIN dir'
             PROVE  \/ dir'[target[v]].data \in File
                    \/ config.policy = "rename-old" /\ Nested(cur[v])
  BY <1>1 DEF ThereOf, Exists, Same, given
<1>2. target[v] \in DOMAIN dir => \/ dir[target[v]].data \in File
                                  \/ config.policy = "rename-old" /\ Nested(cur[v])
  BY DEF ThereOf, Exists
<1>3. CASE UNCHANGED dir
  BY <1>2, <1>3
<1>4. CASE Publishes(w)
  <2>1. cur[w] \in File
    BY <1>4 DEF Publishes, TypeInv, TypeOK, CurInv
  <2> QED
    BY <1>2, <1>4, <2>1, NewData DEF Publishes, Put
<1>5. CASE Adorns(w)
  BY <1>2, <1>5 DEF Adorns, Put, Exists
<1>6. CASE Displaces(w)
  <2>1. CASE target[v] = Side(w)
    <3>1. /\ cur[w] \in File /\ cur[v] # cur[w] /\ config.policy = "rename-old"
          /\ target[w] = plan[cur[w]] /\ IsPrefix(plan[cur[v]], target[v])
          /\ suffix[w] \in Nat /\ plan[cur[w]] \in Name
      BY <1>6, GivenTypes
      DEF Displaces, WorkInv, AloneInv, PlaceOf, TypeInv, TypeOK, CurInv
    <3>2. target[v] = Candidate(plan[cur[w]], suffix[w])
      BY <2>1, <3>1 DEF Side
    <3>3. target[v] # plan[cur[w]] /\ IsPrefix(plan[cur[w]], target[v])
      BY <3>1, <3>2, CandidateName, PrefixSelf
    <3>4. target[v] = plan[cur[v]]
      BY <3>1 DEF WorkInv, PlaceOf
    <3> QED
      BY <3>1, <3>3, <3>4 DEF Nested
  <2>2. CASE target[v] # Side(w)
    BY <1>2, <1>6, <2>2 DEF Displaces
  <2> QED
    BY <2>1, <2>2
<1> QED
  BY <1>3, <1>4, <1>5, <1>6, DirSteps

LEMMA ThereOwn ==
  ASSUME TypeInv, NEW w \in Worker, ThereOf(w), ProcessFile(w)
  PROVE  ThereOf(w)'
<1> USE DEF TypeInv, TypeOK, CurInv, At, Goto, Settle, ThereOf, Exists
<1>1. CASE pc'[w] \notin {"unlink", "restore", "xattrs"}
  BY <1>1
<1>2. CASE TransferRename(w)
  BY <1>2, NewData DEF TransferRename, Put
<1>3. CASE TransferCopy(w)
  BY <1>3, NewData DEF TransferCopy, Put
<1>4. CASE Unlink(w)
  <2>1. UNCHANGED <<dir, given>>
    BY <1>4 DEF Unlink
  <2>2. CASE pc'[w] = "restore"
    <3>1. cur'[w] = cur[w] /\ target'[w] = target[w] /\ pc[w] = "unlink"
      BY <1>4, <2>2 DEF Unlink
    <3> QED
      BY <2>1, <2>2, <3>1 DEF Nested, given
  <2>3. CASE pc'[w] # "restore"
    BY <1>1, <1>4, <2>3 DEF Unlink
  <2> QED
    BY <2>2, <2>3
<1>5. CASE Restore(w)
  <2>1. /\ pc[w] = "restore" /\ UNCHANGED given
        /\ cur'[w] = cur[w] /\ target'[w] = target[w]
    BY <1>5 DEF Restore
  <2>2. UNCHANGED dir \/ Adorns(w)
    BY <2>1, DirSteps DEF Publishes, Displaces
  <2> QED
    BY <2>1, <2>2 DEF Adorns, Put, Nested, given
<1>6. ASSUME NEW f \in File, Take(w, f) PROVE ThereOf(w)'
  <2>1. CASE config.policy = "skip"
    BY <1>6, <2>1 DEF Take, worker
  <2>2. CASE config.policy # "skip"
    <3>1. pc'[w] = CASE config.policy = "rename-old" -> "exists"
                     [] config.policy = "rename-new" -> "try"
                     [] config.policy = "prompt"     -> "asking"
                     [] OTHER                        -> "start"
      BY <1>6, <2>2 DEF Take
    <3> QED
      BY <1>1, <3>1
  <2> QED
    BY <2>1, <2>2
<1>7. CASE Answer(w) \/ LookForOld(w) \/ TryName(w) \/ Aside(w) \/ Start(w) \/ Tick(w)
  BY <1>1, <1>7 DEF Answer, LookForOld, TryName, Aside, Start, Tick, worker
<1>8. CASE TransferFail(w) \/ CopyXattrs(w) \/ Complete(w) \/ Load(w) \/ SendProgress(w)
  BY <1>1, <1>8 DEF TransferFail, CopyXattrs, Complete, Load, SendProgress
<1> QED
  BY <1>2, <1>3, <1>4, <1>5, <1>6, <1>7, <1>8 DEF ProcessFile

LEMMA ThereWorker ==
  ASSUME TypeInv, WorkInv, ThereInv, NEW w \in Worker, ProcessFile(w)
  PROVE  ThereInv'
BY ThereOwn, ThereOther DEF ThereInv

LEMMA FreeOther ==
  ASSUME TypeInv, WorkInv, Exclusive, NEW w \in Worker, ProcessFile(w),
         NEW v \in Worker, v # w, FreeOf(v)
  PROVE  FreeOf(v)'
<1>1. Same(v) /\ (Renames' <=> Renames) /\ (overrun => overrun')
  BY Frame, GivenSame DEF Framed
<1>2. overrun \in BOOLEAN /\ overrun' \in BOOLEAN
  BY TypeWorker DEF TypeInv, TypeOK
<1>3. pc[v] # "idle" => /\ Side(v) \in DOMAIN dir' <=> Side(v) \in DOMAIN dir
                        /\ target[v] \in DOMAIN dir' <=> target[v] \in DOMAIN dir
  BY Undisturbed
<1> QED
  BY <1>1, <1>2, <1>3 DEF FreeOf, Same, Exists, Side

LEMMA FreeOwn ==
  ASSUME TypeInv, WorkInv, NEW w \in Worker, FreeOf(w), ProcessFile(w)
  PROVE  FreeOf(w)'
<1>1. PlaceOf(w) /\ UNCHANGED given /\ (Renames' <=> Renames) /\ (overrun => overrun')
  BY Frame, GivenSame DEF Framed, WorkInv
<1>2. target[w] \in Name /\ suffix[w] \in Nat
  BY DEF TypeInv, TypeOK
<1>3. overrun \in BOOLEAN /\ overrun' \in BOOLEAN
  BY TypeWorker DEF TypeInv, TypeOK
<1> USE DEF TypeInv, TypeOK, At, Goto, Settle, FreeOf, Exists
<1>4. CASE pc'[w] \notin {"aside", "start", "transfer"}
  BY <1>4
<1>5. ASSUME NEW f \in File, Take(w, f) PROVE FreeOf(w)'
  <2>1. CASE config.policy = "skip"
    BY <1>5, <2>1 DEF Take, worker
  <2>2. CASE config.policy # "skip"
    <3>1. pc'[w] = CASE config.policy = "rename-old" -> "exists"
                     [] config.policy = "rename-new" -> "try"
                     [] config.policy = "prompt"     -> "asking"
                     [] OTHER                        -> "start"
      BY <1>5, <2>2 DEF Take
    <3> QED
      BY <1>1, <3>1 DEF Renames
  <2> QED
    BY <2>1, <2>2
<1>6. CASE Answer(w)
  BY <1>1, <1>6 DEF Answer, PlaceOf, Renames
<1>7. CASE LookForOld(w)
  BY <1>1, <1>7 DEF LookForOld
<1>8. CASE TryName(w)
  BY <1>1, <1>8 DEF TryName
<1>9. CASE Aside(w)
  <2>1. Side(w) # target[w]
    BY <1>2, CandidateName DEF Side
  <2>2. pc'[w] = "start" /\ target'[w] = target[w]
    BY <1>9 DEF Aside
  <2>3. overrun' \/ ~(target[w] \in DOMAIN dir')
    BY <1>9, <2>1 DEF Aside, Side
  <2> QED
    BY <2>2, <2>3
<1>10. CASE Start(w) \/ Tick(w)
  BY <1>1, <1>3, <1>10 DEF Start, Tick, worker
<1>11. CASE TransferRename(w) \/ TransferCopy(w) \/ TransferFail(w)
  BY <1>4, <1>11 DEF TransferRename, TransferCopy, TransferFail
<1>12. CASE Unlink(w) \/ Restore(w) \/ CopyXattrs(w)
  BY <1>4, <1>12 DEF Unlink, Restore, CopyXattrs
<1>13. CASE Complete(w) \/ Load(w) \/ SendProgress(w)
  BY <1>4, <1>13 DEF Complete, Load, SendProgress
<1> QED
  BY <1>5, <1>6, <1>7, <1>8, <1>9, <1>10, <1>11, <1>12, <1>13 DEF ProcessFile

LEMMA FreeWorker ==
  ASSUME TypeInv, WorkInv, FreeInv, NEW w \in Worker, ProcessFile(w)
  PROVE  FreeInv'
<1>1. Exclusive' <=> Exclusive
  BY Frame, GivenSame DEF Framed
<1> QED
  BY <1>1, FreeOwn, FreeOther DEF FreeInv

LEMMA HoldOther ==
  ASSUME TypeInv, WorkInv, Exclusive, NEW w \in Worker, ProcessFile(w),
         NEW v \in Worker, v # w, HoldOf(v)
  PROVE  HoldOf(v)'
<1>1. Same(v)
  BY Frame DEF Framed
<1>2. pc[v] # "idle" => /\ target[v] \in DOMAIN dir' <=> target[v] \in DOMAIN dir
                        /\ target[v] \in DOMAIN dir => dir'[target[v]] = dir[target[v]]
  BY Undisturbed
<1> QED
  BY <1>1, <1>2 DEF HoldOf, Same, Exists, Holding

LEMMA HoldOwn ==
  ASSUME TypeInv, NEW w \in Worker, HoldOf(w), ProcessFile(w)
  PROVE  HoldOf(w)'
<1> USE DEF TypeInv, TypeOK, At, Goto, Settle, HoldOf, Holding, Exists
<1>1. CASE pc'[w] \notin Holding
  BY <1>1
<1>2. ASSUME NEW f \in File, Take(w, f) PROVE HoldOf(w)'
  <2>1. CASE config.policy = "skip"
    BY <1>2, <2>1 DEF Take, worker
  <2>2. CASE config.policy # "skip"
    <3>1. pc'[w] = CASE config.policy = "rename-old" -> "exists"
                     [] config.policy = "rename-new" -> "try"
                     [] config.policy = "prompt"     -> "asking"
                     [] OTHER                        -> "start"
      BY <1>2, <2>2 DEF Take
    <3> QED
      BY <3>1
  <2> QED
    BY <2>1, <2>2
<1>3. CASE Answer(w) \/ LookForOld(w) \/ TryName(w) \/ Aside(w) \/ Start(w) \/ Tick(w)
  BY <1>1, <1>3 DEF Answer, LookForOld, TryName, Aside, Start, Tick, worker
<1>4. CASE TransferRename(w)
  BY <1>4, NewData DEF TransferRename, Put
<1>5. CASE TransferCopy(w)
  BY <1>5, NewData DEF TransferCopy, Put
<1>6. CASE TransferFail(w)
  BY <1>1, <1>6 DEF TransferFail
<1>7. CASE Unlink(w)
  BY <1>7 DEF Unlink
<1>8. CASE Restore(w) \/ CopyXattrs(w)
  <2>1. /\ pc[w] \in {"restore", "xattrs"} /\ cur'[w] = cur[w]
        /\ target'[w] = target[w]
    BY <1>8 DEF Restore, CopyXattrs
  <2>2. UNCHANGED dir \/ Adorns(w)
    BY <2>1, DirSteps DEF Publishes, Displaces
  <2> QED
    BY <2>1, <2>2 DEF Adorns, Put
<1>9. CASE Complete(w) \/ Load(w) \/ SendProgress(w)
  BY <1>1, <1>9 DEF Complete, Load, SendProgress
<1> QED
  BY <1>2, <1>3, <1>4, <1>5, <1>6, <1>7, <1>8, <1>9 DEF ProcessFile

LEMMA HoldWorker ==
  ASSUME TypeInv, WorkInv, HoldInv, NEW w \in Worker, ProcessFile(w)
  PROVE  HoldInv'
<1>1. Exclusive' <=> Exclusive
  BY Frame, GivenSame DEF Framed
<1> QED
  BY <1>1, HoldOwn, HoldOther DEF HoldInv

-----------------------------------------------------------------------------
(* No content is lost                                                      *)

\* Under a policy that renames, everything in the destination is kept.
LEMMA KeepAll ==
  ASSUME TypeInv, WorkInv, FreeInv, Exclusive, Renames, NEW w \in Worker, ProcessFile(w),
         ~overrun, NEW x, Kept(x)
  PROVE  Kept(x)'
<1>1. PICK n \in DOMAIN dir : dir[n].data = x
  BY DEF Kept
<1>2. FreeOf(w)
  BY DEF FreeInv
<1>3. CASE UNCHANGED dir
  BY <1>1, <1>3 DEF Kept
<1>4. CASE Publishes(w)
  <2>1. n # target[w]
    BY <1>1, <1>2, <1>4 DEF Publishes, FreeOf, Exists
  <2> QED
    BY <1>1, <1>4, <2>1 DEF Publishes, Put, Kept
<1>5. CASE Adorns(w)
  BY <1>1, <1>5 DEF Adorns, Put, Kept
<1>6. CASE Displaces(w)
  <2>1. n # Side(w)
    BY <1>1, <1>2, <1>6 DEF Displaces, FreeOf, Exists, Side
  <2> QED
    BY <1>1, <1>6, <2>1 DEF Displaces, Kept
<1> QED
  BY <1>3, <1>4, <1>5, <1>6, DirSteps

\* Where no two files share names, a file's content is replaced by itself only.
LEMMA KeepFile ==
  ASSUME TypeInv, WorkInv, FreeInv, LyingInv, Apart, NEW w \in Worker, ProcessFile(w),
         NEW f \in File, Kept(f)
  PROVE  Kept(f)'
<1>1. PICK n \in DOMAIN dir : dir[n].data = f
  BY DEF Kept
<1>2. n \in Name /\ IsPrefix(plan[f], n)
  BY <1>1 DEF TypeInv, TypeOK, LyingInv
<1>3. CASE f # cur[w]
  BY <1>1, <1>2, <1>3, Elsewhere DEF Kept
<1>4. CASE f = cur[w]
  <2>1. CASE UNCHANGED dir
    BY <1>1, <2>1 DEF Kept
  <2>2. CASE Publishes(w)
    BY <1>4, <2>2, NewData DEF Publishes, Put, Kept
  <2>3. CASE Adorns(w)
    BY <1>1, <2>3 DEF Adorns, Put, Kept
  <2>4. CASE Displaces(w)
    <3>1. n # Side(w)
      BY <1>1, <2>4 DEF Displaces, FreeInv, FreeOf, Exclusive, Exists, Side
    <3> QED
      BY <1>1, <2>4, <3>1 DEF Displaces, Kept
  <2> QED
    BY <2>1, <2>2, <2>3, <2>4, DirSteps
<1> QED
  BY <1>3, <1>4

\* A file leaves the source when it is in the destination.
LEMMA Leaves ==
  ASSUME TypeInv, HoldInv, Exclusive, NEW w \in Worker, ProcessFile(w),
         NEW f \in src, f \notin src'
  PROVE  Kept(f)'
<1>1. CASE TransferRename(w) \/ TransferFail(w)
  <2>1. f = cur[w] /\ Put(target[w], Moved(f))
    BY <1>1 DEF TransferRename, TransferFail
  <2> QED
    BY <2>1, NewData DEF Put, Kept
<1>2. CASE Unlink(w)
  <2>1. f = cur[w] /\ pc[w] = "unlink" /\ UNCHANGED dir
    BY <1>2 DEF Unlink, At
  <2> QED
    BY <2>1 DEF HoldInv, HoldOf, Holding, Exists, Kept
<1> QED
  BY <1>1, <1>2
  DEF ProcessFile, Take, Answer, LookForOld, TryName, Aside, Start, Tick, TransferCopy,
      Restore, CopyXattrs, Complete, Load, SendProgress

LEMMA LostWorker ==
  ASSUME TypeInv, WorkInv, FreeInv, HoldInv, LyingInv, NothingLost,
         NEW w \in Worker, ProcessFile(w)
  PROVE  NothingLost'
<1>1. /\ Apart' <=> Apart
      /\ OneByOne' <=> OneByOne
      /\ Renames' <=> Renames
      /\ UNCHANGED given /\ (overrun => overrun')
  BY Frame, GivenSame DEF Framed
<1>2. ASSUME Renames, Apart \/ OneByOne, ~overrun' PROVE \A n \in old' : Kept(n)'
  BY <1>1, <1>2, KeepAll DEF NothingLost, Exclusive, given
<1>3. ASSUME Apart \/ (Renames /\ OneByOne /\ ~overrun'), NEW f \in File
      PROVE  f \in src' \/ Kept(f)'
  <2>1. Exclusive
    BY <1>3 DEF Exclusive
  <2>2. f \in src \/ Kept(f)
    BY <1>1, <1>3 DEF NothingLost
  <2>3. CASE f \in src
    BY <2>1, <2>3, Leaves
  <2>4. CASE Kept(f)
    BY <1>1, <1>3, <2>1, <2>4, KeepAll, KeepFile
  <2> QED
    BY <2>2, <2>3, <2>4
<1> QED
  BY <1>1, <1>2, <1>3 DEF NothingLost

LEMMA LostInit == Init => NothingLost
<1> SUFFICES ASSUME Init PROVE NothingLost
  OBVIOUS
<1>1. \A n \in old : n \in DOMAIN dir /\ dir[n].data = n
  BY DEF Init
<1>2. src = File
  BY DEF Init
<1> QED
  BY <1>1, <1>2 DEF NothingLost, Kept
-----------------------------------------------------------------------------
(* Metadata                                                                *)

LEMMA FitsMeans == FitsInv <=> MetadataStayInReach
BY DEF FitsInv, Fits, MetadataStayInReach

LEMMA FitsSame ==
  ASSUME UNCHANGED given PROVE \A n, d, m : Fits(n, d, m)' <=> Fits(n, d, m)
BY GivenSame DEF Fits, Nested, given

\* A name tried for another one is in the same files' reach.
LEMMA FitsAside ==
  ASSUME TypeInv, NEW n \in Name, NEW k \in Nat, NEW d \in Owner, NEW m \in Owner \cup {None},
         Fits(n, d, m)
  PROVE  Fits(Candidate(n, k), d, m)
<1>1. \A f \in File : IsPrefix(plan[f], n) => IsPrefix(plan[f], Candidate(n, k))
  BY CandidateName, GivenTypes DEF TypeInv
<1> QED
  BY <1>1 DEF Fits

\* What a worker restores fits whatever stands at its target.
LEMMA FitsRestored ==
  ASSUME TypeInv, WorkInv, LyingInv, ThereInv, HoldInv, NEW w \in Worker,
         pc[w] \in {"restore", "xattrs"}, Exists(target[w])
  PROVE  Fits(target[w], dir[target[w]].data, cur[w])
<1>1. cur[w] \in File /\ IsPrefix(plan[cur[w]], target[w])
  BY DEF WorkInv, PlaceOf, TypeInv, TypeOK, CurInv
<1>2. CASE OneByOne
  BY <1>2 DEF HoldInv, HoldOf, Holding, Exclusive, Fits
<1>3. CASE ~OneByOne
  <2>1. dir[target[w]].data \in File => IsPrefix(plan[dir[target[w]].data], target[w])
    BY DEF LyingInv, Exists
  <2>2. dir[target[w]].data \notin File => config.policy = "rename-old" /\ Nested(cur[w])
    BY DEF ThereInv, ThereOf
  <2> QED
    BY <1>1, <1>3, <2>1, <2>2 DEF Fits
<1> QED
  BY <1>2, <1>3

LEMMA FitsWorker ==
  ASSUME TypeInv, WorkInv, LyingInv, ThereInv, HoldInv, FitsInv,
         NEW w \in Worker, ProcessFile(w)
  PROVE  FitsInv'
<1>1. \A n, d, m : Fits(n, d, m)' <=> Fits(n, d, m)
  BY Frame, FitsSame DEF Framed
<1>2. SUFFICES ASSUME NEW n \in DOMAIN dir'
               PROVE  /\ Fits(n, dir'[n].data, dir'[n].mode)
                      /\ Fits(n, dir'[n].data, dir'[n].xattrs)
  BY <1>1 DEF FitsInv
<1>3. \A m \in DOMAIN dir : Fits(m, dir[m].data, dir[m].mode)
                            /\ Fits(m, dir[m].data, dir[m].xattrs)
  BY DEF FitsInv
<1> HIDE DEF FitsInv
<1>4. CASE UNCHANGED dir
  BY <1>3, <1>4
<1>5. CASE Publishes(w)
  <2>1. \A e \in {New(cur[w]), Moved(cur[w])} : {e.mode, e.xattrs} \subseteq {e.data, None}
    BY DEF New, Moved
  <2>2. PICK e \in {New(cur[w]), Moved(cur[w])} : Put(target[w], e)
    BY <1>5 DEF Publishes
  <2>3. CASE n = target[w]
    <3>1. dir'[n] = e
      BY <2>2, <2>3 DEF Put
    <3> QED
      BY <2>1, <3>1 DEF Fits
  <2>4. CASE n # target[w]
    BY <1>3, <2>2, <2>4 DEF Put
  <2> QED
    BY <2>3, <2>4
<1>6. CASE Displaces(w)
  <2>1. CASE n = Side(w)
    <3>1. target[w] \in DOMAIN dir /\ dir'[n] = dir[target[w]]
      BY <1>6, <2>1 DEF Displaces, Exists
    <3>2. /\ target[w] \in Name /\ suffix[w] \in Nat
          /\ dir[target[w]].data \in Owner
          /\ dir[target[w]].mode \in Owner \cup {None}
          /\ dir[target[w]].xattrs \in Owner \cup {None}
      BY <3>1 DEF TypeInv, TypeOK
    <3> QED
      BY <1>3, <2>1, <3>1, <3>2, FitsAside DEF Side
  <2>2. CASE n # Side(w)
    BY <1>3, <1>6, <2>2 DEF Displaces
  <2> QED
    BY <2>1, <2>2
<1>7. CASE Adorns(w)
  <2>1. /\ pc[w] \in {"restore", "xattrs"} /\ target[w] \in DOMAIN dir
        /\ dir[target[w]] \in EntryType
        /\ Fits(target[w], dir[target[w]].data, cur[w])
    BY <1>7, FitsRestored DEF Adorns, Exists, TypeInv, TypeOK, EntryType
  <2>2. CASE Restore(w) /\ ~UNCHANGED dir
    <3>1. snap[w] = cur[w] /\ Put(target[w], WithMetadata(dir[target[w]], cur[w]))
      BY <2>2 DEF Restore, WorkInv, PlaceOf
    <3>2. /\ WithMetadata(dir[target[w]], cur[w]).mode = cur[w]
          /\ WithMetadata(dir[target[w]], cur[w]).data = dir[target[w]].data
          /\ WithMetadata(dir[target[w]], cur[w]).xattrs = dir[target[w]].xattrs
      BY <2>1 DEF WithMetadata, EntryType
    <3>3. CASE n = target[w]
      BY <1>3, <2>1, <3>1, <3>2, <3>3 DEF Put
    <3>4. CASE n # target[w]
      BY <1>3, <3>1, <3>4 DEF Put
    <3> QED
      BY <3>3, <3>4
  <2>3. CASE CopyXattrs(w) /\ ~UNCHANGED dir
    <3> DEFINE e == [dir[target[w]] EXCEPT !.xattrs = cur[w]]
    <3>1. Put(target[w], e)
      BY <2>3 DEF CopyXattrs
    <3>2. e.xattrs = cur[w] /\ e.data = dir[target[w]].data /\ e.mode = dir[target[w]].mode
      BY <2>1 DEF EntryType
    <3> HIDE DEF e
    <3>3. CASE n = target[w]
      BY <1>3, <2>1, <3>1, <3>2, <3>3 DEF Put
    <3>4. CASE n # target[w]
      BY <1>3, <3>1, <3>4 DEF Put
    <3> QED
      BY <3>3, <3>4
  <2>4. Restore(w) \/ CopyXattrs(w)
    BY <2>1
    DEF At, ProcessFile, Take, Answer, LookForOld, TryName, Aside, Start, Tick,
        TransferRename, TransferCopy, TransferFail, Unlink, Complete, Load, SendProgress
  <2> QED
    BY <1>4, <2>2, <2>3, <2>4
<1> QED
  BY <1>4, <1>5, <1>6, <1>7, DirSteps

LEMMA FitsInit == Init => FitsInv
<1> SUFFICES ASSUME Init, NEW n \in DOMAIN dir
             PROVE  dir[n].mode = dir[n].data /\ dir[n].xattrs = dir[n].data
  BY DEF FitsInv, Fits
<1> QED
  BY DEF Init

-----------------------------------------------------------------------------
(* What a completed file is                                                *)

LEMMA SourceWorker ==
  ASSUME TypeInv, WorkInv, SourceInv, NEW w \in Worker, ProcessFile(w)
  PROVE  SourceInv'
<1>1. /\ UNCHANGED given /\ src' \subseteq src
      /\ \A v \in Worker : v # w => Same(v)
  BY Frame DEF Framed
<1> USE DEF TypeInv, TypeOK, CurInv, WorkInv, PlaceOf, At, Goto, Settle
<1> DEFINE After == {"restore", "xattrs", "count", "load", "send"}
<1>2. config.mode = "copy" => src' = src
  <2>1. CASE TransferRename(w) \/ TransferFail(w) \/ Unlink(w)
    BY <2>1 DEF TransferRename, TransferFail, Unlink
  <2> QED
    BY <2>1
    DEF ProcessFile, Take, Answer, LookForOld, TryName, Aside, Start, Tick,
        TransferCopy, Restore, CopyXattrs, Complete, Load, SendProgress
<1>3. config.mode = "move" /\ pc'[w] \in After =>
        cur'[w] \notin src' /\ cur'[w] = cur[w]
  <2>1. ASSUME NEW f \in File, Take(w, f) PROVE pc'[w] \notin After
    BY <2>1 DEF Take, worker
  <2>2. CASE Answer(w) \/ LookForOld(w) \/ TryName(w) \/ Aside(w)
    BY <2>2 DEF Answer, LookForOld, TryName, Aside
  <2>3. CASE Start(w) \/ Tick(w) \/ TransferFail(w)
    BY <2>3 DEF Start, Tick, worker, TransferFail
  <2>4. CASE TransferRename(w) \/ TransferCopy(w)
    BY <2>4 DEF TransferRename, TransferCopy
  <2>5. CASE Unlink(w)
    BY <2>5 DEF Unlink
  <2>6. CASE Restore(w) \/ CopyXattrs(w) \/ Complete(w) \/ Load(w)
    BY <2>6 DEF Restore, CopyXattrs, Complete, Load, SourceInv
  <2>7. CASE SendProgress(w)
    BY <2>7 DEF SendProgress
  <2> QED
    BY <2>1, <2>2, <2>3, <2>4, <2>5, <2>6, <2>7 DEF ProcessFile
<1>4. ASSUME config.mode = "move", NEW f \in File, status'[f] = "done"
      PROVE  f \notin src'
  <2>1. CASE status[f] = "done"
    BY <1>1, <1>4, <2>1 DEF SourceInv
  <2>2. CASE status[f] # "done"
    <3>1. Complete(w)
      BY <1>4, <2>2, DoneStep
    <3>2. f = cur[w] /\ pc[w] = "count"
      BY <1>4, <2>2, <3>1 DEF Complete
    <3> QED
      BY <1>1, <1>4, <3>2 DEF SourceInv
  <2> QED
    BY <2>1, <2>2
<1> QED
  BY <1>1, <1>2, <1>3, <1>4 DEF SourceInv, Same, given

LEMMA KeepsLater ==
  ASSUME TypeInv, TypeInv', UNCHANGED given, faults <= faults'
  PROVE  (KeepsMode' => KeepsMode) /\ (KeepsXattrs' => KeepsXattrs)
BY DEF KeepsMode, KeepsXattrs, given, TypeInv, TypeOK

LEMMA AttrOther ==
  ASSUME TypeInv, WorkInv, Exclusive, NEW w \in Worker, ProcessFile(w),
         NEW v \in Worker, v # w, AttrOf(v), Exclusive, HoldOf(v)
  PROVE  AttrOf(v)'
<1>1. /\ Same(v) /\ UNCHANGED given
      /\ KeepsMode' => KeepsMode
      /\ KeepsXattrs' => KeepsXattrs
  BY Frame, TypeWorker, KeepsLater DEF Framed
<1>2. pc[v] # "idle" /\ target[v] \in DOMAIN dir => dir'[target[v]] = dir[target[v]]
  BY Undisturbed
<1>3. pc[v] \in HasXattrs \cup {"xattrs", "count"} =>
        pc[v] # "idle" /\ target[v] \in DOMAIN dir
  BY DEF HasXattrs, HoldOf, Holding, Exists
<1>4. HasXattrs' = HasXattrs
  BY <1>1 DEF HasXattrs, given
<1>5. /\ pc'[v] = pc[v] /\ snap'[v] = snap[v] /\ cur'[v] = cur[v]
      /\ target'[v] = target[v]
  BY <1>1 DEF Same
<1> QED
  BY <1>1, <1>2, <1>3, <1>4, <1>5 DEF AttrOf

LEMMA AttrOwn ==
  ASSUME TypeInv, WorkInv, SourceInv, NEW w \in Worker, ProcessFile(w),
         AttrOf(w), HoldOf(w)
  PROVE  AttrOf(w)'
<1>1. /\ UNCHANGED given
      /\ KeepsMode' => KeepsMode
      /\ KeepsXattrs' => KeepsXattrs
  BY Frame, TypeWorker, KeepsLater DEF Framed
<1>2. HasXattrs' = HasXattrs
  BY <1>1 DEF HasXattrs, given
<1>3. /\ config.mode \in {"copy", "move"} /\ config.sameFs \in BOOLEAN
      /\ config.metadata \in BOOLEAN /\ config.xattrs \in BOOLEAN
      /\ faults \in Nat
  BY GivenTypes DEF TypeInv, TypeOK
<1> USE DEF TypeInv, TypeOK, CurInv, At, Goto, Settle, AttrOf, HasXattrs
<1> DEFINE Places == {"transfer", "unlink", "restore", "xattrs", "count"}
<1>4. CASE pc'[w] \notin Places
  BY <1>4
<1>5. ASSUME NEW f \in File, Take(w, f) PROVE AttrOf(w)'
  <2>1. pc'[w] \notin Places
    BY <1>5 DEF Take, worker
  <2> QED
    BY <1>4, <2>1
<1>6. CASE Answer(w) \/ LookForOld(w) \/ TryName(w) \/ Aside(w) \/ TransferFail(w)
  BY <1>4, <1>6 DEF Answer, LookForOld, TryName, Aside, TransferFail
<1>7. CASE Start(w)
  <2>1. pc'[w] = "transfer" /\ cur'[w] = cur[w] /\ config' = config
    BY <1>1, <1>7 DEF Start, given
  <2>2. KeepsMode' => snap'[w] = cur[w]
    BY <1>3, <1>7, <2>1 DEF Start, Captured, NoFault, Fault, KeepsMode
  <2> QED
    BY <2>1, <2>2
<1>8. CASE Tick(w)
  BY <1>1, <1>2, <1>8 DEF Tick, worker
<1>9. CASE TransferRename(w)
  <2>1. /\ pc[w] = "transfer" /\ pc'[w] = "restore" /\ snap'[w] = snap[w]
        /\ cur'[w] = cur[w] /\ target'[w] = target[w]
        /\ Put(target[w], Moved(cur[w]))
    BY <1>9 DEF TransferRename
  <2>2. dir'[target[w]].xattrs = cur[w]
    BY <2>1 DEF Put, Moved
  <2> QED
    BY <1>1, <2>1, <2>2
<1>10. CASE TransferCopy(w)
  <2>1. /\ pc[w] = "transfer" /\ snap'[w] = snap[w] /\ cur'[w] = cur[w]
        /\ pc'[w] = IF config.mode = "move" THEN "unlink" ELSE "restore"
        /\ config' = config
    BY <1>1, <1>10 DEF TransferCopy, given
  <2>2. config.mode = "move" => ~KeepsXattrs'
    BY <1>3, <1>10, <2>1 DEF TransferCopy, Fault, KeepsXattrs
  <2> QED
    BY <1>1, <1>2, <2>1, <2>2
<1>11. CASE Unlink(w)
  <2>1. CASE Goto(w, "restore")
    BY <1>1, <1>2, <1>11, <2>1 DEF Unlink
  <2>2. CASE Settle(w, "failed")
    BY <1>4, <2>2
  <2> QED
    BY <1>11, <2>1, <2>2 DEF Unlink
<1>12. CASE Restore(w)
  <2>1. /\ pc[w] = "restore" /\ pc'[w] = "xattrs" /\ snap'[w] = snap[w]
        /\ cur'[w] = cur[w] /\ target'[w] = target[w] /\ cur[w] # None
        /\ Exists(target[w]) /\ dir[target[w]] \in EntryType
    BY <1>12 DEF Restore, HoldOf, Holding, Exists, EntryType
  <2>2. /\ WithMetadata(dir[target[w]], snap[w]).mode = snap[w]
        /\ WithMetadata(dir[target[w]], snap[w]).xattrs = dir[target[w]].xattrs
    BY <2>1 DEF WithMetadata, EntryType
  <2>3. /\ UNCHANGED dir \/ Put(target[w], WithMetadata(dir[target[w]], snap[w]))
        /\ KeepsMode' /\ snap[w] = cur[w] =>
             Put(target[w], WithMetadata(dir[target[w]], snap[w]))
    BY <1>3, <1>12, <2>1 DEF Restore, Fault, KeepsMode
  <2>4. /\ dir'[target[w]].xattrs = dir[target[w]].xattrs
        /\ KeepsMode' /\ snap[w] = cur[w] => dir'[target[w]].mode = cur[w]
    BY <2>2, <2>3 DEF Put
  <2>5. KeepsMode' => dir'[target[w]].mode = cur[w]
    BY <1>1, <2>1, <2>4
  <2>6. KeepsXattrs' /\ config.mode = "move" => dir'[target[w]].xattrs = cur[w]
    BY <1>1, <2>1, <2>4
  <2>7. "xattrs" \in HasXattrs' => config.mode = "move"
    <3>1. config.mode # "move" => HasXattrs = {"count"}
      OBVIOUS
    <3> HIDE DEF HasXattrs
    <3> QED
      BY ONLY <1>2, <3>1
  <2>8. KeepsXattrs' /\ "xattrs" \in HasXattrs' => dir'[target[w]].xattrs = cur[w]
    BY <2>6, <2>7
  <2> QED
    BY <2>1, <2>5, <2>8
<1>13. CASE CopyXattrs(w)
  <2>1. /\ pc[w] = "xattrs" /\ pc'[w] = "count" /\ cur'[w] = cur[w] /\ cur[w] \in File
        /\ target'[w] = target[w] /\ config' = config
        /\ Exists(target[w]) /\ dir[target[w]] \in EntryType
    BY <1>1, <1>13 DEF CopyXattrs, HoldOf, Holding, Exists, EntryType, given
  <2> DEFINE e == [dir[target[w]] EXCEPT !.xattrs = cur[w]]
  <2>2. e.xattrs = cur[w] /\ e.mode = dir[target[w]].mode
    BY <2>1 DEF EntryType
  <2>3. UNCHANGED dir \/ Put(target[w], e)
    BY <1>13 DEF CopyXattrs
  <2>4. KeepsXattrs' /\ cur[w] \in src => Put(target[w], e)
    BY <1>3, <1>13, <2>1 DEF CopyXattrs, Fault, KeepsXattrs
  <2> HIDE DEF e
  <2>5. dir'[target[w]].mode = dir[target[w]].mode
    BY <2>2, <2>3 DEF Put
  <2>6. KeepsXattrs' => dir'[target[w]].xattrs = cur[w]
    <3>1. CASE config.mode = "copy"
      BY <2>1, <2>2, <2>4, <3>1 DEF SourceInv, Put
    <3>2. CASE config.mode = "move"
      BY <1>1, <2>1, <2>2, <2>3, <3>2 DEF Put
    <3> QED
      BY <1>3, <3>1, <3>2
  <2> QED
    BY <1>1, <1>2, <2>1, <2>5, <2>6
<1>14. CASE Complete(w) \/ Load(w) \/ SendProgress(w)
  BY <1>4, <1>14 DEF Complete, Load, SendProgress
<1> QED
  BY <1>5, <1>6, <1>7, <1>8, <1>9, <1>10, <1>11, <1>12, <1>13, <1>14 DEF ProcessFile

LEMMA AttrWorker ==
  ASSUME TypeInv, WorkInv, HoldInv, SourceInv, AttrInv, NEW w \in Worker, ProcessFile(w)
  PROVE  AttrInv'
<1>1. Apart' <=> Apart
  BY Frame, GivenSame DEF Framed
<1> QED
  BY <1>1, AttrOwn, AttrOther DEF AttrInv, HoldInv, Exclusive

\* A file that is done is on no worker that still touches the destination.
LEMMA DeliveredWorker ==
  ASSUME TypeInv, WorkInv, LyingInv, HoldInv, AttrInv, DeliveredInv,
         NEW w \in Worker, ProcessFile(w)
  PROVE  DeliveredInv'
<1>1. /\ Apart' <=> Apart
      /\ UNCHANGED given
      /\ KeepsMode' => KeepsMode
      /\ KeepsXattrs' => KeepsXattrs
  BY Frame, GivenSame, TypeWorker, KeepsLater DEF Framed
<1> SUFFICES ASSUME Apart, NEW f \in File, status'[f] = "done" PROVE Delivered(f)'
  BY <1>1 DEF DeliveredInv
<1>2. CASE status[f] = "done"
  <2>1. PICK n \in DOMAIN dir : /\ dir[n].data = f
                                /\ KeepsMode => dir[n].mode = f
                                /\ KeepsXattrs => dir[n].xattrs = f
    BY <1>2 DEF DeliveredInv, Delivered
  <2>2. n \in DOMAIN dir' /\ dir'[n] = dir[n]
    <3>1. CASE f # cur[w]
      <4>1. n \in Name /\ IsPrefix(plan[f], n)
        BY <2>1 DEF TypeInv, TypeOK, LyingInv
      <4> QED
        BY <2>1, <3>1, <4>1, Elsewhere
    <3>2. CASE f = cur[w]
      <4>1. pc[w] \in {"load", "send"}
        BY <1>2, <3>2 DEF WorkInv, PlaceOf, TypeInv, CurInv
      <4> QED
        BY <2>1, <4>1, DirSteps DEF Publishes, Adorns, Displaces
    <3> QED
      BY <3>1, <3>2
  <2> QED
    BY <1>1, <2>1, <2>2 DEF Delivered
<1>3. CASE status[f] # "done"
  <2>1. Complete(w)
    BY <1>3, DoneStep
  <2>2. f = cur[w] /\ pc[w] = "count" /\ UNCHANGED <<dir, faults>>
    BY <1>3, <2>1 DEF Complete, At, TypeInv, TypeOK
  <2>3. target[w] \in DOMAIN dir /\ dir[target[w]].data = f
    BY <2>2 DEF HoldInv, HoldOf, Holding, Exclusive, Exists
  <2>4. /\ KeepsMode => dir[target[w]].mode = f
        /\ KeepsXattrs => dir[target[w]].xattrs = f
    BY <2>2 DEF AttrInv, AttrOf, HasXattrs
  <2> QED
    BY <1>1, <2>2, <2>3, <2>4 DEF Delivered
<1> QED
  BY <1>2, <1>3

-----------------------------------------------------------------------------
(* Counters and events                                                     *)

LEMMA CountWorker ==
  ASSUME TypeInv, WorkInv, CountInv, NEW w \in Worker, ProcessFile(w)
  PROVE  CountInv'
<1> DEFINE Done == {f \in File : status[f] = "done"}
<1>1. CASE Complete(w)
  <2>1. /\ cur[w] \in File /\ status[cur[w]] = "busy"
        /\ status' = [status EXCEPT ![cur[w]] = "done"] /\ filesDone' = filesDone + 1
    BY <1>1 DEF Complete, At, WorkInv, PlaceOf, TypeInv, TypeOK, CurInv
  <2>2. Done' = Done \cup {cur[w]} /\ cur[w] \notin Done
    BY <2>1 DEF TypeInv, TypeOK
  <2>3. IsFiniteSet(Done)
    BY FS_Subset
  <2>4. Cardinality(Done') = Cardinality(Done) + 1
    BY <2>2, <2>3, FS_AddElement
  <2> QED
    BY <2>1, <2>4 DEF CountInv
<1>2. CASE ~Complete(w)
  <2>1. Done' = Done
    BY <1>2, DoneStep
  <2>2. filesDone' = filesDone
    BY <1>2 DEF ProcessFile, Take, Answer, LookForOld, TryName, Aside, Start, Tick,
                TransferRename, TransferCopy, TransferFail, Unlink, Restore, CopyXattrs,
                Load, SendProgress
  <2> QED
    BY <2>1, <2>2 DEF CountInv
<1> QED
  BY <1>1, <1>2

\* Whoever counts last has yet to load the counter, so the last snapshot taken
\* is complete even if it is not the last one sent.
LEMMA SnapshotWorker ==
  ASSUME TypeInv, SnapshotInv, NEW w \in Worker, ProcessFile(w)
  PROVE  SnapshotInv'
<1>1. \A v \in Worker : v # w => Same(v)
  BY Frame DEF Framed
<1>2. filesDone \in Nat /\ told \in Nat /\ \A v \in Worker : seen[v] \in Nat
  BY DEF TypeInv, TypeOK
<1> USE DEF TypeInv, TypeOK, At, Goto, Settle, SnapshotInv, Same
<1>3. CASE Complete(w)
  <2>1. /\ filesDone' = filesDone + 1 /\ pc'[w] = "load" /\ seen' = seen /\ told' = told
    BY <1>3 DEF Complete
  <2> QED
    BY <1>2, <2>1
<1>4. CASE Load(w)
  <2>1. /\ filesDone' = filesDone /\ pc'[w] = "send" /\ seen'[w] = filesDone
        /\ told' = told
    BY <1>4 DEF Load
  <2> QED
    BY <1>1, <1>2, <2>1
<1>5. CASE SendProgress(w)
  <2>1. /\ filesDone' = filesDone /\ seen'[w] = 0
        /\ told' = IF seen[w] > told THEN seen[w] ELSE told
        /\ pc[w] = "send"
    BY <1>5 DEF SendProgress, Highest
  <2> QED
    BY <1>1, <1>2, <2>1
<1>6. CASE Tick(w)
  BY <1>2, <1>6 DEF Tick, Highest, worker
<1>7. CASE ~(Complete(w) \/ Load(w) \/ SendProgress(w) \/ Tick(w))
  <2>1. /\ UNCHANGED <<filesDone, told>> /\ pc[w] \notin {"load", "send"}
        /\ seen'[w] \in {0, seen[w]}
    <3>1. ASSUME NEW f \in File, Take(w, f)
          PROVE  UNCHANGED <<filesDone, told, seen>> /\ pc[w] \notin {"load", "send"}
      BY <3>1 DEF Take, worker
    <3>2. CASE Answer(w) \/ TransferFail(w) \/ Unlink(w)
      BY <3>2 DEF Answer, TransferFail, Unlink
    <3>3. CASE LookForOld(w) \/ TryName(w) \/ Aside(w) \/ Start(w)
      BY <3>3 DEF LookForOld, TryName, Aside, Start
    <3>4. CASE TransferRename(w) \/ TransferCopy(w) \/ Restore(w) \/ CopyXattrs(w)
      BY <3>4 DEF TransferRename, TransferCopy, Restore, CopyXattrs
    <3> QED
      BY <1>7, <3>1, <3>2, <3>3, <3>4 DEF ProcessFile
  <2>2. \A v \in Worker : seen'[v] \in {0, seen[v]}
    BY <1>1, <2>1
  <2>3. ASSUME told < filesDone
        PROVE  \E v \in Worker :
                 pc'[v] = "load" \/ (pc'[v] = "send" /\ seen'[v] = filesDone)
    <3>1. PICK v \in Worker : pc[v] = "load" \/ (pc[v] = "send" /\ seen[v] = filesDone)
      BY <2>3
    <3>2. v # w
      BY <2>1, <3>1
    <3> QED
      BY <1>1, <3>1, <3>2
  <2>4. \A v \in Worker : seen'[v] <= filesDone
    BY <1>2, <2>2
  <2> QED
    BY <1>2, <2>1, <2>3, <2>4
<1> QED
  BY <1>3, <1>4, <1>5, <1>6, <1>7
-----------------------------------------------------------------------------
(* The theorems                                                            *)

LEMMA InvInit == Init => TypeInv /\ IInv
<1> SUFFICES ASSUME Init PROVE IInv
  BY TypeInit
<1>1. /\ \A w \in Worker : pc[w] = "idle" /\ seen[w] = 0
      /\ \A f \in File : status[f] = "todo"
      /\ filesDone = 0 /\ told = 0 /\ src = File
  BY DEF Init, All
<1>2. ThereInv /\ FreeInv /\ HoldInv /\ AttrInv
  BY <1>1 DEF ThereInv, ThereOf, FreeInv, FreeOf, HoldInv, HoldOf, Holding, AttrInv, AttrOf, HasXattrs
<1>3. SourceInv /\ DeliveredInv /\ SnapshotInv
  BY <1>1 DEF SourceInv, DeliveredInv, SnapshotInv
<1>4. CountInv
  <2>1. {f \in File : status[f] = "done"} = {}
    BY <1>1
  <2> QED
    BY <1>1, <2>1, FS_EmptySet DEF CountInv
<1> QED
  BY <1>2, <1>3, <1>4, WorkInit, LyingInit, LostInit, FitsInit DEF IInv

LEMMA InvRelaunch == TypeInv /\ IInv /\ Relaunch => IInv'
<1> SUFFICES ASSUME TypeInv, IInv, Relaunch PROVE IInv'
  OBVIOUS
<1>1. /\ \A w \in Worker : pc'[w] = "idle" /\ seen'[w] = 0
      /\ \A f \in File : status'[f] # "done"
      /\ filesDone' = 0 /\ told' = 0
      /\ UNCHANGED <<given, src, dir, overrun, faults>>
  BY DEF Relaunch, All
<1>2. /\ Apart' <=> Apart
      /\ OneByOne' <=> OneByOne
      /\ Renames' <=> Renames
      /\ UNCHANGED <<config, plan, old>>
  BY <1>1, GivenSame DEF given
<1>3. ThereInv' /\ FreeInv' /\ HoldInv' /\ AttrInv'
  BY <1>1, <1>2 DEF ThereInv, ThereOf, FreeInv, FreeOf, HoldInv, HoldOf, Holding, AttrInv, AttrOf, HasXattrs
<1>4. SourceInv' /\ DeliveredInv' /\ SnapshotInv'
  BY <1>1, <1>2 DEF IInv, SourceInv, DeliveredInv, SnapshotInv
<1>5. CountInv'
  <2>1. {f \in File : status'[f] = "done"} = {}
    BY <1>1
  <2> QED
    BY <1>1, <2>1, FS_EmptySet DEF CountInv
<1>6. NothingLost' /\ LyingInv'
  BY <1>1, <1>2 DEF IInv, NothingLost, LyingInv, Kept
<1>8. FitsInv'
  BY <1>1, FitsSame DEF IInv, FitsInv
<1>7. WorkInv'
  BY WorkStep DEF Next, IInv
<1> QED
  BY <1>3, <1>4, <1>5, <1>6, <1>7, <1>8 DEF IInv

LEMMA InvStill == IInv /\ UNCHANGED vars => IInv'
<1> SUFFICES ASSUME IInv, UNCHANGED vars PROVE IInv'
  OBVIOUS
<1>1. UNCHANGED <<given, worker, src, dir, status, filesDone, told, overrun, faults>>
  BY DEF vars
<1>2. /\ Apart' <=> Apart
      /\ OneByOne' <=> OneByOne
      /\ Renames' <=> Renames
      /\ Exclusive' <=> Exclusive
      /\ UNCHANGED <<config, plan, old, pc, cur, target, suffix, snap, seen>>
  BY <1>1, GivenSame DEF given, worker
<1> USE DEF IInv
<1>3. WorkInv' /\ LyingInv'
  BY <1>1, <1>2 DEF WorkInv, AloneInv, PlaceOf, LyingInv
<1>4. ThereInv' /\ FreeInv' /\ HoldInv'
  BY <1>1, <1>2 DEF ThereInv, ThereOf, Nested, FreeInv, FreeOf, HoldInv, HoldOf, Exists
<1>5. SourceInv' /\ SnapshotInv' /\ CountInv'
  BY <1>1, <1>2 DEF SourceInv, SnapshotInv, CountInv
<1>6. AttrInv' /\ DeliveredInv'
  BY <1>1, <1>2 DEF AttrInv, AttrOf, DeliveredInv, Delivered, KeepsMode, KeepsXattrs,
                    HasXattrs
<1>7. NothingLost'
  BY <1>1, <1>2 DEF NothingLost, Kept
<1>8. FitsInv'
  BY <1>1, FitsSame DEF FitsInv
<1> QED
  BY <1>3, <1>4, <1>5, <1>6, <1>7, <1>8

LEMMA InvStep == TypeInv /\ IInv /\ [Next]_vars => TypeInv' /\ IInv'
<1> SUFFICES ASSUME TypeInv, IInv, [Next]_vars PROVE IInv'
  BY TypeStep
<1>1. ASSUME NEW w \in Worker, ProcessFile(w) PROVE IInv'
  BY <1>1, WorkStep, LyingWorker, FreeWorker, HoldWorker, SourceWorker, AttrWorker,
     DeliveredWorker, SnapshotWorker, CountWorker, LostWorker, ThereWorker, FitsWorker DEF IInv, Next
<1> QED
  BY <1>1, InvRelaunch, InvStill DEF Next, Finished

\* The variables keep their types; in particular a name stays a name however
\* often numbers are appended, and what lies in the destination is whole.
THEOREM TypeCorrect == Spec => []TypeOK
<1>1. TypeInv => TypeOK
  BY DEF TypeInv
<1> QED
  BY <1>1, TypeInit, TypeStep, PTL DEF Spec

\* The parts of the inductive invariant hold in every reachable state.
THEOREM InvariantHolds == Spec => []IInv
<1> QED
  BY InvInit, InvStep, PTL DEF Spec

\* Any number of workers, kills and failures: no content of the plan or of the
\* destination is lost, where names are not shared or files go one by one.
THEOREM NothingLostHolds == Spec => []NothingLost
<1>1. IInv => NothingLost
  BY DEF IInv
<1> QED
  BY <1>1, InvariantHolds, PTL

\* What a worker restores late (engine.rs:701) may land on another worker's file, for
\* which RenameOld (engine.rs:589) or a shared destination made room.  Whatever plans,
\* workers and interleavings there are, that is a file whose name starts with the
\* planned destinations of both, or an old one that was moved below another's.
THEOREM MetadataStayInReachHolds == Spec => []MetadataStayInReach
<1>1. IInv => MetadataStayInReach
  BY FitsMeans DEF IInv
<1> QED
  BY <1>1, InvariantHolds, PTL

\* FileCompleted is true: the file is where it was sent, with what was to be
\* preserved, and a moved one is gone from the source.
THEOREM CompletedIsDeliveredHolds == Spec => []CompletedIsDelivered
<1>1. TypeInv /\ IInv => CompletedIsDelivered
  <2> SUFFICES ASSUME TypeInv, IInv, NEW f \in File, status[f] = "done"
               PROVE  /\ f \in src <=> config.mode = "copy"
                      /\ Apart => Delivered(f)
    BY DEF CompletedIsDelivered, Delivered, KeepsMode, KeepsXattrs
  <2>1. f \in src <=> config.mode = "copy"
    BY GivenTypes DEF IInv, SourceInv, TypeInv
  <2>2. Apart => Delivered(f)
    BY DEF IInv, DeliveredInv
  <2> QED
    BY <2>1, <2>2
<1> QED
  BY <1>1, InvInit, InvStep, PTL DEF Spec

\* However the workers' snapshots race, none counts too much, and the highest
\* one sent counts everything once they are done.
THEOREM ProgressIsHonestHolds == Spec => []ProgressIsHonest
<1>1. TypeInv /\ IInv => ProgressIsHonest
  <2> SUFFICES ASSUME TypeInv, IInv PROVE ProgressIsHonest
    OBVIOUS
  <2>1. filesDone \in Nat /\ told \in Nat /\ told <= filesDone
    BY DEF TypeInv, TypeOK, IInv, SnapshotInv
  <2>2. Quiet => ~(told < filesDone)
    BY DEF IInv, SnapshotInv, Quiet
  <2> QED
    BY <2>1, <2>2 DEF ProgressIsHonest, IInv, CountInv
<1> QED
  BY <1>1, InvInit, InvStep, PTL DEF Spec
=============================================================================
