------------------------- MODULE TransferRefinement -------------------------
(***************************************************************************)
(* Transfer without reflinks implements AtomicCopy: what a reader sees of  *)
(* the sources and the destinations, now and after a power loss, changes   *)
(* as it does when each copy is one step.                                  *)
(***************************************************************************)
EXTENDS TransferProofs

\* The paths that AtomicCopy knows; the partial copies are not among them.
Shown == {Src(j) : j \in Job} \cup {Dst(j) : j \in Job}
Sources == {SrcOf[j] : j \in Job}

\* Stable and View of other contents than the present ones.
Holding(d, dat, syn, p) ==
  IF d[p] = NoFile THEN Absent
  ELSE IF syn[d[p]] = Len(dat[d[p]]) THEN dat[d[p]] ELSE AtRisk
ViewOf(d, dat, syn) ==
  [src |-> [x \in Sources |-> Holding(d, dat, syn, <<"src", x>>)],
   dst |-> [n \in Dest |-> Holding(d, dat, syn, <<"dst", n>>)]]

LEMMA ShownFacts ==
  /\ \A x \in Sources : <<"src", x>> \in Shown
  /\ \A n \in Dest : <<"dst", n>> \in Shown
  /\ \A j \in Job : /\ SrcOf[j] \in Sources /\ DstOf[j] \in Dest
                    /\ Src(j) \in Shown /\ Dst(j) \in Shown
  /\ Shown \subseteq Path
  /\ \A p \in Shown : \/ \E x \in Sources : p = <<"src", x>>
                      \/ \E n \in Dest : p = <<"dst", n>>
<1>1. \A j \in Job : /\ SrcOf[j] \in Sources /\ DstOf[j] \in Dest
                     /\ Src(j) = <<"src", SrcOf[j]>> /\ Dst(j) = <<"dst", DstOf[j]>>
                     /\ Src(j) \in Path /\ Dst(j) \in Path
  BY PathFacts DEF Sources, Src, Dst
<1>2. /\ \A x \in Sources : \E j \in Job : x = SrcOf[j]
      /\ \A n \in Dest : \E j \in Job : n = DstOf[j]
  BY DEF Sources, Dest
<1>3. \A p : p \in Shown <=> \E j \in Job : p = Src(j) \/ p = Dst(j)
  BY DEF Shown
<1> QED
  BY <1>1, <1>2, <1>3

LEMMA ViewIs ==
  /\ Present = ViewOf(dir, data, synced)
  /\ Present' = ViewOf(dir', data', synced')
  /\ Views = {ViewOf(d, data, synced) : d \in disk}
  /\ Views' = {ViewOf(d, data', synced') : d \in disk'}
<1>1. \A d : View(d) = ViewOf(d, data, synced)
  BY DEF View, ViewOf, Stable, Holding, Sources
<1>2. \A d : View(d)' = ViewOf(d, data', synced')
  BY DEF View, ViewOf, Stable, Holding, Sources
<1>3. Present' = ViewOf(dir', data', synced')
  BY DEF Present, View, ViewOf, Stable, Holding, Sources
<1> QED
  BY <1>1, <1>2, <1>3 DEF Present, Views

LEMMA ViewValue ==
  ASSUME NEW d, NEW dat, NEW syn
  PROVE  /\ \A x \in Sources : ViewOf(d, dat, syn).src[x] = Holding(d, dat, syn, <<"src", x>>)
         /\ \A n \in Dest : ViewOf(d, dat, syn).dst[n] = Holding(d, dat, syn, <<"dst", n>>)
BY DEF ViewOf

\* Views that agree on every path that is shown are the same.
LEMMA ViewSame ==
  ASSUME NEW d, NEW dat, NEW syn, NEW e, NEW dat2, NEW syn2,
         \A p \in Shown : Holding(d, dat, syn, p) = Holding(e, dat2, syn2, p)
  PROVE  ViewOf(d, dat, syn) = ViewOf(e, dat2, syn2)
<1>1. \A x \in Sources : Holding(d, dat, syn, <<"src", x>>) = Holding(e, dat2, syn2, <<"src", x>>)
  BY ShownFacts
<1>2. \A n \in Dest : Holding(d, dat, syn, <<"dst", n>>) = Holding(e, dat2, syn2, <<"dst", n>>)
  BY ShownFacts
<1> QED
  BY <1>1, <1>2 DEF ViewOf

\* A state with the sources of one and the destinations of another shows both.
LEMMA ViewMixed ==
  ASSUME NEW d, NEW e, NEW dat, NEW syn
  PROVE  ViewOf(Mixed(d, e), dat, syn) =
           [src |-> ViewOf(d, dat, syn).src, dst |-> ViewOf(e, dat, syn).dst]
<1>1. \A x \in Sources : Mixed(d, e)[<<"src", x>>] = d[<<"src", x>>]
  BY ShownFacts DEF Mixed
<1>2. \A n \in Dest : Mixed(d, e)[<<"dst", n>>] = e[<<"dst", n>>]
  BY ShownFacts DEF Mixed
<1>3. \A x \in Sources :
        Holding(Mixed(d, e), dat, syn, <<"src", x>>) = Holding(d, dat, syn, <<"src", x>>)
  BY <1>1 DEF Holding
<1>4. \A n \in Dest :
        Holding(Mixed(d, e), dat, syn, <<"dst", n>>) = Holding(e, dat, syn, <<"dst", n>>)
  BY <1>2 DEF Holding
<1> QED
  BY <1>3, <1>4 DEF ViewOf
-----------------------------------------------------------------------------
(* What a step may do to the views                                         *)

\* No file that is shown in any state is written to or synced.
Quiet ==
  \A d \in disk : \A p \in Shown : d[p] # NoFile =>
    data'[d[p]] = data[d[p]] /\ synced'[d[p]] = synced[d[p]]

LEMMA QuietViews ==
  ASSUME Quiet, NEW d \in disk
  PROVE  ViewOf(d, data', synced') = ViewOf(d, data, synced)
<1>1. \A p \in Shown : Holding(d, data', synced', p) = Holding(d, data, synced, p)
  BY DEF Quiet, Holding
<1> QED
  BY <1>1, ViewSame

LEMMA Unseen ==
  ASSUME TypeInv, Quiet, UNCHANGED <<dir, disk>>
  PROVE  UNCHANGED <<Present, Views>>
<1>1. ViewOf(dir', data', synced') = ViewOf(dir, data, synced)
  BY QuietViews, DirTypes
<1>2. {ViewOf(d, data', synced') : d \in disk'} = {ViewOf(d, data, synced) : d \in disk}
  BY QuietViews
<1> QED
  BY <1>1, <1>2, ViewIs

\* A change of names is a change of what is shown, and two file systems lose
\* it independently.
LEMMA Changes ==
  ASSUME TypeInv, Quiet, NEW newDir, SetDir(newDir)
  PROVE  Copy!Change(ViewOf(newDir, data', synced'))
<1> DEFINE v == ViewOf(newDir, data', synced')
           V == {ViewOf(d, data, synced) : d \in disk}
           W == {ViewOf(d, data', synced') : d \in disk'}
           Both == {[src |-> u.src, dst |-> w.dst] : u, w \in V \cup {v}}
<1>1. dir' = newDir
  BY DEF SetDir
<1>v. Present' = v /\ Views = V /\ Views' = W
  BY <1>1, ViewIs
<1>2. \A d \in disk \cup {newDir} : ViewOf(d, data', synced') \in V \cup {v}
  BY QuietViews
<1>3. \A z \in V \cup {v} : \E d \in disk \cup {newDir} : z = ViewOf(d, data', synced')
  BY QuietViews
<1>4. CASE config.sameFs
  <2>1. disk' = disk \cup {newDir}
    BY <1>4 DEF SetDir
  <2>2. \A z \in W : z \in V \cup {v}
    BY <1>2, <2>1
  <2>3. \A z \in V \cup {v} : z \in W
    BY <1>3, <2>1
  <2>4. W = V \cup {v}
    <3> HIDE DEF W, V, v
    <3> QED
      BY <2>2, <2>3
  <2> HIDE DEF v, V, W
  <2>5. Copy!Change(v)
    BY <1>v, <1>4, <2>4 DEF Copy!Change
  <2> QED
    BY <2>5 DEF v
<1>5. CASE ~config.sameFs
  <2>1. disk' = {Mixed(d, e) : d, e \in disk \cup {newDir}}
    BY <1>5 DEF SetDir
  <2>2. ASSUME NEW z \in W PROVE z \in Both
    <3>1. PICK d \in disk \cup {newDir}, e \in disk \cup {newDir} :
             z = ViewOf(Mixed(d, e), data', synced')
      BY <2>1
    <3>2. z = [src |-> ViewOf(d, data', synced').src, dst |-> ViewOf(e, data', synced').dst]
      BY <3>1, ViewMixed
    <3> HIDE DEF V, v
    <3> QED
      BY <1>2, <3>2
  <2>3. ASSUME NEW z \in Both PROVE z \in W
    <3> HIDE DEF V, v
    <3>1. PICK u \in V \cup {v}, w \in V \cup {v} : z = [src |-> u.src, dst |-> w.dst]
      OBVIOUS
    <3>2. PICK d \in disk \cup {newDir} : u = ViewOf(d, data', synced')
      BY <1>3
    <3>3. PICK e \in disk \cup {newDir} : w = ViewOf(e, data', synced')
      BY <1>3
    <3>4. z = ViewOf(Mixed(d, e), data', synced') /\ Mixed(d, e) \in disk'
      BY <2>1, <3>1, <3>2, <3>3, ViewMixed
    <3> QED
      BY <3>4
  <2>4. W = Both
    <3> HIDE DEF W, Both
    <3> QED
      BY <2>2, <2>3
  <2> HIDE DEF v, V, W
  <2>5. Copy!Change(v)
    BY <1>v, <1>5, <2>4 DEF Copy!Change
  <2> QED
    BY <2>5 DEF v
<1> QED
  BY <1>4, <1>5
-----------------------------------------------------------------------------
(* What AtomicCopy does not see                                            *)

Refines == [Copy!Next]_(Copy!vars)

LEMMA Stutters ==
  ASSUME UNCHANGED <<Present, Views, Stages, result, config>>
  PROVE  Refines
BY DEF Refines, Copy!vars

\* A partial copy is under no path that is shown, now or after a power loss.
LEMMA TmpNotShown ==
  ASSUME IInv, NEW j \in Job
  PROVE  /\ Tmp(j) \notin Shown
         /\ dir[Tmp(j)] # NoFile =>
              \A d \in disk : \A p \in Shown : d[p] # dir[Tmp(j)]
<1>1. Tmp(j) \notin Shown
  BY Distinctly, PathFacts DEF IInv, Shown
<1>2. Alone(Tmp(j))
  BY DEF IInv, AloneInv
<1> QED
  BY <1>1, <1>2, ShownFacts DEF Alone

LEMMA QuietTmp ==
  ASSUME IInv, NEW j \in Job, dir[Tmp(j)] # NoFile,
         \A i : i # dir[Tmp(j)] => data'[i] = data[i] /\ synced'[i] = synced[i]
  PROVE  Quiet
BY TmpNotShown DEF Quiet

\* Names that are not shown come and go unseen.
LEMMA HiddenNames ==
  ASSUME TypeInv, NamesInv, Quiet, NEW newDir, SetDir(newDir),
         \A p \in Shown : newDir[p] = dir[p]
  PROVE  UNCHANGED <<Present, Views>>
<1>1. ViewOf(newDir, data', synced') = Present
  <2>1. \A p \in Shown : Holding(newDir, data', synced', p) = Holding(dir, data, synced, p)
    BY DirTypes DEF Quiet, Holding
  <2> QED
    BY <2>1, ViewSame, ViewIs
<1>2. Copy!Change(Present)
  BY <1>1, Changes
<1>3. Present \in Views
  BY DirTypes, ViewIs
<1>4. ASSUME ~config.sameFs, NEW u \in Views, NEW w \in Views
      PROVE  [src |-> u.src, dst |-> w.dst] \in Views
  <2>1. PICK d \in disk : u = ViewOf(d, data, synced)
    BY ViewIs
  <2>2. PICK e \in disk : w = ViewOf(e, data, synced)
    BY ViewIs
  <2>3. Mixed(d, e) \in disk
    BY <1>4 DEF NamesInv
  <2> QED
    BY <2>1, <2>2, <2>3, ViewMixed, ViewIs
<1>5. ASSUME NEW u \in Views PROVE u = [src |-> u.src, dst |-> u.dst]
  BY ViewIs DEF ViewOf
<1>6. CASE config.sameFs
  BY <1>2, <1>3, <1>6 DEF Copy!Change
<1>7. CASE ~config.sameFs
  <2>1. Views' = {[src |-> u.src, dst |-> w.dst] : u, w \in Views \cup {Present}}
    BY <1>2, <1>7 DEF Copy!Change
  <2>2. Views' = {[src |-> u.src, dst |-> w.dst] : u, w \in Views}
    BY <1>3, <2>1
  <2>3. \A z \in Views' : z \in Views
    BY <1>4, <1>7, <2>2
  <2>4. \A z \in Views : z \in Views'
    BY <1>5, <2>2
  <2> QED
    BY <1>2, <2>3, <2>4 DEF Copy!Change
<1> QED
  BY <1>6, <1>7
-----------------------------------------------------------------------------
(* How far a call is                                                       *)

LEMMA StageGoes ==
  ASSUME TypeInv, NEW j \in Job, NEW w, pc' = [pc EXCEPT ![j] = w]
  PROVE  /\ Stages[j] = Stage(pc[j])
         /\ Stages' = [Stages EXCEPT ![j] = Stage(w)]
<1>1. \A k \in Job : Stage(pc'[k]) = IF k = j THEN Stage(w) ELSE Stage(pc[k])
  BY DEF TypeInv, TypeOK
<1>2. Stages' = [k \in Job |-> IF k = j THEN Stage(w) ELSE Stage(pc[k])]
  BY <1>1 DEF Stages
<1> QED
  BY <1>2 DEF Stages

LEMMA StageStays ==
  ASSUME TypeInv, NEW j \in Job, NEW w, pc' = [pc EXCEPT ![j] = w], Stage(w) = Stage(pc[j])
  PROVE  Stages' = Stages
<1>1. \A k \in Job : pc'[k] = IF k = j THEN w ELSE pc[k]
  BY DEF TypeInv, TypeOK
<1> QED
  BY <1>1 DEF Stages

Copying == PC \ {"syncdir", "unlink", "readback", "over", "down"}

LEMMA StageIs ==
  /\ \A w \in Copying : Stage(w) = "copying"
  /\ Stage("syncdir") = "placed" /\ Stage("unlink") = "committed"
  /\ Stage("readback") = "moved" /\ Stage("over") = "over" /\ Stage("down") = "down"
<1>1. \A w \in Copying : Stage(w) = "copying"
  BY DEF Copying, PC, Stage
<1> QED
  BY <1>1 DEF Stage

\* A step of the copying that neither the names nor the files show.
LEMMA GoesOn ==
  ASSUME TypeInv, NEW j \in Job, UNCHANGED <<Present, Views, config, result>>,
         pc[j] \in Copying, NEW w \in Copying, pc' = [pc EXCEPT ![j] = w]
  PROVE  Refines
BY StageStays, StageIs, Stutters

\* An error leaves the names and the files as they are.
LEMMA Fails ==
  ASSUME TypeInv, NEW j \in Job, UNCHANGED <<fsVars, config>>,
         pc[j] \in Copying \cup {"unlink", "readback"}, Finish(j, "err")
  PROVE  Refines
<1>1. UNCHANGED <<Present, Views>>
  BY DEF fsVars, Present, Views, View, Stable
<1>s. pc' = [pc EXCEPT ![j] = "over"] /\ result' = [result EXCEPT ![j] = "err"]
  BY DEF Finish
<1>2. Stages[j] \in {"copying", "committed", "moved"}
  BY <1>s, StageGoes, StageIs
<1>3. Stages' = [Stages EXCEPT ![j] = "over"]
  <2>1. Stages' = [Stages EXCEPT ![j] = Stage("over")]
    BY <1>s, StageGoes
  <2> QED
    BY <2>1, StageIs
<1>4. Copy!Fail(j)
  BY <1>1, <1>2, <1>3, <1>s DEF Copy!Fail, Copy!Finish
<1> QED
  BY <1>4 DEF Refines, Copy!Next
-----------------------------------------------------------------------------
(* The steps of a call                                                     *)

LEMMA SameFiles ==
  ASSUME UNCHANGED fsVars
  PROVE  UNCHANGED <<Present, Views>>
BY DEF fsVars, Present, Views, View, Stable

\* Without reflinks no call is at one.
LEMMA NoReflink ==
  ASSUME IInv, ~config.reflink, NEW j \in Job
  PROVE  pc[j] \notin Reflinking \cup {"reflink"}
BY AllCallsOk DEF CallOk, PlaceOk

LEMMA SilentSteps ==
  ASSUME TypeInv, IInv, ~config.reflink, NEW j \in Job,
         \/ Start(j) \/ MoveByCopy(j) \/ CheckTmp(j) \/ StatTmp(j)
         \/ VerifyPrefix(j) \/ EndOfSource(j) \/ SoftError(j)
  PROVE  Refines
<1>1. pc[j] \in Copying
  BY DEF Start, MoveByCopy, CheckTmp, StatTmp, VerifyPrefix, EndOfSource, SoftError,
         At, Copying, PC
<1>2. UNCHANGED <<fsVars, config, result>>
  BY DEF Start, MoveByCopy, CheckTmp, StatTmp, VerifyPrefix, EndOfSource, SoftError,
         Goto, runVars
<1>3. \E w \in Copying : pc' = [pc EXCEPT ![j] = w]
  <2>1. CASE Start(j) \/ MoveByCopy(j)
    BY <2>1 DEF Start, MoveByCopy, Goto, Copying, PC
  <2>2. CASE CheckTmp(j) \/ StatTmp(j)
    BY <2>2 DEF CheckTmp, StatTmp, Goto, Copying, PC
  <2>3. CASE VerifyPrefix(j) \/ EndOfSource(j)
    BY <2>3 DEF VerifyPrefix, EndOfSource, Goto, Copying, PC
  <2>4. CASE SoftError(j)
    BY <2>4 DEF SoftError, Goto, Copying, PC
  <2> QED
    BY <2>1, <2>2, <2>3, <2>4
<1>4. UNCHANGED <<Present, Views>>
  BY <1>2, SameFiles
<1> QED
  BY <1>1, <1>2, <1>3, <1>4, GoesOn

\* What a call finds wrong, and what the system refuses to do.
LEMMA Errors ==
  ASSUME TypeInv, IInv, NEW j \in Job,
         \/ IoError(j)
         \/ CompareSums(j)
         \/ CreateTmp(j) /\ dir[Tmp(j)] # NoFile
         \/ SyncTmp(j) /\ dir[Tmp(j)] = NoFile
         \/ Publish(j) /\ dir[Tmp(j)] = NoFile
  PROVE  Refines
<1>1. CASE CompareSums(j)
  <2>1. sum[j].src = sum[j].dst
    BY AllCallsOk DEF CallOk, PlaceOk
  <2>2. UNCHANGED <<fsVars, config, result>> /\ pc' = [pc EXCEPT ![j] = "fsync"]
    BY <1>1, <2>1 DEF CompareSums, Goto, runVars
  <2>3. pc[j] \in Copying /\ "fsync" \in Copying
    BY <1>1 DEF CompareSums, At, Copying, PC
  <2> QED
    BY <2>2, <2>3, SameFiles, GoesOn
<1>2. CASE ~CompareSums(j)
  <2>1. UNCHANGED <<fsVars, config>> /\ Finish(j, "err")
    BY <1>2 DEF IoError, CreateTmp, SyncTmp, Publish, Exists, runVars
  <2>2. pc[j] \in Copying \cup {"unlink", "readback"}
    BY <1>2 DEF IoError, CreateTmp, SyncTmp, Publish, At, Copying, PC
  <2> QED
    BY <2>1, <2>2, Fails
<1> QED
  BY <1>1, <1>2

\* The partial copy comes, grows and goes unseen.
LEMMA TmpRemoved ==
  ASSUME TypeInv, IInv, NEW j \in Job, ClearTmp(j) \/ Discard(j)
  PROVE  Refines
<1>1. /\ pc[j] \in Copying /\ UNCHANGED <<data, synced, config, result>>
      /\ SetDir([dir EXCEPT ![Tmp(j)] = NoFile])
  BY DEF ClearTmp, Discard, At, Remove, Goto, runVars, Copying, PC
<1>2. \E w \in Copying : pc' = [pc EXCEPT ![j] = w]
  BY DEF ClearTmp, Discard, Goto, Copying, PC
<1>3. Quiet
  BY <1>1 DEF Quiet
<1>4. \A p \in Shown : [dir EXCEPT ![Tmp(j)] = NoFile][p] = dir[p]
  BY TmpNotShown, ShownFacts DEF TypeInv, TypeOK
<1>5. UNCHANGED <<Present, Views>>
  BY <1>1, <1>3, <1>4, HiddenNames DEF IInv
<1> QED
  BY <1>1, <1>2, <1>5, GoesOn

LEMMA TmpCreated ==
  ASSUME TypeInv, IInv, NEW j \in Job, CreateTmp(j) \/ OpenTmp(j), dir[Tmp(j)] = NoFile
  PROVE  Refines
<1>1. /\ pc[j] \in Copying /\ UNCHANGED <<config, result>>
      /\ CreateEmpty(Tmp(j))
  BY DEF CreateTmp, OpenTmp, Exists, At, Goto, runVars, Copying, PC
<1>2. \E w \in Copying : pc' = [pc EXCEPT ![j] = w]
  BY DEF CreateTmp, OpenTmp, Exists, Goto, Copying, PC
<1>3. Quiet
  <2>1. \A d \in disk, p \in Path : d[p] # Fresh
    BY <1>1, FreshFacts DEF CreateEmpty, Gone
  <2>2. \A i : i # Fresh => data'[i] = data[i] /\ synced'[i] = synced[i]
    BY <1>1 DEF CreateEmpty
  <2> QED
    BY <2>1, <2>2, ShownFacts DEF Quiet
<1>4. \A p \in Shown : [dir EXCEPT ![Tmp(j)] = Fresh][p] = dir[p]
  BY TmpNotShown, ShownFacts DEF TypeInv, TypeOK
<1>5. SetDir([dir EXCEPT ![Tmp(j)] = Fresh])
  BY <1>1 DEF CreateEmpty
<1>6. UNCHANGED <<Present, Views>>
  BY <1>3, <1>4, <1>5, HiddenNames DEF IInv
<1> QED
  BY <1>1, <1>2, <1>6, GoesOn

LEMMA TmpWritten ==
  ASSUME TypeInv, IInv, NEW j \in Job,
         \/ OpenTmp(j) /\ dir[Tmp(j)] # NoFile
         \/ CopyBlock(j)
         \/ SyncTmp(j) /\ dir[Tmp(j)] # NoFile
  PROVE  Refines
<1>1. pc[j] \in Copying /\ UNCHANGED <<dir, disk, config, result>>
  BY DEF OpenTmp, CopyBlock, SyncTmp, SyncAll, Exists, At, Goto, fsVars, runVars, Copying, PC
<1>2. \E w \in Copying : pc' = [pc EXCEPT ![j] = w]
  <2>1. CASE CopyBlock(j)
    <3>1. pc' = [pc EXCEPT ![j] = pc[j]]
      BY <2>1 DEF CopyBlock, TypeInv, TypeOK
    <3> QED
      BY <1>1, <3>1
  <2> QED
    BY <2>1 DEF OpenTmp, SyncTmp, Exists, Goto, Copying, PC
<1>3. /\ dir[Tmp(j)] # NoFile
      /\ \A i : i # dir[Tmp(j)] => data'[i] = data[i] /\ synced'[i] = synced[i]
  <2>1. CASE CopyBlock(j)
    <3>1. fd[j] = dir[Tmp(j)] /\ fd[j] # NoFile
      BY <2>1, AllCallsOk DEF CallOk, PlaceOk, CopyBlock, At, Reflinking
    <3> QED
      BY <2>1, <3>1 DEF CopyBlock
  <2>2. CASE OpenTmp(j) /\ dir[Tmp(j)] # NoFile
    BY <2>2 DEF OpenTmp, Exists, fsVars
  <2>3. CASE SyncTmp(j) /\ dir[Tmp(j)] # NoFile
    <3>1. data' = data /\ synced' = [synced EXCEPT ![dir[Tmp(j)]] = Len(data[dir[Tmp(j)]])]
      BY <2>3 DEF SyncTmp, SyncAll, Exists
    <3> QED
      BY <2>3, <3>1
  <2> QED
    BY <2>1, <2>2, <2>3
<1>4. Quiet
  BY <1>3, QuietTmp
<1>5. UNCHANGED <<Present, Views>>
  BY <1>1, <1>4, Unseen
<1> QED
  BY <1>1, <1>2, <1>5, GoesOn

\* A view that differs in one destination, in one source.
LEMMA BothReplaced ==
  ASSUME NEW j \in Job, NEW d, NEW b, NEW c,
         Holding(d, data', synced', Src(j)) = b, Holding(d, data', synced', Dst(j)) = c,
         \A p \in Shown \ {Src(j), Dst(j)} :
           Holding(d, data', synced', p) = Holding(dir, data, synced, p)
  PROVE  ViewOf(d, data', synced') =
           [src |-> [Present.src EXCEPT ![SrcOf[j]] = b],
            dst |-> [Present.dst EXCEPT ![DstOf[j]] = c]]
<1>1. \A x \in Sources : Holding(d, data', synced', <<"src", x>>) =
        IF x = SrcOf[j] THEN b ELSE Holding(dir, data, synced, <<"src", x>>)
  BY ShownFacts DEF Src, Dst
<1>2. \A n \in Dest : Holding(d, data', synced', <<"dst", n>>) =
        IF n = DstOf[j] THEN c ELSE Holding(dir, data, synced, <<"dst", n>>)
  BY ShownFacts DEF Src, Dst
<1>3. /\ Present.src = [x \in Sources |-> Holding(dir, data, synced, <<"src", x>>)]
      /\ Present.dst = [n \in Dest |-> Holding(dir, data, synced, <<"dst", n>>)]
  BY ViewIs DEF ViewOf
<1>4. [Present.src EXCEPT ![SrcOf[j]] = b] =
        [x \in Sources |-> Holding(d, data', synced', <<"src", x>>)]
  BY <1>1, <1>3
<1>5. [Present.dst EXCEPT ![DstOf[j]] = c] =
        [n \in Dest |-> Holding(d, data', synced', <<"dst", n>>)]
  BY <1>2, <1>3
<1> QED
  BY <1>4, <1>5 DEF ViewOf

LEMMA DstReplaced ==
  ASSUME NEW j \in Job, NEW d, NEW c, Holding(d, data', synced', Dst(j)) = c,
         \A p \in Shown \ {Dst(j)} :
           Holding(d, data', synced', p) = Holding(dir, data, synced, p)
  PROVE  ViewOf(d, data', synced') =
           [src |-> Present.src, dst |-> [Present.dst EXCEPT ![DstOf[j]] = c]]
<1>1. Src(j) \in Shown \ {Dst(j)}
  BY ShownFacts, PathFacts
<1>2. Present.src = [x \in Sources |-> Holding(dir, data, synced, <<"src", x>>)]
  BY ViewIs DEF ViewOf
<1>3. [Present.src EXCEPT ![SrcOf[j]] = Holding(dir, data, synced, Src(j))] = Present.src
  BY <1>2, ShownFacts DEF Src
<1> QED
  BY <1>1, <1>3, BothReplaced

LEMMA SrcReplaced ==
  ASSUME NEW j \in Job, NEW d, NEW b, Holding(d, data', synced', Src(j)) = b,
         \A p \in Shown \ {Src(j)} :
           Holding(d, data', synced', p) = Holding(dir, data, synced, p)
  PROVE  ViewOf(d, data', synced') =
           [src |-> [Present.src EXCEPT ![SrcOf[j]] = b], dst |-> Present.dst]
<1>1. Dst(j) \in Shown \ {Src(j)}
  BY ShownFacts, PathFacts
<1>2. Present.dst = [n \in Dest |-> Holding(dir, data, synced, <<"dst", n>>)]
  BY ViewIs DEF ViewOf
<1>3. [Present.dst EXCEPT ![DstOf[j]] = Holding(dir, data, synced, Dst(j))] = Present.dst
  BY <1>2, ShownFacts DEF Dst
<1> QED
  BY <1>1, <1>3, BothReplaced

LEMMA ReadBackStep ==
  ASSUME TypeInv, NEW j \in Job, ReadBack(j)
  PROVE  Refines
<1>1. /\ pc[j] = "readback" /\ pc' = [pc EXCEPT ![j] = "over"]
      /\ result' = [result EXCEPT ![j] = "ok"] /\ UNCHANGED <<fsVars, config>>
  BY DEF ReadBack, At, Finish, runVars
<1>2. Stages[j] = "moved" /\ Stages' = [Stages EXCEPT ![j] = "over"]
  <2>1. Stages[j] = Stage("readback") /\ Stages' = [Stages EXCEPT ![j] = Stage("over")]
    BY <1>1, StageGoes
  <2> QED
    BY <2>1, StageIs
<1>3. UNCHANGED <<Present, Views>>
  BY <1>1, SameFiles
<1>4. Copy!Confirm(j)
  BY <1>1, <1>2, <1>3 DEF Copy!Confirm, Copy!Finish
<1> QED
  BY <1>4 DEF Refines, Copy!Next

\* What is under a path of a call, as the views show it.
LEMMA ShowsSource ==
  ASSUME NEW j \in Job, Holds(dir, Src(j), Want(j))
  PROVE  Copy!Content(j) = Want(j)
<1>1. Holding(dir, data, synced, Src(j)) = Want(j)
  BY DEF Holds, Holding
<1>2. Present.src[SrcOf[j]] = Holding(dir, data, synced, Src(j))
  BY ViewIs, ViewValue, ShownFacts DEF Src
<1> QED
  BY <1>1, <1>2 DEF Copy!Content

LEMMA WantIsThere ==
  ASSUME TypeInv, NEW j \in Job
  PROVE  Want(j) # Absent
BY WantTypes, TransferAssumption DEF TransferAssumption

\* Two views are equal if they have the same sources and the same destinations.
LEMMA PublishStep ==
  ASSUME TypeInv, IInv, NEW j \in Job, Publish(j)
  PROVE  Refines
<1> DEFINE newDir == [dir EXCEPT ![Dst(j)] = dir[Tmp(j)], ![Tmp(j)] = NoFile]
           v == ViewOf(newDir, data', synced')
<1>1. pc[j] = "publish" /\ Holds(dir, Tmp(j), Want(j)) /\ UNCHANGED config
  BY AllCallsOk DEF Publish, At, CallOk, CopyOk, runVars
<1>2. /\ SetDir(newDir) /\ UNCHANGED <<data, synced, result>>
      /\ pc' = [pc EXCEPT ![j] = "syncdir"]
  BY <1>1 DEF Publish, Rename, Exists, Goto, Holds
<1>3. newDir[Dst(j)] = dir[Tmp(j)] /\ \A p \in Shown \ {Dst(j)} : newDir[p] = dir[p]
  BY TmpNotShown, ShownFacts, PathFacts, Distinctly DEF TypeInv, TypeOK, IInv
<1>4. Copy!Change(v)
  <2>1. Quiet
    BY <1>2 DEF Quiet
  <2> QED
    BY <1>2, <2>1, Changes
<1> HIDE DEF newDir
<1>5. Copy!Content(j) = Want(j) /\ Want(j) # Absent
  BY <1>1, SourceThere, ShowsSource, WantIsThere DEF Ended
<1>6. v = [src |-> Present.src, dst |-> [Present.dst EXCEPT ![DstOf[j]] = Want(j)]]
  <2>1. Holding(newDir, data', synced', Dst(j)) = Want(j)
    BY <1>1, <1>2, <1>3 DEF Holds, Holding
  <2>2. \A p \in Shown \ {Dst(j)} :
          Holding(newDir, data', synced', p) = Holding(dir, data, synced, p)
    BY <1>2, <1>3 DEF Holding
  <2> QED
    BY <2>1, <2>2, DstReplaced
<1>7. Stages[j] = "copying" /\ Stages' = [Stages EXCEPT ![j] = "placed"]
  <2>1. Stages[j] = Stage("publish") /\ Stages' = [Stages EXCEPT ![j] = Stage("syncdir")]
    BY <1>1, <1>2, StageGoes
  <2> QED
    BY <2>1, StageIs DEF Copying, PC
<1> HIDE DEF v
<1>8. Copy!Change([src |-> Present.src, dst |-> Copy!Copied(j)])
  BY <1>4, <1>5, <1>6 DEF Copy!Copied
<1>9. Copy!Replace(j)
  BY <1>1, <1>2, <1>5, <1>7, <1>8 DEF Copy!Replace, Copy!Goto, Copy!Absent, Absent
<1> QED
  BY <1>9 DEF Refines, Copy!Next

\* One rename for a whole move: the sources are all different.
LEMMA MoveRenameStep ==
  ASSUME TypeInv, IInv, NEW j \in Job, MoveRename(j)
  PROVE  Refines
<1> DEFINE newDir == [dir EXCEPT ![Dst(j)] = dir[Src(j)], ![Src(j)] = NoFile]
           v == ViewOf(newDir, data', synced')
<1>1. /\ pc[j] = "rename" /\ config.sameFs /\ config.mode = "move" /\ UNCHANGED config
      /\ SetDir(newDir) /\ UNCHANGED <<data, synced>>
  BY AllCallsOk DEF MoveRename, Rename, At, CallOk, PlaceOk, runVars
<1>2. Holds(dir, Src(j), Want(j))
  BY <1>1, SourceThere DEF Ended
<1>3. /\ newDir[Dst(j)] = dir[Src(j)] /\ newDir[Src(j)] = NoFile
      /\ \A p \in Shown \ {Src(j), Dst(j)} : newDir[p] = dir[p]
  BY ShownFacts, PathFacts DEF TypeInv, TypeOK
<1>4. Copy!Change(v)
  <2>1. Quiet
    BY <1>1 DEF Quiet
  <2> QED
    BY <1>1, <2>1, Changes
<1> HIDE DEF newDir
<1>5. Copy!Content(j) = Want(j) /\ Want(j) # Absent
  BY <1>2, ShowsSource, WantIsThere
<1>6. v = [src |-> [Present.src EXCEPT ![SrcOf[j]] = Absent],
           dst |-> [Present.dst EXCEPT ![DstOf[j]] = Want(j)]]
  <2>1. /\ Holding(newDir, data', synced', Dst(j)) = Want(j)
        /\ Holding(newDir, data', synced', Src(j)) = Absent
    BY <1>1, <1>2, <1>3 DEF Holds, Holding
  <2>2. \A p \in Shown \ {Src(j), Dst(j)} :
          Holding(newDir, data', synced', p) = Holding(dir, data, synced, p)
    BY <1>1, <1>3 DEF Holding
  <2> QED
    BY <2>1, <2>2, BothReplaced
<1> HIDE DEF v
<1>7. Copy!Change([src |-> Copy!Taken(j), dst |-> Copy!Copied(j)])
  BY <1>4, <1>5, <1>6 DEF Copy!Copied, Copy!Taken, Copy!Absent, Absent
<1>8. ASSUME config.verify PROVE Copy!Rename(j)
  <2>1. pc' = [pc EXCEPT ![j] = "readback"] /\ UNCHANGED result
    BY <1>8 DEF MoveRename, Goto
  <2>2. Stages[j] = Stage("rename") /\ Stages' = [Stages EXCEPT ![j] = Stage("readback")]
    BY <1>1, <2>1, StageGoes
  <2>3. Stages[j] = "copying" /\ Stages' = [Stages EXCEPT ![j] = "moved"]
    BY <2>2, StageIs DEF Copying, PC
  <2> QED
    BY <1>1, <1>5, <1>7, <2>1, <2>3 DEF Copy!Rename, Copy!Goto, Copy!Absent, Absent
<1>9. ASSUME ~config.verify PROVE Copy!Rename(j)
  <2>1. pc' = [pc EXCEPT ![j] = "over"] /\ result' = [result EXCEPT ![j] = "ok"]
    BY <1>9 DEF MoveRename, Finish
  <2>2. Stages[j] = Stage("rename") /\ Stages' = [Stages EXCEPT ![j] = Stage("over")]
    BY <1>1, <2>1, StageGoes
  <2>3. Stages[j] = "copying" /\ Stages' = [Stages EXCEPT ![j] = "over"]
    BY <2>2, StageIs DEF Copying, PC
  <2> QED
    BY <1>1, <1>5, <1>7, <2>1, <2>3 DEF Copy!Rename, Copy!Finish, Copy!Absent, Absent
<1>10. Copy!Rename(j)
  BY <1>8, <1>9
<1> QED
  BY <1>10 DEF Refines, Copy!Next

LEMMA UnlinkStep ==
  ASSUME TypeInv, IInv, NEW j \in Job, Unlink(j)
  PROVE  Refines
<1> DEFINE newDir == [dir EXCEPT ![Src(j)] = NoFile]
           v == ViewOf(newDir, data', synced')
<1>1. /\ pc[j] = "unlink" /\ UNCHANGED <<data, synced, config>> /\ SetDir(newDir)
      /\ pc' = [pc EXCEPT ![j] = "over"] /\ result' = [result EXCEPT ![j] = "ok"]
  BY DEF Unlink, Remove, Finish, At, runVars
<1>2. newDir[Src(j)] = NoFile /\ \A p \in Shown \ {Src(j)} : newDir[p] = dir[p]
  BY ShownFacts, PathFacts DEF TypeInv, TypeOK
<1>3. Copy!Change(v)
  <2>1. Quiet
    BY <1>1 DEF Quiet
  <2> QED
    BY <1>1, <2>1, Changes
<1> HIDE DEF newDir
<1>4. v = [src |-> [Present.src EXCEPT ![SrcOf[j]] = Absent], dst |-> Present.dst]
  <2>1. Holding(newDir, data', synced', Src(j)) = Absent
    BY <1>2 DEF Holding
  <2>2. \A p \in Shown \ {Src(j)} :
          Holding(newDir, data', synced', p) = Holding(dir, data, synced, p)
    BY <1>1, <1>2 DEF Holding
  <2> QED
    BY <2>1, <2>2, SrcReplaced
<1> HIDE DEF v
<1>5. Copy!Change([src |-> Copy!Taken(j), dst |-> Present.dst])
  BY <1>3, <1>4 DEF Copy!Taken, Copy!Absent, Absent
<1>6. Stages[j] = "committed" /\ Stages' = [Stages EXCEPT ![j] = "over"]
  <2>1. Stages[j] = Stage("unlink") /\ Stages' = [Stages EXCEPT ![j] = Stage("over")]
    BY <1>1, StageGoes
  <2> QED
    BY <2>1, StageIs
<1>7. Copy!Discard(j)
  BY <1>1, <1>5, <1>6 DEF Copy!Discard, Copy!Finish
<1> QED
  BY <1>7 DEF Refines, Copy!Next

LEMMA SyncDirStep ==
  ASSUME TypeInv, NEW j \in Job, SyncDir(j)
  PROVE  Refines
<1>1. /\ pc[j] = "syncdir" /\ UNCHANGED <<dir, data, synced, config>>
      /\ disk' = IF config.dirSync THEN SyncedDst ELSE disk
  BY DEF SyncDir, At, runVars
<1>2. /\ Present' = Present
      /\ Views' = {ViewOf(d, data, synced) : d \in disk'}
  BY <1>1, ViewIs
<1>3. Views' = IF ~config.dirSync THEN Views
               ELSE IF config.sameFs THEN {Present}
               ELSE {[src |-> u.src, dst |-> Present.dst] : u \in Views}
  <2>1. CASE ~config.dirSync
    BY <1>1, <1>2, <2>1, ViewIs
  <2>2. CASE config.dirSync /\ config.sameFs
    BY <1>1, <1>2, <2>2, ViewIs DEF SyncedDst
  <2>3. CASE config.dirSync /\ ~config.sameFs
    <3>1. \A d : ViewOf(Mixed(d, dir), data, synced) =
                   [src |-> ViewOf(d, data, synced).src, dst |-> Present.dst]
      BY ViewMixed, ViewIs
    <3>2. disk' = {Mixed(d, dir) : d \in disk}
      BY <1>1, <2>3 DEF SyncedDst
    <3>3. \A z \in Views' : \E u \in Views : z = [src |-> u.src, dst |-> Present.dst]
      BY <1>2, <3>1, <3>2, ViewIs
    <3>4. ASSUME NEW u \in Views PROVE [src |-> u.src, dst |-> Present.dst] \in Views'
      <4>1. PICK d \in disk : u = ViewOf(d, data, synced)
        BY ViewIs
      <4>2. Mixed(d, dir) \in disk'
        BY <3>2
      <4> QED
        BY <1>2, <3>1, <4>1, <4>2
    <3> QED
      BY <2>3, <3>3, <3>4
  <2> QED
    BY <2>1, <2>2, <2>3
<1>4. ASSUME config.mode = "move" PROVE Copy!Goto(j, "committed")
  <2>1. pc' = [pc EXCEPT ![j] = "unlink"] /\ UNCHANGED result
    BY <1>4 DEF SyncDir, Copied, Goto
  <2>2. Stages' = [Stages EXCEPT ![j] = Stage("unlink")]
    BY <2>1, StageGoes
  <2> QED
    BY <2>1, <2>2, StageIs DEF Copy!Goto
<1>5. ASSUME config.mode # "move" PROVE Copy!Finish(j, "ok")
  <2>1. pc' = [pc EXCEPT ![j] = "over"] /\ result' = [result EXCEPT ![j] = "ok"]
    BY <1>5 DEF SyncDir, Copied, Finish
  <2>2. Stages' = [Stages EXCEPT ![j] = Stage("over")]
    BY <2>1, StageGoes
  <2> QED
    BY <2>1, <2>2, StageIs DEF Copy!Finish
<1>6. Stages[j] = "placed"
  BY <1>1, StageIs DEF Stages
<1>7. Copy!Commit(j)
  BY <1>1, <1>2, <1>3, <1>4, <1>5, <1>6 DEF Copy!Commit
<1> QED
  BY <1>7 DEF Refines, Copy!Next

LEMMA CallRefines ==
  ASSUME TypeInv, IInv, ~config.reflink, NEW j \in Job, Call(j) \/ IoError(j) \/ SoftError(j)
  PROVE  Refines
<1>1. ~(ReflinkCreate(j) \/ CopyRange(j) \/ Ficlone(j) \/ ReflinkSync(j))
  BY NoReflink DEF ReflinkCreate, CopyRange, Ficlone, ReflinkSync, At, Reflinking
<1>2. CASE \/ Start(j) \/ MoveByCopy(j) \/ CheckTmp(j) \/ StatTmp(j)
           \/ VerifyPrefix(j) \/ EndOfSource(j) \/ SoftError(j)
  BY <1>2, SilentSteps
<1>3. CASE IoError(j) \/ CompareSums(j)
  BY <1>3, Errors
<1>4. CASE ClearTmp(j) \/ Discard(j)
  BY <1>4, TmpRemoved
<1>5. CASE CreateTmp(j) \/ OpenTmp(j) \/ CopyBlock(j) \/ SyncTmp(j)
  BY <1>5, Errors, TmpCreated, TmpWritten
<1>6. CASE MoveRename(j) \/ ReadBack(j) \/ Publish(j) \/ SyncDir(j) \/ Unlink(j)
  BY <1>6, MoveRenameStep, ReadBackStep, PublishStep, SyncDirStep, UnlinkStep
<1> QED
  BY <1>1, <1>2, <1>3, <1>4, <1>5, <1>6 DEF Call
-----------------------------------------------------------------------------
(* The process and the machine                                             *)

LEMMA Downs ==
  ASSUME Stop
  PROVE  Copy!Down
<1>1. \A j \in Job : Stage(pc'[j]) = "down"
  BY StageIs DEF Stop
<1> QED
  BY <1>1 DEF Copy!Down, Stages

LEMMA KillStep ==
  ASSUME Kill
  PROVE  Refines
<1>1. Copy!Down
  BY Downs DEF Kill
<1>2. UNCHANGED <<Present, Views, result, config>>
  BY SameFiles DEF Kill, runVars
<1>3. Copy!Kill
  BY <1>1, <1>2 DEF Copy!Kill
<1> QED
  BY <1>3 DEF Refines, Copy!Next

\* A file that is shown, in any state, is whole and synced.
LEMMA ShownIsWhole ==
  ASSUME IInv, ~config.reflink, NEW d \in disk, NEW p \in Shown, d[p] # NoFile
  PROVE  synced[d[p]] = Len(data[d[p]])
<1>1. CASE \E j \in Job : p = Src(j)
  BY <1>1 DEF IInv, WorldInv, SourceOk, Holds
<1>2. CASE \E j \in Job : p = Dst(j)
  <2>1. PICK j \in Job : p = Dst(j)
    BY <1>2
  <2>2. Sound(d, DstOf[j])
    BY DEF IInv, WorldInv, SoundOk
  <2> QED
    BY <2>1, <2>2 DEF Sound, Dst
<1> QED
  BY <1>1, <1>2 DEF Shown

LEMMA PowerLossStep ==
  ASSUME TypeInv, IInv, ~config.reflink, PowerLoss
  PROVE  Refines
<1>1. PICK d \in disk :
        LET named == {d[p] : p \in Path}
            risky == {i \in Inode \cap named : synced[i] < Len(data[i])}
        IN /\ dir' = d /\ disk' = {d}
           /\ \E torn \in [risky -> UNION {Torn(i) : i \in risky}] :
                /\ \A i \in risky : torn[i] \in Torn(i)
                /\ data' = [i \in Inode |-> IF i \in risky THEN torn[i]
                                            ELSE IF i \in named THEN data[i] ELSE <<>>]
           /\ synced' = [i \in Inode |-> Len(data'[i])]
  BY DEF PowerLoss
<1>2. /\ Stop /\ result' = [j \in Job |-> "none"] /\ UNCHANGED config
  BY DEF PowerLoss, runVars
<1>3. \A p \in Shown : Holding(d, data', synced', p) = Holding(d, data, synced, p)
  <2> SUFFICES ASSUME NEW p \in Shown, d[p] # NoFile
               PROVE  data'[d[p]] = data[d[p]] /\ synced'[d[p]] = Len(data'[d[p]])
    BY ShownIsWhole DEF Holding
  <2>1. d[p] \in Inode /\ d[p] \in {d[q] : q \in Path} /\ synced[d[p]] = Len(data[d[p]])
    BY ShownFacts, DirTypes, ShownIsWhole
  <2>2. ~(synced[d[p]] < Len(data[d[p]]))
    BY <2>1, DataTypes
  <2> QED
    BY <1>1, <2>1, <2>2
<1>4. ViewOf(d, data', synced') = ViewOf(d, data, synced)
  BY <1>3, ViewSame
<1>5. Present' = ViewOf(d, data, synced) /\ Views' = {Present'}
  BY <1>1, <1>4, ViewIs
<1>6. Present' \in Views
  BY <1>5, ViewIs
<1>7. Copy!PowerLoss
  BY <1>2, <1>5, <1>6, Downs DEF Copy!PowerLoss
<1> QED
  BY <1>7 DEF Refines, Copy!Next

\* What a source that is left shows, and what one that is not.
LEMMA LeftShown ==
  ASSUME TypeInv, IInv
  PROVE  /\ LeftSrc = {x \in Sources : Present.src[x] # Absent}
         /\ \A j \in Job : j \in Left <=> Copy!Content(j) # Absent
<1>1. \A x \in Sources : Present.src[x] = Holding(dir, data, synced, <<"src", x>>)
  BY ViewIs, ViewValue
<1>2. ASSUME NEW j \in Job
      PROVE  j \in Left <=> Holding(dir, data, synced, <<"src", SrcOf[j]>>) # Absent
  <2>1. dir[Src(j)] # NoFile => Holds(dir, Src(j), Want(j))
    BY DirTypes DEF IInv, WorldInv, SourceOk
  <2> QED
    BY <2>1, WantIsThere DEF Holds, Holding, Left, Exists, Src
<1>3. \A x \in Sources : \E j \in Job : x = SrcOf[j]
  BY DEF Sources
<1>4. \A x : x \in LeftSrc <=> \E j \in Left : x = SrcOf[j]
  BY DEF LeftSrc
<1>5. \A x : x \in LeftSrc => x \in Sources
  BY <1>4, ShownFacts DEF Left
<1>6. \A x \in Sources : x \in LeftSrc <=> Present.src[x] # Absent
  <2> SUFFICES ASSUME NEW x \in Sources PROVE x \in LeftSrc <=> Present.src[x] # Absent
    OBVIOUS
  <2>1. PICK k \in Job : x = SrcOf[k]
    BY <1>3
  <2>2. x \in LeftSrc => \E j \in Job : j \in Left /\ x = SrcOf[j]
    BY <1>4 DEF Left
  <2> QED
    BY <1>1, <1>2, <1>4, <2>1, <2>2
<1>7. LeftSrc = {x \in Sources : Present.src[x] # Absent}
  BY <1>5, <1>6
<1>8. \A j \in Job : j \in Left <=> Copy!Content(j) # Absent
  BY <1>1, <1>2, ShownFacts DEF Copy!Content
<1> QED
  BY <1>7, <1>8

\* The files of the sources that are left change under their names, and
\* nothing else that is shown does.
LEMMA LaunchedView ==
  ASSUME TypeInv, IInv, NEW c \in [LeftSrc -> Contents], Edits(c), NEW d \in disk
  PROVE  ViewOf(d, data', synced') = Copy!Edited(ViewOf(d, data, synced), c)
<1>1. \A n \in Dest :
        Holding(d, data', synced', <<"dst", n>>) = Holding(d, data, synced, <<"dst", n>>)
  <2> SUFFICES ASSUME NEW n \in Dest, d[<<"dst", n>>] # NoFile
               PROVE  /\ data'[d[<<"dst", n>>]] = data[d[<<"dst", n>>]]
                      /\ synced'[d[<<"dst", n>>]] = synced[d[<<"dst", n>>]]
    BY DEF Holding
  <2>1. <<"dst", n>> \in Path /\ \A j \in Left : <<"dst", n>> # Src(j)
    BY ShownFacts DEF Src
  <2> QED
    BY <2>1, EditedFiles
<1>2. ASSUME NEW j \in Job
      PROVE  Holding(d, data', synced', Src(j)) =
               IF SrcOf[j] \in LeftSrc THEN c[SrcOf[j]] ELSE Holding(d, data, synced, Src(j))
  <2>1. CASE j \in Left
    <3>1. dir[Src(j)] # NoFile /\ d[Src(j)] = dir[Src(j)]
      BY <2>1 DEF Left, Exists, IInv, WorldInv, SourceOk
    <3> QED
      BY <2>1, <3>1, EditedFiles DEF Holding
  <2>2. CASE j \notin Left
    <3>1. \A k \in Left : Src(k) # Src(j)
      BY <2>2 DEF Left, Exists
    <3>2. SrcOf[j] \notin LeftSrc
      BY <2>2, EditedFiles
    <3> QED
      BY <3>1, <3>2, EditedFiles, PathFacts DEF Holding
  <2> QED
    BY <2>1, <2>2
<1>3. \A x \in Sources : Holding(d, data', synced', <<"src", x>>) =
        IF x \in LeftSrc THEN c[x] ELSE Holding(d, data, synced, <<"src", x>>)
  BY <1>2 DEF Sources, Src
<1>4. DOMAIN c = LeftSrc
  OBVIOUS
<1>5. \A x \in Sources : ViewOf(d, data, synced).src[x] = Holding(d, data, synced, <<"src", x>>)
  BY ViewValue
<1>6. ViewOf(d, data', synced').src =
        [x \in Sources |-> IF x \in DOMAIN c THEN c[x] ELSE ViewOf(d, data, synced).src[x]]
  BY <1>3, <1>4, <1>5 DEF ViewOf
<1>7. ViewOf(d, data', synced').dst = ViewOf(d, data, synced).dst
  BY <1>1 DEF ViewOf
<1>8. ViewOf(d, data', synced') =
        [src |-> ViewOf(d, data', synced').src, dst |-> ViewOf(d, data', synced').dst]
  BY DEF ViewOf
<1> QED
  BY <1>6, <1>7, <1>8 DEF Copy!Edited, Copy!From, Sources

LEMMA LaunchStep ==
  ASSUME TypeInv, IInv, Launch
  PROVE  Refines
<1>1. PICK c \in [LeftSrc -> Contents] :
        /\ Edits(c)
        /\ pc' = [j \in Job |-> IF j \in Left THEN "start" ELSE "over"]
        /\ result' = [j \in Job |-> "none"]
  BY DEF Launch, Edits, Left, LeftSrc, LeftFiles, SourceOf
<1>2. (\A j \in Job : pc[j] \in Ended) /\ UNCHANGED <<dir, disk, config>>
  BY DEF Launch, Ended
<1>3. c \in [{x \in Copy!From : Present.src[x] # Absent} -> Contents]
  BY <1>1, LeftShown DEF Copy!From, Sources
<1>4. Present' = Copy!Edited(Present, c)
  BY <1>1, <1>2, LaunchedView, DirTypes, ViewIs
<1>5. Views' = {Copy!Edited(v, c) : v \in Views}
  <2>1. \A d \in disk : ViewOf(d, data', synced') = Copy!Edited(ViewOf(d, data, synced), c)
    BY <1>1, LaunchedView
  <2>2. Views' = {ViewOf(d, data', synced') : d \in disk}
    BY <1>2, ViewIs
  <2>3. \A z \in Views' : \E v \in Views : z = Copy!Edited(v, c)
    BY <2>1, <2>2, ViewIs
  <2>4. \A v \in Views : Copy!Edited(v, c) \in Views'
    BY <2>1, <2>2, ViewIs
  <2> QED
    BY <2>3, <2>4
<1>6. \A j \in Job : Stages[j] \in {"over", "down"}
  BY <1>2, StageIs DEF Stages, Ended
<1>7. Stages' = [j \in Job |-> IF Copy!Content(j) # Absent THEN "copying" ELSE "over"]
  <2>1. \A j \in Job : Stage(pc'[j]) = IF Copy!Content(j) # Absent THEN "copying" ELSE "over"
    <3>1. Stage("start") = "copying"
      BY StageIs DEF Copying, PC
    <3> QED
      BY <1>1, <3>1, LeftShown, StageIs
  <2> QED
    BY <2>1 DEF Stages
<1>8. Copy!Launch
  BY <1>1, <1>2, <1>3, <1>4, <1>5, <1>6, <1>7 DEF Copy!Launch, Copy!Absent, Absent
<1> QED
  BY <1>8 DEF Refines, Copy!Next
-----------------------------------------------------------------------------
(* The refinement                                                          *)

\* The configuration is that of all runs.
LEMMA ConfigStays == [Next]_vars => UNCHANGED config
<1>1. ASSUME NEW j \in Job, Call(j) \/ IoError(j) \/ SoftError(j) PROVE UNCHANGED config
  <2>1. CASE Start(j) \/ MoveRename(j) \/ MoveByCopy(j) \/ ReadBack(j)
    BY <2>1 DEF Start, MoveRename, MoveByCopy, ReadBack, runVars
  <2>2. CASE ReflinkCreate(j) \/ CopyRange(j) \/ Ficlone(j) \/ ReflinkSync(j)
    BY <2>2 DEF ReflinkCreate, CopyRange, Ficlone, ReflinkSync, runVars
  <2>3. CASE \/ CheckTmp(j) \/ ClearTmp(j) \/ CreateTmp(j)
             \/ StatTmp(j) \/ VerifyPrefix(j) \/ Discard(j)
    BY <2>3 DEF CheckTmp, ClearTmp, CreateTmp, StatTmp, VerifyPrefix, Discard, runVars
  <2>4. CASE OpenTmp(j) \/ CopyBlock(j) \/ EndOfSource(j) \/ CompareSums(j) \/ SyncTmp(j)
    BY <2>4 DEF OpenTmp, CopyBlock, EndOfSource, CompareSums, SyncTmp, runVars
  <2>5. CASE Publish(j) \/ SyncDir(j) \/ Unlink(j) \/ IoError(j) \/ SoftError(j)
    BY <2>5 DEF Publish, SyncDir, Unlink, IoError, SoftError, runVars
  <2> QED
    BY <1>1, <2>1, <2>2, <2>3, <2>4, <2>5 DEF Call
<1>2. Kill \/ PowerLoss \/ Launch \/ Idle \/ UNCHANGED vars => UNCHANGED config
  BY DEF Kill, PowerLoss, Launch, Idle, vars, runVars
<1> QED
  BY <1>1, <1>2 DEF Next

LEMMA StepRefines ==
  ASSUME TypeInv, IInv, ~config.reflink, [Next]_vars
  PROVE  Refines
<1>1. CASE \E j \in Job : Call(j) \/ IoError(j) \/ SoftError(j)
  BY <1>1, CallRefines
<1>2. CASE Kill
  BY <1>2, KillStep
<1>3. CASE PowerLoss
  BY <1>3, PowerLossStep
<1>4. CASE Launch
  BY <1>4, LaunchStep
<1>5. CASE UNCHANGED vars
  <2>1. UNCHANGED <<fsVars, pc, result, config>>
    BY <1>5 DEF vars, callVars, runVars
  <2>2. UNCHANGED Stages
    BY <2>1 DEF Stages
  <2> QED
    BY <2>1, <2>2, SameFiles, Stutters
<1> QED
  BY <1>1, <1>2, <1>3, <1>4, <1>5 DEF Next, Idle

LEMMA StartRefines ==
  ASSUME Distinct, Init
  PROVE  Copy!Init
<1>1. PICK c \in [Source -> Contents], o \in [Dest -> OldContents \cup {Absent}] : StartsWith(c, o)
  BY StartFiles
<1>2. TypeInv
  BY Started
<1>3. /\ synced = [i \in Inode |-> Len(data[i])] /\ disk = {dir}
      /\ pc = [j \in Job |-> "start"]
      /\ result = [j \in Job |-> "none"] /\ config \in Configs
  BY DEF Init
<1>4. \A p \in Path : dir[p] # NoFile => Holding(dir, data, synced, p) = data[dir[p]]
  BY <1>2, <1>3, DirTypes DEF Holding
<1>5. \A x \in Sources : x \in Source /\ Holding(dir, data, synced, <<"src", x>>) = c[x]
  <2> SUFFICES ASSUME NEW j \in Job
               PROVE  /\ SrcOf[j] \in Source
                      /\ Holding(dir, data, synced, <<"src", SrcOf[j]>>) = c[SrcOf[j]]
    BY DEF Sources
  <2> QED
    BY <1>1, <1>4, PathFacts DEF StartsWith, Src
<1>6. \A n \in Dest : Holding(dir, data, synced, <<"dst", n>>) = o[n]
  <2> SUFFICES ASSUME NEW n \in Dest PROVE Holding(dir, data, synced, <<"dst", n>>) = o[n]
    OBVIOUS
  <2>1. <<"dst", n>> \in Path
    BY ShownFacts
  <2>2. IF o[n] = Absent THEN dir[<<"dst", n>>] = NoFile
        ELSE dir[<<"dst", n>>] # NoFile /\ data[dir[<<"dst", n>>]] = o[n]
    BY <1>1 DEF StartsWith
  <2> QED
    BY <1>4, <2>1, <2>2 DEF Holding
<1>7. [x \in Sources |-> c[x]] \in [Sources -> Contents]
  BY <1>5
<1>8. Present = [src |-> [x \in Sources |-> c[x]], dst |-> o]
  <2>1. Present.src = [x \in Sources |-> c[x]]
    BY <1>5, ViewIs DEF ViewOf
  <2>2. Present.dst = o
    BY <1>6, ViewIs DEF ViewOf
  <2>3. Present = [src |-> Present.src, dst |-> Present.dst]
    BY ViewIs DEF ViewOf
  <2> QED
    BY <2>1, <2>2, <2>3
<1>9. Views = {Present}
  BY <1>3, ViewIs
<1>10. Stages = [j \in Job |-> "copying"]
  BY <1>3, StageIs DEF Stages, Copying, PC
<1>11. Copy!From = Sources /\ Copy!Dest = Dest /\ Copy!Absent = Absent
  BY DEF Copy!From, Sources, Copy!Dest, Dest, Copy!Absent, Absent
<1> QED
  BY <1>3, <1>7, <1>8, <1>9, <1>10, <1>11 DEF Copy!Init

\* transfer.rs:58, "Copy `src` to `dst` atomically.": without reflinks the calls
\* take the steps of the copy in one step that AtomicCopy specifies, for any
\* number of calls that have names of their own, and with errors, kills, power
\* losses and new launches wherever they come.
THEOREM CopyIsAtomic == ASSUME Distinct PROVE Spec => IsAtomicCopy
<1>1. Init => (~config.reflink => Copy!Init)
  BY StartRefines
<1>2. TypeInv /\ IInv /\ [Next]_vars => [~config.reflink => Copy!Next]_(Copy!vars)
  BY StepRefines DEF Refines
<1>3. Spec => [](TypeInv /\ IInv)
  BY Invariance
<1> QED
  BY <1>1, <1>2, <1>3, PTL DEF Spec, IsAtomicCopy

\* The program copies and moves as AtomicCopy does, in every run without
\* reflinks: the configuration never changes.
THEOREM TransferImplementsCopy ==
  ASSUME Distinct PROVE Spec /\ ~config.reflink => Copy!Spec
<1>1. ~config.reflink /\ [Next]_vars => (~config.reflink)'
  <2>1. [Next]_vars => UNCHANGED config
    BY ConfigStays
  <2> QED
    BY <2>1
<1>2. ~config.reflink /\ [~config.reflink => Copy!Next]_(Copy!vars) => [Copy!Next]_(Copy!vars)
  OBVIOUS
<1> QED
  BY <1>1, <1>2, CopyIsAtomic, PTL DEF Spec, IsAtomicCopy, Copy!Spec
=============================================================================
