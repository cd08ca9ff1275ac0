--------------------------- MODULE TransferProofs ---------------------------
(***************************************************************************)
(* Proofs about Transfer for any number of calls, contents, launches and   *)
(* any room on the file systems, as long as the calls have destinations    *)
(* and partial copies of their own.                                        *)
(***************************************************************************)
EXTENDS Transfer, SequenceTheorems, TLAPS

\* No destination and no partial copy is that of two calls, or one of each.
Distinct ==
  \A j, k \in Job :
    /\ DstOf[j] = DstOf[k] => j = k
    /\ TmpOf[DstOf[j]] = TmpOf[DstOf[k]] => j = k
    /\ TmpOf[DstOf[j]] # DstOf[k]
-----------------------------------------------------------------------------
(* The inductive invariant                                                 *)

Want(j) == want[SrcOf[j]]
Old == Contents \cup OldContents \cup {Absent}
Ended == {"over", "down"}
Reflinking == {"range", "ficlone", "rsync"}

\* A whole file of this content stands under p in d, and survives a power loss.
Holds(d, p, c) ==
  d[p] # NoFile /\ data[d[p]] = c /\ synced[d[p]] = Len(data[d[p]])

\* The types, with those of the contents.
TypeInv ==
  /\ TypeOK
  /\ data \in [Inode -> Seq(Block)] /\ synced \in [Inode -> Nat]
  /\ want \in [Source -> Contents] /\ seen \in [Dest -> SUBSET Old]
  /\ sum \in [Job -> [src : Seq(Block), dst : Seq(Block)]]

\* The names that belong to one call: those a file of its may have had.
Family(j) ==
  {Dst(j), Tmp(j)} \cup (IF config.mode = "move" /\ config.sameFs THEN {Src(j)} ELSE {})
Related(p, q) == p = q \/ \E j \in Job : {p, q} \subseteq Family(j)

\* What a power loss leaves: two file systems lose independently.
Pair(d, e) == config.sameFs => d = e

\* No file has two names, nor in two states the names of two calls.
NamesInv ==
  /\ \A d, e \in disk : \A p, q \in Path :
       d[p] = e[q] /\ d[p] # NoFile => Related(p, q) /\ (d = e => p = q)
  /\ ~config.sameFs => \A d, e \in disk : Mixed(d, e) \in disk

\* The file now under p was never under another name.
Alone(p) == dir[p] # NoFile =>
  \A d \in disk : \A q \in Path : d[q] = dir[p] => q = p

AloneInv == \A j \in Job :
  /\ Alone(Tmp(j)) /\ Alone(Src(j))
  /\ pc[j] \in Reflinking => Alone(Dst(j))

\* A source that any state still has is whole, and one that is still there is
\* there in all of them.
SourceOk(j) ==
  /\ \A d \in disk : d[Src(j)] # NoFile => Holds(d, Src(j), Want(j))
  /\ dir[Src(j)] # NoFile => \A d \in disk : d[Src(j)] = dir[Src(j)]

\* A destination is none, if there was none before, or whole.
Sound(d, n) ==
  LET p == <<"dst", n>> IN
  \/ d[p] = NoFile /\ Absent \in seen[n]
  \/ d[p] # NoFile /\ synced[d[p]] = Len(data[d[p]]) /\ data[d[p]] \in seen[n]
SoundOk(j) ==
  /\ Want(j) \in seen[DstOf[j]]
  /\ ~config.reflink \/ Absent \notin seen[DstOf[j]] => \A d \in disk : Sound(d, DstOf[j])

\* copy_file_range copies the whole file or is not used.
Complete == config.reflink => "short" \notin RangeResults

\* The content is where it came from or where it goes.
KeptOk(j) == config.dirSync /\ Complete =>
  \A d, e \in disk : Pair(d, e) => d[Src(j)] # NoFile \/ Holds(e, Dst(j), Want(j))

WorldInv == \A j \in Job : SourceOk(j) /\ SoundOk(j) /\ KeptOk(j)

\* Where a call is, and which file it has open.
PlaceOk(j) ==
  /\ fd[j] = IF pc[j] \in Reflinking THEN dir[Dst(j)]
             ELSE IF pc[j] = "copy" THEN dir[Tmp(j)] ELSE NoFile
  /\ pc[j] \in Reflinking \cup {"copy"} => fd[j] # NoFile
  /\ pc[j] \notin Ended \cup {"readback"} => dir[Src(j)] # NoFile
  /\ pc[j] \notin Ended => result[j] = "none"
  /\ pc[j] \in {"rename", "readback", "unlink"} => config.mode = "move"
  /\ pc[j] \in Reflinking \cup {"reflink"} => config.reflink
  /\ pc[j] \in Reflinking => Absent \in seen[DstOf[j]]
  /\ sum[j].src = sum[j].dst
  /\ result[j] = "err" => faulted

\* How far the copy is.
CopyOk(j) ==
  /\ pc[j] \in {"range", "ficlone"} => synced[fd[j]] = 0
  /\ pc[j] = "rsync" => config.sameFs /\ (Complete => data[fd[j]] = Want(j))
  /\ pc[j] \in {"prefix", "discard"} => pos[j] = 1 /\ dir[Tmp(j)] # NoFile
  /\ pc[j] = "discard" /\ ~faulted => ~KeptPrefix(j)
  /\ pc[j] = "create" => dir[Tmp(j)] = NoFile
  /\ pc[j] \in {"open", "copy"} =>
       /\ pos[j] <= Len(Want(j)) + 1
       /\ IF dir[Tmp(j)] = NoFile THEN pos[j] = 1
          ELSE data[dir[Tmp(j)]] = SubSeq(Want(j), 1, pos[j] - 1)
  /\ pc[j] \in {"verify", "fsync", "publish"} =>
       dir[Tmp(j)] # NoFile /\ data[dir[Tmp(j)]] = Want(j)
  /\ pc[j] = "publish" => Holds(dir, Tmp(j), Want(j))
  /\ pc[j] = "syncdir" => Holds(dir, Dst(j), Want(j))

Everywhere(j) == \A d \in disk : Holds(d, Dst(j), Want(j))

\* What is true before the source is unlinked, and of a call that returned Ok.
DoneOk(j) ==
  /\ pc[j] = "readback" => dir[Src(j)] = NoFile
  /\ (pc[j] \in {"unlink", "readback"} \/ result[j] = "ok") /\ Complete =>
       Holds(dir, Dst(j), Want(j))
  /\ pc[j] = "unlink" /\ ~config.sameFs /\ config.dirSync => Everywhere(j)
  /\ result[j] = "ok" =>
       /\ config.mode = "move" => dir[Src(j)] = NoFile
       /\ config.mode = "copy" /\ config.dirSync /\ ~config.reflink => Everywhere(j)

CallInv == \A j \in Job : PlaceOk(j) /\ CopyOk(j) /\ DoneOk(j)

IInv == Distinct /\ NamesInv /\ AloneInv /\ WorldInv /\ CallInv
-----------------------------------------------------------------------------
(* Basic facts                                                             *)

LEMMA PathFacts ==
  /\ \A j \in Job : /\ SrcOf[j] \in Source /\ DstOf[j] \in Dest /\ DstOf[j] \in Name
                    /\ Src(j) \in Path /\ Dst(j) \in Path /\ Tmp(j) \in Path
                    /\ Src(j)[1] = "src" /\ Dst(j)[1] = "dst" /\ Tmp(j)[1] = "dst"
  /\ \A j, k \in Job : Src(j) # Dst(k) /\ Src(j) # Tmp(k)
  /\ \A n \in Dest : n \in Name /\ \E j \in Job : DstOf[j] = n
  /\ \A p \in Path : \/ p[1] = "src" /\ p[2] \in Source /\ p = <<"src", p[2]>>
                     \/ p[1] = "dst" /\ p[2] \in Name /\ p = <<"dst", p[2]>>
<1>1. \A j \in Job : /\ SrcOf[j] \in Source /\ DstOf[j] \in Dest /\ DstOf[j] \in Name
                     /\ TmpOf[DstOf[j]] \in Name
  BY TransferAssumption DEF TransferAssumption, Dest
<1>2. \A n \in Dest : n \in Name /\ \E j \in Job : DstOf[j] = n
  BY <1>1 DEF Dest
<1>3. \A p \in Path : \/ p[1] = "src" /\ p[2] \in Source /\ p = <<"src", p[2]>>
                      \/ p[1] = "dst" /\ p[2] \in Name /\ p = <<"dst", p[2]>>
  BY DEF Path
<1>4. \A x \in Source, n \in Name : <<"src", x>> \in Path /\ <<"dst", n>> \in Path
  BY DEF Path
<1>5. \A x, n : <<"src", x>>[1] = "src" /\ <<"dst", n>>[1] = "dst"
  OBVIOUS
<1> QED
  BY <1>1, <1>2, <1>3, <1>4, <1>5 DEF Src, Dst, Tmp

\* What Distinct says of the paths.
LEMMA Distinctly ==
  ASSUME Distinct
  PROVE  \A j, k \in Job : /\ Dst(j) = Dst(k) => j = k
                           /\ Tmp(j) = Tmp(k) => j = k
                           /\ Tmp(j) # Dst(k)
BY DEF Distinct, Dst, Tmp

LEMMA MovesDistinct ==
  ASSUME config \in Configs, config.mode = "move"
  PROVE  \A j, k \in Job : Src(j) = Src(k) => j = k
BY TransferAssumption DEF TransferAssumption, Src

LEMMA ConfigType ==
  ASSUME config \in Configs
  PROVE  /\ config.mode \in {"copy", "move"} /\ config.sameFs \in BOOLEAN
         /\ config.dirSync \in BOOLEAN /\ config.reflink \in BOOLEAN
         /\ config.verify \in BOOLEAN
BY TransferAssumption DEF TransferAssumption

\* The families are disjoint, so Related is transitive.
LEMMA Families ==
  ASSUME Distinct, config \in Configs
  PROVE  \A j, k \in Job : \A p : p \in Family(j) /\ p \in Family(k) => j = k
<1> SUFFICES ASSUME NEW j \in Job, NEW k \in Job, NEW p, p \in Family(j), p \in Family(k)
             PROVE  j = k
  OBVIOUS
<1>1. p \in {Dst(j), Tmp(j), Src(j)} /\ p \in {Dst(k), Tmp(k), Src(k)}
  BY DEF Family
<1>2. p = Src(j) \/ p = Src(k) => config.mode = "move"
  BY PathFacts DEF Family
<1> QED
  BY <1>1, <1>2, Distinctly, MovesDistinct, PathFacts

LEMMA RelatedFacts ==
  ASSUME Distinct, config \in Configs
  PROVE  /\ \A p, q : Related(p, q) => Related(q, p)
         /\ \A p, q, r : Related(p, q) /\ Related(q, r) => Related(p, r)
         /\ \A j \in Job : Related(Dst(j), Tmp(j))
         /\ config.mode = "move" /\ config.sameFs =>
              \A j \in Job : Related(Dst(j), Src(j))
<1>1. \A p, q, r : Related(p, q) /\ Related(q, r) => Related(p, r)
  <2> SUFFICES ASSUME NEW p, NEW q, NEW r, Related(p, q), Related(q, r), p # q, q # r
               PROVE  Related(p, r)
    BY DEF Related
  <2>1. PICK j \in Job : p \in Family(j) /\ q \in Family(j)
    BY DEF Related
  <2>2. PICK k \in Job : q \in Family(k) /\ r \in Family(k)
    BY DEF Related
  <2> QED
    BY <2>1, <2>2, Families DEF Related
<1>2. \A p, q : Related(p, q) => Related(q, p)
  BY DEF Related
<1>3. \A j \in Job : Dst(j) \in Family(j) /\ Tmp(j) \in Family(j)
  BY DEF Family
<1>4. config.mode = "move" /\ config.sameFs => \A j \in Job : Src(j) \in Family(j)
  BY DEF Family
<1> QED
  BY <1>1, <1>2, <1>3, <1>4 DEF Related

\* On two file systems a source is related to no destination.
LEMMA SidesApart ==
  ASSUME ~config.sameFs, NEW p \in Path, NEW q \in Path, Related(p, q)
  PROVE  p[1] = q[1]
BY PathFacts DEF Related, Family

LEMMA FreshFacts ==
  ASSUME \E i \in Inode : Gone(i)
  PROVE  Fresh \in Inode /\ Gone(Fresh) /\ Fresh # NoFile
BY TransferAssumption DEF TransferAssumption, Fresh

LEMMA DirTypes ==
  ASSUME TypeInv
  PROVE  /\ \A d \in disk, p \in Path : d[p] \in Inode \cup {NoFile}
         /\ \A p \in Path : dir[p] \in Inode \cup {NoFile}
         /\ dir \in disk
BY DEF TypeInv, TypeOK

LEMMA DataTypes ==
  ASSUME TypeInv, NEW i \in Inode
  PROVE  /\ data[i] \in Seq(Block) /\ Len(data[i]) \in Nat /\ synced[i] \in Nat
         /\ synced[i] <= Len(data[i])
<1>1. data[i] \in Seq(Block) /\ synced[i] \in Nat /\ synced[i] \in 0 .. Len(data[i])
  BY DEF TypeInv, TypeOK
<1> QED
  BY <1>1

LEMMA WantTypes ==
  ASSUME TypeInv, NEW j \in Job
  PROVE  Want(j) \in Contents /\ Want(j) \in Seq(Block) /\ Len(Want(j)) \in Nat \ {0}
<1>1. Want(j) \in Contents
  BY PathFacts DEF TypeInv, Want
<1>2. Want(j) \in Seq(Block) /\ Want(j) # <<>>
  BY <1>1, TransferAssumption DEF TransferAssumption
<1> QED
  BY <1>1, <1>2
-----------------------------------------------------------------------------
(* What a step may do to the names                                         *)

\* d is one state of the old file systems or newDir, or has its sources from
\* one and its destinations from another such state.
LEMMA DiskStep ==
  ASSUME TypeInv, NEW newDir \in [Path -> Inode \cup {NoFile}], SetDir(newDir)
  PROVE  /\ disk' \subseteq [Path -> Inode \cup {NoFile}]
         /\ dir' = newDir /\ newDir \in disk'
         /\ \A d \in disk' : \E a, b \in disk \cup {newDir} :
              /\ config.sameFs => d = a /\ d = b
              /\ ~config.sameFs => d = Mixed(a, b)
<1>1. CASE config.sameFs
  BY <1>1 DEF SetDir, TypeInv, TypeOK
<1>2. CASE ~config.sameFs
  <2>1. disk' = {Mixed(d, e) : d, e \in disk \cup {newDir}} /\ dir' = newDir
    BY <1>2 DEF SetDir
  <2>2. \A d, e \in disk \cup {newDir} : Mixed(d, e) \in [Path -> Inode \cup {NoFile}]
    BY DEF Mixed, TypeInv, TypeOK
  <2>3. Mixed(newDir, newDir) = newDir
    BY DEF Mixed
  <2>4. newDir \in disk'
    BY <2>1, <2>3
  <2>5. \A d \in disk' : \E a, b \in disk \cup {newDir} : d = Mixed(a, b)
    BY <2>1
  <2>6. disk' \subseteq [Path -> Inode \cup {NoFile}]
    BY <2>2, <2>5
  <2> QED
    BY <1>2, <2>1, <2>4, <2>5, <2>6
<1> QED
  BY <1>1, <1>2

LEMMA MixedValue ==
  ASSUME NEW a, NEW b, NEW p \in Path
  PROVE  Mixed(a, b)[p] = IF p[1] = "src" THEN a[p] ELSE b[p]
BY DEF Mixed

\* The paths outside of P are, in any two states that may be left together, as
\* they were in two such states before.
DiskFrom(P) ==
  \A d, e \in disk' : Pair(d, e) =>
    \E a, b \in disk : /\ Pair(a, b)
                       /\ \A p \in Path \ P : IF p[1] = "src" THEN d[p] = a[p] ELSE e[p] = b[p]

LEMMA SetDirFrom ==
  ASSUME TypeInv, NEW newDir \in [Path -> Inode \cup {NoFile}], SetDir(newDir), NEW P,
         \A p \in Path \ P : newDir[p] = dir[p]
  PROVE  DiskFrom(P)
<1> SUFFICES ASSUME NEW d \in disk', NEW e \in disk', Pair(d, e)
             PROVE  \E a, b \in disk :
                      /\ Pair(a, b)
                      /\ \A p \in Path \ P : IF p[1] = "src" THEN d[p] = a[p] ELSE e[p] = b[p]
  BY DEF DiskFrom
<1> DEFINE Before(x) == IF x \in disk THEN x ELSE dir
<1>1. \A x \in disk \cup {newDir} :
        Before(x) \in disk /\ \A p \in Path \ P : x[p] = Before(x)[p]
  BY DirTypes
<1> HIDE DEF Before
<1>2. PICK a, c \in disk \cup {newDir} :
        /\ config.sameFs => d = a /\ d = c
        /\ ~config.sameFs => d = Mixed(a, c)
  BY DiskStep
<1>3. PICK g, b \in disk \cup {newDir} :
        /\ config.sameFs => e = g /\ e = b
        /\ ~config.sameFs => e = Mixed(g, b)
  BY DiskStep
<1>4. \A p \in Path \ P : IF p[1] = "src" THEN d[p] = a[p] ELSE e[p] = b[p]
  BY <1>2, <1>3, MixedValue
<1>5. Pair(Before(a), Before(b))
  BY <1>2, <1>3 DEF Pair
<1> QED
  BY <1>1, <1>4, <1>5

\* A state of the names that may follow: no file gets a second name, and what
\* is new under a name is new altogether, or had a name of the same call.
Follows(newDir) ==
  /\ newDir \in [Path -> Inode \cup {NoFile}]
  /\ \A p, q \in Path : newDir[p] = newDir[q] /\ newDir[p] # NoFile => p = q
  /\ \A p \in Path :
       \/ newDir[p] = NoFile
       \/ \A d \in disk : \A q \in Path : d[q] # newDir[p]
       \/ \E q \in Path : Related(p, q) /\ newDir[p] = dir[q]

LEMMA RemoveFollows ==
  ASSUME TypeInv, NamesInv, NEW p \in Path
  PROVE  Follows([dir EXCEPT ![p] = NoFile])
<1> DEFINE newDir == [dir EXCEPT ![p] = NoFile]
<1>1. newDir \in [Path -> Inode \cup {NoFile}]
  BY DEF TypeInv, TypeOK
<1>2. newDir[p] = NoFile /\ \A q \in Path \ {p} : newDir[q] = dir[q]
  BY DEF TypeInv, TypeOK
<1>3. \A q \in Path : Related(q, q)
  BY DEF Related
<1>4. \A q, r \in Path : dir[q] = dir[r] /\ dir[q] # NoFile => q = r
  BY DirTypes DEF NamesInv
<1> HIDE DEF newDir
<1>5. Follows(newDir)
  BY <1>1, <1>2, <1>3, <1>4 DEF Follows
<1> QED
  BY <1>5 DEF newDir

LEMMA RenameFollows ==
  ASSUME TypeInv, NamesInv, NEW p \in Path, NEW q \in Path, p # q, Related(q, p)
  PROVE  Follows([dir EXCEPT ![q] = dir[p], ![p] = NoFile])
<1> DEFINE newDir == [dir EXCEPT ![q] = dir[p], ![p] = NoFile]
<1>1. newDir \in [Path -> Inode \cup {NoFile}]
  BY DirTypes DEF TypeInv, TypeOK
<1>2. /\ newDir[p] = NoFile /\ newDir[q] = dir[p]
      /\ \A r \in Path \ {p, q} : newDir[r] = dir[r]
  BY DEF TypeInv, TypeOK
<1>3. \A r \in Path : Related(r, r)
  BY DEF Related
<1>4. \A r, s \in Path : dir[r] = dir[s] /\ dir[r] # NoFile => r = s
  BY DirTypes DEF NamesInv
<1> HIDE DEF newDir
<1>5. \A r, s \in Path : newDir[r] = newDir[s] /\ newDir[r] # NoFile => r = s
  BY <1>2, <1>4
<1>6. \A r \in Path : newDir[r] = NoFile \/ \E s \in Path : Related(r, s) /\ newDir[r] = dir[s]
  BY <1>2, <1>3
<1>7. Follows(newDir)
  BY <1>1, <1>5, <1>6 DEF Follows
<1> QED
  BY <1>7 DEF newDir

LEMMA CreateFollows ==
  ASSUME TypeInv, NamesInv, NEW p \in Path, \E i \in Inode : Gone(i)
  PROVE  Follows([dir EXCEPT ![p] = Fresh])
<1> DEFINE newDir == [dir EXCEPT ![p] = Fresh]
<1>1. /\ Fresh \in Inode
      /\ \A d \in disk : \A r \in Path : d[r] # Fresh
  BY FreshFacts DEF Gone
<1>2. newDir \in [Path -> Inode \cup {NoFile}]
  BY <1>1 DEF TypeInv, TypeOK
<1>3. newDir[p] = Fresh /\ \A r \in Path \ {p} : newDir[r] = dir[r]
  BY DEF TypeInv, TypeOK
<1>4. \A r \in Path : Related(r, r)
  BY DEF Related
<1>5. \A r, s \in Path : dir[r] = dir[s] /\ dir[r] # NoFile => r = s
  BY DirTypes DEF NamesInv
<1> HIDE DEF newDir
<1>6. \A r, s \in Path : newDir[r] = newDir[s] /\ newDir[r] # NoFile => r = s
  BY <1>1, <1>3, <1>5, DirTypes
<1>7. \A r \in Path : \/ newDir[r] = NoFile
                      \/ \A d \in disk : \A s \in Path : d[s] # newDir[r]
                      \/ \E s \in Path : Related(r, s) /\ newDir[r] = dir[s]
  BY <1>1, <1>3, <1>4
<1>8. Follows(newDir)
  BY <1>2, <1>6, <1>7 DEF Follows
<1> QED
  BY <1>8 DEF newDir

\* Such a step keeps files to one name each.
LEMMA NamesStep ==
  ASSUME TypeInv, Distinct, NamesInv, UNCHANGED config, NEW newDir, Follows(newDir),
         SetDir(newDir)
  PROVE  NamesInv'
<1>1. config \in Configs
  BY DEF TypeInv, TypeOK
<1> DEFINE States == disk \cup {newDir}
<1>2. \A p \in Path : Related(p, p)
  BY DEF Related
<1>3. \A a \in disk, p, q \in Path :
        newDir[p] = a[q] /\ newDir[p] # NoFile => Related(p, q) /\ Related(q, p)
  <2> SUFFICES ASSUME NEW a \in disk, NEW p \in Path, NEW q \in Path,
                      newDir[p] = a[q], newDir[p] # NoFile
               PROVE  Related(p, q) /\ Related(q, p)
    OBVIOUS
  <2>1. PICK r \in Path : Related(p, r) /\ newDir[p] = dir[r]
    BY DEF Follows
  <2>2. Related(r, q)
    BY <2>1, DirTypes DEF NamesInv
  <2> QED
    BY <1>1, <2>1, <2>2, RelatedFacts
<1>4. \A a, b \in States, p, q \in Path : a[p] = b[q] /\ a[p] # NoFile => Related(p, q)
  <2>1. \A a, b \in disk, p, q \in Path : a[p] = b[q] /\ a[p] # NoFile => Related(p, q)
    BY DEF NamesInv
  <2>2. \A p, q \in Path : newDir[p] = newDir[q] /\ newDir[p] # NoFile => Related(p, q)
    BY <1>2 DEF Follows
  <2> QED
    BY <1>3, <2>1, <2>2
<1>5. \A a \in States, p, q \in Path : a[p] = a[q] /\ a[p] # NoFile => p = q
  BY DEF Follows, NamesInv
<1> HIDE DEF States
<1>6. \A d \in disk' : \E a, b \in States :
        /\ config.sameFs => d = a /\ d = b
        /\ ~config.sameFs => d = Mixed(a, b)
  BY DiskStep DEF Follows, States
<1>7. \A d \in disk' : \E a, b \in States :
        /\ config.sameFs => d = a
        /\ \A p \in Path : d[p] = a[p] \/ d[p] = b[p]
        /\ ~config.sameFs => \A p \in Path : d[p] = IF p[1] = "src" THEN a[p] ELSE b[p]
  BY <1>6, MixedValue
<1>8. \A d, e \in disk', p, q \in Path : d[p] = e[q] /\ d[p] # NoFile => Related(p, q)
  <2> SUFFICES ASSUME NEW d \in disk', NEW e \in disk', NEW p \in Path, NEW q \in Path,
                      d[p] = e[q], d[p] # NoFile
               PROVE  Related(p, q)
    OBVIOUS
  <2>1. PICK a \in States : d[p] = a[p]
    BY <1>7
  <2>2. PICK b \in States : e[q] = b[q]
    BY <1>7
  <2>3. a[p] = b[q] /\ a[p] # NoFile
    BY <2>1, <2>2
  <2> QED
    BY ONLY <1>4, <2>3, a \in States, b \in States, p \in Path, q \in Path
<1>9. \A d \in disk', p, q \in Path : d[p] = d[q] /\ d[p] # NoFile => p = q
  <2> SUFFICES ASSUME NEW d \in disk', NEW p \in Path, NEW q \in Path,
                      d[p] = d[q], d[p] # NoFile
               PROVE  p = q
    OBVIOUS
  <2>1. CASE config.sameFs
    BY <1>5, <1>7, <2>1
  <2>2. CASE ~config.sameFs
    <3>1. p[1] = q[1]
      BY <1>8, <2>2, SidesApart
    <3> QED
      BY <1>5, <1>7, <2>2, <3>1
  <2> QED
    BY <2>1, <2>2
<1>10. ASSUME ~config.sameFs, NEW d \in disk', NEW e \in disk'
       PROVE  Mixed(d, e) \in disk'
  <2>1. PICK a, b \in States : d = Mixed(a, b)
    BY <1>6, <1>10
  <2>2. PICK f, g \in States : e = Mixed(f, g)
    BY <1>6, <1>10
  <2>3. Mixed(d, e) = Mixed(a, g)
    BY <2>1, <2>2, MixedValue DEF Mixed
  <2>4. disk' = {Mixed(x, y) : x, y \in States}
    BY <1>10 DEF SetDir, States
  <2> QED
    BY <2>3, <2>4
<1>11. \A p, q \in Path : Related(p, q)' <=> Related(p, q)
  BY DEF Related, Family, Dst, Tmp, Src
<1> QED
  BY <1>8, <1>9, <1>10, <1>11 DEF NamesInv

\* It keeps a file alone if its name is not given away.
LEMMA AloneStep ==
  ASSUME TypeInv, NEW newDir, Follows(newDir), SetDir(newDir), NEW p \in Path,
         \/ newDir[p] = NoFile
         \/ \A d \in disk : \A q \in Path : d[q] # newDir[p]
         \/ newDir[p] = dir[p] /\ Alone(p)
  PROVE  Alone(p)'
<1> SUFFICES ASSUME newDir[p] # NoFile, NEW d \in disk', NEW q \in Path, d[q] = newDir[p]
             PROVE  q = p
  BY DEF Alone, SetDir
<1>1. PICK a \in disk \cup {newDir} : d[q] = a[q]
  BY DiskStep, MixedValue DEF Follows
<1>2. CASE a = newDir
  BY <1>1, <1>2 DEF Follows
<1>3. CASE a \in disk
  BY <1>1, <1>3, DirTypes DEF Alone
<1> QED
  BY <1>2, <1>3
-----------------------------------------------------------------------------
(* What a call does to the others: nothing                                 *)

Mine(j) ==
  {Dst(j), Tmp(j)} \cup (IF config.mode = "move" THEN {Src(j)} ELSE {})

\* A step of call j changes nothing under the names of another call, neither
\* the names nor, in any state that may be left, what is in the files.
Frame(j) ==
  /\ \A k \in Job \ {j} : /\ pc'[k] = pc[k] /\ fd'[k] = fd[k] /\ pos'[k] = pos[k]
                          /\ sum'[k] = sum[k] /\ result'[k] = result[k]
  /\ UNCHANGED runVars
  /\ faulted => faulted'
  /\ \A p \in Path \ Mine(j) : dir'[p] = dir[p]
  /\ DiskFrom(Mine(j))
  /\ \A d \in disk, p \in Path \ Mine(j) :
       d[p] # NoFile => data'[d[p]] = data[d[p]] /\ synced'[d[p]] = synced[d[p]]

LEMMA NotMine ==
  ASSUME Distinct, config \in Configs, NEW j \in Job, NEW k \in Job, k # j
  PROVE  /\ Src(k) \in Path \ Mine(j) /\ Dst(k) \in Path \ Mine(j)
         /\ Tmp(k) \in Path \ Mine(j)
BY PathFacts, Distinctly, MovesDistinct DEF Mine

LEMMA FromOne ==
  ASSUME NEW P, DiskFrom(P), NEW d \in disk', NEW p \in Path \ P
  PROVE  \E a \in disk : d[p] = a[p]
BY DEF DiskFrom, Pair

LEMMA OthersHold ==
  ASSUME TypeInv, NEW j \in Job, Frame(j), NEW p \in Path \ Mine(j), NEW c
  PROVE  /\ Holds(dir, p, c) => Holds(dir, p, c)'
         /\ \A d \in disk', a \in disk : d[p] = a[p] /\ Holds(a, p, c) =>
              d[p] # NoFile /\ data'[d[p]] = c /\ synced'[d[p]] = Len(data'[d[p]])
BY DirTypes DEF Frame, Holds

\* What is invariant of another call's files, and of its place, stays so.
LEMMA OthersWorld ==
  ASSUME TypeInv, Distinct, WorldInv, NEW j \in Job, Frame(j), NEW k \in Job, k # j
  PROVE  SourceOk(k)' /\ SoundOk(k)' /\ KeptOk(k)'
<1>1. /\ Src(k) \in Path \ Mine(j) /\ Dst(k) \in Path \ Mine(j)
      /\ Src(k)[1] = "src" /\ Dst(k)[1] = "dst"
      /\ config \in Configs
  BY NotMine, PathFacts DEF TypeInv, TypeOK
<1>2. UNCHANGED <<Src(k), Dst(k), Want(k), config, seen, want>>
  BY DEF Src, Dst, Want, Frame, runVars
<1>3. DiskFrom(Mine(j)) /\ dir'[Src(k)] = dir[Src(k)]
  BY <1>1 DEF Frame
<1>4. SourceOk(k)'
  <2>1. ASSUME NEW d \in disk', d[Src(k)] # NoFile
        PROVE  Holds(d, Src(k), Want(k))'
    <3>1. PICK a \in disk : d[Src(k)] = a[Src(k)]
      BY <1>1, <1>3, FromOne
    <3>2. Holds(a, Src(k), Want(k))
      BY <2>1, <3>1 DEF WorldInv, SourceOk
    <3>3. /\ d[Src(k)] # NoFile /\ data'[d[Src(k)]] = Want(k)
          /\ synced'[d[Src(k)]] = Len(data'[d[Src(k)]])
      BY <1>1, <3>1, <3>2, OthersHold
    <3> QED
      BY <1>2, <3>3 DEF Holds
  <2>2. ASSUME dir'[Src(k)] # NoFile, NEW d \in disk'
        PROVE  d[Src(k)] = dir'[Src(k)]
    <3>1. PICK a \in disk : d[Src(k)] = a[Src(k)]
      BY <1>1, <1>3, FromOne
    <3> QED
      BY <1>3, <2>2, <3>1 DEF WorldInv, SourceOk
  <2> QED
    BY <1>2, <2>1, <2>2 DEF SourceOk
<1>5. SoundOk(k)'
  <2>1. ASSUME ~config.reflink \/ Absent \notin seen[DstOf[k]], NEW d \in disk'
        PROVE  Sound(d, DstOf[k])'
    <3>1. PICK a \in disk : d[Dst(k)] = a[Dst(k)]
      BY <1>1, <1>3, FromOne
    <3>2. Sound(a, DstOf[k])
      BY <2>1 DEF WorldInv, SoundOk
    <3>3. a[Dst(k)] # NoFile =>
            data'[a[Dst(k)]] = data[a[Dst(k)]] /\ synced'[a[Dst(k)]] = synced[a[Dst(k)]]
      BY <1>1 DEF Frame
    <3> QED
      BY <1>2, <3>1, <3>2, <3>3 DEF Sound, Dst
  <2> QED
    BY <1>2, <2>1 DEF WorldInv, SoundOk
<1>6. KeptOk(k)'
  <2> SUFFICES ASSUME config.dirSync, Complete, NEW d \in disk', NEW e \in disk', Pair(d, e)
               PROVE  d[Src(k)] # NoFile \/ Holds(e, Dst(k), Want(k))'
    BY <1>2 DEF KeptOk, Complete, Pair
  <2>1. PICK a, b \in disk : Pair(a, b) /\ d[Src(k)] = a[Src(k)] /\ e[Dst(k)] = b[Dst(k)]
    BY <1>1, <1>3 DEF DiskFrom
  <2>2. a[Src(k)] # NoFile \/ Holds(b, Dst(k), Want(k))
    BY <2>1 DEF WorldInv, KeptOk
  <2> QED
    BY <1>1, <1>2, <2>1, <2>2, OthersHold DEF Holds
<1> QED
  BY <1>4, <1>5, <1>6

LEMMA OthersCall ==
  ASSUME TypeInv, Distinct, CallInv, NEW j \in Job, Frame(j), NEW k \in Job, k # j
  PROVE  PlaceOk(k)' /\ CopyOk(k)' /\ DoneOk(k)'
<1>1. /\ Src(k) \in Path \ Mine(j) /\ Dst(k) \in Path \ Mine(j)
      /\ Tmp(k) \in Path \ Mine(j) /\ dir \in disk
  BY NotMine, DirTypes DEF TypeInv, TypeOK
<1>2. UNCHANGED <<Src(k), Dst(k), Tmp(k), Want(k), config, seen, want>>
  BY DEF Src, Dst, Tmp, Want, Frame, runVars
<1>3. /\ dir'[Src(k)] = dir[Src(k)] /\ dir'[Dst(k)] = dir[Dst(k)]
      /\ dir'[Tmp(k)] = dir[Tmp(k)]
      /\ pc'[k] = pc[k] /\ fd'[k] = fd[k] /\ pos'[k] = pos[k] /\ sum'[k] = sum[k]
      /\ result'[k] = result[k] /\ (faulted => faulted')
  BY <1>1 DEF Frame
<1>4. /\ dir[Dst(k)] # NoFile => /\ data'[dir[Dst(k)]] = data[dir[Dst(k)]]
                                 /\ synced'[dir[Dst(k)]] = synced[dir[Dst(k)]]
      /\ dir[Tmp(k)] # NoFile => /\ data'[dir[Tmp(k)]] = data[dir[Tmp(k)]]
                                 /\ synced'[dir[Tmp(k)]] = synced[dir[Tmp(k)]]
  BY <1>1 DEF Frame
<1>5. PlaceOk(k)'
  BY <1>2, <1>3 DEF CallInv, PlaceOk
<1>6. CopyOk(k)'
  <2>1. pc[k] \in Reflinking => fd[k] = dir[Dst(k)] /\ fd[k] # NoFile
    BY DEF CallInv, PlaceOk
  <2>2. pc[k] \in {"range", "ficlone"} => synced'[fd'[k]] = 0
    BY <1>3, <1>4, <2>1 DEF CallInv, CopyOk, Reflinking
  <2>3. pc[k] = "rsync" => config.sameFs /\ (Complete => data'[fd'[k]] = Want(k))
    BY <1>3, <1>4, <2>1 DEF CallInv, CopyOk, Reflinking
  <2>4. Holds(dir, Dst(k), Want(k)) => Holds(dir, Dst(k), Want(k))'
    BY <1>2, <1>3, <1>4 DEF Holds
  <2>5. Holds(dir, Tmp(k), Want(k)) => Holds(dir, Tmp(k), Want(k))'
    BY <1>2, <1>3, <1>4 DEF Holds
  <2>6. CopyOk(k)
    BY DEF CallInv
  <2>7. ASSUME pc[k] = "discard" PROVE KeptPrefix(k)' <=> KeptPrefix(k)
    <3>1. dir[Tmp(k)] # NoFile /\ dir[Src(k)] # NoFile
      BY <2>6, <2>7 DEF CopyOk, CallInv, PlaceOk, Ended
    <3>2. data'[dir[Src(k)]] = data[dir[Src(k)]]
      BY <1>1, <3>1 DEF Frame
    <3> QED
      BY <1>2, <1>3, <1>4, <3>1, <3>2 DEF KeptPrefix, Size, Bytes
  <2> QED
    BY <1>2, <1>3, <1>4, <2>2, <2>3, <2>4, <2>5, <2>6, <2>7 DEF CopyOk, Complete
<1>7. DoneOk(k)'
  <2>1. Holds(dir, Dst(k), Want(k)) => Holds(dir, Dst(k), Want(k))'
    BY <1>2, <1>3, <1>4 DEF Holds
  <2>2. ASSUME Everywhere(k) PROVE Everywhere(k)'
    <3>1. ASSUME NEW d \in disk' PROVE Holds(d, Dst(k), Want(k))'
      <4>1. PICK a \in disk : d[Dst(k)] = a[Dst(k)]
        BY <1>1, FromOne DEF Frame
      <4>2. Holds(a, Dst(k), Want(k))
        BY <2>2 DEF Everywhere
      <4>3. /\ d[Dst(k)] # NoFile /\ data'[d[Dst(k)]] = Want(k)
            /\ synced'[d[Dst(k)]] = Len(data'[d[Dst(k)]])
        BY <1>1, <4>1, <4>2, OthersHold
      <4> QED
        BY <1>2, <4>3 DEF Holds
    <3> QED
      BY <3>1 DEF Everywhere
  <2>3. DoneOk(k)
    BY DEF CallInv
  <2> QED
    BY <1>2, <1>3, <2>1, <2>2, <2>3 DEF DoneOk, Complete
<1> QED
  BY <1>5, <1>6, <1>7

\* So a step of a call keeps the invariant if it keeps its own part.
LEMMA Assemble ==
  ASSUME TypeInv, IInv, NEW j \in Job, Frame(j), NamesInv', AloneInv',
         SourceOk(j)', SoundOk(j)', KeptOk(j)', PlaceOk(j)', CopyOk(j)', DoneOk(j)'
  PROVE  IInv'
<1>1. \A k \in Job : SourceOk(k)' /\ SoundOk(k)' /\ KeptOk(k)'
  BY OthersWorld DEF IInv
<1>2. \A k \in Job : PlaceOk(k)' /\ CopyOk(k)' /\ DoneOk(k)'
  BY OthersCall DEF IInv
<1>3. Distinct'
  BY DEF IInv, Distinct
<1> QED
  BY <1>1, <1>2, <1>3 DEF IInv, WorldInv, CallInv
-----------------------------------------------------------------------------
(* Steps that leave the file systems as they are                           *)

\* What concerns only call j.
OnlyAt(j) ==
  \A k \in Job \ {j} : /\ pc'[k] = pc[k] /\ fd'[k] = fd[k] /\ pos'[k] = pos[k]
                       /\ sum'[k] = sum[k] /\ result'[k] = result[k]

CallOk(j) == PlaceOk(j) /\ CopyOk(j) /\ DoneOk(j)

LEMMA AllCallsOk == ASSUME IInv, NEW j \in Job PROVE CallOk(j)
BY DEF IInv, CallInv, CallOk

LEMMA Silent ==
  ASSUME TypeInv, IInv, NEW j \in Job, UNCHANGED <<fsVars, runVars>>, faulted => faulted',
         OnlyAt(j), pc'[j] \in Reflinking => pc[j] \in Reflinking, CallOk(j)'
  PROVE  IInv'
<1> USE DEF fsVars, runVars
<1>1. DiskFrom(Mine(j))
  BY DEF DiskFrom, Pair
<1>2. Frame(j)
  BY <1>1 DEF Frame, OnlyAt
<1>3. \A k \in Job : UNCHANGED <<Src(k), Dst(k), Tmp(k), Want(k), Family(k)>>
  BY DEF Src, Dst, Tmp, Want, Family
<1>4. NamesInv'
  <2>1. \A p, q \in Path : Related(p, q)' <=> Related(p, q)
    BY DEF Related, Family, Src, Dst, Tmp
  <2> QED
    BY <2>1 DEF IInv, NamesInv
<1>5. AloneInv'
  <2>1. \A p : Alone(p)' <=> Alone(p)
    BY DEF Alone
  <2>2. \A k \in Job : pc'[k] \in Reflinking => pc[k] \in Reflinking
    BY DEF OnlyAt
  <2> QED
    BY <1>3, <2>1, <2>2 DEF IInv, AloneInv
<1>6. SourceOk(j)' /\ SoundOk(j)' /\ KeptOk(j)'
  <2>1. \A d \in disk : \A c : Holds(d, Src(j), c)' <=> Holds(d, Src(j), c)
    BY <1>3 DEF Holds
  <2>2. \A d \in disk : \A c : Holds(d, Dst(j), c)' <=> Holds(d, Dst(j), c)
    BY <1>3 DEF Holds
  <2>3. \A d \in disk : Sound(d, DstOf[j])' <=> Sound(d, DstOf[j])
    BY DEF Sound
  <2>4. SourceOk(j) /\ SoundOk(j) /\ KeptOk(j)
    BY DEF IInv, WorldInv
  <2>5. SourceOk(j)'
    BY <1>3, <2>1, <2>4 DEF SourceOk
  <2>6. SoundOk(j)'
    BY <1>3, <2>3, <2>4 DEF SoundOk
  <2>7. KeptOk(j)'
    BY <1>3, <2>2, <2>4 DEF KeptOk, Complete, Pair
  <2> QED
    BY <2>5, <2>6, <2>7
<1> QED
  BY <1>2, <1>4, <1>5, <1>6, Assemble DEF CallOk

\* A call that keeps its place in all that has to do with the files.
LEMMA Kept ==
  ASSUME NEW j \in Job, UNCHANGED <<fsVars, runVars>>
  PROVE  /\ UNCHANGED <<Src(j), Dst(j), Tmp(j), Want(j), dir, data, synced, config>>
         /\ \A p \in {Src(j), Dst(j), Tmp(j)} : Holds(dir, p, Want(j))' <=> Holds(dir, p, Want(j))
         /\ Everywhere(j)' <=> Everywhere(j)
         /\ Complete' <=> Complete
         /\ seen' = seen
BY DEF Src, Dst, Tmp, Want, fsVars, runVars, Holds, Everywhere, Complete

\* The steps that only go on elsewhere.
LEMMA GoOn ==
  ASSUME TypeInv, IInv, NEW j \in Job,
         Start(j) \/ MoveByCopy(j) \/ ReadBack(j) \/ CheckTmp(j) \/ StatTmp(j)
           \/ VerifyPrefix(j) \/ EndOfSource(j) \/ CompareSums(j)
  PROVE  TypeInv' /\ IInv'
<1> USE DEF fsVars, runVars, At, Goto, Finish, Close
<1>1. UNCHANGED <<fsVars, runVars, faulted>>
  BY DEF Start, MoveByCopy, ReadBack, CheckTmp, StatTmp, VerifyPrefix, EndOfSource, CompareSums
<1>2. CallOk(j) /\ pc[j] \in PC
  BY AllCallsOk DEF TypeInv, TypeOK
<1>3. config.mode \in {"copy", "move"}
  BY ConfigType DEF TypeInv, TypeOK
<1>f. /\ pc \in [Job -> PC] /\ fd \in [Job -> Inode \cup {NoFile}]
      /\ pos \in [Job -> Nat \ {0}] /\ result \in [Job -> {"none", "ok", "err"}]
      /\ sum \in [Job -> [src : Seq(Block), dst : Seq(Block)]]
  BY DEF TypeInv, TypeOK
<1>k. /\ UNCHANGED <<Src(j), Dst(j), Tmp(j), Want(j), dir, data, synced, config>>
      /\ \A p \in {Src(j), Dst(j), Tmp(j)} : Holds(dir, p, Want(j))' <=> Holds(dir, p, Want(j))
      /\ Everywhere(j)' <=> Everywhere(j)
      /\ Complete' <=> Complete
      /\ seen' = seen
  BY <1>1, Kept
<1>w. Want(j) \in Seq(Block) /\ Len(Want(j)) \in Nat \ {0}
  BY WantTypes
<1> DEFINE Goal == /\ OnlyAt(j) /\ (pc'[j] \in Reflinking => pc[j] \in Reflinking)
                   /\ CallOk(j)' /\ TypeInv'
<1> SUFFICES Goal
  BY <1>1, Silent
<1>4. CASE Start(j)
  <2>1. /\ At(j, "start") /\ pc' = [pc EXCEPT ![j] = pc'[j]]
        /\ pc'[j] \in {"rename", "reflink", "tmp"}
        /\ pc'[j] = "rename" => config.mode = "move"
        /\ pc'[j] = "reflink" => config.reflink
        /\ UNCHANGED <<fd, pos, sum, result>>
    BY <1>f, <1>4 DEF Start
  <2>2. TypeInv' /\ OnlyAt(j)
    <3>1. OnlyAt(j)
      BY <1>f, <2>1 DEF OnlyAt
    <3>2. pc' \in [Job -> PC]
      <4>1. pc'[j] \in PC
        BY <2>1 DEF PC
      <4> QED
        BY <1>f, <2>1, <4>1
    <3> QED
      BY <1>1, <2>1, <3>1, <3>2 DEF TypeInv, TypeOK
  <2>p. /\ PlaceOk(j) /\ dir[Src(j)] # NoFile /\ pc[j] = "start" /\ fd'[j] = fd[j]
        /\ result'[j] = result[j] /\ sum'[j] = sum[j]
    BY <1>f, <1>2, <2>1 DEF CallOk, PlaceOk, Ended
  <2>3. PlaceOk(j)'
    BY <1>1, <1>k, <2>1, <2>p DEF PlaceOk, Reflinking, Ended
  <2>4. CopyOk(j)'
    BY <1>f, <2>1 DEF CopyOk
  <2>5. DoneOk(j)'
    BY <1>f, <1>2, <1>k, <2>1 DEF CallOk, DoneOk, PlaceOk, Ended
  <2>c. CallOk(j)'
    BY <2>3, <2>4, <2>5 DEF CallOk
  <2> QED
    BY <1>f, <2>1, <2>2, <2>c DEF Reflinking
<1>5. CASE MoveByCopy(j)
  <2>1. /\ At(j, "rename") /\ pc' = [pc EXCEPT ![j] = pc'[j]]
        /\ pc'[j] \in {"reflink", "tmp"}
        /\ pc'[j] = "reflink" => config.reflink
        /\ UNCHANGED <<fd, pos, sum, result>>
    BY <1>f, <1>5 DEF MoveByCopy
  <2>2. TypeInv' /\ OnlyAt(j)
    <3>1. OnlyAt(j)
      BY <1>f, <2>1 DEF OnlyAt
    <3>2. pc' \in [Job -> PC]
      <4>1. pc'[j] \in PC
        BY <2>1 DEF PC
      <4> QED
        BY <1>f, <2>1, <4>1
    <3> QED
      BY <1>1, <2>1, <3>1, <3>2 DEF TypeInv, TypeOK
  <2>3. PlaceOk(j)'
    BY <1>f, <1>1, <1>2, <1>k, <2>1 DEF CallOk, PlaceOk, Reflinking, Ended
  <2>4. CopyOk(j)'
    BY <1>f, <2>1 DEF CopyOk
  <2>5. DoneOk(j)'
    BY <1>f, <1>2, <1>k, <2>1 DEF CallOk, DoneOk, PlaceOk, Ended
  <2>c. CallOk(j)'
    BY <2>3, <2>4, <2>5 DEF CallOk
  <2> QED
    BY <1>f, <2>1, <2>2, <2>c DEF Reflinking
<1>6. CASE ReadBack(j)
  <2>1. /\ At(j, "readback") /\ pc' = [pc EXCEPT ![j] = "over"]
        /\ result' = [result EXCEPT ![j] = "ok"]
        /\ UNCHANGED <<fd, pos, sum>>
    BY <1>f, <1>6 DEF ReadBack
  <2>2. TypeInv' /\ OnlyAt(j)
    BY <1>1, <2>1 DEF TypeInv, TypeOK, PC, OnlyAt
  <2>3. PlaceOk(j)'
    BY <1>f, <1>1, <1>2, <1>k, <2>1 DEF CallOk, PlaceOk, Reflinking, Ended
  <2>4. CopyOk(j)'
    BY <1>f, <2>1 DEF CopyOk
  <2>5. DoneOk(j)'
    BY <1>f, <1>2, <1>k, <2>1 DEF CallOk, DoneOk, PlaceOk, Ended
  <2>c. CallOk(j)'
    BY <2>3, <2>4, <2>5 DEF CallOk
  <2> QED
    BY <1>f, <2>1, <2>2, <2>c DEF Reflinking
<1>7. CASE CheckTmp(j)
  <2>1. /\ At(j, "tmp") /\ pc' = [pc EXCEPT ![j] = pc'[j]]
        /\ pc'[j] \in {"stat", "clear"}
        /\ UNCHANGED <<fd, pos, sum, result>>
    BY <1>f, <1>7 DEF CheckTmp
  <2>2. TypeInv' /\ OnlyAt(j)
    BY <1>1, <2>1 DEF TypeInv, TypeOK, PC, OnlyAt
  <2>3. PlaceOk(j)'
    BY <1>f, <1>1, <1>2, <1>k, <2>1 DEF CallOk, PlaceOk, Reflinking, Ended
  <2>4. CopyOk(j)'
    BY <1>f, <2>1 DEF CopyOk
  <2>5. DoneOk(j)'
    BY <1>f, <1>2, <1>k, <2>1 DEF CallOk, DoneOk, PlaceOk, Ended
  <2>c. CallOk(j)'
    BY <2>3, <2>4, <2>5 DEF CallOk
  <2> QED
    BY <1>f, <2>1, <2>2, <2>c DEF Reflinking
<1>t. dir[Tmp(j)] \in Inode \cup {NoFile}
  BY DirTypes, PathFacts
<1>8. CASE StatTmp(j)
  <2>1. /\ At(j, "stat") /\ pc' = [pc EXCEPT ![j] = pc'[j]]
        /\ pc'[j] \in {"open", "discard", "prefix"}
        /\ pc'[j] = "open" => ~Exists(Tmp(j)) \/ Size(Tmp(j)) = 0
        /\ pc'[j] = "discard" => Size(Tmp(j)) > Size(Src(j))
        /\ pc'[j] \in {"discard", "prefix"} => dir[Tmp(j)] # NoFile
        /\ pos' = [pos EXCEPT ![j] = 1] /\ sum' = [sum EXCEPT ![j] = NoSum]
        /\ UNCHANGED <<fd, result>>
    BY <1>f, <1>8 DEF StatTmp, Exists
  <2>0. NoSum \in [src : Seq(Block), dst : Seq(Block)]
    BY DEF NoSum
  <2>r. /\ pos' \in [Job -> Nat \ {0}]
        /\ sum' \in [Job -> [src : Seq(Block), dst : Seq(Block)]]
    BY <1>f, <2>0, <2>1
  <2>2. TypeInv' /\ OnlyAt(j)
    <3>1. pc'[j] \in PC
      BY <2>1 DEF PC
    <3>2. pc' \in [Job -> PC]
      BY <1>f, <2>1, <3>1
    <3>3. OnlyAt(j)
      BY <1>f, <2>1 DEF OnlyAt
    <3> QED
      BY <1>1, <1>f, <2>1, <2>r, <3>2, <3>3 DEF TypeInv, TypeOK
  <2>3. PlaceOk(j)'
    BY <1>f, <1>1, <1>2, <1>k, <2>1 DEF CallOk, PlaceOk, Reflinking, Ended, NoSum
  <2>4. pc'[j] = "open" /\ dir[Tmp(j)] # NoFile =>
          data[dir[Tmp(j)]] = SubSeq(Want(j), 1, 0)
    <3>1. pc'[j] = "open" /\ dir[Tmp(j)] # NoFile => data[dir[Tmp(j)]] = <<>>
      BY <1>t, <2>1, DataTypes, EmptySeq DEF Exists, Size, Bytes
    <3>2. SubSeq(Want(j), 1, 0) = <<>>
      BY <1>w
    <3> QED
      BY <3>1, <3>2
  <2>5. CopyOk(j)'
    <3>1. pos'[j] = 1
      BY <1>f, <2>1
    <3>2. ASSUME pc'[j] = "discard" PROVE ~KeptPrefix(j)'
      <4>1. Len(data[dir[Tmp(j)]]) \in Nat
        BY <1>t, <2>1, <3>2, DataTypes
      <4>2. dir[Src(j)] # NoFile /\ dir[Src(j)] \in Inode
        BY <1>2, <2>1, DirTypes, PathFacts DEF CallOk, PlaceOk, Ended
      <4>3. Len(data[dir[Src(j)]]) \in Nat
        BY <4>2, DataTypes
      <4> QED
        BY <1>k, <2>1, <3>2, <4>1, <4>3 DEF KeptPrefix, Size, Bytes
    <3> QED
      BY <1>f, <1>k, <1>w, <2>1, <2>4, <3>1, <3>2 DEF CopyOk
  <2>6. DoneOk(j)'
    BY <1>f, <1>2, <1>k, <2>1 DEF CallOk, DoneOk, PlaceOk, Ended
  <2>c. CallOk(j)'
    BY <2>3, <2>5, <2>6 DEF CallOk
  <2> QED
    BY <1>f, <2>1, <2>2, <2>c DEF Reflinking
<1>9. CASE VerifyPrefix(j)
  <2>1. /\ At(j, "prefix") /\ pc' = [pc EXCEPT ![j] = pc'[j]]
        /\ UNCHANGED <<fd, sum, result>>
        /\ \/ /\ pc'[j] = "open" /\ Exists(Tmp(j)) /\ KeptPrefix(j)
              /\ pos' = [pos EXCEPT ![j] = Size(Tmp(j)) + 1]
           \/ pc'[j] = "discard" /\ pos' = pos /\ ~(Exists(Tmp(j)) /\ KeptPrefix(j))
    BY <1>f, <1>9 DEF VerifyPrefix
  <2>2. dir[Tmp(j)] # NoFile =>
          Len(data[dir[Tmp(j)]]) \in Nat /\ Size(Tmp(j)) = Len(data[dir[Tmp(j)]])
    BY <1>t, DataTypes DEF Size, Bytes
  <2>3. pos' \in [Job -> Nat \ {0}]
    BY <1>f, <2>1, <2>2 DEF Exists
  <2>4. TypeInv' /\ OnlyAt(j)
    BY <1>1, <2>1, <2>3 DEF TypeInv, TypeOK, PC, OnlyAt
  <2>5. PlaceOk(j)'
    BY <1>f, <1>1, <1>2, <1>k, <2>1 DEF CallOk, PlaceOk, Reflinking, Ended
  <2>6. Bytes(Src(j)) = Want(j)
    <3>1. dir[Src(j)] # NoFile
      BY <1>f, <1>2, <2>1 DEF CallOk, PlaceOk, Ended
    <3>2. Holds(dir, Src(j), Want(j))
      BY <3>1, DirTypes DEF IInv, WorldInv, SourceOk
    <3> QED
      BY <3>2 DEF Holds, Bytes
  <2>7. CopyOk(j)'
    <3>1. CASE pc'[j] = "open"
      <4>1. /\ dir[Tmp(j)] # NoFile /\ pos'[j] = Len(data[dir[Tmp(j)]]) + 1
            /\ Len(data[dir[Tmp(j)]]) <= Len(Want(j))
            /\ data[dir[Tmp(j)]] = SubSeq(Want(j), 1, Len(data[dir[Tmp(j)]]))
        BY <1>f, <2>1, <2>2, <2>6, <3>1 DEF Exists, KeptPrefix, Size, Bytes
      <4>2. pos'[j] - 1 = Len(data[dir[Tmp(j)]]) /\ pos'[j] <= Len(Want(j)) + 1
        BY <1>w, <2>2, <4>1
      <4> QED
        BY <1>f, <1>k, <2>1, <3>1, <4>1, <4>2 DEF CopyOk
    <3>2. CASE pc'[j] = "discard"
      <4>1. pos'[j] = 1 /\ dir[Tmp(j)] # NoFile /\ ~KeptPrefix(j)
        BY <1>2, <2>1, <3>2 DEF CallOk, CopyOk, Exists
      <4>2. ~KeptPrefix(j)'
        BY <1>k, <4>1 DEF KeptPrefix, Size, Bytes
      <4> QED
        BY <1>f, <1>k, <3>2, <4>1, <4>2 DEF CopyOk
    <3> QED
      BY <2>1, <3>1, <3>2
  <2>8. DoneOk(j)'
    BY <1>f, <1>2, <1>k, <2>1 DEF CallOk, DoneOk, PlaceOk, Ended
  <2>c. CallOk(j)'
    BY <2>5, <2>7, <2>8 DEF CallOk
  <2> QED
    BY <1>f, <2>1, <2>4, <2>c DEF Reflinking
<1>10. CASE EndOfSource(j)
  <2>1. /\ At(j, "copy") /\ pos[j] > Size(Src(j)) /\ pc' = [pc EXCEPT ![j] = pc'[j]]
        /\ pc'[j] \in {"verify", "fsync"} /\ fd' = [fd EXCEPT ![j] = NoFile]
        /\ UNCHANGED <<pos, sum, result>>
    BY <1>f, <1>10 DEF EndOfSource
  <2>2. TypeInv' /\ OnlyAt(j)
    BY <1>1, <2>1 DEF TypeInv, TypeOK, PC, OnlyAt
  <2>3. PlaceOk(j)'
    BY <1>f, <1>1, <1>2, <1>k, <2>1 DEF CallOk, PlaceOk, Reflinking, Ended
  <2>4. Holds(dir, Src(j), Want(j))
    BY <1>2, <2>1, DirTypes DEF CallOk, PlaceOk, Ended, IInv, WorldInv, SourceOk
  <2>5. pos[j] - 1 = Len(Want(j))
    <3>1. pos[j] \in Nat /\ pos[j] <= Len(Want(j)) + 1
      BY <1>f, <1>2, <2>1 DEF CallOk, CopyOk
    <3>2. Size(Src(j)) = Len(Want(j))
      BY <2>4 DEF Holds, Size, Bytes
    <3> QED
      BY <1>w, <2>1, <3>1, <3>2
  <2>6. dir[Tmp(j)] # NoFile /\ data[dir[Tmp(j)]] = Want(j)
    <3>1. dir[Tmp(j)] # NoFile /\ data[dir[Tmp(j)]] = SubSeq(Want(j), 1, Len(Want(j)))
      BY <1>2, <2>1, <2>5 DEF CallOk, PlaceOk, CopyOk, Reflinking
    <3> QED
      BY <1>w, <3>1
  <2>7. CopyOk(j)'
    BY <1>f, <1>k, <2>1, <2>6 DEF CopyOk
  <2>8. DoneOk(j)'
    BY <1>f, <1>2, <1>k, <2>1 DEF CallOk, DoneOk, PlaceOk, Ended
  <2>c. CallOk(j)'
    BY <2>3, <2>7, <2>8 DEF CallOk
  <2> QED
    BY <1>f, <2>1, <2>2, <2>c DEF Reflinking
<1>11. CASE CompareSums(j)
  <2>1. /\ At(j, "verify") /\ pc' = [pc EXCEPT ![j] = "fsync"]
        /\ UNCHANGED <<fd, pos, sum, result>>
    BY <1>f, <1>2, <1>11 DEF CompareSums, CallOk, PlaceOk
  <2>2. TypeInv' /\ OnlyAt(j)
    BY <1>1, <2>1 DEF TypeInv, TypeOK, PC, OnlyAt
  <2>3. PlaceOk(j)'
    BY <1>f, <1>1, <1>2, <1>k, <2>1 DEF CallOk, PlaceOk, Reflinking, Ended
  <2>4. CopyOk(j)'
    BY <1>f, <1>2, <1>k, <2>1 DEF CallOk, CopyOk
  <2>5. DoneOk(j)'
    BY <1>f, <1>2, <1>k, <2>1 DEF CallOk, DoneOk, PlaceOk, Ended
  <2>c. CallOk(j)'
    BY <2>3, <2>4, <2>5 DEF CallOk
  <2> QED
    BY <1>f, <2>1, <2>2, <2>c DEF Reflinking
<1> QED
  BY <1>4, <1>5, <1>6, <1>7, <1>8, <1>9, <1>10, <1>11

\* The state of a call in the terms that a step changes.
LEMMA CallTypes ==
  ASSUME TypeInv
  PROVE  /\ pc \in [Job -> PC] /\ fd \in [Job -> Inode \cup {NoFile}]
         /\ pos \in [Job -> Nat \ {0}] /\ result \in [Job -> {"none", "ok", "err"}]
         /\ sum \in [Job -> [src : Seq(Block), dst : Seq(Block)]]
         /\ config \in Configs /\ config.mode \in {"copy", "move"}
BY ConfigType DEF TypeInv, TypeOK

LEMMA Fail ==
  ASSUME TypeInv, IInv, NEW j \in Job, IoError(j) \/ SoftError(j)
  PROVE  TypeInv' /\ IInv'
<1> USE CallTypes DEF fsVars, runVars
<1>1. /\ UNCHANGED <<fsVars, runVars, pos, sum>> /\ faulted' = TRUE
      /\ fd' = [fd EXCEPT ![j] = NoFile]
  BY DEF IoError, SoftError, Close
<1>2. CallOk(j)
  BY AllCallsOk
<1>k. /\ UNCHANGED <<Src(j), Dst(j), Tmp(j), Want(j), dir, data, synced, config>>
      /\ \A p \in {Src(j), Dst(j), Tmp(j)} : Holds(dir, p, Want(j))' <=> Holds(dir, p, Want(j))
      /\ Everywhere(j)' <=> Everywhere(j)
      /\ Complete' <=> Complete
      /\ seen' = seen
  BY <1>1, Kept
<1>3. \/ /\ pc' = [pc EXCEPT ![j] = "over"]
         /\ result' = [result EXCEPT ![j] = "err"]
      \/ /\ pc[j] \in {"prefix", "reflink", "rsync"} /\ result' = result
         /\ pc' = [pc EXCEPT ![j] = IF pc[j] = "prefix" THEN "discard" ELSE "tmp"]
  BY DEF IoError, SoftError, At, Goto, Finish
<1>4. TypeInv' /\ OnlyAt(j)
  <2>1. /\ pc' \in [Job -> PC] /\ result' \in [Job -> {"none", "ok", "err"}]
        /\ fd' \in [Job -> Inode \cup {NoFile}]
    BY <1>1, <1>3 DEF PC
  <2> QED
    BY <1>1, <1>3, <2>1 DEF TypeInv, TypeOK, OnlyAt
<1>5. PlaceOk(j)'
  BY <1>1, <1>2, <1>3, <1>k DEF CallOk, PlaceOk, Reflinking, Ended
<1>6. CopyOk(j)'
  BY <1>1, <1>2, <1>3, <1>k DEF CallOk, CopyOk
<1>7. DoneOk(j)'
  BY <1>1, <1>2, <1>3, <1>k DEF CallOk, DoneOk, PlaceOk, Ended
<1>8. pc'[j] \notin Reflinking
  BY <1>3 DEF Reflinking
<1> QED
  BY <1>1, <1>4, <1>5, <1>6, <1>7, <1>8, Silent DEF CallOk

\* A reflink that is not tried or not supported, a partial copy that is there.
LEMMA GoOnReflink ==
  ASSUME TypeInv, IInv, NEW j \in Job, UNCHANGED <<fsVars, pos, sum, runVars, faulted, result>>,
         \/ /\ pc[j] = "reflink" /\ pc' = [pc EXCEPT ![j] = "tmp"] /\ fd' = fd
         \/ /\ pc[j] = "range" /\ pc' = [pc EXCEPT ![j] = "ficlone"] /\ fd' = fd
         \/ /\ pc[j] = "range" /\ pc' = [pc EXCEPT ![j] = "tmp"]
            /\ fd' = [fd EXCEPT ![j] = NoFile]
         \/ /\ pc[j] = "open" /\ pc' = [pc EXCEPT ![j] = "copy"]
            /\ dir[Tmp(j)] # NoFile /\ fd' = [fd EXCEPT ![j] = dir[Tmp(j)]]
  PROVE  TypeInv' /\ IInv'
<1> USE CallTypes
<1>1. CallOk(j)
  BY AllCallsOk
<1>k. /\ UNCHANGED <<Src(j), Dst(j), Tmp(j), Want(j), dir, data, synced, config>>
      /\ \A p \in {Src(j), Dst(j), Tmp(j)} : Holds(dir, p, Want(j))' <=> Holds(dir, p, Want(j))
      /\ Everywhere(j)' <=> Everywhere(j)
      /\ Complete' <=> Complete
      /\ seen' = seen
  BY Kept
<1>2. TypeInv' /\ OnlyAt(j)
  <2>1. dir[Tmp(j)] \in Inode \cup {NoFile}
    BY DirTypes, PathFacts
  <2>2. pc' \in [Job -> PC] /\ fd' \in [Job -> Inode \cup {NoFile}]
    BY <2>1 DEF PC
  <2> QED
    BY <2>2 DEF TypeInv, TypeOK, OnlyAt, fsVars, runVars
<1>3. PlaceOk(j)'
  BY <1>1, <1>k DEF CallOk, PlaceOk, Reflinking, Ended
<1>4. CopyOk(j)'
  BY <1>1, <1>k DEF CallOk, CopyOk, PlaceOk, Reflinking
<1>5. DoneOk(j)'
  BY <1>1, <1>k DEF CallOk, DoneOk, PlaceOk, Ended
<1>6. pc'[j] \in Reflinking => pc[j] \in Reflinking
  BY DEF Reflinking
<1> QED
  BY <1>2, <1>3, <1>4, <1>5, <1>6, Silent DEF CallOk
-----------------------------------------------------------------------------
(* Steps that change the names                                             *)

\* The contents stay, but for those of a file that is created.
DataStep ==
  \/ UNCHANGED <<data, synced>>
  \/ /\ \E i \in Inode : Gone(i)
     /\ data' = [data EXCEPT ![Fresh] = <<>>]
     /\ synced' = [synced EXCEPT ![Fresh] = 0]

LEMMA DataKept ==
  ASSUME TypeInv, DataStep
  PROVE  /\ \A d \in disk, p \in Path : d[p] # NoFile =>
              data'[d[p]] = data[d[p]] /\ synced'[d[p]] = synced[d[p]]
         /\ data' \in [Inode -> Seq(Block)] /\ synced' \in [Inode -> Nat]
         /\ \A i \in Inode : synced'[i] \in 0 .. Len(data'[i])
<1>1. /\ data \in [Inode -> Seq(Block)] /\ synced \in [Inode -> Nat]
      /\ \A i \in Inode : synced[i] \in 0 .. Len(data[i])
      /\ \A d \in disk, p \in Path : d[p] \in Inode \cup {NoFile}
  BY DirTypes DEF TypeInv, TypeOK
<1>2. CASE UNCHANGED <<data, synced>>
  BY <1>1, <1>2
<1>3. CASE ~UNCHANGED <<data, synced>>
  <2>1. /\ Fresh \in Inode /\ \A d \in disk, p \in Path : d[p] # Fresh
        /\ data' = [data EXCEPT ![Fresh] = <<>>]
        /\ synced' = [synced EXCEPT ![Fresh] = 0]
    BY <1>3, FreshFacts DEF DataStep, Gone
  <2>2. <<>> \in Seq(Block) /\ Len(<<>>) = 0
    OBVIOUS
  <2>3. data' \in [Inode -> Seq(Block)] /\ synced' \in [Inode -> Nat]
    BY <1>1, <2>1, <2>2
  <2>4. data'[Fresh] = <<>> /\ synced'[Fresh] = 0
    BY <1>1, <2>1
  <2>5. \A i \in Inode : i # Fresh => data'[i] = data[i] /\ synced'[i] = synced[i]
    BY <1>1, <2>1
  <2>6. \A i \in Inode : synced'[i] \in 0 .. Len(data'[i])
    BY <1>1, <2>2, <2>4, <2>5
  <2> QED
    BY <1>1, <2>1, <2>3, <2>5, <2>6
<1> QED
  BY <1>2, <1>3

\* Each state that may be left has its sources from one and its destinations
\* from another of the states before, the new one included.
LEMMA StatesFrom ==
  ASSUME TypeInv, NEW newDir \in [Path -> Inode \cup {NoFile}], SetDir(newDir)
  PROVE  \A d \in disk' : \E a, b \in disk \cup {newDir} :
           /\ config.sameFs => d = a /\ d = b
           /\ \A p \in Path : d[p] = IF p[1] = "src" THEN a[p] ELSE b[p]
<1> SUFFICES ASSUME NEW d \in disk'
             PROVE  \E a, b \in disk \cup {newDir} :
                      /\ config.sameFs => d = a /\ d = b
                      /\ \A p \in Path : d[p] = IF p[1] = "src" THEN a[p] ELSE b[p]
  OBVIOUS
<1>1. PICK a, b \in disk \cup {newDir} :
        /\ config.sameFs => d = a /\ d = b
        /\ ~config.sameFs => d = Mixed(a, b)
  BY DiskStep
<1>2. \A p \in Path : d[p] = IF p[1] = "src" THEN a[p] ELSE b[p]
  BY <1>1, MixedValue
<1> QED
  BY <1>1, <1>2

\* A file of this state was under no name before.
New(newDir, p) == \A d \in disk : \A q \in Path : d[q] # newDir[p]

\* A step of a call that changes names of its own: what is left to show is what
\* concerns the call itself.
LEMMA NamesOk ==
  ASSUME TypeInv, IInv, NEW j \in Job, NEW newDir, Follows(newDir), SetDir(newDir), DataStep,
         UNCHANGED runVars, faulted' = faulted, OnlyAt(j),
         pc' \in [Job -> PC], fd' \in [Job -> Inode \cup {NoFile}],
         result' \in [Job -> {"none", "ok", "err"}], UNCHANGED <<pos, sum>>,
         \A p \in Path \ Mine(j) : newDir[p] = dir[p],
         newDir[Src(j)] \in {dir[Src(j)], NoFile},
         newDir[Tmp(j)] \in {dir[Tmp(j)], NoFile} \/ New(newDir, Tmp(j)),
         pc'[j] \in Reflinking => New(newDir, Dst(j)),
         \/ newDir[Dst(j)] = dir[Dst(j)]
         \/ config.reflink /\ Absent \in seen[DstOf[j]]
         \/ Sound(dir, DstOf[j])',
         \/ newDir[Src(j)] = dir[Src(j)] /\ dir[Src(j)] # NoFile
         \/ config.sameFs /\ (Complete => Holds(dir, Dst(j), Want(j))')
         \/ newDir[Dst(j)] = dir[Dst(j)] /\ (config.dirSync => Everywhere(j)),
         CallOk(j)'
  PROVE  TypeInv' /\ IInv'
<1>1. /\ newDir \in [Path -> Inode \cup {NoFile}] /\ dir' = newDir
      /\ disk' \subseteq [Path -> Inode \cup {NoFile}] /\ newDir \in disk'
      /\ UNCHANGED <<config, runs, want, seen>>
  BY DiskStep DEF Follows, runVars
<1>2. TypeInv'
  BY <1>1, DataKept DEF TypeInv, TypeOK
<1>3. /\ Src(j) \in Path /\ Dst(j) \in Path /\ Tmp(j) \in Path
      /\ Src(j)[1] = "src" /\ Dst(j)[1] = "dst" /\ Tmp(j)[1] = "dst" /\ dir \in disk
  BY PathFacts DEF TypeInv, TypeOK
<1>k. UNCHANGED <<Src(j), Dst(j), Tmp(j), Want(j)>>
  BY <1>1 DEF Src, Dst, Tmp, Want
<1>4. NamesInv'
  BY <1>1, NamesStep DEF IInv
<1>5. Frame(j)
  <2>1. DiskFrom(Mine(j))
    BY <1>1, SetDirFrom
  <2> QED
    BY <1>1, <2>1, DataKept DEF Frame, OnlyAt
<1>6. AloneInv'
  <2>1. \A k \in Job : Alone(Src(k)) /\ Alone(Tmp(k)) /\ (pc[k] \in Reflinking => Alone(Dst(k)))
    BY DEF IInv, AloneInv
  <2>2. Alone(Src(j))' /\ Alone(Tmp(j))'
    <3>1. Alone(Src(j))'
      BY <1>3, <2>1, AloneStep
    <3>2. Alone(Tmp(j))'
      BY <1>3, <2>1, AloneStep DEF New
    <3> QED
      BY <3>1, <3>2
  <2>3. pc'[j] \in Reflinking => Alone(Dst(j))'
    BY <1>3, AloneStep DEF New
  <2>4. ASSUME NEW k \in Job, k # j
        PROVE  Alone(Src(k))' /\ Alone(Tmp(k))' /\ (pc'[k] \in Reflinking => Alone(Dst(k))')
    <3>1. /\ Src(k) \in Path \ Mine(j) /\ Dst(k) \in Path \ Mine(j)
          /\ Tmp(k) \in Path \ Mine(j) /\ pc'[k] = pc[k]
      BY <2>4, NotMine DEF IInv, TypeInv, TypeOK, OnlyAt
    <3>2. /\ newDir[Src(k)] = dir[Src(k)] /\ newDir[Tmp(k)] = dir[Tmp(k)]
          /\ newDir[Dst(k)] = dir[Dst(k)]
      BY <3>1
    <3>3. Alone(Src(k))'
      BY <2>1, <3>1, <3>2, AloneStep
    <3>4. Alone(Tmp(k))'
      BY <2>1, <3>1, <3>2, AloneStep
    <3>5. pc'[k] \in Reflinking => Alone(Dst(k))'
      BY <2>1, <3>1, <3>2, AloneStep
    <3> QED
      BY <3>3, <3>4, <3>5
  <2>5. \A k \in Job : UNCHANGED <<Src(k), Dst(k), Tmp(k)>>
    BY DEF Src, Dst, Tmp
  <2>6. \A k \in Job : Alone(Src(k))' /\ Alone(Tmp(k))' /\ (pc'[k] \in Reflinking => Alone(Dst(k))')
    BY <2>2, <2>3, <2>4
  <2> QED
    BY <2>6 DEF AloneInv
<1>7. \A d \in disk' : \E a, b \in disk \cup {newDir} :
        /\ config.sameFs => d = a /\ d = b
        /\ d[Src(j)] = a[Src(j)] /\ d[Dst(j)] = b[Dst(j)]
  BY <1>1, <1>3, StatesFrom
<1>8. \A d \in disk, p \in Path : \A c : Holds(d, p, c) =>
        d[p] # NoFile /\ data'[d[p]] = c /\ synced'[d[p]] = Len(data'[d[p]])
  BY DataKept DEF Holds
<1>w. SourceOk(j) /\ SoundOk(j) /\ KeptOk(j)
  BY DEF IInv, WorldInv
<1>9. SourceOk(j)'
  <2>1. ASSUME NEW d \in disk', d[Src(j)] # NoFile PROVE Holds(d, Src(j), Want(j))'
    <3>1. PICK a \in disk : d[Src(j)] = a[Src(j)]
      BY <1>3, <1>7, <2>1
    <3>2. Holds(a, Src(j), Want(j))
      BY <1>w, <2>1, <3>1 DEF SourceOk
    <3> QED
      BY <1>3, <1>8, <1>k, <3>1, <3>2 DEF Holds
  <2>2. ASSUME dir'[Src(j)] # NoFile, NEW d \in disk' PROVE d[Src(j)] = dir'[Src(j)]
    BY <1>1, <1>7, <1>w, <2>2 DEF SourceOk
  <2> QED
    BY <1>k, <2>1, <2>2 DEF SourceOk
<1>10. SoundOk(j)'
  <2>1. ASSUME ~config.reflink \/ Absent \notin seen[DstOf[j]], NEW d \in disk'
        PROVE  Sound(d, DstOf[j])'
    <3>1. \A a \in disk : Sound(a, DstOf[j])
      BY <1>w, <2>1 DEF SoundOk
    <3>2. PICK b \in disk \cup {newDir} : d[Dst(j)] = b[Dst(j)]
      BY <1>7
    <3>3. CASE \E a \in disk : d[Dst(j)] = a[Dst(j)]
      <4>1. PICK a \in disk : d[Dst(j)] = a[Dst(j)]
        BY <3>3
      <4>2. a[Dst(j)] # NoFile =>
              data'[a[Dst(j)]] = data[a[Dst(j)]] /\ synced'[a[Dst(j)]] = synced[a[Dst(j)]]
        BY <1>3, DataKept
      <4>3. Sound(a, DstOf[j])
        BY <3>1
      <4> QED
        BY <1>1, <4>1, <4>2, <4>3 DEF Sound, Dst
    <3>4. CASE b = newDir /\ newDir[Dst(j)] # dir[Dst(j)]
      <4>1. Sound(dir, DstOf[j])'
        BY <2>1, <3>4
      <4> QED
        BY <1>1, <3>2, <3>4, <4>1 DEF Sound, Dst
    <3> QED
      BY <1>3, <3>2, <3>3, <3>4
  <2>2. (Want(j) \in seen[DstOf[j]])'
    BY <1>1, <1>k, <1>w DEF SoundOk
  <2> QED
    BY <1>1, <2>1, <2>2 DEF SoundOk
<1>11. KeptOk(j)'
  <2> SUFFICES ASSUME config.dirSync, Complete, NEW d \in disk', NEW e \in disk', Pair(d, e)
               PROVE  d[Src(j)] # NoFile \/ Holds(e, Dst(j), Want(j))'
    BY <1>1, <1>k DEF KeptOk, Complete, Pair
  <2>1. PICK a, b \in disk \cup {newDir} :
          Pair(a, b) /\ d[Src(j)] = a[Src(j)] /\ e[Dst(j)] = b[Dst(j)]
    BY <1>7 DEF Pair
  <2>2. CASE newDir[Src(j)] = dir[Src(j)] /\ dir[Src(j)] # NoFile
    BY <1>w, <2>1, <2>2 DEF SourceOk
  <2>3. CASE config.sameFs /\ Holds(dir, Dst(j), Want(j))'
    <3>1. a = b
      BY <2>1, <2>3 DEF Pair
    <3>2. CASE a = newDir
      BY <1>1, <1>k, <2>1, <2>3, <3>1, <3>2 DEF Holds
    <3>3. CASE a \in disk
      <4>1. a[Src(j)] # NoFile \/ Holds(a, Dst(j), Want(j))
        BY <1>w, <3>3 DEF KeptOk, Pair
      <4> QED
        BY <1>3, <1>8, <1>k, <2>1, <3>1, <3>3, <4>1 DEF Holds
    <3> QED
      BY <3>2, <3>3
  <2>4. CASE newDir[Dst(j)] = dir[Dst(j)] /\ Everywhere(j)
    <3>1. PICK x \in disk : e[Dst(j)] = x[Dst(j)]
      BY <1>3, <2>1, <2>4
    <3>2. Holds(x, Dst(j), Want(j))
      BY <2>4 DEF Everywhere
    <3> QED
      BY <1>3, <1>8, <1>k, <3>1, <3>2 DEF Holds
  <2> QED
    BY <2>2, <2>3, <2>4
<1> QED
  BY <1>2, <1>4, <1>5, <1>6, <1>9, <1>10, <1>11, Assemble DEF CallOk

LEMMA AllPlaces ==
  {"readback", "range", "ficlone", "rsync", "tmp", "create", "stat", "open", "copy",
   "publish", "syncdir", "unlink", "over", "down", "start"} \subseteq PC
BY DEF PC

\* The source of a call that is not over stands, and is whole.
LEMMA SourceThere ==
  ASSUME TypeInv, IInv, NEW j \in Job, pc[j] \notin Ended \cup {"readback"}
  PROVE  Holds(dir, Src(j), Want(j)) /\ dir[Src(j)] # NoFile
BY AllCallsOk, DirTypes DEF CallOk, PlaceOk, IInv, WorldInv, SourceOk

LEMMA MoveRenameOk ==
  ASSUME TypeInv, IInv, NEW j \in Job, MoveRename(j)
  PROVE  TypeInv' /\ IInv'
<1> USE CallTypes, PathFacts
<1> DEFINE newDir == [dir EXCEPT ![Dst(j)] = dir[Src(j)], ![Src(j)] = NoFile]
<1>1. /\ pc[j] = "rename" /\ config.sameFs /\ config.mode = "move"
      /\ UNCHANGED <<data, synced, fd, pos, sum, runVars, faulted>>
      /\ CallOk(j)
  BY AllCallsOk DEF MoveRename, Rename, At, CallOk, PlaceOk
<1>2. Follows(newDir)
  BY <1>1, RelatedFacts, RenameFollows DEF IInv
<1>3. SetDir(newDir)
  BY DEF MoveRename, Rename
<1>4. /\ newDir[Src(j)] = NoFile /\ newDir[Dst(j)] = dir[Src(j)]
      /\ \A p \in Path \ {Src(j), Dst(j)} : newDir[p] = dir[p]
  BY DEF TypeInv, TypeOK
<1>5. dir' = newDir
  BY <1>3 DEF SetDir
<1> HIDE DEF newDir
<1>6. /\ OnlyAt(j) /\ pc' \in [Job -> PC] /\ result' \in [Job -> {"none", "ok", "err"}]
      /\ \/ pc'[j] = "readback" /\ result'[j] = result[j]
         \/ pc'[j] = "over" /\ result'[j] = "ok"
  <2>1. \/ pc' = [pc EXCEPT ![j] = "readback"] /\ result' = result
        \/ pc' = [pc EXCEPT ![j] = "over"] /\ result' = [result EXCEPT ![j] = "ok"]
    BY DEF MoveRename, Goto, Finish
  <2>p. \E w \in PC : pc' = [pc EXCEPT ![j] = w]
    BY <2>1, AllPlaces
  <2>r. \E r \in {"none", "ok", "err"} : result' = [result EXCEPT ![j] = r]
    BY <2>1, CallTypes
  <2>2. /\ pc' \in [Job -> PC] /\ result' \in [Job -> {"none", "ok", "err"}]
    BY <2>p, <2>r, CallTypes
  <2>3. OnlyAt(j)
    BY <1>1, <2>1, CallTypes DEF OnlyAt
  <2> QED
    BY <2>1, <2>2, <2>3, CallTypes
<1>7. Holds(dir, Src(j), Want(j))
  BY <1>1, SourceThere DEF Ended
<1>k. UNCHANGED <<Src(j), Dst(j), Tmp(j), Want(j), config, seen>>
  BY <1>1 DEF Src, Dst, Tmp, Want, runVars
<1>8. Holds(dir, Dst(j), Want(j))'
  BY <1>1, <1>4, <1>5, <1>7, <1>k DEF Holds
<1>9. Sound(dir, DstOf[j])'
  <2>1. Want(j) \in seen[DstOf[j]]
    BY DEF IInv, WorldInv, SoundOk
  <2> QED
    BY <1>8, <1>k, <2>1 DEF Holds, Sound, Dst
<1>10. CallOk(j)'
  <2>1. PlaceOk(j)'
    BY <1>1, <1>6, <1>k DEF CallOk, PlaceOk, Reflinking, Ended
  <2>2. CopyOk(j)'
    BY <1>6 DEF CopyOk
  <2>3. DoneOk(j)'
    BY <1>1, <1>4, <1>5, <1>6, <1>8, <1>k DEF CallOk, DoneOk, PlaceOk, Ended
  <2> QED
    BY <2>1, <2>2, <2>3 DEF CallOk
<1>11. \A p \in Path \ Mine(j) : newDir[p] = dir[p]
  BY <1>1, <1>4 DEF Mine
<1>12. DataStep /\ pc'[j] \notin Reflinking /\ newDir[Tmp(j)] = dir[Tmp(j)]
  BY <1>1, <1>4, <1>6, Distinctly DEF DataStep, Reflinking, IInv
<1> QED
  BY <1>1, <1>2, <1>3, <1>4, <1>6, <1>8, <1>9, <1>10, <1>11, <1>12, NamesOk

LEMMA FicloneFails ==
  ASSUME TypeInv, IInv, NEW j \in Job, pc[j] = "ficlone", Remove(Dst(j)),
         Goto(j, "tmp"), Close(j), UNCHANGED <<pos, sum, runVars, faulted>>
  PROVE  TypeInv' /\ IInv'
<1> USE CallTypes, PathFacts
<1> DEFINE newDir == [dir EXCEPT ![Dst(j)] = NoFile]
<1>1. /\ CallOk(j) /\ config.reflink /\ Absent \in seen[DstOf[j]]
      /\ UNCHANGED <<data, synced>>
  BY AllCallsOk DEF CallOk, PlaceOk, Reflinking, Remove
<1>2. Follows(newDir)
  BY RemoveFollows DEF IInv
<1>3. SetDir(newDir)
  BY DEF Remove
<1>4. newDir[Dst(j)] = NoFile /\ \A p \in Path \ {Dst(j)} : newDir[p] = dir[p]
  BY DEF TypeInv, TypeOK
<1>5. dir' = newDir
  BY <1>3 DEF SetDir
<1> HIDE DEF newDir
<1>6. /\ OnlyAt(j) /\ pc' \in [Job -> PC] /\ fd' \in [Job -> Inode \cup {NoFile}]
      /\ result' = result /\ pc'[j] = "tmp" /\ fd'[j] = NoFile
  BY DEF Goto, Close, OnlyAt, PC
<1>k. UNCHANGED <<Src(j), Dst(j), Tmp(j), Want(j), config, seen>>
  BY DEF Src, Dst, Tmp, Want, runVars
<1>7. /\ newDir[Src(j)] = dir[Src(j)] /\ dir[Src(j)] # NoFile
      /\ newDir[Tmp(j)] = dir[Tmp(j)]
  BY <1>4, SourceThere, Distinctly DEF IInv, Ended
<1>8. CallOk(j)'
  <2>1. PlaceOk(j)'
    BY <1>1, <1>5, <1>6, <1>7, <1>k DEF CallOk, PlaceOk, Reflinking, Ended
  <2>2. CopyOk(j)' /\ DoneOk(j)'
    BY <1>1, <1>6 DEF CallOk, PlaceOk, CopyOk, DoneOk, Ended
  <2> QED
    BY <2>1, <2>2 DEF CallOk
<1>9. DataStep /\ pc'[j] \notin Reflinking
  BY <1>1, <1>6 DEF DataStep, Reflinking
<1>10. \A p \in Path \ Mine(j) : newDir[p] = dir[p]
  BY <1>4 DEF Mine
<1> QED
  BY <1>1, <1>2, <1>3, <1>6, <1>7, <1>8, <1>9, <1>10, NamesOk

LEMMA RemoveTmpOk ==
  ASSUME TypeInv, IInv, NEW j \in Job, ClearTmp(j) \/ Discard(j)
  PROVE  TypeInv' /\ IInv'
<1> USE CallTypes, PathFacts
<1> DEFINE newDir == [dir EXCEPT ![Tmp(j)] = NoFile]
<1>1. /\ CallOk(j) /\ UNCHANGED <<data, synced, fd, pos, sum, runVars, faulted>>
      /\ \/ pc[j] = "clear" /\ pc' = [pc EXCEPT ![j] = "create"]
         \/ pc[j] = "discard" /\ pc' = [pc EXCEPT ![j] = "open"]
      /\ result' = result
  BY AllCallsOk DEF ClearTmp, Discard, Remove, At, Goto
<1>2. Follows(newDir)
  BY RemoveFollows DEF IInv
<1>3. SetDir(newDir)
  BY DEF ClearTmp, Discard, Remove
<1>4. newDir[Tmp(j)] = NoFile /\ \A p \in Path \ {Tmp(j)} : newDir[p] = dir[p]
  BY DEF TypeInv, TypeOK
<1>5. dir' = newDir
  BY <1>3 DEF SetDir
<1> HIDE DEF newDir
<1>6. OnlyAt(j) /\ pc' \in [Job -> PC] /\ pc'[j] \in {"create", "open"}
  <2>p. \E w \in PC : pc' = [pc EXCEPT ![j] = w]
    BY <1>1, AllPlaces
  <2>1. pc' \in [Job -> PC]
    BY <2>p, CallTypes
  <2>2. OnlyAt(j)
    BY <1>1, CallTypes DEF OnlyAt
  <2> QED
    BY <1>1, <2>1, <2>2, CallTypes
<1>k. UNCHANGED <<Src(j), Dst(j), Tmp(j), Want(j), config, seen>>
  BY <1>1 DEF Src, Dst, Tmp, Want, runVars
<1>7. /\ newDir[Src(j)] = dir[Src(j)] /\ dir[Src(j)] # NoFile
      /\ newDir[Dst(j)] = dir[Dst(j)]
  BY <1>1, <1>4, SourceThere, Distinctly DEF IInv, Ended
<1>8. CallOk(j)'
  <2>1. PlaceOk(j)'
    BY <1>1, <1>5, <1>6, <1>7, <1>k DEF CallOk, PlaceOk, Reflinking, Ended
  <2>2. CopyOk(j)'
    <3>1. Len(Want(j)) \in Nat
      BY WantTypes
    <3> QED
      BY <1>1, <1>4, <1>5, <1>6, <1>k, <3>1 DEF CallOk, CopyOk
  <2>3. DoneOk(j)'
    BY <1>1, <1>6 DEF CallOk, PlaceOk, DoneOk, Ended
  <2> QED
    BY <2>1, <2>2, <2>3 DEF CallOk
<1>9. DataStep /\ pc'[j] \notin Reflinking
  BY <1>1, <1>6 DEF DataStep, Reflinking
<1>10. \A p \in Path \ Mine(j) : newDir[p] = dir[p]
  BY <1>4 DEF Mine
<1> QED
  BY <1>1, <1>2, <1>3, <1>4, <1>6, <1>7, <1>8, <1>9, <1>10, NamesOk

LEMMA PublishOk ==
  ASSUME TypeInv, IInv, NEW j \in Job, Publish(j)
  PROVE  TypeInv' /\ IInv'
<1> USE CallTypes, PathFacts
<1> DEFINE newDir == [dir EXCEPT ![Dst(j)] = dir[Tmp(j)], ![Tmp(j)] = NoFile]
<1>1. /\ CallOk(j) /\ pc[j] = "publish" /\ Holds(dir, Tmp(j), Want(j))
      /\ UNCHANGED <<fd, pos, sum, runVars, faulted>>
  BY AllCallsOk DEF Publish, At, CallOk, CopyOk
<1>2. /\ SetDir(newDir) /\ UNCHANGED <<data, synced, result>>
      /\ pc' = [pc EXCEPT ![j] = "syncdir"]
  BY <1>1 DEF Publish, Rename, Exists, Goto, Holds
<1>3. Follows(newDir)
  BY RenameFollows, RelatedFacts, Distinctly DEF IInv
<1>4. /\ newDir[Tmp(j)] = NoFile /\ newDir[Dst(j)] = dir[Tmp(j)]
      /\ \A p \in Path \ {Tmp(j), Dst(j)} : newDir[p] = dir[p]
  BY Distinctly DEF TypeInv, TypeOK, IInv
<1>5. dir' = newDir
  BY <1>2 DEF SetDir
<1> HIDE DEF newDir
<1>6. OnlyAt(j) /\ pc' \in [Job -> PC] /\ pc'[j] = "syncdir"
  BY <1>1, <1>2 DEF OnlyAt, PC
<1>k. UNCHANGED <<Src(j), Dst(j), Tmp(j), Want(j), config, seen>>
  BY <1>1 DEF Src, Dst, Tmp, Want, runVars
<1>7. newDir[Src(j)] = dir[Src(j)] /\ dir[Src(j)] # NoFile
  BY <1>1, <1>4, SourceThere DEF Ended
<1>8. Holds(dir, Dst(j), Want(j))'
  BY <1>1, <1>2, <1>4, <1>5, <1>k DEF Holds
<1>9. Sound(dir, DstOf[j])'
  <2>1. Want(j) \in seen[DstOf[j]]
    BY DEF IInv, WorldInv, SoundOk
  <2> QED
    BY <1>8, <1>k, <2>1 DEF Holds, Sound, Dst
<1>10. CallOk(j)'
  <2>1. PlaceOk(j)'
    BY <1>1, <1>2, <1>5, <1>6, <1>7, <1>k DEF CallOk, PlaceOk, Reflinking, Ended
  <2>2. CopyOk(j)'
    BY <1>6, <1>8 DEF CopyOk
  <2>3. DoneOk(j)'
    BY <1>1, <1>2, <1>6 DEF CallOk, PlaceOk, DoneOk, Ended
  <2> QED
    BY <2>1, <2>2, <2>3 DEF CallOk
<1>11. DataStep /\ pc'[j] \notin Reflinking
  BY <1>2, <1>6 DEF DataStep, Reflinking
<1>12. \A p \in Path \ Mine(j) : newDir[p] = dir[p]
  BY <1>4 DEF Mine
<1> QED
  BY <1>1, <1>2, <1>3, <1>4, <1>6, <1>7, <1>9, <1>10, <1>11, <1>12, NamesOk

LEMMA UnlinkOk ==
  ASSUME TypeInv, IInv, NEW j \in Job, Unlink(j)
  PROVE  TypeInv' /\ IInv'
<1> USE CallTypes, PathFacts
<1> DEFINE newDir == [dir EXCEPT ![Src(j)] = NoFile]
<1>1. /\ CallOk(j) /\ pc[j] = "unlink" /\ config.mode = "move"
      /\ UNCHANGED <<data, synced, fd, pos, sum, runVars, faulted>>
      /\ SetDir(newDir)
      /\ pc' = [pc EXCEPT ![j] = "over"] /\ result' = [result EXCEPT ![j] = "ok"]
  BY AllCallsOk DEF Unlink, Remove, Finish, At, CallOk, PlaceOk
<1>2. Follows(newDir)
  BY RemoveFollows DEF IInv
<1>4. newDir[Src(j)] = NoFile /\ \A p \in Path \ {Src(j)} : newDir[p] = dir[p]
  BY DEF TypeInv, TypeOK
<1>5. dir' = newDir
  BY <1>1 DEF SetDir
<1> HIDE DEF newDir
<1>6. /\ OnlyAt(j) /\ pc' \in [Job -> PC] /\ pc'[j] = "over" /\ result'[j] = "ok"
      /\ result' \in [Job -> {"none", "ok", "err"}]
  BY <1>1 DEF OnlyAt, PC
<1>k. UNCHANGED <<Src(j), Dst(j), Tmp(j), Want(j), config, seen>>
  BY <1>1 DEF Src, Dst, Tmp, Want, runVars
<1>7. newDir[Dst(j)] = dir[Dst(j)] /\ newDir[Tmp(j)] = dir[Tmp(j)]
  BY <1>4
<1>8. Complete => Holds(dir, Dst(j), Want(j))'
  BY <1>1, <1>5, <1>7, <1>k DEF CallOk, DoneOk, Holds
<1>9. config.sameFs \/ (config.dirSync => Everywhere(j))
  BY <1>1 DEF CallOk, DoneOk
<1>10. CallOk(j)'
  <2>1. PlaceOk(j)'
    BY <1>1, <1>6, <1>k DEF CallOk, PlaceOk, Reflinking, Ended
  <2>2. CopyOk(j)'
    BY <1>6 DEF CopyOk
  <2>3. DoneOk(j)'
    BY <1>1, <1>4, <1>5, <1>6, <1>8, <1>k DEF DoneOk, Complete
  <2> QED
    BY <2>1, <2>2, <2>3 DEF CallOk
<1>11. DataStep /\ pc'[j] \notin Reflinking
  BY <1>1, <1>6 DEF DataStep, Reflinking
<1>12. \A p \in Path \ Mine(j) : newDir[p] = dir[p]
  BY <1>1, <1>4 DEF Mine
<1> QED
  BY <1>1, <1>2, <1>4, <1>6, <1>7, <1>8, <1>9, <1>10, <1>11, <1>12, NamesOk

\* A file that is created is open or about to be, and empty.
LEMMA CreateOk ==
  ASSUME TypeInv, IInv, NEW j \in Job, NEW p \in {Dst(j), Tmp(j)}, dir[p] = NoFile,
         CreateEmpty(p), UNCHANGED <<pos, sum, result, runVars, faulted>>,
         \/ /\ p = Dst(j) /\ pc[j] = "reflink" /\ pc' = [pc EXCEPT ![j] = "range"]
            /\ fd' = [fd EXCEPT ![j] = Fresh]
         \/ p = Tmp(j) /\ pc[j] = "create" /\ pc' = [pc EXCEPT ![j] = "stat"] /\ fd' = fd
         \/ /\ p = Tmp(j) /\ pc[j] = "open" /\ pc' = [pc EXCEPT ![j] = "copy"]
            /\ fd' = [fd EXCEPT ![j] = Fresh]
  PROVE  TypeInv' /\ IInv'
<1> USE CallTypes, PathFacts
<1> DEFINE newDir == [dir EXCEPT ![p] = Fresh]
<1>1. /\ CallOk(j) /\ SetDir(newDir) /\ \E i \in Inode : Gone(i)
      /\ data' = [data EXCEPT ![Fresh] = <<>>] /\ synced' = [synced EXCEPT ![Fresh] = 0]
  BY AllCallsOk DEF CreateEmpty
<1>2. /\ Fresh \in Inode /\ Fresh # NoFile /\ p \in Path
      /\ \A d \in disk, q \in Path : d[q] # Fresh
  BY <1>1, FreshFacts DEF Gone
<1>3. Follows(newDir)
  BY <1>1, <1>2, CreateFollows DEF IInv
<1>4. newDir[p] = Fresh /\ \A q \in Path \ {p} : newDir[q] = dir[q]
  BY <1>2 DEF TypeInv, TypeOK
<1>5. dir' = newDir
  BY <1>1 DEF SetDir
<1> HIDE DEF newDir
<1>6. /\ OnlyAt(j) /\ pc' \in [Job -> PC] /\ fd' \in [Job -> Inode \cup {NoFile}]
      /\ pc'[j] \in Reflinking => p = Dst(j)
  <2>p. \E w \in PC : pc' = [pc EXCEPT ![j] = w]
    BY AllPlaces
  <2>1. pc' \in [Job -> PC]
    BY <2>p, CallTypes
  <2>2. fd' \in [Job -> Inode \cup {NoFile}]
    BY <1>2, CallTypes
  <2>3. OnlyAt(j)
    BY CallTypes DEF OnlyAt
  <2> QED
    BY <2>1, <2>2, <2>3, CallTypes DEF Reflinking
<1>k. UNCHANGED <<Src(j), Dst(j), Tmp(j), Want(j), config, seen>>
  BY DEF Src, Dst, Tmp, Want, runVars
<1>7. newDir[Src(j)] = dir[Src(j)] /\ dir[Src(j)] # NoFile /\ Dst(j) # Tmp(j)
  <2>1. Dst(j) # Tmp(j) /\ p # Src(j)
    BY Distinctly DEF IInv
  <2>2. pc[j] \notin Ended /\ pc[j] # "readback"
    BY DEF Ended
  <2>3. dir[Src(j)] # NoFile
    BY <2>2, SourceThere DEF IInv
  <2> QED
    BY <1>4, <2>1, <2>3
<1>8. p = Dst(j) => config.reflink /\ Absent \in seen[DstOf[j]]
  <2> SUFFICES ASSUME p = Dst(j) PROVE config.reflink /\ Absent \in seen[DstOf[j]]
    OBVIOUS
  <2>1. config.reflink
    BY <1>1, <1>7 DEF CallOk, PlaceOk
  <2>2. Absent \notin seen[DstOf[j]] => Sound(dir, DstOf[j])
    BY DirTypes DEF IInv, WorldInv, SoundOk
  <2>3. Absent \in seen[DstOf[j]]
    BY <2>2 DEF Sound, Dst
  <2> QED
    BY <2>1, <2>3
<1>9. data'[Fresh] = <<>> /\ synced'[Fresh] = 0
  BY <1>1, <1>2 DEF TypeInv, TypeOK
<1>10. CallOk(j)'
  <2>1. PlaceOk(j)'
    BY <1>1, <1>2, <1>4, <1>5, <1>7, <1>8, <1>k DEF CallOk, PlaceOk, Reflinking, Ended
  <2>2. CopyOk(j)'
    <3>1. CASE pc[j] = "reflink"
      BY <1>7, <1>9, <3>1 DEF CopyOk
    <3>2. CASE pc[j] = "create"
      BY <1>7, <3>2 DEF CopyOk
    <3>3. CASE pc[j] = "open"
      <4>1. /\ pos'[j] = 1 /\ dir'[Tmp(j)] = Fresh /\ p = Tmp(j)
            /\ pc'[j] = "copy"
        BY <1>1, <1>4, <1>5, <1>7, <3>3 DEF CallOk, CopyOk
      <4>2. 1 <= Len(Want(j)) + 1 /\ SubSeq(Want(j), 1, 0) = <<>>
        BY WantTypes
      <4>3. SubSeq(Want(j), 1, pos'[j] - 1) = <<>>
        BY <4>1, <4>2
      <4> QED
        BY ONLY <1>2, <1>9, <1>k, <4>1, <4>2, <4>3 DEF CopyOk, NoFile
    <3> QED
      BY <1>7, <3>1, <3>2, <3>3
  <2>3. DoneOk(j)'
    BY <1>1 DEF CallOk, PlaceOk, DoneOk, Ended
  <2> QED
    BY <2>1, <2>2, <2>3 DEF CallOk
<1>11. DataStep /\ New(newDir, p)
  BY <1>1, <1>2, <1>4 DEF DataStep, New
<1>12. \A q \in Path \ Mine(j) : newDir[q] = dir[q]
  BY <1>4 DEF Mine
<1>13. /\ newDir[Tmp(j)] = dir[Tmp(j)] \/ New(newDir, Tmp(j))
       /\ newDir[Dst(j)] = dir[Dst(j)] \/ p = Dst(j)
  BY <1>4, <1>11
<1>14. /\ pc'[j] \in Reflinking => New(newDir, Dst(j))
       /\ \/ newDir[Dst(j)] = dir[Dst(j)]
          \/ config.reflink /\ Absent \in seen[DstOf[j]]
  BY <1>6, <1>8, <1>11, <1>13
<1> QED
  BY <1>3, <1>1, <1>6, <1>7, <1>10, <1>11, <1>12, <1>13, <1>14, NamesOk
-----------------------------------------------------------------------------
(* Steps that write to a file, or sync one                                 *)

LEMMA AppendNext ==
  ASSUME NEW S, NEW s \in Seq(S), NEW n \in 1 .. Len(s)
  PROVE  Append(SubSeq(s, 1, n - 1), s[n]) = SubSeq(s, 1, n)
<1>1. Len(s) \in Nat /\ n \in Nat
  OBVIOUS
<1> DEFINE t == Append(SubSeq(s, 1, n - 1), s[n])
           u == SubSeq(s, 1, n)
<1>2. t \in Seq(S) /\ u \in Seq(S) /\ Len(t) = n /\ Len(u) = n
  BY <1>1
<1>3. \A i \in 1 .. n : t[i] = u[i]
  BY <1>1
<1> HIDE DEF t, u
<1>4. t = u
  BY <1>2, <1>3, SeqEqual
<1> QED
  BY <1>4 DEF t, u

\* A file that only this call can have a name for is written to or synced.
LEMMA FileOk ==
  ASSUME TypeInv, IInv, NEW j \in Job, NEW p \in {Dst(j), Tmp(j)},
         dir[p] # NoFile, Alone(p), pc[j] \notin Ended \cup {"readback"},
         p = Dst(j) => config.reflink /\ Absent \in seen[DstOf[j]],
         UNCHANGED <<dir, disk, runVars, faulted>>, OnlyAt(j),
         pc' \in [Job -> PC], fd' \in [Job -> Inode \cup {NoFile}],
         pos' \in [Job -> Nat \ {0}], result' \in [Job -> {"none", "ok", "err"}],
         sum' \in [Job -> [src : Seq(Block), dst : Seq(Block)]],
         data' \in [Inode -> Seq(Block)], synced' \in [Inode -> Nat],
         synced'[dir[p]] <= Len(data'[dir[p]]),
         \A i \in Inode : i # dir[p] => data'[i] = data[i] /\ synced'[i] = synced[i],
         pc'[j] \in Reflinking => pc[j] \in Reflinking,
         CallOk(j)'
  PROVE  TypeInv' /\ IInv'
<1>1. /\ Src(j) \in Path /\ Dst(j) \in Path /\ Tmp(j) \in Path /\ p \in Path
      /\ p # Src(j) /\ (p = Tmp(j) => p # Dst(j)) /\ dir[p] \in Inode
      /\ p \in Mine(j)
  BY PathFacts, DirTypes, Distinctly DEF IInv, Mine
<1>2. TypeInv'
  <2>1. \A i \in Inode : synced'[i] \in 0 .. Len(data'[i])
    <3> SUFFICES ASSUME NEW i \in Inode PROVE synced'[i] <= Len(data'[i])
      OBVIOUS
    <3> QED
      BY DataTypes
  <2> QED
    BY <2>1 DEF TypeInv, TypeOK, runVars
<1>3. \A d \in disk, q \in Path : q # p /\ d[q] # NoFile =>
        data'[d[q]] = data[d[q]] /\ synced'[d[q]] = synced[d[q]]
  BY DirTypes DEF Alone
<1>4. DiskFrom(Mine(j))
  BY DEF DiskFrom, Pair
<1>5. Frame(j)
  BY <1>1, <1>3, <1>4 DEF Frame, OnlyAt
<1>k. \A k \in Job : UNCHANGED <<Src(k), Dst(k), Tmp(k), Want(k)>>
  BY DEF Src, Dst, Tmp, Want, runVars
<1>6. NamesInv'
  <2>1. \A q, r \in Path : Related(q, r)' <=> Related(q, r)
    BY DEF Related, Family, Src, Dst, Tmp, runVars
  <2> QED
    BY <2>1 DEF IInv, NamesInv, runVars
<1>7. AloneInv'
  <2>1. \A q : Alone(q)' <=> Alone(q)
    BY DEF Alone
  <2>2. \A k \in Job : pc'[k] \in Reflinking => pc[k] \in Reflinking
    BY DEF OnlyAt
  <2> QED
    BY <1>k, <2>1, <2>2 DEF IInv, AloneInv
<1>w. SourceOk(j) /\ SoundOk(j) /\ dir[Src(j)] # NoFile
  BY SourceThere DEF IInv, WorldInv
<1>8. SourceOk(j)'
  <2>1. ASSUME NEW d \in disk PROVE Holds(d, Src(j), Want(j))'
    <3>1. Holds(d, Src(j), Want(j)) /\ d[Src(j)] = dir[Src(j)]
      BY <1>w DEF SourceOk
    <3> QED
      BY <1>1, <1>3, <1>k, <3>1 DEF Holds
  <2> QED
    BY <1>k, <1>w, <2>1 DEF SourceOk
<1>9. SoundOk(j)'
  <2>1. ASSUME ~config.reflink \/ Absent \notin seen[DstOf[j]], NEW d \in disk
        PROVE  Sound(d, DstOf[j])'
    <3>1. p # Dst(j) /\ Sound(d, DstOf[j])
      BY <1>w, <2>1 DEF SoundOk
    <3> QED
      BY <1>1, <1>3, <3>1 DEF Sound, Dst, runVars
  <2> QED
    BY <1>k, <1>w, <2>1 DEF SoundOk, runVars
<1>10. KeptOk(j)'
  <2>1. \A d \in disk : d[Src(j)] # NoFile
    BY <1>w DEF SourceOk
  <2> QED
    BY <1>k, <2>1 DEF KeptOk
<1> QED
  BY <1>2, <1>5, <1>6, <1>7, <1>8, <1>9, <1>10, Assemble DEF CallOk

\* The content a reflink gives the destination.
LEMMA ReflinkWrites ==
  ASSUME TypeInv, IInv, NEW j \in Job, pc[j] \in {"range", "ficlone"}, config.sameFs,
         NEW c \in Seq(Block), data' = [data EXCEPT ![fd[j]] = c],
         c = Want(j) \/ "short" \in RangeResults,
         pc' = [pc EXCEPT ![j] = "rsync"],
         UNCHANGED <<dir, synced, disk, fd, pos, sum, result, runVars, faulted>>
  PROVE  TypeInv' /\ IInv'
<1> USE CallTypes, PathFacts
<1>1. /\ CallOk(j) /\ fd[j] = dir[Dst(j)] /\ dir[Dst(j)] # NoFile /\ synced[fd[j]] = 0
      /\ config.reflink /\ Absent \in seen[DstOf[j]]
  BY AllCallsOk DEF CallOk, PlaceOk, CopyOk, Reflinking
<1>2. fd[j] \in Inode
  BY <1>1, DirTypes
<1>3. /\ data \in [Inode -> Seq(Block)] /\ synced \in [Inode -> Nat]
  BY DEF TypeInv
<1>4. /\ data' \in [Inode -> Seq(Block)] /\ synced' \in [Inode -> Nat]
      /\ data'[fd[j]] = c /\ synced'[fd[j]] <= Len(data'[fd[j]])
      /\ \A i \in Inode : i # fd[j] => data'[i] = data[i] /\ synced'[i] = synced[i]
  BY <1>1, <1>2, <1>3
<1>5. Alone(Dst(j))
  BY DEF IInv, AloneInv, Reflinking
<1>6. pc' \in [Job -> PC] /\ OnlyAt(j) /\ pc'[j] = "rsync"
  BY AllPlaces DEF OnlyAt
<1>k. UNCHANGED <<Src(j), Dst(j), Tmp(j), Want(j), config, seen>>
  BY DEF Src, Dst, Tmp, Want, runVars
<1>7. CallOk(j)'
  <2>1. PlaceOk(j)'
    BY <1>1, <1>6, <1>k DEF CallOk, PlaceOk, Reflinking, Ended
  <2>2. CopyOk(j)'
    BY <1>1, <1>4, <1>6, <1>k DEF CopyOk, Complete
  <2>3. DoneOk(j)'
    BY <1>1, <1>6, <1>k DEF CallOk, PlaceOk, DoneOk, Ended
  <2> QED
    BY <2>1, <2>2, <2>3 DEF CallOk
<1>8. pc[j] \notin Ended \cup {"readback"} /\ pc[j] \in Reflinking
  BY DEF Ended, Reflinking
<1> QED
  BY <1>1, <1>4, <1>5, <1>6, <1>7, <1>8, FileOk

LEMMA CopyRangeOk ==
  ASSUME TypeInv, IInv, NEW j \in Job, CopyRange(j)
  PROVE  TypeInv' /\ IInv'
<1>1. PICK r \in RangeResults \ (IF config.sameFs THEN {} ELSE {"full", "short"}) :
        /\ CASE r = "full"  -> data' = [data EXCEPT ![fd[j]] = Bytes(Src(j))]
             [] r = "short" -> \E n \in 1 .. (Size(Src(j)) - 1) :
                                 data' = [data EXCEPT ![fd[j]] = SubSeq(Bytes(Src(j)), 1, n)]
             [] OTHER       -> UNCHANGED data
        /\ Goto(j, CASE r \in {"full", "short"} -> "rsync"
                     [] r = "unsupported" -> "ficlone"
                     [] r = "error" -> "tmp")
        /\ IF r = "error" THEN Close(j) ELSE UNCHANGED fd
  BY DEF CopyRange
<1>2. /\ pc[j] = "range" /\ UNCHANGED <<dir, synced, disk, pos, sum, result, runVars, faulted>>
  BY DEF CopyRange, At, Goto
<1>3. Bytes(Src(j)) = Want(j) /\ Want(j) \in Seq(Block)
  BY <1>2, SourceThere, WantTypes DEF Ended, Holds, Bytes
<1>4. CASE r = "full"
  BY <1>1, <1>2, <1>3, <1>4, ReflinkWrites DEF Goto
<1>5. CASE r = "short"
  <2>1. PICK n \in 1 .. (Size(Src(j)) - 1) :
          data' = [data EXCEPT ![fd[j]] = SubSeq(Want(j), 1, n)]
    BY <1>1, <1>3, <1>5
  <2>2. Size(Src(j)) = Len(Want(j)) /\ Len(Want(j)) \in Nat
    BY <1>3, WantTypes DEF Size
  <2>3. SubSeq(Want(j), 1, n) \in Seq(Block)
    BY <1>3, <2>2
  <2> QED
    BY <1>1, <1>2, <1>5, <2>1, <2>3, ReflinkWrites DEF Goto
<1>6. CASE r \in {"unsupported", "error"}
  <2>1. UNCHANGED <<fsVars, pos, sum, runVars, faulted, result>>
    BY <1>1, <1>2, <1>6 DEF fsVars
  <2>2. \/ pc' = [pc EXCEPT ![j] = "ficlone"] /\ fd' = fd
        \/ pc' = [pc EXCEPT ![j] = "tmp"] /\ fd' = [fd EXCEPT ![j] = NoFile]
    BY <1>1, <1>6 DEF Goto, Close
  <2> QED
    BY <1>2, <2>1, <2>2, GoOnReflink
<1> QED
  BY <1>1, <1>4, <1>5, <1>6, TransferAssumption DEF TransferAssumption

LEMMA FicloneOk ==
  ASSUME TypeInv, IInv, NEW j \in Job, Ficlone(j)
  PROVE  TypeInv' /\ IInv'
<1>1. pc[j] = "ficlone" /\ UNCHANGED <<pos, sum, runVars, faulted>>
  BY DEF Ficlone, At
<1>2. CASE /\ config.sameFs /\ data' = [data EXCEPT ![fd[j]] = Bytes(Src(j))]
           /\ Goto(j, "rsync") /\ UNCHANGED <<dir, synced, disk, fd>>
  <2>1. Bytes(Src(j)) = Want(j) /\ Want(j) \in Seq(Block)
    BY <1>1, SourceThere, WantTypes DEF Ended, Holds, Bytes
  <2> QED
    BY <1>1, <1>2, <2>1, ReflinkWrites DEF Goto
<1>3. CASE Remove(Dst(j)) /\ Goto(j, "tmp") /\ Close(j)
  BY <1>1, <1>3, FicloneFails
<1> QED
  BY <1>2, <1>3 DEF Ficlone

\* What SyncAll does to a file of this call.
LEMMA SyncTypes ==
  ASSUME TypeInv, NEW i \in Inode, SyncAll(i)
  PROVE  /\ data' \in [Inode -> Seq(Block)] /\ synced' \in [Inode -> Nat]
         /\ UNCHANGED <<dir, data, disk>>
         /\ synced'[i] = Len(data'[i]) /\ synced'[i] <= Len(data'[i])
         /\ \A k \in Inode : k # i => data'[k] = data[k] /\ synced'[k] = synced[k]
<1>1. /\ data \in [Inode -> Seq(Block)] /\ synced \in [Inode -> Nat]
      /\ Len(data[i]) \in Nat
  BY DataTypes DEF TypeInv
<1>2. synced' = [synced EXCEPT ![i] = Len(data[i])] /\ UNCHANGED <<dir, data, disk>>
  BY DEF SyncAll
<1> QED
  BY <1>1, <1>2

LEMMA ReflinkSyncOk ==
  ASSUME TypeInv, IInv, NEW j \in Job, ReflinkSync(j)
  PROVE  TypeInv' /\ IInv'
<1> USE CallTypes, PathFacts
<1>1. /\ CallOk(j) /\ fd[j] = dir[Dst(j)] /\ dir[Dst(j)] # NoFile
      /\ config.reflink /\ Absent \in seen[DstOf[j]] /\ pc[j] = "rsync" /\ config.sameFs
      /\ Complete => data[dir[Dst(j)]] = Want(j)
  BY AllCallsOk DEF CallOk, PlaceOk, CopyOk, Reflinking, ReflinkSync, At
<1>2. dir[Dst(j)] \in Inode /\ SyncAll(dir[Dst(j)])
  BY <1>1, DirTypes DEF ReflinkSync
<1>3. UNCHANGED <<pos, sum, runVars, faulted>> /\ fd' = [fd EXCEPT ![j] = NoFile]
  BY DEF ReflinkSync, Close
<1>4. \/ /\ config.mode = "move" /\ pc' = [pc EXCEPT ![j] = "unlink"] /\ result' = result
      \/ /\ config.mode = "copy" /\ pc' = [pc EXCEPT ![j] = "over"]
         /\ result' = [result EXCEPT ![j] = "ok"]
  BY DEF ReflinkSync, Copied, Goto, Finish
<1>5. /\ pc' \in [Job -> PC] /\ result' \in [Job -> {"none", "ok", "err"}]
      /\ fd' \in [Job -> Inode \cup {NoFile}]
  <2>1. \E w \in PC : pc' = [pc EXCEPT ![j] = w]
    BY <1>4, AllPlaces
  <2>2. \E r \in {"none", "ok", "err"} : result' = [result EXCEPT ![j] = r]
    BY <1>4
  <2> QED
    BY <1>3, <2>1, <2>2
<1>6. /\ OnlyAt(j) /\ fd'[j] = NoFile
      /\ \/ config.mode = "move" /\ pc'[j] = "unlink" /\ result'[j] = result[j]
         \/ config.mode = "copy" /\ pc'[j] = "over" /\ result'[j] = "ok"
  <2>1. OnlyAt(j)
    BY <1>3, <1>4 DEF OnlyAt
  <2> QED
    BY <1>3, <1>4, <2>1
<1>7. Alone(Dst(j))
  BY <1>1 DEF IInv, AloneInv, Reflinking
<1>8. UNCHANGED <<dir, data, disk>> /\ synced'[dir[Dst(j)]] = Len(data'[dir[Dst(j)]])
  BY <1>2, SyncTypes
<1>k. UNCHANGED <<Src(j), Dst(j), Tmp(j), Want(j), config, seen>>
  BY <1>3 DEF Src, Dst, Tmp, Want, runVars
<1>9. CallOk(j)'
  <2>1. PlaceOk(j)'
    BY <1>1, <1>3, <1>6, <1>8, <1>k DEF CallOk, PlaceOk, Reflinking, Ended
  <2>2. CopyOk(j)'
    BY <1>6 DEF CopyOk
  <2>3. Complete' => Holds(dir, Dst(j), Want(j))'
    BY <1>1, <1>8, <1>k DEF Holds, Complete
  <2>4. DoneOk(j)'
    BY <1>1, <1>6, <1>k, <2>3 DEF CallOk, PlaceOk, DoneOk, Ended
  <2> QED
    BY <2>1, <2>2, <2>4 DEF CallOk
<1>10. /\ pc[j] \notin Ended \cup {"readback"} /\ pc'[j] \notin Reflinking
  BY <1>1, <1>6 DEF Ended, Reflinking
<1>11. pos' \in [Job -> Nat \ {0}] /\ sum' \in [Job -> [src : Seq(Block), dst : Seq(Block)]]
  BY <1>3
<1>12. /\ data' \in [Inode -> Seq(Block)] /\ synced' \in [Inode -> Nat]
       /\ synced'[dir[Dst(j)]] <= Len(data'[dir[Dst(j)]])
       /\ \A i \in Inode : i # dir[Dst(j)] => data'[i] = data[i] /\ synced'[i] = synced[i]
  BY <1>2, SyncTypes
<1> QED
  BY <1>1, <1>3, <1>5, <1>6, <1>7, <1>8, <1>9, <1>10, <1>11, <1>12, FileOk

LEMMA SyncTmpOk ==
  ASSUME TypeInv, IInv, NEW j \in Job, SyncTmp(j)
  PROVE  TypeInv' /\ IInv'
<1> USE CallTypes, PathFacts
<1>1. /\ CallOk(j) /\ pc[j] = "fsync" /\ dir[Tmp(j)] # NoFile /\ data[dir[Tmp(j)]] = Want(j)
  BY AllCallsOk DEF CallOk, CopyOk, SyncTmp, At
<1>2. dir[Tmp(j)] \in Inode /\ SyncAll(dir[Tmp(j)])
  BY <1>1, DirTypes DEF SyncTmp, Exists
<1>3. /\ UNCHANGED <<fd, pos, sum, result, runVars, faulted>>
      /\ pc' = [pc EXCEPT ![j] = "publish"]
  BY <1>1 DEF SyncTmp, Exists, Goto
<1>4. pc' \in [Job -> PC] /\ OnlyAt(j) /\ pc'[j] = "publish"
  BY <1>3, AllPlaces DEF OnlyAt
<1>5. Alone(Tmp(j)) /\ Dst(j) # Tmp(j)
  BY Distinctly DEF IInv, AloneInv
<1>6. UNCHANGED <<dir, data, disk>> /\ synced'[dir[Tmp(j)]] = Len(data'[dir[Tmp(j)]])
  BY <1>2, SyncTypes
<1>k. UNCHANGED <<Src(j), Dst(j), Tmp(j), Want(j), config, seen>>
  BY <1>3 DEF Src, Dst, Tmp, Want, runVars
<1>7. CallOk(j)'
  <2>1. PlaceOk(j)'
    BY <1>1, <1>3, <1>4, <1>6, <1>k DEF CallOk, PlaceOk, Reflinking, Ended
  <2>2. Holds(dir, Tmp(j), Want(j))'
    BY <1>1, <1>6, <1>k DEF Holds
  <2>3. CopyOk(j)'
    BY <1>1, <1>4, <1>6, <1>k, <2>2 DEF CopyOk
  <2>4. DoneOk(j)'
    BY <1>1, <1>3, <1>4 DEF CallOk, PlaceOk, DoneOk, Ended
  <2> QED
    BY <2>1, <2>3, <2>4 DEF CallOk
<1>8. /\ pc[j] \notin Ended \cup {"readback"} /\ pc'[j] \notin Reflinking
  BY <1>1, <1>4 DEF Ended, Reflinking
<1>9. /\ data' \in [Inode -> Seq(Block)] /\ synced' \in [Inode -> Nat]
      /\ synced'[dir[Tmp(j)]] <= Len(data'[dir[Tmp(j)]])
      /\ \A i \in Inode : i # dir[Tmp(j)] => data'[i] = data[i] /\ synced'[i] = synced[i]
  BY <1>2, SyncTypes
<1> QED
  BY <1>1, <1>3, <1>4, <1>5, <1>6, <1>7, <1>8, <1>9, FileOk

LEMMA CopyBlockOk ==
  ASSUME TypeInv, IInv, NEW j \in Job, CopyBlock(j)
  PROVE  TypeInv' /\ IInv'
<1> USE CallTypes, PathFacts
<1>1. /\ CallOk(j) /\ pc[j] = "copy" /\ fd[j] = dir[Tmp(j)] /\ dir[Tmp(j)] # NoFile
      /\ pos[j] <= Size(Src(j))
      /\ data[dir[Tmp(j)]] = SubSeq(Want(j), 1, pos[j] - 1)
      /\ sum[j].src = sum[j].dst
  <2>1. pc[j] = "copy" /\ pos[j] <= Size(Src(j))
    BY DEF CopyBlock, At
  <2>2. CallOk(j)
    BY AllCallsOk
  <2>3. fd[j] = dir[Tmp(j)] /\ fd[j] # NoFile /\ sum[j].src = sum[j].dst
    BY <2>1, <2>2 DEF CallOk, PlaceOk, Reflinking
  <2>4. data[dir[Tmp(j)]] = SubSeq(Want(j), 1, pos[j] - 1)
    BY <2>1, <2>2, <2>3 DEF CallOk, CopyOk
  <2> QED
    BY <2>1, <2>2, <2>3, <2>4
<1>2. /\ Bytes(Src(j)) = Want(j) /\ Size(Src(j)) = Len(Want(j))
      /\ Want(j) \in Seq(Block) /\ Len(Want(j)) \in Nat /\ dir[Tmp(j)] \in Inode
  BY <1>1, SourceThere, WantTypes, DirTypes DEF Ended, Holds, Bytes, Size
<1> DEFINE b == Want(j)[pos[j]]
<1>3. pos[j] \in 1 .. Len(Want(j)) /\ b \in Block
  <2>1. pos[j] \in 1 .. Len(Want(j))
    BY <1>1, <1>2
  <2> QED
    BY <1>2, <2>1, ElementOfSeq
<1>4. /\ UNCHANGED <<dir, synced, disk, pc, fd, result, runVars, faulted>>
      /\ data' = [data EXCEPT ![dir[Tmp(j)]] = Append(data[dir[Tmp(j)]], b)]
      /\ pos' = [pos EXCEPT ![j] = pos[j] + 1]
      /\ \/ sum' = sum
         \/ sum' = [sum EXCEPT ![j] = [src |-> Append(sum[j].src, b),
                                       dst |-> Append(sum[j].dst, b)]]
  BY <1>1, <1>2 DEF CopyBlock
<1>5. data[dir[Tmp(j)]] \in Seq(Block) /\ synced[dir[Tmp(j)]] <= Len(data[dir[Tmp(j)]])
  BY <1>2, DataTypes
<1>6. /\ data'[dir[Tmp(j)]] = Append(data[dir[Tmp(j)]], b)
      /\ data' \in [Inode -> Seq(Block)]
      /\ \A i \in Inode : i # dir[Tmp(j)] => data'[i] = data[i]
  <2>1. Append(data[dir[Tmp(j)]], b) \in Seq(Block) /\ data \in [Inode -> Seq(Block)]
    BY <1>3, <1>5 DEF TypeInv
  <2> QED
    BY <1>2, <1>4, <2>1
<1>7. synced'[dir[Tmp(j)]] <= Len(data'[dir[Tmp(j)]]) /\ synced' \in [Inode -> Nat]
  <2>1. Len(Append(data[dir[Tmp(j)]], b)) = Len(data[dir[Tmp(j)]]) + 1
    BY <1>5
  <2> QED
    BY <1>2, <1>4, <1>5, <1>6, <2>1, DataTypes DEF TypeInv
<1>8. data'[dir[Tmp(j)]] = SubSeq(Want(j), 1, pos[j])
  BY <1>1, <1>2, <1>3, <1>6, AppendNext
<1>9. pos' \in [Job -> Nat \ {0}] /\ pos'[j] = pos[j] + 1
  BY <1>4
<1> HIDE DEF b
<1>10. /\ sum' \in [Job -> [src : Seq(Block), dst : Seq(Block)]]
       /\ sum'[j].src = sum'[j].dst
  <2>1. CASE sum' = sum
    BY <1>1, <2>1
  <2>2. CASE sum' = [sum EXCEPT ![j] = [src |-> Append(sum[j].src, b),
                                        dst |-> Append(sum[j].dst, b)]]
    <3>1. sum[j].src \in Seq(Block) /\ sum[j].dst \in Seq(Block)
      OBVIOUS
    <3>2. Append(sum[j].src, b) \in Seq(Block) /\ Append(sum[j].dst, b) \in Seq(Block)
      BY <1>3, <3>1
    <3>3. [src |-> Append(sum[j].src, b), dst |-> Append(sum[j].dst, b)]
            \in [src : Seq(Block), dst : Seq(Block)]
      BY <3>2
    <3> QED
      BY <1>1, <2>2, <3>3
  <2> QED
    BY <1>4, <2>1, <2>2
<1>11. OnlyAt(j)
  BY <1>4 DEF OnlyAt
<1>k. UNCHANGED <<Src(j), Dst(j), Tmp(j), Want(j), config, seen>>
  BY <1>4 DEF Src, Dst, Tmp, Want, runVars
<1>12. CallOk(j)'
  <2>1. PlaceOk(j)'
    BY <1>1, <1>4, <1>10, <1>k DEF CallOk, PlaceOk, Reflinking, Ended
  <2>2. CopyOk(j)'
    <3>1. pos'[j] <= Len(Want(j)) + 1 /\ pos'[j] - 1 = pos[j]
      BY <1>2, <1>3, <1>9
    <3> QED
      BY <1>1, <1>4, <1>8, <1>k, <3>1 DEF CopyOk
  <2>3. DoneOk(j)'
    BY <1>1, <1>4 DEF CallOk, PlaceOk, DoneOk, Ended
  <2> QED
    BY <2>1, <2>2, <2>3 DEF CallOk
<1>13. /\ pc[j] \notin Ended \cup {"readback"} /\ Alone(Tmp(j)) /\ Dst(j) # Tmp(j)
  BY <1>1, Distinctly DEF Ended, IInv, AloneInv
<1>14. /\ \A i \in Inode : i # dir[Tmp(j)] => data'[i] = data[i] /\ synced'[i] = synced[i]
       /\ pc' = pc /\ fd' = fd /\ result' = result
  BY <1>4, <1>6
<1> QED
  <2>1. /\ pc' \in [Job -> PC] /\ fd' \in [Job -> Inode \cup {NoFile}]
        /\ result' \in [Job -> {"none", "ok", "err"}]
        /\ pc'[j] \in Reflinking => pc[j] \in Reflinking
    BY <1>14
  <2>2. UNCHANGED <<dir, disk, runVars, faulted>>
    BY <1>4
  <2> QED
    BY <1>1, <1>6, <1>7, <1>9, <1>10, <1>11, <1>12, <1>13, <1>14, <2>1, <2>2, FileOk
-----------------------------------------------------------------------------
(* A directory is synced                                                   *)

LEMMA SyncedStates ==
  ASSUME TypeInv, NamesInv
  PROVE  /\ SyncedDst \subseteq disk /\ dir \in SyncedDst
         /\ \A d \in SyncedDst, p \in Path : p[1] = "dst" => d[p] = dir[p]
         /\ ~config.sameFs => \A d, e \in SyncedDst : Mixed(d, e) \in SyncedDst
<1>1. CASE config.sameFs
  BY <1>1, DirTypes DEF SyncedDst
<1>2. CASE ~config.sameFs
  <2>1. SyncedDst = {Mixed(d, dir) : d \in disk}
    BY <1>2 DEF SyncedDst
  <2>2. SyncedDst \subseteq disk
    BY <1>2, <2>1, DirTypes DEF NamesInv
  <2>3. dir = Mixed(dir, dir)
    BY DEF Mixed, TypeInv, TypeOK
  <2>4. dir \in SyncedDst
    BY <2>1, <2>3, DirTypes
  <2>5. \A d \in SyncedDst, p \in Path : p[1] = "dst" => d[p] = dir[p]
    BY <2>1, MixedValue
  <2>6. ASSUME NEW d \in SyncedDst, NEW e \in SyncedDst PROVE Mixed(d, e) \in SyncedDst
    <3>1. PICK a \in disk : d = Mixed(a, dir)
      BY <2>1
    <3>2. PICK b \in disk : e = Mixed(b, dir)
      BY <2>1
    <3>3. Mixed(d, e) = Mixed(a, dir)
      BY <3>1, <3>2, MixedValue DEF Mixed
    <3> QED
      BY <2>1, <3>3
  <2> QED
    BY <2>2, <2>4, <2>5, <2>6
<1> QED
  BY <1>1, <1>2

LEMMA SyncDirOk ==
  ASSUME TypeInv, IInv, NEW j \in Job, SyncDir(j)
  PROVE  TypeInv' /\ IInv'
<1> USE CallTypes, PathFacts
<1>1. /\ CallOk(j) /\ pc[j] = "syncdir" /\ Holds(dir, Dst(j), Want(j))
      /\ UNCHANGED <<dir, data, synced, fd, pos, sum, runVars, faulted>>
  BY AllCallsOk DEF CallOk, CopyOk, SyncDir, At
<1>2. \/ disk' = disk /\ ~config.dirSync
      \/ disk' = SyncedDst /\ config.dirSync
  BY ConfigType DEF SyncDir
<1>3. /\ disk' \subseteq disk /\ dir \in disk'
      /\ ~config.sameFs => \A d, e \in disk' : Mixed(d, e) \in disk'
      /\ config.dirSync => \A d \in disk' : d[Dst(j)] = dir[Dst(j)]
  BY <1>2, SyncedStates, DirTypes DEF IInv, NamesInv
<1>4. \/ /\ config.mode = "move" /\ pc' = [pc EXCEPT ![j] = "unlink"] /\ result' = result
      \/ /\ config.mode = "copy" /\ pc' = [pc EXCEPT ![j] = "over"]
         /\ result' = [result EXCEPT ![j] = "ok"]
  BY DEF SyncDir, Copied, Goto, Finish
<1>5. pc' \in [Job -> PC] /\ result' \in [Job -> {"none", "ok", "err"}]
  <2>1. \E w \in PC : pc' = [pc EXCEPT ![j] = w]
    BY <1>4, AllPlaces
  <2>2. \E r \in {"none", "ok", "err"} : result' = [result EXCEPT ![j] = r]
    BY <1>4
  <2> QED
    BY <2>1, <2>2
<1>6. /\ OnlyAt(j)
      /\ \/ config.mode = "move" /\ pc'[j] = "unlink" /\ result'[j] = result[j]
         \/ config.mode = "copy" /\ pc'[j] = "over" /\ result'[j] = "ok"
  <2>1. OnlyAt(j)
    BY <1>1, <1>4 DEF OnlyAt
  <2> QED
    BY <1>4, <2>1
<1>7. TypeInv'
  <2>1. disk' \subseteq [Path -> Inode \cup {NoFile}]
    BY <1>3 DEF TypeInv, TypeOK
  <2> QED
    BY <1>1, <1>3, <1>5, <2>1 DEF TypeInv, TypeOK, runVars
<1>8. Frame(j)
  <2>1. DiskFrom(Mine(j))
    BY <1>3 DEF DiskFrom
  <2> QED
    BY <1>1, <1>6, <2>1 DEF Frame, OnlyAt
<1>k. \A k \in Job : UNCHANGED <<Src(k), Dst(k), Tmp(k), Want(k), config, seen>>
  BY <1>1 DEF Src, Dst, Tmp, Want, runVars
<1>9. NamesInv'
  <2>1. \A q, r \in Path : Related(q, r)' <=> Related(q, r)
    BY <1>1 DEF Related, Family, Src, Dst, Tmp, runVars
  <2>2. config' = config
    BY <1>1 DEF runVars
  <2> QED
    BY <1>3, <2>1, <2>2 DEF IInv, NamesInv, Mixed
<1>10. AloneInv'
  <2>1. \A q : Alone(q) => Alone(q)'
    BY <1>1, <1>3 DEF Alone
  <2>2. \A k \in Job : pc'[k] \in Reflinking => pc[k] \in Reflinking
    BY <1>6 DEF OnlyAt, Reflinking
  <2> QED
    BY <1>k, <2>1, <2>2 DEF IInv, AloneInv
<1>w. SourceOk(j) /\ SoundOk(j) /\ KeptOk(j)
  BY DEF IInv, WorldInv
<1>11. SourceOk(j)'
  <2>1. \A d \in disk : \A c : Holds(d, Src(j), c)' <=> Holds(d, Src(j), c)
    BY <1>1, <1>k DEF Holds
  <2> QED
    BY <1>1, <1>3, <1>k, <1>w, <2>1 DEF SourceOk
<1>12. SoundOk(j)'
  <2>1. \A d \in disk : Sound(d, DstOf[j])' <=> Sound(d, DstOf[j])
    BY <1>1, <1>k DEF Sound
  <2> QED
    BY <1>3, <1>k, <1>w, <2>1 DEF SoundOk
<1>h. \A d \in disk : \A c : Holds(d, Dst(j), c)' <=> Holds(d, Dst(j), c)
  BY <1>1, <1>k DEF Holds
<1>13. KeptOk(j)'
  BY <1>3, <1>k, <1>w, <1>h DEF KeptOk, Complete, Pair
<1>14. CallOk(j)'
  <2>1. PlaceOk(j)'
    BY <1>1, <1>6, <1>k DEF CallOk, PlaceOk, Reflinking, Ended
  <2>2. CopyOk(j)'
    BY <1>6 DEF CopyOk
  <2>3. Holds(dir, Dst(j), Want(j))'
    BY <1>1, <1>k DEF Holds
  <2>4. config.dirSync => Everywhere(j)'
    <3>1. ASSUME config.dirSync, NEW d \in disk' PROVE Holds(d, Dst(j), Want(j))'
      BY <1>1, <1>3, <1>k, <3>1 DEF Holds
    <3> QED
      BY <3>1 DEF Everywhere
  <2>5. DoneOk(j)'
    BY <1>1, <1>6, <1>k, <2>3, <2>4 DEF CallOk, PlaceOk, DoneOk, Ended
  <2> QED
    BY <2>1, <2>2, <2>5 DEF CallOk
<1> QED
  BY <1>7, <1>8, <1>9, <1>10, <1>11, <1>12, <1>13, <1>14, Assemble DEF CallOk
-----------------------------------------------------------------------------
(* Every step of a call                                                    *)

LEMMA CallStep ==
  ASSUME TypeInv, IInv, NEW j \in Job, Call(j) \/ IoError(j) \/ SoftError(j)
  PROVE  TypeInv' /\ IInv'
<1>1. CASE IoError(j) \/ SoftError(j)
  BY <1>1, Fail
<1>2. CASE Start(j) \/ MoveByCopy(j) \/ ReadBack(j) \/ CheckTmp(j) \/ StatTmp(j)
             \/ VerifyPrefix(j) \/ EndOfSource(j) \/ CompareSums(j)
  BY <1>2, GoOn
<1>3. CASE MoveRename(j) \/ ClearTmp(j) \/ Discard(j) \/ Publish(j) \/ Unlink(j)
  BY <1>3, MoveRenameOk, RemoveTmpOk, PublishOk, UnlinkOk
<1>4. CASE CopyRange(j) \/ Ficlone(j) \/ ReflinkSync(j) \/ CopyBlock(j) \/ SyncTmp(j)
             \/ SyncDir(j)
  BY <1>4, CopyRangeOk, FicloneOk, ReflinkSyncOk, CopyBlockOk, SyncTmpOk, SyncDirOk
<1>5. CASE ReflinkCreate(j)
  <2>1. pc[j] = "reflink" /\ UNCHANGED <<pos, sum, result, runVars, faulted>>
    BY <1>5 DEF ReflinkCreate, At, Goto
  <2>2. CASE dir[Dst(j)] = NoFile
    BY <1>5, <2>1, <2>2, CreateOk DEF ReflinkCreate, Exists, Goto
  <2>3. CASE dir[Dst(j)] # NoFile
    BY <1>5, <2>1, <2>3, GoOnReflink DEF ReflinkCreate, Exists, Goto, fsVars
  <2> QED
    BY <2>2, <2>3
<1>6. CASE CreateTmp(j)
  <2>1. pc[j] = "create" /\ UNCHANGED <<fd, pos, sum, runVars, faulted>>
    BY <1>6 DEF CreateTmp, At
  <2>2. dir[Tmp(j)] = NoFile
    BY <2>1, AllCallsOk DEF CallOk, CopyOk
  <2> QED
    BY <1>6, <2>1, <2>2, CreateOk DEF CreateTmp, Exists, Goto
<1>7. CASE OpenTmp(j)
  <2>1. /\ pc[j] = "open" /\ UNCHANGED <<pos, sum, result, runVars, faulted>>
        /\ pc' = [pc EXCEPT ![j] = "copy"]
    BY <1>7 DEF OpenTmp, At, Goto
  <2>2. CASE dir[Tmp(j)] = NoFile
    BY <1>7, <2>1, <2>2, CreateOk DEF OpenTmp, Exists
  <2>3. CASE dir[Tmp(j)] # NoFile
    BY <1>7, <2>1, <2>3, GoOnReflink DEF OpenTmp, Exists
  <2> QED
    BY <2>2, <2>3
<1> QED
  BY <1>1, <1>2, <1>3, <1>4, <1>5, <1>6, <1>7 DEF Call
-----------------------------------------------------------------------------
(* What happens to the process and to the machine                          *)

\* Names and contents stay as they are, and no call is in the middle of a
\* reflink afterwards.
LEMMA WorldStays ==
  ASSUME TypeInv, IInv, UNCHANGED <<fsVars, runVars>>,
         \A j \in Job : pc'[j] \notin Reflinking
  PROVE  Distinct' /\ NamesInv' /\ AloneInv' /\ WorldInv'
<1> USE DEF fsVars, runVars
<1>1. \A j \in Job : UNCHANGED <<Src(j), Dst(j), Tmp(j), Want(j), Family(j)>>
  BY DEF Src, Dst, Tmp, Want, Family
<1>2. Distinct'
  BY DEF IInv, Distinct
<1>3. NamesInv'
  <2>1. \A p, q \in Path : Related(p, q)' <=> Related(p, q)
    BY DEF Related, Family, Src, Dst, Tmp
  <2> QED
    BY <2>1 DEF IInv, NamesInv
<1>4. AloneInv'
  <2>1. \A p : Alone(p)' <=> Alone(p)
    BY DEF Alone
  <2> QED
    BY <1>1, <2>1 DEF IInv, AloneInv
<1>5. ASSUME NEW j \in Job PROVE SourceOk(j)' /\ SoundOk(j)' /\ KeptOk(j)'
  <2>1. \A d \in disk : \A c : Holds(d, Src(j), c)' <=> Holds(d, Src(j), c)
    BY <1>1 DEF Holds
  <2>2. \A d \in disk : \A c : Holds(d, Dst(j), c)' <=> Holds(d, Dst(j), c)
    BY <1>1 DEF Holds
  <2>3. \A d \in disk : Sound(d, DstOf[j])' <=> Sound(d, DstOf[j])
    BY DEF Sound
  <2>4. SourceOk(j) /\ SoundOk(j) /\ KeptOk(j)
    BY DEF IInv, WorldInv
  <2>5. SourceOk(j)'
    BY <1>1, <2>1, <2>4 DEF SourceOk
  <2>6. SoundOk(j)'
    BY <1>1, <2>3, <2>4 DEF SoundOk
  <2>7. KeptOk(j)'
    BY <1>1, <2>2, <2>4 DEF KeptOk, Complete, Pair
  <2> QED
    BY <2>5, <2>6, <2>7
<1> QED
  BY <1>2, <1>3, <1>4, <1>5 DEF WorldInv

LEMMA Stopped ==
  ASSUME Stop
  PROVE  /\ pc' \in [Job -> PC] /\ fd' \in [Job -> Inode \cup {NoFile}]
         /\ pos' \in [Job -> Nat \ {0}]
         /\ sum' \in [Job -> [src : Seq(Block), dst : Seq(Block)]]
         /\ \A j \in Job : pc'[j] = "down" /\ fd'[j] = NoFile /\ sum'[j].src = sum'[j].dst
BY AllPlaces DEF Stop, NoSum

LEMMA KillOk ==
  ASSUME TypeInv, IInv, Kill
  PROVE  TypeInv' /\ IInv'
<1>1. Stop /\ UNCHANGED <<fsVars, result, runVars, faulted>>
  BY DEF Kill
<1>2. TypeInv'
  BY <1>1, Stopped DEF TypeInv, TypeOK, fsVars, runVars
<1>3. Distinct' /\ NamesInv' /\ AloneInv' /\ WorldInv'
  BY <1>1, Stopped, WorldStays DEF Reflinking
<1>4. ASSUME NEW j \in Job PROVE CallOk(j)'
  <2>k. /\ UNCHANGED <<Src(j), Dst(j), Tmp(j), Want(j), dir, data, synced, config>>
        /\ \A p \in {Src(j), Dst(j), Tmp(j)} : Holds(dir, p, Want(j))' <=> Holds(dir, p, Want(j))
        /\ Everywhere(j)' <=> Everywhere(j)
        /\ Complete' <=> Complete
        /\ seen' = seen
    BY <1>1, Kept
  <2>1. CallOk(j) /\ pc'[j] = "down" /\ fd'[j] = NoFile /\ sum'[j].src = sum'[j].dst
    BY <1>1, AllCallsOk, Stopped
  <2>2. PlaceOk(j)'
    BY <1>1, <2>1, <2>k DEF CallOk, PlaceOk, Reflinking, Ended
  <2>3. CopyOk(j)'
    BY <2>1 DEF CopyOk
  <2>4. DoneOk(j)'
    BY <1>1, <2>1, <2>k DEF CallOk, DoneOk
  <2> QED
    BY <2>2, <2>3, <2>4 DEF CallOk
<1> QED
  BY <1>2, <1>3, <1>4 DEF IInv, CallInv, CallOk

LEMMA TornType ==
  ASSUME TypeInv, NEW i \in Inode
  PROVE  Torn(i) \subseteq Seq(Block)
<1> DEFINE n == Len(data[i])
<1>1. data[i] \in Seq(Block) /\ n \in Nat /\ synced[i] \in Nat
  BY DataTypes
<1>2. \A k \in synced[i] .. n : SubSeq(data[i], 1, k) \in Seq(Block)
  BY <1>1
<1>3. ASSUME NEW k \in synced[i] .. n
      PROVE  [b \in 1 .. n |-> IF b <= k THEN data[i][b] ELSE Zero] \in Seq(Block)
  <2>1. \A b \in 1 .. n : data[i][b] \in Block
    BY <1>1, ElementOfSeq
  <2>2. Zero \in Block
    BY DEF Block
  <2>3. [b \in 1 .. n |-> IF b <= k THEN data[i][b] ELSE Zero] \in [1 .. n -> Block]
    BY <2>1, <2>2
  <2> QED
    BY <1>1, <2>3, SeqDef
<1> QED
  BY <1>2, <1>3 DEF Torn

LEMMA PowerLossOk ==
  ASSUME TypeInv, IInv, PowerLoss
  PROVE  TypeInv' /\ IInv'
<1> USE PathFacts
<1>1. PICK d \in disk :
        LET named == {d[p] : p \in Path}
            risky == {i \in Inode \cap named : synced[i] < Len(data[i])}
        IN /\ dir' = d /\ disk' = {d}
           /\ \E torn \in [risky -> UNION {Torn(i) : i \in risky}] :
                /\ \A i \in risky : torn[i] \in Torn(i)
                /\ data' = [i \in Inode |-> IF i \in risky THEN torn[i]
                                            ELSE IF i \in named THEN data[i] ELSE <<>>]
           /\ synced' = [i \in Inode |-> Len(data'[i])]
  BY DEF PowerLoss
<1>2. /\ Stop /\ result' = [j \in Job |-> "none"] /\ UNCHANGED <<runVars, faulted>>
  BY DEF PowerLoss
<1> DEFINE named == {d[p] : p \in Path}
           risky == {i \in Inode \cap named : synced[i] < Len(data[i])}
<1>3. PICK torn \in [risky -> UNION {Torn(i) : i \in risky}] :
        /\ \A i \in risky : torn[i] \in Torn(i)
        /\ data' = [i \in Inode |-> IF i \in risky THEN torn[i]
                                    ELSE IF i \in named THEN data[i] ELSE <<>>]
  BY <1>1
<1>4. data' \in [Inode -> Seq(Block)]
  <2>1. \A i \in risky : torn[i] \in Seq(Block)
    BY <1>3, TornType
  <2>2. \A i \in Inode : data[i] \in Seq(Block)
    BY DataTypes
  <2>3. <<>> \in Seq(Block)
    OBVIOUS
  <2> HIDE DEF risky, named
  <2> QED
    BY <1>3, <2>1, <2>2, <2>3
<1>5. /\ synced' \in [Inode -> Nat]
      /\ \A i \in Inode : synced'[i] = Len(data'[i]) /\ synced'[i] \in 0 .. Len(data'[i])
  <2>1. \A i \in Inode : Len(data'[i]) \in Nat
    BY <1>4
  <2> QED
    BY <1>1, <2>1
<1>6. \A i \in Inode : i \in named /\ synced[i] = Len(data[i]) => data'[i] = data[i]
  BY <1>3, DataTypes
<1>7. /\ d \in [Path -> Inode \cup {NoFile}] /\ dir' = d /\ disk' = {d}
      /\ \A p \in Path : d[p] \in named
  BY <1>1 DEF TypeInv, TypeOK
<1> HIDE DEF named, risky
<1>8. TypeInv'
  BY <1>2, <1>4, <1>5, <1>7, Stopped DEF TypeInv, TypeOK, runVars
<1>9. \A p \in Path : \A c : Holds(d, p, c) =>
        d[p] # NoFile /\ data'[d[p]] = c /\ synced'[d[p]] = Len(data'[d[p]])
  BY <1>5, <1>6, <1>7, DirTypes DEF Holds
<1>k. \A k \in Job : UNCHANGED <<Src(k), Dst(k), Tmp(k), Want(k), config, seen>>
  BY <1>2 DEF Src, Dst, Tmp, Want, runVars
<1>10. Distinct'
  BY DEF IInv, Distinct
<1>11. NamesInv'
  <2>1. \A q, r \in Path : Related(q, r)' <=> Related(q, r)
    BY <1>2 DEF Related, Family, Src, Dst, Tmp, runVars
  <2>2. Mixed(d, d) = d
    BY <1>7 DEF Mixed
  <2>3. \A p, q \in Path : d[p] = d[q] /\ d[p] # NoFile => Related(p, q)' /\ p = q
    BY <2>1 DEF IInv, NamesInv
  <2>4. \A x, y \in disk', p, q \in Path : x[p] = y[q] /\ x[p] # NoFile =>
          Related(p, q)' /\ (x = y => p = q)
    BY <1>7, <2>3
  <2>5. \A x, y \in disk' : Mixed(x, y) \in disk'
    BY <1>7, <2>2
  <2> QED
    BY <2>4, <2>5 DEF NamesInv, Mixed
<1>12. AloneInv'
  <2>1. \A p \in Path : Alone(p)'
    BY <1>7 DEF Alone, IInv, NamesInv
  <2>2. \A j \in Job : Alone(Src(j))' /\ Alone(Tmp(j))' /\ Alone(Dst(j))'
    BY <2>1, <1>k DEF Alone
  <2> QED
    BY <2>2 DEF AloneInv
<1>13. ASSUME NEW j \in Job PROVE SourceOk(j)' /\ SoundOk(j)' /\ KeptOk(j)'
  <2>w. SourceOk(j) /\ SoundOk(j) /\ KeptOk(j)
    BY DEF IInv, WorldInv
  <2>1. SourceOk(j)'
    <3>1. d[Src(j)] # NoFile => Holds(d, Src(j), Want(j))'
      BY <1>9, <1>k, <2>w DEF SourceOk, Holds
    <3> QED
      BY <1>7, <1>k, <3>1 DEF SourceOk
  <2>2. SoundOk(j)'
    <3>1. ASSUME ~config.reflink \/ Absent \notin seen[DstOf[j]]
          PROVE  Sound(d, DstOf[j])'
      <4>1. Sound(d, DstOf[j])
        BY <2>w, <3>1 DEF SoundOk
      <4>2. Dst(j) = <<"dst", DstOf[j]>>
        BY DEF Dst
      <4>3. d[Dst(j)] # NoFile => Holds(d, Dst(j), data[d[Dst(j)]])
        BY <4>1, <4>2 DEF Sound, Holds
      <4> QED
        BY <1>9, <1>k, <4>1, <4>2, <4>3 DEF Sound
    <3> QED
      BY <1>7, <1>k, <2>w, <3>1 DEF SoundOk
  <2>3. KeptOk(j)'
    <3>1. ASSUME config.dirSync, Complete
          PROVE  d[Src(j)] # NoFile \/ Holds(d, Dst(j), Want(j))'
      <4>1. d[Src(j)] # NoFile \/ Holds(d, Dst(j), Want(j))
        BY <2>w, <3>1 DEF KeptOk, Pair
      <4> QED
        BY <1>9, <1>k, <4>1 DEF Holds
    <3> QED
      BY <1>7, <1>k, <3>1 DEF KeptOk, Complete, Pair
  <2> QED
    BY <2>1, <2>2, <2>3
<1>14. ASSUME NEW j \in Job PROVE PlaceOk(j)' /\ CopyOk(j)' /\ DoneOk(j)'
  <2>1. /\ pc'[j] = "down" /\ fd'[j] = NoFile /\ sum'[j].src = sum'[j].dst
        /\ result'[j] = "none"
    BY <1>2, Stopped
  <2> QED
    BY <2>1 DEF PlaceOk, CopyOk, DoneOk, Reflinking, Ended
<1> QED
  BY <1>8, <1>10, <1>11, <1>12, <1>13, <1>14 DEF IInv, WorldInv, CallInv

\* The sources that are left, their files, and which source a file is.
Left == {j \in Job : Exists(Src(j))}
LeftSrc == {SrcOf[j] : j \in Left}
LeftFiles == {dir[<<"src", x>>] : x \in LeftSrc}
SourceOf(i) == CHOOSE x \in LeftSrc : dir[<<"src", x>>] = i

\* What is left is replaced by c, and no other file changes.
Edits(c) ==
  /\ data' = [i \in Inode |-> IF i \in LeftFiles THEN c[SourceOf(i)] ELSE data[i]]
  /\ synced' = [i \in Inode |-> IF i \in LeftFiles THEN Len(c[SourceOf(i)]) ELSE synced[i]]

LEMMA EditedFiles ==
  ASSUME TypeInv, IInv, NEW c \in [LeftSrc -> Contents], Edits(c)
  PROVE  /\ \A j \in Left : SrcOf[j] \in LeftSrc /\ c[SrcOf[j]] \in Contents
         /\ \A j \in Job : j \notin Left => SrcOf[j] \notin LeftSrc
         /\ \A i \in LeftFiles : SourceOf(i) \in LeftSrc
         /\ \A j \in Left : /\ data'[dir[Src(j)]] = c[SrcOf[j]]
                            /\ synced'[dir[Src(j)]] = Len(c[SrcOf[j]])
         /\ \A d \in disk, p \in Path :
              d[p] # NoFile /\ (\A j \in Left : p # Src(j)) =>
                data'[d[p]] = data[d[p]] /\ synced'[d[p]] = synced[d[p]]
<1> USE PathFacts
<1>1. ASSUME NEW j \in Left
      PROVE  SrcOf[j] \in LeftSrc /\ dir[Src(j)] \in LeftFiles /\ c[SrcOf[j]] \in Contents
  <2>1. SrcOf[j] \in LeftSrc
    BY DEF LeftSrc
  <2> QED
    BY <2>1 DEF Src, LeftFiles
<1>2. \A x \in LeftSrc : \E j \in Left : x = SrcOf[j] /\ <<"src", x>> = Src(j)
  BY DEF Src, LeftSrc
<1>3. \A i \in LeftFiles : \E j \in Left : i = dir[Src(j)]
  <2> SUFFICES ASSUME NEW i \in LeftFiles PROVE \E j \in Left : i = dir[Src(j)]
    OBVIOUS
  <2>1. PICK x \in LeftSrc : i = dir[<<"src", x>>]
    BY DEF LeftFiles
  <2>2. PICK j \in Left : <<"src", x>> = Src(j)
    BY <1>2
  <2> QED
    BY <2>1, <2>2
<1>4. ASSUME NEW j \in Left PROVE dir[Src(j)] \in Inode /\ SourceOf(dir[Src(j)]) = SrcOf[j]
  <2>1. dir[Src(j)] # NoFile /\ dir[Src(j)] \in Inode
    BY DirTypes DEF Exists, Left
  <2>2. \A x \in LeftSrc : dir[<<"src", x>>] = dir[Src(j)] => x = SrcOf[j]
    <3>1. \A k \in Left : dir[Src(k)] = dir[Src(j)] => SrcOf[k] = SrcOf[j]
      <4>1. \A k \in Left : dir[Src(k)] = dir[Src(j)] => Src(k) = Src(j)
        BY <2>1, DirTypes DEF IInv, NamesInv, Left
      <4> QED
        BY <4>1 DEF Src
    <3> QED
      BY ONLY <1>2, <3>1
  <2>3. SrcOf[j] \in LeftSrc /\ dir[<<"src", SrcOf[j]>>] = dir[Src(j)]
    BY <1>1 DEF Src
  <2> QED
    BY <2>1, <2>2, <2>3 DEF SourceOf
<1>5. \A i \in LeftFiles : SourceOf(i) \in LeftSrc
  BY <1>1, <1>3, <1>4
<1>6. \A j \in Left : /\ data'[dir[Src(j)]] = c[SrcOf[j]]
                      /\ synced'[dir[Src(j)]] = Len(c[SrcOf[j]])
  BY <1>1, <1>4 DEF Edits
<1>7. ASSUME NEW j \in Job, j \notin Left PROVE SrcOf[j] \notin LeftSrc
  <2>1. \A k \in Left : SrcOf[k] # SrcOf[j]
    BY <1>7 DEF Left, Exists, Src
  <2> QED
    BY <1>2, <2>1
<1>8. ASSUME NEW d \in disk, NEW p \in Path, d[p] # NoFile, \A j \in Left : p # Src(j)
      PROVE  data'[d[p]] = data[d[p]] /\ synced'[d[p]] = synced[d[p]]
  <2>1. d[p] \notin LeftFiles
    <3> SUFFICES ASSUME d[p] \in LeftFiles PROVE FALSE
      OBVIOUS
    <3>1. PICK j \in Left : d[p] = dir[Src(j)]
      BY <1>3
    <3>2. Alone(Src(j)) /\ dir[Src(j)] # NoFile
      BY DEF IInv, AloneInv, Exists, Left
    <3> QED
      BY <1>8, <3>1, <3>2 DEF Alone
  <2> QED
    BY <1>8, <2>1, DirTypes DEF Edits
<1> QED
  BY <1>1, <1>5, <1>6, <1>7, <1>8

LEMMA LaunchOk ==
  ASSUME TypeInv, IInv, Launch
  PROVE  TypeInv' /\ IInv'
<1> USE PathFacts
<1>1. PICK c \in [LeftSrc -> Contents] :
        /\ Edits(c)
        /\ want' = [x \in Source |-> IF x \in LeftSrc THEN c[x] ELSE want[x]]
        /\ seen' = [n \in Dest |-> seen[n] \cup
                      {c[SrcOf[j]] : j \in {k \in Left : DstOf[k] = n}}]
        /\ pc' = [j \in Job |-> IF j \in Left THEN "start" ELSE "over"]
        /\ result' = [j \in Job |-> "none"]
  BY DEF Launch, Edits, Left, LeftSrc, LeftFiles, SourceOf
<1>2. /\ \A j \in Job : pc[j] \in Ended
      /\ runs < MaxRuns /\ runs' = runs + 1 /\ faulted' = FALSE
      /\ UNCHANGED <<dir, disk, fd, pos, sum, config>>
  BY DEF Launch, Ended
<1>3. \A j \in Left : SrcOf[j] \in LeftSrc /\ c[SrcOf[j]] \in Contents
  BY <1>1, EditedFiles
<1>4. \A j \in Left : /\ data'[dir[Src(j)]] = c[SrcOf[j]]
                      /\ synced'[dir[Src(j)]] = Len(c[SrcOf[j]])
  BY <1>1, EditedFiles
<1>5. \A j \in Left : SrcOf[j] \in LeftSrc /\ want'[SrcOf[j]] = c[SrcOf[j]]
  BY <1>1, <1>3 DEF Left
<1>6. \A j \in Job : j \notin Left => dir[Src(j)] = NoFile /\ want'[SrcOf[j]] = want[SrcOf[j]]
  BY <1>1, EditedFiles DEF Exists, Left
<1>7. TypeInv'
  <2>1. \A x \in Contents : x \in Seq(Block) /\ Len(x) \in Nat
    BY TransferAssumption DEF TransferAssumption
  <2>3. \A i \in LeftFiles : c[SourceOf(i)] \in Contents
    BY <1>1, EditedFiles
  <2>4. \A i \in Inode : /\ data[i] \in Seq(Block) /\ synced[i] \in Nat
                         /\ Len(data[i]) \in Nat /\ synced[i] <= Len(data[i])
    BY DataTypes
  <2>5. want' \in [Source -> Contents]
    BY <1>1 DEF TypeInv
  <2>6. seen' \in [Dest -> SUBSET Old]
    <3>1. \A n \in Dest : seen'[n] \subseteq Old
      <4> SUFFICES ASSUME NEW n \in Dest PROVE seen'[n] \subseteq Old
        OBVIOUS
      <4>1. seen[n] \subseteq Old
        BY DEF TypeInv
      <4>2. \A j \in Left : c[SrcOf[j]] \in Old
        BY <1>3 DEF Old
      <4> QED
        BY <1>1, <4>1, <4>2
    <3>2. seen' = [n \in Dest |-> seen'[n]]
      BY <1>1
    <3> QED
      BY <3>1, <3>2
  <2>7. pc' \in [Job -> PC]
    BY <1>1, AllPlaces
  <2>8. runs' \in 1 .. MaxRuns
    BY <1>2, TransferAssumption DEF TransferAssumption, TypeInv, TypeOK
  <2>9. data' \in [Inode -> Seq(Block)] /\ synced' \in [Inode -> Nat]
    BY <1>1, <2>1, <2>3, <2>4 DEF Edits
  <2>10. \A i \in Inode : synced'[i] \in 0 .. Len(data'[i])
    <3> SUFFICES ASSUME NEW i \in Inode PROVE synced'[i] <= Len(data'[i])
      BY <2>9
    <3>1. CASE i \in LeftFiles
      <4>1. data'[i] = c[SourceOf(i)] /\ synced'[i] = Len(c[SourceOf(i)])
        BY <1>1, <3>1 DEF Edits
      <4> QED
        BY <2>1, <2>3, <3>1, <4>1
    <3>2. CASE i \notin LeftFiles
      <4>1. data'[i] = data[i] /\ synced'[i] = synced[i]
        BY <1>1, <3>2 DEF Edits
      <4> QED
        BY <2>4, <4>1
    <3> QED
      BY <3>1, <3>2
  <2> QED
    BY <1>1, <1>2, <2>5, <2>6, <2>7, <2>8, <2>9, <2>10 DEF TypeInv, TypeOK
<1>k. \A k \in Job : UNCHANGED <<Src(k), Dst(k), Tmp(k), config>>
  BY <1>2 DEF Src, Dst, Tmp
<1>8. Distinct'
  BY DEF IInv, Distinct
<1>9. NamesInv'
  <2>1. \A q, r \in Path : Related(q, r)' <=> Related(q, r)
    BY <1>2 DEF Related, Family, Src, Dst, Tmp
  <2> QED
    BY <1>2, <2>1 DEF IInv, NamesInv, Mixed
<1>10. AloneInv'
  <2>1. \A p : Alone(p)' <=> Alone(p)
    BY <1>2 DEF Alone
  <2>2. \A j \in Job : pc'[j] \notin Reflinking
    BY <1>1 DEF Reflinking
  <2> QED
    BY <1>k, <2>1, <2>2 DEF IInv, AloneInv
<1>11. \A d \in disk, p \in Path : d[p] # NoFile /\ (\A j \in Left : p # Src(j)) =>
         data'[d[p]] = data[d[p]] /\ synced'[d[p]] = synced[d[p]]
  BY <1>1, EditedFiles
<1>12. ASSUME NEW j \in Job PROVE SourceOk(j)' /\ SoundOk(j)' /\ KeptOk(j)'
  <2>w. SourceOk(j) /\ SoundOk(j) /\ KeptOk(j)
    BY DEF IInv, WorldInv
  <2>1. SoundOk(j)'
    <3>1. seen[DstOf[j]] \subseteq seen'[DstOf[j]]
      BY <1>1
    <3>2. want'[SrcOf[j]] \in seen'[DstOf[j]]
      <4>1. CASE j \in Left
        BY <1>1, <1>5, <4>1
      <4>2. CASE j \notin Left
        BY <1>6, <2>w, <3>1, <4>2 DEF SoundOk, Want
      <4> QED
        BY <4>1, <4>2
    <3>3. ASSUME ~config.reflink \/ Absent \notin seen'[DstOf[j]], NEW d \in disk
          PROVE  Sound(d, DstOf[j])'
      <4>1. Sound(d, DstOf[j])
        BY <2>w, <3>1, <3>3 DEF SoundOk
      <4>2. d[Dst(j)] # NoFile =>
              data'[d[Dst(j)]] = data[d[Dst(j)]] /\ synced'[d[Dst(j)]] = synced[d[Dst(j)]]
        BY <1>11 DEF Left
      <4> QED
        BY <3>1, <4>1, <4>2 DEF Sound, Dst
    <3> QED
      BY <1>2, <3>2, <3>3 DEF SoundOk, Want
  <2>2. CASE j \in Left
    <3>1. /\ dir[Src(j)] # NoFile /\ \A d \in disk : d[Src(j)] = dir[Src(j)]
      BY <2>w, <2>2 DEF SourceOk, Exists, Left
    <3>2. \A d \in disk : Holds(d, Src(j), Want(j))'
      BY <1>4, <1>5, <1>k, <2>2, <3>1 DEF Holds, Want
    <3>3. SourceOk(j)'
      BY <1>2, <1>k, <3>1, <3>2 DEF SourceOk
    <3>4. KeptOk(j)'
      BY <1>2, <1>k, <3>1 DEF KeptOk
    <3> QED
      BY <2>1, <3>3, <3>4
  <2>3. CASE j \notin Left
    <3>1. dir[Src(j)] = NoFile /\ Want(j)' = Want(j)
      BY <1>6, <2>3 DEF Want
    <3>2. \A k \in Left : Src(k) # Src(j) /\ Src(k) # Dst(j)
      BY <2>3 DEF Exists, Left
    <3>3. \A d \in disk : Holds(d, Src(j), Want(j)) => Holds(d, Src(j), Want(j))'
      BY <1>11, <1>k, <3>1, <3>2 DEF Holds
    <3>4. \A d \in disk : Holds(d, Dst(j), Want(j)) => Holds(d, Dst(j), Want(j))'
      BY <1>11, <1>k, <3>1, <3>2 DEF Holds
    <3>5. SourceOk(j)'
      BY <1>2, <1>k, <2>w, <3>1, <3>3 DEF SourceOk
    <3>6. KeptOk(j)'
      BY <1>2, <1>k, <2>w, <3>1, <3>4 DEF KeptOk, Complete, Pair
    <3> QED
      BY <2>1, <3>5, <3>6
  <2> QED
    BY <2>2, <2>3
<1>13. ASSUME NEW j \in Job PROVE PlaceOk(j)' /\ CopyOk(j)' /\ DoneOk(j)'
  <2>1. /\ fd[j] = NoFile /\ sum[j].src = sum[j].dst
    BY <1>2, AllCallsOk DEF CallOk, PlaceOk, Ended, Reflinking
  <2>2. /\ pc'[j] \in {"start", "over"} /\ result'[j] = "none"
        /\ pc'[j] = "start" => dir[Src(j)] # NoFile
    BY <1>1 DEF Exists, Left
  <2> QED
    BY <1>2, <1>k, <2>1, <2>2 DEF PlaceOk, CopyOk, DoneOk, Reflinking, Ended
<1> QED
  BY <1>7, <1>8, <1>9, <1>10, <1>12, <1>13 DEF IInv, WorldInv, CallInv

LEMMA StutterOk ==
  ASSUME TypeInv, IInv, UNCHANGED vars
  PROVE  TypeInv' /\ IInv'
<1> USE DEF vars, fsVars, callVars, runVars
<1>1. TypeInv'
  BY DEF TypeInv, TypeOK, Old
<1>2. AloneInv' /\ NamesInv' /\ Distinct' /\ WorldInv'
  <2>1. \A p, q \in Path : Related(p, q)' <=> Related(p, q)
    BY DEF Related, Family, Src, Dst, Tmp
  <2>2. \A p : Alone(p)' <=> Alone(p)
    BY DEF Alone
  <2>3. \A j \in Job : UNCHANGED <<Src(j), Dst(j), Tmp(j), Want(j)>>
    BY DEF Src, Dst, Tmp, Want
  <2>4. NamesInv' /\ AloneInv' /\ Distinct'
    BY <2>1, <2>2, <2>3 DEF IInv, NamesInv, AloneInv, Distinct
  <2>5. ASSUME NEW j \in Job PROVE SourceOk(j)' /\ SoundOk(j)' /\ KeptOk(j)'
    <3>1. SourceOk(j) /\ SoundOk(j) /\ KeptOk(j)
      BY DEF IInv, WorldInv
    <3> QED
      BY <2>3, <3>1 DEF SourceOk, SoundOk, KeptOk, Holds, Sound, Complete, Pair
  <2> QED
    BY <2>4, <2>5 DEF WorldInv
<1>3. ASSUME NEW j \in Job PROVE PlaceOk(j)' /\ CopyOk(j)' /\ DoneOk(j)'
  <2>1. CallOk(j)
    BY AllCallsOk
  <2>2. UNCHANGED <<Src(j), Dst(j), Tmp(j), Want(j)>>
    BY DEF Src, Dst, Tmp, Want
  <2>3. PlaceOk(j)'
    BY <2>1, <2>2 DEF CallOk, PlaceOk
  <2>4. CopyOk(j)'
    BY <2>1, <2>2 DEF CallOk, CopyOk, Holds, Complete, KeptPrefix, Size, Bytes
  <2>5. DoneOk(j)'
    BY <2>1, <2>2 DEF CallOk, DoneOk, Holds, Complete, Everywhere
  <2> QED
    BY <2>3, <2>4, <2>5
<1> QED
  BY <1>1, <1>2, <1>3 DEF IInv, CallInv

LEMMA Step ==
  TypeInv /\ IInv /\ [Next]_vars => TypeInv' /\ IInv'
<1> SUFFICES ASSUME TypeInv, IInv, [Next]_vars
             PROVE  TypeInv' /\ IInv'
  OBVIOUS
<1>1. CASE \E j \in Job : Call(j) \/ IoError(j) \/ SoftError(j)
  BY <1>1, CallStep
<1>2. CASE Kill
  BY <1>2, KillOk
<1>3. CASE PowerLoss
  BY <1>3, PowerLossOk
<1>4. CASE Launch
  BY <1>4, LaunchOk
<1>5. CASE Idle \/ UNCHANGED vars
  BY <1>5, StutterOk DEF Idle
<1> QED
  BY <1>1, <1>2, <1>3, <1>4, <1>5 DEF Next
-----------------------------------------------------------------------------
(* The initial states                                                      *)

\* Each source has the file of a content, and each destination that there is.
StartsWith(c, o) ==
  /\ \A j \in Job : dir[Src(j)] # NoFile /\ data[dir[Src(j)]] = c[SrcOf[j]]
  /\ \A n \in Dest : LET p == <<"dst", n>> IN
       IF o[n] = Absent THEN dir[p] = NoFile ELSE dir[p] # NoFile /\ data[dir[p]] = o[n]

\* What each destination may rightly have to begin with.
FirstSeen(c, o) ==
  [d \in Dest |-> {o[d]} \cup {c[SrcOf[j]] : j \in {k \in Job : DstOf[k] = d}}]

LEMMA StartFiles ==
  ASSUME Init
  PROVE  /\ dir \in [Path -> Inode \cup {NoFile}] /\ data \in [Inode -> Seq(Block)]
         /\ \A p, q \in Path : dir[p] = dir[q] /\ dir[p] # NoFile => p = q
         /\ \E c \in [Source -> Contents], o \in [Dest -> OldContents \cup {Absent}] :
              /\ want = c /\ StartsWith(c, o)
              /\ seen = FirstSeen(c, o)
<1>1. PICK c \in [Source -> Contents], o \in [Dest -> OldContents \cup {Absent}] :
        LET start == {Src(j) : j \in Job} \cup {<<"dst", n>> : n \in {d \in Dest : o[d] # Absent}}
            file == CHOOSE f \in [start -> Inode] : \A p, q \in start : f[p] = f[q] => p = q
            content(p) == IF p[1] = "src" THEN c[p[2]] ELSE o[p[2]]
        IN
        /\ dir = [p \in Path |-> IF p \in start THEN file[p] ELSE NoFile]
        /\ data = [i \in Inode |-> IF \E p \in start : file[p] = i
                                     THEN content(CHOOSE p \in start : file[p] = i) ELSE <<>>]
        /\ want = c
        /\ seen = [d \in Dest |-> {o[d]} \cup {c[SrcOf[j]] : j \in {k \in Job : DstOf[k] = d}}]
  BY DEF Init
<1> DEFINE start == {Src(j) : j \in Job} \cup {<<"dst", n>> : n \in {d \in Dest : o[d] # Absent}}
           Files(f) == f \in [start -> Inode] /\ \A p, q \in start : f[p] = f[q] => p = q
           file == CHOOSE f \in [start -> Inode] : \A p, q \in start : f[p] = f[q] => p = q
           content(p) == IF p[1] = "src" THEN c[p[2]] ELSE o[p[2]]
<1> USE PathFacts
<1>2. start \subseteq Path
  BY DEF Path
<1>3. Files(file)
  <2>1. PICK f \in [Path -> Inode] : \A p, q \in Path : f[p] = f[q] => p = q
    BY TransferAssumption DEF TransferAssumption
  <2>2. [p \in start |-> f[p]] \in [start -> Inode]
    BY <1>2
  <2>3. \A p, q \in start : [r \in start |-> f[r]][p] = [r \in start |-> f[r]][q] => p = q
    BY <1>2, <2>1
  <2>4. \E g \in [start -> Inode] : \A p, q \in start : g[p] = g[q] => p = q
    BY <2>2, <2>3
  <2> HIDE DEF start
  <2> QED
    BY ONLY <2>4
<1>4. /\ \A j \in Job : Src(j) \in start /\ content(Src(j)) = c[SrcOf[j]]
      /\ \A n \in Dest : /\ <<"dst", n>> \in start <=> o[n] # Absent
                         /\ content(<<"dst", n>>) = o[n]
  BY DEF Src
<1>5. \A p \in start : content(p) \in Contents \cup OldContents
  <2>1. \A j \in Job : c[SrcOf[j]] \in Contents
    OBVIOUS
  <2>2. \A n \in Dest : o[n] # Absent => o[n] \in OldContents
    OBVIOUS
  <2>3. ASSUME NEW p \in start PROVE content(p) \in Contents \cup OldContents
    <3>1. (\E j \in Job : p = Src(j)) \/ (\E n \in Dest : p = <<"dst", n>> /\ o[n] # Absent)
      OBVIOUS
    <3> HIDE DEF start, content
    <3> QED
      BY <1>4, <2>1, <2>2, <3>1
  <2> QED
    BY <2>3
<1>6. /\ dir = [p \in Path |-> IF p \in start THEN file[p] ELSE NoFile]
      /\ data = [i \in Inode |-> IF \E p \in start : file[p] = i
                                   THEN content(CHOOSE p \in start : file[p] = i) ELSE <<>>]
      /\ want = c
      /\ seen = FirstSeen(c, o)
  BY <1>1 DEF FirstSeen
<1> HIDE DEF start, file, content
<1>7. \A p \in start : /\ file[p] \in Inode /\ file[p] # NoFile
                       /\ (CHOOSE q \in start : file[q] = file[p]) = p
  BY <1>3, TransferAssumption DEF TransferAssumption
<1>8. \A p \in start : dir[p] = file[p] /\ dir[p] # NoFile /\ data[dir[p]] = content(p)
  BY <1>2, <1>6, <1>7
<1>9. \A p \in Path : p \notin start => dir[p] = NoFile
  BY <1>6
<1>10. data \in [Inode -> Seq(Block)]
  <2>1. \A p \in start : content(p) \in Seq(Block)
    BY <1>5, TransferAssumption DEF TransferAssumption
  <2>2. \A i \in Inode : (\E p \in start : file[p] = i) =>
          (CHOOSE p \in start : file[p] = i) \in start
    OBVIOUS
  <2>3. <<>> \in Seq(Block)
    OBVIOUS
  <2>4. ASSUME NEW i \in Inode PROVE data[i] \in Seq(Block)
    BY <1>6, <2>1, <2>2, <2>3
  <2>5. data = [i \in Inode |-> data[i]]
    BY <1>6
  <2> QED
    BY <2>4, <2>5
<1>11. dir \in [Path -> Inode \cup {NoFile}]
  BY <1>6, <1>7
<1>12. \A p, q \in Path : dir[p] = dir[q] /\ dir[p] # NoFile => p = q
  BY <1>3, <1>8, <1>9
<1>13. StartsWith(c, o)
  <2>1. \A j \in Job : dir[Src(j)] # NoFile /\ data[dir[Src(j)]] = c[SrcOf[j]]
    BY <1>4, <1>8
  <2>2. ASSUME NEW n \in Dest
        PROVE  IF o[n] = Absent THEN dir[<<"dst", n>>] = NoFile
               ELSE dir[<<"dst", n>>] # NoFile /\ data[dir[<<"dst", n>>]] = o[n]
    <3>1. <<"dst", n>> \in Path
      BY DEF Path
    <3> QED
      BY <1>4, <1>8, <1>9, <3>1
  <2> QED
    BY <2>1, <2>2 DEF StartsWith
<1> QED
  BY <1>6, <1>10, <1>11, <1>12, <1>13

LEMMA Started ==
  ASSUME Distinct, Init
  PROVE  TypeInv /\ IInv
<1>1. PICK c \in [Source -> Contents], o \in [Dest -> OldContents \cup {Absent}] :
        /\ want = c /\ StartsWith(c, o)
        /\ seen = FirstSeen(c, o)
  BY StartFiles
<1>2. /\ synced = [i \in Inode |-> Len(data[i])] /\ disk = {dir}
      /\ pc = [j \in Job |-> "start"]
      /\ fd = [j \in Job |-> NoFile] /\ pos = [j \in Job |-> 1]
      /\ sum = [j \in Job |-> NoSum]
      /\ result = [j \in Job |-> "none"]
      /\ config \in Configs /\ runs = 1 /\ faulted = FALSE
  BY DEF Init
<1> USE PathFacts
<1>3. data \in [Inode -> Seq(Block)]
  BY StartFiles
<1>4. synced \in [Inode -> Nat] /\ \A i \in Inode : synced[i] = Len(data[i])
  <2>1. \A i \in Inode : Len(data[i]) \in Nat
    BY <1>3
  <2> QED
    BY <1>2, <2>1
<1>5. dir \in [Path -> Inode \cup {NoFile}]
  BY StartFiles
<1>6. TypeInv
  <2>1. want \in [Source -> Contents]
    BY <1>1
  <2>2. seen \in [Dest -> SUBSET Old]
    <3>1. \A n \in Dest : seen[n] \subseteq Old
      BY <1>1 DEF Old, FirstSeen
    <3>2. seen = [n \in Dest |-> seen[n]]
      BY <1>1 DEF FirstSeen
    <3> QED
      BY <3>1, <3>2
  <2>3. sum \in [Job -> [src : Seq(Block), dst : Seq(Block)]]
    BY <1>2 DEF NoSum
  <2>4. runs \in 1 .. MaxRuns
    BY <1>2, TransferAssumption DEF TransferAssumption
  <2>5. \A i \in Inode : synced[i] \in 0 .. Len(data[i])
    BY <1>4
  <2>6. pc \in [Job -> PC]
    BY <1>2, AllPlaces
  <2>7. DOMAIN data = Inode /\ DOMAIN synced = Inode
    BY <1>3, <1>4
  <2>8. dir \in disk /\ disk \subseteq [Path -> Inode \cup {NoFile}]
    BY <1>2, <1>5
  <2>9. /\ fd \in [Job -> Inode \cup {NoFile}] /\ pos \in [Job -> Nat \ {0}]
        /\ result \in [Job -> {"none", "ok", "err"}] /\ faulted \in BOOLEAN
    <3>1. fd \in [Job -> Inode \cup {NoFile}] /\ pos \in [Job -> Nat \ {0}]
      BY <1>2
    <3>2. result \in [Job -> {"none", "ok", "err"}]
      BY <1>2
    <3>3. faulted \in BOOLEAN
      BY <1>2
    <3> QED
      BY <3>1, <3>2, <3>3
  <2> QED
    BY <1>2, <1>3, <1>4, <1>5, <2>1, <2>2, <2>3, <2>4, <2>5, <2>6, <2>7, <2>8, <2>9
       DEF TypeInv, TypeOK
<1>7. \A p, q \in Path : dir[p] = dir[q] /\ dir[p] # NoFile => p = q
  BY StartFiles
<1>8. NamesInv
  <2>1. Mixed(dir, dir) = dir
    BY <1>5 DEF Mixed
  <2>2. \A p : Related(p, p)
    BY DEF Related
  <2> QED
    BY <1>2, <1>7, <2>1, <2>2 DEF NamesInv
<1>9. AloneInv
  BY <1>2, <1>7 DEF AloneInv, Alone
<1>10. ASSUME NEW j \in Job PROVE SourceOk(j) /\ SoundOk(j) /\ KeptOk(j)
  <2>1. Holds(dir, Src(j), Want(j))
    <3>1. dir[Src(j)] # NoFile /\ data[dir[Src(j)]] = Want(j)
      BY <1>1 DEF StartsWith, Want
    <3> QED
      BY <1>4, <1>5, <3>1 DEF Holds
  <2>2. SourceOk(j) /\ KeptOk(j)
    BY <1>2, <2>1 DEF SourceOk, KeptOk, Holds
  <2>3. Want(j) \in seen[DstOf[j]] /\ o[DstOf[j]] \in seen[DstOf[j]]
    BY <1>1 DEF Want, FirstSeen
  <2>4. Sound(dir, DstOf[j])
    <3>1. IF o[DstOf[j]] = Absent THEN dir[Dst(j)] = NoFile
          ELSE dir[Dst(j)] # NoFile /\ data[dir[Dst(j)]] = o[DstOf[j]]
      BY <1>1 DEF StartsWith, Dst
    <3> QED
      BY <1>4, <1>5, <2>3, <3>1 DEF Sound, Dst
  <2>5. SoundOk(j)
    BY <1>2, <2>3, <2>4 DEF SoundOk
  <2> QED
    BY <2>2, <2>5
<1>11. ASSUME NEW j \in Job PROVE PlaceOk(j) /\ CopyOk(j) /\ DoneOk(j)
  <2>1. /\ pc[j] = "start" /\ fd[j] = NoFile /\ result[j] = "none"
        /\ sum[j].src = sum[j].dst /\ dir[Src(j)] # NoFile
    <3>1. dir[Src(j)] # NoFile
      BY <1>1 DEF StartsWith
    <3>2. pc[j] = "start" /\ fd[j] = NoFile /\ result[j] = "none"
      BY ONLY <1>2, j \in Job
    <3>3. sum[j].src = sum[j].dst
      BY <1>2 DEF NoSum
    <3> QED
      BY <3>1, <3>2, <3>3
  <2> QED
    BY <2>1 DEF PlaceOk, CopyOk, DoneOk, Reflinking, Ended
<1> QED
  BY <1>6, <1>8, <1>9, <1>10, <1>11 DEF IInv, WorldInv, CallInv
-----------------------------------------------------------------------------
(* The theorems                                                            *)

\* In every reachable state, for calls that have names of their own.
LEMMA Invariance == ASSUME Distinct PROVE Spec => [](TypeInv /\ IInv)
<1>1. Init => TypeInv /\ IInv
  BY Started
<1> QED
  BY <1>1, Step, PTL DEF Spec

\* The variables keep their types: what is synced of a file is part of it, and
\* the names as they are now are among those that a power loss may leave.
THEOREM TypeCorrect == ASSUME Distinct PROVE Spec => []TypeOK
<1>1. TypeInv => TypeOK
  BY DEF TypeInv
<1> QED
  BY <1>1, Invariance, PTL

\* The parts of the inductive invariant hold in every reachable state.
THEOREM InvariantHolds == ASSUME Distinct PROVE Spec => []IInv
<1> QED
  BY Invariance, PTL

\* Whatever a power loss undoes at any step of any number of runs, a
\* destination is what it was or a whole copy: copy_file_with_progress syncs
\* the partial copy before it renames it, and tries a reflink only on a
\* destination that did not exist.
THEOREM DstAtomicHolds == ASSUME Distinct PROVE Spec => []DstAtomic
<1>1. TypeInv /\ IInv => DstAtomic
  <2> SUFFICES ASSUME TypeInv, IInv, NEW d \in disk, NEW n \in Dest,
                      ~config.reflink \/ Absent \notin seen[n]
               PROVE  Whole(d, n)
    BY DEF DstAtomic
  <2>1. Sound(d, n)
    BY PathFacts DEF IInv, WorldInv, SoundOk
  <2> QED
    BY <2>1 DEF Sound, Whole, Stable
<1> QED
  BY <1>1, Invariance, PTL

\* A call that returned Ok has left the content of its source, whatever earlier
\* runs had left as a partial copy; as long as copy_file_range copies all of
\* the file when it copies anything.
THEOREM OkMeansCopiedHolds ==
  ASSUME Distinct, "short" \notin RangeResults
  PROVE  Spec => []OkMeansCopied
<1>1. TypeInv /\ IInv => OkMeansCopied
  <2> SUFFICES ASSUME TypeInv, IInv, NEW j \in Job, result[j] = "ok"
               PROVE  /\ Exists(Dst(j)) /\ Bytes(Dst(j)) = want[SrcOf[j]]
                      /\ config.mode = "move" => ~Exists(Src(j))
    BY DEF OkMeansCopied
  <2>1. DoneOk(j)
    BY DEF IInv, CallInv
  <2> QED
    BY <2>1 DEF DoneOk, Complete, Holds, Want, Exists, Bytes
<1> QED
  BY <1>1, Invariance, PTL

\* A buffered copy that returned Ok survives a power loss where directories
\* can be synced.
THEOREM OkIsDurableHolds == ASSUME Distinct PROVE Spec => []OkIsDurable
<1>1. TypeInv /\ IInv => OkIsDurable
  <2> SUFFICES ASSUME TypeInv, IInv, NEW j \in Job, result[j] = "ok", config.mode = "copy",
                      config.dirSync, ~config.reflink, NEW d \in disk
               PROVE  Stable(d, Dst(j)) = want[SrcOf[j]]
    BY DEF OkIsDurable
  <2>1. Holds(d, Dst(j), Want(j))
    BY DEF IInv, CallInv, DoneOk, Everywhere
  <2> QED
    BY <2>1 DEF Holds, Stable, Want
<1> QED
  BY <1>1, Invariance, PTL

\* A move never loses the content: at each step the source is still there in
\* every state that a power loss may leave, or the destination is whole in it.
THEOREM NoLossHolds ==
  ASSUME Distinct, "short" \notin RangeResults
  PROVE  Spec => []NoLoss
<1>1. TypeInv /\ IInv => NoLoss
  <2> SUFFICES ASSUME TypeInv, IInv, config.dirSync, NEW j \in Job, NEW d \in disk
               PROVE  SurvivesIn(d, j)
    BY DEF NoLoss
  <2>1. SourceOk(j) /\ KeptOk(j)
    BY DEF IInv, WorldInv
  <2>2. Holds(d, Src(j), Want(j)) \/ Holds(d, Dst(j), Want(j))
    BY <2>1 DEF SourceOk, KeptOk, Complete, Pair
  <2> QED
    BY <2>2 DEF Holds, Stable, SurvivesIn, Want
<1> QED
  BY <1>1, Invariance, PTL

\* What earlier runs left behind makes no call fail: create_new() finds nothing,
\* and what is synced, renamed or compared is there and is equal.
THEOREM ErrNeedsFaultHolds == ASSUME Distinct PROVE Spec => []ErrNeedsFault
<1>1. IInv => ErrNeedsFault
  BY DEF IInv, CallInv, PlaceOk, ErrNeedsFault
<1> QED
  BY <1>1, Invariance, PTL

\* A partial copy is thrown away only if the source does not go on where it
\* ends, or if a read failed: buffered_copy() keeps what it can keep.
THEOREM KeepsGoodPrefixHolds == ASSUME Distinct PROVE Spec => KeepsGoodPrefix
<1>1. IInv /\ [Next]_vars =>
        [\A j \in Job : pc[j] = "discard" /\ pc'[j] = "open" /\ ~faulted => ~KeptPrefix(j)]_vars
  BY DEF IInv, CallInv, CopyOk
<1> QED
  BY <1>1, Invariance, PTL DEF Spec, KeepsGoodPrefix
=============================================================================
