------------------------------ MODULE Transfer ------------------------------
(***************************************************************************)
(* copy_file_with_progress and move_file, one call per job, on a file      *)
(* system that the process may leave at any step: an I/O error, a kill, a  *)
(* power loss, and the runs that follow it.                                *)
(*                                                                         *)
(* A file's content is a sequence of blocks.  Names and files are kept     *)
(* apart (dir and data), because a rename moves the name while an open     *)
(* descriptor stays with the file.  What a power loss may undo is explicit: *)
(* disk is the set of directory states it may leave, and the blocks of a   *)
(* file beyond synced may be missing or read as zeros.                     *)
(***************************************************************************)
EXTENDS Integers, Sequences, FiniteSets

CONSTANTS
  Job,          \* the calls of a run, one per planned file
  Source,       \* the source paths
  SrcOf,        \* the source of each job
  Name,         \* the names used in the destination tree
  DstOf,        \* the destination of each job
  TmpOf,        \* tmp_path(): the .fiex.tmp sibling of each destination
  Contents,     \* what a source file may contain
  OldContents,  \* what a destination may contain before the first run
  Zero,         \* a block that was allocated and never written
  Inode,        \* the files the file systems have room for
  Configs,      \* the configurations a run may have
  RangeResults, \* what copy_file_range is observed to do
  MaxRuns       \* bound: launches of the program

NoFile == 0
Absent == <<"absent">>
Dest == {DstOf[j] : j \in Job}
Path == ({"src"} \X Source) \cup ({"dst"} \X Name)
Block == {Zero} \cup UNION {{c[i] : i \in DOMAIN c} : c \in Contents \cup OldContents}

ASSUME TransferAssumption ==
  /\ IsFiniteSet(Job) /\ SrcOf \in [Job -> Source] /\ DstOf \in [Job -> Name]
  /\ TmpOf \in [Dest -> Name] /\ \A d \in Dest : TmpOf[d] # d
  /\ Inode \subseteq Nat \ {NoFile}
  /\ \E f \in [Path -> Inode] : \A p, q \in Path : f[p] = f[q] => p = q
  /\ \A c \in Contents \cup OldContents : c \in Seq(Block)
  /\ Contents # {} /\ \A c \in Contents : c # <<>> /\ \A i \in DOMAIN c : c[i] # Zero
  /\ Absent \notin Contents \cup OldContents
  /\ RangeResults \subseteq {"full", "short", "unsupported", "error"}
  /\ Configs \subseteq [mode : {"copy", "move"}, sameFs : BOOLEAN, dirSync : BOOLEAN,
                        reflink : BOOLEAN, verify : BOOLEAN]
  /\ MaxRuns \in Nat \ {0}
  \* Two calls move the same source in no run that is modelled.
  /\ (\E c \in Configs : c.mode = "move") => \A j, k \in Job : SrcOf[j] = SrcOf[k] => j = k

VARIABLES
  dir,          \* the file each path names now, or NoFile
  data,         \* the content of each file
  synced,       \* how many blocks of each file are safe from a power loss
  disk,         \* the directory states a power loss may leave
  pc,           \* where each call is
  fd,           \* the file each call has open for append
  pos,          \* the next block of the source each call reads
  sum,          \* what each call has fed to its two hashers
  result,       \* what each call returned in this run
  config,       \* mode, file systems (is there one? does it sync directories?), options
  runs,         \* launches so far
  want,         \* history: the content each source had at the last launch
  seen,         \* history: every content a destination may rightly have
  faulted       \* history: an I/O error was met in this run

fsVars   == <<dir, data, synced, disk>>
callVars == <<pc, fd, pos, sum, result>>
runVars  == <<config, runs, want, seen>>
vars == <<fsVars, callVars, runVars, faulted>>

Src(j) == <<"src", SrcOf[j]>>
Dst(j) == <<"dst", DstOf[j]>>
Tmp(j) == <<"dst", TmpOf[DstOf[j]]>>
NoSum == [src |-> <<>>, dst |-> <<>>]

Exists(p) == dir[p] # NoFile
Bytes(p) == data[dir[p]]
Size(p) == Len(Bytes(p))
KeptPrefix(j) == Size(Tmp(j)) <= Size(Src(j))
                 /\ Bytes(Tmp(j)) = SubSeq(Bytes(Src(j)), 1, Size(Tmp(j)))

PC == {"start", "rename", "readback", "reflink", "range", "ficlone", "rsync", "tmp",
       "clear", "create", "stat", "prefix", "discard", "open", "copy", "verify", "fsync",
       "publish", "syncdir", "unlink", "over", "down"}

\* What a name stands for in directory d, once everything synced so far is all
\* there is; a file with blocks still at risk holds something else.
AtRisk == <<"at risk">>
Stable(d, p) ==
  CASE d[p] = NoFile -> Absent
    [] d[p] # NoFile /\ synced[d[p]] = Len(data[d[p]]) -> data[d[p]]
    [] OTHER -> AtRisk

Init ==
  \E c \in [Source -> Contents], o \in [Dest -> OldContents \cup {Absent}] :
    LET start == {Src(j) : j \in Job} \cup {<<"dst", n>> : n \in {d \in Dest : o[d] # Absent}}
        file == CHOOSE f \in [start -> Inode] : \A p, q \in start : f[p] = f[q] => p = q
        content(p) == IF p[1] = "src" THEN c[p[2]] ELSE o[p[2]]
    IN
    /\ dir = [p \in Path |-> IF p \in start THEN file[p] ELSE NoFile]
    /\ data = [i \in Inode |-> IF \E p \in start : file[p] = i
                                 THEN content(CHOOSE p \in start : file[p] = i) ELSE <<>>]
    /\ synced = [i \in Inode |-> Len(data[i])]
    /\ disk = {dir}
    /\ pc = [j \in Job |-> "start"]
    /\ fd = [j \in Job |-> NoFile] /\ pos = [j \in Job |-> 1]
    /\ sum = [j \in Job |-> NoSum]
    /\ result = [j \in Job |-> "none"]
    /\ config \in Configs
    /\ runs = 1
    /\ want = c
    /\ seen = [d \in Dest |-> {o[d]} \cup {c[SrcOf[j]] : j \in {k \in Job : DstOf[k] = d}}]
    /\ faulted = FALSE
-----------------------------------------------------------------------------
(* The file systems: source and destination share one, or have one each.   *)
(* A file system commits its directory operations in their order, so a     *)
(* power loss leaves the state after some prefix of them.                  *)

Mixed(d, e) == [p \in Path |-> IF p[1] = "src" THEN d[p] ELSE e[p]]

\* The names change: the new state is one more that a power loss may leave.
SetDir(newDir) ==
  /\ dir' = newDir
  /\ disk' = IF config.sameFs THEN disk \cup {newDir}
             ELSE {Mixed(d, e) : d, e \in disk \cup {newDir}}

\* fsync of the destination's directory.
SyncedDst == IF config.sameFs THEN {dir} ELSE {Mixed(d, dir) : d \in disk}

\* A file that no name and no descriptor refers to any more is gone.
Gone(i) ==
  /\ \A d \in disk \cup {dir} : \A p \in Path : d[p] # i
  /\ \A j \in Job : fd[j] # i
Fresh == CHOOSE i \in Inode : Gone(i)

\* Where there is no room left, only the error is possible.
CreateEmpty(p) ==
  /\ \E i \in Inode : Gone(i)
  /\ SetDir([dir EXCEPT ![p] = Fresh])
  /\ data' = [data EXCEPT ![Fresh] = <<>>]
  /\ synced' = [synced EXCEPT ![Fresh] = 0]

Remove(p) == SetDir([dir EXCEPT ![p] = NoFile]) /\ UNCHANGED <<data, synced>>
Rename(p, q) ==
  /\ SetDir([dir EXCEPT ![q] = dir[p], ![p] = NoFile])
  /\ UNCHANGED <<data, synced>>
SyncAll(i) == synced' = [synced EXCEPT ![i] = Len(data[i])] /\ UNCHANGED <<dir, data, disk>>
-----------------------------------------------------------------------------
(* One call                                                                *)

At(j, where) == pc[j] = where
Goto(j, where) == pc' = [pc EXCEPT ![j] = where] /\ UNCHANGED result
Finish(j, r) ==
  /\ pc' = [pc EXCEPT ![j] = "over"]
  /\ result' = [result EXCEPT ![j] = r]
Close(j) == fd' = [fd EXCEPT ![j] = NoFile]

\* What follows a copy that went well: move_file still unlinks the source.
Copied(j) == IF config.mode = "move" THEN Goto(j, "unlink") ELSE Finish(j, "ok")

\* The source and the destination are different paths.
Start(j) ==
  /\ At(j, "start")
  /\ Goto(j, IF config.mode = "move" THEN "rename"
             ELSE IF config.reflink THEN "reflink" ELSE "tmp")
  /\ UNCHANGED <<fsVars, fd, pos, sum, runVars, faulted>>

\* move_file: one rename(2) if both ends are on one file system, and
\* otherwise, or if it fails for any other reason, a copy.
MoveRename(j) ==
  /\ At(j, "rename") /\ config.sameFs
  /\ Rename(Src(j), Dst(j))
  /\ IF config.verify THEN Goto(j, "readback") ELSE Finish(j, "ok")
  /\ UNCHANGED <<fd, pos, sum, runVars, faulted>>

MoveByCopy(j) ==
  /\ At(j, "rename")
  /\ Goto(j, IF config.reflink THEN "reflink" ELSE "tmp")
  /\ UNCHANGED <<fsVars, fd, pos, sum, runVars, faulted>>

\* verify_after_move: the destination can be read.
ReadBack(j) ==
  /\ At(j, "readback")
  /\ Finish(j, "ok")
  /\ UNCHANGED <<fsVars, fd, pos, sum, runVars, faulted>>
-----------------------------------------------------------------------------
(* try_reflink_copy                                                        *)

\* Mutant: truncate(true).create(true) instead of create_new.
ReflinkCreateTruncates(j) ==
  /\ At(j, "reflink")
  /\ IF Exists(Dst(j))
       THEN /\ data' = [data EXCEPT ![dir[Dst(j)]] = <<>>]
            /\ synced' = [synced EXCEPT ![dir[Dst(j)]] = 0]
            /\ fd' = [fd EXCEPT ![j] = dir[Dst(j)]]
            /\ UNCHANGED <<dir, disk>>
       ELSE CreateEmpty(Dst(j)) /\ fd' = [fd EXCEPT ![j] = Fresh]
  /\ Goto(j, "range")
  /\ UNCHANGED <<pos, sum, runVars, faulted>>

\* create_new on the destination itself: it must not exist.
ReflinkCreate(j) ==
  /\ At(j, "reflink")
  /\ IF Exists(Dst(j))
       THEN Goto(j, "tmp") /\ UNCHANGED <<fsVars, fd>>
       ELSE /\ CreateEmpty(Dst(j))
            /\ fd' = [fd EXCEPT ![j] = Fresh]
            /\ Goto(j, "range")
  /\ UNCHANGED <<pos, sum, runVars, faulted>>

\* copy_file_range: any positive count is taken for success; an error other
\* than "not supported here" leaves the new, empty destination behind.
CopyRange(j) ==
  /\ At(j, "range")
  /\ \E r \in RangeResults \ (IF config.sameFs THEN {} ELSE {"full", "short"}) :
       /\ CASE r = "full"  -> data' = [data EXCEPT ![fd[j]] = Bytes(Src(j))]
            [] r = "short" -> \E n \in 1 .. (Size(Src(j)) - 1) :
                                data' = [data EXCEPT ![fd[j]] = SubSeq(Bytes(Src(j)), 1, n)]
            [] OTHER       -> UNCHANGED data
       /\ Goto(j, CASE r \in {"full", "short"} -> "rsync"
                    [] r = "unsupported" -> "ficlone"
                    [] r = "error" -> "tmp")
       /\ IF r = "error" THEN Close(j) ELSE UNCHANGED fd
  /\ UNCHANGED <<dir, synced, disk, pos, sum, runVars, faulted>>

Ficlone(j) ==
  /\ At(j, "ficlone")
  /\ \/ /\ config.sameFs
        /\ data' = [data EXCEPT ![fd[j]] = Bytes(Src(j))]
        /\ Goto(j, "rsync")
        /\ UNCHANGED <<dir, synced, disk, fd>>
     \/ Remove(Dst(j)) /\ Goto(j, "tmp") /\ Close(j)
  /\ UNCHANGED <<pos, sum, runVars, faulted>>

\* d.sync_all(), and the reflink is the whole copy.
ReflinkSync(j) ==
  /\ At(j, "rsync")
  /\ SyncAll(fd[j])
  /\ Copied(j) /\ Close(j)
  /\ UNCHANGED <<pos, sum, runVars, faulted>>
-----------------------------------------------------------------------------
(* The buffered copy into the .fiex.tmp sibling                            *)

\* Mutant: a partial copy is not looked for.
CheckTmpNothing(j) ==
  /\ At(j, "tmp")
  /\ Goto(j, "create")
  /\ UNCHANGED <<fsVars, fd, pos, sum, runVars, faulted>>

CheckTmp(j) ==
  /\ At(j, "tmp")
  /\ Goto(j, IF Exists(Tmp(j)) THEN "stat" ELSE "clear")
  /\ UNCHANGED <<fsVars, fd, pos, sum, runVars, faulted>>

\* A name that stood for nothing readable is removed: by now it may stand for
\* the partial copy of another call.
ClearTmp(j) ==
  /\ At(j, "clear")
  /\ Remove(Tmp(j))
  /\ Goto(j, "create")
  /\ UNCHANGED <<fd, pos, sum, runVars, faulted>>

\* create_new fails if somebody has created the file since then.
CreateTmp(j) ==
  /\ At(j, "create")
  /\ IF Exists(Tmp(j))
       THEN Finish(j, "err") /\ UNCHANGED fsVars
       ELSE CreateEmpty(Tmp(j)) /\ Goto(j, "stat")
  /\ UNCHANGED <<fd, pos, sum, runVars, faulted>>

\* Mutant: the source is read from one block too early.
StatTmpTooEarly(j) ==
  /\ At(j, "stat")
  /\ pos' = [pos EXCEPT ![j] = 0]
  /\ sum' = [sum EXCEPT ![j] = NoSum]
  /\ Goto(j, CASE ~Exists(Tmp(j)) \/ Size(Tmp(j)) = 0 -> "open"
               [] Exists(Tmp(j)) /\ Size(Tmp(j)) > Size(Src(j)) -> "discard"
               [] OTHER -> "prefix")
  /\ UNCHANGED <<fsVars, fd, runVars, faulted>>

\* Mutant: a partial copy as long as the source is taken for too long.
StatTmpNotShorter(j) ==
  /\ At(j, "stat")
  /\ pos' = [pos EXCEPT ![j] = 1]
  /\ sum' = [sum EXCEPT ![j] = NoSum]
  /\ Goto(j, CASE ~Exists(Tmp(j)) \/ Size(Tmp(j)) = 0 -> "open"
               [] Exists(Tmp(j)) /\ Size(Tmp(j)) >= Size(Src(j)) -> "discard"
               [] OTHER -> "prefix")
  /\ UNCHANGED <<fsVars, fd, runVars, faulted>>

\* buffered_copy: what is there from an earlier run, and can it be kept?
StatTmp(j) ==
  /\ At(j, "stat")
  /\ pos' = [pos EXCEPT ![j] = 1]
  /\ sum' = [sum EXCEPT ![j] = NoSum]
  /\ Goto(j, CASE ~Exists(Tmp(j)) \/ Size(Tmp(j)) = 0 -> "open"
               [] Exists(Tmp(j)) /\ Size(Tmp(j)) > Size(Src(j)) -> "discard"
               [] OTHER -> "prefix")
  /\ UNCHANGED <<fsVars, fd, runVars, faulted>>

\* Mutant: the prefix is trusted for its length.
VerifyPrefixLength(j) ==
  /\ At(j, "prefix")
  /\ IF Exists(Tmp(j))
       THEN pos' = [pos EXCEPT ![j] = Size(Tmp(j)) + 1] /\ Goto(j, "open")
       ELSE Goto(j, "discard") /\ UNCHANGED pos
  /\ UNCHANGED <<fsVars, fd, sum, runVars, faulted>>

\* verify_prefix; the copy goes on behind a prefix that matches.
VerifyPrefix(j) ==
  /\ At(j, "prefix")
  /\ IF Exists(Tmp(j)) /\ KeptPrefix(j)
       THEN pos' = [pos EXCEPT ![j] = Size(Tmp(j)) + 1] /\ Goto(j, "open")
       ELSE Goto(j, "discard") /\ UNCHANGED pos
  /\ UNCHANGED <<fsVars, fd, sum, runVars, faulted>>

\* Mutant: after a removal that failed the file is examined again.
DiscardRetries(j) ==
  /\ At(j, "discard")
  /\ Goto(j, "stat")
  /\ UNCHANGED <<fsVars, fd, pos, sum, runVars, faulted>>

Discard(j) ==
  /\ At(j, "discard")
  /\ Remove(Tmp(j))
  /\ Goto(j, "open")
  /\ UNCHANGED <<fd, pos, sum, runVars, faulted>>

\* append(true).create(true)
OpenTmp(j) ==
  /\ At(j, "open")
  /\ IF Exists(Tmp(j))
       THEN fd' = [fd EXCEPT ![j] = dir[Tmp(j)]] /\ UNCHANGED fsVars
       ELSE fd' = [fd EXCEPT ![j] = Fresh] /\ CreateEmpty(Tmp(j))
  /\ Goto(j, "copy")
  /\ UNCHANGED <<pos, sum, runVars, faulted>>

\* One turn of the loop: a block is read, hashed if asked for, and appended.
CopyBlock(j) ==
  /\ At(j, "copy") /\ pos[j] <= Size(Src(j))
  /\ LET b == Bytes(Src(j))[pos[j]] IN
       /\ data' = [data EXCEPT ![fd[j]] = Append(@, b)]
       /\ sum' = IF config.verify
                   THEN [sum EXCEPT ![j] = [src |-> Append(@.src, b), dst |-> Append(@.dst, b)]]
                   ELSE sum
  /\ pos' = [pos EXCEPT ![j] = @ + 1]
  /\ UNCHANGED <<dir, synced, disk, pc, fd, result, runVars, faulted>>

EndOfSource(j) ==
  /\ At(j, "copy") /\ pos[j] > Size(Src(j))
  /\ Goto(j, IF config.verify THEN "verify" ELSE "fsync")
  /\ Close(j)
  /\ UNCHANGED <<fsVars, pos, sum, runVars, faulted>>

\* The digests are of what was read and of what was handed to write().
CompareSums(j) ==
  /\ At(j, "verify")
  /\ IF sum[j].src = sum[j].dst THEN Goto(j, "fsync") ELSE Finish(j, "err")
  /\ UNCHANGED <<fsVars, fd, pos, sum, runVars, faulted>>

\* Mutant: no sync_all().
SyncTmpNothing(j) ==
  /\ At(j, "fsync")
  /\ IF Exists(Tmp(j)) THEN Goto(j, "publish") ELSE Finish(j, "err")
  /\ UNCHANGED <<fsVars, fd, pos, sum, runVars, faulted>>

\* The file is opened again by its name to be synced.
SyncTmp(j) ==
  /\ At(j, "fsync")
  /\ IF Exists(Tmp(j))
       THEN SyncAll(dir[Tmp(j)]) /\ Goto(j, "publish")
       ELSE Finish(j, "err") /\ UNCHANGED fsVars
  /\ UNCHANGED <<fd, pos, sum, runVars, faulted>>

Publish(j) ==
  /\ At(j, "publish")
  /\ IF Exists(Tmp(j))
       THEN Rename(Tmp(j), Dst(j)) /\ Goto(j, "syncdir")
       ELSE Finish(j, "err") /\ UNCHANGED fsVars
  /\ UNCHANGED <<fd, pos, sum, runVars, faulted>>

\* Mutant: the directory is not synced.
SyncDirNothing(j) ==
  /\ At(j, "syncdir")
  /\ Copied(j)
  /\ UNCHANGED <<fsVars, fd, pos, sum, runVars, faulted>>

\* Best effort: a directory that cannot be opened or synced is no error.
SyncDir(j) ==
  /\ At(j, "syncdir")
  /\ disk' = IF config.dirSync THEN SyncedDst ELSE disk
  /\ Copied(j)
  /\ UNCHANGED <<dir, data, synced, fd, pos, sum, runVars, faulted>>

\* move_file: the copy is in place, the source goes.
Unlink(j) ==
  /\ At(j, "unlink")
  /\ Remove(Src(j))
  /\ Finish(j, "ok")
  /\ UNCHANGED <<fd, pos, sum, runVars, faulted>>

\* Mutant: move_file unlinks the source whatever copy_file returned.
IoErrorIgnored(j) ==
  /\ pc[j] \in {"readback", "create", "stat", "open", "copy", "fsync", "publish", "unlink"}
  /\ Copied(j) /\ Close(j)
  /\ faulted' = TRUE
  /\ UNCHANGED <<fsVars, pos, sum, runVars>>

\* A system call fails: the call returns the error, and the partial copy stays.
IoError(j) ==
  /\ pc[j] \in {"readback", "create", "stat", "open", "copy", "fsync", "publish", "unlink"}
  /\ Finish(j, "err") /\ Close(j)
  /\ faulted' = TRUE
  /\ UNCHANGED <<fsVars, pos, sum, runVars>>

\* An error while the kept prefix is compared counts as a mismatch; one while
\* a reflink is opened or synced falls through to the buffered copy.
SoftError(j) ==
  /\ pc[j] \in {"prefix", "reflink", "rsync"}
  /\ Goto(j, IF At(j, "prefix") THEN "discard" ELSE "tmp") /\ Close(j)
  /\ faulted' = TRUE
  /\ UNCHANGED <<fsVars, pos, sum, runVars>>

Call(j) ==
  \/ Start(j) \/ MoveRename(j) \/ MoveByCopy(j) \/ ReadBack(j)
  \/ ReflinkCreate(j) \/ CopyRange(j) \/ Ficlone(j) \/ ReflinkSync(j)
  \/ CheckTmp(j) \/ ClearTmp(j) \/ CreateTmp(j) \/ StatTmp(j) \/ VerifyPrefix(j) \/ Discard(j)
  \/ OpenTmp(j) \/ CopyBlock(j) \/ EndOfSource(j) \/ CompareSums(j) \/ SyncTmp(j)
  \/ Publish(j) \/ SyncDir(j) \/ Unlink(j)
-----------------------------------------------------------------------------
(* What may happen to the process, and to the machine                      *)

\* The process is gone, with its descriptors and everything it remembered.
Stop ==
  /\ pc' = [j \in Job |-> "down"]
  /\ fd' = [j \in Job |-> NoFile] /\ pos' = [j \in Job |-> 1]
  /\ sum' = [j \in Job |-> NoSum]

Kill ==
  /\ \E j \in Job : pc[j] \notin {"over", "down"}
  /\ Stop
  /\ UNCHANGED <<fsVars, result, runVars, faulted>>

\* What a file may hold after a power loss: the synced blocks, and behind
\* them a cut anywhere, or blocks that were never written.
Torn(i) ==
  LET n == Len(data[i]) IN
  {SubSeq(data[i], 1, k) : k \in synced[i] .. n}
  \cup {[b \in 1 .. n |-> IF b <= k THEN data[i][b] ELSE Zero] : k \in synced[i] .. n}

PowerLoss ==
  /\ Stop
  /\ result' = [j \in Job |-> "none"]
  /\ \E d \in disk :
       LET named == {d[p] : p \in Path}
           risky == {i \in Inode \cap named : synced[i] < Len(data[i])}
       IN /\ dir' = d /\ disk' = {d}
          /\ \E torn \in [risky -> UNION {Torn(i) : i \in risky}] :
               /\ \A i \in risky : torn[i] \in Torn(i)
               /\ data' = [i \in Inode |-> IF i \in risky THEN torn[i]
                                           ELSE IF i \in named THEN data[i] ELSE <<>>]
          /\ synced' = [i \in Inode |-> Len(data'[i])]
  /\ UNCHANGED <<runVars, faulted>>

\* The program is started again on the sources that are left, each of which
\* may have been edited in between.
Launch ==
  /\ \A j \in Job : pc[j] \in {"over", "down"}
  /\ runs < MaxRuns
  /\ LET left == {j \in Job : Exists(Src(j))}
         edited == {SrcOf[j] : j \in left}
         of(i) == CHOOSE x \in edited : dir[<<"src", x>>] = i
         files == {dir[<<"src", x>>] : x \in edited}
     IN \E c \in [edited -> Contents] :
       /\ data' = [i \in Inode |-> IF i \in files THEN c[of(i)] ELSE data[i]]
       /\ synced' = [i \in Inode |-> IF i \in files THEN Len(c[of(i)]) ELSE synced[i]]
       /\ want' = [x \in Source |-> IF x \in edited THEN c[x] ELSE want[x]]
       /\ seen' = [d \in Dest |-> seen[d] \cup
                     {c[SrcOf[j]] : j \in {k \in left : DstOf[k] = d}}]
       /\ pc' = [j \in Job |-> IF j \in left THEN "start" ELSE "over"]
       /\ result' = [j \in Job |-> "none"]
  /\ runs' = runs + 1
  /\ faulted' = FALSE
  /\ UNCHANGED <<dir, disk, fd, pos, sum, config>>

\* The machine is off, or the user is done.
Idle == (\A j \in Job : pc[j] \in {"over", "down"}) /\ UNCHANGED vars

Next ==
  \/ \E j \in Job : Call(j) \/ IoError(j) \/ SoftError(j)
  \/ Kill \/ PowerLoss \/ Launch \/ Idle

Spec == Init /\ [][Next]_vars

\* A system call that does not fail returns.
FairSpec == Spec /\ \A j \in Job : WF_vars(Call(j))
-----------------------------------------------------------------------------
TypeOK ==
  /\ dir \in [Path -> Inode \cup {NoFile}]
  /\ DOMAIN data = Inode /\ DOMAIN synced = Inode
  /\ \A i \in Inode : synced[i] \in 0 .. Len(data[i])
  /\ dir \in disk /\ disk \subseteq [Path -> Inode \cup {NoFile}]
  /\ pc \in [Job -> PC]
  /\ fd \in [Job -> Inode \cup {NoFile}]
  /\ pos \in [Job -> Nat \ {0}]
  /\ result \in [Job -> {"none", "ok", "err"}]
  /\ config \in Configs /\ runs \in 1 .. MaxRuns /\ faulted \in BOOLEAN

Whole(d, n) == Stable(d, <<"dst", n>>) \in seen[n]

\* At any moment, and whatever a power loss undoes, a destination is what it
\* was before the first run or a whole copy of what one of its sources held:
\* the buffered copy publishes a file only once it is complete and synced.  A
\* reflink writes to the destination itself, but to none that existed.
DstAtomic ==
  \A d \in disk, n \in Dest : ~config.reflink \/ Absent \notin seen[n] => Whole(d, n)

\* A call that returned Ok has left, under the destination's name, the very
\* content its source had, however many interrupted runs came before.
OkMeansCopied ==
  \A j \in Job : result[j] = "ok" =>
    /\ Exists(Dst(j)) /\ Bytes(Dst(j)) = want[SrcOf[j]]
    /\ config.mode = "move" => ~Exists(Src(j))

\* Where directories can be synced, a buffered copy that returned Ok survives a
\* power loss: the fsyncs of the file and of the directory come before Ok.
OkIsDurable ==
  \A j \in Job : result[j] = "ok" /\ config.mode = "copy" /\ config.dirSync
                     /\ ~config.reflink =>
    \A d \in disk : Stable(d, Dst(j)) = want[SrcOf[j]]

\* The content of the source is whole under one of the names it goes through.
SurvivesIn(d, j) ==
  \E p \in {Src(j), Dst(j), Tmp(j)} : Stable(d, p) = want[SrcOf[j]]

\* Where directories can be synced, a move never loses the data: whenever the
\* power fails, the content of the source is still there.
NoLoss == config.dirSync => \A j \in Job, d \in disk : SurvivesIn(d, j)

\* A call fails only because a system call did, never because of what an
\* earlier run left behind.
ErrNeedsFault == \A j \in Job : result[j] = "err" => faulted

\* A run throws a partial copy away only if it cannot be continued.
KeepsGoodPrefix ==
  [][\A j \in Job :
       pc[j] = "discard" /\ pc'[j] = "open" /\ ~faulted => ~KeptPrefix(j)]_vars

\* What a reader of the two trees sees in directory d, and how far a call is.
View(d) == [src |-> [x \in {SrcOf[j] : j \in Job} |-> Stable(d, <<"src", x>>)],
            dst |-> [n \in Dest |-> Stable(d, <<"dst", n>>)]]
Stage(where) ==
  CASE where \in {"over", "down"} -> where
    [] where = "syncdir"  -> "placed"
    [] where = "unlink"   -> "committed"
    [] where = "readback" -> "moved"
    [] OTHER              -> "copying"

Present == View(dir)
Views == {View(d) : d \in disk}
Stages == [j \in Job |-> Stage(pc[j])]
Copy == INSTANCE AtomicCopy WITH now <- Present, after <- Views, at <- Stages

\* transfer.rs:58: "Copy `src` to `dst` atomically."  Without reflinks the calls
\* implement the copy in one step that AtomicCopy specifies, crashes included.
\* (The configuration is that of all runs: this is Copy!Spec where it has none.)
IsAtomicCopy ==
  /\ ~config.reflink => Copy!Init
  /\ [][~config.reflink => Copy!Next]_(Copy!vars)

\* Every call returns, or its process is stopped.
Returns == \A j \in Job : pc[j] = "start" ~> pc[j] \in {"over", "down"}
-----------------------------------------------------------------------------
(* What the repository says of a transfer, and the code does not do        *)

\* README.md:14-15: interrupting never leaves a half-written destination.
NeverHalfWritten == \A d \in disk, n \in Dest : Whole(d, n)
=============================================================================
