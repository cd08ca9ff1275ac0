----------------------------- MODULE AtomicCopy -----------------------------
(***************************************************************************)
(* What a copy or a move without reflinks promises, with no word of        *)
(* partial copies, descriptors, hashes or what of a file is on disk: a     *)
(* destination changes from what it was to the whole content of the source *)
(* in one step; a move takes the source away in that same step, or after   *)
(* the destination was given the chance to reach the disk; a power loss    *)
(* undoes whole steps, the last ones first.                                *)
(*                                                                         *)
(* Transfer refines this specification.                                    *)
(***************************************************************************)
CONSTANTS
  Job,          \* the calls of a run
  SrcOf,        \* the source of each,
  DstOf,        \* and its destination
  Contents,     \* what a source may contain
  OldContents,  \* what a destination may contain before
  Configs       \* mode, one file system or two, can directories be synced?

VARIABLES
  now,          \* what each source and each destination holds, or Absent
  after,        \* what they may hold after a power loss
  at,           \* how far each call is
  result,       \* what it returned
  config

vars == <<now, after, at, result, config>>

From == {SrcOf[j] : j \in Job}
Dest == {DstOf[j] : j \in Job}
Absent == <<"absent">>

Init ==
  /\ \E c \in [From -> Contents], o \in [Dest -> OldContents \cup {Absent}] :
       now = [src |-> c, dst |-> o]
  /\ after = {now}
  /\ at = [j \in Job |-> "copying"]
  /\ result = [j \in Job |-> "none"]
  /\ config \in Configs

\* One more state may be left by a power loss; two file systems lose
\* independently of each other.
Change(v) ==
  /\ now' = v
  /\ after' = IF config.sameFs THEN after \cup {v}
              ELSE {[src |-> u.src, dst |-> w.dst] : u, w \in after \cup {v}}

Goto(j, where) == at' = [at EXCEPT ![j] = where] /\ UNCHANGED result
Finish(j, r) ==
  /\ at' = [at EXCEPT ![j] = "over"]
  /\ result' = [result EXCEPT ![j] = r]

Content(j) == now.src[SrcOf[j]]
Copied(j) == [now.dst EXCEPT ![DstOf[j]] = Content(j)]
Taken(j) == [now.src EXCEPT ![SrcOf[j]] = Absent]

\* The copy takes the place of what was there.
Replace(j) ==
  /\ at[j] = "copying" /\ Content(j) # Absent
  /\ Change([src |-> now.src, dst |-> Copied(j)])
  /\ Goto(j, "placed")
  /\ UNCHANGED config

\* What has changed in the destination is committed, where that can be done.
Commit(j) ==
  /\ at[j] = "placed"
  /\ after' = IF ~config.dirSync THEN after
              ELSE IF config.sameFs THEN {now}
              ELSE {[src |-> u.src, dst |-> now.dst] : u \in after}
  /\ IF config.mode = "move" THEN Goto(j, "committed") ELSE Finish(j, "ok")
  /\ UNCHANGED <<now, config>>

\* The second half of a move: the source goes.
Discard(j) ==
  /\ at[j] = "committed"
  /\ Change([src |-> Taken(j), dst |-> now.dst])
  /\ Finish(j, "ok")
  /\ UNCHANGED config

\* A move in one step.
Rename(j) ==
  /\ at[j] = "copying" /\ Content(j) # Absent
  /\ config.mode = "move" /\ config.sameFs
  /\ Change([src |-> Taken(j), dst |-> Copied(j)])
  /\ Goto(j, "moved") \/ Finish(j, "ok")
  /\ UNCHANGED config

Confirm(j) ==
  /\ at[j] = "moved"
  /\ Finish(j, "ok")
  /\ UNCHANGED <<now, after, config>>

\* An error changes no source and no destination.
Fail(j) ==
  /\ at[j] \in {"copying", "committed", "moved"}
  /\ Finish(j, "err")
  /\ UNCHANGED <<now, after, config>>

Down == at' = [j \in Job |-> "down"]
Kill == Down /\ UNCHANGED <<now, after, result, config>>
PowerLoss ==
  /\ Down
  /\ \E v \in after : now' = v /\ after' = {v}
  /\ result' = [j \in Job |-> "none"]
  /\ UNCHANGED config

\* The program is started again; sources that are left may have been edited.
Edited(v, c) ==
  [src |-> [x \in From |-> IF x \in DOMAIN c THEN c[x] ELSE v.src[x]], dst |-> v.dst]
Launch ==
  /\ \A j \in Job : at[j] \in {"over", "down"}
  /\ \E c \in [{x \in From : now.src[x] # Absent} -> Contents] :
       /\ now' = Edited(now, c)
       /\ after' = {Edited(v, c) : v \in after}
  /\ at' = [j \in Job |-> IF Content(j) # Absent THEN "copying" ELSE "over"]
  /\ result' = [j \in Job |-> "none"]
  /\ UNCHANGED config

Next ==
  \/ \E j \in Job : \/ Replace(j) \/ Commit(j) \/ Discard(j)
                    \/ Rename(j) \/ Confirm(j) \/ Fail(j)
  \/ Kill \/ PowerLoss \/ Launch

Spec == Init /\ [][Next]_vars
=============================================================================
