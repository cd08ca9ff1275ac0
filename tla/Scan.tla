-------------------------------- MODULE Scan --------------------------------
(***************************************************************************)
(* Engine::plan: for each source a scanner thread walks the tree depth     *)
(* first and sends what it finds through an unbounded channel, and the     *)
(* planning thread turns each item into a plan entry with a destination.   *)
(* Meanwhile entries may vanish from the tree.                             *)
(*                                                                         *)
(* A path is the sequence of its components.  tree says what each path is; *)
(* Path holds no path that leads through a link.                           *)
(***************************************************************************)
EXTENDS Integers, Sequences

CONSTANTS
  Path,          \* the paths of the machine, with their parents
  Trees,         \* what these paths may be at first
  SourceLists,   \* the sources a run may be given
  Options,       \* symlink policy, and whether links may lead out of the root
  MaxDepth,      \* bound: calls of scan_recursive within each other
  MaxChanges     \* bound: entries that vanish or cannot be read meanwhile

VARIABLES
  tree,          \* what each path is: its kind, and a link's target
  sources,       \* the sources of the run
  opts,          \* ScanOptions
  ix,            \* the source being planned
  root,          \* its canonical path: ScanOptions::root
  stack,         \* the calls of scan_recursive, the innermost last
  scan,          \* the scanner thread
  chan,          \* the items and errors sent and not yet received
  plan,          \* the planning thread: between sources, reading, or through
  entries,       \* the plan
  changes,       \* vanished and unreadable entries so far
  errsSent       \* history: errors the scanner has met

vars == <<tree, sources, opts, ix, root, stack, scan, chan, plan, entries,
          changes, errsSent>>
walkVars == <<sources, opts, ix, root, plan, entries>>
planVars == <<tree, sources, opts, stack, changes, errsSent>>

Name == UNION {{p[i] : i \in DOMAIN p} : p \in Path}
Under(p, q) == Len(q) <= Len(p) /\ SubSeq(p, 1, Len(q)) = q     \* p starts with q
Below(p, q) == SubSeq(p, Len(q) + 1, Len(p))                    \* p without its prefix q

\* What the paths can be: a link has a target, which need not be there, and what
\* is there is in directories.
NoPath == <<>>
Entry == [kind : {"none", "dir", "file", "special", "link"}, to : Path \cup {NoPath}]
IsTree(t) ==
  /\ t \in [Path -> Entry]
  /\ \A p \in Path : t[p].kind = "link" => t[p].to \in Path
  /\ \A p, q \in Path : t[p].kind # "none" /\ Under(p, q) /\ p # q => t[q].kind = "dir"

ASSUME ScanAssumption ==
  /\ <<>> \notin Path
  /\ \A p \in Path : p \in Seq(Name) /\ \A n \in 1 .. Len(p) : SubSeq(p, 1, n) \in Path
  /\ \A t \in Trees : IsTree(t)
  /\ Options \subseteq [symlinks : {"preserve", "follow", "skip"}, escape : BOOLEAN]
  /\ SourceLists \subseteq Seq(Path) \ {<<>>}
  /\ MaxDepth \in Nat /\ MaxChanges \in Nat

Kind(p) == tree[p].kind
Missing == [kind |-> "none", to |-> NoPath]
Children(p) == {c \in Path : Len(c) = Len(p) + 1 /\ Under(c, p) /\ Kind(c) # "none"}

\* canonicalize(): the end of a chain of links.  Whatever links one has followed
\* from p, one of them leads to q, or to a link that one has not: a circle (ELOOP)
\* has no end, and a chain may end nowhere.
Links(t) == {p \in Path : t[p].kind = "link"}
IsEnd(t, p, q) ==
  /\ t[q].kind \notin {"none", "link"}
  /\ p # q => p \in Links(t) /\ \A S \in SUBSET Links(t) :
                 p \in S => \E x \in S : t[x].to \in {q} \cup (Links(t) \ S)
CanonIn(t, p) ==
  IF \E q \in Path : IsEnd(t, p, q) THEN CHOOSE q \in Path : IsEnd(t, p, q) ELSE NoPath
Canon(p) == CanonIn(tree, p)

Init ==
  /\ tree \in Trees /\ sources \in SourceLists /\ opts \in Options
  /\ ix = 1 /\ root = NoPath
  /\ stack = <<>> /\ scan = "over" /\ chan = <<>>
  /\ plan = "next" /\ entries = <<>>
  /\ changes = 0 /\ errsSent = 0
-----------------------------------------------------------------------------
(* The scanner thread                                                      *)

Top == stack[Len(stack)]
At(where) == scan = "running" /\ stack # <<>> /\ Top.at = where
Pop == stack' = SubSeq(stack, 1, Len(stack) - 1)
Goto(where) == stack' = [stack EXCEPT ![Len(stack)].at = where]
Call(p, rel) == [abs |-> p, rel |-> rel, at |-> "stat", seen |-> {}]

\* What the scanner calls on behalf of its top frame, which goes on as f.
Recurse(f, callee) == stack' = SubSeq(stack, 1, Len(stack) - 1) \o <<f, callee>>

Item(kind) == [source |-> Top.abs, rel |-> Top.rel, kind |-> kind]
Error == [source |-> NoPath, rel |-> NoPath, kind |-> "error"]

\* A send fails silently once the planning thread has dropped the receiver.
Send(m) ==
  /\ chan' = IF plan = "reading" THEN Append(chan, m) ELSE chan
  /\ errsSent' = IF m = Error THEN errsSent + 1 ELSE errsSent
Quiet == UNCHANGED <<chan, errsSent>>

\* The `?` of a recursive call: the error goes up through every call.
Abort == stack' = <<>> /\ Send(Error)

\* The walk has no end of its own: it follows a circle of links until the path
\* grows too long, if the links are relative, or else until the stack is full.
TooDeep == Len(stack) > MaxDepth

\* Nothing can be looked up under a path that is too long.
Seen(p) == IF TooDeep THEN "none" ELSE Kind(p)

\* symlink_metadata() and what each kind of entry leads to.
Stat ==
  /\ At("stat")
  /\ LET k == Seen(Top.abs) IN
     \/ k = "none" /\ Pop /\ Send(Error)
     \/ k = "special" /\ Pop /\ Quiet
     \/ k = "file" /\ Pop /\ Send(Item("file"))
     \/ k = "dir" /\ Goto("opendir") /\ Send(Item("dir"))
     \/ k = "link" /\ CASE opts.symlinks = "skip"     -> Pop /\ Quiet
                        [] opts.symlinks = "preserve" -> Pop /\ Send(Item("link"))
                        [] opts.symlinks = "follow"   -> Goto("readlink") /\ Quiet
  /\ UNCHANGED <<tree, scan, changes, walkVars>>

\* Mutant: the target is compared with "/" instead of the root.
FollowLinkFromSlash ==
  /\ At("readlink")
  /\ IF Kind(Top.abs) # "link" THEN Abort
     ELSE /\ Recurse([Top EXCEPT !.at = "followed"], Call(tree[Top.abs].to, Top.rel))
          /\ Quiet
  /\ UNCHANGED <<tree, scan, changes, walkVars>>

\* A link is not followed out of the root, but one that leads nowhere is: the
\* target is walked under the name of the target (without the ".." that the code
\* leaves in it).
FollowLink ==
  /\ At("readlink")
  /\ IF Kind(Top.abs) # "link" THEN Abort
     ELSE LET target == tree[Top.abs].to IN
          /\ IF ~opts.escape /\ Canon(target) # NoPath /\ ~Under(Canon(target), root)
               THEN Pop
               ELSE Recurse([Top EXCEPT !.at = "followed"], Call(target, Top.rel))
          /\ Quiet
  /\ UNCHANGED <<tree, scan, changes, walkVars>>

FollowReturns ==
  /\ At("followed") /\ Pop /\ Quiet
  /\ UNCHANGED <<tree, scan, changes, walkVars>>

OpenDir ==
  /\ At("opendir")
  /\ IF Kind(Top.abs) = "dir" THEN Goto("list") /\ Quiet ELSE Abort
  /\ UNCHANGED <<tree, scan, changes, walkVars>>

\* Mutant: a listing that has the directory itself among its entries.
ListDirSelf ==
  /\ At("list")
  /\ LET left == (Children(Top.abs) \cup {Top.abs}) \ Top.seen IN
     \/ left = {} /\ Pop
     \/ \E c \in left : Recurse([Top EXCEPT !.seen = @ \cup {c}],
                                Call(c, Append(Top.rel, c[Len(c)])))
  /\ Quiet
  /\ UNCHANGED <<tree, scan, changes, walkVars>>

\* read_dir() yields the entries in any order.
ListDir ==
  /\ At("list")
  /\ LET left == Children(Top.abs) \ Top.seen IN
     \/ left = {} /\ Pop
     \/ \E c \in left : Recurse([Top EXCEPT !.seen = @ \cup {c}],
                                Call(c, Append(Top.rel, c[Len(c)])))
  /\ Quiet
  /\ UNCHANGED <<tree, scan, changes, walkVars>>

\* An entry that cannot be read is reported, and the listing goes on.
BadEntry ==
  /\ At("list") /\ changes < MaxChanges
  /\ \E c \in Children(Top.abs) \ Top.seen :
       stack' = [stack EXCEPT ![Len(stack)].seen = @ \cup {c}]
  /\ changes' = changes + 1
  /\ Send(Error)
  /\ UNCHANGED <<tree, scan, walkVars>>

\* Mutant: the sender is not dropped.
ScanReturnsHolding ==
  /\ scan = "running" /\ stack = <<>>
  /\ scan' = scan
  /\ UNCHANGED <<tree, stack, chan, changes, errsSent, walkVars>>

\* scan_tree() returns and drops the sender.
ScanReturns ==
  /\ scan = "running" /\ stack = <<>>
  /\ scan' = "over"
  /\ UNCHANGED <<tree, stack, chan, changes, errsSent, walkVars>>

\* A thread that overflows its stack ends the process.
Overflow ==
  /\ At("stat") /\ TooDeep
  /\ scan' = "killed" /\ plan' = "killed" /\ stack' = <<>> /\ chan' = <<>>
  /\ UNCHANGED <<tree, sources, opts, ix, root, entries, changes, errsSent>>

Scanner ==
  Stat \/ Overflow \/ FollowLink \/ FollowReturns \/ OpenDir \/ ListDir \/ ScanReturns
-----------------------------------------------------------------------------
(* The planning thread                                                     *)

\* Mutant: a source that cannot be canonicalized is scanned all the same.
NextSourceAnyRoot ==
  /\ plan = "next" /\ ix <= Len(sources)
  /\ root' = Canon(sources[ix])
  /\ plan' = "reading" /\ scan' = "running" /\ stack' = <<Call(root', <<>>)>>
  /\ UNCHANGED <<tree, sources, opts, ix, chan, entries, changes, errsSent>>

\* canonical_root(), and a scanner of its own for the next source.
NextSource ==
  /\ plan = "next" /\ ix <= Len(sources)
  /\ LET r == Canon(sources[ix]) IN
     /\ root' = r
     /\ IF r = NoPath
          THEN plan' = "error" /\ UNCHANGED <<stack, scan>>
          ELSE plan' = "reading" /\ scan' = "running" /\ stack' = <<Call(r, <<>>)>>
  /\ UNCHANGED <<tree, sources, opts, ix, chan, entries, changes, errsSent>>

\* Mutant: the source's own name stays in the destination.
DestinationInside(item) ==
  LET r == Canon(sources[ix])
  IN IF r # NoPath /\ Under(item.source, r) THEN {Below(item.source, SubSeq(r, 1, Len(r) - 1))}
     ELSE {}

\* compute_dst() strips the root from the item's source; an item that is not
\* under the root is left out.
Destination(item) ==
  LET r == Canon(sources[ix])
  IN IF r # NoPath /\ Under(item.source, r) THEN {Below(item.source, r)} ELSE {}

\* Mutant: an error is skipped.
ReceiveSkipsErrors ==
  /\ plan = "reading" /\ chan # <<>>
  /\ LET m == Head(chan) IN
     /\ chan' = Tail(chan)
     /\ entries' = IF m = Error \/ Destination(m) = {} THEN entries
                   ELSE Append(entries, [item |-> m, src |-> ix,
                                         dst |-> CHOOSE d \in Destination(m) : TRUE])
  /\ UNCHANGED <<planVars, plan, ix, root, scan>>

\* The first error ends the plan, and the receiver is dropped.
Receive ==
  /\ plan = "reading" /\ chan # <<>>
  /\ LET m == Head(chan) IN
     IF m = Error
       THEN plan' = "error" /\ chan' = <<>> /\ UNCHANGED entries
       ELSE /\ chan' = Tail(chan)
            /\ entries' = IF Destination(m) = {} THEN entries
                          ELSE Append(entries, [item |-> m, src |-> ix,
                                                dst |-> CHOOSE d \in Destination(m) : TRUE])
            /\ UNCHANGED plan
  /\ UNCHANGED <<planVars, ix, root, scan>>

\* Mutant: try_iter(), which ends where the channel is empty.
SourceDoneEmpty ==
  /\ plan = "reading" /\ chan = <<>>
  /\ plan' = "next" /\ ix' = ix + 1
  /\ UNCHANGED <<planVars, root, scan, chan, entries>>

\* The channel is empty and its sender is gone: on to the next source.
SourceDone ==
  /\ plan = "reading" /\ chan = <<>> /\ scan = "over"
  /\ plan' = "next" /\ ix' = ix + 1
  /\ UNCHANGED <<planVars, root, scan, chan, entries>>

PlanDone ==
  /\ plan = "next" /\ ix > Len(sources)
  /\ plan' = "ok"
  /\ UNCHANGED <<planVars, ix, root, scan, chan, entries>>

Planner == NextSource \/ Receive \/ SourceDone \/ PlanDone

\* Somebody removes an entry, and what is below it.
Vanish ==
  /\ changes < MaxChanges /\ plan \in {"next", "reading"}
  /\ \E p \in Path :
       /\ Kind(p) # "none"
       /\ tree' = [q \in Path |-> IF Under(q, p) THEN Missing ELSE tree[q]]
  /\ changes' = changes + 1
  /\ UNCHANGED <<stack, scan, chan, errsSent, walkVars>>

\* plan() has returned; a scanner it has left behind goes on by itself.
Returned == plan \in {"ok", "error"} /\ scan = "over"
Finished == (Returned \/ plan = "killed") /\ UNCHANGED vars

Next == Scanner \/ BadEntry \/ Planner \/ Vanish \/ Finished

Spec == Init /\ [][Next]_vars
FairSpec == Spec /\ WF_vars(Scanner) /\ WF_vars(Planner)
-----------------------------------------------------------------------------
Frames == {stack[i] : i \in DOMAIN stack}
Destinations == {entries[i].dst : i \in DOMAIN entries}

TypeOK ==
  /\ tree \in [Path -> Entry]
  /\ sources \in SourceLists /\ opts \in Options
  /\ ix \in 1 .. (Len(sources) + 1) /\ root \in Path \cup {NoPath}
  /\ \A f \in Frames : f.abs \in Path /\ f.seen \subseteq Path
  /\ scan \in {"running", "over", "killed"}
  /\ plan \in {"next", "reading", "ok", "error", "killed"}
  /\ \A i \in DOMAIN entries : entries[i].item.source \in Path
  /\ changes \in 0 .. MaxChanges /\ errsSent \in Nat

\* If no link is followed, the destination plan() computes from the source is
\* the one the scanner's own relative path says, whatever vanishes meanwhile.
PlacedByRelative ==
  opts.symlinks # "follow" => \A i \in DOMAIN entries : entries[i].dst = entries[i].item.rel

\* No directory outside of the root is listed unless links may lead there,
\* through however many links the scanner has got where it is.
StaysUnderRoot ==
  ~opts.escape => \A f \in Frames : f.at = "list" => Under(f.abs, root)

\* What the entries of a source would be if all of it were seen at once.
Expected(r) ==
  {p \in Path : Under(p, r) /\ Kind(p) \in {"dir", "file"} \cup
                              (IF opts.symlinks = "preserve" THEN {"link"} ELSE {})}

\* A plan of a tree that nobody touched is complete and names nothing twice:
\* the items of every scanner arrive before its source is given up.
PlanIsTree ==
  plan = "ok" /\ changes = 0 /\ opts.symlinks # "follow" =>
    \A s \in DOMAIN sources :
      LET mine == {i \in DOMAIN entries : entries[i].src = s}
      IN /\ {entries[i].item.source : i \in mine} = Expected(Canon(sources[s]))
         /\ \A i, k \in mine : entries[i].dst = entries[k].dst => i = k

\* A plan is returned only if no scanner has met an error: what could not be
\* read is never left out silently.
OkMeansNoError == plan = "ok" => errsSent = 0

\* Two calls, one within the other, are of the same entry.
Circles(i, k) == i < k /\ stack[i].abs = stack[k].abs

\* Whatever circles there are, the walk comes back to an entry that it is in only
\* by a link it has followed in between: no listing leads there, and no walk that
\* keeps or skips links.
ReturnsByLink ==
  \A i, k \in DOMAIN stack : Circles(i, k) =>
    opts.symlinks = "follow" /\ \E j \in i .. k - 1 : stack[j].at = "followed"

\* A plan is returned, and no scanner stays behind for ever, unless one has come
\* back to what it was in.
PlanReturns == <>(Returned \/ \E i, k \in DOMAIN stack : Circles(i, k))
-----------------------------------------------------------------------------
(* What the repository says of a scan, and the code does not do            *)

\* policy.rs:108: a link that is followed is replaced by what it points to.
FollowedInPlace == \A i \in DOMAIN entries : entries[i].dst = entries[i].item.rel

\* scan.rs:70: items are produced until the tree is exhausted, and the sender is
\* dropped.  engine.rs:123-125: the lifetime of the scan thread is bounded, and it
\* exits on its own.
ScannerExits == (scan = "running") ~> (scan = "over")
=============================================================================
