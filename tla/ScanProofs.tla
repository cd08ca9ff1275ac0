----------------------------- MODULE ScanProofs -----------------------------
(***************************************************************************)
(* Proofs about Scan for any paths, any trees of them, any sources and any *)
(* number of entries that vanish meanwhile.                                *)
(***************************************************************************)
EXTENDS Scan, SequenceTheorems, TLAPS

-----------------------------------------------------------------------------
(* Paths                                                                   *)

LEMMA PathsAreSequences ==
  \A p \in Path : p \in Seq(Name) /\ p # NoPath /\ Len(p) \in Nat \ {0}
BY ScanAssumption, EmptySeq DEF NoPath

LEMMA NoPathIsASequence == NoPath \in Seq(Name) /\ Len(NoPath) = 0
BY EmptySeq DEF NoPath

\* Under() compares name by name.
LEMMA UnderIs ==
  ASSUME NEW p \in Seq(Name), NEW q \in Seq(Name)
  PROVE  Under(p, q) <=> Len(q) <= Len(p) /\ \A i \in 1 .. Len(q) : p[i] = q[i]
<1>1. Len(p) \in Nat /\ Len(q) \in Nat /\ \A i \in 1 .. Len(p) : p[i] \in Name
  BY LenProperties, ElementOfSeq
<1>2. SUFFICES ASSUME Len(q) <= Len(p)
               PROVE  SubSeq(p, 1, Len(q)) = q <=> \A i \in 1 .. Len(q) : p[i] = q[i]
  BY DEF Under
<1> DEFINE s == SubSeq(p, 1, Len(q))
<1>3. s \in Seq(Name) /\ Len(s) = Len(q) /\ \A i \in 1 .. Len(q) : s[i] = p[i]
  <2>1. \A i \in 1 .. Len(q) : p[i] \in Name
    BY <1>1, <1>2
  <2>2. /\ s \in Seq(Name)
        /\ Len(s) = IF 1 <= Len(q) THEN Len(q) - 1 + 1 ELSE 0
        /\ \A i \in 1 .. Len(q) - 1 + 1 : s[i] = p[1 + i - 1]
    BY <2>1, <1>1, SubSeqProperties
  <2> QED
    BY <2>2, <1>1
<1> HIDE DEF s
<1>4. (\A i \in 1 .. Len(q) : s[i] = q[i]) => s = q
  BY <1>3, SeqEqual
<1>5. s = q <=> \A i \in 1 .. Len(q) : p[i] = q[i]
  BY <1>3, <1>4
<1> QED
  BY <1>5 DEF s

LEMMA UnderItself == ASSUME NEW p \in Seq(Name) PROVE Under(p, p)
BY UnderIs, LenProperties

LEMMA UnderTransitive ==
  ASSUME NEW p \in Seq(Name), NEW q \in Seq(Name), NEW r \in Seq(Name),
         Under(p, q), Under(q, r)
  PROVE  Under(p, r)
<1>1. Len(p) \in Nat /\ Len(q) \in Nat /\ Len(r) \in Nat
  BY LenProperties
<1>2. /\ Len(q) <= Len(p) /\ \A i \in 1 .. Len(q) : p[i] = q[i]
      /\ Len(r) <= Len(q) /\ \A i \in 1 .. Len(r) : q[i] = r[i]
  BY UnderIs
<1>3. Len(r) <= Len(p) /\ \A i \in 1 .. Len(r) : p[i] = r[i]
  BY <1>1, <1>2
<1> QED
  BY <1>3, UnderIs

\* What is stripped from a path completes it.
LEMMA BelowCompletes ==
  ASSUME NEW p \in Seq(Name), NEW q \in Seq(Name), Under(p, q)
  PROVE  Below(p, q) \in Seq(Name) /\ p = q \o Below(p, q)
<1>1. Len(p) \in Nat /\ Len(q) \in Nat /\ \A i \in 1 .. Len(p) : p[i] \in Name
  BY LenProperties, ElementOfSeq
<1>2. Len(q) <= Len(p) /\ SubSeq(p, 1, Len(q)) = q
  BY DEF Under
<1>3. SubSeq(p, 1, Len(q)) \o SubSeq(p, Len(q) + 1, Len(p)) = SubSeq(p, 1, Len(p))
  <2>1. /\ 1 \in 1 .. Len(p) + 1 /\ Len(q) \in 1 - 1 .. Len(p)
        /\ Len(p) \in Len(q) .. Len(p)
    BY <1>1, <1>2
  <2> QED
    BY <2>1, ConcatAdjacentSubSeq
<1>4. SubSeq(p, 1, Len(p)) = p
  BY SubSeqFull
<1>5. \A i \in Len(q) + 1 .. Len(p) : p[i] \in Name
  BY <1>1
<1>6. SubSeq(p, Len(q) + 1, Len(p)) \in Seq(Name)
  BY <1>1, <1>5, SubSeqProperties
<1> QED
  BY <1>2, <1>3, <1>4, <1>6 DEF Below

LEMMA UnderPrefix ==
  ASSUME NEW q \in Seq(Name), NEW r \in Seq(Name)
  PROVE  q \o r \in Seq(Name) /\ Under(q \o r, q) /\ Below(q \o r, q) = r
<1> DEFINE p == q \o r
<1>1. Len(q) \in Nat /\ Len(r) \in Nat
  BY LenProperties
<1>2. /\ p \in Seq(Name) /\ Len(p) = Len(q) + Len(r)
      /\ \A i \in 1 .. Len(q) + Len(r) : p[i] = IF i <= Len(q) THEN q[i] ELSE r[i - Len(q)]
  BY ConcatProperties
<1> HIDE DEF p
<1>3. Len(q) <= Len(p) /\ \A i \in 1 .. Len(q) : p[i] = q[i]
  BY <1>1, <1>2
<1>4. Under(p, q)
  BY <1>2, <1>3, UnderIs
<1>5. Below(p, q) \in Seq(Name) /\ p = q \o Below(p, q)
  BY <1>2, <1>4, BelowCompletes
<1>6. Below(p, q) = r
  <2>1. q \o r = q \o Below(p, q)
    BY <1>5 DEF p
  <2>2. \A s, t, v \in Seq(Name) : s \o t = s \o v => t = v
    BY ConcatSimplifications, Zenon
  <2> QED
    BY <1>5, <2>1, <2>2
<1> QED
  BY <1>2, <1>4, <1>6 DEF p

\* A child's name is the last of its path.
LEMMA ChildIs ==
  ASSUME NEW c \in Path, NEW p \in Path, Len(c) = Len(p) + 1, Under(c, p)
  PROVE  c[Len(c)] \in Name /\ c = Append(p, c[Len(c)])
<1>1. /\ c \in Seq(Name) /\ p \in Seq(Name) /\ Len(c) \in Nat \ {0} /\ Len(p) \in Nat
      /\ c[Len(c)] \in Name
  BY PathsAreSequences, ElementOfSeq
<1>2. \A i \in 1 .. Len(p) : c[i] = p[i]
  BY <1>1, UnderIs
<1> DEFINE a == Append(p, c[Len(c)])
<1>3. /\ a \in Seq(Name) /\ Len(a) = Len(p) + 1
      /\ \A i \in 1 .. Len(p) : a[i] = p[i]
      /\ a[Len(p) + 1] = c[Len(c)]
  BY <1>1, AppendProperties
<1> HIDE DEF a
<1>4. \A i \in 1 .. Len(c) : c[i] = a[i]
  BY <1>1, <1>2, <1>3
<1>5. c = a
  BY <1>1, <1>3, <1>4, SeqEqual
<1> QED
  BY <1>1, <1>5 DEF a

\* The scanner's own relative path of a child.
LEMMA ChildBelow ==
  ASSUME NEW c \in Path, NEW r \in Seq(Name), NEW rel \in Seq(Name),
         r \o rel \in Path, Len(c) = Len(r \o rel) + 1, Under(c, r \o rel)
  PROVE  c = r \o Append(rel, c[Len(c)])
<1> DEFINE n == c[Len(c)]
           p == r \o rel
<1>1. n \in Name /\ c = Append(p, n)
  BY ChildIs
<1>2. p \in Seq(Name) /\ r \in Seq(Name)
  BY PathsAreSequences
<1> HIDE DEF n
<1>3. <<n>> \in Seq(Name) /\ Append(rel, n) \in Seq(Name)
  BY <1>1, AppendProperties
<1>4. c = p \o <<n>> /\ Append(rel, n) = rel \o <<n>>
  BY <1>1, <1>2, AppendIsConcat
<1>5. (r \o rel) \o <<n>> = r \o (rel \o <<n>>)
  BY <1>2, <1>3, ConcatAssociative
<1> QED
  BY <1>3, <1>4, <1>5 DEF n

\* Between a directory and what is deeper in it there is one of its children.
ChildOn(p, d) == SubSeq(p, 1, Len(d) + 1)

LEMMA Between ==
  ASSUME NEW p \in Path, NEW d \in Path, Under(p, d), p # d
  PROVE  LET c == ChildOn(p, d)
         IN  c \in Path /\ Len(c) = Len(d) + 1 /\ Under(c, d) /\ Under(p, c)
<1>1. /\ p \in Seq(Name) /\ d \in Seq(Name) /\ Len(p) \in Nat \ {0} /\ Len(d) \in Nat
      /\ \A i \in 1 .. Len(p) : p[i] \in Name
  BY PathsAreSequences, ElementOfSeq
<1>2. Len(d) <= Len(p) /\ \A i \in 1 .. Len(d) : p[i] = d[i]
  BY <1>1, UnderIs
<1>3. Len(d) # Len(p)
  <2>1. SUFFICES ASSUME Len(d) = Len(p) PROVE FALSE
    OBVIOUS
  <2>2. p = d
    BY <1>1, <1>2, <2>1, SeqEqual
  <2> QED
    BY <2>2
<1> DEFINE c == ChildOn(p, d)
<1>4. c \in Path
  BY <1>1, <1>2, <1>3, ScanAssumption DEF ChildOn
<1>5. Len(c) = Len(d) + 1 /\ \A i \in 1 .. Len(d) + 1 : c[i] = p[i]
  <2>1. \A i \in 1 .. Len(d) + 1 : p[i] \in Name
    BY <1>1, <1>2, <1>3
  <2> QED
    BY <1>1, <2>1, SubSeqProperties DEF ChildOn
<1> HIDE DEF c
<1>6. c \in Seq(Name)
  BY <1>4, PathsAreSequences
<1>7. Len(d) <= Len(c) /\ \A i \in 1 .. Len(d) : c[i] = d[i]
  BY <1>1, <1>2, <1>5
<1>8. Len(c) <= Len(p) /\ \A i \in 1 .. Len(c) : p[i] = c[i]
  BY <1>1, <1>2, <1>3, <1>5
<1>9. Under(c, d) /\ Under(p, c)
  BY <1>1, <1>6, <1>7, <1>8, UnderIs
<1> QED
  BY <1>4, <1>5, <1>9 DEF c
-----------------------------------------------------------------------------
(* Trees and the ends of links                                             *)

\* What is in u is in t: some of t may have vanished.
Shrunk(t, u) == \A p \in Path : u[p] = t[p] \/ u[p] = Missing

Removed(t, p) == [q \in Path |-> IF Under(q, p) THEN Missing ELSE t[q]]

LEMMA RemovedIsTree ==
  ASSUME NEW t, IsTree(t), NEW p \in Path
  PROVE  IsTree(Removed(t, p)) /\ Shrunk(t, Removed(t, p))
<1> DEFINE u == Removed(t, p)
<1>1. \A q \in Path : u[q] = IF Under(q, p) THEN Missing ELSE t[q]
  BY DEF Removed
<1>2. Missing \in Entry /\ Missing.kind = "none"
  BY DEF Missing, Entry
<1>3. u \in [Path -> Entry]
  BY <1>2 DEF IsTree, Removed
<1>4. ASSUME NEW q \in Path, u[q].kind = "link" PROVE u[q].to \in Path
  BY <1>1, <1>2, <1>4 DEF IsTree
<1>5. ASSUME NEW a \in Path, NEW b \in Path, u[a].kind # "none", Under(a, b), a # b
      PROVE  u[b].kind = "dir"
  <2>1. ~Under(a, p) /\ u[a] = t[a]
    BY <1>1, <1>2, <1>5
  <2>2. ~Under(b, p)
    BY <2>1, <1>5, UnderTransitive, PathsAreSequences
  <2>3. t[b].kind = "dir"
    BY <1>5, <2>1 DEF IsTree
  <2> QED
    BY <1>1, <2>2, <2>3
<1>6. Shrunk(t, u)
  BY <1>1 DEF Shrunk
<1> HIDE DEF u
<1> QED
  BY <1>3, <1>4, <1>5, <1>6 DEF IsTree, u

\* A link leads to the end of the chain it is in.
LEMMA EndOfTarget ==
  ASSUME NEW t, NEW x \in Links(t), NEW q \in Path, IsEnd(t, x, q), t[x].to \in Links(t)
  PROVE  IsEnd(t, t[x].to, q)
<1> DEFINE y == t[x].to
<1>1. /\ t[q].kind \notin {"none", "link"} /\ x # q /\ y # q
      /\ \A S \in SUBSET Links(t) :
           x \in S => \E z \in S : t[z].to \in {q} \cup (Links(t) \ S)
  BY DEF IsEnd, Links
<1>2. ASSUME NEW S \in SUBSET Links(t), y \in S
      PROVE  \E z \in S : t[z].to \in {q} \cup (Links(t) \ S)
  <2>1. PICK z \in S \cup {x} : t[z].to \in {q} \cup (Links(t) \ (S \cup {x}))
    <3>1. S \cup {x} \in SUBSET Links(t) /\ x \in S \cup {x}
      OBVIOUS
    <3> QED
      BY <1>1, <3>1
  <2>2. z # x
    BY <1>1, <1>2, <2>1
  <2> QED
    BY <2>1, <2>2
<1> HIDE DEF y
<1> QED
  BY <1>1, <1>2 DEF IsEnd, y

\* A chain of links has one end.
LEMMA EndIsUnique ==
  ASSUME NEW t, NEW p \in Path, NEW q \in Path, NEW r \in Path,
         IsEnd(t, p, q), IsEnd(t, p, r)
  PROVE  q = r
<1>1. SUFFICES ASSUME q # r PROVE FALSE
  OBVIOUS
<1>2. /\ t[q].kind \notin {"none", "link"} /\ t[r].kind \notin {"none", "link"}
      /\ p # q => p \in Links(t)
      /\ p # r => p \in Links(t) /\ \A S \in SUBSET Links(t) :
           p \in S => \E x \in S : t[x].to \in {r} \cup (Links(t) \ S)
  BY DEF IsEnd
<1>3. q \notin Links(t) /\ r \notin Links(t)
  BY <1>2 DEF Links
<1>4. p \in Links(t) /\ p # r
  BY <1>1, <1>2, <1>3
<1> DEFINE S == {x \in Links(t) : IsEnd(t, x, q)}
<1>5. PICK x \in S : t[x].to \in {r} \cup (Links(t) \ S)
  <2>1. S \in SUBSET Links(t) /\ p \in S
    BY <1>4
  <2> QED
    BY <1>2, <1>4, <2>1
<1>6. CASE t[x].to = r
  <2>1. \E z \in {x} : t[z].to \in {q} \cup (Links(t) \ {x})
    <3>1. x # q /\ {x} \in SUBSET Links(t)
      BY <1>3
    <3> QED
      BY <3>1 DEF IsEnd
  <2> QED
    BY <1>1, <1>3, <1>6, <2>1
<1>7. CASE t[x].to \in Links(t) \ S
  BY <1>7, EndOfTarget
<1> QED
  BY <1>5, <1>6, <1>7

LEMMA CanonIsEnd ==
  ASSUME NEW t, NEW p \in Path
  PROVE  /\ CanonIn(t, p) \in Path \cup {NoPath}
         /\ CanonIn(t, p) # NoPath => IsEnd(t, p, CanonIn(t, p))
         /\ \A q \in Path : IsEnd(t, p, q) => CanonIn(t, p) = q
<1>1. CASE \E q \in Path : IsEnd(t, p, q)
  <2>1. PICK q \in Path : IsEnd(t, p, q)
    BY <1>1
  <2>2. CanonIn(t, p) = CHOOSE e \in Path : IsEnd(t, p, e)
    BY <1>1 DEF CanonIn
  <2>3. CanonIn(t, p) \in Path /\ IsEnd(t, p, CanonIn(t, p))
    BY <2>1, <2>2
  <2> QED
    BY <2>3, EndIsUnique
<1>2. CASE ~\E q \in Path : IsEnd(t, p, q)
  BY <1>2 DEF CanonIn
<1> QED
  BY <1>1, <1>2

\* What is there and no link is its own canonical path.
LEMMA CanonOfEntry ==
  ASSUME NEW t, NEW p \in Path, t[p].kind \notin {"none", "link"}
  PROVE  CanonIn(t, p) = p
BY CanonIsEnd DEF IsEnd

\* When entries vanish, a chain of links keeps its end or has none any more.
LEMMA CanonShrinks ==
  ASSUME NEW t, NEW u, Shrunk(t, u), NEW p \in Path
  PROVE  CanonIn(u, p) \in {CanonIn(t, p), NoPath}
<1>1. SUFFICES ASSUME NEW q \in Path, IsEnd(u, p, q) PROVE IsEnd(t, p, q)
  BY CanonIsEnd
<1>2. Missing.kind = "none"
  BY DEF Missing
<1>3. /\ \A x \in Links(u) : x \in Links(t) /\ u[x] = t[x]
      /\ u[q].kind \notin {"none", "link"} /\ t[q] = u[q]
  BY <1>1, <1>2 DEF Shrunk, Links, IsEnd
<1>4. ASSUME p # q, NEW S \in SUBSET Links(t), p \in S
      PROVE  \E x \in S : t[x].to \in {q} \cup (Links(t) \ S)
  <2> DEFINE kept == S \cap Links(u)
  <2>1. p \in kept /\ kept \in SUBSET Links(u)
    BY <1>1, <1>4 DEF IsEnd
  <2>2. PICK x \in kept : u[x].to \in {q} \cup (Links(u) \ kept)
    BY <1>1, <1>4, <2>1 DEF IsEnd
  <2> QED
    BY <1>3, <2>2
<1>5. p # q => p \in Links(t)
  BY <1>1, <1>3 DEF IsEnd
<1> QED
  BY <1>3, <1>4, <1>5 DEF IsEnd
-----------------------------------------------------------------------------
(* The inductive invariant                                                 *)

Frame == [abs : Path, rel : Seq(Name), seen : SUBSET Path,
          at : {"stat", "readlink", "followed", "opendir", "list"}]
Found == [source : Path, rel : Seq(Name), kind : {"dir", "file", "link"}]
Line == [item : Found, src : Nat, dst : Seq(Name)]

\* The types, with those of the calls, the items and the entries.
TypeInv ==
  /\ IsTree(tree)
  /\ sources \in SourceLists /\ opts \in Options
  /\ ix \in 1 .. (Len(sources) + 1) /\ root \in Path \cup {NoPath}
  /\ stack \in Seq(Frame)
  /\ scan \in {"running", "over", "killed"}
  /\ plan \in {"next", "reading", "ok", "error", "killed"}
  /\ chan \in Seq(Found \cup {Error}) /\ entries \in Seq(Line)
  /\ changes \in 0 .. MaxChanges /\ errsSent \in Nat
  /\ plan = "reading" => ix <= Len(sources) /\ root \in Path

\* Who is at work when, and where an error is: in the channel, until the
\* planning thread takes it and gives up.
FlowInv ==
  /\ scan = "over" => stack = <<>>
  /\ plan # "reading" => chan = <<>>
  /\ plan \in {"next", "ok"} => scan = "over" /\ errsSent = 0
  /\ plan = "reading" => (errsSent # 0 <=> \E i \in DOMAIN chan : chan[i] = Error)
  /\ plan = "ok" => ix = Len(sources) + 1
  /\ plan = "killed" => scan = "killed"

\* Without links to follow, the scanner is where its relative path says, the
\* source leads where it did, and so do all items and entries.
PlacedInv == opts.symlinks # "follow" =>
  /\ \A f \in Frames : f.abs = root \o f.rel /\ f.at \in {"stat", "opendir", "list"}
  /\ \A i \in DOMAIN chan : chan[i] # Error => chan[i].source = root \o chan[i].rel
  /\ plan = "reading" => Canon(sources[ix]) \in {root, NoPath}
  /\ \A i \in DOMAIN entries : entries[i].dst = entries[i].item.rel

\* What is not under the root is no directory, or no longer one.
StaysInv == ~opts.escape =>
  \A f \in Frames :
    f.at = "list" \/ (f.at \in {"stat", "opendir"} /\ Kind(f.abs) = "dir") => Under(f.abs, root)

LEMMA Constants ==
  /\ sources \in SourceLists => sources \in Seq(Path) /\ Len(sources) \in Nat \ {0}
  /\ opts \in Options => /\ opts.symlinks \in {"preserve", "follow", "skip"}
                         /\ opts.escape \in BOOLEAN
<1>1. ASSUME sources \in SourceLists PROVE sources \in Seq(Path) /\ Len(sources) \in Nat \ {0}
  BY <1>1, ScanAssumption, EmptySeq
<1>2. ASSUME opts \in Options
      PROVE  opts.symlinks \in {"preserve", "follow", "skip"} /\ opts.escape \in BOOLEAN
  BY <1>2, ScanAssumption
<1> QED
  BY <1>1, <1>2

LEMMA SourceIsPath == TypeInv /\ ix <= Len(sources) => sources[ix] \in Path
<1> SUFFICES ASSUME TypeInv, ix <= Len(sources) PROVE sources[ix] \in Path
  OBVIOUS
<1>1. sources \in Seq(Path) /\ ix \in 1 .. Len(sources)
  BY Constants DEF TypeInv
<1> QED
  BY <1>1, ElementOfSeq

LEMMA ErrorIsNotFound == Error \notin Found /\ Error # Item("file")
<1>1. NoPath \notin Path
  BY ScanAssumption DEF NoPath
<1> QED
  BY <1>1 DEF Error, Found, Item
-----------------------------------------------------------------------------
(* The scanner's calls                                                     *)

LEMMA BeforeLast ==
  ASSUME NEW n \in Nat \ {0}
  PROVE  n \in 1 .. n /\ \A i \in 1 .. n - 1 : i \in 1 .. n /\ i # n
OBVIOUS

LEMMA TopIsFrame ==
  ASSUME stack \in Seq(Frame), stack # <<>>
  PROVE  /\ Len(stack) \in Nat \ {0} /\ DOMAIN stack = 1 .. Len(stack)
         /\ Top \in Frame /\ Top \in Frames /\ Top = stack[Len(stack)]
<1>1. Len(stack) \in Nat \ {0} /\ DOMAIN stack = 1 .. Len(stack)
  BY EmptySeq, LenProperties
<1>2. stack[Len(stack)] \in Frame
  BY <1>1, ElementOfSeq
<1> QED
  BY <1>1, <1>2 DEF Top, Frames

LEMMA PopIs ==
  ASSUME stack \in Seq(Frame), stack # <<>>, Pop
  PROVE  /\ stack' \in Seq(Frame) /\ Len(stack') = Len(stack) - 1
         /\ \A i \in 1 .. Len(stack) - 1 : stack'[i] = stack[i]
         /\ Frames' \subseteq Frames
<1>1. Len(stack) \in Nat \ {0} /\ DOMAIN stack = 1 .. Len(stack)
  BY TopIsFrame
<1>2. \A i \in 1 .. Len(stack) - 1 : stack[i] \in Frame
  BY <1>1, ElementOfSeq
<1>3. /\ stack' \in Seq(Frame) /\ Len(stack') = Len(stack) - 1
      /\ \A i \in 1 .. Len(stack) - 1 : stack'[i] = stack[i]
  BY <1>1, <1>2, SubSeqProperties DEF Pop
<1>4. DOMAIN stack' = 1 .. Len(stack) - 1
  BY <1>3, LenProperties
<1> QED
  BY <1>1, <1>3, <1>4 DEF Frames

\* The top frame is replaced, and nothing else.
LEMMA EditIs ==
  ASSUME stack \in Seq(Frame), stack # <<>>, NEW f \in Frame,
         stack' = [stack EXCEPT ![Len(stack)] = f]
  PROVE  /\ stack' \in Seq(Frame) /\ Len(stack') = Len(stack)
         /\ \A i \in 1 .. Len(stack) - 1 : stack'[i] = stack[i]
         /\ stack'[Len(stack)] = f
         /\ Frames' \subseteq Frames \cup {f}
<1>1. Len(stack) \in Nat \ {0} /\ DOMAIN stack = 1 .. Len(stack)
  BY TopIsFrame
<1>2. /\ stack' \in Seq(Frame) /\ Len(stack') = Len(stack)
      /\ \A i \in 1 .. Len(stack) : stack'[i] = IF i = Len(stack) THEN f ELSE stack[i]
  BY <1>1, ExceptSeq
<1>3. DOMAIN stack' = 1 .. Len(stack)
  BY <1>2, LenProperties
<1>4. stack'[Len(stack)] = f /\ \A i \in 1 .. Len(stack) - 1 : stack'[i] = stack[i]
  BY ONLY <1>1, <1>2, BeforeLast
<1>5. \A i \in 1 .. Len(stack) : stack'[i] = f \/ (i \in DOMAIN stack /\ stack'[i] = stack[i])
  BY <1>1, <1>2
<1>6. Frames' \subseteq Frames \cup {f}
  BY <1>3, <1>5 DEF Frames
<1> QED
  BY <1>2, <1>4, <1>6

LEMMA RecurseIs ==
  ASSUME stack \in Seq(Frame), stack # <<>>, NEW f \in Frame, NEW g \in Frame,
         Recurse(f, g)
  PROVE  /\ stack' \in Seq(Frame) /\ Len(stack') = Len(stack) + 1
         /\ \A i \in 1 .. Len(stack) - 1 : stack'[i] = stack[i]
         /\ stack'[Len(stack)] = f /\ stack'[Len(stack) + 1] = g
         /\ Frames' \subseteq Frames \cup {f, g}
<1>1. Len(stack) \in Nat \ {0} /\ DOMAIN stack = 1 .. Len(stack)
  BY TopIsFrame
<1> DEFINE s == SubSeq(stack, 1, Len(stack) - 1)
           e == <<f, g>>
<1>2. \A i \in 1 .. Len(stack) - 1 : stack[i] \in Frame
  BY <1>1, ElementOfSeq
<1>3. /\ s \in Seq(Frame) /\ Len(s) = Len(stack) - 1
      /\ \A i \in 1 .. Len(stack) - 1 : s[i] = stack[i]
  BY <1>1, <1>2, SubSeqProperties
<1>4. e \in Seq(Frame) /\ Len(e) = 2 /\ e[1] = f /\ e[2] = g
  OBVIOUS
<1>5. stack' = s \o e
  BY DEF Recurse
<1> HIDE DEF s, e
<1>6. /\ stack' \in Seq(Frame) /\ Len(stack') = Len(stack) + 1
      /\ \A i \in 1 .. Len(stack) + 1 :
           stack'[i] = IF i <= Len(stack) - 1 THEN s[i] ELSE e[i - (Len(stack) - 1)]
  <2>1. /\ s \o e \in Seq(Frame) /\ Len(s \o e) = Len(s) + Len(e)
        /\ \A i \in 1 .. Len(s) + Len(e) :
             (s \o e)[i] = IF i <= Len(s) THEN s[i] ELSE e[i - Len(s)]
    BY <1>3, <1>4, ConcatProperties
  <2>2. Len(s) + Len(e) = Len(stack) + 1
    BY <1>1, <1>3, <1>4
  <2> QED
    BY <1>3, <1>5, <2>1, <2>2
<1>7. stack'[Len(stack)] = f /\ stack'[Len(stack) + 1] = g
  BY <1>1, <1>4, <1>6
<1>8. ASSUME NEW i \in 1 .. Len(stack) - 1
      PROVE  stack'[i] = stack[i]
  <2>1. i \in 1 .. Len(stack) + 1 /\ i <= Len(stack) - 1
    BY <1>1
  <2>2. stack'[i] = s[i]
    BY <1>6, <2>1
  <2> QED
    BY <1>3, <2>2
<1>9. DOMAIN stack' = 1 .. Len(stack) + 1
  BY <1>6, LenProperties
<1>10. Frames' \subseteq Frames \cup {f, g}
  BY <1>1, <1>7, <1>8, <1>9 DEF Frames
<1> QED
  BY <1>6, <1>7, <1>8, <1>10
-----------------------------------------------------------------------------
(* Where a walk is, and what it has still to find                          *)

\* What a call has still to find.
Yet(f) ==
  {p \in Expected(f.abs) : /\ f.at = "stat" \/ p # f.abs
                           /\ f.at = "list" => ChildOn(p, f.abs) \notin f.seen}
Awaited == UNION {Yet(f) : f \in Frames}

\* What is in the channel, and what a source has in the plan.
Coming == {chan[i].source : i \in DOMAIN chan}
Planned(s) == {entries[i].item.source : i \in {k \in DOMAIN entries : entries[k].src = s}}

Undisturbed == changes = 0 /\ errsSent = 0 /\ opts.symlinks # "follow"

\* Nothing is found twice.
Apart == \A i, k \in DOMAIN stack : i # k => Yet(stack[i]) \cap Yet(stack[k]) = {}
OnceInv ==
  /\ \A i, k \in DOMAIN entries :
       entries[i].src = entries[k].src /\ entries[i].item.source = entries[k].item.source => i = k
  /\ \A i, k \in DOMAIN chan : chan[i].source = chan[k].source => i = k
  /\ Planned(ix) \cap Coming = {}
  /\ (Planned(ix) \cup Coming) \cap Awaited = {}
  /\ Apart

\* No entry is of a source that is still to come, and what is not yet listed has
\* nothing seen.
Begun == \A i \in DOMAIN entries :
  entries[i].src \in 1 .. ix /\ (plan \in {"next", "ok"} => entries[i].src # ix)
Fresh == \A f \in Frames : f.at \in {"stat", "opendir"} => f.seen = {}

\* The entries of a source that is through are all there are, and each is where its
\* destination says; what there is in the one being read is planned, in the channel
\* or awaited, and only that.
Through == \A s \in 1 .. ix - 1 : Planned(s) = Expected(Canon(sources[s]))
FromRoots == \A i \in DOMAIN entries :
  entries[i].item.source = Canon(sources[entries[i].src]) \o entries[i].dst
Covered == plan = "reading" =>
  root = Canon(sources[ix]) /\ Expected(root) = Planned(ix) \cup Coming \cup Awaited

CompleteInv ==
  /\ Begun /\ Fresh
  /\ Undisturbed => Through /\ FromRoots /\ Covered /\ (plan \notin {"error", "killed"} => OnceInv)
-----------------------------------------------------------------------------
(* What the steps of the scanner do to the walk                            *)

\* A frame may become these, on top of what was called before it.
LEMMA FrameAt ==
  ASSUME NEW f \in Frame, NEW w \in {"stat", "readlink", "followed", "opendir", "list"},
         NEW S \in SUBSET Path
  PROVE  [f EXCEPT !.at = w] \in Frame /\ [f EXCEPT !.seen = S] \in Frame
BY DEF Frame

LEMMA CallIsFrame ==
  ASSUME NEW p \in Path, NEW r \in Seq(Name)
  PROVE  /\ Call(p, r) \in Frame
         /\ Call(p, r).abs = p /\ Call(p, r).rel = r
         /\ Call(p, r).at = "stat" /\ Call(p, r).seen = {}
BY DEF Frame, Call

LEMMA GotoIs ==
  ASSUME stack \in Seq(Frame), stack # <<>>,
         NEW w \in {"stat", "readlink", "followed", "opendir", "list"}, Goto(w)
  PROVE  LET f == [Top EXCEPT !.at = w] IN
         /\ f \in Frame
         /\ stack' \in Seq(Frame) /\ Len(stack') = Len(stack)
         /\ \A i \in 1 .. Len(stack) - 1 : stack'[i] = stack[i]
         /\ stack'[Len(stack)] = f
         /\ Frames' \subseteq Frames \cup {f}
<1> DEFINE f == [Top EXCEPT !.at = w]
<1>1. Top \in Frame /\ Top = stack[Len(stack)]
  BY TopIsFrame
<1>2. f \in Frame
  BY <1>1, FrameAt
<1>3. stack' = [stack EXCEPT ![Len(stack)] = f]
  BY <1>1 DEF Goto
<1> HIDE DEF f
<1>4. /\ stack' \in Seq(Frame) /\ Len(stack') = Len(stack)
      /\ \A i \in 1 .. Len(stack) - 1 : stack'[i] = stack[i]
      /\ stack'[Len(stack)] = f
      /\ Frames' \subseteq Frames \cup {f}
  BY <1>2, <1>3, EditIs
<1> QED
  BY <1>2, <1>4 DEF f

LEMMA AbortIs ==
  ASSUME Abort PROVE stack' = <<>> /\ Frames' = {} /\ Len(stack') = 0 /\ Send(Error)
BY DEF Abort, Frames

\* A found item is no error, and is sent to a plan that is being made.
LEMMA ItemIsFound ==
  ASSUME Top \in Frame, NEW k \in {"dir", "file", "link"}
  PROVE  Item(k) \in Found /\ Item(k) # Error /\ Item(k).source = Top.abs /\ Item(k).rel = Top.rel
<1>1. Item(k) \in Found /\ Item(k).source = Top.abs /\ Item(k).rel = Top.rel
  BY DEF Item, Frame, Found
<1> QED
  BY <1>1, ErrorIsNotFound

LEMMA SendIs ==
  ASSUME chan \in Seq(Found \cup {Error}), errsSent \in Nat, NEW m \in Found \cup {Error}, Send(m)
  PROVE  /\ chan' \in Seq(Found \cup {Error}) /\ errsSent' \in Nat
         /\ plan # "reading" => chan' = chan
         /\ plan = "reading" => /\ DOMAIN chan' = DOMAIN chan \cup {Len(chan) + 1}
                                /\ Len(chan) + 1 \notin DOMAIN chan
                                /\ chan'[Len(chan) + 1] = m
                                /\ \A i \in DOMAIN chan : chan'[i] = chan[i]
         /\ m = Error => errsSent' = errsSent + 1
         /\ m # Error => errsSent' = errsSent
<1>1. DOMAIN chan = 1 .. Len(chan) /\ Len(chan) \in Nat
  BY LenProperties
<1>2. CASE plan = "reading"
  <2>1. chan' = Append(chan, m)
    BY <1>2 DEF Send
  <2>2. /\ chan' \in Seq(Found \cup {Error}) /\ Len(chan') = Len(chan) + 1
        /\ chan'[Len(chan) + 1] = m
        /\ \A i \in 1 .. Len(chan) : chan'[i] = chan[i]
    BY <2>1, AppendProperties
  <2>3. DOMAIN chan' = 1 .. Len(chan')
    BY <2>2, LenProperties
  <2> QED
    BY <1>1, <1>2, <2>2, <2>3 DEF Send
<1>3. CASE plan # "reading"
  BY <1>3 DEF Send
<1> QED
  BY <1>2, <1>3
-----------------------------------------------------------------------------
(* The types, and who is at work when                                      *)

Step == Stat \/ FollowLink \/ FollowReturns \/ OpenDir \/ ListDir \/ BadEntry
Says == Quiet \/ \E m \in Found \cup {Error} : Send(m)
Unmoved == UNCHANGED <<tree, sources, opts, ix, root, scan, plan, entries>>

LEMMA StatMoves ==
  ASSUME TypeInv, Stat
  PROVE  /\ stack # <<>> /\ Top.at = "stat" /\ Top \in Frame /\ scan = "running"
         /\ Unmoved /\ changes' = changes
         /\ \/ Pop /\ Send(Error)
            \/ Kind(Top.abs) = "file" /\ Pop /\ Send(Item("file"))
            \/ Kind(Top.abs) = "dir" /\ Goto("opendir") /\ Send(Item("dir"))
            \/ Kind(Top.abs) = "link" /\ opts.symlinks = "preserve" /\ Pop /\ Send(Item("link"))
            \/ Kind(Top.abs) = "link" /\ opts.symlinks = "follow" /\ Goto("readlink") /\ Quiet
            \/ /\ Kind(Top.abs) = "special" \/ (Kind(Top.abs) = "link" /\ opts.symlinks = "skip")
               /\ Pop /\ Quiet
<1>1. stack # <<>> /\ Top.at = "stat" /\ scan = "running" /\ Unmoved /\ changes' = changes
  BY DEF Stat, At, walkVars, Unmoved
<1>2. Top \in Frame
  BY <1>1, TopIsFrame DEF TypeInv
<1>3. opts.symlinks \in {"preserve", "follow", "skip"}
  BY Constants DEF TypeInv
<1> DEFINE Link == CASE opts.symlinks = "skip"     -> Pop /\ Quiet
                     [] opts.symlinks = "preserve" -> Pop /\ Send(Item("link"))
                     [] opts.symlinks = "follow"   -> Goto("readlink") /\ Quiet
<1>4. \/ Pop /\ Send(Error)
      \/ Kind(Top.abs) = "special" /\ Pop /\ Quiet
      \/ Kind(Top.abs) = "file" /\ Pop /\ Send(Item("file"))
      \/ Kind(Top.abs) = "dir" /\ Goto("opendir") /\ Send(Item("dir"))
      \/ Kind(Top.abs) = "link" /\ Link
  BY DEF Stat, Seen
<1>5. Link => \/ opts.symlinks = "skip" /\ Pop /\ Quiet
              \/ opts.symlinks = "preserve" /\ Pop /\ Send(Item("link"))
              \/ opts.symlinks = "follow" /\ Goto("readlink") /\ Quiet
  <2>1. CASE opts.symlinks = "skip"
    BY <2>1
  <2>2. CASE opts.symlinks = "preserve"
    BY <2>2
  <2>3. CASE opts.symlinks = "follow"
    BY <2>3
  <2> QED
    BY <1>3, <2>1, <2>2, <2>3
<1> HIDE DEF Link
<1>6. CASE Kind(Top.abs) = "link" /\ Link
  BY <1>1, <1>2, <1>5, <1>6
<1>7. CASE Pop /\ Send(Error)
  BY <1>1, <1>2, <1>7, Zenon
<1>8. CASE Kind(Top.abs) = "special" /\ Pop /\ Quiet
  BY <1>1, <1>2, <1>8, Zenon
<1>9. CASE Kind(Top.abs) = "file" /\ Pop /\ Send(Item("file"))
  BY <1>1, <1>2, <1>9, Zenon
<1>10. CASE Kind(Top.abs) = "dir" /\ Goto("opendir") /\ Send(Item("dir"))
  BY <1>1, <1>2, <1>10, Zenon
<1> QED
  BY <1>4, <1>6, <1>7, <1>8, <1>9, <1>10

LEMMA StatIsStep ==
  ASSUME TypeInv, Stat PROVE stack' \in Seq(Frame) /\ Says
<1>1. /\ stack \in Seq(Frame) /\ stack # <<>> /\ Top \in Frame
      /\ \/ Pop
         \/ Goto("opendir")
         \/ Goto("readlink")
      /\ Quiet \/ Send(Error) \/ (\E k \in {"dir", "file", "link"} : Send(Item(k)))
  BY StatMoves DEF TypeInv
<1>2. stack' \in Seq(Frame)
  BY <1>1, PopIs, GotoIs
<1>3. Says
  BY <1>1, ItemIsFound DEF Says
<1> QED
  BY <1>2, <1>3

LEMMA FollowMoves ==
  ASSUME TypeInv, FollowLink
  PROVE  /\ stack # <<>> /\ Top.at = "readlink" /\ Top \in Frame /\ scan = "running"
         /\ Unmoved /\ changes' = changes
         /\ \/ Abort
            \/ Pop /\ Quiet
            \/ LET target == tree[Top.abs].to IN
               /\ Kind(Top.abs) = "link" /\ target \in Path
               /\ ~opts.escape /\ Canon(target) # NoPath => Under(Canon(target), root)
               /\ Recurse([Top EXCEPT !.at = "followed"], Call(target, Top.rel))
               /\ Quiet
<1>1. stack # <<>> /\ Top.at = "readlink" /\ scan = "running" /\ Unmoved /\ changes' = changes
  BY DEF FollowLink, At, walkVars, Unmoved
<1>2. Top \in Frame
  BY <1>1, TopIsFrame DEF TypeInv
<1>3. Kind(Top.abs) = "link" => tree[Top.abs].to \in Path
  BY <1>2 DEF TypeInv, IsTree, Kind, Frame
<1> QED
  BY <1>1, <1>2, <1>3 DEF FollowLink

LEMMA FollowIsStep ==
  ASSUME TypeInv, FollowLink PROVE stack' \in Seq(Frame) /\ Says
<1>1. stack \in Seq(Frame) /\ stack # <<>> /\ Top \in Frame
  BY FollowMoves DEF TypeInv
<1>2. CASE Abort
  BY <1>2, EmptySeq DEF Abort, Says
<1>3. CASE Pop /\ Quiet
  BY <1>1, <1>3, PopIs DEF Says
<1>4. ASSUME NEW p \in Path, Recurse([Top EXCEPT !.at = "followed"], Call(p, Top.rel)), Quiet
      PROVE  stack' \in Seq(Frame) /\ Says
  <2>1. [Top EXCEPT !.at = "followed"] \in Frame
    BY <1>1, FrameAt
  <2>2. Call(p, Top.rel) \in Frame
    BY <1>1, CallIsFrame DEF Frame
  <2> QED
    BY <1>1, <1>4, <2>1, <2>2, RecurseIs DEF Says
<1> QED
  BY <1>2, <1>3, <1>4, FollowMoves

LEMMA ReturnMoves ==
  ASSUME TypeInv, FollowReturns
  PROVE  /\ stack # <<>> /\ Top.at = "followed" /\ Top \in Frame /\ scan = "running"
         /\ Unmoved /\ changes' = changes /\ Pop /\ Quiet
<1>1. /\ stack # <<>> /\ Top.at = "followed" /\ scan = "running"
      /\ Unmoved /\ changes' = changes /\ Pop /\ Quiet
  BY DEF FollowReturns, At, walkVars, Unmoved
<1> QED
  BY <1>1, TopIsFrame DEF TypeInv

LEMMA OpenMoves ==
  ASSUME TypeInv, OpenDir
  PROVE  /\ stack # <<>> /\ Top.at = "opendir" /\ Top \in Frame /\ scan = "running"
         /\ Unmoved /\ changes' = changes
         /\ \/ Kind(Top.abs) = "dir" /\ Goto("list") /\ Quiet
            \/ Abort
<1>1. /\ stack # <<>> /\ Top.at = "opendir" /\ scan = "running"
      /\ Unmoved /\ changes' = changes
      /\ (Kind(Top.abs) = "dir" /\ Goto("list") /\ Quiet) \/ Abort
  BY DEF OpenDir, At, walkVars, Unmoved
<1> QED
  BY <1>1, TopIsFrame DEF TypeInv

LEMMA OpenIsStep ==
  ASSUME TypeInv, OpenDir PROVE stack' \in Seq(Frame) /\ Says
<1>1. stack \in Seq(Frame) /\ stack # <<>> /\ ((Goto("list") /\ Quiet) \/ Abort)
  BY OpenMoves DEF TypeInv
<1>2. CASE Goto("list") /\ Quiet
  BY <1>1, <1>2, GotoIs DEF Says
<1>3. CASE Abort
  BY <1>3, EmptySeq DEF Abort, Says
<1> QED
  BY <1>1, <1>2, <1>3

LEMMA ListMoves ==
  ASSUME TypeInv, ListDir
  PROVE  /\ stack # <<>> /\ Top.at = "list" /\ Top \in Frame /\ scan = "running"
         /\ Unmoved /\ changes' = changes /\ Quiet
         /\ \/ Children(Top.abs) \subseteq Top.seen /\ Pop
            \/ \E c \in Children(Top.abs) \ Top.seen :
                 Recurse([Top EXCEPT !.seen = Top.seen \cup {c}],
                         Call(c, Append(Top.rel, c[Len(c)])))
<1>1. /\ stack # <<>> /\ Top.at = "list" /\ scan = "running"
      /\ Unmoved /\ changes' = changes /\ Quiet
  BY DEF ListDir, At, walkVars, Unmoved
<1>2. Top \in Frame
  BY <1>1, TopIsFrame DEF TypeInv
<1> QED
  BY <1>1, <1>2 DEF ListDir

LEMMA ChildFrames ==
  ASSUME Top \in Frame, NEW c \in Children(Top.abs)
  PROVE  /\ c \in Path /\ Len(c) = Len(Top.abs) + 1 /\ Under(c, Top.abs)
         /\ [Top EXCEPT !.seen = Top.seen \cup {c}] \in Frame
         /\ Append(Top.rel, c[Len(c)]) \in Seq(Name)
         /\ Call(c, Append(Top.rel, c[Len(c)])) \in Frame
<1>1. /\ c \in Path /\ Len(c) = Len(Top.abs) + 1 /\ Under(c, Top.abs)
      /\ Top.abs \in Path /\ Top.rel \in Seq(Name) /\ Top.seen \in SUBSET Path
  BY DEF Children, Frame
<1>2. [Top EXCEPT !.seen = Top.seen \cup {c}] \in Frame
  BY <1>1, FrameAt
<1>3. Append(Top.rel, c[Len(c)]) \in Seq(Name)
  BY <1>1, ChildIs, AppendProperties
<1> QED
  BY <1>1, <1>2, <1>3, CallIsFrame

LEMMA ListIsStep ==
  ASSUME TypeInv, ListDir PROVE stack' \in Seq(Frame) /\ Says
<1>1. /\ stack \in Seq(Frame) /\ stack # <<>> /\ Top \in Frame /\ Quiet
      /\ \/ Pop
         \/ \E c \in Children(Top.abs) :
              Recurse([Top EXCEPT !.seen = Top.seen \cup {c}],
                      Call(c, Append(Top.rel, c[Len(c)])))
  BY ListMoves DEF TypeInv
<1>2. CASE Pop
  BY <1>1, <1>2, PopIs DEF Says
<1>3. ASSUME NEW c \in Children(Top.abs),
             Recurse([Top EXCEPT !.seen = Top.seen \cup {c}],
                     Call(c, Append(Top.rel, c[Len(c)])))
      PROVE  stack' \in Seq(Frame)
  BY <1>1, <1>3, ChildFrames, RecurseIs
<1> QED
  BY <1>1, <1>2, <1>3 DEF Says

LEMMA BadMoves ==
  ASSUME TypeInv, BadEntry
  PROVE  /\ stack # <<>> /\ Top.at = "list" /\ Top \in Frame /\ scan = "running"
         /\ Unmoved /\ changes' = changes + 1 /\ changes' \in 0 .. MaxChanges /\ Send(Error)
         /\ \E c \in Children(Top.abs) :
              LET f == [Top EXCEPT !.seen = Top.seen \cup {c}] IN
              f \in Frame /\ stack' = [stack EXCEPT ![Len(stack)] = f]
<1>1. /\ stack # <<>> /\ Top.at = "list" /\ scan = "running" /\ changes < MaxChanges
      /\ Unmoved /\ changes' = changes + 1 /\ Send(Error)
  BY DEF BadEntry, At, walkVars, Unmoved
<1>2. Top \in Frame /\ Top = stack[Len(stack)]
  BY <1>1, TopIsFrame DEF TypeInv
<1>3. PICK c \in Children(Top.abs) : stack' = [stack EXCEPT ![Len(stack)].seen = @ \cup {c}]
  BY DEF BadEntry
<1>4. stack' = [stack EXCEPT ![Len(stack)] = [Top EXCEPT !.seen = Top.seen \cup {c}]]
  BY <1>2, <1>3
<1>5. [Top EXCEPT !.seen = Top.seen \cup {c}] \in Frame
  BY <1>2, ChildFrames
<1>6. changes' \in 0 .. MaxChanges
  BY <1>1, ScanAssumption DEF TypeInv
<1> QED
  BY <1>1, <1>2, <1>4, <1>5, <1>6

LEMMA StepMoves ==
  ASSUME TypeInv, Step
  PROVE  /\ stack # <<>> /\ scan = "running" /\ stack' \in Seq(Frame)
         /\ Unmoved /\ Says /\ changes' \in 0 .. MaxChanges
<1>1. changes \in 0 .. MaxChanges /\ stack \in Seq(Frame)
  BY DEF TypeInv
<1>2. CASE Stat
  BY <1>1, <1>2, StatMoves, StatIsStep
<1>3. CASE FollowLink
  BY <1>1, <1>3, FollowMoves, FollowIsStep
<1>4. CASE FollowReturns
  BY <1>1, <1>4, ReturnMoves, PopIs DEF Says
<1>5. CASE OpenDir
  BY <1>1, <1>5, OpenMoves, OpenIsStep
<1>6. CASE ListDir
  BY <1>1, <1>6, ListMoves, ListIsStep
<1>7. CASE BadEntry
  BY <1>1, <1>7, BadMoves, EditIs DEF Says
<1> QED
  BY <1>2, <1>3, <1>4, <1>5, <1>6, <1>7 DEF Step

\* Sending and receiving leave an error in the channel if there was one.
LEMMA StepKeepsFlow ==
  ASSUME TypeInv, FlowInv, Step PROVE TypeInv' /\ FlowInv'
<1>1. /\ stack # <<>> /\ scan = "running" /\ stack' \in Seq(Frame)
      /\ Unmoved /\ Says /\ changes' \in 0 .. MaxChanges
  BY StepMoves
<1>2. chan \in Seq(Found \cup {Error}) /\ errsSent \in Nat
  BY DEF TypeInv
<1>3. /\ chan' \in Seq(Found \cup {Error}) /\ errsSent' \in Nat
      /\ plan # "reading" => chan' = chan
      /\ plan = "reading" /\ FlowInv =>
           (errsSent' # 0 <=> \E i \in DOMAIN chan' : chan'[i] = Error)
  <2>1. CASE Quiet
    BY <1>2, <2>1 DEF Quiet, FlowInv
  <2>2. ASSUME NEW m \in Found \cup {Error}, Send(m)
        PROVE  /\ chan' \in Seq(Found \cup {Error}) /\ errsSent' \in Nat
               /\ plan # "reading" => chan' = chan
               /\ plan = "reading" /\ FlowInv =>
                    (errsSent' # 0 <=> \E i \in DOMAIN chan' : chan'[i] = Error)
    <3>1. /\ chan' \in Seq(Found \cup {Error}) /\ errsSent' \in Nat
          /\ plan # "reading" => chan' = chan
          /\ plan = "reading" => /\ DOMAIN chan' = DOMAIN chan \cup {Len(chan) + 1}
                                 /\ Len(chan) + 1 \notin DOMAIN chan
                                 /\ chan'[Len(chan) + 1] = m
                                 /\ \A i \in DOMAIN chan : chan'[i] = chan[i]
          /\ m = Error => errsSent' = errsSent + 1
          /\ m # Error => errsSent' = errsSent
      BY <1>2, <2>2, SendIs
    <3>2. CASE m = Error
      BY <1>2, <3>1, <3>2 DEF FlowInv
    <3>3. CASE m # Error
      <4>1. ASSUME plan = "reading"
            PROVE  (\E i \in DOMAIN chan' : chan'[i] = Error)
                     <=> \E i \in DOMAIN chan : chan[i] = Error
        BY <3>1, <3>3, <4>1
      <4> QED
        BY <3>1, <3>3, <4>1 DEF FlowInv
    <3> QED
      BY <3>2, <3>3
  <2> QED
    BY <1>1, <2>1, <2>2 DEF Says
<1>4. TypeInv'
  BY <1>1, <1>3 DEF TypeInv, Unmoved
<1>5. FlowInv'
  BY <1>1, <1>3 DEF FlowInv, Unmoved
<1> QED
  BY <1>4, <1>5

LEMMA InitFlow == Init => TypeInv /\ FlowInv
<1> SUFFICES ASSUME Init PROVE TypeInv /\ FlowInv
  OBVIOUS
<1>1. IsTree(tree) /\ 0 \in 0 .. MaxChanges
  BY ScanAssumption DEF Init
<1>2. sources \in Seq(Path) /\ Len(sources) \in Nat \ {0}
  BY Constants DEF Init
<1>3. <<>> \in Seq(Frame) /\ <<>> \in Seq(Found \cup {Error}) /\ <<>> \in Seq(Line)
  BY EmptySeq
<1> QED
  BY <1>1, <1>2, <1>3 DEF Init, TypeInv, FlowInv

LEMMA NextSourceMoves ==
  ASSUME TypeInv, NextSource
  PROVE  /\ plan = "next" /\ ix \in 1 .. Len(sources) /\ root' = Canon(sources[ix])
         /\ UNCHANGED <<tree, sources, opts, ix, chan, entries, changes, errsSent>>
         /\ \/ root' = NoPath /\ plan' = "error" /\ UNCHANGED <<stack, scan>>
            \/ /\ root' \in Path /\ plan' = "reading" /\ scan' = "running"
               /\ Call(root', <<>>) \in Frame /\ stack' = <<Call(root', <<>>)>>
               /\ stack' \in Seq(Frame) /\ Frames' = {Call(root', <<>>)}
<1>1. /\ plan = "next" /\ ix <= Len(sources) /\ root' = Canon(sources[ix])
      /\ UNCHANGED <<tree, sources, opts, ix, chan, entries, changes, errsSent>>
      /\ \/ root' = NoPath /\ plan' = "error" /\ UNCHANGED <<stack, scan>>
         \/ /\ root' # NoPath /\ plan' = "reading" /\ scan' = "running"
            /\ stack' = <<Call(root', <<>>)>>
  BY DEF NextSource
<1>2. ix \in 1 .. Len(sources)
  BY <1>1, Constants DEF TypeInv
<1>3. root' \in Path \cup {NoPath}
  BY <1>1, SourceIsPath, CanonIsEnd DEF Canon
<1>4. ASSUME root' \in Path, stack' = <<Call(root', <<>>)>>
      PROVE  /\ Call(root', <<>>) \in Frame
             /\ stack' \in Seq(Frame) /\ Frames' = {Call(root', <<>>)}
  <2> DEFINE f == Call(root', <<>>)
  <2>1. f \in Frame
    BY <1>4, CallIsFrame, EmptySeq
  <2>2. stack' = <<f>>
    BY <1>4
  <2> HIDE DEF f
  <2>3. stack' \in Seq(Frame) /\ DOMAIN stack' = {1} /\ stack'[1] = f
    BY <2>1, <2>2
  <2>4. Frames' = {f}
    BY <2>3 DEF Frames
  <2> QED
    BY <2>1, <2>3, <2>4 DEF f
<1> QED
  BY <1>1, <1>2, <1>3, <1>4

LEMMA DestinationIs ==
  ASSUME NEW m \in Found
  PROVE  LET r == Canon(sources[ix]) IN
         IF r # NoPath /\ Under(m.source, r)
           THEN /\ Destination(m) # {}
                /\ (CHOOSE d \in Destination(m) : TRUE) = Below(m.source, r)
           ELSE Destination(m) = {}
BY DEF Destination

LEMMA ReceiveMoves ==
  ASSUME TypeInv, Receive
  PROVE  /\ plan = "reading" /\ chan # <<>> /\ UNCHANGED <<planVars, ix, root, scan>>
         /\ ix \in 1 .. Len(sources)
         /\ Head(chan) \in Found \cup {Error} /\ Head(chan) = chan[1]
         /\ 1 \in DOMAIN chan
         /\ \/ /\ Head(chan) = Error
               /\ plan' = "error" /\ chan' = <<>> /\ entries' = entries
            \/ /\ Head(chan) \in Found /\ Head(chan) # Error
               /\ plan' = plan /\ chan' = Tail(chan) /\ chan' \in Seq(Found \cup {Error})
               /\ \A i \in DOMAIN chan' : i + 1 \in DOMAIN chan /\ chan'[i] = chan[i + 1]
               /\ \A i \in DOMAIN chan : i = 1 \/ (i - 1 \in DOMAIN chan' /\ chan'[i - 1] = chan[i])
               /\ LET m == Head(chan)
                      r == Canon(sources[ix])
                      e == [item |-> m, src |-> ix, dst |-> Below(m.source, r)]
                  IN IF r # NoPath /\ Under(m.source, r)
                       THEN e \in Line /\ entries' = Append(entries, e)
                       ELSE entries' = entries
<1>1. plan = "reading" /\ chan # <<>> /\ UNCHANGED <<planVars, ix, root, scan>>
  BY DEF Receive
<1>2. chan \in Seq(Found \cup {Error}) /\ Len(chan) \in Nat \ {0} /\ DOMAIN chan = 1 .. Len(chan)
  BY <1>1, EmptySeq, LenProperties DEF TypeInv
<1>3. ix \in 1 .. Len(sources) /\ sources[ix] \in Path
  BY <1>1, SourceIsPath, Constants DEF TypeInv
<1>4. Head(chan) \in Found \cup {Error} /\ Head(chan) = chan[1] /\ 1 \in DOMAIN chan
  BY <1>1, <1>2, HeadTailProperties
<1>5. CASE Head(chan) = Error
  <2>1. plan' = "error" /\ chan' = <<>> /\ entries' = entries
    BY <1>5 DEF Receive
  <2> QED
    BY <1>1, <1>3, <1>4, <1>5, <2>1
<1>6. CASE Head(chan) # Error
  <2> DEFINE m == Head(chan)
             r == Canon(sources[ix])
             e == [item |-> m, src |-> ix, dst |-> Below(m.source, r)]
  <2>1. m \in Found
    BY <1>4, <1>6
  <2>2. plan' = plan /\ chan' = Tail(chan)
    BY <1>6 DEF Receive
  <2>3. entries' = IF Destination(m) = {} THEN entries
                   ELSE Append(entries, [item |-> m, src |-> ix,
                                         dst |-> CHOOSE d \in Destination(m) : TRUE])
    BY <1>6 DEF Receive
  <2>4. IF r # NoPath /\ Under(m.source, r) THEN entries' = Append(entries, e) ELSE entries' = entries
    <3> HIDE DEF m
    <3>1. CASE r # NoPath /\ Under(m.source, r)
      <4>1. Destination(m) # {} /\ (CHOOSE d \in Destination(m) : TRUE) = Below(m.source, r)
        BY <2>1, <3>1, DestinationIs
      <4> QED
        BY <2>3, <3>1, <4>1
    <3>2. CASE ~(r # NoPath /\ Under(m.source, r))
      <4>1. Destination(m) = {}
        BY <2>1, <3>2, DestinationIs
      <4> QED
        BY <2>3, <3>2, <4>1
    <3> QED
      BY <3>1, <3>2
  <2>5. ASSUME r # NoPath, Under(m.source, r) PROVE e \in Line
    <3>1. r \in Path
      BY <1>3, <2>5, CanonIsEnd DEF Canon
    <3>2. Below(m.source, r) \in Seq(Name)
      BY <2>1, <2>5, <3>1, PathsAreSequences, BelowCompletes DEF Found
    <3>3. ix \in Nat
      BY <1>3
    <3> HIDE DEF m, r
    <3> QED
      BY <2>1, <3>2, <3>3 DEF Line
  <2>6. /\ chan' \in Seq(Found \cup {Error})
        /\ DOMAIN chan' = 1 .. Len(chan) - 1
        /\ \A i \in 1 .. Len(chan) - 1 : chan'[i] = chan[i + 1]
    <3>1. /\ chan' \in Seq(Found \cup {Error}) /\ Len(chan') = Len(chan) - 1
          /\ \A i \in 1 .. Len(chan') : chan'[i] = chan[i + 1]
      BY <1>1, <1>2, <2>2, HeadTailProperties
    <3> QED
      BY <3>1, LenProperties
  <2>7. /\ \A i \in DOMAIN chan' : i + 1 \in DOMAIN chan /\ chan'[i] = chan[i + 1]
        /\ \A i \in DOMAIN chan : i = 1 \/ (i - 1 \in DOMAIN chan' /\ chan'[i - 1] = chan[i])
    BY <1>2, <2>6
  <2> HIDE DEF m, r, e
  <2>8. IF r # NoPath /\ Under(m.source, r)
          THEN e \in Line /\ entries' = Append(entries, e) ELSE entries' = entries
    BY <2>4, <2>5
  <2> QED
    BY <1>1, <1>3, <1>4, <1>6, <2>1, <2>2, <2>6, <2>7, <2>8 DEF m, r, e
<1> QED
  BY <1>5, <1>6

LEMMA SourceDoneMoves ==
  ASSUME TypeInv, SourceDone
  PROVE  /\ plan = "reading" /\ plan' = "next" /\ chan = <<>> /\ scan = "over"
         /\ ix' = ix + 1 /\ ix \in 1 .. Len(sources) /\ ix' \in 1 .. Len(sources) + 1
         /\ UNCHANGED <<planVars, root, scan, chan, entries>>
<1>1. /\ plan = "reading" /\ plan' = "next" /\ chan = <<>> /\ scan = "over"
      /\ ix' = ix + 1 /\ UNCHANGED <<planVars, root, scan, chan, entries>>
  BY DEF SourceDone
<1> QED
  BY <1>1, Constants DEF TypeInv

LEMMA VanishMoves ==
  ASSUME TypeInv, Vanish
  PROVE  /\ IsTree(tree') /\ Shrunk(tree, tree')
         /\ changes' = changes + 1 /\ changes' \in 0 .. MaxChanges /\ changes' # 0
         /\ UNCHANGED <<stack, scan, chan, errsSent, walkVars>>
<1>1. /\ changes' = changes + 1 /\ UNCHANGED <<stack, scan, chan, errsSent, walkVars>>
      /\ changes < MaxChanges
  BY DEF Vanish
<1>2. PICK p \in Path : tree' = Removed(tree, p)
  BY DEF Vanish, Removed
<1>3. IsTree(tree') /\ Shrunk(tree, tree')
  BY <1>2, RemovedIsTree DEF TypeInv
<1>4. changes' \in 0 .. MaxChanges /\ changes' # 0
  BY <1>1, ScanAssumption DEF TypeInv
<1> QED
  BY <1>1, <1>3, <1>4

LEMMA OverflowMoves ==
  ASSUME Overflow
  PROVE  /\ scan' = "killed" /\ plan' = "killed"
         /\ stack' = <<>> /\ Frames' = {} /\ DOMAIN stack' = {} /\ stack' \in Seq(Frame)
         /\ chan' = <<>> /\ DOMAIN chan' = {} /\ chan' \in Seq(Found \cup {Error})
         /\ UNCHANGED <<tree, sources, opts, ix, root, entries, changes, errsSent>>
<1>1. /\ scan' = "killed" /\ plan' = "killed" /\ stack' = <<>> /\ chan' = <<>>
      /\ UNCHANGED <<tree, sources, opts, ix, root, entries, changes, errsSent>>
  BY DEF Overflow
<1> QED
  BY <1>1, EmptySeq DEF Frames

LEMMA FlowIsKept == TypeInv /\ FlowInv /\ [Next]_vars => TypeInv' /\ FlowInv'
<1> SUFFICES ASSUME TypeInv, FlowInv, [Next]_vars PROVE TypeInv' /\ FlowInv'
  OBVIOUS
<1>1. CASE Step
  BY <1>1, StepKeepsFlow
<1>2. CASE ScanReturns
  BY <1>2 DEF ScanReturns, walkVars, TypeInv, FlowInv
<1>3. CASE NextSource
  <2>1. /\ plan = "next" /\ root' = Canon(sources[ix]) /\ ix \in 1 .. Len(sources)
        /\ UNCHANGED <<tree, sources, opts, ix, chan, entries, changes, errsSent>>
        /\ \/ root' = NoPath /\ plan' = "error" /\ UNCHANGED <<stack, scan>>
           \/ /\ root' \in Path /\ plan' = "reading" /\ scan' = "running"
              /\ stack' \in Seq(Frame)
    BY <1>3, NextSourceMoves
  <2>2. chan = <<>> /\ errsSent = 0 /\ DOMAIN chan = {}
    BY <2>1 DEF FlowInv
  <2>3. TypeInv'
    BY <2>1 DEF TypeInv
  <2>4. FlowInv'
    BY <2>1, <2>2 DEF FlowInv
  <2> QED
    BY <2>3, <2>4
<1>4. CASE Receive
  <2>1. /\ plan = "reading" /\ chan # <<>> /\ UNCHANGED <<planVars, ix, root, scan>>
        /\ ix \in 1 .. Len(sources)
        /\ Head(chan) = chan[1] /\ 1 \in DOMAIN chan
    BY <1>4, ReceiveMoves
  <2>2. CASE Head(chan) = Error
    <3>1. plan' = "error" /\ chan' = <<>> /\ entries' = entries
      BY <1>4, <2>2 DEF Receive
    <3>2. chan' \in Seq(Found \cup {Error})
      BY <3>1, EmptySeq
    <3> QED
      BY <2>1, <3>1, <3>2 DEF TypeInv, FlowInv, planVars
  <2>3. CASE Head(chan) # Error
    <3>1. /\ plan' = plan /\ chan' \in Seq(Found \cup {Error})
          /\ \A i \in DOMAIN chan' : i + 1 \in DOMAIN chan /\ chan'[i] = chan[i + 1]
          /\ \A i \in DOMAIN chan : i = 1 \/ (i - 1 \in DOMAIN chan' /\ chan'[i - 1] = chan[i])
          /\ \/ entries' = entries
             \/ \E e \in Line : entries' = Append(entries, e)
      BY <1>4, <2>3, ReceiveMoves
    <3>2. entries' \in Seq(Line)
      <4>1. ASSUME NEW e \in Line PROVE Append(entries, e) \in Seq(Line)
        BY AppendProperties DEF TypeInv
      <4> QED
        BY <3>1, <4>1 DEF TypeInv
    <3>3. (\E i \in DOMAIN chan' : chan'[i] = Error) <=> \E i \in DOMAIN chan : chan[i] = Error
      BY <2>1, <2>3, <3>1
    <3>4. TypeInv'
      BY <2>1, <3>1, <3>2 DEF TypeInv, planVars
    <3>5. FlowInv'
      BY <2>1, <3>1, <3>3 DEF FlowInv, planVars
    <3> QED
      BY <3>4, <3>5
  <2> QED
    BY <2>2, <2>3
<1>5. CASE SourceDone
  <2>1. /\ plan = "reading" /\ plan' = "next" /\ chan = <<>> /\ scan = "over"
        /\ ix' = ix + 1 /\ ix' \in 1 .. Len(sources) + 1
        /\ UNCHANGED <<planVars, root, scan, chan, entries>>
    BY <1>5, SourceDoneMoves
  <2>2. errsSent = 0
    BY <2>1 DEF FlowInv
  <2> QED
    BY <2>1, <2>2 DEF TypeInv, FlowInv, planVars
<1>6. CASE PlanDone
  <2>1. ix = Len(sources) + 1
    BY <1>6, Constants DEF PlanDone, TypeInv
  <2> QED
    BY <1>6, <2>1 DEF PlanDone, planVars, TypeInv, FlowInv
<1>7. CASE Vanish
  <2>1. /\ IsTree(tree') /\ changes' \in 0 .. MaxChanges
        /\ UNCHANGED <<stack, scan, chan, errsSent, walkVars>>
    BY <1>7, VanishMoves
  <2> QED
    BY <2>1 DEF walkVars, TypeInv, FlowInv
<1>8. CASE UNCHANGED vars
  BY <1>8 DEF vars, TypeInv, FlowInv
<1>9. CASE Overflow
  BY <1>9, OverflowMoves DEF TypeInv, FlowInv
<1> QED
  BY <1>1, <1>2, <1>3, <1>4, <1>5, <1>6, <1>7, <1>8, <1>9 DEF Next, Step, Scanner, Planner, Finished

LEMMA TypeInvImplies == TypeInv => TypeOK
<1> SUFFICES ASSUME TypeInv PROVE TypeOK
  OBVIOUS
<1>1. tree \in [Path -> Entry]
  BY DEF TypeInv, IsTree
<1>2. \A f \in Frames : f.abs \in Path /\ f.seen \subseteq Path
  <2>1. \A f \in Frames : f \in Frame
    BY LenProperties, ElementOfSeq DEF TypeInv, Frames
  <2> QED
    BY <2>1 DEF Frame
<1>3. \A i \in DOMAIN entries : entries[i].item.source \in Path
  <2>1. \A i \in DOMAIN entries : entries[i] \in Line
    BY LenProperties, ElementOfSeq DEF TypeInv
  <2> QED
    BY <2>1 DEF Line, Found
<1> QED
  BY <1>1, <1>2, <1>3 DEF TypeInv, TypeOK

LEMMA FlowHolds == Spec => [](TypeInv /\ FlowInv)
<1>1. TypeInv /\ FlowInv /\ [Next]_vars => (TypeInv /\ FlowInv)'
  BY FlowIsKept
<1> QED
  BY InitFlow, <1>1, PTL DEF Spec

\* The types of the tree, the calls, the plan and the counters.
THEOREM TypeCorrect == Spec => []TypeOK
BY FlowHolds, TypeInvImplies, PTL

\* plan() returns a plan only if no scanner has met an error (scan.rs:88,
\* engine.rs:131): an error stays in the channel until it ends the plan.
THEOREM NoErrorIsSkipped == Spec => []OkMeansNoError
<1>1. FlowInv => OkMeansNoError
  BY DEF FlowInv, OkMeansNoError
<1> QED
  BY <1>1, FlowHolds, PTL
-----------------------------------------------------------------------------
(* Where entries are placed                                                *)

LEMMA InitPlaced == Init => PlacedInv
BY DEF Init, PlacedInv, Frames

\* What is sent is from where the scanner is.
LEMMA SaysWhereItIs ==
  ASSUME TypeInv, opts.symlinks # "follow", PlacedInv, stack # <<>>,
         \/ Quiet
         \/ Send(Error)
         \/ \E k \in {"dir", "file", "link"} : Send(Item(k))
  PROVE  \A i \in DOMAIN chan' : chan'[i] # Error => chan'[i].source = root \o chan'[i].rel
<1>1. /\ chan \in Seq(Found \cup {Error}) /\ errsSent \in Nat
      /\ \A i \in DOMAIN chan : chan[i] # Error => chan[i].source = root \o chan[i].rel
      /\ Top \in Frame /\ Top.abs = root \o Top.rel
  BY TopIsFrame DEF TypeInv, PlacedInv
<1>2. CASE Quiet
  BY <1>1, <1>2 DEF Quiet
<1>3. ASSUME NEW m \in Found \cup {Error}, Send(m), m # Error => m.source = root \o m.rel
      PROVE  \A i \in DOMAIN chan' : chan'[i] # Error => chan'[i].source = root \o chan'[i].rel
  BY <1>1, <1>3, SendIs
<1>4. CASE Send(Error)
  BY <1>3, <1>4
<1>5. ASSUME NEW k \in {"dir", "file", "link"}, Send(Item(k))
      PROVE  \A i \in DOMAIN chan' : chan'[i] # Error => chan'[i].source = root \o chan'[i].rel
  <2>1. /\ Item(k) \in Found \cup {Error}
        /\ Item(k).source = root \o Item(k).rel
    BY <1>1, ItemIsFound
  <2> QED
    BY <1>3, <1>5, <2>1
<1> QED
  BY <1>2, <1>4, <1>5

\* What a frame is called for is where its relative path says.
AtPlace(f) == f.abs = root \o f.rel /\ f.at \in {"stat", "opendir", "list"}

LEMMA StepKeepsPlace ==
  ASSUME TypeInv, PlacedInv, Step PROVE PlacedInv'
<1>1. SUFFICES ASSUME opts.symlinks # "follow" PROVE PlacedInv'
  BY StepMoves DEF PlacedInv, Unmoved
<1>2. /\ stack # <<>> /\ stack \in Seq(Frame) /\ Unmoved
      /\ Top \in Frame /\ Top \in Frames /\ \A f \in Frames : AtPlace(f)
      /\ root \in Seq(Name)
  BY <1>1, StepMoves, TopIsFrame, PathsAreSequences, NoPathIsASequence
     DEF TypeInv, PlacedInv, AtPlace
<1>3. SUFFICES /\ \A f \in Frames' : AtPlace(f)
               /\ \/ Quiet
                  \/ Send(Error)
                  \/ \E k \in {"dir", "file", "link"} : Send(Item(k))
  BY <1>1, <1>2, SaysWhereItIs DEF PlacedInv, AtPlace, Unmoved, Canon
<1>4. CASE Stat
  <2>1. /\ \/ Pop
           \/ Goto("opendir")
        /\ \/ Quiet
           \/ Send(Error)
           \/ \E k \in {"dir", "file", "link"} : Send(Item(k))
    BY <1>1, <1>4, StatMoves
  <2>2. CASE Pop
    BY <1>2, <2>1, <2>2, PopIs
  <2>3. CASE Goto("opendir")
    <3>1. Frames' \subseteq Frames \cup {[Top EXCEPT !.at = "opendir"]}
      BY <1>2, <2>3, GotoIs
    <3>2. AtPlace([Top EXCEPT !.at = "opendir"])
      BY <1>2 DEF AtPlace, Frame
    <3> QED
      BY <1>2, <2>1, <3>1, <3>2
  <2> QED
    BY <2>1, <2>2, <2>3
<1>5. CASE FollowLink
  BY <1>2, <1>5, FollowMoves DEF AtPlace
<1>6. CASE FollowReturns
  BY <1>2, <1>6, ReturnMoves DEF AtPlace
<1>7. CASE OpenDir
  <2>1. CASE Goto("list") /\ Quiet
    <3>1. Frames' \subseteq Frames \cup {[Top EXCEPT !.at = "list"]}
      BY <1>2, <2>1, GotoIs
    <3>2. AtPlace([Top EXCEPT !.at = "list"])
      BY <1>2 DEF AtPlace, Frame
    <3> QED
      BY <1>2, <2>1, <3>1, <3>2
  <2>2. CASE Abort
    BY <2>2, AbortIs
  <2> QED
    BY <1>7, <2>1, <2>2, OpenMoves
<1>8. CASE ListDir
  <2>1. Quiet
    BY <1>8, ListMoves
  <2>2. CASE Pop
    BY <1>2, <2>1, <2>2, PopIs
  <2>3. ASSUME NEW c \in Children(Top.abs),
               Recurse([Top EXCEPT !.seen = Top.seen \cup {c}],
                       Call(c, Append(Top.rel, c[Len(c)])))
        PROVE  \A f \in Frames' : AtPlace(f)
    <3> DEFINE f == [Top EXCEPT !.seen = Top.seen \cup {c}]
               r == Append(Top.rel, c[Len(c)])
               g == Call(c, r)
    <3>1. /\ c \in Path /\ Len(c) = Len(Top.abs) + 1 /\ Under(c, Top.abs)
          /\ f \in Frame /\ r \in Seq(Name) /\ g \in Frame
      BY <1>2, ChildFrames
    <3>2. Frames' \subseteq Frames \cup {f, g}
      BY <1>2, <2>3, <3>1, RecurseIs
    <3>3. AtPlace(f)
      BY <1>2 DEF AtPlace, Frame
    <3>4. c = root \o r
      <4>1. /\ Top.abs \in Path /\ Top.rel \in Seq(Name)
            /\ Top.abs = root \o Top.rel
        BY <1>2 DEF AtPlace, Frame
      <4>2. c \in Path /\ Len(c) = Len(Top.abs) + 1 /\ Under(c, Top.abs) /\ root \in Seq(Name)
        BY <1>2, <3>1
      <4>3. c = root \o Append(Top.rel, c[Len(c)])
        BY ONLY <4>1, <4>2, ChildBelow
      <4> QED
        BY <4>3
    <3>5. AtPlace(g)
      <4>1. g.abs = c /\ g.rel = r /\ g.at = "stat"
        BY DEF Call
      <4> HIDE DEF g, r
      <4> QED
        BY <3>4, <4>1 DEF AtPlace
    <3> QED
      BY <1>2, <3>2, <3>3, <3>5
  <2> QED
    BY <1>8, <2>1, <2>2, <2>3, ListMoves
<1>9. CASE BadEntry
  <2>1. PICK c \in Children(Top.abs) :
          LET f == [Top EXCEPT !.seen = Top.seen \cup {c}] IN
          f \in Frame /\ stack' = [stack EXCEPT ![Len(stack)] = f]
    BY <1>9, BadMoves
  <2> DEFINE f == [Top EXCEPT !.seen = Top.seen \cup {c}]
  <2>2. AtPlace(f)
    BY <1>2 DEF AtPlace, Frame
  <2> HIDE DEF f
  <2>3. Frames' \subseteq Frames \cup {f}
    BY <1>2, <2>1, EditIs DEF f
  <2> QED
    BY <1>2, <1>9, <2>2, <2>3, BadMoves
<1> QED
  BY <1>4, <1>5, <1>6, <1>7, <1>8, <1>9 DEF Step

\* The destination of an item that stands where its relative path says.
LEMMA ItemBelow ==
  ASSUME TypeInv, NEW m \in Found, m.source = root \o m.rel
  PROVE  Under(m.source, root) /\ Below(m.source, root) = m.rel
<1>1. root \in Seq(Name) /\ m.rel \in Seq(Name)
  BY PathsAreSequences, NoPathIsASequence DEF TypeInv, Found
<1>2. Under(root \o m.rel, root) /\ Below(root \o m.rel, root) = m.rel
  BY <1>1, UnderPrefix
<1> QED
  BY <1>2

LEMMA PlacedIsKept == TypeInv /\ FlowInv /\ PlacedInv /\ [Next]_vars => PlacedInv'
<1> SUFFICES ASSUME TypeInv, FlowInv, PlacedInv, [Next]_vars PROVE PlacedInv'
  OBVIOUS
<1>1. CASE Step
  BY <1>1, StepKeepsPlace
<1>2. CASE ScanReturns
  BY <1>2 DEF ScanReturns, walkVars, PlacedInv, Frames, Canon
<1>3. CASE NextSource
  <2>1. /\ plan = "next" /\ root' = Canon(sources[ix])
        /\ UNCHANGED <<tree, sources, opts, ix, chan, entries, changes, errsSent>>
        /\ \/ root' = NoPath /\ plan' = "error" /\ UNCHANGED <<stack, scan>>
           \/ root' \in Path /\ plan' = "reading" /\ Frames' = {Call(root', <<>>)}
    BY <1>3, NextSourceMoves
  <2>2. chan = <<>> /\ DOMAIN chan = {} /\ stack = <<>> /\ Frames = {}
    BY <2>1 DEF FlowInv, Frames
  <2>3. Canon(sources[ix])' = root'
    BY <2>1 DEF Canon
  <2>4. CASE root' = NoPath /\ plan' = "error" /\ UNCHANGED <<stack, scan>>
    BY <2>1, <2>2, <2>4 DEF PlacedInv, Frames
  <2>5. CASE root' \in Path /\ plan' = "reading" /\ Frames' = {Call(root', <<>>)}
    <3>1. root' = root' \o <<>>
      BY <2>5, PathsAreSequences, ConcatEmptySeq
    <3>2. \A f \in Frames' : f.abs = root' \o f.rel /\ f.at \in {"stat", "opendir", "list"}
      <4> DEFINE g == Call(root', <<>>)
      <4>1. g.abs = root' /\ g.rel = <<>> /\ g.at = "stat"
        BY DEF Call
      <4> HIDE DEF g
      <4>2. g.abs = root' \o g.rel
        BY <3>1, <4>1
      <4> QED
        BY <2>5, <4>1, <4>2 DEF g
    <3> QED
      BY <2>1, <2>2, <2>3, <3>2 DEF PlacedInv
  <2> QED
    BY <2>1, <2>4, <2>5
<1>4. CASE Receive
  <2>1. /\ plan = "reading" /\ UNCHANGED <<planVars, ix, root, scan>>
        /\ Head(chan) = chan[1] /\ 1 \in DOMAIN chan
        /\ Canon(sources[ix])' = Canon(sources[ix])
    BY <1>4, ReceiveMoves DEF planVars, Canon
  <2>2. CASE Head(chan) = Error
    <3>1. plan' = "error" /\ DOMAIN chan' = {} /\ entries' = entries
      BY <1>4, <2>2 DEF Receive
    <3> QED
      BY <2>1, <3>1 DEF PlacedInv, planVars, Frames
  <2>3. CASE Head(chan) # Error
    <3> DEFINE m == Head(chan)
               r == Canon(sources[ix])
               e == [item |-> m, src |-> ix, dst |-> Below(m.source, r)]
    <3>1. /\ m \in Found /\ plan' = plan
          /\ \A i \in DOMAIN chan' : i + 1 \in DOMAIN chan /\ chan'[i] = chan[i + 1]
          /\ IF r # NoPath /\ Under(m.source, r)
               THEN e \in Line /\ entries' = Append(entries, e) ELSE entries' = entries
      BY <1>4, <2>3, ReceiveMoves
    <3>2. SUFFICES ASSUME opts.symlinks # "follow" PROVE PlacedInv'
      BY <2>1 DEF PlacedInv, planVars
    <3>3. \A i \in DOMAIN chan' : chan'[i] # Error => chan'[i].source = root \o chan'[i].rel
      BY <3>1, <3>2 DEF PlacedInv
    <3>4. r # NoPath => e.dst = e.item.rel
      <4>1. m.source = root \o m.rel
        BY <2>1, <2>3, <3>2 DEF PlacedInv
      <4>2. r \in {root, NoPath}
        BY <2>1, <3>2 DEF PlacedInv
      <4> QED
        BY <3>1, <4>1, <4>2, ItemBelow
    <3>5. \A i \in DOMAIN entries' : entries'[i].dst = entries'[i].item.rel
      <4>1. \A i \in DOMAIN entries : entries[i].dst = entries[i].item.rel
        BY <3>2 DEF PlacedInv
      <4> HIDE DEF e, m, r
      <4>2. CASE r # NoPath /\ e \in Line /\ entries' = Append(entries, e)
        <5>1. /\ Len(entries') = Len(entries) + 1
              /\ \A i \in 1 .. Len(entries) : entries'[i] = entries[i]
              /\ entries'[Len(entries) + 1] = e
              /\ entries' \in Seq(Line)
          BY <4>2, AppendProperties DEF TypeInv
        <5>2. /\ DOMAIN entries' = 1 .. Len(entries) + 1 /\ DOMAIN entries = 1 .. Len(entries)
              /\ Len(entries) \in Nat
          BY <5>1, LenProperties DEF TypeInv
        <5> QED
          BY <3>4, <4>1, <4>2, <5>1, <5>2
      <4> QED
        BY <3>1, <4>1, <4>2
    <3> HIDE DEF e, m, r
    <3> QED
      BY <2>1, <3>1, <3>2, <3>3, <3>5 DEF PlacedInv, planVars, Frames
  <2> QED
    BY <2>2, <2>3
<1>5. CASE SourceDone
  BY <1>5, SourceDoneMoves DEF PlacedInv, planVars, Frames
<1>6. CASE PlanDone
  BY <1>6 DEF PlanDone, PlacedInv, planVars, Frames
<1>7. CASE Vanish
  <2>1. Shrunk(tree, tree') /\ UNCHANGED <<stack, scan, chan, errsSent, walkVars>>
    BY <1>7, VanishMoves
  <2>2. ASSUME plan = "reading" PROVE Canon(sources[ix])' \in {Canon(sources[ix]), NoPath}
    BY <2>1, <2>2, SourceIsPath, CanonShrinks DEF Canon, TypeInv, walkVars
  <2> QED
    BY <2>1, <2>2 DEF PlacedInv, walkVars, Frames
<1>8. CASE UNCHANGED vars
  BY <1>8 DEF vars, PlacedInv, Frames, Canon
<1>9. CASE Overflow
  BY <1>9, OverflowMoves DEF PlacedInv
<1> QED
  BY <1>1, <1>2, <1>3, <1>4, <1>5, <1>6, <1>7, <1>8, <1>9 DEF Next, Step, Scanner, Planner, Finished

LEMMA PlacedHolds == Spec => []PlacedInv
<1>1. TypeInv /\ FlowInv /\ PlacedInv /\ [Next]_vars => PlacedInv'
  BY PlacedIsKept
<1> QED
  BY InitPlaced, <1>1, FlowHolds, PTL DEF Spec

\* Without links to follow, the destination that compute_dst() derives from the
\* source alone (engine.rs:791) is where the scanner found it (scan.rs:152).
THEOREM DestinationsAgree == Spec => []PlacedByRelative
<1>1. PlacedInv => PlacedByRelative
  BY DEF PlacedInv, PlacedByRelative
<1> QED
  BY <1>1, PlacedHolds, PTL
-----------------------------------------------------------------------------
(* Within the root                                                         *)

\* What is in a listing, or may get there, is under the root.
Inside(f) ==
  f.at = "list" \/ (f.at \in {"stat", "opendir"} /\ Kind(f.abs) = "dir") => Under(f.abs, root)

LEMMA InitStays == Init => StaysInv
BY DEF Init, StaysInv, Frames

LEMMA StepKeepsInside ==
  ASSUME TypeInv, StaysInv, Step PROVE StaysInv'
<1>1. SUFFICES ASSUME ~opts.escape PROVE StaysInv'
  BY StepMoves DEF StaysInv, Unmoved
<1>2. /\ stack # <<>> /\ stack \in Seq(Frame) /\ Unmoved
      /\ Top \in Frame /\ Inside(Top) /\ \A f \in Frames : Inside(f)
      /\ root \in Seq(Name)
  BY <1>1, StepMoves, TopIsFrame, PathsAreSequences, NoPathIsASequence
     DEF TypeInv, StaysInv, Inside
<1>3. SUFFICES \A f \in Frames' : Inside(f)
  BY <1>1, <1>2 DEF StaysInv, Inside, Unmoved, Kind
<1>4. CASE Stat
  <2>1. Pop \/ Goto("opendir") \/ Goto("readlink")
    BY <1>4, StatMoves
  <2>2. CASE Pop
    BY <1>2, <2>2, PopIs
  <2>3. ASSUME NEW w \in {"opendir", "readlink"}, Goto(w)
        PROVE  \A f \in Frames' : Inside(f)
    <3>1. Frames' \subseteq Frames \cup {[Top EXCEPT !.at = w]}
      BY <1>2, <2>3, GotoIs
    <3>2. Top.at = "stat"
      BY <1>4, StatMoves
    <3>3. Inside([Top EXCEPT !.at = w])
      BY <1>2, <3>2 DEF Inside, Frame
    <3> QED
      BY <1>2, <3>1, <3>3
  <2> QED
    BY <2>1, <2>2, <2>3
<1>5. CASE FollowLink
  <2>1. CASE Abort
    BY <2>1, AbortIs
  <2>2. CASE Pop
    BY <1>2, <2>2, PopIs
  <2>3. ASSUME NEW p \in Path, Canon(p) # NoPath => Under(Canon(p), root),
               Recurse([Top EXCEPT !.at = "followed"], Call(p, Top.rel))
        PROVE  \A f \in Frames' : Inside(f)
    <3> DEFINE f == [Top EXCEPT !.at = "followed"]
               g == Call(p, Top.rel)
    <3>1. f \in Frame
      BY <1>2, FrameAt
    <3>2. g \in Frame /\ g.abs = p /\ g.at = "stat"
      BY <1>2, CallIsFrame DEF Frame
    <3>3. Inside(f)
      BY <1>2 DEF Inside, Frame
    <3> HIDE DEF f
    <3>4. Kind(p) = "dir" => Under(p, root)
      <4>1. Kind(p) = "dir" => Canon(p) = p
        BY CanonOfEntry DEF Canon, Kind
      <4> QED
        BY <2>3, <4>1, PathsAreSequences
    <3>5. Inside(g)
      <4> HIDE DEF g
      <4> QED
        BY <3>2, <3>4 DEF Inside
    <3> HIDE DEF g
    <3>6. Frames' \subseteq Frames \cup {f, g}
      BY <1>2, <2>3, <3>1, <3>2, RecurseIs DEF f, g
    <3> QED
      BY <1>2, <3>3, <3>5, <3>6
  <2> QED
    BY <1>1, <1>5, <2>1, <2>2, <2>3, FollowMoves
<1>6. CASE FollowReturns
  BY <1>2, <1>6, ReturnMoves, PopIs
<1>7. CASE OpenDir
  <2>1. CASE Kind(Top.abs) = "dir" /\ Goto("list")
    <3>1. Frames' \subseteq Frames \cup {[Top EXCEPT !.at = "list"]}
      BY <1>2, <2>1, GotoIs
    <3>2. Top.at = "opendir"
      BY <1>7, OpenMoves
    <3>3. Inside([Top EXCEPT !.at = "list"])
      BY <1>2, <2>1, <3>2 DEF Inside, Frame
    <3> QED
      BY <1>2, <3>1, <3>3
  <2>2. CASE Abort
    BY <2>2, AbortIs
  <2> QED
    BY <1>7, <2>1, <2>2, OpenMoves
<1>8. CASE ListDir
  <2>1. Top.at = "list" /\ Under(Top.abs, root)
    BY <1>2, <1>8, ListMoves DEF Inside
  <2>2. CASE Pop
    BY <1>2, <2>2, PopIs
  <2>3. ASSUME NEW c \in Children(Top.abs),
               Recurse([Top EXCEPT !.seen = Top.seen \cup {c}],
                       Call(c, Append(Top.rel, c[Len(c)])))
        PROVE  \A f \in Frames' : Inside(f)
    <3> DEFINE f == [Top EXCEPT !.seen = Top.seen \cup {c}]
               g == Call(c, Append(Top.rel, c[Len(c)]))
    <3>1. c \in Path /\ Under(c, Top.abs) /\ f \in Frame /\ g \in Frame
      BY <1>2, ChildFrames
    <3>2. Inside(f)
      BY <1>2, <2>1 DEF Inside, Frame
    <3>3. Under(c, root)
      <4>1. c \in Seq(Name) /\ Top.abs \in Seq(Name)
        BY <1>2, <3>1, PathsAreSequences DEF Frame
      <4> QED
        BY <1>2, <2>1, <3>1, <4>1, UnderTransitive
    <3>4. Inside(g)
      BY <3>3 DEF Inside, Call
    <3> HIDE DEF f, g
    <3>5. Frames' \subseteq Frames \cup {f, g}
      BY <1>2, <2>3, <3>1, RecurseIs DEF f, g
    <3> QED
      BY <1>2, <3>2, <3>4, <3>5
  <2> QED
    BY <1>8, <2>2, <2>3, ListMoves
<1>9. CASE BadEntry
  <2>1. PICK c \in Children(Top.abs) :
          LET f == [Top EXCEPT !.seen = Top.seen \cup {c}] IN
          f \in Frame /\ stack' = [stack EXCEPT ![Len(stack)] = f]
    BY <1>9, BadMoves
  <2> DEFINE f == [Top EXCEPT !.seen = Top.seen \cup {c}]
  <2>2. Inside(f)
    BY <1>2 DEF Inside, Frame
  <2> HIDE DEF f
  <2>3. Frames' \subseteq Frames \cup {f}
    BY <1>2, <2>1, EditIs DEF f
  <2> QED
    BY <1>2, <2>2, <2>3
<1> QED
  BY <1>4, <1>5, <1>6, <1>7, <1>8, <1>9 DEF Step

LEMMA StaysIsKept == TypeInv /\ FlowInv /\ StaysInv /\ [Next]_vars => StaysInv'
<1> SUFFICES ASSUME TypeInv, FlowInv, StaysInv, [Next]_vars PROVE StaysInv'
  OBVIOUS
<1>1. CASE Step
  BY <1>1, StepKeepsInside
<1>2. CASE ScanReturns
  BY <1>2 DEF ScanReturns, walkVars, StaysInv, Frames, Kind
<1>3. CASE NextSource
  <2>1. /\ plan = "next" /\ UNCHANGED <<tree, opts>>
        /\ \/ stack' = stack
           \/ root' \in Path /\ Frames' = {Call(root', <<>>)}
    BY <1>3, NextSourceMoves
  <2>2. CASE stack' = stack
    BY <2>1, <2>2 DEF FlowInv, StaysInv, Frames
  <2>3. CASE root' \in Path /\ Frames' = {Call(root', <<>>)}
    <3>1. Under(root', root')
      BY <2>3, PathsAreSequences, UnderItself
    <3>2. \A f \in Frames' : f.abs = root'
      BY <2>3 DEF Call
    <3> QED
      BY <3>1, <3>2 DEF StaysInv
  <2> QED
    BY <2>1, <2>2, <2>3
<1>4. CASE Receive
  BY <1>4, ReceiveMoves DEF planVars, StaysInv, Frames, Kind
<1>5. CASE SourceDone
  BY <1>5, SourceDoneMoves DEF planVars, StaysInv, Frames, Kind
<1>6. CASE PlanDone
  BY <1>6 DEF PlanDone, planVars, StaysInv, Frames, Kind
<1>7. CASE Vanish
  <2>1. Shrunk(tree, tree') /\ UNCHANGED <<stack, scan, chan, errsSent, walkVars>>
    BY <1>7, VanishMoves
  <2>2. \A p \in Path : Kind(p)' = "dir" => Kind(p) = "dir"
    BY <2>1 DEF Shrunk, Missing, Kind
  <2>3. \A f \in Frames : f.abs \in Path
    BY TypeInvImplies DEF TypeOK
  <2> QED
    BY <2>1, <2>2, <2>3 DEF walkVars, StaysInv, Frames
<1>8. CASE UNCHANGED vars
  BY <1>8 DEF vars, StaysInv, Frames, Kind
<1>9. CASE Overflow
  BY <1>9, OverflowMoves DEF StaysInv
<1> QED
  BY <1>1, <1>2, <1>3, <1>4, <1>5, <1>6, <1>7, <1>8, <1>9 DEF Next, Step, Scanner, Planner, Finished

\* No directory outside of the root is listed through a link unless it may be
\* (scan.rs:118): a link that is followed leads to the end of its chain, and what
\* vanishes meanwhile makes nothing a directory.
THEOREM ScanStaysUnderRoot == Spec => []StaysUnderRoot
<1>1. TypeInv /\ FlowInv /\ StaysInv /\ [Next]_vars => StaysInv'
  BY StaysIsKept
<1>2. StaysInv => StaysUnderRoot
  BY DEF StaysInv, StaysUnderRoot
<1> QED
  BY InitStays, <1>1, <1>2, FlowHolds, PTL DEF Spec
-----------------------------------------------------------------------------
(* The way back                                                            *)

\* A call that another one leads to is of a longer path, or a link has been
\* followed on the way.
Climbs(i, k) ==
  (\E j \in i .. k - 1 : stack[j].at = "followed") \/ Len(stack[i].abs) < Len(stack[k].abs)
ClimbsInv == \A k \in 1 .. Len(stack) : \A i \in 1 .. k - 1 : Climbs(i, k)

LEMMA InitClimbs == Init => ClimbsInv
<1> SUFFICES ASSUME Init PROVE ClimbsInv
  OBVIOUS
<1>1. Len(stack) = 0
  BY DEF Init
<1> QED
  BY <1>1 DEF ClimbsInv

\* What the top frame comes to is nothing to the way up to it.
LEMMA WayUpIsKept ==
  ASSUME ClimbsInv, NEW n \in Nat \ {0}, n = Len(stack),
         NEW m \in 0 .. n,
         \A i \in 1 .. n - 1 : i <= m => stack'[i] = stack[i],
         m = n => stack'[n].abs = stack[n].abs
  PROVE  \A k \in 1 .. m : \A i \in 1 .. k - 1 : Climbs(i, k)'
<1> SUFFICES ASSUME NEW k \in 1 .. m, NEW i \in 1 .. k - 1 PROVE Climbs(i, k)'
  OBVIOUS
<1>1. Climbs(i, k)
  BY DEF ClimbsInv
<1>2. \A j \in i .. k - 1 : stack'[j] = stack[j]
  OBVIOUS
<1>3. stack'[k].abs = stack[k].abs
  BY m \in 0 .. n, k \in 1 .. m
<1>4. stack'[i] = stack[i]
  BY <1>2
<1> QED
  BY <1>1, <1>2, <1>3, <1>4 DEF Climbs

\* The frame that calls either follows a link or calls for a longer path.
LEMMA CallClimbs ==
  ASSUME ClimbsInv, stack \in Seq(Frame), stack # <<>>,
         NEW f \in Frame, NEW g \in Frame, Recurse(f, g), f.abs = Top.abs,
         f.at = "followed" \/ Len(f.abs) < Len(g.abs)
  PROVE  ClimbsInv'
<1> PICK n \in Nat \ {0} : n = Len(stack)
  BY TopIsFrame
<1>1. Top = stack[n]
  BY TopIsFrame
<1>2. /\ Len(stack') = n + 1 /\ \A i \in 1 .. n - 1 : stack'[i] = stack[i]
      /\ stack'[n] = f /\ stack'[n + 1] = g
  BY RecurseIs
<1>3. \A i \in 1 .. n : stack[i] \in Frame
  BY <1>1, ElementOfSeq
<1>4. \A i \in 1 .. n : Len(stack[i].abs) \in Nat
  BY <1>3, PathsAreSequences, LenProperties DEF Frame
<1>5. Len(g.abs) \in Nat /\ Len(f.abs) \in Nat
  BY PathsAreSequences, LenProperties DEF Frame
<1>6. \A k \in 1 .. n : \A i \in 1 .. k - 1 : Climbs(i, k)'
  <2>1. n \in 0 .. n
    OBVIOUS
  <2> QED
    BY <1>1, <1>2, <2>1, WayUpIsKept
<1>7. ASSUME NEW i \in 1 .. n PROVE Climbs(i, n + 1)'
  <2>1. CASE f.at = "followed"
    <3>1. n \in i .. (n + 1) - 1 /\ stack'[n].at = "followed"
      BY <1>1, <1>2, <2>1
    <3> QED
      BY <3>1 DEF Climbs
  <2>2. CASE Len(f.abs) < Len(g.abs) /\ i = n
    BY <1>2, <2>2 DEF Climbs
  <2>3. CASE Len(f.abs) < Len(g.abs) /\ i # n
    <3>1. i \in 1 .. n - 1 /\ n \in 1 .. n
      BY <1>1, <2>3
    <3>2. Climbs(i, n)'
      BY <1>6, <3>1
    <3>3. CASE \E j \in i .. n - 1 : stack'[j].at = "followed"
      <4>1. \E j \in i .. (n + 1) - 1 : stack'[j].at = "followed"
        BY <1>1, <3>3
      <4> QED
        BY <4>1 DEF Climbs
    <3>4. CASE Len(stack'[i].abs) < Len(stack'[n].abs)
      <4>1. Len(stack'[i].abs) \in Nat
        BY <1>2, <1>4, <3>1
      <4>2. Len(stack'[i].abs) < Len(stack'[n + 1].abs)
        BY <1>2, <1>5, <2>3, <3>4, <4>1
      <4> QED
        BY <4>2 DEF Climbs
    <3> QED
      BY <3>2, <3>3, <3>4 DEF Climbs
  <2> QED
    BY <2>1, <2>2, <2>3
<1>8. \A k \in 1 .. n + 1 : k \in 1 .. n \/ k = n + 1
  BY <1>1
<1>9. ASSUME NEW k \in 1 .. n + 1, NEW i \in 1 .. k - 1 PROVE Climbs(i, k)'
  <2>1. CASE k \in 1 .. n
    BY <1>6, <2>1
  <2>2. CASE k = n + 1
    <3>1. i \in 1 .. n
      BY <1>1, <2>2
    <3> QED
      BY <1>7, <2>2, <3>1
  <2> QED
    BY <1>8, <2>1, <2>2
<1>10. Len(stack') = n + 1
  BY <1>2
<1> QED
  BY <1>9, <1>10 DEF ClimbsInv, Climbs

LEMMA StepClimbs == ASSUME TypeInv, ClimbsInv, Step PROVE ClimbsInv'
<1>1. /\ stack # <<>> /\ stack \in Seq(Frame)
      /\ Top \in Frame /\ Top = stack[Len(stack)] /\ Len(stack) \in Nat \ {0}
  BY StepMoves, TopIsFrame DEF TypeInv
<1>2. CASE Pop
  <2> PICK n \in Nat \ {0} : n = Len(stack)
    BY <1>1
  <2> PICK m \in 0 .. n : m = n - 1
    OBVIOUS
  <2>1. Len(stack') = m /\ \A i \in 1 .. n - 1 : stack'[i] = stack[i]
    BY <1>1, <1>2, PopIs
  <2>2. /\ m # n
        /\ \A i \in 1 .. n - 1 : i <= m => stack'[i] = stack[i]
        /\ m = n => stack'[n].abs = stack[n].abs
    BY <2>1
  <2>3. \A k \in 1 .. m : \A i \in 1 .. k - 1 : Climbs(i, k)'
    BY ONLY ClimbsInv, n \in Nat \ {0}, n = Len(stack), m \in 0 .. n, <2>2, WayUpIsKept
  <2> QED
    BY <2>1, <2>3 DEF ClimbsInv, Climbs
<1>3. ASSUME NEW f \in Frame, f.abs = Top.abs, Len(stack') = Len(stack),
             \A i \in 1 .. Len(stack) - 1 : stack'[i] = stack[i],
             stack'[Len(stack)] = f
      PROVE  ClimbsInv'
  <2>1. Len(stack) \in 0 .. Len(stack)
    BY <1>1
  <2> QED
    BY <1>1, <1>3, <2>1, WayUpIsKept DEF ClimbsInv
<1>4. ASSUME NEW w \in {"readlink", "opendir", "list"}, Goto(w) PROVE ClimbsInv'
  <2> DEFINE f == [Top EXCEPT !.at = w]
  <2>1. f.abs = Top.abs
    BY <1>1 DEF Frame
  <2>2. /\ f \in Frame /\ Len(stack') = Len(stack) /\ stack'[Len(stack)] = f
        /\ \A i \in 1 .. Len(stack) - 1 : stack'[i] = stack[i]
    BY <1>1, <1>4, GotoIs
  <2> HIDE DEF f
  <2> QED
    BY <1>3, <2>1, <2>2
<1>5. CASE Abort
  BY <1>5, AbortIs DEF ClimbsInv
<1>6. CASE Stat
  BY <1>2, <1>4, <1>6, StatMoves
<1>7. CASE FollowLink
  <2>1. ASSUME tree[Top.abs].to \in Path,
               Recurse([Top EXCEPT !.at = "followed"], Call(tree[Top.abs].to, Top.rel))
        PROVE  ClimbsInv'
    <3> DEFINE f == [Top EXCEPT !.at = "followed"]
               g == Call(tree[Top.abs].to, Top.rel)
    <3>1. f \in Frame /\ f.abs = Top.abs /\ f.at = "followed"
      BY <1>1, FrameAt DEF Frame
    <3>2. g \in Frame
      BY <1>1, <2>1, CallIsFrame DEF Frame
    <3>3. Recurse(f, g)
      BY <2>1
    <3> HIDE DEF f, g
    <3> QED
      BY <1>1, <3>1, <3>2, <3>3, CallClimbs
  <2> QED
    BY <1>2, <1>5, <1>7, <2>1, FollowMoves
<1>8. CASE FollowReturns
  BY <1>2, <1>8, ReturnMoves
<1>9. CASE OpenDir
  BY <1>4, <1>5, <1>9, OpenMoves
<1>10. CASE ListDir
  <2>1. ASSUME NEW c \in Children(Top.abs),
               Recurse([Top EXCEPT !.seen = Top.seen \cup {c}],
                       Call(c, Append(Top.rel, c[Len(c)])))
        PROVE  ClimbsInv'
    <3> DEFINE f == [Top EXCEPT !.seen = Top.seen \cup {c}]
               g == Call(c, Append(Top.rel, c[Len(c)]))
    <3>1. Len(c) = Len(Top.abs) + 1 /\ f \in Frame /\ g \in Frame
      BY <1>1, ChildFrames
    <3>2. f.abs = Top.abs /\ g.abs = c
      BY <1>1 DEF Frame, Call
    <3>3. Recurse(f, g)
      BY <2>1
    <3>4. Len(Top.abs) \in Nat
      BY <1>1, PathsAreSequences, LenProperties DEF Frame
    <3> HIDE DEF f, g
    <3>5. Len(f.abs) < Len(g.abs)
      BY <3>1, <3>2, <3>4
    <3> QED
      BY <1>1, <3>1, <3>2, <3>3, <3>5, CallClimbs
  <2> QED
    BY <1>2, <1>10, <2>1, ListMoves
<1>11. CASE BadEntry
  <2>1. PICK c \in Children(Top.abs) :
          LET f == [Top EXCEPT !.seen = Top.seen \cup {c}] IN
          f \in Frame /\ stack' = [stack EXCEPT ![Len(stack)] = f]
    BY <1>11, BadMoves
  <2> DEFINE f == [Top EXCEPT !.seen = Top.seen \cup {c}]
  <2>2. f \in Frame /\ f.abs = Top.abs
    BY <1>1, <2>1 DEF Frame
  <2> HIDE DEF f
  <2>3. /\ Len(stack') = Len(stack) /\ stack'[Len(stack)] = f
        /\ \A i \in 1 .. Len(stack) - 1 : stack'[i] = stack[i]
    BY <1>1, <2>1, <2>2, EditIs DEF f
  <2> QED
    BY <1>3, <2>2, <2>3
<1> QED
  BY <1>6, <1>7, <1>8, <1>9, <1>10, <1>11 DEF Step

LEMMA ClimbsIsKept == TypeInv /\ FlowInv /\ ClimbsInv /\ [Next]_vars => ClimbsInv'
<1> SUFFICES ASSUME TypeInv, FlowInv, ClimbsInv, [Next]_vars PROVE ClimbsInv'
  OBVIOUS
<1>1. CASE Step
  BY <1>1, StepClimbs
<1>2. CASE NextSource
  <2>1. stack' = stack \/ stack' = <<Call(root', <<>>)>>
    BY <1>2, NextSourceMoves
  <2>2. CASE stack' = stack
    BY <2>2 DEF ClimbsInv, Climbs
  <2>3. CASE stack' = <<Call(root', <<>>)>>
    <3>1. Len(stack') = 1
      BY <2>3
    <3> QED
      BY <3>1 DEF ClimbsInv
  <2> QED
    BY <2>1, <2>2, <2>3
<1>3. CASE Overflow
  <2>1. Len(stack') = 0
    BY <1>3, OverflowMoves
  <2> QED
    BY <2>1 DEF ClimbsInv
<1>4. CASE ScanReturns \/ Receive \/ SourceDone \/ PlanDone \/ Vanish \/ UNCHANGED vars
  <2>1. stack' = stack
    BY <1>4 DEF ScanReturns, Receive, SourceDone, PlanDone, Vanish, vars, planVars
  <2> QED
    BY <2>1 DEF ClimbsInv, Climbs
<1> QED
  BY <1>1, <1>2, <1>3, <1>4 DEF Next, Step, Scanner, Planner, Finished

\* The scanner keeps no record of where it has been (scan.rs:81).  In any tree, with
\* circles and without, and whatever vanishes meanwhile, it comes back to an entry
\* that it is in only by a link it has followed in between (scan.rs:131).
THEOREM ScanReturnsByLink == Spec => []ReturnsByLink
<1>1. TypeInv /\ FlowInv /\ PlacedInv /\ [Next]_vars => PlacedInv'
  BY PlacedIsKept
<1>2. TypeInv /\ FlowInv /\ ClimbsInv /\ [Next]_vars => ClimbsInv'
  BY ClimbsIsKept
<1>3. TypeInv /\ PlacedInv /\ ClimbsInv => ReturnsByLink
  <2> SUFFICES ASSUME TypeInv, PlacedInv, ClimbsInv,
                      NEW i \in DOMAIN stack, NEW k \in DOMAIN stack, Circles(i, k)
               PROVE  /\ opts.symlinks = "follow"
                      /\ \E j \in i .. k - 1 : stack[j].at = "followed"
    BY DEF ReturnsByLink
  <2>1. /\ DOMAIN stack = 1 .. Len(stack) /\ Len(stack) \in Nat
        /\ \A j \in 1 .. Len(stack) : stack[j] \in Frame
    BY LenProperties, ElementOfSeq DEF TypeInv
  <2>2. Len(stack[k].abs) \in Nat
    BY <2>1, PathsAreSequences, LenProperties DEF Frame
  <2>3. i \in 1 .. k - 1 /\ stack[i].abs = stack[k].abs
    BY <2>1 DEF Circles
  <2>4. k \in 1 .. Len(stack) /\ Climbs(i, k)
    BY <2>1, <2>3 DEF ClimbsInv
  <2>5. ~(Len(stack[i].abs) < Len(stack[k].abs))
    BY <2>2, <2>3
  <2>6. PICK j \in i .. k - 1 : stack[j].at = "followed"
    BY <2>4, <2>5 DEF Climbs
  <2>7. stack[j] \in Frames
    BY <2>1, <2>3 DEF Frames
  <2> QED
    BY <2>6, <2>7 DEF PlacedInv
<1> QED
  BY InitPlaced, InitClimbs, <1>1, <1>2, <1>3, FlowHolds, PTL DEF Spec
-----------------------------------------------------------------------------
(* What is in a tree                                                       *)

LEMMA ExpectedIs ==
  ASSUME TypeInv, NEW p \in Path, NEW q \in Path
  PROVE  q \in Expected(p) <=>
           /\ Under(q, p)
           /\ Kind(q) \in {"dir", "file"} \/ (opts.symlinks = "preserve" /\ Kind(q) = "link")
BY DEF Expected

\* In what is no directory there is nothing.
LEMMA LeafIsAll ==
  ASSUME TypeInv, NEW p \in Path, Kind(p) # "dir"
  PROVE  Expected(p) \subseteq {p}
<1>1. ASSUME NEW q \in Expected(p), q # p PROVE FALSE
  <2>1. q \in Path /\ Under(q, p) /\ Kind(q) # "none"
    BY <1>1 DEF Expected
  <2>2. Kind(p) = "dir"
    BY <1>1, <2>1 DEF TypeInv, IsTree, Kind
  <2> QED
    BY <2>2
<1> QED
  BY <1>1

\* What is in a directory is one of its children or in one.
LEMMA InAChild ==
  ASSUME TypeInv, NEW p \in Path, NEW q \in Expected(p), q # p
  PROVE  ChildOn(q, p) \in Children(p) /\ q \in Expected(ChildOn(q, p))
<1> DEFINE c == ChildOn(q, p)
<1>1. q \in Path /\ Under(q, p) /\ Kind(q) # "none"
  BY DEF Expected
<1>2. c \in Path /\ Len(c) = Len(p) + 1 /\ Under(c, p) /\ Under(q, c)
  BY <1>1, Between
<1> HIDE DEF c
<1>3. Kind(c) # "none"
  BY <1>1, <1>2 DEF TypeInv, IsTree, Kind
<1>4. c \in Children(p)
  BY <1>2, <1>3 DEF Children
<1>5. q \in Expected(c)
  BY <1>2, ExpectedIs, <1>1
<1> QED
  BY <1>4, <1>5 DEF c

LEMMA OfAChild ==
  ASSUME TypeInv, NEW p \in Path, NEW c \in Children(p), NEW q \in Expected(c)
  PROVE  q \in Expected(p) /\ q # p /\ ChildOn(q, p) = c
<1>1. /\ q \in Path /\ Under(q, c)
      /\ c \in Path /\ Len(c) = Len(p) + 1 /\ Under(c, p)
  BY DEF Expected, Children
<1>2. q \in Seq(Name) /\ c \in Seq(Name) /\ p \in Seq(Name) /\ Len(p) \in Nat
  BY <1>1, PathsAreSequences
<1>3. Under(q, p)
  BY <1>1, <1>2, UnderTransitive
<1>4. q \in Expected(p)
  BY <1>1, <1>3, ExpectedIs
<1>5. Len(c) <= Len(q) /\ SubSeq(q, 1, Len(c)) = c
  BY <1>1 DEF Under
<1>6. ChildOn(q, p) = c /\ Len(q) # Len(p)
  BY <1>1, <1>2, <1>5, LenProperties DEF ChildOn
<1> QED
  BY <1>4, <1>6

LEMMA YetIs ==
  ASSUME TypeInv, NEW f \in Frame
  PROVE  \A p : p \in Yet(f) <=> /\ p \in Expected(f.abs)
                                 /\ f.at = "stat" \/ p # f.abs
                                 /\ f.at = "list" => ChildOn(p, f.abs) \notin f.seen
BY DEF Yet

\* What a call still has to find, at each of its points.
LEMMA YetAtStat ==
  ASSUME TypeInv, NEW f \in Frame, f.at = "stat"
  PROVE  /\ Kind(f.abs) = "dir" \/ Kind(f.abs) = "file" => f.abs \in Yet(f)
         /\ Kind(f.abs) = "link" /\ opts.symlinks = "preserve" => f.abs \in Yet(f)
         /\ Kind(f.abs) # "dir" => Yet(f) \subseteq {f.abs}
         /\ Kind(f.abs) = "special" => Yet(f) = {}
         /\ Kind(f.abs) = "link" /\ opts.symlinks # "preserve" => Yet(f) = {}
<1>1. f.abs \in Path /\ Under(f.abs, f.abs)
  BY PathsAreSequences, UnderItself DEF Frame
<1>2. \A p : p \in Yet(f) <=> p \in Expected(f.abs)
  BY YetIs
<1>3. f.abs \in Expected(f.abs) <=>
        Kind(f.abs) \in {"dir", "file"} \/ (opts.symlinks = "preserve" /\ Kind(f.abs) = "link")
  BY <1>1, ExpectedIs
<1>4. Kind(f.abs) # "dir" => Expected(f.abs) \subseteq {f.abs}
  BY <1>1, LeafIsAll
<1> QED
  BY <1>2, <1>3, <1>4

LEMMA YetAtOpen ==
  ASSUME TypeInv, NEW f \in Frame, f.at = "stat"
  PROVE  Yet([f EXCEPT !.at = "opendir"]) = Yet(f) \ {f.abs}
<1> DEFINE g == [f EXCEPT !.at = "opendir"]
<1>1. g \in Frame /\ g.abs = f.abs /\ g.at = "opendir"
  BY FrameAt DEF Frame
<1> HIDE DEF g
<1>2. \A p : p \in Yet(g) <=> p \in Yet(f) /\ p # f.abs
  BY <1>1, YetIs
<1> QED
  BY <1>2 DEF g

LEMMA YetAtList ==
  ASSUME TypeInv, NEW f \in Frame, f.at = "opendir", f.seen = {}
  PROVE  Yet([f EXCEPT !.at = "list"]) = Yet(f)
<1> DEFINE g == [f EXCEPT !.at = "list"]
<1>1. /\ g \in Frame
      /\ g.abs = f.abs /\ g.at = "list" /\ g.seen = {}
  <2>1. g \in Frame
    BY FrameAt
  <2>2. g.abs = f.abs /\ g.at = "list" /\ g.seen = {}
    BY DEF Frame
  <2> QED
    BY <2>1, <2>2
<1> HIDE DEF g
<1>2. \A p : p \in Yet(g) <=> p \in Yet(f)
  BY <1>1, YetIs
<1> QED
  BY <1>2 DEF g

LEMMA YetWhenListed ==
  ASSUME TypeInv, NEW f \in Frame, f.at = "list", Children(f.abs) \subseteq f.seen
  PROVE  Yet(f) = {}
<1>1. ASSUME NEW p \in Yet(f) PROVE FALSE
  <2>1. p \in Expected(f.abs) /\ p # f.abs /\ ChildOn(p, f.abs) \notin f.seen
    BY <1>1, YetIs
  <2>2. ChildOn(p, f.abs) \in Children(f.abs)
    BY <2>1, InAChild DEF Frame
  <2> QED
    BY <2>1, <2>2
<1> QED
  BY <1>1

LEMMA YetOfChild ==
  ASSUME TypeInv, NEW f \in Frame, f.at = "list", NEW c \in Children(f.abs), c \notin f.seen,
         NEW r \in Seq(Name)
  PROVE  LET h == [f EXCEPT !.seen = f.seen \cup {c}]
             g == Call(c, r)
         IN  Yet(h) \cup Yet(g) = Yet(f) /\ Yet(h) \cap Yet(g) = {}
<1> DEFINE h == [f EXCEPT !.seen = f.seen \cup {c}]
           g == Call(c, r)
<1>1. c \in Path /\ f.abs \in Path /\ f.seen \in SUBSET Path
  BY DEF Children, Frame
<1>2. h \in Frame /\ h.abs = f.abs /\ h.at = "list" /\ h.seen = f.seen \cup {c}
  <2>1. f.seen \cup {c} \in SUBSET Path
    BY <1>1
  <2>2. h \in Frame
    BY <2>1, FrameAt
  <2> QED
    BY <2>2 DEF Frame
<1>7. g \in Frame /\ g.abs = c /\ g.at = "stat"
  BY <1>1, CallIsFrame
<1> HIDE DEF h, g
<1>3. \A p : p \in Yet(g) <=> p \in Expected(c)
  BY <1>7, YetIs
<1>4. \A p : p \in Yet(h) <=> p \in Yet(f) /\ ChildOn(p, f.abs) # c
  BY <1>2, YetIs
<1>5. ASSUME NEW p \in Expected(c) PROVE p \in Yet(f) /\ ChildOn(p, f.abs) = c
  <2>1. p \in Expected(f.abs) /\ p # f.abs /\ ChildOn(p, f.abs) = c
    BY <1>1, OfAChild
  <2> QED
    BY <2>1, YetIs
<1>6. ASSUME NEW p \in Yet(f), ChildOn(p, f.abs) = c PROVE p \in Expected(c)
  <2>1. p \in Expected(f.abs) /\ p # f.abs
    BY YetIs
  <2> QED
    BY <1>1, <1>6, <2>1, InAChild
<1> QED
  BY <1>3, <1>4, <1>5, <1>6 DEF h, g
-----------------------------------------------------------------------------
(* The plan is the tree                                                    *)

\* What a frame has still to find is in no other's way: the top frame gives up
\* what it had to find, and those in its place take what is left of it.
LEMMA AwaitsOn ==
  ASSUME tree' = tree, opts' = opts, Apart,
         stack \in Seq(Frame), stack # <<>>, stack' \in Seq(Frame),
         Len(stack') >= Len(stack) - 1,
         \A i \in 1 .. Len(stack) - 1 : stack'[i] = stack[i],
         \A i \in Len(stack) .. Len(stack') : Yet(stack'[i]) \subseteq Yet(Top),
         \A i, k \in Len(stack) .. Len(stack') :
           i # k => Yet(stack'[i]) \cap Yet(stack'[k]) = {}
  PROVE  /\ Apart'
         /\ Yet(Top) \subseteq Awaited
         /\ \A p : p \in Awaited' <=> \/ p \in Awaited /\ p \notin Yet(Top)
                                      \/ \E i \in Len(stack) .. Len(stack') : p \in Yet(stack'[i])
<1> DEFINE n == Len(stack)
           m == Len(stack')
<1>1. n \in Nat \ {0} /\ m \in Nat /\ m >= n - 1 /\ Top = stack[n]
      /\ DOMAIN stack = 1 .. n /\ DOMAIN stack' = 1 .. m
  BY TopIsFrame, LenProperties
<1>2. \A f : Yet(f)' = Yet(f)
  BY DEF Yet, Expected, Kind
<1>3. /\ \A p : p \in Awaited <=> \E i \in 1 .. n : p \in Yet(stack[i])
      /\ \A p : p \in Awaited' <=> \E i \in 1 .. m : p \in Yet(stack'[i])
  BY <1>1, <1>2 DEF Awaited, Frames
<1>4. \A i, k \in 1 .. n : i # k => Yet(stack[i]) \cap Yet(stack[k]) = {}
  BY <1>1 DEF Apart
<1>5. /\ \A i \in 1 .. n - 1 : stack'[i] = stack[i]
      /\ \A i \in n .. m : Yet(stack'[i]) \subseteq Yet(stack[n])
      /\ \A i, k \in n .. m : i # k => Yet(stack'[i]) \cap Yet(stack'[k]) = {}
  BY <1>1
<1> HIDE DEF n, m
<1>6. ASSUME NEW i \in 1 .. m, NEW k \in 1 .. m, i # k
      PROVE  Yet(stack'[i]) \cap Yet(stack'[k]) = {}
  <2>1. CASE i \in 1 .. n - 1 /\ k \in 1 .. n - 1
    <3>1. i \in 1 .. n /\ k \in 1 .. n
      BY <1>1, <2>1
    <3> QED
      BY <1>4, <1>5, <1>6, <2>1, <3>1
  <2>2. CASE i \in 1 .. n - 1 /\ k \in n .. m
    <3>1. i \in 1 .. n /\ n \in 1 .. n /\ i # n
      BY <1>1, <2>2
    <3>2. Yet(stack[i]) \cap Yet(stack[n]) = {}
      BY <1>4, <3>1
    <3> QED
      BY <1>5, <2>2, <3>2
  <2>3. CASE i \in n .. m /\ k \in 1 .. n - 1
    <3>1. k \in 1 .. n /\ n \in 1 .. n /\ k # n
      BY <1>1, <2>3
    <3>2. Yet(stack[k]) \cap Yet(stack[n]) = {}
      BY <1>4, <3>1
    <3> QED
      BY <1>5, <2>3, <3>2
  <2>4. CASE i \in n .. m /\ k \in n .. m
    BY <1>5, <1>6, <2>4
  <2> QED
    BY <1>1, <2>1, <2>2, <2>3, <2>4
<1>7. Apart'
  BY <1>1, <1>2, <1>6 DEF Apart
<1>8. Yet(stack[n]) \subseteq Awaited
  BY <1>1, <1>3
<1>9. ASSUME NEW p
      PROVE  p \in Awaited' <=> \/ p \in Awaited /\ p \notin Yet(stack[n])
                               \/ \E i \in n .. m : p \in Yet(stack'[i])
  <2>1. ASSUME p \in Awaited'
        PROVE  \/ p \in Awaited /\ p \notin Yet(stack[n])
               \/ \E i \in n .. m : p \in Yet(stack'[i])
    <3>1. PICK i \in 1 .. m : p \in Yet(stack'[i])
      BY <1>3, <2>1
    <3>2. CASE i \in 1 .. n - 1
      <4>1. i \in 1 .. n /\ n \in 1 .. n /\ i # n /\ p \in Yet(stack[i])
        BY <1>1, <1>5, <3>1, <3>2
      <4> QED
        BY <1>3, <1>4, <4>1
    <3>3. CASE i \in n .. m
      BY <3>1, <3>3
    <3> QED
      BY <1>1, <3>2, <3>3
  <2>2. ASSUME p \in Awaited, p \notin Yet(stack[n]) PROVE p \in Awaited'
    <3>1. PICK i \in 1 .. n : p \in Yet(stack[i])
      BY <1>3, <2>2
    <3>2. i \in 1 .. n - 1 /\ i \in 1 .. m
      BY <1>1, <2>2, <3>1
    <3> QED
      BY <1>3, <1>5, <3>1, <3>2
  <2>3. ASSUME NEW i \in n .. m, p \in Yet(stack'[i]) PROVE p \in Awaited'
    <3>1. i \in 1 .. m
      BY <1>1
    <3> QED
      BY <1>3, <2>3, <3>1
  <2> QED
    BY <2>1, <2>2, <2>3
<1> QED
  BY <1>1, <1>7, <1>8, <1>9 DEF n, m

\* A call that returns, goes on, or calls another one.
LEMMA AwaitsAtPop ==
  ASSUME tree' = tree, opts' = opts, Apart, stack \in Seq(Frame), stack # <<>>, Pop
  PROVE  Apart' /\ Yet(Top) \subseteq Awaited /\ Awaited' = Awaited \ Yet(Top)
<1>1. /\ stack' \in Seq(Frame) /\ Len(stack') = Len(stack) - 1
      /\ \A i \in 1 .. Len(stack) - 1 : stack'[i] = stack[i]
  BY PopIs
<1>2. Len(stack) .. Len(stack') = {} /\ Len(stack') >= Len(stack) - 1
  BY <1>1, TopIsFrame
<1>3. /\ Apart' /\ Yet(Top) \subseteq Awaited
      /\ \A p : p \in Awaited' <=> \/ p \in Awaited /\ p \notin Yet(Top)
                                   \/ \E i \in Len(stack) .. Len(stack') : p \in Yet(stack'[i])
  BY <1>1, <1>2, AwaitsOn
<1> QED
  BY <1>2, <1>3

LEMMA AwaitsAtGoto ==
  ASSUME tree' = tree, opts' = opts, Apart, stack \in Seq(Frame), stack # <<>>,
         NEW w \in {"opendir", "list"}, Goto(w),
         Yet([Top EXCEPT !.at = w]) \subseteq Yet(Top)
  PROVE  /\ Apart' /\ Yet(Top) \subseteq Awaited
         /\ Awaited' = (Awaited \ Yet(Top)) \cup Yet([Top EXCEPT !.at = w])
<1> DEFINE n == Len(stack)
           f == [Top EXCEPT !.at = w]
<1>1. /\ stack' \in Seq(Frame) /\ Len(stack') = n /\ n \in Nat \ {0}
      /\ \A i \in 1 .. n - 1 : stack'[i] = stack[i]
      /\ stack'[n] = f
  BY GotoIs, TopIsFrame
<1>2. n .. n = {n} /\ n >= n - 1
  BY <1>1
<1> HIDE DEF f
<1>3. Yet(f) \subseteq Yet(Top)
  BY DEF f
<1>4. /\ Apart' /\ Yet(Top) \subseteq Awaited
      /\ \A p : p \in Awaited' <=> \/ p \in Awaited /\ p \notin Yet(Top)
                                   \/ \E i \in n .. n : p \in Yet(stack'[i])
  BY <1>1, <1>2, <1>3, AwaitsOn
<1>5. Awaited' = (Awaited \ Yet(Top)) \cup Yet(f)
  BY <1>1, <1>2, <1>4
<1> QED
  BY <1>4, <1>5 DEF f

LEMMA AwaitsAtCall ==
  ASSUME tree' = tree, opts' = opts, Apart, stack \in Seq(Frame), stack # <<>>,
         NEW f \in Frame, NEW g \in Frame, Recurse(f, g),
         Yet(f) \cup Yet(g) = Yet(Top), Yet(f) \cap Yet(g) = {}
  PROVE  Apart' /\ Awaited' = Awaited
<1> DEFINE n == Len(stack)
<1>1. /\ stack' \in Seq(Frame) /\ Len(stack') = n + 1 /\ n \in Nat \ {0}
      /\ \A i \in 1 .. n - 1 : stack'[i] = stack[i]
      /\ stack'[n] = f /\ stack'[n + 1] = g
  BY RecurseIs, TopIsFrame
<1>2. n .. n + 1 = {n, n + 1} /\ n + 1 >= n - 1
  BY <1>1
<1>3. \A i \in n .. n + 1 : Yet(stack'[i]) \subseteq Yet(Top)
  BY <1>1, <1>2
<1>4. \A i, k \in n .. n + 1 : i # k => Yet(stack'[i]) \cap Yet(stack'[k]) = {}
  BY <1>1, <1>2
<1>5. /\ Apart' /\ Yet(Top) \subseteq Awaited
      /\ \A p : p \in Awaited' <=> \/ p \in Awaited /\ p \notin Yet(Top)
                                   \/ \E i \in n .. n + 1 : p \in Yet(stack'[i])
  BY <1>1, <1>2, <1>3, <1>4, AwaitsOn
<1>6. \A p : p \in Awaited' <=> p \in Awaited
  BY <1>1, <1>2, <1>5
<1> QED
  BY <1>5, <1>6

\* One step of a scanner that meets no error finds nothing, or one thing that is
\* awaited and that is awaited no more.
Finds ==
  \/ Quiet /\ Awaited' = Awaited
  \/ \E k \in {"dir", "file", "link"} :
       Send(Item(k)) /\ Top.abs \in Awaited /\ Awaited' = Awaited \ {Top.abs}

LEMMA ErrorsCount ==
  ASSUME TypeInv, Send(Error), errsSent' = 0 PROVE FALSE
<1>1. errsSent' = errsSent + 1 /\ errsSent \in Nat
  BY DEF Send, TypeInv
<1> QED
  BY <1>1

LEMMA FoundAndReturned ==
  ASSUME TypeInv, Apart, stack # <<>>, UNCHANGED <<tree, opts>>, Pop,
         NEW k \in {"dir", "file", "link"}, Send(Item(k)), Yet(Top) = {Top.abs}
  PROVE  Apart' /\ Finds
<1>1. Apart' /\ Yet(Top) \subseteq Awaited /\ Awaited' = Awaited \ Yet(Top)
  BY AwaitsAtPop DEF TypeInv
<1>2. Top.abs \in Awaited /\ Awaited' = Awaited \ {Top.abs}
  BY <1>1
<1> QED
  BY <1>1, <1>2 DEF Finds

LEMMA ReturnedWithout ==
  ASSUME TypeInv, Apart, stack # <<>>, UNCHANGED <<tree, opts>>, Pop, Quiet, Yet(Top) = {}
  PROVE  Apart' /\ Finds
<1>1. Apart' /\ Awaited' = Awaited \ Yet(Top)
  BY AwaitsAtPop DEF TypeInv
<1>2. Awaited' = Awaited
  BY <1>1
<1> QED
  BY <1>1, <1>2 DEF Finds

LEMMA StatFinds ==
  ASSUME TypeInv, Apart, opts.symlinks # "follow", errsSent' = 0, Stat
  PROVE  Apart' /\ Finds
<1>1. /\ stack # <<>> /\ Top \in Frame /\ Top.at = "stat" /\ UNCHANGED <<tree, opts>>
      /\ stack \in Seq(Frame)
  BY StatMoves DEF Unmoved, TypeInv
<1>2. /\ Kind(Top.abs) = "dir" \/ Kind(Top.abs) = "file" => Top.abs \in Yet(Top)
      /\ Kind(Top.abs) = "link" /\ opts.symlinks = "preserve" => Top.abs \in Yet(Top)
      /\ Kind(Top.abs) # "dir" => Yet(Top) \subseteq {Top.abs}
      /\ Kind(Top.abs) = "special" => Yet(Top) = {}
      /\ Kind(Top.abs) = "link" /\ opts.symlinks # "preserve" => Yet(Top) = {}
  BY <1>1, YetAtStat
<1>3. CASE Pop /\ Send(Error)
  BY <1>3, ErrorsCount
<1>4. CASE Kind(Top.abs) = "file" /\ Pop /\ Send(Item("file"))
  <2>1. Yet(Top) = {Top.abs}
    BY <1>2, <1>4
  <2> QED
    BY <1>1, <1>4, <2>1, FoundAndReturned
<1>5. CASE Kind(Top.abs) = "dir" /\ Goto("opendir") /\ Send(Item("dir"))
  <2>1. Yet([Top EXCEPT !.at = "opendir"]) = Yet(Top) \ {Top.abs}
    BY <1>1, YetAtOpen
  <2>2. /\ Apart' /\ Yet(Top) \subseteq Awaited
        /\ Awaited' = (Awaited \ Yet(Top)) \cup Yet([Top EXCEPT !.at = "opendir"])
    BY <1>1, <1>5, <2>1, AwaitsAtGoto
  <2>3. Top.abs \in Awaited /\ Awaited' = Awaited \ {Top.abs}
    BY <1>2, <1>5, <2>1, <2>2
  <2> QED
    BY <1>5, <2>2, <2>3 DEF Finds
<1>6. CASE Kind(Top.abs) = "link" /\ opts.symlinks = "preserve" /\ Pop /\ Send(Item("link"))
  <2>1. Yet(Top) = {Top.abs}
    BY <1>2, <1>6
  <2> QED
    BY <1>1, <1>6, <2>1, FoundAndReturned
<1>7. CASE /\ Kind(Top.abs) = "special" \/ (Kind(Top.abs) = "link" /\ opts.symlinks = "skip")
           /\ Pop /\ Quiet
  <2>1. Yet(Top) = {}
    BY <1>2, <1>7
  <2> QED
    BY <1>1, <1>7, <2>1, ReturnedWithout
<1> QED
  BY <1>3, <1>4, <1>5, <1>6, <1>7, StatMoves

LEMMA OpenFinds ==
  ASSUME TypeInv, Apart, Fresh, errsSent' = 0, OpenDir
  PROVE  Apart' /\ Finds
<1>1. /\ stack # <<>> /\ Top \in Frame /\ Top.at = "opendir" /\ UNCHANGED <<tree, opts>>
      /\ stack \in Seq(Frame) /\ Goto("list") /\ Quiet
  BY OpenMoves, ErrorsCount DEF Unmoved, TypeInv, Abort
<1>2. Top.seen = {}
  BY <1>1, TopIsFrame DEF Fresh
<1>3. Yet([Top EXCEPT !.at = "list"]) = Yet(Top)
  BY <1>1, <1>2, YetAtList
<1>4. /\ Apart' /\ Yet(Top) \subseteq Awaited
      /\ Awaited' = (Awaited \ Yet(Top)) \cup Yet([Top EXCEPT !.at = "list"])
  BY <1>1, <1>3, AwaitsAtGoto
<1>5. Awaited' = Awaited
  BY <1>3, <1>4
<1> QED
  BY <1>1, <1>4, <1>5 DEF Finds

LEMMA ListFinds ==
  ASSUME TypeInv, Apart, ListDir
  PROVE  Apart' /\ Finds
<1>1. /\ stack # <<>> /\ Top \in Frame /\ Top.at = "list" /\ UNCHANGED <<tree, opts>>
      /\ stack \in Seq(Frame) /\ Quiet
  BY ListMoves DEF Unmoved, TypeInv
<1>2. CASE Children(Top.abs) \subseteq Top.seen /\ Pop
  <2>1. Yet(Top) = {}
    BY <1>1, <1>2, YetWhenListed
  <2> QED
    BY <1>1, <1>2, <2>1, ReturnedWithout
<1>3. ASSUME NEW c \in Children(Top.abs) \ Top.seen,
             Recurse([Top EXCEPT !.seen = Top.seen \cup {c}],
                     Call(c, Append(Top.rel, c[Len(c)])))
      PROVE  Apart' /\ Finds
  <2> DEFINE f == [Top EXCEPT !.seen = Top.seen \cup {c}]
             r == Append(Top.rel, c[Len(c)])
             g == Call(c, r)
  <2>1. f \in Frame /\ r \in Seq(Name) /\ g \in Frame
    BY <1>1, ChildFrames
  <2>2. Yet(f) \cup Yet(g) = Yet(Top) /\ Yet(f) \cap Yet(g) = {}
    <3> HIDE DEF r
    <3> QED
      BY <1>1, <2>1, YetOfChild
  <2>3. Recurse(f, g)
    BY <1>3
  <2> HIDE DEF f, r, g
  <2> QED
    BY <1>1, <2>1, <2>2, <2>3, AwaitsAtCall DEF Finds
<1> QED
  BY <1>2, <1>3, ListMoves

LEMMA WasUndisturbed == ASSUME TypeInv, Undisturbed', Step PROVE Undisturbed /\ changes' = changes
<1>1. errsSent' = 0 /\ changes' = 0 /\ opts.symlinks # "follow" /\ Says
      /\ errsSent \in Nat /\ changes \in Nat
  BY StepMoves, ScanAssumption DEF Undisturbed, Unmoved, TypeInv
<1>2. errsSent = 0
  BY <1>1 DEF Says, Quiet, Send
<1>3. ~BadEntry
  BY <1>1, BadMoves
<1>4. changes' = changes
  BY <1>3, StatMoves, FollowMoves, ReturnMoves, OpenMoves, ListMoves DEF Step
<1> QED
  BY <1>1, <1>2, <1>4 DEF Undisturbed

LEMMA StepFinds ==
  ASSUME TypeInv, PlacedInv, Apart, Fresh, Undisturbed', Step
  PROVE  Apart' /\ Finds
<1>1. errsSent' = 0 /\ changes' = changes /\ opts.symlinks # "follow" /\ changes \in Nat
      /\ stack \in Seq(Frame)
  BY WasUndisturbed, ScanAssumption DEF Undisturbed, TypeInv
<1>2. ASSUME stack # <<>>, Top.at \in {"readlink", "followed"} PROVE FALSE
  <2>1. Top \in Frames
    BY <1>1, <1>2, TopIsFrame
  <2> QED
    BY <1>1, <1>2, <2>1 DEF PlacedInv
<1>3. CASE Stat
  BY <1>1, <1>3, StatFinds
<1>4. CASE FollowLink
  BY <1>2, <1>4, FollowMoves
<1>5. CASE FollowReturns
  BY <1>2, <1>5, ReturnMoves
<1>6. CASE OpenDir
  BY <1>1, <1>6, OpenFinds
<1>7. CASE ListDir
  BY <1>7, ListFinds
<1>8. CASE BadEntry
  BY <1>1, <1>8, BadMoves
<1> QED
  BY <1>3, <1>4, <1>5, <1>6, <1>7, <1>8 DEF Step

\* What the planning thread adds to the plan is of the source it reads.
LEMMA PlannedGrows ==
  ASSUME entries \in Seq(Line), NEW e \in Line, entries' = Append(entries, e)
  PROVE  /\ DOMAIN entries' = DOMAIN entries \cup {Len(entries) + 1}
         /\ Len(entries) + 1 \notin DOMAIN entries
         /\ entries'[Len(entries) + 1] = e
         /\ \A i \in DOMAIN entries : entries'[i] = entries[i]
         /\ \A s : Planned(s)' = IF s = e.src THEN Planned(s) \cup {e.item.source} ELSE Planned(s)
<1>1. /\ DOMAIN entries' = DOMAIN entries \cup {Len(entries) + 1}
      /\ Len(entries) + 1 \notin DOMAIN entries
      /\ entries'[Len(entries) + 1] = e
      /\ \A i \in DOMAIN entries : entries'[i] = entries[i]
  <2>1. /\ Len(entries) \in Nat /\ entries' \in Seq(Line) /\ Len(entries') = Len(entries) + 1
        /\ \A i \in 1 .. Len(entries) : entries'[i] = entries[i]
        /\ entries'[Len(entries) + 1] = e
    BY AppendProperties, LenProperties
  <2>2. DOMAIN entries = 1 .. Len(entries) /\ DOMAIN entries' = 1 .. Len(entries) + 1
    BY <2>1, LenProperties
  <2> QED
    BY <2>1, <2>2
<1>2. ASSUME NEW s
      PROVE  Planned(s)' = IF s = e.src THEN Planned(s) \cup {e.item.source} ELSE Planned(s)
  BY <1>1 DEF Planned
<1> QED
  BY <1>1, <1>2

LEMMA StepKeepsFresh ==
  ASSUME TypeInv, Fresh, Step PROVE Fresh'
<1>1. stack # <<>> /\ stack \in Seq(Frame) /\ Top \in Frame /\ Top \in Frames
  BY StepMoves, TopIsFrame DEF TypeInv
<1>2. CASE Pop
  BY <1>1, <1>2, PopIs DEF Fresh
<1>3. CASE Abort
  BY <1>3, AbortIs DEF Fresh
<1>4. ASSUME NEW w \in {"readlink", "opendir", "list"}, Goto(w), Top.at = "stat" \/ w = "list"
      PROVE  Fresh'
  <2> DEFINE f == [Top EXCEPT !.at = w]
  <2>1. f.at = w /\ f.seen = Top.seen
    BY <1>1 DEF Frame
  <2>2. Frames' \subseteq Frames \cup {f}
    BY <1>1, <1>4, GotoIs
  <2> HIDE DEF f
  <2> QED
    BY <1>1, <1>4, <2>1, <2>2 DEF Fresh
<1>5. ASSUME NEW f \in Frame, NEW g \in Frame, Recurse(f, g),
             f.at \notin {"stat", "opendir"}, g.seen = {}
      PROVE  Fresh'
  <2>1. Frames' \subseteq Frames \cup {f, g}
    BY <1>1, <1>5, RecurseIs
  <2> QED
    BY <1>5, <2>1 DEF Fresh
<1>6. CASE Stat
  BY <1>2, <1>4, <1>6, StatMoves
<1>7. CASE FollowLink
  <2>1. ASSUME NEW p \in Path, Recurse([Top EXCEPT !.at = "followed"], Call(p, Top.rel))
        PROVE  Fresh'
    <3>1. [Top EXCEPT !.at = "followed"] \in Frame
      BY <1>1, FrameAt
    <3>2. [Top EXCEPT !.at = "followed"].at = "followed"
      BY <1>1 DEF Frame
    <3>3. Call(p, Top.rel) \in Frame /\ Call(p, Top.rel).seen = {}
      BY <1>1, CallIsFrame DEF Frame
    <3> QED
      BY <1>5, <2>1, <3>1, <3>2, <3>3
  <2> QED
    BY <1>2, <1>3, <1>7, <2>1, FollowMoves
<1>8. CASE FollowReturns
  BY <1>2, <1>8, ReturnMoves
<1>9. CASE OpenDir
  BY <1>3, <1>4, <1>9, OpenMoves
<1>10. CASE ListDir
  <2>1. Top.at = "list"
    BY <1>10, ListMoves
  <2>2. ASSUME NEW c \in Children(Top.abs),
               Recurse([Top EXCEPT !.seen = Top.seen \cup {c}],
                       Call(c, Append(Top.rel, c[Len(c)])))
        PROVE  Fresh'
    <3> DEFINE f == [Top EXCEPT !.seen = Top.seen \cup {c}]
               g == Call(c, Append(Top.rel, c[Len(c)]))
    <3>1. f \in Frame /\ g \in Frame
      BY <1>1, ChildFrames
    <3>2. f.at = "list" /\ g.seen = {}
      BY <1>1, <2>1 DEF Frame, Call
    <3>3. Recurse(f, g)
      BY <2>2
    <3> HIDE DEF f, g
    <3> QED
      BY <1>5, <3>1, <3>2, <3>3
  <2> QED
    BY <1>2, <1>10, <2>2, ListMoves
<1>11. CASE BadEntry
  <2>1. PICK c \in Children(Top.abs) :
          LET f == [Top EXCEPT !.seen = Top.seen \cup {c}] IN
          f \in Frame /\ stack' = [stack EXCEPT ![Len(stack)] = f]
    BY <1>11, BadMoves
  <2> DEFINE f == [Top EXCEPT !.seen = Top.seen \cup {c}]
  <2>2. f \in Frame /\ f.at = "list"
    BY <1>1, <1>11, <2>1, BadMoves DEF Frame
  <2> HIDE DEF f
  <2>3. Frames' \subseteq Frames \cup {f}
    BY <1>1, <2>1, <2>2, EditIs DEF f
  <2> QED
    BY <2>2, <2>3 DEF Fresh
<1> QED
  BY <1>6, <1>7, <1>8, <1>9, <1>10, <1>11 DEF Step

\* A step of the scanner: what is sent was awaited.
LEMMA StepKeepsComplete ==
  ASSUME TypeInv, FlowInv, PlacedInv, CompleteInv, Step PROVE CompleteInv'
<1>1. /\ Unmoved /\ scan = "running" /\ plan \in {"reading", "error"}
      /\ chan \in Seq(Found \cup {Error}) /\ errsSent \in Nat
      /\ Top \in Frame /\ Begun /\ Fresh
  BY StepMoves, TopIsFrame DEF TypeInv, FlowInv, CompleteInv
<1>2. Begun' /\ Fresh'
  BY <1>1, StepKeepsFresh DEF Begun, Unmoved
<1>3. SUFFICES ASSUME Undisturbed' PROVE (Through /\ FromRoots /\ Covered /\ (plan \notin {"error", "killed"} => OnceInv))'
  BY <1>2 DEF CompleteInv
<1>4. /\ \A s : Planned(s)' = Planned(s)
      /\ \A s : Expected(s)' = Expected(s)
      /\ \A s : Canon(s)' = Canon(s)
  BY <1>1 DEF Unmoved, Planned, Expected, Canon, Kind
<1>5. Undisturbed
  BY <1>3, WasUndisturbed
<1>6. Through /\ FromRoots /\ Covered /\ (plan \notin {"error", "killed"} => OnceInv)
  BY <1>5 DEF CompleteInv
<1>7. Through' /\ FromRoots'
  BY <1>1, <1>4, <1>6 DEF Through, FromRoots, Unmoved
<1>8. CASE plan = "error"
  BY <1>1, <1>7, <1>8 DEF Covered, Unmoved
<1>9. CASE plan = "reading"
  <2>1. Apart' /\ Finds /\ OnceInv
    BY <1>1, <1>3, <1>6, <1>9, StepFinds DEF OnceInv
  <2>2. CASE Quiet /\ Awaited' = Awaited
    <3>1. chan' = chan /\ Coming' = Coming /\ Planned(ix)' = Planned(ix)
      BY <1>1, <1>4, <2>2 DEF Quiet, Coming, Unmoved
    <3>2. Covered'
      BY <1>1, <1>4, <1>6, <2>2, <3>1 DEF Covered, Unmoved
    <3>3. OnceInv'
      BY <1>1, <2>1, <2>2, <3>1 DEF OnceInv, Unmoved
    <3> QED
      BY <1>7, <3>2, <3>3
  <2>3. ASSUME NEW k \in {"dir", "file", "link"},
               Send(Item(k)), Top.abs \in Awaited, Awaited' = Awaited \ {Top.abs}
        PROVE  Covered' /\ OnceInv'
    <3>1. Item(k) \in Found /\ Item(k).source = Top.abs
      BY <1>1, ItemIsFound
    <3>2. /\ DOMAIN chan' = DOMAIN chan \cup {Len(chan) + 1}
          /\ Len(chan) + 1 \notin DOMAIN chan
          /\ chan'[Len(chan) + 1].source = Top.abs
          /\ \A i \in DOMAIN chan : chan'[i] = chan[i]
      BY <1>1, <1>9, <2>3, <3>1, SendIs
    <3>3. Coming' = Coming \cup {Top.abs} /\ Planned(ix)' = Planned(ix)
      BY <1>1, <1>4, <3>2 DEF Coming, Unmoved
    <3>4. Covered'
      BY <1>1, <1>4, <1>6, <2>3, <3>3 DEF Covered, Unmoved
    <3>5. \A i, j \in DOMAIN chan' : chan'[i].source = chan'[j].source => i = j
      <4>1. Top.abs \notin Coming
        BY <2>1, <2>3 DEF OnceInv
      <4>2. \A i \in DOMAIN chan : chan[i].source # Top.abs
        BY <4>1 DEF Coming
      <4>3. \A i, j \in DOMAIN chan : chan[i].source = chan[j].source => i = j
        BY <2>1 DEF OnceInv
      <4> QED
        BY <3>2, <4>2, <4>3
    <3>6. Planned(ix)' \cap Coming' = {} /\ (Planned(ix)' \cup Coming') \cap Awaited' = {}
      BY <2>1, <2>3, <3>3 DEF OnceInv
    <3>7. OnceInv'
      BY <1>1, <2>1, <3>5, <3>6 DEF OnceInv, Unmoved
    <3> QED
      BY <3>4, <3>7
  <2> QED
    BY <1>7, <2>1, <2>2, <2>3 DEF Finds
<1> QED
  BY <1>1, <1>8, <1>9

LEMMA NextSourceKeepsComplete ==
  ASSUME TypeInv, FlowInv, CompleteInv, NextSource PROVE CompleteInv'
<1>1. /\ plan = "next" /\ ix \in 1 .. Len(sources) /\ root' = Canon(sources[ix])
      /\ UNCHANGED <<tree, sources, opts, ix, chan, entries, changes, errsSent>>
      /\ \/ root' = NoPath /\ plan' = "error" /\ UNCHANGED <<stack, scan>>
         \/ /\ root' \in Path /\ plan' = "reading"
            /\ Call(root', <<>>) \in Frame /\ stack' = <<Call(root', <<>>)>>
            /\ Frames' = {Call(root', <<>>)}
  BY NextSourceMoves
<1>2. chan = <<>> /\ Begun /\ \A i \in DOMAIN entries : entries[i].src # ix
  BY <1>1 DEF FlowInv, CompleteInv, Begun
<1>3. /\ \A s : Planned(s)' = Planned(s)
      /\ \A s : Expected(s)' = Expected(s)
      /\ \A s : Canon(s)' = Canon(s)
      /\ \A f : Yet(f)' = Yet(f)
      /\ Coming' = {} /\ Planned(ix) = {} /\ DOMAIN chan' = {}
  BY <1>1, <1>2 DEF Planned, Expected, Canon, Kind, Yet, Coming
<1>4. Begun'
  BY <1>1, <1>2 DEF Begun
<1>5. Fresh'
  <2>1. CASE stack' = stack
    BY <2>1 DEF CompleteInv, Fresh, Frames
  <2>2. CASE Frames' = {Call(root', <<>>)}
    BY <2>2 DEF Fresh, Call
  <2> QED
    BY <1>1, <2>1, <2>2
<1>6. SUFFICES ASSUME Undisturbed' PROVE (Through /\ FromRoots /\ Covered /\ (plan \notin {"error", "killed"} => OnceInv))'
  BY <1>4, <1>5 DEF CompleteInv
<1>7. Through /\ FromRoots /\ OnceInv
  BY <1>1, <1>6 DEF CompleteInv, Undisturbed
<1>8. Through' /\ FromRoots'
  BY <1>1, <1>3, <1>7 DEF Through, FromRoots
<1>9. CASE plan' = "error"
  BY <1>8, <1>9 DEF Covered
<1>10. CASE root' \in Path /\ plan' = "reading" /\ stack' = <<Call(root', <<>>)>>
  <2> DEFINE g == Call(root', <<>>)
  <2>1. g.at = "stat" /\ g.abs = root' /\ g \in Frame
    BY <1>1, <1>10 DEF Call
  <2>2. stack' = <<g>>
    BY <1>10
  <2> HIDE DEF g
  <2>3. DOMAIN stack' = {1} /\ stack'[1] = g
    BY <2>1, <2>2
  <2>4. Awaited' = Yet(g)
    BY <1>3, <2>3 DEF Awaited, Frames
  <2>5. Yet(g) = Expected(root')
    BY <2>1 DEF Yet
  <2>6. Expected(root)' = Expected(root')
    BY <1>1 DEF Expected, Kind
  <2>7. Covered'
    BY <1>1, <1>3, <2>4, <2>5, <2>6 DEF Covered
  <2>8. Apart'
    BY <2>3 DEF Apart
  <2>9. OnceInv'
    BY <1>1, <1>3, <1>7, <2>8 DEF OnceInv
  <2> QED
    BY <1>8, <2>7, <2>9
<1> QED
  BY <1>1, <1>9, <1>10

LEMMA ReceiveKeepsComplete ==
  ASSUME TypeInv, FlowInv, PlacedInv, CompleteInv, Receive PROVE CompleteInv'
<1>1. /\ plan = "reading" /\ UNCHANGED <<planVars, ix, root, scan>>
      /\ ix \in 1 .. Len(sources) /\ Head(chan) = chan[1] /\ 1 \in DOMAIN chan
  BY ReceiveMoves
<1>2. /\ \A s : Expected(s)' = Expected(s)
      /\ \A s : Canon(s)' = Canon(s)
      /\ \A f : Yet(f)' = Yet(f)
  BY <1>1 DEF planVars, Expected, Canon, Kind, Yet
<1>3. Awaited' = Awaited /\ Frames' = Frames
  BY <1>1, <1>2 DEF planVars, Awaited, Frames
<1>4. Fresh'
  BY <1>3 DEF CompleteInv, Fresh
<1>5. CASE Head(chan) = Error
  <2>1. plan' = "error" /\ entries' = entries
    BY <1>5 DEF Receive
  <2>2. Begun'
    BY <1>1, <2>1 DEF CompleteInv, Begun
  <2>3. ~Undisturbed'
    BY <1>1, <1>5 DEF FlowInv, Undisturbed, planVars
  <2> QED
    BY <1>4, <2>2, <2>3 DEF CompleteInv
<1>6. CASE Head(chan) # Error
  <2> DEFINE m == Head(chan)
             r == Canon(sources[ix])
             e == [item |-> m, src |-> ix, dst |-> Below(m.source, r)]
  <2>1. /\ m \in Found /\ plan' = plan
        /\ \A i \in DOMAIN chan' : i + 1 \in DOMAIN chan /\ chan'[i] = chan[i + 1]
        /\ \A i \in DOMAIN chan : i = 1 \/ (i - 1 \in DOMAIN chan' /\ chan'[i - 1] = chan[i])
        /\ IF r # NoPath /\ Under(m.source, r)
             THEN e \in Line /\ entries' = Append(entries, e) ELSE entries' = entries
    BY <1>6, ReceiveMoves
  <2>2. e.src = ix /\ e.item = m /\ e.dst = Below(m.source, r)
    OBVIOUS
  <2>3. entries \in Seq(Line) /\ chan[1] = m /\ m.source \in Path /\ root \in Path
    BY <1>1, <2>1 DEF TypeInv, Found
  <2>4. opts.symlinks # "follow" => m.source = root \o m.rel
    BY <1>1, <1>6, <2>3 DEF PlacedInv
  <2> HIDE DEF m, e
  <2>5. Begun'
    <3>1. CASE entries' = entries
      BY <1>1, <2>1, <3>1 DEF CompleteInv, Begun, planVars
    <3>2. CASE e \in Line /\ entries' = Append(entries, e)
      <4>1. /\ DOMAIN entries' = DOMAIN entries \cup {Len(entries) + 1}
            /\ entries'[Len(entries) + 1] = e
            /\ \A i \in DOMAIN entries : entries'[i] = entries[i]
        BY <2>3, <3>2, PlannedGrows
      <4>2. ix \in 1 .. ix
        BY <1>1
      <4> QED
        BY <1>1, <2>1, <2>2, <4>1, <4>2 DEF CompleteInv, Begun, planVars
    <3> QED
      BY <2>1, <3>1, <3>2
  <2>6. SUFFICES ASSUME Undisturbed' PROVE (Through /\ FromRoots /\ Covered /\ OnceInv)'
    BY <1>4, <2>5 DEF CompleteInv
  <2>7. /\ opts.symlinks # "follow" /\ Through /\ FromRoots /\ Covered /\ OnceInv
    BY <1>1, <2>6 DEF CompleteInv, Undisturbed, planVars
  <2>8. r = root /\ Under(m.source, root) /\ m.source = root \o Below(m.source, root)
    <3>1. r = root
      BY <1>1, <2>7 DEF Covered
    <3>2. Under(m.source, root)
      BY <2>1, <2>4, <2>7, ItemBelow
    <3> QED
      BY <2>3, <3>1, <3>2, PathsAreSequences, BelowCompletes
  <2>9. /\ DOMAIN entries' = DOMAIN entries \cup {Len(entries) + 1}
        /\ Len(entries) + 1 \notin DOMAIN entries
        /\ entries'[Len(entries) + 1] = e
        /\ \A i \in DOMAIN entries : entries'[i] = entries[i]
        /\ \A s : Planned(s)' = IF s = ix THEN Planned(s) \cup {m.source} ELSE Planned(s)
    <3>1. e \in Line /\ entries' = Append(entries, e)
      BY <2>1, <2>3, <2>8, PathsAreSequences
    <3> QED
      BY <2>2, <2>3, <3>1, PlannedGrows
  <2>10. Coming = Coming' \cup {m.source} /\ m.source \notin Coming'
    <3>1. DOMAIN chan = 1 .. Len(chan) /\ Len(chan) \in Nat
      BY LenProperties DEF TypeInv
    <3>2. \A i, k \in DOMAIN chan : chan[i].source = chan[k].source => i = k
      BY <2>7 DEF OnceInv
    <3>3. DOMAIN chan' \subseteq Nat \ {0}
      <4>1. chan' \in Seq(Found \cup {Error})
        BY <1>6, ReceiveMoves
      <4> QED
        BY <4>1, LenProperties
    <3>4. \A i \in DOMAIN chan' : chan'[i].source # m.source
      <4>1. ASSUME NEW i \in DOMAIN chan' PROVE chan'[i].source # m.source
        <5>1. i + 1 \in DOMAIN chan /\ chan'[i] = chan[i + 1] /\ i + 1 # 1
          BY <2>1, <3>3
        <5> QED
          BY <1>1, <2>3, <3>2, <5>1
      <4> QED
        BY <4>1
    <3>5. Coming \subseteq Coming' \cup {m.source}
      BY <2>1, <2>3 DEF Coming
    <3>6. Coming' \cup {m.source} \subseteq Coming
      BY <1>1, <2>1, <2>3 DEF Coming
    <3> QED
      BY <3>4, <3>5, <3>6 DEF Coming
  <2>11. Through'
    <3>1. ix' = ix /\ sources' = sources /\ \A s \in 1 .. ix - 1 : s # ix
      BY <1>1 DEF planVars
    <3> QED
      BY <1>2, <2>7, <2>9, <3>1 DEF Through
  <2>12. FromRoots'
    <3>1. e.item.source = Canon(sources[e.src]) \o e.dst
      BY <2>2, <2>8
    <3> QED
      BY <1>1, <1>2, <2>7, <2>9, <3>1 DEF FromRoots, planVars
  <2>13. Covered'
    <3>1. root' = root /\ ix' = ix /\ sources' = sources /\ plan' = plan
      BY <1>1, <2>1 DEF planVars
    <3>2. Expected(root) = Planned(ix) \cup Coming \cup Awaited
      BY <1>1, <2>7 DEF Covered
    <3>3. Planned(ix)' = Planned(ix) \cup {m.source}
      BY <2>9, <3>1
    <3>4. Expected(root)' = Expected(root)
      BY <1>2, <3>1
    <3>5. Expected(root)' = Planned(ix)' \cup Coming' \cup Awaited'
      BY <1>3, <2>10, <3>2, <3>3, <3>4
    <3> QED
      BY <1>1, <1>2, <2>8, <3>1, <3>5 DEF Covered
  <2>14. OnceInv'
    <3>1. Planned(ix)' = Planned(ix) \cup {m.source}
      BY <1>1, <2>9
    <3>2. Planned(ix)' \cap Coming' = {} /\ (Planned(ix)' \cup Coming') \cap Awaited' = {}
      BY <1>3, <2>7, <2>10, <3>1 DEF OnceInv
    <3>3. \A i \in DOMAIN entries : entries[i].src = ix => entries[i].item.source # m.source
      <4>1. m.source \notin Planned(ix)
        BY <2>7, <2>10 DEF OnceInv
      <4> QED
        BY <4>1 DEF Planned
    <3>4. \A i, k \in DOMAIN entries' :
            entries'[i].src = entries'[k].src /\ entries'[i].item.source = entries'[k].item.source
              => i = k
      BY <2>2, <2>7, <2>9, <3>3 DEF OnceInv
    <3>5. \A i, k \in DOMAIN chan' : chan'[i].source = chan'[k].source => i = k
      <4>1. DOMAIN chan' \subseteq Nat
        <5>1. chan' \in Seq(Found \cup {Error})
          BY <1>6, ReceiveMoves
        <5> QED
          BY <5>1, LenProperties
      <4>2. ASSUME NEW i \in DOMAIN chan', NEW k \in DOMAIN chan', chan'[i].source = chan'[k].source
            PROVE  i = k
        <5>1. i + 1 = k + 1
          BY <2>1, <2>7, <4>2 DEF OnceInv
        <5> QED
          BY <4>1, <5>1
      <4> QED
        BY <4>2
    <3>6. Apart'
      BY <1>1, <1>2, <2>7 DEF Apart, OnceInv, planVars
    <3> QED
      BY <3>2, <3>4, <3>5, <3>6 DEF OnceInv
  <2> QED
    BY <2>11, <2>12, <2>13, <2>14
<1> QED
  BY <1>5, <1>6

LEMMA SourceDoneKeepsComplete ==
  ASSUME TypeInv, FlowInv, CompleteInv, SourceDone PROVE CompleteInv'
<1>1. /\ plan = "reading" /\ plan' = "next" /\ chan = <<>> /\ scan = "over"
      /\ ix' = ix + 1 /\ ix \in 1 .. Len(sources)
      /\ UNCHANGED <<planVars, root, scan, chan, entries>>
  BY SourceDoneMoves
<1>2. /\ \A s : Planned(s)' = Planned(s)
      /\ \A s : Expected(s)' = Expected(s)
      /\ \A s : Canon(s)' = Canon(s)
  BY <1>1 DEF planVars, Planned, Expected, Canon, Kind
<1>3. stack = <<>> /\ Frames = {} /\ Awaited = {} /\ Coming = {} /\ DOMAIN chan = {}
  BY <1>1 DEF FlowInv, Frames, Awaited, Coming
<1>4. Frames' = {} /\ Awaited' = {} /\ Coming' = {} /\ DOMAIN stack' = {} /\ DOMAIN chan' = {}
  BY <1>1, <1>3 DEF planVars, Frames, Awaited, Coming
<1>5. Begun'
  <2>1. \A i \in DOMAIN entries : entries[i].src \in 1 .. ix
    BY DEF CompleteInv, Begun
  <2>2. \A s \in 1 .. ix : s \in 1 .. ix + 1 /\ s # ix + 1
    BY <1>1
  <2> QED
    BY <1>1, <2>1, <2>2 DEF Begun
<1>6. Fresh'
  BY <1>4 DEF Fresh
<1>7. SUFFICES ASSUME Undisturbed' PROVE (Through /\ FromRoots /\ Covered /\ OnceInv)'
  BY <1>5, <1>6 DEF CompleteInv
<1>8. Through /\ FromRoots /\ Covered /\ OnceInv
  BY <1>1, <1>7 DEF CompleteInv, Undisturbed, planVars
<1>9. Planned(ix) = Expected(Canon(sources[ix]))
  BY <1>1, <1>3, <1>8 DEF Covered
<1>10. Through'
  <2>1. \A s \in 1 .. (ix + 1) - 1 : s \in 1 .. ix - 1 \/ s = ix
    BY <1>1
  <2> QED
    BY <1>1, <1>2, <1>8, <1>9, <2>1 DEF Through, planVars
<1>11. FromRoots'
  BY <1>1, <1>2, <1>8 DEF FromRoots, planVars
<1>12. Covered'
  BY <1>1 DEF Covered
<1>13. OnceInv'
  BY <1>1, <1>4, <1>8 DEF OnceInv, Apart
<1> QED
  BY <1>10, <1>11, <1>12, <1>13

LEMMA InitComplete == Init => CompleteInv
<1> SUFFICES ASSUME Init PROVE CompleteInv
  OBVIOUS
<1>1. /\ DOMAIN entries = {} /\ DOMAIN chan = {} /\ DOMAIN stack = {}
      /\ ix = 1 /\ 1 .. ix - 1 = {} /\ plan = "next"
  BY DEF Init
<1>2. Frames = {} /\ Awaited = {} /\ Coming = {}
  BY <1>1 DEF Frames, Awaited, Coming
<1>3. Begun /\ Fresh /\ Through /\ FromRoots /\ Covered
  BY <1>1, <1>2 DEF Begun, Fresh, Through, FromRoots, Covered
<1>4. OnceInv
  BY <1>1, <1>2 DEF OnceInv, Apart
<1> QED
  BY <1>3, <1>4 DEF CompleteInv

\* Nothing that CompleteInv is about.
LEMMA CompleteIsSame ==
  ASSUME CompleteInv, UNCHANGED <<tree, sources, opts, ix, root, stack, chan, entries, changes, errsSent>>,
         \/ plan' = plan
         \/ plan = "next" /\ plan' = "ok"
  PROVE  CompleteInv'
<1>1. /\ \A s : Planned(s)' = Planned(s)
      /\ \A s : Expected(s)' = Expected(s)
      /\ \A s : Canon(s)' = Canon(s)
      /\ \A f : Yet(f)' = Yet(f)
      /\ Frames' = Frames /\ Coming' = Coming /\ Undisturbed' = Undisturbed
  BY DEF Planned, Expected, Canon, Kind, Yet, Coming, Frames, Undisturbed
<1>2. Awaited' = Awaited
  BY <1>1 DEF Awaited
<1>3. Begun' /\ Fresh'
  BY <1>1 DEF CompleteInv, Begun, Fresh
<1>4. Through => Through'
  BY <1>1 DEF Through
<1>5. FromRoots => FromRoots'
  BY <1>1 DEF FromRoots
<1>6. Covered => Covered'
  BY <1>1, <1>2 DEF Covered
<1>7. OnceInv => OnceInv'
  BY <1>1, <1>2 DEF OnceInv, Apart
<1> QED
  BY <1>1, <1>3, <1>4, <1>5, <1>6, <1>7 DEF CompleteInv

LEMMA CompleteIsKept ==
  TypeInv /\ FlowInv /\ PlacedInv /\ CompleteInv /\ [Next]_vars => CompleteInv'
<1> SUFFICES ASSUME TypeInv, FlowInv, PlacedInv, CompleteInv, [Next]_vars PROVE CompleteInv'
  OBVIOUS
<1>1. CASE Step
  BY <1>1, StepKeepsComplete
<1>2. CASE NextSource
  BY <1>2, NextSourceKeepsComplete
<1>3. CASE Receive
  BY <1>3, ReceiveKeepsComplete
<1>4. CASE SourceDone
  BY <1>4, SourceDoneKeepsComplete
<1>5. CASE Vanish
  <2>1. changes' # 0 /\ UNCHANGED <<stack, scan, chan, errsSent, walkVars>>
    BY <1>5, VanishMoves
  <2> QED
    BY <2>1 DEF walkVars, CompleteInv, Begun, Fresh, Frames, Undisturbed
<1>6. CASE ScanReturns
  BY <1>6, CompleteIsSame DEF ScanReturns, walkVars
<1>7. CASE PlanDone
  BY <1>7, CompleteIsSame DEF PlanDone, planVars
<1>8. CASE UNCHANGED vars
  BY <1>8, CompleteIsSame DEF vars
<1>9. CASE Overflow
  <2>1. /\ Through' = Through /\ FromRoots' = FromRoots /\ Undisturbed' = Undisturbed
        /\ Begun => Begun'
    BY <1>9, OverflowMoves
       DEF Through, FromRoots, Undisturbed, Begun, Planned, Expected, Canon, Kind
  <2> QED
    BY <1>9, <2>1, OverflowMoves DEF CompleteInv, Fresh, Covered
<1> QED
  BY <1>1, <1>2, <1>3, <1>4, <1>5, <1>6, <1>7, <1>8, <1>9 DEF Next, Step, Scanner, Planner, Finished

LEMMA CompleteMeans == TypeInv /\ FlowInv /\ CompleteInv => PlanIsTree
<1> SUFFICES ASSUME TypeInv, FlowInv, CompleteInv,
                    plan = "ok", changes = 0, opts.symlinks # "follow",
                    NEW s \in DOMAIN sources
             PROVE  LET mine == {i \in DOMAIN entries : entries[i].src = s}
                    IN /\ {entries[i].item.source : i \in mine} = Expected(Canon(sources[s]))
                       /\ \A i, k \in mine : entries[i].dst = entries[k].dst => i = k
  BY DEF PlanIsTree
<1>1. ix = Len(sources) + 1 /\ errsSent = 0
  BY DEF FlowInv
<1>2. Through /\ FromRoots /\ OnceInv
  BY <1>1 DEF CompleteInv, Undisturbed
<1>3. s \in 1 .. ix - 1
  BY <1>1, Constants, LenProperties DEF TypeInv
<1>4. Planned(s) = Expected(Canon(sources[s]))
  BY <1>2, <1>3 DEF Through
<1>5. ASSUME NEW i \in DOMAIN entries, NEW k \in DOMAIN entries,
             entries[i].src = s, entries[k].src = s, entries[i].dst = entries[k].dst
      PROVE  i = k
  <2>1. entries[i].item.source = entries[k].item.source
    BY <1>2, <1>5 DEF FromRoots
  <2> QED
    BY <1>2, <1>5, <2>1 DEF OnceInv
<1> QED
  BY <1>4, <1>5 DEF Planned

\* A plan of a tree that nobody touched is the tree: it lacks nothing that the
\* walk of a source should find, has nothing else, and places no two entries of a
\* source alike (scan.rs:81, engine.rs:131), however the scanner and the planning
\* thread take turns: what is found is awaited, sent and planned once each.
THEOREM PlanIsTheTree == Spec => []PlanIsTree
<1>1. TypeInv /\ FlowInv /\ PlacedInv /\ [Next]_vars => PlacedInv'
  BY PlacedIsKept
<1>2. TypeInv /\ FlowInv /\ PlacedInv /\ CompleteInv /\ [Next]_vars => CompleteInv'
  BY CompleteIsKept
<1> QED
  BY InitPlaced, InitComplete, CompleteMeans, <1>1, <1>2, FlowHolds, PTL DEF Spec

IInv == TypeInv /\ FlowInv /\ PlacedInv /\ StaysInv /\ ClimbsInv /\ CompleteInv

\* The invariant that ties the walk, the channel and the plan together holds while
\* entries vanish, links are followed and errors come in anywhere.
THEOREM InvariantHolds == Spec => []IInv
<1>1. Init => IInv
  BY InitFlow, InitPlaced, InitStays, InitClimbs, InitComplete DEF IInv
<1>2. IInv /\ [Next]_vars => IInv'
  BY FlowIsKept, PlacedIsKept, StaysIsKept, ClimbsIsKept, CompleteIsKept DEF IInv
<1> QED
  BY <1>1, <1>2, PTL DEF Spec
=============================================================================
