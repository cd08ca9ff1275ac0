----------------------------- MODULE MCTransfer -----------------------------
(***************************************************************************)
(* Model-checking instances of Transfer.  Sources of one and of two blocks *)
(* that differ in their first block, in their second or only in length let *)
(* every outcome of the prefix comparison happen; a second run finds what  *)
(* the first has left behind, on a source that may have been edited.       *)
(***************************************************************************)
EXTENDS Transfer

CONSTANTS blockA, blockB, old, s1, j1, d1, t1

\* One file, copied or moved to d1 through t1.
MCJob == {j1}
MCSource == {s1}
MCSrcOf == [j \in MCJob |-> s1]
MCName == {d1, t1}
MCDstOf == [j \in MCJob |-> d1]
MCTmpOf == [n \in {d1} |-> t1]

MCContents == {<<blockA>>, <<blockA, blockB>>, <<blockB, blockB>>}
MCTwoContents == {<<blockA>>, <<blockB, blockB>>}
MCOld == {<<old>>}
MCInode == 1 .. 5

MCConfig(modes, fs, syncs, links, verifies) ==
  [mode : modes, sameFs : fs, dirSync : syncs, reflink : links, verify : verifies]
\* Both modes on one and on two file systems, with and without --verify, a
\* reflink, or directories that can be synced.
MCAll ==
  MCConfig({"copy", "move"}, BOOLEAN, {TRUE}, {FALSE}, BOOLEAN)
  \cup MCConfig({"copy", "move"}, BOOLEAN, {TRUE}, {TRUE}, {TRUE})
  \cup MCConfig({"copy", "move"}, BOOLEAN, {FALSE}, {FALSE}, {TRUE})
MCReflinkCopy == MCConfig({"copy"}, {TRUE}, {TRUE}, {TRUE}, {TRUE})

\* What a working copy_file_range does with a file of this size, and what the
\* kernel answers to the offsets the code passes (pointers that are not null
\* and not valid).
MCWhole == {"full", "unsupported", "error"}
MCBadPointer == {"error"}
=============================================================================
