----------------------------- MODULE MCTreeRun -----------------------------
(***************************************************************************)
(* Model-checking instance of TreeRun: a root with a link, an empty        *)
(* directory, and a directory that holds a file and a directory with       *)
(* another; two system calls may fail.                                     *)
(***************************************************************************)
EXTENDS TreeRun

CONSTANTS root, dir1, dir2, dir3, file1, file2, link1

MCEntry == {root, dir1, dir2, dir3, file1, file2, link1}
MCKind == [x \in MCEntry |-> IF x \in {root, dir1, dir2, dir3} THEN "dir"
                             ELSE IF x = link1 THEN "link" ELSE "file"]
MCParent == [x \in MCEntry |-> IF x \in {dir2, file1} THEN dir1
                               ELSE IF x = file2 THEN dir2 ELSE root]
MCDirOrder == <<root, dir1, dir2, dir3>>
MCConfigs == [mode : {"copy", "move"}, sameFs : BOOLEAN, taken : BOOLEAN,
              dest : {"absent", "relative", "orphan", "dir", "file"}]
=============================================================================
