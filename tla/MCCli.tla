------------------------------- MODULE MCCli -------------------------------
(***************************************************************************)
(* Model-checking instance of Cli: three files for two workers, so that    *)
(* one file is left over when both panic; a directory or a symlink may     *)
(* fail.                                                                   *)
(***************************************************************************)
EXTENDS Cli, TLC

CONSTANTS f1, f2, f3
MCFile == {f1, f2, f3}
MCSettings == [file : {"absent", "broken", "good", "zero"},
               flag : {"absent", "unknown", "good", "zero"}, interactive : BOOLEAN]
=============================================================================
