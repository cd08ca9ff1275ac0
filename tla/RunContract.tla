---------------------------- MODULE RunContract ----------------------------
(***************************************************************************)
(* What one run of the engine promises to whoever started it, with no word *)
(* of channels, threads or prompts: every regular file of the plan is      *)
(* claimed at most once and then settled once; when the run announces its  *)
(* outcome nothing is in progress any more, the announced error count is   *)
(* the number of files that failed, and an announcement that was not       *)
(* preceded by a cancellation accounts for every file.                     *)
(*                                                                         *)
(* Pipeline refines this specification.                                    *)
(***************************************************************************)
EXTENDS Integers, FiniteSets

CONSTANT File           \* the regular files of the plan

VARIABLES
  status,               \* status[f]: how far file f has got
  cancelled,            \* somebody has asked for the run to stop
  done,                 \* the announced outcome (Event::Done), or NoDone
  result                \* what the caller of run() gets, or NoResult

vars == <<status, cancelled, done, result>>

Settled == {"done", "skipped", "failed"}
NoDone == [success |-> FALSE, errors |-> -1]
NoResult == "none"

Init ==
  /\ status = [f \in File |-> "todo"]
  /\ cancelled = FALSE
  /\ done = NoDone
  /\ result = NoResult

Failed == {f \in File : status[f] = "failed"}

\* A file is taken up; nothing is taken up once the outcome is known.
Claim(f) ==
  /\ done = NoDone
  /\ result = NoResult
  /\ status[f] = "todo"
  /\ status' = [status EXCEPT ![f] = "busy"]
  /\ UNCHANGED <<cancelled, done, result>>

\* A file that is taken up is settled, one way or another.
Settle(f) ==
  /\ status[f] = "busy"
  /\ \E s \in Settled : status' = [status EXCEPT ![f] = s]
  /\ UNCHANGED <<cancelled, done, result>>

Cancel ==
  /\ result = NoResult
  /\ cancelled' = TRUE
  /\ UNCHANGED <<status, done, result>>

\* The outcome is announced: nothing is in progress, and without a
\* cancellation nothing was left out either.
Announce ==
  /\ done = NoDone
  /\ result = NoResult
  /\ \A f \in File : status[f] # "busy"
  /\ ~cancelled => \A f \in File : status[f] \in Settled
  /\ done' = [success |-> Failed = {} /\ ~cancelled,
              errors  |-> Cardinality(Failed)]
  /\ UNCHANGED <<status, cancelled, result>>

Return ==
  /\ done # NoDone
  /\ result = NoResult
  /\ result' = IF ~done.success /\ cancelled THEN "cancelled" ELSE "ok"
  /\ UNCHANGED <<status, cancelled, done>>

\* A run cancelled before its first file may end with no announcement.
Abort ==
  /\ cancelled
  /\ done = NoDone
  /\ result = NoResult
  /\ \A f \in File : status[f] = "todo"
  /\ result' = "cancelled"
  /\ UNCHANGED <<status, cancelled, done>>

Next ==
  \/ \E f \in File : Claim(f) \/ Settle(f)
  \/ Cancel \/ Announce \/ Return \/ Abort

Spec == Init /\ [][Next]_vars
=============================================================================
