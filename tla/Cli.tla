-------------------------------- MODULE Cli --------------------------------
(***************************************************************************)
(* The fiex command, from main() to its exit code: configuration, the      *)
(* engine task, the render task, the unbounded channel of events between   *)
(* them and the order in which headless::run awaits them.                  *)
(*                                                                         *)
(* The engine is module RunContract, of which Pipeline is an               *)
(* implementation; its steps are taken here together with the events they  *)
(* send.  The fast path of a move is in TreeRun.  Of the events only those *)
(* that the plain renderer prints or counts are modelled.                  *)
(*                                                                         *)
(* Whoever reads the standard error may go away.  From then on every       *)
(* eprintln! panics: in the render task, in a worker that asks the user    *)
(* (and leaves the mutex of the prompt poisoned), and in main itself.      *)
(***************************************************************************)
EXTENDS Integers, Sequences, FiniteSets

CONSTANTS
  File,         \* the regular files of the plan
  Parallelism,  \* workers of the engine
  MaxEarly,     \* bound: directories and symlinks that fail
  Settings      \* what configuration files and flags may say

ASSUME CliAssumption ==
  /\ IsFiniteSet(File) /\ Parallelism \in Nat \ {0} /\ MaxEarly \in Nat
  /\ Settings \subseteq [file : {"absent", "broken", "good", "zero"},
                         flag : {"absent", "unknown", "good", "zero"},
                         interactive : BOOLEAN]

VARIABLES
  settings,     \* the configuration file, the flags, and whether files are
                \* asked about at a terminal
  value,        \* buffer_size or parallelism, as configured so far
  main,         \* where the main thread is
  exit,         \* the exit code, or NoExit
  stderr,       \* "open", or "broken" once nobody reads it
  engine,       \* where the engine task is
  early,        \* Event::FileError sent for directories and symlinks
  status,       \* RunContract: what has become of each file,
  cancelled,    \*   the cancel flag,
  done,         \*   Event::Done, and
  result,       \*   what run() returned, here also "error"
  events,       \* the events sent and not yet received
  render,       \* where the render task is
  shown,        \* what it counts: files_completed and errors
  summary       \* what its last line says, or NoSummary

run == <<status, cancelled, done, result>>
cli == <<settings, value, main, exit>>
renderer == <<render, shown, summary>>
vars == <<cli, stderr, engine, early, run, events, renderer>>

E == INSTANCE RunContract

NoExit == -1
NoSummary == [files |-> -1, errors |-> -1]
Panicked == 101         \* the exit code of a main thread that panics

Init ==
  /\ settings \in Settings /\ value = "good"
  /\ main = "load" /\ exit = NoExit
  /\ stderr = "open"
  /\ engine = "unborn" /\ early = 0
  /\ E!Init
  /\ events = <<>>
  /\ render = "unborn" /\ shown = [files |-> 0, errors |-> 0]
  /\ summary = NoSummary
-----------------------------------------------------------------------------
(* main() and headless::run                                                *)

Exit(code) == main' = "exited" /\ exit' = code

\* A message on the standard error, then the exit code.
ExitSaying(code) == Exit(IF stderr = "open" THEN code ELSE Panicked)

\* Config::load_from: no file is the default configuration.
LoadConfig ==
  /\ main = "load"
  /\ IF settings.file = "broken"
       THEN ExitSaying(2) /\ UNCHANGED value
       ELSE /\ value' = IF settings.file = "zero" THEN "zero" ELSE "good"
            /\ main' = "flags" /\ UNCHANGED exit
  /\ UNCHANGED <<settings, stderr, engine, early, run, events, renderer>>

\* Mutant: a flag that is not given overrides the file as well.
OverrideAlways ==
  /\ main = "flags"
  /\ IF settings.flag = "unknown"
       THEN ExitSaying(2) /\ UNCHANGED value
       ELSE value' = settings.flag /\ main' = "validate" /\ UNCHANGED exit
  /\ UNCHANGED <<settings, stderr, engine, early, run, events, renderer>>

\* apply_cli_overrides: a flag wins over the file.
ApplyOverrides ==
  /\ main = "flags"
  /\ IF settings.flag = "unknown"
       THEN ExitSaying(2) /\ UNCHANGED value
       ELSE /\ value' = IF settings.flag = "absent" THEN value ELSE settings.flag
            /\ main' = "validate" /\ UNCHANGED exit
  /\ UNCHANGED <<settings, stderr, engine, early, run, events, renderer>>

Valid == value # "zero"

\* Config::validate, then the render task and the engine task are spawned.
Validate ==
  /\ main = "validate"
  /\ IF Valid
       THEN /\ main' = "awaitEngine" /\ UNCHANGED exit
            /\ engine' = "planning" /\ render' = "header"
       ELSE ExitSaying(2) /\ UNCHANGED <<engine, render>>
  /\ UNCHANGED <<settings, value, stderr, early, run, events, shown, summary>>

AwaitEngine ==
  /\ main = "awaitEngine" /\ result # E!NoResult
  /\ main' = "awaitRender"
  /\ UNCHANGED <<settings, value, exit, stderr, engine, early, run, events, renderer>>

ExitCode == IF result = "ok" THEN 0 ELSE 130

\* Mutant: the render task is not awaited.
ExitWithoutRender ==
  /\ main = "awaitRender"
  /\ IF result = "error" THEN ExitSaying(1) ELSE Exit(ExitCode)
  /\ UNCHANGED <<settings, value, stderr, engine, early, run, events, renderer>>

\* Mutant: `let _ =` in front of render_task.await.
ExitAnyhow ==
  /\ main = "awaitRender" /\ render \in {"over", "panicked"}
  /\ IF result = "error" THEN ExitSaying(1) ELSE Exit(ExitCode)
  /\ UNCHANGED <<settings, value, stderr, engine, early, run, events, renderer>>

\* The render task is over.  If it panicked, or the engine failed, there is a
\* message to print before the exit.
AwaitRender ==
  /\ main = "awaitRender" /\ render \in {"over", "panicked"}
  /\ IF render = "panicked" \/ result = "error" THEN ExitSaying(1) ELSE Exit(ExitCode)
  /\ UNCHANGED <<settings, value, stderr, engine, early, run, events, renderer>>

Main == LoadConfig \/ ApplyOverrides \/ Validate \/ AwaitEngine \/ AwaitRender
-----------------------------------------------------------------------------
(* The engine task, its workers and the events they send                   *)

\* An event is dropped if the render task is gone.
Send(event) ==
  events' = IF render = "panicked" THEN events ELSE Append(events, event)

Busy == {f \in File : status[f] = "busy"}
Lost == {f \in File : status[f] = "lost"}

Plan ==
  /\ engine = "planning"
  /\ \/ engine' = "early" /\ UNCHANGED result
     \/ engine' = "over" /\ result' = "error"
  /\ UNCHANGED <<cli, stderr, early, status, cancelled, done, events, renderer>>

\* A directory or a symlink that cannot be made is reported, not counted.
EarlyError ==
  /\ engine = "early" /\ early < MaxEarly
  /\ early' = early + 1
  /\ Send([kind |-> "file_error"])
  /\ UNCHANGED <<cli, stderr, engine, run, renderer>>

\* A cancel before the pool is started: no Done event.
AbortRun ==
  /\ engine = "early"
  /\ E!Abort
  /\ engine' = "over"
  /\ UNCHANGED <<cli, stderr, early, events, renderer>>

StartPool ==
  /\ engine = "early"
  /\ engine' = "pool"
  /\ UNCHANGED <<cli, stderr, early, run, events, renderer>>

\* A worker that panicked takes no file any more.
Take(f) ==
  /\ engine = "pool" /\ Cardinality(Busy \cup Lost) < Parallelism
  /\ E!Claim(f)
  /\ UNCHANGED <<cli, stderr, engine, early, events, renderer>>

\* process_file() and what its worker does with the result.
EventOf == [done |-> "file_completed", skipped |-> "log", failed |-> "file_error"]

Settle(f) ==
  /\ E!Settle(f)
  /\ Send([kind |-> EventOf[status'[f]]])
  /\ UNCHANGED <<cli, stderr, engine, early, renderer>>

\* A worker cannot ask its question, and nobody looks at its JoinError: no
\* count, no event.
WorkerPanics(f) ==
  /\ status[f] = "busy" /\ settings.interactive /\ stderr = "broken"
  /\ status' = [status EXCEPT ![f] = "lost"]
  /\ UNCHANGED <<cli, stderr, engine, early, cancelled, done, result, events, renderer>>

\* The engine announces its outcome.  After a panic it does so on what it has
\* counted, also if no worker is left to take the other files.
Announce ==
  /\ engine = "pool"
  /\ \/ E!Announce
     \/ /\ Lost # {} /\ Busy = {} /\ done = E!NoDone
        /\ \/ Cardinality(Lost) = Parallelism
           \/ \A f \in File : status[f] # "todo"
           \/ cancelled
        /\ done' = [success |-> E!Failed = {} /\ ~cancelled,
                    errors  |-> Cardinality(E!Failed)]
        /\ UNCHANGED <<status, cancelled, result>>
  /\ Send([kind |-> "done", success |-> done'.success, errors |-> done'.errors])
  /\ UNCHANGED <<cli, stderr, engine, early, renderer>>

\* run() returns, and every handle to the channel of events is gone.
ReturnRun ==
  /\ engine = "pool"
  /\ E!Return
  /\ engine' = "over"
  /\ UNCHANGED <<cli, stderr, early, events, renderer>>

\* Ctrl-c, or "q" at the prompt.
Cancel ==
  /\ engine \in {"planning", "early", "pool"} /\ ~cancelled
  /\ E!Cancel
  /\ UNCHANGED <<cli, stderr, engine, early, events, renderer>>

Engine ==
  \/ Plan \/ EarlyError \/ AbortRun \/ StartPool
  \/ (\E f \in File : Take(f) \/ Settle(f) \/ WorkerPanics(f))
  \/ Announce \/ ReturnRun
-----------------------------------------------------------------------------
(* The render task                                                         *)

\* It prints a line and goes on, or panics and the channel is closed.
Printing(where) == render' = IF stderr = "open" THEN where ELSE "panicked"

PrintHeader ==
  /\ render = "header"
  /\ Printing("loop")
  /\ events' = IF stderr = "open" THEN events ELSE <<>>
  /\ UNCHANGED <<cli, stderr, engine, early, run, shown, summary>>

\* Mutant: the errors of Done are added to those already counted.
CountDoneAgain(event) ==
  IF event.success THEN shown ELSE [shown EXCEPT !.errors = @ + event.errors]

\* Done says how many files failed: no less than that are errors.
CountDone(event) ==
  IF event.success \/ event.errors <= shown.errors THEN shown
  ELSE [shown EXCEPT !.errors = event.errors]

CountOne(kind) ==
  [files  |-> shown.files + (IF kind = "file_completed" THEN 1 ELSE 0),
   errors |-> shown.errors + (IF kind = "file_error" THEN 1 ELSE 0)]

\* Renderer::handle, for the next event.
Handle ==
  /\ render = "loop" /\ events # <<>>
  /\ LET event == Head(events) IN
     /\ shown' = IF event.kind = "done" THEN CountDone(event) ELSE CountOne(event.kind)
     /\ IF event.kind = "done" \/ stderr = "open"
          THEN events' = Tail(events) /\ UNCHANGED render
          ELSE events' = <<>> /\ render' = "panicked"
  /\ UNCHANGED <<cli, stderr, engine, early, run, summary>>

\* Mutant: headless::run keeps a sender of its own until it returns.
FinishLast ==
  /\ render = "loop" /\ events = <<>> /\ engine = "over" /\ main = "exited"
  /\ Printing("over")
  /\ summary' = IF stderr = "open" THEN shown ELSE summary
  /\ UNCHANGED <<cli, stderr, engine, early, run, events, shown>>

\* The channel is empty and closed: the summary is printed.
Finish ==
  /\ render = "loop" /\ events = <<>> /\ engine = "over"
  /\ Printing("over")
  /\ summary' = IF stderr = "open" THEN shown ELSE summary
  /\ UNCHANGED <<cli, stderr, engine, early, run, events, shown>>

Render == PrintHeader \/ Handle \/ Finish
-----------------------------------------------------------------------------
BreakStderr ==
  /\ stderr = "open" /\ main # "exited"
  /\ stderr' = "broken"
  /\ UNCHANGED <<cli, engine, early, run, events, renderer>>

Finished == main = "exited" /\ UNCHANGED vars

Next == Main \/ Engine \/ Cancel \/ Render \/ BreakStderr \/ Finished

Spec == Init /\ [][Next]_vars

\* The main thread and both tasks run; that every file that was taken is
\* settled and the engine ends is what Pipeline's Termination says.
FairSpec == Spec /\ WF_vars(Main) /\ WF_vars(Engine) /\ WF_vars(Render)
-----------------------------------------------------------------------------
EventSet ==
  [kind : {"file_completed", "file_error", "log"}]
    \cup [kind : {"done"}, success : BOOLEAN, errors : Nat]

TypeOK ==
  /\ settings \in Settings /\ value \in {"good", "zero"}
  /\ main \in {"load", "flags", "validate", "awaitEngine", "awaitRender", "exited"}
  /\ exit \in {NoExit, 0, 1, 2, Panicked, 130}
  /\ stderr \in {"open", "broken"}
  /\ engine \in {"unborn", "planning", "early", "pool", "over"}
  /\ early \in 0 .. MaxEarly
  /\ status \in [File -> {"todo", "busy", "lost"} \cup E!Settled]
  /\ cancelled \in BOOLEAN
  /\ done \in {E!NoDone} \cup [success : BOOLEAN, errors : Nat]
  /\ result \in {E!NoResult, "ok", "cancelled", "error"}
  /\ events \in Seq(EventSet)
  /\ render \in {"unborn", "header", "loop", "over", "panicked"}
  /\ shown \in [files : Nat, errors : Nat]
  /\ summary \in {NoSummary} \cup [files : Nat, errors : Nat]

Completed == {f \in File : status[f] = "done"}

\* Nothing the engine said goes unseen: a command that ends as its run ended
\* (and not for a panic) has rendered every event and printed its summary,
\* because the engine's end closes the channel and both tasks are awaited.
NothingUnseen ==
  exit \in {0, 130} \/ (exit = 1 /\ render # "panicked") =>
    events = <<>> /\ summary # NoSummary

\* The summary is the truth about the run: the files it counts are those
\* delivered, and an error is one that was reported, whether Done repeats it
\* or not.
SummaryIsTrue ==
  summary # NoSummary =>
    /\ summary.files = Cardinality(Completed)
    /\ summary.errors = early + Cardinality(E!Failed)

\* Exit code 0 means that every file of the plan was settled, none of them
\* lost with a worker that panicked although Done may then claim success; 130
\* that the run was cancelled; 2 that nothing was started.
ExitCodeIsRight ==
  /\ exit = 0 => \A f \in File : status[f] \in E!Settled
  /\ exit = 130 => cancelled
  /\ exit = 1 => result = "error" \/ stderr = "broken"
  /\ exit = 2 <=> exit \notin {NoExit, Panicked} /\ engine = "unborn"

\* The command ends, also if the render task or all workers panicked.
Exits == <>(main = "exited")
=============================================================================
