------------------------------ MODULE Pipeline ------------------------------
(***************************************************************************)
(* Engine::run from the first directory of the plan to its return value:   *)
(* the bounded crossbeam channel, the producer task, the pool of workers   *)
(* with the interactive prompt they share, the engine-wide cancel flag and *)
(* the outcome that the awaiting task announces.                           *)
(*                                                                         *)
(* A file is its position in the plan.  What moving its bytes does to the  *)
(* file systems is module Transfer; here a transfer ends well or badly.    *)
(* The conflict policies that yield a target without asking ("Overwrite",  *)
(* "RenameOld", "RenameNew") are one policy here, "direct".                *)
(***************************************************************************)
EXTENDS Integers, Sequences, FiniteSets

CONSTANTS
  Worker,       \* the tasks of the pool: config.parallelism of them
  NumFiles,     \* regular files in the plan
  NumEarly,     \* directories and symlinks, prepared before the pipeline
  ChanCap,      \* capacity of the channel: 4 * parallelism in the code
  PoolThreads,  \* threads of tokio's blocking pool
  Policies      \* the conflict policies a run may be configured with

ASSUME ConstantsAssumption ==
  /\ IsFiniteSet(Worker) /\ Worker # {}
  /\ NumFiles \in Nat
  /\ NumEarly \in Nat
  /\ ChanCap \in Nat \ {0}
  /\ PoolThreads \in Nat \ {0, 1}
  /\ Policies \subseteq {"direct", "skip", "prompt"}

VARIABLES
  main,         \* where the task that awaits run() is
  early,        \* directories and symlinks dealt with so far
  mainTx,       \* run() still holds its own sender of the channel
  mainRx,       \* run() still holds its own receiver
  prod,         \* where the producer task is
  next,         \* the file the producer sends next
  chan,         \* the files in the channel
  wpc,          \* where each worker is
  cur,          \* the file each worker is on, or NoFile
  stat,         \* what has become of each file
  policy,       \* config.conflict_policy
  cancel,       \* EngineHandle's shared flag
  promptAll,    \* the user has answered "all"
  errors,       \* the shared error counter
  fileErrors,   \* Event::FileError events sent
  done,         \* the Event::Done sent, or NoDone
  result,       \* what run() returned, or NoResult
  lateFiles,    \* history: files taken from the channel after a cancel
  lateAsks      \* history: files asked about after promptAll was stored

mainVars  == <<main, early, mainTx, mainRx, done, result>>
prodVars  == <<prod, next>>
workVars  == <<wpc, cur, stat, errors, lateFiles, lateAsks>>
vars == <<mainVars, prodVars, workVars, chan, policy, cancel, promptAll,
          fileErrors>>

File == 1 .. NumFiles
NoFile == 0
NoDone == [success |-> FALSE, errors |-> -1]
NoResult == "none"

\* "quit" is a file that failed with EngineError::Cancelled: the user
\* answered "q" when asked about it.
FailedStat == {"failed", "quit"}
SettledStat == {"done", "skipped"} \cup FailedStat

WorkerPC == {"unspawned", "queued", "check", "recv", "resolve", "gate",
             "asking", "setall", "xfer", "setcancel", "exited"}
MainPC == {"early", "spawn", "pool", "awaitProd", "awaitWorkers", "report",
           "result", "returned"}

Init ==
  /\ main = "early" /\ early = 0
  /\ mainTx = TRUE /\ mainRx = TRUE
  /\ prod = "unspawned" /\ next = 1
  /\ chan = <<>>
  /\ wpc = [w \in Worker |-> "unspawned"]
  /\ cur = [w \in Worker |-> NoFile]
  /\ stat = [f \in File |-> "todo"]
  /\ policy \in Policies
  /\ cancel = FALSE /\ promptAll = FALSE
  /\ errors = 0 /\ fileErrors = 0
  /\ done = NoDone /\ result = NoResult
  /\ lateFiles = {} /\ lateAsks = {}
-----------------------------------------------------------------------------
(* The channel: an end is closed once every handle to it is dropped.  A    *)
(* task holds its handle from its spawning to its exit.                    *)

SenderAlive == mainTx \/ prod \in {"queued", "check", "send"}
ReceiverAlive == mainRx \/ \E w \in Worker : wpc[w] \notin {"unspawned", "exited"}

(* The blocking pool: a task keeps its thread while it blocks, and tasks   *)
(* get threads in the order they were spawned in.                          *)
Running == {w \in Worker : wpc[w] \notin {"unspawned", "queued", "exited"}}
ThreadFree ==
  Cardinality(Running) + (IF prod \in {"check", "send"} THEN 1 ELSE 0)
    < PoolThreads
-----------------------------------------------------------------------------
(* The task that awaits run()                                              *)

\* One turn of the loops over directories and symlinks: a cancel returns at
\* once, with no Done event; a failure is an event but not a counted error.
PrepareEntry ==
  /\ main = "early" /\ early < NumEarly
  /\ IF cancel
       THEN /\ main' = "returned" /\ result' = "cancelled"
            /\ UNCHANGED <<early, fileErrors>>
       ELSE /\ early' = early + 1
            /\ fileErrors' \in {fileErrors, fileErrors + 1}
            /\ UNCHANGED <<main, result>>
  /\ UNCHANGED <<mainTx, mainRx, done, prodVars, workVars, chan, policy,
                 cancel, promptAll>>

OpenChannel ==
  /\ main = "early" /\ early = NumEarly
  /\ main' = "spawn"
  /\ UNCHANGED <<early, mainTx, mainRx, done, result, prodVars, workVars, chan,
                 policy, cancel, promptAll, fileErrors>>

\* Mutant: run() keeps its own sender (no drop(file_tx)).
SpawnProducerKeepsTx ==
  /\ main = "spawn"
  /\ prod' = "queued"
  /\ main' = "pool"
  /\ UNCHANGED <<early, mainTx, mainRx, done, result, next, workVars, chan, policy,
                 cancel, promptAll, fileErrors>>

\* The producer gets a clone of the sender and run() drops its own.
SpawnProducer ==
  /\ main = "spawn"
  /\ mainTx' = FALSE
  /\ prod' = "queued"
  /\ main' = "pool"
  /\ UNCHANGED <<early, mainRx, done, result, next, workVars, chan, policy,
                 cancel, promptAll, fileErrors>>

\* Every worker gets a clone of the receiver and run() drops its own.  The
\* workers are spawned one by one; one that was spawned first and ran ahead
\* is here one whose peers are still queued.
SpawnWorkers ==
  /\ main = "pool"
  /\ wpc' = [w \in Worker |-> "queued"]
  /\ mainRx' = FALSE
  /\ main' = "awaitProd"
  /\ UNCHANGED <<early, mainTx, done, result, prodVars, cur, stat, errors,
                 lateFiles, lateAsks, chan, policy, cancel, promptAll, fileErrors>>

AwaitProducer ==
  /\ main = "awaitProd" /\ prod = "exited"
  /\ main' = "awaitWorkers"
  /\ UNCHANGED <<early, mainTx, mainRx, done, result, prodVars, workVars, chan,
                 policy, cancel, promptAll, fileErrors>>

\* Mutant: run() goes on as soon as one worker has exited.
AwaitAnyWorker ==
  /\ main = "awaitWorkers"
  /\ \E w \in Worker : wpc[w] = "exited"
  /\ main' = "report"
  /\ UNCHANGED <<early, mainTx, mainRx, done, result, prodVars, workVars, chan,
                 policy, cancel, promptAll, fileErrors>>

AwaitWorkers ==
  /\ main = "awaitWorkers"
  /\ \A w \in Worker : wpc[w] = "exited"
  /\ main' = "report"
  /\ UNCHANGED <<early, mainTx, mainRx, done, result, prodVars, workVars, chan,
                 policy, cancel, promptAll, fileErrors>>

\* Mutant: the flag is forgotten when success is computed.
ReportErrorsOnly ==
  /\ main = "report"
  /\ done' = [success |-> errors = 0, errors |-> errors]
  /\ main' = "result"
  /\ UNCHANGED <<early, mainTx, mainRx, result, prodVars, workVars, chan,
                 policy, cancel, promptAll, fileErrors>>

\* Event::Done with what the counter and the flag say now.
Report ==
  /\ main = "report"
  /\ done' = [success |-> errors = 0 /\ ~cancel, errors |-> errors]
  /\ main' = "result"
  /\ UNCHANGED <<early, mainTx, mainRx, result, prodVars, workVars, chan,
                 policy, cancel, promptAll, fileErrors>>

\* The flag is read once more, and may have been set since Done was sent.
Return ==
  /\ main = "result"
  /\ result' = IF ~done.success /\ cancel THEN "cancelled" ELSE "ok"
  /\ main' = "returned"
  /\ UNCHANGED <<early, mainTx, mainRx, done, prodVars, workVars, chan, policy,
                 cancel, promptAll, fileErrors>>
\* The CLI's exit code, from what run() returned and nothing else.
ExitCode == IF result = "cancelled" THEN 130 ELSE 0
-----------------------------------------------------------------------------
(* The producer task                                                       *)

StartProducer ==
  /\ prod = "queued" /\ ThreadFree
  /\ prod' = "check"
  /\ UNCHANGED <<mainVars, next, workVars, chan, policy, cancel, promptAll,
                 fileErrors>>

\* The head of the loop over the files: out of files, or cancelled.
ProducerCheck ==
  /\ prod = "check"
  /\ prod' = IF next > NumFiles \/ cancel THEN "exited" ELSE "send"
  /\ UNCHANGED <<mainVars, next, workVars, chan, policy, cancel, promptAll,
                 fileErrors>>

\* Mutant: an unbounded channel.
ProducerSendUnbounded ==
  /\ prod = "send" /\ ReceiverAlive
  /\ chan' = Append(chan, next)
  /\ next' = next + 1
  /\ prod' = "check"
  /\ UNCHANGED <<mainVars, workVars, policy, cancel, promptAll, fileErrors>>

\* send() blocks while the channel is full and somebody may still receive.
ProducerSend ==
  /\ prod = "send" /\ ReceiverAlive
  /\ Len(chan) < ChanCap
  /\ chan' = Append(chan, next)
  /\ next' = next + 1
  /\ prod' = "check"
  /\ UNCHANGED <<mainVars, workVars, policy, cancel, promptAll, fileErrors>>

\* send() on a channel nobody can receive from is an error: stop.
ProducerDisconnected ==
  /\ prod = "send" /\ ~ReceiverAlive
  /\ prod' = "exited"
  /\ UNCHANGED <<mainVars, next, workVars, chan, policy, cancel, promptAll,
                 fileErrors>>

Producer == StartProducer \/ ProducerCheck \/ ProducerSend \/ ProducerDisconnected
-----------------------------------------------------------------------------
(* The worker tasks                                                        *)

Goto(w, where) == wpc' = [wpc EXCEPT ![w] = where]

\* w is through with its file, which ends up as s.
Settle(w, s) ==
  /\ stat' = [stat EXCEPT ![cur[w]] = s]
  /\ cur' = [cur EXCEPT ![w] = NoFile]

\* process_file() returned an error: it is counted and reported.
CountError == errors' = errors + 1 /\ fileErrors' = fileErrors + 1

\* The producer was spawned first, so it gets its thread first.
StartWorker(w) ==
  /\ wpc[w] = "queued" /\ ThreadFree
  /\ prod # "queued"
  /\ Goto(w, "check")
  /\ UNCHANGED <<mainVars, prodVars, cur, stat, errors, lateFiles, lateAsks, chan,
                 policy, cancel, promptAll, fileErrors>>

\* Mutant: the flag is not read before recv().
WorkerCheckNothing(w) ==
  /\ wpc[w] = "check"
  /\ Goto(w, "recv")
  /\ UNCHANGED <<mainVars, prodVars, cur, stat, errors, lateFiles, lateAsks, chan,
                 policy, cancel, promptAll, fileErrors>>

WorkerCheck(w) ==
  /\ wpc[w] = "check"
  /\ Goto(w, IF cancel THEN "exited" ELSE "recv")
  /\ UNCHANGED <<mainVars, prodVars, cur, stat, errors, lateFiles, lateAsks, chan,
                 policy, cancel, promptAll, fileErrors>>

\* Mutant: the file is read but stays in the channel for the others.
RecvPeek(w) ==
  /\ wpc[w] = "recv" /\ chan # <<>>
  /\ LET f == Head(chan) IN
       /\ cur' = [cur EXCEPT ![w] = f]
       /\ stat' = [stat EXCEPT ![f] = "busy"]
       /\ lateFiles' = IF cancel THEN lateFiles \cup {f} ELSE lateFiles
  /\ chan' = chan
  /\ Goto(w, "resolve")
  /\ UNCHANGED <<mainVars, prodVars, errors, lateAsks, policy, cancel, promptAll,
                 fileErrors>>

\* Mutant: the channel is a stack.
RecvNewest(w) ==
  /\ wpc[w] = "recv" /\ chan # <<>>
  /\ LET f == chan[Len(chan)] IN
       /\ cur' = [cur EXCEPT ![w] = f]
       /\ stat' = [stat EXCEPT ![f] = "busy"]
       /\ lateFiles' = IF cancel THEN lateFiles \cup {f} ELSE lateFiles
  /\ chan' = SubSeq(chan, 1, Len(chan) - 1)
  /\ Goto(w, "resolve")
  /\ UNCHANGED <<mainVars, prodVars, errors, lateAsks, policy, cancel, promptAll,
                 fileErrors>>

Recv(w) ==
  /\ wpc[w] = "recv" /\ chan # <<>>
  /\ LET f == Head(chan) IN
       /\ cur' = [cur EXCEPT ![w] = f]
       /\ stat' = [stat EXCEPT ![f] = "busy"]
       /\ lateFiles' = IF cancel THEN lateFiles \cup {f} ELSE lateFiles
  /\ chan' = Tail(chan)
  /\ Goto(w, "resolve")
  /\ UNCHANGED <<mainVars, prodVars, errors, lateAsks, policy, cancel, promptAll,
                 fileErrors>>

\* Mutant: try_recv(), which also fails on a channel that is only empty.
RecvEmpty(w) ==
  /\ wpc[w] = "recv" /\ chan = <<>>
  /\ Goto(w, "exited")
  /\ UNCHANGED <<mainVars, prodVars, cur, stat, errors, lateFiles, lateAsks, chan,
                 policy, cancel, promptAll, fileErrors>>

\* recv() fails only on a channel that is empty and closed.
RecvClosed(w) ==
  /\ wpc[w] = "recv" /\ chan = <<>> /\ ~SenderAlive
  /\ Goto(w, "exited")
  /\ UNCHANGED <<mainVars, prodVars, cur, stat, errors, lateFiles, lateAsks, chan,
                 policy, cancel, promptAll, fileErrors>>

\* Mutant: promptAll is never looked at.
ResolveAlwaysAsks(w) ==
  /\ wpc[w] = "resolve"
  /\ IF policy = "skip"
       THEN Settle(w, "skipped") /\ Goto(w, "check")
       ELSE /\ Goto(w, IF policy = "prompt" THEN "gate" ELSE "xfer")
            /\ UNCHANGED <<cur, stat>>
  /\ UNCHANGED <<mainVars, prodVars, errors, lateFiles, lateAsks, chan, policy,
                 cancel, promptAll, fileErrors>>

\* The conflict policy decides; under Prompt the worker looks at promptAll
\* first, and then asks without looking at it again.
Resolve(w) ==
  /\ wpc[w] = "resolve"
  /\ IF policy = "skip"
       THEN Settle(w, "skipped") /\ Goto(w, "check")
       ELSE /\ Goto(w, IF policy = "prompt" /\ ~promptAll THEN "gate" ELSE "xfer")
            /\ UNCHANGED <<cur, stat>>
  /\ UNCHANGED <<mainVars, prodVars, errors, lateFiles, lateAsks, chan, policy,
                 cancel, promptAll, fileErrors>>

\* interactive_prompt(): take the mutex, show the question, read a line.
TakeGate(w) ==
  /\ wpc[w] = "gate" /\ \A v \in Worker : wpc[v] # "asking"
  /\ Goto(w, "asking")
  /\ lateAsks' = IF promptAll THEN lateAsks \cup {cur[w]} ELSE lateAsks
  /\ UNCHANGED <<mainVars, prodVars, cur, stat, errors, lateFiles, chan, policy,
                 cancel, promptAll, fileErrors>>

\* "y" overwrites this file, "a" goes on to store promptAll.
AnswerProceed(w) ==
  /\ wpc[w] = "asking"
  /\ \E where \in {"xfer", "setall"} : Goto(w, where)
  /\ UNCHANGED <<mainVars, prodVars, cur, stat, errors, lateFiles, lateAsks, chan,
                 policy, cancel, promptAll, fileErrors>>

\* "n" or an empty line.
AnswerNo(w) ==
  /\ wpc[w] = "asking"
  /\ Settle(w, "skipped") /\ Goto(w, "check")
  /\ UNCHANGED <<mainVars, prodVars, errors, lateFiles, lateAsks, chan, policy,
                 cancel, promptAll, fileErrors>>

\* "q", end of input or a broken stdin: process_file() returns Cancelled.
AnswerQuit(w) ==
  /\ wpc[w] = "asking"
  /\ Settle(w, "quit") /\ Goto(w, "setcancel")
  /\ CountError
  /\ UNCHANGED <<mainVars, prodVars, lateFiles, lateAsks, chan, policy, cancel,
                 promptAll>>

\* Anything else: the mutex is released and the question asked again.
AnswerUnknown(w) ==
  /\ wpc[w] = "asking"
  /\ Goto(w, "gate")
  /\ UNCHANGED <<mainVars, prodVars, cur, stat, errors, lateFiles, lateAsks, chan,
                 policy, cancel, promptAll, fileErrors>>

StoreAll(w) ==
  /\ wpc[w] = "setall"
  /\ promptAll' = TRUE
  /\ Goto(w, "xfer")
  /\ UNCHANGED <<mainVars, prodVars, cur, stat, errors, lateFiles, lateAsks, chan,
                 policy, cancel, fileErrors>>

TransferOk(w) ==
  /\ wpc[w] = "xfer"
  /\ Settle(w, "done") /\ Goto(w, "check")
  /\ UNCHANGED <<mainVars, prodVars, errors, lateFiles, lateAsks, chan, policy,
                 cancel, promptAll, fileErrors>>

TransferFail(w) ==
  /\ wpc[w] = "xfer"
  /\ Settle(w, "failed") /\ Goto(w, "check")
  /\ CountError
  /\ UNCHANGED <<mainVars, prodVars, lateFiles, lateAsks, chan, policy, cancel,
                 promptAll>>

\* Mutant: the Cancelled error is counted like any other.
SetNoCancel(w) ==
  /\ wpc[w] = "setcancel"
  /\ Goto(w, "check")
  /\ UNCHANGED <<mainVars, prodVars, cur, stat, errors, lateFiles, lateAsks, chan,
                 policy, cancel, promptAll, fileErrors>>

\* A Cancelled error stops the whole run, once it has been counted.
SetCancel(w) ==
  /\ wpc[w] = "setcancel"
  /\ cancel' = TRUE
  /\ Goto(w, "check")
  /\ UNCHANGED <<mainVars, prodVars, cur, stat, errors, lateFiles, lateAsks, chan,
                 policy, promptAll, fileErrors>>

Decide(w) == AnswerProceed(w) \/ AnswerNo(w) \/ AnswerQuit(w)
WorkerStep(w) ==
  \/ StartWorker(w) \/ WorkerCheck(w) \/ Recv(w) \/ RecvClosed(w) \/ Resolve(w)
  \/ TakeGate(w) \/ StoreAll(w) \/ TransferOk(w) \/ TransferFail(w) \/ SetCancel(w)
-----------------------------------------------------------------------------
\* EngineHandle::cancel(): ctrl-c, or a caller of the library.
CtrlC ==
  /\ main # "returned" /\ ~cancel
  /\ cancel' = TRUE
  /\ UNCHANGED <<mainVars, prodVars, workVars, chan, policy, promptAll, fileErrors>>

\* Nothing is left to do once run() has returned.
Finished == main = "returned" /\ UNCHANGED vars

Main ==
  \/ PrepareEntry \/ OpenChannel \/ SpawnProducer \/ SpawnWorkers
  \/ AwaitProducer \/ AwaitWorkers \/ Report \/ Return

Next ==
  \/ Main
  \/ Producer
  \/ \E w \in Worker : WorkerStep(w) \/ Decide(w) \/ AnswerUnknown(w)
  \/ CtrlC
  \/ Finished

Spec == Init /\ [][Next]_vars

\* Threads run; nothing is assumed of the mutex beyond that a worker gets it
\* if it stays free.
EngineFairness ==
  /\ WF_vars(Main)
  /\ WF_vars(Producer)
  /\ \A w \in Worker : WF_vars(WorkerStep(w))

\* Somebody at the terminal does not type nonsense for ever.
UserFairness == \A w \in Worker : SF_vars(Decide(w))

EngineSpec == Spec /\ EngineFairness
FairSpec == Spec /\ EngineFairness /\ UserFairness
-----------------------------------------------------------------------------
TypeOK ==
  /\ main \in MainPC /\ early \in 0 .. NumEarly
  /\ mainTx \in BOOLEAN /\ mainRx \in BOOLEAN
  /\ prod \in {"unspawned", "queued", "check", "send", "exited"}
  /\ next \in 1 .. (NumFiles + 1)
  /\ chan \in Seq(File) /\ Len(chan) <= ChanCap
  /\ wpc \in [Worker -> WorkerPC]
  /\ cur \in [Worker -> File \cup {NoFile}]
  /\ stat \in [File -> {"todo", "busy"} \cup SettledStat]
  /\ policy \in Policies
  /\ cancel \in BOOLEAN /\ promptAll \in BOOLEAN
  /\ errors \in Nat /\ fileErrors \in Nat
  /\ done \in {NoDone} \cup [success : BOOLEAN, errors : Nat]
  /\ result \in {NoResult, "ok", "cancelled"}
  /\ lateFiles \in SUBSET File /\ lateAsks \in SUBSET File

Failed == {f \in File : stat[f] \in FailedStat}

\* Nothing is lost between the producer, the channel and the workers: the
\* channel holds the files sent and not yet taken, in plan order, and exactly
\* the files behind it have been claimed (Recv and ProducerSend agree).
Conveyed ==
  /\ \A i \in 1 .. Len(chan) : chan[i] = next - 1 - Len(chan) + i
  /\ \A f \in File : stat[f] = "todo" <=> f >= next - Len(chan)

\* No two workers are on the same file, and a file is in progress exactly
\* when some worker is on it.
OneWorkerPerFile ==
  /\ \A v, w \in Worker : cur[v] = cur[w] /\ cur[v] # NoFile => v = w
  /\ \A f \in File : stat[f] = "busy" <=> \E w \in Worker : cur[w] = f

\* Done with success is never announced over a file that was dropped, skipped
\* by a cancel or failed; and its count is the number of files that failed,
\* whatever workers were still counting when the cancel came.
DoneIsAccurate ==
  done # NoDone =>
    /\ done.errors = Cardinality(Failed)
    /\ done.success => \A f \in File : stat[f] \in SettledStat \ FailedStat

\* Without a cancellation every file of the plan is settled when run()
\* announces its outcome: closing the channel drops nothing.
NothingDropped ==
  done # NoDone /\ ~cancel => \A f \in File : stat[f] \in SettledStat

\* "q" is never swallowed: the caller of run() sees Cancelled.
QuitIsReported ==
  result # NoResult /\ (\E f \in File : stat[f] = "quit") => result = "cancelled"

\* After a cancel each worker takes at most the one file it was already
\* waiting for: the flag is read before every recv().
BoundedOverrun == Cardinality(lateFiles) <= Cardinality(Worker)

\* After "all" is stored, only workers that had looked at the flag before can
\* still ask, each about the one file it is on.
FewAsksAfterAll == Cardinality(lateAsks) < Cardinality(Worker)

\* A run ends, whatever fails and whenever it is cancelled, if the user
\* answers the questions: no task waits for ever on the channel or on the gate.
Termination == <>(main = "returned")

(* The inductive strengthening the proofs in PipelineProofs rest on.       *)

OnFile == {"resolve", "gate", "asking", "setall", "xfer"}
Aborted == main = "returned" /\ done = NoDone
Unspawned == main \in {"early", "spawn", "pool"} \/ Aborted

\* Which tasks exist, and which are over, at each place of run().
PhaseInv ==
  /\ Unspawned => \A w \in Worker : wpc[w] = "unspawned"
  /\ ~Unspawned => \A w \in Worker : wpc[w] # "unspawned"
  /\ prod = "unspawned" <=> main \in {"early", "spawn"} \/ Aborted
  /\ prod = "unspawned" => next = 1 /\ chan = <<>>
  /\ mainTx <=> prod = "unspawned"
  /\ mainRx <=> Unspawned
  /\ main \in {"awaitWorkers", "report", "result"} => prod = "exited"
  /\ main \in {"report", "result"} => \A w \in Worker : wpc[w] = "exited"
  /\ done # NoDone => prod = "exited" /\ \A w \in Worker : wpc[w] = "exited"
  /\ main \notin {"result", "returned"} => done = NoDone
  /\ main = "result" => done # NoDone
  /\ result = NoResult <=> main # "returned"
  /\ Aborted => cancel

\* Why a task is over: the plan is sent and taken, or the run is cancelled.
ExitInv ==
  /\ prod = "exited" => next > NumFiles \/ cancel
  /\ \A w \in Worker :
       wpc[w] = "exited" => cancel \/ (prod = "exited" /\ chan = <<>>)

\* The counter, what was announced from it and what was returned agree.
OutcomeInv ==
  /\ errors = Cardinality(Failed)
  /\ done # NoDone => done.errors = errors /\ (done.success => errors = 0)
  /\ done.success => \A f \in File : stat[f] \in SettledStat
  /\ result # NoResult =>
       result = IF ~done.success /\ cancel THEN "cancelled" ELSE "ok"

\* A "q" that is not in the flag yet is about to be.
QuitInv == (\E f \in File : stat[f] = "quit") =>
  cancel \/ \E w \in Worker : wpc[w] = "setcancel"

\* The places of the tasks, the contents of the channel, the counter and the
\* announced outcome fit together at every step: run() awaits tasks that are
\* over for a reason, and Done tells that reason.
IInv ==
  /\ \A w \in Worker : cur[w] # NoFile <=> wpc[w] \in OnFile
  /\ prod = "send" => next <= NumFiles
  /\ PhaseInv /\ ExitInv /\ Conveyed /\ OneWorkerPerFile /\ OutcomeInv /\ QuitInv

Contract == INSTANCE RunContract WITH
  status <- [f \in File |-> IF stat[f] = "quit" THEN "failed" ELSE stat[f]],
  cancelled <- cancel

\* The pipeline implements the abstract run.
ContractSpec == Contract!Spec
-----------------------------------------------------------------------------
(* What the repository says of a run, and the code does not do             *)

\* headless.rs:16-18: the exit code is not zero if any errors were reported.
ErrorsExitNonZero == result # NoResult /\ fileErrors > 0 => ExitCode # 0
=============================================================================
