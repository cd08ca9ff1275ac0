----------------------------- MODULE CliProofs -----------------------------
(***************************************************************************)
(* Proofs about Cli for every plan, every number of workers and every      *)
(* configuration.                                                          *)
(***************************************************************************)
EXTENDS Cli, FiniteSetTheorems, FunctionTheorems, SequenceTheorems, TLAPS

USE CliAssumption
-----------------------------------------------------------------------------
(* The inductive invariant                                                 *)

Starting == {"load", "flags", "validate"}

\* Where the three tasks are, relative to each other.
PhaseInv ==
  /\ engine # "unborn" \/ main \in Starting \/ exit \in {2, Panicked}
  /\ main \in Starting => engine = "unborn"
  /\ main \in {"awaitEngine", "awaitRender"} => engine # "unborn"
  /\ render = "unborn" <=> engine = "unborn"
  /\ engine = "over" <=> result # E!NoResult
  /\ main = "awaitRender" => engine = "over"
  /\ main = "exited" <=> exit # NoExit
  /\ engine # "unborn" /\ main = "exited" =>
       engine = "over" /\ render \in {"over", "panicked"}

\* What the engine has done at each place, and what its result says.
PoolInv ==
  /\ engine \in {"unborn", "planning", "early"} =>
       (\A f \in File : status[f] = "todo") /\ done = E!NoDone
  /\ done # E!NoDone => Busy = {}
  /\ engine = "over" => Busy = {}
  /\ result = "ok" => done # E!NoDone /\ (done.success \/ ~cancelled)
  /\ result = "cancelled" => cancelled

\* What ends in a panic has found the standard error broken; a renderer that
\* printed its summary has not.
LossInv ==
  /\ Lost # {} \/ render = "panicked" => stderr = "broken"
  /\ render = "over" => Lost = {}

\* A run that lost no worker and was not cut short accounts for every file.
AccountInv ==
  done # E!NoDone /\ Lost = {} /\ (done.success \/ ~cancelled) =>
    \A f \in File : status[f] \in E!Settled

\* The renderer finishes on an empty, closed channel.
RenderInv ==
  /\ render \in {"unborn", "over", "panicked"} => events = <<>>
  /\ render = "over" => engine = "over"
  /\ render = "over" <=> summary # NoSummary

\* Where each exit code comes from.
ExitInv ==
  /\ exit = 0 => result = "ok" /\ render = "over"
  /\ exit = 130 => result = "cancelled" /\ render = "over"
  /\ exit = 1 => result = "error" /\ render = "over"
  /\ exit = 2 => engine = "unborn"

\* Event::Done repeats the number of failed files and is the last event.
Positions(s, kind) == {i \in 1 .. Len(s) : s[i].kind = kind}

DoneInv ==
  /\ done # E!NoDone => done.errors = Cardinality(E!Failed)
  /\ \A i \in 1 .. Len(events) : events[i].kind = "done" =>
       i = Len(events) /\ done # E!NoDone /\ events[i].errors = done.errors

\* What the renderer has counted and what is on its way to it make up what
\* happened; what it counted is what it prints.
CountInv ==
  render # "panicked" =>
    /\ shown.files + Cardinality(Positions(events, "file_completed"))
         = Cardinality(Completed)
    /\ shown.errors + Cardinality(Positions(events, "file_error"))
         = early + Cardinality(E!Failed)

SummaryInv == summary # NoSummary => summary = shown

IInv ==
  /\ PhaseInv /\ PoolInv /\ LossInv /\ AccountInv /\ RenderInv /\ ExitInv
  /\ DoneInv /\ CountInv /\ SummaryInv
-----------------------------------------------------------------------------
(* Types                                                                   *)

\* The contract's own name for Cardinality is Cardinality.
LEMMA SameCardinality == \A S : E!Cardinality(S) = Cardinality(S)
  BY DEF E!Cardinality, Cardinality

LEMMA FailedFinite ==
  /\ IsFiniteSet(E!Failed) /\ Cardinality(E!Failed) \in Nat
  /\ IsFiniteSet(Completed) /\ Cardinality(Completed) \in Nat
<1>1. E!Failed \in SUBSET File /\ Completed \in SUBSET File
  BY DEF E!Failed, Completed
<1> QED
  BY <1>1, FS_Subset, FS_CardinalityType DEF CliAssumption

LEMMA EventTypes ==
  ASSUME NEW event \in EventSet
  PROVE  /\ event.kind \in {"file_completed", "file_error", "log", "done"}
         /\ event.kind = "done" => event.errors \in Nat /\ event.success \in BOOLEAN
BY DEF EventSet

LEMMA SendTypes ==
  ASSUME NEW event \in EventSet, events \in Seq(EventSet), Send(event)
  PROVE  events' \in Seq(EventSet)
BY DEF Send

LEMMA QueueTypes ==
  ASSUME events \in Seq(EventSet), events # <<>>
  PROVE  Head(events) \in EventSet /\ Tail(events) \in Seq(EventSet)
OBVIOUS

LEMMA TypeInit == Init => TypeOK
<1> SUFFICES ASSUME Init PROVE TypeOK
  OBVIOUS
<1> USE DEF Init, E!Init
<1>1. early \in 0 .. MaxEarly /\ events \in Seq(EventSet)
  BY DEF CliAssumption
<1>2. shown \in [files : Nat, errors : Nat] /\ summary = NoSummary
  OBVIOUS
<1>3. status \in [File -> {"todo", "busy", "lost"} \cup E!Settled]
  OBVIOUS
<1> QED
  BY <1>1, <1>2, <1>3 DEF TypeOK

LEMMA TypeMain == TypeOK /\ PhaseInv /\ Main => TypeOK'
<1> SUFFICES ASSUME TypeOK, PhaseInv, Main PROVE TypeOK'
  OBVIOUS
<1> USE DEF TypeOK, Exit, ExitSaying, cli, run, renderer, Panicked
<1>1. CASE LoadConfig      BY <1>1 DEF LoadConfig
<1>2. CASE ApplyOverrides
  <2>1. settings.flag \in {"absent", "unknown", "good", "zero"}
    BY DEF CliAssumption
  <2> QED
    BY <1>2, <2>1 DEF ApplyOverrides
<1>3. CASE Validate        BY <1>3 DEF Validate
<1>4. CASE AwaitEngine     BY <1>4 DEF AwaitEngine
<1>5. CASE AwaitRender
  <2>1. result \in {"ok", "cancelled", "error"}
    BY <1>5 DEF AwaitRender, PhaseInv
  <2>2. exit' \in {0, 1, Panicked, 130} /\ main' = "exited"
    BY <1>5, <2>1 DEF AwaitRender, ExitCode
  <2> QED
    BY <1>5, <2>2 DEF AwaitRender
<1> QED
  BY <1>1, <1>2, <1>3, <1>4, <1>5 DEF Main

LEMMA TypeEngine == TypeOK /\ (Engine \/ Cancel) => TypeOK'
<1> SUFFICES ASSUME TypeOK, Engine \/ Cancel PROVE TypeOK'
  OBVIOUS
<1> USE DEF TypeOK, cli, run, renderer, E!Settled
<1>1. CASE Plan            BY <1>1 DEF Plan
<1>2. CASE EarlyError
  <2>1. [kind |-> "file_error"] \in EventSet
    BY DEF EventSet
  <2>2. events' \in Seq(EventSet)
    BY <1>2, <2>1, SendTypes DEF EarlyError
  <2>3. early' \in 0 .. MaxEarly
    BY <1>2 DEF EarlyError, CliAssumption
  <2> QED
    BY <1>2, <2>2, <2>3 DEF EarlyError
<1>3. CASE AbortRun        BY <1>3 DEF AbortRun, E!Abort
<1>4. CASE StartPool       BY <1>4 DEF StartPool
<1>5. ASSUME NEW f \in File, Take(f) PROVE TypeOK'
  BY <1>5 DEF Take, E!Claim
<1>6. ASSUME NEW f \in File, Settle(f) PROVE TypeOK'
  <2>1. PICK s \in E!Settled : status' = [status EXCEPT ![f] = s]
    BY <1>6 DEF Settle, E!Settle
  <2>2. status' \in [File -> {"todo", "busy", "lost"} \cup E!Settled] /\ status'[f] = s
    BY <2>1
  <2> DEFINE kind == EventOf[status'[f]]
  <2>3. kind \in {"file_completed", "file_error", "log"}
    BY <2>2 DEF EventOf
  <2>4. [kind |-> kind] \in EventSet
    BY <2>3 DEF EventSet
  <2>5. Send([kind |-> kind])
    BY <1>6 DEF Settle
  <2>6. events' \in Seq(EventSet)
    BY <2>4, <2>5, SendTypes
  <2> QED
    BY <1>6, <2>2, <2>6 DEF Settle, E!Settle
<1>7. ASSUME NEW f \in File, WorkerPanics(f) PROVE TypeOK'
  BY <1>7 DEF WorkerPanics
<1>8. CASE Announce
  <2>1. done' = [success |-> E!Failed = {} /\ ~cancelled, errors |-> Cardinality(E!Failed)]
    BY <1>8, SameCardinality DEF Announce, E!Announce
  <2>2. done'.success \in BOOLEAN /\ done'.errors \in Nat
    BY <2>1, FailedFinite
  <2>3. done' \in [success : BOOLEAN, errors : Nat]
    BY <2>1, FailedFinite
  <2>4. [kind |-> "done", success |-> done'.success, errors |-> done'.errors] \in EventSet
    BY <2>2 DEF EventSet
  <2>5. events' \in Seq(EventSet)
    BY <1>8, <2>4, SendTypes DEF Announce
  <2>6. UNCHANGED <<status, cancelled, result>>
    BY <1>8 DEF Announce, E!Announce
  <2> QED
    BY <1>8, <2>3, <2>5, <2>6 DEF Announce
<1>9. CASE ReturnRun       BY <1>9 DEF ReturnRun, E!Return
<1>10. CASE Cancel         BY <1>10 DEF Cancel, E!Cancel
<1> QED
  BY <1>1, <1>2, <1>3, <1>4, <1>5, <1>6, <1>7, <1>8, <1>9, <1>10 DEF Engine

LEMMA TypeRender == TypeOK /\ (Render \/ BreakStderr \/ UNCHANGED vars) => TypeOK'
<1> SUFFICES ASSUME TypeOK, Render \/ BreakStderr \/ UNCHANGED vars PROVE TypeOK'
  OBVIOUS
<1> USE DEF TypeOK, Printing, cli, run, renderer
<1>1. CASE PrintHeader     BY <1>1 DEF PrintHeader
<1>2. CASE Handle
  <2> DEFINE event == Head(events)
  <2>1. event \in EventSet /\ Tail(events) \in Seq(EventSet)
    BY <1>2, QueueTypes DEF Handle
  <2>2. shown' \in [files : Nat, errors : Nat]
    <3>1. shown' \in {CountDone(event), CountOne(event.kind)}
          /\ (event.kind # "done" => shown' = CountOne(event.kind))
      BY <1>2 DEF Handle
    <3>2. CountOne(event.kind) \in [files : Nat, errors : Nat]
      BY DEF CountOne
    <3>3. event.kind = "done" => CountDone(event) \in [files : Nat, errors : Nat]
      BY <2>1, EventTypes DEF CountDone
    <3> QED
      BY <3>1, <3>2, <3>3
  <2>3. /\ events' \in {Tail(events), <<>>} /\ render' \in {"loop", "panicked"}
        /\ UNCHANGED <<cli, stderr, engine, early, run, summary>>
    BY <1>2 DEF Handle
  <2>4. events' \in Seq(EventSet)
    <3>1. events' = Tail(events) \/ events' = <<>>
      BY <2>3
    <3>2. <<>> \in Seq(EventSet)
      OBVIOUS
    <3> QED
      BY ONLY <2>1, <3>1, <3>2, Zenon
  <2> QED
    BY <2>2, <2>3, <2>4
<1>3. CASE Finish          BY <1>3 DEF Finish
<1>4. CASE BreakStderr     BY <1>4 DEF BreakStderr
<1>5. CASE UNCHANGED vars  BY <1>5 DEF vars
<1> QED
  BY <1>1, <1>2, <1>3, <1>4, <1>5 DEF Render
-----------------------------------------------------------------------------
(* Where the tasks are                                                     *)

LEMMA PhaseInit == Init => PhaseInv
BY DEF Init, E!Init, PhaseInv, Starting, E!NoResult

LEMMA PhaseMain == TypeOK /\ PhaseInv /\ Main => PhaseInv'
<1> SUFFICES ASSUME TypeOK, PhaseInv, Main PROVE PhaseInv'
  OBVIOUS
<1> USE DEF TypeOK, PhaseInv, Starting, Exit, ExitSaying, cli, run, renderer, NoExit, Panicked
<1>1. CASE LoadConfig      BY <1>1 DEF LoadConfig
<1>2. CASE ApplyOverrides  BY <1>2 DEF ApplyOverrides
<1>3. CASE Validate        BY <1>3 DEF Validate, E!NoResult
<1>4. CASE AwaitEngine     BY <1>4 DEF AwaitEngine
<1>5. CASE AwaitRender     BY <1>5 DEF AwaitRender, ExitCode
<1> QED
  BY <1>1, <1>2, <1>3, <1>4, <1>5 DEF Main

LEMMA PhaseEngine == TypeOK /\ PhaseInv /\ (Engine \/ Cancel) => PhaseInv'
<1> SUFFICES ASSUME TypeOK, PhaseInv, Engine \/ Cancel PROVE PhaseInv'
  OBVIOUS
<1> USE DEF TypeOK, PhaseInv, Starting, cli, run, renderer, E!NoResult
<1>1. CASE Plan            BY <1>1 DEF Plan
<1>2. CASE EarlyError      BY <1>2 DEF EarlyError
<1>3. CASE AbortRun        BY <1>3 DEF AbortRun, E!Abort
<1>4. CASE StartPool       BY <1>4 DEF StartPool
<1>5. ASSUME NEW f \in File, Take(f) PROVE PhaseInv'
  BY <1>5 DEF Take, E!Claim
<1>6. ASSUME NEW f \in File, Settle(f) PROVE PhaseInv'
  BY <1>6 DEF Settle, E!Settle
<1>7. ASSUME NEW f \in File, WorkerPanics(f) PROVE PhaseInv'
  BY <1>7 DEF WorkerPanics
<1>8. CASE Announce        BY <1>8 DEF Announce, E!Announce
<1>9. CASE ReturnRun       BY <1>9 DEF ReturnRun, E!Return
<1>10. CASE Cancel         BY <1>10 DEF Cancel, E!Cancel
<1> QED
  BY <1>1, <1>2, <1>3, <1>4, <1>5, <1>6, <1>7, <1>8, <1>9, <1>10 DEF Engine

LEMMA PhaseRender ==
  TypeOK /\ PhaseInv /\ (Render \/ BreakStderr \/ UNCHANGED vars) => PhaseInv'
<1> SUFFICES ASSUME TypeOK, PhaseInv, Render \/ BreakStderr \/ UNCHANGED vars
             PROVE  PhaseInv'
  OBVIOUS
<1> USE DEF PhaseInv, Starting, Printing, cli, run, renderer
<1>1. CASE PrintHeader     BY <1>1 DEF PrintHeader
<1>2. CASE Handle          BY <1>2 DEF Handle
<1>3. CASE Finish          BY <1>3 DEF Finish
<1>4. CASE BreakStderr     BY <1>4 DEF BreakStderr
<1>5. CASE UNCHANGED vars  BY <1>5 DEF vars
<1> QED
  BY <1>1, <1>2, <1>3, <1>4, <1>5 DEF Render
-----------------------------------------------------------------------------
(* What the engine has done                                                *)

LEMMA PoolInit == Init => PoolInv
BY DEF Init, E!Init, PoolInv, E!NoResult

LEMMA PoolMain == PhaseInv /\ PoolInv /\ Main => PoolInv'
<1> SUFFICES ASSUME PhaseInv, PoolInv, Main PROVE PoolInv'
  OBVIOUS
<1> USE DEF PhaseInv, PoolInv, Busy, Starting, cli, run, renderer
<1>1. CASE LoadConfig      BY <1>1 DEF LoadConfig
<1>2. CASE ApplyOverrides  BY <1>2 DEF ApplyOverrides
<1>3. CASE Validate        BY <1>3 DEF Validate
<1>4. CASE AwaitEngine     BY <1>4 DEF AwaitEngine
<1>5. CASE AwaitRender     BY <1>5 DEF AwaitRender
<1> QED
  BY <1>1, <1>2, <1>3, <1>4, <1>5 DEF Main

\* While a file is in progress, so is the pool.
LEMMA BusyInPool ==
  TypeOK /\ PoolInv /\ Busy # {} => done = E!NoDone /\ engine = "pool"
BY DEF TypeOK, PoolInv, Busy

LEMMA PoolEngine == TypeOK /\ PhaseInv /\ PoolInv /\ (Engine \/ Cancel) => PoolInv'
<1> SUFFICES ASSUME TypeOK, PhaseInv, PoolInv, Engine \/ Cancel PROVE PoolInv'
  OBVIOUS
<1> USE DEF PoolInv, Busy, cli, run, renderer, E!NoResult
<1>1. CASE Plan            BY <1>1 DEF Plan
<1>2. CASE EarlyError      BY <1>2 DEF EarlyError
<1>3. CASE AbortRun        BY <1>3 DEF AbortRun, E!Abort
<1>4. CASE StartPool       BY <1>4 DEF StartPool
<1>5. ASSUME NEW f \in File, Take(f) PROVE PoolInv'
  BY <1>5 DEF Take, E!Claim, PhaseInv
<1>6. ASSUME NEW f \in File, Settle(f) PROVE PoolInv'
  <2>1. f \in Busy /\ UNCHANGED <<engine, cancelled, done, result>>
    BY <1>6 DEF Settle, E!Settle
  <2>2. done = E!NoDone /\ engine = "pool"
    BY <2>1, BusyInPool
  <2> QED
    BY <2>1, <2>2
<1>7. ASSUME NEW f \in File, WorkerPanics(f) PROVE PoolInv'
  <2>1. f \in Busy /\ UNCHANGED <<engine, cancelled, done, result>>
    BY <1>7 DEF WorkerPanics
  <2>2. done = E!NoDone /\ engine = "pool"
    BY <2>1, BusyInPool
  <2> QED
    BY <2>1, <2>2
<1>8. CASE Announce
  <2>1. Busy = {} /\ UNCHANGED <<engine, status, cancelled, result>> /\ engine = "pool"
    BY <1>8 DEF Announce, E!Announce
  <2>2. result = E!NoResult
    BY <2>1 DEF PhaseInv
  <2> QED
    BY <2>1, <2>2
<1>9. CASE ReturnRun       BY <1>9 DEF ReturnRun, E!Return
<1>10. CASE Cancel         BY <1>10 DEF Cancel, E!Cancel
<1> QED
  BY <1>1, <1>2, <1>3, <1>4, <1>5, <1>6, <1>7, <1>8, <1>9, <1>10 DEF Engine

LEMMA PoolRender == PoolInv /\ (Render \/ BreakStderr \/ UNCHANGED vars) => PoolInv'
<1> SUFFICES ASSUME PoolInv, Render \/ BreakStderr \/ UNCHANGED vars PROVE PoolInv'
  OBVIOUS
<1>1. UNCHANGED <<engine, status, cancelled, done, result>>
  BY DEF Render, PrintHeader, Handle, Finish, BreakStderr, vars, run
<1> QED
  BY <1>1 DEF PoolInv, Busy
-----------------------------------------------------------------------------
(* Panics                                                                  *)

LEMMA LossInit == Init => LossInv
BY DEF Init, E!Init, LossInv, Lost

LEMMA LossMain == PhaseInv /\ LossInv /\ Main => LossInv'
<1> SUFFICES ASSUME PhaseInv, LossInv, Main PROVE LossInv'
  OBVIOUS
<1>1. UNCHANGED <<status, stderr>> /\ (UNCHANGED render \/ render' = "header")
  BY DEF Main, LoadConfig, ApplyOverrides, Validate, AwaitEngine, AwaitRender, run, renderer
<1> QED
  BY <1>1 DEF LossInv, Lost

LEMMA LossEngine == TypeOK /\ PoolInv /\ RenderInv /\ LossInv /\ (Engine \/ Cancel) => LossInv'
<1> SUFFICES ASSUME TypeOK, PoolInv, RenderInv, LossInv, Engine \/ Cancel PROVE LossInv'
  OBVIOUS
<1> USE DEF LossInv, Lost, cli, run, renderer
<1>1. CASE Plan            BY <1>1 DEF Plan
<1>2. CASE EarlyError      BY <1>2 DEF EarlyError
<1>3. CASE AbortRun        BY <1>3 DEF AbortRun, E!Abort
<1>4. CASE StartPool       BY <1>4 DEF StartPool
<1>5. ASSUME NEW f \in File, Take(f) PROVE LossInv'
  BY <1>5 DEF Take, E!Claim, TypeOK
<1>6. ASSUME NEW f \in File, Settle(f) PROVE LossInv'
  BY <1>6 DEF Settle, E!Settle, E!Settled, TypeOK
<1>7. ASSUME NEW f \in File, WorkerPanics(f) PROVE LossInv'
  <2>1. f \in Busy /\ stderr = "broken" /\ UNCHANGED <<stderr, render>>
    BY <1>7 DEF WorkerPanics, Busy
  <2>2. render # "over"
    BY <2>1 DEF PoolInv, RenderInv
  <2> QED
    BY <2>1, <2>2
<1>8. CASE Announce        BY <1>8 DEF Announce, E!Announce
<1>9. CASE ReturnRun       BY <1>9 DEF ReturnRun, E!Return
<1>10. CASE Cancel         BY <1>10 DEF Cancel, E!Cancel
<1> QED
  BY <1>1, <1>2, <1>3, <1>4, <1>5, <1>6, <1>7, <1>8, <1>9, <1>10 DEF Engine

LEMMA LossRender == TypeOK /\ LossInv /\ (Render \/ BreakStderr \/ UNCHANGED vars) => LossInv'
<1> SUFFICES ASSUME TypeOK, LossInv, Render \/ BreakStderr \/ UNCHANGED vars PROVE LossInv'
  OBVIOUS
<1> USE DEF TypeOK, LossInv, Lost, Printing, run, renderer
<1>1. CASE PrintHeader     BY <1>1 DEF PrintHeader
<1>2. CASE Handle          BY <1>2 DEF Handle
<1>3. CASE Finish          BY <1>3 DEF Finish
<1>4. CASE BreakStderr     BY <1>4 DEF BreakStderr
<1>5. CASE UNCHANGED vars  BY <1>5 DEF vars
<1> QED
  BY <1>1, <1>2, <1>3, <1>4, <1>5 DEF Render
-----------------------------------------------------------------------------
(* Every file is accounted for                                             *)

LEMMA AccountInit == Init => AccountInv
BY DEF Init, E!Init, AccountInv

LEMMA AccountEngine ==
  TypeOK /\ PoolInv /\ AccountInv /\ (Engine \/ Cancel) => AccountInv'
<1> SUFFICES ASSUME TypeOK, PoolInv, AccountInv, Engine \/ Cancel PROVE AccountInv'
  OBVIOUS
<1> USE DEF AccountInv, Lost, cli, run, renderer
<1>1. CASE Plan            BY <1>1 DEF Plan
<1>2. CASE EarlyError      BY <1>2 DEF EarlyError
<1>3. CASE AbortRun        BY <1>3 DEF AbortRun, E!Abort
<1>4. CASE StartPool       BY <1>4 DEF StartPool
<1>5. ASSUME NEW f \in File, Take(f) PROVE AccountInv'
  BY <1>5 DEF Take, E!Claim
<1>6. ASSUME NEW f \in File, Settle(f) PROVE AccountInv'
  BY <1>6, BusyInPool DEF Settle, E!Settle, Busy
<1>7. ASSUME NEW f \in File, WorkerPanics(f) PROVE AccountInv'
  BY <1>7, BusyInPool DEF WorkerPanics, Busy
<1>8. CASE Announce
  <2>1. CASE E!Announce
    <3>1. done'.success => ~cancelled
      BY <2>1 DEF E!Announce
    <3>2. UNCHANGED <<status, cancelled>>
      BY <2>1 DEF E!Announce
    <3> QED
      BY <2>1, <3>1, <3>2 DEF E!Announce
  <2>2. CASE Lost # {} /\ UNCHANGED status
    BY <2>2
  <2> QED
    BY <1>8, <2>1, <2>2 DEF Announce
<1>9. CASE ReturnRun       BY <1>9 DEF ReturnRun, E!Return
<1>10. CASE Cancel         BY <1>10 DEF Cancel, E!Cancel
<1> QED
  BY <1>1, <1>2, <1>3, <1>4, <1>5, <1>6, <1>7, <1>8, <1>9, <1>10 DEF Engine

LEMMA AccountOther ==
  AccountInv /\ (Main \/ Render \/ BreakStderr \/ UNCHANGED vars) => AccountInv'
<1> SUFFICES ASSUME AccountInv, Main \/ Render \/ BreakStderr \/ UNCHANGED vars
             PROVE  AccountInv'
  OBVIOUS
<1>1. UNCHANGED <<status, cancelled, done>>
  BY DEF Main, LoadConfig, ApplyOverrides, Validate, AwaitEngine, AwaitRender,
         Render, PrintHeader, Handle, Finish, BreakStderr, vars, run
<1> QED
  BY <1>1 DEF AccountInv, Lost
-----------------------------------------------------------------------------
(* The renderer                                                            *)

LEMMA RenderInit == Init => RenderInv
BY DEF Init, RenderInv

LEMMA RenderMain == PhaseInv /\ RenderInv /\ Main => RenderInv'
<1> SUFFICES ASSUME PhaseInv, RenderInv, Main PROVE RenderInv'
  OBVIOUS
<1> USE DEF PhaseInv, RenderInv, Starting, cli, run, renderer
<1>1. CASE LoadConfig      BY <1>1 DEF LoadConfig
<1>2. CASE ApplyOverrides  BY <1>2 DEF ApplyOverrides
<1>3. CASE Validate        BY <1>3 DEF Validate
<1>4. CASE AwaitEngine     BY <1>4 DEF AwaitEngine
<1>5. CASE AwaitRender     BY <1>5 DEF AwaitRender
<1> QED
  BY <1>1, <1>2, <1>3, <1>4, <1>5 DEF Main

\* What sends is neither before the renderer's start nor after its end.
LEMMA RenderSend ==
  ASSUME RenderInv, PhaseInv, engine \in {"early", "pool"}, NEW event, Send(event),
         UNCHANGED <<engine, render, summary>>
  PROVE  RenderInv'
BY DEF RenderInv, PhaseInv, Send

LEMMA RenderEngine ==
  TypeOK /\ PhaseInv /\ PoolInv /\ RenderInv /\ (Engine \/ Cancel) => RenderInv'
<1> SUFFICES ASSUME TypeOK, PhaseInv, PoolInv, RenderInv, Engine \/ Cancel
             PROVE  RenderInv'
  OBVIOUS
<1> USE DEF cli, run, renderer
<1>1. CASE Plan            BY <1>1 DEF Plan, RenderInv
<1>2. CASE EarlyError      BY <1>2, RenderSend DEF EarlyError
<1>3. CASE AbortRun        BY <1>3 DEF AbortRun, RenderInv
<1>4. CASE StartPool       BY <1>4 DEF StartPool, RenderInv
<1>5. ASSUME NEW f \in File, Take(f) PROVE RenderInv'
  BY <1>5 DEF Take, RenderInv
<1>6. ASSUME NEW f \in File, Settle(f) PROVE RenderInv'
  BY <1>6, BusyInPool, RenderSend DEF Settle, E!Settle, Busy
<1>7. ASSUME NEW f \in File, WorkerPanics(f) PROVE RenderInv'
  BY <1>7 DEF WorkerPanics, RenderInv
<1>8. CASE Announce        BY <1>8, RenderSend DEF Announce
<1>9. CASE ReturnRun       BY <1>9 DEF ReturnRun, RenderInv
<1>10. CASE Cancel         BY <1>10 DEF Cancel, RenderInv
<1> QED
  BY <1>1, <1>2, <1>3, <1>4, <1>5, <1>6, <1>7, <1>8, <1>9, <1>10 DEF Engine

LEMMA RenderRender ==
  TypeOK /\ RenderInv /\ (Render \/ BreakStderr \/ UNCHANGED vars) => RenderInv'
<1> SUFFICES ASSUME TypeOK, RenderInv, Render \/ BreakStderr \/ UNCHANGED vars
             PROVE  RenderInv'
  OBVIOUS
<1> USE DEF RenderInv, Printing, renderer
<1>1. CASE PrintHeader     BY <1>1 DEF PrintHeader
<1>2. CASE Handle          BY <1>2 DEF Handle
<1>3. CASE Finish
  <2>1. shown # NoSummary
    BY DEF TypeOK, NoSummary
  <2> QED
    BY <1>3, <2>1 DEF Finish
<1>4. CASE BreakStderr     BY <1>4 DEF BreakStderr
<1>5. CASE UNCHANGED vars  BY <1>5 DEF vars
<1> QED
  BY <1>1, <1>2, <1>3, <1>4, <1>5 DEF Render
-----------------------------------------------------------------------------
(* The exit code                                                           *)

LEMMA ExitInit == Init => ExitInv
BY DEF Init, ExitInv, NoExit

LEMMA ExitMain == TypeOK /\ PhaseInv /\ LossInv /\ ExitInv /\ Main => ExitInv'
<1> SUFFICES ASSUME TypeOK, PhaseInv, LossInv, ExitInv, Main PROVE ExitInv'
  OBVIOUS
<1> USE DEF ExitInv, PhaseInv, Starting, Exit, ExitSaying, cli, run, renderer, NoExit,
            Panicked
<1>1. CASE LoadConfig      BY <1>1 DEF LoadConfig
<1>2. CASE ApplyOverrides  BY <1>2 DEF ApplyOverrides
<1>3. CASE Validate        BY <1>3 DEF Validate
<1>4. CASE AwaitEngine     BY <1>4 DEF AwaitEngine
<1>5. CASE AwaitRender
  <2>1. UNCHANGED <<engine, result, render>> /\ result # E!NoResult
    BY <1>5 DEF AwaitRender
  <2>2. CASE render = "panicked"
    BY <1>5, <2>1, <2>2 DEF AwaitRender, LossInv
  <2>3. CASE render = "over" /\ result = "error"
    BY <1>5, <2>1, <2>3 DEF AwaitRender
  <2>4. CASE render = "over" /\ result # "error"
    <3>1. exit' = IF result = "ok" THEN 0 ELSE 130
      BY <1>5, <2>4 DEF AwaitRender, ExitCode
    <3>2. result \in {"ok", "cancelled"}
      BY <2>1, <2>4 DEF TypeOK
    <3> QED
      BY <2>1, <2>4, <3>1, <3>2
  <2> QED
    BY <1>5, <2>2, <2>3, <2>4 DEF AwaitRender
<1> QED
  BY <1>1, <1>2, <1>3, <1>4, <1>5 DEF Main

LEMMA ExitEngine ==
  TypeOK /\ PhaseInv /\ PoolInv /\ ExitInv /\ (Engine \/ Cancel) => ExitInv'
<1> SUFFICES ASSUME TypeOK, PhaseInv, PoolInv, ExitInv, Engine \/ Cancel
             PROVE  ExitInv'
  OBVIOUS
<1>1. engine \notin {"unborn", "over"} /\ UNCHANGED <<exit, render>>
  BY BusyInPool DEF Engine, Plan, EarlyError, AbortRun, StartPool, Take, Settle, E!Settle,
     Busy, WorkerPanics, Announce, ReturnRun, Cancel, cli, renderer
<1>2. exit \in {NoExit, Panicked}
  BY <1>1 DEF TypeOK, PhaseInv, ExitInv, E!NoResult
<1> QED
  BY <1>1, <1>2 DEF ExitInv, NoExit, Panicked

LEMMA ExitRender ==
  ExitInv /\ (Render \/ BreakStderr \/ UNCHANGED vars) => ExitInv'
<1> SUFFICES ASSUME ExitInv, Render \/ BreakStderr \/ UNCHANGED vars PROVE ExitInv'
  OBVIOUS
<1>1. UNCHANGED <<engine, exit, result>> /\ (render = "over" => render' = "over")
  BY DEF Render, PrintHeader, Handle, Finish, Printing, BreakStderr, vars, cli, run, renderer
<1> QED
  BY <1>1 DEF ExitInv
-----------------------------------------------------------------------------
(* Counting the events of one kind in a queue                              *)

LEMMA PositionsFinite ==
  ASSUME NEW s \in Seq(EventSet), NEW kind
  PROVE  IsFiniteSet(Positions(s, kind)) /\ Cardinality(Positions(s, kind)) \in Nat
<1>1. IsFiniteSet(1 .. Len(s))
  BY FS_Interval
<1>2. Positions(s, kind) \in SUBSET (1 .. Len(s))
  BY DEF Positions
<1> QED
  BY <1>1, <1>2, FS_Subset, FS_CardinalityType

LEMMA CountEmpty == \A kind : Cardinality(Positions(<<>>, kind)) = 0
<1>1. \A kind : Positions(<<>>, kind) = {}
  BY DEF Positions
<1> QED
  BY <1>1, FS_EmptySet

\* An event that is appended is one more of its kind, and of no other.
LEMMA CountAppend ==
  ASSUME NEW s \in Seq(EventSet), NEW event \in EventSet, NEW kind
  PROVE  Cardinality(Positions(Append(s, event), kind))
           = Cardinality(Positions(s, kind)) + (IF event.kind = kind THEN 1 ELSE 0)
<1> DEFINE n == Len(s) + 1
<1>1. /\ Len(Append(s, event)) = n /\ n \in Nat /\ n \notin 1 .. Len(s)
      /\ 1 .. n = (1 .. Len(s)) \cup {n}
      /\ \A i \in 1 .. Len(s) : Append(s, event)[i] = s[i]
      /\ Append(s, event)[n] = event
  BY AppendProperties
<1> HIDE DEF n
<1>2. CASE event.kind = kind
  <2>1. Positions(Append(s, event), kind) = Positions(s, kind) \cup {n}
    BY <1>1, <1>2 DEF Positions
  <2>2. n \notin Positions(s, kind)
    BY <1>1 DEF Positions
  <2> QED
    BY <1>2, <2>1, <2>2, PositionsFinite, FS_AddElement
<1>3. CASE event.kind # kind
  <2>1. Positions(Append(s, event), kind) = Positions(s, kind)
    BY <1>1, <1>3 DEF Positions
  <2> QED
    BY <1>3, <2>1, PositionsFinite
<1> QED
  BY <1>2, <1>3

\* The event at the head counts one, the tail the rest.
LEMMA CountTail ==
  ASSUME NEW s \in Seq(EventSet), s # <<>>, NEW kind
  PROVE  Cardinality(Positions(s, kind))
           = Cardinality(Positions(Tail(s), kind)) + (IF Head(s).kind = kind THEN 1 ELSE 0)
<1>1. /\ Tail(s) \in Seq(EventSet) /\ Len(s) \in Nat /\ Len(Tail(s)) = Len(s) - 1
      /\ \A i \in 1 .. Len(Tail(s)) : Tail(s)[i] = s[i + 1]
      /\ Head(s) = s[1] /\ Len(s) > 0
  BY HeadTailProperties
<1> DEFINE S == Positions(Tail(s), kind)
           T == Positions(s, kind) \ {1}
           shift == [i \in S |-> i + 1]
<1>2. shift \in Bijection(S, T)
  <2>1. S \subseteq 1 .. Len(Tail(s)) /\ S \subseteq Int
    BY <1>1 DEF Positions
  <2>2. \A i \in S : i + 1 \in T
    BY <1>1 DEF Positions
  <2>3. shift \in [S -> T]
    BY <2>2
  <2>4. \A a, b \in S : shift[a] = shift[b] => a = b
    BY <2>1
  <2>5. ASSUME NEW t \in T PROVE \E i \in S : shift[i] = t
    <3>1. t \in 2 .. Len(s) /\ s[t].kind = kind
      BY <1>1 DEF Positions
    <3>2. t - 1 \in 1 .. Len(Tail(s)) /\ (t - 1) + 1 = t
      BY <1>1, <3>1
    <3>3. Tail(s)[t - 1].kind = kind
      BY <1>1, <3>1, <3>2
    <3>4. t - 1 \in S
      BY <3>2, <3>3 DEF Positions
    <3> QED
      BY <3>2, <3>4
  <2> QED
    BY <2>3, <2>4, <2>5, Fun_IsBij
<1>3. Cardinality(T) = Cardinality(S)
  <2>1. IsFiniteSet(S)
    BY <1>1, PositionsFinite
  <2>2. ExistsBijection(S, T)
    BY <1>2, Fun_ExistsBij
  <2> QED
    BY <2>1, <2>2, FS_Bijection
<1>4. 1 \in Positions(s, kind) <=> Head(s).kind = kind
  BY <1>1 DEF Positions
<1>5. Cardinality(T) = IF 1 \in Positions(s, kind) THEN Cardinality(Positions(s, kind)) - 1
                       ELSE Cardinality(Positions(s, kind))
  BY PositionsFinite, FS_RemoveElement
<1> QED
  BY <1>1, <1>3, <1>4, <1>5, PositionsFinite
-----------------------------------------------------------------------------
(* What has become of the files                                            *)

\* One file is settled: it is one more of the completed or of the failed ones.
LEMMA SettleCounts ==
  ASSUME TypeOK, NEW f \in File, E!Settle(f)
  PROVE  LET s == status'[f] IN
         /\ s \in E!Settled
         /\ Cardinality(Completed') = Cardinality(Completed) + (IF s = "done" THEN 1 ELSE 0)
         /\ Cardinality(E!Failed') = Cardinality(E!Failed) + (IF s = "failed" THEN 1 ELSE 0)
<1>1. PICK s \in E!Settled : status' = [status EXCEPT ![f] = s]
  BY DEF E!Settle
<1>2. status'[f] = s /\ \A g \in File \ {f} : status'[g] = status[g]
  BY <1>1 DEF TypeOK
<1>3. f \notin Completed /\ f \notin E!Failed
  BY DEF Completed, E!Failed, E!Settle
<1>4. Completed' = IF s = "done" THEN Completed \cup {f} ELSE Completed
  BY <1>2, <1>3 DEF Completed
<1>5. E!Failed' = IF s = "failed" THEN E!Failed \cup {f} ELSE E!Failed
  BY <1>2, <1>3 DEF E!Failed
<1>6. Cardinality(Completed') = Cardinality(Completed) + (IF s = "done" THEN 1 ELSE 0)
  <2>1. Cardinality(Completed \cup {f}) = Cardinality(Completed) + 1
    BY <1>3, FailedFinite, FS_AddElement
  <2>2. CASE s = "done"
    BY <1>4, <2>1, <2>2
  <2>3. CASE s # "done"
    BY <1>4, <2>3, FailedFinite
  <2> QED
    BY <2>2, <2>3
<1>7. Cardinality(E!Failed') = Cardinality(E!Failed) + (IF s = "failed" THEN 1 ELSE 0)
  <2>1. Cardinality(E!Failed \cup {f}) = Cardinality(E!Failed) + 1
    BY <1>3, FailedFinite, FS_AddElement
  <2>2. CASE s = "failed"
    BY <1>5, <2>1, <2>2
  <2>3. CASE s # "failed"
    BY <1>5, <2>3, FailedFinite
  <2> QED
    BY <2>2, <2>3
<1> QED
  BY <1>1, <1>2, <1>6, <1>7

\* To take a file, or to lose one, changes neither set.
LEMMA UnsettledCounts ==
  ASSUME TypeOK, NEW f \in File, status[f] \in {"todo", "busy"},
         NEW s \in {"busy", "lost"}, status' = [status EXCEPT ![f] = s]
  PROVE  Completed' = Completed /\ E!Failed' = E!Failed
BY DEF TypeOK, Completed, E!Failed
-----------------------------------------------------------------------------
(* Event::Done                                                             *)

LEMMA DoneInit == Init => DoneInv
BY DEF Init, E!Init, DoneInv

\* Before Done is announced, whatever else is sent is no Done.
LEMMA DoneSend ==
  ASSUME TypeOK, DoneInv, done = E!NoDone, done' = done, NEW event \in EventSet,
         event.kind # "done", Send(event)
  PROVE  DoneInv'
<1>1. CASE events' = events
  BY <1>1 DEF DoneInv
<1>2. CASE events' = Append(events, event)
  <2>1. /\ Len(events') = Len(events) + 1 /\ Len(events) \in Nat
        /\ \A i \in 1 .. Len(events) : events'[i] = events[i]
        /\ events'[Len(events) + 1] = event
    BY <1>2, AppendProperties DEF TypeOK
  <2>2. ASSUME NEW i \in 1 .. Len(events') PROVE events'[i].kind # "done"
    BY <2>1 DEF DoneInv
  <2> QED
    BY <2>2 DEF DoneInv
<1> QED
  BY <1>1, <1>2 DEF Send

LEMMA DoneEngine ==
  TypeOK /\ PoolInv /\ DoneInv /\ (Engine \/ Cancel) => DoneInv'
<1> SUFFICES ASSUME TypeOK, PoolInv, DoneInv, Engine \/ Cancel PROVE DoneInv'
  OBVIOUS
<1> USE DEF cli, run, renderer
<1>1. CASE Plan            BY <1>1 DEF Plan, DoneInv, E!Failed
<1>2. CASE EarlyError
  <2>1. [kind |-> "file_error"] \in EventSet
    BY DEF EventSet
  <2> QED
    BY <1>2, <2>1, DoneSend DEF EarlyError, PoolInv
<1>3. CASE AbortRun        BY <1>3 DEF AbortRun, E!Abort, DoneInv, E!Failed
<1>4. CASE StartPool       BY <1>4 DEF StartPool, DoneInv, E!Failed
<1>5. ASSUME NEW f \in File, Take(f) PROVE DoneInv'
  BY <1>5 DEF Take, E!Claim, DoneInv
<1>6. ASSUME NEW f \in File, Settle(f) PROVE DoneInv'
  <2>1. EventOf[status'[f]] \in {"file_completed", "file_error", "log"}
    BY <1>6, SettleCounts DEF Settle, E!Settled, EventOf
  <2>2. [kind |-> EventOf[status'[f]]] \in EventSet
    BY <2>1 DEF EventSet
  <2>3. done = E!NoDone /\ done' = done
    BY <1>6, BusyInPool DEF Settle, E!Settle, Busy
  <2> QED
    BY <1>6, <2>1, <2>2, <2>3, DoneSend DEF Settle
<1>7. ASSUME NEW f \in File, WorkerPanics(f) PROVE DoneInv'
  BY <1>7, BusyInPool DEF WorkerPanics, Busy, DoneInv
<1>8. CASE Announce
  <2> DEFINE event == [kind |-> "done", success |-> done'.success, errors |-> done'.errors]
  <2>1. /\ done = E!NoDone /\ UNCHANGED status
        /\ done' = [success |-> E!Failed = {} /\ ~cancelled, errors |-> Cardinality(E!Failed)]
    BY <1>8, SameCardinality DEF Announce, E!Announce
  <2>2. done'.errors = Cardinality(E!Failed') /\ done' # E!NoDone
    BY <2>1, FailedFinite DEF E!Failed, E!NoDone
  <2>3. event \in EventSet
    BY <2>1, FailedFinite DEF EventSet
  <2>4. \A i \in 1 .. Len(events) : events[i].kind # "done"
    BY <2>1 DEF DoneInv
  <2>5. CASE events' = events
    BY <2>2, <2>4, <2>5 DEF DoneInv
  <2>6. CASE events' = Append(events, event)
    <3>1. /\ Len(events') = Len(events) + 1 /\ Len(events) \in Nat
          /\ \A i \in 1 .. Len(events) : events'[i] = events[i]
          /\ events'[Len(events) + 1] = event
      BY <2>3, <2>6, AppendProperties DEF TypeOK
    <3>2. ASSUME NEW i \in 1 .. Len(events'), events'[i].kind = "done"
          PROVE  i = Len(events') /\ events'[i].errors = done'.errors
      BY <2>4, <3>1, <3>2
    <3> QED
      BY <2>2, <3>2 DEF DoneInv
  <2> QED
    BY <1>8, <2>5, <2>6 DEF Announce, Send
<1>9. CASE ReturnRun       BY <1>9 DEF ReturnRun, E!Return, DoneInv, E!Failed
<1>10. CASE Cancel         BY <1>10 DEF Cancel, E!Cancel, DoneInv, E!Failed
<1> QED
  BY <1>1, <1>2, <1>3, <1>4, <1>5, <1>6, <1>7, <1>8, <1>9, <1>10 DEF Engine

\* The others only take events away, from the front or all of them.
LEMMA DoneOther ==
  TypeOK /\ DoneInv /\ (Main \/ Render \/ BreakStderr \/ UNCHANGED vars) => DoneInv'
<1> SUFFICES ASSUME TypeOK, DoneInv, Main \/ Render \/ BreakStderr \/ UNCHANGED vars
             PROVE  DoneInv'
  OBVIOUS
<1>1. UNCHANGED <<status, done>> /\ E!Failed' = E!Failed
  BY DEF Main, LoadConfig, ApplyOverrides, Validate, AwaitEngine, AwaitRender,
         Render, PrintHeader, Handle, Finish, BreakStderr, vars, run, E!Failed
<1>2. CASE events' = events
  BY <1>1, <1>2 DEF DoneInv
<1>3. CASE events' = <<>>
  BY <1>1, <1>3 DEF DoneInv
<1>4. CASE events # <<>> /\ events' = Tail(events)
  <2>1. /\ Len(events) \in Nat /\ Len(events') = Len(events) - 1
        /\ \A i \in 1 .. Len(events') : events'[i] = events[i + 1]
    BY <1>4, HeadTailProperties DEF TypeOK
  <2>2. ASSUME NEW i \in 1 .. Len(events'), events'[i].kind = "done"
        PROVE  /\ i = Len(events') /\ done # E!NoDone
               /\ events'[i].errors = done.errors
    <3>1. i + 1 \in 1 .. Len(events) /\ events[i + 1].kind = "done"
      BY <2>1, <2>2
    <3> QED
      BY <2>1, <3>1 DEF DoneInv
  <2> QED
    BY <1>1, <2>2 DEF DoneInv
<1> QED
  BY <1>2, <1>3, <1>4 DEF Main, LoadConfig, ApplyOverrides, Validate, AwaitEngine,
     AwaitRender, Render, PrintHeader, Handle, Finish, BreakStderr, vars
-----------------------------------------------------------------------------
(* The renderer's counts                                                   *)

LEMMA CountInit == Init => CountInv
<1> SUFFICES ASSUME Init PROVE CountInv
  OBVIOUS
<1>1. Completed = {} /\ E!Failed = {}
  BY DEF Init, E!Init, Completed, E!Failed
<1>2. Cardinality(Completed) = 0 /\ Cardinality(E!Failed) = 0
  BY <1>1, FS_EmptySet
<1> QED
  BY <1>2, CountEmpty DEF Init, CountInv

\* A step that neither settles a file nor sends, receives or counts.
LEMMA CountFrame ==
  ASSUME CountInv, UNCHANGED <<early, events, shown>>, Completed' = Completed,
         E!Failed' = E!Failed, render' # "panicked" => render # "panicked"
  PROVE  CountInv'
BY DEF CountInv

\* A step that sends counts what it sends.
LEMMA CountSend ==
  ASSUME TypeOK, TypeOK', CountInv, UNCHANGED <<shown, render>>,
         NEW event \in EventSet, Send(event),
         Cardinality(Completed') = Cardinality(Completed)
                                     + (IF event.kind = "file_completed" THEN 1 ELSE 0),
         early' + Cardinality(E!Failed') = early + Cardinality(E!Failed)
                                     + (IF event.kind = "file_error" THEN 1 ELSE 0)
  PROVE  CountInv'
<1> SUFFICES ASSUME render # "panicked" PROVE CountInv'
  BY DEF CountInv
<1>1. events' = Append(events, event) /\ events \in Seq(EventSet)
  BY DEF Send, TypeOK
<1>2. \A kind : Cardinality(Positions(events', kind))
        = Cardinality(Positions(events, kind)) + (IF event.kind = kind THEN 1 ELSE 0)
  BY <1>1, CountAppend
<1>3. \A kind : Cardinality(Positions(events, kind)) \in Nat
  BY <1>1, PositionsFinite
<1>4. shown.files \in Nat /\ shown.errors \in Nat /\ early \in Nat
  BY DEF TypeOK, CliAssumption
<1> HIDE DEF Positions
<1>5. shown'.files + Cardinality(Positions(events', "file_completed"))
        = Cardinality(Completed')
  BY <1>2, <1>3, <1>4, FailedFinite DEF CountInv
<1>6. shown'.errors + Cardinality(Positions(events', "file_error"))
        = early' + Cardinality(E!Failed')
  BY <1>2, <1>3, <1>4, FailedFinite DEF CountInv
<1> QED
  BY <1>5, <1>6 DEF CountInv

LEMMA CountMain == PhaseInv /\ CountInv /\ Main => CountInv'
<1> SUFFICES ASSUME PhaseInv, CountInv, Main PROVE CountInv'
  OBVIOUS
<1>1. UNCHANGED <<early, events, shown, status>>
  BY DEF Main, LoadConfig, ApplyOverrides, Validate, AwaitEngine, AwaitRender, run, renderer
<1>2. render' # "panicked" => render # "panicked"
  BY DEF PhaseInv, Starting, Main, LoadConfig, ApplyOverrides, Validate, AwaitEngine,
         AwaitRender, renderer
<1> QED
  BY <1>1, <1>2, CountFrame DEF Completed, E!Failed

LEMMA CountEngine ==
  TypeOK /\ TypeOK' /\ CountInv /\ (Engine \/ Cancel) => CountInv'
<1> SUFFICES ASSUME TypeOK, TypeOK', CountInv, Engine \/ Cancel PROVE CountInv'
  OBVIOUS
<1> USE DEF cli, run, renderer
<1>1. CASE Plan
  BY <1>1, CountFrame DEF Plan, Completed, E!Failed
<1>2. CASE EarlyError
  <2>1. [kind |-> "file_error"] \in EventSet
    BY DEF EventSet
  <2>2. early' = early + 1 /\ early \in Nat
    BY <1>2 DEF EarlyError, TypeOK, CliAssumption
  <2>3. Completed' = Completed /\ E!Failed' = E!Failed
    BY <1>2 DEF EarlyError, Completed, E!Failed
  <2> QED
    BY <1>2, <2>1, <2>2, <2>3, FailedFinite, CountSend DEF EarlyError
<1>3. CASE AbortRun
  BY <1>3, CountFrame DEF AbortRun, E!Abort, Completed, E!Failed
<1>4. CASE StartPool
  BY <1>4, CountFrame DEF StartPool, Completed, E!Failed
<1>5. ASSUME NEW f \in File, Take(f) PROVE CountInv'
  BY <1>5, UnsettledCounts, CountFrame DEF Take, E!Claim
<1>6. ASSUME NEW f \in File, Settle(f) PROVE CountInv'
  <2> DEFINE s == status'[f]
             event == [kind |-> EventOf[s]]
  <2>1. E!Settle(f) /\ Send(event) /\ UNCHANGED <<early, shown, render>>
    BY <1>6 DEF Settle
  <2>2. /\ s \in E!Settled
        /\ Cardinality(Completed') = Cardinality(Completed) + (IF s = "done" THEN 1 ELSE 0)
        /\ Cardinality(E!Failed') = Cardinality(E!Failed) + (IF s = "failed" THEN 1 ELSE 0)
    BY <2>1, SettleCounts
  <2> HIDE DEF s
  <2>3. /\ event.kind \in {"file_completed", "file_error", "log"}
        /\ event.kind = "file_completed" <=> s = "done"
        /\ event.kind = "file_error" <=> s = "failed"
    BY <2>2 DEF E!Settled, EventOf
  <2>4. event \in EventSet
    BY <2>3 DEF EventSet
  <2>5. early \in Nat
    BY DEF TypeOK, CliAssumption
  <2>6. early' + Cardinality(E!Failed')
          = early + Cardinality(E!Failed) + (IF event.kind = "file_error" THEN 1 ELSE 0)
    BY <2>1, <2>2, <2>3, <2>5, FailedFinite
  <2>7. Cardinality(Completed')
          = Cardinality(Completed) + (IF event.kind = "file_completed" THEN 1 ELSE 0)
    BY <2>2, <2>3
  <2> HIDE DEF event
  <2> QED
    BY <2>1, <2>4, <2>6, <2>7, CountSend
<1>7. ASSUME NEW f \in File, WorkerPanics(f) PROVE CountInv'
  BY <1>7, UnsettledCounts, CountFrame DEF WorkerPanics
<1>8. CASE Announce
  <2> DEFINE event == [kind |-> "done", success |-> done'.success, errors |-> done'.errors]
  <2>1. done' = [success |-> E!Failed = {} /\ ~cancelled, errors |-> Cardinality(E!Failed)]
    BY <1>8, SameCardinality DEF Announce, E!Announce
  <2>2. event \in EventSet /\ event.kind = "done"
    BY <2>1, FailedFinite DEF EventSet
  <2>3. Send(event) /\ UNCHANGED <<early, shown, render, status>>
    BY <1>8 DEF Announce, E!Announce
  <2>4. Completed' = Completed /\ E!Failed' = E!Failed
    BY <2>3 DEF Completed, E!Failed
  <2>5. early \in Nat
    BY DEF TypeOK, CliAssumption
  <2> HIDE DEF event
  <2> QED
    BY <2>2, <2>3, <2>4, <2>5, FailedFinite, CountSend
<1>9. CASE ReturnRun
  BY <1>9, CountFrame DEF ReturnRun, E!Return, Completed, E!Failed
<1>10. CASE Cancel
  BY <1>10, CountFrame DEF Cancel, E!Cancel, Completed, E!Failed
<1> QED
  BY <1>1, <1>2, <1>3, <1>4, <1>5, <1>6, <1>7, <1>8, <1>9, <1>10 DEF Engine

\* A Done that is received is the last event, so that all errors have been
\* counted and it adds none.
LEMMA DoneAddsNothing ==
  ASSUME TypeOK, DoneInv, CountInv, events # <<>>, render = "loop",
         Head(events).kind = "done"
  PROVE  CountDone(Head(events)) = shown
<1>1. events \in Seq(EventSet) /\ Len(events) \in Nat /\ Len(events) > 0
      /\ Head(events) = events[1]
  BY DEF TypeOK
<1>2. Len(events) = 1 /\ Head(events).errors = Cardinality(E!Failed)
  <2>1. 1 \in 1 .. Len(events) /\ events[1].kind = "done"
    BY <1>1
  <2>2. 1 = Len(events) /\ done # E!NoDone /\ events[1].errors = done.errors
    BY <2>1 DEF DoneInv
  <2>3. done.errors = Cardinality(E!Failed)
    BY <2>2 DEF DoneInv
  <2> QED
    BY <1>1, <2>2, <2>3
<1>3. Positions(events, "file_error") = {}
  BY <1>1, <1>2 DEF Positions
<1>4. Cardinality(Positions(events, "file_error")) = 0
  BY <1>3, FS_EmptySet
<1>5. early \in Nat /\ shown.errors \in Nat
  BY DEF TypeOK, CliAssumption
<1>6. shown.errors = early + Cardinality(E!Failed)
  BY <1>4, <1>5, FailedFinite DEF CountInv
<1> QED
  BY <1>2, <1>5, <1>6, FailedFinite DEF CountDone

LEMMA CountRender ==
  TypeOK /\ DoneInv /\ CountInv /\ (Render \/ BreakStderr \/ UNCHANGED vars) => CountInv'
<1> SUFFICES ASSUME TypeOK, DoneInv, CountInv, Render \/ BreakStderr \/ UNCHANGED vars
             PROVE  CountInv'
  OBVIOUS
<1> USE DEF run
<1>1. CASE PrintHeader
  <2>1. CASE stderr = "open"
    BY <1>1, <2>1, CountFrame DEF PrintHeader, Printing, Completed, E!Failed
  <2>2. CASE stderr # "open"
    BY <1>1, <2>2 DEF PrintHeader, Printing, CountInv
  <2> QED
    BY <2>1, <2>2
<1>2. CASE Handle
  <2> DEFINE event == Head(events)
  <2>1. /\ render = "loop" /\ events # <<>> /\ UNCHANGED <<early, status>>
        /\ shown' = IF event.kind = "done" THEN CountDone(event) ELSE CountOne(event.kind)
        /\ render' = "panicked" \/ events' = Tail(events)
    BY <1>2 DEF Handle
  <2> SUFFICES ASSUME events' = Tail(events) PROVE CountInv'
    BY <2>1 DEF CountInv
  <2>2. Completed' = Completed /\ E!Failed' = E!Failed
    BY <2>1 DEF Completed, E!Failed
  <2>3. \A kind : Cardinality(Positions(events, kind))
          = Cardinality(Positions(events', kind)) + (IF event.kind = kind THEN 1 ELSE 0)
    BY <2>1, CountTail DEF TypeOK
  <2>4. events' \in Seq(EventSet)
    BY <2>1 DEF TypeOK
  <2>5. \A kind : Cardinality(Positions(events', kind)) \in Nat
    BY <2>4, PositionsFinite
  <2>6. shown.files \in Nat /\ shown.errors \in Nat /\ early \in Nat
    BY DEF TypeOK, CliAssumption
  <2>7. /\ shown'.files = shown.files + (IF event.kind = "file_completed" THEN 1 ELSE 0)
        /\ shown'.errors = shown.errors + (IF event.kind = "file_error" THEN 1 ELSE 0)
    <3>1. CASE event.kind = "done"
      BY <2>1, <2>6, <3>1, DoneAddsNothing
    <3>2. CASE event.kind # "done"
      BY <2>1, <3>2 DEF CountOne
    <3> QED
      BY <3>1, <3>2
  <2> HIDE DEF event
  <2>8. /\ shown.files + Cardinality(Positions(events, "file_completed"))
             = Cardinality(Completed)
        /\ shown.errors + Cardinality(Positions(events, "file_error"))
             = early + Cardinality(E!Failed)
    BY <2>1 DEF CountInv
  <2>9. shown'.files + Cardinality(Positions(events', "file_completed"))
          = Cardinality(Completed)
    <3>1. Cardinality(Positions(events, "file_completed"))
            = Cardinality(Positions(events', "file_completed"))
                + (IF event.kind = "file_completed" THEN 1 ELSE 0)
      BY <2>3
    <3>2. Cardinality(Positions(events', "file_completed")) \in Nat
      BY <2>5
    <3> QED
      BY ONLY <2>6, <2>7, <2>8, <3>1, <3>2
  <2>10. shown'.errors + Cardinality(Positions(events', "file_error"))
           = early + Cardinality(E!Failed)
    <3>1. Cardinality(Positions(events, "file_error"))
            = Cardinality(Positions(events', "file_error"))
                + (IF event.kind = "file_error" THEN 1 ELSE 0)
      BY <2>3
    <3>2. Cardinality(Positions(events', "file_error")) \in Nat
      BY <2>5
    <3> QED
      BY ONLY <2>6, <2>7, <2>8, <3>1, <3>2
  <2> QED
    BY <2>1, <2>2, <2>9, <2>10 DEF CountInv
<1>3. CASE Finish
  BY <1>3, CountFrame DEF Finish, Printing, Completed, E!Failed
<1>4. CASE BreakStderr
  BY <1>4, CountFrame DEF BreakStderr, renderer, Completed, E!Failed
<1>5. CASE UNCHANGED vars
  BY <1>5, CountFrame DEF vars, renderer, Completed, E!Failed
<1> QED
  BY <1>1, <1>2, <1>3, <1>4, <1>5 DEF Render

LEMMA SummaryStep ==
  TypeOK /\ RenderInv /\ SummaryInv /\ [Next]_vars => SummaryInv'
<1> SUFFICES ASSUME TypeOK, RenderInv, SummaryInv, [Next]_vars PROVE SummaryInv'
  OBVIOUS
<1> USE DEF SummaryInv, RenderInv, renderer
<1>1. CASE Main
  BY <1>1 DEF Main, LoadConfig, ApplyOverrides, Validate, AwaitEngine, AwaitRender
<1>2. CASE Engine
  BY <1>2 DEF Engine, Plan, EarlyError, AbortRun, StartPool, Take, Settle, WorkerPanics,
              Announce, ReturnRun
<1>3. CASE Render
  BY <1>3 DEF Render, PrintHeader, Handle, Finish
<1>4. CASE Cancel \/ BreakStderr \/ UNCHANGED vars
  BY <1>4 DEF Cancel, BreakStderr, vars
<1> QED
  BY <1>1, <1>2, <1>3, <1>4 DEF Next, Finished
-----------------------------------------------------------------------------
(* The theorems                                                            *)

LEMMA InvInit == Init => TypeOK /\ IInv
<1>1. Init => SummaryInv
  BY DEF Init, SummaryInv
<1> QED
  BY <1>1, TypeInit, PhaseInit, PoolInit, LossInit, AccountInit, RenderInit, ExitInit,
     DoneInit, CountInit DEF IInv

LEMMA InvStep == TypeOK /\ IInv /\ [Next]_vars => TypeOK' /\ IInv'
<1> SUFFICES ASSUME TypeOK, IInv, [Next]_vars PROVE TypeOK' /\ IInv'
  OBVIOUS
<1> USE DEF IInv
<1>1. CASE Main
  BY <1>1, TypeMain, PhaseMain, PoolMain, LossMain, AccountOther, RenderMain, ExitMain,
     DoneOther, CountMain, SummaryStep
<1>2. CASE Engine \/ Cancel
  <2>1. TypeOK'
    BY <1>2, TypeEngine
  <2> QED
    BY <1>2, <2>1, PhaseEngine, PoolEngine, LossEngine, AccountEngine, RenderEngine,
       ExitEngine, DoneEngine, CountEngine, SummaryStep
<1>3. CASE Render \/ BreakStderr \/ UNCHANGED vars
  BY <1>3, TypeRender, PhaseRender, PoolRender, LossRender, AccountOther, RenderRender,
     ExitRender, DoneOther, CountRender, SummaryStep
<1> QED
  BY <1>1, <1>2, <1>3 DEF Next, Finished

\* The variables keep their types; in particular the exit code is one of those
\* that main.rs documents, or that of a panic.
THEOREM TypeCorrect == Spec => []TypeOK
<1> QED
  BY InvInit, InvStep, PTL DEF Spec

\* The parts of the inductive invariant hold in every reachable state.
THEOREM InvariantHolds == Spec => []IInv
<1> QED
  BY InvInit, InvStep, PTL DEF Spec

\* headless::run ends as its run ended only after the renderer has received
\* everything and has printed the summary.
THEOREM NothingUnseenHolds == Spec => []NothingUnseen
<1>1. TypeOK /\ IInv => NothingUnseen
  BY DEF TypeOK, IInv, ExitInv, RenderInv, NothingUnseen
<1> QED
  BY <1>1, TypeCorrect, InvariantHolds, PTL

\* What the renderer's last line says is what happened to the files, whatever
\* order the workers' events arrive in and whether Done repeats the errors.
THEOREM SummaryIsTrueHolds == Spec => []SummaryIsTrue
<1>1. TypeOK /\ IInv => SummaryIsTrue
  <2> SUFFICES ASSUME TypeOK, IInv, summary # NoSummary
               PROVE  /\ summary.files = Cardinality(Completed)
                      /\ summary.errors = early + Cardinality(E!Failed)
    BY DEF SummaryIsTrue
  <2>1. render = "over" /\ events = <<>> /\ summary = shown
    BY DEF IInv, RenderInv, SummaryInv
  <2>2. shown.files \in Nat /\ shown.errors \in Nat
    BY DEF TypeOK
  <2> QED
    BY <2>1, <2>2, CountEmpty DEF IInv, CountInv
<1> QED
  BY <1>1, TypeCorrect, InvariantHolds, PTL

\* The exit code tells what became of the run, also when workers or the
\* renderer panicked.
THEOREM ExitCodeIsRightHolds == Spec => []ExitCodeIsRight
<1>1. TypeOK /\ IInv => ExitCodeIsRight
  <2> SUFFICES ASSUME TypeOK, IInv PROVE ExitCodeIsRight
    OBVIOUS
  <2> USE DEF IInv
  <2>1. exit = 0 => \A f \in File : status[f] \in E!Settled
    BY DEF ExitInv, LossInv, PoolInv, AccountInv
  <2>2. exit = 130 => cancelled
    BY DEF ExitInv, PoolInv
  <2>3. exit = 1 => result = "error" \/ stderr = "broken"
    BY DEF ExitInv
  <2>4. exit = 2 <=> exit \notin {NoExit, Panicked} /\ engine = "unborn"
    BY DEF ExitInv, PhaseInv, Starting, NoExit, Panicked
  <2> QED
    BY <2>1, <2>2, <2>3, <2>4 DEF ExitCodeIsRight
<1> QED
  BY <1>1, TypeCorrect, InvariantHolds, PTL
=============================================================================
