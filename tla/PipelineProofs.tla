--------------------------- MODULE PipelineProofs ---------------------------
(***************************************************************************)
(* Proofs about Pipeline for every number of workers, files and early      *)
(* entries, every capacity and every size of the thread pool.              *)
(***************************************************************************)
EXTENDS Pipeline, FiniteSetTheorems, SequenceTheorems, TLAPS

USE ConstantsAssumption

\* The variables keep their types: in particular the channel never holds more
\* than its capacity and the producer never runs past the plan, the bound that
\* send() and the loop over the files are trusted with.
SendInv == prod = "send" => next <= NumFiles
CurInv == \A w \in Worker : cur[w] # NoFile <=> wpc[w] \in OnFile
SpawnInv ==
  main \in {"early", "spawn", "pool"} => wpc = [w \in Worker |-> "unspawned"]
TypeInv == TypeOK /\ SendInv /\ CurInv /\ SpawnInv

LEMMA TypeInit == Init => TypeInv
<1> SUFFICES ASSUME Init PROVE TypeInv
  OBVIOUS
<1> USE DEF Init
<1>1. chan \in Seq(File) /\ Len(chan) <= ChanCap
  BY DEF File
<1>2. cur \in [Worker -> File \cup {NoFile}] /\ wpc \in [Worker -> WorkerPC]
  BY DEF WorkerPC
<1>3. stat \in [File -> {"todo", "busy"} \cup SettledStat]
  OBVIOUS
<1>4. next \in 1 .. (NumFiles + 1) /\ early \in 0 .. NumEarly
  OBVIOUS
<1>5. done \in {NoDone} \cup [success : BOOLEAN, errors : Nat]
  OBVIOUS
<1>6. lateFiles \in SUBSET File /\ lateAsks \in SUBSET File
  OBVIOUS
<1>7. TypeOK
  BY <1>1, <1>2, <1>3, <1>4, <1>5, <1>6 DEF TypeOK, MainPC
<1>8. SendInv /\ CurInv /\ SpawnInv
  BY DEF SendInv, CurInv, SpawnInv, NoFile, OnFile
<1> QED
  BY <1>7, <1>8 DEF TypeInv

LEMMA TypeMain == TypeInv /\ Main => TypeInv'
<1> SUFFICES ASSUME TypeInv, Main PROVE TypeInv'
  OBVIOUS
<1> USE DEF TypeInv, TypeOK, SendInv, CurInv, SpawnInv, mainVars, prodVars, workVars,
            MainPC, WorkerPC, File, NoFile, OnFile, NoDone, NoResult
<1>1. CASE PrepareEntry   BY <1>1 DEF PrepareEntry
<1>2. CASE OpenChannel    BY <1>2 DEF OpenChannel
<1>3. CASE SpawnProducer  BY <1>3 DEF SpawnProducer
<1>4. CASE SpawnWorkers
  <2>1. TypeOK'
    <3>1. wpc' \in [Worker -> WorkerPC]
      BY <1>4 DEF SpawnWorkers
    <3>2. mainRx' \in BOOLEAN /\ main' = "awaitProd"
      BY <1>4 DEF SpawnWorkers
    <3> QED
      BY <1>4, <3>1, <3>2 DEF SpawnWorkers
  <2>2. CurInv'
    BY <1>4 DEF SpawnWorkers
  <2>3. SendInv' /\ SpawnInv'
    BY <1>4 DEF SpawnWorkers
  <2> QED
    BY <2>1, <2>2, <2>3
<1>5. CASE AwaitProducer  BY <1>5 DEF AwaitProducer
<1>6. CASE AwaitWorkers   BY <1>6 DEF AwaitWorkers
<1>7. CASE Report         BY <1>7 DEF Report
<1>8. CASE Return         BY <1>8 DEF Return
<1> QED
  BY <1>1, <1>2, <1>3, <1>4, <1>5, <1>6, <1>7, <1>8 DEF Main

LEMMA TypeProducer == TypeInv /\ Producer => TypeInv'
<1> SUFFICES ASSUME TypeInv, Producer PROVE TypeInv'
  OBVIOUS
<1> USE DEF TypeInv, TypeOK, SendInv, CurInv, SpawnInv, mainVars, prodVars, workVars,
            File, NoFile, OnFile
<1>1. CASE StartProducer         BY <1>1 DEF StartProducer
<1>2. CASE ProducerCheck         BY <1>2 DEF ProducerCheck
<1>3. CASE ProducerSend          BY <1>3 DEF ProducerSend
<1>4. CASE ProducerDisconnected  BY <1>4 DEF ProducerDisconnected
<1> QED
  BY <1>1, <1>2, <1>3, <1>4 DEF Producer

LEMMA TypeWorker ==
  ASSUME TypeInv, NEW w \in Worker, WorkerStep(w) \/ Decide(w) \/ AnswerUnknown(w)
  PROVE  TypeInv'
<1> USE DEF TypeInv, TypeOK, SendInv, CurInv, SpawnInv, mainVars, prodVars, workVars,
            WorkerPC, File, NoFile, OnFile, SettledStat, FailedStat, Goto, Settle, CountError
<1>1. CASE StartWorker(w)    BY <1>1 DEF StartWorker
<1>2. CASE WorkerCheck(w)    BY <1>2 DEF WorkerCheck
<1>3. CASE Recv(w)
  <2>1. chan \in Seq(File) /\ chan # <<>>
    BY <1>3 DEF Recv
  <2>2. /\ Head(chan) \in File
        /\ Tail(chan) \in Seq(File)
        /\ Len(Tail(chan)) = Len(chan) - 1
    BY <2>1
  <2>3. chan' \in Seq(File) /\ Len(chan') <= ChanCap
    BY <1>3, <2>2 DEF Recv
  <2>4. stat' \in [File -> {"todo", "busy"} \cup SettledStat]
    BY <1>3 DEF Recv
  <2>5. lateFiles' \in SUBSET File
    BY <1>3, <2>2 DEF Recv
  <2>6. cur' = [cur EXCEPT ![w] = Head(chan)] /\ cur' \in [Worker -> File \cup {NoFile}]
    BY <1>3, <2>2 DEF Recv
  <2>7. wpc' = [wpc EXCEPT ![w] = "resolve"] /\ wpc' \in [Worker -> WorkerPC]
    BY <1>3 DEF Recv
  <2> QED
    BY <1>3, <2>2, <2>3, <2>4, <2>5, <2>6, <2>7 DEF Recv
<1>4. CASE RecvClosed(w)     BY <1>4 DEF RecvClosed
<1>5. CASE Resolve(w)
  <2>1. CASE policy = "skip"
    <3>1. /\ cur' = [cur EXCEPT ![w] = NoFile]
          /\ stat' = [stat EXCEPT ![cur[w]] = "skipped"]
          /\ wpc' = [wpc EXCEPT ![w] = "check"]
      BY <1>5, <2>1 DEF Resolve
    <3> QED
      BY <1>5, <3>1, SMTT(60) DEF Resolve
  <2>2. CASE policy # "skip"
    <3>1. \E where \in {"gate", "xfer"} : wpc' = [wpc EXCEPT ![w] = where]
      BY <1>5, <2>2 DEF Resolve
    <3> QED
      BY <1>5, <2>2, <3>1, SMTT(60) DEF Resolve
  <2> QED
    BY <2>1, <2>2
<1>6. CASE TakeGate(w)
  <2>1. cur[w] \in File
    BY <1>6 DEF TakeGate
  <2>2. lateAsks' \in SUBSET File
    BY <1>6, <2>1 DEF TakeGate
  <2>3. wpc' = [wpc EXCEPT ![w] = "asking"]
    BY <1>6 DEF TakeGate
  <2> QED
    BY <1>6, <2>2, <2>3, SMTT(60) DEF TakeGate
<1>7. CASE StoreAll(w)       BY <1>7, SMTT(60) DEF StoreAll
<1>8. CASE TransferOk(w)     BY <1>8, SMTT(60) DEF TransferOk
<1>9. CASE TransferFail(w)   BY <1>9, SMTT(60) DEF TransferFail
<1>10. CASE SetCancel(w)
  <2>1. wpc' = [wpc EXCEPT ![w] = "check"] /\ cancel' = TRUE
    BY <1>10 DEF SetCancel
  <2>2. UNCHANGED <<mainVars, prodVars, cur, stat, errors, lateFiles, lateAsks, chan,
                    policy, promptAll, fileErrors>>
    BY <1>10 DEF SetCancel
  <2> QED
    BY <1>10, <2>1, <2>2, SMTT(60) DEF SetCancel
<1>11. CASE AnswerProceed(w) BY <1>11, SMTT(60) DEF AnswerProceed
<1>12. CASE AnswerNo(w)      BY <1>12, SMTT(60) DEF AnswerNo
<1>13. CASE AnswerQuit(w)    BY <1>13, SMTT(60) DEF AnswerQuit
<1>14. CASE AnswerUnknown(w) BY <1>14, SMTT(60) DEF AnswerUnknown
<1> QED
  BY <1>1, <1>2, <1>3, <1>4, <1>5, <1>6, <1>7, <1>8, <1>9, <1>10, <1>11, <1>12,
     <1>13, <1>14 DEF WorkerStep, Decide

LEMMA TypeOther == TypeInv /\ (CtrlC \/ Finished \/ UNCHANGED vars) => TypeInv'
<1> SUFFICES ASSUME TypeInv, CtrlC \/ Finished \/ UNCHANGED vars PROVE TypeInv'
  OBVIOUS
<1>1. /\ UNCHANGED <<mainVars, prodVars, workVars, chan, policy, promptAll, fileErrors>>
  BY DEF CtrlC, Finished, vars
<1>2. cancel' \in BOOLEAN
  BY DEF CtrlC, Finished, vars, TypeInv, TypeOK
<1>3. TypeOK'
  BY <1>1, <1>2 DEF TypeInv, TypeOK, mainVars, prodVars, workVars
<1>4. SendInv' /\ CurInv' /\ SpawnInv'
  BY <1>1 DEF TypeInv, SendInv, CurInv, SpawnInv, mainVars, prodVars, workVars
<1> QED
  BY <1>3, <1>4 DEF TypeInv

LEMMA TypeStep == TypeInv /\ [Next]_vars => TypeInv'
  BY TypeMain, TypeProducer, TypeWorker, TypeOther DEF Next

\* Type correctness of the pipeline, for every value of the constants: the
\* channel stays within its capacity and the producer within the plan.
THEOREM TypeCorrect == Spec => []TypeOK
<1>1. TypeInv => TypeOK
  BY DEF TypeInv
<1> QED
  BY <1>1, TypeInit, TypeStep, PTL DEF Spec
-----------------------------------------------------------------------------
(* What any step of a worker does to the state it shares with run(), the   *)
(* producer and the other workers.                                         *)

WorkerAny(w) == WorkerStep(w) \/ Decide(w) \/ AnswerUnknown(w)

LEMMA WorkerFrame ==
  ASSUME TypeInv, NEW w \in Worker, WorkerAny(w)
  PROVE  /\ wpc[w] \notin {"unspawned", "exited"}
         /\ Goto(w, wpc'[w])
         /\ wpc'[w] \in WorkerPC \ {"unspawned"}
         /\ wpc'[w] = "exited" => cancel \/ (chan = <<>> /\ ~SenderAlive)
         /\ UNCHANGED <<main, mainTx, mainRx, prod, next, done, result>>
         /\ cancel => cancel'
         /\ chan' = chan \/ (chan # <<>> /\ chan' = Tail(chan))
<1> USE DEF mainVars, prodVars, WorkerPC, TypeInv, TypeOK
<1>1. CASE StartWorker(w)    BY <1>1 DEF StartWorker, Goto
<1>2. CASE WorkerCheck(w)    BY <1>2 DEF WorkerCheck, Goto
<1>3. CASE Recv(w)           BY <1>3 DEF Recv, Goto
<1>4. CASE RecvClosed(w)     BY <1>4 DEF RecvClosed, Goto
<1>5. CASE Resolve(w)        BY <1>5 DEF Resolve, Goto
<1>6. CASE TakeGate(w)       BY <1>6 DEF TakeGate, Goto
<1>7. CASE StoreAll(w)       BY <1>7 DEF StoreAll, Goto
<1>8. CASE TransferOk(w)     BY <1>8 DEF TransferOk, Goto
<1>9. CASE TransferFail(w)   BY <1>9 DEF TransferFail, Goto
<1>10. CASE SetCancel(w)     BY <1>10 DEF SetCancel, Goto
<1>11. CASE AnswerProceed(w) BY <1>11 DEF AnswerProceed, Goto
<1>12. CASE AnswerNo(w)      BY <1>12 DEF AnswerNo, Goto
<1>13. CASE AnswerQuit(w)    BY <1>13 DEF AnswerQuit, Goto
<1>14. CASE AnswerUnknown(w) BY <1>14 DEF AnswerUnknown, Goto
<1> QED
  BY <1>1, <1>2, <1>3, <1>4, <1>5, <1>6, <1>7, <1>8, <1>9, <1>10, <1>11, <1>12,
     <1>13, <1>14 DEF WorkerAny, WorkerStep, Decide

\* A worker takes the next file, keeps its file, or settles it and counts it
\* if it failed.
Keeps(w) == UNCHANGED <<stat, cur, chan, errors>>
Settles(w) ==
  /\ wpc[w] \in OnFile
  /\ UNCHANGED <<chan, cancel>>
  /\ \E s \in SettledStat :
       /\ Settle(w, s)
       /\ errors' = IF s \in FailedStat THEN errors + 1 ELSE errors
       /\ s = "quit" => Goto(w, "setcancel")

LEMMA WorkerEffect ==
  ASSUME TypeInv, NEW w \in Worker, WorkerAny(w)
  PROVE  Recv(w) \/ Keeps(w) \/ Settles(w)
<1> USE DEF OnFile, SettledStat, FailedStat
<1>1. CASE StartWorker(w)    BY <1>1 DEF StartWorker, Keeps
<1>2. CASE WorkerCheck(w)    BY <1>2 DEF WorkerCheck, Keeps
<1>3. CASE Recv(w)           BY <1>3
<1>4. CASE RecvClosed(w)     BY <1>4 DEF RecvClosed, Keeps
<1>5. CASE Resolve(w)        BY <1>5 DEF Resolve, Keeps, Settles
<1>6. CASE TakeGate(w)       BY <1>6 DEF TakeGate, Keeps
<1>7. CASE StoreAll(w)       BY <1>7 DEF StoreAll, Keeps
<1>8. CASE TransferOk(w)     BY <1>8 DEF TransferOk, Settles
<1>9. CASE TransferFail(w)   BY <1>9 DEF TransferFail, Settles, CountError
<1>10. CASE SetCancel(w)     BY <1>10 DEF SetCancel, Keeps
<1>11. CASE AnswerProceed(w) BY <1>11 DEF AnswerProceed, Keeps
<1>12. CASE AnswerNo(w)      BY <1>12 DEF AnswerNo, Settles
<1>13. CASE AnswerQuit(w)    BY <1>13 DEF AnswerQuit, Settles, CountError
<1>14. CASE AnswerUnknown(w) BY <1>14 DEF AnswerUnknown, Keeps
<1> QED
  BY <1>1, <1>2, <1>3, <1>4, <1>5, <1>6, <1>7, <1>8, <1>9, <1>10, <1>11, <1>12,
     <1>13, <1>14 DEF WorkerAny, WorkerStep, Decide
-----------------------------------------------------------------------------
(* The phases of run() and the lives of the tasks                          *)

LEMMA PhaseInit == Init => PhaseInv
  BY DEF Init, PhaseInv, Unspawned, Aborted, NoDone, NoResult

LEMMA PhaseStep == TypeInv /\ PhaseInv /\ [Next]_vars => PhaseInv'
<1> SUFFICES ASSUME TypeInv, PhaseInv, [Next]_vars PROVE PhaseInv'
  OBVIOUS
<1> USE DEF PhaseInv, Unspawned, Aborted, NoResult, TypeInv, TypeOK, MainPC, mainVars,
            prodVars, workVars
<1>1. ASSUME Main PROVE PhaseInv'
  <2>1. CASE PrepareEntry   BY <2>1 DEF PrepareEntry
  <2>2. CASE OpenChannel    BY <2>2 DEF OpenChannel
  <2>3. CASE SpawnProducer  BY <2>3 DEF SpawnProducer
  <2>4. CASE SpawnWorkers   BY <2>4 DEF SpawnWorkers
  <2>5. CASE AwaitProducer  BY <2>5 DEF AwaitProducer
  <2>6. CASE AwaitWorkers   BY <2>6 DEF AwaitWorkers
  <2>7. CASE Report
    <3>1. done' # NoDone
      <4>1. done'.errors = errors
        BY <2>7 DEF Report
      <4> QED
        BY <4>1 DEF NoDone
    <3> QED
      BY <2>7, <3>1 DEF Report
  <2>8. CASE Return         BY <2>8 DEF Return
  <2> QED
    BY <1>1, <2>1, <2>2, <2>3, <2>4, <2>5, <2>6, <2>7, <2>8 DEF Main
<1>2. ASSUME Producer PROVE PhaseInv'
  <2>1. /\ prod \in {"queued", "check", "send"} /\ prod' # "unspawned"
        /\ UNCHANGED <<mainVars, wpc, cancel>>
    BY <1>2 DEF Producer, StartProducer, ProducerCheck, ProducerSend,
                ProducerDisconnected
  <2> QED
    BY <2>1
<1>3. ASSUME NEW w \in Worker, WorkerAny(w) PROVE PhaseInv'
  <2>1. /\ wpc[w] \notin {"unspawned", "exited"}
        /\ wpc' = [wpc EXCEPT ![w] = wpc'[w]]
        /\ wpc'[w] # "unspawned"
        /\ UNCHANGED <<main, mainTx, mainRx, prod, next, done, result>>
        /\ cancel => cancel'
        /\ chan' = chan \/ chan # <<>>
    BY <1>3, WorkerFrame DEF Goto
  <2> QED
    BY <2>1
<1>4. CASE CtrlC
  BY <1>4 DEF CtrlC
<1>5. CASE Finished \/ UNCHANGED vars
  BY <1>5 DEF Finished, vars
<1> QED
  BY <1>1, <1>2, <1>3, <1>4, <1>5 DEF Next, WorkerAny

LEMMA ExitStep == TypeInv /\ PhaseInv /\ ExitInv /\ [Next]_vars => ExitInv'
<1> SUFFICES ASSUME TypeInv, PhaseInv, ExitInv, [Next]_vars PROVE ExitInv'
  OBVIOUS
<1> USE DEF ExitInv, TypeInv, TypeOK, mainVars, prodVars, workVars
<1>1. ASSUME Main PROVE ExitInv'
  <2>1. CASE SpawnProducer
    BY <2>1 DEF SpawnProducer, PhaseInv, Unspawned
  <2>2. CASE SpawnWorkers
    BY <2>2 DEF SpawnWorkers
  <2>3. CASE PrepareEntry \/ OpenChannel \/ AwaitProducer \/ AwaitWorkers \/ Report
             \/ Return
    BY <2>3 DEF PrepareEntry, OpenChannel, AwaitProducer, AwaitWorkers, Report, Return
  <2> QED
    BY <1>1, <2>1, <2>2, <2>3 DEF Main
<1>2. ASSUME Producer PROVE ExitInv'
  <2>1. CASE StartProducer  BY <2>1 DEF StartProducer
  <2>2. CASE ProducerCheck  BY <2>2 DEF ProducerCheck
  <2>3. CASE ProducerSend   BY <2>3 DEF ProducerSend
  <2>4. CASE ProducerDisconnected
    <3>1. ~mainRx /\ \A w \in Worker : wpc[w] \in {"unspawned", "exited"}
      BY <2>4 DEF ProducerDisconnected, ReceiverAlive
    <3>2. PICK w \in Worker : wpc[w] = "exited"
      BY <3>1 DEF PhaseInv
    <3>3. cancel
      BY <2>4, <3>2 DEF ProducerDisconnected
    <3> QED
      BY <2>4, <3>3 DEF ProducerDisconnected
  <2> QED
    BY <1>2, <2>1, <2>2, <2>3, <2>4 DEF Producer
<1>3. ASSUME NEW w \in Worker, WorkerAny(w) PROVE ExitInv'
  <2>1. /\ wpc' = [wpc EXCEPT ![w] = wpc'[w]]
        /\ wpc'[w] = "exited" => cancel \/ (chan = <<>> /\ ~SenderAlive)
    BY <1>3, WorkerFrame DEF Goto
  <2>2. /\ UNCHANGED <<prod, next>> /\ (cancel => cancel')
        /\ chan' = chan \/ (chan # <<>> /\ chan' = Tail(chan))
    BY <1>3, WorkerFrame
  <2>3. ~SenderAlive => prod = "exited"
    BY DEF SenderAlive, PhaseInv
  <2> QED
    BY <2>1, <2>2, <2>3
<1>4. CASE CtrlC
  BY <1>4 DEF CtrlC
<1>5. CASE Finished \/ UNCHANGED vars
  BY <1>5 DEF Finished, vars
<1> QED
  BY <1>1, <1>2, <1>3, <1>4, <1>5 DEF Next, WorkerAny
-----------------------------------------------------------------------------
(* The files on their way from the plan to a worker                        *)

LEMMA ConveyedInit == Init => Conveyed
<1> SUFFICES ASSUME Init PROVE Conveyed
  OBVIOUS
<1>1. next = 1 /\ chan = <<>> /\ Len(chan) = 0
  BY DEF Init
<1> QED
  BY <1>1 DEF Init, Conveyed, File

\* The producer appends exactly the next file of the plan.
LEMMA ConveyedSend ==
  ASSUME TypeInv, Conveyed, ProducerSend
  PROVE  Conveyed'
<1> USE DEF TypeInv, TypeOK, File
<1>1. /\ chan' = Append(chan, next) /\ next' = next + 1
      /\ stat' = stat /\ next \in File
  BY DEF ProducerSend, workVars, SendInv
<1>2. /\ Len(chan') = Len(chan) + 1
      /\ chan'[Len(chan) + 1] = next
      /\ \A i \in 1 .. Len(chan) : chan'[i] = chan[i]
      /\ Len(chan) \in Nat
  BY <1>1
<1>3. \A f \in File : stat'[f] = "todo" <=> f >= next' - Len(chan')
  BY <1>1, <1>2 DEF Conveyed
<1>4. ASSUME NEW i \in 1 .. Len(chan') PROVE chan'[i] = next' - 1 - Len(chan') + i
  <2>1. CASE i = Len(chan) + 1
    BY <1>1, <1>2, <2>1
  <2>2. CASE i \in 1 .. Len(chan)
    BY <1>1, <1>2, <2>2 DEF Conveyed
  <2> QED
    BY <1>2, <2>1, <2>2
<1> QED
  BY <1>3, <1>4 DEF Conveyed

\* The file at the head is the oldest one not taken yet, and is to do.
LEMMA HeadIsNext ==
  ASSUME TypeInv, Conveyed, NEW w \in Worker, Recv(w)
  PROVE  /\ Head(chan) = next - Len(chan) /\ Head(chan) \in File
         /\ stat[Head(chan)] = "todo"
<1>1. chan \in Seq(File) /\ chan # <<>> /\ Len(chan) \in Nat /\ next \in Nat
  BY DEF Recv, TypeInv, TypeOK, File
<1>2. Head(chan) = chan[1] /\ Len(chan) >= 1 /\ Head(chan) \in File
  BY <1>1
<1>3. Head(chan) = next - Len(chan)
  BY <1>1, <1>2 DEF Conveyed
<1> QED
  BY <1>1, <1>2, <1>3 DEF Conveyed, File

LEMMA ConveyedRecv ==
  ASSUME TypeInv, Conveyed, NEW w \in Worker, Recv(w)
  PROVE  Conveyed'
<1> USE DEF TypeInv, TypeOK, File
<1>1. /\ chan \in Seq(File) /\ chan # <<>> /\ Len(chan) \in Nat
      /\ chan' = Tail(chan) /\ next' = next
      /\ stat' = [stat EXCEPT ![Head(chan)] = "busy"]
  BY DEF Recv, prodVars
<1>2. /\ Len(chan') = Len(chan) - 1 /\ Len(chan) >= 1
      /\ \A i \in 1 .. Len(chan') : chan'[i] = chan[i + 1]
  BY <1>1
<1>3. Head(chan) = next - Len(chan) /\ Head(chan) \in File
  BY HeadIsNext
<1>4. \A i \in 1 .. Len(chan') : chan'[i] = next' - 1 - Len(chan') + i
  BY <1>1, <1>2 DEF Conveyed
<1>5. \A f \in File : stat'[f] = "todo" <=> f >= next' - Len(chan')
  <2>1. \A f \in File : stat'[f] = "todo" <=> stat[f] = "todo" /\ f # Head(chan)
    BY <1>1, <1>3
  <2>2. \A f \in File : stat[f] = "todo" <=> f >= next - Len(chan)
    BY DEF Conveyed
  <2>3. next \in Nat /\ Len(chan) \in Nat /\ next' - Len(chan') = next - Len(chan) + 1
    BY <1>1, <1>2
  <2>4. Head(chan) \in Int /\ \A f \in File : f \in Int
    BY <1>3
  <2> HIDE DEF File, TypeInv, TypeOK
  <2> QED
    BY ONLY <1>3, <2>1, <2>2, <2>3, <2>4
<1> QED
  BY ONLY <1>4, <1>5 DEF Conveyed

\* A worker that settles its file was on it, so it was not to do.
LEMMA ConveyedSettle ==
  ASSUME TypeInv, Conveyed, OneWorkerPerFile, NEW w \in Worker, Settles(w), next' = next
  PROVE  Conveyed' /\ OneWorkerPerFile'
<1> USE DEF TypeInv, TypeOK
<1>1. PICK s \in SettledStat : Settle(w, s)
  BY DEF Settles
<1>2. /\ stat' = [stat EXCEPT ![cur[w]] = s]
      /\ cur' = [cur EXCEPT ![w] = NoFile]
      /\ chan' = chan
  BY <1>1 DEF Settle, Settles
<1>3. cur[w] # NoFile /\ cur[w] \in File /\ stat[cur[w]] = "busy"
  BY DEF Settles, CurInv, OneWorkerPerFile
<1>4. s \notin {"todo", "busy"}
  BY DEF SettledStat, FailedStat
<1>5. Conveyed'
  BY <1>2, <1>3, <1>4 DEF Conveyed
<1>6. \A u, v \in Worker : cur'[u] = cur'[v] /\ cur'[u] # NoFile => u = v
  BY <1>2 DEF OneWorkerPerFile
<1>7. \A f \in File : stat'[f] = "busy" <=> \E v \in Worker : cur'[v] = f
  <2> SUFFICES ASSUME NEW f \in File
               PROVE  stat'[f] = "busy" <=> \E v \in Worker : cur'[v] = f
    OBVIOUS
  <2>1. CASE f = cur[w]
    <3>1. stat'[f] # "busy"
      BY <1>2, <1>3, <1>4, <2>1
    <3>2. \A v \in Worker : cur'[v] # f
      BY <1>2, <1>3, <2>1 DEF OneWorkerPerFile, NoFile, File
    <3> QED
      BY <3>1, <3>2
  <2>2. CASE f # cur[w]
    <3>1. stat'[f] = stat[f]
      BY <1>2, <2>2
    <3>2. \A v \in Worker : cur'[v] = f <=> cur[v] = f
      BY <1>2, <2>2 DEF NoFile, File
    <3> QED
      BY <3>1, <3>2 DEF OneWorkerPerFile
  <2> QED
    BY <2>1, <2>2
<1> QED
  BY <1>5, <1>6, <1>7 DEF OneWorkerPerFile

LEMMA OneWorkerRecv ==
  ASSUME TypeInv, Conveyed, OneWorkerPerFile, NEW w \in Worker, Recv(w)
  PROVE  OneWorkerPerFile'
<1> DEFINE h == Head(chan)
<1>1. /\ h \in File /\ stat[h] = "todo"
      /\ cur' = [cur EXCEPT ![w] = h]
      /\ stat' = [stat EXCEPT ![h] = "busy"]
      /\ cur[w] = NoFile
  BY HeadIsNext DEF Recv, TypeInv, CurInv, OnFile
<1>2. \A v \in Worker : cur[v] # h
  BY <1>1 DEF OneWorkerPerFile
<1> HIDE DEF h
<1> QED
  BY <1>1, <1>2 DEF OneWorkerPerFile, TypeInv, TypeOK, NoFile, File

LEMMA FilesStep ==
  TypeInv /\ Conveyed /\ OneWorkerPerFile /\ [Next]_vars => Conveyed' /\ OneWorkerPerFile'
<1> SUFFICES ASSUME TypeInv, Conveyed, OneWorkerPerFile, [Next]_vars
             PROVE  Conveyed' /\ OneWorkerPerFile'
  OBVIOUS
<1>1. CASE Main \/ StartProducer \/ ProducerCheck \/ ProducerDisconnected \/ CtrlC
           \/ Finished \/ UNCHANGED vars
  <2>1. UNCHANGED <<chan, next, stat, cur>>
    BY <1>1 DEF Main, PrepareEntry, OpenChannel, SpawnProducer, SpawnWorkers,
                AwaitProducer, AwaitWorkers, Report, Return, StartProducer,
                ProducerCheck, ProducerDisconnected, CtrlC, Finished, vars, mainVars,
                prodVars, workVars
  <2> QED
    BY <2>1 DEF Conveyed, OneWorkerPerFile
<1>2. CASE ProducerSend
  BY <1>2, ConveyedSend DEF ProducerSend, workVars, OneWorkerPerFile
<1>3. ASSUME NEW w \in Worker, WorkerAny(w)
      PROVE  Conveyed' /\ OneWorkerPerFile'
  <2>1. next' = next
    BY <1>3, WorkerFrame
  <2>2. CASE Recv(w)
    BY <2>2, ConveyedRecv, OneWorkerRecv
  <2>3. CASE Keeps(w)
    BY <2>1, <2>3 DEF Keeps, Conveyed, OneWorkerPerFile
  <2>4. CASE Settles(w)
    BY <2>1, <2>4, ConveyedSettle
  <2> QED
    BY <1>3, <2>2, <2>3, <2>4, WorkerEffect
<1> QED
  BY <1>1, <1>2, <1>3 DEF Next, Producer, WorkerAny
-----------------------------------------------------------------------------
(* The error counter, the announcement and the result                      *)

FilesInv == Conveyed /\ OneWorkerPerFile
DoneInv ==
  /\ done # NoDone => done.errors = errors /\ (done.success => errors = 0)
  /\ done.success => \A f \in File : stat[f] \in SettledStat
ResultInv == result # NoResult =>
  result = IF ~done.success /\ cancel THEN "cancelled" ELSE "ok"

LEMMA FailedFinite == IsFiniteSet(Failed) /\ Cardinality(Failed) \in Nat
<1>1. IsFiniteSet(File)
  BY FS_Interval DEF File
<1>2. Failed \in SUBSET File
  BY DEF Failed
<1>3. IsFiniteSet(Failed)
  BY <1>1, <1>2, FS_Subset
<1> QED
  BY <1>3, FS_CardinalityType

\* A worker counts an error for a file that fails and for no other.
LEMMA CountStep ==
  ASSUME TypeInv, FilesInv, errors = Cardinality(Failed), NEW w \in Worker, WorkerAny(w)
  PROVE  errors' = Cardinality(Failed')
<1> USE DEF TypeInv, TypeOK, FilesInv
<1>1. CASE Recv(w)
  <2>1. /\ Head(chan) \in File /\ stat[Head(chan)] = "todo"
        /\ stat' = [stat EXCEPT ![Head(chan)] = "busy"]
        /\ errors' = errors
    BY <1>1, HeadIsNext DEF Recv
  <2>2. Failed' = Failed
    BY <2>1 DEF Failed, FailedStat
  <2> QED
    BY <2>1, <2>2
<1>2. CASE Keeps(w)
  BY <1>2 DEF Keeps, Failed
<1>3. CASE Settles(w)
  <2>1. PICK s \in SettledStat :
          /\ stat' = [stat EXCEPT ![cur[w]] = s]
          /\ errors' = IF s \in FailedStat THEN errors + 1 ELSE errors
    BY <1>3 DEF Settles, Settle
  <2>2. cur[w] \in File /\ stat[cur[w]] = "busy"
    BY <1>3 DEF Settles, CurInv, OneWorkerPerFile
  <2>3. cur[w] \notin Failed
    BY <2>2 DEF Failed, FailedStat
  <2>4. Failed' = IF s \in FailedStat THEN Failed \cup {cur[w]} ELSE Failed
    BY <2>1, <2>2 DEF Failed, FailedStat
  <2>5. Cardinality(Failed \cup {cur[w]}) = Cardinality(Failed) + 1
    BY <2>3, FailedFinite, FS_AddElement
  <2> QED
    BY <2>1, <2>4, <2>5
<1> QED
  BY <1>1, <1>2, <1>3, WorkerEffect

\* Everything is settled when run() gets to announce a run nobody cancelled.
LEMMA ReportSettled ==
  ASSUME TypeInv, PhaseInv, ExitInv, FilesInv, ~cancel,
         \A w \in Worker : wpc[w] = "exited"
  PROVE  \A f \in File : stat[f] \in SettledStat
<1> USE DEF TypeInv, TypeOK
<1>1. prod = "exited" /\ chan = <<>> /\ next > NumFiles
  BY DEF ExitInv
<1>2. \A f \in File : stat[f] # "todo"
  BY <1>1 DEF FilesInv, Conveyed, File
<1>3. \A f \in File : stat[f] # "busy"
  BY DEF FilesInv, OneWorkerPerFile, CurInv, OnFile, NoFile, File
<1> QED
  BY <1>2, <1>3

LEMMA OutcomeEquiv == OutcomeInv <=> errors = Cardinality(Failed) /\ DoneInv /\ ResultInv
  BY DEF OutcomeInv, DoneInv, ResultInv

LEMMA OutcomeInit == Init => OutcomeInv
<1> SUFFICES ASSUME Init PROVE OutcomeInv
  OBVIOUS
<1>1. Failed = {}
  BY DEF Init, Failed, FailedStat
<1> QED
  BY <1>1, FS_EmptySet DEF Init, OutcomeInv, NoDone

LEMMA OutcomeStep ==
  TypeInv /\ PhaseInv /\ ExitInv /\ FilesInv /\ OutcomeInv /\ [Next]_vars => OutcomeInv'
<1> SUFFICES ASSUME TypeInv, PhaseInv, ExitInv, FilesInv, OutcomeInv, [Next]_vars
             PROVE  OutcomeInv'
  OBVIOUS
<1> USE DEF TypeInv, TypeOK, mainVars, prodVars, workVars
<1>1. CASE Report
  <2>1. /\ done' = [success |-> errors = 0 /\ ~cancel, errors |-> errors]
        /\ UNCHANGED <<result, stat, errors, cancel>>
        /\ result = NoResult
    BY <1>1 DEF Report, PhaseInv
  <2>2. done'.success => \A f \in File : stat[f] \in SettledStat
    BY <1>1, <2>1, ReportSettled DEF Report, PhaseInv
  <2> QED
    BY <2>1, <2>2 DEF OutcomeInv, Failed
<1>2. CASE Return
  BY <1>2 DEF Return, OutcomeInv, Failed
<1>3. CASE PrepareEntry
  <2>1. done = NoDone /\ ~done.success
    BY <1>3 DEF PrepareEntry, PhaseInv, NoDone
  <2> QED
    BY <1>3, <2>1 DEF PrepareEntry, OutcomeInv, Failed
<1>4. CASE OpenChannel \/ SpawnProducer \/ SpawnWorkers \/ AwaitProducer \/ AwaitWorkers
           \/ Producer \/ Finished \/ UNCHANGED vars
  <2>1. UNCHANGED <<done, result, stat, errors, cancel>>
    BY <1>4 DEF OpenChannel, SpawnProducer, SpawnWorkers, AwaitProducer, AwaitWorkers,
                Producer, StartProducer, ProducerCheck, ProducerSend,
                ProducerDisconnected, Finished, vars
  <2> QED
    BY <2>1 DEF OutcomeInv, Failed
<1>5. CASE CtrlC
  <2>1. result = NoResult /\ UNCHANGED <<done, result, stat, errors>>
    BY <1>5 DEF CtrlC, PhaseInv
  <2> QED
    BY <2>1 DEF OutcomeInv, Failed
<1>6. ASSUME NEW w \in Worker, WorkerAny(w) PROVE OutcomeInv'
  <2>1. wpc[w] # "exited" /\ wpc[w] # "unspawned" /\ UNCHANGED <<done, result>>
    BY <1>6, WorkerFrame
  <2>2. done = NoDone /\ result = NoResult
    BY <2>1 DEF PhaseInv, Unspawned, Aborted
  <2>3. errors' = Cardinality(Failed')
    BY <1>6, CountStep DEF OutcomeInv
  <2> QED
    BY <2>1, <2>2, <2>3 DEF OutcomeInv, NoDone
<1> QED
  BY <1>1, <1>2, <1>3, <1>4, <1>5, <1>6 DEF Next, Main, WorkerAny

LEMMA QuitStep == TypeInv /\ QuitInv /\ [Next]_vars => QuitInv'
<1> SUFFICES ASSUME TypeInv, QuitInv, [Next]_vars PROVE QuitInv'
  OBVIOUS
<1> USE DEF TypeInv, TypeOK, mainVars, prodVars, workVars
<1>1. CASE SpawnWorkers
  BY <1>1 DEF SpawnWorkers, SpawnInv, QuitInv
<1>2. CASE PrepareEntry \/ OpenChannel \/ SpawnProducer \/ AwaitProducer \/ AwaitWorkers
           \/ Report \/ Return \/ Producer \/ CtrlC \/ Finished \/ UNCHANGED vars
  <2>1. UNCHANGED <<stat, wpc>> /\ (cancel => cancel')
    BY <1>2 DEF PrepareEntry, OpenChannel, SpawnProducer, AwaitProducer, AwaitWorkers,
                Report, Return, Producer, StartProducer, ProducerCheck, ProducerSend,
                ProducerDisconnected, CtrlC, Finished, vars
  <2> QED
    BY <2>1 DEF QuitInv
<1>3. ASSUME NEW w \in Worker, WorkerAny(w) PROVE QuitInv'
  <2>1. wpc' = [wpc EXCEPT ![w] = wpc'[w]] /\ (cancel => cancel')
    BY <1>3, WorkerFrame DEF Goto
  <2>2. wpc[w] = "setcancel" => cancel'
    BY <1>3 DEF WorkerAny, WorkerStep, Decide, AnswerUnknown, StartWorker, WorkerCheck,
                Recv, RecvClosed, Resolve, TakeGate, StoreAll, TransferOk, TransferFail,
                SetCancel, AnswerProceed, AnswerNo, AnswerQuit
  <2>3. CASE Recv(w)
    <3>1. \A f \in File : stat'[f] = "quit" => stat[f] = "quit"
      BY <2>3 DEF Recv
    <3> QED
      BY <2>1, <2>2, <3>1 DEF QuitInv
  <2>4. CASE Keeps(w)
    BY <2>1, <2>2, <2>4 DEF Keeps, QuitInv
  <2>5. CASE Settles(w)
    <3>1. PICK s \in SettledStat : Settle(w, s) /\ (s = "quit" => Goto(w, "setcancel"))
      BY <2>5 DEF Settles
    <3>2. CASE s = "quit"
      <4>1. wpc'[w] = "setcancel"
        BY <3>1, <3>2 DEF Goto
      <4> QED
        BY <4>1 DEF QuitInv
    <3>3. CASE s # "quit"
      <4>1. \A f \in File : stat'[f] = "quit" => stat[f] = "quit"
        BY <3>1, <3>3 DEF Settle
      <4> QED
        BY <2>1, <2>2, <4>1 DEF QuitInv
    <3> QED
      BY <3>2, <3>3
  <2> QED
    BY <1>3, <2>3, <2>4, <2>5, WorkerEffect
<1> QED
  BY <1>1, <1>2, <1>3 DEF Next, Main, WorkerAny
-----------------------------------------------------------------------------
AllInv == TypeInv /\ PhaseInv /\ ExitInv /\ FilesInv /\ OutcomeInv /\ QuitInv

LEMMA AllInvariant == Spec => []AllInv
<1>1. Init => AllInv
  <2>1. Init => ExitInv /\ QuitInv /\ OneWorkerPerFile
    BY DEF Init, ExitInv, QuitInv, OneWorkerPerFile, NoFile, File
  <2> QED
    BY <2>1, TypeInit, PhaseInit, ConveyedInit, OutcomeInit DEF AllInv, FilesInv
<1>2. AllInv /\ [Next]_vars => AllInv'
  BY PhaseStep, ExitStep, FilesStep, OutcomeStep, QuitStep, TypeStep
     DEF AllInv, FilesInv
<1> QED
  BY <1>1, <1>2, PTL DEF Spec

\* The invariant that ties the places of the tasks, the channel, the counter and
\* the announcement together holds throughout every run.
THEOREM InvariantHolds == Spec => []IInv
<1>1. AllInv => IInv
  BY DEF AllInv, IInv, TypeInv, CurInv, SendInv, FilesInv
<1> QED
  BY <1>1, AllInvariant, PTL

\* The channel holds the files sent and not yet taken, in plan order, and only
\* those behind it have been claimed: none is lost on the way (engine.rs:260).
THEOREM ConveyedHolds == Spec => []Conveyed
<1>1. AllInv => Conveyed
  BY DEF AllInv, FilesInv
<1> QED
  BY <1>1, AllInvariant, PTL

\* No two workers are on one file, and no file is left in progress by a worker that
\* has gone on or has exited (engine.rs:297): claims stay apart whatever the prompt,
\* the cancel and the closing of the channel do meanwhile.
THEOREM OneWorkerPerFileHolds == Spec => []OneWorkerPerFile
<1>1. AllInv => OneWorkerPerFile
  BY DEF AllInv, FilesInv
<1> QED
  BY <1>1, AllInvariant, PTL

\* The announced count is the number of files that failed, and success is never
\* announced over a file that was dropped or failed.
THEOREM DoneIsAccurateHolds == Spec => []DoneIsAccurate
<1>1. AllInv => DoneIsAccurate
  <2> SUFFICES ASSUME AllInv, done # NoDone PROVE
        /\ done.errors = Cardinality(Failed)
        /\ done.success => \A f \in File : stat[f] \in SettledStat \ FailedStat
    BY DEF DoneIsAccurate
  <2>1. errors = 0 => Failed = {}
    BY FailedFinite, FS_EmptySet DEF AllInv, OutcomeInv
  <2> QED
    BY <2>1 DEF AllInv, OutcomeInv, Failed
<1> QED
  BY <1>1, AllInvariant, PTL

\* A run nobody cancelled has settled every file when it announces its outcome.
THEOREM NothingDroppedHolds == Spec => []NothingDropped
<1>1. AllInv => NothingDropped
  BY ReportSettled DEF AllInv, NothingDropped, PhaseInv
<1> QED
  BY <1>1, AllInvariant, PTL

\* A "q" at the prompt always reaches the caller of run() as Cancelled.
THEOREM QuitIsReportedHolds == Spec => []QuitIsReported
<1>1. AllInv => QuitIsReported
  <2> SUFFICES ASSUME AllInv, result # NoResult, NEW f \in File, stat[f] = "quit"
               PROVE  result = "cancelled"
    BY DEF QuitIsReported
  <2>1. ~ \E w \in Worker : wpc[w] = "setcancel"
    BY DEF AllInv, PhaseInv, Unspawned, Aborted
  <2>2. cancel
    BY <2>1 DEF AllInv, QuitInv
  <2>3. Failed # {}
    BY DEF Failed, FailedStat
  <2>4. errors # 0
    BY <2>3, FailedFinite, FS_EmptySet DEF AllInv, OutcomeInv
  <2>5. ~done.success
    BY <2>4 DEF AllInv, OutcomeInv, NoDone
  <2> QED
    BY <2>2, <2>5 DEF AllInv, OutcomeInv
<1> QED
  BY <1>1, AllInvariant, PTL
-----------------------------------------------------------------------------
(* What the unsynchronised reads of cancel and promptAll allow at most     *)

Waiting == {w \in Worker : wpc[w] = "recv"}

\* Under a cancel a worker that takes a file stops waiting for one, and no
\* worker begins to wait.
OverrunInv ==
  /\ ~cancel => lateFiles = {}
  /\ Cardinality(lateFiles) + Cardinality(Waiting) <= Cardinality(Worker)

LEMMA OverrunFinite ==
  ASSUME TypeInv
  PROVE  /\ IsFiniteSet(lateFiles) /\ Cardinality(lateFiles) \in Nat
         /\ IsFiniteSet(Waiting) /\ Cardinality(Waiting) \in Nat
         /\ Cardinality(Waiting) <= Cardinality(Worker) /\ Cardinality(Worker) \in Nat
<1>1. IsFiniteSet(File)
  BY FS_Interval DEF File
<1>2. lateFiles \in SUBSET File /\ Waiting \in SUBSET Worker
  BY DEF TypeInv, TypeOK, Waiting
<1> QED
  BY <1>1, <1>2, FS_Subset, FS_CardinalityType

LEMMA OverrunKeep ==
  ASSUME TypeInv, OverrunInv, lateFiles' = lateFiles, cancel => cancel',
         cancel' \in BOOLEAN, cancel => Waiting' \subseteq Waiting
  PROVE  OverrunInv'
<1>1. /\ Cardinality(lateFiles) \in Nat /\ Cardinality(Waiting) \in Nat
      /\ IsFiniteSet(Waiting) /\ Cardinality(Worker) \in Nat
  BY OverrunFinite
<1>2. Cardinality(Waiting)' \in Nat /\ Cardinality(Waiting)' <= Cardinality(Worker)
  <2>1. Waiting' \in SUBSET Worker
    BY DEF Waiting
  <2> QED
    BY <2>1, FS_Subset, FS_CardinalityType
<1>3. cancel => Cardinality(Waiting)' <= Cardinality(Waiting)
  BY <1>1, FS_Subset
<1>4. cancel \in BOOLEAN
  BY DEF TypeInv, TypeOK
<1> QED
  BY <1>1, <1>2, <1>3, <1>4, FS_EmptySet DEF OverrunInv

LEMMA OverrunRecv ==
  ASSUME TypeInv, OverrunInv, NEW w \in Worker, Recv(w)
  PROVE  OverrunInv'
<1>1. PICK f : lateFiles' = IF cancel THEN lateFiles \cup {f} ELSE lateFiles
  BY DEF Recv
<1>2. /\ IsFiniteSet(lateFiles) /\ Cardinality(lateFiles) \in Nat
      /\ IsFiniteSet(Waiting) /\ Cardinality(Waiting) \in Nat
      /\ Cardinality(Worker) \in Nat
  BY OverrunFinite
<1>3. w \in Waiting /\ Waiting' = Waiting \ {w} /\ cancel' = cancel
  BY DEF Recv, Goto, Waiting, TypeInv, TypeOK
<1>4. Cardinality(Waiting)' = Cardinality(Waiting) - 1
  BY <1>2, <1>3, FS_RemoveElement
<1>5. /\ Cardinality(lateFiles)' \in Nat
      /\ Cardinality(lateFiles)' <= Cardinality(lateFiles) + 1
  <2>1. CASE cancel
    <3>1. IsFiniteSet(lateFiles') /\ Cardinality(lateFiles') =
            IF f \in lateFiles THEN Cardinality(lateFiles) ELSE Cardinality(lateFiles) + 1
      BY <1>1, <1>2, <2>1, FS_AddElement
    <3> QED
      BY <1>2, <3>1
  <2>2. CASE ~cancel
    BY <1>1, <1>2, <2>2
  <2> QED
    BY <2>1, <2>2
<1>6. ~cancel => lateFiles' = lateFiles
  BY <1>1
<1> QED
  BY <1>2, <1>3, <1>4, <1>5, <1>6 DEF OverrunInv

LEMMA OverrunStep == TypeInv /\ OverrunInv /\ [Next]_vars => OverrunInv'
<1> SUFFICES ASSUME TypeInv, OverrunInv, [Next]_vars PROVE OverrunInv'
  OBVIOUS
<1>0. cancel' \in BOOLEAN
  BY TypeStep DEF TypeInv, TypeOK
<1> USE DEF mainVars, prodVars, workVars
<1>1. CASE SpawnWorkers
  <2>1. /\ lateFiles' = lateFiles /\ cancel' = cancel
        /\ \A w \in Worker : wpc'[w] = "queued"
    BY <1>1 DEF SpawnWorkers
  <2>2. Waiting' = {}
    BY <2>1 DEF Waiting
  <2> QED
    BY <1>0, <2>1, <2>2, OverrunKeep
<1>2. CASE \/ PrepareEntry \/ OpenChannel \/ SpawnProducer \/ AwaitProducer
           \/ AwaitWorkers \/ Report \/ Return \/ Producer \/ CtrlC \/ Finished
           \/ UNCHANGED vars
  <2>1. UNCHANGED <<lateFiles, wpc>> /\ (cancel => cancel')
    BY <1>2 DEF PrepareEntry, OpenChannel, SpawnProducer, AwaitProducer, AwaitWorkers,
                Report, Return, Producer, StartProducer, ProducerCheck, ProducerSend,
                ProducerDisconnected, CtrlC, Finished, vars
  <2> QED
    BY <1>0, <2>1, OverrunKeep DEF Waiting
<1>3. ASSUME NEW w \in Worker, WorkerAny(w) PROVE OverrunInv'
  <2>1. CASE Recv(w)
    BY <2>1, OverrunRecv
  <2>2. CASE ~Recv(w)
    <3>1. /\ lateFiles' = lateFiles
          /\ cancel /\ wpc'[w] = "recv" => wpc[w] = "recv"
      <4> USE DEF TypeInv, TypeOK, Goto
      <4>1. CASE StartWorker(w) \/ WorkerCheck(w) \/ RecvClosed(w)
        BY <4>1 DEF StartWorker, WorkerCheck, RecvClosed
      <4>2. CASE Resolve(w) \/ TakeGate(w) \/ StoreAll(w)
        BY <4>2 DEF Resolve, TakeGate, StoreAll
      <4>3. CASE TransferOk(w) \/ TransferFail(w) \/ SetCancel(w)
        BY <4>3 DEF TransferOk, TransferFail, SetCancel
      <4>4. CASE Decide(w) \/ AnswerUnknown(w)
        BY <4>4 DEF Decide, AnswerProceed, AnswerNo, AnswerQuit, AnswerUnknown
      <4> QED
        BY <1>3, <2>2, <4>1, <4>2, <4>3, <4>4 DEF WorkerAny, WorkerStep
    <3>2. (cancel => cancel') /\ wpc' = [wpc EXCEPT ![w] = wpc'[w]]
      BY <1>3, WorkerFrame DEF Goto
    <3>3. cancel => Waiting' \subseteq Waiting
      BY <3>1, <3>2 DEF Waiting, TypeInv, TypeOK
    <3> QED
      BY <1>0, <3>1, <3>2, <3>3, OverrunKeep
  <2> QED
    BY <2>1, <2>2
<1> QED
  BY <1>1, <1>2, <1>3 DEF Next, Main, WorkerAny

\* After a cancel the workers take no more files than there are workers,
\* whatever the plan's size and the order of the steps.
THEOREM BoundedOverrunHolds == Spec => []BoundedOverrun
<1>1. Init => OverrunInv
  <2> SUFFICES ASSUME Init PROVE OverrunInv
    OBVIOUS
  <2>1. lateFiles = {} /\ Waiting = {}
    BY DEF Init, Waiting
  <2> QED
    BY <2>1, FS_EmptySet, FS_CardinalityType DEF OverrunInv
<1>2. TypeInv /\ OverrunInv => BoundedOverrun
  BY OverrunFinite DEF OverrunInv, BoundedOverrun
<1> QED
  BY <1>1, <1>2, TypeInit, TypeStep, OverrunStep, PTL DEF Spec

\* The workers that ask, or will without looking at promptAll again.
Gated == {w \in Worker : wpc[w] \in {"gate", "asking"}}
Asked == lateAsks \cup {cur[w] : w \in Gated}

\* When "all" is stored, the worker that stores it is not among those that
\* still ask; from then on nobody joins them.
AsksInv ==
  /\ ~promptAll => lateAsks = {}
  /\ promptAll => Cardinality(Asked) < Cardinality(Worker)

LEMMA AskedFinite ==
  ASSUME TypeInv
  PROVE  /\ IsFiniteSet(Asked) /\ Cardinality(Asked) \in Nat
         /\ Cardinality(Worker) \in Nat \ {0}
<1>1. IsFiniteSet(File)
  BY FS_Interval DEF File
<1>2. \A w \in Gated : cur[w] \in File
  BY DEF Gated, TypeInv, TypeOK, CurInv, OnFile, NoFile
<1>3. Asked \in SUBSET File
  BY <1>2 DEF Asked, TypeInv, TypeOK
<1> QED
  BY <1>1, <1>3, FS_Subset, FS_CardinalityType, FS_EmptySet

LEMMA AsksKeep ==
  ASSUME TypeInv, AsksInv, promptAll' = promptAll,
         ~promptAll => lateAsks' = lateAsks, promptAll => Asked' \subseteq Asked
  PROVE  AsksInv'
<1>1. IsFiniteSet(Asked) /\ Cardinality(Asked) \in Nat /\ Cardinality(Worker) \in Nat
  BY AskedFinite
<1>2. promptAll =>
        Cardinality(Asked)' \in Nat /\ Cardinality(Asked)' <= Cardinality(Asked)
  BY <1>1, FS_Subset, FS_CardinalityType
<1> QED
  BY <1>1, <1>2 DEF AsksInv

LEMMA AsksStoreAll ==
  ASSUME TypeInv, AsksInv, NEW w \in Worker, StoreAll(w)
  PROVE  AsksInv'
<1>1. promptAll' = TRUE /\ UNCHANGED <<cur, lateAsks>> /\ Gated' = Gated
  BY DEF StoreAll, Goto, Gated, TypeInv, TypeOK
<1>2. Asked' = Asked
  BY <1>1 DEF Asked
<1>3. CASE promptAll
  BY <1>1, <1>2, <1>3 DEF AsksInv
<1>4. CASE ~promptAll
  <2>1. Asked = {cur[v] : v \in Gated}
    BY <1>4 DEF AsksInv, Asked
  <2>2. Gated \subseteq Worker \ {w}
    BY DEF StoreAll, Gated
  <2>3. /\ IsFiniteSet(Worker \ {w})
        /\ Cardinality(Worker \ {w}) = Cardinality(Worker) - 1
    BY FS_RemoveElement
  <2>4. IsFiniteSet(Gated) /\ Cardinality(Gated) <= Cardinality(Worker) - 1
    BY <2>2, <2>3, FS_Subset
  <2>5. [v \in Gated |-> cur[v]] \in Surjection(Gated, Asked)
    BY <2>1 DEF Surjection
  <2>6. Cardinality(Asked) <= Cardinality(Gated)
    BY <2>4, <2>5, FS_Surjection
  <2>7. /\ Cardinality(Asked) \in Nat /\ Cardinality(Worker) \in Nat
        /\ Cardinality(Gated) \in Nat
    BY <2>4, AskedFinite, FS_CardinalityType
  <2>8. Cardinality(Asked) < Cardinality(Worker)
    BY <2>4, <2>6, <2>7
  <2> QED
    BY <1>1, <1>2, <2>8 DEF AsksInv
<1> QED
  BY <1>3, <1>4

LEMMA AsksWorker ==
  ASSUME TypeInv, AsksInv, NEW w \in Worker, WorkerAny(w), ~StoreAll(w)
  PROVE  AsksInv'
<1>1. /\ promptAll' = promptAll
      /\ ~promptAll => lateAsks' = lateAsks
      /\ lateAsks' = lateAsks \/ (w \in Gated /\ lateAsks' = lateAsks \cup {cur[w]})
      /\ promptAll /\ w \in Gated' => w \in Gated /\ cur'[w] = cur[w]
      /\ \A v \in Worker \ {w} : wpc'[v] = wpc[v] /\ cur'[v] = cur[v]
  <2> USE DEF TypeInv, TypeOK, Goto, Settle, Gated
  <2>1. CASE StartWorker(w) \/ WorkerCheck(w) \/ RecvClosed(w)
    BY <2>1 DEF StartWorker, WorkerCheck, RecvClosed
  <2>2. CASE Recv(w)
    BY <2>2 DEF Recv
  <2>3. CASE Resolve(w)
    BY <2>3 DEF Resolve
  <2>4. CASE TakeGate(w)
    BY <2>4 DEF TakeGate
  <2>5. CASE TransferOk(w) \/ TransferFail(w) \/ SetCancel(w)
    BY <2>5 DEF TransferOk, TransferFail, SetCancel
  <2>6. CASE Decide(w) \/ AnswerUnknown(w)
    BY <2>6 DEF Decide, AnswerProceed, AnswerNo, AnswerQuit, AnswerUnknown
  <2> QED
    BY <2>1, <2>2, <2>3, <2>4, <2>5, <2>6 DEF WorkerAny, WorkerStep
<1>2. ASSUME promptAll PROVE Asked' \subseteq Asked
  <2>1. \A v \in Gated' : v \in Gated /\ cur'[v] = cur[v]
    BY <1>1, <1>2 DEF Gated
  <2>2. lateAsks' \subseteq Asked
    BY <1>1 DEF Asked
  <2> QED
    BY <2>1, <2>2 DEF Asked
<1> QED
  BY <1>1, <1>2, AsksKeep

LEMMA AsksStep == TypeInv /\ AsksInv /\ [Next]_vars => AsksInv'
<1> SUFFICES ASSUME TypeInv, AsksInv, [Next]_vars PROVE AsksInv'
  OBVIOUS
<1> USE DEF mainVars, prodVars, workVars
<1>1. CASE SpawnWorkers
  <2>1. UNCHANGED <<promptAll, lateAsks>> /\ \A w \in Worker : wpc'[w] = "queued"
    BY <1>1 DEF SpawnWorkers
  <2>2. Gated' = {}
    BY <2>1 DEF Gated
  <2>3. Asked' \subseteq Asked
    BY <2>1, <2>2 DEF Asked
  <2> QED
    BY <2>1, <2>3, AsksKeep
<1>2. CASE \/ PrepareEntry \/ OpenChannel \/ SpawnProducer \/ AwaitProducer
           \/ AwaitWorkers \/ Report \/ Return \/ Producer \/ CtrlC \/ Finished
           \/ UNCHANGED vars
  <2>1. UNCHANGED <<promptAll, lateAsks, wpc, cur>>
    BY <1>2 DEF PrepareEntry, OpenChannel, SpawnProducer, AwaitProducer, AwaitWorkers,
                Report, Return, Producer, StartProducer, ProducerCheck, ProducerSend,
                ProducerDisconnected, CtrlC, Finished, vars
  <2> QED
    BY <2>1, AsksKeep DEF Asked, Gated
<1>3. ASSUME NEW w \in Worker, WorkerAny(w) PROVE AsksInv'
  BY <1>3, AsksStoreAll, AsksWorker
<1> QED
  BY <1>1, <1>2, <1>3 DEF Next, Main, WorkerAny

\* After "all" fewer files are asked about than there are workers, however the
\* workers have queued at the mutex.
THEOREM FewAsksAfterAllHolds == Spec => []FewAsksAfterAll
<1>1. Init => AsksInv
  BY DEF Init, AsksInv
<1>2. TypeInv /\ AsksInv => FewAsksAfterAll
  <2> SUFFICES ASSUME TypeInv, AsksInv PROVE FewAsksAfterAll
    OBVIOUS
  <2>1. /\ IsFiniteSet(Asked) /\ Cardinality(Asked) \in Nat
        /\ Cardinality(Worker) \in Nat \ {0}
    BY AskedFinite
  <2>2. lateAsks \in SUBSET Asked
    BY DEF Asked
  <2>3. Cardinality(lateAsks) \in Nat /\ Cardinality(lateAsks) <= Cardinality(Asked)
    BY <2>1, <2>2, FS_Subset, FS_CardinalityType
  <2> QED
    BY <2>1, <2>3, FS_EmptySet DEF AsksInv, FewAsksAfterAll
<1> QED
  BY <1>1, <1>2, TypeInit, TypeStep, AsksStep, PTL DEF Spec
-----------------------------------------------------------------------------
(* The pipeline implements the abstract run                                *)

absStatus == [f \in File |-> IF stat[f] = "quit" THEN "failed" ELSE stat[f]]

LEMMA ContractInit == Init => Contract!Init
  BY DEF Init, Contract!Init, NoDone, Contract!NoDone, NoResult, Contract!NoResult

LEMMA AbsFailed == Contract!Failed = Failed
  BY DEF Contract!Failed, Failed, FailedStat

\* The contract's own name for Cardinality is Cardinality.
LEMMA SameCardinality == \A S : Contract!Cardinality(S) = Cardinality(S)
  BY DEF Contract!Cardinality, Cardinality

\* Steps that touch neither the files nor the outcome are stutters or a Cancel.
LEMMA ContractKeep ==
  ASSUME AllInv, result = NoResult, UNCHANGED <<stat, done, result>>, cancel' \in BOOLEAN,
         cancel => cancel'
  PROVE  [Contract!Next]_(Contract!vars)
<1>1. CASE cancel' = cancel
  BY <1>1 DEF Contract!vars
<1>2. CASE cancel' = TRUE
  BY <1>2 DEF Contract!Next, Contract!Cancel, Contract!NoResult, NoResult
<1> QED
  BY <1>1, <1>2 DEF AllInv, TypeInv, TypeOK

LEMMA ContractWorker ==
  ASSUME AllInv, TypeInv', NEW w \in Worker, WorkerAny(w)
  PROVE  [Contract!Next]_(Contract!vars)
<1> USE DEF AllInv, TypeInv, TypeOK, NoResult, NoDone, Contract!NoDone, Contract!NoResult
<1>1. /\ UNCHANGED <<done, result>> /\ (cancel => cancel')
      /\ wpc[w] \notin {"unspawned", "exited"}
  BY WorkerFrame
<1>2. done = NoDone /\ result = NoResult
  BY <1>1 DEF PhaseInv, Unspawned, Aborted
<1>3. CASE Recv(w)
  <2>0. PICK h \in File : h = Head(chan)
    BY <1>3, HeadIsNext DEF FilesInv
  <2>1. /\ stat[h] = "todo"
        /\ stat' = [stat EXCEPT ![h] = "busy"] /\ cancel' = cancel
    BY <1>3, <2>0, HeadIsNext DEF Recv, FilesInv
  <2>2. absStatus' = [absStatus EXCEPT ![h] = "busy"] /\ absStatus[h] = "todo"
    BY <2>1 DEF absStatus
  <2>3. Contract!Claim(h)
    BY <1>1, <1>2, <2>1, <2>2 DEF Contract!Claim, absStatus
  <2> QED
    BY <2>3 DEF Contract!Next
<1>4. CASE Keeps(w)
  <2>1. stat' = stat /\ cancel' \in BOOLEAN
    BY <1>4 DEF Keeps
  <2> QED
    BY <1>1, <1>2, <2>1, ContractKeep
<1>5. CASE Settles(w)
  <2>1. PICK s \in SettledStat : stat' = [stat EXCEPT ![cur[w]] = s]
    BY <1>5 DEF Settles, Settle
  <2>2. PICK h \in File : h = cur[w] /\ stat[h] = "busy" /\ cancel' = cancel
    BY <1>5 DEF Settles, CurInv, FilesInv, OneWorkerPerFile
  <2> DEFINE t == IF s = "quit" THEN "failed" ELSE s
  <2>3. t \in Contract!Settled
    BY DEF Contract!Settled, SettledStat, FailedStat
  <2>4. absStatus' = [absStatus EXCEPT ![h] = t] /\ absStatus[h] = "busy"
    BY <2>1, <2>2 DEF absStatus
  <2>5. Contract!Settle(h)
    BY <1>1, <2>2, <2>3, <2>4 DEF Contract!Settle, absStatus
  <2> QED
    BY <2>5 DEF Contract!Next
<1> QED
  BY <1>3, <1>4, <1>5, WorkerEffect

LEMMA ContractReport == AllInv /\ Report => Contract!Announce
<1> SUFFICES ASSUME AllInv, Report PROVE Contract!Announce
  OBVIOUS
<1> USE DEF AllInv, TypeInv, TypeOK
<1>1. /\ done = NoDone /\ result = NoResult /\ errors = Cardinality(Failed)
      /\ \A w \in Worker : wpc[w] = "exited"
      /\ done' = [success |-> errors = 0 /\ ~cancel, errors |-> errors]
      /\ UNCHANGED <<stat, cancel, result>>
  BY DEF Report, PhaseInv, OutcomeInv, workVars
<1>2. \A f \in File : stat[f] # "busy"
  BY <1>1 DEF FilesInv, OneWorkerPerFile, CurInv, OnFile, NoFile, File
<1>3. ~cancel => \A f \in File : stat[f] \in SettledStat
  BY <1>1, ReportSettled
<1>4. errors = 0 <=> Failed = {}
  BY <1>1, FailedFinite, FS_EmptySet
<1>5. \A f \in File : absStatus[f] # "busy"
  BY <1>2 DEF absStatus
<1>6. ~cancel => \A f \in File : absStatus[f] \in Contract!Settled
  BY <1>3 DEF absStatus, Contract!Settled, SettledStat, FailedStat
<1>7. done' = [success |-> Contract!Failed = {} /\ ~cancel,
               errors |-> Cardinality(Contract!Failed)]
  BY <1>1, <1>4, AbsFailed
<1>8. UNCHANGED <<absStatus, cancel, result>>
  BY <1>1 DEF absStatus
<1>9. done = Contract!NoDone /\ result = Contract!NoResult
  BY <1>1 DEF NoDone, Contract!NoDone, NoResult, Contract!NoResult
<1> HIDE DEF AllInv, TypeInv, TypeOK
<1> QED
  BY <1>5, <1>6, <1>7, <1>8, <1>9, SameCardinality DEF Contract!Announce, absStatus

LEMMA ContractStep == AllInv /\ TypeInv' /\ [Next]_vars => [Contract!Next]_(Contract!vars)
<1> SUFFICES ASSUME AllInv, TypeInv', [Next]_vars PROVE [Contract!Next]_(Contract!vars)
  OBVIOUS
<1> USE DEF mainVars, prodVars, workVars
<1>1. CASE Report
  BY <1>1, ContractReport DEF Contract!Next
<1>2. CASE Return
  <2>1. done # NoDone /\ result = NoResult
    BY <1>2 DEF Return, AllInv, PhaseInv
  <2>2. Contract!Return
    BY <1>2, <2>1 DEF Return, Contract!Return, NoDone, Contract!NoDone, NoResult,
                      Contract!NoResult
  <2> QED
    BY <2>2 DEF Contract!Next
<1>3. CASE PrepareEntry
  <2>1. /\ result = NoResult /\ done = NoDone
        /\ \A f \in File : stat[f] = "todo"
    <3>1. result = NoResult /\ done = NoDone /\ next = 1 /\ chan = <<>> /\ Len(chan) = 0
      BY <1>3 DEF PrepareEntry, AllInv, PhaseInv
    <3> QED
      BY <3>1 DEF AllInv, FilesInv, Conveyed, File
  <2>2. CASE cancel
    <3>1. Contract!Abort
      BY <1>3, <2>1, <2>2 DEF PrepareEntry, Contract!Abort, NoDone, Contract!NoDone,
                              NoResult, Contract!NoResult
    <3> QED
      BY <3>1 DEF Contract!Next
  <2>3. CASE ~cancel
    BY <1>3, <2>3 DEF PrepareEntry, Contract!vars
  <2> QED
    BY <2>2, <2>3
<1>4. CASE OpenChannel \/ SpawnProducer \/ SpawnWorkers \/ AwaitProducer \/ AwaitWorkers
           \/ Producer \/ Finished \/ UNCHANGED vars
  <2>1. UNCHANGED <<done, result, stat, cancel>>
    BY <1>4 DEF OpenChannel, SpawnProducer, SpawnWorkers, AwaitProducer, AwaitWorkers,
                Producer, StartProducer, ProducerCheck, ProducerSend,
                ProducerDisconnected, Finished, vars
  <2> QED
    BY <2>1 DEF Contract!vars
<1>5. CASE CtrlC
  <2>1. result = NoResult /\ cancel' = TRUE /\ UNCHANGED <<stat, done, result>>
    BY <1>5 DEF CtrlC, AllInv, PhaseInv
  <2> QED
    BY <2>1, ContractKeep
<1>6. ASSUME NEW w \in Worker, WorkerAny(w) PROVE [Contract!Next]_(Contract!vars)
  BY <1>6, ContractWorker
<1> QED
  BY <1>1, <1>2, <1>3, <1>4, <1>5, <1>6 DEF Next, Main, WorkerAny

\* Every behaviour of the pipeline is one of the abstract run: files are claimed
\* once, settled once, and the announcement tells what became of them.
THEOREM PipelineImplementsContract == Spec => ContractSpec
<1>1. AllInv => TypeInv
  BY DEF AllInv
<1> QED
  BY <1>1, AllInvariant, ContractInit, ContractStep, PTL
  DEF Spec, ContractSpec, Contract!Spec
=============================================================================
