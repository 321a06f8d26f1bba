------------------------- MODULE CommandBus_proofs --------------------------
(* That CanTransport implements CommandBus, for any number of motors, any   *)
(* bounds and any failures, and what becomes of its transactions.           *)
EXTENDS CanTransport_proofs, SequenceTheorems

-----------------------------------------------------------------------------
(* Transactions.                                                            *)

\* What has been sent and is neither handed over nor given up.
Outstanding == Len(pending_transactions) + Len(transactions) - handed

\* The deque, and what the worker still has of the one it swapped, count up to sent.
OrderInv ==
  /\ \A i \in 1..Len(pending_transactions) :
       pending_transactions[i] = sent - Len(pending_transactions) + i
  /\ \A i \in (handed + 1)..Len(transactions) :
       transactions[i]
         = sent - Len(pending_transactions) - Len(transactions) + i

\* Where the owner knows that nothing is outstanding.
Settled ==
  {"stop_join_executor", "start_reset", "start_threads", "ack_publisher", "ack_true"}

\* Until the transport fails, and for a transaction that the worker has decided to
\* publish, nothing outstanding has been skipped.  The worker rests, and stops without
\* a failure, with everything handed over; a run that has failed has its remains
\* cleared before the next.
DrainInv ==
  /\ ~Failed \/ pc["worker"] = "emit_transaction"
       => Outstanding = sent - last_transaction
  /\ pc["worker"] \in Resting => handed = Len(transactions)
  /\ pc["worker"] = "fail" => transactions_in_flight >= Len(transactions)
  /\ pc["worker"] \in {"fail_close", "fail_notify"} => Failed
  /\ pc["worker"] = "exit" =>
       Failed \/ (~running /\ Outstanding = 0)
  /\ pc["worker"] = "none" =>
       /\ ~running \/ pc["owner"] \in {"fail", "fail_close"}
       /\ Len(pending_transactions) = 0 \/ (pc["owner"] = "stop_clear" /\ Failed)
  /\ pc["owner"] \in Settled => Outstanding = 0 /\ last_transaction = sent
  /\ pc["owner"] = "ack_flags" => Failed \/ Outstanding = 0

LEMMA EmptyHasNoLength ==
  ASSUME NEW s \in Seq(Nat)
  PROVE  Len(s) \in Nat /\ (s = <<>> <=> Len(s) = 0)
  OBVIOUS

LEMMA TransactionsInitially == Init => OrderInv /\ DrainInv
  BY DEF Init, OrderInv, DrainInv, Outstanding, Threads, Failed, Settled, Resting

\* A step that leaves the transactions where they are.
LEMMA OrderStands ==
  ASSUME OrderInv, UNCHANGED <<pending_transactions, transactions, handed, sent>>
  PROVE  OrderInv' /\ Outstanding' = Outstanding
  BY DEF OrderInv, Outstanding

LEMMA OrderStep ==
  ASSUME TypeInv, OrderInv, DrainInv, [Next]_vars
  PROVE  OrderInv'
<1> USE DEF TypeInv, TypeOK, TransactionsOK, CountersOK
<1>1. /\ Len(pending_transactions) \in Nat /\ Len(transactions) \in Nat
      /\ handed \in Nat /\ sent \in Nat
  OBVIOUS
<1>2. CASE SendPush
  <2>1. CASE running
    <3> DEFINE n == Len(pending_transactions)
    <3>1. /\ pending_transactions' = Append(pending_transactions, sent + 1)
          /\ sent' = sent + 1 /\ UNCHANGED <<transactions, handed>>
      BY <1>2, <2>1 DEF SendPush, local_frames
    <3>2. /\ Len(pending_transactions') = n + 1
          /\ pending_transactions'[n + 1] = sent + 1
          /\ \A i \in 1..n : pending_transactions'[i] = pending_transactions[i]
      BY <3>1
    <3>3. ASSUME NEW i \in 1..(n + 1)
          PROVE  pending_transactions'[i] = sent' - (n + 1) + i
      <4>1. CASE i = n + 1 BY <1>1, <3>1, <3>2, <4>1
      <4>2. CASE i \in 1..n
        <5>1. pending_transactions[i] = sent - n + i BY <4>2 DEF OrderInv
        <5> QED BY <1>1, <3>1, <3>2, <4>2, <5>1
      <4> QED BY <1>1, <4>1, <4>2
    <3>4. ASSUME NEW i \in (handed + 1)..Len(transactions)
          PROVE  transactions[i] = sent' - (n + 1) - Len(transactions) + i
      <4>1. transactions[i] = sent - n - Len(transactions) + i BY DEF OrderInv
      <4> QED BY <1>1, <3>1, <4>1
    <3> HIDE DEF n
    <3> QED BY <3>1, <3>2, <3>3, <3>4 DEF OrderInv
  <2>2. CASE ~running
    BY <1>2, <2>2, OrderStands DEF SendPush, local_frames
  <2> QED BY <2>1, <2>2
<1>3. CASE StopJoin
  <2>1. /\ transactions' = <<>> /\ handed' = 0
        /\ UNCHANGED <<pending_transactions, sent>>
    BY <1>3 DEF StopJoin, queues
  <2>2. Len(transactions') = 0 BY <2>1
  <2>3. (handed' + 1)..Len(transactions') = {} BY <2>1, <2>2
  <2> QED BY <2>1, <2>3 DEF OrderInv
<1>4. CASE StopClear
  <2>1. /\ pending_transactions' = <<>>
        /\ UNCHANGED <<transactions, handed, sent>>
    BY <1>4 DEF StopClear, local_frames
  <2>2. handed = Len(transactions)
    BY <1>4 DEF StopClear, DrainInv, WorkerJoined, Resting
  <2>3. (handed' + 1)..Len(transactions') = {} BY <1>1, <2>1, <2>2
  <2>4. 1..Len(pending_transactions') = {} BY <2>1
  <2> QED BY <2>3, <2>4 DEF OrderInv
<1>5. CASE WorkerExtract
  <2>1. /\ transactions' = pending_transactions /\ handed' = 0
        /\ pending_transactions' = <<>> /\ UNCHANGED sent
    BY <1>5 DEF WorkerExtract
  <2>2. Len(pending_transactions') = 0 BY <2>1
  <2>3. ASSUME NEW i \in 1..Len(pending_transactions)
        PROVE  pending_transactions[i] = sent - 0 - Len(pending_transactions) + i
    <3>1. pending_transactions[i] = sent - Len(pending_transactions) + i
      BY DEF OrderInv
    <3> QED BY <1>1, <3>1
  <2>4. (0 + 1)..Len(pending_transactions) = 1..Len(pending_transactions) OBVIOUS
  <2>5. 1..Len(pending_transactions') = {} BY <2>2
  <2> QED BY <2>1, <2>2, <2>3, <2>4, <2>5 DEF OrderInv
<1>6. CASE PublishTransaction \/ EmitTransaction
  <2>1. /\ UNCHANGED <<pending_transactions, transactions, sent>>
        /\ handed' \in {handed, handed + 1}
    BY <1>6 DEF PublishTransaction, EmitTransaction, queues
  <2>2. (handed' + 1)..Len(transactions) \subseteq (handed + 1)..Len(transactions)
    BY <1>1, <2>1
  <2> QED BY <2>1, <2>2 DEF OrderInv
<1>7. CASE ~(SendPush \/ StopJoin \/ StopClear \/ WorkerExtract
             \/ PublishTransaction \/ EmitTransaction)
  <2>1. UNCHANGED <<pending_transactions, transactions, handed, sent>>
    BY <1>7 DEF Next, CallersRest, vars, queues, local_frames,
       Owner, Call, Start, Stop, Enable, Disable, StopClose, StopNotify,
       StopJoinExecutor, StartReset, StartThreads, StartThrows, EnableSet,
       SendTransaction, SendNotify, OwnerMoves, AwaitAcknowledgements,
       AcknowledgementCheck, AcknowledgementTimeout, AcknowledgementFlags,
       AcknowledgementPublisher, AcknowledgementTrue, DisableActiveCommands,
       DisableFlag, DisableGeneration, DisableRecovery, DisableDiscard,
       DisableFence, RecordFailure, FailureFlag, FailureClose, FailureNotify,
       Control, ControlCall, QueueMotion, ApplyRecoveryUpdates, RejectBatch,
       ReadGeneration, MotionPush, RecoveryFlags, RecoveryPush, RecoveryAccept,
       RecoveryRefuse, ControlNotify,
       Worker, WorkerMoves, WorkerLock, WorkerCheck, WorkerSleep,
       SpuriousWakeup, WorkerExit, PublishActive, PublishRecheck, EmitActive,
       EmitThrows, PublishStamp, PublishComplete, PublishSettle,
       Executor, ExecutorMoves, ExecutorThrows, ExecutorExit, ContextShutdown,
       ContextClose
  <2> QED BY <2>1, OrderStands
<1> QED BY <1>2, <1>3, <1>4, <1>5, <1>6, <1>7

\* Once stop has cleared the running flag it stays clear until the join.
ClosingInv ==
  \/ pc["owner"] \in {"stop_notify", "stop_join"}
  \/ /\ pc["owner"] \in {"dis_flag", "dis_generation", "dis_recovery", "dis_discard",
                         "dis_fence"}
     /\ goal \notin {"enable", "disable"}
  => ~running

LEMMA ClosingStep ==
  ASSUME TypeInv, ClosingInv, Next
  PROVE  ClosingInv'
<1> USE DEF TypeInv, TypeOK, PcOK, FlagsOK, Threads, Goto, NotifyAll, NotifyOne,
   ClosingInv, gate
<1>1. CASE Owner
  <2>1. CASE DisableActiveCommands("owner") \/ RecordFailure("owner")
    BY <2>1 DEF DisableActiveCommands, DisableFlag, DisableGeneration,
       DisableRecovery, DisableDiscard, DisableFence, AfterDisable,
       RecordFailure, FailureFlag, FailureClose, FailureNotify, AfterFailure
  <2>2. CASE ~(DisableActiveCommands("owner") \/ RecordFailure("owner"))
    BY <1>1, <2>2 DEF Owner, Call, Start, Stop, Enable, Disable, StopClose,
       StopNotify, StopJoin, StopClear, StopJoinExecutor, StartReset, StartThreads,
       StartThrows, EnableSet, SendTransaction, SendPush, SendNotify, OwnerMoves,
       AwaitAcknowledgements, AcknowledgementCheck, AcknowledgementTimeout,
       AcknowledgementFlags, AcknowledgementPublisher, AcknowledgementTrue
  <2> QED BY <2>1, <2>2
<1>2. CASE Control
  BY <1>2 DEF Control, ControlCall, QueueMotion, ApplyRecoveryUpdates,
     RejectBatch, ReadGeneration, MotionPush, RecoveryFlags, RecoveryPush,
     RecoveryAccept, RecoveryRefuse, ControlNotify, DisableActiveCommands,
     DisableFlag, DisableGeneration, DisableRecovery, DisableDiscard, DisableFence
<1>3. CASE Worker
  BY <1>3 DEF Worker, WorkerMoves, WorkerLock, WorkerCheck, WorkerSleep,
     SpuriousWakeup, WorkerExit, WorkerExtract, PublishTransaction,
     EmitTransaction, PublishActive, PublishRecheck, EmitActive, EmitThrows,
     PublishStamp, PublishComplete, PublishSettle, RecordFailure, FailureFlag,
     FailureClose, FailureNotify, AfterFailure
<1>4. CASE Executor
  BY <1>4 DEF Executor, ExecutorMoves, ExecutorThrows, ExecutorExit,
     ContextShutdown, ContextClose, RecordFailure, FailureFlag, FailureClose,
     FailureNotify, AfterFailure
<1> QED BY <1>1, <1>2, <1>3, <1>4 DEF Next, CallersRest, vars

LEMMA DrainOwner ==
  ASSUME TypeInv, ClosingInv, DrainInv, Owner
  PROVE  DrainInv'
<1> USE DEF Goto, NotifyAll, NotifyOne, Failed, gate, failures, queues, local_frames,
   history
<1>1. /\ Len(pending_transactions) \in Nat /\ Len(transactions) \in Nat
      /\ handed \in 0..Len(transactions) /\ sent \in Nat /\ last_transaction \in Nat
      /\ pending_transactions = <<>> <=> Len(pending_transactions) = 0
      /\ DOMAIN pc = Threads /\ "owner" \in Threads /\ "worker" \in Threads
      /\ "executor" \in Threads /\ pc["worker"] \in WorkerLocations
  BY DEF TypeInv, TypeOK, PcOK, TransactionsOK, CountersOK, Threads
<1>2. CASE SendPush
  <2>1. CASE running
    <3>1. /\ Len(pending_transactions') = Len(pending_transactions) + 1
          /\ sent' = sent + 1 /\ UNCHANGED <<transactions, handed, last_transaction>>
          /\ UNCHANGED <<running, failures, transactions_in_flight>>
          /\ pc["owner"] = "send_push"
          /\ pc'["owner"] = "send_notify" /\ pc'["worker"] = pc["worker"]
      BY <1>1, <1>2, <2>1 DEF SendPush, TypeInv, TypeOK, TransactionsOK, PcOK, Threads
    <3>2. Outstanding' = Outstanding + 1 /\ Outstanding \in Int
      BY <1>1, <3>1 DEF Outstanding
    <3> QED BY <1>1, <2>1, <3>1, <3>2 DEF DrainInv, Settled, Resting
  <2>2. CASE ~running
    <3>1. /\ UNCHANGED <<queues, local_frames, sent, last_transaction, running, failures>>
          /\ pc["owner"] = "send_push"
          /\ pc'["owner"] = "idle" /\ pc'["worker"] = pc["worker"]
      BY <1>1, <1>2, <2>2 DEF SendPush, Threads
    <3> QED BY <3>1 DEF DrainInv, Outstanding, Settled, Resting
  <2> QED BY <2>1, <2>2
<1>3. CASE StopJoin
  <2>1. /\ handed' = 0 /\ Len(transactions') = 0
        /\ UNCHANGED <<queues, sent, last_transaction, running, failures>>
        /\ pc["owner"] = "stop_join" /\ pc["worker"] \in {"none", "exit"}
        /\ pc'["owner"] = "stop_clear" /\ pc'["worker"] = "none"
    BY <1>1, <1>3 DEF StopJoin, Threads
  <2>2. /\ Outstanding' = Len(pending_transactions)
        /\ Outstanding \in Int /\ Outstanding >= Len(pending_transactions)
    BY <1>1, <2>1 DEF Outstanding
  <2>3. handed' = Len(transactions') BY <2>1
  <2>4. CASE pc["worker"] = "none"
    <3>1. ~running /\ Len(pending_transactions) = 0 /\ handed = Len(transactions)
      BY <2>1, <2>4 DEF DrainInv, Resting
    <3>2. Outstanding' = 0 /\ Outstanding = 0 BY <1>1, <2>2, <3>1 DEF Outstanding
    <3> QED BY <2>1, <2>3, <3>1, <3>2 DEF DrainInv, Settled, Resting
  <2>5. CASE pc["worker"] = "exit"
    <3>1. Failed \/ (~running /\ Outstanding = 0) BY <2>5 DEF DrainInv
    <3>2. CASE Failed
      <4>1. ~running BY <2>1 DEF ClosingInv
      <4> QED BY <2>1, <2>3, <3>2, <4>1 DEF DrainInv, Settled, Resting
    <3>3. CASE ~Failed
      <4>1. Len(pending_transactions) = 0 /\ Outstanding' = 0 /\ ~running
        BY <1>1, <2>2, <3>1, <3>3
      <4> QED BY <2>1, <2>3, <3>1, <3>3, <4>1 DEF DrainInv, Settled, Resting
    <3> QED BY <3>2, <3>3
  <2> QED BY <2>1, <2>4, <2>5
<1>4. CASE StopClear
  <2>1. /\ Len(pending_transactions') = 0 /\ last_transaction' = sent
        /\ UNCHANGED <<transactions, handed, sent, running, failures>>
        /\ pc["owner"] = "stop_clear" /\ pc["worker"] = "none"
        /\ pc'["owner"] = "stop_join_executor" /\ pc'["worker"] = "none"
    BY <1>1, <1>4 DEF StopClear, WorkerJoined, TypeInv, Threads
  <2>2. handed = Len(transactions) BY <2>1 DEF DrainInv, Resting
  <2>3. Outstanding' = 0 BY <1>1, <2>1, <2>2 DEF Outstanding
  <2> QED BY <1>1, <2>1, <2>2, <2>3 DEF DrainInv, Settled, Resting
<1>5. CASE StopJoinExecutor \/ StartReset \/ StartThreads \/ StartThrows
  <2>1. /\ UNCHANGED <<queues, local_frames, sent, last_transaction>>
        /\ pc["owner"] \in Settled /\ pc["worker"] = "none"
        /\ pc["owner"] \in {"stop_join_executor", "start_reset", "start_threads"}
    BY <1>5 DEF StopJoinExecutor, StartReset, StartThreads, StartThrows, Settled,
       WorkerJoined, TypeInv
  <2>2. \/ /\ pc'["worker"] = "none" /\ running' = running
           /\ pc'["owner"] \in {"idle", "start_reset", "start_threads"}
        \/ pc'["worker"] = "none" /\ pc'["owner"] = "fail"
        \/ pc'["worker"] = "lock" /\ pc'["owner"] = "idle"
    BY <1>1, <1>5, <2>1 DEF StopJoinExecutor, StartReset, StartThreads, StartThrows,
       Threads
  <2>3. /\ Outstanding = 0 /\ last_transaction = sent /\ handed = Len(transactions)
        /\ Len(pending_transactions) = 0 /\ ~running
    BY <2>1 DEF DrainInv, Settled, Resting
  <2>4. /\ Outstanding' = 0 /\ last_transaction' = sent' /\ handed' = Len(transactions')
        /\ Len(pending_transactions') = 0 /\ Outstanding' = sent' - last_transaction'
    BY <1>1, <2>1, <2>3 DEF Outstanding
  <2> QED BY <2>2, <2>3, <2>4 DEF DrainInv, Settled, Resting
<1>6. CASE AcknowledgementCheck \/ AcknowledgementTimeout
  <2>1. /\ UNCHANGED <<queues, local_frames, sent, last_transaction, running, failures>>
        /\ pc["owner"] \in {"lock", "wait"} /\ pc'["worker"] = pc["worker"]
        /\ \/ pc'["owner"] = "ack_flags" /\ AcknowledgementReady
           \/ pc'["owner"] \in {"wait", "idle"}
    BY <1>1, <1>6 DEF AcknowledgementCheck, AcknowledgementTimeout, OwnerMoves, Threads
  <2>2. AcknowledgementReady => Failed \/ Outstanding = 0
    <3>1. SUFFICES ASSUME ~Failed, Len(pending_transactions) = 0,
                          transactions_in_flight = 0
                   PROVE  Outstanding = 0
      BY <1>1 DEF AcknowledgementReady
    <3>2. CASE pc["worker"] \in Resting
      BY <1>1, <3>1, <3>2 DEF DrainInv, Outstanding
    <3>3. CASE pc["worker"] \in Publishing \cup {"fail"}
      <4>1. transactions_in_flight >= Len(transactions)
        BY <3>3 DEF TypeInv, DrainInv
      <4> QED BY <1>1, <3>1, <4>1 DEF Outstanding
    <3>4. CASE pc["worker"] \in {"fail_close", "fail_notify", "exit"}
      BY <3>1, <3>4 DEF DrainInv
    <3> QED BY <1>1, <3>2, <3>3, <3>4 DEF WorkerLocations, Publishing, Resting
  <2> QED BY <2>1, <2>2 DEF DrainInv, Outstanding, Settled, Resting
<1>7. CASE AcknowledgementFlags \/ AcknowledgementPublisher \/ AcknowledgementTrue
  <2>1. /\ UNCHANGED <<queues, local_frames, sent, last_transaction, running, failures>>
        /\ pc["owner"] \in {"ack_flags", "ack_publisher", "ack_true"}
        /\ pc'["worker"] = pc["worker"]
        /\ \/ pc'["owner"] = "idle"
           \/ pc["owner"] = "ack_flags" /\ ~Failed /\ pc'["owner"] = "ack_publisher"
           \/ pc["owner"] = "ack_publisher" /\ pc'["owner"] = "ack_true"
    BY <1>1, <1>7 DEF AcknowledgementFlags, AcknowledgementPublisher,
       AcknowledgementTrue, OwnerMoves, Threads
  <2>2. pc["owner"] = "ack_flags" /\ ~Failed => Outstanding = 0 /\ last_transaction = sent
    <3>1. SUFFICES ASSUME pc["owner"] = "ack_flags", ~Failed
                   PROVE  Outstanding = 0 /\ last_transaction = sent
      OBVIOUS
    <3>2. Outstanding = 0 /\ Outstanding = sent - last_transaction BY <3>1 DEF DrainInv
    <3> QED BY <1>1, <3>2
  <2> QED BY <2>1, <2>2 DEF DrainInv, Outstanding, Settled, Resting
<1>8. CASE RecordFailure("owner") \/ StopClose
  <2>1. /\ UNCHANGED <<queues, local_frames, sent, last_transaction>>
        /\ Failed => Failed'
        /\ \/ pc'["worker"] = pc["worker"]
           \/ pc["worker"] = "wait" /\ pc'["worker"] = "lock"
        /\ \/ running' = running
           \/ running' = FALSE
    <3>1. CASE FailureFlag("owner") \/ FailureClose("owner") \/ StopClose
      BY <1>1, <3>1 DEF FailureFlag, FailureClose, StopClose, Threads
    <3>2. CASE FailureNotify("owner")
      BY <1>1, <3>2 DEF FailureNotify, Threads
    <3> QED BY <1>8, <3>1, <3>2 DEF RecordFailure
  <2>2. \/ pc["owner"] = "fail" /\ pc'["owner"] = "fail_close"
        \/ /\ pc["owner"] \in {"fail_close", "stop_close"} /\ ~running'
           /\ pc'["owner"] \in {"fail_notify", "stop_notify"}
        \/ pc["owner"] = "fail_notify" /\ pc'["owner"] = "stop_close"
    <3>1. CASE FailureFlag("owner") \/ FailureClose("owner") \/ StopClose
      BY <1>1, <3>1 DEF FailureFlag, FailureClose, StopClose, Threads
    <3>2. CASE FailureNotify("owner")
      BY <1>1, <3>2 DEF FailureNotify, AfterFailure, Threads
    <3> QED BY <1>8, <3>1, <3>2 DEF RecordFailure
  <2> QED BY <2>1, <2>2 DEF DrainInv, Outstanding, Settled, Resting
<1>9. CASE ~(SendPush \/ StopJoin \/ StopClear \/ StopJoinExecutor \/ StartReset
             \/ StartThreads \/ StartThrows \/ AcknowledgementCheck
             \/ AcknowledgementTimeout \/ AcknowledgementFlags
             \/ AcknowledgementPublisher \/ AcknowledgementTrue
             \/ RecordFailure("owner") \/ StopClose)
  <2> DEFINE Quiet == UNCHANGED <<pending_transactions, transactions_in_flight,
               local_frames, sent, last_transaction, running, failures>>
             Moved == /\ pc["owner"] \notin {"fail", "fail_close", "stop_clear"}
                      /\ pc'["owner"] \notin Settled \cup {"ack_flags"}
                      /\ \/ pc'["worker"] = pc["worker"]
                         \/ pc["worker"] = "wait" /\ pc'["worker"] = "lock"
  <2>1. ASSUME DisableActiveCommands("owner")
       PROVE  Quiet /\ Moved
    <3>1. Quiet
      BY <2>1 DEF DisableActiveCommands, DisableFlag, DisableGeneration,
         DisableRecovery, DisableDiscard, DisableFence
    <3>2. Moved
      BY <1>1, <2>1 DEF DisableActiveCommands, DisableFlag, DisableGeneration,
         DisableRecovery, DisableDiscard, DisableFence, AfterDisable, Settled, Threads
    <3> QED BY <3>1, <3>2
  <2>2. ASSUME StopNotify \/ SendNotify
       PROVE  Quiet /\ Moved
    <3>1. Quiet BY <2>2 DEF StopNotify, SendNotify
    <3>2. Moved BY <1>1, <2>2 DEF StopNotify, SendNotify, Settled, Threads
    <3> QED BY <3>1, <3>2
  <2>3. ASSUME Start \/ Stop \/ Enable \/ Disable \/ EnableSet \/ SendTransaction
             \/ AwaitAcknowledgements
       PROVE  Quiet /\ Moved
    <3>1. Quiet
      BY <2>3 DEF Call, Start, Stop, Enable, Disable, EnableSet, SendTransaction,
         AwaitAcknowledgements, OwnerMoves
    <3>2. Moved
      BY <1>1, <2>3 DEF Call, Start, Stop, Enable, Disable, EnableSet, SendTransaction,
         AwaitAcknowledgements, OwnerMoves, Settled, Threads
    <3> QED BY <3>1, <3>2
  <2>4. Quiet /\ Moved BY <1>9, <2>1, <2>2, <2>3 DEF Owner
  <2> QED BY <2>4 DEF DrainInv, Outstanding, Resting
<1> QED BY <1>2, <1>3, <1>4, <1>5, <1>6, <1>7, <1>8, <1>9

LEMMA DrainWorker ==
  ASSUME TypeInv, OrderInv, DrainInv, Worker
  PROVE  DrainInv'
<1> USE DEF Goto, NotifyAll, NotifyOne, Failed, gate, failures, queues, local_frames,
   history
<1>1. /\ Len(pending_transactions) \in Nat /\ Len(transactions) \in Nat
      /\ handed \in 0..Len(transactions) /\ sent \in Nat /\ last_transaction \in Nat
      /\ pending_transactions = <<>> <=> Len(pending_transactions) = 0
      /\ DOMAIN pc = Threads /\ "owner" \in Threads /\ "worker" \in Threads
      /\ pc["worker"] \in WorkerLocations /\ pc["owner"] \in OwnerLocations
  BY DEF TypeInv, TypeOK, PcOK, TransactionsOK, CountersOK, Threads
<1>2. CASE WorkerExtract
  <2>1. /\ transactions' = pending_transactions /\ handed' = 0
        /\ Len(pending_transactions') = 0
        /\ UNCHANGED <<sent, last_transaction, running, failures>>
        /\ pc["worker"] = "extract" /\ pc'["worker"] = "publish"
        /\ pc'["owner"] = pc["owner"]
    BY <1>1, <1>2 DEF WorkerExtract, Threads
  <2>2. handed = Len(transactions) BY <2>1 DEF DrainInv, Resting
  <2>3. Outstanding' = Outstanding BY <1>1, <2>1, <2>2 DEF Outstanding
  <2> QED BY <2>1, <2>3 DEF DrainInv, Settled, Resting
<1>3. CASE PublishTransaction
  <2>1. /\ UNCHANGED <<queues, transactions, sent, last_transaction, running, failures>>
        /\ pc["worker"] = "publish" /\ pc'["owner"] = pc["owner"]
        /\ handed < Len(transactions)
        /\ \/ Failed /\ handed' = handed + 1 /\ pc'["worker"] = "publish"
           \/ ~Failed /\ handed' = handed /\ pc'["worker"] = "emit_transaction"
    BY <1>1, <1>3 DEF PublishTransaction, SkipsTransactions, Threads
  <2>2. Outstanding > 0 BY <1>1, <2>1 DEF Outstanding
  <2> QED BY <1>1, <2>1, <2>2 DEF DrainInv, Outstanding, Settled, Resting
<1>4. CASE EmitTransaction
  <2>1. /\ handed' = handed + 1 /\ last_transaction' = transactions[handed + 1]
        /\ UNCHANGED <<queues, transactions, sent, running, failures>>
        /\ pc["worker"] = "emit_transaction" /\ pc'["worker"] = "publish"
        /\ pc'["owner"] = pc["owner"] /\ handed < Len(transactions)
    BY <1>1, <1>4 DEF EmitTransaction, TypeInv, Threads
  <2>2. handed + 1 \in (handed + 1)..Len(transactions) BY <1>1, <2>1
  <2>3. last_transaction' = sent - Len(pending_transactions) - Len(transactions)
                              + (handed + 1)
    BY <2>1, <2>2 DEF OrderInv
  <2>4. Outstanding' = Outstanding - 1 /\ Outstanding \in Int /\ Outstanding > 0
        /\ Outstanding' = sent - last_transaction'
    BY <1>1, <2>1, <2>2, <2>3 DEF Outstanding
  <2> QED BY <2>1, <2>4 DEF DrainInv, Settled, Resting
<1>5. CASE EmitThrows
  <2>1. /\ UNCHANGED <<queues, transactions, handed, sent, last_transaction, running,
                       failures>>
        /\ pc["worker"] \in Publishing /\ pc'["worker"] = "fail"
        /\ pc'["owner"] = pc["owner"]
        /\ ~Failed \/ pc["worker"] = "emit_transaction" \/ Failed
    BY <1>1, <1>5 DEF EmitThrows, WorkerMoves, Publishing, Threads
  <2>2. transactions_in_flight' >= Len(transactions') BY <2>1 DEF TypeInv
  <2> QED BY <2>1, <2>2 DEF DrainInv, Outstanding, Settled, Resting
<1>6. CASE WorkerExit
  <2>1. /\ UNCHANGED <<queues, transactions, handed, sent, last_transaction, running,
                       failures>>
        /\ pc["worker"] = "extract" /\ pc'["worker"] = "exit"
        /\ pc'["owner"] = pc["owner"]
        /\ Failed \/ (~running /\ Len(pending_transactions) = 0)
    BY <1>1, <1>6 DEF WorkerExit, WorkerStops, WorkerMoves, Threads
  <2>2. handed = Len(transactions) BY <2>1 DEF DrainInv, Resting
  <2> QED BY <1>1, <2>1, <2>2 DEF DrainInv, Outstanding, Settled, Resting
<1>7. CASE RecordFailure("worker")
  <2>1. /\ UNCHANGED <<queues, transactions, handed, sent, last_transaction>>
        /\ pc["worker"] \in {"fail", "fail_close", "fail_notify"}
        /\ Failed => Failed'
        /\ running' => running
        /\ \/ pc["worker"] = "fail" /\ pc'["worker"] = "fail_close" /\ Failed'
           \/ pc["worker"] = "fail_close" /\ pc'["worker"] = "fail_notify"
           \/ pc["worker"] = "fail_notify" /\ pc'["worker"] = "exit"
        /\ \/ pc'["owner"] = pc["owner"]
           \/ pc["owner"] = "wait" /\ pc'["owner"] = "lock"
    BY <1>1, <1>7 DEF RecordFailure, FailureFlag, FailureClose, FailureNotify,
       AfterFailure, Threads
  <2> QED BY <2>1 DEF DrainInv, Outstanding, Settled, Resting
<1>8. CASE PublishComplete
  <2>1. /\ UNCHANGED <<pending_transactions, transactions, handed, sent,
                       last_transaction, running, failures>>
        /\ handed = Len(transactions) /\ pc["worker"] = "publish"
        /\ pc'["worker"] = "settle"
        /\ \/ pc'["owner"] = pc["owner"]
           \/ pc["owner"] = "wait" /\ pc'["owner"] = "lock"
    BY <1>1, <1>8 DEF PublishComplete, Threads
  <2> QED BY <2>1 DEF DrainInv, Outstanding, Settled, Resting
<1>9. CASE ~(WorkerExtract \/ PublishTransaction \/ EmitTransaction \/ EmitThrows
             \/ WorkerExit \/ RecordFailure("worker") \/ PublishComplete)
  <2> DEFINE Quiet == UNCHANGED <<pending_transactions, transactions_in_flight,
               transactions, handed, sent, last_transaction, running, failures>>
             Moved == /\ pc'["owner"] = pc["owner"]
                      /\ \/ /\ pc["worker"] \in Resting \ {"none"}
                            /\ pc'["worker"] \in Resting \ {"none"}
                         \/ /\ pc["worker"] \in {"publish", "recheck", "emit", "stamp"}
                            /\ pc'["worker"] \in {"publish", "recheck", "emit", "stamp"}
  <2>1. ASSUME WorkerLock \/ WorkerCheck \/ WorkerSleep \/ SpuriousWakeup \/ PublishSettle
       PROVE  Quiet /\ Moved
    <3>1. Quiet
      BY <2>1 DEF WorkerLock, WorkerCheck, WorkerSleep, SpuriousWakeup, WorkerMoves,
         PublishSettle
    <3>2. Moved
      BY <1>1, <2>1 DEF WorkerLock, WorkerCheck, WorkerSleep, SpuriousWakeup,
         WorkerMoves, PublishSettle, Resting, Threads
    <3> QED BY <3>1, <3>2
  <2>2. ASSUME PublishActive \/ PublishRecheck \/ EmitActive \/ PublishStamp
       PROVE  Quiet /\ Moved
    <3>1. Quiet
      BY <2>2 DEF PublishActive, PublishRecheck, EmitActive, WorkerMoves, PublishStamp
    <3>2. Moved
      BY <1>1, <2>2 DEF PublishActive, PublishRecheck, EmitActive, WorkerMoves,
         PublishStamp, Resting, Threads
    <3> QED BY <3>1, <3>2
  <2>3. Quiet /\ Moved BY <1>9, <2>1, <2>2 DEF Worker
  <2> QED BY <2>3 DEF DrainInv, Outstanding, Settled, Resting
<1> QED BY <1>2, <1>3, <1>4, <1>5, <1>6, <1>7, <1>8, <1>9

LEMMA DrainOthers ==
  ASSUME TypeInv, DrainInv, Control \/ Executor
  PROVE  DrainInv'
<1> USE DEF TypeInv, TypeOK, PcOK, Threads, Goto, NotifyAll, NotifyOne
<1>1. CASE Control
  <2>1. /\ UNCHANGED <<pending_transactions, transactions_in_flight, local_frames, sent,
                       last_transaction, running, failures>>
        /\ \A t \in {"owner", "worker"} :
             pc'[t] = pc[t] \/ (pc[t] = "wait" /\ pc'[t] = "lock")
    BY <1>1 DEF Control, ControlCall, QueueMotion, ApplyRecoveryUpdates, RejectBatch,
       ReadGeneration, MotionPush, RecoveryFlags, RecoveryPush, RecoveryAccept,
       RecoveryRefuse, ControlNotify, DisableActiveCommands, DisableFlag,
       DisableGeneration, DisableRecovery, DisableDiscard, DisableFence, gate, queues,
       history
  <2> QED BY <2>1 DEF DrainInv, Outstanding, Settled, Resting, local_frames, failures,
          Failed
<1>2. CASE Executor
  <2>1. /\ UNCHANGED <<queues, local_frames, sent, last_transaction, worker_failed>>
        /\ running' => running
        /\ Failed => Failed'
        /\ \A t \in {"owner", "worker"} :
             pc'[t] = pc[t] \/ (pc[t] = "wait" /\ pc'[t] = "lock")
    BY <1>2 DEF Executor, ExecutorMoves, ExecutorThrows, ExecutorExit, ContextShutdown,
       ContextClose, RecordFailure, FailureFlag, FailureClose, FailureNotify, gate,
       failures, history, Failed
  <2> QED BY <2>1 DEF DrainInv, Outstanding, Settled, Resting, queues, local_frames
<1> QED BY <1>1, <1>2

\* What holds of the transactions.
TransactionInv == TypeInv /\ OrderInv /\ ClosingInv /\ DrainInv

LEMMA TransactionStep == TransactionInv /\ [Next]_vars => TransactionInv'
<1>1. CASE UNCHANGED vars
  BY <1>1, TypeInvStep DEF TransactionInv, OrderInv, DrainInv, ClosingInv, Outstanding,
     Failed, vars, gate, failures, queues, local_frames, history
<1>2. CASE Next
  <2>1. SUFFICES ASSUME TransactionInv, Next PROVE OrderInv' /\ ClosingInv' /\ DrainInv'
    BY <1>2, TypeInvStep DEF TransactionInv
  <2>2. OrderInv' /\ ClosingInv'
    BY <2>1, OrderStep, ClosingStep DEF TransactionInv
  <2>3. DrainInv'
    <3>1. CASE CallersRest
      BY <2>1, <3>1 DEF TransactionInv, CallersRest, DrainInv, Outstanding, Failed, vars,
         gate, failures, queues, local_frames, history
    <3> QED BY <2>1, <3>1, DrainOwner, DrainWorker, DrainOthers DEF TransactionInv, Next
  <2> QED BY <2>2, <2>3
<1> QED BY <1>1, <1>2

LEMMA TransactionsHold == Spec => []TransactionInv
<1>1. Init => TransactionInv
  BY TypeInvInitially, TransactionsInitially
  DEF TransactionInv, ClosingInv, Init, Threads
<1> QED BY <1>1, TransactionStep, PTL DEF Spec

\* While the worker has not failed, what is left of its deque and the transactions
\* sent since make one run of numbers, from the one after the last handed over.
THEOREM NothingIsLostOrReordered == Spec => []TransactionsInOrder
<1>1. TransactionInv => TransactionsInOrder
  <2> SUFFICES ASSUME TransactionInv, ~Failed
               PROVE  SubSeq(transactions, handed + 1, Len(transactions))
                        \o pending_transactions
                        = [i \in 1..(sent - last_transaction) |-> last_transaction + i]
    BY DEF TransactionsInOrder
  <2> DEFINE rest == SubSeq(transactions, handed + 1, Len(transactions))
             all == rest \o pending_transactions
             n == Len(transactions) - handed
             k == Len(pending_transactions)
  <2>1. /\ transactions \in Seq(Nat) /\ pending_transactions \in Seq(Nat)
        /\ handed \in 0..Len(transactions) /\ sent \in Nat /\ last_transaction \in Nat
        /\ Len(transactions) \in Nat /\ k \in Nat
    BY LenProperties DEF TransactionInv, TypeInv, TypeOK, TransactionsOK, CountersOK
  <2>2. n \in Nat /\ n + k = sent - last_transaction
    BY <2>1 DEF TransactionInv, DrainInv, Outstanding
  <2>3. /\ rest \in Seq(Nat) /\ Len(rest) = n
        /\ \A i \in 1..n : rest[i] = transactions[handed + i]
    <3> DEFINE lo == handed + 1
               hi == Len(transactions)
    <3>1. lo \in Int /\ hi \in Int BY <2>1
    <3>2. ASSUME NEW i \in lo..hi PROVE transactions[i] \in Nat
      <4>1. i \in 1..Len(transactions) BY <2>1
      <4> QED BY <2>1, <4>1, ElementOfSeq
    <3> HIDE DEF lo, hi
    <3>3. /\ SubSeq(transactions, lo, hi) \in Seq(Nat)
          /\ Len(SubSeq(transactions, lo, hi)) = IF lo <= hi THEN hi - lo + 1 ELSE 0
          /\ \A i \in 1..(hi - lo + 1) :
               SubSeq(transactions, lo, hi)[i] = transactions[lo + i - 1]
      BY <3>1, <3>2, SubSeqProperties
    <3>4. hi - lo + 1 = n /\ (lo <= hi <=> n > 0) /\ n \in Nat
      BY <2>1 DEF lo, hi
    <3>5. \A i \in 1..n : lo + i - 1 = handed + i BY <2>1, <3>4 DEF lo
    <3> USE DEF lo, hi
    <3>6. rest = SubSeq(transactions, lo, hi) OBVIOUS
    <3> HIDE DEF lo, hi, rest, n
    <3>7. Len(rest) = n BY <3>3, <3>4, <3>6
    <3>8. ASSUME NEW i \in 1..n PROVE rest[i] = transactions[handed + i]
      BY <3>3, <3>4, <3>5, <3>6
    <3> QED BY <3>3, <3>6, <3>7, <3>8
  <2>4. /\ all \in Seq(Nat) /\ Len(all) = n + k
        /\ \A i \in 1..(n + k) :
             all[i] = IF i <= n THEN rest[i] ELSE pending_transactions[i - n]
    <3>1. k = Len(pending_transactions) OBVIOUS
    <3> HIDE DEF rest, k, n
    <3>2. /\ rest \o pending_transactions \in Seq(Nat)
          /\ Len(rest \o pending_transactions) = Len(rest) + Len(pending_transactions)
          /\ \A i \in 1..(Len(rest) + Len(pending_transactions)) :
               (rest \o pending_transactions)[i]
                 = IF i <= Len(rest) THEN rest[i] ELSE pending_transactions[i - Len(rest)]
      BY <2>1, <2>3, ConcatProperties
    <3> QED BY <2>3, <3>1, <3>2
  <2>5. ASSUME NEW i \in 1..(n + k) PROVE all[i] = last_transaction + i
    <3>1. last_transaction = sent - k - n BY <2>1, <2>2
    <3>2. CASE i <= n
      <4>1. handed + i \in (handed + 1)..Len(transactions) BY <2>1, <2>2, <3>2
      <4>2. transactions[handed + i] = sent - k - Len(transactions) + (handed + i)
        BY <4>1 DEF TransactionInv, OrderInv
      <4>3. all[i] = transactions[handed + i] BY <2>2, <2>3, <2>4, <3>2
      <4> QED BY <2>1, <2>2, <3>1, <4>2, <4>3
    <3>3. CASE i > n
      <4>1. i - n \in 1..k BY <2>1, <2>2, <3>3
      <4>2. pending_transactions[i - n] = sent - k + (i - n)
        BY <4>1 DEF TransactionInv, OrderInv
      <4>3. all[i] = pending_transactions[i - n] BY <2>2, <2>4, <3>3
      <4> QED BY <2>1, <2>2, <3>1, <4>2, <4>3
    <3> QED BY <2>1, <2>2, <3>2, <3>3
  <2>6. DOMAIN all = 1..(n + k) /\ all \in [1..(n + k) -> Nat]
    BY <2>4, LenProperties
  <2> HIDE DEF all, n, k
  <2>7. all = [i \in 1..(n + k) |-> last_transaction + i]
    BY <2>5, <2>6
  <2> QED BY <2>2, <2>7 DEF all
<1> QED BY <1>1, TransactionsHold, PTL

\* Where wait_for_transaction_acknowledgements returns true everything sent before
\* has left the worker, published or, without an endpoint, dropped, whatever the
\* worker did between the checks.
THEOREM AcknowledgedMeansPublishedOrDropped == Spec => []AckMeansPublishedOrDropped
<1>1. TransactionInv => AckMeansPublishedOrDropped
  <2> SUFFICES ASSUME TransactionInv, pc["owner"] = "ack_true", NEW i \in 1..sent
               PROVE  i \in Published \/ i \in dropped
    BY DEF AckMeansPublishedOrDropped
  <2>1. last_transaction = sent BY DEF TransactionInv, DrainInv, Settled
  <2> QED BY <2>1 DEF Published
<1> QED BY <1>1, TransactionsHold, PTL

\* A transport that stops without having failed has published, or dropped without
\* an endpoint, everything it was sent.
THEOREM StopLosesNothing == Spec => []StopDrainsTransactions
<1>1. TransactionInv => StopDrainsTransactions
  <2> SUFFICES ASSUME TransactionInv, pc["owner"] = "stop_clear", ~Failed
               PROVE  last_transaction = sent
    BY DEF StopDrainsTransactions
  <2>1. pc["worker"] = "none" BY DEF TransactionInv, TypeInv, WorkerJoined
  <2>2. /\ Len(pending_transactions) = 0 /\ handed = Len(transactions)
        /\ Outstanding = sent - last_transaction
    BY <2>1 DEF TransactionInv, DrainInv, Resting
  <2> QED
    BY <2>2, LenProperties DEF Outstanding, TransactionInv, TypeInv, TypeOK,
       TransactionsOK, CountersOK
<1> QED BY <1>1, TransactionsHold, PTL

-----------------------------------------------------------------------------
(* The refinement.                                                          *)

BusInv == TransactionInv /\ ActivationInv /\ CommandInv

LEMMA BusInvHolds == Spec => []BusInv
<1>1. Init => BusInv
  BY TypeInvInitially, TransactionsInitially, CommandInvInitially
  DEF BusInv, TransactionInv, ClosingInv, ActivationInv, NoStaleActivation, Init, Threads
<1>2. BusInv /\ [Next]_vars => BusInv'
  BY TransactionStep, ActivationInvStep, CommandInvStep DEF BusInv, TransactionInv
<1> QED BY <1>1, <1>2, PTL DEF Spec

\* What CommandBus sees of a state.
Seen == <<fence, failures, sent, last_transaction, dropped, last_motion>>

LEMMA UnseenIsStutter ==
  ASSUME UNCHANGED Seen
  PROVE  UNCHANGED Bus!vars
BY DEF Seen, Bus!vars, Failed, failures

LEMMA FenceRises ==
  ASSUME BusInv, NEW t \in Threads, DisableFence(t)
  PROVE  Bus!CloseActivation
BY DEF BusInv, ActivationInv, DisableFence, Bus!CloseActivation, Failed, failures,
   TransactionInv, TypeInv, TypeOK, CountersOK

LEMMA TransactionGoesOut ==
  ASSUME BusInv, EmitTransaction
  PROVE  Bus!HandOver \/ Bus!Drop
<1>1. /\ pc["worker"] = "emit_transaction" /\ handed < Len(transactions)
      /\ last_transaction' = transactions[handed + 1]
      /\ dropped' \in {dropped, dropped \cup {last_transaction'}}
      /\ UNCHANGED <<fence, failures, sent, last_motion>>
  BY DEF EmitTransaction, BusInv, TransactionInv, TypeInv
<1>2. /\ Len(pending_transactions) \in Nat /\ Len(transactions) \in Nat
      /\ handed \in Nat /\ sent \in Nat /\ last_transaction \in Nat
  BY LenProperties DEF BusInv, TransactionInv, TypeInv, TypeOK, TransactionsOK, CountersOK
<1>3. handed + 1 \in (handed + 1)..Len(transactions) BY <1>1, <1>2
<1>4. last_transaction'
        = sent - Len(pending_transactions) - Len(transactions) + (handed + 1)
  BY <1>1, <1>3 DEF BusInv, TransactionInv, OrderInv
<1>5. Len(pending_transactions) + Len(transactions) - handed = sent - last_transaction
  BY <1>1 DEF BusInv, TransactionInv, DrainInv, Outstanding
<1>6. last_transaction < sent /\ last_transaction' = last_transaction + 1
  BY <1>1, <1>2, <1>4, <1>5
<1> QED BY <1>1, <1>6 DEF Bus!HandOver, Bus!Drop, Failed, failures

LEMMA StopWritesOff ==
  ASSUME BusInv, StopClear
  PROVE  Bus!WriteOff \/ UNCHANGED Bus!vars
<1>1. /\ pc["owner"] = "stop_clear" /\ last_transaction' = sent
      /\ dropped' = dropped \cup (last_transaction + 1)..sent
      /\ UNCHANGED <<fence, failures, sent, last_motion>>
  BY DEF StopClear
<1>2. CASE Failed
  BY <1>1, <1>2 DEF Bus!WriteOff, Failed, failures
<1>3. CASE ~Failed
  <2>1. pc["worker"] = "none" BY <1>1 DEF BusInv, TransactionInv, TypeInv, WorkerJoined
  <2>2. /\ Len(pending_transactions) = 0 /\ handed = Len(transactions)
        /\ Outstanding = sent - last_transaction
    BY <1>3, <2>1 DEF BusInv, TransactionInv, DrainInv, Resting
  <2>3. last_transaction = sent
    BY <2>2, LenProperties DEF Outstanding, BusInv, TransactionInv, TypeInv, TypeOK,
       TransactionsOK, CountersOK
  <2>4. (last_transaction + 1)..sent = {}
    BY <2>3 DEF BusInv, TransactionInv, TypeInv, TypeOK, CountersOK
  <2> QED BY <1>1, <2>3, <2>4, UnseenIsStutter DEF Seen
<1> QED BY <1>2, <1>3

LEMMA ActiveFrameGoesOut ==
  ASSUME BusInv, EmitActive
  PROVE  (\E m \in Motors : Bus!PublishMotion(m)) \/ UNCHANGED Bus!vars
<1>1. /\ pc["worker"] = "emit" /\ UNCHANGED <<fence, failures, sent, last_transaction, dropped>>
  BY DEF EmitActive
<1>2. PICK k \in Kinds, m \in Motors, published \in BOOLEAN :
        /\ Upcoming(k, m)
        /\ last_motion' = IF k = "motion" /\ published
                          THEN [last_motion EXCEPT ![m] = batch[k][m]]
                          ELSE last_motion
  BY DEF EmitActive
<1>3. CASE k = "motion" /\ published
  <2>1. last_motion' = [last_motion EXCEPT ![m] = batch["motion"][m]]
    BY <1>2, <1>3
  <2>2. last_motion'[m] = batch["motion"][m]
    BY <2>1 DEF BusInv, TransactionInv, TypeInv, TypeOK, FramesOK
  <2>3. batch["motion"][m].generation >= fence
    BY <1>1, <1>2, <1>3 DEF BusInv, ActivationInv, NoStaleActivation
  <2>4. batch["motion"][m].call > last_motion[m].call
    <3>1. batch["motion"][m] # NoFrame BY <1>2, <1>3 DEF Upcoming
    <3>2. last_motion[m].call < batch["motion"][m].call
      BY <1>1, <3>1 DEF BusInv, CommandInv
    <3> QED BY <3>1, <3>2 DEF BusInv, TransactionInv, TypeInv, TypeOK, FramesOK, Slots,
               Kinds, Frames
  <2>5. Bus!PublishMotion(m)
    BY <1>1, <2>1, <2>2, <2>3, <2>4 DEF Bus!PublishMotion, Failed, failures
  <2> QED BY <2>5
<1>4. CASE ~(k = "motion" /\ published)
  BY <1>1, <1>2, <1>4, UnseenIsStutter DEF Seen
<1> QED BY <1>3, <1>4

LEMMA FailuresComeAndGo ==
  ASSUME NEW t \in Threads, FailureFlag(t) \/ StartReset \/ ContextShutdown,
         BusInv, BusInv'
  PROVE  Bus!FailOrRecover
<1>1. UNCHANGED <<fence, sent, last_transaction, dropped, last_motion>>
  BY DEF FailureFlag, StartReset, ContextShutdown, history
<1>2. Failed' \in BOOLEAN
  BY DEF Failed
<1> QED BY <1>1, <1>2 DEF Bus!FailOrRecover

LEMMA BusStep == BusInv /\ BusInv' /\ [Next]_vars => [Bus!Next]_(Bus!vars)
<1> SUFFICES ASSUME BusInv, BusInv', [Next]_vars
             PROVE  Bus!Next \/ UNCHANGED Bus!vars
  OBVIOUS
<1>1. CASE \E t \in Threads : DisableFence(t)
  BY <1>1, FenceRises DEF Bus!Next
<1>2. CASE SendPush
  <2>1. /\ UNCHANGED <<fence, failures, last_transaction, dropped, last_motion>>
        /\ sent' \in {sent, sent + 1}
    BY <1>2 DEF SendPush, history
  <2>2. CASE sent' = sent + 1
    BY <2>1, <2>2 DEF Bus!Next, Bus!Send, Failed, failures
  <2>3. CASE sent' = sent
    BY <2>1, <2>3, UnseenIsStutter DEF Seen
  <2> QED BY <2>1, <2>2, <2>3
<1>3. CASE EmitTransaction
  BY <1>3, TransactionGoesOut DEF Bus!Next
<1>4. CASE StopClear
  BY <1>4, StopWritesOff DEF Bus!Next
<1>5. CASE EmitActive
  BY <1>5, ActiveFrameGoesOut DEF Bus!Next
<1>6. CASE StartReset \/ ContextShutdown \/ \E t \in Threads : FailureFlag(t)
  BY <1>6, FailuresComeAndGo DEF Bus!Next, Threads
<1>7. CASE ~(SendPush \/ EmitTransaction \/ StopClear \/ EmitActive \/ StartReset
             \/ ContextShutdown \/ \E t \in Threads : FailureFlag(t) \/ DisableFence(t))
  <2>0. /\ ~DisableFence("owner") /\ ~DisableFence("control")
        /\ ~FailureFlag("owner") /\ ~FailureFlag("worker") /\ ~FailureFlag("executor")
    BY <1>7 DEF Threads
  <2>1. CASE Owner
    BY <1>7, <2>0, <2>1, UnseenIsStutter DEF Seen, history, Owner, Call, Start, Stop,
       Enable, Disable, StopClose, StopNotify, StopJoin, StopJoinExecutor,
       StartThreads, StartThrows, EnableSet, SendTransaction, SendNotify, OwnerMoves,
       AwaitAcknowledgements, AcknowledgementCheck, AcknowledgementTimeout,
       AcknowledgementFlags, AcknowledgementPublisher, AcknowledgementTrue,
       DisableActiveCommands, DisableFlag, DisableGeneration, DisableRecovery,
       DisableDiscard, RecordFailure, FailureClose, FailureNotify
  <2>2. CASE Control
    BY <1>7, <2>0, <2>2, UnseenIsStutter DEF Seen, history, Control, ControlCall,
       QueueMotion, ApplyRecoveryUpdates, RejectBatch, ReadGeneration, MotionPush,
       RecoveryFlags, RecoveryPush, RecoveryAccept, RecoveryRefuse, ControlNotify,
       DisableActiveCommands, DisableFlag, DisableGeneration, DisableRecovery,
       DisableDiscard
  <2>3. CASE Worker
    BY <1>7, <2>0, <2>3, UnseenIsStutter DEF Seen, history, Worker, WorkerMoves,
       WorkerLock, WorkerCheck, WorkerSleep, SpuriousWakeup, WorkerExit, WorkerExtract,
       PublishTransaction, PublishActive, PublishRecheck, EmitThrows, PublishStamp,
       PublishComplete, PublishSettle, RecordFailure, FailureClose, FailureNotify
  <2>4. CASE Executor
    BY <1>7, <2>0, <2>4, UnseenIsStutter DEF Seen, history, Executor, ExecutorMoves,
       ExecutorThrows, ExecutorExit, ContextClose, RecordFailure, FailureClose,
       FailureNotify
  <2>5. CASE CallersRest \/ UNCHANGED vars
    BY <2>5, UnseenIsStutter DEF Seen, CallersRest, vars, history
  <2> QED BY <2>1, <2>2, <2>3, <2>4, <2>5 DEF Next
<1> QED BY <1>1, <1>2, <1>3, <1>4, <1>5, <1>6, <1>7

\* The transport keeps the promise of CommandBus, for any number of motors and any
\* bounds, under every interleaving and failure: each transaction once and in order,
\* dropped without an endpoint or written off after a failure, each motion frame
\* newer than the last and of an activation that is still open.
THEOREM TransportIsACommandBus == Spec => ImplementsCommandBus
<1>1. Init => Bus!Init
  BY DEF Init, Bus!Init, Failed
<1> QED
  BY <1>1, BusStep, BusInvHolds, PTL DEF Spec, ImplementsCommandBus, Bus!Spec
=============================================================================
