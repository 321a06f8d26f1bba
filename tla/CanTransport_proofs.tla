------------------------ MODULE CanTransport_proofs ------------------------
(* Proofs about CanTransport, for any number of motors and any bounds.      *)
EXTENDS CanTransport, TLAPS

-----------------------------------------------------------------------------
(* Types.                                                                   *)

\* The worker inside one iteration of its loop, between extraction and settling.
Publishing == {"publish", "emit_transaction", "recheck", "emit", "stamp"}

\* The owner between joining the worker and starting another.
WorkerJoined == {"stop_clear", "stop_join_executor", "start_reset", "start_threads"}

\* TypeOK is not inductive: transactions_in_flight covers what the worker has
\* extracted, a transaction in emission exists, and stop clears the counter, and
\* start spawns a worker, only when there is none.
TypeInv ==
  /\ TypeOK
  /\ pc["worker"] = "emit_transaction" => handed < Len(transactions)
  /\ pc["worker"] \in Publishing => transactions_in_flight >= Len(transactions)
  /\ pc["owner"] \in WorkerJoined => pc["worker"] = "none"

\* Where thread t may be.
Home(t) ==
  IF t = "owner" THEN OwnerLocations
  ELSE IF t = "control" THEN ControlLocations
  ELSE IF t = "worker" THEN WorkerLocations ELSE ExecutorLocations

\* A thread that moves within its own locations keeps PcOK.
LEMMA GotoStaysHome ==
  ASSUME PcOK, NEW t \in Threads, NEW x \in Home(t), Goto(t, x)
  PROVE  PcOK'
BY DEF PcOK, Goto, Threads, Locations, Home

\* So does one that notifies: only the owner and the worker ever wait.
LEMMA NotifyStaysHome ==
  ASSUME PcOK, NEW t \in Threads, NEW x \in Home(t),
         NotifyAll(t, x) \/ NotifyOne(t, x)
  PROVE  PcOK'
<1>1. /\ "lock" \in OwnerLocations /\ "lock" \in WorkerLocations
      /\ "wait" \notin ControlLocations /\ "wait" \notin ExecutorLocations
  BY DEF OwnerLocations, ControlLocations, WorkerLocations, ExecutorLocations
<1>2. "lock" \in Locations /\ x \in Locations
  BY <1>1 DEF Locations, Home, Threads
<1>3. CASE NotifyAll(t, x)
  BY <1>1, <1>2, <1>3 DEF PcOK, NotifyAll, Threads, Home
<1>4. CASE NotifyOne(t, x)
  BY <1>1, <1>2, <1>4 DEF PcOK, NotifyOne, Goto, Threads, Home
<1> QED
  BY <1>3, <1>4

\* A step of disable_active_commands, by whichever thread, keeps PcOK.
LEMMA DisableStaysHome ==
  ASSUME PcOK, NEW t \in {"owner", "control"}, DisableActiveCommands(t)
  PROVE  PcOK'
<1>1. {"dis_generation", "dis_recovery", "dis_discard", "dis_fence",
       AfterDisable(t)} \subseteq Home(t)
  BY DEF AfterDisable, Home, OwnerLocations, ControlLocations
<1> QED
  BY <1>1, GotoStaysHome DEF Threads, DisableActiveCommands, DisableFlag,
     DisableGeneration, DisableRecovery, DisableDiscard, DisableFence

\* So does a step of record_failure.
LEMMA FailureStaysHome ==
  ASSUME PcOK, NEW t \in {"owner", "worker", "executor"}, RecordFailure(t)
  PROVE  PcOK'
<1>1. {"fail_close", "fail_notify", AfterFailure(t)} \subseteq Home(t)
  BY DEF AfterFailure, Home, OwnerLocations, WorkerLocations, ExecutorLocations
<1> QED
  BY <1>1, GotoStaysHome, NotifyStaysHome DEF Threads, RecordFailure,
     FailureFlag, FailureClose, FailureNotify

LEMMA OwnerTypes ==
  ASSUME TypeInv, Owner
  PROVE  TypeOK'
<1> USE DEF TypeInv, TypeOK, gate, failures, queues, local_frames, arguments,
   history
<1>1. PcOK'
  <2>1. Home("owner") = OwnerLocations /\ "owner" \in Threads
    BY DEF Home, Threads
  <2>2. CASE StopJoin \/ StopJoinExecutor \/ StartThreads \/ StartThrows
    BY <2>2 DEF PcOK, Threads, Locations, OwnerLocations, WorkerLocations,
       ExecutorLocations, StopJoin, StopJoinExecutor, StartThreads, StartThrows
  <2>3. CASE StopNotify \/ SendNotify
    BY <2>1, <2>3, NotifyStaysHome DEF StopNotify, SendNotify, OwnerLocations
  <2>4. CASE DisableActiveCommands("owner") \/ RecordFailure("owner")
    BY <2>4, DisableStaysHome, FailureStaysHome
  <2>5. CASE ~(StopJoin \/ StopJoinExecutor \/ StartThreads \/ StartThrows
               \/ StopNotify \/ SendNotify
               \/ DisableActiveCommands("owner") \/ RecordFailure("owner"))
    BY <2>1, <2>5, GotoStaysHome DEF OwnerLocations, Owner, Call, Start, Stop,
       Enable, Disable, StopClose, StopClear, StartReset, EnableSet,
       SendTransaction, SendPush, OwnerMoves, AwaitAcknowledgements,
       AcknowledgementCheck, AcknowledgementTimeout, AcknowledgementFlags,
       AcknowledgementPublisher, AcknowledgementTrue
  <2> QED
    BY <2>2, <2>3, <2>4, <2>5
<1>2. FlagsOK'
  <2>1. CASE DisableActiveCommands("owner")
    BY <2>1 DEF FlagsOK, DisableActiveCommands, DisableFlag, DisableGeneration,
       DisableRecovery, DisableDiscard, DisableFence
  <2>2. CASE RecordFailure("owner") \/ StopClose \/ StopNotify
    BY <2>2 DEF FlagsOK, RecordFailure, FailureFlag, FailureClose, FailureNotify,
       StopClose, StopNotify
  <2>3. CASE StartReset \/ StartThreads \/ StartThrows \/ EnableSet
    BY <2>3 DEF FlagsOK, StartReset, StartThreads, StartThrows, EnableSet, Serviceable,
       Failed
  <2>4. CASE ~(DisableActiveCommands("owner") \/ RecordFailure("owner") \/ StopClose
               \/ StopNotify \/ StartReset \/ StartThreads \/ StartThrows \/ EnableSet)
    <3>1. UNCHANGED <<gate, failures, executor_stop_requested, recovery_active,
                      active_work_progress>>
      BY <2>4 DEF Owner, Call, Start, Stop, Enable, Disable, StopJoin, StopClear,
         StopJoinExecutor, SendTransaction, SendPush, SendNotify, OwnerMoves,
         AwaitAcknowledgements, AcknowledgementCheck, AcknowledgementTimeout,
         AcknowledgementFlags, AcknowledgementPublisher, AcknowledgementTrue
    <3> QED BY <3>1 DEF FlagsOK
  <2> QED
    BY <2>1, <2>2, <2>3, <2>4
<1> USE DEF Owner, Call, Start, Stop, Enable, Disable, StopClose, StopNotify,
   StopJoin, StopClear, StopJoinExecutor, StartReset, StartThreads,
   StartThrows, EnableSet, SendTransaction, SendPush, SendNotify, OwnerMoves,
   AwaitAcknowledgements, AcknowledgementCheck, AcknowledgementTimeout,
   AcknowledgementFlags, AcknowledgementPublisher, AcknowledgementTrue,
   DisableActiveCommands, DisableFlag, DisableGeneration, DisableRecovery,
   DisableDiscard, DisableFence, RecordFailure, FailureFlag, FailureClose,
   FailureNotify
<1>3. CountersOK'
  <2>1. dropped' \in SUBSET Nat
    <3>1. CASE StopClear
      BY <3>1 DEF CountersOK
    <3>2. CASE ~StopClear
      <4>1. dropped' = dropped
        BY <3>2
      <4> QED BY <4>1 DEF CountersOK
    <3> QED BY <3>1, <3>2
  <2>2. /\ active_generation' \in Nat /\ call' \in Nat /\ generation' \in Nat
        /\ runs' \in Nat /\ sent' \in Nat /\ fence' \in Nat
        /\ last_transaction' \in Nat /\ hold' \in [Motors -> Nat]
    BY DEF CountersOK
  <2> QED BY <2>1, <2>2 DEF CountersOK
<1>4. TransactionsOK'
  <2>1. CASE SendPush
    <3>1. Append(pending_transactions, sent + 1) \in Seq(Nat)
      BY DEF TransactionsOK, CountersOK
    <3> QED
      BY <2>1, <3>1 DEF TransactionsOK, SendPush
  <2>2. CASE StopClear
    BY <2>2 DEF TransactionsOK, StopClear
  <2>3. CASE StopJoin
    <3>1. transactions' = <<>> /\ handed' = 0
      BY <2>3 DEF StopJoin
    <3>2. transactions' \in Seq(Nat) /\ handed' \in 0..Len(transactions')
      BY <3>1
    <3>3. UNCHANGED queues
      BY <2>3 DEF StopJoin
    <3> QED
      BY <3>2, <3>3 DEF TransactionsOK
  <2>4. CASE ~(SendPush \/ StopJoin \/ StopClear)
    BY <2>4 DEF TransactionsOK
  <2> QED
    BY <2>1, <2>2, <2>3, <2>4
<1>5. FramesOK'
  BY DEF FramesOK, Slots, EmptyBatch, EmptySlots
<1>6. ArgumentsOK'
  BY DEF ArgumentsOK
<1> QED
  BY <1>1, <1>2, <1>3, <1>4, <1>5, <1>6

LEMMA ControlTypes ==
  ASSUME TypeInv, Control
  PROVE  TypeOK'
<1> USE DEF TypeInv, TypeOK, gate, failures, queues, local_frames, arguments,
   history
<1>1. PcOK'
  <2>1. Home("control") = ControlLocations /\ "control" \in Threads
    BY DEF Home, Threads
  <2>2. CASE ControlNotify
    BY <2>1, <2>2, NotifyStaysHome DEF ControlNotify, ControlLocations
  <2>3. CASE DisableActiveCommands("control")
    BY <2>3, DisableStaysHome
  <2>4. CASE ~(ControlNotify \/ DisableActiveCommands("control"))
    BY <2>1, <2>4, GotoStaysHome DEF ControlLocations, Control, ControlCall,
       QueueMotion, ApplyRecoveryUpdates, RejectBatch, ReadGeneration,
       MotionPush, RecoveryFlags, RecoveryPush, RecoveryAccept, RecoveryRefuse,
       NoticeOfUpdates
  <2> QED
    BY <2>2, <2>3, <2>4
<1> USE DEF Control, ControlCall, QueueMotion, ApplyRecoveryUpdates,
   RejectBatch, ReadGeneration, MotionPush, RecoveryFlags, RecoveryPush,
   RecoveryAccept, RecoveryRefuse, ControlNotify, DisableActiveCommands,
   DisableFlag, DisableGeneration, DisableRecovery, DisableDiscard,
   DisableFence
<1>2. FlagsOK'
  BY DEF FlagsOK, Serviceable, Failed, ArgumentsOK
<1>3. CountersOK'
  BY DEF CountersOK
<1>4. TransactionsOK'
  BY DEF TransactionsOK, CountersOK
<1>5. FramesOK'
  <2>1. CASE MotionPush
    <3> HIDE DEF Control
    <3> QED
      BY <2>1 DEF FramesOK, CountersOK, Slots, Kinds, Frames, Stamped
  <2>2. CASE RecoveryPush
    <3>1. CASE RecoveryAccept
      BY <2>2, <3>1 DEF FramesOK, CountersOK, ArgumentsOK, Slots, Kinds,
         Frames, Stamped, RecoveryPush, RecoveryAccept
    <3>2. CASE RecoveryRefuse
      BY <2>2, <3>2 DEF FramesOK, RecoveryPush, RecoveryRefuse
    <3> QED
      BY <2>2, <3>1, <3>2 DEF RecoveryPush
  <2>3. CASE DisableActiveCommands("control")
    BY <2>3 DEF FramesOK, Slots, EmptyBatch, EmptySlots, DisableActiveCommands,
       DisableFlag, DisableGeneration, DisableRecovery, DisableDiscard,
       DisableFence
  <2>4. CASE ~(MotionPush \/ RecoveryPush \/ DisableActiveCommands("control"))
    BY <2>4 DEF FramesOK, Control, ControlCall, QueueMotion,
       ApplyRecoveryUpdates, RejectBatch, ReadGeneration, RecoveryFlags,
       ControlNotify
  <2> QED
    BY <2>1, <2>2, <2>3, <2>4
<1>6. ArgumentsOK'
  BY DEF ArgumentsOK
<1> QED
  BY <1>1, <1>2, <1>3, <1>4, <1>5, <1>6

LEMMA WorkerTypes ==
  ASSUME TypeInv, Worker
  PROVE  TypeOK'
<1> USE DEF TypeInv, TypeOK, gate, failures, queues, local_frames, arguments,
   history
<1>1. PcOK'
  <2>1. Home("worker") = WorkerLocations /\ "worker" \in Threads
    BY DEF Home, Threads
  <2>2. CASE RecordFailure("worker")
    BY <2>2, FailureStaysHome
  <2>3. CASE PublishComplete
    BY <2>1, <2>3, GotoStaysHome, NotifyStaysHome DEF PublishComplete,
       WorkerLocations
  <2>4. CASE PublishTransaction
    BY <2>1, <2>4, GotoStaysHome DEF PublishTransaction, WorkerLocations, PcOK
  <2>5. CASE ~(RecordFailure("worker") \/ PublishComplete \/ PublishTransaction)
    BY <2>1, <2>5, GotoStaysHome DEF WorkerLocations, Worker, WorkerMoves,
       WorkerLock, WorkerCheck, WorkerSleep, SpuriousWakeup, WorkerExit,
       WorkerExtract, EmitTransaction, PublishActive, PublishRecheck,
       EmitActive, EmitThrows, PublishStamp, PublishSettle
  <2> QED
    BY <2>2, <2>3, <2>4, <2>5
<1>2. FlagsOK'
  <2>1. CASE RecordFailure("worker")
    BY <2>1 DEF FlagsOK, RecordFailure, FailureFlag, FailureClose, FailureNotify
  <2>2. CASE PublishStamp \/ PublishSettle
    BY <2>2 DEF FlagsOK, PublishStamp, PublishSettle
  <2>3. CASE ~(RecordFailure("worker") \/ PublishStamp \/ PublishSettle)
    <3>1. UNCHANGED <<gate, failures, executor_stop_requested, recovery_active,
                      active_work_progress>>
      BY <2>3 DEF Worker, WorkerMoves, WorkerLock, WorkerCheck, WorkerSleep,
         SpuriousWakeup, WorkerExit, WorkerExtract, PublishTransaction,
         EmitTransaction, PublishActive, PublishRecheck, EmitActive, EmitThrows,
         PublishComplete
    <3> QED BY <3>1 DEF FlagsOK
  <2> QED
    BY <2>1, <2>2, <2>3
<1> USE DEF Worker, WorkerMoves, WorkerLock, WorkerCheck, WorkerSleep,
   SpuriousWakeup, WorkerExit, WorkerExtract, PublishTransaction,
   EmitTransaction, PublishActive, PublishRecheck, EmitActive, EmitThrows,
   PublishStamp, PublishComplete, PublishSettle, RecordFailure, FailureFlag,
   FailureClose, FailureNotify
<1>3. CountersOK'
  <2>1. CASE EmitTransaction
    BY <2>1 DEF CountersOK, TransactionsOK, EmitTransaction
  <2>2. CASE ~EmitTransaction
    BY <2>2 DEF CountersOK
  <2> QED
    BY <2>1, <2>2
<1>4. TransactionsOK'
  <2>1. CASE EmitTransaction \/ PublishTransaction
    BY <2>1 DEF TransactionsOK, EmitTransaction, PublishTransaction
  <2>2. CASE PublishComplete
    BY <2>2 DEF TransactionsOK, PublishComplete, Publishing
  <2>3. CASE WorkerExtract
    BY <2>3 DEF TransactionsOK, WorkerExtract, InFlightAfterExtraction
  <2>4. CASE ~(EmitTransaction \/ PublishTransaction \/ PublishComplete
               \/ WorkerExtract)
    BY <2>4 DEF TransactionsOK
  <2> QED
    BY <2>1, <2>2, <2>3, <2>4
<1>5. FramesOK'
  <2>1. CASE WorkerExtract
    BY <2>1 DEF FramesOK, Slots, WorkerExtract, TakenFrames, LeftFrames
  <2>2. CASE EmitActive
    BY <2>2 DEF FramesOK, Slots, EmitActive, Upcoming
  <2>3. CASE PublishStamp
    BY <2>3 DEF FramesOK, Slots, PublishStamp
  <2>4. CASE ~(WorkerExtract \/ EmitActive \/ PublishStamp)
    BY <2>4 DEF FramesOK
  <2> QED
    BY <2>1, <2>2, <2>3, <2>4
<1>6. ArgumentsOK'
  BY DEF ArgumentsOK
<1> QED
  BY <1>1, <1>2, <1>3, <1>4, <1>5, <1>6

LEMMA ExecutorTypes ==
  ASSUME TypeInv, Executor
  PROVE  TypeOK'
<1> USE DEF TypeInv, TypeOK, gate, failures, queues, local_frames, arguments,
   history
<1>1. PcOK'
  <2>1. Home("executor") = ExecutorLocations /\ "executor" \in Threads
    BY DEF Home, Threads
  <2>2. CASE RecordFailure("executor")
    BY <2>2, FailureStaysHome
  <2>3. CASE ContextClose
    BY <2>1, <2>3, NotifyStaysHome DEF ContextClose, ExecutorLocations
  <2>4. CASE ~(RecordFailure("executor") \/ ContextClose)
    BY <2>1, <2>4, GotoStaysHome DEF ExecutorLocations, Executor,
       ExecutorMoves, ExecutorThrows, ExecutorExit, ContextShutdown
  <2> QED
    BY <2>2, <2>3, <2>4
<1> USE DEF Executor, ExecutorMoves, ExecutorThrows, ExecutorExit,
   ContextShutdown, ContextClose, RecordFailure, FailureFlag, FailureClose,
   FailureNotify
<1>2. FlagsOK'
  BY DEF FlagsOK, Serviceable, Failed, ArgumentsOK
<1>3. CountersOK'
  <2>1. UNCHANGED <<call, generation, runs, sent, fence, last_transaction, dropped, hold>>
    OBVIOUS
  <2>2. active_generation' \in Nat
    BY DEF CountersOK
  <2> QED BY <2>1, <2>2 DEF CountersOK
<1>4. TransactionsOK'
  BY DEF TransactionsOK, CountersOK
<1>5. FramesOK'
  BY DEF FramesOK, Slots, EmptyBatch, EmptySlots
<1>6. ArgumentsOK'
  BY DEF ArgumentsOK
<1> QED
  BY <1>1, <1>2, <1>3, <1>4, <1>5, <1>6

\* The strengthening of TypeOK is inductive.
LEMMA PhaseStep ==
  ASSUME TypeInv, TypeOK', Next
  PROVE  TypeInv'
<1> DEFINE InEmission ==
      pc["worker"] = "emit_transaction" => handed < Len(transactions)
<1> DEFINE InFlight ==
      pc["worker"] \in Publishing => transactions_in_flight >= Len(transactions)
<1> DEFINE Joined == pc["owner"] \in WorkerJoined => pc["worker"] = "none"
<1>1. TypeOK /\ InEmission /\ InFlight /\ Joined
  BY DEF TypeInv
<1>2. SUFFICES (InEmission /\ InFlight /\ Joined)'
  BY DEF TypeInv
<1> USE DEF PcOK, Threads, Goto, NotifyAll, NotifyOne, Publishing,
   WorkerJoined, gate, queues, local_frames
<1>3. CASE Owner
  <2>1. CASE StopJoin \/ StopClear \/ StartThreads
    BY <1>1, <2>1 DEF StopJoin, StopClear, StartThreads, TypeOK
  <2>2. CASE ~(StopJoin \/ StopClear \/ StartThreads)
    BY <1>1, <1>3, <2>2 DEF TypeOK, Owner, Call, Start, Stop, Enable, Disable,
       StopClose, StopNotify, StopJoinExecutor, StartReset, StartThrows,
       EnableSet, SendTransaction, SendPush, SendNotify, OwnerMoves,
       AwaitAcknowledgements, AcknowledgementCheck, AcknowledgementTimeout,
       AcknowledgementFlags, AcknowledgementPublisher, AcknowledgementTrue,
       DisableActiveCommands, DisableFlag, DisableGeneration, DisableRecovery,
       DisableDiscard, DisableFence, AfterDisable, RecordFailure, FailureFlag,
       FailureClose, FailureNotify, AfterFailure
  <2> QED
    BY <2>1, <2>2
<1>4. CASE Control
  BY <1>1, <1>4 DEF TypeOK, Control, ControlCall, QueueMotion,
     ApplyRecoveryUpdates, RejectBatch, ReadGeneration, MotionPush,
     RecoveryFlags, RecoveryPush, RecoveryAccept, RecoveryRefuse,
     ControlNotify, DisableActiveCommands, DisableFlag, DisableGeneration,
     DisableRecovery, DisableDiscard, DisableFence
<1>5. CASE Worker
  <2>1. CASE WorkerExtract
    BY <1>1, <2>1 DEF TypeOK, TransactionsOK, WorkerExtract,
       InFlightAfterExtraction
  <2>2. CASE ~WorkerExtract
    BY <1>1, <1>5, <2>2 DEF TypeOK, TransactionsOK, Worker, WorkerMoves,
       WorkerLock, WorkerCheck, WorkerSleep, SpuriousWakeup, WorkerExit,
       PublishTransaction, EmitTransaction, PublishActive, PublishRecheck,
       EmitActive, EmitThrows, PublishStamp, PublishComplete, PublishSettle,
       RecordFailure, FailureFlag, FailureClose, FailureNotify, AfterFailure
  <2> QED
    BY <2>1, <2>2
<1>6. CASE Executor
  BY <1>1, <1>6 DEF TypeOK, Executor, ExecutorMoves, ExecutorThrows,
     ExecutorExit, ContextShutdown, ContextClose, RecordFailure, FailureFlag,
     FailureClose, FailureNotify, AfterFailure
<1>7. CASE CallersRest
  BY <1>1, <1>7 DEF CallersRest, vars
<1> QED
  BY <1>3, <1>4, <1>5, <1>6, <1>7 DEF Next

\* TypeInv holds initially and is kept by every step, the stuttering one too.
LEMMA TypeInvInitially == Init => TypeInv
<1> SUFFICES ASSUME Init PROVE TypeInv
  OBVIOUS
<1>1. pc["owner"] = "idle" /\ pc["control"] = "idle"
      /\ pc["worker"] = "none" /\ pc["executor"] = "none"
  BY DEF Init, Threads
<1>2. PcOK
  <2>1. {"idle", "none"} \subseteq Locations
    BY DEF Locations, OwnerLocations, WorkerLocations
  <2>2. pc \in [Threads -> Locations]
    BY <2>1 DEF Init
  <2> QED
    BY <1>1, <2>2 DEF PcOK, OwnerLocations, ControlLocations, WorkerLocations,
       ExecutorLocations
<1>3. FlagsOK /\ CountersOK /\ ArgumentsOK
  BY DEF Init, FlagsOK, CountersOK, ArgumentsOK, NoUpdate
<1>4. TransactionsOK
  BY DEF Init, TransactionsOK
<1>5. FramesOK
  BY DEF Init, FramesOK, Slots, EmptyBatch, EmptySlots, Frames
<1> QED
  BY <1>1, <1>2, <1>3, <1>4, <1>5 DEF TypeInv, TypeOK, Publishing, WorkerJoined

LEMMA TypeInvStep == TypeInv /\ [Next]_vars => TypeInv'
<1>1. ASSUME TypeInv, Next PROVE TypeInv'
  <2>1. TypeOK'
    <3>1. CASE CallersRest
      BY <1>1, <3>1 DEF TypeInv, TypeOK, PcOK, FlagsOK, CountersOK,
         TransactionsOK, FramesOK, ArgumentsOK, CallersRest, vars, gate,
         failures, queues, local_frames, arguments, history
    <3> QED
      BY <1>1, <3>1, OwnerTypes, ControlTypes, WorkerTypes, ExecutorTypes DEF
         Next
  <2> QED
    BY <1>1, <2>1, PhaseStep
<1>2. ASSUME TypeInv, UNCHANGED vars PROVE TypeInv'
  BY <1>2 DEF TypeInv, TypeOK, PcOK, FlagsOK, CountersOK, TransactionsOK,
     FramesOK, ArgumentsOK, vars, gate, failures, queues, local_frames,
     arguments, history
<1> QED
  BY <1>1, <1>2

\* Every variable has its type in every reachable state; in particular the
\* worker never takes more from transactions_in_flight_ than it has added.
THEOREM TypeCorrect == Spec => []TypeOK
<1>1. TypeInv => TypeOK
  BY DEF TypeInv
<1> QED
  BY <1>1, TypeInvInitially, TypeInvStep, PTL DEF Spec

-----------------------------------------------------------------------------
(* Activations.                                                             *)

\* Nobody but the worker publishes: the other threads wake it, start it or join
\* it, leave its frames alone unless it is gone, and raise the fence only while
\* it is outside publisher_mutex_.
LEMMA OthersLeaveWorker ==
  ASSUME TypeInv, Owner \/ Control \/ Executor
  PROVE  /\ pc'["worker"] = pc["worker"] \/ pc'["worker"] \in {"lock", "none"}
         /\ UNCHANGED local_frames \/ pc'["worker"] = "none"
         /\ UNCHANGED last_motion
         /\ UNCHANGED fence \/ (fence' = active_generation' /\ PublisherMutexFree)
         /\ active_generation' >= active_generation
<1> USE DEF TypeInv, TypeOK, PcOK, CountersOK, Threads, Goto, NotifyAll,
   NotifyOne, gate, local_frames, history
<1>1. CASE Owner
  BY <1>1 DEF Owner, Call, Start, Stop, Enable, Disable, StopClose, StopNotify,
     StopJoin, StopClear, StopJoinExecutor, StartReset, StartThreads,
     StartThrows, EnableSet, SendTransaction, SendPush, SendNotify, OwnerMoves,
     AwaitAcknowledgements, AcknowledgementCheck, AcknowledgementTimeout,
     AcknowledgementFlags, AcknowledgementPublisher, AcknowledgementTrue,
     DisableActiveCommands, DisableFlag, DisableGeneration, DisableRecovery,
     DisableDiscard, DisableFence, RecordFailure, FailureFlag, FailureClose,
     FailureNotify
<1>2. CASE Control
  BY <1>2 DEF Control, ControlCall, QueueMotion, ApplyRecoveryUpdates,
     RejectBatch, ReadGeneration, MotionPush, RecoveryFlags, RecoveryPush,
     RecoveryAccept, RecoveryRefuse, ControlNotify, DisableActiveCommands,
     DisableFlag, DisableGeneration, DisableRecovery, DisableDiscard,
     DisableFence
<1>3. CASE Executor
  BY <1>3 DEF Executor, ExecutorMoves, ExecutorThrows, ExecutorExit,
     ContextShutdown, ContextClose, RecordFailure, FailureFlag, FailureClose,
     FailureNotify
<1> QED
  BY <1>1, <1>2, <1>3

\* At most one frame is next.
LEMMA UpcomingUnique ==
  ASSUME TypeOK,
         NEW k1 \in Kinds, NEW m1 \in Motors, Upcoming(k1, m1),
         NEW k2 \in Kinds, NEW m2 \in Motors, Upcoming(k2, m2)
  PROVE  k1 = k2 /\ m1 = m2
<1>1. k1 = k2
  BY DEF Upcoming, Kinds, EmptySlots
<1>2. m1 = m2
  BY <1>1, MotorCountAssumption DEF Upcoming, Motors
<1> QED
  BY <1>1, <1>2

\* The fence is at most the current generation, and the generation check of
\* publish_active, made inside publisher_mutex_, keeps the frame beyond it.
ActivationInv ==
  /\ fence <= active_generation
  /\ NoStaleActivation

LEMMA ActivationInvStep ==
  TypeInv /\ ActivationInv /\ [Next]_vars => ActivationInv'
<1> SUFFICES ASSUME TypeInv, ActivationInv, [Next]_vars
             PROVE  ActivationInv'
  OBVIOUS
<1>1. CASE Owner \/ Control \/ Executor
  <2>1. (fence <= active_generation)'
    BY <1>1, OthersLeaveWorker, TypeInvStep DEF TypeInv, TypeOK, CountersOK,
       ActivationInv
  <2>2. NoStaleActivation'
    BY <1>1, OthersLeaveWorker DEF ActivationInv, NoStaleActivation, Upcoming,
       PublisherMutexFree, local_frames
  <2> QED
    BY <2>1, <2>2 DEF ActivationInv
<1>2. CASE Worker
  <2>1. (fence <= active_generation)'
    BY <1>2 DEF ActivationInv, TypeInv, TypeOK, CountersOK, gate, history,
       Worker, WorkerMoves, WorkerLock, WorkerCheck, WorkerSleep,
       SpuriousWakeup, WorkerExit, WorkerExtract, PublishTransaction,
       EmitTransaction, PublishActive, PublishRecheck, EmitActive, EmitThrows,
       PublishStamp, PublishComplete, PublishSettle, RecordFailure,
       FailureFlag, FailureClose, FailureNotify
  <2>2. NoStaleActivation'
    <3>1. CASE PublishActive
      <4>1. PICK k \in Kinds, m \in Motors :
              /\ Upcoming(k, m)
              /\ WorkerMoves("publish",
                             IF GateOpen(batch[k][m]) THEN "recheck" ELSE "stamp")
        BY <3>1 DEF PublishActive
      <4>2. pc'["worker"] \in {"recheck", "emit"} => GateOpen(batch[k][m])
        BY <4>1 DEF WorkerMoves, Goto, TypeInv, TypeOK, PcOK, Threads
      <4>3. UNCHANGED <<local_frames, fence>>
        BY <4>1 DEF WorkerMoves, history
      <4>4. ASSUME NEW k2 \in Kinds, NEW m2 \in Motors, Upcoming(k2, m2)'
            PROVE  k2 = k /\ m2 = m
        BY <4>1, <4>3, <4>4, UpcomingUnique DEF Upcoming, local_frames, TypeInv
      <4> QED
        BY <4>2, <4>3, <4>4 DEF NoStaleActivation, GateOpen, ActivationInv,
           TypeInv, TypeOK, CountersOK, local_frames
    <3>2. CASE PublishRecheck
      BY <3>2 DEF PublishRecheck, WorkerMoves, ActivationInv,
         NoStaleActivation, Upcoming, Goto, TypeInv, TypeOK, PcOK, Threads,
         local_frames, history
    <3>3. CASE ~(PublishActive \/ PublishRecheck)
      <4>1. pc'["worker"] \notin {"recheck", "emit"}
        BY <1>2, <3>3 DEF TypeInv, TypeOK, PcOK, Threads, Goto, NotifyAll,
           AfterFailure, Worker, WorkerMoves, WorkerLock, WorkerCheck,
           WorkerSleep, SpuriousWakeup, WorkerExit, WorkerExtract,
           PublishTransaction, EmitTransaction, PublishActive, PublishRecheck,
           EmitActive, EmitThrows, PublishStamp, PublishComplete,
           PublishSettle, RecordFailure, FailureFlag, FailureClose,
           FailureNotify
      <4> QED
        BY <4>1 DEF NoStaleActivation
    <3> QED
      BY <3>1, <3>2, <3>3
  <2> QED
    BY <2>1, <2>2 DEF ActivationInv
<1>3. CASE UNCHANGED vars
  BY <1>3 DEF ActivationInv, NoStaleActivation, Upcoming, vars, gate, history,
     local_frames
<1> QED
  BY <1>1, <1>2, <1>3 DEF Next, CallersRest

\* After disable_active_commands has returned, no frame queued in an earlier
\* activation is published, whatever the worker had extracted and whatever
\* activations follow.
THEOREM OldActivationsStayClosed == Spec => []NoStaleActivation
<1>1. Init => ActivationInv
  BY DEF Init, ActivationInv, NoStaleActivation, Threads
<1>2. ActivationInv => NoStaleActivation
  BY DEF ActivationInv
<1> QED
  BY <1>1, <1>2, TypeInvInitially, TypeInvStep, ActivationInvStep, PTL DEF Spec

-----------------------------------------------------------------------------
(* The gate of a transport that has stopped or failed.                      *)

\* Where the owner has cleared the flag and not yet decided to set it again.
Closed ==
  {"dis_generation", "dis_recovery", "dis_discard", "dis_fence", "enable_set",
   "stop_join", "stop_clear", "stop_join_executor", "start_reset",
   "start_threads", "fail", "fail_close"}

\* The owner sets the flag in EnableSet alone, and takes every other step of a
\* lifecycle call with the flag clear.
GateInv ==
  /\ FailureClosesGate
  /\ pc["owner"] \in Closed => ~active_commands_enabled

LEMMA GateInvStep == TypeInv /\ GateInv /\ [Next]_vars => GateInv'
<1> SUFFICES ASSUME TypeInv, GateInv, [Next]_vars
             PROVE  GateInv'
  OBVIOUS
<1> USE DEF TypeInv, TypeOK, PcOK, FlagsOK, Threads, Goto, NotifyAll,
   NotifyOne, GateInv, FailureClosesGate, Closed, Failed, Serviceable, gate,
   failures
<1>1. CASE Owner
  <2>1. CASE DisableActiveCommands("owner") \/ RecordFailure("owner")
    BY <2>1 DEF DisableActiveCommands, DisableFlag, DisableGeneration,
       DisableRecovery, DisableDiscard, DisableFence, AfterDisable,
       RecordFailure, FailureFlag, FailureClose, FailureNotify, AfterFailure
  <2>2. CASE StartReset \/ StartThreads \/ StartThrows \/ EnableSet
    BY <2>2 DEF StartReset, StartThreads, StartThrows, EnableSet
  <2>3. CASE ~(DisableActiveCommands("owner") \/ RecordFailure("owner")
               \/ StartReset \/ StartThreads \/ StartThrows \/ EnableSet)
    BY <1>1, <2>3 DEF Owner, Call, Start, Stop, Enable, Disable, StopClose,
       StopNotify, StopJoin, StopClear, StopJoinExecutor, SendTransaction,
       SendPush, SendNotify, OwnerMoves, AwaitAcknowledgements,
       AcknowledgementCheck, AcknowledgementTimeout, AcknowledgementFlags,
       AcknowledgementPublisher, AcknowledgementTrue
  <2> QED
    BY <2>1, <2>2, <2>3
<1>2. CASE Control
  BY <1>2 DEF Control, ControlCall, QueueMotion, ApplyRecoveryUpdates,
     RejectBatch, ReadGeneration, MotionPush, RecoveryFlags, RecoveryPush,
     RecoveryAccept, RecoveryRefuse, ControlNotify, DisableActiveCommands,
     DisableFlag, DisableGeneration, DisableRecovery, DisableDiscard,
     DisableFence
<1>3. CASE Worker
  BY <1>3 DEF Worker, WorkerMoves, WorkerLock, WorkerCheck, WorkerSleep,
     SpuriousWakeup, WorkerExit, WorkerExtract, PublishTransaction,
     EmitTransaction, PublishActive, PublishRecheck, EmitActive, EmitThrows,
     PublishStamp, PublishComplete, PublishSettle, RecordFailure, FailureFlag,
     FailureClose, FailureNotify, AfterFailure
<1>4. CASE Executor
  BY <1>4 DEF Executor, ExecutorMoves, ExecutorThrows, ExecutorExit,
     ContextShutdown, ContextClose, RecordFailure, FailureFlag, FailureClose,
     FailureNotify, AfterFailure
<1>5. CASE UNCHANGED vars
  BY <1>5 DEF vars
<1> QED
  BY <1>1, <1>2, <1>3, <1>4, <1>5 DEF Next, CallersRest

\* Whatever fails and in whatever order, a transport that has stopped or failed
\* is left with active commands disabled.
THEOREM FailedTransportIsDisabled == Spec => []FailureClosesGate
<1>1. Init => GateInv
  BY DEF Init, GateInv, FailureClosesGate
<1>2. GateInv => FailureClosesGate
  BY DEF GateInv
<1> QED
  BY <1>1, <1>2, TypeInvInitially, TypeInvStep, GateInvStep, PTL DEF Spec

-----------------------------------------------------------------------------
(* The order of motion frames, and their hold during a recovery.            *)

\* No motion frame is younger than call c.
NoneSince(c) ==
  \A m \in Motors :
    /\ pending["motion"][m] # NoFrame => pending["motion"][m].call <= c
    /\ batch["motion"][m] # NoFrame => batch["motion"][m].call <= c
    /\ last_motion[m].call <= c

\* The control thread has begun a call and not yet used its number.
Unused ==
  {"motion_generation", "motion_push", "recovery_generation", "recovery_flags"}

\* The worker has no frame of its own.
Resting == {"none", "lock", "check", "sleep", "wait", "extract", "settle"}

\* For each motor the call numbers grow from the bus to the worker's batch to
\* the pending slot to the current call, and a hold begins after every frame
\* the worker has extracted.
CommandInv ==
  /\ NoneSince(IF pc["control"] \in Unused THEN call - 1 ELSE call)
  /\ \A m \in Motors :
       pending["motion"][m] # NoFrame =>
         /\ last_motion[m].call < pending["motion"][m].call
         /\ batch["motion"][m] # NoFrame =>
              batch["motion"][m].call < pending["motion"][m].call
  /\ \A m \in Motors :
       batch["motion"][m] # NoFrame =>
         \/ last_motion[m].call < batch["motion"][m].call
         \/ pc["worker"] = "stamp" /\ Upcoming("motion", m)
  /\ pc["worker"] \in Resting => batch = EmptyBatch
  /\ \A m \in Motors : hold[m] # 0 =>
       /\ recovery_active[m]
       /\ batch["motion"][m] # NoFrame => batch["motion"][m].call < hold[m]

\* A step that queues, extracts and publishes no motion frame and begins no hold.
Bystander ==
  /\ UNCHANGED last_motion
  /\ pending' = pending \/ pending' = EmptyBatch
  /\ UNCHANGED local_frames \/ batch' = EmptyBatch
  /\ UNCHANGED <<hold, recovery_active>> \/ hold' = [m \in Motors |-> 0]
  /\ \/ UNCHANGED call /\ (pc'["control"] \in Unused => pc["control"] \in Unused)
     \/ call' = call + 1 /\ pc["control"] \notin Unused
  /\ pc'["worker"] = "stamp" <=> pc["worker"] = "stamp"
  /\ pc'["worker"] \in Resting => pc["worker"] \in Resting \/ batch' = EmptyBatch

LEMMA BystanderStep ==
  ASSUME TypeInv, TypeInv', CommandInv, Bystander
  PROVE  CommandInv'
<1> USE DEF TypeInv, TypeOK, CountersOK, FramesOK, Slots, Kinds, Frames,
   CommandInv, NoneSince, EmptyBatch, EmptySlots, Bystander, local_frames
<1>1. EmptyBatch["motion"] = EmptySlots /\ \A m \in Motors : EmptySlots[m] = NoFrame
  OBVIOUS
<1>2. NoneSince(IF pc["control"] \in Unused THEN call - 1 ELSE call)'
  <2> DEFINE y == IF pc["control"] \in Unused THEN call - 1 ELSE call
             z == IF pc'["control"] \in Unused THEN call' - 1 ELSE call'
  <2>1. y \in Int /\ z \in Int /\ y <= z
    <3>1. call \in Int /\ call' \in Int
      OBVIOUS
    <3>2. \/ call' = call /\ (pc'["control"] \in Unused => pc["control"] \in Unused)
          \/ call' = call + 1 /\ pc["control"] \notin Unused
      OBVIOUS
    <3> HIDE DEF TypeInv, TypeOK, CommandInv, Bystander
    <3>3. CASE pc["control"] \in Unused
      <4>1. y = call - 1
        BY <3>3
      <4>2. z = call' \/ z = call' - 1
        OBVIOUS
      <4>3. call' = call
        BY <3>2, <3>3
      <4> HIDE DEF y, z
      <4> QED
        BY <3>1, <4>1, <4>2, <4>3
    <3>4. CASE pc["control"] \notin Unused
      <4>1. y = call
        BY <3>4
      <4>2. \/ z = call' /\ call' = call
            \/ z = call' /\ call' = call + 1
            \/ z = call' - 1 /\ call' = call + 1
        BY <3>2, <3>4
      <4> HIDE DEF y, z
      <4> QED
        BY <3>1, <4>1, <4>2
    <3> QED
      BY <3>3, <3>4
  <2>2. NoneSince(y)
    OBVIOUS
  <2>3. ASSUME NEW m \in Motors
        PROVE  /\ pending'["motion"][m] # NoFrame
                    => pending'["motion"][m].call <= z
               /\ batch'["motion"][m] # NoFrame
                    => batch'["motion"][m].call <= z
               /\ last_motion'[m].call <= z
    <3>1. /\ last_motion' = last_motion
          /\ pending'["motion"][m] \in {pending["motion"][m], NoFrame}
          /\ batch'["motion"][m] \in {batch["motion"][m], NoFrame}
      BY <1>1
    <3>2. /\ pending["motion"][m] \in Frames \cup {NoFrame}
          /\ batch["motion"][m] \in Frames \cup {NoFrame}
          /\ last_motion[m] \in Frames
      OBVIOUS
    <3> HIDE DEF TypeInv, TypeOK, CommandInv, Bystander, y, z
    <3> QED
      BY <2>1, <2>2, <3>1, <3>2
  <2> HIDE DEF TypeInv, TypeOK, CommandInv, Bystander
  <2> QED
    BY <2>3
<1>3. (\A m \in Motors :
         pending["motion"][m] # NoFrame =>
           /\ last_motion[m].call < pending["motion"][m].call
           /\ batch["motion"][m] # NoFrame =>
                batch["motion"][m].call < pending["motion"][m].call)'
  BY <1>1
<1>4. (\A m \in Motors :
         batch["motion"][m] # NoFrame =>
           \/ last_motion[m].call < batch["motion"][m].call
           \/ pc["worker"] = "stamp" /\ Upcoming("motion", m))'
  BY <1>1 DEF Upcoming
<1>5. (pc["worker"] \in Resting => batch = EmptyBatch)'
  OBVIOUS
<1>6. (\A m \in Motors : hold[m] # 0 =>
         /\ recovery_active[m]
         /\ batch["motion"][m] # NoFrame => batch["motion"][m].call < hold[m])'
  BY <1>1
<1> QED
  BY <1>2, <1>3, <1>4, <1>5, <1>6

LEMMA OthersAreBystanders ==
  ASSUME TypeInv, Owner \/ Executor
  PROVE  Bystander
<1> USE DEF TypeInv, TypeOK, PcOK, Threads, Goto, NotifyAll, NotifyOne
<1>1. CASE Owner
  <2> USE <1>1 DEF Owner, Call, Start, Stop, Enable, Disable, StopClose,
     StopNotify, StopJoin, StopClear, StopJoinExecutor, StartReset,
     StartThreads, StartThrows, EnableSet, SendTransaction, SendPush,
     SendNotify, OwnerMoves, AwaitAcknowledgements, AcknowledgementCheck,
     AcknowledgementTimeout, AcknowledgementFlags, AcknowledgementPublisher,
     AcknowledgementTrue, DisableActiveCommands, DisableFlag,
     DisableGeneration, DisableRecovery, DisableDiscard, DisableFence,
     RecordFailure, FailureFlag, FailureClose, FailureNotify
  <2>1. /\ UNCHANGED <<last_motion, call>>
        /\ UNCHANGED pending \/ pending' = EmptyBatch
        /\ UNCHANGED local_frames \/ batch' = EmptyBatch
        /\ UNCHANGED <<hold, recovery_active>> \/ hold' = [m \in Motors |-> 0]
    BY DEF queues, local_frames, arguments, history
  <2>2. pc'["control"] = pc["control"]
    BY DEF ControlLocations
  <2>3. /\ pc'["worker"] = "stamp" <=> pc["worker"] = "stamp"
        /\ pc'["worker"] \in Resting => pc["worker"] \in Resting \/ batch' = EmptyBatch
    BY DEF Resting, WorkerJoined
  <2> QED
    BY <2>1, <2>2, <2>3 DEF Bystander
<1>2. CASE Executor
  <2> USE <1>2 DEF Executor, ExecutorMoves, ExecutorThrows, ExecutorExit,
     ContextShutdown, ContextClose, RecordFailure, FailureFlag, FailureClose,
     FailureNotify
  <2>1. UNCHANGED <<last_motion, call, pending, local_frames, hold,
                    recovery_active>>
    BY DEF queues, arguments, history
  <2>2. pc'["control"] = pc["control"]
    BY DEF ControlLocations
  <2>3. /\ pc'["worker"] = "stamp" <=> pc["worker"] = "stamp"
        /\ pc'["worker"] \in Resting => pc["worker"] \in Resting
    BY DEF Resting
  <2> QED
    BY <2>1, <2>2, <2>3 DEF Bystander
<1> QED
  BY <1>1, <1>2

LEMMA CommandInvControl ==
  ASSUME TypeInv, TypeInv', CommandInv, Control
  PROVE  CommandInv'
<1>1. CASE MotionPush \/ RecoveryFlags \/ RecoveryPush
  <2> USE DEF TypeInv, TypeOK, PcOK, FlagsOK, CountersOK, FramesOK, Slots,
     Kinds, Frames, Threads, Goto, CommandInv, NoneSince, Unused, Resting,
     Upcoming, EmptyBatch, EmptySlots, gate, queues, local_frames, arguments,
     history
  <2>1. CASE MotionPush
    BY <2>1, NoFrameAssumption DEF MotionPush, Stamped
  <2>2. CASE RecoveryFlags
    BY <2>2 DEF RecoveryFlags, ArgumentsOK
  <2>3. CASE RecoveryPush
    BY <2>3 DEF RecoveryPush, RecoveryAccept, RecoveryRefuse, NoticeOfUpdates
  <2> QED
    BY <1>1, <2>1, <2>2, <2>3
<1>2. CASE QueueMotion \/ ApplyRecoveryUpdates \/ RejectBatch \/ ReadGeneration
           \/ ControlNotify \/ DisableActiveCommands("control")
  <2>1. Bystander
    BY <1>2 DEF TypeInv, TypeOK, PcOK, Threads, Goto, NotifyOne, Bystander,
       Unused, Resting, gate, queues, local_frames, arguments, history,
       ControlCall, QueueMotion, ApplyRecoveryUpdates, RejectBatch,
       ReadGeneration, ControlNotify, DisableActiveCommands, DisableFlag,
       DisableGeneration, DisableRecovery, DisableDiscard, DisableFence,
       AfterDisable
  <2> QED
    BY <2>1, BystanderStep
<1> QED
  BY <1>1, <1>2 DEF Control

LEMMA CommandInvWorker ==
  ASSUME TypeInv, TypeInv', CommandInv, Worker
  PROVE  CommandInv'
<1> USE DEF TypeInv, TypeOK, PcOK, FlagsOK, CountersOK, FramesOK, Slots, Kinds,
   Frames, Threads, Goto, NotifyAll, CommandInv, NoneSince, Unused, Resting,
   EmptyBatch, EmptySlots, gate, queues, local_frames, arguments, history
<1>1. CASE WorkerExtract
  BY <1>1 DEF WorkerExtract, TakenFrames, LeftFrames, Taken, Recovering
<1>2. CASE EmitActive
  BY <1>2 DEF EmitActive, Upcoming
<1>3. CASE PublishStamp
  BY <1>3, UpcomingUnique DEF PublishStamp
<1>4. CASE PublishRecheck
  BY <1>4 DEF PublishRecheck, WorkerMoves, Upcoming
<1>5. CASE PublishActive
  BY <1>5 DEF PublishActive, WorkerMoves, Upcoming
<1>6. CASE ~(WorkerExtract \/ EmitActive \/ PublishStamp \/ PublishRecheck
             \/ PublishActive)
  <2> USE <1>6 DEF Worker, WorkerMoves, WorkerLock, WorkerCheck, WorkerSleep,
     SpuriousWakeup, WorkerExit, PublishTransaction, EmitTransaction,
     PublishActive, EmitThrows, PublishComplete, PublishSettle, RecordFailure,
     FailureFlag, FailureClose, FailureNotify, AfterFailure
  <2>1. UNCHANGED <<last_motion, call, pending, batch, hold, recovery_active>>
    BY DEF queues, local_frames, arguments, history
  <2>2. pc'["control"] = pc["control"]
    BY DEF ControlLocations
  <2>3. /\ pc'["worker"] # "stamp" /\ pc["worker"] # "stamp"
        /\ pc'["worker"] \in Resting => pc["worker"] \in Resting \/ batch' = EmptyBatch
    BY <2>1 DEF Resting
  <2> QED
    BY <2>1, <2>2, <2>3, BystanderStep DEF Bystander
<1> QED
  BY <1>1, <1>2, <1>3, <1>4, <1>5, <1>6

LEMMA CommandInvStep == TypeInv /\ CommandInv /\ [Next]_vars => CommandInv'
<1>1. CASE UNCHANGED vars
  BY <1>1 DEF CommandInv, NoneSince, Upcoming, vars, queues, local_frames,
     arguments, history
<1> QED
  BY <1>1, TypeInvStep, OthersAreBystanders, BystanderStep, CommandInvControl,
     CommandInvWorker DEF Next, CallersRest

LEMMA CommandInvInitially == Init => CommandInv
BY DEF Init, CommandInv, NoneSince, Threads, EmptyBatch, EmptySlots, Kinds,
   Unused

\* For each motor the motion frames reach the bus in the order they were queued
\* and none twice, through any number of activations, recoveries and failures.
THEOREM CommandsMoveForward == Spec => []LatestCommandWins
<1>1. CommandInv => LatestCommandWins
  BY DEF CommandInv, LatestCommandWins, Upcoming
<1> QED
  BY <1>1, TypeInvInitially, TypeInvStep, CommandInvInitially, CommandInvStep,
     PTL DEF Spec

\* No motion frame queued since a motor's recovery began reaches the bus before
\* the recovery completes.
THEOREM RecoveryHoldsMotion == Spec => []MotionHeldDuringRecovery
<1>1. CommandInv => MotionHeldDuringRecovery
  BY DEF CommandInv, MotionHeldDuringRecovery, Upcoming
<1> QED
  BY <1>1, TypeInvInitially, TypeInvStep, CommandInvInitially, CommandInvStep,
     PTL DEF Spec

-----------------------------------------------------------------------------
(* The condition variable.                                                  *)

\* Where the worker has found nothing to do, and waits or is about to.
Asleep == {"sleep", "wait"}

\* While an activation is closing no frame of it can become sendable.
Discarded ==
  /\ pc["owner"] \in {"dis_fence", "enable_set"} => pending = EmptyBatch
  /\ active_commands_enabled
     /\ \/ pc["control"] \in {"dis_generation", "dis_recovery", "dis_discard", "dis_fence"}
        \/ /\ pc["control"] \in {"motion_push", "recovery_flags", "recovery_push"}
           /\ generation # active_generation
     => pending = EmptyBatch

\* The owner waits for the worker while it has transactions and at no other time,
\* so that the two never wait together and no notify_one is spent on the owner.
Waiting ==
  /\ pc["owner"] = "wait" => pending_transactions # <<>> \/ transactions_in_flight # 0
  /\ pc["worker"] \in Resting \ {"none"} => transactions_in_flight = 0
  /\ pc["worker"] \in Publishing => transactions_in_flight = Len(transactions)
  /\ pc["owner"] \in WorkerJoined \ {"stop_clear"} => transactions_in_flight = 0

\* Whoever gives the sleeping worker something to do has yet to notify it.
Noticed ==
  /\ pc["worker"] \in Asleep /\ pending_transactions # <<>>
       => pc["worker"] = "wait" /\ pc["owner"] = "send_notify"
  /\ pc["worker"] \in Asleep /\ ~running
       => /\ pc["worker"] = "wait"
          /\ \/ pc["owner"] \in {"stop_notify", "fail_notify"}
             \/ pc["executor"] = "fail_notify"
  /\ pc["worker"] \in Asleep /\ active_commands_enabled /\ HasSendableActiveFrame
       => \/ pc["control"] = "recovery_push"
          \/ /\ pc["worker"] = "wait"
             /\ pc["control"] \in {"motion_notify", "recovery_notify"}

LEMMA NothingSendableInEmpty ==
  ASSUME pending = EmptyBatch
  PROVE  ~HasSendableActiveFrame
BY DEF HasSendableActiveFrame, EmptyBatch, EmptySlots, Kinds

LEMMA DiscardedStep ==
  ASSUME TypeInv, GateInv, Discarded, Next
  PROVE  Discarded'
<1> USE DEF TypeInv, TypeOK, PcOK, FlagsOK, Threads, Goto, NotifyAll, NotifyOne, GateInv,
   Closed, Discarded, gate, queues, arguments
<1>1. CASE Owner
  <2>1. CASE DisableActiveCommands("owner") \/ RecordFailure("owner")
    BY <2>1 DEF DisableActiveCommands, DisableFlag, DisableGeneration,
       DisableRecovery, DisableDiscard, DisableFence, AfterDisable,
       RecordFailure, FailureFlag, FailureClose, FailureNotify, AfterFailure
  <2>2. CASE ~(DisableActiveCommands("owner") \/ RecordFailure("owner"))
    BY <1>1, <2>2 DEF Owner, Call, Start, Stop, Enable, Disable, StopClose,
       StopNotify, StopJoin, StopClear, StopJoinExecutor, StartReset, StartThreads,
       StartThrows, EnableSet, SendTransaction, SendPush, SendNotify, OwnerMoves,
       AwaitAcknowledgements, AcknowledgementCheck, AcknowledgementTimeout,
       AcknowledgementFlags, AcknowledgementPublisher, AcknowledgementTrue
  <2> QED BY <2>1, <2>2
<1>2. CASE Control
  <2>1. CASE DisableActiveCommands("control")
    BY <2>1 DEF DisableActiveCommands, DisableFlag, DisableGeneration,
       DisableRecovery, DisableDiscard, DisableFence, AfterDisable
  <2>2. CASE MotionPush \/ RecoveryPush
    BY <2>2 DEF MotionPush, RecoveryPush, RecoveryAccept, RecoveryRefuse,
       NoticeOfUpdates, GenerationIsCurrent
  <2>3. CASE QueueMotion \/ ApplyRecoveryUpdates \/ RejectBatch \/ ReadGeneration
             \/ RecoveryFlags \/ ControlNotify
    BY <2>3 DEF ControlCall, QueueMotion, ApplyRecoveryUpdates, RejectBatch,
       ReadGeneration, RecoveryFlags, ControlNotify
  <2> QED BY <1>2, <2>1, <2>2, <2>3 DEF Control
<1>3. CASE Worker
  <2>1. CASE WorkerExtract
    <3>1. pending = EmptyBatch => pending' = EmptyBatch
      BY <2>1 DEF WorkerExtract, LeftFrames, EmptyBatch, EmptySlots
    <3> QED BY <2>1, <3>1 DEF WorkerExtract
  <2>2. CASE ~WorkerExtract
    BY <1>3, <2>2 DEF Worker, WorkerMoves, WorkerLock, WorkerCheck, WorkerSleep,
       SpuriousWakeup, WorkerExit, PublishTransaction,
       EmitTransaction, PublishActive, PublishRecheck, EmitActive, EmitThrows,
       PublishStamp, PublishComplete, PublishSettle, RecordFailure, FailureFlag,
       FailureClose, FailureNotify, AfterFailure
  <2> QED BY <2>1, <2>2
<1>4. CASE Executor
  BY <1>4 DEF Executor, ExecutorMoves, ExecutorThrows, ExecutorExit,
     ContextShutdown, ContextClose, RecordFailure, FailureFlag, FailureClose,
     FailureNotify, AfterFailure
<1> QED BY <1>1, <1>2, <1>3, <1>4 DEF Next, CallersRest, vars

LEMMA WaitingStep ==
  ASSUME TypeInv, Waiting, Next
  PROVE  Waiting'
<1> USE DEF Threads, Goto, NotifyAll, NotifyOne, Waiting, queues, local_frames
<1>0. /\ DOMAIN pc = Threads /\ pc["owner"] \in OwnerLocations
      /\ pc["worker"] \in WorkerLocations /\ transactions_in_flight \in Nat
      /\ Len(pending_transactions) \in Nat
      /\ pending_transactions = <<>> <=> Len(pending_transactions) = 0
      /\ transactions = <<>> <=> Len(transactions) = 0
      /\ pc["owner"] \in WorkerJoined => pc["worker"] = "none"
  BY DEF TypeInv, TypeOK, PcOK, TransactionsOK
<1>1. CASE Owner
  <2>1. CASE StopJoin \/ StopClear \/ StopJoinExecutor \/ StartReset \/ StartThreads
             \/ StartThrows
    BY <1>0, <2>1 DEF StopJoin, StopClear, StopJoinExecutor, StartReset, StartThreads,
       StartThrows, Resting, Publishing, WorkerJoined
  <2>2. CASE AcknowledgementCheck \/ AcknowledgementTimeout
    BY <1>0, <2>2 DEF AcknowledgementCheck, AcknowledgementTimeout, OwnerMoves,
       AcknowledgementReady, Resting, Publishing, WorkerJoined
  <2>3. CASE SendPush
    BY <1>0, <2>3 DEF SendPush, Resting, Publishing, WorkerJoined
  <2>4. CASE DisableActiveCommands("owner") \/ RecordFailure("owner")
    BY <1>0, <2>4 DEF DisableActiveCommands, DisableFlag, DisableGeneration,
       DisableRecovery, DisableDiscard, DisableFence, AfterDisable,
       RecordFailure, FailureFlag, FailureClose, FailureNotify, AfterFailure,
       Resting, Publishing, WorkerJoined
  <2>5. CASE ~(StopJoin \/ StopClear \/ StopJoinExecutor \/ StartReset \/ StartThreads
               \/ StartThrows \/ AcknowledgementCheck \/ AcknowledgementTimeout
               \/ SendPush \/ DisableActiveCommands("owner") \/ RecordFailure("owner"))
    BY <1>0, <1>1, <2>5 DEF Owner, Call, Start, Stop, Enable, Disable, StopClose,
       StopNotify, EnableSet, SendTransaction, SendNotify, OwnerMoves,
       AwaitAcknowledgements, AcknowledgementFlags, AcknowledgementPublisher,
       AcknowledgementTrue, Resting, Publishing, WorkerJoined
  <2> QED BY <2>1, <2>2, <2>3, <2>4, <2>5
<1>2. CASE Control
  BY <1>0, <1>2 DEF Control, ControlCall, QueueMotion, ApplyRecoveryUpdates,
     RejectBatch, ReadGeneration, MotionPush, RecoveryFlags, RecoveryPush,
     RecoveryAccept, RecoveryRefuse, ControlNotify, DisableActiveCommands,
     DisableFlag, DisableGeneration, DisableRecovery, DisableDiscard,
     DisableFence, Resting, Publishing, WorkerJoined
<1>3. CASE Worker
  <2>1. CASE WorkerExtract
    BY <1>0, <2>1 DEF WorkerExtract, InFlightAfterExtraction, Resting, Publishing,
       WorkerJoined
  <2>2. CASE PublishComplete
    <3>1. /\ transactions_in_flight' = 0 /\ pc["worker"] = "publish"
          /\ UNCHANGED <<pending_transactions, transactions>>
          /\ pc'["worker"] = "settle"
          /\ \/ transactions = <<>> /\ pc'["owner"] = pc["owner"]
             \/ pc'["owner"] = IF pc["owner"] = "wait" THEN "lock" ELSE pc["owner"]
      BY <1>0, <2>2 DEF PublishComplete, Publishing
    <3> QED BY <1>0, <3>1 DEF Resting, Publishing, WorkerJoined
  <2>3. CASE ~(WorkerExtract \/ PublishComplete)
    BY <1>0, <1>3, <2>3 DEF Worker, WorkerMoves, WorkerLock, WorkerCheck, WorkerSleep,
       SpuriousWakeup, WorkerExit, PublishTransaction,
       EmitTransaction, PublishActive, PublishRecheck, EmitActive, EmitThrows,
       PublishStamp, PublishSettle, RecordFailure, FailureFlag,
       FailureClose, FailureNotify, AfterFailure, Resting, Publishing, WorkerJoined
  <2> QED BY <2>1, <2>2, <2>3
<1>4. CASE Executor
  BY <1>0, <1>4 DEF Executor, ExecutorMoves, ExecutorThrows, ExecutorExit,
     ContextShutdown, ContextClose, RecordFailure, FailureFlag, FailureClose,
     FailureNotify, AfterFailure, Resting, Publishing, WorkerJoined
<1> QED BY <1>1, <1>2, <1>3, <1>4 DEF Next, CallersRest, vars

\* Slots that stay, or are emptied, with the motors recovering as before, hold nothing
\* that was not sendable.
LEMMA SendableOnlyIfChanged ==
  ASSUME pending' = pending \/ pending' = EmptyBatch, UNCHANGED recovery_active
  PROVE  HasSendableActiveFrame' => HasSendableActiveFrame
BY DEF HasSendableActiveFrame, Recovering, EmptyBatch, EmptySlots, Kinds

LEMMA NoticedStep ==
  ASSUME TypeInv, GateInv, Discarded, Waiting, Noticed, Next
  PROVE  Noticed'
<1>0. /\ DOMAIN pc = Threads /\ pc["owner"] \in OwnerLocations
      /\ pc["worker"] \in WorkerLocations /\ pc["control"] \in ControlLocations
      /\ pc["executor"] \in ExecutorLocations
      /\ running \in BOOLEAN /\ active_commands_enabled \in BOOLEAN
      /\ Threads = {"owner", "control", "worker", "executor"}
      /\ pc["owner"] \in WorkerJoined => pc["worker"] = "none"
  BY DEF TypeInv, TypeOK, PcOK, FlagsOK, Threads
<1>1. pc["worker"] = "wait" => pc["owner"] # "wait"
  BY DEF Waiting, Noticed, Asleep, Resting
<1>2. CASE Owner
  <2>1. CASE DisableRecovery("owner")
    BY <1>0, <2>1 DEF DisableRecovery, GateInv, Closed, Noticed, Asleep, gate, queues, Goto
  <2>2. CASE EnableSet
    <3>1. ~HasSendableActiveFrame /\ ~HasSendableActiveFrame'
      BY <2>2, NothingSendableInEmpty, SendableOnlyIfChanged DEF EnableSet, Discarded, queues
    <3> QED BY <1>0, <2>2, <3>1 DEF EnableSet, Noticed, Asleep, queues, Goto
  <2>3. CASE StartThreads \/ StartThrows \/ StopJoin
    BY <1>0, <2>3 DEF StartThreads, StartThrows, StopJoin, WorkerJoined, Noticed, Asleep
  <2>4. CASE SendPush \/ StopClose \/ FailureClose("owner")
    <3>1. HasSendableActiveFrame' => HasSendableActiveFrame
      BY <2>4, SendableOnlyIfChanged DEF SendPush, StopClose, FailureClose, queues
    <3> QED BY <1>0, <2>4, <3>1 DEF SendPush, StopClose, StopMayClose, FailureClose,
               PendingMutexFree, Noticed, Asleep, queues, gate, Goto
  <2>5. CASE StopNotify \/ SendNotify \/ FailureNotify("owner")
    <3>1. HasSendableActiveFrame' => HasSendableActiveFrame
      BY <2>5, SendableOnlyIfChanged DEF StopNotify, SendNotify, FailureNotify, queues
    <3>2. pc["worker"] \in Asleep => pc["worker"] = "sleep" \/ pc'["worker"] = "lock"
      BY <1>0, <1>1, <2>5 DEF StopNotify, SendNotify, FailureNotify, NotifyAll, NotifyOne,
         Asleep, ControlLocations, ExecutorLocations
    <3>3. pc'["worker"] = pc["worker"] \/ pc'["worker"] = "lock"
      BY <1>0, <2>5 DEF StopNotify, SendNotify, FailureNotify, NotifyAll, NotifyOne, Goto
    <3>4. pc'["control"] = pc["control"]
      BY <1>0, <2>5 DEF StopNotify, SendNotify, FailureNotify, NotifyAll, NotifyOne, Goto,
         ControlLocations
    <3>5. UNCHANGED <<running, active_commands_enabled, pending_transactions>>
      BY <2>5 DEF StopNotify, SendNotify, FailureNotify, gate, queues
    <3> QED BY <3>1, <3>2, <3>3, <3>4, <3>5 DEF Noticed, Asleep
  <2>6. CASE ~(DisableRecovery("owner") \/ EnableSet \/ StartThreads \/ StartThrows
               \/ StopJoin \/ SendPush \/ StopClose \/ FailureClose("owner")
               \/ StopNotify \/ SendNotify \/ FailureNotify("owner"))
    <3> DEFINE Quiet ==
          /\ pending' = pending \/ pending' = EmptyBatch
          /\ UNCHANGED <<recovery_active, running>>
          /\ active_commands_enabled' => active_commands_enabled
          /\ pending_transactions' = pending_transactions \/ pending_transactions' = <<>>
          /\ \A t \in Threads \ {"owner"} : pc'[t] = pc[t] \/ pc'["worker"] = "none"
          /\ pc["owner"] \notin {"send_notify", "stop_notify", "fail_notify"}
    <3>1. ASSUME DisableActiveCommands("owner") \/ RecordFailure("owner") PROVE Quiet
      BY <1>0, <2>6, <3>1 DEF DisableActiveCommands, DisableFlag, DisableGeneration,
         DisableDiscard, DisableFence, RecordFailure, FailureFlag, gate, queues, Goto
    <3>2. ASSUME ~(DisableActiveCommands("owner") \/ RecordFailure("owner")) PROVE Quiet
      BY <1>0, <1>2, <2>6, <3>2 DEF Owner, Call, Start, Stop, Enable, Disable, StopClear,
         StopJoinExecutor, StartReset, SendTransaction, OwnerMoves,
         AwaitAcknowledgements, AcknowledgementCheck, AcknowledgementTimeout,
         AcknowledgementFlags, AcknowledgementPublisher, AcknowledgementTrue, gate,
         queues, Goto, WorkerJoined
    <3>3. Quiet BY <3>1, <3>2
    <3>4. HasSendableActiveFrame' => HasSendableActiveFrame
      BY <3>3, SendableOnlyIfChanged
    <3> QED BY <1>0, <3>3, <3>4 DEF Noticed, Asleep
  <2> QED BY <2>1, <2>2, <2>3, <2>4, <2>5, <2>6
<1>3. CASE Control
  <2>1. UNCHANGED <<running, pending_transactions>>
    BY <1>3 DEF Control, ControlCall, QueueMotion, ApplyRecoveryUpdates,
       RejectBatch, ReadGeneration, MotionPush, RecoveryFlags, RecoveryPush,
       RecoveryAccept, RecoveryRefuse, ControlNotify, DisableActiveCommands,
       DisableFlag, DisableGeneration, DisableRecovery, DisableDiscard, DisableFence,
       gate, queues
  <2>2. CASE ControlNotify
    <3>1. HasSendableActiveFrame' => HasSendableActiveFrame
      BY <2>2, SendableOnlyIfChanged DEF ControlNotify, queues
    <3>2. \/ pc'["worker"] = "lock"
          \/ pc["worker"] # "wait" /\ pc'["worker"] = pc["worker"]
      BY <1>0, <1>1, <2>2 DEF ControlNotify, NotifyOne, Goto, ControlLocations,
         ExecutorLocations
    <3>3. pc["control"] \in {"motion_notify", "recovery_notify"} /\ UNCHANGED gate
      BY <2>2 DEF ControlNotify
    <3> QED BY <2>1, <3>1, <3>2, <3>3 DEF Noticed, Asleep, gate
  <2>3. CASE RecoveryFlags
    BY <1>0, <2>1, <2>3 DEF RecoveryFlags, Noticed, Asleep, Goto, gate
  <2>4. CASE MotionPush
    <3>1. HasSendableActiveFrame' => HasSendableActiveFrame \/ pc'["control"] = "motion_notify"
      BY <1>0, <2>4, SendableOnlyIfChanged DEF MotionPush, Goto
    <3> QED BY <1>0, <2>1, <2>4, <3>1 DEF MotionPush, PendingMutexFree, Noticed, Asleep,
               Goto, gate
  <2>5. CASE RecoveryPush
    <3>1. CASE RecoveryAccept
      BY <1>0, <2>1, <2>5, <3>1 DEF RecoveryPush, RecoveryAccept, NoticeOfUpdates,
         PendingMutexFree, Noticed, Asleep, Goto, gate
    <3>2. CASE RecoveryRefuse
      <4>1. active_commands_enabled' => active_commands_enabled /\ pending = EmptyBatch
        BY <2>5, <3>2 DEF RecoveryPush, RecoveryRefuse, GenerationIsCurrent, Discarded, gate
      <4>2. ~(active_commands_enabled' /\ HasSendableActiveFrame')
        BY <3>2, <4>1 DEF RecoveryRefuse, HasSendableActiveFrame, EmptyBatch, EmptySlots,
           Kinds
      <4> QED BY <1>0, <2>1, <2>5, <3>2, <4>2 DEF RecoveryPush, RecoveryRefuse, Noticed,
                 Asleep, Goto, gate
    <3> QED BY <2>5, <3>1, <3>2 DEF RecoveryPush
  <2>6. CASE DisableActiveCommands("control")
    <3>1. active_commands_enabled' => active_commands_enabled
      BY <2>6 DEF DisableActiveCommands, DisableFlag, DisableGeneration,
         DisableRecovery, DisableDiscard, DisableFence, gate
    <3>2. active_commands_enabled' /\ HasSendableActiveFrame' => HasSendableActiveFrame
      <4>1. CASE DisableRecovery("control")
        <5>1. active_commands_enabled' => pending = EmptyBatch
          BY <3>1, <4>1 DEF DisableRecovery, Discarded
        <5> QED BY <4>1, <5>1 DEF DisableRecovery, HasSendableActiveFrame, EmptyBatch,
                   EmptySlots, Kinds, queues
      <4>2. CASE ~DisableRecovery("control")
        BY <2>6, <4>2, SendableOnlyIfChanged DEF DisableActiveCommands, DisableFlag,
           DisableGeneration, DisableDiscard, DisableFence, queues
      <4> QED BY <4>1, <4>2
    <3>3. /\ \A t \in Threads \ {"control"} : pc'[t] = pc[t]
          /\ pc["control"] \notin {"recovery_push", "motion_notify", "recovery_notify"}
      BY <1>0, <2>6 DEF DisableActiveCommands, DisableFlag, DisableGeneration,
         DisableRecovery, DisableDiscard, DisableFence, Goto
    <3> QED BY <1>0, <2>1, <3>1, <3>2, <3>3 DEF Noticed, Asleep
  <2>7. CASE QueueMotion \/ ApplyRecoveryUpdates \/ RejectBatch \/ ReadGeneration
    <3>1. /\ \A t \in Threads \ {"control"} : pc'[t] = pc[t]
          /\ pc["control"] \notin {"recovery_push", "motion_notify", "recovery_notify"}
          /\ UNCHANGED <<gate, pending, recovery_active>>
      BY <1>0, <2>7 DEF ControlCall, QueueMotion, ApplyRecoveryUpdates, RejectBatch,
         ReadGeneration, Goto, queues
    <3>2. HasSendableActiveFrame' => HasSendableActiveFrame
      BY <3>1, SendableOnlyIfChanged
    <3> QED BY <1>0, <2>1, <3>1, <3>2 DEF Noticed, Asleep, gate
  <2> QED BY <1>3, <2>2, <2>3, <2>4, <2>5, <2>6, <2>7 DEF Control
<1>4. CASE Worker
  <2>1. CASE WorkerCheck
    <3>1. HasSendableActiveFrame' => HasSendableActiveFrame
      BY <2>1, SendableOnlyIfChanged DEF WorkerCheck, WorkerMoves, queues
    <3> QED BY <1>0, <2>1, <3>1 DEF WorkerCheck, WorkerMoves, WorkerReady, Noticed, Asleep,
               Goto, gate, queues
  <2>2. CASE WorkerSleep
    <3>1. HasSendableActiveFrame' => HasSendableActiveFrame
      BY <2>2, SendableOnlyIfChanged DEF WorkerSleep, WorkerMoves, queues
    <3> QED BY <1>0, <2>2, <3>1 DEF WorkerSleep, WorkerMoves, Noticed, Asleep,
               Goto, gate, queues
  <2>3. CASE ~(WorkerCheck \/ WorkerSleep)
    <3>1. pc'["worker"] \notin Asleep
      BY <1>0, <1>4, <2>3 DEF Worker, WorkerMoves, WorkerLock, SpuriousWakeup, WorkerExit,
         WorkerExtract, PublishTransaction, EmitTransaction, PublishActive,
         PublishRecheck, EmitActive, EmitThrows, PublishStamp, PublishComplete,
         PublishSettle, RecordFailure, FailureFlag, FailureClose, FailureNotify,
         AfterFailure, Goto, NotifyAll, Asleep
    <3> QED BY <3>1 DEF Noticed
  <2> QED BY <2>1, <2>2, <2>3
<1>5. CASE Executor
  <2>1. HasSendableActiveFrame' => HasSendableActiveFrame
    BY <1>5, SendableOnlyIfChanged DEF Executor, ExecutorMoves, ExecutorThrows,
       ExecutorExit, ContextShutdown, ContextClose, RecordFailure, FailureFlag,
       FailureClose, FailureNotify, queues
  <2>2. CASE ContextClose \/ FailureNotify("executor")
    <3>1. pc'["worker"] = "lock" \/ (pc'["worker"] = pc["worker"] /\ pc["worker"] # "wait")
      BY <1>0, <2>2 DEF ContextClose, FailureNotify, NotifyAll
    <3>2. CASE ContextClose
      BY <1>0, <2>1, <3>1, <3>2 DEF ContextClose, PendingMutexFree, NotifyAll, Noticed,
         Asleep, queues
    <3>3. CASE FailureNotify("executor")
      BY <1>0, <2>1, <3>1, <3>3 DEF FailureNotify, NotifyAll, Noticed,
         Asleep, queues, gate, ControlLocations
    <3> QED BY <2>2, <3>2, <3>3
  <2>3. CASE ~(ContextClose \/ FailureNotify("executor"))
    BY <1>0, <1>5, <2>1, <2>3 DEF Executor, ExecutorMoves, ExecutorThrows,
       ExecutorExit, ContextShutdown, RecordFailure, FailureFlag, FailureClose,
       PendingMutexFree, Noticed, Asleep, Goto, gate, queues
  <2> QED BY <2>2, <2>3
<1>6. CASE CallersRest
  BY <1>6, SendableOnlyIfChanged DEF CallersRest, Noticed, vars, gate, queues
<1> QED BY <1>2, <1>3, <1>4, <1>5, <1>6 DEF Next

WakeInv == TypeInv /\ GateInv /\ Discarded /\ Waiting /\ Noticed

LEMMA WakeInvStep == WakeInv /\ [Next]_vars => WakeInv'
<1>1. CASE Next
  BY <1>1, TypeInvStep, GateInvStep, DiscardedStep, WaitingStep, NoticedStep DEF WakeInv
<1>2. CASE UNCHANGED vars
  BY <1>2, TypeInvStep, GateInvStep, SendableOnlyIfChanged
  DEF WakeInv, Discarded, Waiting, Noticed, vars, gate, queues, local_frames, arguments
<1> QED BY <1>1, <1>2

\* Whatever the threads do in between, the worker that waits while it has something to
\* do is about to be notified, and the notification is not spent on the owner.
THEOREM NoWakeupIsLost == Spec => []NoLostWakeup
<1>1. Init => WakeInv
  BY TypeInvInitially DEF Init, WakeInv, GateInv, FailureClosesGate, Discarded, Waiting,
     Noticed, Asleep, Threads, Resting, Publishing, WorkerJoined, Closed
<1>2. WakeInv => NoLostWakeup
  BY DEF WakeInv, Noticed, Asleep, NoLostWakeup, HasSendableActiveFrame, Recovering
<1> QED BY <1>1, <1>2, WakeInvStep, PTL DEF Spec
=============================================================================
