---------------------------- MODULE CanTransport ----------------------------
(***************************************************************************)
(* The transmit side of CanTransport (robstride_driver/src/                *)
(* can_transport.cpp): four threads around one deque of transactions, one  *)
(* slot per motor for motion and for recovery frames, two mutexes and one  *)
(* condition variable.                                                     *)
(*                                                                         *)
(*   owner     start, stop, enable/disable, send_transaction, wait for     *)
(*             acknowledgements (the hardware lifecycle)                   *)
(*   control   queue_motion_frames, apply_recovery_updates, and            *)
(*             disable_active_commands on a rejected batch (the control    *)
(*             loop's read and write callbacks)                            *)
(*   worker    transmit_pending_frames                                     *)
(*   executor  run_executor                                                *)
(*                                                                         *)
(* One step is one access to shared state.  A critical section that no     *)
(* other thread can look into is one step; the worker alone holds a mutex  *)
(* over several steps, so pc["worker"] says which mutexes are taken.       *)
(***************************************************************************)
EXTENDS Integers, Sequences

CONSTANTS
  MotorCount,       \* options_.motor_count
  NoFrame,          \* std::nullopt in a pending slot
  MaxGeneration,    \* bound: no call that ends an activation from here on
  MaxTransactions,  \* bound: calls to send_transaction
  MaxCalls,         \* bound: calls of the control thread
  MaxRuns,          \* bound: calls to start
  MayFail           \* whether ROS calls throw and the context shuts down

Motors == 1..MotorCount
Frames == [generation : Nat, call : Nat]
Kinds == {"recovery", "motion"}
Threads == {"owner", "control", "worker", "executor"}

ASSUME MotorCountAssumption == MotorCount \in Nat \ {0}
ASSUME NoFrameAssumption == NoFrame \notin Frames
ASSUME BoundsAssumption ==
  /\ MaxGeneration \in Nat
  /\ MaxTransactions \in Nat
  /\ MaxCalls \in Nat
  /\ MaxRuns \in Nat
  /\ MayFail \in BOOLEAN

VARIABLES
  running, worker_failed, executor_failed, context_shutdown,
  executor_stop_requested,
  active_commands_enabled, active_generation,
  recovery_active,          \* [Motors -> BOOLEAN]
  pending_transactions,     \* deque of transaction numbers
  pending,                  \* pending_recovery_frames_, pending_motion_frames_
  transactions_in_flight,
  active_work_progress,     \* active_work_progress_ns_ # 0
  transactions, handed,     \* the worker's swapped deque, and how many it has done
  batch,                    \* the worker's recovery_frames and motion_frames
  goal,                     \* the owner's call: "start", "stop", "enable",
                            \* "disable", or "none"
  call,                     \* number of the control thread's current call
  generation,               \* the generation that call has read
  update,                   \* that call's RecoveryUpdate per motor
  pc,
  runs, sent,               \* starts and transactions so far
  fence, last_transaction, dropped, last_motion, hold   \* history, see below

gate == <<running, active_commands_enabled, active_generation>>
failures == <<worker_failed, executor_failed, context_shutdown>>
queues == <<pending_transactions, pending, transactions_in_flight>>
local_frames == <<transactions, handed, batch>>
arguments == <<call, generation, update>>
history == <<fence, last_transaction, dropped, last_motion, hold>>
vars == <<gate, failures, executor_stop_requested, recovery_active, queues,
          active_work_progress, local_frames, goal, arguments, pc, runs, sent,
          history>>

EmptySlots == [m \in Motors |-> NoFrame]
EmptyBatch == [k \in Kinds |-> EmptySlots]
NoUpdate == [m \in Motors |-> "none"]

Init ==
  /\ running = FALSE
  /\ worker_failed = FALSE
  /\ executor_failed = FALSE
  /\ context_shutdown = FALSE
  /\ executor_stop_requested = FALSE
  /\ active_commands_enabled = FALSE
  /\ active_generation = 0
  /\ recovery_active = [m \in Motors |-> FALSE]
  /\ pending_transactions = <<>>
  /\ pending = EmptyBatch
  /\ transactions_in_flight = 0
  /\ active_work_progress = FALSE
  /\ transactions = <<>>
  /\ handed = 0
  /\ batch = EmptyBatch
  /\ goal = "none"
  /\ call = 0
  /\ generation = 0
  /\ update = NoUpdate
  /\ pc = [t \in Threads |-> IF t \in {"owner", "control"} THEN "idle" ELSE "none"]
  /\ runs = 0
  /\ sent = 0
  /\ fence = 0
  /\ last_transaction = 0
  /\ dropped = {}
  /\ last_motion = [m \in Motors |-> [generation |-> 0, call |-> 0]]
  /\ hold = [m \in Motors |-> 0]

-----------------------------------------------------------------------------
(* Mutexes and the condition variable. *)

\* Steps of the worker inside pending_mutex_ and inside publisher_mutex_.
PendingMutexFree == pc["worker"] \notin {"check", "sleep", "extract"}

\* Mutant of PublisherMutexFree: nobody waits for a publication in progress.
PublisherMutexIgnored == TRUE
PublisherMutexFree == pc["worker"] \notin {"emit_transaction", "recheck", "emit"}

Goto(t, location) == pc' = [pc EXCEPT ![t] = location]

\* A waiter on pending_condition_ is at "wait"; a notified one must take the
\* mutex again, at "lock".
NotifyAll(t, location) ==
  pc' = [u \in Threads |-> IF u = t THEN location
                           ELSE IF pc[u] = "wait" THEN "lock" ELSE pc[u]]

NotifyOne(t, location) ==
  \/ /\ \A u \in Threads : pc[u] # "wait"
     /\ Goto(t, location)
  \/ \E u \in Threads :
       /\ pc[u] = "wait"
       /\ pc' = [pc EXCEPT ![t] = location, ![u] = "lock"]

Failed == worker_failed \/ executor_failed \/ context_shutdown

\* Mutant: an activation is granted whatever the threads' state.
ServiceableAssumed == TRUE
Serviceable == running /\ ~Failed

\* Mutant: a motor counts as recovering only while its enable frame is queued.
RecoveringWhileQueued(m) == pending["recovery"][m] # NoFrame

\* recovery_active_[m], read by the extraction and again by publish_active.
Recovering(m) == recovery_active[m]

HasSendableActiveFrame ==
  \E m \in Motors :
    \/ pending["recovery"][m] # NoFrame
    \/ pending["motion"][m] # NoFrame /\ ~Recovering(m)

-----------------------------------------------------------------------------
(* disable_active_commands, run by the owner (lifecycle) or by the control  *)
(* thread (a rejected command batch).                                       *)

AfterDisable(t) ==
  IF t = "control" \/ goal = "disable" THEN "idle"
  ELSE IF goal = "enable" THEN "enable_set" ELSE "stop_join"

DisableFlag(t) ==
  /\ pc[t] = "dis_flag"
  /\ active_commands_enabled' = FALSE
  /\ Goto(t, "dis_generation")
  /\ UNCHANGED <<running, active_generation, failures, executor_stop_requested,
                 recovery_active, queues, active_work_progress, local_frames,
                 goal, arguments, runs, sent, history>>

DisableGeneration(t) ==
  /\ pc[t] = "dis_generation"
  /\ active_generation' = active_generation + 1
  /\ Goto(t, "dis_recovery")
  /\ UNCHANGED <<running, active_commands_enabled, failures,
                 executor_stop_requested, recovery_active, queues,
                 active_work_progress, local_frames, goal, arguments, runs,
                 sent, history>>

DisableRecovery(t) ==
  /\ pc[t] = "dis_recovery"
  /\ recovery_active' = [m \in Motors |-> FALSE]
  /\ hold' = [m \in Motors |-> 0]
  /\ Goto(t, "dis_discard")
  /\ UNCHANGED <<gate, failures, executor_stop_requested, queues,
                 active_work_progress, local_frames, goal, arguments, runs,
                 sent, fence, last_transaction, dropped, last_motion>>

DisableDiscard(t) ==
  /\ pc[t] = "dis_discard"
  /\ PendingMutexFree
  /\ pending' = EmptyBatch
  /\ Goto(t, "dis_fence")
  /\ UNCHANGED <<gate, failures, executor_stop_requested, recovery_active,
                 pending_transactions, transactions_in_flight,
                 active_work_progress, local_frames, goal, arguments, runs,
                 sent, history>>

\* The empty critical section on publisher_mutex_ waits for a publication in
\* progress; history: frames older than fence may not be published from here on.
DisableFence(t) ==
  /\ pc[t] = "dis_fence"
  /\ PublisherMutexFree
  /\ active_work_progress' = FALSE
  /\ fence' = active_generation
  /\ Goto(t, AfterDisable(t))
  /\ goal' = IF t = "owner" /\ goal = "disable" THEN "none" ELSE goal
  /\ UNCHANGED <<gate, failures, executor_stop_requested, recovery_active,
                 queues, local_frames, arguments, runs, sent,
                 last_transaction, dropped, last_motion, hold>>

DisableActiveCommands(t) ==
  \/ DisableFlag(t)
  \/ DisableGeneration(t)
  \/ DisableRecovery(t)
  \/ DisableDiscard(t)
  \/ DisableFence(t)

-----------------------------------------------------------------------------
(* record_failure, run by the owner (start throws), the worker (a publish    *)
(* throws) or the executor (a callback throws).                             *)

AfterFailure(t) ==
  IF t = "owner" THEN "stop_close" ELSE IF t = "worker" THEN "exit" ELSE "spin"

FailureFlag(t) ==
  /\ pc[t] = "fail"
  /\ IF t = "worker"
     THEN worker_failed' = TRUE /\ UNCHANGED executor_failed
     ELSE executor_failed' = TRUE /\ UNCHANGED worker_failed
  /\ Goto(t, "fail_close")
  /\ UNCHANGED <<gate, context_shutdown, executor_stop_requested,
                 recovery_active, queues, active_work_progress, local_frames,
                 goal, arguments, runs, sent, history>>

FailureClose(t) ==
  /\ pc[t] = "fail_close"
  /\ PendingMutexFree
  /\ active_commands_enabled' = FALSE
  /\ active_generation' = active_generation + 1
  /\ running' = FALSE
  /\ Goto(t, "fail_notify")
  /\ UNCHANGED <<failures, executor_stop_requested, recovery_active, queues,
                 active_work_progress, local_frames, goal, arguments, runs,
                 sent, history>>

FailureNotify(t) ==
  /\ pc[t] = "fail_notify"
  /\ executor_stop_requested' = TRUE
  /\ NotifyAll(t, AfterFailure(t))
  /\ UNCHANGED <<gate, failures, recovery_active, queues, active_work_progress,
                 local_frames, goal, arguments, runs, sent, history>>

RecordFailure(t) == FailureFlag(t) \/ FailureClose(t) \/ FailureNotify(t)

-----------------------------------------------------------------------------
(* The owner: lifecycle calls, "serialized by the owner".                   *)

\* start, stop, enable_active_commands and disable_active_commands begin here.
Call(name, location) ==
  /\ pc["owner"] = "idle"
  /\ active_generation < MaxGeneration
  /\ goal' = name
  /\ Goto("owner", location)
  /\ UNCHANGED <<gate, failures, executor_stop_requested, recovery_active,
                 queues, active_work_progress, local_frames, arguments, runs,
                 sent, history>>

Start ==
  /\ runs < MaxRuns
  /\ ~running \/ Failed
  /\ Call("start", "stop_close")

Stop == Call("stop", "stop_close")
Enable == Call("enable", "dis_flag")
Disable == Call("disable", "dis_flag")

\* running_ is cleared under pending_mutex_, where the worker evaluates its
\* wait predicate.  Mutant: it is cleared without the mutex.
StopTakesNoMutex == TRUE
StopMayClose == PendingMutexFree

StopClose ==
  /\ pc["owner"] = "stop_close"
  /\ StopMayClose
  /\ running' = FALSE
  /\ Goto("owner", "stop_notify")
  /\ UNCHANGED <<active_commands_enabled, active_generation, failures,
                 executor_stop_requested, recovery_active, queues,
                 active_work_progress, local_frames, goal, arguments, runs,
                 sent, history>>

StopNotify ==
  /\ pc["owner"] = "stop_notify"
  /\ executor_stop_requested' = TRUE
  /\ NotifyAll("owner", "dis_flag")
  /\ UNCHANGED <<gate, failures, recovery_active, queues, active_work_progress,
                 local_frames, goal, arguments, runs, sent, history>>

\* The worker's local frames die with its thread.
StopJoin ==
  /\ pc["owner"] = "stop_join"
  /\ pc["worker"] \in {"none", "exit"}
  /\ pc' = [pc EXCEPT !["owner"] = "stop_clear", !["worker"] = "none"]
  /\ transactions' = <<>>
  /\ handed' = 0
  /\ batch' = EmptyBatch
  /\ UNCHANGED <<gate, failures, executor_stop_requested, recovery_active,
                 queues, active_work_progress, goal, arguments, runs, sent,
                 history>>

\* History: the transactions a failed run has left are written off.
StopClear ==
  /\ pc["owner"] = "stop_clear"
  /\ pending_transactions' = <<>>
  /\ transactions_in_flight' = 0
  /\ pending' = EmptyBatch
  /\ last_transaction' = sent
  /\ dropped' = dropped \cup (last_transaction + 1)..sent
  /\ Goto("owner", "stop_join_executor")
  /\ UNCHANGED <<gate, failures, executor_stop_requested, recovery_active,
                 active_work_progress, local_frames, goal, arguments, runs,
                 sent, fence, last_motion, hold>>

StopJoinExecutor ==
  /\ pc["owner"] = "stop_join_executor"
  /\ pc["executor"] \in {"none", "exit"}
  /\ pc' = [pc EXCEPT !["owner"] = IF goal = "start" THEN "start_reset" ELSE "idle",
                      !["executor"] = "none"]
  /\ goal' = IF goal = "start" THEN goal ELSE "none"
  /\ UNCHANGED <<gate, failures, executor_stop_requested, recovery_active,
                 queues, active_work_progress, local_frames, arguments, runs,
                 sent, history>>

StartReset ==
  /\ pc["owner"] = "start_reset"
  /\ worker_failed' = FALSE
  /\ executor_failed' = FALSE
  /\ context_shutdown' = FALSE
  /\ executor_stop_requested' = FALSE
  /\ active_work_progress' = FALSE
  /\ Goto("owner", "start_threads")
  /\ UNCHANGED <<gate, recovery_active, queues, local_frames, goal, arguments,
                 runs, sent, history>>

StartThreads ==
  /\ pc["owner"] = "start_threads"
  /\ running' = TRUE
  /\ runs' = runs + 1
  /\ pc' = [pc EXCEPT !["owner"] = "idle", !["worker"] = "lock",
                      !["executor"] = "spin"]
  /\ goal' = "none"
  /\ UNCHANGED <<active_commands_enabled, active_generation, failures,
                 executor_stop_requested, recovery_active, queues,
                 active_work_progress, local_frames, arguments, sent, history>>

\* Node, publisher or thread creation throws: before running_ is set, after it,
\* or after the executor thread has started.
StartThrows ==
  /\ MayFail
  /\ pc["owner"] = "start_threads"
  /\ runs' = runs + 1
  /\ goal' = "stop"
  /\ \E set \in BOOLEAN, spawned \in BOOLEAN :
       /\ spawned => set
       /\ running' = set
       /\ pc' = [pc EXCEPT !["owner"] = "fail",
                           !["executor"] = IF spawned THEN "spin" ELSE "none"]
  /\ UNCHANGED <<active_commands_enabled, active_generation, failures,
                 executor_stop_requested, recovery_active, queues,
                 active_work_progress, local_frames, arguments, sent, history>>

EnableSet ==
  /\ pc["owner"] = "enable_set"
  /\ PendingMutexFree
  /\ active_commands_enabled' = Serviceable
  /\ goal' = "none"
  /\ Goto("owner", "idle")
  /\ UNCHANGED <<running, active_generation, failures, executor_stop_requested,
                 recovery_active, queues, active_work_progress, local_frames,
                 arguments, runs, sent, history>>

-----------------------------------------------------------------------------
(* The owner: transactions and their acknowledgement.                       *)

SendTransaction ==
  /\ pc["owner"] = "idle"
  /\ sent < MaxTransactions
  /\ running
  /\ Goto("owner", "send_push")
  /\ UNCHANGED <<gate, failures, executor_stop_requested, recovery_active,
                 queues, active_work_progress, local_frames, goal, arguments,
                 runs, sent, history>>

SendPush ==
  /\ pc["owner"] = "send_push"
  /\ PendingMutexFree
  /\ IF running
     THEN /\ pending_transactions' = Append(pending_transactions, sent + 1)
          /\ sent' = sent + 1
          /\ Goto("owner", "send_notify")
     ELSE /\ Goto("owner", "idle")
          /\ UNCHANGED <<pending_transactions, sent>>
  /\ UNCHANGED <<gate, failures, executor_stop_requested, recovery_active,
                 pending, transactions_in_flight, active_work_progress,
                 local_frames, goal, arguments, runs, history>>

SendNotify ==
  /\ pc["owner"] = "send_notify"
  /\ NotifyOne("owner", "idle")
  /\ UNCHANGED <<gate, failures, executor_stop_requested, recovery_active,
                 queues, active_work_progress, local_frames, goal, arguments,
                 runs, sent, history>>

\* wait_until's predicate.  Mutant: it looks at the deque alone.
AcknowledgementIgnoresInFlight == Failed \/ pending_transactions = <<>>
AcknowledgementReady ==
  Failed \/ (pending_transactions = <<>> /\ transactions_in_flight = 0)

OwnerMoves(from, to) ==
  /\ pc["owner"] = from
  /\ Goto("owner", to)
  /\ UNCHANGED <<gate, failures, executor_stop_requested, recovery_active,
                 queues, active_work_progress, local_frames, goal, arguments,
                 runs, sent, history>>

AwaitAcknowledgements == OwnerMoves("idle", "lock")

AcknowledgementCheck ==
  /\ PendingMutexFree
  /\ OwnerMoves("lock", IF AcknowledgementReady THEN "ack_flags" ELSE "wait")

\* The deadline passes: the predicate is evaluated once more.
AcknowledgementTimeout ==
  /\ PendingMutexFree
  /\ OwnerMoves("wait", IF AcknowledgementReady THEN "ack_flags" ELSE "idle")

AcknowledgementFlags ==
  OwnerMoves("ack_flags", IF Failed THEN "idle" ELSE "ack_publisher")

\* The DDS acknowledgement, outside this code, may not arrive in time.
AcknowledgementPublisher ==
  /\ PublisherMutexFree
  /\ \E to \in {"ack_true", "idle"} : OwnerMoves("ack_publisher", to)

AcknowledgementTrue == OwnerMoves("ack_true", "idle")

Owner ==
  \/ Start \/ Stop \/ Enable \/ Disable
  \/ StopClose \/ StopNotify \/ StopJoin \/ StopClear \/ StopJoinExecutor
  \/ StartReset \/ StartThreads \/ StartThrows \/ EnableSet
  \/ SendTransaction \/ SendPush \/ SendNotify
  \/ AwaitAcknowledgements \/ AcknowledgementCheck \/ AcknowledgementTimeout
  \/ AcknowledgementFlags \/ AcknowledgementPublisher \/ AcknowledgementTrue
  \/ DisableActiveCommands("owner")
  \/ RecordFailure("owner")

-----------------------------------------------------------------------------
(* The control thread.                                                      *)

ControlCall(location) ==
  /\ pc["control"] = "idle"
  /\ call < MaxCalls
  /\ call' = call + 1
  /\ Goto("control", location)
  /\ UNCHANGED <<gate, failures, executor_stop_requested, recovery_active,
                 queues, active_work_progress, local_frames, goal, generation,
                 runs, sent, history>>

\* A batch has a frame for every motor; the call returns at once when active
\* commands are disabled.
QueueMotion ==
  /\ active_commands_enabled
  /\ ControlCall("motion_generation")
  /\ UNCHANGED update

ApplyRecoveryUpdates ==
  /\ ControlCall("recovery_generation")
  /\ update' \in [Motors -> {"none", "send", "complete"}] \ {NoUpdate}

RejectBatch ==
  /\ active_generation < MaxGeneration
  /\ ControlCall("dis_flag")
  /\ UNCHANGED update

ReadGeneration ==
  /\ \/ pc["control"] = "motion_generation" /\ Goto("control", "motion_push")
     \/ pc["control"] = "recovery_generation" /\ Goto("control", "recovery_flags")
  /\ generation' = active_generation
  /\ UNCHANGED <<gate, failures, executor_stop_requested, recovery_active,
                 queues, active_work_progress, local_frames, goal, call, update,
                 runs, sent, history>>

GenerationIsCurrent ==
  active_commands_enabled /\ generation = active_generation

Stamped == [generation |-> generation, call |-> call]

MotionPush ==
  /\ pc["control"] = "motion_push"
  /\ PendingMutexFree
  /\ IF GenerationIsCurrent
     THEN /\ pending' = [pending EXCEPT !["motion"] = [m \in Motors |-> Stamped]]
          /\ active_work_progress' = TRUE
          /\ Goto("control", "motion_notify")
     ELSE /\ Goto("control", "idle")
          /\ UNCHANGED <<pending, active_work_progress>>
  /\ UNCHANGED <<gate, failures, executor_stop_requested, recovery_active,
                 pending_transactions, transactions_in_flight, local_frames,
                 goal, arguments, runs, sent, history>>

\* The flags are set before the mutex is taken; history: hold[m] is the call
\* that began to hold the motion of m.
RecoveryFlags ==
  /\ pc["control"] = "recovery_flags"
  /\ recovery_active' =
       [m \in Motors |-> IF update[m] = "none" THEN recovery_active[m]
                                               ELSE update[m] = "send"]
  /\ hold' = [m \in Motors |-> IF update[m] = "complete" THEN 0
                               ELSE IF update[m] = "send" /\ hold[m] = 0 THEN call
                               ELSE hold[m]]
  /\ Goto("control", "recovery_push")
  /\ UNCHANGED <<gate, failures, executor_stop_requested, queues,
                 active_work_progress, local_frames, goal, arguments, runs,
                 sent, fence, last_transaction, dropped, last_motion>>

\* The call notifies even when it has queued nothing, since a completed recovery
\* makes the motion held so far sendable.  Mutant: it notifies for a frame only.
NoticeOfFramesOnly ==
  IF \E m \in Motors : update[m] = "send" THEN "recovery_notify" ELSE "idle"
NoticeOfUpdates == "recovery_notify"

RecoveryAccept ==
  /\ GenerationIsCurrent
  /\ pending' = [pending EXCEPT !["recovery"] =
       [m \in Motors |-> IF update[m] = "send" THEN Stamped
                         ELSE IF update[m] = "complete" THEN NoFrame
                         ELSE pending["recovery"][m]]]
  /\ active_work_progress' =
       (active_work_progress \/ \E m \in Motors : update[m] = "send")
  /\ Goto("control", NoticeOfUpdates)
  /\ UNCHANGED <<recovery_active, hold>>

RecoveryRefuse ==
  /\ ~GenerationIsCurrent
  /\ recovery_active' = [m \in Motors |-> update[m] = "none" /\ recovery_active[m]]
  /\ hold' = [m \in Motors |-> IF update[m] = "none" THEN hold[m] ELSE 0]
  /\ Goto("control", "idle")
  /\ UNCHANGED <<pending, active_work_progress>>

RecoveryPush ==
  /\ pc["control"] = "recovery_push"
  /\ PendingMutexFree
  /\ RecoveryAccept \/ RecoveryRefuse
  /\ UNCHANGED <<gate, failures, executor_stop_requested, pending_transactions,
                 transactions_in_flight, local_frames, goal, arguments, runs,
                 sent, fence, last_transaction, dropped, last_motion>>

ControlNotify ==
  /\ pc["control"] \in {"motion_notify", "recovery_notify"}
  /\ NotifyOne("control", "idle")
  /\ UNCHANGED <<gate, failures, executor_stop_requested, recovery_active,
                 queues, active_work_progress, local_frames, goal, arguments,
                 runs, sent, history>>

Control ==
  \/ QueueMotion \/ ApplyRecoveryUpdates \/ RejectBatch
  \/ ReadGeneration \/ MotionPush \/ RecoveryFlags \/ RecoveryPush
  \/ ControlNotify
  \/ DisableActiveCommands("control")

-----------------------------------------------------------------------------
(* The worker.                                                              *)

WorkerMoves(from, to) ==
  /\ pc["worker"] = from
  /\ Goto("worker", to)
  /\ UNCHANGED <<gate, failures, executor_stop_requested, recovery_active,
                 queues, active_work_progress, local_frames, goal, arguments,
                 runs, sent, history>>

\* Its wait predicate.  Mutants: shutdown or transactions do not wake it.
WorkerIgnoresShutdown == pending_transactions # <<>> \/ HasSendableActiveFrame
WorkerIgnoresTransactions == ~running \/ HasSendableActiveFrame
WorkerReady ==
  ~running \/ pending_transactions # <<>> \/ HasSendableActiveFrame

WorkerLock == WorkerMoves("lock", "check")
WorkerCheck == WorkerMoves("check", IF WorkerReady THEN "extract" ELSE "sleep")

\* "sleep" is between the predicate and the wait, still inside pending_mutex_.
WorkerSleep == WorkerMoves("sleep", "wait")
SpuriousWakeup == WorkerMoves("wait", "lock")

\* Mutant: a stop leaves queued transactions behind.
WorkerStopsAtOnce == Failed \/ ~running
WorkerStops == Failed \/ (~running /\ pending_transactions = <<>>)

\* A motor whose motion is held keeps its frame in the slot.
Taken(kind, m) == running /\ (kind = "motion" => ~Recovering(m))

TakenFrames ==
  [k \in Kinds |-> [m \in Motors |-> IF Taken(k, m) THEN pending[k][m] ELSE NoFrame]]

\* Mutant: extraction copies the slots without resetting them.
LeftEverything == pending
LeftFrames ==
  [k \in Kinds |-> [m \in Motors |-> IF Taken(k, m) THEN NoFrame ELSE pending[k][m]]]

WorkerExit ==
  /\ WorkerStops
  /\ WorkerMoves("extract", "exit")

\* Mutant: the swapped deque is not counted as in flight.
InFlightForgotten == transactions_in_flight
InFlightAfterExtraction == transactions_in_flight + Len(pending_transactions)

WorkerExtract ==
  /\ pc["worker"] = "extract"
  /\ ~WorkerStops
  /\ transactions' = pending_transactions
  /\ handed' = 0
  /\ pending_transactions' = <<>>
  /\ transactions_in_flight' = InFlightAfterExtraction
  /\ batch' = TakenFrames
  /\ pending' = LeftFrames
  /\ Goto("worker", "publish")
  /\ UNCHANGED <<gate, failures, executor_stop_requested, recovery_active,
                 active_work_progress, goal, arguments, runs, sent, history>>

\* Recovery frames in motor order, then motion frames in motor order.
Upcoming(kind, m) ==
  /\ handed = Len(transactions)
  /\ batch[kind][m] # NoFrame
  /\ \A j \in 1..(m - 1) : batch[kind][j] = NoFrame
  /\ kind = "motion" => batch["recovery"] = EmptySlots

\* publish_active's checks inside publisher_mutex_.  Mutant: any frame passes an
\* enabled gate, whichever activation it was queued in.
GateIgnoresGeneration(frame) == Serviceable /\ active_commands_enabled
GateOpen(frame) ==
  /\ Serviceable
  /\ active_commands_enabled
  /\ frame.generation = active_generation

RecoveryAdmits(kind, m) == (kind = "recovery") = Recovering(m)

\* Mutant: transactions, like active frames, are skipped once stop has begun.
SkipsWhenStopping == Failed \/ ~running
SkipsTransactions == Failed

PublishTransaction ==
  /\ pc["worker"] = "publish"
  /\ handed < Len(transactions)
  /\ IF SkipsTransactions
     THEN handed' = handed + 1 /\ UNCHANGED pc
     ELSE Goto("worker", "emit_transaction") /\ UNCHANGED handed
  /\ UNCHANGED <<gate, failures, executor_stop_requested, recovery_active,
                 queues, active_work_progress, transactions, batch, goal,
                 arguments, runs, sent, history>>

\* publish_unlocked hands the frame to the publisher, or drops it when there is
\* no endpoint.  The worker goes on either way: only history tells the two apart.

EmitTransaction ==
  /\ pc["worker"] = "emit_transaction"
  /\ handed' = handed + 1
  /\ last_transaction' = transactions[handed + 1]
  /\ \E published \in BOOLEAN :
       dropped' = IF published THEN dropped ELSE dropped \cup {last_transaction'}
  /\ Goto("worker", "publish")
  /\ UNCHANGED <<gate, failures, executor_stop_requested, recovery_active,
                 queues, active_work_progress, transactions, batch, goal,
                 arguments, runs, sent, fence, last_motion, hold>>

PublishActive ==
  \E k \in Kinds, m \in Motors :
    /\ Upcoming(k, m)
    /\ WorkerMoves("publish", IF GateOpen(batch[k][m]) THEN "recheck" ELSE "stamp")

PublishRecheck ==
  \E k \in Kinds, m \in Motors :
    /\ Upcoming(k, m)
    /\ WorkerMoves("recheck", IF RecoveryAdmits(k, m) THEN "emit" ELSE "stamp")

EmitActive ==
  /\ pc["worker"] = "emit"
  /\ \E k \in Kinds, m \in Motors, published \in BOOLEAN :
       /\ Upcoming(k, m)
       /\ last_motion' = IF k = "motion" /\ published
                         THEN [last_motion EXCEPT ![m] = batch[k][m]]
                         ELSE last_motion
  /\ Goto("worker", "stamp")
  /\ UNCHANGED <<gate, failures, executor_stop_requested, recovery_active,
                 queues, active_work_progress, local_frames, goal, arguments,
                 runs, sent, fence, last_transaction, dropped, hold>>

\* frame_sink_, the endpoint probe or the ROS publisher throws.
EmitThrows ==
  /\ MayFail
  /\ WorkerMoves("emit_transaction", "fail") \/ WorkerMoves("emit", "fail")

PublishStamp ==
  /\ pc["worker"] = "stamp"
  /\ active_work_progress' = TRUE
  /\ \E k \in Kinds, m \in Motors :
       /\ Upcoming(k, m)
       /\ batch' = [batch EXCEPT ![k] = [@ EXCEPT ![m] = NoFrame]]
  /\ Goto("worker", "publish")
  /\ UNCHANGED <<gate, failures, executor_stop_requested, recovery_active,
                 queues, transactions, handed, goal, arguments, runs, sent,
                 history>>

PublishComplete ==
  /\ pc["worker"] = "publish"
  /\ handed = Len(transactions)
  /\ batch = EmptyBatch
  /\ IF transactions = <<>> THEN Goto("worker", "settle")
                            ELSE NotifyAll("worker", "settle")
  /\ transactions_in_flight' = transactions_in_flight - Len(transactions)
  /\ UNCHANGED <<gate, failures, executor_stop_requested, recovery_active,
                 pending_transactions, pending, active_work_progress,
                 local_frames, goal, arguments, runs, sent, history>>

PublishSettle ==
  /\ pc["worker"] = "settle"
  /\ active_work_progress' = (active_work_progress /\ HasSendableActiveFrame)
  /\ Goto("worker", "lock")
  /\ UNCHANGED <<gate, failures, executor_stop_requested, recovery_active,
                 queues, local_frames, goal, arguments, runs, sent, history>>

Worker ==
  \/ WorkerLock \/ WorkerCheck \/ WorkerSleep \/ SpuriousWakeup
  \/ WorkerExit \/ WorkerExtract
  \/ PublishTransaction \/ EmitTransaction
  \/ PublishActive \/ PublishRecheck \/ EmitActive \/ EmitThrows
  \/ PublishStamp \/ PublishComplete \/ PublishSettle
  \/ RecordFailure("worker")

-----------------------------------------------------------------------------
(* The executor.                                                            *)

ExecutorMoves(from, to) ==
  /\ pc["executor"] = from
  /\ Goto("executor", to)
  /\ UNCHANGED <<gate, failures, executor_stop_requested, recovery_active,
                 queues, active_work_progress, local_frames, goal, arguments,
                 runs, sent, history>>

\* A subscription or timer callback throws, or spin_once does.
ExecutorThrows == MayFail /\ ~executor_failed /\ ExecutorMoves("spin", "fail")

ExecutorExit == executor_stop_requested /\ ExecutorMoves("spin", "exit")

ContextShutdown ==
  /\ MayFail
  /\ pc["executor"] = "spin"
  /\ context_shutdown' = TRUE
  /\ Goto("executor", "context_close")
  /\ UNCHANGED <<gate, worker_failed, executor_failed, executor_stop_requested,
                 recovery_active, queues, active_work_progress, local_frames,
                 goal, arguments, runs, sent, history>>

ContextClose ==
  /\ pc["executor"] = "context_close"
  /\ PendingMutexFree
  /\ active_commands_enabled' = FALSE
  /\ running' = FALSE
  /\ NotifyAll("executor", "exit")
  /\ UNCHANGED <<active_generation, failures, executor_stop_requested,
                 recovery_active, queues, active_work_progress, local_frames,
                 goal, arguments, runs, sent, history>>

Executor ==
  \/ ExecutorThrows \/ ExecutorExit \/ ContextShutdown \/ ContextClose
  \/ RecordFailure("executor")

\* Neither caller has to make another call.
CallersRest == pc["owner"] = "idle" /\ pc["control"] = "idle" /\ UNCHANGED vars

Next == Owner \/ Control \/ Worker \/ Executor \/ CallersRest

Spec == Init /\ [][Next]_vars

-----------------------------------------------------------------------------
(* Fairness: a thread inside a call goes on, mutexes starve nobody, waits    *)
(* with a deadline end, and the publisher returns.  No caller has to make a  *)
(* call, and nothing has to fail.                                           *)

OwnerGoesOn ==
  \/ StopClose \/ StopNotify \/ StopJoin \/ StopClear \/ StopJoinExecutor
  \/ StartReset \/ StartThreads \/ EnableSet \/ SendPush \/ SendNotify
  \/ AcknowledgementCheck \/ AcknowledgementTimeout \/ AcknowledgementFlags
  \/ AcknowledgementPublisher \/ AcknowledgementTrue
  \/ DisableActiveCommands("owner") \/ RecordFailure("owner")

ControlGoesOn ==
  \/ ReadGeneration \/ MotionPush \/ RecoveryFlags \/ RecoveryPush
  \/ ControlNotify \/ DisableActiveCommands("control")

WorkerGoesOn ==
  \/ WorkerLock \/ WorkerCheck \/ WorkerSleep \/ WorkerExit \/ WorkerExtract
  \/ PublishTransaction \/ EmitTransaction
  \/ PublishActive \/ PublishRecheck \/ EmitActive
  \/ PublishStamp \/ PublishComplete \/ PublishSettle
  \/ RecordFailure("worker")

ExecutorGoesOn == ExecutorExit \/ ContextClose \/ RecordFailure("executor")

Fairness ==
  /\ SF_vars(OwnerGoesOn)
  /\ SF_vars(ControlGoesOn)
  /\ WF_vars(WorkerGoesOn)
  /\ SF_vars(ExecutorGoesOn)

FairSpec == Spec /\ Fairness

-----------------------------------------------------------------------------
(* Properties.                                                              *)

OwnerLocations ==
  {"idle", "dis_flag", "dis_generation", "dis_recovery", "dis_discard",
   "dis_fence", "enable_set", "stop_close", "stop_notify", "stop_join",
   "stop_clear", "stop_join_executor", "start_reset", "start_threads",
   "fail", "fail_close", "fail_notify", "send_push", "send_notify",
   "lock", "wait", "ack_flags", "ack_publisher", "ack_true"}

ControlLocations ==
  {"idle", "dis_flag", "dis_generation", "dis_recovery", "dis_discard",
   "dis_fence", "motion_generation", "motion_push", "motion_notify",
   "recovery_generation", "recovery_flags", "recovery_push", "recovery_notify"}

WorkerLocations ==
  {"none", "lock", "check", "sleep", "wait", "extract", "publish",
   "emit_transaction", "recheck", "emit", "stamp", "settle",
   "fail", "fail_close", "fail_notify", "exit"}

ExecutorLocations ==
  {"none", "spin", "fail", "fail_close", "fail_notify", "context_close", "exit"}

Locations ==
  OwnerLocations \cup ControlLocations \cup WorkerLocations \cup ExecutorLocations

Slots == [Kinds -> [Motors -> Frames \cup {NoFrame}]]

PcOK ==
  /\ pc \in [Threads -> Locations]
  /\ pc["owner"] \in OwnerLocations
  /\ pc["control"] \in ControlLocations
  /\ pc["worker"] \in WorkerLocations
  /\ pc["executor"] \in ExecutorLocations

FlagsOK ==
  /\ running \in BOOLEAN
  /\ worker_failed \in BOOLEAN
  /\ executor_failed \in BOOLEAN
  /\ context_shutdown \in BOOLEAN
  /\ executor_stop_requested \in BOOLEAN
  /\ active_commands_enabled \in BOOLEAN
  /\ active_work_progress \in BOOLEAN
  /\ recovery_active \in [Motors -> BOOLEAN]

CountersOK ==
  /\ active_generation \in Nat
  /\ call \in Nat
  /\ generation \in Nat
  /\ runs \in Nat
  /\ sent \in Nat
  /\ fence \in Nat
  /\ last_transaction \in Nat
  /\ dropped \in SUBSET Nat
  /\ hold \in [Motors -> Nat]

TransactionsOK ==
  /\ pending_transactions \in Seq(Nat)
  /\ transactions \in Seq(Nat)
  /\ handed \in 0..Len(transactions)
  /\ transactions_in_flight \in Nat

FramesOK ==
  /\ pending \in Slots
  /\ batch \in Slots
  /\ last_motion \in [Motors -> Frames]

ArgumentsOK ==
  /\ goal \in {"none", "start", "stop", "enable", "disable"}
  /\ update \in [Motors -> {"none", "send", "complete"}]

\* Every variable has its type; in particular transactions_in_flight, a size_t,
\* never wraps below zero.
TypeOK ==
  PcOK /\ FlagsOK /\ CountersOK /\ TransactionsOK /\ FramesOK /\ ArgumentsOK

\* Once disable_active_commands has returned, no motion or recovery frame of an
\* earlier activation reaches the bus, even one the worker had extracted before
\* and even after a later enable_active_commands.
NoStaleActivation ==
  \A k \in Kinds, m \in Motors :
    pc["worker"] \in {"recheck", "emit"} /\ Upcoming(k, m)
      => batch[k][m].generation >= fence

\* Without a failure every transaction leaves the worker's hands once, published
\* or dropped for want of an endpoint, in the order of the send_transaction calls:
\* what the worker and the deque hold is exactly what has been sent and not left.
TransactionsInOrder ==
  ~Failed =>
    SubSeq(transactions, handed + 1, Len(transactions)) \o pending_transactions
      = [i \in 1..(sent - last_transaction) |-> last_transaction + i]

\* The transactions that frame_sink_ or the publisher has really been given; the
\* others up to last_transaction were dropped without an endpoint or written off.
Published == (1..last_transaction) \ dropped

\* wait_for_transaction_acknowledgements returns true only when nothing sent
\* before is still on its way: each transaction was published, or dropped without
\* an endpoint or by a stop after a failure.  It cannot promise more, since it
\* looks for an endpoint when it waits and not when the worker publishes.
AckMeansPublishedOrDropped ==
  pc["owner"] = "ack_true" =>
    \A i \in 1..sent : i \in Published \/ i \in dropped

\* stop joins a worker that has not failed only after it has published, or
\* dropped without an endpoint, every transaction queued before stop: stop itself
\* discards no stop frame.
StopDrainsTransactions ==
  pc["owner"] = "stop_clear" /\ ~Failed => last_transaction = sent

\* While a motor recovers, motion queued since the recovery began is held: only
\* a frame queued before it, whose checks were already passed, may still go out.
MotionHeldDuringRecovery ==
  \A m \in Motors :
    /\ pc["worker"] = "emit"
    /\ Upcoming("motion", m)
    /\ hold[m] # 0
    => batch["motion"][m].call < hold[m]

\* The motion frames of a motor reach the bus in the order they were queued and
\* none twice: a newer command is never followed by an older one.
LatestCommandWins ==
  \A m \in Motors :
    pc["worker"] = "emit" /\ Upcoming("motion", m)
      => batch["motion"][m].call > last_motion[m].call

\* The worker does not wait while it has something to do: whoever gave it work,
\* or stopped it, has yet to notify.  The condition variable is shared with the
\* owner's wait, so a notify_one could be spent on the wrong thread.
NoLostWakeup ==
  /\ pc["worker"] = "wait"
  /\ \/ ~running
     \/ pending_transactions # <<>>
     \/ /\ active_commands_enabled
        /\ \E m \in Motors :
             \/ pending["recovery"][m] # NoFrame
             \/ pending["motion"][m] # NoFrame /\ ~recovery_active[m]
  => \/ pc["owner"] \in {"stop_notify", "send_notify", "fail_notify"}
     \/ pc["control"] \in {"motion_notify", "recovery_push", "recovery_notify"}
     \/ pc["executor"] = "fail_notify"

\* Active commands are never left enabled on a transport that has stopped or
\* failed: the thread that stopped it is about to clear the flag, and an
\* enable_active_commands in between does not set it for good.
FailureClosesGate ==
  active_commands_enabled /\ (Failed \/ ~running)
    => \/ pc["owner"] \in {"stop_notify", "dis_flag", "fail_close"}
       \/ pc["worker"] = "fail_close"
       \/ pc["executor"] \in {"fail_close", "context_close"}

\* The threads, queues and locks together keep the promise of CommandBus.
Bus == INSTANCE CommandBus WITH
  floor <- fence, failed <- Failed, handed <- last_transaction,
  lost <- dropped, last <- last_motion

ImplementsCommandBus == Bus!Spec

\* stop and a restarting start return: neither join waits for ever.
StopReturns == pc["owner"] = "stop_close" ~> pc["owner"] = "idle"

\* A transaction is published or dropped without an endpoint, or the transport
\* has failed: none waits in the deque for ever.
TransactionsAreHandled ==
  \A i \in 1..MaxTransactions :
    sent >= i ~> (last_transaction >= i \/ Failed)

\* A queued motion frame leaves its slot unless its motor is recovering: motion
\* held during a recovery goes out when the recovery completes.
HeldMotionResumes ==
  \A m \in Motors :
    pending["motion"][m] # NoFrame
      ~> (pending["motion"][m] = NoFrame \/ recovery_active[m] \/ Failed)

=============================================================================
