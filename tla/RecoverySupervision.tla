------------------------ MODULE RecoverySupervision ------------------------
(***************************************************************************)
(* The supervision of active hardware: update_state and send_commands of   *)
(* RobStrideDriver (robstride_driver/src/driver.cpp), the RecoveryState of *)
(* each joint, and the clocks by which CanTransport::health tells a slow   *)
(* transmit path from a dead one.                                          *)
(*                                                                         *)
(* Time is counted in ticks.  The control loop makes one read and one      *)
(* write in every tick; the worker does at once what it has to do, unless  *)
(* the publisher blocks, which may take any number of ticks.               *)
(***************************************************************************)
EXTENDS Integers

CONSTANTS
  MotorCount,
  RecoveryTimeout,   \* settings_.recovery_timeout
  RetryInterval,     \* settings_.recovery_retry_interval
  TransmitTimeout,   \* settings_.transmit_failure_timeout
  FeedbackTimeout,   \* settings_.feedback_timeout
  MaxTime            \* bound: no tick from here on

Motors == 1..MotorCount
Kinds == {"recovery", "motion"}

\* What parse_driver_config accepts.
ASSUME SettingsAssumption ==
  /\ MotorCount \in Nat \ {0}
  /\ RecoveryTimeout \in Nat \ {0}
  /\ RetryInterval \in 1..RecoveryTimeout
  /\ TransmitTimeout \in Nat \ {0}
  /\ FeedbackTimeout \in Nat \ {0}
  /\ MaxTime \in Nat \ {0}

VARIABLES
  now,
  phase,             \* of the control loop, see Phases
  error,             \* what the last read or write returned ERROR for
  mode, heard,       \* feedback_status.mode and .timestamp per motor
  recovery,          \* joint.recovery per motor
  recovery_active,   \* the transport's flag per motor
  pending,           \* the transport's slots that hold a frame, per kind
  batch,             \* frames the worker has taken and not yet dealt with
  working,           \* the worker is between extraction and the end of the batch
  publishing,        \* the worker is inside the publisher
  progress,          \* active_work_progress_ns_, 0 for none
  bridge_available, unavailable_since,
  out_since,         \* history: first read of this episode to see it out of Run
  entered,           \* history: when the worker last entered the publisher
  last_delivery      \* history: when a frame last found an endpoint

driver == <<error, recovery>>
feedback == <<mode, heard>>
endpoint == <<bridge_available, unavailable_since>>
worker == <<batch, working, publishing>>
vars == <<now, phase, driver, feedback, recovery_active, pending, worker,
          progress, endpoint, out_since, entered, last_delivery>>

Idle == [active |-> FALSE, attempts |-> 0, started_at |-> 0, last_attempt_at |-> 0]
NoFrames == [k \in Kinds |-> {}]

Init ==
  /\ now = 1
  /\ phase = "stopped"
  /\ error = "none"
  /\ mode = [m \in Motors |-> "reset"]
  /\ heard = [m \in Motors |-> 0]
  /\ recovery = [m \in Motors |-> Idle]
  /\ recovery_active = [m \in Motors |-> FALSE]
  /\ pending = NoFrames
  /\ batch = NoFrames
  /\ working = FALSE
  /\ publishing = FALSE
  /\ progress = 0
  /\ bridge_available = FALSE
  /\ unavailable_since = 0
  /\ out_since = [m \in Motors |-> 0]
  /\ entered = 0
  /\ last_delivery = 0

-----------------------------------------------------------------------------
(* RecoveryState::update, joint by joint.                                   *)

\* Mutant: each call restarts the clock of the recovery.
BegunAnew(r) == [r EXCEPT !.active = TRUE, !.started_at = now]
Begun(r) == IF r.active THEN r ELSE [r EXCEPT !.active = TRUE, !.started_at = now]

Expired(r) == now - r.started_at >= RecoveryTimeout

\* Mutant: an enable frame is due at every read.
AlwaysDue(r) == TRUE
Due(r) == r.attempts = 0 \/ now - r.last_attempt_at >= RetryInterval

Action(m) ==
  LET r == Begun(recovery[m]) IN
  IF mode[m] = "run" THEN IF recovery[m].active THEN "recovered" ELSE "none"
  ELSE IF Expired(r) THEN "failed"
  ELSE IF Due(r) THEN "send_enable" ELSE "none"

Updated(m) ==
  LET r == Begun(recovery[m]) IN
  IF mode[m] = "run" THEN Idle
  ELSE IF Action(m) = "send_enable"
       THEN [r EXCEPT !.attempts = @ + 1, !.last_attempt_at = now]
       ELSE r

-----------------------------------------------------------------------------
(* The control loop.                                                        *)

\* CanTransport::health, as far as it depends on clocks.
HealthError ==
  IF ~bridge_available
  THEN IF now - unavailable_since >= TransmitTimeout
       THEN "bridge_unavailable" ELSE "none"
  ELSE IF progress > 0 /\ now - progress >= TransmitTimeout
       THEN "transmit_stalled" ELSE "none"

Silent(m) == now - heard[m] > FeedbackTimeout
Failing(m) == Silent(m) \/ Action(m) = "failed"

\* The loop over the joints ends at the first that fails.
Reached(m) == \A j \in 1..(m - 1) : ~Failing(j)
Supervised == {m \in Motors : Reached(m) /\ ~Silent(m)}

\* An idle clock is started by the first frame that is queued.  Mutant: it is not.
NotStamped == progress
Stamped == IF progress = 0 THEN now ELSE progress

Enabling == {m \in Supervised : Action(m) = "send_enable"}

\* Mutant: the transport is not told that a recovery is over.
NobodyRecovered == {}
Recovered == {m \in Supervised : Action(m) = "recovered"}

\* apply_recovery_updates.
ApplyRecoveryUpdates ==
  /\ recovery_active' = [m \in Motors |->
       m \in Enabling \/ (recovery_active[m] /\ m \notin Recovered)]
  /\ pending' = [pending EXCEPT !["recovery"] = (@ \cup Enabling) \ Recovered]
  /\ progress' = IF Enabling = {} THEN progress ELSE Stamped

ReadError ==
  IF \E m \in Motors : Reached(m) /\ Silent(m) THEN "feedback_timeout"
  ELSE IF \E m \in Supervised : Action(m) = "failed" THEN "recovery_failed"
  ELSE "none"

ReadSupervises ==
  /\ phase = "read"
  /\ HealthError = "none"
  /\ recovery' = [m \in Motors |->
       IF m \in Supervised THEN Updated(m) ELSE recovery[m]]
  /\ ApplyRecoveryUpdates
  /\ error' = ReadError
  /\ phase' = IF ReadError = "none" THEN "write" ELSE "failing"
  /\ out_since' = [m \in Motors |->
       IF mode[m] = "run" THEN 0
       ELSE IF out_since[m] = 0 THEN now ELSE out_since[m]]
  /\ UNCHANGED <<now, feedback, worker, endpoint, entered, last_delivery>>

\* update_state looks at the transport before the joints, send_commands after
\* it has queued its frames.
HealthCheckFails ==
  /\ phase \in {"read", "check"}
  /\ HealthError # "none"
  /\ error' = HealthError
  /\ phase' = "failing"
  /\ UNCHANGED <<now, recovery, feedback, recovery_active, pending, worker,
                 progress, endpoint, out_since, entered, last_delivery>>

WriteQueues ==
  /\ phase = "write"
  /\ pending' = [pending EXCEPT !["motion"] = Motors]
  /\ progress' = Stamped
  /\ phase' = "check"
  /\ UNCHANGED <<now, driver, feedback, recovery_active, worker, endpoint,
                 out_since, entered, last_delivery>>

WriteSucceeds ==
  /\ phase = "check"
  /\ HealthError = "none"
  /\ phase' = "done"
  /\ UNCHANGED <<now, driver, feedback, recovery_active, pending, worker,
                 progress, endpoint, out_since, entered, last_delivery>>

\* on_error after an ERROR, or an operator's deactivation: the hardware stops
\* and the transport gives up its active frames.
Stop ==
  /\ phase \in {"failing", "done"}
  /\ phase' = "stopped"
  /\ recovery_active' = [m \in Motors |-> FALSE]
  /\ pending' = NoFrames
  /\ batch' = NoFrames
  /\ working' = FALSE
  /\ publishing' = FALSE
  /\ progress' = 0
  /\ UNCHANGED <<now, driver, feedback, endpoint, out_since, entered,
                 last_delivery>>

\* Mutants: an activation inherits the recoveries of the last, or counts from -1.
RecoveryKept == recovery
CountFromMinusOne == [m \in Motors |-> [Idle EXCEPT !.attempts = -1]]
RecoveryAtStart == [m \in Motors |-> Idle]

\* start has found the endpoints, confirmed that every motor runs, and enabled
\* active commands.
Start ==
  /\ phase = "stopped"
  /\ phase' = "read"
  /\ error' = "none"
  /\ mode' = [m \in Motors |-> "run"]
  /\ heard' = [m \in Motors |-> now]
  /\ recovery' = RecoveryAtStart
  /\ bridge_available' = TRUE
  /\ unavailable_since' = 0
  /\ out_since' = [m \in Motors |-> 0]
  /\ last_delivery' = now
  /\ UNCHANGED <<now, recovery_active, pending, worker, progress, entered>>

-----------------------------------------------------------------------------
(* The worker, the motors and time.                                         *)

Sendable(m) ==
  m \in pending["recovery"] \/ (m \in pending["motion"] /\ ~recovery_active[m])

SomethingSendable == \E m \in Motors : Sendable(m)

Held == {m \in Motors : recovery_active[m]}

WorkerExtract ==
  /\ ~working
  /\ SomethingSendable
  /\ working' = TRUE
  /\ batch' = [pending EXCEPT !["motion"] = @ \ Held]
  /\ pending' = [recovery |-> {}, motion |-> pending["motion"] \cap Held]
  /\ UNCHANGED <<now, phase, driver, feedback, recovery_active, publishing,
                 progress, endpoint, out_since, entered, last_delivery>>

Admitted(k, m) == (k = "recovery") = recovery_active[m]

\* Mutant: the loss that is over keeps its clock.
LossRemembered(available) ==
  IF ~available /\ unavailable_since = 0 THEN now ELSE unavailable_since

\* update_endpoint_status.
UnavailableSince(available) ==
  IF available THEN 0
  ELSE IF unavailable_since = 0 THEN now ELSE unavailable_since

\* Mutant: a published frame does not restart the clock.
ProgressOfBatch == progress
ProgressOfFrame == now

\* publish_active skips the motion of a recovering motor and the enable frame of
\* a recovered one.
WorkerSkips ==
  \E k \in Kinds : \E m \in batch[k] :
    /\ ~publishing
    /\ ~Admitted(k, m)
    /\ batch' = [batch EXCEPT ![k] = @ \ {m}]
    /\ progress' = ProgressOfFrame
    /\ UNCHANGED <<now, phase, driver, feedback, recovery_active, pending,
                   working, publishing, endpoint, out_since, entered,
                   last_delivery>>

\* publish_unlocked: without an endpoint the frame is dropped, with one it goes
\* to the publisher.
WorkerPublishes ==
  \E k \in Kinds : \E m \in batch[k] :
    /\ ~publishing
    /\ Admitted(k, m)
    /\ batch' = [batch EXCEPT ![k] = @ \ {m}]
    /\ bridge_available' \in BOOLEAN
    /\ unavailable_since' = UnavailableSince(bridge_available')
    /\ publishing' = bridge_available'
    /\ IF bridge_available'
       THEN entered' = now /\ UNCHANGED progress
       ELSE progress' = ProgressOfFrame /\ UNCHANGED entered
    /\ UNCHANGED <<now, phase, driver, feedback, recovery_active, pending,
                   working, out_since, last_delivery>>

PublisherReturns ==
  /\ publishing
  /\ publishing' = FALSE
  /\ progress' = ProgressOfFrame
  /\ last_delivery' = now
  /\ UNCHANGED <<now, phase, driver, feedback, recovery_active, pending, batch,
                 working, endpoint, out_since, entered>>

ProgressAfterBatch == IF SomethingSendable THEN progress ELSE 0

WorkerSettles ==
  /\ working
  /\ ~publishing
  /\ batch = NoFrames
  /\ working' = FALSE
  /\ progress' = ProgressAfterBatch
  /\ UNCHANGED <<now, phase, driver, feedback, recovery_active, pending, batch,
                 publishing, endpoint, out_since, entered, last_delivery>>

Feedback(m) ==
  /\ phase # "stopped"
  /\ mode' \in {[mode EXCEPT ![m] = new] : new \in {"run", "reset"}}
  /\ heard' = [heard EXCEPT ![m] = now]
  /\ UNCHANGED <<now, phase, driver, recovery_active, pending, worker, progress,
                 endpoint, out_since, entered, last_delivery>>

\* A tick ends when the control loop has had its cycle and the worker has
\* nothing to do, or is blocked in the publisher.
Tick ==
  /\ now < MaxTime
  /\ phase \in {"done", "stopped"}
  /\ IF working THEN publishing ELSE ~SomethingSendable
  /\ now' = now + 1
  /\ phase' = IF phase = "done" THEN "read" ELSE phase
  /\ UNCHANGED <<driver, feedback, recovery_active, pending, worker, progress,
                 endpoint, out_since, entered, last_delivery>>

Next ==
  \/ ReadSupervises \/ HealthCheckFails \/ WriteQueues \/ WriteSucceeds
  \/ Stop \/ Start
  \/ WorkerExtract \/ WorkerSkips \/ WorkerPublishes \/ PublisherReturns
  \/ WorkerSettles
  \/ \E m \in Motors : Feedback(m)
  \/ Tick

Spec == Init /\ [][Next]_vars

-----------------------------------------------------------------------------
(* Properties.                                                              *)

Phases == {"read", "write", "check", "done", "failing", "stopped"}
Errors == {"none", "feedback_timeout", "recovery_failed", "bridge_unavailable",
           "transmit_stalled"}
Recoveries ==
  [active : BOOLEAN, attempts : Nat, started_at : Nat, last_attempt_at : Nat]

\* The types of the variables; no clock is ahead of the time.
TypeOK ==
  /\ now \in 1..MaxTime
  /\ phase \in Phases
  /\ error \in Errors
  /\ mode \in [Motors -> {"run", "reset"}]
  /\ heard \in [Motors -> 0..now]
  /\ recovery \in [Motors -> Recoveries]
  /\ recovery_active \in [Motors -> BOOLEAN]
  /\ pending \in [Kinds -> SUBSET Motors]
  /\ batch \in [Kinds -> SUBSET Motors]
  /\ working \in BOOLEAN
  /\ publishing \in BOOLEAN
  /\ progress \in 0..now
  /\ bridge_available \in BOOLEAN
  /\ unavailable_since \in 0..now
  /\ out_since \in [Motors -> 0..now]
  /\ entered \in 0..now
  /\ last_delivery \in 0..now

\* Between a successful read and the next the transport holds the motion of
\* exactly the motors the driver is recovering.
HoldsMatchRecoveries ==
  phase \in {"write", "check", "done"}
    => \A m \in Motors : recovery_active[m] = recovery[m].active

\* Hardware does not stay active with a motor that every read of the last
\* RecoveryTimeout has seen out of Run mode.
NoEndlessRecovery ==
  phase \in {"write", "check", "done"}
    => \A m \in Motors :
         out_since[m] # 0 => now - out_since[m] < RecoveryTimeout

\* A recovery is given up only after its motor has been out of Run mode for the
\* whole RecoveryTimeout, all of it in this activation.
RecoveryGetsItsTime ==
  phase = "failing" /\ error = "recovery_failed"
    => \E m \in Motors :
         out_since[m] # 0 /\ now - out_since[m] >= RecoveryTimeout

\* The enable frames of one recovery are queued RetryInterval apart, and none
\* after its RecoveryTimeout.
RetriesKeepTheirDistance ==
  \A m \in Motors : recovery[m].attempts > 0 =>
    LET spread == recovery[m].last_attempt_at - recovery[m].started_at IN
    /\ (recovery[m].attempts - 1) * RetryInterval <= spread
    /\ spread < RecoveryTimeout

\* The step that returns ERROR for this reason.
Fails(reason) == phase # "failing" /\ phase' = "failing" /\ error' = reason

\* The hardware fails for a lost bridge only when no frame has found an endpoint
\* for the whole TransmitTimeout.
LossIsPersistent ==
  [][Fails("bridge_unavailable") => now - last_delivery >= TransmitTimeout]_vars

\* The hardware fails for a stalled sender only when the worker has frames to
\* deal with and is stuck on one.  Motion that is held for a recovery starts the
\* clock early, by at most the RetryInterval.
StallIsReal ==
  [][Fails("transmit_stalled")
       => /\ publishing
          /\ now - entered >= TransmitTimeout - RetryInterval]_vars

\* A worker without a frame to deal with is never reported as stalled, whatever
\* the intervals.
IdleIsNotStalled == [][Fails("transmit_stalled") => working]_vars

\* Hardware does not stay active while nothing reaches the bridge: a loss, a
\* stall and the silence of a recovery add up to a bounded gap.
ActiveMeansDelivering ==
  phase = "done"
    => now - last_delivery < 2 * TransmitTimeout + RetryInterval - 1
=============================================================================
