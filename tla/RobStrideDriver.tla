-------------------------- MODULE RobStrideDriver --------------------------
(***************************************************************************)
(* Activation and stop of RobStrideDriver (robstride_driver/src/driver.cpp)*)
(* frame by frame: parameters are written and read back, motors enabled    *)
(* and stopped, each confirmed by what receive_frame hears, over a bus     *)
(* that loses frames and delays answers.                                   *)
(*                                                                         *)
(* A timestamp is compared with requested_at or stop_started only, so what *)
(* has been heard carries whether it was heard since (recent), as long as  *)
(* that matters; a mode heard matters while it is waited for, and while    *)
(* the hardware is active.  A timed wait ends as soon as its condition     *)
(* holds, or at any time without it.                                       *)
(*                                                                         *)
(* The transport is the one CommandBus promises: transactions go out in    *)
(* their order, and active frames only while the gate is open.  Motors     *)
(* behave as test/support/fake_robstride_motor.cpp does.                   *)
(***************************************************************************)
EXTENDS Integers, Sequences

CONSTANTS
  MotorCount,
  Settings,          \* what settings_ may hold
  MaxAttempts,       \* bound: startup attempts in all calls of start together
  MaxAnswers,        \* bound: answers on their way; others are lost
  MaxFaults          \* bound: lost frames, worker failures and power cycles

Motors == 1..MotorCount
Indices == {"can_timeout", "run_mode"}

\* What parse_driver_configuration accepts.
ASSUME SettingsAssumption ==
  /\ MotorCount \in Nat \ {0}
  /\ Settings \subseteq [startup_retries : Nat \ {0}, stop_repetitions : Nat \ {0},
                        clear_faults_on_start : BOOLEAN, set_zero_on_start : BOOLEAN]
  /\ {MaxAttempts, MaxAnswers, MaxFaults} \subseteq Nat

VARIABLES
  settings,          \* settings_
  pc, after,         \* where the owner is, and what follows the stop
  joint, index, attempt,         \* locals of start and of disable_all
  feedback,          \* joint.feedback_status per motor
  parameter,         \* joint.parameter_status per motor
  queue,             \* pending_transactions_
  gate,              \* active_commands_enabled_
  recovery,          \* motors with an enable frame in pending_recovery_frames_
  failed,            \* worker_failed_
  answers,           \* answers of the motors on their way
  mode, parameters,  \* the motors: mode, parameters that hold what was requested
  restarted,         \* history: motors that lost power, until a start can tell
  stale,             \* history: motors whose position was heard before a zero
  ran,               \* history: motors in Run mode at some time in this start
  calls,             \* history: calls of start, and of stop without one
  faults,            \* history: lost frames, worker failures and power cycles
  lost,              \* history: stop frames lost since the stop, up to settings.stop_repetitions
  told,              \* history: motors told to stop, and not to run since
  quiet,             \* history: nothing was on its way when start or the stop began
  stop_confirmed     \* history: it ended with the motors confirmed

owner == <<pc, after, joint, index, attempt>>
heard == <<feedback, parameter>>
transport == <<queue, gate, recovery, failed>>
motors == <<mode, parameters, restarted>>
stopping == <<lost, told, quiet, stop_confirmed>>
vars == <<owner, heard, transport, answers, motors, stale, ran, calls, faults,
          stopping, settings>>

\* No answer, or none that matters to the current request.
NoAnswer == [recent |-> FALSE, index |-> "none", requested |-> FALSE]
NoReport == [recent |-> FALSE, mode |-> "none"]

Init ==
  /\ settings \in Settings
  /\ pc = "closed" /\ after = "closed"
  /\ joint = 1 /\ index = "can_timeout" /\ attempt = 1
  /\ feedback = [m \in Motors |-> NoReport]
  /\ parameter = [m \in Motors |-> NoAnswer]
  /\ queue = <<>> /\ gate = FALSE /\ recovery = {} /\ failed = FALSE
  /\ answers = <<>>
  /\ mode = [m \in Motors |-> "reset"]
  /\ parameters = [m \in Motors |-> {}]
  /\ restarted = {}
  /\ stale = {} /\ ran = {} /\ calls = 0 /\ faults = 0
  /\ lost = 0 /\ told = {} /\ quiet = TRUE /\ stop_confirmed = FALSE

-----------------------------------------------------------------------------
(* Frames, and the transport as the owner uses it.                          *)

Frame(kind, m) == [kind |-> kind, motor |-> m, index |-> "none"]
Access(kind, m, i) == [kind |-> kind, motor |-> m, index |-> i]

\* Two frames for every joint, in the order of the joints.
ForAll(a, b) ==
  [i \in 1..(2 * MotorCount) |->
     Frame(IF i % 2 = 1 THEN a ELSE b, (i + 1) \div 2)]

\* send_transaction drops the frame when the worker has failed.
Send(frames) == queue' = IF failed THEN queue ELSE queue \o frames

NothingOnItsWay == queue = <<>> /\ answers = <<>>

\* What was heard before requested_at or stop_started does not count.  Mutant: it does.
ReportsCount == UNCHANGED feedback
ForgetReports == feedback' = [m \in Motors |-> NoReport]
ForgetAnswers == parameter' = [m \in Motors |-> NoAnswer]

-----------------------------------------------------------------------------
(* start.                                                                   *)

Open ==
  /\ pc = "closed"
  /\ pc' = "inactive"
  /\ UNCHANGED <<after, joint, index, attempt, heard, transport, answers,
                 motors, stale, ran, calls, faults, stopping>>

\* Calls of start, and of stop without one.
AnotherCall ==
  /\ (calls + 1) * settings.startup_retries <= MaxAttempts
  /\ calls' = calls + 1

\* History: a start that finds nothing on its way and a motor in Reset mode answers
\* for its configuration, whenever it lost power before.
Start ==
  /\ pc = "inactive"
  /\ AnotherCall
  /\ pc' = "clear"
  /\ joint' = 1
  /\ ran' = {m \in Motors : mode[m] = "run"}
  /\ lost' = 0 /\ told' = {} /\ stop_confirmed' = FALSE
  /\ quiet' = NothingOnItsWay
  /\ restarted' = IF NothingOnItsWay THEN {m \in restarted : mode[m] = "run"}
                                     ELSE restarted
  /\ UNCHANGED <<after, index, attempt, heard, transport, answers, mode,
                 parameters, stale, faults>>

\* Mutant: the watchdog is not written.
FirstIndexRunMode == "run_mode"
FirstIndex == "can_timeout"

ClearJoint ==
  /\ pc = "clear"
  /\ Send(IF settings.clear_faults_on_start THEN <<Frame("clear", joint)>> ELSE <<>>)
  /\ pc' = "write" /\ index' = FirstIndex /\ attempt' = 1
  /\ UNCHANGED <<after, joint, heard, gate, recovery, failed, answers, motors,
                 stale, ran, calls, faults, stopping>>

\* write_and_confirm_parameter, one attempt.
WriteParameter ==
  /\ pc = "write"
  /\ Send(<<Access("write", joint, index), Access("read", joint, index)>>)
  /\ ForgetAnswers
  /\ pc' = "confirm"
  /\ UNCHANGED <<after, joint, index, attempt, feedback, gate, recovery, failed,
                 answers, motors, stale, ran, calls, faults, stopping>>

\* Mutant: any parameter will do.
ConfirmedByAny(p) == p.recent /\ p.requested
Confirmed(p) == p.recent /\ p.index = index /\ p.requested

WatchdogConfirmed ==
  /\ pc = "confirm" /\ index = "can_timeout"
  /\ Confirmed(parameter[joint])
  /\ ForgetAnswers
  /\ pc' = "write" /\ index' = "run_mode" /\ attempt' = 1
  /\ UNCHANGED <<after, joint, feedback, transport, answers, motors, stale, ran,
                 calls, faults, stopping>>

JointConfirmed ==
  /\ pc = "confirm" /\ index = "run_mode"
  /\ Confirmed(parameter[joint])
  /\ Send(IF settings.set_zero_on_start THEN <<Frame("zero", joint)>> ELSE <<>>)
  /\ ForgetAnswers
  /\ attempt' = 1
  /\ IF joint < MotorCount
     THEN pc' = "clear" /\ joint' = joint + 1
     ELSE pc' = "enable" /\ joint' = 1
  /\ UNCHANGED <<after, index, feedback, gate, recovery, failed, answers, motors,
                 stale, ran, calls, faults, stopping>>

\* enable_and_confirm_all, one attempt.
EnableAll ==
  /\ pc = "enable"
  /\ Send(ForAll("enable", "motion"))
  /\ ForgetReports
  /\ pc' = "confirm_enable"
  /\ UNCHANGED <<after, joint, index, attempt, parameter, gate, recovery,
                 failed, answers, motors, stale, ran, calls, faults, stopping>>

\* Mutant: one motor is enough.
ReportedBySome(m) == \E j \in Motors : feedback[j].recent /\ feedback[j].mode = m
Reported(m) == \A j \in Motors : feedback[j].recent /\ feedback[j].mode = m

Activate ==
  /\ pc = "confirm_enable"
  /\ Reported("run")
  /\ pc' = "active"
  /\ gate' = ~failed
  /\ feedback' = [m \in Motors |-> [recent |-> FALSE, mode |-> "run"]]
  /\ UNCHANGED <<after, joint, index, attempt, parameter, queue, recovery,
                 failed, answers, motors, stale, ran, calls, faults, stopping>>

\* A wait for a confirmation times out: once more, or the start has failed.
\* Mutant: the wait for a parameter has no timeout.
UnconfirmedEnable == pc = "confirm_enable" /\ ~Reported("run")
Unconfirmed ==
  \/ pc = "confirm" /\ ~Confirmed(parameter[joint])
  \/ pc = "confirm_enable" /\ ~Reported("run")

Retry ==
  /\ Unconfirmed
  /\ attempt < settings.startup_retries
  /\ attempt' = attempt + 1
  /\ pc' = IF pc = "confirm" THEN "write" ELSE "enable"
  /\ UNCHANGED <<after, joint, index, heard, transport, answers, motors, stale,
                 ran, calls, faults, stopping>>

\* start stops the motors before it returns false, and on_error stops them again.
StartFails ==
  /\ Unconfirmed
  /\ attempt = settings.startup_retries
  /\ pc' = "disable" /\ after' = "error"
  /\ UNCHANGED <<joint, index, attempt, heard, transport, answers, motors,
                 stale, ran, calls, faults, stopping>>

-----------------------------------------------------------------------------
(* disable_all, and what follows it.                                        *)

\* on_deactivate keeps the transport, on_error and on_shutdown close it; an
\* on_activate that cannot publish the states stops before its on_error does.
Leave ==
  /\ pc = "active"
  /\ pc' = "disable"
  /\ after' \in {"inactive", "close", "error"}
  /\ UNCHANGED <<joint, index, attempt, heard, transport, answers, motors,
                 stale, ran, calls, faults, stopping>>

\* on_shutdown; also on_error after a start that found no endpoints.
ShutDown ==
  /\ pc = "inactive"
  /\ AnotherCall
  /\ pc' = "disable" /\ after' = "close"
  /\ UNCHANGED <<joint, index, attempt, heard, transport, answers, motors,
                 stale, ran, faults, stopping>>

\* on_cleanup.
CleanUp ==
  /\ pc = "inactive"
  /\ pc' = "close"
  /\ UNCHANGED <<after, joint, index, attempt, heard, transport, answers, motors,
                 stale, ran, calls, faults, stopping>>

\* Mutant: enable frames of recoveries stay in their slots, with the gate open.
GateLeftOpen == gate
GateWhenStopped == FALSE

DisableActiveCommands ==
  /\ pc = "disable"
  /\ gate' = GateWhenStopped
  /\ recovery' = IF gate' THEN recovery ELSE {}
  /\ ForgetReports
  /\ ForgetAnswers
  /\ joint' = 1 /\ index' = "can_timeout" /\ attempt' = 1
  /\ pc' = "stop"
  /\ lost' = IF failed THEN settings.stop_repetitions ELSE 0
  /\ told' = {} /\ ran' = {}
  /\ quiet' = NothingOnItsWay
  /\ stop_confirmed' = FALSE
  /\ UNCHANGED <<after, queue, failed, answers, motors, stale, calls, faults>>

\* The stop frames are on their way, and nothing else until start is called.
Stopping == pc \in {"stop", "confirm_stop", "close", "closed", "inactive"}

\* Mutants: the last repetition is not sent, or one too many.
LastRepetitionEarly == attempt + 1 >= settings.stop_repetitions
LastRepetitionLate == attempt > settings.stop_repetitions
LastRepetition == attempt = settings.stop_repetitions

\* One repetition; the acknowledgement is waited for, and makes no difference.
SendStops ==
  /\ pc = "stop"
  /\ Send(ForAll("motion", "stop"))
  /\ IF LastRepetition
     THEN pc' = "confirm_stop" /\ attempt' = 1
     ELSE attempt' = attempt + 1 /\ UNCHANGED pc
  /\ UNCHANGED <<after, joint, index, heard, gate, recovery, failed, answers,
                 motors, stale, ran, calls, faults, stopping>>

\* The wait for Reset mode ends; nothing but a message depends on the outcome.
StopEnds ==
  /\ pc = "confirm_stop"
  /\ stop_confirmed' = Reported("reset")
  /\ ForgetReports
  /\ IF after = "error"
     THEN pc' = "disable" /\ after' = "close"
     ELSE pc' = after /\ after' = "closed"
  /\ UNCHANGED <<joint, index, attempt, parameter, transport, answers, motors,
                 stale, ran, calls, faults, lost, told, quiet>>

\* CanTransport::stop joins a worker that drains the transactions.
Close ==
  /\ pc = "close"
  /\ queue = <<>>
  /\ pc' = "closed"
  /\ failed' = FALSE
  /\ UNCHANGED <<after, joint, index, attempt, heard, queue, gate, recovery, answers,
                 motors, stale, ran, calls, faults, stopping>>

-----------------------------------------------------------------------------
(* The control loop, as far as frames go: update_state queues an enable     *)
(* frame for a motor that reports another mode, and takes it back.          *)

Supervise(m) ==
  /\ pc = "active" /\ gate
  /\ recovery' = IF feedback[m].mode = "run" THEN recovery \ {m}
                 ELSE recovery \cup {m}
  /\ UNCHANGED <<owner, heard, queue, gate, failed, answers, motors, stale,
                 ran, calls, faults, stopping>>

-----------------------------------------------------------------------------
(* The motors.                                                              *)

Report(m, md) ==
  [motor |-> m, index |-> "none", requested |-> FALSE, mode |-> md, stale |-> FALSE]
Readback(m, i) ==
  [motor |-> m, index |-> i, requested |-> i \in parameters[m], mode |-> "none",
   stale |-> FALSE]

\* An answer is on its way, or lost among too many.
Answer(a) ==
  answers' = IF Len(answers) < MaxAnswers THEN Append(answers, a) ELSE answers

Feedback(m) == Answer(Report(m, mode'[m]))

InStart == pc \in {"clear", "write", "confirm", "enable", "confirm_enable"}

Enabled(m) ==
  /\ mode' = [mode EXCEPT ![m] = "run"]
  /\ ran' = IF InStart THEN ran \cup {m} ELSE ran
  /\ Feedback(m)

\* What was measured before a zero is stale, heard or on its way.
SetsZero(m) ==
  /\ stale' = stale \cup {m}
  /\ answers' = [i \in 1..Len(answers) |->
       [answers[i] EXCEPT !.stale = @ \/ (answers[i].motor = m /\
                                         answers[i].index = "none")]]

\* The motor takes a frame.
Handle(f) ==
  LET m == f.motor IN
  /\ CASE f.kind = "write" ->
            /\ parameters' = [parameters EXCEPT ![m] = @ \cup {f.index}]
            /\ UNCHANGED <<answers, mode, stale, ran>>
       [] f.kind = "read" ->
            /\ Answer(Readback(m, f.index))
            /\ UNCHANGED <<motors, stale, ran>>
       [] f.kind = "zero" -> SetsZero(m) /\ UNCHANGED <<motors, ran>>
       [] f.kind = "enable" -> Enabled(m) /\ UNCHANGED <<parameters, stale>>
       [] f.kind = "motion" ->
            /\ UNCHANGED <<motors, stale, ran>>
            /\ Feedback(m)
       [] f.kind \in {"clear", "stop"} ->
            /\ mode' = [mode EXCEPT ![m] = "reset"]
            /\ Feedback(m)
            /\ UNCHANGED <<parameters, stale, ran>>
  /\ told' = CASE f.kind = "stop" -> told \cup {m}
               [] f.kind = "enable" -> told \ {m}
               [] OTHER -> told

\* The worker hands over a transaction: it reaches the motor, or is lost.
Publish ==
  /\ queue # <<>>
  /\ queue' = Tail(queue)
  /\ Handle(Head(queue))
  /\ UNCHANGED <<owner, heard, gate, recovery, failed, restarted, calls, faults,
                 lost, quiet, stop_confirmed>>

Fault == faults < MaxFaults /\ faults' = faults + 1

PublishLost ==
  /\ queue # <<>>
  /\ Fault
  /\ queue' = Tail(queue)
  /\ lost' = IF Stopping /\ Head(queue).kind = "stop" /\ lost < settings.stop_repetitions
             THEN lost + 1 ELSE lost
  /\ UNCHANGED <<owner, heard, gate, recovery, failed, answers, motors, stale,
                 ran, calls, told, quiet, stop_confirmed>>

\* An active frame passes the gate.
PublishRecovery(m) ==
  /\ gate /\ m \in recovery
  /\ recovery' = recovery \ {m}
  /\ Enabled(m)
  /\ UNCHANGED <<owner, heard, queue, gate, failed, parameters, restarted, stale,
                 calls, faults, stopping>>

PublishMotion(m) ==
  /\ gate
  /\ UNCHANGED motors
  /\ Feedback(m)
  /\ UNCHANGED <<owner, heard, transport, stale, ran, calls, faults, stopping>>

\* record_failure(false); what the worker has not sent is lost.
WorkerFails ==
  /\ pc # "closed" /\ ~failed
  /\ Fault
  /\ failed' = TRUE /\ gate' = FALSE /\ queue' = <<>>
  /\ lost' = IF Stopping THEN settings.stop_repetitions ELSE lost
  /\ UNCHANGED <<owner, heard, recovery, answers, motors, stale, ran, calls,
                 told, quiet, stop_confirmed>>

\* Somebody waits for a mode, or has begun to.
ModeAwaited == pc \in {"confirm_enable", "stop", "confirm_stop"}

\* receive_frame; nobody listens when the transport is closed.
Receive ==
  /\ answers # <<>>
  /\ answers' = Tail(answers)
  /\ LET a == Head(answers) m == a.motor IN
     IF pc = "closed" THEN UNCHANGED <<heard, stale>>
     ELSE IF a.index # "none"
     THEN /\ parameter' = [parameter EXCEPT ![m] =
               IF pc = "confirm"
               THEN [recent |-> TRUE, index |-> a.index, requested |-> a.requested]
               ELSE NoAnswer]
          /\ UNCHANGED <<feedback, stale>>
     ELSE /\ feedback' = [feedback EXCEPT ![m] =
               IF ModeAwaited \/ pc = "active"
               THEN [recent |-> ModeAwaited, mode |-> a.mode] ELSE NoReport]
          /\ stale' = IF a.stale THEN stale \cup {m} ELSE stale \ {m}
          /\ UNCHANGED parameter
  /\ UNCHANGED <<owner, transport, motors, ran, calls, faults, stopping>>

\* The watchdog of the motor expires, in a pause of any length.
WatchdogExpires(m) ==
  /\ mode[m] = "run" /\ "can_timeout" \in parameters[m]
  /\ mode' = [mode EXCEPT ![m] = "reset"]
  /\ Feedback(m)
  /\ UNCHANGED <<owner, heard, transport, parameters, restarted, stale, ran,
                 calls, faults, stopping>>

\* A motor loses its power and starts again, at any time: it is in Reset mode and
\* holds no parameter that was written to it.  The driver is not told.
PowerCycle(m) ==
  /\ Fault
  /\ mode' = [mode EXCEPT ![m] = "reset"]
  /\ parameters' = [parameters EXCEPT ![m] = {}]
  /\ restarted' = restarted \cup {m}
  /\ UNCHANGED <<owner, heard, transport, answers, stale, ran, calls, stopping>>

-----------------------------------------------------------------------------
Lifecycle ==
  \/ Open \/ Start \/ ClearJoint \/ WriteParameter
  \/ WatchdogConfirmed \/ JointConfirmed \/ EnableAll \/ Activate
  \/ Retry \/ StartFails
  \/ Leave \/ ShutDown \/ CleanUp
  \/ DisableActiveCommands \/ SendStops \/ StopEnds \/ Close

Next ==
  /\ UNCHANGED settings
  /\ \/ Lifecycle
     \/ Publish \/ PublishLost \/ WorkerFails \/ Receive
     \/ \E m \in Motors :
          \/ Supervise(m) \/ PublishRecovery(m) \/ PublishMotion(m)
          \/ WatchdogExpires(m) \/ PowerCycle(m)

Spec == Init /\ [][Next]_vars

-----------------------------------------------------------------------------
(* Fairness: calls proceed, since every wait of theirs has a timeout; the   *)
(* worker handles its queue; and a watchdog expires once the motor is fed   *)
(* by nobody.                                                               *)

InCall == pc \notin {"closed", "inactive", "active"}

Unfed == ~gate /\ queue = <<>>

FairSpec ==
  /\ Spec
  /\ WF_vars(InCall /\ Lifecycle /\ UNCHANGED settings)
  /\ WF_vars((Publish \/ PublishLost) /\ UNCHANGED settings)
  /\ \A m \in Motors :
       WF_vars(Unfed /\ WatchdogExpires(m) /\ UNCHANGED settings)

-----------------------------------------------------------------------------
(* Properties.                                                              *)

Frames ==
  [kind : {"clear", "write", "read", "zero", "enable", "motion", "stop"},
   motor : Motors, index : Indices \cup {"none"}]
Modes == {"reset", "run"}

TypeOK ==
  /\ settings \in Settings
  /\ pc \in {"closed", "inactive", "clear", "write", "confirm", "enable",
             "confirm_enable", "active", "disable", "stop", "confirm_stop", "close"}
  /\ after \in {"closed", "inactive", "close", "error"}
  /\ joint \in Motors /\ index \in Indices
  /\ attempt \in Nat \ {0}
  /\ attempt <= settings.startup_retries \/ attempt <= settings.stop_repetitions
  /\ feedback \in [Motors -> [recent : BOOLEAN, mode : Modes \cup {"none"}]]
  /\ parameter \in [Motors -> [recent : BOOLEAN, index : Indices \cup {"none"},
                              requested : BOOLEAN]]
  /\ queue \in Seq(Frames)
  /\ {gate, failed, quiet, stop_confirmed} \subseteq BOOLEAN
  /\ {recovery, stale, ran, told, restarted} \subseteq SUBSET Motors
  /\ answers \in Seq([motor : Motors, index : Indices \cup {"none"},
                      requested : BOOLEAN, mode : Modes \cup {"none"},
                      stale : BOOLEAN])
  /\ mode \in [Motors -> Modes]
  /\ parameters \in [Motors -> SUBSET Indices]
  /\ calls \in 0..MaxAttempts /\ faults \in 0..MaxFaults /\ lost \in 0..settings.stop_repetitions

\* A motor runs with the watchdog and the run mode that were written to it, whatever
\* frames were lost and however late the answers were: no joint was confirmed by an
\* answer about another parameter (write_and_confirm_parameter).  It may run without
\* them only after a power loss that no start has followed: a recovery, or the enable
\* frames of a start that had confirmed it before, write no parameter.
RunningMotorsAreConfigured ==
  \A m \in Motors \ restarted : mode[m] = "run" => parameters[m] = Indices

\* A motor that took a stop frame of disable_all stays in Reset mode, although
\* recoveries were under way when the stop began (disable_all).
StopIsFinal == Stopping => \A m \in told : mode[m] = "reset"

\* Fewer lost frames than stop_repetitions leave no motor running once
\* everything queued has gone out (disable_all, stop_repetitions).
StopSurvivesLosses ==
  pc \in {"inactive", "closed"} /\ queue = <<>> /\ lost < settings.stop_repetitions
    => \A m \in Motors : mode[m] = "reset"

\* When nothing older was on its way as the stop began, a confirmed stop means
\* that every motor is in Reset mode, until the next start (disable_all).
ConfirmedStopIsReal ==
  stop_confirmed /\ quiet => \A m \in Motors : mode[m] = "reset"

Activates == pc # "active" /\ pc' = "active"

\* When nothing older was on its way as start began, hardware becomes active only
\* if every single motor has been in Run mode since, and the position that is then
\* published as the state was measured after the last zero the motor took: with
\* retries and late answers within that start (enable_and_confirm_all).
ActivationIsReal == [][Activates /\ quiet => ran = Motors /\ stale = {}]_vars

\* The phases that MotorLifecycle tells apart.
Phase ==
  CASE pc \in {"clear", "write", "confirm", "enable", "confirm_enable"} -> "starting"
    [] pc \in {"disable", "stop", "confirm_stop"} -> "stopping"
    [] pc = "close" -> "closing"
    [] OTHER -> pc

Running == {m \in Motors : mode[m] = "run"}
Configured == {m \in Motors : parameters[m] = Indices}
RanInStart == IF Phase = "starting" THEN ran ELSE {}

\* Nothing that enables the motor is left behind the stop frame that it took.
EnableQueued(m) == \E i \in 1..Len(queue) : queue[i].kind = "enable" /\ queue[i].motor = m
StoppedForGood == IF Stopping THEN {m \in told : ~EnableQueued(m)} ELSE {}

CleanStart == quiet /\ Phase = "starting"
CleanlyConfirmed == quiet /\ stop_confirmed /\ Stopping

Promise == INSTANCE MotorLifecycle WITH
  phase <- Phase, running <- Running, configured <- Configured,
  restarted <- restarted, ran <- RanInStart,
  stopped <- StoppedForGood, clean <- CleanStart, confirmed <- CleanlyConfirmed

\* Frames, answers, attempts and timeouts keep what MotorLifecycle promises: no motor
\* runs that is not configured and has not lost its power, that has been stopped for
\* good, or behind a confirmed stop, and the hardware is activated with motors that
\* have run (start, stop).
ImplementsLifecycle == Promise!Spec

\* While active commands are disabled all motors that have not lost their power are
\* in Reset mode in the end, or the hardware is activated again: lost stop frames and
\* a failed worker included (disable_all, and the watchdog behind it).
UnattendedMotorsStop ==
  (~gate /\ \E m \in Motors \ restarted : mode[m] = "run")
    ~> (gate \/ \A m \in Motors \ restarted : mode[m] = "reset")

\* The same of every motor, as README.md:332-335 has it: "This package rejects zero so
\* that loss of host commands eventually forces the motor back to Reset mode".
LossOfHostStopsMotors ==
  (~gate /\ \E m \in Motors : mode[m] = "run")
    ~> (gate \/ \A m \in Motors : mode[m] = "reset")

\* Every lifecycle call returns, whether the motors answer or not.
CallsReturn == []<>~InCall
=============================================================================
