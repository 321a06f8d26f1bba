# Formal model of robstride_ros2

TLA+ specifications of the control logic of `robstride_driver` and
`robstride_ros2_control`, TLC configurations that check them on small instances,
and TLAPS proofs for all instances. Source lines below are relative to the
repository root; `PROJECT.json` maps every definition to the lines it models.

## The system

| part | state | operations | with whom it interacts |
|---|---|---|---|
| `RobStrideSystem` (adapter, `robstride_system.cpp`) | lifecycle state, `command_sync_failed`, bindings to framework values | lifecycle callbacks, `read`, `write`, `prepare/perform_command_mode_switch` | called by controller_manager; calls the driver |
| command modes (`command_mode.cpp`, driver.cpp:371-453) | `claimed`, `command` per joint | validate and apply a switch, check a batch | adapter and driver, under `state_mutex_` |
| `RobStrideDriver` (`driver.cpp`) | `active_`, `command_rejected_`, feedback and `RecoveryState` per joint | open, close, start, stop, `update_state`, `send_commands`, `receive_frame` | calls the transport; called back by its executor |
| `CanTransport` (`can_transport.cpp`) | deque of transactions, one slot per motor for motion and for recovery, activation generation, failure flags, health clocks | start, stop, enable, disable, queue, acknowledge, health; worker and executor threads | DDS publisher and subscription |
| `AtomicMotorFeedback` (`metrics.cpp`) | sequence number and fields | store (executor thread), load (any thread) | `metrics()`, diagnostics |
| protocol (`protocol.cpp`), profiles, configuration (`driver_config.cpp`), joint transforms (`joint_data.hpp`) | settings and joints, fixed by `initialize` | encode, decode, parse, transform | adapter and driver |

Up to four threads meet in the transport: the lifecycle (owner) thread, the
control loop, the transmit worker and the executor. What is hard there, and
above it:

- an activation is closed while frames of it are in the worker's hands;
- a condition variable is shared by the worker and the owner's acknowledgement
  wait, and notified with `notify_one`;
- every thread may fail or find the ROS context shut down in the middle of an
  enable, a stop or a publication;
- motion is withheld for a motor in Run-mode recovery, by a flag that is written
  outside the queue's lock and read twice by the worker;
- three clocks (feedback, recovery, transmit) decide between patience and ERROR;
- start and stop are conversations over a bus that loses frames and delays answers, and
  nothing in an answer says which request it belongs to;
- numbers pass two transforms, a conversion to 16 bits and three checks of their ranges,
  which do not round alike;
- a mode switch is validated, time passes, and it is performed, possibly only half;
- claims, targets and two error latches outlive the activation they belong to;
- status samples are read without a lock.

What makes the parts correct is stated as the properties below. The hazards are
listed line by line in `PROJECT.json`.

## Modules

| module | models | status |
|---|---|---|
| `CanTransport` | the transmit side of the transport, one shared access per step | complete |
| `CommandBus` | what the transport promises its caller, without threads or queues | complete; `CanTransport` refines it |
| `CanTransport_proofs` | theorems about `CanTransport` | six properties |
| `CommandBus_proofs` | theorems about its transactions, and the refinement | four properties |
| `RobStrideDriver` | `start`, `stop` and what they hear, frame by frame, and the motors | complete |
| `MotorLifecycle` | what the driver promises of the motors, without frames or answers | complete; `RobStrideDriver` refines it |
| `MCRobStrideDriver` | the settings its run checks | |
| `RobStrideDriver_proofs` | theorems about `RobStrideDriver`, the refinement, the budget of a call | six properties of the run and two more |
| `RecoverySupervision` | `update_state`, `send_commands`, recovery and health clocks in ticks | complete |
| `RecoverySupervision_proofs` | theorems about `RecoverySupervision` | nine properties |
| `RobStrideSystem` | the adapter, command modes and value bindings | complete |
| `RobStrideSystem_proofs` | theorems about `RobStrideSystem` | five properties, one of them without errors, and one more |
| `Protocol` | codes, frames and their decoding | complete |
| `JointData` | transforms between a joint and its motor | complete |
| `DriverConfig` | parsing, profiles, `initialize` | complete up to the syntax of numbers |
| `JointCommands` | numbers from the hardware description to the motor and back; composes the three above | complete |
| `MCJointCommands` | the hardware descriptions its run checks | |
| `Protocol_proofs`, `JointCommands_proofs` | theorems about the four | lemmas and three properties |
| `AtomicMotorFeedback` | the status sample, one access per step | complete |
| `SampleRegister` | the sample as a register that is read at one moment | complete; `AtomicMotorFeedback` refines it |
| `AtomicMotorFeedback_proofs` | theorems about `AtomicMotorFeedback`, and the refinement | four properties and one more |

### CanTransport

`pc[t]` is the place of a thread in the call it is executing; call arguments and
locals that survive a step are variables (`goal`, `generation`, `update`,
`transactions`, `batch`). A frame is the pair of its activation generation and the
number of the call that queued it; a transaction is its number. `pending` holds
the slots of both kinds. Critical sections of `pending_mutex_` that nobody can
look into are one step; the worker holds each mutex over several steps, and
others that need it wait for `pc["worker"]` to leave them.
`disable_active_commands` takes five steps, because it changes the flag, the
generation, the recovery flags and the queues under different locks or none.
`record_failure` is three steps of whichever thread fails. A condition-variable
wait may also end spuriously.

`publish_unlocked` drops a frame when no endpoint is there at that moment
(can_transport.cpp:336-345). `EmitTransaction` goes on to the next transaction all the
same and keeps the number of the one it dropped in the history `dropped`, together with
what a stop after a failure writes off; `Published` are the others it has passed.
`wait_for_transaction_acknowledgements` looks for endpoints only when it waits, so that
`true` means published *or dropped*, and no more is claimed (`AckMeansPublishedOrDropped`).
The same holds for `stop`: it leaves no frame unhandled, but cannot know that a
bridge was there for it.

The other history variables are `fence` (the generation below which everything is
closed), `last_transaction` (the last one that is no longer waiting), `last_motion` (the
last call published) and `hold` (the call that began a motor's recovery).

`CommandBus` states the promise in six variables. The mapping sends `floor` to
`fence`, `handed` to `last_transaction`, `lost` to `dropped` and `last` to `last_motion`.
`HandOver` is a publication, `Drop` a frame that met no endpoint, `WriteOff` what a failed
run leaves.

### RobStrideDriver

The transport is here what `CommandBus` promises: a queue of transactions, and active
frames that pass while the gate is open. The owner's `pc` is its place in `start`
(write a parameter, wait for its readback, next parameter, next joint, enable all, wait)
or in `disable_all` (repeat the stop frames, wait for Reset). A wait with a timeout ends
when its condition holds, or at any time without it; then the attempt is repeated or the
call fails. Motors are external and answer as `test/support/fake_robstride_motor.cpp`
does; they forget their parameters when they lose power and leave Run mode when the
watchdog that `start` wrote expires. Frames get lost; answers are late.

`receive_frame` stores a timestamp with what it hears, and the waits compare it with the
time of the request. The model keeps only the outcome of that comparison (`recent`).
`quiet` records that nothing was on its way when `start`, or the stop, began. Without
it two properties would not hold: the code cannot tell a late answer to the last call
from an answer to this one, and three answers that survive a stop can confirm the next
start.

`PowerCycle` may happen at any time: before, during and after `start`, while the hardware
is active, in a stop. The motor is in Reset mode afterwards and holds no parameter, because
the driver writes parameters (frame type 18) and never saves them, and the factory value 0
disables the watchdog (README.md:333). What it had answered before may still be on its way.
`restarted` are the motors that lost their power, until a start begins that finds nothing
on its way and the motor in Reset mode: only such a start can tell what it has to write.
A motor that restarts after `start` confirmed it (driver.cpp:141-150) is enabled as it is by
the enable frames of that start (driver.cpp:613-621), or by a recovery (driver.cpp:240);
`RunningMotorsAreConfigured` and `UnattendedMotorsStop` except `restarted`, and
`driver_powerloss` checks the promise of README.md:332-335 without the exception.

`MotorLifecycle` states the promise in sets of motors. The mapping takes `phase` from
`pc` and whether the hardware is active, `running`, `configured` and `restarted` from the motors,
`ran` from the history of a start, `clean` and `confirmed` from `quiet`. A motor is
`stopped` for good once it is in Reset mode, its stop has gone out and no enable frame is
queued any more. Everything between the calls (frames, answers, attempts) is
a stutter, except where a motor changes its mode.

### Protocol, JointData, DriverConfig, JointCommands

A quantity is an integer number of units, and a unit stands for the distance of two
neighbouring doubles: sums are exact, a product or a quotient with the gear ratio is
rounded to the nearest unit. That keeps what makes these functions hard: a transform
there and back is not the identity, the ends of a range move by a unit, and code
compares with a tolerance in one place (`contains_range`, `motor_position_within_roundoff`)
and without one in another (`contains_velocity`). `Snap` and `Tolerance` are
those tolerances in units. The width of doubles itself (overflow to infinity, which the
code rejects with the tests for finite numbers) is the value `NaN`.

A hardware description is a record of parameters, each already read as a number, a ratio, a
name or `NaN`. `JointCommands` configures with a description, then runs `send_commands`
and `receive_frame`; in each cycle one joint's target changes. A rejected batch leaves
`snapshot` half written, as in the code.

### RecoverySupervision

Time is in ticks. Each tick the control loop reads and writes once; the worker
deals at once with all it can, unless the publisher blocks, which may last any
number of ticks. The bridge may be there or not each time a frame is published.
Motors report Run or another mode, or are silent, as they like.
A `FeedbackTimeout` beyond `MaxTime` stands for `fail_on_feedback_timeout=false`.
The constants satisfy what the configuration accepts (driver_config.cpp:359:
the retry interval is at most the recovery timeout).

### RobStrideSystem

A target is one of a few values within the limits or `Bad`; a key is a pair of
joint and interface. `framework` is the storage of managed interfaces; with
`Managed = FALSE` it is the driver's own. Four histories say what a claimed interface was
given: `assigned` is the last target it got (the initial one of `apply_command_modes`, what its
controller writes, what the driver still holds when the hardware becomes active),
`given` all of them since the claim, `authored` has the keys whose target a controller
wrote, and `outlived` the claims that are older than the last error and have got no target
of their own since. `claimed` and `command` survive `on_error`, and so do `given` and
`authored`: no claim is left out of `SentTargetsWereAssigned`.

controller_manager is external: it prepares a switch only for interfaces nobody
owns, performs it later, takes its owners to be switched whatever `perform` returned
(robstride_system.cpp:307 notes that errors there need not reach `on_error`), calls
`read` and `write` on inactive and active hardware, and calls `on_error` after an
ERROR. The hardware is then unconfigured, its controllers end, and no switch is
performed for them. Lifecycle calls and the control loop exclude each other.

### AtomicMotorFeedback

The n-th sample is n in every field, so that a mixed sample shows. The set of
accesses that a store or a load has still to make is a variable; `Ordered` decides
whether an access may overtake the sequence number where C++ allows it. The run and the
theorems about samples assume `Ordered`. They need it: no fence orders the relaxed accesses
(metrics.cpp:38-39, 59-60), and with `Ordered = FALSE` in the same configuration TLC finds a
load that returns fields of two stores, against robstride_driver/README.md:30 ("a
consistent atomic status sample"). x86 keeps the order anyway, AArch64 does not have to.

`SampleRegister` is what a lock would give: a store changes the sample in one step, and
a load reads it in one step between its call and its return. In the mapping a store takes effect
with the second increment, and a load with the second load of the sequence number,
provided that it finds the first number again.

## Runs

| run | instance | shows |
|---|---|---|
| `transport_lifecycle` | 1 motor, 1 transaction, 1 control call, every failure | types, closed activations, no lost wakeup, closed gate, refinement of `CommandBus` |
| `transport_transactions` | 2 transactions, 2 starts, failures, fairness | order, acknowledgement, draining by stop; stop returns, transactions are published or dropped, or the transport failed |
| `transport_commands` | 2 motors, 3 control calls, fairness | recovery holds motion, latest command wins; held motion leaves when the recovery ends |
| `driver_handshake` | 2 motors, 2 attempts, 1 fault, 1 answer on its way | a motor runs configured unless it lost its power, activation and confirmed stops are real, losses are survived, refinement of `MotorLifecycle`; calls return, unattended motors stop |
| `driver_powerloss` | 1 motor, 1 attempt, 2 faults | **violated**: a motor that lost its power runs on without a watchdog |
| `joint_commands` | 126 descriptions of 0 to 2 joints | targets arrive unclipped, rejections are deserved, reports mean what was commanded |
| `supervision_recovery` | 2 motors, 10 ticks | recovery begins, retries and ends on time, and the transport agrees; endpoint loss and stalls are reported neither early nor late |
| `supervision_intervals` | retry interval above transmit timeout | **violated**: an idle worker is reported as stalled |
| `system_modes` | 1 joint, 2 interfaces, managed storage | one interface per joint, no stale target is sent, rejections come from controllers |
| `system_restart` | shared storage | **violated**: a target outlives an error |
| `system_reactivate` | shared storage | **violated**: a rejection undoes the next configuration |
| `feedback_ordered` | 2 fields, 3 stores | whole and recent samples, refinement of `SampleRegister`; loads end |

Bounds. Each control call, transaction, activation and start has a number, and the
runs allow enough of them for the next one to meet what the last one left: two
activations and the disabling between them, two starts, two transactions (one in
the worker's batch, one queued behind it), three control calls (motion, recovery, and
the motion or completion that meets them). `MaxGeneration` stops new activations, never a
call that has begun. The refinement needs a single motor since motors share nothing but
the locks; `transport_commands` has two.

`driver_handshake` has two settings: one start with two attempts, or two starts with
one each and two repetitions of the stop frames. `MaxAnswers` bounds the answers on their
way, so that any answer may be lost behind another; one fault is a lost frame,
a failed worker or a power cycle. An
instance with three answers, two faults and four attempts for one motor was also checked.
`driver_powerloss` needs two faults, the power loss and the lost stop frame, and no more than
one motor and one attempt.

In `joint_commands` `Steps` is 12 where the code has 65535, and the ranges are 48 to 75
units wide, so that a step of the wire is several units, as it is on the bus, and
rounding shows on both sides. Directions, five gears, two offsets and four shapes of
ranges are combined; every other parameter is moved to and past its limits one at a time.
Targets are the limits, one unit beyond them, values between and `NaN`.

Ten ticks hold a recovery of four, an activation before it and the ticks to fail, and a
loss, a stall and a recovery one after another (the three gaps that
`ActiveMeansDelivering` adds up). For a switch, one joint with two interfaces gives
hand-over between controllers and a publication that fails; `Joints` may be larger: two
joints add a publication that is half done, not run here. The properties of
`system_modes` are checked for managed storage only. Three stores let a load be
overtaken twice.

Fairness. `CanTransport` is weakly fair to the worker, which is the only thread that
holds a mutex across steps, and strongly fair to the others, which wait for a
mutex that is free again and again (a `std::mutex` that starves nobody). Waits with
a deadline end; the publisher returns. No caller is obliged to call and nothing
has to fail. A publisher that never returns (CHANGELOG.rst:25, issue #31) blocks
`stop`, so the assumption is necessary. `AtomicMotorFeedback` is weakly fair to a
store and a load that have begun. `RobStrideDriver` is weakly fair to a lifecycle call
that has begun (all its waits have timeouts), to the worker as far as it handles its
queue (the frame may be lost all the same), and to the watchdog of a motor that
nobody feeds.

## Disagreements between code and text

1. **Idle reported as stalled** (`supervision_intervals`). Queuing motion stamps
   `active_work_progress_ns_` (can_transport.cpp:214-215) even if the motor is recovering
   and the frame must not be sent. With a retry interval longer than the transmit
   timeout, nothing clears the clock in time and `health` reports a stall, against
   README.md:190-192 and the test DoesNotTreatAnIdleActiveTransportAsStalled. With the
   defaults (100 ms and 1000 ms) a stall is real but its clock may start up to one retry
   interval early, which is what `StallIsReal` says.
2. **A target outlives an error** (`system_restart`). `claimed` and `command` survive
   `on_error`, so that the next activation sends the old position target before any
   controller has asked for it, and a controller that claims the interface then is
   given that target, not the measured position (README.md:253-255).
3. **A rejection undoes the next configuration** (`system_reactivate`).
   `command_rejected_` is tested before `active_` (driver.cpp:251) and cleared at the end
   of `start`, so a `write` between configuration and activation fails again
   (README.md:266-267).
4. **No watchdog after a power loss** (`driver_powerloss`). README.md:332-335 has the watchdog
   rule out zero "so that loss of host commands eventually forces the motor back to Reset
   mode", and README.md:468-471 calls it the final fallback when the stop frames are lost.
   In the run the motor confirms its parameters, loses its power, and is enabled by the
   last frame of `start`; the hardware is active, is deactivated, the stop frame is lost,
   and the motor, which nobody feeds and whose watchdog is off, stays in Run mode. A motor
   that restarts while it is active and is enabled by a recovery (driver.cpp:240) ends
   the same way. It takes a motor that forgets what was not saved, as assumed above.

2 and 3 rest on the account of controller_manager given above. A fifth disagreement
depends on the processor and has no run: see `AtomicMotorFeedback` above.

## Proofs

`CanTransport_proofs`, for every number of motors and every bound:

- `TypeCorrect`: `TypeOK` is not inductive, since `transactions_in_flight` is decreased by
  the length of the worker's batch and reset by `stop`. `TypeInv` adds that the counter
  covers the batch while the worker publishes, and that `stop` clears it, and `start`
  spawns a worker, only when there is none.
- `OldActivationsStayClosed` (`NoStaleActivation`): frames the worker has checked under
  `publisher_mutex_` belong to the current generation, and `fence` moves only under that
  mutex.
- `FailedTransportIsDisabled` (`FailureClosesGate`): `GateInv` follows which thread is
  about to clear the flag.
- `CommandsMoveForward` (`LatestCommandWins`) and `RecoveryHoldsMotion`
  (`MotionHeldDuringRecovery`): `CommandInv` orders, per motor, the last frame
  published, the frame in the worker's batch, the frame in the slot and the current call;
  frames in the slot of a held motor are younger than the hold, those in the batch older
  or stopped by the second check.
- `NoWakeupIsLost` (`NoLostWakeup`): `WakeInv` says that no frame of an activation that
  is being closed can become sendable, that the owner waits only while transactions are
  in flight, so that owner and worker never wait together and no `notify_one` is spent on
  the owner, and that whoever gave the sleeping worker something to do has yet to notify.

`CommandBus_proofs`, as general:

- `OrderInv` numbers the deque and the rest of the one the worker swapped, counting up to
  `sent`. `DrainInv` says that nothing outstanding has been skipped unless the transport
  has failed, that the worker rests and exits with everything handed over, and where the
  owner knows that nothing is outstanding; it needs `ClosingInv`, that the running flag
  stays clear from `stop_close` to the join, and one exception: a transaction the worker
  has decided to publish is dealt with even if the transport fails in between.
- `NothingIsLostOrReordered` (`TransactionsInOrder`), `AcknowledgedMeansPublishedOrDropped`
  (`AckMeansPublishedOrDropped`) and `StopLosesNothing` (`StopDrainsTransactions`) follow.
  All three speak of transactions that are published or dropped without an endpoint.
- `TransportIsACommandBus` (`ImplementsCommandBus`): with the invariants of both modules
  every step of the four threads is a step of `CommandBus` or a stutter. The fence closes
  activations, a flag set or reset is a failure or a recovery, `EmitTransaction` hands
  over the next number or drops it, `StopClear` writes off what a failed run has left and is a
  stutter otherwise, and `EmitActive` publishes a newer frame of an open activation.

`AtomicMotorFeedback_proofs`, for any fields, readers and stores:

- `TypeCorrect` (`TypeOK`), whether accesses are ordered or not: the sequence counts
  the increments of the stores.
- `ConsistentIfOrdered` (`SampleIsConsistent`) and `RecentIfOrdered` (`SampleIsRecent`),
  assuming `Ordered`. The invariant ties a load to the sequence number it started from:
  as long as that number stands, what has been loaded belongs to the sample it
  announces; the second number is loaded after all fields.
- `FeedbackIsARegister` (`ImplementsRegister`), assuming `Ordered`: a load whose second
  number equals the first reads what is stored at that moment, all other accesses
  stutter.
- `RetriesAreDeserved`: ordered or not, a load goes round again only if the sequence
  has moved since it began.

`RobStrideDriver_proofs`, for every number of motors, all settings and all bounds of
attempts, answers and faults:

- `TypeCorrect` (`TypeOK`), with `FramesNameParameters`: only reads and writes carry an
  index.
- `ConfiguredBeforeRunning` (`RunningMotorsAreConfigured`): `ConfiguredInv` says that
  answers and what was heard of them are true, that the joints `start` has passed are
  configured, and that enable frames are queued, or the gate is open, only when all are:
  of every motor that has not lost its power since. A power loss leaves old answers on
  their way that have become untrue; who might be believed for one of them stays in
  `restarted`.
- `StopsAreFinal` (`StopIsFinal`, which the refinement below contains): `SafeInv`
  adds that while the stop lasts nothing
  queued follows that enables a motor, so that who took a stop frame stays in Reset.
- `ConfirmedStopsAreReal` (`ConfirmedStopIsReal`): `ConfirmedInv` says that after a
  quiet stop every report of Reset mode on its way, or heard, is of a motor that is in
  Reset mode.
- `LossesAreSurvived` (`StopSurvivesLosses`): `StopInv` counts frames without a
  recursive definition: every motor is in Reset mode with nothing ahead that enables it,
  or has, behind whatever enables it, an increasing sequence of places in the queue with
  its stop frames, as long as the repetitions sent less the frames lost.
- `ActivationsAreReal` (`ActivationIsReal`): `RealInv` follows a start from its first
  frame: nothing reports Run mode before the enable frames, no zero is queued behind
  what makes a motor report, and a report of Run mode, on its way or heard, is of a motor
  that has run and has no zero, and no report older than its zero, behind it.
- `DriverKeepsItsPromise` (`ImplementsLifecycle`): `PromiseInv` joins `SafeInv`,
  `StopIsFinal`, `ConfirmedInv`, `RealInv` and `AfterInv` (who stops knows the state
  that follows). With it every step is one of `MotorLifecycle` or a stutter:
  a motor enters Run mode only on an enable frame, which makes it configured and not
  stopped for good, and in a confirmed stop nothing that could do so is left.
- `CallsHaveABudget` and `CallsComeToAnEnd`: `Remaining` counts the steps the owner may
  still take in its call, from the joints, attempts and repetitions left. It is at most
  `Budget`, falls with each step of the owner and is untouched by everyone else, since
  losses only turn a confirmation into a time-out. Apart from fairness, this is what
  `CallsReturn` rests on.

`RecoverySupervision_proofs`, for every number of motors, all settings and any horizon:

- `TypeCorrect` (`TypeOK`). Supervision is a loop over the joints that may end early;
  `FirstFailing` is the least joint at which it ends, and what each joint gets follows
  from its place before, at or behind it.
- `HoldsAreRecoveries` (`HoldsMatchRecoveries`), `RecoveriesEnd` (`NoEndlessRecovery`),
  `RecoveriesGetTheirTime` (`RecoveryGetsItsTime`) and `RetriesAreSpaced`
  (`RetriesKeepTheirDistance`) rest on `EpisodesInv`, `RetriesInv` and `AttemptsInv`: a
  recovery that lasts was begun within its timeout, has an attempt no older than the
  retry interval, and none in the future.
- `LossesPersist` (`LossIsPersistent`) ties the loss clock to the last tick at which the
  bridge was there.
- `StallsAreReal` (`StallIsReal`), assuming `RetryInterval < TransmitTimeout`; without it
  the statement is false, which `supervision_intervals` shows. `WorkerInv`, `ProgressInv`
  and `IdleInv` follow which frames the worker could have sent since the clock was set.
  `IdleWorkersAreNotBlamed` (`IdleIsNotStalled`), under the same assumption, is the
  property that `supervision_intervals` refutes: the divergence takes these intervals.
- `ActiveHardwareDelivers` (`ActiveMeansDelivering`): `SentInv` finds something newer than
  the last delivery on its way, `ClockInv` keeps the stall clock running for it, and
  `GapsInv` bounds the silence by a retry interval between deliveries, a loss shorter than
  the timeout and a stay in the publisher shorter than the timeout.

`RobStrideSystem_proofs`, for any finite sets of joints and interfaces, managed storage
or not:

- `TypeCorrect` (`TypeOK`) and `ExclusiveClaims` (`OneInterfacePerJoint`): `ClaimsInv`
  says that the claims are exclusive now and after the switch that has been prepared.
- `NoStaleTargets` (`SentTargetsWereAssigned`) and `OnlyControllersAreRejected`
  (`RejectionsAreAuthored`): `AssignedInv`, `GivenInv` and `AuthoredInv` tie what `write`
  will read to the histories while no synchronization is outstanding, the first of
  active hardware, the others across errors and restarts.
- Two theorems bound the divergences that the runs show. `StaleTargetsTakeAnError`:
  `InitialTargetIsMeasured` holds, for shared storage too, in every behaviour in which
  hardware is unconfigured by cleanup only, because then no claim outlives anything.
  `ActiveHardwareIsNotRefused`: whatever
  `system_reactivate` refuses, the hardware is not active.

`Protocol_proofs` and `JointCommands_proofs` hold what the arithmetic promises for all
ranges, gears and offsets: a code fits the wire for every value, `NaN` included, and every
order of the ends of a range (`EncodeIsACode`), and is off by at most half a step in an
ordered range; an echo of the host's own frame is taken for an answer just when it reads a
parameter of a motor that has the host's identifier (`EchoesAreNoAnswers`: nothing in
the parser or `initialize` excludes that); read-back parameters are what was written; accepted
configurations make every position within the command limits convertible
(`PositionsAreConvertible`, from the monotony of both transforms), nothing that the parser
accepted is refused by `initialize` (`ParsedIsInitialized`), it satisfies what the other
modules assume of their constants (`ParsedIsAssumed`: the number of motors, retries,
repetitions and intervals, so that the theorems above speak of all hardware that gets past
the parser), and `RejectionsAreDeserved`
(`OnlyRoundingIsRejected`). Two theorems assume `Steps < 65536`, that codes have at most
16 bits: `NoTargetIsClipped` (`TargetsArriveUnclipped`), from `FramesInv`, that
what is queued was made from the joints' targets, all of them sendable, and `ReportsAreOfTargets`
(`ReportIsWhatWasCommanded`), from `ReportsInv`, the round trip of a value through both
transforms and the code, and the fact that no two joints share an identifier.

The assumptions are those of the modules (`MotorCountAssumption`, `NoFrameAssumption`,
`BoundsAssumption`, `FieldsAssumption`, `SettingsAssumption`, `ProtocolAssumption`,
`SnapAssumption`, `ConfigAssumption`, `DescriptionsAssumption` and
`InterfacesAssumption`), which TLC evaluates in the runs of their modules.

Only model-checked: all liveness. Fairness is defined with ENABLED, which the provers
cannot expand, so that they can say nothing of an action that must happen. What part of it is a matter of safety is proved where it was found: no wakeup is
lost (`NoWakeupIsLost`), no load retries without a store (`RetriesAreDeserved`), and a
lifecycle call has a ranking that its steps lower (`CallsComeToAnEnd`). TLC alone
checks `LoadReturns`, `CallsReturn`, `UnattendedMotorsStop` and the three liveness
properties of the transport.
The four divergences are shown by TLC as counterexamples; the theorems that mention them
say under which conditions the same statements hold.

## Not modelled

- How numbers are written (`std::stod` and `std::stoull`, driver_config.cpp:35, 55): a description holds
  what its texts say. So are messages, log throttling and the text of diagnostics,
  which have no effect on the control logic.
- `make_write_float` and the single precision of its value: no caller in `src/`.
- Endpoint discovery in `wait_for_endpoints` is its result; its race with the worker for
  the loss clock (can_transport.cpp:427) is a hazard with a note.
- Tests, examples, launch and xacro files configure or exercise the program.

## Plan

Done, in this order: `CanTransport` with `CommandBus` and proofs; `RecoverySupervision`;
`RobStrideSystem`; `AtomicMotorFeedback` with proofs; `RobStrideDriver` with proofs;
`Protocol`, `JointData`, `DriverConfig`, `JointCommands` with proofs; proofs of
`RobStrideSystem` and `RecoverySupervision`; the refinements of `CommandBus`,
`MotorLifecycle` and `SampleRegister`; the conditions of the divergences; the budget of
lifecycle calls. What would come next:

1. `EndpointStatus`: the two accesses of `update_endpoint_status` from two threads
   (can_transport.cpp:425-434).
2. Composition of `RecoverySupervision` with the detail of `CanTransport`: an abstract
   supervision that both implement, and `RecoverySupervision` proved to implement it.
   Rankings for the transport's liveness, as for the driver's calls.
3. A bus that gives frames back to their sender, with a motor that has the host's
   identifier (driver_config.cpp:369).
