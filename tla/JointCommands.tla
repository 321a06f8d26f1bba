---------------------------- MODULE JointCommands ---------------------------
(***************************************************************************)
(* The numbers of RobStrideDriver (robstride_driver/src/driver.cpp): a     *)
(* configuration is parsed, targets in joint coordinates become codes in   *)
(* motion frames (send_commands), and the codes the motors report become   *)
(* states in joint coordinates again (receive_frame).                      *)
(*                                                                         *)
(* A joint has at most one claimed interface (RobStrideSystem); what the   *)
(* others hold is not read.  The controllers write their targets in the    *)
(* cycle that sends them.  Activation is RobStrideDriver's, and the way of *)
(* a queued frame to the bus is CanTransport's.                            *)
(***************************************************************************)
EXTENDS DriverConfig

CONSTANTS
  Configurations,    \* hardware descriptions
  Values             \* targets, beside the ends of the command limits

ASSUME DescriptionsAssumption ==
  /\ Values \subseteq Int
  /\ \A info \in Configurations :
       /\ Len(info.joints) \in Nat /\ DOMAIN info.joints = 1..Len(info.joints)
       /\ IsHardwareInfo(info.hardware)
       /\ \A i \in DOMAIN info.joints : IsJointInfo(info.joints[i])

VARIABLES
  phase,             \* what on_init made of the description, and active_
  settings, joints,  \* settings_ and joints_
  target,            \* per joint: the claimed interface and its command
  snapshot,          \* command_snapshot_: the frame of each joint
  queued,            \* what the transport holds: frames, or none
  command_rejected,
  feedback           \* per joint: joint.feedback, once it answers a queued frame

configuration == <<settings, joints>>
vars == <<phase, configuration, target, snapshot, queued, command_rejected, feedback>>

Interfaces == {"position", "velocity", "effort"}
NoTarget == [interface |-> "none", value |-> 0]
NoFrame == [id |-> 0, data |-> NoData]
NoFeedback == [position |-> NaN, velocity |-> NaN, effort |-> NaN,
               temperature |-> NaN, fault |-> 0]

Init ==
  /\ phase = "uninitialized"
  /\ settings = <<>> /\ joints = <<>> /\ target = <<>>
  /\ snapshot = <<>> /\ queued = <<>>
  /\ command_rejected = FALSE
  /\ feedback = <<>>

\* on_init: the parser throws, or the driver refuses, or all is well.
Configure(info) ==
  /\ phase \in {"uninitialized", "failed", "refused"}
  /\ phase' = IF ~Parsed(info) THEN "failed"
              ELSE IF InitializeAccepts(SettingsOf(info.hardware), ParsedJoints(info))
              THEN "inactive" ELSE "refused"
  /\ IF phase' = "inactive"
     THEN settings' = SettingsOf(info.hardware) /\ joints' = ParsedJoints(info)
     ELSE settings' = <<>> /\ joints' = <<>>
  /\ target' = [i \in DOMAIN joints' |-> NoTarget]
  /\ snapshot' = [i \in DOMAIN joints' |-> NoFrame]
  /\ feedback' = [i \in DOMAIN joints' |-> NoFeedback]
  /\ queued' = <<>> /\ command_rejected' = FALSE

\* The end of a successful start, and stop.
Start ==
  /\ phase = "inactive"
  /\ phase' = "active"
  /\ command_rejected' = FALSE
  /\ UNCHANGED <<configuration, target, snapshot, queued, feedback>>

Stop ==
  /\ phase = "active"
  /\ phase' = "inactive"
  /\ queued' = <<>>
  /\ feedback' = [i \in DOMAIN joints |-> NoFeedback]
  /\ UNCHANGED <<configuration, target, snapshot, command_rejected>>

-----------------------------------------------------------------------------
(* send_commands.                                                           *)

Claims(t, interface) == t.interface = interface
Claimed(t, interface, v) == IF Claims(t, interface) THEN v ELSE 0

InCommandLimits(j, t) ==
  t.interface # "none" => Contains(j.command_limits[t.interface], t.value)

WithinMotorRange(j, t) ==
  /\ Claims(t, "position") => Convertible(j, t.value)
  /\ Claims(t, "velocity") => Contains(j.limits.velocity, MotorVelocity(j, t.value))
  /\ Claims(t, "effort") =>
       /\ Contains(j.limits.effort, MotorEffort(j, t.value))
       /\ Contains(j.limits.effort_wire, MotorEffort(j, t.value))

Sendable(j, t) == InCommandLimits(j, t) /\ WithinMotorRange(j, t)

MotionFrame(j, t) ==
  MakeMotionCommand(j.can_id, j.limits,
    Claimed(t, "position", MotorPosition(j, t.value)),
    Claimed(t, "velocity", MotorVelocity(j, t.value)),
    Claimed(t, "effort", MotorEffort(j, t.value)),
    Claimed(t, "position", j.kp),
    IF t.interface \in {"position", "velocity"} THEN j.kd ELSE 0)

\* The joints before the first one that is rejected have their new frames.
SendCommands ==
  /\ phase = "active" /\ ~command_rejected
  /\ LET sendable(i) == Sendable(joints[i], target'[i]) IN
     /\ snapshot' = [i \in DOMAIN joints |->
          IF \A k \in 1..i : sendable(k)
          THEN MotionFrame(joints[i], target'[i]) ELSE snapshot[i]]
     /\ command_rejected' = ~(\A i \in DOMAIN joints : sendable(i))
  /\ queued' = IF command_rejected' THEN <<>> ELSE snapshot'
  /\ feedback' = [i \in DOMAIN joints |-> NoFeedback]
  /\ UNCHANGED <<phase, configuration>>

\* What a controller may write: in, at and beyond the limits, or no number.
Targets(j) ==
  {NoTarget} \cup
  UNION {LET limits == j.command_limits[interface] IN
         {[interface |-> interface, value |-> v] :
            v \in {limits.min - 1, limits.min, limits.max, limits.max + 1, NaN}
                    \cup Values} : interface \in Interfaces}

\* In a cycle one target changes; several change in several cycles.
Cycle ==
  /\ \E i \in DOMAIN joints : \E t \in Targets(joints[i]) :
       target' = [target EXCEPT ![i] = t]
  /\ SendCommands

-----------------------------------------------------------------------------
(* receive_frame.                                                           *)

\* Mutant: the offset is mirrored with the position.
OffsetMirrored(j, position) == j.direction * (Over(position, j.gear) + j.position_offset)
ReportedPosition(j, position) ==
  j.direction * Over(position, j.gear) + j.position_offset

ReceiveFrame(frame) ==
  /\ UNCHANGED <<phase, configuration, target, snapshot, queued, command_rejected>>
  /\ IF /\ ~frame.is_error /\ ~frame.is_rtr
        /\ ~IsParameterResponse(frame, settings.host_can_id)
        /\ IsFeedback(frame, settings.host_can_id)
     THEN feedback' = [i \in DOMAIN joints |->
            IF joints[i].can_id # MotorOf(frame) THEN feedback[i]
            ELSE LET j == joints[i] decoded == FeedbackOf(frame, j.limits) IN
                 [position |-> ReportedPosition(j, decoded.position),
                  velocity |-> JointVelocity(j, decoded.velocity),
                  effort |-> JointEffort(j, decoded.effort),
                  temperature |-> decoded.temperature,
                  fault |-> decoded.fault_flags]]
     ELSE UNCHANGED feedback

Received(frame) ==
  [id |-> frame.id, data |-> frame.data, dlc |-> 8, is_extended |-> TRUE,
   is_error |-> FALSE, is_rtr |-> FALSE]

\* A motor that is where the queued frame wants it reports its codes.
Report(motor, host, command) ==
  [id |-> BaseId(TypeFeedback, 2 * 16384 + motor, host),
   data |-> PutBe16(PutBe16(command.data, 4, AreaOf(command.id)), 6, 250)]

Obey(i) ==
  /\ i \in DOMAIN queued
  /\ ReceiveFrame(Received(Report(joints[i].can_id, settings.host_can_id, queued[i])))

\* What else is heard: the echo of a frame, or the report to another host.
Overhear(i) ==
  /\ i \in DOMAIN queued
  /\ \/ ReceiveFrame(Received(queued[i]))
     \/ ReceiveFrame(Received(
          Report(joints[i].can_id, (settings.host_can_id + 1) % 256, queued[i])))

-----------------------------------------------------------------------------
Next ==
  \/ \E info \in Configurations : Configure(info)
  \/ Start \/ Stop \/ Cycle
  \/ \E i \in DOMAIN joints : Obey(i) \/ Overhear(i)

Spec == Init /\ [][Next]_vars

-----------------------------------------------------------------------------
(* Properties.  Distances are multiplied by what they are divided by.       *)

Distance(a, b) == IF a >= b THEN a - b ELSE b - a

WireRange(j, interface) ==
  IF interface = "effort" THEN j.limits.effort_wire ELSE j.limits[interface]

\* Where the motor should be for a value, without any rounding: a ratio.
Ideal(j, interface, v) ==
  CASE interface = "position" ->
         [num |-> j.direction * (v - j.position_offset) * j.gear.num, den |-> j.gear.den]
    [] interface = "velocity" -> [num |-> j.direction * v * j.gear.num, den |-> j.gear.den]
    [] interface = "effort" -> [num |-> j.direction * v * j.gear.den, den |-> j.gear.num]

CodeOf(frame, interface) ==
  CASE interface = "position" -> Be16(frame.data, 0)
    [] interface = "velocity" -> Be16(frame.data, 2)
    [] interface = "effort" -> AreaOf(frame.id)

\* A code stands for a ratio up to half a step of the wire and some units.
StandsFor(code, range, ideal, units) ==
  Distance(2 * ideal.den * (Steps * range.min + code * Width(range)),
           2 * Steps * ideal.num)
    <= ideal.den * (Width(range) + 2 * Steps * units)

Half == 1   \* of a unit, rounded up

FrameMeans(j, frame, t) ==
  /\ DestinationOf(frame.id) = j.can_id
  /\ t.interface # "none" =>
       StandsFor(CodeOf(frame, t.interface), WireRange(j, t.interface),
                 Ideal(j, t.interface, t.value), Snap + Half)
  /\ \A interface \in {"velocity", "effort"} \ {t.interface} :
       StandsFor(CodeOf(frame, interface), WireRange(j, interface),
                 [num |-> 0, den |-> 1], 0)
  /\ t.interface # "position" => Be16(frame.data, 4) = 0
  /\ t.interface \notin {"position", "velocity"} => Be16(frame.data, 6) = 0

\* What is queued for a motor decodes to the target of its joint, in whichever
\* direction, gear ratio and range: no target is clipped to an end of a range, no joint
\* keeps the frame of an earlier batch, and what is not claimed is neutral
\* (send_commands, README.md: "rejected, never clamped").
TargetsArriveUnclipped ==
  \A i \in DOMAIN queued : FrameMeans(joints[i], queued[i], target[i])

\* The motor value of a target exceeds a range by rounding only.
OffByRounding(j, t) ==
  LET over(v, range) ==
        /\ ~Contains(range, v)
        /\ Contains([min |-> range.min - Tolerance, max |-> range.max + Tolerance], v) IN
  \/ Claims(t, "velocity") /\ over(MotorVelocity(j, t.value), j.limits.velocity)
  \/ Claims(t, "effort") /\ \/ over(MotorEffort(j, t.value), j.limits.effort)
                            \/ over(MotorEffort(j, t.value), j.limits.effort_wire)

\* A target within the command limits that configuration accepted is not
\* rejected at run time, a position never and a velocity or an effort at most for
\* the rounding that contains_range tolerates (parse_joint, send_commands).
OnlyRoundingIsRejected ==
  command_rejected =>
    \E i \in DOMAIN joints :
      ~InCommandLimits(joints[i], target[i]) \/ OffByRounding(joints[i], target[i])

\* A motor that reports the codes it was sent is reported at the target, up to the
\* steps of the wire and the rounding of both transforms (receive_frame).
ReportIsWhatWasCommanded ==
  \A i \in DOMAIN feedback :
    LET j == joints[i] t == target[i] w == Width(WireRange(j, t.interface)) IN
    t.interface # "none" /\ feedback[i] # NoFeedback =>
      LET d == Distance(feedback[i][t.interface], t.value) IN
      IF t.interface = "effort"
      THEN 2 * Steps * j.gear.den * d
             <= j.gear.num * (w + 2 * Steps) + Steps * j.gear.den
      ELSE 2 * Steps * j.gear.num * d
             <= j.gear.den * (w + 2 * Steps * (1 + Snap)) + Steps * j.gear.num
=============================================================================
