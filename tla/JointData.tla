----------------------------- MODULE JointData ------------------------------
(***************************************************************************)
(* What a joint knows of its motor, and the transforms between the two     *)
(* (robstride_driver/include/robstride_driver/joint_data.hpp).             *)
(*                                                                         *)
(* A joint has limits, command_limits, a direction, a gear and a           *)
(* position_offset; the gear ratio is gear.num / gear.den.                 *)
(***************************************************************************)
EXTENDS Protocol

CONSTANT Snap        \* units a position may be off its range: 8 neighbours

ASSUME SnapAssumption == Snap \in Nat

\* Limits.
Ranges == [min : Int, max : Int]
MotorLimits ==
  [position : Ranges, velocity : Ranges, effort : Ranges, effort_wire : Ranges,
   kp_max : Int, kd_max : Int]

Times(v, gear) == Nearest(v * gear.num, gear.den)
Over(v, gear) == Nearest(v * gear.den, gear.num)

Ordered(range) == range.min < range.max

\* CommandLimits::contains_position, contains_velocity and contains_effort.
Contains(range, v) == v # NaN /\ range.min <= v /\ v <= range.max

\* invalid_neutral_range finds nothing; the position is excluded.
Neutral(range) == Ordered(range) /\ Contains(range, 0)
NeutralRangesValid(j) ==
  /\ Neutral(j.command_limits.velocity) /\ Neutral(j.command_limits.effort)
  /\ Neutral(j.limits.velocity) /\ Neutral(j.limits.effort)
  /\ Neutral(j.limits.effort_wire)

-----------------------------------------------------------------------------
(* Positions.                                                               *)

ToMotor(j, position) == Times(j.direction * (position - j.position_offset), j.gear)
ToJoint(j, position) == j.direction * Over(position, j.gear) + j.position_offset

\* motor_position_within_roundoff.
WithinRoundoff(j, position) ==
  /\ Ordered(j.limits.position)
  /\ j.limits.position.min - Snap <= position
  /\ position <= j.limits.position.max + Snap

\* std::minmax.
MinMax(first, second) ==
  IF first <= second THEN [min |-> first, max |-> second]
  ELSE [min |-> second, max |-> first]

JointRange(j) ==
  MinMax(ToJoint(j, j.limits.position.min), ToJoint(j, j.limits.position.max))

\* joint_position_range has a value.
HasJointRange(j) ==
  /\ j.direction \in {1, -1}
  /\ j.gear # NaN /\ j.gear.num > 0
  /\ j.position_offset # NaN
  /\ Ordered(j.limits.position)
  /\ Ordered(JointRange(j))
  /\ WithinRoundoff(j, ToMotor(j, JointRange(j).min))
  /\ WithinRoundoff(j, ToMotor(j, JointRange(j).max))

\* checked_joint_to_motor_position has a value, and what it is.
Convertible(j, position) ==
  /\ HasJointRange(j)
  /\ Contains(JointRange(j), position)
  /\ WithinRoundoff(j, ToMotor(j, position))

MotorPosition(j, position) == Clamp(ToMotor(j, position), j.limits.position)

-----------------------------------------------------------------------------
(* Velocities and efforts.                                                  *)

MotorVelocity(j, velocity) == Times(j.direction * velocity, j.gear)
JointVelocity(j, velocity) == j.direction * Over(velocity, j.gear)

MotorEffort(j, effort) == Over(j.direction * effort, j.gear)
JointEffort(j, effort) == Times(j.direction * effort, j.gear)
=============================================================================
