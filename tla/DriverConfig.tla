---------------------------- MODULE DriverConfig ----------------------------
(***************************************************************************)
(* From a hardware description to settings and joints                      *)
(* (robstride_ros2_control/src/driver_config.cpp), the profiles of the     *)
(* motors (robstride_driver/src/motor_profile.cpp), and what               *)
(* RobStrideDriver::initialize asks for.                                   *)
(*                                                                         *)
(* Parameters are functions from the keys that are given to what their     *)
(* texts say: a number, a ratio, a name or a Boolean, and NaN for a text   *)
(* that says none, or no finite one.                                       *)
(***************************************************************************)
EXTENDS JointData, Sequences, FiniteSets

CONSTANTS
  Profiles,          \* the limits of the known models
  Tolerance,         \* units that 1e-12 of a limit is, in contains_range
  MaxTicks           \* the largest uint32_t

ASSUME ConfigAssumption ==
  /\ Tolerance \in Nat /\ MaxTicks \in Nat \ {0}
  /\ "EL05" \in DOMAIN Profiles
  /\ \A model \in DOMAIN Profiles : Profiles[model] \in MotorLimits

MaxInt == 2147483647

Or(parameters, key, default) ==
  IF key \in DOMAIN parameters THEN parameters[key] ELSE default

\* parse_number and parse_integer succeed.
Number(v) == v # NaN
Whole(v, min, max) == v # NaN /\ min <= v /\ v <= max

\* What the texts of a joint may say.
Quantities == Int \cup {NaN}
Ratios == [num : Int, den : Nat \ {0}]

-----------------------------------------------------------------------------
(* The limits of the motor.                                                 *)

MotorProfile(model) == Profiles[IF model = "EduLite05" THEN "EL05" ELSE model]

LimitKeys ==
  {"position_min", "position_max", "velocity_min", "velocity_max", "effort_min",
   "effort_max", "effort_wire_min", "effort_wire_max", "kp_max", "kd_max"}
RequiredLimits == LimitKeys \ {"effort_wire_min", "effort_wire_max"}

\* What a parameter has to agree with.
Expected(limits) ==
  [position_min |-> limits.position.min, position_max |-> limits.position.max,
   velocity_min |-> limits.velocity.min, velocity_max |-> limits.velocity.max,
   effort_min |-> limits.effort.min, effort_max |-> limits.effort.max,
   effort_wire_min |-> limits.effort_wire.min,
   effort_wire_max |-> limits.effort_wire.max,
   kp_max |-> limits.kp_max, kd_max |-> limits.kd_max]

Model(p) == Or(p, "model", "custom")

CustomLimits(p) ==
  [position |-> [min |-> p.position_min, max |-> p.position_max],
   velocity |-> [min |-> p.velocity_min, max |-> p.velocity_max],
   effort |-> [min |-> p.effort_min, max |-> p.effort_max],
   effort_wire |-> [min |-> Or(p, "effort_wire_min", p.effort_min),
                    max |-> Or(p, "effort_wire_max", p.effort_max)],
   kp_max |-> p.kp_max, kd_max |-> p.kd_max]

LimitsOf(p) == IF Model(p) = "custom" THEN CustomLimits(p) ELSE MotorProfile(Model(p))

LimitsGiven(p) ==
  /\ \A key \in LimitKeys \cap DOMAIN p : Number(p[key])
  /\ IF Model(p) = "custom"
     THEN RequiredLimits \subseteq DOMAIN p
     ELSE /\ Model(p) \in DOMAIN Profiles \cup {"EduLite05"}
          /\ \A key \in LimitKeys \cap DOMAIN p :
               p[key] = Expected(MotorProfile(Model(p)))[key]

-----------------------------------------------------------------------------
(* parse_joint.                                                             *)

CommandKeys ==
  {"command_position_min", "command_position_max", "command_velocity_min",
   "command_velocity_max", "command_effort_min", "command_effort_max"}

NumberKeys ==
  LimitKeys \cup CommandKeys \cup {"can_id", "direction", "position_offset"}

\* Texts that are read as numbers, and one that is read as a ratio.
IsJointInfo(info) ==
  LET p == info.parameters IN
  /\ \A key \in NumberKeys \cap DOMAIN p : p[key] \in Quantities
  /\ "gear_ratio" \in DOMAIN p => p.gear_ratio \in Ratios \cup {NaN}

\* What has to be there is there and says a number.
Complete(p) ==
  /\ {"can_id", "kp", "kd", "can_timeout_ticks"} \subseteq DOMAIN p
  /\ Whole(p.can_id, 1, 255)
  /\ LimitsGiven(p)
  /\ Number(p.kp) /\ Number(p.kd)
  /\ Whole(p.can_timeout_ticks, 1, MaxTicks)
  /\ \A key \in ({"direction", "gear_ratio", "position_offset"} \cup CommandKeys)
                  \cap DOMAIN p : Number(p[key])

\* The joint before its command limits are known.
Uncommanded(p) ==
  [can_id |-> p.can_id, limits |-> LimitsOf(p), kp |-> p.kp, kd |-> p.kd,
   can_timeout_ticks |-> p.can_timeout_ticks,
   direction |-> Or(p, "direction", 1),
   gear |-> Or(p, "gear_ratio", [num |-> 1, den |-> 1]),
   position_offset |-> Or(p, "position_offset", 0)]

GainsValid(j) ==
  /\ Ordered(j.limits.position) /\ Ordered(j.limits.velocity)
  /\ Ordered(j.limits.effort) /\ Ordered(j.limits.effort_wire)
  /\ j.limits.kp_max > 0 /\ j.limits.kd_max > 0
  /\ j.kp \in 0..j.limits.kp_max /\ j.kd \in 0..j.limits.kd_max

TransformValid(j) ==
  /\ j.direction \in {1, -1}
  /\ j.gear.num > 0
  /\ GainsValid(j)
  /\ HasJointRange(j)

\* Mutant: the ends of a range keep their order when the direction is -1.
UnorderedRange(first, second) == [min |-> first, max |-> second]
OrderedRange(first, second) == MinMax(first, second)

CommandLimits(p, j) ==
  LET velocity == OrderedRange(JointVelocity(j, j.limits.velocity.min),
                               JointVelocity(j, j.limits.velocity.max))
      effort == OrderedRange(JointEffort(j, j.limits.effort.min),
                             JointEffort(j, j.limits.effort.max)) IN
  [position |-> [min |-> Or(p, "command_position_min", JointRange(j).min),
                 max |-> Or(p, "command_position_max", JointRange(j).max)],
   velocity |-> [min |-> Or(p, "command_velocity_min", velocity.min),
                 max |-> Or(p, "command_velocity_max", velocity.max)],
   effort |-> [min |-> Or(p, "command_effort_min", effort.min),
               max |-> Or(p, "command_effort_max", effort.max)]]

JointOf(p) ==
  LET j == Uncommanded(p) IN
  [can_id |-> j.can_id, limits |-> j.limits, kp |-> j.kp, kd |-> j.kd,
   can_timeout_ticks |-> j.can_timeout_ticks, direction |-> j.direction,
   gear |-> j.gear, position_offset |-> j.position_offset,
   command_limits |-> CommandLimits(p, j)]

\* An end may be off by what rounding explains.
ContainsRange(outer, inner) ==
  inner.min >= outer.min - Tolerance /\ inner.max <= outer.max + Tolerance

CommandsOrdered(j) ==
  /\ Ordered(j.command_limits.position) /\ Ordered(j.command_limits.velocity)
  /\ Ordered(j.command_limits.effort)

CommandsWithinWire(j) ==
  LET command == j.command_limits
      velocity == OrderedRange(MotorVelocity(j, command.velocity.min),
                               MotorVelocity(j, command.velocity.max))
      effort == OrderedRange(MotorEffort(j, command.effort.min),
                             MotorEffort(j, command.effort.max)) IN
  /\ Convertible(j, command.position.min) /\ Convertible(j, command.position.max)
  /\ ContainsRange(j.limits.velocity, velocity)
  /\ ContainsRange(j.limits.effort, effort)
  /\ ContainsRange(j.limits.effort_wire, effort)

\* Interfaces have a name and a data_type, which is "" when it is not given.
Names(interfaces) == {interfaces[i].name : i \in DOMAIN interfaces}

InterfacesValid(info) ==
  LET required == {"position", "velocity", "effort"}
      both == <<info.command_interfaces, info.state_interfaces>> IN
  /\ \A k \in 1..2 : \A i \in DOMAIN both[k] : both[k][i].data_type \in {"", "double"}
  /\ Names(info.command_interfaces) = required
  /\ Len(info.command_interfaces) = 3
  /\ required \subseteq Names(info.state_interfaces)
  /\ Names(info.state_interfaces) \subseteq required \cup {"temperature", "fault"}
  /\ Cardinality(Names(info.state_interfaces)) = Len(info.state_interfaces)

JointAccepted(info) ==
  LET p == info.parameters IN
  /\ Complete(p)
  /\ TransformValid(Uncommanded(p))
  /\ NeutralRangesValid(JointOf(p))
  /\ CommandsOrdered(JointOf(p))
  /\ CommandsWithinWire(JointOf(p))
  /\ InterfacesValid(info)

-----------------------------------------------------------------------------
(* parse_driver_configuration.                                              *)

Defaults ==
  [host_can_id |-> 253, can_tx_topic |-> "to_can_bus", can_rx_topic |-> "from_can_bus",
   can_rx_qos_depth |-> 32, feedback_timeout_ms |-> 3000,
   fail_on_feedback_timeout |-> TRUE, transmit_failure_timeout_ms |-> 1000,
   run_mode_recovery_timeout_ms |-> 500, run_mode_recovery_retry_interval_ms |-> 100,
   clear_faults_on_activate |-> TRUE, set_zero_on_activate |-> FALSE,
   shutdown_stop_repetitions |-> 3, shutdown_stop_interval_ms |-> 20,
   shutdown_confirmation_timeout_ms |-> 300, startup_connection_timeout_ms |-> 3000,
   startup_confirmation_timeout_ms |-> 500, startup_retries |-> 3]

Topics == {"can_tx_topic", "can_rx_topic"}
Flags == {"fail_on_feedback_timeout", "clear_faults_on_activate", "set_zero_on_activate"}
MayBeZero == {"shutdown_stop_interval_ms", "shutdown_confirmation_timeout_ms"}
IntegerKeys == DOMAIN Defaults \ (Topics \cup Flags)

\* Texts that are read as numbers and as Booleans.
IsHardwareInfo(hardware) ==
  /\ \A key \in IntegerKeys \cap DOMAIN hardware : hardware[key] \in Quantities
  /\ \A key \in Flags \cap DOMAIN hardware : hardware[key] \in BOOLEAN \cup {NaN}

SettingsOf(hardware) == [key \in DOMAIN Defaults |-> Or(hardware, key, Defaults[key])]

SettingsAccepted(hardware) ==
  LET settings == SettingsOf(hardware) IN
  /\ \A key \in Topics : settings[key] # "blank"
  /\ \A key \in Flags : settings[key] # NaN
  /\ \A key \in IntegerKeys :
       Whole(settings[key],
             IF key \in MayBeZero \cup {"host_can_id"} THEN 0 ELSE 1,
             CASE key = "host_can_id" -> 255
               [] key = "can_rx_qos_depth" -> 4096
               [] OTHER -> MaxInt)
  /\ settings.run_mode_recovery_retry_interval_ms
       <= settings.run_mode_recovery_timeout_ms

Distinct(can_ids) == \A a, b \in DOMAIN can_ids : a # b => can_ids[a] # can_ids[b]

ParsedJoints(info) == [i \in DOMAIN info.joints |-> JointOf(info.joints[i].parameters)]

Parsed(info) ==
  /\ SettingsAccepted(info.hardware)
  /\ info.joints # <<>>
  /\ \A i \in DOMAIN info.joints : JointAccepted(info.joints[i])
  /\ Distinct([i \in DOMAIN info.joints |-> info.joints[i].parameters.can_id])

-----------------------------------------------------------------------------
(* RobStrideDriver::initialize, which embedders call without the parser.    *)

InitializeAccepts(settings, joints) ==
  /\ joints # <<>>
  /\ settings.can_rx_qos_depth # 0
  /\ \A i \in DOMAIN joints :
       /\ NeutralRangesValid(joints[i])
       /\ joints[i].can_id # 0 /\ joints[i].can_timeout_ticks # 0
       /\ CommandsOrdered(joints[i])
  /\ Distinct([i \in DOMAIN joints |-> joints[i].can_id])
=============================================================================
