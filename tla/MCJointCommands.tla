-------------------------- MODULE MCJointCommands ---------------------------
(* Hardware descriptions for model checking: one quantity at a time is      *)
(* moved away from an ordinary joint, and the transforms are combined.      *)
EXTENDS JointCommands, TLC

TargetValues == {0, 1, -7, 13}

ScaledProfiles ==
  [EL05 |-> [position |-> [min |-> -30, max |-> 30],
             velocity |-> [min |-> -36, max |-> 36],
             effort |-> [min |-> -24, max |-> 24],
             effort_wire |-> [min |-> -24, max |-> 24], kp_max |-> 50, kd_max |-> 10]]

Ratio(num, den) == [num |-> num, den |-> den]

Ordinary ==
  [can_id |-> 1, can_timeout_ticks |-> 5, kp |-> 20, kd |-> 3,
   position_min |-> -30, position_max |-> 30, velocity_min |-> -36, velocity_max |-> 36,
   effort_min |-> -24, effort_max |-> 24, effort_wire_min |-> -30, effort_wire_max |-> 36,
   kp_max |-> 50, kd_max |-> 10]
OfModel(model) ==
  [can_id |-> 1, can_timeout_ticks |-> 5, kp |-> 20, kd |-> 3, model |-> model]

With(p, changes) ==
  [key \in DOMAIN p \cup DOMAIN changes |->
     IF key \in DOMAIN changes THEN changes[key] ELSE p[key]]
Without(p, key) == [k \in DOMAIN p \ {key} |-> p[k]]

Interface(name) == [name |-> name, data_type |-> "double"]
ThreeInterfaces == <<Interface("position"), Interface("velocity"), Interface("effort")>>

Joint(p) ==
  [parameters |-> p, command_interfaces |-> ThreeInterfaces,
   state_interfaces |-> ThreeInterfaces]
Hardware(parameters, joint_infos) == [hardware |-> parameters, joints |-> joint_infos]
One(p) == Hardware([host_can_id |-> 253], <<Joint(p)>>)

Transforms ==
  {With(Ordinary, [direction |-> d, gear_ratio |-> g, position_offset |-> o] @@ r) :
     d \in {1, -1}, g \in {Ratio(1, 1), Ratio(3, 1), Ratio(3, 2), Ratio(2, 3), Ratio(7, 1)},
     o \in {0, 7},
     r \in {[position_max |-> 30], [position_min |-> -11, position_max |-> 49],
            [velocity_min |-> -31, velocity_max |-> 44],
            [effort_min |-> -25, effort_wire_min |-> -25, effort_max |-> 36]}}

Changes ==
  {[command_position_min |-> -30], [command_position_min |-> -31],
   [command_position_max |-> 12], [command_position_max |-> -30],
   [command_velocity_min |-> -37, command_velocity_max |-> 38],
   [command_velocity_max |-> 39], [command_velocity_min |-> 5],
   [command_velocity_min |-> 0, command_velocity_max |-> 20],
   [command_effort_min |-> -26], [command_effort_min |-> -27],
   [command_effort_max |-> 10], [command_effort_max |-> NaN],
   [direction |-> 0],
   [direction |-> -1, command_velocity_min |-> -60, command_velocity_max |-> 20,
    command_effort_min |-> -9, command_effort_max |-> 18],
   [direction |-> -1, gear_ratio |-> Ratio(3, 1), command_effort_min |-> -30],
   [gear_ratio |-> Ratio(0, 1)], [gear_ratio |-> NaN], [position_offset |-> NaN],
   [kp |-> 51], [kd |-> 10], [can_id |-> 0], [can_id |-> 256], [can_timeout_ticks |-> 0],
   [velocity_min |-> 0], [velocity_max |-> 0], [effort_wire_min |-> 1],
   [position_min |-> 10], [position_max |-> -30], [model |-> "custom"],
   [model |-> "EL05"], [model |-> "RS99"]}

Pair(a, b) ==
  Hardware([host_can_id |-> 7],
           <<Joint(With(Ordinary, a)), Joint(With(Ordinary, b))>>)

DescriptionsToCheck ==
  {One(p) : p \in Transforms}
  \cup {One(With(Ordinary, c)) : c \in Changes}
  \cup {One(Without(Ordinary, key)) : key \in {"effort_wire_max", "kp", "effort_max"}}
  \cup {One(OfModel("EduLite05")), One(With(OfModel("EL05"), [kp_max |-> 50])),
        One(With(OfModel("EL05"), [velocity_max |-> 30]))}
  \cup {Pair([can_id |-> 1], [can_id |-> 1]),
        Pair([can_id |-> 1], [can_id |-> 2, direction |-> -1, gear_ratio |-> Ratio(3, 2)])}
  \cup {Hardware(h, <<Joint(Ordinary)>>) : h \in
         {[host_can_id |-> 256], [can_rx_qos_depth |-> 0], [can_tx_topic |-> "blank"],
          [run_mode_recovery_timeout_ms |-> 50], [shutdown_stop_interval_ms |-> 0]}}
  \cup {Hardware([host_can_id |-> 253], <<>>),
        Hardware([host_can_id |-> 253],
          <<[parameters |-> Ordinary, command_interfaces |-> ThreeInterfaces,
             state_interfaces |-> Tail(ThreeInterfaces)]>>)}
=============================================================================
