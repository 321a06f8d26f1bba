------------------------ MODULE JointCommands_proofs ------------------------
(* That targets arrive, reports come back and only rounding is rejected, for *)
(* every configuration that is accepted and every target.                    *)
EXTENDS JointCommands, Protocol_proofs

-----------------------------------------------------------------------------
(* The joints of a configuration.                                           *)

IsTransform(j) ==
  /\ j.limits \in MotorLimits
  /\ j.direction \in {1, -1}
  /\ j.gear \in [num : Nat \ {0}, den : Nat \ {0}]
  /\ j.position_offset \in Int

IsJoint(j) ==
  /\ IsTransform(j)
  /\ j.command_limits \in [position : Ranges, velocity : Ranges, effort : Ranges]

LEMMA TransformIsTyped ==
  ASSUME NEW info, IsJointInfo(info), Complete(info.parameters),
         TransformValid(Uncommanded(info.parameters))
  PROVE  IsTransform(Uncommanded(info.parameters))
<1> DEFINE p == info.parameters
<1> DEFINE j == Uncommanded(p)
<1>1. j.limits \in MotorLimits
  <2>1. j.limits = LimitsOf(p) BY DEF Uncommanded
  <2>2. CASE Model(p) = "custom"
    <3>1. \A key \in LimitKeys \cap DOMAIN p : p[key] \in Int
      BY DEF IsJointInfo, NumberKeys, Quantities, Complete, LimitsGiven, Number
    <3>2. RequiredLimits \subseteq DOMAIN p BY <2>2 DEF Complete, LimitsGiven
    <3>3. \A key \in RequiredLimits : p[key] \in Int
      BY <3>1, <3>2 DEF RequiredLimits
    <3>4. /\ p.position_min \in Int /\ p.position_max \in Int
          /\ p.velocity_min \in Int /\ p.velocity_max \in Int
          /\ p.effort_min \in Int /\ p.effort_max \in Int
          /\ p.kp_max \in Int /\ p.kd_max \in Int
      BY <3>3 DEF RequiredLimits, LimitKeys
    <3>5. Or(p, "effort_wire_min", p.effort_min) \in Int
      BY <3>1, <3>4 DEF Or, LimitKeys
    <3>6. Or(p, "effort_wire_max", p.effort_max) \in Int
      BY <3>1, <3>4 DEF Or, LimitKeys
    <3>7. CustomLimits(p) \in MotorLimits
      BY <3>4, <3>5, <3>6 DEF CustomLimits, MotorLimits, Ranges
    <3> QED BY <2>1, <2>2, <3>7 DEF LimitsOf
  <2>3. CASE Model(p) # "custom"
    <3>1. Model(p) \in DOMAIN Profiles \cup {"EduLite05"}
      BY <2>3 DEF Complete, LimitsGiven
    <3>2. MotorProfile(Model(p)) \in MotorLimits
      BY <3>1, ConfigAssumption DEF MotorProfile
    <3> QED BY <2>1, <2>3, <3>2 DEF LimitsOf
  <2> QED BY <2>2, <2>3
<1>2. j.direction \in {1, -1} BY DEF TransformValid
<1>3. j.gear \in [num : Nat \ {0}, den : Nat \ {0}]
  <2>1. j.gear.num > 0 BY DEF TransformValid
  <2>2. j.gear = Or(p, "gear_ratio", [num |-> 1, den |-> 1]) BY DEF Uncommanded
  <2>3. j.gear \in Ratios
    <3>1. "gear_ratio" \in DOMAIN p => p["gear_ratio"] \in Ratios
      BY DEF IsJointInfo, Complete, Number
    <3> QED BY <2>2, <3>1 DEF Or, Ratios
  <2> QED BY <2>1, <2>3 DEF Ratios
<1>4. j.position_offset \in Int
  <2>1. j.position_offset = Or(p, "position_offset", 0) BY DEF Uncommanded
  <2>2. "position_offset" \in DOMAIN p => p["position_offset"] \in Int
    BY DEF IsJointInfo, NumberKeys, Quantities, Complete, Number
  <2> QED BY <2>1, <2>2 DEF Or
<1> QED BY <1>1, <1>2, <1>3, <1>4 DEF IsTransform

LEMMA TransformsAreIntegers ==
  ASSUME NEW j, IsTransform(j), NEW v \in Int
  PROVE  /\ ToMotor(j, v) \in Int /\ ToJoint(j, v) \in Int
         /\ MotorVelocity(j, v) \in Int /\ JointVelocity(j, v) \in Int
         /\ MotorEffort(j, v) \in Int /\ JointEffort(j, v) \in Int
<1>1. /\ j.direction \in Int /\ j.position_offset \in Int
      /\ j.gear.num \in Nat \ {0} /\ j.gear.den \in Nat \ {0}
  BY DEF IsTransform
<1>2. ASSUME NEW x \in Int PROVE Times(x, j.gear) \in Int /\ Over(x, j.gear) \in Int
  <2>1. x * j.gear.num \in Int /\ x * j.gear.den \in Int BY <1>1
  <2> QED BY <1>1, <2>1, NearestBounds DEF Times, Over
<1>3. j.direction * (v - j.position_offset) \in Int /\ j.direction * v \in Int BY <1>1
<1>4. ToMotor(j, v) \in Int /\ MotorVelocity(j, v) \in Int /\ JointEffort(j, v) \in Int
  BY <1>2, <1>3 DEF ToMotor, MotorVelocity, JointEffort
<1>5. ToJoint(j, v) \in Int /\ JointVelocity(j, v) \in Int
  BY <1>1, <1>2 DEF ToJoint, JointVelocity
<1>6. MotorEffort(j, v) \in Int BY <1>2, <1>3 DEF MotorEffort
<1> QED BY <1>4, <1>5, <1>6

LEMMA MinMaxIsTyped ==
  ASSUME NEW a \in Int, NEW b \in Int
  PROVE  MinMax(a, b).min \in Int /\ MinMax(a, b).max \in Int
  BY DEF MinMax

LEMMA JointIsTyped ==
  ASSUME NEW info, IsJointInfo(info), JointAccepted(info)
  PROVE  IsJoint(JointOf(info.parameters))
<1> DEFINE p == info.parameters
<1> DEFINE j == Uncommanded(p)
<1>1. IsTransform(j) BY TransformIsTyped DEF JointAccepted
<1>2. IsTransform(JointOf(p)) BY <1>1 DEF IsTransform, JointOf
<1>3. \A key \in CommandKeys \cap DOMAIN p : p[key] \in Int
  BY DEF IsJointInfo, NumberKeys, Quantities, JointAccepted, Complete, Number
<1>4. /\ JointRange(j).min \in Int /\ JointRange(j).max \in Int
  <2>1. j.limits.position.min \in Int /\ j.limits.position.max \in Int
    BY <1>1 DEF IsTransform, MotorLimits, Ranges
  <2> QED BY <1>1, <2>1, TransformsAreIntegers, MinMaxIsTyped DEF JointRange
<1> DEFINE v == OrderedRange(JointVelocity(j, j.limits.velocity.min),
                             JointVelocity(j, j.limits.velocity.max))
<1> DEFINE e == OrderedRange(JointEffort(j, j.limits.effort.min),
                             JointEffort(j, j.limits.effort.max))
<1>5. v.min \in Int /\ v.max \in Int
  <2>1. j.limits.velocity.min \in Int /\ j.limits.velocity.max \in Int
    BY <1>1 DEF IsTransform, MotorLimits, Ranges
  <2> QED BY <1>1, <2>1, TransformsAreIntegers, MinMaxIsTyped DEF OrderedRange
<1>6. e.min \in Int /\ e.max \in Int
  <2>1. j.limits.effort.min \in Int /\ j.limits.effort.max \in Int
    BY <1>1 DEF IsTransform, MotorLimits, Ranges
  <2> QED BY <1>1, <2>1, TransformsAreIntegers, MinMaxIsTyped DEF OrderedRange
<1>7. ASSUME NEW key \in CommandKeys, NEW default \in Int
      PROVE  Or(p, key, default) \in Int
  BY <1>3 DEF Or
<1>8. CommandLimits(p, j) \in [position : Ranges, velocity : Ranges, effort : Ranges]
  <2>1. CommandLimits(p, j) =
          [position |-> [min |-> Or(p, "command_position_min", JointRange(j).min),
                         max |-> Or(p, "command_position_max", JointRange(j).max)],
           velocity |-> [min |-> Or(p, "command_velocity_min", v.min),
                         max |-> Or(p, "command_velocity_max", v.max)],
           effort |-> [min |-> Or(p, "command_effort_min", e.min),
                       max |-> Or(p, "command_effort_max", e.max)]]
    BY DEF CommandLimits
  <2> HIDE DEF p, j, v, e
  <2>2. /\ Or(p, "command_position_min", JointRange(j).min) \in Int
        /\ Or(p, "command_position_max", JointRange(j).max) \in Int
        /\ Or(p, "command_velocity_min", v.min) \in Int
        /\ Or(p, "command_velocity_max", v.max) \in Int
        /\ Or(p, "command_effort_min", e.min) \in Int
        /\ Or(p, "command_effort_max", e.max) \in Int
    BY <1>4, <1>5, <1>6, <1>7 DEF CommandKeys
  <2> QED BY <2>1, <2>2 DEF Ranges
<1>9. JointOf(p).command_limits = CommandLimits(p, j) BY DEF JointOf
<1> QED BY <1>2, <1>8, <1>9 DEF IsJoint

-----------------------------------------------------------------------------
(* The transforms keep or reverse the order, so that what holds at both     *)
(* ends of a range holds in between.                                        *)

\* v lies between a and b, in whichever order.
Between(v, a, b) == (a <= v /\ v <= b) \/ (b <= v /\ v <= a)

LEMMA MotorValuesAreBetween ==
  ASSUME NEW j, IsTransform(j), NEW a \in Int, NEW b \in Int, NEW v \in Int,
         a <= v, v <= b
  PROVE  /\ Between(ToMotor(j, v), ToMotor(j, a), ToMotor(j, b))
         /\ Between(MotorVelocity(j, v), MotorVelocity(j, a), MotorVelocity(j, b))
         /\ Between(MotorEffort(j, v), MotorEffort(j, a), MotorEffort(j, b))
<1>1. /\ j.direction \in {1, -1} /\ j.position_offset \in Int
      /\ j.gear.num \in Nat \ {0} /\ j.gear.den \in Nat \ {0}
  BY DEF IsTransform
<1>2. ASSUME NEW x \in Int, NEW y \in Int, x <= y
      PROVE  Times(x, j.gear) <= Times(y, j.gear) /\ Over(x, j.gear) <= Over(y, j.gear)
  <2>1. /\ x * j.gear.num \in Int /\ y * j.gear.num \in Int
        /\ x * j.gear.num <= y * j.gear.num
        /\ x * j.gear.den \in Int /\ y * j.gear.den \in Int
        /\ x * j.gear.den <= y * j.gear.den
    BY <1>1, <1>2
  <2> QED BY <1>1, <2>1, NearestMonotone DEF Times, Over
<1> DEFINE shifted(x) == j.direction * (x - j.position_offset)
<1> DEFINE turned(x) == j.direction * x
<1>3. CASE j.direction = 1
  <2>1. /\ turned(a) \in Int /\ turned(v) \in Int /\ turned(b) \in Int
        /\ turned(a) <= turned(v) /\ turned(v) <= turned(b)
    BY <1>3
  <2>2. /\ shifted(a) \in Int /\ shifted(v) \in Int /\ shifted(b) \in Int
        /\ shifted(a) <= shifted(v) /\ shifted(v) <= shifted(b)
    BY <1>1, <1>3
  <2> HIDE DEF turned, shifted
  <2>3. /\ Times(shifted(a), j.gear) <= Times(shifted(v), j.gear)
        /\ Times(shifted(v), j.gear) <= Times(shifted(b), j.gear)
        /\ Times(turned(a), j.gear) <= Times(turned(v), j.gear)
        /\ Times(turned(v), j.gear) <= Times(turned(b), j.gear)
        /\ Over(turned(a), j.gear) <= Over(turned(v), j.gear)
        /\ Over(turned(v), j.gear) <= Over(turned(b), j.gear)
    BY <2>1, <2>2, <1>2
  <2> QED BY <2>3 DEF Between, ToMotor, MotorVelocity, MotorEffort, turned, shifted
<1>4. CASE j.direction = -1
  <2>1. /\ turned(a) \in Int /\ turned(v) \in Int /\ turned(b) \in Int
        /\ turned(b) <= turned(v) /\ turned(v) <= turned(a)
    BY <1>4
  <2>2. /\ shifted(a) \in Int /\ shifted(v) \in Int /\ shifted(b) \in Int
        /\ shifted(b) <= shifted(v) /\ shifted(v) <= shifted(a)
    BY <1>1, <1>4
  <2> HIDE DEF turned, shifted
  <2>3. /\ Times(shifted(b), j.gear) <= Times(shifted(v), j.gear)
        /\ Times(shifted(v), j.gear) <= Times(shifted(a), j.gear)
        /\ Times(turned(b), j.gear) <= Times(turned(v), j.gear)
        /\ Times(turned(v), j.gear) <= Times(turned(a), j.gear)
        /\ Over(turned(b), j.gear) <= Over(turned(v), j.gear)
        /\ Over(turned(v), j.gear) <= Over(turned(a), j.gear)
    BY <2>1, <2>2, <1>2
  <2> QED BY <2>3 DEF Between, ToMotor, MotorVelocity, MotorEffort, turned, shifted
<1> QED BY <1>1, <1>3, <1>4

LEMMA ContainedBetween ==
  ASSUME NEW a \in Int, NEW b \in Int, NEW v \in Int, NEW range \in Ranges,
         Between(v, a, b), ContainsRange(range, OrderedRange(a, b))
  PROVE  Contains([min |-> range.min - Tolerance, max |-> range.max + Tolerance], v)
<1>1. Tolerance \in Nat /\ range.min \in Int /\ range.max \in Int
  BY ConfigAssumption DEF Ranges
<1>2. v # NaN BY ProtocolAssumption
<1>3. CASE a <= b
  <2>1. MinMax(a, b) = [min |-> a, max |-> b] BY <1>3 DEF MinMax
  <2> QED BY <1>1, <1>2, <1>3, <2>1 DEF ContainsRange, OrderedRange, Between, Contains
<1>4. CASE b < a
  <2>1. MinMax(a, b) = [min |-> b, max |-> a] BY <1>4 DEF MinMax
  <2> QED BY <1>1, <1>2, <1>4, <2>1 DEF ContainsRange, OrderedRange, Between, Contains
<1> QED BY <1>3, <1>4

\* Whatever lies between two positions that can be converted can be converted:
\* configuration checks the ends of the command range only (parse_joint,
\* checked_joint_to_motor_position).
THEOREM PositionsAreConvertible ==
  ASSUME NEW j, IsTransform(j), NEW a \in Int, NEW b \in Int, NEW v \in Int,
         Convertible(j, a), Convertible(j, b), a <= v, v <= b
  PROVE  Convertible(j, v)
<1>1. JointRange(j).min \in Int /\ JointRange(j).max \in Int
  <2>1. j.limits.position.min \in Int /\ j.limits.position.max \in Int
    BY DEF IsTransform, MotorLimits, Ranges
  <2> QED BY <2>1, TransformsAreIntegers, MinMaxIsTyped DEF JointRange
<1>2. Contains(JointRange(j), v)
  BY <1>1, ProtocolAssumption DEF Convertible, Contains
<1>3. WithinRoundoff(j, ToMotor(j, v))
  <2>1. /\ j.limits.position.min - Snap \in Int /\ j.limits.position.max + Snap \in Int
        /\ ToMotor(j, a) \in Int /\ ToMotor(j, b) \in Int /\ ToMotor(j, v) \in Int
    BY TransformsAreIntegers, SnapAssumption DEF IsTransform, MotorLimits, Ranges
  <2>2. Between(ToMotor(j, v), ToMotor(j, a), ToMotor(j, b)) BY MotorValuesAreBetween
  <2> QED BY <2>1, <2>2 DEF Between, Convertible, WithinRoundoff
<1> QED BY <1>2, <1>3 DEF Convertible

-----------------------------------------------------------------------------
(* Only rounding is rejected.                                               *)

IsTarget(t) ==
  t.interface \in Interfaces \cup {"none"} /\ t.value \in Quantities

LEMMA RejectedTargets ==
  ASSUME NEW j, IsJoint(j), CommandsWithinWire(j), NEW t, IsTarget(t), ~Sendable(j, t)
  PROVE  ~InCommandLimits(j, t) \/ OffByRounding(j, t)
<1> SUFFICES ASSUME InCommandLimits(j, t), ~WithinMotorRange(j, t)
             PROVE  OffByRounding(j, t)
  BY DEF Sendable
<1> DEFINE limits == j.command_limits[t.interface]
<1>1. t.interface \in Interfaces BY DEF IsTarget, WithinMotorRange, Claims
<1>2. Contains(limits, t.value) BY <1>1 DEF InCommandLimits, Interfaces
<1>3. t.value \in Int BY <1>2 DEF IsTarget, Quantities, Contains
<1>4. limits \in Ranges BY <1>1 DEF IsJoint, Interfaces
<1>5. limits.min \in Int /\ limits.max \in Int BY <1>4 DEF Ranges
<1>6. limits.min <= t.value /\ t.value <= limits.max BY <1>2 DEF Contains
<1>7. IsTransform(j) BY DEF IsJoint
<1>8. CASE t.interface = "position"
  <2>1. Convertible(j, limits.min) /\ Convertible(j, limits.max)
    BY <1>8 DEF CommandsWithinWire
  <2> HIDE DEF limits
  <2>2. Convertible(j, t.value)
    BY <2>1, <1>3, <1>5, <1>6, <1>7, PositionsAreConvertible
  <2> QED BY <2>2, <1>8 DEF WithinMotorRange, Claims
<1>9. CASE t.interface = "velocity"
  <2>1. ~Contains(j.limits.velocity, MotorVelocity(j, t.value))
    BY <1>9 DEF WithinMotorRange, Claims
  <2>2. ContainsRange(j.limits.velocity,
          OrderedRange(MotorVelocity(j, limits.min), MotorVelocity(j, limits.max)))
    BY <1>9 DEF CommandsWithinWire
  <2>3. j.limits.velocity \in Ranges BY <1>7 DEF IsTransform, MotorLimits
  <2> HIDE DEF limits
  <2>4. /\ MotorVelocity(j, limits.min) \in Int /\ MotorVelocity(j, limits.max) \in Int
        /\ MotorVelocity(j, t.value) \in Int
    BY <1>3, <1>5, <1>7, TransformsAreIntegers
  <2>5. Between(MotorVelocity(j, t.value), MotorVelocity(j, limits.min),
                MotorVelocity(j, limits.max))
    BY <1>3, <1>5, <1>6, <1>7, MotorValuesAreBetween
  <2>6. Contains([min |-> j.limits.velocity.min - Tolerance,
                  max |-> j.limits.velocity.max + Tolerance], MotorVelocity(j, t.value))
    BY <2>2, <2>3, <2>4, <2>5, ContainedBetween
  <2> QED BY <1>9, <2>1, <2>6 DEF OffByRounding, Claims
<1>10. CASE t.interface = "effort"
  <2>1. \/ ~Contains(j.limits.effort, MotorEffort(j, t.value))
        \/ ~Contains(j.limits.effort_wire, MotorEffort(j, t.value))
    BY <1>10 DEF WithinMotorRange, Claims
  <2> DEFINE ends == OrderedRange(MotorEffort(j, limits.min), MotorEffort(j, limits.max))
  <2>2. ContainsRange(j.limits.effort, ends) /\ ContainsRange(j.limits.effort_wire, ends)
    BY <1>10 DEF CommandsWithinWire
  <2>3. j.limits.effort \in Ranges /\ j.limits.effort_wire \in Ranges
    BY <1>7 DEF IsTransform, MotorLimits
  <2> HIDE DEF limits
  <2>4. /\ MotorEffort(j, limits.min) \in Int /\ MotorEffort(j, limits.max) \in Int
        /\ MotorEffort(j, t.value) \in Int
    BY <1>3, <1>5, <1>7, TransformsAreIntegers
  <2>5. Between(MotorEffort(j, t.value), MotorEffort(j, limits.min),
                MotorEffort(j, limits.max))
    BY <1>3, <1>5, <1>6, <1>7, MotorValuesAreBetween
  <2>6. /\ Contains([min |-> j.limits.effort.min - Tolerance,
                     max |-> j.limits.effort.max + Tolerance], MotorEffort(j, t.value))
        /\ Contains([min |-> j.limits.effort_wire.min - Tolerance,
                     max |-> j.limits.effort_wire.max + Tolerance], MotorEffort(j, t.value))
    BY <2>2, <2>3, <2>4, <2>5, ContainedBetween
  <2> QED BY <1>10, <2>1, <2>6 DEF OffByRounding, Claims
<1> QED BY <1>1, <1>8, <1>9, <1>10 DEF Interfaces

\* Joints as configuration leaves them.
Accepted(j) ==
  /\ IsJoint(j) /\ CommandsWithinWire(j) /\ NeutralRangesValid(j)
  /\ j.can_id \in 1..255

\* The joints are those of an accepted description, the targets are typed, and
\* a batch was rejected for one of them.
RejectionInv ==
  /\ DOMAIN target = DOMAIN joints
  /\ \A i \in DOMAIN joints : Accepted(joints[i]) /\ IsTarget(target[i])
  /\ command_rejected => \E i \in DOMAIN joints : ~Sendable(joints[i], target[i])

LEMMA RejectionInvInit == Init => RejectionInv
  BY DEF Init, RejectionInv

LEMMA TargetsAreTargets ==
  ASSUME NEW j, IsJoint(j), NEW t \in Targets(j)
  PROVE  IsTarget(t)
<1>1. CASE t = NoTarget BY <1>1 DEF NoTarget, IsTarget, Quantities
<1>2. CASE t # NoTarget
  <2> DEFINE values(limits) ==
        {limits.min - 1, limits.min, limits.max, limits.max + 1, NaN} \cup Values
  <2>1. PICK interface \in Interfaces :
          t \in {[interface |-> interface, value |-> v] :
                   v \in values(j.command_limits[interface])}
    BY <1>2 DEF Targets
  <2>2. j.command_limits[interface].min \in Int /\ j.command_limits[interface].max \in Int
    BY DEF IsJoint, Interfaces, Ranges
  <2>3. values(j.command_limits[interface]) \subseteq Quantities
    <3>1. Values \subseteq Int BY DescriptionsAssumption
    <3> DEFINE lo == j.command_limits[interface].min
    <3> DEFINE hi == j.command_limits[interface].max
    <3>2. lo \in Int /\ hi \in Int BY <2>2
    <3>3. values(j.command_limits[interface]) = {lo - 1, lo, hi, hi + 1, NaN} \cup Values
      OBVIOUS
    <3> HIDE DEF lo, hi, values
    <3>4. {lo - 1, lo, hi, hi + 1, NaN} \subseteq Quantities BY <3>2 DEF Quantities
    <3> QED BY <3>1, <3>3, <3>4 DEF Quantities
  <2>4. t.interface = interface /\ t.value \in Quantities
    <3> HIDE DEF values
    <3> QED BY <2>1, <2>3
  <2> QED BY <2>4 DEF IsTarget
<1> QED BY <1>1, <1>2

LEMMA RejectionInvNext == RejectionInv /\ [Next]_vars => RejectionInv'
<1> SUFFICES ASSUME RejectionInv, [Next]_vars PROVE RejectionInv' OBVIOUS
<1>1. ASSUME NEW info \in Configurations, Configure(info) PROVE RejectionInv'
  <2>1. ~command_rejected' BY <1>1 DEF Configure
  <2>2. DOMAIN target' = DOMAIN joints' BY <1>1 DEF Configure
  <2>3. ASSUME NEW i \in DOMAIN joints' PROVE IsTarget(target'[i])
    BY <1>1 DEF Configure, NoTarget, IsTarget, Quantities
  <2>4. ASSUME NEW i \in DOMAIN joints' PROVE Accepted(joints'[i])
    <3>1. CASE phase' = "inactive"
      <4>1. Parsed(info) /\ joints' = ParsedJoints(info) BY <1>1, <3>1 DEF Configure
      <4>2. i \in DOMAIN info.joints /\ joints'[i] = JointOf(info.joints[i].parameters)
        BY <4>1 DEF ParsedJoints
      <4>3. JointAccepted(info.joints[i]) BY <4>1, <4>2 DEF Parsed
      <4>4. IsJointInfo(info.joints[i]) BY <4>2, DescriptionsAssumption
      <4>5. IsJoint(joints'[i]) BY <4>2, <4>3, <4>4, JointIsTyped
      <4>6. joints'[i].can_id \in 1..255
        <5>1. Whole(info.joints[i].parameters.can_id, 1, 255)
          BY <4>3 DEF JointAccepted, Complete
        <5>2. joints'[i].can_id = info.joints[i].parameters.can_id
          BY <4>2 DEF JointOf, Uncommanded
        <5>3. info.joints[i].parameters.can_id \in Quantities
          BY <4>3, <4>4 DEF JointAccepted, Complete, IsJointInfo, NumberKeys
        <5> QED BY <5>1, <5>2, <5>3 DEF Whole, Quantities
      <4> QED BY <4>2, <4>3, <4>5, <4>6 DEF JointAccepted, Accepted
    <3>2. CASE phase' # "inactive"
      <4>1. joints' = <<>> BY <1>1, <3>2 DEF Configure
      <4> QED BY <4>1
    <3> QED BY <3>1, <3>2
  <2> QED BY <2>1, <2>2, <2>3, <2>4 DEF RejectionInv
<1>2. CASE Start BY <1>2 DEF Start, configuration, RejectionInv
<1>3. CASE Stop BY <1>3 DEF Stop, configuration, RejectionInv
<1>4. CASE Cycle
  <2>1. PICK k \in DOMAIN joints : \E t \in Targets(joints[k]) :
          target' = [target EXCEPT ![k] = t]
    BY <1>4 DEF Cycle
  <2>2. PICK t \in Targets(joints[k]) : target' = [target EXCEPT ![k] = t] BY <2>1
  <2>3. joints' = joints BY <1>4 DEF Cycle, SendCommands, configuration
  <2>4. IsTarget(t) BY <2>2, TargetsAreTargets DEF RejectionInv, Accepted
  <2>5. DOMAIN target' = DOMAIN joints' BY <2>2, <2>3 DEF RejectionInv
  <2>6. \A i \in DOMAIN joints' : IsTarget(target'[i])
    BY <2>2, <2>3, <2>4 DEF RejectionInv
  <2>7. command_rejected' => \E i \in DOMAIN joints : ~Sendable(joints[i], target'[i])
    BY <1>4 DEF Cycle, SendCommands
  <2> QED BY <2>3, <2>5, <2>6, <2>7 DEF RejectionInv
<1>5. ASSUME NEW i \in DOMAIN joints, Obey(i) \/ Overhear(i) PROVE RejectionInv'
  <2>1. UNCHANGED <<joints, target, command_rejected>>
    BY <1>5 DEF Obey, Overhear, ReceiveFrame, configuration
  <2> QED BY <2>1 DEF RejectionInv
<1>6. CASE UNCHANGED vars BY <1>6 DEF vars, configuration, RejectionInv
<1> QED BY <1>1, <1>2, <1>3, <1>4, <1>5, <1>6 DEF Next

\* Whatever the limits, the direction and the gear ratio of an accepted joint: a
\* target within its command limits is rejected for rounding only, and a
\* position not at all (parse_joint, send_commands).
THEOREM RejectionsAreDeserved == Spec => []OnlyRoundingIsRejected
<1>1. RejectionInv => OnlyRoundingIsRejected
  BY RejectedTargets DEF RejectionInv, Accepted, OnlyRoundingIsRejected
<1> QED BY <1>1, RejectionInvInit, RejectionInvNext, PTL DEF Spec

-----------------------------------------------------------------------------
(* Frames and what they hold.                                               *)

Offsets == {0, 2, 4, 6}
IsData(data) == data = [i \in 0..7 |-> data[i]]

LEMMA PutAndGet ==
  ASSUME NEW data, IsData(data), NEW offset \in Offsets, NEW value
  PROVE  /\ IsData(PutBe16(data, offset, value))
         /\ \A other \in Offsets :
              other # offset =>
                Be16(PutBe16(data, offset, value), other) = Be16(data, other)
         /\ value \in Nat => Be16(PutBe16(data, offset, value), offset) = value
<1> DEFINE put == PutBe16(data, offset, value)
<1>1. put = [data EXCEPT ![offset] = value \div Byte, ![offset + 1] = value % Byte]
  BY DEF PutBe16
<1>2. offset \in 0..7 /\ offset + 1 \in 0..7 /\ offset # offset + 1 BY DEF Offsets
<1>3. IsData(put) BY <1>1 DEF IsData
<1>4. put[offset] = value \div Byte /\ put[offset + 1] = value % Byte
  BY <1>1, <1>2 DEF IsData
<1>5. ASSUME NEW other \in Offsets, other # offset
      PROVE  Be16(put, other) = Be16(data, other)
  <2>1. /\ other \in 0..7 /\ other + 1 \in 0..7
        /\ other \notin {offset, offset + 1} /\ other + 1 \notin {offset, offset + 1}
    BY <1>5 DEF Offsets
  <2>2. put[other] = data[other] /\ put[other + 1] = data[other + 1]
    BY <1>1, <2>1 DEF IsData
  <2> QED BY <2>2 DEF Be16
<1>6. ASSUME value \in Nat PROVE Be16(put, offset) = value
  <2>1. /\ value \div Byte \in Int /\ value % Byte \in Int
        /\ value = (value % Byte) + Byte * (value \div Byte)
    BY <1>6, Sizes, Remainder
  <2>2. Byte \in Int BY Sizes
  <2> QED BY <1>4, <2>1, <2>2 DEF Be16
<1> HIDE DEF put
<1> QED BY <1>3, <1>5, <1>6 DEF put

LEMMA NeutralGain == ASSUME NEW max \in Int PROVE Encode(0, [min |-> 0, max |-> max]) = 0
<1> DEFINE range == [min |-> 0, max |-> max]
<1>1. CASE range.min >= range.max BY <1>1 DEF Encode
<1>2. CASE ~(range.min >= range.max)
  <2>1. IsRange(range) BY <1>2 DEF IsRange
  <2>2. Width(range) \in Nat \ {0} BY <2>1 DEF Width, IsRange
  <2>3. /\ 2 * Width(range) * Encode(0, range) <= 2 * (0 * Steps) + Width(range)
        /\ Encode(0, range) \in 0..Steps
    <3>1. 0 - range.min = 0 OBVIOUS
    <3>2. range.min <= 0 /\ 0 <= range.max BY <1>2
    <3> HIDE DEF range
    <3> QED BY <2>1, <3>1, <3>2, EncodeIsNearest, EncodeWithinRange
  <2>4. 0 * Steps = 0 BY ProtocolAssumption
  <2> DEFINE w == Width(range)
  <2> DEFINE c == Encode(0, range)
  <2> HIDE DEF w, c, range
  <2>5. w \in Nat \ {0} /\ c \in Nat /\ 2 * w * c <= w
    BY <2>2, <2>3, <2>4, ProtocolAssumption DEF w, c
  <2>6. c = 0
    <3>1. c >= 1 => w * c >= w BY <2>5
    <3> QED BY <3>1, <2>5
  <2> QED BY <2>6 DEF c, range
<1> QED BY <1>1, <1>2

\* What a frame is made of, when its batch was accepted.
Position(j, t) == Claimed(t, "position", MotorPosition(j, t.value))
Velocity(j, t) == Claimed(t, "velocity", MotorVelocity(j, t.value))
Effort(j, t) == Claimed(t, "effort", MotorEffort(j, t.value))

LEMMA RangesAreRanges ==
  ASSUME NEW j, Accepted(j)
  PROVE  /\ IsRange(j.limits.position) /\ IsRange(j.limits.velocity)
         /\ IsRange(j.limits.effort) /\ IsRange(j.limits.effort_wire)
<1>1. j.limits \in MotorLimits BY DEF Accepted, IsJoint, IsTransform
<1>2. Ordered(j.limits.position)
  BY DEF Accepted, CommandsWithinWire, Convertible, HasJointRange
<1>3. /\ Ordered(j.limits.velocity) /\ Ordered(j.limits.effort)
      /\ Ordered(j.limits.effort_wire)
  BY DEF Accepted, NeutralRangesValid, Neutral
<1> QED BY <1>1, <1>2, <1>3 DEF MotorLimits, Ranges, Ordered, IsRange

LEMMA SendableValues ==
  ASSUME NEW j, Accepted(j), NEW t, IsTarget(t), Sendable(j, t)
  PROVE  /\ t.interface # "none" => t.value \in Int
         /\ Claims(t, "position") =>
              /\ Position(j, t) \in Int /\ ToMotor(j, t.value) \in Int
              /\ Contains(j.limits.position, Position(j, t))
              /\ Position(j, t) - ToMotor(j, t.value) <= Snap
              /\ ToMotor(j, t.value) - Position(j, t) <= Snap
         /\ ~Claims(t, "position") => Position(j, t) = 0
         /\ Velocity(j, t) \in Int /\ Contains(j.limits.velocity, Velocity(j, t))
         /\ Effort(j, t) \in Int /\ Contains(j.limits.effort, Effort(j, t))
         /\ Contains(j.limits.effort_wire, Effort(j, t))
<1>1. IsTransform(j) BY DEF Accepted, IsJoint
<1>2. ASSUME t.interface # "none" PROVE t.value \in Int
  <2>1. Contains(j.command_limits[t.interface], t.value)
    BY <1>2 DEF Sendable, InCommandLimits
  <2> QED BY <2>1 DEF Contains, IsTarget, Quantities
<1>3. ASSUME Claims(t, "position")
      PROVE  /\ Position(j, t) \in Int /\ ToMotor(j, t.value) \in Int
             /\ Contains(j.limits.position, Position(j, t))
             /\ Position(j, t) - ToMotor(j, t.value) <= Snap
             /\ ToMotor(j, t.value) - Position(j, t) <= Snap
  <2> DEFINE m == ToMotor(j, t.value)
  <2> DEFINE range == j.limits.position
  <2>1. m \in Int BY <1>1, <1>2, <1>3, TransformsAreIntegers DEF Claims
  <2>2. range.min - Snap <= m /\ m <= range.max + Snap
    BY <1>3 DEF Sendable, WithinMotorRange, Convertible, WithinRoundoff
  <2>3. Position(j, t) = Clamp(m, range) BY <1>3 DEF Position, Claimed, MotorPosition
  <2>4. IsRange(range) BY RangesAreRanges
  <2> HIDE DEF m, range
  <2>5. /\ Clamp(m, range) \in Int /\ Contains(range, Clamp(m, range))
        /\ Clamp(m, range) - m <= Snap /\ m - Clamp(m, range) <= Snap
    <3>1. Clamp(m, range) \in Int BY <2>1, <2>4 DEF Clamp, IsRange
    <3>2. Clamp(m, range) # NaN BY <3>1, ProtocolAssumption
    <3> QED BY <2>1, <2>2, <2>4, <3>1, <3>2, SnapAssumption DEF Clamp, IsRange, Contains
  <2> QED BY <2>1, <2>3, <2>5 DEF m, range
<1>4. ~Claims(t, "position") => Position(j, t) = 0 BY DEF Position, Claimed
<1>5. Velocity(j, t) \in Int /\ Contains(j.limits.velocity, Velocity(j, t))
  <2>1. CASE Claims(t, "velocity")
    <3>1. MotorVelocity(j, t.value) \in Int
      BY <1>1, <1>2, <2>1, TransformsAreIntegers DEF Claims
    <3> QED BY <2>1, <3>1 DEF Velocity, Claimed, Sendable, WithinMotorRange
  <2>2. CASE ~Claims(t, "velocity")
    BY <2>2 DEF Velocity, Claimed, Accepted, NeutralRangesValid, Neutral
  <2> QED BY <2>1, <2>2
<1>6. /\ Effort(j, t) \in Int /\ Contains(j.limits.effort, Effort(j, t))
      /\ Contains(j.limits.effort_wire, Effort(j, t))
  <2>1. CASE Claims(t, "effort")
    <3>1. MotorEffort(j, t.value) \in Int
      BY <1>1, <1>2, <2>1, TransformsAreIntegers DEF Claims
    <3> QED BY <2>1, <3>1 DEF Effort, Claimed, Sendable, WithinMotorRange
  <2>2. CASE ~Claims(t, "effort")
    BY <2>2 DEF Effort, Claimed, Accepted, NeutralRangesValid, Neutral
  <2> QED BY <2>1, <2>2
<1> QED BY <1>2, <1>3, <1>4, <1>5, <1>6

\* The fields of a motion frame, whatever the gains.
LEMMA MotionFrameFields ==
  ASSUME Steps < Word,
         NEW j, Accepted(j), NEW t, IsTarget(t), Sendable(j, t)
  PROVE  LET frame == MotionFrame(j, t) IN
         /\ IsData(frame.data)
         /\ Be16(frame.data, 0) = Encode(Position(j, t), j.limits.position)
         /\ Be16(frame.data, 2) = Encode(Velocity(j, t), j.limits.velocity)
         /\ t.interface # "position" => Be16(frame.data, 4) = 0
         /\ t.interface \notin {"position", "velocity"} => Be16(frame.data, 6) = 0
         /\ TypeOf(frame.id) = TypeMotionControl
         /\ DestinationOf(frame.id) = j.can_id
         /\ AreaOf(frame.id) = Encode(Effort(j, t), j.limits.effort_wire)
<1> DEFINE frame == MotionFrame(j, t)
<1> DEFINE p == Encode(Position(j, t), j.limits.position)
<1> DEFINE v == Encode(Velocity(j, t), j.limits.velocity)
<1> DEFINE e == Encode(Effort(j, t), j.limits.effort_wire)
<1> DEFINE kp == Encode(Claimed(t, "position", j.kp), [min |-> 0, max |-> j.limits.kp_max])
<1> DEFINE kd == Encode(IF t.interface \in {"position", "velocity"} THEN j.kd ELSE 0,
                        [min |-> 0, max |-> j.limits.kd_max])
<1>1. Position(j, t) \in Int /\ Velocity(j, t) \in Int /\ Effort(j, t) \in Int
  BY SendableValues
<1>2. p \in Nat /\ v \in Nat /\ e \in 0..Steps
  <2>1. Steps \in Nat BY ProtocolAssumption
  <2> QED BY <1>1, <2>1, RangesAreRanges, EncodeWithinRange
<1>3. j.limits.kp_max \in Int /\ j.limits.kd_max \in Int
  BY DEF Accepted, IsJoint, IsTransform, MotorLimits
<1>4. t.interface # "position" => kp = 0 BY <1>3, NeutralGain DEF Claimed, Claims
<1>5. t.interface \notin {"position", "velocity"} => kd = 0 BY <1>3, NeutralGain
<1>6. Clamp(Effort(j, t), j.limits.effort) = Effort(j, t)
  <2>1. Contains(j.limits.effort, Effort(j, t)) BY SendableValues
  <2>2. IsRange(j.limits.effort) BY RangesAreRanges
  <2> QED BY <1>1, <2>1, <2>2 DEF Contains, Clamp, IsRange
<1>7. /\ frame.id = BaseId(TypeMotionControl, e, j.can_id)
      /\ frame.data = PutBe16(PutBe16(PutBe16(PutBe16(NoData, 0, p), 2, v), 4, kp), 6, kd)
  BY <1>6 DEF MotionFrame, MakeMotionCommand, EffortWire, Position, Velocity, Effort
<1>8. /\ TypeOf(frame.id) = TypeMotionControl /\ AreaOf(frame.id) = e
      /\ DestinationOf(frame.id) = j.can_id
  <2>1. TypeMotionControl \in 0..31 BY DEF TypeMotionControl
  <2>2. e \in Words BY <1>2, ProtocolAssumption, Sizes DEF Words
  <2>3. j.can_id \in Bytes BY DEF Accepted, Bytes, Byte
  <2> HIDE DEF frame, e
  <2> QED BY <1>7, <2>1, <2>2, <2>3, FieldsOfId
<1> HIDE DEF frame, p, v, e, kp, kd
<1> DEFINE d0 == PutBe16(NoData, 0, p)
<1> DEFINE d2 == PutBe16(d0, 2, v)
<1> DEFINE d4 == PutBe16(d2, 4, kp)
<1> DEFINE d6 == PutBe16(d4, 6, kd)
<1>9. IsData(NoData) BY DEF NoData, IsData
<1>10. /\ 0 \in Offsets /\ 2 \in Offsets /\ 4 \in Offsets /\ 6 \in Offsets
       /\ 0 # 2 /\ 0 # 4 /\ 0 # 6 /\ 2 # 4 /\ 2 # 6 /\ 4 # 6
  BY DEF Offsets
<1>11. IsData(d0) /\ Be16(d0, 0) = p BY <1>2, <1>9, <1>10, PutAndGet
<1> HIDE DEF d0
<1>12. IsData(d2) /\ Be16(d2, 0) = p /\ Be16(d2, 2) = v
  BY <1>2, <1>10, <1>11, PutAndGet
<1> HIDE DEF d2
<1>13. IsData(d4) /\ Be16(d4, 0) = p /\ Be16(d4, 2) = v /\ (kp \in Nat => Be16(d4, 4) = kp)
  BY <1>10, <1>12, PutAndGet
<1> HIDE DEF d4
<1>14. /\ IsData(d6) /\ Be16(d6, 0) = p /\ Be16(d6, 2) = v
       /\ kp \in Nat => Be16(d6, 4) = kp
       /\ kd \in Nat => Be16(d6, 6) = kd
  BY <1>10, <1>13, PutAndGet
<1>15. frame.data = d6 BY <1>7 DEF d6, d4, d2, d0
<1> HIDE DEF d6
<1> QED BY <1>4, <1>5, <1>8, <1>14, <1>15 DEF frame, p, v, e

-----------------------------------------------------------------------------
(* Targets arrive.                                                          *)

LEMMA DistanceBounds ==
  ASSUME NEW a \in Int, NEW b \in Int, NEW c \in Int, a - b <= c, b - a <= c
  PROVE  Distance(a, b) <= c
  BY DEF Distance

LEMMA Products ==
  ASSUME NEW a \in Int, NEW b \in Int, NEW k \in Nat, a <= b
  PROVE  k * a \in Int /\ k * b \in Int /\ k * a <= k * b
  OBVIOUS

\* The code of a value near the rounding of a ratio stands for the ratio: the code is
\* half a step off the value, and the value Snap and half a unit off the ratio.
LEMMA CodeStandsForRatio ==
  ASSUME NEW range, IsRange(range), NEW m \in Int, Contains(range, m),
         NEW exact \in Int, m - exact <= Snap, exact - m <= Snap,
         NEW num \in Int, NEW den \in Nat \ {0}, exact = Nearest(num, den)
  PROVE  StandsFor(Encode(m, range), range, [num |-> num, den |-> den], Snap + Half)
<1> DEFINE w == Width(range)
<1> DEFINE c == Encode(m, range)
<1> DEFINE code == Steps * range.min + c * w
<1>1. /\ w \in Nat \ {0} /\ c \in Int /\ Steps \in Nat /\ Snap \in Nat
      /\ range.min \in Int /\ range.max \in Int
  BY EncodeWithinRange, ProtocolAssumption, SnapAssumption DEF Width, IsRange
<1>2. /\ 2 * w * c <= 2 * ((m - range.min) * Steps) + w
      /\ 2 * ((m - range.min) * Steps) - w <= 2 * w * c
  BY EncodeIsNearest DEF Contains
<1>3. 2 * den * exact <= 2 * num + den /\ 2 * num - den <= 2 * den * exact
  BY NearestBounds
<1> HIDE DEF c, w
<1>4. code \in Int /\ 2 * code - 2 * (Steps * m) <= w /\ 2 * (Steps * m) - 2 * code <= w
  <2>1. (m - range.min) * Steps = Steps * m - Steps * range.min BY <1>1
  <2>2. w * c = c * w /\ 2 * w * c = 2 * (c * w) BY <1>1
  <2> QED BY <1>1, <1>2, <2>1, <2>2
<1> HIDE DEF code
<1>5. /\ Steps * m \in Int /\ Steps * exact \in Int
      /\ Steps * m - Steps * exact <= Steps * Snap
      /\ Steps * exact - Steps * m <= Steps * Snap
  <2>1. Steps * (m - exact) <= Steps * Snap /\ Steps * (exact - m) <= Steps * Snap
    <3>1. m - exact \in Int /\ exact - m \in Int BY <1>1
    <3> QED BY <1>1, <3>1, Products
  <2> QED BY <1>1, <2>1
<1> DEFINE total == w + 2 * (Steps * Snap)
<1>6. /\ 2 * code - 2 * (Steps * exact) <= total
      /\ 2 * (Steps * exact) - 2 * code <= total
      /\ total \in Int
  BY <1>1, <1>4, <1>5
<1> DEFINE x == 2 * code
<1> DEFINE y == 2 * (Steps * exact)
<1>7. x \in Int /\ y \in Int /\ x - y <= total /\ y - x <= total BY <1>4, <1>5, <1>6
<1>8. 2 * den * code = den * x /\ den * x \in Int BY <1>4
<1> HIDE DEF x, total
<1>9. den * x - den * y <= den * total /\ den * y - den * x <= den * total
  <2>1. x - y \in Int /\ y - x \in Int /\ total \in Int BY <1>6, <1>7
  <2>2. den * (x - y) <= den * total /\ den * (y - x) <= den * total
    BY <1>7, <2>1, Products
  <2> QED BY <1>7, <2>2
<1>10. /\ den * y - 2 * Steps * num <= Steps * den
       /\ 2 * Steps * num - den * y <= Steps * den
  <2>1. 2 * den * exact \in Int OBVIOUS
  <2>2. /\ Steps * (2 * den * exact) <= Steps * (2 * num + den)
        /\ Steps * (2 * num - den) <= Steps * (2 * den * exact)
    <3>1. 2 * num + den \in Int /\ 2 * num - den \in Int OBVIOUS
    <3> QED BY <1>1, <1>3, <2>1, <3>1, Products
  <2>3. Steps * (2 * den * exact) = den * y BY <1>1
  <2>4. /\ Steps * (2 * num + den) = 2 * Steps * num + Steps * den
        /\ Steps * (2 * num - den) = 2 * Steps * num - Steps * den
    BY <1>1
  <2> QED BY <1>1, <1>7, <2>2, <2>3, <2>4
<1>11. den * total + Steps * den = den * (w + 2 * Steps * Snap + Steps)
  BY <1>1 DEF total
<1>12. w + 2 * Steps * Snap + Steps <= w + 2 * Steps * (Snap + Half) BY <1>1 DEF Half
<1>13. den * (w + 2 * Steps * Snap + Steps) <= den * (w + 2 * Steps * (Snap + Half))
  <2>1. /\ w + 2 * Steps * Snap + Steps \in Int
        /\ w + 2 * Steps * (Snap + Half) \in Int
    BY <1>1 DEF Half
  <2> QED BY <1>12, <2>1, Products
<1>14. /\ den * y \in Int /\ 2 * Steps * num \in Int /\ den * total \in Int
       /\ Steps * den \in Int /\ den * (w + 2 * Steps * (Snap + Half)) \in Int
  BY <1>1, <1>6, <1>7 DEF Half
<1> DEFINE bound == den * (w + 2 * Steps * (Snap + Half))
<1> DEFINE goal == 2 * Steps * num
<1> HIDE DEF bound, goal, y
<1>15. den * x - goal <= bound /\ goal - den * x <= bound
  BY <1>8, <1>9, <1>10, <1>11, <1>13, <1>14 DEF bound, goal
<1>16. Distance(2 * den * code, goal) <= bound
  BY <1>8, <1>14, <1>15, DistanceBounds DEF bound, goal
<1> QED BY <1>16 DEF StandsFor, bound, goal, code, c, w

LEMMA CodeOfZero ==
  ASSUME NEW range, IsRange(range), Contains(range, 0)
  PROVE  StandsFor(Encode(0, range), range, [num |-> 0, den |-> 1], 0)
<1> DEFINE w == Width(range)
<1> DEFINE c == Encode(0, range)
<1>1. /\ w \in Nat \ {0} /\ c \in Int /\ Steps \in Nat
      /\ range.min \in Int /\ range.max \in Int
  BY EncodeWithinRange, ProtocolAssumption DEF Width, IsRange
<1>2. /\ 2 * w * c <= 2 * ((0 - range.min) * Steps) + w
      /\ 2 * ((0 - range.min) * Steps) - w <= 2 * w * c
  BY EncodeIsNearest DEF Contains
<1> HIDE DEF c, w
<1>3. (0 - range.min) * Steps = -(Steps * range.min) /\ 2 * w * c = 2 * (c * w) BY <1>1
<1>4. Distance(2 * 1 * (Steps * range.min + c * w), 2 * Steps * 0)
        <= 1 * (w + 2 * Steps * 0)
  <2> DEFINE a == 2 * 1 * (Steps * range.min + c * w)
  <2>1. a \in Int /\ a - 0 <= w /\ 0 - a <= w BY <1>1, <1>2, <1>3
  <2>2. 2 * Steps * 0 = 0 /\ 1 * (w + 2 * Steps * 0) = w BY <1>1
  <2> HIDE DEF a
  <2>3. Distance(a, 0) <= w BY <1>1, <2>1, DistanceBounds
  <2> QED BY <2>2, <2>3 DEF a
<1> QED BY <1>4 DEF StandsFor, c, w

LEMMA FramesMeanTargets ==
  ASSUME Steps < Word,
         NEW j, Accepted(j), NEW t, IsTarget(t), Sendable(j, t)
  PROVE  FrameMeans(j, MotionFrame(j, t), t)
<1> DEFINE frame == MotionFrame(j, t)
<1>1. /\ DestinationOf(frame.id) = j.can_id
      /\ CodeOf(frame, "position") = Encode(Position(j, t), j.limits.position)
      /\ CodeOf(frame, "velocity") = Encode(Velocity(j, t), j.limits.velocity)
      /\ CodeOf(frame, "effort") = Encode(Effort(j, t), j.limits.effort_wire)
      /\ t.interface # "position" => Be16(frame.data, 4) = 0
      /\ t.interface \notin {"position", "velocity"} => Be16(frame.data, 6) = 0
  BY MotionFrameFields DEF CodeOf
<1>2. /\ WireRange(j, "position") = j.limits.position
      /\ WireRange(j, "velocity") = j.limits.velocity
      /\ WireRange(j, "effort") = j.limits.effort_wire
  BY DEF WireRange
<1>3. /\ j.direction \in Int /\ j.position_offset \in Int
      /\ j.gear.num \in Nat \ {0} /\ j.gear.den \in Nat \ {0}
  BY DEF Accepted, IsJoint, IsTransform
<1>4. 0 <= Snap BY SnapAssumption
<1> HIDE DEF frame
<1>5. ASSUME t.interface # "none"
      PROVE  StandsFor(CodeOf(frame, t.interface), WireRange(j, t.interface),
                       Ideal(j, t.interface, t.value), Snap + Half)
  <2>1. t.value \in Int BY <1>5, SendableValues
  <2>2. CASE t.interface = "position"
    <3> DEFINE num == j.direction * (t.value - j.position_offset) * j.gear.num
    <3>1. num \in Int BY <1>3, <2>1
    <3>2. ToMotor(j, t.value) = Nearest(num, j.gear.den)
      BY <1>3, <2>1 DEF ToMotor, Times
    <3>3. Ideal(j, "position", t.value) = [num |-> num, den |-> j.gear.den] BY DEF Ideal
    <3> HIDE DEF num
    <3>4. /\ Position(j, t) \in Int /\ ToMotor(j, t.value) \in Int
          /\ Contains(j.limits.position, Position(j, t))
          /\ Position(j, t) - ToMotor(j, t.value) <= Snap
          /\ ToMotor(j, t.value) - Position(j, t) <= Snap
      BY <2>2, SendableValues DEF Claims
    <3> QED BY <1>1, <1>2, <1>3, <2>2, <3>1, <3>2, <3>3, <3>4, RangesAreRanges,
               CodeStandsForRatio
  <2>3. CASE t.interface = "velocity"
    <3> DEFINE num == j.direction * t.value * j.gear.num
    <3>1. num \in Int BY <1>3, <2>1
    <3>2. Velocity(j, t) = Nearest(num, j.gear.den)
      BY <1>3, <2>1, <2>3 DEF Velocity, Claimed, Claims, MotorVelocity, Times
    <3>3. Ideal(j, "velocity", t.value) = [num |-> num, den |-> j.gear.den] BY DEF Ideal
    <3> HIDE DEF num
    <3>4. Velocity(j, t) \in Int /\ Contains(j.limits.velocity, Velocity(j, t))
      BY SendableValues
    <3>5. Velocity(j, t) - Velocity(j, t) = 0 BY <3>4
    <3> QED BY <1>1, <1>2, <1>3, <1>4, <2>3, <3>1, <3>2, <3>3, <3>4, <3>5,
               RangesAreRanges, CodeStandsForRatio
  <2>4. CASE t.interface = "effort"
    <3> DEFINE num == j.direction * t.value * j.gear.den
    <3>1. num \in Int BY <1>3, <2>1
    <3>2. Effort(j, t) = Nearest(num, j.gear.num)
      BY <1>3, <2>1, <2>4 DEF Effort, Claimed, Claims, MotorEffort, Over
    <3>3. Ideal(j, "effort", t.value) = [num |-> num, den |-> j.gear.num] BY DEF Ideal
    <3> HIDE DEF num
    <3>4. Effort(j, t) \in Int /\ Contains(j.limits.effort_wire, Effort(j, t))
      BY SendableValues
    <3>5. Effort(j, t) - Effort(j, t) = 0 BY <3>4
    <3> QED BY <1>1, <1>2, <1>3, <1>4, <2>4, <3>1, <3>2, <3>3, <3>4, <3>5,
               RangesAreRanges, CodeStandsForRatio
  <2> QED BY <1>5, <2>2, <2>3, <2>4 DEF IsTarget, Interfaces
<1>6. ASSUME NEW interface \in {"velocity", "effort"} \ {t.interface}
      PROVE  StandsFor(CodeOf(frame, interface), WireRange(j, interface),
                       [num |-> 0, den |-> 1], 0)
  <2>1. CASE interface = "velocity"
    <3>1. Velocity(j, t) = 0 BY <2>1 DEF Velocity, Claimed, Claims
    <3>2. Contains(j.limits.velocity, 0) BY <3>1, SendableValues
    <3> QED BY <1>1, <1>2, <2>1, <3>1, <3>2, RangesAreRanges, CodeOfZero
  <2>2. CASE interface = "effort"
    <3>1. Effort(j, t) = 0 BY <2>2 DEF Effort, Claimed, Claims
    <3>2. Contains(j.limits.effort_wire, 0) BY <3>1, SendableValues
    <3> QED BY <1>1, <1>2, <2>2, <3>1, <3>2, RangesAreRanges, CodeOfZero
  <2> QED BY <2>1, <2>2
<1> QED BY <1>1, <1>5, <1>6 DEF FrameMeans, frame

\* What is queued was made from the targets of the joints, and is not kept when
\* the hardware stops.
FramesInv ==
  /\ \A i \in DOMAIN joints : 1..i \subseteq DOMAIN joints
  /\ phase # "active" => queued = <<>>
  /\ \A i \in DOMAIN queued :
       /\ i \in DOMAIN joints
       /\ Sendable(joints[i], target[i])
       /\ queued[i] = MotionFrame(joints[i], target[i])

LEMMA NothingIsInEmpty == DOMAIN <<>> = {}
  OBVIOUS

LEMMA FramesInvInit == Init => FramesInv
  BY NothingIsInEmpty DEF Init, FramesInv

LEMMA FramesInvNext == FramesInv /\ [Next]_vars => FramesInv'
<1> SUFFICES ASSUME FramesInv, [Next]_vars PROVE FramesInv' OBVIOUS
<1>1. ASSUME NEW info \in Configurations, Configure(info) PROVE FramesInv'
  <2>1. queued' = <<>> BY <1>1 DEF Configure
  <2>2. \A i \in DOMAIN joints' : 1..i \subseteq DOMAIN joints'
    <3>1. CASE phase' = "inactive"
      <4>1. joints' = ParsedJoints(info) BY <1>1, <3>1 DEF Configure
      <4>2. DOMAIN joints' = 1..Len(info.joints) /\ Len(info.joints) \in Nat
        BY <4>1, DescriptionsAssumption DEF ParsedJoints
      <4> QED BY <4>2
    <3>2. CASE phase' # "inactive"
      <4>1. joints' = <<>> BY <1>1, <3>2 DEF Configure
      <4> QED BY <4>1, NothingIsInEmpty
    <3> QED BY <3>1, <3>2
  <2> QED BY <2>1, <2>2, NothingIsInEmpty DEF FramesInv
<1>2. CASE Start
  BY <1>2, NothingIsInEmpty DEF Start, configuration, FramesInv
<1>3. CASE Stop BY <1>3, NothingIsInEmpty DEF Stop, configuration, FramesInv
<1>4. CASE Cycle
  <2>1. phase' = "active" /\ joints' = joints
    BY <1>4 DEF Cycle, SendCommands, configuration
  <2>2. CASE command_rejected'
    <3>1. queued' = <<>> BY <1>4, <2>2 DEF Cycle, SendCommands
    <3> QED BY <2>1, <3>1, NothingIsInEmpty DEF FramesInv
  <2>3. CASE ~command_rejected'
    <3>1. \A i \in DOMAIN joints : Sendable(joints[i], target'[i])
      BY <1>4, <2>3 DEF Cycle, SendCommands
    <3>2. queued' = snapshot' BY <1>4, <2>3 DEF Cycle, SendCommands
    <3>3. snapshot' = [i \in DOMAIN joints |->
             IF \A k \in 1..i : Sendable(joints[k], target'[k])
             THEN MotionFrame(joints[i], target'[i]) ELSE snapshot[i]]
      BY <1>4 DEF Cycle, SendCommands
    <3>4. \A i \in DOMAIN joints : 1..i \subseteq DOMAIN joints BY DEF FramesInv
    <3>5. \A i \in DOMAIN joints : snapshot'[i] = MotionFrame(joints[i], target'[i])
      BY <3>1, <3>3, <3>4
    <3>6. DOMAIN queued' = DOMAIN joints BY <3>2, <3>3
    <3> QED BY <2>1, <3>1, <3>2, <3>5, <3>6 DEF FramesInv
  <2> QED BY <2>2, <2>3
<1>5. ASSUME NEW i \in DOMAIN joints, Obey(i) \/ Overhear(i) PROVE FramesInv'
  <2>1. UNCHANGED <<phase, joints, target, queued>>
    BY <1>5 DEF Obey, Overhear, ReceiveFrame, configuration
  <2> QED BY <2>1 DEF FramesInv
<1>6. CASE UNCHANGED vars BY <1>6 DEF vars, configuration, FramesInv
<1> QED BY <1>1, <1>2, <1>3, <1>4, <1>5, <1>6 DEF Next

\* Whatever the limits, the directions, the gears and the offsets of an accepted
\* description are: what is queued for a motor decodes to the target of its joint
\* up to the rounding, if the codes have 16 bits (send_commands, make_motion_command).
THEOREM NoTargetIsClipped ==
  ASSUME Steps < Word
  PROVE  Spec => []TargetsArriveUnclipped
<1>1. RejectionInv /\ FramesInv => TargetsArriveUnclipped
  BY FramesMeanTargets DEF RejectionInv, FramesInv, TargetsArriveUnclipped
<1> QED BY <1>1, RejectionInvInit, RejectionInvNext, FramesInvInit, FramesInvNext, PTL
        DEF Spec

-----------------------------------------------------------------------------
(* Reports come back.                                                       *)

\* A value that is encoded and decoded is off by half a step and half a unit.
LEMMA DecodedIsNear ==
  ASSUME NEW range, IsRange(range), NEW m \in Int, Contains(range, m)
  PROVE  LET back == Decode(Encode(m, range), range) IN
         /\ back \in Int
         /\ 2 * (Steps * back) - 2 * (Steps * m) <= Width(range) + Steps
         /\ 2 * (Steps * m) - 2 * (Steps * back) <= Width(range) + Steps
<1> DEFINE w == Width(range)
<1> DEFINE c == Encode(m, range)
<1> DEFINE n == Nearest(c * w, Steps)
<1>1. /\ w \in Nat \ {0} /\ c \in Int /\ Steps \in Nat \ {0}
      /\ range.min \in Int /\ range.max \in Int
  <2>1. c \in 0..Steps BY EncodeWithinRange
  <2> QED BY <2>1, ProtocolAssumption DEF Width, IsRange
<1>2. /\ 2 * w * c <= 2 * ((m - range.min) * Steps) + w
      /\ 2 * ((m - range.min) * Steps) - w <= 2 * w * c
  BY EncodeIsNearest DEF Contains
<1> HIDE DEF c, w
<1>3. c * w \in Int BY <1>1
<1>4. /\ n \in Int /\ 2 * Steps * n <= 2 * (c * w) + Steps
      /\ 2 * (c * w) - Steps <= 2 * Steps * n
  BY <1>1, <1>3, NearestBounds
<1> HIDE DEF n
<1> DEFINE back == range.min + n
<1>5. back \in Int /\ 2 * (Steps * back) = 2 * (Steps * range.min) + 2 * Steps * n
  BY <1>1, <1>4
<1>6. (m - range.min) * Steps = Steps * m - Steps * range.min /\ 2 * w * c = 2 * (c * w)
  BY <1>1
<1>7. /\ 2 * (Steps * back) - 2 * (Steps * m) <= w + Steps
      /\ 2 * (Steps * m) - 2 * (Steps * back) <= w + Steps
  BY <1>1, <1>2, <1>3, <1>4, <1>5, <1>6
<1> QED BY <1>5, <1>7 DEF Decode, back, n, c, w

\* There and back: x becomes exact with the ratio a / b, is sent as m, comes back as
\* back and becomes y.  One side of the distance.
LEMMA RoundTripAbove ==
  ASSUME NEW a \in Nat \ {0}, NEW b \in Nat \ {0}, NEW k \in Nat, NEW w \in Nat,
         NEW x \in Int, NEW y \in Int, NEW exact \in Int, NEW m \in Int, NEW back \in Int,
         NEW s \in Nat \ {0},
         2 * b * exact <= 2 * (x * a) + b,
         m - exact <= k,
         2 * (s * back) - 2 * (s * m) <= w + s,
         2 * a * y <= 2 * (back * b) + a
  PROVE  2 * s * a * (y - x) <= b * (w + 2 * s * (1 + k)) + s * a
<1>1. /\ s * (2 * a * y) <= s * (2 * (back * b) + a)
      /\ b * (2 * (s * back) - 2 * (s * m)) <= b * (w + s)
      /\ (2 * s * b) * (m - exact) <= (2 * s * b) * k
      /\ s * (2 * b * exact) <= s * (2 * (x * a) + b)
  <2>1. /\ 2 * a * y \in Int /\ 2 * (back * b) + a \in Int
        /\ 2 * (s * back) - 2 * (s * m) \in Int /\ w + s \in Int
        /\ m - exact \in Int /\ 2 * s * b \in Nat
        /\ 2 * b * exact \in Int /\ 2 * (x * a) + b \in Int
    OBVIOUS
  <2> QED BY <2>1, Products
<1> DEFINE say == s * a * y
<1> DEFINE sax == s * a * x
<1> DEFINE sbback == s * b * back
<1> DEFINE sbm == s * b * m
<1> DEFINE sbe == s * b * exact
<1> DEFINE sbk == s * b * k
<1>2. /\ say \in Int /\ sax \in Int /\ sbback \in Int /\ sbm \in Int /\ sbe \in Int
      /\ sbk \in Int /\ s * a \in Int /\ s * b \in Int /\ b * w \in Int
  OBVIOUS
<1>3. s * (2 * a * y) = 2 * say /\ s * (2 * (back * b) + a) = 2 * sbback + s * a
  OBVIOUS
<1>4. /\ b * (2 * (s * back) - 2 * (s * m)) = 2 * sbback - 2 * sbm
      /\ b * (w + s) = b * w + s * b
  OBVIOUS
<1>5. (2 * s * b) * (m - exact) = 2 * sbm - 2 * sbe /\ (2 * s * b) * k = 2 * sbk
  OBVIOUS
<1>6. s * (2 * b * exact) = 2 * sbe /\ s * (2 * (x * a) + b) = 2 * sax + s * b
  OBVIOUS
<1>7. 2 * s * a * (y - x) = 2 * say - 2 * sax
  OBVIOUS
<1>8. b * (w + 2 * s * (1 + k)) + s * a = b * w + 2 * (s * b) + 2 * sbk + s * a
  OBVIOUS
<1> HIDE DEF say, sax, sbback, sbm, sbe, sbk
<1> QED BY <1>1, <1>2, <1>3, <1>4, <1>5, <1>6, <1>7, <1>8

\* Both sides.
LEMMA RoundTrip ==
  ASSUME NEW a \in Nat \ {0}, NEW b \in Nat \ {0}, NEW k \in Nat,
         NEW range, IsRange(range), NEW x \in Int, NEW y \in Int, NEW m \in Int,
         Contains(range, m),
         m - Nearest(x * a, b) <= k, Nearest(x * a, b) - m <= k,
         LET back == Decode(Encode(m, range), range) IN
         2 * a * y <= 2 * (back * b) + a /\ 2 * (back * b) - a <= 2 * a * y
  PROVE  2 * Steps * a * Distance(y, x)
           <= b * (Width(range) + 2 * Steps * (1 + k)) + Steps * a
<1> DEFINE back == Decode(Encode(m, range), range)
<1> DEFINE w == Width(range)
<1> DEFINE exact == Nearest(x * a, b)
<1> DEFINE bound == b * (w + 2 * Steps * (1 + k)) + Steps * a
<1>1. w \in Nat /\ Steps \in Nat \ {0} BY ProtocolAssumption DEF Width, IsRange
<1>2. /\ back \in Int
      /\ 2 * (Steps * back) - 2 * (Steps * m) <= w + Steps
      /\ 2 * (Steps * m) - 2 * (Steps * back) <= w + Steps
  BY DecodedIsNear
<1>3. exact \in Int /\ 2 * b * exact <= 2 * (x * a) + b /\ 2 * (x * a) - b <= 2 * b * exact
  <2>1. x * a \in Int OBVIOUS
  <2> QED BY <2>1, NearestBounds
<1>4. m - exact <= k /\ exact - m <= k OBVIOUS
<1>5. 2 * a * y <= 2 * (back * b) + a /\ 2 * (back * b) - a <= 2 * a * y OBVIOUS
<1> HIDE DEF back, w, exact
<1>6. 2 * Steps * a * (y - x) <= bound BY <1>1, <1>2, <1>3, <1>4, <1>5, RoundTripAbove
<1>7. 2 * Steps * a * (x - y) <= bound
  <2>1. /\ 2 * b * (-exact) <= 2 * ((-x) * a) + b
        /\ (-m) - (-exact) <= k
        /\ 2 * (Steps * (-back)) - 2 * (Steps * (-m)) <= w + Steps
        /\ 2 * a * (-y) <= 2 * ((-back) * b) + a
    <3>1. 2 * b * (-exact) = -(2 * b * exact) /\ 2 * ((-x) * a) = -(2 * (x * a)) BY <1>3
    <3>2. Steps * (-back) = -(Steps * back) /\ Steps * (-m) = -(Steps * m) BY <1>1, <1>2
    <3>3. 2 * a * (-y) = -(2 * a * y) /\ 2 * ((-back) * b) = -(2 * (back * b)) BY <1>2
    <3> QED BY <1>1, <1>2, <1>3, <1>4, <1>5, <3>1, <3>2, <3>3
  <2>2. /\ -exact \in Int /\ -x \in Int /\ -m \in Int /\ -back \in Int /\ -y \in Int
    BY <1>2, <1>3
  <2>3. 2 * Steps * a * ((-y) - (-x)) <= bound BY <1>1, <2>1, <2>2, RoundTripAbove
  <2>4. (-y) - (-x) = x - y OBVIOUS
  <2> QED BY <2>3, <2>4
<1>8. 2 * Steps * a * Distance(y, x) <= bound
  <2>1. Distance(y, x) \in {y - x, x - y} BY DEF Distance
  <2> HIDE DEF bound
  <2> QED BY <1>6, <1>7, <2>1
<1> QED BY <1>8 DEF bound, w

\* What is heard of a motor that has taken a frame to the letter.
IsReportOf(f, j, frame) ==
  /\ f.position = ReportedPosition(j, Decode(Be16(frame.data, 0), j.limits.position))
  /\ f.velocity = JointVelocity(j, Decode(Be16(frame.data, 2), j.limits.velocity))
  /\ f.effort = JointEffort(j, Decode(AreaOf(frame.id), j.limits.effort_wire))

LEMMA ReportsMeanTargets ==
  ASSUME Steps < Word,
         NEW j, Accepted(j), NEW t, IsTarget(t), Sendable(j, t), t.interface # "none",
         NEW f, IsReportOf(f, j, MotionFrame(j, t))
  PROVE  LET w == Width(WireRange(j, t.interface))
             d == Distance(f[t.interface], t.value) IN
         IF t.interface = "effort"
         THEN 2 * Steps * j.gear.den * d
                <= j.gear.num * (w + 2 * Steps) + Steps * j.gear.den
         ELSE 2 * Steps * j.gear.num * d
                <= j.gear.den * (w + 2 * Steps * (1 + Snap)) + Steps * j.gear.num
<1> DEFINE v == t.value
<1> DEFINE num == j.gear.num
<1> DEFINE den == j.gear.den
<1>1. /\ j.direction \in {1, -1} /\ j.position_offset \in Int
      /\ num \in Nat \ {0} /\ den \in Nat \ {0} /\ v \in Int
  BY SendableValues DEF Accepted, IsJoint, IsTransform
<1>2. Snap \in Nat /\ Steps \in Nat BY SnapAssumption, ProtocolAssumption
<1>3. ASSUME NEW code \in 0..Steps, NEW range, IsRange(range)
      PROVE  Decode(code, range) \in Int
  <2>1. code \in Int /\ Width(range) \in Int BY <1>2, <1>3 DEF Width, IsRange
  <2>2. code * Width(range) \in Int BY <2>1
  <2>3. Nearest(code * Width(range), Steps) \in Int
    BY <2>2, NearestBounds, ProtocolAssumption
  <2> QED BY <1>3, <2>3 DEF Decode, IsRange
<1>4. ASSUME NEW p \in Int, NEW q \in Int
      PROVE  Distance(j.direction * p, j.direction * q) = Distance(p, q)
  BY <1>1 DEF Distance
<1>5. CASE t.interface = "position"
  <2> DEFINE m == Position(j, t)
  <2> DEFINE range == j.limits.position
  <2> DEFINE back == Decode(Encode(m, range), range)
  <2> DEFINE x == j.direction * (v - j.position_offset)
  <2> DEFINE y == Over(back, j.gear)
  <2>1. /\ m \in Int /\ Contains(range, m)
        /\ m - ToMotor(j, v) <= Snap /\ ToMotor(j, v) - m <= Snap
    BY <1>5, SendableValues DEF Claims
  <2>2. IsRange(range) BY RangesAreRanges
  <2>3. x \in Int /\ ToMotor(j, v) = Nearest(x * num, den) BY <1>1 DEF ToMotor, Times
  <2>4. f.position = j.direction * y + j.position_offset
    BY MotionFrameFields DEF IsReportOf, ReportedPosition
  <2>5. WireRange(j, t.interface) = range BY <1>5 DEF WireRange
  <2> HIDE DEF m, range, x
  <2>6. back \in Int BY <1>3, <2>1, <2>2, EncodeWithinRange
  <2>7. y \in Int /\ 2 * num * y <= 2 * (back * den) + num
        /\ 2 * (back * den) - num <= 2 * num * y
    <3>1. back * den \in Int BY <1>1, <2>6
    <3> QED BY <1>1, <3>1, NearestBounds DEF Over
  <2> HIDE DEF y, num, den
  <2>8. 2 * Steps * num * Distance(y, x)
          <= den * (Width(range) + 2 * Steps * (1 + Snap)) + Steps * num
    BY <1>1, <1>2, <2>1, <2>2, <2>3, <2>7, RoundTrip
  <2>9. Distance(f.position, v) = Distance(y, x)
    BY <1>1, <2>4, <2>7 DEF Distance, x
  <2> QED BY <1>5, <2>5, <2>8, <2>9 DEF num, den
<1>6. CASE t.interface = "velocity"
  <2> DEFINE m == Velocity(j, t)
  <2> DEFINE range == j.limits.velocity
  <2> DEFINE back == Decode(Encode(m, range), range)
  <2> DEFINE x == j.direction * v
  <2> DEFINE y == Over(back, j.gear)
  <2>1. m \in Int /\ Contains(range, m) BY SendableValues
  <2>2. IsRange(range) BY RangesAreRanges
  <2>3. x \in Int /\ m = Nearest(x * num, den)
    BY <1>1, <1>6 DEF Velocity, Claimed, Claims, MotorVelocity, Times
  <2>4. f.velocity = j.direction * y BY MotionFrameFields DEF IsReportOf, JointVelocity
  <2>5. WireRange(j, t.interface) = range BY <1>6 DEF WireRange
  <2> HIDE DEF m, range, x
  <2>6. back \in Int BY <1>3, <2>1, <2>2, EncodeWithinRange
  <2>7. y \in Int /\ 2 * num * y <= 2 * (back * den) + num
        /\ 2 * (back * den) - num <= 2 * num * y
    <3>1. back * den \in Int BY <1>1, <2>6
    <3> QED BY <1>1, <3>1, NearestBounds DEF Over
  <2>8. m - m <= Snap BY <1>2, <2>1
  <2> HIDE DEF y, num, den
  <2>9. 2 * Steps * num * Distance(y, x)
          <= den * (Width(range) + 2 * Steps * (1 + Snap)) + Steps * num
    BY <1>1, <1>2, <2>1, <2>2, <2>3, <2>7, <2>8, RoundTrip
  <2>10. Distance(f.velocity, v) = Distance(y, x)
    BY <1>1, <2>4, <2>7 DEF Distance, x
  <2> QED BY <1>6, <2>5, <2>9, <2>10 DEF num, den
<1>7. CASE t.interface = "effort"
  <2> DEFINE m == Effort(j, t)
  <2> DEFINE range == j.limits.effort_wire
  <2> DEFINE back == Decode(Encode(m, range), range)
  <2> DEFINE x == j.direction * v
  <2> DEFINE r == Times(j.direction * back, j.gear)
  <2> DEFINE y == j.direction * r
  <2>1. m \in Int /\ Contains(range, m) BY SendableValues
  <2>2. IsRange(range) BY RangesAreRanges
  <2>3. x \in Int /\ m = Nearest(x * den, num)
    BY <1>1, <1>7 DEF Effort, Claimed, Claims, MotorEffort, Over
  <2>4. f.effort = r BY MotionFrameFields DEF IsReportOf, JointEffort
  <2>5. WireRange(j, t.interface) = range BY <1>7 DEF WireRange
  <2> HIDE DEF m, range, x
  <2>6. back \in Int BY <1>3, <2>1, <2>2, EncodeWithinRange
  <2> HIDE DEF back
  <2>7. r \in Int /\ 2 * den * r <= 2 * (j.direction * back * num) + den
        /\ 2 * (j.direction * back * num) - den <= 2 * den * r
    <3>1. j.direction * back * num \in Int BY <1>1, <2>6
    <3> QED BY <1>1, <3>1, NearestBounds DEF Times
  <2> HIDE DEF r, num, den
  <2>8. y \in Int /\ 2 * den * y <= 2 * (back * num) + den
        /\ 2 * (back * num) - den <= 2 * den * y
    <3>1. CASE j.direction = 1 BY <1>1, <2>6, <2>7, <3>1
    <3>2. CASE j.direction = -1
      <4>1. j.direction * back * num = -(back * num) /\ 2 * den * y = -(2 * den * r)
        BY <1>1, <2>6, <2>7, <3>2
      <4> QED BY <1>1, <2>6, <2>7, <3>2, <4>1
    <3> QED BY <1>1, <3>1, <3>2
  <2>9. Distance(f.effort, v) = Distance(y, x)
    BY <1>1, <2>4, <2>7 DEF Distance, x
  <2> HIDE DEF y
  <2>10. m - m <= 0 /\ 0 \in Nat BY <2>1
  <2>11. 2 * Steps * den * Distance(y, x)
           <= num * (Width(range) + 2 * Steps * (1 + 0)) + Steps * den
    BY <1>1, <1>2, <2>1, <2>2, <2>3, <2>8, <2>10, RoundTrip DEF back
  <2>12. 2 * Steps * (1 + 0) = 2 * Steps BY <1>2
  <2> QED BY <1>7, <2>5, <2>9, <2>11, <2>12 DEF num, den
<1> QED BY <1>5, <1>6, <1>7 DEF IsTarget, Interfaces

LEMMA ReportFields ==
  ASSUME NEW motor \in 1..255, NEW host \in Bytes,
         NEW command, IsData(command.data), AreaOf(command.id) \in Nat
  PROVE  LET frame == Received(Report(motor, host, command)) IN
         /\ MotorOf(frame) = motor
         /\ Be16(frame.data, 0) = Be16(command.data, 0)
         /\ Be16(frame.data, 2) = Be16(command.data, 2)
         /\ Be16(frame.data, 4) = AreaOf(command.id)
<1> DEFINE frame == Received(Report(motor, host, command))
<1> DEFINE area == 2 * 16384 + motor
<1>1. AreaOf(frame.id) = area
  <2>1. area \in Words /\ TypeFeedback \in 0..31 BY DEF Words, Word, TypeFeedback
  <2>2. frame.id = BaseId(TypeFeedback, area, host) BY DEF Received, Report
  <2> HIDE DEF area
  <2> QED BY <2>1, <2>2, FieldsOfId
<1>2. area % Byte = motor
  <2>1. area = 128 * Byte + motor /\ motor \in 0..(Byte - 1) BY DEF Byte
  <2> QED BY <2>1, Sizes, Digits
<1> DEFINE d4 == PutBe16(command.data, 4, AreaOf(command.id))
<1> DEFINE d6 == PutBe16(d4, 6, 250)
<1>3. frame.data = d6 BY DEF Received, Report
<1>4. /\ 0 \in Offsets /\ 2 \in Offsets /\ 4 \in Offsets /\ 6 \in Offsets
      /\ 0 # 4 /\ 0 # 6 /\ 2 # 4 /\ 2 # 6 /\ 4 # 6
  BY DEF Offsets
<1> HIDE DEF frame
<1>5. /\ IsData(d4) /\ Be16(d4, 0) = Be16(command.data, 0)
      /\ Be16(d4, 2) = Be16(command.data, 2) /\ Be16(d4, 4) = AreaOf(command.id)
  BY <1>4, PutAndGet
<1> HIDE DEF d4
<1>6. Be16(d6, 0) = Be16(d4, 0) /\ Be16(d6, 2) = Be16(d4, 2) /\ Be16(d6, 4) = Be16(d4, 4)
  BY <1>4, <1>5, PutAndGet
<1> QED BY <1>1, <1>2, <1>3, <1>5, <1>6 DEF MotorOf, frame

\* What is known of a motor is what it reports of the frame that is queued for it:
\* no joint shares its identifier, and echoes are not taken for reports.
ReportsInv ==
  /\ DOMAIN feedback = DOMAIN joints
  /\ \A a, b \in DOMAIN joints : joints[a].can_id = joints[b].can_id => a = b
  /\ joints # <<>> => settings.host_can_id \in Bytes
  /\ \A i \in DOMAIN feedback : feedback[i] # NoFeedback =>
       i \in DOMAIN queued /\ IsReportOf(feedback[i], joints[i], queued[i])

LEMMA ReportsInvInit == Init => ReportsInv
  BY NothingIsInEmpty DEF Init, ReportsInv

LEMMA ReportIsHeard ==
  ASSUME Steps < Word, RejectionInv, FramesInv, ReportsInv,
         NEW i \in DOMAIN queued, NEW host \in Bytes,
         ReceiveFrame(Received(Report(joints[i].can_id, host, queued[i])))
  PROVE  ReportsInv'
<1> DEFINE frame == Received(Report(joints[i].can_id, host, queued[i]))
<1> DEFINE j == joints[i]
<1>1. UNCHANGED <<settings, joints, queued>> BY DEF ReceiveFrame, configuration
<1>2. i \in DOMAIN joints /\ Accepted(j) BY DEF FramesInv, RejectionInv
<1>3. /\ queued[i] = MotionFrame(j, target[i]) /\ IsTarget(target[i])
      /\ Sendable(j, target[i])
  BY <1>2 DEF FramesInv, RejectionInv
<1>4. IsData(queued[i].data) /\ AreaOf(queued[i].id) \in Nat
  <2>1. AreaOf(queued[i].id) = Encode(Effort(j, target[i]), j.limits.effort_wire)
    BY <1>2, <1>3, MotionFrameFields
  <2>2. AreaOf(queued[i].id) \in 0..Steps
    BY <1>2, <1>3, <2>1, SendableValues, RangesAreRanges, EncodeWithinRange
  <2>3. IsData(queued[i].data) BY <1>2, <1>3, MotionFrameFields
  <2> QED BY <2>2, <2>3, ProtocolAssumption
<1>5. /\ MotorOf(frame) = j.can_id
      /\ Be16(frame.data, 0) = Be16(queued[i].data, 0)
      /\ Be16(frame.data, 2) = Be16(queued[i].data, 2)
      /\ Be16(frame.data, 4) = AreaOf(queued[i].id)
  <2>1. j.can_id \in 1..255 BY <1>2 DEF Accepted
  <2> QED BY <1>4, <2>1, ReportFields
<1> HIDE DEF frame
<1>6. CASE feedback' = feedback BY <1>1, <1>6 DEF ReportsInv
<1>7. CASE feedback' # feedback
  <2> DEFINE decoded(k) == FeedbackOf(frame, joints[k].limits)
  <2>1. feedback' = [k \in DOMAIN joints |->
            IF joints[k].can_id # MotorOf(frame) THEN feedback[k]
            ELSE [position |-> ReportedPosition(joints[k], decoded(k).position),
                  velocity |-> JointVelocity(joints[k], decoded(k).velocity),
                  effort |-> JointEffort(joints[k], decoded(k).effort),
                  temperature |-> decoded(k).temperature,
                  fault |-> decoded(k).fault_flags]]
    BY <1>7 DEF ReceiveFrame, frame
  <2>2. \A k \in DOMAIN joints : k # i => feedback'[k] = feedback[k]
    BY <1>2, <1>5, <2>1 DEF ReportsInv
  <2>3. IsReportOf(feedback'[i], j, queued[i])
    <3>1. /\ feedback'[i].position = ReportedPosition(j, decoded(i).position)
          /\ feedback'[i].velocity = JointVelocity(j, decoded(i).velocity)
          /\ feedback'[i].effort = JointEffort(j, decoded(i).effort)
      BY <1>2, <1>5, <2>1
    <3>2. /\ decoded(i).position = Decode(Be16(frame.data, 0), j.limits.position)
          /\ decoded(i).velocity = Decode(Be16(frame.data, 2), j.limits.velocity)
          /\ decoded(i).effort = Decode(Be16(frame.data, 4), j.limits.effort_wire)
      BY DEF FeedbackOf
    <3> QED BY <1>5, <3>1, <3>2 DEF IsReportOf
  <2>4. DOMAIN feedback' = DOMAIN joints BY <2>1
  <2> QED BY <1>1, <2>2, <2>3, <2>4 DEF ReportsInv
<1> QED BY <1>6, <1>7

LEMMA ReportsInvNext ==
  ASSUME Steps < Word
  PROVE  RejectionInv /\ FramesInv /\ ReportsInv /\ [Next]_vars => ReportsInv'
<1> SUFFICES ASSUME RejectionInv, FramesInv, ReportsInv, [Next]_vars PROVE ReportsInv'
  OBVIOUS
<1>1. ASSUME NEW info \in Configurations, Configure(info) PROVE ReportsInv'
  <2>1. feedback' = [i \in DOMAIN joints' |-> NoFeedback] BY <1>1 DEF Configure
  <2>2. CASE phase' = "inactive"
    <3>1. /\ Parsed(info) /\ joints' = ParsedJoints(info)
          /\ settings' = SettingsOf(info.hardware)
          /\ InitializeAccepts(settings', joints')
      BY <1>1, <2>2 DEF Configure
    <3>2. \A a, b \in DOMAIN joints' : joints'[a].can_id = joints'[b].can_id => a = b
      BY <3>1 DEF InitializeAccepts, Distinct
    <3>3. settings'.host_can_id \in Bytes
      <4> DEFINE key == "host_can_id"
      <4>1. key \in IntegerKeys BY DEF IntegerKeys, Defaults, Topics, Flags
      <4>2. Whole(settings'[key], 0, 255)
        BY <3>1, <4>1 DEF Parsed, SettingsAccepted, MayBeZero
      <4>3. key \in DOMAIN Defaults /\ Defaults[key] \in Int BY DEF Defaults
      <4>4. settings'[key] = Or(info.hardware, key, Defaults[key])
        BY <3>1, <4>3 DEF SettingsOf
      <4>5. settings'[key] \in Quantities
        BY <4>1, <4>3, <4>4, DescriptionsAssumption DEF Or, Quantities, IsHardwareInfo
      <4> QED BY <4>2, <4>5 DEF Whole, Quantities, Bytes, Byte
    <3> QED BY <2>1, <3>2, <3>3 DEF ReportsInv
  <2>3. CASE phase' # "inactive"
    <3>1. joints' = <<>> BY <1>1, <2>3 DEF Configure
    <3> QED BY <2>1, <3>1, NothingIsInEmpty DEF ReportsInv
  <2> QED BY <2>2, <2>3
<1>2. CASE Start BY <1>2 DEF Start, configuration, ReportsInv
<1>3. CASE Stop BY <1>3 DEF Stop, configuration, ReportsInv
<1>4. CASE Cycle BY <1>4 DEF Cycle, SendCommands, configuration, ReportsInv
<1>5. ASSUME NEW i \in DOMAIN joints, Obey(i) PROVE ReportsInv'
  <2>1. settings.host_can_id \in Bytes BY <1>5, NothingIsInEmpty DEF ReportsInv
  <2> QED BY <1>5, <2>1, ReportIsHeard DEF Obey
<1>6. ASSUME NEW i \in DOMAIN joints, Overhear(i) PROVE ReportsInv'
  <2>1. i \in DOMAIN queued BY <1>6 DEF Overhear
  <2>2. CASE ReceiveFrame(Received(queued[i]))
    <3>1. UNCHANGED <<settings, joints, queued>>
      BY <2>2 DEF ReceiveFrame, configuration
    <3>2. TypeOf(queued[i].id) = TypeMotionControl
      BY <2>1, MotionFrameFields DEF FramesInv, RejectionInv
    <3>3. ~IsFeedback(Received(queued[i]), settings.host_can_id)
      BY <3>2 DEF IsFeedback, ForHost, Received, TypeMotionControl, TypeFeedback
    <3>4. feedback' = feedback BY <2>2, <3>3 DEF ReceiveFrame
    <3> QED BY <3>1, <3>4 DEF ReportsInv
  <2>3. CASE ReceiveFrame(Received(
               Report(joints[i].can_id, (settings.host_can_id + 1) % 256, queued[i])))
    <3>1. settings.host_can_id \in Bytes BY <1>6, NothingIsInEmpty DEF ReportsInv
    <3>2. (settings.host_can_id + 1) % 256 \in Bytes BY <3>1 DEF Bytes, Byte
    <3> QED BY <2>1, <2>3, <3>2, ReportIsHeard
  <2> QED BY <1>6, <2>2, <2>3 DEF Overhear
<1>7. CASE UNCHANGED vars BY <1>7 DEF vars, configuration, ReportsInv
<1> QED BY <1>1, <1>2, <1>3, <1>4, <1>5, <1>6, <1>7 DEF Next

\* A motor that reports the codes it was sent is reported at the target, up to the
\* steps of the wire and the rounding of both transforms; no report of another motor,
\* to another host, and no echo moves a joint (receive_frame, decode_feedback).
THEOREM ReportsAreOfTargets ==
  ASSUME Steps < Word
  PROVE  Spec => []ReportIsWhatWasCommanded
<1>1. RejectionInv /\ FramesInv /\ ReportsInv => ReportIsWhatWasCommanded
  <2> SUFFICES ASSUME RejectionInv, FramesInv, ReportsInv,
                      NEW i \in DOMAIN feedback,
                      target[i].interface # "none", feedback[i] # NoFeedback
               PROVE  LET j == joints[i] t == target[i]
                          w == Width(WireRange(j, t.interface))
                          d == Distance(feedback[i][t.interface], t.value) IN
                      IF t.interface = "effort"
                      THEN 2 * Steps * j.gear.den * d
                             <= j.gear.num * (w + 2 * Steps) + Steps * j.gear.den
                      ELSE 2 * Steps * j.gear.num * d
                             <= j.gear.den * (w + 2 * Steps * (1 + Snap))
                                + Steps * j.gear.num
    BY DEF ReportIsWhatWasCommanded
  <2>1. /\ i \in DOMAIN joints /\ Accepted(joints[i]) /\ IsTarget(target[i])
        /\ Sendable(joints[i], target[i])
        /\ IsReportOf(feedback[i], joints[i], MotionFrame(joints[i], target[i]))
    BY DEF RejectionInv, FramesInv, ReportsInv
  <2> QED BY <2>1, ReportsMeanTargets
<1> QED BY <1>1, RejectionInvInit, RejectionInvNext, FramesInvInit, FramesInvNext,
           ReportsInvInit, ReportsInvNext, PTL DEF Spec

-----------------------------------------------------------------------------
(* The parser and the driver agree.                                         *)

\* What the parser accepts initialize accepts: on_init never fails for a
\* configuration that was parsed (parse_driver_configuration, initialize).
THEOREM ParsedIsInitialized ==
  ASSUME NEW info, NEW S, info.joints \in Seq(S), Parsed(info)
  PROVE  InitializeAccepts(SettingsOf(info.hardware), ParsedJoints(info))
<1> DEFINE js == ParsedJoints(info)
<1>1. ASSUME NEW i \in DOMAIN js
      PROVE  /\ NeutralRangesValid(js[i]) /\ CommandsOrdered(js[i])
             /\ js[i].can_id # 0 /\ js[i].can_timeout_ticks # 0
             /\ js[i].can_id = info.joints[i].parameters.can_id
  <2> DEFINE p == info.joints[i].parameters
  <2>1. i \in DOMAIN info.joints /\ js[i] = JointOf(p) BY DEF ParsedJoints
  <2>2. JointAccepted(info.joints[i]) BY <2>1 DEF Parsed
  <2>3. NeutralRangesValid(js[i]) /\ CommandsOrdered(js[i])
    BY <2>1, <2>2 DEF JointAccepted
  <2>4. 1 <= p.can_id /\ 1 <= p.can_timeout_ticks
    BY <2>2 DEF JointAccepted, Complete, Whole
  <2>5. js[i].can_id = p.can_id /\ js[i].can_timeout_ticks = p.can_timeout_ticks
    BY <2>1 DEF JointOf, Uncommanded
  <2> QED BY <2>3, <2>4, <2>5
<1>2. Distinct([i \in DOMAIN js |-> js[i].can_id])
  <2>1. Distinct([i \in DOMAIN info.joints |-> info.joints[i].parameters.can_id])
    BY DEF Parsed
  <2>2. DOMAIN js = DOMAIN info.joints BY DEF ParsedJoints
  <2> HIDE DEF js
  <2>3. [i \in DOMAIN js |-> js[i].can_id]
          = [i \in DOMAIN info.joints |-> info.joints[i].parameters.can_id]
    BY <1>1, <2>2
  <2> QED BY <2>1, <2>3
<1>3. SettingsOf(info.hardware).can_rx_qos_depth # 0
  <2> DEFINE key == "can_rx_qos_depth"
  <2>1. key \in IntegerKeys
    BY DEF IntegerKeys, Defaults, Topics, Flags
  <2>2. Whole(SettingsOf(info.hardware)[key], 1, 4096)
    BY <2>1 DEF Parsed, SettingsAccepted, MayBeZero
  <2> QED BY <2>2 DEF Whole
<1>4. js # <<>>
  <2>1. 1 \in DOMAIN info.joints BY DEF Parsed
  <2>2. DOMAIN js = DOMAIN info.joints BY DEF ParsedJoints
  <2> QED BY <2>1, <2>2
<1> QED BY <1>1, <1>2, <1>3, <1>4 DEF InitializeAccepts

-----------------------------------------------------------------------------
\* The cycles of the control loop after which a time has passed.
Cycles(ms, cycle) == (ms + cycle - 1) \div cycle

LEMMA CyclesAreMonotonic ==
  ASSUME NEW a \in Nat \ {0}, NEW b \in Nat, a <= b, NEW cycle \in Nat \ {0}
  PROVE  Cycles(a, cycle) \in Nat \ {0} /\ Cycles(a, cycle) <= Cycles(b, cycle)
<1> DEFINE p == a + cycle - 1
           q == b + cycle - 1
<1>1. p \in Nat /\ q \in Nat /\ p >= cycle /\ p <= q
  OBVIOUS
<1> HIDE DEF p, q
<1>2. p \div cycle >= 1 /\ p \div cycle <= q \div cycle /\ p \div cycle \in Nat
  BY <1>1
<1> QED BY <1>2 DEF p, q, Cycles

LEMMA SettingsAreTyped ==
  ASSUME NEW hardware, IsHardwareInfo(hardware), SettingsAccepted(hardware)
  PROVE  /\ \A key \in IntegerKeys \ (MayBeZero \cup {"host_can_id"}) :
              SettingsOf(hardware)[key] \in Nat \ {0}
         /\ \A key \in Flags : SettingsOf(hardware)[key] \in BOOLEAN
<1> DEFINE s == SettingsOf(hardware)
<1>1. ASSUME NEW key \in IntegerKeys \ (MayBeZero \cup {"host_can_id"})
      PROVE  s[key] \in Nat \ {0}
  <2>1. key \in DOMAIN Defaults
    BY DEF IntegerKeys
  <2>2. Defaults[key] \in Int
    BY DEF IntegerKeys, Topics, Flags, Defaults
  <2>3. s[key] \in Quantities
    BY <2>1, <2>2 DEF SettingsOf, Or, IsHardwareInfo, Quantities
  <2>4. Whole(s[key], 1, CASE key = "host_can_id" -> 255
                          [] key = "can_rx_qos_depth" -> 4096
                          [] OTHER -> MaxInt)
    BY DEF SettingsAccepted
  <2> QED BY <2>3, <2>4 DEF Whole, Quantities
<1>2. ASSUME NEW key \in Flags PROVE s[key] \in BOOLEAN
  <2>1. key \in DOMAIN Defaults /\ Defaults[key] \in BOOLEAN
    <3>1. CASE key = "fail_on_feedback_timeout"
      BY <3>1 DEF Defaults
    <3>2. CASE key = "clear_faults_on_activate"
      BY <3>2 DEF Defaults
    <3>3. CASE key = "set_zero_on_activate"
      BY <3>3 DEF Defaults
    <3> QED BY <3>1, <3>2, <3>3 DEF Flags
  <2>2. s[key] \in BOOLEAN \cup {NaN}
    BY <2>1 DEF SettingsOf, Or, IsHardwareInfo
  <2> QED BY <2>2 DEF SettingsAccepted
<1> QED BY <1>1, <1>2

\* What CanTransport, RobStrideDriver and RecoverySupervision assume of their
\* constants holds of everything that the parser accepts, however long a cycle of
\* the control loop is (parse_driver_configuration, driver_config.cpp:314-362).
THEOREM ParsedIsAssumed ==
  ASSUME NEW info, NEW S, info.joints \in Seq(S), Parsed(info),
         IsHardwareInfo(info.hardware), NEW cycle \in Nat \ {0}
  PROVE  LET s == SettingsOf(info.hardware) IN
         /\ Len(info.joints) \in Nat \ {0}
         /\ [startup_retries |-> s.startup_retries,
             stop_repetitions |-> s.shutdown_stop_repetitions,
             clear_faults_on_start |-> s.clear_faults_on_activate,
             set_zero_on_start |-> s.set_zero_on_activate]
              \in [startup_retries : Nat \ {0}, stop_repetitions : Nat \ {0},
                   clear_faults_on_start : BOOLEAN, set_zero_on_start : BOOLEAN]
         /\ Cycles(s.run_mode_recovery_timeout_ms, cycle) \in Nat \ {0}
         /\ Cycles(s.run_mode_recovery_retry_interval_ms, cycle)
              \in 1..Cycles(s.run_mode_recovery_timeout_ms, cycle)
         /\ Cycles(s.transmit_failure_timeout_ms, cycle) \in Nat \ {0}
         /\ Cycles(s.feedback_timeout_ms, cycle) \in Nat \ {0}
<1> DEFINE s == SettingsOf(info.hardware)
<1>1. Len(info.joints) \in Nat \ {0}
  BY DEF Parsed
<1>2. SettingsAccepted(info.hardware)
  BY DEF Parsed
<1>3. /\ {"startup_retries", "shutdown_stop_repetitions",
          "run_mode_recovery_timeout_ms", "run_mode_recovery_retry_interval_ms",
          "transmit_failure_timeout_ms", "feedback_timeout_ms"}
           \subseteq IntegerKeys \ (MayBeZero \cup {"host_can_id"})
      /\ {"clear_faults_on_activate", "set_zero_on_activate"} \subseteq Flags
  BY DEF IntegerKeys, MayBeZero, Flags, Topics, Defaults
<1>4. /\ s.startup_retries \in Nat \ {0} /\ s.shutdown_stop_repetitions \in Nat \ {0}
      /\ s.run_mode_recovery_timeout_ms \in Nat \ {0}
      /\ s.run_mode_recovery_retry_interval_ms \in Nat \ {0}
      /\ s.transmit_failure_timeout_ms \in Nat \ {0}
      /\ s.feedback_timeout_ms \in Nat \ {0}
      /\ s.clear_faults_on_activate \in BOOLEAN /\ s.set_zero_on_activate \in BOOLEAN
  BY <1>2, <1>3, SettingsAreTyped
<1>5. s.run_mode_recovery_retry_interval_ms <= s.run_mode_recovery_timeout_ms
  BY <1>2 DEF SettingsAccepted
<1> HIDE DEF s
<1>6. /\ Cycles(s.run_mode_recovery_timeout_ms, cycle) \in Nat \ {0}
      /\ Cycles(s.run_mode_recovery_retry_interval_ms, cycle)
           \in 1..Cycles(s.run_mode_recovery_timeout_ms, cycle)
      /\ Cycles(s.transmit_failure_timeout_ms, cycle) \in Nat \ {0}
      /\ Cycles(s.feedback_timeout_ms, cycle) \in Nat \ {0}
  <2>1. /\ Cycles(s.run_mode_recovery_retry_interval_ms, cycle) \in Nat \ {0}
        /\ Cycles(s.run_mode_recovery_retry_interval_ms, cycle)
             <= Cycles(s.run_mode_recovery_timeout_ms, cycle)
    BY <1>4, <1>5, CyclesAreMonotonic
  <2>2. ASSUME NEW ms \in Nat \ {0} PROVE Cycles(ms, cycle) \in Nat \ {0}
    BY CyclesAreMonotonic
  <2>3. /\ Cycles(s.run_mode_recovery_timeout_ms, cycle) \in Nat \ {0}
        /\ Cycles(s.transmit_failure_timeout_ms, cycle) \in Nat \ {0}
        /\ Cycles(s.feedback_timeout_ms, cycle) \in Nat \ {0}
    BY <1>4, <2>2
  <2> QED BY <2>1, <2>3
<1>7. [startup_retries |-> s.startup_retries,
       stop_repetitions |-> s.shutdown_stop_repetitions,
       clear_faults_on_start |-> s.clear_faults_on_activate,
       set_zero_on_start |-> s.set_zero_on_activate]
        \in [startup_retries : Nat \ {0}, stop_repetitions : Nat \ {0},
             clear_faults_on_start : BOOLEAN, set_zero_on_start : BOOLEAN]
  BY <1>4
<1> QED BY <1>1, <1>6, <1>7 DEF s
=============================================================================
