------------------------------ MODULE Protocol ------------------------------
(***************************************************************************)
(* The RobStride CAN protocol (robstride_driver/src/protocol.cpp).         *)
(*                                                                         *)
(* A quantity is an integer number of units, a unit being the distance of  *)
(* neighbouring doubles: a sum is exact, and a product or a quotient with  *)
(* a ratio is the nearest unit.  A range is a record with min and max.     *)
(***************************************************************************)
EXTENDS Integers

CONSTANTS
  Steps,             \* the largest code of a quantity, 65535
  NaN                \* what is no finite number

ASSUME ProtocolAssumption == Steps \in Nat \ {0} /\ NaN \notin Int

\* std::lround(a / b), for a positive b.
Nearest(a, b) ==
  IF a >= 0 THEN (2 * a + b) \div (2 * b) ELSE -((b - 2 * a) \div (2 * b))

Clamp(v, range) ==
  IF v < range.min THEN range.min ELSE IF v > range.max THEN range.max ELSE v

-----------------------------------------------------------------------------
(* Quantities on the wire.                                                  *)

Width(range) == range.max - range.min

Encode(v, range) ==
  IF v = NaN \/ range.min >= range.max THEN 0
  ELSE Nearest((Clamp(v, range) - range.min) * Steps, Width(range))

Decode(code, range) == range.min + Nearest(code * Width(range), Steps)

-----------------------------------------------------------------------------
(* Identifiers, and the bytes of a frame.                                   *)

Byte == 256
Word == 65536

BaseId(type, area, destination) ==
  ((type % 32) * Word + area) * Byte + destination

TypeOf(id) == ((id \div Byte) \div Word) % 32
AreaOf(id) == (id \div Byte) % Word
DestinationOf(id) == id % Byte

NoData == [i \in 0..7 |-> 0]

Be16(data, offset) == data[offset] * Byte + data[offset + 1]
PutBe16(data, offset, value) ==
  [data EXCEPT ![offset] = value \div Byte, ![offset + 1] = value % Byte]
PutLe16(data, value) == [data EXCEPT ![0] = value % Byte, ![1] = value \div Byte]

-----------------------------------------------------------------------------
(* Frames of the host.                                                      *)

TypeMotionControl == 1
TypeFeedback == 2
TypeEnable == 3
TypeStop == 4
TypeSetZero == 6
TypeReadParameter == 17
TypeWriteParameter == 18

\* Mutant: the range that limits the effort encodes it too.
EffortWireSame(limits) == limits.effort
EffortWire(limits) == limits.effort_wire

MakeMotionCommand(motor, limits, position, velocity, effort, kp, kd) ==
  LET gain(v, max) == Encode(v, [min |-> 0, max |-> max]) IN
  [id |-> BaseId(TypeMotionControl,
                 Encode(Clamp(effort, limits.effort), EffortWire(limits)), motor),
   data |-> PutBe16(PutBe16(PutBe16(PutBe16(NoData,
              0, Encode(position, limits.position)),
              2, Encode(velocity, limits.velocity)),
              4, gain(kp, limits.kp_max)),
              6, gain(kd, limits.kd_max))]

MakeEnable(motor, host) ==
  [id |-> BaseId(TypeEnable, host, motor), data |-> NoData]

MakeStop(motor, host, clear_fault) ==
  [id |-> BaseId(TypeStop, host, motor),
   data |-> [NoData EXCEPT ![0] = IF clear_fault THEN 1 ELSE 0]]

MakeSetZero(motor, host) ==
  [id |-> BaseId(TypeSetZero, host, motor), data |-> [NoData EXCEPT ![0] = 1]]

MakeReadParameter(motor, host, index) ==
  [id |-> BaseId(TypeReadParameter, host, motor), data |-> PutLe16(NoData, index)]

MakeWriteU8(motor, host, index, value) ==
  [id |-> BaseId(TypeWriteParameter, host, motor),
   data |-> [PutLe16(NoData, index) EXCEPT ![4] = value]]

MakeWriteU32(motor, host, index, value) ==
  LET frame == MakeWriteU8(motor, host, index, 0)
      above(v) == v \div Byte IN
  [id |-> frame.id,
   data |-> [frame.data EXCEPT ![4] = value % Byte,
                               ![5] = above(value) % Byte,
                               ![6] = above(above(value)) % Byte,
                               ![7] = above(above(above(value))) % Byte]]

-----------------------------------------------------------------------------
(* Frames of the motors: a frame that was received has a dlc, and is        *)
(* extended or not.                                                         *)

ForHost(frame, type, host) ==
  /\ frame.is_extended /\ frame.dlc = 8
  /\ TypeOf(frame.id) = type
  /\ DestinationOf(frame.id) = host

MotorOf(frame) == AreaOf(frame.id) % Byte

IsFeedback(frame, host) == ForHost(frame, TypeFeedback, host)

FeedbackOf(frame, limits) ==
  [motor_id |-> MotorOf(frame),
   mode |-> AreaOf(frame.id) \div 16384,
   fault_flags |-> (AreaOf(frame.id) \div Byte) % 64,
   position |-> Decode(Be16(frame.data, 0), limits.position),
   velocity |-> Decode(Be16(frame.data, 2), limits.velocity),
   effort |-> Decode(Be16(frame.data, 4), limits.effort_wire),
   temperature |-> Nearest(Be16(frame.data, 6), 10)]

IsParameterResponse(frame, host) ==
  ForHost(frame, TypeReadParameter, host) /\ AreaOf(frame.id) \div Byte = 0

ParameterOf(frame) ==
  [motor_id |-> MotorOf(frame),
   index |-> frame.data[0] + Byte * frame.data[1],
   value |-> frame.data[4] + Byte * (frame.data[5]
             + Byte * (frame.data[6] + Byte * frame.data[7]))]
=============================================================================
