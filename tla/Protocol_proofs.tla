-------------------------- MODULE Protocol_proofs ---------------------------
(* What holds of the codec for every number of steps, range and frame.      *)
EXTENDS Protocol, TLAPS

-----------------------------------------------------------------------------
(* Rounding.                                                                *)

LEMMA DivisionBounds ==
  ASSUME NEW a \in Int, NEW b \in Nat \ {0}
  PROVE  a \div b \in Int /\ b * (a \div b) <= a /\ a < b * (a \div b) + b
  BY SMT

LEMMA NearestBounds ==
  ASSUME NEW a \in Int, NEW b \in Nat \ {0}
  PROVE  /\ Nearest(a, b) \in Int
         /\ 2 * b * Nearest(a, b) <= 2 * a + b
         /\ 2 * a - b <= 2 * b * Nearest(a, b)
<1>1. CASE a >= 0
  <2> DEFINE q == (2 * a + b) \div (2 * b)
  <2>1. q \in Int /\ (2 * b) * q <= 2 * a + b /\ 2 * a + b < (2 * b) * q + 2 * b
    <3>1. 2 * a + b \in Int /\ 2 * b \in Nat \ {0} BY SMT
    <3> QED BY <3>1, DivisionBounds
  <2>2. Nearest(a, b) = q BY <1>1 DEF Nearest
  <2> HIDE DEF q
  <2> QED BY <2>1, <2>2
<1>2. CASE a < 0
  <2> DEFINE q == (b - 2 * a) \div (2 * b)
  <2>1. q \in Int /\ (2 * b) * q <= b - 2 * a /\ b - 2 * a < (2 * b) * q + 2 * b
    <3>1. b - 2 * a \in Int /\ 2 * b \in Nat \ {0} BY SMT
    <3> QED BY <3>1, DivisionBounds
  <2>2. Nearest(a, b) = -q BY <1>2 DEF Nearest
  <2> HIDE DEF q
  <2>3. 2 * b * (-q) = -((2 * b) * q) BY <2>1
  <2> QED BY <2>1, <2>2, <2>3
<1> QED BY <1>1, <1>2

\* Rounding keeps the order.
LEMMA NearestMonotone ==
  ASSUME NEW a \in Int, NEW c \in Int, NEW b \in Nat \ {0}, a <= c
  PROVE  Nearest(a, b) <= Nearest(c, b)
<1> DEFINE x == Nearest(a, b)
<1> DEFINE y == Nearest(c, b)
<1>1. x \in Int /\ 2 * b * x <= 2 * a + b BY NearestBounds
<1>2. y \in Int /\ 2 * c - b <= 2 * b * y BY NearestBounds
<1>3. CASE a = c BY <1>1, <1>3
<1>4. CASE a # c
  <2> HIDE DEF x, y
  <2>1. 2 * b * x < 2 * b * (y + 1)
    <3>1. 2 * b * (y + 1) = 2 * b * y + 2 * b BY <1>2
    <3> QED BY <1>1, <1>2, <1>4, <3>1
  <2>2. x < y + 1 BY <2>1, <1>1, <1>2
  <2> QED BY <2>2, <1>1, <1>2 DEF x, y
<1> QED BY <1>3, <1>4

-----------------------------------------------------------------------------
(* Quantities.                                                              *)

IsRange(range) == range.min \in Int /\ range.max \in Int /\ range.min < range.max

LEMMA EncodeWithinRange ==
  ASSUME NEW v \in Int, NEW range, IsRange(range)
  PROVE  Encode(v, range) \in 0..Steps
<1> DEFINE w == Width(range)
<1> DEFINE n == (Clamp(v, range) - range.min) * Steps
<1>1. w \in Nat \ {0} BY DEF Width, IsRange
<1>2. Clamp(v, range) - range.min \in 0..w BY DEF Clamp, Width, IsRange
<1>3. n \in Int /\ 0 <= n /\ n <= w * Steps
  <2> HIDE DEF w
  <2>1. Steps \in Nat BY ProtocolAssumption
  <2> DEFINE d == Clamp(v, range) - range.min
  <2>2. d \in 0..w BY <1>2
  <2> HIDE DEF d
  <2>3. d * Steps \in Int /\ 0 <= d * Steps /\ d * Steps <= w * Steps
    BY <2>1, <2>2, <1>1
  <2> QED BY <2>3 DEF d
<1>4. Encode(v, range) = Nearest(n, w)
  BY ProtocolAssumption DEF Encode, IsRange
<1> HIDE DEF n, w
<1> DEFINE q == Nearest(n, w)
<1>5. q \in Int /\ 2 * w * q <= 2 * n + w /\ 2 * n - w <= 2 * w * q
  BY <1>1, <1>3, NearestBounds
<1> HIDE DEF q
<1>6. 0 <= q
  <2>1. w * (2 * q + 1) >= 0 BY <1>1, <1>3, <1>5
  <2>2. 2 * q + 1 >= 0 BY <2>1, <1>1, <1>5
  <2> QED BY <2>2, <1>5
<1>7. q <= Steps
  <2>1. w * (2 * q) <= w * (2 * Steps + 1)
    <3>1. Steps \in Nat BY ProtocolAssumption
    <3> QED BY <3>1, <1>1, <1>3, <1>5
  <2>2. 2 * q <= 2 * Steps + 1 BY <2>1, <1>1, <1>5, ProtocolAssumption
  <2> QED BY <2>2, <1>5, ProtocolAssumption
<1> QED BY <1>4, <1>5, <1>6, <1>7, ProtocolAssumption DEF q

\* Whatever the value, a number or not, within the range or beyond its ends, and
\* whichever way round the ends are, encode_u16 gives a code of the wire: it never
\* overflows its 16 bits.
THEOREM EncodeIsACode ==
  ASSUME NEW v \in Int \cup {NaN},
         NEW range, range.min \in Int, range.max \in Int
  PROVE  Encode(v, range) \in 0..Steps
<1>1. CASE v = NaN \/ range.min >= range.max
  <2>1. Encode(v, range) = 0 BY <1>1 DEF Encode
  <2> QED BY <2>1, ProtocolAssumption
<1>2. CASE v \in Int /\ ~(range.min >= range.max)
  <2>1. IsRange(range) BY <1>2 DEF IsRange
  <2> QED BY <1>2, <2>1, EncodeWithinRange
<1> QED BY <1>1, <1>2

\* The code of a quantity within its range is at most half a step off it.
THEOREM EncodeIsNearest ==
  ASSUME NEW range, IsRange(range), NEW v \in Int, range.min <= v, v <= range.max
  PROVE  /\ 2 * Width(range) * Encode(v, range)
              <= 2 * ((v - range.min) * Steps) + Width(range)
         /\ 2 * ((v - range.min) * Steps) - Width(range)
              <= 2 * Width(range) * Encode(v, range)
<1>1. Width(range) \in Nat \ {0} BY DEF Width, IsRange
<1>2. Clamp(v, range) = v BY DEF Clamp, IsRange
<1>3. Encode(v, range) = Nearest((v - range.min) * Steps, Width(range))
  BY <1>2, ProtocolAssumption DEF Encode, IsRange
<1>4. (v - range.min) * Steps \in Int BY ProtocolAssumption DEF IsRange
<1> QED BY <1>1, <1>3, <1>4, NearestBounds

-----------------------------------------------------------------------------
(* Identifiers and parameters.                                              *)

LEMMA Digits ==
  ASSUME NEW b \in Nat \ {0}, NEW q \in Int, NEW r \in 0..(b - 1)
  PROVE  (q * b + r) \div b = q /\ (q * b + r) % b = r
  BY SMT

LEMMA Remainder ==
  ASSUME NEW a \in Nat, NEW b \in Nat \ {0}
  PROVE  a \div b \in Nat /\ a % b \in 0..(b - 1) /\ a = (a % b) + b * (a \div b)
  BY SMT

Bytes == 0..(Byte - 1)
Words == 0..(Word - 1)

LEMMA Sizes == Byte \in Nat \ {0} /\ Word \in Nat \ {0} BY SMT DEF Byte, Word

LEMMA FieldsOfId ==
  ASSUME NEW type \in 0..31, NEW area \in Words, NEW destination \in Bytes
  PROVE  /\ TypeOf(BaseId(type, area, destination)) = type
         /\ AreaOf(BaseId(type, area, destination)) = area
         /\ DestinationOf(BaseId(type, area, destination)) = destination
<1> DEFINE high == type * Word + area
<1> DEFINE id == high * Byte + destination
<1>1. type % 32 = type OBVIOUS
<1>2. BaseId(type, area, destination) = id BY <1>1 DEF BaseId
<1>3. high \in Int BY Sizes DEF Words
<1>4. id \div Byte = high /\ id % Byte = destination
  <2> HIDE DEF high
  <2> QED BY <1>3, Sizes, Digits DEF Bytes
<1>5. high \div Word = type /\ high % Word = area
  <2>1. type \in Int OBVIOUS
  <2> QED BY <2>1, Sizes, Digits DEF Words
<1> HIDE DEF id, high
<1> QED BY <1>1, <1>2, <1>4, <1>5 DEF TypeOf, AreaOf, DestinationOf

TakenForAnswer(frame, host) == IsFeedback(frame, host) \/ IsParameterResponse(frame, host)

\* The frames that the driver makes for a motor; the area of a motion command is a
\* code.
HostMakes(made, motor, host) ==
  \/ \E area \in Words : \E data :
       made = [id |-> BaseId(TypeMotionControl, area, motor), data |-> data]
  \/ made = MakeEnable(motor, host)
  \/ \E clear_fault : made = MakeStop(motor, host, clear_fault)
  \/ made = MakeSetZero(motor, host)
  \/ \E index, value : made \in {MakeWriteU8(motor, host, index, value),
                                 MakeWriteU32(motor, host, index, value)}
  \/ \E index : made = MakeReadParameter(motor, host, index)

\* A frame as the bus gives it back to its sender.
Echo(made) == [id |-> made.id, data |-> made.data, dlc |-> 8, is_extended |-> TRUE]

\* An echo of the driver's own frame is taken for an answer just when it requests a
\* parameter of a motor that has the host's identifier, which neither the parser nor
\* initialize excludes; it then reads as the parameter being zero.  For any other
\* motor no confirmation comes from an echo (decode_feedback,
\* decode_parameter_response).
THEOREM EchoesAreNoAnswers ==
  ASSUME NEW motor \in Bytes, NEW host \in Bytes,
         NEW made, HostMakes(made, motor, host)
  PROVE  /\ TakenForAnswer(Echo(made), host)
              <=> motor = host /\ \E index : made = MakeReadParameter(motor, host, index)
         /\ \A index \in Words :
              ParameterOf(Echo(MakeReadParameter(host, host, index)))
                = [motor_id |-> host, index |-> index, value |-> 0]
<1> DEFINE Reads == \E index : made = MakeReadParameter(motor, host, index)
<1> DEFINE echo == Echo(made)
<1>0. echo.id = made.id /\ echo.dlc = 8 /\ echo.is_extended BY DEF Echo
<1> HIDE DEF echo
<1>1. motor \in Words /\ host \in Words BY DEF Bytes, Words, Byte, Word
<1>2. host \div Byte = 0 /\ host % Byte = host
  <2>1. host = 0 * Byte + host BY Sizes DEF Bytes
  <2> QED BY <2>1, Sizes, Digits DEF Bytes
<1>3. ASSUME NEW index
      PROVE  LET id == MakeReadParameter(motor, host, index).id IN
             /\ TypeOf(id) = TypeReadParameter /\ AreaOf(id) = host
             /\ DestinationOf(id) = motor
  <2>1. TypeReadParameter \in 0..31 BY DEF TypeReadParameter
  <2> QED BY <1>1, <2>1, FieldsOfId DEF MakeReadParameter
<1>4. ASSUME Reads PROVE TakenForAnswer(echo, host) <=> motor = host
  <2>1. PICK index : made = MakeReadParameter(motor, host, index) BY <1>4
  <2>2. /\ TypeOf(made.id) = TypeReadParameter /\ AreaOf(made.id) = host
        /\ DestinationOf(made.id) = motor
    BY <1>3, <2>1
  <2>3. TypeReadParameter # TypeFeedback BY DEF TypeReadParameter, TypeFeedback
  <2> QED BY <1>0, <1>2, <2>2, <2>3
          DEF TakenForAnswer, IsFeedback, IsParameterResponse, ForHost
<1>5. ASSUME ~Reads PROVE ~TakenForAnswer(echo, host)
  <2>1. PICK type \in {TypeMotionControl, TypeEnable, TypeStop, TypeSetZero,
                       TypeWriteParameter}, area \in Words :
          made.id = BaseId(type, area, motor)
    BY <1>1, <1>5 DEF HostMakes, MakeEnable, MakeStop, MakeSetZero, MakeWriteU8,
       MakeWriteU32
  <2>2. /\ type \in 0..31 /\ type # TypeFeedback /\ type # TypeReadParameter
    BY DEF TypeMotionControl, TypeEnable, TypeStop, TypeSetZero, TypeWriteParameter,
       TypeFeedback, TypeReadParameter
  <2>3. TypeOf(made.id) = type BY <2>1, <2>2, FieldsOfId
  <2> QED BY <1>0, <2>2, <2>3
          DEF TakenForAnswer, IsFeedback, IsParameterResponse, ForHost
<1>6. ASSUME NEW index \in Words
      PROVE  ParameterOf(Echo(MakeReadParameter(host, host, index)))
               = [motor_id |-> host, index |-> index, value |-> 0]
  <2> DEFINE frame == Echo(MakeReadParameter(host, host, index))
  <2>1. AreaOf(frame.id) = host
    <3>1. TypeReadParameter \in 0..31 BY DEF TypeReadParameter
    <3> QED BY <1>1, <3>1, FieldsOfId DEF MakeReadParameter, Echo
  <2>2. /\ frame.data[0] = index % Byte /\ frame.data[1] = index \div Byte
        /\ frame.data[4] = 0 /\ frame.data[5] = 0
        /\ frame.data[6] = 0 /\ frame.data[7] = 0
    BY DEF MakeReadParameter, Echo, PutLe16, NoData
  <2>3. index = (index % Byte) + Byte * (index \div Byte)
    BY Sizes, Remainder DEF Words
  <2>4. 0 + Byte * (0 + Byte * (0 + Byte * 0)) = 0 BY Sizes
  <2> HIDE DEF frame
  <2>5. ParameterOf(frame) = [motor_id |-> host, index |-> index, value |-> 0]
    BY <1>2, <2>1, <2>2, <2>3, <2>4 DEF ParameterOf, MotorOf
  <2> QED BY <2>5 DEF frame
<1> QED BY <1>4, <1>5, <1>6 DEF echo

\* The answer of a motor that holds a value, as it sends it.
AnswerOf(motor, host, index, value) ==
  [id |-> BaseId(TypeReadParameter, motor, host),
   data |-> MakeWriteU32(motor, host, index, value).data,
   dlc |-> 8, is_extended |-> TRUE]

\* What is written to a motor is what is read back, whole: the confirmation
\* compares index and value of the request itself (make_write_u32,
\* decode_parameter_response).
THEOREM ReadbackIsExact ==
  ASSUME NEW motor \in Bytes, NEW host \in Bytes,
         NEW index \in Words, NEW value \in Nat,
         ((value \div Byte) \div Byte) \div Byte \in Bytes
  PROVE  /\ IsParameterResponse(AnswerOf(motor, host, index, value), host)
         /\ ParameterOf(AnswerOf(motor, host, index, value))
              = [motor_id |-> motor, index |-> index, value |-> value]
<1> DEFINE answer == AnswerOf(motor, host, index, value)
<1> DEFINE data == MakeWriteU32(motor, host, index, value).data
<1> DEFINE v1 == value \div Byte
<1> DEFINE v2 == v1 \div Byte
<1> DEFINE v3 == v2 \div Byte
<1>1. /\ TypeOf(answer.id) = TypeReadParameter /\ AreaOf(answer.id) = motor
      /\ DestinationOf(answer.id) = host
  <2>1. TypeReadParameter \in 0..31 BY DEF TypeReadParameter
  <2>2. motor \in Words BY DEF Bytes, Words, Byte, Word
  <2>3. answer.id = BaseId(TypeReadParameter, motor, host) BY DEF AnswerOf
  <2> HIDE DEF answer
  <2> QED BY <2>1, <2>2, <2>3, FieldsOfId
<1>2. motor \div Byte = 0 /\ motor % Byte = motor
  <2>1. motor = 0 * Byte + motor BY Sizes DEF Bytes
  <2> QED BY <2>1, Sizes, Digits DEF Bytes
<1>3. answer.dlc = 8 /\ answer.is_extended /\ answer.data = data BY DEF AnswerOf
<1>4. /\ data[0] = index % Byte /\ data[1] = index \div Byte
      /\ data[4] = value % Byte /\ data[5] = v1 % Byte
      /\ data[6] = v2 % Byte /\ data[7] = v3 % Byte
  BY DEF MakeWriteU32, MakeWriteU8, PutLe16, NoData
<1>5. v3 % Byte = v3
  <2>1. v3 = 0 * Byte + v3 /\ v3 \in Bytes BY Sizes DEF Bytes
  <2> HIDE DEF v3
  <2> QED BY <2>1, Sizes, Digits DEF Bytes
<1> HIDE DEF answer, data
<1>6. index = (index % Byte) + Byte * (index \div Byte)
  BY Sizes, Remainder DEF Words
<1>7. value = (value % Byte) + Byte * ((v1 % Byte) + Byte * ((v2 % Byte) + Byte * v3))
  <2>1. v1 \in Nat /\ value = (value % Byte) + Byte * v1 BY Sizes, Remainder
  <2> HIDE DEF v1
  <2>2. v2 \in Nat /\ v1 = (v1 % Byte) + Byte * v2 BY <2>1, Sizes, Remainder
  <2> HIDE DEF v2
  <2>3. v2 = (v2 % Byte) + Byte * v3 BY <2>2, Sizes, Remainder
  <2> HIDE DEF v3
  <2> QED BY <2>1, <2>2, <2>3
<1> HIDE DEF v1, v2, v3
<1>8. IsParameterResponse(answer, host)
  BY <1>1, <1>2, <1>3 DEF IsParameterResponse, ForHost
<1>9. ParameterOf(answer) = [motor_id |-> motor, index |-> index, value |-> value]
  BY <1>1, <1>2, <1>3, <1>4, <1>5, <1>6, <1>7 DEF ParameterOf, MotorOf
<1> QED BY <1>8, <1>9 DEF answer
=============================================================================
