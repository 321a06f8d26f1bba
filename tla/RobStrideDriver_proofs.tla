----------------------- MODULE RobStrideDriver_proofs -----------------------
(* Proofs about RobStrideDriver, for any number of motors, any settings and *)
(* any number of attempts, answers on their way and faults.                 *)
EXTENDS RobStrideDriver, TLAPS

-----------------------------------------------------------------------------
(* Types.                                                                   *)

Positions(seq) == 1..Len(seq)

\* A frame that accesses a parameter names one.
FramesNameParameters(frames) ==
  \A i \in Positions(frames) :
    frames[i].kind \in {"write", "read"} => frames[i].index \in Indices

\* TypeOK is not inductive: a written frame says which parameter, and a
\* repetition of the stop frames is one of stop_repetitions.
TypeInv ==
  /\ TypeOK
  /\ FramesNameParameters(queue)
  /\ pc = "stop" => attempt <= settings.stop_repetitions

-----------------------------------------------------------------------------
(* Motors that run are configured.                                          *)

\* Those that have not lost their power since a start could tell.
Powered == Motors \ restarted

AllConfigured == \A m \in Powered : parameters[m] = Indices

NoEnables(frames) == \A i \in Positions(frames) : frames[i].kind # "enable"

\* What is heard and on its way of a parameter is true.
AnswersAreTrue ==
  /\ \A i \in Positions(answers) :
       answers[i].motor \in Powered /\ answers[i].requested
         => answers[i].index \in parameters[answers[i].motor]
  /\ \A m \in Powered :
       parameter[m].recent /\ parameter[m].requested
         => parameter[m].index \in parameters[m]
  /\ \A m \in Motors : parameter[m].recent => pc \in {"confirm", "write", "disable"}

\* How far start has come.
ConfiguredSoFar ==
  /\ pc \in {"clear", "write", "confirm"} =>
       \A m \in (1..(joint - 1)) \ restarted : parameters[m] = Indices
  /\ pc \in {"write", "confirm"} /\ index = "run_mode" /\ joint \notin restarted =>
       "can_timeout" \in parameters[joint]
  /\ pc \in {"enable", "confirm_enable", "active"} => AllConfigured

\* The gate is open from activation to stop.
GateInv == gate => pc \in {"active", "disable"}

\* Nothing is enabled that is not configured.
ConfiguredInv ==
  /\ RunningMotorsAreConfigured
  /\ AnswersAreTrue
  /\ ConfiguredSoFar
  /\ NoEnables(queue) \/ AllConfigured
  /\ gate => AllConfigured

-----------------------------------------------------------------------------
(* A confirmed stop.                                                        *)

AllReset == \A m \in Motors : mode[m] = "reset"

\* After a stop that nothing preceded on its way, and until the next start, no
\* motor is enabled, so that whoever has reported Reset mode is in it.
NothingEnables ==
  /\ \A i \in Positions(queue) : queue[i].kind \in {"motion", "stop"}
  /\ \A i \in Positions(answers) :
       answers[i].mode = "reset" => mode[answers[i].motor] = "reset"
  /\ \A m \in Motors :
       feedback[m].recent /\ feedback[m].mode = "reset" => mode[m] = "reset"

ConfirmedInv ==
  /\ stop_confirmed =>
       pc \in {"disable", "close", "closed", "inactive"} /\ ~gate
  /\ quiet /\ (Stopping \/ stop_confirmed) => NothingEnables
  /\ ConfirmedStopIsReal

-----------------------------------------------------------------------------
(* Frames.                                                                  *)

\* A concatenation has the frames of both parts.
LEMMA Concatenation ==
  ASSUME NEW a \in Seq(Frames), NEW b \in Seq(Frames)
  PROVE  /\ a \o b \in Seq(Frames)
         /\ Len(a \o b) = Len(a) + Len(b)
         /\ \A i \in Positions(a \o b) :
              \/ \E k \in Positions(a) : (a \o b)[i] = a[k]
              \/ \E k \in Positions(b) : (a \o b)[i] = b[k]
<1>1. a \o b \in Seq(Frames) /\ Len(a \o b) = Len(a) + Len(b)
  OBVIOUS
<1>2. ASSUME NEW i \in Positions(a \o b)
      PROVE  \/ \E k \in Positions(a) : (a \o b)[i] = a[k]
             \/ \E k \in Positions(b) : (a \o b)[i] = b[k]
  <2>1. CASE i <= Len(a)
    <3>1. i \in Positions(a) BY <2>1 DEF Positions
    <3>2. (a \o b)[i] = a[i] BY <2>1, <1>1 DEF Positions
    <3> QED BY <3>1, <3>2
  <2>2. CASE i > Len(a)
    <3>1. i - Len(a) \in Positions(b) BY <2>2, <1>1 DEF Positions
    <3>2. (a \o b)[i] = b[i - Len(a)] BY <2>2, <1>1 DEF Positions
    <3> QED BY <3>1, <3>2
  <2> QED BY <2>1, <2>2 DEF Positions
<1> QED BY <1>1, <1>2

\* What is left of a queue was there before.
LEMMA Rest ==
  ASSUME NEW S, NEW a \in Seq(S), a # <<>>
  PROVE  /\ Tail(a) \in Seq(S) /\ Head(a) \in S /\ 1 \in Positions(a)
         /\ Head(a) = a[1]
         /\ \A i \in Positions(Tail(a)) :
              i + 1 \in Positions(a) /\ Tail(a)[i] = a[i + 1]
BY DEF Positions

LEMMA MotorsExist ==
  MotorCount \in Nat \ {0} /\ 1 \in Motors /\ Motors \subseteq Nat
BY SettingsAssumption DEF Motors

LEMMA ForAllIsTyped ==
  ASSUME NEW a \in {"enable", "motion", "stop"}, NEW b \in {"enable", "motion", "stop"}
  PROVE  /\ ForAll(a, b) \in Seq(Frames)
         /\ \A i \in Positions(ForAll(a, b)) : ForAll(a, b)[i].kind \in {a, b}
<1>1. \A i \in 1..(2 * MotorCount) : (i + 1) \div 2 \in Motors
  BY MotorsExist DEF Motors
<1>2. \A i \in 1..(2 * MotorCount) :
        ForAll(a, b)[i] \in Frames /\ ForAll(a, b)[i].kind \in {a, b}
  BY <1>1 DEF ForAll, Frame, Frames
<1>3. ForAll(a, b) \in [1..(2 * MotorCount) -> Frames]
  BY <1>2 DEF ForAll
<1>4. ForAll(a, b) \in Seq(Frames) /\ Len(ForAll(a, b)) = 2 * MotorCount
  BY <1>3, MotorsExist
<1> QED BY <1>2, <1>4 DEF Positions

\* A transaction that is sent is queued, or dropped.
LEMMA SendIsTyped ==
  ASSUME queue \in Seq(Frames), FramesNameParameters(queue),
         NEW frames \in Seq(Frames), FramesNameParameters(frames), Send(frames)
  PROVE  queue' \in Seq(Frames) /\ FramesNameParameters(queue')
<1>1. queue' = queue \/ queue' = queue \o frames
  BY DEF Send
<1>2. /\ queue \o frames \in Seq(Frames)
      /\ \A i \in Positions(queue \o frames) :
           \/ \E k \in Positions(queue) : (queue \o frames)[i] = queue[k]
           \/ \E k \in Positions(frames) : (queue \o frames)[i] = frames[k]
  BY Concatenation
<1>3. FramesNameParameters(queue \o frames)
  BY <1>2 DEF FramesNameParameters
<1> QED BY <1>1, <1>2, <1>3

-----------------------------------------------------------------------------
(* TypeOK is an invariant.                                                  *)

Answers ==
  [motor : Motors, index : Indices \cup {"none"}, requested : BOOLEAN,
   mode : Modes \cup {"none"}, stale : BOOLEAN]

LEMMA SettingsAreTyped ==
  ASSUME settings \in Settings
  PROVE  /\ settings.startup_retries \in Nat \ {0}
         /\ settings.stop_repetitions \in Nat \ {0}
         /\ settings.clear_faults_on_start \in BOOLEAN
         /\ settings.set_zero_on_start \in BOOLEAN
<1>1. settings \in [startup_retries : Nat \ {0}, stop_repetitions : Nat \ {0},
                    clear_faults_on_start : BOOLEAN, set_zero_on_start : BOOLEAN]
  BY SettingsAssumption
<1> QED BY <1>1

\* Frames that the owner sends.
LEMMA SingleFrames ==
  ASSUME NEW m \in Motors, NEW i \in Indices
  PROVE  /\ \A kind \in {"clear", "zero"} :
              /\ <<Frame(kind, m)>> \in Seq(Frames)
              /\ FramesNameParameters(<<Frame(kind, m)>>)
              /\ NoEnables(<<Frame(kind, m)>>)
         /\ LET access == <<Access("write", m, i), Access("read", m, i)>> IN
              access \in Seq(Frames) /\ FramesNameParameters(access) /\ NoEnables(access)
         /\ <<>> \in Seq(Frames) /\ FramesNameParameters(<<>>) /\ NoEnables(<<>>)
<1>1. ASSUME NEW kind \in {"clear", "zero"}
      PROVE  /\ <<Frame(kind, m)>> \in Seq(Frames)
             /\ FramesNameParameters(<<Frame(kind, m)>>)
             /\ NoEnables(<<Frame(kind, m)>>)
  <2>1. Frame(kind, m) \in Frames BY DEF Frame, Frames
  <2>2. <<Frame(kind, m)>> \in Seq(Frames) BY <2>1
  <2>3. \A k \in Positions(<<Frame(kind, m)>>) : <<Frame(kind, m)>>[k].kind = kind
    BY DEF Positions, Frame
  <2> QED BY <2>2, <2>3 DEF FramesNameParameters, NoEnables
<1>2. LET access == <<Access("write", m, i), Access("read", m, i)>> IN
        access \in Seq(Frames) /\ FramesNameParameters(access) /\ NoEnables(access)
  <2> DEFINE access == <<Access("write", m, i), Access("read", m, i)>>
  <2>1. Access("write", m, i) \in Frames /\ Access("read", m, i) \in Frames
    BY DEF Access, Frames
  <2>2. access \in Seq(Frames) BY <2>1
  <2>3. \A k \in Positions(access) :
          access[k] = Access("write", m, i) \/ access[k] = Access("read", m, i)
    BY DEF Positions
  <2>4. \A k \in Positions(access) : access[k].index = i /\ access[k].kind # "enable"
    BY <2>3 DEF Access
  <2> QED BY <2>2, <2>4 DEF FramesNameParameters, NoEnables
<1>3. <<>> \in Seq(Frames) /\ FramesNameParameters(<<>>) /\ NoEnables(<<>>)
  BY DEF FramesNameParameters, NoEnables, Positions
<1> QED BY <1>1, <1>2, <1>3

\* An answer is queued, or lost.
LEMMA AnswerIsTyped ==
  ASSUME answers \in Seq(Answers), NEW a \in Answers, Answer(a)
  PROVE  answers' \in Seq(Answers)
BY DEF Answer

\* An answer that has become stale is an answer.
LEMMA StaleAnswerIsTyped ==
  ASSUME NEW a \in Answers, NEW b \in BOOLEAN
  PROVE  [a EXCEPT !.stale = b] \in Answers
BY DEF Answers

\* What a motor does with a frame keeps the types.
LEMMA HandleIsTyped ==
  ASSUME TypeInv, NEW f \in Frames, Handle(f),
         f.kind \in {"write", "read"} => f.index \in Indices
  PROVE  /\ answers' \in Seq(Answers)
         /\ mode' \in [Motors -> Modes] /\ parameters' \in [Motors -> SUBSET Indices]
         /\ stale' \in SUBSET Motors /\ ran' \in SUBSET Motors /\ told' \in SUBSET Motors
<1> DEFINE m == f.motor
<1>1. /\ m \in Motors /\ f.kind \in {"clear", "write", "read", "zero", "enable", "motion", "stop"}
      /\ answers \in Seq(Answers) /\ mode \in [Motors -> Modes]
      /\ parameters \in [Motors -> SUBSET Indices]
      /\ stale \in SUBSET Motors /\ ran \in SUBSET Motors /\ told \in SUBSET Motors
  BY DEF TypeInv, TypeOK, Frames, Answers
<1>2. told' \in SUBSET Motors
  BY <1>1 DEF Handle
<1>3. ASSUME mode' \in [Motors -> Modes] PROVE Report(m, mode'[m]) \in Answers
  BY <1>1, <1>3 DEF Report, Answers
<1>4. CASE f.kind = "write"
  BY <1>1, <1>2, <1>4 DEF Handle
<1>5. CASE f.kind = "read"
  <2>1. Readback(m, f.index) \in Answers BY <1>1, <1>5 DEF Readback, Answers
  <2>2. Answer(Readback(m, f.index)) /\ UNCHANGED <<mode, parameters, stale, ran>>
    BY <1>5 DEF Handle, motors
  <2> QED BY <1>1, <1>2, <2>1, <2>2, AnswerIsTyped
<1>6. CASE f.kind = "zero"
  <2>1. SetsZero(m) /\ UNCHANGED <<mode, parameters, ran>>
    BY <1>6 DEF Handle, motors
  <2>2. stale' \in SUBSET Motors BY <1>1, <2>1 DEF SetsZero
  <2>3. \A i \in 1..Len(answers) :
          [answers[i] EXCEPT !.stale = @ \/ (answers[i].motor = m /\
                                            answers[i].index = "none")] \in Answers
    <3> SUFFICES ASSUME NEW i \in 1..Len(answers)
                 PROVE  [answers[i] EXCEPT !.stale = @ \/ (answers[i].motor = m /\
                                            answers[i].index = "none")] \in Answers
      OBVIOUS
    <3> DEFINE b == answers[i].stale \/ (answers[i].motor = m /\ answers[i].index = "none")
    <3>1. b \in BOOLEAN /\ answers[i] \in Answers BY <1>1
    <3>2. [answers[i] EXCEPT !.stale = b] \in Answers BY <3>1, StaleAnswerIsTyped
    <3> QED BY <3>2
  <2>4. answers' \in Seq(Answers)
    <3>1. answers' \in [1..Len(answers) -> Answers] BY <2>1, <2>3 DEF SetsZero
    <3> QED BY <3>1, <1>1
  <2> QED BY <1>1, <1>2, <2>1, <2>2, <2>4
<1>7. CASE f.kind = "enable"
  <2>1. Enabled(m) /\ UNCHANGED <<parameters, stale>> BY <1>7 DEF Handle
  <2>2. mode' \in [Motors -> Modes] /\ ran' \in SUBSET Motors
    BY <1>1, <2>1 DEF Enabled, Modes
  <2> QED BY <1>1, <1>2, <1>3, <2>1, <2>2, AnswerIsTyped DEF Enabled, Feedback
<1>8. CASE f.kind = "motion"
  <2>1. Feedback(m) /\ UNCHANGED <<mode, parameters, stale, ran>>
    BY <1>8 DEF Handle, motors
  <2> QED BY <1>1, <1>2, <1>3, <2>1, AnswerIsTyped DEF Feedback
<1>9. CASE f.kind \in {"clear", "stop"}
  <2>1. /\ mode' = [mode EXCEPT ![m] = "reset"] /\ Feedback(m)
        /\ UNCHANGED <<parameters, stale, ran>>
    BY <1>9 DEF Handle
  <2>2. mode' \in [Motors -> Modes] BY <1>1, <2>1 DEF Modes
  <2> QED BY <1>1, <1>2, <1>3, <2>1, <2>2, AnswerIsTyped DEF Feedback
<1> QED BY <1>1, <1>4, <1>5, <1>6, <1>7, <1>8, <1>9

LEMMA TypeInit ==
  ASSUME Init PROVE TypeInv
<1>1. feedback \in [Motors -> [recent : BOOLEAN, mode : Modes \cup {"none"}]]
  BY DEF Init, NoReport
<1>2. parameter \in [Motors -> [recent : BOOLEAN, index : Indices \cup {"none"},
                                requested : BOOLEAN]]
  BY DEF Init, NoAnswer
<1>3. attempt \in Nat \ {0} /\ attempt <= settings.startup_retries
  BY SettingsAreTyped DEF Init
<1>4. FramesNameParameters(queue)
  BY DEF Init, FramesNameParameters, Positions
<1>5. mode \in [Motors -> Modes] /\ parameters \in [Motors -> SUBSET Indices]
  BY DEF Init, Modes
<1>6. calls \in 0..MaxAttempts /\ faults \in 0..MaxFaults /\ lost \in 0..settings.stop_repetitions
  BY SettingsAssumption, SettingsAreTyped DEF Init
<1>7. queue \in Seq(Frames) /\ answers \in Seq(Answers)
  BY DEF Init
<1>8. /\ settings \in Settings /\ pc = "closed" /\ after = "closed" /\ joint \in Motors
      /\ index \in Indices
      /\ {gate, failed, quiet, stop_confirmed} \subseteq BOOLEAN
      /\ {recovery, stale, ran, told, restarted} \subseteq SUBSET Motors
  BY MotorsExist DEF Init, Indices
<1> QED
  BY <1>1, <1>2, <1>3, <1>4, <1>5, <1>6, <1>7, <1>8 DEF TypeInv, TypeOK, Answers

\* An action that leaves the rest alone need only keep what it changes.
LEMMA OwnerStep ==
  ASSUME TypeInv, settings' = settings,
         UNCHANGED <<answers, stale, faults>>,
         \/ UNCHANGED motors
         \/ UNCHANGED <<mode, parameters>> /\ restarted' \in SUBSET Motors,
         pc' \in {"closed", "inactive", "clear", "write", "confirm", "enable",
                  "confirm_enable", "active", "disable", "stop", "confirm_stop", "close"},
         after' \in {"closed", "inactive", "close", "error"},
         joint' \in Motors, index' \in Indices,
         attempt' \in Nat \ {0},
         attempt' <= settings.startup_retries \/ attempt' <= settings.stop_repetitions,
         pc' = "stop" => attempt' <= settings.stop_repetitions,
         feedback' \in [Motors -> [recent : BOOLEAN, mode : Modes \cup {"none"}]],
         parameter' \in [Motors -> [recent : BOOLEAN, index : Indices \cup {"none"},
                                   requested : BOOLEAN]],
         queue' \in Seq(Frames), FramesNameParameters(queue'),
         gate' \in BOOLEAN, failed' \in BOOLEAN, quiet' \in BOOLEAN,
         stop_confirmed' \in BOOLEAN, recovery' \in SUBSET Motors,
         told' \in SUBSET Motors, ran' \in SUBSET Motors, calls' \in 0..MaxAttempts,
         lost' \in 0..settings.stop_repetitions
  PROVE  TypeInv'
BY DEF TypeInv, TypeOK, motors, FramesNameParameters

LEMMA TypeParts ==
  ASSUME TypeInv
  PROVE  /\ settings \in Settings
         /\ pc \in {"closed", "inactive", "clear", "write", "confirm", "enable",
                    "confirm_enable", "active", "disable", "stop", "confirm_stop", "close"}
         /\ after \in {"closed", "inactive", "close", "error"}
         /\ joint \in Motors /\ index \in Indices
         /\ attempt \in Nat \ {0}
         /\ attempt <= settings.startup_retries \/ attempt <= settings.stop_repetitions
         /\ pc = "stop" => attempt <= settings.stop_repetitions
         /\ feedback \in [Motors -> [recent : BOOLEAN, mode : Modes \cup {"none"}]]
         /\ parameter \in [Motors -> [recent : BOOLEAN, index : Indices \cup {"none"},
                                     requested : BOOLEAN]]
         /\ queue \in Seq(Frames) /\ FramesNameParameters(queue)
         /\ gate \in BOOLEAN /\ failed \in BOOLEAN /\ quiet \in BOOLEAN
         /\ stop_confirmed \in BOOLEAN /\ recovery \in SUBSET Motors
         /\ told \in SUBSET Motors /\ ran \in SUBSET Motors
         /\ calls \in 0..MaxAttempts
         /\ lost \in 0..settings.stop_repetitions
         /\ restarted \in SUBSET Motors
BY DEF TypeInv, TypeOK

\* Forgetting what was heard keeps its type.
LEMMA ForgettingIsTyped ==
  ASSUME TypeInv
  PROVE  /\ ForgetReports =>
              feedback' \in [Motors -> [recent : BOOLEAN, mode : Modes \cup {"none"}]]
         /\ ForgetAnswers =>
              parameter' \in [Motors -> [recent : BOOLEAN, index : Indices \cup {"none"},
                                        requested : BOOLEAN]]
<1>1. ASSUME ForgetReports
      PROVE  feedback' \in [Motors -> [recent : BOOLEAN, mode : Modes \cup {"none"}]]
  BY <1>1 DEF ForgetReports, NoReport
<1>2. ASSUME ForgetAnswers
      PROVE  parameter' \in [Motors -> [recent : BOOLEAN, index : Indices \cup {"none"},
                                        requested : BOOLEAN]]
  BY <1>2 DEF ForgetAnswers, NoAnswer
<1> QED BY <1>1, <1>2

\* Another call is within the bound.
LEMMA CallsAreBounded ==
  ASSUME TypeInv, AnotherCall
  PROVE  calls' \in 0..MaxAttempts
<1> DEFINE r == settings.startup_retries
<1>1. r \in Nat \ {0} /\ calls \in Nat /\ MaxAttempts \in Nat
  BY TypeParts, SettingsAreTyped, SettingsAssumption
<1>2. (calls + 1) * r <= MaxAttempts /\ calls' = calls + 1
  BY DEF AnotherCall
<1>3. (calls + 1) * (r - 1) >= 0
  BY <1>1
<1>4. (calls + 1) * r = (calls + 1) * (r - 1) + (calls + 1)
  BY <1>1
<1> QED BY <1>1, <1>2, <1>3, <1>4

\* The calls of start and what they do.
LEMMA TypeOwnerStart ==
  ASSUME TypeInv, settings' = settings,
         \/ Open \/ Start \/ ClearJoint \/ WriteParameter \/ WatchdogConfirmed
         \/ JointConfirmed \/ EnableAll \/ Activate \/ Retry \/ StartFails
  PROVE  TypeInv'
<1> USE TypeParts
<1>1. CASE Open
  BY <1>1, OwnerStep DEF Open, heard, transport, stopping
<1>2. CASE Start
  <2>1. calls' \in 0..MaxAttempts BY <1>2, CallsAreBounded DEF Start
  <2>2. quiet' \in BOOLEAN BY <1>2 DEF Start, NothingOnItsWay
  <2>3. /\ stop_confirmed' \in BOOLEAN /\ told' \in SUBSET Motors
        /\ ran' \in SUBSET Motors /\ lost' \in 0..settings.stop_repetitions
        /\ joint' \in Motors /\ pc' = "clear"
    <3>1. /\ stop_confirmed' = FALSE /\ told' = {} /\ lost' = 0
          /\ ran' = {m \in Motors : mode[m] = "run"} /\ joint' = 1 /\ pc' = "clear"
      BY <1>2 DEF Start
    <3>2. {m \in Motors : mode[m] = "run"} \in SUBSET Motors
      OBVIOUS
    <3>3. 0 \in 0..settings.stop_repetitions
      BY SettingsAreTyped
    <3> QED BY <3>1, <3>2, <3>3, MotorsExist
  <2>4. UNCHANGED <<after, index, attempt, heard, transport, answers, mode, parameters,
                    stale, faults>>
    BY <1>2 DEF Start
  <2>5. restarted' \in SUBSET Motors
    BY <1>2 DEF Start
  <2> QED BY <2>1, <2>2, <2>3, <2>4, <2>5, OwnerStep DEF heard, transport
<1>3. CASE ClearJoint
  <2>1. queue' \in Seq(Frames) /\ FramesNameParameters(queue')
    BY <1>3, SendIsTyped, SingleFrames DEF ClearJoint
  <2> QED BY <1>3, <2>1, OwnerStep, SettingsAreTyped
         DEF ClearJoint, heard, stopping, FirstIndex, Indices
<1>4. CASE WriteParameter
  <2>1. queue' \in Seq(Frames) /\ FramesNameParameters(queue')
    BY <1>4, SendIsTyped, SingleFrames DEF WriteParameter
  <2> QED BY <1>4, <2>1, OwnerStep, ForgettingIsTyped DEF WriteParameter, stopping
<1>5. CASE WatchdogConfirmed
  BY <1>5, OwnerStep, ForgettingIsTyped, SettingsAreTyped
  DEF WatchdogConfirmed, transport, stopping, Indices
<1>6. CASE JointConfirmed
  <2>1. queue' \in Seq(Frames) /\ FramesNameParameters(queue')
    BY <1>6, SendIsTyped, SingleFrames DEF JointConfirmed
  <2>2. joint' \in Motors /\ pc' \in {"clear", "enable"}
    BY <1>6, MotorsExist DEF JointConfirmed, Motors
  <2> QED BY <1>6, <2>1, <2>2, OwnerStep, ForgettingIsTyped, SettingsAreTyped
         DEF JointConfirmed, stopping
<1>7. CASE EnableAll
  <2>1. queue' \in Seq(Frames) /\ FramesNameParameters(queue')
    <3> DEFINE frames == ForAll("enable", "motion")
    <3>1. frames \in Seq(Frames) /\ FramesNameParameters(frames)
      BY ForAllIsTyped DEF FramesNameParameters
    <3> QED BY <1>7, <3>1, SendIsTyped DEF EnableAll
  <2> QED BY <1>7, <2>1, OwnerStep, ForgettingIsTyped DEF EnableAll, stopping
<1>8. CASE Activate
  <2>1. gate' \in BOOLEAN BY <1>8 DEF Activate
  <2>2. feedback' \in [Motors -> [recent : BOOLEAN, mode : Modes \cup {"none"}]]
    BY <1>8 DEF Activate, Modes
  <2> QED BY <1>8, <2>1, <2>2, OwnerStep DEF Activate, stopping
<1>9. CASE Retry
  <2>1. attempt' \in Nat \ {0} /\ attempt' <= settings.startup_retries
    BY <1>9, SettingsAreTyped DEF Retry
  <2>2. pc' \in {"write", "enable"} BY <1>9 DEF Retry
  <2> QED BY <1>9, <2>1, <2>2, OwnerStep DEF Retry, heard, transport, stopping
<1>10. CASE StartFails
  BY <1>10, OwnerStep DEF StartFails, heard, transport, stopping
<1> QED BY <1>1, <1>2, <1>3, <1>4, <1>5, <1>6, <1>7, <1>8, <1>9, <1>10

\* The calls of stop and what they do.
LEMMA TypeOwnerStop ==
  ASSUME TypeInv, settings' = settings,
         \/ Leave \/ ShutDown \/ CleanUp \/ DisableActiveCommands \/ SendStops
         \/ StopEnds \/ Close
  PROVE  TypeInv'
<1> USE TypeParts
<1>1. CASE Leave
  BY <1>1, OwnerStep DEF Leave, heard, transport, stopping
<1>2. CASE ShutDown
  <2>1. calls' \in 0..MaxAttempts BY <1>2, CallsAreBounded DEF ShutDown
  <2> QED BY <1>2, <2>1, OwnerStep DEF ShutDown, heard, transport, stopping
<1>3. CASE CleanUp
  BY <1>3, OwnerStep DEF CleanUp, heard, transport, stopping
<1>4. CASE DisableActiveCommands
  <2>1. quiet' \in BOOLEAN BY <1>4 DEF DisableActiveCommands, NothingOnItsWay
  <2>2. lost' \in 0..settings.stop_repetitions
    BY <1>4, SettingsAreTyped DEF DisableActiveCommands
  <2>3. recovery' \in SUBSET Motors /\ gate' \in BOOLEAN
    BY <1>4 DEF DisableActiveCommands, GateWhenStopped
  <2>4. /\ stop_confirmed' \in BOOLEAN /\ told' \in SUBSET Motors /\ ran' \in SUBSET Motors
        /\ joint' \in Motors /\ index' \in Indices /\ pc' = "stop" /\ attempt' = 1
    BY <1>4, MotorsExist DEF DisableActiveCommands, Indices
  <2>5. /\ UNCHANGED <<after, queue, failed, answers, motors, stale, calls, faults>>
        /\ ForgetReports /\ ForgetAnswers
    BY <1>4 DEF DisableActiveCommands
  <2> QED BY <2>1, <2>2, <2>3, <2>4, <2>5, OwnerStep, ForgettingIsTyped, SettingsAreTyped
<1>5. CASE SendStops
  <2>1. queue' \in Seq(Frames) /\ FramesNameParameters(queue')
    <3> DEFINE frames == ForAll("motion", "stop")
    <3>1. frames \in Seq(Frames) /\ FramesNameParameters(frames)
      BY ForAllIsTyped DEF FramesNameParameters
    <3> QED BY <1>5, <3>1, SendIsTyped DEF SendStops
  <2>2. attempt' \in Nat \ {0} /\ attempt' <= settings.stop_repetitions
    BY <1>5, SettingsAreTyped DEF SendStops, LastRepetition
  <2>3. pc' \in {"stop", "confirm_stop"} BY <1>5 DEF SendStops
  <2> QED BY <1>5, <2>1, <2>2, <2>3, OwnerStep DEF SendStops, heard, stopping
<1>6. CASE StopEnds
  <2>1. stop_confirmed' \in BOOLEAN BY <1>6 DEF StopEnds, Reported
  <2>2. /\ pc' \in {"disable", "inactive", "close", "closed"}
        /\ after' \in {"closed", "close"}
    BY <1>6 DEF StopEnds
  <2> QED BY <1>6, <2>1, <2>2, OwnerStep, ForgettingIsTyped DEF StopEnds, transport
<1>7. CASE Close
  BY <1>7, OwnerStep DEF Close, heard, stopping
<1> QED BY <1>1, <1>2, <1>3, <1>4, <1>5, <1>6, <1>7

\* The same for what the owner does not do.
LEMMA OtherStep ==
  ASSUME TypeInv, settings' = settings, UNCHANGED <<owner, calls, quiet, stop_confirmed>>,
         feedback' \in [Motors -> [recent : BOOLEAN, mode : Modes \cup {"none"}]],
         parameter' \in [Motors -> [recent : BOOLEAN, index : Indices \cup {"none"},
                                   requested : BOOLEAN]],
         queue' \in Seq(Frames), FramesNameParameters(queue'),
         gate' \in BOOLEAN, failed' \in BOOLEAN,
         recovery' \in SUBSET Motors, stale' \in SUBSET Motors,
         ran' \in SUBSET Motors, told' \in SUBSET Motors, restarted' \in SUBSET Motors,
         answers' \in Seq(Answers),
         mode' \in [Motors -> Modes], parameters' \in [Motors -> SUBSET Indices],
         faults' \in 0..MaxFaults, lost' \in 0..settings.stop_repetitions
  PROVE  TypeInv'
<1>1. /\ {gate', failed', quiet', stop_confirmed'} \subseteq BOOLEAN
      /\ {recovery', stale', ran', told', restarted'} \subseteq SUBSET Motors
  BY TypeParts
<1>2. /\ UNCHANGED <<settings, pc, after, joint, index, attempt, calls>>
      /\ answers' \in Seq([motor : Motors, index : Indices \cup {"none"},
                           requested : BOOLEAN, mode : Modes \cup {"none"},
                           stale : BOOLEAN])
  BY DEF owner, Answers
<1>3. TypeOK'
  BY <1>1, <1>2, TypeParts DEF TypeOK
<1> QED BY <1>2, <1>3, TypeParts DEF TypeInv

LEMMA OtherTypes ==
  ASSUME TypeInv
  PROVE  /\ stale \in SUBSET Motors /\ answers \in Seq(Answers)
         /\ mode \in [Motors -> Modes] /\ parameters \in [Motors -> SUBSET Indices]
         /\ faults \in 0..MaxFaults
BY DEF TypeInv, TypeOK, Answers

LEMMA RestOfQueueIsTyped ==
  ASSUME TypeInv, queue # <<>>, queue' = Tail(queue)
  PROVE  /\ queue' \in Seq(Frames) /\ FramesNameParameters(queue')
         /\ Head(queue) \in Frames
         /\ Head(queue).kind \in {"write", "read"} => Head(queue).index \in Indices
<1>1. queue \in Seq(Frames) /\ FramesNameParameters(queue) BY TypeParts
<1>2. Head(queue) = queue[1] /\ 1 \in Positions(queue) BY <1>1, Rest
<1>3. \A i \in Positions(Tail(queue)) :
        i + 1 \in Positions(queue) /\ Tail(queue)[i] = queue[i + 1]
  BY <1>1, Rest
<1>4. Tail(queue) \in Seq(Frames) /\ Head(queue) \in Frames BY <1>1, Rest
<1> QED BY <1>1, <1>2, <1>3, <1>4 DEF FramesNameParameters

\* The worker, the executor and the motors.
LEMMA TypeOther ==
  ASSUME TypeInv, settings' = settings,
         \/ Publish \/ PublishLost \/ WorkerFails \/ Receive
         \/ \E m \in Motors :
              \/ Supervise(m) \/ PublishRecovery(m) \/ PublishMotion(m)
              \/ WatchdogExpires(m) \/ PowerCycle(m)
  PROVE  TypeInv'
<1> USE TypeParts, OtherTypes
<1>0. \A m \in Motors : mode' \in [Motors -> Modes] => Report(m, mode'[m]) \in Answers
  BY DEF Report, Answers
<1>1. CASE Publish
  <2>1. Handle(Head(queue)) /\ queue # <<>> /\ queue' = Tail(queue)
    BY <1>1 DEF Publish
  <2>2. UNCHANGED <<owner, heard, gate, recovery, failed, restarted, calls, faults,
                    lost, quiet, stop_confirmed>>
    BY <1>1 DEF Publish
  <2>3. /\ answers' \in Seq(Answers)
        /\ mode' \in [Motors -> Modes] /\ parameters' \in [Motors -> SUBSET Indices]
        /\ stale' \in SUBSET Motors /\ ran' \in SUBSET Motors /\ told' \in SUBSET Motors
    BY <2>1, RestOfQueueIsTyped, HandleIsTyped
  <2> QED BY <2>1, <2>2, <2>3, RestOfQueueIsTyped, OtherStep DEF heard
<1>2. CASE PublishLost
  <2>1. faults' \in 0..MaxFaults BY <1>2, SettingsAssumption DEF PublishLost, Fault
  <2>2. lost' \in 0..settings.stop_repetitions
    BY <1>2, SettingsAreTyped DEF PublishLost
  <2>3. queue # <<>> /\ queue' = Tail(queue) BY <1>2 DEF PublishLost
  <2>4. UNCHANGED <<owner, heard, gate, recovery, failed, answers, motors, stale,
                    ran, calls, told, quiet, stop_confirmed>>
    BY <1>2 DEF PublishLost
  <2> QED BY <2>1, <2>2, <2>3, <2>4, RestOfQueueIsTyped, OtherStep DEF heard, motors
<1>3. CASE WorkerFails
  <2>1. faults' \in 0..MaxFaults BY <1>3, SettingsAssumption DEF WorkerFails, Fault
  <2>2. lost' \in 0..settings.stop_repetitions
    BY <1>3, SettingsAreTyped DEF WorkerFails
  <2>3. queue' \in Seq(Frames) /\ FramesNameParameters(queue')
    BY <1>3 DEF WorkerFails, FramesNameParameters, Positions
  <2>4. UNCHANGED <<owner, heard, recovery, answers, motors, stale, ran, calls,
                    told, quiet, stop_confirmed>>
    BY <1>3 DEF WorkerFails
  <2>5. gate' \in BOOLEAN /\ failed' \in BOOLEAN BY <1>3 DEF WorkerFails
  <2> QED BY <2>1, <2>2, <2>3, <2>4, <2>5, OtherStep DEF heard, motors
<1>4. CASE Receive
  <2> DEFINE a == Head(answers)
  <2>1. answers' \in Seq(Answers) /\ a \in Answers
    BY <1>4 DEF Receive
  <2>2. /\ a.motor \in Motors /\ a.index \in Indices \cup {"none"}
        /\ a.requested \in BOOLEAN /\ a.mode \in Modes \cup {"none"}
    BY <2>1 DEF Answers
  <2>3. UNCHANGED <<owner, transport, motors, ran, calls, faults, stopping>>
    BY <1>4 DEF Receive
  <2>4. /\ [recent |-> TRUE, index |-> a.index, requested |-> a.requested]
             \in [recent : BOOLEAN, index : Indices \cup {"none"}, requested : BOOLEAN]
        /\ NoAnswer \in [recent : BOOLEAN, index : Indices \cup {"none"},
                         requested : BOOLEAN]
    BY <2>2 DEF NoAnswer
  <2>5. parameter' \in [Motors -> [recent : BOOLEAN, index : Indices \cup {"none"},
                                   requested : BOOLEAN]]
    BY <1>4, <2>2, <2>4 DEF Receive, heard
  <2>6. ASSUME NEW b \in BOOLEAN
        PROVE  [recent |-> b, mode |-> a.mode] \in [recent : BOOLEAN, mode : Modes \cup {"none"}]
    BY <2>2
  <2>7. feedback' \in [Motors -> [recent : BOOLEAN, mode : Modes \cup {"none"}]]
    <3> DEFINE b == ModeAwaited
    <3>1. \/ feedback' = feedback
          \/ feedback' = [feedback EXCEPT ![a.motor] = [recent |-> b, mode |-> a.mode]]
          \/ feedback' = [feedback EXCEPT ![a.motor] = NoReport]
      BY <1>4 DEF Receive, heard
    <3>2. [recent |-> b, mode |-> a.mode] \in [recent : BOOLEAN, mode : Modes \cup {"none"}]
      BY <2>6 DEF ModeAwaited
    <3>3. NoReport \in [recent : BOOLEAN, mode : Modes \cup {"none"}]
      BY DEF NoReport
    <3> QED BY <2>2, <3>1, <3>2, <3>3
  <2>8. stale' \in SUBSET Motors
    BY <1>4, <2>2 DEF Receive
  <2> QED BY <2>1, <2>3, <2>5, <2>7, <2>8, OtherStep DEF transport, motors, stopping
<1>5. ASSUME NEW m \in Motors, Supervise(m) PROVE TypeInv'
  <2>1. recovery' \in SUBSET Motors BY <1>5 DEF Supervise
  <2>2. UNCHANGED <<owner, heard, queue, gate, failed, answers, motors, stale,
                    ran, calls, faults, stopping>>
    BY <1>5 DEF Supervise
  <2> QED BY <2>1, <2>2, OtherStep DEF heard, motors, stopping
<1>6. ASSUME NEW m \in Motors, PublishRecovery(m) PROVE TypeInv'
  <2>1. mode' \in [Motors -> Modes] /\ ran' \in SUBSET Motors
    BY <1>6 DEF PublishRecovery, Enabled, Modes
  <2>2. answers' \in Seq(Answers)
    BY <1>6, <2>1, <1>0, AnswerIsTyped DEF PublishRecovery, Enabled, Feedback
  <2>3. UNCHANGED <<owner, heard, queue, gate, failed, parameters, restarted, stale,
                    calls, faults, stopping>> /\ recovery' \in SUBSET Motors
    BY <1>6 DEF PublishRecovery
  <2> QED BY <2>1, <2>2, <2>3, OtherStep DEF heard, stopping
<1>7. ASSUME NEW m \in Motors, PublishMotion(m) PROVE TypeInv'
  <2>1. UNCHANGED <<owner, heard, transport, motors, stale, ran, calls, faults, stopping>>
    BY <1>7 DEF PublishMotion
  <2>2. answers' \in Seq(Answers)
    BY <1>7, <2>1, <1>0, AnswerIsTyped DEF PublishMotion, Feedback, motors
  <2> QED BY <2>1, <2>2, OtherStep DEF heard, transport, motors, stopping
<1>8. ASSUME NEW m \in Motors, WatchdogExpires(m) PROVE TypeInv'
  <2>1. mode' \in [Motors -> Modes]
    BY <1>8 DEF WatchdogExpires, Modes
  <2>2. answers' \in Seq(Answers)
    BY <1>8, <2>1, <1>0, AnswerIsTyped DEF WatchdogExpires, Feedback
  <2>3. UNCHANGED <<owner, heard, transport, parameters, restarted, stale, ran, calls,
                    faults, stopping>>
    BY <1>8 DEF WatchdogExpires
  <2> QED BY <2>1, <2>2, <2>3, OtherStep DEF heard, transport, stopping
<1>9. ASSUME NEW m \in Motors, PowerCycle(m) PROVE TypeInv'
  <2>1. mode' \in [Motors -> Modes] /\ parameters' \in [Motors -> SUBSET Indices]
    BY <1>9 DEF PowerCycle, Modes
  <2>2. faults' \in 0..MaxFaults BY <1>9, SettingsAssumption DEF PowerCycle, Fault
  <2>3. UNCHANGED <<owner, heard, transport, answers, stale, ran, calls, stopping>>
    BY <1>9 DEF PowerCycle
  <2>4. restarted' \in SUBSET Motors BY <1>9 DEF PowerCycle
  <2> QED BY <2>1, <2>2, <2>3, <2>4, OtherStep DEF heard, transport, stopping
<1> QED BY <1>1, <1>2, <1>3, <1>4, <1>5, <1>6, <1>7, <1>8, <1>9

LEMMA TypeStutters == ASSUME TypeInv, UNCHANGED vars PROVE TypeInv'
BY DEF TypeInv, TypeOK, vars, owner, heard, transport, motors, stopping,
       FramesNameParameters

LEMMA TypeStep == ASSUME TypeInv, [Next]_vars PROVE TypeInv'
<1>1. CASE UNCHANGED vars BY <1>1, TypeStutters
<1>2. CASE Next
  BY <1>2, TypeOwnerStart, TypeOwnerStop, TypeOther DEF Next, Lifecycle
<1> QED BY <1>1, <1>2

\* Every variable keeps its type: no counter passes its bound, and no retry or
\* repetition is made beyond startup_retries and stop_repetitions.
THEOREM TypeCorrect == Spec => []TypeOK
<1>1. Init => TypeInv BY TypeInit
<1>2. TypeInv /\ [Next]_vars => TypeInv' BY TypeStep
<1>3. TypeInv => TypeOK BY DEF TypeInv
<1> QED BY <1>1, <1>2, <1>3, PTL DEF Spec

-----------------------------------------------------------------------------
(* The gate is open from activation to stop.                                *)

LEMMA GateStep ==
  ASSUME TypeInv, GateInv, Next PROVE GateInv'
<1> USE TypeParts
<1>1. CASE Open \/ Start \/ ClearJoint \/ WriteParameter \/ WatchdogConfirmed
           \/ JointConfirmed \/ EnableAll \/ Retry \/ StartFails
  <2>1. pc \notin {"active", "disable"} /\ gate' = gate
    <3>1. CASE Open \/ Start \/ ClearJoint \/ WriteParameter
      BY <3>1 DEF Open, Start, ClearJoint, WriteParameter, transport
    <3>2. CASE WatchdogConfirmed \/ JointConfirmed \/ EnableAll
      BY <3>2 DEF WatchdogConfirmed, JointConfirmed, EnableAll, transport
    <3>3. CASE Retry \/ StartFails
      BY <3>3 DEF Retry, StartFails, Unconfirmed, transport
    <3> QED BY <1>1, <3>1, <3>2, <3>3
  <2> QED BY <2>1 DEF GateInv
<1>2. CASE Activate
  BY <1>2 DEF GateInv, Activate
<1>3. CASE Leave \/ ShutDown \/ CleanUp \/ SendStops \/ StopEnds \/ Close
  BY <1>3 DEF GateInv, Leave, ShutDown, CleanUp, SendStops, StopEnds, Close, transport
<1>4. CASE DisableActiveCommands
  BY <1>4 DEF GateInv, DisableActiveCommands, GateWhenStopped
<1>5. CASE Publish \/ PublishLost \/ Receive
  BY <1>5 DEF GateInv, Publish, PublishLost, Receive, owner, transport
<1>6. CASE WorkerFails
  BY <1>6 DEF GateInv, WorkerFails
<1>7. ASSUME NEW m \in Motors,
             \/ Supervise(m) \/ PublishRecovery(m) \/ PublishMotion(m)
             \/ WatchdogExpires(m) \/ PowerCycle(m)
      PROVE  GateInv'
  BY <1>7 DEF GateInv, Supervise, PublishRecovery, PublishMotion, WatchdogExpires,
     PowerCycle, owner, transport
<1> QED
  BY <1>1, <1>2, <1>3, <1>4, <1>5, <1>6, <1>7 DEF Next, Lifecycle

-----------------------------------------------------------------------------
(* Running motors are configured.                                           *)

\* Sending frames none of which enables a motor.
LEMMA SendEnablesNothing ==
  ASSUME queue \in Seq(Frames), NEW frames \in Seq(Frames), NoEnables(frames),
         Send(frames)
  PROVE  NoEnables(queue) => NoEnables(queue')
<1>1. queue' = queue \/ queue' = queue \o frames
  BY DEF Send
<1>2. \A i \in Positions(queue \o frames) :
           \/ \E k \in Positions(queue) : (queue \o frames)[i] = queue[k]
           \/ \E k \in Positions(frames) : (queue \o frames)[i] = frames[k]
  BY Concatenation
<1>3. NoEnables(queue) => NoEnables(queue \o frames)
  BY <1>2 DEF NoEnables
<1> QED BY <1>1, <1>3

\* What the owner does leaves motors and answers alone.
LEMMA OwnerConfigures ==
  ASSUME TypeInv, ConfiguredInv, UNCHANGED <<answers, motors>>,
         \/ parameter' = parameter
              /\ (pc \in {"confirm", "write", "disable"} =>
                    pc' \in {"confirm", "write", "disable"})
         \/ ForgetAnswers,
         ConfiguredSoFar',
         NoEnables(queue) => NoEnables(queue') \/ AllConfigured,
         gate' => gate \/ AllConfigured
  PROVE  ConfiguredInv'
<1>1. RunningMotorsAreConfigured'
  BY DEF ConfiguredInv, RunningMotorsAreConfigured, motors
<1> USE DEF Powered
<1>2. AnswersAreTrue'
  <2>1. CASE ForgetAnswers
    BY <2>1 DEF ConfiguredInv, AnswersAreTrue, ForgetAnswers, NoAnswer, motors
  <2>2. CASE parameter' = parameter
              /\ (pc \in {"confirm", "write", "disable"} =>
                    pc' \in {"confirm", "write", "disable"})
    BY <2>2 DEF ConfiguredInv, AnswersAreTrue, motors
  <2> QED BY <2>1, <2>2
<1>3. /\ (NoEnables(queue) \/ AllConfigured) => NoEnables(queue') \/ AllConfigured'
      /\ gate' => AllConfigured'
  BY DEF ConfiguredInv, AllConfigured, motors
<1> QED BY <1>1, <1>2, <1>3 DEF ConfiguredInv

LEMMA ConfiguredOwner ==
  ASSUME TypeInv, GateInv, ConfiguredInv, settings' = settings, Lifecycle
  PROVE  ConfiguredInv'
<1> USE TypeParts, OwnerConfigures
<1>0. ConfiguredSoFar BY DEF ConfiguredInv
<1>1. CASE Open
  <2>1. ConfiguredSoFar' BY <1>1 DEF Open, ConfiguredSoFar
  <2> QED BY <1>1, <2>1 DEF Open, heard, transport
<1>2. CASE Start
  <2>1. /\ pc = "inactive" /\ pc' = "clear" /\ joint' = 1
        /\ UNCHANGED <<parameter, queue, gate, answers, mode, parameters>>
        /\ \/ UNCHANGED restarted
           \/ NothingOnItsWay /\ restarted' = {m \in restarted : mode[m] = "run"}
    BY <1>2 DEF Start, heard, transport
  <2>2. ConfiguredSoFar'
    BY <2>1, MotorsExist DEF ConfiguredSoFar
  <2>3. ~gate' /\ \A m \in Motors : ~parameter'[m].recent
    BY <2>1 DEF GateInv, ConfiguredInv, AnswersAreTrue
  <2>4. CASE UNCHANGED restarted
    BY <2>1, <2>2, <2>3, <2>4
    DEF ConfiguredInv, RunningMotorsAreConfigured, AnswersAreTrue, AllConfigured, Powered
  <2>5. CASE NothingOnItsWay /\ restarted' = {m \in restarted : mode[m] = "run"}
    <3>1. RunningMotorsAreConfigured'
      BY <2>1, <2>5 DEF ConfiguredInv, RunningMotorsAreConfigured
    <3>2. NoEnables(queue') /\ AnswersAreTrue'
      BY <2>1, <2>3, <2>5 DEF NothingOnItsWay, NoEnables, AnswersAreTrue, Positions, Powered
    <3> QED BY <2>2, <2>3, <3>1, <3>2 DEF ConfiguredInv
  <2> QED BY <2>1, <2>4, <2>5
<1>3. CASE ClearJoint
  <2>1. ConfiguredSoFar'
    BY <1>0, <1>3 DEF ClearJoint, ConfiguredSoFar, FirstIndex, motors
  <2>2. NoEnables(queue) => NoEnables(queue')
    BY <1>3, SingleFrames, SendEnablesNothing DEF ClearJoint
  <2> QED BY <1>3, <2>1, <2>2 DEF ClearJoint, heard
<1>4. CASE WriteParameter
  <2>1. ConfiguredSoFar'
    BY <1>0, <1>4 DEF WriteParameter, ConfiguredSoFar, motors
  <2>2. NoEnables(queue) => NoEnables(queue')
    BY <1>4, SingleFrames, SendEnablesNothing DEF WriteParameter
  <2> QED BY <1>4, <2>1, <2>2 DEF WriteParameter
<1>5. CASE WatchdogConfirmed
  <2>1. joint \notin restarted => "can_timeout" \in parameters[joint]
    BY <1>5 DEF WatchdogConfirmed, Confirmed, ConfiguredInv, AnswersAreTrue, Powered
  <2>2. ConfiguredSoFar'
    BY <1>0, <1>5, <2>1 DEF WatchdogConfirmed, ConfiguredSoFar, motors
  <2> QED BY <1>5, <2>2 DEF WatchdogConfirmed, transport
<1>6. CASE JointConfirmed
  <2>1. joint \notin restarted => "run_mode" \in parameters[joint]
    BY <1>6 DEF JointConfirmed, Confirmed, ConfiguredInv, AnswersAreTrue, Powered
  <2>2. joint \notin restarted => "can_timeout" \in parameters[joint]
    BY <1>0, <1>6 DEF JointConfirmed, ConfiguredSoFar
  <2>3. joint \notin restarted => parameters[joint] = Indices
    BY <2>1, <2>2, OtherTypes DEF Indices
  <2>4. \A m \in (1..joint) \ restarted : parameters[m] = Indices
    BY <1>0, <1>6, <2>3 DEF JointConfirmed, ConfiguredSoFar, Motors
  <2>5. ConfiguredSoFar'
    <3>1. CASE joint < MotorCount
      BY <1>6, <2>4, <3>1, MotorsExist DEF JointConfirmed, ConfiguredSoFar, motors, Motors
    <3>2. CASE ~(joint < MotorCount)
      <4>1. joint = MotorCount BY <3>2, MotorsExist DEF Motors
      <4>2. AllConfigured' BY <1>6, <2>4, <4>1 DEF JointConfirmed, AllConfigured, Powered, Motors, motors
      <4> QED BY <1>6, <3>2, <4>2 DEF JointConfirmed, ConfiguredSoFar
    <3> QED BY <3>1, <3>2
  <2>6. NoEnables(queue) => NoEnables(queue')
    BY <1>6, SingleFrames, SendEnablesNothing DEF JointConfirmed
  <2> QED BY <1>6, <2>5, <2>6 DEF JointConfirmed
<1>7. CASE EnableAll
  <2>1. AllConfigured BY <1>0, <1>7 DEF EnableAll, ConfiguredSoFar
  <2>2. ConfiguredSoFar'
    BY <1>7, <2>1 DEF EnableAll, ConfiguredSoFar, AllConfigured, Powered, motors
  <2>3. \A m \in Motors : ~parameter[m].recent
    BY <1>7 DEF EnableAll, ConfiguredInv, AnswersAreTrue
  <2> QED BY <1>7, <2>1, <2>2, <2>3 DEF EnableAll
<1>8. CASE Activate
  <2>1. AllConfigured BY <1>0, <1>8 DEF Activate, ConfiguredSoFar
  <2>2. ConfiguredSoFar'
    BY <1>8, <2>1 DEF Activate, ConfiguredSoFar, AllConfigured, Powered, motors
  <2> QED BY <1>8, <2>1, <2>2 DEF Activate
<1>9. CASE Retry
  <2>1. ConfiguredSoFar'
    BY <1>0, <1>9 DEF Retry, Unconfirmed, ConfiguredSoFar, AllConfigured, Powered, motors
  <2>2. /\ UNCHANGED <<parameter, queue, gate, answers, motors>>
        /\ pc \in {"confirm", "confirm_enable"}
        /\ pc = "confirm" => pc' = "write"
    BY <1>9 DEF Retry, Unconfirmed, heard, transport
  <2> QED BY <2>1, <2>2
<1>10. CASE StartFails
  <2>1. ConfiguredSoFar' BY <1>10 DEF StartFails, ConfiguredSoFar
  <2> QED BY <1>10, <2>1 DEF StartFails, heard, transport
<1>11. CASE Leave \/ ShutDown \/ CleanUp \/ SendStops \/ StopEnds \/ Close
  <2>1. ConfiguredSoFar'
    BY <1>11 DEF Leave, ShutDown, CleanUp, SendStops, StopEnds, Close, ConfiguredSoFar
  <2>2. NoEnables(queue) => NoEnables(queue')
    <3>1. CASE SendStops
      <4> DEFINE frames == ForAll("motion", "stop")
      <4>1. frames \in Seq(Frames) /\ NoEnables(frames)
        BY ForAllIsTyped DEF NoEnables
      <4> QED BY <3>1, <4>1, SendEnablesNothing DEF SendStops
    <3>2. CASE ~SendStops
      BY <1>11, <3>2 DEF Leave, ShutDown, CleanUp, StopEnds, Close, transport
    <3> QED BY <3>1, <3>2
  <2>3. UNCHANGED <<parameter, gate, answers, motors>>
    BY <1>11 DEF Leave, ShutDown, CleanUp, SendStops, StopEnds, Close, heard, transport
  <2>4. pc \in {"confirm", "write", "disable"} => pc' \in {"confirm", "write", "disable"}
    BY <1>11 DEF Leave, ShutDown, CleanUp, SendStops, StopEnds, Close
  <2> QED BY <2>1, <2>2, <2>3, <2>4
<1>12. CASE DisableActiveCommands
  <2>1. ConfiguredSoFar'
    BY <1>12 DEF DisableActiveCommands, ConfiguredSoFar
  <2> QED BY <1>12, <2>1 DEF DisableActiveCommands, GateWhenStopped
<1> QED BY <1>1, <1>2, <1>3, <1>4, <1>5, <1>6, <1>7, <1>8, <1>9, <1>10, <1>11, <1>12
        DEF Lifecycle

\* Answers about parameters that a motor holds.
TrueOf(seq, params) ==
  \A i \in Positions(seq) :
    seq[i].motor \in Powered /\ seq[i].requested => seq[i].index \in params[seq[i].motor]

LEMMA AnswerIsTrue ==
  ASSUME NEW params, NEW a, answers \in Seq(Answers), Answer(a), TrueOf(answers, params),
         a.requested => a.index \in params[a.motor]
  PROVE  TrueOf(answers', params)
BY DEF Answer, TrueOf, Positions

\* Parameters that are only added to leave everything configured.
LEMMA ConfiguredGrows ==
  ASSUME TypeInv, TypeInv', ConfiguredInv, UNCHANGED <<owner, restarted>>,
         \A m \in Motors : parameters[m] \subseteq parameters'[m],
         \A m \in Motors : mode'[m] = "run" => mode[m] = "run" \/ AllConfigured,
         NoEnables(queue) => NoEnables(queue'), gate' => gate,
         TrueOf(answers', parameters'),
         \A m \in Powered : parameter'[m].recent /\ parameter'[m].requested
                             => parameter'[m].index \in parameters'[m],
         \A m \in Motors : parameter'[m].recent => pc \in {"confirm", "write", "disable"}
  PROVE  ConfiguredInv'
<1>1. /\ parameters \in [Motors -> SUBSET Indices] /\ parameters' \in [Motors -> SUBSET Indices]
      /\ UNCHANGED <<pc, joint, index>> /\ joint \in Motors
  BY TypeParts, OtherTypes DEF owner, TypeInv, TypeOK
<1>2. \A m \in Motors : parameters[m] = Indices => parameters'[m] = Indices
  BY <1>1
<1>3. AllConfigured => AllConfigured'
  BY <1>2 DEF AllConfigured, Powered
<1>4. RunningMotorsAreConfigured'
  BY <1>2, <1>3 DEF RunningMotorsAreConfigured, AllConfigured, Powered, ConfiguredInv
<1>5. AnswersAreTrue'
  BY <1>1 DEF AnswersAreTrue, TrueOf, Powered
<1>6. ConfiguredSoFar'
  <2>1. ConfiguredSoFar BY DEF ConfiguredInv
  <2>2. \A m \in 1..(joint - 1) : m \in Motors
    BY <1>1, MotorsExist DEF Motors
  <2>3. pc \in {"clear", "write", "confirm"} =>
          \A m \in (1..(joint - 1)) \ restarted : parameters'[m] = Indices
    BY <1>2, <2>1, <2>2 DEF ConfiguredSoFar
  <2>4. pc \in {"write", "confirm"} /\ index = "run_mode" /\ joint \notin restarted =>
          "can_timeout" \in parameters'[joint]
    BY <1>1, <2>1 DEF ConfiguredSoFar
  <2>5. pc \in {"enable", "confirm_enable", "active"} => AllConfigured'
    BY <1>3, <2>1 DEF ConfiguredSoFar
  <2> QED BY <1>1, <2>3, <2>4, <2>5 DEF ConfiguredSoFar
<1> QED BY <1>3, <1>4, <1>5, <1>6 DEF ConfiguredInv

\* What a motor does with a frame.
LEMMA HandleConfigures ==
  ASSUME TypeInv, TypeInv', ConfiguredInv, NEW f \in Frames, Handle(f),
         f.kind = "enable" => AllConfigured
  PROVE  /\ \A m \in Motors : parameters[m] \subseteq parameters'[m]
         /\ \A m \in Motors : mode'[m] = "run" => mode[m] = "run" \/ AllConfigured
         /\ TrueOf(answers', parameters')
<1> DEFINE m == f.motor
<1>0. /\ m \in Motors /\ f.kind \in {"clear", "write", "read", "zero", "enable", "motion", "stop"}
      /\ answers \in Seq(Answers) /\ parameters \in [Motors -> SUBSET Indices]
      /\ mode \in [Motors -> Modes]
  BY OtherTypes DEF Frames
<1>1. TrueOf(answers, parameters)
  BY DEF ConfiguredInv, AnswersAreTrue, TrueOf
<1>2. \A md : ~Report(m, md).requested
  BY DEF Report
<1>3. CASE f.kind = "write"
  <2>1. /\ parameters' = [parameters EXCEPT ![m] = @ \cup {f.index}]
        /\ UNCHANGED <<answers, mode>>
    BY <1>3 DEF Handle
  <2>2. \A k \in Motors : parameters[k] \subseteq parameters'[k]
    BY <1>0, <2>1
  <2>3. \A i \in Positions(answers) : answers[i].motor \in Motors
    <3>1. \A i \in Positions(answers) : answers[i] \in Answers
      BY <1>0 DEF Positions
    <3> QED BY <3>1 DEF Answers
  <2> QED BY <1>1, <2>1, <2>2, <2>3 DEF TrueOf
<1>4. CASE f.kind = "read"
  <2>1. Answer(Readback(m, f.index)) /\ UNCHANGED <<mode, parameters>>
    BY <1>4 DEF Handle, motors
  <2>2. Readback(m, f.index).requested => Readback(m, f.index).index \in parameters[m]
    BY DEF Readback
  <2>3. Readback(m, f.index).motor = m
    BY DEF Readback
  <2>4. TrueOf(answers', parameters)
    BY <1>0, <1>1, <2>1, <2>2, <2>3, AnswerIsTrue
  <2> QED BY <2>1, <2>4
<1>5. CASE f.kind = "zero"
  <2>1. SetsZero(m) /\ UNCHANGED <<mode, parameters>>
    BY <1>5 DEF Handle, motors
  <2>2. TrueOf(answers', parameters)
    BY <1>0, <1>1, <2>1 DEF SetsZero, TrueOf, Positions, Answers
  <2> QED BY <2>1, <2>2
<1>6. CASE f.kind = "enable"
  <2>1. Enabled(m) /\ UNCHANGED parameters /\ AllConfigured
    BY <1>6 DEF Handle
  <2>2. TrueOf(answers', parameters)
    BY <1>0, <1>1, <1>2, <2>1, AnswerIsTrue DEF Enabled, Feedback
  <2> QED BY <2>1, <2>2
<1>7. CASE f.kind \in {"motion", "clear", "stop"}
  <2>1. Feedback(m) /\ UNCHANGED parameters
    BY <1>7 DEF Handle, motors
  <2>2. mode' = mode \/ mode' = [mode EXCEPT ![m] = "reset"]
    BY <1>7 DEF Handle, motors
  <2>3. TrueOf(answers', parameters)
    BY <1>0, <1>1, <1>2, <2>1, AnswerIsTrue DEF Feedback
  <2> QED BY <1>0, <2>1, <2>2, <2>3
<1> QED BY <1>0, <1>3, <1>4, <1>5, <1>6, <1>7

LEMMA ConfiguredOther ==
  ASSUME TypeInv, TypeInv', GateInv, ConfiguredInv, settings' = settings,
         \/ Publish \/ PublishLost \/ WorkerFails \/ Receive
         \/ \E m \in Motors :
              \/ Supervise(m) \/ PublishRecovery(m) \/ PublishMotion(m)
              \/ WatchdogExpires(m) \/ PowerCycle(m)
  PROVE  ConfiguredInv'
<1>0. /\ queue \in Seq(Frames) /\ answers \in Seq(Answers)
      /\ mode \in [Motors -> Modes] /\ parameters \in [Motors -> SUBSET Indices]
  BY TypeParts, OtherTypes
<1>1. TrueOf(answers, parameters)
  BY DEF ConfiguredInv, AnswersAreTrue, TrueOf
<1>2. /\ \A m \in Powered : parameter[m].recent /\ parameter[m].requested
                             => parameter[m].index \in parameters[m]
      /\ \A m \in Motors : parameter[m].recent => pc \in {"confirm", "write", "disable"}
  BY DEF ConfiguredInv, AnswersAreTrue
<1>3. \A m, md : ~Report(m, md).requested
  BY DEF Report
<1>4. queue # <<>> /\ queue' = Tail(queue) =>
        /\ NoEnables(queue) => NoEnables(queue') /\ Head(queue).kind # "enable"
        /\ Head(queue) \in Frames
  <2> SUFFICES ASSUME queue # <<>>, queue' = Tail(queue)
               PROVE  /\ NoEnables(queue) => NoEnables(queue') /\ Head(queue).kind # "enable"
                      /\ Head(queue) \in Frames
    OBVIOUS
  <2>1. Head(queue) = queue[1] /\ 1 \in Positions(queue) /\ Head(queue) \in Frames
    BY <1>0, Rest
  <2>2. \A i \in Positions(Tail(queue)) :
          i + 1 \in Positions(queue) /\ Tail(queue)[i] = queue[i + 1]
    BY <1>0, Rest
  <2> QED BY <2>1, <2>2 DEF NoEnables
<1>5. CASE Publish
  <2>1. /\ Handle(Head(queue)) /\ queue # <<>> /\ queue' = Tail(queue)
        /\ UNCHANGED <<owner, parameter, gate, restarted>>
    BY <1>5 DEF Publish, heard
  <2>2. Head(queue).kind = "enable" => AllConfigured
    BY <1>4, <2>1 DEF ConfiguredInv
  <2>3. /\ \A m \in Motors : parameters[m] \subseteq parameters'[m]
        /\ \A m \in Motors : mode'[m] = "run" => mode[m] = "run" \/ AllConfigured
        /\ TrueOf(answers', parameters')
    BY <1>4, <2>1, <2>2, HandleConfigures
  <2>4. \A m \in Powered : parameter'[m].recent /\ parameter'[m].requested
                              => parameter'[m].index \in parameters'[m]
    BY <1>2, <2>1, <2>3 DEF Powered
  <2> QED BY <1>2, <1>4, <2>1, <2>3, <2>4, ConfiguredGrows
<1>6. CASE PublishLost
  <2>1. /\ queue # <<>> /\ queue' = Tail(queue)
        /\ UNCHANGED <<owner, parameter, gate, answers, mode, parameters, restarted>>
    BY <1>6 DEF PublishLost, heard, motors
  <2> QED BY <1>1, <1>2, <1>4, <2>1, ConfiguredGrows
<1>7. CASE WorkerFails
  <2>1. /\ NoEnables(queue') /\ ~gate'
        /\ UNCHANGED <<owner, parameter, answers, mode, parameters, restarted>>
    BY <1>7 DEF WorkerFails, heard, motors, NoEnables, Positions
  <2> QED BY <1>1, <1>2, <2>1, ConfiguredGrows
<1>8. CASE Receive
  <2> DEFINE a == Head(answers)
  <2>1. /\ answers # <<>> /\ answers' = Tail(answers)
        /\ UNCHANGED <<owner, queue, gate, mode, parameters, restarted>>
    BY <1>8 DEF Receive, transport, motors
  <2>2. a = answers[1] /\ 1 \in Positions(answers) /\ a \in Answers
    BY <1>0, <2>1 DEF Positions
  <2>3. a.motor \in Motors /\ (a.motor \in Powered /\ a.requested
                                  => a.index \in parameters[a.motor])
    BY <1>1, <2>2 DEF TrueOf, Answers
  <2>4. TrueOf(answers', parameters')
    <3>1. \A i \in Positions(Tail(answers)) :
            i + 1 \in Positions(answers) /\ Tail(answers)[i] = answers[i + 1]
      BY <1>0, <2>1 DEF Positions
    <3> QED BY <1>1, <2>1, <3>1 DEF TrueOf
  <2>5. /\ \A m \in Powered : parameter'[m].recent /\ parameter'[m].requested
                               => parameter'[m].index \in parameters'[m]
        /\ \A m \in Motors : parameter'[m].recent => pc \in {"confirm", "write", "disable"}
    <3>1. CASE parameter' = parameter
      BY <1>2, <2>1, <3>1
    <3>2. CASE parameter' # parameter
      <4>1. parameter' = [parameter EXCEPT ![a.motor] =
               IF pc = "confirm"
               THEN [recent |-> TRUE, index |-> a.index, requested |-> a.requested]
               ELSE NoAnswer]
        BY <1>8, <3>2 DEF Receive, heard
      <4>2. parameter \in [Motors -> [recent : BOOLEAN, index : Indices \cup {"none"},
                                      requested : BOOLEAN]]
        BY TypeParts
      <4>3. \A m \in Motors \ {a.motor} : parameter'[m] = parameter[m]
        BY <4>1, <4>2
      <4>4. CASE pc = "confirm"
        <5>1. parameter'[a.motor].index = a.index /\ parameter'[a.motor].requested = a.requested
          BY <2>3, <4>1, <4>2, <4>4
        <5> QED BY <1>2, <2>1, <2>3, <4>3, <4>4, <5>1 DEF Powered
      <4>5. CASE pc # "confirm"
        <5>1. ~parameter'[a.motor].recent
          BY <2>3, <4>1, <4>2, <4>5 DEF NoAnswer
        <5> QED BY <1>2, <2>1, <4>3, <5>1 DEF Powered
      <4> QED BY <4>4, <4>5
    <3> QED BY <3>1, <3>2
  <2> QED BY <2>1, <2>4, <2>5, ConfiguredGrows
<1>9. ASSUME NEW m \in Motors, Supervise(m) PROVE ConfiguredInv'
  <2>1. UNCHANGED <<owner, parameter, queue, gate, answers, mode, parameters, restarted>>
    BY <1>9 DEF Supervise, heard, motors
  <2> QED BY <1>1, <1>2, <2>1, ConfiguredGrows
<1>10. ASSUME NEW m \in Motors, PublishRecovery(m) PROVE ConfiguredInv'
  <2>1. UNCHANGED <<owner, parameter, queue, gate, parameters, restarted>> /\ gate /\ Feedback(m)
    BY <1>10 DEF PublishRecovery, Enabled, heard
  <2>2. TrueOf(answers', parameters')
    BY <1>0, <1>1, <1>3, <2>1, AnswerIsTrue DEF Feedback
  <2>3. AllConfigured BY <2>1 DEF ConfiguredInv
  <2> QED BY <1>2, <2>1, <2>2, <2>3, ConfiguredGrows
<1>11. ASSUME NEW m \in Motors, PublishMotion(m) PROVE ConfiguredInv'
  <2>1. UNCHANGED <<owner, parameter, queue, gate, mode, parameters, restarted>> /\ Feedback(m)
    BY <1>11 DEF PublishMotion, heard, transport, motors
  <2>2. TrueOf(answers', parameters')
    BY <1>0, <1>1, <1>3, <2>1, AnswerIsTrue DEF Feedback
  <2> QED BY <1>2, <2>1, <2>2, ConfiguredGrows
<1>12. ASSUME NEW m \in Motors, WatchdogExpires(m) PROVE ConfiguredInv'
  <2>1. /\ UNCHANGED <<owner, parameter, queue, gate, parameters, restarted>> /\ Feedback(m)
        /\ mode' = [mode EXCEPT ![m] = "reset"]
    BY <1>12 DEF WatchdogExpires, heard, transport
  <2>2. TrueOf(answers', parameters')
    BY <1>0, <1>1, <1>3, <2>1, AnswerIsTrue DEF Feedback
  <2>3. \A k \in Motors : mode'[k] = "run" => mode[k] = "run"
    BY <1>0, <2>1
  <2> QED BY <1>2, <2>1, <2>2, <2>3, ConfiguredGrows
<1>13. ASSUME NEW m \in Motors, PowerCycle(m) PROVE ConfiguredInv'
  <2>1. /\ UNCHANGED <<owner, parameter, queue, gate, answers>>
        /\ mode' = [mode EXCEPT ![m] = "reset"]
        /\ parameters' = [parameters EXCEPT ![m] = {}]
        /\ restarted' = restarted \cup {m}
    BY <1>13 DEF PowerCycle, heard, transport
  <2>2. UNCHANGED <<pc, joint, index>> BY <2>1 DEF owner
  <2>3. /\ m \notin Powered' /\ Powered' \subseteq Powered
        /\ \A k \in Motors \ restarted' : parameters'[k] = parameters[k]
    BY <1>0, <2>1 DEF Powered
  <2>4. RunningMotorsAreConfigured'
    BY <1>0, <2>1, <2>3 DEF ConfiguredInv, RunningMotorsAreConfigured
  <2>5. AnswersAreTrue'
    BY <1>2, <1>1, <2>1, <2>2, <2>3 DEF AnswersAreTrue, TrueOf, Powered
  <2>6. AllConfigured => AllConfigured'
    BY <2>3 DEF AllConfigured, Powered
  <2>7. ConfiguredSoFar'
    <3>1. ConfiguredSoFar /\ joint \in Motors BY TypeParts DEF ConfiguredInv
    <3>2. \A k \in 1..(joint - 1) : k \in Motors
      BY <3>1, MotorsExist DEF Motors
    <3> QED BY <2>1, <2>2, <2>3, <2>6, <3>1, <3>2 DEF ConfiguredSoFar
  <2> QED BY <2>1, <2>4, <2>5, <2>6, <2>7 DEF ConfiguredInv
<1> QED BY <1>5, <1>6, <1>7, <1>8, <1>9, <1>10, <1>11, <1>12, <1>13

SafeInv == TypeInv /\ GateInv /\ ConfiguredInv

LEMMA SafeInit == ASSUME Init PROVE SafeInv
<1>1. TypeInv BY TypeInit
<1>2. GateInv BY DEF Init, GateInv
<1>3. ConfiguredInv
  BY DEF Init, ConfiguredInv, RunningMotorsAreConfigured, AnswersAreTrue, ConfiguredSoFar,
     Powered, NoEnables, Positions, NoAnswer
<1> QED BY <1>1, <1>2, <1>3 DEF SafeInv

LEMMA SafeStep == ASSUME SafeInv, [Next]_vars PROVE SafeInv'
<1>1. TypeInv' BY TypeStep DEF SafeInv
<1>2. CASE UNCHANGED vars
  BY <1>1, <1>2 DEF SafeInv, GateInv, ConfiguredInv, RunningMotorsAreConfigured,
     AnswersAreTrue, ConfiguredSoFar, AllConfigured, Powered, NoEnables,
     vars, owner, heard, transport, motors
<1>3. CASE Next
  BY <1>1, <1>3, GateStep, ConfiguredOwner, ConfiguredOther DEF SafeInv, Next
<1> QED BY <1>2, <1>3

\* No motor runs without the watchdog and the run mode that were written to it, with
\* any number of motors, attempts, lost frames and answers on their way, and power
\* losses at any time: only the motors that lost their power themselves are excepted,
\* until a start finds them in Reset mode with nothing on its way.
THEOREM ConfiguredBeforeRunning == Spec => []RunningMotorsAreConfigured
<1>1. Init => SafeInv BY SafeInit
<1>2. SafeInv /\ [Next]_vars => SafeInv' BY SafeStep
<1>3. SafeInv => RunningMotorsAreConfigured BY DEF SafeInv, ConfiguredInv
<1> QED BY <1>1, <1>2, <1>3, PTL DEF Spec

-----------------------------------------------------------------------------
(* A stop is final.                                                         *)

\* While the host stops nothing but a queued frame enables a motor.
LEMMA StopFinalStep ==
  ASSUME TypeInv, GateInv, StopIsFinal, [Next]_vars PROVE StopIsFinal'
<1> USE TypeParts, OtherTypes DEF StopIsFinal, Stopping
<1>1. CASE UNCHANGED vars
  BY <1>1 DEF vars, owner, motors, stopping
<1>2. CASE Lifecycle
  <2>1. CASE DisableActiveCommands
    BY <2>1 DEF DisableActiveCommands
  <2>2. CASE Start
    BY <2>2 DEF Start
  <2>3. CASE Open \/ ClearJoint \/ WriteParameter \/ WatchdogConfirmed \/ JointConfirmed
             \/ EnableAll \/ Activate \/ Retry \/ StartFails
    BY <2>3 DEF Open, ClearJoint, WriteParameter, WatchdogConfirmed, JointConfirmed,
       EnableAll, Activate, Retry, StartFails, motors, stopping
  <2>4. CASE Leave \/ ShutDown \/ CleanUp \/ SendStops \/ StopEnds \/ Close
    BY <2>4 DEF Leave, ShutDown, CleanUp, SendStops, StopEnds, Close, motors, stopping
  <2> QED BY <1>2, <2>1, <2>2, <2>3, <2>4 DEF Lifecycle
<1>3. CASE Publish
  <2> DEFINE f == Head(queue)
  <2>1. Handle(f) /\ f \in Frames /\ UNCHANGED pc
    BY <1>3, RestOfQueueIsTyped DEF Publish, owner
  <2>2. f.motor \in Motors BY <2>1 DEF Frames
  <2>3. CASE f.kind = "stop"
    <3>1. told' = told \cup {f.motor} /\ mode' = [mode EXCEPT ![f.motor] = "reset"]
      BY <2>1, <2>3 DEF Handle
    <3> QED BY <2>1, <2>2, <3>1
  <2>4. CASE f.kind = "enable"
    BY <2>1, <2>2, <2>4 DEF Handle, Enabled
  <2>5. CASE f.kind \notin {"stop", "enable"}
    <3>1. told' = told BY <2>1, <2>5 DEF Handle
    <3>2. mode' = mode \/ mode' = [mode EXCEPT ![f.motor] = "reset"]
      BY <2>1, <2>5 DEF Handle, Frames, motors
    <3> QED BY <2>1, <2>2, <3>1, <3>2
  <2> QED BY <2>3, <2>4, <2>5
<1>4. CASE PublishLost \/ WorkerFails \/ Receive
  BY <1>4 DEF PublishLost, WorkerFails, Receive, owner, motors, stopping
<1>5. ASSUME NEW m \in Motors, Supervise(m) \/ PublishMotion(m)
      PROVE  StopIsFinal'
  BY <1>5 DEF Supervise, PublishMotion, owner, motors, stopping
<1>6. ASSUME NEW m \in Motors, WatchdogExpires(m) \/ PowerCycle(m)
      PROVE  StopIsFinal'
  BY <1>6 DEF WatchdogExpires, PowerCycle, owner, stopping
<1>7. ASSUME NEW m \in Motors, PublishRecovery(m)
      PROVE  StopIsFinal'
  BY <1>7 DEF PublishRecovery, GateInv, owner
<1> QED BY <1>1, <1>2, <1>3, <1>4, <1>5, <1>6, <1>7 DEF Next

\* A motor that took a stop frame is in Reset mode until start is called again, for
\* any number of motors whose recovery was under way when the stop began.
THEOREM StopsAreFinal == Spec => []StopIsFinal
<1>1. Init => SafeInv /\ StopIsFinal
  BY SafeInit DEF Init, StopIsFinal
<1>2. SafeInv /\ StopIsFinal /\ [Next]_vars => (SafeInv /\ StopIsFinal)'
  BY SafeStep, StopFinalStep DEF SafeInv
<1> QED BY <1>1, <1>2, PTL DEF Spec

-----------------------------------------------------------------------------
(* A confirmed stop is real.                                                *)

\* Motors that are only ever set to Reset mode, and reports of what they are in.
ResetsOnly ==
  \A m \in Motors : mode[m] = "reset" => mode'[m] = "reset"

ReportsAreTrue(seq, modes) ==
  \A i \in Positions(seq) : seq[i].mode = "reset" => modes[seq[i].motor] = "reset"

LEMMA ReportIsTrue ==
  ASSUME NEW modes, NEW m, answers \in Seq(Answers), Answer(Report(m, modes[m])),
         ReportsAreTrue(answers, modes)
  PROVE  ReportsAreTrue(answers', modes)
BY DEF Answer, ReportsAreTrue, Report, Positions

\* While nothing enables a motor and stops are confirmed or under way, an action
\* that sets modes to Reset only keeps what has been confirmed.
LEMMA ConfirmedKept ==
  ASSUME TypeInv, ConfirmedInv, UNCHANGED <<pc, quiet, stop_confirmed>>,
         gate' => gate,
         quiet /\ (Stopping \/ stop_confirmed) =>
           /\ ResetsOnly
           /\ \A i \in Positions(queue') : queue'[i].kind \in {"motion", "stop"}
           /\ ReportsAreTrue(answers', mode')
           /\ \A m \in Motors :
                feedback'[m].recent /\ feedback'[m].mode = "reset" => mode'[m] = "reset"
  PROVE  ConfirmedInv'
<1>1. (stop_confirmed => pc \in {"disable", "close", "closed", "inactive"} /\ ~gate)'
  BY DEF ConfirmedInv
<1>2. (quiet /\ (Stopping \/ stop_confirmed) => NothingEnables)'
  BY DEF NothingEnables, ReportsAreTrue, Stopping
<1>3. ConfirmedStopIsReal'
  BY DEF ConfirmedInv, ConfirmedStopIsReal, ResetsOnly
<1> QED BY <1>1, <1>2, <1>3 DEF ConfirmedInv

LEMMA ConfirmedOwner ==
  ASSUME TypeInv, GateInv, ConfirmedInv, settings' = settings, Lifecycle
  PROVE  ConfirmedInv'
<1> USE TypeParts, OtherTypes
<1>1. CASE Open \/ CleanUp \/ Close \/ ShutDown
  <2>1. /\ UNCHANGED <<feedback, queue, gate, answers, mode, quiet, stop_confirmed>>
        /\ pc \in {"closed", "inactive", "close"}
        /\ pc' \in {"closed", "inactive", "close", "disable"}
    BY <1>1 DEF Open, CleanUp, Close, ShutDown, heard, transport, motors, stopping
  <2>2. quiet => NothingEnables
    BY <2>1 DEF ConfirmedInv, Stopping
  <2>3. quiet => NothingEnables'
    BY <2>1, <2>2 DEF NothingEnables
  <2> QED BY <2>1, <2>3 DEF ConfirmedInv, ConfirmedStopIsReal, GateInv
<1>2. CASE Start
  BY <1>2 DEF Start, ConfirmedInv, ConfirmedStopIsReal, Stopping
<1>3. CASE ClearJoint \/ WriteParameter \/ WatchdogConfirmed \/ JointConfirmed
           \/ EnableAll \/ Activate \/ Retry \/ StartFails \/ Leave
  <2>1. /\ pc \in {"clear", "write", "confirm", "enable", "confirm_enable", "active"}
        /\ pc' \in {"clear", "write", "confirm", "enable", "confirm_enable", "active", "disable"}
        /\ UNCHANGED stop_confirmed
    <3>1. CASE ClearJoint \/ WriteParameter \/ WatchdogConfirmed \/ JointConfirmed
      BY <3>1 DEF ClearJoint, WriteParameter, WatchdogConfirmed, JointConfirmed, stopping
    <3>2. CASE EnableAll \/ Activate \/ Retry \/ StartFails \/ Leave
      BY <3>2 DEF EnableAll, Activate, Retry, StartFails, Unconfirmed, Leave, stopping
    <3> QED BY <1>3, <3>1, <3>2
  <2>2. ~stop_confirmed BY <2>1 DEF ConfirmedInv
  <2> QED BY <2>1, <2>2 DEF ConfirmedInv, ConfirmedStopIsReal, Stopping
<1>4. CASE DisableActiveCommands
  <2>1. /\ ~stop_confirmed' /\ quiet' = NothingOnItsWay /\ ForgetReports
        /\ UNCHANGED <<queue, answers>>
    BY <1>4 DEF DisableActiveCommands
  <2>2. \A m \in Motors : ~feedback'[m].recent
    BY <2>1 DEF ForgetReports, NoReport
  <2>3. quiet' => NothingEnables'
    <3>1. quiet' => queue' = <<>> /\ answers' = <<>>
      BY <2>1 DEF NothingOnItsWay
    <3> QED BY <2>2, <3>1 DEF NothingEnables, Positions
  <2> QED BY <2>1, <2>3 DEF ConfirmedInv, ConfirmedStopIsReal
<1>5. CASE SendStops
  <2> DEFINE frames == ForAll("motion", "stop")
  <2>1. /\ pc = "stop" /\ pc' \in {"stop", "confirm_stop"} /\ Send(frames)
        /\ UNCHANGED <<feedback, answers, mode, quiet, stop_confirmed>>
    BY <1>5 DEF SendStops, heard, motors, stopping
  <2>2. queue' = queue \/ queue' = queue \o frames
    BY <2>1 DEF Send
  <2>3. /\ frames \in Seq(Frames)
        /\ \A i \in Positions(frames) : frames[i].kind \in {"motion", "stop"}
    BY ForAllIsTyped
  <2>4. \A i \in Positions(queue \o frames) :
           \/ \E k \in Positions(queue) : (queue \o frames)[i] = queue[k]
           \/ \E k \in Positions(frames) : (queue \o frames)[i] = frames[k]
    BY <2>3, Concatenation
  <2>5. quiet => NothingEnables
    BY <2>1 DEF ConfirmedInv, Stopping
  <2>6. quiet => \A i \in Positions(queue') : queue'[i].kind \in {"motion", "stop"}
    <3>1. quiet => \A i \in Positions(queue) : queue[i].kind \in {"motion", "stop"}
      BY <2>5 DEF NothingEnables
    <3>2. quiet => \A i \in Positions(queue \o frames) :
                     (queue \o frames)[i].kind \in {"motion", "stop"}
      BY <2>3, <2>4, <3>1
    <3> QED BY <2>2, <3>1, <3>2
  <2>7. quiet => NothingEnables'
    BY <2>1, <2>5, <2>6 DEF NothingEnables
  <2>8. ~stop_confirmed BY <2>1 DEF ConfirmedInv
  <2> QED BY <2>1, <2>7, <2>8 DEF ConfirmedInv, ConfirmedStopIsReal
<1>6. CASE StopEnds
  <2>1. /\ pc = "confirm_stop" /\ stop_confirmed' = Reported("reset") /\ ForgetReports
        /\ pc' \in {"disable", "close", "closed", "inactive"}
        /\ UNCHANGED <<queue, gate, answers, mode, quiet>>
    BY <1>6 DEF StopEnds, transport, motors
  <2>2. quiet => NothingEnables
    BY <2>1 DEF ConfirmedInv, Stopping
  <2>3. \A m \in Motors : ~feedback'[m].recent
    BY <2>1 DEF ForgetReports, NoReport
  <2>4. quiet => NothingEnables'
    BY <2>1, <2>2, <2>3 DEF NothingEnables
  <2>5. quiet /\ stop_confirmed' => \A m \in Motors : mode[m] = "reset"
    BY <2>1, <2>2 DEF NothingEnables, Reported
  <2> QED BY <2>1, <2>4, <2>5 DEF ConfirmedInv, ConfirmedStopIsReal, GateInv
<1> QED BY <1>1, <1>2, <1>3, <1>4, <1>5, <1>6 DEF Lifecycle

LEMMA ConfirmedOther ==
  ASSUME TypeInv, TypeInv', GateInv, ConfirmedInv, settings' = settings,
         \/ Publish \/ PublishLost \/ WorkerFails \/ Receive
         \/ \E m \in Motors :
              \/ Supervise(m) \/ PublishRecovery(m) \/ PublishMotion(m)
              \/ WatchdogExpires(m) \/ PowerCycle(m)
  PROVE  ConfirmedInv'
<1> DEFINE Settled == quiet /\ (Stopping \/ stop_confirmed)
<1>0. /\ queue \in Seq(Frames) /\ answers \in Seq(Answers)
      /\ mode \in [Motors -> Modes]
      /\ feedback \in [Motors -> [recent : BOOLEAN, mode : Modes \cup {"none"}]]
  BY TypeParts, OtherTypes
<1>1. Settled =>
        /\ \A i \in Positions(queue) : queue[i].kind \in {"motion", "stop"}
        /\ ReportsAreTrue(answers, mode)
        /\ \A m \in Motors :
             feedback[m].recent /\ feedback[m].mode = "reset" => mode[m] = "reset"
        /\ ~gate
  BY DEF ConfirmedInv, NothingEnables, ReportsAreTrue, GateInv, Stopping
<1>2. queue # <<>> /\ queue' = Tail(queue) /\ Settled =>
        /\ \A i \in Positions(queue') : queue'[i].kind \in {"motion", "stop"}
        /\ Head(queue).kind \in {"motion", "stop"}
  <2> SUFFICES ASSUME queue # <<>>, queue' = Tail(queue), Settled
               PROVE  /\ \A i \in Positions(queue') : queue'[i].kind \in {"motion", "stop"}
                      /\ Head(queue).kind \in {"motion", "stop"}
    OBVIOUS
  <2>1. Head(queue) = queue[1] /\ 1 \in Positions(queue)
    BY <1>0, Rest
  <2>2. \A i \in Positions(Tail(queue)) :
          i + 1 \in Positions(queue) /\ Tail(queue)[i] = queue[i + 1]
    BY <1>0, Rest
  <2> QED BY <1>1, <2>1, <2>2
<1>3. \A i \in Positions(answers) : answers[i].motor \in Motors
  <2>1. \A i \in Positions(answers) : answers[i] \in Answers
    BY <1>0 DEF Positions
  <2> QED BY <2>1 DEF Answers
\* A motor that is set to Reset mode reports it.
<1>4. ASSUME NEW m \in Motors, mode' = mode \/ mode' = [mode EXCEPT ![m] = "reset"],
             Feedback(m), Settled
      PROVE  ResetsOnly /\ ReportsAreTrue(answers', mode')
  <2>1. \A k \in Motors : mode[k] = "reset" => mode'[k] = "reset"
    BY <1>0, <1>4
  <2>2. ReportsAreTrue(answers, mode')
    BY <1>1, <1>3, <1>4, <2>1 DEF ReportsAreTrue
  <2>3. ReportsAreTrue(answers', mode')
    BY <1>0, <1>4, <2>2, ReportIsTrue DEF Feedback
  <2> QED BY <2>1, <2>3 DEF ResetsOnly
<1>5. CASE Publish
  <2> DEFINE f == Head(queue)
  <2>1. /\ Handle(f) /\ queue # <<>> /\ queue' = Tail(queue)
        /\ UNCHANGED <<pc, feedback, gate, quiet, stop_confirmed>>
    BY <1>5 DEF Publish, owner, heard
  <2>2. f.motor \in Motors
    BY <2>1, RestOfQueueIsTyped DEF Frames
  <2>3. f.kind \in {"motion", "stop"} =>
          /\ Feedback(f.motor)
          /\ mode' = mode \/ mode' = [mode EXCEPT ![f.motor] = "reset"]
    BY <2>1 DEF Handle, motors
  <2>4. Settled => ResetsOnly /\ ReportsAreTrue(answers', mode')
    BY <1>2, <1>4, <2>1, <2>2, <2>3
  <2>5. Settled => \A i \in Positions(queue') : queue'[i].kind \in {"motion", "stop"}
    BY <1>2, <2>1
  <2>6. Settled => \A m \in Motors :
          feedback'[m].recent /\ feedback'[m].mode = "reset" => mode'[m] = "reset"
    BY <1>1, <2>1, <2>4 DEF ResetsOnly
  <2> QED BY <2>1, <2>4, <2>5, <2>6, ConfirmedKept
<1>6. CASE PublishLost
  <2>1. /\ queue # <<>> /\ queue' = Tail(queue)
        /\ UNCHANGED <<pc, feedback, gate, answers, mode, quiet, stop_confirmed>>
    BY <1>6 DEF PublishLost, owner, heard, motors
  <2> QED BY <1>1, <1>2, <2>1, ConfirmedKept DEF ResetsOnly
<1>7. CASE WorkerFails
  <2>1. /\ queue' = <<>> /\ ~gate'
        /\ UNCHANGED <<pc, feedback, answers, mode, quiet, stop_confirmed>>
    BY <1>7 DEF WorkerFails, owner, heard, motors
  <2>2. Positions(queue') = {} BY <2>1 DEF Positions
  <2> QED BY <1>1, <2>1, <2>2, ConfirmedKept DEF ResetsOnly
<1>8. CASE Receive
  <2> DEFINE a == Head(answers)
  <2>1. /\ answers # <<>> /\ answers' = Tail(answers)
        /\ UNCHANGED <<pc, queue, gate, mode, quiet, stop_confirmed>>
    BY <1>8 DEF Receive, owner, transport, motors, stopping
  <2>2. a = answers[1] /\ 1 \in Positions(answers)
    BY <1>0, <2>1 DEF Positions
  <2>3. Settled => ReportsAreTrue(answers', mode')
    <3>1. \A i \in Positions(Tail(answers)) :
            i + 1 \in Positions(answers) /\ Tail(answers)[i] = answers[i + 1]
      BY <1>0, <2>1 DEF Positions
    <3> QED BY <1>1, <2>1, <3>1 DEF ReportsAreTrue
  <2>4. Settled => \A m \in Motors :
          feedback'[m].recent /\ feedback'[m].mode = "reset" => mode'[m] = "reset"
    <3>1. CASE feedback' = feedback
      BY <1>1, <2>1, <3>1
    <3>2. CASE feedback' # feedback
      <4>1. \/ feedback' = [feedback EXCEPT ![a.motor] =
                              [recent |-> ModeAwaited, mode |-> a.mode]]
            \/ feedback' = [feedback EXCEPT ![a.motor] = NoReport]
        BY <1>8, <3>2 DEF Receive, heard
      <4>2. \A m \in Motors \ {a.motor} : feedback'[m] = feedback[m]
        BY <1>0, <4>1
      <4>3. feedback'[a.motor].mode = a.mode \/ ~feedback'[a.motor].recent
        BY <1>0, <1>3, <2>2, <4>1 DEF NoReport
      <4>4. Settled => (a.mode = "reset" => mode[a.motor] = "reset")
        BY <1>1, <2>2 DEF ReportsAreTrue
      <4> QED BY <1>1, <2>1, <4>2, <4>3, <4>4
    <3> QED BY <3>1, <3>2
  <2> QED BY <1>1, <2>1, <2>3, <2>4, ConfirmedKept DEF ResetsOnly
<1>9. ASSUME NEW m \in Motors, Supervise(m) PROVE ConfirmedInv'
  <2>1. UNCHANGED <<pc, feedback, queue, gate, answers, mode, quiet, stop_confirmed>>
    BY <1>9 DEF Supervise, owner, heard, motors, stopping
  <2> QED BY <1>1, <2>1, ConfirmedKept DEF ResetsOnly
<1>10. ASSUME NEW m \in Motors, PublishRecovery(m) \/ PublishMotion(m) PROVE ConfirmedInv'
  <2>1. gate /\ UNCHANGED <<pc, gate, quiet, stop_confirmed>>
    BY <1>10 DEF PublishRecovery, PublishMotion, owner, transport, stopping
  <2> QED BY <1>1, <2>1, ConfirmedKept
<1>11. ASSUME NEW m \in Motors, WatchdogExpires(m) PROVE ConfirmedInv'
  <2>1. /\ mode' = [mode EXCEPT ![m] = "reset"] /\ Feedback(m)
        /\ UNCHANGED <<pc, feedback, queue, gate, quiet, stop_confirmed>>
    BY <1>11 DEF WatchdogExpires, owner, heard, transport, stopping
  <2>2. Settled => ResetsOnly /\ ReportsAreTrue(answers', mode')
    BY <1>4, <2>1
  <2> QED BY <1>1, <2>1, <2>2, ConfirmedKept DEF ResetsOnly
<1>12. ASSUME NEW m \in Motors, PowerCycle(m) PROVE ConfirmedInv'
  <2>1. /\ mode' = [mode EXCEPT ![m] = "reset"]
        /\ UNCHANGED <<pc, feedback, queue, gate, answers, quiet, stop_confirmed>>
    BY <1>12 DEF PowerCycle, owner, heard, transport, stopping
  <2>2. ResetsOnly BY <1>0, <2>1 DEF ResetsOnly
  <2>3. Settled => ReportsAreTrue(answers', mode')
    BY <1>1, <1>3, <2>1, <2>2 DEF ReportsAreTrue, ResetsOnly
  <2> QED BY <1>1, <2>1, <2>2, <2>3, ConfirmedKept DEF ResetsOnly
<1> QED BY <1>5, <1>6, <1>7, <1>8, <1>9, <1>10, <1>11, <1>12

LEMMA ConfirmedInit == ASSUME Init PROVE ConfirmedInv
<1>1. queue = <<>> /\ answers = <<>> /\ ~stop_confirmed
  BY DEF Init
<1>2. \A m \in Motors : ~feedback[m].recent
  BY DEF Init, NoReport
<1>3. NothingEnables
  BY <1>1, <1>2 DEF NothingEnables, Positions
<1> QED BY <1>1, <1>3 DEF ConfirmedInv, ConfirmedStopIsReal

LEMMA ConfirmedStep ==
  ASSUME SafeInv, ConfirmedInv, [Next]_vars PROVE ConfirmedInv'
<1>1. CASE UNCHANGED vars
  BY <1>1 DEF ConfirmedInv, ConfirmedStopIsReal, NothingEnables, Stopping,
     vars, owner, heard, transport, motors, stopping
<1>2. CASE Next
  <2>1. SafeInv' BY SafeStep
  <2> QED BY <1>2, <2>1, ConfirmedOwner, ConfirmedOther DEF Next, SafeInv
<1> QED BY <1>1, <1>2

\* When nothing older was on its way as the stop began, a confirmed stop means that
\* every motor is in Reset mode, however many there are and whatever is lost.
THEOREM ConfirmedStopsAreReal == Spec => []ConfirmedStopIsReal
<1>1. Init => SafeInv /\ ConfirmedInv
  BY SafeInit, ConfirmedInit
<1>2. SafeInv /\ ConfirmedInv /\ [Next]_vars => (SafeInv /\ ConfirmedInv)'
  BY SafeStep, ConfirmedStep
<1>3. ConfirmedInv => ConfirmedStopIsReal BY DEF ConfirmedInv
<1> QED BY <1>1, <1>2, <1>3, PTL DEF Spec

-----------------------------------------------------------------------------
(* A stop survives lost frames.                                             *)

IsOf(f, kind, m) == f.kind = kind /\ f.motor = m

\* At least n stop frames for the motor are queued behind whatever enables it.
StopsQueued(frames, m, n) ==
  \E at \in [1..n -> Positions(frames)] :
    /\ \A j \in 1..n : IsOf(frames[at[j]], "stop", m)
    /\ \A j, k \in 1..n : j < k => at[j] < at[k]
    /\ \A i \in Positions(frames), j \in 1..n :
         IsOf(frames[i], "enable", m) => i < at[j]

Halted(m) ==
  /\ mode[m] = "reset"
  /\ \A i \in Positions(queue) : ~IsOf(queue[i], "enable", m)

\* The repetitions that disable_all has sent.
Repetitions == IF pc = "stop" THEN attempt - 1 ELSE settings.stop_repetitions

\* Every motor has stopped for good, or has stop frames ahead of it: all that have been
\* sent but those that were lost. What a failed worker drops counts as lost.
StopInv ==
  Stopping =>
    /\ failed => lost = settings.stop_repetitions
    /\ \A m \in Motors : Halted(m) \/ StopsQueued(queue, m, Repetitions - lost)

-----------------------------------------------------------------------------
LEMMA NoStopsQueued ==
  ASSUME NEW frames \in Seq(Frames), NEW m \in Motors, NEW n \in Int, n <= 0
  PROVE  StopsQueued(frames, m, n)
<1> DEFINE at == [j \in 1..n |-> 1]
<1>1. 1..n = {} OBVIOUS
<1>2. at \in [1..n -> Positions(frames)] BY <1>1
<1> QED BY <1>1, <1>2 DEF StopsQueued

\* One more stop frame, the last of the queue or with a frame for others behind it.
LEMMA StopsAppended ==
  ASSUME NEW a \in Seq(Frames), NEW b \in Seq(Frames), NEW m \in Motors, NEW n \in Int,
         StopsQueued(a, m, n), NEW last \in Positions(b), IsOf(b[last], "stop", m),
         \A i \in Positions(b) : ~IsOf(b[i], "enable", m)
  PROVE  StopsQueued(a \o b, m, n + 1)
<1> DEFINE q == a \o b
<1>1. /\ q \in Seq(Frames) /\ Len(q) = Len(a) + Len(b)
      /\ Len(a) \in Nat /\ Len(b) \in Nat
      /\ \A i \in Positions(a) : q[i] = a[i] /\ i \in Positions(q)
      /\ \A i \in Positions(b) : q[Len(a) + i] = b[i] /\ Len(a) + i \in Positions(q)
      /\ \A i \in Positions(q) : i \in Positions(a) \/ i - Len(a) \in Positions(b)
  BY DEF Positions
<1>2. CASE n + 1 <= 0
  <2>1. n + 1 \in Int OBVIOUS
  <2>2. a \o b \in Seq(Frames) BY <1>1
  <2> QED BY <1>2, <2>1, <2>2, NoStopsQueued
<1>3. CASE n >= 0
  <2>1. PICK at \in [1..n -> Positions(a)] :
          /\ \A j \in 1..n : IsOf(a[at[j]], "stop", m)
          /\ \A j, k \in 1..n : j < k => at[j] < at[k]
          /\ \A i \in Positions(a), j \in 1..n : IsOf(a[i], "enable", m) => i < at[j]
    BY DEF StopsQueued
  <2> DEFINE at1 == [j \in 1..(n + 1) |-> IF j = n + 1 THEN Len(a) + last ELSE at[j]]
  <2>2. \A j \in 1..(n + 1) : j # n + 1 => j \in 1..n
    BY <1>3
  <2>3. \A j \in 1..n : at[j] \in Positions(a) BY <2>1
  <2>4. at1 \in [1..(n + 1) -> Positions(q)]
    BY <1>1, <2>2, <2>3
  <2>5. \A j \in 1..(n + 1) : IsOf(q[at1[j]], "stop", m)
    BY <1>1, <2>1, <2>2, <2>3
  <2>6. \A j \in 1..n : at[j] < Len(a) + last
    BY <1>1, <2>3 DEF Positions
  <2>7. \A j, k \in 1..(n + 1) : j < k => at1[j] < at1[k]
    <3> SUFFICES ASSUME NEW j \in 1..(n + 1), NEW k \in 1..(n + 1), j < k
                 PROVE  at1[j] < at1[k]
      OBVIOUS
    <3>1. j \in 1..n /\ j # n + 1 BY <1>3
    <3>2. CASE k = n + 1 BY <2>6, <3>1, <3>2
    <3>3. CASE k # n + 1 BY <2>1, <2>2, <3>1, <3>3
    <3> QED BY <3>2, <3>3
  <2>8. \A i \in Positions(q), j \in 1..(n + 1) : IsOf(q[i], "enable", m) => i < at1[j]
    <3> SUFFICES ASSUME NEW i \in Positions(q), NEW j \in 1..(n + 1),
                        IsOf(q[i], "enable", m)
                 PROVE  i < at1[j]
      OBVIOUS
    <3>1. i \in Positions(a)
      <4>1. ASSUME i - Len(a) \in Positions(b) PROVE FALSE
        <5>1. q[Len(a) + (i - Len(a))] = b[i - Len(a)] BY <1>1, <4>1
        <5>2. Len(a) + (i - Len(a)) = i BY <1>1 DEF Positions
        <5> QED BY <4>1, <5>1, <5>2
      <4> QED BY <1>1, <4>1
    <3>2. IsOf(a[i], "enable", m) BY <1>1, <3>1
    <3>3. CASE j = n + 1 BY <1>1, <3>1, <3>3 DEF Positions
    <3>4. CASE j # n + 1 BY <2>1, <2>2, <3>1, <3>2, <3>4
    <3> QED BY <3>3, <3>4
  <2> QED BY <2>4, <2>5, <2>7, <2>8 DEF StopsQueued
<1> QED BY <1>2, <1>3

\* A frame leaves the queue: one stop frame less if it was one.
LEMMA StopsRemaining ==
  ASSUME NEW q \in Seq(Frames), q # <<>>, NEW m \in Motors, NEW n \in Int,
         StopsQueued(q, m, n)
  PROVE  /\ StopsQueued(Tail(q), m, n - 1)
         /\ \/ StopsQueued(Tail(q), m, n)
            \/ /\ IsOf(Head(q), "stop", m)
               /\ \A i \in Positions(Tail(q)) : ~IsOf(Tail(q)[i], "enable", m)
<1>1. PICK at \in [1..n -> Positions(q)] :
        /\ \A j \in 1..n : IsOf(q[at[j]], "stop", m)
        /\ \A j, k \in 1..n : j < k => at[j] < at[k]
        /\ \A i \in Positions(q), j \in 1..n : IsOf(q[i], "enable", m) => i < at[j]
  BY DEF StopsQueued
<1>2. /\ Tail(q) \in Seq(Frames) /\ Head(q) = q[1] /\ 1 \in Positions(q)
      /\ \A i \in Positions(Tail(q)) : i + 1 \in Positions(q) /\ Tail(q)[i] = q[i + 1]
      /\ \A i \in Positions(q) : i # 1 => i - 1 \in Positions(Tail(q))
  BY Rest DEF Positions
<1>3. \A j \in 1..n : at[j] \in Positions(q) /\ at[j] \in Nat /\ at[j] >= 1
  BY <1>1 DEF Positions
<1>4. \A i \in Positions(q) : i \in Nat BY DEF Positions
\* The queue without its head, and the stop frames from the (d + 1)-th on.
<1>5. ASSUME NEW d \in {0, 1}, \A j \in 1..(n - d) : at[j + d] # 1
      PROVE  StopsQueued(Tail(q), m, n - d)
  <2> DEFINE rest == [j \in 1..(n - d) |-> at[j + d] - 1]
  <2>1. \A j \in 1..(n - d) : j + d \in 1..n OBVIOUS
  <2>2. rest \in [1..(n - d) -> Positions(Tail(q))]
    BY <1>2, <1>3, <1>5, <2>1
  <2>3. \A j \in 1..(n - d) : rest[j] \in Positions(Tail(q)) /\ rest[j] + 1 = at[j + d]
    BY <1>3, <2>1, <2>2
  <2>4. \A j \in 1..(n - d) : IsOf(Tail(q)[rest[j]], "stop", m)
    BY <1>1, <1>2, <2>1, <2>3
  <2>5. \A j, k \in 1..(n - d) : j < k => rest[j] < rest[k]
    <3> SUFFICES ASSUME NEW j \in 1..(n - d), NEW k \in 1..(n - d), j < k
                 PROVE  rest[j] < rest[k]
      OBVIOUS
    <3>1. at[j + d] < at[k + d] BY <1>1, <2>1
    <3> QED BY <1>3, <2>1, <3>1
  <2>6. \A i \in Positions(Tail(q)), j \in 1..(n - d) :
          IsOf(Tail(q)[i], "enable", m) => i < rest[j]
    <3> SUFFICES ASSUME NEW i \in Positions(Tail(q)), NEW j \in 1..(n - d),
                        IsOf(Tail(q)[i], "enable", m)
                 PROVE  i < rest[j]
      OBVIOUS
    <3>1. i + 1 < at[j + d] BY <1>1, <1>2, <2>1
    <3>2. i \in Nat BY DEF Positions
    <3> QED BY <1>3, <2>1, <3>1, <3>2
  <2> QED BY <2>2, <2>4, <2>5, <2>6 DEF StopsQueued
<1>6. StopsQueued(Tail(q), m, n - 1)
  <2>1. \A j \in 1..(n - 1) : at[j + 1] # 1
    <3> SUFFICES ASSUME NEW j \in 1..(n - 1) PROVE at[j + 1] # 1
      OBVIOUS
    <3>1. 1 \in 1..n /\ j + 1 \in 1..n /\ 1 < j + 1 OBVIOUS
    <3>2. at[1] < at[j + 1] BY <1>1, <3>1
    <3> QED BY <1>3, <3>1, <3>2
  <2> QED BY <1>5, <2>1
<1>7. CASE \A j \in 1..n : at[j] # 1
  <2>1. \A j \in 1..(n - 0) : at[j + 0] # 1 BY <1>7
  <2>2. StopsQueued(Tail(q), m, n - 0) BY <1>5, <2>1
  <2> QED BY <1>6, <2>2
<1>8. ASSUME NEW j \in 1..n, at[j] = 1
      PROVE  /\ IsOf(Head(q), "stop", m)
             /\ \A i \in Positions(Tail(q)) : ~IsOf(Tail(q)[i], "enable", m)
  <2>1. IsOf(Head(q), "stop", m) BY <1>1, <1>2, <1>8
  <2>2. ASSUME NEW i \in Positions(Tail(q)), IsOf(Tail(q)[i], "enable", m) PROVE FALSE
    <3>1. i + 1 < at[j] BY <1>1, <1>2, <2>2
    <3>2. i \in Nat BY DEF Positions
    <3> QED BY <1>8, <3>1, <3>2
  <2> QED BY <2>1, <2>2
<1> QED BY <1>6, <1>7, <1>8

-----------------------------------------------------------------------------
LEMMA StopInit == ASSUME Init PROVE StopInv
BY DEF Init, StopInv, Halted, Positions

\* Every repetition has one stop frame for each motor.
LEMMA OneStopEach ==
  ASSUME NEW m \in Motors
  PROVE  LET frames == ForAll("motion", "stop") IN
         /\ frames \in Seq(Frames) /\ 2 * m \in Positions(frames)
         /\ IsOf(frames[2 * m], "stop", m)
         /\ \A i \in Positions(frames) : ~IsOf(frames[i], "enable", m)
<1> DEFINE frames == ForAll("motion", "stop")
<1>1. /\ frames \in Seq(Frames)
      /\ \A i \in Positions(frames) : frames[i].kind \in {"motion", "stop"}
  BY ForAllIsTyped
<1>2. m \in Nat /\ 1 <= m /\ m <= MotorCount /\ MotorCount \in Nat
  BY MotorsExist DEF Motors
<1>3. 2 * m \in 1..(2 * MotorCount) /\ (2 * m) % 2 = 0 /\ (2 * m + 1) \div 2 = m
  BY <1>2
<1>4. frames[2 * m] = Frame("stop", m)
  BY <1>3 DEF ForAll
<1>5. Len(frames) = 2 * MotorCount
  BY <1>2 DEF ForAll
<1>6. 2 * m \in Positions(frames) /\ IsOf(frames[2 * m], "stop", m)
  BY <1>3, <1>4, <1>5 DEF Positions, IsOf, Frame
<1>7. \A i \in Positions(frames) : ~IsOf(frames[i], "enable", m)
  BY <1>1 DEF IsOf
<1> QED BY <1>1, <1>6, <1>7

LEMMA StopOwner ==
  ASSUME TypeInv, StopInv, settings' = settings, Lifecycle
  PROVE  StopInv'
<1> USE TypeParts, OtherTypes
<1>0. /\ settings.stop_repetitions \in Nat \ {0} /\ lost \in Nat /\ queue \in Seq(Frames)
      /\ attempt \in Nat \ {0}
  BY SettingsAreTyped
<1>1. CASE Open \/ CleanUp \/ Close \/ StopEnds
  <2>1. /\ UNCHANGED <<queue, mode, lost>> /\ (failed' => failed)
        /\ Stopping /\ pc # "stop" /\ pc' # "stop"
    <3>1. CASE Open \/ CleanUp \/ Close
      BY <3>1 DEF Open, CleanUp, Close, transport, motors, stopping, Stopping
    <3>2. CASE StopEnds
      BY <3>2 DEF StopEnds, transport, motors, Stopping
    <3> QED BY <1>1, <3>1, <3>2
  <2> QED BY <2>1 DEF StopInv, Halted, Repetitions
<1>2. CASE \/ Start \/ ClearJoint \/ WriteParameter \/ WatchdogConfirmed \/ JointConfirmed
           \/ EnableAll \/ Activate \/ Retry \/ StartFails \/ Leave \/ ShutDown
  <2>1. CASE Start \/ ClearJoint \/ WriteParameter \/ WatchdogConfirmed \/ JointConfirmed
    BY <2>1 DEF Start, ClearJoint, WriteParameter, WatchdogConfirmed, JointConfirmed,
       StopInv, Stopping
  <2>2. CASE EnableAll \/ Activate \/ Retry \/ StartFails \/ Leave \/ ShutDown
    BY <2>2 DEF EnableAll, Activate, Retry, StartFails, Leave, ShutDown, StopInv, Stopping
  <2> QED BY <1>2, <2>1, <2>2
<1>3. CASE DisableActiveCommands
  <2>1. /\ pc' = "stop" /\ attempt' = 1 /\ UNCHANGED <<queue, failed>>
        /\ lost' = IF failed THEN settings.stop_repetitions ELSE 0
    BY <1>3 DEF DisableActiveCommands
  <2>2. (Repetitions - lost)' \in Int /\ (Repetitions - lost)' <= 0
    BY <1>0, <2>1 DEF Repetitions
  <2>3. \A m \in Motors : StopsQueued(queue', m, (Repetitions - lost)')
    BY <1>0, <2>1, <2>2, NoStopsQueued
  <2> QED BY <2>1, <2>3 DEF StopInv
<1>4. CASE SendStops
  <2> DEFINE frames == ForAll("motion", "stop")
             n == Repetitions - lost
  <2>1. /\ pc = "stop" /\ Send(frames) /\ UNCHANGED <<mode, lost, failed>>
        /\ IF LastRepetition THEN pc' = "confirm_stop"
                             ELSE pc' = "stop" /\ attempt' = attempt + 1
    BY <1>4 DEF SendStops, motors, stopping
  <2>2. n \in Int /\ n' = n + 1
    <3>1. Repetitions = attempt - 1 BY <2>1 DEF Repetitions
    <3>2. Repetitions' = attempt BY <1>0, <2>1 DEF Repetitions, LastRepetition
    <3> QED BY <1>0, <2>1, <3>1, <3>2
  <2>3. Stopping BY <2>1 DEF Stopping
  <2>4. CASE failed
    <3>1. n <= -1 BY <1>0, <2>1, <2>3, <2>4 DEF StopInv, Repetitions, TypeInv
    <3>2. n' \in Int /\ n' <= 0 BY <2>2, <3>1
    <3>3. queue' = queue BY <2>1, <2>4 DEF Send
    <3>4. \A m \in Motors : StopsQueued(queue', m, n') BY <1>0, <3>2, <3>3, NoStopsQueued
    <3> QED BY <2>1, <2>3, <3>4 DEF StopInv
  <2>5. CASE ~failed
    <3>1. queue' = queue \o frames BY <2>1, <2>5 DEF Send
    <3>2. ASSUME NEW m \in Motors, Halted(m) PROVE Halted(m)'
      <4>1. /\ frames \in Seq(Frames)
            /\ \A i \in Positions(frames) : ~IsOf(frames[i], "enable", m)
        BY OneStopEach
      <4>2. \A i \in Positions(queue \o frames) :
              \/ \E k \in Positions(queue) : (queue \o frames)[i] = queue[k]
              \/ \E k \in Positions(frames) : (queue \o frames)[i] = frames[k]
        BY <1>0, <4>1, Concatenation
      <4>3. \A i \in Positions(queue') : ~IsOf(queue'[i], "enable", m)
        BY <3>1, <3>2, <4>1, <4>2 DEF Halted
      <4> QED BY <2>1, <3>2, <4>3 DEF Halted
    <3>3. ASSUME NEW m \in Motors, StopsQueued(queue, m, n) PROVE StopsQueued(queue', m, n')
      <4>1. /\ frames \in Seq(Frames) /\ 2 * m \in Positions(frames)
            /\ IsOf(frames[2 * m], "stop", m)
            /\ \A i \in Positions(frames) : ~IsOf(frames[i], "enable", m)
        BY OneStopEach
      <4>2. StopsQueued(queue \o frames, m, n + 1)
        BY <1>0, <2>2, <3>3, <4>1, StopsAppended
      <4> QED BY <2>2, <3>1, <4>2
    <3> QED BY <2>1, <2>3, <2>5, <3>2, <3>3 DEF StopInv
  <2> QED BY <2>4, <2>5
<1> QED BY <1>1, <1>2, <1>3, <1>4 DEF Lifecycle

LEMMA StopOther ==
  ASSUME TypeInv, TypeInv', GateInv, StopInv, settings' = settings,
         \/ Publish \/ PublishLost \/ WorkerFails \/ Receive
         \/ \E m \in Motors :
              \/ Supervise(m) \/ PublishRecovery(m) \/ PublishMotion(m)
              \/ WatchdogExpires(m) \/ PowerCycle(m)
  PROVE  StopInv'
<1> DEFINE n == Repetitions - lost
<1>0. /\ queue \in Seq(Frames) /\ mode \in [Motors -> Modes]
      /\ settings.stop_repetitions \in Nat \ {0} /\ lost \in 0..settings.stop_repetitions
      /\ attempt \in Nat \ {0} /\ n \in Int /\ Repetitions \in Int
      /\ pc = "stop" => attempt <= settings.stop_repetitions
  <2>1. /\ queue \in Seq(Frames) /\ mode \in [Motors -> Modes]
        /\ settings.stop_repetitions \in Nat \ {0}
        /\ lost \in 0..settings.stop_repetitions /\ attempt \in Nat \ {0}
    BY TypeParts, OtherTypes, SettingsAreTyped
  <2> QED BY <2>1 DEF Repetitions, TypeInv
<1>1. CASE Publish
  <2> DEFINE f == Head(queue)
  <2>1. /\ Handle(f) /\ queue # <<>> /\ queue' = Tail(queue)
        /\ UNCHANGED <<pc, attempt, failed, lost>>
    BY <1>1 DEF Publish, owner
  <2>2. f.motor \in Motors /\ f \in Frames
    BY <2>1, RestOfQueueIsTyped DEF Frames
  <2>3. n' = n /\ Stopping' = Stopping BY <2>1 DEF Repetitions, Stopping
  <2>4. ASSUME NEW m \in Motors, mode[m] = "reset", ~IsOf(f, "enable", m)
        PROVE  mode'[m] = "reset"
    BY <1>0, <2>1, <2>2, <2>4 DEF Handle, IsOf, Enabled, motors, Frames
  <2>5. ASSUME NEW m \in Motors, Halted(m) PROVE Halted(m)'
    <3>1. \A i \in Positions(Tail(queue)) :
            i + 1 \in Positions(queue) /\ Tail(queue)[i] = queue[i + 1]
      BY <1>0, <2>1, Rest
    <3>2. 1 \in Positions(queue) /\ f = queue[1] BY <1>0, <2>1, Rest
    <3> QED BY <2>1, <2>4, <2>5, <3>1, <3>2 DEF Halted
  <2>6. ASSUME NEW m \in Motors, StopsQueued(queue, m, n)
        PROVE  Halted(m)' \/ StopsQueued(queue', m, n')
    <3>1. CASE StopsQueued(Tail(queue), m, n)
      BY <2>1, <2>3, <3>1
    <3>2. CASE /\ IsOf(f, "stop", m)
               /\ \A i \in Positions(Tail(queue)) : ~IsOf(Tail(queue)[i], "enable", m)
      <4>1. mode' = [mode EXCEPT ![m] = "reset"]
        BY <2>1, <3>2 DEF Handle, IsOf
      <4> QED BY <1>0, <2>1, <3>2, <4>1 DEF Halted
    <3> QED BY <1>0, <2>1, <2>6, <3>1, <3>2, StopsRemaining
  <2> QED BY <2>1, <2>3, <2>5, <2>6 DEF StopInv
<1>2. CASE PublishLost
  <2>1. /\ queue # <<>> /\ queue' = Tail(queue)
        /\ UNCHANGED <<pc, attempt, failed, mode>>
        /\ lost' = IF Stopping /\ Head(queue).kind = "stop" /\ lost < settings.stop_repetitions
                   THEN lost + 1 ELSE lost
    BY <1>2 DEF PublishLost, owner, motors
  <2>2. lost' = settings.stop_repetitions \/ lost' = lost \/ lost' = lost + 1
    BY <2>1
  <2>3. Repetitions' = Repetitions /\ Stopping' = Stopping
    BY <2>1 DEF Repetitions, Stopping
  <2>4. ASSUME NEW m \in Motors, Halted(m) PROVE Halted(m)'
    <3>1. \A i \in Positions(Tail(queue)) :
            i + 1 \in Positions(queue) /\ Tail(queue)[i] = queue[i + 1]
      BY <1>0, <2>1, Rest
    <3> QED BY <2>1, <2>4, <3>1 DEF Halted
  <2>5. ASSUME Stopping, NEW m \in Motors, StopsQueued(queue, m, n)
        PROVE  StopsQueued(queue', m, n')
    <3>1. CASE lost' = lost + 1
      <4>1. n' = n - 1 BY <1>0, <2>3, <3>1
      <4> QED BY <1>0, <2>1, <2>5, <4>1, StopsRemaining
    <3>2. CASE lost' = lost /\ lost = settings.stop_repetitions
      <4>1. n' \in Int /\ n' <= 0 BY <1>0, <2>3, <3>2 DEF Repetitions
      <4>2. queue' \in Seq(Frames) BY <1>0, <2>1
      <4> QED BY <4>1, <4>2, NoStopsQueued
    <3>3. CASE lost' = lost /\ lost # settings.stop_repetitions
      <4>1. Head(queue).kind # "stop" BY <1>0, <2>1, <2>5, <3>3
      <4>2. ~IsOf(Head(queue), "stop", m) BY <4>1 DEF IsOf
      <4>3. StopsQueued(Tail(queue), m, n) BY <1>0, <2>1, <2>5, <4>2, StopsRemaining
      <4>4. n' = n BY <2>3, <3>3
      <4> QED BY <2>1, <4>3, <4>4
    <3> QED BY <2>1, <3>1, <3>2, <3>3
  <2>6. failed' /\ Stopping => lost' = settings.stop_repetitions
    BY <1>0, <2>1 DEF StopInv
  <2> QED BY <2>3, <2>4, <2>5, <2>6 DEF StopInv
<1>3. CASE WorkerFails
  <2>1. /\ queue' = <<>> /\ UNCHANGED <<pc, attempt>>
        /\ Stopping => lost' = settings.stop_repetitions
    BY <1>3 DEF WorkerFails, owner
  <2>2. Stopping => n' \in Int /\ n' <= 0
    BY <1>0, <2>1 DEF Repetitions
  <2>3. queue' \in Seq(Frames) BY <2>1
  <2>4. Stopping => \A m \in Motors : StopsQueued(queue', m, n')
    BY <2>2, <2>3, NoStopsQueued
  <2> QED BY <2>1, <2>4 DEF StopInv, Stopping
<1>4. CASE Receive
  <2>1. UNCHANGED <<pc, attempt, failed, queue, mode, lost>>
    BY <1>4 DEF Receive, owner, transport, motors, stopping
  <2> QED BY <2>1 DEF StopInv, Stopping, Halted, Repetitions
<1>5. ASSUME NEW m \in Motors, Supervise(m) \/ PublishRecovery(m) \/ PublishMotion(m)
      PROVE  StopInv'
  <2>1. gate /\ UNCHANGED pc
    BY <1>5 DEF Supervise, PublishRecovery, PublishMotion, owner
  <2> QED BY <2>1 DEF GateInv, StopInv, Stopping
<1>6. ASSUME NEW k \in Motors, WatchdogExpires(k) \/ PowerCycle(k)
      PROVE  StopInv'
  <2>1. /\ UNCHANGED <<pc, attempt, failed, queue, lost>>
        /\ mode' = [mode EXCEPT ![k] = "reset"]
    BY <1>6 DEF WatchdogExpires, PowerCycle, owner, transport, stopping
  <2>2. \A m \in Motors : mode[m] = "reset" => mode'[m] = "reset"
    BY <1>0, <2>1
  <2>3. \A m \in Motors : Halted(m) => Halted(m)'
    BY <2>1, <2>2 DEF Halted
  <2> QED BY <2>1, <2>3 DEF StopInv, Stopping, Repetitions
<1> QED BY <1>1, <1>2, <1>3, <1>4, <1>5, <1>6

\* With fewer lost frames than stop_repetitions no motor runs once everything has gone
\* out, for any number of motors and repetitions, and whatever was queued before.
THEOREM LossesAreSurvived == Spec => []StopSurvivesLosses
<1>1. Init => SafeInv /\ StopInv BY SafeInit, StopInit
<1>2. SafeInv /\ StopInv /\ [Next]_vars => (SafeInv /\ StopInv)'
  <2> SUFFICES ASSUME SafeInv, StopInv, [Next]_vars PROVE (SafeInv /\ StopInv)'
    OBVIOUS
  <2>1. SafeInv' BY SafeStep
  <2>2. CASE UNCHANGED vars
    BY <2>1, <2>2 DEF StopInv, Stopping, Halted, Repetitions,
       vars, owner, transport, motors, stopping
  <2>3. CASE Next
    BY <2>1, <2>3, StopOwner, StopOther DEF Next, SafeInv
  <2> QED BY <2>1, <2>2, <2>3
<1>3. SafeInv /\ StopInv => StopSurvivesLosses
  <2> SUFFICES ASSUME SafeInv, StopInv, pc \in {"inactive", "closed"}, queue = <<>>,
                      lost < settings.stop_repetitions, NEW m \in Motors
               PROVE  mode[m] = "reset"
    BY DEF StopSurvivesLosses
  <2> DEFINE n == settings.stop_repetitions - lost
  <2>1. Halted(m) \/ StopsQueued(queue, m, n)
    BY DEF StopInv, Stopping, Repetitions
  <2>2. 1 \in 1..n
    BY TypeParts, OtherTypes, SettingsAreTyped DEF SafeInv
  <2>3. Positions(queue) = {} BY DEF Positions
  <2>4. ~StopsQueued(queue, m, n)
    BY <2>2, <2>3 DEF StopsQueued
  <2> QED BY <2>1, <2>4 DEF Halted
<1> QED BY <1>1, <1>2, <1>3, PTL DEF Spec

-----------------------------------------------------------------------------
(* An activation is real.                                                   *)

Preparing == pc \in {"clear", "write", "confirm"}
Starting == Preparing \/ pc \in {"enable", "confirm_enable"}

Kinds(frames, kinds) == \A i \in Positions(frames) : frames[i].kind \in kinds
Preparations == {"clear", "write", "read", "zero"}

ZeroQueued(m) == \E i \in Positions(queue) : IsOf(queue[i], "zero", m)
SaysRun(m) == feedback[m].recent /\ feedback[m].mode = "run"

\* The motor has run in this start and its zero is behind it, as far as the answers
\* from the k-th on tell.
Fresh(m, k) ==
  /\ m \in ran /\ ~ZeroQueued(m)
  /\ \A j \in Positions(answers) : j >= k /\ answers[j].motor = m => ~answers[j].stale

\* Before the motors are enabled no report of Run mode is on its way.
NothingRunsYet ==
  Kinds(queue, Preparations) /\ \A i \in Positions(answers) : answers[i].mode # "run"

\* No zero is queued behind what makes a motor report.
ZerosFirst ==
  \A i, j \in Positions(queue) :
    i < j /\ queue[i].kind \in {"enable", "motion"} => queue[j].kind # "zero"

ReportsAreReal ==
  /\ \A m \in Motors : SaysRun(m) => m \notin stale /\ Fresh(m, 1)
  /\ \A i \in Positions(answers) :
       answers[i].mode = "run" => Fresh(answers[i].motor, i)

RealInv ==
  /\ \A m \in Motors : feedback[m].recent =>
       pc \in {"enable", "confirm_enable", "disable", "stop", "confirm_stop"}
  /\ quiet /\ Starting =>
       /\ \A m \in Motors : mode[m] = "run" => m \in ran
       /\ Preparing => NothingRunsYet
       /\ ZerosFirst
       /\ ReportsAreReal

-----------------------------------------------------------------------------
LEMMA RealInit == ASSUME Init PROVE RealInv
BY DEF Init, NoReport, RealInv, Starting, Preparing

\* What is sent before the motors are enabled.
LEMMA SendPrepares ==
  ASSUME queue \in Seq(Frames), Kinds(queue, Preparations),
         NEW frames \in Seq(Frames), Kinds(frames, Preparations), Send(frames)
  PROVE  Kinds(queue', Preparations)
<1>1. \A i \in Positions(queue \o frames) :
        \/ \E k \in Positions(queue) : (queue \o frames)[i] = queue[k]
        \/ \E k \in Positions(frames) : (queue \o frames)[i] = frames[k]
  BY Concatenation
<1>2. Kinds(queue \o frames, Preparations) BY <1>1 DEF Kinds
<1> QED BY <1>2 DEF Send

\* As long as nothing runs yet there is nothing to be said of reports.
LEMMA NothingToReport ==
  ASSUME NothingRunsYet, \A m \in Motors : ~feedback[m].recent
  PROVE  ZerosFirst /\ ReportsAreReal
BY DEF NothingRunsYet, Kinds, Preparations, ZerosFirst, ReportsAreReal, SaysRun

LEMMA RealOwner ==
  ASSUME TypeInv, RealInv, settings' = settings, Lifecycle
  PROVE  RealInv'
<1> USE TypeParts, OtherTypes
<1>0. /\ queue \in Seq(Frames) /\ joint \in Motors /\ index \in Indices
      /\ settings.clear_faults_on_start \in BOOLEAN /\ settings.set_zero_on_start \in BOOLEAN
  BY SettingsAreTyped
<1> DEFINE NoneRecent == \A m \in Motors : ~feedback[m].recent
\* Steps before the motors are enabled.
<1>1. ASSUME Preparing, Starting',
             UNCHANGED <<feedback, answers, mode, stale, ran, quiet>>,
             NEW frames \in Seq(Frames), Kinds(frames, Preparations), Send(frames)
      PROVE  RealInv'
  <2>1. NoneRecent /\ NoneRecent'
    BY <1>1 DEF RealInv, Preparing
  <2>2. quiet => NothingRunsYet'
    BY <1>0, <1>1, SendPrepares DEF RealInv, Starting, NothingRunsYet
  <2>3. quiet => ZerosFirst' /\ ReportsAreReal'
    BY <2>1, <2>2 DEF NothingRunsYet, Kinds, Preparations, ZerosFirst, ReportsAreReal, SaysRun
  <2> QED BY <1>1, <2>1, <2>2, <2>3 DEF RealInv, Starting
<1>2. <<>> \in Seq(Frames) /\ Kinds(<<>>, Preparations)
  BY DEF Kinds, Positions
<1>3. CASE Start
  <2>1. /\ pc = "inactive" /\ ran' = {m \in Motors : mode[m] = "run"}
        /\ quiet' = NothingOnItsWay /\ UNCHANGED <<feedback, queue, answers, mode>>
    BY <1>3 DEF Start, heard, transport, motors
  <2>2. NoneRecent /\ NoneRecent' BY <2>1 DEF RealInv
  <2>3. quiet' => NothingRunsYet'
    <3>1. quiet' => queue' = <<>> /\ answers' = <<>>
      BY <2>1 DEF NothingOnItsWay
    <3> QED BY <3>1 DEF NothingRunsYet, Kinds, Positions
  <2>4. quiet' => ZerosFirst' /\ ReportsAreReal'
    BY <2>2, <2>3 DEF NothingRunsYet, Kinds, Preparations, ZerosFirst, ReportsAreReal, SaysRun
  <2> QED BY <2>1, <2>2, <2>3, <2>4 DEF RealInv
<1>4. CASE ClearJoint
  <2> DEFINE frames == IF settings.clear_faults_on_start THEN <<Frame("clear", joint)>> ELSE <<>>
  <2>1. /\ pc = "clear" /\ pc' = "write" /\ Send(frames)
        /\ UNCHANGED <<feedback, answers, mode, stale, ran, quiet>>
    BY <1>4 DEF ClearJoint, heard, motors, stopping
  <2>2. <<Frame("clear", joint)>> \in Seq(Frames)
    BY <1>0, SingleFrames
  <2>3. Kinds(<<Frame("clear", joint)>>, Preparations)
    BY DEF Kinds, Positions, Preparations, Frame
  <2>4. frames \in Seq(Frames) /\ Kinds(frames, Preparations) BY <1>2, <2>2, <2>3
  <2> QED BY <1>1, <2>1, <2>4 DEF Preparing, Starting
<1>5. CASE WriteParameter
  <2> DEFINE frames == <<Access("write", joint, index), Access("read", joint, index)>>
  <2>1. /\ pc = "write" /\ pc' = "confirm" /\ Send(frames)
        /\ UNCHANGED <<feedback, answers, mode, stale, ran, quiet>>
    BY <1>5 DEF WriteParameter, motors, stopping
  <2>2. frames \in Seq(Frames)
    BY <1>0, SingleFrames
  <2>3. Kinds(frames, Preparations)
    BY DEF Kinds, Positions, Preparations, Access
  <2> QED BY <1>1, <2>1, <2>2, <2>3 DEF Preparing, Starting
<1>6. CASE JointConfirmed
  <2> DEFINE frames == IF settings.set_zero_on_start THEN <<Frame("zero", joint)>> ELSE <<>>
  <2>1. /\ pc = "confirm" /\ pc' \in {"clear", "enable"} /\ Send(frames)
        /\ UNCHANGED <<feedback, answers, mode, stale, ran, quiet>>
    BY <1>6 DEF JointConfirmed, motors, stopping
  <2>2. <<Frame("zero", joint)>> \in Seq(Frames)
    BY <1>0, SingleFrames
  <2>3. Kinds(<<Frame("zero", joint)>>, Preparations)
    BY DEF Kinds, Positions, Preparations, Frame
  <2>4. frames \in Seq(Frames) /\ Kinds(frames, Preparations) BY <1>2, <2>2, <2>3
  <2> QED BY <1>1, <2>1, <2>4 DEF Preparing, Starting
<1>7. CASE WatchdogConfirmed \/ Retry
  <2>1. /\ UNCHANGED <<feedback, queue, answers, mode, stale, ran, quiet>>
        /\ \/ Preparing /\ pc' = "write"
           \/ pc = "confirm_enable" /\ pc' = "enable"
    BY <1>7 DEF WatchdogConfirmed, Retry, Unconfirmed, heard, transport, motors, stopping,
       Preparing
  <2> QED BY <2>1 DEF RealInv, Starting, Preparing, NothingRunsYet, ZerosFirst,
                      ReportsAreReal, SaysRun, Fresh, ZeroQueued
<1>8. CASE EnableAll
  <2> DEFINE frames == ForAll("enable", "motion")
  <2>1. /\ pc = "enable" /\ pc' = "confirm_enable" /\ Send(frames) /\ ForgetReports
        /\ UNCHANGED <<answers, mode, stale, ran, quiet>>
    BY <1>8 DEF EnableAll, motors, stopping
  <2>2. frames \in Seq(Frames) /\ Kinds(frames, {"enable", "motion"})
    BY ForAllIsTyped DEF Kinds
  <2>3. /\ Len(queue) \in Nat /\ Len(frames) \in Nat
        /\ \A i \in Positions(queue \o frames) :
             IF i <= Len(queue) THEN i \in Positions(queue) /\ (queue \o frames)[i] = queue[i]
             ELSE /\ i - Len(queue) \in Positions(frames)
                  /\ (queue \o frames)[i] = frames[i - Len(queue)]
    BY <1>0, <2>2 DEF Positions
  <2>4. \A i \in Positions(queue \o frames) : (queue \o frames)[i].kind = "zero" =>
           i <= Len(queue) /\ i \in Positions(queue) /\ (queue \o frames)[i] = queue[i]
    BY <2>2, <2>3 DEF Kinds
  <2>5. queue' = queue \/ queue' = queue \o frames BY <2>1 DEF Send
  <2>6. ASSUME NEW m \in Motors, ZeroQueued(m)' PROVE ZeroQueued(m)
    BY <2>4, <2>5, <2>6 DEF ZeroQueued, IsOf
  <2>7. ASSUME ZerosFirst PROVE ZerosFirst'
    <3> SUFFICES ASSUME queue' = queue \o frames,
                        NEW i \in Positions(queue'), NEW j \in Positions(queue'), i < j,
                        queue'[i].kind \in {"enable", "motion"}, queue'[j].kind = "zero"
                 PROVE  FALSE
      BY <2>5, <2>7 DEF ZerosFirst
    <3>1. j <= Len(queue) /\ j \in Positions(queue) /\ queue'[j] = queue[j] BY <2>4
    <3>2. i <= Len(queue) BY <2>3, <3>1 DEF Positions
    <3>3. i \in Positions(queue) /\ queue'[i] = queue[i] BY <2>3, <3>2
    <3> QED BY <2>7, <3>1, <3>3 DEF ZerosFirst
  <2>8. \A m \in Motors : ~feedback'[m].recent BY <2>1 DEF ForgetReports, NoReport
  <2>9. \A i \in Positions(answers) : answers[i].motor \in Motors
    <3>1. \A i \in Positions(answers) : answers[i] \in Answers BY DEF Positions
    <3> QED BY <3>1 DEF Answers
  <2>10. ASSUME ReportsAreReal PROVE ReportsAreReal'
    BY <2>1, <2>6, <2>8, <2>9, <2>10 DEF ReportsAreReal, SaysRun, Fresh
  <2> QED BY <2>1, <2>7, <2>8, <2>10 DEF RealInv, Starting, Preparing
<1>9. CASE \/ Open \/ Activate \/ StartFails \/ Leave \/ ShutDown \/ CleanUp
           \/ DisableActiveCommands \/ SendStops \/ StopEnds \/ Close
  <2>1. ~Starting'
    <3>1. CASE Open \/ Activate \/ StartFails \/ Leave \/ ShutDown \/ CleanUp
      BY <3>1 DEF Open, Activate, StartFails, Leave, ShutDown, CleanUp, Starting, Preparing
    <3>2. CASE DisableActiveCommands \/ SendStops \/ StopEnds \/ Close
      BY <3>2 DEF DisableActiveCommands, SendStops, StopEnds, Close, Starting, Preparing
    <3> QED BY <1>9, <3>1, <3>2
  <2>2. ASSUME NEW m \in Motors, feedback'[m].recent
        PROVE  pc' \in {"enable", "confirm_enable", "disable", "stop", "confirm_stop"}
    <3>1. CASE Open \/ StartFails \/ Leave \/ ShutDown \/ CleanUp \/ SendStops \/ Close
      BY <2>2, <3>1 DEF RealInv, Open, StartFails, Unconfirmed, Leave, ShutDown, CleanUp,
         SendStops, Close, heard
    <3>2. CASE Activate
      BY <2>2, <3>2 DEF Activate
    <3>3. CASE DisableActiveCommands \/ StopEnds
      <4>1. ForgetReports BY <3>3 DEF DisableActiveCommands, StopEnds
      <4> QED BY <2>2, <4>1 DEF ForgetReports, NoReport
    <3> QED BY <1>9, <3>1, <3>2, <3>3
  <2> QED BY <2>1, <2>2 DEF RealInv
<1> QED BY <1>3, <1>4, <1>5, <1>6, <1>7, <1>8, <1>9 DEF Lifecycle

-----------------------------------------------------------------------------
\* A new answer, of a motor that reports Run mode only if it has run and its zero is
\* behind it.
LEMMA ReportsAppended ==
  ASSUME answers \in Seq(Answers), ReportsAreReal, NEW a \in Answers, Answer(a), ~a.stale,
         UNCHANGED <<feedback, stale>>, ran \subseteq ran',
         \A m \in Motors : ZeroQueued(m)' => ZeroQueued(m),
         a.mode = "run" => a.motor \in ran' /\ ~ZeroQueued(a.motor)'
  PROVE  ReportsAreReal'
<1>1. /\ Len(answers) \in Nat
      /\ \A i \in Positions(answers) : i \in Nat /\ i <= Len(answers)
                                      /\ answers[i].motor \in Motors
  <2>1. \A i \in Positions(answers) : answers[i] \in Answers BY DEF Positions
  <2> QED BY <2>1 DEF Answers, Positions
<1>2. \A i \in Positions(answers') :
        \/ i \in Positions(answers) /\ answers'[i] = answers[i]
        \/ i = Len(answers) + 1 /\ answers'[i] = a
  BY DEF Answer, Positions
<1>3. ASSUME NEW m \in Motors, NEW k \in Nat, Fresh(m, k) PROVE Fresh(m, k)'
  BY <1>2, <1>3 DEF Fresh
<1>4. ASSUME NEW m \in Motors, SaysRun(m)' PROVE m \notin stale' /\ Fresh(m, 1)'
  BY <1>3, <1>4 DEF ReportsAreReal, SaysRun
<1>5. ASSUME NEW i \in Positions(answers'), answers'[i].mode = "run"
      PROVE  Fresh(answers[i].motor, i)'
  <2>1. CASE i \in Positions(answers) /\ answers'[i] = answers[i]
    <3>1. Fresh(answers[i].motor, i) /\ answers[i].motor \in Motors /\ i \in Nat
      BY <1>1, <1>5, <2>1 DEF ReportsAreReal
    <3> QED BY <1>2, <2>1, <3>1 DEF Fresh
  <2>2. CASE i = Len(answers) + 1 /\ answers'[i] = a
    <3>1. \A j \in Positions(answers') : j >= i => answers'[j] = a
      BY <1>1, <1>2, <2>2
    <3> QED BY <1>5, <2>2, <3>1 DEF Fresh
  <2> QED BY <1>2, <1>5, <2>1, <2>2
<1> QED BY <1>4, <1>5 DEF ReportsAreReal

\* The worker takes a frame: what is left was queued before.
LEMMA QueueShrinks ==
  ASSUME queue \in Seq(Frames), queue # <<>>, queue' = Tail(queue)
  PROVE  /\ \A m \in Motors : ZeroQueued(m)' => ZeroQueued(m)
         /\ \A kinds : Kinds(queue, kinds) => Kinds(queue', kinds) /\ Head(queue).kind \in kinds
         /\ ZerosFirst => ZerosFirst'
         /\ ZerosFirst /\ Head(queue).kind \in {"enable", "motion"} =>
              \A m \in Motors : ~ZeroQueued(m)'
         /\ Head(queue).kind = "zero" => ZeroQueued(Head(queue).motor)
<1>1. /\ Head(queue) = queue[1] /\ 1 \in Positions(queue)
      /\ \A i \in Positions(Tail(queue)) :
           i \in Nat /\ 1 < i + 1 /\ i + 1 \in Positions(queue) /\ Tail(queue)[i] = queue[i + 1]
  BY Rest DEF Positions
<1>2. \A m \in Motors : ZeroQueued(m)' => ZeroQueued(m)
  BY <1>1 DEF ZeroQueued
<1>3. \A kinds : Kinds(queue, kinds) => Kinds(queue', kinds) /\ Head(queue).kind \in kinds
  BY <1>1 DEF Kinds
<1>4. ZerosFirst => ZerosFirst'
  <2> SUFFICES ASSUME ZerosFirst, NEW i \in Positions(Tail(queue)),
                      NEW j \in Positions(Tail(queue)), i < j,
                      Tail(queue)[i].kind \in {"enable", "motion"}
               PROVE  Tail(queue)[j].kind # "zero"
    BY DEF ZerosFirst
  <2>1. i + 1 < j + 1 BY <1>1
  <2> QED BY <1>1, <2>1 DEF ZerosFirst
<1>5. ZerosFirst /\ Head(queue).kind \in {"enable", "motion"} =>
        \A m \in Motors : ~ZeroQueued(m)'
  BY <1>1 DEF ZerosFirst, ZeroQueued, IsOf
<1>6. Head(queue).kind = "zero" => ZeroQueued(Head(queue).motor)
  BY <1>1 DEF ZeroQueued, IsOf
<1> QED BY <1>2, <1>3, <1>4, <1>5, <1>6

LEMMA RealPublish ==
  ASSUME TypeInv, RealInv, settings' = settings, Publish
  PROVE  RealInv'
<1> DEFINE f == Head(queue)
<1>1. /\ queue \in Seq(Frames) /\ answers \in Seq(Answers) /\ mode \in [Motors -> Modes]
      /\ ran \in SUBSET Motors /\ stale \in SUBSET Motors
  BY TypeParts, OtherTypes
<1>2. /\ Handle(f) /\ queue # <<>> /\ queue' = Tail(queue)
      /\ UNCHANGED <<pc, feedback, quiet>>
  BY DEF Publish, owner, heard
<1>3. /\ f.motor \in Motors
      /\ f.kind \in {"clear", "write", "read", "zero", "enable", "motion", "stop"}
      /\ f.kind \in {"write", "read"} => f.index \in Indices
  BY <1>2, RestOfQueueIsTyped DEF Frames
<1>4. /\ Starting' = Starting /\ Preparing' = Preparing BY <1>2 DEF Starting, Preparing
<1> SUFFICES ASSUME quiet, Starting
             PROVE  /\ \A m \in Motors : mode'[m] = "run" => m \in ran'
                    /\ Preparing => NothingRunsYet'
                    /\ ReportsAreReal'
  BY <1>1, <1>2, <1>4, QueueShrinks DEF RealInv
<1>5. /\ \A m \in Motors : mode[m] = "run" => m \in ran
      /\ Preparing => NothingRunsYet
      /\ ZerosFirst /\ ReportsAreReal
  BY DEF RealInv
<1>6. /\ \A m \in Motors : ZeroQueued(m)' => ZeroQueued(m)
      /\ Preparing => Kinds(queue', Preparations) /\ f.kind \in Preparations
      /\ f.kind \in {"enable", "motion"} => \A m \in Motors : ~ZeroQueued(m)'
      /\ f.kind = "zero" => ZeroQueued(f.motor)
  BY <1>1, <1>2, <1>5, QueueShrinks DEF NothingRunsYet
<1>15. \A i \in Positions(answers) : answers[i].motor \in Motors
  <2>1. \A i \in Positions(answers) : answers[i] \in Answers BY <1>1 DEF Positions
  <2> QED BY <2>1 DEF Answers
<1>16. PICK mo \in Motors : mo = f.motor BY <1>3
\* An answer follows that is not older than the zero of its motor.
<1>7. ASSUME NEW a \in Answers, Answer(a), ~a.stale, UNCHANGED stale, ran \subseteq ran',
             a.mode = "run" => a.motor \in ran' /\ ~ZeroQueued(a.motor)' /\ ~Preparing
      PROVE  ReportsAreReal' /\ (Preparing => NothingRunsYet')
  <2>1. ReportsAreReal' BY <1>1, <1>2, <1>5, <1>6, <1>7, ReportsAppended
  <2>2. \A i \in Positions(answers') :
          (i \in Positions(answers) /\ answers'[i] = answers[i]) \/ answers'[i] = a
    BY <1>1, <1>7 DEF Answer, Positions
  <2>3. Preparing => NothingRunsYet' BY <1>5, <1>6, <1>7, <2>2 DEF NothingRunsYet
  <2> QED BY <2>1, <2>3
<1>8. ASSUME NEW md \in Modes
      PROVE  LET a == Report(f.motor, md) IN
             a \in Answers /\ ~a.stale /\ a.mode = md /\ a.motor = f.motor
  BY <1>3 DEF Report, Answers
<1>9. CASE f.kind = "write"
  <2>1. UNCHANGED <<answers, mode, stale, ran>> BY <1>2, <1>9 DEF Handle
  <2>2. ReportsAreReal'
    BY <1>2, <1>5, <1>6, <1>15, <2>1 DEF ReportsAreReal, SaysRun, Fresh
  <2>3. Preparing => NothingRunsYet' BY <1>5, <1>6, <2>1 DEF NothingRunsYet
  <2> QED BY <1>5, <2>1, <2>2, <2>3
<1>10. CASE f.kind = "read"
  <2> DEFINE a == Readback(f.motor, f.index)
  <2>1. Answer(a) /\ UNCHANGED <<mode, stale, ran>> BY <1>2, <1>10 DEF Handle, motors
  <2>2. a \in Answers /\ ~a.stale /\ a.mode = "none"
    BY <1>3, <1>10 DEF Readback, Answers
  <2> QED BY <1>5, <1>7, <2>1, <2>2
<1>11. CASE f.kind = "zero"
  <2>1. SetsZero(f.motor) /\ UNCHANGED <<mode, ran>> BY <1>2, <1>11 DEF Handle, motors
  <2>2. /\ stale' = stale \cup {f.motor} /\ Positions(answers') = Positions(answers)
        /\ \A i \in Positions(answers) :
             /\ answers'[i].mode = answers[i].mode /\ answers'[i].motor = answers[i].motor
             /\ answers[i].motor # f.motor => answers'[i].stale = answers[i].stale
    <3>1. /\ stale' = stale \cup {f.motor}
          /\ answers' = [i \in 1..Len(answers) |->
               [answers[i] EXCEPT !.stale = @ \/ (answers[i].motor = f.motor /\
                                                 answers[i].index = "none")]]
      BY <2>1 DEF SetsZero
    <3>2. Len(answers) \in Nat BY <1>1
    <3>3. Len(answers') = Len(answers) BY <3>1, <3>2
    <3>4. \A i \in Positions(answers) : answers[i] \in Answers BY <1>1 DEF Positions
    <3> QED BY <3>1, <3>3, <3>4 DEF Positions, Answers
  <2>3. ZeroQueued(f.motor) BY <1>6, <1>11
  <2>5. ASSUME NEW m \in Motors, NEW k, m # f.motor, Fresh(m, k) PROVE Fresh(m, k)'
    BY <1>6, <2>1, <2>2, <2>5 DEF Fresh
  <2>6. ASSUME NEW m \in Motors, SaysRun(m)' PROVE m \notin stale' /\ Fresh(m, 1)'
    <3>1. m \notin stale /\ Fresh(m, 1) BY <1>2, <1>5, <2>6 DEF ReportsAreReal, SaysRun
    <3>2. m # f.motor BY <2>3, <3>1 DEF Fresh
    <3> QED BY <2>2, <2>5, <3>1, <3>2
  <2>7. ASSUME NEW i \in Positions(answers'), answers'[i].mode = "run"
        PROVE  Fresh(answers[i].motor, i)'
    <3>1. i \in Positions(answers) /\ Fresh(answers[i].motor, i)
      BY <1>5, <2>2, <2>7 DEF ReportsAreReal
    <3>2. answers[i].motor # f.motor BY <2>3, <3>1 DEF Fresh
    <3> QED BY <1>6, <1>15, <2>1, <2>2, <3>1, <3>2 DEF Fresh
  <2>8. ReportsAreReal' BY <2>6, <2>7 DEF ReportsAreReal
  <2>9. Preparing => NothingRunsYet' BY <1>5, <1>6, <2>2 DEF NothingRunsYet
  <2> QED BY <1>5, <2>1, <2>8, <2>9
<1>12. CASE f.kind = "enable"
  <2> DEFINE a == Report(f.motor, mode'[f.motor])
  <2>1. /\ mode' = [mode EXCEPT ![f.motor] = "run"] /\ ran' = ran \cup {f.motor}
        /\ Answer(a) /\ UNCHANGED stale
    BY <1>2, <1>12 DEF Handle, Enabled, Feedback, InStart, Starting, Preparing
  <2>2. mode'[f.motor] \in Modes BY <1>1, <1>3, <2>1 DEF Modes
  <2>3. a \in Answers /\ ~a.stale /\ a.motor = f.motor BY <1>8, <2>2
  <2>4. ~Preparing /\ ~ZeroQueued(mo)'
    BY <1>6, <1>12 DEF Preparations
  <2>5. a.motor = mo /\ mo \in ran' /\ ran \subseteq ran' BY <1>16, <2>1, <2>3
  <2>6. ReportsAreReal' /\ (Preparing => NothingRunsYet')
    BY <1>7, <2>1, <2>3, <2>4, <2>5
  <2>7. \A m \in Motors : mode'[m] = "run" => m \in ran' BY <1>1, <1>5, <2>1
  <2> QED BY <2>6, <2>7
<1>13. CASE f.kind = "motion"
  <2> DEFINE a == Report(f.motor, mode'[f.motor])
  <2>1. Answer(a) /\ UNCHANGED <<mode, stale, ran>>
    BY <1>2, <1>13 DEF Handle, Feedback, motors
  <2>2. mode'[f.motor] \in Modes BY <1>1, <1>3, <2>1
  <2>3. a \in Answers /\ ~a.stale /\ a.mode = mode[f.motor] /\ a.motor = f.motor
    BY <1>8, <2>1, <2>2
  <2>4. ~Preparing /\ ~ZeroQueued(mo)'
    BY <1>6, <1>13 DEF Preparations
  <2>5. a.motor = mo /\ (a.mode = "run" => mo \in ran') BY <1>5, <1>16, <2>1, <2>3
  <2>6. ReportsAreReal' /\ (Preparing => NothingRunsYet')
    BY <1>7, <2>1, <2>3, <2>4, <2>5
  <2> QED BY <1>5, <2>1, <2>6
<1>14. CASE f.kind \in {"clear", "stop"}
  <2> DEFINE a == Report(f.motor, mode'[f.motor])
  <2>1. /\ mode' = [mode EXCEPT ![f.motor] = "reset"] /\ Answer(a)
        /\ UNCHANGED <<stale, ran>>
    BY <1>2, <1>14 DEF Handle, Feedback
  <2>2. mode'[f.motor] \in Modes /\ mode'[f.motor] = "reset"
    BY <1>1, <1>3, <2>1 DEF Modes
  <2>3. a \in Answers /\ ~a.stale /\ a.mode = "reset" BY <1>8, <2>2
  <2>4. \A m \in Motors : mode'[m] = "run" => m \in ran' BY <1>1, <1>5, <2>1
  <2>5. a.mode # "run" BY <2>3
  <2> QED BY <1>7, <2>1, <2>3, <2>4, <2>5
<1> QED BY <1>3, <1>9, <1>10, <1>11, <1>12, <1>13, <1>14

LEMMA RealReceive ==
  ASSUME TypeInv, RealInv, settings' = settings, Receive
  PROVE  RealInv'
<1> DEFINE a == Head(answers)
<1>1. /\ answers \in Seq(Answers)
      /\ feedback \in [Motors -> [recent : BOOLEAN, mode : Modes \cup {"none"}]]
  BY TypeParts, OtherTypes
<1>2. /\ answers # <<>> /\ answers' = Tail(answers)
      /\ UNCHANGED <<pc, queue, mode, ran, quiet>>
  BY DEF Receive, owner, transport, motors, stopping
<1>3. /\ a = answers[1] /\ 1 \in Positions(answers) /\ a.motor \in Motors
      /\ \A i \in Positions(answers') :
           i \in Nat /\ i + 1 \in Positions(answers) /\ answers'[i] = answers[i + 1]
  <2>1. /\ a = answers[1] /\ 1 \in Positions(answers) /\ a \in Answers
        /\ \A i \in Positions(Tail(answers)) :
             i \in Nat /\ i + 1 \in Positions(answers) /\ Tail(answers)[i] = answers[i + 1]
    BY <1>1, <1>2, Rest DEF Positions
  <2>2. a.motor \in Motors BY <2>1 DEF Answers
  <2> QED BY <1>2, <2>1, <2>2
<1>4. \/ UNCHANGED <<feedback, stale>>
      \/ /\ feedback' = [feedback EXCEPT ![a.motor] =
              IF ModeAwaited \/ pc = "active"
              THEN [recent |-> ModeAwaited, mode |-> a.mode] ELSE NoReport]
         /\ stale' = IF a.stale THEN stale \cup {a.motor} ELSE stale \ {a.motor}
  BY DEF Receive, heard
\* What has been heard of a motor is as before, or what the answer says.
<1>5. ASSUME NEW m \in Motors
      PROVE  \/ feedback'[m] = feedback[m] /\ (m \in stale' <=> m \in stale)
             \/ /\ m = a.motor /\ (m \in stale' <=> a.stale)
                /\ feedback'[m].recent => feedback'[m].mode = a.mode /\ ModeAwaited
  <2>1. CASE UNCHANGED <<feedback, stale>> BY <2>1
  <2>2. CASE ~UNCHANGED <<feedback, stale>> /\ m # a.motor BY <1>1, <1>3, <1>4, <2>2
  <2>3. CASE ~UNCHANGED <<feedback, stale>> /\ m = a.motor
    <3>1. feedback'[m] = IF ModeAwaited \/ pc = "active"
                         THEN [recent |-> ModeAwaited, mode |-> a.mode] ELSE NoReport
      BY <1>1, <1>3, <1>4, <2>3
    <3>2. a \in Answers BY <1>1, <1>3 DEF Positions
    <3>3. a.stale \in BOOLEAN BY <3>2 DEF Answers
    <3>4. m \in stale' <=> a.stale BY <1>4, <2>3, <3>3
    <3>5. CASE ModeAwaited BY <2>3, <3>1, <3>4, <3>5
    <3>6. CASE ~ModeAwaited
      <4>1. ModeAwaited = FALSE BY <3>6 DEF ModeAwaited
      <4>2. \/ feedback'[m] = [recent |-> FALSE, mode |-> a.mode]
            \/ feedback'[m] = NoReport
        BY <3>1, <4>1, Zenon
      <4>3. ~feedback'[m].recent BY <4>2 DEF NoReport
      <4> QED BY <2>3, <3>4, <4>3
    <3> QED BY <3>5, <3>6
  <2> QED BY <2>1, <2>2, <2>3
<1>6. \A m \in Motors : feedback'[m].recent =>
        pc' \in {"enable", "confirm_enable", "disable", "stop", "confirm_stop"}
  BY <1>2, <1>5 DEF RealInv, ModeAwaited
<1>7. ASSUME quiet, Starting
      PROVE  ReportsAreReal'
  <2>1. ReportsAreReal BY <1>7 DEF RealInv
  <2>2. ASSUME NEW m \in Motors, NEW k \in Nat, NEW i \in {k, k + 1},
               Fresh(m, i)
        PROVE  Fresh(m, k)'
    <3>1. m \in ran' /\ ~ZeroQueued(m)' BY <1>2, <2>2 DEF Fresh, ZeroQueued
    <3>2. ASSUME NEW j \in Positions(answers'), j >= k, answers'[j].motor = m
          PROVE  ~answers'[j].stale
      <4>1. /\ j \in Nat /\ j + 1 \in Positions(answers) /\ answers'[j] = answers[j + 1]
            /\ j + 1 >= i
        BY <1>3, <2>2, <3>2
      <4> QED BY <2>2, <3>2, <4>1 DEF Fresh
    <3> QED BY <3>1, <3>2 DEF Fresh
  <2>3. ASSUME NEW m \in Motors, SaysRun(m)' PROVE m \notin stale' /\ Fresh(m, 1)'
    <3>1. CASE feedback'[m] = feedback[m] /\ (m \in stale' <=> m \in stale)
      <4>1. m \notin stale /\ Fresh(m, 1) BY <2>1, <2>3, <3>1 DEF ReportsAreReal, SaysRun
      <4> QED BY <2>2, <3>1, <4>1
    <3>2. CASE /\ m = a.motor /\ (m \in stale' <=> a.stale)
               /\ feedback'[m].recent => feedback'[m].mode = a.mode
      <4>1. a.mode = "run" BY <2>3, <3>2 DEF SaysRun
      <4>2. Fresh(m, 1) BY <1>3, <2>1, <3>2, <4>1 DEF ReportsAreReal
      <4>3. ~a.stale BY <1>3, <3>2, <4>2 DEF Fresh
      <4> QED BY <2>2, <3>2, <4>2, <4>3
    <3> QED BY <1>5, <3>1, <3>2
  <2>4. ASSUME NEW i \in Positions(answers'), answers'[i].mode = "run"
        PROVE  Fresh(answers[i].motor, i)'
    <3>1. i \in Nat /\ i + 1 \in Positions(answers) /\ answers'[i] = answers[i + 1]
      BY <1>3
    <3>2. Fresh(answers[i + 1].motor, i + 1) BY <2>1, <2>4, <3>1 DEF ReportsAreReal
    <3>3. \A j \in Positions(answers') : j >= i =>
            j + 1 \in Positions(answers) /\ j + 1 >= i + 1 /\ answers'[j] = answers[j + 1]
      BY <1>3, <3>1
    <3> QED BY <1>2, <3>1, <3>2, <3>3 DEF Fresh, ZeroQueued
  <2> QED BY <2>3, <2>4 DEF ReportsAreReal
<1>8. Preparing /\ NothingRunsYet => NothingRunsYet'
  BY <1>2, <1>3 DEF NothingRunsYet
<1> QED BY <1>2, <1>6, <1>7, <1>8 DEF RealInv, Starting, Preparing, ZerosFirst

LEMMA RealOther ==
  ASSUME TypeInv, GateInv, RealInv, settings' = settings,
         \/ Publish \/ PublishLost \/ WorkerFails \/ Receive
         \/ \E m \in Motors :
              \/ Supervise(m) \/ PublishRecovery(m) \/ PublishMotion(m)
              \/ WatchdogExpires(m) \/ PowerCycle(m)
  PROVE  RealInv'
<1>0. /\ queue \in Seq(Frames) /\ answers \in Seq(Answers) /\ mode \in [Motors -> Modes]
  BY TypeParts, OtherTypes
<1>1. CASE Publish BY <1>1, RealPublish
<1>2. CASE PublishLost
  <2>1. /\ queue # <<>> /\ queue' = Tail(queue)
        /\ UNCHANGED <<pc, feedback, answers, mode, stale, ran, quiet>>
    BY <1>2 DEF PublishLost, owner, heard, motors
  <2>2. /\ \A m \in Motors : ZeroQueued(m)' => ZeroQueued(m)
        /\ Kinds(queue, Preparations) => Kinds(queue', Preparations)
        /\ ZerosFirst => ZerosFirst'
    BY <1>0, <2>1, QueueShrinks
  <2>3. \A i \in Positions(answers) : answers[i].motor \in Motors
    <3>1. \A i \in Positions(answers) : answers[i] \in Answers BY <1>0 DEF Positions
    <3> QED BY <3>1 DEF Answers
  <2>4. ReportsAreReal => ReportsAreReal'
    BY <2>1, <2>2, <2>3 DEF ReportsAreReal, SaysRun, Fresh
  <2>5. NothingRunsYet => NothingRunsYet' BY <2>1, <2>2 DEF NothingRunsYet
  <2> QED BY <2>1, <2>2, <2>4, <2>5 DEF RealInv, Starting, Preparing
<1>3. CASE WorkerFails
  <2>1. /\ queue' = <<>>
        /\ UNCHANGED <<pc, feedback, answers, mode, stale, ran, quiet>>
    BY <1>3 DEF WorkerFails, owner, heard, motors
  <2>2. Positions(queue') = {} BY <2>1 DEF Positions
  <2>3. ReportsAreReal => ReportsAreReal'
    BY <2>1, <2>2 DEF ReportsAreReal, SaysRun, Fresh, ZeroQueued
  <2>4. (NothingRunsYet => NothingRunsYet') /\ ZerosFirst'
    BY <2>1, <2>2 DEF NothingRunsYet, Kinds, ZerosFirst
  <2> QED BY <2>1, <2>3, <2>4 DEF RealInv, Starting, Preparing
<1>4. CASE Receive BY <1>4, RealReceive
<1>5. ASSUME NEW m \in Motors, Supervise(m) \/ PublishRecovery(m) \/ PublishMotion(m)
      PROVE  RealInv'
  <2>1. gate /\ UNCHANGED <<pc, feedback>>
    BY <1>5 DEF Supervise, PublishRecovery, PublishMotion, owner, heard
  <2> QED BY <2>1 DEF GateInv, RealInv, Starting, Preparing
<1>6. ASSUME NEW m \in Motors, WatchdogExpires(m)
      PROVE  RealInv'
  <2> DEFINE a == Report(m, mode'[m])
  <2>1. /\ mode' = [mode EXCEPT ![m] = "reset"] /\ Answer(a)
        /\ UNCHANGED <<pc, feedback, queue, stale, ran, quiet>>
    BY <1>6 DEF WatchdogExpires, Feedback, owner, heard, transport, stopping
  <2>2. a \in Answers /\ ~a.stale /\ a.mode = "reset"
    BY <1>0, <2>1 DEF Report, Answers, Modes
  <2>3. a.mode # "run" BY <2>2
  <2>4. \A k \in Motors : ZeroQueued(k)' => ZeroQueued(k) BY <2>1 DEF ZeroQueued
  <2>5. ReportsAreReal => ReportsAreReal'
    BY <1>0, <2>1, <2>2, <2>3, <2>4, ReportsAppended
  <2>6. NothingRunsYet => NothingRunsYet'
    <3>1. \A i \in Positions(answers') :
            (i \in Positions(answers) /\ answers'[i] = answers[i]) \/ answers'[i] = a
      BY <1>0, <2>1, <2>2 DEF Answer, Positions
    <3> QED BY <2>1, <2>3, <3>1 DEF NothingRunsYet
  <2>7. ZerosFirst => ZerosFirst' BY <2>1 DEF ZerosFirst
  <2>8. \A k \in Motors : mode'[k] = "run" => mode[k] = "run" BY <1>0, <2>1
  <2> QED BY <2>1, <2>5, <2>6, <2>7, <2>8 DEF RealInv, Starting, Preparing
<1>7. ASSUME NEW m \in Motors, PowerCycle(m)
      PROVE  RealInv'
  <2>1. /\ mode' = [mode EXCEPT ![m] = "reset"]
        /\ UNCHANGED <<pc, feedback, queue, answers, stale, ran, quiet>>
    BY <1>7 DEF PowerCycle, owner, heard, transport, stopping
  <2>2. \A k \in Motors : mode'[k] = "run" => mode[k] = "run" BY <1>0, <2>1
  <2>3. /\ NothingRunsYet => NothingRunsYet'
        /\ (ZerosFirst => ZerosFirst') /\ (ReportsAreReal => ReportsAreReal')
    BY <2>1 DEF NothingRunsYet, ZerosFirst, ReportsAreReal, SaysRun, Fresh, ZeroQueued
  <2> QED BY <2>1, <2>2, <2>3 DEF RealInv, Starting, Preparing
<1> QED BY <1>1, <1>2, <1>3, <1>4, <1>5, <1>6, <1>7

LEMMA RealStep ==
  ASSUME SafeInv, RealInv, [Next]_vars PROVE RealInv'
<1>1. CASE UNCHANGED vars
  BY <1>1 DEF RealInv, Starting, Preparing, NothingRunsYet, ZerosFirst,
     ReportsAreReal, SaysRun, Fresh, ZeroQueued, Kinds,
     vars, owner, heard, transport, motors, stopping
<1>2. CASE Next
  BY <1>2, RealOwner, RealOther DEF Next, SafeInv
<1> QED BY <1>1, <1>2

\* Hardware that becomes active after a start that nothing preceded on its way has seen
\* every motor run, with no zero outstanding: for any number of motors, attempts, lost
\* frames and late answers.
THEOREM ActivationsAreReal == Spec => ActivationIsReal
<1> DEFINE RInv == SafeInv /\ RealInv
<1>1. Init => RInv BY SafeInit, RealInit
<1>2. RInv /\ [Next]_vars => RInv'
  BY SafeStep, RealStep
<1>3. RInv /\ [Next]_vars => [Activates /\ quiet => ran = Motors /\ stale = {}]_vars
  <2> SUFFICES ASSUME SafeInv, RealInv, Next, Activates, quiet
               PROVE  ran = Motors /\ stale = {}
    BY DEF vars
  <2>1. Activate
    <3>1. CASE Lifecycle
      <4>1. CASE \/ Open \/ Start \/ ClearJoint \/ WriteParameter \/ WatchdogConfirmed
                 \/ JointConfirmed \/ EnableAll \/ Retry \/ StartFails
        BY <4>1 DEF Activates, Open, Start, ClearJoint, WriteParameter, WatchdogConfirmed,
           JointConfirmed, EnableAll, Retry, StartFails
      <4>2. CASE \/ Leave \/ ShutDown \/ CleanUp \/ DisableActiveCommands \/ SendStops
                 \/ StopEnds \/ Close
        <5>1. after # "active" BY TypeParts DEF SafeInv
        <5> QED BY <4>2, <5>1 DEF Activates, Leave, ShutDown, CleanUp,
                DisableActiveCommands, SendStops, StopEnds, Close
      <4> QED BY <3>1, <4>1, <4>2 DEF Lifecycle
    <3>2. CASE Publish \/ PublishLost \/ WorkerFails \/ Receive
      BY <3>2 DEF Publish, PublishLost, WorkerFails, Receive, Activates, owner
    <3>3. ASSUME NEW m \in Motors,
                 \/ Supervise(m) \/ PublishRecovery(m) \/ PublishMotion(m)
                 \/ WatchdogExpires(m) \/ PowerCycle(m)
          PROVE  FALSE
      BY <3>3 DEF Supervise, PublishRecovery, PublishMotion, WatchdogExpires, PowerCycle,
         Activates, owner
    <3> QED BY <3>1, <3>2, <3>3 DEF Next
  <2>2. \A m \in Motors : SaysRun(m) /\ pc = "confirm_enable"
    BY <2>1 DEF Activate, Reported, SaysRun
  <2>3. pc = "confirm_enable" BY <2>1 DEF Activate
  <2>4. ReportsAreReal BY <2>3 DEF RealInv, Starting
  <2>5. \A m \in Motors : m \in ran /\ m \notin stale
    BY <2>2, <2>4 DEF ReportsAreReal, Fresh
  <2>6. ran \subseteq Motors /\ stale \subseteq Motors
    BY TypeParts, OtherTypes DEF SafeInv
  <2> QED BY <2>5, <2>6
<1> QED BY <1>1, <1>2, <1>3, PTL DEF Spec, ActivationIsReal

-----------------------------------------------------------------------------
(* The promise of MotorLifecycle.                                           *)

\* A stop knows what follows it.
AfterInv == pc \in {"disable", "stop", "confirm_stop"} => after # "closed"

PromiseInv ==
  /\ SafeInv
  /\ StopIsFinal
  /\ ConfirmedInv
  /\ RealInv
  /\ AfterInv

LEMMA AfterStep ==
  ASSUME TypeInv, AfterInv, Next PROVE AfterInv'
<1>1. CASE Lifecycle
  <2>1. CASE \/ Open \/ Start \/ ClearJoint \/ WriteParameter \/ WatchdogConfirmed
             \/ JointConfirmed \/ EnableAll \/ Activate \/ Retry
    BY <2>1 DEF AfterInv, Open, Start, ClearJoint, WriteParameter, WatchdogConfirmed,
       JointConfirmed, EnableAll, Activate, Retry
  <2>2. CASE StartFails \/ Leave \/ ShutDown \/ CleanUp \/ DisableActiveCommands
             \/ SendStops
    BY <2>2 DEF AfterInv, StartFails, Leave, ShutDown, CleanUp, DisableActiveCommands,
       SendStops
  <2>3. CASE StopEnds \/ Close
    BY <2>3, TypeParts DEF AfterInv, StopEnds, Close
  <2> QED BY <1>1, <2>1, <2>2, <2>3 DEF Lifecycle
<1>2. CASE Publish \/ PublishLost \/ WorkerFails \/ Receive
  BY <1>2 DEF AfterInv, Publish, PublishLost, WorkerFails, Receive, owner
<1>3. ASSUME NEW m \in Motors,
             \/ Supervise(m) \/ PublishRecovery(m) \/ PublishMotion(m)
             \/ WatchdogExpires(m) \/ PowerCycle(m)
      PROVE  AfterInv'
  BY <1>3 DEF AfterInv, Supervise, PublishRecovery, PublishMotion, WatchdogExpires,
     PowerCycle, owner
<1> QED BY <1>1, <1>2, <1>3 DEF Next

-----------------------------------------------------------------------------
(* What the steps leave of it.                                              *)

\* In a call of start frames, answers and attempts make no difference.
LEMMA StartingStutters ==
  ASSUME TypeInv, Starting, Starting',
         UNCHANGED <<motors, ran, quiet>>
  PROVE  UNCHANGED Promise!vars
<1>1. Phase = "starting" /\ Phase' = "starting" /\ ~Stopping /\ ~Stopping'
  BY DEF Phase, Starting, Preparing, Stopping
<1>2. UNCHANGED <<Running, Configured>>
  BY DEF Running, Configured, motors
<1>3. UNCHANGED <<Phase, RanInStart, StoppedForGood, CleanStart, CleanlyConfirmed>>
  BY <1>1 DEF RanInStart, StoppedForGood, CleanStart, CleanlyConfirmed
<1> QED BY <1>2, <1>3 DEF Promise!vars, motors

\* The motors, as far as they do not change.
LEMMA MotorsKept ==
  ASSUME UNCHANGED motors
  PROVE  UNCHANGED <<Running, Configured, restarted>>
BY DEF motors, Running, Configured

\* The motors stopped for good remain so while no enable frame is queued.
LEMMA StoppedKept ==
  ASSUME Stopping <=> Stopping', told' = told,
         Stopping => \A m \in Motors : EnableQueued(m)' <=> EnableQueued(m),
         told \subseteq Motors
  PROVE  StoppedForGood' = StoppedForGood
BY DEF StoppedForGood

\* Hardware that stays in its phase.
LEMMA PhaseKept ==
  ASSUME UNCHANGED <<pc, quiet, stop_confirmed>>
  PROVE  /\ UNCHANGED <<Phase, CleanStart, CleanlyConfirmed>>
         /\ Stopping' <=> Stopping
<1>1. Phase' = Phase BY DEF Phase
<1>2. Stopping' <=> Stopping BY DEF Stopping
<1> QED BY <1>1, <1>2 DEF CleanStart, CleanlyConfirmed

\* Stop frames do not enable.
LEMMA StopsEnableNothing ==
  ASSUME TypeInv, Send(ForAll("motion", "stop")), NEW m \in Motors
  PROVE  EnableQueued(m)' <=> EnableQueued(m)
<1> DEFINE frames == ForAll("motion", "stop")
<1>1. queue \in Seq(Frames) /\ frames \in Seq(Frames)
  BY TypeParts, ForAllIsTyped
<1>2. \A i \in Positions(frames) : frames[i].kind # "enable"
  <2>1. \A i \in Positions(frames) : frames[i].kind \in {"motion", "stop"}
    BY ForAllIsTyped
  <2> QED BY <2>1
<1>3. CASE queue' = queue
  BY <1>3 DEF EnableQueued
<1>4. CASE queue' = queue \o frames
  <2>1. \A i \in Positions(queue') :
           \/ \E k \in Positions(queue) : queue'[i] = queue[k]
           \/ \E k \in Positions(frames) : queue'[i] = frames[k]
    BY <1>1, <1>4, Concatenation
  <2>2. EnableQueued(m)' => EnableQueued(m)
    BY <1>2, <2>1 DEF EnableQueued, Positions
  <2>3. \A k \in Positions(queue) : k \in Positions(queue') /\ queue'[k] = queue[k]
    BY <1>1, <1>4 DEF Positions
  <2>4. EnableQueued(m) => EnableQueued(m)'
    BY <2>3 DEF EnableQueued, Positions
  <2> QED BY <2>2, <2>4
<1> QED BY <1>3, <1>4 DEF Send

LEMMA InitIsPromised ==
  ASSUME Init PROVE Promise!Init
<1>1. Phase = "closed" /\ Running = {} /\ Configured = {}
  BY DEF Init, Phase, Running, Configured, Indices
<1>2. RanInStart = {} /\ StoppedForGood = {}
  BY <1>1 DEF Init, RanInStart, StoppedForGood
<1>3. CleanStart = FALSE /\ CleanlyConfirmed = FALSE
  BY <1>1 DEF Init, CleanStart, CleanlyConfirmed
<1>4. restarted = {} BY DEF Init
<1> QED BY <1>1, <1>2, <1>3, <1>4 DEF Promise!Init

\* The owner.
LEMMA OwnerKeepsPromise ==
  ASSUME PromiseInv, PromiseInv', settings' = settings, Lifecycle
  PROVE  [Promise!Next]_(Promise!vars)
<1> USE TypeParts, OtherTypes
<1>0. TypeInv BY DEF PromiseInv, SafeInv
<1>1. CASE Open \/ CleanUp \/ Close
  <2>1. UNCHANGED <<queue, motors, ran, told, quiet, stop_confirmed>>
    BY <1>1 DEF Open, CleanUp, Close, transport, stopping
  <2>2. /\ \/ Open /\ Phase = "closed" /\ Phase' = "inactive"
           \/ CleanUp /\ Phase = "inactive" /\ Phase' = "closing"
           \/ Close /\ Phase = "closing" /\ Phase' = "closed"
        /\ Stopping /\ Stopping'
    BY <1>1 DEF Open, CleanUp, Close, Phase, Stopping
  <2>3. UNCHANGED <<Running, Configured, restarted, RanInStart, CleanStart,
                    CleanlyConfirmed>>
    BY <2>1, <2>2, MotorsKept DEF RanInStart, CleanStart, CleanlyConfirmed
  <2>4. UNCHANGED StoppedForGood
    BY <1>0, <2>1, <2>2, StoppedKept DEF EnableQueued
  <2> QED BY <2>2, <2>3, <2>4
      DEF Promise!Next, Promise!Open, Promise!CleanUp, Promise!Close, Promise!Move
<1>2. CASE Start
  <2>1. /\ UNCHANGED <<mode, parameters>> /\ ran' = Running
        /\ Phase = "inactive" /\ Phase' = "starting" /\ ~Stopping'
        /\ quiet' = NothingOnItsWay
        /\ restarted' = IF NothingOnItsWay THEN {m \in restarted : mode[m] = "run"}
                                           ELSE restarted
    BY <1>2 DEF Start, Running, Phase, Stopping
  <2>2. RanInStart' = Running /\ StoppedForGood' = {}
    BY <2>1 DEF RanInStart, StoppedForGood
  <2>3. CleanStart' \in BOOLEAN
    BY DEF CleanStart
  <2>4. CleanlyConfirmed' = FALSE
    BY <2>1 DEF CleanlyConfirmed
  <2>5. UNCHANGED <<Running, Configured>>
    BY <2>1 DEF Running, Configured
  <2>6. /\ restarted' \in {restarted, restarted \cap Running}
        /\ restarted' # restarted => CleanStart'
    <3>1. {m \in restarted : mode[m] = "run"} = restarted \cap Running
      BY <1>0 DEF Running
    <3>2. NothingOnItsWay => CleanStart'
      BY <2>1 DEF CleanStart
    <3> QED BY <2>1, <3>1, <3>2
  <2>7. Promise!Start
    BY <2>1, <2>2, <2>3, <2>4, <2>5, <2>6 DEF Promise!Start
  <2> QED BY <2>7 DEF Promise!Next
<1>3. CASE \/ ClearJoint \/ WriteParameter \/ WatchdogConfirmed \/ JointConfirmed
           \/ EnableAll \/ Retry
  <2>1. Starting /\ Starting' /\ UNCHANGED <<motors, ran, quiet>>
    BY <1>3 DEF ClearJoint, WriteParameter, WatchdogConfirmed, JointConfirmed, EnableAll,
       Retry, Unconfirmed, Starting, Preparing, stopping
  <2> QED BY <1>0, <2>1, StartingStutters
<1>4. CASE Activate
  <2>1. /\ pc = "confirm_enable" /\ pc' = "active" /\ UNCHANGED motors
        /\ \A m \in Motors : SaysRun(m)
    BY <1>4 DEF Activate, Reported, SaysRun
  <2>2. Phase = "starting" /\ Phase' = "active" /\ ~Stopping /\ ~Stopping'
    BY <2>1 DEF Phase, Stopping
  <2>3. Configured \cup restarted = Motors
    BY <1>0, <2>1 DEF PromiseInv, SafeInv, ConfiguredInv, ConfiguredSoFar, AllConfigured,
       Powered, Configured
  <2>4. CleanStart => RanInStart = Motors
    <3>1. quiet => ReportsAreReal
      BY <2>1 DEF PromiseInv, RealInv, Starting
    <3>2. quiet => Motors \subseteq ran
      BY <2>1, <3>1 DEF ReportsAreReal, Fresh
    <3> QED BY <1>0, <2>2, <3>2 DEF CleanStart, RanInStart
  <2>5. RanInStart' = {} /\ CleanStart' = FALSE
    BY <2>2 DEF RanInStart, CleanStart
  <2>6. UNCHANGED <<StoppedForGood, CleanlyConfirmed>>
    BY <2>2 DEF StoppedForGood, CleanlyConfirmed
  <2>7. Promise!Activate
    BY <2>1, <2>2, <2>3, <2>4, <2>5, <2>6, MotorsKept DEF Promise!Activate
  <2> QED BY <2>7 DEF Promise!Next
\* The stop begins, or begins once more.
<1>5. CASE StartFails \/ Leave \/ ShutDown \/ (StopEnds /\ after = "error")
  <2>1. /\ pc' = "disable" /\ UNCHANGED motors
        /\ pc \in {"confirm", "confirm_enable", "active", "inactive", "confirm_stop"}
    BY <1>5 DEF StartFails, Unconfirmed, Leave, ShutDown, StopEnds
  <2>2. /\ Phase' = "stopping" /\ ~Stopping'
        /\ Phase \in {"inactive", "starting", "active", "stopping"}
    BY <2>1 DEF Phase, Stopping
  <2>3. RanInStart' = {} /\ StoppedForGood' = {}
    BY <2>2 DEF RanInStart, StoppedForGood
  <2>4. CleanStart' = FALSE /\ CleanlyConfirmed' = FALSE
    BY <2>2 DEF CleanStart, CleanlyConfirmed
  <2>5. Promise!Stop
    BY <2>1, <2>2, <2>3, <2>4, MotorsKept DEF Promise!Stop
  <2> QED BY <2>5 DEF Promise!Next
<1>6. CASE DisableActiveCommands
  <2>1. /\ pc = "disable" /\ pc' = "stop" /\ UNCHANGED motors
        /\ told' = {} /\ stop_confirmed' = FALSE
    BY <1>6 DEF DisableActiveCommands
  <2>2. Phase = "stopping" /\ Phase' = "stopping" /\ ~Stopping
    BY <2>1 DEF Phase, Stopping
  <2>3. UNCHANGED <<RanInStart, StoppedForGood, CleanStart, CleanlyConfirmed>>
    BY <2>1, <2>2 DEF RanInStart, StoppedForGood, CleanStart, CleanlyConfirmed
  <2> QED BY <2>1, <2>2, <2>3, MotorsKept DEF Promise!vars
<1>7. CASE SendStops
  <2>1. /\ pc = "stop" /\ pc' \in {"stop", "confirm_stop"}
        /\ Send(ForAll("motion", "stop"))
        /\ UNCHANGED <<motors, told, quiet, stop_confirmed>>
    BY <1>7 DEF SendStops, stopping
  <2>2. Phase = "stopping" /\ Phase' = "stopping" /\ Stopping /\ Stopping'
    BY <2>1 DEF Phase, Stopping
  <2>3. UNCHANGED <<RanInStart, CleanStart, CleanlyConfirmed>>
    BY <2>1, <2>2 DEF RanInStart, CleanStart, CleanlyConfirmed
  <2>4. UNCHANGED StoppedForGood
    BY <1>0, <2>1, <2>2, StopsEnableNothing, StoppedKept
  <2> QED BY <2>1, <2>2, <2>3, <2>4, MotorsKept DEF Promise!vars
<1>8. CASE StopEnds /\ after # "error"
  <2>1. /\ pc = "confirm_stop" /\ pc' \in {"inactive", "close"}
        /\ UNCHANGED <<motors, told, quiet, queue>>
    BY <1>0, <1>8 DEF StopEnds, PromiseInv, AfterInv, transport
  <2>2. /\ Phase = "stopping" /\ Phase' \in {"inactive", "closing"}
        /\ Stopping /\ Stopping'
    BY <2>1 DEF Phase, Stopping
  <2>3. UNCHANGED <<RanInStart, CleanStart>>
    BY <2>2 DEF RanInStart, CleanStart
  <2>4. UNCHANGED StoppedForGood
    BY <1>0, <2>1, <2>2, StoppedKept DEF EnableQueued
  <2>5. CleanlyConfirmed' \in BOOLEAN
    BY DEF CleanlyConfirmed
  <2>6. CleanlyConfirmed' => Running' = {}
    BY DEF CleanlyConfirmed, PromiseInv, ConfirmedInv, ConfirmedStopIsReal, Running
  <2>7. CleanlyConfirmed' => Running = {}
    BY <2>1, <2>6, MotorsKept
  <2>8. Promise!StopEnds
    BY <2>1, <2>2, <2>3, <2>4, <2>5, <2>7, MotorsKept DEF Promise!StopEnds
  <2> QED BY <2>8 DEF Promise!Next
<1> QED BY <1>1, <1>2, <1>3, <1>4, <1>5, <1>6, <1>7, <1>8 DEF Lifecycle

-----------------------------------------------------------------------------
\* What was queued to enable a motor is at the head of the queue, or still queued.
LEMMA EnablesAhead ==
  ASSUME TypeInv, queue # <<>>, queue' = Tail(queue), NEW m \in Motors
  PROVE  EnableQueued(m) <=> EnableQueued(m)' \/ IsOf(Head(queue), "enable", m)
<1>0. queue \in Seq(Frames) BY TypeParts
<1>1. /\ Head(queue) = queue[1] /\ 1 \in Positions(queue)
      /\ \A i \in Positions(queue') : i + 1 \in Positions(queue) /\ queue'[i] = queue[i + 1]
  <2>1. /\ Head(queue) = queue[1] /\ 1 \in Positions(queue)
        /\ \A i \in Positions(Tail(queue)) :
             i + 1 \in Positions(queue) /\ Tail(queue)[i] = queue[i + 1]
    BY <1>0, Rest
  <2> QED BY <2>1
<1>2. EnableQueued(m)' => EnableQueued(m)
  BY <1>1 DEF EnableQueued, Positions
<1>3. IsOf(Head(queue), "enable", m) => EnableQueued(m)
  BY <1>1 DEF EnableQueued, IsOf, Positions
<1>4. ASSUME EnableQueued(m), ~IsOf(Head(queue), "enable", m)
      PROVE  EnableQueued(m)'
  <2>1. PICK i \in Positions(queue) : queue[i].kind = "enable" /\ queue[i].motor = m
    BY <1>4 DEF EnableQueued, Positions
  <2>2. i # 1 BY <1>1, <1>4, <2>1 DEF IsOf
  <2>3. i - 1 \in Positions(queue') /\ queue'[i - 1] = queue[i]
    BY <1>1, <2>2, TypeParts DEF Positions
  <2> QED BY <2>1, <2>3 DEF EnableQueued, Positions
<1> QED BY <1>2, <1>3, <1>4

\* A motor runs, and no stop has kept it from that.
LEMMA RunsAsPromised ==
  ASSUME PromiseInv, PromiseInv', NEW m \in Motors,
         UNCHANGED <<pc, parameters, restarted, quiet, stop_confirmed>>,
         mode' = [mode EXCEPT ![m] = "run"],
         ran' = IF InStart THEN ran \cup {m} ELSE ran,
         m \notin StoppedForGood, StoppedForGood' = StoppedForGood
  PROVE  Promise!Next
<1> USE TypeParts, OtherTypes
<1>0. TypeInv BY DEF PromiseInv, SafeInv
<1>1. UNCHANGED <<Phase, Configured, CleanStart, CleanlyConfirmed>>
  BY PhaseKept DEF Configured
<1>2. Running' = Running \cup {m}
  BY <1>0 DEF Running
<1>3. mode'[m] = "run"
  BY <1>0
<1>4. m \in Configured \cup restarted
  <2>1. m \notin restarted => parameters'[m] = Indices
    BY <1>3 DEF PromiseInv, SafeInv, ConfiguredInv, RunningMotorsAreConfigured
  <2> QED BY <2>1 DEF Configured
<1>5. ~CleanlyConfirmed
  <2>1. ~CleanlyConfirmed'
    BY <1>3 DEF CleanlyConfirmed, PromiseInv, ConfirmedInv, ConfirmedStopIsReal
  <2> QED BY <1>1, <2>1
<1>6. RanInStart' = IF Phase = "starting" THEN RanInStart \cup {m} ELSE RanInStart
  <2>1. Phase = "starting" <=> InStart BY <1>0 DEF Phase, InStart
  <2> QED BY <1>1, <2>1 DEF RanInStart
<1>7. Promise!Run(m)
  BY <1>1, <1>2, <1>4, <1>5, <1>6 DEF Promise!Run
<1> QED BY <1>7 DEF Promise!Next

\* A motor rests, and nothing is known of what else may reach it.
LEMMA RestsAsPromised ==
  ASSUME PromiseInv, NEW m \in Motors,
         UNCHANGED <<pc, parameters, restarted, ran, quiet, stop_confirmed>>,
         mode' = [mode EXCEPT ![m] = "reset"], StoppedForGood' = StoppedForGood
  PROVE  Promise!Next
<1> USE TypeParts, OtherTypes
<1>0. TypeInv BY DEF PromiseInv, SafeInv
<1>1. UNCHANGED <<Phase, Configured, CleanStart, CleanlyConfirmed>>
  BY PhaseKept DEF Configured
<1>2. Running' = Running \ {m}
  BY <1>0 DEF Running
<1>3. RanInStart' = RanInStart
  BY <1>1 DEF RanInStart
<1>4. Promise!Rest(m)
  BY <1>1, <1>2, <1>3 DEF Promise!Rest
<1> QED BY <1>4 DEF Promise!Next

\* Motors that rest have nothing left behind them that enables them.
LEMMA StopsAsPromised ==
  ASSUME PromiseInv, NEW some \in SUBSET Motors, Stopping,
         UNCHANGED <<pc, parameters, restarted, ran, quiet, stop_confirmed>>,
         Running' = Running \ some, StoppedForGood' = StoppedForGood \cup some
  PROVE  Promise!Next
<1> USE TypeParts
<1>0. TypeInv BY DEF PromiseInv, SafeInv
<1>1. UNCHANGED <<Phase, Configured, CleanStart, CleanlyConfirmed>>
  BY PhaseKept DEF Configured
<1>2. RanInStart' = RanInStart
  BY <1>1 DEF RanInStart
<1>3. Phase \in {"stopping", "inactive", "closing", "closed"}
  BY DEF Stopping, Phase
<1>4. Promise!StopForGood(some)
  BY <1>1, <1>2, <1>3 DEF Promise!StopForGood
<1> QED BY <1>4 DEF Promise!Next

\* The same without a stop frame: what would have enabled them is lost.
LEMMA LossesStop ==
  ASSUME PromiseInv, UNCHANGED <<pc, motors, ran, told, quiet, stop_confirmed>>,
         \A m \in Motors : EnableQueued(m)' => EnableQueued(m)
  PROVE  [Promise!Next]_(Promise!vars)
<1> USE TypeParts
<1>0. TypeInv BY DEF PromiseInv, SafeInv
<1>1. UNCHANGED <<Phase, Running, Configured, restarted, CleanStart, CleanlyConfirmed>>
      /\ UNCHANGED <<mode, parameters>> /\ (Stopping' <=> Stopping)
  BY PhaseKept, MotorsKept DEF motors
<1>2. CASE ~Stopping
  <2>1. UNCHANGED <<RanInStart, StoppedForGood>>
    BY <1>1, <1>2 DEF RanInStart, StoppedForGood
  <2> QED BY <1>1, <2>1 DEF Promise!vars
<1>3. CASE Stopping
  <2> DEFINE some == {m \in told : ~EnableQueued(m)'}
  <2>1. PICK lucky \in SUBSET Motors : lucky = some
    BY <1>0
  <2>2. StoppedForGood' = StoppedForGood \cup lucky
    BY <1>0, <1>1, <1>3, <2>1 DEF StoppedForGood
  <2>3. Running' = Running \ lucky
    BY <1>1, <1>3, <2>1, <1>0 DEF PromiseInv, StopIsFinal, Running
  <2> QED BY <1>1, <1>3, <2>2, <2>3, StopsAsPromised
<1> QED BY <1>2, <1>3

-----------------------------------------------------------------------------
LEMMA PublishKeepsPromise ==
  ASSUME PromiseInv, PromiseInv', Publish
  PROVE  [Promise!Next]_(Promise!vars)
<1> USE TypeParts, OtherTypes
<1> DEFINE f == Head(queue)
<1>0. TypeInv BY DEF PromiseInv, SafeInv
<1>1. PICK m \in Motors : m = f.motor
  BY <1>0, RestOfQueueIsTyped DEF Publish, Frames
<1>2. /\ f \in Frames /\ Handle(f) /\ UNCHANGED <<pc, restarted, quiet, stop_confirmed>>
      /\ \A k \in Motors : EnableQueued(k) <=> EnableQueued(k)' \/ IsOf(f, "enable", k)
  BY <1>0, RestOfQueueIsTyped, EnablesAhead DEF Publish, owner
<1>3. Stopping' <=> Stopping
  BY <1>2 DEF Stopping
<1>4. CASE f.kind = "enable"
  <2>1. /\ mode' = [mode EXCEPT ![m] = "run"]
        /\ ran' = IF InStart THEN ran \cup {m} ELSE ran
        /\ parameters' = parameters /\ told' = told \ {m}
    BY <1>1, <1>2, <1>4 DEF Handle, Enabled
  <2>2. /\ EnableQueued(m)
        /\ \A k \in Motors : k # m => (EnableQueued(k) <=> EnableQueued(k)')
    BY <1>1, <1>2, <1>4 DEF IsOf
  <2>3. m \notin StoppedForGood
    BY <2>2 DEF StoppedForGood
  <2>4. StoppedForGood' = StoppedForGood
    BY <1>0, <1>3, <2>1, <2>2 DEF StoppedForGood
  <2>5. Promise!Next BY <1>2, <2>1, <2>3, <2>4, RunsAsPromised
  <2> QED BY <2>5
<1>5. CASE f.kind # "enable"
  <2>1. \A k \in Motors : EnableQueued(k)' <=> EnableQueued(k)
    BY <1>2, <1>5 DEF IsOf
  <2>2. CASE f.kind = "stop"
    <3>1. /\ mode' = [mode EXCEPT ![m] = "reset"] /\ told' = told \cup {m}
          /\ UNCHANGED <<parameters, ran>>
      BY <1>1, <1>2, <2>2 DEF Handle
    <3>2. CASE Stopping /\ ~EnableQueued(m)
      <4>1. StoppedForGood' = StoppedForGood \cup {m}
        BY <1>0, <1>3, <2>1, <3>1, <3>2 DEF StoppedForGood
      <4>2. Running' = Running \ {m}
        BY <1>0, <3>1 DEF Running
      <4>3. {m} \in SUBSET Motors OBVIOUS
      <4> QED BY <1>2, <3>1, <3>2, <4>1, <4>2, <4>3, StopsAsPromised
    <3>3. CASE ~Stopping \/ EnableQueued(m)
      <4>1. StoppedForGood' = StoppedForGood
        BY <1>0, <1>3, <2>1, <3>1, <3>3 DEF StoppedForGood
      <4> QED BY <1>2, <3>1, <4>1, RestsAsPromised
    <3> QED BY <3>2, <3>3
  <2>3. CASE f.kind # "stop"
    <3>1. told' = told
      BY <1>2, <1>5, <2>3 DEF Handle
    <3>2. StoppedForGood' = StoppedForGood
      BY <1>0, <1>3, <2>1, <3>1, StoppedKept
    <3>3. CASE f.kind = "clear"
      <4>1. mode' = [mode EXCEPT ![m] = "reset"] /\ UNCHANGED <<parameters, ran>>
        BY <1>1, <1>2, <3>3 DEF Handle
      <4> QED BY <1>2, <3>2, <4>1, RestsAsPromised
    <3>4. CASE f.kind = "write"
      <4>1. /\ parameters' = [parameters EXCEPT ![m] = @ \cup {f.index}]
            /\ UNCHANGED <<mode, ran>>
        BY <1>1, <1>2, <3>4 DEF Handle
      <4>2. f.index \in Indices
        BY <1>0, <3>4, RestOfQueueIsTyped DEF Publish
      <4>3. Configured' = Configured \/ Configured' = Configured \cup {m}
        BY <1>0, <4>1, <4>2 DEF Configured
      <4>4. UNCHANGED <<Phase, Running, RanInStart, CleanStart, CleanlyConfirmed>>
        BY <1>2, <4>1, PhaseKept DEF Running, RanInStart
      <4>5. CASE Configured' = Configured
        BY <1>2, <3>2, <4>4, <4>5 DEF Promise!vars
      <4>6. CASE Configured' = Configured \cup {m}
        BY <1>2, <3>2, <4>4, <4>6 DEF Promise!Configure, Promise!Next
      <4> QED BY <4>3, <4>5, <4>6
    <3>5. CASE f.kind \in {"read", "zero", "motion"}
      <4>1. UNCHANGED <<motors, ran>>
        BY <1>2, <3>5 DEF Handle, motors
      <4>2. UNCHANGED <<Phase, Running, Configured, RanInStart, CleanStart, CleanlyConfirmed>>
        BY <1>2, <4>1, PhaseKept, MotorsKept DEF RanInStart
      <4> QED BY <1>2, <3>2, <4>2 DEF Promise!vars
    <3> QED BY <1>2, <1>5, <2>3, <3>3, <3>4, <3>5 DEF Frames
  <2> QED BY <2>2, <2>3
<1> QED BY <1>4, <1>5

\* The worker, the executor and the motors.
LEMMA OthersKeepPromise ==
  ASSUME PromiseInv, PromiseInv', settings' = settings,
         \/ Publish \/ PublishLost \/ WorkerFails \/ Receive
         \/ \E m \in Motors :
              \/ Supervise(m) \/ PublishRecovery(m) \/ PublishMotion(m)
              \/ WatchdogExpires(m) \/ PowerCycle(m)
  PROVE  [Promise!Next]_(Promise!vars)
<1> USE TypeParts, OtherTypes
<1>0. TypeInv BY DEF PromiseInv, SafeInv
<1>1. CASE Publish BY <1>1, PublishKeepsPromise
<1>2. CASE PublishLost
  <2>1. UNCHANGED <<pc, motors, ran, told, quiet, stop_confirmed>>
    BY <1>2 DEF PublishLost, owner
  <2>2. \A m \in Motors : EnableQueued(m)' => EnableQueued(m)
    BY <1>0, <1>2, EnablesAhead DEF PublishLost
  <2> QED BY <2>1, <2>2, LossesStop
<1>3. CASE WorkerFails
  <2>1. UNCHANGED <<pc, motors, ran, told, quiet, stop_confirmed>>
    BY <1>3 DEF WorkerFails, owner
  <2>2. \A m \in Motors : ~EnableQueued(m)'
    BY <1>3 DEF WorkerFails, EnableQueued
  <2> QED BY <2>1, <2>2, LossesStop
<1>4. CASE Receive \/ \E m \in Motors : Supervise(m) \/ PublishMotion(m)
  <2>1. UNCHANGED <<pc, queue, motors, ran, told, quiet, stop_confirmed>>
    BY <1>4 DEF Receive, Supervise, PublishMotion, owner, transport, stopping
  <2>2. \A m \in Motors : EnableQueued(m)' <=> EnableQueued(m)
    BY <2>1 DEF EnableQueued
  <2> QED BY <2>1, <2>2, LossesStop
<1>5. ASSUME NEW m \in Motors, PublishRecovery(m)
      PROVE  Promise!Next
  <2>1. /\ gate /\ mode' = [mode EXCEPT ![m] = "run"]
        /\ ran' = IF InStart THEN ran \cup {m} ELSE ran
        /\ UNCHANGED <<pc, parameters, restarted, quiet, stop_confirmed>>
    BY <1>5 DEF PublishRecovery, Enabled, owner, stopping
  <2>2. ~Stopping /\ ~Stopping'
    BY <2>1 DEF PromiseInv, SafeInv, GateInv, Stopping
  <2>3. m \notin StoppedForGood /\ StoppedForGood' = StoppedForGood
    BY <2>2 DEF StoppedForGood
  <2> QED BY <2>1, <2>3, RunsAsPromised
<1>6. ASSUME NEW m \in Motors, WatchdogExpires(m)
      PROVE  Promise!Next
  <2>1. /\ mode' = [mode EXCEPT ![m] = "reset"]
        /\ UNCHANGED <<pc, queue, parameters, restarted, ran, told, quiet, stop_confirmed>>
    BY <1>6 DEF WatchdogExpires, owner, transport, stopping
  <2>2. Stopping' <=> Stopping BY <2>1 DEF Stopping
  <2>3. StoppedForGood' = StoppedForGood
    BY <1>0, <2>1, <2>2, StoppedKept DEF EnableQueued
  <2> QED BY <2>1, <2>3, RestsAsPromised
<1>7. ASSUME NEW m \in Motors, PowerCycle(m)
      PROVE  Promise!Next
  <2>1. /\ mode' = [mode EXCEPT ![m] = "reset"]
        /\ parameters' = [parameters EXCEPT ![m] = {}]
        /\ restarted' = restarted \cup {m}
        /\ UNCHANGED <<pc, queue, ran, told, quiet, stop_confirmed>>
    BY <1>7 DEF PowerCycle, owner, transport, stopping
  <2>2. /\ Stopping' <=> Stopping
        /\ UNCHANGED <<Phase, CleanStart, CleanlyConfirmed>>
    BY <2>1, PhaseKept
  <2>3. StoppedForGood' = StoppedForGood
    BY <1>0, <2>1, <2>2, StoppedKept DEF EnableQueued
  <2>4. RanInStart' = RanInStart
    BY <2>1, <2>2 DEF RanInStart
  <2>5. Running' = Running \ {m}
    BY <1>0, <2>1 DEF Running
  <2>6. Configured' = Configured \ {m}
    BY <1>0, <2>1 DEF Configured, Indices
  <2> QED BY <2>1, <2>2, <2>3, <2>4, <2>5, <2>6 DEF Promise!PowerCycle, Promise!Next
<1> QED BY <1>1, <1>2, <1>3, <1>4, <1>5, <1>6, <1>7

LEMMA PromiseStep ==
  ASSUME PromiseInv, [Next]_vars PROVE PromiseInv'
<1>1. SafeInv' /\ ConfirmedInv' /\ RealInv'
  BY SafeStep, ConfirmedStep, RealStep DEF PromiseInv
<1>2. StopIsFinal'
  BY StopFinalStep DEF PromiseInv, SafeInv
<1>3. AfterInv'
  <2>1. CASE UNCHANGED vars
    BY <2>1 DEF PromiseInv, AfterInv, vars, owner
  <2>2. CASE Next
    BY <2>2, AfterStep DEF PromiseInv, SafeInv
  <2> QED BY <2>1, <2>2
<1> QED BY <1>1, <1>2, <1>3 DEF PromiseInv

\* Frame by frame, over a bus that loses and delays, with retries, late enable frames,
\* failures of the worker and power cycles, the driver keeps what MotorLifecycle
\* promises: for any number of motors, any settings and any bounds (driver.cpp).
THEOREM DriverKeepsItsPromise == Spec => ImplementsLifecycle
<1>1. Init => PromiseInv /\ Promise!Init
  <2> SUFFICES ASSUME Init PROVE PromiseInv /\ Promise!Init
    OBVIOUS
  <2>1. StopIsFinal /\ AfterInv
    BY DEF Init, StopIsFinal, AfterInv
  <2> QED BY <2>1, SafeInit, ConfirmedInit, RealInit, InitIsPromised DEF PromiseInv
<1>2. PromiseInv /\ [Next]_vars => PromiseInv'
  BY PromiseStep
<1>3. PromiseInv /\ [Next]_vars => [Promise!Next]_(Promise!vars)
  <2> SUFFICES ASSUME PromiseInv, [Next]_vars PROVE [Promise!Next]_(Promise!vars)
    OBVIOUS
  <2>1. PromiseInv' BY PromiseStep
  <2>2. CASE UNCHANGED vars
    <3>1. UNCHANGED <<pc, queue, motors, ran, told, quiet, stop_confirmed>>
      BY <2>2 DEF vars, owner, transport, stopping
    <3>2. \A m \in Motors : EnableQueued(m)' <=> EnableQueued(m)
      BY <3>1 DEF EnableQueued
    <3> QED BY <3>1, <3>2, LossesStop
  <2>3. CASE Next
    BY <2>1, <2>3, OwnerKeepsPromise, OthersKeepPromise DEF Next
  <2> QED BY <2>2, <2>3
<1> QED BY <1>1, <1>2, <1>3, PTL DEF Spec, ImplementsLifecycle, Promise!Spec

-----------------------------------------------------------------------------
(* Calls return: the steps that are left of a call.                         *)

\* One disable_all, and what follows it.
StopSteps == settings.stop_repetitions + 2
StepsToFollow ==
  CASE after = "error" -> StopSteps + 1 [] after = "close" -> 1 [] OTHER -> 0

\* A start that fails stops twice, and closes.
FailureSteps == 2 * StopSteps + 1

\* Each attempt sends and waits.
ConfirmationSteps == 2 * settings.startup_retries
AttemptSteps == 2 * (settings.startup_retries - attempt)
JointSteps == 2 * ConfirmationSteps + 1

StepsOfOthers == (MotorCount - joint) * JointSteps
StepsOfIndex == IF index = "can_timeout" THEN ConfirmationSteps ELSE 0
StepsBehindJoint == StepsOfOthers + ConfirmationSteps + FailureSteps

Remaining ==
  CASE pc = "clear" -> JointSteps + StepsBehindJoint
    [] pc = "write" -> AttemptSteps + 2 + StepsOfIndex + StepsBehindJoint
    [] pc = "confirm" -> AttemptSteps + 1 + StepsOfIndex + StepsBehindJoint
    [] pc = "enable" -> AttemptSteps + 2 + FailureSteps
    [] pc = "confirm_enable" -> AttemptSteps + 1 + FailureSteps
    [] pc = "disable" -> StopSteps + StepsToFollow
    [] pc = "stop" -> StopSteps - attempt + StepsToFollow
    [] pc = "confirm_stop" -> 1 + StepsToFollow
    [] pc = "close" -> 1
    [] OTHER -> 0

Budget == MotorCount * JointSteps + ConfirmationSteps + FailureSteps

\* An attempt that has not been confirmed is one of startup_retries.
AttemptInv ==
  pc \in {"write", "confirm", "enable", "confirm_enable"}
    => attempt <= settings.startup_retries

CallInv == TypeInv /\ AttemptInv

\* Every step of the owner leaves less of its call, and no other step adds to it.
CallsProceed ==
  InCall => IF Lifecycle THEN Remaining' < Remaining ELSE Remaining' = Remaining

-----------------------------------------------------------------------------
LEMMA Shares ==
  ASSUME NEW a \in Nat, NEW b \in Nat
  PROVE  /\ a * b \in Nat
         /\ a # 0 => (a - 1) * b = a * b - b
         /\ \A c \in Nat : c <= a => c * b <= a * b
<1>1. a * b \in Nat OBVIOUS
<1>2. a # 0 => (a - 1) * b = a * b - b OBVIOUS
<1>3. ASSUME NEW c \in Nat, c <= a PROVE c * b <= a * b
  <2>1. PICK d \in Nat : a = c + d
    <3>1. a - c \in Nat /\ a = c + (a - c) BY <1>3
    <3> QED BY <3>1
  <2>2. a * b = c * b + d * b BY <2>1
  <2>3. d * b \in Nat /\ c * b \in Nat OBVIOUS
  <2> QED BY <2>2, <2>3
<1> QED BY <1>1, <1>2, <1>3

\* The parts of what remains are numbers.
LEMMA StepsAreCounted ==
  ASSUME CallInv
  PROVE  /\ settings.startup_retries \in Nat \ {0} /\ settings.stop_repetitions \in Nat \ {0}
         /\ StopSteps \in Nat /\ StepsToFollow \in Nat
         /\ StepsToFollow <= StopSteps + 1
         /\ FailureSteps \in Nat /\ ConfirmationSteps \in Nat /\ JointSteps \in Nat
         /\ StepsOfOthers \in Nat
         /\ StepsOfOthers <= MotorCount * JointSteps - JointSteps
         /\ StepsOfIndex \in 0..ConfirmationSteps
         /\ AttemptSteps \in Int /\ AttemptSteps + 2 <= ConfirmationSteps
         /\ pc \in {"write", "confirm", "enable", "confirm_enable"} => AttemptSteps \in Nat
         /\ MotorCount * JointSteps \in Nat
<1> USE TypeParts DEF CallInv
<1>1. settings.startup_retries \in Nat \ {0} /\ settings.stop_repetitions \in Nat \ {0}
  BY SettingsAreTyped
<1>2. /\ StopSteps \in Nat /\ StepsToFollow \in Nat /\ StepsToFollow <= StopSteps + 1
      /\ FailureSteps \in Nat /\ ConfirmationSteps \in Nat /\ JointSteps \in Nat
      /\ StepsOfIndex \in 0..ConfirmationSteps
  <2>1. /\ StopSteps \in Nat /\ FailureSteps \in Nat /\ ConfirmationSteps \in Nat
        /\ JointSteps \in Nat
    <3>1. StopSteps \in Nat /\ ConfirmationSteps \in Nat
      BY <1>1 DEF StopSteps, ConfirmationSteps
    <3> QED BY <3>1 DEF FailureSteps, JointSteps
  <2>2. StepsToFollow \in {0, 1, StopSteps + 1}
    BY <2>1 DEF StepsToFollow
  <2>3. StepsOfIndex \in 0..ConfirmationSteps
    BY <2>1 DEF StepsOfIndex
  <2> QED BY <2>1, <2>2, <2>3
<1>3. /\ AttemptSteps \in Int /\ AttemptSteps + 2 <= ConfirmationSteps
      /\ pc \in {"write", "confirm", "enable", "confirm_enable"} => AttemptSteps \in Nat
  BY <1>1 DEF AttemptSteps, ConfirmationSteps, AttemptInv
<1>4. /\ StepsOfOthers \in Nat /\ MotorCount * JointSteps \in Nat
      /\ StepsOfOthers <= MotorCount * JointSteps - JointSteps
  <2>1. /\ MotorCount \in Nat \ {0} /\ joint \in 1..MotorCount
    BY MotorsExist DEF Motors
  <2>2. /\ MotorCount - joint \in Nat /\ MotorCount - 1 \in Nat
        /\ MotorCount - joint <= MotorCount - 1
    BY <2>1
  <2>3. /\ (MotorCount - joint) * JointSteps \in Nat
        /\ (MotorCount - joint) * JointSteps <= (MotorCount - 1) * JointSteps
    BY <1>2, <2>2, Shares
  <2>4. /\ MotorCount * JointSteps \in Nat
        /\ (MotorCount - 1) * JointSteps = MotorCount * JointSteps - JointSteps
    BY <1>2, <2>1, Shares
  <2> QED BY <2>3, <2>4 DEF StepsOfOthers
<1> QED BY <1>1, <1>2, <1>3, <1>4

LEMMA RemainingIsCounted ==
  ASSUME CallInv
  PROVE  Remaining \in 0..Budget /\ (Remaining = 0 <=> ~InCall)
<1> USE StepsAreCounted
<1>1. Budget \in Nat /\ Budget = MotorCount * JointSteps + ConfirmationSteps + FailureSteps
  BY DEF Budget
<1>2. StepsBehindJoint \in Nat /\ StepsBehindJoint + JointSteps <= Budget
  BY <1>1 DEF StepsBehindJoint
<1>3. JointSteps = 2 * ConfirmationSteps + 1 /\ FailureSteps = 2 * StopSteps + 1
  BY DEF JointSteps, FailureSteps
<1>4. CASE pc = "clear"
  <2>1. Remaining = JointSteps + StepsBehindJoint BY <1>4 DEF Remaining
  <2> QED BY <1>1, <1>2, <1>3, <1>4, <2>1 DEF InCall
<1>5. CASE pc \in {"write", "confirm"}
  <2>1. \/ Remaining = AttemptSteps + 2 + StepsOfIndex + StepsBehindJoint
        \/ Remaining = AttemptSteps + 1 + StepsOfIndex + StepsBehindJoint
    BY <1>5 DEF Remaining
  <2> QED BY <1>1, <1>2, <1>3, <1>5, <2>1 DEF InCall
<1>6. CASE pc \in {"enable", "confirm_enable"}
  <2>1. \/ Remaining = AttemptSteps + 2 + FailureSteps
        \/ Remaining = AttemptSteps + 1 + FailureSteps
    BY <1>6 DEF Remaining
  <2> QED BY <1>1, <1>6, <2>1 DEF InCall
<1>7. CASE pc \in {"disable", "stop", "confirm_stop"}
  <2>1. \/ Remaining = StopSteps + StepsToFollow
        \/ pc = "stop" /\ Remaining = StopSteps - attempt + StepsToFollow
        \/ Remaining = 1 + StepsToFollow
    BY <1>7 DEF Remaining
  <2>2. pc = "stop" => attempt \in 1..settings.stop_repetitions
    BY TypeParts DEF CallInv
  <2>3. StopSteps = settings.stop_repetitions + 2
    BY DEF StopSteps
  <2>4. Remaining \in Nat \ {0} /\ Remaining <= FailureSteps
    BY <1>3, <2>1, <2>2, <2>3
  <2> QED BY <1>1, <1>7, <2>4 DEF InCall
<1>8. CASE pc = "close"
  BY <1>1, <1>3, <1>8 DEF Remaining, InCall
<1>9. CASE pc \in {"closed", "inactive", "active"}
  BY <1>1, <1>9 DEF Remaining, InCall
<1> QED BY <1>4, <1>5, <1>6, <1>7, <1>8, <1>9, TypeParts DEF CallInv

LEMMA AttemptStep ==
  ASSUME CallInv, Next PROVE AttemptInv'
<1> USE TypeParts DEF CallInv
<1>0. settings' = settings /\ settings.startup_retries \in Nat \ {0}
  BY SettingsAreTyped DEF Next
<1>1. CASE Lifecycle
  <2>1. CASE Open \/ Start \/ ClearJoint \/ WriteParameter \/ WatchdogConfirmed
    BY <1>0, <2>1 DEF AttemptInv, Open, Start, ClearJoint, WriteParameter, WatchdogConfirmed
  <2>2. CASE JointConfirmed \/ EnableAll \/ Activate \/ Retry \/ StartFails
    BY <1>0, <2>2 DEF AttemptInv, JointConfirmed, EnableAll, Activate, Retry, StartFails
  <2>3. CASE Leave \/ ShutDown \/ CleanUp \/ DisableActiveCommands \/ SendStops
    BY <1>0, <2>3 DEF AttemptInv, Leave, ShutDown, CleanUp, DisableActiveCommands, SendStops
  <2>4. CASE StopEnds \/ Close
    BY <1>0, <2>4 DEF AttemptInv, StopEnds, Close
  <2> QED BY <1>1, <2>1, <2>2, <2>3, <2>4 DEF Lifecycle
<1>2. CASE Publish \/ PublishLost \/ WorkerFails \/ Receive
  BY <1>0, <1>2 DEF AttemptInv, Publish, PublishLost, WorkerFails, Receive, owner
<1>3. ASSUME NEW m \in Motors,
             \/ Supervise(m) \/ PublishRecovery(m) \/ PublishMotion(m)
             \/ WatchdogExpires(m) \/ PowerCycle(m)
      PROVE  AttemptInv'
  BY <1>0, <1>3 DEF AttemptInv, Supervise, PublishRecovery, PublishMotion, WatchdogExpires,
     PowerCycle, owner
<1> QED BY <1>1, <1>2, <1>3 DEF Next

LEMMA OwnerProceeds ==
  ASSUME CallInv, CallInv', settings' = settings, Lifecycle, InCall
  PROVE  Remaining' < Remaining
<1> USE StepsAreCounted
<1>0. TypeInv BY DEF CallInv
<1>1. /\ UNCHANGED <<StopSteps, FailureSteps, ConfirmationSteps, JointSteps>>
      /\ JointSteps = 2 * ConfirmationSteps + 1 /\ FailureSteps = 2 * StopSteps + 1
      /\ StopSteps = settings.stop_repetitions + 2
  BY DEF StopSteps, FailureSteps, ConfirmationSteps, JointSteps
<1>2. /\ joint' = joint => UNCHANGED StepsOfOthers
      /\ index' = index => UNCHANGED StepsOfIndex
      /\ attempt' = attempt => UNCHANGED AttemptSteps
      /\ attempt' = 1 => AttemptSteps' + 2 = ConfirmationSteps
      /\ attempt' = attempt + 1 => AttemptSteps' + 2 = AttemptSteps
  <2>1. attempt \in Nat /\ attempt' \in Nat
    BY TypeParts DEF CallInv, TypeInv, TypeOK
  <2> QED BY <1>1, <2>1 DEF StepsOfOthers, StepsOfIndex, AttemptSteps, ConfirmationSteps
<1>3. joint' = joint => StepsBehindJoint' = StepsBehindJoint
  BY <1>1, <1>2 DEF StepsBehindJoint
<1>4. StepsBehindJoint \in Nat
  BY DEF StepsBehindJoint
<1>5. CASE ClearJoint
  <2>1. /\ pc = "clear" /\ pc' = "write" /\ joint' = joint /\ attempt' = 1
        /\ index' = "can_timeout"
    BY <1>5 DEF ClearJoint, FirstIndex
  <2>2. StepsOfIndex' = ConfirmationSteps
    BY <1>1, <2>1 DEF StepsOfIndex
  <2>3. /\ Remaining = JointSteps + StepsBehindJoint
        /\ Remaining' = AttemptSteps' + 2 + StepsOfIndex' + StepsBehindJoint'
    BY <2>1 DEF Remaining
  <2> QED BY <1>1, <1>2, <1>3, <1>4, <2>1, <2>2, <2>3
<1>6. CASE WriteParameter
  <2>1. pc = "write" /\ pc' = "confirm" /\ UNCHANGED <<joint, index, attempt>>
    BY <1>6 DEF WriteParameter
  <2>2. /\ Remaining = AttemptSteps + 2 + StepsOfIndex + StepsBehindJoint
        /\ Remaining' = AttemptSteps' + 1 + StepsOfIndex' + StepsBehindJoint'
    BY <2>1 DEF Remaining
  <2> QED BY <1>2, <1>3, <1>4, <2>1, <2>2
<1>7. CASE WatchdogConfirmed
  <2>1. /\ pc = "confirm" /\ index = "can_timeout" /\ joint' = joint
        /\ pc' = "write" /\ index' = "run_mode" /\ attempt' = 1
    BY <1>7 DEF WatchdogConfirmed
  <2>2. StepsOfIndex = ConfirmationSteps /\ StepsOfIndex' = 0
    BY <2>1 DEF StepsOfIndex
  <2>3. /\ Remaining = AttemptSteps + 1 + StepsOfIndex + StepsBehindJoint
        /\ Remaining' = AttemptSteps' + 2 + StepsOfIndex' + StepsBehindJoint'
    BY <2>1 DEF Remaining
  <2> QED BY <1>2, <1>3, <1>4, <2>1, <2>2, <2>3
<1>8. CASE JointConfirmed
  <2>1. /\ pc = "confirm" /\ index = "run_mode" /\ attempt' = 1
        /\ \/ joint < MotorCount /\ pc' = "clear" /\ joint' = joint + 1
           \/ joint' = 1 /\ pc' = "enable"
    BY <1>8 DEF JointConfirmed
  <2>2. StepsOfIndex = 0
    BY <2>1 DEF StepsOfIndex
  <2>3. Remaining = AttemptSteps + 1 + StepsBehindJoint
    BY <2>1, <2>2 DEF Remaining
  <2>4. CASE joint < MotorCount /\ pc' = "clear" /\ joint' = joint + 1
    <3>0. MotorCount \in Nat /\ joint \in Nat
      BY <1>0, TypeParts, MotorsExist
    <3>1. MotorCount - joint \in Nat \ {0}
      BY <2>4, <3>0
    <3>2. (MotorCount - joint - 1) * JointSteps = (MotorCount - joint) * JointSteps - JointSteps
      BY <3>1, Shares
    <3>3. MotorCount - joint' = MotorCount - joint - 1
      BY <2>4, <3>0
    <3>4. StepsOfOthers' = StepsOfOthers - JointSteps
      BY <1>1, <3>2, <3>3 DEF StepsOfOthers
    <3>5. StepsBehindJoint' = StepsBehindJoint - JointSteps
      BY <1>1, <3>4 DEF StepsBehindJoint
    <3>6. Remaining' = JointSteps' + StepsBehindJoint'
      BY <2>4 DEF Remaining
    <3> QED BY <1>1, <1>4, <2>1, <2>3, <3>5, <3>6
  <2>5. CASE joint' = 1 /\ pc' = "enable"
    <3>1. Remaining' = AttemptSteps' + 2 + FailureSteps'
      BY <2>5 DEF Remaining
    <3>2. StepsBehindJoint >= ConfirmationSteps + FailureSteps
      BY DEF StepsBehindJoint
    <3> QED BY <1>1, <1>2, <1>4, <2>1, <2>3, <3>1, <3>2
  <2> QED BY <2>1, <2>4, <2>5
<1>9. CASE EnableAll
  <2>1. pc = "enable" /\ pc' = "confirm_enable" /\ attempt' = attempt
    BY <1>9 DEF EnableAll
  <2>2. /\ Remaining = AttemptSteps + 2 + FailureSteps
        /\ Remaining' = AttemptSteps' + 1 + FailureSteps'
    BY <2>1 DEF Remaining
  <2> QED BY <1>1, <1>2, <2>1, <2>2
<1>10. CASE Activate
  <2>1. pc' = "active" BY <1>10 DEF Activate
  <2> QED BY <2>1, RemainingIsCounted DEF InCall, Remaining
<1>11. CASE Retry
  <2>1. /\ \/ pc = "confirm" /\ pc' = "write"
           \/ pc = "confirm_enable" /\ pc' = "enable"
        /\ attempt' = attempt + 1 /\ UNCHANGED <<joint, index>>
    BY <1>11 DEF Retry, Unconfirmed
  <2>2. CASE pc = "confirm"
    <3>1. /\ Remaining = AttemptSteps + 1 + StepsOfIndex + StepsBehindJoint
          /\ Remaining' = AttemptSteps' + 2 + StepsOfIndex' + StepsBehindJoint'
      BY <2>1, <2>2 DEF Remaining
    <3> QED BY <1>2, <1>3, <1>4, <2>1, <3>1
  <2>3. CASE pc = "confirm_enable"
    <3>1. /\ Remaining = AttemptSteps + 1 + FailureSteps
          /\ Remaining' = AttemptSteps' + 2 + FailureSteps'
      BY <2>1, <2>3 DEF Remaining
    <3> QED BY <1>1, <1>2, <2>1, <3>1
  <2> QED BY <2>1, <2>2, <2>3
<1>12. CASE StartFails
  <2>1. pc \in {"confirm", "confirm_enable"} /\ pc' = "disable" /\ after' = "error"
    BY <1>12 DEF StartFails, Unconfirmed
  <2>2. Remaining' = FailureSteps
    <3>1. Remaining' = StopSteps' + StepsToFollow' BY <2>1 DEF Remaining
    <3>2. StepsToFollow' = StopSteps' + 1 BY <2>1 DEF StepsToFollow
    <3> QED BY <1>1, <3>1, <3>2
  <2>3. AttemptSteps \in Nat BY <2>1
  <2>4. Remaining > FailureSteps
    <3>1. \/ Remaining = AttemptSteps + 1 + FailureSteps
          \/ Remaining = AttemptSteps + 1 + StepsOfIndex + StepsBehindJoint
      BY <2>1 DEF Remaining
    <3>2. StepsBehindJoint >= FailureSteps
      BY DEF StepsBehindJoint
    <3> QED BY <2>3, <3>1, <3>2, <1>4
  <2> QED BY <2>2, <2>4
<1>13. CASE DisableActiveCommands
  <2>1. pc = "disable" /\ pc' = "stop" /\ attempt' = 1 /\ after' = after
    BY <1>13 DEF DisableActiveCommands
  <2>2. StepsToFollow' = StepsToFollow
    BY <1>1, <2>1 DEF StepsToFollow
  <2>3. /\ Remaining = StopSteps + StepsToFollow
        /\ Remaining' = StopSteps' - attempt' + StepsToFollow'
    BY <2>1 DEF Remaining
  <2> QED BY <1>1, <2>1, <2>2, <2>3
<1>14. CASE SendStops
  <2>1. /\ pc = "stop" /\ after' = after
        /\ \/ attempt = settings.stop_repetitions /\ pc' = "confirm_stop"
           \/ pc' = "stop" /\ attempt' = attempt + 1
    BY <1>14 DEF SendStops, LastRepetition
  <2>2. StepsToFollow' = StepsToFollow
    BY <1>1, <2>1 DEF StepsToFollow
  <2>3. attempt \in 1..settings.stop_repetitions
    BY <1>0, <2>1, TypeParts
  <2>4. Remaining = StopSteps - attempt + StepsToFollow
    BY <2>1 DEF Remaining
  <2>5. CASE pc' = "confirm_stop" /\ attempt = settings.stop_repetitions
    <3>1. Remaining' = 1 + StepsToFollow' BY <2>5 DEF Remaining
    <3> QED BY <1>1, <2>2, <2>3, <2>4, <2>5, <3>1
  <2>6. CASE pc' = "stop" /\ attempt' = attempt + 1
    <3>1. Remaining' = StopSteps' - attempt' + StepsToFollow' BY <2>6 DEF Remaining
    <3> QED BY <1>1, <2>2, <2>3, <2>4, <2>6, <3>1
  <2> QED BY <2>1, <2>5, <2>6
<1>15. CASE StopEnds
  <2>1. pc = "confirm_stop" BY <1>15 DEF StopEnds
  <2>2. Remaining = 1 + StepsToFollow BY <2>1 DEF Remaining
  <2>3. CASE after = "error"
    <3>1. pc' = "disable" /\ after' = "close" BY <1>15, <2>3 DEF StopEnds
    <3>2. Remaining' = StopSteps' + StepsToFollow' BY <3>1 DEF Remaining
    <3>3. StepsToFollow' = 1 /\ StepsToFollow = StopSteps + 1
      BY <2>3, <3>1 DEF StepsToFollow
    <3> QED BY <1>1, <2>2, <3>2, <3>3
  <2>4. CASE after # "error"
    <3>1. pc' = after /\ after \in {"closed", "inactive", "close"}
      BY <1>0, <1>15, <2>4, TypeParts DEF StopEnds
    <3>2. after = "close" => StepsToFollow = 1 /\ Remaining' = 1
      BY <3>1 DEF StepsToFollow, Remaining
    <3>3. after # "close" => Remaining' = 0
      BY <3>1 DEF Remaining
    <3> QED BY <2>2, <3>2, <3>3
  <2> QED BY <2>3, <2>4
<1>16. CASE Close
  BY <1>16 DEF Close, Remaining
<1>17. CASE Open \/ Start \/ Leave \/ ShutDown \/ CleanUp
  BY <1>17 DEF Open, Start, Leave, ShutDown, CleanUp, InCall
<1> QED BY <1>5, <1>6, <1>7, <1>8, <1>9, <1>10, <1>11, <1>12, <1>13, <1>14, <1>15, <1>16,
    <1>17 DEF Lifecycle

LEMMA CallStep ==
  ASSUME CallInv, [Next]_vars PROVE CallInv'
<1>1. TypeInv' BY TypeStep DEF CallInv
<1>2. CASE UNCHANGED vars
  BY <1>1, <1>2 DEF CallInv, AttemptInv, vars, owner
<1>3. CASE Next
  BY <1>1, <1>3, AttemptStep DEF CallInv
<1> QED BY <1>2, <1>3

LEMMA CallInit == ASSUME Init PROVE CallInv
BY TypeInit DEF Init, CallInv, AttemptInv

\* A call of start or stop has a bounded number of steps: at any moment no more are left
\* than Budget, which depends on the joints, startup_retries and stop_repetitions only, and
\* none exactly when no call is under way; an attempt is never beyond startup_retries, at
\* which a wait would end neither in a retry nor in a failure (driver.cpp:128-168, 640-684).
THEOREM CallsHaveABudget ==
  Spec => [](Remaining \in 0..Budget /\ (Remaining = 0 <=> ~InCall) /\ AttemptInv)
<1>1. Init => CallInv BY CallInit
<1>2. CallInv /\ [Next]_vars => CallInv' BY CallStep
<1>3. CallInv => Remaining \in 0..Budget /\ (Remaining = 0 <=> ~InCall) /\ AttemptInv
  BY RemainingIsCounted DEF CallInv
<1> QED BY <1>1, <1>2, <1>3, PTL DEF Spec

\* Every step of the owner in a call leaves fewer, and whatever the worker, the executor
\* and the motors do leaves as many: a call ends after at most Budget steps of its own.
THEOREM CallsComeToAnEnd == Spec => [][CallsProceed]_vars
<1>1. Init => CallInv BY CallInit
<1>2. CallInv /\ [Next]_vars => CallInv' BY CallStep
<1>3. CallInv /\ [Next]_vars => [CallsProceed]_vars
  <2> SUFFICES ASSUME CallInv, Next, InCall, ~Lifecycle PROVE Remaining' = Remaining
    <3>1. ASSUME CallInv, Next, InCall, Lifecycle PROVE Remaining' < Remaining
      BY <3>1, CallStep, OwnerProceeds DEF Next
    <3> QED BY <3>1 DEF CallsProceed
  <2>1. UNCHANGED <<settings, owner>>
    <3>1. CASE Publish \/ PublishLost \/ WorkerFails \/ Receive
      BY <3>1 DEF Next, Publish, PublishLost, WorkerFails, Receive
    <3>2. ASSUME NEW m \in Motors,
                 \/ Supervise(m) \/ PublishRecovery(m) \/ PublishMotion(m)
                 \/ WatchdogExpires(m) \/ PowerCycle(m)
          PROVE  UNCHANGED <<settings, owner>>
      BY <3>2 DEF Next, Supervise, PublishRecovery, PublishMotion, WatchdogExpires,
         PowerCycle
    <3> QED BY <3>1, <3>2 DEF Next
  <2> QED BY <2>1 DEF owner, Remaining, StepsBehindJoint, StepsOfOthers, StepsOfIndex,
      AttemptSteps, ConfirmationSteps, JointSteps, FailureSteps, StepsToFollow, StopSteps
<1> QED BY <1>1, <1>2, <1>3, PTL DEF Spec
=============================================================================
