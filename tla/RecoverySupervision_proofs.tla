--------------------- MODULE RecoverySupervision_proofs ---------------------
(* Proofs about RecoverySupervision, for any number of motors, any settings *)
(* and any length of time.                                                  *)
EXTENDS RecoverySupervision, WellFoundedInduction, TLAPS

-----------------------------------------------------------------------------
(* Recoveries.                                                              *)

Supervising == phase \in {"read", "write", "check", "done"}
Checked == phase \in {"write", "check", "done"}

\* A recovery that is not active has made no attempt; its clock is the one of
\* the history, and the transport knows of it.
EpisodesInv ==
  /\ \A m \in Motors : ~recovery[m].active => recovery[m].attempts = 0
  /\ Supervising => \A m \in Motors :
       /\ recovery_active[m] <=> recovery[m].active
       /\ recovery[m].active <=> out_since[m] # 0
       /\ recovery[m].active => recovery[m].started_at = out_since[m]
  /\ phase = "stopped" => \A m \in Motors : ~recovery_active[m]

\* The clocks of a recovery.
RetriesInv ==
  \A m \in Motors :
    /\ recovery[m].started_at <= now
    /\ recovery[m].last_attempt_at <= now

\* Since the last read an attempt was made, or one was not yet due.
AttemptsInv ==
  Checked => \A m \in Motors :
    recovery[m].active => now - recovery[m].last_attempt_at < RetryInterval

-----------------------------------------------------------------------------
(* Clocks of the transport.                                                 *)

\* The clock of a loss starts after the last delivery.
LossInv ==
  /\ publishing => bridge_available
  /\ bridge_available => unavailable_since = 0
  /\ ~bridge_available => last_delivery <= unavailable_since

\* What is stopped has nothing to do; who is not working holds nothing.
WorkerInv ==
  /\ publishing => working
  /\ ~working => batch["recovery"] = {} /\ batch["motion"] = {}
  /\ phase = "stopped" => /\ ~working /\ progress = 0
                          /\ pending["recovery"] = {} /\ pending["motion"] = {}

\* The stall clock is not older than the last attempt of a motor whose enable
\* frame was dealt with.
ProgressInv ==
  ~publishing /\ progress # 0 => \A m \in Motors :
    recovery_active[m] /\ m \notin pending["recovery"] \cup batch["recovery"]
      => recovery[m].last_attempt_at <= progress

\* An idle worker's clock runs for motion only that is held.
IdleInv ==
  phase \in {"check", "done"} /\ ~working /\ progress # 0 =>
    \/ pending["recovery"] # {}
    \/ pending["motion"] # {}

\* Outside the publisher the clock is at most a RetryInterval old.
StallInv ==
  /\ ~publishing /\ progress # 0 => now - progress <= RetryInterval
  /\ publishing /\ progress # 0 => entered - progress <= RetryInterval

-----------------------------------------------------------------------------
(* Types.                                                                   *)

LEMMA SettingsTypes ==
  /\ MotorCount \in Nat \ {0} /\ MaxTime \in Nat \ {0}
  /\ RecoveryTimeout \in Nat \ {0} /\ RetryInterval \in Nat \ {0}
  /\ TransmitTimeout \in Nat \ {0} /\ FeedbackTimeout \in Nat \ {0}
  BY SettingsAssumption

LEMMA TypeInit == Init => TypeOK
<1> SUFFICES ASSUME Init PROVE TypeOK
  OBVIOUS
<1>1. recovery \in [Motors -> Recoveries]
  BY DEF Init, Idle, Recoveries
<1>2. pending \in [Kinds -> SUBSET Motors] /\ batch \in [Kinds -> SUBSET Motors]
  BY DEF Init, NoFrames
<1>3. recovery_active \in [Motors -> BOOLEAN] /\ mode \in [Motors -> {"run", "reset"}]
  BY DEF Init
<1>4. working \in BOOLEAN /\ publishing \in BOOLEAN /\ bridge_available \in BOOLEAN
  BY Zenon DEF Init
<1> QED BY <1>1, <1>2, <1>3, <1>4, SettingsTypes DEF Init, TypeOK, Phases, Errors

LEMMA HealthErrors == HealthError \in {"none", "bridge_unavailable", "transmit_stalled"}
  BY DEF HealthError

LEMMA ReadErrors == ReadError \in {"none", "feedback_timeout", "recovery_failed"}
  BY DEF ReadError

\* What an update makes of a recovery.
LEMMA UpdatedCases ==
  ASSUME TypeOK, NEW m \in Motors
  PROVE  /\ Updated(m) \in Recoveries
         /\ mode[m] = "run" => Updated(m) = Idle
         /\ mode[m] # "run" =>
              LET r == Begun(recovery[m]) IN
              /\ Updated(m).active
              /\ Updated(m).started_at = r.started_at
              /\ Action(m) = "send_enable" => /\ Updated(m).attempts = r.attempts + 1
                                              /\ Updated(m).last_attempt_at = now
              /\ Action(m) # "send_enable" => Updated(m) = r
         /\ Begun(recovery[m]) \in Recoveries
<1> DEFINE r == Begun(recovery[m])
<1>0. now \in Nat
  BY SettingsTypes DEF TypeOK
<1>1. r \in Recoveries /\ r.active
  <2>1. recovery[m] \in Recoveries
    BY DEF TypeOK
  <2>2. [recovery[m] EXCEPT !.active = TRUE, !.started_at = now] \in Recoveries
    BY <1>0, <2>1 DEF Recoveries
  <2> QED BY <2>1, <2>2 DEF Begun, Recoveries
<1>2. CASE mode[m] = "run"
  BY <1>1, <1>2 DEF Updated, Idle, Recoveries
<1>3. CASE mode[m] # "run" /\ Action(m) = "send_enable"
  <2>1. Updated(m) = [r EXCEPT !.attempts = r.attempts + 1, !.last_attempt_at = now]
    BY <1>3 DEF Updated
  <2>2. /\ Updated(m) \in Recoveries
        /\ Updated(m).active /\ Updated(m).started_at = r.started_at
        /\ Updated(m).attempts = r.attempts + 1 /\ Updated(m).last_attempt_at = now
    <3> HIDE DEF r
    <3>1. r.attempts + 1 \in Nat
      BY <1>1 DEF Recoveries
    <3>2. /\ Updated(m).active = r.active /\ Updated(m).started_at = r.started_at
          /\ Updated(m).attempts = r.attempts + 1 /\ Updated(m).last_attempt_at = now
      BY <1>1, <2>1 DEF Recoveries
    <3>3. Updated(m) \in Recoveries
      BY <1>0, <1>1, <2>1, <3>1, Zenon DEF Recoveries
    <3> QED BY <1>1, <3>2, <3>3
  <2> QED BY <1>1, <1>3, <2>2
<1>4. CASE mode[m] # "run" /\ Action(m) # "send_enable"
  <2>1. Updated(m) = r
    BY <1>4 DEF Updated
  <2> QED BY <1>1, <1>4, <2>1
<1> QED BY <1>2, <1>3, <1>4

\* What an update does.
LEMMA ActionCases ==
  ASSUME NEW m \in Motors
  PROVE  LET r == Begun(recovery[m]) IN
         /\ mode[m] = "run" => Action(m) \in {"recovered", "none"}
         /\ mode[m] = "run" => (Action(m) = "recovered" <=> recovery[m].active)
         /\ mode[m] # "run" => Action(m) \in {"failed", "send_enable", "none"}
         /\ mode[m] # "run" => (Action(m) = "failed" <=> Expired(r))
         /\ mode[m] # "run" =>
              (Action(m) = "send_enable" <=> ~Expired(r) /\ Due(r))
  BY DEF Action

LEMMA TypeStep == TypeOK /\ [Next]_vars => TypeOK'
<1> SUFFICES ASSUME TypeOK, [Next]_vars PROVE TypeOK'
  OBVIOUS
<1> USE SettingsTypes DEF TypeOK
<1>1. CASE ReadSupervises
  <2>1. recovery' \in [Motors -> Recoveries]
    BY <1>1, UpdatedCases DEF ReadSupervises
  <2>2. pending' \in [Kinds -> SUBSET Motors] /\ recovery_active' \in [Motors -> BOOLEAN]
    BY <1>1 DEF ReadSupervises, ApplyRecoveryUpdates, Enabling, Supervised, Kinds
  <2>3. progress' \in 0..now
    BY <1>1 DEF ReadSupervises, ApplyRecoveryUpdates, Stamped
  <2>4. out_since' \in [Motors -> 0..now]
    BY <1>1 DEF ReadSupervises
  <2>5. error' \in Errors /\ phase' \in Phases
    BY <1>1, ReadErrors DEF ReadSupervises, Errors, Phases
  <2> QED BY <1>1, <2>1, <2>2, <2>3, <2>4, <2>5
          DEF ReadSupervises, feedback, worker, endpoint
<1>2. CASE HealthCheckFails
  BY <1>2, HealthErrors DEF HealthCheckFails, Errors, Phases, feedback, worker, endpoint
<1>3. CASE WriteQueues
  BY <1>3 DEF WriteQueues, Phases, Kinds, Stamped, driver, feedback, worker, endpoint
<1>4. CASE WriteSucceeds
  BY <1>4 DEF WriteSucceeds, Phases, driver, feedback, worker, endpoint
<1>5. CASE Stop
  <2>1. working' \in BOOLEAN /\ publishing' \in BOOLEAN
    BY <1>5, Zenon DEF Stop
  <2>2. recovery_active' \in [Motors -> BOOLEAN]
    BY <1>5 DEF Stop
  <2>3. pending' \in [Kinds -> SUBSET Motors] /\ batch' \in [Kinds -> SUBSET Motors]
    BY <1>5 DEF Stop, NoFrames
  <2> QED BY <1>5, <2>1, <2>2, <2>3 DEF Stop, Phases, driver, feedback, endpoint
<1>6. CASE Start
  BY <1>6 DEF Start, Phases, Errors, RecoveryAtStart, Idle, Recoveries, worker
<1>7. CASE WorkerExtract
  BY <1>7 DEF WorkerExtract, Kinds, driver, feedback, endpoint
<1>8. CASE WorkerSkips
  BY <1>8 DEF WorkerSkips, ProgressOfFrame, Kinds, driver, feedback, endpoint
<1>9. CASE WorkerPublishes
  BY <1>9 DEF WorkerPublishes, ProgressOfFrame, UnavailableSince, Kinds, driver, feedback
<1>10. CASE PublisherReturns
  <2>1. publishing' \in BOOLEAN
    BY <1>10, Zenon DEF PublisherReturns
  <2> QED BY <1>10, <2>1 DEF PublisherReturns, ProgressOfFrame, driver, feedback, endpoint
<1>11. CASE WorkerSettles
  <2>1. working' \in BOOLEAN
    BY <1>11, Zenon DEF WorkerSettles
  <2> QED BY <1>11, <2>1 DEF WorkerSettles, ProgressAfterBatch, driver, feedback, endpoint
<1>12. CASE \E m \in Motors : Feedback(m)
  BY <1>12 DEF Feedback, driver, worker, endpoint
<1>13. CASE Tick
  BY <1>13 DEF Tick, Phases, driver, feedback, worker, endpoint
<1>14. CASE UNCHANGED vars
  BY <1>14 DEF vars, driver, feedback, worker, endpoint
<1> QED BY <1>1, <1>2, <1>3, <1>4, <1>5, <1>6, <1>7, <1>8, <1>9, <1>10, <1>11,
           <1>12, <1>13, <1>14 DEF Next

\* Every variable keeps its type, and no clock is ahead of the time.
THEOREM TypeCorrect == Spec => []TypeOK
  BY TypeInit, TypeStep, PTL DEF Spec

-----------------------------------------------------------------------------
(* Reads.                                                                   *)

\* The loop over the joints stops at the first that fails: there is one.
LEMMA FirstFailing ==
  ASSUME NEW m \in Motors, Failing(m)
  PROVE  \E j \in Motors : Failing(j) /\ Reached(j)
<1> DEFINE failing == {j \in Motors : Failing(j)}
<1>1. failing \subseteq Nat /\ failing # {}
  BY SettingsTypes DEF Motors
<1>2. PICK j \in failing : \A i \in failing : ~(<<i, j>> \in OpToRel(<, Nat))
  BY <1>1, NatLessThanWellFounded, WFMin
<1>3. \A i \in failing : ~(i < j)
  BY <1>1, <1>2 DEF OpToRel
<1>4. Reached(j)
  BY <1>3, SettingsTypes DEF Reached, Motors
<1> QED BY <1>4

\* A read without an error has updated every joint, and none has failed.
LEMMA ReadSucceeds ==
  ASSUME ReadError = "none"
  PROVE  \A m \in Motors : m \in Supervised /\ Action(m) # "failed"
<1>1. ASSUME NEW m \in Motors, Failing(m) PROVE FALSE
  <2>1. PICK j \in Motors : Failing(j) /\ Reached(j)
    BY <1>1, FirstFailing
  <2>2. CASE Silent(j)
    BY <2>1, <2>2 DEF ReadError
  <2>3. CASE ~Silent(j)
    BY <2>1, <2>3 DEF ReadError, Supervised, Failing
  <2> QED BY <2>2, <2>3
<1>2. \A m \in Motors : Reached(m)
  BY <1>1, SettingsTypes DEF Reached, Motors
<1> QED BY <1>1, <1>2 DEF Supervised, Failing

\* What a read leaves of a recovery.
LEMMA ReadRecoveries ==
  ASSUME TypeOK, ReadSupervises, NEW m \in Motors
  PROVE  recovery'[m] \in {Updated(m), recovery[m]}
  BY DEF ReadSupervises

-----------------------------------------------------------------------------
(* Retries.                                                                 *)

LEMMA RetriesInit == Init => RetriesInv /\ RetriesKeepTheirDistance
  BY SettingsTypes DEF Init, RetriesInv, RetriesKeepTheirDistance, Idle

LEMMA Multiples ==
  ASSUME NEW a \in Int, NEW r \in Int
  PROVE  (a + 1 - 1) * r = (a - 1) * r + r /\ (0 + 1 - 1) * r = 0
  BY SMT

\* One update keeps the distance of the attempts.
LEMMA UpdateKeepsDistance ==
  ASSUME TypeOK, EpisodesInv, RetriesInv, RetriesKeepTheirDistance, NEW m \in Motors
  PROVE  /\ Updated(m).started_at <= now /\ Updated(m).last_attempt_at <= now
         /\ Updated(m).attempts > 0 =>
              /\ (Updated(m).attempts - 1) * RetryInterval
                   <= Updated(m).last_attempt_at - Updated(m).started_at
              /\ Updated(m).last_attempt_at - Updated(m).started_at < RecoveryTimeout
<1> DEFINE r == Begun(recovery[m])
<1>1. CASE mode[m] = "run"
  BY <1>1, UpdatedCases DEF Idle, TypeOK
<1>2. CASE mode[m] # "run" /\ Action(m) = "send_enable"
  <2>1. /\ Updated(m).attempts = r.attempts + 1 /\ Updated(m).last_attempt_at = now
        /\ Updated(m).started_at = r.started_at /\ r \in Recoveries
    BY <1>2, UpdatedCases
  <2>2. now - r.started_at < RecoveryTimeout
    BY <1>2, <2>1, ActionCases, SettingsTypes DEF Expired, TypeOK, Recoveries
  <2>3. r.attempts = recovery[m].attempts /\ r.last_attempt_at = recovery[m].last_attempt_at
    BY DEF Begun, TypeOK, Recoveries
  <2>4. r.started_at <= now
    BY DEF Begun, TypeOK, Recoveries, RetriesInv
  <2>5. (Updated(m).attempts - 1) * RetryInterval <= now - r.started_at
    <3>1. CASE r.attempts = 0
      <4>1. (Updated(m).attempts - 1) * RetryInterval = 0
        BY <2>1, <3>1, Multiples, SettingsTypes
      <4> QED BY <2>1, <2>4, <4>1 DEF TypeOK, Recoveries
    <3>2. CASE r.attempts # 0
      <4>1. now - r.last_attempt_at >= RetryInterval
        BY <1>2, <3>2, ActionCases DEF Due
      <4>2. recovery[m].active /\ r = recovery[m]
        BY <2>3, <3>2 DEF EpisodesInv, Begun
      <4>3. (r.attempts - 1) * RetryInterval <= r.last_attempt_at - r.started_at
        BY <2>1, <3>2, <4>2 DEF RetriesKeepTheirDistance, Recoveries
      <4>4. (Updated(m).attempts - 1) * RetryInterval
              = (r.attempts - 1) * RetryInterval + RetryInterval
        BY <2>1, Multiples, SettingsTypes DEF Recoveries
      <4>5. (r.attempts - 1) * RetryInterval \in Int
        BY <2>1, SettingsTypes DEF Recoveries
      <4> HIDE DEF r
      <4> QED BY <2>1, <4>1, <4>3, <4>4, <4>5, SettingsTypes DEF TypeOK, Recoveries
    <3> QED BY <3>1, <3>2
  <2> QED BY <2>1, <2>2, <2>4, <2>5 DEF TypeOK
<1>3. CASE mode[m] # "run" /\ Action(m) # "send_enable"
  <2>1. Updated(m) = r
    BY <1>3, UpdatedCases
  <2>2. CASE recovery[m].active
    BY <2>1, <2>2 DEF Begun, RetriesInv, RetriesKeepTheirDistance
  <2>3. CASE ~recovery[m].active
    <3>1. now \in Nat /\ recovery[m] \in Recoveries
      BY SettingsTypes DEF TypeOK
    <3>2. /\ r.started_at = now /\ r.attempts = 0
          /\ r.last_attempt_at = recovery[m].last_attempt_at
      BY <2>3, <3>1 DEF Begun, EpisodesInv, Recoveries
    <3> HIDE DEF r
    <3> QED BY <2>1, <3>1, <3>2 DEF RetriesInv
  <2> QED BY <2>2, <2>3
<1> QED BY <1>1, <1>2, <1>3

LEMMA RetriesStep ==
  TypeOK /\ EpisodesInv /\ RetriesInv /\ RetriesKeepTheirDistance /\ [Next]_vars
    => RetriesInv' /\ RetriesKeepTheirDistance'
<1> SUFFICES ASSUME TypeOK, EpisodesInv, RetriesInv, RetriesKeepTheirDistance,
                    [Next]_vars
             PROVE  RetriesInv' /\ RetriesKeepTheirDistance'
  OBVIOUS
<1> USE DEF RetriesInv, RetriesKeepTheirDistance
<1>1. ASSUME UNCHANGED <<now, recovery>> PROVE RetriesInv' /\ RetriesKeepTheirDistance'
  BY <1>1
<1>2. CASE ReadSupervises
  <2>1. UNCHANGED now
    BY <1>2 DEF ReadSupervises
  <2> SUFFICES ASSUME NEW m \in Motors
               PROVE  /\ recovery'[m].started_at <= now
                      /\ recovery'[m].last_attempt_at <= now
                      /\ recovery'[m].attempts > 0 =>
                           LET spread == recovery'[m].last_attempt_at
                                           - recovery'[m].started_at IN
                           /\ (recovery'[m].attempts - 1) * RetryInterval <= spread
                           /\ spread < RecoveryTimeout
    BY <2>1
  <2>2. CASE recovery'[m] = Updated(m)
    BY <2>2, UpdateKeepsDistance
  <2>3. CASE recovery'[m] = recovery[m]
    BY <2>3
  <2> QED BY <1>2, <2>2, <2>3, ReadRecoveries
<1>3. CASE Start
  BY <1>3, SettingsTypes DEF Start, RecoveryAtStart, Idle, TypeOK
<1>4. CASE Tick
  <2>1. now' = now + 1 /\ recovery' = recovery
    BY <1>4 DEF Tick, driver
  <2> QED BY <2>1, SettingsTypes DEF TypeOK, Recoveries
<1>5. CASE \/ HealthCheckFails \/ WriteQueues \/ WriteSucceeds \/ Stop
           \/ (\E m \in Motors : Feedback(m)) \/ UNCHANGED vars
  BY <1>1, <1>5 DEF HealthCheckFails, WriteQueues, WriteSucceeds, Stop, Feedback, vars, driver
<1>6. CASE WorkerExtract \/ WorkerSkips \/ WorkerPublishes \/ PublisherReturns \/ WorkerSettles
  BY <1>1, <1>6 DEF WorkerExtract, WorkerSkips, WorkerPublishes, PublisherReturns,
     WorkerSettles, driver
<1> QED BY <1>2, <1>3, <1>4, <1>5, <1>6 DEF Next

-----------------------------------------------------------------------------
(* Episodes.                                                                *)

LEMMA EpisodesInit == Init => EpisodesInv
  BY DEF Init, EpisodesInv, Supervising, Idle

\* The actions that neither read nor stop nor start.
Bystanders ==
  \/ WriteQueues \/ WriteSucceeds
  \/ WorkerExtract \/ WorkerSkips \/ WorkerPublishes \/ PublisherReturns \/ WorkerSettles
  \/ \E m \in Motors : Feedback(m)
  \/ Tick
  \/ UNCHANGED vars

LEMMA BystandersStand ==
  ASSUME Bystanders
  PROVE  /\ UNCHANGED <<recovery, recovery_active, error, out_since>>
         /\ now' = now \/ phase' \in {"read", "stopped"}
         /\ Supervising' <=> Supervising
         /\ Checked' => Checked
         /\ phase' = "stopped" <=> phase = "stopped"
         /\ phase' = "failing" <=> phase = "failing"
<1> USE DEF Supervising, Checked
<1>1. CASE WriteQueues \/ WriteSucceeds
  BY <1>1 DEF WriteQueues, WriteSucceeds, driver
<1>2. CASE WorkerExtract \/ WorkerSkips \/ WorkerPublishes \/ PublisherReturns \/ WorkerSettles
  BY <1>2 DEF WorkerExtract, WorkerSkips, WorkerPublishes, PublisherReturns, WorkerSettles, driver
<1>3. CASE (\E m \in Motors : Feedback(m)) \/ UNCHANGED vars
  BY <1>3 DEF Feedback, vars, driver
<1>4. CASE Tick
  BY <1>4 DEF Tick, driver
<1> QED BY <1>1, <1>2, <1>3, <1>4 DEF Bystanders

LEMMA EveryStep ==
  ASSUME [Next]_vars
  PROVE  ReadSupervises \/ HealthCheckFails \/ Stop \/ Start \/ Bystanders
  BY DEF Next, Bystanders

\* What a read without an error leaves of one motor.
LEMMA ReadMotor ==
  ASSUME TypeOK, EpisodesInv, ReadSupervises, ReadError = "none", NEW m \in Motors
  PROVE  /\ recovery'[m] = Updated(m)
         /\ recovery_active'[m] <=> recovery'[m].active
         /\ recovery'[m].active <=> out_since'[m] # 0
         /\ recovery'[m].active =>
              /\ recovery'[m].started_at = out_since'[m]
              /\ now - recovery'[m].started_at < RecoveryTimeout
              /\ now - recovery'[m].last_attempt_at < RetryInterval
<1> DEFINE r == Begun(recovery[m])
<1>1. m \in Supervised /\ Action(m) # "failed"
  BY ReadSucceeds
<1>2. recovery'[m] = Updated(m)
  BY <1>1 DEF ReadSupervises
<1>3. recovery_active'[m] <=> (m \in Enabling \/ (recovery_active[m] /\ m \notin Recovered))
  BY DEF ReadSupervises, ApplyRecoveryUpdates
<1>4. out_since'[m] = IF mode[m] = "run" THEN 0
                      ELSE IF out_since[m] = 0 THEN now ELSE out_since[m]
  BY DEF ReadSupervises
<1>5. /\ recovery_active[m] <=> recovery[m].active
      /\ recovery[m].active <=> out_since[m] # 0
      /\ recovery[m].active => recovery[m].started_at = out_since[m]
      /\ ~recovery[m].active => recovery[m].attempts = 0
  BY DEF EpisodesInv, Supervising, ReadSupervises
<1>6. now \in Nat \ {0} /\ out_since[m] \in Nat /\ recovery[m] \in Recoveries
  BY SettingsTypes DEF TypeOK
<1>7. CASE mode[m] = "run"
  <2>1. Updated(m) = Idle /\ ~Updated(m).active
    BY <1>7, UpdatedCases DEF Idle
  <2>2. m \notin Enabling
    BY <1>7, ActionCases DEF Enabling
  <2>3. recovery[m].active => m \in Recovered
    BY <1>1, <1>7, ActionCases DEF Recovered
  <2> QED BY <1>2, <1>3, <1>4, <1>5, <1>7, <2>1, <2>2, <2>3
<1>8. CASE mode[m] # "run"
  <2>1. Updated(m).active /\ Updated(m).started_at = r.started_at /\ r \in Recoveries
    BY <1>8, UpdatedCases
  <2>2. ~Expired(r)
    BY <1>1, <1>8, ActionCases
  <2>3. now - r.started_at < RecoveryTimeout
    BY <1>6, <2>1, <2>2, SettingsTypes DEF Expired, Recoveries
  <2>4. r.started_at = out_since'[m] /\ out_since'[m] # 0
    BY <1>4, <1>5, <1>6, <1>8 DEF Begun, Recoveries
  <2>5. m \notin Recovered
    BY <1>8, ActionCases DEF Recovered
  <2>6. recovery_active'[m] /\ now - Updated(m).last_attempt_at < RetryInterval
    <3>1. CASE Action(m) = "send_enable"
      <4>1. m \in Enabling /\ Updated(m).last_attempt_at = now
        BY <1>1, <1>8, <3>1, UpdatedCases DEF Enabling
      <4> QED BY <1>3, <1>6, <4>1, SettingsTypes
    <3>2. CASE Action(m) # "send_enable"
      <4>1. Updated(m) = r /\ ~Due(r)
        BY <1>8, <2>2, <3>2, UpdatedCases, ActionCases
      <4>2. r.attempts # 0 /\ now - r.last_attempt_at < RetryInterval
        BY <1>6, <2>1, <4>1, SettingsTypes DEF Due, Recoveries
      <4>3. recovery[m].active
        BY <1>5, <1>6, <4>2 DEF Begun, Recoveries
      <4> QED BY <1>3, <1>5, <2>5, <4>1, <4>2, <4>3
    <3> QED BY <3>1, <3>2
  <2> QED BY <1>2, <2>1, <2>3, <2>4, <2>6
<1> QED BY <1>2, <1>7, <1>8

LEMMA EpisodesStep == TypeOK /\ EpisodesInv /\ [Next]_vars => EpisodesInv'
<1> SUFFICES ASSUME TypeOK, EpisodesInv, [Next]_vars PROVE EpisodesInv'
  OBVIOUS
<1>1. CASE ReadSupervises
  <2>1. ASSUME NEW m \in Motors, ~recovery'[m].active PROVE recovery'[m].attempts = 0
    <3>1. CASE recovery'[m] = recovery[m]
      BY <2>1, <3>1 DEF EpisodesInv
    <3>2. CASE recovery'[m] = Updated(m)
      BY <2>1, <3>2, UpdatedCases DEF Idle
    <3> QED BY <1>1, <3>1, <3>2, ReadRecoveries
  <2>2. CASE ReadError = "none"
    <3>1. phase' = "write"
      BY <1>1, <2>2 DEF ReadSupervises
    <3> QED BY <1>1, <2>1, <2>2, <3>1, ReadMotor DEF EpisodesInv
  <2>3. CASE ReadError # "none"
    <3>1. phase' = "failing"
      BY <1>1, <2>3 DEF ReadSupervises
    <3> QED BY <2>1, <3>1 DEF EpisodesInv, Supervising
  <2> QED BY <2>2, <2>3
<1>2. CASE HealthCheckFails
  BY <1>2 DEF HealthCheckFails, EpisodesInv, Supervising
<1>3. CASE Stop
  BY <1>3 DEF Stop, EpisodesInv, Supervising, driver
<1>4. CASE Start
  BY <1>4 DEF Start, EpisodesInv, RecoveryAtStart, Idle
<1>5. CASE Bystanders
  BY <1>5, BystandersStand DEF EpisodesInv
<1> QED BY <1>1, <1>2, <1>3, <1>4, <1>5, EveryStep

\* All about recoveries.
RecoveriesInv ==
  /\ TypeOK /\ EpisodesInv /\ RetriesInv /\ RetriesKeepTheirDistance
  /\ AttemptsInv /\ NoEndlessRecovery /\ RecoveryGetsItsTime

LEMMA RecoveriesInit == Init => RecoveriesInv
<1>1. Init => AttemptsInv /\ NoEndlessRecovery /\ RecoveryGetsItsTime
  BY DEF Init, AttemptsInv, Checked, NoEndlessRecovery, RecoveryGetsItsTime
<1> QED BY <1>1, TypeInit, EpisodesInit, RetriesInit DEF RecoveriesInv

LEMMA TimeoutsStep ==
  RecoveriesInv /\ [Next]_vars => AttemptsInv' /\ NoEndlessRecovery' /\ RecoveryGetsItsTime'
<1> SUFFICES ASSUME RecoveriesInv, [Next]_vars
             PROVE  AttemptsInv' /\ NoEndlessRecovery' /\ RecoveryGetsItsTime'
  OBVIOUS
<1> USE DEF RecoveriesInv
<1>1. CASE ReadSupervises /\ ReadError = "none"
  <2>1. phase' = "write" /\ now' = now
    BY <1>1 DEF ReadSupervises
  <2>2. \A m \in Motors : recovery'[m].active =>
          /\ now - recovery'[m].last_attempt_at < RetryInterval
          /\ now - out_since'[m] < RecoveryTimeout
    BY <1>1, ReadMotor
  <2>3. \A m \in Motors : recovery'[m].active <=> out_since'[m] # 0
    BY <1>1, ReadMotor
  <2> QED BY <2>1, <2>2, <2>3 DEF AttemptsInv, NoEndlessRecovery, RecoveryGetsItsTime
<1>2. CASE ReadSupervises /\ ReadError # "none"
  <2>1. phase' = "failing" /\ now' = now /\ error' = ReadError
    BY <1>2 DEF ReadSupervises
  <2>2. ASSUME ReadError = "recovery_failed"
        PROVE  \E m \in Motors : out_since'[m] # 0 /\ now - out_since'[m] >= RecoveryTimeout
    <3>1. PICK m \in Supervised : Action(m) = "failed"
      BY <2>2 DEF ReadError
    <3>2. m \in Motors
      BY DEF Supervised
    <3>3. mode[m] # "run" /\ now - Begun(recovery[m]).started_at >= RecoveryTimeout
      BY <3>1, <3>2, ActionCases DEF Expired
    <3>4. now \in Nat
      BY SettingsTypes DEF TypeOK
    <3>5. recovery[m].active
      <4>1. CASE ~recovery[m].active
        <5>1. Begun(recovery[m]).started_at = now
          BY <3>2, <4>1 DEF Begun, TypeOK, Recoveries
        <5> QED BY <3>3, <3>4, <5>1, SettingsTypes
      <4> QED BY <4>1
    <3>6. recovery[m].started_at = out_since[m] /\ out_since[m] # 0
      BY <1>2, <3>2, <3>5 DEF EpisodesInv, Supervising, ReadSupervises
    <3>7. out_since'[m] = out_since[m]
      BY <1>2, <3>2, <3>3, <3>6 DEF ReadSupervises
    <3> QED BY <3>2, <3>3, <3>5, <3>6, <3>7 DEF Begun
  <2> QED BY <2>1, <2>2 DEF AttemptsInv, Checked, NoEndlessRecovery, RecoveryGetsItsTime
<1>3. CASE HealthCheckFails
  <2>1. phase' = "failing" /\ error' # "recovery_failed"
    BY <1>3, HealthErrors DEF HealthCheckFails
  <2> QED BY <2>1 DEF AttemptsInv, Checked, NoEndlessRecovery, RecoveryGetsItsTime
<1>4. CASE Stop \/ Start
  <2>1. phase' \in {"stopped", "read"}
    BY <1>4 DEF Stop, Start
  <2> QED BY <2>1 DEF AttemptsInv, Checked, NoEndlessRecovery, RecoveryGetsItsTime
<1>5. CASE Bystanders
  <2>1. UNCHANGED <<recovery, error, out_since>>
    BY <1>5, BystandersStand
  <2>2. CASE now' = now
    BY <1>5, <2>1, <2>2, BystandersStand
       DEF AttemptsInv, Checked, NoEndlessRecovery, RecoveryGetsItsTime
  <2>3. CASE phase' \in {"read", "stopped"}
    BY <2>3 DEF AttemptsInv, Checked, NoEndlessRecovery, RecoveryGetsItsTime
  <2> QED BY <1>5, <2>2, <2>3, BystandersStand
<1> QED BY <1>1, <1>2, <1>3, <1>4, <1>5, EveryStep

LEMMA RecoveriesStep == RecoveriesInv /\ [Next]_vars => RecoveriesInv'
  BY TypeStep, EpisodesStep, RetriesStep, TimeoutsStep DEF RecoveriesInv

LEMMA RecoveriesHold == Spec => []RecoveriesInv
  BY RecoveriesInit, RecoveriesStep, PTL DEF Spec

\* After every read without an error the transport holds the motion of exactly the
\* motors that the driver recovers, for any number of motors: no joint is left out
\* by a loop that ended early (update_state).
THEOREM HoldsAreRecoveries == Spec => []HoldsMatchRecoveries
<1>1. RecoveriesInv => HoldsMatchRecoveries
  BY DEF RecoveriesInv, EpisodesInv, Supervising, HoldsMatchRecoveries, TypeOK, Recoveries
<1> QED BY <1>1, RecoveriesHold, PTL

\* Active hardware has no motor that was out of Run mode for recovery_timeout, for
\* any settings (RecoveryState::update).
THEOREM RecoveriesEnd == Spec => []NoEndlessRecovery
  BY RecoveriesHold, PTL DEF RecoveriesInv

\* No recovery is given up before its time, which began in this activation
\* (RecoveryState::update).
THEOREM RecoveriesGetTheirTime == Spec => []RecoveryGetsItsTime
  BY RecoveriesHold, PTL DEF RecoveriesInv

\* Enable frames of a recovery keep their distance, for any retry interval
\* (RecoveryState::update).
THEOREM RetriesAreSpaced == Spec => []RetriesKeepTheirDistance
  BY RecoveriesHold, PTL DEF RecoveriesInv

-----------------------------------------------------------------------------
(* Losses.                                                                  *)

LEMMA LossInit == Init => LossInv
  BY DEF Init, LossInv

LEMMA LossStep == TypeOK /\ LossInv /\ [Next]_vars => LossInv'
<1> SUFFICES ASSUME TypeOK, LossInv, [Next]_vars PROVE LossInv'
  OBVIOUS
<1> USE DEF LossInv
<1>1. CASE WorkerPublishes
  <2>1. /\ unavailable_since' = UnavailableSince(bridge_available')
        /\ publishing' = bridge_available' /\ UNCHANGED last_delivery
    BY <1>1 DEF WorkerPublishes
  <2>2. last_delivery <= now
    BY DEF TypeOK
  <2> QED BY <2>1, <2>2 DEF UnavailableSince
<1>2. CASE PublisherReturns
  BY <1>2 DEF PublisherReturns, endpoint
<1>3. CASE Start
  BY <1>3 DEF Start
<1>4. CASE Stop
  BY <1>4 DEF Stop, endpoint
<1>5. CASE ReadSupervises \/ HealthCheckFails \/ WriteQueues \/ WriteSucceeds
  BY <1>5 DEF ReadSupervises, HealthCheckFails, WriteQueues, WriteSucceeds, worker, endpoint
<1>6. CASE WorkerExtract \/ WorkerSkips \/ WorkerSettles
  BY <1>6 DEF WorkerExtract, WorkerSkips, WorkerSettles, endpoint
<1>7. CASE (\E m \in Motors : Feedback(m)) \/ Tick \/ UNCHANGED vars
  BY <1>7 DEF Feedback, Tick, vars, worker, endpoint
<1> QED BY <1>1, <1>2, <1>3, <1>4, <1>5, <1>6, <1>7 DEF Next

\* The steps that return ERROR.
LEMMA FailingSteps ==
  ASSUME [Next]_vars, NEW reason, Fails(reason)
  PROVE  \/ HealthCheckFails /\ HealthError = reason
         \/ ReadSupervises /\ ReadError = reason
<1>1. ~Bystanders
  BY BystandersStand DEF Fails
<1>2. ~Stop /\ ~Start
  BY DEF Fails, Stop, Start
<1> QED BY <1>1, <1>2, EveryStep DEF Fails, HealthCheckFails, ReadSupervises

\* Hardware fails for a lost bridge only after transmit_failure_timeout without a
\* delivery, for any timeout (update_endpoint_status, health).
THEOREM LossesPersist == Spec => LossIsPersistent
<1>1. Init => TypeOK /\ LossInv
  BY TypeInit, LossInit
<1>2. TypeOK /\ LossInv /\ [Next]_vars => (TypeOK /\ LossInv)'
  BY TypeStep, LossStep
<1>3. TypeOK /\ LossInv /\ [Next]_vars
        => [Fails("bridge_unavailable") => now - last_delivery >= TransmitTimeout]_vars
  <2> SUFFICES ASSUME TypeOK, LossInv, [Next]_vars, Fails("bridge_unavailable")
               PROVE  now - last_delivery >= TransmitTimeout
    OBVIOUS
  <2>1. HealthError = "bridge_unavailable"
    BY FailingSteps, ReadErrors
  <2>2. ~bridge_available /\ now - unavailable_since >= TransmitTimeout
    BY <2>1 DEF HealthError
  <2>3. last_delivery <= unavailable_since
    BY <2>2 DEF LossInv
  <2> QED BY <2>2, <2>3, SettingsTypes DEF TypeOK
<1> QED BY <1>1, <1>2, <1>3, PTL DEF Spec, LossIsPersistent

-----------------------------------------------------------------------------
(* Stalls.                                                                  *)

ClocksInv == RecoveriesInv /\ WorkerInv /\ ProgressInv /\ IdleInv /\ StallInv

LEMMA ClocksInit == Init => ClocksInv
<1>1. Init => WorkerInv /\ ProgressInv /\ IdleInv /\ StallInv
  BY DEF Init, WorkerInv, ProgressInv, IdleInv, StallInv, NoFrames, Kinds
<1> QED BY <1>1, RecoveriesInit DEF ClocksInv

LEMMA WorkerStep == TypeOK /\ WorkerInv /\ [Next]_vars => WorkerInv'
<1> SUFFICES ASSUME TypeOK, WorkerInv, [Next]_vars PROVE WorkerInv'
  OBVIOUS
<1> USE DEF WorkerInv
<1>1. CASE ReadSupervises \/ HealthCheckFails \/ WriteQueues \/ WriteSucceeds \/ Start
  BY <1>1 DEF ReadSupervises, HealthCheckFails, WriteQueues, WriteSucceeds, Start, worker
<1>2. CASE Stop
  BY <1>2 DEF Stop, NoFrames, Kinds
<1>3. CASE WorkerExtract
  BY <1>3 DEF WorkerExtract, SomethingSendable, Sendable
<1>4. CASE WorkerSkips
  <2>1. working /\ UNCHANGED <<phase, working, publishing>>
    BY <1>4 DEF WorkerSkips, Kinds
  <2> QED BY <2>1
<1>5. CASE WorkerPublishes
  <2>1. working /\ UNCHANGED <<phase, working>>
    BY <1>5 DEF WorkerPublishes, Kinds
  <2> QED BY <2>1
<1>6. CASE PublisherReturns
  BY <1>6 DEF PublisherReturns
<1>7. CASE WorkerSettles
  BY <1>7 DEF WorkerSettles, NoFrames, Kinds
<1>8. CASE (\E m \in Motors : Feedback(m)) \/ Tick \/ UNCHANGED vars
  BY <1>8 DEF Feedback, Tick, vars, worker
<1> QED BY <1>1, <1>2, <1>3, <1>4, <1>5, <1>6, <1>7, <1>8 DEF Next

\* A read that does not queue an enable frame leaves the time of the last one.
LEMMA ReadKeepsAttempts ==
  ASSUME TypeOK, ReadSupervises, NEW m \in Motors, m \notin Enabling
  PROVE  recovery'[m].last_attempt_at \in {0, recovery[m].last_attempt_at}
<1>1. CASE m \in Supervised
  <2>1. recovery'[m] = Updated(m)
    BY <1>1 DEF ReadSupervises
  <2>2. CASE mode[m] = "run"
    BY <2>1, <2>2, UpdatedCases DEF Idle
  <2>3. CASE mode[m] # "run"
    <3>1. Updated(m) = Begun(recovery[m])
      BY <1>1, <2>3, UpdatedCases DEF Enabling
    <3> QED BY <2>1, <3>1 DEF Begun, TypeOK, Recoveries
  <2> QED BY <2>2, <2>3
<1>2. CASE m \notin Supervised
  BY <1>2 DEF ReadSupervises
<1> QED BY <1>1, <1>2

LEMMA ProgressStep ==
  TypeOK /\ RetriesInv /\ WorkerInv /\ ProgressInv /\ [Next]_vars => ProgressInv'
<1> SUFFICES ASSUME TypeOK, RetriesInv, WorkerInv, ProgressInv, [Next]_vars
             PROVE  ProgressInv'
  OBVIOUS
<1> USE DEF ProgressInv
<1>1. \A m \in Motors : recovery[m].last_attempt_at \in 0..now
  BY SettingsTypes DEF RetriesInv, TypeOK, Recoveries
<1>2. CASE ReadSupervises
  <2>1. SUFFICES ASSUME NEW m \in Motors, ~publishing, progress' # 0, recovery_active'[m],
                        m \notin pending'["recovery"] \cup batch["recovery"]
                 PROVE  recovery'[m].last_attempt_at <= progress'
    BY <1>2 DEF ReadSupervises, worker
  <2>2. /\ recovery_active'[m] <=> (m \in Enabling \/ (recovery_active[m] /\ m \notin Recovered))
        /\ pending'["recovery"] = (pending["recovery"] \cup Enabling) \ Recovered
        /\ progress' \in {progress, Stamped}
    BY <1>2 DEF ReadSupervises, ApplyRecoveryUpdates, TypeOK, Kinds
  <2>3. m \notin Enabling /\ recovery_active[m] /\ m \notin pending["recovery"]
    BY <2>1, <2>2 DEF Enabling, Recovered
  <2>4. recovery'[m].last_attempt_at \in {0, recovery[m].last_attempt_at}
    BY <1>2, <2>3, ReadKeepsAttempts
  <2>5. progress # 0 => recovery[m].last_attempt_at <= progress
    BY <2>1, <2>3
  <2> QED BY <1>1, <2>1, <2>2, <2>4, <2>5, SettingsTypes DEF Stamped, TypeOK
<1>3. CASE WriteQueues
  <2>1. /\ pending'["recovery"] = pending["recovery"] /\ progress' = Stamped
        /\ UNCHANGED <<recovery, recovery_active, batch, publishing>>
    BY <1>3 DEF WriteQueues, TypeOK, Kinds, driver, worker
  <2> QED BY <1>1, <2>1 DEF Stamped
<1>4. CASE HealthCheckFails \/ WriteSucceeds
  BY <1>4 DEF HealthCheckFails, WriteSucceeds, driver, worker
<1>5. CASE Stop
  BY <1>5 DEF Stop
<1>6. CASE Start
  <2>1. \A m \in Motors : recovery'[m].last_attempt_at = 0
    BY <1>6 DEF Start, RecoveryAtStart, Idle
  <2> QED BY <1>6, <2>1, SettingsTypes DEF Start, TypeOK
<1>7. CASE WorkerExtract
  <2>1. /\ batch'["recovery"] = pending["recovery"]
        /\ UNCHANGED <<recovery, recovery_active, publishing, progress>>
        /\ batch["recovery"] = {}
    BY <1>7 DEF WorkerExtract, TypeOK, Kinds, driver, WorkerInv
  <2> QED BY <2>1
<1>8. CASE WorkerSkips \/ PublisherReturns
  <2>1. progress' = now /\ UNCHANGED recovery
    BY <1>8 DEF WorkerSkips, PublisherReturns, ProgressOfFrame, driver
  <2> QED BY <1>1, <2>1
<1>9. CASE WorkerPublishes
  <2>1. UNCHANGED recovery /\ (publishing' \/ progress' = now)
    BY <1>9 DEF WorkerPublishes, ProgressOfFrame, driver
  <2> QED BY <1>1, <2>1
<1>10. CASE WorkerSettles
  <2>1. progress' \in {progress, 0}
        /\ UNCHANGED <<recovery, recovery_active, pending, batch, publishing>>
    BY <1>10 DEF WorkerSettles, ProgressAfterBatch, driver
  <2> QED BY <2>1
<1>11. CASE (\E m \in Motors : Feedback(m)) \/ Tick \/ UNCHANGED vars
  BY <1>11 DEF Feedback, Tick, vars, worker, driver
<1> QED BY <1>2, <1>3, <1>4, <1>5, <1>6, <1>7, <1>8, <1>9, <1>10, <1>11 DEF Next

LEMMA IdleStep == TypeOK /\ WorkerInv /\ IdleInv /\ [Next]_vars => IdleInv'
<1> SUFFICES ASSUME TypeOK, WorkerInv, IdleInv, [Next]_vars PROVE IdleInv'
  OBVIOUS
<1> USE DEF IdleInv
<1>1. CASE ReadSupervises \/ HealthCheckFails \/ Stop \/ Start \/ Tick
  BY <1>1 DEF ReadSupervises, HealthCheckFails, Stop, Start, Tick
<1>2. CASE WriteQueues
  <2>1. pending'["motion"] = Motors /\ 1 \in Motors
    BY <1>2, SettingsTypes DEF WriteQueues, TypeOK, Kinds, Motors
  <2> QED BY <2>1
<1>3. CASE WriteSucceeds \/ (\E m \in Motors : Feedback(m)) \/ UNCHANGED vars
  BY <1>3 DEF WriteSucceeds, Feedback, vars, worker
<1>4. CASE WorkerExtract
  BY <1>4 DEF WorkerExtract
<1>5. CASE WorkerSkips \/ WorkerPublishes \/ PublisherReturns
  <2>1. working'
    BY <1>5 DEF WorkerSkips, WorkerPublishes, PublisherReturns, WorkerInv, Kinds
  <2> QED BY <2>1
<1>6. CASE WorkerSettles
  BY <1>6 DEF WorkerSettles, ProgressAfterBatch, SomethingSendable, Sendable
<1> QED BY <1>1, <1>2, <1>3, <1>4, <1>5, <1>6 DEF Next

LEMMA StallStep == ClocksInv /\ [Next]_vars => StallInv'
<1> SUFFICES ASSUME ClocksInv, [Next]_vars PROVE StallInv'
  OBVIOUS
<1> USE DEF ClocksInv, RecoveriesInv
<1>1. /\ now \in Nat /\ progress \in 0..now /\ entered \in 0..now
      /\ RetryInterval \in Nat \ {0}
  BY SettingsTypes DEF TypeOK
<1>2. ASSUME UNCHANGED <<now, entered, publishing>>, progress' \in {0, progress, now}
      PROVE  StallInv'
  <2>1. CASE progress' = now
    BY <1>1, <1>2, <2>1 DEF StallInv
  <2>2. CASE progress' \in {0, progress}
    BY <1>2, <2>2 DEF StallInv
  <2> QED BY <1>2, <2>1, <2>2
<1>3. CASE ReadSupervises \/ WriteQueues \/ HealthCheckFails \/ WriteSucceeds
  BY <1>2, <1>3 DEF ReadSupervises, ApplyRecoveryUpdates, WriteQueues, HealthCheckFails,
     WriteSucceeds, Stamped, worker
<1>4. CASE Stop
  BY <1>4 DEF Stop, StallInv
<1>5. CASE Start
  BY <1>2, <1>5 DEF Start, worker
<1>6. CASE WorkerExtract \/ WorkerSkips \/ WorkerSettles
  BY <1>2, <1>6 DEF WorkerExtract, WorkerSkips, WorkerSettles, ProgressOfFrame,
     ProgressAfterBatch
<1>7. CASE WorkerPublishes
  <2>1. ~publishing /\ now' = now
    BY <1>7 DEF WorkerPublishes
  <2>2. \/ publishing' /\ entered' = now /\ progress' = progress
        \/ ~publishing' /\ progress' = now
    BY <1>7 DEF WorkerPublishes, ProgressOfFrame
  <2> QED BY <1>1, <2>1, <2>2 DEF StallInv
<1>8. CASE PublisherReturns
  BY <1>1, <1>8 DEF PublisherReturns, ProgressOfFrame, StallInv
<1>9. CASE (\E m \in Motors : Feedback(m)) \/ UNCHANGED vars
  BY <1>2, <1>9 DEF Feedback, vars, worker
<1>10. CASE Tick
  <2>1. /\ now' = now + 1 /\ progress' = progress
        /\ entered' = entered /\ publishing' = publishing
    BY <1>10 DEF Tick, worker
  <2>2. CASE publishing
    BY <2>1, <2>2 DEF StallInv
  <2>3. CASE ~publishing /\ progress # 0
    <3>1. ~working /\ ~SomethingSendable
      BY <1>10, <2>3 DEF Tick
    <3>2. phase = "done"
      BY <1>10, <2>3 DEF Tick, WorkerInv
    <3>3. pending["recovery"] = {} /\ batch["recovery"] = {}
      BY <3>1 DEF SomethingSendable, Sendable, WorkerInv, TypeOK, Kinds
    <3>4. PICK m \in pending["motion"] : TRUE
      BY <2>3, <3>1, <3>2, <3>3 DEF IdleInv
    <3>5. m \in Motors /\ recovery_active[m]
      BY <3>1, <3>4 DEF SomethingSendable, Sendable, TypeOK, Kinds
    <3>6. recovery[m].last_attempt_at <= progress
      BY <2>3, <3>3, <3>5 DEF ProgressInv
    <3>7. recovery[m].active
      BY <3>2, <3>5 DEF EpisodesInv, Supervising
    <3>8. now - recovery[m].last_attempt_at < RetryInterval
      BY <3>2, <3>5, <3>7 DEF AttemptsInv, Checked
    <3>9. recovery[m].last_attempt_at \in Nat
      BY <3>5 DEF TypeOK, Recoveries
    <3>10. now + 1 - progress <= RetryInterval
      BY <1>1, <3>6, <3>8, <3>9
    <3>11. now' - progress' <= RetryInterval
      BY <1>1, <2>1, <3>10
    <3>12. ~publishing'
      BY <2>1, <2>3, Zenon
    <3> QED BY <3>11, <3>12, Zenon DEF StallInv
  <2>4. CASE progress = 0
    BY <2>1, <2>4 DEF StallInv
  <2> QED BY <2>2, <2>3, <2>4
<1> QED BY <1>3, <1>4, <1>5, <1>6, <1>7, <1>8, <1>9, <1>10 DEF Next

LEMMA ClocksStep == ClocksInv /\ [Next]_vars => ClocksInv'
<1>1. ClocksInv => TypeOK /\ RetriesInv
  BY DEF ClocksInv, RecoveriesInv
<1> QED BY <1>1, RecoveriesStep, WorkerStep, ProgressStep, IdleStep, StallStep DEF ClocksInv

\* Hardware that fails for a stall has a frame in the publisher.
LEMMA StalledInPublisher ==
  ASSUME RetryInterval < TransmitTimeout,
         ClocksInv, [Next]_vars, Fails("transmit_stalled")
  PROVE  publishing /\ now - entered >= TransmitTimeout - RetryInterval
<1>1. HealthError = "transmit_stalled"
  BY FailingSteps, ReadErrors
<1>2. progress > 0 /\ now - progress >= TransmitTimeout
  BY <1>1 DEF HealthError
<1>3. /\ now \in Nat /\ progress \in 0..now /\ entered \in 0..now
  BY SettingsTypes DEF ClocksInv, RecoveriesInv, TypeOK
<1>4. publishing
  BY <1>2, <1>3, SettingsTypes DEF ClocksInv, StallInv
<1>5. entered - progress <= RetryInterval
  BY <1>2, <1>3, <1>4 DEF ClocksInv, StallInv
<1> QED BY <1>2, <1>3, <1>4, <1>5, SettingsTypes

\* When the retry interval is below the transmit timeout, hardware fails for a
\* stall only while a frame is stuck in the publisher, and has been for all but a
\* retry interval of the timeout: what a recovery holds back is never taken for a
\* stall (health, WriteQueues stamps the clock).
THEOREM StallsAreReal ==
  ASSUME RetryInterval < TransmitTimeout
  PROVE  Spec => StallIsReal
<1>1. ClocksInv /\ [Next]_vars
        => [Fails("transmit_stalled")
              => publishing /\ now - entered >= TransmitTimeout - RetryInterval]_vars
  BY StalledInPublisher
<1> QED BY <1>1, ClocksInit, ClocksStep, PTL DEF Spec, StallIsReal

\* Under the same condition a worker that has nothing to deal with is never blamed: the
\* divergence of supervision_intervals takes a retry interval as long as the timeout.
THEOREM IdleWorkersAreNotBlamed ==
  ASSUME RetryInterval < TransmitTimeout
  PROVE  Spec => IdleIsNotStalled
<1>1. ClocksInv /\ [Next]_vars => [Fails("transmit_stalled") => working]_vars
  <2> SUFFICES ASSUME ClocksInv, [Next]_vars, Fails("transmit_stalled")
               PROVE  working
    OBVIOUS
  <2>1. publishing
    BY StalledInPublisher
  <2> QED BY <2>1 DEF ClocksInv, WorkerInv
<1> QED BY <1>1, ClocksInit, ClocksStep, PTL DEF Spec, IdleIsNotStalled

-----------------------------------------------------------------------------
(* Gaps in the delivery.                                                    *)

\* While the bridge is there nothing is newer than the last delivery that was queued
\* and is no longer on its way: no attempt of a recovery, and no motion of a motor
\* that is not held.
SentInv ==
  Supervising /\ bridge_available /\ ~publishing => \A m \in Motors :
    /\ recovery_active[m] /\ m \notin pending["recovery"] \cup batch["recovery"]
         => recovery[m].last_attempt_at <= last_delivery
    /\ phase \in {"check", "done"} /\ ~recovery_active[m]
       /\ m \notin pending["motion"] \cup batch["motion"]
         => last_delivery = now

\* The stall clock runs while the worker has something to do, from no later than its
\* last entry into the publisher.
ClockInv ==
  Supervising =>
    /\ phase # "write" /\ (working \/ SomethingSendable) => progress # 0
    /\ publishing => progress <= entered /\ (progress = 0 => entered = now)

\* The gaps that make up a silence: between two deliveries, before a loss, up to the
\* publisher, and inside it.
GapsInv ==
  Supervising =>
    /\ bridge_available /\ ~publishing => now - last_delivery <= RetryInterval
    /\ ~bridge_available =>
         /\ unavailable_since # 0
         /\ unavailable_since - last_delivery <= RetryInterval
         /\ phase # "read" \/ working \/ SomethingSendable
              => now - unavailable_since < TransmitTimeout
    /\ publishing =>
         /\ entered - last_delivery <= RetryInterval + TransmitTimeout - 1
         /\ phase = "done" => now - entered < TransmitTimeout

DeliveryInv == ClocksInv /\ LossInv /\ SentInv /\ ClockInv /\ GapsInv

LEMMA DeliveryTypes ==
  ASSUME TypeOK
  PROVE  /\ now \in Nat /\ now # 0 /\ progress \in 0..now /\ entered \in 0..now
         /\ last_delivery \in 0..now /\ unavailable_since \in 0..now
         /\ RetryInterval \in Nat \ {0} /\ TransmitTimeout \in Nat \ {0}
         /\ pending["recovery"] \subseteq Motors /\ pending["motion"] \subseteq Motors
  BY SettingsTypes DEF TypeOK, Kinds

\* What starts from a stop.
LEMMA StartDelivers ==
  ASSUME DeliveryInv, Start
  PROVE  SentInv' /\ ClockInv' /\ GapsInv'
<1>1. /\ bridge_available' /\ last_delivery' = now' /\ phase' = "read" /\ now' = now
      /\ UNCHANGED <<pending, recovery_active, working, publishing>>
      /\ \A m \in Motors : ~recovery_active[m]
      /\ ~working /\ ~publishing
      /\ pending["recovery"] = {} /\ pending["motion"] = {}
  BY DEF Start, worker, DeliveryInv, ClocksInv, WorkerInv, RecoveriesInv, EpisodesInv
<1>2. ~SomethingSendable' BY <1>1 DEF SomethingSendable, Sendable
<1>3. now \in Nat /\ RetryInterval \in Nat \ {0}
  BY DeliveryTypes DEF DeliveryInv, ClocksInv, RecoveriesInv
<1> QED BY <1>1, <1>2, <1>3 DEF SentInv, ClockInv, GapsInv

LEMMA SentStep ==
  ASSUME DeliveryInv, [Next]_vars, ~Start
  PROVE  SentInv'
<1> USE DEF SentInv, Supervising
<1>1. TypeOK /\ RetriesInv /\ WorkerInv /\ LossInv /\ SentInv
  BY DEF DeliveryInv, ClocksInv, RecoveriesInv
<1>2. \A m \in Motors : recovery[m].last_attempt_at \in 0..now
  BY <1>1, SettingsTypes DEF RetriesInv, TypeOK, Recoveries
<1>3. CASE ReadSupervises
  <2>1. SUFFICES ASSUME NEW m \in Motors, ~publishing, bridge_available,
                        recovery_active'[m],
                        m \notin pending'["recovery"] \cup batch["recovery"]
                 PROVE  recovery'[m].last_attempt_at <= last_delivery
    BY <1>3 DEF ReadSupervises, worker, endpoint
  <2>2. /\ recovery_active'[m] <=> (m \in Enabling \/ (recovery_active[m] /\ m \notin Recovered))
        /\ pending'["recovery"] = (pending["recovery"] \cup Enabling) \ Recovered
    BY <1>1, <1>3 DEF ReadSupervises, ApplyRecoveryUpdates, TypeOK, Kinds
  <2>3. m \notin Enabling /\ recovery_active[m] /\ m \notin pending["recovery"]
    BY <2>1, <2>2 DEF Enabling, Recovered
  <2>4. recovery'[m].last_attempt_at \in {0, recovery[m].last_attempt_at}
    BY <1>1, <1>3, <2>3, ReadKeepsAttempts
  <2>5. recovery[m].last_attempt_at <= last_delivery
    BY <1>1, <1>3, <2>1, <2>3 DEF ReadSupervises
  <2> QED BY <1>1, <2>4, <2>5, DeliveryTypes
<1>4. CASE WriteQueues
  <2>1. /\ pending'["recovery"] = pending["recovery"] /\ pending'["motion"] = Motors
        /\ UNCHANGED <<recovery, recovery_active, batch, publishing, bridge_available,
                       last_delivery>>
        /\ phase = "write"
    BY <1>1, <1>4 DEF WriteQueues, TypeOK, Kinds, driver, worker, endpoint
  <2> QED BY <1>1, <2>1
<1>5. CASE HealthCheckFails \/ Stop
  BY <1>5 DEF HealthCheckFails, Stop
<1>6. CASE WorkerExtract
  <2>1. /\ batch'["recovery"] = pending["recovery"]
        /\ \A m \in pending["motion"] : m \in batch'["motion"] \/ m \in pending'["motion"]
        /\ UNCHANGED <<now, phase, recovery, recovery_active, publishing, bridge_available,
                       last_delivery>>
        /\ batch["recovery"] = {} /\ batch["motion"] = {}
    BY <1>1, <1>6 DEF WorkerExtract, TypeOK, Kinds, driver, endpoint, WorkerInv
  <2> QED BY <1>1, <2>1
<1>7. CASE WorkerSkips
  <2>1. PICK k \in Kinds : \E m \in batch[k] :
          /\ ~Admitted(k, m)
          /\ batch' = [batch EXCEPT ![k] = @ \ {m}]
          /\ UNCHANGED <<now, phase, driver, recovery_active, pending, publishing,
                         endpoint, last_delivery>>
    BY <1>7 DEF WorkerSkips
  <2>2. ASSUME NEW n \in Motors
        PROVE  /\ recovery_active[n] /\ n \in batch["recovery"] => n \in batch'["recovery"]
               /\ ~recovery_active[n] /\ n \in batch["motion"] => n \in batch'["motion"]
    BY <1>1, <2>1 DEF Admitted, TypeOK, Kinds
  <2> QED BY <1>1, <2>1, <2>2 DEF driver, endpoint
<1>8. CASE WorkerPublishes
  BY <1>8 DEF WorkerPublishes
<1>9. CASE PublisherReturns
  <2>1. last_delivery' = now /\ now' = now /\ UNCHANGED recovery
    BY <1>9 DEF PublisherReturns, driver
  <2> QED BY <1>2, <2>1
<1>10. CASE WriteSucceeds \/ WorkerSettles
  BY <1>1, <1>10 DEF WriteSucceeds, WorkerSettles, driver, worker, endpoint
<1>11. CASE (\E m \in Motors : Feedback(m)) \/ UNCHANGED vars
  BY <1>1, <1>11 DEF Feedback, vars, worker, driver, endpoint
<1>12. CASE Tick
  BY <1>1, <1>12 DEF Tick, worker, driver, endpoint
<1> QED BY <1>3, <1>4, <1>5, <1>6, <1>7, <1>8, <1>9, <1>10, <1>11, <1>12 DEF Next

\* Steps that queue nothing and hold nobody make nothing sendable.
LEMMA SendableStays ==
  ASSUME UNCHANGED <<pending, recovery_active>>
  PROVE  SomethingSendable' <=> SomethingSendable
  BY DEF SomethingSendable, Sendable

LEMMA ClockStep ==
  ASSUME DeliveryInv, [Next]_vars, ~Start
  PROVE  ClockInv'
<1> USE DEF ClockInv, Supervising
<1>1. TypeOK /\ WorkerInv /\ ClockInv
  BY DEF DeliveryInv, ClocksInv, RecoveriesInv
<1>2. /\ now \in Nat /\ now # 0 /\ progress \in 0..now /\ entered \in 0..now
  BY <1>1, DeliveryTypes
<1>3. CASE ReadSupervises
  <2>1. /\ progress' \in {progress, Stamped} /\ phase = "read" /\ phase' \in {"write", "failing"}
        /\ UNCHANGED <<now, entered, publishing>>
    BY <1>3 DEF ReadSupervises, ApplyRecoveryUpdates, worker
  <2> QED BY <1>1, <1>2, <2>1 DEF Stamped
<1>4. CASE WriteQueues
  <2>1. /\ progress' = Stamped /\ phase = "write" /\ UNCHANGED <<now, entered, publishing>>
    BY <1>4 DEF WriteQueues, worker
  <2> QED BY <1>1, <1>2, <2>1 DEF Stamped
<1>5. CASE HealthCheckFails \/ Stop
  BY <1>5 DEF HealthCheckFails, Stop
<1>6. CASE WorkerExtract
  <2>1. SomethingSendable /\ UNCHANGED <<now, phase, entered, publishing, progress>>
    BY <1>6 DEF WorkerExtract
  <2> QED BY <1>1, <2>1
<1>7. CASE WorkerSkips \/ PublisherReturns
  <2>1. progress' = now /\ ~publishing' /\ now' = now
    BY <1>7 DEF WorkerSkips, PublisherReturns, ProgressOfFrame
  <2> QED BY <1>2, <2>1
<1>8. CASE WorkerPublishes
  <2>1. working /\ UNCHANGED <<now, phase, working, pending, recovery_active>>
    BY <1>1, <1>8 DEF WorkerPublishes, WorkerInv, Kinds
  <2>2. \/ publishing' /\ entered' = now /\ progress' = progress
        \/ ~publishing' /\ progress' = now
    BY <1>8 DEF WorkerPublishes, ProgressOfFrame
  <2> QED BY <1>1, <1>2, <2>1, <2>2
<1>9. CASE WorkerSettles
  <2>1. /\ ~publishing' /\ ~working' /\ working /\ UNCHANGED phase
        /\ UNCHANGED <<pending, recovery_active>>
        /\ progress' = IF SomethingSendable THEN progress ELSE 0
    BY <1>9 DEF WorkerSettles, ProgressAfterBatch
  <2>2. SomethingSendable' <=> SomethingSendable BY <2>1, SendableStays
  <2> QED BY <1>1, <2>1, <2>2
<1>10. CASE WriteSucceeds \/ (\E m \in Motors : Feedback(m)) \/ UNCHANGED vars
  <2>1. /\ UNCHANGED <<now, pending, recovery_active, working, publishing, progress, entered>>
        /\ phase' = phase \/ (phase = "check" /\ phase' = "done")
    BY <1>10 DEF WriteSucceeds, Feedback, vars, worker
  <2>2. SomethingSendable' <=> SomethingSendable BY <2>1, SendableStays
  <2> QED BY <1>1, <2>1, <2>2
<1>11. CASE Tick
  <2>1. /\ UNCHANGED <<pending, recovery_active, working, publishing, progress, entered>>
        /\ phase \in {"done", "stopped"} /\ phase' = IF phase = "done" THEN "read" ELSE phase
    BY <1>11 DEF Tick, worker
  <2>2. SomethingSendable' <=> SomethingSendable BY <2>1, SendableStays
  <2>3. publishing => working BY <1>1 DEF WorkerInv
  <2> QED BY <1>1, <2>1, <2>2, <2>3
<1> QED BY <1>3, <1>4, <1>5, <1>6, <1>7, <1>8, <1>9, <1>10, <1>11 DEF Next

\* At the end of a tick with nothing in the publisher, something has been delivered
\* within the last RetryInterval: every motor's frames have been dealt with.
LEMMA TickDelivers ==
  ASSUME DeliveryInv, Tick, Supervising, bridge_available, ~publishing
  PROVE  now + 1 - last_delivery <= RetryInterval
<1>1. TypeOK /\ WorkerInv /\ SentInv /\ EpisodesInv /\ AttemptsInv
  BY DEF DeliveryInv, ClocksInv, RecoveriesInv
<1>2. /\ phase = "done" /\ ~working /\ ~SomethingSendable
  BY <1>1 DEF Tick, Supervising
<1>3. batch["recovery"] = {} /\ batch["motion"] = {}
  BY <1>1, <1>2 DEF WorkerInv
<1>4. 1 \in Motors BY SettingsTypes DEF Motors
<1>5. CASE recovery_active[1]
  <2>1. 1 \notin pending["recovery"] BY <1>2, <1>4 DEF SomethingSendable, Sendable
  <2>2. recovery[1].last_attempt_at <= last_delivery
    BY <1>1, <1>3, <1>4, <1>5, <2>1 DEF SentInv
  <2>3. recovery[1].active BY <1>1, <1>4, <1>5 DEF EpisodesInv
  <2>4. now - recovery[1].last_attempt_at < RetryInterval
    BY <1>1, <1>2, <1>4, <2>3 DEF AttemptsInv, Checked
  <2>5. recovery[1].last_attempt_at \in Nat BY <1>1, <1>4 DEF TypeOK, Recoveries
  <2> QED BY <1>1, <2>2, <2>4, <2>5, DeliveryTypes
<1>6. CASE ~recovery_active[1]
  <2>1. 1 \notin pending["motion"] BY <1>2, <1>4, <1>6 DEF SomethingSendable, Sendable
  <2>2. last_delivery = now
    BY <1>1, <1>2, <1>3, <1>4, <1>6, <2>1 DEF SentInv
  <2> QED BY <1>1, <2>2, DeliveryTypes
<1> QED BY <1>5, <1>6

LEMMA GapsStep ==
  ASSUME DeliveryInv, [Next]_vars, ~Start
  PROVE  GapsInv'
<1>1. TypeOK /\ WorkerInv /\ LossInv /\ ClockInv /\ GapsInv
  BY DEF DeliveryInv, ClocksInv, RecoveriesInv
<1>2. /\ now \in Nat /\ now # 0 /\ progress \in 0..now /\ entered \in 0..now
      /\ last_delivery \in 0..now /\ unavailable_since \in 0..now
      /\ RetryInterval \in Nat \ {0} /\ TransmitTimeout \in Nat \ {0}
  BY <1>1, DeliveryTypes
<1> DEFINE Quiet == UNCHANGED <<now, publishing, endpoint, entered, last_delivery>>
<1> USE DEF GapsInv, Supervising, endpoint
<1>3. CASE ReadSupervises
  <2>1. Quiet /\ HealthError = "none" /\ phase = "read" /\ phase' \in {"write", "failing"}
    BY <1>3 DEF ReadSupervises, worker
  <2>2. ~bridge_available => now - unavailable_since < TransmitTimeout
    BY <1>2, <2>1 DEF HealthError
  <2> QED BY <1>1, <2>1, <2>2
<1>4. CASE HealthCheckFails \/ Stop
  BY <1>4 DEF HealthCheckFails, Stop
<1>5. CASE WriteQueues
  <2>1. Quiet /\ phase = "write" /\ phase' = "check"
    BY <1>5 DEF WriteQueues, worker
  <2> QED BY <1>1, <2>1
<1>6. CASE WriteSucceeds
  <2>1. Quiet /\ HealthError = "none" /\ phase = "check" /\ phase' = "done"
    BY <1>6 DEF WriteSucceeds, worker
  <2>2. publishing => bridge_available /\ working /\ progress # 0 /\ progress <= entered
    BY <1>1, <2>1 DEF LossInv, WorkerInv, ClockInv
  <2>3. publishing => now - progress < TransmitTimeout
    BY <1>2, <2>1, <2>2 DEF HealthError
  <2> QED BY <1>1, <1>2, <2>1, <2>2, <2>3
<1>7. CASE WorkerExtract
  <2>1. Quiet /\ SomethingSendable /\ UNCHANGED phase
    BY <1>7 DEF WorkerExtract
  <2> QED BY <1>1, <2>1
<1>8. CASE WorkerSkips
  <2>1. Quiet /\ working /\ UNCHANGED phase
    BY <1>1, <1>8 DEF WorkerSkips, WorkerInv, Kinds
  <2> QED BY <1>1, <2>1
<1>9. CASE WorkerPublishes
  <2>1. /\ working /\ ~publishing /\ UNCHANGED <<now, phase, last_delivery>>
        /\ bridge_available' \in BOOLEAN
        /\ unavailable_since' = UnavailableSince(bridge_available')
        /\ publishing' = bridge_available'
        /\ bridge_available' => entered' = now
    BY <1>1, <1>9 DEF WorkerPublishes, WorkerInv, Kinds
  <2>2. SUFFICES ASSUME phase \in {"read", "write", "check", "done"} PROVE GapsInv'
    BY <2>1
  <2>3. CASE bridge_available'
    <3>1. now - last_delivery <= RetryInterval + TransmitTimeout - 1
      BY <1>1, <1>2, <2>1, <2>2
    <3> QED BY <1>2, <2>1, <2>3, <3>1
  <2>4. CASE ~bridge_available'
    <3>1. CASE unavailable_since = 0
      <4>1. bridge_available BY <1>1, <2>2, <3>1
      <4> QED BY <1>1, <1>2, <2>1, <2>2, <2>4, <3>1, <4>1 DEF UnavailableSince
    <3>2. CASE unavailable_since # 0
      <4>1. ~bridge_available BY <1>1, <3>2 DEF LossInv
      <4> QED BY <1>1, <1>2, <2>1, <2>2, <2>4, <3>2, <4>1 DEF UnavailableSince
    <3> QED BY <3>1, <3>2
  <2> QED BY <2>1, <2>3, <2>4
<1>10. CASE PublisherReturns
  <2>1. /\ bridge_available /\ ~publishing' /\ last_delivery' = now
        /\ UNCHANGED <<now, phase, bridge_available>>
    BY <1>1, <1>10 DEF PublisherReturns, LossInv
  <2> QED BY <1>2, <2>1
<1>11. CASE WorkerSettles
  <2>1. Quiet /\ working /\ UNCHANGED phase
    BY <1>11 DEF WorkerSettles
  <2> QED BY <1>1, <2>1
<1>12. CASE (\E m \in Motors : Feedback(m)) \/ UNCHANGED vars
  <2>1. Quiet /\ UNCHANGED <<phase, working, pending, recovery_active>>
    BY <1>12 DEF Feedback, vars, worker
  <2>2. SomethingSendable' <=> SomethingSendable BY <2>1, SendableStays
  <2> QED BY <1>1, <2>1, <2>2
<1>13. CASE Tick
  <2>1. /\ now' = now + 1 /\ phase \in {"done", "stopped"}
        /\ phase' = IF phase = "done" THEN "read" ELSE phase
        /\ UNCHANGED <<working, publishing, endpoint, entered, last_delivery, pending,
                       recovery_active>>
        /\ IF working THEN publishing ELSE ~SomethingSendable
    BY <1>13 DEF Tick, worker
  <2>2. SomethingSendable' <=> SomethingSendable BY <2>1, SendableStays
  <2>3. ~bridge_available => ~publishing BY <1>1 DEF LossInv
  <2>4. phase = "done" /\ bridge_available /\ ~publishing
          => now + 1 - last_delivery <= RetryInterval
    BY <1>13, TickDelivers
  <2> QED BY <1>1, <1>2, <2>1, <2>2, <2>3, <2>4
<1> QED
  BY <1>3, <1>4, <1>5, <1>6, <1>7, <1>8, <1>9, <1>10, <1>11, <1>12, <1>13 DEF Next

\* Hardware that stays active delivers frames with bounded gaps, for any number of
\* motors, any settings and any duration of losses, stalls and recoveries.
THEOREM ActiveHardwareDelivers == Spec => []ActiveMeansDelivering
<1>1. Init => DeliveryInv
  BY ClocksInit, LossInit DEF Init, DeliveryInv, SentInv, ClockInv, GapsInv, Supervising
<1>2. DeliveryInv /\ [Next]_vars => DeliveryInv'
  <2>1. DeliveryInv => TypeOK BY DEF DeliveryInv, ClocksInv, RecoveriesInv
  <2> QED BY <2>1, ClocksStep, LossStep, StartDelivers, SentStep, ClockStep, GapsStep
          DEF DeliveryInv
<1>3. DeliveryInv => ActiveMeansDelivering
  <2> SUFFICES ASSUME DeliveryInv, phase = "done"
               PROVE  now - last_delivery < 2 * TransmitTimeout + RetryInterval - 1
    BY DEF ActiveMeansDelivering
  <2>1. TypeOK /\ LossInv /\ GapsInv BY DEF DeliveryInv, ClocksInv, RecoveriesInv
  <2> QED BY <2>1, DeliveryTypes DEF GapsInv, Supervising, LossInv
<1> QED BY <1>1, <1>2, <1>3, PTL DEF Spec
=============================================================================
