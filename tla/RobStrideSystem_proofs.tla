----------------------- MODULE RobStrideSystem_proofs -----------------------
(* Proofs about RobStrideSystem, for any joints, interfaces and targets, and *)
(* for both kinds of command interfaces.                                    *)
EXTENDS RobStrideSystem, FiniteSetTheorems, TLAPS

-----------------------------------------------------------------------------
(* Claims.                                                                  *)

OneEach(keys) == \A k, l \in keys : k[1] = l[1] => k = l

\* The claims are exclusive, and stay so when the prepared switch is performed:
\* no other switch can come between.
ClaimsInv == OneEach(claimed) /\ OneEach(ModesAfter(switch.start, switch.stop))

-----------------------------------------------------------------------------
(* Targets.                                                                 *)

\* What write takes from the framework is what belongs to the claims.
Synchronized == ~(Managed /\ command_sync_failed)

\* While the hardware is active and the two are in step, a claimed interface holds what
\* it was given last.
AssignedInv == active /\ Synchronized => \A k \in claimed : assigned[k] = Consumed[k]

\* What the driver holds for a claimed interface, errors or not, it was given since the
\* claim; so was what the framework holds, while the two are in step.
GivenInv ==
  /\ \A k \in claimed : command[k] \in given[k]
  /\ Synchronized => \A k \in claimed : Consumed[k] \in given[k]

\* Only a controller gives a claimed interface a target beyond its limits.
AuthoredInv ==
  /\ \A k \in claimed : command[k] = Bad => k \in authored
  /\ Synchronized => \A k \in claimed : Consumed[k] = Bad => k \in authored

-----------------------------------------------------------------------------
(* Types.                                                                   *)

\* Finite sets of keys with at most one key of each joint.
LEMMA AtMostOneIsOne ==
  ASSUME NEW keys \in SUBSET OwnKeys, AtMostOneEach(keys)
  PROVE  OneEach(keys)
<1>1. IsFiniteSet(OwnKeys)
  BY FS_Product, InterfacesAssumption DEF OwnKeys
<1>2. SUFFICES ASSUME NEW k \in keys, NEW l \in keys, k[1] = l[1], k # l
               PROVE  FALSE
  BY DEF OneEach
<1> DEFINE ofJoint == {m \in keys : m[1] = k[1]}
<1>3. k[1] \in Joints
  BY DEF OwnKeys
<1>4. IsFiniteSet(ofJoint) /\ Cardinality(ofJoint) <= 1
  <2>1. ofJoint \in SUBSET OwnKeys
    OBVIOUS
  <2>2. IsFiniteSet(ofJoint)
    BY <1>1, <2>1, FS_Subset
  <2>3. Cardinality(ofJoint) <= 1
    BY <1>3 DEF AtMostOneEach
  <2> QED BY <2>2, <2>3
<1>5. IsFiniteSet({k}) /\ Cardinality({k}) = 1
  BY FS_Singleton
<1>6. Cardinality({k} \cup {l}) = 2
  <2>1. l \notin {k} /\ IsFiniteSet({k})
    BY <1>2, <1>5
  <2>2. Cardinality({k} \cup {l}) = IF l \in {k} THEN Cardinality({k})
                                   ELSE Cardinality({k}) + 1
    BY <2>1, FS_AddElement
  <2> QED BY <1>5, <2>1, <2>2
<1>7. {k} \cup {l} \in SUBSET ofJoint
  BY <1>2
<1>8. Cardinality({k} \cup {l}) <= Cardinality(ofJoint)
  BY <1>4, <1>7, FS_Subset
<1>9. Cardinality(ofJoint) \in Nat
  BY <1>4, FS_CardinalityType
<1> QED BY <1>4, <1>6, <1>8, <1>9

LEMMA TypeInit == Init => TypeOK
<1> SUFFICES ASSUME Init PROVE TypeOK
  OBVIOUS
<1>1. command \in [OwnKeys -> Values] /\ framework = command
  BY InterfacesAssumption DEF Init, Values
<1>2. measured \in [Joints -> Values] /\ fresh \in [Joints -> BOOLEAN]
  BY DEF Init, Values
<1>3. assigned \in [OwnKeys -> Values \cup {None}]
  BY DEF Init, Nothing
<1>4. switch \in [start : SUBSET Keys, stop : SUBSET Keys]
  BY DEF Init, NoSwitch
<1>5. given \in [OwnKeys -> SUBSET Values]
  BY DEF Init
<1> QED BY <1>1, <1>2, <1>3, <1>4, <1>5 DEF Init, TypeOK

\* What apply_command_modes assigns is a target.
LEMMA InitialTargets ==
  ASSUME TypeOK
  PROVE  /\ \A k \in OwnKeys : InitialTarget(k) \in Values
         /\ Applied \in [OwnKeys -> Values]
         /\ Modes \in SUBSET OwnKeys
<1>1. ASSUME NEW k \in OwnKeys PROVE InitialTarget(k) \in Values
  <2>1. k[1] \in Joints
    BY DEF OwnKeys
  <2> QED BY <2>1, InterfacesAssumption DEF TypeOK, InitialTarget, Values
<1>2. Applied \in [OwnKeys -> Values]
  BY <1>1 DEF Applied, TypeOK
<1>3. Modes \in SUBSET OwnKeys
  BY DEF Modes, ModesAfter, TypeOK
<1> QED BY <1>1, <1>2, <1>3

LEMMA PublishedTargets ==
  ASSUME TypeOK, NEW keys, NEW values \in [OwnKeys -> Values]
  PROVE  Published(keys, values) \in [OwnKeys -> Values]
  BY DEF Published, TypeOK

LEMMA OnErrorTypes ==
  ASSUME TypeOK, OnError, command_rejected' \in BOOLEAN,
         command' \in [OwnKeys -> Values], framework' \in [OwnKeys -> Values],
         ~Managed => framework' = command'
  PROVE  TypeOK'
  BY DEF TypeOK, OnError, NotActive, feedback, NoSwitch, Nothing

LEMMA ConsumedTargets == TypeOK => Consumed \in [OwnKeys -> Values]
  BY DEF TypeOK, Consumed

LEMMA TypeStep == TypeOK /\ [Next]_vars => TypeOK'
<1> SUFFICES ASSUME TypeOK, [Next]_vars PROVE TypeOK'
  OBVIOUS
<1>1. CASE PrepareCommandModeSwitch
  <2>1. switch' \in [start : SUBSET Keys, stop : SUBSET Keys]
    <3>1. PICK r \in Requests : switch' = r
      BY <1>1 DEF PrepareCommandModeSwitch
    <3>2. r \in [start : SUBSET Keys, stop : SUBSET owned]
      BY DEF Requests
    <3> QED BY <3>1, <3>2 DEF TypeOK, Keys
  <2> QED BY <1>1, <2>1 DEF TypeOK, PrepareCommandModeSwitch, driver, feedback, history
<1>2. CASE PerformRejects
  BY <1>2 DEF TypeOK, PerformRejects, SwitchOwners, NoSwitch, driver, feedback, history
<1>3. ASSUME PerformApplies,
             command_sync_failed' \in BOOLEAN, framework' \in [OwnKeys -> Values],
             ~Managed => framework' = Applied
      PROVE  TypeOK'
  <2>1. assigned' \in [OwnKeys -> Values \cup {None}]
    BY <1>3, InitialTargets DEF PerformApplies, TypeOK
  <2>2. /\ claimed' = Modes /\ command' = Applied
        /\ authored' \subseteq Modes /\ outlived' \subseteq Modes
    BY <1>3 DEF PerformApplies
  <2>3. given' \in [OwnKeys -> SUBSET Values]
    BY <1>3, InitialTargets DEF PerformApplies, TypeOK
  <2> QED BY <1>3, <2>1, <2>2, <2>3, InitialTargets
          DEF PerformApplies, TypeOK, SwitchOwners, NoSwitch, feedback
<1>4. CASE PerformSucceeds
  <2>1. framework' \in [OwnKeys -> Values]
    BY <1>4, InitialTargets, PublishedTargets DEF PerformSucceeds
  <2> QED BY <1>3, <1>4, <2>1 DEF PerformSucceeds, TypeOK
<1>5. CASE PerformFailsToSync
  <2>1. framework' \in [OwnKeys -> Values]
    BY <1>5, InitialTargets, PublishedTargets DEF PerformFailsToSync
  <2> QED BY <1>3, <1>5, <2>1 DEF PerformFailsToSync
<1>6. CASE Configure
  BY <1>6 DEF TypeOK, Configure, driver, feedback, history
<1>7. CASE Activate
  <2>1. framework' \in [OwnKeys -> Values] /\ (~Managed => framework' = command)
    BY <1>7, PublishedTargets DEF Activate, AtActivation, TypeOK
  <2>2. assigned' \in [OwnKeys -> Values \cup {None}]
    BY <1>7 DEF Activate, TypeOK
  <2> QED BY <1>7, <2>1, <2>2 DEF TypeOK, Activate
<1>8. CASE Deactivate
  BY <1>8 DEF TypeOK, Deactivate, Leaves, NotActive, feedback, history
<1>9. CASE Cleanup
  BY <1>9 DEF TypeOK, Cleanup, Leaves, NotActive, feedback, history
<1>10. CASE ActivateFails
  BY <1>10, OnErrorTypes DEF TypeOK, ActivateFails
<1>11. CASE ActivateFailsToSync
  <2>1. framework' \in [OwnKeys -> Values]
    BY <1>11, PublishedTargets DEF ActivateFailsToSync, TypeOK
  <2> QED BY <1>11, <2>1, OnErrorTypes DEF TypeOK, ActivateFailsToSync
<1>12. CASE ReadFails
  BY <1>12, OnErrorTypes DEF TypeOK, ReadFails
<1>13. CASE WriteFails
  BY <1>13, OnErrorTypes, ConsumedTargets DEF TypeOK, WriteFails, Consumed
<1>14. CASE WriteRefuses
  BY <1>14, OnErrorTypes, ConsumedTargets DEF TypeOK, WriteRefuses, Consumed
<1>15. CASE WriteRejects
  BY <1>15, OnErrorTypes, ConsumedTargets DEF TypeOK, WriteRejects, Consumed
<1>16. CASE WriteSucceeds
  BY <1>16, ConsumedTargets DEF TypeOK, WriteSucceeds, Consumed, feedback, history
<1>17. CASE ControllerWrites
  <2>1. given' \in [OwnKeys -> SUBSET Values]
    BY <1>17 DEF TypeOK, ControllerWrites
  <2> QED BY <1>17, <2>1 DEF TypeOK, ControllerWrites, feedback
<1>18. CASE Feedback
  BY <1>18 DEF TypeOK, Feedback, driver, history
<1>19. CASE UNCHANGED vars
  BY <1>19 DEF TypeOK, vars, driver, feedback, history
<1> QED BY <1>1, <1>2, <1>4, <1>5, <1>6, <1>7, <1>8, <1>9, <1>10, <1>11, <1>12,
           <1>13, <1>14, <1>15, <1>16, <1>17, <1>18, <1>19 DEF Next

\* Every variable keeps its type, authored targets are of claimed interfaces, and
\* without managed interfaces the framework writes the driver's own storage.
THEOREM TypeCorrect == Spec => []TypeOK
  BY TypeInit, TypeStep, PTL DEF Spec

-----------------------------------------------------------------------------
(* One interface per joint.                                                 *)

LEMMA ClaimsInit == Init => ClaimsInv
  BY DEF Init, ClaimsInv, OneEach, ModesAfter, NoSwitch

LEMMA ClaimsStep == TypeOK /\ ClaimsInv /\ [Next]_vars => ClaimsInv'
<1> SUFFICES ASSUME TypeOK, ClaimsInv, [Next]_vars PROVE ClaimsInv'
  OBVIOUS
<1>1. ASSUME UNCHANGED claimed, switch' = NoSwitch PROVE ClaimsInv'
  BY <1>1 DEF ClaimsInv, ModesAfter, NoSwitch, OneEach
<1>2. ASSUME UNCHANGED <<claimed, switch>> PROVE ClaimsInv'
  BY <1>2 DEF ClaimsInv, ModesAfter, OneEach
<1>3. CASE PrepareCommandModeSwitch
  <2>1. PICK r \in Requests :
          switch' = r /\ ValidateCommandModeSwitch(r.start, r.stop)
    BY <1>3 DEF PrepareCommandModeSwitch
  <2>2. ModesAfter(r.start, r.stop) \in SUBSET OwnKeys
    BY DEF ModesAfter, TypeOK
  <2>3. OneEach(ModesAfter(r.start, r.stop))
    BY <2>1, <2>2, AtMostOneIsOne DEF ValidateCommandModeSwitch
  <2>4. UNCHANGED claimed
    BY <1>3 DEF PrepareCommandModeSwitch, driver
  <2> QED BY <2>1, <2>3, <2>4 DEF ClaimsInv, ModesAfter, OneEach
<1>4. ASSUME PerformApplies PROVE ClaimsInv'
  <2>1. claimed' = ModesAfter(switch.start, switch.stop) /\ switch' = NoSwitch
    BY <1>4 DEF PerformApplies, Modes, SwitchOwners
  <2> QED BY <2>1 DEF ClaimsInv, ModesAfter, NoSwitch, OneEach
<1>5. CASE PerformRejects
  BY <1>1, <1>5 DEF PerformRejects, SwitchOwners, driver
<1>6. CASE PerformSucceeds \/ PerformFailsToSync
  BY <1>4, <1>6 DEF PerformSucceeds, PerformFailsToSync
<1>7. CASE Configure \/ Activate \/ Deactivate \/ Cleanup
  BY <1>2, <1>7 DEF Configure, Activate, Deactivate, Cleanup, Leaves, driver
<1>8. CASE ActivateFails \/ ActivateFailsToSync \/ ReadFails \/ WriteFails
             \/ WriteRefuses \/ WriteRejects
  BY <1>1, <1>8 DEF ActivateFails, ActivateFailsToSync, ReadFails, WriteFails,
     WriteRefuses, WriteRejects, OnError
<1>9. CASE WriteSucceeds \/ ControllerWrites \/ Feedback \/ UNCHANGED vars
  BY <1>2, <1>9 DEF WriteSucceeds, ControllerWrites, Feedback, vars, driver
<1> QED BY <1>3, <1>5, <1>6, <1>7, <1>8, <1>9 DEF Next

\* A switch that was validated when it was prepared leaves at most one claimed
\* interface per joint when it is performed, with any number of joints and any
\* errors between (prepare_command_mode_switch, perform_command_mode_switch).
THEOREM ExclusiveClaims == Spec => []OneInterfacePerJoint
<1>1. Init => TypeOK /\ ClaimsInv
  BY TypeInit, ClaimsInit
<1>2. TypeOK /\ ClaimsInv /\ [Next]_vars => (TypeOK /\ ClaimsInv)'
  BY TypeStep, ClaimsStep
<1>3. TypeOK /\ ClaimsInv => OneInterfacePerJoint
  BY DEF ClaimsInv, OneEach, OneInterfacePerJoint
<1> QED BY <1>1, <1>2, <1>3, PTL DEF Spec

-----------------------------------------------------------------------------
(* What is sent.                                                            *)

LEMMA TargetsInit == Init => AssignedInv /\ GivenInv /\ AuthoredInv
  BY DEF Init, AssignedInv, GivenInv, AuthoredInv

LEMMA AssignedStep == TypeOK /\ AssignedInv /\ [Next]_vars => AssignedInv'
<1> SUFFICES ASSUME TypeOK, AssignedInv, [Next]_vars PROVE AssignedInv'
  OBVIOUS
<1> USE DEF AssignedInv, Synchronized, Consumed
<1>1. ASSUME UNCHANGED <<active, claimed, command, framework, command_sync_failed,
                         assigned>>
      PROVE  AssignedInv'
  BY <1>1
<1>2. CASE PrepareCommandModeSwitch \/ PerformRejects \/ Configure \/ Feedback
             \/ UNCHANGED vars
  BY <1>1, <1>2 DEF PrepareCommandModeSwitch, PerformRejects, Configure, Feedback, vars,
     driver, history
<1>3. CASE PerformSucceeds
  <2>1. SUFFICES ASSUME NEW k \in Modes, active, Synchronized
                 PROVE  assigned'[k] = Consumed'[k]
    BY <1>3 DEF PerformSucceeds, PerformApplies
  <2>2. k \in OwnKeys
    BY InitialTargets
  <2>3. CASE k \in NewlyClaimed
    <3>1. assigned'[k] = InitialTarget(k)
      BY <1>3, <2>2, <2>3 DEF PerformSucceeds, PerformApplies
    <3>2. Applied[k] = InitialTarget(k)
      BY <2>2, <2>3 DEF Applied
    <3>3. Consumed'[k] = Applied[k]
      BY <1>3, <2>2, <2>3 DEF PerformSucceeds, PerformApplies, Published
    <3> QED BY <3>1, <3>2, <3>3
  <2>4. CASE k \notin NewlyClaimed
    <3>1. k \in claimed /\ assigned'[k] = assigned[k]
      BY <1>3, <2>1, <2>2, <2>4 DEF PerformSucceeds, PerformApplies, NewlyClaimed
    <3>2. Consumed'[k] = Consumed[k]
      BY <1>3, <2>2, <2>4 DEF PerformSucceeds, PerformApplies, Published, Applied, TypeOK
    <3> QED BY <2>1, <3>1, <3>2
  <2> QED BY <2>3, <2>4
<1>4. CASE PerformFailsToSync
  BY <1>4 DEF PerformFailsToSync
<1>5. CASE Activate
  <2>1. SUFFICES ASSUME NEW k \in claimed PROVE assigned'[k] = Consumed'[k]
    BY <1>5 DEF Activate
  <2>2. k \in OwnKeys
    BY DEF TypeOK
  <2>3. assigned'[k] = command[k]
    BY <1>5, <2>2 DEF Activate
  <2>4. Consumed'[k] = command[k]
    BY <1>5, <2>2 DEF Activate, AtActivation, Published
  <2> QED BY <2>3, <2>4
<1>6. CASE Deactivate \/ Cleanup \/ ActivateFails \/ ActivateFailsToSync \/ ReadFails
             \/ WriteFails \/ WriteRefuses \/ WriteRejects
  BY <1>6 DEF Deactivate, Cleanup, Leaves, ActivateFails, ActivateFailsToSync, ReadFails,
     WriteFails, WriteRefuses, WriteRejects, OnError, NotActive
<1>7. CASE WriteSucceeds
  BY <1>7 DEF WriteSucceeds, history
<1>8. CASE ControllerWrites
  <2>1. PICK k \in owned, v \in Values :
          /\ framework' = [framework EXCEPT ![k] = v]
          /\ command' = IF Managed THEN command ELSE framework'
          /\ assigned' = IF k \in claimed THEN [assigned EXCEPT ![k] = v] ELSE assigned
          /\ UNCHANGED <<active, claimed, command_sync_failed>>
    BY <1>8 DEF ControllerWrites
  <2>2. SUFFICES ASSUME NEW l \in claimed, active, Synchronized
                 PROVE  assigned'[l] = Consumed'[l]
    BY <2>1
  <2>3. l \in OwnKeys /\ framework \in [OwnKeys -> Values]
        /\ assigned \in [OwnKeys -> Values \cup {None}]
    BY DEF TypeOK
  <2>4. Consumed'[l] = framework'[l] /\ Consumed[l] = framework[l]
    BY <2>1 DEF TypeOK
  <2>5. CASE l = k
    BY <2>1, <2>3, <2>4, <2>5
  <2>6. CASE l # k
    BY <2>1, <2>2, <2>3, <2>4, <2>6
  <2> QED BY <2>5, <2>6
<1> QED BY <1>2, <1>3, <1>4, <1>5, <1>6, <1>7, <1>8 DEF Next

LEMMA GivenStep == TypeOK /\ GivenInv /\ [Next]_vars => GivenInv'
<1> SUFFICES ASSUME TypeOK, GivenInv, [Next]_vars PROVE GivenInv'
  OBVIOUS
<1> USE DEF GivenInv, Synchronized, Consumed
<1>1. ASSUME UNCHANGED <<claimed, given, framework, command_sync_failed>>,
             command' = command \/ (Synchronized /\ command' = Consumed)
      PROVE  GivenInv'
  BY <1>1 DEF TypeOK
<1>2. CASE PrepareCommandModeSwitch \/ PerformRejects \/ Configure \/ Deactivate
             \/ Cleanup \/ Feedback \/ UNCHANGED vars
  BY <1>1, <1>2 DEF PrepareCommandModeSwitch, PerformRejects, Configure, Deactivate,
     Cleanup, Leaves, Feedback, vars, driver, history
<1>3. ASSUME PerformApplies, NEW k \in Modes
      PROVE  /\ Applied[k] \in given'[k]
             /\ k \notin NewlyClaimed => k \in claimed /\ given'[k] = given[k]
  <2>1. k \in OwnKeys
    BY InitialTargets
  <2>2. CASE k \in NewlyClaimed
    <3>1. Applied[k] = InitialTarget(k)
      BY <2>1, <2>2 DEF Applied
    <3>2. given'[k] = {InitialTarget(k)}
      BY <1>3, <2>1, <2>2 DEF PerformApplies
    <3> QED BY <2>2, <3>1, <3>2
  <2>3. CASE k \notin NewlyClaimed
    <3>1. k \in claimed /\ Applied[k] = command[k]
      BY <1>3, <2>1, <2>3 DEF Applied, NewlyClaimed
    <3>2. given'[k] = given[k]
      BY <1>3, <2>1, <2>3 DEF PerformApplies
    <3> QED BY <3>1, <3>2
  <2> QED BY <2>2, <2>3
<1>4. CASE PerformSucceeds
  <2>1. claimed' = Modes /\ command' = Applied /\ PerformApplies
    BY <1>4 DEF PerformSucceeds, PerformApplies
  <2>2. ASSUME NEW k \in Modes, Synchronized PROVE framework'[k] \in given'[k]
    <3>1. k \in OwnKeys
      BY InitialTargets
    <3>2. CASE framework'[k] = Applied[k]
      BY <1>3, <2>1, <3>2
    <3>3. CASE framework'[k] # Applied[k]
      <4>1. Managed /\ k \notin NewlyClaimed /\ framework'[k] = framework[k]
        BY <1>4, <3>1, <3>3 DEF PerformSucceeds, Published
      <4> QED BY <1>3, <2>1, <2>2, <4>1
    <3> QED BY <3>2, <3>3
  <2>3. Synchronized' => Synchronized
    BY <1>4 DEF PerformSucceeds
  <2> QED BY <1>3, <2>1, <2>2, <2>3
<1>5. CASE PerformFailsToSync
  <2>1. claimed' = Modes /\ command' = Applied /\ PerformApplies
    BY <1>5 DEF PerformFailsToSync, PerformApplies
  <2> QED BY <1>3, <1>5, <2>1 DEF PerformFailsToSync
<1>6. CASE Activate
  <2>1. \A k \in claimed : Consumed'[k] = command[k]
    BY <1>6 DEF Activate, AtActivation, Published, TypeOK
  <2> QED BY <1>6, <2>1 DEF Activate
<1>7. CASE ActivateFailsToSync
  <2>1. \A k \in claimed : framework'[k] \in {framework[k], command[k]}
    BY <1>7 DEF ActivateFailsToSync, Published, TypeOK
  <2> QED BY <1>7, <2>1 DEF ActivateFailsToSync, OnError
<1>8. CASE ActivateFails \/ ReadFails \/ WriteFails \/ WriteRefuses \/ WriteRejects
  BY <1>1, <1>8 DEF ActivateFails, ReadFails, WriteFails, WriteRefuses, WriteRejects,
     OnError, Sends, Refuses, Rejects, InStep
<1>9. CASE WriteSucceeds
  BY <1>1, <1>9 DEF WriteSucceeds, Sends, InStep, history
<1>10. CASE ControllerWrites
  <2>1. PICK k \in owned, v \in Values :
          /\ framework' = [framework EXCEPT ![k] = v]
          /\ command' = IF Managed THEN command ELSE framework'
          /\ given' = IF k \in claimed THEN [given EXCEPT ![k] = @ \cup {v}] ELSE given
          /\ UNCHANGED <<claimed, command_sync_failed>>
    BY <1>10 DEF ControllerWrites
  <2>2. ASSUME NEW l \in claimed
        PROVE  /\ given[l] \subseteq given'[l]
               /\ framework'[l] = framework[l] \/ framework'[l] \in given'[l]
    BY <2>1 DEF TypeOK
  <2> QED BY <2>1, <2>2 DEF TypeOK
<1> QED BY <1>2, <1>4, <1>5, <1>6, <1>7, <1>8, <1>9, <1>10 DEF Next

\* No write sends a target from before the switch that claimed its interface.  For every
\* claim, one that outlived errors and restarts too, it sends the target given last, and
\* that is one the interface was given since the claim, whoever owns the storage (write).
THEOREM NoStaleTargets == Spec => []SentTargetsWereAssigned
<1> DEFINE Inv == TypeOK /\ AssignedInv /\ GivenInv
<1>1. Init => Inv
  BY TypeInit, TargetsInit
<1>2. Inv /\ [Next]_vars => Inv'
  BY TypeStep, AssignedStep, GivenStep
<1>3. Inv => SentTargetsWereAssigned
  BY DEF AssignedInv, GivenInv, Synchronized, SentTargetsWereAssigned, Sends, InStep
<1> QED BY <1>1, <1>2, <1>3, PTL DEF Spec

-----------------------------------------------------------------------------
(* What is rejected.                                                        *)

LEMMA AuthoredStep == TypeOK /\ AuthoredInv /\ [Next]_vars => AuthoredInv'
<1> SUFFICES ASSUME TypeOK, AuthoredInv, [Next]_vars PROVE AuthoredInv'
  OBVIOUS
<1> USE DEF AuthoredInv, Synchronized, Consumed
<1>1. ASSUME UNCHANGED <<claimed, authored, framework, command_sync_failed>>,
             command' = command \/ (Synchronized /\ command' = Consumed)
      PROVE  AuthoredInv'
  BY <1>1 DEF TypeOK
<1>2. CASE PrepareCommandModeSwitch \/ PerformRejects \/ Configure \/ Deactivate
             \/ Cleanup \/ Feedback \/ UNCHANGED vars
  BY <1>1, <1>2 DEF PrepareCommandModeSwitch, PerformRejects, Configure, Deactivate,
     Cleanup, Leaves, Feedback, vars, driver, history
<1>3. ASSUME PerformApplies, NEW k \in Modes
      PROVE  /\ Applied[k] = Bad => k \in authored'
             /\ k \notin NewlyClaimed /\ k \in authored => k \in authored'
  <2>1. k \in OwnKeys /\ k[1] \in Joints
    BY InitialTargets DEF OwnKeys
  <2>2. CASE k \in NewlyClaimed
    <3>1. Applied[k] = InitialTarget(k)
      BY <2>1, <2>2 DEF Applied
    <3>2. k[2] = "position" => measured[k[1]] # Bad
      BY <1>3, <2>2 DEF PerformApplies, ApplyCommandModes, ValidateCommandModes, NewlyClaimed
    <3>3. InitialTarget(k) # Bad
      BY <3>2, InterfacesAssumption DEF InitialTarget
    <3> QED BY <2>2, <3>1, <3>3
  <2>3. CASE k \notin NewlyClaimed
    <3>1. k \in claimed /\ Applied[k] = command[k]
      BY <1>3, <2>1, <2>3 DEF Applied, NewlyClaimed
    <3>2. k \in authored => k \in authored'
      BY <1>3, <2>3 DEF PerformApplies
    <3> QED BY <3>1, <3>2
  <2> QED BY <2>2, <2>3
<1>4. CASE PerformSucceeds
  <2>1. claimed' = Modes /\ command' = Applied /\ PerformApplies
    BY <1>4 DEF PerformSucceeds, PerformApplies
  <2>2. ASSUME NEW k \in Modes, Synchronized, framework'[k] = Bad PROVE k \in authored'
    <3>1. k \in OwnKeys
      BY InitialTargets
    <3>2. CASE framework'[k] = Applied[k]
      BY <1>3, <2>1, <2>2, <3>2
    <3>3. CASE framework'[k] # Applied[k]
      <4>1. Managed /\ k \notin NewlyClaimed /\ framework'[k] = framework[k]
        BY <1>4, <3>1, <3>3 DEF PerformSucceeds, Published
      <4>2. k \in claimed
        BY <2>2, <4>1 DEF NewlyClaimed
      <4> QED BY <1>3, <2>1, <2>2, <4>1, <4>2
    <3> QED BY <3>2, <3>3
  <2>3. Synchronized' => Synchronized
    BY <1>4 DEF PerformSucceeds
  <2> QED BY <1>3, <2>1, <2>2, <2>3
<1>5. CASE PerformFailsToSync
  <2>1. claimed' = Modes /\ command' = Applied /\ PerformApplies
    BY <1>5 DEF PerformFailsToSync, PerformApplies
  <2> QED BY <1>3, <1>5, <2>1 DEF PerformFailsToSync
<1>6. CASE Activate
  <2>1. \A k \in claimed : Consumed'[k] = command[k]
    BY <1>6 DEF Activate, AtActivation, Published, TypeOK
  <2> QED BY <1>6, <2>1 DEF Activate
<1>7. CASE ActivateFailsToSync
  <2>1. \A k \in claimed : framework'[k] \in {framework[k], command[k]}
    BY <1>7 DEF ActivateFailsToSync, Published, TypeOK
  <2> QED BY <1>7, <2>1 DEF ActivateFailsToSync, OnError
<1>8. CASE ActivateFails \/ ReadFails \/ WriteFails \/ WriteRefuses \/ WriteRejects
  BY <1>1, <1>8 DEF ActivateFails, ReadFails, WriteFails, WriteRefuses, WriteRejects,
     OnError, Sends, Refuses, Rejects, InStep
<1>9. CASE WriteSucceeds
  BY <1>1, <1>9 DEF WriteSucceeds, Sends, InStep, history
<1>10. CASE ControllerWrites
  <2>1. PICK k \in owned, v \in Values :
          /\ framework' = [framework EXCEPT ![k] = v]
          /\ command' = IF Managed THEN command ELSE framework'
          /\ authored' = authored \cup ({k} \cap claimed)
          /\ UNCHANGED <<claimed, command_sync_failed>>
    BY <1>10 DEF ControllerWrites
  <2>2. \A l \in claimed : l # k => framework'[l] = framework[l]
    BY <2>1 DEF TypeOK
  <2> QED BY <2>1, <2>2 DEF TypeOK
<1> QED BY <1>2, <1>4, <1>5, <1>6, <1>7, <1>8, <1>9, <1>10 DEF Next

\* An initial target never rejects a batch: position targets are measured within
\* the limits when they are applied, whatever the time since the switch was prepared
\* (apply_command_modes).
THEOREM OnlyControllersAreRejected == Spec => []RejectionsAreAuthored
<1>1. Init => TypeOK /\ AuthoredInv
  BY TypeInit, TargetsInit
<1>2. TypeOK /\ AuthoredInv /\ [Next]_vars => (TypeOK /\ AuthoredInv)'
  BY TypeStep, AuthoredStep
<1>3. TypeOK /\ AuthoredInv => RejectionsAreAuthored
  BY DEF AuthoredInv, Synchronized, RejectionsAreAuthored, Rejects, InStep, OutOfLimits
<1> QED BY <1>1, <1>2, <1>3, PTL DEF Spec

-----------------------------------------------------------------------------
(* What errors leave behind.                                                *)

LEMMA OutlivedStep ==
  ASSUME outlived = {}, [Next]_vars, [OnError => Cleanup]_vars
  PROVE  outlived' = {}
<1>1. CASE PrepareCommandModeSwitch \/ PerformRejects \/ Configure \/ Activate
           \/ Deactivate \/ Cleanup \/ WriteSucceeds \/ Feedback \/ UNCHANGED vars
  BY <1>1 DEF PrepareCommandModeSwitch, PerformRejects, Configure, Activate, Deactivate,
     Cleanup, Leaves, WriteSucceeds, Feedback, vars, history
<1>2. CASE PerformSucceeds \/ PerformFailsToSync \/ ControllerWrites
  BY <1>2 DEF PerformSucceeds, PerformFailsToSync, PerformApplies, ControllerWrites
<1>3. CASE ActivateFails \/ ActivateFailsToSync \/ ReadFails \/ WriteFails
           \/ WriteRefuses \/ WriteRejects
  <2>1. OnError
    BY <1>3 DEF ActivateFails, ActivateFailsToSync, ReadFails, WriteFails, WriteRefuses,
       WriteRejects
  <2>2. Cleanup \/ UNCHANGED vars
    BY <2>1
  <2> QED BY <2>2 DEF Cleanup, Leaves, vars, history
<1> QED BY <1>1, <1>2, <1>3 DEF Next

\* The divergence of system_restart takes an error: hardware that is only ever stopped
\* by deactivation and cleanup sends no position target that was left from before
\* (apply_command_modes, on_error).
THEOREM StaleTargetsTakeAnError ==
  Spec /\ [][OnError => Cleanup]_vars => []InitialTargetIsMeasured
<1>1. Init => outlived = {}
  BY DEF Init
<1>2. outlived = {} /\ [Next]_vars /\ [OnError => Cleanup]_vars => (outlived = {})'
  BY OutlivedStep
<1>3. outlived = {} => InitialTargetIsMeasured
  BY DEF InitialTargetIsMeasured
<1> QED BY <1>1, <1>2, <1>3, PTL DEF Spec

\* The divergence of system_reactivate is confined to hardware on its way to the next
\* activation: active hardware never refuses a write for an old rejection (start, write).
ActiveIsNotRefused == Refuses => ~active

THEOREM ActiveHardwareIsNotRefused == Spec => []ActiveIsNotRefused
<1> DEFINE Inv == active => ~command_rejected
<1>1. Init => Inv
  BY DEF Init
<1>2. Inv /\ [Next]_vars => Inv'
  <2> SUFFICES ASSUME Inv, [Next]_vars PROVE Inv'
    OBVIOUS
  <2>1. CASE PrepareCommandModeSwitch \/ PerformRejects \/ Configure \/ Feedback
             \/ UNCHANGED vars
    BY <2>1 DEF PrepareCommandModeSwitch, PerformRejects, Configure, Feedback, vars, driver
  <2>2. CASE PerformSucceeds \/ PerformFailsToSync \/ WriteSucceeds \/ ControllerWrites
    BY <2>2 DEF PerformSucceeds, PerformFailsToSync, PerformApplies, WriteSucceeds,
       ControllerWrites
  <2>3. CASE Activate
    BY <2>3 DEF Activate
  <2>4. CASE Deactivate \/ Cleanup
    BY <2>4 DEF Deactivate, Cleanup, Leaves, NotActive
  <2>5. CASE ActivateFails \/ ActivateFailsToSync \/ ReadFails \/ WriteFails
             \/ WriteRefuses \/ WriteRejects
    BY <2>5 DEF ActivateFails, ActivateFailsToSync, ReadFails, WriteFails, WriteRefuses,
       WriteRejects, OnError, NotActive
  <2> QED BY <2>1, <2>2, <2>3, <2>4, <2>5 DEF Next
<1>3. Inv => ActiveIsNotRefused
  BY DEF ActiveIsNotRefused, Refuses
<1> QED BY <1>1, <1>2, <1>3, PTL DEF Spec
=============================================================================
