--------------------------- MODULE RobStrideSystem ---------------------------
(***************************************************************************)
(* The ros2_control adapter (robstride_ros2_control/src/robstride_system   *)
(* .cpp, command_mode.cpp) with the command side of the driver under it:   *)
(* which command interfaces are claimed, which targets the driver holds    *)
(* for them, and what the framework holds in its own command interfaces.   *)
(*                                                                         *)
(* A target is abstracted to whether it is within the limits: Bad stands   *)
(* for every value that send_commands rejects, NaN included.               *)
(*                                                                         *)
(* The framework is external.  It prepares a switch and later performs it, *)
(* calls read and write on hardware that is configured, and on_error when  *)
(* one of them returns ERROR.  Controllers of failed hardware end without  *)
(* a switch, since hardware in error is not asked to perform one.          *)
(***************************************************************************)
EXTENDS Integers, FiniteSets

CONSTANTS
  Joints, Foreign,   \* joints of this hardware and of other hardware
  Interfaces,        \* "position" and others, whose neutral target is 0
  Targets,           \* targets within the limits
  Bad,
  None,
  Managed,           \* ROBSTRIDE_ROS2_USE_MANAGED_INTERFACES
  MaxKeys            \* bound: interfaces started, and stopped, in one switch

Values == Targets \cup {Bad}
OwnKeys == Joints \X Interfaces
Keys == OwnKeys \cup (Joints \X {"unsupported"}) \cup (Foreign \X {"position"})

ASSUME InterfacesAssumption ==
  /\ IsFiniteSet(Joints) /\ IsFiniteSet(Interfaces)
  /\ "position" \in Interfaces /\ "unsupported" \notin Interfaces
  /\ 0 \in Targets /\ Bad \notin Targets /\ None \notin Values
  /\ Joints \cap Foreign = {}
  /\ Managed \in BOOLEAN

VARIABLES
  hardware,          \* the lifecycle state
  active, command_rejected,      \* active_, command_rejected_ of the driver
  claimed, command,  \* joint.claimed, joint.command
  measured, fresh,   \* joint.feedback.position and whether it is recent
  framework,         \* the framework's command interfaces
  command_sync_failed,
  switch,            \* the switch the framework has prepared
  owned,             \* keys owned by running controllers
  assigned,          \* history: the target each claimed interface was given last
  given,             \* history: those it was given since it was claimed
  authored,          \* history: claimed keys a controller has written
  outlived           \* history: claims from before an error, with their targets

driver == <<active, command_rejected, claimed, command>>
feedback == <<measured, fresh>>
history == <<assigned, given, authored, outlived>>
vars == <<hardware, driver, feedback, framework, command_sync_failed, switch,
          owned, history>>

NoSwitch == [start |-> {}, stop |-> {}]
Nothing == [k \in OwnKeys |-> None]

Init ==
  /\ hardware = "unconfigured"
  /\ active = FALSE
  /\ command_rejected = FALSE
  /\ claimed = {}
  /\ command = [k \in OwnKeys |-> IF k[2] = "position" THEN Bad ELSE 0]
  /\ measured = [j \in Joints |-> Bad]
  /\ fresh = [j \in Joints |-> FALSE]
  /\ framework = command
  /\ command_sync_failed = FALSE
  /\ switch = NoSwitch
  /\ owned = {}
  /\ assigned = Nothing
  /\ given = [k \in OwnKeys |-> {}]
  /\ authored = {} /\ outlived = {}

-----------------------------------------------------------------------------
(* Command modes: command_mode.cpp and the driver's validation.             *)

\* set_owned_interface: keys of other hardware are accepted and ignored, but a
\* key of an own joint must be one of its interfaces.
Known(keys) == \A k \in keys : k[1] \in Joints => k \in OwnKeys

ModesAfter(start, stop) == (claimed \ stop) \cup (start \cap OwnKeys)

\* Mutant: two active command interfaces pass.
AtMostTwoEach(modes) ==
  \A j \in Joints : Cardinality({k \in modes : k[1] = j}) <= 2
AtMostOneEach(modes) ==
  \A j \in Joints : Cardinality({k \in modes : k[1] = j}) <= 1

ValidateCommandModeSwitch(start, stop) ==
  Known(start \cup stop) /\ AtMostOneEach(ModesAfter(start, stop))

\* validate_command_modes_locked: position control starts from recent feedback
\* within the limits.
ValidateCommandModes(modes) ==
  \A k \in modes \ claimed :
    k[2] = "position" => fresh[k[1]] /\ measured[k[1]] # Bad

\* The framework starts what nobody owns and stops what somebody owns.
Requests ==
  {r \in [start : SUBSET Keys, stop : SUBSET owned] :
     /\ Cardinality(r.start) <= MaxKeys
     /\ Cardinality(r.stop) <= MaxKeys
     /\ r.start \cap (owned \ r.stop) = {}
     /\ r # NoSwitch}

PrepareCommandModeSwitch ==
  /\ hardware # "unconfigured"
  /\ switch = NoSwitch
  /\ \E r \in Requests :
       /\ ValidateCommandModeSwitch(r.start, r.stop)
       /\ ValidateCommandModes(ModesAfter(r.start, r.stop))
       /\ switch' = r
  /\ UNCHANGED <<hardware, driver, feedback, framework, command_sync_failed,
                 owned, history>>

-----------------------------------------------------------------------------
(* perform_command_mode_switch.                                             *)

Modes == ModesAfter(switch.start, switch.stop)
NewlyClaimed == Modes \ claimed

InitialTarget(k) == IF k[2] = "position" THEN measured[k[1]] ELSE 0

Applied == [k \in OwnKeys |-> IF k \in NewlyClaimed THEN InitialTarget(k)
                              ELSE command[k]]

\* apply_command_modes validates once more.  Mutant: it relies on prepare.
ApplyWithoutValidation == TRUE
ApplyCommandModes == ValidateCommandModes(Modes)

\* Mutant: the framework keeps the values it had before the switch.
NothingPublished(keys, values) == framework
Published(keys, values) ==
  [k \in OwnKeys |-> IF k \in keys THEN values[k] ELSE framework[k]]

\* The framework takes the switch to be done, whatever the result.
SwitchOwners ==
  /\ owned' = (owned \ switch.stop) \cup (switch.start \cap OwnKeys)
  /\ switch' = NoSwitch

PerformRejects ==
  /\ switch # NoSwitch
  /\ (Managed /\ command_sync_failed) \/ ~ApplyCommandModes
  /\ SwitchOwners
  /\ UNCHANGED <<hardware, driver, feedback, framework, command_sync_failed,
                 history>>

PerformApplies ==
  /\ switch # NoSwitch
  /\ ~(Managed /\ command_sync_failed)
  /\ ApplyCommandModes
  /\ claimed' = Modes
  /\ command' = Applied
  /\ assigned' = [k \in OwnKeys |-> IF k \in NewlyClaimed THEN InitialTarget(k)
                                    ELSE IF k \in Modes THEN assigned[k]
                                    ELSE None]
  /\ given' = [k \in OwnKeys |-> IF k \in NewlyClaimed THEN {InitialTarget(k)}
                                 ELSE IF k \in Modes THEN given[k]
                                 ELSE {}]
  /\ authored' = (authored \cap Modes) \ NewlyClaimed
  /\ outlived' = (outlived \cap Modes) \ NewlyClaimed
  /\ SwitchOwners
  /\ UNCHANGED <<hardware, active, command_rejected, feedback>>

\* publish_selected writes the new targets into the framework's interfaces, or
\* fails at one that is in use, with some of them written.
PerformSucceeds ==
  /\ PerformApplies
  /\ framework' = IF Managed THEN Published(NewlyClaimed, Applied) ELSE Applied
  /\ UNCHANGED command_sync_failed

PerformFailsToSync ==
  /\ Managed
  /\ PerformApplies
  /\ \E keys \in SUBSET NewlyClaimed :
       /\ keys # NewlyClaimed
       /\ framework' = Published(keys, Applied)
  /\ command_sync_failed' = TRUE

-----------------------------------------------------------------------------
(* The lifecycle.                                                           *)

Configure ==
  /\ hardware = "unconfigured"
  /\ hardware' = "inactive"
  /\ UNCHANGED <<driver, feedback, framework, command_sync_failed, switch,
                 owned, history>>

\* on_activate publishes every driver target.
AtActivation == Published(OwnKeys, command)

\* start has confirmed every motor by feedback.  What is still claimed is given the
\* target that the driver holds for it.
Activate ==
  /\ hardware = "inactive"
  /\ hardware' = "active"
  /\ active' = TRUE
  /\ command_rejected' = FALSE
  /\ fresh' = [j \in Joints |-> TRUE]
  /\ measured' \in [Joints -> Values]
  /\ framework' = IF Managed THEN AtActivation ELSE framework
  /\ command_sync_failed' = FALSE
  /\ assigned' = [k \in OwnKeys |-> IF k \in claimed THEN command[k] ELSE None]
  /\ UNCHANGED <<claimed, command, switch, owned, given, authored, outlived>>

\* The driver's stop and close.  Mutant: it goes on sending.
StillActive == UNCHANGED active
NotActive == active' = FALSE

\* Hardware is deactivated, and cleaned up, once its controllers are stopped.
Leaves(from, to) ==
  /\ hardware = from
  /\ owned = {}
  /\ hardware' = to
  /\ NotActive
  /\ UNCHANGED <<command_rejected, claimed, command, feedback, framework,
                 command_sync_failed, switch, owned, history>>

Deactivate == Leaves("active", "inactive")
Cleanup == switch = NoSwitch /\ Leaves("inactive", "unconfigured")

\* on_error, after which the controllers end.  The driver keeps the claims and their
\* targets (driver.cpp:170).
OnError ==
  /\ hardware' = "unconfigured"
  /\ NotActive
  /\ owned' = {}
  /\ switch' = NoSwitch
  /\ assigned' = Nothing
  /\ outlived' = claimed
  /\ UNCHANGED <<claimed, feedback, command_sync_failed, given, authored>>

\* start fails.
ActivateFails ==
  /\ hardware = "inactive"
  /\ OnError
  /\ UNCHANGED <<command_rejected, command, framework>>

\* start succeeds, and publishing fails with some interfaces written.
ActivateFailsToSync ==
  /\ Managed
  /\ hardware = "inactive"
  /\ command_rejected' = FALSE
  /\ \E keys \in SUBSET OwnKeys : framework' = Published(keys, command)
  /\ OnError
  /\ UNCHANGED command

-----------------------------------------------------------------------------
(* The control loop.                                                        *)

\* read returns ERROR: after a failed synchronization, from update_state, or
\* because a state interface is in use.
ReadFails ==
  /\ hardware # "unconfigured"
  /\ Managed \/ active
  /\ OnError
  /\ UNCHANGED <<command_rejected, command, framework>>

\* consume takes all values or none.
Consumed == IF Managed THEN framework ELSE command

\* The outcomes of a write whose interfaces are in step with the driver's:
\* command_rejected_ is tested before active_, and a claimed target outside
\* its limits rejects the batch.
InStep == hardware # "unconfigured" /\ ~(Managed /\ command_sync_failed)
OutOfLimits == {k \in claimed : Consumed[k] = Bad}
Refuses == InStep /\ command_rejected
Rejects == InStep /\ ~command_rejected /\ active /\ OutOfLimits # {}
Sends == InStep /\ ~command_rejected /\ active /\ OutOfLimits = {}

\* The synchronization failed, or an interface is in use, or the transport is
\* unhealthy once the batch is queued.
WriteFails ==
  /\ hardware # "unconfigured"
  /\ \/ Managed /\ UNCHANGED command
     \/ Sends /\ command' = Consumed
  /\ OnError
  /\ UNCHANGED <<command_rejected, framework>>

WriteRefuses ==
  /\ Refuses
  /\ command' = Consumed
  /\ OnError
  /\ UNCHANGED <<command_rejected, framework>>

WriteRejects ==
  /\ Rejects
  /\ command' = Consumed
  /\ command_rejected' = TRUE
  /\ OnError
  /\ UNCHANGED framework

\* Hardware that is not active takes the values and sends nothing.
WriteSucceeds ==
  /\ Sends \/ (InStep /\ ~command_rejected /\ ~active)
  /\ command' = Consumed
  /\ UNCHANGED <<hardware, active, command_rejected, claimed, feedback,
                 framework, command_sync_failed, switch, owned, history>>

\* A running controller writes a target.
ControllerWrites ==
  \E k \in owned, v \in Values :
    /\ framework' = [framework EXCEPT ![k] = v]
    /\ command' = IF Managed THEN command ELSE framework'
    /\ assigned' = IF k \in claimed THEN [assigned EXCEPT ![k] = v] ELSE assigned
    /\ given' = IF k \in claimed THEN [given EXCEPT ![k] = @ \cup {v}] ELSE given
    /\ authored' = authored \cup ({k} \cap claimed)
    /\ outlived' = outlived \ {k}
    /\ UNCHANGED <<hardware, active, command_rejected, claimed, feedback,
                   command_sync_failed, switch, owned>>

\* Feedback arrives, or grows old.
Feedback ==
  /\ hardware # "unconfigured"
  /\ \E j \in Joints :
       \/ /\ fresh' = [fresh EXCEPT ![j] = TRUE]
          /\ \E v \in Values : measured' = [measured EXCEPT ![j] = v]
       \/ /\ fresh' = [fresh EXCEPT ![j] = FALSE]
          /\ UNCHANGED measured
  /\ UNCHANGED <<hardware, driver, framework, command_sync_failed, switch, owned,
                 history>>

Next ==
  \/ PrepareCommandModeSwitch
  \/ PerformRejects \/ PerformSucceeds \/ PerformFailsToSync
  \/ Configure \/ Activate \/ Deactivate \/ Cleanup
  \/ ActivateFails \/ ActivateFailsToSync
  \/ ReadFails \/ WriteFails \/ WriteRefuses \/ WriteRejects \/ WriteSucceeds
  \/ ControllerWrites \/ Feedback

Spec == Init /\ [][Next]_vars

-----------------------------------------------------------------------------
(* Properties.                                                              *)

\* The types of the variables; whatever is not managed is shared storage.
TypeOK ==
  /\ hardware \in {"unconfigured", "inactive", "active"}
  /\ active = (hardware = "active")
  /\ {command_rejected, command_sync_failed} \subseteq BOOLEAN
  /\ claimed \subseteq OwnKeys /\ owned \subseteq OwnKeys
  /\ authored \subseteq claimed /\ outlived \subseteq claimed
  /\ {command, framework} \subseteq [OwnKeys -> Values]
  /\ ~Managed => framework = command
  /\ measured \in [Joints -> Values] /\ fresh \in [Joints -> BOOLEAN]
  /\ switch \in [start : SUBSET Keys, stop : SUBSET Keys]
  /\ assigned \in [OwnKeys -> Values \cup {None}]
  /\ given \in [OwnKeys -> SUBSET Values]

\* A joint never has two claimed interfaces, although a switch is validated
\* when it is prepared and the claims it starts from are read again, unchecked,
\* when it is performed (robstride_system.cpp:242-251, 274-283).
OneInterfacePerJoint == \A k, l \in claimed : k[1] = l[1] => k = l

\* Whatever a write sends for a claimed interface, it was given as its target since it
\* was claimed, whatever errors and restarts lie between: never a value the framework
\* held from before the switch.  And it is the last that it was given, by the switch,
\* by its controller, or by the driver as the hardware became active
\* (robstride_system.cpp:184-185, 290-310).
SentTargetsWereAssigned ==
  Sends => \A k \in claimed : Consumed[k] = assigned[k] /\ Consumed[k] \in given[k]

\* A batch is only rejected for a target that a controller has written: an
\* initial target never brings the hardware down, because the feedback is
\* validated again when the switch is performed (driver.cpp:441).
RejectionsAreAuthored == Rejects => OutOfLimits \cap authored # {}

\* README.md:253-255 says that the initial position target is the latest
\* measured position.  A position target that is sent is then not one that was
\* left from before the hardware's last error: it is a later measurement, or a
\* controller's target.
InitialTargetIsMeasured ==
  Sends => \A k \in claimed : k[2] = "position" => k \notin outlived

\* README.md:266-267 says that, after a rejected command, one corrects it and
\* reactivates the hardware.  A rejection is then reported to the activation it
\* happened in, and hardware on its way to the next one is left alone.
RejectionEndsWithItsActivation == Refuses => active
=============================================================================
