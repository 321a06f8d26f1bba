---------------------------- MODULE MotorLifecycle ----------------------------
(***************************************************************************)
(* What RobStrideDriver promises of the motors to the adapter above it,    *)
(* without frames, answers, attempts or timeouts.  A motor runs only when  *)
(* it is configured, unless it has lost its power since the last start     *)
(* that could tell; hardware becomes active only when all motors are, and  *)
(* in a clean start only when each of them has run; a motor that is        *)
(* stopped for good does not run before the next start or stop; and none   *)
(* runs behind a confirmed stop.                                           *)
(***************************************************************************)
CONSTANT Motors

VARIABLES
  phase,       \* of the hardware
  running,     \* the motors in Run mode
  configured,  \* the motors that hold the watchdog and the run mode
  restarted,   \* those that lost their power and may run without
  ran,         \* the motors in Run mode at some time since start
  stopped,     \* the motors stopped for good
  clean,       \* nothing older was on its way when start began
  confirmed    \* nor when the stop began, and it ended with the motors confirmed

vars == <<phase, running, configured, restarted, ran, stopped, clean, confirmed>>

Init ==
  /\ phase = "closed"
  /\ running = {} /\ configured = {} /\ restarted = {}
  /\ ran = {} /\ stopped = {}
  /\ clean = FALSE /\ confirmed = FALSE

-----------------------------------------------------------------------------
(* The calls.                                                               *)

Move(from, to) ==
  /\ phase = from /\ phase' = to
  /\ UNCHANGED <<running, configured, restarted, ran, stopped, clean, confirmed>>

Open == Move("closed", "inactive")
CleanUp == Move("inactive", "closing")
Close == Move("closing", "closed")

Start ==
  /\ phase = "inactive" /\ phase' = "starting"
  /\ ran' = running /\ stopped' = {}
  /\ clean' \in BOOLEAN /\ confirmed' = FALSE
  /\ restarted' \in {restarted, restarted \cap running}
  /\ restarted' # restarted => clean'
  /\ UNCHANGED <<running, configured>>

Activate ==
  /\ phase = "starting" /\ phase' = "active"
  /\ configured \cup restarted = Motors
  /\ clean => ran = Motors
  /\ ran' = {} /\ clean' = FALSE
  /\ UNCHANGED <<running, configured, restarted, stopped, confirmed>>

\* A start that fails, and an error, stop too; on_error stops once more.
Stop ==
  /\ phase \in {"inactive", "starting", "active", "stopping"} /\ phase' = "stopping"
  /\ ran' = {} /\ stopped' = {}
  /\ clean' = FALSE /\ confirmed' = FALSE
  /\ UNCHANGED <<running, configured, restarted>>

StopEnds ==
  /\ phase = "stopping" /\ phase' \in {"inactive", "closing"}
  /\ confirmed' \in BOOLEAN
  /\ confirmed' => running = {}
  /\ UNCHANGED <<running, configured, restarted, ran, stopped, clean>>

-----------------------------------------------------------------------------
(* The motors.                                                              *)

Configure(m) ==
  /\ configured' = configured \cup {m}
  /\ UNCHANGED <<phase, running, restarted, ran, stopped, clean, confirmed>>

\* Enabled, by start, by a recovery or by a late frame of either.
Run(m) ==
  /\ m \in (configured \cup restarted) \ stopped
  /\ ~confirmed
  /\ running' = running \cup {m}
  /\ ran' = IF phase = "starting" THEN ran \cup {m} ELSE ran
  /\ UNCHANGED <<phase, configured, restarted, stopped, clean, confirmed>>

\* The watchdog expires, faults are cleared, or a stop frame may be followed by others.
Rest(m) ==
  /\ running' = running \ {m}
  /\ UNCHANGED <<phase, configured, restarted, ran, stopped, clean, confirmed>>

\* The stop is the last that the motors hear of.
StopForGood(some) ==
  /\ phase \in {"stopping", "inactive", "closing", "closed"}
  /\ running' = running \ some
  /\ stopped' = stopped \cup some
  /\ UNCHANGED <<phase, configured, restarted, ran, clean, confirmed>>

PowerCycle(m) ==
  /\ running' = running \ {m}
  /\ configured' = configured \ {m}
  /\ restarted' = restarted \cup {m}
  /\ UNCHANGED <<phase, ran, stopped, clean, confirmed>>

-----------------------------------------------------------------------------
Next ==
  \/ Open \/ CleanUp \/ Close
  \/ Start \/ Activate \/ Stop \/ StopEnds
  \/ \E m \in Motors : Configure(m) \/ Run(m) \/ Rest(m) \/ PowerCycle(m)
  \/ \E some \in SUBSET Motors : StopForGood(some)

Spec == Init /\ [][Next]_vars
=============================================================================
