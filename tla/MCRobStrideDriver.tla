------------------------- MODULE MCRobStrideDriver -------------------------
(* Settings for model checking: two calls of start with one attempt each, or *)
(* one call with two attempts.                                              *)
EXTENDS RobStrideDriver

HandshakeSettings ==
  {[startup_retries |-> 1, stop_repetitions |-> 2,
    clear_faults_on_start |-> TRUE, set_zero_on_start |-> TRUE],
   [startup_retries |-> 2, stop_repetitions |-> 1,
    clear_faults_on_start |-> TRUE, set_zero_on_start |-> TRUE]}

\* The least that a power loss takes.
PowerLossSettings ==
  {[startup_retries |-> 1, stop_repetitions |-> 1,
    clear_faults_on_start |-> FALSE, set_zero_on_start |-> FALSE]}
=============================================================================
