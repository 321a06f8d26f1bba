---------------------------- MODULE SampleRegister ----------------------------
(***************************************************************************)
(* What AtomicMotorFeedback promises to the threads that load the status   *)
(* of a motor, without sequence numbers, fields or retries: a register     *)
(* that is stored, and loaded, at one instant between the call and the     *)
(* return.  A loaded sample is then whole, is not older than the call, and *)
(* is not one whose store has not ended.                                   *)
(***************************************************************************)
EXTENDS Naturals

CONSTANTS Fields, Readers

VARIABLES
  current,  \* number of the current sample
  reader,   \* "idle", "called", "read" or "returned" for each reader
  value     \* the fields that a load has read, and nothing before

vars == <<current, reader, value>>

\* The n-th sample has n in every field, and the constructor's has 0.
Sample(n) == [f \in Fields |-> n]
Nothing == Sample(0)

Init ==
  /\ current = 0
  /\ reader = [r \in Readers |-> "idle"]
  /\ value = [r \in Readers |-> Nothing]

Store ==
  /\ current' = current + 1
  /\ UNCHANGED <<reader, value>>

Call(r) ==
  /\ reader[r] \in {"idle", "returned"}
  /\ reader' = [reader EXCEPT ![r] = "called"]
  /\ value' = [value EXCEPT ![r] = Nothing]
  /\ UNCHANGED current

Read(r) ==
  /\ reader[r] = "called"
  /\ reader' = [reader EXCEPT ![r] = "read"]
  /\ value' = [value EXCEPT ![r] = Sample(current)]
  /\ UNCHANGED current

Return(r) ==
  /\ reader[r] = "read"
  /\ reader' = [reader EXCEPT ![r] = "returned"]
  /\ UNCHANGED <<current, value>>

Next == Store \/ \E r \in Readers : Call(r) \/ Read(r) \/ Return(r)

Spec == Init /\ [][Next]_vars
=============================================================================
