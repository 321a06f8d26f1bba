----------------------------- MODULE CommandBus -----------------------------
(***************************************************************************)
(* What CanTransport promises to the driver above it, without threads,     *)
(* queues or locks.  Transactions are handed over once each and in order,  *)
(* except that one which meets no endpoint is lost, and so is what a       *)
(* failure leaves behind; the motion frames of a motor go out in the order *)
(* they were queued, skipping those a newer one has replaced; and no       *)
(* motion frame goes out of an activation that has been closed.            *)
(***************************************************************************)
EXTENDS Naturals

CONSTANT Motors

VARIABLES
  floor,    \* the oldest activation whose frames may still go out
  failed,
  sent,     \* number of send_transaction calls accepted
  handed,   \* number of the last transaction that is no longer waiting
  lost,     \* those of them that nobody was given
  last      \* per motor, generation and call of the last motion frame

vars == <<floor, failed, sent, handed, lost, last>>

Init ==
  /\ floor = 0
  /\ failed = FALSE
  /\ sent = 0
  /\ handed = 0
  /\ lost = {}
  /\ last = [m \in Motors |-> [generation |-> 0, call |-> 0]]

\* disable_active_commands has returned.
CloseActivation ==
  /\ floor' >= floor
  /\ UNCHANGED <<failed, sent, handed, lost, last>>

\* A thread fails, or a start recovers from it.
FailOrRecover ==
  /\ failed' \in BOOLEAN
  /\ UNCHANGED <<floor, sent, handed, lost, last>>

Send ==
  /\ sent' = sent + 1
  /\ UNCHANGED <<floor, failed, handed, lost, last>>

HandOver ==
  /\ handed < sent
  /\ handed' = handed + 1
  /\ UNCHANGED <<floor, failed, sent, lost, last>>

\* No endpoint takes the frame.
Drop ==
  /\ handed < sent
  /\ handed' = handed + 1
  /\ lost' = lost \cup {handed + 1}
  /\ UNCHANGED <<floor, failed, sent, last>>

\* stop gives up what a failed run has left.
WriteOff ==
  /\ failed
  /\ handed' = sent
  /\ lost' = lost \cup (handed + 1)..sent
  /\ UNCHANGED <<floor, failed, sent, last>>

PublishMotion(m) ==
  /\ last'[m].generation >= floor
  /\ last'[m].call > last[m].call
  /\ last' = [last EXCEPT ![m] = last'[m]]
  /\ UNCHANGED <<floor, failed, sent, handed, lost>>

Next ==
  \/ CloseActivation \/ FailOrRecover
  \/ Send \/ HandOver \/ Drop \/ WriteOff
  \/ \E m \in Motors : PublishMotion(m)

Spec == Init /\ [][Next]_vars
=============================================================================
