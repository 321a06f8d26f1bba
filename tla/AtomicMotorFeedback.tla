------------------------- MODULE AtomicMotorFeedback -------------------------
(***************************************************************************)
(* The status sample of one motor (AtomicMotorFeedback in robstride_driver *)
(* /src/metrics.cpp): the executor thread stores samples, any thread loads *)
(* them, and a sequence number tells the reader of a store in between.     *)
(*                                                                         *)
(* The n-th sample is abstracted to n in every field.  The fields are      *)
(* accessed with memory_order_relaxed and the sequence number with         *)
(* memory_order_seq_cst, which orders the accesses after a load of it, and *)
(* before a store to it, but lets                                          *)
(*   - the load of a field pass the second load of the sequence, and       *)
(*   - the store to a field pass the first increment.                      *)
(* Ordered says that the processor does neither (as x86 does not).         *)
(***************************************************************************)
EXTENDS Integers

CONSTANTS
  Fields,            \* count, last_received_at_ns, ..., temperature
  Readers,
  Ordered,
  MaxStores          \* bound: samples stored

ASSUME FieldsAssumption ==
  /\ "odd" \notin Fields /\ "after" \notin Fields
  /\ Ordered \in BOOLEAN
  /\ MaxStores \in Nat

VARIABLES
  sequence,          \* sequence_
  field,             \* the stored fields
  storing,           \* the accesses that the running store has still to make
  stored,            \* samples stored
  reader,            \* "idle", "before", "fields", "returned" for each reader
  before,            \* the sequence number that the load started from
  loading,           \* the accesses that the load has still to make
  sample,            \* the fields loaded
  after,             \* the second sequence number
  floor              \* history: the samples stored when the load was called

writer == <<sequence, field, storing, stored>>
load == <<reader, before, loading, sample, after, floor>>
vars == <<writer, load>>

\* The constructor has stored the empty sample.
Init ==
  /\ sequence = 2
  /\ field = [f \in Fields |-> 0]
  /\ storing = {}
  /\ stored = 0
  /\ reader = [r \in Readers |-> "idle"]
  /\ before = [r \in Readers |-> 0]
  /\ loading = [r \in Readers |-> {}]
  /\ sample = [r \in Readers |-> [f \in Fields |-> 0]]
  /\ after = [r \in Readers |-> 0]
  /\ floor = [r \in Readers |-> 0]

-----------------------------------------------------------------------------
(* store.  The sequence is even between two stores, and while storing is    *)
(* empty a store that has begun has only the second increment to make.      *)

Busy == storing # {} \/ sequence % 2 = 1

BeginStore ==
  /\ ~Busy
  /\ stored < MaxStores
  /\ storing' = Fields \cup {"odd"}
  /\ UNCHANGED <<sequence, field, stored, load>>

Incremented == sequence + 1

FirstIncrement ==
  /\ "odd" \in storing
  /\ sequence' = Incremented
  /\ storing' = storing \ {"odd"}
  /\ UNCHANGED <<field, stored, load>>

StoreField(f) ==
  /\ f \in storing
  /\ Ordered => "odd" \notin storing
  /\ field' = [field EXCEPT ![f] = stored + 1]
  /\ storing' = storing \ {f}
  /\ UNCHANGED <<sequence, stored, load>>

\* Mutant: the second increment is left out.
StillOdd == sequence
Even == sequence + 1

\* Mutant: the fields may come after it.
FieldsMayFollow == "odd" \notin storing
FieldsComeFirst == storing = {}

SecondIncrement ==
  /\ Busy /\ FieldsComeFirst
  /\ stored < MaxStores
  /\ sequence' = Even
  /\ stored' = stored + 1
  /\ UNCHANGED <<field, storing, load>>

-----------------------------------------------------------------------------
(* load.                                                                    *)

Call(r) ==
  /\ reader[r] \in {"idle", "returned"}
  /\ reader' = [reader EXCEPT ![r] = "before"]
  /\ floor' = [floor EXCEPT ![r] = stored]
  /\ UNCHANGED <<writer, before, loading, sample, after>>

\* A reader that meets a store tries again.
LoadBefore(r) ==
  /\ reader[r] = "before"
  /\ sequence % 2 = 0
  /\ before' = [before EXCEPT ![r] = sequence]
  /\ loading' = [loading EXCEPT ![r] = Fields \cup {"after"}]
  /\ reader' = [reader EXCEPT ![r] = "fields"]
  /\ UNCHANGED <<writer, sample, after, floor>>

LoadField(r, f) ==
  /\ f \in loading[r]
  /\ sample' = [sample EXCEPT ![r][f] = field[f]]
  /\ loading' = [loading EXCEPT ![r] = loading[r] \ {f}]
  /\ UNCHANGED <<writer, reader, before, after, floor>>

LoadAfter(r) ==
  /\ "after" \in loading[r]
  /\ Ordered => loading[r] = {"after"}
  /\ after' = [after EXCEPT ![r] = sequence]
  /\ loading' = [loading EXCEPT ![r] = loading[r] \ {"after"}]
  /\ UNCHANGED <<writer, reader, before, sample, floor>>

\* Mutant: the numbers are not compared.
NotCompared(r) == TRUE
Unchanged(r) == before[r] = after[r]

Compare(r) ==
  /\ reader[r] = "fields"
  /\ loading[r] = {}
  /\ reader' = [reader EXCEPT ![r] = IF Unchanged(r) THEN "returned" ELSE "before"]
  /\ UNCHANGED <<writer, before, loading, sample, after, floor>>

-----------------------------------------------------------------------------
Store ==
  BeginStore \/ FirstIncrement \/ (\E f \in Fields : StoreField(f)) \/ SecondIncrement

Load(r) ==
  LoadBefore(r) \/ (\E f \in Fields : LoadField(r, f)) \/ LoadAfter(r) \/ Compare(r)

Next == Store \/ \E r \in Readers : Call(r) \/ Load(r)

Spec == Init /\ [][Next]_vars

\* A thread that stores or loads goes on; nobody has to call either.
FinishStore == FirstIncrement \/ (\E f \in Fields : StoreField(f)) \/ SecondIncrement

FairSpec ==
  /\ Spec
  /\ WF_vars(FinishStore)
  /\ \A r \in Readers : WF_vars(Load(r))

-----------------------------------------------------------------------------
(* Properties.                                                              *)

\* The types of the variables.  The sequence has counted two increments for the
\* constructor's store and every later one, and the first of the running store.
TypeOK ==
  /\ sequence \in Nat /\ stored \in Nat
  /\ sequence = 2 * (stored + 1) + IF Busy /\ "odd" \notin storing THEN 1 ELSE 0
  /\ field \in [Fields -> Nat]
  /\ storing \subseteq Fields \cup {"odd"}
  /\ reader \in [Readers -> {"idle", "before", "fields", "returned"}]
  /\ before \in [Readers -> Nat] /\ after \in [Readers -> Nat]
  /\ floor \in [Readers -> Nat]
  /\ loading \in [Readers -> SUBSET (Fields \cup {"after"})]
  /\ sample \in [Readers -> [Fields -> Nat]]

\* robstride_driver/README.md:30 says that metrics reads a consistent sample per
\* motor: all fields of a loaded sample come from one store.
SampleIsConsistent ==
  \A r \in Readers : reader[r] = "returned" =>
    \A f, g \in Fields : sample[r][f] = sample[r][g]

\* A load never returns a sample that was superseded before it was called, nor
\* one whose store has not ended, although it takes no lock.
SampleIsRecent ==
  \A r \in Readers : reader[r] = "returned" =>
    \A f \in Fields : sample[r][f] \in floor[r] .. stored

\* The store takes effect with the second increment, and the load with the second
\* load of the sequence number, if that finds the first number again.
HasRead(r) ==
  \/ reader[r] = "returned"
  \/ reader[r] = "fields" /\ "after" \notin loading[r] /\ Unchanged(r)

RegisterReader == [r \in Readers |->
  IF reader[r] \in {"idle", "returned"} THEN reader[r]
  ELSE IF HasRead(r) THEN "read" ELSE "called"]
RegisterValue == [r \in Readers |->
  IF HasRead(r) THEN sample[r] ELSE [f \in Fields |-> 0]]

Register == INSTANCE SampleRegister WITH
  current <- stored, reader <- RegisterReader, value <- RegisterValue

\* metrics never makes its caller or the executor wait for the other, and still a
\* load is as good as one under a lock: it takes effect at one instant of the call.
ImplementsRegister == Register!Spec

\* A load returns once no store keeps interrupting it: its loop never waits for
\* a sequence number that nobody will write.
LoadReturns == \A r \in Readers : reader[r] = "before" ~> reader[r] = "returned"
=============================================================================
