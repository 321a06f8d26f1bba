---------------------- MODULE AtomicMotorFeedback_proofs ----------------------
(***************************************************************************)
(* A load returns one whole sample, and a recent one, for any number of    *)
(* fields, readers and stores, on a processor that keeps the accesses in   *)
(* order.                                                                  *)
(***************************************************************************)
EXTENDS AtomicMotorFeedback, TLAPS

\* The fields are those of the last sample, except that the running store has
\* written some of the next one; and it has then made the first increment.
FieldsFollowTheStore ==
  /\ \A f \in Fields :
       field[f] = IF Busy /\ f \notin storing THEN stored + 1 ELSE stored
  /\ "odd" \in storing => Fields \subseteq storing

\* The sample that a sequence number announces.
Announces(n, v) == n = 2 * (v + 1)

\* While the sequence number has not moved since a load began, the fields loaded
\* are those of the sample it announced; a second number equal to the first one
\* was then loaded after all of them.
LoadsFollowTheSequence ==
  \A r \in Readers :
    /\ reader[r] # "fields" => loading[r] = {}
    /\ reader[r] # "idle" => floor[r] <= stored
    /\ reader[r] \in {"fields", "returned"} =>
         /\ before[r] % 2 = 0
         /\ before[r] <= sequence /\ 2 * (floor[r] + 1) <= before[r]
         /\ "after" \notin loading[r] => loading[r] = {}
    /\ reader[r] = "fields" /\ before[r] = sequence =>
         \A f \in Fields \ loading[r] : Announces(before[r], sample[r][f])
    /\ \/ reader[r] = "fields" /\ "after" \notin loading[r] /\ before[r] = after[r]
       \/ reader[r] = "returned"
       => \A f \in Fields : Announces(before[r], sample[r][f])

Inv == TypeOK /\ FieldsFollowTheStore /\ LoadsFollowTheSequence

-----------------------------------------------------------------------------
LEMMA Parity ==
  ASSUME NEW n \in Nat
  PROVE  (2 * n) % 2 = 0 /\ (2 * n + 1) % 2 = 1
OBVIOUS

LEMMA InitHolds == Init => Inv
BY FieldsAssumption DEF Init, Inv, TypeOK, FieldsFollowTheStore,
   LoadsFollowTheSequence, Busy, writer, load

\* The steps of the writer: no load has read anything of the next sample while the
\* sequence number is that of the last one.
LEMMA StoreHolds ==
  ASSUME Ordered, Inv, Store
  PROVE  Inv'
<1> USE FieldsAssumption DEF Inv, load
<1>1. CASE BeginStore
  BY <1>1 DEF BeginStore, TypeOK, FieldsFollowTheStore, LoadsFollowTheSequence,
     Busy, Announces
<1>2. CASE FirstIncrement
  <2>1. TypeOK'
    BY <1>2 DEF FirstIncrement, TypeOK, Busy, Incremented
  <2>2. FieldsFollowTheStore'
    BY <1>2 DEF FirstIncrement, TypeOK, FieldsFollowTheStore, Busy, Incremented
  <2>3. LoadsFollowTheSequence'
    BY <1>2 DEF FirstIncrement, TypeOK, LoadsFollowTheSequence, Incremented, Announces
  <2> QED BY <2>1, <2>2, <2>3
<1>3. ASSUME NEW f \in Fields, StoreField(f)
      PROVE  Inv'
  <2>0. sequence = 2 * (stored + 1) + 1 /\ sequence % 2 = 1
    <3>1. sequence = 2 * (stored + 1) + 1
      BY <1>3 DEF StoreField, TypeOK, Busy
    <3>2. (2 * (stored + 1) + 1) % 2 = 1
      BY Parity DEF TypeOK
    <3> QED BY <3>1, <3>2
  <2>1. TypeOK'
    BY <1>3, <2>0 DEF StoreField, TypeOK, Busy
  <2>2. FieldsFollowTheStore'
    BY <1>3, <2>0 DEF StoreField, TypeOK, FieldsFollowTheStore, Busy
  <2>3. LoadsFollowTheSequence'
    BY <1>3 DEF StoreField, TypeOK, LoadsFollowTheSequence, Announces
  <2> QED BY <2>1, <2>2, <2>3
<1>4. CASE SecondIncrement
  <2>1. TypeOK'
    BY <1>4 DEF SecondIncrement, FieldsComeFirst, TypeOK, Busy, Even
  <2>2. FieldsFollowTheStore'
    BY <1>4 DEF SecondIncrement, FieldsComeFirst, TypeOK, FieldsFollowTheStore, Busy, Even
  <2>3. LoadsFollowTheSequence'
    BY <1>4 DEF SecondIncrement, TypeOK, LoadsFollowTheSequence, Even, Announces
  <2> QED BY <2>1, <2>2, <2>3
<1> QED BY <1>1, <1>2, <1>3, <1>4 DEF Store

\* The steps of a reader: a field loaded under an unmoved sequence number is one of
\* the announced sample, and only the last access can find the number unmoved.
LEMMA LoadHolds ==
  ASSUME Ordered, Inv, NEW r \in Readers, Call(r) \/ Load(r)
  PROVE  Inv'
<1> USE FieldsAssumption DEF Inv, writer
<1>0. FieldsFollowTheStore'
  BY DEF FieldsFollowTheStore, Busy, Call, Load, LoadBefore, LoadField, LoadAfter, Compare
<1>1. CASE Call(r)
  <2>1. TypeOK'
    BY <1>1 DEF Call, TypeOK, Busy
  <2>2. LoadsFollowTheSequence'
    BY <1>1 DEF Call, TypeOK, LoadsFollowTheSequence, Announces
  <2> QED BY <1>0, <2>1, <2>2
<1>2. CASE LoadBefore(r)
  <2>1. TypeOK'
    BY <1>2 DEF LoadBefore, TypeOK, Busy
  <2>2. LoadsFollowTheSequence'
    BY <1>2 DEF LoadBefore, TypeOK, LoadsFollowTheSequence, Announces
  <2> QED BY <1>0, <2>1, <2>2
<1>3. ASSUME NEW f \in Fields, LoadField(r, f)
      PROVE  Inv'
  <2>1. TypeOK'
    BY <1>3 DEF LoadField, TypeOK, Busy
  <2>2. reader[r] = "fields"
    BY <1>3 DEF LoadField, LoadsFollowTheSequence
  <2>3. before[r] = sequence => Announces(before[r], field[f])
    <3> SUFFICES ASSUME before[r] = sequence
                 PROVE  Announces(sequence, field[f])
      OBVIOUS
    <3>1. sequence % 2 = 0
      BY <2>2 DEF LoadsFollowTheSequence
    <3>2. sequence = 2 * (stored + 1) /\ (Busy => "odd" \in storing)
      <4>1. (2 * (stored + 1) + 1) % 2 = 1
        BY Parity DEF TypeOK
      <4>2. sequence # 2 * (stored + 1) + 1
        BY <3>1, <4>1
      <4> QED BY <4>2 DEF TypeOK
    <3>3. field[f] = stored
      BY <3>2 DEF FieldsFollowTheStore
    <3> QED BY <3>2, <3>3 DEF Announces
  <2>4. LoadsFollowTheSequence'
    BY <1>3, <2>2, <2>3 DEF LoadField, TypeOK, LoadsFollowTheSequence, Announces
  <2> QED BY <1>0, <2>1, <2>4
<1>4. CASE LoadAfter(r)
  <2>1. TypeOK'
    BY <1>4 DEF LoadAfter, TypeOK, Busy
  <2>2. LoadsFollowTheSequence'
    BY <1>4 DEF LoadAfter, TypeOK, LoadsFollowTheSequence, Announces
  <2> QED BY <1>0, <2>1, <2>2
<1>5. CASE Compare(r)
  <2>1. TypeOK'
    BY <1>5 DEF Compare, TypeOK, Busy
  <2>2. LoadsFollowTheSequence'
    BY <1>5 DEF Compare, Unchanged, TypeOK, LoadsFollowTheSequence, Announces
  <2> QED BY <1>0, <2>1, <2>2
<1> QED BY <1>1, <1>2, <1>3, <1>4, <1>5 DEF Load

LEMMA Invariance ==
  ASSUME Ordered
  PROVE  Spec => []Inv
<1>1. Inv /\ [Next]_vars => Inv'
  <2> SUFFICES ASSUME Inv, [Next]_vars PROVE Inv'
    OBVIOUS
  <2>1. CASE UNCHANGED vars
    BY <2>1 DEF vars, writer, load, Inv, TypeOK, FieldsFollowTheStore,
       LoadsFollowTheSequence, Busy
  <2>2. CASE Next
    BY <2>2, StoreHolds, LoadHolds DEF Next
  <2> QED BY <2>1, <2>2
<1> QED BY <1>1, InitHolds, PTL DEF Spec

-----------------------------------------------------------------------------
\* A returned sample is one sample, and neither older than the call nor one whose
\* store has not ended.
LEMMA ReturnedSample ==
  ASSUME Inv, NEW r \in Readers, reader[r] = "returned", NEW f \in Fields
  PROVE  /\ before[r] = 2 * (sample[r][f] + 1)
         /\ sample[r][f] \in floor[r] .. stored
<1>1. before[r] = 2 * (sample[r][f] + 1)
  BY DEF Inv, LoadsFollowTheSequence, Announces
<1>2. /\ before[r] <= sequence /\ 2 * (floor[r] + 1) <= before[r]
      /\ sequence <= 2 * (stored + 1) + 1
  BY DEF Inv, LoadsFollowTheSequence, TypeOK
<1>3. sample[r][f] \in Nat /\ floor[r] \in Nat /\ stored \in Nat
  BY DEF Inv, TypeOK
<1> DEFINE v == sample[r][f]
<1>4. v \in Nat /\ 2 * (floor[r] + 1) <= 2 * (v + 1)
      /\ 2 * (v + 1) <= 2 * (stored + 1) + 1
  BY <1>1, <1>2, <1>3 DEF Inv, TypeOK
<1> HIDE DEF v
<1>5. floor[r] <= v /\ v <= stored
  BY <1>3, <1>4
<1>6. v \in floor[r] .. stored
  BY <1>3, <1>4, <1>5
<1> QED BY <1>1, <1>6 DEF v

\* metrics returns a consistent sample of every motor (robstride_driver/README.md:30)
\* if the processor keeps the order of the accesses in AtomicMotorFeedback.
THEOREM ConsistentIfOrdered ==
  ASSUME Ordered
  PROVE  Spec => []SampleIsConsistent
<1>1. Inv => SampleIsConsistent
  <2> SUFFICES ASSUME Inv, NEW r \in Readers, reader[r] = "returned",
                      NEW f \in Fields, NEW g \in Fields
               PROVE  sample[r][f] = sample[r][g]
    BY DEF SampleIsConsistent
  <2>1. before[r] = 2 * (sample[r][f] + 1) /\ before[r] = 2 * (sample[r][g] + 1)
    BY ReturnedSample
  <2>2. sample[r][f] \in Nat /\ sample[r][g] \in Nat
    BY DEF Inv, TypeOK
  <2> QED BY <2>1, <2>2
<1> QED BY <1>1, Invariance, PTL

\* And a load without a lock never returns a sample that was superseded before it
\* was called.
THEOREM RecentIfOrdered ==
  ASSUME Ordered
  PROVE  Spec => []SampleIsRecent
<1>1. Inv => SampleIsRecent
  BY ReturnedSample DEF SampleIsRecent
<1> QED BY <1>1, Invariance, PTL

-----------------------------------------------------------------------------
\* Without the order of the accesses the sequence number still counts the stores.
LEMMA TypeHolds ==
  ASSUME TypeOK, [Next]_vars
  PROVE  TypeOK'
<1> USE FieldsAssumption
<1>0. CASE UNCHANGED vars
  BY <1>0 DEF vars, writer, load, TypeOK, Busy
<1>1. CASE BeginStore
  BY <1>1 DEF BeginStore, load, TypeOK, Busy
<1>2. CASE FirstIncrement
  BY <1>2 DEF FirstIncrement, load, TypeOK, Busy, Incremented
<1>3. ASSUME NEW f \in Fields, StoreField(f)
      PROVE  TypeOK'
  <2>1. "odd" \in storing' <=> "odd" \in storing
    BY <1>3 DEF StoreField
  <2>2. CASE "odd" \in storing
    BY <1>3, <2>1, <2>2 DEF StoreField, load, TypeOK, Busy
  <2>3. CASE "odd" \notin storing
    <3>1. sequence = 2 * (stored + 1) + 1
      BY <1>3, <2>3 DEF StoreField, TypeOK, Busy
    <3>2. stored + 1 \in Nat
      BY DEF TypeOK
    <3>3. (2 * (stored + 1) + 1) % 2 = 1
      BY <3>2, Parity
    <3> QED BY <1>3, <2>1, <2>3, <3>1, <3>3 DEF StoreField, load, TypeOK, Busy
  <2> QED BY <2>2, <2>3
<1>4. CASE SecondIncrement
  BY <1>4 DEF SecondIncrement, FieldsComeFirst, load, TypeOK, Busy, Even
<1>5. ASSUME NEW r \in Readers, Call(r) \/ Load(r)
      PROVE  TypeOK'
  <2>1. CASE Call(r)
    BY <2>1 DEF Call, writer, TypeOK, Busy
  <2>2. CASE LoadBefore(r)
    BY <2>2 DEF LoadBefore, writer, TypeOK, Busy
  <2>3. ASSUME NEW f \in Fields, LoadField(r, f)
        PROVE  TypeOK'
    BY <2>3 DEF LoadField, writer, TypeOK, Busy
  <2>4. CASE LoadAfter(r)
    BY <2>4 DEF LoadAfter, writer, TypeOK, Busy
  <2>5. CASE Compare(r)
    BY <2>5 DEF Compare, writer, TypeOK, Busy
  <2> QED BY <1>5, <2>1, <2>2, <2>3, <2>4, <2>5 DEF Load
<1> QED BY <1>0, <1>1, <1>2, <1>3, <1>4, <1>5 DEF Next, Store

\* The sequence number counts two increments for every store and one for the store
\* that runs, whatever order the processor gives the accesses.
THEOREM TypeCorrect == Spec => []TypeOK
<1>1. Init => TypeOK
  BY InitHolds DEF Inv
<1> QED BY <1>1, TypeHolds, PTL DEF Spec

-----------------------------------------------------------------------------
LEMMA InitIsARegister == Init => Register!Init
BY DEF Init, Register!Init, Register!Nothing, Register!Sample, RegisterReader,
   RegisterValue, HasRead

\* The accesses of a store hide behind the second increment.
LEMMA StoreIsARegister ==
  ASSUME Inv, Store
  PROVE  [Register!Next]_(Register!vars)
<1>1. UNCHANGED load => UNCHANGED <<RegisterReader, RegisterValue>>
  BY DEF load, RegisterReader, RegisterValue, HasRead, Unchanged
<1>2. UNCHANGED load
  BY DEF Store, BeginStore, FirstIncrement, StoreField, SecondIncrement
<1>3. CASE SecondIncrement
  <2>1. Register!Store
    BY <1>1, <1>2, <1>3 DEF SecondIncrement, Register!Store
  <2> QED BY <2>1 DEF Register!Next
<1>4. CASE ~SecondIncrement
  BY <1>1, <1>2, <1>4 DEF Store, BeginStore, FirstIncrement, StoreField, Register!vars
<1> QED BY <1>3, <1>4

\* The steps of one reader leave what the others have read alone.
LEMMA OthersKeepTheirView ==
  ASSUME Inv, NEW r \in Readers, Call(r) \/ Load(r), NEW o \in Readers \ {r}
  PROVE  RegisterReader'[o] = RegisterReader[o] /\ RegisterValue'[o] = RegisterValue[o]
<1>1. /\ reader'[o] = reader[o] /\ before'[o] = before[o]
      /\ loading'[o] = loading[o] /\ sample'[o] = sample[o] /\ after'[o] = after[o]
  BY DEF Inv, TypeOK, Load, Call, LoadBefore, LoadField, LoadAfter, Compare
<1>2. HasRead(o)' <=> HasRead(o)
  BY <1>1 DEF HasRead, Unchanged
<1> QED BY <1>1, <1>2 DEF RegisterReader, RegisterValue

\* What one step of a reader does to its view is what it does to all views.
LEMMA OneView ==
  ASSUME Inv, NEW r \in Readers, Call(r) \/ Load(r)
  PROVE  /\ RegisterReader' = [RegisterReader EXCEPT ![r] = RegisterReader'[r]]
         /\ RegisterValue' = [RegisterValue EXCEPT ![r] = RegisterValue'[r]]
BY OthersKeepTheirView DEF RegisterReader, RegisterValue

\* The load that finds the sequence number unmoved has read what is stored.
LEMMA LoadIsARegister ==
  ASSUME Ordered, Inv, NEW r \in Readers, Call(r) \/ Load(r)
  PROVE  [Register!Next]_(Register!vars)
<1> USE FieldsAssumption
<1>1. UNCHANGED stored
  BY DEF Load, Call, LoadBefore, LoadField, LoadAfter, Compare, writer
<1>2. ASSUME RegisterReader'[r] = RegisterReader[r], RegisterValue'[r] = RegisterValue[r]
      PROVE  UNCHANGED Register!vars
  <2>1. /\ RegisterReader = [o \in Readers |-> RegisterReader[o]]
        /\ RegisterValue = [o \in Readers |-> RegisterValue[o]]
    BY DEF RegisterReader, RegisterValue
  <2>2. /\ RegisterReader' = [RegisterReader EXCEPT ![r] = RegisterReader[r]]
        /\ RegisterValue' = [RegisterValue EXCEPT ![r] = RegisterValue[r]]
    BY <1>2, OneView
  <2>3. RegisterReader' = RegisterReader /\ RegisterValue' = RegisterValue
    BY <2>1, <2>2
  <2> QED BY <1>1, <2>3 DEF Register!vars
<1>3. CASE Call(r)
  <2>1. reader[r] \in {"idle", "returned"} /\ reader'[r] = "before"
    BY <1>3 DEF Call, Inv, TypeOK
  <2>2. ~HasRead(r)'
    BY <2>1 DEF HasRead
  <2>3. RegisterReader[r] \in {"idle", "returned"}
    BY <2>1 DEF RegisterReader
  <2>4. RegisterReader'[r] = "called" /\ RegisterValue'[r] = Register!Nothing
    BY <2>1, <2>2 DEF RegisterReader, RegisterValue, Register!Nothing, Register!Sample
  <2>5. Register!Call(r)
    BY <1>1, <2>3, <2>4, OneView DEF Register!Call
  <2> QED BY <2>5 DEF Register!Next
<1>4. CASE LoadBefore(r)
  <2>1. reader[r] = "before" /\ reader'[r] = "fields" /\ "after" \in loading'[r]
    BY <1>4 DEF LoadBefore, Inv, TypeOK
  <2>2. ~HasRead(r) /\ ~HasRead(r)'
    BY <2>1 DEF HasRead
  <2> QED BY <1>2, <2>1, <2>2 DEF RegisterReader, RegisterValue
<1>5. ASSUME NEW f \in Fields, LoadField(r, f)
      PROVE  [Register!Next]_(Register!vars)
  <2>1. reader[r] = "fields" /\ reader'[r] = "fields"
    BY <1>5 DEF LoadField, Inv, TypeOK, LoadsFollowTheSequence
  <2>2. "after" \in loading[r] /\ "after" \in loading'[r]
    BY <1>5, <2>1 DEF LoadField, Inv, TypeOK, LoadsFollowTheSequence
  <2>3. ~HasRead(r) /\ ~HasRead(r)'
    BY <2>1, <2>2 DEF HasRead
  <2> QED BY <1>2, <2>1, <2>3 DEF RegisterReader, RegisterValue
<1>6. CASE LoadAfter(r)
  <2>1. /\ reader[r] = "fields" /\ reader'[r] = "fields"
        /\ "after" \in loading[r] /\ "after" \notin loading'[r]
        /\ after'[r] = sequence /\ before'[r] = before[r] /\ sample'[r] = sample[r]
    BY <1>6 DEF LoadAfter, Inv, TypeOK, LoadsFollowTheSequence
  <2>2. ~HasRead(r) /\ (HasRead(r)' <=> before[r] = sequence)
    BY <2>1 DEF HasRead, Unchanged
  <2>3. CASE before[r] # sequence
    BY <1>2, <2>1, <2>2, <2>3 DEF RegisterReader, RegisterValue
  <2>4. CASE before[r] = sequence
    <3>1. \A f \in Fields : Announces(sequence, sample[r][f])
      BY <1>6, <2>1, <2>4 DEF LoadAfter, Inv, LoadsFollowTheSequence
    <3>2. sequence = 2 * (stored + 1)
      <4>1. sequence % 2 = 0
        BY <2>1, <2>4 DEF Inv, LoadsFollowTheSequence
      <4>2. stored + 1 \in Nat
        BY DEF Inv, TypeOK
      <4>3. (2 * (stored + 1) + 1) % 2 = 1
        BY <4>2, Parity
      <4> QED BY <4>1, <4>3 DEF Inv, TypeOK
    <3>3. ASSUME NEW f \in Fields PROVE sample[r][f] = stored
      <4>1. sample[r][f] \in Nat /\ stored \in Nat
        BY DEF Inv, TypeOK
      <4> QED BY <3>1, <3>2, <4>1 DEF Announces
    <3>4. sample[r] = Register!Sample(stored)
      BY <3>3 DEF Inv, TypeOK, Register!Sample
    <3>5. /\ RegisterReader[r] = "called" /\ RegisterReader'[r] = "read"
          /\ RegisterValue'[r] = Register!Sample(stored)
      BY <2>1, <2>2, <2>4, <3>4 DEF RegisterReader, RegisterValue
    <3>6. Register!Read(r)
      BY <1>1, <3>5, OneView DEF Register!Read
    <3> QED BY <3>6 DEF Register!Next
  <2> QED BY <2>3, <2>4
<1>7. CASE Compare(r)
  <2>1. /\ reader[r] = "fields" /\ loading[r] = {}
        /\ reader'[r] = IF Unchanged(r) THEN "returned" ELSE "before"
        /\ sample'[r] = sample[r]
    BY <1>7 DEF Compare, Inv, TypeOK
  <2>2. (HasRead(r) <=> Unchanged(r)) /\ (HasRead(r)' <=> Unchanged(r))
    BY <2>1 DEF HasRead
  <2>3. CASE ~Unchanged(r)
    BY <1>2, <2>1, <2>2, <2>3 DEF RegisterReader, RegisterValue
  <2>4. CASE Unchanged(r)
    <3>1. /\ RegisterReader[r] = "read" /\ RegisterReader'[r] = "returned"
          /\ RegisterValue'[r] = RegisterValue[r]
      BY <2>1, <2>2, <2>4 DEF RegisterReader, RegisterValue
    <3>2. RegisterValue' = RegisterValue
      BY <3>1, OneView DEF RegisterValue
    <3>3. Register!Return(r)
      BY <1>1, <3>1, <3>2, OneView DEF Register!Return
    <3> QED BY <3>3 DEF Register!Next
  <2> QED BY <2>3, <2>4
<1> QED BY <1>3, <1>4, <1>5, <1>6, <1>7 DEF Load

\* The sequence number makes an atomic register of the fields: on a processor that
\* keeps the accesses in order, every load takes effect at one instant between its
\* call and its return, for any number of readers, fields and stores.
THEOREM FeedbackIsARegister ==
  ASSUME Ordered
  PROVE  Spec => ImplementsRegister
<1>1. Inv /\ [Next]_vars => [Register!Next]_(Register!vars)
  <2> SUFFICES ASSUME Inv, [Next]_vars PROVE [Register!Next]_(Register!vars)
    OBVIOUS
  <2>1. CASE UNCHANGED vars
    BY <2>1 DEF vars, writer, load, Register!vars, RegisterReader, RegisterValue,
       HasRead, Unchanged
  <2>2. CASE Next
    BY <2>2, StoreIsARegister, LoadIsARegister DEF Next
  <2> QED BY <2>1, <2>2
<1> QED BY <1>1, InitIsARegister, Invariance, PTL
    DEF Spec, ImplementsRegister, Register!Spec

-----------------------------------------------------------------------------
\* A load compares two numbers that the sequence went through, in this order.
NumbersAreInOrder ==
  \A r \in Readers : reader[r] = "fields" =>
    /\ before[r] <= sequence
    /\ "after" \notin loading[r] => before[r] <= after[r] /\ after[r] <= sequence

LEMMA NumbersStayInOrder == Spec => [](TypeOK /\ NumbersAreInOrder)
<1>1. Init => NumbersAreInOrder
  BY DEF Init, NumbersAreInOrder
<1>2. ASSUME TypeOK, NumbersAreInOrder, [Next]_vars
      PROVE  NumbersAreInOrder'
  <2> USE <1>2 DEF TypeOK, NumbersAreInOrder
  <2>1. CASE UNCHANGED vars
    BY <2>1 DEF vars, writer, load
  <2>2. CASE Store
    BY <2>2 DEF Store, BeginStore, FirstIncrement, StoreField, SecondIncrement,
       Incremented, Even, load
  <2>3. ASSUME NEW r \in Readers, Call(r) \/ LoadBefore(r) \/ LoadAfter(r) \/ Compare(r)
        PROVE  NumbersAreInOrder'
    BY <2>3, FieldsAssumption DEF Call, LoadBefore, LoadAfter, Compare, writer
  <2>4. ASSUME NEW r \in Readers, NEW f \in Fields, LoadField(r, f)
        PROVE  NumbersAreInOrder'
    BY <2>4, FieldsAssumption DEF LoadField, writer
  <2> QED BY <2>1, <2>2, <2>3, <2>4 DEF Next, Load
<1> QED BY <1>1, <1>2, TypeCorrect, PTL DEF Spec

\* The load that goes round again has met a store: the sequence number moved while
\* it ran, whatever order the processor gives the accesses.
RetriesMeetAStore ==
  \A r \in Readers : reader[r] = "fields" /\ reader'[r] = "before" => before[r] < sequence

\* The loop of load never retries on its own account: a thread that calls metrics
\* while nothing is stored gets its sample from the first attempt.
THEOREM RetriesAreDeserved == Spec => [][RetriesMeetAStore]_vars
<1>1. ASSUME TypeOK, NumbersAreInOrder, [Next]_vars
      PROVE  [RetriesMeetAStore]_vars
  <2> SUFFICES ASSUME NEW r \in Readers, Next, reader[r] = "fields", reader'[r] = "before"
               PROVE  before[r] < sequence
    BY <1>1 DEF RetriesMeetAStore, vars
  <2>1. PICK o \in Readers : Call(o) \/ Load(o)
    BY DEF Next, Store, BeginStore, FirstIncrement, StoreField, SecondIncrement, load
  <2>2. Compare(r) /\ ~Unchanged(r)
    <3>1. reader \in [Readers -> {"idle", "before", "fields", "returned"}]
      BY <1>1 DEF TypeOK
    <3>2. CASE Call(o)
      BY <3>1, <3>2 DEF Call
    <3>3. CASE LoadBefore(o)
      BY <3>1, <3>3 DEF LoadBefore
    <3>4. CASE (\E f \in Fields : LoadField(o, f)) \/ LoadAfter(o)
      BY <3>4 DEF LoadField, LoadAfter
    <3>5. CASE Compare(o)
      BY <3>1, <3>5 DEF Compare
    <3> QED BY <2>1, <3>2, <3>3, <3>4, <3>5 DEF Load
  <2>3. before[r] # after[r] /\ before[r] <= after[r] /\ after[r] <= sequence
    BY <1>1, <2>2 DEF Compare, Unchanged, NumbersAreInOrder
  <2>4. before[r] \in Nat /\ after[r] \in Nat /\ sequence \in Nat
    BY <1>1 DEF TypeOK
  <2> QED BY <2>3, <2>4
<1> QED BY <1>1, NumbersStayInOrder, PTL DEF Spec
=============================================================================
