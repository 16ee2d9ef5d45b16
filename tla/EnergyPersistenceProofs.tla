------------------------ MODULE EnergyPersistenceProofs ------------------------
(***************************************************************************)
(* Proofs about EnergyPersistence, for every set of tariffs, any energy    *)
(* and any number of resets.                                               *)
(*                                                                         *)
(* What reaches NVS comes by two ways, the snapshot StorageTask copies at  *)
(* its start and the storage queue, and they are not in step: the copy may *)
(* be newer than the sample in the queue.  OrderInv says which of the      *)
(* values on the way may be older than which, at each step of both tasks.  *)
(***************************************************************************)
EXTENDS EnergyPersistence, TLAPS

Queued == 1 .. Len(storageQueue)

\* Nothing runs and nothing is open before setup().
BootInv ==
  energyPc = "off" => storagePc = "off" /\ ~storageReady

\* Nothing in RAM is newer than the meter, and the meter counts what is consumed.
MeterInv ==
  /\ nvs.kwh <= consumed /\ latest.kwh <= consumed /\ stored.kwh <= consumed
  /\ energyKWh <= consumed
  /\ energyPc \in {"start", "none"} => storageQueue = <<>> /\ stored.kwh <= latest.kwh
  /\ energyPc \notin NotStarted =>
       /\ latest.kwh <= energyKWh /\ stored.kwh <= energyKWh
       /\ \A i \in Queued : storageQueue[i].kwh <= energyKWh
  /\ energyPc \in {"snapshot", "snapshotCost", "queue"} => data.kwh = energyKWh

\* Nothing StorageTask may still write is older than what NVS holds.
OrderInv ==
  storageReady =>
    /\ energyPc \in {"start", "none"} \/ storagePc = "start" => nvs.kwh <= latest.kwh
    /\ energyPc \notin NotStarted => nvs.kwh <= energyKWh
    /\ storagePc \notin NotStarted => nvs.kwh <= stored.kwh
    /\ \A i \in Queued : /\ nvs.kwh <= storageQueue[i].kwh
                         /\ storagePc = "putKwh" => stored.kwh <= storageQueue[i].kwh

\* Samples have the cost of their energy, and a save has come as far as its step says.
PairInv ==
  /\ data.cost = calculateCost(data.kwh)
  /\ \A i \in Queued : storageQueue[i].cost = calculateCost(storageQueue[i].kwh)
  /\ storagePc \in NotStarted \cup {"startCost"} => ~queued
  /\ queued => stored.cost = calculateCost(stored.kwh)
  /\ storagePc \in {"putCost", "putTariff", "saved"} => nvs.kwh = stored.kwh
  /\ storagePc \in {"putTariff", "saved"} => nvs.cost = stored.cost
  /\ storagePc = "saved" => nvs.tariff = tariff

IInv == TypeOK /\ BootInv /\ MeterInv /\ OrderInv /\ PairInv

-----------------------------------------------------------------------------
\* The cost of an energy is an amount; none costs nothing.
LEMMA CostIsNat ==
  ASSUME NEW k \in Nat, tariff \in Nat
  PROVE  calculateCost(k) \in Nat /\ calculateCost(0) = 0
  BY DEF calculateCost

\* The tariff in use is a configured one, or none before setup().
LEMMA TariffIsNat ==
  ASSUME TypeOK
  PROVE  tariff \in Nat
  BY PersistenceAssumption DEF TypeOK

\* An empty queue is a queue, and a sample of nothing a sample.
LEMMA EmptyTypes == <<>> \in Seq(Sample) /\ Len(<<>>) = 0 /\ Zero \in Sample
  BY DEF Sample, Zero

\* The storage queue holds one sample or none.
LEMMA QueueHoldsOne ==
  ASSUME TypeOK
  PROVE  /\ storageQueue = <<>> => Queued = {}
         /\ storageQueue # <<>> => /\ Queued = {1}
                                   /\ Head(storageQueue) = storageQueue[1]
                                   /\ Head(storageQueue) \in Sample
  BY DEF TypeOK, Queued

\* Before setup() everything is empty.
LEMMA InitIInv == Init => IInv
<1> SUFFICES ASSUME Init PROVE IInv
  OBVIOUS
<1>1. TypeOK
  <2>1. /\ nvs \in [kwh : Nat, cost : Nat, tariff : Tariffs \cup {0}]
        /\ resets \in 0 .. MaxResets
    BY PersistenceAssumption DEF Init
  <2>2. storageQueue \in Seq(Sample) /\ Len(storageQueue) <= 1
    BY EmptyTypes DEF Init
  <2> QED
    BY <2>1, <2>2, EmptyTypes DEF Init, TypeOK
<1>2. Queued = {}
  BY DEF Init, Queued
<1>3. calculateCost(0) = 0
  BY <1>1, CostIsNat, TariffIsNat
<1> QED
  BY <1>1, <1>2, <1>3 DEF Init, Zero, NotStarted, IInv, BootInv, MeterInv, OrderInv, PairInv

\* setup() loads what NVS holds, or the defaults when the store does not open.
LEMMA SetupStep == IInv /\ Setup => IInv'
<1> SUFFICES ASSUME IInv, Setup PROVE IInv'
  OBVIOUS
<1> USE DEF IInv, NotStarted
<1>1. PICK ready \in BOOLEAN, configured \in Tariffs :
        /\ storageReady' = ready
        /\ latest' = [kwh |-> load(ready, configured).kwh, cost |-> load(ready, configured).cost]
        /\ tariff' = load(ready, configured).tariff
  BY DEF Setup
<1>2. /\ load(ready, configured).kwh \in Nat
      /\ load(ready, configured).cost \in Nat
      /\ load(ready, configured).tariff \in Tariffs
      /\ load(ready, configured).kwh <= consumed
      /\ ready => load(ready, configured).kwh = nvs.kwh
  BY DEF load, TypeOK, MeterInv
<1>3. TypeOK'
  <2>1. storageQueue' \in Seq(Sample) /\ Len(storageQueue') <= 1
    BY EmptyTypes DEF Setup
  <2>2. latest' \in Sample
    BY <1>1, <1>2 DEF Sample
  <2> QED
    BY <1>1, <1>2, <2>1, <2>2, EmptyTypes DEF Setup, TypeOK
<1>4. Queued' = {}
  BY DEF Setup, Queued
<1>5. 0 * tariff' = 0
  <2>1. tariff' \in Nat
    BY <1>1, <1>2, PersistenceAssumption
  <2>2. \A n \in Nat : 0 * n = 0
    OBVIOUS
  <2> QED
    BY <2>1, <2>2
<1>6. BootInv' /\ MeterInv' /\ OrderInv'
  BY <1>1, <1>2, <1>4 DEF Setup, TypeOK, Zero, BootInv, MeterInv, OrderInv
<1>7. PairInv'
  BY <1>4, <1>5 DEF Setup, Zero, PairInv, calculateCost
<1> QED
  BY <1>3, <1>6, <1>7

\* A reset leaves NVS only.
LEMMA ResetStep == IInv /\ Reset => IInv'
<1> SUFFICES ASSUME IInv, Reset PROVE IInv'
  OBVIOUS
<1> USE DEF IInv, NotStarted
<1>1. TypeOK'
  <2>1. storageQueue' \in Seq(Sample) /\ Len(storageQueue') <= 1
    BY EmptyTypes DEF Reset
  <2>2. resets' \in 0 .. MaxResets
    BY PersistenceAssumption DEF Reset, TypeOK
  <2> QED
    BY <2>1, <2>2, EmptyTypes DEF Reset, TypeOK
<1>2. Queued' = {}
  BY DEF Reset, Queued
<1>3. 0 * tariff' = 0
  BY DEF Reset
<1> QED
  BY <1>1, <1>2, <1>3 DEF Reset, calculateCost, Zero, TypeOK, BootInv, MeterInv, OrderInv, PairInv

-----------------------------------------------------------------------------
\* EnergyTask takes the loaded total: no copy of the snapshot is newer than it.
LEMMA EnergyStartsStep == IInv /\ EnergyStarts => IInv'
<1> SUFFICES ASSUME IInv, EnergyStarts PROVE IInv'
  OBVIOUS
<1> USE DEF IInv, NotStarted, EnergyStarts, bootVars, storageVars
<1>1. TypeOK'
  BY DEF TypeOK, Sample
<1>2. Queued' = Queued /\ Queued = {}
  BY QueueHoldsOne DEF Queued, MeterInv
<1>3. latest.kwh \in Nat
  BY DEF TypeOK, Sample
<1>4. BootInv' /\ MeterInv'
  BY <1>2, <1>3 DEF BootInv, MeterInv
<1>5. OrderInv'
  BY <1>2 DEF OrderInv
<1>6. PairInv'
  BY <1>2 DEF PairInv, calculateCost
<1> QED
  BY <1>1, <1>4, <1>5, <1>6

\* A sample adds to the total what it adds to the energy consumed.
LEMMA MeasureStep == IInv /\ Measure => IInv'
<1> SUFFICES ASSUME IInv, Measure PROVE IInv'
  OBVIOUS
<1> USE DEF IInv, NotStarted
<1>1. PICK increment \in {0, 1} :
        /\ consumed' = consumed + increment
        /\ data' = [kwh |-> energyKWh + increment,
                    cost |-> calculateCost(energyKWh + increment)]
        /\ energyKWh' = data'.kwh
  BY DEF Measure, read
<1>2. /\ energyKWh + increment \in Nat /\ energyKWh <= energyKWh + increment
      /\ consumed + increment \in Nat
      /\ energyKWh + increment <= consumed + increment
      /\ consumed <= consumed + increment
  BY DEF TypeOK, MeterInv
<1>3. calculateCost(energyKWh + increment) \in Nat
  BY <1>2, CostIsNat, TariffIsNat
<1>4. TypeOK'
  BY <1>1, <1>2, <1>3 DEF Measure, TypeOK, Sample, bootVars, storageVars
<1>5. /\ Queued' = Queued
      /\ \A i \in Queued : storageQueue[i].kwh \in Nat
  <2>1. Queued' = Queued
    BY DEF Measure, Queued
  <2>2. \A i \in Queued : storageQueue[i] \in Sample
    BY DEF Queued, TypeOK
  <2> QED
    BY <2>1, <2>2 DEF Sample
<1>6. /\ energyPc = "sample" /\ energyPc' = "snapshot"
      /\ UNCHANGED <<nvs, bootVars, latest, storageQueue, storageVars>>
  BY DEF Measure
<1>7. nvs.kwh \in Nat /\ latest.kwh \in Nat /\ stored.kwh \in Nat /\ energyKWh \in Nat
      /\ consumed \in Nat
  BY DEF TypeOK, Sample
<1>8. BootInv'
  BY <1>6 DEF BootInv, bootVars, storageVars
<1>9. MeterInv'
  BY <1>1, <1>2, <1>5, <1>6, <1>7 DEF MeterInv, bootVars, storageVars
<1>10. OrderInv'
  BY <1>1, <1>2, <1>5, <1>6, <1>7 DEF OrderInv, bootVars, storageVars
<1>11. PairInv'
  BY <1>1, <1>5, <1>6 DEF PairInv, bootVars, storageVars, calculateCost
<1> QED
  BY <1>4, <1>8, <1>9, <1>10, <1>11

\* The snapshot gets the sample's energy, or keeps what it had.
LEMMA PublishKwhStep == IInv /\ PublishKwh => IInv'
<1> SUFFICES ASSUME IInv, PublishKwh PROVE IInv'
  OBVIOUS
<1> USE DEF IInv, NotStarted, PublishKwh, bootVars, storageVars
<1>1. TypeOK'
  BY DEF TypeOK, Sample
<1>2. Queued' = Queued
  BY DEF Queued
<1>3. \/ latest'.kwh = data.kwh
      \/ latest' = latest
  BY DEF TypeOK, Sample
<1>4. /\ data.kwh = energyKWh /\ energyKWh \in Nat
      /\ latest.kwh \in Nat /\ nvs.kwh \in Nat /\ stored.kwh \in Nat
  BY DEF MeterInv, TypeOK, Sample
<1>5. BootInv' /\ MeterInv'
  BY <1>2, <1>3, <1>4 DEF BootInv, MeterInv
<1>6. OrderInv'
  BY <1>2, <1>3, <1>4 DEF OrderInv
<1>7. PairInv'
  BY <1>2 DEF PairInv, calculateCost
<1> QED
  BY <1>1, <1>5, <1>6, <1>7

\* The cost follows the energy; the energies stay.
LEMMA PublishCostStep == IInv /\ PublishCost => IInv'
<1> SUFFICES ASSUME IInv, PublishCost PROVE IInv'
  OBVIOUS
<1> USE DEF IInv, NotStarted, PublishCost, bootVars, storageVars
<1>1. TypeOK'
  BY DEF TypeOK, Sample
<1>2. Queued' = Queued
  BY DEF Queued
<1>3. latest'.kwh = latest.kwh
  BY DEF TypeOK, Sample
<1>4. BootInv' /\ MeterInv'
  BY <1>2, <1>3 DEF BootInv, MeterInv
<1>5. OrderInv'
  BY <1>2, <1>3 DEF OrderInv
<1>6. PairInv'
  BY <1>2 DEF PairInv, calculateCost
<1> QED
  BY <1>1, <1>4, <1>5, <1>6

\* The sample in the queue is the newest there is.
LEMMA EnqueueStep == IInv /\ Enqueue => IInv'
<1> SUFFICES ASSUME IInv, Enqueue PROVE IInv'
  OBVIOUS
<1> USE DEF IInv, NotStarted, Enqueue, bootVars, storageVars
<1>1. storageQueue' = <<data>> /\ data \in Sample
  BY DEF TypeOK
<1>2. TypeOK'
  BY <1>1 DEF TypeOK
<1>3. Queued' = {1} /\ storageQueue'[1] = data
  BY <1>1 DEF Queued
<1>4. /\ data.kwh = energyKWh
      /\ energyKWh \in Nat /\ stored.kwh \in Nat /\ nvs.kwh \in Nat
  BY DEF MeterInv, TypeOK, Sample
<1>5. BootInv' /\ MeterInv'
  BY <1>3, <1>4 DEF BootInv, MeterInv
<1>6. OrderInv'
  BY <1>3, <1>4 DEF OrderInv, MeterInv
<1>7. PairInv'
  BY <1>3 DEF PairInv, calculateCost
<1> QED
  BY <1>2, <1>5, <1>6, <1>7

-----------------------------------------------------------------------------
\* StorageTask copies the snapshot's energy: as old as the loaded one, or newer.
LEMMA CopyKwhStep == IInv /\ CopyKwh => IInv'
<1> SUFFICES ASSUME IInv, CopyKwh PROVE IInv'
  OBVIOUS
<1> USE DEF IInv, NotStarted, CopyKwh, bootVars, energyVars
<1>1. TypeOK'
  BY DEF TypeOK, Sample
<1>2. Queued' = Queued
  BY DEF Queued
<1>3. stored'.kwh = latest.kwh
  BY DEF TypeOK, Sample
<1>4. latest.kwh \in Nat
  BY DEF TypeOK, Sample
<1>5. BootInv' /\ MeterInv'
  BY <1>2, <1>3, <1>4 DEF BootInv, MeterInv
<1>6. OrderInv'
  BY <1>2, <1>3 DEF OrderInv
<1>7. ~queued
  BY DEF PairInv
<1>8. PairInv'
  BY <1>2, <1>7 DEF PairInv, calculateCost
<1> QED
  BY <1>1, <1>5, <1>6, <1>8

\* The cost it copies next may be another sample's; the energies stay.
LEMMA CopyCostStep == IInv /\ CopyCost => IInv'
<1> SUFFICES ASSUME IInv, CopyCost PROVE IInv'
  OBVIOUS
<1> USE DEF IInv, NotStarted, CopyCost, bootVars, energyVars
<1>1. TypeOK'
  BY DEF TypeOK, Sample
<1>2. Queued' = Queued
  BY DEF Queued
<1>3. stored'.kwh = stored.kwh
  BY DEF TypeOK, Sample
<1>4. BootInv' /\ MeterInv'
  BY <1>2, <1>3 DEF BootInv, MeterInv
<1>5. OrderInv'
  BY <1>2, <1>3 DEF OrderInv
<1>6. PairInv'
  BY <1>2 DEF PairInv, calculateCost
<1> QED
  BY <1>1, <1>4, <1>5, <1>6

\* The sample received is no older than what is saved, although it may be older
\* than the copy it replaces.
LEMMA ReceiveStep == IInv /\ Receive => IInv'
<1> SUFFICES ASSUME IInv, Receive PROVE IInv'
  OBVIOUS
<1> USE DEF IInv, NotStarted, Receive, bootVars
<1>1. CASE storageQueue # <<>>
  <2>1. /\ stored' = storageQueue[1] /\ stored' \in Sample
        /\ queued' = TRUE /\ storageQueue' = <<>>
        /\ Queued = {1} /\ Queued' = {}
    BY <1>1, QueueHoldsOne DEF Queued
  <2>2. TypeOK'
    BY <2>1 DEF TypeOK
  <2>3. /\ energyPc \notin NotStarted
        /\ stored'.kwh <= energyKWh
        /\ stored'.kwh \in Nat /\ energyKWh \in Nat /\ consumed \in Nat
    BY <1>1, <2>1 DEF MeterInv, BootInv, TypeOK, Sample
  <2>4. BootInv' /\ MeterInv'
    BY <2>1, <2>3 DEF BootInv, MeterInv
  <2>5. OrderInv'
    BY <2>1 DEF OrderInv
  <2>6. PairInv'
    BY <2>1 DEF PairInv, calculateCost
  <2> QED
    BY <2>2, <2>4, <2>5, <2>6
<1>2. CASE storageQueue = <<>>
  <2>1. UNCHANGED <<stored, queued, storageQueue>> /\ Queued' = Queued /\ Queued = {}
    BY <1>2, QueueHoldsOne DEF Queued
  <2>2. TypeOK'
    BY <2>1 DEF TypeOK
  <2>3. BootInv' /\ MeterInv'
    BY <2>1 DEF BootInv, MeterInv
  <2>4. OrderInv'
    BY <2>1 DEF OrderInv
  <2>5. PairInv'
    BY <2>1 DEF PairInv, calculateCost
  <2> QED
    BY <2>2, <2>3, <2>4, <2>5
<1> QED
  BY <1>1, <1>2

\* The first key takes the total to that of the copy.
LEMMA PutKwhStep == IInv /\ PutKwh => IInv'
<1> SUFFICES ASSUME IInv, PutKwh PROVE IInv'
  OBVIOUS
<1> USE DEF IInv, NotStarted, PutKwh, Put, bootVars, energyVars
<1>1. \/ /\ storageReady /\ storagePc' = "putCost"
         /\ nvs'.kwh = stored.kwh
      \/ nvs' = nvs /\ storagePc' = "receive"
  BY DEF TypeOK
<1>2. TypeOK'
  BY DEF TypeOK, Sample
<1>3. Queued' = Queued
  BY DEF Queued
<1>4. /\ energyPc # "off"
      /\ stored.kwh \in Nat /\ latest.kwh \in Nat /\ energyKWh \in Nat
  BY DEF BootInv, TypeOK, Sample
<1>5. BootInv' /\ MeterInv'
  BY <1>1, <1>3 DEF BootInv, MeterInv
<1>6. OrderInv'
  BY <1>1, <1>3, <1>4 DEF OrderInv, MeterInv, TypeOK
<1>7. PairInv'
  BY <1>1, <1>3 DEF PairInv, calculateCost
<1> QED
  BY <1>2, <1>5, <1>6, <1>7

\* The second key leaves the total alone.
LEMMA PutCostStep == IInv /\ PutCost => IInv'
<1> SUFFICES ASSUME IInv, PutCost PROVE IInv'
  OBVIOUS
<1> USE DEF IInv, NotStarted, PutCost, Put, bootVars, energyVars
<1>1. /\ nvs'.kwh = nvs.kwh
      /\ \/ storagePc' = "putTariff" /\ nvs'.cost = stored.cost
         \/ storagePc' = "receive"
  BY DEF TypeOK
<1>2. TypeOK'
  BY DEF TypeOK, Sample
<1>3. Queued' = Queued
  BY DEF Queued
<1>4. BootInv' /\ MeterInv'
  BY <1>1, <1>3 DEF BootInv, MeterInv
<1>5. OrderInv'
  BY <1>1, <1>3 DEF OrderInv
<1>6. PairInv'
  BY <1>1, <1>3 DEF PairInv, calculateCost
<1> QED
  BY <1>2, <1>4, <1>5, <1>6

\* The third key completes the save.
LEMMA PutTariffStep == IInv /\ PutTariff => IInv'
<1> SUFFICES ASSUME IInv, PutTariff PROVE IInv'
  OBVIOUS
<1> USE DEF IInv, NotStarted, PutTariff, Put, bootVars, energyVars
<1>1. /\ nvs'.kwh = nvs.kwh /\ nvs'.cost = nvs.cost
      /\ \/ storagePc' = "saved" /\ nvs'.tariff = tariff
         \/ storagePc' = "receive"
  BY DEF TypeOK
<1>2. TypeOK'
  BY DEF TypeOK, Sample
<1>3. Queued' = Queued
  BY DEF Queued
<1>4. BootInv' /\ MeterInv'
  BY <1>1, <1>3 DEF BootInv, MeterInv
<1>5. OrderInv'
  BY <1>1, <1>3 DEF OrderInv
<1>6. PairInv'
  BY <1>1, <1>3 DEF PairInv, calculateCost
<1> QED
  BY <1>2, <1>4, <1>5, <1>6

\* Nothing changes while StorageTask sleeps, or when nothing happens.
LEMMA SleepStep == IInv /\ (Sleep \/ UNCHANGED vars) => IInv'
<1> SUFFICES ASSUME IInv, Sleep \/ UNCHANGED vars PROVE IInv'
  OBVIOUS
<1> USE DEF IInv, NotStarted, Sleep, vars, bootVars, energyVars, storageVars
<1>1. TypeOK'
  BY DEF TypeOK
<1>2. Queued' = Queued
  BY DEF Queued
<1>3. BootInv' /\ MeterInv'
  BY <1>2 DEF BootInv, MeterInv
<1>4. OrderInv'
  BY <1>2 DEF OrderInv
<1>5. PairInv'
  BY <1>2 DEF PairInv, calculateCost
<1> QED
  BY <1>1, <1>3, <1>4, <1>5

-----------------------------------------------------------------------------
\* The invariant holds in every state, whatever fails and wherever a reset falls.
LEMMA Invariance == Spec => []IInv
<1>1. IInv /\ [Next]_vars => IInv'
  BY SetupStep, ResetStep, EnergyStartsStep, MeasureStep, PublishKwhStep, PublishCostStep,
     EnqueueStep, CopyKwhStep, CopyCostStep, ReceiveStep, PutKwhStep, PutCostStep,
     PutTariffStep, SleepStep DEF Next, EnergyTask, StorageTask
<1> QED
  BY <1>1, InitIInv, PTL DEF Spec

\* Every variable of the two tasks, the queue and NVS keeps its type.
THEOREM TypeCorrect == Spec => []TypeOK
<1>1. IInv => TypeOK
  BY DEF IInv
<1> QED
  BY <1>1, Invariance, PTL

\* Once EnergyTask has started, no total in RAM is behind the saved one, and no
\* energy is counted twice: for any number of resets and failed writes.
THEOREM TotalCarriedOver == Spec => []TotalIsCarriedOver
<1>1. IInv => TotalIsCarriedOver
  BY DEF IInv, OrderInv, MeterInv, TotalIsCarriedOver
<1> QED
  BY <1>1, Invariance, PTL

\* A complete save of a queued sample leaves three keys that belong together.
THEOREM SavedPair == Spec => []SavedPairAgrees
<1>1. ASSUME IInv PROVE SavedPairAgrees
  <2> SUFFICES ASSUME storagePc = "saved", queued
               PROVE  nvs = [kwh |-> stored.kwh, cost |-> stored.kwh * tariff, tariff |-> tariff]
    BY DEF SavedPairAgrees
  <2>1. /\ nvs.kwh = stored.kwh /\ nvs.cost = stored.kwh * tariff /\ nvs.tariff = tariff
    BY <1>1 DEF IInv, PairInv, calculateCost
  <2>2. nvs = [kwh |-> nvs.kwh, cost |-> nvs.cost, tariff |-> nvs.tariff]
    BY <1>1 DEF IInv, TypeOK
  <2> QED
    BY <2>1, <2>2
<1> QED
  BY <1>1, Invariance, PTL

\* No step of any task, failed write or reset lowers the saved total.
THEOREM NeverBack == Spec => CheckpointsNeverGoBack
<1>1. ASSUME IInv, [Next]_vars PROVE nvs'.kwh >= nvs.kwh
  <2> USE <1>1 DEF IInv
  <2>1. nvs \in [kwh : Nat, cost : Nat, tariff : Tariffs \cup {0}]
        /\ stored.kwh \in Nat
    BY DEF TypeOK, Sample
  <2>2. CASE PutKwh
    <3>1. storageReady => nvs.kwh <= stored.kwh
      BY <2>2 DEF PutKwh, Put, OrderInv, NotStarted
    <3> QED
      BY <2>1, <2>2, <3>1 DEF PutKwh, Put
  <2>3. CASE PutCost \/ PutTariff
    BY <2>1, <2>3 DEF PutCost, PutTariff, Put
  <2>4. CASE ~(PutKwh \/ PutCost \/ PutTariff)
    <3>1. nvs' = nvs
      BY <2>4 DEF Next, vars, EnergyTask, StorageTask, Setup, Reset, EnergyStarts, Measure,
         PublishKwh, PublishCost, Enqueue, CopyKwh, CopyCost, Receive, Sleep
    <3> QED
      BY <2>1, <3>1
  <2> QED
    BY <2>2, <2>3, <2>4
<1>2. IInv /\ [Next]_vars => [nvs'.kwh >= nvs.kwh]_vars
  BY <1>1
<1> QED
  BY <1>2, Invariance, PTL DEF Spec, CheckpointsNeverGoBack
=============================================================================
