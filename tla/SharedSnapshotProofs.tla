-------------------------- MODULE SharedSnapshotProofs --------------------------
(***************************************************************************)
(* Proofs about SharedSnapshot, for every set of fault events: the types,  *)
(* and that no task works on a torn copy of the snapshot.                  *)
(*                                                                         *)
(* CopiesAreWhole is not inductive.  It rests on the mutex (MutexInv: a    *)
(* task is between a take and a give exactly when it is the holder) and on *)
(* how far an update has come (UpdateInv: what of the event is already in  *)
(* the snapshot at each step of FaultTask).                                *)
(***************************************************************************)
EXTENDS SharedSnapshot, TLAPS

MutexInv ==
  /\ faultPc \in {"fault", "state", "code"} <=> holder = "fault"
  /\ networkPc \in {"fault", "health", "reported", "give"} <=> holder = "network"
  /\ diagPc = "take" <=> holder = "diag"

UpdateInv ==
  /\ faultPc \notin {"state", "code"} => snapshot.health = HealthOf(snapshot.fault)
  /\ faultPc \in {"state", "code"} => snapshot.fault = event
  /\ faultPc = "code" => snapshot.health.currentState = event.state
  /\ snapshot.health.freeHeap = 0

CopyInv ==
  /\ networkPc = "health" => current.fault = snapshot.fault
  /\ CopiesAreWhole

IInv == TypeOK /\ MutexInv /\ UpdateInv /\ CopyInv

\* An event has a state and a code, and its health is a whole one.
LEMMA EventTypes ==
  ASSUME NEW e \in Events
  PROVE  /\ e \in [state : SystemState, code : FaultCode]
         /\ e.state \in SystemState /\ e.code \in FaultCode
         /\ HealthOf(e) \in Health
         /\ Paired(HealthOf(e))
<1>1. e \in [state : SystemState, code : FaultCode]
  BY SnapshotAssumption
<1>2. e.state \in SystemState /\ e.code \in FaultCode
  BY <1>1
<1>3. HealthOf(e) \in Health
  BY <1>2 DEF HealthOf, Health
<1>4. [state |-> e.state, code |-> e.code] = e
  BY <1>1
<1> QED
  BY <1>1, <1>2, <1>3, <1>4 DEF Paired, HealthOf

\* The parts of a whole snapshot.
LEMMA WholeSnapshot ==
  ASSUME TypeOK, UpdateInv, faultPc \notin {"state", "code"}
  PROVE  /\ snapshot.fault \in Events
         /\ snapshot.health = HealthOf(snapshot.fault)
         /\ Paired(snapshot.health)
  BY EventTypes DEF TypeOK, Snapshot, UpdateInv

\* Initially nothing is taken and every copy is the constructed one.
LEMMA InitIInv == Init => IInv
<1> SUFFICES ASSUME Init PROVE IInv
  OBVIOUS
<1>1. NoEvent \in Events /\ NoHealth \in Health /\ Paired(NoHealth)
  BY SnapshotAssumption, EventTypes DEF NoHealth
<1>2. TypeOK
  BY <1>1 DEF Init, TypeOK, NoSnapshot, Snapshot
<1>3. MutexInv
  BY DEF Init, MutexInv
<1>4. UpdateInv
  BY DEF Init, UpdateInv, NoSnapshot, NoHealth, HealthOf
<1>5. CopyInv
  BY <1>1 DEF Init, CopyInv, CopiesAreWhole
<1> QED
  BY <1>2, <1>3, <1>4, <1>5 DEF IInv

\* EnergyTask takes and gives the mutex and leaves the parts modelled here alone.
LEMMA EnergyStep == IInv /\ EnergyTask => IInv'
<1> SUFFICES ASSUME IInv, EnergyTask PROVE IInv'
  OBVIOUS
<1> USE DEF IInv, EnergyTask, Take, GiveUp, Give, faultVars, networkVars, diagVars
<1>1. TypeOK'
  BY DEF TypeOK
<1>2. MutexInv'
  BY DEF MutexInv, TypeOK
<1>3. UpdateInv' /\ CopyInv'
  BY DEF UpdateInv, CopyInv, CopiesAreWhole, Paired, HealthOf
<1> QED
  BY <1>1, <1>2, <1>3

\* FaultTask writes the snapshot, part by part, with the mutex.
LEMMA FaultStep == IInv /\ FaultTask => IInv'
<1> SUFFICES ASSUME IInv, FaultTask PROVE IInv'
  OBVIOUS
<1> USE DEF Take, GiveUp, Give, networkVars, diagVars
<1>1. event \in Events /\ event.state \in SystemState /\ event.code \in FaultCode
  BY EventTypes DEF IInv, TypeOK
<1>2. CASE Evaluate
  <2>1. TypeOK'
    BY <1>2 DEF Evaluate, IInv, TypeOK
  <2>2. MutexInv' /\ UpdateInv'
    BY <1>2 DEF Evaluate, IInv, MutexInv, UpdateInv
  <2>3. CopyInv'
    BY <1>2 DEF Evaluate, IInv, CopyInv, CopiesAreWhole, Paired, HealthOf
  <2> QED
    BY <2>1, <2>2, <2>3 DEF IInv
<1>3. CASE UpdateFault
  <2> USE <1>3
  <2>1. TypeOK'
    <3>1. snapshot' \in Snapshot
      BY <1>1 DEF UpdateFault, IInv, TypeOK, Snapshot, Health, StoreFault, StoreState, StoreCode
    <3> QED
      BY <3>1 DEF UpdateFault, IInv, TypeOK
  <2>2. MutexInv'
    BY DEF UpdateFault, IInv, MutexInv, TypeOK
  <2>3. UpdateInv'
    <3>1. CASE faultPc \in {"take", "fault"}
      BY <3>1 DEF UpdateFault, IInv, UpdateInv, TypeOK, Snapshot, Health, StoreFault
    <3>2. CASE faultPc = "state"
      BY <1>1, <3>2 DEF UpdateFault, IInv, UpdateInv, TypeOK, Snapshot, Health, StoreState
    <3>3. CASE faultPc = "code"
      BY <1>1, <3>3 DEF UpdateFault, IInv, UpdateInv, TypeOK, Snapshot, Health, StoreCode, HealthOf
    <3> QED
      BY <3>1, <3>2, <3>3 DEF UpdateFault
  <2>4. CopyInv'
    <3>1. networkPc = "health" => snapshot' = snapshot
      BY DEF UpdateFault, IInv, MutexInv, TypeOK
    <3>2. UNCHANGED <<networkPc, current, modbus, published, health>>
      BY DEF UpdateFault
    <3> QED
      BY <3>1, <3>2 DEF IInv, CopyInv, CopiesAreWhole, Paired, HealthOf
  <2> QED
    BY <2>1, <2>2, <2>3, <2>4 DEF IInv
<1> QED
  BY <1>2, <1>3 DEF FaultTask

\* NetworkTask copies the snapshot, part by part, with the mutex.
LEMMA NetworkStep == IInv /\ NetworkTask => IInv'
<1> SUFFICES ASSUME IInv, NetworkTask PROVE IInv'
  OBVIOUS
<1> USE DEF Take, GiveUp, Give, faultVars, diagVars
<1>1. UNCHANGED <<snapshot, faultPc, event, diagPc, health>>
  BY DEF NetworkTask, CopySnapshot, UpdateModbus, ReportHealth, UpdateCounters
<1>2. UpdateInv'
  BY <1>1 DEF IInv, UpdateInv, HealthOf
<1>3. NoEvent \in Events /\ NoHealth \in Health /\ Paired(NoHealth) /\ NoSnapshot \in Snapshot
  BY SnapshotAssumption, EventTypes DEF NoHealth, NoSnapshot, Snapshot
<1>4. networkPc \in {"fault", "health", "give"} =>
        /\ snapshot.fault \in Events
        /\ snapshot.health = HealthOf(snapshot.fault)
        /\ Paired(snapshot.health)
  <2>1. networkPc \in {"fault", "health", "give"} => faultPc \notin {"state", "code"}
    BY DEF IInv, MutexInv
  <2> QED
    BY <2>1, WholeSnapshot DEF IInv
<1>5. CASE CopySnapshot
  <2> USE <1>5
  <2>1. TypeOK'
    <3>1. current' \in Snapshot
      BY DEF CopySnapshot, IInv, TypeOK, Snapshot
    <3> QED
      BY <3>1, <1>1 DEF CopySnapshot, IInv, TypeOK
  <2>2. MutexInv'
    BY <1>1 DEF CopySnapshot, IInv, MutexInv, TypeOK
  <2>3. CopyInv'
    <3>1. networkPc' = "health" => current'.fault = snapshot.fault
      BY DEF CopySnapshot, IInv, TypeOK, Snapshot
    <3>2. networkPc' = "update" => current'.health = HealthOf(current'.fault)
      <4>1. networkPc' = "update" =>
              /\ networkPc = "health"
              /\ current'.health = snapshot.health
              /\ current'.fault = current.fault
        BY DEF CopySnapshot, IInv, TypeOK, Snapshot
      <4> QED
        BY <4>1, <1>4 DEF IInv, CopyInv
    <3>3. UNCHANGED <<modbus, published>>
      BY DEF CopySnapshot
    <3> QED
      BY <3>1, <3>2, <3>3, <1>1 DEF IInv, CopyInv, CopiesAreWhole, Paired, HealthOf
  <2> QED
    BY <2>1, <2>2, <2>3, <1>2 DEF IInv
<1>6. CASE UpdateModbus
  <2> USE <1>6
  <2>1. TypeOK'
    BY <1>1, <1>3 DEF UpdateModbus, IInv, TypeOK, Snapshot
  <2>2. MutexInv'
    BY <1>1 DEF UpdateModbus, IInv, MutexInv, TypeOK
  <2>3. Paired(modbus')
    <3>1. current.fault \in Events /\ modbus' = HealthOf(current.fault)
      BY DEF UpdateModbus, IInv, TypeOK, Snapshot, CopyInv, CopiesAreWhole
    <3> QED
      BY <3>1, EventTypes
  <2>4. CopyInv'
    BY <2>3, <1>1 DEF UpdateModbus, IInv, CopyInv, CopiesAreWhole, Paired
  <2> QED
    BY <2>1, <2>2, <2>4, <1>2 DEF IInv
<1>7. CASE UpdateCounters
  <2> USE <1>7
  <2>1. TypeOK'
    <3>1. published' \in Health
      BY <1>3 DEF UpdateCounters, IInv, TypeOK, Snapshot
    <3> QED
      BY <3>1, <1>1 DEF UpdateCounters, IInv, TypeOK
  <2>2. MutexInv'
    BY <1>1 DEF UpdateCounters, IInv, MutexInv, TypeOK
  <2>3. Paired(published')
    <3>1. published' \in {published, NoHealth} \/ (networkPc = "give" /\ published' = snapshot.health)
      BY DEF UpdateCounters
    <3> QED
      BY <3>1, <1>3, <1>4 DEF IInv, CopyInv, CopiesAreWhole
  <2>4. CopyInv'
    BY <2>3, <1>1 DEF UpdateCounters, IInv, CopyInv, CopiesAreWhole, Paired
  <2> QED
    BY <2>1, <2>2, <2>4, <1>2 DEF IInv
<1>8. CASE ReportHealth
  <2>1. TypeOK'
    BY <1>1, <1>8 DEF ReportHealth, IInv, TypeOK
  <2>2. MutexInv'
    BY <1>1, <1>8 DEF ReportHealth, IInv, MutexInv, TypeOK
  <2>3. CopyInv'
    BY <1>1, <1>8 DEF ReportHealth, IInv, CopyInv, CopiesAreWhole, Paired, HealthOf
  <2> QED
    BY <2>1, <2>2, <2>3, <1>2 DEF IInv
<1> QED
  BY <1>5, <1>6, <1>7, <1>8 DEF NetworkTask

\* DiagnosticsTask copies the health with the mutex and adds the heap to its copy.
LEMMA DiagnosticsStep == IInv /\ DiagnosticsTask => IInv'
<1> SUFFICES ASSUME IInv, DiagnosticsTask PROVE IInv'
  OBVIOUS
<1> USE DEF Take, GiveUp, Give, faultVars, networkVars, diagVars
<1>1. UNCHANGED <<snapshot, faultPc, event, networkPc, current, modbus, published, energyPc>>
  BY DEF DiagnosticsTask
<1>2. UpdateInv'
  BY <1>1 DEF IInv, UpdateInv, HealthOf
<1>3. NoHealth \in Health /\ Paired(NoHealth)
  BY SnapshotAssumption, EventTypes DEF NoHealth
<1>4. diagPc = "take" => Paired(snapshot.health)
  <2>1. diagPc = "take" => faultPc \notin {"state", "code"}
    BY DEF IInv, MutexInv
  <2> QED
    BY <2>1, WholeSnapshot DEF IInv
<1>5. TypeOK'
  <2>1. health' \in Health
    BY <1>3, SnapshotAssumption DEF DiagnosticsTask, IInv, TypeOK, Snapshot, Health
  <2> QED
    BY <2>1, <1>1 DEF DiagnosticsTask, IInv, TypeOK
<1>6. MutexInv'
  BY <1>1 DEF DiagnosticsTask, IInv, MutexInv, TypeOK
<1>7. Paired(health')
  <2>1. \/ health' \in {health, NoHealth}
        \/ diagPc = "take" /\ health' = [snapshot.health EXCEPT !.freeHeap = ActualHeap]
    BY DEF DiagnosticsTask
  <2>2. ASSUME diagPc = "take", health' = [snapshot.health EXCEPT !.freeHeap = ActualHeap]
        PROVE  Paired(health')
    <3>1. /\ health'.currentState = snapshot.health.currentState
          /\ health'.activeFault = snapshot.health.activeFault
      BY <2>2 DEF IInv, TypeOK, Snapshot, Health
    <3> QED
      BY <3>1, <2>2, <1>4 DEF Paired
  <2> QED
    BY <2>1, <2>2, <1>3 DEF IInv, CopyInv, CopiesAreWhole
<1>8. CopyInv'
  BY <1>1, <1>7 DEF IInv, CopyInv, CopiesAreWhole, Paired, HealthOf
<1> QED
  BY <1>2, <1>5, <1>6, <1>8 DEF IInv

\* The inductive invariant holds in every run of the tasks, whatever is scheduled.
THEOREM SnapshotInvariance == Init /\ [][Next]_vars => []IInv
<1>1. IInv /\ [Next]_vars => IInv'
  <2> SUFFICES ASSUME IInv, [Next]_vars PROVE IInv'
    OBVIOUS
  <2>1. CASE UNCHANGED vars
    BY <2>1 DEF vars, faultVars, networkVars, diagVars, IInv, TypeOK, MutexInv, UpdateInv,
                CopyInv, CopiesAreWhole, Paired, HealthOf
  <2> QED
    BY <2>1, EnergyStep, FaultStep, NetworkStep, DiagnosticsStep DEF Next
<1> QED
  BY <1>1, InitIInv, PTL

\* Type correctness of the snapshot, the tasks and their copies.
THEOREM SnapshotTypes == EnergySpec => []TypeOK
<1>1. IInv => TypeOK
  BY DEF IInv
<1> QED
  BY <1>1, SnapshotInvariance, PTL DEF EnergySpec

\* No task ever works on a torn copy of the snapshot, for every set of events
\* and whichever tasks stop, the holder of the mutex included.
THEOREM SnapshotCopiesWhole == EnergySpec => []CopiesAreWhole
<1>1. IInv => CopiesAreWhole
  BY DEF IInv, CopyInv
<1> QED
  BY <1>1, SnapshotInvariance, PTL DEF EnergySpec
=============================================================================
