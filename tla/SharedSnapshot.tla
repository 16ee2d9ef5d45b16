----------------------------- MODULE SharedSnapshot -----------------------------
(***************************************************************************)
(* The shared snapshot of src/main.cpp and the mutex around it, which      *)
(* every task gives up waiting for after some milliseconds.  The two cores *)
(* interleave the tasks at every step: a copy and an update of the         *)
(* snapshot take one step per part, and a task may stop with the mutex.    *)
(*                                                                         *)
(* What the tasks compute is in the other modules; here a fault event is   *)
(* any one of Events.  The sample in the snapshot, which only StorageTask  *)
(* reads, is in EnergyPersistence, and the counters are left out.          *)
(***************************************************************************)
EXTENDS Naturals

CONSTANTS
  SystemState, FaultCode,   \* the enumerations
  Events,                   \* what evaluate() may return
  NoEvent,                  \* a FaultEvent as constructed
  ActualHeap                \* what ESP.getFreeHeap() returns

ASSUME SnapshotAssumption ==
  /\ Events \subseteq [state : SystemState, code : FaultCode]
  /\ NoEvent \in Events
  /\ ActualHeap \in Nat \ {0}

VARIABLES
  holder,                \* which task has taken snapshotMutex
  snapshot,              \* its parts fault and health
  energyPc,              \* EnergyTask
  faultPc, event,        \* FaultTask and what it has to store
  networkPc, current,    \* NetworkTask and its copy
  modbus, published,     \* the health Modbus serves, and diagnosticsToPublish
  diagPc, health         \* DiagnosticsTask and its copy

faultVars == <<faultPc, event>>
networkVars == <<networkPc, current, modbus, published>>
diagVars == <<diagPc, health>>
vars == <<holder, snapshot, energyPc, faultVars, networkVars, diagVars>>

HealthOf(e) == [currentState |-> e.state, activeFault |-> e.code, freeHeap |-> 0]
NoHealth == HealthOf(NoEvent)
NoSnapshot == [fault |-> NoEvent, health |-> NoHealth]

Init ==
  /\ holder = "none" /\ snapshot = NoSnapshot
  /\ energyPc = "sample"
  /\ faultPc = "receive" /\ event = NoEvent
  /\ networkPc = "receive" /\ current = NoSnapshot
  /\ modbus = NoHealth /\ published = NoHealth
  /\ diagPc = "copy" /\ health = NoHealth

\* xSemaphoreTake succeeds, gives up, and xSemaphoreGive.  Mutated form of Take:
\* a task that goes on when the time is up as if it had the mutex.
TakeAnyway(task) == holder' = task
Take(task) == holder = "none" /\ holder' = task
GiveUp(task) == holder \notin {"none", task} /\ UNCHANGED holder
Give(task) == holder = task /\ holder' = "none"

-----------------------------------------------------------------------------
\* EnergyTask measures, stores the sample in the snapshot or gives up, and goes on.
\* Mutated form: it waits for the mutex without a limit.
EnergyTaskWaits ==
  /\ \/ energyPc = "sample" /\ energyPc' = "take" /\ UNCHANGED holder
     \/ energyPc = "take" /\ Take("energy") /\ energyPc' = "give"
     \/ energyPc = "give" /\ Give("energy") /\ energyPc' = "sample"
  /\ UNCHANGED <<snapshot, faultVars, networkVars, diagVars>>

EnergyTask ==
  /\ \/ energyPc = "sample" /\ energyPc' = "take" /\ UNCHANGED holder
     \/ energyPc = "take" /\ Take("energy") /\ energyPc' = "give"
     \/ energyPc = "take" /\ GiveUp("energy") /\ energyPc' = "sample"
     \/ energyPc = "give" /\ Give("energy") /\ energyPc' = "sample"
  /\ UNCHANGED <<snapshot, faultVars, networkVars, diagVars>>

-----------------------------------------------------------------------------
\* FaultTask receives and evaluates a sample.
Evaluate ==
  /\ faultPc = "receive" /\ faultPc' = "take"
  /\ event' \in Events
  /\ UNCHANGED <<holder, snapshot, energyPc, networkVars, diagVars>>

\* Mutated form of StoreFault: the state of the event is forgotten.
StoreFaultCode(s, e) == [s EXCEPT !.fault = [@ EXCEPT !.code = e.code]]
StoreFault(s, e) == [s EXCEPT !.fault = e]
StoreState(h, e) == [h EXCEPT !.currentState = e.state]
StoreCode(h, e) == [h EXCEPT !.activeFault = e.code]

\* updateFaultSnapshot(), field by field, or given up.
UpdateFault ==
  /\ \/ faultPc = "take" /\ Take("fault") /\ faultPc' = "fault" /\ UNCHANGED snapshot
     \/ faultPc = "take" /\ GiveUp("fault") /\ faultPc' = "receive" /\ UNCHANGED snapshot
     \/ /\ faultPc = "fault" /\ faultPc' = "state"
        /\ snapshot' = StoreFault(snapshot, event)
        /\ UNCHANGED holder
     \/ /\ faultPc = "state" /\ faultPc' = "code"
        /\ snapshot' = [snapshot EXCEPT !.health = StoreState(@, event)]
        /\ UNCHANGED holder
     \/ /\ faultPc = "code" /\ faultPc' = "receive"
        /\ snapshot' = [snapshot EXCEPT !.health = StoreCode(@, event)]
        /\ Give("fault")
  /\ UNCHANGED <<energyPc, event, networkVars, diagVars>>

FaultTask == Evaluate \/ UpdateFault

-----------------------------------------------------------------------------
\* NetworkTask, when it has received a sample, copies the snapshot or gives up.
CopySnapshot ==
  /\ \/ networkPc = "receive" /\ networkPc' \in {"take", "report"}
        /\ UNCHANGED <<holder, current>>
     \/ networkPc = "take" /\ Take("network") /\ networkPc' = "fault" /\ UNCHANGED current
     \/ networkPc = "take" /\ GiveUp("network") /\ networkPc' = "report" /\ UNCHANGED current
     \/ /\ networkPc = "fault" /\ networkPc' = "health"
        /\ current' = [current EXCEPT !.fault = snapshot.fault]
        /\ UNCHANGED holder
     \/ /\ networkPc = "health" /\ networkPc' = "update"
        /\ current' = [current EXCEPT !.health = snapshot.health]
        /\ Give("network")
  /\ UNCHANGED <<snapshot, energyPc, faultVars, modbus, published, diagVars>>

\* modbus.update(data, current.health)
UpdateModbus ==
  /\ networkPc = "update" /\ networkPc' = "report"
  /\ modbus' = current.health
  /\ current' = NoSnapshot
  /\ UNCHANGED <<holder, snapshot, energyPc, faultVars, published, diagVars>>

\* The health for the update manager: a second copy, or given up.  Only whether its
\* fault is critical is handed on, which may be either in OtaManager.
ReportHealth ==
  /\ \/ networkPc = "report" /\ Take("network") /\ networkPc' = "reported"
     \/ networkPc = "report" /\ GiveUp("network") /\ networkPc' = "counters"
     \/ networkPc = "reported" /\ Give("network") /\ networkPc' = "counters"
  /\ UNCHANGED <<snapshot, energyPc, faultVars, current, modbus, published, diagVars>>

\* At the end of the loop the counters are stored and, when the diagnostics are
\* due, the health is copied under the same lock and then published.
UpdateCounters ==
  /\ \/ networkPc = "counters" /\ Take("network") /\ networkPc' = "give" /\ UNCHANGED published
     \/ networkPc = "counters" /\ GiveUp("network") /\ networkPc' = "receive"
        /\ UNCHANGED published
     \/ networkPc = "give" /\ Give("network") /\ networkPc' = "receive" /\ UNCHANGED published
     \/ /\ networkPc = "give" /\ networkPc' = "publish"
        /\ published' = snapshot.health
        /\ Give("network")
     \/ /\ networkPc = "publish" /\ networkPc' = "receive"
        /\ published' = NoHealth
        /\ UNCHANGED holder
  /\ UNCHANGED <<snapshot, energyPc, faultVars, current, modbus, diagVars>>

NetworkTask == CopySnapshot \/ UpdateModbus \/ ReportHealth \/ UpdateCounters

-----------------------------------------------------------------------------
\* DiagnosticsTask copies the snapshot, completes its copy with the heap and
\* prints it, or gives up.
DiagnosticsTask ==
  /\ \/ diagPc = "copy" /\ Take("diag") /\ diagPc' = "take" /\ UNCHANGED health
     \/ diagPc = "copy" /\ GiveUp("diag") /\ UNCHANGED diagVars
     \/ /\ diagPc = "take" /\ diagPc' = "print"
        /\ health' = [snapshot.health EXCEPT !.freeHeap = ActualHeap]
        /\ Give("diag")
     \/ /\ diagPc = "print" /\ diagPc' = "copy"
        /\ health' = NoHealth
        /\ UNCHANGED holder
  /\ UNCHANGED <<snapshot, energyPc, faultVars, networkVars>>

Next == EnergyTask \/ FaultTask \/ NetworkTask \/ DiagnosticsTask

\* Every task is scheduled, and NetworkTask completes a copy again and again: it
\* is supplied with samples as EnergyTask goes on, and the mutex is held for
\* microseconds and waited for milliseconds.
Spec ==
  /\ Init /\ [][Next]_vars
  /\ WF_vars(EnergyTask) /\ WF_vars(FaultTask) /\ WF_vars(NetworkTask) /\ WF_vars(DiagnosticsTask)
  /\ []<>(networkPc = "update")

\* EnergyTask alone is scheduled; every other task may stop where it is.
EnergySpec == Init /\ [][Next]_vars /\ WF_vars(EnergyTask)

-----------------------------------------------------------------------------
Health == [currentState : SystemState, activeFault : FaultCode, freeHeap : {0, ActualHeap}]
Snapshot == [fault : Events, health : Health]

TypeOK ==
  /\ holder \in {"none", "energy", "fault", "network", "diag"}
  /\ snapshot \in Snapshot /\ current \in Snapshot
  /\ energyPc \in {"sample", "take", "give"}
  /\ faultPc \in {"receive", "take", "fault", "state", "code"} /\ event \in Events
  /\ networkPc \in {"receive", "take", "fault", "health", "update", "report", "reported",
                   "counters", "give", "publish"}
  /\ modbus \in Health /\ published \in Health /\ health \in Health
  /\ diagPc \in {"copy", "take", "print"}

\* The health fields of an update belong together.
Paired(h) == [state |-> h.currentState, code |-> h.activeFault] \in Events

\* No task ever works on a torn copy: what NetworkTask took out of the snapshot
\* has the fault event and the health of one update, and the state and the code
\* that Modbus serves, MQTT publishes and the console prints belong together.
CopiesAreWhole ==
  /\ networkPc = "update" => current.health = HealthOf(current.fault)
  /\ Paired(modbus) /\ Paired(published) /\ Paired(health)

\* docs/architecture.md: "Network failure must not stop energy measurement."
\* Measurement goes on when every other task stops anywhere, the holder of the
\* mutex included.
MeasurementGoesOn == []<>(energyPc = "sample") /\ []<>(energyPc # "sample")

-----------------------------------------------------------------------------
\* docs/modbus-register-map.md: register 7 is "Free heap".  Once DiagnosticsTask
\* has measured the heap, the registers come to show it.
FreeHeapIsServed == (health.freeHeap # 0) ~> (modbus.freeHeap # 0)
=============================================================================
