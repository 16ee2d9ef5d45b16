------------------------------- MODULE Controller -------------------------------
(***************************************************************************)
(* The way of a sample through src/main.cpp: EnergyTask measures, one-     *)
(* element queues carry the sample to FaultTask and to NetworkTask, and    *)
(* what FaultTask concludes comes to NetworkTask by the shared snapshot.   *)
(*                                                                         *)
(* A copy and an update of the snapshot are one step here, or are given up *)
(* when the mutex is not free in time: SharedSnapshot shows that no task   *)
(* sees less than a whole update.  StorageTask is in EnergyPersistence,    *)
(* what NetworkTask sends in MqttService.                                  *)
(*                                                                         *)
(* Time is counted in sample periods.  A sample carries a number for its   *)
(* timestamp, which stops at MaxSeq, so that the tasks run for ever in     *)
(* finitely many states.                                                   *)
(***************************************************************************)
EXTENDS FaultManager, Sequences

CONSTANTS
  Readings,                     \* what the sensors may yield
  NaN,                          \* what is no number
  currentCutoff, powerCutoff,   \* amperes and watts
  MaxSeq

ASSUME ControllerAssumption ==
  /\ \A r \in Readings : {r.voltage, r.current, r.power} \subseteq Int \cup {NaN}
  /\ voltageCutoff \in Nat /\ currentCutoff \in Nat /\ powerCutoff \in Nat
  /\ MaxSeq \in Nat \ {0}

VARIABLES
  clock,                           \* millis(), in sample periods
  energyPc, data,                  \* EnergyTask and its newest sample
  faultQueue, networkQueue,        \* a sample, or none; for NetworkTask its number will do
  fault,                           \* snapshot.fault
  faultPc, event,                  \* FaultTask and what evaluate() returned
  networkPc, received, current,    \* NetworkTask, its sample and its copy of fault
  telemetry,                       \* the record built last: its sample and its event
  lastFault, announced             \* the fault seen last, and the one published last

energyVars == <<clock, energyPc, data>>
faultVars == <<fmVars, faultPc, event>>
networkVars == <<networkPc, received, current, telemetry, lastFault, announced>>
vars == <<energyVars, faultQueue, networkQueue, fault, faultVars, networkVars>>

NoSample == [seq |-> 0, reading |-> [valid |-> FALSE, voltage |-> 0, current |-> 0]]
NoEvent == [code |-> "NONE", state |-> "NORMAL", seq |-> 0]
NotSeen == [code |-> "none seen", state |-> "NORMAL"]

\* What makes two fault events the same for NetworkTask.
Kind(e) == [code |-> e.code, state |-> e.state]

Init ==
  /\ FmInit
  /\ clock = 0
  /\ energyPc = "sample" /\ data = NoSample
  /\ faultQueue = <<>> /\ networkQueue = <<>>
  /\ fault = NoEvent
  /\ faultPc = "receive" /\ event = NoEvent
  /\ networkPc = "receive" /\ received = 0 /\ current = NoEvent
  /\ telemetry = [seq |-> 0, faultSeq |-> 0]
  /\ lastFault = NotSeen /\ announced = NotSeen

-----------------------------------------------------------------------------
\* The meter's filter: what is no number or below its cutoff counts as zero, and a
\* sample of zeros is invalid.
Above(x, cutoff) == IF x # NaN /\ x > cutoff THEN x ELSE 0
sanitizeSample(r) ==
  LET v == Above(r.voltage, voltageCutoff)
      c == Above(r.current, currentCutoff)
  IN  [valid |-> v > 0 \/ c > 0 \/ Above(r.power, powerCutoff) > 0, voltage |-> v, current |-> c]

\* EnergyTask: measure, then overwrite the two queues one after the other.
Measure ==
  /\ energyPc = "sample" /\ energyPc' = "queueFault"
  /\ clock' = Plus(clock, 1)
  /\ \E r \in Readings :
       data' = [seq |-> IF data.seq < MaxSeq THEN data.seq + 1 ELSE MaxSeq, reading |-> sanitizeSample(r)]
  /\ UNCHANGED <<faultQueue, networkQueue, fault, faultVars, networkVars>>

\* Mutated forms of Overwrite: a queue that grows, a full queue that keeps the
\* sample it has.
SendToBack(queue, item) == Append(queue, item)
SendIfRoom(queue, item) == IF queue = <<>> THEN <<item>> ELSE queue
Overwrite(queue, item) == <<item>>

QueueSample ==
  /\ \/ /\ energyPc = "queueFault" /\ energyPc' = "queueNetwork"
        /\ faultQueue' = Overwrite(faultQueue, data)
        /\ UNCHANGED networkQueue
     \/ /\ energyPc = "queueNetwork" /\ energyPc' = "sample"
        /\ networkQueue' = Overwrite(networkQueue, data.seq)
        /\ UNCHANGED faultQueue
  /\ UNCHANGED <<clock, data, fault, faultVars, networkVars>>

EnergyTask == Measure \/ QueueSample

-----------------------------------------------------------------------------
\* FaultTask: evaluate a sample, then update the snapshot or give up.
Evaluate ==
  /\ faultPc = "receive" /\ faultPc' = "update"
  /\ faultQueue # <<>> /\ faultQueue' = <<>>
  /\ evaluate(Head(faultQueue).reading, clock)
  /\ event' = [code |-> activeFault', state |-> state', seq |-> Head(faultQueue).seq]
  /\ UNCHANGED <<energyVars, networkQueue, fault, networkVars>>

\* Mutated form: the end of a fault is not stored.
UpdateFaultIfAny ==
  /\ faultPc = "update" /\ faultPc' = "receive"
  /\ fault' \in IF event.code = "NONE" THEN {fault} ELSE {event, fault}
  /\ event' = NoEvent
  /\ UNCHANGED <<energyVars, faultQueue, networkQueue, fmVars, networkVars>>
UpdateFault ==
  /\ faultPc = "update" /\ faultPc' = "receive"
  /\ fault' \in {event, fault}
  /\ event' = NoEvent
  /\ UNCHANGED <<energyVars, faultQueue, networkQueue, fmVars, networkVars>>

FaultTask == Evaluate \/ UpdateFault

-----------------------------------------------------------------------------
\* NetworkTask: receive a sample, copy the snapshot or give up and drop the sample.
Receive ==
  /\ networkPc = "receive" /\ networkPc' = "copy"
  /\ networkQueue # <<>> /\ networkQueue' = <<>>
  /\ received' = Head(networkQueue)
  /\ UNCHANGED <<energyVars, faultQueue, fault, faultVars, current, telemetry, lastFault,
                 announced>>

\* Mutated form of GiveUpCopy: its failure goes unnoticed.
Copy == networkPc' = "handle" /\ current' = fault /\ UNCHANGED received
GiveUpCopyUnnoticed == networkPc' = "handle" /\ UNCHANGED <<received, current>>
GiveUpCopy == networkPc' = "receive" /\ received' = 0 /\ UNCHANGED current

CopySnapshot ==
  /\ networkPc = "copy"
  /\ Copy \/ GiveUpCopy
  /\ UNCHANGED <<energyVars, faultQueue, networkQueue, fault, faultVars, telemetry, lastFault,
                 announced>>

FaultChanged == lastFault # Kind(current)
FaultToPublish == FaultChanged /\ (lastFault # NotSeen \/ current.code # "NONE")

\* Mutated form of Seen: an end of a fault is not noted as seen.
SeenIfFault == IF current.code = "NONE" THEN lastFault ELSE Kind(current)
Seen == Kind(current)

\* The record is built, and the fault compared with the one seen last.
Handle ==
  /\ networkPc = "handle" /\ networkPc' = "receive"
  /\ telemetry' = [seq |-> received, faultSeq |-> current.seq]
  /\ announced' = IF FaultToPublish THEN Kind(current) ELSE announced
  /\ lastFault' = Seen
  /\ received' = 0 /\ current' = NoEvent
  /\ UNCHANGED <<energyVars, faultQueue, networkQueue, fault, faultVars>>

NetworkTask == Receive \/ CopySnapshot \/ Handle

Next == EnergyTask \/ FaultTask \/ NetworkTask

\* Every task is scheduled, and a task that waits for the mutex time and again
\* gets it at times: it is held for microseconds and waited for milliseconds.
Fairness ==
  /\ WF_vars(EnergyTask) /\ WF_vars(FaultTask) /\ WF_vars(NetworkTask)
  /\ SF_vars(UpdateFault /\ fault' = event)
  /\ SF_vars(CopySnapshot /\ Copy)

Spec == Init /\ [][Next]_vars /\ Fairness

-----------------------------------------------------------------------------
Event == [code : FaultCode, state : SystemState, seq : 0 .. MaxSeq]
QueuedSample == [seq : 0 .. MaxSeq, reading : Sample]
Queue(q, items) == q = <<>> \/ (Len(q) = 1 /\ Head(q) \in items)

TypeOK ==
  /\ FmTypeOK
  /\ clock \in Uint32
  /\ energyPc \in {"sample", "queueFault", "queueNetwork"}
  /\ data \in QueuedSample /\ Queue(faultQueue, QueuedSample)
  /\ Queue(networkQueue, 0 .. MaxSeq)
  /\ fault \in Event /\ event \in Event /\ current \in Event
  /\ faultPc \in {"receive", "update"}
  /\ networkPc \in {"receive", "copy", "handle"}
  /\ received \in 0 .. MaxSeq
  /\ telemetry \in [seq : 0 .. MaxSeq, faultSeq : 0 .. MaxSeq]

\* Outside EnergyTask's own update a sample that waits in a queue is the newest
\* one: a slow consumer finds the current measurement and not a backlog.
NewestIsWaiting ==
  /\ energyPc \in {"queueNetwork", "sample"} /\ faultQueue # <<>> => Head(faultQueue) = data
  /\ energyPc = "sample" /\ networkQueue # <<>> => Head(networkQueue) = data.seq

\* Successive telemetry records go forward, in the sample and in the fault event
\* they are paired with, although the two take different ways and either may be
\* ahead of the other.
TelemetryGoesForward ==
  [][telemetry'.seq >= telemetry.seq /\ telemetry'.faultSeq >= telemetry.faultSeq]_vars

\* docs/fault-state-machine.md: the same fault event is not sent continuously.
\* An event that is published differs from the one published before it, however
\* many cycles, skipped snapshots and missed transitions lie between.
FaultIsNotRepeated ==
  [][networkPc = "handle" /\ networkPc' # "handle" /\ FaultToPublish
       => Kind(current) # announced]_vars

\* A fault that stays is noticed: when the fault manager has settled, NetworkTask
\* comes to see its state and code, although updates of the snapshot and copies
\* of it are given up when the mutex is not free.
SettledFaultIsSeen ==
  <>[][UNCHANGED <<state, activeFault>>]_vars
    => <>[](lastFault = [code |-> activeFault, state |-> state])

\* EnergyTask takes the next sample when FaultTask has dealt with the last one, as
\* it does unless FaultTask is held up for a sample period.
InPace == energyPc = "sample" /\ energyPc' # "sample" => faultQueue = <<>> /\ faultPc = "receive"

\* What the sensors keep showing is what NetworkTask comes to see, whatever the
\* fault manager went through before: FAULT when it is serious, as a current that
\* stays too high is, NORMAL when all is well.  (The code may be that of an earlier
\* fault.)
LastingConditionIsSeen ==
  <>[][InPace]_vars =>
    /\ <>[]Serious(data.reading) => <>[](lastFault.state = "FAULT")
    /\ <>[](detectFault(data.reading) = "NONE") => <>[](lastFault.state = "NORMAL")
=============================================================================
