---------------------------- MODULE ControllerProofs ----------------------------
(***************************************************************************)
(* Proofs about Controller, for all thresholds, sensor readings, timestamp *)
(* widths and numbers of samples, and every interleaving of the tasks.     *)
(*                                                                         *)
(* A sample number reaches a telemetry record by two ways, as the sample   *)
(* and in the fault event it gave rise to.  SampleWayInv and FaultWayInv   *)
(* order the numbers along each of them.                                   *)
(***************************************************************************)
EXTENDS Controller, TLAPS

\* data, the queue, the sample in hand and the record: each no older than the next.
SampleWayInv ==
  /\ telemetry.seq <= data.seq /\ received <= data.seq
  /\ networkPc \in {"copy", "handle"} => telemetry.seq <= received
  /\ networkQueue # <<>> =>
       /\ telemetry.seq <= Head(networkQueue) /\ Head(networkQueue) <= data.seq
       /\ networkPc \in {"copy", "handle"} => received <= Head(networkQueue)

\* data, the queue, FaultTask's event, the snapshot, NetworkTask's copy of it and
\* the record.
FaultWayInv ==
  /\ fault.seq <= data.seq /\ event.seq <= data.seq
  /\ faultPc = "update" => fault.seq <= event.seq
  /\ faultQueue # <<>> =>
       /\ fault.seq <= Head(faultQueue).seq /\ Head(faultQueue).seq <= data.seq
       /\ faultPc = "update" => event.seq <= Head(faultQueue).seq
  /\ current.seq <= fault.seq /\ telemetry.faultSeq <= fault.seq
  /\ networkPc = "handle" => telemetry.faultSeq <= current.seq

\* What was seen last was published, unless it was the end of nothing published.
AnnouncedInv ==
  \/ lastFault = announced
  \/ announced = NotSeen /\ lastFault.code = "NONE"

IInv ==
  /\ TypeOK
  /\ NewestIsWaiting
  /\ SampleWayInv
  /\ FaultWayInv
  /\ AnnouncedInv

-----------------------------------------------------------------------------
\* A timestamp later on is a timestamp, and so is zero.
LEMMA ClockTypes ==
  /\ 0 \in Uint32
  /\ \A t \in Uint32 : Plus(t, 1) \in Uint32
  BY TimingAssumption DEF Plus, Uint32

\* What the meter's filter leaves is a natural number ...
LEMMA AboveIsNat ==
  ASSUME NEW x \in Int \cup {NaN}, NEW cutoff \in Nat
  PROVE  Above(x, cutoff) \in Nat
  BY DEF Above

\* ... and makes a sample.
LEMMA SanitizedIsSample ==
  ASSUME NEW r \in Readings
  PROVE  sanitizeSample(r) \in Sample
<1> DEFINE v == Above(r.voltage, voltageCutoff)
           c == Above(r.current, currentCutoff)
           isValid == v > 0 \/ c > 0 \/ Above(r.power, powerCutoff) > 0
<1>1. v \in Nat /\ c \in Nat
  BY ControllerAssumption, AboveIsNat
<1>2. isValid \in BOOLEAN
  BY Zenon
<1>3. sanitizeSample(r) = [valid |-> isValid, voltage |-> v, current |-> c]
  BY Zenon DEF sanitizeSample
<1> HIDE DEF v, c, isValid
<1> QED
  BY <1>1, <1>2, <1>3 DEF Sample

\* A code is one of the codes the measurement path can produce.
LEMMA CodeTypes ==
  ASSUME NEW d
  PROVE  detectFault(d) \in FaultCode
  BY DEF detectFault, FaultCode

\* evaluate() keeps the types of the fault manager.
LEMMA EvaluateTypes ==
  ASSUME FmTypeOK, NEW d, NEW nowMs \in Uint32, evaluate(d, nowMs)
  PROVE  FmTypeOK'
<1>1. /\ 0 \in Uint32 /\ AbnormalSince(nowMs) \in Uint32 /\ Plus(faultCount, 1) \in Uint32
      /\ detectFault(d) \in FaultCode
  BY ClockTypes, CodeTypes DEF AbnormalSince, FmTypeOK
<1>2. CASE EvaluateAbnormal(d, nowMs)
  BY <1>1, <1>2 DEF EvaluateAbnormal, FmTypeOK, SystemState
<1>3. CASE EvaluateHealthy(d, nowMs)
  BY <1>1, <1>3 DEF EvaluateHealthy, FmTypeOK, SystemState, FaultCode
<1> QED
  BY <1>2, <1>3 DEF evaluate

\* A queue that was just written holds what was written.
LEMMA OverwriteHolds ==
  ASSUME NEW q, NEW x
  PROVE  /\ Overwrite(q, x) # <<>>
         /\ Len(Overwrite(q, x)) = 1
         /\ Head(Overwrite(q, x)) = x
  BY DEF Overwrite

\* The numbers are numbers.
LEMMA SeqTypes ==
  ASSUME TypeOK
  PROVE  /\ MaxSeq \in Nat
         /\ data.seq \in 0 .. MaxSeq /\ fault.seq \in 0 .. MaxSeq
         /\ event.seq \in 0 .. MaxSeq /\ current.seq \in 0 .. MaxSeq
         /\ received \in 0 .. MaxSeq
         /\ telemetry.seq \in 0 .. MaxSeq /\ telemetry.faultSeq \in 0 .. MaxSeq
         /\ faultQueue # <<>> => Head(faultQueue) \in QueuedSample
                                 /\ Head(faultQueue).seq \in 0 .. MaxSeq
         /\ networkQueue # <<>> => Head(networkQueue) \in 0 .. MaxSeq
  BY ControllerAssumption DEF TypeOK, QueuedSample, Event, Queue

\* There is an event that says nothing happened, and a sample of nothing.
LEMMA NothingTypes == NoEvent \in Event /\ NoSample \in QueuedSample
  BY ControllerAssumption
     DEF NoEvent, Event, FaultCode, SystemState, NoSample, QueuedSample, Sample

\* Before the first sample nothing is on its way.
LEMMA InitIInv == Init => IInv
<1> SUFFICES ASSUME Init PROVE IInv
  OBVIOUS
<1>1. TypeOK
  <2>1. FmTypeOK
    BY ClockTypes DEF Init, FmInit, FmTypeOK, SystemState, FaultCode
  <2>2. 0 \in 0 .. MaxSeq
    BY ControllerAssumption
  <2> QED
    BY <2>1, <2>2, ClockTypes, NothingTypes DEF Init, TypeOK, Queue
<1> QED
  BY <1>1 DEF Init, NoSample, NoEvent, IInv, NewestIsWaiting, SampleWayInv, FaultWayInv, AnnouncedInv

-----------------------------------------------------------------------------
\* A new sample is newer than all that is on its way.
LEMMA MeasureStep == IInv /\ Measure => IInv'
<1> SUFFICES ASSUME IInv, Measure PROVE IInv'
  OBVIOUS
<1> USE DEF IInv, Measure
<1>1. PICK r \in Readings :
        data' = [seq |-> IF data.seq < MaxSeq THEN data.seq + 1 ELSE MaxSeq,
                 reading |-> sanitizeSample(r)]
  OBVIOUS
<1>2. data'.seq \in 0 .. MaxSeq /\ data.seq <= data'.seq
  BY SMTT(30), <1>1, SeqTypes
<1>3. data' \in QueuedSample
  BY <1>1, <1>2, SanitizedIsSample DEF QueuedSample
<1>4. clock' \in Uint32
  BY ClockTypes DEF TypeOK
<1>5. TypeOK'
  BY <1>3, <1>4 DEF TypeOK, FmTypeOK, faultVars, fmVars, networkVars
<1>6. NewestIsWaiting'
  BY DEF NewestIsWaiting
<1>7. SampleWayInv'
  BY SMTT(30), <1>2, SeqTypes DEF SampleWayInv, networkVars
<1>8. FaultWayInv'
  BY SMTT(30), <1>2, SeqTypes DEF FaultWayInv, faultVars, networkVars
<1>9. AnnouncedInv'
  BY DEF AnnouncedInv, networkVars
<1> QED
  BY <1>5, <1>6, <1>7, <1>8, <1>9

\* A queue gets the newest sample.
LEMMA QueueSampleStep == IInv /\ QueueSample => IInv'
<1> SUFFICES ASSUME IInv, QueueSample PROVE IInv'
  OBVIOUS
<1> USE DEF IInv, QueueSample
<1>1. CASE energyPc = "queueFault"
  <2>1. /\ faultQueue' # <<>> /\ Len(faultQueue') = 1 /\ Head(faultQueue') = data
        /\ energyPc' = "queueNetwork" /\ networkQueue' = networkQueue
    BY <1>1, OverwriteHolds
  <2>2. TypeOK'
    BY <2>1 DEF TypeOK, Queue, FmTypeOK, faultVars, fmVars, networkVars
  <2>3. NewestIsWaiting'
    BY <2>1 DEF NewestIsWaiting
  <2>4. SampleWayInv'
    BY <2>1 DEF SampleWayInv, networkVars
  <2>5. FaultWayInv'
    BY <2>1, SeqTypes DEF FaultWayInv, faultVars, networkVars
  <2> QED
    BY <2>2, <2>3, <2>4, <2>5 DEF AnnouncedInv, networkVars
<1>2. CASE energyPc = "queueNetwork"
  <2>1. /\ networkQueue' # <<>> /\ Len(networkQueue') = 1 /\ Head(networkQueue') = data.seq
        /\ energyPc' = "sample" /\ faultQueue' = faultQueue
    BY <1>2, OverwriteHolds
  <2>2. TypeOK'
    BY <2>1, SeqTypes DEF TypeOK, Queue, FmTypeOK, faultVars, fmVars, networkVars
  <2>3. NewestIsWaiting'
    BY <1>2, <2>1 DEF NewestIsWaiting
  <2>4. SampleWayInv'
    BY <2>1, SeqTypes DEF SampleWayInv, networkVars
  <2>5. FaultWayInv'
    BY <2>1 DEF FaultWayInv, faultVars, networkVars
  <2> QED
    BY <2>2, <2>3, <2>4, <2>5 DEF AnnouncedInv, networkVars
<1> QED
  BY <1>1, <1>2

-----------------------------------------------------------------------------
\* FaultTask's event carries the number of the sample it was derived from.
LEMMA EvaluateStep == IInv /\ Evaluate => IInv'
<1> SUFFICES ASSUME IInv, Evaluate PROVE IInv'
  OBVIOUS
<1> USE DEF IInv, Evaluate
<1>1. /\ Head(faultQueue).seq \in 0 .. MaxSeq
      /\ event'.seq = Head(faultQueue).seq
  BY SeqTypes
<1>2. FmTypeOK'
  BY EvaluateTypes DEF TypeOK
<1>3. event' \in Event
  BY <1>1, <1>2 DEF FmTypeOK, Event
<1>4. TypeOK'
  BY <1>2, <1>3 DEF TypeOK, Queue, energyVars, networkVars
<1>5. NewestIsWaiting'
  BY DEF NewestIsWaiting, energyVars
<1>6. SampleWayInv'
  BY DEF SampleWayInv, energyVars, networkVars
<1>7. FaultWayInv'
  BY <1>1, SeqTypes DEF FaultWayInv, energyVars, networkVars
<1> QED
  BY <1>4, <1>5, <1>6, <1>7 DEF AnnouncedInv, networkVars

\* The snapshot goes on to the event, or stays.
LEMMA UpdateFaultStep == IInv /\ UpdateFault => IInv'
<1> SUFFICES ASSUME IInv, UpdateFault PROVE IInv'
  OBVIOUS
<1> USE DEF IInv, UpdateFault
<1>1. fault' = event \/ fault' = fault
  OBVIOUS
<1>2. TypeOK'
  BY <1>1, NothingTypes DEF TypeOK, FmTypeOK, energyVars, fmVars, networkVars
<1>3. NewestIsWaiting'
  BY DEF NewestIsWaiting, energyVars
<1>4. SampleWayInv'
  BY DEF SampleWayInv, energyVars, networkVars
<1>5. event'.seq = 0
  BY DEF NoEvent
<1>6. FaultWayInv'
  BY <1>1, <1>5, SeqTypes DEF FaultWayInv, energyVars, networkVars
<1> QED
  BY <1>2, <1>3, <1>4, <1>6 DEF AnnouncedInv, networkVars

-----------------------------------------------------------------------------
\* The sample received is no older than the last one told.
LEMMA ReceiveStep == IInv /\ Receive => IInv'
<1> SUFFICES ASSUME IInv, Receive PROVE IInv'
  OBVIOUS
<1> USE DEF IInv, Receive
<1>1. TypeOK'
  BY SeqTypes DEF TypeOK, FmTypeOK, Queue, energyVars, faultVars, fmVars
<1>2. NewestIsWaiting'
  BY DEF NewestIsWaiting, energyVars
<1>3. SampleWayInv'
  BY DEF SampleWayInv, energyVars
<1>4. FaultWayInv'
  BY DEF FaultWayInv, energyVars, faultVars
<1> QED
  BY <1>1, <1>2, <1>3, <1>4 DEF AnnouncedInv

\* The copy of the snapshot is no older than the event told last.
LEMMA CopySnapshotStep == IInv /\ CopySnapshot => IInv'
<1> SUFFICES ASSUME IInv, CopySnapshot PROVE IInv'
  OBVIOUS
<1> USE DEF IInv, CopySnapshot
<1>1. \/ networkPc' = "handle" /\ current' = fault /\ received' = received
      \/ networkPc' = "receive" /\ received' = 0 /\ current' = current
  BY DEF Copy, GiveUpCopy
<1>2. 0 \in 0 .. MaxSeq
  BY ControllerAssumption
<1>3. TypeOK'
  BY <1>1, <1>2 DEF TypeOK, FmTypeOK, Queue, energyVars, faultVars, fmVars
<1>4. NewestIsWaiting'
  BY DEF NewestIsWaiting, energyVars
<1>5. SampleWayInv'
  BY <1>1, SeqTypes DEF SampleWayInv, energyVars
<1>6. FaultWayInv'
  BY <1>1, SeqTypes DEF FaultWayInv, energyVars, faultVars
<1> QED
  BY <1>3, <1>4, <1>5, <1>6 DEF AnnouncedInv

\* A fault that is published is not the one published last.
LEMMA PublishedIsNew ==
  ASSUME IInv, FaultToPublish
  PROVE  Kind(current) # announced
<1>1. Kind(current).code # "none seen"
  BY DEF IInv, TypeOK, Event, FaultCode, Kind
<1>2. lastFault # Kind(current)
  BY DEF FaultToPublish, FaultChanged
<1>3. NotSeen.code = "none seen"
  BY DEF NotSeen
<1>4. lastFault = announced \/ announced = NotSeen
  BY DEF IInv, AnnouncedInv
<1> QED
  BY <1>1, <1>2, <1>3, <1>4

\* The record takes the numbers in hand.
LEMMA HandleStep == IInv /\ Handle => IInv'
<1> SUFFICES ASSUME IInv, Handle PROVE IInv'
  OBVIOUS
<1> USE DEF IInv, Handle
<1>1. 0 \in 0 .. MaxSeq /\ current'.seq = 0
  BY ControllerAssumption DEF NoEvent
<1>2. TypeOK'
  BY <1>1, SeqTypes, NothingTypes
     DEF TypeOK, FmTypeOK, Queue, energyVars, faultVars, fmVars
<1>3. NewestIsWaiting'
  BY DEF NewestIsWaiting, energyVars
<1>4. SampleWayInv'
  BY <1>1, SeqTypes DEF SampleWayInv, energyVars
<1>5. FaultWayInv'
  BY <1>1, SeqTypes DEF FaultWayInv, energyVars, faultVars
<1>6. AnnouncedInv'
  <2>1. CASE FaultToPublish
    BY <2>1 DEF AnnouncedInv, Seen
  <2>2. CASE ~FaultChanged
    BY <2>2 DEF AnnouncedInv, Seen, FaultChanged, FaultToPublish
  <2>3. CASE FaultChanged /\ ~FaultToPublish
    <3>1. lastFault = NotSeen /\ current.code = "NONE" /\ announced' = announced
      BY <2>3 DEF FaultToPublish
    <3>2. announced = NotSeen
      BY <3>1 DEF AnnouncedInv, NotSeen
    <3>3. lastFault'.code = "NONE"
      BY <3>1 DEF Seen, Kind
    <3> QED
      BY <3>1, <3>2, <3>3 DEF AnnouncedInv
  <2> QED
    BY <2>1, <2>2, <2>3
<1> QED
  BY <1>2, <1>3, <1>4, <1>5, <1>6

\* Nothing changes when nothing happens.
LEMMA Stutter == IInv /\ UNCHANGED vars => IInv'
<1> SUFFICES ASSUME IInv, UNCHANGED vars PROVE IInv'
  OBVIOUS
<1> USE DEF IInv, vars, energyVars, faultVars, fmVars, networkVars
<1>1. TypeOK'
  BY DEF TypeOK, FmTypeOK, Queue
<1> QED
  BY <1>1 DEF NewestIsWaiting, SampleWayInv, FaultWayInv, AnnouncedInv

-----------------------------------------------------------------------------
\* The invariant holds in every state, whatever each task's pace.
LEMMA Invariance == Spec => []IInv
<1>1. IInv /\ [Next]_vars => IInv'
  BY MeasureStep, QueueSampleStep, EvaluateStep, UpdateFaultStep, ReceiveStep,
     CopySnapshotStep, HandleStep, Stutter DEF Next, EnergyTask, FaultTask, NetworkTask
<1> QED
  BY <1>1, InitIInv, PTL DEF Spec

\* Every variable of the three tasks, the queues and the snapshot keeps its type.
THEOREM TypeCorrect == Spec => []TypeOK
<1>1. IInv => TypeOK
  BY DEF IInv
<1> QED
  BY <1>1, Invariance, PTL

\* The one-element queues never make a consumer work through a backlog.
THEOREM NewestWaits == Spec => []NewestIsWaiting
<1>1. IInv => NewestIsWaiting
  BY DEF IInv
<1> QED
  BY <1>1, Invariance, PTL

\* Telemetry never goes back, in its sample or in its fault event.
THEOREM TelemetryForward == Spec => TelemetryGoesForward
<1>1. ASSUME IInv, [Next]_vars
      PROVE  telemetry'.seq >= telemetry.seq /\ telemetry'.faultSeq >= telemetry.faultSeq
  <2> USE <1>1 DEF IInv
  <2>1. CASE Handle
    BY <2>1, SeqTypes DEF Handle, SampleWayInv, FaultWayInv
  <2>2. CASE ~Handle
    <3>1. telemetry' = telemetry
      BY <2>2 DEF Next, EnergyTask, FaultTask, NetworkTask, Measure, QueueSample, Evaluate,
         UpdateFault, Receive, CopySnapshot, vars, networkVars
    <3> QED
      BY <3>1, SeqTypes
  <2> QED
    BY <2>1, <2>2
<1>2. IInv /\ [Next]_vars =>
        [telemetry'.seq >= telemetry.seq /\ telemetry'.faultSeq >= telemetry.faultSeq]_vars
  BY <1>1
<1> QED
  BY <1>2, Invariance, PTL DEF Spec, TelemetryGoesForward

\* No two fault events published one after the other are the same.
THEOREM NotRepeated == Spec => FaultIsNotRepeated
<1>1. IInv /\ [Next]_vars =>
        [networkPc = "handle" /\ networkPc' # "handle" /\ FaultToPublish
           => Kind(current) # announced]_vars
  BY PublishedIsNew
<1> QED
  BY <1>1, Invariance, PTL DEF Spec, FaultIsNotRepeated
=============================================================================
