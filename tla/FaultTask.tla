------------------------------- MODULE FaultTask -------------------------------
(***************************************************************************)
(* FaultTask drives the FaultManager: it takes a sample off the fault      *)
(* queue and evaluates it at millis().  Samples may be overwritten in the  *)
(* queue before the task runs, so any sample may come at any gap of up to  *)
(* MaxGap after the one before.                                            *)
(*                                                                         *)
(* reading is the sample evaluated last, which the FaultEvent returned by  *)
(* evaluate() carries beside state, activeFault and now.  abnormalFor,     *)
(* seriousFor and healthyFor are history variables: real durations, exact  *)
(* up to Horizon, to check the wrapping timestamps of the code against.    *)
(***************************************************************************)
EXTENDS FaultManager

CONSTANTS Readings,   \* the samples the meter can produce
          MaxGap,     \* the longest time between two evaluations
          Horizon     \* durations are counted up to here

ASSUME ReadingsAssumption == Readings \subseteq Sample

ASSUME GapAssumption ==
  /\ MaxGap \in Nat
  /\ MaxGap <= Wrap - faultDebounceMs
  /\ MaxGap <= Wrap - faultRecoveryTimeMs
  /\ Horizon \in Nat
  /\ Horizon >= faultDebounceMs
  /\ Horizon >= faultRecoveryTimeMs

VARIABLES now, reading, abnormalFor, seriousFor, healthyFor

history == <<abnormalFor, seriousFor, healthyFor>>
vars == <<fmVars, now, reading, history>>

ClassOf(data) ==
  IF Serious(data) THEN "serious" ELSE IF Abnormal(data) THEN "abnormal" ELSE "healthy"

Lifecycle == INSTANCE FaultLifecycle
               WITH phase <- state, class <- ClassOf(reading),
                    Debounce <- faultDebounceMs, RecoveryTime <- faultRecoveryTimeMs

Init ==
  /\ FmInit
  /\ now = 0
  /\ reading \in {r \in Readings : ~Abnormal(r)}   \* nothing is wrong before the first sample
  /\ abnormalFor = 0 /\ seriousFor = 0 /\ healthyFor = 0

faultTask(data, d) ==
  /\ now' = Plus(now, d)
  /\ reading' = data
  /\ evaluate(data, now')
  /\ Lifecycle!Elapse(ClassOf(data), d)

Next == \E data \in Readings, d \in 0 .. MaxGap : faultTask(data, d)

Spec == Init /\ [][Next]_vars

-----------------------------------------------------------------------------
TypeOK ==
  /\ FmTypeOK
  /\ now \in Uint32
  /\ reading \in Readings
  /\ abnormalFor \in 0 .. Horizon
  /\ seriousFor \in 0 .. Horizon
  /\ healthyFor \in 0 .. Horizon

\* FAULT is never entered early: whenever the controller is in FAULT its
\* samples have been abnormal for at least the debounce time, in real time,
\* whatever the millisecond counter did meanwhile.
FaultIsDebounced == state = "FAULT" => abnormalFor >= faultDebounceMs

\* FAULT is never missed: samples that have been serious for the debounce time
\* have put the controller in FAULT, also when the counter wrapped, when some
\* samples were overwritten in the queue, and when the debounce timer was
\* started long before by a sample that was not serious.
SustainedSeriousIsFault == seriousFor >= faultDebounceMs => state = "FAULT"

\* A fault is cleared by stability and never by one good sample: NORMAL after
\* an abnormal sample means that the samples have been healthy for the recovery
\* time, which does not count the time before a relapse.
RecoveryIsConfirmed ==
  [][state # "NORMAL" /\ state' = "NORMAL" => healthyFor' >= faultRecoveryTimeMs]_vars

\* Recovery ends: samples that have been healthy for the recovery time, however
\* they were spaced, have put the controller back in NORMAL.
HealthyReturnsToNormal == healthyFor >= faultRecoveryTimeMs => state = "NORMAL"

\* What is reported agrees with the samples: a fault code is shown exactly
\* while the last sample was abnormal, and FAULT never names a condition that
\* cannot be serious, although the code is latched over several samples.
ReportAgrees ==
  /\ (activeFault # "NONE") <=> Abnormal(reading)
  /\ (state \in {"WARNING", "FAULT"}) <=> Abnormal(reading)
  /\ state = "FAULT" => activeFault \in {"INVALID_SENSOR_READING", "OVERCURRENT"}

\* The wrapping timestamps implement the lifecycle over real durations.
ImplementsLifecycle == Lifecycle!Spec

-----------------------------------------------------------------------------
\* docs/fault-state-machine.md calls overcurrentFaultA the "Serious overcurrent
\* threshold": a fault for overcurrent is raised by a current that reaches it.
\* The code treats every OVERCURRENT sample as serious.
OvercurrentFaultNeedsThreshold ==
  [][state # "FAULT" /\ state' = "FAULT" /\ activeFault' = "OVERCURRENT"
       => reading'.current >= overcurrentFaultA]_vars

\* docs/fault-state-machine.md describes FAULT as "A serious condition stayed
\* active through the debounce period".  The code starts its timer at the first
\* abnormal sample and asks only the last one to be serious.
SeriousConditionPersisted ==
  [][state # "FAULT" /\ state' = "FAULT" => seriousFor' >= faultDebounceMs]_vars
=============================================================================
