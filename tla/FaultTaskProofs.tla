---------------------------- MODULE FaultTaskProofs ----------------------------
(***************************************************************************)
(* Proofs about FaultTask for every threshold, debounce and recovery time, *)
(* counter width and set of readings.                                      *)
(*                                                                         *)
(* The inductive invariant says what the timers mean: while a requirement  *)
(* still waits for a duration, the wrapped difference of timestamps the    *)
(* code computes is the real duration, or bounds it.                       *)
(***************************************************************************)
EXTENDS FaultTask, TLAPS

Healthy(r) == ~Abnormal(r)

PhaseInv ==
  /\ abnormalActive <=> Abnormal(reading)
  /\ healthyActive <=> state = "RECOVERY"
  /\ ReportAgrees

HistoryInv ==
  /\ ~Abnormal(reading) => abnormalFor = 0
  /\ ~Serious(reading) => seriousFor = 0
  /\ Abnormal(reading) => healthyFor = 0

\* The debounce timer is exact until the debounce time ...
DebounceExact ==
  Abnormal(reading) /\ abnormalFor < faultDebounceMs
    => Minus(now, abnormalSinceMs) = abnormalFor

\* ... and runs at least as long as the serious condition that awaits it.
DebounceRuns ==
  Serious(reading) /\ state # "FAULT"
    => /\ seriousFor <= Minus(now, abnormalSinceMs)
       /\ Minus(now, abnormalSinceMs) < faultDebounceMs

RecoveryExact ==
  state = "RECOVERY"
    => /\ healthyFor = Minus(now, healthySinceMs)
       /\ healthyFor < faultRecoveryTimeMs

IInv ==
  /\ TypeOK
  /\ PhaseInv
  /\ HistoryInv
  /\ FaultIsDebounced
  /\ DebounceExact
  /\ DebounceRuns
  /\ RecoveryExact

-----------------------------------------------------------------------------
\* Timestamps: sums and differences stay in range, and the difference to an
\* earlier timestamp grows with the clock until it would reach Wrap.
LEMMA ClockRange ==
  ASSUME NEW a \in Uint32, NEW d \in 0 .. Wrap
  PROVE  Plus(a, d) \in Uint32
  BY TimingAssumption DEF Plus, Uint32

\* A difference of timestamps is a duration, and no time has passed since now.
LEMMA DifferenceRange ==
  ASSUME NEW a \in Uint32, NEW b \in Uint32
  PROVE  /\ Minus(a, b) \in Nat
         /\ Minus(a, a) = 0
  BY TimingAssumption DEF Minus, Uint32

\* The difference to an earlier timestamp grows with the clock while it stays below Wrap.
LEMMA ClockGrows ==
  ASSUME NEW a \in Uint32, NEW b \in Uint32, NEW d \in Nat,
         Minus(a, b) + d < Wrap
  PROVE  Minus(Plus(a, d), b) = Minus(a, b) + d
  BY TimingAssumption DEF Plus, Minus, Uint32

\* Classification: serious samples are abnormal, and their code is one of two.
LEMMA Classes ==
  ASSUME NEW r \in Sample
  PROVE  /\ detectFault(r) \in FaultCode
         /\ Abnormal(r) <=> detectFault(r) # "NONE"
         /\ Serious(r) => Abnormal(r)
         /\ Serious(r) => detectFault(r) \in {"INVALID_SENSOR_READING", "OVERCURRENT"}
  BY ThresholdAssumption DEF detectFault, Abnormal, Serious, FaultCode, Sample

\* The history variables after a step, in terms of the two samples.
LEMMA HistoryStep ==
  ASSUME IInv, NEW data \in Readings, NEW d \in 0 .. MaxGap, faultTask(data, d)
  PROVE  /\ reading' = data
         /\ now' = Plus(now, d)
         /\ abnormalFor' = IF Abnormal(reading) /\ Abnormal(data)
                             THEN Lifecycle!Later(abnormalFor, d) ELSE 0
         /\ seriousFor' = IF Serious(reading) /\ Serious(data)
                            THEN Lifecycle!Later(seriousFor, d) ELSE 0
         /\ healthyFor' = IF ~Abnormal(reading) /\ ~Abnormal(data)
                            THEN Lifecycle!Later(healthyFor, d) ELSE 0
<1>1. reading \in Sample /\ data \in Sample
  BY ReadingsAssumption DEF IInv, TypeOK
<1>2. /\ (Serious(reading) => Abnormal(reading))
      /\ (Serious(data) => Abnormal(data))
  BY <1>1, Classes
<1>3. /\ (ClassOf(data) # "healthy") <=> Abnormal(data)
      /\ (ClassOf(data) = "serious") <=> Serious(data)
      /\ (ClassOf(reading) # "healthy") <=> Abnormal(reading)
      /\ (ClassOf(reading) = "serious") <=> Serious(reading)
  BY <1>2 DEF ClassOf
<1> QED
  BY <1>3 DEF faultTask, Lifecycle!Elapse

\* A duration that is counted up to the horizon.
LEMMA LaterIs ==
  ASSUME NEW t \in 0 .. Horizon, NEW d \in 0 .. MaxGap
  PROVE  /\ Lifecycle!Later(t, d) \in 0 .. Horizon
         /\ t <= Lifecycle!Later(t, d)
         /\ Lifecycle!Later(t, d) <= t + d
         /\ t + d <= Horizon => Lifecycle!Later(t, d) = t + d
         /\ Horizon < t + d => Lifecycle!Later(t, d) = Horizon
  BY GapAssumption DEF Lifecycle!Later

\* The invariant holds before the first sample.
LEMMA InitIInv == Init => IInv
<1> SUFFICES ASSUME Init PROVE IInv
  OBVIOUS
<1>1. reading \in Readings /\ reading \in Sample /\ ~Abnormal(reading)
  BY ReadingsAssumption DEF Init
<1>2. ~Serious(reading)
  BY <1>1, Classes
<1>3. 0 \in Uint32 /\ 0 \in 0 .. Horizon
  BY TimingAssumption, GapAssumption DEF Uint32
<1>4. TypeOK
  BY <1>1, <1>3 DEF Init, FmInit, TypeOK, FmTypeOK, SystemState, FaultCode
<1> QED
  BY <1>1, <1>2, <1>4 DEF Init, FmInit, IInv, PhaseInv, ReportAgrees, HistoryInv,
     FaultIsDebounced, DebounceExact, DebounceRuns, RecoveryExact

\* A sample keeps the types.
LEMMA StepTypeOK ==
  ASSUME IInv, NEW data \in Readings, NEW d \in 0 .. MaxGap, faultTask(data, d)
  PROVE  TypeOK'
<1>1. data \in Sample /\ d \in 0 .. Wrap
  BY ReadingsAssumption, GapAssumption, TimingAssumption
<1>2. now' \in Uint32
  BY <1>1, ClockRange, HistoryStep DEF IInv, TypeOK
<1>3. detectFault(data) \in FaultCode
  BY <1>1, Classes
<1>4. 0 \in Uint32 /\ 0 \in 0 .. Horizon /\ 1 \in 0 .. Wrap
  BY TimingAssumption, GapAssumption DEF Uint32
<1>5. Plus(faultCount, 1) \in Uint32
  BY <1>4, ClockRange DEF IInv, TypeOK, FmTypeOK
<1>6. AbnormalSince(now') \in Uint32
  BY <1>2 DEF IInv, TypeOK, FmTypeOK, AbnormalSince
<1>7. FmTypeOK'
  BY <1>2, <1>3, <1>4, <1>5, <1>6
     DEF IInv, TypeOK, FmTypeOK, faultTask, evaluate, EvaluateAbnormal,
         EvaluateHealthy, SystemState, FaultCode
<1>8. /\ abnormalFor' \in 0 .. Horizon
      /\ seriousFor' \in 0 .. Horizon
      /\ healthyFor' \in 0 .. Horizon
  BY <1>4, LaterIs, HistoryStep DEF IInv, TypeOK
<1> QED
  BY <1>2, <1>7, <1>8, HistoryStep DEF TypeOK

\* A sample keeps the flags, the phase and the report in agreement.
LEMMA StepPhaseInv ==
  ASSUME IInv, NEW data \in Readings, NEW d \in 0 .. MaxGap, faultTask(data, d)
  PROVE  PhaseInv'
<1>1. /\ Abnormal(data) <=> detectFault(data) # "NONE"
      /\ Serious(data) => Abnormal(data)
      /\ Serious(data) => detectFault(data) \in {"INVALID_SENSOR_READING", "OVERCURRENT"}
  BY ReadingsAssumption, Classes
<1>2. reading' = data /\ Abnormal(reading)' = Abnormal(data)
  BY HistoryStep DEF Abnormal, detectFault, VoltageAbnormal
<1>3. CASE EvaluateAbnormal(data, now')
  BY <1>1, <1>2, <1>3 DEF IInv, TypeOK, FmTypeOK, SystemState, PhaseInv, ReportAgrees,
     EvaluateAbnormal, PromotionDue
<1>4. CASE EvaluateHealthy(data, now')
  BY <1>1, <1>2, <1>4 DEF IInv, TypeOK, FmTypeOK, SystemState, PhaseInv, ReportAgrees,
     EvaluateHealthy, RecoveryComplete
<1> QED
  BY <1>3, <1>4 DEF faultTask, evaluate

\* FAULT and the debounce timer: the promotion is due no earlier than the real
\* time allows, and no later than a serious condition requires.
LEMMA StepDebounce ==
  ASSUME IInv, NEW data \in Readings, NEW d \in 0 .. MaxGap, faultTask(data, d)
  PROVE  FaultIsDebounced' /\ DebounceExact' /\ DebounceRuns'
<1> DEFINE ran == Minus(now', abnormalSinceMs')
<1>1. /\ reading' = data
      /\ Abnormal(reading)' = Abnormal(data)
      /\ Serious(reading)' = Serious(data)
      /\ Serious(data) => Abnormal(data)
      /\ Serious(reading) => Abnormal(reading)
  BY HistoryStep, Classes, ReadingsAssumption
     DEF IInv, TypeOK, Abnormal, Serious, detectFault, VoltageAbnormal
<1>2. CASE EvaluateHealthy(data, now')
  <2>1. ~Abnormal(data) /\ state' # "FAULT"
    BY <1>2 DEF EvaluateHealthy, IInv, TypeOK, FmTypeOK, SystemState
  <2> QED
    BY <1>1, <2>1 DEF FaultIsDebounced, DebounceExact, DebounceRuns
<1>3. CASE EvaluateAbnormal(data, now')
  <2>1. /\ Abnormal(data)
        /\ abnormalSinceMs' = IF Abnormal(reading) THEN abnormalSinceMs ELSE now'
        /\ ran = Minus(now', AbnormalSince(now'))
    BY <1>3 DEF EvaluateAbnormal, AbnormalSince, IInv, PhaseInv
  <2>2. /\ now' = Plus(now, d) /\ now' \in Uint32
        /\ d \in Nat /\ d <= Wrap - faultDebounceMs
        /\ now \in Uint32 /\ abnormalSinceMs \in Uint32
        /\ abnormalFor \in 0 .. Horizon /\ seriousFor \in 0 .. Horizon
    BY HistoryStep, GapAssumption, TimingAssumption, StepTypeOK
       DEF IInv, TypeOK, FmTypeOK
  <2>3. /\ ran \in Nat
        /\ ~Abnormal(reading) => ran = 0
    BY <2>1, <2>2, DifferenceRange
  <2>4. DebounceExact'
    <3> SUFFICES ASSUME abnormalFor' < faultDebounceMs PROVE ran = abnormalFor'
      BY DEF DebounceExact
    <3>1. CASE ~Abnormal(reading)
      BY <3>1, <2>3, HistoryStep
    <3>2. CASE Abnormal(reading)
      <4>1. abnormalFor + d < faultDebounceMs /\ abnormalFor' = abnormalFor + d
        BY <3>2, <2>1, <2>2, HistoryStep, LaterIs, GapAssumption, TimingAssumption
      <4>2. Minus(now, abnormalSinceMs) = abnormalFor
        BY <4>1, <3>2, <2>2, TimingAssumption DEF IInv, DebounceExact
      <4> QED
        BY <4>1, <4>2, <3>2, <2>1, <2>2, ClockGrows, TimingAssumption
    <3> QED
      BY <3>1, <3>2
  <2>5. FaultIsDebounced'
    <3> SUFFICES ASSUME state' = "FAULT" PROVE abnormalFor' >= faultDebounceMs
      BY DEF FaultIsDebounced
    <3>0. abnormalFor' \in Nat
      BY StepTypeOK, GapAssumption DEF TypeOK
    <3>1. CASE PromotionDue(data, now')
      <4>1. ran >= faultDebounceMs
        BY <3>1, <2>1 DEF PromotionDue
      <4> QED
        BY <4>1, <3>0, <2>1, <2>4, <1>1, TimingAssumption DEF DebounceExact
    <3>2. CASE ~PromotionDue(data, now')
      <4>1. state = "FAULT"
        BY <3>2, <1>3 DEF EvaluateAbnormal
      <4>2. Abnormal(reading) /\ abnormalFor >= faultDebounceMs
        BY <4>1 DEF IInv, PhaseInv, ReportAgrees, FaultIsDebounced
      <4> QED
        BY <4>2, <3>0, <2>1, <2>2, HistoryStep, LaterIs, TimingAssumption, GapAssumption
    <3> QED
      BY <3>1, <3>2
  <2>6. DebounceRuns'
    <3> SUFFICES ASSUME Serious(data), state' # "FAULT"
                 PROVE  seriousFor' <= ran /\ ran < faultDebounceMs
      BY <1>1 DEF DebounceRuns
    <3>1. ~PromotionDue(data, now') /\ state # "FAULT"
      BY <1>3 DEF EvaluateAbnormal
    <3>2. ran < faultDebounceMs
      BY <3>1, <2>1, <2>3, TimingAssumption DEF PromotionDue
    <3>3. CASE Serious(reading)
      <4>1. /\ seriousFor <= Minus(now, abnormalSinceMs)
            /\ Minus(now, abnormalSinceMs) < faultDebounceMs
        BY <3>1, <3>3 DEF IInv, DebounceRuns
      <4>2. Minus(now, abnormalSinceMs) \in Nat
        BY <2>2, DifferenceRange
      <4>3. ran = Minus(now, abnormalSinceMs) + d
        BY <4>1, <4>2, <3>3, <1>1, <2>1, <2>2, ClockGrows, TimingAssumption
      <4> QED
        BY <4>1, <4>2, <4>3, <3>2, <3>3, <2>2, HistoryStep, LaterIs, TimingAssumption,
           GapAssumption
    <3>4. CASE ~Serious(reading)
      BY <3>4, <3>2, <2>3, HistoryStep
    <3> QED
      BY <3>3, <3>4
  <2> QED
    BY <2>4, <2>5, <2>6
<1> QED
  BY <1>2, <1>3 DEF faultTask, evaluate

\* RECOVERY and its timer: exact for as long as the recovery lasts, so NORMAL
\* comes when the samples have been healthy for the recovery time and then only.
LEMMA StepRecovery ==
  ASSUME IInv, NEW data \in Readings, NEW d \in 0 .. MaxGap, faultTask(data, d)
  PROVE  /\ RecoveryExact'
         /\ ~Abnormal(data) /\ state = "RECOVERY" =>
              state' = IF healthyFor' >= faultRecoveryTimeMs THEN "NORMAL" ELSE "RECOVERY"
<1> DEFINE ran == Minus(now', healthySinceMs)
<1>1. /\ now' = Plus(now, d) /\ now' \in Uint32
      /\ d \in Nat /\ d <= Wrap - faultRecoveryTimeMs
      /\ now \in Uint32 /\ healthySinceMs \in Uint32
      /\ healthyFor \in 0 .. Horizon
  BY HistoryStep, GapAssumption, TimingAssumption, StepTypeOK DEF IInv, TypeOK, FmTypeOK
<1>2. CASE EvaluateAbnormal(data, now')
  <2>1. Abnormal(data) /\ state' # "RECOVERY"
    BY <1>2 DEF EvaluateAbnormal
  <2> QED
    BY <2>1 DEF RecoveryExact
<1>3. CASE EvaluateHealthy(data, now') /\ state = "RECOVERY"
  <2>1. ~Abnormal(data) /\ ~Abnormal(reading) /\ healthyActive
    BY <1>3 DEF EvaluateHealthy, IInv, PhaseInv, ReportAgrees
  <2>2. /\ healthyFor = Minus(now, healthySinceMs)
        /\ healthyFor < faultRecoveryTimeMs
    BY <1>3 DEF IInv, RecoveryExact
  <2>3. ran = healthyFor + d
    BY <1>1, <2>2, ClockGrows, TimingAssumption
  <2>4. /\ healthyFor' = Lifecycle!Later(healthyFor, d)
        /\ healthyFor' >= faultRecoveryTimeMs <=> ran >= faultRecoveryTimeMs
        /\ healthyFor' < faultRecoveryTimeMs => healthyFor' = ran
        /\ healthyFor' \in Nat
    BY <1>1, <2>1, <2>3, HistoryStep, LaterIs, GapAssumption, TimingAssumption
  <2>5. CASE ran >= faultRecoveryTimeMs
    <3>1. state' = "NORMAL"
      BY <1>3, <2>1, <2>5 DEF EvaluateHealthy, RecoveryComplete
    <3> QED
      BY <3>1, <2>4, <2>5 DEF RecoveryExact
  <2>6. CASE ~(ran >= faultRecoveryTimeMs)
    <3>1. state' = "RECOVERY" /\ healthySinceMs' = healthySinceMs
      BY <1>3, <2>6 DEF EvaluateHealthy, RecoveryComplete
    <3>2. healthyFor' < faultRecoveryTimeMs
      BY <2>4, <2>6, TimingAssumption
    <3> QED
      BY <3>1, <3>2, <2>4, <2>6 DEF RecoveryExact
  <2> QED
    BY <2>5, <2>6
<1>4. CASE EvaluateHealthy(data, now') /\ state # "RECOVERY"
  <2>1. state' = "RECOVERY" => /\ state \in {"WARNING", "FAULT"}
                               /\ healthySinceMs' = now'
    BY <1>4 DEF EvaluateHealthy
  <2>2. state' = "RECOVERY" => healthyFor' = 0 /\ Minus(now', healthySinceMs') = 0
    BY <2>1, <1>1, HistoryStep, DifferenceRange DEF IInv, PhaseInv, ReportAgrees
  <2> QED
    BY <1>4, <2>2, TimingAssumption DEF RecoveryExact
<1> QED
  BY <1>2, <1>3, <1>4 DEF faultTask, evaluate

\* A sample keeps the whole invariant: what the timers mean is preserved.
LEMMA StepIInv ==
  ASSUME IInv, NEW data \in Readings, NEW d \in 0 .. MaxGap, faultTask(data, d)
  PROVE  IInv'
<1>1. HistoryInv'
  BY HistoryStep DEF HistoryInv, Abnormal, Serious, detectFault, VoltageAbnormal
<1> QED
  BY <1>1, StepTypeOK, StepPhaseInv, StepDebounce, StepRecovery DEF IInv

\* What the inductive invariant says about a serious condition that persists.
LEMMA InvImplies == IInv => SustainedSeriousIsFault
<1> SUFFICES ASSUME IInv, state # "FAULT" PROVE ~(seriousFor >= faultDebounceMs)
  BY DEF SustainedSeriousIsFault
<1>1. CASE Serious(reading)
  <2>1. /\ now \in Uint32 /\ abnormalSinceMs \in Uint32 /\ seriousFor \in 0 .. Horizon
        /\ abnormalActive
    BY <1>1, Classes, ReadingsAssumption DEF IInv, TypeOK, FmTypeOK, PhaseInv
  <2>2. Minus(now, abnormalSinceMs) \in Nat
    BY <2>1, DifferenceRange
  <2> QED
    BY <1>1, <2>1, <2>2, TimingAssumption, GapAssumption DEF IInv, DebounceRuns
<1>2. CASE ~Serious(reading)
  BY <1>2, TimingAssumption DEF IInv, HistoryInv
<1> QED
  BY <1>1, <1>2

-----------------------------------------------------------------------------
\* The inductive invariant holds in every state of FaultTask.
THEOREM Invariance == Spec => []IInv
<1>1. IInv /\ [Next]_vars => IInv'
  <2>1. ASSUME IInv, Next PROVE IInv'
    BY <2>1, StepIInv DEF Next
  <2>2. ASSUME IInv, UNCHANGED vars PROVE IInv'
    BY <2>2 DEF vars, fmVars, history, IInv, TypeOK, FmTypeOK, PhaseInv, ReportAgrees,
       HistoryInv, FaultIsDebounced, DebounceExact, DebounceRuns, RecoveryExact
  <2> QED
    BY <2>1, <2>2
<1> QED
  BY InitIInv, <1>1, PTL DEF Spec

\* The variables keep their types, the timestamps and the counter their width.
THEOREM TypeCorrect == Spec => []TypeOK
<1>1. IInv => TypeOK
  BY DEF IInv
<1> QED
  BY <1>1, Invariance, PTL

\* FAULT is never entered before samples have been abnormal for the debounce time.
THEOREM FaultDebounced == Spec => []FaultIsDebounced
<1>1. IInv => FaultIsDebounced
  BY DEF IInv
<1> QED
  BY <1>1, Invariance, PTL

\* Samples that stay serious for the debounce time lead to FAULT.
THEOREM SeriousReachesFault == Spec => []SustainedSeriousIsFault
  BY InvImplies, Invariance, PTL

\* Samples that stay healthy for the recovery time lead back to NORMAL.
THEOREM HealthyReaches == Spec => []HealthyReturnsToNormal
<1>1. IInv => HealthyReturnsToNormal
  BY TimingAssumption, GapAssumption
     DEF IInv, TypeOK, FmTypeOK, SystemState, HistoryInv, PhaseInv, ReportAgrees,
         RecoveryExact, HealthyReturnsToNormal
<1> QED
  BY <1>1, Invariance, PTL

\* The reported state and code agree with the last sample.
THEOREM ReportCorrect == Spec => []ReportAgrees
<1>1. IInv => ReportAgrees
  BY DEF IInv, PhaseInv
<1> QED
  BY <1>1, Invariance, PTL

\* NORMAL is re-entered only after samples healthy for the recovery time.
THEOREM RecoveryConfirmed == Spec => RecoveryIsConfirmed
<1>1. IInv /\ [Next]_vars =>
        [state # "NORMAL" /\ state' = "NORMAL" => healthyFor' >= faultRecoveryTimeMs]_vars
  <2> SUFFICES ASSUME IInv, NEW data \in Readings, NEW d \in 0 .. MaxGap, faultTask(data, d),
                      state # "NORMAL", state' = "NORMAL"
               PROVE  healthyFor' >= faultRecoveryTimeMs
    BY DEF Next
  <2>1. EvaluateHealthy(data, now')
    BY DEF faultTask, evaluate, EvaluateAbnormal
  <2>2. state = "RECOVERY" /\ ~Abnormal(data)
    BY <2>1 DEF EvaluateHealthy, RecoveryComplete
  <2> QED
    BY <2>2, StepRecovery
<1> QED
  BY Invariance, <1>1, PTL DEF Spec, RecoveryIsConfirmed

-----------------------------------------------------------------------------
\* The state machine on wrapping timestamps implements the lifecycle over real
\* durations: every evaluation is a step the lifecycle allows.
LEMMA StepRefines ==
  ASSUME IInv, NEW data \in Readings, NEW d \in 0 .. MaxGap, faultTask(data, d)
  PROVE  Lifecycle!Next
<1>1. /\ data \in Sample /\ reading' = data
      /\ ClassOf(reading)' = ClassOf(data)
      /\ ClassOf(data) \in {"healthy", "abnormal", "serious"}
      /\ (ClassOf(data) = "healthy") <=> ~Abnormal(data)
      /\ (ClassOf(data) = "serious") <=> Serious(data)
  BY ReadingsAssumption, HistoryStep, Classes
     DEF ClassOf, Abnormal, Serious, detectFault, VoltageAbnormal
<1>2. Lifecycle!Elapse(ClassOf(data), d)
  BY DEF faultTask
<1>3. IInv'
  BY StepIInv
<1>4. CASE EvaluateAbnormal(data, now')
  <2>1. Abnormal(data) /\ state' \in {"WARNING", "FAULT"} /\ (state = "FAULT" => state' = "FAULT")
    BY <1>4 DEF EvaluateAbnormal
  <2>2. state' = "FAULT" /\ state # "FAULT" => Serious(data) /\ abnormalFor' >= faultDebounceMs
    BY <1>3, <1>4 DEF EvaluateAbnormal, PromotionDue, IInv, FaultIsDebounced
  <2>3. seriousFor' >= faultDebounceMs => state' = "FAULT"
    <3>1. SustainedSeriousIsFault'
      BY <1>3, InvImplies, PTL
    <3> QED
      BY <3>1 DEF SustainedSeriousIsFault
  <2> QED
    BY <1>1, <1>2, <2>1, <2>2, <2>3 DEF Lifecycle!Next, Lifecycle!Worsen
<1>5. CASE EvaluateHealthy(data, now')
  <2>1. /\ ~Abnormal(data)
        /\ state \in {"WARNING", "FAULT"} => state' = "RECOVERY"
        /\ state = "NORMAL" => state' = "NORMAL"
    BY <1>5 DEF EvaluateHealthy, RecoveryComplete
  <2>2. state = "RECOVERY" =>
          state' = IF healthyFor' >= faultRecoveryTimeMs THEN "NORMAL" ELSE "RECOVERY"
    BY <2>1, StepRecovery
  <2> QED
    BY <1>1, <1>2, <2>1, <2>2 DEF Lifecycle!Next, Lifecycle!Improve
<1> QED
  BY <1>4, <1>5 DEF faultTask, evaluate

\* FaultTask with its wrapping timestamps implements the lifecycle over real durations.
THEOREM Refinement == Spec => ImplementsLifecycle
<1>1. Init => Lifecycle!Init
  <2> SUFFICES ASSUME Init PROVE Lifecycle!Init
    OBVIOUS
  <2>1. ClassOf(reading) = "healthy"
    BY ReadingsAssumption, Classes DEF Init, ClassOf
  <2> QED
    BY <2>1 DEF Init, FmInit, Lifecycle!Init
<1>2. IInv /\ [Next]_vars => [Lifecycle!Next]_Lifecycle!lifecycleVars
  <2>1. ASSUME IInv, Next PROVE Lifecycle!Next
    BY <2>1, StepRefines DEF Next
  <2>2. ASSUME UNCHANGED vars PROVE UNCHANGED Lifecycle!lifecycleVars
    BY <2>2 DEF vars, fmVars, history, Lifecycle!lifecycleVars, ClassOf, Serious, Abnormal,
       detectFault, VoltageAbnormal
  <2> QED
    BY <2>1, <2>2
<1> QED
  BY Invariance, <1>1, <1>2, PTL DEF Spec, ImplementsLifecycle, Lifecycle!Spec
=============================================================================
