----------------------------- MODULE FaultManager -----------------------------
(***************************************************************************)
(* The class FaultManager: the state machine that turns every EnergyData   *)
(* sample into NORMAL, WARNING, FAULT or RECOVERY and a fault code.        *)
(*                                                                         *)
(* A sample is the part of EnergyData that evaluate() looks at.  Currents  *)
(* and voltages are naturals: the meter's filter leaves finite values that *)
(* are not negative, and only their comparisons with the thresholds count. *)
(* Timestamps are uint32 milliseconds, so they and the fault counter wrap  *)
(* at Wrap (2^32 in the code, a small number under TLC).                   *)
(***************************************************************************)
EXTENDS Integers

CONSTANTS
  voltageCutoff, voltageWarningLow, voltageWarningHigh,  \* volts
  overcurrentWarningA, overcurrentFaultA,                \* amperes
  faultDebounceMs, faultRecoveryTimeMs,                  \* durations
  Wrap                                                   \* 2^32

ASSUME TimingAssumption ==
  /\ faultDebounceMs \in Nat \ {0}
  /\ faultRecoveryTimeMs \in Nat \ {0}
  /\ Wrap \in Nat
  /\ faultDebounceMs < Wrap
  /\ faultRecoveryTimeMs < Wrap

ASSUME ThresholdAssumption ==
  /\ overcurrentWarningA \in Nat
  /\ overcurrentFaultA \in Nat
  /\ overcurrentWarningA <= overcurrentFaultA

VARIABLES
  state, activeFault, faultCount,
  abnormalSinceMs, healthySinceMs, abnormalActive, healthyActive

fmVars == <<state, activeFault, faultCount,
            abnormalSinceMs, healthySinceMs, abnormalActive, healthyActive>>

SystemState == {"NORMAL", "WARNING", "FAULT", "RECOVERY"}

\* The codes the measurement path can produce; the rest of the enum is reserved.
FaultCode == {"NONE", "INVALID_SENSOR_READING", "OVERCURRENT", "ABNORMAL_VOLTAGE"}

Sample == [valid : BOOLEAN, voltage : Nat, current : Nat]

Uint32 == 0 .. Wrap - 1

\* Unsigned addition and subtraction of two timestamps.  Mutated form: a timer
\* that starts over when millis() has wrapped.
Plus(a, d) == IF a + d < Wrap THEN a + d ELSE a + d - Wrap
MinusNoWrap(a, b) == IF b <= a THEN a - b ELSE 0
Minus(a, b) == IF b <= a THEN a - b ELSE a - b + Wrap

FmTypeOK ==
  /\ state \in SystemState
  /\ activeFault \in FaultCode
  /\ faultCount \in Uint32
  /\ abnormalSinceMs \in Uint32
  /\ healthySinceMs \in Uint32
  /\ abnormalActive \in BOOLEAN
  /\ healthyActive \in BOOLEAN

FmInit ==
  /\ state = "NORMAL"
  /\ activeFault = "NONE"
  /\ faultCount = 0
  /\ abnormalSinceMs = 0
  /\ healthySinceMs = 0
  /\ abnormalActive = FALSE
  /\ healthyActive = FALSE

-----------------------------------------------------------------------------
VoltageAbnormal(data) ==
  \/ data.voltage < voltageCutoff
  \/ data.voltage < voltageWarningLow
  \/ data.voltage > voltageWarningHigh

\* Mutated form: sensors that yield nothing are reported with a reserved code.
detectFaultReserved(data) ==
  IF ~data.valid THEN "SENSOR_TIMEOUT"
  ELSE IF data.current >= overcurrentWarningA THEN "OVERCURRENT"
  ELSE IF VoltageAbnormal(data) THEN "ABNORMAL_VOLTAGE"
  ELSE "NONE"
detectFault(data) ==
  IF ~data.valid THEN "INVALID_SENSOR_READING"
  ELSE IF data.current >= overcurrentWarningA THEN "OVERCURRENT"
  ELSE IF VoltageAbnormal(data) THEN "ABNORMAL_VOLTAGE"
  ELSE "NONE"

Abnormal(data) == detectFault(data) # "NONE"

Serious(data) ==
  /\ Abnormal(data)
  /\ \/ detectFault(data) = "OVERCURRENT"
     \/ ~data.valid
     \/ data.current >= overcurrentFaultA

\* The debounce timer runs from the first abnormal sample of any kind.
AbnormalSince(nowMs) == IF abnormalActive THEN abnormalSinceMs ELSE nowMs

\* Mutated forms: a debounce that any abnormal sample completes, and one that
\* is satisfied by the first serious sample.
PromotionDueAnySample(data, nowMs) ==
  Minus(nowMs, AbnormalSince(nowMs)) >= faultDebounceMs
PromotionDueAtOnce(data, nowMs) == Serious(data)

PromotionDue(data, nowMs) ==
  /\ Serious(data)
  /\ Minus(nowMs, AbnormalSince(nowMs)) >= faultDebounceMs

\* The first half of evaluate(): the sample is abnormal.
EvaluateAbnormal(data, nowMs) ==
  /\ Abnormal(data)
  /\ healthyActive' = FALSE
  /\ healthySinceMs' = 0
  /\ abnormalActive' = TRUE
  /\ abnormalSinceMs' = AbnormalSince(nowMs)
  /\ \/ /\ PromotionDue(data, nowMs)
        /\ state' = "FAULT"
        /\ activeFault' = detectFault(data)
        /\ faultCount' = IF state = "FAULT" THEN faultCount ELSE Plus(faultCount, 1)
     \/ /\ ~PromotionDue(data, nowMs)
        /\ state \in {"NORMAL", "RECOVERY"}
        /\ state' = "WARNING"
        /\ activeFault' = detectFault(data)
        /\ UNCHANGED faultCount
     \/ /\ ~PromotionDue(data, nowMs)
        /\ state \in {"WARNING", "FAULT"}
        /\ UNCHANGED <<state, activeFault, faultCount>>

RecoveryComplete(nowMs) ==
  /\ state = "RECOVERY"
  /\ healthyActive
  /\ Minus(nowMs, healthySinceMs) >= faultRecoveryTimeMs

\* Mutated forms of EvaluateHealthy: one healthy sample clears the fault, and
\* a debounce timer that is not reset.
EvaluateHealthyAtOnce(data, nowMs) ==
  /\ ~Abnormal(data)
  /\ state' = "NORMAL"
  /\ activeFault' = "NONE"
  /\ abnormalActive' = FALSE
  /\ abnormalSinceMs' = 0
  /\ healthyActive' = FALSE
  /\ UNCHANGED <<faultCount, healthySinceMs>>
EvaluateHealthyKeepsTimer(data, nowMs) ==
  /\ ~Abnormal(data)
  /\ state' = IF state = "NORMAL" THEN "NORMAL" ELSE "RECOVERY"
  /\ activeFault' = "NONE"
  /\ healthyActive' = TRUE
  /\ UNCHANGED <<faultCount, healthySinceMs, abnormalActive, abnormalSinceMs>>

\* The second half: the sample is healthy.
EvaluateHealthy(data, nowMs) ==
  /\ ~Abnormal(data)
  /\ abnormalActive' = FALSE
  /\ abnormalSinceMs' = 0
  /\ UNCHANGED faultCount
  /\ \/ /\ state \in {"FAULT", "WARNING"}
        /\ state' = "RECOVERY"
        /\ activeFault' = "NONE"
        /\ healthySinceMs' = nowMs
        /\ healthyActive' = TRUE
     \/ /\ RecoveryComplete(nowMs)
        /\ state' = "NORMAL"
        /\ healthyActive' = FALSE
        /\ UNCHANGED <<activeFault, healthySinceMs>>
     \/ /\ state \in {"NORMAL", "RECOVERY"}
        /\ ~RecoveryComplete(nowMs)
        /\ UNCHANGED <<state, activeFault, healthySinceMs, healthyActive>>

evaluate(data, nowMs) == EvaluateAbnormal(data, nowMs) \/ EvaluateHealthy(data, nowMs)
=============================================================================
