---------------------------- MODULE FaultLifecycle ----------------------------
(***************************************************************************)
(* What the fault manager promises, without timestamps: how the phase may  *)
(* move, given for how long, in real time, the samples have been abnormal, *)
(* serious or healthy.  The edges are those of docs/fault-state-machine.md *)
(* and the one the diagram leaves out, RECOVERY -> WARNING.                *)
(*                                                                         *)
(* Between Debounce of abnormal and Debounce of serious samples the phase  *)
(* is free to be WARNING or FAULT: the code's timer lies in between.       *)
(***************************************************************************)
EXTENDS Integers

CONSTANTS Debounce, RecoveryTime, MaxGap, Horizon

VARIABLES phase, class, abnormalFor, seriousFor, healthyFor

lifecycleVars == <<phase, class, abnormalFor, seriousFor, healthyFor>>

\* Durations are exact up to Horizon, which no requirement looks beyond.
Later(t, d) == IF t + d <= Horizon THEN t + d ELSE Horizon

Init ==
  /\ phase = "NORMAL"
  /\ class = "healthy"
  /\ abnormalFor = 0 /\ seriousFor = 0 /\ healthyFor = 0

\* A sample of class c arrives d after the last one; a duration grows while
\* the samples at both of its ends are of its kind.
Elapse(c, d) ==
  /\ class' = c
  /\ abnormalFor' = IF class # "healthy" /\ c # "healthy" THEN Later(abnormalFor, d) ELSE 0
  /\ seriousFor' = IF class = "serious" /\ c = "serious" THEN Later(seriousFor, d) ELSE 0
  /\ healthyFor' = IF class = "healthy" /\ c = "healthy" THEN Later(healthyFor, d) ELSE 0

Worsen ==
  /\ class' # "healthy"
  /\ phase' \in {"WARNING", "FAULT"}
  /\ phase = "FAULT" => phase' = "FAULT"
  /\ phase' = "FAULT" /\ phase # "FAULT" => class' = "serious" /\ abnormalFor' >= Debounce
  /\ seriousFor' >= Debounce => phase' = "FAULT"

Improve ==
  /\ class' = "healthy"
  /\ phase \in {"WARNING", "FAULT"} => phase' = "RECOVERY"
  /\ phase = "RECOVERY" => phase' = IF healthyFor' >= RecoveryTime THEN "NORMAL" ELSE "RECOVERY"
  /\ phase = "NORMAL" => phase' = "NORMAL"

Next ==
  \E c \in {"healthy", "abnormal", "serious"}, d \in 0 .. MaxGap :
    /\ Elapse(c, d)
    /\ Worsen \/ Improve

Spec == Init /\ [][Next]_lifecycleVars
=============================================================================
