------------------------------ MODULE MCFaultTask ------------------------------
(***************************************************************************)
(* FaultTask for TLC: the thresholds of include/config.h, time in seconds  *)
(* with a shorter recovery time, and a counter that wraps after 8 seconds. *)
(***************************************************************************)
EXTENDS FaultTask

\* A sample at each side of every threshold: nominal, overcurrent between the
\* warning and the fault threshold, overcurrent at the fault threshold, a low
\* and a high voltage, and the invalid sample the filter makes of a dead sensor.
MCReadings ==
  {[valid |-> TRUE, voltage |-> 200, current |-> c] : c \in {5, 8, 12}}
    \cup {[valid |-> TRUE, voltage |-> v, current |-> 5] : v \in {199, 251}}
    \cup {[valid |-> FALSE, voltage |-> 0, current |-> 0]}
=============================================================================
