---------------------------- MODULE MCSharedSnapshot ----------------------------
(***************************************************************************)
(* SharedSnapshot for TLC: four fault events, each two of which differ in  *)
(* the state or in the code alone or in both.                              *)
(***************************************************************************)
EXTENDS SharedSnapshot

MCSystemState == {"NORMAL", "WARNING", "FAULT"}
MCFaultCode == {"NONE", "OVERCURRENT", "ABNORMAL_VOLTAGE"}
MCNoEvent == [state |-> "NORMAL", code |-> "NONE"]
MCEvents ==
  {MCNoEvent} \cup
  {[state |-> "WARNING", code |-> c] : c \in {"OVERCURRENT", "ABNORMAL_VOLTAGE"}} \cup
  {[state |-> "FAULT", code |-> "OVERCURRENT"]}
=============================================================================
