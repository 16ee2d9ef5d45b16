---------------------------- MODULE DropOldestQueue ----------------------------
(***************************************************************************)
(* What the telemetry buffer promises: a first-in first-out queue of       *)
(* bounded length that makes room by dropping its oldest record, and       *)
(* counts what it dropped (docs/mqtt-telemetry.md, Offline telemetry       *)
(* buffer).                                                                *)
(***************************************************************************)
EXTENDS Naturals, Sequences

CONSTANTS Record, Limit

VARIABLES queue, lost

Init == queue = <<>> /\ lost = 0

Push(r) ==
  \/ /\ Len(queue) < Limit
     /\ queue' = Append(queue, r)
     /\ UNCHANGED lost
  \/ /\ Len(queue) = Limit
     /\ queue' = Append(Tail(queue), r)
     /\ lost' = lost + 1

Discard ==
  /\ queue # <<>>
  /\ queue' = Tail(queue)
  /\ UNCHANGED lost

Next == (\E r \in Record : Push(r)) \/ Discard

Spec == Init /\ [][Next]_<<queue, lost>>
=============================================================================
