------------------------------ MODULE MCController ------------------------------
(***************************************************************************)
(* Controller for TLC: a reading with nothing wrong and one of a voltage   *)
(* sensor that fails while the current is above the warning threshold of   *)
(* include/config.h; a debounce and a recovery of one sample each.         *)
(***************************************************************************)
EXTENDS Controller

MCReadings ==
  {[voltage |-> 230, current |-> 2, power |-> 460],
   [voltage |-> NaN, current |-> 9, power |-> 2070]}
=============================================================================
