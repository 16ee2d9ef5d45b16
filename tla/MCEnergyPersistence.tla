-------------------------- MODULE MCEnergyPersistence --------------------------
(***************************************************************************)
(* EnergyPersistence for TLC: two tariffs, a few units of energy and       *)
(* resets.                                                                 *)
(***************************************************************************)
EXTENDS EnergyPersistence

MCTariffs == {1, 2}
=============================================================================
