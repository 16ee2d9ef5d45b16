------------------------------ MODULE MCOtaManager ------------------------------
(***************************************************************************)
(* OtaManager for TLC: three versions, the example of docs/ota-update.md   *)
(* and one that is newer in a higher part and lower in the last.           *)
(***************************************************************************)
EXTENDS OtaManager

MCReleases == <<<<1, 0, 9>>, <<1, 0, 10>>, <<1, 1, 0>>>>
=============================================================================
