------------------------- MODULE MC_TsensThreshold -------------------------
(***************************************************************************)
(* Model values for TsensThreshold: the esp32c6 attribute table (the same  *)
(* as MC_TempSensor's) and the esp32c6 LL conversion factors 0.4386,       *)
(* 27.88 and 20.52, scaled by 10^4 so the arithmetic is exact.             *)
(***************************************************************************)
EXTENDS TsensThreshold, TLC

MCOffsets == {-2, -1, 0, 1, 2}

MCRangeOf ==
  (-2 :> [min |-> 50, max |-> 125]) @@ (-1 :> [min |-> 20, max |-> 100])
  @@ (0 :> [min |-> -10, max |-> 80]) @@ (1 :> [min |-> -30, max |-> 50])
  @@ (2 :> [min |-> -40, max |-> 20])
=============================================================================
