------------------------- MODULE MC_TempSensorIsr -------------------------
(***************************************************************************)
(* Smaller model values for the questions about the ISR running next to    *)
(* a task on another core: two ranges of the esp32c6 table (the reset      *)
(* range and one it can switch to) and one requested range.  The table    *)
(* only decides which attribute is chosen, which these runs do not ask.    *)
(***************************************************************************)
EXTENDS TempSensor

IsrAttrs ==
  << [offset |-> 0,  reg_val |-> 15, range_min |-> -10, range_max |-> 80,  error_max |-> 1],
     [offset |-> -1, reg_val |-> 7,  range_min |-> 20,  range_max |-> 100, error_max |-> 2] >>

IsrCfgRanges == { [min |-> 30, max |-> 90] }

IsrResetIdx == 1
============================================================================
