--------------------------- MODULE MC_TempSensor ---------------------------
(***************************************************************************)
(* Model values for TempSensor.  The attribute table is the one the        *)
(* esp32c6 SoC layer gives temperature_sensor_attributes[] (offset,        *)
(* reg_val, range, error_max); the requested ranges are two that several  *)
(* ranges of different accuracy contain, and one no range contains.        *)
(***************************************************************************)
EXTENDS TempSensor

MCAttrs ==
  << [offset |-> -2, reg_val |-> 5,  range_min |-> 50,  range_max |-> 125, error_max |-> 3],
     [offset |-> -1, reg_val |-> 7,  range_min |-> 20,  range_max |-> 100, error_max |-> 2],
     [offset |-> 0,  reg_val |-> 15, range_min |-> -10, range_max |-> 80,  error_max |-> 1],
     [offset |-> 1,  reg_val |-> 11, range_min |-> -30, range_max |-> 50,  error_max |-> 2],
     [offset |-> 2,  reg_val |-> 10, range_min |-> -40, range_max |-> 20,  error_max |-> 3] >>

MCCfgRanges ==
  { [min |-> 0, max |-> 40], [min |-> 60, max |-> 90], [min |-> -50, max |-> 0] }

\* The sorted orders are exactly the permutations of the table that are
\* sorted by error_max.
ASSUME TableSortOrders = {s \in SetToSeqs(Idx) : IsSorted(s, AccuracyOrdered)}

\* The state without the history variables fault, lastCb and registered:
\* no guard reads them, so states that differ only in them have the same
\* futures, and a run whose properties do not mention them can identify
\* such states.
DriverView == <<taskVars, memVars, sysVars, hwVars, isrVars>>

\* s_tsens_idx starts at the offset-0 range.
MCResetIdx == 3
============================================================================
