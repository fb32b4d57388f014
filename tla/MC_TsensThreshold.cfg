\* Thresholds inside the handle's range, and a temperature that stays in
\* that range (get_celsius never reports range_changed).
CONSTANTS
  Offsets <- MCOffsets
  RangeOf <- MCRangeOf
  AdcFactor = 4386
  DacFactor = 278800
  OffsetFactor = 205200
  Scale = 10000
  OutOfRangeInputs = FALSE
  AutoRange = FALSE
SPECIFICATION Spec
INVARIANT ThresholdEventsMatchConfig
INVARIANT NoConversionUB
