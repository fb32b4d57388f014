\* The hardware switches range while the sensor is enabled.
CONSTANTS
  Offsets <- MCOffsets
  RangeOf <- MCRangeOf
  AdcFactor = 4386
  DacFactor = 278800
  OffsetFactor = 205200
  Scale = 10000
  OutOfRangeInputs = FALSE
  AutoRange = TRUE
SPECIFICATION Spec
INVARIANT ThresholdEventsMatchConfig
