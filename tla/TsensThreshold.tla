--------------------------- MODULE TsensThreshold ---------------------------
(***************************************************************************)
(* Threshold programming of the temperature sensor driver                  *)
(* (temperature_sensor.c): set_absolute_threshold and set_delta_threshold  *)
(* convert Celsius to 8-bit register values with the offset of the range   *)
(* the handle is on; the ISR converts the raw reading back with the offset *)
(* the handle is on when it fires; get_celsius moves the handle to the     *)
(* range the hardware switched to.  The float arithmetic is done on        *)
(* integers scaled by Scale, and the float-to-integer casts truncate       *)
(* toward zero; a cast whose value the target type cannot hold is          *)
(* undefined behaviour, recorded in fault with any result the type holds.  *)
(***************************************************************************)
EXTENDS Integers, FiniteSets

CONSTANTS
  Offsets,        \* the offset fields of the attribute table
  RangeOf,        \* offset -> [range_min, range_max] of that attribute
  AdcFactor,      \* TEMPERATURE_SENSOR_LL_ADC_FACTOR * Scale
  DacFactor,      \* TEMPERATURE_SENSOR_LL_DAC_FACTOR * Scale
  OffsetFactor,   \* TEMPERATURE_SENSOR_LL_OFFSET_FACTOR * Scale
  Scale,
  OutOfRangeInputs, \* whether callers pass thresholds outside the range
  AutoRange       \* whether the hardware may switch range on a read

ASSUME /\ Offsets \subseteq -4..4 /\ Scale \in Nat \ {0}
       /\ {AdcFactor, DacFactor, OffsetFactor} \subseteq Nat \ {0}
       /\ OutOfRangeInputs \in BOOLEAN /\ AutoRange \in BOOLEAN

VARIABLES
  fsm,        \* tsens->fsm
  off,        \* tsens->tsens_attribute->offset
  hwOff,      \* offset of the range the hardware measures in
  mode,       \* temperature_sensor_ll_wakeup_mode
  thHigh, thLow,   \* temperature_sensor_ll_set_th_high_val / _low_val
  cfg,        \* history: the thresholds last requested, in Celsius
  event,      \* history: the last event data the ISR handed to the callback,
              \* with the thresholds requested when it fired
  fault       \* history: undefined conversions performed

vars == <<fsm, off, hwOff, mode, thHigh, thLow, cfg, event, fault>>

U8 == 0..255
I8 == -128..127

\* C conversion of a real value n / d to an integer type: truncation toward
\* zero, undefined outside the type.
Trunc(n, d) == IF n >= 0 THEN n \div d ELSE -((-n) \div d)

\* Celsius request inputs: inside the measure range of the handle's
\* attribute, or anywhere an int8_t holds when callers may pass any.
AbsInputs(o) ==
  IF OutOfRangeInputs THEN {RangeOf[o].min, RangeOf[o].max, -60, 125}
                      ELSE {RangeOf[o].min, RangeOf[o].max}
DeltaInputs ==
  IF OutOfRangeInputs THEN {1, 40, 120} ELSE {1, 40}

\* Mutant: the DAC term subtracted instead of added.
CelsiusToRegvalNum_SignSwapped(o, c) ==
  c * Scale + OffsetFactor - DacFactor * o

\* s_temperature_celsius_2_regval, lines 323-326: the scaled numerator of
\* (celsius + OFFSET_FACTOR + DAC_FACTOR * offset) / ADC_FACTOR.
CelsiusToRegvalNum(o, c) == c * Scale + OffsetFactor + DacFactor * o

\* Mutant: the OFFSET_FACTOR term forgotten on the way back.
RegvalToCelsiusNum_NoOffset(o, r) == AdcFactor * r - DacFactor * o

\* s_temperature_regval_2_celsius, lines 327-330: the scaled value of
\* ADC_FACTOR * regval - DAC_FACTOR * offset - OFFSET_FACTOR.
RegvalToCelsiusNum(o, r) == AdcFactor * r - DacFactor * o - OffsetFactor

\* A cast of n / d to the integer type lo..hi: its value when the type
\* holds it; when it is undefined, what the compiled conversions give: the
\* low bits of the integer (a wrap into the type) or the value saturated.
Wrap(lo, hi, v) == lo + ((v - lo) % (hi - lo + 1))
Saturate(lo, hi, v) == IF v < lo THEN lo ELSE IF v > hi THEN hi ELSE v
CastTo(lo, hi, n, d) ==
  IF Trunc(n, d) \in lo..hi THEN {Trunc(n, d)}
  ELSE {Wrap(lo, hi, Trunc(n, d)), Saturate(lo, hi, Trunc(n, d))}
Undefined(lo, hi, n, d) == Trunc(n, d) \notin lo..hi

Init ==
  /\ off \in Offsets
  /\ hwOff = off
  /\ fsm = "INIT"
  /\ mode = "none"
  /\ thHigh = 0 /\ thLow = 0
  /\ cfg = [kind |-> "none", high |-> 0, low |-> 0]
  /\ event = [cond |-> "none", celsius |-> 0, cfg |-> cfg]
  /\ fault = {}

\* temperature_sensor_set_absolute_threshold, lines 332-346.
SetAbsoluteThreshold(h, l) ==
  /\ fsm = "INIT"
  /\ mode' = "abs"
  /\ thHigh' \in CastTo(0, 255, CelsiusToRegvalNum(off, h), AdcFactor)
  /\ thLow' \in CastTo(0, 255, CelsiusToRegvalNum(off, l), AdcFactor)
  /\ cfg' = [kind |-> "abs", high |-> h, low |-> l]
  /\ fault' = IF \/ Undefined(0, 255, CelsiusToRegvalNum(off, h), AdcFactor)
                 \/ Undefined(0, 255, CelsiusToRegvalNum(off, l), AdcFactor)
              THEN fault \cup {"threshold_cast"} ELSE fault
  /\ UNCHANGED <<fsm, off, hwOff, event>>

\* temperature_sensor_set_delta_threshold, lines 347-361.
SetDeltaThreshold(inc, dec) ==
  /\ fsm = "INIT"
  /\ mode' = "delta"
  /\ thHigh' \in CastTo(0, 255, inc * Scale, AdcFactor)
  /\ thLow' \in CastTo(0, 255, dec * Scale, AdcFactor)
  /\ cfg' = [kind |-> "delta", high |-> inc, low |-> dec]
  /\ fault' = IF \/ Undefined(0, 255, inc * Scale, AdcFactor)
                 \/ Undefined(0, 255, dec * Scale, AdcFactor)
              THEN fault \cup {"threshold_cast"} ELSE fault
  /\ UNCHANGED <<fsm, off, hwOff, event>>

\* temperature_sensor_enable / _disable (lines 239-281): only the fsm
\* matters to the thresholds.
Enable  == fsm = "INIT"   /\ fsm' = "ENABLE" /\ UNCHANGED <<off, hwOff, mode, thHigh, thLow, cfg, event, fault>>
Disable == fsm = "ENABLE" /\ fsm' = "INIT"   /\ UNCHANGED <<off, hwOff, mode, thHigh, thLow, cfg, event, fault>>

\* temperature_sensor_get_celsius, lines 302-318, on a reading inside the
\* measure range: when the hardware switched range (range_changed), the
\* handle follows it; the threshold registers are left as they are.
GetCelsius ==
  /\ fsm = "ENABLE"
  /\ \E o \in IF AutoRange THEN Offsets ELSE {hwOff} :
       /\ hwOff' = o
       /\ off' = IF o # hwOff THEN o ELSE off
  /\ UNCHANGED <<fsm, mode, thHigh, thLow, cfg, event, fault>>

\* temperature_sensor_isr, lines 85-106: the hardware has raised the
\* threshold interrupt on a raw reading at or past a threshold register;
\* the ISR reports the reading converted with the handle's offset.
Isr ==
  /\ fsm = "ENABLE" /\ mode = "abs"
  /\ \E cond \in {"high", "low"} :
       \E r \in (IF cond = "high" THEN {thHigh, thHigh + 1}
                                  ELSE {thLow, thLow - 1}) \cap U8 :
         LET n == RegvalToCelsiusNum(off, r) IN
         /\ \E c \in CastTo(-128, 127, n, Scale) : event' = [cond |-> cond, celsius |-> c, cfg |-> cfg]
         /\ fault' = IF Undefined(-128, 127, n, Scale)
                     THEN fault \cup {"report_cast"} ELSE fault
  /\ UNCHANGED <<fsm, off, hwOff, mode, thHigh, thLow, cfg>>

Next ==
  \/ \E h, l \in AbsInputs(off) : SetAbsoluteThreshold(h, l)
  \/ \E inc, dec \in DeltaInputs : SetDeltaThreshold(inc, dec)
  \/ Enable \/ Disable \/ GetCelsius \/ Isr

Spec == Init /\ [][Next]_vars

-----------------------------------------------------------------------------

\* s_temperature_celsius_2_regval, the delta division and
\* s_temperature_regval_2_celsius never cast a value the target integer
\* type cannot hold (which C leaves undefined).
NoConversionUB == fault = {}

\* Threshold events agree with the thresholds the application set: the
\* ISR reports a "higher than high" event for a temperature at most one
\* degree below the high threshold, and a "lower than low" event for one
\* at most the low threshold; it holds across get_celsius range switches
\* only if the registers are reprogrammed for the new offset.
ThresholdEventsMatchConfig ==
  /\ event.cond = "high" => event.celsius >= event.cfg.high - 1
  /\ event.cond = "low"  => event.celsius <= event.cfg.low

=============================================================================
