\* One application task on a single-core chip with sleep retention: the
\* interrupt preempts the task, esp_intr_free may fail, callbacks carry a
\* NULL user_arg.
CONSTANTS
  Tasks = {t1}
  Objs = {o1}
  Copies = {c1}
  Attrs <- MCAttrs
  CfgRanges <- MCCfgRanges
  ResetIdx <- MCResetIdx
  ClkSrcs = {XTAL, RC_FAST}
  ClkDefault = XTAL
  ClkRcFast = RC_FAST
  Callbacks = {cbA}
  Args = {}
  SleepRetention = TRUE
  SingleCore = TRUE
  IntrFreeMayFail = TRUE
  NULL = NULL
  FREED = FREED
SPECIFICATION Spec
INVARIANT TypeOK
PROPERTY RangeChoiceOptimal
PROPERTY CallsComplete
INVARIANT ResourcesReleased
VIEW DriverView
