\* The clock source requested by the configuration.
CONSTANTS
  Tasks = {t1}
  Objs = {o1}
  Copies = {c1}
  Attrs <- MCAttrs
  CfgRanges <- MCCfgRanges
  ResetIdx <- MCResetIdx
  ClkSrcs = {XTAL, RC_FAST}
  ClkDefault = XTAL
  ClkRcFast = RC_FAST
  Callbacks = {cbA}
  Args = {argA}
  SleepRetention = TRUE
  SingleCore = TRUE
  IntrFreeMayFail = FALSE
  NULL = NULL
  FREED = FREED
SPECIFICATION Spec
INVARIANT ClkSrcHonoured
