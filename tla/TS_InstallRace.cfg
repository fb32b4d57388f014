\* Two tasks install concurrently on a single-core chip.
CONSTANTS
  Tasks = {t1, t2}
  Objs = {o1, o2}
  Copies = {c1, c2}
  Attrs <- MCAttrs
  CfgRanges <- MCCfgRanges
  ResetIdx <- MCResetIdx
  ClkSrcs = {XTAL, RC_FAST}
  ClkDefault = XTAL
  ClkRcFast = RC_FAST
  Callbacks = {cbA}
  Args = {argA}
  SleepRetention = TRUE
  SingleCore = TRUE
  IntrFreeMayFail = FALSE
  NULL = NULL
  FREED = FREED
SPECIFICATION Spec
INVARIANT SingleInstance
