\* One task on a dual-core chip: an ISR still in flight while uninstall
\* frees the attribute table.
CONSTANTS
  Tasks = {t1}
  Objs = {o1}
  Copies = {c1}
  Attrs <- IsrAttrs
  CfgRanges <- IsrCfgRanges
  ResetIdx <- IsrResetIdx
  ClkSrcs = {XTAL, RC_FAST}
  ClkDefault = XTAL
  ClkRcFast = RC_FAST
  Callbacks = {cbA}
  Args = {argA}
  SleepRetention = TRUE
  SingleCore = FALSE
  IntrFreeMayFail = FALSE
  NULL = NULL
  FREED = FREED
SPECIFICATION Spec
INVARIANT NoUseAfterFree
