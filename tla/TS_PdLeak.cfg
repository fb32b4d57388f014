\* A chip without sleep retention, asked for allow_pd.
CONSTANTS
  Tasks = {t1}
  Objs = {o1, o2}
  Copies = {c1}
  Attrs <- MCAttrs
  CfgRanges <- MCCfgRanges
  ResetIdx <- MCResetIdx
  ClkSrcs = {XTAL, RC_FAST}
  ClkDefault = XTAL
  ClkRcFast = RC_FAST
  Callbacks = {cbA}
  Args = {argA}
  SleepRetention = FALSE
  SingleCore = TRUE
  IntrFreeMayFail = FALSE
  NULL = NULL
  FREED = FREED
SPECIFICATION Spec
INVARIANT ResourcesReleased
