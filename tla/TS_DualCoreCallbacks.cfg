\* One task on a dual-core chip registering two different callbacks: the
\* ISR runs concurrently with every step of register_callbacks.
CONSTANTS
  Tasks = {t1}
  Objs = {o1}
  Copies = {c1}
  Attrs <- IsrAttrs
  CfgRanges <- IsrCfgRanges
  ResetIdx <- IsrResetIdx
  ClkSrcs = {XTAL, RC_FAST}
  ClkDefault = XTAL
  ClkRcFast = RC_FAST
  Callbacks = {cbA, cbB}
  Args = {argA}
  SleepRetention = TRUE
  SingleCore = FALSE
  IntrFreeMayFail = FALSE
  NULL = NULL
  FREED = FREED
SPECIFICATION Spec
INVARIANT CallbackArgPaired
