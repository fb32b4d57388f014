---------------------------- MODULE SdioLifecycle ----------------------------
(***************************************************************************)
(* The driver state machine of driver/sdio_slave.h: sdio_slave_initialize  *)
(* takes an uninitialized driver to stopped, start and stop move between   *)
(* stopped and running, reset and reset_hw are refused while running, and  *)
(* deinit returns a stopped driver to uninitialized.  What each operation  *)
(* does to a pipeline is conjoined by the modules composing this one.      *)
(***************************************************************************)

VARIABLE drv    \* "uninit", "stopped" or "running"

LifeInit == drv = "uninit"

Inited  == drv # "uninit"
Running == drv = "running"

\* sdio_slave_initialize: ESP_ERR_INVALID_STATE if already initialized.
Initialize == drv = "uninit" /\ drv' = "stopped"

\* sdio_slave_deinit.
Deinit == drv = "stopped" /\ drv' = "uninit"

\* sdio_slave_start: ESP_ERR_INVALID_STATE if already started.
Start == drv = "stopped" /\ drv' = "running"

\* sdio_slave_stop.
Stop == drv = "running" /\ drv' = "stopped"

\* sdio_slave_reset, sdio_slave_reset_hw: ESP_ERR_INVALID_STATE if started.
Reset == drv = "stopped" /\ UNCHANGED drv

LifeTypeOK == drv \in {"uninit", "stopped", "running"}
=============================================================================
