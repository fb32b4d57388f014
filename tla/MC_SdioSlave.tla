----------------------------- MODULE MC_SdioSlave -----------------------------
(***************************************************************************)
(* Model values for SdioSlave: one task sends with send_queue and          *)
(* get_finished, the other with sdio_slave_transmit; both may wait for     *)
(* host interrupts, so two waiters can race for one event.                 *)
(***************************************************************************)
EXTENDS SdioSlave, TLC

MCUseSlave == [t \in Tasks |-> IF t = CHOOSE u \in Tasks : TRUE
                               THEN {"queue"} ELSE {"transmit"}]
===============================================================================
