---------------------------- MODULE MC_SdioSend ----------------------------
(***************************************************************************)
(* Model values for SdioSend: which send calls each task makes.            *)
(***************************************************************************)
EXTENDS SdioSend, TLC

MCUseMixed    == [t \in Tasks |-> IF t = CHOOSE x \in Tasks : TRUE
                                  THEN {"queue"} ELSE {"transmit"}]
=============================================================================
