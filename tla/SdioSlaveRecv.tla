---------------------------- MODULE SdioSlaveRecv ----------------------------
(***************************************************************************)
(* The receive side of the SDIO slave driver under its lifecycle           *)
(* (driver/sdio_slave.h): the buffer registry and receive pipeline of      *)
(* SdioRecv, with the driver state machine of SdioLifecycle.  Receive      *)
(* calls need an initialized driver; the host writes and the DMA fills     *)
(* only while the driver is started (IOREADY1 set); reset, while stopped,  *)
(* clears the data still in the driver: every registered buffer goes back  *)
(* to the application, no completion stays pending, and the host restarts *)
(* its packet count; deinit releases the registry.                         *)
(***************************************************************************)
EXTENDS SdioRecv

VARIABLE drv

L == INSTANCE SdioLifecycle

allVars == <<drv, vars>>

SlaveInit == L!LifeInit /\ Init

\* sdio_slave_initialize: the registry starts empty.
RecvInitialize == L!Initialize /\ UNCHANGED vars

\* sdio_slave_deinit: allowed only with no buffer in the DMA ring or
\* awaiting pickup (the header gives no check; spec 4.5 calls it unsafe);
\* every descriptor is released.
RecvDeinit ==
  /\ L!Deinit /\ \A b \in reg : st[b] = "idle"
  /\ reg' = {}
  /\ UNCHANGED <<st, ring, hwDone, cq, content, pktLeft, fills, hostLog, appLog>>

RecvStart == L!Start /\ UNCHANGED vars

RecvStop == L!Stop /\ UNCHANGED vars

\* Mutant: reset keeps the completions already posted.
RecvResetKeepCompletions ==
  /\ L!Reset
  /\ st' = [b \in Bufs |-> IF \E i \in 1..Len(cq) : cq[i].buf = b
                            THEN st[b] ELSE "idle"]
  /\ ring' = <<>> /\ hwDone' = <<>> /\ pktLeft' = 0
  /\ hostLog' = appLog
  /\ UNCHANGED <<reg, cq, content, fills, appLog>>

\* sdio_slave_reset / reset_hw while stopped: loaded and filled buffers
\* return to the application with no completion pending, and the TOKEN1
\* and packet counts restart.  What the host wrote and nobody received is
\* cleared, so it leaves the record of what must be received.
RecvReset ==
  /\ L!Reset
  /\ st' = [b \in Bufs |-> "idle"]
  /\ ring' = <<>> /\ hwDone' = <<>> /\ cq' = <<>> /\ pktLeft' = 0
  /\ hostLog' = appLog
  /\ UNCHANGED <<reg, content, fills, appLog>>

\* The pipeline's own steps, under the lifecycle.
AppStep ==
  /\ L!Inited
  /\ \E b \in Bufs : RecvRegisterBuf(b) \/ RecvUnregisterBuf(b) \/ RecvLoadBuf(b)
  /\ UNCHANGED drv

HostStep ==
  /\ L!Running
  /\ \/ \E k \in 1..MaxPkt : HostSendPacket(k)
     \/ DmaFill
  /\ UNCHANGED drv

RecvIsrStep == L!Inited /\ RecvIsr /\ UNCHANGED drv

RecvPacketStep == L!Inited /\ RecvPacket /\ UNCHANGED drv

SlaveNext ==
  \/ RecvInitialize \/ RecvDeinit \/ RecvStart \/ RecvStop \/ RecvReset
  \/ AppStep \/ HostStep \/ RecvIsrStep \/ RecvPacketStep

\* As in SdioRecv: the interrupt is serviced while a descriptor is done,
\* and a task loops on sdio_slave_recv_packet with portMAX_DELAY.
SlaveSpec == SlaveInit /\ [][SlaveNext]_allVars
             /\ WF_allVars(RecvIsrStep) /\ WF_allVars(RecvPacketStep)

SlaveTypeOK == L!LifeTypeOK /\ TypeOK

=============================================================================
