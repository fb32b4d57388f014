------------------------------ MODULE SdioSlave ------------------------------
(***************************************************************************)
(* The SDIO slave driver as one system (driver/sdio_slave.h): the driver   *)
(* lifecycle (initialize, start, stop, reset, deinit) gating the send      *)
(* pipeline (SdioSend) and the host interrupt/register bridge (SdioHost).  *)
(* Application calls need an initialized driver; the host reads sent data  *)
(* only while the driver is started; reset (only while stopped) flushes    *)
(* every transfer not yet finished to the return queue, so that            *)
(* get_finished still gives back each argument; deinit releases the        *)
(* queues and the interrupt events.                                        *)
(***************************************************************************)
EXTENDS Integers, Sequences

CONSTANTS Tasks, UseOf, QueueSize, MaxSends, Bits, RegPos, Vals, MaxCredit

VARIABLES
  drv,        \* "uninit", "stopped" or "running"
  sendQ, link, done, ret, slots, pc, txArg, sent, out, wrong,
  regs, intena, toHost, hwPend, evt, waitOn, credit, dup

S == INSTANCE SdioSend
H == INSTANCE SdioHost
L == INSTANCE SdioLifecycle

sendVars == <<sendQ, link, done, ret, slots, pc, txArg, sent, out, wrong>>
hostVars == <<regs, intena, toHost, hwPend, evt, waitOn, credit, dup>>
vars == <<drv, sendVars, hostVars>>

Init == L!LifeInit /\ S!Init /\ H!HostInit

Inited == L!Inited

\* A task is free to make a call: not blocked in transmit or wait_int.
Free(t) == pc[t] = "idle" /\ waitOn[t] = H!NoWait

\* sdio_slave_initialize: ESP_ERR_INVALID_STATE when initialized; on
\* ESP_ERR_NOT_FOUND or ESP_ERR_NO_MEM nothing is kept.  On success an
\* empty send queue of send_queue_size slots and fresh interrupt state.
Initialize ==
  /\ L!Initialize
  /\ slots' = QueueSize
  /\ hwPend' = {} /\ evt' = {} /\ toHost' = {} /\ intena' = {}
  /\ credit' = [b \in Bits |-> 0]
  /\ UNCHANGED <<sendQ, link, done, ret, pc, txArg, sent, out, wrong,
                 regs, waitOn, dup>>

\* sdio_slave_deinit, from the stopped state with no call in progress:
\* the queues and the interrupt events are released.
Deinit ==
  /\ L!Deinit /\ \A t \in Tasks : Free(t)
  /\ sendQ' = <<>> /\ link' = <<>> /\ done' = <<>> /\ ret' = <<>>
  /\ hwPend' = {} /\ evt' = {}
  /\ UNCHANGED <<slots, pc, txArg, sent, out, wrong,
                 regs, intena, toHost, waitOn, credit, dup>>

\* sdio_slave_start: ESP_ERR_INVALID_STATE when already started; sending
\* continues from the data already queued.
Start ==
  /\ L!Start
  /\ UNCHANGED <<sendVars, hostVars>>

\* sdio_slave_stop: the hardware stops; queued data is kept.
Stop ==
  /\ L!Stop
  /\ UNCHANGED <<sendVars, hostVars>>

\* Mutant: reset throws away the transfers not yet sent, with their slots.
ResetDiscard ==
  /\ L!Reset
  /\ sendQ' = <<>> /\ link' = <<>> /\ done' = <<>>
  /\ slots' = slots + Len(done \o link \o sendQ)
  /\ UNCHANGED <<ret, pc, txArg, sent, out, wrong, hostVars>>

\* sdio_slave_reset and sdio_slave_reset_hw: ESP_ERR_INVALID_STATE when
\* started; otherwise the data still in the driver is no longer sent: each
\* transfer not yet finished goes, in queue order, to the return queue.
Reset ==
  /\ L!Reset
  /\ ret' = ret \o done \o link \o sendQ
  /\ sendQ' = <<>> /\ link' = <<>> /\ done' = <<>>
  /\ UNCHANGED <<slots, pc, txArg, sent, out, wrong, hostVars>>

\* Steps of the send pipeline and of the host bridge, under the lifecycle.
SendCall(t) ==
  /\ Inited /\ waitOn[t] = H!NoWait
  /\ \/ S!SendQueue(t) \/ S!SendGetFinished(t)
     \/ S!TransmitQueue(t) \/ S!TransmitWait(t) \/ S!TransmitTimeout(t)
  /\ UNCHANGED <<drv, hostVars>>

SendHw ==
  /\ \/ Inited /\ S!SendStart
     \/ L!Running /\ S!HostRead
     \/ Inited /\ S!SendIsr
  /\ UNCHANGED <<drv, hostVars>>

HostCall(t) ==
  /\ Inited /\ Free(t)
  /\ \/ \E p \in RegPos, v \in Vals : H!WriteReg(p, v)
     \/ \E m \in SUBSET Bits : H!SetHostIntena(m) \/ H!ClearHostInt(m)
     \/ \E b \in Bits : H!SendHostInt(b) \/ H!WaitInt(t, b)
  /\ UNCHANGED <<drv, sendVars>>

HostWait(t) ==
  /\ H!WaitTake(t) \/ H!WaitTimeout(t)
  /\ UNCHANGED <<drv, sendVars>>

HostSide ==
  /\ Inited
  /\ H!HostServe \/ \E b \in Bits : H!HostRaiseInt(b)
  /\ UNCHANGED <<drv, sendVars>>

HostIsrStep == Inited /\ H!HostIsr /\ UNCHANGED <<drv, sendVars>>

WaitTakeStep(t) == H!WaitTake(t) /\ UNCHANGED <<drv, sendVars>>

Next ==
  \/ Initialize \/ Deinit \/ Start \/ Stop \/ Reset
  \/ \E t \in Tasks : SendCall(t) \/ HostCall(t) \/ HostWait(t)
  \/ SendHw \/ HostSide \/ HostIsrStep

\* The interrupt handler runs while a host interrupt is latched, and a
\* task blocked in wait_int (portMAX_DELAY or a longer timeout) is woken
\* by the event it waits for.  The host, the DMA and the application's
\* other calls are not assumed to make progress.
Fairness == WF_vars(HostIsrStep) /\ \A t \in Tasks : WF_vars(WaitTakeStep(t))

Spec == Init /\ [][Next]_vars /\ Fairness

-----------------------------------------------------------------------------

TypeOK ==
  /\ L!LifeTypeOK
  /\ S!TypeOK /\ H!HostTypeOK

\* The transfers the driver holds, oldest first: finished ones waiting to
\* be taken back, then those the host has read, then linked, then queued.
Held == ret \o done \o link \o sendQ

Fifo == INSTANCE SendFifo WITH Items <- S!Item, NoOut <- S!NoItem,
                              pending <- Held, out <- out, open <- Inited

\* Across start, stop, reset and re-initialization the send pipeline
\* implements the bounded FIFO of the header: a transfer is accepted only
\* while fewer than send_queue_size are held, every get_finished gives
\* back the oldest transfer still held, and only deinit drops any.
SendRefinesFifo == Fifo!Spec

\* wait_int clears the interrupt as it observes it: every ESP_OK it
\* returns for bit N is matched by a distinct raise of N by the host, even
\* with two tasks waiting on the same bit.
NoDoubleDelivery == ~dup

\* No host interrupt is lost: every latched one is signalled by the
\* handler (unless deinit releases the events first), and a signalled
\* event some task waits for is taken.
HostIntDelivered ==
  \A b \in Bits :
    /\ b \in hwPend ~> (b \in evt \/ ~Inited)
    /\ (b \in evt /\ \E t \in Tasks : waitOn[t] = b) ~> b \notin evt

=============================================================================
