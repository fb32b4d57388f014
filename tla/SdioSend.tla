------------------------------ MODULE SdioSend ------------------------------
(***************************************************************************)
(* Send side of the SDIO slave driver (driver/sdio_slave.h, send API).     *)
(* Application tasks queue transfers (sdio_slave_send_queue) and take back *)
(* the arguments of finished ones (sdio_slave_send_get_finished), or do    *)
(* both in one blocking call (sdio_slave_transmit).  The driver links      *)
(* queued transfers onto the DMA, the host reads them in link order, and   *)
(* the interrupt moves each finished descriptor's argument to the return   *)
(* queue.  A counting slot semaphore of send_queue_size bounds the         *)
(* transfers the driver holds, and a slot is freed only by get_finished.   *)
(***************************************************************************)
EXTENDS Integers, Sequences, SequencesExt

CONSTANTS
  Tasks,      \* application tasks
  UseOf,      \* task -> the send calls it makes: "queue" (send_queue and
              \* send_get_finished) and/or "transmit"
  QueueSize,  \* send_queue_size of sdio_slave_config_t
  MaxSends    \* bound on the transfers queued in a behaviour

ASSUME /\ UseOf \in [Tasks -> SUBSET {"queue", "transmit"}]
       /\ QueueSize \in Nat \ {0} /\ MaxSends \in Nat

VARIABLES
  sendQ,      \* accepted transfers not yet on the DMA link
  link,       \* transfers linked to the DMA, not yet read by the host
  done,       \* descriptors the host has read, not yet seen by the interrupt
  ret,        \* return queue get_finished takes from
  slots,      \* the send-queue semaphore: transfers the driver may still accept
  pc,         \* per task: "idle" or "tx_wait" (inside sdio_slave_transmit)
  txArg,      \* per task: the argument its transmit call queued
  sent,       \* transfers queued so far; the next argument is sent + 1
  out,        \* the item the last get_finished (or transmit) gave back
  wrong       \* history: a transmit returned on another transfer's completion

vars == <<sendQ, link, done, ret, slots, pc, txArg, sent, out, wrong>>

Item == [arg : 1..MaxSends, by : Tasks]

\* The value out holds before any transfer was given back.
NoItem == [arg |-> 0, by |-> CHOOSE t \in Tasks : TRUE]

Init ==
  /\ sendQ = <<>> /\ link = <<>> /\ done = <<>> /\ ret = <<>>
  /\ slots = QueueSize
  /\ pc = [t \in Tasks |-> "idle"] /\ txArg = [t \in Tasks |-> 0]
  /\ sent = 0 /\ out = NoItem /\ wrong = FALSE

\* Taking one slot and appending a new transfer, common to send_queue and
\* the first half of transmit; with no slot free the call waits (and
\* times out changing nothing).
Accept(t) ==
  /\ slots > 0 /\ sent < MaxSends
  /\ sendQ' = Append(sendQ, [arg |-> sent + 1, by |-> t])
  /\ slots' = slots - 1
  /\ sent' = sent + 1

\* Mutant: get_finished gives two slots back.
TakeFinishedDoubleRelease ==
  /\ ret # <<>>
  /\ out' = Head(ret)
  /\ ret' = Tail(ret)
  /\ slots' = slots + 2

\* Taking the oldest finished transfer and freeing its slot, common to
\* send_get_finished and the second half of transmit.
TakeFinished ==
  /\ ret # <<>>
  /\ out' = Head(ret)
  /\ ret' = Tail(ret)
  /\ slots' = slots + 1

\* sdio_slave_send_queue.
SendQueue(t) ==
  /\ "queue" \in UseOf[t] /\ pc[t] = "idle"
  /\ Accept(t)
  /\ UNCHANGED <<link, done, ret, pc, txArg, out, wrong>>

\* sdio_slave_send_get_finished.
SendGetFinished(t) ==
  /\ "queue" \in UseOf[t] /\ pc[t] = "idle"
  /\ TakeFinished
  /\ UNCHANGED <<sendQ, link, done, pc, txArg, sent, wrong>>

\* sdio_slave_transmit: queue the transfer, then block in get_finished.
TransmitQueue(t) ==
  /\ "transmit" \in UseOf[t] /\ pc[t] = "idle"
  /\ Accept(t)
  /\ pc' = [pc EXCEPT ![t] = "tx_wait"]
  /\ txArg' = [txArg EXCEPT ![t] = sent + 1]
  /\ UNCHANGED <<link, done, ret, out, wrong>>

TransmitWait(t) ==
  /\ pc[t] = "tx_wait"
  /\ TakeFinished
  /\ wrong' = (wrong \/ Head(ret).arg # txArg[t])
  /\ pc' = [pc EXCEPT ![t] = "idle"]
  /\ UNCHANGED <<sendQ, link, done, txArg, sent>>

\* transmit returns ESP_ERR_TIMEOUT: the host did not take the transfer in
\* time.  The transfer stays with the driver and its completion will
\* reach the return queue with no call waiting for it.
TransmitTimeout(t) ==
  /\ pc[t] = "tx_wait"
  /\ pc' = [pc EXCEPT ![t] = "idle"]
  /\ UNCHANGED <<sendQ, link, done, ret, slots, txArg, sent, out, wrong>>

\* The driver links the oldest queued transfer onto the DMA.
SendStart ==
  /\ sendQ # <<>>
  /\ link' = Append(link, Head(sendQ))
  /\ sendQ' = Tail(sendQ)
  /\ UNCHANGED <<done, ret, slots, pc, txArg, sent, out, wrong>>

\* The host reads the next linked transfer; the DMA marks it done.
HostRead ==
  /\ link # <<>>
  /\ done' = Append(done, Head(link))
  /\ link' = Tail(link)
  /\ UNCHANGED <<sendQ, ret, slots, pc, txArg, sent, out, wrong>>

\* The send-done interrupt moves the finished descriptor's argument to the
\* return queue.
SendIsr ==
  /\ done # <<>>
  /\ ret' = Append(ret, Head(done))
  /\ done' = Tail(done)
  /\ UNCHANGED <<sendQ, link, slots, pc, txArg, sent, out, wrong>>

Next ==
  \/ \E t \in Tasks : SendQueue(t) \/ SendGetFinished(t)
                      \/ TransmitQueue(t) \/ TransmitWait(t)
                      \/ TransmitTimeout(t)
  \/ SendStart \/ HostRead \/ SendIsr

Spec == Init /\ [][Next]_vars

-----------------------------------------------------------------------------

TypeOK ==
  /\ sendQ \in Seq(Item) /\ link \in Seq(Item)
  /\ done \in Seq(Item) /\ ret \in Seq(Item)
  /\ slots \in 0..QueueSize
  /\ pc \in [Tasks -> {"idle", "tx_wait"}] /\ txArg \in [Tasks -> 0..MaxSends]
  /\ sent \in 0..MaxSends /\ out \in Item \cup {NoItem} /\ wrong \in BOOLEAN

\* sdio_slave_transmit waits for the transfer it started: the completion
\* it consumes is that of its own transfer, never of one queued earlier by
\* send_queue or by another task.
TransmitReturnsOwn == ~wrong

=============================================================================
