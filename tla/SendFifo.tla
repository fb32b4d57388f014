------------------------------ MODULE SendFifo ------------------------------
(***************************************************************************)
(* What the send API of driver/sdio_slave.h promises, with the DMA and the *)
(* host left out: while the driver is initialized, sdio_slave_send_queue   *)
(* accepts a transfer only while fewer than send_queue_size transfers are  *)
(* held by the driver, and sdio_slave_send_get_finished gives back the     *)
(* argument of the oldest transfer it still holds.  sdio_slave_initialize  *)
(* opens an empty queue; sdio_slave_deinit releases whatever it holds.     *)
(* Nothing else (stop, start, reset) may drop a held transfer.             *)
(***************************************************************************)
EXTENDS Naturals, Sequences

CONSTANTS Items, QueueSize, NoOut

VARIABLES
  pending,    \* transfers accepted and not yet given back, oldest first
  out,        \* the item the last get_finished gave back
  open        \* the driver is initialized

Init == pending = <<>> /\ out = NoOut /\ open = FALSE

Open ==
  /\ ~open /\ open' = TRUE
  /\ pending' = <<>>
  /\ UNCHANGED out

Close ==
  /\ open /\ open' = FALSE
  /\ pending' = <<>>
  /\ UNCHANGED out

Put(x) ==
  /\ open /\ Len(pending) < QueueSize
  /\ pending' = Append(pending, x)
  /\ UNCHANGED <<out, open>>

Get ==
  /\ open /\ pending # <<>>
  /\ out' = Head(pending)
  /\ pending' = Tail(pending)
  /\ UNCHANGED open

Next == Open \/ Close \/ (\E x \in Items : Put(x)) \/ Get

Spec == Init /\ [][Next]_<<pending, out, open>>
=============================================================================
