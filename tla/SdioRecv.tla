------------------------------ MODULE SdioRecv ------------------------------
(***************************************************************************)
(* Receive side of the SDIO slave driver (driver/sdio_slave.h, receive     *)
(* API): the buffer registry, the DMA receive ring, the completion queue   *)
(* the interrupt feeds, and packet boundaries across buffers.              *)
(*                                                                         *)
(* Actors: the application (register, unregister, load, receive), the host *)
(* writing packets into the loaded buffers through DMA, and the interrupt  *)
(* path handing filled descriptors to the completion queue.  Each DMA fill *)
(* writes a fresh token into the buffer, so a buffer overwritten before    *)
(* the application picked up its data is visible.                          *)
(***************************************************************************)
EXTENDS Integers, Sequences, SequencesExt

CONSTANTS
  Bufs,       \* receive descriptors the registry can hand out as handles
  MaxPkt,     \* the longest packet the host sends, in buffers
  MaxFills    \* bound on the number of buffers the host fills

ASSUME MaxPkt \in Nat \ {0} /\ MaxFills \in Nat \ {0}

VARIABLES
  reg,        \* registered handles
  st,         \* per handle: "idle" (application owns it), "queued" (in the
              \* DMA ring), "done" (filled, not yet returned by recv)
  ring,       \* loaded buffers in ring order, not yet filled
  hwDone,     \* filled descriptors the interrupt has not seen yet
  cq,         \* completion queue the receive calls take from
  content,    \* per handle: the token of the last DMA write into it
  pktLeft,    \* buffers of the host's current packet still to be written
  fills,      \* number of DMA fills so far (bounded by MaxFills)
  hostLog,    \* history: every filled buffer as [tok, eop], in bus order
  appLog      \* history: every buffer handed out as [tok, eop], in order

vars == <<reg, st, ring, hwDone, cq, content, pktLeft, fills, hostLog, appLog>>

Entry == [buf : Bufs, tok : 0..MaxFills, eop : BOOLEAN]

Init ==
  /\ reg = {}
  /\ st = [b \in Bufs |-> "idle"]
  /\ ring = <<>> /\ hwDone = <<>> /\ cq = <<>>
  /\ content = [b \in Bufs |-> 0]
  /\ pktLeft = 0 /\ fills = 0
  /\ hostLog = <<>> /\ appLog = <<>>

\* sdio_slave_recv_register_buf: a free descriptor becomes a handle; with
\* none free it returns NULL and nothing changes.
RecvRegisterBuf(b) ==
  /\ b \notin reg
  /\ reg' = reg \cup {b}
  /\ st' = [st EXCEPT ![b] = "idle"]
  /\ UNCHANGED <<ring, hwDone, cq, content, pktLeft, fills, hostLog, appLog>>

\* Mutant: unregister without the "buffer is being used" check.
RecvUnregisterBufAnyState(b) ==
  /\ b \in reg
  /\ reg' = reg \ {b}
  /\ UNCHANGED <<st, ring, hwDone, cq, content, pktLeft, fills, hostLog, appLog>>

\* sdio_slave_recv_unregister_buf: ESP_ERR_INVALID_ARG (no change) when
\* the buffer is being used; otherwise the descriptor is freed.
RecvUnregisterBuf(b) ==
  /\ b \in reg /\ st[b] = "idle"
  /\ reg' = reg \ {b}
  /\ UNCHANGED <<st, ring, hwDone, cq, content, pktLeft, fills, hostLog, appLog>>

\* sdio_slave_recv_load_buf: ESP_ERR_INVALID_ARG for an invalid handle or
\* a buffer already in the queue; only a buffer returned by recv is loaded
\* again, appended to the ring.
RecvLoadBuf(b) ==
  /\ b \in reg /\ st[b] = "idle"
  /\ st' = [st EXCEPT ![b] = "queued"]
  /\ ring' = Append(ring, b)
  /\ UNCHANGED <<reg, hwDone, cq, content, pktLeft, fills, hostLog, appLog>>

\* Mutant: the packet length rounded up one buffer too many.
HostSendPacketRoundUp(k) ==
  /\ pktLeft = 0
  /\ pktLeft' = k + 1
  /\ UNCHANGED <<reg, st, ring, hwDone, cq, content, fills, hostLog, appLog>>

\* The host writes into the slave: a new packet of k buffers starts when
\* the previous one is complete, and each write fills the buffer at the
\* head of the ring; the last buffer of the packet carries end-of-packet.
HostSendPacket(k) ==
  /\ pktLeft = 0
  /\ pktLeft' = k
  /\ UNCHANGED <<reg, st, ring, hwDone, cq, content, fills, hostLog, appLog>>

DmaFill ==
  /\ pktLeft > 0 /\ ring # <<>> /\ fills < MaxFills
  /\ LET b == Head(ring)
         e == [buf |-> b, tok |-> fills + 1, eop |-> pktLeft = 1]
     IN /\ ring' = Tail(ring)
        /\ hwDone' = Append(hwDone, e)
        /\ content' = [content EXCEPT ![b] = fills + 1]
        /\ st' = [st EXCEPT ![b] = "done"]
        /\ hostLog' = Append(hostLog, [tok |-> e.tok, eop |-> e.eop])
  /\ fills' = fills + 1
  /\ pktLeft' = pktLeft - 1
  /\ UNCHANGED <<reg, cq, appLog>>

\* Mutant: the interrupt only posts when two descriptors are done.
RecvIsrBatched ==
  /\ Len(hwDone) >= 2
  /\ cq' = Append(cq, Head(hwDone))
  /\ hwDone' = Tail(hwDone)
  /\ UNCHANGED <<reg, st, ring, content, pktLeft, fills, hostLog, appLog>>

\* Mutant: the poll and the interrupt path both post the descriptor.
RecvIsrDoublePost ==
  /\ hwDone # <<>>
  /\ cq' = Append(cq, Head(hwDone))
  /\ hwDone' = IF Len(cq) > 0 /\ Last(cq) = Head(hwDone) THEN Tail(hwDone) ELSE hwDone
  /\ UNCHANGED <<reg, st, ring, content, pktLeft, fills, hostLog, appLog>>

\* The receive interrupt (or poll): the oldest finished descriptor is
\* posted, once, to the completion queue.
RecvIsr ==
  /\ hwDone # <<>>
  /\ cq' = Append(cq, Head(hwDone))
  /\ hwDone' = Tail(hwDone)
  /\ UNCHANGED <<reg, st, ring, content, pktLeft, fills, hostLog, appLog>>

\* sdio_slave_recv_packet and sdio_slave_recv: with a completion pending,
\* the oldest one is returned and ownership goes back to the application,
\* which reads the data from the buffer (recv_packet also reports
\* ESP_ERR_NOT_FINISHED for a buffer that does not end its packet).  With
\* none pending they time out and change nothing.
RecvPacket ==
  /\ cq # <<>>
  /\ LET e == Head(cq) IN
       /\ st' = [st EXCEPT ![e.buf] = "idle"]
       /\ appLog' = Append(appLog, [tok |-> content[e.buf], eop |-> e.eop])
  /\ cq' = Tail(cq)
  /\ UNCHANGED <<reg, ring, hwDone, content, pktLeft, fills, hostLog>>

Next ==
  \/ \E b \in Bufs : RecvRegisterBuf(b) \/ RecvUnregisterBuf(b) \/ RecvLoadBuf(b)
  \/ \E k \in 1..MaxPkt : HostSendPacket(k)
  \/ DmaFill \/ RecvIsr \/ RecvPacket

\* The interrupt is serviced whenever a descriptor is done, and the
\* application keeps a receive call pending (a task looping on
\* sdio_slave_recv_packet with portMAX_DELAY).
Fairness == WF_vars(RecvIsr) /\ WF_vars(RecvPacket)

Spec == Init /\ [][Next]_vars /\ Fairness

-----------------------------------------------------------------------------

TypeOK ==
  /\ reg \subseteq Bufs
  /\ st \in [Bufs -> {"idle", "queued", "done"}]
  /\ ring \in Seq(Bufs) /\ hwDone \in Seq(Entry) /\ cq \in Seq(Entry)
  /\ content \in [Bufs -> 0..MaxFills]
  /\ pktLeft \in 0..MaxPkt /\ fills \in 0..MaxFills

\* Exactly once, in order, with boundaries and data intact: what the
\* receive calls have handed out (each buffer's data as read at pickup,
\* with its end-of-packet status) is a prefix of what the host wrote.  A
\* buffer reloaded or unregistered while the DMA or the completion queue
\* still holds it breaks this.
ReceivedAsSent == IsPrefix(appLog, hostLog)

\* The DMA only ever writes into a registered descriptor, and a descriptor
\* is in the ring at most once.
RingRegistered ==
  /\ \A i \in 1..Len(ring) : ring[i] \in reg
  /\ \A i, j \in 1..Len(ring) : i # j => ring[i] # ring[j]

\* Every buffer the host filled is eventually returned to the application
\* by a receive call.
FilledEventuallyReceived == \A b \in Bufs : st[b] = "done" ~> st[b] = "idle"

=============================================================================
