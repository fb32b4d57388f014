------------------------------ MODULE SdioHost ------------------------------
(***************************************************************************)
(* Host side of the SDIO slave driver (driver/sdio_slave.h, "Host"): the   *)
(* registers shared with the host, the general-purpose interrupts the      *)
(* slave raises to the host under the host interrupt enable, and the       *)
(* interrupts the host raises to the slave.  The latter reach the          *)
(* application two ways: the interrupt handler calls event_cb with the     *)
(* interrupt number, and signals the event sdio_slave_wait_int takes,      *)
(* clearing it in the same step (test-and-clear).                          *)
(*                                                                         *)
(* Register contents are abstracted to a small set of values and host      *)
(* interrupt numbers to a subset of 0..7.                                  *)
(***************************************************************************)
EXTENDS Integers, FiniteSets

CONSTANTS
  Tasks,      \* application tasks calling sdio_slave_wait_int
  Bits,       \* general-purpose interrupt numbers modelled, within 0..7
  RegPos,     \* register addresses the application writes, within 0..63
  Vals,       \* register values
  MaxCredit   \* bound on host interrupts raised and not yet taken, per bit

ASSUME /\ Bits \subseteq 0..7 /\ RegPos \subseteq 0..63
       /\ MaxCredit \in Nat \ {0}

NoWait == -1

VARIABLES
  regs,       \* the shared register block, at the addresses modelled
  intena,     \* host interrupt enable (sdio_slave_hostint_t mask)
  toHost,     \* general-purpose interrupts raised to the host, not cleared
  hwPend,     \* host-to-slave interrupts latched, not yet seen by the ISR
  evt,        \* events the ISR signalled that no wait_int has taken
  waitOn,     \* per task: the bit it blocks on in wait_int, or NoWait
  credit,     \* history: per bit, host raises not yet matched by a take
  dup         \* history: a wait_int returned ESP_OK with no raise to match

hostVars == <<regs, intena, toHost, hwPend, evt, waitOn, credit, dup>>

\* Addresses sdio_slave_write_reg accepts (line 245); the others,
\* among them the interrupt vector at 28-31, fail with ESP_ERR_INVALID_ARG.
Writable == (0..11) \cup (14..15) \cup (18..19) \cup (24..27) \cup (32..63)

HostInit ==
  /\ regs = [p \in RegPos |-> CHOOSE v \in Vals : TRUE]
  /\ intena = {} /\ toHost = {} /\ hwPend = {} /\ evt = {}
  /\ waitOn = [t \in Tasks |-> NoWait]
  /\ credit = [b \in Bits |-> 0] /\ dup = FALSE

\* sdio_slave_write_reg: ESP_ERR_INVALID_ARG (no change) at a reserved
\* address.
WriteReg(pos, v) ==
  /\ pos \in Writable
  /\ regs' = [regs EXCEPT ![pos] = v]
  /\ UNCHANGED <<intena, toHost, hwPend, evt, waitOn, credit, dup>>

\* sdio_slave_set_host_intena.
SetHostIntena(mask) ==
  /\ intena' = mask
  /\ UNCHANGED <<regs, toHost, hwPend, evt, waitOn, credit, dup>>

\* sdio_slave_send_host_int: pos outside 0..7 is ESP_ERR_INVALID_ARG.
SendHostInt(pos) ==
  /\ toHost' = toHost \cup {pos}
  /\ UNCHANGED <<regs, intena, hwPend, evt, waitOn, credit, dup>>

\* sdio_slave_clear_host_int.
ClearHostInt(mask) ==
  /\ toHost' = toHost \ mask
  /\ UNCHANGED <<regs, intena, hwPend, evt, waitOn, credit, dup>>

\* The host services the interrupt line: it sees the raised bits it
\* enabled, and clears them.
HostServe ==
  /\ toHost \cap intena # {}
  /\ toHost' = toHost \ intena
  /\ UNCHANGED <<regs, intena, hwPend, evt, waitOn, credit, dup>>

\* The host raises general-purpose interrupt b to the slave; a raise while
\* b is still latched merges with it.
HostRaiseInt(b) ==
  /\ credit[b] < MaxCredit
  /\ hwPend' = hwPend \cup {b}
  /\ credit' = [credit EXCEPT ![b] = @ + 1]
  /\ UNCHANGED <<regs, intena, toHost, evt, waitOn, dup>>

\* Mutant: the handler signals a latched interrupt only when some task
\* already waits for it, and clears the latch either way.
HostIsrOnlyIfWaited ==
  /\ hwPend # {}
  /\ evt' = evt \cup {b \in hwPend : \E t \in Tasks : waitOn[t] = b}
  /\ hwPend' = {}
  /\ UNCHANGED <<regs, intena, toHost, waitOn, credit, dup>>

\* The interrupt handler: for every latched host interrupt, event_cb(b)
\* is called and the event wait_int takes is signalled; the latch is
\* cleared.
HostIsr ==
  /\ hwPend # {}
  /\ evt' = evt \cup hwPend
  /\ hwPend' = {}
  /\ UNCHANGED <<regs, intena, toHost, waitOn, credit, dup>>

\* sdio_slave_wait_int(pos, wait): the task blocks on the event of pos.
WaitInt(t, b) ==
  /\ waitOn[t] = NoWait
  /\ waitOn' = [waitOn EXCEPT ![t] = b]
  /\ UNCHANGED <<regs, intena, toHost, hwPend, evt, credit, dup>>

\* Mutant: one event wakes every task waiting on the bit (an event group
\* cleared on exit rather than a binary semaphore).
WaitTakeWakeAll(t) ==
  LET b == waitOn[t]
      W == {u \in Tasks : waitOn[u] = b}
  IN /\ b # NoWait /\ b \in evt
     /\ evt' = evt \ {b}
     /\ waitOn' = [u \in Tasks |-> IF u \in W THEN NoWait ELSE waitOn[u]]
     /\ dup' = (dup \/ credit[b] < Cardinality(W))
     /\ credit' = [credit EXCEPT ![b] = IF @ >= Cardinality(W) THEN @ - Cardinality(W) ELSE 0]
     /\ UNCHANGED <<regs, intena, toHost, hwPend>>

\* wait_int returns ESP_OK: the event is taken and cleared in one step.
WaitTake(t) ==
  LET b == waitOn[t] IN
  /\ b # NoWait /\ b \in evt
  /\ evt' = evt \ {b}
  /\ waitOn' = [waitOn EXCEPT ![t] = NoWait]
  /\ dup' = (dup \/ credit[b] = 0)
  /\ credit' = [credit EXCEPT ![b] = IF @ > 0 THEN @ - 1 ELSE 0]
  /\ UNCHANGED <<regs, intena, toHost, hwPend>>

\* wait_int returns ESP_ERR_TIMEOUT: the wait ran out with no event.
WaitTimeout(t) ==
  /\ waitOn[t] # NoWait /\ waitOn[t] \notin evt
  /\ waitOn' = [waitOn EXCEPT ![t] = NoWait]
  /\ UNCHANGED <<regs, intena, toHost, hwPend, evt, credit, dup>>

HostTypeOK ==
  /\ regs \in [RegPos -> Vals]
  /\ intena \subseteq Bits /\ toHost \subseteq Bits
  /\ hwPend \subseteq Bits /\ evt \subseteq Bits
  /\ waitOn \in [Tasks -> Bits \cup {NoWait}]
  /\ credit \in [Bits -> 0..MaxCredit] /\ dup \in BOOLEAN

=============================================================================
