\* Two tasks, a send queue of two, four transfers, one host interrupt
\* bit, one writable and one reserved register address.
CONSTANTS
  Tasks = {t1, t2}
  UseOf <- MCUseSlave
  QueueSize = 2
  MaxSends = 3
  Bits = {0}
  RegPos = {0, 29}
  Vals = {0, 1}
  MaxCredit = 2
SPECIFICATION Spec
INVARIANT TypeOK
INVARIANT NoDoubleDelivery
PROPERTY SendRefinesFifo
PROPERTY HostIntDelivered
