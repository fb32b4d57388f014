\* One task queues with send_queue while another calls sdio_slave_transmit.
CONSTANTS
  Tasks = {t1, t2}
  UseOf <- MCUseMixed
  QueueSize = 2
  MaxSends = 3
SPECIFICATION Spec
CHECK_DEADLOCK FALSE
INVARIANT TransmitReturnsOwn
