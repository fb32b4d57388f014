\* Two descriptors, packets of one or two buffers, five fills, under
\* initialize, start, stop, reset and deinit.
CONSTANTS
  Bufs = {b1, b2}
  MaxPkt = 2
  MaxFills = 5
SPECIFICATION SlaveSpec
CHECK_DEADLOCK FALSE
INVARIANT SlaveTypeOK
INVARIANT ReceivedAsSent
INVARIANT RingRegistered
PROPERTY FilledEventuallyReceived
