\* Result sets of up to two columns and two rows with fields of up to two
\* bytes, buffers of two and a threshold of three: atoms of one to three bytes
\* fit, fill and exceed a buffer, and the threshold is reached with one buffer
\* full and another begun. The run ends when the response has.
CONSTANTS
  BufSize = 2
  MaxBuffered = 3
  MaxCols = 2
  MaxRows = 2
  MaxField = 2
SPECIFICATION FairSpec
INVARIANTS
  TypeOK
  NeverOverrun
  CountersExact
  PendingBounded
  BuffersReused
  TruncationDetectable
  TimerFollowsPause
PROPERTIES
  ImplementsRdsStream
  PausesEnd
