\* Two lines of each source, of which two leave something of older ones behind them:
\* the end of an end can then come through.  Pipes of one line, one kill; a queue that
\* holds one message more than three processes and one kill may leave.
CONSTANTS
  MaxLines = 2
  PipeCap = 1
  RingCap = 5
  ChatCap = 2
  MaxKills = 1
  MaxShort = 2
SPECIFICATION FairSpec
INVARIANTS
  TypeOK
  Faithful
  LeftOver
PROPERTIES
  Delivered
  GoesOn
  EndSpreads
\* Programs end, and persons may stop typing.
CHECK_DEADLOCK FALSE
