CONSTANTS
  Devices = {d1}
  Slots = {q1, q2}
  MaxTokens = 2
  MaxChanges = 1
SPECIFICATION SessionSpec
INVARIANT NoSelfInflictedAlarm
INVARIANT NoSessionOutlivesThePassword
PROPERTY EveryRequestEnds
CHECK_DEADLOCK FALSE
