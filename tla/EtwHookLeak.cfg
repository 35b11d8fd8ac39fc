CONSTANTS
  Providers = {p1}
  Sessions <- MCSessions
  Events <- MCEvents
  None = None
  Epoch = 1000
  Application = app
  Created = {q1, q2, q3}
  MaxOptions = 2
  Sought <- MCSought
  Entries <- MCEntries
  Message = 77
  TimeName = 84
  ErrorKey = 101
  Encoded <- Encode
  defaultEventName <- MCDefaultEventName
  Nil = Nil
SPECIFICATION MCSpec
CHECK_DEADLOCK FALSE
INVARIANT MadeAreClosed
