CONSTANTS
  Retries = 2
  Writers = {w1}
  Readers = {r1}
  Shutters = {s1}
  Closers = {k1}
  BufLen = 2
  Incoming = 2
  PipeReaders = {r1}
  MaxLen = 3
  MaxBytes = 5
  Acceptors = {a1, a2}
  PipeClosers = {c1, c2}
  Dialers = {d1}
  Mishaps = {"hangup", "connect", "create", "dial"}
  None = None
SPECIFICATION MCSpec
INVARIANTS TimerIsQuiet NoSocketLeak StreamsAreTold EofIsLast DialTellsWhy
  NothingLeftBehind NameOutlivesErrors
PROPERTIES DialReturns ListenerCloses EofArrives
  NoConnAfterClose CloseReturnsOrLost DialGivesUp
