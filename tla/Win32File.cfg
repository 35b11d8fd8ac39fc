CONSTANTS
  Handlers = {"read"}
  Chans = {c1, c2, c3}
  Readers = {r1}
  Writers = {}
  Others = {a1}
  Closers = {k1, k2}
  Socket = FALSE
  Outcomes = {"bytes"}
  None = None
SPECIFICATION Spec
INVARIANTS ClosedMeansQuiet NoStrayCompletion
           BytesAreReported TimeoutIsDue NoDoubleClose SetTakesEffect
PROPERTIES LifecycleSpec
SYMMETRY ChanSymmetry
