\* One thread alone consumes, peeks and clears; the others produce.
SPECIFICATION Spec
CONSTANTS
  Threads = {p1, p2, c1}
  NoThread = NoThread
  Producers = {p1, p2}
  Consumers = {c1}
  Peekers = {c1}
  Clearers = {c1}
  Cancellable = {}
  Items = {a, b}
  NoItem = NoItem
  Signals = FALSE
  MaxItems = 3
INVARIANTS TypeOK HeadDefined
PROPERTIES ItemsFlow ClearReturns
