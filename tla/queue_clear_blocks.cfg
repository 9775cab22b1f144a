\* Queue.h:75 "Clear the queue.", while another thread is in dequeue().
SPECIFICATION Spec
CONSTANTS
  Threads = {p1, c1, c2}
  NoThread = NoThread
  Producers = {p1}
  Consumers = {c1}
  Peekers = {}
  Clearers = {c2}
  Cancellable = {}
  Items = {a}
  NoItem = NoItem
  Signals = FALSE
  MaxItems = 2
PROPERTIES ClearReturns
CHECK_DEADLOCK FALSE
