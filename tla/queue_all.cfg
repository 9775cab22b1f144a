\* Everybody consumes; two threads produce, two clear, and two may be
\* terminated wherever pthread_cancel takes effect; signals interrupt sem_wait.
SPECIFICATION Spec
CONSTANTS
  Threads = {t1, t2, t3}
  NoThread = NoThread
  Producers = {t1, t2}
  Consumers = {t1, t2, t3}
  Peekers = {t3}
  Clearers = {t1, t3}
  Cancellable = {t1, t2}
  Items = {a, b}
  NoItem = NoItem
  Signals = TRUE
  MaxItems = 2
SYMMETRY ItemSymmetry
INVARIANTS OwnerHolds NoUnderflow TokensAccounted
PROPERTIES ImplementsFifo
\* clear() and a consumer that holds a token wait for each other for ever.
CHECK_DEADLOCK FALSE
