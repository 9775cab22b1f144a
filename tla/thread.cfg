\* The life of one thread object in the three builds, with signal handlers
\* and spurious wakeups.
SPECIFICATION Spec
CONSTANTS
  Clients = {c1, c2}
  Worker = w
  NoThread = NoThread
  Terminators = {c1}
  Builds = {"posix", "apple", "windows"}
  Interrupts = TRUE
INVARIANTS TypeOK RunsOnlyIfStarted FreedAfterUse StoppedIsOver
PROPERTIES StartedRuns TerminatedEnds
\* Nothing is left to do once the object is deleted.
CHECK_DEADLOCK FALSE
