\* Timeouts around one second, both builds, with signals and spurious wakeups.
SPECIFICATION Spec
CONSTANTS
  Builds = {"posix", "apple"}
  Operations = {"wait", "sleep"}
  Timeouts = {1, 500, 999, 1000, 1001, 1999}
  Clock <- MCClock
  Interrupts = TRUE
INVARIANTS TypeOK NotEarly
PROPERTIES Punctual
\* The clock stops at the last instant of the bound.
CHECK_DEADLOCK FALSE
