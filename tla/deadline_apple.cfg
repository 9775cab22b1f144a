\* Sema.h:50 "Waiting timeout", in the Apple build.
SPECIFICATION Spec
CONSTANTS
  Builds = {"apple"}
  Operations = {"wait"}
  Timeouts = {500}
  Clock <- MCClock
  Interrupts = FALSE
INVARIANTS NeverEarly
CHECK_DEADLOCK FALSE
