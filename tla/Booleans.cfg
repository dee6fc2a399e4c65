\* The four ways to write a boolean.
SPECIFICATION Spec
CONSTANTS
  Sources <- BooleanSources
INVARIANTS BooleansAreRead
CHECK_DEADLOCK FALSE
