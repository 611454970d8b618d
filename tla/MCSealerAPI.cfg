CONSTANTS
  Callers = {c1, c2}
  Remote = TRUE
SPECIFICATION Spec
PROPERTIES CallsReturn
CHECK_DEADLOCK FALSE
