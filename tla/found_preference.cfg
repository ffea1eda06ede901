SPECIFICATION Spec
CONSTANTS
  Hosts = {"web"}
  MaxRequests = 3
CHECK_DEADLOCK FALSE
INVARIANT PreferenceSurvives
