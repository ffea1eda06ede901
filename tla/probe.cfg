SPECIFICATION FairSpec
CONSTANTS
  Hosts = {a, bad}  Invalid = {bad}  EmptyHost = EmptyHost  None = None
  Timeout = 2  MaxActivity = 1  MaxRequest = 4  MaxWindow = 2
CHECK_DEADLOCK FALSE
INVARIANTS TypeOK FlagsAreReal ResultIsOfLastProbe
PROPERTIES RequestsEnd
