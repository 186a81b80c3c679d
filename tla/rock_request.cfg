SPECIFICATION RockFairSpec
CONSTANTS
  Requests = {s1}
  Notices = {n1}
  Asks = {a1}
  Squeezed = {}
PROPERTIES RequestsReturn
CHECK_DEADLOCK FALSE
