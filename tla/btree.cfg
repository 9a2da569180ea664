CONSTANTS
  NumKeys = 6
  Key <- MCKey
  KeyLen <- MCKeyLen
  LeafLen = 1
  IndexLen = 1
  NodeSize = 8
  NodeHeader = 1
  Limits = {13, 60}
  Faults = {"key", "merge", "todo"}
SPECIFICATION Spec
VIEW View
INVARIANTS FindExact NoNodeLost IndexExact CallsExact NoBug
PROPERTIES IsMap
CHECK_DEADLOCK FALSE
