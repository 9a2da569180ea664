CONSTANTS
  NumKeys = 6
  Key <- MCKey
  KeyLen <- MCKeyLen
  LeafLen = 1
  IndexLen = 1
  NodeSize = 8
  NodeHeader = 1
  Limits = {13}
  Faults = {}
SPECIFICATION Spec
VIEW View
INVARIANTS DanglingFound
CHECK_DEADLOCK FALSE
