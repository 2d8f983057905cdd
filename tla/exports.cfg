SPECIFICATION FairSpec
CONSTANTS
  MaxWord = 4095
  LEBBytes = 3
  SizeBytes = 2
  TrieAddress = 4000
  Images <- MCImages
  Symbols <- MCSymbols
INVARIANTS NoBranchMismatch NodesAreFound SearchStaysInside ReadersAgree
PROPERTIES ReadersEnd
CHECK_DEADLOCK FALSE
