\* Three calls on two keys, a clock that may stand still.
CONSTANTS
  Keys = 2
  MaxTime = 3
  MaxCalls = 3
  MaxOpen = 2
  Foreigns = {FALSE, TRUE}
SPECIFICATION Spec
INVARIANTS TypeOK ReadsAreRegular WritesAreWhole
