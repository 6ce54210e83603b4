SPECIFICATION Spec
CONSTANTS
    Space = Space
    Letter = Letter
    MaxItems = 2
    MaxFields = 2
    MaxText = 1
INVARIANT EveryItemIsListed
CHECK_DEADLOCK FALSE
