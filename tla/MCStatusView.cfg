SPECIFICATION Spec
CONSTANTS
    ClientStates <- MCClientStates
    NoStatus = NoStatus
    NotSuspended = 0
    Published = {0, 1}
INVARIANTS TypeOK QuietLayoutIsCurrent
PROPERTY LayoutConverges
