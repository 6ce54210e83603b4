SPECIFICATION Spec
CONSTANTS
    Space = Space
    Letter = Letter
    MaxItems = 2
    MaxFields = 3
    MaxText = 3
INVARIANTS TypeOK StateIsReply ReleaseIsReply FirstFieldIsRead
CHECK_DEADLOCK FALSE
