SPECIFICATION Spec
CONSTANTS
    MaxStarting = 2
    MaxAttempts = 1
    MaxTasks = 1
INVARIANTS TypeOK OnlyWholeIsRun BinderMeansStarted AvailableIsWatched
PROPERTIES OneExecPerLife LoginIsAnswered StartUpPublishes LostClientIsNoticed
