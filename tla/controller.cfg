SPECIFICATION FairSpec
CONSTANTS
    Scenarios <- MCScenarios
    MaxTime = 4
    MaxCommands = 3
INVARIANTS NothingOverdue EveryPeriodOnce
PROPERTIES StoppedAsTold ExitIsReached
