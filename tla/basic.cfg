SPECIFICATION FairSpec
CONSTANTS
    t1 = t1  t2 = t2  NoThread = NoThread
    fast = fast  slow = slow
    Thread = {t1, t2}
    Registry = {"f", "s"}
    Domain = {fast, slow}
    regDomain <- MCregDomain
    Callback = {"f1", "s1", "s2", "w2"}
    cbReg <- MCcbReg
    cbThread <- MCcbThread
    WriterRM = {"w2"}
    InitStep <- MCInitStep
    Steps <- MCSteps
    Variants <- MCVariants
    MaxTime = 4
    MaxRestarts <- MCRestarts
INVARIANT UnlockedAssignIsSafe
PROPERTIES ImplementsContract ServerCallsReturn
