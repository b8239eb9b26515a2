SPECIFICATION FairSpec
CONSTANTS
    t1 = t1
    t2 = t2
    NoThread = NoThread
    fast = fast
    slow = slow
    Thread = {t1, t2}
    Registry = {"f", "s", "h"}
    Domain = {fast, slow}
    regDomain <- MCregDomain
    nSkew <- MCnSkew
    Callback = {"f1", "f2", "s1", "h2", "w2"}
    cbReg <- MCcbReg
    cbThread <- MCcbThread
    WriterRM = {"w2"}
    InitStep <- MCInitStep
    Lookahead = 1
    Steps <- MCFixedSteps
    UninitTime <- MCNegative
    MaxTime = 4
    MaxRestarts = 1
PROPERTY ServerCallsReturn
