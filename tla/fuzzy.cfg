SPECIFICATION Spec
CONSTANTS
    t1 = t1
    t2 = t2
    NoThread = NoThread
    fast = fast
    slow = slow
    Thread = {t1, t2}
    Registry = {"f", "s", "h"}
    Domain = {fast, slow}
    regDomain <- MCregDomain
    nSkew <- MCnSkew
    Callback = {"f1", "f2", "s1", "h2", "w2"}
    cbReg <- MCcbReg
    cbThread <- MCcbThread
    WriterRM = {"w2"}
    InitStep <- MCInitStep
    Lookahead = 1
    Steps <- MCSteps
    UninitTime <- MCNegative
    MaxTime = 6
    MaxRestarts = 0
INVARIANTS ThreadsWithinLookahead NothingLeftBehind IInv
PROPERTIES ImplementsContract CallbacksInOrder
