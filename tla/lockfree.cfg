SPECIFICATION FairSpec
CONSTANTS
    t1 = t1  t2 = t2  NoThread = NoThread
    Thread = {t1, t2}
    Registry = {"f", "s"}
    Callback = {"f1", "f2", "s1", "w2"}
    WriterRM = {"w2"}
    events <- MCevents
    firstTime <- MCfirstTime
    InitStep <- MCInitStep
    Scenarios <- MCScenarios
    cbReg <- MCcbReg
    cbThread <- MCcbThread
    lookahead = 3
    RingSize = 13
    UninitTime <- MCNegative
INVARIANTS ReadsInsideWindow
PROPERTIES CallbacksInOrder ServerCallsReturn
