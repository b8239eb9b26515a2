SPECIFICATION FairSpec
CONSTANTS
    p1 = p1  p2 = p2  Main = Main
    Pthread = {p1, p2}
    NTasks = 3
    Registry = {"f", "s"}
    Callback = {"f1", "f2", "s3", "w1"}
    WriterRM = {"w1"}
    events <- MCevents
    firstTime <- MCfirstTime
    InitStep <- MCInitStep
    cbReg <- MCcbReg
    cbTask <- MCcbTask
    Variants <- MCVariants
    lookahead = 1
    RingSize = 9
    MaxTime = 6
INVARIANTS OneThreadPerTask
PROPERTIES ImplementsContract ServerCallsReturn
