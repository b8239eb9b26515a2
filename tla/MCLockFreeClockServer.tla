----------------------- MODULE MCLockFreeClockServer -----------------------
(* Small instances of LockFreeClockServer. *)
EXTENDS LockFreeClockServer, TLC

CONSTANTS t1, t2      \* threads

\* A fast registry with a module in each thread, and a slow one with a module
\* in the first thread and a writer rate matcher in the second.
MCevents    == <<"f", "s">>
MCfirstTime == [f |-> 0, s |-> 1]
MCInitStep  == [f |-> 2, s |-> 3]
MCcbReg     == [f1 |-> "f", f2 |-> "f", s1 |-> "s", w2 |-> "s"]
MCcbThread  == [f1 |-> t1, f2 |-> t2, s1 |-> t1, w2 |-> t2]

\* The frequencies are fixed, or that of f may change and the server is
\* initialised again.  The fixed ones have 6 instances in less than half of
\* the ring (RoomToSpare), and times enough for head, limit and tail to come round.
MCFixed     == [steps |-> [f |-> {2}, s |-> {3}], again |-> FALSE, maxTime |-> 14]
MCChange    == [steps |-> [f |-> {1, 2}, s |-> {3}], again |-> TRUE, maxTime |-> 2]
MCScenarios == {MCFixed, MCChange}

MCNegative  == {-1}
=============================================================================
