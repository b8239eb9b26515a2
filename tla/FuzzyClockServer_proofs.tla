----------------------- MODULE FuzzyClockServer_proofs -----------------------
(***************************************************************************)
(* Proofs about FuzzyClockServer, for any number of threads, registries    *)
(* and callbacks and any clock periods longer than the lookahead.          *)
(***************************************************************************)
EXTENDS FuzzyClockServer, FiniteSetTheorems, TLAPS

\* Starting a pthread (CreatePthread) preserves the inductive invariant.
LEMMA CreatePthreadStep ==
    ASSUME SafeParameters, IInv, NEW t \in Thread, CreatePthread(t)
    PROVE  IInv'
<1> USE FuzzyConstants DEF IInv, CreatePthread
<1>1. TypeOK'
  BY DEF TypeOK, vars, eventVars, serverVars, threadVars, timeVars, workVars, freqVars, cbVars
<1>2. StepInv'
  BY DEF TypeOK, StepInv, vars, eventVars, serverVars, threadVars, timeVars, workVars, freqVars, cbVars
<1>3. TimeInv'
  BY DEF TypeOK, TimeInv, vars, eventVars, serverVars, threadVars, timeVars, workVars, freqVars, cbVars
<1>4. StartInv'
  BY DEF TypeOK, StartInv, TimeInv, DoneInv, Booting, vars, eventVars, serverVars, threadVars, timeVars, workVars, freqVars, cbVars
<1>5. DoneInv'
  BY DEF TypeOK, DoneInv, StartInv, TimeInv, Booting, vars, eventVars, serverVars, threadVars, timeVars, workVars, freqVars, cbVars
<1>6. ReadyInv'
  BY DEF TypeOK, ReadyInv, DoneInv, Working, CallbacksAt, Booting, vars, eventVars, serverVars, threadVars, timeVars, workVars, freqVars, cbVars
<1>7. CallInv'
  BY DEF TypeOK, CallInv, Called, Working, vars, eventVars, serverVars, threadVars, timeVars, workVars, freqVars, cbVars
<1> QED BY <1>1, <1>2, <1>3, <1>4, <1>5, <1>6, <1>7

\* Seeing the new thread active (PthreadCreated) preserves the inductive invariant.
LEMMA PthreadCreatedStep ==
    ASSUME SafeParameters, IInv, PthreadCreated
    PROVE  IInv'
<1> USE FuzzyConstants DEF IInv, PthreadCreated
<1>1. TypeOK'
  BY DEF TypeOK, vars, eventVars, serverVars, threadVars, timeVars, workVars, freqVars, cbVars
<1>2. StepInv'
  BY DEF TypeOK, StepInv, vars, eventVars, serverVars, threadVars, timeVars, workVars, freqVars, cbVars
<1>3. TimeInv'
  BY DEF TypeOK, TimeInv, vars, eventVars, serverVars, threadVars, timeVars, workVars, freqVars, cbVars
<1>4. StartInv'
  BY DEF TypeOK, StartInv, TimeInv, DoneInv, Booting, vars, eventVars, serverVars, threadVars, timeVars, workVars, freqVars, cbVars
<1>5. DoneInv'
  BY DEF TypeOK, DoneInv, StartInv, TimeInv, Booting, vars, eventVars, serverVars, threadVars, timeVars, workVars, freqVars, cbVars
<1>6. ReadyInv'
  BY DEF TypeOK, ReadyInv, DoneInv, Working, CallbacksAt, Booting, vars, eventVars, serverVars, threadVars, timeVars, workVars, freqVars, cbVars
<1>7. CallInv'
  BY DEF TypeOK, CallInv, Called, Working, vars, eventVars, serverVars, threadVars, timeVars, workVars, freqVars, cbVars
<1> QED BY <1>1, <1>2, <1>3, <1>4, <1>5, <1>6, <1>7

\* Asking the server to stop (StopClockServer) preserves the inductive invariant.
LEMMA StopClockServerStep ==
    ASSUME SafeParameters, IInv, StopClockServer
    PROVE  IInv'
<1> USE FuzzyConstants DEF IInv, StopClockServer
<1>1. TypeOK'
  BY DEF TypeOK, vars, eventVars, serverVars, threadVars, timeVars, workVars, freqVars, cbVars
<1>2. StepInv'
  BY DEF TypeOK, StepInv, vars, eventVars, serverVars, threadVars, timeVars, workVars, freqVars, cbVars
<1>3. TimeInv'
  BY DEF TypeOK, TimeInv, vars, eventVars, serverVars, threadVars, timeVars, workVars, freqVars, cbVars
<1>4. StartInv'
  BY DEF TypeOK, StartInv, TimeInv, DoneInv, Booting, vars, eventVars, serverVars, threadVars, timeVars, workVars, freqVars, cbVars
<1>5. DoneInv'
  BY DEF TypeOK, DoneInv, StartInv, TimeInv, Booting, vars, eventVars, serverVars, threadVars, timeVars, workVars, freqVars, cbVars
<1>6. ReadyInv'
  BY DEF TypeOK, ReadyInv, DoneInv, Working, CallbacksAt, Booting, vars, eventVars, serverVars, threadVars, timeVars, workVars, freqVars, cbVars
<1>7. CallInv'
  BY DEF TypeOK, CallInv, Called, Working, vars, eventVars, serverVars, threadVars, timeVars, workVars, freqVars, cbVars
<1> QED BY <1>1, <1>2, <1>3, <1>4, <1>5, <1>6, <1>7

\* Asking a thread to exit (DestroyPthread) preserves the inductive invariant.
LEMMA DestroyPthreadStep ==
    ASSUME SafeParameters, IInv, NEW t \in Thread, DestroyPthread(t)
    PROVE  IInv'
<1> USE FuzzyConstants DEF IInv, DestroyPthread
<1>1. TypeOK'
  BY DEF TypeOK, vars, eventVars, serverVars, threadVars, timeVars, workVars, freqVars, cbVars
<1>2. StepInv'
  BY DEF TypeOK, StepInv, vars, eventVars, serverVars, threadVars, timeVars, workVars, freqVars, cbVars
<1>3. TimeInv'
  BY DEF TypeOK, TimeInv, vars, eventVars, serverVars, threadVars, timeVars, workVars, freqVars, cbVars
<1>4. StartInv'
  BY DEF TypeOK, StartInv, TimeInv, DoneInv, Booting, vars, eventVars, serverVars, threadVars, timeVars, workVars, freqVars, cbVars
<1>5. DoneInv'
  BY DEF TypeOK, DoneInv, StartInv, TimeInv, Booting, vars, eventVars, serverVars, threadVars, timeVars, workVars, freqVars, cbVars
<1>6. ReadyInv'
  BY DEF TypeOK, ReadyInv, DoneInv, Working, CallbacksAt, Booting, vars, eventVars, serverVars, threadVars, timeVars, workVars, freqVars, cbVars
<1>7. CallInv'
  BY DEF TypeOK, CallInv, Called, Working, vars, eventVars, serverVars, threadVars, timeVars, workVars, freqVars, cbVars
<1> QED BY <1>1, <1>2, <1>3, <1>4, <1>5, <1>6, <1>7

\* Joining a thread (PthreadJoined) preserves the inductive invariant.
LEMMA PthreadJoinedStep ==
    ASSUME SafeParameters, IInv, PthreadJoined
    PROVE  IInv'
<1> USE FuzzyConstants DEF IInv, PthreadJoined
<1>1. TypeOK'
  BY DEF TypeOK, vars, eventVars, serverVars, threadVars, timeVars, workVars, freqVars, cbVars
<1>2. StepInv'
  BY DEF TypeOK, StepInv, vars, eventVars, serverVars, threadVars, timeVars, workVars, freqVars, cbVars
<1>3. TimeInv'
  BY DEF TypeOK, TimeInv, vars, eventVars, serverVars, threadVars, timeVars, workVars, freqVars, cbVars
<1>4. StartInv'
  BY DEF TypeOK, StartInv, TimeInv, DoneInv, Booting, vars, eventVars, serverVars, threadVars, timeVars, workVars, freqVars, cbVars
<1>5. DoneInv'
  BY DEF TypeOK, DoneInv, StartInv, TimeInv, Booting, vars, eventVars, serverVars, threadVars, timeVars, workVars, freqVars, cbVars
<1>6. ReadyInv'
  BY DEF TypeOK, ReadyInv, DoneInv, Working, CallbacksAt, Booting, vars, eventVars, serverVars, threadVars, timeVars, workVars, freqVars, cbVars
<1>7. CallInv'
  BY DEF TypeOK, CallInv, Called, Working, vars, eventVars, serverVars, threadVars, timeVars, workVars, freqVars, cbVars
<1> QED BY <1>1, <1>2, <1>3, <1>4, <1>5, <1>6, <1>7

\* Publishing the next GlobalReadyTime (ClockBegin) preserves the inductive invariant.
LEMMA ClockBeginStep ==
    ASSUME SafeParameters, IInv, NEW r \in Registry, ClockBegin(nBaseCycle[r])
    PROVE  IInv'
<1> USE FuzzyConstants DEF IInv, ClockBegin
<1>1. TypeOK'
  BY DEF TypeOK, vars, eventVars, serverVars, threadVars, timeVars, workVars, freqVars, cbVars
<1>2. StepInv'
  BY DEF TypeOK, StepInv, vars, eventVars, serverVars, threadVars, timeVars, workVars, freqVars, cbVars
<1>3. TimeInv'
  BY DEF TypeOK, TimeInv, IsEarliest, vars, eventVars, serverVars, threadVars, timeVars, workVars, freqVars, cbVars
<1>4. StartInv'
  BY DEF TypeOK, StartInv, TimeInv, DoneInv, Booting, vars, eventVars, serverVars, threadVars, timeVars, workVars, freqVars, cbVars
<1>5. DoneInv'
  BY DEF TypeOK, DoneInv, StartInv, TimeInv, Booting, vars, eventVars, serverVars, threadVars, timeVars, workVars, freqVars, cbVars
<1>6. ReadyInv'
  <2>1. GlobalReadyTime <= nBaseCycle[r]
    BY DEF TimeInv
  <2>2. \A t \in Thread : workerPc[t] = "find" => localReadyTime[t] <= localDoneTime[t]
    <3> SUFFICES ASSUME NEW t \in Thread, workerPc[t] = "find"
                 PROVE  localReadyTime[t] <= localDoneTime[t]
      OBVIOUS
    <3>1. GlobalReadyTime <= localDoneTime[t]
      BY DEF DoneInv, Booting
    <3>2. localReadyTime[t] <= GlobalReadyTime
      BY DEF ReadyInv
    <3>3. localReadyTime[t] \in Int /\ localDoneTime[t] \in Int /\ GlobalReadyTime \in Int
      BY DEF TypeOK
    <3> QED BY <3>1, <3>2, <3>3
  <2>3. todo' = todo /\ nBaseCycle' = nBaseCycle /\ localReadyTime' = localReadyTime
    BY DEF vars, eventVars, serverVars, threadVars, timeVars, workVars, freqVars, cbVars
  <2>4. GlobalReadyTime' \in Int /\ GlobalReadyTime <= GlobalReadyTime'
    BY <2>1 DEF TypeOK
  <2>5. \A t \in Thread : CallbacksAt(t, localReadyTime[t])' = CallbacksAt(t, localReadyTime[t])
    BY <2>3 DEF CallbacksAt
  <2> QED BY <2>2, <2>3, <2>4, <2>5 DEF TypeOK, ReadyInv, Working, vars, eventVars, serverVars, threadVars, timeVars, workVars, freqVars, cbVars
<1>7. CallInv'
  BY DEF TypeOK, CallInv, Called, Working, vars, eventVars, serverVars, threadVars, timeVars, workVars, freqVars, cbVars
<1> QED BY <1>1, <1>2, <1>3, <1>4, <1>5, <1>6, <1>7

\* Advancing the due events at the barrier (ClockEnd) preserves the inductive invariant.
LEMMA ClockEndStep ==
    ASSUME SafeParameters, IInv, ClockEnd
    PROVE  IInv'
<1> DEFINE D == Due(GlobalReadyTime)
<1> USE FuzzyConstants DEF IInv, ClockEnd
<1>8. /\ GlobalReadyTime \in Nat
      /\ \A t \in Thread : GlobalReadyTime <= localDoneTime[t] /\ ~Booting(t)
  BY DEF TypeOK, GlobalDone, TimeInv, StartInv
<1>9. /\ \A r \in D : /\ nBaseCycle[r] = GlobalReadyTime
                       /\ nBaseCycle'[r] = GlobalReadyTime + nStep[r]
                       /\ nCycle'[r] = nCycle[r] + 1
      /\ \A r \in Registry \ D : nBaseCycle'[r] = nBaseCycle[r] /\ nCycle'[r] = nCycle[r]
  BY DEF TypeOK, AdvanceEvents, Due
<1>10. \A r \in D : GlobalReadyTime + Lookahead < nBaseCycle'[r]
  BY <1>8, <1>9 DEF TypeOK, StepInv, Due
<1>1. TypeOK'
  <2>1. nBaseCycle' \in [Registry -> Nat] /\ nCycle' \in [Registry -> Nat]
    BY DEF TypeOK, AdvanceEvents, Due
  <2> QED BY <2>1 DEF TypeOK, vars, eventVars, serverVars, threadVars, timeVars, workVars, freqVars, cbVars
<1>2. StepInv'
  BY DEF TypeOK, StepInv, vars, eventVars, serverVars, threadVars, timeVars, workVars, freqVars, cbVars
<1>3. TimeInv'
  BY <1>1, <1>9, <1>10 DEF TypeOK, TimeInv, vars, eventVars, serverVars, threadVars, timeVars, workVars, freqVars, cbVars
<1>4. StartInv'
  BY <1>8 DEF TypeOK, StartInv, Booting, vars, eventVars, serverVars, threadVars, timeVars, workVars, freqVars, cbVars
<1>5. DoneInv'
  BY <1>8 DEF TypeOK, DoneInv, Booting, vars, eventVars, serverVars, threadVars, timeVars, workVars, freqVars, cbVars
<1>6. ReadyInv'
  <2>1. \A t \in Thread, c \in Callback :
          Working(t) /\ c \in todo[t] => cbReg[c] \notin D
    BY <1>8, <1>9 DEF TypeOK, ReadyInv, CallbacksAt
  <2>2. \A t \in Thread : Working(t) => todo[t] \subseteq CallbacksAt(t, localReadyTime[t])'
    BY <2>1, <1>9 DEF TypeOK, ReadyInv, CallbacksAt, vars, eventVars, serverVars, threadVars, timeVars, workVars, freqVars, cbVars
  <2> QED BY <2>2 DEF TypeOK, ReadyInv, Working, vars, eventVars, serverVars, threadVars, timeVars, workVars, freqVars, cbVars
<1>7. CallInv'
  <2> SUFFICES ASSUME NEW c \in Callback
               PROVE  /\ calls[c] = IF Called(c)' THEN nCycle'[cbReg[c]] + 1 ELSE nCycle'[cbReg[c]]
                      /\ Working(cbThread[c]) =>
                           \/ nBaseCycle'[cbReg[c]] <= localDoneTime[cbThread[c]]
                           \/ nBaseCycle'[cbReg[c]] >= localReadyTime[cbThread[c]]
    <3>1. \A t \in Thread : workerPc[t] # "exited"
      BY DEF StartInv
    <3> QED BY <3>1 DEF CallInv, StartInv, Working, vars, eventVars, serverVars, threadVars, timeVars, workVars, freqVars, cbVars
  <2>1. calls[c] = IF Called(c) THEN nCycle[cbReg[c]] + 1 ELSE nCycle[cbReg[c]]
    BY DEF CallInv, StartInv
  <2>2. CASE cbReg[c] \in D
    <3>1. Called(c)
      BY <1>8, <1>9, <2>2 DEF Called
    <3>2. ~Called(c)'
      <4>1. nBaseCycle'[cbReg[c]] \in Nat /\ GlobalReadyTime + Lookahead < nBaseCycle'[cbReg[c]]
        BY <1>1, <1>10, <2>2 DEF TypeOK
      <4>2. localDoneTime[cbThread[c]] < nBaseCycle'[cbReg[c]]
        BY <1>8, <4>1 DEF TypeOK, DoneInv
      <4>3. Working(cbThread[c]) => localReadyTime[cbThread[c]] < nBaseCycle'[cbReg[c]]
        BY <4>1 DEF TypeOK, ReadyInv
      <4> QED BY <4>1, <4>2, <4>3 DEF TypeOK, Called, Working, vars, eventVars, serverVars, threadVars, timeVars, workVars, freqVars, cbVars
    <3>3. Working(cbThread[c]) => nBaseCycle'[cbReg[c]] >= localReadyTime[cbThread[c]]
      BY <1>1, <1>10, <2>2 DEF TypeOK, ReadyInv
    <3> QED BY <1>9, <2>1, <2>2, <3>1, <3>2, <3>3
  <2>3. CASE cbReg[c] \notin D
    <3>1. /\ nBaseCycle'[cbReg[c]] = nBaseCycle[cbReg[c]]
          /\ nCycle'[cbReg[c]] = nCycle[cbReg[c]]
      BY <1>9, <2>3
    <3>2. Called(c)' <=> Called(c)
      BY <3>1 DEF Called, Working, vars, eventVars, serverVars, threadVars, timeVars, workVars, freqVars, cbVars
    <3> QED BY <2>1, <3>1, <3>2 DEF CallInv
  <2> QED BY <2>2, <2>3
<1> QED BY <1>1, <1>2, <1>3, <1>4, <1>5, <1>6, <1>7

\* Setting threadActive (ThreadStart) preserves the inductive invariant.
LEMMA ThreadStartStep ==
    ASSUME SafeParameters, IInv, NEW t \in Thread, ThreadStart(t)
    PROVE  IInv'
<1> USE FuzzyConstants DEF IInv, ThreadStart
<1>1. TypeOK'
  BY DEF TypeOK, vars, eventVars, serverVars, threadVars, timeVars, workVars, freqVars, cbVars
<1>2. StepInv'
  BY DEF TypeOK, StepInv, vars, eventVars, serverVars, threadVars, timeVars, workVars, freqVars, cbVars
<1>3. TimeInv'
  BY DEF TypeOK, TimeInv, vars, eventVars, serverVars, threadVars, timeVars, workVars, freqVars, cbVars
<1>4. StartInv'
  BY DEF TypeOK, StartInv, TimeInv, DoneInv, Booting, vars, eventVars, serverVars, threadVars, timeVars, workVars, freqVars, cbVars
<1>5. DoneInv'
  BY DEF TypeOK, DoneInv, StartInv, TimeInv, Booting, vars, eventVars, serverVars, threadVars, timeVars, workVars, freqVars, cbVars
<1>6. ReadyInv'
  BY DEF TypeOK, ReadyInv, DoneInv, Working, CallbacksAt, Booting, vars, eventVars, serverVars, threadVars, timeVars, workVars, freqVars, cbVars
<1>7. CallInv'
  BY DEF TypeOK, CallInv, Called, Working, vars, eventVars, serverVars, threadVars, timeVars, workVars, freqVars, cbVars
<1> QED BY <1>1, <1>2, <1>3, <1>4, <1>5, <1>6, <1>7

\* Initialising the thread's times (ThreadInit) preserves the inductive invariant.
LEMMA ThreadInitStep ==
    ASSUME SafeParameters, IInv, NEW t \in Thread, ThreadInit(t)
    PROVE  IInv'
<1> USE FuzzyConstants DEF IInv, ThreadInit
<1>1. TypeOK'
  BY DEF TypeOK, vars, eventVars, serverVars, threadVars, timeVars, workVars, freqVars, cbVars
<1>2. StepInv'
  BY DEF TypeOK, StepInv, vars, eventVars, serverVars, threadVars, timeVars, workVars, freqVars, cbVars
<1>3. TimeInv'
  BY DEF TypeOK, TimeInv, vars, eventVars, serverVars, threadVars, timeVars, workVars, freqVars, cbVars
<1>4. StartInv'
  BY DEF TypeOK, StartInv, TimeInv, DoneInv, Booting, vars, eventVars, serverVars, threadVars, timeVars, workVars, freqVars, cbVars
<1>5. DoneInv'
  BY DEF TypeOK, DoneInv, StartInv, TimeInv, Booting, vars, eventVars, serverVars, threadVars, timeVars, workVars, freqVars, cbVars
<1>6. ReadyInv'
  BY DEF TypeOK, ReadyInv, DoneInv, Working, CallbacksAt, Booting, vars, eventVars, serverVars, threadVars, timeVars, workVars, freqVars, cbVars
<1>7. CallInv'
  <2> SUFFICES ASSUME NEW c \in Callback, cbThread[c] = t
               PROVE  calls[c] = IF Called(c)' THEN nCycle[cbReg[c]] + 1 ELSE nCycle[cbReg[c]]
    BY DEF TypeOK, CallInv, Called, Working, vars, eventVars, serverVars, threadVars, timeVars, workVars, freqVars, cbVars
  <2>1. localDoneTime[t] < 0
    BY DEF StartInv, Booting
  <2>2. ~Called(c) /\ ~Called(c)'
    BY <2>1 DEF TypeOK, Called, Working, vars, eventVars, serverVars, threadVars, timeVars, workVars, freqVars, cbVars
  <2> QED BY <2>2 DEF CallInv
<1> QED BY <1>1, <1>2, <1>3, <1>4, <1>5, <1>6, <1>7

\* Leaving the wait loop for good (ThreadExit) preserves the inductive invariant.
LEMMA ThreadExitStep ==
    ASSUME SafeParameters, IInv, NEW t \in Thread, ThreadExit(t)
    PROVE  IInv'
<1> USE FuzzyConstants DEF IInv, ThreadExit
<1>1. TypeOK'
  BY DEF TypeOK, vars, eventVars, serverVars, threadVars, timeVars, workVars, freqVars, cbVars
<1>2. StepInv'
  BY DEF TypeOK, StepInv, vars, eventVars, serverVars, threadVars, timeVars, workVars, freqVars, cbVars
<1>3. TimeInv'
  BY DEF TypeOK, TimeInv, vars, eventVars, serverVars, threadVars, timeVars, workVars, freqVars, cbVars
<1>4. StartInv'
  BY DEF TypeOK, StartInv, TimeInv, DoneInv, Booting, vars, eventVars, serverVars, threadVars, timeVars, workVars, freqVars, cbVars
<1>5. DoneInv'
  BY DEF TypeOK, DoneInv, StartInv, TimeInv, Booting, vars, eventVars, serverVars, threadVars, timeVars, workVars, freqVars, cbVars
<1>6. ReadyInv'
  BY DEF TypeOK, ReadyInv, DoneInv, Working, CallbacksAt, Booting, vars, eventVars, serverVars, threadVars, timeVars, workVars, freqVars, cbVars
<1>7. CallInv'
  BY DEF TypeOK, CallInv, Called, Working, vars, eventVars, serverVars, threadVars, timeVars, workVars, freqVars, cbVars
<1> QED BY <1>1, <1>2, <1>3, <1>4, <1>5, <1>6, <1>7

\* Leaving the wait loop with a GlobalReadyTime (EndWait) preserves the inductive invariant.
LEMMA EndWaitStep ==
    ASSUME SafeParameters, IInv, NEW t \in Thread, EndWait(t)
    PROVE  IInv'
<1> USE FuzzyConstants DEF IInv, EndWait
<1>1. TypeOK'
  BY DEF TypeOK, vars, eventVars, serverVars, threadVars, timeVars, workVars, freqVars, cbVars
<1>2. StepInv'
  BY DEF TypeOK, StepInv, vars, eventVars, serverVars, threadVars, timeVars, workVars, freqVars, cbVars
<1>3. TimeInv'
  BY DEF TypeOK, TimeInv, vars, eventVars, serverVars, threadVars, timeVars, workVars, freqVars, cbVars
<1>4. StartInv'
  BY DEF TypeOK, StartInv, TimeInv, DoneInv, Booting, MustWait, vars, eventVars, serverVars, threadVars, timeVars, workVars, freqVars, cbVars
<1>5. DoneInv'
  BY DEF TypeOK, DoneInv, StartInv, TimeInv, Booting, vars, eventVars, serverVars, threadVars, timeVars, workVars, freqVars, cbVars
<1>6. ReadyInv'
  BY DEF TypeOK, ReadyInv, DoneInv, Working, CallbacksAt, Booting, MustWait, vars, eventVars, serverVars, threadVars, timeVars, workVars, freqVars, cbVars
<1>7. CallInv'
  BY DEF TypeOK, CallInv, Called, Working, vars, eventVars, serverVars, threadVars, timeVars, workVars, freqVars, cbVars
<1> QED BY <1>1, <1>2, <1>3, <1>4, <1>5, <1>6, <1>7

\* Collecting the events of the next time (FindEvents) preserves the inductive invariant.
LEMMA FindEventsStep ==
    ASSUME SafeParameters, IInv, NEW t \in Thread, NEW e \in Int, FindEvents(t, e)
    PROVE  IInv'
<1> USE FuzzyConstants DEF IInv, FindEvents
<1>1. TypeOK'
  <2>1. CallbacksAt(t, e) \subseteq Callback
    BY DEF CallbacksAt
  <2> QED BY <2>1 DEF TypeOK, vars, eventVars, serverVars, threadVars, timeVars, workVars, freqVars, cbVars
<1>2. StepInv'
  BY DEF TypeOK, StepInv, vars, eventVars, serverVars, threadVars, timeVars, workVars, freqVars, cbVars
<1>3. TimeInv'
  BY DEF TypeOK, TimeInv, vars, eventVars, serverVars, threadVars, timeVars, workVars, freqVars, cbVars
<1>4. StartInv'
  BY DEF TypeOK, StartInv, TimeInv, DoneInv, Booting, vars, eventVars, serverVars, threadVars, timeVars, workVars, freqVars, cbVars
<1>5. DoneInv'
  BY DEF TypeOK, DoneInv, StartInv, TimeInv, Booting, vars, eventVars, serverVars, threadVars, timeVars, workVars, freqVars, cbVars
<1>6. ReadyInv'
  <2>1. localDoneTime[t] < e /\ e <= GlobalReadyTime + Lookahead
    BY DEF TypeOK, ReadyInv, IsNextTime, Window
  <2>2. todo'[t] = CallbacksAt(t, e) /\ localReadyTime'[t] = e
    BY DEF TypeOK
  <2>3. \A u \in Thread, f \in Int : CallbacksAt(u, f)' = CallbacksAt(u, f)
    BY DEF CallbacksAt, vars, eventVars, serverVars, threadVars, timeVars, workVars, freqVars, cbVars
  <2> QED BY <2>1, <2>2, <2>3 DEF TypeOK, ReadyInv, Working, vars, eventVars, serverVars, threadVars, timeVars, workVars, freqVars, cbVars
<1>7. CallInv'
  <2> SUFFICES ASSUME NEW c \in Callback, cbThread[c] = t
               PROVE  /\ calls[c] = IF Called(c)' THEN nCycle[cbReg[c]] + 1 ELSE nCycle[cbReg[c]]
                      /\ \/ nBaseCycle[cbReg[c]] <= localDoneTime[t]
                         \/ nBaseCycle[cbReg[c]] >= e
    BY DEF TypeOK, CallInv, Called, Working, vars, eventVars, serverVars, threadVars, timeVars, workVars, freqVars, cbVars
  <2>1. Called(c) <=> nBaseCycle[cbReg[c]] <= localDoneTime[t]
    BY DEF TypeOK, Called, Working
  <2>2. Called(c)' <=> nBaseCycle[cbReg[c]] <= localDoneTime[t]
    BY DEF TypeOK, Called, Working, CallbacksAt, vars, eventVars, serverVars, threadVars, timeVars, workVars, freqVars, cbVars
  <2>3. nBaseCycle[cbReg[c]] <= localDoneTime[t] \/ nBaseCycle[cbReg[c]] >= e
    <3>1. CASE localReadyTime[t] > localDoneTime[t]
      BY <3>1 DEF TypeOK, IsNextTime, ReadyInv, TimeInv
    <3>2. CASE localReadyTime[t] <= localDoneTime[t] /\ Window(t) = {}
      <4>1. e = localDoneTime[t] + 1
        BY <3>2 DEF TypeOK, IsNextTime
      <4> QED BY <4>1 DEF TypeOK
    <3>3. CASE localReadyTime[t] <= localDoneTime[t] /\ Window(t) # {}
      <4>1. e \in Window(t) /\ \A w \in Window(t) : e <= w
        BY <3>3 DEF TypeOK, IsNextTime
      <4>2. nBaseCycle[cbReg[c]] \in Int /\ localDoneTime[t] \in Int /\ GlobalReadyTime + Lookahead \in Int
        BY DEF TypeOK
      <4>3. e <= GlobalReadyTime + Lookahead
        BY <4>1 DEF Window
      <4>4. ASSUME localDoneTime[t] < nBaseCycle[cbReg[c]], nBaseCycle[cbReg[c]] < e
            PROVE  nBaseCycle[cbReg[c]] \in Window(t)
        BY <4>2, <4>3, <4>4 DEF Window
      <4> QED BY <4>1, <4>2, <4>4
    <3> QED BY <3>1, <3>2, <3>3 DEF TypeOK
  <2> QED BY <2>1, <2>2, <2>3 DEF CallInv
<1> QED BY <1>1, <1>2, <1>3, <1>4, <1>5, <1>6, <1>7

\* Calling one callback (RunCallback) preserves the inductive invariant.
LEMMA RunCallbackStep ==
    ASSUME SafeParameters, IInv, NEW t \in Thread, NEW c \in Callback, RunCallback(t, c)
    PROVE  IInv'
<1> USE FuzzyConstants DEF IInv, RunCallback
<1>1. TypeOK'
  <2>1. /\ currentCycle' \in [Callback -> Nat]
        /\ calls' \in [Callback -> Nat]
        /\ todo' \in [Thread -> SUBSET Callback]
    <3>1. nCycle[cbReg[c]] \in Nat
      BY DEF TypeOK
    <3>2. calls[c] + 1 \in Nat
      BY DEF TypeOK
    <3> QED BY <3>1, <3>2 DEF TypeOK
  <2> QED BY <2>1 DEF TypeOK, vars, eventVars, serverVars, threadVars, timeVars, workVars, freqVars, cbVars
<1>2. StepInv'
  BY DEF TypeOK, StepInv, vars, eventVars, serverVars, threadVars, timeVars, workVars, freqVars, cbVars
<1>3. TimeInv'
  BY DEF TypeOK, TimeInv, vars, eventVars, serverVars, threadVars, timeVars, workVars, freqVars, cbVars
<1>4. StartInv'
  BY DEF TypeOK, StartInv, TimeInv, DoneInv, Booting, vars, eventVars, serverVars, threadVars, timeVars, workVars, freqVars, cbVars
<1>5. DoneInv'
  BY DEF TypeOK, DoneInv, StartInv, TimeInv, Booting, vars, eventVars, serverVars, threadVars, timeVars, workVars, freqVars, cbVars
<1>6. ReadyInv'
  BY DEF TypeOK, ReadyInv, DoneInv, Working, CallbacksAt, Booting, vars, eventVars, serverVars, threadVars, timeVars, workVars, freqVars, cbVars
<1>7. CallInv'
  <2>1. cbThread[c] = t /\ nBaseCycle[cbReg[c]] = localReadyTime[t]
    BY DEF ReadyInv, Working, CallbacksAt
  <2>2. calls[c] = nCycle[cbReg[c]] /\ Called(c)'
    BY <2>1 DEF TypeOK, CallInv, Called, Working, ReadyInv, vars, eventVars, serverVars, threadVars, timeVars, workVars, freqVars, cbVars
  <2>3. calls'[c] = nCycle[cbReg[c]] + 1
    BY <2>2 DEF TypeOK
  <2>4. \A b \in Callback \ {c} : calls'[b] = calls[b] /\ (Called(b)' <=> Called(b))
    BY DEF TypeOK, Called, Working, vars, eventVars, serverVars, threadVars, timeVars, workVars, freqVars, cbVars
  <2> QED BY <2>2, <2>3, <2>4 DEF TypeOK, CallInv, Working, vars, eventVars, serverVars, threadVars, timeVars, workVars, freqVars, cbVars
<1> QED BY <1>1, <1>2, <1>3, <1>4, <1>5, <1>6, <1>7

\* Publishing localDoneTime (FinishTime) preserves the inductive invariant.
LEMMA FinishTimeStep ==
    ASSUME SafeParameters, IInv, NEW t \in Thread, FinishTime(t)
    PROVE  IInv'
<1> USE FuzzyConstants DEF IInv, FinishTime
<1>1. TypeOK'
  BY DEF TypeOK, vars, eventVars, serverVars, threadVars, timeVars, workVars, freqVars, cbVars
<1>2. StepInv'
  BY DEF TypeOK, StepInv, vars, eventVars, serverVars, threadVars, timeVars, workVars, freqVars, cbVars
<1>3. TimeInv'
  BY DEF TypeOK, TimeInv, vars, eventVars, serverVars, threadVars, timeVars, workVars, freqVars, cbVars
<1>4. StartInv'
  BY DEF TypeOK, StartInv, TimeInv, DoneInv, Booting, vars, eventVars, serverVars, threadVars, timeVars, workVars, freqVars, cbVars
<1>5. DoneInv'
  BY DEF TypeOK, DoneInv, ReadyInv, StartInv, TimeInv, Booting, Working, vars, eventVars, serverVars, threadVars, timeVars, workVars, freqVars, cbVars
<1>6. ReadyInv'
  BY DEF TypeOK, ReadyInv, DoneInv, Working, CallbacksAt, Booting, vars, eventVars, serverVars, threadVars, timeVars, workVars, freqVars, cbVars
<1>7. CallInv'
  <2> SUFFICES ASSUME NEW c \in Callback, cbThread[c] = t
               PROVE  calls[c] = IF Called(c)' THEN nCycle[cbReg[c]] + 1 ELSE nCycle[cbReg[c]]
    BY DEF TypeOK, CallInv, Called, Working, vars, eventVars, serverVars, threadVars, timeVars, workVars, freqVars, cbVars
  <2>1. calls[c] = IF Called(c) THEN nCycle[cbReg[c]] + 1 ELSE nCycle[cbReg[c]]
    BY DEF CallInv
  <2>2. /\ Working(t) /\ todo[t] = {} /\ localDoneTime[t] < localReadyTime[t]
        /\ \/ nBaseCycle[cbReg[c]] <= localDoneTime[t]
           \/ nBaseCycle[cbReg[c]] >= localReadyTime[t]
    BY DEF CallInv, ReadyInv, Working
  <2>3. Called(c)' <=> nBaseCycle[cbReg[c]] <= localReadyTime[t]
    BY DEF TypeOK, Called, Working, vars, eventVars, serverVars, threadVars, timeVars, workVars, freqVars, cbVars
  <2>4. Called(c) <=> nBaseCycle[cbReg[c]] <= localReadyTime[t]
    <3>1. /\ nBaseCycle[cbReg[c]] \in Int
          /\ localDoneTime[t] \in Int /\ localReadyTime[t] \in Int
      BY DEF TypeOK
    <3>2. Called(c) <=> \/ nBaseCycle[cbReg[c]] <= localDoneTime[t]
                        \/ nBaseCycle[cbReg[c]] = localReadyTime[t]
      BY <2>2 DEF Called
    <3>3. nBaseCycle[cbReg[c]] <= localReadyTime[t] <=>
             \/ nBaseCycle[cbReg[c]] <= localDoneTime[t]
             \/ nBaseCycle[cbReg[c]] = localReadyTime[t]
      BY <2>2, <3>1
    <3> QED BY <3>2, <3>3
  <2> QED BY <2>1, <2>3, <2>4
<1> QED BY <1>1, <1>2, <1>3, <1>4, <1>5, <1>6, <1>7

\* Starting to change a frequency (SetDomainFrequency) preserves the inductive invariant.
LEMMA SetDomainFrequencyStep ==
    ASSUME SafeParameters, IInv, NEW t \in Thread, NEW d \in Domain, NEW s \in Steps[d], SetDomainFrequency(t, d, s)
    PROVE  IInv'
<1> USE FuzzyConstants DEF IInv, SetDomainFrequency
<1>1. TypeOK'
  <2>1. /\ s \in Nat \ {0}
        /\ currentStep' \in [Domain -> Nat \ {0}]
        /\ newStep' \in [Thread -> Nat]
        /\ left' \in [Thread -> SUBSET Registry]
    BY DEF TypeOK
  <2>2. \A u \in Thread : left'[u] # {} => newStep'[u] > 0
    BY <2>1 DEF TypeOK
  <2> QED BY <2>1, <2>2 DEF TypeOK, vars, eventVars, serverVars, threadVars, timeVars, workVars, freqVars, cbVars
<1>2. StepInv'
  <2>1. s \in Nat /\ Lookahead < s
    BY DEF SafeParameters
  <2> QED BY <2>1 DEF TypeOK, StepInv, vars, eventVars, serverVars, threadVars, timeVars, workVars, freqVars, cbVars
<1>3. TimeInv'
  BY DEF TypeOK, TimeInv, vars, eventVars, serverVars, threadVars, timeVars, workVars, freqVars, cbVars
<1>4. StartInv'
  BY DEF TypeOK, StartInv, TimeInv, DoneInv, Booting, vars, eventVars, serverVars, threadVars, timeVars, workVars, freqVars, cbVars
<1>5. DoneInv'
  BY DEF TypeOK, DoneInv, StartInv, TimeInv, Booting, vars, eventVars, serverVars, threadVars, timeVars, workVars, freqVars, cbVars
<1>6. ReadyInv'
  BY DEF TypeOK, ReadyInv, DoneInv, Working, CallbacksAt, Booting, vars, eventVars, serverVars, threadVars, timeVars, workVars, freqVars, cbVars
<1>7. CallInv'
  BY DEF TypeOK, CallInv, Called, Working, vars, eventVars, serverVars, threadVars, timeVars, workVars, freqVars, cbVars
<1> QED BY <1>1, <1>2, <1>3, <1>4, <1>5, <1>6, <1>7

\* Installing the new period in one registry (SetRegistryStep) preserves the inductive invariant.
LEMMA SetRegistryStepStep ==
    ASSUME SafeParameters, IInv, NEW t \in Thread, NEW r \in Registry, SetRegistryStep(t, r)
    PROVE  IInv'
<1> USE FuzzyConstants DEF IInv, SetRegistryStep
<1>1. TypeOK'
  BY DEF TypeOK, vars, eventVars, serverVars, threadVars, timeVars, workVars, freqVars, cbVars
<1>2. StepInv'
  BY DEF TypeOK, StepInv, vars, eventVars, serverVars, threadVars, timeVars, workVars, freqVars, cbVars
<1>3. TimeInv'
  BY DEF TypeOK, TimeInv, vars, eventVars, serverVars, threadVars, timeVars, workVars, freqVars, cbVars
<1>4. StartInv'
  BY DEF TypeOK, StartInv, TimeInv, DoneInv, Booting, vars, eventVars, serverVars, threadVars, timeVars, workVars, freqVars, cbVars
<1>5. DoneInv'
  BY DEF TypeOK, DoneInv, StartInv, TimeInv, Booting, vars, eventVars, serverVars, threadVars, timeVars, workVars, freqVars, cbVars
<1>6. ReadyInv'
  BY DEF TypeOK, ReadyInv, DoneInv, Working, CallbacksAt, Booting, vars, eventVars, serverVars, threadVars, timeVars, workVars, freqVars, cbVars
<1>7. CallInv'
  BY DEF TypeOK, CallInv, Called, Working, vars, eventVars, serverVars, threadVars, timeVars, workVars, freqVars, cbVars
<1> QED BY <1>1, <1>2, <1>3, <1>4, <1>5, <1>6, <1>7

\* Returning from SetDomainFrequency (FrequencySet) preserves the inductive invariant.
LEMMA FrequencySetStep ==
    ASSUME SafeParameters, IInv, NEW t \in Thread, FrequencySet(t)
    PROVE  IInv'
<1> USE FuzzyConstants DEF IInv, FrequencySet
<1>1. TypeOK'
  BY DEF TypeOK, vars, eventVars, serverVars, threadVars, timeVars, workVars, freqVars, cbVars
<1>2. StepInv'
  BY DEF TypeOK, StepInv, vars, eventVars, serverVars, threadVars, timeVars, workVars, freqVars, cbVars
<1>3. TimeInv'
  BY DEF TypeOK, TimeInv, vars, eventVars, serverVars, threadVars, timeVars, workVars, freqVars, cbVars
<1>4. StartInv'
  BY DEF TypeOK, StartInv, TimeInv, DoneInv, Booting, vars, eventVars, serverVars, threadVars, timeVars, workVars, freqVars, cbVars
<1>5. DoneInv'
  BY DEF TypeOK, DoneInv, StartInv, TimeInv, Booting, vars, eventVars, serverVars, threadVars, timeVars, workVars, freqVars, cbVars
<1>6. ReadyInv'
  BY DEF TypeOK, ReadyInv, DoneInv, Working, CallbacksAt, Booting, vars, eventVars, serverVars, threadVars, timeVars, workVars, freqVars, cbVars
<1>7. CallInv'
  BY DEF TypeOK, CallInv, Called, Working, vars, eventVars, serverVars, threadVars, timeVars, workVars, freqVars, cbVars
<1> QED BY <1>1, <1>2, <1>3, <1>4, <1>5, <1>6, <1>7

\* The first base cycle of a registry (InitClockServer) is a natural number.
LEMMA SkewTimeNat ==
    ASSUME NEW r \in Registry, NEW step \in Nat
    PROVE  SkewTime(r, step) \in Nat
<1>1. nSkew[r] \in Nat
  BY FuzzyConstants
<1>2. nSkew[r] * step \in Nat
  BY <1>1
<1> QED BY <1>2 DEF SkewTime

\* The state InitClockServer leaves behind satisfies the inductive invariant.
LEMMA InitInv ==
    ASSUME SafeParameters, Init
    PROVE  IInv
<1> USE FuzzyConstants DEF Init
<1>0. /\ \A d \in Domain : InitStep[d] \in Nat \ {0} /\ Lookahead < InitStep[d]
      /\ localDoneTime \in [Thread -> Int]
      /\ \A t \in Thread : localDoneTime[t] < 0
  BY DEF SafeParameters
<1>1. TypeOK
  <2>1. \A r \in Registry : SkewTime(r, InitStep[regDomain[r]]) \in Nat
    BY <1>0, SkewTimeNat
  <2> QED BY <1>0, <2>1 DEF TypeOK
<1>2. StepInv
  BY <1>0 DEF StepInv
<1>3. TimeInv
  BY <1>1 DEF TypeOK, TimeInv
<1>4. StartInv
  BY <1>0 DEF StartInv, Booting
<1>5. DoneInv /\ ReadyInv
  BY DEF DoneInv, ReadyInv, Booting, Working
<1>6. CallInv
  BY <1>0, <1>1 DEF TypeOK, CallInv, Called, Working
<1> QED BY <1>1, <1>2, <1>3, <1>4, <1>5, <1>6 DEF IInv

\* Every step of the server or a worker preserves the inductive invariant.
LEMMA NextInv ==
    ASSUME SafeParameters, IInv, [Next]_vars
    PROVE  IInv'
<1>1. CASE Server
  <2>1. ~InitClockServer
    BY FuzzyConstants DEF SafeParameters, IInv, TypeOK, InitClockServer
  <2> QED
    BY <1>1, <2>1, CreatePthreadStep, DestroyPthreadStep, PthreadCreatedStep,
       StopClockServerStep, PthreadJoinedStep, ClockBeginStep, ClockEndStep
       DEF Server
<1>2. ASSUME NEW t \in Thread, Worker(t) PROVE IInv'
  <2>1. ASSUME NEW e \in {localReadyTime[t], localDoneTime[t] + 1} \cup Window(t),
               FindEvents(t, e)
        PROVE  IInv'
    <3>1. e \in Int
      BY FuzzyConstants DEF IInv, TypeOK, Window
    <3> QED BY <2>1, <3>1, FindEventsStep
  <2> QED
    BY <1>2, <2>1, ThreadStartStep, ThreadInitStep, ThreadExitStep, EndWaitStep,
       RunCallbackStep, FinishTimeStep, SetRegistryStepStep, FrequencySetStep
       DEF Worker
<1>3. CASE UNCHANGED vars
  BY <1>3 DEF IInv, TypeOK, StepInv, TimeInv, StartInv, DoneInv, ReadyInv, CallInv,
     Booting, Working, Called, CallbacksAt, vars, eventVars, serverVars, threadVars,
     timeVars, workVars, freqVars, cbVars
<1>4. CASE Stopped
  BY <1>3, <1>4 DEF Stopped
<1> QED BY <1>1, <1>2, <1>3, <1>4, SetDomainFrequencyStep DEF Next

\* Under SafeParameters IInv is an invariant of the fuzzy barrier.
THEOREM Inductive == ASSUME SafeParameters PROVE Spec => []IInv
<1>1. Init => IInv
  BY InitInv
<1>2. IInv /\ [Next]_vars => IInv'
  BY NextInv
<1> QED BY <1>1, <1>2, PTL DEF Spec

-----------------------------------------------------------------------------
\* The type invariant, for all values of the constants.
THEOREM TypeCorrect == ASSUME SafeParameters PROVE Spec => []TypeOK
<1>1. IInv => TypeOK
  BY DEF IInv
<1> QED BY <1>1, Inductive, PTL

\* Threads clocking modules concurrently are within the lookahead of each
\* other: both work inside the window that starts at GlobalReadyTime.
THEOREM WithinLookahead == ASSUME SafeParameters PROVE Spec => []ThreadsWithinLookahead
<1>1. ASSUME IInv PROVE ThreadsWithinLookahead
  <2> SUFFICES ASSUME NEW t \in Thread, NEW u \in Thread, Working(t), Working(u),
                      todo[u] # {}
               PROVE  localReadyTime[t] - localReadyTime[u] <= Lookahead
    BY DEF ThreadsWithinLookahead
  <2>1. PICK c \in todo[u] : TRUE
    OBVIOUS
  <2>2. c \in Callback /\ nBaseCycle[cbReg[c]] = localReadyTime[u]
    BY <1>1, <2>1 DEF IInv, ReadyInv, CallbacksAt
  <2>3. GlobalReadyTime <= localReadyTime[u]
    BY <1>1, <2>2, FuzzyConstants DEF IInv, TimeInv
  <2>4. localReadyTime[t] <= GlobalReadyTime + Lookahead
    BY <1>1 DEF IInv, ReadyInv
  <2> QED BY <1>1, <2>3, <2>4, FuzzyConstants DEF IInv, TypeOK
<1> QED BY <1>1, Inductive, PTL

\* A thread never passes over one of its callbacks.
THEOREM LeavesNothingBehind == ASSUME SafeParameters PROVE Spec => []NothingLeftBehind
<1>1. ASSUME IInv PROVE NothingLeftBehind
  <2> SUFFICES ASSUME NEW c \in Callback, Working(cbThread[c]),
                      nBaseCycle[cbReg[c]] < localReadyTime[cbThread[c]]
               PROVE  calls[c] = nCycle[cbReg[c]] + 1
    BY DEF NothingLeftBehind
  <2>1. nBaseCycle[cbReg[c]] <= localDoneTime[cbThread[c]]
    BY <1>1, FuzzyConstants DEF IInv, TypeOK, CallInv
  <2>2. Called(c)
    BY <2>1 DEF Called
  <2> QED BY <1>1, <2>2 DEF IInv, CallInv, Working
<1> QED BY <1>1, Inductive, PTL

\* Workers find nothing to do before the first Clock().
THEOREM IdleFirst == ASSUME SafeParameters PROVE Spec => []IdleUntilFirstClock
<1>1. IInv => IdleUntilFirstClock
  BY DEF IInv, StartInv, IdleUntilFirstClock, Booting
<1> QED BY <1>1, Inductive, PTL

\* A callback in a worker's todo list has not been called for this cycle, and
\* is within the lookahead of every registry.
LEMMA TodoCallback ==
    ASSUME IInv, NEW t \in Thread, Working(t), NEW c \in todo[t]
    PROVE  /\ c \in Callback
           /\ calls[c] = nCycle[cbReg[c]]
           /\ \A r \in Registry : nBaseCycle[cbReg[c]] <= nBaseCycle[r] + Lookahead
<1>1. /\ c \in Callback /\ cbThread[c] = t
      /\ nBaseCycle[cbReg[c]] = localReadyTime[t]
      /\ localDoneTime[t] < localReadyTime[t]
      /\ localReadyTime[t] <= GlobalReadyTime + Lookahead
  BY DEF IInv, ReadyInv, CallbacksAt
<1>2. ~Called(c)
  BY <1>1 DEF IInv, TypeOK, Called
<1>3. calls[c] = nCycle[cbReg[c]]
  BY <1>1, <1>2 DEF IInv, CallInv, Working
<1>4. \A r \in Registry : nBaseCycle[cbReg[c]] <= nBaseCycle[r] + Lookahead
  BY <1>1, FuzzyConstants DEF IInv, TypeOK, TimeInv
<1> QED BY <1>1, <1>3, <1>4

\* The k-th call of every callback is for cycle k - 1.
THEOREM InOrder == ASSUME SafeParameters PROVE Spec => CallbacksInOrder
<1> DEFINE Ordered == \A c \in Callback : calls'[c] = calls[c] + 1 => currentCycle'[c] = calls[c]
<1>1. ASSUME IInv, NEW t \in Thread, NEW c \in Callback, RunCallback(t, c)
      PROVE  Ordered
  <2>1. calls[c] = nCycle[cbReg[c]]
    BY <1>1, TodoCallback DEF RunCallback, Working
  <2>2. currentCycle'[c] = nCycle[cbReg[c]]
    BY <1>1 DEF RunCallback, IInv, TypeOK
  <2>3. \A b \in Callback \ {c} : calls'[b] = calls[b] /\ calls[b] \in Nat
    BY <1>1 DEF RunCallback, IInv, TypeOK
  <2> QED BY <2>1, <2>2, <2>3
<1>2. ASSUME IInv, calls' = calls
      PROVE  Ordered
  BY <1>2 DEF IInv, TypeOK
<1>3. ASSUME IInv, [Next]_vars PROVE [Ordered]_vars
  <2>1. CASE \E t \in Thread, c \in Callback : RunCallback(t, c)
    BY <1>1, <1>3, <2>1
  <2>2. CASE InitClockServer
    BY <1>3, <2>2, FuzzyConstants DEF SafeParameters, IInv, TypeOK, InitClockServer
  <2>3. CASE ~(\E t \in Thread, c \in Callback : RunCallback(t, c)) /\ ~InitClockServer
    <3>1. calls' = calls
      BY <1>3, <2>3 DEF Next, Server, Worker, Stopped, CreatePthread, DestroyPthread,
         PthreadCreated, StopClockServer, PthreadJoined, ClockBegin, ClockEnd,
         ThreadStart, ThreadInit, ThreadExit, EndWait, FindEvents, FinishTime,
         SetDomainFrequency, SetRegistryStep, FrequencySet, vars, cbVars
    <3> QED BY <1>2, <1>3, <3>1
  <2> QED BY <2>1, <2>2, <2>3
<1> QED BY <1>3, Inductive, PTL DEF CallbacksInOrder, Spec

\* The fuzzy barrier implements the contract of a clock server: the advance at
\* the barrier is a tick of the registries due, a callback a worker runs is a
\* call, and every other step leaves the modules' view unchanged.
THEOREM Refinement == ASSUME SafeParameters PROVE Spec => ImplementsContract
<1>1. ASSUME Init PROVE Contract!Init
  <2>1. TypeOK
    BY <1>1, InitInv DEF IInv
  <2> QED BY <1>1, <2>1 DEF Init, TypeOK, Contract!Init
<1>2. ASSUME IInv, NEW t \in Thread, NEW c \in Callback, RunCallback(t, c)
      PROVE  Contract!Next
  <2>1. Contract!Call(c)
    <3>1. /\ calls[c] = nCycle[cbReg[c]]
          /\ \A r \in Registry : nBaseCycle[cbReg[c]] <= nBaseCycle[r] + Lookahead
      BY <1>2, TodoCallback DEF RunCallback, Working
    <3> QED BY <1>2, <3>1 DEF RunCallback, Contract!Call, eventVars
  <2> QED BY <2>1 DEF Contract!Next
<1>3. ASSUME IInv, ClockEnd
      PROVE  Contract!Next
  <2> DEFINE D == Due(GlobalReadyTime)
  <2>1. PICK r \in Registry : nBaseCycle[r] = GlobalReadyTime
    BY <1>3 DEF IInv, TimeInv, ClockEnd
  <2>2. \A q \in Registry : GlobalReadyTime <= nBaseCycle[q]
    BY <1>3 DEF IInv, TimeInv
  <2>3. ASSUME NEW c \in Callback, cbReg[c] \in D
        PROVE  calls[c] = nCycle[cbReg[c]] + 1
    <3>1. nBaseCycle[cbReg[c]] <= localDoneTime[cbThread[c]]
      BY <1>3, <2>3, FuzzyConstants DEF ClockEnd, GlobalDone, Due
    <3>2. Called(c)
      BY <3>1 DEF Called
    <3>3. workerPc[cbThread[c]] # "exited"
      BY <1>3, FuzzyConstants DEF IInv, StartInv, ClockEnd
    <3> QED BY <1>3, <3>2, <3>3 DEF IInv, CallInv
  <2>4. nBaseCycle' \in [Registry -> Nat]
    BY <1>3 DEF IInv, TypeOK, ClockEnd, AdvanceEvents, Due
  <2>5. \A q \in D : nBaseCycle'[q] > GlobalReadyTime
    BY <1>3 DEF IInv, TypeOK, ClockEnd, AdvanceEvents, Due
  <2>6. \A q \in Registry \ D : nBaseCycle'[q] = nBaseCycle[q]
    BY <1>3 DEF ClockEnd, AdvanceEvents
  <2>7. Contract!Tick(GlobalReadyTime)
    BY <1>3, <2>1, <2>2, <2>3, <2>4, <2>5, <2>6
       DEF ClockEnd, AdvanceEvents, Due, Contract!Tick, cbVars
  <2> QED BY <2>1, <2>7 DEF Contract!Next
<1>4. ASSUME IInv, [Next]_vars PROVE [Contract!Next]_(Contract!contractVars)
  <2>1. CASE \E t \in Thread, c \in Callback : RunCallback(t, c)
    BY <1>2, <1>4, <2>1
  <2>2. CASE ClockEnd
    BY <1>3, <1>4, <2>2
  <2>3. CASE InitClockServer
    BY <1>4, <2>3, FuzzyConstants DEF SafeParameters, IInv, TypeOK, InitClockServer
  <2>4. CASE ~(\E t \in Thread, c \in Callback : RunCallback(t, c)) /\ ~ClockEnd /\ ~InitClockServer
    BY <1>4, <2>4 DEF Next, Server, Worker, Stopped, CreatePthread, DestroyPthread,
       PthreadCreated, StopClockServer, PthreadJoined, ClockBegin,
       ThreadStart, ThreadInit, ThreadExit, EndWait, FindEvents, FinishTime,
       SetDomainFrequency, SetRegistryStep, FrequencySet, vars, eventVars, cbVars,
       Contract!contractVars
  <2> QED BY <2>1, <2>2, <2>3, <2>4
<1> QED BY <1>1, <1>4, Inductive, PTL DEF ImplementsContract, Contract!Spec, Spec

-----------------------------------------------------------------------------
(* The basic threaded server: its constants and variables that the fuzzy     *)
(* server has not got.  The barrier separates the clocks, and each variant   *)
(* implements ClockContract, for any threads, registries, callbacks and      *)
(* periods and every combination of its compile-time parameters.             *)

CONSTANTS Variants, VariantRestarts

VARIABLES variant, lClockedEvents, currentBaseCycle, pending, BarrierCount, BarrierCurPhase,
          tasks_completed, barrierPhase, tasks

B == INSTANCE BasicClockServer WITH MaxRestarts <- VariantRestarts

BasicAlive == {"lock", "test", "asleep", "run"}
\* The server has told the worker to run its queue and the worker has not
\* reported yet.
BasicSignalled(t) == IF variant.single THEN barrierPhase[t] # BarrierCurPhase ELSE ~tasks_completed[t]
\* A worker in its loop, and one that has not been created or has been joined.
BasicUp(t) == workerPc[t] \in BasicAlive /\ ~threadForceExit[t]
BasicGone(t) == workerPc[t] \in {"none", "exited"} /\ ~threadActive[t]
BasicStopping == serverPc \in {"force", "stop"}

\* Where a worker is in its life, as far as the server has come in creating or
\* destroying the threads.
BasicLifeOf(t) ==
    /\ serverPc \in {"idle", "failed"} \/ B!InClock => BasicUp(t)
    /\ serverPc = "off" => BasicGone(t)
    /\ serverPc = "create" =>
          IF t \in pending THEN BasicGone(t)
          ELSE /\ ~threadForceExit[t] /\ workerPc[t] \in BasicAlive \cup {"boot"}
               /\ threadActive[t] => workerPc[t] # "boot"
               /\ t # target => workerPc[t] # "boot"
    /\ BasicStopping =>
          IF t \in pending THEN BasicUp(t)
          ELSE IF t = target THEN threadForceExit[t] /\ workerPc[t] \in BasicAlive \cup {"exited"}
          ELSE BasicGone(t)

BasicLifeInv ==
    /\ serverPc = "create" \/ BasicStopping => target \notin pending
    /\ serverPc = "force" => target # NoThread
    /\ serverPc = "off" => target = NoThread
    /\ \A t \in Thread : BasicLifeOf(t)

\* A worker runs only if it is signalled, has a task left only if it is signalled
\* or is about to be, and is signalled only while the server may wait for it.
BasicSignalOf(t) ==
    /\ workerPc[t] = "run" => BasicSignalled(t) /\ ~threadForceExit[t]
    /\ tasks[t] # {} => BasicSignalled(t) \/ serverPc = "flip" \/ (serverPc = "start" /\ t \in pending)
    /\ BasicSignalled(t) =>
          \/ serverPc = "start" /\ t \notin pending
          \/ serverPc \in {"wait", "asleep"} /\ (variant.single \/ t \in pending)
          \/ serverPc = "readd" /\ variant.readds
          \/ BasicStopping /\ t = target /\ (variant.single \/ (serverPc = "stop" /\ workerPc[t] # "exited"))
          \/ (BasicStopping \/ serverPc = "off") /\ t \notin pending /\ variant.single
    /\ serverPc = "force" /\ t = target /\ ~variant.single => workerPc[t] # "exited"
    /\ ~B!InClock => tasks[t] = {}

BasicSignalInv == \A t \in Thread : BasicSignalOf(t)

\* The single counter is the number of workers still signalled.
BasicBarrierInv ==
    /\ serverPc = "flip" => variant.single /\ BarrierCount = Cardinality(Thread)
    /\ variant.single /\ serverPc \in {"start", "flip"} => pending = Thread
    /\ serverPc = "asleep" => ~variant.single
    /\ variant.single /\ (serverPc = "wait" \/ (serverPc = "readd" /\ variant.readds)) =>
          BarrierCount = Cardinality({t \in Thread : BasicSignalled(t)})
    /\ serverPc = "readd" /\ variant.readds => pending = Thread

\* The clocked events are those due at currentBaseCycle, inserted again or not
\* yet, and the queues hold their callbacks only.
BasicEventInv ==
    B!InClock =>
       /\ lClockedEvents # {}
       /\ \A r \in Registry : IF r \in lClockedEvents THEN nBaseCycle[r] >= currentBaseCycle
                                                      ELSE nBaseCycle[r] > currentBaseCycle
       /\ serverPc \in {"start", "flip"} \/ (serverPc \in {"wait", "asleep"} /\ ~variant.readds) =>
             \A r \in lClockedEvents : nBaseCycle[r] = currentBaseCycle
       /\ serverPc \in {"wait", "asleep"} /\ variant.readds =>
             \A r \in lClockedEvents : nBaseCycle[r] > currentBaseCycle
       /\ \A t \in Thread : tasks[t] \subseteq B!CallbacksOf(t, lClockedEvents)

\* The cycles a registry had completed when Clock() was entered; has a callback
\* been called for the next one?
BasicCompleted(r) == IF B!Advanced(r) THEN nCycle[r] - 1 ELSE nCycle[r]
BasicCalled(c) == B!InClock /\ cbReg[c] \in lClockedEvents /\ c \notin tasks[cbThread[c]]
\* Every callback has been called once for each cycle.
BasicCallInv == \A c \in Callback : calls[c] = BasicCompleted(cbReg[c]) + (IF BasicCalled(c) THEN 1 ELSE 0)

BasicIInv == B!TypeOK /\ BasicLifeInv /\ BasicSignalInv /\ BasicBarrierInv /\ BasicEventInv /\ BasicCallInv

-----------------------------------------------------------------------------
(* The steps of the basic server *)

\* The threads of the server are finitely many, and their number is the size
\* of the barrier.
LEMMA FiniteThreads ==
    ASSUME B!BasicConstants
    PROVE  IsFiniteSet(Thread) /\ B!BarrierSize = Cardinality(Thread)
<1>1. \A S : B!Cardinality(S) = Cardinality(S)
  BY DEF B!Cardinality, Cardinality
<1>2. B!IsFiniteSet(Thread) <=> IsFiniteSet(Thread)
  BY DEF B!IsFiniteSet, IsFiniteSet
<1> QED BY <1>1, <1>2 DEF B!BasicConstants, B!BarrierSize

\* A counter that has come down to 0 says that nobody is signalled.
LEMMA NobodySignalled ==
    ASSUME B!BasicConstants,
           BarrierCount = Cardinality({u \in Thread : BasicSignalled(u)}), BarrierCount <= 0
    PROVE  \A u \in Thread : ~BasicSignalled(u)
<1> DEFINE S == {u \in Thread : BasicSignalled(u)}
<1>1. IsFiniteSet(S)
  BY FiniteThreads, FS_Subset
<1> HIDE DEF S
<1>2. Cardinality(S) \in Nat /\ (Cardinality(S) = 0 <=> S = {})
  BY <1>1, FS_CardinalityType, FS_EmptySet
<1>3. Cardinality(S) <= 0
  BY DEF S
<1>4. S = {}
  BY <1>2, <1>3
<1> QED BY <1>4 DEF S

\* When Clock() returns every callback has been called for the new cycle.
LEMMA CompletedAtIdle ==
    ASSUME B!BasicConstants,
           B!TypeOK, BasicCallInv, B!InClock, ~B!InClock', UNCHANGED <<B!regVars, calls>>,
           \A u \in Thread : tasks[u] = {},
           \A q \in lClockedEvents : nBaseCycle[q] > currentBaseCycle
    PROVE  BasicCallInv'
<1>1. ASSUME NEW c \in Callback
      PROVE  calls[c] = nCycle[cbReg[c]]
  <2>1. calls[c] = BasicCompleted(cbReg[c]) + (IF BasicCalled(c) THEN 1 ELSE 0) /\ cbReg[c] \in Registry
        /\ cbThread[c] \in Thread
    BY DEF B!BasicConstants, BasicCallInv
  <2>2. BasicCalled(c) <=> cbReg[c] \in lClockedEvents
    BY <2>1 DEF BasicCalled
  <2>3. nCycle[cbReg[c]] \in Nat
    BY <2>1 DEF B!TypeOK
  <2> QED BY <2>1, <2>2, <2>3 DEF BasicCompleted, B!Advanced
<1>2. \A c \in Callback : BasicCompleted(cbReg[c])' = nCycle[cbReg[c]] /\ ~BasicCalled(c)'
  BY DEF BasicCompleted, B!Advanced, BasicCalled, B!regVars
<1> QED BY <1>1, <1>2 DEF BasicCallInv, B!TypeOK, B!regVars

\* Creating a worker preserves the inductive invariant.
LEMMA BasicCreatePthreadStep ==
    ASSUME B!BasicConstants, BasicIInv, NEW t \in Thread, B!CreatePthread(t)
    PROVE  BasicIInv'
<1> USE DEF BasicIInv, B!CreatePthread, B!regVars, B!barrierVars, B!clockVars, B!flagVars
<1>1. B!TypeOK'
  BY DEF B!TypeOK
<1>2. BasicLifeInv'
  <2>1. NoThread \notin Thread
    BY DEF B!BasicConstants
  <2>2. ASSUME NEW u \in Thread PROVE BasicLifeOf(u)'
    BY <2>1, <2>2 DEF BasicLifeInv, BasicLifeOf, BasicSignalInv, BasicSignalOf, B!TypeOK, BasicAlive,
       BasicUp, BasicGone, BasicStopping, B!InClock
  <2>3. /\ (serverPc = "create" \/ BasicStopping => target \notin pending)'
        /\ (serverPc = "force" => target # NoThread)'
        /\ (serverPc = "off" => target = NoThread)'
    BY <2>1 DEF BasicLifeInv, B!TypeOK, BasicStopping
  <2> QED BY <2>2, <2>3 DEF BasicLifeInv
<1>3. BasicSignalInv'
  BY DEF BasicSignalInv, BasicSignalOf, BasicLifeInv, BasicLifeOf, BasicBarrierInv, B!TypeOK,
     BasicAlive, BasicUp, BasicGone, BasicStopping, BasicSignalled, B!InClock
<1>4. BasicBarrierInv'
  BY DEF BasicBarrierInv, BasicSignalInv, BasicSignalOf, BasicLifeInv, BasicLifeOf, B!TypeOK,
     BasicSignalled, B!InClock, BasicUp, BasicAlive
<1>5. BasicEventInv'
  BY DEF BasicEventInv, B!InClock
<1>6. BasicCallInv'
  BY DEF BasicCallInv, BasicCompleted, BasicCalled, B!Advanced, B!InClock
<1> QED BY <1>1, <1>2, <1>3, <1>4, <1>5, <1>6

\* Seeing a worker active preserves the inductive invariant.
LEMMA BasicPthreadCreatedStep ==
    ASSUME B!BasicConstants, BasicIInv, B!PthreadCreated
    PROVE  BasicIInv'
<1> USE DEF BasicIInv, B!PthreadCreated, B!regVars, B!barrierVars, B!clockVars, B!flagVars
<1>1. B!TypeOK'
  BY DEF B!TypeOK
<1>2. BasicLifeInv'
  <2>1. NoThread \notin Thread
    BY DEF B!BasicConstants
  <2>2. ASSUME NEW u \in Thread PROVE BasicLifeOf(u)'
    BY <2>1, <2>2 DEF BasicLifeInv, BasicLifeOf, BasicSignalInv, BasicSignalOf, B!TypeOK, BasicAlive,
       BasicUp, BasicGone, BasicStopping, B!InClock
  <2>3. /\ (serverPc = "create" \/ BasicStopping => target \notin pending)'
        /\ (serverPc = "force" => target # NoThread)'
        /\ (serverPc = "off" => target = NoThread)'
    BY <2>1 DEF BasicLifeInv, B!TypeOK, BasicStopping
  <2> QED BY <2>2, <2>3 DEF BasicLifeInv
<1>3. BasicSignalInv'
  BY DEF BasicSignalInv, BasicSignalOf, BasicLifeInv, BasicLifeOf, BasicBarrierInv, B!TypeOK,
     BasicAlive, BasicUp, BasicGone, BasicStopping, BasicSignalled, B!InClock
<1>4. BasicBarrierInv'
  BY DEF BasicBarrierInv, BasicSignalInv, BasicSignalOf, BasicLifeInv, BasicLifeOf, B!TypeOK,
     BasicSignalled, B!InClock, BasicUp, BasicAlive
<1>5. BasicEventInv'
  BY DEF BasicEventInv, B!InClock
<1>6. BasicCallInv'
  BY DEF BasicCallInv, BasicCompleted, BasicCalled, B!Advanced, B!InClock
<1> QED BY <1>1, <1>2, <1>3, <1>4, <1>5, <1>6

\* Raising threadForceExit preserves the inductive invariant.
LEMMA BasicDestroyPthreadStep ==
    ASSUME B!BasicConstants, BasicIInv, NEW t \in Thread, B!DestroyPthread(t)
    PROVE  BasicIInv'
<1> USE DEF BasicIInv, B!DestroyPthread, B!regVars, B!barrierVars, B!clockVars, B!flagVars
<1>1. B!TypeOK'
  BY DEF B!TypeOK
<1>2. BasicLifeInv'
  <2>1. NoThread \notin Thread
    BY DEF B!BasicConstants
  <2>2. ASSUME NEW u \in Thread PROVE BasicLifeOf(u)'
    BY <2>1, <2>2 DEF BasicLifeInv, BasicLifeOf, BasicSignalInv, BasicSignalOf, B!TypeOK, BasicAlive,
       BasicUp, BasicGone, BasicStopping, B!InClock
  <2>3. /\ (serverPc = "create" \/ BasicStopping => target \notin pending)'
        /\ (serverPc = "force" => target # NoThread)'
        /\ (serverPc = "off" => target = NoThread)'
    BY <2>1 DEF BasicLifeInv, B!TypeOK, BasicStopping
  <2> QED BY <2>2, <2>3 DEF BasicLifeInv
<1>3. BasicSignalInv'
  <2>1. NoThread \notin Thread
    BY DEF B!BasicConstants
  <2>2. ASSUME NEW u \in Thread PROVE BasicSignalOf(u)'
    BY <2>1, <2>2 DEF BasicSignalInv, BasicSignalOf, BasicLifeInv, BasicLifeOf, B!TypeOK, BasicAlive,
       BasicUp, BasicGone, BasicStopping, BasicSignalled, B!InClock
  <2> QED BY <2>2 DEF BasicSignalInv
<1>4. BasicBarrierInv'
  BY DEF BasicBarrierInv, BasicSignalInv, BasicSignalOf, BasicLifeInv, BasicLifeOf, B!TypeOK,
     BasicSignalled, B!InClock, BasicUp, BasicAlive
<1>5. BasicEventInv'
  BY DEF BasicEventInv, B!InClock
<1>6. BasicCallInv'
  BY DEF BasicCallInv, BasicCompleted, BasicCalled, B!Advanced, B!InClock
<1> QED BY <1>1, <1>2, <1>3, <1>4, <1>5, <1>6

\* Waking the worker that has to exit preserves the inductive invariant.
LEMMA BasicForceExitStep ==
    ASSUME B!BasicConstants, BasicIInv, B!ForceExit
    PROVE  BasicIInv'
<1> USE DEF BasicIInv, B!ForceExit, B!regVars, B!barrierVars, B!clockVars, B!flagVars, B!Wake
<1>1. B!TypeOK'
  BY DEF B!TypeOK
<1>2. BasicLifeInv'
  BY DEF B!BasicConstants, BasicLifeInv, BasicLifeOf, BasicSignalInv, BasicSignalOf, B!TypeOK,
     BasicAlive, BasicUp, BasicGone, BasicStopping, B!InClock
<1>3. BasicSignalInv'
  BY DEF BasicSignalInv, BasicSignalOf, BasicLifeInv, BasicLifeOf, BasicBarrierInv, B!TypeOK,
     BasicAlive, BasicUp, BasicGone, BasicStopping, BasicSignalled, B!InClock
<1>4. BasicBarrierInv'
  BY DEF BasicBarrierInv, BasicSignalInv, BasicSignalOf, BasicLifeInv, BasicLifeOf, B!TypeOK,
     BasicSignalled, B!InClock, BasicUp, BasicAlive
<1>5. BasicEventInv'
  BY DEF BasicEventInv, B!InClock
<1>6. BasicCallInv'
  BY DEF BasicCallInv, BasicCompleted, BasicCalled, B!Advanced, B!InClock
<1> QED BY <1>1, <1>2, <1>3, <1>4, <1>5, <1>6

\* Joining a worker preserves the inductive invariant.
LEMMA BasicPthreadJoinedStep ==
    ASSUME B!BasicConstants, BasicIInv, B!PthreadJoined
    PROVE  BasicIInv'
<1> USE DEF BasicIInv, B!PthreadJoined, B!regVars, B!barrierVars, B!clockVars, B!flagVars
<1>1. B!TypeOK'
  BY DEF B!TypeOK
<1>2. BasicLifeInv'
  <2>1. NoThread \notin Thread
    BY DEF B!BasicConstants
  <2>2. ASSUME NEW u \in Thread PROVE BasicLifeOf(u)'
    BY <2>1, <2>2 DEF BasicLifeInv, BasicLifeOf, BasicSignalInv, BasicSignalOf, B!TypeOK, BasicAlive,
       BasicUp, BasicGone, BasicStopping, B!InClock
  <2>3. /\ (serverPc = "create" \/ BasicStopping => target \notin pending)'
        /\ (serverPc = "force" => target # NoThread)'
        /\ (serverPc = "off" => target = NoThread)'
    BY <2>1 DEF BasicLifeInv, B!TypeOK, BasicStopping
  <2> QED BY <2>2, <2>3 DEF BasicLifeInv
<1>3. BasicSignalInv'
  BY DEF BasicSignalInv, BasicSignalOf, BasicLifeInv, BasicLifeOf, BasicBarrierInv, B!TypeOK,
     BasicAlive, BasicUp, BasicGone, BasicStopping, BasicSignalled, B!InClock
<1>4. BasicBarrierInv'
  BY DEF BasicBarrierInv, BasicSignalInv, BasicSignalOf, BasicLifeInv, BasicLifeOf, B!TypeOK,
     BasicSignalled, B!InClock, BasicUp, BasicAlive
<1>5. BasicEventInv'
  BY DEF BasicEventInv, B!InClock
<1>6. BasicCallInv'
  BY DEF BasicCallInv, BasicCompleted, BasicCalled, B!Advanced, B!InClock
<1> QED BY <1>1, <1>2, <1>3, <1>4, <1>5, <1>6

\* Initialising again preserves the inductive invariant.
LEMMA BasicInitClockServerStep ==
    ASSUME B!BasicConstants, B!SingleSignalOnce, BasicIInv, B!InitClockServer
    PROVE  BasicIInv'
<1> USE DEF BasicIInv, B!InitClockServer, B!regVars, B!barrierVars, B!clockVars, B!flagVars
<1>1. B!TypeOK'
  BY DEF B!TypeOK
<1>2. BasicLifeInv'
  <2>1. NoThread \notin Thread
    BY DEF B!BasicConstants
  <2>2. ASSUME NEW u \in Thread PROVE BasicLifeOf(u)'
    BY <2>1, <2>2 DEF BasicLifeInv, BasicLifeOf, BasicSignalInv, BasicSignalOf, B!TypeOK, BasicAlive,
       BasicUp, BasicGone, BasicStopping, B!InClock
  <2>3. /\ (serverPc = "create" \/ BasicStopping => target \notin pending)'
        /\ (serverPc = "force" => target # NoThread)'
        /\ (serverPc = "off" => target = NoThread)'
    BY <2>1 DEF BasicLifeInv, B!TypeOK, BasicStopping
  <2> QED BY <2>2, <2>3 DEF BasicLifeInv
<1>3. BasicSignalInv'
  <2>1. ~variant.single
    <3>1. CASE variant.single
      BY <3>1 DEF B!SingleSignalOnce, B!TypeOK
    <3> QED BY <3>1
  <2>2. ASSUME NEW u \in Thread PROVE BasicSignalOf(u)'
    BY <2>1, <2>2 DEF BasicSignalInv, BasicSignalOf, BasicLifeInv, BasicLifeOf, B!TypeOK, BasicAlive,
       BasicUp, BasicGone, BasicStopping, BasicSignalled, B!InClock
  <2> QED BY <2>2 DEF BasicSignalInv
<1>4. BasicBarrierInv'
  BY DEF BasicBarrierInv, BasicSignalInv, BasicSignalOf, BasicLifeInv, BasicLifeOf, B!TypeOK,
     BasicSignalled, B!InClock, BasicUp, BasicAlive
<1>5. BasicEventInv'
  BY DEF BasicEventInv, B!InClock
<1>6. BasicCallInv'
  <2>1. \A r \in Registry : BasicCompleted(r)' = 0
    BY DEF BasicCompleted, B!Advanced, B!InClock
  <2>2. \A c \in Callback : calls'[c] = 0 /\ cbReg[c] \in Registry /\ ~BasicCalled(c)'
    BY DEF B!BasicConstants, BasicCalled, B!InClock
  <2> QED BY <2>1, <2>2 DEF BasicCallInv
<1> QED BY <1>1, <1>2, <1>3, <1>4, <1>5, <1>6

\* Popping the events and assigning their callbacks preserves the inductive invariant.
LEMMA BasicPopAndAssignStep ==
    ASSUME B!BasicConstants, BasicIInv, NEW r \in Registry, B!PopAndAssign(nBaseCycle[r])
    PROVE  BasicIInv'
<1> USE DEF BasicIInv, B!PopAndAssign, B!regVars, B!barrierVars, B!clockVars, B!flagVars, B!Earliest
<1>1. B!TypeOK'
  <2>1. \A u \in Thread : B!CallbacksOf(u, lClockedEvents') \subseteq Callback
    BY DEF B!CallbacksOf
  <2>2. tasks' \in [Thread -> SUBSET Callback]
    BY <2>1 DEF B!TypeOK
  <2>3. currentBaseCycle' \in Nat /\ lClockedEvents' \subseteq Registry
    BY DEF B!TypeOK
  <2> QED BY <2>2, <2>3 DEF B!TypeOK
<1>2. BasicLifeInv'
  BY DEF B!BasicConstants, BasicLifeInv, BasicLifeOf, BasicSignalInv, BasicSignalOf, B!TypeOK,
     BasicAlive, BasicUp, BasicGone, BasicStopping, B!InClock
<1>3. BasicSignalInv'
  BY DEF BasicSignalInv, BasicSignalOf, BasicLifeInv, BasicLifeOf, BasicBarrierInv, B!TypeOK,
     BasicAlive, BasicUp, BasicGone, BasicStopping, BasicSignalled, B!InClock
<1>4. BasicBarrierInv'
  BY DEF BasicBarrierInv, BasicSignalInv, BasicSignalOf, BasicLifeInv, BasicLifeOf, B!TypeOK,
     BasicSignalled, B!InClock, BasicUp, BasicAlive
<1>5. BasicEventInv'
  <2>1. /\ r \in lClockedEvents' /\ serverPc' = "start" /\ UNCHANGED nBaseCycle
        /\ \A q \in Registry : /\ nBaseCycle[r] <= nBaseCycle[q] /\ nBaseCycle[q] \in Nat
                              /\ q \in lClockedEvents' <=> nBaseCycle[q] = currentBaseCycle'
        /\ currentBaseCycle' = nBaseCycle[r]
    BY DEF B!TypeOK
  <2>2. \A u \in Thread : tasks'[u] = B!CallbacksOf(u, lClockedEvents')
    BY DEF BasicSignalInv, BasicSignalOf, B!InClock
  <2>3. \A q \in Registry : IF q \in lClockedEvents' THEN nBaseCycle'[q] >= currentBaseCycle'
                                                      ELSE nBaseCycle'[q] > currentBaseCycle'
    <3> TAKE q \in Registry
    <3>1. nBaseCycle[q] \in Nat /\ nBaseCycle[r] \in Nat /\ nBaseCycle[r] <= nBaseCycle[q]
      BY DEF B!TypeOK
    <3>2. (q \in lClockedEvents' <=> nBaseCycle[q] = nBaseCycle[r]) /\ nBaseCycle'[q] = nBaseCycle[q]
      BY <2>1
    <3> HIDE DEF B!PopAndAssign, BasicIInv
    <3> QED BY <2>1, <3>1, <3>2
  <2>4. \A q \in lClockedEvents' : nBaseCycle'[q] = currentBaseCycle'
    BY <2>1
  <2> QED BY <2>1, <2>2, <2>3, <2>4 DEF BasicEventInv, B!InClock
<1>6. BasicCallInv'
  <2>1. /\ \A q \in lClockedEvents' : ~(nBaseCycle'[q] > currentBaseCycle')
        /\ UNCHANGED <<nCycle, calls>> /\ ~B!InClock
    BY DEF B!TypeOK, B!InClock
  <2>2. \A q : BasicCompleted(q)' = nCycle[q] /\ BasicCompleted(q) = nCycle[q]
    BY <2>1 DEF BasicCompleted, B!Advanced
  <2>3. \A c \in Callback : ~BasicCalled(c) /\ ~BasicCalled(c)'
    <3>1. ASSUME NEW c \in Callback, cbReg[c] \in lClockedEvents'
          PROVE  c \in tasks'[cbThread[c]]
      BY <3>1 DEF B!BasicConstants, B!CallbacksOf
    <3> QED BY <2>1, <3>1 DEF BasicCalled
  <2> QED BY <2>1, <2>2, <2>3 DEF BasicCallInv
<1> QED BY <1>1, <1>2, <1>3, <1>4, <1>5, <1>6

\* Reading the front of an empty list preserves the inductive invariant.
LEMMA BasicFrontOfEmptyStep ==
    ASSUME B!BasicConstants, BasicIInv, B!FrontOfEmpty
    PROVE  BasicIInv'
<1> USE DEF BasicIInv, B!FrontOfEmpty, B!regVars, B!barrierVars, B!clockVars, B!flagVars
<1>1. B!TypeOK'
  BY DEF B!TypeOK
<1>2. BasicLifeInv'
  BY DEF B!BasicConstants, BasicLifeInv, BasicLifeOf, BasicSignalInv, BasicSignalOf, B!TypeOK,
     BasicAlive, BasicUp, BasicGone, BasicStopping, B!InClock
<1>3. BasicSignalInv'
  BY DEF BasicSignalInv, BasicSignalOf, BasicLifeInv, BasicLifeOf, BasicBarrierInv, B!TypeOK,
     BasicAlive, BasicUp, BasicGone, BasicStopping, BasicSignalled, B!InClock
<1>4. BasicBarrierInv'
  BY DEF BasicBarrierInv, BasicSignalInv, BasicSignalOf, BasicLifeInv, BasicLifeOf, B!TypeOK,
     BasicSignalled, B!InClock, BasicUp, BasicAlive
<1>5. BasicEventInv'
  BY DEF BasicEventInv, B!InClock
<1>6. BasicCallInv'
  BY DEF BasicCallInv, BasicCompleted, BasicCalled, B!Advanced, B!InClock
<1> QED BY <1>1, <1>2, <1>3, <1>4, <1>5, <1>6

\* Signalling one worker preserves the inductive invariant.
LEMMA BasicPerformTasksThreadedStep ==
    ASSUME B!BasicConstants, BasicIInv, NEW t \in Thread, B!PerformTasksThreaded(t)
    PROVE  BasicIInv'
<1> USE DEF BasicIInv, B!PerformTasksThreaded, B!regVars, B!barrierVars, B!clockVars, B!flagVars,
   B!Wake, B!NothingToRun, B!AfterStart
<1>1. B!TypeOK'
  BY DEF B!TypeOK
<1>2. BasicLifeInv'
  BY DEF B!BasicConstants, BasicLifeInv, BasicLifeOf, BasicSignalInv, BasicSignalOf, B!TypeOK,
     BasicAlive, BasicUp, BasicGone, BasicStopping, B!InClock
<1>3. BasicSignalInv'
  BY DEF BasicSignalInv, BasicSignalOf, BasicLifeInv, BasicLifeOf, BasicBarrierInv, B!TypeOK,
     BasicAlive, BasicUp, BasicGone, BasicStopping, BasicSignalled, B!InClock
<1>4. BasicBarrierInv'
  BY DEF BasicBarrierInv, BasicSignalInv, BasicSignalOf, BasicLifeInv, BasicLifeOf, B!TypeOK,
     BasicSignalled, B!InClock, BasicUp, BasicAlive
<1>5. BasicEventInv'
  BY DEF BasicEventInv, B!InClock
<1>6. BasicCallInv'
  BY DEF BasicCallInv, BasicCompleted, BasicCalled, B!Advanced, B!InClock
<1> QED BY <1>1, <1>2, <1>3, <1>4, <1>5, <1>6

\* Setting the single counter preserves the inductive invariant.
LEMMA BasicSetBarrierCountStep ==
    ASSUME B!BasicConstants, BasicIInv, B!SetBarrierCount
    PROVE  BasicIInv'
<1> USE DEF BasicIInv, B!SetBarrierCount, B!regVars, B!barrierVars, B!clockVars, B!flagVars
<1>1. B!TypeOK'
  <2>1. B!BarrierSize \in Int
    BY FiniteThreads, FS_CardinalityType
  <2> QED BY <2>1 DEF B!TypeOK
<1>2. BasicLifeInv'
  BY DEF B!BasicConstants, BasicLifeInv, BasicLifeOf, BasicSignalInv, BasicSignalOf, B!TypeOK,
     BasicAlive, BasicUp, BasicGone, BasicStopping, B!InClock
<1>3. BasicSignalInv'
  BY DEF BasicSignalInv, BasicSignalOf, BasicLifeInv, BasicLifeOf, BasicBarrierInv, B!TypeOK,
     BasicAlive, BasicUp, BasicGone, BasicStopping, BasicSignalled, B!InClock
<1>4. BasicBarrierInv'
  BY FiniteThreads DEF BasicBarrierInv, BasicSignalInv, BasicSignalOf, BasicLifeInv, BasicLifeOf,
     B!TypeOK, BasicSignalled, B!InClock, BasicUp, BasicAlive
<1>5. BasicEventInv'
  BY DEF BasicEventInv, B!InClock
<1>6. BasicCallInv'
  BY DEF BasicCallInv, BasicCompleted, BasicCalled, B!Advanced, B!InClock
<1> QED BY <1>1, <1>2, <1>3, <1>4, <1>5, <1>6

\* Flipping the single phase preserves the inductive invariant.
LEMMA BasicFlipPhaseStep ==
    ASSUME B!BasicConstants, BasicIInv, B!FlipPhase
    PROVE  BasicIInv'
<1> USE DEF BasicIInv, B!FlipPhase, B!regVars, B!barrierVars, B!clockVars, B!flagVars, B!AfterStart
<1>1. B!TypeOK'
  BY DEF B!TypeOK
<1>2. BasicLifeInv'
  BY DEF B!BasicConstants, BasicLifeInv, BasicLifeOf, BasicSignalInv, BasicSignalOf, B!TypeOK,
     BasicAlive, BasicUp, BasicGone, BasicStopping, B!InClock
<1>3. BasicSignalInv'
  BY DEF BasicSignalInv, BasicSignalOf, BasicLifeInv, BasicLifeOf, BasicBarrierInv, B!TypeOK,
     BasicAlive, BasicUp, BasicGone, BasicStopping, BasicSignalled, B!InClock
<1>4. BasicBarrierInv'
  <2>1. variant.single /\ \A u \in Thread : barrierPhase[u] = BarrierCurPhase
    BY DEF BasicBarrierInv, BasicSignalInv, BasicSignalOf, BasicSignalled, BasicStopping, B!InClock
  <2>2. {u \in Thread : BasicSignalled(u)'} = Thread
    BY <2>1 DEF BasicSignalled, B!TypeOK
  <2> QED BY <2>1, <2>2 DEF BasicBarrierInv
<1>5. BasicEventInv'
  BY DEF BasicEventInv, B!InClock
<1>6. BasicCallInv'
  BY DEF BasicCallInv, BasicCompleted, BasicCalled, B!Advanced, B!InClock
<1> QED BY <1>1, <1>2, <1>3, <1>4, <1>5, <1>6

\* Looking at a worker's flag preserves the inductive invariant.
LEMMA BasicCheckAllTasksCompletedStep ==
    ASSUME B!BasicConstants, BasicIInv, NEW t \in Thread, B!CheckAllTasksCompleted(t)
    PROVE  BasicIInv'
<1> USE DEF BasicIInv, B!CheckAllTasksCompleted, B!regVars, B!barrierVars, B!clockVars, B!flagVars
<1>1. B!TypeOK'
  BY DEF B!TypeOK
<1>2. BasicLifeInv'
  BY DEF B!BasicConstants, BasicLifeInv, BasicLifeOf, BasicSignalInv, BasicSignalOf, B!TypeOK,
     BasicAlive, BasicUp, BasicGone, BasicStopping, B!InClock
<1>3. BasicSignalInv'
  BY DEF BasicSignalInv, BasicSignalOf, BasicLifeInv, BasicLifeOf, BasicBarrierInv, B!TypeOK,
     BasicAlive, BasicUp, BasicGone, BasicStopping, BasicSignalled, B!InClock
<1>4. BasicBarrierInv'
  BY DEF BasicBarrierInv, BasicSignalInv, BasicSignalOf, BasicLifeInv, BasicLifeOf, B!TypeOK,
     BasicSignalled, B!InClock, BasicUp, BasicAlive
<1>5. BasicEventInv'
  BY DEF BasicEventInv, B!InClock
<1>6. BasicCallInv'
  <2>1. CASE serverPc' # "idle"
    <3>1. B!InClock /\ B!InClock'
      BY <2>1 DEF B!InClock
    <3> QED BY <3>1 DEF BasicCallInv, BasicCompleted, BasicCalled, B!Advanced
  <2>2. CASE serverPc' = "idle"
    <3>1. variant.readds /\ \A u \in Thread : tasks[u] = {}
      BY <2>2 DEF BasicSignalInv, BasicSignalOf, BasicSignalled, BasicStopping, B!InClock, B!TypeOK
    <3> QED BY <2>2, <3>1, CompletedAtIdle DEF B!InClock, BasicEventInv
  <2> QED BY <2>1, <2>2
<1> QED BY <1>1, <1>2, <1>3, <1>4, <1>5, <1>6

\* Seeing the counter at 0 preserves the inductive invariant.
LEMMA BasicBarrierEmptyStep ==
    ASSUME B!BasicConstants, BasicIInv, B!BarrierEmpty
    PROVE  BasicIInv'
<1> USE DEF BasicIInv, B!BarrierEmpty, B!regVars, B!barrierVars, B!clockVars, B!flagVars
<1>1. B!TypeOK'
  BY DEF B!TypeOK
<1>2. BasicLifeInv'
  BY DEF B!BasicConstants, BasicLifeInv, BasicLifeOf, BasicSignalInv, BasicSignalOf, B!TypeOK,
     BasicAlive, BasicUp, BasicGone, BasicStopping, B!InClock
<1>3. BasicSignalInv'
  <2>1. \A u \in Thread : ~BasicSignalled(u)
    BY NobodySignalled DEF BasicBarrierInv
  <2>2. ASSUME NEW u \in Thread PROVE BasicSignalOf(u)'
    BY <2>1, <2>2 DEF BasicSignalInv, BasicSignalOf, BasicSignalled, BasicStopping, B!InClock
  <2> QED BY <2>2 DEF BasicSignalInv
<1>4. BasicBarrierInv'
  BY DEF BasicBarrierInv, BasicSignalInv, BasicSignalOf, BasicLifeInv, BasicLifeOf, B!TypeOK,
     BasicSignalled, B!InClock, BasicUp, BasicAlive
<1>5. BasicEventInv'
  BY DEF BasicEventInv, B!InClock
<1>6. BasicCallInv'
  <2>1. CASE serverPc' # "idle"
    <3>1. B!InClock /\ B!InClock'
      BY <2>1 DEF B!InClock
    <3> QED BY <3>1 DEF BasicCallInv, BasicCompleted, BasicCalled, B!Advanced
  <2>2. CASE serverPc' = "idle"
    <3>1. variant.readds /\ \A u \in Thread : tasks[u] = {}
      BY <2>2, NobodySignalled DEF BasicSignalInv, BasicSignalOf, BasicBarrierInv
    <3> QED BY <2>2, <3>1, CompletedAtIdle DEF B!InClock, BasicEventInv
  <2> QED BY <2>1, <2>2
<1> QED BY <1>1, <1>2, <1>3, <1>4, <1>5, <1>6

\* Inserting an event again preserves the inductive invariant.
LEMMA BasicReAddEventStep ==
    ASSUME B!BasicConstants, BasicIInv, NEW r \in Registry, B!ReAddEvent(r)
    PROVE  BasicIInv'
<1> USE DEF BasicIInv, B!ReAddEvent, B!regVars, B!barrierVars, B!clockVars, B!flagVars
<1>1. B!TypeOK'
  BY DEF B!TypeOK
<1>2. BasicLifeInv'
  BY DEF B!BasicConstants, BasicLifeInv, BasicLifeOf, BasicSignalInv, BasicSignalOf, B!TypeOK,
     BasicAlive, BasicUp, BasicGone, BasicStopping, B!InClock
<1>3. BasicSignalInv'
  BY DEF BasicSignalInv, BasicSignalOf, BasicLifeInv, BasicLifeOf, BasicBarrierInv, B!TypeOK,
     BasicAlive, BasicUp, BasicGone, BasicStopping, BasicSignalled, B!InClock
<1>4. BasicBarrierInv'
  BY DEF BasicBarrierInv, BasicSignalInv, BasicSignalOf, BasicLifeInv, BasicLifeOf, B!TypeOK,
     BasicSignalled, B!InClock, BasicUp, BasicAlive
<1>5. BasicEventInv'
  <2>1. /\ nBaseCycle'[r] > currentBaseCycle
        /\ \A q \in Registry \ {r} : nBaseCycle'[q] = nBaseCycle[q]
    BY DEF B!TypeOK
  <2>2. /\ lClockedEvents # {} /\ \A u \in Thread : tasks[u] \subseteq B!CallbacksOf(u, lClockedEvents)
        /\ \A q \in Registry : IF q \in lClockedEvents THEN nBaseCycle[q] >= currentBaseCycle
                                                         ELSE nBaseCycle[q] > currentBaseCycle
    BY DEF BasicEventInv, B!InClock
  <2>3. \A q \in Registry : IF q \in lClockedEvents THEN nBaseCycle'[q] >= currentBaseCycle
                                                      ELSE nBaseCycle'[q] > currentBaseCycle
    BY <2>1, <2>2 DEF B!TypeOK
  <2>4. serverPc' = "wait" => variant.readds /\ \A q \in lClockedEvents : nBaseCycle'[q] > currentBaseCycle
    <3>1. ASSUME serverPc' = "wait", NEW q \in lClockedEvents, q # r
          PROVE  nBaseCycle[q] # currentBaseCycle
      BY <3>1 DEF B!TypeOK
    <3>2. ASSUME serverPc' = "wait", NEW q \in lClockedEvents
          PROVE  nBaseCycle'[q] > currentBaseCycle
      <4>1. q \in Registry /\ nBaseCycle[q] \in Nat /\ currentBaseCycle \in Nat
        BY DEF B!TypeOK
      <4>2. nBaseCycle[q] >= currentBaseCycle
        BY <2>2, <4>1
      <4>3. CASE q # r
        <5>1. nBaseCycle[q] # currentBaseCycle /\ nBaseCycle'[q] = nBaseCycle[q]
          BY <3>1, <3>2, <2>1, <4>1, <4>3
        <5> HIDE DEF B!ReAddEvent, BasicIInv
        <5> QED BY <4>1, <4>2, <5>1
      <4> QED BY <2>1, <4>3
    <3> QED BY <3>2
  <2>5. serverPc' \in {"readd", "wait", "idle"} /\ UNCHANGED <<lClockedEvents, currentBaseCycle, tasks, variant>>
    OBVIOUS
  <2> QED BY <2>2, <2>3, <2>4, <2>5 DEF BasicEventInv, B!InClock
<1>6. BasicCallInv'
  <2>1. /\ nBaseCycle'[r] > currentBaseCycle /\ nCycle'[r] = nCycle[r] + 1 /\ nCycle[r] \in Nat
        /\ \A q \in Registry \ {r} : nBaseCycle'[q] = nBaseCycle[q] /\ nCycle'[q] = nCycle[q]
        /\ B!InClock /\ ~(nBaseCycle[r] > currentBaseCycle)
    BY DEF B!TypeOK, B!InClock
  <2>2. CASE serverPc' # "idle"
    <3>1. B!InClock'
      BY <2>2 DEF B!InClock
    <3>2. \A q \in Registry : BasicCompleted(q)' = BasicCompleted(q)
      BY <2>1, <3>1 DEF BasicCompleted, B!Advanced
    <3>3. \A c \in Callback : BasicCalled(c)' <=> BasicCalled(c)
      BY <2>1, <3>1 DEF BasicCalled
    <3> QED BY <3>2, <3>3 DEF B!BasicConstants, BasicCallInv
  <2>3. CASE serverPc' = "idle"
    <3>1. ~B!InClock' /\ ~variant.readds /\ \A q \in lClockedEvents : nBaseCycle'[q] > currentBaseCycle
      BY <2>1, <2>3 DEF B!InClock, BasicEventInv, B!TypeOK
    <3>2. \A u \in Thread : tasks[u] = {}
      BY <3>1 DEF BasicSignalInv, BasicSignalOf, BasicStopping, B!InClock
    <3>3. ASSUME NEW c \in Callback
          PROVE  calls[c] = nCycle'[cbReg[c]]
      <4>1. calls[c] = BasicCompleted(cbReg[c]) + (IF BasicCalled(c) THEN 1 ELSE 0) /\ cbReg[c] \in Registry
            /\ cbThread[c] \in Thread
        BY DEF B!BasicConstants, BasicCallInv
      <4>2. BasicCalled(c) <=> cbReg[c] \in lClockedEvents
        BY <2>1, <3>2, <4>1 DEF BasicCalled
      <4>3. cbReg[c] \in lClockedEvents => nCycle'[cbReg[c]] = BasicCompleted(cbReg[c]) + 1
        BY <2>1, <3>1, <4>1 DEF BasicCompleted, B!Advanced, B!TypeOK
      <4>4. cbReg[c] \notin lClockedEvents => nCycle'[cbReg[c]] = BasicCompleted(cbReg[c])
        BY <2>1, <4>1 DEF BasicCompleted, B!Advanced
      <4> QED BY <4>1, <4>2, <4>3, <4>4, <2>1 DEF B!TypeOK, BasicCompleted
    <3>4. \A c \in Callback : BasicCompleted(cbReg[c])' = nCycle'[cbReg[c]] /\ ~BasicCalled(c)'
      BY <3>1 DEF BasicCompleted, B!Advanced, BasicCalled
    <3> QED BY <3>3, <3>4 DEF BasicCallInv, B!TypeOK
  <2> QED BY <2>2, <2>3
<1> QED BY <1>1, <1>2, <1>3, <1>4, <1>5, <1>6

\* A worker's start preserves the inductive invariant.
LEMMA BasicThreadStartStep ==
    ASSUME B!BasicConstants, BasicIInv, NEW t \in Thread, B!ThreadStart(t)
    PROVE  BasicIInv'
<1> USE DEF BasicIInv, B!ThreadStart, B!regVars, B!barrierVars, B!clockVars, B!flagVars
<1>1. B!TypeOK'
  BY DEF B!TypeOK
<1>2. BasicLifeInv'
  BY DEF B!BasicConstants, BasicLifeInv, BasicLifeOf, BasicSignalInv, BasicSignalOf, B!TypeOK,
     BasicAlive, BasicUp, BasicGone, BasicStopping, B!InClock
<1>3. BasicSignalInv'
  BY DEF BasicSignalInv, BasicSignalOf, BasicLifeInv, BasicLifeOf, BasicBarrierInv, B!TypeOK,
     BasicAlive, BasicUp, BasicGone, BasicStopping, BasicSignalled, B!InClock
<1>4. BasicBarrierInv'
  BY DEF BasicBarrierInv, BasicSignalInv, BasicSignalOf, BasicLifeInv, BasicLifeOf, B!TypeOK,
     BasicSignalled, B!InClock, BasicUp, BasicAlive
<1>5. BasicEventInv'
  BY DEF BasicEventInv, B!InClock
<1>6. BasicCallInv'
  BY DEF BasicCallInv, BasicCompleted, BasicCalled, B!Advanced, B!InClock
<1> QED BY <1>1, <1>2, <1>3, <1>4, <1>5, <1>6

\* Locking a queue preserves the inductive invariant.
LEMMA BasicLockTaskListStep ==
    ASSUME B!BasicConstants, BasicIInv, NEW t \in Thread, B!LockTaskList(t)
    PROVE  BasicIInv'
<1> USE DEF BasicIInv, B!LockTaskList, B!regVars, B!barrierVars, B!clockVars, B!flagVars
<1>1. B!TypeOK'
  BY DEF B!TypeOK
<1>2. BasicLifeInv'
  BY DEF B!BasicConstants, BasicLifeInv, BasicLifeOf, BasicSignalInv, BasicSignalOf, B!TypeOK,
     BasicAlive, BasicUp, BasicGone, BasicStopping, B!InClock
<1>3. BasicSignalInv'
  BY DEF BasicSignalInv, BasicSignalOf, BasicLifeInv, BasicLifeOf, BasicBarrierInv, B!TypeOK,
     BasicAlive, BasicUp, BasicGone, BasicStopping, BasicSignalled, B!InClock
<1>4. BasicBarrierInv'
  BY DEF BasicBarrierInv, BasicSignalInv, BasicSignalOf, BasicLifeInv, BasicLifeOf, B!TypeOK,
     BasicSignalled, B!InClock, BasicUp, BasicAlive
<1>5. BasicEventInv'
  BY DEF BasicEventInv, B!InClock
<1>6. BasicCallInv'
  BY DEF BasicCallInv, BasicCompleted, BasicCalled, B!Advanced, B!InClock
<1> QED BY <1>1, <1>2, <1>3, <1>4, <1>5, <1>6

\* Going to sleep preserves the inductive invariant.
LEMMA BasicWaitForWorkStep ==
    ASSUME B!BasicConstants, BasicIInv, NEW t \in Thread, B!WaitForWork(t)
    PROVE  BasicIInv'
<1> USE DEF BasicIInv, B!WaitForWork, B!regVars, B!barrierVars, B!clockVars, B!flagVars, B!MustWait
<1>1. B!TypeOK'
  BY DEF B!TypeOK
<1>2. BasicLifeInv'
  BY DEF B!BasicConstants, BasicLifeInv, BasicLifeOf, BasicSignalInv, BasicSignalOf, B!TypeOK,
     BasicAlive, BasicUp, BasicGone, BasicStopping, B!InClock
<1>3. BasicSignalInv'
  BY DEF BasicSignalInv, BasicSignalOf, BasicLifeInv, BasicLifeOf, BasicBarrierInv, B!TypeOK,
     BasicAlive, BasicUp, BasicGone, BasicStopping, BasicSignalled, B!InClock
<1>4. BasicBarrierInv'
  BY DEF BasicBarrierInv, BasicSignalInv, BasicSignalOf, BasicLifeInv, BasicLifeOf, B!TypeOK,
     BasicSignalled, B!InClock, BasicUp, BasicAlive
<1>5. BasicEventInv'
  BY DEF BasicEventInv, B!InClock
<1>6. BasicCallInv'
  BY DEF BasicCallInv, BasicCompleted, BasicCalled, B!Advanced, B!InClock
<1> QED BY <1>1, <1>2, <1>3, <1>4, <1>5, <1>6

\* A worker's exit preserves the inductive invariant.
LEMMA BasicThreadExitStep ==
    ASSUME B!BasicConstants, BasicIInv, NEW t \in Thread, B!ThreadExit(t)
    PROVE  BasicIInv'
<1> USE DEF BasicIInv, B!ThreadExit, B!regVars, B!barrierVars, B!clockVars, B!flagVars, B!MustWait,
   B!NotifyDone
<1>1. B!TypeOK'
  <2>1. tasks_completed' \in [Thread -> BOOLEAN] /\ barrierPhase' \in [Thread -> BOOLEAN]
    BY DEF B!TypeOK
  <2>2. BarrierCount' \in Int /\ target' \in Thread \cup {NoThread}
    BY DEF B!TypeOK
  <2>3. workerPc' \in [Thread -> {"none", "boot", "lock", "test", "asleep", "run", "exited"}]
    BY DEF B!TypeOK
  <2> QED BY <2>1, <2>2, <2>3 DEF B!TypeOK
<1>2. BasicLifeInv'
  BY DEF B!BasicConstants, BasicLifeInv, BasicLifeOf, BasicSignalInv, BasicSignalOf, B!TypeOK,
     BasicAlive, BasicUp, BasicGone, BasicStopping, B!InClock
<1>3. BasicSignalInv'
  BY DEF BasicSignalInv, BasicSignalOf, BasicLifeInv, BasicLifeOf, BasicBarrierInv, B!TypeOK,
     BasicAlive, BasicUp, BasicGone, BasicStopping, BasicSignalled, B!InClock
<1>4. BasicBarrierInv'
  BY DEF BasicBarrierInv, BasicSignalInv, BasicSignalOf, BasicLifeInv, BasicLifeOf, B!TypeOK,
     BasicSignalled, B!InClock, BasicUp, BasicAlive
<1>5. BasicEventInv'
  BY DEF BasicEventInv, B!InClock
<1>6. BasicCallInv'
  BY DEF BasicCallInv, BasicCompleted, BasicCalled, B!Advanced, B!InClock
<1> QED BY <1>1, <1>2, <1>3, <1>4, <1>5, <1>6

\* Beginning a queue preserves the inductive invariant.
LEMMA BasicStartTasksStep ==
    ASSUME B!BasicConstants, BasicIInv, NEW t \in Thread, B!StartTasks(t)
    PROVE  BasicIInv'
<1> USE DEF BasicIInv, B!StartTasks, B!regVars, B!barrierVars, B!clockVars, B!flagVars, B!MustWait
<1>1. B!TypeOK'
  BY DEF B!TypeOK
<1>2. BasicLifeInv'
  BY DEF B!BasicConstants, BasicLifeInv, BasicLifeOf, BasicSignalInv, BasicSignalOf, B!TypeOK,
     BasicAlive, BasicUp, BasicGone, BasicStopping, B!InClock
<1>3. BasicSignalInv'
  BY DEF BasicSignalInv, BasicSignalOf, BasicLifeInv, BasicLifeOf, BasicBarrierInv, B!TypeOK,
     BasicAlive, BasicUp, BasicGone, BasicStopping, BasicSignalled, B!InClock
<1>4. BasicBarrierInv'
  BY DEF BasicBarrierInv, BasicSignalInv, BasicSignalOf, BasicLifeInv, BasicLifeOf, B!TypeOK,
     BasicSignalled, B!InClock, BasicUp, BasicAlive
<1>5. BasicEventInv'
  BY DEF BasicEventInv, B!InClock
<1>6. BasicCallInv'
  BY DEF BasicCallInv, BasicCompleted, BasicCalled, B!Advanced, B!InClock
<1> QED BY <1>1, <1>2, <1>3, <1>4, <1>5, <1>6

\* Running a work item preserves the inductive invariant.
LEMMA BasicRunTaskStep ==
    ASSUME B!BasicConstants, BasicIInv, NEW t \in Thread, NEW c \in Callback, NEW d \in Domain, NEW s \in Steps[d], B!RunTask(t, c, d, s)
    PROVE  BasicIInv'
<1> USE DEF BasicIInv, B!RunTask, B!regVars, B!barrierVars, B!clockVars, B!flagVars
<1>1. B!TypeOK'
  <2>1. s \in Nat \ {0}
    BY DEF B!BasicConstants
  <2>2. nStep' \in [Registry -> Nat \ {0}]
    BY <2>1 DEF B!TypeOK
  <2>3. tasks' \in [Thread -> SUBSET Callback] /\ calls' \in [Callback -> Nat]
    BY DEF B!TypeOK
  <2> QED BY <2>2, <2>3 DEF B!TypeOK
<1>2. BasicLifeInv'
  BY DEF B!BasicConstants, BasicLifeInv, BasicLifeOf, BasicSignalInv, BasicSignalOf, B!TypeOK,
     BasicAlive, BasicUp, BasicGone, BasicStopping, B!InClock
<1>3. BasicSignalInv'
  BY DEF BasicSignalInv, BasicSignalOf, BasicLifeInv, BasicLifeOf, BasicBarrierInv, B!TypeOK,
     BasicAlive, BasicUp, BasicGone, BasicStopping, BasicSignalled, B!InClock
<1>4. BasicBarrierInv'
  BY DEF BasicBarrierInv, BasicSignalInv, BasicSignalOf, BasicLifeInv, BasicLifeOf, B!TypeOK,
     BasicSignalled, B!InClock, BasicUp, BasicAlive
<1>5. BasicEventInv'
  BY DEF BasicEventInv, B!InClock
<1>6. BasicCallInv'
  <2>1. B!InClock /\ cbThread[c] = t /\ cbReg[c] \in lClockedEvents
    BY DEF BasicSignalInv, BasicSignalOf, BasicEventInv, B!CallbacksOf
  <2>2. \A q : BasicCompleted(q)' = BasicCompleted(q)
    BY DEF BasicCompleted, B!Advanced, B!InClock
  <2>3. ~BasicCalled(c) /\ BasicCalled(c)' /\ calls'[c] = calls[c] + 1 /\ calls[c] \in Nat
    BY <2>1 DEF BasicCalled, B!TypeOK, B!InClock
  <2>4. \A e \in Callback \ {c} : calls'[e] = calls[e] /\ (BasicCalled(e)' <=> BasicCalled(e))
    BY <2>1 DEF B!BasicConstants, BasicCalled, B!TypeOK, B!InClock
  <2>5. ASSUME NEW e \in Callback
        PROVE  calls'[e] = BasicCompleted(cbReg[e])' + (IF BasicCalled(e)' THEN 1 ELSE 0)
    <3>1. calls[e] = BasicCompleted(cbReg[e]) + (IF BasicCalled(e) THEN 1 ELSE 0)
      BY DEF BasicCallInv
    <3>2. BasicCompleted(cbReg[e]) \in Int
      <4>1. cbReg[e] \in Registry
        BY DEF B!BasicConstants
      <4>2. nCycle[cbReg[e]] \in Nat
        BY <4>1 DEF B!TypeOK
      <4> QED BY <4>2 DEF BasicCompleted
    <3> HIDE DEF B!RunTask, BasicIInv
    <3>3. CASE e = c
      BY <2>2, <2>3, <3>1, <3>2, <3>3
    <3>4. CASE e # c
      BY <2>2, <2>4, <3>1, <3>4
    <3> QED BY <3>3, <3>4
  <2> QED BY <2>5 DEF BasicCallInv
<1> QED BY <1>1, <1>2, <1>3, <1>4, <1>5, <1>6

\* Reporting an empty queue preserves the inductive invariant.
LEMMA BasicFinishTasksStep ==
    ASSUME B!BasicConstants, BasicIInv, NEW t \in Thread, B!FinishTasks(t)
    PROVE  BasicIInv'
<1> USE DEF BasicIInv, B!FinishTasks, B!regVars, B!barrierVars, B!clockVars, B!flagVars, B!NotifyDone,
   B!TasksDone
<1>1. B!TypeOK'
  <2>1. tasks_completed' \in [Thread -> BOOLEAN] /\ barrierPhase' \in [Thread -> BOOLEAN]
    BY DEF B!TypeOK
  <2>2. BarrierCount' \in Int /\ target' \in Thread \cup {NoThread}
    BY DEF B!TypeOK
  <2>3. workerPc' \in [Thread -> {"none", "boot", "lock", "test", "asleep", "run", "exited"}]
    BY DEF B!TypeOK
  <2> QED BY <2>1, <2>2, <2>3 DEF B!TypeOK
<1>2. BasicLifeInv'
  BY DEF B!BasicConstants, BasicLifeInv, BasicLifeOf, BasicSignalInv, BasicSignalOf, B!TypeOK,
     BasicAlive, BasicUp, BasicGone, BasicStopping, B!InClock
<1>3. BasicSignalInv'
  BY DEF BasicSignalInv, BasicSignalOf, BasicLifeInv, BasicLifeOf, BasicBarrierInv, B!TypeOK,
     BasicAlive, BasicUp, BasicGone, BasicStopping, BasicSignalled, B!InClock
<1>4. BasicBarrierInv'
  <2>1. CASE ~variant.single
    BY <2>1 DEF BasicBarrierInv, BasicSignalled
  <2>2. CASE variant.single
    <3>1. {u \in Thread : BasicSignalled(u)'} = {u \in Thread : BasicSignalled(u)} \ {t}
      BY <2>2 DEF BasicSignalled, B!TypeOK, BasicSignalInv, BasicSignalOf
    <3>2. t \in {u \in Thread : BasicSignalled(u)} /\ serverPc' = serverPc
      BY <2>2 DEF BasicSignalInv, BasicSignalOf, BasicBarrierInv
    <3>3. IsFiniteSet({u \in Thread : BasicSignalled(u)})
      BY FiniteThreads, FS_Subset
    <3>4. Cardinality({u \in Thread : BasicSignalled(u)'}) = Cardinality({u \in Thread : BasicSignalled(u)}) - 1
      <4>1. PICK S : S = {u \in Thread : BasicSignalled(u)} /\ IsFiniteSet(S) /\ t \in S
        BY <3>2, <3>3
      <4>2. Cardinality(S \ {t}) = Cardinality(S) - 1
        BY ONLY <4>1, FS_RemoveElement
      <4> QED BY ONLY <3>1, <4>1, <4>2
    <3>5. serverPc # "flip"
      BY <3>2 DEF BasicSignalInv, BasicSignalOf, B!InClock, BasicStopping
    <3> QED BY <2>2, <3>2, <3>4, <3>5 DEF BasicBarrierInv
  <2> QED BY <2>1, <2>2
<1>5. BasicEventInv'
  BY DEF BasicEventInv, B!InClock
<1>6. BasicCallInv'
  BY DEF BasicCallInv, BasicCompleted, BasicCalled, B!Advanced, B!InClock
<1> QED BY <1>1, <1>2, <1>3, <1>4, <1>5, <1>6

-----------------------------------------------------------------------------
(* The theorems about the basic server *)

\* The server starts with no event in flight and no worker signalled.
LEMMA BasicInitInv ==
    ASSUME B!BasicConstants
    PROVE  B!Init => BasicIInv
<1> SUFFICES ASSUME B!Init PROVE BasicIInv
  OBVIOUS
<1> USE DEF B!Init
<1>1. B!TypeOK
  <2>1. nStep \in [Registry -> Nat \ {0}]
    <3>1. ASSUME NEW r \in Registry PROVE InitStep[regDomain[r]] \in Nat \ {0}
      <4>1. regDomain[r] \in Domain
        BY DEF B!BasicConstants
      <4>2. Steps[regDomain[r]] \in SUBSET (Nat \ {0}) /\ InitStep[regDomain[r]] \in Steps[regDomain[r]]
        BY <4>1 DEF B!BasicConstants
      <4> QED BY <4>2
    <3> QED BY <3>1
  <2>5. BarrierCurPhase \in BOOLEAN
    OBVIOUS
  <2>2. BarrierCount \in Int /\ restarts \in Nat
    OBVIOUS
  <2>4. /\ currentBaseCycle \in Nat /\ lClockedEvents \subseteq Registry
        /\ target \in Thread \cup {NoThread} /\ pending \subseteq Thread
    OBVIOUS
  <2>3. /\ workerPc \in [Thread -> {"none", "boot", "lock", "test", "asleep", "run", "exited"}]
        /\ threadActive \in [Thread -> BOOLEAN] /\ threadForceExit \in [Thread -> BOOLEAN]
        /\ tasks_completed \in [Thread -> BOOLEAN] /\ barrierPhase \in [Thread -> BOOLEAN]
        /\ tasks \in [Thread -> SUBSET Callback] /\ calls \in [Callback -> Nat]
        /\ nBaseCycle \in [Registry -> Nat] /\ nCycle \in [Registry -> Nat]
    OBVIOUS
  <2> QED BY <2>1, <2>2, <2>3, <2>4, <2>5 DEF B!TypeOK
<1>2. BasicLifeInv
  BY DEF B!BasicConstants, BasicLifeInv, BasicLifeOf, BasicGone, BasicStopping, B!InClock
<1>3. BasicSignalInv
  BY DEF BasicSignalInv, BasicSignalOf, BasicSignalled, BasicStopping, B!InClock
<1>4. BasicBarrierInv /\ BasicEventInv
  BY DEF BasicBarrierInv, BasicEventInv, B!InClock
<1>5. BasicCallInv
  BY DEF B!BasicConstants, BasicCallInv, BasicCompleted, BasicCalled, B!Advanced, B!InClock
<1> QED BY <1>1, <1>2, <1>3, <1>4, <1>5 DEF BasicIInv

\* Who is signalled, which callbacks are queued and how often each was called
\* agree with each other at every step, whichever barrier is compiled in.
THEOREM BasicInductive ==
    ASSUME B!BasicConstants, B!SingleSignalOnce
    PROVE  B!Spec => []BasicIInv
<1>1. ASSUME BasicIInv, UNCHANGED B!vars PROVE BasicIInv'
  <2> USE <1>1 DEF BasicIInv, B!vars, B!regVars, B!clockVars, B!barrierVars, B!flagVars
  <2>1. B!TypeOK'
    BY DEF B!TypeOK
  <2>2. BasicLifeInv'
    BY DEF BasicLifeInv, BasicLifeOf, BasicUp, BasicGone, BasicStopping, B!InClock
  <2>3. BasicSignalInv'
    BY DEF BasicSignalInv, BasicSignalOf, BasicSignalled, BasicStopping, B!InClock
  <2>4. BasicBarrierInv'
    BY DEF BasicBarrierInv, BasicSignalled
  <2>5. BasicEventInv'
    BY DEF BasicEventInv, B!InClock
  <2>6. BasicCallInv'
    BY DEF BasicCallInv, BasicCompleted, BasicCalled, B!Advanced, B!InClock
  <2> QED BY <2>1, <2>2, <2>3, <2>4, <2>5, <2>6
<1>2. ASSUME BasicIInv, NEW t \in Thread, B!Worker(t) \/ B!SpinForWork(t) PROVE BasicIInv'
  BY <1>1, <1>2, BasicThreadStartStep, BasicLockTaskListStep, BasicWaitForWorkStep,
     BasicThreadExitStep, BasicStartTasksStep,
     BasicFinishTasksStep, BasicRunTaskStep DEF B!Worker, B!SpinForWork
<1>3. ASSUME BasicIInv, B!LifeCycle \/ B!ThreadedClock \/ B!Controller PROVE BasicIInv'
  BY <1>3, BasicCreatePthreadStep, BasicPthreadCreatedStep, BasicDestroyPthreadStep,
     BasicForceExitStep, BasicPthreadJoinedStep,
     BasicInitClockServerStep, BasicPopAndAssignStep, BasicFrontOfEmptyStep, BasicPerformTasksThreadedStep,
     BasicSetBarrierCountStep, BasicFlipPhaseStep, BasicCheckAllTasksCompletedStep, BasicBarrierEmptyStep,
     BasicReAddEventStep DEF B!LifeCycle, B!ThreadedClock, B!Controller
<1>4. ASSUME BasicIInv, [B!Next]_(B!vars) PROVE BasicIInv'
  BY <1>1, <1>2, <1>3, <1>4 DEF B!Next, B!Stopped
<1> QED BY <1>4, BasicInitInv, PTL DEF B!Spec

\* While the server is between two clocks no worker is inside its queue and
\* none has a task left: AssignTask needs no lock.
THEOREM AssignTaskNeedsNoLock ==
    ASSUME B!BasicConstants, B!SingleSignalOnce
    PROVE  B!Spec => []B!UnlockedAssignIsSafe
<1>1. ASSUME BasicIInv PROVE B!UnlockedAssignIsSafe
  BY <1>1 DEF BasicIInv, BasicSignalInv, BasicSignalOf, BasicStopping, B!InClock, B!UnlockedAssignIsSafe
<1> QED BY <1>1, BasicInductive, PTL

-----------------------------------------------------------------------------
(* The basic server refines ClockContract *)

\* The registries as a caller of Clock() sees them.
BasicBaseCycleSeen == [r \in Registry |-> IF B!Advanced(r) THEN currentBaseCycle ELSE nBaseCycle[r]]
BasicCycleSeen == [r \in Registry |-> IF B!Advanced(r) THEN nCycle[r] - 1 ELSE nCycle[r]]

\* They do not change while a worker or the server is within Clock(), nor
\* outside of it.
LEMMA SeenFrame ==
    ASSUME B!InClock' <=> B!InClock, UNCHANGED <<nBaseCycle, nCycle, lClockedEvents, currentBaseCycle>>
    PROVE  UNCHANGED <<BasicBaseCycleSeen, BasicCycleSeen>>
<1>1. \A r : B!Advanced(r)' <=> B!Advanced(r)
  BY DEF B!Advanced
<1> QED BY <1>1 DEF BasicBaseCycleSeen, BasicCycleSeen

\* A work item is a call of the contract.
LEMMA RunTaskRefines ==
    ASSUME B!BasicConstants, BasicIInv, NEW t \in Thread, NEW c \in Callback, NEW d \in Domain, NEW s \in Steps[d],
           B!RunTask(t, c, d, s)
    PROVE  B!Contract!Call(c)
<1>1. /\ workerPc[t] = "run" /\ c \in tasks[t] /\ calls' = [calls EXCEPT ![c] = @ + 1]
      /\ UNCHANGED <<serverPc, nBaseCycle, nCycle, lClockedEvents, currentBaseCycle>>
  BY DEF B!RunTask, B!regVars, B!clockVars
<1>2. B!InClock
  BY <1>1 DEF BasicIInv, BasicSignalInv, BasicSignalOf
<1>3. /\ cbThread[c] = t /\ cbReg[c] \in lClockedEvents /\ cbReg[c] \in Registry
      /\ \A r \in Registry : IF r \in lClockedEvents THEN nBaseCycle[r] >= currentBaseCycle
                                                     ELSE nBaseCycle[r] > currentBaseCycle
  BY <1>1, <1>2 DEF B!BasicConstants, BasicIInv, BasicEventInv, B!CallbacksOf
<1>4. UNCHANGED <<BasicBaseCycleSeen, BasicCycleSeen>>
  BY <1>1, SeenFrame DEF B!InClock
<1>5. calls[c] = BasicCycleSeen[cbReg[c]]
  <2>1. calls[c] = BasicCompleted(cbReg[c]) + (IF BasicCalled(c) THEN 1 ELSE 0) /\ ~BasicCalled(c)
    BY <1>1, <1>3 DEF BasicIInv, BasicCallInv, BasicCalled
  <2>2. BasicCompleted(cbReg[c]) = BasicCycleSeen[cbReg[c]]
    BY <1>3 DEF BasicCompleted, BasicCycleSeen
  <2>3. BasicCycleSeen[cbReg[c]] \in Int
    <3>1. nCycle[cbReg[c]] \in Nat
      BY <1>3 DEF BasicIInv, B!TypeOK
    <3> QED BY <1>3, <3>1 DEF BasicCycleSeen
  <2> QED BY <2>1, <2>2, <2>3
<1>6. ASSUME NEW r \in Registry
      PROVE  BasicBaseCycleSeen[cbReg[c]] <= BasicBaseCycleSeen[r] + 0
  <2>1. currentBaseCycle \in Nat /\ nBaseCycle[r] \in Nat /\ nBaseCycle[cbReg[c]] \in Nat
    BY <1>3 DEF BasicIInv, B!TypeOK
  <2>2. BasicBaseCycleSeen[cbReg[c]] = currentBaseCycle
    BY <1>2, <1>3, <2>1 DEF BasicBaseCycleSeen, B!Advanced
  <2>3. BasicBaseCycleSeen[r] \in Nat /\ BasicBaseCycleSeen[r] >= currentBaseCycle
    BY <1>2, <1>3, <2>1 DEF BasicBaseCycleSeen, B!Advanced
  <2> QED BY <2>2, <2>3, <2>1
<1> QED BY <1>1, <1>4, <1>5, <1>6 DEF B!Contract!Call, BasicBaseCycleSeen, BasicCycleSeen

\* The return from Clock() is the tick of the contract.
LEMMA ReturnRefines ==
    ASSUME B!BasicConstants,
           B!TypeOK, B!TypeOK', BasicEventInv, BasicCallInv, B!InClock, ~B!InClock', UNCHANGED <<lClockedEvents, calls>>,
           \A u \in Thread : tasks[u] = {},
           \A r \in lClockedEvents : nBaseCycle'[r] > currentBaseCycle /\ nCycle'[r] = BasicCompleted(r) + 1,
           \A r \in Registry \ lClockedEvents : nBaseCycle'[r] = nBaseCycle[r] /\ nCycle'[r] = nCycle[r]
    PROVE  B!Contract!Next
<1>1. PICK r0 \in Registry : r0 \in lClockedEvents
  BY DEF BasicEventInv, B!TypeOK
<1>2. /\ \A r \in lClockedEvents : r \in Registry /\ BasicBaseCycleSeen[r] = currentBaseCycle
      /\ \A r \in Registry \ lClockedEvents : BasicBaseCycleSeen[r] = nBaseCycle[r]
                                              /\ nBaseCycle[r] > currentBaseCycle
  <2>1. ASSUME NEW r \in lClockedEvents PROVE r \in Registry /\ BasicBaseCycleSeen[r] = currentBaseCycle
    <3>1. r \in Registry /\ nBaseCycle[r] >= currentBaseCycle
      BY DEF BasicEventInv, B!TypeOK
    <3>2. nBaseCycle[r] \in Nat /\ currentBaseCycle \in Nat
      BY <3>1 DEF B!TypeOK
    <3>3. B!Advanced(r) <=> nBaseCycle[r] > currentBaseCycle
      BY DEF B!Advanced
    <3> QED BY <3>1, <3>2, <3>3 DEF BasicBaseCycleSeen
  <2>2. ASSUME NEW r \in Registry \ lClockedEvents
        PROVE  BasicBaseCycleSeen[r] = nBaseCycle[r] /\ nBaseCycle[r] > currentBaseCycle
    <3>1. ~B!Advanced(r)
      BY DEF B!Advanced
    <3> QED BY <3>1 DEF BasicEventInv, BasicBaseCycleSeen
  <2> QED BY <2>1, <2>2
<1>3. currentBaseCycle \in Nat /\ \A r \in Registry : nBaseCycle[r] \in Nat /\ nBaseCycle'[r] \in Nat
  BY DEF B!TypeOK
<1> DEFINE Popped == {r \in Registry : BasicBaseCycleSeen[r] = BasicBaseCycleSeen[r0]}
<1>4. BasicBaseCycleSeen[r0] = currentBaseCycle /\ Popped = lClockedEvents
  BY <1>1, <1>2, <1>3
<1> HIDE DEF Popped
<1>5. \A r \in Registry : BasicBaseCycleSeen[r0] <= BasicBaseCycleSeen[r]
  BY <1>2, <1>3, <1>4
<1>6. /\ BasicBaseCycleSeen' = nBaseCycle' /\ BasicCycleSeen' = nCycle'
  <2>1. \A r : ~B!Advanced(r)'
    BY DEF B!Advanced
  <2> QED BY <2>1 DEF BasicBaseCycleSeen, BasicCycleSeen, B!TypeOK
<1>7. \A r \in Registry : BasicCycleSeen[r] = BasicCompleted(r)
  BY DEF BasicCycleSeen, BasicCompleted
<1>8. ASSUME NEW c \in Callback, cbReg[c] \in Popped
      PROVE  calls[c] = BasicCycleSeen[cbReg[c]] + 1
  <2>1. BasicCalled(c) /\ cbReg[c] \in Registry
    BY <1>4, <1>8 DEF B!BasicConstants, BasicCalled
  <2> QED BY <1>7, <2>1 DEF BasicCallInv
<1>9. BasicCycleSeen' = [r \in Registry |-> IF r \in Popped THEN BasicCycleSeen[r] + 1 ELSE BasicCycleSeen[r]]
  <2>1. ASSUME NEW r \in Registry
        PROVE  nCycle'[r] = IF r \in Popped THEN BasicCycleSeen[r] + 1 ELSE BasicCycleSeen[r]
    <3>1. CASE r \in Popped
      BY <1>4, <1>7, <3>1
    <3>2. CASE r \notin Popped
      <4>1. ~B!Advanced(r)
        BY <1>4, <3>2 DEF B!Advanced
      <4> QED BY <1>4, <3>2, <4>1 DEF BasicCycleSeen
    <3> QED BY <3>1, <3>2
  <2>2. nCycle' = [r \in Registry |-> nCycle'[r]]
    BY DEF B!TypeOK
  <2> QED BY <1>6, <2>1, <2>2
<1>10. /\ BasicBaseCycleSeen' \in [Registry -> Nat]
       /\ \A r \in Popped : BasicBaseCycleSeen'[r] > BasicBaseCycleSeen[r0]
       /\ \A r \in Registry \ Popped : BasicBaseCycleSeen'[r] = BasicBaseCycleSeen[r]
  BY <1>2, <1>4, <1>6 DEF B!TypeOK
<1>11. r0 \in Popped
  BY <1>1, <1>4
<1>12. \E q \in Registry :
          LET Ticked == {r \in Registry : BasicBaseCycleSeen[r] = BasicBaseCycleSeen[q]}
          IN  /\ Ticked # {}
              /\ \A r \in Registry : BasicBaseCycleSeen[q] <= BasicBaseCycleSeen[r]
              /\ \A c \in Callback : cbReg[c] \in Ticked => calls[c] = BasicCycleSeen[cbReg[c]] + 1
              /\ BasicCycleSeen' = [r \in Registry |-> IF r \in Ticked THEN BasicCycleSeen[r] + 1 ELSE BasicCycleSeen[r]]
              /\ BasicBaseCycleSeen' \in [Registry -> Nat]
              /\ \A r \in Ticked : BasicBaseCycleSeen'[r] > BasicBaseCycleSeen[q]
              /\ \A r \in Registry \ Ticked : BasicBaseCycleSeen'[r] = BasicBaseCycleSeen[r]
              /\ UNCHANGED calls
  <2> WITNESS r0 \in Registry
  <2> QED BY <1>5, <1>8, <1>9, <1>10, <1>11 DEF Popped
<1> QED BY ONLY <1>12 DEF B!Contract!Next, B!Contract!Tick, BasicBaseCycleSeen, BasicCycleSeen

\* Inserting an event again is not seen, and the last insertion is a tick if the
\* workers have been waited for.
LEMMA ReAddEventRefines ==
    ASSUME B!BasicConstants, BasicIInv, NEW r \in Registry, B!ReAddEvent(r)
    PROVE  B!Contract!Next \/ UNCHANGED <<BasicBaseCycleSeen, BasicCycleSeen, calls>>
<1>1. /\ B!InClock /\ serverPc = "readd" /\ r \in lClockedEvents /\ nBaseCycle[r] = currentBaseCycle
      /\ nCycle' = [nCycle EXCEPT ![r] = @ + 1] /\ nBaseCycle' = [nBaseCycle EXCEPT ![r] = @ + nStep[r]]
      /\ UNCHANGED <<lClockedEvents, currentBaseCycle, calls, tasks>>
      /\ serverPc' = IF \E q \in Registry : q # r /\ q \in lClockedEvents /\ nBaseCycle[q] = currentBaseCycle
                     THEN "readd" ELSE IF variant.readds THEN "wait" ELSE "idle"
  BY DEF B!ReAddEvent, B!clockVars, B!InClock
<1>2. /\ B!TypeOK /\ BasicEventInv /\ BasicCallInv /\ B!TypeOK'
      /\ \A q \in Registry : nBaseCycle[q] \in Nat /\ nCycle[q] \in Nat
      /\ currentBaseCycle \in Nat /\ nStep[r] \in Nat \ {0}
  BY BasicReAddEventStep DEF BasicIInv, B!TypeOK
<1>3. /\ nBaseCycle'[r] > currentBaseCycle /\ nCycle'[r] = nCycle[r] + 1
      /\ \A q \in Registry \ {r} : nBaseCycle'[q] = nBaseCycle[q] /\ nCycle'[q] = nCycle[q]
  BY <1>1, <1>2 DEF B!TypeOK
<1>4. ~B!Advanced(r)
  BY <1>1, <1>2 DEF B!Advanced
<1>5. CASE serverPc' # "idle"
  <2>1. B!InClock'
    BY <1>1, <1>5 DEF B!InClock
  <2>2. \A q \in Registry \ {r} : B!Advanced(q)' <=> B!Advanced(q)
    BY <1>1, <1>3, <2>1 DEF B!Advanced
  <2>3. B!Advanced(r)'
    BY <1>1, <1>3, <2>1 DEF B!Advanced
  <2>4. BasicBaseCycleSeen' = BasicBaseCycleSeen
    BY <1>1, <1>3, <1>4, <2>2, <2>3 DEF BasicBaseCycleSeen
  <2>5. BasicCycleSeen' = BasicCycleSeen
    BY <1>1, <1>2, <1>3, <1>4, <2>2, <2>3 DEF BasicCycleSeen
  <2> QED BY <1>1, <2>4, <2>5
<1>6. CASE serverPc' = "idle"
  <2>1. /\ ~B!InClock' /\ ~variant.readds
        /\ \A q \in Registry : q # r /\ q \in lClockedEvents => nBaseCycle[q] # currentBaseCycle
    BY <1>1, <1>6 DEF B!InClock
  <2>2. \A u \in Thread : tasks[u] = {}
    BY <1>1, <2>1 DEF BasicIInv, BasicSignalInv, BasicSignalOf, BasicStopping
  <2>3. ASSUME NEW q \in lClockedEvents
        PROVE  nBaseCycle'[q] > currentBaseCycle /\ nCycle'[q] = BasicCompleted(q) + 1
    <3>0. q \in Registry
      BY <1>2 DEF B!TypeOK
    <3>1. CASE q = r
      BY <1>3, <1>4, <3>1 DEF BasicCompleted
    <3>2. CASE q # r
      <4>1. nBaseCycle[q] > currentBaseCycle
        BY <1>1, <1>2, <2>1, <3>0, <3>2 DEF BasicEventInv
      <4>2. B!Advanced(q)
        BY <1>1, <4>1 DEF B!Advanced
      <4> QED BY <1>2, <1>3, <3>0, <3>2, <4>1, <4>2 DEF BasicCompleted
    <3> QED BY <3>1, <3>2
  <2>4. \A q \in Registry \ lClockedEvents : nBaseCycle'[q] = nBaseCycle[q] /\ nCycle'[q] = nCycle[q]
    BY <1>1, <1>3
  <2> QED BY <1>1, <1>2, <2>1, <2>2, <2>3, <2>4, ReturnRefines
<1> QED BY <1>5, <1>6

\* Seeing the last worker done is a tick, if the events have been inserted again.
LEMMA WaitRefines ==
    ASSUME B!BasicConstants, BasicIInv, B!BarrierEmpty \/ \E t \in Thread : B!CheckAllTasksCompleted(t)
    PROVE  B!Contract!Next \/ UNCHANGED <<BasicBaseCycleSeen, BasicCycleSeen, calls>>
<1>1. /\ serverPc = "wait" /\ B!InClock /\ serverPc' \in {"wait", "asleep", "idle", "readd"}
      /\ UNCHANGED <<variant, nBaseCycle, nCycle, lClockedEvents, currentBaseCycle, calls, tasks>>
      /\ serverPc' = "idle" => variant.readds
  BY DEF B!BarrierEmpty, B!CheckAllTasksCompleted, B!regVars, B!clockVars, B!InClock
<1>2. CASE serverPc' # "idle"
  <2>1. B!InClock'
    BY <1>1, <1>2 DEF B!InClock
  <2> QED BY <1>1, <2>1, SeenFrame
<1>3. CASE serverPc' = "idle"
  <2>1. B!TypeOK /\ B!TypeOK' /\ BasicEventInv /\ BasicCallInv /\ BasicIInv'
    BY BasicBarrierEmptyStep, BasicCheckAllTasksCompletedStep DEF BasicIInv
  <2>2. ~B!InClock'
    BY <1>3 DEF B!InClock
  <2>3. \A u \in Thread : tasks[u] = {}
    <3>1. \A u \in Thread : tasks'[u] = {}
      BY <2>1, <2>2 DEF BasicIInv, BasicSignalInv, BasicSignalOf
    <3> QED BY <1>1, <3>1
  <2>4. ASSUME NEW r \in lClockedEvents
        PROVE  nBaseCycle'[r] > currentBaseCycle /\ nCycle'[r] = BasicCompleted(r) + 1
    <3>1. r \in Registry /\ nBaseCycle[r] > currentBaseCycle /\ nCycle[r] \in Nat
      BY <1>1, <1>3, <2>1 DEF BasicEventInv, B!TypeOK
    <3>2. B!Advanced(r)
      BY <1>1, <3>1 DEF B!Advanced
    <3> QED BY <1>1, <3>1, <3>2 DEF BasicCompleted
  <2> QED BY <1>1, <2>1, <2>2, <2>3, <2>4, ReturnRefines
<1> QED BY <1>2, <1>3

\* Popping the events is not seen either.
LEMMA PopAndAssignRefines ==
    ASSUME BasicIInv, NEW r \in Registry, B!PopAndAssign(nBaseCycle[r])
    PROVE  UNCHANGED <<BasicBaseCycleSeen, BasicCycleSeen, calls>>
<1>1. /\ ~B!InClock /\ UNCHANGED <<nBaseCycle, nCycle, calls>>
      /\ \A q \in lClockedEvents' : ~(nBaseCycle'[q] > currentBaseCycle')
  BY DEF B!PopAndAssign, B!regVars, B!InClock, BasicIInv, B!TypeOK
<1>2. \A q : ~B!Advanced(q) /\ ~B!Advanced(q)'
  BY <1>1 DEF B!Advanced
<1> QED BY <1>1, <1>2 DEF BasicBaseCycleSeen, BasicCycleSeen

\* The steps of the server's and the workers' threads that a caller does not see.
LEMMA OtherStepsStutter ==
    ASSUME \/ B!LifeCycle \/ B!SetBarrierCount \/ B!FlipPhase \/ B!FrontOfEmpty
           \/ \E t \in Thread : B!PerformTasksThreaded(t) \/ B!DestroyPthread(t)
    PROVE  UNCHANGED <<BasicBaseCycleSeen, BasicCycleSeen, calls>>
<1>1. UNCHANGED <<nBaseCycle, nCycle, lClockedEvents, currentBaseCycle, calls>> /\ (B!InClock' <=> B!InClock)
  BY DEF B!LifeCycle, B!PthreadCreated, B!ForceExit, B!PthreadJoined, B!CreatePthread, B!DestroyPthread,
     B!SetBarrierCount, B!FlipPhase, B!FrontOfEmpty, B!PerformTasksThreaded, B!AfterStart, B!regVars, B!clockVars,
     B!InClock
<1> QED BY <1>1, SeenFrame

\* A worker's steps other than the work items.
LEMMA WorkerStepsStutter ==
    ASSUME NEW t \in Thread,
           B!ThreadStart(t) \/ B!LockTaskList(t) \/ B!WaitForWork(t) \/ B!ThreadExit(t) \/ B!StartTasks(t)
               \/ B!FinishTasks(t)
    PROVE  UNCHANGED <<BasicBaseCycleSeen, BasicCycleSeen, calls>>
<1>1. UNCHANGED <<nBaseCycle, nCycle, lClockedEvents, currentBaseCycle, calls>> /\ (B!InClock' <=> B!InClock)
  BY DEF B!ThreadStart, B!LockTaskList, B!WaitForWork, B!ThreadExit, B!StartTasks, B!FinishTasks,
     B!regVars, B!clockVars,
     B!InClock
<1> QED BY <1>1, SeenFrame

\* Initialising again is the restart of the contract.
LEMMA RestartRefines == ASSUME BasicIInv, B!InitClockServer PROVE B!Contract!Next
<1>1. /\ ~B!InClock' /\ nBaseCycle' = [r \in Registry |-> 0] /\ nCycle' = [r \in Registry |-> 0]
      /\ calls' = [c \in Callback |-> 0]
  BY DEF B!InitClockServer, B!InClock
<1>2. \A r : ~B!Advanced(r)'
  BY <1>1 DEF B!Advanced
<1>3. /\ BasicBaseCycleSeen' = [r \in Registry |-> 0] /\ BasicCycleSeen' = [r \in Registry |-> 0]
      /\ BasicBaseCycleSeen' \in [Registry -> Nat]
  BY <1>1, <1>2 DEF BasicBaseCycleSeen, BasicCycleSeen
<1>4. B!Contract!Restart
  BY <1>1, <1>3 DEF B!Contract!Restart, BasicBaseCycleSeen, BasicCycleSeen
<1> QED BY <1>4 DEF B!Contract!Next

\* All three barriers implement the contract: the callbacks of one base cycle
\* run once each, all of them before Clock() returns, with the insertion of the
\* events before or after the wait.
THEOREM BasicRefinement ==
    ASSUME B!BasicConstants, B!SingleSignalOnce
    PROVE  B!Spec => B!ImplementsContract
<1>1. ASSUME B!Init PROVE B!Contract!Init
  <2>1. \A r \in Registry : ~B!Advanced(r)
    BY <1>1 DEF B!Init, B!Advanced, B!InClock
  <2>2. BasicBaseCycleSeen = [r \in Registry |-> 0] /\ BasicCycleSeen = [r \in Registry |-> 0]
    BY <1>1, <2>1 DEF B!Init, BasicBaseCycleSeen, BasicCycleSeen
  <2>3. BasicBaseCycleSeen \in [Registry -> Nat]
    BY <2>2
  <2> QED BY <1>1, <2>2, <2>3 DEF B!Init, B!Contract!Init, BasicBaseCycleSeen, BasicCycleSeen
<1>2. ASSUME BasicIInv, [B!Next]_(B!vars)
      PROVE  B!Contract!Next \/ UNCHANGED <<BasicBaseCycleSeen, BasicCycleSeen, calls>>
  <2>1. ASSUME UNCHANGED B!vars PROVE UNCHANGED <<BasicBaseCycleSeen, BasicCycleSeen, calls>>
    <3>1. UNCHANGED <<nBaseCycle, nCycle, lClockedEvents, currentBaseCycle, calls, serverPc>>
      BY <2>1 DEF B!vars, B!regVars, B!clockVars
    <3> QED BY <3>1, SeenFrame DEF B!InClock
  <2>2. ASSUME NEW t \in Thread, B!Worker(t) \/ B!SpinForWork(t)
        PROVE  B!Contract!Next \/ UNCHANGED <<BasicBaseCycleSeen, BasicCycleSeen, calls>>
    BY <1>2, <2>1, <2>2, WorkerStepsStutter, RunTaskRefines DEF B!Worker, B!SpinForWork, B!Contract!Next
  <2>3. ASSUME B!LifeCycle \/ B!ThreadedClock \/ B!Controller
        PROVE  B!Contract!Next \/ UNCHANGED <<BasicBaseCycleSeen, BasicCycleSeen, calls>>
    BY <1>2, <2>3, OtherStepsStutter, WaitRefines, ReAddEventRefines, PopAndAssignRefines,
       RestartRefines
       DEF B!ThreadedClock, B!Controller
  <2> QED BY <1>2, <2>1, <2>2, <2>3 DEF B!Next, B!Stopped
<1>3. ASSUME BasicIInv, [B!Next]_(B!vars) PROVE [B!Contract!Next]_(B!Contract!contractVars)
  BY <1>2, <1>3 DEF B!Contract!contractVars, BasicBaseCycleSeen, BasicCycleSeen
<1> QED BY <1>1, <1>3, BasicInductive, PTL DEF B!ImplementsContract, B!Contract!Spec, B!Spec

=============================================================================
