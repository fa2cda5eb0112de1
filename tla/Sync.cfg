SPECIFICATION FairSpec
CONSTANTS
  t1 = t1
  t2 = t2
  t3 = t3
  t4 = t4
  f1 = f1
  f2 = f2
  s1 = s1
  e1 = e1
  e2 = e2
  m1 = m1
  h1 = h1
  NoThread = NoThread
  Nobody = Nobody
  Forever = Forever
  Threads = {t1, t2, t3, t4}
  Callers = {t1, t2, t3}
  Parents = {t1}
  InitialCount = 1
  MaxCount = 3
  MaxRound = 3
  MaxDepth = 3
  Flags = {f1, f2}
  Calls <- MC_Calls
  Results = {0, 1}
  NoResult = 0
  Signallers = {s1}
  Waiters = {t1, t2}
  Events = {e1, e2}
  AutoClear = {e2}
  WaitArrays <- MC_WaitArrays
  MaxWaitObjects = 2
  LoneWaiters = {t1}
  LoneEvents = {e1}
  LoneTimers = {m1}
  LoneHandles = {h1}
  LoneAutoClear = {e1, h1}
  LoneInterval <- MC_LoneInterval
  LoneArrays <- MC_LoneArrays
  LoneMaxObjects = 3
  MaxTime = 3
INVARIANTS
  TypeOK
  WriterAlone
  SleepersServed
  RoundsInStep
  CounterIsDepth
  BackMeansDone
  InfoFreedOnce
  ListSound
PROPERTIES
  WriterEnters
  CallReturns
  WaitReturns
\* The barrier and call_once come to rest when their threads have finished.
CHECK_DEADLOCK FALSE
