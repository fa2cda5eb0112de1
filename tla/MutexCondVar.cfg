SPECIFICATION AllSpec
CONSTANTS
  t1 = t1
  t2 = t2
  t3 = t3
  Threads = {t1, t2, t3}
  NoThread = NoThread
  wb1 = wb1
  wb2 = wb2
  wb3 = wb3
  NoBuf = NoBuf
  WakeCounts <- MC_WakeCounts
INVARIANTS
  TypeOK
  MutualExclusion
  NoForgottenWaiter
PROPERTIES
  ImplementsMonitor
  ParkedAcquires
  SignalledReturns
  BufferPlayed
\* Every thread may sleep on the condition variable with nobody left to wake it.
CHECK_DEADLOCK FALSE
