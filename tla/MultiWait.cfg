SPECIFICATION Spec
CONSTANTS
  t1 = t1
  t2 = t2
  e1 = e1
  e2 = e2
  m1 = m1
  h1 = h1
  Nobody = Nobody
  Forever = Forever
  Interval <- MC_Interval
  WaitArrays <- MC_Mixed
  Threads = {t1}
  Signallers = {s1, s2}
  Events = {e1}
  Timers = {m1}
  Handles = {h1}
  AutoClear = {e1, h1}
  Repeating = {m1}
  Timeouts = {1, Forever}
  MaxWaitObjects = 3
  Shared = FALSE
  WeakFails = FALSE
  MaxTime = 4
INVARIANTS
  TypeOK
  NoLostSignal
  NoStaleTimer
PROPERTIES
  SignalsReported
  RepeatingKeepsPhase
