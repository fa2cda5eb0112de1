SPECIFICATION Spec
CONSTANTS
  t1 = t1
  t2 = t2
  e1 = e1
  e2 = e2
  m1 = m1
  h1 = h1
  Nobody = Nobody
  Forever = Forever
  Interval <- MC_Interval
  WaitArrays <- MC_OneEvent
  Threads = {t1, t2}
  Signallers = {s1}
  Events = {e1}
  Timers = {}
  Handles = {}
  AutoClear = {e1}
  Repeating = {}
  Timeouts = {0, Forever}
  MaxWaitObjects = 1
  Shared = TRUE
  WeakFails = FALSE
  MaxTime = 0
INVARIANTS
  ListSound
