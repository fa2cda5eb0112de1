SPECIFICATION Spec
CONSTANTS
  t1 = t1
  t2 = t2
  e1 = e1
  e2 = e2
  m1 = m1
  h1 = h1
  Nobody = Nobody
  Forever = Forever
  Interval <- MC_Interval
  WaitArrays <- MC_OneTimer
  Threads = {t1}
  Signallers = {s1}
  Events = {}
  Timers = {m1}
  Handles = {}
  AutoClear = {}
  Repeating = {m1}
  Timeouts = {Forever}
  MaxWaitObjects = 1
  Shared = FALSE
  WeakFails = FALSE
  MaxTime = 5
PROPERTIES
  OneSignalPerWait
