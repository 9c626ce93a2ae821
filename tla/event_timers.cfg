CONSTANTS
  Timers = {t1, t2, t3}
  Files = {}
  WakeFd = 3
  Persistent = {3}
  Senders = {s1, s2}
  MAX_FD_EVENTS = 1
  Delays = {0, 1}
  MaxTime = 3
  Null = Null
SPECIFICATION Spec
INVARIANTS TypeOK NoTimerSleptThrough TimersSorted LinkedOnce
PROPERTY TimerServiceSpec
SYMMETRY Symm
CHECK_DEADLOCK FALSE
