CONSTANTS
  Timers = {t1}
  Files = {4, 5}
  WakeFd = 3
  Persistent = {3, 4}
  Senders = {s1}
  MAX_FD_EVENTS = 3
  Delays = {0, 1}
  MaxTime = 2
  Null = Null
SPECIFICATION FairSpec
INVARIANTS NoWatchSleptThrough NfdsCoversWatched
PROPERTY TimersFire
CHECK_DEADLOCK FALSE
