CONSTANTS
  MAX_MSG_QUEUE_SIZE = 8
  USB_KEEP_ALIVE_TIMER = 2
  SYNCING_TIMEOUT = 1
  DIAL_DELAY = 1
  DIALINGTIMEOUT = 2
  RING_TIMEOUT = 2
  RECORD_START_TIMEOUT = 3
  Posts = {"USB_ATTACH", "RING", "HFREE_HOOK_ON", "HFREE_HOOK_OFF", "BUSY_ON",
           "HANDFREE_ON", "CTL_RECORD_START", "RECORD_END"}
  MaxInput = 2
SPECIFICATION FairSpec
INVARIANTS TypeOK OneKeepAlive TimedStatesEnd OneTimerEach
PROPERTY IncomingEnds
CHECK_DEADLOCK FALSE
