CONSTANTS
  MAX_MSG_QUEUE_SIZE = 7
  USB_KEEP_ALIVE_TIMER = 2
  SYNCING_TIMEOUT = 1
  DIAL_DELAY = 1
  DIALINGTIMEOUT = 2
  RING_TIMEOUT = 2
  RECORD_START_TIMEOUT = 3
  Posts = {"USB_ATTACH", "PHONE_STATE", "HISTORY_FINISHED", "HANDFREE_ON",
           "HANDFREE_OFF", "HFREE_HOOK_ON", "HFREE_HOOK_OFF", "DIAL_END", "REDIAL",
           "BUSY_ON", "CALL_ID", "OTHER"}
  MaxInput = 1
SPECIFICATION Spec
INVARIANTS OneKeepAlive TimedStatesEnd
CHECK_DEADLOCK FALSE
