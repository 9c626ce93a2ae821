CONSTANTS
  MAX_MSG_QUEUE_SIZE = 8
  USB_KEEP_ALIVE_TIMER = 2
  SYNCING_TIMEOUT = 1
  DIAL_DELAY = 1
  DIALINGTIMEOUT = 2
  RING_TIMEOUT = 2
  RECORD_START_TIMEOUT = 3
  Posts = {"USB_ATTACH", "PHONE_STATE", "RING"}
  MaxInput = 2
SPECIFICATION Spec
INVARIANT RemovalIsSafe
CHECK_DEADLOCK FALSE
