CONSTANTS
  HANDSHAKE_RETRY_COUNT = 2
  MaxFaults = 1
  MaxEvents = 1
  Requests = {"DIAL", "HANGUP", "ANSWER", "GET_CURRENT_CALLS", "RADIO_OFF", "RADIO_ON"}
  MaxRequests = 2
  MaxTotal = 2
SPECIFICATION Spec
INVARIANTS
  TypeOK AnswersMatch CallsReported ClosedRadio OpenRadio ClccUnderstood
PROPERTIES PromptReturns CloseEndsWait Reconnects
CHECK_DEADLOCK FALSE
