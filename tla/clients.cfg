CONSTANTS
  Clients = {"c1", "c2"}
  MaxEvents = 1
  MaxFaults = 1
  Requests = {"DIAL", "HANGUP", "GET_STATE", "GET_VER", "OTHER"}
  MaxRequests = 2
SPECIFICATION Spec
INVARIANTS TypeOK MonitorInStep
PROPERTIES AnswerIsOwn SocketServiceSpec NextClientServed ClientNotices
CHECK_DEADLOCK FALSE
