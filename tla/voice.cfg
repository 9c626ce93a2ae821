CONSTANTS
  Threads = {1, 2, 3}
  MaxFaults = 1
  BlocksEach = 1
  MaxEvents = 5
  MaxInbox = 1
  Wavs <- WavFormats
SPECIFICATION Spec
INVARIANTS TypeOK StopLeavesNothing MemoPure
PROPERTIES CallHasVoice PromptThenRecording ThreadsEnd
CHECK_DEADLOCK FALSE
