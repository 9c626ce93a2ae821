CONSTANTS
  TPPDU_LINE_BYTES = 6
  ParamSizes = {0}
  ReportSizes = {2}
  MaxCmds = 1
  MaxReports = 1
  MaxNoise = 0
SPECIFICATION FairSpec
PROPERTY CommandCompletes
CHECK_DEADLOCK FALSE
