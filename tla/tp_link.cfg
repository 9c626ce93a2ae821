CONSTANTS
  TPPDU_LINE_BYTES = 3
  ParamSizes = {0, 1}
  ReportSizes = {2, 4}
  MaxCmds = 2
  MaxReports = 3
  MaxNoise = 1
SPECIFICATION Spec
INVARIANTS TypeOK AnswerBeforeNext ReportsArrive
PROPERTY TpServiceSpec
CHECK_DEADLOCK FALSE
