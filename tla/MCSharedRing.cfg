SPECIFICATION Spec
CONSTANTS
  MaxOps = 3
  BlockAfter = 1
  NoOp = NoOp
INVARIANTS
  AnswerDeliveredOnce
  OwnAnswer
  TablesMatchKernel
PROPERTIES
  LossReported
  ReportedIsUntracked
CHECK_DEADLOCK FALSE
