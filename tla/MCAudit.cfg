\* Two actions over two products, one of them may fail, an audit at any time.
SPECIFICATION SpecAudit
CONSTANTS
  Products = {1, 2}
  MaxItems = 2
  MaxFailures = 1
  From = 0
  MaxActions = 2
INVARIANTS
  NoFalseAlarm
  ReportComplete
CHECK_DEADLOCK FALSE
