\* Two cargoplaces of one shipment, two products, two operations, two boxes a cargoplace, two requests.
SPECIFICATION Spec
CONSTANTS
  Products = {1, 2}
  MaxItems = 1
  MaxFailures = 1
  Requests = {r1, r2}
  Ops = {o1, o2}
  None = None
  Cargoplaces = {c1, c2}
  Barcodes = {b1, b2}
  BufferBins = {buffer}
  Storage = Storage
SYMMETRY Symm
INVARIANTS
  TypeOK
  ClosedGateSettled
  GateLogExact
  AuditClean
PROPERTIES
  ImplementsCustody
CHECK_DEADLOCK FALSE
