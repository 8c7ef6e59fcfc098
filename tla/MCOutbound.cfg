\* One order of two products, two buffers and two dispatches of its destination.
SPECIFICATION Spec
CONSTANTS
  Products = {1, 2}
  MaxItems = 2
  MaxFailures = 1
  Requests = {r1, r2}
  Ops = {o1, o2, o3, o4}
  None = None
  d1 = d1
  d2 = d2
  s1 = s1
  s2 = s2
  Orders = {1}
  Destinations = {d1}
  DestinationOf <- OrderDestination
  Skus = {s1}
  SkuOf <- OneSku
  Lines <- Quantities
  BatchLimit = 1
  Operators = {w1}
  Storage = Storage
  ShippingBins = {b1, b2}
  BinDestination <- Buffers
  Dispatches = {v1, v2}
  DispatchDestination <- Vehicles
SYMMETRY Symm
INVARIANTS
  TypeOK
  OrderStatusTrue
  ShippedIsConfirmed
  StagesAgree
  AuditClean
PROPERTIES
  ImplementsCustody
CHECK_DEADLOCK FALSE
