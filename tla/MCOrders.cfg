\* Four orders that compete for a product of each of two SKUs, one buffer, one dispatch.
SPECIFICATION Spec
CONSTANTS
  Products = {1, 2}
  MaxItems = 2
  MaxFailures = 0
  Requests = {r1, r2}
  Ops = {o1, o2, o3, o4}
  None = None
  d1 = d1
  d2 = d2
  s1 = s1
  s2 = s2
  Orders = {1, 2, 3, 4}
  Destinations = {d1, d2}
  DestinationOf <- OrderDestination
  Skus = {s1, s2}
  SkuOf <- TwoSkus
  Lines <- Crossed
  BatchLimit = 2
  Operators = {w1}
  Storage = Storage
  ShippingBins = {b1}
  BinDestination <- Buffers
  Dispatches = {v1}
  DispatchDestination <- Vehicles
SYMMETRY Symm
INVARIANTS
  AllocationExact
PROPERTIES
  LoadedAtGate
CHECK_DEADLOCK FALSE
