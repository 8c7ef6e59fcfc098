\* Three orders over two products of one SKU and one of another, two concurrent requests, under fairness.
SPECIFICATION FairSpec
CONSTANTS
  Products = {1, 2, 3}
  MaxItems = 2
  MaxFailures = 1
  Requests = {r1, r2}
  Ops = {}
  None = None
  d1 = d1
  d2 = d2
  s1 = s1
  s2 = s2
  Orders = {1, 2, 3}
  Destinations = {d1, d2}
  DestinationOf <- OrderDestination
  Skus = {s1, s2}
  SkuOf <- TwoSkus
  Lines <- Mixed
  BatchLimit = 3
  Operators = {}
  Storage = Storage
  ShippingBins = {b1}
  BinDestination <- Buffers
  Dispatches = {}
  DispatchDestination <- Vehicles
PROPERTIES RemainderAllocated
CHECK_DEADLOCK FALSE
