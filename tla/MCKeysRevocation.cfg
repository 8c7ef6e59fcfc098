SPECIFICATION Spec
CONSTANTS
  adm = adm
  k1 = k1
  boss = boss
  worker = worker
  Creds = {adm, k1, k2}
  Users = {boss, worker}
  Owner <- MCOwner
  Admins = {boss}
  InitialKeys <- MCWorking
  Signers = {worker}
  KeyIds = {a1, a2}
  OpIds = {o1}
  Requests = {r1, r2}
  OwnerRevokes = {}
  SlowTransactions = TRUE
  MaxStamp = 2
  NoCred = NoCred
  NoId = NoId
SYMMETRY Symm
INVARIANTS
  TypeOK
  OutboxOrder
  AcceptedIsApplied
  SubmittedOnce
  StatusFollowsRegistry
CHECK_DEADLOCK FALSE
