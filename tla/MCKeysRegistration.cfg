SPECIFICATION Spec
CONSTANTS
  adm = adm
  k1 = k1
  boss = boss
  worker = worker
  Creds = {adm, k1}
  Users = {boss, worker}
  Owner <- MCOwner
  Admins = {boss}
  InitialKeys <- MCFresh
  Signers = {worker}
  KeyIds = {a1, a2, a3}
  OpIds = {}
  Requests = {r1, r2}
  OwnerRevokes = {adm}
  SlowTransactions = FALSE
  MaxStamp = 3
  NoCred = NoCred
  NoId = NoId
SYMMETRY Symm
INVARIANTS
  OneKeyActionInFlight
  RejectedIsNotRegistered
CHECK_DEADLOCK FALSE
