\* The contracts under any order of owner calls and submitted envelopes.
SPECIFICATION Spec
CONSTANTS
    o1 = o1  o2 = o2
    a1 = a1  a2 = a2  op = op  fake = fake
    x1 = x1  x2 = x2  x3 = x3  x4 = x4  r1 = r1  r2 = r2
    Items = {1, 2}
    Orgs = {o1, o2}
    NoOrg = NoOrg
    Keys <- MCAllKeys
    ValidKeys <- MCKeys
    ActionIds = {x1, x2, x3, x4, r1, r2}
    Envelopes <- MCEnvelopes
    KeyEnvelopes <- MCKeyEnvelopes
    MaxRejectLogs = 1
INVARIANTS TypeOK ItemHistory TrustChain RejectReasonReadable
PROPERTIES RevocationFinal MovesAreSigned
SYMMETRY OrgSymmetry
CHECK_DEADLOCK FALSE
