SPECIFICATION Spec
CONSTANTS
  t1 = t1 t2 = t2 a1 = a1 a2 = a2 i1 = i1 p = p q = q d1 = d1
  Tasks <- MCTasks
  Accounts = {a1, a2}
  Invites = {i1}
  Addresses = {d1}
  Grants <- MCGrants
  Requests <- MCRequests
  NoRecord = NoRecord NoGrant = NoGrant NoInvite = NoInvite NoTask = NoTask
  PerAddress = 1
  TotalSlots = 1
  Window = 1
  Ttl = 0
  MaxClock = 2
SYMMETRY Tasks2
INVARIANTS OneLiveSigner InvitesAdmitOnce
PROPERTY ClaimsAreAtomic
