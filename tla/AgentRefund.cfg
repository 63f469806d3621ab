SPECIFICATION Spec
CONSTANTS
  c1 = c1  c2 = c2  c3 = c3  o1 = o1  t1 = t1  t2 = t2
  th1 = th1  th2 = th2  w1 = w1  w2 = w2
  Blank = Blank  Nothing = Nothing
  Calls = {c1, c2, c3}
  Orders = {o1}
  Tenants = {t1, t2}
  Threads = {th1, th2}
  Wordings = {w1, w2}
  Keys <- AgentKeys
  Owned <- SharedOrderId
  TenantOf <- OneTenant
  MaxIterations = 2
  MaxVisits = 2
INVARIANTS SameProposalOnce AnswersOwnCall
SYMMETRY Interchangeable
