SPECIFICATION Spec
CONSTANTS
  r1 = r1
  r2 = r2
  r3 = r3
  c1 = c1
  c2 = c2
  Requests <- MCRequestSet
  Clients <- MCClients
  Tokens <- MCTokens
  ValidTokens <- MCValid
  Leavers = {c2}
  Assignments <- MCLeaverOwn
  MAX_REQUESTS_PER_CLIENT = 2
INVARIANT ClientsRequestsDie
