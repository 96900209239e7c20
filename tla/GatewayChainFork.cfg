SPECIFICATION Spec
CONSTANTS
  None = None
  e1 = e1  e2 = e2
  b1 = b1  b2 = b2
  v1 = v1
  a1 = a1
  agent = agent  tester = tester
  pay = pay  lend = lend  leak = leak
  act1 = act1
  Evals <- TwoEvals
  Execs <- NoExecs
  Verifies <- NoVerifies
  Admins <- NoAdmins
  EvalInputs <- PolicyPay
  ExecInputs <- ExecutePay
  VerifyInputs <- VerifyFirst
  AdminInputs <- RevokeOrKill
  Agents = {agent, tester}
  TestAgents = {tester}
  Actions <- AllActions
  SuppliedIds = {act1}
  Ttl <- ShortTtl
  AuthExpiry <- Unbounded
  PolicyDecision <- Decisions
  RuntimeAllows <- Allowed
  KeyPersistent = TRUE
  MaxTime = 0
  MaxRestarts = 0
CHECK_DEADLOCK FALSE
INVARIANTS ReceiptChainLinear
