SPECIFICATION Spec
CONSTANTS
  None = None
  e1 = e1  e2 = e2
  b1 = b1  b2 = b2
  v1 = v1
  a1 = a1
  agent = agent  tester = tester
  pay = pay  lend = lend  leak = leak
  act1 = act1
  Evals <- OneEval
  Execs <- OneExec
  Verifies <- OneVerify
  Admins <- OneAdmin
  EvalInputs <- PolicyPay
  ExecInputs <- ExecutePay
  VerifyInputs <- VerifyFirst
  AdminInputs <- RevokeOrKill
  Agents = {agent, tester}
  TestAgents = {tester}
  Actions <- AllActions
  SuppliedIds = {act1}
  Ttl <- ShortTtl
  AuthExpiry <- Unbounded
  PolicyDecision <- Decisions
  RuntimeAllows <- Allowed
  KeyPersistent = FALSE
  MaxTime = 2
  MaxRestarts = 1
CHECK_DEADLOCK FALSE
INVARIANTS StaleAuthorityRefused VerifiedWasLive KillSwitchStops AuditFaithful
PROPERTIES ReceiptLifecycle
