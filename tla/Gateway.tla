------------------------------- MODULE Gateway -------------------------------
(***************************************************************************)
(* Cyraduct's authorization path as it runs: one uvicorn process over the  *)
(* shared database.                                                        *)
(*                                                                         *)
(*   evaluate requests  routers/attested.py evaluate (mode "policy") and   *)
(*                      routers/runtime.py evaluate_runtime ("runtime"):   *)
(*                      decide, issue a receipt, save it, audit            *)
(*   execute requests   routers/broker.py execute: check a receipt, claim  *)
(*                      it, POST the action to the execution webhook,      *)
(*                      audit the outcome                                  *)
(*   verify requests    attested.py verify: what a sink asks before it     *)
(*                      acts on a receipt itself                           *)
(*   admin requests     attested.py revoke and revoke_agent, admin.py      *)
(*                      set_kill_switch                                    *)
(*                                                                         *)
(* Evaluate, verify and admin handlers are sync functions: each runs in a  *)
(* thread of its own and every storage call is a step others interleave    *)
(* with.                                                                    *)
(* execute is a coroutine whose storage calls are synchronous: it holds    *)
(* the event loop from its first step to the POST, and again from the      *)
(* answer to its return, so two execute requests interleave only there.    *)
(*                                                                         *)
(* Any handler may be abandoned at any step by an exception (a database    *)
(* error, an httpx error that is not a RequestError), and the process may  *)
(* crash and be restarted, which abandons every request in flight.  A POST *)
(* already on the wire survives both.                                      *)
(***************************************************************************)
EXTENDS ReceiptStore, FiniteSets

CONSTANTS
  Execs, Verifies,   \* execute and verify requests
  Admins,            \* admin requests
  EvalInputs,        \* bodies an evaluate request may carry
  ExecInputs,        \* bodies an execute request may carry
  VerifyInputs,      \* receipts a verify request may ask about
  AdminInputs,       \* operations an admin request may ask for
  TestAgents,        \* agents in the test namespace
  PolicyDecision,    \* [Actions -> decision of policy_engine.evaluate]
  RuntimeAllows,     \* actions runtime.evaluate allows while unexpired
  KeyPersistent,     \* the signing key survives a restart
  MaxTime,           \* bound on the clock
  MaxRestarts        \* bound on crashes

Requests == Evals \cup Execs \cup Verifies \cup Admins

EvalInput == [mode: Modes, agent_id: Agents, action: Actions, facts: Facts,
              action_id: SuppliedIds \cup {None}]
ExecInput == [receipt_id: Evals, agent_id: Agents, action: Actions,
              facts: Facts, action_id: ActionIds \cup {None},
              record: {"absent", "bad", "genuine"}, safe_url: BOOLEAN]
VerifyInput == [receipt_id: Evals]
AdminInput == [op: {"revoke"}, id: Evals, key: {"full", "test", "bad"}]
  \cup [op: {"revoke_agent"}, agent: Agents, key: {"full", "test", "bad"}]
  \cup [op: {"kill_switch"}, active: BOOLEAN, key: {"full", "test", "bad"}]

ASSUME RequestsAssumption ==
  /\ Evals \cap Execs = {} /\ Evals \cap Admins = {} /\ Execs \cap Admins = {}
  /\ Verifies \cap (Evals \cup Execs \cup Admins) = {}
ASSUME InputsAssumption ==
  /\ EvalInputs \subseteq EvalInput
  /\ ExecInputs \subseteq ExecInput
  /\ VerifyInputs \subseteq VerifyInput
  /\ AdminInputs \subseteq AdminInput
  /\ None \notin EvalInput \cup ExecInput \cup VerifyInput \cup AdminInput
ASSUME PolicyAssumption ==
  /\ PolicyDecision \in [Actions -> {"allow", "conditional", "deny"}]
  /\ RuntimeAllows \subseteq Actions
  /\ TestAgents \subseteq Agents
ASSUME BoundsAssumption ==
  /\ KeyPersistent \in BOOLEAN
  /\ MaxTime \in Nat
  /\ MaxRestarts \in Nat

VARIABLES
  now,        \* the clock
  restarts,   \* restarts of the process so far
  pc,         \* where each request's handler stands
  input,      \* what each request carries
  draft,      \* evaluate: the receipt built and not yet saved
  held,       \* execute: the receipt read and admitted by every check
  call,       \* execute: "none", then claimed, sent, then delivered or lost
  executed,   \* execute: the handler's executed flag
  loop,       \* the execute request holding the event loop, or None
  audit,      \* the audit entry each handler appended
  arrival,    \* history: what held when an execute or verify request came
  shut        \* history: requests that arrived under an active kill switch
              \* which has been active ever since

procVars == <<pc, input, draft, held, call, executed, loop, audit>>
history  == <<arrival, shut>>
vars == <<storeVars, procVars, history, now, restarts>>

PCs == {"idle", "received", "linking", "saving", "looking", "checked",
        "claimed", "waiting", "reading", "revoking", "blocked", "auditing",
        "done", "aborted"}
Finished == {"done", "aborted"}
Events == {"evaluate", "blocked", "broker_executed", "receipt_verified",
           "receipt_revoked", "kill_switch_changed"}
ASSUME EventsAssumption == None \notin Events

SigningKey == IF KeyPersistent THEN 0 ELSE restarts

(* The process, its configuration and its database at first start-up. *)
Init ==
  /\ StoreInit
  /\ now = 0
  /\ restarts = 0
  /\ pc = [r \in Requests |-> "idle"]
  /\ input = [r \in Requests |-> None]
  /\ draft = [e \in Evals |-> None]
  /\ held = [b \in Execs |-> None]
  /\ call = [b \in Execs |-> "none"]
  /\ executed = [b \in Execs |-> FALSE]
  /\ loop = None
  /\ audit = [r \in Requests |-> None]
  /\ arrival = [r \in Execs \cup Verifies |-> None]
  /\ shut = {}

Goto(r, from, to) == pc[r] = from /\ pc' = [pc EXCEPT ![r] = to]

Record(r, event) == audit' = [audit EXCEPT ![r] = event]

(* A request reaches its handler with some body.  One that the rate limit   *)
(* turns away, or that lacks the service key of runtime evaluate or of      *)
(* execute, is answered before any state is read, and never gets here.      *)
Receive(r, inputs) ==
  /\ Goto(r, "idle", "received")
  /\ \E i \in inputs : input' = [input EXCEPT ![r] = i]
  /\ shut' = IF kill_switch THEN shut \cup {r} ELSE shut
  /\ UNCHANGED <<storeVars, draft, held, call, executed, loop, audit,
                 now, restarts>>

(* What holds as it arrives is remembered. *)
ReceiveDated(r, inputs) ==
  /\ Receive(r, inputs)
  /\ arrival' = [arrival EXCEPT ![r] =
       [at |-> now, key |-> SigningKey,
        revoked |-> {id \in Stored : receipts[id].revoked}]]

ReceiveOther(r, inputs) == Receive(r, inputs) /\ UNCHANGED arrival

-----------------------------------------------------------------------------
(* Evaluate: attested.evaluate and runtime.evaluate_runtime.                *)

(* policy_engine.evaluate: facts that were not derived from a verified       *)
(* record are refused; the rest is the verdict of the policy pack.          *)
PolicyEvaluate(req) ==
  IF req.facts = "forged" THEN "deny" ELSE PolicyDecision[req.action]

(* runtime.evaluate does not look at the facts.  It reads the clock: an     *)
(* authorization at or past its expiry is sent back for reauthorization.    *)
RuntimeEvaluate(req) ==
  IF /\ req.action \in RuntimeAllows
     /\ AuthExpiry[req.action] = None \/ now < AuthExpiry[req.action]
  THEN "allow" ELSE "deny"

Decision(req) ==
  IF req.mode = "policy" THEN PolicyEvaluate(req) ELSE RuntimeEvaluate(req)

(* get_kill_switch, then the decision: both only read. *)
Evaluate(e) ==
  /\ pc[e] = "received"
  /\ pc' = [pc EXCEPT ![e] =
       IF kill_switch THEN "blocked"
       ELSE IF Decision(input[e]) = "deny" THEN "auditing" ELSE "linking"]
  /\ UNCHANGED <<storeVars, input, draft, held, call, executed, loop, audit,
                 history, now, restarts>>

(* A faulty variant: the agent's chain moves on when the receipt is built,  *)
(* not in the transaction that saves it.                                    *)
Issue_ChainFirst(e) ==
  LET req == input[e]
      new == IssueReceipt(e, req, "allow", agent_chain[req.agent_id], now,
                          SigningKey)
  IN  /\ Goto(e, "linking", "saving")
      /\ draft' = [draft EXCEPT ![e] = new]
      /\ agent_chain' = [agent_chain EXCEPT ![req.agent_id] = new.action_hash]
      /\ UNCHANGED <<receipts, kill_switch, input, held, call, executed, loop,
                     audit, history, now, restarts>>

(* get_last_receipt_hash, then the receipt is built and signed in memory.   *)
(* An allow decided earlier stands even when the clock has moved on.        *)
Issue(e) ==
  LET req == input[e]
      decision == IF req.mode = "policy" THEN PolicyDecision[req.action]
                                         ELSE "allow"
  IN  /\ Goto(e, "linking", "saving")
      /\ draft' = [draft EXCEPT ![e] =
           IssueReceipt(e, req, decision, agent_chain[req.agent_id], now,
                        SigningKey)]
      /\ UNCHANGED <<storeVars, input, held, call, executed, loop, audit,
                     history, now, restarts>>

Save(e) ==
  /\ Goto(e, "saving", "auditing")
  /\ SaveReceipt(draft[e])
  /\ UNCHANGED <<input, draft, held, call, executed, loop, audit,
                 history, now, restarts>>

AuditEvaluate(e) ==
  /\ pc[e] \in {"auditing", "blocked"}
  /\ pc' = [pc EXCEPT ![e] = "done"]
  /\ Record(e, IF pc[e] = "blocked" THEN "blocked" ELSE "evaluate")
  /\ UNCHANGED <<storeVars, input, draft, held, call, executed, loop,
                 history, now, restarts>>

EvaluateStep(e) == Evaluate(e) \/ Issue(e) \/ Save(e) \/ AuditEvaluate(e)

-----------------------------------------------------------------------------
(* Execute: broker.execute.                                                 *)

(* A faulty variant: the broker does not read the kill switch. *)
Admit_NoKillSwitch(b) ==
  /\ loop = None
  /\ loop' = b
  /\ Goto(b, "received", "looking")
  /\ UNCHANGED <<storeVars, input, draft, held, call, executed, audit,
                 history, now, restarts>>

(* The coroutine is scheduled and reads the kill switch. *)
Admit(b) ==
  /\ loop = None
  /\ loop' = b
  /\ pc[b] = "received"
  /\ pc' = [pc EXCEPT ![b] = IF kill_switch THEN "blocked" ELSE "looking"]
  /\ UNCHANGED <<storeVars, input, draft, held, call, executed, audit,
                 history, now, restarts>>

(* The broker derives the assurance facts itself when the receipt carries   *)
(* some; they replace whatever the request claimed.                         *)
Presented(b, r) ==
  IF r.evidence_assurance = "none" THEN input[b]
  ELSE [input[b] EXCEPT !.facts = "genuine"]

(* A faulty variant: a revoked receipt is as good as any other. *)
Valid_Revoked(row) ==
  VerifySignature(row.data, SigningKey) /\ ~IsExpired(row.data, now)

Valid(row) ==
  /\ ~row.revoked
  /\ VerifySignature(row.data, SigningKey)
  /\ ~IsExpired(row.data, now)

EvidenceVerified(b, r) ==
  r.evidence_assurance # "none" => input[b].record = "genuine"

Authorized(b, r) ==
  /\ VerifyBinding(r, Presented(b, r))
  /\ r.decision = "allow"
  /\ input[b].safe_url

(* get_receipt and every check made on the copy it returned.  The refusal   *)
(* of unverified evidence returns without an audit entry; the others go     *)
(* through one.                                                             *)
CheckReceipt(b) ==
  LET id == input[b].receipt_id
      row == receipts[id]
      found == id \in Stored
  IN  /\ pc[b] = "looking"
      /\ \/ /\ found /\ Valid(row)
            /\ EvidenceVerified(b, row.data) /\ Authorized(b, row.data)
            /\ pc' = [pc EXCEPT ![b] = "checked"]
            /\ held' = [held EXCEPT ![b] = row.data]
            /\ UNCHANGED loop
         \/ /\ found /\ Valid(row) /\ ~EvidenceVerified(b, row.data)
            /\ pc' = [pc EXCEPT ![b] = "done"]
            /\ loop' = None
            /\ UNCHANGED held
         \/ /\ (found /\ Valid(row)) => /\ EvidenceVerified(b, row.data)
                                       /\ ~Authorized(b, row.data)
            /\ pc' = [pc EXCEPT ![b] = "blocked"]
            /\ UNCHANGED <<held, loop>>
      /\ UNCHANGED <<storeVars, input, draft, call, executed, audit,
                     history, now, restarts>>

(* mark_receipt_consumed: only the execute request that finds the receipt   *)
(* unconsumed goes on.                                                      *)
Claim(b) ==
  LET id == held[b].receipt_id
  IN  /\ pc[b] = "checked"
      /\ \/ /\ Consumable(id)
            /\ MarkReceiptConsumed(id, now)
            /\ pc' = [pc EXCEPT ![b] = "claimed"]
            /\ call' = [call EXCEPT ![b] = "claimed"]
         \/ /\ ~Consumable(id)
            /\ pc' = [pc EXCEPT ![b] = "blocked"]
            /\ UNCHANGED <<storeVars, call>>
      /\ UNCHANGED <<input, draft, held, executed, loop, audit,
                     history, now, restarts>>

(* await client.post: the request goes out and the event loop is released. *)
Post(b) ==
  /\ Goto(b, "claimed", "waiting")
  /\ call' = [call EXCEPT ![b] = "sent"]
  /\ loop' = None
  /\ UNCHANGED <<storeVars, input, draft, held, executed, audit,
                 history, now, restarts>>

(* The webhook gets the request, or never does.  Both may happen after the  *)
(* broker stopped waiting.                                                  *)
Deliver(b) ==
  /\ call[b] = "sent"
  /\ call' = [call EXCEPT ![b] = "delivered"]
  /\ UNCHANGED <<storeVars, pc, input, draft, held, executed, loop, audit,
                 history, now, restarts>>

Lose(b) ==
  /\ call[b] = "sent"
  /\ call' = [call EXCEPT ![b] = "lost"]
  /\ UNCHANGED <<storeVars, pc, input, draft, held, executed, loop, audit,
                 history, now, restarts>>

(* The webhook that got the call begins its answer, or falls silent in the  *)
(* middle of it.  timeout=10.0 bounds each connect, read and write and not  *)
(* the call: every piece that comes in puts the timeout off once more.      *)
Trickle(b) ==
  /\ call[b] = "delivered"
  /\ pc[b] \in {"waiting", "reading"}
  /\ pc' = [pc EXCEPT ![b] = IF pc[b] = "waiting" THEN "reading" ELSE "waiting"]
  /\ UNCHANGED <<storeVars, input, draft, held, call, executed, loop, audit,
                 history, now, restarts>>

(* A faulty variant: a timeout is taken for success. *)
Outcomes_AssumeSuccess(b) == BOOLEAN

(* A faulty variant: the client waits without a timeout. *)
Outcomes_NoTimeout(b) == IF call[b] = "delivered" THEN BOOLEAN ELSE {}

(* How the await may end: an answer below 400 from the webhook that got the *)
(* call, or an answer of 400 and up or an httpx.RequestError (refused,      *)
(* reset, ten seconds of silence), the latter at any time.                  *)
Outcomes(b) == {ok \in BOOLEAN : ok => call[b] = "delivered"}

Answer(b) ==
  /\ loop = None
  /\ loop' = b
  /\ pc[b] \in {"waiting", "reading"}
  /\ pc' = [pc EXCEPT ![b] = "auditing"]
  /\ \E ok \in Outcomes(b) : executed' = [executed EXCEPT ![b] = ok]
  /\ UNCHANGED <<storeVars, input, draft, held, call, audit,
                 history, now, restarts>>

AuditExecute(b) ==
  /\ pc[b] \in {"auditing", "blocked"}
  /\ pc' = [pc EXCEPT ![b] = "done"]
  /\ Record(b, IF pc[b] = "blocked" THEN "blocked" ELSE "broker_executed")
  /\ loop' = None
  /\ UNCHANGED <<storeVars, input, draft, held, call, executed,
                 history, now, restarts>>

ExecuteStep(b) ==
  \/ Admit(b) \/ CheckReceipt(b) \/ Claim(b) \/ Post(b) \/ Answer(b)
  \/ AuditExecute(b)

-----------------------------------------------------------------------------
(* Verify: attested.verify.                                                 *)

(* get_receipt and the checks of the copy it returned.  Only a receipt that *)
(* passes them all is put on record; the kill switch is not looked at.      *)
CheckVerify(v) ==
  LET id == input[v].receipt_id
  IN  /\ pc[v] = "received"
      /\ pc' = [pc EXCEPT ![v] =
           IF id \in Stored /\ Valid(receipts[id]) THEN "auditing" ELSE "done"]
      /\ UNCHANGED <<storeVars, input, draft, held, call, executed, loop,
                     audit, history, now, restarts>>

(* The entry, then the answer: valid. *)
AuditVerify(v) ==
  /\ Goto(v, "auditing", "done")
  /\ Record(v, "receipt_verified")
  /\ UNCHANGED <<storeVars, input, draft, held, call, executed, loop,
                 history, now, restarts>>

VerifyStep(v) == CheckVerify(v) \/ AuditVerify(v)

-----------------------------------------------------------------------------
(* Admin: attested.revoke, attested.revoke_agent, admin.set_kill_switch.    *)

(* A faulty variant: the test key is not confined to its namespace. *)
MayRevoke_AnyKey(key, agent) == key \in {"full", "test"}

(* require_full_admin and require_admin_or_scoped_test: the scoped test key *)
(* may only touch agents in the test namespace.                             *)
MayRevoke(key, agent) == key = "full" \/ (key = "test" /\ agent \in TestAgents)

(* get_receipt, then the key is checked against the receipt's agent. *)
FindRevokee(a) ==
  LET i == input[a]
  IN  /\ pc[a] = "received"
      /\ i.op = "revoke"
      /\ pc' = [pc EXCEPT ![a] =
           IF i.id \in Stored /\ MayRevoke(i.key, receipts[i.id].data.agent_id)
           THEN "revoking" ELSE "done"]
      /\ UNCHANGED <<storeVars, input, draft, held, call, executed, loop,
                     audit, history, now, restarts>>

(* A faulty variant: the handler returns as soon as the row is updated. *)
Revoke_Unrecorded(a) ==
  /\ Goto(a, "revoking", "done")
  /\ RevokeReceipt(input[a].id)
  /\ UNCHANGED <<input, draft, held, call, executed, loop, audit,
                 history, now, restarts>>

Revoke(a) ==
  /\ Goto(a, "revoking", "auditing")
  /\ RevokeReceipt(input[a].id)
  /\ UNCHANGED <<input, draft, held, call, executed, loop, audit,
                 history, now, restarts>>

RevokeAgent(a) ==
  LET i == input[a]
  IN  /\ pc[a] = "received"
      /\ i.op = "revoke_agent"
      /\ IF MayRevoke(i.key, i.agent)
         THEN pc' = [pc EXCEPT ![a] = "auditing"] /\ RevokeByAgent(i.agent)
         ELSE pc' = [pc EXCEPT ![a] = "done"] /\ UNCHANGED storeVars
      /\ UNCHANGED <<input, draft, held, call, executed, loop, audit,
                     history, now, restarts>>

SwitchKill(a) ==
  LET i == input[a]
  IN  /\ pc[a] = "received"
      /\ i.op = "kill_switch"
      /\ IF i.key = "full"
         THEN /\ pc' = [pc EXCEPT ![a] = "auditing"]
              /\ SetKillSwitch(i.active)
              /\ shut' = IF i.active THEN shut ELSE {}
         ELSE /\ pc' = [pc EXCEPT ![a] = "done"]
              /\ UNCHANGED <<storeVars, shut>>
      /\ UNCHANGED <<input, draft, held, call, executed, loop, audit,
                     arrival, now, restarts>>

AuditAdmin(a) ==
  /\ Goto(a, "auditing", "done")
  /\ Record(a, IF input[a].op = "kill_switch" THEN "kill_switch_changed"
                                              ELSE "receipt_revoked")
  /\ UNCHANGED <<storeVars, input, draft, held, call, executed, loop,
                 history, now, restarts>>

AdminStep(a) ==
  FindRevokee(a) \/ Revoke(a) \/ RevokeAgent(a) \/ SwitchKill(a) \/ AuditAdmin(a)

-----------------------------------------------------------------------------
InFlight(r) == pc[r] \notin Finished \cup {"idle"}

(* An exception leaves the handler: the caller gets a 500. *)
Abort(r) ==
  /\ InFlight(r)
  /\ pc' = [pc EXCEPT ![r] = "aborted"]
  /\ loop' = IF loop = r THEN None ELSE loop
  /\ UNCHANGED <<storeVars, input, draft, held, call, executed, audit,
                 history, now, restarts>>

(* The process dies and is started again over the same database. *)
Restart ==
  /\ restarts < MaxRestarts
  /\ restarts' = restarts + 1
  /\ pc' = [r \in Requests |-> IF InFlight(r) THEN "aborted" ELSE pc[r]]
  /\ loop' = None
  /\ UNCHANGED <<storeVars, input, draft, held, call, executed, audit,
                 history, now>>

Tick ==
  /\ now < MaxTime
  /\ now' = now + 1
  /\ UNCHANGED <<storeVars, procVars, history, restarts>>

Next ==
  \/ \E e \in Evals : ReceiveOther(e, EvalInputs) \/ EvaluateStep(e)
  \/ \E b \in Execs : \/ ReceiveDated(b, ExecInputs) \/ ExecuteStep(b)
                      \/ Deliver(b) \/ Lose(b) \/ Trickle(b)
  \/ \E v \in Verifies : ReceiveDated(v, VerifyInputs) \/ VerifyStep(v)
  \/ \E a \in Admins : ReceiveOther(a, AdminInputs) \/ AdminStep(a)
  \/ \E r \in Requests : Abort(r)
  \/ Restart
  \/ Tick

Spec == Init /\ [][Next]_vars

(* A thread of the pool runs on, the event loop resumes a ready coroutine,  *)
(* and ten seconds of silence end a wait.  A webhook in the middle of its   *)
(* answer may go on with it for ever: that it ends is not assumed, nor is   *)
(* anything else of callers, the webhook, crashes or the clock.             *)
Fairness ==
  /\ \A e \in Evals : WF_vars(EvaluateStep(e))
  /\ \A b \in Execs : WF_vars(pc[b] # "reading" /\ ExecuteStep(b))
  /\ \A v \in Verifies : WF_vars(VerifyStep(v))
  /\ \A a \in Admins : WF_vars(AdminStep(a))

FairSpec == Spec /\ Fairness
=============================================================================
