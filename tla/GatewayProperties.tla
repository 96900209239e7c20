-------------------------- MODULE GatewayProperties --------------------------
(* What the authorization path of module Gateway guarantees.               *)
EXTENDS Gateway

Out == {"sent", "delivered", "lost"}

(* Execute requests whose POST left the process. *)
Posted == {b \in Execs : call[b] \in Out}

(* Execute requests whose claim of a receipt succeeded. *)
Claimed == {b \in Execs : call[b] # "none"}

(* The types of all variables; a receipt in memory is a well-formed one, a  *)
(* row of the table holds the receipt of its own id.                        *)
TypeOK ==
  /\ StoreTypeOK
  /\ now \in Nat
  /\ restarts \in Nat
  /\ pc \in [Requests -> PCs]
  /\ input \in [Requests -> EvalInput \cup ExecInput \cup VerifyInput
                          \cup AdminInput \cup {None}]
  /\ draft \in [Evals -> Receipt \cup {None}]
  /\ held \in [Execs -> Receipt \cup {None}]
  /\ call \in [Execs -> {"none", "claimed"} \cup Out]
  /\ executed \in [Execs -> BOOLEAN]
  /\ loop \in Execs \cup {None}
  /\ audit \in [Requests -> Events \cup {None}]
  /\ arrival \in [Execs \cup Verifies ->
                    [at: Nat, key: Nat, revoked: SUBSET Evals] \cup {None}]
  /\ shut \subseteq Requests

(* What a handler carries from step to step is what its steps rely on.      *)
Carried ==
  /\ \A e \in Evals : pc[e] # "idle" => input[e] \in EvalInput
  /\ \A b \in Execs : pc[b] # "idle" => input[b] \in ExecInput
  /\ \A v \in Verifies : pc[v] # "idle" => input[v] \in VerifyInput
  /\ \A a \in Admins : pc[a] # "idle" => input[a] \in AdminInput
  /\ \A e \in Evals : pc[e] = "linking" /\ input[e].mode = "policy" =>
       PolicyDecision[input[e].action] # "deny"
  /\ \A a \in Admins : pc[a] = "revoking" =>
       input[a].op = "revoke" /\ input[a].id \in Stored
  /\ \A e \in Evals : pc[e] = "saving" =>
       draft[e] \in Receipt /\ draft[e].receipt_id = e
  /\ \A b \in Execs : pc[b] = "checked" => held[b] # None
  /\ \A b \in Execs : pc[b] \in {"idle", "received", "looking"} => held[b] = None
  /\ \A b \in Execs : pc[b] \in {"idle", "received", "looking", "checked"} =>
       call[b] = "none"
  /\ \A b \in Execs : pc[b] = "claimed" => call[b] = "claimed"
  /\ \A b \in Execs : call[b] = "claimed" => pc[b] \in {"claimed", "aborted"}

(* A receipt enters the store once, before anyone holds it; it is consumed  *)
(* exactly by the one execute request that claimed it.                      *)
ClaimsLinked ==
  /\ \A id \in Stored : receipts[id].data.receipt_id = id
  /\ \A e \in Stored : pc[e] \in {"auditing", "done", "aborted"}
  /\ \A b \in Execs : held[b] # None =>
       held[b].receipt_id \in Stored /\ receipts[held[b].receipt_id].data = held[b]
  /\ \A b \in Claimed :
       held[b] # None /\ receipts[held[b].receipt_id].consumed_at # None
  /\ \A b, c \in Claimed : held[b].receipt_id = held[c].receipt_id => b = c
  /\ \A id \in Stored : receipts[id].consumed_at # None =>
       \E b \in Claimed : held[b].receipt_id = id

(* The inductive invariant behind OneCallPerReceipt and ClaimsAccounted.    *)
IInv == TypeOK /\ Carried /\ ClaimsLinked

(* No receipt is good for two calls, whatever is retried, raced, timed out, *)
(* aborted or restarted in between: the replay guard of                     *)
(* mark_receipt_consumed holds over any number of execute requests.         *)
OneCallPerReceipt ==
  \A b, c \in Posted : held[b].receipt_id = held[c].receipt_id => b = c

(* The request an evaluate handler would have to have decided on to allow   *)
(* what the execute request b asks for.                                     *)
AllowedBy(e, b) ==
  LET asked == input[e]  given == input[b]
  IN  /\ given.agent_id = asked.agent_id
      /\ given.action = asked.action
      /\ asked.mode = "policy" => PolicyDecision[asked.action] = "allow"
      /\ asked.mode = "runtime" => /\ asked.action \in RuntimeAllows
                                   /\ asked.action_id \in {None, given.action_id}
      /\ asked.facts # "none" => /\ asked.facts = "genuine"
                                 /\ given.record = "genuine"

(* What leaves the broker is what an evaluation allowed: same agent, same   *)
(* content, decision allow (a conditional or deny never gets out), evidence *)
(* facts backed by a verified record, under a receipt stored and signed     *)
(* with the key that was in use when the execute request arrived.           *)
PostedAsAuthorized ==
  \A b \in Posted :
    LET e == held[b].receipt_id
    IN  /\ e \in Stored
        /\ receipts[e].data = held[b]
        /\ held[b].key = arrival[b].key
        /\ AllowedBy(e, b)

(* Authority already gone when an execute request arrives never lets its    *)
(* call out: the receipt was revoked or past its expiry by then.            *)
StaleAuthorityRefused ==
  \A b \in Posted : /\ held[b].receipt_id \notin arrival[b].revoked
                    /\ arrival[b].at <= held[b].expires_at

(* The answer "valid" is of a stored receipt that was, when the sink asked, *)
(* neither revoked nor past its expiry, and signed by the key in use.  What *)
(* happens to it between the read and the answer is not promised.           *)
VerifiedWasLive ==
  \A v \in Verifies : audit[v] = "receipt_verified" =>
    LET id == input[v].receipt_id
    IN  /\ id \in Stored \ arrival[v].revoked
        /\ arrival[v].at <= receipts[id].data.expires_at
        /\ receipts[id].data.key = arrival[v].key

(* A request that has seen nothing but an active kill switch since it       *)
(* arrived neither puts a receipt in the store nor spends one.              *)
KillSwitchStops == shut \cap (Stored \cup Claimed) = {}

(* The consumed_at column and the claims of handlers agree: a receipt is    *)
(* consumed exactly when one execute request claimed it, and a claimed      *)
(* receipt whose call was never made belongs to a handler about to make it  *)
(* or to one that died in between.                                          *)
ClaimsAccounted ==
  /\ \A id \in Stored :
       receipts[id].consumed_at # None <=>
         \E b \in Claimed : held[b].receipt_id = id
  /\ \A b, c \in Claimed : held[b].receipt_id = held[c].receipt_id => b = c
  /\ \A b \in Claimed \ Posted : pc[b] \in {"claimed", "aborted"}

(* The life of a stored receipt: it is never deleted or rewritten, never    *)
(* un-revoked, and consumed_at is set once and never moved.                 *)
RowEvolves(old, new) ==
  /\ new # None
  /\ new.data = old.data
  /\ old.revoked => new.revoked
  /\ old.consumed_at # None => new.consumed_at = old.consumed_at

ReceiptLifecycle ==
  [][\A id \in Stored : RowEvolves(receipts[id], receipts'[id])]_vars

(* The per-agent chain never dangles, whatever is aborted between reading   *)
(* the head and saving: the link a receipt carries, and the head the next   *)
(* one would carry, are hashes of receipts of the same agent that are in    *)
(* the store, and a link is to a receipt issued no later.                   *)
Links(id) ==
  {p \in Stored : /\ receipts[p].data.agent_id = receipts[id].data.agent_id
                  /\ receipts[p].data.action_hash = receipts[id].data.prev_receipt_hash
                  /\ receipts[p].data.issued_at <= receipts[id].data.issued_at}

ChainGrounded ==
  /\ \A id \in Stored : receipts[id].data.prev_receipt_hash # None => Links(id) # {}
  /\ \A a \in Agents :
       LET hashes == {receipts[id].data.action_hash : id \in
                        {x \in Stored : receipts[x].data.agent_id = a}}
       IN  IF hashes = {} THEN agent_chain[a] = None ELSE agent_chain[a] \in hashes

(* Whether the operation i, with its key, covers the receipt id. *)
Covers(i, id) ==
  LET owner == receipts[id].data.agent_id
  IN  /\ \/ i.op = "revoke" /\ i.id = id
         \/ i.op = "revoke_agent" /\ i.agent = owner
      /\ i.key = "full" \/ (i.key = "test" /\ owner \in TestAgents)

(* An admin request whose handler has put the event on record, or has yet   *)
(* to reach that step, or failed before it.                                 *)
OnRecord(a, event) == audit[a] = event \/ pc[a] \in {"auditing", "aborted"}

(* The audit log may miss an effect only because the handler that made it   *)
(* failed before its last step.  A receipt issued or a call made by a       *)
(* handler that returned is on record; a receipt that is revoked, and a     *)
(* kill switch that is on, owe it to an admin request that is on record or  *)
(* did not return.  And no entry claims more than happened: executed means  *)
(* the webhook got the call, receipt_revoked for a receipt that it is       *)
(* revoked, receipt_revoked for an agent that the key may speak for it.     *)
AuditFaithful ==
  /\ \A e \in Stored : pc[e] = "done" => audit[e] = "evaluate"
  /\ \A b \in Claimed : pc[b] = "done" => audit[b] = "broker_executed"
  /\ \A b \in Execs : audit[b] = "broker_executed" =>
       b \in Posted /\ (executed[b] => call[b] = "delivered")
  /\ \A id \in Stored : receipts[id].revoked =>
       \E a \in Admins : Covers(input[a], id) /\ OnRecord(a, "receipt_revoked")
  /\ kill_switch =>
       \E a \in Admins : /\ input[a].op = "kill_switch" /\ input[a].active
                         /\ OnRecord(a, "kill_switch_changed")
  /\ \A a \in Admins : audit[a] = "receipt_revoked" =>
       \/ input[a].op = "revoke" /\ Covers(input[a], input[a].id)
            /\ receipts[input[a].id].revoked
       \/ input[a].op = "revoke_agent" /\ MayRevoke(input[a].key, input[a].agent)

(* Every revocation is the doing of an admin request whose key covers the   *)
(* agent; the scoped test key reaches the test namespace only, and the kill *)
(* switch is only ever on because a full-key request switched it.           *)
AdminScoped ==
  /\ \A id \in Stored : receipts[id].revoked =>
       \E a \in Admins : pc[a] \notin {"idle", "received"} /\ Covers(input[a], id)
  /\ kill_switch =>
       \E a \in Admins : /\ pc[a] \notin {"idle", "received"}
                         /\ input[a].op = "kill_switch" /\ input[a].key = "full"


(* The authorization path implements the one-call-per-grant promise. *)
Promise == INSTANCE ExecutionGrants WITH
  Grants <- Evals,
  Calls <- Execs,
  granted <- Stored,
  withdrawn <- {id \in Stored : receipts[id].revoked},
  admitted <- [b \in Execs |-> IF held[b] = None THEN {} ELSE {held[b].receipt_id}],
  winner <- [id \in Evals |-> {b \in Claimed : held[b].receipt_id = id}],
  made <- Posted

KeepsPromise == Promise!GrantsSpec

-----------------------------------------------------------------------------
(* Statements of the repository's documentation that the code does not keep *)

(* "Receipts are additionally chained per-agent" (app/storage.py:18): each  *)
(* receipt links to the one before it, so no two receipts of an agent share *)
(* a predecessor.                                                           *)
ReceiptChainLinear ==
  \A p, q \in Stored :
    /\ receipts[p].data.agent_id = receipts[q].data.agent_id
    /\ receipts[p].data.prev_receipt_hash = receipts[q].data.prev_receipt_hash
    => p = q

(* consumed_at is "set on first successful broker execution"                *)
(* (app/models.py:214): a receipt whose handlers have all returned is       *)
(* consumed only if the webhook accepted its call.                          *)
ConsumedOnlyBySuccess ==
  \A b \in Claimed : pc[b] \in Finished => executed[b]

Posts(b) == call[b] = "claimed" /\ call'[b] = "sent"

(* "A revoked receipt must be rejected before the execution client is       *)
(* called" and "an expired receipt must never reach the execution client"   *)
(* (tests/test_conformance.py:293, 395).                                    *)
NoPostWithoutAuthority ==
  [][\A b \in Execs : Posts(b) =>
       ~receipts[held[b].receipt_id].revoked /\ now <= held[b].expires_at]_vars

(* A sink must "refuse to act without a valid, unexpired, unrevoked receipt"*)
(* (app/routers/attested.py:5-6), and a receipt is unrevoked as the answer  *)
(* that says so is sent.                                                    *)
VerifiedIsLive ==
  [][\A v \in Verifies : audit[v] = None /\ audit'[v] = "receipt_verified" =>
       ~receipts[input[v].receipt_id].revoked]_vars
=============================================================================
