------------------------------ MODULE Receipts ------------------------------
(***************************************************************************)
(* The receipt: the signed authorization Cyraduct issues for one action,   *)
(* the canonical envelope it is bound to and the checks made on it         *)
(* (app/receipts.py, app/canonical.py).                                    *)
(*                                                                         *)
(* Data is abstracted to what the properties tell apart.  An Action stands *)
(* for every request field of the envelope that is not named separately    *)
(* (type, class, payload, purpose, policy pack, target, idempotency key,   *)
(* state versions, authorization expiry, ...).  SHA-256 of canonical JSON  *)
(* is injective: the hash of an envelope is the envelope.  A signature is  *)
(* the signing key it was made with: the claims of a stored receipt are    *)
(* never rewritten, so it verifies exactly under that key.  Receipt ids    *)
(* are uuids: a receipt's id is the evaluate request that issued it.       *)
(***************************************************************************)
EXTENDS Integers

CONSTANTS
  Evals,         \* evaluate requests; also the receipt ids and fresh action ids
  Agents,        \* agent_id values
  Actions,       \* request contents
  SuppliedIds,   \* action_id values a runtime caller supplies itself
  None,          \* Python's None
  Ttl,           \* [Actions -> Nat]: expiry_for(consequence_class), in ticks
  AuthExpiry     \* [Actions -> Nat \cup {None}]: authorization_expires_at

Modes == {"policy", "runtime"}
ActionIds == Evals \cup SuppliedIds

(* evidence_assurance: absent, the facts of a genuinely signed INDEPORA     *)
(* record, or facts a caller made up.                                       *)
Facts == {"none", "genuine", "forged"}

Hashes == [mode: Modes, action_id: ActionIds, agent_id: Agents,
           action: Actions, facts: Facts]

Receipt == [receipt_id: Evals, action_id: ActionIds,
            decision: {"allow", "conditional"}, authorization_type: Modes,
            agent_id: Agents, evidence_assurance: Facts,
            issued_at: Nat, expires_at: Nat,
            action_hash: Hashes, prev_receipt_hash: Hashes \cup {None},
            key: Nat]

ASSUME NoneAssumption == None \notin Receipt \cup Hashes \cup ActionIds \cup Nat
ASSUME TtlAssumption == Ttl \in [Actions -> Nat]
ASSUME AuthExpiryAssumption == AuthExpiry \in [Actions -> Nat \cup {None}]

(* What action_hash of app/canonical.py covers of a request req. *)
ActionHash(mode, req, action_id) ==
  [mode |-> mode, action_id |-> action_id, agent_id |-> req.agent_id,
   action |-> req.action, facts |-> req.facts]

(* A faulty variant: a supplied expiry is taken as it comes, even None. *)
ExpiresAt_AlwaysSupplied(mode, action, now) ==
  IF mode = "runtime" THEN AuthExpiry[action] ELSE now + Ttl[action]

(* The expiry of a receipt issued at now: bounded by the class, and for a   *)
(* runtime authorization also by the expiry the caller was given.           *)
ExpiresAt(mode, action, now) ==
  LET classExpiry == now + Ttl[action]
      supplied    == AuthExpiry[action]
  IN  IF mode = "runtime" /\ supplied # None /\ supplied < classExpiry
      THEN supplied ELSE classExpiry

(* issue_receipt and issue_runtime_receipt. *)
IssueReceipt(id, req, decision, prev, now, key) ==
  LET action_id == IF req.mode = "runtime" /\ req.action_id # None
                   THEN req.action_id ELSE id
  IN  [receipt_id |-> id, action_id |-> action_id,
       decision |-> decision, authorization_type |-> req.mode,
       agent_id |-> req.agent_id, evidence_assurance |-> req.facts,
       issued_at |-> now, expires_at |-> ExpiresAt(req.mode, req.action, now),
       action_hash |-> ActionHash(req.mode, req, action_id),
       prev_receipt_hash |-> prev, key |-> key]

VerifySignature(receipt, key) == receipt.key = key

(* A faulty variant: one tick of grace. *)
IsExpired_Grace(receipt, now) == now > receipt.expires_at + 1

IsExpired(receipt, now) == now > receipt.expires_at

(* A faulty variant: the hash is not recomputed from what is presented. *)
VerifyBinding_AgentOnly(receipt, req) == receipt.agent_id = req.agent_id

(* verify_runtime_binding and verify_action_binding: the request presented  *)
(* for execution is, field by field and by hash, the one the receipt is for.*)
VerifyBinding(receipt, req) ==
  /\ receipt.authorization_type = "runtime" => req.action_id = receipt.action_id
  /\ receipt.agent_id = req.agent_id
  /\ receipt.action_hash =
       ActionHash(receipt.authorization_type, req, receipt.action_id)
=============================================================================
