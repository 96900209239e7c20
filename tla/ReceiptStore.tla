---------------------------- MODULE ReceiptStore ----------------------------
(***************************************************************************)
(* The tables of app/storage.py the authorization path uses, and its       *)
(* transactions.  Each operator below is one function of storage.py, which *)
(* runs in one database transaction under the module's lock: one atomic    *)
(* step.  Two calls made by a handler are two steps, and the steps of      *)
(* other handlers come between them.                                       *)
(***************************************************************************)
EXTENDS Receipts

VARIABLES
  receipts,      \* receipts_table: [Evals -> Row \cup {None}]
  agent_chain,   \* agent_chain_table: [Agents -> Hashes \cup {None}]
  kill_switch    \* kill_switch_table.active

storeVars == <<receipts, agent_chain, kill_switch>>

Row == [data: Receipt, revoked: BOOLEAN, consumed_at: Nat \cup {None}]

ASSUME RowAssumption == None \notin Row

StoreTypeOK ==
  /\ receipts \in [Evals -> Row \cup {None}]
  /\ agent_chain \in [Agents -> Hashes \cup {None}]
  /\ kill_switch \in BOOLEAN

StoreInit ==
  /\ receipts = [id \in Evals |-> None]
  /\ agent_chain = [a \in Agents |-> None]
  /\ kill_switch = FALSE

Stored == {id \in Evals : receipts[id] # None}

(* save_receipt: replaces the row of the same id and moves the agent's      *)
(* chain head, in one transaction.                                          *)
SaveReceipt(receipt) ==
  /\ receipts' = [receipts EXCEPT ![receipt.receipt_id] =
                    [data |-> receipt, revoked |-> FALSE, consumed_at |-> None]]
  /\ agent_chain' = [agent_chain EXCEPT ![receipt.agent_id] = receipt.action_hash]
  /\ UNCHANGED kill_switch

(* A faulty variant: UPDATE ... WHERE receipt_id, and nothing else. *)
Consumable_AnyRow(id) == id \in Stored

(* mark_receipt_consumed: UPDATE ... WHERE receipt_id AND consumed_at IS    *)
(* NULL.  The caller is told whether a row was updated.                     *)
Consumable(id) == id \in Stored /\ receipts[id].consumed_at = None

(* A faulty variant: the update is rolled back, and the caller not told. *)
MarkReceiptConsumed_Lost(id, at) == UNCHANGED storeVars

MarkReceiptConsumed(id, at) ==
  /\ receipts' = [receipts EXCEPT ![id].consumed_at = at]
  /\ UNCHANGED <<agent_chain, kill_switch>>

(* A faulty variant: the row is saved anew with its revoked flag set. *)
RevokeReceipt_Resave(id) ==
  /\ receipts' = [receipts EXCEPT ![id].revoked = TRUE, ![id].consumed_at = None]
  /\ UNCHANGED <<agent_chain, kill_switch>>

RevokeReceipt(id) ==
  /\ receipts' = [receipts EXCEPT ![id].revoked = TRUE]
  /\ UNCHANGED <<agent_chain, kill_switch>>

(* revoke_by_agent: every row of the agent that is not revoked yet. *)
RevokeByAgent(agent) ==
  /\ receipts' = [id \in Evals |->
                    IF id \in Stored /\ receipts[id].data.agent_id = agent
                    THEN [receipts[id] EXCEPT !.revoked = TRUE]
                    ELSE receipts[id]]
  /\ UNCHANGED <<agent_chain, kill_switch>>

SetKillSwitch(active) ==
  /\ kill_switch' = active
  /\ UNCHANGED <<receipts, agent_chain>>
=============================================================================
