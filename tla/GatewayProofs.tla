---------------------------- MODULE GatewayProofs ----------------------------
(* Theorems about module Gateway, for every value of its constants.        *)
EXTENDS GatewayProperties, TLAPS

(* A receipt built by issue_receipt or issue_runtime_receipt from a         *)
(* well-formed request is well-formed, and carries the id it was given.     *)
LEMMA IssueReceiptType ==
  ASSUME NEW id \in Evals, NEW req \in EvalInput,
         NEW decision \in {"allow", "conditional"},
         NEW prev \in Hashes \cup {None}, NEW at \in Nat, NEW key \in Nat
  PROVE  /\ IssueReceipt(id, req, decision, prev, at, key) \in Receipt
         /\ IssueReceipt(id, req, decision, prev, at, key).receipt_id = id
<1>1. ExpiresAt(req.mode, req.action, at) \in Nat
  BY TtlAssumption, AuthExpiryAssumption DEF ExpiresAt, EvalInput, Modes
<1>2. /\ (IF req.mode = "runtime" /\ req.action_id # None
          THEN req.action_id ELSE id) \in ActionIds
      /\ req.mode \in Modes /\ req.agent_id \in Agents
      /\ req.action \in Actions /\ req.facts \in Facts
  BY DEF EvalInput, ActionIds
<1>3. ASSUME NEW action_id \in ActionIds
      PROVE  ActionHash(req.mode, req, action_id) \in Hashes
  BY <1>2 DEF ActionHash, Hashes
<1> QED
  BY <1>1, <1>2, <1>3 DEF IssueReceipt, Receipt

(* A freshly started server over an empty database satisfies the invariant. *)
LEMMA InitInv == Init => IInv
<1> SUFFICES ASSUME Init PROVE IInv
  OBVIOUS
<1>1. TypeOK
  BY BoundsAssumption
  DEF Init, StoreInit, TypeOK, StoreTypeOK, PCs, Out, Events
<1>2. Carried
  BY DEF Init, Carried, Requests
<1>3. ClaimsLinked
  BY DEF Init, StoreInit, ClaimsLinked, Stored, Claimed
<1> QED
  BY <1>1, <1>2, <1>3 DEF IInv

(* The transactions of the store keep its tables well-formed.               *)
LEMMA SaveReceiptType ==
  ASSUME StoreTypeOK, NEW r \in Receipt, SaveReceipt(r)
  PROVE  StoreTypeOK'
<1>1. /\ r.receipt_id \in Evals /\ r.agent_id \in Agents
      /\ r.action_hash \in Hashes
  BY DEF Receipt
<1>2. [data |-> r, revoked |-> FALSE, consumed_at |-> None] \in Row
  BY DEF Row
<1> QED
  BY <1>1, <1>2 DEF SaveReceipt, StoreTypeOK

LEMMA MarkReceiptConsumedType ==
  ASSUME StoreTypeOK, NEW id \in Stored, NEW at \in Nat,
         MarkReceiptConsumed(id, at)
  PROVE  /\ StoreTypeOK'
         /\ Stored' = Stored
         /\ receipts'[id] = [receipts[id] EXCEPT !.consumed_at = at]
         /\ receipts'[id].data = receipts[id].data
         /\ receipts'[id].consumed_at = at
         /\ \A x \in Evals \ {id} : receipts'[x] = receipts[x]
<1>1. receipts[id] \in Row
  BY DEF StoreTypeOK, Stored
<1>2. [receipts[id] EXCEPT !.consumed_at = at] \in Row
  BY <1>1 DEF Row
<1>3. receipts' = [receipts EXCEPT ![id] = [receipts[id] EXCEPT !.consumed_at = at]]
  BY DEF MarkReceiptConsumed
<1>4. receipts'[id] = [receipts[id] EXCEPT !.consumed_at = at]
  BY <1>3 DEF StoreTypeOK, Stored
<1>5. \A x \in Evals \ {id} : receipts'[x] = receipts[x]
  BY <1>3 DEF StoreTypeOK
<1>6. StoreTypeOK'
  BY <1>2, <1>3 DEF StoreTypeOK, MarkReceiptConsumed
<1>7. Stored' = Stored
  BY <1>2, <1>4, <1>5, RowAssumption DEF Stored
<1> QED
  BY <1>1, <1>4, <1>5, <1>6, <1>7 DEF Row

LEMMA RevokeReceiptType ==
  ASSUME StoreTypeOK, NEW id \in Stored, RevokeReceipt(id)
  PROVE  /\ StoreTypeOK'
         /\ Stored' = Stored
         /\ \A x \in Stored : /\ receipts'[x].data = receipts[x].data
                               /\ receipts'[x].consumed_at = receipts[x].consumed_at
<1>1. receipts[id] \in Row
  BY DEF StoreTypeOK, Stored
<1>2. [receipts[id] EXCEPT !.revoked = TRUE] \in Row
  BY <1>1 DEF Row
<1>3. receipts' = [receipts EXCEPT ![id] = [receipts[id] EXCEPT !.revoked = TRUE]]
  BY DEF RevokeReceipt
<1>4. receipts'[id] = [receipts[id] EXCEPT !.revoked = TRUE]
  BY <1>3 DEF StoreTypeOK, Stored
<1>5. \A x \in Evals \ {id} : receipts'[x] = receipts[x]
  BY <1>3 DEF StoreTypeOK
<1>6. StoreTypeOK'
  BY <1>2, <1>3 DEF StoreTypeOK, RevokeReceipt
<1>7. Stored' = Stored
  BY <1>2, <1>4, <1>5, RowAssumption DEF Stored
<1> QED
  BY <1>1, <1>4, <1>5, <1>6, <1>7 DEF Row, Stored

LEMMA RevokeByAgentType ==
  ASSUME StoreTypeOK, NEW agent, RevokeByAgent(agent)
  PROVE  /\ StoreTypeOK'
         /\ Stored' = Stored
         /\ \A x \in Stored : /\ receipts'[x].data = receipts[x].data
                               /\ receipts'[x].consumed_at = receipts[x].consumed_at
<1>1. ASSUME NEW x \in Stored
      PROVE  /\ [receipts[x] EXCEPT !.revoked = TRUE] \in Row
             /\ [receipts[x] EXCEPT !.revoked = TRUE].data = receipts[x].data
             /\ [receipts[x] EXCEPT !.revoked = TRUE].consumed_at
                  = receipts[x].consumed_at
  BY DEF StoreTypeOK, Stored, Row
<1>2. \A x \in Evals :
        receipts'[x] = IF x \in Stored /\ receipts[x].data.agent_id = agent
                       THEN [receipts[x] EXCEPT !.revoked = TRUE]
                       ELSE receipts[x]
  BY DEF RevokeByAgent
<1>3. StoreTypeOK'
  BY <1>1 DEF StoreTypeOK, RevokeByAgent
<1>4. Stored' = Stored
  BY <1>1, <1>2, RowAssumption DEF Stored
<1> QED
  BY <1>1, <1>2, <1>3, <1>4 DEF Stored

(* A request arrives: it carries a body of its kind. *)
LEMMA ReceiveEvaluateInv ==
  ASSUME IInv, NEW e \in Evals, ReceiveOther(e, EvalInputs)
  PROVE  IInv'
<1> USE RequestsAssumption DEF IInv, ReceiveOther, Receive, Goto, storeVars, history, Requests
<1>1. TypeOK'
  BY InputsAssumption DEF TypeOK, StoreTypeOK, PCs, Out, Events
<1>2. Carried'
  BY InputsAssumption DEF Carried, TypeOK, Stored, Stored
<1>3. ClaimsLinked'
  BY DEF ClaimsLinked, Carried, TypeOK, StoreTypeOK, Stored, Claimed
<1> QED
  BY <1>1, <1>2, <1>3

(* A request arrives: it carries a body of its kind. *)
LEMMA ReceiveAdminInv ==
  ASSUME IInv, NEW a \in Admins, ReceiveOther(a, AdminInputs)
  PROVE  IInv'
<1> USE RequestsAssumption DEF IInv, ReceiveOther, Receive, Goto, storeVars, history, Requests
<1>1. TypeOK'
  BY InputsAssumption DEF TypeOK, StoreTypeOK, PCs, Out, Events
<1>2. Carried'
  BY InputsAssumption DEF Carried, TypeOK, Stored, Stored
<1>3. ClaimsLinked'
  BY DEF ClaimsLinked, Carried, TypeOK, StoreTypeOK, Stored, Claimed
<1> QED
  BY <1>1, <1>2, <1>3

(* A request arrives: it carries a body of its kind. *)
LEMMA ReceiveExecuteInv ==
  ASSUME IInv, NEW b \in Execs, ReceiveDated(b, ExecInputs)
  PROVE  IInv'
<1> USE RequestsAssumption DEF IInv, ReceiveDated, Receive, Goto, storeVars, history, Requests
<1>0. SigningKey \in Nat
  BY DEF SigningKey, TypeOK
<1>1. TypeOK'
  BY <1>0, InputsAssumption DEF TypeOK, StoreTypeOK, PCs, Out, Events, Stored
<1>2. Carried'
  BY InputsAssumption DEF Carried, TypeOK, Stored
<1>3. ClaimsLinked'
  BY DEF ClaimsLinked, Carried, TypeOK, StoreTypeOK, Stored, Claimed
<1> QED
  BY <1>1, <1>2, <1>3

(* A request arrives: it carries a body of its kind. *)
LEMMA ReceiveVerifyInv ==
  ASSUME IInv, NEW v \in Verifies, ReceiveDated(v, VerifyInputs)
  PROVE  IInv'
<1> USE RequestsAssumption DEF IInv, ReceiveDated, Receive, Goto, storeVars, history, Requests
<1>0. SigningKey \in Nat
  BY DEF SigningKey, TypeOK
<1>1. TypeOK'
  BY <1>0, InputsAssumption DEF TypeOK, StoreTypeOK, PCs, Out, Events, Stored
<1>2. Carried'
  BY InputsAssumption DEF Carried, TypeOK, Stored
<1>3. ClaimsLinked'
  BY DEF ClaimsLinked, Carried, TypeOK, StoreTypeOK, Stored, Claimed
<1> QED
  BY <1>1, <1>2, <1>3

(* The kill switch is read and the decision made. *)
LEMMA EvaluateInv ==
  ASSUME IInv, NEW e \in Evals, Evaluate(e)
  PROVE  IInv'
<1> USE RequestsAssumption DEF IInv, Evaluate, Goto, storeVars, history, Requests
<1>1. TypeOK'
  BY DEF TypeOK, StoreTypeOK, PCs, Out, Events
<1>2. Carried'
  BY DEF Carried, TypeOK, Stored, Decision, PolicyEvaluate
<1>3. ClaimsLinked'
  BY DEF ClaimsLinked, Carried, TypeOK, StoreTypeOK, Stored, Claimed
<1> QED
  BY <1>1, <1>2, <1>3

(* The receipt is built from the head of the agent's chain. *)
LEMMA IssueInv ==
  ASSUME IInv, NEW e \in Evals, Issue(e)
  PROVE  IInv'
<1> USE RequestsAssumption DEF IInv, Issue, Goto, storeVars, history, Requests
<1> DEFINE req == input[e]
            decision == IF req.mode = "policy" THEN PolicyDecision[req.action]
                                               ELSE "allow"
            prev == agent_chain[req.agent_id]
            new == IssueReceipt(e, req, decision, prev, now, SigningKey)
<1>0. new \in Receipt /\ new.receipt_id = e
  <2>1. req \in EvalInput /\ req.agent_id \in Agents /\ req.action \in Actions
    BY DEF Carried, EvalInput
  <2>2. decision \in {"allow", "conditional"}
    BY <2>1, PolicyAssumption DEF Carried
  <2>3. SigningKey \in Nat /\ prev \in Hashes \cup {None} /\ now \in Nat
    BY <2>1 DEF SigningKey, TypeOK, StoreTypeOK
  <2> HIDE DEF req, decision, prev
  <2>4. /\ IssueReceipt(e, req, decision, prev, now, SigningKey) \in Receipt
        /\ IssueReceipt(e, req, decision, prev, now, SigningKey).receipt_id = e
    BY <2>1, <2>2, <2>3, IssueReceiptType
  <2> QED
    BY <2>4
<1> HIDE DEF new
<1>00. draft' = [draft EXCEPT ![e] = new]
  BY DEF new
<1>1. TypeOK'
  BY <1>0, <1>00 DEF TypeOK, StoreTypeOK, PCs, Out, Events
<1>2. Carried'
  BY <1>0, <1>00 DEF Carried, TypeOK, Stored
<1>3. ClaimsLinked'
  BY DEF ClaimsLinked, Carried, TypeOK, StoreTypeOK, Stored, Claimed
<1> QED
  BY <1>1, <1>2, <1>3

(* The receipt is saved under its own id, for the first time. *)
LEMMA SaveInv ==
  ASSUME IInv, NEW e \in Evals, Save(e)
  PROVE  IInv'
<1> USE RequestsAssumption DEF IInv, Save, Goto, storeVars, history, Requests
<1>0. draft[e] \in Receipt /\ draft[e].receipt_id = e
  BY DEF Carried
<1>00. StoreTypeOK'
  BY <1>0, SaveReceiptType DEF TypeOK
<1>000. UNCHANGED kill_switch /\
        receipts' = [receipts EXCEPT ![e] =
          [data |-> draft[e], revoked |-> FALSE, consumed_at |-> None]]
  BY <1>0 DEF SaveReceipt
<1>1. TypeOK'
  BY <1>00 DEF TypeOK, PCs, Out, Events
<1>2. Carried'
  <2>1. receipts'[e] # None /\ \A x \in Evals \ {e} : receipts'[x] = receipts[x]
    <3>1. [data |-> draft[e], revoked |-> FALSE, consumed_at |-> None] \in Row
      BY <1>0 DEF Row
    <3> QED
      BY <3>1, <1>000, RowAssumption DEF TypeOK, StoreTypeOK
  <2>2. Stored \subseteq Stored'
    BY <2>1 DEF Stored
  <2> QED
    BY <2>2 DEF Carried, TypeOK
<1>3. ClaimsLinked'
  BY <1>000, <1>0, RowAssumption DEF ClaimsLinked, Carried, TypeOK, StoreTypeOK, Stored, Claimed
<1> QED
  BY <1>1, <1>2, <1>3

(* The evaluation is put on record. *)
LEMMA AuditEvaluateInv ==
  ASSUME IInv, NEW e \in Evals, AuditEvaluate(e)
  PROVE  IInv'
<1> USE RequestsAssumption DEF IInv, AuditEvaluate, Record, Goto, storeVars, history, Requests
<1>1. TypeOK'
  BY DEF TypeOK, StoreTypeOK, PCs, Out, Events
<1>2. Carried'
  BY DEF Carried, TypeOK, Stored
<1>3. ClaimsLinked'
  BY DEF ClaimsLinked, Carried, TypeOK, StoreTypeOK, Stored, Claimed
<1> QED
  BY <1>1, <1>2, <1>3

(* The broker reads the kill switch. *)
LEMMA AdmitInv ==
  ASSUME IInv, NEW b \in Execs, Admit(b)
  PROVE  IInv'
<1> USE RequestsAssumption DEF IInv, Admit, Goto, storeVars, history, Requests
<1>1. TypeOK'
  BY DEF TypeOK, StoreTypeOK, PCs, Out, Events
<1>2. Carried'
  BY DEF Carried, TypeOK, Stored
<1>3. ClaimsLinked'
  BY DEF ClaimsLinked, Carried, TypeOK, StoreTypeOK, Stored, Claimed
<1> QED
  BY <1>1, <1>2, <1>3

(* The broker keeps the copy of a receipt that passed its checks. *)
LEMMA CheckReceiptInv ==
  ASSUME IInv, NEW b \in Execs, CheckReceipt(b)
  PROVE  IInv'
<1> USE RequestsAssumption DEF IInv, CheckReceipt, Goto, storeVars, history, Requests
<1>0. LET id == input[b].receipt_id
      IN  /\ id \in Evals
          /\ id \in Stored => /\ receipts[id].data \in Receipt
                              /\ receipts[id].data # None
  BY NoneAssumption DEF Carried, ExecInput, TypeOK, StoreTypeOK, Stored, Row
<1>1. TypeOK'
  BY <1>0 DEF TypeOK, StoreTypeOK, PCs, Out, Events
<1>2. Carried'
  BY <1>0 DEF Carried, TypeOK, Stored
<1>3. ClaimsLinked'
  BY <1>0 DEF ClaimsLinked, Carried, TypeOK, StoreTypeOK, Stored, Claimed
<1> QED
  BY <1>1, <1>2, <1>3

(* The receipt is claimed if no other execute request has claimed it. *)
LEMMA ClaimInv ==
  ASSUME IInv, NEW b \in Execs, Claim(b)
  PROVE  IInv'
<1> DEFINE id == held[b].receipt_id
<1> USE RequestsAssumption DEF IInv, Requests
<1>1. pc[b] = "checked" /\ held[b] # None /\ call[b] = "none" /\ id \in Stored
  BY DEF Claim, Carried, ClaimsLinked
<1>2. CASE Consumable(id) /\ MarkReceiptConsumed(id, now)
           /\ pc' = [pc EXCEPT ![b] = "claimed"]
           /\ call' = [call EXCEPT ![b] = "claimed"]
  <2>1. receipts[id].consumed_at = None /\ now # None
    BY <1>2, NoneAssumption DEF Consumable, TypeOK
  <2>2. /\ StoreTypeOK'
        /\ Stored' = Stored
        /\ receipts'[id].data = receipts[id].data
        /\ receipts'[id].consumed_at = now
        /\ \A x \in Evals \ {id} : receipts'[x] = receipts[x]
    BY <1>1, <1>2, MarkReceiptConsumedType DEF TypeOK
  <2>3. \A x \in Stored : receipts'[x].data = receipts[x].data
    BY <2>2 DEF Stored
  <2>4. Claimed' = Claimed \cup {b} /\ b \notin Claimed
    BY <1>1, <1>2 DEF Claimed, TypeOK
  <2>5. \A c \in Claimed : held[c].receipt_id # id
    BY <2>1 DEF ClaimsLinked
  <2>6. UNCHANGED <<input, draft, held, executed, loop, audit, arrival, shut,
                    now, restarts>>
    BY DEF Claim, history
  <2>7. TypeOK'
    BY <1>2, <2>2, <2>6 DEF TypeOK, PCs, Out, Events
  <2>8. Carried'
    BY <1>1, <1>2, <2>2, <2>6 DEF Carried, TypeOK
  <2>9. ClaimsLinked'
    <3>1. \A x \in Stored' : receipts'[x].data.receipt_id = x
      BY <2>2, <2>3 DEF ClaimsLinked
    <3>2. \A e \in Stored' : pc'[e] \in {"auditing", "done", "aborted"}
      BY <1>2, <2>2 DEF ClaimsLinked, Stored, TypeOK
    <3>3. \A c \in Execs : held'[c] # None =>
            /\ held'[c].receipt_id \in Stored'
            /\ receipts'[held'[c].receipt_id].data = held'[c]
      BY <2>2, <2>3, <2>6 DEF ClaimsLinked
    <3>4. \A c \in Claimed' :
            held'[c] # None /\ receipts'[held'[c].receipt_id].consumed_at # None
      BY <1>1, <2>1, <2>2, <2>4, <2>5, <2>6 DEF ClaimsLinked, Stored, Claimed
    <3>5. \A c, d \in Claimed' :
            held'[c].receipt_id = held'[d].receipt_id => c = d
      BY <2>4, <2>5, <2>6 DEF ClaimsLinked
    <3>6. \A x \in Stored' : receipts'[x].consumed_at # None =>
            \E c \in Claimed' : held'[c].receipt_id = x
      BY <2>2, <2>4, <2>6 DEF ClaimsLinked, Stored
    <3> QED
      BY <3>1, <3>2, <3>3, <3>4, <3>5, <3>6 DEF ClaimsLinked
  <2> QED
    BY <2>7, <2>8, <2>9
<1>3. CASE pc' = [pc EXCEPT ![b] = "blocked"] /\ UNCHANGED <<storeVars, call>>
  <2>1. UNCHANGED <<receipts, agent_chain, kill_switch, call, input, draft, held,
                    executed, loop, audit, arrival, shut, now, restarts>>
    BY <1>3 DEF Claim, storeVars, history
  <2>2. TypeOK'
    BY <1>3, <2>1 DEF TypeOK, StoreTypeOK, PCs, Out, Events
  <2>3. Carried'
    BY <1>1, <1>3, <2>1 DEF Carried, TypeOK, Stored
  <2>4. ClaimsLinked'
    BY <1>1, <1>3, <2>1 DEF ClaimsLinked, TypeOK, Stored, Claimed
  <2> QED
    BY <2>2, <2>3, <2>4
<1> QED
  BY <1>2, <1>3 DEF Claim

(* The call goes out. *)
LEMMA PostInv ==
  ASSUME IInv, NEW b \in Execs, Post(b)
  PROVE  IInv'
<1> USE RequestsAssumption DEF IInv, Post, Goto, storeVars, history, Requests
<1>1. TypeOK'
  BY DEF TypeOK, StoreTypeOK, PCs, Out, Events
<1>2. Carried'
  BY DEF Carried, TypeOK, Stored
<1>3. ClaimsLinked'
  BY DEF ClaimsLinked, Carried, TypeOK, StoreTypeOK, Stored, Claimed
<1> QED
  BY <1>1, <1>2, <1>3

(* The webhook gets the call. *)
LEMMA DeliverInv ==
  ASSUME IInv, NEW b \in Execs, Deliver(b)
  PROVE  IInv'
<1> USE RequestsAssumption DEF IInv, Deliver, Goto, storeVars, history, Requests
<1>1. TypeOK'
  BY DEF TypeOK, StoreTypeOK, PCs, Out, Events
<1>2. Carried'
  BY DEF Carried, TypeOK, Stored
<1>3. ClaimsLinked'
  BY DEF ClaimsLinked, Carried, TypeOK, StoreTypeOK, Stored, Claimed
<1> QED
  BY <1>1, <1>2, <1>3

(* The call is lost. *)
LEMMA LoseInv ==
  ASSUME IInv, NEW b \in Execs, Lose(b)
  PROVE  IInv'
<1> USE RequestsAssumption DEF IInv, Lose, Goto, storeVars, history, Requests
<1>1. TypeOK'
  BY DEF TypeOK, StoreTypeOK, PCs, Out, Events
<1>2. Carried'
  BY DEF Carried, TypeOK, Stored
<1>3. ClaimsLinked'
  BY DEF ClaimsLinked, Carried, TypeOK, StoreTypeOK, Stored, Claimed
<1> QED
  BY <1>1, <1>2, <1>3

(* A piece of the answer comes in, or none does for a while. *)
LEMMA TrickleInv ==
  ASSUME IInv, NEW b \in Execs, Trickle(b)
  PROVE  IInv'
<1> USE RequestsAssumption DEF IInv, Trickle, storeVars, history, Requests
<1>1. TypeOK'
  BY DEF TypeOK, StoreTypeOK, PCs, Out, Events
<1>2. Carried'
  BY DEF Carried, TypeOK, Stored
<1>3. ClaimsLinked'
  BY DEF ClaimsLinked, Carried, TypeOK, StoreTypeOK, Stored, Claimed
<1> QED
  BY <1>1, <1>2, <1>3

(* The wait for the webhook ends. *)
LEMMA AnswerInv ==
  ASSUME IInv, NEW b \in Execs, Answer(b)
  PROVE  IInv'
<1> USE RequestsAssumption DEF IInv, Answer, Outcomes, Goto, storeVars, history, Requests
<1>1. TypeOK'
  BY DEF TypeOK, StoreTypeOK, PCs, Out, Events
<1>2. Carried'
  BY DEF Carried, TypeOK, Stored
<1>3. ClaimsLinked'
  BY DEF ClaimsLinked, Carried, TypeOK, StoreTypeOK, Stored, Claimed
<1> QED
  BY <1>1, <1>2, <1>3

(* The execution is put on record. *)
LEMMA AuditExecuteInv ==
  ASSUME IInv, NEW b \in Execs, AuditExecute(b)
  PROVE  IInv'
<1> USE RequestsAssumption DEF IInv, AuditExecute, Record, Goto, storeVars, history, Requests
<1>1. TypeOK'
  BY DEF TypeOK, StoreTypeOK, PCs, Out, Events
<1>2. Carried'
  BY DEF Carried, TypeOK, Stored
<1>3. ClaimsLinked'
  BY DEF ClaimsLinked, Carried, TypeOK, StoreTypeOK, Stored, Claimed
<1> QED
  BY <1>1, <1>2, <1>3

(* A sink asks: the receipt is looked up and checked. *)
LEMMA CheckVerifyInv ==
  ASSUME IInv, NEW v \in Verifies, CheckVerify(v)
  PROVE  IInv'
<1> USE RequestsAssumption DEF IInv, CheckVerify, Goto, storeVars, history, Requests
<1>1. TypeOK'
  BY DEF TypeOK, StoreTypeOK, PCs, Out, Events
<1>2. Carried'
  BY DEF Carried, TypeOK, Stored
<1>3. ClaimsLinked'
  BY DEF ClaimsLinked, Carried, TypeOK, StoreTypeOK, Stored, Claimed
<1> QED
  BY <1>1, <1>2, <1>3

(* The answer is put on record. *)
LEMMA AuditVerifyInv ==
  ASSUME IInv, NEW v \in Verifies, AuditVerify(v)
  PROVE  IInv'
<1> USE RequestsAssumption DEF IInv, AuditVerify, Record, Goto, storeVars, history, Requests
<1>1. TypeOK'
  BY DEF TypeOK, StoreTypeOK, PCs, Out, Events
<1>2. Carried'
  BY DEF Carried, TypeOK, Stored
<1>3. ClaimsLinked'
  BY DEF ClaimsLinked, Carried, TypeOK, StoreTypeOK, Stored, Claimed
<1> QED
  BY <1>1, <1>2, <1>3

(* The receipt to revoke is looked up. *)
LEMMA FindRevokeeInv ==
  ASSUME IInv, NEW a \in Admins, FindRevokee(a)
  PROVE  IInv'
<1> USE RequestsAssumption DEF IInv, FindRevokee, Goto, storeVars, history, Requests
<1>1. TypeOK'
  BY DEF TypeOK, StoreTypeOK, PCs, Out, Events
<1>2. Carried'
  BY DEF Carried, TypeOK, Stored
<1>3. ClaimsLinked'
  BY DEF ClaimsLinked, Carried, TypeOK, StoreTypeOK, Stored, Claimed
<1> QED
  BY <1>1, <1>2, <1>3

(* A receipt is revoked; nothing else of its row changes. *)
LEMMA RevokeInv ==
  ASSUME IInv, NEW a \in Admins, Revoke(a)
  PROVE  IInv'
<1> USE RequestsAssumption DEF IInv, Revoke, Goto, storeVars, history, Requests
<1>0. /\ StoreTypeOK'
      /\ Stored' = Stored
      /\ \A x \in Stored : /\ receipts'[x].data = receipts[x].data
                            /\ receipts'[x].consumed_at = receipts[x].consumed_at
  BY RevokeReceiptType DEF Carried, TypeOK
<1>1. TypeOK'
  BY <1>0 DEF TypeOK, PCs, Out, Events
<1>2. Carried'
  BY <1>0 DEF Carried, TypeOK, Stored
<1>3. ClaimsLinked'
  BY <1>0 DEF ClaimsLinked, TypeOK, Claimed
<1> QED
  BY <1>1, <1>2, <1>3

(* An agent's receipts are revoked; nothing else of their rows changes. *)
LEMMA RevokeAgentInv ==
  ASSUME IInv, NEW a \in Admins, RevokeAgent(a)
  PROVE  IInv'
<1> USE RequestsAssumption DEF IInv, RevokeAgent, Goto, storeVars, history, Requests
<1>0. /\ StoreTypeOK'
      /\ Stored' = Stored
      /\ \A x \in Stored : /\ receipts'[x].data = receipts[x].data
                            /\ receipts'[x].consumed_at = receipts[x].consumed_at
  <2>1. CASE RevokeByAgent(input[a].agent)
    BY <2>1, RevokeByAgentType DEF TypeOK
  <2>2. CASE UNCHANGED storeVars
    BY <2>2 DEF TypeOK, StoreTypeOK, Stored
  <2> QED
    BY <2>1, <2>2
<1>1. TypeOK'
  BY <1>0 DEF TypeOK, PCs, Out, Events
<1>2. Carried'
  BY <1>0 DEF Carried, TypeOK, Stored
<1>3. ClaimsLinked'
  <2>1. UNCHANGED <<held, call>> /\ Claimed' = Claimed
    BY DEF Claimed
  <2>2. \A x \in Stored : pc'[x] = pc[x]
    BY DEF TypeOK, Stored
  <2> HIDE DEF RevokeAgent, storeVars, history, Goto
  <2>3. \A x \in Stored' : receipts'[x].data.receipt_id = x
    BY <1>0 DEF ClaimsLinked
  <2>4. \A x \in Stored' : pc'[x] \in {"auditing", "done", "aborted"}
    BY <1>0, <2>2 DEF ClaimsLinked
  <2>5. \A b \in Execs : held'[b] # None =>
          /\ held'[b].receipt_id \in Stored'
          /\ receipts'[held'[b].receipt_id].data = held'[b]
    BY <1>0, <2>1 DEF ClaimsLinked
  <2>6. \A b \in Claimed' :
          held'[b] # None /\ receipts'[held'[b].receipt_id].consumed_at # None
    BY <1>0, <2>1 DEF ClaimsLinked, Claimed
  <2>7. \A x \in Stored' : receipts'[x].consumed_at # None =>
          \E b \in Claimed' : held'[b].receipt_id = x
    BY <1>0, <2>1 DEF ClaimsLinked
  <2> QED
    BY <2>1, <2>3, <2>4, <2>5, <2>6, <2>7 DEF ClaimsLinked
<1> QED
  BY <1>1, <1>2, <1>3

(* The kill switch is set. *)
LEMMA SwitchKillInv ==
  ASSUME IInv, NEW a \in Admins, SwitchKill(a)
  PROVE  IInv'
<1> USE RequestsAssumption DEF IInv, SwitchKill, SetKillSwitch, Goto, storeVars, history, Requests
<1>0. input[a].op = "kill_switch" => input[a].active \in BOOLEAN
  BY DEF Carried, AdminInput
<1>1. TypeOK'
  BY <1>0 DEF TypeOK, StoreTypeOK, PCs, Out, Events
<1>2. Carried'
  BY DEF Carried, TypeOK, Stored
<1>3. ClaimsLinked'
  BY DEF ClaimsLinked, Carried, TypeOK, StoreTypeOK, Stored, Claimed
<1> QED
  BY <1>1, <1>2, <1>3

(* The operation is put on record. *)
LEMMA AuditAdminInv ==
  ASSUME IInv, NEW a \in Admins, AuditAdmin(a)
  PROVE  IInv'
<1> USE RequestsAssumption DEF IInv, AuditAdmin, Record, Goto, storeVars, history, Requests
<1>1. TypeOK'
  BY DEF TypeOK, StoreTypeOK, PCs, Out, Events
<1>2. Carried'
  BY DEF Carried, TypeOK, Stored
<1>3. ClaimsLinked'
  BY DEF ClaimsLinked, Carried, TypeOK, StoreTypeOK, Stored, Claimed
<1> QED
  BY <1>1, <1>2, <1>3

(* A handler is abandoned. *)
LEMMA AbortInv ==
  ASSUME IInv, NEW r \in Requests, Abort(r)
  PROVE  IInv'
<1> USE RequestsAssumption DEF IInv, Abort, InFlight, Finished, Goto, storeVars, history, Requests
<1>1. TypeOK'
  BY DEF TypeOK, StoreTypeOK, PCs, Out, Events
<1>2. Carried'
  BY DEF Carried, TypeOK, Stored
<1>3. ClaimsLinked'
  BY DEF ClaimsLinked, Carried, TypeOK, StoreTypeOK, Stored, Claimed
<1> QED
  BY <1>1, <1>2, <1>3

(* The process is restarted. *)
LEMMA RestartInv ==
  ASSUME IInv, Restart
  PROVE  IInv'
<1> USE RequestsAssumption DEF IInv, Restart, InFlight, Finished, Goto, storeVars, history, Requests
<1>1. TypeOK'
  BY DEF TypeOK, StoreTypeOK, PCs, Out, Events
<1>2. Carried'
  BY DEF Carried, TypeOK, Stored
<1>3. ClaimsLinked'
  BY DEF ClaimsLinked, Carried, TypeOK, StoreTypeOK, Stored, Claimed
<1> QED
  BY <1>1, <1>2, <1>3

(* Time passes. *)
LEMMA TickInv ==
  ASSUME IInv, Tick
  PROVE  IInv'
<1> USE RequestsAssumption DEF IInv, Tick, procVars, Goto, storeVars, history, Requests
<1>1. TypeOK'
  BY DEF TypeOK, StoreTypeOK, PCs, Out, Events
<1>2. Carried'
  BY DEF Carried, TypeOK, Stored
<1>3. ClaimsLinked'
  BY DEF ClaimsLinked, Carried, TypeOK, StoreTypeOK, Stored, Claimed
<1> QED
  BY <1>1, <1>2, <1>3

(* Every step of the server keeps the invariant.                            *)
LEMMA NextInv == IInv /\ [Next]_vars => IInv'
<1> SUFFICES ASSUME IInv, [Next]_vars PROVE IInv'
  OBVIOUS
<1>1. CASE \E e \in Evals : ReceiveOther(e, EvalInputs)
  BY <1>1, ReceiveEvaluateInv
<1>2. CASE \E e \in Evals : Evaluate(e)
  BY <1>2, EvaluateInv
<1>3. CASE \E e \in Evals : Issue(e)
  BY <1>3, IssueInv
<1>4. CASE \E e \in Evals : Save(e)
  BY <1>4, SaveInv
<1>5. CASE \E e \in Evals : AuditEvaluate(e)
  BY <1>5, AuditEvaluateInv
<1>6. CASE \E b \in Execs : ReceiveDated(b, ExecInputs)
  BY <1>6, ReceiveExecuteInv
<1>7. CASE \E b \in Execs : Admit(b)
  BY <1>7, AdmitInv
<1>8. CASE \E b \in Execs : CheckReceipt(b)
  BY <1>8, CheckReceiptInv
<1>9. CASE \E b \in Execs : Claim(b)
  BY <1>9, ClaimInv
<1>10. CASE \E b \in Execs : Post(b)
  BY <1>10, PostInv
<1>11. CASE \E b \in Execs : Answer(b)
  BY <1>11, AnswerInv
<1>12. CASE \E b \in Execs : AuditExecute(b)
  BY <1>12, AuditExecuteInv
<1>13. CASE \E b \in Execs : Deliver(b)
  BY <1>13, DeliverInv
<1>14. CASE \E b \in Execs : Lose(b)
  BY <1>14, LoseInv
<1>15. CASE \E a \in Admins : ReceiveOther(a, AdminInputs)
  BY <1>15, ReceiveAdminInv
<1>16. CASE \E a \in Admins : FindRevokee(a)
  BY <1>16, FindRevokeeInv
<1>17. CASE \E a \in Admins : Revoke(a)
  BY <1>17, RevokeInv
<1>18. CASE \E a \in Admins : RevokeAgent(a)
  BY <1>18, RevokeAgentInv
<1>19. CASE \E a \in Admins : SwitchKill(a)
  BY <1>19, SwitchKillInv
<1>20. CASE \E a \in Admins : AuditAdmin(a)
  BY <1>20, AuditAdminInv
<1>21. CASE \E r \in Requests : Abort(r)
  BY <1>21, AbortInv
<1>22. CASE Restart
  BY <1>22, RestartInv
<1>23. CASE Tick
  BY <1>23, TickInv
<1>25. CASE \E v \in Verifies : ReceiveDated(v, VerifyInputs)
  BY <1>25, ReceiveVerifyInv
<1>26. CASE \E v \in Verifies : CheckVerify(v)
  BY <1>26, CheckVerifyInv
<1>27. CASE \E v \in Verifies : AuditVerify(v)
  BY <1>27, AuditVerifyInv
<1>28. CASE \E b \in Execs : Trickle(b)
  BY <1>28, TrickleInv
<1>24. CASE UNCHANGED vars
  BY <1>24 DEF vars, storeVars, procVars, history, IInv, TypeOK, StoreTypeOK,
                Carried, ClaimsLinked, Stored, Claimed
<1> QED
  BY <1>1, <1>2, <1>3, <1>4, <1>5, <1>6, <1>7, <1>8, <1>9, <1>10, <1>11, <1>12, <1>13, <1>14, <1>15, <1>16, <1>17, <1>18, <1>19, <1>20, <1>21, <1>22, <1>23, <1>24, <1>25, <1>26, <1>27, <1>28
  DEF Next, EvaluateStep, ExecuteStep, VerifyStep, AdminStep

(* The inductive invariant holds of every run of the server.                *)
THEOREM Invariance == Spec => []IInv
<1>1. Init => IInv
  BY InitInv
<1>2. IInv /\ [Next]_vars => IInv'
  BY NextInv
<1> QED
  BY <1>1, <1>2, PTL DEF Spec

(* Every variable of the server keeps its type.                             *)
THEOREM TypeCorrect == Spec => []TypeOK
<1>1. IInv => TypeOK
  BY DEF IInv
<1> QED
  BY <1>1, Invariance, PTL

(* No receipt is good for two calls, however many execute requests present  *)
(* it and whatever aborts, restarts, revocations and timeouts come between: *)
(* the replay guard of broker.execute and mark_receipt_consumed.            *)
THEOREM OneCall == Spec => []OneCallPerReceipt
<1>1. IInv => OneCallPerReceipt
  BY DEF IInv, ClaimsLinked, OneCallPerReceipt, Posted, Claimed, Out
<1> QED
  BY <1>1, Invariance, PTL

(* The consumed_at column and the claims of the handlers agree: the claim   *)
(* of mark_receipt_consumed is never lost, doubled or invented.             *)
THEOREM ClaimsAgree == Spec => []ClaimsAccounted
<1>1. IInv => ClaimsAccounted
  <2> SUFFICES ASSUME IInv PROVE ClaimsAccounted
    OBVIOUS
  <2>1. \A b \in Claimed \ Posted : call[b] = "claimed"
    BY DEF IInv, TypeOK, Claimed, Posted, Out
  <2> QED
    BY <2>1 DEF IInv, Carried, ClaimsLinked, ClaimsAccounted, Claimed
<1> QED
  BY <1>1, Invariance, PTL
=============================================================================
