------------------------ MODULE GatewayPromiseProofs ------------------------
(* Theorems about module Gateway, for every value of the constants: what its *)
(* steps do to receipts, the refinement of ExecutionGrants, the audit log    *)
(* against what handlers did, and whose doing a revocation is.               *)
EXTENDS GatewayProofs

(* The steps that write the receipts table, and the steps that touch what   *)
(* the promise is about without writing it; every other step leaves both    *)
(* the table and the execute requests' receipts and calls alone.            *)
Admits(b) ==
  LET id == input[b].receipt_id
  IN  /\ pc[b] = "looking"
      /\ id \in Stored
      /\ Valid(receipts[id])
      /\ held' = [held EXCEPT ![b] = receipts[id].data]
      /\ UNCHANGED <<receipts, call>>

Claims(b) ==
  LET id == held[b].receipt_id
  IN  /\ pc[b] = "checked"
      /\ Consumable(id)
      /\ MarkReceiptConsumed(id, now)
      /\ call' = [call EXCEPT ![b] = "claimed"]
      /\ UNCHANGED held

Revokes(a) ==
  /\ \/ pc[a] = "revoking" /\ RevokeReceipt(input[a].id)
     \/ RevokeByAgent(input[a].agent)
  /\ UNCHANGED <<held, call>>

Sends(b) ==
  /\ pc[b] = "claimed"
  /\ call' = [call EXCEPT ![b] = "sent"]
  /\ UNCHANGED <<receipts, held>>

Arrives(b) ==
  /\ call[b] = "sent"
  /\ \E c \in {"delivered", "lost"} : call' = [call EXCEPT ![b] = c]
  /\ UNCHANGED <<receipts, held>>

Saves(e) ==
  /\ pc[e] = "saving"
  /\ SaveReceipt(draft[e])
  /\ UNCHANGED <<held, call>>

(* Every step of the server is one of those, or changes none of it.         *)
LEMMA StepKinds ==
  ASSUME [Next]_vars
  PROVE  \/ \E e \in Evals : Saves(e)
         \/ \E b \in Execs : Admits(b) \/ Claims(b) \/ Sends(b) \/ Arrives(b)
         \/ \E a \in Admins : Revokes(a)
         \/ UNCHANGED <<receipts, held, call>>
<1> USE DEF storeVars, procVars, Goto
<1>1. CASE \E e \in Evals : ReceiveOther(e, EvalInputs) \/ EvaluateStep(e)
  BY <1>1 DEF ReceiveOther, Receive, EvaluateStep, Evaluate, Issue, Save,
              AuditEvaluate, Saves
<1>2. CASE \E b \in Execs : ReceiveDated(b, ExecInputs) \/ Deliver(b) \/ Lose(b) \/ Trickle(b)
  BY <1>2 DEF ReceiveDated, Receive, Deliver, Lose, Trickle, Arrives
<1>3. CASE \E b \in Execs : ExecuteStep(b)
  BY <1>3 DEF ExecuteStep, Admit, CheckReceipt, Claim, Post, Answer,
              AuditExecute, Admits, Claims, Sends
<1>4. CASE \E a \in Admins : ReceiveOther(a, AdminInputs) \/ AdminStep(a)
  BY <1>4 DEF ReceiveOther, Receive, AdminStep, FindRevokee, Revoke,
              RevokeAgent, SwitchKill, SetKillSwitch, AuditAdmin, Revokes
<1>5. CASE \E v \in Verifies : ReceiveDated(v, VerifyInputs) \/ VerifyStep(v)
  BY <1>5 DEF ReceiveDated, Receive, VerifyStep, CheckVerify, AuditVerify
<1>6. CASE (\E r \in Requests : Abort(r)) \/ Restart \/ Tick
  BY <1>6 DEF Abort, Restart, Tick
<1>7. CASE UNCHANGED vars
  BY <1>7 DEF vars
<1> QED
  BY <1>1, <1>2, <1>3, <1>4, <1>5, <1>6, <1>7 DEF Next

(* Only a receipt that is not in the table yet is saved.                    *)
LEMMA SavesNew ==
  ASSUME IInv, NEW e \in Evals, Saves(e)
  PROVE  /\ e \notin Stored
         /\ Stored' = Stored \cup {e}
         /\ ~receipts'[e].revoked
         /\ \A x \in Evals \ {e} : receipts'[x] = receipts[x]
<1>1. e \notin Stored
  BY DEF Saves, IInv, ClaimsLinked
<1>2. draft[e] \in Receipt /\ draft[e].receipt_id = e
  BY DEF Saves, IInv, Carried
<1>3. [data |-> draft[e], revoked |-> FALSE, consumed_at |-> None] \in Row
  BY <1>2 DEF Row
<1>4. receipts' = [receipts EXCEPT ![e] =
        [data |-> draft[e], revoked |-> FALSE, consumed_at |-> None]]
  BY <1>2 DEF Saves, SaveReceipt
<1>5. receipts'[e] = [data |-> draft[e], revoked |-> FALSE, consumed_at |-> None]
      /\ \A x \in Evals \ {e} : receipts'[x] = receipts[x]
  BY <1>4 DEF IInv, TypeOK, StoreTypeOK
<1>6. Stored' = Stored \cup {e}
  BY <1>3, <1>5, RowAssumption DEF Stored
<1> QED
  BY <1>1, <1>5, <1>6

(* A claim sets consumed_at, which was not set, and nothing else.           *)
LEMMA ClaimsOne ==
  ASSUME IInv, NEW b \in Execs, Claims(b)
  PROVE  LET id == held[b].receipt_id
         IN  /\ held[b] # None /\ b \notin Claimed
             /\ id \in Stored /\ receipts[id].consumed_at = None
             /\ Stored' = Stored
             /\ receipts'[id] = [receipts[id] EXCEPT !.consumed_at = now]
             /\ \A x \in Evals \ {id} : receipts'[x] = receipts[x]
<1>1. held[b] # None /\ b \notin Claimed
  BY DEF Claims, IInv, Carried, Claimed
<1>2. held[b].receipt_id \in Stored /\ receipts[held[b].receipt_id].consumed_at = None
  BY DEF Claims, Consumable
<1> QED
  BY <1>1, <1>2, MarkReceiptConsumedType DEF Claims, IInv, TypeOK

(* A revocation sets revoked flags, and nothing else.                       *)
LEMMA RevokesOnly ==
  ASSUME IInv, NEW a \in Admins, Revokes(a)
  PROVE  /\ Stored' = Stored
         /\ \A x \in Stored : \/ receipts'[x] = receipts[x]
                              \/ receipts'[x] = [receipts[x] EXCEPT !.revoked = TRUE]
<1>1. CASE pc[a] = "revoking" /\ RevokeReceipt(input[a].id)
  <2>1. input[a].id \in Stored
    BY <1>1 DEF IInv, Carried
  <2> QED
    BY <1>1, <2>1, RevokeReceiptType
    DEF RevokeReceipt, IInv, TypeOK, StoreTypeOK, Stored
<1>2. CASE RevokeByAgent(input[a].agent)
  BY <1>2, RevokeByAgentType DEF RevokeByAgent, IInv, TypeOK, Stored
<1> QED
  BY <1>1, <1>2 DEF Revokes

(* A row of the table is never deleted or rewritten, never un-revoked, and  *)
(* consumed_at is set once and never moved, by any step of any handler.     *)
LEMMA RowsEvolve ==
  ASSUME IInv, [Next]_vars
  PROVE  \A id \in Stored : RowEvolves(receipts[id], receipts'[id])
<1>1. \A id \in Stored : receipts[id] \in Row
  BY DEF IInv, TypeOK, StoreTypeOK, Stored
<1>2. CASE \E e \in Evals : Saves(e)
  BY <1>1, <1>2, SavesNew, RowAssumption DEF RowEvolves, Stored
<1>3. CASE \E b \in Execs : Claims(b)
  <2> PICK b \in Execs : Claims(b)
    BY <1>3
  <2> DEFINE c == held[b].receipt_id
  <2>1. /\ c \in Stored /\ receipts[c].consumed_at = None /\ Stored' = Stored
        /\ receipts'[c] = [receipts[c] EXCEPT !.consumed_at = now]
        /\ \A x \in Evals \ {c} : receipts'[x] = receipts[x]
    BY ClaimsOne
  <2> HIDE DEF c
  <2>2. RowEvolves(receipts[c], receipts'[c])
    BY <1>1, <2>1, RowAssumption DEF RowEvolves, Row, Stored
  <2>3. \A id \in Stored \ {c} : RowEvolves(receipts[id], receipts'[id])
    BY <1>1, <2>1, RowAssumption DEF RowEvolves, Stored
  <2> QED
    BY <2>2, <2>3
<1>4. CASE \E a \in Admins : Revokes(a)
  <2> SUFFICES ASSUME NEW id \in Stored
               PROVE  RowEvolves(receipts[id], receipts'[id])
    OBVIOUS
  <2>1. CASE receipts'[id] = receipts[id]
    BY <2>1, <1>1, RowAssumption DEF RowEvolves
  <2>2. CASE receipts'[id] = [receipts[id] EXCEPT !.revoked = TRUE]
    <3>1. receipts'[id] \in Row
      BY <2>2, <1>1 DEF Row
    <3> QED
      BY <2>2, <3>1, <1>1, RowAssumption DEF RowEvolves, Row
  <2> QED
    BY <1>4, <2>1, <2>2, RevokesOnly
<1>5. CASE UNCHANGED receipts
  BY <1>1, <1>5, RowAssumption DEF RowEvolves
<1> QED
  BY <1>2, <1>3, <1>4, <1>5, StepKinds DEF Admits, Sends, Arrives

(* The life of a stored receipt, over every run of the server.              *)
THEOREM Lifecycle == Spec => ReceiptLifecycle
<1>1. IInv /\ [Next]_vars =>
        [\A id \in Stored : RowEvolves(receipts[id], receipts'[id])]_vars
  BY RowsEvolve
<1> QED
  BY <1>1, Invariance, PTL DEF Spec, ReceiptLifecycle

-----------------------------------------------------------------------------
(* The refinement: each kind of step is a step of the promise, or a stutter. *)

(* Saving a receipt gives a grant.                                          *)
LEMMA SavesGives ==
  ASSUME IInv, NEW e \in Evals, Saves(e)
  PROVE  Promise!GiveGrant(e)
<1>1. /\ e \notin Stored
      /\ Stored' = Stored \cup {e}
      /\ ~receipts'[e].revoked
      /\ \A x \in Evals \ {e} : receipts'[x] = receipts[x]
  BY SavesNew
<1>2. UNCHANGED <<held, call>>
  BY DEF Saves
<1>3. {x \in Stored : receipts[x].revoked}' = {x \in Stored : receipts[x].revoked}
  BY <1>1 DEF Stored
<1>4. UNCHANGED <<Claimed, Posted>>
  BY <1>2 DEF Claimed, Posted
<1> QED
  BY <1>1, <1>2, <1>3, <1>4 DEF Promise!GiveGrant

(* An execute request admitted by every check holds a live grant.           *)
LEMMA AdmitsAdmits ==
  ASSUME IInv, NEW b \in Execs, Admits(b), NEW g \in Evals, g = input[b].receipt_id
  PROVE  Promise!AdmitCall(b, g)
<1> DEFINE id == input[b].receipt_id
<1>1. /\ held[b] = None /\ b \notin Claimed /\ id \in Stored /\ ~receipts[id].revoked
      /\ held' = [held EXCEPT ![b] = receipts[id].data]
      /\ UNCHANGED <<receipts, call>>
  BY DEF Admits, Valid, IInv, Carried, Claimed
<1>2. receipts[id].data \in Receipt /\ receipts[id].data # None
      /\ receipts[id].data.receipt_id = id
  BY <1>1, NoneAssumption DEF IInv, TypeOK, StoreTypeOK, ClaimsLinked, Stored, Row
<1>3. held'[b] = receipts[id].data /\ \A c \in Execs \ {b} : held'[c] = held[c]
  BY <1>1 DEF IInv, TypeOK
<1>4. UNCHANGED <<Stored, Claimed, Posted>>
  BY <1>1 DEF Stored, Claimed, Posted
<1> HIDE DEF id
<1>5. [c \in Execs |-> IF held'[c] = None THEN {} ELSE {held'[c].receipt_id}] =
      [[c \in Execs |-> IF held[c] = None THEN {} ELSE {held[c].receipt_id}]
         EXCEPT ![b] = {id}]
  BY <1>1, <1>2, <1>3
<1>6. [x \in Evals |-> {c \in Claimed : held[c].receipt_id = x}]' =
      [x \in Evals |-> {c \in Claimed : held[c].receipt_id = x}]
  BY <1>1, <1>3, <1>4 DEF Claimed
<1>7. {x \in Stored : receipts[x].revoked}' = {x \in Stored : receipts[x].revoked}
  BY <1>1, <1>4
<1> QED
  BY <1>1, <1>4, <1>5, <1>6, <1>7 DEF Promise!AdmitCall, id

(* A successful claim spends the grant, which no one else has spent.        *)
LEMMA ClaimsSpends ==
  ASSUME IInv, NEW b \in Execs, Claims(b), NEW g \in Evals, g = held[b].receipt_id
  PROVE  Promise!SpendGrant(b, g)
<1> DEFINE id == held[b].receipt_id
<1>1. /\ held[b] # None /\ b \notin Claimed
      /\ id \in Stored /\ receipts[id].consumed_at = None /\ Stored' = Stored
      /\ receipts'[id] = [receipts[id] EXCEPT !.consumed_at = now]
      /\ \A x \in Evals \ {id} : receipts'[x] = receipts[x]
  BY ClaimsOne
<1>2. call' = [call EXCEPT ![b] = "claimed"] /\ UNCHANGED held
  BY DEF Claims
<1>3. \A c \in Claimed : held[c].receipt_id # id
  BY <1>1 DEF IInv, ClaimsLinked
<1> HIDE DEF id
<1>4. Claimed' = Claimed \cup {b} /\ Posted' = Posted
  BY <1>1, <1>2 DEF IInv, TypeOK, Claimed, Posted, Out
<1>5. receipts'[id].revoked = receipts[id].revoked
  BY <1>1 DEF IInv, TypeOK, StoreTypeOK, Stored, Row
<1>6. {x \in Stored : receipts[x].revoked}' = {x \in Stored : receipts[x].revoked}
  BY <1>1, <1>5 DEF Stored
<1>7. [x \in Evals |-> {c \in Claimed : held[c].receipt_id = x}]' =
      [[x \in Evals |-> {c \in Claimed : held[c].receipt_id = x}] EXCEPT ![id] = {b}]
  BY <1>2, <1>3, <1>4 DEF id
<1>8. {c \in Claimed : held[c].receipt_id = id} = {}
  BY <1>3
<1>9. [x \in Evals |-> {c \in Claimed : held[c].receipt_id = x}][id] = {}
  BY <1>1, <1>8 DEF Stored
<1>10. id \in [c \in Execs |-> IF held[c] = None THEN {} ELSE {held[c].receipt_id}][b]
  BY <1>1 DEF id
<1>11. [c \in Execs |-> IF held[c] = None THEN {} ELSE {held[c].receipt_id}]' =
       [c \in Execs |-> IF held[c] = None THEN {} ELSE {held[c].receipt_id}]
  BY <1>2
<1> QED
  BY <1>1, <1>4, <1>6, <1>7, <1>9, <1>10, <1>11 DEF Promise!SpendGrant, id

(* A POST is the one call of the request that spent the grant.              *)
LEMMA SendsMakes ==
  ASSUME IInv, NEW b \in Execs, Sends(b), NEW g \in Evals, g = held[b].receipt_id
  PROVE  Promise!MakeCall(b, g)
<1>1. call[b] = "claimed" /\ b \in Claimed /\ b \notin Posted
      /\ held[b].receipt_id \in Stored
  BY DEF Sends, IInv, Carried, ClaimsLinked, Claimed, Posted, Out
<1>2. call' = [call EXCEPT ![b] = "sent"] /\ UNCHANGED <<receipts, held>>
  BY DEF Sends
<1>3. Claimed' = Claimed /\ Posted' = Posted \cup {b} /\ Stored' = Stored
  BY <1>1, <1>2 DEF IInv, TypeOK, Claimed, Posted, Out, Stored
<1>4. b \in [x \in Evals |-> {c \in Claimed : held[c].receipt_id = x}][held[b].receipt_id]
  BY <1>1 DEF Stored
<1> QED
  BY <1>1, <1>2, <1>3, <1>4 DEF Promise!MakeCall

(* A call in the network is not called back or made again.                  *)
LEMMA ArrivesStutters ==
  ASSUME IInv, NEW b \in Execs, Arrives(b)
  PROVE  UNCHANGED <<Stored, receipts, held, Claimed, Posted>>
<1>1. UNCHANGED <<receipts, held>>
  BY DEF Arrives
<1>2. PICK c \in {"delivered", "lost"} : call' = [call EXCEPT ![b] = c]
  BY DEF Arrives
<1>3. Claimed' = Claimed /\ Posted' = Posted
  BY <1>2 DEF Arrives, IInv, TypeOK, Claimed, Posted, Out
<1> QED
  BY <1>1, <1>3 DEF Stored

(* A revocation withdraws grants that were given out.                       *)
LEMMA RevokesWithdraws ==
  ASSUME IInv, NEW a \in Admins, Revokes(a)
  PROVE  \E G \in SUBSET Evals : Promise!Withdraw(G)
<1> DEFINE G == {x \in Stored : receipts'[x].revoked}
<1>1. /\ Stored' = Stored
      /\ \A x \in Stored : \/ receipts'[x] = receipts[x]
                           \/ receipts'[x] = [receipts[x] EXCEPT !.revoked = TRUE]
  BY RevokesOnly
<1>2. \A x \in Stored : receipts[x] \in Row
  BY DEF IInv, TypeOK, StoreTypeOK, Stored
<1>3. \A x \in Stored : receipts[x].revoked => receipts'[x].revoked
  BY <1>1, <1>2 DEF Row
<1>4. {x \in Stored : receipts[x].revoked}' = {x \in Stored : receipts[x].revoked} \cup G
  BY <1>1, <1>3
<1>5. UNCHANGED <<held, Claimed, Posted>>
  BY DEF Revokes, Claimed, Posted
<1>6. G \in SUBSET Evals /\ G \subseteq Stored
  BY DEF Stored
<1> HIDE DEF G
<1> PICK H \in SUBSET Evals : H = G
  BY <1>6
<1>7. Promise!Withdraw(H)
  BY <1>1, <1>4, <1>5, <1>6 DEF Promise!Withdraw
<1> QED
  BY <1>7

(* Every step of the server is a step of the promise or leaves it alone.    *)
LEMMA StepKeepsPromise ==
  ASSUME IInv, [Next]_vars
  PROVE  [Promise!GrantsNext]_Promise!grantVars
<1>1. CASE \E e \in Evals : Saves(e)
  BY <1>1, SavesGives DEF Promise!GrantsNext
<1>2. CASE \E b \in Execs : Admits(b)
  <2> PICK b \in Execs : Admits(b)
    BY <1>2
  <2> PICK g \in Evals : g = input[b].receipt_id
    BY DEF Admits, Stored
  <2>1. Promise!AdmitCall(b, g)
    BY AdmitsAdmits
  <2> QED
    BY <2>1 DEF Promise!GrantsNext
<1>3. CASE \E b \in Execs : Claims(b)
  <2> PICK b \in Execs : Claims(b)
    BY <1>3
  <2> PICK g \in Evals : g = held[b].receipt_id
    BY ClaimsOne DEF Stored
  <2>1. Promise!SpendGrant(b, g)
    BY ClaimsSpends
  <2> QED
    BY <2>1 DEF Promise!GrantsNext
<1>4. CASE \E b \in Execs : Sends(b)
  <2> PICK b \in Execs : Sends(b)
    BY <1>4
  <2> PICK g \in Evals : g = held[b].receipt_id
    BY DEF Sends, IInv, Carried, ClaimsLinked, Claimed, Stored
  <2>1. Promise!MakeCall(b, g)
    BY SendsMakes
  <2> QED
    BY <2>1 DEF Promise!GrantsNext
<1>5. CASE \E b \in Execs : Arrives(b)
  BY <1>5, ArrivesStutters DEF Promise!grantVars
<1>6. CASE \E a \in Admins : Revokes(a)
  BY <1>6, RevokesWithdraws DEF Promise!GrantsNext
<1>7. CASE UNCHANGED <<receipts, held, call>>
  BY <1>7 DEF Promise!grantVars, Stored, Claimed, Posted
<1> QED
  BY <1>1, <1>2, <1>3, <1>4, <1>5, <1>6, <1>7, StepKinds

(* Before the first request nothing is promised.                            *)
LEMMA InitKeepsPromise == Init => Promise!GrantsInit
<1> SUFFICES ASSUME Init PROVE Promise!GrantsInit
  OBVIOUS
<1>1. Stored = {} /\ Claimed = {} /\ Posted = {}
  BY DEF Init, StoreInit, Stored, Claimed, Posted, Out
<1>2. \A b \in Execs : held[b] = None
  BY DEF Init
<1> QED
  BY <1>1, <1>2 DEF Promise!GrantsInit

(* The authorization path implements the promise of module ExecutionGrants: *)
(* a receipt lets at most one call out, which was admitted while the        *)
(* receipt was not revoked, and it goes out at most once.                   *)
THEOREM Refinement == Spec => KeepsPromise
<1>1. IInv /\ [Next]_vars => [Promise!GrantsNext]_Promise!grantVars
  BY StepKeepsPromise
<1> QED
  BY <1>1, InitKeepsPromise, Invariance, PTL
  DEF Spec, KeepsPromise, Promise!GrantsSpec

-----------------------------------------------------------------------------
(* The audit log against what handlers did.                                 *)

(* An evaluate handler that returned with its receipt stored said so.       *)
Reported(e) == e \in Stored /\ pc[e] = "done" => audit[e] = "evaluate"

(* The call an execute handler has made by each of its places, and what its *)
(* flag and its entry say of it.                                            *)
Answered(b) ==
  /\ pc[b] \in {"waiting", "reading", "auditing"} => call[b] \in Out
  /\ pc[b] = "blocked" => call[b] = "none"
  /\ executed[b] => call[b] = "delivered"
  /\ audit[b] = "broker_executed" => call[b] \in Out
  /\ pc[b] = "done" /\ call[b] # "none" => audit[b] = "broker_executed"

RecordInv ==
  /\ \A e \in Evals : Reported(e)
  /\ \A b \in Execs : Answered(b)

(* An execute handler's own steps, and what every other step leaves of it.  *)
LEMMA ExecMoves ==
  ASSUME IInv, [Next]_vars, NEW b \in Execs
  PROVE  \/ ExecuteStep(b) \/ Deliver(b) \/ Lose(b) \/ Trickle(b)
         \/ /\ call'[b] = call[b] /\ executed'[b] = executed[b]
            /\ audit'[b] = audit[b]
            /\ pc'[b] \in {pc[b], "received", "aborted"}
<1> USE RequestsAssumption
    DEF InFlight, Finished, Goto, history, procVars, storeVars, IInv, TypeOK, Requests
<1>1. CASE \E e \in Evals : ReceiveOther(e, EvalInputs) \/ EvaluateStep(e)
  BY <1>1 DEF ReceiveOther, Receive, EvaluateStep, Evaluate, Issue, Save,
              AuditEvaluate, Record
<1>2. CASE \E c \in Execs : ReceiveDated(c, ExecInputs)
  BY <1>2 DEF ReceiveDated, Receive
<1>3. CASE \E c \in Execs : ExecuteStep(c) \/ Deliver(c) \/ Lose(c) \/ Trickle(c)
  <2> PICK c \in Execs : ExecuteStep(c) \/ Deliver(c) \/ Lose(c) \/ Trickle(c)
    BY <1>3
  <2>1. CASE c # b
    BY <2>1 DEF ExecuteStep, Admit, CheckReceipt, Claim, Post, Answer,
                AuditExecute, Record, Deliver, Lose, Trickle
  <2> QED
    BY <2>1
<1>4. CASE \E w \in Verifies : ReceiveDated(w, VerifyInputs) \/ VerifyStep(w)
  BY <1>4 DEF ReceiveDated, Receive, VerifyStep, CheckVerify, AuditVerify, Record
<1>5. CASE \E a \in Admins : ReceiveOther(a, AdminInputs) \/ AdminStep(a)
  BY <1>5 DEF ReceiveOther, Receive, AdminStep, FindRevokee, Revoke,
              RevokeAgent, SwitchKill, AuditAdmin, Record
<1>6. CASE (\E s \in Requests : Abort(s)) \/ Restart \/ Tick
  BY <1>6 DEF Abort, Restart, Tick
<1>7. CASE UNCHANGED vars
  BY <1>7 DEF vars
<1> QED
  BY <1>1, <1>2, <1>3, <1>4, <1>5, <1>6, <1>7 DEF Next

LEMMA AnsweredKept ==
  ASSUME IInv, [Next]_vars, NEW b \in Execs, Answered(b)
  PROVE  Answered(b)'
<1> USE DEF Answered, Out, Goto, Record, IInv, TypeOK, Requests
<1>1. CASE Admit(b) \/ CheckReceipt(b) \/ Claim(b)
  <2>1. pc[b] \in {"received", "looking", "checked"} /\ call[b] = "none"
    BY <1>1 DEF Admit, CheckReceipt, Claim, Carried
  <2>2. /\ UNCHANGED <<executed, audit>>
        /\ call'[b] = "none" \/ (call'[b] = "claimed" /\ pc'[b] = "claimed")
        /\ pc'[b] \in {"looking", "checked", "claimed", "blocked", "done"}
    BY <1>1, <2>1 DEF Admit, CheckReceipt, Claim
  <2> QED
    BY <2>1, <2>2
<1>2. CASE Post(b)
  BY <1>2 DEF Post, Carried
<1>3. CASE Answer(b)
  BY <1>3 DEF Answer, Outcomes
<1>4. CASE AuditExecute(b)
  BY <1>4 DEF AuditExecute
<1>5. CASE Deliver(b) \/ Lose(b) \/ Trickle(b)
  BY <1>5 DEF Deliver, Lose, Trickle
<1>6. CASE /\ call'[b] = call[b] /\ executed'[b] = executed[b]
           /\ audit'[b] = audit[b]
           /\ pc'[b] \in {pc[b], "received", "aborted"}
  BY <1>6
<1> QED
  BY <1>1, <1>2, <1>3, <1>4, <1>5, <1>6, ExecMoves DEF ExecuteStep

(* An evaluate handler returns by its last step, which puts on record       *)
(* whether it was blocked.                                                  *)
LEMMA EvaluateReturns ==
  ASSUME IInv, [Next]_vars, NEW e \in Evals, pc'[e] = "done"
  PROVE  \/ pc[e] = "done" /\ audit'[e] = audit[e]
         \/ pc[e] = "auditing" /\ audit'[e] = "evaluate"
         \/ pc[e] = "blocked"
<1> USE RequestsAssumption
    DEF InFlight, Finished, Goto, history, procVars, storeVars, IInv, TypeOK, Requests
<1>1. CASE \E f \in Evals : ReceiveOther(f, EvalInputs) \/ EvaluateStep(f)
  BY <1>1 DEF ReceiveOther, Receive, EvaluateStep, Evaluate, Issue, Save,
              AuditEvaluate, Record
<1>2. CASE \E c \in Execs : ReceiveDated(c, ExecInputs)
  BY <1>2 DEF ReceiveDated, Receive
<1>3. CASE \E c \in Execs : ExecuteStep(c) \/ Deliver(c) \/ Lose(c) \/ Trickle(c)
  BY <1>3 DEF ExecuteStep, Admit, CheckReceipt, Claim, Post, Answer,
              AuditExecute, Record, Deliver, Lose, Trickle
<1>4. CASE \E w \in Verifies : ReceiveDated(w, VerifyInputs) \/ VerifyStep(w)
  BY <1>4 DEF ReceiveDated, Receive, VerifyStep, CheckVerify, AuditVerify, Record
<1>5. CASE \E a \in Admins : ReceiveOther(a, AdminInputs) \/ AdminStep(a)
  BY <1>5 DEF ReceiveOther, Receive, AdminStep, FindRevokee, Revoke,
              RevokeAgent, SwitchKill, AuditAdmin, Record
<1>6. CASE (\E s \in Requests : Abort(s)) \/ Restart \/ Tick
  BY <1>6 DEF Abort, Restart, Tick
<1>7. CASE UNCHANGED vars
  BY <1>7 DEF vars
<1> QED
  BY <1>1, <1>2, <1>3, <1>4, <1>5, <1>6, <1>7 DEF Next

(* A step adds to the store only the receipt a handler is saving.           *)
LEMMA StoredGrows ==
  ASSUME IInv, [Next]_vars
  PROVE  \A e \in Stored' : \/ e \in Stored
                            \/ /\ pc[e] = "saving" /\ ~receipts'[e].revoked
                               /\ \A x \in Evals \ {e} : receipts'[x] = receipts[x]
<1>1. CASE \E e \in Evals : Saves(e)
  <2> PICK e \in Evals : Saves(e)
    BY <1>1
  <2> QED
    BY SavesNew DEF Saves
<1>2. CASE \E b \in Execs : Claims(b)
  BY <1>2, ClaimsOne
<1>3. CASE \E b \in Execs : Admits(b) \/ Sends(b) \/ Arrives(b)
  BY <1>3 DEF Admits, Sends, Arrives, Stored
<1>4. CASE \E a \in Admins : Revokes(a)
  BY <1>4, RevokesOnly
<1>5. CASE UNCHANGED <<receipts, held, call>>
  BY <1>5 DEF Stored
<1> QED
  BY <1>1, <1>2, <1>3, <1>4, <1>5, StepKinds

LEMMA ReportedKept ==
  ASSUME IInv, [Next]_vars, NEW e \in Evals, Reported(e)
  PROVE  Reported(e)'
<1> SUFFICES ASSUME e \in Stored', pc'[e] = "done"
             PROVE  audit'[e] = "evaluate"
  BY DEF Reported
<1>1. e \in Stored \/ pc[e] = "saving"
  BY StoredGrows
<1>2. e \in Stored => pc[e] \in {"auditing", "done", "aborted"}
  BY DEF IInv, ClaimsLinked
<1> QED
  BY <1>1, <1>2, EvaluateReturns DEF Reported

-----------------------------------------------------------------------------
(* Admin requests: who revoked what, and who switched the kill switch.      *)

(* An admin handler that revokes has checked its key against the receipt.   *)
ScopeInv ==
  /\ AdminScoped
  /\ \A a \in Admins : pc[a] = "revoking" => Covers(input[a], input[a].id)

(* An admin request past its checks keeps its body; it starts to revoke by  *)
(* FindRevokee only, comes to its entry by what the entry is about, and     *)
(* leaves it only by writing it or by failing.                              *)
LEMMA AdminMoves ==
  ASSUME IInv, [Next]_vars, NEW a \in Admins
  PROVE  /\ pc[a] \notin {"idle", "received"} =>
              pc'[a] \notin {"idle", "received"} /\ input'[a] = input[a]
         /\ pc'[a] = "revoking" => pc[a] = "revoking" \/ FindRevokee(a)
         /\ pc'[a] = "auditing" =>
              pc[a] = "auditing" \/ Revoke(a) \/ RevokeAgent(a) \/ SwitchKill(a)
         /\ audit'[a] = audit[a] \/ AuditAdmin(a)
         /\ pc[a] = "auditing" => pc'[a] \in {"auditing", "aborted"} \/ AuditAdmin(a)
         /\ pc[a] = "aborted" => pc'[a] = "aborted"
<1> USE RequestsAssumption
    DEF InFlight, Finished, Goto, history, procVars, storeVars, IInv, TypeOK, Requests
<1>1. CASE \E e \in Evals : ReceiveOther(e, EvalInputs) \/ EvaluateStep(e)
  BY <1>1 DEF ReceiveOther, Receive, EvaluateStep, Evaluate, Issue, Save,
              AuditEvaluate, Record
<1>2. CASE \E b \in Execs : ReceiveDated(b, ExecInputs)
  BY <1>2 DEF ReceiveDated, Receive
<1>3. CASE \E b \in Execs : ExecuteStep(b) \/ Deliver(b) \/ Lose(b) \/ Trickle(b)
  BY <1>3 DEF ExecuteStep, Admit, CheckReceipt, Claim, Post, Answer,
              AuditExecute, Record, Deliver, Lose, Trickle
<1>4. CASE \E v \in Verifies : ReceiveDated(v, VerifyInputs) \/ VerifyStep(v)
  BY <1>4 DEF ReceiveDated, Receive, VerifyStep, CheckVerify, AuditVerify, Record
<1>5. CASE \E c \in Admins : ReceiveOther(c, AdminInputs) \/ AdminStep(c)
  BY <1>5 DEF ReceiveOther, Receive, AdminStep, FindRevokee, Revoke,
              RevokeAgent, SwitchKill, AuditAdmin, Record
<1>6. CASE (\E s \in Requests : Abort(s)) \/ Restart \/ Tick
  BY <1>6 DEF Abort, Restart, Tick
<1>7. CASE UNCHANGED vars
  BY <1>7 DEF vars
<1> QED
  BY <1>1, <1>2, <1>3, <1>4, <1>5, <1>6, <1>7 DEF Next

(* Only the two revocations and the switch move what the property is about. *)
LEMMA AdminActs ==
  ASSUME [Next]_vars
  PROVE  \/ \E e \in Evals : Saves(e) /\ UNCHANGED kill_switch
         \/ \E b \in Execs : Claims(b) /\ UNCHANGED kill_switch
         \/ \E a \in Admins : \/ Revoke(a)
                              \/ RevokeAgent(a) /\ MayRevoke(input[a].key, input[a].agent)
                              \/ SwitchKill(a) /\ input[a].key = "full"
         \/ UNCHANGED <<receipts, kill_switch>>
<1> USE DEF storeVars, procVars, Goto
<1>1. CASE \E e \in Evals : ReceiveOther(e, EvalInputs) \/ EvaluateStep(e)
  BY <1>1 DEF ReceiveOther, Receive, EvaluateStep, Evaluate, Issue, Save,
              SaveReceipt, AuditEvaluate, Saves
<1>2. CASE \E b \in Execs : ReceiveDated(b, ExecInputs) \/ Deliver(b) \/ Lose(b) \/ Trickle(b)
  BY <1>2 DEF ReceiveDated, Receive, Deliver, Lose, Trickle
<1>3. CASE \E b \in Execs : ExecuteStep(b)
  BY <1>3 DEF ExecuteStep, Admit, CheckReceipt, Claim, MarkReceiptConsumed, Post,
              Answer, AuditExecute, Claims
<1>4. CASE \E a \in Admins : ReceiveOther(a, AdminInputs) \/ AdminStep(a)
  BY <1>4 DEF ReceiveOther, Receive, AdminStep, FindRevokee, RevokeAgent,
              SwitchKill, AuditAdmin
<1>5. CASE \E v \in Verifies : ReceiveDated(v, VerifyInputs) \/ VerifyStep(v)
  BY <1>5 DEF ReceiveDated, Receive, VerifyStep, CheckVerify, AuditVerify
<1>6. CASE (\E r \in Requests : Abort(r)) \/ Restart \/ Tick
  BY <1>6 DEF Abort, Restart, Tick
<1>7. CASE UNCHANGED vars
  BY <1>7 DEF vars
<1> QED
  BY <1>1, <1>2, <1>3, <1>4, <1>5, <1>6, <1>7 DEF Next

(* A receipt that a step revokes is covered by the request that does it.    *)
LEMMA RevokedBy ==
  ASSUME IInv, ScopeInv, [Next]_vars, NEW id \in Stored', receipts'[id].revoked
  PROVE  \/ id \in Stored /\ receipts[id].revoked
         \/ \E a \in Admins : /\ id \in Stored /\ Covers(input[a], id)
                              /\ pc'[a] = "auditing"
                              /\ input'[a] = input[a]
<1>1. CASE \E e \in Evals : Saves(e)
  BY <1>1, SavesNew DEF Stored
<1>2. CASE \E b \in Execs : Claims(b)
  <2> PICK b \in Execs : Claims(b)
    BY <1>2
  <2> DEFINE c == held[b].receipt_id
  <2>1. /\ c \in Stored /\ Stored' = Stored
        /\ receipts'[c] = [receipts[c] EXCEPT !.consumed_at = now]
        /\ \A x \in Evals \ {c} : receipts'[x] = receipts[x]
    BY ClaimsOne
  <2>2. receipts[c] \in Row
    BY <2>1 DEF IInv, TypeOK, StoreTypeOK, Stored
  <2> HIDE DEF c
  <2> QED
    BY <2>1, <2>2 DEF Stored, Row
<1>3. ASSUME NEW a \in Admins, Revoke(a)
      PROVE  \/ id \in Stored /\ receipts[id].revoked
             \/ id \in Stored /\ id = input[a].id /\ Covers(input[a], id)
  <2>1. pc[a] = "revoking" /\ RevokeReceipt(input[a].id)
    BY <1>3 DEF Revoke, Goto
  <2>2. input[a].id \in Stored /\ Covers(input[a], input[a].id)
    BY <2>1 DEF IInv, Carried, ScopeInv
  <2>3. Stored' = Stored /\ \A x \in Evals \ {input[a].id} : receipts'[x] = receipts[x]
    BY <2>1, <2>2, RevokeReceiptType DEF RevokeReceipt, IInv, TypeOK, StoreTypeOK
  <2> QED
    BY <2>2, <2>3 DEF Stored
<1>4. ASSUME NEW a \in Admins,
             RevokeAgent(a), MayRevoke(input[a].key, input[a].agent)
      PROVE  \/ id \in Stored /\ receipts[id].revoked
             \/ id \in Stored /\ Covers(input[a], id)
  <2>1. RevokeByAgent(input[a].agent) /\ input[a].op = "revoke_agent"
    BY <1>4 DEF RevokeAgent
  <2>2. Stored' = Stored
    BY <2>1, RevokeByAgentType DEF IInv, TypeOK
  <2>3. receipts'[id] = IF id \in Stored /\ receipts[id].data.agent_id = input[a].agent
                        THEN [receipts[id] EXCEPT !.revoked = TRUE]
                        ELSE receipts[id]
    BY <2>1 DEF RevokeByAgent, Stored
  <2>4. CASE receipts[id].data.agent_id = input[a].agent
    BY <1>4, <2>1, <2>2, <2>4 DEF MayRevoke, Covers
  <2>5. CASE receipts[id].data.agent_id # input[a].agent
    BY <2>2, <2>3, <2>5
  <2> QED
    BY <2>4, <2>5
<1>5. \A a \in Admins : Revoke(a) \/ (RevokeAgent(a) /\ MayRevoke(input[a].key, input[a].agent)) =>
        pc'[a] = "auditing" /\ input'[a] = input[a]
  BY DEF Revoke, RevokeAgent, Goto, IInv, TypeOK, Requests
<1>6. CASE \E a \in Admins : SwitchKill(a) /\ input[a].key = "full"
  BY <1>6 DEF SwitchKill, SetKillSwitch, Stored
<1>7. CASE UNCHANGED <<receipts, kill_switch>>
  BY <1>7 DEF Stored
<1> QED
  BY <1>1, <1>2, <1>3, <1>4, <1>5, <1>6, <1>7, AdminActs

(* The kill switch comes on by a request with the full key.                 *)
LEMMA SwitchedBy ==
  ASSUME IInv, [Next]_vars, kill_switch'
  PROVE  \/ kill_switch
         \/ \E a \in Admins : /\ pc'[a] = "auditing"
                              /\ input'[a] = input[a]
                              /\ input[a].op = "kill_switch" /\ input[a].key = "full"
                              /\ input[a].active
<1>1. CASE \E a \in Admins : SwitchKill(a) /\ input[a].key = "full"
  BY <1>1 DEF SwitchKill, SetKillSwitch, IInv, TypeOK, Requests
<1>2. CASE \E a \in Admins : Revoke(a)
  BY <1>2 DEF Revoke, RevokeReceipt
<1>3. CASE \E a \in Admins : RevokeAgent(a) /\ MayRevoke(input[a].key, input[a].agent)
  BY <1>3 DEF RevokeAgent, RevokeByAgent
<1> QED
  BY <1>1, <1>2, <1>3, AdminActs

LEMMA ScopeNext == IInv /\ ScopeInv /\ [Next]_vars => ScopeInv'
<1> SUFFICES ASSUME IInv, ScopeInv, [Next]_vars PROVE ScopeInv'
  OBVIOUS
<1>1. ASSUME NEW id \in Stored', receipts'[id].revoked
      PROVE  \E a \in Admins : /\ pc'[a] \notin {"idle", "received"}
                               /\ Covers(input[a], id)' 
  <2>1. PICK a \in Admins : /\ id \in Stored /\ Covers(input[a], id)
                            /\ pc'[a] \notin {"idle", "received"}
                            /\ input'[a] = input[a]
    BY <1>1, RevokedBy, AdminMoves DEF ScopeInv, AdminScoped
  <2>2. receipts'[id].data = receipts[id].data
    BY <2>1, RowsEvolve DEF RowEvolves
  <2> QED
    BY <2>1, <2>2 DEF Covers
<1>2. ASSUME kill_switch'
      PROVE  \E a \in Admins : /\ pc'[a] \notin {"idle", "received"}
                               /\ input'[a].op = "kill_switch" /\ input'[a].key = "full"
  BY <1>2, SwitchedBy, AdminMoves DEF ScopeInv, AdminScoped
<1>3. ASSUME NEW a \in Admins, pc'[a] = "revoking"
      PROVE  Covers(input[a], input[a].id)'
  <2>1. /\ input[a].id \in Stored /\ Covers(input[a], input[a].id)
        /\ input'[a] = input[a]
    <3>1. CASE pc[a] = "revoking"
      BY <3>1, AdminMoves DEF ScopeInv, IInv, Carried
    <3>2. CASE FindRevokee(a)
      BY <1>3, <3>2 DEF FindRevokee, MayRevoke, Covers, IInv, TypeOK, Requests
    <3> QED
      BY <1>3, <3>1, <3>2, AdminMoves
  <2>2. receipts'[input[a].id].data = receipts[input[a].id].data
    BY <2>1, RowsEvolve DEF RowEvolves
  <2> QED
    BY <2>1, <2>2 DEF Covers
<1> QED
  BY <1>1, <1>2, <1>3 DEF ScopeInv, AdminScoped

(* No receipt is revoked but by a request whose key covers its agent, and   *)
(* the kill switch is on only by a request with the full key.               *)
THEOREM Scoped == Spec => []AdminScoped
<1>1. Init => ScopeInv
  BY DEF Init, StoreInit, ScopeInv, AdminScoped, Stored, Requests
<1>2. ScopeInv => AdminScoped
  BY DEF ScopeInv
<1> QED
  BY <1>1, <1>2, ScopeNext, Invariance, PTL DEF Spec

-----------------------------------------------------------------------------
(* Admin requests on record.                                                *)

Past(a) == pc[a] \notin {"idle", "received"}

Entry(i) == IF i.op = "kill_switch" THEN "kill_switch_changed" ELSE "receipt_revoked"

(* What a revocation that came to its entry, or has written it, has done.   *)
Effective(a) ==
  \/ /\ input[a].op = "revoke" /\ input[a].id \in Stored
     /\ Covers(input[a], input[a].id) /\ receipts[input[a].id].revoked
  \/ input[a].op = "revoke_agent" /\ MayRevoke(input[a].key, input[a].agent)

Acted(a) ==
  /\ pc[a] = "auditing" /\ input[a].op # "kill_switch" => Effective(a)
  /\ audit[a] = "receipt_revoked" => Past(a) /\ Effective(a)

RevokersRecorded ==
  \A id \in Stored : receipts[id].revoked =>
    \E a \in Admins : Past(a) /\ Covers(input[a], id) /\ OnRecord(a, Entry(input[a]))

SwitcherRecorded ==
  kill_switch => \E a \in Admins : /\ Past(a) /\ input[a].op = "kill_switch"
                                   /\ input[a].active /\ OnRecord(a, Entry(input[a]))

AdminRecordInv ==
  /\ \A a \in Admins : Acted(a)
  /\ RevokersRecorded
  /\ SwitcherRecorded

(* What is on record stays there, or on its way there.                      *)
LEMMA OnRecordStays ==
  ASSUME IInv, [Next]_vars, NEW a \in Admins, Past(a), OnRecord(a, Entry(input[a]))
  PROVE  Past(a)' /\ input'[a] = input[a] /\ OnRecord(a, Entry(input[a]))'
<1>1. Past(a)' /\ input'[a] = input[a]
  BY AdminMoves DEF Past
<1>2. CASE AuditAdmin(a)
  BY <1>1, <1>2 DEF AuditAdmin, Record, OnRecord, Entry, IInv, TypeOK, Requests
<1>3. CASE ~AuditAdmin(a)
  BY <1>1, <1>3, AdminMoves DEF OnRecord, Entry
<1> QED
  BY <1>1, <1>2, <1>3

(* A revocation that was done stays done.                                   *)
LEMMA EffectiveStays ==
  ASSUME IInv, [Next]_vars, NEW a \in Admins, Past(a), Effective(a)
  PROVE  Effective(a)'
<1>1. input'[a] = input[a]
  BY AdminMoves DEF Past
<1>2. CASE input[a].op = "revoke_agent" /\ MayRevoke(input[a].key, input[a].agent)
  BY <1>1, <1>2 DEF Effective, MayRevoke
<1>3. CASE /\ input[a].op = "revoke" /\ input[a].id \in Stored
           /\ Covers(input[a], input[a].id) /\ receipts[input[a].id].revoked
  <2>1. RowEvolves(receipts[input[a].id], receipts'[input[a].id])
    BY <1>3, RowsEvolve
  <2>2. input[a].id \in Evals
    BY <1>3 DEF Stored
  <2> QED
    BY <1>1, <1>3, <2>1, <2>2 DEF Effective, RowEvolves, Covers, Stored
<1> QED
  BY <1>2, <1>3 DEF Effective

(* A revocation has done its part when it comes to its entry.               *)
LEMMA ActedKept ==
  ASSUME IInv, ScopeInv, [Next]_vars, NEW a \in Admins, Acted(a)
  PROVE  Acted(a)'
<1>1. ASSUME pc'[a] = "auditing", input'[a].op # "kill_switch"
      PROVE  Effective(a)'
  <2>1. CASE pc[a] = "auditing"
    BY <1>1, <2>1, AdminMoves, EffectiveStays DEF Acted, Past
  <2>2. CASE Revoke(a)
    <3>1. /\ pc[a] = "revoking" /\ input[a].op = "revoke"
          /\ input[a].id \in Stored /\ Covers(input[a], input[a].id)
      BY <2>2 DEF Revoke, Goto, IInv, Carried, ScopeInv
    <3>2. input'[a] = input[a] /\ input[a].id \in Evals
      BY <2>2, <3>1 DEF Revoke, Stored
    <3>3. /\ receipts[input[a].id] \in Row
          /\ receipts'[input[a].id] = [receipts[input[a].id] EXCEPT !.revoked = TRUE]
      BY <2>2, <3>1, <3>2 DEF Revoke, RevokeReceipt, IInv, TypeOK, StoreTypeOK, Stored
    <3>4. /\ receipts'[input[a].id] \in Row /\ receipts'[input[a].id].revoked
          /\ receipts'[input[a].id].data = receipts[input[a].id].data
      BY <3>3 DEF Row
    <3>5. input[a].id \in Stored'
      BY <3>2, <3>4, RowAssumption DEF Stored
    <3> QED
      BY <3>1, <3>2, <3>4, <3>5 DEF Effective, Covers
  <2>3. CASE RevokeAgent(a)
    BY <1>1, <2>3 DEF RevokeAgent, Effective, MayRevoke, IInv, TypeOK, Requests
  <2>4. CASE SwitchKill(a)
    BY <1>1, <2>4 DEF SwitchKill
  <2> QED
    BY <1>1, <2>1, <2>2, <2>3, <2>4, AdminMoves
<1>2. ASSUME audit'[a] = "receipt_revoked"
      PROVE  Past(a)' /\ Effective(a)'
  <2>1. CASE AuditAdmin(a)
    <3>1. pc[a] = "auditing" /\ input[a].op # "kill_switch"
      BY <1>2, <2>1 DEF AuditAdmin, Goto, Record, IInv, TypeOK, Requests
    <3> QED
      BY <3>1, AdminMoves, EffectiveStays DEF Acted, Past
  <2>2. CASE audit'[a] = audit[a]
    BY <1>2, <2>2, AdminMoves, EffectiveStays DEF Acted, Past
  <2> QED
    BY <2>1, <2>2, AdminMoves
<1> QED
  BY <1>1, <1>2 DEF Acted

(* Who revokes a receipt is then at its entry, and who did before is on     *)
(* record, on the way there, or failed.                                     *)
LEMMA RevokersKept ==
  ASSUME IInv, ScopeInv, AdminRecordInv, [Next]_vars
  PROVE  RevokersRecorded'
<1> SUFFICES ASSUME NEW id \in Stored', receipts'[id].revoked
             PROVE  \E a \in Admins : /\ Past(a)' /\ Covers(input[a], id)'
                                      /\ OnRecord(a, Entry(input[a]))'
  BY DEF RevokersRecorded
<1>1. CASE id \in Stored /\ receipts[id].revoked
  <2>1. PICK a \in Admins : Past(a) /\ Covers(input[a], id) /\ OnRecord(a, Entry(input[a]))
    BY <1>1 DEF AdminRecordInv, RevokersRecorded
  <2>2. Past(a)' /\ input'[a] = input[a] /\ OnRecord(a, Entry(input[a]))'
    BY <2>1, OnRecordStays
  <2>3. receipts'[id].data = receipts[id].data
    BY <1>1, RowsEvolve DEF RowEvolves
  <2> QED
    BY <2>1, <2>2, <2>3 DEF Covers
<1>2. CASE ~(id \in Stored /\ receipts[id].revoked)
  <2>1. PICK a \in Admins : /\ id \in Stored /\ Covers(input[a], id)
                            /\ pc'[a] = "auditing" /\ input'[a] = input[a]
    BY <1>2, RevokedBy
  <2>2. receipts'[id].data = receipts[id].data
    BY <2>1, RowsEvolve DEF RowEvolves
  <2> QED
    BY <2>1, <2>2 DEF Covers, Past, OnRecord
<1> QED
  BY <1>1, <1>2

LEMMA SwitcherKept ==
  ASSUME IInv, AdminRecordInv, [Next]_vars
  PROVE  SwitcherRecorded'
<1> SUFFICES ASSUME kill_switch'
             PROVE  \E a \in Admins : /\ Past(a)' /\ input'[a].op = "kill_switch"
                                      /\ input'[a].active /\ OnRecord(a, Entry(input[a]))'
  BY DEF SwitcherRecorded
<1>1. CASE kill_switch
  BY <1>1, OnRecordStays DEF AdminRecordInv, SwitcherRecorded
<1>2. CASE ~kill_switch
  BY <1>2, SwitchedBy DEF Past, OnRecord
<1> QED
  BY <1>1, <1>2

(* Receipts issued, calls made, revocations and switchings are on record    *)
(* unless the handler failed before its last step, and what is on record of *)
(* deliveries and revocations happened.                                     *)
THEOREM AuditTells == Spec => []AuditFaithful
<1> DEFINE Inv == ScopeInv /\ RecordInv /\ AdminRecordInv
<1>1. Init => Inv
  <2> SUFFICES ASSUME Init PROVE Inv
    OBVIOUS
  <2>1. \A r \in Requests : pc[r] = "idle" /\ audit[r] = None
    BY DEF Init
  <2>2. Evals \subseteq Requests /\ Execs \subseteq Requests /\ Admins \subseteq Requests
    BY DEF Requests
  <2>3. \A b \in Execs : call[b] = "none" /\ ~executed[b]
    BY DEF Init
  <2>4. RecordInv
    BY <2>1, <2>2, <2>3, EventsAssumption DEF RecordInv, Reported, Answered, Events
  <2>5. Stored = {} /\ ~kill_switch
    BY DEF Init, StoreInit, Stored
  <2>6. \A a \in Admins : Acted(a)
    BY <2>1, <2>2, EventsAssumption DEF Acted, Events
  <2> QED
    BY <2>1, <2>2, <2>4, <2>5, <2>6
    DEF AdminRecordInv, RevokersRecorded, SwitcherRecorded, ScopeInv, AdminScoped
<1>2. IInv /\ Inv /\ [Next]_vars => Inv'
  BY ReportedKept, AnsweredKept, ScopeNext, ActedKept, RevokersKept, SwitcherKept
  DEF RecordInv, AdminRecordInv
<1>3. IInv /\ Inv => AuditFaithful
  <2> SUFFICES ASSUME IInv, Inv PROVE AuditFaithful
    OBVIOUS
  <2>1. /\ \A e \in Stored : pc[e] = "done" => audit[e] = "evaluate"
        /\ \A b \in Claimed : pc[b] = "done" => audit[b] = "broker_executed"
        /\ \A b \in Execs : audit[b] = "broker_executed" =>
             b \in Posted /\ (executed[b] => call[b] = "delivered")
    BY DEF RecordInv, Reported, Answered, Claimed, Posted, Out, Stored
  <2>2. \A a \in Admins, id \in Stored : Covers(input[a], id) => input[a].op # "kill_switch"
    BY DEF Covers
  <2>3. \A id \in Stored : receipts[id].revoked =>
          \E a \in Admins : Covers(input[a], id) /\ OnRecord(a, "receipt_revoked")
    BY <2>2 DEF AdminRecordInv, RevokersRecorded, Entry
  <2>4. kill_switch =>
          \E a \in Admins : /\ input[a].op = "kill_switch" /\ input[a].active
                            /\ OnRecord(a, "kill_switch_changed")
    BY DEF AdminRecordInv, SwitcherRecorded, Entry
  <2>5. \A a \in Admins : audit[a] = "receipt_revoked" =>
          \/ input[a].op = "revoke" /\ Covers(input[a], input[a].id)
               /\ receipts[input[a].id].revoked
          \/ input[a].op = "revoke_agent" /\ MayRevoke(input[a].key, input[a].agent)
    BY DEF AdminRecordInv, Acted, Effective
  <2> HIDE DEF Inv
  <2> QED
    BY <2>1, <2>3, <2>4, <2>5 DEF AuditFaithful
<1> QED
  BY <1>1, <1>2, <1>3, Invariance, PTL DEF Spec
=============================================================================
