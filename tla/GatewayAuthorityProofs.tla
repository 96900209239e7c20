------------------------ MODULE GatewayAuthorityProofs ------------------------
(* Theorems about module Gateway, for every value of the constants:          *)
(* authority that was gone when a request arrived, the kill switch, what     *)
(* goes out against what was allowed, and the per-agent chain.               *)
EXTENDS GatewayPromiseProofs

Asking == Execs \cup Verifies

(* What was noted as r arrived is still true, but for revocations since:    *)
(* the clock has not gone back, what was revoked stayed revoked, and a      *)
(* request in flight has seen one signing key only.                         *)
Dated(r) ==
  pc[r] # "idle" =>
    /\ arrival[r].at \in Nat /\ arrival[r].at <= now
    /\ \A id \in arrival[r].revoked : id \in Stored /\ receipts[id].revoked
    /\ InFlight(r) => arrival[r].key = SigningKey

(* The receipt an execute request was admitted with was live on arrival.    *)
Backed(b) ==
  held[b] # None => /\ held[b].receipt_id \notin arrival[b].revoked
                    /\ arrival[b].at <= held[b].expires_at

(* So was the receipt a verify request has found, or has reported, valid.   *)
Vouched(v) ==
  pc[v] = "auditing" \/ audit[v] = "receipt_verified" =>
    LET id == input[v].receipt_id
    IN  /\ pc[v] # "idle"
        /\ id \in Stored \ arrival[v].revoked
        /\ arrival[v].at <= receipts[id].data.expires_at
        /\ receipts[id].data.key = arrival[v].key

(* The inductive invariant behind StaleAuthorityRefused and VerifiedWasLive.*)
AuthorityInv ==
  /\ \A r \in Asking : Dated(r)
  /\ \A b \in Execs : Backed(b)
  /\ \A v \in Verifies : Vouched(v)

(* A request arrives, or its handler moves on: what it carries and what was *)
(* noted on its arrival stay, and it does not outlive the process.          *)
Arriving(r) ==
  /\ pc[r] = "idle"
  /\ arrival' = [arrival EXCEPT ![r] =
       [at |-> now, key |-> SigningKey,
        revoked |-> {id \in Stored : receipts[id].revoked}]]
  /\ UNCHANGED <<receipts, now, restarts>>

Continuing(r) ==
  /\ arrival'[r] = arrival[r]
  /\ input'[r] = input[r]
  /\ pc'[r] = "idle" <=> pc[r] = "idle"
  /\ InFlight(r)' => InFlight(r) /\ restarts' = restarts

LEMMA StepOf ==
  ASSUME IInv, [Next]_vars, NEW r \in Asking
  PROVE  /\ Arriving(r) \/ Continuing(r)
         /\ now' \in Nat /\ now <= now'
<1> USE RequestsAssumption
    DEF Asking, Arriving, Continuing, InFlight, Finished, Goto, history, procVars,
        storeVars, IInv, TypeOK, Requests
<1>1. CASE \E e \in Evals : ReceiveOther(e, EvalInputs) \/ EvaluateStep(e)
  BY <1>1 DEF ReceiveOther, Receive, EvaluateStep, Evaluate, Issue, Save,
              AuditEvaluate, Record
<1>2. CASE \E b \in Execs : ReceiveDated(b, ExecInputs)
  <2> PICK b \in Execs : ReceiveDated(b, ExecInputs)
    BY <1>2
  <2>1. UNCHANGED <<receipts, now, restarts>> /\ now \in Nat
    BY DEF ReceiveDated, Receive
  <2>2. CASE r = b
    BY <2>1, <2>2 DEF ReceiveDated, Receive
  <2>3. CASE r # b
    <3>1. arrival'[r] = arrival[r] /\ input'[r] = input[r] /\ pc'[r] = pc[r]
      BY <2>3 DEF ReceiveDated, Receive
    <3> QED
      BY <2>1, <3>1
  <2> QED
    BY <2>2, <2>3
<1>3. CASE \E b \in Execs : ExecuteStep(b) \/ Deliver(b) \/ Lose(b) \/ Trickle(b)
  BY <1>3 DEF ExecuteStep, Admit, CheckReceipt, Claim, Post, Answer,
              AuditExecute, Record, Deliver, Lose, Trickle
<1>4. CASE \E v \in Verifies : ReceiveDated(v, VerifyInputs)
  <2> PICK v \in Verifies : ReceiveDated(v, VerifyInputs)
    BY <1>4
  <2>1. UNCHANGED <<receipts, now, restarts>> /\ now \in Nat
    BY DEF ReceiveDated, Receive
  <2>2. CASE r = v
    BY <2>1, <2>2 DEF ReceiveDated, Receive
  <2>3. CASE r # v
    <3>1. arrival'[r] = arrival[r] /\ input'[r] = input[r] /\ pc'[r] = pc[r]
      BY <2>3 DEF ReceiveDated, Receive
    <3> QED
      BY <2>1, <3>1
  <2> QED
    BY <2>2, <2>3
<1>5. CASE \E v \in Verifies : VerifyStep(v)
  BY <1>5 DEF VerifyStep, CheckVerify, AuditVerify, Record
<1>6. CASE \E a \in Admins : ReceiveOther(a, AdminInputs) \/ AdminStep(a)
  BY <1>6 DEF ReceiveOther, Receive, AdminStep, FindRevokee, Revoke,
              RevokeAgent, SwitchKill, AuditAdmin, Record
<1>7. CASE \E s \in Requests : Abort(s)
  BY <1>7 DEF Abort
<1>8. CASE Restart
  BY <1>8 DEF Restart
<1>9. CASE Tick
  BY <1>9 DEF Tick
<1>10. CASE UNCHANGED vars
  BY <1>10 DEF vars
<1> QED
  BY <1>1, <1>2, <1>3, <1>4, <1>5, <1>6, <1>7, <1>8, <1>9, <1>10 DEF Next

(* What was noted on arrival stays true.                                    *)
LEMMA DatedKept ==
  ASSUME IInv, [Next]_vars, NEW r \in Asking, Dated(r)
  PROVE  Dated(r)'
<1>1. /\ Arriving(r) \/ Continuing(r)
      /\ now' \in Nat /\ now <= now'
  BY StepOf
<1>2. now \in Nat
  BY DEF IInv, TypeOK
<1>3. \A id \in Stored : id \in Stored' /\ (receipts[id].revoked => receipts'[id].revoked)
  BY RowsEvolve DEF RowEvolves, Stored
<1>4. CASE Arriving(r)
  <2>1. arrival'[r] = [at |-> now, key |-> SigningKey,
                       revoked |-> {id \in Stored : receipts[id].revoked}]
    BY <1>4 DEF Arriving, IInv, TypeOK, Asking
  <2>2. UNCHANGED <<receipts, now, SigningKey, Stored>>
    BY <1>4 DEF Arriving, SigningKey, Stored
  <2> QED
    BY <1>2, <2>1, <2>2 DEF Dated
<1>5. CASE Continuing(r)
  <2>1. InFlight(r)' => InFlight(r) /\ SigningKey' = SigningKey
    BY <1>5 DEF Continuing, SigningKey
  <2>2. arrival'[r] = arrival[r] /\ (pc'[r] # "idle" => pc[r] # "idle")
    BY <1>5 DEF Continuing
  <2>3. pc'[r] # "idle" => arrival'[r].at \in Nat /\ arrival'[r].at <= now'
    BY <1>1, <1>2, <2>2 DEF Dated
  <2>4. pc'[r] # "idle" =>
          \A id \in arrival'[r].revoked : id \in Stored' /\ receipts'[id].revoked
    BY <1>3, <2>2 DEF Dated
  <2> QED
    BY <2>1, <2>2, <2>3, <2>4 DEF Dated
<1> QED
  BY <1>1, <1>4, <1>5

(* An execute request is admitted with a live receipt only, and keeps it.   *)
LEMMA BackedKept ==
  ASSUME IInv, [Next]_vars, NEW b \in Execs, Dated(b), Backed(b)
  PROVE  Backed(b)'
<1>1. Arriving(b) \/ Continuing(b)
  BY StepOf DEF Asking
<1>2. held'[b] = held[b] \/ Admits(b)
  <2>1. CASE \E c \in Execs : Admits(c)
    BY <2>1 DEF Admits, IInv, TypeOK
  <2> QED
    BY <2>1, StepKinds DEF Saves, Claims, Sends, Arrives, Revokes
<1>3. CASE held'[b] = held[b] /\ held[b] # None
  <2>1. pc[b] # "idle"
    BY <1>3 DEF IInv, Carried
  <2> QED
    BY <1>1, <1>3, <2>1 DEF Arriving, Continuing, Backed
<1>4. CASE held'[b] = held[b] /\ held[b] = None
  BY <1>4 DEF Backed
<1>5. CASE Admits(b)
  <2> DEFINE id == input[b].receipt_id
  <2>1. /\ id \in Stored /\ ~receipts[id].revoked /\ pc[b] # "idle"
        /\ held'[b] = receipts[id].data
        /\ now <= receipts[id].data.expires_at
    BY <1>5 DEF Admits, Valid, IsExpired, IInv, TypeOK, StoreTypeOK, Stored, Row, Receipt
  <2>2. receipts[id].data.receipt_id = id /\ receipts[id].data.expires_at \in Nat
    BY <2>1 DEF IInv, TypeOK, StoreTypeOK, ClaimsLinked, Stored, Row, Receipt
  <2>3. arrival'[b] = arrival[b]
    BY <1>1, <2>1 DEF Arriving, Continuing
  <2>4. id \notin arrival[b].revoked /\ arrival[b].at \in Nat /\ arrival[b].at <= now
    BY <2>1 DEF Dated
  <2>5. now \in Nat
    BY DEF IInv, TypeOK
  <2> QED
    BY <2>1, <2>2, <2>3, <2>4, <2>5 DEF Backed
<1> QED
  BY <1>2, <1>3, <1>4, <1>5

(* A verify request starts its last step only after its checks, and only    *)
(* that step puts it on record.                                             *)
LEMMA VerifyMoves ==
  ASSUME IInv, [Next]_vars, NEW v \in Verifies
  PROVE  \/ CheckVerify(v)
         \/ /\ pc'[v] = "auditing" => pc[v] = "auditing"
            /\ audit'[v] = audit[v] \/ pc[v] = "auditing"
<1> USE RequestsAssumption
    DEF InFlight, Finished, Goto, history, procVars, storeVars, IInv, TypeOK, Requests
<1>1. CASE \E e \in Evals : ReceiveOther(e, EvalInputs) \/ EvaluateStep(e)
  BY <1>1 DEF ReceiveOther, Receive, EvaluateStep, Evaluate, Issue, Save,
              AuditEvaluate, Record
<1>2. CASE \E b \in Execs : ReceiveDated(b, ExecInputs)
  BY <1>2 DEF ReceiveDated, Receive
<1>3. CASE \E b \in Execs : ExecuteStep(b) \/ Deliver(b) \/ Lose(b) \/ Trickle(b)
  BY <1>3 DEF ExecuteStep, Admit, CheckReceipt, Claim, Post, Answer,
              AuditExecute, Record, Deliver, Lose, Trickle
<1>4. CASE \E w \in Verifies : ReceiveDated(w, VerifyInputs)
  BY <1>4 DEF ReceiveDated, Receive
<1>5. CASE \E w \in Verifies : VerifyStep(w)
  BY <1>5 DEF VerifyStep, CheckVerify, AuditVerify, Record
<1>6. CASE \E a \in Admins : ReceiveOther(a, AdminInputs) \/ AdminStep(a)
  BY <1>6 DEF ReceiveOther, Receive, AdminStep, FindRevokee, Revoke,
              RevokeAgent, SwitchKill, AuditAdmin, Record
<1>7. CASE \E s \in Requests : Abort(s)
  BY <1>7 DEF Abort
<1>8. CASE Restart
  BY <1>8 DEF Restart
<1>9. CASE Tick
  BY <1>9 DEF Tick
<1>10. CASE UNCHANGED vars
  BY <1>10 DEF vars
<1> QED
  BY <1>1, <1>2, <1>3, <1>4, <1>5, <1>6, <1>7, <1>8, <1>9, <1>10 DEF Next

(* A receipt found valid, or reported so, was live on arrival.              *)
LEMMA VouchedKept ==
  ASSUME IInv, [Next]_vars, NEW v \in Verifies, Dated(v), Vouched(v)
  PROVE  Vouched(v)'
<1> DEFINE id == input[v].receipt_id
<1> SUFFICES ASSUME (pc[v] = "auditing" \/ audit[v] = "receipt_verified")'
             PROVE  /\ pc'[v] # "idle"
                    /\ id' \in Stored' \ arrival'[v].revoked
                    /\ arrival'[v].at <= receipts'[id'].data.expires_at
                    /\ receipts'[id'].data.key = arrival'[v].key
  BY DEF Vouched
<1>1. Arriving(v) \/ Continuing(v)
  BY StepOf DEF Asking
<1>2. \A x \in Stored : x \in Stored' /\ receipts'[x].data = receipts[x].data
  BY RowsEvolve DEF RowEvolves, Stored
<1>3. CASE CheckVerify(v)
  <2>1. /\ pc[v] = "received" /\ pc'[v] # "idle"
        /\ UNCHANGED <<receipts, input, arrival, Stored>>
    BY <1>3 DEF CheckVerify, IInv, TypeOK, Requests, history, storeVars, Stored
  <2>2. CASE id \in Stored /\ Valid(receipts[id])
    <3>1. /\ ~receipts[id].revoked /\ receipts[id].data.key = SigningKey
          /\ receipts[id].data.expires_at \in Nat
          /\ now <= receipts[id].data.expires_at
      BY <2>2 DEF Valid, VerifySignature, IsExpired, IInv, TypeOK, StoreTypeOK,
                  Stored, Row, Receipt
    <3>2. /\ id \notin arrival[v].revoked
          /\ arrival[v].at \in Nat /\ arrival[v].at <= now
          /\ arrival[v].key = SigningKey
      BY <2>1, <3>1 DEF Dated, InFlight, Finished
    <3>3. now \in Nat
      BY DEF IInv, TypeOK
    <3> QED
      BY <2>1, <2>2, <3>1, <3>2, <3>3
  <2>3. CASE ~(id \in Stored /\ Valid(receipts[id]))
    <3>1. pc'[v] = "done" /\ audit'[v] = audit[v]
      BY <1>3, <2>3 DEF CheckVerify, IInv, TypeOK, Requests
    <3>2. audit[v] = "receipt_verified"
      BY <3>1
    <3> QED
      BY <2>1, <3>2 DEF Vouched
  <2> QED
    BY <2>2, <2>3
<1>4. CASE pc[v] = "auditing" \/ audit[v] = "receipt_verified"
  <2>1. pc[v] # "idle" /\ id \in Stored
    BY <1>4 DEF Vouched
  <2>2. pc'[v] # "idle" /\ arrival'[v] = arrival[v] /\ id' = id
    BY <1>1, <2>1 DEF Arriving, Continuing
  <2> QED
    BY <1>2, <1>4, <2>1, <2>2 DEF Vouched
<1> QED
  BY <1>3, <1>4, VerifyMoves

LEMMA AuthorityInit == Init => AuthorityInv
<1> SUFFICES ASSUME Init PROVE AuthorityInv
  OBVIOUS
<1>1. \A r \in Requests : pc[r] = "idle" /\ audit[r] = None
  BY DEF Init
<1>2. \A b \in Execs : held[b] = None
  BY DEF Init
<1>3. Asking \subseteq Requests /\ Verifies \subseteq Requests
  BY DEF Asking, Requests
<1>4. \A v \in Verifies : audit[v] # "receipt_verified"
  BY <1>1, <1>3, EventsAssumption DEF Events
<1> QED
  BY <1>1, <1>2, <1>3, <1>4 DEF AuthorityInv, Dated, Backed, Vouched

LEMMA AuthorityNext == IInv /\ AuthorityInv /\ [Next]_vars => AuthorityInv'
<1> SUFFICES ASSUME IInv, AuthorityInv, [Next]_vars PROVE AuthorityInv'
  OBVIOUS
<1>1. \A r \in Asking : Dated(r)'
  BY DatedKept DEF AuthorityInv
<1>2. \A b \in Execs : Backed(b)'
  BY BackedKept DEF AuthorityInv, Asking
<1>3. \A v \in Verifies : Vouched(v)'
  BY VouchedKept DEF AuthorityInv, Asking
<1> QED
  BY <1>1, <1>2, <1>3 DEF AuthorityInv

THEOREM Authority == Spec => []AuthorityInv
<1> QED
  BY AuthorityInit, AuthorityNext, Invariance, PTL DEF Spec

(* A receipt revoked, or past its expiry, before an execute request arrives *)
(* never lets its call out.                                                 *)
THEOREM StaleRefused == Spec => []StaleAuthorityRefused
<1>1. IInv /\ AuthorityInv => StaleAuthorityRefused
  BY DEF IInv, ClaimsLinked, AuthorityInv, Backed, StaleAuthorityRefused,
         Posted, Claimed, Out
<1> QED
  BY <1>1, Authority, Invariance, PTL

(* A receipt reported valid was live when the sink asked.                   *)
THEOREM VerifiedLive == Spec => []VerifiedWasLive
<1>1. AuthorityInv => VerifiedWasLive
  BY DEF AuthorityInv, Vouched, VerifiedWasLive
<1> QED
  BY <1>1, Authority, PTL

-----------------------------------------------------------------------------
(* The kill switch.                                                         *)

(* A request that has seen nothing but an active kill switch is turned away *)
(* at its handler's first step, if it gets that far.                        *)
TurnedAway == {"received", "blocked", "done", "aborted"}

ShutInv ==
  /\ shut # {} => kill_switch
  /\ \A r \in shut \cap (Evals \cup Execs) : pc[r] \in TurnedAway
  /\ \A e \in shut \cap Evals : e \notin Stored
  /\ \A b \in shut \cap Execs : call[b] = "none"

(* A step joins no request to shut but the one that arrives under an active *)
(* kill switch, and switching it off empties shut.                          *)
LEMMA ShutMoves ==
  ASSUME IInv, [Next]_vars
  PROVE  \/ shut' = {}
         \/ UNCHANGED <<shut, kill_switch>>
         \/ shut' = shut /\ kill_switch'
         \/ \E r \in Requests :
              /\ pc[r] = "idle" /\ pc' = [pc EXCEPT ![r] = "received"]
              /\ kill_switch /\ shut' = shut \cup {r}
              /\ UNCHANGED <<kill_switch, receipts, call>>
<1> USE DEF history, storeVars, procVars, Requests
<1>1. CASE \E e \in Evals : ReceiveOther(e, EvalInputs)
  BY <1>1 DEF ReceiveOther, Receive, Goto
<1>2. CASE \E b \in Execs : ReceiveDated(b, ExecInputs)
  BY <1>2 DEF ReceiveDated, Receive, Goto
<1>3. CASE \E v \in Verifies : ReceiveDated(v, VerifyInputs)
  BY <1>3 DEF ReceiveDated, Receive, Goto
<1>4. CASE \E a \in Admins : ReceiveOther(a, AdminInputs)
  BY <1>4 DEF ReceiveOther, Receive, Goto
<1>5. CASE \E e \in Evals : EvaluateStep(e)
  BY <1>5 DEF EvaluateStep, Evaluate, Issue, Save, SaveReceipt, AuditEvaluate
<1>6. CASE \E b \in Execs : ExecuteStep(b) \/ Deliver(b) \/ Lose(b) \/ Trickle(b)
  BY <1>6 DEF ExecuteStep, Admit, CheckReceipt, Claim, MarkReceiptConsumed, Post,
              Answer, AuditExecute, Deliver, Lose, Trickle
<1>7. CASE \E v \in Verifies : VerifyStep(v)
  BY <1>7 DEF VerifyStep, CheckVerify, AuditVerify
<1>8. CASE \E a \in Admins : SwitchKill(a)
  BY <1>8 DEF SwitchKill, SetKillSwitch
<1>9. CASE \E a \in Admins : FindRevokee(a) \/ Revoke(a) \/ RevokeAgent(a)
                             \/ AuditAdmin(a)
  BY <1>9 DEF FindRevokee, Revoke, RevokeReceipt, RevokeAgent, RevokeByAgent,
              AuditAdmin
<1>10. CASE (\E s \in Requests : Abort(s)) \/ Restart \/ Tick
  BY <1>10 DEF Abort, Restart, Tick
<1>11. CASE UNCHANGED vars
  BY <1>11 DEF vars
<1> QED
  BY <1>1, <1>2, <1>3, <1>4, <1>5, <1>6, <1>7, <1>8, <1>9, <1>10, <1>11
  DEF Next, AdminStep

(* Under an active kill switch a request that has not got past the switch   *)
(* does not get past it.                                                    *)
LEMMA StaysTurnedAway ==
  ASSUME IInv, [Next]_vars, kill_switch,
         NEW r \in Evals \cup Execs, pc[r] \in TurnedAway
  PROVE  pc'[r] \in TurnedAway
<1> USE RequestsAssumption
    DEF TurnedAway, Goto, IInv, TypeOK, procVars, Requests, InFlight, Finished
<1>1. CASE \E e \in Evals : ReceiveOther(e, EvalInputs) \/ EvaluateStep(e)
  BY <1>1 DEF ReceiveOther, Receive, EvaluateStep, Evaluate, Issue, Save,
              AuditEvaluate
<1>2. CASE \E b \in Execs : ReceiveDated(b, ExecInputs)
  BY <1>2 DEF ReceiveDated, Receive
<1>3. CASE \E b \in Execs : ExecuteStep(b) \/ Deliver(b) \/ Lose(b) \/ Trickle(b)
  BY <1>3 DEF ExecuteStep, Admit, CheckReceipt, Claim, Post, Answer,
              AuditExecute, Deliver, Lose, Trickle
<1>4. CASE \E v \in Verifies : ReceiveDated(v, VerifyInputs) \/ VerifyStep(v)
  BY <1>4 DEF ReceiveDated, Receive, VerifyStep, CheckVerify, AuditVerify
<1>5. CASE \E a \in Admins : ReceiveOther(a, AdminInputs) \/ AdminStep(a)
  BY <1>5 DEF ReceiveOther, Receive, AdminStep, FindRevokee, Revoke,
              RevokeAgent, SwitchKill, AuditAdmin
<1>6. CASE (\E s \in Requests : Abort(s)) \/ Restart \/ Tick
  BY <1>6 DEF Abort, Restart, Tick
<1>7. CASE UNCHANGED vars
  BY <1>7 DEF vars
<1> QED
  BY <1>1, <1>2, <1>3, <1>4, <1>5, <1>6, <1>7 DEF Next

(* Nor does it store a receipt or claim one.                                *)
LEMMA TurnedAwayIdle ==
  ASSUME IInv, [Next]_vars
  PROVE  /\ \A e \in Evals : pc[e] \in TurnedAway /\ e \notin Stored => e \notin Stored'
         /\ \A b \in Execs : pc[b] \in TurnedAway /\ call[b] = "none" =>
                             call'[b] = "none"
<1> USE DEF TurnedAway
<1>1. CASE \E e \in Evals : Saves(e)
  <2> PICK e \in Evals : Saves(e)
    BY <1>1
  <2>1. Stored' = Stored \cup {e} /\ pc[e] = "saving" /\ UNCHANGED call
    BY SavesNew DEF Saves
  <2> QED
    BY <2>1
<1>2. CASE \E b \in Execs : Claims(b)
  <2> PICK b \in Execs : Claims(b)
    BY <1>2
  <2>1. /\ Stored' = Stored /\ pc[b] = "checked"
        /\ call' = [call EXCEPT ![b] = "claimed"]
    BY ClaimsOne DEF Claims
  <2> QED
    BY <2>1 DEF IInv, TypeOK
<1>3. CASE \E b \in Execs : Admits(b)
  BY <1>3 DEF Admits, Stored
<1>4. CASE \E b \in Execs : Sends(b)
  BY <1>4 DEF Sends, Stored, IInv, TypeOK
<1>5. CASE \E b \in Execs : Arrives(b)
  BY <1>5 DEF Arrives, Stored, IInv, TypeOK
<1>6. CASE \E a \in Admins : Revokes(a)
  BY <1>6, RevokesOnly DEF Revokes
<1>7. CASE UNCHANGED <<receipts, held, call>>
  BY <1>7 DEF Stored
<1> QED
  BY <1>1, <1>2, <1>3, <1>4, <1>5, <1>6, <1>7, StepKinds

LEMMA ShutNext == IInv /\ ShutInv /\ [Next]_vars => ShutInv'
<1> SUFFICES ASSUME IInv, ShutInv, [Next]_vars PROVE ShutInv'
  OBVIOUS
<1>1. CASE shut' = {}
  BY <1>1 DEF ShutInv
<1>2. CASE shut' = shut /\ shut # {} /\ kill_switch'
  <2>1. kill_switch
    BY <1>2 DEF ShutInv
  <2>2. \A r \in shut \cap (Evals \cup Execs) : pc'[r] \in TurnedAway
    BY <2>1, StaysTurnedAway DEF ShutInv
  <2> QED
    BY <1>2, <2>2, TurnedAwayIdle DEF ShutInv
<1>3. CASE shut' = shut /\ shut # {} /\ kill_switch' = kill_switch
  BY <1>2, <1>3 DEF ShutInv
<1>4. ASSUME NEW r \in Requests,
             pc[r] = "idle", pc' = [pc EXCEPT ![r] = "received"],
             kill_switch, shut' = shut \cup {r},
             UNCHANGED <<kill_switch, receipts, call>>
      PROVE  ShutInv'
  <2>1. r \in Execs => call[r] = "none"
    BY <1>4 DEF IInv, Carried
  <2>2. r \notin Stored
    BY <1>4 DEF IInv, ClaimsLinked
  <2> QED
    BY <1>4, <2>1, <2>2 DEF ShutInv, TurnedAway, IInv, TypeOK, Stored, Requests
<1> QED
  BY <1>1, <1>2, <1>3, <1>4, ShutMoves

(* A request that has seen nothing but an active kill switch neither stores *)
(* a receipt nor spends one.                                                *)
THEOREM KillSwitch == Spec => []KillSwitchStops
<1>1. Init => ShutInv
  BY DEF Init, ShutInv
<1>2. IInv /\ ShutInv => KillSwitchStops
  BY DEF ShutInv, KillSwitchStops, Stored, Claimed
<1> QED
  BY <1>1, <1>2, ShutNext, Invariance, PTL DEF Spec

-----------------------------------------------------------------------------
(* What goes out is what was allowed.                                       *)

(* The receipt r grants what evaluate request e was decided on.             *)
GrantOf(r, e) ==
  LET req == input[e]
  IN  /\ r.agent_id = req.agent_id
      /\ r.authorization_type = req.mode
      /\ r.evidence_assurance = req.facts
      /\ r.action_hash = ActionHash(req.mode, req, r.action_id)
      /\ req.mode = "runtime" => /\ req.action_id \in {None, r.action_id}
                                 /\ req.action \in RuntimeAllows
      /\ req.mode = "policy" /\ r.decision = "allow" =>
           PolicyDecision[req.action] = "allow"

(* A receipt on its way, or stored, is a grant of what was decided.         *)
Granted(e) ==
  /\ pc[e] = "linking" /\ input[e].mode = "runtime" => input[e].action \in RuntimeAllows
  /\ pc[e] = "saving" => GrantOf(draft[e], e)
  /\ e \in Stored => GrantOf(receipts[e].data, e)

(* The receipt an execute request was admitted with is for what it asks.    *)
Matched(b) ==
  held[b] # None => /\ pc[b] # "idle"
                    /\ EvidenceVerified(b, held[b])
                    /\ Authorized(b, held[b])
                    /\ held[b].key = arrival[b].key

GrantInv ==
  /\ \A e \in Evals : Granted(e)
  /\ \A b \in Execs : Matched(b)

(* How an evaluate request gets to each of its places with its receipt.     *)
LEMMA EvaluateMoves ==
  ASSUME IInv, [Next]_vars, NEW e \in Evals
  PROVE  /\ pc[e] # "idle" => pc'[e] # "idle" /\ input'[e] = input[e]
         /\ pc'[e] = "linking" => pc[e] = "linking" \/ Evaluate(e)
         /\ pc'[e] = "saving" =>
              (pc[e] = "saving" /\ draft'[e] = draft[e]) \/ Issue(e)
<1> USE RequestsAssumption
    DEF InFlight, Finished, Goto, history, procVars, storeVars, IInv, TypeOK, Requests
<1>1. CASE \E f \in Evals : ReceiveOther(f, EvalInputs)
  BY <1>1 DEF ReceiveOther, Receive
<1>2. CASE \E f \in Evals : EvaluateStep(f)
  <2> PICK f \in Evals : EvaluateStep(f)
    BY <1>2
  <2>1. CASE f = e
    BY <2>1 DEF EvaluateStep, Evaluate, Issue, Save, AuditEvaluate
  <2>2. CASE f # e
    BY <2>2 DEF EvaluateStep, Evaluate, Issue, Save, AuditEvaluate
  <2> QED
    BY <2>1, <2>2
<1>3. CASE \E c \in Execs : ReceiveDated(c, ExecInputs)
  BY <1>3 DEF ReceiveDated, Receive
<1>4. CASE \E c \in Execs : ExecuteStep(c) \/ Deliver(c) \/ Lose(c) \/ Trickle(c)
  BY <1>4 DEF ExecuteStep, Admit, CheckReceipt, Claim, Post, Answer,
              AuditExecute, Deliver, Lose, Trickle
<1>5. CASE \E w \in Verifies : ReceiveDated(w, VerifyInputs) \/ VerifyStep(w)
  BY <1>5 DEF ReceiveDated, Receive, VerifyStep, CheckVerify, AuditVerify
<1>6. CASE \E a \in Admins : ReceiveOther(a, AdminInputs) \/ AdminStep(a)
  BY <1>6 DEF ReceiveOther, Receive, AdminStep, FindRevokee, Revoke,
              RevokeAgent, SwitchKill, AuditAdmin
<1>7. CASE (\E s \in Requests : Abort(s)) \/ Restart \/ Tick
  BY <1>7 DEF Abort, Restart, Tick
<1>8. CASE UNCHANGED vars
  BY <1>8 DEF vars
<1> QED
  BY <1>1, <1>2, <1>3, <1>4, <1>5, <1>6, <1>7, <1>8 DEF Next

(* What enters the store is the draft of the handler that saves it.         *)
LEMMA StoredDraft ==
  ASSUME IInv, [Next]_vars, NEW e \in Stored'
  PROVE  \/ e \in Stored /\ receipts'[e].data = receipts[e].data
         \/ pc[e] = "saving" /\ receipts'[e].data = draft[e]
<1>1. CASE e \in Stored
  BY <1>1, RowsEvolve DEF RowEvolves
<1>2. CASE e \notin Stored /\ \E f \in Evals : Saves(f)
  <2> PICK f \in Evals : Saves(f)
    BY <1>2
  <2>1. f = e /\ pc[e] = "saving"
    BY <1>2, SavesNew DEF Saves
  <2>2. draft[e].receipt_id = e
    BY <2>1 DEF IInv, Carried
  <2>3. receipts' = [receipts EXCEPT ![e] =
          [data |-> draft[e], revoked |-> FALSE, consumed_at |-> None]]
    BY <2>1, <2>2 DEF Saves, SaveReceipt
  <2>4. receipts'[e].data = draft[e]
    BY <2>1, <2>3 DEF IInv, TypeOK, StoreTypeOK
  <2> QED
    BY <2>1, <2>4
<1>3. CASE e \notin Stored /\ \E b \in Execs : Claims(b)
  BY <1>3, ClaimsOne
<1>4. CASE e \notin Stored /\ \E b \in Execs : Admits(b) \/ Sends(b) \/ Arrives(b)
  BY <1>4 DEF Admits, Sends, Arrives, Stored
<1>5. CASE e \notin Stored /\ \E a \in Admins : Revokes(a)
  BY <1>5, RevokesOnly
<1>6. CASE e \notin Stored /\ UNCHANGED <<receipts, held, call>>
  BY <1>6 DEF Stored
<1> QED
  BY <1>1, <1>2, <1>3, <1>4, <1>5, <1>6, StepKinds

LEMMA GrantedKept ==
  ASSUME IInv, [Next]_vars, NEW e \in Evals, Granted(e)
  PROVE  Granted(e)'
<1>1. ASSUME pc'[e] = "linking", input'[e].mode = "runtime"
      PROVE  input'[e].action \in RuntimeAllows
  <2>1. CASE pc[e] = "linking"
    BY <1>1, <2>1, EvaluateMoves DEF Granted
  <2>2. CASE Evaluate(e)
    <3>1. input' = input /\ Decision(input[e]) # "deny"
      BY <1>1, <2>2 DEF Evaluate, IInv, TypeOK, Requests
    <3> QED
      BY <1>1, <3>1 DEF Decision, RuntimeEvaluate
  <2> QED
    BY <1>1, <2>1, <2>2, EvaluateMoves
<1>2. ASSUME pc'[e] = "saving"
      PROVE  GrantOf(draft[e], e)'
  <2>1. CASE pc[e] = "saving" /\ draft'[e] = draft[e]
    BY <2>1, EvaluateMoves DEF Granted, GrantOf
  <2>2. CASE Issue(e)
    <3> DEFINE req == input[e]
               decision == IF req.mode = "policy" THEN PolicyDecision[req.action]
                                                  ELSE "allow"
               new == IssueReceipt(e, req, decision, agent_chain[req.agent_id],
                                   now, SigningKey)
    <3>1. input' = input /\ draft'[e] = new /\ pc[e] = "linking"
      BY <2>2 DEF Issue, Goto, IInv, TypeOK
    <3>2. req \in EvalInput
      BY <3>1 DEF IInv, Carried
    <3>3. req.mode = "runtime" => req.action \in RuntimeAllows
      BY <3>1 DEF Granted
    <3>4. GrantOf(new, e)
      BY <3>2, <3>3 DEF GrantOf, IssueReceipt, ActionHash
    <3> QED
      BY <3>1, <3>4 DEF GrantOf
  <2> QED
    BY <1>2, <2>1, <2>2, EvaluateMoves
<1>3. ASSUME e \in Stored'
      PROVE  GrantOf(receipts[e].data, e)'
  <2>1. CASE e \in Stored /\ receipts'[e].data = receipts[e].data
    <3>1. pc[e] # "idle"
      BY <2>1 DEF IInv, ClaimsLinked
    <3> QED
      BY <2>1, <3>1, EvaluateMoves DEF Granted, GrantOf
  <2>2. CASE pc[e] = "saving" /\ receipts'[e].data = draft[e]
    BY <2>2, EvaluateMoves DEF Granted, GrantOf
  <2> QED
    BY <1>3, <2>1, <2>2, StoredDraft
<1> QED
  BY <1>1, <1>2, <1>3 DEF Granted

(* Only CheckReceipt gives an execute request a receipt.                    *)
LEMMA HeldBy ==
  ASSUME IInv, [Next]_vars, NEW b \in Execs
  PROVE  held'[b] = held[b] \/ CheckReceipt(b)
<1> USE DEF procVars, IInv, TypeOK
<1>1. CASE \E e \in Evals : ReceiveOther(e, EvalInputs) \/ EvaluateStep(e)
  BY <1>1 DEF ReceiveOther, Receive, EvaluateStep, Evaluate, Issue, Save,
              AuditEvaluate
<1>2. CASE \E c \in Execs : ReceiveDated(c, ExecInputs) \/ Deliver(c) \/ Lose(c) \/ Trickle(c)
  BY <1>2 DEF ReceiveDated, Receive, Deliver, Lose, Trickle
<1>3. CASE \E c \in Execs : ExecuteStep(c)
  BY <1>3 DEF ExecuteStep, Admit, CheckReceipt, Claim, Post, Answer, AuditExecute
<1>4. CASE \E v \in Verifies : ReceiveDated(v, VerifyInputs) \/ VerifyStep(v)
  BY <1>4 DEF ReceiveDated, Receive, VerifyStep, CheckVerify, AuditVerify
<1>5. CASE \E a \in Admins : ReceiveOther(a, AdminInputs) \/ AdminStep(a)
  BY <1>5 DEF ReceiveOther, Receive, AdminStep, FindRevokee, Revoke,
              RevokeAgent, SwitchKill, AuditAdmin
<1>6. CASE (\E s \in Requests : Abort(s)) \/ Restart \/ Tick
  BY <1>6 DEF Abort, Restart, Tick
<1>7. CASE UNCHANGED vars
  BY <1>7 DEF vars
<1> QED
  BY <1>1, <1>2, <1>3, <1>4, <1>5, <1>6, <1>7 DEF Next

LEMMA MatchedKept ==
  ASSUME IInv, [Next]_vars, NEW b \in Execs, Dated(b), Matched(b)
  PROVE  Matched(b)'
<1>1. Arriving(b) \/ Continuing(b)
  BY StepOf DEF Asking
<1>2. CASE held'[b] = held[b] /\ held[b] # None
  BY <1>1, <1>2 DEF Matched, Arriving, Continuing, EvidenceVerified, Authorized,
                    Presented
<1>3. CASE held'[b] = held[b] /\ held[b] = None
  BY <1>3 DEF Matched
<1>4. CASE CheckReceipt(b) /\ held'[b] # held[b]
  <2> DEFINE row == receipts[input[b].receipt_id]
  <2>1. /\ Valid(row) /\ EvidenceVerified(b, row.data) /\ Authorized(b, row.data)
        /\ held'[b] = row.data /\ pc[b] = "looking" /\ pc'[b] = "checked"
        /\ UNCHANGED <<input, arrival>>
    BY <1>4 DEF CheckReceipt, history, IInv, TypeOK, Requests
  <2>2. row.data.key = arrival[b].key
    BY <2>1 DEF Valid, VerifySignature, Dated, InFlight, Finished
  <2> HIDE DEF row
  <2> QED
    BY <2>1, <2>2 DEF Matched, EvidenceVerified, Authorized, Presented
<1> QED
  BY <1>2, <1>3, <1>4, HeldBy

(* Every POST asks for what an evaluation allowed, under a stored receipt   *)
(* signed with the key in use.                                              *)
THEOREM PostedAllowed == Spec => []PostedAsAuthorized
<1>1. Init => GrantInv
  BY DEF Init, StoreInit, GrantInv, Granted, Matched, Stored, Requests
<1>2. IInv /\ AuthorityInv /\ GrantInv /\ [Next]_vars => GrantInv'
  BY GrantedKept, MatchedKept DEF GrantInv, AuthorityInv, Asking
<1>3. IInv /\ GrantInv => PostedAsAuthorized
  <2> SUFFICES ASSUME IInv, GrantInv, NEW b \in Posted
               PROVE  LET e == held[b].receipt_id
                      IN  /\ e \in Stored
                          /\ receipts[e].data = held[b]
                          /\ held[b].key = arrival[b].key
                          /\ AllowedBy(e, b)
    BY DEF PostedAsAuthorized
  <2> DEFINE e == held[b].receipt_id
  <2>1. b \in Execs /\ held[b] # None
    BY DEF Posted, Claimed, Out, IInv, ClaimsLinked
  <2>2. e \in Stored /\ receipts[e].data = held[b]
    BY <2>1 DEF IInv, ClaimsLinked
  <2>3. GrantOf(held[b], e)
    BY <2>2 DEF GrantInv, Granted, Stored
  <2>4. /\ EvidenceVerified(b, held[b]) /\ Authorized(b, held[b])
        /\ held[b].key = arrival[b].key /\ input[b] \in ExecInput
    BY <2>1 DEF GrantInv, Matched, IInv, Carried
  <2> HIDE DEF e
  <2>5. /\ Presented(b, held[b]).agent_id = input[b].agent_id
        /\ Presented(b, held[b]).action = input[b].action
        /\ Presented(b, held[b]).action_id = input[b].action_id
        /\ held[b].evidence_assurance # "none" => Presented(b, held[b]).facts = "genuine"
    BY <2>4 DEF Presented, ExecInput
  <2>6. AllowedBy(e, b)
    BY <2>3, <2>4, <2>5
    DEF AllowedBy, GrantOf, EvidenceVerified, Authorized, VerifyBinding, ActionHash
  <2> QED
    BY <2>2, <2>4, <2>6 DEF e
<1> QED
  BY <1>1, <1>2, <1>3, Authority, Invariance, PTL DEF Spec

-----------------------------------------------------------------------------
(* The per-agent chain.                                                     *)

(* A link of the agent that a receipt issued at the instant at may carry.   *)
Grounded(prev, agent, at) ==
  prev # None => \E p \in Stored : /\ receipts[p].data.agent_id = agent
                                   /\ receipts[p].data.action_hash = prev
                                   /\ receipts[p].data.issued_at <= at

(* The agent's head is a stored receipt of its own once it has one.         *)
Headed(a) ==
  IF \E id \in Stored : receipts[id].data.agent_id = a
  THEN \E id \in Stored : /\ receipts[id].data.agent_id = a
                          /\ receipts[id].data.action_hash = agent_chain[a]
  ELSE agent_chain[a] = None

ChainInv ==
  /\ \A id \in Stored :
       /\ receipts[id].data.issued_at <= now
       /\ Grounded(receipts[id].data.prev_receipt_hash,
                   receipts[id].data.agent_id, receipts[id].data.issued_at)
  /\ \A e \in Evals : pc[e] = "saving" =>
       /\ draft[e].issued_at <= now
       /\ Grounded(draft[e].prev_receipt_hash, draft[e].agent_id, draft[e].issued_at)
  /\ \A a \in Agents : Headed(a)

(* Time passes by Tick only, and the chain moves with the receipt saved.    *)
LEMMA ClockMoves ==
  ASSUME IInv, [Next]_vars
  PROVE  now' \in Nat /\ now <= now'
<1>1. now' = now \/ Tick
  <2> USE DEF procVars, storeVars
  <2>1. CASE \E e \in Evals : ReceiveOther(e, EvalInputs) \/ EvaluateStep(e)
    BY <2>1 DEF ReceiveOther, Receive, EvaluateStep, Evaluate, Issue, Save,
                AuditEvaluate
  <2>2. CASE \E b \in Execs : \/ ReceiveDated(b, ExecInputs) \/ ExecuteStep(b)
                              \/ Deliver(b) \/ Lose(b) \/ Trickle(b)
    BY <2>2 DEF ReceiveDated, Receive, ExecuteStep, Admit, CheckReceipt, Claim,
                Post, Answer, AuditExecute, Deliver, Lose, Trickle
  <2>3. CASE \E v \in Verifies : ReceiveDated(v, VerifyInputs) \/ VerifyStep(v)
    BY <2>3 DEF ReceiveDated, Receive, VerifyStep, CheckVerify, AuditVerify
  <2>4. CASE \E a \in Admins : ReceiveOther(a, AdminInputs) \/ AdminStep(a)
    BY <2>4 DEF ReceiveOther, Receive, AdminStep, FindRevokee, Revoke,
                RevokeAgent, SwitchKill, AuditAdmin
  <2>5. CASE (\E s \in Requests : Abort(s)) \/ Restart
    BY <2>5 DEF Abort, Restart
  <2>6. CASE UNCHANGED vars
    BY <2>6 DEF vars
  <2> QED
    BY <2>1, <2>2, <2>3, <2>4, <2>5, <2>6 DEF Next
<1>2. now \in Nat
  BY DEF IInv, TypeOK
<1> QED
  BY <1>1, <1>2 DEF Tick

LEMMA ChainMoves ==
  ASSUME IInv, [Next]_vars
  PROVE  \/ \E e \in Evals : Saves(e)
         \/ UNCHANGED agent_chain /\ Stored' = Stored
<1>1. (\E e \in Evals : Saves(e)) \/ UNCHANGED agent_chain
  <2> USE DEF procVars, storeVars
  <2>1. CASE \E e \in Evals : ReceiveOther(e, EvalInputs) \/ EvaluateStep(e)
    BY <2>1 DEF ReceiveOther, Receive, EvaluateStep, Evaluate, Issue, Save,
                AuditEvaluate, Saves, Goto
  <2>2. CASE \E b \in Execs : \/ ReceiveDated(b, ExecInputs) \/ ExecuteStep(b)
                              \/ Deliver(b) \/ Lose(b) \/ Trickle(b)
    BY <2>2 DEF ReceiveDated, Receive, ExecuteStep, Admit, CheckReceipt, Claim,
                MarkReceiptConsumed, Post, Answer, AuditExecute, Deliver, Lose, Trickle
  <2>3. CASE \E v \in Verifies : ReceiveDated(v, VerifyInputs) \/ VerifyStep(v)
    BY <2>3 DEF ReceiveDated, Receive, VerifyStep, CheckVerify, AuditVerify
  <2>4. CASE \E a \in Admins : ReceiveOther(a, AdminInputs) \/ AdminStep(a)
    BY <2>4 DEF ReceiveOther, Receive, AdminStep, FindRevokee, Revoke, RevokeReceipt,
                RevokeAgent, RevokeByAgent, SwitchKill, SetKillSwitch, AuditAdmin
  <2>5. CASE (\E s \in Requests : Abort(s)) \/ Restart \/ Tick
    BY <2>5 DEF Abort, Restart, Tick
  <2>6. CASE UNCHANGED vars
    BY <2>6 DEF vars
  <2> QED
    BY <2>1, <2>2, <2>3, <2>4, <2>5, <2>6 DEF Next
<1>2. CASE \E b \in Execs : Claims(b)
  BY <1>1, <1>2, ClaimsOne
<1>3. CASE \E b \in Execs : Admits(b) \/ Sends(b) \/ Arrives(b)
  BY <1>1, <1>3 DEF Admits, Sends, Arrives, Stored
<1>4. CASE \E a \in Admins : Revokes(a)
  BY <1>1, <1>4, RevokesOnly
<1>5. CASE UNCHANGED <<receipts, held, call>>
  BY <1>1, <1>5 DEF Stored
<1> QED
  BY <1>2, <1>3, <1>4, <1>5, StepKinds

(* The head, read while a receipt is built, is a link it may carry.         *)
LEMMA HeadGrounded ==
  ASSUME IInv, ChainInv, NEW a \in Agents
  PROVE  Grounded(agent_chain[a], a, now)
  BY DEF ChainInv, Headed, Grounded

LEMMA ChainNext == IInv /\ ChainInv /\ [Next]_vars => ChainInv'
<1> SUFFICES ASSUME IInv, ChainInv, [Next]_vars PROVE ChainInv'
  OBVIOUS
<1>0. /\ now \in Nat /\ now' \in Nat /\ now <= now'
      /\ \A id \in Stored : receipts[id].data.issued_at \in Nat
      /\ \A e \in Evals : pc[e] = "saving" => draft[e].issued_at \in Nat
  <2>1. \A r \in Receipt : r.issued_at \in Nat
    BY DEF Receipt
  <2>2. \A id \in Stored : receipts[id].data \in Receipt
    BY DEF IInv, TypeOK, StoreTypeOK, Stored, Row
  <2> QED
    BY <2>1, <2>2, ClockMoves DEF IInv, TypeOK, Carried
<1>1. ASSUME NEW id \in Stored'
      PROVE  /\ receipts'[id].data.issued_at <= now'
             /\ Grounded(receipts[id].data.prev_receipt_hash,
                         receipts[id].data.agent_id, receipts[id].data.issued_at)'
  <2>1. CASE id \in Stored /\ receipts'[id].data = receipts[id].data
    <3> DEFINE r == receipts[id].data
    <3>1. r.issued_at <= now /\ Grounded(r.prev_receipt_hash, r.agent_id, r.issued_at)
      BY <2>1 DEF ChainInv
    <3> QED
      BY <1>0, <2>1, <3>1, RowsEvolve DEF Grounded, RowEvolves, Stored
  <2>2. CASE pc[id] = "saving" /\ receipts'[id].data = draft[id]
    <3> DEFINE r == draft[id]
    <3>1. r.issued_at <= now /\ Grounded(r.prev_receipt_hash, r.agent_id, r.issued_at)
      BY <2>2 DEF ChainInv, Stored
    <3> QED
      BY <1>0, <2>2, <3>1, RowsEvolve DEF Grounded, RowEvolves, Stored
  <2> QED
    BY <2>1, <2>2, StoredDraft
<1>2. ASSUME NEW e \in Evals, pc'[e] = "saving"
      PROVE  /\ draft'[e].issued_at <= now'
             /\ Grounded(draft[e].prev_receipt_hash, draft[e].agent_id, draft[e].issued_at)'
  <2>1. CASE pc[e] = "saving" /\ draft'[e] = draft[e]
    <3> DEFINE r == draft[e]
    <3>1. r.issued_at <= now /\ Grounded(r.prev_receipt_hash, r.agent_id, r.issued_at)
      BY <2>1 DEF ChainInv
    <3> QED
      BY <1>0, <2>1, <3>1, RowsEvolve DEF Grounded, RowEvolves, Stored
  <2>2. CASE Issue(e)
    <3>1. /\ input[e].agent_id \in Agents /\ UNCHANGED <<now, receipts>>
          /\ draft'[e].issued_at = now /\ draft'[e].agent_id = input[e].agent_id
          /\ draft'[e].prev_receipt_hash = agent_chain[input[e].agent_id]
      BY <2>2 DEF Issue, IssueReceipt, Goto, storeVars, IInv, TypeOK, Carried, EvalInput
    <3>2. Grounded(agent_chain[input[e].agent_id], input[e].agent_id, now)
      BY <3>1, HeadGrounded
    <3> QED
      BY <1>0, <3>1, <3>2 DEF Grounded, Stored
  <2> QED
    BY <1>2, <2>1, <2>2, EvaluateMoves
<1>3. ASSUME NEW a \in Agents
      PROVE  Headed(a)'
  <2>0. Headed(a)
    BY DEF ChainInv
  <2>1. \A p \in Stored : p \in Stored' /\ receipts'[p].data = receipts[p].data
    BY RowsEvolve DEF RowEvolves, Stored
  <2>2. CASE UNCHANGED agent_chain /\ Stored' = Stored
    BY <2>0, <2>1, <2>2 DEF Headed
  <2>3. CASE \E e \in Evals : Saves(e)
    <3> PICK e \in Evals : Saves(e)
      BY <2>3
    <3>1. e \notin Stored /\ Stored' = Stored \cup {e}
      BY SavesNew
    <3>2. receipts'[e].data = draft[e]
      BY <3>1, StoredDraft
    <3>3. /\ agent_chain' = [agent_chain EXCEPT ![draft[e].agent_id] = draft[e].action_hash]
          /\ draft[e].agent_id \in Agents
      BY DEF Saves, SaveReceipt, IInv, Carried, Receipt
    <3>4. CASE a = draft[e].agent_id
      <4>1. agent_chain'[a] = draft[e].action_hash
        BY <3>3, <3>4 DEF IInv, TypeOK, StoreTypeOK
      <4> QED
        BY <3>1, <3>2, <3>4, <4>1 DEF Headed
    <3>5. CASE a # draft[e].agent_id
      <4>1. agent_chain'[a] = agent_chain[a]
        BY <3>3, <3>5 DEF IInv, TypeOK, StoreTypeOK
      <4> QED
        BY <2>0, <2>1, <3>1, <3>2, <3>5, <4>1 DEF Headed
    <3> QED
      BY <3>4, <3>5
  <2> QED
    BY <2>2, <2>3, ChainMoves
<1> QED
  BY <1>1, <1>2, <1>3 DEF ChainInv

(* The link a receipt carries, and the head the next one would carry, are   *)
(* hashes of stored receipts of the same agent, issued no later.            *)
THEOREM LinksGrounded == Spec => []ChainGrounded
<1>1. Init => ChainInv
  <2> SUFFICES ASSUME Init PROVE ChainInv
    OBVIOUS
  <2>1. Stored = {} /\ \A a \in Agents : agent_chain[a] = None
    BY DEF Init, StoreInit, Stored
  <2>2. \A e \in Evals : pc[e] = "idle"
    BY DEF Init, Requests
  <2> QED
    BY <2>1, <2>2 DEF ChainInv, Headed
<1>2. ChainInv => ChainGrounded
  <2> SUFFICES ASSUME ChainInv PROVE ChainGrounded
    OBVIOUS
  <2>1. \A id \in Stored : receipts[id].data.prev_receipt_hash # None => Links(id) # {}
    BY DEF ChainInv, Grounded, Links
  <2>2. ASSUME NEW a \in Agents
        PROVE  LET hashes == {receipts[id].data.action_hash : id \in
                                {x \in Stored : receipts[x].data.agent_id = a}}
               IN  IF hashes = {} THEN agent_chain[a] = None
                                  ELSE agent_chain[a] \in hashes
    BY DEF ChainInv, Headed
  <2> QED
    BY <2>1, <2>2 DEF ChainGrounded
<1> QED
  BY <1>1, <1>2, ChainNext, Invariance, PTL DEF Spec
=============================================================================
