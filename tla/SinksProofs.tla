------------------------------ MODULE SinksProofs ------------------------------
(***************************************************************************)
(* Proofs about module Sinks, for every set of actions, every lifetime and *)
(* any number of receipts, keys and calls.  They rest on what a signature  *)
(* covers: two receipts with the same signature that both verify agree on  *)
(* every claim a guard looks at.                                           *)
(***************************************************************************)
EXTENDS Sinks, TLAPS

(* A receipt as the service issues it.                                      *)
IsReceipt(i) ==
  \E a \in Actions, mode \in Modes, decision \in {"allow", "conditional"} :
    \E t \in Nat : \E k :
      i = Receipt(a, mode, decision, t, k) /\ (mode = "runtime" => decision = "allow")

IssuedByService == \A i \in issued : IsReceipt(i)

(* What a guard has been shown descends from an issued receipt.             *)
ShownWasIssued ==
  pc \in {"checking", "fetching"} =>
    \E i \in issued : shown \in Altered(i) \cup {i}

(* While the tool waits for the key, what it has already checked stands:    *)
(* nobody else writes the receipt it holds.                                 *)
AdmittedStands ==
  pc = "fetching" =>
    /\ guard = "fetching"
    /\ shown.decision = "allow" /\ shown.mode = "runtime"
    /\ shown.action_hash = ToolHash(asked)

SinksInv ==
  /\ now \in Nat
  /\ IssuedByService /\ ShownWasIssued /\ AdmittedStands
  /\ ActsOnlyOnAuthorized /\ PinnedActsFresh

(* A receipt field by field; its signature verifies.                        *)
LEMMA ReceiptClaims ==
  ASSUME NEW i, IsReceipt(i)
  PROVE  \E a, mode, decision, k : \E expires_at \in Nat :
           /\ i = [id |-> a, action_hash |-> EnvelopeHash(a), mode |-> mode,
                   decision |-> decision, expires_at |-> expires_at,
                   revoked |-> FALSE, signature |-> i.signature]
           /\ i.signature = Sign(k, SignatureMessage(i))
<1>1. PICK a \in Actions, mode \in Modes, decision \in {"allow", "conditional"} :
        \E t \in Nat : \E k : i = Receipt(a, mode, decision, t, k)
  BY DEF IsReceipt
<1>2. PICK t \in Nat : \E k : i = Receipt(a, mode, decision, t, k)
  BY <1>1
<1>3. PICK k : i = Receipt(a, mode, decision, t, k)
  BY <1>2
<1> t + Ttl \in Nat
  BY TtlAssumption
<1> DEFINE sig == Sign(k, <<a, EnvelopeHash(a), mode, decision, t + Ttl>>)
<1>4. i = [id |-> a, action_hash |-> EnvelopeHash(a), mode |-> mode,
           decision |-> decision, expires_at |-> t + Ttl,
           revoked |-> FALSE, signature |-> sig]
  BY <1>3 DEF Receipt, SignatureMessage
<1>5. i.signature = sig /\ sig = Sign(k, SignatureMessage(i))
  BY <1>4 DEF SignatureMessage
<1> WITNESS a, mode, decision, k
<1> WITNESS t + Ttl \in Nat
<1> QED
  BY <1>4, <1>5

(* Altering a receipt touches neither its id nor its signature.             *)
LEMMA AlteredKeeps ==
  ASSUME NEW i, IsReceipt(i), NEW r \in Altered(i) \cup {i}
  PROVE  r.id = i.id /\ r.signature = i.signature
<1>1. PICK a, mode, decision, expires_at, sig :
        i = [id |-> a, action_hash |-> EnvelopeHash(a), mode |-> mode,
             decision |-> decision, expires_at |-> expires_at,
             revoked |-> FALSE, signature |-> sig]
  BY ReceiptClaims
<1> QED
  BY <1>1 DEF Altered

(* The signature of an issued receipt verifies for no other claims.         *)
LEMMA VerifiedUnaltered ==
  ASSUME NEW i, IsReceipt(i), NEW r \in Altered(i) \cup {i}, NEW k, Verify(r, k)
  PROVE  /\ r.action_hash = i.action_hash /\ r.mode = i.mode
         /\ r.decision = i.decision /\ r.expires_at = i.expires_at
<1>1. PICK kk : i.signature = Sign(kk, SignatureMessage(i))
  BY ReceiptClaims
<1>2. r.signature = i.signature
  BY AlteredKeeps
<1>3. Sign(k, SignatureMessage(r)) = Sign(kk, SignatureMessage(i))
  BY <1>1, <1>2 DEF Verify
<1>4. SignatureMessage(r) = SignatureMessage(i)
  BY <1>3 DEF Sign
<1> QED
  BY <1>4 DEF SignatureMessage

(* What the sinks take the signature to be over is never what was signed:   *)
(* they refuse every receipt.                                               *)
LEMMA SinksRefuse ==
  ASSUME NEW i, IsReceipt(i), NEW r \in Altered(i) \cup {i}, NEW k
  PROVE  r.signature # Sign(k, SinkMessage(r))
<1>1. PICK kk : i.signature = Sign(kk, SignatureMessage(i))
  BY ReceiptClaims
<1>2. r.signature = Sign(kk, SignatureMessage(i))
  BY <1>1, AlteredKeeps
<1>3. SignatureMessage(i) # SinkMessage(r)
  <2>1. DOMAIN SignatureMessage(i) = 1..5 /\ DOMAIN SinkMessage(r) = 1..3
    BY DEF SignatureMessage, SinkMessage
  <2>2. 4 \in 1..5 /\ 4 \notin 1..3
    OBVIOUS
  <2> QED
    BY <2>1, <2>2
<1> QED
  BY <1>2, <1>3 DEF Sign

(* A tool whose checks pass acts on what was authorized, as issued.         *)
LEMMA VerifiedIsAuthorized ==
  ASSUME IssuedByService, NEW i \in issued, shown \in Altered(i) \cup {i},
         NEW k, Verify(shown, k),
         shown.decision = "allow", shown.mode = "runtime",
         shown.action_hash = ToolHash(asked)
  PROVE  /\ i.id = shown.id /\ i.action_hash = EnvelopeHash(asked)
         /\ i.mode = "runtime" /\ i.decision = "allow"
         /\ i.expires_at = shown.expires_at /\ i.expires_at \in Nat
<1>1. IsReceipt(i)
  BY DEF IssuedByService
<1>2. i.expires_at \in Nat
  BY <1>1, ReceiptClaims
<1> QED
  BY <1>1, <1>2, AlteredKeeps, VerifiedUnaltered DEF ToolHash

LEMMA InitInv == Init => SinksInv
BY DEF Init, SinksInv, IssuedByService, ShownWasIssued, AdmittedStands,
       ActsOnlyOnAuthorized, PinnedActsFresh

(* Steps of the service leave the call alone and withdraw no receipt.       *)
LEMMA ServiceStep ==
  ASSUME SinksInv, UNCHANGED call, now' \in Nat, issued \subseteq issued',
         \A i \in issued' \ issued : IsReceipt(i)
  PROVE  SinksInv'
BY DEF SinksInv, call, IssuedByService, ShownWasIssued, AdmittedStands,
       ActsOnlyOnAuthorized, PinnedActsFresh

LEMMA NextInv == SinksInv /\ [Next]_vars => SinksInv'
<1> SUFFICES ASSUME SinksInv, [Next]_vars PROVE SinksInv'
  OBVIOUS
<1>1. ASSUME NEW a \in Actions, Issue(a) PROVE SinksInv'
  <2>1. PICK mode \in Modes, decision \in {"allow", "conditional"} :
          /\ mode = "runtime" => decision = "allow"
          /\ issued' = issued \cup {Receipt(a, mode, decision, now, key)}
    BY <1>1 DEF Issue
  <2>2. IsReceipt(Receipt(a, mode, decision, now, key))
    BY <2>1 DEF IsReceipt, SinksInv
  <2> QED
    BY <1>1, <2>1, <2>2, ServiceStep DEF Issue, SinksInv
<1>2. ASSUME NEW i \in issued, Revoke(i) PROVE SinksInv'
  BY <1>2, ServiceStep DEF Revoke, SinksInv
<1>3. CASE RotateKey
  BY <1>3, ServiceStep DEF RotateKey, SinksInv
<1>4. CASE Tick
  BY <1>4, ServiceStep DEF Tick, SinksInv
<1>5. CASE Present
  BY <1>5 DEF Present, service, SinksInv, IssuedByService, ShownWasIssued,
              AdmittedStands, ActsOnlyOnAuthorized, PinnedActsFresh
<1>6. CASE CheckTool
  <2>0. UNCHANGED <<now, issued, guard, shown, asked>>
    BY <1>6 DEF CheckTool, service
  <2>1. PICK i \in issued : shown \in Altered(i) \cup {i}
    BY <1>6 DEF CheckTool, SinksInv, ShownWasIssued
  <2>2. CASE guard = "fetching" /\ ToolAdmits(shown, asked)
    <3>1. pc' = "fetching"
      BY <1>6, <2>2 DEF CheckTool
    <3> QED
      BY <2>0, <2>1, <2>2, <3>1
         DEF SinksInv, IssuedByService, ShownWasIssued, AdmittedStands,
             ActsOnlyOnAuthorized, PinnedActsFresh, ToolAdmits
  <2>3. CASE /\ ~(guard = "fetching" /\ ToolAdmits(shown, asked))
             /\ ToolAdmits(shown, asked) /\ Verify(shown, trusted)
    <3>1. pc' = "acted" /\ acted' = now
      BY <1>6, <2>3 DEF CheckTool, End
    <3>2. /\ i.id = shown.id /\ i.action_hash = EnvelopeHash(asked)
          /\ i.mode = "runtime" /\ i.decision = "allow"
          /\ i.expires_at = shown.expires_at
          /\ i.expires_at \in Nat
      BY <2>1, <2>3, VerifiedIsAuthorized DEF SinksInv, ToolAdmits
    <3>3. now < i.expires_at
      BY <2>3, <3>2 DEF ToolAdmits, Expired, SinksInv
    <3> QED
      BY <2>0, <2>1, <3>1, <3>2, <3>3
         DEF SinksInv, IssuedByService, ShownWasIssued, AdmittedStands,
             ActsOnlyOnAuthorized, PinnedActsFresh
  <2>4. CASE ~(ToolAdmits(shown, asked) /\ Verify(shown, trusted))
             /\ ~(guard = "fetching" /\ ToolAdmits(shown, asked))
    <3>1. pc' = "refused"
      BY <1>6, <2>4 DEF CheckTool, End
    <3> QED
      BY <2>0, <3>1
         DEF SinksInv, IssuedByService, ShownWasIssued, AdmittedStands,
             ActsOnlyOnAuthorized, PinnedActsFresh
  <2> QED
    BY <2>2, <2>3, <2>4
<1>7. CASE FetchKey
  <2>0. UNCHANGED <<now, issued, guard, shown, asked>>
    BY <1>7 DEF FetchKey, service
  <2>1. PICK i \in issued : shown \in Altered(i) \cup {i}
    BY <1>7 DEF FetchKey, SinksInv, ShownWasIssued
  <2>2. CASE Verify(shown, key)
    <3>1. pc' = "acted"
      BY <1>7, <2>2 DEF FetchKey, End
    <3>2. /\ i.id = shown.id /\ i.action_hash = EnvelopeHash(asked)
          /\ i.mode = "runtime" /\ i.decision = "allow"
      BY <1>7, <2>1, <2>2, VerifiedIsAuthorized
         DEF FetchKey, SinksInv, AdmittedStands
    <3>3. guard # "pinned"
      BY <1>7 DEF FetchKey, SinksInv, AdmittedStands
    <3> QED
      BY <2>0, <2>1, <3>1, <3>2, <3>3
         DEF SinksInv, IssuedByService, ShownWasIssued, AdmittedStands,
             ActsOnlyOnAuthorized, PinnedActsFresh
  <2>3. CASE ~Verify(shown, key)
    <3>1. pc' = "refused"
      BY <1>7, <2>3 DEF FetchKey, End
    <3> QED
      BY <2>0, <3>1
         DEF SinksInv, IssuedByService, ShownWasIssued, AdmittedStands,
             ActsOnlyOnAuthorized, PinnedActsFresh
  <2> QED
    BY <2>2, <2>3
<1>8. CASE FetchFails
  <2>1. pc' = "refused" /\ UNCHANGED <<now, issued>>
    BY <1>8 DEF FetchFails, End, service
  <2> QED
    BY <2>1 DEF SinksInv, IssuedByService, ShownWasIssued, AdmittedStands,
                ActsOnlyOnAuthorized, PinnedActsFresh
<1>9. CASE CheckSink
  <2>1. PICK i \in issued : shown \in Altered(i) \cup {i}
    BY <1>9 DEF CheckSink, SinksInv, ShownWasIssued
  <2>2. shown.signature # Sign(trusted, SinkMessage(shown))
    BY <2>1, SinksRefuse DEF SinksInv, IssuedByService
  <2>3. pc' = "refused" /\ UNCHANGED <<now, issued>>
    BY <1>9, <2>2 DEF CheckSink, End, RequireReceipt, VerifyAtSink, service
  <2> QED
    BY <2>3 DEF SinksInv, IssuedByService, ShownWasIssued, AdmittedStands,
                ActsOnlyOnAuthorized, PinnedActsFresh
<1>10. CASE UNCHANGED vars
  BY <1>10, ServiceStep DEF vars, service, SinksInv
<1> QED
  BY <1>1, <1>2, <1>3, <1>4, <1>5, <1>6, <1>7, <1>8, <1>9, <1>10 DEF Next

LEMMA Invariance == Spec => []SinksInv
BY InitInv, NextInv, PTL DEF Spec

(* A guard acts only on what the service authorized, whatever becomes of    *)
(* the receipt on its way and of the service's key in the meantime.         *)
THEOREM GuardsActOnAuthorized == Spec => []ActsOnlyOnAuthorized
<1>1. SinksInv => ActsOnlyOnAuthorized
  BY DEF SinksInv
<1> QED
  BY <1>1, Invariance, PTL

(* A tool with a pinned key acts on no expired receipt.                     *)
THEOREM PinnedToolActsFresh == Spec => []PinnedActsFresh
<1>1. SinksInv => PinnedActsFresh
  BY DEF SinksInv
<1> QED
  BY <1>1, Invariance, PTL

(* The tool never refuses a genuine receipt for its call: its hash and its  *)
(* message are the service's, and no check of its own is stricter.          *)
THEOREM ToolRefusesNoGenuine == Spec => ToolAcceptsGenuine
<1> DEFINE Accepts ==
      (CheckTool \/ FetchKey) /\ Genuine /\ shown.mode = "runtime"
        => pc' # "refused"
<1>1. SinksInv /\ [Next]_vars => [Accepts]_vars
  <2> SUFFICES ASSUME SinksInv, CheckTool \/ FetchKey, Genuine,
                      shown.mode = "runtime"
               PROVE  pc' # "refused"
    OBVIOUS
  <2>1. IsReceipt(shown)
    BY DEF SinksInv, IssuedByService, Genuine
  <2>2. PICK a, mode, decision, expires_at, sig :
          shown = [id |-> a, action_hash |-> EnvelopeHash(a), mode |-> mode,
                   decision |-> decision, expires_at |-> expires_at,
                   revoked |-> FALSE, signature |-> sig]
    BY <2>1, ReceiptClaims
  <2>3. ~shown.revoked
    BY <2>2
  <2>4. PICK k : shown.signature = Sign(k, SignatureMessage(shown))
    BY <2>1, ReceiptClaims
  <2>5. Verify(shown, key) /\ Verify(shown, trusted)
    BY <2>4 DEF Genuine, Verify, Sign
  <2>6. ToolAdmits(shown, asked)
    BY <2>3 DEF ToolAdmits, Genuine, ToolHash
  <2> QED
    BY <2>5, <2>6 DEF CheckTool, FetchKey, End
<1> QED
  BY <1>1, Invariance, PTL DEF Spec, ToolAcceptsGenuine
=============================================================================
