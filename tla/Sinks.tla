-------------------------------- MODULE Sinks ---------------------------------
(***************************************************************************)
(* The programs outside the service that decide whether to act on a        *)
(* receipt: the LangGraph tool guard (integrations/langgraph), the sink    *)
(* example (examples/sink_guard.py) and the demo's sink check              *)
(* (demo/poisoned_invoice/cyraduct_guard.py).  A call shows a guard one    *)
(* receipt, which may have been altered on the way, for one action; calls  *)
(* share nothing, and one at a time is modelled.                           *)
(*                                                                         *)
(* A signature is the key and the message it was made over; a hash is what *)
(* it was computed from, tagged with the canonicalization used.            *)
(***************************************************************************)
EXTENDS Integers

CONSTANTS
  None,
  Actions,    \* actions of one agent; also the ids of their receipts
  Ttl,        \* lifetime of a receipt
  MaxTime,    \* bound on the clock
  MaxKeys     \* bound on signing keys: each restart may rotate

ASSUME TtlAssumption == Ttl \in Nat

(* The tool with a pinned public key or one it fetches, and the two sinks.  *)
Tools == {"pinned", "fetching"}
Guards == Tools \cup {"sink_guard", "verify_at_sink"}
Modes == {"runtime", "policy"}

Sign(k, message) == [key |-> k, message |-> message]

-----------------------------------------------------------------------------
(* A faulty variant: the authorization type is left out of what is signed. *)
SignatureMessage_NoMode(r) ==
  <<r.id, r.action_hash, r.decision, r.expires_at>>

(* _signature_message of the service, and payload of verify_receipt.py: all *)
(* claims but the mutable revoked, and the id of the key, which stays what  *)
(* CYRADUCT_KEY_ID says when the key itself changes.                        *)
SignatureMessage(r) ==
  <<r.id, r.action_hash, r.mode, r.decision, r.expires_at>>

(* What sink_guard.py and cyraduct_guard.py take the signature to be over.  *)
SinkMessage(r) == <<r.id, r.action_hash, r.expires_at>>

(* The service's action hash, and that of cyraduct_guard.py, which covers   *)
(* other fields.                                                            *)
EnvelopeHash(a) == [envelope |-> a]
GuardHash(a) == [guard |-> a]

(* A faulty variant: the adapter falls behind the service's envelope. *)
ToolHash_Outdated(a) == GuardHash(a)

(* _runtime_action_hash of the LangGraph adapter mirrors the service.       *)
ToolHash(a) == EnvelopeHash(a)

(* The receipt the service issues for a, signed with key k at time t: the    *)
(* signature is over the other claims, and is filled in last.               *)
Receipt(a, mode, decision, t, k) ==
  LET unsigned == [id |-> a, action_hash |-> EnvelopeHash(a), mode |-> mode,
                   decision |-> decision, expires_at |-> t + Ttl,
                   revoked |-> FALSE, signature |-> None]
  IN [unsigned EXCEPT !.signature = Sign(k, SignatureMessage(unsigned))]

(* One field of r changed on its way to a guard.                            *)
Altered(r) ==
  {[r EXCEPT !.action_hash = EnvelopeHash(b)] : b \in Actions}
    \cup {[r EXCEPT !.decision = "allow"], [r EXCEPT !.mode = "runtime"],
          [r EXCEPT !.expires_at = @ + 1]}

Verify(r, k) == r.signature = Sign(k, SignatureMessage(r))

-----------------------------------------------------------------------------
VARIABLES
  now,
  key,      \* the service's signing key
  issued,   \* receipts the service issued
  revoked,  \* ids it revoked
  guard,    \* the guard that is called
  pc,       \* where the call stands
  shown,    \* the receipt it was shown
  asked,    \* the action it is asked to perform
  trusted,  \* the key the guard checks signatures with
  acted     \* when it acted, or None

service == <<now, key, issued, revoked>>
call == <<guard, pc, shown, asked, trusted, acted>>
vars == <<service, call>>

Expired(r) == now >= r.expires_at

(* A faulty variant: the expiry is left to the service. *)
ToolAdmits_NoExpiry(r, a) ==
  /\ r.decision = "allow" /\ r.mode = "runtime" /\ ~r.revoked
  /\ r.action_hash = ToolHash(a)

(* _authorize_and_execute up to its first await after the evaluation.       *)
ToolAdmits(r, a) ==
  /\ r.decision = "allow" /\ r.mode = "runtime" /\ ~r.revoked
  /\ r.action_hash = ToolHash(a)
  /\ ~Expired(r)

(* require_receipt.                                                         *)
RequireReceipt(r, k, a) ==
  /\ r.action_hash = EnvelopeHash(a)
  /\ ~Expired(r)
  /\ r.signature = Sign(k, SinkMessage(r))

(* verify_at_sink up to its call of the service; no human has approved.     *)
VerifyAtSink(r, k, a) ==
  /\ r.signature = Sign(k, SinkMessage(r))
  /\ now <= r.expires_at
  /\ r.action_hash = GuardHash(a)
  /\ r.decision # "conditional"

(* attested.verify, on the stored receipt.                                  *)
ServerVerifies(r) ==
  \E i \in issued : /\ i.id = r.id /\ i.id \notin revoked
                    /\ Verify(i, key) /\ now <= i.expires_at

Init ==
  /\ now = 0 /\ key = 1 /\ issued = {} /\ revoked = {}
  /\ pc = "idle" /\ guard = None /\ shown = None /\ asked = None
  /\ trusted = None /\ acted = None

Issue(a) ==
  /\ \A i \in issued : i.id # a
  /\ \E mode \in Modes, decision \in {"allow", "conditional"} :
       /\ mode = "runtime" => decision = "allow"
       /\ issued' = issued \cup {Receipt(a, mode, decision, now, key)}
  /\ UNCHANGED <<now, key, revoked, call>>

Revoke(i) ==
  /\ revoked' = revoked \cup {i.id}
  /\ UNCHANGED <<now, key, issued, call>>

(* The service restarts without a configured key.                           *)
RotateKey ==
  /\ key < MaxKeys
  /\ key' = key + 1
  /\ UNCHANGED <<now, issued, revoked, call>>

Tick ==
  /\ now < MaxTime
  /\ now' = now + 1
  /\ UNCHANGED <<key, issued, revoked, call>>

(* A guard is shown a receipt, as issued or altered, for action a; it holds *)
(* the service's current public key, pinned or fetched before.              *)
Present ==
  /\ pc \in {"idle", "acted", "refused"}
  /\ guard' \in Guards
  /\ \E i \in issued : shown' \in Altered(i) \cup {i}
  /\ asked' \in Actions
  /\ trusted' = key
  /\ pc' = "checking"
  /\ acted' = None
  /\ UNCHANGED service

End(acts) ==
  /\ pc' = IF acts THEN "acted" ELSE "refused"
  /\ acted' = IF acts THEN now ELSE None

(* The tool's checks that need no network, and with a pinned key the        *)
(* signature and the action too: nothing is awaited in between.             *)
CheckTool ==
  /\ pc = "checking" /\ guard \in Tools
  /\ IF guard = "fetching" /\ ToolAdmits(shown, asked)
     THEN pc' = "fetching" /\ UNCHANGED acted
     ELSE End(ToolAdmits(shown, asked) /\ Verify(shown, trusted))
  /\ UNCHANGED <<service, guard, shown, asked, trusted>>

(* public_key answers with the key of the moment; then the signature is     *)
(* checked and the executor runs.                                           *)
FetchKey ==
  /\ pc = "fetching"
  /\ trusted' = key
  /\ End(Verify(shown, key))
  /\ UNCHANGED <<service, guard, shown, asked>>

(* The key cannot be fetched.                                               *)
FetchFails ==
  /\ pc = "fetching"
  /\ End(FALSE)
  /\ UNCHANGED <<service, guard, shown, asked, trusted>>

(* A sink's check; verify_at_sink ends with a call of attested.verify.      *)
CheckSink ==
  /\ pc = "checking" /\ guard \notin Tools
  /\ End(IF guard = "sink_guard" THEN RequireReceipt(shown, trusted, asked)
         ELSE VerifyAtSink(shown, trusted, asked) /\ ServerVerifies(shown))
  /\ UNCHANGED <<service, guard, shown, asked, trusted>>

Next ==
  \/ \E a \in Actions : Issue(a)
  \/ \E i \in issued : Revoke(i)
  \/ RotateKey \/ Tick
  \/ Present \/ CheckTool \/ FetchKey \/ FetchFails \/ CheckSink

Spec == Init /\ [][Next]_vars

-----------------------------------------------------------------------------
(* A guard acts only on what the service authorized: it issued a receipt    *)
(* with this id for this very action, for the tool of the runtime tier and  *)
(* with an allow, however the receipt was altered on its way.               *)
ActsOnlyOnAuthorized ==
  pc = "acted" =>
    \E i \in issued :
      /\ i.id = shown.id /\ i.action_hash = EnvelopeHash(asked)
      /\ guard \in Tools => i.mode = "runtime" /\ i.decision = "allow"

(* With a pinned key the tool never acts on an expired receipt: the time it *)
(* compared is the time it acts, for nothing is awaited in between.         *)
PinnedActsFresh ==
  guard = "pinned" /\ pc = "acted" =>
    \E i \in issued : i.id = shown.id /\ acted < i.expires_at

(* The call is about a receipt as it was issued, for its action, that lives *)
(* and that the service would sign with the same key today.                 *)
Genuine ==
  /\ shown \in issued /\ shown.action_hash = EnvelopeHash(asked)
  /\ shown.decision = "allow" /\ shown.id \notin revoked
  /\ shown.signature.key = key /\ trusted = key /\ ~Expired(shown)

(* The tool refuses no receipt that is genuine, unless it cannot fetch the  *)
(* key: the adapter and the service compute the same hash and the same      *)
(* message.                                                                 *)
ToolAcceptsGenuine ==
  [][(CheckTool \/ FetchKey) /\ Genuine /\ shown.mode = "runtime"
     => pc' # "refused"]_vars

(* The sink guards refuse no receipt that is genuine ("the sink can run     *)
(* this after fetching the published public key").                          *)
SinksAcceptGenuine == [][CheckSink /\ Genuine => pc' # "refused"]_vars
=============================================================================
