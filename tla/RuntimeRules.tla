----------------------------- MODULE RuntimeRules -----------------------------
(***************************************************************************)
(* The ladder of rules of app/runtime.py evaluate, and a caller that       *)
(* evaluates the same action again as time passes and as the counts it     *)
(* reports, two of them of the last minute, rise and fall.                 *)
(*                                                                         *)
(* A count reported in runtime_state is absent (None), an integer, or      *)
(* Malformed: anything else JSON can carry there, booleans included.  An   *)
(* authorization expiry is absent, a time, or Unparsable.                  *)
(***************************************************************************)
EXTENDS Integers, ConsequenceClasses

CONSTANTS
  Malformed, Unparsable,
  Classes,       \* consequence_class values a caller may name
  Versions,      \* state versions
  Requests,      \* requests the caller may start from
  MaxTime,       \* bound on the clock
  MaxOver        \* bound on how far a count moves from its limit

Counts == Int \cup {None, Malformed}
Authorities == {"present", "delegated", "missing", "expired", "unknown"}
Reversibilities == {"reversible", "partially_reversible", "irreversible"}
Counters == {"actions", "retries", "pending"}

Request == [class: Classes, authority: Authorities,
            reversibility: Reversibilities,
            expiry: Nat \cup {None, Unparsable},
            authorized: Versions \cup {None}, current: Versions \cup {None},
            counts: [Counters -> Counts]]

ASSUME SentinelAssumption ==
  /\ {None, Malformed, Unparsable} \cap Int = {}
  /\ None # Malformed /\ None # Unparsable
  /\ None \notin Versions
ASSUME RequestsAssumption == Requests \subseteq Request
ASSUME BoundsAssumption == MaxTime \in Nat /\ MaxOver \in Nat

Limit == [actions |-> 60, retries |-> 5, pending |-> 5]

(* _integer_signal: -1 marks a count that is negative or no integer.        *)
IntegerSignal(count) ==
  IF count = None THEN None
  ELSE IF count \notin Int \/ count < 0 THEN -1 ELSE count

(* _authorization_expired: what cannot be read counts as expired.           *)
AuthorizationExpired(expiry, now) ==
  \/ expiry = Unparsable
  \/ expiry \notin {None, Unparsable} /\ now >= expiry

StateVersionIncomplete(req) == (req.authorized = None) # (req.current = None)

StateChanged(req) ==
  /\ req.authorized # None /\ req.current # None
  /\ req.authorized # req.current

(* The count c is reported and exceeds its limit.                           *)
Over(req, c) ==
  LET signal == IntegerSignal(req.counts[c])
  IN signal # None /\ signal > Limit[c]

Pressure(req) ==
  \/ Over(req, "actions") \/ Over(req, "retries")
  \/ Over(req, "pending") /\ req.class # LowRisk

(* A faulty variant: a malformed count passes for one under its limit. *)
Malformation_Unchecked(req) == FALSE

Malformation(req) == \E c \in Counters : IntegerSignal(req.counts[c]) = -1

NeedsReauthorization(req, now) ==
  \/ AuthorizationExpired(req.expiry, now) \/ req.authority = "expired"
  \/ StateVersionIncomplete(req) \/ StateChanged(req)

NeedsHold(req) ==
  \/ req.authority \in {"missing", "unknown"}
  \/ req.authority = "delegated" /\ req.reversibility = "irreversible"

(* A faulty variant: the counts are looked at before the authority. *)
Evaluate_CountsFirst(req, now) ==
  IF req.class \notin KnownClasses \/ Malformation(req) THEN "deny"
  ELSE IF NeedsReauthorization(req, now) THEN "reauthorize"
  ELSE IF Pressure(req) THEN "throttle"
  ELSE IF NeedsHold(req) THEN "hold" ELSE "allow"

(* evaluate: the first rule that applies decides. *)
Evaluate(req, now) ==
  IF req.class \notin KnownClasses \/ Malformation(req) THEN "deny"
  ELSE IF NeedsReauthorization(req, now) THEN "reauthorize"
  ELSE IF NeedsHold(req) THEN "hold"
  ELSE IF Pressure(req) THEN "throttle" ELSE "allow"

-----------------------------------------------------------------------------
VARIABLES now, req

vars == <<now, req>>

Init == now = 0 /\ req \in Requests

(* Time passes between two evaluations. *)
Tick ==
  /\ now < MaxTime
  /\ now' = now + 1
  /\ UNCHANGED req

(* The caller has done more, retried more or left more pending. *)
Grow(c) ==
  /\ req.counts[c] \in Nat
  /\ req.counts[c] < Limit[c] + MaxOver
  /\ req' = [req EXCEPT !.counts[c] = @ + 1]
  /\ UNCHANGED now

(* What was counted is no longer of the last minute, or no longer pending. *)
Fall(c) ==
  /\ req.counts[c] \in Nat \ {0}
  /\ req.counts[c] > Limit[c] - MaxOver
  /\ req' = [req EXCEPT !.counts[c] = @ - 1]
  /\ UNCHANGED now

(* The state the caller reports has moved on. *)
Move ==
  /\ req.authorized # None
  /\ req.current = req.authorized
  /\ \E v \in Versions \ {req.current} : req' = [req EXCEPT !.current = v]
  /\ UNCHANGED now

Next == Tick \/ (\E c \in Counters : Grow(c) \/ Fall(c)) \/ Move

Spec == Init /\ [][Next]_vars

-----------------------------------------------------------------------------
(* What must be true of a request for its action to be let through, stated  *)
(* without an order of rules.                                               *)
Clear(r, at) ==
  /\ r.class \in KnownClasses
  /\ \A c \in Counters : r.counts[c] \in Nat \cup {None}
  /\ \A c \in Counters :
       r.counts[c] \in Int /\ ~(c = "pending" /\ r.class = LowRisk)
         => r.counts[c] <= Limit[c]
  /\ r.expiry # None => r.expiry # Unparsable /\ at < r.expiry
  /\ r.authorized = r.current
  /\ \/ r.authority = "present"
     \/ r.authority = "delegated" /\ r.reversibility # "irreversible"

(* evaluate allows exactly the requests with nothing against them: the      *)
(* order of its rules hides no concern, a sentinel such as -1 or an         *)
(* unreadable expiry opens no gap, and nothing clear is refused.            *)
AllowsExactlyClear == (Evaluate(req, now) = "allow") <=> Clear(req, now)

(* Rank of the decisions an agent cannot wait out: a throttle is none.      *)
Severity(decision) ==
  CASE decision = "deny" -> 3 [] decision = "reauthorize" -> 2
    [] decision = "hold" -> 1 [] OTHER -> 0

(* As time passes, the counts of one action rise and fall and the state     *)
(* moves on, a denial, a reauthorization or a hold is never softened: only  *)
(* a throttle, which is about the counts alone, goes away by waiting, and   *)
(* no retry turns a hold into a mere throttle.                              *)
NeverSoftens ==
  [][Severity(Evaluate(req', now')) >= Severity(Evaluate(req, now))]_vars
=============================================================================
