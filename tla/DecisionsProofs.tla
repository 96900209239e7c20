--------------------------- MODULE DecisionsProofs ---------------------------
(***************************************************************************)
(* Proofs about the two decision tiers: module RuntimeRules, for every set *)
(* of classes and state versions, every request and every bound on counts  *)
(* and time; and module PolicyEngine, for every request the adapter may    *)
(* start from and every amount it may raise to.                            *)
(***************************************************************************)
EXTENDS Decisions, WellFoundedInduction, TLAPS

(* The type of the state; it is inductive.                                  *)
TypeInv == now \in Nat /\ req \in Request

(* What the rules decide depends on neither the order in which they are     *)
(* tried nor the sentinels: evaluate allows what is clear, and that only.   *)
LEMMA EvaluateClear ==
  ASSUME NEW r \in Request, NEW at \in Nat
  PROVE  (Evaluate(r, at) = "allow") <=> Clear(r, at)
<1> DEFINE C == r.counts
<1>0. /\ C \in [Counters -> Counts]
      /\ r.expiry \in Nat \cup {None, Unparsable}
      /\ r.authority \in Authorities
      /\ r.authorized \in Versions \cup {None}
      /\ r.current \in Versions \cup {None}
  BY DEF Request
<1>1. ASSUME NEW c \in Counters
      PROVE  IntegerSignal(C[c]) # -1 <=> C[c] \in Nat \cup {None}
  <2>1. C[c] \in Int \cup {None, Malformed}
    BY <1>0 DEF Counts
  <2> QED
    BY <2>1, SentinelAssumption DEF IntegerSignal
<1>2. ~Malformation(r) <=> \A c \in Counters : C[c] \in Nat \cup {None}
  BY <1>1 DEF Malformation
<1>3. ASSUME NEW c \in Counters, C[c] \in Nat \cup {None}
      PROVE  Over(r, c) <=> ~(C[c] \in Int => C[c] <= Limit[c])
  <2>1. Limit[c] \in Nat
    BY DEF Limit, Counters
  <2> QED
    BY <1>3, <2>1, SentinelAssumption DEF Over, IntegerSignal
<1>4. ASSUME \A c \in Counters : C[c] \in Nat \cup {None}
      PROVE  ~Pressure(r) <=>
               \A c \in Counters :
                 C[c] \in Int /\ ~(c = "pending" /\ r.class = LowRisk)
                   => C[c] <= Limit[c]
  BY <1>3, <1>4 DEF Pressure, Counters
<1>5. ~AuthorizationExpired(r.expiry, at)
        <=> (r.expiry # None => r.expiry # Unparsable /\ at < r.expiry)
  <2>1. CASE r.expiry \in Nat
    BY <2>1, SentinelAssumption DEF AuthorizationExpired
  <2>2. CASE r.expiry \in {None, Unparsable}
    BY <2>2, SentinelAssumption DEF AuthorizationExpired
  <2> QED
    BY <1>0, <2>1, <2>2
<1>6. ~StateVersionIncomplete(r) /\ ~StateChanged(r) <=> r.authorized = r.current
  BY DEF StateVersionIncomplete, StateChanged
<1>7. /\ r.authority # "expired"
      /\ ~(\/ r.authority \in {"missing", "unknown"}
           \/ r.authority = "delegated" /\ r.reversibility = "irreversible")
      <=> \/ r.authority = "present"
          \/ r.authority = "delegated" /\ r.reversibility # "irreversible"
  BY <1>0 DEF Authorities
<1>8. (Evaluate(r, at) = "allow")
        <=> /\ r.class \in KnownClasses /\ ~Malformation(r)
            /\ ~AuthorizationExpired(r.expiry, at) /\ r.authority # "expired"
            /\ ~StateVersionIncomplete(r) /\ ~StateChanged(r)
            /\ ~(\/ r.authority \in {"missing", "unknown"}
                 \/ r.authority = "delegated" /\ r.reversibility = "irreversible")
            /\ ~Pressure(r)
  BY DEF Evaluate, NeedsReauthorization, NeedsHold
<1> QED
  BY <1>2, <1>4, <1>5, <1>6, <1>7, <1>8 DEF Clear

(* Requests stay requests as counts rise and fall and the state moves on.   *)
LEMMA TypeInvStep == TypeInv /\ [Next]_vars => TypeInv'
<1> SUFFICES ASSUME TypeInv, [Next]_vars PROVE TypeInv'
  OBVIOUS
<1>1. CASE Tick
  BY <1>1 DEF Tick, TypeInv
<1>2. ASSUME NEW c \in Counters, Grow(c) PROVE TypeInv'
  <2>1. req.counts \in [Counters -> Counts] /\ req.counts[c] + 1 \in Counts
    BY <1>2 DEF TypeInv, Request, Grow, Counts
  <2>2. [req.counts EXCEPT ![c] = @ + 1] \in [Counters -> Counts]
    BY <2>1
  <2>3. req' = [req EXCEPT !.counts = [req.counts EXCEPT ![c] = @ + 1]]
    BY <1>2 DEF Grow, TypeInv, Request
  <2> QED
    BY <1>2, <2>2, <2>3 DEF Grow, TypeInv, Request
<1>3. ASSUME NEW c \in Counters, Fall(c) PROVE TypeInv'
  <2>1. req.counts \in [Counters -> Counts] /\ req.counts[c] - 1 \in Counts
    BY <1>3 DEF TypeInv, Request, Fall, Counts
  <2>2. [req.counts EXCEPT ![c] = @ - 1] \in [Counters -> Counts]
    BY <2>1
  <2>3. req' = [req EXCEPT !.counts = [req.counts EXCEPT ![c] = @ - 1]]
    BY <1>3 DEF Fall, TypeInv, Request
  <2> QED
    BY <1>3, <2>2, <2>3 DEF Fall, TypeInv, Request
<1>4. CASE Move
  BY <1>4 DEF Move, TypeInv, Request
<1>5. CASE UNCHANGED vars
  BY <1>5 DEF vars, TypeInv
<1> QED
  BY <1>1, <1>2, <1>3, <1>4, <1>5 DEF Next

(* Requests stay requests as the adapter prepares them again.               *)
PolicyType == ask \in PolicyRequest

LEMMA PolicyTypeStep == PolicyType /\ [PolicyNext]_ask => PolicyType'
<1> SUFFICES ASSUME PolicyType, PolicyNext PROVE PolicyType'
  BY DEF PolicyType
<1>1. ASSUME NEW f \in DOMAIN ask.payload, LoseFact(f) PROVE PolicyType'
  <2>1. f \in Fields /\ ask.payload \in [Fields -> Value \cup {None}]
    BY DEF PolicyType, PolicyRequest
  <2>2. [ask.payload EXCEPT ![f] = None] \in [Fields -> Value \cup {None}]
    BY <2>1
  <2> QED
    BY <1>1, <2>2 DEF PolicyType, PolicyRequest, LoseFact
<1>2. CASE LosePurpose
  BY <1>2 DEF PolicyType, PolicyRequest, LosePurpose
<1>3. CASE LoseJurisdiction
  BY <1>3 DEF PolicyType, PolicyRequest, LoseJurisdiction
<1>4. CASE LoseRecord
  BY <1>4 DEF PolicyType, PolicyRequest, LoseRecord
<1>5. ASSUME NEW i \in Amounts, RaiseAmount(i) PROVE PolicyType'
  <2>1. Num(i) \in Value
    BY AmountsAssumption DEF Num, Value
  <2>2. ask.payload \in [Fields -> Value \cup {None}]
    BY DEF PolicyType, PolicyRequest
  <2>3. [ask.payload EXCEPT !["amount"] = Num(i)] \in [Fields -> Value \cup {None}]
    BY <2>1, <2>2
  <2> QED
    BY <1>5, <2>3 DEF PolicyType, PolicyRequest, RaiseAmount
<1> QED
  BY <1>1, <1>2, <1>3, <1>4, <1>5 DEF PolicyNext

(* A step of one tier leaves the other's request at rest.                   *)
LEMMA StepOfEither ==
  [DecisionsNext]_allVars => [Next]_vars /\ [PolicyNext]_ask
BY DEF DecisionsNext, allVars

LEMMA TypesInvariant == DecisionsSpec => [](TypeInv /\ PolicyType)
<1>1. AtRestRuntime \in Requests /\ AtRest \in PolicyRequests
  BY TiersAssumption DEF AtRestRuntime, AtRest
<1>2. DecisionsInit => TypeInv /\ PolicyType
  BY <1>1, RequestsAssumption, PolicyRequestsAssumption
     DEF DecisionsInit, Init, PolicyInit, TypeInv, PolicyType
<1> QED
  BY <1>2, TypeInvStep, PolicyTypeStep, StepOfEither, PTL DEF DecisionsSpec

(* An action is let through exactly when nothing is against it: the rules   *)
(* of runtime.py leave no gap between them, for any request at any time.    *)
THEOREM RulesAllowExactlyClear == DecisionsSpec => []AllowsExactlyClear
<1>1. TypeInv => AllowsExactlyClear
  BY EvaluateClear DEF TypeInv, AllowsExactlyClear
<1> QED
  BY <1>1, TypesInvariant, PTL

(* What the rules decide before they look at the counts: the rank of the    *)
(* decision depends on the counts only through their being malformed.       *)
LEMMA SeverityIs ==
  ASSUME NEW r, NEW at
  PROVE  Severity(Evaluate(r, at)) =
           IF r.class \notin KnownClasses \/ Malformation(r) THEN 3
           ELSE IF NeedsReauthorization(r, at) THEN 2
           ELSE IF NeedsHold(r) THEN 1 ELSE 0
BY DEF Severity, Evaluate

(* A count that is a number before and after is malformed at neither time.  *)
LEMMA CountMoves ==
  ASSUME TypeInv, NEW c \in Counters, req.counts[c] \in Nat, NEW n \in Nat,
         req' = [req EXCEPT !.counts[c] = n]
  PROVE  /\ Malformation(req') <=> Malformation(req)
         /\ req'.class = req.class /\ req'.authority = req.authority
         /\ req'.reversibility = req.reversibility /\ req'.expiry = req.expiry
         /\ req'.authorized = req.authorized /\ req'.current = req.current
<1>1. /\ req.counts \in [Counters -> Counts]
      /\ req'.counts = [req.counts EXCEPT ![c] = n]
      /\ req'.class = req.class /\ req'.authority = req.authority
      /\ req'.reversibility = req.reversibility /\ req'.expiry = req.expiry
      /\ req'.authorized = req.authorized /\ req'.current = req.current
  BY DEF TypeInv, Request
<1>2. ASSUME NEW m \in Nat PROVE IntegerSignal(m) # -1
  BY <1>2, SentinelAssumption DEF IntegerSignal
<1>3. ASSUME NEW d \in Counters
      PROVE  IntegerSignal(req'.counts[d]) = -1 <=> IntegerSignal(req.counts[d]) = -1
  <2>1. CASE d # c
    BY <1>1, <2>1
  <2>2. CASE d = c
    BY <1>1, <1>2, <2>2
  <2> QED
    BY <2>1, <2>2
<1> QED
  BY <1>1, <1>3 DEF Malformation

(* No step a caller or the clock takes softens a refusal that is not about  *)
(* the counts alone, whichever way the counts move.                         *)
THEOREM RulesNeverSoften == DecisionsSpec => NeverSoftens
<1>1. TypeInv /\ [Next]_vars =>
        [Severity(Evaluate(req', now')) >= Severity(Evaluate(req, now))]_vars
  <2> SUFFICES ASSUME TypeInv, Next
               PROVE  Severity(Evaluate(req', now')) >= Severity(Evaluate(req, now))
    OBVIOUS
  <2>1. SUFFICES /\ req.class \notin KnownClasses \/ Malformation(req)
                      => req'.class \notin KnownClasses \/ Malformation(req')
                 /\ NeedsReauthorization(req, now) => NeedsReauthorization(req', now')
                 /\ NeedsHold(req)
                      => NeedsHold(req') \/ NeedsReauthorization(req', now')
    BY SeverityIs
  <2>2. CASE Tick
    <3>1. req' = req /\ now \in Nat /\ now' = now + 1
      BY <2>2 DEF Tick, TypeInv
    <3>2. AuthorizationExpired(req.expiry, now) => AuthorizationExpired(req.expiry, now')
      <4>1. req.expiry \in Nat \cup {None, Unparsable}
        BY DEF TypeInv, Request
      <4> QED
        BY <3>1, <4>1 DEF AuthorizationExpired
    <3> QED
      BY <3>1, <3>2 DEF NeedsReauthorization
  <2>3. ASSUME NEW c \in Counters, Grow(c) \/ Fall(c)
        PROVE  /\ req.class \notin KnownClasses \/ Malformation(req)
                    => req'.class \notin KnownClasses \/ Malformation(req')
               /\ NeedsReauthorization(req, now) => NeedsReauthorization(req', now')
               /\ NeedsHold(req)
                    => NeedsHold(req') \/ NeedsReauthorization(req', now')
    <3>1. PICK n \in Nat : req' = [req EXCEPT !.counts[c] = n]
      <4>1. CASE Grow(c)
        <5>1. req.counts[c] + 1 \in Nat
              /\ req' = [req EXCEPT !.counts[c] = req.counts[c] + 1]
          BY <4>1 DEF Grow
        <5> QED
          BY <5>1
      <4>2. CASE Fall(c)
        <5>1. req.counts[c] - 1 \in Nat
              /\ req' = [req EXCEPT !.counts[c] = req.counts[c] - 1]
          BY <4>2 DEF Fall
        <5> QED
          BY <5>1
      <4> QED
        BY <2>3, <4>1, <4>2
    <3>2. req.counts[c] \in Nat /\ now' = now
      BY <2>3 DEF Grow, Fall
    <3> QED
      BY <3>1, <3>2, CountMoves
         DEF NeedsReauthorization, NeedsHold, StateVersionIncomplete, StateChanged
  <2>4. CASE Move
    <3>1. PICK v \in Versions \ {req.current} : req' = [req EXCEPT !.current = v]
      BY <2>4 DEF Move
    <3>2. /\ req'.class = req.class /\ req'.counts = req.counts
          /\ req'.authorized = req.authorized /\ req'.current = v
      BY <3>1 DEF TypeInv, Request
    <3>3. StateChanged(req')
      BY <2>4, <3>2, SentinelAssumption DEF Move, StateChanged
    <3> QED
      BY <3>2, <3>3 DEF NeedsReauthorization, Malformation
  <2> QED
    BY <2>2, <2>3, <2>4 DEF Next
<1> QED
  BY <1>1, TypesInvariant, StepOfEither, PTL DEF DecisionsSpec, NeverSoftens

-----------------------------------------------------------------------------
(* The policy engine.  The rules of a request's pack.                       *)
Rules(r) == Packs[r.pack]

(* The effects of the rules among the first k that match.                   *)
Effects(r, k) == {Rules(r)[j].effect : j \in {i \in Matched(r) : i <= k}}

(* The decision that the effects of matched rules make, in whatever order.  *)
Outweighs(effects) ==
  IF "deny" \in effects THEN "deny"
  ELSE IF "conditional" \in effects THEN "conditional" ELSE "allow"

(* A pack's rules are numbered from 1.                                      *)
LEMMA PacksAreSequences ==
  ASSUME NEW p \in DOMAIN Packs
  PROVE  Len(Packs[p]) \in Nat /\ DOMAIN Packs[p] = 1..Len(Packs[p])
<1> USE DEF Packs
<1>1. p \in {"finance_vendor_change_v1", "generic", "finance_vendor_change_indepora_v1",
             "indepora_sandbox_v1", "banking", "healthcare", "finops_demo"}
  OBVIOUS
<1>2. CASE p = "finance_vendor_change_v1"
  BY <1>2 DEF FinanceVendorChangeV1
<1>3. CASE p = "generic"
  BY <1>3 DEF Generic
<1>4. CASE p = "finance_vendor_change_indepora_v1"
  BY <1>4 DEF FinanceVendorChangeIndeporaV1
<1>5. CASE p = "indepora_sandbox_v1"
  BY <1>5 DEF IndeporaSandboxV1
<1>6. CASE p = "banking"
  BY <1>6 DEF Banking
<1>7. CASE p = "healthcare"
  BY <1>7 DEF Healthcare
<1>8. CASE p = "finops_demo"
  BY <1>8 DEF FinopsDemo
<1> QED
  BY <1>1, <1>2, <1>3, <1>4, <1>5, <1>6, <1>7, <1>8

(* One more rule weighs in as Weigh says.                                   *)
LEMMA OutweighsStep ==
  ASSUME NEW r, r.pack \in DOMAIN Packs, NEW k \in 1..Len(Rules(r))
  PROVE  Outweighs(Effects(r, k)) =
           IF k \in Matched(r) THEN Weigh(Outweighs(Effects(r, k - 1)), Rules(r)[k])
           ELSE Outweighs(Effects(r, k - 1))
<1>1. /\ Matched(r) \subseteq 1..Len(Rules(r)) /\ Len(Rules(r)) \in Nat
  BY PacksAreSequences DEF Matched, Rules
<1>2. CASE k \in Matched(r)
  <2>1. Effects(r, k) = Effects(r, k - 1) \cup {Rules(r)[k].effect}
    <3>1. {i \in Matched(r) : i <= k} = {i \in Matched(r) : i <= k - 1} \cup {k}
      BY <1>1, <1>2
    <3> QED
      BY <3>1 DEF Effects
  <2> QED
    BY <1>2, <2>1 DEF Outweighs, Weigh
<1>3. CASE k \notin Matched(r)
  <2>1. {i \in Matched(r) : i <= k} = {i \in Matched(r) : i <= k - 1}
    BY <1>1, <1>3
  <2> QED
    BY <1>3, <2>1 DEF Effects
<1> QED
  BY <1>2, <1>3

(* The recursive definition of DecisionAfter has a solution, so it is one.  *)
LEMMA DecisionAfterRules ==
  ASSUME NEW r, r.pack \in DOMAIN Packs
  PROVE  DecisionAfter(r) = [k \in 0..Len(Rules(r)) |->
           IF k = 0 THEN "allow"
           ELSE IF k \in Matched(r) THEN Weigh(DecisionAfter(r)[k - 1], Rules(r)[k])
           ELSE DecisionAfter(r)[k - 1]]
<1> DEFINE n == Len(Rules(r))
           body(g, k) == IF k = 0 THEN "allow"
                         ELSE IF k \in Matched(r) THEN Weigh(g[k - 1], Rules(r)[k])
                         ELSE g[k - 1]
           F == [k \in 0..n |-> Outweighs(Effects(r, k))]
<1>0. n \in Nat
  BY PacksAreSequences DEF Rules
<1>1. F = [k \in 0..n |-> body(F, k)]
  <2> SUFFICES ASSUME NEW k \in 0..n PROVE Outweighs(Effects(r, k)) = body(F, k)
    OBVIOUS
  <2>1. CASE k = 0
    <3>1. Matched(r) \subseteq 1..n
      BY PacksAreSequences DEF Matched, Rules
    <3>2. Effects(r, 0) = {}
      BY <1>0, <3>1 DEF Effects
    <3> QED
      BY <2>1, <3>2 DEF Outweighs
  <2>2. CASE k # 0
    <3>1. k \in 1..n /\ k - 1 \in 0..n
      BY <1>0, <2>2
    <3>2. F[k - 1] = Outweighs(Effects(r, k - 1))
      BY <3>1
    <3> QED
      BY <2>2, <3>1, <3>2, OutweighsStep
  <2> QED
    BY <2>1, <2>2
<1>2. DecisionAfter(r) = CHOOSE g : g = [k \in 0..n |-> body(g, k)]
  BY DEF DecisionAfter, Rules
<1> QED
  BY <1>1, <1>2

(* The decision after k rules is what their effects make: else there would  *)
(* be a least k where it is not, and the step to it would be wrong.         *)
LEMMA DecisionAfterIs ==
  ASSUME NEW r, r.pack \in DOMAIN Packs
  PROVE  \A k \in 0..Len(Rules(r)) : DecisionAfter(r)[k] = Outweighs(Effects(r, k))
<1> DEFINE n == Len(Rules(r))
           f == DecisionAfter(r)
           T == {k \in 0..n : f[k] # Outweighs(Effects(r, k))}
<1>0. n \in Nat
  BY PacksAreSequences DEF Rules
<1> SUFFICES ASSUME T # {} PROVE FALSE
  OBVIOUS
<1>1. PICK k \in T : \A j \in T : ~(<<j, k>> \in OpToRel(<, Nat))
  <2>1. T \subseteq Nat
    BY <1>0
  <2> QED
    BY <2>1, NatLessThanWellFounded, WFMin
<1>2. \A j \in T : ~(j < k)
  <2>1. ASSUME NEW i \in Nat, NEW j \in Nat, i < j
        PROVE  <<i, j>> \in OpToRel(<, Nat)
    <3>1. <<i, j>> \in Nat \X Nat /\ <<i, j>>[1] < <<i, j>>[2]
      BY <2>1
    <3> QED
      BY <3>1, Zenon DEF OpToRel
  <2>2. T \subseteq Nat
    BY <1>0
  <2> QED
    BY <1>1, <2>1, <2>2
<1>3. CASE k = 0
  <2>1. f[0] = "allow"
    BY <1>0, DecisionAfterRules
  <2>2. Effects(r, 0) = {}
    BY PacksAreSequences DEF Effects, Matched, Rules
  <2> QED
    BY <1>3, <2>1, <2>2 DEF Outweighs
<1>4. CASE k # 0
  <2>1. k \in 1..n /\ k - 1 \in 0..n /\ k - 1 < k
    BY <1>0, <1>4
  <2>2. f[k - 1] = Outweighs(Effects(r, k - 1))
    BY <1>2, <2>1
  <2>3. f[k] = IF k \in Matched(r) THEN Weigh(f[k - 1], Rules(r)[k]) ELSE f[k - 1]
    BY <1>4, <2>1, DecisionAfterRules
  <2> QED
    BY <2>1, <2>2, <2>3, OutweighsStep
<1> QED
  BY <1>3, <1>4

(* A request that is not refused gets what all the matched effects make.    *)
LEMMA EvaluateOutweighs ==
  ASSUME NEW r, ~Refused(r)
  PROVE  PolicyEvaluate(r) = Outweighs({Rules(r)[k].effect : k \in Matched(r)})
<1> DEFINE n == Len(Rules(r))
<1>1. r.pack \in DOMAIN Packs
  BY DEF Refused
<1>2. n \in Nat /\ Matched(r) \subseteq 1..n
  BY <1>1, PacksAreSequences DEF Matched, Rules
<1>3. {i \in Matched(r) : i <= n} = Matched(r)
  BY <1>2
<1>4. PolicyEvaluate(r) = DecisionAfter(r)[n]
  BY DEF PolicyEvaluate, Rules
<1> QED
  BY <1>1, <1>2, <1>3, <1>4, DecisionAfterIs DEF Effects

(* A fact of a request, as the rules read it.                               *)
Absent(b, f) == b.payload[f] = None
FactTrue(b, f) == PyEqual(b.payload[f], Bool(TRUE))
FactFalse(b, f) == PyEqual(b.payload[f], Bool(FALSE))

(* What each kind of condition asks of a request.                           *)
ConditionsAt(r) ==
  /\ \A a : Holds(ActionIs(a), r) <=> r.action_type = a
  /\ \A c : Holds(ClassIs(c), r) <=> r.consequence_class = c
  /\ Holds(NoPurpose, r) <=> r.purpose = None
  /\ Holds(NoJurisdiction, r) <=> r.jurisdiction = None
  /\ \A f : Holds(Missing(f), r) <=> r.payload[f] = None
  /\ \A f : Holds(IsTrue(f), r) <=> FactTrue(r, f)
  /\ \A f : Holds(IsFalse(f), r) <=> FactFalse(r, f)
  /\ \A f, i : Holds(Above(f, i), r) <=> GreaterThan(r.payload[f], i)
  /\ \A f, i : Holds(Below(f, i), r) <=> LessThan(r.payload[f], i)
  /\ Holds(NoRecord, r) <=> r.assurance = None
  /\ \A s : Holds(Standing(s), r)
                <=> r.assurance # None /\ r.assurance.standing = s
  /\ \A f, i : Holds(RecordAbove(f, i), r)
                   <=> r.assurance # None /\ r.assurance[f] > i
  /\ \A f, i : Holds(RecordBelow(f, i), r)
                   <=> r.assurance # None /\ r.assurance[f] < i

LEMMA ConditionsHold ==
  ASSUME NEW r
  PROVE  ConditionsAt(r)
<1>1. \A a : Holds(ActionIs(a), r) <=> r.action_type = a
  BY DEF Holds, ActionIs
<1>2. \A c : Holds(ClassIs(c), r) <=> r.consequence_class = c
  BY DEF Holds, ClassIs
<1>3. Holds(NoPurpose, r) <=> r.purpose = None
  BY DEF Holds, NoPurpose
<1>4. Holds(NoJurisdiction, r) <=> r.jurisdiction = None
  BY DEF Holds, NoJurisdiction
<1>5. \A f : Holds(Missing(f), r) <=> r.payload[f] = None
  BY DEF Holds, Missing
<1>6. \A f, v : Holds(Equals(f, v), r) <=> PyEqual(r.payload[f], v)
  BY DEF Holds, Equals
<1>13. \A f : Holds(IsTrue(f), r) <=> FactTrue(r, f)
  BY <1>6, Zenon DEF IsTrue, FactTrue
<1>14. \A f : Holds(IsFalse(f), r) <=> FactFalse(r, f)
  BY <1>6, Zenon DEF IsFalse, FactFalse
<1>7. \A f, i : Holds(Above(f, i), r) <=> GreaterThan(r.payload[f], i)
  BY DEF Holds, Above
<1>8. \A f, i : Holds(Below(f, i), r) <=> LessThan(r.payload[f], i)
  BY DEF Holds, Below
<1>9. Holds(NoRecord, r) <=> r.assurance = None
  BY DEF Holds, NoRecord
<1>10. \A s : Holds(Standing(s), r) <=> r.assurance # None
                                        /\ r.assurance.standing = s
  BY DEF Holds, Standing
<1>11. \A f, i : Holds(RecordAbove(f, i), r) <=> r.assurance # None
                                                 /\ r.assurance[f] > i
  BY DEF Holds, RecordAbove
<1>12. \A f, i : Holds(RecordBelow(f, i), r) <=> r.assurance # None
                                                 /\ r.assurance[f] < i
  BY DEF Holds, RecordBelow
<1> QED
  BY <1>1, <1>2, <1>3, <1>4, <1>5, <1>13, <1>14, <1>7, <1>8, <1>9, <1>10, <1>11, <1>12
     DEF ConditionsAt

(* A "when" block holds when each of its conditions does.                   *)
ReadsAs(b) ==
  /\ \A c : ConditionMatches(<<c>>, b) <=> Holds(c, b)
  /\ \A c, d : ConditionMatches(<<c, d>>, b) <=> Holds(c, b) /\ Holds(d, b)
  /\ \A c, d, e : ConditionMatches(<<c, d, e>>, b)
                    <=> Holds(c, b) /\ Holds(d, b) /\ Holds(e, b)

LEMMA WhenMatches ==
  ASSUME NEW r
  PROVE  ReadsAs(r)
<1>1. \A c : ConditionMatches(<<c>>, r) <=> Holds(c, r)
  BY DEF ConditionMatches
<1>2. \A c, d : ConditionMatches(<<c, d>>, r) <=> Holds(c, r) /\ Holds(d, r)
  BY DEF ConditionMatches
<1>3. \A c, d, e : ConditionMatches(<<c, d, e>>, r)
                    <=> Holds(c, r) /\ Holds(d, r) /\ Holds(e, r)
  BY DEF ConditionMatches
<1> QED
  BY <1>1, <1>2, <1>3 DEF ReadsAs

(* The k-th rule of the request's pack matches it, with this effect.        *)
Fires(r, k, effect) ==
  Rules(r)[k].effect = effect /\ ConditionMatches(Rules(r)[k].when, Bound(r))

Denies(r) == \E k \in 1..Len(Rules(r)) : Fires(r, k, "deny")
Reviews(r) == \E k \in 1..Len(Rules(r)) : Fires(r, k, "conditional")

(* The decision, without an order of rules.                                 *)
LEMMA EvaluateDecides ==
  ASSUME NEW r, ~Refused(r)
  PROVE  PolicyEvaluate(r) = IF Denies(r) THEN "deny"
                             ELSE IF Reviews(r) THEN "conditional" ELSE "allow"
<1> DEFINE effects == {Rules(r)[k].effect : k \in Matched(r)}
<1>1. r.pack \in DOMAIN Packs
  BY DEF Refused
<1>2. Matched(r) = {k \in 1..Len(Rules(r)) : ConditionMatches(Rules(r)[k].when, Bound(r))}
  BY <1>1, PacksAreSequences DEF Matched, Rules
<1>3. /\ "deny" \in effects <=> Denies(r)
      /\ "conditional" \in effects <=> Reviews(r)
  BY <1>2 DEF Denies, Reviews, Fires
<1> QED
  BY <1>3, EvaluateOutweighs DEF Outweighs

-----------------------------------------------------------------------------
(* The packs, each as what denies an action and what has it reviewed, read  *)
(* off its rules one by one.                                                *)
NotApproved(b) == FactFalse(b, "dual_approval") \/ Absent(b, "dual_approval")

(* policy_packs/finance_vendor_change_v1.json                               *)
FinanceVendorChangeDenies(b) ==
  \/ /\ b.consequence_class = "vendor_master_change"
     /\ \/ \E f \in {"callback_verified", "callback_channel_preexisting",
                     "reviewer_id", "new_beneficiary", "sender_domain_match"} :
             Absent(b, f)
        \/ \E f \in {"callback_verified", "callback_channel_preexisting"} :
             FactFalse(b, f)
        \/ FactTrue(b, "new_beneficiary") /\ NotApproved(b)
  \/ /\ b.consequence_class = "financial_transfer"
     /\ b.purpose = None \/ Absent(b, "days_since_bank_change")
  \/ /\ b.action_type = "initiate_wire_transfer"
     /\ \/ GreaterThan(b.payload["amount"], 5000000)
        \/ GreaterThan(b.payload["amount"], 100000) /\ NotApproved(b)

FinanceVendorChangeReviews(b) ==
  \/ /\ b.consequence_class = "vendor_master_change"
     /\ FactFalse(b, "sender_domain_match")
  \/ /\ b.consequence_class = "financial_transfer"
     /\ LessThan(b.payload["days_since_bank_change"], 3)
  \/ /\ b.action_type = "initiate_ach_payment"
     /\ GreaterThan(b.payload["amount"], 250000)

LEMMA FinanceVendorChangeRules ==
  ASSUME NEW r, r.pack = "finance_vendor_change_v1"
  PROVE  /\ Denies(r) <=> FinanceVendorChangeDenies(Bound(r))
         /\ Reviews(r) <=> FinanceVendorChangeReviews(Bound(r))
<1> DEFINE b == Bound(r)
           M(when) == ConditionMatches(when, b)
           R == FinanceVendorChangeV1
           D(k) == R[k].effect = "deny" /\ M(R[k].when)
           V(k) == R[k].effect = "conditional" /\ M(R[k].when)
<1>1. Rules(r) = R
  BY DEF Rules, Packs
<1>2. /\ Len(R) = 17
      /\ R[1] = Deny(<<VendorChange, Missing("callback_verified")>>)
      /\ R[2] = Deny(<<VendorChange, IsFalse("callback_verified")>>)
      /\ R[3] = Deny(<<VendorChange, Missing("callback_channel_preexisting")>>)
      /\ R[4] = Deny(<<VendorChange, IsFalse("callback_channel_preexisting")>>)
      /\ R[5] = Deny(<<VendorChange, Missing("reviewer_id")>>)
      /\ R[6] = Deny(<<VendorChange, Missing("new_beneficiary")>>)
      /\ R[7] = Deny(<<VendorChange, IsTrue("new_beneficiary"), IsFalse("dual_approval")>>)
      /\ R[8] = Deny(<<VendorChange, IsTrue("new_beneficiary"), Missing("dual_approval")>>)
      /\ R[9] = Deny(<<VendorChange, Missing("sender_domain_match")>>)
      /\ R[10] = Review(<<VendorChange, IsFalse("sender_domain_match")>>)
      /\ R[11] = Deny(<<Payment, NoPurpose>>)
      /\ R[12] = Deny(<<Wire, Above("amount", 5000000)>>)
      /\ R[13] = Deny(<<Payment, Missing("days_since_bank_change")>>)
      /\ R[14] = Review(<<Payment, Below("days_since_bank_change", 3)>>)
      /\ R[15] = Deny(<<Wire, Above("amount", 100000), IsFalse("dual_approval")>>)
      /\ R[16] = Deny(<<Wire, Above("amount", 100000), Missing("dual_approval")>>)
      /\ R[17] = Review(<<ActionIs("initiate_ach_payment"), Above("amount", 250000)>>)
  BY SMTT(30) DEF FinanceVendorChangeV1
<1>3. ASSUME NEW when
      PROVE  /\ Deny(when).effect = "deny" /\ Deny(when).when = when
             /\ Review(when).effect = "conditional" /\ Review(when).when = when
             /\ Pass(when).effect = "allow"
  BY DEF Deny, Review, Pass
<1>4. /\ Denies(r) <=> \E k \in 1..17 : D(k)
      /\ Reviews(r) <=> \E k \in 1..17 : V(k)
  BY <1>1, <1>2 DEF Denies, Reviews, Fires
<1> HIDE DEF M, b, R
<1>5. /\ (\E k \in 1..17 : D(k)) <=>
           \/ M(<<VendorChange, Missing("callback_verified")>>)
           \/ M(<<VendorChange, IsFalse("callback_verified")>>)
           \/ M(<<VendorChange, Missing("callback_channel_preexisting")>>)
           \/ M(<<VendorChange, IsFalse("callback_channel_preexisting")>>)
           \/ M(<<VendorChange, Missing("reviewer_id")>>)
           \/ M(<<VendorChange, Missing("new_beneficiary")>>)
           \/ M(<<VendorChange, IsTrue("new_beneficiary"), IsFalse("dual_approval")>>)
           \/ M(<<VendorChange, IsTrue("new_beneficiary"), Missing("dual_approval")>>)
           \/ M(<<VendorChange, Missing("sender_domain_match")>>)
           \/ M(<<Payment, NoPurpose>>)
           \/ M(<<Wire, Above("amount", 5000000)>>)
           \/ M(<<Payment, Missing("days_since_bank_change")>>)
           \/ M(<<Wire, Above("amount", 100000), IsFalse("dual_approval")>>)
           \/ M(<<Wire, Above("amount", 100000), Missing("dual_approval")>>)
      /\ (\E k \in 1..17 : V(k)) <=>
           \/ M(<<VendorChange, IsFalse("sender_domain_match")>>)
           \/ M(<<Payment, Below("days_since_bank_change", 3)>>)
           \/ M(<<ActionIs("initiate_ach_payment"), Above("amount", 250000)>>)
  BY <1>2, <1>3, SMTT(30)
<1>6. ReadsAs(b)
  BY WhenMatches
<1>7. ConditionsAt(b)
  BY ConditionsHold
<1>8. /\ M(<<VendorChange, Missing("callback_verified")>>)
           <=> b.consequence_class = "vendor_master_change"
               /\ Absent(b, "callback_verified")
      /\ M(<<VendorChange, IsFalse("callback_verified")>>)
           <=> b.consequence_class = "vendor_master_change"
               /\ FactFalse(b, "callback_verified")
      /\ M(<<VendorChange, Missing("callback_channel_preexisting")>>)
           <=> b.consequence_class = "vendor_master_change"
               /\ Absent(b, "callback_channel_preexisting")
      /\ M(<<VendorChange, IsFalse("callback_channel_preexisting")>>)
           <=> b.consequence_class = "vendor_master_change"
               /\ FactFalse(b, "callback_channel_preexisting")
      /\ M(<<VendorChange, Missing("reviewer_id")>>)
           <=> b.consequence_class = "vendor_master_change"
               /\ Absent(b, "reviewer_id")
      /\ M(<<VendorChange, Missing("new_beneficiary")>>)
           <=> b.consequence_class = "vendor_master_change"
               /\ Absent(b, "new_beneficiary")
      /\ M(<<VendorChange, IsTrue("new_beneficiary"), IsFalse("dual_approval")>>)
           <=> b.consequence_class = "vendor_master_change"
               /\ FactTrue(b, "new_beneficiary") /\ FactFalse(b, "dual_approval")
      /\ M(<<VendorChange, IsTrue("new_beneficiary"), Missing("dual_approval")>>)
           <=> b.consequence_class = "vendor_master_change"
               /\ FactTrue(b, "new_beneficiary") /\ Absent(b, "dual_approval")
      /\ M(<<VendorChange, Missing("sender_domain_match")>>)
           <=> b.consequence_class = "vendor_master_change"
               /\ Absent(b, "sender_domain_match")
      /\ M(<<Payment, NoPurpose>>)
           <=> b.consequence_class = "financial_transfer" /\ b.purpose = None
      /\ M(<<Wire, Above("amount", 5000000)>>)
           <=> b.action_type = "initiate_wire_transfer"
               /\ GreaterThan(b.payload["amount"], 5000000)
      /\ M(<<Payment, Missing("days_since_bank_change")>>)
           <=> b.consequence_class = "financial_transfer"
               /\ Absent(b, "days_since_bank_change")
      /\ M(<<Wire, Above("amount", 100000), IsFalse("dual_approval")>>)
           <=> b.action_type = "initiate_wire_transfer"
               /\ GreaterThan(b.payload["amount"], 100000)
               /\ FactFalse(b, "dual_approval")
      /\ M(<<Wire, Above("amount", 100000), Missing("dual_approval")>>)
           <=> b.action_type = "initiate_wire_transfer"
               /\ GreaterThan(b.payload["amount"], 100000)
               /\ Absent(b, "dual_approval")
      /\ M(<<VendorChange, IsFalse("sender_domain_match")>>)
           <=> b.consequence_class = "vendor_master_change"
               /\ FactFalse(b, "sender_domain_match")
      /\ M(<<Payment, Below("days_since_bank_change", 3)>>)
           <=> b.consequence_class = "financial_transfer"
               /\ LessThan(b.payload["days_since_bank_change"], 3)
      /\ M(<<ActionIs("initiate_ach_payment"), Above("amount", 250000)>>)
           <=> b.action_type = "initiate_ach_payment"
               /\ GreaterThan(b.payload["amount"], 250000)
  BY <1>6, <1>7, SMTT(30)
     DEF M, ReadsAs, ConditionsAt, Absent, VendorChange, Payment, Wire
<1>9. (\E k \in 1..17 : D(k)) <=> FinanceVendorChangeDenies(b)
  BY <1>5, <1>8, SMT DEF FinanceVendorChangeDenies, NotApproved
<1>10. (\E k \in 1..17 : V(k)) <=> FinanceVendorChangeReviews(b)
  BY <1>5, <1>8, SMT DEF FinanceVendorChangeReviews
<1> QED
  BY <1>4, <1>9, <1>10 DEF b

(* policy_packs/generic.json                                                *)
GenericDenies(b) ==
  \/ b.consequence_class = "financial_transfer" /\ b.purpose = None
  \/ b.action_type = "wire_transfer" /\ GreaterThan(b.payload["amount"], 1000000)

GenericReviews(b) ==
  \/ b.action_type = "wire_transfer" /\ GreaterThan(b.payload["amount"], 50000)
  \/ b.consequence_class = "infra_change"

LEMMA GenericRules ==
  ASSUME NEW r, r.pack = "generic"
  PROVE  /\ Denies(r) <=> GenericDenies(Bound(r))
         /\ Reviews(r) <=> GenericReviews(Bound(r))
<1> DEFINE b == Bound(r)
           M(when) == ConditionMatches(when, b)
           R == Generic
           D(k) == R[k].effect = "deny" /\ M(R[k].when)
           V(k) == R[k].effect = "conditional" /\ M(R[k].when)
<1>1. Rules(r) = R
  BY DEF Rules, Packs
<1>2. /\ Len(R) = 5
      /\ R[1] = Deny(<<Payment, NoPurpose>>)
      /\ R[2] = Deny(<<AnyWire, Above("amount", 1000000)>>)
      /\ R[3] = Review(<<AnyWire, Above("amount", 50000)>>)
      /\ R[4] = Review(<<ClassIs("infra_change")>>)
      /\ R[5] = Pass(<<ClassIs("low_risk")>>)
  BY SMTT(30) DEF Generic
<1>3. ASSUME NEW when
      PROVE  /\ Deny(when).effect = "deny" /\ Deny(when).when = when
             /\ Review(when).effect = "conditional" /\ Review(when).when = when
             /\ Pass(when).effect = "allow"
  BY DEF Deny, Review, Pass
<1>4. /\ Denies(r) <=> \E k \in 1..5 : D(k)
      /\ Reviews(r) <=> \E k \in 1..5 : V(k)
  BY <1>1, <1>2 DEF Denies, Reviews, Fires
<1> HIDE DEF M, b, R
<1>5. /\ (\E k \in 1..5 : D(k)) <=>
           \/ M(<<Payment, NoPurpose>>)
           \/ M(<<AnyWire, Above("amount", 1000000)>>)
      /\ (\E k \in 1..5 : V(k)) <=>
           \/ M(<<AnyWire, Above("amount", 50000)>>)
           \/ M(<<ClassIs("infra_change")>>)
  BY <1>2, <1>3, SMTT(30)
<1>6. ReadsAs(b)
  BY WhenMatches
<1>7. ConditionsAt(b)
  BY ConditionsHold
<1>8. /\ M(<<Payment, NoPurpose>>)
           <=> b.consequence_class = "financial_transfer" /\ b.purpose = None
      /\ M(<<AnyWire, Above("amount", 1000000)>>)
           <=> b.action_type = "wire_transfer"
               /\ GreaterThan(b.payload["amount"], 1000000)
      /\ M(<<AnyWire, Above("amount", 50000)>>)
           <=> b.action_type = "wire_transfer"
               /\ GreaterThan(b.payload["amount"], 50000)
      /\ M(<<ClassIs("infra_change")>>)
           <=> b.consequence_class = "infra_change"
  BY <1>6, <1>7, SMTT(30)
     DEF M, ReadsAs, ConditionsAt, Absent, Payment, AnyWire
<1>9. (\E k \in 1..5 : D(k)) <=> GenericDenies(b)
  BY <1>5, <1>8, SMT DEF GenericDenies, NotApproved
<1>10. (\E k \in 1..5 : V(k)) <=> GenericReviews(b)
  BY <1>5, <1>8, SMT DEF GenericReviews
<1> QED
  BY <1>4, <1>9, <1>10 DEF b

(* policy_packs/finance_vendor_change_indepora_v1.json                      *)
IndeporaDenies(b) ==
  /\ b.action_type = "update_vendor_bank_details"
  /\ \/ b.assurance = None
     \/ /\ b.assurance # None
        /\ \/ b.assurance.standing \in {"insufficient", "unknown", "conflicted"}
           \/ b.assurance["unknown_relationship_count"] > 0
           \/ b.assurance["candidate_origin_count"] < 3

IndeporaReviews(b) == FALSE

LEMMA IndeporaRules ==
  ASSUME NEW r, r.pack = "finance_vendor_change_indepora_v1"
  PROVE  /\ Denies(r) <=> IndeporaDenies(Bound(r))
         /\ Reviews(r) <=> IndeporaReviews(Bound(r))
<1> DEFINE b == Bound(r)
           M(when) == ConditionMatches(when, b)
           R == FinanceVendorChangeIndeporaV1
           D(k) == R[k].effect = "deny" /\ M(R[k].when)
           V(k) == R[k].effect = "conditional" /\ M(R[k].when)
<1>1. Rules(r) = R
  BY DEF Rules, Packs
<1>2. /\ Len(R) = 6
      /\ R[1] = Deny(<<Update, NoRecord>>)
      /\ R[2] = Deny(<<Update, Standing("insufficient")>>)
      /\ R[3] = Deny(<<Update, Standing("unknown")>>)
      /\ R[4] = Deny(<<Update, Standing("conflicted")>>)
      /\ R[5] = Deny(<<Update, RecordAbove("unknown_relationship_count", 0)>>)
      /\ R[6] = Deny(<<Update, RecordBelow("candidate_origin_count", 3)>>)
  BY SMTT(30) DEF FinanceVendorChangeIndeporaV1
<1>3. ASSUME NEW when
      PROVE  /\ Deny(when).effect = "deny" /\ Deny(when).when = when
             /\ Review(when).effect = "conditional" /\ Review(when).when = when
             /\ Pass(when).effect = "allow"
  BY DEF Deny, Review, Pass
<1>4. /\ Denies(r) <=> \E k \in 1..6 : D(k)
      /\ Reviews(r) <=> \E k \in 1..6 : V(k)
  BY <1>1, <1>2 DEF Denies, Reviews, Fires
<1> HIDE DEF M, b, R
<1>5. /\ (\E k \in 1..6 : D(k)) <=>
           \/ M(<<Update, NoRecord>>)
           \/ M(<<Update, Standing("insufficient")>>)
           \/ M(<<Update, Standing("unknown")>>)
           \/ M(<<Update, Standing("conflicted")>>)
           \/ M(<<Update, RecordAbove("unknown_relationship_count", 0)>>)
           \/ M(<<Update, RecordBelow("candidate_origin_count", 3)>>)
      /\ ~\E k \in 1..6 : V(k)
  BY <1>2, <1>3, SMTT(30)
<1>6. ReadsAs(b)
  BY WhenMatches
<1>7. ConditionsAt(b)
  BY ConditionsHold
<1>8. /\ M(<<Update, NoRecord>>)
           <=> b.action_type = "update_vendor_bank_details" /\ b.assurance = None
      /\ M(<<Update, Standing("insufficient")>>)
           <=> b.action_type = "update_vendor_bank_details" /\ b.assurance # None
               /\ b.assurance.standing = "insufficient"
      /\ M(<<Update, Standing("unknown")>>)
           <=> b.action_type = "update_vendor_bank_details" /\ b.assurance # None
               /\ b.assurance.standing = "unknown"
      /\ M(<<Update, Standing("conflicted")>>)
           <=> b.action_type = "update_vendor_bank_details" /\ b.assurance # None
               /\ b.assurance.standing = "conflicted"
      /\ M(<<Update, RecordAbove("unknown_relationship_count", 0)>>)
           <=> b.action_type = "update_vendor_bank_details" /\ b.assurance # None
               /\ b.assurance["unknown_relationship_count"] > 0
      /\ M(<<Update, RecordBelow("candidate_origin_count", 3)>>)
           <=> b.action_type = "update_vendor_bank_details" /\ b.assurance # None
               /\ b.assurance["candidate_origin_count"] < 3
  BY <1>6, <1>7, SMTT(30)
     DEF M, ReadsAs, ConditionsAt, Absent, Update
<1>9. (\E k \in 1..6 : D(k)) <=> IndeporaDenies(b)
  BY <1>5, <1>8, SMT DEF IndeporaDenies, NotApproved
<1>10. (\E k \in 1..6 : V(k)) <=> IndeporaReviews(b)
  BY <1>5, <1>8, SMT DEF IndeporaReviews
<1> QED
  BY <1>4, <1>9, <1>10 DEF b

(* policy_packs/indepora_sandbox_v1.json                                    *)
SandboxDenies(b) ==
  \/ Absent(b, "sandbox_only") \/ FactFalse(b, "sandbox_only")
  \/ b.assurance = None
  \/ /\ b.assurance # None
     /\ \/ b.assurance["candidate_origin_count"] < 2
        \/ b.assurance["conflict_count"] > 0

SandboxReviews(b) ==
  b.assurance # None /\ b.assurance["unknown_relationship_count"] > 0

LEMMA SandboxRules ==
  ASSUME NEW r, r.pack = "indepora_sandbox_v1"
  PROVE  /\ Denies(r) <=> SandboxDenies(Bound(r))
         /\ Reviews(r) <=> SandboxReviews(Bound(r))
<1> DEFINE b == Bound(r)
           M(when) == ConditionMatches(when, b)
           R == IndeporaSandboxV1
           D(k) == R[k].effect = "deny" /\ M(R[k].when)
           V(k) == R[k].effect = "conditional" /\ M(R[k].when)
<1>1. Rules(r) = R
  BY DEF Rules, Packs
<1>2. /\ Len(R) = 7
      /\ R[1] = Deny(<<NoRecord>>)
      /\ R[2] = Deny(<<Missing("sandbox_only")>>)
      /\ R[3] = Deny(<<IsFalse("sandbox_only")>>)
      /\ R[4] = Deny(<<RecordBelow("candidate_origin_count", 2)>>)
      /\ R[5] = Deny(<<RecordAbove("conflict_count", 0)>>)
      /\ R[6] = Review(<<RecordAbove("unknown_relationship_count", 0)>>)
      /\ R[7].effect = "allow"
  BY SMTT(30) DEF IndeporaSandboxV1, Pass
<1>3. ASSUME NEW when
      PROVE  /\ Deny(when).effect = "deny" /\ Deny(when).when = when
             /\ Review(when).effect = "conditional" /\ Review(when).when = when
             /\ Pass(when).effect = "allow"
  BY DEF Deny, Review, Pass
<1>4. /\ Denies(r) <=> \E k \in 1..7 : D(k)
      /\ Reviews(r) <=> \E k \in 1..7 : V(k)
  BY <1>1, <1>2 DEF Denies, Reviews, Fires
<1> HIDE DEF M, b, R
<1>5. /\ (\E k \in 1..7 : D(k)) <=>
           \/ M(<<NoRecord>>)
           \/ M(<<Missing("sandbox_only")>>)
           \/ M(<<IsFalse("sandbox_only")>>)
           \/ M(<<RecordBelow("candidate_origin_count", 2)>>)
           \/ M(<<RecordAbove("conflict_count", 0)>>)
      /\ (\E k \in 1..7 : V(k)) <=>
           \/ M(<<RecordAbove("unknown_relationship_count", 0)>>)
  BY <1>2, <1>3, SMTT(30)
<1>6. ReadsAs(b)
  BY WhenMatches
<1>7. ConditionsAt(b)
  BY ConditionsHold
<1>8. /\ M(<<NoRecord>>)
           <=> b.assurance = None
      /\ M(<<Missing("sandbox_only")>>)
           <=> Absent(b, "sandbox_only")
      /\ M(<<IsFalse("sandbox_only")>>)
           <=> FactFalse(b, "sandbox_only")
      /\ M(<<RecordBelow("candidate_origin_count", 2)>>)
           <=> b.assurance # None /\ b.assurance["candidate_origin_count"] < 2
      /\ M(<<RecordAbove("conflict_count", 0)>>)
           <=> b.assurance # None /\ b.assurance["conflict_count"] > 0
      /\ M(<<RecordAbove("unknown_relationship_count", 0)>>)
           <=> b.assurance # None /\ b.assurance["unknown_relationship_count"] > 0
  BY <1>6, <1>7, SMTT(30)
     DEF M, ReadsAs, ConditionsAt, Absent
<1>9. (\E k \in 1..7 : D(k)) <=> SandboxDenies(b)
  BY <1>5, <1>8, SMT DEF SandboxDenies, NotApproved
<1>10. (\E k \in 1..7 : V(k)) <=> SandboxReviews(b)
  BY <1>5, <1>8, SMT DEF SandboxReviews
<1> QED
  BY <1>4, <1>9, <1>10 DEF b

(* policy_packs/healthcare.json                                             *)
HealthcareDenies(b) ==
  \/ b.consequence_class = "health_record_access" /\ b.purpose = None
  \/ b.action_type = "record_transfer" /\ b.jurisdiction = None

HealthcareReviews(b) ==
  b.action_type = "bulk_record_export"

LEMMA HealthcareRules ==
  ASSUME NEW r, r.pack = "healthcare"
  PROVE  /\ Denies(r) <=> HealthcareDenies(Bound(r))
         /\ Reviews(r) <=> HealthcareReviews(Bound(r))
<1> DEFINE b == Bound(r)
           M(when) == ConditionMatches(when, b)
           R == Healthcare
           D(k) == R[k].effect = "deny" /\ M(R[k].when)
           V(k) == R[k].effect = "conditional" /\ M(R[k].when)
<1>1. Rules(r) = R
  BY DEF Rules, Packs
<1>2. /\ Len(R) = 3
      /\ R[1] = Deny(<<ClassIs("health_record_access"), NoPurpose>>)
      /\ R[2] = Review(<<ActionIs("bulk_record_export")>>)
      /\ R[3] = Deny(<<ActionIs("record_transfer"), NoJurisdiction>>)
  BY SMTT(30) DEF Healthcare
<1>3. ASSUME NEW when
      PROVE  /\ Deny(when).effect = "deny" /\ Deny(when).when = when
             /\ Review(when).effect = "conditional" /\ Review(when).when = when
             /\ Pass(when).effect = "allow"
  BY DEF Deny, Review, Pass
<1>4. /\ Denies(r) <=> \E k \in 1..3 : D(k)
      /\ Reviews(r) <=> \E k \in 1..3 : V(k)
  BY <1>1, <1>2 DEF Denies, Reviews, Fires
<1> HIDE DEF M, b, R
<1>5. /\ (\E k \in 1..3 : D(k)) <=>
           \/ M(<<ClassIs("health_record_access"), NoPurpose>>)
           \/ M(<<ActionIs("record_transfer"), NoJurisdiction>>)
      /\ (\E k \in 1..3 : V(k)) <=>
           \/ M(<<ActionIs("bulk_record_export")>>)
  BY <1>2, <1>3, SMTT(30)
<1>6. ReadsAs(b)
  BY WhenMatches
<1>7. ConditionsAt(b)
  BY ConditionsHold
<1>8. /\ M(<<ClassIs("health_record_access"), NoPurpose>>)
           <=> b.consequence_class = "health_record_access" /\ b.purpose = None
      /\ M(<<ActionIs("record_transfer"), NoJurisdiction>>)
           <=> b.action_type = "record_transfer" /\ b.jurisdiction = None
      /\ M(<<ActionIs("bulk_record_export")>>)
           <=> b.action_type = "bulk_record_export"
  BY <1>6, <1>7, SMTT(30)
     DEF M, ReadsAs, ConditionsAt, Absent
<1>9. (\E k \in 1..3 : D(k)) <=> HealthcareDenies(b)
  BY <1>5, <1>8, SMT DEF HealthcareDenies, NotApproved
<1>10. (\E k \in 1..3 : V(k)) <=> HealthcareReviews(b)
  BY <1>5, <1>8, SMT DEF HealthcareReviews
<1> QED
  BY <1>4, <1>9, <1>10 DEF b

-----------------------------------------------------------------------------
(* Binding a record changes nothing else of the request.                    *)
LEMMA BoundKeeps ==
  ASSUME NEW r \in PolicyRequest
  PROVE  /\ Bound(r).payload = r.payload
         /\ Bound(r).consequence_class = r.consequence_class
         /\ Bound(r).action_type = r.action_type
         /\ Bound(r).purpose = r.purpose /\ Bound(r).jurisdiction = r.jurisdiction
         /\ Bound(r).assurance =
              IF r.record = None THEN r.assurance ELSE VerifyAndBind(r.record)
  BY DEF Bound, PolicyRequest

(* The order of a pack's rules does not matter, for any request.            *)
THEOREM RulesOrderFree == DecisionsSpec => []OrderFree
<1>1. OrderFree
  BY EvaluateOutweighs DEF OrderFree, Outweighs, Rules
<1> QED
  BY <1>1, PTL

(* What the finance pack asks of its two classes, and of wires and ACH      *)
(* payments in whatever class, is there in every request it lets through,   *)
(* whatever else the request holds.                                         *)
THEOREM FinanceFailsClosed == DecisionsSpec => []FailClosed
<1>1. PolicyType => FailClosed
  <2> SUFFICES ASSUME PolicyType, ask.pack = "finance_vendor_change_v1",
                      PolicyEvaluate(ask) # "deny"
               PROVE  FailClosed
    BY SMT DEF FailClosed
  <2> DEFINE notFalse(f) == ask.payload[f] # None /\ ~Holds(IsFalse(f), ask)
  <2>0. /\ ~Refused(ask) /\ ~Denies(ask)
        /\ Reviews(ask) => PolicyEvaluate(ask) = "conditional"
    BY EvaluateDecides DEF PolicyEvaluate
  <2>1. /\ ~FinanceVendorChangeDenies(Bound(ask))
        /\ FinanceVendorChangeReviews(Bound(ask))
             => PolicyEvaluate(ask) = "conditional"
    BY <2>0, FinanceVendorChangeRules
  <2>2. /\ Bound(ask).payload = ask.payload /\ Bound(ask).purpose = ask.purpose
        /\ Bound(ask).consequence_class = ask.consequence_class
        /\ Bound(ask).action_type = ask.action_type
    BY BoundKeeps DEF PolicyType
  <2>3. /\ \A f : Absent(Bound(ask), f) <=> ask.payload[f] = None
        /\ \A f : FactTrue(Bound(ask), f) <=> Holds(IsTrue(f), ask)
        /\ \A f : FactFalse(Bound(ask), f) <=> Holds(IsFalse(f), ask)
    BY <2>2, ConditionsHold, Zenon DEF Absent, FactTrue, FactFalse, ConditionsAt
  <2>4. ask.consequence_class = "vendor_master_change" =>
          /\ notFalse("callback_verified")
          /\ notFalse("callback_channel_preexisting")
          /\ ask.payload["reviewer_id"] # None
          /\ ask.payload["sender_domain_match"] # None
          /\ ask.payload["new_beneficiary"] # None
          /\ Holds(IsTrue("new_beneficiary"), ask) => notFalse("dual_approval")
    BY <2>1, <2>2, <2>3, SMT DEF FinanceVendorChangeDenies, NotApproved
  <2>5. ask.consequence_class = "financial_transfer" =>
          ask.purpose # None /\ ask.payload["days_since_bank_change"] # None
    BY <2>1, <2>2, <2>3, SMT DEF FinanceVendorChangeDenies
  <2>6. /\ ask.action_type = "initiate_wire_transfer"
        /\ GreaterThan(ask.payload["amount"], 100000)
        => /\ notFalse("dual_approval")
           /\ ~GreaterThan(ask.payload["amount"], 5000000)
    BY <2>1, <2>2, <2>3, SMT DEF FinanceVendorChangeDenies, NotApproved
  <2>7. /\ ask.action_type = "initiate_ach_payment"
        /\ GreaterThan(ask.payload["amount"], 250000)
        => PolicyEvaluate(ask) = "conditional"
    BY <2>1, <2>2, SMT DEF FinanceVendorChangeReviews
  <2> QED
    BY <2>4, <2>5, <2>6, <2>7, SMT DEF FailClosed
<1> QED
  BY <1>1, TypesInvariant, PTL

(* With the INDEPORA packs what is not denied rests on a genuine record, of *)
(* which each pack looks at the parts EvidenceIsGenuine names and no others.*)
THEOREM EvidenceRestsOnRecords == DecisionsSpec => []EvidenceIsGenuine
<1>1. PolicyType => EvidenceIsGenuine
  <2> SUFFICES ASSUME ask \in PolicyRequest, ~Refused(ask), ~Denies(ask)
               PROVE  EvidenceIsGenuine
    BY EvaluateDecides DEF PolicyType, EvidenceIsGenuine, PolicyEvaluate
  <2> DEFINE b == Bound(ask)
             rec == ask.record
  <2>1. /\ b.payload = ask.payload /\ b.action_type = ask.action_type
        /\ b.assurance = IF rec = None THEN None ELSE VerifyAndBind(rec)
        /\ rec # None => Genuine(rec) /\ rec \in Record
    BY BoundKeeps DEF Refused, PolicyRequest
  <2>2. ASSUME b.assurance # None
        PROVE  /\ rec # None /\ Genuine(rec) /\ rec \in Record
               /\ b.assurance.standing = rec.standing
               /\ b.assurance["candidate_origin_count"] = rec.candidate_origin_count
               /\ rec.candidate_origin_count \in Int
               /\ b.assurance["unknown_relationship_count"] <= 0
                    => rec.unknown_relationship_count \in {None, 0}
               /\ b.assurance["conflict_count"] <= 0
                    => rec.conflict_count \in {None, 0}
    <3>1. rec # None /\ Genuine(rec) /\ rec \in Record
      BY <2>1, <2>2
    <3>2. b.assurance = VerifyAndBind(rec)
      BY <2>1, <3>1
    <3>3. /\ rec.candidate_origin_count \in Int
          /\ rec.unknown_relationship_count \in Int \cup {None}
          /\ rec.conflict_count \in Int \cup {None}
          /\ rec.unknown_relationship_count # None => rec.unknown_relationship_count >= 0
          /\ rec.conflict_count # None => rec.conflict_count >= 0
      BY <3>1 DEF Genuine, Record, Counted
    <3> QED
      BY <3>1, <3>2, <3>3 DEF VerifyAndBind, Stated
  <2>3. b.assurance # None => b.assurance["unknown_relationship_count"] \in Int
                              /\ b.assurance["conflict_count"] \in Int
    <3> SUFFICES ASSUME b.assurance # None
                 PROVE  b.assurance["unknown_relationship_count"] \in Int
                              /\ b.assurance["conflict_count"] \in Int
      OBVIOUS
    <3>1. b.assurance = VerifyAndBind(rec) /\ rec \in Record
      BY <2>1, <2>2
    <3> QED
      BY <3>1 DEF VerifyAndBind, Stated, Record
  <2>4. CASE ask.pack = "finance_vendor_change_indepora_v1"
             /\ ask.action_type = "update_vendor_bank_details"
    <3>1. ~IndeporaDenies(b)
      BY <2>4, IndeporaRules
    <3>2. /\ b.assurance # None
          /\ b.assurance.standing \notin {"insufficient", "unknown", "conflicted"}
          /\ ~(b.assurance["unknown_relationship_count"] > 0)
          /\ ~(b.assurance["candidate_origin_count"] < 3)
      BY <2>1, <2>4, <3>1 DEF IndeporaDenies
    <3> QED
      BY <2>2, <2>3, <2>4, <3>2 DEF EvidenceIsGenuine
  <2>5. CASE ask.pack = "indepora_sandbox_v1"
    <3>1. ~SandboxDenies(b)
      BY <2>5, SandboxRules
    <3>2. /\ b.assurance # None /\ ask.payload["sandbox_only"] # None
          /\ ~(b.assurance["candidate_origin_count"] < 2)
          /\ ~(b.assurance["conflict_count"] > 0)
      BY <2>1, <3>1 DEF SandboxDenies, Absent
    <3>3. PolicyEvaluate(ask) = "allow" => ~SandboxReviews(b)
      BY <2>5, SandboxRules, EvaluateDecides
    <3>4. PolicyEvaluate(ask) = "allow"
            => ~(b.assurance["unknown_relationship_count"] > 0)
      BY <3>2, <3>3 DEF SandboxReviews
    <3> QED
      BY <2>2, <2>3, <2>5, <3>2, <3>4 DEF EvidenceIsGenuine
  <2> QED
    BY <2>4, <2>5 DEF EvidenceIsGenuine
<1> QED
  BY <1>1, TypesInvariant, PTL

-----------------------------------------------------------------------------
(* What a request s prepared after r has at most, and what still speaks     *)
(* against it.                                                              *)
Poorer(r, s) ==
  /\ s.pack = r.pack /\ s.consequence_class = r.consequence_class
  /\ s.action_type = r.action_type /\ s.assurance = r.assurance
  /\ s.purpose \in {r.purpose, None} /\ s.jurisdiction \in {r.jurisdiction, None}
  /\ \A f \in Fields \ {"amount"} : s.payload[f] \in {r.payload[f], None}
  /\ \A i \in Nat : GreaterThan(r.payload["amount"], i) =>
                      GreaterThan(s.payload["amount"], i) \/ AmountRefused(s)
  /\ AmountRefused(r) => AmountRefused(s)
  /\ s.record \in {r.record, None}

(* The adapter's steps make a request poorer.                               *)
LEMMA StepsArePoorer ==
  ASSUME PolicyType, PolicyNext, ~AmountNotRequired
  PROVE  Poorer(ask, ask')
<1> USE DEF PolicyType
<1>1. ASSUME NEW f \in DOMAIN ask.payload, LoseFact(f) PROVE Poorer(ask, ask')
  <2>1. /\ ask.payload \in [Fields -> Value \cup {None}] /\ f \in Fields
        /\ ask' = [ask EXCEPT !.payload = [ask.payload EXCEPT ![f] = None]]
    BY <1>1 DEF LoseFact, PolicyRequest
  <2>2. /\ ask'.payload = [ask.payload EXCEPT ![f] = None]
        /\ ask'.pack = ask.pack /\ ask'.consequence_class = ask.consequence_class
        /\ ask'.action_type = ask.action_type /\ ask'.assurance = ask.assurance
        /\ ask'.purpose = ask.purpose /\ ask'.jurisdiction = ask.jurisdiction
        /\ ask'.record = ask.record
    BY <2>1 DEF PolicyRequest
  <2>3. \A g \in Fields \ {"amount"} : ask'.payload[g] \in {ask.payload[g], None}
    BY <2>1, <2>2
  <2>4. CASE f = "amount"
    <3>1. ask'.payload["amount"] = None /\ ask.payload["amount"] # None
      BY <1>1, <2>1, <2>2, <2>4 DEF LoseFact
    <3>2. AmountRefused(ask')
      BY <2>2, <3>1 DEF AmountRefused, AmountNotRequired
    <3> QED
      BY <2>2, <2>3, <3>2 DEF Poorer
  <2>5. CASE f # "amount"
    <3>1. ask'.payload["amount"] = ask.payload["amount"]
      BY <2>1, <2>2, <2>5 DEF Fields
    <3> QED
      BY <2>2, <2>3, <3>1 DEF Poorer, AmountRefused
  <2> QED
    BY <2>4, <2>5
<1>2. CASE LosePurpose \/ LoseJurisdiction \/ LoseRecord
  <2>1. /\ ask'.payload = ask.payload
        /\ ask'.pack = ask.pack /\ ask'.consequence_class = ask.consequence_class
        /\ ask'.action_type = ask.action_type /\ ask'.assurance = ask.assurance
        /\ ask'.purpose \in {ask.purpose, None}
        /\ ask'.jurisdiction \in {ask.jurisdiction, None}
        /\ ask'.record \in {ask.record, None}
    BY <1>2 DEF LosePurpose, LoseJurisdiction, LoseRecord, PolicyRequest
  <2> QED
    BY <2>1 DEF Poorer, AmountRefused
<1>3. ASSUME NEW i \in Amounts, RaiseAmount(i) PROVE Poorer(ask, ask')
  <2>1. /\ ask.payload \in [Fields -> Value \cup {None}]
        /\ ask' = [ask EXCEPT !.payload = [ask.payload EXCEPT !["amount"] = Num(i)]]
    BY <1>3 DEF RaiseAmount, PolicyRequest
  <2>2. /\ ask'.payload = [ask.payload EXCEPT !["amount"] = Num(i)]
        /\ ask'.pack = ask.pack /\ ask'.consequence_class = ask.consequence_class
        /\ ask'.action_type = ask.action_type /\ ask'.assurance = ask.assurance
        /\ ask'.purpose = ask.purpose /\ ask'.jurisdiction = ask.jurisdiction
        /\ ask'.record = ask.record
    BY <2>1 DEF PolicyRequest
  <2>3. /\ ask'.payload["amount"] = Num(i)
        /\ \A g \in Fields \ {"amount"} : ask'.payload[g] = ask.payload[g]
    BY <2>1, <2>2 DEF Fields
  <2>4. PICK j \in Amounts : ask.payload["amount"] = Num(j) /\ j < i
    BY <1>3 DEF RaiseAmount, Num
  <2>5. ~AmountRefused(ask)
    BY <2>4, AmountsAssumption DEF AmountRefused, Num
  <2>6. \A n \in Nat : GreaterThan(Num(j), n) => GreaterThan(Num(i), n)
    BY <2>4, AmountsAssumption DEF GreaterThan, Numeric, Num
  <2> QED
    BY <2>2, <2>3, <2>4, <2>5, <2>6 DEF Poorer
<1> QED
  BY <1>1, <1>2, <1>3 DEF PolicyNext

(* The same of two requests whose records are bound: what the rules read.   *)
Less(b, c) ==
  /\ c.consequence_class = b.consequence_class /\ c.action_type = b.action_type
  /\ c.purpose \in {b.purpose, None} /\ c.jurisdiction \in {b.jurisdiction, None}
  /\ c.assurance \in {b.assurance, None}
  /\ \A f \in Fields \ {"amount"} : Absent(c, f) \/ c.payload[f] = b.payload[f]
  /\ \A i \in Nat : GreaterThan(b.payload["amount"], i)
                      => GreaterThan(c.payload["amount"], i)

(* What holds of the requests holds of them with their records bound.       *)
LEMMA BoundHasLess ==
  ASSUME NEW r \in PolicyRequest, NEW s \in PolicyRequest, Poorer(r, s),
         ~Refused(r), ~Refused(s)
  PROVE  Less(Bound(r), Bound(s))
<1>1. r.assurance = None /\ s.assurance = None /\ ~AmountRefused(s)
  BY DEF Refused
<1>2. Bound(s).assurance \in {Bound(r).assurance, None}
  BY <1>1, BoundKeeps DEF Poorer
<1>3. /\ \A f \in Fields \ {"amount"} :
           Absent(Bound(s), f) \/ Bound(s).payload[f] = Bound(r).payload[f]
      /\ \A i \in Nat : GreaterThan(Bound(r).payload["amount"], i)
                          => GreaterThan(Bound(s).payload["amount"], i)
  BY <1>1, BoundKeeps DEF Poorer, Absent
<1> QED
  BY <1>2, <1>3, BoundKeeps DEF Poorer, Less

(* A fact that is false is absent or still false where there is less.       *)
LEMMA LessFacts ==
  ASSUME NEW b, NEW c, Less(b, c), NEW f \in Fields \ {"amount"}
  PROVE  /\ Absent(b, f) => Absent(c, f)
         /\ FactTrue(b, f) => FactTrue(c, f) \/ Absent(c, f)
         /\ FactFalse(b, f) => FactFalse(c, f) \/ Absent(c, f)
         /\ \A i : LessThan(b.payload[f], i)
                     => LessThan(c.payload[f], i) \/ Absent(c, f)
<1>1. Absent(c, f) \/ c.payload[f] = b.payload[f]
  BY DEF Less
<1> QED
  BY <1>1, Zenon DEF Absent, FactTrue, FactFalse

(* Where there is less, no rule that spoke against the action stops         *)
(* speaking against it: pack by pack.                                       *)
LEMMA FinanceVendorChangeHolds ==
  ASSUME NEW b, NEW c, Less(b, c)
  PROVE  /\ FinanceVendorChangeDenies(b) => FinanceVendorChangeDenies(c)
         /\ FinanceVendorChangeReviews(b) =>
              FinanceVendorChangeDenies(c) \/ FinanceVendorChangeReviews(c)
<1>1. \A f \in {"callback_verified", "callback_channel_preexisting", "reviewer_id",
                "new_beneficiary", "sender_domain_match", "dual_approval",
                "days_since_bank_change"} :
        /\ Absent(b, f) => Absent(c, f)
        /\ FactTrue(b, f) => FactTrue(c, f) \/ Absent(c, f)
        /\ FactFalse(b, f) => FactFalse(c, f) \/ Absent(c, f)
        /\ \A i : LessThan(b.payload[f], i)
                    => LessThan(c.payload[f], i) \/ Absent(c, f)
  BY LessFacts DEF Fields
<1>2. /\ c.consequence_class = b.consequence_class /\ c.action_type = b.action_type
      /\ b.purpose = None => c.purpose = None
      /\ \A i \in Nat : GreaterThan(b.payload["amount"], i)
                          => GreaterThan(c.payload["amount"], i)
  BY DEF Less
<1>3. NotApproved(b) => NotApproved(c)
  BY <1>1 DEF NotApproved
<1>4. ASSUME FinanceVendorChangeDenies(b)
      PROVE  FinanceVendorChangeDenies(c)
  BY <1>1, <1>2, <1>3, <1>4, SMT DEF FinanceVendorChangeDenies
<1>5. ASSUME FinanceVendorChangeReviews(b)
      PROVE  FinanceVendorChangeDenies(c) \/ FinanceVendorChangeReviews(c)
  BY <1>1, <1>2, <1>5, SMT DEF FinanceVendorChangeDenies, FinanceVendorChangeReviews
<1> QED
  BY <1>4, <1>5

(* The same for the other packs whose rules speak only against an action.   *)
LEMMA OtherPacksHold ==
  ASSUME NEW b, NEW c, Less(b, c)
  PROVE  /\ GenericDenies(b) => GenericDenies(c)
         /\ GenericReviews(b) => GenericReviews(c)
         /\ IndeporaDenies(b) => IndeporaDenies(c)
         /\ SandboxDenies(b) => SandboxDenies(c)
         /\ SandboxReviews(b) => SandboxDenies(c) \/ SandboxReviews(c)
         /\ HealthcareDenies(b) => HealthcareDenies(c)
         /\ HealthcareReviews(b) => HealthcareReviews(c)
<1>1. /\ GenericDenies(b) => GenericDenies(c)
      /\ GenericReviews(b) => GenericReviews(c)
  BY SMT DEF Less, GenericDenies, GenericReviews
<1>2. IndeporaDenies(b) => IndeporaDenies(c)
  BY SMT DEF Less, IndeporaDenies
<1>3. /\ Absent(b, "sandbox_only") => Absent(c, "sandbox_only")
      /\ FactFalse(b, "sandbox_only")
           => FactFalse(c, "sandbox_only") \/ Absent(c, "sandbox_only")
  BY LessFacts DEF Fields
<1>4. c.assurance \in {b.assurance, None}
  BY DEF Less
<1>5. /\ SandboxDenies(b) => SandboxDenies(c)
      /\ SandboxReviews(b) => SandboxDenies(c) \/ SandboxReviews(c)
  BY <1>3, <1>4, SMT DEF SandboxDenies, SandboxReviews
<1>6. /\ HealthcareDenies(b) => HealthcareDenies(c)
      /\ HealthcareReviews(b) => HealthcareReviews(c)
  BY DEF Less, HealthcareDenies, HealthcareReviews
<1> QED
  BY <1>1, <1>2, <1>5, <1>6

(* Whatever the pack, the poorer request is denied or reviewed as before.   *)
LEMMA PoorerIsNoBetter ==
  ASSUME NEW r \in PolicyRequest, NEW s \in PolicyRequest, Poorer(r, s),
         ~Refused(r), ~Refused(s), r.pack \notin {"banking", "finops_demo"}
  PROVE  /\ Denies(r) => Denies(s)
         /\ Reviews(r) => Denies(s) \/ Reviews(s)
<1>1. Less(Bound(r), Bound(s))
  BY BoundHasLess
<1>2. s.pack = r.pack
  BY DEF Poorer
<1>3. r.pack \in {"finance_vendor_change_v1", "generic", "healthcare",
                  "finance_vendor_change_indepora_v1", "indepora_sandbox_v1"}
  BY DEF Refused, Packs
<1>4. CASE r.pack = "finance_vendor_change_v1"
  BY <1>1, <1>2, <1>4, FinanceVendorChangeRules, FinanceVendorChangeHolds
<1>5. CASE r.pack = "generic"
  BY <1>1, <1>2, <1>5, GenericRules, OtherPacksHold
<1>6. CASE r.pack = "healthcare"
  BY <1>1, <1>2, <1>6, HealthcareRules, OtherPacksHold
<1>7. CASE r.pack = "finance_vendor_change_indepora_v1"
  BY <1>1, <1>2, <1>7, IndeporaRules, OtherPacksHold DEF IndeporaReviews
<1>8. CASE r.pack = "indepora_sandbox_v1"
  BY <1>1, <1>2, <1>8, SandboxRules, OtherPacksHold
<1> QED
  BY <1>3, <1>4, <1>5, <1>6, <1>7, <1>8

(* Where a rule asks for a record, a request without one is denied.         *)
LEMMA RecordAskedFor ==
  ASSUME NEW s \in PolicyRequest, s.record = None,
         \/ s.pack = "indepora_sandbox_v1"
         \/ s.pack = "finance_vendor_change_indepora_v1"
              /\ s.action_type = "update_vendor_bank_details"
  PROVE  PolicyEvaluate(s) = "deny"
<1> SUFFICES ASSUME ~Refused(s) PROVE Denies(s)
  BY EvaluateDecides DEF PolicyEvaluate
<1>1. Bound(s).assurance = None /\ Bound(s).action_type = s.action_type
  BY BoundKeeps DEF Refused
<1>2. CASE s.pack = "indepora_sandbox_v1"
  BY <1>1, <1>2, SandboxRules DEF SandboxDenies
<1>3. CASE s.pack = "finance_vendor_change_indepora_v1"
           /\ s.action_type = "update_vendor_bank_details"
  BY <1>1, <1>3, IndeporaRules DEF IndeporaDenies
<1> QED
  BY <1>2, <1>3

(* Nothing is gained by leaving out what would have counted against the     *)
(* action: the decision of a request prepared again is at least as strict.  *)
THEOREM LosingFactsGainsNothing == DecisionsSpec => NeverMorePermissive
<1>1. ASSUME PolicyType, PolicyType', PolicyNext, ~AmountNotRequired,
             ~RecordNotRequired, ask.pack \notin {"banking", "finops_demo"}
      PROVE  NothingGained
  <2>1. Poorer(ask, ask')
    BY <1>1, StepsArePoorer
  <2>2. ask \in PolicyRequest /\ ask' \in PolicyRequest
    BY <1>1 DEF PolicyType
  <2>3. PolicyEvaluate(ask') = "deny" => NothingGained
    BY DEF NothingGained, Rank
  <2>4. CASE Refused(ask')
    BY <2>3, <2>4 DEF PolicyEvaluate
  <2>5. CASE Refused(ask) /\ ~Refused(ask')
    <3>1. ask.record # None /\ ~Genuine(ask.record)
      BY <2>1, <2>5 DEF Refused, Poorer
    <3>2. ask'.record = None
      BY <2>1, <2>5, <3>1 DEF Refused, Poorer
    <3>3. \/ ask'.pack = "indepora_sandbox_v1"
          \/ ask'.pack = "finance_vendor_change_indepora_v1"
               /\ ask'.action_type = "update_vendor_bank_details"
      BY <1>1, <2>1, <3>1, <3>2 DEF RecordNotRequired, Poorer
    <3> QED
      BY <2>2, <2>3, <3>2, <3>3, RecordAskedFor
  <2>6. CASE ~Refused(ask) /\ ~Refused(ask')
    <3>1. /\ Denies(ask) => Denies(ask')
          /\ Reviews(ask) => Denies(ask') \/ Reviews(ask')
      BY <1>1, <2>1, <2>2, <2>6, PoorerIsNoBetter
    <3>2. /\ PolicyEvaluate(ask) = IF Denies(ask) THEN "deny"
               ELSE IF Reviews(ask) THEN "conditional" ELSE "allow"
          /\ PolicyEvaluate(ask') = IF Denies(ask') THEN "deny"
               ELSE IF Reviews(ask') THEN "conditional" ELSE "allow"
      BY <2>6, EvaluateDecides
    <3> QED
      BY <3>1, <3>2 DEF NothingGained, Rank
  <2> QED
    BY <2>4, <2>5, <2>6
<1>2. PolicyType /\ PolicyType' /\ [PolicyNext]_ask =>
        [ask.pack \notin {"banking", "finops_demo"}
           /\ ~AmountNotRequired /\ ~RecordNotRequired => NothingGained]_ask
  BY <1>1
<1> QED
  BY <1>2, TypesInvariant, StepOfEither, PTL DEF DecisionsSpec, NeverMorePermissive
=============================================================================
