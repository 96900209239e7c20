----------------------------- MODULE PolicyEngine -----------------------------
(***************************************************************************)
(* app/policy_engine.py: the evaluation of a request against a policy      *)
(* pack, with the verification of an INDEPORA record (app/indepora.py) in  *)
(* front.  The state is a request that an adapter prepares again and       *)
(* again, losing a fact it had or raising the amount.                      *)
(***************************************************************************)
EXTENDS Integers, Sequences, ConsequenceClasses, PolicyPacks

CONSTANTS
  PolicyRequests,  \* the requests the adapter may start from
  Amounts          \* the amounts it may raise to

(* The payload fields the packs' rules read, and what JSON can put there.   *)
Fields == {"amount", "days_since_bank_change", "dual_approval",
           "callback_verified", "callback_channel_preexisting", "reviewer_id",
           "new_beneficiary", "sender_domain_match", "payee_on_allowlist",
           "sandbox_only", "execution_mode"}
Value == [type: {"bool"}, n: {0, 1}] \cup [type: {"int"}, n: Int]
           \cup [type: {"inf", "-inf", "nan"}, n: {0}] \cup [type: {"str"}, n: {0}, text: STRING]

(* An INDEPORA record, by what verify_and_bind asks of it.                  *)
Counted == {"candidate_origin_count", "unknown_relationship_count", "conflict_count"}
Record == [complete: BOOLEAN, hashMatches: BOOLEAN, signed: BOOLEAN,
           expired: BOOLEAN, superseded: BOOLEAN, standing: STRING \cup {None},
           candidate_origin_count: Int \cup {None},
           unknown_relationship_count: Int \cup {None},
           conflict_count: Int \cup {None}]
Assurance == [standing: STRING, candidate_origin_count: Nat,
              unknown_relationship_count: Nat, conflict_count: Nat]

PolicyRequest == [pack: STRING, consequence_class: STRING, action_type: STRING,
                  purpose: STRING \cup {None}, jurisdiction: STRING \cup {None},
                  payload: [Fields -> Value \cup {None}],
                  assurance: Assurance \cup {None}, record: Record \cup {None}]

ASSUME PolicyRequestsAssumption == PolicyRequests \subseteq PolicyRequest
ASSUME AmountsAssumption ==
  Amounts \subseteq Nat \ {0} /\ \A i \in Amounts : Num(i) # None

Packs == [finance_vendor_change_v1 |-> FinanceVendorChangeV1,
          generic |-> Generic,
          finance_vendor_change_indepora_v1 |-> FinanceVendorChangeIndeporaV1,
          indepora_sandbox_v1 |-> IndeporaSandboxV1,
          banking |-> Banking,
          healthcare |-> Healthcare,
          finops_demo |-> FinopsDemo]

-----------------------------------------------------------------------------
(* Python's ==, > and < between a payload value and a rule's operand: a     *)
(* bool is a number, infinity exceeds every number, NaN compares with none, *)
(* and a text or a list raises TypeError, which counts as no match.         *)
Numeric(v) == v # None /\ v.type \in {"bool", "int"}

PyEqual(v, w) ==
  v # None /\ (v = w \/ (Numeric(v) /\ Numeric(w) /\ v.n = w.n))

GreaterThan(v, i) ==
  v # None /\ (v.type = "inf" \/ (Numeric(v) /\ v.n > i))

LessThan(v, i) ==
  v # None /\ (v.type = "-inf" \/ (Numeric(v) /\ v.n < i))

(* _condition_matches, for one key of a "when" block.                       *)
Holds(c, req) ==
  \/ c.key = "action_type" /\ req.action_type = c.is
  \/ c.key = "consequence_class" /\ req.consequence_class = c.is
  \/ c.key = "purpose_missing" /\ (req.purpose = None) = c.is
  \/ c.key = "jurisdiction_missing" /\ (req.jurisdiction = None) = c.is
  \/ c.key = "jurisdiction_in" /\ req.jurisdiction \in c.is
  \/ c.key = "missing" /\ (req.payload[c.field] = None) = c.is
  \/ c.key = "gt" /\ GreaterThan(req.payload[c.field], c.is)
  \/ c.key = "lt" /\ LessThan(req.payload[c.field], c.is)
  \/ c.key = "field" /\ PyEqual(req.payload[c.field], c.is)
  \/ c.key = "indepora_missing" /\ (req.assurance = None) = c.is
  \/ /\ req.assurance # None
     /\ \/ c.key = "indepora_standing" /\ req.assurance.standing = c.is
        \/ c.key = "indepora_is" /\ req.assurance[c.field] = c.is
        \/ c.key = "indepora_gt" /\ req.assurance[c.field] > c.is
        \/ c.key = "indepora_lt" /\ req.assurance[c.field] < c.is

(* A faulty variant: a field that is absent matches no condition. *)
ConditionMatches_AbsentNever(when, req) ==
  \A k \in DOMAIN when : when[k].key # "missing" /\ Holds(when[k], req)

ConditionMatches(when, req) == \A k \in DOMAIN when : Holds(when[k], req)

(* _validate_financial_transfer: an amount that is no finite positive       *)
(* number; a bool is none.                                                  *)
AmountRefused(req) ==
  /\ req.consequence_class = "financial_transfer"
  /\ LET amount == req.payload["amount"]
     IN amount = None \/ amount.type # "int" \/ amount.n <= 0

(* verify_and_bind: the facts of a record whose hash and signature verify,  *)
(* that is neither expired nor superseded, states a standing and has no     *)
(* negative count.                                                          *)
Genuine(record) ==
  /\ record.complete /\ record.hashMatches /\ record.signed
  /\ ~record.expired /\ ~record.superseded
  /\ record.standing # None /\ record.candidate_origin_count # None
  /\ \A c \in Counted : record[c] # None => record[c] >= 0

(* A count the record does not state is bound as 0.                         *)
Stated(count) == IF count = None THEN 0 ELSE count

VerifyAndBind(record) ==
  [standing |-> record.standing,
   candidate_origin_count |-> record.candidate_origin_count,
   unknown_relationship_count |-> Stated(record.unknown_relationship_count),
   conflict_count |-> Stated(record.conflict_count)]

(* A faulty variant: supplied facts are taken when there is no record. *)
Refused_TrustsFacts(req) ==
  \/ req.record # None /\ (req.assurance # None \/ ~Genuine(req.record))
  \/ req.consequence_class \notin KnownClasses
  \/ AmountRefused(req)
  \/ req.pack \notin DOMAIN Packs

(* The requests evaluate refuses before it runs a rule: facts supplied      *)
(* without, or next to, a record; a record that does not verify; an unknown *)
(* class; a bad amount; an unknown pack.  (A pack's name that opens some    *)
(* other JSON file of the directory raises: a 500, which releases nothing   *)
(* either.)                                                                 *)
Refused(req) ==
  \/ req.assurance # None
  \/ req.record # None /\ ~Genuine(req.record)
  \/ req.consequence_class \notin KnownClasses
  \/ AmountRefused(req)
  \/ req.pack \notin DOMAIN Packs

(* A faulty variant: the last rule that matches decides. *)
Weigh_LastWins(decision, rule) == rule.effect

(* A faulty variant: a review replaces a denial. *)
Weigh_ReviewWins(decision, rule) ==
  IF rule.effect = "allow" THEN decision ELSE rule.effect

(* What a matched rule makes of the decision so far: deny is sticky.        *)
Weigh(decision, rule) ==
  IF rule.effect = "deny" THEN "deny"
  ELSE IF rule.effect = "conditional" /\ decision # "deny" THEN "conditional"
  ELSE decision

Bound(req) ==
  IF req.record = None THEN req
  ELSE [req EXCEPT !.assurance = VerifyAndBind(req.record)]

(* The rules that match, by their positions in the pack.                    *)
Matched(req) ==
  {k \in DOMAIN Packs[req.pack] :
     ConditionMatches(Packs[req.pack][k].when, Bound(req))}

(* The decision after the first k rules of the pack.                        *)
DecisionAfter(req) ==
  LET matched == Matched(req)
      after[k \in 0..Len(Packs[req.pack])] ==
        IF k = 0 THEN "allow"
        ELSE IF k \in matched THEN Weigh(after[k - 1], Packs[req.pack][k])
        ELSE after[k - 1]
  IN  after

PolicyEvaluate(req) ==
  IF Refused(req) THEN "deny"
  ELSE DecisionAfter(req)[Len(Packs[req.pack])]

-----------------------------------------------------------------------------
VARIABLE ask

(* The adapter does not supply a payload fact it supplied before.           *)
LoseFact(f) ==
  /\ ask.payload[f] # None
  /\ ask' = [ask EXCEPT !.payload[f] = None]

LosePurpose ==
  /\ ask.purpose # None
  /\ ask' = [ask EXCEPT !.purpose = None]

LoseJurisdiction ==
  /\ ask.jurisdiction # None
  /\ ask' = [ask EXCEPT !.jurisdiction = None]

LoseRecord ==
  /\ ask.record # None
  /\ ask' = [ask EXCEPT !.record = None]

(* What was for a positive amount is for a larger one.                      *)
RaiseAmount(i) ==
  /\ ask.payload["amount"] \in {Num(j) : j \in Amounts}
  /\ ask.payload["amount"].n < i
  /\ ask' = [ask EXCEPT !.payload["amount"] = Num(i)]

PolicyInit == ask \in PolicyRequests

PolicyNext ==
  \/ \E f \in DOMAIN ask.payload : LoseFact(f)
  \/ LosePurpose
  \/ LoseJurisdiction
  \/ LoseRecord
  \/ \E i \in Amounts : RaiseAmount(i)

PolicySpec == PolicyInit /\ [][PolicyNext]_ask

-----------------------------------------------------------------------------
Rank(decision) ==
  CASE decision = "allow" -> 0 [] decision = "conditional" -> 1 [] OTHER -> 2

(* The step loses an amount that the class does not require.                *)
AmountNotRequired ==
  /\ ask.consequence_class # "financial_transfer"
  /\ ask.payload["amount"] # None /\ ask'.payload["amount"] = None

(* The step drops a record that does not verify where no rule asks for one: *)
(* evaluate denied the action for the record's sake alone.                  *)
RecordNotRequired ==
  /\ ask.record # None /\ ask'.record = None
  /\ ~Genuine(ask.record)
  /\ ask.pack # "indepora_sandbox_v1"
  /\ ask.pack # "finance_vendor_change_indepora_v1"
       \/ ask.action_type # "update_vendor_bank_details"

NothingGained == Rank(PolicyEvaluate(ask')) >= Rank(PolicyEvaluate(ask))

(* Losing a fact, the purpose, the jurisdiction or the record, or raising   *)
(* the amount, never makes a decision more permissive: nothing is gained by *)
(* leaving out what would have counted against the action.  Not promised:   *)
(* an amount or a record that does not verify, lost where nothing requires  *)
(* it, and the packs banking and finops_demo, whose rules on a jurisdiction *)
(* and on payee_on_allowlist match only what is there                       *)
(* (demo/poisoned_invoice/README.md:53-55).                                 *)
NeverMorePermissive ==
  [][ask.pack \notin {"banking", "finops_demo"}
       /\ ~AmountNotRequired /\ ~RecordNotRequired
       => NothingGained]_ask

(* What the finance pack lets through carries what its rules ask for: a     *)
(* change classed as vendor_master_change the facts about the callback, the *)
(* reviewer, the sender and the beneficiary; a payment classed as           *)
(* financial_transfer a purpose and the age of the bank details; a wire     *)
(* over 100,000, in whatever class, dual approval; and an approval or a     *)
(* callback that is False counts as none.  In whatever class, no wire over  *)
(* 5,000,000 passes, and no ACH payment over 250,000 without a review.  No  *)
(* more than that: see TransfersFailClosed for payments in another class;   *)
(* a fact of a wrong type, say the text "no", counts as supplied and not    *)
(* False, and a text for an amount exceeds nothing.                         *)
FailClosed ==
  ask.pack = "finance_vendor_change_v1" /\ PolicyEvaluate(ask) # "deny" =>
    LET supplied(f) == ask.payload[f] # None
        notFalse(f) == supplied(f) /\ ~Holds(IsFalse(f), ask)
        amount == ask.payload["amount"]
    IN /\ ask.consequence_class = "vendor_master_change" =>
            /\ notFalse("callback_verified")
            /\ notFalse("callback_channel_preexisting")
            /\ supplied("reviewer_id")
            /\ supplied("sender_domain_match") /\ supplied("new_beneficiary")
            /\ Holds(IsTrue("new_beneficiary"), ask) => notFalse("dual_approval")
       /\ ask.consequence_class = "financial_transfer" =>
            ask.purpose # None /\ supplied("days_since_bank_change")
       /\ ask.action_type = "initiate_wire_transfer" /\ GreaterThan(amount, 100000)
            => notFalse("dual_approval") /\ ~GreaterThan(amount, 5000000)
       /\ ask.action_type = "initiate_ach_payment" /\ GreaterThan(amount, 250000)
            => PolicyEvaluate(ask) = "conditional"

(* "Every required fact is checked fail-closed: if the trusted adapter did  *)
(* not supply it, the action is denied", and required are "purpose, amount, *)
(* age-of-bank-change, and approval facts for transfers": of the two        *)
(* transfers the pack names none is let through without them.               *)
TransfersFailClosed ==
  /\ ask.pack = "finance_vendor_change_v1" /\ PolicyEvaluate(ask) # "deny"
  /\ ask.action_type \in {"initiate_wire_transfer", "initiate_ach_payment"}
  => /\ ask.purpose # None
     /\ \A f \in {"amount", "days_since_bank_change"} : ask.payload[f] # None

(* The order of a pack's rules does not matter: a matched deny wins, a      *)
(* matched conditional comes next, and the rest is allowed.                 *)
OrderFree ==
  ~Refused(ask) =>
    LET effects == {Packs[ask.pack][k].effect : k \in Matched(ask)}
    IN PolicyEvaluate(ask) = IF "deny" \in effects THEN "deny"
                             ELSE IF "conditional" \in effects THEN "conditional"
                             ELSE "allow"

(* Evidence counts only through a record that verified, and as far as the   *)
(* pack looks at it: with the vendor pack a change of bank details that is  *)
(* not denied rests on a genuine record of no bad standing, three origins   *)
(* and no unknown relationship, whatever its conflict_count; with the       *)
(* sandbox pack every action that is not denied rests on a genuine record   *)
(* of two origins and no conflict, whatever its standing, and one that is   *)
(* allowed on no unknown relationship either.                               *)
EvidenceIsGenuine ==
  PolicyEvaluate(ask) # "deny" =>
    /\ /\ ask.pack = "finance_vendor_change_indepora_v1"
       /\ ask.action_type = "update_vendor_bank_details"
       => /\ ask.record # None /\ Genuine(ask.record)
          /\ ask.record.standing \notin {"insufficient", "unknown", "conflicted"}
          /\ ask.record.candidate_origin_count >= 3
          /\ ask.record.unknown_relationship_count \in {None, 0}
    /\ ask.pack = "indepora_sandbox_v1"
       => /\ ask.record # None /\ Genuine(ask.record)
          /\ ask.record.candidate_origin_count >= 2
          /\ ask.record.conflict_count \in {None, 0}
          /\ ask.payload["sandbox_only"] # None
          /\ PolicyEvaluate(ask) = "allow" =>
               ask.record.unknown_relationship_count \in {None, 0}

(* Nothing in a record speaks against what is allowed on its strength,      *)
(* neither its standing nor a conflict it counted.                          *)
NothingSpeaksAgainst ==
  /\ ask.pack \in {"finance_vendor_change_indepora_v1", "indepora_sandbox_v1"}
  /\ PolicyEvaluate(ask) = "allow" /\ ask.record # None
  => /\ ask.record.standing \notin {"insufficient", "unknown", "conflicted"}
     /\ ask.record.conflict_count \in {None, 0}
=============================================================================
