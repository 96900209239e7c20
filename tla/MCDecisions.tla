----------------------------- MODULE MCDecisions -----------------------------
(* A small instance of module Decisions.  The runtime tier sees every        *)
(* request with counts at, or just under, the limits, absent, malformed or   *)
(* negative; the policy tier sees vendor changes and payments with every     *)
(* combination of the facts their rules read, and records with every         *)
(* combination of defects.                                                   *)
EXTENDS Decisions

CONSTANTS v1, v2

AllClasses == {"financial_transfer", "low_risk", "unheard_of"}
AllVersions == {v1, v2}

SmallRequests ==
  [class: AllClasses, authority: Authorities, reversibility: Reversibilities,
   expiry: {None, Unparsable, 0, 1},
   authorized: AllVersions \cup {None}, current: AllVersions \cup {None},
   counts: [Counters -> {None}]
     \cup {[actions |-> a, retries |-> r, pending |-> p] :
             a \in {None, 60}, r \in {Malformed, 5}, p \in {-1, 5}}]

Thresholds == {1, 50000, 50001, 100000, 100001, 250001, 1000001, 5000001}

Maybe == {None, Bool(TRUE), Bool(FALSE), Text("yes")}
NoFact == [f \in Fields |-> None]

PolicyRequestOf(pack, class, action, purpose, payload) ==
  [pack |-> pack, consequence_class |-> class, action_type |-> action,
   purpose |-> purpose, jurisdiction |-> None, payload |-> payload,
   assurance |-> None, record |-> None]

VendorChanges ==
  {PolicyRequestOf("finance_vendor_change_v1", "vendor_master_change",
           "update_vendor_bank_details", None,
           [NoFact EXCEPT !["callback_verified"] = v,
                          !["callback_channel_preexisting"] = c,
                          !["reviewer_id"] = r, !["new_beneficiary"] = n,
                          !["dual_approval"] = d, !["sender_domain_match"] = s]) :
     v \in Maybe, c \in Maybe, r \in {None, Text("ann")},
     n \in Maybe \cup {Num(1)}, d \in Maybe, s \in Maybe}

Payments ==
  {PolicyRequestOf(p, c, a, u,
           [NoFact EXCEPT !["amount"] = m, !["days_since_bank_change"] = s,
                          !["dual_approval"] = d]) :
     p \in {"finance_vendor_change_v1", "generic", "unheard_of"},
     c \in {"financial_transfer"},
     a \in {"initiate_wire_transfer", "initiate_ach_payment", "wire_transfer"},
     u \in {None, "invoice"},
     m \in {None, Bool(TRUE), Text("9"), Infinity, NotANumber, Num(-1), Num(0)}
           \cup {Num(i) : i \in Thresholds},
     s \in {None, Num(2), Num(3), MinusInfinity, Text("old")}, d \in Maybe}

(* Transfers that are not classed as such.                                  *)
Misclassed ==
  {PolicyRequestOf("finance_vendor_change_v1", "generic_tool_call", a, None,
           [NoFact EXCEPT !["amount"] = m, !["dual_approval"] = d]) :
     a \in {"initiate_wire_transfer", "initiate_ach_payment"},
     m \in {None, Text("9"), Infinity} \cup {Num(i) : i \in Thresholds}, d \in Maybe}

Others ==
  {PolicyRequestOf("generic", c, "read_public_doc", None, NoFact) :
     c \in {"low_risk", "infra_change", "unheard_of"}}

Records ==
  [complete: BOOLEAN, hashMatches: BOOLEAN, signed: BOOLEAN, expired: BOOLEAN,
   superseded: BOOLEAN, standing: {None, "sufficient", "conflicted"},
   candidate_origin_count: {None, 1, 2, 3},
   unknown_relationship_count: {None, -1, 0, 1}, conflict_count: {None, 1}]

Supplied == [standing |-> "sufficient", candidate_origin_count |-> 3,
             unknown_relationship_count |-> 0, conflict_count |-> 0]

Evidenced ==
  {[PolicyRequestOf("finance_vendor_change_indepora_v1", "vendor_master_change",
            "update_vendor_bank_details", None, NoFact)
      EXCEPT !.record = r, !.assurance = a] :
     r \in Records \cup {None}, a \in {None, Supplied}}

(* Records that no rule asks for.                                           *)
Unasked ==
  {[PolicyRequestOf(p, "generic_tool_call", "pay", None, NoFact)
      EXCEPT !.record = r] :
     p \in {"generic", "finance_vendor_change_indepora_v1"},
     r \in {x \in Records : x.complete /\ x.hashMatches /\ x.signed}}

SandboxActions ==
  {[PolicyRequestOf("indepora_sandbox_v1", "generic_tool_call", a, None,
            [NoFact EXCEPT !["sandbox_only"] = s, !["execution_mode"] = m])
      EXCEPT !.record = r] :
     a \in {"publish_sandbox_decision", "pay"}, s \in Maybe,
     m \in {None, Text("sandbox_only")},
     r \in {x \in Records : ~x.expired /\ ~x.superseded /\ x.complete}}

Transfers ==
  {[PolicyRequestOf(p, c, "wire_transfer", u,
            [NoFact EXCEPT !["amount"] = m, !["payee_on_allowlist"] = w])
      EXCEPT !.jurisdiction = j] :
     p \in {"banking", "finops_demo", "generic"},
     c \in {"financial_transfer", "generic_tool_call"}, u \in {None, "invoice"},
     m \in {None, Text("9"), Num(1), Num(10001)}, w \in Maybe,
     j \in {None, "US", "EU"}}

RecordAccesses ==
  {[PolicyRequestOf("healthcare", "health_record_access", a, u, NoFact)
      EXCEPT !.jurisdiction = j] :
     a \in {"read_ehr", "bulk_record_export", "record_transfer"},
     u \in {None, "care"}, j \in {None, "US"}}

(* Bracketed to the right: TLC enumerates the union faster so.              *)
AllPolicyRequests ==
  VendorChanges \cup (Payments \cup (Misclassed \cup (Others \cup (Evidenced
    \cup (Unasked \cup (SandboxActions \cup (Transfers \cup RecordAccesses)))))))
=============================================================================
