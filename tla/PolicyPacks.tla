----------------------------- MODULE PolicyPacks ------------------------------
(***************************************************************************)
(* The packs of policy_packs/, rule by rule and in their order.            *)
(* A rule is its effect and its "when" block, a sequence of conditions; a  *)
(* condition is a kind of test, the payload field it reads where it reads  *)
(* one, and the value expected.                                            *)
(***************************************************************************)
LOCAL INSTANCE Integers

(* Values JSON can carry, tagged with their Python type.  A bool is the     *)
(* integer 0 or 1; a text compares with no number.                          *)
Bool(b) == [type |-> "bool", n |-> IF b THEN 1 ELSE 0]
Num(i) == [type |-> "int", n |-> i]
Text(x) == [type |-> "str", n |-> 0, text |-> x]
Infinity == [type |-> "inf", n |-> 0]
MinusInfinity == [type |-> "-inf", n |-> 0]
NotANumber == [type |-> "nan", n |-> 0]

Deny(when) == [effect |-> "deny", when |-> when]
Review(when) == [effect |-> "conditional", when |-> when]
Pass(when) == [effect |-> "allow", when |-> when]

ActionIs(a) == [key |-> "action_type", is |-> a]
ClassIs(c) == [key |-> "consequence_class", is |-> c]
NoPurpose == [key |-> "purpose_missing", is |-> TRUE]
NoJurisdiction == [key |-> "jurisdiction_missing", is |-> TRUE]
JurisdictionIn(js) == [key |-> "jurisdiction_in", is |-> js]
Missing(f) == [key |-> "missing", field |-> f, is |-> TRUE]
Equals(f, v) == [key |-> "field", field |-> f, is |-> v]
IsTrue(f) == Equals(f, Bool(TRUE))
IsFalse(f) == Equals(f, Bool(FALSE))
Above(f, i) == [key |-> "gt", field |-> f, is |-> i]
Below(f, i) == [key |-> "lt", field |-> f, is |-> i]
NoRecord == [key |-> "indepora_missing", is |-> TRUE]
Standing(s) == [key |-> "indepora_standing", is |-> s]
RecordIs(f, i) == [key |-> "indepora_is", field |-> f, is |-> i]
RecordAbove(f, i) == [key |-> "indepora_gt", field |-> f, is |-> i]
RecordBelow(f, i) == [key |-> "indepora_lt", field |-> f, is |-> i]

VendorChange == ClassIs("vendor_master_change")
Payment == ClassIs("financial_transfer")
Wire == ActionIs("initiate_wire_transfer")

FinanceVendorChangeV1 ==
  << Deny(<<VendorChange, Missing("callback_verified")>>),
     Deny(<<VendorChange, IsFalse("callback_verified")>>),
     Deny(<<VendorChange, Missing("callback_channel_preexisting")>>),
     Deny(<<VendorChange, IsFalse("callback_channel_preexisting")>>),
     Deny(<<VendorChange, Missing("reviewer_id")>>),
     Deny(<<VendorChange, Missing("new_beneficiary")>>),
     Deny(<<VendorChange, IsTrue("new_beneficiary"), IsFalse("dual_approval")>>),
     Deny(<<VendorChange, IsTrue("new_beneficiary"), Missing("dual_approval")>>),
     Deny(<<VendorChange, Missing("sender_domain_match")>>),
     Review(<<VendorChange, IsFalse("sender_domain_match")>>),
     Deny(<<Payment, NoPurpose>>),
     Deny(<<Wire, Above("amount", 5000000)>>),
     Deny(<<Payment, Missing("days_since_bank_change")>>),
     Review(<<Payment, Below("days_since_bank_change", 3)>>),
     Deny(<<Wire, Above("amount", 100000), IsFalse("dual_approval")>>),
     Deny(<<Wire, Above("amount", 100000), Missing("dual_approval")>>),
     Review(<<ActionIs("initiate_ach_payment"), Above("amount", 250000)>>) >>

AnyWire == ActionIs("wire_transfer")

Generic ==
  << Deny(<<Payment, NoPurpose>>),
     Deny(<<AnyWire, Above("amount", 1000000)>>),
     Review(<<AnyWire, Above("amount", 50000)>>),
     Review(<<ClassIs("infra_change")>>),
     Pass(<<ClassIs("low_risk")>>) >>

Update == ActionIs("update_vendor_bank_details")

FinanceVendorChangeIndeporaV1 ==
  << Deny(<<Update, NoRecord>>),
     Deny(<<Update, Standing("insufficient")>>),
     Deny(<<Update, Standing("unknown")>>),
     Deny(<<Update, Standing("conflicted")>>),
     Deny(<<Update, RecordAbove("unknown_relationship_count", 0)>>),
     Deny(<<Update, RecordBelow("candidate_origin_count", 3)>>) >>

IndeporaSandboxV1 ==
  << Deny(<<NoRecord>>),
     Deny(<<Missing("sandbox_only")>>),
     Deny(<<IsFalse("sandbox_only")>>),
     Deny(<<RecordBelow("candidate_origin_count", 2)>>),
     Deny(<<RecordAbove("conflict_count", 0)>>),
     Review(<<RecordAbove("unknown_relationship_count", 0)>>),
     Pass(<<ActionIs("publish_sandbox_decision"), ClassIs("generic_tool_call"),
            IsTrue("sandbox_only"),
            Equals("execution_mode", Text("sandbox_only")),
            RecordAbove("candidate_origin_count", 2),
            RecordIs("unknown_relationship_count", 0),
            RecordIs("conflict_count", 0)>>) >>

Banking ==
  << Deny(<<AnyWire, Above("amount", 10000), NoJurisdiction>>),
     Review(<<AnyWire, JurisdictionIn({"EU", "UK", "APAC"})>>),
     Deny(<<AnyWire, Above("amount", 5000000)>>) >>

Healthcare ==
  << Deny(<<ClassIs("health_record_access"), NoPurpose>>),
     Review(<<ActionIs("bulk_record_export")>>),
     Deny(<<ActionIs("record_transfer"), NoJurisdiction>>) >>

FinopsDemo ==
  << Deny(<<AnyWire, IsFalse("payee_on_allowlist")>>),
     Deny(<<AnyWire, Above("amount", 1000000)>>),
     Deny(<<Payment, NoPurpose>>),
     Review(<<AnyWire, Above("amount", 50000)>>) >>
=============================================================================
