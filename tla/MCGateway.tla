------------------------------ MODULE MCGateway ------------------------------
(* Small instances of module Gateway for TLC.                               *)
EXTENDS GatewayProperties

CONSTANTS
  e1, e2,          \* evaluate requests
  b1, b2,          \* execute requests
  v1,              \* a verify request
  a1,              \* an admin request
  agent, tester,   \* an agent, and one in the test namespace
  pay, lend, leak, \* allowed; needs a human; denied
  act1             \* an action id a runtime caller supplies

OneEval == {e1}
TwoEvals == {e1, e2}
NoExecs == {}
OneExec == {b1}
TwoExecs == {b1, b2}
NoVerifies == {}
OneVerify == {v1}
NoAdmins == {}
OneAdmin == {a1}

AllActions == {pay, lend, leak}
Decisions == [a \in AllActions |->
                CASE a = pay -> "allow" [] a = lend -> "conditional"
                  [] OTHER -> "deny"]
Allowed == {pay, lend}

ShortTtl == [a \in AllActions |-> 1]
LongTtl == [a \in AllActions |-> 2]
Unbounded == [a \in AllActions |-> None]
(* What a runtime caller says of a lend ends before its receipt would.      *)
EarlyLend == [a \in AllActions |-> IF a = lend THEN 1 ELSE None]

Eval(mode, who, action, facts, action_id) ==
  [mode |-> mode, agent_id |-> who, action |-> action, facts |-> facts,
   action_id |-> action_id]

Exec(id, who, action, facts, action_id, record, safe_url) ==
  [receipt_id |-> id, agent_id |-> who, action |-> action, facts |-> facts,
   action_id |-> action_id, record |-> record, safe_url |-> safe_url]

RevokeOp(id, key) == [op |-> "revoke", id |-> id, key |-> key]
RevokeAgentOp(who, key) == [op |-> "revoke_agent", agent |-> who, key |-> key]
KillOp(active, key) == [op |-> "kill_switch", active |-> active, key |-> key]

PolicyPay == {Eval("policy", agent, pay, "none", None)}
VerifyFirst == {[receipt_id |-> e1]}
ExecutePay == {Exec(e1, agent, pay, "none", None, "absent", TRUE)}

(* Every way a request can fail to be what was evaluated. *)
AnyEval == {Eval("policy", agent, pay, "genuine", None),
            Eval("policy", agent, pay, "forged", None),
            Eval("policy", tester, lend, "none", None),
            Eval("runtime", agent, pay, "forged", act1),
            Eval("runtime", tester, lend, "none", None)}
AnyExec == {Exec(e1, who, action, "none", e1, "absent", TRUE) :
              who \in {agent, tester}, action \in {pay, lend}}
  \cup {Exec(e1, agent, pay, "none", id, record, TRUE) :
           id \in {e1, act1}, record \in {"absent", "genuine"}}
  \cup {Exec(e1, agent, pay, "forged", act1, "absent", TRUE),
        Exec(e1, agent, pay, "forged", e1, "genuine", TRUE),
        Exec(e1, agent, pay, "none", e1, "bad", TRUE),
        Exec(e1, agent, pay, "none", e1, "absent", FALSE)}

RevokeOrKill == {RevokeOp(e1, "full"), RevokeAgentOp(agent, "full"),
                 KillOp(TRUE, "full"), KillOp(FALSE, "full")}
AnyAdmin == {RevokeOp(e1, k) : k \in {"full", "test", "bad"}}
  \cup {RevokeAgentOp(w, k) : w \in {agent, tester}, k \in {"full", "test", "bad"}}
  \cup {KillOp(x, k) : x \in BOOLEAN, k \in {"full", "test", "bad"}}
ScopedEval == {Eval("policy", w, pay, "none", None) : w \in {agent, tester}}
=============================================================================
