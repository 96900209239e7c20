-------------------------- MODULE ProductionFixture --------------------------
(***************************************************************************)
(* production_fixture.py run against a deployed service.                   *)
(*                                                                         *)
(* The script sends its requests one after another over the network.  Any  *)
(* of them may be served, be answered by an error (from the handler or     *)
(* from a proxy in front of it, the handler having acted or not), or end    *)
(* in an httpx exception, after which the server may still act on it.  The *)
(* script has no exception handler: an exception ends it.                  *)
(*                                                                         *)
(* The service under test is taken at the granularity of its answers (its  *)
(* handlers are module Gateway's): it has any of the faults the script is  *)
(* meant to notice, and a kill switch which others, an operator or another *)
(* run of this script, may set meanwhile.                                  *)
(***************************************************************************)
EXTENDS Naturals, Sequences

CONSTANTS
  FaultSets,     \* what may be wrong with the service
  Deployments,   \* how the service and the script may be configured
  MaxOrders      \* bound on the settings of the switch by others

Faults == {"health", "key", "policy", "issue", "verify", "claim",
           "revoke", "revocation", "binding", "webhook", "switch", "chain"}

(* admin: CYRADUCT_ADMIN_KEY is given to the script.  broker: the broker    *)
(* asks for no key (a development service), or for one the script does not  *)
(* send, or, in production without one, refuses everybody.                  *)
Deployment == [admin: BOOLEAN, broker: {"open", "keyed", "unconfigured"}]

ASSUME ServiceAssumption ==
  FaultSets \subseteq SUBSET Faults /\ Deployments \subseteq Deployment

VARIABLES
  faults, deployment,   \* the service, chosen once
  switch,    \* the kill switch
  setter,    \* history: who set it last
  orders,    \* settings by others so far
  step,      \* the request of Script the script is at
  net,       \* that request: "idle", "sent", "served", or half "read"
  answer,    \* the answer to it
  failed,    \* a check has been recorded as failed
  status,    \* "running", then "passed" (exit 0), "failed" (1) or "raised"
  saw        \* history: what came between on the way (see Trouble)

service == <<faults, deployment>>
script == <<step, net, answer, failed, status>>
vars == <<service, switch, setter, orders, script, saw>>

(* The requests of run_all, in order: what is asked, the answers that pass  *)
(* the check, the fault that spoils the answer, where the script goes when  *)
(* it does not pass, and whether the body is parsed whatever the status.    *)
Request(call, passes, fault, failing, parses) ==
  [call |-> call, passes |-> passes, fault |-> fault, failing |-> failing,
   parses |-> parses]
Issue(failing, parses) ==
  Request("issue", {"right"}, "issue", failing, parses)

Script == <<
  Request("healthz", {"right"}, "health", 2, FALSE),
  Request("public_key", {"right"}, "key", 3, FALSE),
  Request("conformance", {"right"}, "policy", 4, TRUE),
  Issue(7, FALSE),                   \* its failure fails the next two as well
  Request("verify", {"right"}, "verify", 6, FALSE),
  Request("execute", {"right"}, "claim", 7, FALSE),
  Issue(10, TRUE),
  Request("revoke", {"right"}, "revoke", 10, FALSE),
  Request("execute", {"right"}, "revocation", 10, FALSE),
  Issue(12, TRUE),
  Request("execute", {"right"}, "binding", 12, FALSE),
  Issue(14, TRUE),
  Request("execute", {"right"}, "webhook", 14, FALSE),
  Request("switch_on", {"right"}, "none", 17, FALSE),
  Request("issue", {"blocked", "unavailable"}, "issue", 16, FALSE),
  Request("switch_off", {"right"}, "none", 17, FALSE),
  Request("audit_log", {"right"}, "chain", 18, FALSE) >>

SwitchedOn == 15..16    \* where the script has the switch on

Init ==
  /\ faults \in FaultSets
  /\ deployment \in Deployments
  /\ switch = FALSE
  /\ setter = "others"
  /\ orders = 0
  /\ step = 1
  /\ net = "idle"
  /\ answer = "none"
  /\ failed = FALSE
  /\ status = "running"
  /\ saw = {}

-----------------------------------------------------------------------------
(* The service and the network. *)

(* A faulty variant: evaluate does not look at the kill switch. *)
Blocks_ExecuteOnly(call) == switch /\ "switch" \notin faults /\ call = "execute"

Blocks(call) ==
  switch /\ "switch" \notin faults /\ call \in {"issue", "execute"}

(* Neither the broker nor the admin endpoints do anything without a key. *)
Barred(call) ==
  \/ call = "execute" /\ deployment.broker # "open"
  \/ call \in {"revoke", "switch_on", "switch_off", "audit_log"}
       /\ ~deployment.admin

(* The handlers' own answers. *)
Reply ==
  LET now == Script[step]
  IN  IF Barred(now.call) THEN "refused"
      ELSE IF Blocks(now.call) THEN "blocked"
      ELSE IF now.fault \in faults THEN "wrong" ELSE "right"

(* A handler's effect: the switch is stored. *)
Act ==
  IF Script[step].call \in {"switch_on", "switch_off"}
  THEN /\ switch' = (Script[step].call = "switch_on")
       /\ setter' = "fixture"
  ELSE UNCHANGED <<switch, setter>>

Meddled == IF switch # (step \in SwitchedOn) THEN {"meddled"} ELSE {}

(* An error in answer to the present request: any error, one to a request   *)
(* that sets the switch, a 503 where the script waits for one.              *)
Trouble(error) ==
  {"error"} \cup (IF step \in {14, 16} THEN {"unswitched"} ELSE {})
    \cup (IF step = 15 /\ error = "unavailable" THEN {"screened"} ELSE {})

(* The request is served: also one the script no longer waits for. *)
Serve ==
  /\ net = "sent"
  /\ net' = "served"
  /\ answer' = Reply
  /\ saw' = saw \cup Meddled
  /\ Act
  /\ UNCHANGED <<service, orders, step, failed, status>>

(* An error (a 500, a 429, a proxy's 502) or, of its own, a 503: what was   *)
(* asked may or may not have been done (set_kill_switch is followed by      *)
(* append_audit).                                                           *)
Break ==
  /\ net = "sent"
  /\ net' = "served"
  /\ answer' \in {"error", "unavailable"}
  /\ saw' = saw \cup Meddled \cup Trouble(answer')
  /\ Act \/ UNCHANGED <<switch, setter>>
  /\ UNCHANGED <<service, orders, step, failed, status>>

(* The answer begins to come in, or falls silent half-way.  timeout=15.0    *)
(* bounds each connect, read and write and not the request: every piece     *)
(* that comes in puts the timeout off once more.                            *)
Trickle ==
  /\ status = "running" /\ net \in {"served", "read"}
  /\ net' = IF net = "served" THEN "read" ELSE "served"
  /\ UNCHANGED <<service, switch, setter, orders, step, answer, failed,
                 status, saw>>

(* Somebody else with the admin key sets the switch. *)
Order ==
  /\ orders < MaxOrders
  /\ orders' = orders + 1
  /\ switch' \in BOOLEAN
  /\ setter' = "others"
  /\ UNCHANGED <<service, script, saw>>

-----------------------------------------------------------------------------
(* The script. *)

(* The kill switch and the audit log are not asked for without a key: the   *)
(* check is recorded as failed.                                             *)
Skip ==
  /\ status = "running" /\ net = "idle" /\ step <= Len(Script)
  /\ Script[step].call \in {"switch_on", "audit_log"} /\ ~deployment.admin
  /\ step' = Script[step].failing
  /\ failed' = TRUE
  /\ UNCHANGED <<service, switch, setter, orders, net, answer, status, saw>>

Send ==
  /\ status = "running" /\ net = "idle" /\ step <= Len(Script)
  /\ Script[step].call \in {"switch_on", "audit_log"} => deployment.admin
  /\ net' = "sent"
  /\ UNCHANGED <<service, switch, setter, orders, step, answer, failed,
                 status, saw>>

(* A faulty variant: the restoring request's outcome overwrites the check   *)
(* made while the switch was on.                                            *)
Recorded_RestoreOnly(passed) ==
  IF Script[step].call = "switch_off" THEN ~passed ELSE failed \/ ~passed

(* A faulty variant: the kill-switch check gives up when it has failed. *)
Failing_GivesUp(i) == IF i = 15 THEN 17 ELSE Script[i].failing

Recorded(passed) == failed \/ ~passed

Failing(i) == Script[i].failing

(* The answer is looked at.  Where the body is parsed whatever the status,  *)
(* r.json() raises if an error carries no JSON.                             *)
Check ==
  LET passed == answer \in Script[step].passes
  IN  /\ status = "running" /\ net = "served"
      /\ net' = "idle"
      /\ \/ /\ step' = IF passed THEN step + 1 ELSE Failing(step)
            /\ failed' = Recorded(passed)
            /\ UNCHANGED status
         \/ /\ Script[step].parses /\ answer \in {"error", "unavailable"}
            /\ status' = "raised"
            /\ UNCHANGED <<step, failed>>
      /\ UNCHANGED <<service, switch, setter, orders, answer, saw>>

(* A faulty variant: httpx.Client(timeout=None). *)
Raise_NoTimeout ==
  /\ status = "running" /\ net = "served"
  /\ status' = "raised"
  /\ UNCHANGED <<service, switch, setter, orders, step, net, answer, failed,
                 saw>>

(* The request ends in an exception: not connected, cut off, or nothing was *)
(* heard for 15 s.                                                          *)
Raise ==
  /\ status = "running" /\ net \in {"sent", "served", "read"}
  /\ status' = "raised"
  /\ UNCHANGED <<service, switch, setter, orders, step, net, answer, failed,
                 saw>>

Exit ==
  /\ status = "running" /\ step > Len(Script)
  /\ status' = IF failed THEN "failed" ELSE "passed"
  /\ UNCHANGED <<service, switch, setter, orders, step, net, answer, failed,
                 saw>>

Run == Skip \/ Send \/ Check \/ Raise \/ Exit

Next == Serve \/ Break \/ Trickle \/ Order \/ Run

Spec == Init /\ [][Next]_vars

(* The script goes on with an answer or, after 15 s of silence, without     *)
(* one.  That an answer that has begun to come in ends is not assumed.      *)
FairSpec == Spec /\ WF_vars(net # "read" /\ Run)

-----------------------------------------------------------------------------
Undisturbed == saw = {}

(* Exit code 0 is worth something: whatever is wrong with the service, one *)
(* of the checks has failed, with one exception.  A service that ignores   *)
(* its kill switch passes when the 503 the script waits for came from a    *)
(* proxy in front of it.                                                    *)
PassMeansConformant ==
  status = "passed" => faults = {} \/ (faults = {"switch"} /\ "screened" \in saw)

(* Exit code 1 is no false alarm: against a sound service that serves the  *)
(* script, every check passes unless a request failed or somebody else had *)
(* the kill switch set otherwise than the script while it was being served.*)
NoFalseAlarm ==
  status = "failed" /\ Undisturbed =>
    faults # {} \/ deployment # [admin |-> TRUE, broker |-> "open"]

(* The script leaves the service stopped in these cases and no others: it   *)
(* ended in an exception between sending the request that switches on and   *)
(* hearing the answer to the one that switches off; or one of these two     *)
(* requests was answered with an error, and then it exits with 1 or an      *)
(* exception, and never with 0.  The docstring promises more than the code  *)
(* does: see RestoresAlways.                                                *)
LeftOnOnlyByFailure ==
  switch /\ setter = "fixture" /\ status # "running" =>
    \/ status = "raised" /\ step \in {14} \cup SwitchedOn
    \/ status # "passed" /\ "unswitched" \in saw

(* No request holds the script for ever, unless its answer goes on coming   *)
(* in for ever: the service keeping silent does not.                        *)
Ends == []<>(status # "running" \/ net = "read")

(* "It always restores the kill switch to inactive when done, including on *)
(* failure" (production_fixture.py:19-20).                                 *)
RestoresAlways == status # "running" => ~(switch /\ setter = "fixture")

(* "It is the reproducible artifact behind claims like "the broker rejects  *)
(* a revoked receipt in production"" (production_fixture.py:7-8): against a *)
(* sound service, undisturbed and given the admin key, it passes, whatever  *)
(* key the broker asks for.                                                 *)
PassesWhenSound ==
  status = "failed" /\ Undisturbed /\ deployment.admin => faults # {}

(* What only an operator switched on, only an operator switches off. *)
OrdersStand ==
  [][switch /\ setter = "others" => switch' \/ setter' = "others"]_<<switch, setter>>
=============================================================================
