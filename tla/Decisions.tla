------------------------------ MODULE Decisions ------------------------------
(***************************************************************************)
(* An action that is put to one of the two decision tiers again and again: *)
(* to runtime.evaluate (POST /runtime/evaluate), by an agent whose counts  *)
(* rise and fall as time passes, or to policy_engine.evaluate (POST        *)
(* /attested/evaluate), by an adapter that loses facts or raises the       *)
(* amount.  The tiers share no state: the other tier's request rests.      *)
(***************************************************************************)
EXTENDS RuntimeRules, PolicyEngine

(* There is something to decide in either tier.                             *)
ASSUME TiersAssumption == Requests # {} /\ PolicyRequests # {}

VARIABLE tier

allVars == <<vars, ask, tier>>

AtRest == CHOOSE p \in PolicyRequests : TRUE
AtRestRuntime == CHOOSE r \in Requests : TRUE

DecisionsInit ==
  \/ /\ tier = "runtime"
     /\ Init
     /\ ask = AtRest
  \/ /\ tier = "policy"
     /\ PolicyInit
     /\ now = 0
     /\ req = AtRestRuntime

DecisionsNext ==
  \/ tier = "runtime" /\ Next /\ UNCHANGED <<ask, tier>>
  \/ tier = "policy" /\ PolicyNext /\ UNCHANGED <<vars, tier>>

DecisionsSpec == DecisionsInit /\ [][DecisionsNext]_allVars
=============================================================================
