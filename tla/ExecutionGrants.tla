--------------------------- MODULE ExecutionGrants ---------------------------
(***************************************************************************)
(* What the broker tier promises, without handlers, clock, keys, hashes or *)
(* failures: a grant is good for one call to the outside world.  A call    *)
(* must be admitted while its grant is live; it must then win the grant,   *)
(* which one call ever does; and it goes out at most once.                 *)
(*                                                                         *)
(* The promise is deliberately about admission: a grant withdrawn after a  *)
(* call was admitted does not recall the call.                             *)
(***************************************************************************)
CONSTANTS Grants, Calls

VARIABLES
  granted,    \* grants given out
  withdrawn,  \* grants revoked
  admitted,   \* [Calls -> SUBSET Grants]: the grant each call was admitted under
  winner,     \* [Grants -> SUBSET Calls]: the call that spent each grant
  made        \* calls that went out

grantVars == <<granted, withdrawn, admitted, winner, made>>

GrantsInit ==
  /\ granted = {}
  /\ withdrawn = {}
  /\ admitted = [c \in Calls |-> {}]
  /\ winner = [g \in Grants |-> {}]
  /\ made = {}

GiveGrant(g) ==
  /\ g \notin granted
  /\ granted' = granted \cup {g}
  /\ UNCHANGED <<withdrawn, admitted, winner, made>>

Withdraw(G) ==
  /\ G \subseteq granted
  /\ withdrawn' = withdrawn \cup G
  /\ UNCHANGED <<granted, admitted, winner, made>>

AdmitCall(c, g) ==
  /\ admitted[c] = {}
  /\ g \in granted \ withdrawn
  /\ admitted' = [admitted EXCEPT ![c] = {g}]
  /\ UNCHANGED <<granted, withdrawn, winner, made>>

SpendGrant(c, g) ==
  /\ g \in admitted[c]
  /\ winner[g] = {}
  /\ winner' = [winner EXCEPT ![g] = {c}]
  /\ UNCHANGED <<granted, withdrawn, admitted, made>>

MakeCall(c, g) ==
  /\ c \in winner[g]
  /\ c \notin made
  /\ made' = made \cup {c}
  /\ UNCHANGED <<granted, withdrawn, admitted, winner>>

GrantsNext ==
  \/ \E g \in Grants : GiveGrant(g)
  \/ \E G \in SUBSET Grants : Withdraw(G)
  \/ \E c \in Calls, g \in Grants :
       AdmitCall(c, g) \/ SpendGrant(c, g) \/ MakeCall(c, g)

GrantsSpec == GrantsInit /\ [][GrantsNext]_grantVars
=============================================================================
