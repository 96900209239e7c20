------------------------- MODULE MCProductionFixture -------------------------
EXTENDS ProductionFixture

(* A sound service, one fault, or one beside an ignored kill switch, which  *)
(* is the fault a proxy can hide. *)
MCFaultSets == {{}} \cup {{f} : f \in Faults} \cup {{f, "switch"} : f \in Faults}
MCDeployments == Deployment
=============================================================================
