------------------------------- MODULE MCPlatform -------------------------------
(* Three people for one seat of the trial, two events, two requests; one   *)
(* SIEM, one socket, two uploads, one change of the SIEM, one fault; four  *)
(* entries of two organisations, two of them lost.                         *)
EXTENDS Platform, TLC

CONSTANTS founder, ann, bob, h1, h2, trial, growth, splunk, socket1, acme, globex

MCPeople == {founder, ann, bob}
MCHandlers == {h1, h2}
MCPlans == {trial, growth}
MCSeats == (trial :> 1) @@ (growth :> 2)
MCEvents == {1, 2}
MCKind == (1 :> "checkout") @@ (2 :> "deleted")
MCPlanOf == [e \in MCEvents |-> growth]
MCRequests == {h1}
MCSockets == {socket1}
MCSiemTypes == {splunk}
MCTenants == {acme, globex}
=============================================================================
