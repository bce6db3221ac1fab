--------------------------- MODULE MCEvidenceVault ---------------------------
(* A production and a demo tenant, two appending and two listing           *)
(* coroutines, each free to serve either tenant.                           *)
EXTENDS EvidenceVault, TLC

CONSTANTS acme, demo, w1, w2, l1, l2

MCTenants == {acme, demo}
MCDemoTenants == {demo}
MCWriters == {w1, w2}
MCListers == {l1, l2}
MCSeedLinks == <<TRUE, FALSE>>
MCSymmetry == Permutations(MCWriters) \cup Permutations(MCListers)
==============================================================================
