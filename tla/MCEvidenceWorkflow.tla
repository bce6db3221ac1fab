-------------------------- MODULE MCEvidenceWorkflow --------------------------
(* Two concurrent handlers and one row of each kind.                       *)
EXTENDS EvidenceWorkflow, TLC

CONSTANTS h1, h2, req, fnd, pen, doc

MCHandlers == {h1, h2}
MCRequests == {req}
MCFindings == {fnd}
MCPenTests == {pen}
MCDocuments == {doc}
MCSymmetry == Permutations(MCHandlers)
=============================================================================
