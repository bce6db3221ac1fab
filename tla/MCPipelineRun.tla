---------------------------- MODULE MCPipelineRun ----------------------------
(* The start-up task and the scheduler, each with one run over two         *)
(* tenants, two vulnerabilities, and one metric or two.                    *)
EXTENDS PipelineRun

CONSTANTS acme, zen, mttd, cve, c1, c2, boot, tick

MCTenants == {acme, zen}
MCMetrics == {mttd, cve}
MCCveOnly == {cve}
MCCves == {c1, c2}
MCCatalogs == {<<c1, c2>>}
MCRunners == {boot, tick}
MCScheduled == {tick}
=============================================================================
