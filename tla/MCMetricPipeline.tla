--------------------------- MODULE MCMetricPipeline ---------------------------
(* Two processes, an ascending, a descending and a closed interval, and    *)
(* values in every band and beyond the green one.                          *)
EXTENDS MetricPipeline, TLC

CONSTANTS p1, p2, rising, falling, closed

MCProcs == {p1, p2}
MCConfigs == {rising, falling, closed}
MCValues == {1, 2, 3}
MCSymmetry == Permutations(MCProcs)

(* Green, amber and red are [1, 2), [2, 3), [3, 9): of a time to detect.   *)
Rising == [interval |-> "[min, max)", greenMin |-> 1, greenMax |-> 2,
           amberMin |-> 2, amberMax |-> 3, redMin |-> 3, redMax |-> 9]

(* Green is (1, 2], amber (0, 1], red up to 0, and 3 is beyond green: of a *)
(* percentage that is a count (KPI-PHI-001).                               *)
Falling == [interval |-> "(min, max]", greenMin |-> 1, greenMax |-> 2,
            amberMin |-> 0, amberMax |-> 1, redMin |-> -9, redMax |-> 0]

(* Green is [1, 2], amber [3, 4]: of a rate of false positives.            *)
Closed == [interval |-> "[min, max]", greenMin |-> 1, greenMax |-> 2,
           amberMin |-> 3, amberMax |-> 4, redMin |-> 5, redMax |-> 9]

MCThreshold == (rising :> Rising) @@ (falling :> Falling) @@ (closed :> Closed)
=============================================================================
