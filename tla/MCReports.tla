------------------------------- MODULE MCReports -------------------------------
(* One organisation with two schedules, two run identifiers and one        *)
(* concurrent reader.                                                      *)
EXTENDS Reports, TLC

CONSTANTS acme, s1, s2, startup, r1, reader1

MCTenants == {acme}
MCSchedules == {s1, s2}
MCRuns == {startup, r1}
MCReaders == {reader1}
MCScheduleTenant == (s1 :> acme) @@ (s2 :> acme)
=============================================================================
