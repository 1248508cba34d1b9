--------------------------- MODULE MCScanSchedule ---------------------------
(* The instances of ScanSchedule that TLC checks. *)
EXTENDS ScanSchedule, TLC

CONSTANTS c1, c2, r1, r2
MCCmd == {c1, c2}
MCRun == {r1, r2}
MCSymmetry == Permutations(MCCmd) \cup Permutations(MCRun)
MCLocation == {1, 2}
=============================================================================
