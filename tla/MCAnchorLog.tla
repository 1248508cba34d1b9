------------------------------ MODULE MCAnchorLog ------------------------------
(* Two cuts, publish and upgrade over two days. *)
EXTENDS AnchorLog, TLC

CONSTANTS c1, c2

MCCutter == {c1, c2}
MCOneCutter == {c1}
MCSymmetry == Permutations(MCCutter)
MCDate == {1, 2}

\* A bound: from a fault on, and while there are upgrades, cuts take turns.
OverlapBound == overlapped => faults = 0 /\ upc = "idle"
=============================================================================
