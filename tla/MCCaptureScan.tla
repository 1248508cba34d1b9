----------------------------- MODULE MCCaptureScan -----------------------------
(* Two overlapping scans of one transcript. *)
EXTENDS CaptureScan

MCProc == {"timer", "manual"}
MCOneProc == {"timer"}
MCNoProc == "nobody"
MCSession == {"s"}
MCItem == {"x", "y"}
MCFresh == {"x"}
MCNoItem == "none"
=============================================================================
