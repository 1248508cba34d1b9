---------------------------- MODULE MCLifecycleQueue ----------------------------
(* Two hooks and the scan; a compaction and the start that follows it. *)
EXTENDS LifecycleQueue

MCHook == {"h1", "h2"}
MCNoProc == "nobody"
MCScan == "scan"
MCEvent == {"pre", "cstart"}
MCKindOf == [pre |-> "compact_pre", cstart |-> "compact_start"]
MCBad == "bad"
MCRefused == "refused"
=============================================================================
