---------------------------- MODULE MCCommitBinding ----------------------------
(* One hook, one sweep and one enroll over two commits, with one kill or   *)
(* unenroll.                                                               *)
EXTENDS CommitBinding

CONSTANTS h1, s1, e1

MCHook == {h1}
MCSweep == {s1}
MCEnroller == {e1}
=============================================================================
