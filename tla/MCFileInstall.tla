--------------------------- MODULE MCFileInstall ---------------------------
(* The instance of FileInstall that TLC checks. *)
EXTENDS FileInstall

CONSTANTS p1, p2, p3
MCProc == {p1, p2, p3}
=============================================================================
