------------------------------ MODULE MCLedgerStore ------------------------------
(* A scan and a hook on one ledger. *)
EXTENDS LedgerStore

MCNoProc == "nobody"
MCNoKey == "none"
MCProc == {"scan", "hook"}
MCScanner == {"scan"}
MCKey == {"x"}
=============================================================================
