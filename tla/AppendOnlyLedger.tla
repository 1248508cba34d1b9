---------------------------- MODULE AppendOnlyLedger ----------------------------
(***************************************************************************)
(* What the ledger promises to its callers, with nothing of how it does    *)
(* it: a sequence of rows that only grows at its end, each row naming the  *)
(* one before it, and a prefix of it that has been promised (some call     *)
(* returned it) and that no crash takes back.                              *)
(***************************************************************************)
EXTENDS Naturals, Sequences

CONSTANTS
    Row,          \* the rows that exist
    Links(_, _)   \* Links(s, r): r names the last row of s as its predecessor

VARIABLES
    log,        \* the rows a reader finds
    promised    \* the rows some append call has returned, or recovery has found

ledgerVars == <<log, promised>>

IsPrefixOf(s, t) == Len(s) <= Len(t) /\ \A n \in 1..Len(s) : s[n] = t[n]

Init == log = <<>> /\ promised = <<>>

Extend ==
    /\ Len(log') = Len(log) + 1
    /\ \A n \in 1..Len(log) : log'[n] = log[n]
    /\ log'[Len(log')] \in Row /\ Links(log, log'[Len(log')])
    /\ UNCHANGED promised

\* A call returns: everything up to some row is promised from now on.
Promise ==
    /\ \E k \in Len(promised)..Len(log) : promised' = SubSeq(log, 1, k)
    /\ UNCHANGED log

\* A crash may forget rows nobody was promised.
Forget ==
    /\ \E k \in Len(promised)..Len(log) : log' = SubSeq(log, 1, k)
    /\ UNCHANGED promised

Next == Extend \/ Promise \/ Forget

Spec == Init /\ [][Next]_ledgerVars

-----------------------------------------------------------------------------
\* What was promised is what the ledger holds.
PromisedHeld == IsPrefixOf(promised, log)
=============================================================================
