----------------------------- MODULE OrderLedgerMC -----------------------------
(***************************************************************************)
(* Small instances of OrderLedger for TLC.                                 *)
(***************************************************************************)
EXTENDS OrderLedger

\* Every endpoint whose writers all take the advisory lock, plus the status
\* writers that do not.
LockedEndpoints ==
    {"remote", "pos", "autostart", "market", "pay", "refund", "partial",
     "adjust", "append", "status"}

AllEndpoints == LockedEndpoints \cup {"posPaid", "edit"}
================================================================================
