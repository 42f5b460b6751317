----------------------------- MODULE OrderIntakeMC -----------------------------
(***************************************************************************)
(* Small instances of OrderIntake for TLC.                                 *)
(***************************************************************************)
EXTENDS OrderIntake, TLC

\* Attempts differ in nothing but their name.  Only the runs that check no
\* liveness property use it.
AttemptSymmetry == Permutations(Attempts)
================================================================================
