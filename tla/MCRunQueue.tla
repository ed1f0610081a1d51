----------------------------- MODULE MCRunQueue -----------------------------
(***************************************************************************)
(* Instances of RunQueue for TLC. Liveness is checked in the same run as   *)
(* safety, so no symmetry is declared.                                     *)
(***************************************************************************)
EXTENDS RunQueue
=============================================================================
