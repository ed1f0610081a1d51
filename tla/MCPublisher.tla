----------------------------- MODULE MCPublisher -----------------------------
(***************************************************************************)
(* Two nodes and two plans: one with two steps, one with a single step.    *)
(***************************************************************************)
EXTENDS Publisher

MCStepsOf == [id \in PlanIds |-> IF id = "A" THEN 2 ELSE 1]
=============================================================================
