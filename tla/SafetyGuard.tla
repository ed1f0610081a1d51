----------------------------- MODULE SafetyGuard -----------------------------
(***************************************************************************)
(* internal/safety: the rails. Two questions asked of a snapshot, answered *)
(* without state of their own.                                             *)
(***************************************************************************)
EXTENDS KubeCluster

CONSTANTS
    MaxNodesPerRun,  \* 0 is "no cap"
    MinReadyNodes,   \* 0 is "no floor"
    AllowRed

ASSUME GuardAssumption ==
    /\ MaxNodesPerRun \in Nat
    /\ MinReadyNodes \in Nat
    /\ AllowRed \in BOOLEAN

(* checkRed: windows are read when the question is asked. *)
RedPermitted(rating) == rating = "Red" => AllowRed \/ window

(* Seeded fault: the target is still counted as part of the pool. *)
FloorKeptCountingTarget(n) == Cardinality(Schedulable) >= MinReadyNodes

(* checkNodeFloor counts the target out of the schedulable pool. *)
FloorKept(n) == MinReadyNodes = 0 \/ Cardinality(Schedulable \ {n}) >= MinReadyNodes

(* Seeded fault: the cordoned nodes' room is counted as well. *)
FeasibleAnywhere(n) ==
    Cardinality(MovableOn(n)) <= Slots * Cardinality(exists \ {n}) -
        Cardinality({p \in Pods : Listed(p) /\ on[p] \in exists \ {n}})

(* checkStepFeasible: every movable pod of n is placed, one after the other,
   on some other schedulable node. With one pod size the search succeeds
   exactly when the free slots suffice. *)
Feasible(n) ==
    LET homes == Schedulable \ {n}
    IN  Cardinality(MovableOn(n)) <= Slots * Cardinality(homes) -
            Cardinality({p \in Pods : Listed(p) /\ on[p] \in homes})

(* CheckStep; every refusal ends the run the same way, so the order of the
   rules does not show. *)
CheckStep(n, rating, drainedSoFar) ==
    /\ MaxNodesPerRun = 0 \/ drainedSoFar < MaxNodesPerRun
    /\ n \in exists
    /\ RedPermitted(rating)
    /\ FloorKept(n)
    /\ Feasible(n)

(* CheckEviction: the published headroom, whatever state the pod is in. *)
CheckEviction(p) == Budgeted(OwnerOf[p]) => allowed[OwnerOf[p]] > 0
=============================================================================
