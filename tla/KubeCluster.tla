----------------------------- MODULE KubeCluster -----------------------------
(***************************************************************************)
(* The cluster the executor acts on, as internal/cluster and              *)
(* internal/executor/k8s.go see it: nodes with a cordon flag, pods with a  *)
(* phase and a node, disruption budgets with the headroom their controller *)
(* publishes. Everything else that changes it (scheduler, kubelets,        *)
(* workload and disruption controllers, autoscaler, operators) is the      *)
(* environment and is not code of this repository.                         *)
(*                                                                         *)
(* Pods have one size, so a node is a number of slots; affinity, taints    *)
(* and spread are left to the placement model.                             *)
(***************************************************************************)
EXTENDS Integers, FiniteSets

CONSTANTS
    Nodes, Pods, Owners,
    OwnerOf,        \* the workload each pod name belongs to
    Stateful,       \* the workloads that reuse a pod's name (StatefulSets)
    Replicas,       \* pods each workload wants
    MinAvailable,   \* the budget of each workload; 0 is "no budget"
    Slots,          \* pods a node can hold
    Readiness,      \* executor.readiness: "Ready" or "Running"
    Protected,      \* pods annotated do-not-disrupt
    InitialOn,      \* where each pod runs at first; NoNode for an unused name
    MayBeCordoned,  \* nodes that may already be cordoned when a run starts
    EnvFaults,      \* which disturbances the environment may cause: see below
    NoNode

EnvFaultKinds == {
    "delete",     \* somebody deletes a pod without asking a budget
    "evict",      \* somebody else drains through the eviction API
    "cordon",     \* an operator cordons a node
    "uncordon",   \* an operator uncordons a node
    "remove",     \* the autoscaler removes an empty cordoned node
    "window" }    \* a maintenance window opens or closes

ASSUME ClusterAssumption ==
    /\ IsFiniteSet(Nodes) /\ IsFiniteSet(Pods)
    /\ OwnerOf \in [Pods -> Owners]
    /\ Stateful \subseteq Owners
    /\ Replicas \in [Owners -> Nat]
    /\ MinAvailable \in [Owners -> Nat]
    /\ Slots \in Nat
    /\ Readiness \in {"Ready", "Running"}
    /\ Protected \subseteq Pods
    /\ NoNode \notin Nodes
    /\ InitialOn \in [Pods -> Nodes \cup {NoNode}]
    /\ MayBeCordoned \subseteq Nodes
    /\ EnvFaults \subseteq EnvFaultKinds

VARIABLES
    exists,     \* nodes with a Node object; all of them Ready
    cordoned,   \* nodes with spec.unschedulable set
    phase,      \* pod name -> where it is in its life
    on,         \* pod name -> spec.nodeName
    allowed,    \* workload -> status.disruptionsAllowed of its budget
    window      \* a maintenance window that allows Red is open

clusterVars == <<exists, cordoned, phase, on, allowed, window>>

(* "none": no pod has this name now. *)
Phases == {"none", "pending", "running", "ready", "terminating"}
Alive  == {"pending", "running", "ready"}

ClusterTypeOK ==
    /\ exists \subseteq Nodes
    /\ cordoned \subseteq Nodes
    /\ phase \in [Pods -> Phases]
    /\ on \in [Pods -> Nodes \cup {NoNode}]
    /\ allowed \in [Owners -> Nat]
    /\ window \in BOOLEAN

-----------------------------------------------------------------------------
(* What a snapshot shows.                                                   *)

Listed(p)  == phase[p] # "none"
PodsOn(n)  == {p \in Pods : Listed(p) /\ on[p] = n}
PodsOf(o)  == {p \in Pods : OwnerOf[p] = o}

(* Pod.IsMovable: not terminating, not do-not-disrupt. DaemonSet and mirror
   pods are left out of Pods. *)
Movable(p) == phase[p] \in Alive /\ p \notin Protected
MovableOn(n) == {p \in PodsOn(n) : Movable(p)}

(* Seeded fault: a Running pod counts, whatever the criterion says. *)
RunningIsHealthy(p) == phase[p] \in {"running", "ready"}

(* healthy: Running, not terminating, and Ready unless the criterion waives it. *)
CountsAsHealthy(p) ==
    \/ phase[p] = "ready"
    \/ phase[p] = "running" /\ Readiness = "Running"

(* healthyByOwner *)
HealthyByOwner == [o \in Owners |-> Cardinality({p \in PodsOf(o) : CountsAsHealthy(p)})]

(* What a budget counts: Ready pods, whatever the executor's criterion is. *)
ReadyPods(o) == Cardinality({p \in PodsOf(o) : phase[p] = "ready"})

Schedulable == exists \ cordoned

(* occupiedNodes: nodes holding at least one movable pod. *)
Occupied == {n \in Nodes : MovableOn(n) # {}}

Budgeted(o) == MinAvailable[o] > 0
Headroom(o) == IF ReadyPods(o) > MinAvailable[o] THEN ReadyPods(o) - MinAvailable[o] ELSE 0

-----------------------------------------------------------------------------
InitCluster ==
    /\ exists = Nodes
    /\ cordoned \in SUBSET MayBeCordoned
    /\ on = InitialOn
    /\ phase = [p \in Pods |-> IF InitialOn[p] = NoNode THEN "none" ELSE "ready"]
    /\ allowed = [o \in Owners |-> Headroom(o)]
    /\ window \in BOOLEAN

(* A workload controller replaces a missing pod. A Deployment counts a
   terminating pod as already gone and draws a name nobody has seen, so never
   one that somebody remembers; a StatefulSet waits for the old object and
   takes the old name. *)
CreatePod(p, remembered) ==
    /\ phase[p] = "none"
    /\ OwnerOf[p] \in Stateful \/ p \notin remembered
    /\ Cardinality({q \in PodsOf(OwnerOf[p]) : phase[q] \in Alive}) < Replicas[OwnerOf[p]]
    /\ phase' = [phase EXCEPT ![p] = "pending"]
    /\ on' = [on EXCEPT ![p] = NoNode]
    /\ UNCHANGED <<exists, cordoned, allowed, window>>

BindPod(p, n) ==
    /\ phase[p] = "pending"
    /\ n \in Schedulable
    /\ Cardinality(PodsOn(n)) < Slots
    /\ phase' = [phase EXCEPT ![p] = "running"]
    /\ on' = [on EXCEPT ![p] = n]
    /\ UNCHANGED <<exists, cordoned, allowed, window>>

PodBecomesReady(p) ==
    /\ phase[p] = "running"
    /\ phase' = [phase EXCEPT ![p] = "ready"]
    /\ UNCHANGED <<exists, cordoned, on, allowed, window>>

(* The kubelet has stopped the containers and the object is removed. *)
PodTerminates(p) ==
    /\ phase[p] = "terminating"
    /\ phase' = [phase EXCEPT ![p] = "none"]
    /\ on' = [on EXCEPT ![p] = NoNode]
    /\ UNCHANGED <<exists, cordoned, allowed, window>>

(* The disruption controller publishes the headroom it computes. *)
SyncBudget(o) ==
    /\ Budgeted(o)
    /\ allowed[o] # Headroom(o)
    /\ allowed' = [allowed EXCEPT ![o] = Headroom(o)]
    /\ UNCHANGED <<exists, cordoned, phase, on, window>>

(* The eviction subresource: a missing or terminating pod is accepted as it
   is, a pod within its budget is deleted gracefully and the headroom is
   taken in the same transaction, anything else is refused with 429. *)
EvictionAccepted(p) ==
    \/ phase[p] \in {"none", "terminating", "pending"}
    \/ ~Budgeted(OwnerOf[p])
    \/ allowed[OwnerOf[p]] > 0

EvictPod(p) ==
    /\ EvictionAccepted(p)
    /\ phase' = [phase EXCEPT ![p] = IF @ \in Alive THEN "terminating" ELSE @]
    /\ allowed' = [allowed EXCEPT ![OwnerOf[p]] =
                      IF phase[p] \in {"running", "ready"} /\ Budgeted(OwnerOf[p]) THEN @ - 1 ELSE @]
    /\ UNCHANGED <<exists, cordoned, on, window>>

(* Disturbances. *)
OtherDeletesPod(p) ==
    /\ "delete" \in EnvFaults
    /\ phase[p] \in Alive
    /\ phase' = [phase EXCEPT ![p] = "terminating"]
    /\ UNCHANGED <<exists, cordoned, on, allowed, window>>

OtherEvictsPod(p) ==
    /\ "evict" \in EnvFaults
    /\ phase[p] \in {"running", "ready"}
    /\ EvictPod(p)

OperatorCordons(n) ==
    /\ "cordon" \in EnvFaults
    /\ n \in Schedulable
    /\ cordoned' = cordoned \cup {n}
    /\ UNCHANGED <<exists, phase, on, allowed, window>>

OperatorUncordons(n) ==
    /\ "uncordon" \in EnvFaults
    /\ n \in exists \cap cordoned
    /\ cordoned' = cordoned \ {n}
    /\ UNCHANGED <<exists, phase, on, allowed, window>>

AutoscalerRemoves(n) ==
    /\ "remove" \in EnvFaults
    /\ n \in exists \cap cordoned
    /\ PodsOn(n) = {}
    /\ exists' = exists \ {n}
    /\ cordoned' = cordoned \ {n}
    /\ UNCHANGED <<phase, on, allowed, window>>

WindowTurns ==
    /\ "window" \in EnvFaults
    /\ window' = ~window
    /\ UNCHANGED <<exists, cordoned, phase, on, allowed>>

(* Everything that is not the executor; remembered holds the pod names the
   executor still has in hand. *)
EnvNext(remembered) ==
    \/ \E p \in Pods :
          \/ CreatePod(p, remembered)
          \/ \E n \in Nodes : BindPod(p, n)
          \/ PodBecomesReady(p)
          \/ PodTerminates(p)
          \/ OtherDeletesPod(p)
          \/ OtherEvictsPod(p)
    \/ \E o \in Owners : SyncBudget(o)
    \/ \E n \in Nodes : OperatorCordons(n) \/ OperatorUncordons(n) \/ AutoscalerRemoves(n)
    \/ WindowTurns
=============================================================================
