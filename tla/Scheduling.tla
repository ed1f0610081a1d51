------------------------------ MODULE Scheduling ------------------------------
(***************************************************************************)
(* What internal/model says about a snapshot: resources, labels and        *)
(* selectors, taints, pods, budgets. Plain data and pure operators; the    *)
(* snapshot is a parameter of every one of them.                           *)
(*                                                                         *)
(* A snapshot s has                                                        *)
(*   s.node    name -> labels, taints, cpu, slots, ready, cordoned,        *)
(*             young, handsOff                                             *)
(*   s.pod     name -> node, ns, labels, cpu, owner (its kind), ownerName, *)
(*             phase, handsOff, pvc, nodeSelector, affinity (terms),       *)
(*             tolerations, anti, near, spread                             *)
(*   s.budgets set of ns, selector, allowed                                *)
(* Memory is treated by the code exactly as CPU and is left out.           *)
(***************************************************************************)
EXTENDS Integers, FiniteSets, FiniteSetsExt, Functions

CONSTANT NoNode    \* Pod.NodeName == ""

-----------------------------------------------------------------------------
(* Resources: CPU and pod slots.                                            *)

NoResources == [cpu |-> 0, slots |-> 0]
Plus(r, o) == [cpu |-> r.cpu + o.cpu, slots |-> r.slots + o.slots]

(* Sub clamps every component at zero. *)
AtLeastZero(v) == IF v > 0 THEN v ELSE 0

Minus(r, o) == [cpu |-> AtLeastZero(r.cpu - o.cpu), slots |-> AtLeastZero(r.slots - o.slots)]

Fits(r, capacity) == r.cpu <= capacity.cpu /\ r.slots <= capacity.slots

(* A ratio is a numerator and a denominator; zero capacity gives zero. *)
Ratio(v, capacity) == IF capacity <= 0 THEN <<0, 1>> ELSE <<v, capacity>>
Lower(a, b) == a[1] * b[2] < b[1] * a[2]

DominantRatio(r, capacity) ==
    LET cpu == Ratio(r.cpu, capacity.cpu)
        slots == Ratio(r.slots, capacity.slots)
    IN  IF Lower(cpu, slots) THEN slots ELSE cpu

-----------------------------------------------------------------------------
(* Labels are functions whose domain is the keys present. A selector is a set
   of requirements; {} matches everything, as nil and the empty one do.     *)

RequirementHolds(r, labels) ==
    LET present == r.key \in DOMAIN labels
    IN  CASE r.op = "Exists"       -> present
          [] r.op = "DoesNotExist" -> ~present
          [] r.op = "In"           -> present /\ labels[r.key] \in r.values
          [] r.op = "NotIn"        -> ~present \/ labels[r.key] \notin r.values
          [] OTHER                 -> FALSE      \* Gt, Lt: never feasible

Matches(selector, labels) == \A r \in selector : RequirementHolds(r, labels)

(* "" is the wildcard key and the wildcard effect. *)
ToleratesTaint(t, taint) ==
    /\ t.effect \in {"", taint.effect}
    /\ IF t.key = ""
       THEN t.op = "Exists"
       ELSE t.key = taint.key /\ (t.op = "Exists" \/ t.value = taint.value)

-----------------------------------------------------------------------------
(* Pods.                                                                    *)

(* A pod's share of a node: its request and one slot. *)
Need(pod) == [cpu |-> pod.cpu, slots |-> 1]

PinnedToNode(pod) == pod.owner \in {"DaemonSet", "Node"}
Finished(pod) == pod.phase \in {"Succeeded", "Failed"}

(* Seeded fault: static pods, owned by their node, are taken for movable. *)
IsMovableDaemonSetOnly(pod) ==
    /\ pod.phase # "Terminating" /\ ~Finished(pod)
    /\ pod.owner # "DaemonSet"
    /\ ~pod.handsOff

IsMovable(pod) ==
    /\ pod.phase # "Terminating" /\ ~Finished(pod)
    /\ ~PinnedToNode(pod)
    /\ ~pod.handsOff

Blocks(budget) == budget.allowed <= 0

(* The budgets over a pod: its namespace, a selector that is not empty. *)
Covering(s, pod) ==
    {b \in s.budgets : b.ns = pod.ns /\ b.selector # {} /\ Matches(b.selector, pod.labels)}

-----------------------------------------------------------------------------
(* Snapshots.                                                               *)

NodesOf(s) == DOMAIN s.node
PodsOf(s)  == DOMAIN s.pod

Allocatable(s, n) == [cpu |-> s.node[n].cpu, slots |-> s.node[n].slots]

SumNeed(s, ps) ==
    [cpu |-> SumFunction([p \in ps |-> s.pod[p].cpu]), slots |-> Cardinality(ps)]

RequestedOnNode(s, n) ==
    SumNeed(s, {p \in PodsOf(s) : s.pod[p].node = n /\ ~Finished(s.pod[p])})

(* occupiedInSnapshot: every node carrying anything at all. *)
OccupiedInSnapshot(s) == {n \in NodesOf(s) : RequestedOnNode(s, n) # NoResources}
=============================================================================
