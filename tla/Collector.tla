------------------------------ MODULE Collector ------------------------------
(***************************************************************************)
(* internal/cluster: Kubernetes objects into a snapshot. The planner reads *)
(* an informer cache that holds objects with the unread fields stripped    *)
(* (Collector); the executor reads the API server itself (Direct). Both    *)
(* convert with the same functions.                                        *)
(*                                                                         *)
(* c.node, c.pod: API objects by name; c.budgets; c.replicaSets: the owner *)
(* of each ReplicaSet; c.watched: the namespaces the planner is limited    *)
(* to, none for all of them. Annotations are functions of the keys present.*)
(***************************************************************************)
EXTENDS Scheduling

HandsOffKeys == {"do-not-disrupt", "safe-to-evict"}

(* Seeded fault: the cache keeps the Karpenter annotation only. *)
TransformKarpenterOnly(pod) ==
    [pod EXCEPT !.annotations = Restrict(@, DOMAIN @ \cap {"do-not-disrupt"}), !.statuses = {}]

(* applyTransform: annotations go, except the two that say hands off, and the
   container statuses. Nodes keep everything but their images. *)
Transform(pod) ==
    [pod EXCEPT !.annotations = Restrict(@, DOMAIN @ \cap HandsOffKeys), !.statuses = {}]

(* What a pod object has of what is converted. *)
PodFields ==
    {"node", "ns", "labels", "annotations", "statuses", "containers", "inits", "overhead", "controller",
     "phase", "deleting", "claims", "nodeSelector", "nodeAffinity", "tolerations", "anti", "near", "spread"}

Annotated(obj, key, value) == key \in DOMAIN obj.annotations /\ obj.annotations[key] = value

(* ownerResolver: one level up from a ReplicaSet that can be read; otherwise
   the ReplicaSet stands for its owner. Kind "None": no controller. *)
OwnerOf(pod, replicaSets) ==
    IF pod.controller.kind = "ReplicaSet" /\ pod.controller.name \in DOMAIN replicaSets
       /\ replicaSets[pod.controller.name].kind # "None"
    THEN replicaSets[pod.controller.name]
    ELSE pod.controller

SumOf(seq) == MapThenSumSet(LAMBDA i : seq[i], DOMAIN seq)

(* effectiveRequests: containers and sidecars together, or the largest init
   container if that is more; and the overhead. *)
EffectiveRequests(containers, inits, overhead) ==
    LET sidecars == {i \in DOMAIN inits : inits[i].always}
        app == SumOf(containers) + MapThenSumSet(LAMBDA i : inits[i].cpu, sidecars)
    IN  Max({app} \cup {inits[i].cpu : i \in DOMAIN inits \ sidecars}) + overhead

(* convertNode. A node without a Ready condition is not ready. *)
ConvertNode(n) ==
    [labels |-> n.labels, taints |-> n.taints, cpu |-> n.cpu, slots |-> n.slots,
     ready |-> n.readyCondition = "True", cordoned |-> n.unschedulable, young |-> n.young,
     handsOff |-> Annotated(n, "do-not-disrupt", "true")]

(* convertPod, with convertNodeAffinity (the fields of a term are carried but
   never read downstream) and convertPodAffinity. *)
ConvertPod(p, replicaSets) ==
    [node |-> p.node, ns |-> p.ns, labels |-> p.labels,
     cpu |-> EffectiveRequests(p.containers, p.inits, p.overhead),
     owner |-> OwnerOf(p, replicaSets).kind, ownerName |-> OwnerOf(p, replicaSets).name,
     phase |-> IF p.deleting THEN "Terminating" ELSE p.phase,
     handsOff |-> Annotated(p, "do-not-disrupt", "true") \/ Annotated(p, "safe-to-evict", "false"),
     pvc |-> p.claims # {}, nodeSelector |-> p.nodeSelector,
     affinity |-> {t.expressions : t \in p.nodeAffinity},
     tolerations |-> p.tolerations, anti |-> p.anti, near |-> p.near, spread |-> p.spread]

(* Terminated pods are left out of every snapshot. *)
Live(c) == {p \in DOMAIN c.pod : c.pod[p].phase \notin {"Succeeded", "Failed"}}

(* New: with Options.Namespaces set the cache holds pods and budgets of those
   namespaces only; nodes have none and are all there. *)
Watches(c, ns) == c.watched = {} \/ ns \in c.watched
Cached(c) == {p \in Live(c) : Watches(c, c.pod[p].ns)}

(* Collector.Snapshot: the cache, which may not know a ReplicaSet yet. *)
CachedSnapshot(c) ==
    [node |-> [n \in DOMAIN c.node |-> ConvertNode(c.node[n])],
     pod |-> [p \in Cached(c) |-> ConvertPod(Transform(c.pod[p]), c.cachedReplicaSets)],
     budgets |-> {b \in c.budgets : Watches(c, b.ns)}]

(* Direct.Snapshot: the API server's objects, whole and of every namespace. *)
DirectSnapshot(c) ==
    [node |-> [n \in DOMAIN c.node |-> ConvertNode(c.node[n])],
     pod |-> [p \in Live(c) |-> ConvertPod(c.pod[p], c.replicaSets)],
     budgets |-> c.budgets]
=============================================================================
