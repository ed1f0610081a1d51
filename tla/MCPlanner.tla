------------------------------ MODULE MCPlanner ------------------------------
(***************************************************************************)
(* Clusters for the planner: three nodes in two zones, four pods, and one  *)
(* trait at a time away from the ordinary.                                 *)
(***************************************************************************)
EXTENDS Greedy

Req(key, values) == [key |-> key, op |-> "In", values |-> values]

(* Node 3 is in a spot pool, node 1 of a known type, node 2 says nothing. *)
Labels(n) ==
    CASE n = 1 -> [zone |-> "a", hostname |-> n, instanceType |-> "large"]
      [] n = 2 -> [zone |-> "a", hostname |-> n]
      [] OTHER -> [zone |-> "b", hostname |-> n, pool |-> "spare", capacity |-> "spot"]

PlainNode(n) ==
    [labels |-> Labels(n), annotations |-> <<>>, taints |-> {},
     cpu |-> 4, slots |-> 4, readyCondition |-> "True", unschedulable |-> FALSE, young |-> FALSE]

Dedicated == [key |-> "dedicated", value |-> "infra", effect |-> "NoSchedule"]

(* Node 2 is ordinary, or differs in one trait. *)
NodeVariants ==
    {PlainNode(2),
     [PlainNode(2) EXCEPT !.unschedulable = TRUE],
     [PlainNode(2) EXCEPT !.young = TRUE],
     [PlainNode(2) EXCEPT !.annotations = "do-not-disrupt" :> "true"],
     [PlainNode(2) EXCEPT !.readyCondition = "None"],
     [PlainNode(2) EXCEPT !.taints = {Dedicated}],
     [PlainNode(2) EXCEPT !.labels = [zone |-> "a", role |-> "control-plane"]],
     [PlainNode(2) EXCEPT !.slots = 1, !.cpu = 2]}

Web(cpu) ==
    [node |-> NoNode, ns |-> "default", labels |-> [app |-> "web"],
     annotations |-> "checksum" :> "1", statuses |-> {"started"},
     containers |-> <<cpu>>, inits |-> <<>>, overhead |-> 0,
     controller |-> [kind |-> "ReplicaSet", name |-> "web-1"],
     phase |-> "Running", deleting |-> FALSE, claims |-> {}, nodeSelector |-> {}, nodeAffinity |-> {},
     tolerations |-> {}, anti |-> {}, near |-> {}, spread |-> {}]

Db == [Web(1) EXCEPT !.labels = [app |-> "db"], !.controller.name = "db-1"]
Owned(kind) == [Web(1) EXCEPT !.controller = [kind |-> kind, name |-> "own"]]
WebTerm(key) == [key |-> key, namespaces |-> {}, selector |-> {Req("app", {"web"})}]
WebSpread(key) == [key |-> key, maxSkew |-> 1, hard |-> TRUE, selector |-> {Req("app", {"web"})}]
Term(key, value) == [expressions |-> {Req(key, {value})}, fields |-> {}]

Traits ==
    {Web(1),
     Web(0),
     [Web(1) EXCEPT !.containers = <<1, 1>>, !.inits = <<[cpu |-> 1, always |-> TRUE], [cpu |-> 2, always |-> FALSE]>>],
     [Web(1) EXCEPT !.anti = {WebTerm("hostname")}],
     [Web(1) EXCEPT !.anti = {WebTerm("zone")}],
     [Web(1) EXCEPT !.near = {WebTerm("zone")}],
     [Web(1) EXCEPT !.spread = {WebSpread("zone")}],
     [Web(1) EXCEPT !.spread = {WebSpread("hostname")}],
     Owned("DaemonSet"), Owned("Node"), Owned("None"),
     [Owned("StatefulSet") EXCEPT !.claims = {"data"}],
     [Web(1) EXCEPT !.annotations = "do-not-disrupt" :> "true"],
     [Web(1) EXCEPT !.annotations = "safe-to-evict" :> "false"],
     [Web(1) EXCEPT !.deleting = TRUE],
     [Web(1) EXCEPT !.phase = "Succeeded"],
     [Web(1) EXCEPT !.ns = "kube-system"],
     Db,
     [Web(1) EXCEPT !.labels = <<>>, !.controller.name = "db-1"],
     [Web(1) EXCEPT !.nodeSelector = {Req("zone", {"b"})}],
     [Web(1) EXCEPT !.nodeAffinity = {Term("zone", "a"), Term("role", "batch")}],
     [Web(1) EXCEPT !.tolerations = {[key |-> "dedicated", op |-> "Exists", value |-> "", effect |-> ""]}]}

Elsewhere(obj) == [obj EXCEPT !.ns = "team"]
WebBudget(allowed) == [ns |-> "default", selector |-> {Req("app", {"web"})}, allowed |-> allowed]

Deployments == "web-1" :> [kind |-> "Deployment", name |-> "web"]
Cluster(node2, pods, where, budgets, cached) ==
    [node |-> [n \in 1..3 |-> IF n = 2 THEN node2 ELSE PlainNode(n)],
     pod |-> [p \in DOMAIN pods |-> [pods[p] EXCEPT !.node = where[p]]],
     budgets |-> budgets,
     replicaSets |-> Deployments,
     cachedReplicaSets |-> cached,
     watched |-> {}]

(* The planner limited to one namespace, on a cluster with two. *)
Limited(pods, where, budgets) ==
    [Cluster(PlainNode(2), pods, where, budgets, <<>>) EXCEPT !.watched = {"default"}]

(* Pod 1 on node 1, pod 2 beside it or not, wherever 3 and 4 are. *)
Spots == {<<1, b, c, d>> : b \in {1, 2}, c \in {1, 2, 3}, d \in {2, 3}}

(* Three nodes equally full under the ceiling: a pod that keeps to the other's
   zone first goes to the empty node between them, and later on from there. *)
ThroughTheEmptyNode ==
    Cluster([PlainNode(2) EXCEPT !.slots = 1, !.cpu = 2],
            <<[Web(1) EXCEPT !.near = {WebTerm("zone")}], Web(0), Db>>, <<1, 1, 3>>, {}, <<>>)

(* A trait twice, on every kind of node; traits crossed; traits under a budget;
   traits in and out of the watched namespace. *)
MCClusters ==
    {Cluster(v, <<Web(1), Db, t, t>>, w, {}, <<>>) : v \in NodeVariants, t \in Traits, w \in Spots}
    \cup {Cluster(PlainNode(2), <<Web(1), t, u, Web(1)>>, <<1, 2, n, 3>>, {}, Deployments) :
              t, u \in Traits, n \in 1..3}
    \cup {Cluster(PlainNode(2), <<Web(1), Web(1), t, Web(1)>>, <<1, 2, n, 3>>, {WebBudget(a)}, <<>>) :
              t \in Traits, n \in 1..3, a \in {0, 1, 2}}
    \cup {Limited(<<Web(1), t, Elsewhere(t), Elsewhere(Web(1))>>, <<1, 2, n, 3>>,
                   {WebBudget(a), Elsewhere(WebBudget(0))}) : t \in Traits, n \in 1..3, a \in {0, 1}}
    \cup {ThroughTheEmptyNode}

MCOptions == {[ceiling |-> 0, maxSteps |-> 0], [ceiling |-> 75, maxSteps |-> 0], [ceiling |-> 0, maxSteps |-> 1]}
=============================================================================
