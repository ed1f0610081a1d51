----------------------------- MODULE MCExecutor -----------------------------
(* Small clusters for TLC. Pod names are strings: the workload's letter and a
   number; unused names stand for replacements. *)
EXTENDS Executor

(* Two workloads, web with a budget and job without. *)
WebPods == {"w1", "w2", "w3"}
JobPods == {"j1", "j2"}
MCPods  == WebPods \cup JobPods
MCOwners == {"web", "job"}
MCOwnerOf == [p \in MCPods |-> IF p \in WebPods THEN "web" ELSE "job"]
MCReplicas == [o \in MCOwners |-> IF o = "web" THEN 2 ELSE 1]
MCMinAvailable == [o \in MCOwners |-> IF o = "web" THEN 1 ELSE 0]
MCNodes == {"n1", "n2", "n3"}


(* n1 and n2 are used, n3 is idle. *)
MCInitialOn == [p \in MCPods |->
    CASE p = "w1" -> "n1" [] p = "j1" -> "n1" [] p = "w2" -> "n2" [] OTHER -> "none"]

(* One workload with a budget, for the runs in which others interfere. *)
SmallPods == WebPods
SmallOwners == {"web"}
SmallOwnerOf == [p \in SmallPods |-> "web"]
SmallReplicas == [o \in SmallOwners |-> 2]
SmallMinAvailable == [o \in SmallOwners |-> 1]
SmallInitialOn == [p \in SmallPods |->
    CASE p = "w1" -> "n1" [] p = "w2" -> "n2" [] OTHER -> "none"]

(* One workload of three replicas on nodes of two slots: two nodes are needed,
   so a drain leaves little room for the next. *)
RailsNodes == MCNodes \cup {"n4"}
RailsPods == WebPods \cup {"w4"}
RailsOwnerOf == [p \in RailsPods |-> "web"]
RailsReplicas == [o \in SmallOwners |-> 3]
RailsMinAvailable == [o \in SmallOwners |-> 2]
RailsInitialOn == [p \in RailsPods |->
    CASE p = "w1" -> "n1" [] p = "w2" -> "n2" [] p = "w3" -> "n3" [] OTHER -> "none"]
=============================================================================
