------------------------------- MODULE Analyzer -------------------------------
(***************************************************************************)
(* internal/constraints/analyzer.go: the effective constraints of every    *)
(* pod, and the reports the API projects from them. A constraint is its    *)
(* kind, whether it is hard and whether it blocks; explanations are left   *)
(* out.                                                                    *)
(***************************************************************************)
EXTENDS Placement

Constraint(kind, hard, blocking) == [kind |-> kind, hard |-> hard, blocking |-> blocking]
If(b, c) == IF b THEN {c} ELSE {}

(* Seeded fault: a budget is read as blocking only below zero. *)
PdbConstraintsNegative(s, pod) ==
    {Constraint("PDB", TRUE, b.allowed < 0) : b \in Covering(s, pod)}

PdbConstraints(s, pod) == {Constraint("PDB", TRUE, Blocks(b)) : b \in Covering(s, pod)}

(* What pins the pod or keeps hands off it. *)
PinningConstraints(pod) ==
    If(pod.handsOff, Constraint("DoNotDisrupt", TRUE, TRUE))
    \cup If(PinnedToNode(pod) \/ pod.phase = "Terminating", Constraint("ControllerPinned", TRUE, TRUE))

(* A selector or affinity that no node satisfies blocks. *)
NodeConstraints(s, pod) ==
    If(pod.nodeSelector # {},
       Constraint("NodeSelector", TRUE, ~\E n \in NodesOf(s) : FitsNodeSelector(pod, s.node[n])))
    \cup If(pod.affinity # {},
       Constraint("NodeAffinity", TRUE, ~\E n \in NodesOf(s) : FitsNodeAffinity(pod, s.node[n])))

PodAffinityConstraints(pod) ==
    {Constraint("PodAntiAffinity", TRUE, FALSE) : t \in pod.anti}
    \cup {Constraint("PodAffinity", TRUE, FALSE) : t \in pod.near}

TopologySpreadConstraints(pod) == {Constraint("TopologySpread", t.hard, FALSE) : t \in pod.spread}

(* A toleration with a key that opens a node some taint closes. *)
TaintToleranceConstraint(s, pod) ==
    If(\E n \in NodesOf(s) : \E taint \in {t \in s.node[n].taints : t.effect # "PreferNoSchedule"} :
           \E tol \in pod.tolerations : tol.key # "" /\ ToleratesTaint(tol, taint),
       Constraint("Taint", FALSE, FALSE))

ConstraintsOf(s, pod) ==
    PinningConstraints(pod) \cup PdbConstraints(s, pod)
    \cup {Constraint("Resources", TRUE, FALSE)}
    \cup NodeConstraints(s, pod) \cup PodAffinityConstraints(pod)
    \cup TopologySpreadConstraints(pod) \cup TaintToleranceConstraint(s, pod)
    \cup If(pod.pvc, Constraint("PersistentVolume", FALSE, FALSE))

Blockers(pc) == {c \in pc.constraints : c.blocking}

(* analyzePod: any blocker makes it immovable, and only a movable pod is asked
   where it could go. *)
AnalyzePod(s, w, p) ==
    LET cs == ConstraintsOf(s, s.pod[p])
        movable == IsMovable(s.pod[p]) /\ \A c \in cs : ~c.blocking
    IN  [node |-> s.pod[p].node, constraints |-> cs, movable |-> movable,
         pinned |-> PinnedToNode(s.pod[p]),
         candidates |-> IF movable THEN CandidateNodes(s, w, p) ELSE {}]

(* Analyze: against the full allocatable, whatever the packing ceiling. *)
Analyze(s) ==
    LET w == NewPlacementCeiling(s, 0) IN [p \in PodsOf(s) |-> AnalyzePod(s, w, p)]

OnNode(a, n) == {p \in DOMAIN a : a[p].node = n}

(* Analysis.NodeDrainable *)
NodeDrainable(a, n) == \A p \in OnNode(a, n) : a[p].pinned \/ (a[p].movable /\ a[p].candidates # {})

(* Analysis.Summarize *)
Summarize(a) ==
    LET Count(kind, Test(_)) ==
            MapThenSumSet(LAMBDA p : Cardinality({c \in a[p].constraints : c.kind = kind /\ Test(c)}), DOMAIN a)
    IN  [pods |-> Cardinality(DOMAIN a),
         movable |-> Cardinality({p \in DOMAIN a : a[p].movable}),
         blocked |-> Cardinality({p \in DOMAIN a : ~a[p].movable}),
         stuck |-> Cardinality({p \in DOMAIN a : a[p].movable /\ a[p].candidates = {}}),
         pdbBlocked |-> Count("PDB", LAMBDA c : c.blocking),
         spreadBound |-> Count("TopologySpread", LAMBDA c : c.hard)]

-----------------------------------------------------------------------------
(* The projections of the API.                                              *)

(* handlePreflight, over a fresh analysis of the stored snapshot. *)
PreflightBlocks(pc) == IF pc.movable THEN pc.candidates = {} ELSE Blockers(pc) # {}
Preflight(s) ==
    LET a == Analyze(s)
    IN  [n \in NodesOf(s) |-> [pods |-> Cardinality(OnNode(a, n)),
                               drainable |-> ~\E p \in OnNode(a, n) : PreflightBlocks(a[p])]]

(* handleResilience: immovable and not pinned, and every exhausted budget. *)
Resilience(s) ==
    LET a == Analyze(s)
    IN  [pods |-> {p \in PodsOf(s) : ~a[p].movable /\ ~a[p].pinned /\ Blockers(a[p]) # {}},
         budgets |-> {b \in s.budgets : Blocks(b)}]

(* handleWhatif: the snapshot without the removed nodes. Movable pods of a
   removed node stay, homeless; the others fall away with it. *)
Without(s, removed) ==
    LET kept == {p \in PodsOf(s) : s.pod[p].node \notin removed \/ IsMovable(s.pod[p])}
    IN  [node |-> [n \in NodesOf(s) \ removed |-> s.node[n]],
         pod |-> [p \in kept |-> IF s.pod[p].node \in removed
                                 THEN [s.pod[p] EXCEPT !.node = NoNode] ELSE s.pod[p]],
         budgets |-> s.budgets]

Displaced(s, removed) == {p \in PodsOf(s) : s.pod[p].node \in removed /\ IsMovable(s.pod[p])}

(* Refused: an unknown node, or every node. An empty request is refused too,
   but a zone that no node is in removes nothing and is answered. *)
WhatifAccepted(s, removed) == removed \subseteq NodesOf(s) /\ removed # NodesOf(s)

Whatif(s, removed) ==
    LET a == Analyze(Without(s, removed))
        homeless == {p \in Displaced(s, removed) : a[p].candidates = {}}
    IN  [displaced |-> Displaced(s, removed), homeless |-> homeless, fits |-> homeless = {}]
=============================================================================
