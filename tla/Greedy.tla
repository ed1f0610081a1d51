-------------------------------- MODULE Greedy --------------------------------
(***************************************************************************)
(* internal/planner: the first-fit-decreasing packer, one action per turn  *)
(* of its loops, from the analysis of a snapshot to the rated plan.        *)
(* The cycle after it plans the same cluster again from lists that come in *)
(* another order, as informers and map iteration deliver them.             *)
(*                                                                         *)
(* Node and pod names are numbers: names are ordered, and ties are broken  *)
(* by name. A pod's name stands for its namespace/name key.                *)
(***************************************************************************)
EXTENDS Recommend, Collector, TLC

SX == INSTANCE SequencesExt    \* its Remove is another one

CONSTANTS
    Clusters,             \* what the API server and the cache may hold
    OptionSets,           \* Options: ceiling, maxSteps
    ExcludeNodeLabels, ExcludeNamespaces,
    NoPlan

(* Lists are finite and the API server accepts no negative quantity or skew. *)
ASSUME ClustersAssumption ==
    \A c \in Clusters :
        LET s == CachedSnapshot(c)
        IN  /\ IsFiniteSet(NodesOf(s)) /\ IsFiniteSet(PodsOf(s))
            /\ NoNode \notin NodesOf(s)
            /\ \A n \in NodesOf(s) : s.node[n].cpu \in Nat /\ s.node[n].slots \in Nat
            /\ \A p \in PodsOf(s) :
                  s.pod[p].cpu \in Nat /\ \A tsc \in s.pod[p].spread : tsc.maxSkew \in Nat

(* Numbers stand for names, of which any two are ordered. *)
ASSUME NamesAssumption ==
    \A c \in Clusters : NodesOf(CachedSnapshot(c)) \cup PodsOf(CachedSnapshot(c)) \subseteq Int

ASSUME OptionsAssumption == OptionSets \subseteq [ceiling : Nat, maxSteps : Nat]

(* Pods are objects of one type, and what controls a ReplicaSet is a Deployment
   or the like. *)
ASSUME ObjectsAssumption ==
    \A c \in Clusters :
        /\ \A p \in DOMAIN c.pod : DOMAIN c.pod[p] = PodFields
        /\ \A known \in {c.replicaSets, c.cachedReplicaSets} : \A r \in DOMAIN known :
              known[r].kind \notin {"DaemonSet", "Node", "StatefulSet"}

VARIABLES
    cluster, opts,        \* the objects, the Options
    snap, list,           \* the snapshot; list = the order of its nodes and pods
    phase,                \* "listed", "packing", "trial", "done"
    analysis, work,       \* Analysis; the working Placement
    queue, drained,       \* candidates still to visit; nodes given up
    trial, toMove, moves, \* tryDrain's copy, pods left to place, moves so far
    made,                 \* how many accepted moves are made in the working placement
    steps, alreadyReclaimable,
    plan, prior           \* the plan computed, the plan of the cycle before

vars == <<cluster, snap, opts, list, phase, analysis, work, queue, drained, trial, toMove, moves,
          made, steps, alreadyReclaimable, plan, prior>>
inputs == <<cluster, snap, opts, list, prior>>

Init ==
    /\ cluster \in Clusters /\ opts \in OptionSets
    /\ snap = CachedSnapshot(cluster)
    /\ list = [nodes |-> SX!SetToSeq(NodesOf(snap)), pods |-> SX!SetToSeq(PodsOf(snap))]
    /\ phase = "listed"
    /\ analysis = <<>> /\ work = <<>> /\ trial = <<>>
    /\ queue = <<>> /\ drained = {}
    /\ toMove = <<>> /\ moves = <<>> /\ made = 0 /\ steps = <<>>
    /\ alreadyReclaimable = 0
    /\ plan = NoPlan /\ prior = NoPlan

-----------------------------------------------------------------------------
(* The orders.                                                              *)

NodeExcluded(n) == snap.node[n].young \/ DOMAIN snap.node[n].labels \cap ExcludeNodeLabels # {}

DrainCandidates ==
    {n \in NodesOf(snap) : snap.node[n].ready /\ ~NodeExcluded(n) /\ ~snap.node[n].handsOff}

(* sort.SliceStable, less being a set of pairs: what is equal stays in the order
   of the list. *)
Precedes(order, x, y) == \E i, j \in DOMAIN order : i < j /\ order[i] = x /\ order[j] = y

StableSorts(S, order, less) ==
    {q \in SX!SetToSeqs(S) : \A i, j \in DOMAIN q : i < j =>
        <<q[i], q[j]>> \in less \/ (<<q[j], q[i]>> \notin less /\ Precedes(order, q[i], q[j]))}

RequestedRatio(w, n) ==
    DominantRatio(Minus(Allocatable(snap, n), w.free[n]), Allocatable(snap, n))

(* Seeded fault: ties are left to the order of the list. *)
EmptierListOrder(w, n, m) == Lower(RequestedRatio(w, n), RequestedRatio(w, m))

(* sortNodesForDraining: emptiest first, then by name. *)
Emptier(w, n, m) ==
    LET rn == RequestedRatio(w, n)
        rm == RequestedRatio(w, m)
    IN  Lower(rn, rm) \/ (~Lower(rm, rn) /\ n < m)

(* sortPodsBySizeDesc: largest first, then by key. *)
Larger(p, q) ==
    \/ snap.pod[p].cpu > snap.pod[q].cpu
    \/ snap.pod[p].cpu = snap.pod[q].cpu /\ p < q

-----------------------------------------------------------------------------
(* firstFit.                                                                *)

Source == Head(queue)

(* freeBasis and the score: what is free as a share of free and used. The
   fullest node has the lowest share. *)
FreeShare(w, n) ==
    DominantRatio(w.free[n], Plus(w.free[n], SumNeed(snap, Occupants(w, n))))

(* Seeded fault: nodes already given up are offered again. *)
ScannedAll == NodesOf(snap) \ {Source}

Scanned == NodesOf(snap) \ ({Source} \cup drained)

FirstFit(w, p) ==
    LET fitting == {n \in Scanned : CanPlace(snap, w, p, n)}
    IN  {n \in fitting : \A m \in fitting \ {n} :
            LET fn == FreeShare(w, n)
                fm == FreeShare(w, m)
            IN  Lower(fn, fm) \/ (~Lower(fm, fn) /\ n < m)}

-----------------------------------------------------------------------------
(* Plan.                                                                    *)

(* The analyzer runs first; then the candidates are listed and sorted. *)
Start ==
    /\ phase = "listed"
    /\ analysis' = Analyze(snap)
    /\ work' = NewPlacementCeiling(snap, opts.ceiling)
    /\ queue' \in StableSorts(DrainCandidates, list.nodes,
                             {e \in DrainCandidates \X DrainCandidates : Emptier(work', e[1], e[2])})
    /\ phase' = "packing"
    /\ UNCHANGED <<inputs, drained, trial, toMove, moves, made, steps, alreadyReclaimable, plan>>

MayAddStep == opts.maxSteps = 0 \/ Len(steps) < opts.maxSteps

(* Seeded fault: a node with nothing on it at all is counted as well. *)
CountsAsReclaimableAlways(n) == TRUE

CountsAsReclaimable(n) == RequestedOnNode(snap, n) # NoResources

(* Nothing to relocate, so no step; but the node is not offered any more. *)
SkipEmpty ==
    /\ phase = "packing" /\ queue # <<>> /\ MayAddStep
    /\ IsEmpty(snap, work, Source)
    /\ alreadyReclaimable' = alreadyReclaimable + (IF CountsAsReclaimable(Source) THEN 1 ELSE 0)
    /\ drained' = drained \cup {Source}
    /\ queue' = Tail(queue)
    /\ UNCHANGED <<inputs, phase, analysis, work, trial, toMove, moves, made, steps, plan>>

MovableOn(n) == {p \in Occupants(work, n) : IsMovable(snap.pod[p])}

(* What makes the whole node undrainable before any pod is placed. *)
Forbidden(p) == snap.pod[p].ns \in ExcludeNamespaces \/ ~analysis[p].movable

BeginTrial ==
    /\ phase = "packing" /\ queue # <<>> /\ MayAddStep
    /\ ~IsEmpty(snap, work, Source)
    /\ ~\E p \in MovableOn(Source) : Forbidden(p)
    /\ toMove' \in StableSorts(MovableOn(Source), list.pods,
                              {e \in MovableOn(Source) \X MovableOn(Source) : Larger(e[1], e[2])})
    /\ trial' = work
    /\ moves' = <<>>
    /\ phase' = "trial"
    /\ UNCHANGED <<inputs, analysis, work, queue, drained, made, steps, alreadyReclaimable, plan>>

RefuseNode ==
    /\ phase = "packing" /\ queue # <<>> /\ MayAddStep
    /\ ~IsEmpty(snap, work, Source)
    /\ \E p \in MovableOn(Source) : Forbidden(p)
    /\ queue' = Tail(queue)
    /\ UNCHANGED <<inputs, phase, analysis, work, drained, trial, toMove, moves, made, steps,
                   alreadyReclaimable, plan>>

(* One turn of tryDrain's loop: the scan leaves its spread questions in the
   trial's index, then the pod moves. *)
Relocate ==
    /\ phase = "trial" /\ toMove # <<>>
    /\ LET p == Head(toMove)
           scanned == Memoise(snap, trial, Questions(snap, trial, p, Scanned))
       IN  \E n \in FirstFit(trial, p) :
               /\ trial' = Place(snap, Remove(snap, scanned, p), p, n)
               /\ moves' = Append(moves, [pod |-> p, from |-> Source, to |-> n])
    /\ toMove' = Tail(toMove)
    /\ UNCHANGED <<inputs, phase, analysis, work, queue, drained, made, steps, alreadyReclaimable, plan>>

(* One pod without a home: the trial is thrown away. *)
Abandon ==
    /\ phase = "trial" /\ toMove # <<>>
    /\ FirstFit(trial, Head(toMove)) = {}
    /\ phase' = "packing"
    /\ queue' = Tail(queue)
    /\ trial' = <<>> /\ toMove' = <<>> /\ moves' = <<>>
    /\ UNCHANGED <<inputs, analysis, work, drained, made, steps, alreadyReclaimable, plan>>

(* Seeded fault: the accepted moves are not made in the working placement. *)
CommittedNot(w, m) == w

(* An accepted move, made again in the working placement. findPod looks for the
   pod on the node it leaves. *)
Committed(w, m) ==
    IF w.at[m.pod] = m.from THEN Place(snap, Remove(snap, w, m.pod), m.pod, m.to) ELSE w

CommitMove ==
    /\ phase = "trial" /\ toMove = <<>> /\ made < Len(moves)
    /\ work' = Committed(work, moves[made + 1])
    /\ made' = made + 1
    /\ UNCHANGED <<inputs, phase, analysis, queue, drained, trial, toMove, moves, steps,
                   alreadyReclaimable, plan>>

Commit ==
    /\ phase = "trial" /\ toMove = <<>> /\ made = Len(moves)
    /\ drained' = drained \cup {Source}
    /\ steps' = Append(steps, [target |-> Source, moves |-> moves])
    /\ phase' = "packing"
    /\ queue' = Tail(queue)
    /\ trial' = <<>> /\ moves' = <<>> /\ made' = 0
    /\ UNCHANGED <<inputs, analysis, work, toMove, alreadyReclaimable, plan>>

(* The plan, rated. Its id is a hash of the steps and stands for them. *)
Finish ==
    /\ phase = "packing"
    /\ queue = <<>> \/ ~MayAddStep
    /\ plan' = [id |-> steps,
                steps |-> ClassifyPlan(snap, analysis, steps),
                nodesBefore |-> Cardinality(OccupiedInSnapshot(snap)),
                nodesAfter |-> Cardinality(OccupiedInSnapshot(snap)) - Len(steps) - alreadyReclaimable,
                alreadyReclaimable |-> alreadyReclaimable]
    /\ phase' = "done"
    /\ UNCHANGED <<inputs, analysis, work, queue, drained, trial, toMove, moves, made, steps, alreadyReclaimable>>

(* Seeded fault: the count of idle nodes is carried over to the next cycle. *)
RelistKeepsCount ==
    /\ phase = "done" /\ prior = NoPlan
    /\ prior' = plan
    /\ list' = [nodes |-> SX!Reverse(list.nodes), pods |-> SX!Reverse(list.pods)]
    /\ phase' = "listed"
    /\ analysis' = <<>> /\ work' = <<>>
    /\ queue' = <<>> /\ drained' = {}
    /\ steps' = <<>>
    /\ plan' = NoPlan
    /\ snap' = CachedSnapshot(cluster)
    /\ UNCHANGED <<cluster, opts, trial, toMove, moves, made, alreadyReclaimable>>

(* The next cycle: the cluster unchanged, its lists in another order. *)
Relist ==
    /\ phase = "done" /\ prior = NoPlan
    /\ prior' = plan
    /\ list' = [nodes |-> SX!Reverse(list.nodes), pods |-> SX!Reverse(list.pods)]
    /\ phase' = "listed"
    /\ analysis' = <<>> /\ work' = <<>>
    /\ queue' = <<>> /\ drained' = {}
    /\ steps' = <<>> /\ alreadyReclaimable' = 0
    /\ plan' = NoPlan
    /\ snap' = CachedSnapshot(cluster)
    /\ UNCHANGED <<cluster, opts, trial, toMove, moves, made>>

Next ==
    \/ Start \/ SkipEmpty \/ BeginTrial \/ RefuseNode
    \/ Relocate \/ Abandon \/ CommitMove \/ Commit \/ Finish \/ Relist

Spec == Init /\ [][Next]_vars

-----------------------------------------------------------------------------
(* Properties.                                                              *)

Moves == [pod : PodsOf(snap), from : NodesOf(snap), to : NodesOf(snap)]

(* Every variable holds a value of its kind: the queue lists candidates, the
   free resources never go below zero, the moves name pods and nodes. *)
TypeOK ==
    /\ phase \in {"listed", "packing", "trial", "done"}
    /\ Range(queue) \cup drained \subseteq NodesOf(snap)
    /\ Range(toMove) \subseteq PodsOf(snap)
    /\ Range(moves) \subseteq Moves
    /\ \A i \in DOMAIN steps : steps[i].target \in NodesOf(snap) /\ Range(steps[i].moves) \subseteq Moves
    /\ alreadyReclaimable \in 0..Cardinality(NodesOf(snap))

(* The memoised spread counts answer what a recount of the trial placement
   would, after any sequence of removals and placements (spreadindex.go). *)
IndexIsRecount ==
    phase = "trial" => \A k \in DOMAIN trial.index : trial.index[k] = Recount(snap, trial, k)

(* Where k of a list of moves really take the pods, from the snapshot. *)
AllMoves == SX!FlattenSeq([i \in DOMAIN steps |-> steps[i].moves])
AfterMoves(s, ms, k) ==
    [p \in PodsOf(s) |->
        LET mine == {i \in 1..k : ms[i].pod = p}
        IN  IF mine = {} THEN s.pod[p].node ELSE ms[Max(mine)].to]

(* A move, judged on the cluster as the moves before it leave it, without the
   packer's book-keeping. A pod that asks for no CPU is let onto a node above
   its ceiling: Sub stops at zero, so there free does not "go negative", as the
   comment on NewPlacementCeiling has it, and zero still fits (placement.go,
   resources.go). *)
Feasible(s, ceiling, before, m) ==
    LET pod == s.pod[m.pod]
        node == s.node[m.to]
        after == [before EXCEPT ![m.pod] = m.to]
        there == {p \in PodsOf(s) : after[p] = m.to}
        others == {p \in PodsOf(s) \ {m.pod} : before[p] \in NodesOf(s)}
        CountIn(tsc, d) == Cardinality({p \in PodsOf(s) :
            after[p] \in NodesOf(s) /\ InDomain(s, after[p], tsc.key, d)
            /\ (p = m.pod \/ Asked(s, p, SpreadKey(pod, tsc)))})
    IN  /\ before[m.pod] = m.from
        /\ node.ready /\ ~node.cordoned
        /\ FitsTaints(pod, node) /\ FitsNodeSelector(pod, node) /\ FitsNodeAffinity(pod, node)
        /\ pod.cpu = 0 \/ SumNeed(s, there).cpu <= CeilingOf(s, m.to, ceiling).cpu
        /\ Cardinality(there) <= node.slots
        /\ \A term \in pod.anti : \A q \in others :
              TermMatches(s, m.pod, term, q) => before[q] \notin SameDomain(s, m.to, term.key)
        /\ \A term \in pod.near : \E q \in others :
              TermMatches(s, m.pod, term, q) /\ before[q] \in SameDomain(s, m.to, term.key)
        /\ \A tsc \in HardSpread(pod) : \A d \in Domains(s, tsc.key) :
              CountIn(tsc, node.labels[tsc.key]) - CountIn(tsc, d) <= tsc.maxSkew

(* Carried out in order, every move of every step finds its pod where the plan
   says and a destination that takes it: later steps see the cluster as the
   earlier ones leave it (greedy.go, Plan). *)
PlanIsFeasible ==
    \A k \in DOMAIN AllMoves :
        Feasible(snap, opts.ceiling, AfterMoves(snap, AllMoves, k - 1), AllMoves[k])

(* A node the plan gives up, by a step or because nothing needed moving, ends
   with nothing movable on it: no later step moves a pod there. *)
DrainedStayEmpty ==
    phase \in {"packing", "trial", "done"} => \A n \in drained : IsEmpty(snap, work, n)

(* The nodes that carry something once every step is carried out: NodesAfter as
   the plan describes it. *)
Carrying ==
    LET reached == AfterMoves(snap, AllMoves, Len(AllMoves))
    IN  {n \in NodesOf(snap) \ drained :
            \E p \in PodsOf(snap) : reached[p] = n /\ ~Finished(snap.pod[p])}

(* The plan drains and fills only nodes that carried something before. *)
StaysInside ==
    /\ \A i \in DOMAIN steps : steps[i].target \in OccupiedInSnapshot(snap)
    /\ \A k \in DOMAIN AllMoves : AllMoves[k].to \in OccupiedInSnapshot(snap)

(* The fleet a plan promises is never larger than the one it leaves, and is
   exactly that one as long as no empty node is taken into use: what the steps
   drain and what was idle already come off the total once each, whichever
   order the nodes are visited in (greedy.go, NodesAfter). *)
FleetExactInside ==
    phase = "done" =>
        /\ plan.nodesAfter <= Cardinality(Carrying)
        /\ StaysInside => plan.nodesAfter = Cardinality(Carrying)

(* Planning an unchanged cluster gives the same plan, ratings included, in
   whatever order the lists arrive (planner.go, planID). *)
StableUnderRelist == phase = "done" /\ prior # NoPlan => plan = prior

(* The plan and the explanations shown beside it agree: a moved pod is movable
   in the analysis, no step moves a pod out from under an exhausted budget,
   and the first move goes to a node the analysis lists as a candidate. *)
PlanAgreesWithAnalysis ==
    /\ \A i \in DOMAIN steps : \A m \in Range(steps[i].moves) : analysis[m.pod].movable
    /\ steps # <<>> =>
          /\ steps[1].moves # <<>>
          /\ steps[1].moves[1].to \in analysis[steps[1].moves[1].pod].candidates
    /\ plan # NoPlan => \A i \in DOMAIN plan.steps :
           \A r \in plan.steps[i].reasons : r.kind # "PDBZeroHeadroom"

(* The reports of the API are answered by separate handlers over one analysis.
   Preflight calls drainable exactly the nodes the analysis calls drainable,
   except those with a pod pinned to them, which only preflight counts as in the
   way. A drainable node can be removed by itself (pod affinity and spread,
   which the other departures change, aside), and a pod the resilience report
   lists keeps its node from being drainable (preflight.go, whatif.go,
   resilience.go). *)
ReportsAgree ==
    phase # "listed" =>
        /\ \A n \in NodesOf(snap) :
              /\ Preflight(snap)[n].drainable
                    <=> NodeDrainable(analysis, n) /\ (\A p \in OnNode(analysis, n) : ~analysis[p].pinned)
              /\ NodeDrainable(analysis, n) /\ WhatifAccepted(snap, {n})
                    /\ (\A p \in OnNode(analysis, n) : snap.pod[p].near = {} /\ HardSpread(snap.pod[p]) = {})
                 => Whatif(snap, {n}).fits
        /\ \A p \in Resilience(snap).pods : ~NodeDrainable(analysis, snap.pod[p].node)

(* Of a pod the planner watches, its reader and the executor's see the same:
   what the cache strips is read by nobody, a ReplicaSet only one of them can
   resolve leaves the pod as movable and as risky as before, and a limit on the
   namespaces takes none of the budgets over it. Of the namespaces the planner
   does not watch it sees no pod at all (collector.go New and applyTransform,
   direct.go). *)
ReadersAgree ==
    LET direct == DirectSnapshot(cluster)
    IN  /\ PodsOf(snap) = {p \in PodsOf(direct) : Watches(cluster, direct.pod[p].ns)}
        /\ \A p \in PodsOf(snap) :
              /\ [snap.pod[p] EXCEPT !.owner = direct.pod[p].owner, !.ownerName = direct.pod[p].ownerName]
                    = direct.pod[p]
              /\ IsMovable(snap.pod[p]) = IsMovable(direct.pod[p])
              /\ OwnerReasons(snap.pod[p], p) = OwnerReasons(direct.pod[p], p)
              /\ Covering(snap, snap.pod[p]) = Covering(direct, direct.pod[p])

(* Whether step i really touches what the finding is about. *)
Touches(i, subject) ==
    CASE subject[1] = "node" -> plan.steps[i].target = subject[2]
      [] subject[1] = "pod" -> \E m \in Range(plan.steps[i].moves) : m.pod = subject[2]
      [] subject[1] = "budget" ->
             \E m \in Range(plan.steps[i].moves) : subject[2] \in Covering(snap, snap.pod[m.pod])
      [] OTHER -> \E m \in Range(plan.steps[i].moves) : Workload(snap.pod[m.pod]) = subject

(* The snapshot with the budget a finding proposes: one disruption at a time. *)
Followed(f) ==
    [snap EXCEPT !.budgets = @ \cup {[ns |-> f.subject[2], selector |-> f.fix, allowed |-> 1]}]

(* The work queue is not speculative and can be worked off (recommend.go,
   Queue): it names the steps that are not Green and only those, a Red one by
   something of high severity, and each of them does touch the finding's
   subject; every node it counts in a pool is a step's; advice ranks below
   every blocker; and advice that carries a manifest is gone once that manifest
   is applied, without taking a pod's mobility. *)
QueueIsActionable ==
    phase = "done" =>
        LET recs == Queue(snap, list.pods, plan.steps)
            blockers == {f \in recs : f.unblocks # {}}
        IN  /\ UNION {f.unblocks : f \in blockers} = Held(plan.steps)
            /\ \A i \in DOMAIN plan.steps : plan.steps[i].impact = "Red" =>
                  \E f \in blockers : i \in f.unblocks /\ f.severity = "high"
            /\ \A f \in blockers :
                  /\ \A i \in f.unblocks : Touches(i, f.subject)
                  /\ SumFunction([g \in f.pools |-> g.nodes])
                        = Cardinality({i \in f.unblocks : GroupOf(snap, plan.steps[i].target) # <<"", "">>})
                  /\ \A g \in recs \ blockers : Ahead(f, g)
            /\ \A f \in recs : f.fix # {} =>
                  /\ ~\E g \in Build(Followed(f), list.pods) : g.kind = f.kind /\ g.subject = f.subject
                  /\ \A p \in PodsOf(snap) : Analyze(Followed(f))[p].movable = analysis[p].movable

-----------------------------------------------------------------------------
(* What the repository says and the code does not do.                       *)

(* model/plan.go: "NodesBefore and NodesAfter describe the packing this plan
   achieves." A node that was empty in the snapshot and takes pods is in
   neither number. *)
FleetAccounted == phase = "done" => plan.nodesAfter = Cardinality(Carrying)

(* docs/cli.md: "the preflight always agrees with the plan beside it". The first
   step of the plan may drain a node that preflight reports as blocked. *)
PreflightAgrees ==
    phase = "done" /\ steps # <<>> => Preflight(snap)[steps[1].target].drainable
=============================================================================
