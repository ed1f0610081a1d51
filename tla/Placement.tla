------------------------------ MODULE Placement ------------------------------
(***************************************************************************)
(* internal/constraints/placement.go and spreadindex.go: a working         *)
(* assignment of pods to nodes that the analyzer and the packer ask "could *)
(* this pod go there?". A placement w of a snapshot s has                  *)
(*   w.at     pod -> node or NoNode                                        *)
(*   w.free   node -> resources left under the ceiling                     *)
(*   w.index  spread question -> pods counted in each topology domain      *)
(* A spread question (spreadKey) is a topology key, a namespace and a      *)
(* selector. It is counted once, on first use, and adjusted after that.    *)
(***************************************************************************)
EXTENDS Scheduling

(* NewPlacementCeiling: ceiling is a percentage of CPU, slots stay whole; 0,
   or 100 and more, disables it. A pod on a node that is not in the snapshot
   is left out. *)
CeilingOf(s, n, ceiling) ==
    IF ceiling > 0 /\ ceiling < 100
    THEN [Allocatable(s, n) EXCEPT !.cpu = (@ * ceiling) \div 100]
    ELSE Allocatable(s, n)

NewPlacementCeiling(s, ceiling) ==
    LET at == [p \in PodsOf(s) |-> IF s.pod[p].node \in NodesOf(s) THEN s.pod[p].node ELSE NoNode]
    IN  [at |-> at,
         free |-> [n \in NodesOf(s) |->
             Minus(CeilingOf(s, n, ceiling), SumNeed(s, {p \in PodsOf(s) : at[p] = n}))],
         index |-> <<>>]

Occupants(w, n) == {p \in DOMAIN w.at : w.at[p] = n}

(* IsEmpty: nothing movable is left on the node. *)
IsEmpty(s, w, n) == \A p \in Occupants(w, n) : ~IsMovable(s.pod[p])

-----------------------------------------------------------------------------
(* The memoised spread counts.                                              *)

SpreadKey(pod, tsc) == [key |-> tsc.key, ns |-> pod.ns, selector |-> tsc.selector]

Domains(s, key) == {s.node[n].labels[key] : n \in {m \in NodesOf(s) : key \in DOMAIN s.node[m].labels}}
InDomain(s, n, key, d) == key \in DOMAIN s.node[n].labels /\ s.node[n].labels[key] = d

Asked(s, p, k) == s.pod[p].ns = k.ns /\ Matches(k.selector, s.pod[p].labels)

(* One pass over the cluster; every domain present is seeded at zero. *)
Recount(s, w, k) ==
    [d \in Domains(s, k.key) |->
        Cardinality({p \in DOMAIN w.at :
            w.at[p] # NoNode /\ InDomain(s, w.at[p], k.key, d) /\ Asked(s, p, k)})]

(* spreadCounts: the index answers, or is built for the next time. *)
SpreadCounts(s, w, k) == IF k \in DOMAIN w.index THEN w.index[k] ELSE Recount(s, w, k)
Memoise(s, w, ks) ==
    [at |-> w.at, free |-> w.free,
     index |-> [k \in DOMAIN w.index \cup ks |-> SpreadCounts(s, w, k)]]

(* adjustSpread: only the entries the pod answers, only its node's domain. *)
AdjustSpread(s, w, p, n, delta) ==
    [k \in DOMAIN w.index |->
        IF Asked(s, p, k) /\ k.key \in DOMAIN s.node[n].labels
        THEN [w.index[k] EXCEPT ![s.node[n].labels[k.key]] = @ + delta]
        ELSE w.index[k]]

Place(s, w, p, n) ==
    [at    |-> [w.at EXCEPT ![p] = n],
     free  |-> [w.free EXCEPT ![n] = Minus(@, Need(s.pod[p]))],
     index |-> AdjustSpread(s, w, p, n, 1)]

(* Seeded fault: Remove forgets the spread index. *)
RemoveKeepsCounts(s, w, p) ==
    [at    |-> [w.at EXCEPT ![p] = NoNode],
     free  |-> [w.free EXCEPT ![w.at[p]] = Plus(@, Need(s.pod[p]))],
     index |-> w.index]

Remove(s, w, p) ==
    [at    |-> [w.at EXCEPT ![p] = NoNode],
     free  |-> [w.free EXCEPT ![w.at[p]] = Plus(@, Need(s.pod[p]))],
     index |-> AdjustSpread(s, w, p, w.at[p], -1)]

-----------------------------------------------------------------------------
(* CanPlace, one operator per hard predicate. Soft ones never block.        *)

FitsTaints(pod, node) ==
    \A taint \in {t \in node.taints : t.effect # "PreferNoSchedule"} :
        \E tol \in pod.tolerations : ToleratesTaint(tol, taint)

FitsNodeSelector(pod, node) == Matches(pod.nodeSelector, node.labels)

(* Required terms are alternatives; none at all is no requirement. *)
FitsNodeAffinity(pod, node) ==
    pod.affinity = {} \/ \E term \in pod.affinity : Matches(term, node.labels)

FitsResources(w, pod, n) == Fits(Need(pod), w.free[n])

(* termMatchesPod: no namespaces means the pod's own. *)
TermMatches(s, p, term, q) ==
    /\ s.pod[q].ns \in (IF term.namespaces = {} THEN {s.pod[p].ns} ELSE term.namespaces)
    /\ Matches(term.selector, s.pod[q].labels)

(* The nodes that share n's domain of a topology key. A node without the label
   shares it with nobody. *)
SameDomain(s, n, key) ==
    IF key = "hostname" THEN {n}
    ELSE {m \in NodesOf(s) : key \in DOMAIN s.node[n].labels
                             /\ InDomain(s, m, key, s.node[n].labels[key])}

SomeMatchIn(s, w, p, n, term) ==
    \E q \in DOMAIN w.at \ {p} :
        w.at[q] \in SameDomain(s, n, term.key) /\ TermMatches(s, p, term, q)

FitsPodAntiAffinity(s, w, p, n) == \A term \in s.pod[p].anti : ~SomeMatchIn(s, w, p, n, term)
FitsPodAffinity(s, w, p, n)     == \A term \in s.pod[p].near : SomeMatchIn(s, w, p, n, term)

HardSpread(pod) == {t \in pod.spread : t.hard}

(* domainCounts: the pod itself does not count towards the spread it leaves. *)
DomainCounts(s, w, p, tsc) ==
    LET k == SpreadKey(s.pod[p], tsc)
        counts == SpreadCounts(s, w, k)
    IN  [d \in DOMAIN counts |->
            IF w.at[p] # NoNode /\ InDomain(s, w.at[p], tsc.key, d) /\ Asked(s, p, k)
            THEN counts[d] - 1 ELSE counts[d]]

FitsTopologySpread(s, w, p, n) ==
    \A tsc \in HardSpread(s.pod[p]) :
        /\ tsc.key \in DOMAIN s.node[n].labels
        /\ LET counts == [DomainCounts(s, w, p, tsc) EXCEPT ![s.node[n].labels[tsc.key]] = @ + 1]
           IN  counts[s.node[n].labels[tsc.key]] - Min(Range(counts)) <= tsc.maxSkew

(* Everything CanPlace asks before it comes to the spread constraints. *)
ReachesSpread(s, w, p, n) ==
    /\ ~s.node[n].cordoned /\ s.node[n].ready
    /\ FitsTaints(s.pod[p], s.node[n])
    /\ FitsNodeSelector(s.pod[p], s.node[n])
    /\ FitsNodeAffinity(s.pod[p], s.node[n])
    /\ FitsResources(w, s.pod[p], n)
    /\ FitsPodAntiAffinity(s, w, p, n)
    /\ FitsPodAffinity(s, w, p, n)

CanPlace(s, w, p, n) == ReachesSpread(s, w, p, n) /\ FitsTopologySpread(s, w, p, n)

(* The questions a scan over nodes ns leaves in the index. *)
Questions(s, w, p, ns) ==
    {SpreadKey(s.pod[p], tsc) :
        tsc \in {t \in HardSpread(s.pod[p]) :
            \E n \in ns : ReachesSpread(s, w, p, n) /\ t.key \in DOMAIN s.node[n].labels}}

(* CandidateNodes: where else the pod could go. *)
CandidateNodes(s, w, p) == {n \in NodesOf(s) \ {s.pod[p].node} : CanPlace(s, w, p, n)}
=============================================================================
