---------------------------- MODULE GreedyProofs ----------------------------
(***************************************************************************)
(* The packer for any cluster, any options and lists in any order: its     *)
(* incremental spread counts are those of a recount, the nodes it gives up *)
(* stay given up, its plan can be carried out move by move, frees what it  *)
(* says and is the same from every list, and it agrees with the analysis,  *)
(* the reports and the work queue beside it.                               *)
(***************************************************************************)
EXTENDS Greedy, NumberLemmas, FiniteSetTheorems, FunctionTheorems, SequenceTheorems, TLAPS

(* What the proofs need of a snapshot. *)
Sized(s) ==
    /\ IsFiniteSet(NodesOf(s)) /\ IsFiniteSet(PodsOf(s))
    /\ NoNode \notin NodesOf(s)
    /\ \A n \in NodesOf(s) : s.node[n].cpu \in Nat /\ s.node[n].slots \in Nat
    /\ \A p \in PodsOf(s) : s.pod[p].cpu \in Nat

(* Every pod is on a node of the snapshot or on none. *)
Assigned(s, w) == w.at \in [PodsOf(s) -> NodesOf(s) \cup {NoNode}]

(* Every answer in the index is what a recount would give. *)
Exact(s, w) == \A k \in DOMAIN w.index : w.index[k] = Recount(s, w, k)

(* No node has less than nothing left. *)
Amounts == [cpu : Nat, slots : Nat]
Solvent(s, w) == w.free \in [NodesOf(s) -> Amounts]

-----------------------------------------------------------------------------
(* The invariant.                                                           *)

Steps == [target : NodesOf(snap), moves : Seq(Moves)]

(* Every variable holds a value of its kind. The working placement is never
   asked about spread, so its index stays empty. *)
Shape ==
    /\ cluster \in Clusters /\ opts \in OptionSets
    /\ snap = CachedSnapshot(cluster)
    /\ phase \in {"listed", "packing", "trial", "done"}
    /\ queue \in Seq(NodesOf(snap)) /\ drained \subseteq NodesOf(snap)
    /\ toMove \in Seq(PodsOf(snap)) /\ moves \in Seq(Moves) /\ made \in Nat
    /\ steps \in Seq(Steps)
    /\ phase = "listed" => drained = {}
    /\ phase # "listed" => Assigned(snap, work) /\ Solvent(snap, work) /\ DOMAIN work.index = {}
    /\ phase = "trial" => queue # <<>> /\ Assigned(snap, trial)
    /\ made <= Len(moves) /\ (phase # "trial" \/ toMove # <<>> => made = 0)

(* A node is visited once, and only counted when it is given up. *)
VisitedOnce ==
    /\ \A i, j \in 1..Len(queue) : queue[i] = queue[j] => i = j
    /\ \A i \in 1..Len(queue) : queue[i] \notin drained
    /\ alreadyReclaimable \in Nat /\ alreadyReclaimable <= Cardinality(drained)

(* tryDrain's copy: its counts are exact and the pods still to place are
   somewhere. *)
TrialExact ==
    phase = "trial" => /\ Exact(snap, trial)
                       /\ \A i \in 1..Len(toMove) : trial.at[toMove[i]] \in NodesOf(snap)

(* Every movable pod on the node in hand is still to place or its move still to
   make, and no move leads back to a node given up. *)
Emptying ==
    phase = "trial" =>
        /\ \A i \in 1..Len(moves) : /\ moves[i].from = Source
                                    /\ moves[i].to \notin drained \cup {Source}
        /\ \A p \in PodsOf(snap) : IsMovable(snap.pod[p]) /\ work.at[p] = Source =>
              \/ \E i \in 1..Len(toMove) : toMove[i] = p
              \/ \E i \in 1..Len(moves) : i > made /\ moves[i].pod = p

(* The plan is made of pods the analysis calls movable. *)
Permitted ==
    /\ phase = "listed" => steps = <<>>
    /\ phase # "listed" => analysis = Analyze(snap)
    /\ phase = "trial" => /\ \A i \in 1..Len(toMove) : analysis[toMove[i]].movable
                          /\ \A i \in 1..Len(moves) : analysis[moves[i].pod].movable
    /\ \A i \in 1..Len(steps) : \A j \in 1..Len(steps[i].moves) :
          analysis[steps[i].moves[j].pod].movable
    /\ IF phase = "done" THEN plan.steps = ClassifyPlan(snap, analysis, steps) ELSE plan = NoPlan

(* The first move of all is chosen on the placement the snapshot gives. *)
FirstPlaced == NewPlacementCeiling(snap, opts.ceiling)
Opens(ms) == ms # <<>> /\ ms[1].to \in analysis[ms[1].pod].candidates

FirstMove ==
    /\ phase = "packing" /\ steps = <<>> => work = FirstPlaced
    /\ phase = "trial" =>
          /\ toMove = <<>> => moves # <<>>
          /\ moves = <<>> => trial = work
          /\ made = 0 => \A i \in 1..Len(toMove) : work.at[toMove[i]] = Source
          /\ steps = <<>> /\ made = 0 => work = FirstPlaced
          /\ steps = <<>> /\ moves # <<>> => Opens(moves)
    /\ steps # <<>> => Opens(steps[1].moves)

-----------------------------------------------------------------------------
(* Place, Remove and the index.                                             *)

(* The pods counted for a question in a domain. *)
CountedIn(s, w, k, d) ==
    {p \in DOMAIN w.at : w.at[p] # NoNode /\ InDomain(s, w.at[p], k.key, d) /\ Asked(s, p, k)}

(* They are pods of the snapshot, so they can be counted. *)
LEMMA CountedFinite ==
    ASSUME NEW s, NEW w, Sized(s), Assigned(s, w), NEW k, NEW d
    PROVE  IsFiniteSet(CountedIn(s, w, k, d)) /\ Cardinality(CountedIn(s, w, k, d)) \in Nat
<1>1. CountedIn(s, w, k, d) \subseteq PodsOf(s)
    BY DEF Assigned, CountedIn
<1>2. QED BY <1>1, FS_Subset, FS_CardinalityType DEF Sized

(* A pod put on a node joins the count of that node's domain, if it is asked
   for, and no other. *)
LEMMA PlaceJoins ==
    ASSUME NEW s, NEW w, Sized(s), Assigned(s, w),
           NEW p \in PodsOf(s), w.at[p] = NoNode, NEW n \in NodesOf(s), NEW k, NEW d
    PROVE  LET w2 == Place(s, w, p, n)
               joins == Asked(s, p, k) /\ InDomain(s, n, k.key, d)
           IN  Cardinality(CountedIn(s, w2, k, d))
                   = Cardinality(CountedIn(s, w, k, d)) + (IF joins THEN 1 ELSE 0)
<1> DEFINE w2 == Place(s, w, p, n)
           joins == Asked(s, p, k) /\ InDomain(s, n, k.key, d)
           old == CountedIn(s, w, k, d)
           new == CountedIn(s, w2, k, d)
<1>1. w2.at = [w.at EXCEPT ![p] = n]
    BY DEF Place
<1>2. DOMAIN w.at = PodsOf(s) /\ DOMAIN w2.at = PodsOf(s) /\ w2.at[p] = n
      /\ \A q \in PodsOf(s) : q # p => w2.at[q] = w.at[q]
    BY <1>1 DEF Assigned
<1>3. n # NoNode
    BY DEF Sized
<1>4. p \notin old
    BY DEF CountedIn
<1>5. IsFiniteSet(old) /\ Cardinality(old) \in Nat
    BY CountedFinite
<1>6. CASE joins
    <2>1. new = old \cup {p}
        BY <1>2, <1>3, <1>6 DEF CountedIn
    <2>2. QED BY <1>4, <1>5, <1>6, <2>1, FS_AddElement
<1>7. CASE ~joins
    <2>1. new = old
        BY <1>2, <1>3, <1>4, <1>7 DEF CountedIn
    <2>2. QED BY <1>5, <1>7, <2>1
<1>8. QED BY <1>6, <1>7

(* A pod taken off its node leaves the count of that node's domain. *)
LEMMA RemoveLeaves ==
    ASSUME NEW s, NEW w, Sized(s), Assigned(s, w),
           NEW p \in PodsOf(s), w.at[p] \in NodesOf(s), NEW k, NEW d
    PROVE  LET w2 == Remove(s, w, p)
               leaves == Asked(s, p, k) /\ InDomain(s, w.at[p], k.key, d)
           IN  Cardinality(CountedIn(s, w2, k, d))
                   = Cardinality(CountedIn(s, w, k, d)) - (IF leaves THEN 1 ELSE 0)
<1> DEFINE w2 == Remove(s, w, p)
           leaves == Asked(s, p, k) /\ InDomain(s, w.at[p], k.key, d)
           old == CountedIn(s, w, k, d)
           new == CountedIn(s, w2, k, d)
<1>1. w2.at = [w.at EXCEPT ![p] = NoNode]
    BY DEF Remove
<1>2. DOMAIN w.at = PodsOf(s) /\ DOMAIN w2.at = PodsOf(s) /\ w2.at[p] = NoNode
      /\ \A q \in PodsOf(s) : q # p => w2.at[q] = w.at[q]
    BY <1>1 DEF Assigned
<1>3. w.at[p] # NoNode
    BY DEF Sized
<1>4. new = old \ {p}
    BY <1>2 DEF CountedIn
<1>5. p \in old <=> leaves
    BY <1>2, <1>3 DEF CountedIn
<1>6. IsFiniteSet(old) /\ Cardinality(old) \in Nat
    BY CountedFinite
<1>7. CASE leaves
    BY <1>4, <1>5, <1>6, <1>7, FS_RemoveElement
<1>8. CASE ~leaves
    <2>1. new = old
        BY <1>4, <1>5, <1>8
    <2>2. QED BY <1>6, <1>8, <2>1
<1>9. QED BY <1>7, <1>8

(* A recount is the sizes of those sets. *)
LEMMA RecountIs ==
    ASSUME NEW s, NEW w, NEW k
    PROVE  Recount(s, w, k) = [d \in Domains(s, k.key) |-> Cardinality(CountedIn(s, w, k, d))]
BY DEF Recount, CountedIn

(* AdjustSpread follows the counts: where one pod came or went at one node, only
   the entries it answers change, and only in that node's domain. *)
LEMMA AdjustExact ==
    ASSUME NEW s, NEW w, NEW v, NEW p, NEW n \in NodesOf(s), NEW delta \in Int,
           Sized(s), Assigned(s, w), Exact(s, w),
           v.index = AdjustSpread(s, w, p, n, delta),
           \A k, d : Cardinality(CountedIn(s, v, k, d))
                         = Cardinality(CountedIn(s, w, k, d))
                           + (IF Asked(s, p, k) /\ InDomain(s, n, k.key, d) THEN delta ELSE 0)
    PROVE  Exact(s, v)
<1> SUFFICES ASSUME NEW k \in DOMAIN v.index
             PROVE  v.index[k] = Recount(s, v, k)
    BY DEF Exact
<1> DEFINE D == Domains(s, k.key)
           Old(d) == Cardinality(CountedIn(s, w, k, d))
           New(d) == Cardinality(CountedIn(s, v, k, d))
           touched == Asked(s, p, k) /\ k.key \in DOMAIN s.node[n].labels
           here == s.node[n].labels[k.key]
<1>1. k \in DOMAIN w.index
    BY DEF AdjustSpread
<1>2. w.index[k] = [d \in D |-> Old(d)]
    BY <1>1, RecountIs DEF Exact
<1>3. \A d : Old(d) \in Nat
    BY CountedFinite
<1>4. v.index[k] = IF touched THEN [w.index[k] EXCEPT ![here] = @ + delta] ELSE w.index[k]
    BY <1>1 DEF AdjustSpread
<1>5. \A d : New(d) = Old(d) + (IF Asked(s, p, k) /\ InDomain(s, n, k.key, d) THEN delta ELSE 0)
    OBVIOUS
<1>6. \A d : (Asked(s, p, k) /\ InDomain(s, n, k.key, d)) <=> (touched /\ here = d)
    BY DEF InDomain
<1>7. touched => here \in D
    BY DEF Domains
<1> HIDE DEF D, Old, New, touched, here
<1>8. v.index[k] = [d \in D |-> New(d)]
    <2>1. CASE touched
        <3>1. v.index[k] = [d \in D |-> IF d = here THEN Old(here) + delta ELSE Old(d)]
            BY <1>2, <1>4, <1>7, <2>1
        <3>2. \A d \in D : New(d) = IF d = here THEN Old(here) + delta ELSE Old(d)
            BY <1>3, <1>5, <1>6, <2>1
        <3>3. QED BY <3>1, <3>2
    <2>2. CASE ~touched
        <3>1. \A d \in D : New(d) = Old(d)
            BY <1>3, <1>5, <1>6, <2>2
        <3>2. QED BY <1>2, <1>4, <2>2, <3>1
    <2>3. QED BY <2>1, <2>2
<1>9. QED BY <1>8, RecountIs DEF D, New

(* Place keeps the index exact, for a pod that is nowhere. *)
LEMMA PlaceExact ==
    ASSUME NEW s, NEW w, Sized(s), Assigned(s, w), Exact(s, w),
           NEW p \in PodsOf(s), w.at[p] = NoNode, NEW n \in NodesOf(s)
    PROVE  LET w2 == Place(s, w, p, n)
           IN  /\ Assigned(s, w2) /\ Exact(s, w2)
               /\ w2.at[p] = n /\ \A q \in PodsOf(s) : q # p => w2.at[q] = w.at[q]
<1> DEFINE w2 == Place(s, w, p, n)
<1>1. /\ Assigned(s, w2) /\ w2.at[p] = n
      /\ \A q \in PodsOf(s) : q # p => w2.at[q] = w.at[q]
    BY DEF Place, Assigned
<1>2. w2.index = AdjustSpread(s, w, p, n, 1)
    BY DEF Place
<1>3. \A k, d : Cardinality(CountedIn(s, w2, k, d))
                    = Cardinality(CountedIn(s, w, k, d))
                      + (IF Asked(s, p, k) /\ InDomain(s, n, k.key, d) THEN 1 ELSE 0)
    BY PlaceJoins
<1> HIDE DEF w2
<1>4. Exact(s, w2)
    BY <1>2, <1>3, AdjustExact
<1>5. QED BY <1>1, <1>4 DEF w2

(* Remove keeps the index exact, for a pod that is somewhere. *)
LEMMA RemoveExact ==
    ASSUME NEW s, NEW w, Sized(s), Assigned(s, w), Exact(s, w),
           NEW p \in PodsOf(s), w.at[p] \in NodesOf(s)
    PROVE  LET w2 == Remove(s, w, p)
           IN  /\ Assigned(s, w2) /\ Exact(s, w2)
               /\ w2.at[p] = NoNode /\ \A q \in PodsOf(s) : q # p => w2.at[q] = w.at[q]
<1> DEFINE w2 == Remove(s, w, p)
<1>1. /\ Assigned(s, w2) /\ w2.at[p] = NoNode
      /\ \A q \in PodsOf(s) : q # p => w2.at[q] = w.at[q]
    BY DEF Remove, Assigned
<1>2. w2.index = AdjustSpread(s, w, p, w.at[p], -1)
    BY DEF Remove
<1>3. \A k, d : Cardinality(CountedIn(s, w2, k, d))
                    = Cardinality(CountedIn(s, w, k, d))
                      + (IF Asked(s, p, k) /\ InDomain(s, w.at[p], k.key, d) THEN -1 ELSE 0)
    <2> TAKE k, d
    <2>1. Cardinality(CountedIn(s, w, k, d)) \in Nat
        BY CountedFinite
    <2>2. QED BY <2>1, RemoveLeaves
<1> HIDE DEF w2
<1>4. Exact(s, w2)
    BY <1>2, <1>3, AdjustExact
<1>5. QED BY <1>1, <1>4 DEF w2

(* A question asked for the first time is counted then. *)
LEMMA MemoiseExact ==
    ASSUME NEW s, NEW w, Exact(s, w), Assigned(s, w), NEW ks
    PROVE  LET w2 == Memoise(s, w, ks)
           IN  Assigned(s, w2) /\ Exact(s, w2) /\ w2.at = w.at /\ w2.free = w.free
<1> DEFINE w2 == Memoise(s, w, ks)
<1>1. w2.at = w.at /\ w2.free = w.free
      /\ w2.index = [k \in DOMAIN w.index \cup ks |-> SpreadCounts(s, w, k)]
    BY DEF Memoise
<1>2. \A k : Recount(s, w2, k) = Recount(s, w, k)
    BY <1>1 DEF Recount
<1>3. QED BY <1>1, <1>2 DEF Exact, Assigned, SpreadCounts

-----------------------------------------------------------------------------
(* What is left on the nodes.                                               *)

(* Sub clamps, so a placement never overdraws a node. *)
LEMMA PlaceSolvent ==
    ASSUME NEW s, NEW w, Sized(s), Solvent(s, w), NEW p \in PodsOf(s), NEW n \in NodesOf(s)
    PROVE  Solvent(s, Place(s, w, p, n))
<1>1. w.free[n].cpu \in Nat /\ w.free[n].slots \in Nat /\ s.pod[p].cpu \in Nat
    BY DEF Sized, Solvent, Amounts
<1>2. Minus(w.free[n], Need(s.pod[p])) \in Amounts
    BY <1>1 DEF Minus, Need, AtLeastZero, Amounts
<1>3. QED BY <1>2 DEF Place, Solvent

(* Remove gives back. *)
LEMMA RemoveSolvent ==
    ASSUME NEW s, NEW w, Sized(s), Solvent(s, w), NEW p \in PodsOf(s), w.at[p] \in NodesOf(s)
    PROVE  Solvent(s, Remove(s, w, p))
<1> DEFINE n == w.at[p]
<1>1. w.free[n].cpu \in Nat /\ w.free[n].slots \in Nat /\ s.pod[p].cpu \in Nat
    BY DEF Sized, Solvent, Amounts
<1>2. Plus(w.free[n], Need(s.pod[p])) \in Amounts
    BY <1>1 DEF Plus, Need, Amounts
<1>3. QED BY <1>2 DEF Remove, Solvent

(* What some pods request together. *)
LEMMA NeedsTogether ==
    ASSUME NEW s, Sized(s), NEW ps, ps \subseteq PodsOf(s)
    PROVE  /\ IsFiniteSet(ps) /\ Cardinality(ps) \in Nat
           /\ SumNeed(s, ps).cpu \in Nat /\ SumNeed(s, ps).slots = Cardinality(ps)
<1> DEFINE f == [p \in ps |-> s.pod[p].cpu]
<1>1. IsFiniteSet(ps) /\ Cardinality(ps) \in Nat
    BY FS_Subset, FS_CardinalityType DEF Sized
<1>2. DOMAIN f = ps /\ \A p \in ps : f[p] \in Nat
    BY DEF Sized
<1>3. SumNeed(s, ps).cpu = SumFunction(f) /\ SumNeed(s, ps).slots = Cardinality(ps)
    BY DEF SumNeed
<1> HIDE DEF f
<1>4. SumFunction(f) \in Nat
    BY <1>1, <1>2, SumIsNatural
<1>5. QED BY <1>1, <1>3, <1>4

(* One pod more, one request more. *)
LEMMA NeedsOneMore ==
    ASSUME NEW s, Sized(s), NEW ps, ps \subseteq PodsOf(s), NEW p \in PodsOf(s) \ ps
    PROVE  /\ SumNeed(s, ps \cup {p}).cpu = SumNeed(s, ps).cpu + s.pod[p].cpu
           /\ SumNeed(s, ps \cup {p}).slots = SumNeed(s, ps).slots + 1
<1> DEFINE qs == ps \cup {p}
           f == [q \in qs |-> s.pod[q].cpu]
           e == [q \in ps |-> s.pod[q].cpu]
<1>1. qs \subseteq PodsOf(s) /\ qs \ {p} = ps /\ p \in qs
    OBVIOUS
<1>2. IsFiniteSet(qs) /\ IsFiniteSet(ps) /\ Cardinality(ps) \in Nat /\ SumNeed(s, ps).cpu \in Nat
    BY <1>1, NeedsTogether
<1>3. Cardinality(qs) = Cardinality(ps) + 1
    BY <1>1, <1>2, FS_AddElement
<1>4. /\ DOMAIN f = qs /\ (\A q \in qs : f[q] \in Nat) /\ f[p] = s.pod[p].cpu /\ s.pod[p].cpu \in Nat
      /\ [q \in qs \ {p} |-> f[q]] = e
    BY <1>1 DEF Sized
<1>5. /\ SumNeed(s, qs).cpu = SumFunction(f) /\ SumNeed(s, qs).slots = Cardinality(qs)
      /\ SumNeed(s, ps).cpu = SumFunction(e) /\ SumNeed(s, ps).slots = Cardinality(ps)
    BY DEF SumNeed
<1> HIDE DEF f, e, qs
<1>6. SumFunction(f) = f[p] + SumFunction([q \in qs \ {p} |-> f[q]])
    BY <1>1, <1>2, <1>4, SumTakesOut
<1>7. QED BY <1>2, <1>3, <1>4, <1>5, <1>6 DEF qs

(* The ceiling is a size too. *)
LEMMA CeilingNatural ==
    ASSUME NEW s, Sized(s), NEW n \in NodesOf(s), NEW ceiling \in Nat
    PROVE  /\ CeilingOf(s, n, ceiling).cpu \in Nat
           /\ CeilingOf(s, n, ceiling).slots = s.node[n].slots /\ s.node[n].slots \in Nat
<1>1. s.node[n].cpu \in Nat /\ s.node[n].slots \in Nat
    BY DEF Sized
<1>2. s.node[n].cpu * ceiling \in Nat
    BY <1>1
<1>3. (s.node[n].cpu * ceiling) \div 100 \in Nat
    BY <1>2
<1>4. QED BY <1>1, <1>3 DEF CeilingOf, Allocatable

(* NewPlacementCeiling gives every node what its pods leave of the ceiling. *)
LEMMA FreshPlacement ==
    ASSUME NEW s, Sized(s), NEW ceiling \in Nat
    PROVE  LET w == NewPlacementCeiling(s, ceiling)
           IN  /\ Assigned(s, w) /\ Solvent(s, w) /\ DOMAIN w.index = {}
               /\ \A n \in NodesOf(s) :
                     w.free[n] = Minus(CeilingOf(s, n, ceiling), SumNeed(s, {p \in PodsOf(s) : w.at[p] = n}))
<1> DEFINE w == NewPlacementCeiling(s, ceiling)
           Home(p) == IF s.pod[p].node \in NodesOf(s) THEN s.pod[p].node ELSE NoNode
<1>2. w.at = [p \in PodsOf(s) |-> Home(p)] /\ DOMAIN w.index = {}
    BY DEF NewPlacementCeiling
<1>3. Assigned(s, w)
    BY <1>2 DEF Assigned
<1>4. ASSUME NEW n \in NodesOf(s)
      PROVE  /\ w.free[n] = Minus(CeilingOf(s, n, ceiling), SumNeed(s, {p \in PodsOf(s) : w.at[p] = n}))
             /\ w.free[n] \in Amounts
    <2> DEFINE there == {p \in PodsOf(s) : w.at[p] = n}
    <2>1. w.free[n] = Minus(CeilingOf(s, n, ceiling), SumNeed(s, there))
        BY <1>4 DEF NewPlacementCeiling
    <2>2. /\ SumNeed(s, there).cpu \in Nat
          /\ SumNeed(s, there).slots = Cardinality(there) /\ Cardinality(there) \in Nat
        <3>1. there \subseteq PodsOf(s)
            OBVIOUS
        <3> HIDE DEF there
        <3>2. QED BY <3>1, NeedsTogether
    <2>3. CeilingOf(s, n, ceiling).cpu \in Nat /\ CeilingOf(s, n, ceiling).slots \in Nat
        BY CeilingNatural
    <2>4. w.free[n] \in Amounts
        <3> HIDE DEF there
        <3>1. QED BY <2>1, <2>2, <2>3 DEF Minus, AtLeastZero, Amounts
    <2>5. QED BY <2>1, <2>4
<1>5. w.free = [n \in NodesOf(s) |-> w.free[n]]
    BY DEF NewPlacementCeiling
<1>6. Solvent(s, w)
    BY <1>4, <1>5 DEF Solvent
<1>7. QED BY <1>2, <1>3, <1>4, <1>6

(* So the analyzer and the packer start from one. *)
LEMMA FirstPlacement ==
    ASSUME NEW c \in Clusters, NEW ceiling \in Nat
    PROVE  LET s == CachedSnapshot(c)
               w == NewPlacementCeiling(s, ceiling)
           IN  Sized(s) /\ Assigned(s, w) /\ Solvent(s, w) /\ DOMAIN w.index = {}
<1>1. Sized(CachedSnapshot(c))
    BY ClustersAssumption DEF Sized
<1>2. QED BY <1>1, FreshPlacement

(* A pod taken from where it is and put elsewhere. *)
LEMMA MoveExact ==
    ASSUME NEW s, NEW w, Sized(s), Assigned(s, w), Exact(s, w),
           NEW p \in PodsOf(s), w.at[p] \in NodesOf(s), NEW n \in NodesOf(s)
    PROVE  LET v == Place(s, Remove(s, w, p), p, n)
           IN  /\ Assigned(s, v) /\ Exact(s, v)
               /\ v.at[p] = n /\ \A q \in PodsOf(s) : q # p => v.at[q] = w.at[q]
               /\ DOMAIN v.index = DOMAIN w.index
               /\ Solvent(s, w) => Solvent(s, v)
<1> DEFINE u == Remove(s, w, p)
           v == Place(s, u, p, n)
<1>1. /\ Assigned(s, u) /\ Exact(s, u)
      /\ u.at[p] = NoNode /\ \A q \in PodsOf(s) : q # p => u.at[q] = w.at[q]
    BY RemoveExact
<1>2. DOMAIN u.index = DOMAIN w.index
    BY DEF Remove, AdjustSpread
<1>3. Solvent(s, w) => Solvent(s, u)
    BY RemoveSolvent
<1> HIDE DEF u
<1>4. /\ Assigned(s, v) /\ Exact(s, v)
      /\ v.at[p] = n /\ \A q \in PodsOf(s) : q # p => v.at[q] = u.at[q]
    BY <1>1, PlaceExact
<1>5. DOMAIN v.index = DOMAIN u.index
    BY DEF Place, AdjustSpread
<1>6. Solvent(s, u) => Solvent(s, v)
    BY PlaceSolvent
<1> HIDE DEF v
<1>7. QED BY <1>1, <1>2, <1>3, <1>4, <1>5, <1>6 DEF u, v

-----------------------------------------------------------------------------
(* The steps of Plan and tryDrain.                                          *)

(* A sorted list has every element of the set, each once. *)
LEMMA ListsAll ==
    ASSUME NEW S, IsFiniteSet(S), NEW q \in SX!SetToSeqs(S)
    PROVE  /\ q \in Seq(S)
           /\ \A i, j \in 1..Len(q) : q[i] = q[j] => i = j
           /\ \A x \in S : \E i \in 1..Len(q) : q[i] = x
<1> DEFINE N == Cardinality(S)
<1>1. N \in Nat
    BY FS_CardinalityType
<1>2. q \in [1..N -> S] /\ \A i, j \in 1..N : i # j => q[i] # q[j]
    <2>1. SX!Cardinality(S) = N
        BY DEF SX!Cardinality, Cardinality
    <2>2. QED BY <2>1 DEF SX!SetToSeqs
<1> HIDE DEF N
<1>3. q \in Seq(S) /\ Len(q) = N
    BY <1>1, <1>2
<1>4. q \in Injection(1..N, S)
    BY <1>2 DEF Injection, IsInjective
<1>5. IsFiniteSet(1..N) /\ Cardinality(1..N) = N
    BY <1>1, FS_Interval
<1>6. q \in Surjection(1..N, S)
    BY <1>4, <1>5, FS_Injection DEF N
<1>7. \A x \in S : \E i \in 1..N : q[i] = x
    BY <1>6 DEF Surjection
<1>8. QED BY <1>2, <1>3, <1>7

(* The snapshot does not change under the packer. *)
LEMMA SnapshotSized == ASSUME Shape PROVE Sized(snap) /\ opts.ceiling \in Nat
<1>1. opts.ceiling \in Nat
    BY OptionsAssumption DEF Shape
<1>2. QED BY <1>1, FirstPlacement DEF Shape

(* What a list loses at its head it keeps behind. *)
LEMMA TailOf ==
    ASSUME NEW S, NEW q \in Seq(S), q # <<>>
    PROVE  /\ Head(q) \in S /\ Head(q) = q[1] /\ 1 \in 1..Len(q)
           /\ Tail(q) \in Seq(S) /\ Len(Tail(q)) = Len(q) - 1 /\ Len(q) \in Nat
           /\ \A i \in 1..Len(Tail(q)) : i + 1 \in 1..Len(q) /\ Tail(q)[i] = q[i + 1]
           /\ \A i \in 1..Len(q) : i = 1 \/ (i - 1 \in 1..Len(Tail(q)) /\ Tail(q)[i - 1] = q[i])
OBVIOUS

(* One turn of tryDrain's loop moves one pod of the trial, exactly counted. *)
LEMMA RelocateMoves ==
    ASSUME Shape, TrialExact, Relocate
    PROVE  \E n \in Scanned :
              /\ n \in FirstFit(trial, Head(toMove))
              /\ moves' = Append(moves, [pod |-> Head(toMove), from |-> Source, to |-> n])
              /\ Assigned(snap, trial') /\ Exact(snap, trial')
              /\ trial'.at[Head(toMove)] = n
              /\ \A q \in PodsOf(snap) : q # Head(toMove) => trial'.at[q] = trial.at[q]
<1> DEFINE p == Head(toMove)
           ks == Questions(snap, trial, p, Scanned)
           scanned == Memoise(snap, trial, ks)
<1>1. PICK n \in FirstFit(trial, p) :
          /\ trial' = Place(snap, Remove(snap, scanned, p), p, n)
          /\ moves' = Append(moves, [pod |-> p, from |-> Source, to |-> n])
    BY DEF Relocate
<1>2. phase = "trial" /\ toMove # <<>> /\ toMove \in Seq(PodsOf(snap))
    BY DEF Relocate, Shape
<1>3. p \in PodsOf(snap) /\ trial.at[p] \in NodesOf(snap)
    <2>1. p \in PodsOf(snap) /\ p = toMove[1] /\ 1 \in 1..Len(toMove)
        BY <1>2, TailOf
    <2>2. QED BY <1>2, <2>1 DEF TrialExact
<1>4. n \in Scanned /\ n \in NodesOf(snap)
    BY <1>1 DEF FirstFit, Scanned
<1>5. Sized(snap) /\ Assigned(snap, trial) /\ Exact(snap, trial)
    BY <1>2, SnapshotSized DEF Shape, TrialExact
<1>6. Assigned(snap, scanned) /\ Exact(snap, scanned) /\ scanned.at = trial.at
    BY <1>5, MemoiseExact
<1> HIDE DEF scanned
<1>7. /\ Assigned(snap, trial') /\ Exact(snap, trial') /\ trial'.at[p] = n
      /\ \A q \in PodsOf(snap) : q # p => trial'.at[q] = scanned.at[q]
    BY <1>1, <1>3, <1>4, <1>5, <1>6, MoveExact
<1>8. QED BY <1>1, <1>4, <1>6, <1>7

(* One turn of the commit loop moves one pod of the working placement, or
   leaves it where something else has put it. *)
LEMMA CommitMoves ==
    ASSUME Shape, CommitMove
    PROVE  LET m == moves[made + 1]
           IN  /\ made + 1 \in 1..Len(moves) /\ m \in Moves
               /\ Assigned(snap, work') /\ Solvent(snap, work') /\ DOMAIN work'.index = {}
               /\ \A q \in PodsOf(snap) : q # m.pod => work'.at[q] = work.at[q]
               /\ work'.at[m.pod] = IF work.at[m.pod] = m.from THEN m.to ELSE work.at[m.pod]
<1> DEFINE m == moves[made + 1]
<1>1. made + 1 \in 1..Len(moves) /\ m \in Moves /\ work' = Committed(work, m)
    BY DEF Shape, CommitMove
<1>2. m.pod \in PodsOf(snap) /\ m.from \in NodesOf(snap) /\ m.to \in NodesOf(snap)
    BY <1>1 DEF Moves
<1>3. Sized(snap) /\ Assigned(snap, work) /\ Solvent(snap, work) /\ DOMAIN work.index = {}
    BY SnapshotSized DEF Shape, CommitMove
<1>4. Exact(snap, work)
    BY <1>3 DEF Exact
<1> HIDE DEF m
<1>5. CASE work.at[m.pod] = m.from
    <2>1. work' = Place(snap, Remove(snap, work, m.pod), m.pod, m.to)
        BY <1>1, <1>5 DEF Committed
    <2>2. QED BY <1>1, <1>2, <1>3, <1>4, <1>5, <2>1, MoveExact DEF m
<1>6. CASE work.at[m.pod] # m.from
    BY <1>1, <1>2, <1>3, <1>6 DEF Committed, m
<1>7. QED BY <1>5, <1>6

(* Planning changes neither the cluster nor the snapshot nor the options. *)
LEMMA InputsKept == ASSUME Shape, [Next]_vars PROVE UNCHANGED <<cluster, opts, snap>>
BY DEF Shape, Next, Start, SkipEmpty, BeginTrial, RefuseNode, Relocate, Abandon, CommitMove,
       Commit, Finish, Relist, inputs, vars

(* The lists hold nodes and pods, and both placements stay placements. *)
LEMMA ShapeStep ==
    ASSUME Shape, TrialExact, [Next]_vars
    PROVE  Shape'
<1> DEFINE N == NodesOf(snap)
           P == PodsOf(snap)
<1>1. UNCHANGED <<cluster, opts, snap>> /\ Sized(snap) /\ opts.ceiling \in Nat
    BY InputsKept, SnapshotSized
<1>2. N' = N /\ P' = P /\ Moves' = Moves /\ Steps' = Steps
    BY <1>1 DEF NodesOf, PodsOf, Moves, Steps
<1>3. <<>> \in Seq(N) /\ <<>> \in Seq(P) /\ <<>> \in Seq(Moves) /\ <<>> \in Seq(Steps)
    OBVIOUS
<1>4. SUFFICES
      /\ phase' \in {"listed", "packing", "trial", "done"}
      /\ queue' \in Seq(N) /\ drained' \subseteq N
      /\ toMove' \in Seq(P) /\ moves' \in Seq(Moves) /\ made' \in Nat
      /\ steps' \in Seq(Steps)
      /\ phase' = "listed" => drained' = {}
      /\ phase' # "listed" => Assigned(snap, work') /\ Solvent(snap, work') /\ DOMAIN work'.index = {}
      /\ phase' = "trial" => queue' # <<>> /\ Assigned(snap, trial')
      /\ made' <= Len(moves') /\ (phase' # "trial" \/ toMove' # <<>> => made' = 0)
    BY <1>1, <1>2 DEF Shape
<1>5. /\ phase \in {"listed", "packing", "trial", "done"}
      /\ queue \in Seq(N) /\ drained \subseteq N
      /\ toMove \in Seq(P) /\ moves \in Seq(Moves) /\ made \in Nat
      /\ steps \in Seq(Steps)
      /\ phase = "listed" => drained = {}
      /\ phase # "listed" => Assigned(snap, work) /\ Solvent(snap, work) /\ DOMAIN work.index = {}
      /\ phase = "trial" => queue # <<>> /\ Assigned(snap, trial)
      /\ made <= Len(moves) /\ (phase # "trial" \/ toMove # <<>> => made = 0)
    BY DEF Shape
<1>6. queue # <<>> => Source \in N /\ Tail(queue) \in Seq(N)
    BY <1>5, TailOf DEF Source
<1>7. toMove # <<>> => Head(toMove) \in P /\ Tail(toMove) \in Seq(P)
    BY <1>5, TailOf
<1>8. CASE Start
    <2>1. DrainCandidates \subseteq N /\ IsFiniteSet(DrainCandidates)
        <3>1. DrainCandidates \subseteq N
            BY DEF DrainCandidates
        <3>2. QED BY <1>1, <3>1, FS_Subset DEF Sized
    <2>2. queue' \in SX!SetToSeqs(DrainCandidates)
        BY <1>8 DEF Start, StableSorts
    <2>3. queue' \in Seq(DrainCandidates)
        BY <2>1, <2>2, ListsAll
    <2>4. queue' \in Seq(N)
        BY <2>1, <2>3
    <2>5. work' = NewPlacementCeiling(snap, opts.ceiling) /\ cluster \in Clusters
          /\ snap = CachedSnapshot(cluster)
        BY <1>8 DEF Start, Shape
    <2>6. Assigned(snap, work') /\ Solvent(snap, work') /\ DOMAIN work'.index = {}
        BY <1>1, <2>5, FirstPlacement
    <2>7. QED BY <1>5, <1>8, <2>4, <2>6 DEF Start
<1>9. CASE SkipEmpty
    BY <1>5, <1>6, <1>9 DEF SkipEmpty
<1>10. CASE BeginTrial
    <2>1. MovableOn(Source) \subseteq P /\ IsFiniteSet(MovableOn(Source))
        <3>1. MovableOn(Source) \subseteq P
            BY <1>5, <1>10 DEF MovableOn, Occupants, Assigned, BeginTrial
        <3>2. QED BY <1>1, <3>1, FS_Subset DEF Sized
    <2>2. toMove' \in SX!SetToSeqs(MovableOn(Source))
        BY <1>10 DEF BeginTrial, StableSorts
    <2>3. toMove' \in Seq(MovableOn(Source))
        BY <2>1, <2>2, ListsAll
    <2>4. toMove' \in Seq(P)
        BY <2>1, <2>3
    <2>5. QED BY <1>3, <1>5, <1>10, <2>4 DEF BeginTrial
<1>11. CASE RefuseNode
    BY <1>5, <1>6, <1>11 DEF RefuseNode
<1>12. CASE Relocate
    <2>1. PICK n \in Scanned :
              /\ moves' = Append(moves, [pod |-> Head(toMove), from |-> Source, to |-> n])
              /\ Assigned(snap, trial')
        BY <1>12, RelocateMoves
    <2>2. [pod |-> Head(toMove), from |-> Source, to |-> n] \in Moves
        BY <1>5, <1>6, <1>7, <1>12 DEF Relocate, Moves, Scanned
    <2>3. moves' \in Seq(Moves) /\ Len(moves') = Len(moves) + 1 /\ Len(moves) \in Nat
        BY <1>5, <2>1, <2>2
    <2>4. QED BY <1>5, <1>7, <1>12, <2>1, <2>3 DEF Relocate
<1>13. CASE Abandon
    BY <1>3, <1>5, <1>6, <1>13 DEF Abandon
<1>14. CASE CommitMove
    BY <1>5, <1>14, CommitMoves DEF CommitMove
<1>15. CASE Commit
    <2>1. [target |-> Source, moves |-> moves] \in Steps
        BY <1>5, <1>6, <1>15 DEF Steps, Commit
    <2>2. steps' \in Seq(Steps)
        BY <1>5, <1>15, <2>1 DEF Commit
    <2>3. QED BY <1>3, <1>5, <1>6, <1>15, <2>2 DEF Commit
<1>16. CASE Finish
    BY <1>5, <1>16 DEF Finish
<1>17. CASE Relist
    BY <1>3, <1>5, <1>17 DEF Relist
<1>18. CASE UNCHANGED vars
    BY <1>5, <1>18 DEF vars
<1>19. QED
    BY <1>8, <1>9, <1>10, <1>11, <1>12, <1>13, <1>14, <1>15, <1>16, <1>17, <1>18 DEF Next

(* The trial's counts stay exact through every removal and placement. *)
LEMMA ExactStep ==
    ASSUME Shape, TrialExact, [Next]_vars
    PROVE  TrialExact'
<1> SUFFICES ASSUME phase' = "trial"
             PROVE  /\ Exact(snap, trial')
                    /\ \A i \in 1..Len(toMove') : trial'.at[toMove'[i]] \in NodesOf(snap)
    BY InputsKept DEF TrialExact, NodesOf
<1>1. CASE BeginTrial
    <2>1. trial' = work /\ DOMAIN work.index = {} /\ Assigned(snap, work) /\ Source \in NodesOf(snap)
        BY <1>1, TailOf DEF BeginTrial, Shape, Source
    <2>2. Exact(snap, trial')
        BY <2>1 DEF Exact
    <2>3. toMove' \in SX!SetToSeqs(MovableOn(Source))
        BY <1>1 DEF BeginTrial, StableSorts
    <2>4. IsFiniteSet(MovableOn(Source))
        <3>1. MovableOn(Source) \subseteq PodsOf(snap)
            BY <2>1 DEF MovableOn, Occupants, Assigned
        <3>2. QED BY <3>1, SnapshotSized, FS_Subset DEF Sized
    <2>5. toMove' \in Seq(MovableOn(Source))
        BY <2>3, <2>4, ListsAll
    <2>6. \A p \in MovableOn(Source) : work.at[p] = Source
        BY DEF MovableOn, Occupants
    <2>7. \A i \in 1..Len(toMove') : toMove'[i] \in MovableOn(Source)
        BY <2>5
    <2>8. QED BY <2>1, <2>2, <2>6, <2>7
<1>2. CASE Relocate
    <2>1. PICK n \in Scanned :
              /\ Exact(snap, trial')
              /\ trial'.at[Head(toMove)] = n
              /\ \A q \in PodsOf(snap) : q # Head(toMove) => trial'.at[q] = trial.at[q]
        BY <1>2, RelocateMoves
    <2>2. n \in NodesOf(snap)
        BY DEF Scanned
    <2>3. /\ toMove \in Seq(PodsOf(snap)) /\ toMove # <<>> /\ toMove' = Tail(toMove)
          /\ \A i \in 1..Len(toMove) : trial.at[toMove[i]] \in NodesOf(snap)
        BY <1>2 DEF Relocate, Shape, TrialExact
    <2>4. ASSUME NEW i \in 1..Len(toMove') PROVE trial'.at[toMove'[i]] \in NodesOf(snap)
        <3>1. toMove'[i] = toMove[i + 1] /\ i + 1 \in 1..Len(toMove)
            BY <2>3, TailOf
        <3>2. toMove'[i] \in PodsOf(snap) /\ trial.at[toMove'[i]] \in NodesOf(snap)
            BY <2>3, <3>1
        <3>3. QED BY <2>1, <2>2, <3>2
    <2>5. QED BY <2>1, <2>4
<1>3. CASE CommitMove
    BY <1>3 DEF CommitMove, TrialExact
<1>4. CASE UNCHANGED vars
    BY <1>4 DEF vars, TrialExact
<1>5. CASE Start \/ SkipEmpty \/ RefuseNode \/ Abandon \/ Commit \/ Finish \/ Relist
    BY <1>5 DEF Start, SkipEmpty, RefuseNode, Abandon, Commit, Finish, Relist
<1>6. QED BY <1>1, <1>2, <1>3, <1>4, <1>5 DEF Next

(* So the packer's books are kept throughout. *)
LEMMA BooksKept == Spec => [](Shape /\ TrialExact)
<1>1. Init => Shape /\ TrialExact
    <2> SUFFICES ASSUME Init PROVE Shape /\ TrialExact
        OBVIOUS
    <2>1. /\ <<>> \in Seq(NodesOf(snap)) /\ <<>> \in Seq(PodsOf(snap))
          /\ <<>> \in Seq(Moves) /\ <<>> \in Seq(Steps)
        OBVIOUS
    <2>2. QED BY <2>1 DEF Init, Shape, TrialExact
<1>2. Shape /\ TrialExact /\ [Next]_vars => Shape' /\ TrialExact'
    BY ShapeStep, ExactStep
<1>3. QED BY <1>1, <1>2, PTL DEF Spec

(* The memoised spread counts of a trial placement are those of a recount, for
   any cluster, any constraints and any sequence of removals and placements
   (spreadindex.go, adjustSpread). *)
THEOREM IndexAlwaysExact == Spec => []IndexIsRecount
<1>1. TrialExact => IndexIsRecount
    BY DEF TrialExact, Exact, IndexIsRecount
<1>2. QED BY <1>1, BooksKept, PTL

-----------------------------------------------------------------------------
(* The nodes given up.                                                      *)

(* No step puts a pod on a node given up, and a node is only given up once the
   moves of its pods have been made. *)
LEMMA EmptyingStep ==
    ASSUME Shape, TrialExact, Emptying, DrainedStayEmpty, [Next]_vars
    PROVE  Emptying' /\ DrainedStayEmpty'
<1> DEFINE Movable(p) == IsMovable(snap.pod[p])
<1>1. UNCHANGED snap /\ NodesOf(snap)' = NodesOf(snap) /\ PodsOf(snap)' = PodsOf(snap)
    BY InputsKept DEF NodesOf, PodsOf
<1>2. /\ queue \in Seq(NodesOf(snap)) /\ drained \subseteq NodesOf(snap)
      /\ toMove \in Seq(PodsOf(snap)) /\ moves \in Seq(Moves) /\ made \in Nat
      /\ phase = "trial" => queue # <<>>
      /\ phase # "listed" => DOMAIN work.at = PodsOf(snap)
    BY DEF Shape, Assigned
<1>3. phase \in {"packing", "trial", "done"} =>
        \A p \in PodsOf(snap) : Movable(p) => work.at[p] \notin drained
    BY <1>2 DEF DrainedStayEmpty, IsEmpty, Occupants
<1>4. phase = "trial" =>
        /\ \A i \in 1..Len(moves) : /\ moves[i].from = Source
                                    /\ moves[i].to \notin drained \cup {Source}
        /\ \A p \in PodsOf(snap) : Movable(p) /\ work.at[p] = Source =>
              \/ \E i \in 1..Len(toMove) : toMove[i] = p
              \/ \E i \in 1..Len(moves) : i > made /\ moves[i].pod = p
    BY DEF Emptying
<1>5. phase' # "listed" => DOMAIN work'.at = PodsOf(snap)
    BY <1>1, ShapeStep DEF Shape, Assigned
<1>6. SUFFICES
      /\ phase' \in {"packing", "trial", "done"} =>
            \A p \in PodsOf(snap) : Movable(p) => work'.at[p] \notin drained'
      /\ phase' = "trial" =>
            /\ \A i \in 1..Len(moves') : /\ moves'[i].from = Source'
                                         /\ moves'[i].to \notin drained' \cup {Source'}
            /\ \A p \in PodsOf(snap) : Movable(p) /\ work'.at[p] = Source' =>
                  \/ \E i \in 1..Len(toMove') : toMove'[i] = p
                  \/ \E i \in 1..Len(moves') : i > made' /\ moves'[i].pod = p
    BY <1>1, <1>5 DEF Emptying, DrainedStayEmpty, IsEmpty, Occupants
<1> HIDE DEF Movable
<1>7. CASE Start
    BY <1>7 DEF Start, Shape
<1>8. CASE SkipEmpty
    <2>1. \A p \in PodsOf(snap) : Movable(p) => work.at[p] # Source
        BY <1>2, <1>8 DEF SkipEmpty, IsEmpty, Occupants, Movable
    <2>2. QED BY <1>3, <1>8, <2>1 DEF SkipEmpty
<1>9. CASE BeginTrial
    <2>1. toMove' \in SX!SetToSeqs(MovableOn(Source))
        BY <1>9 DEF BeginTrial, StableSorts
    <2>2. IsFiniteSet(MovableOn(Source))
        <3>1. MovableOn(Source) \subseteq PodsOf(snap)
            BY <1>2, <1>9 DEF MovableOn, Occupants, BeginTrial
        <3>2. QED BY <3>1, SnapshotSized, FS_Subset DEF Sized
    <2>3. \A p \in MovableOn(Source) : \E i \in 1..Len(toMove') : toMove'[i] = p
        BY <2>1, <2>2, ListsAll
    <2>4. \A p \in PodsOf(snap) : Movable(p) /\ work.at[p] = Source => p \in MovableOn(Source)
        BY <1>2, <1>9 DEF MovableOn, Occupants, Movable, BeginTrial
    <2>5. phase = "packing" /\ UNCHANGED <<work, drained, queue>> /\ Len(moves') = 0
        BY <1>9 DEF BeginTrial
    <2>6. Source' = Source
        BY <2>5 DEF Source
    <2>7. QED BY <1>3, <2>3, <2>4, <2>5, <2>6
<1>10. CASE RefuseNode
    BY <1>3, <1>10 DEF RefuseNode
<1>11. CASE Relocate
    <2>1. PICK n \in Scanned :
              moves' = Append(moves, [pod |-> Head(toMove), from |-> Source, to |-> n])
        BY <1>11, RelocateMoves
    <2>2. n \notin drained \cup {Source}
        BY DEF Scanned
    <2>3. /\ phase = "trial" /\ UNCHANGED <<work, drained, queue, made>>
          /\ toMove # <<>> /\ toMove' = Tail(toMove)
        BY <1>11 DEF Relocate
    <2>4. Source' = Source
        BY <2>3 DEF Source
    <2>5. /\ Len(moves') = Len(moves) + 1 /\ Len(moves) \in Nat
          /\ \A i \in 1..Len(moves) : moves'[i] = moves[i]
          /\ moves'[Len(moves) + 1] = [pod |-> Head(toMove), from |-> Source, to |-> n]
        BY <1>2, <2>1
    <2>6. ASSUME NEW i \in 1..Len(moves')
          PROVE  moves'[i].from = Source /\ moves'[i].to \notin drained \cup {Source}
        <3>1. CASE i \in 1..Len(moves)
            BY <1>4, <2>3, <2>5, <3>1
        <3>2. CASE i = Len(moves) + 1
            BY <2>2, <2>5, <3>2
        <3>3. QED BY <2>5, <3>1, <3>2
    <2>7. ASSUME NEW p \in PodsOf(snap), Movable(p), work.at[p] = Source
          PROVE  \/ \E i \in 1..Len(toMove') : toMove'[i] = p
                 \/ \E i \in 1..Len(moves') : i > made /\ moves'[i].pod = p
        <3>1. CASE \E i \in 1..Len(toMove) : toMove[i] = p
            <4>1. PICK i \in 1..Len(toMove) : toMove[i] = p
                BY <3>1
            <4>2. i = 1 \/ (i - 1 \in 1..Len(Tail(toMove)) /\ Tail(toMove)[i - 1] = p)
                BY <1>2, <2>3, <4>1, TailOf
            <4>3. CASE i = 1
                <5>1. Head(toMove) = p
                    BY <1>2, <2>3, <4>1, <4>3, TailOf
                <5>2. moves'[Len(moves) + 1].pod = p /\ Len(moves) + 1 \in 1..Len(moves')
                    BY <2>5, <5>1
                <5>3. Len(moves) + 1 > made
                    BY <1>2, <2>5 DEF Shape
                <5>4. QED BY <5>2, <5>3
            <4>4. QED BY <2>3, <4>2, <4>3
        <3>2. CASE \E i \in 1..Len(moves) : i > made /\ moves[i].pod = p
            <4>1. PICK i \in 1..Len(moves) : i > made /\ moves[i].pod = p
                BY <3>2
            <4>2. i \in 1..Len(moves') /\ moves'[i].pod = p
                BY <2>5, <4>1
            <4>3. QED BY <4>1, <4>2
        <3>3. QED BY <1>4, <2>3, <2>7, <3>1, <3>2
    <2>8. QED BY <1>3, <2>3, <2>4, <2>6, <2>7
<1>12. CASE Abandon
    BY <1>3, <1>12 DEF Abandon
<1>13. CASE CommitMove
    <2> DEFINE m == moves[made + 1]
    <2>1. /\ made + 1 \in 1..Len(moves)
          /\ \A q \in PodsOf(snap) : q # m.pod => work'.at[q] = work.at[q]
          /\ work'.at[m.pod] = IF work.at[m.pod] = m.from THEN m.to ELSE work.at[m.pod]
        BY <1>13, CommitMoves
    <2>2. /\ phase = "trial" /\ phase' = "trial" /\ made' = made + 1
          /\ UNCHANGED <<drained, queue, toMove, moves>>
        BY <1>13 DEF CommitMove
    <2>3. Source' = Source
        BY <2>2 DEF Source
    <2>4. m.from = Source /\ m.to \notin drained \cup {Source}
        BY <1>4, <2>1, <2>2
    <2> HIDE DEF m
    <2>5. \A p \in PodsOf(snap) : Movable(p) => work'.at[p] \notin drained
        BY <1>3, <2>1, <2>2, <2>4
    <2>6. ASSUME NEW p \in PodsOf(snap), Movable(p), work'.at[p] = Source
          PROVE  \/ \E i \in 1..Len(toMove) : toMove[i] = p
                 \/ \E i \in 1..Len(moves) : i > made + 1 /\ moves[i].pod = p
        <3>1. p # m.pod /\ work.at[p] = Source
            BY <2>1, <2>4, <2>6
        <3>2. CASE \E i \in 1..Len(moves) : i > made /\ moves[i].pod = p
            <4>1. PICK i \in 1..Len(moves) : i > made /\ moves[i].pod = p
                BY <3>2
            <4>2. i # made + 1
                BY <3>1, <4>1 DEF m
            <4>3. QED BY <1>2, <4>1, <4>2
        <3>3. QED BY <1>4, <2>2, <2>6, <3>1, <3>2
    <2>7. QED BY <1>4, <2>2, <2>3, <2>5, <2>6
<1>14. CASE Commit
    <2>1. phase = "trial" /\ toMove = <<>> /\ made = Len(moves) /\ Len(moves) \in Nat
        BY <1>2, <1>14 DEF Commit
    <2>2. \A p \in PodsOf(snap) : Movable(p) => work.at[p] # Source
        BY <1>4, <2>1
    <2>3. QED BY <1>3, <1>14, <2>2 DEF Commit
<1>15. CASE Finish
    BY <1>3, <1>15 DEF Finish
<1>16. CASE Relist
    BY <1>16 DEF Relist
<1>17. CASE UNCHANGED vars
    <2>1. Source' = Source
        BY <1>17 DEF vars, Source
    <2>2. QED BY <1>3, <1>4, <1>17, <2>1 DEF vars
<1>18. QED
    BY <1>7, <1>8, <1>9, <1>10, <1>11, <1>12, <1>13, <1>14, <1>15, <1>16, <1>17 DEF Next

(* Both hold throughout. *)
LEMMA EmptyingKept == Spec => [](Emptying /\ DrainedStayEmpty)
<1>1. Init => Emptying /\ DrainedStayEmpty
    BY DEF Init, Emptying, DrainedStayEmpty
<1>2. Shape /\ TrialExact /\ Emptying /\ DrainedStayEmpty /\ [Next]_vars => Emptying' /\ DrainedStayEmpty'
    BY EmptyingStep
<1>3. QED BY <1>1, <1>2, BooksKept, PTL DEF Spec

(* Nodes given up stay given up: no later step of any plan puts a movable pod
   on a node that an earlier step empties or that had nothing to move
   (greedy.go, the drained set of firstFit). *)
THEOREM DrainedAlwaysEmpty == Spec => []DrainedStayEmpty
BY EmptyingKept, PTL

(* The loop over the candidates only moves on, and a node counted is a node
   given up. *)
LEMMA VisitedStep ==
    ASSUME Shape, VisitedOnce, [Next]_vars
    PROVE  VisitedOnce'
<1> DEFINE Once(q) == \A i, j \in 1..Len(q) : q[i] = q[j] => i = j
           Apart(q, d) == \A i \in 1..Len(q) : q[i] \notin d
<1>1. queue \in Seq(NodesOf(snap)) /\ drained \subseteq NodesOf(snap) /\ IsFiniteSet(NodesOf(snap))
    BY SnapshotSized DEF Shape, Sized
<1>2. IsFiniteSet(drained) /\ Cardinality(drained) \in Nat
    BY <1>1, FS_Subset, FS_CardinalityType
<1>3. /\ Once(queue) /\ Apart(queue, drained)
      /\ alreadyReclaimable \in Nat /\ alreadyReclaimable <= Cardinality(drained)
    BY DEF VisitedOnce
<1>4. SUFFICES /\ Once(queue') /\ Apart(queue', drained')
               /\ alreadyReclaimable' \in Nat /\ alreadyReclaimable' <= Cardinality(drained')
    BY DEF VisitedOnce
<1>5. ASSUME queue # <<>>
      PROVE  /\ Once(Tail(queue)) /\ Apart(Tail(queue), drained \cup {Source})
             /\ Source \notin drained
    <2>1. /\ Source = queue[1] /\ 1 \in 1..Len(queue)
          /\ \A i \in 1..Len(Tail(queue)) : i + 1 \in 1..Len(queue) /\ Tail(queue)[i] = queue[i + 1]
        BY <1>1, <1>5, TailOf DEF Source
    <2>2. \A i \in 1..Len(Tail(queue)) : i \in Nat /\ i + 1 # 1
        BY <1>1, <1>5, TailOf
    <2>3. Once(Tail(queue))
        <3> SUFFICES ASSUME NEW i \in 1..Len(Tail(queue)), NEW j \in 1..Len(Tail(queue)),
                            Tail(queue)[i] = Tail(queue)[j]
                     PROVE  i = j
            OBVIOUS
        <3>1. queue[i + 1] = queue[j + 1] /\ i + 1 \in 1..Len(queue) /\ j + 1 \in 1..Len(queue)
            BY <2>1
        <3>2. i + 1 = j + 1
            BY <1>3, <3>1
        <3>3. QED BY <2>2, <3>2
    <2>4. ASSUME NEW i \in 1..Len(Tail(queue))
          PROVE  Tail(queue)[i] \notin drained \cup {Source}
        <3>1. Tail(queue)[i] = queue[i + 1] /\ i + 1 \in 1..Len(queue)
            BY <2>1
        <3>2. queue[i + 1] # queue[1]
            BY <1>3, <2>1, <2>2, <3>1
        <3>3. QED BY <1>3, <2>1, <3>1, <3>2
    <2>5. QED BY <1>3, <2>1, <2>3, <2>4
<1>6. ASSUME queue # <<>>
      PROVE  Cardinality(drained \cup {Source}) = Cardinality(drained) + 1
    BY <1>2, <1>5, <1>6, FS_AddElement
<1> HIDE DEF Once, Apart
<1>7. CASE Start
    <2>1. DrainCandidates \subseteq NodesOf(snap)
        BY DEF DrainCandidates
    <2>2. IsFiniteSet(DrainCandidates) /\ queue' \in SX!SetToSeqs(DrainCandidates)
        BY <1>1, <1>7, <2>1, FS_Subset DEF Start, StableSorts
    <2>3. Once(queue')
        BY <2>2, ListsAll DEF Once
    <2>4. drained' = {} /\ drained = {} /\ alreadyReclaimable' = alreadyReclaimable
        BY <1>7 DEF Start, Shape
    <2>5. QED BY <1>3, <2>3, <2>4 DEF Apart
<1>8. CASE SkipEmpty
    <2>1. /\ queue # <<>> /\ queue' = Tail(queue) /\ drained' = drained \cup {Source}
          /\ alreadyReclaimable' \in {alreadyReclaimable, alreadyReclaimable + 1}
        BY <1>3, <1>8 DEF SkipEmpty
    <2>2. QED BY <1>2, <1>3, <1>5, <1>6, <2>1
<1>9. CASE RefuseNode \/ Abandon
    <2>1. queue # <<>> /\ queue' = Tail(queue) /\ UNCHANGED <<drained, alreadyReclaimable>>
        BY <1>9 DEF RefuseNode, Abandon, Shape
    <2>2. QED BY <1>3, <1>5, <2>1 DEF Apart
<1>10. CASE Commit
    <2>1. /\ queue # <<>> /\ queue' = Tail(queue) /\ drained' = drained \cup {Source}
          /\ UNCHANGED alreadyReclaimable
        BY <1>10 DEF Commit, Shape
    <2>2. QED BY <1>2, <1>3, <1>5, <1>6, <2>1
<1>11. CASE Relist
    <2>1. Cardinality({}) = 0
        BY FS_EmptySet
    <2>2. QED BY <1>11, <2>1 DEF Relist, Once, Apart
<1>12. CASE BeginTrial \/ Relocate \/ CommitMove \/ Finish \/ UNCHANGED vars
    BY <1>3, <1>12 DEF BeginTrial, Relocate, CommitMove, Finish, vars
<1>13. QED BY <1>7, <1>8, <1>9, <1>10, <1>11, <1>12 DEF Next

(* So every visit is to a node not given up. *)
LEMMA VisitsKept == Spec => []VisitedOnce
<1>1. Init => VisitedOnce
    <2>1. Cardinality({}) = 0
        BY FS_EmptySet
    <2>2. QED BY <2>1 DEF Init, VisitedOnce
<1>2. Shape /\ VisitedOnce /\ [Next]_vars => VisitedOnce'
    BY VisitedStep
<1>3. QED BY <1>1, <1>2, BooksKept, PTL DEF Spec

(* Every variable of the packer keeps its type: it visits nodes of the snapshot,
   moves pods of the snapshot between them, and counts no more idle nodes than
   there are, in every cycle anew (greedy.go). *)
THEOREM GreedyTypes == Spec => []TypeOK
<1>1. Shape /\ VisitedOnce => TypeOK
    <2> SUFFICES ASSUME Shape, VisitedOnce PROVE TypeOK
        OBVIOUS
    <2>1. /\ queue \in Seq(NodesOf(snap)) /\ drained \subseteq NodesOf(snap)
          /\ toMove \in Seq(PodsOf(snap)) /\ moves \in Seq(Moves) /\ steps \in Seq(Steps)
          /\ phase \in {"listed", "packing", "trial", "done"}
        BY DEF Shape
    <2>2. /\ Range(queue) \subseteq NodesOf(snap)
          /\ Range(toMove) \subseteq PodsOf(snap) /\ Range(moves) \subseteq Moves
        BY <2>1 DEF Range
    <2>3. ASSUME NEW i \in DOMAIN steps
          PROVE  steps[i].target \in NodesOf(snap) /\ Range(steps[i].moves) \subseteq Moves
        <3>1. steps[i] \in Steps
            BY <2>1
        <3>2. steps[i].target \in NodesOf(snap) /\ steps[i].moves \in Seq(Moves)
            BY <3>1 DEF Steps
        <3>3. QED BY <3>2 DEF Range
    <2>4. alreadyReclaimable \in 0..Cardinality(NodesOf(snap))
        <3>1. IsFiniteSet(NodesOf(snap))
            BY SnapshotSized DEF Sized
        <3>2. /\ Cardinality(drained) <= Cardinality(NodesOf(snap))
              /\ Cardinality(drained) \in Nat /\ Cardinality(NodesOf(snap)) \in Nat
            BY <2>1, <3>1, FS_Subset, FS_CardinalityType
        <3>3. QED BY <3>2 DEF VisitedOnce
    <2>5. QED BY <2>1, <2>2, <2>3, <2>4 DEF TypeOK
<1>2. QED BY <1>1, BooksKept, VisitsKept, PTL

-----------------------------------------------------------------------------
(* The plan and the analysis.                                               *)

(* A percentage below a hundred is no more than the whole. *)
LEMMA CeilingBelow ==
    ASSUME NEW v \in Nat, NEW c \in Nat, c < 100
    PROVE  (v * c) \div 100 <= v
<1>1. v * c \in Nat /\ v * c <= v * 100
    OBVIOUS
<1>2. \A x \in Nat : x <= v * 100 => x \div 100 <= v
    OBVIOUS
<1>3. QED BY <1>1, <1>2

(* What the predicates read of a placement, resources aside, is where the pods
   are and what the index holds. *)
LEMMA SamePredicates ==
    ASSUME NEW s, NEW w, NEW v, w.at = v.at, DOMAIN w.index = {}, DOMAIN v.index = {}, NEW p, NEW n
    PROVE  /\ FitsPodAntiAffinity(s, w, p, n) => FitsPodAntiAffinity(s, v, p, n)
           /\ FitsPodAffinity(s, w, p, n) => FitsPodAffinity(s, v, p, n)
           /\ FitsTopologySpread(s, w, p, n) => FitsTopologySpread(s, v, p, n)
<1>1. \A term : SomeMatchIn(s, w, p, n, term) <=> SomeMatchIn(s, v, p, n, term)
    BY DEF SomeMatchIn
<1>2. \A k : SpreadCounts(s, w, k) = SpreadCounts(s, v, k)
    <2> TAKE k
    <2>1. Recount(s, w, k) = Recount(s, v, k)
        BY DEF Recount
    <2>2. QED BY <2>1 DEF SpreadCounts
<1>3. \A tsc : DomainCounts(s, w, p, tsc) = DomainCounts(s, v, p, tsc)
    BY <1>2 DEF DomainCounts
<1>4. QED
    BY <1>1, <1>3 DEF FitsPodAntiAffinity, FitsPodAffinity, FitsTopologySpread

(* The analysis asks against the whole node, so what fits under a ceiling is
   among its candidates. *)
LEMMA CandidateUnderCeiling ==
    ASSUME NEW c \in Clusters, NEW ceiling \in Nat
    PROVE  LET s == CachedSnapshot(c)
           IN  \A p \in PodsOf(s), n \in NodesOf(s) :
                  CanPlace(s, NewPlacementCeiling(s, ceiling), p, n)
                      => CanPlace(s, NewPlacementCeiling(s, 0), p, n)
<1> DEFINE s == CachedSnapshot(c)
           w == NewPlacementCeiling(s, ceiling)
           v == NewPlacementCeiling(s, 0)
<1>1. Sized(s) /\ Solvent(s, w) /\ DOMAIN w.index = {} /\ Solvent(s, v) /\ DOMAIN v.index = {}
    BY FirstPlacement
<1> HIDE DEF s
<1>3. w.at = v.at
    BY DEF NewPlacementCeiling
<1>4. ASSUME NEW n \in NodesOf(s)
      PROVE  w.free[n].cpu <= v.free[n].cpu /\ w.free[n].slots <= v.free[n].slots
    <2> DEFINE Home(p) == IF s.pod[p].node \in NodesOf(s) THEN s.pod[p].node ELSE NoNode
               there == {p \in PodsOf(s) : Home(p) = n}
               used == SumNeed(s, there)
    <2>1. /\ w.free[n] = Minus(CeilingOf(s, n, ceiling), used)
          /\ v.free[n] = Minus(CeilingOf(s, n, 0), used)
        <3>1. /\ \A p \in PodsOf(s) : w.at[p] = Home(p) /\ v.at[p] = Home(p)
              /\ w.free[n] = Minus(CeilingOf(s, n, ceiling), SumNeed(s, {p \in PodsOf(s) : w.at[p] = n}))
              /\ v.free[n] = Minus(CeilingOf(s, n, 0), SumNeed(s, {p \in PodsOf(s) : v.at[p] = n}))
            BY <1>4 DEF NewPlacementCeiling
        <3>2. {p \in PodsOf(s) : w.at[p] = n} = there /\ {p \in PodsOf(s) : v.at[p] = n} = there
            BY <3>1
        <3>3. QED BY <3>1, <3>2
    <2>2. there \subseteq PodsOf(s)
        OBVIOUS
    <2> HIDE DEF there
    <2>3. used.cpu \in Nat /\ used.slots = Cardinality(there) /\ Cardinality(there) \in Nat
        BY <1>1, <2>2, NeedsTogether
    <2>4. used.slots \in Nat
        BY <2>3
    <2>5. s.node[n].cpu \in Nat /\ s.node[n].slots \in Nat
        BY <1>1 DEF Sized
    <2>6. /\ CeilingOf(s, n, 0).cpu = s.node[n].cpu /\ CeilingOf(s, n, 0).slots = s.node[n].slots
          /\ CeilingOf(s, n, ceiling).slots = s.node[n].slots
          /\ CeilingOf(s, n, ceiling).cpu \in Nat /\ CeilingOf(s, n, ceiling).cpu <= s.node[n].cpu
        <3>1. (s.node[n].cpu * ceiling) \div 100 \in Nat
            <4>1. s.node[n].cpu * ceiling \in Nat
                BY <2>5
            <4>2. QED BY <4>1
        <3>2. ceiling < 100 => (s.node[n].cpu * ceiling) \div 100 <= s.node[n].cpu
            BY <2>5, CeilingBelow
        <3>3. QED BY <2>5, <3>1, <3>2 DEF CeilingOf, Allocatable
    <2> HIDE DEF used
    <2>7. QED BY <2>1, <2>3, <2>4, <2>5, <2>6 DEF Minus, AtLeastZero
<1>5. ASSUME NEW p \in PodsOf(s), NEW n \in NodesOf(s), CanPlace(s, w, p, n)
      PROVE  CanPlace(s, v, p, n)
    <2>1. /\ s.pod[p].cpu \in Nat
          /\ w.free[n].cpu \in Nat /\ w.free[n].slots \in Nat
          /\ v.free[n].cpu \in Nat /\ v.free[n].slots \in Nat
        BY <1>1 DEF Sized, Solvent, Amounts
    <2>2. FitsResources(w, s.pod[p], n)
        BY <1>5 DEF CanPlace, ReachesSpread
    <2> HIDE DEF w, v
    <2>3. FitsResources(v, s.pod[p], n)
        BY <1>4, <2>1, <2>2 DEF FitsResources, Fits, Need
    <2>4. /\ FitsPodAntiAffinity(s, v, p, n) /\ FitsPodAffinity(s, v, p, n)
          /\ FitsTopologySpread(s, v, p, n)
        BY <1>1, <1>3, <1>5, SamePredicates DEF CanPlace, ReachesSpread
    <2>5. QED BY <1>5, <2>3, <2>4 DEF CanPlace, ReachesSpread
<1>6. QED BY <1>5 DEF s

(* A pod the analysis calls movable has no blocking constraint, and was asked
   where it could go. *)
LEMMA MovableIsFree ==
    ASSUME NEW s, NEW w, NEW p, AnalyzePod(s, w, p).movable
    PROVE  /\ AnalyzePod(s, w, p).candidates = CandidateNodes(s, w, p)
           /\ \A c \in ConstraintsOf(s, s.pod[p]) : ~c.blocking
<1> DEFINE b == IsMovable(s.pod[p]) /\ \A c \in ConstraintsOf(s, s.pod[p]) : ~c.blocking
<1>1. AnalyzePod(s, w, p).movable = b
    BY Zenon DEF AnalyzePod
<1>2. AnalyzePod(s, w, p).candidates = IF b THEN CandidateNodes(s, w, p) ELSE {}
    BY Zenon DEF AnalyzePod
<1>3. b
    BY <1>1, Zenon
<1>4. QED BY <1>2, <1>3, Zenon

(* Only what the analysis lets go enters the list of a trial, its moves and the
   steps. *)
LEMMA PermittedStep ==
    ASSUME Shape, TrialExact, Permitted, [Next]_vars
    PROVE  Permitted'
<1> DEFINE May(p) == analysis[p].movable
<1>1. UNCHANGED <<cluster, opts, snap>>
    BY InputsKept
<1>2. /\ toMove \in Seq(PodsOf(snap)) /\ moves \in Seq(Moves) /\ steps \in Seq(Steps)
      /\ phase \in {"listed", "packing", "trial", "done"}
    BY DEF Shape
<1>3. /\ phase = "listed" => steps = <<>>
      /\ phase # "listed" => analysis = Analyze(snap)
      /\ phase = "trial" => /\ \A i \in 1..Len(toMove) : May(toMove[i])
                            /\ \A i \in 1..Len(moves) : May(moves[i].pod)
      /\ \A i \in 1..Len(steps) : \A j \in 1..Len(steps[i].moves) : May(steps[i].moves[j].pod)
      /\ IF phase = "done" THEN plan.steps = ClassifyPlan(snap, analysis, steps) ELSE plan = NoPlan
    BY DEF Permitted
<1>4. CASE Start
    <2>1. phase' = "packing" /\ analysis' = Analyze(snap) /\ steps' = <<>> /\ plan' = NoPlan
        BY <1>3, <1>4 DEF Start
    <2>2. QED BY <1>1, <2>1 DEF Permitted
<1>5. ASSUME UNCHANGED <<analysis, steps, plan>>, phase \in {"packing", "trial"}, phase' \in {"packing", "trial"},
             phase' = "trial" => /\ \A i \in 1..Len(toMove') : May(toMove'[i])
                                 /\ \A i \in 1..Len(moves') : May(moves'[i].pod)
      PROVE  Permitted'
    BY <1>1, <1>3, <1>5 DEF Permitted
<1>6. CASE SkipEmpty \/ RefuseNode \/ Abandon
    BY <1>5, <1>6 DEF SkipEmpty, RefuseNode, Abandon
<1>7. CASE BeginTrial
    <2>1. toMove' \in SX!SetToSeqs(MovableOn(Source))
        BY <1>7 DEF BeginTrial, StableSorts
    <2>2. IsFiniteSet(MovableOn(Source))
        <3>1. MovableOn(Source) \subseteq PodsOf(snap)
            BY <1>7 DEF MovableOn, Occupants, BeginTrial, Shape, Assigned
        <3>2. QED BY <3>1, SnapshotSized, FS_Subset DEF Sized
    <2>3. toMove' \in Seq(MovableOn(Source))
        BY <2>1, <2>2, ListsAll
    <2>4. \A p \in MovableOn(Source) : May(p)
        BY <1>7 DEF BeginTrial, Forbidden
    <2>5. \A i \in 1..Len(toMove') : toMove'[i] \in MovableOn(Source)
        BY <2>3
    <2>6. Len(moves') = 0 /\ phase = "packing" /\ phase' = "trial" /\ UNCHANGED <<analysis, steps, plan>>
        BY <1>7 DEF BeginTrial
    <2> HIDE DEF May
    <2>7. \A i \in 1..Len(moves') : May(moves'[i].pod)
        BY <2>6
    <2>8. QED BY <1>5, <2>4, <2>5, <2>6, <2>7
<1>8. CASE Relocate
    <2>1. PICK n \in Scanned :
              moves' = Append(moves, [pod |-> Head(toMove), from |-> Source, to |-> n])
        BY <1>8, RelocateMoves
    <2>2. /\ phase = "trial" /\ UNCHANGED <<phase, analysis, steps, plan>>
          /\ toMove # <<>> /\ toMove' = Tail(toMove)
        BY <1>8 DEF Relocate
    <2>3. /\ Head(toMove) = toMove[1] /\ 1 \in 1..Len(toMove)
          /\ \A i \in 1..Len(toMove') : i + 1 \in 1..Len(toMove) /\ toMove'[i] = toMove[i + 1]
        BY <1>2, <2>2, TailOf
    <2>4. /\ Len(moves') = Len(moves) + 1 /\ Len(moves) \in Nat
          /\ \A i \in 1..Len(moves) : moves'[i] = moves[i]
          /\ moves'[Len(moves) + 1].pod = Head(toMove)
        BY <1>2, <2>1
    <2> HIDE DEF May
    <2>5. \A i \in 1..Len(toMove') : May(toMove'[i])
        BY <1>3, <2>2, <2>3
    <2>6. ASSUME NEW i \in 1..Len(moves') PROVE May(moves'[i].pod)
        <3>1. CASE i \in 1..Len(moves)
            BY <1>3, <2>2, <2>4, <3>1
        <3>2. CASE i = Len(moves) + 1
            BY <1>3, <2>2, <2>3, <2>4, <3>2
        <3>3. QED BY <2>4, <3>1, <3>2
    <2>7. QED BY <1>5, <2>2, <2>5, <2>6
<1>9. CASE CommitMove
    BY <1>3, <1>5, <1>9 DEF CommitMove
<1>10. CASE Commit
    <2>1. /\ phase = "trial" /\ phase' = "packing" /\ UNCHANGED <<analysis, plan>>
          /\ steps' = Append(steps, [target |-> Source, moves |-> moves])
        BY <1>10 DEF Commit
    <2>2. /\ Len(steps') = Len(steps) + 1 /\ Len(steps) \in Nat
          /\ \A i \in 1..Len(steps) : steps'[i] = steps[i]
          /\ steps'[Len(steps) + 1].moves = moves
        BY <1>2, <2>1
    <2> HIDE DEF May
    <2>3. ASSUME NEW i \in 1..Len(steps'), NEW j \in 1..Len(steps'[i].moves)
          PROVE  May(steps'[i].moves[j].pod)
        <3>1. CASE i \in 1..Len(steps)
            BY <1>3, <2>2, <3>1
        <3>2. CASE i = Len(steps) + 1
            BY <1>3, <2>1, <2>2, <3>2
        <3>3. QED BY <2>2, <3>1, <3>2
    <2>4. QED BY <1>1, <1>3, <2>1, <2>3 DEF Permitted, May
<1>11. CASE Finish
    <2>1. /\ phase = "packing" /\ phase' = "done" /\ UNCHANGED <<analysis, steps>>
          /\ plan'.steps = ClassifyPlan(snap, analysis, steps)
        BY <1>11 DEF Finish
    <2>2. QED BY <1>1, <1>3, <2>1 DEF Permitted
<1>12. CASE Relist
    BY <1>12 DEF Relist, Permitted
<1>13. CASE UNCHANGED vars
    BY <1>1, <1>3, <1>13 DEF vars, Permitted
<1>14. QED
    BY <1>4, <1>6, <1>7, <1>8, <1>9, <1>10, <1>11, <1>12, <1>13 DEF Next

(* The first element of a longer sequence. *)
LEMMA AppendFirst ==
    ASSUME NEW S, NEW q \in Seq(S), NEW x
    PROVE  /\ Append(q, x) # <<>>
           /\ q # <<>> => Append(q, x)[1] = q[1]
           /\ q = <<>> => Append(q, x)[1] = x
<1>1. q = <<>> => Append(q, x) = <<x>>
    OBVIOUS
<1>2. q # <<>> => Append(q, x)[1] = q[1]
    OBVIOUS
<1>3. QED BY <1>1, <1>2

(* The first move is found on the placement the snapshot gives, where the
   analysis has looked too. *)
LEMMA FirstMoveStep ==
    ASSUME Shape, TrialExact, Permitted, FirstMove, [Next]_vars
    PROVE  FirstMove'
<1> DEFINE MayOpen(ms) == ms # <<>> /\ ms[1].to \in Analyze(snap)[ms[1].pod].candidates
<1>1. UNCHANGED <<cluster, opts, snap>> /\ FirstPlaced' = FirstPlaced
    BY InputsKept DEF FirstPlaced, NewPlacementCeiling
<1>2. /\ queue \in Seq(NodesOf(snap)) /\ toMove \in Seq(PodsOf(snap))
      /\ moves \in Seq(Moves) /\ steps \in Seq(Steps) /\ made \in Nat
      /\ phase \in {"listed", "packing", "trial", "done"}
      /\ phase = "trial" => queue # <<>>
      /\ phase # "trial" \/ toMove # <<>> => made = 0
      /\ phase # "listed" => analysis = Analyze(snap)
      /\ phase = "listed" => steps = <<>>
    BY DEF Shape, Permitted
<1>3. /\ phase = "packing" /\ steps = <<>> => work = FirstPlaced
      /\ phase = "trial" =>
            /\ toMove = <<>> => moves # <<>>
            /\ moves = <<>> => trial = work
            /\ made = 0 => \A i \in 1..Len(toMove) : work.at[toMove[i]] = Source
            /\ steps = <<>> /\ made = 0 => work = FirstPlaced
            /\ steps = <<>> /\ moves # <<>> => MayOpen(moves)
      /\ steps # <<>> => MayOpen(steps[1].moves)
    BY <1>2 DEF FirstMove, Opens
<1>4. phase' # "listed" => analysis' = Analyze(snap)
    BY <1>1, PermittedStep DEF Permitted
<1>5. phase' = "listed" => steps' = <<>>
    BY PermittedStep DEF Permitted
<1>6. SUFFICES
      /\ phase' = "packing" /\ steps' = <<>> => work' = FirstPlaced
      /\ phase' = "trial" =>
            /\ toMove' = <<>> => moves' # <<>>
            /\ moves' = <<>> => trial' = work'
            /\ made' = 0 => \A i \in 1..Len(toMove') : work'.at[toMove'[i]] = Source'
            /\ steps' = <<>> /\ made' = 0 => work' = FirstPlaced
            /\ steps' = <<>> /\ moves' # <<>> => MayOpen(moves')
      /\ steps' # <<>> => MayOpen(steps'[1].moves)
    BY <1>1, <1>4, <1>5 DEF FirstMove, Opens
<1> HIDE DEF MayOpen
<1>7. CASE Start
    BY <1>2, <1>7 DEF Start, FirstPlaced
<1>8. CASE SkipEmpty \/ RefuseNode
    BY <1>3, <1>8 DEF SkipEmpty, RefuseNode
<1>9. CASE BeginTrial
    <2>1. /\ phase = "packing" /\ UNCHANGED <<work, queue, steps, made>> /\ trial' = work /\ moves' = <<>>
          /\ ~IsEmpty(snap, work, Source)
        BY <1>9 DEF BeginTrial
    <2>2. toMove' \in SX!SetToSeqs(MovableOn(Source))
        BY <1>9 DEF BeginTrial, StableSorts
    <2>3. IsFiniteSet(MovableOn(Source))
        <3>1. MovableOn(Source) \subseteq PodsOf(snap)
            BY <2>1 DEF MovableOn, Occupants, Shape, Assigned
        <3>2. QED BY <3>1, SnapshotSized, FS_Subset DEF Sized
    <2>4. /\ toMove' \in Seq(MovableOn(Source))
          /\ \A p \in MovableOn(Source) : \E i \in 1..Len(toMove') : toMove'[i] = p
        BY <2>2, <2>3, ListsAll
    <2>5. MovableOn(Source) # {}
        BY <2>1 DEF MovableOn, IsEmpty
    <2>6. toMove' # <<>>
        BY <2>4, <2>5
    <2>7. \A i \in 1..Len(toMove') : work.at[toMove'[i]] = Source
        BY <2>4 DEF MovableOn, Occupants
    <2>8. Source' = Source
        BY <2>1 DEF Source
    <2>9. QED BY <1>3, <2>1, <2>6, <2>7, <2>8
<1>10. CASE Relocate
    <2> DEFINE p == Head(toMove)
    <2>1. PICK n \in Scanned :
              /\ n \in FirstFit(trial, p)
              /\ moves' = Append(moves, [pod |-> p, from |-> Source, to |-> n])
        BY <1>10, RelocateMoves
    <2>2. /\ phase = "trial" /\ UNCHANGED <<phase, work, queue, made, steps>>
          /\ toMove # <<>> /\ toMove' = Tail(toMove)
        BY <1>10 DEF Relocate
    <2>3. Source' = Source
        BY <2>2 DEF Source
    <2>4. /\ p \in PodsOf(snap) /\ p = toMove[1] /\ 1 \in 1..Len(toMove)
          /\ \A i \in 1..Len(toMove') : i + 1 \in 1..Len(toMove) /\ toMove'[i] = toMove[i + 1]
        BY <1>2, <2>2, TailOf
    <2>5. moves' # <<>> /\ (moves # <<>> => moves'[1] = moves[1])
          /\ (moves = <<>> => moves'[1] = [pod |-> p, from |-> Source, to |-> n])
        <3> DEFINE move == [pod |-> p, from |-> Source, to |-> n]
        <3>1. moves \in Seq(Moves) /\ moves' = Append(moves, move)
            BY <1>2, <2>1
        <3> HIDE DEF move
        <3>2. moves' # <<>> /\ (moves # <<>> => moves'[1] = moves[1]) /\ (moves = <<>> => moves'[1] = move)
            BY <3>1, AppendFirst
        <3>3. QED BY <3>2 DEF move
    <2>6. made = 0 => \A i \in 1..Len(toMove') : work.at[toMove'[i]] = Source
        BY <1>3, <2>2, <2>4
    <2>7. CASE moves # <<>>
        BY <1>3, <2>2, <2>3, <2>5, <2>6, <2>7 DEF MayOpen
    <2>8. ASSUME moves = <<>>, steps = <<>> PROVE MayOpen(moves')
        <3>1. made = 0 /\ trial = FirstPlaced /\ trial = work /\ work.at[p] = Source
            BY <1>2, <1>3, <2>2, <2>4, <2>8
        <3>2. n \in NodesOf(snap) /\ n # Source /\ CanPlace(snap, FirstPlaced, p, n)
            BY <2>1, <3>1 DEF FirstFit, Scanned
        <3>3. /\ cluster \in Clusters /\ snap = CachedSnapshot(cluster) /\ opts.ceiling \in Nat
              /\ Source \in NodesOf(snap) /\ NoNode \notin NodesOf(snap)
            BY <1>2, <2>2, SnapshotSized, TailOf DEF Shape, Sized, Source
        <3>4. CanPlace(snap, NewPlacementCeiling(snap, 0), p, n)
            BY <2>4, <3>2, <3>3, CandidateUnderCeiling DEF FirstPlaced
        <3>5. FirstPlaced.at[p] = IF snap.pod[p].node \in NodesOf(snap) THEN snap.pod[p].node ELSE NoNode
            BY <2>4 DEF FirstPlaced, NewPlacementCeiling
        <3>6. snap.pod[p].node = Source
            BY <3>1, <3>3, <3>5
        <3>7. n \in CandidateNodes(snap, NewPlacementCeiling(snap, 0), p)
            BY <3>2, <3>4, <3>6 DEF CandidateNodes
        <3>8. Analyze(snap)[p].movable
            BY <1>2, <2>2, <2>4 DEF Permitted
        <3>9. /\ Analyze(snap)[p] = AnalyzePod(snap, NewPlacementCeiling(snap, 0), p)
            BY <2>4 DEF Analyze
        <3>10. Analyze(snap)[p].candidates = CandidateNodes(snap, NewPlacementCeiling(snap, 0), p)
            BY <3>8, <3>9, MovableIsFree
        <3>11. moves'[1].to = n /\ moves'[1].pod = p
            BY <2>5, <2>8
        <3>12. QED BY <2>5, <3>7, <3>10, <3>11 DEF MayOpen
    <2>9. QED BY <1>3, <2>2, <2>3, <2>5, <2>6, <2>7, <2>8
<1>11. CASE Abandon
    BY <1>2, <1>3, <1>11 DEF Abandon
<1>12. CASE CommitMove
    <2>1. /\ phase = "trial" /\ toMove = <<>> /\ made' = made + 1
          /\ UNCHANGED <<phase, queue, toMove, moves, trial, steps>>
        BY <1>12 DEF CommitMove
    <2>2. made' # 0 /\ moves # <<>>
        BY <1>2, <1>3, <2>1
    <2>3. QED BY <1>3, <2>1, <2>2
<1>13. CASE Commit
    <2>1. /\ phase = "trial" /\ toMove = <<>> /\ phase' = "packing"
          /\ steps' = Append(steps, [target |-> Source, moves |-> moves])
        BY <1>13 DEF Commit
    <2>2. steps' # <<>> /\ (steps # <<>> => steps'[1] = steps[1]) /\ (steps = <<>> => steps'[1].moves = moves)
        <3> DEFINE step == [target |-> Source, moves |-> moves]
        <3>1. steps \in Seq(Steps) /\ steps' = Append(steps, step)
            BY <1>2, <2>1
        <3>2. step.moves = moves
            OBVIOUS
        <3> HIDE DEF step
        <3>3. QED BY <3>1, <3>2, AppendFirst
    <2>3. QED BY <1>3, <2>1, <2>2
<1>14. CASE Finish
    BY <1>3, <1>14 DEF Finish
<1>15. CASE Relist
    BY <1>15 DEF Relist
<1>16. CASE UNCHANGED vars
    <2>1. Source' = Source
        BY <1>16 DEF vars, Source
    <2>2. QED BY <1>3, <1>16, <2>1 DEF vars
<1>17. QED
    BY <1>7, <1>8, <1>9, <1>10, <1>11, <1>12, <1>13, <1>14, <1>15, <1>16 DEF Next

(* A step made of pods the analysis lets go breaks no exhausted budget. *)
LEMMA NoZeroHeadroom ==
    ASSUME NEW s, NEW step, \A m \in Range(step.moves) : m.pod \in PodsOf(s) /\ Analyze(s)[m.pod].movable
    PROVE  \A r \in ReasonsFor(s, Analyze(s), step) : r.kind # "PDBZeroHeadroom"
<1> SUFFICES ASSUME NEW r \in ReasonsFor(s, Analyze(s), step), r.kind = "PDBZeroHeadroom"
             PROVE  FALSE
    OBVIOUS
<1> DEFINE a == Analyze(s)
           Of(m) == OwnerReasons(s.pod[m.pod], m.pod) \cup BudgetReasons(s, s.pod[m.pod])
                    \cup ConstraintReasons(a[m.pod], m.pod)
<1>1. r \notin SizeReasons(step)
    BY DEF SizeReasons, Reason
<1>2. r \in SizeReasons(step) \cup UNION {Of(m) : m \in Range(step.moves)}
    BY DEF ReasonsFor
<1> HIDE DEF Of
<1>3. PICK m \in Range(step.moves) : r \in Of(m)
    <2>1. r \in UNION {Of(m) : m \in Range(step.moves)}
        BY <1>1, <1>2, Zenon
    <2>2. PICK R \in {Of(m) : m \in Range(step.moves)} : r \in R
        BY <2>1, Zenon
    <2>3. QED BY <2>2, Zenon
<1>4. r \notin OwnerReasons(s.pod[m.pod], m.pod)
    BY DEF OwnerReasons, If, Reason
<1>5. r \notin ConstraintReasons(a[m.pod], m.pod)
    BY DEF ConstraintReasons, If, Reason
<1>6. r \in BudgetReasons(s, s.pod[m.pod])
    BY <1>3, <1>4, <1>5 DEF Of
<1>7. PICK b \in Covering(s, s.pod[m.pod]) : Blocks(b)
    BY <1>6 DEF BudgetReasons, Reason
<1>8. a[m.pod] = AnalyzePod(s, NewPlacementCeiling(s, 0), m.pod) /\ a[m.pod].movable
    BY DEF Analyze
<1>9. \A c \in ConstraintsOf(s, s.pod[m.pod]) : ~c.blocking
    BY <1>8, MovableIsFree
<1>10. Constraint("PDB", TRUE, Blocks(b)) \in ConstraintsOf(s, s.pod[m.pod])
    BY DEF ConstraintsOf, PdbConstraints
<1>11. ~Constraint("PDB", TRUE, Blocks(b)).blocking
    BY <1>9, <1>10
<1>12. Constraint("PDB", TRUE, Blocks(b)).blocking = Blocks(b)
    BY Zenon DEF Constraint
<1>13. QED BY <1>7, <1>11, <1>12, Zenon

(* Both parts hold throughout. *)
LEMMA AnalysisKept == Spec => [](Permitted /\ FirstMove)
<1>1. Init => Permitted /\ FirstMove
    BY DEF Init, Permitted, FirstMove
<1>2. Shape /\ TrialExact /\ Permitted /\ FirstMove /\ [Next]_vars => Permitted' /\ FirstMove'
    BY PermittedStep, FirstMoveStep
<1>3. QED BY <1>1, <1>2, BooksKept, PTL DEF Spec

(* The plan and the explanations shown beside it agree, for any cluster and
   whatever ceiling the packer works under: every pod moved is movable in the
   analysis, no step is rated for an exhausted budget, and the first move goes
   to a candidate the analysis lists (analyzer.go, greedy.go, impact.go). *)
THEOREM PlanAlwaysAgrees == Spec => []PlanAgreesWithAnalysis
<1>1. Shape /\ Permitted /\ FirstMove => PlanAgreesWithAnalysis
    <2> SUFFICES ASSUME Shape, Permitted, FirstMove PROVE PlanAgreesWithAnalysis
        OBVIOUS
    <2>1. steps \in Seq(Steps) /\ DOMAIN steps = 1..Len(steps)
        BY DEF Shape
    <2>2. ASSUME NEW i \in DOMAIN steps, NEW m \in Range(steps[i].moves)
          PROVE  m.pod \in PodsOf(snap) /\ analysis[m.pod].movable
        <3>1. steps[i] \in Steps
            BY <2>1
        <3>2. steps[i].moves \in Seq(Moves)
            BY <3>1 DEF Steps
        <3>3. PICK j \in 1..Len(steps[i].moves) : m = steps[i].moves[j]
            BY <2>2, <3>2 DEF Range
        <3>4. m \in Moves
            BY <3>2, <3>3
        <3>5. QED BY <2>1, <3>3, <3>4 DEF Permitted, Moves
    <2>3. steps # <<>> => /\ steps[1].moves # <<>>
                          /\ steps[1].moves[1].to \in analysis[steps[1].moves[1].pod].candidates
        BY DEF FirstMove, Opens
    <2>4. ASSUME plan # NoPlan, NEW i \in DOMAIN plan.steps, NEW r \in plan.steps[i].reasons
          PROVE  r.kind # "PDBZeroHeadroom"
        <3>1. analysis = Analyze(snap) /\ plan.steps = ClassifyPlan(snap, analysis, steps)
            BY <2>4 DEF Permitted
        <3>2. i \in DOMAIN steps /\ plan.steps[i] = ClassifyStep(snap, analysis, steps[i])
            BY <2>4, <3>1 DEF ClassifyPlan
        <3>3. r \in ReasonsFor(snap, Analyze(snap), steps[i])
            BY <2>4, <3>1, <3>2 DEF ClassifyStep
        <3>4. \A m \in Range(steps[i].moves) : m.pod \in PodsOf(snap) /\ Analyze(snap)[m.pod].movable
            BY <2>2, <3>1, <3>2
        <3>5. QED BY <3>3, <3>4, NoZeroHeadroom
    <2>5. QED BY <2>2, <2>3, <2>4 DEF PlanAgreesWithAnalysis
<1>2. QED BY <1>1, BooksKept, AnalysisKept, PTL

-----------------------------------------------------------------------------
(* The two readers of the cluster.                                          *)

(* applyTransform leaves every field but the annotations and the statuses. *)
LEMMA TransformKeeps ==
    ASSUME NEW pod, DOMAIN pod = PodFields
    PROVE  /\ \A f \in PodFields \ {"annotations", "statuses"} : Transform(pod)[f] = pod[f]
           /\ Transform(pod).annotations
                 = Restrict(pod.annotations, DOMAIN pod.annotations \cap HandsOffKeys)
<1>1. "annotations" \in DOMAIN pod /\ "statuses" \in DOMAIN pod
    BY DEF PodFields
<1> DEFINE kept == Restrict(pod.annotations, DOMAIN pod.annotations \cap HandsOffKeys)
<1>2. Transform(pod) = [[pod EXCEPT !.annotations = kept] EXCEPT !.statuses = {}]
    BY DEF Transform
<1> HIDE DEF kept
<1>3. \A f \in PodFields \ {"annotations", "statuses"} : Transform(pod)[f] = pod[f]
    BY <1>1, <1>2
<1>4. Transform(pod).annotations = kept
    BY <1>1, <1>2
<1>5. QED BY <1>3, <1>4 DEF kept

(* A hands-off annotation reads the same with the rest stripped. *)
LEMMA HandsOffKept ==
    ASSUME NEW pod, DOMAIN pod = PodFields, NEW k \in HandsOffKeys, NEW v
    PROVE  Annotated(Transform(pod), k, v) = Annotated(pod, k, v)
<1> DEFINE whole == pod.annotations
           kept  == Restrict(whole, DOMAIN whole \cap HandsOffKeys)
<1>1. DOMAIN kept = DOMAIN whole \cap HandsOffKeys
      /\ \A x \in DOMAIN whole \cap HandsOffKeys : kept[x] = whole[x]
    BY DEF Restrict
<1>2. Transform(pod).annotations = kept
    BY TransformKeeps
<1> HIDE DEF kept, whole
<1>3. (k \in DOMAIN kept /\ kept[k] = v) <=> (k \in DOMAIN whole /\ whole[k] = v)
    BY <1>1
<1>4. Annotated(Transform(pod), k, v) <=> Annotated(pod, k, v)
    BY <1>2, <1>3 DEF Annotated, whole
<1>5. QED BY <1>4, Zenon DEF Annotated

(* Resolving a ReplicaSet or not makes no pod unmanaged, stateful or pinned. *)
LEMMA OwnerKindsAgree ==
    ASSUME NEW c \in Clusters, NEW pod
    PROVE  \A kind \in {"None", "StatefulSet", "DaemonSet", "Node"} :
              OwnerOf(pod, c.cachedReplicaSets).kind = kind <=> OwnerOf(pod, c.replicaSets).kind = kind
<1>1. ASSUME NEW known \in {c.replicaSets, c.cachedReplicaSets},
             NEW kind \in {"None", "StatefulSet", "DaemonSet", "Node"}
      PROVE  OwnerOf(pod, known).kind = kind <=> pod.controller.kind = kind
    <2>1. \A r \in DOMAIN known : known[r].kind \notin {"DaemonSet", "Node", "StatefulSet"}
        BY ObjectsAssumption
    <2>2. CASE OwnerOf(pod, known) = pod.controller
        BY <2>2
    <2>3. CASE OwnerOf(pod, known) # pod.controller
        <3>1. /\ pod.controller.kind = "ReplicaSet" /\ pod.controller.name \in DOMAIN known
              /\ known[pod.controller.name].kind # "None"
              /\ OwnerOf(pod, known) = known[pod.controller.name]
            BY <2>3 DEF OwnerOf
        <3>2. QED BY <2>1, <3>1
    <2>4. QED BY <2>2, <2>3
<1>2. QED BY <1>1

(* What a converted pod has. *)
ConvertedFields ==
    {"node", "ns", "labels", "cpu", "owner", "ownerName", "phase", "handsOff", "pvc",
     "nodeSelector", "affinity", "tolerations", "anti", "near", "spread"}

(* Two converted pods that differ in the owner only. *)
LEMMA OwnerReplaced ==
    ASSUME NEW a, NEW b,
           a = [x \in ConvertedFields |-> a[x]], b = [x \in ConvertedFields |-> b[x]],
           \A x \in ConvertedFields \ {"owner", "ownerName"} : a[x] = b[x]
    PROVE  [a EXCEPT !.owner = b.owner, !.ownerName = b.ownerName] = b
<1>1. "owner" \in ConvertedFields /\ "ownerName" \in ConvertedFields
    BY DEF ConvertedFields
<1>2. [a EXCEPT !.owner = b.owner, !.ownerName = b.ownerName] = [x \in ConvertedFields |-> b[x]]
    BY <1>1
<1>3. QED BY <1>2

(* Conversion of a stripped pod: only the owner can differ. *)
LEMMA ConversionsAgree ==
    ASSUME NEW c \in Clusters, NEW p \in DOMAIN c.pod
    PROVE  LET mine == ConvertPod(Transform(c.pod[p]), c.cachedReplicaSets)
               theirs == ConvertPod(c.pod[p], c.replicaSets)
           IN  /\ [mine EXCEPT !.owner = theirs.owner, !.ownerName = theirs.ownerName] = theirs
               /\ IsMovable(mine) = IsMovable(theirs)
               /\ OwnerReasons(mine, p) = OwnerReasons(theirs, p)
<1> DEFINE pod    == c.pod[p]
           cut    == Transform(pod)
           mine   == ConvertPod(cut, c.cachedReplicaSets)
           theirs == ConvertPod(pod, c.replicaSets)
           cpu    == EffectiveRequests(pod.containers, pod.inits, pod.overhead)
           ph     == IF pod.deleting THEN "Terminating" ELSE pod.phase
           vol    == pod.claims # {}
           aff    == {t.expressions : t \in pod.nodeAffinity}
           Rest(o, hands) ==
               [node |-> pod.node, ns |-> pod.ns, labels |-> pod.labels,
                cpu |-> cpu, owner |-> o.kind, ownerName |-> o.name, phase |-> ph,
                handsOff |-> hands, pvc |-> vol, nodeSelector |-> pod.nodeSelector, affinity |-> aff,
                tolerations |-> pod.tolerations, anti |-> pod.anti, near |-> pod.near,
                spread |-> pod.spread]
           handsOff == Annotated(pod, "do-not-disrupt", "true") \/ Annotated(pod, "safe-to-evict", "false")
           o1 == OwnerOf(pod, c.cachedReplicaSets)
           o2 == OwnerOf(pod, c.replicaSets)
<1>1. DOMAIN pod = PodFields
    BY ObjectsAssumption
<1>2. /\ cut.node = pod.node /\ cut.ns = pod.ns /\ cut.labels = pod.labels
      /\ cut.containers = pod.containers /\ cut.inits = pod.inits /\ cut.overhead = pod.overhead
      /\ cut.controller = pod.controller /\ cut.phase = pod.phase /\ cut.deleting = pod.deleting
      /\ cut.claims = pod.claims /\ cut.nodeSelector = pod.nodeSelector
      /\ cut.nodeAffinity = pod.nodeAffinity /\ cut.tolerations = pod.tolerations
      /\ cut.anti = pod.anti /\ cut.near = pod.near /\ cut.spread = pod.spread
    BY <1>1, TransformKeeps DEF PodFields
<1>3. /\ Annotated(cut, "do-not-disrupt", "true") = Annotated(pod, "do-not-disrupt", "true")
      /\ Annotated(cut, "safe-to-evict", "false") = Annotated(pod, "safe-to-evict", "false")
    BY <1>1, HandsOffKept DEF HandsOffKeys
<1> HIDE DEF cut, pod
<1>4. OwnerOf(cut, c.cachedReplicaSets) = o1
    BY <1>2 DEF OwnerOf
<1> HIDE DEF o1, o2
<1>5. mine = Rest(o1, handsOff)
    BY <1>2, <1>3, <1>4, Zenon DEF ConvertPod
<1>6. theirs = Rest(o2, handsOff)
    BY Zenon DEF ConvertPod, o2
<1> HIDE DEF mine, theirs, handsOff
<1>7. [mine EXCEPT !.owner = theirs.owner, !.ownerName = theirs.ownerName] = theirs
    <2> HIDE DEF cpu, ph, vol, aff
    <2>1. ASSUME NEW o
          PROVE  Rest(o, handsOff) = [x \in ConvertedFields |-> Rest(o, handsOff)[x]]
        BY DEF ConvertedFields
    <2>2. ASSUME NEW x \in ConvertedFields \ {"owner", "ownerName"}
          PROVE  Rest(o1, handsOff)[x] = Rest(o2, handsOff)[x]
        BY DEF ConvertedFields
    <2> HIDE DEF Rest
    <2>3. mine = [x \in ConvertedFields |-> mine[x]] /\ theirs = [x \in ConvertedFields |-> theirs[x]]
        BY <1>5, <1>6, <2>1, Zenon
    <2>4. \A x \in ConvertedFields \ {"owner", "ownerName"} : mine[x] = theirs[x]
        BY <1>5, <1>6, <2>2, Zenon
    <2>5. QED BY <2>3, <2>4, OwnerReplaced, Zenon
<1>8. /\ mine.phase = theirs.phase /\ mine.handsOff = theirs.handsOff /\ mine.pvc = theirs.pvc
      /\ mine.owner = o1.kind /\ theirs.owner = o2.kind
    BY <1>5, <1>6, Zenon
<1>9. \A kind \in {"None", "StatefulSet", "DaemonSet", "Node"} : o1.kind = kind <=> o2.kind = kind
    BY OwnerKindsAgree DEF o1, o2
<1> HIDE DEF Rest
<1>10. /\ mine.owner = "None" <=> theirs.owner = "None"
       /\ mine.owner = "StatefulSet" <=> theirs.owner = "StatefulSet"
       /\ mine.owner = "DaemonSet" <=> theirs.owner = "DaemonSet"
       /\ mine.owner = "Node" <=> theirs.owner = "Node"
    BY <1>8, <1>9
<1>11. IsMovable(mine) = IsMovable(theirs)
    BY <1>8, <1>10, Zenon DEF IsMovable, Finished, PinnedToNode
<1>12. OwnerReasons(mine, p) = OwnerReasons(theirs, p)
    BY <1>8, <1>10 DEF OwnerReasons, If
<1>13. QED BY <1>7, <1>11, <1>12 DEF mine, theirs, cut, pod

(* The two conversions keep a pod's namespace and labels. *)
LEMMA ConversionsKeep ==
    ASSUME NEW c \in Clusters, NEW p \in DOMAIN c.pod
    PROVE  /\ ConvertPod(Transform(c.pod[p]), c.cachedReplicaSets).ns = c.pod[p].ns
           /\ ConvertPod(Transform(c.pod[p]), c.cachedReplicaSets).labels = c.pod[p].labels
           /\ ConvertPod(c.pod[p], c.replicaSets).ns = c.pod[p].ns
           /\ ConvertPod(c.pod[p], c.replicaSets).labels = c.pod[p].labels
<1>1. DOMAIN c.pod[p] = PodFields
    BY ObjectsAssumption
<1>2. Transform(c.pod[p]).ns = c.pod[p].ns /\ Transform(c.pod[p]).labels = c.pod[p].labels
    BY <1>1, TransformKeeps DEF PodFields
<1>3. \A obj, rs : ConvertPod(obj, rs).ns = obj.ns /\ ConvertPod(obj, rs).labels = obj.labels
    BY Zenon DEF ConvertPod
<1>4. QED BY <1>2, <1>3

(* Of the pods the planner watches, its reader and the executor's see the same,
   whatever the objects, the limit on the namespaces and the ReplicaSets the cache
   has not heard of: what applyTransform strips is read by nobody, and a budget is
   watched with the pods it covers (collector.go, direct.go). *)
THEOREM ReadersAlwaysAgree == Spec => []ReadersAgree
<1>1. Shape => ReadersAgree
    <2> SUFFICES ASSUME Shape PROVE ReadersAgree
        OBVIOUS
    <2>1. cluster \in Clusters /\ snap = CachedSnapshot(cluster)
        BY DEF Shape
    <2> DEFINE direct == DirectSnapshot(cluster)
    <2>2. snap.budgets = {b \in direct.budgets : Watches(cluster, b.ns)}
        BY <2>1 DEF CachedSnapshot, DirectSnapshot
    <2>3. /\ snap.pod = [p \in Cached(cluster) |->
                            ConvertPod(Transform(cluster.pod[p]), cluster.cachedReplicaSets)]
          /\ direct.pod = [p \in Live(cluster) |-> ConvertPod(cluster.pod[p], cluster.replicaSets)]
        BY <2>1 DEF CachedSnapshot, DirectSnapshot
    <2> HIDE DEF direct
    <2>4. /\ PodsOf(snap) = Cached(cluster) /\ PodsOf(direct) = Live(cluster)
          /\ Cached(cluster) = {p \in Live(cluster) : Watches(cluster, cluster.pod[p].ns)}
          /\ Live(cluster) \subseteq DOMAIN cluster.pod
        BY <2>3 DEF PodsOf, Cached, Live
    <2>5. ASSUME NEW p \in PodsOf(snap)
          PROVE  /\ [snap.pod[p] EXCEPT !.owner = direct.pod[p].owner, !.ownerName = direct.pod[p].ownerName]
                       = direct.pod[p]
                 /\ IsMovable(snap.pod[p]) = IsMovable(direct.pod[p])
                 /\ OwnerReasons(snap.pod[p], p) = OwnerReasons(direct.pod[p], p)
        <3>1. p \in DOMAIN cluster.pod
            BY <2>4
        <3>2. /\ snap.pod[p] = ConvertPod(Transform(cluster.pod[p]), cluster.cachedReplicaSets)
              /\ direct.pod[p] = ConvertPod(cluster.pod[p], cluster.replicaSets)
            BY <2>3, <2>4
        <3> HIDE DEF direct
        <3>3. QED BY <2>1, <3>1, <3>2, ConversionsAgree, Zenon
    <2>6. ASSUME NEW p \in PodsOf(snap)
          PROVE  Covering(snap, snap.pod[p]) = Covering(direct, direct.pod[p])
        <3>1. p \in DOMAIN cluster.pod /\ Watches(cluster, cluster.pod[p].ns)
            BY <2>4
        <3>2. /\ snap.pod[p] = ConvertPod(Transform(cluster.pod[p]), cluster.cachedReplicaSets)
              /\ direct.pod[p] = ConvertPod(cluster.pod[p], cluster.replicaSets)
            BY <2>3, <2>4
        <3>3. /\ snap.pod[p].ns = cluster.pod[p].ns /\ direct.pod[p].ns = cluster.pod[p].ns
              /\ snap.pod[p].labels = direct.pod[p].labels
            BY <2>1, <3>1, <3>2, ConversionsKeep
        <3>4. QED BY <2>2, <3>1, <3>3 DEF Covering
    <2>7. \A p \in Live(cluster) : direct.pod[p].ns = cluster.pod[p].ns
        BY <2>1, <2>3, <2>4, ConversionsKeep
    <2>8. PodsOf(snap) = {p \in PodsOf(direct) : Watches(cluster, direct.pod[p].ns)}
        BY <2>4, <2>7
    <2>9. QED BY <2>5, <2>6, <2>8, Zenon DEF ReadersAgree, direct
<1>2. QED BY <1>1, BooksKept, PTL

-----------------------------------------------------------------------------
(* The reports.                                                             *)

(* A pod of the snapshot has the fields of a converted pod and has not ended. *)
LEMMA PodsConverted ==
    ASSUME NEW c \in Clusters, NEW p \in PodsOf(CachedSnapshot(c))
    PROVE  /\ DOMAIN CachedSnapshot(c).pod[p] = ConvertedFields
           /\ ~Finished(CachedSnapshot(c).pod[p])
<1> DEFINE s == CachedSnapshot(c)
           cut == Transform(c.pod[p])
<1>1. s.pod = [q \in Cached(c) |-> ConvertPod(Transform(c.pod[q]), c.cachedReplicaSets)]
    BY DEF CachedSnapshot
<1>2. p \in Live(c) /\ s.pod[p] = ConvertPod(cut, c.cachedReplicaSets)
    BY <1>1 DEF PodsOf, Cached
<1>3. DOMAIN c.pod[p] = PodFields /\ c.pod[p].phase \notin {"Succeeded", "Failed"}
    BY <1>2, ObjectsAssumption DEF Live
<1>4. cut.phase = c.pod[p].phase
    BY <1>3, TransformKeeps DEF PodFields
<1> HIDE DEF s, cut
<1>5. DOMAIN s.pod[p] = ConvertedFields
    BY <1>2 DEF ConvertPod, ConvertedFields
<1>6. s.pod[p].phase = IF cut.deleting THEN "Terminating" ELSE cut.phase
    BY <1>2 DEF ConvertPod
<1>7. s.pod[p].phase \notin {"Succeeded", "Failed"}
    BY <1>3, <1>4, <1>6
<1>8. QED BY <1>5, <1>7 DEF Finished, s

(* A pod that cannot be moved has a constraint that says so. *)
LEMMA ImmovableIsBlocked ==
    ASSUME NEW s, NEW w, NEW p, ~Finished(s.pod[p]), ~AnalyzePod(s, w, p).movable
    PROVE  Blockers(AnalyzePod(s, w, p)) # {}
<1> DEFINE pod == s.pod[p]
           b == IsMovable(pod) /\ \A c \in ConstraintsOf(s, pod) : ~c.blocking
<1>1. AnalyzePod(s, w, p).movable = b /\ AnalyzePod(s, w, p).constraints = ConstraintsOf(s, pod)
    BY Zenon DEF AnalyzePod
<1>2. ~b
    BY <1>1, Zenon
<1>3. (\E c \in ConstraintsOf(s, pod) : c.blocking) => Blockers(AnalyzePod(s, w, p)) # {}
    BY <1>1, Zenon DEF Blockers
<1>4. Constraint("DoNotDisrupt", TRUE, TRUE).blocking /\ Constraint("ControllerPinned", TRUE, TRUE).blocking
    BY Zenon DEF Constraint
<1>5. pod.handsOff => Constraint("DoNotDisrupt", TRUE, TRUE) \in ConstraintsOf(s, pod)
    BY DEF ConstraintsOf, PinningConstraints, If
<1>6. PinnedToNode(pod) \/ pod.phase = "Terminating"
        => Constraint("ControllerPinned", TRUE, TRUE) \in ConstraintsOf(s, pod)
    BY DEF ConstraintsOf, PinningConstraints, If
<1>7. IsMovable(pod) \/ pod.handsOff \/ PinnedToNode(pod) \/ pod.phase = "Terminating"
    BY Zenon DEF IsMovable
<1>8. QED BY <1>2, <1>3, <1>4, <1>5, <1>6, <1>7, Zenon

(* A pod pinned to its node is not movable. *)
LEMMA MovableNotPinned ==
    ASSUME NEW s, NEW w, NEW p, AnalyzePod(s, w, p).movable
    PROVE  ~AnalyzePod(s, w, p).pinned
<1> DEFINE pod == s.pod[p]
           b == IsMovable(pod) /\ \A c \in ConstraintsOf(s, pod) : ~c.blocking
<1>1. AnalyzePod(s, w, p).movable = b /\ AnalyzePod(s, w, p).pinned = PinnedToNode(pod)
    BY Zenon DEF AnalyzePod
<1>2. IsMovable(pod)
    BY <1>1, Zenon
<1>3. ~PinnedToNode(pod)
    BY <1>2, Zenon DEF IsMovable
<1>4. QED BY <1>1, <1>3, Zenon

(* The snapshot what-if analyses: the other nodes, the pods that stay or have to
   find a home, as they were but for where they are. *)
LEMMA WithoutKeeps ==
    ASSUME NEW s, NEW R, \A p \in PodsOf(s) : DOMAIN s.pod[p] = ConvertedFields
    PROVE  LET t == Without(s, R)
           IN  /\ NodesOf(t) = NodesOf(s) \ R /\ \A m \in NodesOf(t) : t.node[m] = s.node[m]
               /\ t.budgets = s.budgets
               /\ PodsOf(t) = {p \in PodsOf(s) : s.pod[p].node \notin R \/ IsMovable(s.pod[p])}
               /\ \A p \in PodsOf(t) :
                     /\ t.pod[p].node = IF s.pod[p].node \in R THEN NoNode ELSE s.pod[p].node
                     /\ \A f \in ConvertedFields \ {"node"} : t.pod[p][f] = s.pod[p][f]
<1> DEFINE t == Without(s, R)
           kept == {p \in PodsOf(s) : s.pod[p].node \notin R \/ IsMovable(s.pod[p])}
<1>1. /\ t.node = [n \in NodesOf(s) \ R |-> s.node[n]] /\ t.budgets = s.budgets
      /\ t.pod = [p \in kept |-> IF s.pod[p].node \in R THEN [s.pod[p] EXCEPT !.node = NoNode] ELSE s.pod[p]]
    BY DEF Without
<1> HIDE DEF t
<1>2. PodsOf(t) = kept /\ NodesOf(t) = NodesOf(s) \ R
    BY <1>1 DEF PodsOf, NodesOf
<1>3. ASSUME NEW p \in kept
      PROVE  /\ t.pod[p].node = IF s.pod[p].node \in R THEN NoNode ELSE s.pod[p].node
             /\ \A f \in ConvertedFields \ {"node"} : t.pod[p][f] = s.pod[p][f]
    <2>1. "node" \in DOMAIN s.pod[p] /\ DOMAIN s.pod[p] = ConvertedFields
        BY DEF ConvertedFields
    <2>2. t.pod[p] = IF s.pod[p].node \in R THEN [s.pod[p] EXCEPT !.node = NoNode] ELSE s.pod[p]
        BY <1>1
    <2>3. QED BY <2>1, <2>2
<1>4. \A m \in NodesOf(t) : t.node[m] = s.node[m]
    BY <1>1, <1>2
<1>5. QED BY <1>1, <1>2, <1>3, <1>4 DEF t

(* Its sizes are those of the whole. *)
LEMMA WithoutSized ==
    ASSUME NEW s, Sized(s), NEW R, \A p \in PodsOf(s) : DOMAIN s.pod[p] = ConvertedFields
    PROVE  Sized(Without(s, R))
<1> DEFINE t == Without(s, R)
<1>1. /\ NodesOf(t) = NodesOf(s) \ R /\ \A m \in NodesOf(t) : t.node[m] = s.node[m]
      /\ PodsOf(t) \subseteq PodsOf(s)
      /\ \A p \in PodsOf(t) : \A f \in ConvertedFields \ {"node"} : t.pod[p][f] = s.pod[p][f]
    BY WithoutKeeps
<1>2. \A p \in PodsOf(t) : t.pod[p].cpu = s.pod[p].cpu
    BY <1>1 DEF ConvertedFields
<1> HIDE DEF t
<1>3. IsFiniteSet(NodesOf(t)) /\ IsFiniteSet(PodsOf(t))
    BY <1>1, FS_Subset DEF Sized
<1>4. QED BY <1>1, <1>2, <1>3 DEF Sized, t

(* Nothing blocks a pod there that was free here and has a node that its
   selectors accept. *)
LEMMA StaysFree ==
    ASSUME NEW s, NEW R, \A p \in PodsOf(s) : DOMAIN s.pod[p] = ConvertedFields,
           NEW p \in PodsOf(Without(s, R)), NEW m \in NodesOf(Without(s, R)),
           IsMovable(s.pod[p]), \A c \in ConstraintsOf(s, s.pod[p]) : ~c.blocking,
           FitsNodeSelector(s.pod[p], s.node[m]), FitsNodeAffinity(s.pod[p], s.node[m])
    PROVE  IsMovable(Without(s, R).pod[p])
           /\ \A c \in ConstraintsOf(Without(s, R), Without(s, R).pod[p]) : ~c.blocking
<1> DEFINE t == Without(s, R)
           pod == s.pod[p]
           new == t.pod[p]
<1>1. /\ \A n \in NodesOf(t) : t.node[n] = s.node[n]
      /\ t.budgets = s.budgets
      /\ \A f \in ConvertedFields \ {"node"} : new[f] = pod[f]
    BY WithoutKeeps
<1>2. /\ new.ns = pod.ns /\ new.labels = pod.labels /\ new.owner = pod.owner /\ new.phase = pod.phase
      /\ new.handsOff = pod.handsOff /\ new.nodeSelector = pod.nodeSelector /\ new.affinity = pod.affinity
    BY <1>1 DEF ConvertedFields
<1> HIDE DEF t, new, pod
<1>3. IsMovable(pod) /\ \A c \in ConstraintsOf(s, pod) : ~c.blocking
    BY DEF pod
<1>4. IsMovable(new)
    BY <1>2, <1>3, Zenon DEF IsMovable, Finished, PinnedToNode
<1>5. Covering(t, new) = Covering(s, pod)
    BY <1>1, <1>2 DEF Covering
<1>6. PdbConstraints(t, new) = PdbConstraints(s, pod)
    BY <1>5 DEF PdbConstraints
<1>7. PinningConstraints(new) = PinningConstraints(pod)
    BY <1>2 DEF PinningConstraints, PinnedToNode
<1>8. PdbConstraints(s, pod) \cup PinningConstraints(pod) \subseteq ConstraintsOf(s, pod)
    BY DEF ConstraintsOf
<1>9. FitsNodeSelector(new, t.node[m]) /\ FitsNodeAffinity(new, t.node[m])
    <2>1. FitsNodeSelector(pod, s.node[m]) /\ FitsNodeAffinity(pod, s.node[m]) /\ m \in NodesOf(t)
        BY DEF pod, t
    <2>2. QED BY <1>1, <1>2, <2>1 DEF FitsNodeSelector, FitsNodeAffinity
<1>10. \A k, h : ~Constraint(k, h, FALSE).blocking
    BY Zenon DEF Constraint
<1>11. m \in NodesOf(t)
    BY DEF t
<1>12. /\ (~\E n \in NodesOf(t) : FitsNodeSelector(new, t.node[n])) = FALSE
       /\ (~\E n \in NodesOf(t) : FitsNodeAffinity(new, t.node[n])) = FALSE
    BY <1>9, <1>11
<1>13. \A c \in NodeConstraints(t, new) :
          c = Constraint("NodeSelector", TRUE, FALSE) \/ c = Constraint("NodeAffinity", TRUE, FALSE)
    BY <1>12, Zenon DEF NodeConstraints, If
<1>14. \A c \in PodAffinityConstraints(new) :
          c = Constraint("PodAntiAffinity", TRUE, FALSE) \/ c = Constraint("PodAffinity", TRUE, FALSE)
    BY DEF PodAffinityConstraints
<1>15. \A c \in TopologySpreadConstraints(new) : \E h : c = Constraint("TopologySpread", h, FALSE)
    BY DEF TopologySpreadConstraints
<1>16. \A c \in TaintToleranceConstraint(t, new) : c = Constraint("Taint", FALSE, FALSE)
    BY Zenon DEF TaintToleranceConstraint, If
<1>17. ASSUME NEW c \in ConstraintsOf(t, new) PROVE ~c.blocking
    <2>1. \/ c \in PinningConstraints(new) \cup PdbConstraints(t, new)
          \/ c \in NodeConstraints(t, new) \/ c \in PodAffinityConstraints(new)
          \/ c \in TopologySpreadConstraints(new) \/ c \in TaintToleranceConstraint(t, new)
          \/ c = Constraint("Resources", TRUE, FALSE) \/ c = Constraint("PersistentVolume", FALSE, FALSE)
        BY Zenon DEF ConstraintsOf, If
    <2>2. CASE c \in PinningConstraints(new) \cup PdbConstraints(t, new)
        <3>1. c \in ConstraintsOf(s, pod)
            BY <1>6, <1>7, <1>8, <2>2
        <3>2. QED BY <1>3, <3>1
    <2>3. CASE c \notin PinningConstraints(new) \cup PdbConstraints(t, new)
        <3>1. \E k, h : c = Constraint(k, h, FALSE)
            BY <1>13, <1>14, <1>15, <1>16, <2>1, <2>3, Zenon
        <3>2. QED BY <1>10, <3>1, Zenon
    <2>4. QED BY <2>2, <2>3
<1>18. QED BY <1>4, <1>17 DEF t, new

(* Where a pod fits in the whole it fits in what is left, if the node is still
   there: what-if takes nothing from the other nodes. *)
LEMMA StillFits ==
    ASSUME NEW s, Sized(s), NEW R, \A p \in PodsOf(s) : DOMAIN s.pod[p] = ConvertedFields,
           NEW p \in PodsOf(Without(s, R)), NEW m \in NodesOf(Without(s, R)),
           s.pod[p].near = {}, HardSpread(s.pod[p]) = {},
           CanPlace(s, NewPlacementCeiling(s, 0), p, m)
    PROVE  CanPlace(Without(s, R), NewPlacementCeiling(Without(s, R), 0), p, m)
<1> DEFINE t == Without(s, R)
           w == NewPlacementCeiling(s, 0)
           v == NewPlacementCeiling(t, 0)
           pod == s.pod[p]
           new == t.pod[p]
           Home(u, q) == IF u.pod[q].node \in NodesOf(u) THEN u.pod[q].node ELSE NoNode
<1>1. /\ NodesOf(t) = NodesOf(s) \ R /\ (\A n \in NodesOf(t) : t.node[n] = s.node[n])
      /\ PodsOf(t) = {q \in PodsOf(s) : s.pod[q].node \notin R \/ IsMovable(s.pod[q])}
      /\ \A q \in PodsOf(t) : t.pod[q].node = IF s.pod[q].node \in R THEN NoNode ELSE s.pod[q].node
      /\ \A q \in PodsOf(t) : \A f \in ConvertedFields \ {"node"} : t.pod[q][f] = s.pod[q][f]
    BY WithoutKeeps
<1>2. \A q \in PodsOf(t) : t.pod[q].ns = s.pod[q].ns /\ t.pod[q].labels = s.pod[q].labels
                           /\ t.pod[q].cpu = s.pod[q].cpu
    BY <1>1 DEF ConvertedFields
<1>3. /\ new.nodeSelector = pod.nodeSelector /\ new.affinity = pod.affinity
      /\ new.tolerations = pod.tolerations /\ new.anti = pod.anti /\ new.near = pod.near
      /\ new.spread = pod.spread /\ new.cpu = pod.cpu
    BY <1>1 DEF ConvertedFields
<1>4. /\ p \in PodsOf(t) /\ m \in NodesOf(t) /\ m \in NodesOf(s) /\ m \notin R /\ t.node[m] = s.node[m]
      /\ NoNode \notin NodesOf(s)
    BY <1>1 DEF Sized
<1>5. w.at = [q \in PodsOf(s) |-> Home(s, q)] /\ v.at = [q \in PodsOf(t) |-> Home(t, q)]
    BY DEF NewPlacementCeiling
<1>6. Sized(t)
    BY WithoutSized
<1>7. /\ w.free[m] = Minus(CeilingOf(s, m, 0), SumNeed(s, {q \in PodsOf(s) : w.at[q] = m}))
      /\ v.free[m] = Minus(CeilingOf(t, m, 0), SumNeed(t, {q \in PodsOf(t) : v.at[q] = m}))
    BY <1>4, <1>6, FreshPlacement
<1>8. CanPlace(s, w, p, m) /\ pod.near = {} /\ HardSpread(pod) = {}
    OBVIOUS
<1> HIDE DEF t, w, v, pod, new
<1>9. \A q \in PodsOf(t) : v.at[q] # NoNode => q \in PodsOf(s) /\ v.at[q] = w.at[q] /\ v.at[q] \in NodesOf(t)
    BY <1>1, <1>4, <1>5
<1>10. v.free[m] = w.free[m]
    <2> DEFINE here == {q \in PodsOf(s) : w.at[q] = m}
    <2>1. \A q \in PodsOf(s) : w.at[q] = m => q \in PodsOf(t) /\ v.at[q] = m
        BY <1>1, <1>4, <1>5
    <2>2. {q \in PodsOf(t) : v.at[q] = m} = here
        BY <1>4, <1>9, <2>1
    <2>3. \A q \in here : t.pod[q].cpu = s.pod[q].cpu
        BY <1>2, <2>1
    <2> HIDE DEF here
    <2>4. SumNeed(t, here) = SumNeed(s, here)
        BY <2>3 DEF SumNeed
    <2>5. CeilingOf(t, m, 0) = CeilingOf(s, m, 0)
        BY <1>4 DEF CeilingOf, Allocatable
    <2>6. QED BY <1>7, <2>2, <2>4, <2>5 DEF here
<1>11. FitsResources(v, new, m)
    BY <1>3, <1>8, <1>10 DEF CanPlace, ReachesSpread, FitsResources, Need, pod
<1>12. FitsPodAntiAffinity(t, v, p, m)
    <2>1. ASSUME NEW term, SomeMatchIn(t, v, p, m, term)
          PROVE  SomeMatchIn(s, w, p, m, term)
        <3>1. PICK q \in DOMAIN v.at \ {p} :
                  v.at[q] \in SameDomain(t, m, term.key) /\ TermMatches(t, p, term, q)
            BY <2>1 DEF SomeMatchIn
        <3>2. SameDomain(t, m, term.key) \subseteq NodesOf(t)
              /\ SameDomain(t, m, term.key) \subseteq SameDomain(s, m, term.key)
            BY <1>1, <1>4 DEF SameDomain, InDomain
        <3>3. q \in PodsOf(t) /\ v.at[q] # NoNode
            BY <1>1, <1>4, <1>5, <3>1, <3>2
        <3>4. q \in DOMAIN w.at /\ w.at[q] = v.at[q]
            BY <1>5, <1>9, <3>3
        <3>5. TermMatches(s, p, term, q)
            BY <1>2, <1>4, <3>1, <3>3 DEF TermMatches
        <3>6. QED BY <3>1, <3>2, <3>4, <3>5 DEF SomeMatchIn
    <2>2. \A term \in pod.anti : ~SomeMatchIn(s, w, p, m, term)
        BY <1>8 DEF CanPlace, ReachesSpread, FitsPodAntiAffinity, pod
    <2>3. QED BY <1>3, <2>1, <2>2 DEF FitsPodAntiAffinity, new
<1>13. FitsPodAffinity(t, v, p, m) /\ FitsTopologySpread(t, v, p, m)
    BY <1>3, <1>8 DEF FitsPodAffinity, FitsTopologySpread, HardSpread, new
<1>14. /\ ~s.node[m].cordoned /\ s.node[m].ready /\ FitsTaints(pod, s.node[m])
       /\ FitsNodeSelector(pod, s.node[m]) /\ FitsNodeAffinity(pod, s.node[m])
    BY <1>8 DEF CanPlace, ReachesSpread, pod
<1>15. /\ ~t.node[m].cordoned /\ t.node[m].ready /\ FitsTaints(new, t.node[m])
       /\ FitsNodeSelector(new, t.node[m]) /\ FitsNodeAffinity(new, t.node[m])
    BY <1>3, <1>4, <1>14 DEF FitsTaints, FitsNodeSelector, FitsNodeAffinity
<1>16. CanPlace(t, v, p, m)
    BY <1>11, <1>12, <1>13, <1>15 DEF CanPlace, ReachesSpread, new
<1>17. QED BY <1>16 DEF t, v

(* A drainable node can be removed. *)
LEMMA DrainableFits ==
    ASSUME NEW c \in Clusters, NEW n \in NodesOf(CachedSnapshot(c)),
           LET s == CachedSnapshot(c)
               a == Analyze(s)
           IN  /\ NodeDrainable(a, n)
               /\ \A p \in OnNode(a, n) : s.pod[p].near = {} /\ HardSpread(s.pod[p]) = {}
    PROVE  Whatif(CachedSnapshot(c), {n}).fits
<1> DEFINE s == CachedSnapshot(c)
           a == Analyze(s)
           t == Without(s, {n})
           w == NewPlacementCeiling(s, 0)
           v == NewPlacementCeiling(t, 0)
<1>1. Sized(s) /\ (\A p \in PodsOf(s) : DOMAIN s.pod[p] = ConvertedFields)
    BY FirstPlacement, PodsConverted
<1>2. NodeDrainable(a, n) /\ \A p \in OnNode(a, n) : s.pod[p].near = {} /\ HardSpread(s.pod[p]) = {}
    OBVIOUS
<1> HIDE DEF s
<1>3. a = [p \in PodsOf(s) |-> AnalyzePod(s, w, p)]
    BY DEF Analyze
<1>4. /\ NodesOf(t) = NodesOf(s) \ {n}
      /\ PodsOf(t) = {p \in PodsOf(s) : s.pod[p].node \notin {n} \/ IsMovable(s.pod[p])}
      /\ \A p \in PodsOf(t) : t.pod[p].node = IF s.pod[p].node \in {n} THEN NoNode ELSE s.pod[p].node
    BY <1>1, WithoutKeeps
<1>5. ASSUME NEW p \in Displaced(s, {n}) PROVE Analyze(t)[p].candidates # {}
    <2>1. p \in PodsOf(s) /\ s.pod[p].node = n /\ IsMovable(s.pod[p]) /\ p \in PodsOf(t)
        BY <1>4 DEF Displaced
    <2>2. /\ AnalyzePod(s, w, p).node = s.pod[p].node /\ AnalyzePod(s, w, p).pinned = PinnedToNode(s.pod[p])
        BY Zenon DEF AnalyzePod
    <2>3. p \in OnNode(a, n) /\ a[p] = AnalyzePod(s, w, p)
        BY <1>3, <2>1, <2>2 DEF OnNode
    <2>4. ~PinnedToNode(s.pod[p])
        BY <2>1, Zenon DEF IsMovable
    <2>5. AnalyzePod(s, w, p).movable /\ AnalyzePod(s, w, p).candidates # {}
        BY <1>2, <2>2, <2>3, <2>4, Zenon DEF NodeDrainable
    <2>6. /\ AnalyzePod(s, w, p).candidates = CandidateNodes(s, w, p)
          /\ \A b \in ConstraintsOf(s, s.pod[p]) : ~b.blocking
        BY <2>5, MovableIsFree
    <2>7. PICK m \in NodesOf(s) \ {n} : CanPlace(s, w, p, m)
        BY <2>1, <2>5, <2>6 DEF CandidateNodes
    <2>8. m \in NodesOf(t) /\ FitsNodeSelector(s.pod[p], s.node[m]) /\ FitsNodeAffinity(s.pod[p], s.node[m])
        BY <1>4, <2>7 DEF CanPlace, ReachesSpread
    <2>9. IsMovable(t.pod[p]) /\ \A b \in ConstraintsOf(t, t.pod[p]) : ~b.blocking
        BY <1>1, <2>1, <2>6, <2>8, StaysFree
    <2>10. CanPlace(t, v, p, m)
        BY <1>1, <1>2, <2>1, <2>3, <2>7, <2>8, StillFits
    <2>11. t.pod[p].node = NoNode /\ m # NoNode
        BY <1>1, <1>4, <2>1, <2>7 DEF Sized
    <2>12. m \in CandidateNodes(t, v, p)
        BY <2>8, <2>10, <2>11 DEF CandidateNodes
    <2>13. Analyze(t)[p] = AnalyzePod(t, v, p)
        BY <2>1 DEF Analyze
    <2>14. AnalyzePod(t, v, p).candidates = CandidateNodes(t, v, p)
        BY <2>9, Zenon DEF AnalyzePod
    <2>15. QED BY <2>12, <2>13, <2>14
<1>6. Whatif(s, {n}).fits = ({p \in Displaced(s, {n}) : Analyze(t)[p].candidates = {}} = {})
    BY Zenon DEF Whatif
<1>7. {p \in Displaced(s, {n}) : Analyze(t)[p].candidates = {}} = {}
    BY <1>5
<1>8. QED BY <1>6, <1>7, Zenon DEF s

(* How far the reports agree, for any cluster: preflight's answer is the
   analysis's but for the nodes with a pinned pod, what the analysis calls
   drainable what-if can remove, and no pod the resilience report lists is on a
   drainable node (preflight.go, whatif.go, resilience.go). *)
THEOREM ReportsAlwaysAgree == Spec => []ReportsAgree
<1>1. Shape /\ Permitted => ReportsAgree
    <2> SUFFICES ASSUME Shape, Permitted, phase # "listed"
                 PROVE  /\ \A n \in NodesOf(snap) :
                              /\ Preflight(snap)[n].drainable
                                    <=> NodeDrainable(analysis, n)
                                        /\ (\A p \in OnNode(analysis, n) : ~analysis[p].pinned)
                              /\ NodeDrainable(analysis, n) /\ WhatifAccepted(snap, {n})
                                    /\ (\A p \in OnNode(analysis, n) :
                                           snap.pod[p].near = {} /\ HardSpread(snap.pod[p]) = {})
                                 => Whatif(snap, {n}).fits
                        /\ \A p \in Resilience(snap).pods : ~NodeDrainable(analysis, snap.pod[p].node)
        BY DEF ReportsAgree
    <2> DEFINE a == Analyze(snap)
               w == NewPlacementCeiling(snap, 0)
    <2>1. cluster \in Clusters /\ snap = CachedSnapshot(cluster) /\ analysis = a
        BY DEF Shape, Permitted
    <2>2. a = [p \in PodsOf(snap) |-> AnalyzePod(snap, w, p)]
        BY DEF Analyze
    <2>4. \A p : AnalyzePod(snap, w, p).node = snap.pod[p].node
        BY Zenon DEF AnalyzePod
    <2>5. ASSUME NEW p \in PodsOf(snap), ~a[p].movable PROVE Blockers(a[p]) # {}
        <3>1. ~Finished(snap.pod[p])
            BY <2>1, PodsConverted
        <3>2. QED BY <2>2, <2>5, <3>1, ImmovableIsBlocked
    <2>6. ASSUME NEW n \in NodesOf(snap)
          PROVE  Preflight(snap)[n].drainable
                    <=> NodeDrainable(a, n) /\ (\A p \in OnNode(a, n) : ~a[p].pinned)
        <3>1. Preflight(snap)[n].drainable = ~\E p \in OnNode(a, n) : PreflightBlocks(a[p])
            BY <2>6, Zenon DEF Preflight
        <3>2. \A p \in OnNode(a, n) : p \in PodsOf(snap)
            BY <2>2 DEF OnNode
        <3>3. ASSUME NEW p \in PodsOf(snap)
              PROVE  ~PreflightBlocks(a[p]) <=> a[p].movable /\ a[p].candidates # {}
            BY <2>5, Zenon DEF PreflightBlocks
        <3>4. ASSUME NEW p \in PodsOf(snap), a[p].movable PROVE ~a[p].pinned
            BY <2>2, <3>4, MovableNotPinned
        <3>5. QED BY <3>1, <3>2, <3>3, <3>4, Zenon DEF NodeDrainable
    <2>7. ASSUME NEW n \in NodesOf(snap), NodeDrainable(a, n),
                 \A p \in OnNode(a, n) : snap.pod[p].near = {} /\ HardSpread(snap.pod[p]) = {}
          PROVE  Whatif(snap, {n}).fits
        BY <2>1, <2>7, DrainableFits
    <2>8. Resilience(snap).pods = {p \in PodsOf(snap) : ~a[p].movable /\ ~a[p].pinned /\ Blockers(a[p]) # {}}
        BY DEF Resilience
    <2>9. ASSUME NEW p \in Resilience(snap).pods PROVE ~NodeDrainable(a, snap.pod[p].node)
        <3>1. p \in PodsOf(snap) /\ ~a[p].movable /\ ~a[p].pinned
            BY <2>8, <2>9, Zenon
        <3>2. p \in OnNode(a, snap.pod[p].node)
            BY <2>2, <2>4, <3>1 DEF OnNode
        <3>3. QED BY <3>1, <3>2, Zenon DEF NodeDrainable
    <2>10. QED BY <2>1, <2>6, <2>7, <2>9
<1>2. QED BY <1>1, BooksKept, AnalysisKept, PTL

-----------------------------------------------------------------------------
(* The plan, carried out.                                                   *)

(* The moves decided so far, of the steps and of the node in hand. *)
Decided == AllMoves \o moves

(* Where the placements hold a pod that is really at n. *)
Seen(s, n) == IF n \in NodesOf(s) THEN n ELSE NoNode
Follows(s, w, at) == \A p \in PodsOf(s) : w.at[p] = Seen(s, at[p])

(* The working placement is where the moves made take the pods, the trial where
   all the moves decided do; each pod is moved once from the node in hand. *)
Tracked ==
    /\ AllMoves \in Seq(Moves)
    /\ phase # "trial" => moves = <<>>
    /\ phase # "listed" => Follows(snap, work, AfterMoves(snap, Decided, Len(AllMoves) + made))
    /\ phase = "trial" =>
          /\ Follows(snap, trial, AfterMoves(snap, Decided, Len(Decided)))
          /\ \A i, j \in 1..Len(toMove) : toMove[i] = toMove[j] => i = j
          /\ \A i \in 1..Len(toMove) : trial.at[toMove[i]] = Source
          /\ \A i \in 1..Len(moves) : i > made => work.at[moves[i].pod] = Source
          /\ \A i, j \in 1..Len(moves) : moves[i].pod = moves[j].pod => i = j
          /\ \A i \in 1..Len(moves) : \A j \in 1..Len(toMove) : moves[i].pod # toMove[j]

(* What is left on a node is what its ceiling leaves of the pods on it. *)
InBalance(s, w, ceiling, n) ==
    w.free[n] = Minus(CeilingOf(s, n, ceiling), SumNeed(s, Occupants(w, n)))

Balanced ==
    /\ phase # "listed" => \A n \in NodesOf(snap) \ drained :
          made = 0 \/ n # Source => InBalance(snap, work, opts.ceiling, n)
    /\ phase = "trial" =>
          /\ DOMAIN trial.free = NodesOf(snap)
          /\ \A n \in NodesOf(snap) \ (drained \cup {Source}) : InBalance(snap, trial, opts.ceiling, n)

(* Every move decided can be carried out after the ones before it. *)
DecidedFeasible ==
    \A k \in 1..Len(Decided) :
        Feasible(snap, opts.ceiling, AfterMoves(snap, Decided, k - 1), Decided[k])

(* Steps for nodes that were empty in the snapshot. *)
Uncounted == {i \in 1..Len(steps) : steps[i].target \notin OccupiedInSnapshot(snap)}

(* A pod leaves its first node only when that node is given up, and a node that
   is given up is counted once, or its step is one too many. *)
Accounted ==
    /\ phase # "listed" => \A p \in PodsOf(snap) :
          \/ work.at[p] = Seen(snap, snap.pod[p].node)
          \/ snap.pod[p].node \in drained
          \/ made > 0 /\ snap.pod[p].node = Source
    /\ Cardinality(drained \cap OccupiedInSnapshot(snap)) + Cardinality(Uncounted)
          = alreadyReclaimable + Len(steps)
    /\ phase = "done" => plan.nodesAfter
          = Cardinality(OccupiedInSnapshot(snap)) - Len(steps) - alreadyReclaimable

(* One unfolding of FlattenSeq's recursion, up to the n-th list. *)
FlatOnce(q, g, n) == [i \in 1..n |-> IF i = 1 THEN q[i] ELSE g[i - 1] \o q[i]]

(* FlattenSeq is the last entry of one such table. *)
LEMMA FlattenUnfolds ==
    ASSUME NEW q
    PROVE  SX!FlattenSeq(q) = IF Len(q) = 0 THEN q ELSE (CHOOSE g : g = FlatOnce(q, g, Len(q)))[Len(q)]
    BY Zenon DEF SX!FlattenSeq, FlatOnce

(* There is one up to any list. *)
LEMMA FlatExists ==
    ASSUME NEW q
    PROVE  \A n \in Nat : \E g : g = FlatOnce(q, g, n)
<1> DEFINE Missing == {n \in Nat : ~\E g : g = FlatOnce(q, g, n)}
<1>1. SUFFICES ASSUME Missing # {} PROVE FALSE
    OBVIOUS
<1> DEFINE m == Min(Missing)
<1>2. m \in Missing /\ \A n \in Missing : m <= n
    BY <1>1, LeastNatural
<1>3. m # 0
    <2> DEFINE g == [i \in 1..0 |-> q]
    <2>1. g = FlatOnce(q, g, 0)
        BY DEF FlatOnce
    <2>2. QED BY <1>2, <2>1
<1> DEFINE n == m - 1
<1>4. n \in Nat /\ n \notin Missing /\ m = n + 1 /\ m \in Nat
    <2>1. m \in Nat
        BY <1>2
    <2> HIDE DEF m, Missing
    <2>2. QED BY <1>2, <1>3, <2>1
<1>5. PICK g : g = FlatOnce(q, g, n)
    BY <1>4
<1> HIDE DEF m, n
<1> DEFINE h == [i \in 1..m |-> IF i = 1 THEN q[i] ELSE g[i - 1] \o q[i]]
<1>6. ASSUME NEW i \in 1..n PROVE h[i] = g[i]
    <2>1. i \in 1..m
        BY <1>4
    <2>2. g[i] = IF i = 1 THEN q[i] ELSE g[i - 1] \o q[i]
        BY <1>5 DEF FlatOnce
    <2>3. QED BY <2>1, <2>2
<1>7. \A i \in 1..m : i # 1 => i - 1 \in 1..n
    BY <1>4
<1>8. h = FlatOnce(q, h, m)
    BY <1>6, <1>7 DEF FlatOnce
<1>9. QED BY <1>2, <1>8

(* Two sequences with the same first n elements. *)
SameUpTo(r, q, n) == \A i \in 1..n : r[i] = q[i]

(* There is one such unfolding, and a longer list of lists extends it. *)
LEMMA FlatAgrees ==
    ASSUME NEW q, NEW r, NEW n \in Nat, SameUpTo(r, q, n),
           NEW g, g = FlatOnce(q, g, n), NEW h, h = FlatOnce(r, h, n + 1)
    PROVE  SameUpTo(h, g, n)
<1> DEFINE Apart == {i \in 1..n : h[i] # g[i]}
<1>1. SUFFICES ASSUME Apart # {} PROVE FALSE
    BY DEF SameUpTo
<1>2. Apart \in SUBSET Nat
    OBVIOUS
<1> DEFINE i == Min(Apart)
<1>3. i \in Apart /\ \A j \in Apart : i <= j
    BY <1>1, <1>2, LeastNatural
<1>4. i \in 1..n /\ i \in 1..(n + 1) /\ h[i] # g[i]
    BY <1>3
<1>5. i # 1 => i - 1 \in 1..n /\ i - 1 \notin Apart
    <2> HIDE DEF i, Apart
    <2>1. QED BY <1>3, <1>4
<1> HIDE DEF i
<1>6. i # 1 => h[i - 1] = g[i - 1]
    BY <1>5
<1>7. h[i] = IF i = 1 THEN r[i] ELSE h[i - 1] \o r[i]
    BY <1>4 DEF FlatOnce
<1>8. g[i] = IF i = 1 THEN q[i] ELSE g[i - 1] \o q[i]
    BY <1>4 DEF FlatOnce
<1>9. QED BY <1>4, <1>6, <1>7, <1>8 DEF SameUpTo

(* Flattening a longer list of lists appends the last one. *)
LEMMA FlattenAppend ==
    ASSUME NEW S, NEW q \in Seq(Seq(S)), NEW x \in Seq(S)
    PROVE  SX!FlattenSeq(Append(q, x)) = SX!FlattenSeq(q) \o x
<1> DEFINE r == Append(q, x)
           n == Len(q)
<1>1. /\ n \in Nat /\ Len(r) = n + 1 /\ r[n + 1] = x /\ \A i \in 1..n : r[i] = q[i]
      /\ n = 0 => q = <<>>
      /\ n + 1 \in Nat /\ n <= n + 1
    OBVIOUS
<1>2. PICK g : g = FlatOnce(q, g, n)
    BY <1>1, FlatExists
<1>3. PICK h : h = FlatOnce(r, h, n + 1)
    BY <1>1, FlatExists
<1> HIDE DEF r, n
<1>4. \A f : f = FlatOnce(r, f, n + 1) => f[n + 1] = IF n = 0 THEN x ELSE f[n] \o x
    <2> TAKE f
    <2> HAVE f = FlatOnce(r, f, n + 1)
    <2>1. n + 1 \in 1..(n + 1) /\ (n + 1) - 1 = n /\ (n + 1 = 1 <=> n = 0)
        BY <1>1
    <2>2. f[n + 1] = IF n + 1 = 1 THEN r[n + 1] ELSE f[(n + 1) - 1] \o r[n + 1]
        BY <2>1 DEF FlatOnce
    <2>3. QED BY <1>1, <2>1, <2>2
<1> DEFINE f == CHOOSE y : y = FlatOnce(r, y, n + 1)
           e == CHOOSE y : y = FlatOnce(q, y, n)
<1>5. f = FlatOnce(r, f, n + 1)
    BY <1>3, Zenon
<1>6. e = FlatOnce(q, e, n)
    BY <1>2, Zenon
<1>7. SX!FlattenSeq(r) = f[n + 1]
    <2>1. SX!FlattenSeq(r) = IF Len(r) = 0 THEN r ELSE (CHOOSE y : y = FlatOnce(r, y, Len(r)))[Len(r)]
        BY FlattenUnfolds
    <2>2. Len(r) # 0
        BY <1>1
    <2>3. QED BY <1>1, <2>1, <2>2, Zenon
<1>8. SX!FlattenSeq(q) = IF n = 0 THEN q ELSE e[n]
    BY FlattenUnfolds DEF n
<1> HIDE DEF e, f
<1>9. \A i \in 1..n : f[i] = e[i]
    <2>1. n \in Nat /\ SameUpTo(r, q, n)
        BY <1>1 DEF SameUpTo
    <2>2. SameUpTo(f, e, n)
        BY <1>5, <1>6, <2>1, FlatAgrees
    <2>3. QED BY <2>2 DEF SameUpTo
<1>10. CASE n = 0
    <2>1. SX!FlattenSeq(r) = x /\ SX!FlattenSeq(q) = <<>>
        BY <1>1, <1>4, <1>5, <1>7, <1>8, <1>10
    <2>2. <<>> \o x = x
        OBVIOUS
    <2>3. QED BY <2>1, <2>2 DEF r
<1>11. CASE n # 0
    <2>1. n \in 1..n
        BY <1>1, <1>11
    <2>2. QED BY <1>4, <1>5, <1>7, <1>8, <1>9, <1>11, <2>1 DEF r
<1>12. QED BY <1>10, <1>11

(* No moves leave every pod where the snapshot has it. *)
LEMMA AfterNone ==
    ASSUME NEW s, NEW ms, NEW p \in PodsOf(s)
    PROVE  AfterMoves(s, ms, 0)[p] = s.pod[p].node
BY DEF AfterMoves

(* The k-th move takes its own pod and leaves the others where the moves before
   it do. *)
LEMMA AfterNext ==
    ASSUME NEW s, NEW ms, NEW k \in Nat, k # 0, NEW p \in PodsOf(s)
    PROVE  /\ ms[k].pod = p => AfterMoves(s, ms, k)[p] = ms[k].to
           /\ ms[k].pod # p => AfterMoves(s, ms, k)[p] = AfterMoves(s, ms, k - 1)[p]
<1> DEFINE Mine(l) == {i \in 1..l : ms[i].pod = p}
           At(l) == IF Mine(l) = {} THEN s.pod[p].node ELSE ms[Max(Mine(l))].to
<1>1. AfterMoves(s, ms, k)[p] = At(k) /\ AfterMoves(s, ms, k - 1)[p] = At(k - 1)
    BY DEF AfterMoves
<1>2. CASE ms[k].pod = p
    <2>1. k \in Mine(k) /\ Mine(k) \in SUBSET Nat /\ \A i \in Mine(k) : i <= k
        BY <1>2
    <2>2. Max(Mine(k)) = k
        <3> HIDE DEF Mine
        <3>1. Max(Mine(k)) \in Mine(k) /\ \A i \in Mine(k) : i <= Max(Mine(k))
            BY <2>1, GreatestNatural
        <3>2. QED BY <2>1, <3>1
    <2>3. At(k) = ms[k].to
        <3> HIDE DEF Mine
        <3>1. QED BY <2>1, <2>2
    <2>4. QED BY <1>1, <1>2, <2>3
<1>3. CASE ms[k].pod # p
    <2>1. Mine(k) = Mine(k - 1)
        BY <1>3
    <2>2. At(k) = At(k - 1)
        BY <2>1
    <2> HIDE DEF At, Mine
    <2>3. QED BY <1>1, <1>3, <2>2
<1>4. QED BY <1>2, <1>3

(* A pod ends where it was or where a move takes it. *)
LEMMA AfterSome ==
    ASSUME NEW s, NEW ms, NEW k \in Nat, NEW p \in PodsOf(s)
    PROVE  \/ AfterMoves(s, ms, k)[p] = s.pod[p].node
           \/ \E i \in 1..k : AfterMoves(s, ms, k)[p] = ms[i].to
<1> DEFINE M == {i \in 1..k : ms[i].pod = p}
<1>1. AfterMoves(s, ms, k)[p] = IF M = {} THEN s.pod[p].node ELSE ms[Max(M)].to
    BY DEF AfterMoves
<1>2. M \in SUBSET Nat /\ M \subseteq 1..k /\ \A i \in M : i <= k
    OBVIOUS
<1> HIDE DEF M
<1>3. M # {} => Max(M) \in M
    BY <1>2, GreatestNatural
<1>4. QED BY <1>1, <1>2, <1>3

(* Only the moves counted matter. *)
LEMMA AfterSame ==
    ASSUME NEW s, NEW ms, NEW ns, NEW k \in Nat, SameUpTo(ms, ns, k)
    PROVE  AfterMoves(s, ms, k) = AfterMoves(s, ns, k)
<1> DEFINE M(p) == {i \in 1..k : ms[i].pod = p}
           N(p) == {i \in 1..k : ns[i].pod = p}
           A(p) == IF M(p) = {} THEN s.pod[p].node ELSE ms[Max(M(p))].to
           B(p) == IF N(p) = {} THEN s.pod[p].node ELSE ns[Max(N(p))].to
<1>1. ASSUME NEW p \in PodsOf(s) PROVE A(p) = B(p)
    <2>1. M(p) = N(p)
        BY DEF SameUpTo
    <2>2. CASE M(p) = {}
        BY <2>1, <2>2
    <2>3. CASE M(p) # {}
        <3>1. M(p) \in SUBSET Nat /\ M(p) \subseteq 1..k /\ \A i \in M(p) : i <= k
            OBVIOUS
        <3>2. Max(M(p)) \in M(p)
            <4> HIDE DEF M
            <4>1. QED BY <2>3, <3>1, GreatestNatural
        <3>3. ms[Max(M(p))] = ns[Max(M(p))]
            <4> HIDE DEF M
            <4>1. QED BY <3>1, <3>2 DEF SameUpTo
        <3> HIDE DEF M, N
        <3>4. QED BY <2>1, <2>3, <3>3
    <2>4. QED BY <2>2, <2>3
<1>2. AfterMoves(s, ms, k) = [p \in PodsOf(s) |-> A(p)]
    BY DEF AfterMoves
<1>3. AfterMoves(s, ns, k) = [p \in PodsOf(s) |-> B(p)]
    BY DEF AfterMoves
<1> HIDE DEF A, B
<1>4. QED BY <1>1, <1>2, <1>3

(* The pods counted in a domain after p has gone to n: p itself is one of them,
   asked for or not. *)
LandedIn(s, after, p, tsc, d) ==
    {q \in PodsOf(s) : after[q] \in NodesOf(s) /\ InDomain(s, after[q], tsc.key, d)
                       /\ (q = p \/ Asked(s, q, SpreadKey(s.pod[p], tsc)))}

(* FitsTopologySpread: the skew it computes is the one after the move. *)
LEMMA SpreadHeld ==
    ASSUME NEW s, Sized(s), NEW w, Assigned(s, w), Exact(s, w),
           NEW at, DOMAIN at = PodsOf(s), Follows(s, w, at),
           NEW p \in PodsOf(s), at[p] \in NodesOf(s), NEW n \in NodesOf(s),
           FitsTopologySpread(s, w, p, n),
           NEW tsc \in HardSpread(s.pod[p]), tsc.maxSkew \in Nat,
           NEW d \in Domains(s, tsc.key)
    PROVE  LET after == [at EXCEPT ![p] = n]
           IN  Cardinality(LandedIn(s, after, p, tsc, s.node[n].labels[tsc.key]))
                 - Cardinality(LandedIn(s, after, p, tsc, d)) <= tsc.maxSkew
<1> DEFINE after == [at EXCEPT ![p] = n]
           k == SpreadKey(s.pod[p], tsc)
           D == Domains(s, tsc.key)
           here == s.node[n].labels[tsc.key]
           In(e) == CountedIn(s, w, k, e)
           Rest(e) == Cardinality(In(e) \ {p})
           counts == [DomainCounts(s, w, p, tsc) EXCEPT ![here] = @ + 1]
           Landed(e) == Cardinality(LandedIn(s, after, p, tsc, e))
<1>1. tsc.key \in DOMAIN s.node[n].labels /\ counts[here] - Min(Range(counts)) <= tsc.maxSkew
    BY DEF FitsTopologySpread
<1>2. here \in D /\ k.key = tsc.key
    BY <1>1 DEF Domains, SpreadKey
<1>3. \A e : IsFiniteSet(In(e)) /\ Cardinality(In(e)) \in Nat
    BY CountedFinite
<1>4. SpreadCounts(s, w, k) = [e \in D |-> Cardinality(In(e))]
    <2>1. SpreadCounts(s, w, k) = Recount(s, w, k)
        BY DEF SpreadCounts, Exact
    <2>2. QED BY <1>2, <2>1, RecountIs
<1>5. w.at[p] \in NodesOf(s) /\ w.at[p] # NoNode /\ w.at[p] = at[p] /\ DOMAIN w.at = PodsOf(s)
    BY DEF Follows, Seen, Sized, Assigned
<1>6. DomainCounts(s, w, p, tsc)
        = [e \in D |-> IF InDomain(s, w.at[p], tsc.key, e) /\ Asked(s, p, k)
                       THEN Cardinality(In(e)) - 1 ELSE Cardinality(In(e))]
    BY <1>4, <1>5 DEF DomainCounts
<1>7. ASSUME NEW e \in D
      PROVE  Rest(e) \in Nat /\ DomainCounts(s, w, p, tsc)[e] = Rest(e)
    <2>1. p \in In(e) <=> InDomain(s, w.at[p], tsc.key, e) /\ Asked(s, p, k)
        BY <1>2, <1>5 DEF CountedIn
    <2>2. p \in In(e) => Rest(e) = Cardinality(In(e)) - 1 /\ IsFiniteSet(In(e) \ {p})
        BY <1>3, FS_RemoveElement
    <2>3. p \notin In(e) => In(e) \ {p} = In(e)
        OBVIOUS
    <2>4. p \in In(e) => Rest(e) \in Nat
        BY <2>2, FS_CardinalityType
    <2> HIDE DEF In, D
    <2>5. QED BY <1>3, <1>6, <2>1, <2>2, <2>3, <2>4
<1>8. DomainCounts(s, w, p, tsc) = [e \in D |-> Rest(e)]
    <2>1. DOMAIN DomainCounts(s, w, p, tsc) = D
        BY <1>4 DEF DomainCounts
    <2>2. QED BY <1>6, <1>7, <2>1
<1>9. ASSUME NEW e \in D
      PROVE  Landed(e) = IF e = here THEN Rest(e) + 1 ELSE Rest(e)
    <2>1. InDomain(s, n, tsc.key, e) <=> e = here
        BY <1>1 DEF InDomain
    <2>2. \A q \in PodsOf(s) : after[q] = IF q = p THEN n ELSE at[q]
        OBVIOUS
    <2>3. \A q \in PodsOf(s) : q # p =>
             (q \in In(e) <=> at[q] \in NodesOf(s) /\ InDomain(s, at[q], tsc.key, e) /\ Asked(s, q, k))
        BY <1>2, <1>5 DEF CountedIn, Follows, Seen, Sized, Assigned
    <2>4. In(e) \subseteq PodsOf(s)
        BY <1>5 DEF CountedIn
    <2>5. CASE e = here
        <3>1. LandedIn(s, after, p, tsc, e) = (In(e) \ {p}) \cup {p}
            BY <2>1, <2>2, <2>3, <2>4, <2>5 DEF LandedIn
        <3>2. IsFiniteSet(In(e) \ {p})
            BY <1>3, FS_Subset
        <3>3. QED BY <2>5, <3>1, <3>2, FS_AddElement
    <2>6. CASE e # here
        <3>1. LandedIn(s, after, p, tsc, e) = In(e) \ {p}
            BY <2>1, <2>2, <2>3, <2>4, <2>6 DEF LandedIn
        <3>2. QED BY <2>6, <3>1
    <2>7. QED BY <2>5, <2>6
<1> HIDE DEF Landed, Rest, D, In
<1>10. counts = [e \in D |-> Landed(e)]
    BY <1>2, <1>8, <1>9
<1>11. \A e \in D : Landed(e) \in Nat
    BY <1>7, <1>9
<1>12. Min(Range(counts)) \in Nat /\ Min(Range(counts)) <= Landed(d)
    <2>1. Range(counts) \in SUBSET Nat /\ Landed(d) \in Range(counts)
        BY <1>10, <1>11 DEF Range, D
    <2> HIDE DEF counts
    <2>2. QED BY <2>1, LeastNatural
<1>13. counts[here] = Landed(here)
    BY <1>2, <1>10
<1>14. Landed(here) \in Nat /\ Landed(d) \in Nat
    BY <1>2, <1>11 DEF D
<1> HIDE DEF counts
<1>15. Landed(here) - Landed(d) <= tsc.maxSkew
    BY <1>1, <1>12, <1>13, <1>14
<1>16. QED BY <1>15 DEF Landed

(* What CanPlace accepts on an exact placement is feasible on the cluster the
   placement stands for. *)
LEMMA PlacedIsFeasible ==
    ASSUME NEW s, Sized(s), NEW w, Assigned(s, w), Exact(s, w), NEW ceiling \in Nat,
           NEW at, DOMAIN at = PodsOf(s), Follows(s, w, at),
           NEW m, m.pod \in PodsOf(s), m.to \in NodesOf(s),
           at[m.pod] = m.from, m.from \in NodesOf(s), m.from # m.to,
           \A tsc \in s.pod[m.pod].spread : tsc.maxSkew \in Nat,
           CanPlace(s, w, m.pod, m.to), InBalance(s, w, ceiling, m.to)
    PROVE  Feasible(s, ceiling, at, m)
<1> DEFINE p == m.pod
           n == m.to
           pod == s.pod[p]
           node == s.node[n]
           after == [at EXCEPT ![p] = n]
           there == {q \in PodsOf(s) : after[q] = n}
           others == {q \in PodsOf(s) \ {p} : at[q] \in NodesOf(s)}
           room == CeilingOf(s, n, ceiling)
           before == Occupants(w, n)
<1>1. /\ ReachesSpread(s, w, p, n) /\ FitsTopologySpread(s, w, p, n)
      /\ ~node.cordoned /\ node.ready
      /\ FitsTaints(pod, node) /\ FitsNodeSelector(pod, node) /\ FitsNodeAffinity(pod, node)
    BY DEF CanPlace, ReachesSpread
<1>2. /\ DOMAIN w.at = PodsOf(s) /\ \A q \in PodsOf(s) : w.at[q] = Seen(s, at[q])
      /\ NoNode \notin NodesOf(s)
    BY DEF Follows, Assigned, Sized
<1>3. there = before \cup {p} /\ p \notin before /\ before \subseteq PodsOf(s)
    <2>1. \A q \in PodsOf(s) : after[q] = IF q = p THEN n ELSE at[q]
        OBVIOUS
    <2>2. \A q \in PodsOf(s) : w.at[q] = n <=> at[q] = n
        BY <1>2 DEF Seen
    <2>3. QED BY <1>2, <2>1, <2>2 DEF Occupants
<1>4. /\ pod.cpu = 0 \/ SumNeed(s, there).cpu <= room.cpu
      /\ Cardinality(there) <= node.slots
    <2>1. /\ SumNeed(s, there).cpu = SumNeed(s, before).cpu + pod.cpu
          /\ SumNeed(s, there).slots = SumNeed(s, before).slots + 1
          /\ SumNeed(s, before).cpu \in Nat /\ SumNeed(s, before).slots = Cardinality(before)
          /\ Cardinality(before) \in Nat /\ pod.cpu \in Nat
        <3> HIDE DEF there, before
        <3>1. SumNeed(s, before).cpu \in Nat /\ SumNeed(s, before).slots = Cardinality(before)
              /\ Cardinality(before) \in Nat
            BY <1>3, NeedsTogether
        <3>2. SumNeed(s, there).cpu = SumNeed(s, before).cpu + pod.cpu
              /\ SumNeed(s, there).slots = SumNeed(s, before).slots + 1
            BY <1>3, NeedsOneMore
        <3>3. QED BY <3>1, <3>2 DEF Sized
    <2>2. SumNeed(s, there).slots = Cardinality(there)
        BY DEF SumNeed
    <2>3. room.cpu \in Nat /\ room.slots = node.slots /\ node.slots \in Nat
        BY CeilingNatural
    <2>4. /\ pod.cpu <= AtLeastZero(room.cpu - SumNeed(s, before).cpu)
          /\ 1 <= AtLeastZero(room.slots - SumNeed(s, before).slots)
        BY <1>1 DEF ReachesSpread, FitsResources, Fits, Need, InBalance, Minus
    <2> HIDE DEF there, before, room, pod, node
    <2>5. QED BY <2>1, <2>2, <2>3, <2>4 DEF AtLeastZero
<1>5. \A term : SameDomain(s, n, term.key) \subseteq NodesOf(s)
    BY DEF SameDomain
<1>6. \A term : SomeMatchIn(s, w, p, n, term)
                  <=> \E q \in others : TermMatches(s, p, term, q) /\ at[q] \in SameDomain(s, n, term.key)
    <2> TAKE term
    <2>1. \A q \in PodsOf(s) :
             w.at[q] \in SameDomain(s, n, term.key)
                <=> at[q] \in NodesOf(s) /\ at[q] \in SameDomain(s, n, term.key)
        BY <1>2, <1>5 DEF Seen
    <2>2. QED BY <1>2, <2>1 DEF SomeMatchIn
<1>7. /\ \A term \in pod.anti : \A q \in others :
            TermMatches(s, p, term, q) => at[q] \notin SameDomain(s, n, term.key)
      /\ \A term \in pod.near : \E q \in others :
            TermMatches(s, p, term, q) /\ at[q] \in SameDomain(s, n, term.key)
    <2>1. /\ \A term \in pod.anti : ~SomeMatchIn(s, w, p, n, term)
          /\ \A term \in pod.near : SomeMatchIn(s, w, p, n, term)
        BY <1>1 DEF ReachesSpread, FitsPodAntiAffinity, FitsPodAffinity
    <2> HIDE DEF others, pod
    <2>2. QED BY <1>6, <2>1
<1>8. ASSUME NEW tsc \in HardSpread(pod), NEW d \in Domains(s, tsc.key)
      PROVE  Cardinality(LandedIn(s, after, p, tsc, node.labels[tsc.key]))
               - Cardinality(LandedIn(s, after, p, tsc, d)) <= tsc.maxSkew
    <2>1. tsc.maxSkew \in Nat
        BY DEF HardSpread
    <2>2. QED BY <1>1, <2>1, SpreadHeld
<1>9. QED BY <1>1, <1>4, <1>7, <1>8 DEF Feasible, LandedIn

(* A pod more on a node leaves so much less of it; a pod that goes from another
   node changes nothing here. *)
LEMMA BalanceKept ==
    ASSUME NEW s, Sized(s), NEW ceiling \in Nat, NEW w, Assigned(s, w), DOMAIN w.free = NodesOf(s),
           NEW p \in PodsOf(s), w.at[p] \in NodesOf(s), NEW n \in NodesOf(s), n # w.at[p],
           NEW x \in NodesOf(s), x # w.at[p], InBalance(s, w, ceiling, x)
    PROVE  InBalance(s, Place(s, Remove(s, w, p), p, n), ceiling, x)
<1> DEFINE u == Remove(s, w, p)
           v == Place(s, u, p, n)
           room == CeilingOf(s, x, ceiling)
<1>1. DOMAIN w.at = PodsOf(s) /\ NoNode \notin NodesOf(s)
    BY DEF Assigned, Sized
<1>2. /\ DOMAIN v.at = PodsOf(s)
      /\ \A q \in PodsOf(s) : v.at[q] = IF q = p THEN n ELSE w.at[q]
    BY <1>1 DEF Place, Remove
<1>3. v.free[x] = IF x = n THEN Minus(w.free[x], Need(s.pod[p])) ELSE w.free[x]
    BY <1>1 DEF Place, Remove
<1>4. w.free[x] = Minus(room, SumNeed(s, Occupants(w, x)))
    BY DEF InBalance
<1>5. CASE x # n
    <2>1. Occupants(v, x) = Occupants(w, x)
        BY <1>1, <1>2, <1>5 DEF Occupants
    <2>2. QED BY <1>3, <1>4, <1>5, <2>1 DEF InBalance
<1>6. CASE x = n
    <2> DEFINE old == Occupants(w, x)
    <2>1. Occupants(v, x) = old \cup {p} /\ p \notin old /\ old \subseteq PodsOf(s)
        BY <1>1, <1>2, <1>6 DEF Occupants
    <2> HIDE DEF old
    <2>2. /\ SumNeed(s, old \cup {p}).cpu = SumNeed(s, old).cpu + s.pod[p].cpu
          /\ SumNeed(s, old \cup {p}).slots = SumNeed(s, old).slots + 1
          /\ SumNeed(s, old).cpu \in Nat /\ SumNeed(s, old).slots \in Nat /\ s.pod[p].cpu \in Nat
        BY <2>1, NeedsTogether, NeedsOneMore DEF Sized
    <2>3. room.cpu \in Nat /\ room.slots \in Nat
        BY CeilingNatural
    <2> HIDE DEF room, v
    <2>4. Minus(Minus(room, SumNeed(s, old)), Need(s.pod[p])) = Minus(room, SumNeed(s, old \cup {p}))
        BY <2>2, <2>3 DEF Minus, Need, AtLeastZero
    <2>5. QED BY <1>3, <1>4, <1>6, <2>1, <2>4 DEF InBalance, old, room, v
<1>7. QED BY <1>5, <1>6

(* The moves of the steps, as the steps come. *)
LEMMA AllMovesKept ==
    ASSUME Shape, AllMoves \in Seq(Moves), [Next]_vars
    PROVE  /\ steps' = steps => AllMoves' = AllMoves
           /\ Commit => AllMoves' = AllMoves \o moves
           /\ steps' = <<>> => AllMoves' = <<>>
<1> DEFINE q == [i \in DOMAIN steps |-> steps[i].moves]
           r == [i \in DOMAIN steps' |-> steps'[i].moves]
<1>1. AllMoves = SX!FlattenSeq(q) /\ AllMoves' = SX!FlattenSeq(r)
    BY DEF AllMoves
<1>2. steps \in Seq(Steps) /\ moves \in Seq(Moves)
    BY DEF Shape
<1>3. steps' = steps => AllMoves' = AllMoves
    BY <1>1
<1>4. ASSUME Commit PROVE AllMoves' = AllMoves \o moves
    <2>1. q \in Seq(Seq(Moves)) /\ Len(q) = Len(steps) /\ Len(steps) \in Nat
        <3>1. ASSUME NEW i \in DOMAIN steps PROVE steps[i].moves \in Seq(Moves)
            <4>1. steps[i] \in Steps
                BY <1>2
            <4>2. QED BY <4>1 DEF Steps
        <3>2. DOMAIN steps = 1..Len(steps) /\ Len(steps) \in Nat
            BY <1>2
        <3>3. QED BY <3>1, <3>2
    <2>2. r = Append(q, moves)
        <3> DEFINE step == [target |-> Source, moves |-> moves]
        <3>1. steps' = Append(steps, step)
            BY <1>4 DEF Commit
        <3>2. step.moves = moves
            OBVIOUS
        <3> HIDE DEF step
        <3>3. /\ DOMAIN steps' = 1..(Len(steps) + 1) /\ steps'[Len(steps) + 1] = step
              /\ \A i \in 1..Len(steps) : steps'[i] = steps[i]
            BY <1>2, <3>1
        <3>4. /\ DOMAIN Append(q, moves) = 1..(Len(steps) + 1)
              /\ Append(q, moves)[Len(steps) + 1] = moves
              /\ \A i \in 1..Len(steps) : Append(q, moves)[i] = steps[i].moves
            <4>1. \A i \in 1..Len(steps) : q[i] = steps[i].moves
                BY <1>2
            <4> HIDE DEF q
            <4>2. QED BY <2>1, <4>1
        <3>5. \A i \in 1..(Len(steps) + 1) : r[i] = Append(q, moves)[i]
            BY <2>1, <3>2, <3>3, <3>4
        <3>6. r = [i \in 1..(Len(steps) + 1) |-> r[i]]
            BY <3>3
        <3>7. Append(q, moves) = [i \in 1..(Len(steps) + 1) |-> Append(q, moves)[i]]
            <4>1. Append(q, moves) \in Seq(Seq(Moves))
                BY <1>2, <2>1
            <4> DEFINE z == Append(q, moves)
            <4>2. z \in Seq(Seq(Moves)) /\ DOMAIN z = 1..(Len(steps) + 1)
                BY <3>4, <4>1
            <4> HIDE DEF q, z
            <4>3. z = [i \in 1..(Len(steps) + 1) |-> z[i]]
                BY <4>2
            <4>4. QED BY <4>3 DEF z
        <3> HIDE DEF r, q
        <3>8. QED BY <3>5, <3>6, <3>7
    <2> HIDE DEF q, r
    <2>3. SX!FlattenSeq(r) = SX!FlattenSeq(q) \o moves
        BY <1>2, <2>1, <2>2, FlattenAppend
    <2>4. QED BY <1>1, <2>3
<1>5. ASSUME steps' = <<>> PROVE AllMoves' = <<>>
    <2>1. r = <<>>
        BY <1>5
    <2>2. SX!FlattenSeq(<<>>) = <<>>
        BY FlattenUnfolds
    <2>3. QED BY <1>1, <2>1, <2>2
<1>6. QED BY <1>3, <1>4, <1>5

(* The list of all the moves decided, as one. *)
LEMMA DecidedIs ==
    ASSUME NEW S, NEW a \in Seq(S), NEW b \in Seq(S)
    PROVE  /\ a \o b \in Seq(S) /\ Len(a) \in Nat /\ Len(b) \in Nat
           /\ Len(a \o b) = Len(a) + Len(b) /\ SameUpTo(a \o b, a, Len(a))
           /\ \A i \in 1..Len(b) : Len(a) + i \in 1..Len(a \o b) /\ (a \o b)[Len(a) + i] = b[i]
           /\ b = <<>> => a \o b = a
           /\ \A x \in S : a \o Append(b, x) = Append(a \o b, x)
<1>1. /\ a \o b \in Seq(S) /\ Len(a) \in Nat /\ Len(b) \in Nat /\ Len(a \o b) = Len(a) + Len(b)
      /\ \A i \in 1..Len(a) : (a \o b)[i] = a[i]
    OBVIOUS
<1>2. ASSUME NEW i \in 1..Len(b)
      PROVE  Len(a) + i \in 1..Len(a \o b) /\ (a \o b)[Len(a) + i] = b[i]
    BY <1>1
<1>3. b = <<>> => a \o b = a
    OBVIOUS
<1>4. ASSUME NEW x \in S PROVE a \o Append(b, x) = Append(a \o b, x)
    OBVIOUS
<1>5. QED BY <1>1, <1>2, <1>3, <1>4 DEF SameUpTo

(* One element more at the end. *)
LEMMA AppendIs ==
    ASSUME NEW S, NEW a \in Seq(S), NEW x \in S
    PROVE  /\ Append(a, x) \in Seq(S) /\ Len(a) \in Nat
           /\ Len(Append(a, x)) = Len(a) + 1 /\ Append(a, x)[Len(a) + 1] = x
           /\ SameUpTo(Append(a, x), a, Len(a))
           /\ \A i \in 1..(Len(a) + 1) : i \in 1..Len(a) \/ i = Len(a) + 1
<1>1. /\ Append(a, x) \in Seq(S) /\ Len(a) \in Nat
      /\ Len(Append(a, x)) = Len(a) + 1 /\ Append(a, x)[Len(a) + 1] = x
      /\ \A i \in 1..Len(a) : Append(a, x)[i] = a[i]
    OBVIOUS
<1>2. QED BY <1>1 DEF SameUpTo

(* The placements stay where the moves take the pods. *)
LEMMA TrackedStep ==
    ASSUME Shape, TrialExact, Emptying, Permitted, FirstMove, Tracked, [Next]_vars
    PROVE  Tracked'
<1> DEFINE A == AllMoves
           At(k) == AfterMoves(snap, Decided, k)
           Goal == /\ AllMoves' \in Seq(Moves)
                   /\ phase' # "trial" => moves' = <<>>
                   /\ phase' # "listed" =>
                         Follows(snap, work', AfterMoves(snap, Decided', Len(AllMoves') + made'))
                   /\ phase' = "trial" =>
                         /\ Follows(snap, trial', AfterMoves(snap, Decided', Len(Decided')))
                         /\ \A i, j \in 1..Len(toMove') : toMove'[i] = toMove'[j] => i = j
                         /\ \A i \in 1..Len(toMove') : trial'.at[toMove'[i]] = Source'
                         /\ \A i \in 1..Len(moves') : i > made' => work'.at[moves'[i].pod] = Source'
                         /\ \A i, j \in 1..Len(moves') : moves'[i].pod = moves'[j].pod => i = j
                         /\ \A i \in 1..Len(moves') : \A j \in 1..Len(toMove') :
                               moves'[i].pod # toMove'[j]
<1>1. UNCHANGED <<cluster, opts, snap>> /\ NodesOf(snap)' = NodesOf(snap) /\ PodsOf(snap)' = PodsOf(snap)
      /\ Moves' = Moves
    BY InputsKept DEF NodesOf, PodsOf, Moves
<1>2. SUFFICES Goal
    BY <1>1 DEF Tracked
<1>3. /\ queue \in Seq(NodesOf(snap)) /\ toMove \in Seq(PodsOf(snap)) /\ moves \in Seq(Moves)
      /\ made \in Nat /\ made <= Len(moves) /\ (phase # "trial" \/ toMove # <<>> => made = 0)
      /\ phase = "trial" => queue # <<>>
    BY DEF Shape
<1>4. /\ A \in Seq(Moves)
      /\ phase # "trial" => moves = <<>>
      /\ phase # "listed" => Follows(snap, work, At(Len(A) + made))
      /\ phase = "trial" =>
            /\ Follows(snap, trial, At(Len(Decided)))
            /\ \A i, j \in 1..Len(toMove) : toMove[i] = toMove[j] => i = j
            /\ \A i \in 1..Len(toMove) : trial.at[toMove[i]] = Source
            /\ \A i \in 1..Len(moves) : i > made => work.at[moves[i].pod] = Source
            /\ \A i, j \in 1..Len(moves) : moves[i].pod = moves[j].pod => i = j
            /\ \A i \in 1..Len(moves) : \A j \in 1..Len(toMove) : moves[i].pod # toMove[j]
    BY DEF Tracked
<1>5. /\ Decided = A \o moves /\ Decided' = AllMoves' \o moves'
      /\ Decided \in Seq(Moves) /\ Len(A) \in Nat /\ Len(moves) \in Nat
      /\ Len(Decided) = Len(A) + Len(moves) /\ SameUpTo(Decided, A, Len(A))
      /\ \A i \in 1..Len(moves) : Decided[Len(A) + i] = moves[i]
      /\ moves = <<>> => Decided = A
    <2>1. Decided = A \o moves /\ Decided' = AllMoves' \o moves'
        BY DEF Decided
    <2>2. QED BY <1>3, <1>4, <2>1, DecidedIs
<1>6. /\ steps' = steps => AllMoves' = A
      /\ Commit => AllMoves' = A \o moves
      /\ steps' = <<>> => AllMoves' = <<>>
    BY <1>4, AllMovesKept
<1>7. AllMoves' = A /\ moves' = moves => Decided' = Decided
    BY <1>5
<1>8. Len(<<>>) = 0 /\ <<>> \in Seq(Moves)
    OBVIOUS
<1> HIDE DEF A, Decided
<1>9. CASE Start
    <2>1. /\ phase = "listed" /\ phase' = "packing" /\ UNCHANGED <<moves, made, steps>>
          /\ work' = NewPlacementCeiling(snap, opts.ceiling)
        BY <1>9 DEF Start
    <2>2. steps' = <<>> /\ moves = <<>> /\ made = 0
        BY <1>3, <1>4, <2>1 DEF Permitted
    <2>3. AllMoves' = A /\ A = <<>> /\ Decided' = Decided /\ Len(AllMoves') + made' = 0
        BY <1>6, <1>7, <1>8, <2>1, <2>2
    <2>4. ASSUME NEW p \in PodsOf(snap) PROVE work'.at[p] = Seen(snap, AfterMoves(snap, Decided', 0)[p])
        <3>1. AfterMoves(snap, Decided', 0)[p] = snap.pod[p].node
            BY AfterNone
        <3>2. QED BY <2>1, <3>1 DEF NewPlacementCeiling, Seen
    <2>5. QED BY <1>4, <2>1, <2>2, <2>3, <2>4 DEF Follows
<1>10. CASE SkipEmpty \/ RefuseNode \/ Finish
    <2>1. phase = "packing" /\ phase' \in {"packing", "done"} /\ UNCHANGED <<work, moves, made, steps>>
        BY <1>10 DEF SkipEmpty, RefuseNode, Finish
    <2>2. QED BY <1>4, <1>6, <1>7, <2>1
<1>11. CASE BeginTrial
    <2>1. /\ phase = "packing" /\ phase' = "trial" /\ UNCHANGED <<work, made, steps, queue>>
          /\ moves' = <<>> /\ trial' = work
        BY <1>11 DEF BeginTrial
    <2>2. moves' = moves /\ AllMoves' = A /\ Decided' = Decided /\ made = 0 /\ Source' = Source
        BY <1>3, <1>4, <1>6, <1>7, <2>1 DEF Source
    <2>3. Len(Decided) = Len(A) + made /\ Len(moves') = 0
        BY <1>5, <2>1, <2>2
    <2>4. toMove' \in SX!SetToSeqs(MovableOn(Source))
        BY <1>11 DEF BeginTrial, StableSorts
    <2>5. IsFiniteSet(MovableOn(Source))
        <3>1. MovableOn(Source) \subseteq PodsOf(snap)
            BY <2>1 DEF MovableOn, Occupants, Shape, Assigned
        <3>2. QED BY <3>1, SnapshotSized, FS_Subset DEF Sized
    <2>6. /\ toMove' \in Seq(MovableOn(Source))
          /\ \A i, j \in 1..Len(toMove') : toMove'[i] = toMove'[j] => i = j
        BY <2>4, <2>5, ListsAll
    <2>7. \A i \in 1..Len(toMove') : work.at[toMove'[i]] = Source
        BY <2>6 DEF MovableOn, Occupants
    <2>8. QED BY <1>4, <2>1, <2>2, <2>3, <2>6, <2>7
<1>12. CASE Relocate
    <2> DEFINE p == Head(toMove)
    <2>1. PICK n \in Scanned :
              /\ moves' = Append(moves, [pod |-> p, from |-> Source, to |-> n])
              /\ trial'.at[p] = n
              /\ \A q \in PodsOf(snap) : q # p => trial'.at[q] = trial.at[q]
        BY <1>12, RelocateMoves
    <2> DEFINE m == [pod |-> p, from |-> Source, to |-> n]
    <2>2. /\ phase = "trial" /\ phase' = "trial" /\ UNCHANGED <<work, queue, made, steps>>
          /\ toMove # <<>> /\ toMove' = Tail(toMove) /\ made = 0
        BY <1>3, <1>12 DEF Relocate
    <2>3. Source' = Source /\ AllMoves' = A
        BY <1>6, <2>2 DEF Source
    <2>4. /\ p \in PodsOf(snap) /\ p = toMove[1] /\ 1 \in 1..Len(toMove)
          /\ \A i \in 1..Len(toMove') : i + 1 \in 1..Len(toMove) /\ toMove'[i] = toMove[i + 1]
        BY <1>3, <2>2, TailOf
    <2>5. m \in Moves /\ m.pod = p /\ m.to = n /\ n \in NodesOf(snap)
        <3>1. Source \in NodesOf(snap) /\ n \in NodesOf(snap)
            BY <1>3, <2>2, TailOf DEF Source, Scanned
        <3>2. QED BY <2>4, <3>1 DEF Moves
    <2>6. moves' = Append(moves, m)
        BY <2>1
    <2> HIDE DEF m
    <2>7. /\ Decided' = Append(Decided, m) /\ Len(Decided') = Len(Decided) + 1 /\ Len(Decided) \in Nat
          /\ Decided'[Len(Decided) + 1] = m /\ SameUpTo(Decided', Decided, Len(Decided))
        <3>1. Decided' = Append(Decided, m)
            BY <1>3, <1>4, <1>5, <2>3, <2>5, <2>6, DecidedIs, SMTT(30)
        <3>2. /\ Len(Append(Decided, m)) = Len(Decided) + 1 /\ Len(Decided) \in Nat
              /\ Append(Decided, m)[Len(Decided) + 1] = m
              /\ SameUpTo(Append(Decided, m), Decided, Len(Decided))
            BY <1>5, <2>5, AppendIs, ZenonT(40)
        <3>3. QED BY <3>1, <3>2
    <2>8. /\ Len(moves') = Len(moves) + 1 /\ moves'[Len(moves) + 1] = m
          /\ \A i \in 1..Len(moves) : moves'[i] = moves[i]
          /\ \A i \in 1..Len(moves') : i \in 1..Len(moves) \/ i = Len(moves) + 1
        BY <1>3, <2>5, <2>6, AppendIs DEF SameUpTo
    <2>9. Follows(snap, work, AfterMoves(snap, Decided', Len(A) + made))
        <3>1. SameUpTo(Decided', Decided, Len(A) + made)
            BY <1>5, <2>2, <2>7 DEF SameUpTo
        <3>2. AfterMoves(snap, Decided', Len(A) + made) = At(Len(A) + made)
            BY <1>5, <2>2, <3>1, AfterSame
        <3>3. QED BY <1>4, <2>2, <3>2
    <2>10. Follows(snap, trial', AfterMoves(snap, Decided', Len(Decided')))
        <3>1. AfterMoves(snap, Decided', Len(Decided)) = At(Len(Decided))
            BY <2>7, AfterSame
        <3>2. ASSUME NEW q \in PodsOf(snap)
              PROVE  trial'.at[q] = Seen(snap, AfterMoves(snap, Decided', Len(Decided) + 1)[q])
            <4> DEFINE k == Len(Decided) + 1
            <4>1. k \in Nat /\ k # 0 /\ k - 1 = Len(Decided) /\ Decided'[k] = m
                BY <2>7
            <4> HIDE DEF k
            <4>3. (q = p => AfterMoves(snap, Decided', k)[q] = n)
                  /\ (q # p => AfterMoves(snap, Decided', k)[q] = At(Len(Decided))[q])
                BY <2>5, <3>1, <4>1, AfterNext
            <4>2. trial.at[q] = Seen(snap, At(Len(Decided))[q])
                BY <1>4, <2>2 DEF Follows
            <4>4. QED BY <2>1, <2>5, <4>2, <4>3 DEF Seen, k
        <3>3. QED BY <2>7, <3>2 DEF Follows
    <2>11. \A i, j \in 1..Len(toMove') : toMove'[i] = toMove'[j] => i = j
        <3>1. SUFFICES ASSUME NEW i \in 1..Len(toMove'), NEW j \in 1..Len(toMove'), toMove'[i] = toMove'[j]
                       PROVE  i = j
            OBVIOUS
        <3>2. i + 1 = j + 1
            BY <1>4, <2>2, <2>4, <3>1
        <3>3. QED BY <3>2
    <2>12. ASSUME NEW i \in 1..Len(toMove') PROVE toMove'[i] # p /\ trial'.at[toMove'[i]] = Source
        <3>1. i + 1 \in 1..Len(toMove) /\ toMove'[i] = toMove[i + 1]
            BY <2>4
        <3>2. toMove[i + 1] \in PodsOf(snap) /\ trial.at[toMove[i + 1]] = Source
            BY <1>3, <1>4, <2>2, <3>1
        <3>3. i + 1 # 1
            OBVIOUS
        <3>4. toMove[i + 1] # p
            BY <1>4, <2>2, <2>4, <3>1, <3>3
        <3>5. QED BY <2>1, <3>1, <3>2, <3>4
    <2>13. ASSUME NEW i \in 1..Len(moves')
           PROVE  /\ work.at[moves'[i].pod] = Source
                  /\ \A j \in 1..Len(toMove') : moves'[i].pod # toMove'[j]
        <3>1. CASE i = Len(moves) + 1
            <4>1. moves'[i].pod = p
                BY <2>5, <2>8, <3>1
            <4>2. work.at[p] = Source
                BY <2>2, <2>4 DEF FirstMove
            <4>3. QED BY <2>12, <4>1, <4>2
        <3>2. CASE i \in 1..Len(moves)
            <4>1. moves'[i] = moves[i] /\ i > made
                BY <2>2, <2>8, <3>2
            <4>2. QED BY <1>4, <2>2, <2>4, <3>2, <4>1
        <3>3. i \in 1..Len(moves) \/ i = Len(moves) + 1
            BY <2>8
        <3>4. QED BY <3>1, <3>2, <3>3
    <2>14. ASSUME NEW i \in 1..Len(moves'), NEW j \in 1..Len(moves'), moves'[i].pod = moves'[j].pod
           PROVE  i = j
        <3>1. \A x \in 1..Len(moves) : moves'[x].pod # p
            BY <1>4, <2>2, <2>4, <2>8
        <3>2. moves'[Len(moves) + 1].pod = p
            BY <2>5, <2>8
        <3>3. \A x \in 1..Len(moves') : x \in 1..Len(moves) \/ x = Len(moves) + 1
            BY <2>8
        <3>4. CASE i \in 1..Len(moves) /\ j \in 1..Len(moves)
            BY <1>4, <2>2, <2>8, <2>14, <3>4
        <3>5. QED BY <2>14, <3>1, <3>2, <3>3, <3>4
    <2>15. QED BY <1>4, <2>2, <2>3, <2>9, <2>10, <2>11, <2>12, <2>13, <2>14
<1>13. CASE Abandon
    <2>1. /\ phase = "trial" /\ phase' = "packing" /\ UNCHANGED <<work, made, steps>> /\ moves' = <<>>
          /\ made = 0
        BY <1>3, <1>13 DEF Abandon
    <2>2. AllMoves' = A /\ Decided' = A
        BY <1>4, <1>5, <1>6, <1>8, <2>1, DecidedIs
    <2>3. AfterMoves(snap, Decided, Len(A)) = AfterMoves(snap, A, Len(A))
        BY <1>5, AfterSame
    <2>4. Len(A) + made = Len(A)
        BY <1>5, <2>1
    <2>5. QED BY <1>4, <2>1, <2>2, <2>3, <2>4
<1>14. CASE CommitMove
    <2> DEFINE m == moves[made + 1]
    <2>1. /\ made + 1 \in 1..Len(moves) /\ m \in Moves
          /\ \A q \in PodsOf(snap) : q # m.pod => work'.at[q] = work.at[q]
          /\ work'.at[m.pod] = IF work.at[m.pod] = m.from THEN m.to ELSE work.at[m.pod]
        BY <1>14, CommitMoves
    <2>2. /\ phase = "trial" /\ phase' = "trial" /\ made' = made + 1 /\ toMove = <<>>
          /\ UNCHANGED <<trial, queue, toMove, moves, steps>>
        BY <1>14 DEF CommitMove
    <2>3. Source' = Source /\ AllMoves' = A /\ Decided' = Decided
        BY <1>6, <1>7, <2>2 DEF Source
    <2>4. m.pod \in PodsOf(snap) /\ m.to \in NodesOf(snap)
        BY <2>1 DEF Moves
    <2>5. work'.at[m.pod] = m.to
        <3>1. m.from = Source
            BY <2>1, <2>2 DEF Emptying
        <3>2. made + 1 > made
            BY <1>3
        <3>3. \A i \in 1..Len(moves) : i > made => work.at[moves[i].pod] = Source
            BY <1>4, <2>2
        <3>4. work.at[m.pod] = Source
            BY <2>1, <3>2, <3>3
        <3>5. QED BY <2>1, <3>1, <3>4
    <2>6. ASSUME NEW q \in PodsOf(snap)
          PROVE  work'.at[q] = Seen(snap, At(Len(A) + made + 1)[q])
        <3>1. Decided[Len(A) + made + 1] = m
            <4>1. Decided[Len(A) + (made + 1)] = moves[made + 1]
                BY <1>5, <2>1
            <4>2. Len(A) + (made + 1) = Len(A) + made + 1
                BY <1>3, <1>5
            <4>3. QED BY <4>1, <4>2
        <3>2. /\ q = m.pod => At(Len(A) + made + 1)[q] = m.to
              /\ q # m.pod => At(Len(A) + made + 1)[q] = At(Len(A) + made)[q]
            <4> DEFINE k == Len(A) + made + 1
            <4>1. k \in Nat /\ k # 0 /\ k - 1 = Len(A) + made /\ Decided[k] = m
                BY <1>3, <1>5, <3>1
            <4> HIDE DEF k, m
            <4>2. (q = m.pod => At(k)[q] = m.to) /\ (q # m.pod => At(k)[q] = At(k - 1)[q])
                BY <4>1, AfterNext
            <4>3. QED BY <4>1, <4>2 DEF k
        <3>3. work.at[q] = Seen(snap, At(Len(A) + made)[q])
            BY <1>4, <2>2 DEF Follows
        <3> HIDE DEF m
        <3>4. QED BY <2>1, <2>4, <2>5, <3>2, <3>3 DEF Seen
    <2>7. Follows(snap, work', AfterMoves(snap, Decided', Len(AllMoves') + made'))
        <3>1. Len(AllMoves') + made' = Len(A) + made + 1
            BY <1>3, <1>5, <2>2, <2>3
        <3>2. QED BY <2>3, <2>6, <3>1 DEF Follows
    <2>8. ASSUME NEW i \in 1..Len(moves), i > made + 1 PROVE work'.at[moves[i].pod] = Source
        <3>1. i # made + 1 /\ i > made
            BY <1>3, <2>8
        <3>2. moves[i].pod # m.pod
            BY <1>4, <2>1, <2>2, <3>1
        <3>3. moves[i].pod \in PodsOf(snap)
            <4>1. moves[i] \in Moves
                BY <1>3
            <4>2. QED BY <4>1 DEF Moves
        <3>4. QED BY <1>4, <2>1, <2>2, <3>1, <3>2, <3>3
    <2>9. QED BY <1>4, <2>2, <2>3, <2>7, <2>8
<1>15. CASE Commit
    <2>1. /\ phase = "trial" /\ phase' = "packing" /\ UNCHANGED work /\ moves' = <<>> /\ made' = 0
          /\ made = Len(moves)
        BY <1>15 DEF Commit
    <2>2. AllMoves' = Decided /\ AllMoves' \in Seq(Moves)
        BY <1>5, <1>6, <1>15
    <2>3. Decided' = AllMoves'
        BY <1>5, <1>8, <2>1, <2>2, DecidedIs
    <2>4. Len(AllMoves') + made' = Len(A) + made
        BY <1>3, <1>5, <2>1, <2>2
    <2>5. QED BY <1>4, <2>1, <2>2, <2>3, <2>4
<1>16. CASE Relist
    <2>1. phase = "done" /\ phase' = "listed" /\ UNCHANGED moves /\ steps' = <<>>
        BY <1>16 DEF Relist
    <2>2. QED BY <1>4, <1>6, <1>8, <2>1
<1>17. CASE UNCHANGED vars
    <2>1. UNCHANGED <<phase, steps, moves, made, work, trial, toMove, queue>> /\ Source' = Source
        BY <1>17 DEF vars, Source
    <2>2. AllMoves' = A /\ Decided' = Decided
        BY <1>6, <1>7, <2>1
    <2>3. QED BY <1>4, <2>1, <2>2
<1>18. QED
    BY <1>9, <1>10, <1>11, <1>12, <1>13, <1>14, <1>15, <1>16, <1>17 DEF Next

(* What is left on the nodes follows the moves. *)
LEMMA BalancedStep ==
    ASSUME Shape, TrialExact, Emptying, Tracked, Balanced, [Next]_vars
    PROVE  Balanced'
<1> DEFINE N == NodesOf(snap)
           Fair(w, n) == InBalance(snap, w, opts.ceiling, n)
<1>1. UNCHANGED <<cluster, opts, snap>> /\ NodesOf(snap)' = N /\ Sized(snap) /\ opts.ceiling \in Nat
    BY InputsKept, SnapshotSized DEF NodesOf
<1>2. SUFFICES
      /\ phase' # "listed" => \A n \in N \ drained' : made' = 0 \/ n # Source' => Fair(work', n)
      /\ phase' = "trial" =>
            /\ DOMAIN trial'.free = N
            /\ \A n \in N \ (drained' \cup {Source'}) : Fair(trial', n)
    BY <1>1 DEF Balanced
<1>3. /\ phase # "listed" => \A n \in N \ drained : made = 0 \/ n # Source => Fair(work, n)
      /\ phase = "trial" =>
            /\ DOMAIN trial.free = N
            /\ \A n \in N \ (drained \cup {Source}) : Fair(trial, n)
    BY DEF Balanced
<1>4. /\ queue \in Seq(N) /\ toMove \in Seq(PodsOf(snap)) /\ moves \in Seq(Moves)
      /\ made \in Nat /\ (phase # "trial" \/ toMove # <<>> => made = 0)
      /\ phase \in {"listed", "packing", "trial", "done"}
      /\ phase = "trial" => queue # <<>> /\ Assigned(snap, trial)
      /\ phase # "listed" => Assigned(snap, work) /\ Solvent(snap, work)
    BY DEF Shape
<1> HIDE DEF N, Fair
<1>5. CASE Start
    <2>1. /\ phase' = "packing" /\ work' = NewPlacementCeiling(snap, opts.ceiling)
          /\ DOMAIN work'.at = PodsOf(snap)
        BY <1>5 DEF Start, NewPlacementCeiling
    <2>2. \A n \in N : work'.free[n]
             = Minus(CeilingOf(snap, n, opts.ceiling), SumNeed(snap, {p \in PodsOf(snap) : work'.at[p] = n}))
        BY <1>1, <2>1, FreshPlacement DEF N
    <2>3. \A n \in N : Fair(work', n)
        BY <2>1, <2>2 DEF Fair, InBalance, Occupants
    <2>4. QED BY <2>1, <2>3
<1>6. CASE SkipEmpty \/ RefuseNode \/ Finish \/ Abandon
    <2>1. phase' \in {"packing", "done"} /\ phase # "listed" /\ UNCHANGED <<work, made>> /\ made = 0
          /\ drained \subseteq drained'
        BY <1>4, <1>6 DEF SkipEmpty, RefuseNode, Finish, Abandon
    <2>2. QED BY <1>3, <2>1
<1>7. CASE BeginTrial
    <2>1. phase = "packing" /\ UNCHANGED <<work, made, drained>> /\ trial' = work /\ made = 0
        BY <1>4, <1>7 DEF BeginTrial
    <2>2. DOMAIN work.free = N
        BY <1>4, <2>1 DEF Solvent, N
    <2>3. QED BY <1>3, <2>1, <2>2
<1>8. CASE Relocate
    <2> DEFINE p == Head(toMove)
               scanned == Memoise(snap, trial, Questions(snap, trial, p, Scanned))
    <2>1. PICK n \in FirstFit(trial, p) : trial' = Place(snap, Remove(snap, scanned, p), p, n)
        BY <1>8 DEF Relocate
    <2>2. /\ phase = "trial" /\ toMove # <<>> /\ UNCHANGED <<phase, work, queue, made, drained>>
        BY <1>8 DEF Relocate
    <2>3. Source' = Source
        BY <2>2 DEF Source
    <2>4. p \in PodsOf(snap) /\ trial.at[p] = Source /\ Source \in N
        <3>1. p \in PodsOf(snap) /\ p = toMove[1] /\ 1 \in 1..Len(toMove)
            BY <1>4, <2>2, TailOf
        <3>2. trial.at[p] = Source
            BY <2>2, <3>1 DEF Tracked
        <3>3. QED BY <1>4, <2>2, <3>1, <3>2, TailOf DEF Source
    <2>5. n \in N /\ n # Source
        BY DEF FirstFit, Scanned, N
    <2>6. scanned.at = trial.at /\ scanned.free = trial.free
        BY DEF Memoise
    <2>7. Assigned(snap, scanned) /\ DOMAIN scanned.free = N
        BY <1>3, <1>4, <2>2, <2>6 DEF Assigned
    <2>8. DOMAIN trial'.free = N
        BY <2>1, <2>7 DEF Place, Remove
    <2> HIDE DEF p, scanned
    <2>9. ASSUME NEW x \in N \ (drained \cup {Source}) PROVE Fair(trial', x)
        <3>1. InBalance(snap, scanned, opts.ceiling, x)
            BY <1>3, <2>2, <2>6 DEF Fair, InBalance, Occupants
        <3>2. QED BY <1>1, <2>1, <2>4, <2>5, <2>6, <2>7, <3>1, BalanceKept DEF Fair, N
    <2>10. QED BY <1>3, <2>2, <2>3, <2>8, <2>9
<1>9. CASE CommitMove
    <2> DEFINE m == moves[made + 1]
    <2>1. /\ made + 1 \in 1..Len(moves) /\ m \in Moves
        BY <1>9, CommitMoves
    <2>2. /\ phase = "trial" /\ UNCHANGED <<phase, trial, queue, drained>> /\ made' = made + 1
          /\ work' = Committed(work, m)
        BY <1>9 DEF CommitMove
    <2>3. Source' = Source
        BY <2>2 DEF Source
    <2>4. m.from = Source /\ m.to # Source /\ m.pod \in PodsOf(snap) /\ m.to \in N /\ Source \in N
        BY <1>4, <2>1, <2>2, TailOf DEF Emptying, Moves, N, Source
    <2>5. work.at[m.pod] = Source
        <3>1. made + 1 > made
            BY <1>4
        <3>2. \A i \in 1..Len(moves) : i > made => work.at[moves[i].pod] = Source
            BY <2>2 DEF Tracked
        <3>3. QED BY <2>1, <3>1, <3>2
    <2>6. work' = Place(snap, Remove(snap, work, m.pod), m.pod, m.to)
        BY <2>2, <2>4, <2>5 DEF Committed
    <2>7. DOMAIN work.free = N /\ Assigned(snap, work)
        BY <1>4, <2>2 DEF Solvent, N
    <2> HIDE DEF m
    <2>8. ASSUME NEW x \in N \ drained, x # Source PROVE Fair(work', x)
        <3>1. InBalance(snap, work, opts.ceiling, x)
            BY <1>3, <2>2, <2>8 DEF Fair
        <3>2. QED BY <1>1, <2>4, <2>5, <2>6, <2>7, <2>8, <3>1, BalanceKept DEF Fair, N
    <2>9. made' # 0
        BY <1>4, <2>2
    <2>10. QED BY <1>3, <2>2, <2>3, <2>8, <2>9
<1>10. CASE Commit
    <2>1. phase = "trial" /\ phase' = "packing" /\ UNCHANGED work /\ drained' = drained \cup {Source}
        BY <1>10 DEF Commit
    <2>2. QED BY <1>3, <2>1
<1>11. CASE Relist
    BY <1>11 DEF Relist
<1>12. CASE UNCHANGED vars
    <2>1. UNCHANGED <<phase, made, work, trial, queue, drained>> /\ Source' = Source
        BY <1>12 DEF vars, Source
    <2>2. QED BY <1>3, <2>1
<1>13. QED
    BY <1>5, <1>6, <1>7, <1>8, <1>9, <1>10, <1>11, <1>12 DEF Next

(* Every move decided is feasible when it is decided, and stays so. *)
LEMMA FeasibleStep ==
    ASSUME Shape, TrialExact, Emptying, Tracked, Balanced, DecidedFeasible, [Next]_vars
    PROVE  DecidedFeasible'
<1> DEFINE A == AllMoves
           Good(ms, k) == Feasible(snap, opts.ceiling, AfterMoves(snap, ms, k - 1), ms[k])
<1>1. UNCHANGED <<cluster, opts, snap>> /\ Sized(snap) /\ opts.ceiling \in Nat
    BY InputsKept, SnapshotSized
<1>2. \A k \in 1..Len(Decided) : Good(Decided, k)
    BY DEF DecidedFeasible
<1>3. SUFFICES \A k \in 1..Len(Decided') : Good(Decided', k)
    BY <1>1 DEF DecidedFeasible
<1>4. /\ queue \in Seq(NodesOf(snap)) /\ toMove \in Seq(PodsOf(snap)) /\ moves \in Seq(Moves)
      /\ phase = "trial" => queue # <<>> /\ Assigned(snap, trial)
      /\ A \in Seq(Moves) /\ (phase # "trial" => moves = <<>>)
    BY DEF Shape, Tracked
<1>5. /\ Decided = A \o moves /\ Decided' = AllMoves' \o moves' /\ Len(A) \in Nat /\ Len(moves) \in Nat
      /\ Decided \in Seq(Moves) /\ Len(Decided) = Len(A) + Len(moves) /\ SameUpTo(Decided, A, Len(A))
    <2>1. Decided = A \o moves /\ Decided' = AllMoves' \o moves'
        BY DEF Decided
    <2>2. QED BY <1>4, <2>1, DecidedIs
<1>6. /\ steps' = steps => AllMoves' = A
      /\ Commit => AllMoves' = A \o moves
      /\ steps' = <<>> => AllMoves' = <<>>
    BY <1>4, AllMovesKept
<1> HIDE DEF A, Decided
<1>7. ASSUME NEW ms, NEW ns, NEW l \in Nat, SameUpTo(ms, ns, l), NEW k \in 1..l, Good(ns, k)
      PROVE  Good(ms, k)
    <2>1. k - 1 \in Nat /\ SameUpTo(ms, ns, k - 1) /\ ms[k] = ns[k]
        BY <1>7 DEF SameUpTo
    <2>2. AfterMoves(snap, ms, k - 1) = AfterMoves(snap, ns, k - 1)
        BY <2>1, AfterSame
    <2>3. QED BY <1>7, <2>1, <2>2
<1> HIDE DEF Good
<1>8. CASE Relocate
    <2> DEFINE p == Head(toMove)
    <2>1. PICK n \in Scanned :
              /\ n \in FirstFit(trial, p)
              /\ moves' = Append(moves, [pod |-> p, from |-> Source, to |-> n])
        BY <1>8, RelocateMoves
    <2> DEFINE m == [pod |-> p, from |-> Source, to |-> n]
    <2>2. /\ phase = "trial" /\ toMove # <<>> /\ AllMoves' = A
        BY <1>6, <1>8 DEF Relocate
    <2>3. /\ p \in PodsOf(snap) /\ trial.at[p] = Source /\ Source \in NodesOf(snap)
          /\ n \in NodesOf(snap) /\ n \notin drained \cup {Source} /\ CanPlace(snap, trial, p, n)
        <3>1. p \in PodsOf(snap) /\ p = toMove[1] /\ 1 \in 1..Len(toMove)
            BY <1>4, <2>2, TailOf
        <3>2. trial.at[p] = Source
            BY <2>2, <3>1 DEF Tracked
        <3>3. Source \in NodesOf(snap)
            BY <1>4, <2>2, TailOf DEF Source
        <3>4. QED BY <2>1, <3>1, <3>2, <3>3 DEF FirstFit, Scanned
    <2>4. m \in Moves /\ m.pod = p /\ m.from = Source /\ m.to = n
        BY <2>3 DEF Moves
    <2>5. moves' = Append(moves, m)
        BY <2>1
    <2> HIDE DEF m
    <2> DEFINE D == Append(Decided, m)
    <2>6. Decided' = D
        BY <1>4, <1>5, <2>2, <2>4, <2>5, DecidedIs, SMTT(30)
    <2>7. /\ Len(D) = Len(Decided) + 1 /\ Len(Decided) \in Nat /\ D[Len(Decided) + 1] = m
          /\ SameUpTo(D, Decided, Len(Decided))
          /\ \A k \in 1..(Len(Decided) + 1) : k \in 1..Len(Decided) \/ k = Len(Decided) + 1
        BY <1>5, <2>4, AppendIs, ZenonT(40)
    <2> DEFINE at == AfterMoves(snap, Decided, Len(Decided))
    <2>8. Feasible(snap, opts.ceiling, at, m)
        <3>1. DOMAIN at = PodsOf(snap)
            BY DEF AfterMoves
        <3>2. Follows(snap, trial, at)
            BY <2>2 DEF Tracked
        <3>3. at[p] = Source
            BY <1>1, <2>3, <3>2 DEF Follows, Seen, Sized
        <3>4. Exact(snap, trial) /\ Assigned(snap, trial) /\ InBalance(snap, trial, opts.ceiling, n)
            BY <1>4, <2>2, <2>3 DEF TrialExact, Balanced
        <3>5. \A tsc \in snap.pod[p].spread : tsc.maxSkew \in Nat
            BY <2>3, ClustersAssumption DEF Shape
        <3> HIDE DEF at, p
        <3>6. QED BY <1>1, <2>3, <2>4, <3>1, <3>2, <3>3, <3>4, <3>5, PlacedIsFeasible
    <2>9. AfterMoves(snap, D, Len(Decided)) = at
        BY <2>7, AfterSame
    <2> HIDE DEF D, at
    <2>10. Good(D, Len(Decided) + 1)
        <3>1. Len(Decided) + 1 - 1 = Len(Decided)
            BY <2>7
        <3>2. QED BY <2>7, <2>8, <2>9, <3>1 DEF Good
    <2>11. ASSUME NEW k \in 1..Len(D) PROVE Good(D, k)
        <3>1. CASE k \in 1..Len(Decided)
            BY <1>2, <1>7, <2>7, <3>1
        <3>2. CASE k = Len(Decided) + 1
            BY <2>10, <3>2
        <3>3. QED BY <2>7, <3>1, <3>2
    <2>12. QED BY <2>6, <2>11
<1>9. CASE Abandon
    <2>1. AllMoves' = A /\ moves' = <<>>
        BY <1>6, <1>9 DEF Abandon
    <2>2. Decided' = A
        BY <1>4, <1>5, <2>1, DecidedIs
    <2>3. \A k \in 1..Len(A) : k \in 1..Len(Decided) /\ Decided[k] = A[k]
        BY <1>5 DEF SameUpTo
    <2>4. SameUpTo(A, Decided, Len(A))
        BY <2>3 DEF SameUpTo
    <2>5. ASSUME NEW k \in 1..Len(A) PROVE Good(A, k)
        BY <1>2, <1>5, <1>7, <2>3, <2>4
    <2>6. QED BY <2>2, <2>5
<1>10. CASE Commit
    <2>1. AllMoves' = Decided /\ moves' = <<>>
        BY <1>5, <1>6, <1>10 DEF Commit
    <2>2. <<>> \in Seq(Moves)
        OBVIOUS
    <2>3. Decided' = Decided
        BY <1>5, <2>1, <2>2, DecidedIs
    <2>4. QED BY <1>2, <2>3
<1>11. CASE Relist
    <2>1. phase = "done" /\ UNCHANGED moves /\ steps' = <<>>
        BY <1>11 DEF Relist
    <2>2. Decided' = <<>>
        BY <1>4, <1>5, <1>6, <2>1
    <2>3. QED BY <2>2
<1>12. CASE Start \/ SkipEmpty \/ BeginTrial \/ RefuseNode \/ CommitMove \/ Finish \/ UNCHANGED vars
    <2>1. steps' = steps /\ moves' = moves
        BY <1>4, <1>12 DEF Start, SkipEmpty, BeginTrial, RefuseNode, CommitMove, Finish, vars
    <2>2. Decided' = Decided
        BY <1>5, <1>6, <2>1
    <2>3. QED BY <1>2, <2>2
<1>13. QED BY <1>8, <1>9, <1>10, <1>11, <1>12 DEF Next

(* So it is for every plan. *)
LEMMA MovesKept == Spec => [](Tracked /\ Balanced /\ DecidedFeasible)
<1>1. Init => Tracked /\ Balanced /\ DecidedFeasible
    <2> SUFFICES ASSUME Init PROVE Tracked /\ Balanced /\ DecidedFeasible
        OBVIOUS
    <2>1. AllMoves = <<>> /\ moves = <<>> /\ phase = "listed"
        <3>1. [i \in DOMAIN steps |-> steps[i].moves] = <<>>
            BY DEF Init
        <3>2. SX!FlattenSeq(<<>>) = <<>>
            BY FlattenUnfolds
        <3>3. QED BY <3>1, <3>2 DEF AllMoves, Init
    <2>2. Decided = <<>> /\ <<>> \in Seq(Moves)
        BY <2>1 DEF Decided
    <2>3. QED BY <2>1, <2>2 DEF Tracked, Balanced, DecidedFeasible
<1>2. ASSUME Shape, TrialExact, Emptying, Permitted, FirstMove,
             Tracked, Balanced, DecidedFeasible, [Next]_vars
      PROVE  Tracked' /\ Balanced' /\ DecidedFeasible'
    BY <1>2, TrackedStep, BalancedStep, FeasibleStep
<1>3. QED BY <1>1, <1>2, BooksKept, EmptyingKept, AnalysisKept, PTL DEF Spec

(* Every plan, for any cluster, any options and any order of the lists, can be
   carried out move by move: each move finds its pod where the plan says, and a
   destination that is ready and tolerated, has room under the ceiling, keeps
   to the pod's affinities and to its spread once the pod is there (greedy.go,
   Plan, tryDrain; placement.go, CanPlace). *)
THEOREM PlansAlwaysFeasible == Spec => []PlanIsFeasible
<1>1. Shape /\ Tracked /\ DecidedFeasible => PlanIsFeasible
    <2> SUFFICES ASSUME Shape, Tracked, DecidedFeasible, NEW k \in DOMAIN AllMoves
                 PROVE  Feasible(snap, opts.ceiling, AfterMoves(snap, AllMoves, k - 1), AllMoves[k])
        BY DEF PlanIsFeasible
    <2> DEFINE A == AllMoves
    <2>1. A \in Seq(Moves) /\ moves \in Seq(Moves) /\ k \in 1..Len(A) /\ Decided = A \o moves
        BY DEF Tracked, Shape, Decided
    <2>2. Len(A) \in Nat /\ Len(moves) \in Nat /\ Len(Decided) = Len(A) + Len(moves)
          /\ SameUpTo(Decided, A, Len(A))
        BY <2>1, DecidedIs
    <2> HIDE DEF A
    <2>3. k \in 1..Len(Decided) /\ k - 1 \in Nat /\ Decided[k] = A[k] /\ SameUpTo(Decided, A, k - 1)
        BY <2>1, <2>2 DEF SameUpTo
    <2>4. AfterMoves(snap, Decided, k - 1) = AfterMoves(snap, A, k - 1)
        BY <2>3, AfterSame
    <2>5. Feasible(snap, opts.ceiling, AfterMoves(snap, Decided, k - 1), Decided[k])
        BY <2>3 DEF DecidedFeasible
    <2>6. QED BY <2>3, <2>4, <2>5 DEF A
<1>2. QED BY <1>1, BooksKept, MovesKept, PTL

(* One more element of a set, counted among some. *)
LEMMA CountOneMore ==
    ASSUME NEW S, IsFiniteSet(S), NEW x, x \notin S, NEW O
    PROVE  /\ Cardinality(S \cap O) \in Nat
           /\ x \in O => Cardinality((S \cup {x}) \cap O) = Cardinality(S \cap O) + 1
           /\ x \notin O => Cardinality((S \cup {x}) \cap O) = Cardinality(S \cap O)
<1>1. IsFiniteSet(S \cap O) /\ Cardinality(S \cap O) \in Nat
    BY FS_Subset, FS_CardinalityType
<1>2. CASE x \in O
    <2>1. (S \cup {x}) \cap O = (S \cap O) \cup {x} /\ x \notin S \cap O
        BY <1>2
    <2>2. QED BY <1>1, <1>2, <2>1, FS_AddElement
<1>3. CASE x \notin O
    <2>1. (S \cup {x}) \cap O = S \cap O
        BY <1>3
    <2>2. QED BY <1>1, <1>3, <2>1
<1>4. QED BY <1>2, <1>3

(* A node is counted as it is given up, by a step or without one. *)
LEMMA AccountedStep ==
    ASSUME Shape, TrialExact, VisitedOnce, Emptying, Permitted, Accounted, [Next]_vars
    PROVE  Accounted'
<1> DEFINE Home(p) == snap.pod[p].node
           Occ == OccupiedInSnapshot(snap)
           Out == Uncounted
<1>1. /\ UNCHANGED <<cluster, opts, snap>> /\ PodsOf(snap)' = PodsOf(snap) /\ Occ' = Occ
      /\ Sized(snap)
    BY InputsKept, SnapshotSized DEF PodsOf, OccupiedInSnapshot
<1>2. SUFFICES
      /\ phase' # "listed" => \A p \in PodsOf(snap) :
            \/ work'.at[p] = Seen(snap, Home(p))
            \/ Home(p) \in drained'
            \/ made' > 0 /\ Home(p) = Source'
      /\ Cardinality(drained' \cap Occ) + Cardinality(Out') = alreadyReclaimable' + Len(steps')
      /\ phase' = "done" => plan'.nodesAfter = Cardinality(Occ) - Len(steps') - alreadyReclaimable'
    BY <1>1 DEF Accounted
<1>3. /\ phase # "listed" => \A p \in PodsOf(snap) :
            \/ work.at[p] = Seen(snap, Home(p))
            \/ Home(p) \in drained
            \/ made > 0 /\ Home(p) = Source
      /\ Cardinality(drained \cap Occ) + Cardinality(Out) = alreadyReclaimable + Len(steps)
      /\ phase = "done" => plan.nodesAfter = Cardinality(Occ) - Len(steps) - alreadyReclaimable
    BY DEF Accounted
<1>4. /\ queue \in Seq(NodesOf(snap)) /\ steps \in Seq(Steps) /\ made \in Nat /\ moves \in Seq(Moves)
      /\ (phase # "trial" \/ toMove # <<>> => made = 0)
      /\ phase = "trial" => queue # <<>>
      /\ alreadyReclaimable \in Nat /\ Len(steps) \in Nat
    BY DEF Shape, VisitedOnce
<1>5. IsFiniteSet(drained)
    BY <1>1, FS_Subset DEF Shape, Sized
<1>6. queue # <<>> => Source \in NodesOf(snap) /\ Source \notin drained
    BY <1>4, TailOf DEF Source, VisitedOnce
<1>7. /\ Out \subseteq 1..Len(steps) /\ IsFiniteSet(Out) /\ Cardinality(Out) \in Nat
      /\ steps' = steps => Out' = Out
    <2>1. Out \subseteq 1..Len(steps) /\ IsFiniteSet(1..Len(steps))
        BY <1>4, FS_Interval DEF Uncounted
    <2>2. steps' = steps => Out' = Out
        BY <1>1 DEF Uncounted
    <2>3. QED BY <2>1, <2>2, FS_Subset, FS_CardinalityType
<1>8. IsFiniteSet({}) /\ Cardinality({}) = 0
    BY FS_EmptySet
<1> HIDE DEF Occ, Out, Home
<1>9. CASE Start
    <2>1. /\ phase' = "packing" /\ work' = NewPlacementCeiling(snap, opts.ceiling)
          /\ UNCHANGED <<drained, alreadyReclaimable, steps>>
        BY <1>9 DEF Start
    <2>2. \A p \in PodsOf(snap) : work'.at[p] = Seen(snap, Home(p))
        BY <2>1 DEF NewPlacementCeiling, Seen, Home
    <2>3. QED BY <1>3, <1>7, <2>1, <2>2
<1>10. CASE SkipEmpty
    <2>1. /\ phase = "packing" /\ phase' = "packing" /\ queue # <<>> /\ UNCHANGED <<work, made, steps>>
          /\ made = 0
          /\ drained' = drained \cup {Source}
          /\ alreadyReclaimable' = alreadyReclaimable + (IF CountsAsReclaimable(Source) THEN 1 ELSE 0)
        BY <1>4, <1>10 DEF SkipEmpty
    <2>2. CountsAsReclaimable(Source) <=> Source \in Occ
        BY <1>6, <2>1 DEF CountsAsReclaimable, Occ, OccupiedInSnapshot
    <2>3. /\ Cardinality(drained \cap Occ) \in Nat
          /\ Source \in Occ => Cardinality(drained' \cap Occ) = Cardinality(drained \cap Occ) + 1
          /\ Source \notin Occ => Cardinality(drained' \cap Occ) = Cardinality(drained \cap Occ)
        BY <1>5, <1>6, <2>1, CountOneMore
    <2>4. Cardinality(drained' \cap Occ) + Cardinality(Out') = alreadyReclaimable' + Len(steps')
        BY <1>3, <1>4, <1>7, <2>1, <2>2, <2>3
    <2>5. QED BY <1>3, <2>1, <2>4
<1>11. CASE BeginTrial \/ RefuseNode \/ Finish
    <2>1. phase = "packing" /\ UNCHANGED <<work, made, steps, drained, alreadyReclaimable>> /\ made = 0
        BY <1>4, <1>11 DEF BeginTrial, RefuseNode, Finish
    <2>2. phase' = "done" => plan'.nodesAfter = Cardinality(Occ) - Len(steps) - alreadyReclaimable
        BY <1>11 DEF BeginTrial, RefuseNode, Finish, Occ
    <2>3. QED BY <1>3, <1>7, <2>1, <2>2
<1>12. CASE Relocate \/ Abandon
    <2>1. /\ phase = "trial" /\ phase' \in {"trial", "packing"} /\ made = 0
          /\ UNCHANGED <<work, made, steps, drained, alreadyReclaimable>>
        BY <1>4, <1>12 DEF Relocate, Abandon
    <2>2. QED BY <1>3, <1>7, <2>1
<1>13. CASE CommitMove
    <2> DEFINE m == moves[made + 1]
    <2>1. /\ made + 1 \in 1..Len(moves) /\ m \in Moves
          /\ \A q \in PodsOf(snap) : q # m.pod => work'.at[q] = work.at[q]
          /\ work'.at[m.pod] = IF work.at[m.pod] = m.from THEN m.to ELSE work.at[m.pod]
        BY <1>13, CommitMoves
    <2>2. /\ phase = "trial" /\ phase' = "trial" /\ UNCHANGED <<queue, drained, steps, alreadyReclaimable>>
          /\ made' = made + 1
        BY <1>13 DEF CommitMove
    <2>3. Source' = Source /\ made' > 0
        BY <1>4, <2>2 DEF Source
    <2>4. m.from = Source /\ Source \in NodesOf(snap)
        BY <1>6, <1>4, <2>1, <2>2 DEF Emptying
    <2> HIDE DEF m
    <2>5. ASSUME NEW p \in PodsOf(snap)
          PROVE  \/ work'.at[p] = Seen(snap, Home(p))
                 \/ Home(p) \in drained'
                 \/ made' > 0 /\ Home(p) = Source'
        <3>1. CASE p # m.pod \/ work.at[p] # Source
            BY <1>3, <2>1, <2>2, <2>3, <2>4, <3>1
        <3>2. CASE work.at[p] = Source /\ work.at[p] = Seen(snap, Home(p))
            <4>1. Home(p) = Source
                BY <1>1, <2>4, <3>2 DEF Seen, Sized
            <4>2. QED BY <2>3, <4>1
        <3>3. CASE Home(p) \in drained \/ Home(p) = Source
            BY <2>2, <2>3, <3>3
        <3>4. QED BY <1>3, <2>2, <3>1, <3>2, <3>3
    <2>6. QED BY <1>3, <1>7, <2>2, <2>5
<1>14. CASE Commit
    <2> DEFINE step == [target |-> Source, moves |-> moves]
    <2>1. /\ phase = "trial" /\ phase' = "packing" /\ UNCHANGED <<work, alreadyReclaimable>>
          /\ drained' = drained \cup {Source}
          /\ steps' = Append(steps, step) /\ made' = 0
        BY <1>14 DEF Commit
    <2>2. step.target = Source
        OBVIOUS
    <2> HIDE DEF step
    <2>3. /\ Len(steps') = Len(steps) + 1 /\ steps'[Len(steps) + 1] = step
          /\ \A i \in 1..Len(steps) : steps'[i] = steps[i]
        BY <1>4, <2>1
    <2>4. Out' = Out \cup (IF Source \in Occ THEN {} ELSE {Len(steps) + 1})
        <3>1. Out = {i \in 1..Len(steps) : steps[i].target \notin Occ}
              /\ Out' = {i \in 1..Len(steps') : steps'[i].target \notin Occ}
            BY <1>1 DEF Out, Uncounted, Occ
        <3>2. \A i : i \in 1..Len(steps') <=> (i \in 1..Len(steps) \/ i = Len(steps) + 1)
            BY <1>4, <2>3
        <3>3. steps'[Len(steps) + 1].target = Source
            BY <2>2, <2>3
        <3>4. QED BY <2>3, <3>1, <3>2, <3>3
    <2>5. /\ Cardinality(drained \cap Occ) \in Nat
          /\ Source \in Occ => Cardinality(drained' \cap Occ) = Cardinality(drained \cap Occ) + 1
          /\ Source \notin Occ => Cardinality(drained' \cap Occ) = Cardinality(drained \cap Occ)
        <3>1. Source \notin drained
            BY <1>4, <1>6, <2>1
        <3>2. QED BY <1>5, <2>1, <3>1, CountOneMore
    <2>6. /\ Source \in Occ => Cardinality(Out') = Cardinality(Out)
          /\ Source \notin Occ => Cardinality(Out') = Cardinality(Out) + 1
        <3>1. Len(steps) + 1 \notin Out
            BY <1>4, <1>7
        <3>2. Source \in Occ => Out' = Out
            BY <2>4
        <3>3. Source \notin Occ => Out' = Out \cup {Len(steps) + 1}
            BY <2>4
        <3>4. QED BY <1>7, <3>1, <3>2, <3>3, FS_AddElement
    <2>7. Cardinality(drained' \cap Occ) + Cardinality(Out') = alreadyReclaimable' + Len(steps')
        <3> DEFINE a == Cardinality(drained \cap Occ)
                   b == Cardinality(drained' \cap Occ)
                   c == Cardinality(Out)
                   d == Cardinality(Out')
                   l == Len(steps)
                   k == Len(steps')
        <3>1. a \in Nat /\ c \in Nat /\ l \in Nat /\ alreadyReclaimable \in Nat
            BY <1>4, <1>7, <2>5
        <3>2. a + c = alreadyReclaimable + l /\ alreadyReclaimable' = alreadyReclaimable /\ k = l + 1
            BY <1>3, <2>1, <2>3
        <3>3. (b = a + 1 /\ d = c) \/ (b = a /\ d = c + 1)
            BY <2>5, <2>6
        <3> HIDE DEF a, b, c, d, l, k
        <3>4. b + d = alreadyReclaimable' + k
            BY <3>1, <3>2, <3>3
        <3>5. QED BY <3>4 DEF b, d, k
    <2>8. QED BY <1>3, <2>1, <2>7
<1>15. CASE Relist
    <2>1. phase' = "listed" /\ drained' = {} /\ steps' = <<>> /\ alreadyReclaimable' = 0
        BY <1>15 DEF Relist
    <2>2. Out' = {} /\ drained' \cap Occ = {} /\ Len(steps') = 0
        <3>1. Out' \subseteq 1..Len(steps')
            BY DEF Out, Uncounted
        <3>2. QED BY <2>1, <3>1
    <2>3. QED BY <1>8, <2>1, <2>2
<1>16. CASE UNCHANGED vars
    <2>1. UNCHANGED <<phase, plan, work, drained, steps, made, alreadyReclaimable>> /\ Source' = Source
        BY <1>16 DEF vars, Source
    <2>2. QED BY <1>3, <1>7, <2>1
<1>17. QED
    BY <1>9, <1>10, <1>11, <1>12, <1>13, <1>14, <1>15, <1>16 DEF Next

(* A node that carries something has a pod on it that is not finished. *)
LEMMA OccupiedHas ==
    ASSUME NEW s, NEW n \in OccupiedInSnapshot(s)
    PROVE  n \in NodesOf(s) /\ \E p \in PodsOf(s) : s.pod[p].node = n /\ ~Finished(s.pod[p])
<1> DEFINE on == {p \in PodsOf(s) : s.pod[p].node = n /\ ~Finished(s.pod[p])}
<1>1. n \in NodesOf(s) /\ SumNeed(s, on) # NoResources
    BY DEF OccupiedInSnapshot, RequestedOnNode
<1>2. on # {}
    <2>1. SUFFICES ASSUME on = {} PROVE FALSE
        OBVIOUS
    <2> DEFINE f == [p \in on |-> s.pod[p].cpu]
    <2>2. DOMAIN f = {}
        BY <2>1
    <2>3. SumNeed(s, on) = [cpu |-> SumFunction(f), slots |-> Cardinality(on)]
        BY DEF SumNeed
    <2> HIDE DEF f, on
    <2>4. SumFunction(f) = 0 /\ Cardinality(on) = 0
        BY <2>1, <2>2, SumOfNone, FS_EmptySet
    <2>5. QED BY <1>1, <2>3, <2>4 DEF NoResources
<1>3. QED BY <1>1, <1>2

(* And a node with such a pod carries something. *)
LEMMA HasOccupied ==
    ASSUME NEW s, Sized(s), NEW n \in NodesOf(s), NEW p \in PodsOf(s),
           s.pod[p].node = n, ~Finished(s.pod[p])
    PROVE  n \in OccupiedInSnapshot(s)
<1> DEFINE on == {q \in PodsOf(s) : s.pod[q].node = n /\ ~Finished(s.pod[q])}
<1>1. p \in on /\ on \subseteq PodsOf(s)
    OBVIOUS
<1>2. RequestedOnNode(s, n) = SumNeed(s, on)
    BY DEF RequestedOnNode
<1> HIDE DEF on
<1>3. IsFiniteSet(on) /\ SumNeed(s, on).slots = Cardinality(on)
    BY <1>1, NeedsTogether
<1>4. Cardinality(on) # 0
    BY <1>1, <1>3, FS_EmptySet
<1>5. QED BY <1>2, <1>3, <1>4 DEF OccupiedInSnapshot, NoResources

(* The fleet a plan promises, for any cluster, any options and any order of the
   lists: never larger than the one it leaves, and exactly that one when the plan
   takes no empty node into use (greedy.go, NodesAfter). *)
THEOREM FleetAlwaysExactInside == Spec => []FleetExactInside
<1>1. Init => Accounted
    <2> SUFFICES ASSUME Init PROVE Accounted
        OBVIOUS
    <2>1. /\ phase = "listed" /\ drained \cap OccupiedInSnapshot(snap) = {} /\ Uncounted = {}
          /\ alreadyReclaimable = 0 /\ Len(steps) = 0
        BY DEF Init, Uncounted
    <2>2. Cardinality({}) = 0
        BY FS_EmptySet
    <2>3. QED BY <2>1, <2>2 DEF Accounted
<1>2. ASSUME Shape, TrialExact, VisitedOnce, Emptying, Permitted, Accounted, [Next]_vars
      PROVE  Accounted'
    BY <1>2, AccountedStep
<1>3. Shape /\ VisitedOnce /\ Tracked /\ Accounted => FleetExactInside
    <2> SUFFICES ASSUME Shape, VisitedOnce, Tracked, Accounted, phase = "done"
                 PROVE  FleetExactInside
        BY DEF FleetExactInside
    <2> DEFINE reached == AfterMoves(snap, AllMoves, Len(AllMoves))
               counted == OccupiedInSnapshot(snap)
               a == Cardinality(counted)
               b == Cardinality(drained \cap counted)
               c == Cardinality(Uncounted)
               l == Len(steps)
    <2>1. Carrying = {n \in NodesOf(snap) \ drained :
                         \E p \in PodsOf(snap) : reached[p] = n /\ ~Finished(snap.pod[p])}
        BY DEF Carrying
    <2>2. made = 0 /\ moves = <<>> /\ Sized(snap) /\ AllMoves \in Seq(Moves) /\ steps \in Seq(Steps)
        BY SnapshotSized DEF Shape, Tracked
    <2>3. Follows(snap, work, reached)
        <3>1. Decided = AllMoves /\ Len(AllMoves) + made = Len(AllMoves)
            BY <2>2, DecidedIs DEF Decided
        <3>2. QED BY <3>1 DEF Tracked
    <2>4. counted \subseteq NodesOf(snap) /\ IsFiniteSet(counted) /\ Cardinality(counted) \in Nat
        <3>1. counted \subseteq NodesOf(snap)
            BY DEF OccupiedInSnapshot
        <3>2. QED BY <2>2, <3>1, FS_Subset, FS_CardinalityType DEF Sized
    <2>5. counted \ drained \subseteq Carrying
        <3>1. ASSUME NEW n \in counted \ drained
              PROVE  \E p \in PodsOf(snap) : reached[p] = n /\ ~Finished(snap.pod[p])
            <4>1. PICK p \in PodsOf(snap) : snap.pod[p].node = n /\ ~Finished(snap.pod[p])
                BY OccupiedHas
            <4>2. n \in NodesOf(snap) /\ NoNode \notin NodesOf(snap)
                BY <2>2, <2>4 DEF Sized
            <4>3. work.at[p] = Seen(snap, n)
                BY <2>2, <4>1 DEF Accounted
            <4>4. work.at[p] = Seen(snap, reached[p])
                BY <2>3 DEF Follows
            <4> HIDE DEF reached
            <4>5. reached[p] = n
                BY <4>2, <4>3, <4>4 DEF Seen
            <4>6. QED BY <4>1, <4>5
        <3> HIDE DEF reached, counted
        <3>2. QED BY <2>1, <2>4, <3>1
    <2>6. Cardinality(counted \ drained) = a - b
        <3>1. counted \cap drained = drained \cap counted
            OBVIOUS
        <3> HIDE DEF counted
        <3>2. QED BY <2>4, <3>1, FS_Difference
    <2>7. /\ plan.nodesAfter = a - l - alreadyReclaimable
          /\ b + c = alreadyReclaimable + l
        BY DEF Accounted
    <2>8. /\ a \in Nat /\ b \in Nat /\ c \in Nat /\ l \in Nat /\ alreadyReclaimable \in Nat
        <3>1. IsFiniteSet(1..Len(steps)) /\ Uncounted \subseteq 1..Len(steps) /\ Len(steps) \in Nat
            BY <2>2, FS_Interval DEF Uncounted
        <3>2. IsFiniteSet(drained \cap counted) /\ IsFiniteSet(Uncounted)
            BY <2>4, <3>1, FS_Subset
        <3>3. QED BY <2>4, <3>1, <3>2, FS_CardinalityType DEF VisitedOnce
    <2>9. IsFiniteSet(Carrying) /\ Cardinality(Carrying) \in Nat
          /\ Cardinality(counted \ drained) <= Cardinality(Carrying)
        <3>1. Carrying \subseteq NodesOf(snap) /\ IsFiniteSet(NodesOf(snap))
            BY <2>1, <2>2 DEF Sized
        <3>2. IsFiniteSet(Carrying)
            BY <3>1, FS_Subset
        <3> HIDE DEF counted
        <3>3. QED BY <2>5, <3>2, FS_Subset, FS_CardinalityType
    <2>10. ASSUME StaysInside PROVE c = 0 /\ Carrying = counted \ drained
        <3>1. Uncounted = {}
            BY <2>2, <2>10 DEF StaysInside, Uncounted
        <3>2. ASSUME NEW n \in Carrying PROVE n \in counted \ drained
            <4>1. n \in NodesOf(snap) \ drained
                BY <2>1
            <4>2. PICK p \in PodsOf(snap) : reached[p] = n /\ ~Finished(snap.pod[p])
                BY <2>1
            <4>3. Len(AllMoves) \in Nat /\ DOMAIN AllMoves = 1..Len(AllMoves)
                BY <2>2
            <4>4. reached[p] = snap.pod[p].node \/ \E i \in 1..Len(AllMoves) : reached[p] = AllMoves[i].to
                BY <4>3, AfterSome
            <4>5. ASSUME snap.pod[p].node = n PROVE n \in counted
                BY <2>2, <4>1, <4>2, <4>5, HasOccupied
            <4>6. \A i \in 1..Len(AllMoves) : AllMoves[i].to \in counted
                BY <2>10, <4>3 DEF StaysInside
            <4> HIDE DEF reached, counted
            <4>7. QED BY <4>1, <4>2, <4>4, <4>5, <4>6
        <3> HIDE DEF counted
        <3>3. QED BY <2>5, <3>1, <3>2, FS_EmptySet
    <2> HIDE DEF a, b, c, l, counted
    <2>11. plan.nodesAfter = Cardinality(counted \ drained) - c
        BY <2>6, <2>7, <2>8
    <2>12. Cardinality(counted \ drained) \in Nat
        <3>1. IsFiniteSet(counted \ drained)
            BY <2>4, FS_Subset
        <3>2. QED BY <3>1, FS_CardinalityType
    <2>13. plan.nodesAfter <= Cardinality(Carrying)
        BY <2>8, <2>9, <2>11, <2>12
    <2>14. ASSUME StaysInside PROVE plan.nodesAfter = Cardinality(Carrying)
        BY <2>10, <2>11, <2>12, <2>14
    <2>15. QED BY <2>13, <2>14 DEF FleetExactInside
<1>4. QED BY <1>1, <1>2, <1>3, BooksKept, VisitsKept, EmptyingKept, AnalysisKept, MovesKept, PTL DEF Spec

-----------------------------------------------------------------------------
(* The work queue.                                                          *)

(* The list has every pod, and no node is the target of two steps. *)
Listing ==
    /\ list.pods \in Seq(PodsOf(snap))
    /\ \A p \in PodsOf(snap) : \E i \in 1..Len(list.pods) : list.pods[i] = p

TargetsOnce ==
    /\ phase = "listed" => steps = <<>>
    /\ \A i \in 1..Len(steps) : steps[i].target \in drained
    /\ \A i, j \in 1..Len(steps) : steps[i].target = steps[j].target => i = j

(* A reversed list has the same pods. *)
LEMMA ReversedHasAll ==
    ASSUME NEW S, NEW q \in Seq(S), \A x \in S : \E i \in 1..Len(q) : q[i] = x
    PROVE  /\ SX!Reverse(q) \in Seq(S)
           /\ \A x \in S : \E i \in 1..Len(SX!Reverse(q)) : SX!Reverse(q)[i] = x
<1> DEFINE r == SX!Reverse(q)
<1>1. r = [i \in 1..Len(q) |-> q[(Len(q) - i) + 1]] /\ Len(q) \in Nat
    BY DEF SX!Reverse
<1>2. \A i \in 1..Len(q) : q[(Len(q) - i) + 1] \in S
    <2> SUFFICES ASSUME NEW i \in 1..Len(q) PROVE q[(Len(q) - i) + 1] \in S
        OBVIOUS
    <2>1. (Len(q) - i) + 1 \in 1..Len(q)
        BY <1>1
    <2>2. QED BY <2>1
<1>3. r \in Seq(S) /\ Len(r) = Len(q)
    BY <1>1, <1>2
<1>4. ASSUME NEW x \in S PROVE \E i \in 1..Len(r) : r[i] = x
    <2>1. PICK i \in 1..Len(q) : q[i] = x
        OBVIOUS
    <2> DEFINE j == (Len(q) - i) + 1
    <2>2. j \in 1..Len(q) /\ (Len(q) - j) + 1 = i
        BY <1>1
    <2>3. r[j] = x
        BY <1>1, <2>1, <2>2
    <2>4. QED BY <1>3, <2>2, <2>3
<1>5. QED BY <1>3, <1>4

(* The list a set is turned into has every element. *)
LEMMA SetToSeqHasAll ==
    ASSUME NEW S, IsFiniteSet(S)
    PROVE  /\ SX!SetToSeq(S) \in Seq(S)
           /\ \A x \in S : \E i \in 1..Len(SX!SetToSeq(S)) : SX!SetToSeq(S)[i] = x
<1> DEFINE N == Cardinality(S)
           q == SX!SetToSeq(S)
<1>1. N \in Nat /\ SX!Cardinality(S) = N
    BY FS_CardinalityType DEF SX!Cardinality, Cardinality
<1>2. \A f : SX!IsInjective(f) <=> \A i, j \in DOMAIN f : f[i] = f[j] => i = j
    BY DEF SX!IsInjective
<1>3. PICK g : g \in Bijection(1..N, S)
    <2>1. ExistsBijection(1..N, S)
        BY FS_CardinalityType
    <2>2. QED BY <2>1 DEF ExistsBijection
<1>4. g \in [1..N -> S] /\ \A i, j \in 1..N : g[i] = g[j] => i = j
    BY <1>3 DEF Bijection, Injection, IsInjective
<1>5. g \in [1..N -> S] /\ SX!IsInjective(g)
    BY <1>2, <1>4
<1>6. q \in [1..N -> S] /\ SX!IsInjective(q)
    BY <1>1, <1>5 DEF SX!SetToSeq
<1>7. \A i, j \in 1..N : i # j => q[i] # q[j]
    BY <1>2, <1>6
<1>8. q \in SX!SetToSeqs(S)
    BY <1>1, <1>6, <1>7 DEF SX!SetToSeqs
<1>9. QED BY <1>8, ListsAll

(* Both hold throughout. *)
LEMMA ListingKept == Spec => [](Listing /\ TargetsOnce)
<1>1. Init => Listing /\ TargetsOnce
    <2> SUFFICES ASSUME Init PROVE Listing /\ TargetsOnce
        OBVIOUS
    <2>1. IsFiniteSet(PodsOf(snap)) /\ list.pods = SX!SetToSeq(PodsOf(snap))
        BY ClustersAssumption DEF Init
    <2>2. Listing
        BY <2>1, SetToSeqHasAll DEF Listing
    <2>3. TargetsOnce
        BY DEF Init, TargetsOnce
    <2>4. QED BY <2>2, <2>3
<1>2. ASSUME Shape, Listing, [Next]_vars PROVE Listing'
    <2>1. UNCHANGED snap /\ PodsOf(snap)' = PodsOf(snap)
        BY <1>2, InputsKept DEF PodsOf
    <2>2. CASE Relist
        <3>1. list'.pods = SX!Reverse(list.pods)
            BY <2>2 DEF Relist
        <3>2. /\ SX!Reverse(list.pods) \in Seq(PodsOf(snap))
              /\ \A p \in PodsOf(snap) :
                    \E i \in 1..Len(SX!Reverse(list.pods)) : SX!Reverse(list.pods)[i] = p
            BY <1>2, ReversedHasAll DEF Listing
        <3>3. QED BY <2>1, <3>1, <3>2 DEF Listing
    <2>3. CASE ~Relist
        <3>1. UNCHANGED list
            BY <1>2, <2>3 DEF Next, vars, inputs, Start, SkipEmpty, BeginTrial, RefuseNode, Relocate,
                              Abandon, CommitMove, Commit, Finish
        <3>2. QED BY <1>2, <2>1, <3>1 DEF Listing
    <2>4. QED BY <2>2, <2>3
<1>3. ASSUME Shape, VisitedOnce, TargetsOnce, [Next]_vars PROVE TargetsOnce'
    <2>1. steps \in Seq(Steps) /\ queue \in Seq(NodesOf(snap)) /\ (phase = "trial" => queue # <<>>)
        BY <1>3 DEF Shape
    <2>2. CASE Commit
        <3>1. queue # <<>> /\ Source = queue[1] /\ 1 \in 1..Len(queue)
            BY <2>1, <2>2 DEF Commit, Source
        <3>2. Source \notin drained
            BY <1>3, <3>1 DEF VisitedOnce
        <3> DEFINE step == [target |-> Source, moves |-> moves]
        <3>3. steps' = Append(steps, step) /\ drained' = drained \cup {Source} /\ step.target = Source
              /\ phase' # "listed"
            BY <2>2 DEF Commit
        <3> HIDE DEF step
        <3>4. Len(steps') = Len(steps) + 1 /\ steps'[Len(steps) + 1] = step
              /\ \A i \in 1..Len(steps) : steps'[i] = steps[i]
            BY <2>1, <3>3
        <3>5. \A i \in 1..Len(steps') : i \in 1..Len(steps) \/ i = Len(steps) + 1
            BY <2>1, <3>4
        <3>6. QED BY <1>3, <3>2, <3>3, <3>4, <3>5 DEF TargetsOnce
    <2>3. CASE Relist
        BY <2>3 DEF Relist, TargetsOnce
    <2>4. CASE ~Commit /\ ~Relist
        <3>1. UNCHANGED steps /\ drained \subseteq drained' /\ (phase' = "listed" => phase = "listed")
            BY <1>3, <2>4 DEF Next, vars, inputs, Start, SkipEmpty, BeginTrial, RefuseNode, Relocate,
                              Abandon, CommitMove, Finish
        <3>2. QED BY <1>3, <3>1 DEF TargetsOnce
    <2>5. QED BY <2>2, <2>3, <2>4
<1>4. QED BY <1>1, <1>2, <1>3, BooksKept, VisitsKept, PTL DEF Spec

(* What a reason is about: the step's node, a budget over a pod it moves, or a
   pod it moves. *)
LEMMA ReasonIsReal ==
    ASSUME NEW s, NEW a, NEW step, NEW r \in ReasonsFor(s, a, step)
    PROVE  \/ r.kind \in {"BlastRadius", "BlastRadiusHigh"} /\ r.subject = step.target
           \/ \E m \in Range(step.moves) : /\ r.kind \in {"PDBZeroHeadroom", "PDBTightHeadroom"}
                                           /\ r.subject \in Covering(s, s.pod[m.pod])
           \/ \E m \in Range(step.moves) :
                 /\ r.kind \notin {"BlastRadius", "BlastRadiusHigh", "PDBZeroHeadroom", "PDBTightHeadroom"}
                 /\ r.subject = m.pod
<1> DEFINE Of(m) == OwnerReasons(s.pod[m.pod], m.pod) \cup BudgetReasons(s, s.pod[m.pod])
                    \cup ConstraintReasons(a[m.pod], m.pod)
<1>1. CASE r \in SizeReasons(step)
    BY <1>1 DEF SizeReasons, Reason
<1>2. CASE r \notin SizeReasons(step)
    <2>1. r \in SizeReasons(step) \cup UNION {Of(m) : m \in Range(step.moves)}
        BY DEF ReasonsFor
    <2> HIDE DEF Of
    <2>2. PICK R \in {Of(m) : m \in Range(step.moves)} : r \in R
        BY <1>2, <2>1, Zenon
    <2>3. PICK m \in Range(step.moves) : r \in Of(m)
        BY <2>2, Zenon
    <2>4. CASE r \in OwnerReasons(s.pod[m.pod], m.pod)
        BY <2>4 DEF OwnerReasons, If, Reason
    <2>5. CASE r \in BudgetReasons(s, s.pod[m.pod])
        BY <2>5 DEF BudgetReasons, Reason
    <2>6. CASE r \in ConstraintReasons(a[m.pod], m.pod)
        BY <2>6 DEF ConstraintReasons, If, Reason
    <2>7. QED BY <2>3, <2>4, <2>5, <2>6 DEF Of
<1>3. QED BY <1>1, <1>2

(* A step that is not Green has a reason. *)
LEMMA RatedForReason ==
    ASSUME NEW reasons, RatingFor(reasons) # "Green"
    PROVE  \E r \in reasons : TRUE
    BY DEF RatingFor

(* The finding a rule makes, and the rules of a plan. *)
BlockerOf(s, C, rule) ==
    [Finding(rule[1], IF \E i \in HeldBy(s, C, rule) : C[i].impact = "Red" THEN "high" ELSE "medium", rule[2])
        EXCEPT !.unblocks = HeldBy(s, C, rule),
               !.pools = PoolsOf(s, {C[i].target : i \in HeldBy(s, C, rule)})]
RulesOf(s, C) == UNION {{<<r.kind, SubjectOf(s, r)>> : r \in C[i].reasons} : i \in Held(C)}

(* A blocker is made from a rule: a kind and a subject on some step held back. *)
LEMMA BlockerIs ==
    ASSUME NEW s, NEW C, NEW f \in FromPlanReasons(s, C)
    PROVE  \E i \in Held(C) : \E r \in C[i].reasons :
              LET rule == <<r.kind, SubjectOf(s, r)>>
              IN  /\ f.unblocks = HeldBy(s, C, rule) /\ f.subject = rule[2]
                  /\ f.pools = PoolsOf(s, {C[j].target : j \in f.unblocks})
                  /\ f.fix = {} /\ i \in f.unblocks
<1>1. FromPlanReasons(s, C) = {BlockerOf(s, C, rule) : rule \in RulesOf(s, C)}
    BY Zenon DEF FromPlanReasons, BlockerOf, RulesOf
<1>2. PICK rule \in RulesOf(s, C) : f = BlockerOf(s, C, rule)
    BY <1>1, Zenon
<1>3. PICK i \in Held(C) : \E r \in C[i].reasons : rule = <<r.kind, SubjectOf(s, r)>>
    BY <1>2 DEF RulesOf
<1>4. PICK r \in C[i].reasons : rule = <<r.kind, SubjectOf(s, r)>>
    BY <1>3
<1>5. /\ f.unblocks = HeldBy(s, C, rule) /\ f.subject = rule[2] /\ f.fix = {}
      /\ f.pools = PoolsOf(s, {C[j].target : j \in HeldBy(s, C, rule)})
    BY <1>2 DEF BlockerOf, Finding
<1>6. i \in HeldBy(s, C, rule)
    BY <1>4 DEF HeldBy
<1>7. QED BY <1>4, <1>5, <1>6

(* Every reason on a step held back makes a blocker that names the step, of high
   severity if the step is Red. *)
LEMMA BlockerFor ==
    ASSUME NEW s, NEW C, NEW i \in Held(C), NEW r \in C[i].reasons
    PROVE  \E f \in FromPlanReasons(s, C) :
              i \in f.unblocks /\ (C[i].impact = "Red" => f.severity = "high")
<1> DEFINE rule == <<r.kind, SubjectOf(s, r)>>
           f == BlockerOf(s, C, rule)
<1>1. rule \in RulesOf(s, C)
    <2> DEFINE On(j) == {<<x.kind, SubjectOf(s, x)>> : x \in C[j].reasons}
    <2>1. rule \in On(i)
        OBVIOUS
    <2> HIDE DEF On, rule
    <2>2. rule \in UNION {On(j) : j \in Held(C)}
        BY <2>1
    <2>3. QED BY <2>2, Zenon DEF RulesOf, On
<1>2. f \in FromPlanReasons(s, C)
    <2>1. FromPlanReasons(s, C) = {BlockerOf(s, C, x) : x \in RulesOf(s, C)}
        BY Zenon DEF FromPlanReasons, BlockerOf, RulesOf
    <2>2. QED BY <1>1, <2>1, Zenon
<1>3. i \in HeldBy(s, C, rule)
    BY DEF HeldBy
<1> HIDE DEF rule
<1>4. f.unblocks = HeldBy(s, C, rule)
    BY DEF BlockerOf, Finding
<1>5. C[i].impact = "Red" => f.severity = "high"
    BY <1>3 DEF BlockerOf, Finding
<1> HIDE DEF f
<1>6. QED BY <1>2, <1>3, <1>4, <1>5

(* The nodes the pools of a finding count, and the steps in a pool. *)
NodesIn(pools) == SumFunction([g \in pools |-> g.nodes])
InPool(s, on, target) == {i \in on : GroupOf(s, target[i]) # <<"", "">>}

(* The pools of a finding count each of its steps in a pool once, if no two
   steps have the same target. *)
LEMMA PoolsCountSteps ==
    ASSUME NEW s, NEW on, IsFiniteSet(on), NEW N, NEW target \in Injection(on, N),
           NEW pools, pools = PoolsOf(s, Range(target))
    PROVE  NodesIn(pools) = Cardinality(InPool(s, on, target))
<1> DEFINE nodes == {target[i] : i \in on}
           In(i) == GroupOf(s, target[i])
           ins == [i \in on |-> In(i)]
           groups == {GroupOf(s, n) : n \in nodes} \ {<<"", "">>}
           PoolAt(G) == [group |-> G, nodes |-> Cardinality({n \in nodes : GroupOf(s, n) = G})]
           part == [g \in pools |-> {i \in on : In(i) = g.group}]
<1>0. target \in [on -> N] /\ \A i, j \in on : target[i] = target[j] => i = j
    BY DEF Injection, IsInjective
<1>1. pools = {PoolAt(G) : G \in groups}
    <2>1. DOMAIN target = on
        BY <1>0
    <2>2. Range(target) = nodes
        BY <2>1 DEF Range
    <2>3. QED BY <2>2, Zenon DEF PoolsOf
<1>2. groups = {In(i) : i \in on} \ {<<"", "">>}
    <2>1. ASSUME NEW G PROVE (\E n \in nodes : G = GroupOf(s, n)) <=> (\E i \in on : G = In(i))
        OBVIOUS
    <2>2. ASSUME NEW G PROVE G \in groups <=> G \in {In(i) : i \in on} \ {<<"", "">>}
        <3> HIDE DEF In, nodes
        <3>1. QED BY <2>1
    <2> HIDE DEF groups, In
    <2>3. QED BY <2>2
<1>3. IsFiniteSet(pools)
    <2>1. IsFiniteSet({In(i) : i \in on})
        <3> DEFINE T == {In(i) : i \in on}
        <3>1. ins \in Surjection(on, T)
            BY DEF Surjection
        <3> HIDE DEF ins, T
        <3>2. IsFiniteSet(T)
            BY <3>1, FS_Surjection
        <3>3. QED BY <3>2 DEF T
    <2>2. IsFiniteSet(groups)
        BY <1>2, <2>1, FS_Subset
    <2> HIDE DEF groups, PoolAt
    <2>3. IsFiniteSet({PoolAt(G) : G \in groups})
        <3> DEFINE pool == [G \in groups |-> PoolAt(G)]
               T == {PoolAt(G) : G \in groups}
        <3>1. pool \in Surjection(groups, T)
            BY DEF Surjection
        <3> HIDE DEF pool, T
        <3>2. IsFiniteSet(T)
            BY <2>2, <3>1, FS_Surjection
        <3>3. QED BY <3>2 DEF T
    <2>4. QED BY <1>1, <2>3
<1>4. ASSUME NEW g \in pools
      PROVE  g.group \in groups /\ g = PoolAt(g.group)
    <2>1. PICK G \in groups : g = PoolAt(G)
        BY <1>1, Zenon
    <2>2. PoolAt(G).group = G
        OBVIOUS
    <2> HIDE DEF PoolAt, groups
    <2>3. QED BY <2>1, <2>2
<1>5. \A g, h \in pools : g.group = h.group => g = h
    <2> HIDE DEF PoolAt, groups
    <2>1. QED BY <1>4
<1>6. ASSUME NEW g \in pools
      PROVE  IsFiniteSet(part[g]) /\ g.nodes = Cardinality(part[g])
    <2> DEFINE there == {n \in nodes : GroupOf(s, n) = g.group}
               mine == {i \in on : In(i) = g.group}
               at == [i \in mine |-> target[i]]
    <2>1. IsFiniteSet(mine)
        BY FS_Subset
    <2>2. at \in Bijection(mine, there)
        <3>1. at \in [mine -> there]
            OBVIOUS
        <3>2. \A i, j \in mine : at[i] = at[j] => i = j
            BY <1>0
        <3>3. \A n \in there : \E i \in mine : at[i] = n
            OBVIOUS
        <3> HIDE DEF at, mine, there
        <3>4. QED BY <3>1, <3>2, <3>3 DEF Bijection, Injection, Surjection, IsInjective
    <2>3. Cardinality(there) = Cardinality(mine)
        BY <2>1, <2>2, FS_Bijection DEF ExistsBijection
    <2>4. g.nodes = Cardinality(there)
        <3>1. PoolAt(g.group).nodes = Cardinality(there)
            OBVIOUS
        <3> HIDE DEF PoolAt, there, groups
        <3>2. QED BY <1>4, <3>1
    <2>5. part[g] = mine
        OBVIOUS
    <2> HIDE DEF part, mine, there
    <2>6. QED BY <2>1, <2>3, <2>4, <2>5
<1>7. \A g, h \in pools : g # h => part[g] \cap part[h] = {}
    BY <1>5
<1>8. ASSUME NEW i
      PROVE  (i \in on /\ In(i) # <<"", "">>) <=> \E g \in pools : i \in part[g]
    <2>1. \A g \in pools : g.group # <<"", "">> /\ (i \in part[g] <=> (i \in on /\ In(i) = g.group))
        BY <1>4
    <2>2. ASSUME i \in on, In(i) # <<"", "">> PROVE \E g \in pools : g.group = In(i)
        <3>1. In(i) \in groups
            BY <1>2, <2>2
        <3> HIDE DEF groups, In
        <3>2. PoolAt(In(i)) \in pools
            BY <1>1, <3>1
        <3>3. PoolAt(In(i)).group = In(i)
            OBVIOUS
        <3>4. QED BY <3>2, <3>3
    <2> HIDE DEF In, part
    <2>3. QED BY <2>1, <2>2
<1> DEFINE U == {i \in on : In(i) # <<"", "">>}
<1>9. Parted(pools, part, U)
    <2>1. \A g \in pools : IsFiniteSet(part[g])
        BY <1>6
    <2> HIDE DEF In, part
    <2>2. \A i : i \in U <=> \E g \in pools : i \in part[g]
        BY <1>8
    <2> HIDE DEF U
    <2>3. U = UNION {part[g] : g \in pools}
        <3>1. \A i : i \in UNION {part[g] : g \in pools} <=> \E g \in pools : i \in part[g]
            BY Zenon
        <3>2. \A i : i \in U <=> i \in UNION {part[g] : g \in pools}
            BY <2>2, <3>1, Zenon
        <3>3. QED BY <3>2, Zenon
    <2>4. QED BY <1>3, <1>7, <2>1, <2>3 DEF Parted
<1>10. [g \in pools |-> g.nodes] = [g \in pools |-> Cardinality(part[g])]
    <2> HIDE DEF part
    <2>1. QED BY <1>6
<1>11. SumFunction([g \in pools |-> Cardinality(part[g])]) = Cardinality(U)
    <2> HIDE DEF part, U
    <2>1. QED BY <1>9, SumOfCounts
<1>12. QED BY <1>10, <1>11 DEF NodesIn, InPool

(* The pods Build looks at, and the first in the list of those of a workload. *)
CountedPods(s) == {p \in PodsOf(s) : s.pod[p].phase # "Terminating" /\ s.pod[p].owner # "None"}
MembersOf(s, w) == {p \in CountedPods(s) : Workload(s.pod[p]) = w}
SampleIn(s, order, w) == order[Min({i \in DOMAIN order : order[i] \in MembersOf(s, w)})]
Advised(s, order) ==
    {w \in {Workload(s.pod[p]) : p \in CountedPods(s)} :
        s.pod[SampleIn(s, order, w)].owner # "DaemonSet" /\ ~NotYours(s.pod[SampleIn(s, order, w)])}

(* Advice is about a workload, or about a budget. *)
LEMMA AdviceIs ==
    ASSUME NEW s, NEW order, NEW f \in Build(s, order)
    PROVE  \/ \E w \in Advised(s, order) :
                 f \in AdviceFor(s, SampleIn(s, order, w), Cardinality(MembersOf(s, w)))
           \/ \E b \in s.budgets : f = Finding("ZeroHeadroomPDB", "high", BudgetSubject(b))
<1> DEFINE Of(w) == AdviceFor(s, SampleIn(s, order, w), Cardinality(MembersOf(s, w)))
           zero == {Finding("ZeroHeadroomPDB", "high", BudgetSubject(b)) : b \in {c \in s.budgets : Blocks(c)}}
<1>1. f \in UNION {Of(w) : w \in Advised(s, order)} \/ f \in zero
    <2> DEFINE all == UNION {Of(w) : w \in Advised(s, order)}
    <2>1. Build(s, order) = zero \cup all
        BY Zenon DEF Build, Advised, SampleIn, MembersOf, CountedPods
    <2> HIDE DEF all, zero
    <2>2. f \in all \/ f \in zero
        BY <2>1
    <2>3. QED BY <2>2 DEF all
<1> HIDE DEF Of
<1>2. CASE f \in zero
    BY <1>2, Zenon
<1>3. CASE f \in UNION {Of(w) : w \in Advised(s, order)}
    <2>1. PICK F \in {Of(w) : w \in Advised(s, order)} : f \in F
        BY <1>3, Zenon
    <2>2. PICK w \in Advised(s, order) : f \in Of(w)
        BY <2>1, Zenon
    <2>3. QED BY <2>2 DEF Of
<1>4. QED BY <1>1, <1>2, <1>3

(* One finding about a workload: it holds back no step, names the workload, and
   proposes something only if a budget is missing. *)
LEMMA AdviceForIs ==
    ASSUME NEW s, NEW p, NEW replicas, NEW f \in AdviceFor(s, p, replicas)
    PROVE  /\ f.unblocks = {} /\ f.subject = Workload(s.pod[p])
           /\ f.fix # {} => f.kind = "MissingPDB" /\ f.fix = SelectorLabel(s.pod[p])
           /\ f.kind = "MissingPDB" => ~Covered(s, s.pod[p])
<1> DEFINE w == Workload(s.pod[p])
           x == [Finding("MissingPDB", "medium", w) EXCEPT !.fix = SelectorLabel(s.pod[p])]
<1>1. \/ f = x /\ ~Covered(s, s.pod[p])
      \/ f = Finding("SingleReplica", "high", w)
      \/ f = Finding("MissingRequests", "high", w)
      \/ f = Finding("HandsOff", "info", w)
    BY DEF AdviceFor, If
<1>2. x.unblocks = {} /\ x.subject = w /\ x.kind = "MissingPDB" /\ x.fix = SelectorLabel(s.pod[p])
    BY DEF Finding
<1>3. \A kind, severity :
        LET y == Finding(kind, severity, w) IN y.unblocks = {} /\ y.subject = w /\ y.fix = {} /\ y.kind = kind
    BY DEF Finding
<1> HIDE DEF x, w
<1>4. QED BY <1>1, <1>2, <1>3 DEF w

(* The first of a workload in the list is one of the workload. *)
LEMMA SampleIsMember ==
    ASSUME NEW s, NEW order \in Seq(PodsOf(s)), \A p \in PodsOf(s) : \E i \in 1..Len(order) : order[i] = p,
           NEW w \in Advised(s, order)
    PROVE  Workload(s.pod[SampleIn(s, order, w)]) = w
<1> DEFINE places == {i \in DOMAIN order : order[i] \in MembersOf(s, w)}
<1>1. PICK p \in CountedPods(s) : Workload(s.pod[p]) = w
    BY DEF Advised
<1>2. p \in MembersOf(s, w) /\ p \in PodsOf(s)
    BY <1>1 DEF MembersOf, CountedPods
<1>3. PICK i \in 1..Len(order) : order[i] = p
    BY <1>2
<1>4. places \in SUBSET Nat /\ i \in places
    BY <1>2, <1>3
<1>5. Min(places) \in places
    BY <1>4, LeastNatural
<1>6. SampleIn(s, order, w) \in MembersOf(s, w)
    BY <1>5, Zenon DEF SampleIn
<1>7. QED BY <1>6 DEF MembersOf

(* A budget proposed for a pod covers it, whatever budgets there are beside. *)
LEMMA ProposalCovers ==
    ASSUME NEW s, NEW pod,
           [ns |-> pod.ns, selector |-> SelectorLabel(pod), allowed |-> 1] \in s.budgets
    PROVE  Covered(s, pod)
<1> DEFINE b == [ns |-> pod.ns, selector |-> SelectorLabel(pod), allowed |-> 1]
           present == {i \in DOMAIN IdentifyingLabels : IdentifyingLabels[i] \in DOMAIN pod.labels}
<1>1. b.ns = pod.ns /\ b.selector = SelectorLabel(pod)
    OBVIOUS
<1>2. ASSUME NEW r \in SelectorLabel(pod) PROVE RequirementHolds(r, pod.labels)
    <2> DEFINE key == IdentifyingLabels[Min(present)]
    <2>1. present # {} /\ r = [key |-> key, op |-> "In", values |-> {pod.labels[key]}]
        BY <1>2 DEF SelectorLabel
    <2>2. present \in SUBSET Nat
        BY DEF IdentifyingLabels
    <2>3. Min(present) \in present
        BY <2>1, <2>2, LeastNatural
    <2>4. key \in DOMAIN pod.labels
        BY <2>3, Zenon
    <2> HIDE DEF key
    <2>5. r.key = key /\ r.op = "In" /\ pod.labels[key] \in r.values
        BY <2>1
    <2>6. QED BY <2>4, <2>5 DEF RequirementHolds
<1> HIDE DEF b
<1>3. QED BY <1>1, <1>2 DEF Covered, Matches, b

(* A budget that lets one pod go takes no pod's mobility. *)
LEMMA OpenBudgetHarmless ==
    ASSUME NEW s, NEW b, ~Blocks(b), NEW t, t = [s EXCEPT !.budgets = @ \cup {b}],
           DOMAIN s = {"node", "pod", "budgets"}, NEW p \in PodsOf(s)
    PROVE  Analyze(t)[p].movable = Analyze(s)[p].movable
<1>1. t.node = s.node /\ t.pod = s.pod /\ t.budgets = s.budgets \cup {b}
    OBVIOUS
<1> DEFINE pod == s.pod[p]
           Open(cs) == \A c \in cs : ~c.blocking
<1>2. NodesOf(t) = NodesOf(s) /\ PodsOf(t) = PodsOf(s)
    BY <1>1 DEF NodesOf, PodsOf
<1>3. NodeConstraints(t, pod) = NodeConstraints(s, pod)
      /\ TaintToleranceConstraint(t, pod) = TaintToleranceConstraint(s, pod)
    BY <1>1, <1>2 DEF NodeConstraints, TaintToleranceConstraint
<1>4. Open(PdbConstraints(t, pod)) <=> Open(PdbConstraints(s, pod))
    <2>1. \A c \in Covering(t, pod) : c \in Covering(s, pod) \/ c = b
        BY <1>1 DEF Covering
    <2>2. \A c \in Covering(s, pod) : c \in Covering(t, pod)
        BY <1>1 DEF Covering
    <2>3. \A x : Constraint("PDB", TRUE, Blocks(x)).blocking = Blocks(x)
        BY Zenon DEF Constraint
    <2> DEFINE Pdb(x) == Constraint("PDB", TRUE, Blocks(x))
    <2>4. \A u : Open(PdbConstraints(u, pod)) <=> \A x \in Covering(u, pod) : ~Pdb(x).blocking
        BY Zenon DEF PdbConstraints
    <2> HIDE DEF Open
    <2>5. \A u : Open(PdbConstraints(u, pod)) <=> \A x \in Covering(u, pod) : ~Blocks(x)
        BY <2>3, <2>4, Zenon
    <2>6. QED BY <2>1, <2>2, <2>5, Zenon
<1>5. Open(ConstraintsOf(t, pod)) <=> Open(ConstraintsOf(s, pod))
    <2> DEFINE rest == PinningConstraints(pod) \cup {Constraint("Resources", TRUE, FALSE)}
                       \cup NodeConstraints(s, pod) \cup PodAffinityConstraints(pod)
                       \cup TopologySpreadConstraints(pod) \cup TaintToleranceConstraint(s, pod)
                       \cup If(pod.pvc, Constraint("PersistentVolume", FALSE, FALSE))
    <2>1. ConstraintsOf(s, pod) = PdbConstraints(s, pod) \cup rest
        BY DEF ConstraintsOf
    <2>2. ConstraintsOf(t, pod) = PdbConstraints(t, pod) \cup rest
        BY <1>3 DEF ConstraintsOf
    <2> HIDE DEF rest
    <2>3. QED BY <1>4, <2>1, <2>2, Zenon
<1>6. /\ Analyze(s)[p] = AnalyzePod(s, NewPlacementCeiling(s, 0), p)
      /\ Analyze(t)[p] = AnalyzePod(t, NewPlacementCeiling(t, 0), p)
    BY <1>2 DEF Analyze
<1>7. \A u, w : u.pod = s.pod =>
          AnalyzePod(u, w, p).movable = (IsMovable(pod) /\ Open(ConstraintsOf(u, pod)))
    BY Zenon DEF AnalyzePod
<1> HIDE DEF Open, pod
<1>8. QED BY <1>1, <1>5, <1>6, <1>7, Zenon

(* The recommendations can be worked off: they name the steps that are not Green
   and only those, each step touches what its finding is about, every node
   counted in a pool is a step's, advice ranks below every blocker, and a
   proposed budget, once applied, removes its finding and takes no pod's
   mobility (recommend.go, Queue). *)
THEOREM QueueAlwaysActionable == Spec => []QueueIsActionable
<1>1. ASSUME Shape, Permitted, Listing, TargetsOnce, phase = "done"
      PROVE  QueueIsActionable
    <2> DEFINE C == plan.steps
               recs == Queue(snap, list.pods, C)
               blockers == {f \in recs : f.unblocks # {}}
               found == FromPlanReasons(snap, C)
               advice == Build(snap, list.pods)
    <2>1. steps \in Seq(Steps) /\ snap = CachedSnapshot(cluster) /\ cluster \in Clusters
        BY <1>1 DEF Shape
    <2>2. analysis = Analyze(snap) /\ C = ClassifyPlan(snap, analysis, steps)
        BY <1>1 DEF Permitted
    <2>3. /\ DOMAIN C = 1..Len(steps)
          /\ \A i \in 1..Len(steps) :
                /\ C[i].target = steps[i].target /\ C[i].moves = steps[i].moves
                /\ C[i].reasons = ReasonsFor(snap, analysis, steps[i])
                /\ C[i].impact = RatingFor(C[i].reasons)
        BY <2>1, <2>2 DEF ClassifyPlan, ClassifyStep
    <2>4. Held(C) \subseteq 1..Len(steps) /\ IsFiniteSet(Held(C))
        <3>1. Held(C) \subseteq 1..Len(steps)
            BY <2>3 DEF Held
        <3>2. IsFiniteSet(1..Len(steps))
            BY <2>1, FS_Interval
        <3>3. QED BY <3>1, <3>2, FS_Subset
    <2>5. recs = found \cup advice
        BY DEF Queue
    <2>6. \A f \in advice : f.unblocks = {}
        <3> SUFFICES ASSUME NEW f \in advice PROVE f.unblocks = {}
            OBVIOUS
        <3>1. CASE \E b \in snap.budgets : f = Finding("ZeroHeadroomPDB", "high", BudgetSubject(b))
            BY <3>1 DEF Finding
        <3>2. QED BY <3>1, AdviceIs, AdviceForIs
    <2>7. ASSUME NEW f \in found
          PROVE  \E i \in Held(C) : \E r \in C[i].reasons :
                    /\ f.unblocks = HeldBy(snap, C, <<r.kind, SubjectOf(snap, r)>>)
                    /\ f.subject = SubjectOf(snap, r)
                    /\ f.pools = PoolsOf(snap, {C[j].target : j \in f.unblocks})
                    /\ f.fix = {} /\ i \in f.unblocks
        <3> HIDE DEF C
        <3>1. QED BY BlockerIs, ZenonT(40)
    <2>8. blockers = found
        BY <2>5, <2>6, <2>7
    <2>9. \A f \in found : f.unblocks \subseteq Held(C) /\ f.unblocks # {}
        BY <2>7 DEF HeldBy
    <2>10. ASSUME NEW i \in Held(C)
           PROVE  \E f \in found : i \in f.unblocks /\ (C[i].impact = "Red" => f.severity = "high")
        <3>1. RatingFor(C[i].reasons) # "Green"
            BY <2>3, <2>4 DEF Held
        <3>2. PICK r \in C[i].reasons : TRUE
            BY <3>1, RatedForReason
        <3> HIDE DEF C
        <3>3. QED BY BlockerFor
    <2>11. UNION {f.unblocks : f \in blockers} = Held(C)
        <3> HIDE DEF C, found
        <3>1. \A i : i \in UNION {f.unblocks : f \in found} <=> \E f \in found : i \in f.unblocks
            BY Zenon
        <3>2. \A i : (\E f \in found : i \in f.unblocks) <=> i \in Held(C)
            BY <2>9, <2>10
        <3>3. \A i : i \in UNION {f.unblocks : f \in found} <=> i \in Held(C)
            BY <3>1, <3>2, Zenon
        <3>4. UNION {f.unblocks : f \in found} = Held(C)
            BY <3>3, Zenon
        <3>5. QED BY <2>8, <3>4
    <2>12. ASSUME NEW i \in DOMAIN C, C[i].impact = "Red"
           PROVE  \E f \in blockers : i \in f.unblocks /\ f.severity = "high"
        <3>1. i \in Held(C)
            BY <2>12 DEF Held
        <3> HIDE DEF C, found, blockers
        <3>2. QED BY <2>8, <2>10, <2>12, <3>1
    <2>13. ASSUME NEW f \in found, NEW i \in f.unblocks
           PROVE  Touches(i, f.subject)
        <3>1. PICK r \in C[i].reasons : f.subject = SubjectOf(snap, r)
            <4>1. PICK x : f.unblocks = HeldBy(snap, C, <<x.kind, SubjectOf(snap, x)>>)
                           /\ f.subject = SubjectOf(snap, x)
                BY <2>7
            <4>2. PICK r \in C[i].reasons : <<r.kind, SubjectOf(snap, r)>> = <<x.kind, SubjectOf(snap, x)>>
                BY <4>1 DEF HeldBy
            <4>3. QED BY <4>1, <4>2
        <3>2. i \in 1..Len(steps)
            BY <2>4, <2>9
        <3>3. r \in ReasonsFor(snap, analysis, steps[i])
            BY <2>3, <3>1, <3>2
        <3>4. plan.steps[i].target = steps[i].target /\ plan.steps[i].moves = steps[i].moves
            BY <2>3, <3>2
        <3> DEFINE pod == snap.pod[r.subject]
        <3>5. CASE r.kind \in {"BlastRadius", "BlastRadiusHigh"} /\ r.subject = steps[i].target
            <4>1. SubjectOf(snap, r) = <<"node", r.subject>>
                BY <3>5 DEF SubjectOf
            <4>2. QED BY <3>1, <3>4, <3>5, <4>1 DEF Touches
        <3>6. CASE \E m \in Range(steps[i].moves) : /\ r.kind \in {"PDBZeroHeadroom", "PDBTightHeadroom"}
                                                    /\ r.subject \in Covering(snap, snap.pod[m.pod])
            <4>1. SubjectOf(snap, r) = <<"budget", r.subject>>
                BY <3>6 DEF SubjectOf, BudgetSubject
            <4>2. QED BY <3>1, <3>4, <3>6, <4>1 DEF Touches
        <3>7. CASE \E m \in Range(steps[i].moves) :
                      /\ r.kind \notin {"BlastRadius", "BlastRadiusHigh", "PDBZeroHeadroom", "PDBTightHeadroom"}
                      /\ r.subject = m.pod
            <4>1. PICK m \in Range(steps[i].moves) : r.subject = m.pod
                BY <3>7
            <4>2. SubjectOf(snap, r) = IF snap.pod[r.subject].owner = "None" THEN <<"pod", r.subject>>
                                                                            ELSE Workload(snap.pod[r.subject])
                BY <3>7 DEF SubjectOf
            <4>3. CASE snap.pod[r.subject].owner = "None"
                BY <3>1, <3>4, <4>1, <4>2, <4>3 DEF Touches
            <4>4. CASE snap.pod[r.subject].owner # "None"
                <5>1. f.subject = Workload(snap.pod[m.pod]) /\ f.subject[1] = "workload"
                    BY <3>1, <4>1, <4>2, <4>4 DEF Workload
                <5>2. QED BY <3>4, <5>1 DEF Touches
            <4>5. QED BY <4>3, <4>4
        <3>8. QED BY <3>3, <3>5, <3>6, <3>7, ReasonIsReal
    <2>14. ASSUME NEW f \in found
           PROVE  SumFunction([g \in f.pools |-> g.nodes])
                      = Cardinality({i \in f.unblocks : GroupOf(snap, plan.steps[i].target) # <<"", "">>})
        <3> DEFINE on == f.unblocks
                   target == [i \in on |-> C[i].target]
        <3>1. on \subseteq 1..Len(steps) /\ IsFiniteSet(on)
            BY <2>4, <2>9, FS_Subset
        <3>2. DOMAIN target = on /\ \A i \in on : target[i] = C[i].target /\ C[i].target = steps[i].target
            BY <2>3, <3>1
        <3>3. \A i, j \in on : target[i] = target[j] => i = j
            BY <1>1, <3>1, <3>2 DEF TargetsOnce
        <3>4. {C[j].target : j \in on} = Range(target)
            BY <3>2 DEF Range
        <3>5. f.pools = PoolsOf(snap, Range(target))
            BY <2>7, <3>4
        <3>6. target \in Injection(on, Range(target))
            BY <3>3 DEF Injection, IsInjective, Range
        <3> HIDE DEF target, C
        <3>7. NodesIn(f.pools) = Cardinality(InPool(snap, on, target))
            BY <3>1, <3>5, <3>6, PoolsCountSteps
        <3>8. InPool(snap, on, target) = {i \in on : GroupOf(snap, plan.steps[i].target) # <<"", "">>}
            BY <3>2 DEF C, InPool
        <3>9. QED BY <3>7, <3>8 DEF NodesIn
    <2>15. ASSUME NEW f \in found, NEW g \in recs \ blockers PROVE Ahead(f, g)
        <3>1. g.unblocks = {} /\ Cardinality(g.unblocks) = 0
            BY FS_EmptySet
        <3>2. IsFiniteSet(f.unblocks) /\ Cardinality(f.unblocks) \in Nat /\ Cardinality(f.unblocks) # 0
            BY <2>4, <2>9, FS_Subset, FS_CardinalityType, FS_EmptySet
        <3>3. QED BY <3>1, <3>2 DEF Ahead
    <2>16. ASSUME NEW f \in recs, f.fix # {}
           PROVE  /\ ~\E g \in Build(Followed(f), list.pods) : g.kind = f.kind /\ g.subject = f.subject
                  /\ \A p \in PodsOf(snap) : Analyze(Followed(f))[p].movable = analysis[p].movable
        <3> DEFINE t == Followed(f)
                   b == [ns |-> f.subject[2], selector |-> f.fix, allowed |-> 1]
                   order == list.pods
        <3>1. DOMAIN snap = {"node", "pod", "budgets"}
            BY <2>1 DEF CachedSnapshot
        <3>2. t = [snap EXCEPT !.budgets = @ \cup {b}] /\ ~Blocks(b)
            BY DEF Followed, Blocks
        <3>3. t.node = snap.node /\ t.pod = snap.pod /\ t.budgets = snap.budgets \cup {b}
            BY <3>1, <3>2
        <3>4. f \in advice /\ f.kind # "ZeroHeadroomPDB"
              /\ \E w \in Advised(snap, order) :
                    f \in AdviceFor(snap, SampleIn(snap, order, w), Cardinality(MembersOf(snap, w)))
            <4>1. f \in advice
                BY <2>5, <2>7, <2>16
            <4>2. \A c : Finding("ZeroHeadroomPDB", "high", BudgetSubject(c)).fix = {}
                BY DEF Finding
            <4>3. PICK w \in Advised(snap, order) :
                    f \in AdviceFor(snap, SampleIn(snap, order, w), Cardinality(MembersOf(snap, w)))
                BY <2>16, <4>1, <4>2, AdviceIs
            <4>4. f.kind = "MissingPDB"
                BY <2>16, <4>3, AdviceForIs
            <4>5. QED BY <4>1, <4>3, <4>4
        <3>5. PICK w \in Advised(snap, order) :
                  f \in AdviceFor(snap, SampleIn(snap, order, w), Cardinality(MembersOf(snap, w)))
            BY <3>4
        <3> DEFINE pod == snap.pod[SampleIn(snap, order, w)]
        <3>6. f.kind = "MissingPDB" /\ f.subject = Workload(pod) /\ f.fix = SelectorLabel(pod)
            BY <2>16, <3>5, AdviceForIs
        <3>7. \A u \in Advised(snap, order) : Workload(snap.pod[SampleIn(snap, order, u)]) = u
            BY <1>1, SampleIsMember DEF Listing
        <3>8. f.subject[2] = pod.ns /\ b = [ns |-> pod.ns, selector |-> SelectorLabel(pod), allowed |-> 1]
            BY <3>6 DEF Workload
        <3>9. Covered(t, pod)
            <4>1. [ns |-> pod.ns, selector |-> SelectorLabel(pod), allowed |-> 1] \in t.budgets
                BY <3>3, <3>8
            <4> HIDE DEF t, pod
            <4>2. QED BY <4>1, ProposalCovers
        <3>10. /\ \A u : MembersOf(t, u) = MembersOf(snap, u)
               /\ \A u : SampleIn(t, order, u) = SampleIn(snap, order, u)
               /\ Advised(t, order) = Advised(snap, order)
            BY <3>3, Zenon DEF MembersOf, SampleIn, Advised, CountedPods, PodsOf
        <3>11. ASSUME NEW g \in Build(t, order), g.kind = f.kind, g.subject = f.subject PROVE FALSE
            <4>1. \A c : Finding("ZeroHeadroomPDB", "high", BudgetSubject(c)).kind = "ZeroHeadroomPDB"
                BY DEF Finding
            <4>2. PICK u \in Advised(t, order) :
                      g \in AdviceFor(t, SampleIn(t, order, u), Cardinality(MembersOf(t, u)))
                BY <3>4, <3>11, <4>1, AdviceIs
            <4>3. g.subject = Workload(t.pod[SampleIn(t, order, u)]) /\ ~Covered(t, t.pod[SampleIn(t, order, u)])
                BY <3>6, <3>11, <4>2, AdviceForIs
            <4>4. g.subject = u /\ f.subject = w
                BY <3>3, <3>6, <3>7, <3>10, <4>2, <4>3
            <4>5. t.pod[SampleIn(t, order, u)] = pod
                BY <3>3, <3>10, <3>11, <4>4
            <4>6. QED BY <3>9, <4>3, <4>5
        <3>12. \A p \in PodsOf(snap) : Analyze(t)[p].movable = Analyze(snap)[p].movable
            <4> HIDE DEF t, b
            <4>1. QED BY <3>1, <3>2, OpenBudgetHarmless
        <3>13. QED BY <2>2, <3>11, <3>12
    <2>17. ASSUME NEW f \in blockers
           PROVE  /\ \A i \in f.unblocks : Touches(i, f.subject)
                  /\ SumFunction([g \in f.pools |-> g.nodes])
                        = Cardinality({i \in f.unblocks : GroupOf(snap, plan.steps[i].target) # <<"", "">>})
                  /\ \A g \in recs \ blockers : Ahead(f, g)
        <3> HIDE DEF blockers, found, recs
        <3>1. f \in found
            BY <2>8
        <3>2. QED BY <2>13, <2>14, <2>15, <3>1
    <2> HIDE DEF blockers, recs, C
    <2>18. QED BY <2>11, <2>12, <2>16, <2>17, Zenon DEF QueueIsActionable, blockers, recs, C
<1>2. Shape /\ Permitted /\ Listing /\ TargetsOnce => QueueIsActionable
    BY <1>1 DEF QueueIsActionable
<1>3. QED BY <1>2, BooksKept, AnalysisKept, ListingKept, PTL

-----------------------------------------------------------------------------
(* One plan, whatever the order of the lists. The orders leave nothing to the *)
(* list, so a planning is a function of the snapshot and the options.         *)

(* Any two are ordered, and one way only. *)
StrictTotal(S, less) ==
    \A x, y \in S : /\ x # y => <<x, y>> \in less \/ <<y, x>> \in less
                    /\ ~(<<x, y>> \in less /\ <<y, x>> \in less)

InOrder(q, less) == \A i, j \in DOMAIN q : i < j => <<q[i], q[j]>> \in less
TheSort(S, less) == CHOOSE q \in SX!SetToSeqs(S) : InOrder(q, less)

(* Two sorted lists of the same things agree: at the first place where they
   differ, each has something that comes later in the other. *)
LEMMA SortedOnce ==
    ASSUME NEW S, IsFiniteSet(S), NEW less, StrictTotal(S, less),
           NEW q \in SX!SetToSeqs(S), InOrder(q, less), NEW r \in SX!SetToSeqs(S), InOrder(r, less)
    PROVE  q = r
<1> DEFINE N == Cardinality(S)
           D == {i \in 1..N : q[i] # r[i]}
<1>1. N \in Nat /\ SX!Cardinality(S) = N
    BY FS_CardinalityType DEF SX!Cardinality, Cardinality
<1>2. q \in [1..N -> S] /\ r \in [1..N -> S]
    BY <1>1 DEF SX!SetToSeqs
<1> HIDE DEF N
<1>3. Len(q) = N /\ Len(r) = N
    BY <1>1, <1>2
<1>4. /\ \A i, j \in 1..N : q[i] = q[j] => i = j
      /\ \A i, j \in 1..N : r[i] = r[j] => i = j
      /\ \A x \in S : \E i \in 1..N : q[i] = x
      /\ \A x \in S : \E i \in 1..N : r[i] = x
    <2>1. /\ \A i, j \in 1..Len(q) : q[i] = q[j] => i = j
          /\ \A x \in S : \E i \in 1..Len(q) : q[i] = x
        BY ListsAll
    <2>2. /\ \A i, j \in 1..Len(r) : r[i] = r[j] => i = j
          /\ \A x \in S : \E i \in 1..Len(r) : r[i] = x
        BY ListsAll
    <2>3. QED BY <1>3, <2>1, <2>2
<1>5. /\ \A i, j \in 1..N : i < j => <<q[i], q[j]>> \in less
      /\ \A i, j \in 1..N : i < j => <<r[i], r[j]>> \in less
    BY <1>2 DEF InOrder
<1>6. SUFFICES ASSUME D # {} PROVE FALSE
    <2>1. D = {} => \A i \in 1..N : q[i] = r[i]
        OBVIOUS
    <2>2. (\A i \in 1..N : q[i] = r[i]) => q = r
        <3>1. q = [i \in 1..N |-> q[i]] /\ r = [i \in 1..N |-> r[i]]
            BY <1>2
        <3>2. QED BY <3>1, Zenon
    <2> HIDE DEF D
    <2>3. QED BY <2>1, <2>2
<1>7. PICK m \in D : \A i \in D : m <= i
    <2>1. D \in SUBSET Nat
        BY <1>1
    <2>2. QED BY <1>6, <2>1, LeastNatural
<1>8. m \in 1..N /\ q[m] \in S /\ r[m] \in S /\ q[m] # r[m]
    BY <1>2, <1>7
<1>9. \A i \in 1..N : i < m => q[i] = r[i]
    BY <1>1, <1>7, <1>8
<1>10. PICK j \in 1..N : r[j] = q[m]
    BY <1>4, <1>8
<1>11. PICK k \in 1..N : q[k] = r[m]
    BY <1>4, <1>8
<1>12. m < j
    <2>1. j # m
        BY <1>8, <1>10
    <2>2. ~(j < m)
        BY <1>4, <1>8, <1>9, <1>10, <2>1
    <2>3. QED BY <1>1, <1>8, <2>1, <2>2
<1>13. m < k
    <2>1. k # m
        BY <1>8, <1>11
    <2>2. ~(k < m)
        BY <1>4, <1>8, <1>9, <1>11, <2>1
    <2>3. QED BY <1>1, <1>8, <2>1, <2>2
<1>14. <<r[m], q[m]>> \in less /\ <<q[m], r[m]>> \in less
    BY <1>5, <1>8, <1>10, <1>11, <1>12, <1>13
<1>15. QED BY <1>8, <1>14 DEF StrictTotal

(* So a stable sort by such an order has one result. *)
LEMMA SortIsUnique ==
    ASSUME NEW S, IsFiniteSet(S), NEW less, StrictTotal(S, less), NEW order,
           NEW q \in StableSorts(S, order, less)
    PROVE  q = TheSort(S, less)
<1>1. q \in SX!SetToSeqs(S)
      /\ \A i, j \in DOMAIN q : i < j => <<q[i], q[j]>> \in less \/ <<q[j], q[i]>> \notin less
    BY DEF StableSorts
<1>2. q \in Seq(S) /\ \A i, j \in 1..Len(q) : q[i] = q[j] => i = j
    BY <1>1, ListsAll
<1>3. InOrder(q, less)
    <2> SUFFICES ASSUME NEW i \in DOMAIN q, NEW j \in DOMAIN q, i < j PROVE <<q[i], q[j]>> \in less
        BY DEF InOrder
    <2>1. q[i] \in S /\ q[j] \in S /\ q[i] # q[j]
        BY <1>2
    <2>2. QED BY <1>1, <2>1 DEF StrictTotal
<1>4. TheSort(S, less) \in SX!SetToSeqs(S) /\ InOrder(TheSort(S, less), less)
    <2>1. \E r \in SX!SetToSeqs(S) : InOrder(r, less)
        BY <1>1, <1>3
    <2>2. QED BY <2>1, Zenon DEF TheSort
<1>5. QED BY <1>1, <1>3, <1>4, SortedOnce

(* Ratios are compared by cross-multiplying integers. *)
Ratios == Int \X Int

(* A strict comparison goes one way only. *)
LEMMA LowerOneWay ==
    ASSUME NEW a \in Ratios, NEW b \in Ratios
    PROVE  ~(Lower(a, b) /\ Lower(b, a))
<1>1. a[1] \in Int /\ a[2] \in Int /\ b[1] \in Int /\ b[2] \in Int
    BY DEF Ratios
<1> DEFINE x == a[1] * b[2]
           y == b[1] * a[2]
<1>2. x \in Int /\ y \in Int
    BY <1>1
<1>3. (Lower(a, b) <=> x < y) /\ (Lower(b, a) <=> y < x)
    BY DEF Lower
<1> HIDE DEF x, y
<1>4. QED BY <1>2, <1>3

(* What the sorts compare is a ratio of integers. *)
LEMMA DominantIsRatio ==
    ASSUME NEW r, NEW c, r.cpu \in Int, r.slots \in Int, c.cpu \in Int, c.slots \in Int
    PROVE  DominantRatio(r, c) \in Ratios
<1>1. Ratio(r.cpu, c.cpu) \in Ratios /\ Ratio(r.slots, c.slots) \in Ratios
    BY DEF Ratio, Ratios
<1>2. QED BY <1>1 DEF DominantRatio

(* Ratios, then names. *)
Outranks(rx, ry, x, y) == Lower(rx, ry) \/ (~Lower(ry, rx) /\ x < y)

(* With names last, any two different things are ordered, and one way only. *)
LEMMA NamesBreakTies ==
    ASSUME NEW x \in Int, NEW y \in Int, NEW rx \in Ratios, NEW ry \in Ratios
    PROVE  /\ x # y => Outranks(rx, ry, x, y) \/ Outranks(ry, rx, y, x)
           /\ ~(Outranks(rx, ry, x, y) /\ Outranks(ry, rx, y, x))
<1>1. ~(Lower(rx, ry) /\ Lower(ry, rx))
    BY LowerOneWay
<1>2. (x # y => x < y \/ y < x) /\ ~(x < y /\ y < x)
    OBVIOUS
<1>3. QED BY <1>1, <1>2 DEF Outranks

(* sortNodesForDraining leaves no tie. *)
LEMMA EmptierTotal ==
    ASSUME Sized(snap), NodesOf(snap) \subseteq Int, NEW w, Solvent(snap, w)
    PROVE  StrictTotal(DrainCandidates, {e \in DrainCandidates \X DrainCandidates : Emptier(w, e[1], e[2])})
<1> DEFINE L == {e \in DrainCandidates \X DrainCandidates : Emptier(w, e[1], e[2])}
<1>1. ASSUME NEW n \in NodesOf(snap) PROVE RequestedRatio(w, n) \in Ratios
    <2> DEFINE a == Allocatable(snap, n)
               f == w.free[n]
    <2>1. a.cpu \in Nat /\ a.slots \in Nat /\ f.cpu \in Nat /\ f.slots \in Nat
        BY DEF Sized, Allocatable, Solvent, Amounts
    <2>2. Minus(a, f).cpu \in Int /\ Minus(a, f).slots \in Int
        BY <2>1 DEF Minus, AtLeastZero
    <2> HIDE DEF a, f
    <2>3. DominantRatio(Minus(a, f), a) \in Ratios
        BY <2>1, <2>2, DominantIsRatio
    <2>4. QED BY <2>3 DEF RequestedRatio, a, f
<1>2. \A n, m : Emptier(w, n, m) <=> Outranks(RequestedRatio(w, n), RequestedRatio(w, m), n, m)
    BY DEF Emptier, Outranks
<1>3. DrainCandidates \subseteq NodesOf(snap)
    BY DEF DrainCandidates
<1>4. \A n, m \in DrainCandidates : <<n, m>> \in L <=> Emptier(w, n, m)
    OBVIOUS
<1> HIDE DEF L
<1>5. ASSUME NEW n \in DrainCandidates, NEW m \in DrainCandidates
      PROVE  /\ n # m => <<n, m>> \in L \/ <<m, n>> \in L
             /\ ~(<<n, m>> \in L /\ <<m, n>> \in L)
    <2>1. n \in Int /\ m \in Int /\ RequestedRatio(w, n) \in Ratios /\ RequestedRatio(w, m) \in Ratios
        BY <1>1, <1>3
    <2>2. /\ n # m => Emptier(w, n, m) \/ Emptier(w, m, n)
          /\ ~(Emptier(w, n, m) /\ Emptier(w, m, n))
        BY <1>2, <2>1, NamesBreakTies
    <2>3. QED BY <1>4, <2>2
<1>6. QED BY <1>5 DEF StrictTotal, L

(* sortPodsBySizeDesc leaves no tie. *)
LEMMA LargerTotal ==
    ASSUME Sized(snap), PodsOf(snap) \subseteq Int, NEW S, S \subseteq PodsOf(snap)
    PROVE  StrictTotal(S, {e \in S \X S : Larger(e[1], e[2])})
<1> DEFINE L == {e \in S \X S : Larger(e[1], e[2])}
<1>1. \A p, q \in S : <<p, q>> \in L <=> Larger(p, q)
    OBVIOUS
<1>2. ASSUME NEW p \in S, NEW q \in S
      PROVE  (p # q => Larger(p, q) \/ Larger(q, p)) /\ ~(Larger(p, q) /\ Larger(q, p))
    <2>1. p \in Int /\ q \in Int /\ snap.pod[p].cpu \in Nat /\ snap.pod[q].cpu \in Nat
        BY DEF Sized
    <2>2. QED BY <2>1 DEF Larger
<1> HIDE DEF L
<1>3. StrictTotal(S, L)
    BY <1>1, <1>2 DEF StrictTotal
<1>4. QED BY <1>3 DEF L

(* firstFit finds one node at most. *)
LEMMA FirstFitOnce ==
    ASSUME Sized(snap), NodesOf(snap) \subseteq Int, NEW w, Solvent(snap, w), Assigned(snap, w), NEW p,
           NEW n \in FirstFit(w, p), NEW m \in FirstFit(w, p)
    PROVE  n = m
<1>1. n \in NodesOf(snap) /\ m \in NodesOf(snap)
    BY DEF FirstFit, Scanned
<1>2. n # m => /\ Outranks(FreeShare(w, n), FreeShare(w, m), n, m)
               /\ Outranks(FreeShare(w, m), FreeShare(w, n), m, n)
    BY DEF FirstFit, Outranks
<1>3. ASSUME NEW k \in NodesOf(snap) PROVE FreeShare(w, k) \in Ratios
    <2> DEFINE f == w.free[k]
               there == SumNeed(snap, Occupants(w, k))
               both == Plus(f, there)
    <2>1. Occupants(w, k) \subseteq PodsOf(snap)
        BY DEF Occupants, Assigned
    <2>2. there.cpu \in Nat /\ there.slots \in Nat
        BY <2>1, NeedsTogether
    <2>3. f.cpu \in Nat /\ f.slots \in Nat
        BY DEF Solvent, Amounts
    <2> HIDE DEF f, there
    <2>4. both.cpu \in Nat /\ both.slots \in Nat
        BY <2>2, <2>3 DEF Plus
    <2> HIDE DEF both
    <2>5. DominantRatio(f, both) \in Ratios
        BY <2>3, <2>4, DominantIsRatio
    <2>6. QED BY <2>5 DEF FreeShare, f, there, both
<1>4. FreeShare(w, n) \in Ratios /\ FreeShare(w, m) \in Ratios /\ n \in Int /\ m \in Int
    BY <1>1, <1>3
<1>5. QED BY <1>2, <1>4, NamesBreakTies

(* What a planning has in hand. *)
State(ph, an, wo, qu, dr, tr, to, mo, ma, st, al, pl) ==
    [phase |-> ph, analysis |-> an, work |-> wo, queue |-> qu, drained |-> dr, trial |-> tr,
     toMove |-> to, moves |-> mo, made |-> ma, steps |-> st, reclaimable |-> al, plan |-> pl]

Current == State(phase, analysis, work, queue, drained, trial, toMove, moves, made, steps,
                 alreadyReclaimable, plan)
Fresh == State("listed", <<>>, <<>>, <<>>, {}, <<>>, <<>>, <<>>, 0, <<>>, 0, NoPlan)

(* What the turns look at. *)
OpenAt(x) == opts.maxSteps = 0 \/ Len(x.steps) < opts.maxSteps
HereAt(x) == {p \in Occupants(x.work, Head(x.queue)) : IsMovable(snap.pod[p])}
RefusedAt(x) == \E p \in HereAt(x) : snap.pod[p].ns \in ExcludeNamespaces \/ ~x.analysis[p].movable
ScannedAt(x) == NodesOf(snap) \ ({Head(x.queue)} \cup x.drained)
FitAt(x) ==
    LET fitting == {n \in ScannedAt(x) : CanPlace(snap, x.trial, Head(x.toMove), n)}
    IN  {n \in fitting : \A m \in fitting \ {n} :
            Outranks(FreeShare(x.trial, n), FreeShare(x.trial, m), n, m)}

(* The turns, from what is in hand to what is in hand next. *)
AfterStart(x) ==
    State("packing", Analyze(snap), FirstPlaced,
          TheSort(DrainCandidates, {e \in DrainCandidates \X DrainCandidates : Emptier(FirstPlaced, e[1], e[2])}),
          x.drained, x.trial, x.toMove, x.moves, x.made, x.steps, x.reclaimable, x.plan)

AfterSkip(x) ==
    State(x.phase, x.analysis, x.work, Tail(x.queue), x.drained \cup {Head(x.queue)}, x.trial, x.toMove,
          x.moves, x.made, x.steps,
          x.reclaimable + (IF CountsAsReclaimable(Head(x.queue)) THEN 1 ELSE 0), x.plan)

AfterBegin(x) ==
    State("trial", x.analysis, x.work, x.queue, x.drained, x.work,
          TheSort(HereAt(x), {e \in HereAt(x) \X HereAt(x) : Larger(e[1], e[2])}),
          <<>>, x.made, x.steps, x.reclaimable, x.plan)

AfterRefuse(x) ==
    State(x.phase, x.analysis, x.work, Tail(x.queue), x.drained, x.trial, x.toMove, x.moves, x.made,
          x.steps, x.reclaimable, x.plan)

AfterRelocate(x) ==
    LET p == Head(x.toMove)
        n == CHOOSE k \in FitAt(x) : TRUE
        scanned == Memoise(snap, x.trial, Questions(snap, x.trial, p, ScannedAt(x)))
    IN  State(x.phase, x.analysis, x.work, x.queue, x.drained,
              Place(snap, Remove(snap, scanned, p), p, n), Tail(x.toMove),
              Append(x.moves, [pod |-> p, from |-> Head(x.queue), to |-> n]),
              x.made, x.steps, x.reclaimable, x.plan)

AfterAbandon(x) ==
    State("packing", x.analysis, x.work, Tail(x.queue), x.drained, <<>>, <<>>, <<>>, x.made, x.steps,
          x.reclaimable, x.plan)

AfterCommitMove(x) ==
    State(x.phase, x.analysis, Committed(x.work, x.moves[x.made + 1]), x.queue, x.drained, x.trial,
          x.toMove, x.moves, x.made + 1, x.steps, x.reclaimable, x.plan)

AfterCommit(x) ==
    State("packing", x.analysis, x.work, Tail(x.queue), x.drained \cup {Head(x.queue)}, <<>>, x.toMove,
          <<>>, 0, Append(x.steps, [target |-> Head(x.queue), moves |-> x.moves]), x.reclaimable, x.plan)

AfterFinish(x) ==
    State("done", x.analysis, x.work, x.queue, x.drained, x.trial, x.toMove, x.moves, x.made, x.steps,
          x.reclaimable,
          [id |-> x.steps,
           steps |-> ClassifyPlan(snap, x.analysis, x.steps),
           nodesBefore |-> Cardinality(OccupiedInSnapshot(snap)),
           nodesAfter |-> Cardinality(OccupiedInSnapshot(snap)) - Len(x.steps) - x.reclaimable,
           alreadyReclaimable |-> x.reclaimable])

(* The next turn is determined. A plan that is done stays. *)
PackingTurn(x) ==
    IF x.queue = <<>> \/ ~OpenAt(x) THEN AfterFinish(x)
    ELSE IF IsEmpty(snap, x.work, Head(x.queue)) THEN AfterSkip(x)
    ELSE IF RefusedAt(x) THEN AfterRefuse(x) ELSE AfterBegin(x)

TrialTurn(x) ==
    IF x.toMove # <<>> THEN (IF FitAt(x) = {} THEN AfterAbandon(x) ELSE AfterRelocate(x))
    ELSE IF x.made < Len(x.moves) THEN AfterCommitMove(x) ELSE AfterCommit(x)

Turn(x) ==
    IF x.phase = "listed" THEN AfterStart(x)
    ELSE IF x.phase = "packing" THEN PackingTurn(x)
    ELSE IF x.phase = "trial" THEN TrialTurn(x) ELSE x

(* What planning reaches, turn after turn. *)
Runs(t, n) == t[0] = Fresh /\ \A i \in Nat : i < n => t[i + 1] = Turn(t[i])
Reached(x) == \E n \in Nat : \E t : Runs(t, n) /\ t[n] = x

(* Between trials nothing of one is left, and a trial's resources are not
   overdrawn. *)
Idle ==
    /\ phase # "trial" => trial = <<>> /\ toMove = <<>> /\ moves = <<>> /\ made = 0
    /\ phase = "trial" => Solvent(snap, trial)
    /\ phase = "listed" => Current = Fresh

(* The planning under way is on the one path, and so was the one before. *)
OnThePath ==
    /\ Reached(Current)
    /\ prior # NoPlan => \E x : Reached(x) /\ x.phase = "done" /\ x.plan = prior

(* The fields of a state are what it was made of. *)
LEMMA StateFields ==
    ASSUME NEW ph, NEW an, NEW wo, NEW qu, NEW dr, NEW tr, NEW to, NEW mo, NEW ma, NEW st, NEW al, NEW pl,
           NEW x, x = State(ph, an, wo, qu, dr, tr, to, mo, ma, st, al, pl)
    PROVE  /\ x.phase = ph /\ x.analysis = an /\ x.work = wo /\ x.queue = qu /\ x.drained = dr
           /\ x.trial = tr /\ x.toMove = to /\ x.moves = mo /\ x.made = ma /\ x.steps = st
           /\ x.reclaimable = al /\ x.plan = pl
    BY DEF State

(* The fields of the packer's state are its variables. *)
LEMMA CurrentFields ==
    /\ Current.phase = phase /\ Current.analysis = analysis /\ Current.work = work
    /\ Current.queue = queue /\ Current.drained = drained /\ Current.trial = trial
    /\ Current.toMove = toMove /\ Current.moves = moves /\ Current.made = made
    /\ Current.steps = steps /\ Current.reclaimable = alreadyReclaimable /\ Current.plan = plan
    BY DEF Current, State

(* The same snapshot and options make the same turns. *)
LEMMA TurnKept ==
    ASSUME snap' = snap, opts' = opts, NEW CONSTANT x
    PROVE  Turn(x)' = Turn(x)
<1>1. /\ OpenAt(x)' = OpenAt(x) /\ HereAt(x)' = HereAt(x) /\ ScannedAt(x)' = ScannedAt(x)
      /\ DrainCandidates' = DrainCandidates /\ FirstPlaced' = FirstPlaced
    BY DEF OpenAt, HereAt, ScannedAt, DrainCandidates, NodeExcluded, FirstPlaced
<1>2. RefusedAt(x)' = RefusedAt(x)
    BY <1>1, Zenon DEF RefusedAt
<1>3. \A w, n : FreeShare(w, n)' = FreeShare(w, n)
    BY Zenon DEF FreeShare
<1>4. FitAt(x)' = FitAt(x)
    BY <1>1, <1>3, Zenon DEF FitAt
<1>5. \A w, n, m : Emptier(w, n, m)' = Emptier(w, n, m)
    BY Zenon DEF Emptier, RequestedRatio
<1>6. \A p, q : Larger(p, q)' = Larger(p, q)
    BY Zenon DEF Larger
<1>7. \A n : CountsAsReclaimable(n)' = CountsAsReclaimable(n)
    BY Zenon DEF CountsAsReclaimable
<1>8. \A w, m : Committed(w, m)' = Committed(w, m)
    BY Zenon DEF Committed
<1>9. AfterStart(x)' = AfterStart(x)
    BY <1>1, <1>5, Zenon DEF AfterStart
<1>10. AfterSkip(x)' = AfterSkip(x)
    BY <1>7, Zenon DEF AfterSkip
<1>11. AfterBegin(x)' = AfterBegin(x)
    BY <1>1, <1>6, Zenon DEF AfterBegin
<1>12. AfterRelocate(x)' = AfterRelocate(x)
    BY <1>1, <1>4, Zenon DEF AfterRelocate
<1>13. AfterCommitMove(x)' = AfterCommitMove(x)
    BY <1>8, Zenon DEF AfterCommitMove
<1>14. AfterFinish(x)' = AfterFinish(x)
    BY Zenon DEF AfterFinish
<1>15. AfterRefuse(x)' = AfterRefuse(x) /\ AfterAbandon(x)' = AfterAbandon(x) /\ AfterCommit(x)' = AfterCommit(x)
    BY Zenon DEF AfterRefuse, AfterAbandon, AfterCommit
<1>16. PackingTurn(x)' = PackingTurn(x)
    BY <1>1, <1>2, <1>10, <1>11, <1>14, <1>15, Zenon DEF PackingTurn
<1>17. TrialTurn(x)' = TrialTurn(x)
    BY <1>4, <1>12, <1>13, <1>15, Zenon DEF TrialTurn
<1>18. QED BY <1>9, <1>16, <1>17, Zenon DEF Turn

(* What has been reached stays reached. *)
LEMMA ReachedKept ==
    ASSUME snap' = snap, opts' = opts, NEW CONSTANT x, Reached(x)
    PROVE  Reached(x)'
<1>1. PICK n, t : n \in Nat /\ Runs(t, n) /\ t[n] = x
    BY DEF Reached
<1>2. \A i \in Nat : Turn(t[i])' = Turn(t[i])
    BY TurnKept
<1>3. Runs(t, n)'
    BY <1>1, <1>2, Zenon DEF Runs
<1>4. QED BY <1>1, <1>3 DEF Reached

(* One turn further is reached as well. *)
LEMMA ReachedNext ==
    ASSUME NEW x, Reached(x)
    PROVE  Reached(Turn(x))
<1>1. PICK n, t : n \in Nat /\ Runs(t, n) /\ t[n] = x
    BY DEF Reached
<1> DEFINE u == [i \in Nat |-> IF i <= n THEN t[i] ELSE Turn(x)]
<1>2. t[0] = Fresh /\ \A i \in Nat : i < n => t[i + 1] = Turn(t[i])
    BY <1>1 DEF Runs
<1>3. u[0] = Fresh /\ u[n + 1] = Turn(x) /\ \A i \in Nat : i <= n => u[i] = t[i]
    BY <1>1, <1>2
<1> HIDE DEF u
<1>4. ASSUME NEW i \in Nat, i < n + 1 PROVE u[i + 1] = Turn(u[i])
    <2>1. CASE i < n
        <3>1. u[i] = t[i] /\ u[i + 1] = t[i + 1]
            BY <1>1, <1>3, <2>1
        <3>2. QED BY <1>2, <2>1, <3>1
    <2>2. CASE i = n
        <3>1. u[i] = x
            BY <1>1, <1>3, <2>2
        <3>2. QED BY <1>3, <2>2, <3>1
    <2>3. QED BY <1>1, <1>4, <2>1, <2>2
<1>5. Runs(u, n + 1)
    BY <1>3, <1>4 DEF Runs
<1>6. n + 1 \in Nat
    BY <1>1
<1>7. QED BY <1>3, <1>5, <1>6 DEF Reached

(* Two paths agree as far as both go. *)
LEMMA PathsAgree ==
    ASSUME NEW n \in Nat, NEW t, Runs(t, n), NEW u, NEW m \in Nat, Runs(u, m), n <= m
    PROVE  \A i \in Nat : i <= n => t[i] = u[i]
<1> DEFINE D == {i \in Nat : i <= n /\ t[i] # u[i]}
<1>1. SUFFICES ASSUME D # {} PROVE FALSE
    OBVIOUS
<1>2. PICK k \in D : \A i \in D : k <= i
    <2>1. D \in SUBSET Nat
        OBVIOUS
    <2>2. QED BY <1>1, <2>1, LeastNatural
<1>3. k \in Nat /\ k <= n /\ t[k] # u[k]
    BY <1>2
<1>4. k # 0
    BY <1>3 DEF Runs
<1> DEFINE j == k - 1
<1>5. j \in Nat /\ j < n /\ j < m /\ j + 1 = k /\ j < k
    BY <1>3, <1>4
<1>6. t[j] = u[j]
    BY <1>2, <1>5
<1> HIDE DEF j
<1>7. t[j + 1] = Turn(t[j]) /\ u[j + 1] = Turn(u[j])
    BY <1>5 DEF Runs
<1>8. QED BY <1>3, <1>5, <1>6, <1>7

(* A path stays where it is done. *)
LEMMA DoneStays ==
    ASSUME NEW n \in Nat, NEW u, NEW m \in Nat, Runs(u, m), n <= m, u[n].phase = "done"
    PROVE  u[m] = u[n]
<1> DEFINE D == {i \in Nat : n <= i /\ i <= m /\ u[i] # u[n]}
<1>1. SUFFICES ASSUME D # {} PROVE FALSE
    OBVIOUS
<1>2. PICK k \in D : \A i \in D : k <= i
    <2>1. D \in SUBSET Nat
        OBVIOUS
    <2>2. QED BY <1>1, <2>1, LeastNatural
<1>3. k \in Nat /\ n <= k /\ k <= m /\ u[k] # u[n]
    BY <1>2
<1>4. k # n
    BY <1>3
<1> DEFINE j == k - 1
<1>5. j \in Nat /\ n <= j /\ j < m /\ j + 1 = k /\ j < k
    BY <1>3, <1>4
<1>6. u[j] = u[n]
    BY <1>2, <1>5
<1> HIDE DEF j
<1>7. u[j + 1] = Turn(u[j])
    BY <1>5 DEF Runs
<1>8. Turn(u[n]) = u[n]
    BY DEF Turn
<1>9. QED BY <1>3, <1>5, <1>6, <1>7, <1>8

(* So a planning that is done has one result. *)
LEMMA DoneOnce ==
    ASSUME NEW x, NEW y, Reached(x), Reached(y), x.phase = "done", y.phase = "done"
    PROVE  x = y
<1>1. PICK n, t : n \in Nat /\ Runs(t, n) /\ t[n] = x
    BY DEF Reached
<1>2. PICK m, u : m \in Nat /\ Runs(u, m) /\ u[m] = y
    BY DEF Reached
<1>3. CASE n <= m
    <2>1. t[n] = u[n]
        BY <1>1, <1>2, <1>3, PathsAgree
    <2>2. u[m] = u[n]
        BY <1>1, <1>2, <1>3, <2>1, DoneStays
    <2>3. QED BY <1>1, <1>2, <2>1, <2>2
<1>4. CASE m <= n
    <2>1. t[m] = u[m]
        BY <1>1, <1>2, <1>4, PathsAgree
    <2>2. t[n] = t[m]
        BY <1>1, <1>2, <1>4, <2>1, DoneStays
    <2>3. QED BY <1>1, <1>2, <2>1, <2>2
<1>5. QED BY <1>1, <1>2, <1>3, <1>4

(* Every step but Relist is the one turn there is. *)
LEMMA StepIsTurn ==
    ASSUME Shape, TrialExact, Idle, Next, ~Relist
    PROVE  Current' = Turn(Current)
<1>1. Sized(snap) /\ NodesOf(snap) \subseteq Int /\ PodsOf(snap) \subseteq Int
    BY SnapshotSized, NamesAssumption DEF Shape
<1>2. /\ Current.phase = phase /\ Current.analysis = analysis /\ Current.work = work
      /\ Current.queue = queue /\ Current.drained = drained /\ Current.trial = trial
      /\ Current.toMove = toMove /\ Current.moves = moves /\ Current.made = made
      /\ Current.steps = steps /\ Current.reclaimable = alreadyReclaimable /\ Current.plan = plan
    BY CurrentFields
<1>3. Current' = State(phase', analysis', work', queue', drained', trial', toMove', moves', made', steps',
                       alreadyReclaimable', plan')
    BY DEF Current
<1> DEFINE x == Current
<1> HIDE DEF x
<1>4. /\ OpenAt(x) <=> MayAddStep
      /\ HereAt(x) = MovableOn(Source) /\ ScannedAt(x) = Scanned
      /\ RefusedAt(x) <=> \E p \in MovableOn(Source) : Forbidden(p)
    <2>1. HereAt(x) = MovableOn(Source) /\ ScannedAt(x) = Scanned
        BY <1>2 DEF x, HereAt, MovableOn, Source, ScannedAt, Scanned
    <2>2. OpenAt(x) <=> MayAddStep
        BY <1>2 DEF x, OpenAt, MayAddStep
    <2>3. RefusedAt(x) <=> \E p \in MovableOn(Source) : Forbidden(p)
        BY <1>2, <2>1, Zenon DEF x, RefusedAt, Forbidden
    <2>4. QED BY <2>1, <2>2, <2>3
<1>5. FitAt(x) = FirstFit(trial, Head(toMove))
    BY <1>2, <1>4, Zenon DEF x, FitAt, FirstFit, Outranks
<1>6. CASE Start
    <2> DEFINE L == {e \in DrainCandidates \X DrainCandidates : Emptier(FirstPlaced, e[1], e[2])}
    <2>1. Turn(x) = AfterStart(x)
        BY <1>2, <1>6 DEF x, Start, Turn
    <2>2. work' = FirstPlaced /\ queue' \in StableSorts(DrainCandidates, list.nodes, L)
        BY <1>6 DEF Start, FirstPlaced
    <2>3. Solvent(snap, FirstPlaced)
        BY SnapshotSized, FirstPlacement DEF Shape, FirstPlaced
    <2>4. StrictTotal(DrainCandidates, L)
        BY <1>1, <2>3, EmptierTotal
    <2>5. IsFiniteSet(DrainCandidates)
        BY <1>1, FS_Subset DEF Sized, DrainCandidates
    <2>6. queue' = TheSort(DrainCandidates, L)
        <3> HIDE DEF L
        <3>1. QED BY <2>2, <2>4, <2>5, SortIsUnique
    <2> HIDE DEF L
    <2>7. AfterStart(x) = State("packing", Analyze(snap), FirstPlaced, TheSort(DrainCandidates, L), drained, trial,
                                toMove, moves, made, steps, alreadyReclaimable, plan)
        BY <1>2 DEF x, AfterStart, L
    <2>8. QED BY <1>3, <1>6, <2>1, <2>2, <2>6, <2>7 DEF Start, x
<1>7. CASE SkipEmpty
    <2>1. Turn(x) = AfterSkip(x)
        BY <1>2, <1>4, <1>7 DEF x, SkipEmpty, Turn, PackingTurn, Source
    <2>2. QED BY <1>2, <1>3, <1>7, <2>1, Zenon DEF x, SkipEmpty, AfterSkip, Source, inputs
<1>8. CASE BeginTrial
    <2> DEFINE S == MovableOn(Source)
               L == {e \in S \X S : Larger(e[1], e[2])}
    <2>1. Turn(x) = AfterBegin(x)
        BY <1>2, <1>4, <1>8 DEF x, BeginTrial, Turn, PackingTurn, Source
    <2>2. toMove' \in StableSorts(S, list.pods, L)
        BY <1>8 DEF BeginTrial
    <2>3. S \subseteq PodsOf(snap)
        BY <1>8 DEF BeginTrial, Shape, MovableOn, Occupants, Assigned
    <2>4. IsFiniteSet(S)
        BY <1>1, <2>3, FS_Subset DEF Sized
    <2>5. StrictTotal(S, L)
        <3> HIDE DEF S
        <3>1. QED BY <1>1, <2>3, LargerTotal
    <2>6. toMove' = TheSort(S, L)
        <3> HIDE DEF L, S
        <3>1. QED BY <2>2, <2>4, <2>5, SortIsUnique
    <2> HIDE DEF L, S
    <2>7. AfterBegin(x) = State("trial", analysis, work, queue, drained, work, TheSort(S, L), <<>>, made, steps,
                                alreadyReclaimable, plan)
        BY <1>2, <1>4 DEF x, AfterBegin, L, S
    <2>8. QED BY <1>3, <1>8, <2>1, <2>6, <2>7 DEF BeginTrial, x
<1>9. CASE RefuseNode
    <2>1. Turn(x) = AfterRefuse(x)
        BY <1>2, <1>4, <1>9 DEF x, RefuseNode, Turn, PackingTurn, Source
    <2>2. QED BY <1>2, <1>3, <1>9, <2>1 DEF x, RefuseNode, AfterRefuse
<1>10. CASE Relocate
    <2> DEFINE p == Head(toMove)
               scanned == Memoise(snap, trial, Questions(snap, trial, p, Scanned))
               k == CHOOSE y \in FitAt(x) : TRUE
    <2>1. PICK n \in FirstFit(trial, p) :
              /\ trial' = Place(snap, Remove(snap, scanned, p), p, n)
              /\ moves' = Append(moves, [pod |-> p, from |-> Source, to |-> n])
        BY <1>10 DEF Relocate
    <2>2. Turn(x) = AfterRelocate(x)
        BY <1>2, <1>5, <1>10, <2>1 DEF x, Relocate, Turn, TrialTurn
    <2>3. Solvent(snap, trial) /\ Assigned(snap, trial)
        BY <1>10 DEF Relocate, Idle, Shape
    <2>4. k \in FirstFit(trial, p)
        BY <1>5, <2>1
    <2>5. k = n
        <3> HIDE DEF k, p
        <3>1. QED BY <1>1, <2>1, <2>3, <2>4, FirstFitOnce
    <2>6. AfterRelocate(x) = State(phase, analysis, work, queue, drained, Place(snap, Remove(snap, scanned, p), p, k),
                                   Tail(toMove), Append(moves, [pod |-> p, from |-> Source, to |-> k]), made, steps,
                                   alreadyReclaimable, plan)
        BY <1>2, <1>4, Zenon DEF x, AfterRelocate, Source
    <2> HIDE DEF k, scanned, p
    <2>7. QED BY <1>3, <1>10, <2>1, <2>2, <2>5, <2>6 DEF Relocate, x
<1>11. CASE Abandon
    <2>1. Turn(x) = AfterAbandon(x)
        BY <1>2, <1>5, <1>11 DEF x, Abandon, Turn, TrialTurn
    <2>2. QED BY <1>2, <1>3, <1>11, <2>1 DEF x, Abandon, AfterAbandon
<1>12. CASE CommitMove
    <2>1. Turn(x) = AfterCommitMove(x)
        BY <1>2, <1>12 DEF x, CommitMove, Turn, TrialTurn
    <2>2. QED BY <1>2, <1>3, <1>12, <2>1 DEF x, CommitMove, AfterCommitMove
<1>13. CASE Commit
    <2>1. Turn(x) = AfterCommit(x)
        BY <1>2, <1>13 DEF x, Commit, Turn, TrialTurn, Shape
    <2>2. QED BY <1>2, <1>3, <1>13, <2>1 DEF x, Commit, AfterCommit, Source
<1>14. CASE Finish
    <2>1. Turn(x) = AfterFinish(x)
        BY <1>2, <1>4, <1>14 DEF x, Finish, Turn, PackingTurn
    <2>2. QED BY <1>2, <1>3, <1>14, <2>1 DEF x, Finish, AfterFinish
<1>15. QED BY <1>6, <1>7, <1>8, <1>9, <1>10, <1>11, <1>12, <1>13, <1>14 DEF Next, x

(* A trial starts from the working placement and only moves pods. *)
LEMMA IdleStep ==
    ASSUME Shape, TrialExact, Idle, [Next]_vars
    PROVE  Idle'
<1>1. UNCHANGED snap /\ Sized(snap) /\ NodesOf(snap)' = NodesOf(snap)
    BY InputsKept, SnapshotSized DEF NodesOf
<1>2. (phase' # "trial" => trial' = <<>> /\ toMove' = <<>> /\ moves' = <<>> /\ made' = 0)
      /\ (phase' = "trial" => phase = "trial" \/ BeginTrial)
    <2>1. CASE UNCHANGED vars
        BY <2>1 DEF Idle, vars
    <2>2. CASE Start \/ SkipEmpty \/ RefuseNode \/ Finish \/ Relist
        BY <2>2 DEF Idle, Start, SkipEmpty, RefuseNode, Finish, Relist, inputs
    <2>3. CASE BeginTrial \/ Relocate \/ CommitMove
        BY <2>3 DEF BeginTrial, Relocate, CommitMove, inputs
    <2>4. CASE Abandon \/ Commit
        BY <2>4 DEF Abandon, Commit, Shape, inputs
    <2>5. QED BY <2>1, <2>2, <2>3, <2>4 DEF Next
<1>3. ASSUME phase' = "trial" PROVE Solvent(snap, trial')
    <2>1. CASE BeginTrial
        BY <2>1 DEF BeginTrial, Shape
    <2>2. CASE Relocate
        <3> DEFINE p == Head(toMove)
                   scanned == Memoise(snap, trial, Questions(snap, trial, p, Scanned))
        <3>1. PICK n \in FirstFit(trial, p) : trial' = Place(snap, Remove(snap, scanned, p), p, n)
            BY <2>2 DEF Relocate
        <3>2. n \in NodesOf(snap)
            BY DEF FirstFit, Scanned
        <3>3. p \in PodsOf(snap) /\ trial.at[p] \in NodesOf(snap)
            <4>1. toMove \in Seq(PodsOf(snap)) /\ toMove # <<>> /\ phase = "trial"
                BY <2>2 DEF Relocate, Shape
            <4>2. p \in PodsOf(snap) /\ p = toMove[1] /\ 1 \in 1..Len(toMove)
                BY <4>1, TailOf
            <4>3. QED BY <4>1, <4>2 DEF TrialExact
        <3>4. Solvent(snap, trial) /\ scanned.free = trial.free /\ scanned.at = trial.at
            BY <2>2 DEF Relocate, Idle, Memoise
        <3>5. Solvent(snap, scanned)
            BY <3>4 DEF Solvent
        <3> HIDE DEF scanned, p
        <3>6. Solvent(snap, Remove(snap, scanned, p))
            BY <1>1, <3>3, <3>4, <3>5, RemoveSolvent
        <3>7. QED BY <1>1, <3>1, <3>2, <3>3, <3>6, PlaceSolvent
    <2>3. CASE ~BeginTrial /\ ~Relocate
        <3>1. phase = "trial" /\ UNCHANGED trial
            BY <1>2, <1>3, <2>3 DEF Next, vars, inputs, Start, SkipEmpty, RefuseNode, Abandon, CommitMove,
                                    Commit, Finish, Relist
        <3>2. QED BY <3>1 DEF Idle
    <2>4. QED BY <2>1, <2>2, <2>3
<1>4. ASSUME phase' = "listed" PROVE Current' = Fresh
    <2>1. CASE Relist
        BY <2>1 DEF Relist, Idle, Current, Fresh
    <2>2. CASE UNCHANGED vars
        BY <1>4, <2>2 DEF vars, Idle, Current, Fresh
    <2>3. CASE Next /\ ~Relist
        BY <1>4, <2>3 DEF Next, inputs, Start, SkipEmpty, BeginTrial, RefuseNode, Relocate, Abandon,
                          CommitMove, Commit, Finish
    <2>4. QED BY <2>1, <2>2, <2>3
<1>5. Solvent(snap, trial)' <=> Solvent(snap, trial')
    BY <1>1
<1>6. QED BY <1>2, <1>3, <1>4, <1>5 DEF Idle

(* A planning stays on the path; the next one begins at its start. *)
LEMMA PathStep ==
    ASSUME Shape, TrialExact, Idle, OnThePath, [Next]_vars
    PROVE  OnThePath'
<1>1. snap' = snap /\ opts' = opts
    BY InputsKept
<1>2. CASE UNCHANGED vars
    <2>1. Current' = Current /\ prior' = prior
        BY <1>2 DEF vars, Current
    <2>2. PICK x : x = Current
        OBVIOUS
    <2>3. Reached(x)'
        BY <1>1, <2>2, ReachedKept DEF OnThePath
    <2>4. prior # NoPlan => \E y : Reached(y)' /\ y.phase = "done" /\ y.plan = prior
        BY <1>1, ReachedKept DEF OnThePath
    <2>5. QED BY <2>1, <2>2, <2>3, <2>4 DEF OnThePath
<1>3. CASE Next /\ ~Relist
    <2>1. Current' = Turn(Current) /\ prior' = prior
        BY <1>3, StepIsTurn DEF Next, inputs, Start, SkipEmpty, BeginTrial, RefuseNode, Relocate, Abandon,
                                CommitMove, Commit, Finish
    <2>2. PICK x : x = Turn(Current)
        OBVIOUS
    <2>3. Reached(x)
        BY <2>2, ReachedNext DEF OnThePath
    <2>4. Reached(x)'
        BY <1>1, <2>3, ReachedKept
    <2>5. prior # NoPlan => \E y : Reached(y)' /\ y.phase = "done" /\ y.plan = prior
        BY <1>1, ReachedKept DEF OnThePath
    <2>6. QED BY <2>1, <2>2, <2>4, <2>5 DEF OnThePath
<1>4. CASE Relist
    <2>1. PICK x : x = Current
        OBVIOUS
    <2>2. x.phase = "done" /\ x.plan = plan /\ prior' = plan
        BY <1>4, <2>1, CurrentFields DEF Relist
    <2>3. Reached(x)'
        BY <1>1, <2>1, ReachedKept DEF OnThePath
    <2>4. Current' = Fresh
        BY <1>4, IdleStep DEF Relist, Idle
    <2>5. Reached(Fresh)'
        <3> DEFINE t == [i \in Nat |-> Fresh]
        <3>1. t[0] = Fresh
            OBVIOUS
        <3>2. Runs(t, 0)
            BY <3>1 DEF Runs
        <3> HIDE DEF t
        <3>3. Reached(Fresh)
            BY <3>1, <3>2 DEF Reached
        <3>4. PICK y : y = Fresh
            OBVIOUS
        <3>5. Reached(y)'
            BY <1>1, <3>3, <3>4, ReachedKept
        <3>6. QED BY <3>4, <3>5 DEF Fresh
    <2>6. QED BY <2>2, <2>3, <2>4, <2>5 DEF OnThePath
<1>5. QED BY <1>2, <1>3, <1>4

(* Both hold throughout. *)
LEMMA PathKept == Spec => [](Idle /\ OnThePath)
<1>1. Init => Idle /\ OnThePath
    <2> SUFFICES ASSUME Init PROVE Idle /\ OnThePath
        OBVIOUS
    <2>1. Current = Fresh
        BY DEF Init, Current, Fresh
    <2> DEFINE t == [i \in Nat |-> Fresh]
    <2>2. t[0] = Fresh
        OBVIOUS
    <2>3. Runs(t, 0)
        BY <2>2 DEF Runs
    <2> HIDE DEF t
    <2>4. Reached(Fresh)
        BY <2>2, <2>3 DEF Reached
    <2>5. QED BY <2>1, <2>4 DEF Init, Idle, OnThePath
<1>2. Shape /\ TrialExact /\ Idle /\ OnThePath /\ [Next]_vars => Idle' /\ OnThePath'
    BY IdleStep, PathStep
<1>3. QED BY <1>1, <1>2, BooksKept, PTL DEF Spec

(* The same cluster gives the same plan, to the last destination and with the
   same ratings, in whatever order its nodes and pods are listed (greedy.go: the
   sorts and firstFit end in names, so that equal clusters get equal plan ids). *)
THEOREM PlanAlwaysStable == Spec => []StableUnderRelist
<1>1. OnThePath => StableUnderRelist
    <2> SUFFICES ASSUME OnThePath, phase = "done", prior # NoPlan PROVE plan = prior
        BY DEF StableUnderRelist
    <2>1. PICK x : Reached(x) /\ x.phase = "done" /\ x.plan = prior
        BY DEF OnThePath
    <2>2. Reached(Current) /\ Current.phase = "done" /\ Current.plan = plan
        BY CurrentFields DEF OnThePath
    <2>3. Current = x
        BY <2>1, <2>2, DoneOnce
    <2>4. QED BY <2>1, <2>2, <2>3
<1>2. QED BY <1>1, PathKept, PTL
=============================================================================
