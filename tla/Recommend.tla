------------------------------ MODULE Recommend ------------------------------
(***************************************************************************)
(* internal/recommend: the work queue made of the plan's own reasons and   *)
(* of what the snapshot lacks. A finding is its kind, severity, subject,   *)
(* the steps it holds back, the pools those are in and the selector its    *)
(* YAML would carry; the wording is left out. The queue is a set, and      *)
(* Ahead its order, but for the last tie-break, which is by text.          *)
(***************************************************************************)
EXTENDS Impact

-----------------------------------------------------------------------------
(* What a finding is about. Tagged, as namespace/kind/name keys are by their
   shape: a node's name is never a pod's key.                               *)

Workload(pod) == <<"workload", pod.ns, pod.owner, pod.ownerName>>
BudgetSubject(b) == <<"budget", b>>

(* The reason's subject: a pod with an owner stands for its workload. *)
SubjectOf(s, r) ==
    CASE r.kind \in {"BlastRadius", "BlastRadiusHigh"}         -> <<"node", r.subject>>
      [] r.kind \in {"PDBZeroHeadroom", "PDBTightHeadroom"}    -> BudgetSubject(r.subject)
      [] OTHER -> IF s.pod[r.subject].owner = "None" THEN <<"pod", r.subject>>
                                                     ELSE Workload(s.pod[r.subject])

Finding(kind, severity, subject) ==
    [kind |-> kind, severity |-> severity, subject |-> subject,
     unblocks |-> {}, pools |-> {}, fix |-> {}]

-----------------------------------------------------------------------------
(* Blockers.                                                                *)

(* Node.Pool, Node.CapacityType: one label stands for every provider's. *)
Pool(node) == IF "pool" \in DOMAIN node.labels THEN node.labels["pool"] ELSE ""

CapacityType(node) ==
    CASE "capacity" \in DOMAIN node.labels /\ node.labels["capacity"] = "spot" -> "spot"
      [] "capacity" \in DOMAIN node.labels /\ node.labels["capacity"] # "spot" -> "on-demand"
      [] "capacity" \notin DOMAIN node.labels /\ "instanceType" \in DOMAIN node.labels -> "on-demand"
      [] OTHER -> ""

GroupOf(s, n) == <<Pool(s.node[n]), CapacityType(s.node[n])>>

(* A node that says nothing is in no group. *)
PoolsOf(s, nodes) ==
    {[group |-> g, nodes |-> Cardinality({n \in nodes : GroupOf(s, n) = g})] :
        g \in {GroupOf(s, n) : n \in nodes} \ {<<"", "">>}}

Held(steps) == {i \in DOMAIN steps : steps[i].impact # "Green"}

(* Seeded fault: the findings of one rule are not told apart by subject. *)
HeldByKind(s, steps, rule) == {i \in Held(steps) : \E r \in steps[i].reasons : r.kind = rule[1]}

(* The steps a rule appears on; a rule is a kind and a subject. *)
HeldBy(s, steps, rule) ==
    {i \in Held(steps) : \E r \in steps[i].reasons : <<r.kind, SubjectOf(s, r)>> = rule}

FromPlanReasons(s, steps) ==
    LET rules == UNION {{<<r.kind, SubjectOf(s, r)>> : r \in steps[i].reasons} : i \in Held(steps)}
        Blocker(rule) ==
            LET on == HeldBy(s, steps, rule)
                worst == IF \E i \in on : steps[i].impact = "Red" THEN "high" ELSE "medium"
            IN  [Finding(rule[1], worst, rule[2]) EXCEPT
                    !.unblocks = on, !.pools = PoolsOf(s, {steps[i].target : i \in on})]
    IN  {Blocker(rule) : rule \in rules}

-----------------------------------------------------------------------------
(* Advice.                                                                  *)

PlatformNamespaces == {"kube-system"}
ProductLabel == "part-of"

(* The platform's namespaces, listed or by prefix, and this product's pods. *)
NotYours(pod) == pod.ns \in PlatformNamespaces \/ ProductLabel \in DOMAIN pod.labels

IdentifyingLabels == <<"app", "name">>

(* The first label that names a workload, or none. *)
SelectorLabel(pod) ==
    LET present == {i \in DOMAIN IdentifyingLabels : IdentifyingLabels[i] \in DOMAIN pod.labels}
    IN  IF present = {} THEN {}
        ELSE LET key == IdentifyingLabels[Min(present)]
             IN  {[key |-> key, op |-> "In", values |-> {pod.labels[key]}]}

(* covered: here an empty selector covers, unlike in Covering. *)
Covered(s, pod) == \E b \in s.budgets : b.ns = pod.ns /\ Matches(b.selector, pod.labels)

(* The workload of sample, its first pod in the snapshot. *)
AdviceFor(s, sample, replicas) ==
    LET pod == s.pod[sample]
        w == Workload(pod)
    IN  If(replicas >= 2 /\ ~Covered(s, pod),
           [Finding("MissingPDB", "medium", w) EXCEPT !.fix = SelectorLabel(pod)])
        \cup If(replicas = 1 /\ pod.owner \in {"Deployment", "ReplicaSet", "StatefulSet"},
                Finding("SingleReplica", "high", w))
        \cup If(pod.cpu = 0, Finding("MissingRequests", "high", w))
        \cup If(pod.handsOff, Finding("HandsOff", "info", w))

(* order lists the pods as the snapshot does. *)
Build(s, order) ==
    LET counted == {p \in PodsOf(s) : s.pod[p].phase # "Terminating" /\ s.pod[p].owner # "None"}
        Members(w) == {p \in counted : Workload(s.pod[p]) = w}
        SampleOf(w) == order[Min({i \in DOMAIN order : order[i] \in Members(w)})]
        workloads == {w \in {Workload(s.pod[p]) : p \in counted} :
                         s.pod[SampleOf(w)].owner # "DaemonSet" /\ ~NotYours(s.pod[SampleOf(w)])}
    IN  {Finding("ZeroHeadroomPDB", "high", BudgetSubject(b)) : b \in {c \in s.budgets : Blocks(c)}}
        \cup UNION {AdviceFor(s, SampleOf(w), Cardinality(Members(w))) : w \in workloads}

Queue(s, order, steps) == FromPlanReasons(s, steps) \cup Build(s, order)

SeverityRank(f) == CASE f.severity = "high" -> 0 [] f.severity = "medium" -> 1 [] OTHER -> 2

(* Most steps unlocked first, then by severity. *)
Ahead(f, g) ==
    \/ Cardinality(f.unblocks) > Cardinality(g.unblocks)
    \/ Cardinality(f.unblocks) = Cardinality(g.unblocks) /\ SeverityRank(f) < SeverityRank(g)
=============================================================================
