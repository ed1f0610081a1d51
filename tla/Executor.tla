------------------------------ MODULE Executor ------------------------------
(***************************************************************************)
(* internal/executor: what a claimed run does to the cluster.              *)
(*                                                                         *)
(* perform, converge and drainNode choose the next node; performStep takes *)
(* it through gate, cordon, drain and verify, or aborts. Each API call is  *)
(* an action of its own, so the cluster may change between any two. The    *)
(* row of the run, and what a stop does to it, are module RunQueue.        *)
(***************************************************************************)
EXTENDS SafetyGuard

CONSTANTS
    RunModes,    \* bound: which kinds of run are checked
    DryRuns,     \* bound: subset of BOOLEAN
    Ratings,     \* bound: the impact ratings a step may carry
    MaxRounds,   \* bound: the largest Envelope.MaxNodes
    Faults,      \* what may go wrong: see FaultKinds
    NoPod

FaultKinds == {
    "api",     \* a call to the API server fails and had no effect; also a
               \* call cut off by StepTimeout
    "reply",   \* a call takes effect and the answer is lost
    "settle",  \* SettleTimeout runs out
    "store",   \* the reclamation record cannot be written
    "crash" }  \* the process dies

ASSUME ExecutorAssumption ==
    /\ RunModes \subseteq {"steps", "converge", "drain"}
    /\ DryRuns \subseteq BOOLEAN
    /\ Ratings \subseteq {"Green", "Yellow", "Red"}
    /\ MaxRounds \in Nat \ {0}
    /\ Faults \subseteq FaultKinds
    /\ NoPod \notin Pods

VARIABLES
    run,        \* the claimed row: mode, dryRun, the envelope's two bounds
    pc,
    plan,       \* steps and drain: the nodes still to be taken
    rounds,     \* converge: rounds left
    skip,       \* converge: the map of nodes this run has drained
    target, rating,
    todo,       \* pods listed on the target and not dealt with yet
    cur,        \* the pod being evicted
    before,     \* healthy pods per workload when the drain began
    affected,   \* workloads a pod was evicted from
    drained,    \* RunState.NodesDrainedSoFar
    occBefore,  \* occupied nodes when the round was planned
    outcome,    \* the status finish is called with
    (* history: nodes this run has cordoned and neither drained, uncordoned
       nor reported; how often it cordoned each; the reclamation records *)
    owed, cordons, recorded

execVars == <<run, pc, plan, rounds, skip, target, rating, todo, cur, before,
              affected, drained, occBefore, outcome, owed, cordons, recorded>>
vars == <<clusterVars, execVars>>

stepVars == <<todo, cur, before, affected>>
loopVars == <<plan, rounds, skip, drained, occBefore>>
history  == <<owed, cordons, recorded>>

(* Only a converge run has an envelope. *)
Runs == {r \in [mode : RunModes, dryRun : DryRuns, maxNodes : 0 .. MaxRounds,
                maxImpact : {"Green", "Yellow"}] :
            /\ r.mode = "converge" <=> r.maxNodes > 0
            /\ r.mode # "converge" => r.maxImpact = "Green"}

Outcomes == {"Running", "Succeeded", "Blocked", "Stopped", "Failed"}

TypeOK ==
    /\ ClusterTypeOK
    /\ run \in Runs
    /\ pc \in {"boundary", "gate", "cordon", "list", "recheck", "evict", "wait",
               "verify", "record", "rail", "abort", "done", "crashed"}
    /\ plan \subseteq Nodes
    /\ rounds \in 0 .. MaxRounds
    /\ skip \subseteq Nodes
    /\ target \in Nodes \cup {NoNode}
    /\ rating \in Ratings \cup {"Green"}
    /\ todo \subseteq Pods
    /\ cur \in Pods \cup {NoPod}
    /\ before \in [Owners -> Nat]
    /\ affected \subseteq Owners
    /\ drained \in Nat
    /\ occBefore \in Nat
    /\ outcome \in Outcomes
    /\ owed \subseteq Nodes
    /\ cordons \in [Nodes -> Nat]
    /\ recorded \subseteq Nodes

NoneHealthy == [o \in Owners |-> 0]

(* A claimed run: steps carries the plan's targets, which validateSteps has
   made distinct; drain carries one node; converge an envelope. *)
Init ==
    /\ InitCluster
    /\ run \in Runs
    /\ plan \in SUBSET Nodes
    /\ run.mode = "drain" => Cardinality(plan) = 1
    /\ run.mode = "converge" <=> plan = {}
    /\ rounds = run.maxNodes
    /\ pc = "boundary"
    /\ skip = {}
    /\ target = NoNode /\ rating = "Green"
    /\ todo = {} /\ cur = NoPod /\ before = NoneHealthy /\ affected = {}
    /\ drained = 0
    /\ occBefore = 0
    /\ outcome = "Running"
    /\ owed = {} /\ cordons = [n \in Nodes |-> 0] /\ recorded = {}

-----------------------------------------------------------------------------
(* finish, with nothing left cordoned by this step. *)
Finish(s) ==
    /\ pc' = "done"
    /\ outcome' = s

(* drain returned an error: abort, then finish with status s. *)
AbortWith(s) ==
    /\ pc' = "abort"
    /\ outcome' = s

(* A human asked for the run to end; drainNode never looks. *)
StopRequested ==
    /\ pc = "boundary"
    /\ run.mode # "drain"
    /\ plan # {} \/ rounds > 0
    /\ Finish("Stopped")
    /\ UNCHANGED <<clusterVars, run, loopVars, target, rating, stepVars, history>>

(* The loop is over: every step, or the envelope's number of rounds. *)
StepsDone ==
    /\ pc = "boundary"
    /\ plan = {} /\ rounds = 0
    /\ Finish("Succeeded")
    /\ UNCHANGED <<clusterVars, run, loopVars, target, rating, stepVars, history>>

(* The next step of the list, with the rating stored in the plan; for a drain
   the named node, rated against a snapshot that must show it. *)
NextStep ==
    /\ pc = "boundary"
    /\ \E n \in plan, r \in Ratings :
          /\ run.mode = "drain" => n \in exists
          /\ target' = n
          /\ rating' = r
          /\ plan' = plan \ {n}
    /\ pc' = "gate"
    /\ UNCHANGED <<clusterVars, run, rounds, skip, drained, occBefore, stepVars, outcome, history>>

(* The plan cannot be loaded; or the snapshot behind a drain or a round fails,
   or does not show the node. *)
NoStep ==
    /\ pc = "boundary"
    /\ \/ run.mode = "steps" /\ target = NoNode /\ "store" \in Faults
       \/ run.mode = "drain" /\ plan # {} /\ ("api" \in Faults \/ plan \cap exists = {})
       \/ run.mode = "converge" /\ rounds > 0 /\ "api" \in Faults
    /\ Finish("Failed")
    /\ UNCHANGED <<clusterVars, run, loopVars, target, rating, stepVars, history>>

(* Seeded fault: the plan is taken as it comes, drained nodes included. *)
CandidatesWithoutSkip == {n \in exists : MovableOn(n) # {}}

(* planOneStep: what the greedy planner proposes is some node with pods to
   move; the nodes this run has drained are passed over. *)
Candidates == {n \in exists : MovableOn(n) # {}} \ skip

(* exceedsCeiling *)
Rank(r) == CASE r = "Green" -> 0 [] r = "Yellow" -> 1 [] r = "Red" -> 2
ExceedsCeiling(r) == Rank(r) > Rank(run.maxImpact)

(* Seeded fault: the loop goes on after the last round of the envelope. *)
PlanRoundPastEnvelope ==
    /\ pc = "boundary"
    /\ run.mode = "converge"
    /\ occBefore' = Cardinality(Occupied)
    /\ rounds' = rounds - 1
    /\ \E n \in Candidates, r \in Ratings :
          /\ ~ExceedsCeiling(r)
          /\ target' = n
          /\ rating' = r
    /\ pc' = "gate"
    /\ UNCHANGED <<clusterVars, run, plan, skip, drained, stepVars, outcome, history>>

(* A converge round: measure, plan one step, check it against the envelope. *)
PlanRound ==
    /\ pc = "boundary"
    /\ rounds > 0
    /\ occBefore' = Cardinality(Occupied)
    /\ rounds' = rounds - 1
    /\ \E n \in Candidates, r \in Ratings :
          /\ ~ExceedsCeiling(r)
          /\ target' = n
          /\ rating' = r
    /\ pc' = "gate"
    /\ UNCHANGED <<clusterVars, run, plan, skip, drained, stepVars, outcome, history>>

(* Nothing worth doing, or the next step needs more consent than the run has. *)
Converged ==
    /\ pc = "boundary"
    /\ rounds > 0
    /\ Finish("Succeeded")
    /\ UNCHANGED <<clusterVars, run, loopVars, target, rating, stepVars, history>>

-----------------------------------------------------------------------------
(* performStep *)

(* CheckStep passes on a fresh snapshot. *)
GatePasses ==
    /\ pc = "gate"
    /\ ~run.dryRun
    /\ CheckStep(target, rating, drained)
    /\ pc' = "cordon"
    /\ UNCHANGED <<clusterVars, run, loopVars, target, rating, stepVars, outcome, history>>

GateRefuses ==
    /\ pc = "gate"
    /\ ~CheckStep(target, rating, drained)
    /\ Finish("Blocked")
    /\ UNCHANGED <<clusterVars, run, loopVars, target, rating, stepVars, history>>

GateFails ==
    /\ pc = "gate"
    /\ "api" \in Faults
    /\ Finish("Failed")
    /\ UNCHANGED <<clusterVars, run, loopVars, target, rating, stepVars, history>>

(* rehearse: the same gates, nothing touched. A converge rehearsal is one
   round long. *)
Rehearse ==
    /\ pc = "gate"
    /\ run.dryRun
    /\ CheckStep(target, rating, drained)
    /\ IF \A p \in MovableOn(target) : CheckEviction(p)
       THEN /\ drained' = drained + 1
            /\ IF run.mode = "converge" THEN Finish("Succeeded")
                                        ELSE pc' = "boundary" /\ UNCHANGED outcome
       ELSE /\ Finish("Blocked")
            /\ UNCHANGED drained
    /\ UNCHANGED <<clusterVars, run, plan, rounds, skip, occBefore, target, rating, stepVars, history>>

(* The patch to unschedulable, on a node that still exists. *)
Cordon ==
    /\ pc = "cordon"
    /\ target \in exists
    /\ cordoned' = cordoned \cup {target}
    /\ owed' = owed \cup {target}
    /\ cordons' = [cordons EXCEPT ![target] = @ + 1]
    /\ pc' = "list"
    /\ UNCHANGED <<exists, phase, on, allowed, window, run, loopVars, target, rating, stepVars,
                   outcome, recorded>>

(* The patch fails: performStep returns without abort. *)
CordonFails ==
    /\ pc = "cordon"
    /\ "api" \in Faults \/ target \notin exists
    /\ Finish("Failed")
    /\ UNCHANGED <<clusterVars, run, loopVars, target, rating, stepVars, history>>

(* The same, when the patch was applied and only its answer was lost. *)
CordonReplyLost ==
    /\ pc = "cordon"
    /\ "reply" \in Faults
    /\ target \in exists
    /\ cordoned' = cordoned \cup {target}
    /\ owed' = owed \cup {target}
    /\ cordons' = [cordons EXCEPT ![target] = @ + 1]
    /\ Finish("Failed")
    /\ UNCHANGED <<exists, phase, on, allowed, window, run, loopVars, target, rating, stepVars,
                   recorded>>

(* Seeded fault: the filter on the node forgotten. *)
ListWholeCluster ==
    /\ pc = "list"
    /\ before' = HealthyByOwner
    /\ todo' = {p \in Pods : Movable(p)}
    /\ affected' = {}
    /\ pc' = "recheck"
    /\ UNCHANGED <<clusterVars, run, loopVars, target, rating, cur, outcome, history>>

(* drain reads the cluster again, after the cordon. *)
ListPods ==
    /\ pc = "list"
    /\ before' = HealthyByOwner
    /\ todo' = MovableOn(target)
    /\ affected' = {}
    /\ pc' = "recheck"
    /\ UNCHANGED <<clusterVars, run, loopVars, target, rating, cur, outcome, history>>

(* findPod asks for the name alone: not which node it is on, nor whether it
   is terminating. A name that is gone needs nothing. *)
PodAlreadyGone(p) ==
    /\ pc = "recheck"
    /\ p \in todo
    /\ ~Listed(p)
    /\ todo' = todo \ {p}
    /\ UNCHANGED <<clusterVars, run, pc, loopVars, target, rating, cur, before, affected, outcome, history>>

RecheckPasses(p) ==
    /\ pc = "recheck"
    /\ p \in todo
    /\ Listed(p)
    /\ CheckEviction(p)
    /\ cur' = p
    /\ pc' = "evict"
    /\ UNCHANGED <<clusterVars, run, loopVars, target, rating, todo, before, affected, outcome, history>>

(* Seeded fault: a pod without headroom is left where it is. *)
SkipBlockedPod(p) ==
    /\ pc = "recheck"
    /\ p \in todo
    /\ Listed(p)
    /\ ~CheckEviction(p)
    /\ todo' = todo \ {p}
    /\ UNCHANGED <<clusterVars, run, pc, loopVars, target, rating, cur, before, affected, outcome, history>>

RecheckBlocks(p) ==
    /\ pc = "recheck"
    /\ p \in todo
    /\ Listed(p)
    /\ ~CheckEviction(p)
    /\ AbortWith("Blocked")
    /\ UNCHANGED <<clusterVars, run, loopVars, target, rating, stepVars, history>>

(* A snapshot or a lookup of this drain fails. *)
DrainReadFails ==
    /\ pc \in {"list", "recheck", "wait", "verify"}
    /\ "api" \in Faults
    /\ AbortWith("Failed")
    /\ UNCHANGED <<clusterVars, run, loopVars, target, rating, stepVars, history>>

(* Seeded fault: a plain delete, which asks no budget. *)
EvictByDelete ==
    /\ pc = "evict"
    /\ phase' = [phase EXCEPT ![cur] = IF @ \in Alive THEN "terminating" ELSE @]
    /\ affected' = affected \cup {OwnerOf[cur]}
    /\ pc' = "wait"
    /\ UNCHANGED <<exists, cordoned, on, allowed, window, run, loopVars, target, rating, todo, cur,
                   before, outcome, history>>

(* The eviction API accepts; a missing pod is as good. *)
Evict ==
    /\ pc = "evict"
    /\ EvictPod(cur)
    /\ affected' = affected \cup {OwnerOf[cur]}
    /\ pc' = "wait"
    /\ UNCHANGED <<run, loopVars, target, rating, todo, cur, before, outcome, history>>

(* 429: the budget changed after the pre-flight check. *)
EvictRefused ==
    /\ pc = "evict"
    /\ ~EvictionAccepted(cur)
    /\ AbortWith("Blocked")
    /\ UNCHANGED <<clusterVars, run, loopVars, target, rating, stepVars, history>>

EvictFails ==
    /\ pc = "evict"
    /\ \/ "api" \in Faults /\ UNCHANGED clusterVars
       \/ "reply" \in Faults /\ EvictPod(cur)
    /\ AbortWith("Failed")
    /\ UNCHANGED <<run, loopVars, target, rating, stepVars, history>>

(* PodPresent: absent and terminating are the same answer. *)
PodPresent(p) == phase[p] \in Alive

WaitGone ==
    /\ pc = "wait"
    /\ ~PodPresent(cur)
    /\ todo' = todo \ {cur}
    /\ cur' = NoPod
    /\ pc' = "recheck"
    /\ UNCHANGED <<clusterVars, run, loopVars, target, rating, before, affected, outcome, history>>

(* Every listed pod is dealt with. *)
Emptied ==
    /\ pc = "recheck"
    /\ todo = {}
    /\ pc' = "verify"
    /\ UNCHANGED <<clusterVars, run, loopVars, target, rating, stepVars, outcome, history>>

Recovered == \A o \in affected : HealthyByOwner[o] >= before[o]

(* verifyRecovered *)
Verify ==
    /\ pc = "verify"
    /\ Recovered
    /\ pc' = "record"
    /\ UNCHANGED <<clusterVars, run, loopVars, target, rating, stepVars, outcome, history>>

(* waitGone or verifyRecovered runs out of time. *)
SettleTimesOut ==
    /\ "settle" \in Faults
    /\ \/ pc = "wait" /\ PodPresent(cur)
       \/ pc = "verify" /\ ~Recovered
    /\ AbortWith("Failed")
    /\ UNCHANGED <<clusterVars, run, loopVars, target, rating, stepVars, history>>

(* recordDrain, best effort, and the step is counted. Only converge
   remembers the node. *)
RecordDrain ==
    /\ pc = "record"
    /\ \/ recorded' = recorded \cup {target}
       \/ "store" \in Faults /\ UNCHANGED recorded
    /\ drained' = drained + 1
    /\ owed' = owed \ {target}
    /\ IF run.mode = "converge"
       THEN skip' = skip \cup {target} /\ pc' = "rail"
       ELSE UNCHANGED skip /\ pc' = "boundary"
    /\ UNCHANGED <<clusterVars, run, plan, rounds, occBefore, target, rating, stepVars, outcome, cordons>>

(* Seeded fault: a round that frees nothing is good enough to go on. *)
RailAllowsEqual ==
    /\ pc = "rail"
    /\ IF Cardinality(Occupied) > occBefore
       THEN Finish("Succeeded")
       ELSE pc' = "boundary" /\ UNCHANGED outcome
    /\ UNCHANGED <<clusterVars, run, loopVars, target, rating, stepVars, history>>

(* The monotonic rail. *)
Rail ==
    /\ pc = "rail"
    /\ IF Cardinality(Occupied) >= occBefore
       THEN Finish("Succeeded")
       ELSE pc' = "boundary" /\ UNCHANGED outcome
    /\ UNCHANGED <<clusterVars, run, loopVars, target, rating, stepVars, history>>

RailReadFails ==
    /\ pc = "rail"
    /\ "api" \in Faults
    /\ Finish("Failed")
    /\ UNCHANGED <<clusterVars, run, loopVars, target, rating, stepVars, history>>

(* Seeded fault: a refused step gives its error back without an uncordon. *)
AbortOnFailureOnly ==
    /\ pc = "abort"
    /\ target \in exists
    /\ IF outcome = "Failed"
       THEN cordoned' = cordoned \ {target} /\ owed' = owed \ {target}
       ELSE UNCHANGED <<cordoned, owed>>
    /\ pc' = "done"
    /\ UNCHANGED <<exists, phase, on, allowed, window, run, loopVars, target, rating, stepVars,
                   outcome, cordons, recorded>>

(* abort: the patch back, whoever cordoned the node first. *)
Abort ==
    /\ pc = "abort"
    /\ target \in exists
    /\ cordoned' = cordoned \ {target}
    /\ owed' = owed \ {target}
    /\ pc' = "done"
    /\ UNCHANGED <<exists, phase, on, allowed, window, run, loopVars, target, rating, stepVars,
                   outcome, cordons, recorded>>

(* The patch fails, and an event says so and names the node. *)
AbortFails ==
    /\ pc = "abort"
    /\ \/ ("api" \in Faults \/ target \notin exists) /\ UNCHANGED cordoned
       \/ "reply" \in Faults /\ cordoned' = cordoned \ {target}
    /\ owed' = owed \ {target}
    /\ pc' = "done"
    /\ UNCHANGED <<exists, phase, on, allowed, window, run, loopVars, target, rating, stepVars,
                   outcome, cordons, recorded>>

Crash ==
    /\ "crash" \in Faults
    /\ pc \notin {"done", "crashed"}
    /\ pc' = "crashed"
    /\ UNCHANGED <<clusterVars, run, loopVars, target, rating, stepVars, outcome, history>>

-----------------------------------------------------------------------------
Choose == StopRequested \/ StepsDone \/ NextStep \/ NoStep \/ PlanRound \/ Converged

Step ==
    \/ GatePasses \/ GateRefuses \/ GateFails \/ Rehearse
    \/ Cordon \/ CordonFails \/ CordonReplyLost
    \/ ListPods
    \/ \E p \in Pods : PodAlreadyGone(p) \/ RecheckPasses(p) \/ RecheckBlocks(p)
    \/ DrainReadFails
    \/ Evict \/ EvictRefused \/ EvictFails
    \/ WaitGone \/ Emptied \/ Verify \/ SettleTimesOut
    \/ RecordDrain \/ Rail \/ RailReadFails
    \/ Abort \/ AbortFails

Execute == Choose \/ Step

(* The cluster, watched for as long as the run lasts. *)
Cluster ==
    /\ pc \notin {"done", "crashed"}
    /\ EnvNext(todo \cup {cur})
    /\ UNCHANGED execVars

Next == Execute \/ Crash \/ Cluster

Spec == Init /\ [][Next]_vars

(* The executor's loops poll for as long as the process lives, and the
   cluster's controllers keep reconciling: a missing pod is replaced, a pending
   pod with room somewhere is bound, starts, becomes ready; a terminating pod
   goes; a budget's headroom is published. *)
ControllersReconcile(p) ==
    /\ pc \notin {"done", "crashed"}
    /\ \/ CreatePod(p, todo \cup {cur})
       \/ \E n \in Nodes : BindPod(p, n)
       \/ PodBecomesReady(p)
       \/ PodTerminates(p)
    /\ UNCHANGED execVars

FairSpec ==
    /\ Spec
    /\ WF_vars(Execute)
    /\ \A p \in Pods : WF_vars(ControllersReconcile(p))

-----------------------------------------------------------------------------
(* Properties of the code.                                                  *)

(* No workload that has a budget is ever taken below it, although the
   pre-flight check and the eviction are separate calls and somebody else
   drains at the same time (CheckEviction, then K8sCluster.Evict). *)
BudgetKept == \A o \in Owners : Budgeted(o) => ReadyPods(o) >= MinAvailable[o]

(* "Every exit path must either finish the drain or restore schedulability"
   (performStep): between steps and at the end, every node this run cordoned is
   drained, schedulable again, or named in an event as needing a hand. It needs
   the cordon call to tell the truth: CordonReplyLost ends the run without an
   abort, so this is checked without it. *)
CordonAccounted == pc \in {"boundary", "rail", "done"} => owed = {}

(* When the reclamation record is opened the node holds nothing movable and
   nothing can be bound to it: the pods are listed after the cordon and each is
   dealt with (drain, recordDrain). *)
DrainedIsEmpty ==
    pc = "record" => MovableOn(target) = {} /\ target \notin Schedulable

(* No second node is touched while a workload is short of the replicas the
   first drain took: at every gate all workloads are whole (verifyRecovered). *)
WholeBetweenSteps ==
    pc \in {"gate", "cordon"} => \A o \in Owners : ReadyPods(o) >= Replicas[o]

(* The nodes this run has cordoned, whether or not it uncordoned them again. *)
Touched == {n \in Nodes : cordons[n] > 0}

(* The run never cordons more nodes than maxNodesPerRun and, for converge, than
   the envelope (CheckStep, converge). *)
CapsHold ==
    /\ MaxNodesPerRun > 0 => Cardinality(Touched) <= MaxNodesPerRun
    /\ run.mode = "converge" => Cardinality(Touched) <= run.maxNodes

(* And it never leaves fewer schedulable nodes than minReadyNodes (CheckStep). *)
RailsHold ==
    /\ CapsHold
    /\ Touched # {} => Cardinality(Schedulable) >= MinReadyNodes

(* "A node this run has already drained is never targeted again, however
   drainable a re-plan says it looks" (converge), also when an operator
   uncordons it and pods come back. *)
NoSecondVisit == \A n \in Nodes : cordons[n] <= 1

(* Every continuing round starts with strictly fewer occupied nodes than the
   one before: the rail that kills oscillation (converge). *)
EveryRoundFrees ==
    [][pc = "boundary" /\ pc' = "gate" /\ run.mode = "converge" /\ skip # {}
          => occBefore' < occBefore]_vars

(* drain "evicts every movable pod on the node": what is evicted is on the
   node being drained, and is not protected, although minutes may pass between
   listing a pod and evicting it. It rests on "Eviction replaces a pod with a
   differently-named one" (ownerKey), which a StatefulSet breaks: findPod finds
   the replacement by its name, wherever it runs. *)
EvictsFromTargetOnly ==
    [][pc = "evict" /\ pc' = "wait" /\ PodPresent(cur)
          => on[cur] = target /\ cur \notin Protected]_vars

(* With no faults and nobody else draining, every wait of the executor comes
   true by itself, no timeout needed: the guard let nothing start that the
   cluster cannot absorb, so the run ends (waitGone, verifyRecovered). *)
RunEnds == pc = "boundary" ~> pc = "done"
=============================================================================
