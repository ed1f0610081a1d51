--------------------------- MODULE ExecutorProofs ---------------------------
(***************************************************************************)
(* A run against a cluster of any finite size, with any workloads, budgets *)
(* and bounds, and with every fault the theorem at hand does not exclude.  *)
(***************************************************************************)
EXTENDS Executor, FiniteSetTheorems, TLAPS

(* Where performStep is inside a step, and where the cordon is in place. *)
InStep == pc \in {"gate", "cordon", "list", "recheck", "evict", "wait", "verify",
                  "record", "abort"}

(* A step has a target and an eviction a pod; the two loops do not mix. *)
Control ==
    /\ InStep => target \in Nodes
    /\ pc \in {"evict", "wait"} => cur \in todo
    /\ run.mode = "converge" => plan = {}
    /\ run.mode # "converge" => rounds = 0

(* A node is owed an uncordon only while it is the target of a step. *)
OwedIsTarget ==
    /\ pc \in {"boundary", "gate", "cordon", "rail", "done"} => owed = {}
    /\ InStep => owed \subseteq {target}

(* What has been cordoned is off the list for good: the plan of steps loses a
   node when it is taken, and converge skips a node it has drained. *)
Visits ==
    /\ NoSecondVisit
    /\ \A n \in Touched : n \notin plan
    /\ InStep => target \notin plan
    /\ pc \in {"gate", "cordon"} => target \notin Touched
    /\ run.mode = "converge" =>
          \A n \in Touched : n \in skip \/ pc \in {"done", "crashed"} \/ (InStep /\ n = target)

(* Every cordoned node has been counted by the cap, the one in hand aside,
   and has cost a round of the envelope. *)
Counted ==
    LET uncounted == IF pc \in {"boundary", "gate", "cordon", "rail"} THEN 0 ELSE 1
        ahead     == IF pc \in {"gate", "cordon"} THEN 1 ELSE 0
    IN  /\ Cardinality(Touched) <= drained + uncounted
        /\ run.mode = "converge" => Cardinality(Touched) + rounds + ahead <= run.maxNodes
        /\ MaxNodesPerRun > 0 =>
              /\ Cardinality(Touched) <= MaxNodesPerRun
              /\ pc = "cordon" => drained < MaxNodesPerRun

(* The floor was measured without the target, and nobody else cordons. *)
FloorAhead ==
    /\ Touched # {} => Cardinality(Schedulable) >= MinReadyNodes
    /\ pc = "cordon" => Cardinality(Schedulable \ {target}) >= MinReadyNodes

(* The published headroom is covered by ready pods the budget does not need. *)
HeadroomCovered ==
    \A o \in Owners : Budgeted(o) => ReadyPods(o) >= MinAvailable[o] + allowed[o]

(* From the cordon on nothing new arrives on the target, and every movable pod
   it still has is one the drain will deal with. *)
Emptying ==
    /\ pc \in {"list", "recheck", "evict", "wait", "verify", "record"} => target \notin Schedulable
    /\ pc \in {"recheck", "evict", "wait"} => MovableOn(target) \subseteq todo
    /\ pc \in {"verify", "record"} => MovableOn(target) = {}

(* A workload is short only while a drain that took its pods is under way, and
   that drain remembers the full count. *)
ShortIsAffected ==
    /\ pc \notin {"recheck", "evict", "wait", "verify", "abort", "done", "crashed"} =>
          \A o \in Owners : ReadyPods(o) >= Replicas[o]
    /\ pc \in {"recheck", "evict", "wait", "verify"} =>
          \A o \in Owners : before[o] >= Replicas[o]
                            /\ (o \in affected \/ ReadyPods(o) >= Replicas[o])

(* Controllers never run more pods than asked for. *)
AlivePods(o) == {p \in PodsOf(o) : phase[p] \in Alive}
NoSurplus == \A o \in Owners : Cardinality(AlivePods(o)) <= Replicas[o]

(* The rail let the loop go on because the round freed a node. *)
FreedSince ==
    pc = "boundary" /\ run.mode = "converge" /\ skip # {} => Cardinality(Occupied) < occBefore

(* A pod waiting for a node has none, and every live pod still in the drain's
   hands is the one it listed. *)
StillTheListed ==
    /\ \A p \in Pods : phase[p] = "pending" => on[p] = NoNode
    /\ pc \in {"recheck", "evict", "wait"} =>
          \A p \in todo : phase[p] \in Alive => on[p] = target /\ p \notin Protected

-----------------------------------------------------------------------------
(* Counting pods and nodes. *)

(* Any set of pods or of nodes has a size. *)
LEMMA Sizes ==
    /\ \A S \in SUBSET Pods  : IsFiniteSet(S) /\ Cardinality(S) \in Nat
    /\ \A S \in SUBSET Nodes : IsFiniteSet(S) /\ Cardinality(S) \in Nat
BY ClusterAssumption, FS_Subset, FS_CardinalityType

(* The counts the executor and the budgets work with are numbers. *)
LEMMA CountTypes ==
    /\ HealthyByOwner \in [Owners -> Nat]
    /\ \A o \in Owners : ReadyPods(o) \in Nat /\ Headroom(o) \in Nat
    /\ Cardinality(Occupied) \in Nat
<1>1. \A o \in Owners : {p \in PodsOf(o) : CountsAsHealthy(p)} \in SUBSET Pods
    BY DEF PodsOf
<1>2. HealthyByOwner \in [Owners -> Nat]
    BY <1>1, Sizes DEF HealthyByOwner
<1>3. \A o \in Owners : ReadyPods(o) \in Nat
    <2>1. \A o \in Owners : {p \in PodsOf(o) : phase[p] = "ready"} \in SUBSET Pods
        BY DEF PodsOf
    <2>2. QED BY <2>1, Sizes DEF ReadyPods
<1>4. \A o \in Owners : Headroom(o) \in Nat
    BY <1>3, ClusterAssumption DEF Headroom
<1>5. Cardinality(Occupied) \in Nat
    BY Sizes DEF Occupied
<1>6. QED BY <1>2, <1>3, <1>4, <1>5

-----------------------------------------------------------------------------
(* Types. *)

(* What an eviction does to the cluster is well typed: headroom is only
   taken where there is some. *)
LEMMA EvictPodTypes ==
    ASSUME ClusterTypeOK, NEW p \in Pods, EvictPod(p)
    PROVE  ClusterTypeOK'
<1> USE ClusterAssumption DEF ClusterTypeOK, Phases, Alive
<1>1. OwnerOf[p] \in Owners
    OBVIOUS
<1>2. phase' \in [Pods -> Phases]
    BY DEF EvictPod
<1>3. allowed' \in [Owners -> Nat]
    <2>1. CASE phase[p] \in {"running", "ready"} /\ Budgeted(OwnerOf[p])
        BY <1>1, <2>1 DEF EvictPod, EvictionAccepted
    <2>2. CASE ~(phase[p] \in {"running", "ready"} /\ Budgeted(OwnerOf[p]))
        BY <1>1, <2>2 DEF EvictPod
    <2>3. QED BY <2>1, <2>2
<1>4. QED BY <1>2, <1>3 DEF EvictPod

(* So is what anybody else does. *)
LEMMA EnvTypes ==
    ASSUME ClusterTypeOK, NEW R, EnvNext(R)
    PROVE  ClusterTypeOK'
<1> USE ClusterAssumption DEF ClusterTypeOK, Phases, Alive
<1>1. ASSUME NEW p \in Pods, CreatePod(p, R) PROVE ClusterTypeOK'
    BY <1>1 DEF CreatePod
<1>2. ASSUME NEW p \in Pods, NEW n \in Nodes, BindPod(p, n) PROVE ClusterTypeOK'
    BY <1>2 DEF BindPod
<1>3. ASSUME NEW p \in Pods, PodBecomesReady(p) \/ PodTerminates(p) \/ OtherDeletesPod(p)
      PROVE ClusterTypeOK'
    BY <1>3 DEF PodBecomesReady, PodTerminates, OtherDeletesPod
<1>4. ASSUME NEW p \in Pods, OtherEvictsPod(p) PROVE ClusterTypeOK'
    BY <1>4, EvictPodTypes DEF OtherEvictsPod
<1>5. ASSUME NEW o \in Owners, SyncBudget(o) PROVE ClusterTypeOK'
    BY <1>5, CountTypes DEF SyncBudget
<1>6. ASSUME NEW n \in Nodes, OperatorCordons(n) \/ OperatorUncordons(n) \/ AutoscalerRemoves(n)
      PROVE ClusterTypeOK'
    BY <1>6 DEF OperatorCordons, OperatorUncordons, AutoscalerRemoves, Schedulable
<1>7. CASE WindowTurns
    BY <1>7 DEF WindowTurns
<1>8. QED BY <1>1, <1>2, <1>3, <1>4, <1>5, <1>6, <1>7 DEF EnvNext

(* Types and control are inductive together. *)
LEMMA TypeStep ==
    ASSUME TypeOK, Control, [Next]_vars
    PROVE  TypeOK' /\ Control'
<1> USE ClusterAssumption, ExecutorAssumption, GuardAssumption
    DEF TypeOK, Control, InStep, Outcomes, Finish, AbortWith, stepVars, loopVars, history
<1> USE DEF clusterVars
<1>1. CASE Choose
    <2>1. CASE StopRequested \/ StepsDone \/ NoStep \/ Converged
        BY <2>1 DEF StopRequested, StepsDone, NoStep, Converged, ClusterTypeOK
    <2>2. CASE NextStep
        BY <2>2 DEF NextStep, ClusterTypeOK
    <2>3. CASE PlanRound
        BY <2>3, CountTypes DEF PlanRound, Candidates, ClusterTypeOK
    <2>4. QED BY <1>1, <2>1, <2>2, <2>3 DEF Choose
<1>2. CASE GatePasses \/ GateRefuses \/ GateFails \/ Rehearse
    BY <1>2 DEF GatePasses, GateRefuses, GateFails, Rehearse, ClusterTypeOK
<1>3. CASE Cordon \/ CordonFails \/ CordonReplyLost
    BY <1>3 DEF Cordon, CordonFails, CordonReplyLost, ClusterTypeOK
<1>4. CASE ListPods
    BY <1>4, CountTypes DEF ListPods, MovableOn, PodsOn, ClusterTypeOK
<1>5. CASE \E p \in Pods : PodAlreadyGone(p) \/ RecheckPasses(p) \/ RecheckBlocks(p)
    BY <1>5 DEF PodAlreadyGone, RecheckPasses, RecheckBlocks, ClusterTypeOK
<1>6. CASE DrainReadFails \/ EvictRefused \/ WaitGone \/ Emptied \/ Verify \/ SettleTimesOut
    BY <1>6 DEF DrainReadFails, EvictRefused, WaitGone, Emptied, Verify, SettleTimesOut, ClusterTypeOK
<1>7. CASE Evict \/ EvictFails
    <2>1. ClusterTypeOK'
        <3>1. CASE UNCHANGED clusterVars
            BY <3>1 DEF ClusterTypeOK
        <3>2. CASE EvictPod(cur)
            BY <1>7, <3>2, EvictPodTypes DEF Evict, EvictFails
        <3>3. QED BY <1>7, <3>1, <3>2 DEF Evict, EvictFails
    <2>2. CASE Evict
        BY <2>1, <2>2 DEF Evict
    <2>3. CASE EvictFails
        BY <2>1, <2>3 DEF EvictFails
    <2>4. QED BY <1>7, <2>2, <2>3
<1>8. CASE RecordDrain \/ Rail \/ RailReadFails
    BY <1>8 DEF RecordDrain, Rail, RailReadFails, ClusterTypeOK
<1>9. CASE Abort \/ AbortFails \/ Crash
    BY <1>9 DEF Abort, AbortFails, Crash, ClusterTypeOK
<1>10. CASE Cluster
    <2>1. ClusterTypeOK'
        BY <1>10, EnvTypes DEF Cluster
    <2>2. QED BY <1>10, <2>1 DEF Cluster, execVars
<1>11. CASE UNCHANGED vars
    BY <1>11 DEF vars, execVars, ClusterTypeOK
<1>12. QED
    BY <1>1, <1>2, <1>3, <1>4, <1>5, <1>6, <1>7, <1>8, <1>9, <1>10, <1>11
    DEF Next, Execute, Step

(* A run starts well typed. *)
LEMMA TypeInit == Init => TypeOK /\ Control
<1> SUFFICES ASSUME Init PROVE TypeOK /\ Control
    OBVIOUS
<1> USE ClusterAssumption, ExecutorAssumption DEF Init, InitCluster
<1>1. ClusterTypeOK
    BY CountTypes DEF ClusterTypeOK, Phases
<1>2. TypeOK
    BY <1>1 DEF TypeOK, Runs, NoneHealthy, Outcomes
<1>3. Control
    BY DEF Control, InStep, Runs
<1>4. QED BY <1>2, <1>3

(* Both hold throughout. *)
LEMMA TypesAndControl == Spec => [](TypeOK /\ Control)
<1>1. TypeOK /\ Control /\ [Next]_vars => TypeOK' /\ Control'
    BY TypeStep
<1>2. QED BY <1>1, TypeInit, PTL DEF Spec

(* Type correctness: no counter of the run goes below zero, no headroom does,
   and every pod evicted and node patched is one of the cluster's. *)
THEOREM ExecutorTypes == Spec => []TypeOK
BY TypesAndControl, PTL

-----------------------------------------------------------------------------
(* Cordons. *)

(* Every exit of performStep that follows a cordon passes through record or
   abort, and both settle what is owed. *)
LEMMA OwedStep ==
    ASSUME "reply" \notin Faults, TypeOK, Control, OwedIsTarget, [Next]_vars
    PROVE  OwedIsTarget'
<1> USE DEF OwedIsTarget, InStep, Finish, AbortWith, stepVars, loopVars, history
<1>1. CASE Choose
    BY <1>1 DEF Choose, StopRequested, StepsDone, NextStep, NoStep, PlanRound, Converged
<1>2. CASE GatePasses \/ GateRefuses \/ GateFails \/ Rehearse
    BY <1>2 DEF GatePasses, GateRefuses, GateFails, Rehearse
<1>3. CASE Cordon \/ CordonFails \/ CordonReplyLost
    BY <1>3 DEF Cordon, CordonFails, CordonReplyLost
<1>4. CASE ListPods \/ Emptied \/ Verify \/ WaitGone \/ Evict
    BY <1>4 DEF ListPods, Emptied, Verify, WaitGone, Evict
<1>5. CASE \E p \in Pods : PodAlreadyGone(p) \/ RecheckPasses(p) \/ RecheckBlocks(p)
    BY <1>5 DEF PodAlreadyGone, RecheckPasses, RecheckBlocks
<1>6. CASE DrainReadFails \/ EvictRefused \/ EvictFails \/ SettleTimesOut
    BY <1>6 DEF DrainReadFails, EvictRefused, EvictFails, SettleTimesOut
<1>7. CASE RecordDrain \/ Rail \/ RailReadFails
    BY <1>7 DEF RecordDrain, Rail, RailReadFails
<1>8. CASE Abort \/ AbortFails \/ Crash
    BY <1>8 DEF Abort, AbortFails, Crash
<1>9. CASE Cluster \/ UNCHANGED vars
    BY <1>9 DEF Cluster, vars, execVars
<1>10. QED
    BY <1>1, <1>2, <1>3, <1>4, <1>5, <1>6, <1>7, <1>8, <1>9 DEF Next, Execute, Step

(* If every cordon call that took effect says so, no run leaves a node cordoned
   that it neither drained nor reported: between steps and at the end nothing
   is owed (performStep, abort). *)
THEOREM EveryCordonAccounted ==
    ASSUME "reply" \notin Faults
    PROVE  Spec => []CordonAccounted
<1>1. Init => OwedIsTarget
    BY DEF Init, OwedIsTarget, InStep
<1>2. TypeOK /\ Control /\ OwedIsTarget /\ [Next]_vars => OwedIsTarget'
    BY OwedStep
<1>3. OwedIsTarget => CordonAccounted
    BY DEF OwedIsTarget, CordonAccounted
<1>4. QED BY <1>1, <1>2, <1>3, TypesAndControl, PTL DEF Spec

(* A node that was cordoned cannot become a target again. *)
LEMMA VisitsStep ==
    ASSUME TypeOK, Control, Visits, [Next]_vars
    PROVE  Visits'
<1> USE DEF TypeOK, Control, Visits, NoSecondVisit, Touched, InStep, Finish, AbortWith,
            stepVars, loopVars, history
<1>1. CASE Choose
    BY <1>1 DEF Choose, StopRequested, StepsDone, NextStep, NoStep, PlanRound, Converged, Candidates
<1>2. CASE GatePasses \/ GateRefuses \/ GateFails \/ Rehearse
    BY <1>2 DEF GatePasses, GateRefuses, GateFails, Rehearse
<1>3. CASE Cordon \/ CordonFails \/ CordonReplyLost
    BY <1>3 DEF Cordon, CordonFails, CordonReplyLost
<1>4. CASE ListPods \/ Emptied \/ Verify \/ WaitGone \/ Evict
    BY <1>4 DEF ListPods, Emptied, Verify, WaitGone, Evict
<1>5. CASE \E p \in Pods : PodAlreadyGone(p) \/ RecheckPasses(p) \/ RecheckBlocks(p)
    BY <1>5 DEF PodAlreadyGone, RecheckPasses, RecheckBlocks
<1>6. CASE DrainReadFails \/ EvictRefused \/ EvictFails \/ SettleTimesOut
    BY <1>6 DEF DrainReadFails, EvictRefused, EvictFails, SettleTimesOut
<1>7. CASE RecordDrain \/ Rail \/ RailReadFails
    BY <1>7 DEF RecordDrain, Rail, RailReadFails
<1>8. CASE Abort \/ AbortFails \/ Crash
    BY <1>8 DEF Abort, AbortFails, Crash
<1>9. CASE Cluster \/ UNCHANGED vars
    BY <1>9 DEF Cluster, vars, execVars
<1>10. QED
    BY <1>1, <1>2, <1>3, <1>4, <1>5, <1>6, <1>7, <1>8, <1>9 DEF Next, Execute, Step

(* No run cordons a node twice, whatever operators, controllers and the API do
   to the node in between (perform, converge). *)
THEOREM NoNodeTwice == Spec => []NoSecondVisit
<1>1. Init => Visits
    BY DEF Init, Visits, NoSecondVisit, Touched, InStep
<1>2. TypeOK /\ Control /\ Visits /\ [Next]_vars => Visits'
    BY VisitsStep
<1>3. Visits => NoSecondVisit
    BY DEF Visits
<1>4. QED BY <1>1, <1>2, <1>3, TypesAndControl, PTL DEF Spec

-----------------------------------------------------------------------------
(* Caps and floor. *)

(* Cordoning a node that was not touched adds one to the count, and nothing
   else changes it. *)
LEMMA TouchedStep ==
    ASSUME TypeOK, Control, [Next]_vars
    PROVE  \/ Touched' = Touched
           \/ /\ Cordon \/ CordonReplyLost
              /\ Touched' = Touched \cup {target}
              /\ Cardinality(Touched') <= Cardinality(Touched) + 1
<1>1. CASE Cordon \/ CordonReplyLost
    <2>1. Touched' = Touched \cup {target}
        BY <1>1 DEF Cordon, CordonReplyLost, Touched, TypeOK, Control, InStep
    <2>2. IsFiniteSet(Touched)
        BY Sizes DEF Touched
    <2>3. Cardinality(Touched \cup {target}) \in {Cardinality(Touched), Cardinality(Touched) + 1}
        BY <2>2, FS_AddElement
    <2>4. Cardinality(Touched) \in Nat
        BY <2>2, FS_CardinalityType
    <2>5. QED BY <1>1, <2>1, <2>3, <2>4
<1>2. CASE ~(Cordon \/ CordonReplyLost)
    <2>1. cordons' = cordons
        BY <1>2 DEF Next, Execute, Choose, Step, history, StopRequested, StepsDone, NextStep, NoStep,
            PlanRound, Converged, GatePasses, GateRefuses, GateFails, Rehearse, CordonFails,
            ListPods, PodAlreadyGone, RecheckPasses, RecheckBlocks, DrainReadFails, Evict,
            EvictRefused, EvictFails, WaitGone, Emptied, Verify, SettleTimesOut, RecordDrain,
            Rail, RailReadFails, Abort, AbortFails, Crash, Cluster, vars, execVars
    <2>2. QED BY <2>1 DEF Touched
<1>3. QED BY <1>1, <1>2

(* The counters stay ahead of the cordons. *)
LEMMA CountedStep ==
    ASSUME TypeOK, Control, Counted, [Next]_vars
    PROVE  Counted'
<1> DEFINE T == Cardinality(Touched)
<1>1. T \in Nat /\ T' \in Nat
    <2>1. Touched \in SUBSET Nodes /\ Touched' \in SUBSET Nodes
        BY DEF Touched
    <2>2. QED BY <2>1, Sizes
<1>2. run' = run /\ run.maxNodes \in Nat /\ drained \in Nat /\ rounds \in Nat
    <2>1. run' = run
        BY DEF Next, Execute, Choose, Step, history, StopRequested, StepsDone, NextStep, NoStep,
            PlanRound, Converged, GatePasses, GateRefuses, GateFails, Rehearse, Cordon, CordonFails,
            CordonReplyLost,
            ListPods, PodAlreadyGone, RecheckPasses, RecheckBlocks, DrainReadFails, Evict,
            EvictRefused, EvictFails, WaitGone, Emptied, Verify, SettleTimesOut, RecordDrain,
            Rail, RailReadFails, Abort, AbortFails, Crash, Cluster, vars, execVars
    <2>2. QED BY <2>1, ExecutorAssumption DEF TypeOK, Runs
<1>3. CASE Cordon \/ CordonReplyLost
    <2>1. T' <= T + 1
        BY <1>1, TouchedStep
    <2>2. /\ pc = "cordon" /\ pc' \in {"list", "done"}
          /\ UNCHANGED <<rounds, drained>>
        BY <1>3 DEF Cordon, CordonReplyLost, Finish, loopVars
    <2> HIDE DEF T
    <2>3. QED
        BY <1>1, <1>2, <2>1, <2>2, GuardAssumption DEF Counted, T
<1>4. CASE ~(Cordon \/ CordonReplyLost)
    <2>1. T' = T
        BY <1>4, TouchedStep
    <2> HIDE DEF T
    <2> USE <1>1, <1>2, <2>1, GuardAssumption DEF Counted, T, Finish, AbortWith, loopVars
    <2>2. CASE Choose
        BY <2>2 DEF Choose, StopRequested, StepsDone, NextStep, NoStep, PlanRound, Converged, Control
    <2>3. CASE GatePasses \/ GateRefuses \/ GateFails \/ Rehearse
        BY <2>3 DEF GatePasses, GateRefuses, GateFails, Rehearse, CheckStep
    <2>4. CASE CordonFails \/ ListPods \/ Emptied \/ Verify \/ WaitGone \/ Evict
        BY <2>4 DEF CordonFails, ListPods, Emptied, Verify, WaitGone, Evict
    <2>5. CASE \E p \in Pods : PodAlreadyGone(p) \/ RecheckPasses(p) \/ RecheckBlocks(p)
        BY <2>5 DEF PodAlreadyGone, RecheckPasses, RecheckBlocks
    <2>6. CASE DrainReadFails \/ EvictRefused \/ EvictFails \/ SettleTimesOut
        BY <2>6 DEF DrainReadFails, EvictRefused, EvictFails, SettleTimesOut
    <2>7. CASE RecordDrain \/ Rail \/ RailReadFails
        BY <2>7 DEF RecordDrain, Rail, RailReadFails
    <2>8. CASE Abort \/ AbortFails \/ Crash
        BY <2>8 DEF Abort, AbortFails, Crash
    <2>9. CASE Cluster \/ UNCHANGED vars
        BY <2>9 DEF Cluster, vars, execVars
    <2>10. QED
        BY <1>4, <2>2, <2>3, <2>4, <2>5, <2>6, <2>7, <2>8, <2>9 DEF Next, Execute, Step
<1>5. QED BY <1>3, <1>4

(* A run starts with nothing touched and its whole envelope ahead. *)
LEMMA CountedInit == Init => Counted
<1> SUFFICES ASSUME Init PROVE Counted
    OBVIOUS
<1>1. Touched = {}
    BY DEF Init, Touched
<1>2. Cardinality(Touched) = 0
    BY <1>1, FS_EmptySet
<1>3. QED BY <1>2, GuardAssumption, ExecutorAssumption DEF Init, Counted, Runs

(* No run cordons more nodes than maxNodesPerRun, nor a converge run more than
   its envelope, whatever fails and whoever interferes: the count is read at
   the gate and the node is cordoned one call later, but the run is the only
   one that moves it (CheckStep, converge). *)
THEOREM CapsAlwaysHold == Spec => []CapsHold
<1>1. TypeOK /\ Control /\ Counted /\ [Next]_vars => Counted'
    BY CountedStep
<1>2. TypeOK /\ Counted => CapsHold
    <2> SUFFICES ASSUME TypeOK, Counted PROVE CapsHold
        OBVIOUS
    <2>1. Cardinality(Touched) \in Nat
        BY Sizes DEF Touched
    <2>2. QED BY <2>1, GuardAssumption, ExecutorAssumption DEF Counted, CapsHold, TypeOK, Runs
<1>3. QED BY <1>1, <1>2, CountedInit, TypesAndControl, PTL DEF Spec

(* As long as nobody else cordons, only the run itself shrinks the pool of
   schedulable nodes, and only by the node the floor was measured without. *)
LEMMA FloorStep ==
    ASSUME "cordon" \notin EnvFaults, TypeOK, Control, FloorAhead, [Next]_vars
    PROVE  FloorAhead'
<1>1. \A S \in SUBSET Nodes : Cardinality(S) \in Nat
    BY Sizes
<1>2. \A S \in SUBSET Nodes : \A R \in SUBSET S : Cardinality(R) <= Cardinality(S)
    BY Sizes, FS_Subset
<1>3. /\ Schedulable \in SUBSET Nodes /\ Schedulable \ {target} \in SUBSET Nodes
      /\ Schedulable' \in SUBSET Nodes /\ Schedulable' \ {target} \in SUBSET Nodes
    BY TypeStep DEF TypeOK, ClusterTypeOK, Schedulable
<1>4. ASSUME Schedulable \subseteq Schedulable', pc' # "cordon", Touched' = Touched
      PROVE  FloorAhead'
    <2>1. Cardinality(Schedulable) <= Cardinality(Schedulable')
        BY <1>2, <1>3, <1>4
    <2>2. QED BY <1>1, <1>3, <1>4, <2>1, GuardAssumption DEF FloorAhead
<1>5. ASSUME Schedulable \subseteq Schedulable', pc = "cordon", target' = target, Touched' = Touched
      PROVE  FloorAhead'
    <2>1. Schedulable \ {target} \subseteq Schedulable' \ {target}
        BY <1>5
    <2>2. /\ Cardinality(Schedulable) <= Cardinality(Schedulable')
          /\ Cardinality(Schedulable \ {target}) <= Cardinality(Schedulable' \ {target})
        BY <1>2, <1>3, <1>5, <2>1
    <2>3. /\ Cardinality(Schedulable) \in Nat /\ Cardinality(Schedulable') \in Nat
          /\ Cardinality(Schedulable \ {target}) \in Nat
          /\ Cardinality(Schedulable' \ {target}) \in Nat
        BY <1>1, <1>3
    <2>4. QED BY <1>5, <2>2, <2>3, GuardAssumption DEF FloorAhead
<1>6. CASE Cordon \/ CordonReplyLost
    <2>1. Schedulable' = Schedulable \ {target}
        BY <1>6 DEF Cordon, CordonReplyLost, Schedulable
    <2>2. pc = "cordon" /\ pc' # "cordon"
        BY <1>6 DEF Cordon, CordonReplyLost, Finish
    <2>3. QED BY <2>1, <2>2 DEF FloorAhead
<1>7. CASE Abort \/ AbortFails
    <2>1. Schedulable \subseteq Schedulable' /\ pc' # "cordon" /\ cordons' = cordons
        BY <1>7 DEF Abort, AbortFails, Schedulable
    <2>2. QED BY <1>4, <2>1 DEF Touched
<1>8. CASE GatePasses
    <2>1. FloorKept(target) /\ UNCHANGED <<exists, cordoned, target, cordons>>
        BY <1>8 DEF GatePasses, CheckStep, clusterVars, history
    <2>2. Cardinality(Schedulable \ {target}) >= MinReadyNodes
        BY <1>1, <1>3, <2>1, GuardAssumption DEF FloorKept
    <2>3. QED BY <2>1, <2>2 DEF FloorAhead, Schedulable, Touched
<1>9. CASE Cluster
    <2>1. Schedulable \subseteq Schedulable'
        <3>1. EnvNext(todo \cup {cur})
            BY <1>9 DEF Cluster
        <3>2. QED
            BY <3>1 DEF EnvNext, CreatePod, BindPod, PodBecomesReady, PodTerminates, SyncBudget,
                OtherDeletesPod, OtherEvictsPod, EvictPod, OperatorCordons, OperatorUncordons,
                AutoscalerRemoves, WindowTurns, Schedulable
    <2>2. UNCHANGED <<pc, target, Touched>>
        BY <1>9 DEF Cluster, execVars, Touched
    <2>3. QED BY <1>4, <1>5, <2>1, <2>2
<1>10. CASE UNCHANGED vars
    BY <1>10 DEF vars, clusterVars, execVars, FloorAhead, Schedulable, Touched
<1>11. ASSUME Execute \/ Crash,
              ~(Cordon \/ CordonReplyLost \/ Abort \/ AbortFails \/ GatePasses)
       PROVE FloorAhead'
    <2>1. pc' # "cordon" /\ UNCHANGED <<exists, cordoned, cordons>>
        BY <1>11 DEF Execute, Choose, Step, history, clusterVars, StopRequested, StepsDone, NextStep,
            NoStep, PlanRound, Converged, GateRefuses, GateFails, Rehearse, CordonFails,
            ListPods, PodAlreadyGone, RecheckPasses, RecheckBlocks, DrainReadFails, Evict,
            EvictRefused, EvictFails, WaitGone, Emptied, Verify, SettleTimesOut, RecordDrain,
            Rail, RailReadFails, Crash, Finish, AbortWith, EvictPod
    <2>2. Schedulable' = Schedulable /\ Touched' = Touched
        BY <2>1 DEF Schedulable, Touched
    <2>3. QED BY <1>4, <2>1, <2>2
<1>12. QED
    BY <1>6, <1>7, <1>8, <1>9, <1>10, <1>11 DEF Next

(* If nobody else cordons nodes, then besides keeping both caps the run never
   takes the schedulable pool below minReadyNodes (checkNodeFloor). *)
THEOREM RailsAlwaysHold ==
    ASSUME "cordon" \notin EnvFaults
    PROVE  Spec => []RailsHold
<1>1. Init => FloorAhead
    BY DEF Init, FloorAhead, Touched
<1>2. TypeOK /\ Control /\ FloorAhead /\ [Next]_vars => FloorAhead'
    BY FloorStep
<1>3. CapsHold /\ FloorAhead => RailsHold
    BY DEF FloorAhead, RailsHold
<1>4. QED BY <1>1, <1>2, <1>3, TypesAndControl, CapsAlwaysHold, PTL DEF Spec

-----------------------------------------------------------------------------
(* Budgets. *)

(* The executor's own calls leave the pods alone, the eviction aside. *)
LEMMA QuietCalls ==
    ASSUME Execute \/ Crash \/ UNCHANGED vars, ~(Evict \/ EvictFails)
    PROVE  UNCHANGED <<phase, on, allowed>>
BY DEF Execute, Choose, Step, clusterVars, StopRequested, StepsDone, NextStep, NoStep, PlanRound,
    Converged, GatePasses, GateRefuses, GateFails, Rehearse, Cordon, CordonFails, CordonReplyLost,
    ListPods, PodAlreadyGone, RecheckPasses, RecheckBlocks, DrainReadFails, EvictRefused, WaitGone,
    Emptied, Verify, SettleTimesOut, RecordDrain, Rail, RailReadFails, Abort, AbortFails, Crash,
    vars

(* A change to one pod takes at most one ready pod from its own workload, and
   none where the pod was not ready, or still is. *)
LEMMA ReadyChange ==
    ASSUME phase \in [Pods -> Phases], NEW p \in Pods, NEW v,
           phase' = [phase EXCEPT ![p] = v], NEW o \in Owners
    PROVE  /\ ReadyPods(o)' >= ReadyPods(o) - 1
           /\ phase[p] # "ready" \/ v = "ready" \/ OwnerOf[p] # o => ReadyPods(o)' >= ReadyPods(o)
<1> DEFINE R == {q \in PodsOf(o) : phase[q] = "ready"}
<1>1. R \in SUBSET Pods /\ R' \in SUBSET Pods /\ R \ {p} \in SUBSET Pods
    BY DEF PodsOf
<1>2. IsFiniteSet(R) /\ IsFiniteSet(R')
    BY <1>1, Sizes
<1>3. /\ Cardinality(R) \in Nat /\ Cardinality(R') \in Nat
      /\ Cardinality(R \ {p}) \in Nat
    BY <1>1, Sizes
<1>4. R \ {p} \subseteq R'
    BY DEF PodsOf
<1>5. Cardinality(R \ {p}) >= Cardinality(R) - 1
    <2>1. Cardinality(R \ {p}) = IF p \in R THEN Cardinality(R) - 1 ELSE Cardinality(R)
        BY <1>2, FS_RemoveElement
    <2>2. QED BY <1>3, <2>1
<1>6. Cardinality(R \ {p}) <= Cardinality(R')
    BY <1>2, <1>4, FS_Subset
<1>7. ASSUME phase[p] # "ready" \/ v = "ready" \/ OwnerOf[p] # o
      PROVE  Cardinality(R) <= Cardinality(R')
    <2>1. R \subseteq R'
        BY <1>7 DEF PodsOf
    <2>2. QED BY <1>2, <2>1, FS_Subset
<1>8. ReadyPods(o) = Cardinality(R) /\ ReadyPods(o)' = Cardinality(R')
    BY DEF ReadyPods, PodsOf
<1> HIDE DEF R
<1>9. QED BY <1>3, <1>5, <1>6, <1>7, <1>8

(* An eviction pays for the ready pod it takes with published headroom. *)
LEMMA EvictKeepsCover ==
    ASSUME ClusterTypeOK, HeadroomCovered, NEW p \in Pods, EvictPod(p)
    PROVE  HeadroomCovered'
<1> SUFFICES ASSUME NEW o \in Owners, Budgeted(o)
             PROVE  ReadyPods(o)' >= MinAvailable[o] + allowed'[o]
    BY DEF HeadroomCovered, Budgeted
<1> DEFINE v == IF phase[p] \in Alive THEN "terminating" ELSE phase[p]
<1>1. phase' = [phase EXCEPT ![p] = v]
    BY DEF EvictPod
<1>2. /\ ReadyPods(o)' >= ReadyPods(o) - 1
      /\ phase[p] # "ready" \/ v = "ready" \/ OwnerOf[p] # o => ReadyPods(o)' >= ReadyPods(o)
    <2> HIDE DEF v
    <2>1. QED BY <1>1, ReadyChange DEF ClusterTypeOK
<1>3. ReadyPods(o) \in Nat /\ ReadyPods(o)' \in Nat
    <2>1. {q \in PodsOf(o) : phase'[q] = "ready"} \in SUBSET Pods
        BY DEF PodsOf
    <2>2. ReadyPods(o)' = Cardinality({q \in PodsOf(o) : phase'[q] = "ready"})
        BY DEF ReadyPods, PodsOf
    <2>3. QED BY <2>1, <2>2, CountTypes, Sizes
<1>4. allowed[o] \in Nat /\ MinAvailable[o] \in Nat /\ allowed'[o] \in Nat
    BY EvictPodTypes, ClusterAssumption DEF ClusterTypeOK
<1>5. ReadyPods(o) >= MinAvailable[o] + allowed[o]
    BY DEF HeadroomCovered
<1>6. CASE OwnerOf[p] = o /\ phase[p] \in {"running", "ready"}
    <2>1. allowed'[o] = allowed[o] - 1
        BY <1>6 DEF EvictPod, ClusterTypeOK
    <2>2. QED BY <1>2, <1>3, <1>4, <1>5, <2>1
<1>7. CASE ~(OwnerOf[p] = o /\ phase[p] \in {"running", "ready"})
    <2>1. allowed'[o] = allowed[o]
        BY <1>7 DEF EvictPod, ClusterTypeOK
    <2>2. ReadyPods(o)' >= ReadyPods(o)
        BY <1>2, <1>7
    <2>3. QED BY <1>3, <1>4, <1>5, <2>1, <2>2
<1>8. QED BY <1>6, <1>7

(* Everything else either leaves the ready pods and the headroom, adds a ready
   pod, or publishes a headroom that is covered. *)
LEMMA CoverStep ==
    ASSUME "delete" \notin EnvFaults, TypeOK, Control, HeadroomCovered, [Next]_vars
    PROVE  HeadroomCovered'
<1>1. CASE Evict \/ EvictFails
    <2>1. cur \in Pods
        BY <1>1 DEF Evict, EvictFails, Control, TypeOK
    <2>2. CASE EvictPod(cur)
        BY <2>1, <2>2, EvictKeepsCover DEF TypeOK
    <2>3. CASE UNCHANGED clusterVars
        BY <2>3 DEF clusterVars, HeadroomCovered, ReadyPods, PodsOf, Budgeted
    <2>4. QED BY <1>1, <2>2, <2>3 DEF Evict, EvictFails
<1>2. ASSUME UNCHANGED <<phase, allowed>> PROVE HeadroomCovered'
    BY <1>2 DEF HeadroomCovered, ReadyPods, PodsOf, Budgeted
<1>3. ASSUME NEW p \in Pods, NEW v, phase' = [phase EXCEPT ![p] = v],
             phase[p] # "ready", UNCHANGED allowed
      PROVE  HeadroomCovered'
    <2> SUFFICES ASSUME NEW o \in Owners, Budgeted(o)
                 PROVE  ReadyPods(o)' >= MinAvailable[o] + allowed'[o]
        BY DEF HeadroomCovered, Budgeted
    <2>1. ReadyPods(o)' >= ReadyPods(o)
        BY <1>3, ReadyChange DEF TypeOK, ClusterTypeOK
    <2>2. ReadyPods(o)' \in Nat
        <3>1. {q \in PodsOf(o) : phase'[q] = "ready"} \in SUBSET Pods
            BY DEF PodsOf
        <3>2. QED BY <3>1, Sizes DEF ReadyPods, PodsOf
    <2>3. allowed[o] \in Nat /\ MinAvailable[o] \in Nat /\ ReadyPods(o) \in Nat
        BY ClusterAssumption, CountTypes DEF TypeOK, ClusterTypeOK
    <2>4. QED BY <1>3, <2>1, <2>2, <2>3 DEF HeadroomCovered
<1>4. CASE Cluster
    <2>1. ASSUME NEW p \in Pods, CreatePod(p, todo \cup {cur}) \/ (\E n \in Nodes : BindPod(p, n))
                                 \/ PodBecomesReady(p) \/ PodTerminates(p)
          PROVE  HeadroomCovered'
        <3>1. PICK v \in {"pending", "running", "ready", "none"} : phase' = [phase EXCEPT ![p] = v]
            BY <2>1 DEF CreatePod, BindPod, PodBecomesReady, PodTerminates
        <3>2. phase[p] # "ready" /\ UNCHANGED allowed
            BY <2>1 DEF CreatePod, BindPod, PodBecomesReady, PodTerminates
        <3>3. QED BY <1>3, <3>1, <3>2
    <2>2. ASSUME NEW p \in Pods, OtherEvictsPod(p) PROVE HeadroomCovered'
        BY <2>2, EvictKeepsCover DEF OtherEvictsPod, TypeOK
    <2>3. ASSUME NEW o \in Owners, SyncBudget(o) PROVE HeadroomCovered'
        <3> SUFFICES ASSUME NEW u \in Owners, Budgeted(u)
                     PROVE  ReadyPods(u)' >= MinAvailable[u] + allowed'[u]
            BY DEF HeadroomCovered, Budgeted
        <3>1. ReadyPods(u)' = ReadyPods(u)
            BY <2>3 DEF SyncBudget, ReadyPods, PodsOf
        <3>2. /\ ReadyPods(u) \in Nat /\ MinAvailable[u] \in Nat /\ allowed[u] \in Nat
              /\ ReadyPods(u) >= MinAvailable[u] + allowed[u]
            BY ClusterAssumption, CountTypes DEF TypeOK, ClusterTypeOK, HeadroomCovered
        <3>3. allowed'[u] = allowed[u] \/ allowed'[u] = Headroom(u)
            BY <2>3 DEF SyncBudget, TypeOK, ClusterTypeOK
        <3>4. QED BY <3>1, <3>2, <3>3 DEF Headroom
    <2>4. ASSUME NEW n \in Nodes,
                 OperatorCordons(n) \/ OperatorUncordons(n) \/ AutoscalerRemoves(n)
          PROVE  HeadroomCovered'
        BY <1>2, <2>4 DEF OperatorCordons, OperatorUncordons, AutoscalerRemoves
    <2>5. CASE WindowTurns
        BY <1>2, <2>5 DEF WindowTurns
    <2>6. QED
        BY <1>4, <2>1, <2>2, <2>3, <2>4, <2>5 DEF Cluster, EnvNext, OtherDeletesPod
<1>5. QED BY <1>1, <1>2, <1>4, QuietCalls DEF Next

(* The pods of a workload that run when the run is claimed. *)
InitialPods(o) == {p \in PodsOf(o) : InitialOn[p] # NoNode}

(* The first ready pods are the first pods. *)
LEMMA FirstReady == Init => \A o \in Owners : ReadyPods(o) = Cardinality(InitialPods(o))
<1> SUFFICES ASSUME Init, NEW o \in Owners
             PROVE  {p \in PodsOf(o) : phase[p] = "ready"} = InitialPods(o)
    BY DEF ReadyPods, InitialPods
<1>1. QED BY DEF Init, InitCluster, PodsOf, InitialPods

(* No run takes a workload below its disruption budget, for any interleaving of
   its pre-flight checks, its evictions and somebody else's, with every call
   failing or losing its answer: if the cluster starts within its budgets and
   pods leave only through the eviction API (CheckEviction, Evict). *)
THEOREM BudgetsAlwaysKept ==
    ASSUME "delete" \notin EnvFaults,
           \A o \in Owners : Budgeted(o) => Cardinality(InitialPods(o)) >= MinAvailable[o]
    PROVE  Spec => []BudgetKept
<1>1. Init => HeadroomCovered
    <2> SUFFICES ASSUME Init, NEW o \in Owners, Budgeted(o)
                 PROVE  ReadyPods(o) >= MinAvailable[o] + allowed[o]
        BY DEF HeadroomCovered
    <2>1. ReadyPods(o) >= MinAvailable[o]
        BY FirstReady
    <2>2. ReadyPods(o) \in Nat /\ MinAvailable[o] \in Nat /\ allowed[o] = Headroom(o)
        BY CountTypes, ClusterAssumption DEF Init, InitCluster
    <2>3. QED BY <2>1, <2>2 DEF Headroom
<1>2. TypeOK /\ Control /\ HeadroomCovered /\ [Next]_vars => HeadroomCovered'
    BY CoverStep
<1>3. TypeOK /\ HeadroomCovered => BudgetKept
    <2> SUFFICES ASSUME TypeOK, HeadroomCovered, NEW o \in Owners, Budgeted(o)
                 PROVE  ReadyPods(o) >= MinAvailable[o]
        BY DEF BudgetKept
    <2>1. ReadyPods(o) \in Nat /\ MinAvailable[o] \in Nat /\ allowed[o] \in Nat
        BY CountTypes, ClusterAssumption DEF TypeOK, ClusterTypeOK
    <2>2. QED BY <2>1 DEF HeadroomCovered
<1>4. QED BY <1>1, <1>2, <1>3, TypesAndControl, PTL DEF Spec

-----------------------------------------------------------------------------
(* The drain. *)

(* Nobody but a bind puts a movable pod on a node, and no
   pod is bound to a node that is not schedulable. *)
LEMMA MovableShrinks ==
    ASSUME TypeOK, target \in Nodes, target \notin Schedulable, UNCHANGED target,
           EnvNext(todo \cup {cur}) \/ (\E p \in Pods : EvictPod(p)) \/ UNCHANGED <<phase, on>>
    PROVE  MovableOn(target)' \subseteq MovableOn(target)
<1> USE ClusterAssumption DEF TypeOK, ClusterTypeOK, MovableOn, PodsOn, Listed, Movable, Alive
<1>1. ASSUME NEW p \in Pods, EvictPod(p) PROVE MovableOn(target)' \subseteq MovableOn(target)
    BY <1>1 DEF EvictPod
<1>2. ASSUME UNCHANGED <<phase, on>> PROVE MovableOn(target)' \subseteq MovableOn(target)
    BY <1>2
<1>3. ASSUME NEW p \in Pods, CreatePod(p, todo \cup {cur}) \/ PodBecomesReady(p)
                             \/ PodTerminates(p) \/ OtherDeletesPod(p)
      PROVE MovableOn(target)' \subseteq MovableOn(target)
    BY <1>3 DEF CreatePod, PodBecomesReady, PodTerminates, OtherDeletesPod
<1>4. ASSUME NEW p \in Pods, NEW m \in Nodes, BindPod(p, m)
      PROVE MovableOn(target)' \subseteq MovableOn(target)
    BY <1>4 DEF BindPod
<1>5. CASE EnvNext(todo \cup {cur})
    BY <1>1, <1>2, <1>3, <1>4, <1>5 DEF EnvNext, OtherEvictsPod, SyncBudget, OperatorCordons,
        OperatorUncordons, AutoscalerRemoves, WindowTurns
<1>6. QED BY <1>1, <1>2, <1>5

(* Each pod the drain drops from its list is gone, so what is movable on the
   target stays within the list. *)
LEMMA EmptyingStep ==
    ASSUME "uncordon" \notin EnvFaults, TypeOK, Control, Emptying, [Next]_vars
    PROVE  Emptying'
<1> DEFINE Drain == {"list", "recheck", "evict", "wait", "verify", "record"}
<1> USE DEF InStep, Finish, AbortWith, stepVars, loopVars, clusterVars
<1>1. ASSUME pc' \notin Drain PROVE Emptying'
    BY <1>1 DEF Emptying
<1>2. ASSUME pc \in Drain, UNCHANGED <<exists, cordoned, target>>,
             pc' \in {"recheck", "evict", "wait"} => MovableOn(target)' \subseteq todo',
             pc' \in {"verify", "record"} => MovableOn(target)' = {}
      PROVE  Emptying'
    BY <1>2 DEF Emptying, Schedulable
<1>3. pc \in Drain => target \in Nodes /\ target \notin Schedulable
    BY DEF Control, Emptying
<1>4. CASE Choose \/ GatePasses \/ GateRefuses \/ GateFails \/ Rehearse
    BY <1>1, <1>4 DEF Choose, StopRequested, StepsDone, NextStep, NoStep, PlanRound, Converged,
        GatePasses, GateRefuses, GateFails, Rehearse
<1>5. CASE Cordon
    BY <1>5 DEF Cordon, Emptying, Schedulable
<1>6. CASE ListPods
    <2>1. MovableOn(target)' = MovableOn(target)
        BY <1>6 DEF ListPods, MovableOn, PodsOn, Listed, Movable
    <2>2. QED BY <1>2, <1>6, <2>1 DEF ListPods
<1>7. ASSUME NEW p \in Pods, PodAlreadyGone(p) \/ RecheckPasses(p) PROVE Emptying'
    <2>1. MovableOn(target)' = MovableOn(target)
        BY <1>7 DEF PodAlreadyGone, RecheckPasses, MovableOn, PodsOn, Listed, Movable
    <2>2. PodAlreadyGone(p) => p \notin MovableOn(target)
        BY DEF PodAlreadyGone, MovableOn, PodsOn
    <2>3. QED BY <1>2, <1>7, <2>1, <2>2 DEF PodAlreadyGone, RecheckPasses, Emptying
<1>8. CASE Evict
    <2>1. EvictPod(cur) /\ cur \in Pods /\ pc = "evict" /\ UNCHANGED <<exists, cordoned, target, todo>>
        BY <1>8 DEF Evict, EvictPod, Control, TypeOK
    <2>2. MovableOn(target)' \subseteq MovableOn(target)
        BY <1>3, <2>1, MovableShrinks
    <2>3. QED BY <1>2, <1>8, <2>1, <2>2 DEF Evict, Emptying
<1>9. CASE WaitGone
    <2>1. MovableOn(target)' = MovableOn(target)
        BY <1>9 DEF WaitGone, MovableOn, PodsOn, Listed, Movable
    <2>2. cur \notin MovableOn(target)
        BY <1>9 DEF WaitGone, PodPresent, MovableOn, Movable
    <2>3. QED BY <1>2, <1>9, <2>1, <2>2 DEF WaitGone, Emptying
<1>10. CASE Emptied \/ Verify
    <2>1. MovableOn(target)' = MovableOn(target)
        BY <1>10 DEF Emptied, Verify, MovableOn, PodsOn, Listed, Movable
    <2>2. QED BY <1>2, <1>10, <2>1 DEF Emptied, Verify, Emptying
<1>11. CASE \/ CordonFails \/ CordonReplyLost \/ DrainReadFails \/ EvictRefused \/ EvictFails
            \/ SettleTimesOut \/ RecordDrain \/ Rail \/ RailReadFails \/ Abort \/ AbortFails \/ Crash
            \/ \E p \in Pods : RecheckBlocks(p)
    BY <1>1, <1>11 DEF CordonFails, CordonReplyLost, RecheckBlocks, DrainReadFails, EvictRefused,
        EvictFails, SettleTimesOut, RecordDrain, Rail, RailReadFails, Abort, AbortFails, Crash
<1>12. CASE Cluster
    <2>1. EnvNext(todo \cup {cur}) /\ UNCHANGED <<pc, target, todo>>
        BY <1>12 DEF Cluster, execVars
    <2>2. pc \in Drain => MovableOn(target)' \subseteq MovableOn(target)
        BY <1>3, <2>1, MovableShrinks
    <2>3. Schedulable' \subseteq Schedulable
        BY <2>1 DEF EnvNext, CreatePod, BindPod, PodBecomesReady, PodTerminates, SyncBudget,
            OtherDeletesPod, OtherEvictsPod, EvictPod, OperatorCordons, OperatorUncordons,
            AutoscalerRemoves, WindowTurns, Schedulable
    <2>4. QED BY <2>1, <2>2, <2>3 DEF Emptying
<1>13. CASE UNCHANGED vars
    BY <1>13 DEF vars, execVars, Emptying, Schedulable, MovableOn, PodsOn, Listed, Movable
<1>14. QED
    BY <1>4, <1>5, <1>6, <1>7, <1>8, <1>9, <1>10, <1>11, <1>12, <1>13 DEF Next, Execute, Step

(* If nobody uncordons nodes behind the run's back, a node is only ever
   recorded as drained when it holds nothing movable and can receive nothing
   more, whoever deletes, evicts, binds or removes meanwhile (drain). *)
THEOREM DrainedNodesAreEmpty ==
    ASSUME "uncordon" \notin EnvFaults
    PROVE  Spec => []DrainedIsEmpty
<1>1. Init => Emptying
    BY DEF Init, Emptying
<1>2. TypeOK /\ Control /\ Emptying /\ [Next]_vars => Emptying'
    BY EmptyingStep
<1>3. Emptying => DrainedIsEmpty
    BY DEF Emptying, DrainedIsEmpty
<1>4. QED BY <1>1, <1>2, <1>3, TypesAndControl, PTL DEF Spec

-----------------------------------------------------------------------------
(* Whole workloads. *)

(* With nobody else taking pods down, ready pods are lost to the executor's
   own evictions only. *)
LEMMA ReadyKept ==
    ASSUME "delete" \notin EnvFaults, "evict" \notin EnvFaults, TypeOK,
           [Next]_vars, ~(Evict \/ EvictFails), NEW o \in Owners
    PROVE  ReadyPods(o)' >= ReadyPods(o)
<1>1. ReadyPods(o) \in Nat
    BY CountTypes
<1>2. ASSUME UNCHANGED phase PROVE ReadyPods(o)' >= ReadyPods(o)
    <2>1. ReadyPods(o)' = ReadyPods(o)
        BY <1>2 DEF ReadyPods, PodsOf
    <2>2. QED BY <1>1, <2>1
<1>3. CASE Cluster
    <2>1. ASSUME NEW p \in Pods, CreatePod(p, todo \cup {cur}) \/ (\E n \in Nodes : BindPod(p, n))
                                 \/ PodBecomesReady(p) \/ PodTerminates(p)
          PROVE  ReadyPods(o)' >= ReadyPods(o)
        <3>1. PICK v \in {"pending", "running", "ready", "none"} : phase' = [phase EXCEPT ![p] = v]
            BY <2>1 DEF CreatePod, BindPod, PodBecomesReady, PodTerminates
        <3>2. phase[p] # "ready"
            BY <2>1 DEF CreatePod, BindPod, PodBecomesReady, PodTerminates
        <3>3. QED BY <3>1, <3>2, ReadyChange DEF TypeOK, ClusterTypeOK
    <2>2. QED
        BY <1>2, <1>3, <2>1 DEF Cluster, EnvNext, OtherDeletesPod, OtherEvictsPod, SyncBudget,
            OperatorCordons, OperatorUncordons, AutoscalerRemoves, WindowTurns
<1>4. QED BY <1>2, <1>3, QuietCalls DEF Next

(* verifyRecovered waits for every workload the drain took a pod from. *)
LEMMA ShortStep ==
    ASSUME Readiness = "Ready", "delete" \notin EnvFaults, "evict" \notin EnvFaults,
           TypeOK, Control, ShortIsAffected, [Next]_vars
    PROVE  ShortIsAffected'
<1> DEFINE Open == {"recheck", "evict", "wait", "verify"}
           Over == {"abort", "done", "crashed"}
<1> USE DEF Finish, AbortWith, stepVars, loopVars
<1>1. /\ \A o \in Owners : ReadyPods(o) \in Nat /\ HealthyByOwner[o] = ReadyPods(o)
      /\ \A o \in Owners : Replicas[o] \in Nat /\ before[o] \in Nat
    BY CountTypes, ClusterAssumption DEF TypeOK, HealthyByOwner, ReadyPods, CountsAsHealthy
<1>2. \A o \in Owners : ReadyPods(o)' \in Nat
    <2>1. \A o \in Owners : {q \in PodsOf(o) : phase'[q] = "ready"} \in SUBSET Pods
        BY DEF PodsOf
    <2>2. QED BY <2>1, Sizes DEF ReadyPods, PodsOf
<1>3. ASSUME pc' \in Over PROVE ShortIsAffected'
    BY <1>3 DEF ShortIsAffected
<1>4. ASSUME ~(Evict \/ EvictFails) PROVE \A o \in Owners : ReadyPods(o)' >= ReadyPods(o)
    BY <1>4, ReadyKept
<1>5. ASSUME ~(Evict \/ EvictFails), pc \notin Open \cup Over, pc' \notin Open \cup Over
      PROVE  ShortIsAffected'
    BY <1>1, <1>2, <1>4, <1>5 DEF ShortIsAffected
<1>6. ASSUME ~(Evict \/ EvictFails), pc \in Open, pc' \in Open, UNCHANGED <<before, affected>>
      PROVE  ShortIsAffected'
    BY <1>1, <1>2, <1>4, <1>6 DEF ShortIsAffected
<1>7. CASE \/ Choose \/ GatePasses \/ GateRefuses \/ GateFails \/ Rehearse \/ Cordon \/ CordonFails
           \/ CordonReplyLost \/ RecordDrain \/ Rail \/ RailReadFails \/ Abort \/ AbortFails
    BY <1>3, <1>5, <1>7 DEF Choose, StopRequested, StepsDone, NextStep, NoStep, PlanRound, Converged,
        GatePasses, GateRefuses, GateFails, Rehearse, Cordon, CordonFails, CordonReplyLost,
        RecordDrain, Rail, RailReadFails, Abort, AbortFails, Evict, EvictFails
<1>8. CASE ListPods
    <2>1. /\ pc = "list" /\ pc' = "recheck" /\ ~(Evict \/ EvictFails)
          /\ before' = HealthyByOwner /\ affected' = {}
        BY <1>8 DEF ListPods, Evict, EvictFails
    <2>2. QED BY <1>1, <1>2, <1>4, <2>1 DEF ShortIsAffected
<1>9. CASE \/ WaitGone \/ Emptied \/ DrainReadFails \/ EvictRefused \/ SettleTimesOut \/ Crash
           \/ \E p \in Pods : PodAlreadyGone(p) \/ RecheckPasses(p) \/ RecheckBlocks(p)
    BY <1>3, <1>6, <1>9 DEF WaitGone, Emptied, DrainReadFails, EvictRefused, SettleTimesOut, Crash,
        PodAlreadyGone, RecheckPasses, RecheckBlocks, Evict, EvictFails, EvictPod
<1>10. CASE Evict
    <2>1. EvictPod(cur) /\ cur \in Pods /\ pc = "evict" /\ pc' = "wait"
        BY <1>10 DEF Evict, Control, TypeOK
    <2>2. UNCHANGED before /\ affected' = affected \cup {OwnerOf[cur]}
        BY <1>10 DEF Evict
    <2>3. \A o \in Owners : OwnerOf[cur] # o => ReadyPods(o)' >= ReadyPods(o)
        <3>1. PICK v \in Phases : phase' = [phase EXCEPT ![cur] = v]
            BY <2>1 DEF EvictPod, TypeOK, ClusterTypeOK, Phases
        <3>2. QED BY <2>1, <3>1, ReadyChange DEF TypeOK, ClusterTypeOK
    <2>4. QED BY <1>1, <1>2, <2>1, <2>2, <2>3 DEF ShortIsAffected
<1>11. CASE EvictFails
    BY <1>3, <1>11 DEF EvictFails
<1>12. CASE Verify
    <2>1. pc = "verify" /\ pc' = "record" /\ ~(Evict \/ EvictFails) /\ Recovered
        BY <1>12 DEF Verify, Evict, EvictFails
    <2>2. \A o \in Owners : ReadyPods(o) >= Replicas[o]
        BY <1>1, <2>1 DEF Recovered, ShortIsAffected, TypeOK
    <2>3. QED BY <1>1, <1>2, <1>4, <2>1, <2>2 DEF ShortIsAffected
<1>13. CASE Cluster \/ UNCHANGED vars
    <2>1. UNCHANGED <<pc, before, affected>>
        BY <1>13 DEF Cluster, vars, execVars
    <2>2. ~(Evict \/ EvictFails)
        BY <2>1 DEF Evict, EvictFails
    <2>3. QED BY <1>1, <1>2, <1>3, <1>4, <2>1, <2>2 DEF ShortIsAffected
<1>14. QED
    BY <1>7, <1>8, <1>9, <1>10, <1>11, <1>12, <1>13 DEF Next, Execute, Step

(* Nobody but the run takes pods down, readiness is what the executor waits
   for, and every workload starts with all its replicas. *)
Undisturbed ==
    /\ Readiness = "Ready"
    /\ EnvFaults \cap {"delete", "evict"} = {}
    /\ \A o \in Owners : Cardinality(InitialPods(o)) = Replicas[o]

(* So a workload is only ever short inside a drain that knows it. *)
LEMMA ShortAlways ==
    ASSUME Undisturbed
    PROVE  Spec => []ShortIsAffected
<1>1. Init => ShortIsAffected
    BY FirstReady, ClusterAssumption DEF Undisturbed, Init, ShortIsAffected
<1>2. TypeOK /\ Control /\ ShortIsAffected /\ [Next]_vars => ShortIsAffected'
    BY ShortStep DEF Undisturbed
<1>3. QED BY <1>1, <1>2, TypesAndControl, PTL DEF Spec

(* A run that is the only one taking pods down starts no step, and cordons no
   node, while a workload is short of its replicas: what one step took is back
   and ready before the next, with every call failing and every wait timing
   out (verifyRecovered). *)
THEOREM WorkloadsWholeBetweenSteps ==
    ASSUME Undisturbed
    PROVE  Spec => []WholeBetweenSteps
<1>1. ShortIsAffected => WholeBetweenSteps
    BY DEF ShortIsAffected, WholeBetweenSteps
<1>2. QED BY <1>1, ShortAlways, PTL

-----------------------------------------------------------------------------
(* The monotonic rail. *)

(* A controller adds a pod only where one is missing. *)
LEMMA NoSurplusStep ==
    ASSUME TypeOK, Control, NoSurplus, [Next]_vars
    PROVE  NoSurplus'
<1> SUFFICES ASSUME NEW o \in Owners
             PROVE  Cardinality(AlivePods(o)') <= Replicas[o]
    BY DEF NoSurplus
<1> USE DEF TypeOK, ClusterTypeOK
<1>1. AlivePods(o) \in SUBSET Pods /\ AlivePods(o)' \in SUBSET Pods
    BY DEF AlivePods, PodsOf
<1>2. /\ IsFiniteSet(AlivePods(o)) /\ Cardinality(AlivePods(o)) \in Nat
      /\ Cardinality(AlivePods(o)') \in Nat /\ Replicas[o] \in Nat
    BY <1>1, Sizes, ClusterAssumption
<1>3. ASSUME AlivePods(o)' \subseteq AlivePods(o) PROVE Cardinality(AlivePods(o)') <= Replicas[o]
    <2>1. Cardinality(AlivePods(o)') <= Cardinality(AlivePods(o))
        BY <1>2, <1>3, FS_Subset
    <2>2. QED BY <1>2, <2>1 DEF NoSurplus
<1>4. ASSUME NEW p \in Pods, CreatePod(p, todo \cup {cur}) PROVE Cardinality(AlivePods(o)') <= Replicas[o]
    <2>1. CASE OwnerOf[p] = o
        <3>1. AlivePods(o)' = AlivePods(o) \cup {p} /\ Cardinality(AlivePods(o)) < Replicas[o]
            BY <1>4, <2>1 DEF CreatePod, AlivePods, PodsOf, Alive
        <3>2. Cardinality(AlivePods(o) \cup {p}) \in {Cardinality(AlivePods(o)),
                                                     Cardinality(AlivePods(o)) + 1}
            BY <1>2, FS_AddElement
        <3>3. QED BY <1>2, <3>1, <3>2
    <2>2. CASE OwnerOf[p] # o
        BY <1>3, <1>4, <2>2 DEF CreatePod, AlivePods, PodsOf
    <2>3. QED BY <2>1, <2>2
<1>5. ASSUME NEW p \in Pods, EvictPod(p) PROVE AlivePods(o)' \subseteq AlivePods(o)
    BY <1>5 DEF EvictPod, AlivePods, PodsOf, Alive
<1>6. CASE Cluster
    <2>1. ASSUME NEW p \in Pods, (\E n \in Nodes : BindPod(p, n)) \/ PodBecomesReady(p)
                                 \/ PodTerminates(p) \/ OtherDeletesPod(p)
          PROVE  AlivePods(o)' \subseteq AlivePods(o)
        BY <2>1 DEF BindPod, PodBecomesReady, PodTerminates, OtherDeletesPod, AlivePods, PodsOf, Alive
    <2>2. ASSUME UNCHANGED phase PROVE AlivePods(o)' \subseteq AlivePods(o)
        BY <2>2 DEF AlivePods, PodsOf
    <2>3. QED
        BY <1>3, <1>4, <1>5, <1>6, <2>1, <2>2 DEF Cluster, EnvNext, OtherEvictsPod, SyncBudget,
            OperatorCordons, OperatorUncordons, AutoscalerRemoves, WindowTurns
<1>7. CASE Evict \/ EvictFails
    <2>1. cur \in Pods
        BY <1>7 DEF Evict, EvictFails, Control
    <2>2. EvictPod(cur) \/ UNCHANGED phase
        BY <1>7 DEF Evict, EvictFails, clusterVars
    <2>3. QED BY <1>3, <1>5, <2>1, <2>2 DEF AlivePods, PodsOf
<1>8. CASE ~(Evict \/ EvictFails) /\ (Execute \/ Crash \/ UNCHANGED vars)
    BY <1>3, <1>8, QuietCalls DEF AlivePods, PodsOf
<1>9. QED BY <1>6, <1>7, <1>8 DEF Next

(* Between rounds no pod waits for a node, so no node can fill up again. *)
LEMMA OccupiedShrinks ==
    ASSUME TypeOK, NoSurplus, ShortIsAffected, pc = "boundary", Cluster
    PROVE  Occupied' \subseteq Occupied
<1> USE ClusterAssumption DEF TypeOK, ClusterTypeOK
<1>1. \A p \in Pods : phase[p] # "pending"
    <2> SUFFICES ASSUME NEW p \in Pods, phase[p] = "pending" PROVE FALSE
        OBVIOUS
    <2> DEFINE o == OwnerOf[p]
               R == {q \in PodsOf(o) : phase[q] = "ready"}
    <2>1. o \in Owners
        OBVIOUS
    <2>2. R \subseteq AlivePods(o) /\ p \in AlivePods(o) /\ p \notin R
        BY DEF AlivePods, PodsOf, Alive
    <2>3. AlivePods(o) \in SUBSET Pods
        BY DEF AlivePods, PodsOf
    <2>4. IsFiniteSet(AlivePods(o)) /\ Cardinality(AlivePods(o)) \in Nat
        BY <2>3, Sizes
    <2>5. Cardinality(R) \in Nat /\ Replicas[o] \in Nat
        BY <2>1, CountTypes DEF ReadyPods
    <2>6. Cardinality(R) >= Replicas[o] /\ Cardinality(AlivePods(o)) <= Replicas[o]
        BY <2>1 DEF ShortIsAffected, NoSurplus, ReadyPods
    <2> HIDE DEF R, o
    <2>7. /\ Cardinality(R) <= Cardinality(AlivePods(o))
          /\ Cardinality(AlivePods(o)) = Cardinality(R) => AlivePods(o) = R
        BY <2>2, <2>4, FS_Subset
    <2>8. QED BY <2>2, <2>4, <2>5, <2>6, <2>7
<1>2. EnvNext(todo \cup {cur})
    BY DEF Cluster
<1>3. SUFFICES ASSUME NEW n \in Nodes, NEW q \in Pods, Listed(q)', on'[q] = n, Movable(q)'
               PROVE  n \in Occupied
    BY DEF Occupied, MovableOn, PodsOn
<1>4. SUFFICES Listed(q) /\ on[q] = n /\ Movable(q)
    BY <1>4 DEF Occupied, MovableOn, PodsOn
<1>5. ASSUME NEW p \in Pods, CreatePod(p, todo \cup {cur}) \/ (\E m \in Nodes : BindPod(p, m))
                             \/ PodBecomesReady(p) \/ PodTerminates(p) \/ OtherDeletesPod(p)
      PROVE  Listed(q) /\ on[q] = n /\ Movable(q)
    BY <1>1, <1>3, <1>5 DEF CreatePod, BindPod, PodBecomesReady, PodTerminates, OtherDeletesPod,
        Listed, Movable, Alive
<1>6. ASSUME NEW p \in Pods, OtherEvictsPod(p) PROVE Listed(q) /\ on[q] = n /\ Movable(q)
    BY <1>3, <1>6 DEF OtherEvictsPod, EvictPod, Listed, Movable, Alive
<1>7. ASSUME UNCHANGED <<phase, on>> PROVE Listed(q) /\ on[q] = n /\ Movable(q)
    BY <1>3, <1>7 DEF Listed, Movable
<1>8. QED
    BY <1>2, <1>5, <1>6, <1>7 DEF EnvNext, SyncBudget, OperatorCordons, OperatorUncordons,
        AutoscalerRemoves, WindowTurns

(* What the rail saw stays true until the next round measures. *)
LEMMA FreedStep ==
    ASSUME TypeOK, Control, NoSurplus, ShortIsAffected, FreedSince, [Next]_vars
    PROVE  FreedSince'
<1>1. ASSUME pc' # "boundary" \/ run'.mode # "converge" PROVE FreedSince'
    BY <1>1 DEF FreedSince
<1>2. CASE Rail
    <2>1. Occupied' = Occupied
        BY <1>2 DEF Rail, clusterVars, Occupied, MovableOn, PodsOn, Listed, Movable
    <2>2. QED BY <1>2, <2>1, CountTypes DEF Rail, FreedSince, loopVars, Finish, TypeOK
<1>3. CASE Cluster
    <2>1. UNCHANGED <<pc, run, skip, occBefore>>
        BY <1>3 DEF Cluster, execVars
    <2>2. CASE pc = "boundary"
        <3>1. Occupied' \subseteq Occupied
            BY <1>3, <2>2, OccupiedShrinks
        <3>2. Occupied \in SUBSET Nodes /\ Occupied' \in SUBSET Nodes
            BY DEF Occupied
        <3>3. Cardinality(Occupied') <= Cardinality(Occupied)
            BY <3>1, <3>2, Sizes, FS_Subset
        <3>4. Cardinality(Occupied) \in Nat /\ Cardinality(Occupied') \in Nat
            BY <3>2, Sizes
        <3>5. QED BY <2>1, <3>3, <3>4 DEF FreedSince, TypeOK
    <2>3. QED BY <1>1, <2>1, <2>2
<1>4. CASE UNCHANGED vars
    BY <1>4 DEF vars, clusterVars, execVars, FreedSince, Occupied, MovableOn, PodsOn, Listed, Movable
<1>5. CASE (Execute \/ Crash) /\ ~Rail
    BY <1>1, <1>5 DEF Execute, Choose, Step, StopRequested, StepsDone, NextStep, NoStep,
        PlanRound, Converged, GatePasses, GateRefuses, GateFails, Rehearse, Cordon, CordonFails,
        CordonReplyLost, ListPods, PodAlreadyGone, RecheckPasses, RecheckBlocks, DrainReadFails,
        Evict, EvictRefused, EvictFails, WaitGone, Emptied, Verify, SettleTimesOut, RecordDrain,
        RailReadFails, Abort, AbortFails, Crash, Finish, AbortWith
<1>6. QED BY <1>2, <1>3, <1>4, <1>5 DEF Next

(* A converge run that is the only one taking pods down starts every round
   after the first with strictly fewer occupied nodes than the round before,
   so it cannot oscillate, for any plans the planner proposes: the rail is read
   before the loop turns and still holds when the next round measures
   (converge). *)
THEOREM RoundsAlwaysFree ==
    ASSUME Undisturbed
    PROVE  Spec => EveryRoundFrees
<1>1. Init => NoSurplus /\ FreedSince
    <2> SUFFICES ASSUME Init PROVE NoSurplus /\ FreedSince
        OBVIOUS
    <2>1. \A o \in Owners : AlivePods(o) = InitialPods(o)
        BY DEF Init, InitCluster, AlivePods, InitialPods, PodsOf, Alive
    <2>2. QED BY <2>1, ClusterAssumption DEF Undisturbed, NoSurplus, FreedSince, Init
<1>2. TypeOK /\ Control /\ NoSurplus /\ [Next]_vars => NoSurplus'
    BY NoSurplusStep
<1>3. TypeOK /\ Control /\ NoSurplus /\ ShortIsAffected /\ FreedSince /\ [Next]_vars => FreedSince'
    BY FreedStep
<1>4. TypeOK /\ Control /\ FreedSince /\ [Next]_vars =>
          [pc = "boundary" /\ pc' = "gate" /\ run.mode = "converge" /\ skip # {}
              => occBefore' < occBefore]_vars
    <2> SUFFICES ASSUME TypeOK, Control, FreedSince, Next,
                        pc = "boundary", pc' = "gate", run.mode = "converge", skip # {}
                 PROVE  occBefore' < occBefore
        OBVIOUS
    <2>1. PlanRound
        BY DEF Control, Next, Execute, Choose, Step, StopRequested, StepsDone, NextStep, NoStep,
            Converged, GatePasses, GateRefuses, GateFails, Rehearse, Cordon, CordonFails,
            CordonReplyLost, ListPods, PodAlreadyGone, RecheckPasses, RecheckBlocks, DrainReadFails,
            Evict, EvictRefused, EvictFails, WaitGone, Emptied, Verify, SettleTimesOut, RecordDrain,
            Rail, RailReadFails, Abort, AbortFails, Crash, Cluster, execVars, Finish, AbortWith
    <2>2. QED BY <2>1 DEF PlanRound, FreedSince
<1>5. QED BY <1>1, <1>2, <1>3, <1>4, TypesAndControl, ShortAlways, PTL DEF Spec, EveryRoundFrees

-----------------------------------------------------------------------------
(* What is evicted. *)

(* A name in the drain's hands is not reused, so it means the pod that was
   listed on the target or nothing. *)
LEMMA ListedStep ==
    ASSUME Stateful = {}, TypeOK, Control, StillTheListed, [Next]_vars
    PROVE  StillTheListed'
<1> USE ClusterAssumption DEF StillTheListed, TypeOK, ClusterTypeOK, Alive
<1>1. CASE Cluster
    <2>1. UNCHANGED <<pc, todo, target>> /\ EnvNext(todo \cup {cur})
        BY <1>1 DEF Cluster, execVars
    <2>2. ASSUME NEW p \in Pods, CreatePod(p, todo \cup {cur}) PROVE StillTheListed'
        BY <2>1, <2>2 DEF CreatePod
    <2>3. ASSUME NEW p \in Pods, NEW n \in Nodes, BindPod(p, n) PROVE StillTheListed'
        BY <2>1, <2>3 DEF BindPod, Control, InStep
    <2>4. ASSUME NEW p \in Pods, PodBecomesReady(p) \/ PodTerminates(p) \/ OtherDeletesPod(p)
          PROVE StillTheListed'
        BY <2>1, <2>4 DEF PodBecomesReady, PodTerminates, OtherDeletesPod
    <2>5. ASSUME NEW p \in Pods, OtherEvictsPod(p) PROVE StillTheListed'
        BY <2>1, <2>5 DEF OtherEvictsPod, EvictPod
    <2>6. ASSUME UNCHANGED <<phase, on>> PROVE StillTheListed'
        BY <2>1, <2>6
    <2>7. QED
        BY <2>1, <2>2, <2>3, <2>4, <2>5, <2>6 DEF EnvNext, SyncBudget, OperatorCordons,
            OperatorUncordons, AutoscalerRemoves, WindowTurns
<1>2. CASE ListPods
    BY <1>2 DEF ListPods, clusterVars, MovableOn, PodsOn, Movable
<1>3. CASE Evict \/ EvictFails
    <2>1. cur \in Pods
        BY <1>3 DEF Evict, EvictFails, Control
    <2>2. EvictPod(cur) \/ UNCHANGED <<phase, on>>
        BY <1>3 DEF Evict, EvictFails, clusterVars
    <2>3. UNCHANGED <<todo, target>> /\ pc = "evict"
        BY <1>3 DEF Evict, EvictFails, stepVars
    <2>4. QED BY <2>1, <2>2, <2>3 DEF EvictPod
<1>4. CASE ~(ListPods \/ Evict \/ EvictFails) /\ (Execute \/ Crash \/ UNCHANGED vars)
    <2>1. UNCHANGED <<phase, on>>
        BY <1>4, QuietCalls
    <2>2. pc' \in {"recheck", "evict", "wait"} =>
              /\ pc \in {"recheck", "evict", "wait"}
              /\ UNCHANGED target
              /\ todo' \subseteq todo
        BY <1>4 DEF Execute, Choose, Step, stepVars, vars, execVars,
            StopRequested, StepsDone, NextStep, NoStep,
            PlanRound, Converged, GatePasses, GateRefuses, GateFails, Rehearse, Cordon, CordonFails,
            CordonReplyLost, PodAlreadyGone, RecheckPasses, RecheckBlocks, DrainReadFails,
            EvictRefused, WaitGone, Emptied, Verify, SettleTimesOut, RecordDrain,
            Rail, RailReadFails, Abort, AbortFails, Crash, Finish, AbortWith
    <2>3. QED BY <2>1, <2>2
<1>5. QED BY <1>1, <1>2, <1>3, <1>4 DEF Next

(* Where no workload reuses pod names, what a run evicts is always a pod of the
   node it is draining, and never a protected one, however long after the
   listing and whatever else happened to the pod (drain, findPod). The run
   Executor_stateful shows that a StatefulSet breaks this. *)
THEOREM OnlyTargetPodsEvicted ==
    ASSUME Stateful = {}
    PROVE  Spec => EvictsFromTargetOnly
<1>1. Init => StillTheListed
    BY DEF Init, InitCluster, StillTheListed
<1>2. TypeOK /\ Control /\ StillTheListed /\ [Next]_vars => StillTheListed'
    BY ListedStep
<1>3. TypeOK /\ Control /\ StillTheListed =>
          [pc = "evict" /\ pc' = "wait" /\ PodPresent(cur)
              => on[cur] = target /\ cur \notin Protected]_vars
    BY DEF Control, StillTheListed, PodPresent
<1>4. QED BY <1>1, <1>2, <1>3, TypesAndControl, PTL DEF Spec, EvictsFromTargetOnly
=============================================================================
