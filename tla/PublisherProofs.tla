--------------------------- MODULE PublisherProofs ---------------------------
(***************************************************************************)
(* The planner process for any nodes, plans and ratings, any number of     *)
(* events, restarts and failing statements: what the plan store, the       *)
(* reclamation ledger and the notifier hold.                               *)
(***************************************************************************)
EXTENDS Publisher, NumberLemmas, FiniteSetTheorems, SequenceTheorems

Rows == [node : Nodes, external : BOOLEAN, outcome : Outcomes]
Verdicts == [row : Nat, outcome : Outcomes]
Phases == {"idle", "external", "record", "close", "pending", "resolve", "save", "refresh",
           "broken", "notify", "prune"}

(* The ledger, the fleet and the planner's memory of them. *)
FleetShape ==
    /\ ledger \in Seq(Rows)
    /\ node \in [Nodes -> {"serving", "cordoned", "absent"}]
    /\ snap \in [Nodes -> {"serving", "cordoned", "absent"}]
    /\ departures \in [Nodes -> Nat]
    /\ draining \subseteq Nodes
    /\ departed \subseteq Nodes
    /\ judged \subseteq Verdicts /\ \A t \in judged : t.row \in DOMAIN ledger
    /\ seen = Unknown \/ seen \subseteq Nodes
    /\ pc \in Phases

(* The external records of a node. *)
External(n) == {i \in DOMAIN ledger : ledger[i].node = n /\ ledger[i].external}

(* A departure of the node has no record yet. *)
Unrecorded(n) == Cardinality(External(n)) < departures[n]

(* A node last seen present and absent now has left since, and that departure
   has no record yet; so has a node the cycle is about to record. *)
DeparturesAhead ==
    /\ pc \in {"external", "record", "close"} =>
          \A n \in Present(snap) : node[n] = "absent" => Unrecorded(n)
    /\ pc = "external" /\ seen # Unknown => \A n \in seen \ Present(snap) : Unrecorded(n)
    /\ pc \in {"record", "close"} => /\ departed \cap Present(snap) = {}
                                     /\ \A n \in departed : Unrecorded(n)
    /\ pc \notin {"external", "record", "close"} /\ seen # Unknown =>
          \A n \in seen : node[n] = "absent" => Unrecorded(n)

(* The plan table: places are distinct and bounded. *)
StoreShape ==
    /\ DOMAIN plans \subseteq PlanIds
    /\ \A id \in DOMAIN plans : plans[id] \in [1..StepsOf[id] -> Ratings]
    /\ seq \in [DOMAIN plans -> Nat]
    /\ \A a, b \in DOMAIN plans : seq[a] = seq[b] => a = b
    /\ \E b \in Nat : \A id \in DOMAIN plans : seq[id] <= b

(* What the cycle computed and how much of it is in the table. *)
Saving ==
    /\ ideal \in Computed
    /\ pc # "idle" => computed \in Computed
    /\ refreshed \in Nat
    /\ pc = "refresh" => /\ IsLatest(computed.id)
                         /\ \A i \in 1..refreshed : plans[computed.id][i] = computed.ratings[i]
    /\ pc \in {"notify", "prune"} => IsLatest(computed.id) /\ plans[computed.id] = computed.ratings

(* The notifier knows the latest plan, but for the moment between a save and its
   announcement; and if the last message is one of its own, it says what it
   knows. *)
Announced ==
    /\ notifier = [wasSafe |-> notifier.wasSafe, lastPlan |-> notifier.lastPlan]
    /\ told = [plan |-> told.plan, safe |-> told.safe, mine |-> told.mine]
    /\ notifier.wasSafe \in BOOLEAN /\ told.safe \in BOOLEAN /\ told.mine \in BOOLEAN
    /\ notifier.lastPlan # Unknown =>
          IF pc = "notify" THEN notifier.lastPlan # computed.id ELSE IsLatest(notifier.lastPlan)
    /\ told.mine /\ told.safe => notifier.wasSafe
    /\ notifier.wasSafe => notifier.lastPlan # Unknown /\ told.safe /\ told.plan = notifier.lastPlan
    /\ pc = "prune" => notifier.lastPlan = computed.id /\ (notifier.wasSafe <=> Safe(computed.ratings))

(* The plan a request has read is in the table, with no more newer plans than were
   stored since; or it can have been pruned, and the run will be a late one. *)
Audited ==
    /\ IsFiniteSet(DOMAIN plans)
    /\ since \in Nat
    /\ approving # Unknown =>
          IF approving \in DOMAIN plans THEN Cardinality(Newer(approving)) <= since ELSE since >= Retain
    /\ AuditedPlansKept
-----------------------------------------------------------------------------
(* The ledger. *)

(* The ledger is only written by an executor's drain, by the planner recording
   one of the departed nodes, and by an outcome. *)
LEMMA LedgerMoves ==
    ASSUME [Next]_vars, FleetShape
    PROVE  \/ UNCHANGED ledger
           \/ \E n \in Nodes : RecordDrain(n, FALSE)
           \/ \E n \in departed : RecordExternal(n) /\ RecordDrain(n, TRUE)
           \/ \E i \in DOMAIN ledger, o \in Outcomes : ResolveReclamation(i, o)
<1>1. CASE UNCHANGED vars
    BY <1>1 DEF vars
<1>2. CASE World
    BY <1>2 DEF World, StartDrain, EndDrain, RemoveNode, Restore, ClusterShifts, ReadForApproval, EnqueueRun
<1>3. CASE Failures
    BY <1>3 DEF Failures, ReadPendingFails, ResolveFails, SaveFails, Restart
<1>4. ASSUME NEW n \in Nodes, RecordExternal(n)
      PROVE  UNCHANGED ledger \/ (n \in departed /\ RecordDrain(n, TRUE))
    BY <1>4 DEF RecordExternal
<1>5. CASE CloseExternal
    BY <1>5 DEF CloseExternal, Pending, Outcomes
<1>6. ASSUME NEW i \in DOMAIN ledger, ResolveRow(i)
      PROVE  \E o \in Outcomes : ResolveReclamation(i, o)
    BY <1>6 DEF ResolveRow, FleetShape, Verdicts
<1>7. CASE \/ TakeSnapshot \/ FirstLook \/ CompareFleet \/ ExternalDone \/ ReadPending \/ Observed
           \/ SaveTouches \/ RefreshStep \/ Touched \/ SaveStores \/ PlanStored \/ PruneHistory \/ GiveUp
    BY <1>7 DEF TakeSnapshot, FirstLook, CompareFleet, ExternalDone, ReadPending, Observed,
        SaveTouches, RefreshStep, Touched, SaveStores, PlanStored, PruneHistory, GiveUp
<1>8. QED BY <1>1, <1>2, <1>3, <1>4, <1>5, <1>6, <1>7 DEF Next, Cycle

(* A row inserted. *)
LEMMA RowInserted ==
    ASSUME ledger \in Seq(Rows), NEW n \in Nodes, NEW x \in BOOLEAN, RecordDrain(n, x)
    PROVE  /\ ledger' \in Seq(Rows)
           /\ DOMAIN ledger = 1..Len(ledger) /\ Len(ledger) \in Nat
           /\ DOMAIN ledger' = DOMAIN ledger \cup {Len(ledger) + 1}
           /\ Len(ledger) + 1 \notin DOMAIN ledger
           /\ \A i \in DOMAIN ledger : ledger'[i] = ledger[i]
           /\ ledger'[Len(ledger) + 1].node = n /\ ledger'[Len(ledger) + 1].external = x
<1> DEFINE r == [node |-> n, external |-> x, outcome |-> "pending"]
<1>1. r \in Rows /\ r.node = n /\ r.external = x
    BY DEF Rows, Outcomes
<1> HIDE DEF r
<1>2. ledger' = Append(ledger, r)
    BY DEF RecordDrain, r
<1>3. /\ ledger' \in Seq(Rows) /\ Len(ledger') = Len(ledger) + 1
      /\ \A i \in 1..Len(ledger) : ledger'[i] = ledger[i]
      /\ ledger'[Len(ledger) + 1] = r
    BY <1>1, <1>2, AppendProperties
<1>4. Len(ledger) \in Nat /\ DOMAIN ledger = 1..Len(ledger) /\ DOMAIN ledger' = 1..Len(ledger')
    BY <1>3, LenProperties
<1>5. DOMAIN ledger' = DOMAIN ledger \cup {Len(ledger) + 1} /\ Len(ledger) + 1 \notin DOMAIN ledger
    BY <1>3, <1>4
<1>6. QED BY <1>1, <1>3, <1>4, <1>5

(* An outcome written. *)
LEMMA RowResolved ==
    ASSUME ledger \in Seq(Rows), NEW i \in DOMAIN ledger, NEW o \in Outcomes, ResolveReclamation(i, o)
    PROVE  /\ ledger' \in Seq(Rows)
           /\ DOMAIN ledger' = DOMAIN ledger
           /\ \A j \in DOMAIN ledger : /\ ledger'[j].node = ledger[j].node
                                       /\ ledger'[j].external = ledger[j].external
                                       /\ ledger[j].outcome # "pending" => ledger'[j] = ledger[j]
<1>1. CASE ledger' = ledger
    BY <1>1
<1>2. CASE ledger' # ledger
    <2> DEFINE r == [ledger[i] EXCEPT !.outcome = o]
    <2>1. i \in 1..Len(ledger) /\ Len(ledger) \in Nat /\ DOMAIN ledger = 1..Len(ledger)
        BY LenProperties
    <2>2. ledger[i] \in Rows
        BY <2>1, ElementOfSeq
    <2>3. r \in Rows /\ r.node = ledger[i].node /\ r.external = ledger[i].external
        BY <2>2 DEF Rows
    <2>4. i \in Pending /\ ledger' = [ledger EXCEPT ![i] = r]
        BY <1>2 DEF ResolveReclamation
    <2>5. ledger[i].outcome = "pending"
        BY <2>4 DEF Pending
    <2> HIDE DEF r
    <2>6. /\ ledger' \in Seq(Rows) /\ Len(ledger') = Len(ledger)
          /\ \A j \in 1..Len(ledger) : ledger'[j] = IF j = i THEN r ELSE ledger[j]
        BY <2>1, <2>3, <2>4, ExceptSeq
    <2>7. DOMAIN ledger' = DOMAIN ledger
        BY <2>1, <2>6, LenProperties
    <2>8. QED BY <2>1, <2>3, <2>5, <2>6, <2>7
<1>3. QED BY <1>1, <1>2

(* Rows are never taken out, moved or rewritten but for an open outcome. *)
LEMMA LedgerGrows ==
    ASSUME [Next]_vars, FleetShape
    PROVE  /\ ledger' \in Seq(Rows)
           /\ DOMAIN ledger \subseteq DOMAIN ledger'
           /\ \A i \in DOMAIN ledger : ledger[i].outcome # "pending" => ledger'[i] = ledger[i]
<1>1. ledger \in Seq(Rows) /\ departed \subseteq Nodes
    BY DEF FleetShape
<1>2. CASE UNCHANGED ledger
    BY <1>1, <1>2
<1>3. ASSUME NEW n \in Nodes, NEW x \in BOOLEAN, RecordDrain(n, x)
      PROVE  /\ ledger' \in Seq(Rows)
             /\ DOMAIN ledger \subseteq DOMAIN ledger'
             /\ \A i \in DOMAIN ledger : ledger[i].outcome # "pending" => ledger'[i] = ledger[i]
    <2>1. /\ ledger' \in Seq(Rows)
          /\ DOMAIN ledger' = DOMAIN ledger \cup {Len(ledger) + 1}
          /\ \A i \in DOMAIN ledger : ledger'[i] = ledger[i]
        BY <1>1, <1>3, RowInserted, Zenon
    <2>2. QED BY <2>1
<1>4. ASSUME NEW i \in DOMAIN ledger, NEW o \in Outcomes, ResolveReclamation(i, o)
      PROVE  /\ ledger' \in Seq(Rows)
             /\ DOMAIN ledger \subseteq DOMAIN ledger'
             /\ \A j \in DOMAIN ledger : ledger[j].outcome # "pending" => ledger'[j] = ledger[j]
    BY <1>1, <1>4, RowResolved, Zenon
<1>5. QED BY <1>1, <1>2, <1>3, <1>4, LedgerMoves

(* The external records only change when the planner records one, of a node that
   has departed, and then by one. *)
LEMMA ExternalSteps ==
    ASSUME [Next]_vars, FleetShape
    PROVE  \/ \A n \in Nodes : External(n)' = External(n)
           \/ \E m \in departed :
                 /\ RecordExternal(m)
                 /\ \A n \in Nodes : n # m => External(n)' = External(n)
                 /\ \E k : External(m)' = External(m) \cup {k}
<1>1. ledger \in Seq(Rows) /\ departed \subseteq Nodes
    BY DEF FleetShape
<1>2. CASE UNCHANGED ledger
    BY <1>2 DEF External
<1>3. ASSUME NEW n \in Nodes, RecordDrain(n, FALSE) PROVE \A m \in Nodes : External(m)' = External(m)
    <2>1. /\ DOMAIN ledger' = DOMAIN ledger \cup {Len(ledger) + 1}
          /\ \A i \in DOMAIN ledger : ledger'[i] = ledger[i]
          /\ ledger'[Len(ledger) + 1].external = FALSE
        <3>1. FALSE \in BOOLEAN
            OBVIOUS
        <3>2. QED BY <1>1, <1>3, <3>1, RowInserted, Zenon
    <2>2. QED BY <2>1 DEF External
<1>4. ASSUME NEW m \in departed, RecordDrain(m, TRUE)
      PROVE  /\ \A n \in Nodes : n # m => External(n)' = External(n)
             /\ \E k : External(m)' = External(m) \cup {k}
    <2> DEFINE k == Len(ledger) + 1
    <2>1. /\ DOMAIN ledger' = DOMAIN ledger \cup {k}
          /\ \A i \in DOMAIN ledger : ledger'[i] = ledger[i]
          /\ ledger'[k].node = m /\ ledger'[k].external = TRUE
        <3>1. TRUE \in BOOLEAN /\ m \in Nodes
            BY <1>1
        <3>2. QED BY <1>1, <1>4, <3>1, RowInserted, Zenon
    <2> HIDE DEF k
    <2>2. \A n \in Nodes : n # m => External(n)' = External(n)
        BY <2>1 DEF External
    <2>3. External(m)' = External(m) \cup {k}
        BY <2>1 DEF External
    <2>4. QED BY <2>2, <2>3
<1>5. ASSUME NEW i \in DOMAIN ledger, NEW o \in Outcomes, ResolveReclamation(i, o)
      PROVE  \A n \in Nodes : External(n)' = External(n)
    <2>1. /\ DOMAIN ledger' = DOMAIN ledger
          /\ \A j \in DOMAIN ledger : /\ ledger'[j].node = ledger[j].node
                                      /\ ledger'[j].external = ledger[j].external
        BY <1>1, <1>5, RowResolved, Zenon
    <2>2. QED BY <2>1 DEF External
<1>6. QED BY <1>2, <1>3, <1>4, <1>5, LedgerMoves

-----------------------------------------------------------------------------
(* The fleet. *)

(* The cycle is not comparing the fleet with the one it remembers. *)
Elsewhere == pc \notin {"external", "record", "close"}

(* Who writes the planner's memory of the fleet: every other step leaves it. *)
LEMMA MemoryMoves ==
    ASSUME Next
    PROVE  \/ /\ UNCHANGED <<snap, seen, departed, judged>>
              /\ pc' = pc \/ {pc, pc'} \subseteq {"record", "close"} \/ (Elsewhere /\ Elsewhere')
           \/ TakeSnapshot \/ FirstLook \/ CompareFleet \/ ExternalDone \/ ReadPending
           \/ ReadPendingFails \/ Observed \/ Restart
           \/ \E n \in Nodes : RecordExternal(n)
           \/ \E i \in DOMAIN ledger : ResolveRow(i) \/ ResolveFails(i)
<1>1. CASE World
    BY <1>1 DEF World, StartDrain, EndDrain, RemoveNode, Restore, ClusterShifts, ReadForApproval, EnqueueRun, memoryVars
<1>2. CASE SaveTouches \/ RefreshStep \/ Touched \/ SaveStores \/ PlanStored \/ PruneHistory \/ GiveUp
           \/ SaveFails \/ CloseExternal
    BY <1>2 DEF SaveTouches, RefreshStep, Touched, SaveStores, PlanStored, PruneHistory, GiveUp,
        SaveFails, CloseExternal, EndCycle, Elsewhere
<1>3. QED BY <1>1, <1>2 DEF Next, Cycle, Failures

(* The cluster itself: nodes only leave with a departure counted. *)
LEMMA ClusterMoves ==
    ASSUME [Next]_vars, FleetShape
    PROVE  /\ node' \in [Nodes -> {"serving", "cordoned", "absent"}]
           /\ draining' \subseteq Nodes
           /\ departures' \in [Nodes -> Nat]
           /\ \A n \in Nodes : \/ departures'[n] = departures[n] /\ (node'[n] = "absent" => node[n] = "absent")
                               \/ departures'[n] = departures[n] + 1
<1>1. CASE UNCHANGED <<node, departures, draining>>
    BY <1>1 DEF FleetShape
<1>2. ASSUME NEW n \in Nodes, StartDrain(n) \/ EndDrain(n) \/ Restore(n)
      PROVE  /\ node' \in [Nodes -> {"serving", "cordoned", "absent"}]
             /\ draining' \subseteq Nodes
             /\ departures' = departures
             /\ \A m \in Nodes : node'[m] = "absent" => node[m] = "absent"
    BY <1>2 DEF StartDrain, EndDrain, Restore, FleetShape
<1>3. ASSUME NEW n \in Nodes, RemoveNode(n)
      PROVE  /\ node' \in [Nodes -> {"serving", "cordoned", "absent"}]
             /\ draining' \subseteq Nodes
             /\ departures' \in [Nodes -> Nat]
             /\ \A m \in Nodes : \/ departures'[m] = departures[m] /\ (node'[m] = "absent" => node[m] = "absent")
                                 \/ departures'[m] = departures[m] + 1
    BY <1>3 DEF RemoveNode, FleetShape
<1>4. CASE UNCHANGED vars \/ Cycle \/ Failures
    BY <1>1, <1>4 DEF vars, worldVars, clusterVars, Cycle, Failures, TakeSnapshot, FirstLook, CompareFleet,
        RecordExternal, CloseExternal, ExternalDone, ReadPending, ResolveRow, Observed, SaveTouches,
        RefreshStep, Touched, SaveStores, PlanStored, PruneHistory, GiveUp, ReadPendingFails,
        ResolveFails, SaveFails, Restart
<1>5. CASE ClusterShifts \/ ReadForApproval \/ EnqueueRun
    BY <1>1, <1>5 DEF ClusterShifts, ReadForApproval, EnqueueRun, worldVars, clusterVars
<1>6. CASE World
    BY <1>2, <1>3, <1>5, <1>6 DEF World, FleetShape
<1>7. QED BY <1>4, <1>6 DEF Next

(* The judgement of the open records names rows of the ledger. *)
LEMMA TransitionsOfRows ==
    ASSUME ledger \in Seq(Rows)
    PROVE  Transitions(Pending, snap) \subseteq Verdicts
           /\ \A t \in Transitions(Pending, snap) : t.row \in DOMAIN ledger
<1>1. DOMAIN ledger \subseteq Nat
    BY LenProperties
<1>2. Pending \subseteq DOMAIN ledger
    BY DEF Pending
<1>3. QED BY <1>1, <1>2 DEF Transitions, Verdicts, Outcomes

(* Every step keeps the fleet's shape. *)
LEMMA FleetStep == ASSUME [Next]_vars, FleetShape PROVE FleetShape'
<1>1. /\ ledger' \in Seq(Rows) /\ DOMAIN ledger \subseteq DOMAIN ledger'
    BY LedgerGrows
<1>2. /\ node' \in [Nodes -> {"serving", "cordoned", "absent"}]
      /\ draining' \subseteq Nodes
      /\ departures' \in [Nodes -> Nat]
    BY ClusterMoves
<1>3. pc' \in Phases
    BY DEF FleetShape, Phases, vars, memoryVars, Next, World, StartDrain, EndDrain, RemoveNode, Restore,
        ClusterShifts, ReadForApproval, EnqueueRun, Cycle, Failures, TakeSnapshot, FirstLook, CompareFleet,
        RecordExternal, CloseExternal, ExternalDone, ReadPending, ResolveRow, Observed, SaveTouches,
        RefreshStep, Touched, SaveStores, PlanStored, PruneHistory, GiveUp, ReadPendingFails,
        ResolveFails, SaveFails, Restart, ToSave, EndCycle
<1> DEFINE Memory == /\ snap' \in [Nodes -> {"serving", "cordoned", "absent"}]
                     /\ departed' \subseteq Nodes
                     /\ judged' \subseteq Verdicts /\ \A t \in judged' : t.row \in DOMAIN ledger'
                     /\ seen' = Unknown \/ seen' \subseteq Nodes
<1>4. Memory
    <2>1. CASE UNCHANGED <<snap, seen, departed, judged>>
        BY <1>1, <2>1 DEF FleetShape
    <2>2. CASE TakeSnapshot \/ FirstLook \/ CompareFleet \/ ExternalDone
        BY <1>1, <2>2 DEF FleetShape, TakeSnapshot, FirstLook, CompareFleet, ExternalDone, Remember, Present
    <2>3. CASE ReadPending
        BY <1>1, <2>3, TransitionsOfRows DEF FleetShape, ReadPending
    <2>4. CASE ReadPendingFails \/ Observed \/ Restart
        BY <1>1, <2>4 DEF FleetShape, ReadPendingFails, Observed, Restart, ToSave, AllServing
    <2>5. ASSUME NEW n \in Nodes, RecordExternal(n) PROVE Memory
        BY <1>1, <2>5 DEF FleetShape, RecordExternal
    <2>6. ASSUME NEW i \in DOMAIN ledger, ResolveRow(i) \/ ResolveFails(i) PROVE Memory
        BY <1>1, <2>6 DEF FleetShape, ResolveRow, ResolveFails
    <2>7. CASE UNCHANGED vars
        BY <2>1, <2>7 DEF vars, memoryVars
    <2>8. QED BY <2>1, <2>2, <2>3, <2>4, <2>5, <2>6, <2>7, MemoryMoves
<1>5. QED BY <1>1, <1>2, <1>3, <1>4 DEF FleetShape

(* The fleet's shape holds always. *)
LEMMA FleetAlways == Spec => []FleetShape
<1>1. Init => FleetShape
    <2> SUFFICES ASSUME Init PROVE FleetShape
        OBVIOUS
    <2>1. ledger = <<>> /\ <<>> \in Seq(Rows)
        BY EmptySeq DEF Init
    <2>2. QED BY <2>1 DEF Init, FleetShape, AllServing, Phases
<1>2. FleetShape /\ [Next]_vars => FleetShape'
    BY FleetStep
<1>3. QED BY <1>1, <1>2, PTL DEF Spec

(* An observation is made once (reclamation.go, ResolveReclamation): whoever
   writes, from whatever list read before, a closed record stays as it is. *)
THEOREM OutcomesAlwaysFinal == Spec => OutcomesAreFinal
<1>1. FleetShape /\ [Next]_vars =>
        [\A i \in DOMAIN ledger : ledger[i].outcome # "pending" => ledger'[i] = ledger[i]]_vars
    BY LedgerGrows
<1>2. QED BY <1>1, FleetAlways, PTL DEF Spec, OutcomesAreFinal

-----------------------------------------------------------------------------
(* Departures and external records. *)

(* Cardinalities of sets of records are numbers. *)
LEMMA ExternalCount ==
    ASSUME ledger \in Seq(Rows), NEW n
    PROVE  IsFiniteSet(External(n)) /\ Cardinality(External(n)) \in Nat
<1>1. Len(ledger) \in Nat /\ DOMAIN ledger = 1..Len(ledger)
    BY LenProperties
<1>2. IsFiniteSet(1..Len(ledger))
    BY <1>1, FS_Interval
<1>3. External(n) \subseteq 1..Len(ledger)
    BY <1>1 DEF External
<1>4. IsFiniteSet(External(n))
    BY <1>2, <1>3, FS_Subset
<1>5. QED BY <1>4, FS_CardinalityType

(* While a node's records stay, a departure not yet recorded stays so, and a new
   one is another. *)
LEMMA UnrecordedStays ==
    ASSUME [Next]_vars, FleetShape, ExternalNeverInvented, NEW n \in Nodes, External(n)' = External(n)
    PROVE  /\ Cardinality(External(n))' <= departures'[n]
           /\ Unrecorded(n) \/ (node'[n] = "absent" /\ node[n] # "absent") => Unrecorded(n)'
<1> DEFINE k == Cardinality(External(n))
<1>1. k \in Nat /\ departures[n] \in Nat
    BY ExternalCount DEF FleetShape
<1>2. k <= departures[n]
    BY DEF ExternalNeverInvented, External
<1>3. Cardinality(External(n))' = k
    OBVIOUS
<1>4. \/ departures'[n] = departures[n] /\ (node'[n] = "absent" => node[n] = "absent")
      \/ departures'[n] = departures[n] + 1
    BY ClusterMoves
<1>5. /\ Unrecorded(n) <=> k < departures[n]
      /\ Unrecorded(n)' <=> k < departures'[n]
    BY <1>3 DEF Unrecorded
<1> HIDE DEF k
<1>6. QED BY <1>1, <1>2, <1>3, <1>4, <1>5

(* A record uses up a departure that had none. *)
LEMMA RecordUsesDeparture ==
    ASSUME [Next]_vars, FleetShape, NEW m \in Nodes, Unrecorded(m),
           NEW k, External(m)' = External(m) \cup {k}
    PROVE  Cardinality(External(m))' <= departures'[m]
<1> DEFINE c == Cardinality(External(m))
<1>1. IsFiniteSet(External(m)) /\ c \in Nat /\ departures[m] \in Nat
    BY ExternalCount DEF FleetShape
<1>2. Cardinality(External(m)') \in {c, c + 1}
    BY <1>1, FS_AddElement
<1>3. departures'[m] \in {departures[m], departures[m] + 1}
    BY ClusterMoves
<1>4. c < departures[m]
    BY DEF Unrecorded
<1> HIDE DEF c
<1>5. QED BY <1>1, <1>2, <1>3, <1>4

(* Every step keeps what the memory of the fleet stands for. *)
LEMMA DeparturesStep ==
    ASSUME [Next]_vars, FleetShape, ExternalNeverInvented, DeparturesAhead
    PROVE  ExternalNeverInvented' /\ DeparturesAhead'
<1> DEFINE Same == \A n \in Nodes : External(n)' = External(n)
<1>0. /\ departed \subseteq Nodes /\ (seen = Unknown \/ seen \subseteq Nodes)
      /\ Present(snap) \subseteq Nodes
    BY DEF FleetShape, Present
<1>1. ASSUME NEW m \in departed, RecordExternal(m),
             \A n \in Nodes : n # m => External(n)' = External(n),
             NEW k, External(m)' = External(m) \cup {k}
      PROVE  ExternalNeverInvented' /\ DeparturesAhead'
    <2>1. /\ pc = "record" /\ pc' \in {"record", "close"} /\ departed' = departed \ {m}
          /\ UNCHANGED <<snap, seen, node>>
        BY <1>1 DEF RecordExternal, clusterVars
    <2>2. m \in Nodes /\ Unrecorded(m) /\ m \notin Present(snap)
        BY <1>0, <1>1, <2>1 DEF DeparturesAhead
    <2>3. Cardinality(External(m))' <= departures'[m]
        BY <1>1, <2>2, RecordUsesDeparture
    <2>4. \A n \in Nodes : n # m => /\ Cardinality(External(n))' <= departures'[n]
                                    /\ Unrecorded(n) => Unrecorded(n)'
        BY <1>1, UnrecordedStays
    <2>5. \A n \in Nodes : Cardinality(External(n))' <= departures'[n]
        BY <2>3, <2>4
    <2>6. ExternalNeverInvented'
        BY <2>5 DEF ExternalNeverInvented, External
    <2>7. Present(snap)' = Present(snap)
        BY <2>1 DEF Present
    <2>8. DeparturesAhead'
        BY <1>0, <2>1, <2>2, <2>4, <2>7 DEF DeparturesAhead
    <2>9. QED BY <2>6, <2>8
<1>2. ASSUME Same PROVE ExternalNeverInvented' /\ DeparturesAhead'
    <2>1. \A n \in Nodes : /\ Cardinality(External(n))' <= departures'[n]
                           /\ Unrecorded(n) \/ (node'[n] = "absent" /\ node[n] # "absent") => Unrecorded(n)'
        BY <1>2, UnrecordedStays
    <2>2. ExternalNeverInvented'
        BY <2>1 DEF ExternalNeverInvented, External
    <2>3. CASE UNCHANGED <<snap, seen, departed>>
               /\ (pc' = pc \/ {pc, pc'} \subseteq {"record", "close"} \/ (Elsewhere /\ Elsewhere'))
        <3>1. Present(snap)' = Present(snap)
            BY <2>3 DEF Present
        <3>2. QED BY <1>0, <2>1, <2>2, <2>3, <3>1 DEF DeparturesAhead, Elsewhere
    <2>4. CASE TakeSnapshot
        <3>1. pc = "idle" /\ pc' = "external" /\ snap' = node /\ UNCHANGED <<node, seen>>
            BY <2>4 DEF TakeSnapshot, worldVars, clusterVars
        <3>2. Present(snap)' = {n \in Nodes : node[n] # "absent"}
            BY <3>1 DEF Present
        <3>3. QED BY <1>0, <2>1, <2>2, <3>1, <3>2 DEF DeparturesAhead
    <2>5. CASE FirstLook \/ ExternalDone
        <3>1. pc \in {"external", "record"} /\ pc' = "pending" /\ seen' = Present(snap) /\ UNCHANGED node
            BY <2>5 DEF FirstLook, ExternalDone, Remember, worldVars, clusterVars
        <3>2. QED BY <1>0, <2>1, <2>2, <3>1 DEF DeparturesAhead
    <2>6. CASE CompareFleet
        <3>1. /\ pc = "external" /\ pc' = "record" /\ seen # Unknown
              /\ departed' \subseteq seen \ Present(snap) /\ UNCHANGED <<snap, seen, node>>
            BY <2>6 DEF CompareFleet, clusterVars
        <3>2. Present(snap)' = Present(snap)
            BY <3>1 DEF Present
        <3>3. QED BY <1>0, <2>1, <2>2, <3>1, <3>2 DEF DeparturesAhead
    <2>7. CASE ReadPending \/ ReadPendingFails \/ Observed \/ (\E i \in DOMAIN ledger : ResolveRow(i) \/ ResolveFails(i))
        <3>1. UNCHANGED seen /\ Elsewhere /\ Elsewhere'
            BY <2>7 DEF ReadPending, ReadPendingFails, Observed, ResolveRow, ResolveFails, ToSave, Elsewhere
        <3>2. QED BY <1>0, <2>1, <2>2, <3>1 DEF DeparturesAhead, Elsewhere
    <2>8. CASE Restart
        BY <2>2, <2>8 DEF Restart, DeparturesAhead
    <2>9. ASSUME NEW n \in Nodes, RecordExternal(n) PROVE DeparturesAhead'
        <3>1. /\ pc = "record" /\ pc' \in {"record", "close"} /\ departed' \subseteq departed
              /\ UNCHANGED <<snap, seen, node>>
            BY <2>9 DEF RecordExternal, clusterVars
        <3>2. Present(snap)' = Present(snap)
            BY <3>1 DEF Present
        <3>3. QED BY <1>0, <2>1, <2>2, <3>1, <3>2 DEF DeparturesAhead
    <2>10. CASE UNCHANGED vars
        BY <2>3, <2>10 DEF vars, memoryVars
    <2>11. QED BY <2>2, <2>3, <2>4, <2>5, <2>6, <2>7, <2>8, <2>9, <2>10, MemoryMoves
<1>3. QED BY <1>1, <1>2, ExternalSteps

(* The ledger never invents capacity that left by itself (publish.go,
   recordExternalReclaims): whatever restarts, rejoins and failing statements come
   between, every external record has a departure of its own. *)
THEOREM ExternalAlwaysReal == Spec => []ExternalNeverInvented
<1>1. Init => ExternalNeverInvented /\ DeparturesAhead
    <2> SUFFICES ASSUME Init PROVE ExternalNeverInvented /\ DeparturesAhead
        OBVIOUS
    <2>1. \A n \in Nodes : {i \in DOMAIN ledger : ledger[i].node = n /\ ledger[i].external} = {}
        BY DEF Init
    <2>2. Cardinality({}) = 0
        BY FS_EmptySet
    <2>3. QED BY <2>1, <2>2 DEF Init, ExternalNeverInvented, DeparturesAhead
<1>2. FleetShape /\ ExternalNeverInvented /\ DeparturesAhead /\ [Next]_vars
        => ExternalNeverInvented' /\ DeparturesAhead'
    BY DeparturesStep
<1>3. QED BY <1>1, <1>2, FleetAlways, PTL DEF Spec

-----------------------------------------------------------------------------
(* The plan table. *)

(* The table is only written by a refresh, by the transaction of Save and by
   Prune. *)
LEMMA PlanMoves ==
    ASSUME [Next]_vars
    PROVE  \/ UNCHANGED <<plans, seq>>
           \/ RefreshStep \/ SaveStores
           \/ PruneHistory /\ Prune
<1>1. CASE UNCHANGED vars
    BY <1>1 DEF vars, storeVars
<1>2. CASE World
    BY <1>2 DEF World, StartDrain, EndDrain, RemoveNode, Restore, ClusterShifts, ReadForApproval, EnqueueRun,
        NameInRun, storeVars
<1>3. CASE Failures
    BY <1>3 DEF Failures, ReadPendingFails, ResolveFails, SaveFails, Restart, storeVars
<1>4. CASE \/ TakeSnapshot \/ FirstLook \/ CompareFleet \/ CloseExternal \/ ExternalDone \/ ReadPending
           \/ Observed \/ SaveTouches \/ Touched \/ PlanStored \/ GiveUp
           \/ (\E n \in Nodes : RecordExternal(n)) \/ (\E i \in DOMAIN ledger : ResolveRow(i))
    BY <1>4 DEF TakeSnapshot, FirstLook, CompareFleet, CloseExternal, ExternalDone, ReadPending, Observed,
        SaveTouches, Touched, PlanStored, GiveUp, RecordExternal, ResolveRow, Touch, storeVars
<1>5. CASE PruneHistory
    BY <1>5 DEF PruneHistory, storeVars
<1>6. QED BY <1>1, <1>2, <1>3, <1>4, <1>5 DEF Next, Cycle

(* There is one latest plan, and LatestId finds it. *)
LEMMA LatestFound ==
    ASSUME StoreShape, NEW id, IsLatest(id)
    PROVE  LatestId = id /\ \A other : IsLatest(other) => other = id
<1>1. ASSUME NEW other, IsLatest(other) PROVE other = id
    <2>1. id \in DOMAIN plans /\ other \in DOMAIN plans /\ ~(seq[id] > seq[other]) /\ ~(seq[other] > seq[id])
        BY <1>1 DEF IsLatest, Newer
    <2>2. seq[id] \in Nat /\ seq[other] \in Nat
        BY <2>1 DEF StoreShape
    <2>3. seq[id] = seq[other]
        BY <2>1, <2>2
    <2>4. QED BY <2>1, <2>3 DEF StoreShape
<1>2. \E x \in DOMAIN plans : IsLatest(x)
    BY DEF IsLatest
<1>3. IsLatest(LatestId)
    BY <1>2 DEF LatestId
<1>4. QED BY <1>1, <1>3

(* The place the transaction gives is after every other. *)
LEMMA NextSeqIsNext ==
    ASSUME StoreShape
    PROVE  NextSeq \in Nat /\ \A id \in DOMAIN plans : seq[id] < NextSeq
<1> DEFINE S == {0} \cup {seq[id] : id \in DOMAIN plans}
<1>1. \A id \in DOMAIN plans : seq[id] \in Nat
    BY DEF StoreShape
<1>2. S \in SUBSET Nat /\ S # {} /\ \A id \in DOMAIN plans : seq[id] \in S
    BY <1>1
<1>3. PICK b \in Nat : \A id \in DOMAIN plans : seq[id] <= b
    BY DEF StoreShape
<1>4. \A x \in S : x <= b
    BY <1>3
<1>5. NextSeq = Max(S) + 1
    BY DEF NextSeq
<1> HIDE DEF S
<1>6. Max(S) \in S /\ \A f \in S : f <= Max(S)
    BY <1>2, <1>3, <1>4, GreatestNatural
<1> DEFINE m == Max(S)
<1>7. m \in Nat /\ NextSeq = m + 1 /\ \A id \in DOMAIN plans : seq[id] <= m
    BY <1>2, <1>5, <1>6
<1> HIDE DEF m
<1>8. QED BY <1>1, <1>7

(* A computed plan. *)
LEMMA ComputedPlan ==
    ASSUME NEW c \in Computed
    PROVE  c.id \in PlanIds /\ c.ratings \in [1..StepsOf[c.id] -> Ratings] /\ StepsOf[c.id] \in Nat
<1>1. PICK i \in PlanIds : c \in [id : {i}, ratings : [1..StepsOf[i] -> Ratings]]
    BY DEF Computed
<1>2. c.id = i /\ c.ratings \in [1..StepsOf[i] -> Ratings]
    BY <1>1
<1>3. StepsOf[i] \in Nat
    BY StepsAssumption
<1>4. QED BY <1>2, <1>3

(* What the transaction of Save does. *)
LEMMA UpsertStores ==
    ASSUME StoreShape, NEW c \in Computed, Upsert(c)
    PROVE  StoreShape' /\ IsLatest(c.id)' /\ plans'[c.id] = c.ratings
<1>1. c.id \in PlanIds /\ c.ratings \in [1..StepsOf[c.id] -> Ratings]
    BY ComputedPlan
<1>2. NextSeq \in Nat /\ \A id \in DOMAIN plans : seq[id] < NextSeq
    BY NextSeqIsNext
<1> DEFINE k == NextSeq
           i == c.id
<1>3. /\ DOMAIN plans' = DOMAIN plans \cup {i}
      /\ plans'[i] = c.ratings
      /\ \A id \in DOMAIN plans : id # i => plans'[id] = plans[id]
    BY DEF Upsert
<1>4. /\ DOMAIN seq' = DOMAIN plans \cup {i}
      /\ seq' = [id \in DOMAIN plans \cup {i} |-> IF id = i THEN k ELSE seq[id]]
    BY DEF Upsert
<1> HIDE DEF k, i
<1>5. seq'[i] = k /\ \A id \in DOMAIN plans : id # i => seq'[id] = seq[id]
    BY <1>4
<1>6. k \in Nat /\ \A id \in DOMAIN plans : seq[id] \in Nat /\ seq[id] < k
    BY <1>2 DEF StoreShape, k
<1>7. seq' \in [DOMAIN plans' -> Nat]
    BY <1>3, <1>4, <1>6
<1>8. \A a, b \in DOMAIN plans' : seq'[a] = seq'[b] => a = b
    BY <1>3, <1>5, <1>6 DEF StoreShape
<1>9. \A id \in DOMAIN plans' : seq'[id] <= k
    BY <1>3, <1>5, <1>6
<1>10. IsLatest(i)'
    <2>1. \A id \in DOMAIN plans' : ~(seq'[id] > seq'[i])
        BY <1>3, <1>5, <1>6
    <2>2. QED BY <1>3, <2>1 DEF IsLatest, Newer
<1>11. \A id \in DOMAIN plans' : plans'[id] \in [1..StepsOf[id] -> Ratings]
    BY <1>1, <1>3 DEF StoreShape, i
<1>12. DOMAIN plans' \subseteq PlanIds
    BY <1>1, <1>3 DEF StoreShape, i
<1>13. StoreShape'
    BY <1>6, <1>7, <1>8, <1>9, <1>11, <1>12 DEF StoreShape
<1>14. QED BY <1>3, <1>10, <1>13 DEF i

(* What one UPDATE of refreshStepText does. *)
LEMMA RefreshWrites ==
    ASSUME StoreShape, NEW c \in Computed, c.id \in DOMAIN plans,
           NEW i \in 1..StepsOf[c.id], RefreshStepText(c, i)
    PROVE  /\ StoreShape'
           /\ \A id : IsLatest(id) => IsLatest(id)'
           /\ plans'[c.id][i] = c.ratings[i]
           /\ \A j \in 1..StepsOf[c.id] : j # i => plans'[c.id][j] = plans[c.id][j]
<1>1. /\ c.ratings \in [1..StepsOf[c.id] -> Ratings]
      /\ plans[c.id] \in [1..StepsOf[c.id] -> Ratings]
    BY ComputedPlan DEF StoreShape
<1>2. /\ DOMAIN plans' = DOMAIN plans /\ seq' = seq
      /\ plans'[c.id] = [plans[c.id] EXCEPT ![i] = c.ratings[i]]
      /\ \A id \in DOMAIN plans : id # c.id => plans'[id] = plans[id]
    BY DEF RefreshStepText
<1>3. plans'[c.id] \in [1..StepsOf[c.id] -> Ratings]
    BY <1>1, <1>2
<1>4. StoreShape'
    BY <1>2, <1>3 DEF StoreShape
<1>5. \A id : IsLatest(id) => IsLatest(id)'
    BY <1>2 DEF IsLatest, Newer
<1>6. QED BY <1>1, <1>2, <1>4, <1>5

(* What Prune does: the latest plan always stays. *)
LEMMA PruneKeeps ==
    ASSUME StoreShape, Prune
    PROVE  /\ StoreShape'
           /\ \A id : IsLatest(id) => IsLatest(id)'
           /\ \A id \in DOMAIN plans : id \in runPlans => id \in DOMAIN plans'
<1> DEFINE K == DOMAIN plans \ Prunable
<1>1. /\ plans' = [id \in K |-> plans[id]]
      /\ seq' = [id \in K |-> seq[id]]
    BY DEF Prune, Restrict
<1>2. K \subseteq DOMAIN plans /\ \A id \in DOMAIN plans : id \in runPlans => id \in K
    BY DEF Prunable
<1>3. ASSUME NEW id, IsLatest(id) PROVE id \in K
    <2>1. Cardinality(Newer(id)) = 0
        BY <1>3, FS_EmptySet DEF IsLatest
    <2>2. ~(Cardinality(Newer(id)) >= Retain)
        BY <2>1, RetainAssumption
    <2>3. QED BY <1>3, <2>2 DEF IsLatest, Prunable
<1> HIDE DEF K
<1>4. DOMAIN plans' = K /\ \A id \in K : plans'[id] = plans[id] /\ seq'[id] = seq[id]
    BY <1>1
<1>5. \A id : IsLatest(id) => IsLatest(id)'
    <2> SUFFICES ASSUME NEW id, IsLatest(id) PROVE IsLatest(id)'
        OBVIOUS
    <2>1. id \in K /\ \A other \in DOMAIN plans : ~(seq[other] > seq[id])
        BY <1>3 DEF IsLatest, Newer
    <2>2. \A other \in K : ~(seq'[other] > seq'[id])
        BY <1>2, <1>4, <2>1
    <2>3. QED BY <1>4, <2>1, <2>2 DEF IsLatest, Newer
<1>6. StoreShape'
    <2>1. seq' \in [DOMAIN plans' -> Nat]
        BY <1>1, <1>2, <1>4 DEF StoreShape
    <2>2. /\ DOMAIN plans' \subseteq PlanIds
          /\ \A id \in DOMAIN plans' : plans'[id] \in [1..StepsOf[id] -> Ratings]
          /\ \A a, b \in DOMAIN plans' : seq'[a] = seq'[b] => a = b
        BY <1>2, <1>4 DEF StoreShape
    <2>3. \E b \in Nat : \A id \in DOMAIN plans' : seq'[id] <= b
        BY <1>2, <1>4 DEF StoreShape
    <2>4. QED BY <2>1, <2>2, <2>3 DEF StoreShape
<1>7. QED BY <1>2, <1>4, <1>5, <1>6

-----------------------------------------------------------------------------
(* The cycle and the table. *)

(* Where the cycle may be after a step, and what it then holds. *)
LEMMA CycleMoves ==
    ASSUME [Next]_vars
    PROVE  \/ UNCHANGED <<pc, computed, refreshed, plans, seq>>
           \/ pc' = "idle" /\ refreshed' = 0
           \/ TakeSnapshot
           \/ /\ UNCHANGED <<computed, refreshed>>
              /\ pc # "idle" /\ pc' \notin {"idle", "refresh", "notify", "prune"}
           \/ SaveTouches \/ RefreshStep \/ SaveStores \/ PlanStored
<1>1. CASE UNCHANGED vars
    BY <1>1 DEF vars, storeVars, memoryVars
<1>2. CASE World
    BY <1>2 DEF World, StartDrain, EndDrain, RemoveNode, Restore, ClusterShifts, ReadForApproval, EnqueueRun,
        NameInRun, storeVars, memoryVars
<1>3. CASE SaveFails \/ ReadPendingFails \/ Restart \/ (\E i \in DOMAIN ledger : ResolveFails(i))
    BY <1>3 DEF ReadPendingFails, ResolveFails, SaveFails, Restart, ToSave
<1>4. CASE \/ FirstLook \/ CompareFleet \/ CloseExternal \/ ExternalDone \/ ReadPending \/ Observed
           \/ (\E n \in Nodes : RecordExternal(n)) \/ (\E i \in DOMAIN ledger : ResolveRow(i))
    BY <1>4 DEF FirstLook, CompareFleet, CloseExternal, ExternalDone, ReadPending, Observed,
        RecordExternal, ResolveRow, ToSave
<1>5. CASE Touched \/ PruneHistory \/ GiveUp
    BY <1>5 DEF Touched, PruneHistory, GiveUp, EndCycle
<1>6. QED BY <1>1, <1>2, <1>3, <1>4, <1>5 DEF Next, Cycle, Failures

(* The plan a shift of the cluster leads to is always one that could be computed. *)
LEMMA IdealMoves == ASSUME [Next]_vars, ideal \in Computed PROVE ideal' \in Computed
BY DEF vars, worldVars, clusterVars, Next, World, StartDrain, EndDrain, RemoveNode, Restore,
    ClusterShifts, ReadForApproval, EnqueueRun, Cycle, Failures, TakeSnapshot, FirstLook, CompareFleet,
    RecordExternal, CloseExternal, ExternalDone, ReadPending, ResolveRow, Observed, SaveTouches,
    RefreshStep, Touched, SaveStores, PlanStored, PruneHistory, GiveUp, ReadPendingFails,
    ResolveFails, SaveFails, Restart

(* Every step keeps the table's shape and what the cycle has put into it. *)
LEMMA SavingStep ==
    ASSUME [Next]_vars, StoreShape, Saving
    PROVE  StoreShape' /\ Saving'
<1>0. ideal' \in Computed /\ ideal \in Computed /\ refreshed \in Nat
    BY IdealMoves DEF Saving
<1>1. CASE UNCHANGED <<pc, computed, refreshed, plans, seq>>
    BY <1>0, <1>1 DEF StoreShape, Saving, IsLatest, Newer
<1>2. CASE RefreshStep
    <2> DEFINE i == refreshed + 1
    <2>1. /\ pc = "refresh" /\ pc' = "refresh" /\ refreshed < StepsOf[computed.id]
          /\ RefreshStepText(computed, i)
          /\ refreshed' = i /\ UNCHANGED computed
        BY <1>2 DEF RefreshStep
    <2>2. computed \in Computed /\ IsLatest(computed.id) /\ computed.id \in DOMAIN plans
        BY <2>1 DEF Saving, IsLatest
    <2>3. StepsOf[computed.id] \in Nat
        BY <2>2, ComputedPlan
    <2>4. i \in 1..StepsOf[computed.id] /\ i \in Nat /\ \A j \in 1..i : j = i \/ j \in 1..refreshed
        BY <1>0, <2>1, <2>3
    <2>5. \A j \in 1..refreshed : j # i /\ j \in 1..StepsOf[computed.id]
        BY <1>0, <2>1, <2>3
    <2> HIDE DEF i
    <2>6. /\ StoreShape' /\ IsLatest(computed.id)'
          /\ plans'[computed.id][i] = computed.ratings[i]
          /\ \A j \in 1..StepsOf[computed.id] : j # i => plans'[computed.id][j] = plans[computed.id][j]
        <3>1. /\ StoreShape' /\ \A id : IsLatest(id) => IsLatest(id)'
              /\ plans'[computed.id][i] = computed.ratings[i]
              /\ \A j \in 1..StepsOf[computed.id] : j # i => plans'[computed.id][j] = plans[computed.id][j]
            BY <2>1, <2>2, <2>4, RefreshWrites
        <3>2. IsLatest(computed.id)'
            BY <2>1, <2>2, <3>1 DEF IsLatest, Newer
        <3>3. QED BY <3>1, <3>2
    <2>7. \A j \in 1..refreshed : plans[computed.id][j] = computed.ratings[j]
        BY <2>1 DEF Saving
    <2>8. \A j \in 1..i : plans'[computed.id][j] = computed.ratings[j]
        BY <2>4, <2>5, <2>6, <2>7
    <2>9. QED BY <1>0, <2>1, <2>2, <2>4, <2>6, <2>8 DEF Saving
<1>3. CASE SaveStores
    <2>1. /\ pc = "save" /\ pc' = "notify" /\ Upsert(computed) /\ UNCHANGED <<computed, refreshed>>
        BY <1>3 DEF SaveStores
    <2>2. computed \in Computed
        BY <2>1 DEF Saving
    <2>3. StoreShape' /\ IsLatest(computed.id)' /\ plans'[computed.id] = computed.ratings
        <3>1. StoreShape' /\ plans'[computed.id] = computed.ratings
            BY <2>1, <2>2, UpsertStores
        <3>2. IsLatest(computed.id)'
            BY <2>1, <2>2, UpsertStores DEF IsLatest, Newer
        <3>3. QED BY <3>1, <3>2
    <2>4. QED BY <1>0, <2>1, <2>2, <2>3 DEF Saving
<1>4. CASE SaveTouches
    <2>1. /\ pc = "save" /\ pc' = "refresh" /\ refreshed' = 0 /\ IsLatest(computed.id)
          /\ UNCHANGED <<computed, plans, seq>>
        BY <1>4 DEF SaveTouches, Touch, storeVars
    <2>2. StoreShape' /\ IsLatest(computed.id)'
        BY <2>1 DEF StoreShape, IsLatest, Newer
    <2>3. QED BY <1>0, <2>1, <2>2 DEF Saving
<1>5. CASE PlanStored
    <2>1. /\ pc = "notify" /\ pc' = "prune" /\ UNCHANGED <<computed, refreshed, plans, seq>>
        BY <1>5 DEF PlanStored, storeVars
    <2>2. StoreShape' /\ IsLatest(computed.id)'
        BY <2>1 DEF StoreShape, Saving, IsLatest, Newer
    <2>3. QED BY <1>0, <2>1, <2>2 DEF Saving
<1>6. ASSUME pc' \notin {"refresh", "notify", "prune"}, refreshed' \in Nat,
             pc' # "idle" => computed' \in Computed
      PROVE  StoreShape' /\ Saving'
    <2>1. Saving'
        BY <1>0, <1>6 DEF Saving
    <2>2. StoreShape'
        <3>1. CASE UNCHANGED <<plans, seq>>
            BY <3>1 DEF StoreShape
        <3>2. CASE PruneHistory /\ Prune
            BY <3>2, PruneKeeps
        <3>3. QED BY <1>2, <1>3, <3>1, <3>2, PlanMoves
    <2>3. QED BY <2>1, <2>2
<1>7. CASE pc' = "idle" /\ refreshed' = 0
    BY <1>6, <1>7
<1>8. CASE TakeSnapshot
    BY <1>0, <1>6, <1>8 DEF TakeSnapshot
<1>9. CASE /\ UNCHANGED <<computed, refreshed>>
           /\ pc # "idle" /\ pc' \notin {"idle", "refresh", "notify", "prune"}
    BY <1>0, <1>6, <1>9 DEF Saving
<1>10. QED BY <1>1, <1>2, <1>3, <1>4, <1>5, <1>7, <1>8, <1>9, CycleMoves

(* The table and what the cycle has put into it, always. *)
LEMMA SavingAlways == Spec => [](StoreShape /\ Saving)
<1>1. Init => StoreShape /\ Saving
    BY DEF Init, StoreInit, StoreShape, Saving
<1>2. StoreShape /\ Saving /\ [Next]_vars => StoreShape' /\ Saving'
    BY SavingStep
<1>3. QED BY <1>1, <1>2, PTL DEF Spec

(* The latest row once Save has returned: all its steps have been refreshed, or all
   were written. *)
LEMMA LatestSaved == ASSUME StoreShape, Saving, Saved PROVE LatestId = computed.id /\ Latest = computed.ratings
<1>1. computed \in Computed /\ IsLatest(computed.id)
    BY DEF Saving, Saved
<1>2. LatestId = computed.id
    BY <1>1, LatestFound
<1>3. plans[computed.id] = computed.ratings
    <2>1. CASE pc \in {"notify", "prune"}
        BY <2>1 DEF Saving
    <2>2. CASE pc = "refresh" /\ refreshed = StepsOf[computed.id]
        <3>1. \A i \in 1..StepsOf[computed.id] : plans[computed.id][i] = computed.ratings[i]
            BY <2>2 DEF Saving
        <3>2. /\ plans[computed.id] \in [1..StepsOf[computed.id] -> Ratings]
              /\ computed.ratings \in [1..StepsOf[computed.id] -> Ratings]
            BY <1>1, ComputedPlan DEF IsLatest, StoreShape
        <3> DEFINE D == 1..StepsOf[computed.id]
                   f == plans[computed.id]
                   g == computed.ratings
        <3>3. f \in [D -> Ratings] /\ g \in [D -> Ratings] /\ \A i \in D : f[i] = g[i]
            BY <3>1, <3>2
        <3> HIDE DEF D, f, g
        <3>4. f = g
            BY <3>3
        <3>5. QED BY <3>4 DEF f, g
    <2>3. QED BY <2>1, <2>2 DEF Saved
<1>4. QED BY <1>2, <1>3 DEF Latest

(* Once Save has returned, readers find the plan just computed, with the ratings
   just given (sqlstore.go, Save): the touch and the transaction lead to the same
   table, however plans alternate and whatever failed before. *)
THEOREM LatestAlwaysCurrent == Spec => []LatestIsCurrent
<1>1. StoreShape /\ Saving => LatestIsCurrent
    BY LatestSaved DEF LatestIsCurrent
<1>2. QED BY <1>1, SavingAlways, PTL

-----------------------------------------------------------------------------
(* Runs and their plans. *)

(* Who writes the run rows and the request in flight. *)
LEMMA ApprovalMoves ==
    ASSUME [Next]_vars
    PROVE  UNCHANGED <<approving, since, late, runPlans>> \/ ReadForApproval \/ EnqueueRun \/ SaveStores
<1>1. CASE UNCHANGED vars
    BY <1>1 DEF vars, storeVars, approvalVars
<1>2. CASE World
    BY <1>2 DEF World, StartDrain, EndDrain, RemoveNode, Restore, ClusterShifts, storeVars, approvalVars
<1>3. CASE Failures
    BY <1>3 DEF Failures, ReadPendingFails, ResolveFails, SaveFails, Restart, storeVars, approvalVars
<1>4. CASE Cycle
    BY <1>4 DEF Cycle, TakeSnapshot, FirstLook, CompareFleet,
        RecordExternal, CloseExternal, ExternalDone, ReadPending, ResolveRow, Observed, SaveTouches, Touch,
        RefreshStep, RefreshStepText, Touched, PlanStored, PruneHistory, Prune, GiveUp, storeVars, approvalVars
<1>5. QED BY <1>1, <1>2, <1>3, <1>4 DEF Next

(* A table with a plan in it has a latest one. *)
LEMMA LatestExists ==
    ASSUME StoreShape, DOMAIN plans # {}
    PROVE  LatestId \in DOMAIN plans /\ Newer(LatestId) = {}
<1> DEFINE S == {seq[id] : id \in DOMAIN plans}
<1>1. \A id \in DOMAIN plans : seq[id] \in Nat
    BY DEF StoreShape
<1>2. S \in SUBSET Nat /\ S # {} /\ \A id \in DOMAIN plans : seq[id] \in S
    BY <1>1
<1>3. PICK b \in Nat : \A id \in DOMAIN plans : seq[id] <= b
    BY DEF StoreShape
<1>4. \A x \in S : x <= b
    BY <1>3
<1>5. \A x \in S : \E id \in DOMAIN plans : seq[id] = x
    OBVIOUS
<1> HIDE DEF S
<1>6. Max(S) \in S /\ \A f \in S : f <= Max(S)
    BY <1>2, <1>3, <1>4, GreatestNatural
<1>7. PICK top \in DOMAIN plans : seq[top] = Max(S)
    BY <1>5, <1>6
<1>8. \A id \in DOMAIN plans : seq[id] <= seq[top]
    BY <1>2, <1>6, <1>7
<1>9. Newer(top) = {}
    BY <1>1, <1>8 DEF Newer
<1>10. LatestId = top
    BY <1>9, LatestFound DEF IsLatest
<1>11. QED BY <1>9, <1>10

(* A stored plan is newer than those before it, and nothing else becomes newer. *)
LEMMA OneMoreNewer ==
    ASSUME StoreShape, NEW c \in Computed, Upsert(c), NEW id \in DOMAIN plans
    PROVE  Newer(id)' \subseteq Newer(id) \cup {c.id}
<1>1. NextSeq \in Nat /\ \A other \in DOMAIN plans : seq[other] < NextSeq /\ seq[other] \in Nat
    BY NextSeqIsNext DEF StoreShape
<1> DEFINE k == NextSeq
           i == c.id
<1>2. /\ DOMAIN plans' = DOMAIN plans \cup {i}
      /\ seq' = [x \in DOMAIN plans \cup {i} |-> IF x = i THEN k ELSE seq[x]]
    BY DEF Upsert
<1> HIDE DEF k, i
<1>3. seq'[i] = k /\ \A x \in DOMAIN plans : x # i => seq'[x] = seq[x]
    BY <1>2
<1>4. k \in Nat /\ \A x \in DOMAIN plans : seq[x] < k /\ seq[x] \in Nat
    BY <1>1 DEF k
<1> SUFFICES ASSUME NEW x \in DOMAIN plans', seq'[x] > seq'[id], x # i
             PROVE  x \in DOMAIN plans /\ seq[x] > seq[id]
    BY DEF Newer, i
<1>5. x \in DOMAIN plans /\ seq'[x] = seq[x]
    BY <1>2, <1>3
<1>6. CASE id = i
    BY <1>3, <1>4, <1>5, <1>6
<1>7. CASE id # i
    BY <1>3, <1>4, <1>5, <1>7
<1>8. QED BY <1>6, <1>7

(* Every step keeps the runs' plans, and the request's. *)
LEMMA AuditedStep ==
    ASSUME [Next]_vars, StoreShape, Saving, Audited
    PROVE  Audited'
<1>0. /\ IsFiniteSet(DOMAIN plans) /\ since \in Nat /\ Retain \in Nat
      /\ \A id : IsFiniteSet(Newer(id)) /\ Cardinality(Newer(id)) \in Nat
    <2>1. IsFiniteSet(DOMAIN plans) /\ \A id : Newer(id) \subseteq DOMAIN plans
        BY DEF Audited, Newer
    <2>2. \A id : IsFiniteSet(Newer(id))
        BY <2>1, FS_Subset
    <2>3. QED BY <2>1, <2>2, FS_CardinalityType, RetainAssumption DEF Audited
<1>1. CASE SaveStores
    <2>1. /\ pc = "save" /\ Upsert(computed) /\ UNCHANGED <<approving, late, runPlans>>
          /\ since' = IF approving = Unknown THEN 0 ELSE since + 1
        BY <1>1 DEF SaveStores, Upsert
    <2>2. computed \in Computed
        BY <2>1 DEF Saving
    <2>3. DOMAIN plans' = DOMAIN plans \cup {computed.id}
        BY <2>1 DEF Upsert
    <2>4. IsFiniteSet(DOMAIN plans')
        BY <1>0, <2>3, FS_AddElement
    <2>5. CASE approving \in DOMAIN plans /\ approving # Unknown
        <3>1. Newer(approving)' \subseteq Newer(approving) \cup {computed.id}
            <4>0. PICK a : a = approving
                OBVIOUS
            <4>1. Newer(a)' \subseteq Newer(a) \cup {computed.id}
                BY <2>1, <2>2, <2>5, <4>0, OneMoreNewer
            <4>2. QED BY <2>1, <4>0, <4>1 DEF Newer
        <3> DEFINE N == Newer(approving)
                   M == Newer(approving) \cup {computed.id}
        <3>2. IsFiniteSet(M) /\ Cardinality(M) \in {Cardinality(N), Cardinality(N) + 1}
            BY <1>0, FS_AddElement
        <3>3. Cardinality(N) <= since /\ Cardinality(N) \in Nat
            BY <1>0, <2>5 DEF Audited
        <3>4. Cardinality(Newer(approving)') <= Cardinality(M) /\ IsFiniteSet(Newer(approving)')
            BY <3>1, <3>2, FS_Subset
        <3>5. Cardinality(Newer(approving)') \in Nat
            BY <3>4, FS_CardinalityType
        <3> HIDE DEF N, M
        <3>6. Cardinality(Newer(approving)') <= since + 1
            BY <1>0, <3>2, <3>3, <3>4, <3>5
        <3>7. QED BY <1>0, <2>1, <2>3, <2>4, <2>5, <3>6 DEF Audited, AuditedPlansKept
    <2>6. CASE approving \notin DOMAIN plans /\ approving # Unknown /\ approving = computed.id
        <3>1. IsLatest(computed.id)'
            <4>0. PICK c : c = computed
                OBVIOUS
            <4>1. IsLatest(c.id)'
                BY <2>1, <2>2, <4>0, UpsertStores
            <4>2. QED BY <1>1, <4>0, <4>1 DEF IsLatest, Newer, SaveStores
        <3>2. Cardinality(Newer(approving)') = 0
            BY <1>1, <2>1, <2>6, <3>1, FS_EmptySet DEF IsLatest, Newer, SaveStores
        <3>3. QED BY <1>0, <2>1, <2>3, <2>4, <2>6, <3>2 DEF Audited, AuditedPlansKept
    <2>7. CASE approving \notin DOMAIN plans /\ approving # Unknown /\ approving # computed.id
        BY <1>0, <2>1, <2>3, <2>4, <2>7 DEF Audited, AuditedPlansKept
    <2>8. CASE approving = Unknown
        BY <2>1, <2>3, <2>4, <2>8 DEF Audited, AuditedPlansKept
    <2>9. QED BY <2>5, <2>6, <2>7, <2>8
<1>2. CASE ReadForApproval
    <2>1. /\ DOMAIN plans # {} /\ approving' = LatestId
          /\ UNCHANGED <<since, late, plans, seq, runPlans>>
        BY <1>2 DEF ReadForApproval, storeVars
    <2>2. LatestId \in DOMAIN plans /\ Newer(LatestId) = {}
        BY <2>1, LatestExists
    <2>3. approving' \in DOMAIN plans' /\ Newer(approving)' = {}
        BY <2>1, <2>2 DEF Newer
    <2>4. Cardinality(Newer(approving)') = 0
        BY <2>3, FS_EmptySet
    <2>5. QED BY <1>0, <2>1, <2>3, <2>4 DEF Audited, AuditedPlansKept
<1>3. CASE EnqueueRun
    <2>1. /\ approving # Unknown /\ approving' = Unknown /\ since' = 0
          /\ runPlans' = runPlans \cup {approving} /\ UNCHANGED plans
          /\ late' = IF since >= Retain THEN late \cup {approving} ELSE late
        BY <1>3 DEF EnqueueRun, NameInRun
    <2>2. QED BY <1>0, <2>1 DEF Audited, AuditedPlansKept
<1>4. CASE UNCHANGED <<approving, since, late, runPlans>> /\ ~SaveStores
    <2>1. CASE UNCHANGED <<plans, seq>> \/ RefreshStep
        <3>1. DOMAIN plans' = DOMAIN plans /\ UNCHANGED seq
            BY <2>1 DEF RefreshStep, RefreshStepText
        <3>2. Newer(approving)' = Newer(approving)
            BY <1>4, <3>1 DEF Newer
        <3>3. QED BY <1>0, <1>4, <3>1, <3>2 DEF Audited, AuditedPlansKept
    <2>2. CASE PruneHistory /\ Prune
        <3> DEFINE K == DOMAIN plans \ Prunable
        <3>1. DOMAIN plans' = K /\ \A id \in K : seq'[id] = seq[id]
            BY <2>2 DEF Prune, Restrict
        <3>2. K \subseteq DOMAIN plans /\ \A id \in runPlans : id \in DOMAIN plans => id \in K
            BY DEF Prunable
        <3>3. \A id \in DOMAIN plans : id \notin K => Cardinality(Newer(id)) >= Retain
            BY DEF Prunable
        <3> HIDE DEF K
        <3>4. IsFiniteSet(DOMAIN plans')
            BY <1>0, <3>1, <3>2, FS_Subset
        <3>5. CASE approving # Unknown /\ approving \in K
            <4>1. Newer(approving)' \subseteq Newer(approving)
                BY <1>4, <3>1, <3>2, <3>5 DEF Newer
            <4>2. /\ Cardinality(Newer(approving)') <= Cardinality(Newer(approving))
                  /\ IsFiniteSet(Newer(approving)')
                BY <1>0, <4>1, FS_Subset
            <4>3. Cardinality(Newer(approving)') \in Nat
                BY <4>2, FS_CardinalityType
            <4>4. Cardinality(Newer(approving)) <= since
                BY <3>2, <3>5 DEF Audited
            <4>5. Cardinality(Newer(approving)') <= since
                BY <1>0, <4>2, <4>3, <4>4
            <4>6. QED BY <1>0, <1>4, <3>1, <3>2, <3>4, <3>5, <4>5 DEF Audited, AuditedPlansKept
        <3>6. CASE approving # Unknown /\ approving \notin K
            <4>1. since >= Retain
                <5>1. CASE approving \in DOMAIN plans
                    <6>1. /\ Cardinality(Newer(approving)) >= Retain
                          /\ Cardinality(Newer(approving)) <= since
                          /\ Cardinality(Newer(approving)) \in Nat
                        BY <1>0, <3>3, <3>6, <5>1 DEF Audited
                    <6>2. QED BY <1>0, <6>1
                <5>2. CASE approving \notin DOMAIN plans
                    BY <3>6, <5>2 DEF Audited
                <5>3. QED BY <5>1, <5>2
            <4>2. QED BY <1>0, <1>4, <3>1, <3>2, <3>4, <3>6, <4>1 DEF Audited, AuditedPlansKept
        <3>7. CASE approving = Unknown
            BY <1>0, <1>4, <3>1, <3>2, <3>4, <3>7 DEF Audited, AuditedPlansKept
        <3>8. QED BY <3>5, <3>6, <3>7
    <2>3. QED BY <1>4, <2>1, <2>2, PlanMoves
<1>5. QED BY <1>1, <1>2, <1>3, <1>4, ApprovalMoves

(* The plan of a run stays in the table (sqlstore.go, Prune), whatever is stored
   and pruned while its request, its run and its audit live; a run without its
   plan was queued after Retain more plans had been stored. *)
THEOREM AuditedPlansAlwaysKept == Spec => []AuditedPlansKept
<1>1. Init => Audited
    BY FS_EmptySet DEF Init, StoreInit, Audited, AuditedPlansKept
<1>2. StoreShape /\ Saving /\ Audited /\ [Next]_vars => Audited'
    BY AuditedStep
<1>3. Audited => AuditedPlansKept
    BY DEF Audited
<1>4. QED BY <1>1, <1>2, <1>3, SavingAlways, PTL DEF Spec

-----------------------------------------------------------------------------
(* The types. *)

(* Every variable holds a value of its kind, and every plan stored has a place of
   its own. *)
THEOREM PublisherTypes == Spec => []TypeOK
<1>1. FleetShape /\ StoreShape => TypeOK
    <2> SUFFICES ASSUME FleetShape, StoreShape PROVE TypeOK
        OBVIOUS
    <2>1. \A i \in DOMAIN ledger : ledger[i].node \in Nodes /\ ledger[i].outcome \in Outcomes
        <3> SUFFICES ASSUME NEW i \in DOMAIN ledger PROVE ledger[i] \in Rows
            BY DEF Rows
        <3>1. i \in 1..Len(ledger) /\ ledger \in Seq(Rows)
            BY LenProperties DEF FleetShape
        <3>2. QED BY <3>1, ElementOfSeq
    <2>2. seq \in [DOMAIN plans -> Nat] /\ IsInjective(seq)
        BY DEF StoreShape, IsInjective
    <2>3. QED BY <2>1, <2>2 DEF FleetShape, StoreShape, Phases, TypeOK
<1>2. QED BY <1>1, FleetAlways, SavingAlways, PTL

-----------------------------------------------------------------------------
(* The notifier. *)

(* Who writes the notifier and its last message. *)
LEMMA NotifierMoves ==
    ASSUME [Next]_vars
    PROVE  UNCHANGED <<notifier, told>> \/ PlanStored \/ Restart
<1>1. CASE UNCHANGED vars
    BY <1>1 DEF vars, memoryVars
<1>2. CASE World
    BY <1>2 DEF World, StartDrain, EndDrain, RemoveNode, Restore, ClusterShifts, ReadForApproval, EnqueueRun,
        memoryVars
<1>3. CASE Cycle \/ Failures
    BY <1>3 DEF Cycle, Failures, TakeSnapshot, FirstLook, CompareFleet,
        RecordExternal, CloseExternal, ExternalDone, ReadPending, ResolveRow, Observed, SaveTouches,
        RefreshStep, Touched, SaveStores, PruneHistory, GiveUp, ReadPendingFails,
        ResolveFails, SaveFails
<1>4. QED BY <1>1, <1>2, <1>3 DEF Next

(* What was just stored is announced, unless the process dies. *)
LEMMA AnnouncesNext ==
    ASSUME [Next]_vars, pc = "notify"
    PROVE  pc' = "notify" \/ PlanStored \/ Restart
<1>1. CASE UNCHANGED vars
    BY <1>1 DEF vars, memoryVars
<1>2. CASE World
    BY <1>2 DEF World, StartDrain, EndDrain, RemoveNode, Restore, ClusterShifts, ReadForApproval, EnqueueRun,
        memoryVars
<1>3. CASE Cycle \/ Failures
    BY <1>3 DEF Cycle, Failures, TakeSnapshot, FirstLook, CompareFleet,
        RecordExternal, CloseExternal, ExternalDone, ReadPending, ResolveRow, Observed, SaveTouches,
        RefreshStep, Touched, SaveStores, PruneHistory, GiveUp, ReadPendingFails,
        ResolveFails, SaveFails
<1>4. QED BY <1>1, <1>2, <1>3 DEF Next

(* The message PlanStored sends, if any: after it a last message of this process is
   true of the plan just stored, and a safe plan is the one it names. *)
LEMMA MessageIsTrue ==
    ASSUME PlanStored, StoreShape, Saving, Announced
    PROVE  /\ notifier'.wasSafe \in BOOLEAN /\ told'.safe \in BOOLEAN /\ told'.mine \in BOOLEAN
           /\ notifier' = [wasSafe |-> notifier'.wasSafe, lastPlan |-> notifier'.lastPlan]
           /\ told' = [plan |-> told'.plan, safe |-> told'.safe, mine |-> told'.mine]
           /\ notifier'.lastPlan = computed.id
           /\ notifier'.wasSafe <=> Safe(computed.ratings)
           /\ told'.mine /\ told'.safe => notifier'.wasSafe
           /\ notifier'.wasSafe => told'.safe /\ told'.plan = computed.id
<1> DEFINE safe == Safe(computed.ratings)
<1>1. safe \in BOOLEAN
    BY DEF Safe
<1>2. /\ pc = "notify"
      /\ notifier' = [wasSafe |-> safe, lastPlan |-> computed.id]
      /\ told' = IF EventKind = "none" THEN told ELSE [plan |-> computed.id, safe |-> safe, mine |-> TRUE]
    BY DEF PlanStored
<1>3. EventKind = "none" => ~(safe /\ ~notifier.wasSafe)
                            /\ ~(notifier.wasSafe /\ notifier.lastPlan \notin {Unknown, computed.id})
    BY DEF EventKind
<1>4. /\ told.safe \in BOOLEAN /\ notifier.wasSafe \in BOOLEAN /\ told.mine \in BOOLEAN
      /\ told = [plan |-> told.plan, safe |-> told.safe, mine |-> told.mine]
      /\ told.mine /\ told.safe => notifier.wasSafe
      /\ notifier.wasSafe => notifier.lastPlan \notin {Unknown, computed.id}
    BY <1>2 DEF Announced
<1> HIDE DEF safe
<1>5. /\ notifier'.wasSafe = safe /\ notifier'.lastPlan = computed.id
      /\ notifier' = [wasSafe |-> notifier'.wasSafe, lastPlan |-> notifier'.lastPlan]
    BY <1>2
<1>6. CASE EventKind = "none"
    <2>1. ~safe /\ told' = told /\ ~(told.mine /\ told.safe)
        BY <1>2, <1>3, <1>4, <1>6, Zenon
    <2>2. QED BY <1>1, <1>4, <1>5, <2>1 DEF safe
<1>7. CASE EventKind # "none"
    <2>1. /\ told'.plan = computed.id /\ told'.safe = safe /\ told'.mine = TRUE
          /\ told' = [plan |-> told'.plan, safe |-> told'.safe, mine |-> told'.mine]
        BY <1>2, <1>7
    <2>2. QED BY <1>1, <1>2, <1>5, <2>1 DEF safe
<1>8. QED BY <1>6, <1>7

(* Every step keeps what the notifier knows. *)
LEMMA AnnouncedStep ==
    ASSUME [Next]_vars, StoreShape, Saving, Announced
    PROVE  Announced'
<1>1. CASE Restart
    <2>1. /\ pc' = "idle" /\ notifier' = [wasSafe |-> FALSE, lastPlan |-> Unknown]
          /\ told' = [told EXCEPT !.mine = FALSE]
        BY <1>1 DEF Restart, Silent
    <2>2. notifier'.wasSafe = FALSE /\ notifier'.lastPlan = Unknown
        BY <2>1
    <2>3. told = [plan |-> told.plan, safe |-> told.safe, mine |-> told.mine] /\ told.safe \in BOOLEAN
        BY DEF Announced
    <2>4. told' = [plan |-> told.plan, safe |-> told.safe, mine |-> FALSE]
        BY <2>1, <2>3
    <2>5. /\ told'.plan = told.plan /\ told'.safe = told.safe /\ told'.mine = FALSE
          /\ told' = [plan |-> told'.plan, safe |-> told'.safe, mine |-> told'.mine]
        BY <2>4
    <2>6. QED BY <2>1, <2>2, <2>3, <2>5 DEF Announced
<1>2. CASE PlanStored
    <2>1. pc = "notify" /\ pc' = "prune" /\ UNCHANGED <<computed, plans, seq>>
        BY <1>2 DEF PlanStored, storeVars
    <2>2. computed \in Computed /\ IsLatest(computed.id)
        BY <2>1 DEF Saving
    <2>3. computed.id # Unknown
        BY <2>2, ComputedPlan, UnknownAssumption
    <2>4. IsLatest(computed.id)'
        BY <2>1, <2>2 DEF IsLatest, Newer
    <2>5. IsLatest(notifier.lastPlan)'
        BY <1>2, <2>1, <2>4, MessageIsTrue DEF IsLatest, Newer
    <2>6. QED BY <1>2, <2>1, <2>3, <2>5, MessageIsTrue DEF Announced
<1>3. ASSUME UNCHANGED <<notifier, told>>, NEW last, last = notifier.lastPlan,
             last # Unknown => IF pc' = "notify" THEN last # computed'.id ELSE IsLatest(last)',
             pc' = "prune" => pc = "prune" /\ UNCHANGED computed
      PROVE  Announced'
    <2>1. IsLatest(notifier.lastPlan)' <=> IsLatest(last)'
        BY <1>3 DEF IsLatest, Newer
    <2>2. QED BY <1>3, <2>1 DEF Announced
<1>4. CASE UNCHANGED <<notifier, told>> /\ ~PlanStored
    <2>0. PICK last : last = notifier.lastPlan
        OBVIOUS
    <2>1. pc' = "prune" => pc = "prune" /\ UNCHANGED computed
        BY <1>4, CycleMoves DEF TakeSnapshot, SaveTouches, RefreshStep, SaveStores
    <2>2. last # Unknown => IF pc = "notify" THEN last # computed.id ELSE IsLatest(last)
        BY <2>0 DEF Announced
    <2>3. CASE SaveStores
        <3>1. pc = "save" /\ pc' = "notify" /\ ~IsLatest(computed.id) /\ UNCHANGED computed
            BY <2>3 DEF SaveStores, Upsert
        <3>2. QED BY <1>3, <1>4, <2>0, <2>1, <2>2, <3>1
    <2>4. CASE ~SaveStores
        <3>1. IsLatest(last) => IsLatest(last)'
            <4>1. CASE UNCHANGED <<plans, seq>>
                BY <4>1 DEF IsLatest, Newer
            <4>2. CASE RefreshStep
                BY <4>2 DEF IsLatest, Newer, RefreshStep, RefreshStepText
            <4>3. CASE PruneHistory /\ Prune
                BY <4>3, PruneKeeps
            <4>4. QED BY <2>4, <4>1, <4>2, <4>3, PlanMoves
        <3>2. CASE pc' = "notify"
            <4>1. pc = "notify" /\ UNCHANGED computed
                BY <1>4, <2>4, <3>2, CycleMoves DEF TakeSnapshot, SaveTouches, RefreshStep
            <4>2. QED BY <1>3, <1>4, <2>0, <2>1, <2>2, <3>2, <4>1
        <3>3. CASE pc' # "notify" /\ pc # "notify"
            BY <1>3, <1>4, <2>0, <2>1, <2>2, <3>1, <3>3
        <3>4. CASE pc' # "notify" /\ pc = "notify"
            <4>1. Restart
                BY <1>4, <3>4, AnnouncesNext
            <4>2. QED BY <1>1, <4>1
        <3>5. QED BY <3>2, <3>3, <3>4
    <2>5. QED BY <2>3, <2>4
<1>5. QED BY <1>1, <1>2, <1>4, NotifierMoves

(* The channel can be acted on after every stored plan (notify.go, PlanStored): a
   safe step is announced, with the plan it is in, through every sequence of plans,
   restarts and failures; and only a message from before a restart can announce a
   safe step that is not there. *)
THEOREM AlwaysTold == Spec => []ToldWhatIsStored
<1>1. Init => Announced
    BY DEF Init, Announced, Silent, Nothing
<1>2. StoreShape /\ Saving /\ Announced /\ [Next]_vars => Announced'
    BY AnnouncedStep
<1>3. StoreShape /\ Saving /\ Announced => ToldWhatIsStored
    <2> SUFFICES ASSUME StoreShape, Saving, Announced, pc = "prune"
                 PROVE  /\ Safe(Latest) => told.safe /\ told.plan = LatestId
                        /\ told.mine /\ told.safe => Safe(Latest)
        BY DEF ToldWhatIsStored
    <2>1. LatestId = computed.id /\ Latest = computed.ratings
        BY LatestSaved DEF Saved
    <2>2. QED BY <2>1 DEF Announced
<1>4. QED BY <1>1, <1>2, <1>3, SavingAlways, PTL DEF Spec
=============================================================================
