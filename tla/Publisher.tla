------------------------------ MODULE Publisher ------------------------------
(***************************************************************************)
(* internal/publish: the planner process, one planning cycle after the     *)
(* other, and what goes on around it: the executor drains nodes and opens  *)
(* reclamation records, an autoscaler removes nodes and adds them, people  *)
(* uncordon them, the ui-backend approves plans, the process restarts, the *)
(* store fails.                                                            *)
(*                                                                         *)
(* Every statement the cycle sends to the store is an action of its own;   *)
(* between any two the others may move. What the planner computes from a   *)
(* snapshot (module Greedy) is an arbitrary plan here.                     *)
(***************************************************************************)
EXTENDS PlanStore, Reclamation

CONSTANTS
    Unknown,        \* no value: seenNodes == nil, lastPlan == "", no plan read
    Faults,         \* "store", "crash"
    MaxEvents       \* bound on what happens around the planner, failures included

ASSUME UnknownAssumption == Unknown \notin PlanIds

VARIABLES
    node,           \* name -> "serving", "cordoned", "absent"
    departures,     \* name -> how often the node left
    draining,       \* nodes the executor has cordoned and not yet recorded
    ideal,          \* the plan the cluster, as it is, leads to
    events,
    approving,      \* the plan id a request has read and not yet queued
    since,          \* history: plans stored since it was read
    late,           \* history: the plans queued only after Retain others were stored
    pc,             \* where the cycle is
    snap, computed, \* its snapshot, its plan
    seen,           \* seenNodes
    departed,       \* nodes still to record as gone by themselves
    judged,         \* transitions still to write
    refreshed,      \* steps whose rating the touch has refreshed
    notifier,       \* wasSafe, lastPlan
    told            \* history: the last message in the channel; mine: of this process

clusterVars == <<node, departures, draining, ideal>>
worldVars   == <<clusterVars, events>>
memoryVars  == <<pc, snap, computed, seen, departed, judged, refreshed, notifier, told>>
approvalVars == <<approving, since, late>>
vars == <<storeVars, ledger, worldVars, approvalVars, memoryVars>>

Computed == UNION {[id : {i}, ratings : [1..StepsOf[i] -> Ratings]] : i \in PlanIds}

Present(s) == {n \in Nodes : s[n] # "absent"}
AllServing == [n \in Nodes |-> "serving"]
Silent == [wasSafe |-> FALSE, lastPlan |-> Unknown]
Nothing == [plan |-> Unknown, safe |-> FALSE, mine |-> FALSE]

Init ==
    /\ StoreInit /\ ledger = <<>>
    /\ node = AllServing /\ departures = [n \in Nodes |-> 0] /\ draining = {}
    /\ ideal \in Computed /\ events = 0
    /\ approving = Unknown /\ since = 0 /\ late = {}
    /\ pc = "idle" /\ snap = AllServing /\ computed = Unknown /\ seen = Unknown
    /\ departed = {} /\ judged = {} /\ refreshed = 0
    /\ notifier = Silent /\ told = Nothing

-----------------------------------------------------------------------------
(* The world around the planner.                                            *)

Event == events < MaxEvents /\ events' = events + 1

(* A statement fails. *)
StoreFails == "store" \in Faults /\ Event

(* The executor cordons a node, empties it and then records the drain. A second
   drain of a cordoned node is accepted; a failed one uncordons it again. *)
StartDrain(n) ==
    /\ Event
    /\ node[n] # "absent" /\ n \notin draining
    /\ node' = [node EXCEPT ![n] = "cordoned"]
    /\ draining' = draining \cup {n}
    /\ UNCHANGED <<storeVars, ledger, departures, ideal, approvalVars, memoryVars>>

EndDrain(n) ==
    /\ n \in draining
    /\ draining' = draining \ {n}
    /\ \/ RecordDrain(n, FALSE) /\ UNCHANGED <<node, events>>
       \/ StoreFails /\ UNCHANGED <<ledger, node>>
       \/ /\ node[n] = "cordoned"
          /\ node' = [node EXCEPT ![n] = "serving"]
          /\ UNCHANGED <<ledger, events>>
    /\ UNCHANGED <<storeVars, departures, ideal, approvalVars, memoryVars>>

RemoveNode(n) ==
    /\ Event
    /\ node[n] # "absent"
    /\ node' = [node EXCEPT ![n] = "absent"]
    /\ departures' = [departures EXCEPT ![n] = @ + 1]
    /\ UNCHANGED <<storeVars, ledger, draining, ideal, approvalVars, memoryVars>>

(* A node of the same name joins, or a cordoned one is given back. *)
Restore(n) ==
    /\ Event
    /\ node[n] # "serving"
    /\ node' = [node EXCEPT ![n] = "serving"]
    /\ UNCHANGED <<storeVars, ledger, departures, draining, ideal, approvalVars, memoryVars>>

(* Pods come and go, thresholds and budgets move: another plan, or the same
   steps rated otherwise. *)
ClusterShifts ==
    /\ Event
    /\ ideal' \in Computed \ {ideal}
    /\ UNCHANGED <<storeVars, ledger, node, departures, draining, approvalVars, memoryVars>>

(* The execute handler reads the latest plan; the run row is inserted later. *)
ReadForApproval ==
    /\ Event
    /\ approving = Unknown /\ DOMAIN plans # {}
    /\ approving' = LatestId
    /\ UNCHANGED <<since, late, storeVars, ledger, node, departures, draining, ideal, memoryVars>>

EnqueueRun ==
    /\ approving # Unknown
    /\ NameInRun(approving)
    /\ approving' = Unknown /\ since' = 0
    /\ late' = IF since >= Retain THEN late \cup {approving} ELSE late
    /\ UNCHANGED <<ledger, worldVars, memoryVars>>

-----------------------------------------------------------------------------
(* The cycle: snapshot and plan.                                            *)

(* A failed snapshot ends the cycle as it began. *)
TakeSnapshot ==
    /\ pc = "idle"
    /\ snap' = node
    /\ computed' = ideal
    /\ pc' = "external"
    /\ UNCHANGED <<storeVars, ledger, worldVars, approvalVars, seen, departed, judged, refreshed,
                   notifier, told>>

-----------------------------------------------------------------------------
(* recordExternalReclaims.                                                  *)

(* The first cycle of a process only observes. *)
FirstLook ==
    /\ pc = "external" /\ seen = Unknown
    /\ seen' = Present(snap)
    /\ pc' = "pending"
    /\ UNCHANGED <<storeVars, ledger, worldVars, approvalVars, snap, computed, departed, judged, refreshed,
                   notifier, told>>

(* Ours are the open records; a read that fails leaves none. *)
CompareFleet ==
    /\ pc = "external" /\ seen # Unknown
    /\ \/ /\ departed' = (seen \ Present(snap)) \ {ledger[i].node : i \in Pending}
          /\ UNCHANGED events
       \/ StoreFails /\ departed' = seen \ Present(snap)
    /\ pc' = "record"
    /\ UNCHANGED <<storeVars, ledger, clusterVars, approvalVars, snap, computed, seen, judged, refreshed,
                   notifier, told>>

RecordExternal(n) ==
    /\ pc = "record" /\ n \in departed
    /\ \/ RecordDrain(n, TRUE) /\ pc' = "close" /\ UNCHANGED events
       \/ StoreFails /\ UNCHANGED <<ledger, pc>>
    /\ departed' = departed \ {n}
    /\ UNCHANGED <<storeVars, clusterVars, approvalVars, snap, computed, seen, judged, refreshed,
                   notifier, told>>

(* The row just inserted is resolved at once. It is the last open external
   row: the executor's rows are not external. *)
CloseExternal ==
    /\ pc = "close"
    /\ \/ \E i \in Pending :
             /\ ledger[i].external
             /\ \A j \in Pending : ledger[j].external => j <= i
             /\ ResolveReclamation(i, "gone")
             /\ UNCHANGED events
       \/ StoreFails /\ UNCHANGED ledger
    /\ pc' = "record"
    /\ UNCHANGED <<storeVars, clusterVars, approvalVars, snap, computed, seen, departed, judged, refreshed,
                   notifier, told>>

(* Seeded fault: the fleet is remembered from the first cycle only. *)
RememberFirst == UNCHANGED seen

Remember == seen' = Present(snap)

ExternalDone ==
    /\ pc = "record" /\ departed = {}
    /\ Remember
    /\ pc' = "pending"
    /\ UNCHANGED <<storeVars, ledger, worldVars, approvalVars, snap, computed, departed, judged, refreshed,
                   notifier, told>>

-----------------------------------------------------------------------------
(* observeReclamations.                                                     *)

(* Save no longer needs the snapshot. *)
ToSave == pc' = "save" /\ snap' = AllServing

(* The cycle returns, and its local variables are gone. *)
EndCycle == pc' = "idle" /\ computed' = Unknown /\ refreshed' = 0

ReadPending ==
    /\ pc = "pending"
    /\ judged' = Transitions(Pending, snap)
    /\ pc' = "resolve"
    /\ UNCHANGED <<storeVars, ledger, worldVars, approvalVars, snap, computed, seen, departed, refreshed,
                   notifier, told>>

ReadPendingFails ==
    /\ pc = "pending"
    /\ StoreFails
    /\ ToSave
    /\ UNCHANGED <<storeVars, ledger, clusterVars, approvalVars, computed, seen, departed, judged, refreshed,
                   notifier, told>>

ResolveRow(i) ==
    /\ pc = "resolve"
    /\ \E t \in judged : t.row = i /\ ResolveReclamation(i, t.outcome) /\ judged' = judged \ {t}
    /\ UNCHANGED <<storeVars, worldVars, approvalVars, pc, snap, computed, seen, departed, refreshed,
                   notifier, told>>

ResolveFails(i) ==
    /\ pc = "resolve"
    /\ StoreFails
    /\ \E t \in judged : t.row = i /\ judged' = judged \ {t}
    /\ UNCHANGED <<storeVars, ledger, clusterVars, approvalVars, pc, snap, computed, seen, departed, refreshed,
                   notifier, told>>

Observed ==
    /\ pc = "resolve" /\ judged = {}
    /\ ToSave
    /\ UNCHANGED <<storeVars, ledger, worldVars, approvalVars, computed, seen, departed, judged, refreshed,
                   notifier, told>>

-----------------------------------------------------------------------------
(* Save, PlanStored, Prune.                                                 *)

SaveTouches ==
    /\ pc = "save"
    /\ Touch(computed)
    /\ refreshed' = 0
    /\ pc' = "refresh"
    /\ UNCHANGED <<ledger, worldVars, approvalVars, snap, computed, seen, departed, judged,
                   notifier, told>>

RefreshStep ==
    /\ pc = "refresh" /\ refreshed < StepsOf[computed.id]
    /\ RefreshStepText(computed, refreshed + 1)
    /\ refreshed' = refreshed + 1
    /\ UNCHANGED <<ledger, worldVars, approvalVars, pc, snap, computed, seen, departed, judged,
                   notifier, told>>

(* Save answers "not stored": nothing is announced or pruned. *)
Touched ==
    /\ pc = "refresh" /\ refreshed = StepsOf[computed.id]
    /\ EndCycle
    /\ UNCHANGED <<storeVars, ledger, worldVars, approvalVars, snap, seen, departed, judged,
                   notifier, told>>

SaveStores ==
    /\ pc = "save"
    /\ Upsert(computed)
    /\ since' = IF approving = Unknown THEN 0 ELSE since + 1
    /\ pc' = "notify"
    /\ UNCHANGED <<ledger, worldVars, approving, late, snap, computed, seen, departed, judged, refreshed,
                   notifier, told>>

(* The touch, a refresh or the transaction fails. *)
SaveFails ==
    /\ pc \in {"save", "refresh"}
    /\ StoreFails
    /\ pc' = "broken"
    /\ UNCHANGED <<storeVars, ledger, clusterVars, approvalVars, snap, computed, seen, departed, judged, refreshed,
                   notifier, told>>

(* The error is logged; the next cycle tries again. *)
GiveUp ==
    /\ pc = "broken"
    /\ EndCycle
    /\ UNCHANGED <<storeVars, ledger, worldVars, approvalVars, snap, seen, departed, judged,
                   notifier, told>>

Safe(ratings) == \E i \in DOMAIN ratings : ratings[i] = "Green"

(* Seeded fault: a change among safe plans is not worth a message. *)
EventKindFirstOnly ==
    IF Safe(computed.ratings) /\ ~notifier.wasSafe THEN "actionable" ELSE "none"

EventKind ==
    CASE Safe(computed.ratings) /\ ~notifier.wasSafe -> "actionable"
      [] notifier.wasSafe /\ notifier.lastPlan \notin {Unknown, computed.id} -> "superseded"
      [] OTHER -> "none"

(* The message names the plan and says how many steps are safe. It is posted
   by a goroutine of its own; the cycle does not wait for it. *)
PlanStored ==
    /\ pc = "notify"
    /\ notifier' = [wasSafe |-> Safe(computed.ratings), lastPlan |-> computed.id]
    /\ told' =
       IF EventKind = "none" THEN told
       ELSE [plan |-> computed.id, safe |-> Safe(computed.ratings), mine |-> TRUE]
    /\ pc' = "prune"
    /\ UNCHANGED <<storeVars, ledger, worldVars, approvalVars, snap, computed, seen, departed, judged, refreshed>>

PruneHistory ==
    /\ pc = "prune"
    /\ \/ Prune /\ UNCHANGED events
       \/ StoreFails /\ UNCHANGED storeVars
    /\ EndCycle
    /\ UNCHANGED <<ledger, clusterVars, approvalVars, snap, seen, departed, judged,
                   notifier, told>>

-----------------------------------------------------------------------------
(* The process dies anywhere and starts with an empty memory; what it sent
   stays in the channel. *)
Restart ==
    /\ "crash" \in Faults
    /\ Event
    /\ pc' = "idle" /\ snap' = AllServing /\ computed' = Unknown /\ seen' = Unknown
    /\ departed' = {} /\ judged' = {} /\ refreshed' = 0
    /\ notifier' = Silent /\ told' = [told EXCEPT !.mine = FALSE]
    /\ UNCHANGED <<storeVars, ledger, node, departures, draining, ideal, approvalVars>>

World ==
    \/ \E n \in Nodes : StartDrain(n) \/ EndDrain(n) \/ RemoveNode(n) \/ Restore(n)
    \/ ClusterShifts \/ ReadForApproval \/ EnqueueRun

Cycle ==
    \/ TakeSnapshot \/ FirstLook \/ CompareFleet
    \/ (\E n \in Nodes : RecordExternal(n))
    \/ CloseExternal \/ ExternalDone
    \/ ReadPending \/ (\E i \in DOMAIN ledger : ResolveRow(i)) \/ Observed
    \/ SaveTouches \/ RefreshStep \/ Touched \/ SaveStores
    \/ PlanStored \/ PruneHistory \/ GiveUp

Failures ==
    \/ ReadPendingFails \/ (\E i \in DOMAIN ledger : ResolveFails(i)) \/ SaveFails
    \/ Restart

Next == World \/ Cycle \/ Failures

Spec == Init /\ [][Next]_vars

(* The planning loop keeps running: its timer fires again whatever a cycle ran
   into. The store may fail at any statement, MaxEvents times. *)
FairSpec == Spec /\ WF_vars(Cycle)

-----------------------------------------------------------------------------
(* Properties.                                                              *)

(* Every variable holds a value of its kind, and every plan stored has a place
   in time of its own. *)
TypeOK ==
    /\ seq \in [DOMAIN plans -> Nat] /\ IsInjective(seq)
    /\ \A id \in DOMAIN plans : plans[id] \in [1..StepsOf[id] -> Ratings]
    /\ \A i \in DOMAIN ledger : ledger[i].node \in Nodes /\ ledger[i].outcome \in Outcomes
    /\ node \in [Nodes -> {"serving", "cordoned", "absent"}]
    /\ departed \subseteq Nodes /\ draining \subseteq Nodes
    /\ \A t \in judged : t.row \in DOMAIN ledger
    /\ seen = Unknown \/ seen \subseteq Nodes
    /\ pc \in {"idle", "external", "record", "close", "pending", "resolve", "save", "refresh",
               "broken", "notify", "prune"}

(* The ledger never invents capacity that left by itself: a node has no more
   external records than departures, whatever restarts, rejoins and failures
   come between (publish.go, recordExternalReclaims). *)
ExternalNeverInvented ==
    \A n \in Nodes :
        Cardinality({i \in DOMAIN ledger : ledger[i].node = n /\ ledger[i].external}) <= departures[n]

(* An observation is made once: the outcome of a closed record never changes,
   also when a restarted planner judges from an older list
   (reclamation.go, ResolveReclamation). *)
OutcomesAreFinal ==
    [][\A i \in DOMAIN ledger : ledger[i].outcome # "pending" => ledger'[i] = ledger[i]]_vars

(* A record is closed in the end unless its node stands cordoned: the cycle
   looks at the records every time, also when the plan has not changed, and a
   statement that failed is sent again (publish.go, observeReclamations). *)
EveryRecordResolves ==
    \A i \in 1..MaxEvents :
        i \in Pending ~> (i \notin Pending \/ node[ledger[i].node] = "cordoned")

(* Once Save has returned without an error, the latest row is the plan just
   computed, with the ratings just given, however often plans alternate. *)
Saved == pc \in {"notify", "prune"} \/ (pc = "refresh" /\ refreshed = StepsOf[computed.id])
LatestIsCurrent ==
    Saved => /\ LatestId = computed.id
             /\ Latest = computed.ratings

(* A run is tied to the plan that authorised it (sqlstore.go, Prune): the plan
   of a run is in the table, however many plans were stored and pruned since,
   while it was read, approved or executed. The only runs without their plan are
   those whose row was inserted after Retain more plans had been stored. *)
AuditedPlansKept == \A id \in runPlans : id \in DOMAIN plans \/ id \in late

(* After every stored plan the channel can be acted on (notify.go, PlanStored):
   if the plan has a safe step, the last message names that plan and says so,
   also after a restart; and a last message that announces safe steps the plan
   does not have is never one of this process: it stood before a restart. *)
ToldWhatIsStored ==
    pc = "prune" => /\ Safe(Latest) => told.safe /\ told.plan = LatestId
                    /\ told.mine /\ told.safe => Safe(Latest)
=============================================================================
