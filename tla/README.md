# k8s-dencer in TLA+

A model of k8s-dencer: the planner that computes a consolidation plan from a
snapshot, the process that stores and announces it, the queue of runs between
`ui-backend` and the executor, what the executor does to a cluster, and the
access, event and window code around them. TLC checks it on small instances,
TLAPS proves every safety property of the passing runs for every size, under the
conditions listed with the proofs. `PROJECT.json` maps
definitions to source lines and lists runs, findings, hazards and theorems.

## The system

| Component | State | Operations | Who else touches it |
|---|---|---|---|
| collector, reader, `internal/cluster`, `internal/model` | an informer cache of stripped objects | Snapshot, PodPresent | the planner reads the cache, the executor the API server |
| constraints, `internal/constraints` | `Placement`: free resources, where pods are, memoised spread counts | Analyze, CanPlace, Place, Remove, Clone | planner, guard, reports |
| planner, `internal/planner`, `internal/impact` | the working placement of one call | Plan, tryDrain, firstFit, ClassifyPlan | |
| recommendations, `internal/recommend` | none | Queue = blockers of the plan, then advice | |
| planner process, `internal/publish`, `cmd/planner` | seenNodes, the notifier's memory | Cycle: snapshot, external reclaims, resolve, plan, save, notify, prune | shares the store with executor and ui-backend |
| plan store, `sqlstore.go` | plans, plan_steps | Save, Latest, ByID, List, Prune | planner writes, others read |
| reclamation ledger, `internal/reclaim`, `sqlstore/reclamation.go` | one row per drained or departed node | RecordDrain, ResolveReclamation | executor opens, planner closes |
| execution store, `internal/store/execution.go`, `sqlstore/execution.go` | the `runs` table | Enqueue, Claim, Finish, RequestStop, ActiveRun, RunByID, one SQL statement each | handlers insert and stop; executors claim and close |
| execution routes, `internal/api/rest/execute.go` | none between requests | validate, ActiveRun, Enqueue; RequestStop | every request is a goroutine |
| executor, `internal/executor` | the run in hand; `RunState` | Poll; perform, converge, drainNode; performStep = gate, cordon, list, (recheck, evict, wait)*, verify, record, or abort | the cluster changes between any two calls |
| Safety Guard, `internal/safety` | limits | CheckStep, CheckEviction on a snapshot | reads maintenance windows |
| windows, `internal/window` | MaintenanceWindow objects, a clock | Evaluate, AllowsRedOn, UpdateStatus | guard reads, people edit |
| auth, `internal/auth` | token cache | Authenticate, Require | every request |
| event broker, `internal/api/rest/events.go` | subscriber channels, last event | Publish, ServeHTTP, PollStore | handlers and a poller publish |
| read-only API, `internal/api` | none | preflight, resilience, what-if, listings | |
| CLI, UI, pricing, telemetry | none that matters | render, count | |

The hard behaviours: check-then-insert by concurrent handlers; several executors
on one table; a process that dies between two calls; calls that fail, time out,
or take effect although their answer is lost; decisions taken on a snapshot and
carried out later on a cluster that schedulers, controllers, autoscalers and
operators are changing; waits that must come true; a closed loop that must stop;
a plan computed on book-keeping that has to agree with the cluster; two processes
writing one ledger; a cache that outlives what it caches; channels closed while
others send.

What makes each part correct: a run is performed at most once and its record is
final (queue); every cordon is accounted for, no budget is broken, no second
node is touched before the first has settled (executor); what the guard allows
fits (guard); a plan can be carried out in its order, frees what it says and does
not depend on the order of lists (planner); the incremental counts agree with a
recount (constraints); explanations, reports and recommendations agree with the
plan; the latest row is what was computed, and what was approved is kept (plan
store); every record is closed once (reclamation); a revoked token and a
withdrawn grant take effect (auth); a connected client is not left behind
(broker); a Red step needs an open window (windows).

## Modules

**Runs and the cluster.** `RunQueue` is the table, the handlers and the
executors' loops. One function per column; a handler is `idle`, `clear`
(ActiveRun said there is none) or `stamped` (Enqueue has read the clock); a
worker is `idle`, `claimed`, at a `boundary`, `cleared` (past the stop check), in
a `step`, or `closing`. `Claim` is one action because it is one UPDATE (with SKIP
LOCKED on Postgres). `Terminal` is written as in the code, without Stopped.
`TextKey` is the order of RFC 3339 text with its trailing zeros trimmed, as
SQLite and a C collation compare it. `RunLedger` is the abstract queue: a row is
absent, queued, held, abandoned or ended, and is taken at most once;
`ImplementsLedger` is the refinement.

`KubeCluster` is the cluster as the snapshot shows it, and everything in it that
is not this program, marked external: controllers, scheduler, kubelets, the
disruption controller, the eviction API, an autoscaler, operators. `EnvFaults`
says which disturbances happen. All nodes are Ready, all pods have one size and
an owner. A replacement of a Deployment's pod never has a name the executor
remembers; a StatefulSet's always has the old one. `SafetyGuard` is CheckStep and
CheckEviction over that cluster; with one pod size the guard's search for homes
succeeds exactly when the free slots suffice. `Executor` composes them: one
action per API call of performStep and per exit, and the three loops that choose
the node. The planner is any node with something to move that the run has not
drained, a step's rating any of `Ratings`.

**Planning.** `Scheduling` holds what `internal/model` says of a snapshot:
resources with the clamp of `Sub`, selectors, taints, budgets, mobility.
`Placement` adds the hard predicates and the placement with its spread index,
whose counts are memoised by the first question and kept up by Place and Remove.
`Analyzer` gives the constraints of every pod and the reports built on them
(NodeDrainable, preflight, resilience, what-if). `Impact` rates a step,
`Recommend` reads the ratings back into a work queue and adds the advice.
`Collector` turns API objects into a snapshot, once through the cache, with its
transform and its limit to watched namespaces, and once without. All of these are operators; `Greedy` is the machine: one action
per turn of Plan's loop over nodes, of tryDrain's loop over pods and of the loop
that makes its moves, from a list to a rated plan, and then once more from the
same cluster listed in the opposite order. A sort is any sequence `StableSorts` allows: ordered by what is compared, ties
as they were. Pods and nodes are numbers because names are ordered and ties are
broken by name.

**Publishing.** `PlanStore` is Save (touch and refresh, or the upsert
transaction), Latest and Prune; the pair (stored_at, seq) is only an order, kept
as one number per stored id (`seq`). `Reclamation` is the ledger and the judgement of open records.
`Publisher` composes them: each statement of the cycle is an action, with the
executor's drains, departing and returning nodes, approvals, failing statements
and restarts in between. The plan is a free choice there (`ideal`): what the
planner computes is `Greedy`'s business.

**Console.** `Auth` is the token cache, the proxy and anonymous paths and the
permission check, with the two reviews answered by the API server: a request is
`allowed` once the access review has said so, and its handler starts in a later
step. `Broker` is
Publish and ServeHTTP, lock by lock and send by send. `Window` is Evaluate, the
guard's question and the status sweep, with cron as a set of ticks. `Console`
composes the three on one clock: requests through the middleware into the
handlers, the poller of the plan store, administrators.

`MCRunQueue`, `MCExecutor`, `MCPlanner`, `MCPublisher` and `MCConsole` give TLC
its sets. `RunQueueProofs`, `ExecutorProofs`, `GreedyProofs`, `PublisherProofs`,
`ConsoleProofs` (the middleware), `WindowProofs` and `BrokerProofs` (both on top
of it) hold the theorems, `NumberLemmas` facts about numbers and finite sums
that several of them cite. Operators marked "seeded fault" are mutants: the same definition with
a plausible bug in it; nothing uses them. History variables: `by`, `taken`,
`cancelled`, `late`, `faulted` (queue), `owed`, `cordons`, `recorded` (executor),
`departures`, `since`, `late`, `told` (publisher; `told` is the last message in
the channel and whether this process sent it, so a restart keeps the message),
`dropped`, `panicked`, `revokedAt` and the field `held` of a request, whether the
caller held the permission when it arrived (console).

## Runs

| Run | Shows |
|---|---|
| `run_queue` | at most once, bounded overlap, final rows, refinement of RunLedger; a stop lets at most the begun step go on; unstopped runs end, also behind one that a crash left open; all faults |
| `executor_rails` | whole between steps, caps and floor, progress per round, and no wait needs its timeout; all kinds of run beside an autoscaler and turning windows, without failing calls |
| `executor_budget` | budgets hold and a node is emptied when recorded, beside another drain and other cordons, with failing calls, lost replies, timeouts and crashes |
| `executor_interference` | cordons accounted for, no second visit, evictions only from the target, with failing calls and timeouts, while others delete, uncordon and remove |
| `planner_plan` | every plan can be carried out move by move on a cluster recounted from scratch; drained nodes stay empty; the fleet numbers of plans that fill no empty node; the same plan from lists in another order; plan, analysis, recommendations and, for what is watched, the executor's reader agree; preflight differs from the analysis by pinned pods only |
| `publisher_cycle` | no departure is invented, outcomes are final and all reached, the latest row is the plan computed, a run's plan is kept unless the race below was lost, a safe plan is announced, also after a restart |
| `console_access` | revoked tokens stop working within a cache lifetime, a request that arrives after its grant was withdrawn is never handled, clients that join or leave during a publish miss nothing and get nothing twice, Red exactly in an open window, status from the spec that stands |

Where the repository's own words and its code differ, a run is expected to find
the violation; each is a finding in `PROJECT.json`:

| Run | The code |
|---|---|
| `run_queue_stop` | a stopped run is never closed: Finish refuses `Stopped` |
| `executor_stateful` | a StatefulSet pod is evicted from the node it has moved to |
| `planner_fleet` | `NodesAfter` leaves out an empty node that takes pods, and subtracts the step that drains it in its turn, which ties under a ceiling make possible (`ThroughTheEmptyNode` in `MCPlanner`: two nodes before, none after, one carries everything) |
| `planner_preflight` | preflight calls a node blocked for a pod pinned to it, and the plan drains that node |
| `console_broker` | Publish sends to a channel that a leaving client has closed, and panics |

### Differences met while modelling, without a run

Executions. Two requests that both see an empty queue both insert
(`rest/execute.go:66`); `OneRunPerRequest` bounds it. A run whose executor died
stays Running (`sqlstore.go:435` expects otherwise). Text timestamps put a later
request first (`sqlstore/execution.go:58`). A terminating pod counts as gone, so
a drain is recorded while pods shut down (`cluster/direct.go:111`;
`docs/execution.md:40`). A drain run never reads the stop request. A node with a
do-not-disrupt pod is drained around it. A cordon whose answer is lost is neither
undone nor reported. Abort uncordons a node that somebody else had cordoned.
A Red step outlives the window it started in.

Planning. A node over its ceiling "accepts nothing new — free goes negative and
every CanPlace fails" (`placement.go:44`); `Sub` clamps at zero, so a pod that
requests nothing still fits there, and Remove gives the node back more than it
had. `PlanIsFeasible` therefore excepts such pods. With `WATCH_NAMESPACES` set the
planner sees no pod of the other namespaces while the executor sees all
(`collector.go:65`, `direct.go:63`): the plan packs nodes that are fuller than it
knows, and the guard refuses what does not fit. A pod can be moved by two steps
(`model/plan.go:35`). Anti-affinity is asked of the incoming pod only, and the
fields of a node-affinity term are not read. What-if asks for each displaced pod
separately, so two may be given the same room (`whatif.go:17`). A budget with an
empty selector covers in `recommend.go:322` and nowhere else. The comment on `MissingPDB` says that steps
look riskier without a budget (`recommend.go:341`); the classifier has no such
reason, and the proposed budget, with one disruption allowed, turns a Green step
Yellow (`impact.go:202`).

Publishing. A guarded drain of a node already cordoned opens a second record and
both resolve as gone. A node removed before its drain is recorded is entered as
ours and as external, and so is one departing while the open records cannot be
read; an external record whose insert fails is not tried again. A snapshot older
than the drain resolves the record against the wrong state. The upsert of a plan
that comes back keeps its old fleet numbers. "A planner restart re-announces an
actionable plan once" and "a missed [message] is the thing this exists to
prevent" (`notify.go:181`), but Save deduplicates and PlanStored is only called
for a new plan: a restarted planner is silent until the plan changes, a plan
stored just before a crash is never announced, and when the plan after a restart
has no safe step, the promise of the one before stays the last message in the
channel. "A plan that some run executed is never pruned" (`sqlstore.go:889`), but
a plan pruned between its approval and the insert of the run leaves a run without
a plan; that takes as many new plans in between as are retained, 200 by default.

Console. A stream is authorised when it connects and never again, although "a
revoked RoleBinding must stop working immediately" (`docs/security.md:89`). The last
event may be one about a run, so a new client is not greeted with the plan. PollStore
sees a change of id only, not of ratings. `MaxNodes` of a window is enforced
nowhere.

### Bounds

Queue: two handlers, two workers, two rows, two steps and a clock of two ticks,
two to the second. Two of each actor make every race between two
actors, two rows an overlapping pair with one run behind another, and two ticks
a whole second and a fraction of it.

Executor: `executor_rails` has four nodes, three of them used by one workload of
three with a budget, and two slots to a node: two drains in a row are possible,
and a drain can free a node, fill the idle one (and free none), or be refused
because what is left does not fit. `MayBeCordoned` lets it start with any set of
nodes already cordoned, which is how the floor is reached while a drain is still
feasible. The others have a workload of two with a budget of one on three nodes
with three slots (two nodes in `executor_interference`, which is what a second
visit needs), because others act at any time there. A spare name per workload is
reused once nobody remembers it. `WholeBetweenSteps`, `RailsHold` and
`EveryRoundFrees` under failing calls, timeouts and crashes rest on their
theorems, which take any faults of the program.

Planner: three nodes in two zones and four pods. Every trait a predicate reads
(22 kinds of pod, 8 of the middle node) occurs twice on every kind of node, every
two traits occur together, and every trait occurs under budgets with headroom 0,
1 and 2; each with no ceiling, a ceiling and a cap on steps. Three nodes are what
a second step on a cluster changed by the first needs, two zones what spread and
zone affinity need. One node is small, so that it starts over its ceiling and the
clamp of `Sub` is reached. One more cluster, `ThroughTheEmptyNode`, moves a pod
through a node that was empty, and some clusters are watched in part only.

Publisher: two nodes, two plans of two steps and one, all ratings, one plan
retained, three events. An event is anything around the planner: a drain, a
departure, a return, another plan, an approval, a failing statement, a restart.
Three make every pair with a consequence: depart, rejoin, depart; A, B, A; drain,
depart, restart. Cycles are not counted.

Console: two requests, two streams with channels of one event, two tokens and a
cache of one entry with a lifetime of one tick, one window edited into ten
shapes, three ticks, three events. Requests and streams are symmetric.

Deadlock is checked in `publisher_cycle`. Elsewhere the system may stop: a queue
with its bounded requests served is idle, a run or a planning has ended, the
console's events are used up or its process has died of a panic.

### Fairness

`RunQueue!FairSpec`: weak fairness of each worker's own steps. `Run` polls on a
ticker for as long as the process lives and every step is cut off by
StepTimeout. Requests, stops and crashes owe nothing. `Executor!FairSpec`: weak
fairness of the executor (its waits are polling loops) and, pod by pod, of the
controllers that create, bind, start and remove pods; nothing is assumed of the
disruption controller, of operators or of the autoscaler. `RunEnds` is checked in
`executor_rails`, without timeouts: with them a wait would end anyway. `Publisher!FairSpec`: weak
fairness of the cycle as a whole; its timer fires again whatever the last cycle
ran into, and a statement returns. Failing statements and restarts are finitely
many and owe nothing, nor do nodes.

## Proofs

Each module of proofs states its inductive invariant as named parts, proves
each part one action at a time, and derives the properties from them. None of the
properties is inductive alone; the parts were first checked by TLC, `OnThePath`
of the planner aside, which speaks of all paths of a planning. Nothing is
assumed of a size: every bound of the runs is a constant in the theorems.

### Queue (`RunQueueProofs`)

For any handlers, workers, rows, steps, clock and faults (`RunQueueAssumption`:
the bounds are naturals, `None` is not an actor or a number).

* `TypeCorrect`, `ClaimIsExclusive`, `OverlapIsBounded`, `LedgerIsFinal`: the
  queue's invariants and the action property of its closed rows.
* `QueueImplementsLedger`: the queue implements RunLedger. From `LedgerStep`: an
  insert queues, a claim takes, a close, a crash or a lost read lets go, and all
  else stutters.
* `StopIsHonoured`, of the runs no fault has met: `stopRequested` takes an error
  for "no", by intent, so a run whose read failed may go on.

`IInv` adds to the types: a worker away from `idle` holds a Running row that no
other worker holds and that was taken once (`OwnedRuns`), which makes the
unguarded UPDATE of Finish harmless; the loop counter is positive wherever a step
may begin (`StepsAhead`); rows not yet inserted, and rows still pending, have a
clean history (`FreshRows`); a handler past its check has no active row of its
own (`OverlapBound`), because a handler inserts at most once per check.
`StopShape` adds that a row whose stop has been asked for has seen no step begin
since, except the one a worker had already been cleared for.

### Executor (`ExecutorProofs`)

For any cluster (`ClusterAssumption`: finitely many nodes and pods), limits
(`GuardAssumption`), kinds of run and rounds (`ExecutorAssumption`).

| Theorem | Holds when | Strengthening |
|---|---|---|
| `ExecutorTypes` | always | `Control`: what each point of performStep has in hand |
| `EveryCordonAccounted` | no reply is lost | `OwedIsTarget`: only the step in hand owes an uncordon |
| `NoNodeTwice` | always | `Visits`: what was cordoned is off the plan and in the skip list |
| `CapsAlwaysHold` | always | `Counted`: every cordoned node has been counted, the one in hand aside |
| `RailsAlwaysHold` | nobody else cordons | `FloorAhead`: the floor was measured without the target |
| `BudgetsAlwaysKept` | pods leave through the eviction API, and the cluster starts within its budgets | `HeadroomCovered`: published headroom is covered by ready pods the budget does not need |
| `DrainedNodesAreEmpty` | nobody else uncordons | `Emptying`: what is left on the target is on the drain's list |
| `WorkloadsWholeBetweenSteps` | workloads start whole, nobody else takes pods down, ready pods are what is counted (`Undisturbed`) | `ShortIsAffected`: a workload is short only inside a drain that remembers its full count |
| `RoundsAlwaysFree` | `Undisturbed` | `NoSurplus`, `FreedSince`: the rail compared the same occupied nodes |
| `OnlyTargetPodsEvicted` | no StatefulSets | `StillTheListed`: a live name in hand is the pod that was listed |

The conditions are about the surroundings, not the program, and each is needed.
A cordon whose answer is lost is a difference listed above. The floor counts
nodes anyone may cordon at any instant; no guard that reads before it patches can
hold it against that. Deletion, unlike eviction, asks no budget. A node somebody
uncordons fills up again. A StatefulSet's name moves to another node, which is
the finding of `executor_stateful`.

### Planner (`GreedyProofs`)

For any cluster of finitely many nodes and pods with natural sizes and skews
(`ClustersAssumption`), any options and any order of lists. `NamesAssumption`:
names are numbers, which stand for strings because any two are ordered.
`ObjectsAssumption`: pod objects have the fields that are converted, and no
ReplicaSet is controlled by a DaemonSet, a StatefulSet or a node. Sums over a
node's pods and the flattened list of a plan's moves are defined by recursive
functions; what the proofs need of them (a sum is natural, a pod more or less changes it by its
request; appending a step appends its moves) is derived from one unfolding and a
least counterexample, in `NumberLemmas` and in the `Flat` lemmas.

* `IndexAlwaysExact`: the memoised spread counts are those of a recount. Carried
  by `TrialExact` through each predicate asked, each Remove and each Place: a pod
  leaves exactly one domain's count and joins exactly one. `Shape` is what they
  need: every pod is on a node of the snapshot or on none, and a pod still to
  place is on one.
* `DrainedAlwaysEmpty`: nothing movable is ever left on, or put on, a node given
  up. From `Emptying`: while a drain is tried, and while its moves are made one
  by one, each movable pod of the node in hand is still to place or its move
  still to make, and no move leads to a node given up.
* `GreedyTypes`. `VisitedOnce` bounds the count of nodes already reclaimable.
* `PlanAlwaysAgrees`: what is moved is movable in the analysis, no step is rated
  for an exhausted budget, and the first move goes to a listed candidate.
  `Permitted` carries the first; `NoZeroHeadroom` derives the second, because a
  budget the classifier calls exhausted is a blocking constraint of the analyzer.
  `FirstMove` carries the third: until the first move is made the packer works on
  the placement the snapshot gives, and what fits under a ceiling fits under the
  full allocatable (`CandidateUnderCeiling`).
* `ReadersAlwaysAgree`: the planner sees exactly the pods of the namespaces it
  watches, and each converts from the stripped cache as it does from the API
  server, owners aside; an owner only one of them resolves changes neither
  mobility nor risk (`ConversionsAgree`), and a budget covers pods of its own
  namespace only, so none over a watched pod is hidden.
* `ReportsAlwaysAgree`: preflight calls drainable exactly the nodes that
  NodeDrainable does and that hold no pinned pod. A pod that cannot move is
  blocked in the analysis (`ImmovableIsBlocked`); a candidate keeps its room when
  other pods leave (`StaysFree`, `StillFits`), so what-if, which removes first
  and asks then, finds it again.
* `PlansAlwaysFeasible`: every move fits the cluster the moves before it leave,
  recounted from the snapshot. Three parts go together. `Tracked`: the working
  placement is the snapshot after the moves decided so far, those of a trial in
  progress included. `Balanced`: on a node not given up, free is the ceiling less
  what is there, or nothing when that is over; it is false of nodes given up,
  where Remove after the clamp regains too much, and no move leads there.
  `DecidedFeasible`: each move was feasible when it was decided. Making a trial's
  moves a second time, as Plan does on its own placement, changes none of them.
* `FleetAlwaysExactInside`: `NodesAfter` never exceeds the nodes that carry
  something afterwards, and equals them unless an empty node takes pods. From
  `Accounted`: only nodes given up have lost pods, and the given-up nodes occupied
  at first are those counted already reclaimable and the targets of steps.
* `QueueAlwaysActionable`: a blocker is the reason some step is rated for, each
  step is counted once in the pool that holds it (`TargetsOnce` and
  `SumOfCounts`), a proposed budget covers the pods of its workload
  (`ProposalCovers`) and, allowing one disruption, blocks no drain
  (`OpenBudgetHarmless`).
* `PlanAlwaysStable`: emptier nodes first and larger pods first are strict total
  orders once names break ties (`EmptierTotal`, `LargerTotal`), so a stable sort
  has one result (`SortIsUnique`), and firstFit has one answer (`FirstFitOnce`).
  Every step but the second listing is then a function of the packer's state
  (`StepIsTurn`). `OnThePath`: the state, and the state that ended the first
  planning, lie on paths of that function from the same start; two such paths
  agree (`PathsAgree`), and a finished planning stays so (`DoneStays`).

### Publisher (`PublisherProofs`)

For any nodes, plans, retention and number of events, with every fault
(`RetainAssumption`, `StepsAssumption`, `UnknownAssumption`), unconditionally:

* `OutcomesAlwaysFinal` and `ExternalAlwaysReal`: a closed record never changes,
  and a node has no more external records than departures. `DeparturesAhead`
  carries the second: a node last seen present and absent now has left since,
  and that departure has no record yet.
* `LatestAlwaysCurrent`: after a save the latest row is the plan computed.
  `StoreShape` keeps the places of plans distinct, so that there is one latest;
  `Saving` says how much of the plan a refresh interrupted halfway has written.
* `AuditedPlansAlwaysKept`, from `Audited`: a plan read for approval has at most
  as many newer ones as were stored since, so Prune spares it until Retain have
  been, and a plan that a run names is spared from then on.
* `AlwaysTold`, from `Announced`, which ties the notifier's memory and the last
  message to the latest row, the moment between save and announcement aside; of
  a message from before a restart it says nothing.
* `PublisherTypes`.

### Console (`ConsoleProofs`, `WindowProofs`, `BrokerProofs`)

For any requests, streams, publishers, tokens, cache and channel sizes, clock and
windows (`CacheAssumption`, `UsersAssumption`, `ClockAssumption`,
`ChannelSizeAssumption`, and `WindowAssumption`: no window is so long that it
reaches back to the zero time, which stands for "never").

* `RevocationAlwaysBites`, from `Bounded`: an answer under way was given before
  the revocation and not long ago, so neither a cache entry nor an identity in a
  request outlives `LastUse`. `WithdrawnAlwaysStops`, from
  `Entitled`: grants only shrink, so who lacked the permission on arrival lacks it
  at every later review, and a request gets past the review through it alone.
* `RedAlwaysInWindow`, from `EvaluateIsOpenAt`: winding back one duration and
  taking the next firing finds a window open exactly if a firing lies within one
  duration before now, for every schedule. `StatusAlwaysFromCurrentSpec`: the
  sweep's conditional write never lands on a spec it has not evaluated.
* `NewestAlwaysReaches`, from `Delivered` (the newest event is shown, queued, on
  its way or dropped at a full channel, at every client) and `OncePending`,
  `OnceReached` (what is on its way to a client has not reached it, and no two
  publishers carry the same event). The property, as in the run, is about
  brokers no publisher has died in; that one can is the finding of
  `console_broker`. `ConsoleTypes`.

### Only model-checked

The liveness properties: fairness and ENABLED are out of the prover's reach.

## Not modelled

Migrations, node samples, metrics, the stored snapshot and analysis blobs and the
fleet columns of a plan; event rows (appended, never read back by the executor);
recovery times; the delivery of a notification; summaries and listings that only
read; the graph and the agent tools, which render stored records; pricing,
telemetry, command line, web UI and chart. In the planner: memory, which is
treated as CPU is, measured usage, and the wording of explanations. In the
executor: bare pods, DaemonSets, mirror pods, nodes that are not Ready, paging
of snapshots, each of which is read at once, re-registration of a removed node,
the cap of 50 rounds and the refusal of an invalid envelope (`converge.go:56`),
which only end a run earlier. In the routes: request validation beyond its
result. Labels with empty values: `labels[k] != v` in Go takes a missing key for
an empty value, the model's selectors need the key. Subjects of recommendations
carry their kind in the model, while `recommend.go:87` keeps bare names.

## Plan

1. `Executor` composed with `Window` (a Red step under a clock) and with
   `Reclamation` (what a drain records).
2. The migration lock.
