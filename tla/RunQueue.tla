------------------------------ MODULE RunQueue ------------------------------
(***************************************************************************)
(* The runs table: the work queue between ui-backend and the executor.     *)
(*                                                                         *)
(*   ui-backend   one goroutine per HTTP request; an execution route reads *)
(*                ActiveRun, and only when there is none calls Enqueue     *)
(*                (internal/api/rest/execute.go)                           *)
(*   the store    Enqueue, Claim, Finish, RequestStop: one SQL statement   *)
(*                each (internal/store/sqlstore/execution.go)              *)
(*   executor     Poll claims the oldest pending run, performs it step by  *)
(*                step and closes it (internal/executor)                   *)
(*                                                                         *)
(* What a step does to the cluster is the business of module Executor;     *)
(* here a step is an interval with one of three outcomes.                  *)
(***************************************************************************)
EXTENDS Integers, FiniteSets

CONSTANTS
    Handlers,      \* in-flight HTTP requests on the execution routes
    Workers,       \* executor processes
    MaxRuns,       \* bound: rows ever inserted
    MaxSteps,      \* bound: steps of a plan run, rounds of a converge run
    MaxTime,       \* bound: the wall clock, in ticks
    TicksPerSecond,\* ticks in one second of the RFC 3339 text
    Faults,        \* what may go wrong: see FaultKinds
    None           \* "no run" / "no worker" / "no handler"

FaultKinds == {
    "crash",   \* the executor process dies, or is stopped mid-run
    "read",    \* a SELECT on runs fails
    "write" }  \* an INSERT or the closing UPDATE fails

ASSUME RunQueueAssumption ==
    /\ MaxRuns \in Nat
    /\ MaxSteps \in Nat \ {0}
    /\ MaxTime \in Nat
    /\ TicksPerSecond \in Nat \ {0}
    /\ Faults \subseteq FaultKinds
    /\ None \notin Handlers /\ None \notin Workers /\ None \notin Nat

RunIds == 1 .. MaxRuns     \* the seq column, which no row ever gives back
Modes  == {"steps", "converge", "drain"}

RunPending   == "Pending"
RunRunning   == "Running"
RunSucceeded == "Succeeded"
RunBlocked   == "Blocked"
RunStopped   == "Stopped"
RunFailed    == "Failed"
Absent       == "Absent"   \* no such row yet

Statuses == {RunPending, RunRunning, RunSucceeded, RunBlocked, RunStopped, RunFailed}

(* Seeded fault: Failed forgotten as well. *)
TerminalWithoutFailed(s) == s \in {RunSucceeded, RunBlocked}

(* RunStatus.Terminal, as written: RunStopped is not in the list. *)
Terminal(s) == s \in {RunSucceeded, RunBlocked, RunFailed}

(* The states a run ends in, by the comments on the RunStatus constants. *)
Ended(s) == s \in {RunSucceeded, RunBlocked, RunStopped, RunFailed}

VARIABLES
    (* the runs table, one function per column *)
    status, mode, requestedAt, stopRequested, worker,
    (* HTTP handlers *)
    hpc, hstamp,
    (* executors *)
    wpc, wrun, wleft, wout,
    (* the wall clock *)
    now,
    (* history: who inserted a row, how often a worker was handed it, was it
       asked to stop before any worker was, the steps begun after the stop
       was recorded, and the runs that a fault kept from their course *)
    by, taken, cancelled, late, faulted

table    == <<status, mode, requestedAt, stopRequested, worker>>
handlers == <<hpc, hstamp>>
workers  == <<wpc, wrun, wleft, wout>>
history  == <<by, taken, cancelled, late, faulted>>
vars     == <<table, handlers, workers, now, history>>

Active  == {r \in RunIds : status[r] \in {RunPending, RunRunning}}
Pending == {r \in RunIds : status[r] = RunPending}

TypeOK ==
    /\ status \in [RunIds -> Statuses \cup {Absent}]
    /\ mode \in [RunIds -> Modes]
    /\ requestedAt \in [RunIds -> Nat]
    /\ stopRequested \in [RunIds -> BOOLEAN]
    /\ worker \in [RunIds -> Workers \cup {None}]
    /\ hpc \in [Handlers -> {"idle", "clear", "stamped"}]
    /\ hstamp \in [Handlers -> Nat]
    /\ wpc \in [Workers -> {"idle", "claimed", "boundary", "cleared", "step", "closing"}]
    /\ wrun \in [Workers -> RunIds \cup {None}]
    /\ wleft \in [Workers -> 0 .. MaxSteps]
    /\ wout \in [Workers -> Statuses]
    /\ now \in Nat
    /\ by \in [RunIds -> Handlers \cup {None}]
    /\ taken \in [RunIds -> Nat]
    /\ cancelled \in [RunIds -> BOOLEAN]
    /\ late \in [RunIds -> Nat]
    /\ faulted \subseteq RunIds

Init ==
    /\ status = [r \in RunIds |-> Absent]
    /\ mode = [r \in RunIds |-> "steps"]
    /\ requestedAt = [r \in RunIds |-> 0]
    /\ stopRequested = [r \in RunIds |-> FALSE]
    /\ worker = [r \in RunIds |-> None]
    /\ hpc = [h \in Handlers |-> "idle"]
    /\ hstamp = [h \in Handlers |-> 0]
    /\ wpc = [w \in Workers |-> "idle"]
    /\ wrun = [w \in Workers |-> None]
    /\ wleft = [w \in Workers |-> 0]
    /\ wout = [w \in Workers |-> RunSucceeded]
    /\ now = 0
    /\ by = [r \in RunIds |-> None]
    /\ taken = [r \in RunIds |-> 0]
    /\ cancelled = [r \in RunIds |-> FALSE]
    /\ late = [r \in RunIds |-> 0]
    /\ faulted = {}

-----------------------------------------------------------------------------
(* ui-backend: handleExecute, handleConverge and handleDrain share the      *)
(* check-then-insert below; what each validates first leaves no state.      *)

(* Seeded fault: ActiveRun looks for running rows only. *)
CheckRunningOnly(h) ==
    /\ hpc[h] = "idle"
    /\ \A r \in RunIds : status[r] # RunRunning
    /\ hpc' = [hpc EXCEPT ![h] = "clear"]
    /\ UNCHANGED <<table, hstamp, workers, now, history>>

(* ActiveRun answers ErrNotFound. A 409, and a failed read, end the request
   with nothing changed. *)
CheckActive(h) ==
    /\ hpc[h] = "idle"
    /\ Active = {}
    /\ hpc' = [hpc EXCEPT ![h] = "clear"]
    /\ UNCHANGED <<table, hstamp, workers, now, history>>

(* Enqueue reads the clock for requested_at before it reaches the database. *)
Stamp(h) ==
    /\ hpc[h] = "clear"
    /\ \E t \in (now + 1) .. MaxTime :
          /\ now' = t
          /\ hstamp' = [hstamp EXCEPT ![h] = t]
    /\ hpc' = [hpc EXCEPT ![h] = "stamped"]
    /\ UNCHANGED <<table, workers, history>>

(* The INSERT, with seq = MAX(seq) + 1 taken inside the statement; the route
   the request came in on decides the mode. *)
Insert(h, m) ==
    /\ hpc[h] = "stamped"
    /\ \E r \in RunIds :
          /\ status[r] = Absent
          /\ \A q \in RunIds : q < r => status[q] # Absent
          /\ status' = [status EXCEPT ![r] = RunPending]
          /\ mode' = [mode EXCEPT ![r] = m]
          /\ requestedAt' = [requestedAt EXCEPT ![r] = hstamp[h]]
          /\ by' = [by EXCEPT ![r] = h]
    /\ hpc' = [hpc EXCEPT ![h] = "idle"]
    /\ hstamp' = [hstamp EXCEPT ![h] = 0]
    /\ UNCHANGED <<stopRequested, worker, workers, now, taken, cancelled, late, faulted>>

(* The INSERT fails and the handler answers with an error. *)
InsertFails(h) ==
    /\ "write" \in Faults
    /\ hpc[h] = "stamped"
    /\ hpc' = [hpc EXCEPT ![h] = "idle"]
    /\ hstamp' = [hstamp EXCEPT ![h] = 0]
    /\ UNCHANGED <<table, workers, now, history>>

(* Seeded fault: the UPDATE without its status condition. *)
RequestStopAnyRow(r) ==
    /\ status[r] # Absent
    /\ ~stopRequested[r]
    /\ stopRequested' = [stopRequested EXCEPT ![r] = TRUE]
    /\ cancelled' = [cancelled EXCEPT ![r] = (status[r] = RunPending)]
    /\ UNCHANGED <<status, mode, requestedAt, worker, handlers, workers, now, by, taken, late, faulted>>

(* handleStopRun and RequestStop: only a pending or running row is touched. *)
RequestStop(r) ==
    /\ status[r] \in {RunPending, RunRunning}
    /\ ~stopRequested[r]
    /\ stopRequested' = [stopRequested EXCEPT ![r] = TRUE]
    /\ cancelled' = [cancelled EXCEPT ![r] = (status[r] = RunPending)]
    /\ UNCHANGED <<status, mode, requestedAt, worker, handlers, workers, now, by, taken, late, faulted>>

-----------------------------------------------------------------------------
(* executor: Poll, and the loops of perform, converge and drainNode.        *)

(* requested_at is compared as RFC 3339 text whose fraction is written with
   its trailing zeros trimmed. Within one second the whole second, "05Z",
   sorts after "05.4Z", because "Z" is above every digit and above ".". *)
TextKey(t) ==
    LET second == t \div TicksPerSecond
        tick   == t % TicksPerSecond
    IN  second * (TicksPerSecond + 1) + (IF tick = 0 THEN TicksPerSecond ELSE tick)

(* ORDER BY requested_at, seq *)
Before(r, q) ==
    \/ TextKey(requestedAt[r]) < TextKey(requestedAt[q])
    \/ TextKey(requestedAt[r]) = TextKey(requestedAt[q]) /\ r < q

(* Seeded fault: a claim that also picks up running rows, to resume them. *)
ClaimResumes(w) ==
    /\ wpc[w] = "idle"
    /\ \E r \in Active :
          /\ \A q \in Active : q # r => Before(r, q)
          /\ status' = [status EXCEPT ![r] = RunRunning]
          /\ worker' = [worker EXCEPT ![r] = w]
          /\ wrun' = [wrun EXCEPT ![w] = r]
          /\ taken' = [taken EXCEPT ![r] = @ + 1]
    /\ wpc' = [wpc EXCEPT ![w] = "claimed"]
    /\ UNCHANGED <<mode, requestedAt, stopRequested, handlers, wleft, wout, now, by, cancelled, late, faulted>>

(* The single UPDATE ... WHERE id = (SELECT ... LIMIT 1) RETURNING id. *)
Claim(w) ==
    /\ wpc[w] = "idle"
    /\ \E r \in RunIds :
          /\ status[r] = RunPending
          /\ \A q \in RunIds : status[q] = RunPending /\ q # r => Before(r, q)
          /\ status' = [status EXCEPT ![r] = RunRunning]
          /\ worker' = [worker EXCEPT ![r] = w]
          /\ wrun' = [wrun EXCEPT ![w] = r]
          /\ taken' = [taken EXCEPT ![r] = @ + 1]
    /\ wpc' = [wpc EXCEPT ![w] = "claimed"]
    /\ UNCHANGED <<mode, requestedAt, stopRequested, handlers, wleft, wout, now, by, cancelled, late, faulted>>

(* The worker lets go of its run and will poll again. *)
Release(w) ==
    /\ wpc' = [wpc EXCEPT ![w] = "idle"]
    /\ wrun' = [wrun EXCEPT ![w] = None]
    /\ wleft' = [wleft EXCEPT ![w] = 0]
    /\ wout' = [wout EXCEPT ![w] = RunSucceeded]

(* The worker leaves its loop with the outcome it will write. *)
Leave(w, outcome) ==
    /\ wpc' = [wpc EXCEPT ![w] = "closing"]
    /\ wleft' = [wleft EXCEPT ![w] = 0]
    /\ wout' = [wout EXCEPT ![w] = outcome]

(* A fault of the given kind meets the run the worker is on. *)
Meets(w, kind) ==
    /\ kind \in Faults
    /\ faulted' = faulted \cup {wrun[w]}

(* Claim's closing RunByID answers, and Poll dispatches on the mode. A plan
   or converge run has its list of steps or its round budget ahead of it; a
   drain run has its one node. *)
Dispatch(w) ==
    /\ wpc[w] = "claimed"
    /\ \E n \in 1 .. MaxSteps :
          /\ mode[wrun[w]] = "drain" => n = 1
          /\ wleft' = [wleft EXCEPT ![w] = n]
    /\ wpc' = [wpc EXCEPT ![w] = IF mode[wrun[w]] = "drain" THEN "cleared" ELSE "boundary"]
    /\ UNCHANGED <<table, handlers, wrun, wout, now, history>>

(* The plan cannot be loaded, the envelope is invalid, the node is unknown or
   the first snapshot fails: e.fail. *)
DispatchFails(w) ==
    /\ wpc[w] = "claimed"
    /\ Leave(w, RunFailed)
    /\ UNCHANGED <<table, handlers, wrun, now, history>>

(* RunByID fails after the UPDATE has committed: Poll returns the error and
   the worker forgets the run. *)
ClaimReadFails(w) ==
    /\ wpc[w] = "claimed"
    /\ Meets(w, "read")
    /\ Release(w)
    /\ UNCHANGED <<table, handlers, now, by, taken, cancelled, late>>

(* Seeded fault: the loop bound off by one, so a boundary follows the last step. *)
CheckStopPastEnd(w) ==
    /\ wpc[w] = "boundary"
    /\ wpc' = [wpc EXCEPT ![w] = "cleared"]
    /\ UNCHANGED <<table, handlers, wrun, wleft, wout, now, history>>

(* Seeded fault: the boundary never re-reads the row. *)
CheckStopNever(w) ==
    /\ wpc[w] = "boundary"
    /\ wleft[w] > 0
    /\ wpc' = [wpc EXCEPT ![w] = "cleared"]
    /\ UNCHANGED <<table, handlers, wrun, wleft, wout, now, history>>

(* stopRequested at a step boundary; a failed read counts as "not asked". *)
CheckStop(w) ==
    /\ wpc[w] = "boundary"
    /\ wleft[w] > 0
    /\ \/ /\ stopRequested[wrun[w]]
          /\ Leave(w, RunStopped)
          /\ UNCHANGED faulted
       \/ /\ \/ ~stopRequested[wrun[w]] /\ UNCHANGED faulted
             \/ stopRequested[wrun[w]] /\ Meets(w, "read")
          /\ wpc' = [wpc EXCEPT ![w] = "cleared"]
          /\ UNCHANGED <<wleft, wout>>
    /\ UNCHANGED <<table, handlers, wrun, now, by, taken, cancelled, late>>

(* performStep begins. *)
BeginStep(w) ==
    /\ wpc[w] = "cleared"
    /\ wpc' = [wpc EXCEPT ![w] = "step"]
    /\ late' = [late EXCEPT ![wrun[w]] = IF stopRequested[wrun[w]] THEN @ + 1 ELSE @]
    /\ UNCHANGED <<table, handlers, wrun, wleft, wout, now, by, taken, cancelled, faulted>>

(* Past the stop check but before the step: a converge round finds nothing
   worth doing or a step above its ceiling (Succeeded), or cannot read the
   cluster; a plan run names a step its plan does not have (Failed). *)
NoStep(w) ==
    /\ wpc[w] = "cleared"
    /\ mode[wrun[w]] # "drain"
    /\ \E s \in {RunSucceeded, RunFailed} :
          /\ s = RunSucceeded => mode[wrun[w]] = "converge"
          /\ Leave(w, s)
    /\ UNCHANGED <<table, handlers, wrun, now, history>>

(* performStep returned no error. *)
StepSucceeds(w) ==
    /\ wpc[w] = "step"
    /\ wleft' = [wleft EXCEPT ![w] = @ - 1]
    /\ wpc' = [wpc EXCEPT ![w] = "boundary"]
    /\ UNCHANGED <<table, handlers, wrun, wout, now, history>>

(* A guard refusal ends the run Blocked, any other error Failed; a converge
   round that freed no node ends it Succeeded. *)
StepEndsRun(w) ==
    /\ wpc[w] = "step"
    /\ \E s \in {RunBlocked, RunFailed, RunSucceeded} :
          /\ s = RunSucceeded => mode[wrun[w]] = "converge"
          /\ Leave(w, s)
    /\ UNCHANGED <<table, handlers, wrun, now, history>>

(* The loop ran out of steps. *)
AllStepsDone(w) ==
    /\ wpc[w] = "boundary"
    /\ wleft[w] = 0
    /\ Leave(w, RunSucceeded)
    /\ UNCHANGED <<table, handlers, wrun, now, history>>

(* Seeded fault: a run that could not be closed goes back in the queue. *)
CloseRequeues(w) ==
    /\ wpc[w] = "closing"
    /\ status' = [status EXCEPT ![wrun[w]] = IF Terminal(wout[w]) THEN wout[w] ELSE RunPending]
    /\ Release(w)
    /\ UNCHANGED <<mode, requestedAt, stopRequested, worker, handlers, now, history>>

(* finish: Finish refuses a status that is not Terminal, and otherwise
   updates the row whatever its status is; either way the error is only
   logged and the worker goes back to polling. *)
Close(w) ==
    /\ wpc[w] = "closing"
    /\ \/ /\ Terminal(wout[w])
          /\ status' = [status EXCEPT ![wrun[w]] = wout[w]]
          /\ UNCHANGED faulted
       \/ /\ ~Terminal(wout[w])
          /\ UNCHANGED <<status, faulted>>
       \/ /\ Terminal(wout[w])
          /\ Meets(w, "write")
          /\ UNCHANGED status
    /\ Release(w)
    /\ UNCHANGED <<mode, requestedAt, stopRequested, worker, handlers, now, by, taken, cancelled, late>>

(* The process ends in the middle of a run and a new one starts polling.
   main does not wait for the polling goroutine when it is told to stop. *)
Crash(w) ==
    /\ wpc[w] # "idle"
    /\ Meets(w, "crash")
    /\ Release(w)
    /\ UNCHANGED <<table, handlers, now, by, taken, cancelled, late>>

-----------------------------------------------------------------------------
Handle(h) ==
    \/ CheckActive(h)
    \/ Stamp(h)
    \/ \E m \in Modes : Insert(h, m)
    \/ InsertFails(h)

(* What a live executor does by itself. *)
Work(w) ==
    \/ Claim(w)
    \/ Dispatch(w)
    \/ DispatchFails(w)
    \/ ClaimReadFails(w)
    \/ CheckStop(w)
    \/ BeginStep(w)
    \/ NoStep(w)
    \/ StepSucceeds(w)
    \/ StepEndsRun(w)
    \/ AllStepsDone(w)
    \/ Close(w)

Next ==
    \/ \E h \in Handlers : Handle(h)
    \/ \E r \in RunIds : RequestStop(r)
    \/ \E w \in Workers : Work(w) \/ Crash(w)

Spec == Init /\ [][Next]_vars

(* Run polls on a ticker for as long as the process lives, and every step is
   cut off by StepTimeout, so an executor never stops taking steps of its
   own. Requests and stops owe nothing. *)
FairSpec == Spec /\ \A w \in Workers : WF_vars(Work(w))

-----------------------------------------------------------------------------
(* Properties of the code.                                                  *)

(* "Two executors must never take the same run" (ExecutionStore.Claim): no
   two workers are ever on one run, and a run is handed to a worker at most
   once, however the workers interleave, crash or fail to read and write. *)
TakenOnce ==
    /\ \A v, w \in Workers : wrun[v] = wrun[w] /\ wrun[v] # None => v = w
    /\ \A r \in RunIds : taken[r] <= 1

(* Two requests can both see an empty queue and both insert, but the overlap
   is bounded by the requests in flight: no request slot ever has two active
   runs, because its next check sees the first one (handleExecute,
   handleConverge and handleDrain read ActiveRun before Enqueue). *)
OneRunPerRequest ==
    \A q, r \in Active : by[q] = by[r] => q = r

(* The ledger is append-only: Finish carries no guard on the row's status and
   RequestStop may arrive late, yet a row that reached a terminal status never
   changes again. *)
TerminalIsFinal ==
    [][\A r \in RunIds : Terminal(status[r]) =>
          /\ status'[r] = status[r]
          /\ worker'[r] = worker[r]
          /\ stopRequested'[r] = stopRequested[r]]_vars

(* A stop is honoured at the next boundary of a plan or converge run: a run
   stopped while still pending begins no step, and one stopped while running
   begins at most the step whose boundary check came before the stop. A run
   that a fault has met is excepted, because stopRequested takes a failing read
   for "no", and so is a drain run, which never looks at the request. *)
StopHonoured ==
    \A r \in RunIds :
        mode[r] # "drain" /\ r \notin faulted
            => late[r] <= (IF cancelled[r] THEN 0 ELSE 1)

(* Every queued run is claimed and brought to an end, also behind a run that a
   crash or a failing statement has left open for good; a run that meets a
   fault itself, or that somebody asked to stop, is excepted. *)
UnstoppedRunsEnd ==
    \A r \in RunIds :
        status[r] = RunPending ~>
            Ended(status[r]) \/ stopRequested[r] \/ r \in faulted

-----------------------------------------------------------------------------
(* The abstract queue this one implements.                                  *)

Holders(r) == {w \in Workers : wrun[w] = r}

Phase(r) ==
    CASE status[r] = Absent -> "absent"
      [] status[r] = RunPending -> "queued"
      [] status[r] = RunRunning /\ Holders(r) # {} -> "held"
      [] status[r] = RunRunning /\ Holders(r) = {} -> "abandoned"
      [] OTHER -> "ended"

Ledger == INSTANCE RunLedger WITH
    phase   <- [r \in RunIds |-> Phase(r)],
    holders <- [r \in RunIds |-> Holders(r)]

(* Handlers, SQL statements and workers together are an at-most-once queue:
   every step of the table and of the executors is a step of RunLedger, with
   crashes and failing reads and writes. *)
ImplementsLedger == Ledger!Spec

-----------------------------------------------------------------------------
(* What the repository says and the code does not do.                       *)

(* docs/cli.md: "The run ends with status `Stopped`". Finish refuses that
   status, so the row stays Running. *)
StoppedRunsEnd ==
    \A r \in RunIds : stopRequested[r] ~> Ended(status[r])
=============================================================================
