--------------------------- MODULE RunQueueProofs ---------------------------
(***************************************************************************)
(* The run queue for any number of requests, executors, runs and steps,    *)
(* and with every fault: types, exclusivity, the bound on overlap, the     *)
(* finality of terminal rows, and the refinement of RunLedger.             *)
(***************************************************************************)
EXTENDS RunQueue, TLAPS

(* The worker whose run it is: a held run is Running, stamped with the name
   of the one worker holding it, and an idle worker holds nothing. *)
OwnedRuns ==
    \A w \in Workers :
        /\ (wpc[w] = "idle") <=> (wrun[w] = None)
        /\ wrun[w] # None => status[wrun[w]] = RunRunning /\ worker[wrun[w]] = w

(* A worker past a boundary has a step ahead of it. *)
StepsAhead ==
    \A w \in Workers : wpc[w] \in {"cleared", "step"} => wleft[w] > 0

(* A row nobody has claimed yet was never handed out. *)
FreshRows ==
    \A r \in RunIds :
        /\ status[r] \in {Absent, RunPending} => taken[r] = 0
        /\ taken[r] <= 1

(* A request past its ActiveRun check has no active run of its own. *)
OverlapBound ==
    /\ \A h \in Handlers : hpc[h] # "idle" => \A r \in Active : by[r] # h
    /\ \A q, r \in Active : by[q] = by[r] => q = r

IInv == TypeOK /\ OwnedRuns /\ StepsAhead /\ FreshRows /\ OverlapBound

-----------------------------------------------------------------------------
(* The runs that met a fault are rows of the table. *)
LEMMA FaultedRows ==
    ASSUME TypeOK, NEW w \in Workers, wrun[w] \in RunIds, NEW kind, Meets(w, kind)
    PROVE  faulted' \subseteq RunIds
<1>1. faulted \subseteq RunIds
    BY DEF TypeOK
<1>2. faulted' = faulted \cup {wrun[w]}
    BY DEF Meets
<1>3. QED BY <1>1, <1>2

(* Types are kept: a worker counts down only a step it still has, and writes
   only rows that exist. *)
LEMMA TypeStep == TypeOK /\ OwnedRuns /\ StepsAhead /\ [Next]_vars => TypeOK'
<1> SUFFICES ASSUME TypeOK, OwnedRuns, StepsAhead, [Next]_vars
             PROVE  TypeOK'
    OBVIOUS
<1> USE RunQueueAssumption DEF TypeOK, RunIds, Statuses, Modes, RunPending, RunRunning,
        RunSucceeded, RunBlocked, RunStopped, RunFailed, Absent,
        table, handlers, workers, history
<1>1. ASSUME NEW h \in Handlers, CheckActive(h) PROVE TypeOK'
    BY <1>1 DEF CheckActive
<1>2. ASSUME NEW h \in Handlers, Stamp(h) PROVE TypeOK'
    BY <1>2 DEF Stamp
<1>3. ASSUME NEW h \in Handlers, NEW m \in Modes, Insert(h, m) PROVE TypeOK'
    BY <1>3 DEF Insert
<1>4. ASSUME NEW h \in Handlers, InsertFails(h) PROVE TypeOK'
    BY <1>4 DEF InsertFails
<1>5. ASSUME NEW r \in RunIds, RequestStop(r) PROVE TypeOK'
    BY <1>5 DEF RequestStop
<1>6. ASSUME NEW w \in Workers, Claim(w) PROVE TypeOK'
    <2>1. PICK r \in RunIds :
              /\ status' = [status EXCEPT ![r] = RunRunning]
              /\ worker' = [worker EXCEPT ![r] = w]
              /\ wrun' = [wrun EXCEPT ![w] = r]
              /\ taken' = [taken EXCEPT ![r] = @ + 1]
        BY <1>6 DEF Claim
    <2>2. taken' \in [RunIds -> Nat]
        BY <2>1, SMTT(30)
    <2>3. QED
        BY <1>6, <2>1, <2>2, SMTT(30) DEF Claim
<1>7. ASSUME NEW w \in Workers, Dispatch(w) PROVE TypeOK'
    BY <1>7, SMTT(30) DEF Dispatch
<1>8. ASSUME NEW w \in Workers, DispatchFails(w) PROVE TypeOK'
    BY <1>8 DEF DispatchFails, Leave
<1>9. ASSUME NEW w \in Workers, ClaimReadFails(w) PROVE TypeOK'
    <2>1. wrun[w] \in RunIds
        BY <1>9 DEF ClaimReadFails, OwnedRuns
    <2>2. faulted' \subseteq RunIds
        BY <1>9, <2>1, FaultedRows DEF ClaimReadFails
    <2>3. QED
        BY <1>9, <2>2 DEF ClaimReadFails, Release
<1>10. ASSUME NEW w \in Workers, CheckStop(w) PROVE TypeOK'
    <2>1. \/ wpc' = [wpc EXCEPT ![w] = "cleared"]
          \/ wpc' = [wpc EXCEPT ![w] = "closing"]
        BY <1>10 DEF CheckStop, Leave
    <2>2. wout' \in [Workers -> Statuses] /\ wleft' \in [Workers -> 0 .. MaxSteps]
        <3>1. CASE Leave(w, RunStopped)
            BY <3>1 DEF Leave
        <3>2. CASE UNCHANGED <<wleft, wout>>
            BY <3>2
        <3>3. QED BY <1>10, <3>1, <3>2 DEF CheckStop
    <2>3. UNCHANGED <<table, handlers, wrun, now, by, taken, cancelled, late>>
        BY <1>10 DEF CheckStop
    <2>4. wrun[w] \in RunIds
        BY <1>10 DEF CheckStop, OwnedRuns
    <2>5. faulted' \subseteq RunIds
        BY <1>10, <2>4, FaultedRows DEF CheckStop
    <2>6. QED
        BY <2>1, <2>2, <2>3, <2>5
<1>11. ASSUME NEW w \in Workers, BeginStep(w) PROVE TypeOK'
    <2>1. wrun[w] \in RunIds
        BY <1>11 DEF BeginStep, OwnedRuns
    <2>2. late' \in [RunIds -> Nat]
        BY <1>11, <2>1 DEF BeginStep
    <2>3. QED
        BY <1>11, <2>2 DEF BeginStep
<1>12. ASSUME NEW w \in Workers, NoStep(w) PROVE TypeOK'
    <2>1. PICK s \in Statuses : Leave(w, s)
        BY <1>12 DEF NoStep
    <2>2. UNCHANGED <<table, handlers, wrun, now, history>>
        BY <1>12 DEF NoStep
    <2>3. QED
        BY <2>1, <2>2 DEF Leave
<1>13. ASSUME NEW w \in Workers, StepSucceeds(w) PROVE TypeOK'
    <2>1. wleft[w] - 1 \in 0 .. MaxSteps
        BY <1>13 DEF StepSucceeds, StepsAhead
    <2>2. QED
        BY <1>13, <2>1 DEF StepSucceeds
<1>14. ASSUME NEW w \in Workers, StepEndsRun(w) PROVE TypeOK'
    <2>1. PICK s \in Statuses : Leave(w, s)
        BY <1>14 DEF StepEndsRun
    <2>2. UNCHANGED <<table, handlers, wrun, now, history>>
        BY <1>14 DEF StepEndsRun
    <2>3. QED
        BY <2>1, <2>2 DEF Leave
<1>15. ASSUME NEW w \in Workers, AllStepsDone(w) PROVE TypeOK'
    BY <1>15 DEF AllStepsDone, Leave
<1>16. ASSUME NEW w \in Workers, Close(w) PROVE TypeOK'
    <2>1. wrun[w] \in RunIds
        BY <1>16 DEF Close, OwnedRuns
    <2>2. status' \in [RunIds -> Statuses \cup {Absent}]
        BY <1>16, <2>1, SMTT(30) DEF Close
    <2>3. /\ UNCHANGED <<mode, requestedAt, stopRequested, worker, handlers, now, by, taken, cancelled, late>>
          /\ Release(w)
        BY <1>16 DEF Close
    <2>4. faulted' \subseteq RunIds
        BY <1>16, <2>1, FaultedRows DEF Close
    <2>5. QED
        BY <2>2, <2>3, <2>4, SMTT(30) DEF Release
<1>17. ASSUME NEW w \in Workers, Crash(w) PROVE TypeOK'
    <2>1. wrun[w] \in RunIds
        BY <1>17 DEF Crash, OwnedRuns
    <2>2. faulted' \subseteq RunIds
        BY <1>17, <2>1, FaultedRows DEF Crash
    <2>3. UNCHANGED <<table, handlers, now, by, taken, cancelled, late>> /\ Release(w)
        BY <1>17 DEF Crash
    <2>4. QED
        BY <2>2, <2>3, SMTT(30) DEF Release
<1>18. CASE UNCHANGED vars
    BY <1>18 DEF vars
<1>19. QED
    BY <1>1, <1>2, <1>3, <1>4, <1>5, <1>6, <1>7, <1>8, <1>9, <1>10, <1>11, <1>12,
       <1>13, <1>14, <1>15, <1>16, <1>17, <1>18 DEF Next, Handle, Work

-----------------------------------------------------------------------------
(* The steps of a worker inside a run move its program counter and nothing
   that ownership, freshness or overlap depend on. *)
Moves(w) ==
    /\ wpc[w] # "idle"
    /\ \E p \in {"claimed", "boundary", "cleared", "step", "closing"} :
          wpc' = [wpc EXCEPT ![w] = p]
    /\ UNCHANGED <<status, worker, stopRequested, hpc, wrun, by, taken>>

(* ... and the ways to let go of it without writing the row. *)
Forgets(w) ==
    /\ wpc[w] # "idle"
    /\ Release(w)
    /\ UNCHANGED <<status, worker, stopRequested, hpc, by, taken>>

(* A step of a worker that is neither a claim nor a close has one of two shapes. *)
LEMMA WorkShapes ==
    ASSUME NEW w \in Workers, Work(w) \/ Crash(w)
    PROVE  Claim(w) \/ Moves(w) \/ Forgets(w) \/ Close(w)
<1> USE DEF table, handlers, history
<1>1. CASE Dispatch(w)
    <2>1. PICK p \in {"cleared", "boundary"} : wpc' = [wpc EXCEPT ![w] = p]
        BY <1>1 DEF Dispatch
    <2>2. QED
        BY <1>1, <2>1 DEF Dispatch, Moves
<1>2. CASE DispatchFails(w)
    BY <1>2 DEF DispatchFails, Leave, Moves
<1>3. CASE ClaimReadFails(w)
    BY <1>3 DEF ClaimReadFails, Forgets
<1>4. CASE CheckStop(w)
    <2>1. PICK p \in {"cleared", "closing"} : wpc' = [wpc EXCEPT ![w] = p]
        BY <1>4 DEF CheckStop, Leave
    <2>2. QED
        BY <1>4, <2>1 DEF CheckStop, Moves
<1>5. CASE BeginStep(w)
    BY <1>5 DEF BeginStep, Moves
<1>6. CASE NoStep(w)
    BY <1>6 DEF NoStep, Leave, Moves
<1>7. CASE StepSucceeds(w)
    BY <1>7 DEF StepSucceeds, Moves
<1>8. CASE StepEndsRun(w)
    BY <1>8 DEF StepEndsRun, Leave, Moves
<1>9. CASE AllStepsDone(w)
    BY <1>9 DEF AllStepsDone, Leave, Moves
<1>10. CASE Crash(w)
    BY <1>10 DEF Crash, Forgets
<1>11. QED
    BY <1>1, <1>2, <1>3, <1>4, <1>5, <1>6, <1>7, <1>8, <1>9, <1>10 DEF Work

(* A step of the system is a step of a handler, a stop, a claim, a close, or
   one of the two shapes above. *)
LEMMA NextShapes ==
    ASSUME [Next]_vars
    PROVE  \/ \E h \in Handlers : Handle(h)
           \/ \E r \in RunIds : RequestStop(r)
           \/ \E w \in Workers : Claim(w) \/ Moves(w) \/ Forgets(w) \/ Close(w)
           \/ UNCHANGED vars
BY WorkShapes DEF Next

-----------------------------------------------------------------------------
(* Ownership is kept: only a claim gives a worker a run, and it takes a row
   that was Pending, which nobody holds. *)
LEMMA OwnedStep == TypeOK /\ OwnedRuns /\ [Next]_vars => OwnedRuns'
<1> SUFFICES ASSUME TypeOK, OwnedRuns, [Next]_vars
             PROVE  OwnedRuns'
    OBVIOUS
<1> USE RunQueueAssumption DEF table, handlers, workers, history
<1>1. ASSUME NEW h \in Handlers, Handle(h) PROVE OwnedRuns'
    <2>1. CASE \E m \in Modes : Insert(h, m)
        <3>1. PICK r \in RunIds : status[r] = Absent /\ status' = [status EXCEPT ![r] = RunPending]
            BY <2>1 DEF Insert
        <3>2. UNCHANGED <<worker, wpc, wrun>>
            BY <2>1 DEF Insert
        <3>3. QED
            BY <3>1, <3>2 DEF OwnedRuns, TypeOK, Absent, RunRunning
    <2>2. QED
        BY <1>1, <2>1 DEF Handle, CheckActive, Stamp, InsertFails, OwnedRuns
<1>2. ASSUME NEW r \in RunIds, RequestStop(r) PROVE OwnedRuns'
    BY <1>2 DEF RequestStop, OwnedRuns
<1>3. ASSUME NEW w \in Workers, Claim(w) PROVE OwnedRuns'
    <2>1. PICK r \in RunIds :
              /\ status[r] = RunPending
              /\ status' = [status EXCEPT ![r] = RunRunning]
              /\ worker' = [worker EXCEPT ![r] = w]
              /\ wrun' = [wrun EXCEPT ![w] = r]
        BY <1>3 DEF Claim
    <2>2. wpc[w] = "idle" /\ wpc' = [wpc EXCEPT ![w] = "claimed"]
        BY <1>3 DEF Claim
    <2>3. ASSUME NEW v \in Workers
          PROVE  /\ (wpc'[v] = "idle") <=> (wrun'[v] = None)
                 /\ wrun'[v] # None => status'[wrun'[v]] = RunRunning /\ worker'[wrun'[v]] = v
        <3>1. CASE v = w
            BY <2>1, <2>2, <3>1 DEF TypeOK, RunIds
        <3>2. CASE v # w
            <4>1. wpc'[v] = wpc[v] /\ wrun'[v] = wrun[v]
                BY <2>1, <2>2, <3>2 DEF TypeOK
            <4>2. wrun[v] # None => wrun[v] # r
                BY <2>1 DEF OwnedRuns, RunPending, RunRunning
            <4>3. QED
                BY <2>1, <4>1, <4>2 DEF TypeOK, OwnedRuns
        <3>3. QED
            BY <3>1, <3>2
    <2>4. QED
        BY <2>3 DEF OwnedRuns
<1>4. ASSUME NEW w \in Workers, Moves(w) PROVE OwnedRuns'
    BY <1>4 DEF Moves, OwnedRuns, TypeOK
<1>5. ASSUME NEW w \in Workers, Forgets(w) PROVE OwnedRuns'
    BY <1>5 DEF Forgets, Release, OwnedRuns, TypeOK
<1>6. ASSUME NEW w \in Workers, Close(w) PROVE OwnedRuns'
    <2>1. /\ wpc' = [wpc EXCEPT ![w] = "idle"]
          /\ wrun' = [wrun EXCEPT ![w] = None]
          /\ worker' = worker
          /\ wpc[w] = "closing"
        BY <1>6 DEF Close, Release
    <2>2. \A r \in RunIds : r # wrun[w] => status'[r] = status[r]
        BY <1>6 DEF Close, TypeOK
    <2>3. ASSUME NEW v \in Workers, v # w
          PROVE  wpc'[v] = wpc[v] /\ wrun'[v] = wrun[v]
        BY <2>1, <2>3 DEF TypeOK
    <2>4. ASSUME NEW v \in Workers, v # w, wrun[v] # None
          PROVE  wrun[v] \in RunIds /\ wrun[v] # wrun[w]
        BY <2>1, <2>4 DEF TypeOK, OwnedRuns
    <2>5. ASSUME NEW v \in Workers
          PROVE  /\ (wpc'[v] = "idle") <=> (wrun'[v] = None)
                 /\ wrun'[v] # None => status'[wrun'[v]] = RunRunning /\ worker'[wrun'[v]] = v
        <3>1. CASE v = w
            BY <2>1, <3>1 DEF TypeOK
        <3>2. CASE v # w
            BY <2>1, <2>2, <2>3, <2>4, <3>2 DEF OwnedRuns
        <3>3. QED
            BY <3>1, <3>2
    <2>6. QED
        BY <2>5 DEF OwnedRuns
<1>7. CASE UNCHANGED vars
    BY <1>7 DEF vars, OwnedRuns
<1>8. QED
    BY <1>1, <1>2, <1>3, <1>4, <1>5, <1>6, <1>7, NextShapes

-----------------------------------------------------------------------------
(* A worker enters a step only with one left: Dispatch starts at one or more
   and CheckStop passes a boundary only while steps remain. *)
LEMMA StepsAheadStep == TypeOK /\ StepsAhead /\ [Next]_vars => StepsAhead'
<1> SUFFICES ASSUME TypeOK, StepsAhead, [Next]_vars
             PROVE  StepsAhead'
    OBVIOUS
<1> USE DEF table, handlers, workers, history
<1>1. CASE UNCHANGED workers
    BY <1>1 DEF StepsAhead
<1>2. ASSUME NEW w \in Workers, Work(w) \/ Crash(w) PROVE StepsAhead'
    <2>1. CASE Claim(w)
        BY <2>1 DEF Claim, StepsAhead, TypeOK
    <2>2. CASE Dispatch(w)
        <3>1. PICK n \in 1 .. MaxSteps : wleft' = [wleft EXCEPT ![w] = n]
            BY <2>2 DEF Dispatch
        <3>2. \E p \in {"cleared", "boundary"} : wpc' = [wpc EXCEPT ![w] = p]
            BY <2>2 DEF Dispatch
        <3>3. QED
            BY <3>1, <3>2, RunQueueAssumption DEF StepsAhead, TypeOK
    <2>3. CASE DispatchFails(w)
        BY <2>3 DEF DispatchFails, Leave, StepsAhead, TypeOK
    <2>4. CASE ClaimReadFails(w)
        BY <2>4 DEF ClaimReadFails, Release, StepsAhead, TypeOK
    <2>5. CASE CheckStop(w)
        BY <2>5 DEF CheckStop, Leave, StepsAhead, TypeOK
    <2>6. CASE BeginStep(w)
        BY <2>6 DEF BeginStep, StepsAhead, TypeOK
    <2>7. CASE NoStep(w)
        BY <2>7 DEF NoStep, Leave, StepsAhead, TypeOK
    <2>8. CASE StepSucceeds(w)
        BY <2>8 DEF StepSucceeds, StepsAhead, TypeOK
    <2>9. CASE StepEndsRun(w)
        BY <2>9 DEF StepEndsRun, Leave, StepsAhead, TypeOK
    <2>10. CASE AllStepsDone(w)
        BY <2>10 DEF AllStepsDone, Leave, StepsAhead, TypeOK
    <2>11. CASE Close(w)
        BY <2>11 DEF Close, Release, StepsAhead, TypeOK
    <2>12. CASE Crash(w)
        BY <2>12 DEF Crash, Release, StepsAhead, TypeOK
    <2>13. QED
        BY <1>2, <2>1, <2>2, <2>3, <2>4, <2>5, <2>6, <2>7, <2>8, <2>9, <2>10, <2>11, <2>12 DEF Work
<1>3. ASSUME NEW h \in Handlers, Handle(h) PROVE UNCHANGED workers
    BY <1>3 DEF Handle, CheckActive, Stamp, Insert, InsertFails
<1>4. ASSUME NEW r \in RunIds, RequestStop(r) PROVE UNCHANGED workers
    BY <1>4 DEF RequestStop
<1>5. QED
    BY <1>1, <1>2, <1>3, <1>4 DEF Next, vars

(* A claim takes a Pending row, which was never handed out, and leaves it in
   a status no claim looks at. *)
LEMMA FreshStep == TypeOK /\ OwnedRuns /\ FreshRows /\ [Next]_vars => FreshRows'
<1> SUFFICES ASSUME TypeOK, OwnedRuns, FreshRows, [Next]_vars
             PROVE  FreshRows'
    OBVIOUS
<1> USE DEF table, handlers, workers, history
<1>1. ASSUME NEW h \in Handlers, Handle(h) PROVE FreshRows'
    <2>1. CASE \E m \in Modes : Insert(h, m)
        <3>1. PICK r \in RunIds : status[r] = Absent /\ status' = [status EXCEPT ![r] = RunPending]
            BY <2>1 DEF Insert
        <3>2. taken' = taken
            BY <2>1 DEF Insert
        <3>3. QED
            BY <3>1, <3>2 DEF FreshRows, TypeOK
    <2>2. QED
        BY <1>1, <2>1 DEF Handle, CheckActive, Stamp, InsertFails, FreshRows
<1>2. ASSUME NEW r \in RunIds, RequestStop(r) PROVE FreshRows'
    BY <1>2 DEF RequestStop, FreshRows
<1>3. ASSUME NEW w \in Workers, Claim(w) PROVE FreshRows'
    <2>1. PICK r \in RunIds :
              /\ status[r] = RunPending
              /\ status' = [status EXCEPT ![r] = RunRunning]
              /\ taken' = [taken EXCEPT ![r] = @ + 1]
        BY <1>3 DEF Claim
    <2>2. taken[r] = 0
        BY <2>1 DEF FreshRows
    <2>3. QED
        BY <2>1, <2>2 DEF FreshRows, TypeOK, RunRunning, RunPending, Absent
<1>4. ASSUME NEW w \in Workers, Moves(w) \/ Forgets(w) PROVE FreshRows'
    BY <1>4 DEF Moves, Forgets, FreshRows
<1>5. ASSUME NEW w \in Workers, Close(w) PROVE FreshRows'
    <2>1. taken' = taken
        BY <1>5 DEF Close
    <2>2. \A r \in RunIds : status'[r] = status[r] \/ status'[r] \notin {Absent, RunPending}
        BY <1>5 DEF Close, TypeOK, Terminal, RunSucceeded, RunBlocked, RunFailed, Absent, RunPending
    <2>3. QED
        BY <2>1, <2>2 DEF FreshRows
<1>6. CASE UNCHANGED vars
    BY <1>6 DEF vars, FreshRows
<1>7. QED
    BY <1>1, <1>2, <1>3, <1>4, <1>5, <1>6, NextShapes

(* A request slot passes its check only when nothing at all is active, so it
   has no active run when it inserts; nothing else makes a row active. *)
LEMMA OverlapStep == TypeOK /\ OwnedRuns /\ OverlapBound /\ [Next]_vars => OverlapBound'
<1> SUFFICES ASSUME TypeOK, OwnedRuns, OverlapBound, [Next]_vars
             PROVE  OverlapBound'
    OBVIOUS
<1> USE DEF table, handlers, workers, history
<1>1. ASSUME Active' \subseteq Active, UNCHANGED by,
             \A h \in Handlers : hpc'[h] # "idle" => hpc[h] # "idle"
      PROVE  OverlapBound'
    BY <1>1 DEF OverlapBound
<1>2. ASSUME NEW h \in Handlers, Handle(h) PROVE OverlapBound'
    <2>1. CASE CheckActive(h)
        <3>1. Active' = {}
            BY <2>1 DEF CheckActive, Active
        <3>2. QED
            BY <3>1 DEF OverlapBound
    <2>2. CASE Stamp(h)
        BY <1>1, <2>2 DEF Stamp, Active, TypeOK
    <2>3. CASE \E m \in Modes : Insert(h, m)
        <3>1. PICK r \in RunIds :
                  /\ status[r] = Absent
                  /\ status' = [status EXCEPT ![r] = RunPending]
                  /\ by' = [by EXCEPT ![r] = h]
            BY <2>3 DEF Insert
        <3>2. hpc[h] = "stamped" /\ hpc' = [hpc EXCEPT ![h] = "idle"]
            BY <2>3 DEF Insert
        <3>3. r \notin Active /\ Active' = Active \cup {r}
            BY <3>1 DEF Active, TypeOK, Absent, RunPending, RunRunning
        <3>4. by'[r] = h /\ \A q \in Active : by'[q] = by[q]
            BY <3>1, <3>3 DEF TypeOK, Active
        <3>5. \A q \in Active : by[q] # h
            BY <3>2 DEF OverlapBound
        <3>6. \A g \in Handlers : hpc'[g] # "idle" => g # h /\ hpc[g] # "idle"
            BY <3>2 DEF TypeOK
        <3>7. QED
            BY <3>3, <3>4, <3>5, <3>6 DEF OverlapBound
    <2>4. CASE InsertFails(h)
        BY <1>1, <2>4 DEF InsertFails, Active, TypeOK
    <2>5. QED
        BY <1>2, <2>1, <2>2, <2>3, <2>4 DEF Handle
<1>3. ASSUME NEW r \in RunIds, RequestStop(r) PROVE OverlapBound'
    BY <1>1, <1>3 DEF RequestStop, Active
<1>4. ASSUME NEW w \in Workers, Claim(w) PROVE OverlapBound'
    BY <1>1, <1>4 DEF Claim, Active, TypeOK
<1>5. ASSUME NEW w \in Workers, Moves(w) \/ Forgets(w) PROVE OverlapBound'
    BY <1>1, <1>5 DEF Moves, Forgets, Active
<1>6. ASSUME NEW w \in Workers, Close(w) PROVE OverlapBound'
    BY <1>1, <1>6 DEF Close, Active, TypeOK, Terminal, RunSucceeded, RunBlocked, RunFailed,
                      RunPending, RunRunning
<1>7. CASE UNCHANGED vars
    BY <1>1, <1>7 DEF vars, Active
<1>8. QED
    BY <1>2, <1>3, <1>4, <1>5, <1>6, <1>7, NextShapes

-----------------------------------------------------------------------------
(* An empty table, idle handlers and idle workers satisfy the invariant. *)
LEMMA InitIInv == Init => IInv
BY RunQueueAssumption DEF Init, IInv, TypeOK, OwnedRuns, StepsAhead, FreshRows, OverlapBound, Active,
       Statuses, Modes, RunPending, RunRunning, RunSucceeded, RunBlocked, RunStopped, RunFailed, Absent

(* The inductive invariant holds in every reachable state. *)
THEOREM Invariance == Spec => []IInv
<1>1. Init => IInv
    BY InitIInv
<1>2. IInv /\ [Next]_vars => IInv'
    BY TypeStep, OwnedStep, StepsAheadStep, FreshStep, OverlapStep DEF IInv
<1>3. QED
    BY <1>1, <1>2, PTL DEF Spec

(* Every column, program counter and history variable keeps its type. *)
THEOREM TypeCorrect == Spec => []TypeOK
<1>1. IInv => TypeOK
    BY DEF IInv
<1>2. QED
    BY <1>1, Invariance, PTL

(* Claim's contract for any number of executors: a run is never with two of
   them, and is never handed out twice, whatever crashes or fails. *)
THEOREM ClaimIsExclusive == Spec => []TakenOnce
<1>1. IInv => TakenOnce
    <2> SUFFICES ASSUME IInv PROVE TakenOnce
        OBVIOUS
    <2>1. ASSUME NEW v \in Workers, NEW w \in Workers, wrun[v] = wrun[w], wrun[v] # None
          PROVE  v = w
        BY <2>1 DEF IInv, OwnedRuns
    <2>2. \A r \in RunIds : taken[r] <= 1
        BY DEF IInv, FreshRows
    <2>3. QED
        BY <2>1, <2>2 DEF TakenOnce
<1>2. QED
    BY <1>1, Invariance, PTL

(* However many requests race through the unprotected check-then-insert, each
   contributes at most one active run. *)
THEOREM OverlapIsBounded == Spec => []OneRunPerRequest
<1>1. IInv => OneRunPerRequest
    BY DEF IInv, OverlapBound, OneRunPerRequest
<1>2. QED
    BY <1>1, Invariance, PTL

-----------------------------------------------------------------------------
(* No step of the system changes a row that has reached a terminal status. *)
LEMMA TerminalStep ==
    ASSUME IInv, [Next]_vars, NEW r \in RunIds, Terminal(status[r])
    PROVE  /\ status'[r] = status[r]
           /\ worker'[r] = worker[r]
           /\ stopRequested'[r] = stopRequested[r]
<1> DEFINE Kept == /\ status'[r] = status[r]
                   /\ worker'[r] = worker[r]
                   /\ stopRequested'[r] = stopRequested[r]
<1> USE DEF table, handlers, workers, history
<1>0. TypeOK /\ status[r] \notin {Absent, RunPending, RunRunning}
    BY DEF IInv, Terminal, RunSucceeded, RunBlocked, RunFailed, Absent, RunPending, RunRunning
<1>1. ASSUME NEW h \in Handlers, Handle(h) PROVE Kept
    <2>1. CASE \E m \in Modes : Insert(h, m)
        <3>1. PICK q \in RunIds : status[q] = Absent /\ status' = [status EXCEPT ![q] = RunPending]
            BY <2>1 DEF Insert
        <3>2. UNCHANGED <<worker, stopRequested>>
            BY <2>1 DEF Insert
        <3>3. QED
            BY <1>0, <3>1, <3>2 DEF TypeOK
    <2>2. QED
        BY <1>1, <2>1 DEF Handle, CheckActive, Stamp, InsertFails
<1>2. ASSUME NEW q \in RunIds, RequestStop(q) PROVE Kept
    BY <1>0, <1>2 DEF RequestStop, TypeOK
<1>3. ASSUME NEW w \in Workers, Claim(w) PROVE Kept
    <2>1. PICK q \in RunIds :
              /\ status[q] = RunPending
              /\ status' = [status EXCEPT ![q] = RunRunning]
              /\ worker' = [worker EXCEPT ![q] = w]
        BY <1>3 DEF Claim
    <2>2. QED
        BY <1>0, <1>3, <2>1 DEF Claim, TypeOK
<1>4. ASSUME NEW w \in Workers, Moves(w) \/ Forgets(w) PROVE Kept
    BY <1>4 DEF Moves, Forgets
<1>5. ASSUME NEW w \in Workers, Close(w) PROVE Kept
    <2>1. wrun[w] # r
        BY <1>0, <1>5, RunQueueAssumption DEF Close, IInv, OwnedRuns, RunIds
    <2>2. QED
        BY <1>0, <1>5, <2>1 DEF Close, TypeOK
<1>6. CASE UNCHANGED vars
    BY <1>6 DEF vars
<1>7. QED
    BY <1>1, <1>2, <1>3, <1>4, <1>5, <1>6, NextShapes

(* The ledger never rewrites history, although Finish has no guard of its own:
   only the owner of a Running row can reach it. *)
THEOREM LedgerIsFinal == Spec => TerminalIsFinal
<1>1. IInv /\ [Next]_vars =>
        [\A r \in RunIds : Terminal(status[r]) =>
            /\ status'[r] = status[r]
            /\ worker'[r] = worker[r]
            /\ stopRequested'[r] = stopRequested[r]]_vars
    BY TerminalStep
<1>2. QED
    BY <1>1, Invariance, PTL DEF Spec, TerminalIsFinal

-----------------------------------------------------------------------------
(* The refinement. A run in somebody's hands is held by that worker alone. *)
LEMMA HeldRun ==
    ASSUME IInv, NEW w \in Workers, wpc[w] # "idle"
    PROVE  /\ wrun[w] \in RunIds
           /\ status[wrun[w]] = RunRunning
           /\ Holders(wrun[w]) = {w}
           /\ Phase(wrun[w]) = "held"
<1>1. wrun[w] \in RunIds /\ status[wrun[w]] = RunRunning
    BY DEF IInv, OwnedRuns, TypeOK
<1>2. Holders(wrun[w]) = {w}
    BY <1>1, RunQueueAssumption DEF Holders, IInv, OwnedRuns, RunIds
<1>3. Phase(wrun[w]) = "held"
    BY <1>1, <1>2 DEF Phase, RunRunning, Absent, RunPending
<1>4. QED
    BY <1>1, <1>2, <1>3

(* Letting go of a run is the abstract LetGo, whatever the row says then. *)
LEMMA LetGoStep ==
    ASSUME IInv, NEW w \in Workers, wpc[w] # "idle", wrun' = [wrun EXCEPT ![w] = None],
           \A q \in RunIds : q # wrun[w] => status'[q] = status[q],
           \/ status'[wrun[w]] = RunRunning
           \/ Terminal(status'[wrun[w]])
    PROVE  Ledger!LetGo(wrun[w])
<1>0. PICK r \in RunIds : r = wrun[w]
    BY HeldRun
<1>1. status[r] = RunRunning /\ Holders(r) = {w} /\ Phase(r) = "held"
    BY <1>0, HeldRun
<1>2. \A v \in Workers : wrun'[v] = IF v = w THEN None ELSE wrun[v]
    BY DEF IInv, TypeOK
<1>3. Holders(r)' = {}
    BY <1>0, <1>1, <1>2, RunQueueAssumption DEF Holders, RunIds
<1>4. \A q \in RunIds : q # r => Holders(q)' = Holders(q)
    BY <1>0, <1>2, RunQueueAssumption DEF Holders, RunIds
<1>5. Phase(r)' \in {"ended", "abandoned"}
    BY <1>0, <1>3 DEF Phase, Terminal, RunSucceeded, RunBlocked, RunFailed, RunRunning, RunPending, Absent
<1>6. \A q \in RunIds : q # r => Phase(q)' = Phase(q)
    BY <1>0, <1>4 DEF Phase
<1>7. [q \in RunIds |-> Phase(q)]' = [[q \in RunIds |-> Phase(q)] EXCEPT ![r] = Phase(r)']
    BY <1>1, <1>6
<1>8. [q \in RunIds |-> Holders(q)]' = [[q \in RunIds |-> Holders(q)] EXCEPT ![r] = {}]
    BY <1>1, <1>3, <1>4
<1>9. QED
    BY <1>0, <1>1, <1>5, <1>7, <1>8 DEF Ledger!LetGo

(* A step that moves neither the status column nor a worker's run is a
   stutter of the ledger. *)
LEMMA LedgerStutter ==
    ASSUME UNCHANGED <<status, wrun>>
    PROVE  UNCHANGED Ledger!ledgerVars
BY DEF Ledger!ledgerVars, Phase, Holders

(* Every step of the queue is a step of the ledger or changes nothing it sees:
   an insert queues, a claim takes, a close, a crash or a failed read lets go. *)
LEMMA LedgerStep == IInv /\ [Next]_vars => [Ledger!Next]_(Ledger!ledgerVars)
<1> SUFFICES ASSUME IInv, [Next]_vars
             PROVE  [Ledger!Next]_(Ledger!ledgerVars)
    OBVIOUS
<1> USE DEF table, handlers, workers, history
<1>1. ASSUME NEW h \in Handlers, Handle(h) PROVE Ledger!Next \/ UNCHANGED Ledger!ledgerVars
    <2>1. CASE \E m \in Modes : Insert(h, m)
        <3>1. PICK r \in RunIds : status[r] = Absent /\ status' = [status EXCEPT ![r] = RunPending]
            BY <2>1 DEF Insert
        <3>2. wrun' = wrun
            BY <2>1 DEF Insert
        <3>3. \A q \in RunIds : Holders(q)' = Holders(q)
            BY <3>2 DEF Holders
        <3>4. \A q \in RunIds : Phase(q)' = IF q = r THEN "queued" ELSE Phase(q)
            BY <3>1, <3>3 DEF Phase, IInv, TypeOK, RunPending, RunRunning, Absent
        <3>5. Phase(r) = "absent"
            BY <3>1 DEF Phase, RunPending, RunRunning, Absent
        <3>6. Ledger!Queue(r)
            BY <3>1, <3>3, <3>4, <3>5 DEF Ledger!Queue
        <3>7. QED
            BY <3>1, <3>6 DEF Ledger!Next
    <2>2. CASE ~\E m \in Modes : Insert(h, m)
        <3>1. UNCHANGED <<status, wrun>>
            BY <1>1, <2>2 DEF Handle, CheckActive, Stamp, InsertFails
        <3>2. QED
            BY <3>1, LedgerStutter
    <2>3. QED
        BY <2>1, <2>2
<1>2. ASSUME NEW r \in RunIds, RequestStop(r) PROVE UNCHANGED Ledger!ledgerVars
    BY <1>2, LedgerStutter DEF RequestStop
<1>3. ASSUME NEW w \in Workers, Claim(w) PROVE Ledger!Next
    <2>1. PICK r \in RunIds :
              /\ status[r] = RunPending
              /\ status' = [status EXCEPT ![r] = RunRunning]
              /\ wrun' = [wrun EXCEPT ![w] = r]
        BY <1>3 DEF Claim
    <2>2. wrun[w] = None
        BY <1>3 DEF Claim, IInv, OwnedRuns
    <2>3. \A v \in Workers : wrun[v] # r
        BY <2>1, RunQueueAssumption DEF IInv, OwnedRuns, RunIds, RunPending, RunRunning
    <2>4. \A v \in Workers : wrun'[v] = IF v = w THEN r ELSE wrun[v]
        BY <2>1 DEF IInv, TypeOK
    <2>5. Holders(r)' = {w}
        BY <2>3, <2>4 DEF Holders
    <2>6. \A q \in RunIds : w \notin Holders(q) /\ (q # r => Holders(q)' = Holders(q))
        BY <2>2, <2>4, RunQueueAssumption DEF Holders, RunIds
    <2>7. Phase(r) = "queued" /\ Phase(r)' = "held"
        BY <2>1, <2>5 DEF Phase, IInv, TypeOK, RunPending, RunRunning, Absent
    <2>8. \A q \in RunIds : q # r => Phase(q)' = Phase(q)
        BY <2>1, <2>6 DEF Phase, IInv, TypeOK
    <2>9. Ledger!Take(r, w)
        BY <2>1, <2>5, <2>6, <2>7, <2>8 DEF Ledger!Take
    <2>10. QED
        BY <2>9 DEF Ledger!Next
<1>4. ASSUME NEW w \in Workers, Moves(w) PROVE UNCHANGED Ledger!ledgerVars
    BY <1>4, LedgerStutter DEF Moves
<1>5. ASSUME NEW w \in Workers, Forgets(w) \/ Close(w) PROVE Ledger!Next
    <2>1. wpc[w] # "idle" /\ wrun' = [wrun EXCEPT ![w] = None]
        BY <1>5 DEF Forgets, Close, Release
    <2>2. wrun[w] \in RunIds /\ status[wrun[w]] = RunRunning
        BY <2>1, HeldRun
    <2>3. /\ \A q \in RunIds : q # wrun[w] => status'[q] = status[q]
          /\ status'[wrun[w]] = RunRunning \/ Terminal(status'[wrun[w]])
        BY <1>5, <2>2 DEF Forgets, Close, IInv, TypeOK
    <2>4. Ledger!LetGo(wrun[w])
        BY <2>1, <2>3, LetGoStep
    <2>5. QED
        BY <2>2, <2>4 DEF Ledger!Next
<1>6. CASE UNCHANGED vars
    BY <1>6, LedgerStutter DEF vars
<1>7. QED
    BY <1>1, <1>2, <1>3, <1>4, <1>5, <1>6, NextShapes

(* The runs table with its handlers and executors implements the at-most-once
   queue: every step maps to one abstract step or to a stutter. *)
THEOREM QueueImplementsLedger == Spec => ImplementsLedger
<1>1. Init => Ledger!Init
    BY RunQueueAssumption DEF Init, Ledger!Init, Phase, Holders, RunIds, RunPending, RunRunning, Absent
<1>2. QED
    BY <1>1, LedgerStep, Invariance, PTL DEF Spec, ImplementsLedger, Ledger!Spec

-----------------------------------------------------------------------------
(* Stops. A step begun after the stop was recorded is one whose boundary check
   came before it, so a worker that is past a boundary and has been overtaken by a
   stop has begun none. *)
StopShape ==
    \A r \in RunIds :
        /\ status[r] = Absent => ~stopRequested[r]
        /\ cancelled[r] => stopRequested[r]
        /\ ~stopRequested[r] => late[r] = 0
        /\ mode[r] # "drain" /\ r \notin faulted =>
              /\ late[r] <= (IF cancelled[r] THEN 0 ELSE 1)
              /\ \A w \in Workers :
                    wpc[w] = "cleared" /\ wrun[w] = r /\ stopRequested[r]
                      => late[r] = 0 /\ ~cancelled[r]

(* A step of a worker that passes no boundary and begins no step. *)
Passive(w) ==
    /\ UNCHANGED <<mode, stopRequested, cancelled, late>>
    /\ faulted \subseteq faulted'
    /\ \A r \in RunIds : status'[r] = Absent => status[r] = Absent
    /\ wpc'[w] # "cleared"
    /\ \A v \in Workers : v # w => wpc'[v] = wpc[v] /\ wrun'[v] = wrun[v]

(* Which steps of a worker matter to a stop. *)
LEMMA StopMoves ==
    ASSUME TypeOK, OwnedRuns, NEW w \in Workers, Work(w) \/ Crash(w)
    PROVE  Passive(w) \/ Dispatch(w) \/ CheckStop(w) \/ BeginStep(w)
<1> USE DEF table, handlers, history, TypeOK, Passive
<1>1. CASE Claim(w)
    BY <1>1 DEF Claim, RunRunning, Absent
<1>2. CASE ClaimReadFails(w) \/ Crash(w)
    BY <1>2 DEF ClaimReadFails, Crash, Release, Meets
<1>3. CASE DispatchFails(w) \/ NoStep(w) \/ StepSucceeds(w) \/ StepEndsRun(w) \/ AllStepsDone(w)
    BY <1>3 DEF DispatchFails, NoStep, StepSucceeds, StepEndsRun, AllStepsDone, Leave
<1>4. CASE Close(w)
    <2>1. \A r \in RunIds : status'[r] = status[r] \/ Terminal(status'[r])
        BY <1>4 DEF Close
    <2>2. QED BY <1>4, <2>1 DEF Close, Release, Meets, Terminal, RunSucceeded, RunBlocked, RunFailed, Absent
<1>5. QED BY <1>1, <1>2, <1>3, <1>4 DEF Work

(* Every step keeps the account of late steps, for the runs no fault has met. *)
LEMMA StopStep ==
    ASSUME TypeOK, OwnedRuns, StopShape, [Next]_vars
    PROVE  StopShape'
<1> USE DEF table, handlers, workers, history
<1>0. /\ late \in [RunIds -> Nat] /\ cancelled \in [RunIds -> BOOLEAN]
      /\ stopRequested \in [RunIds -> BOOLEAN]
      /\ wpc \in [Workers -> {"idle", "claimed", "boundary", "cleared", "step", "closing"}]
      /\ status \in [RunIds -> Statuses \cup {Absent}] /\ mode \in [RunIds -> Modes]
    BY DEF TypeOK
<1>1. ASSUME NEW h \in Handlers, Handle(h) PROVE StopShape'
    <2>1. CASE \E m \in Modes : Insert(h, m)
        <3>1. PICK r \in RunIds, m \in Modes :
                  /\ status[r] = Absent
                  /\ status' = [status EXCEPT ![r] = RunPending]
                  /\ mode' = [mode EXCEPT ![r] = m]
            BY <2>1 DEF Insert
        <3>2. UNCHANGED <<stopRequested, wpc, wrun, cancelled, late, faulted>>
            BY <2>1 DEF Insert
        <3>3. /\ ~stopRequested[r] /\ late[r] = 0
              /\ status'[r] # Absent
              /\ \A q \in RunIds : q # r => status'[q] = status[q] /\ mode'[q] = mode[q]
            BY <1>0, <3>1 DEF StopShape, RunPending, Absent
        <3>4. QED BY <3>2, <3>3 DEF StopShape
    <2>2. CASE UNCHANGED <<table, workers, history>>
        BY <2>2 DEF StopShape
    <2>3. QED
        BY <1>1, <2>1, <2>2 DEF Handle, CheckActive, Stamp, InsertFails
<1>2. ASSUME NEW r \in RunIds, RequestStop(r) PROVE StopShape'
    <2>1. /\ status[r] \in {RunPending, RunRunning} /\ ~stopRequested[r]
          /\ stopRequested'[r] = TRUE /\ cancelled'[r] = (status[r] = RunPending)
          /\ \A q \in RunIds : q # r => stopRequested'[q] = stopRequested[q] /\ cancelled'[q] = cancelled[q]
          /\ UNCHANGED <<status, mode, wpc, wrun, late, faulted>>
        BY <1>0, <1>2 DEF RequestStop
    <2>2. late[r] = 0 /\ status[r] # Absent
        BY <2>1 DEF StopShape, RunPending, RunRunning, Absent
    <2>3. \A w \in Workers : wpc[w] = "cleared" /\ wrun[w] = r => ~cancelled'[r]
        <3>1. ASSUME NEW w \in Workers, wpc[w] = "cleared", wrun[w] = r PROVE status[r] = RunRunning
            BY <3>1 DEF OwnedRuns
        <3>2. QED BY <2>1, <3>1 DEF RunRunning, RunPending
    <2>4. QED BY <2>1, <2>2, <2>3 DEF StopShape
<1>3. ASSUME NEW w \in Workers, Passive(w) PROVE StopShape'
    BY <1>3 DEF Passive, StopShape
<1>4. ASSUME NEW w \in Workers, Dispatch(w) PROVE StopShape'
    <2>1. /\ wpc'[w] = "cleared" => mode[wrun[w]] = "drain"
          /\ \A v \in Workers : v # w => wpc'[v] = wpc[v]
          /\ UNCHANGED <<status, mode, stopRequested, wrun, cancelled, late, faulted>>
        BY <1>0, <1>4 DEF Dispatch
    <2>2. QED BY <2>1 DEF StopShape
<1>5. ASSUME NEW w \in Workers, CheckStop(w) PROVE StopShape'
    <2>1. /\ wpc'[w] = "cleared" => ~stopRequested[wrun[w]] \/ wrun[w] \in faulted'
          /\ faulted \subseteq faulted'
          /\ \A v \in Workers : v # w => wpc'[v] = wpc[v]
          /\ UNCHANGED <<status, mode, stopRequested, wrun, cancelled, late>>
        BY <1>0, <1>5 DEF CheckStop, Leave, Meets
    <2>2. QED BY <2>1 DEF StopShape
<1>6. ASSUME NEW w \in Workers, BeginStep(w) PROVE StopShape'
    <2>0. PICK r \in RunIds : r = wrun[w]
        BY <1>6 DEF BeginStep, OwnedRuns, TypeOK
    <2>1. /\ wpc[w] = "cleared" /\ wpc'[w] = "step"
          /\ \A v \in Workers : v # w => wpc'[v] = wpc[v]
          /\ UNCHANGED <<status, mode, stopRequested, wrun, cancelled, faulted>>
        BY <1>0, <1>6 DEF BeginStep
    <2>2. /\ late'[r] = IF stopRequested[r] THEN late[r] + 1 ELSE late[r]
          /\ \A q \in RunIds : q # r => late'[q] = late[q]
        BY <1>0, <1>6, <2>0 DEF BeginStep
    <2>3. \A v \in Workers : v # w => wrun[v] # r
        BY <2>0, <2>1, RunQueueAssumption DEF OwnedRuns, RunIds
    <2>4. late[r] \in Nat /\ (mode[r] # "drain" /\ r \notin faulted /\ stopRequested[r] => late[r] = 0 /\ ~cancelled[r])
        BY <1>0, <2>0, <2>1 DEF StopShape
    <2>5. QED BY <2>0, <2>1, <2>2, <2>3, <2>4 DEF StopShape
<1>7. CASE UNCHANGED vars
    BY <1>7 DEF vars, StopShape
<1>8. QED
    BY <1>1, <1>2, <1>3, <1>4, <1>5, <1>6, <1>7, StopMoves DEF Next

(* A stop is honoured at the next boundary, for any number of executors, runs and
   steps and whatever happens to other runs: a plan or converge run that met no
   fault begins at most the one step whose check came first, and none if it was
   stopped in the queue (executor.go, perform; converge.go). *)
THEOREM StopIsHonoured == Spec => []StopHonoured
<1>1. Init => StopShape
    BY DEF Init, StopShape
<1>2. IInv /\ StopShape /\ [Next]_vars => StopShape'
    BY StopStep DEF IInv
<1>3. StopShape => StopHonoured
    BY DEF StopShape, StopHonoured
<1>4. QED BY <1>1, <1>2, <1>3, Invariance, PTL DEF Spec
=============================================================================
