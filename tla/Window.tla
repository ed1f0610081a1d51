------------------------------- MODULE Window -------------------------------
(***************************************************************************)
(* internal/window: when a maintenance window is open, and what is read of *)
(* it. A window has a time zone, a cron schedule, a duration, a selector   *)
(* over node labels, and may permit Red steps. Time is counted in ticks;   *)
(* a schedule is the set of ticks it fires at.                             *)
(***************************************************************************)
EXTENDS Integers, FiniteSets, FiniteSetsExt

CONSTANTS
    WindowNames,
    DefaultDuration,    \* "1h", for a duration left out
    Closed              \* no window object of this name; no list read

(* The zero time.Time, long before any instant the clock shows. *)
Never == -1000

VARIABLES
    windows,    \* name -> [spec, version], Closed when there is no object
    status,     \* name -> status.active
    sweep,      \* UpdateStatus: the list it read and when, and the names left
    gate        \* AllowsRedOn: the list it read, then its answer

windowVars == <<windows, status, sweep, gate>>

Exists(n) == windows[n] # Closed
Objects == {n \in WindowNames : Exists(n)}
NoSweep == [left |-> {}, listed |-> <<>>, at |-> Never]
NoGate  == [phase |-> "idle", listed |-> {}, at |-> Never, allowed |-> FALSE, labels |-> {}]

WindowInit ==
    /\ windows = [n \in WindowNames |-> Closed]
    /\ status = [n \in WindowNames |-> FALSE]
    /\ sweep = NoSweep /\ gate = NoGate

-----------------------------------------------------------------------------
(* cron's Schedule.Next (external): the first firing after t, strictly.     *)
NextAfter(fires, t) == LET later == {f \in fires : f > t} IN IF later = {} THEN Never ELSE Min(later)

Duration(w) == IF w.duration = {} THEN DefaultDuration ELSE CHOOSE d \in w.duration : TRUE

(* A schedule or zone that does not parse, and a duration that is not
   positive, keep the window shut. *)
Valid(w) == ~w.suspend /\ w.zone = "known" /\ w.parses /\ Duration(w) > 0

Shut(w) == [open |-> FALSE, allowsRed |-> FALSE, selector |-> w.selector]

(* Seeded fault: the search for the last opening starts one tick too early. *)
EvaluateTooEarly(w, now) ==
    LET prev == NextAfter(w.fires, now - Duration(w) - 1)
    IN  IF Valid(w) /\ prev <= now /\ now < prev + Duration(w)
        THEN [Shut(w) EXCEPT !.open = TRUE, !.allowsRed = w.allowRed]
        ELSE Shut(w)

(* Evaluate: wind back one duration and ask for the next firing. *)
Evaluate(w, now) ==
    LET prev == NextAfter(w.fires, now - Duration(w))
    IN  IF Valid(w) /\ prev <= now /\ now < prev + Duration(w)
        THEN [Shut(w) EXCEPT !.open = TRUE, !.allowsRed = w.allowRed]
        ELSE Shut(w)

EvaluateAll(specs, now) == {Evaluate(w, now) : w \in specs}

Covering(states, labels) == {s \in states : s.open /\ s.selector \subseteq labels}

AllowsRedOn(states, labels) == \E s \in Covering(states, labels) : s.allowsRed

-----------------------------------------------------------------------------
(* Somebody creates, edits or deletes a window. *)
EditWindow(n, spec) ==
    /\ windows' = [windows EXCEPT ![n] = [spec |-> spec, version |-> IF Exists(n) THEN @.version + 1 ELSE 1]]
    /\ UNCHANGED <<status, sweep, gate>>

DeleteWindow(n) ==
    /\ Exists(n)
    /\ windows' = [windows EXCEPT ![n] = Closed]
    /\ status' = [status EXCEPT ![n] = FALSE]
    /\ UNCHANGED <<sweep, gate>>

(* Reader.AllowsRedOn, for the guard of a Red step: list, then look at the
   clock and evaluate. A list that fails is a refusal; an absent CRD is an
   empty list. *)
GateList(labels) ==
    /\ gate.phase = "idle"
    /\ gate' = [NoGate EXCEPT !.phase = "listed", !.labels = labels,
                              !.listed = {windows[n].spec : n \in Objects}]
    /\ UNCHANGED <<windows, status, sweep>>

GateAnswer(now) ==
    /\ gate.phase = "listed"
    /\ gate' = [gate EXCEPT !.phase = "answered", !.at = now,
                            !.allowed = AllowsRedOn(EvaluateAll(gate.listed, now), gate.labels)]
    /\ UNCHANGED <<windows, status, sweep>>

GateRefuses(now) ==
    /\ gate.phase = "listed"
    /\ gate' = [gate EXCEPT !.phase = "answered", !.at = now, !.listed = {}]
    /\ UNCHANGED <<windows, status, sweep>>

GateDone ==
    /\ gate.phase = "answered"
    /\ gate' = NoGate
    /\ UNCHANGED <<windows, status, sweep>>

(* UpdateStatus: list once, evaluate at one instant, write one by one. *)
SweepList(now) ==
    /\ sweep.left = {} /\ Objects # {}
    /\ sweep' = [left |-> Objects, listed |-> [n \in Objects |-> windows[n]], at |-> now]
    /\ UNCHANGED <<windows, status, gate>>

(* Seeded fault: the status is patched whatever became of the object. *)
WriteStatusBlindly(n, active) ==
    status' = [status EXCEPT ![n] = active]

(* The API server (external) refuses an update of an object that changed
   since it was read; the refusal is logged. *)
WriteStatus(n, active) ==
    status' = IF windows[n] = sweep.listed[n] THEN [status EXCEPT ![n] = active] ELSE status

SweepWrite(n) ==
    /\ n \in sweep.left
    /\ WriteStatus(n, Evaluate(sweep.listed[n].spec, sweep.at).open)
    /\ sweep' = IF sweep.left = {n} THEN NoSweep ELSE [sweep EXCEPT !.left = @ \ {n}]
    /\ UNCHANGED <<windows, gate>>

-----------------------------------------------------------------------------
(* What open means: some firing f lies at most one duration back. *)
OpenAt(w, now) == Valid(w) /\ \E f \in w.fires : f <= now /\ now < f + Duration(w)

(* A Red step is let through exactly when, at the instant of the answer, some
   window as read is open over the node and permits Red, however schedules
   overlap, end or fail to parse (window.go, Evaluate and AllowsRedOn). *)
RedOnlyInWindow ==
    gate.phase = "answered" =>
        (gate.allowed <=> \E w \in gate.listed : /\ OpenAt(w, gate.at) /\ w.allowRed
                                                 /\ w.selector \subseteq gate.labels)

(* The status turns active only where the spec that stands there was open when
   the sweep looked, also if the window was suspended or rewritten after the
   sweep listed it. Turning inactive may take until a later sweep: a window
   suspended while it is reported open stays so until then (reader.go,
   UpdateStatus). *)
StatusFromCurrentSpec ==
    [][\A n \in WindowNames :
          status'[n] /\ ~status[n] => Exists(n) /\ OpenAt(windows[n].spec, sweep.at)]_windowVars
=============================================================================
