---------------------------- MODULE WindowProofs ----------------------------
(***************************************************************************)
(* Maintenance windows for any schedules, durations, names and edits: the  *)
(* answer given to the safety guard and the status written back are those  *)
(* of a window that is open.                                               *)
(***************************************************************************)
EXTENDS ConsoleProofs, NumberLemmas

WindowObjects == [spec : WindowSpecs, version : Nat]

(* What is read of the windows is what somebody wrote there. *)
WindowShape ==
    /\ windows \in [WindowNames -> WindowObjects \cup {Closed}]
    /\ status \in [WindowNames -> BOOLEAN]
    /\ sweep = [left |-> sweep.left, listed |-> sweep.listed, at |-> sweep.at]
    /\ sweep.left \subseteq WindowNames
    /\ \A n \in sweep.left : sweep.listed[n] \in WindowObjects /\ sweep.at \in Start..End

GateShape ==
    /\ gate = [phase |-> gate.phase, listed |-> gate.listed, at |-> gate.at,
               allowed |-> gate.allowed, labels |-> gate.labels]
    /\ gate.listed \subseteq WindowSpecs
    /\ gate.phase = "listed" => gate.allowed = FALSE

-----------------------------------------------------------------------------
(* Evaluate is right: winding back one duration and asking for the next firing
   finds a window open exactly when some firing lies at most one duration
   back, however firings overlap. *)
LEMMA EvaluateIsOpenAt ==
    ASSUME NEW w \in WindowSpecs, NEW t \in Start..End
    PROVE  /\ Evaluate(w, t).open <=> OpenAt(w, t)
           /\ Evaluate(w, t).allowsRed <=> OpenAt(w, t) /\ w.allowRed
           /\ Evaluate(w, t).selector = w.selector
<1> DEFINE D == Duration(w)
           later == {f \in w.fires : f > t - D}
           prev == NextAfter(w.fires, t - D)
<1>1. w.fires \subseteq Nat /\ D \in Int /\ Never + D <= Start /\ w.allowRed \in BOOLEAN
    BY WindowAssumption
<1>2. t \in Nat /\ Start <= t /\ Start \in Nat
    BY ClockAssumption
<1>3. (prev <= t /\ t < prev + D) <=> (\E f \in w.fires : f <= t /\ t < f + D)
    <2>1. CASE later = {}
        <3>1. prev = Never
            BY <2>1 DEF NextAfter
        <3>2. ~(t < prev + D)
            BY <1>1, <1>2, <3>1 DEF Never
        <3>3. \A f \in w.fires : ~(t < f + D)
            BY <1>1, <1>2, <2>1
        <3>4. QED BY <3>2, <3>3
    <2>2. CASE later # {}
        <3>1. prev = Min(later)
            BY <2>2 DEF NextAfter
        <3>2. prev \in later /\ \A f \in later : prev <= f
            BY <1>1, <2>2, <3>1, LeastNatural
        <3>3. prev \in Nat /\ prev \in w.fires /\ t < prev + D
            BY <1>1, <1>2, <3>2
        <3>4. \A f \in w.fires : t < f + D => f \in later
            BY <1>1, <1>2
        <3> HIDE DEF prev, later
        <3>5. QED BY <1>1, <1>2, <3>2, <3>3, <3>4
    <2>3. QED BY <2>1, <2>2
<1>4. Evaluate(w, t) = IF Valid(w) /\ prev <= t /\ t < prev + D
                       THEN [Shut(w) EXCEPT !.open = TRUE, !.allowsRed = w.allowRed]
                       ELSE Shut(w)
    BY Zenon DEF Evaluate
<1> HIDE DEF prev
<1>5. OpenAt(w, t) <=> Valid(w) /\ prev <= t /\ t < prev + D
    BY <1>3 DEF OpenAt
<1>6. CASE OpenAt(w, t)
    <2>1. Evaluate(w, t) = [Shut(w) EXCEPT !.open = TRUE, !.allowsRed = w.allowRed]
        BY <1>4, <1>5, <1>6
    <2>2. Evaluate(w, t).open = TRUE
        BY <2>1 DEF Shut
    <2>3. Evaluate(w, t).allowsRed = w.allowRed
        BY <2>1 DEF Shut
    <2>4. Evaluate(w, t).selector = w.selector
        BY <2>1 DEF Shut
    <2>5. QED BY <1>6, <2>2, <2>3, <2>4, Zenon
<1>7. CASE ~OpenAt(w, t)
    BY <1>4, <1>5, <1>7 DEF Shut
<1>8. QED BY <1>6, <1>7

(* The answer over a list of windows. *)
LEMMA AnswerIsRight ==
    ASSUME NEW specs \in SUBSET WindowSpecs, NEW t \in Start..End, NEW labels
    PROVE  AllowsRedOn(EvaluateAll(specs, t), labels) <=>
               \E w \in specs : OpenAt(w, t) /\ w.allowRed /\ w.selector \subseteq labels
BY EvaluateIsOpenAt DEF AllowsRedOn, Covering, EvaluateAll

-----------------------------------------------------------------------------
(* What is neither an administrator nor a reader leaves the windows alone. *)
LEMMA WindowQuiet ==
    ASSUME [Next]_vars, ~Administer, ~AskWindows, ~ReadWindows
    PROVE  UNCHANGED windowVars
BY DEF Next, Serve, Arrive, Anonymous, Lookup, Review, CachePut, Authorize, Read, Execute, Published,
    Connect, NewPlan, Poll, Fanout, Tick, vars

(* What they are left with is well formed. *)
LEMMA WindowShapeStep ==
    ASSUME AuthShape, WindowShape, GateShape, [Next]_vars
    PROVE  WindowShape' /\ GateShape'
<1> USE WindowAssumption, ClockAssumption
<1>1. now \in Start..End
    BY DEF AuthShape
<1>2. ASSUME UNCHANGED <<windows, status, sweep>> PROVE WindowShape'
    BY <1>2 DEF WindowShape
<1>3. ASSUME UNCHANGED gate PROVE GateShape'
    BY <1>3 DEF GateShape
<1>4. \A n \in Objects : windows[n] \in WindowObjects
    BY DEF Objects, Exists, WindowShape
<1>5. CASE UNCHANGED windowVars
    BY <1>2, <1>3, <1>5 DEF windowVars
<1>6. ASSUME NEW n \in WindowNames, NEW spec \in WindowSpecs, EditWindow(n, spec)
      PROVE  WindowShape' /\ GateShape'
    <2>1. PICK v : windows' = [windows EXCEPT ![n] = [spec |-> spec, version |-> v]] /\ v \in Nat
        <3> DEFINE next == IF Exists(n) THEN windows[n].version + 1 ELSE 1
        <3>1. windows' = [windows EXCEPT ![n] = [spec |-> spec, version |-> next]]
            BY <1>6, Zenon DEF EditWindow
        <3>2. next \in Nat
            BY DEF Exists, WindowShape, WindowObjects
        <3>3. QED BY <3>1, <3>2
    <2>2. QED BY <1>3, <1>6, <2>1 DEF EditWindow, WindowShape, WindowObjects
<1>7. ASSUME NEW n \in WindowNames, DeleteWindow(n) PROVE WindowShape' /\ GateShape'
    BY <1>3, <1>7 DEF DeleteWindow, WindowShape
<1>8. ASSUME NEW labels, GateList(labels) PROVE WindowShape' /\ GateShape'
    <2>1. {windows[n].spec : n \in Objects} \subseteq WindowSpecs
        BY <1>4 DEF WindowObjects
    <2>2. gate' = [phase |-> "listed", listed |-> {windows[n].spec : n \in Objects}, at |-> Never,
                   allowed |-> FALSE, labels |-> labels]
        BY <1>8 DEF GateList, NoGate
    <2> DEFINE specs == {windows[n].spec : n \in Objects}
    <2> HIDE DEF specs
    <2>3. GateShape'
        BY <2>1, <2>2 DEF GateShape, specs
    <2>4. QED BY <1>2, <1>8, <2>3 DEF GateList
<1>9. ASSUME GateAnswer(now) \/ GateRefuses(now) \/ GateDone PROVE WindowShape' /\ GateShape'
    <2>1. UNCHANGED <<windows, status, sweep>>
        BY <1>9 DEF GateAnswer, GateRefuses, GateDone
    <2>2. CASE GateAnswer(now)
        <3>1. gate' = [phase |-> "answered", listed |-> gate.listed, at |-> now,
                       allowed |-> AllowsRedOn(EvaluateAll(gate.listed, now), gate.labels),
                       labels |-> gate.labels]
            BY <2>2 DEF GateAnswer, GateShape
        <3>2. QED BY <1>2, <2>1, <3>1 DEF GateShape
    <2>3. CASE GateRefuses(now)
        <3>1. gate' = [phase |-> "answered", listed |-> {}, at |-> now, allowed |-> gate.allowed,
                       labels |-> gate.labels]
            BY <2>3 DEF GateRefuses, GateShape
        <3>2. QED BY <1>2, <2>1, <3>1 DEF GateShape
    <2>4. CASE GateDone
        BY <1>2, <2>1, <2>4 DEF GateDone, GateShape, NoGate
    <2>5. QED BY <1>9, <2>2, <2>3, <2>4
<1>10. ASSUME SweepList(now) PROVE WindowShape' /\ GateShape'
    <2>1. /\ sweep' = [left |-> Objects, listed |-> [n \in Objects |-> windows[n]], at |-> now]
          /\ UNCHANGED <<windows, status, gate>>
        BY <1>10 DEF SweepList
    <2>2. Objects \subseteq WindowNames
        BY DEF Objects
    <2>3. QED BY <1>1, <1>3, <1>4, <2>1, <2>2 DEF WindowShape
<1>11. ASSUME NEW n \in WindowNames, SweepWrite(n) PROVE WindowShape' /\ GateShape'
    <2>1. sweep' = NoSweep \/ sweep' = [left |-> sweep.left \ {n}, listed |-> sweep.listed, at |-> sweep.at]
        BY <1>11 DEF SweepWrite, WindowShape
    <2>2. status' \in [WindowNames -> BOOLEAN]
        <3>1. Evaluate(sweep.listed[n].spec, sweep.at).open \in BOOLEAN
            BY DEF Evaluate, Shut
        <3>2. QED BY <1>11, <3>1 DEF SweepWrite, WriteStatus, WindowShape
    <2>3. QED BY <1>3, <1>11, <2>1, <2>2 DEF SweepWrite, NoSweep, WindowShape
<1>12. QED
    BY <1>5, <1>6, <1>7, <1>8, <1>9, <1>10, <1>11, WindowQuiet
    DEF Administer, AskWindows, ReadWindows, windowVars
-----------------------------------------------------------------------------
(* Both shapes and the answer hold from the start and survive every step: an
   answer is computed from the list and the instant it is stored with. *)
LEMMA AnswersStep ==
    ASSUME AuthShape, GateShape, RedOnlyInWindow, [Next]_vars
    PROVE  RedOnlyInWindow'
<1>1. now \in Start..End
    BY DEF AuthShape
<1>2. CASE UNCHANGED gate
    BY <1>2 DEF RedOnlyInWindow, OpenAt, Valid
<1>3. ASSUME NEW labels, GateList(labels) PROVE RedOnlyInWindow'
    BY <1>3 DEF GateList, NoGate, RedOnlyInWindow
<1>4. CASE GateAnswer(now)
    <2>1. /\ gate'.phase = "answered" /\ gate'.at = now
          /\ gate'.listed = gate.listed /\ gate'.labels = gate.labels
          /\ gate'.allowed = AllowsRedOn(EvaluateAll(gate.listed, now), gate.labels)
        BY <1>4 DEF GateAnswer, GateShape
    <2>2. gate.listed \subseteq WindowSpecs
        BY DEF GateShape
    <2>3. gate'.allowed <=>
              \E w \in gate.listed : OpenAt(w, now) /\ w.allowRed /\ w.selector \subseteq gate.labels
        BY <1>1, <2>1, <2>2, AnswerIsRight
    <2>4. QED BY <2>1, <2>3 DEF RedOnlyInWindow
<1>5. CASE GateRefuses(now)
    <2>1. gate'.listed = {} /\ gate'.allowed = FALSE
        BY <1>5 DEF GateRefuses, GateShape
    <2>2. QED BY <2>1 DEF RedOnlyInWindow
<1>6. CASE GateDone
    BY <1>6 DEF GateDone, NoGate, RedOnlyInWindow
<1>7. QED
    BY <1>2, <1>3, <1>4, <1>5, <1>6, WindowQuiet
    DEF Administer, AskWindows, ReadWindows, windowVars, EditWindow, DeleteWindow, SweepList, SweepWrite

(* The windows are well formed and the answers right throughout. *)
LEMMA WindowsAlways == Spec => [](AuthShape /\ WindowShape /\ GateShape /\ RedOnlyInWindow)
<1>1. Init => WindowShape /\ GateShape /\ RedOnlyInWindow
    BY DEF Init, WindowInit, NoSweep, NoGate, WindowShape, GateShape, RedOnlyInWindow
<1>2. AuthShape /\ WindowShape /\ GateShape /\ RedOnlyInWindow /\ [Next]_vars
          => WindowShape' /\ GateShape' /\ RedOnlyInWindow'
    BY WindowShapeStep, AnswersStep
<1>3. QED BY <1>1, <1>2, AuthAlways, PTL DEF Spec

(* A Red step is let through exactly when some window, as read, is open over the
   node at the instant of the answer and permits Red: for any schedules, however
   they overlap, any durations, any selectors, and any edits racing the reading
   (window.go, Evaluate and AllowsRedOn). *)
THEOREM RedAlwaysInWindow == Spec => []RedOnlyInWindow
BY WindowsAlways, PTL

(* The status never turns to active but for the spec that stands there and was
   open at the instant the sweep looked, whatever was edited, deleted or created
   anew while the sweep was writing (reader.go, UpdateStatus). *)
THEOREM StatusAlwaysFromCurrentSpec == Spec => StatusFromCurrentSpec
<1> DEFINE Turns == \A n \in WindowNames :
              status'[n] /\ ~status[n] => Exists(n) /\ OpenAt(windows[n].spec, sweep.at)
<1>1. ASSUME WindowShape, [Next]_vars PROVE [Turns]_windowVars
    <2> SUFFICES ASSUME NEW n \in WindowNames, status'[n], ~status[n]
                 PROVE  Exists(n) /\ OpenAt(windows[n].spec, sweep.at)
        OBVIOUS
    <2> USE <1>1
    <2>1. PICK k \in WindowNames : SweepWrite(k)
        <3>1. ~UNCHANGED status
            OBVIOUS
        <3>2. ASSUME NEW k \in WindowNames, DeleteWindow(k) PROVE FALSE
            BY <3>2 DEF DeleteWindow, WindowShape
        <3>3. QED
            BY <3>1, <3>2, WindowQuiet DEF Administer, AskWindows, ReadWindows, windowVars, EditWindow,
                GateList, GateAnswer, GateRefuses, GateDone, SweepList
    <2>2. /\ k = n /\ windows[n] = sweep.listed[n] /\ n \in sweep.left
          /\ Evaluate(sweep.listed[n].spec, sweep.at).open
        BY <2>1 DEF SweepWrite, WriteStatus, WindowShape
    <2>3. sweep.listed[n] \in WindowObjects /\ sweep.at \in Start..End
        BY <2>2 DEF WindowShape
    <2>4. Exists(n)
        BY <2>2, <2>3, WindowAssumption DEF Exists, WindowObjects
    <2>5. sweep.listed[n].spec \in WindowSpecs
        BY <2>3 DEF WindowObjects
    <2>6. QED BY <2>2, <2>3, <2>4, <2>5, EvaluateIsOpenAt
<1>2. QED BY <1>1, WindowsAlways, PTL DEF Spec, StatusFromCurrentSpec
=============================================================================
