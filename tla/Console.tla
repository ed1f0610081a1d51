------------------------------- MODULE Console -------------------------------
(***************************************************************************)
(* The ui-backend as a whole: requests pass the middleware (module Auth)   *)
(* to the handlers; the handlers stream events or publish them (module     *)
(* Broker), a goroutine polls the plan store and publishes, and the        *)
(* maintenance windows (module Window) are read beside them. All share one *)
(* clock.                                                                  *)
(***************************************************************************)
EXTENDS Auth, Broker, Window

CONSTANTS
    Requests,       \* requests in flight at once; each may publish
    Poller,         \* the goroutine of PollStore; it publishes too
    Credentials,    \* what they carry: records [token, header]
    WindowSpecs, NodeLabels,
    AnswerDelay,    \* longest way of a review's answer to the cache, in ticks
    Start, End,     \* first and last tick
    MaxEvents       \* bound on arrivals, changes of plan, revocations, edits, sweeps

ASSUME PublishersAssumption == Publishers = Requests \cup {Poller}

ASSUME ClockAssumption ==
    /\ Start \in Nat /\ End \in Nat /\ Start <= End
    /\ AnswerDelay \in Nat /\ MaxEvents \in Nat
    /\ Credentials \subseteq [token : Tokens \cup {NoToken}, header : BOOLEAN]

(* No window is long enough to reach back to the zero time. *)
ASSUME WindowAssumption ==
    /\ Closed \notin [spec : WindowSpecs, version : Nat]
    /\ \A w \in WindowSpecs :
          /\ w.fires \subseteq Nat /\ w.allowRed \in BOOLEAN
          /\ Duration(w) \in Int
          /\ Never + Duration(w) <= Start

VARIABLES now, events,
    request,    \* slot -> [phase, cred, route, at]; held: history, see Arrived
    storedPlan, \* the latest plan in the store
    lastPlan    \* PollStore's lastID

consoleVars == <<now, events, request, storedPlan, lastPlan>>
vars == <<authVars, brokerVars, windowVars, consoleVars>>

Idle == [phase |-> "idle", cred |-> [token |-> NoToken, header |-> FALSE], route |-> "plans", at |-> 0,
         held |-> FALSE]
Routes == {"plans", "events", "execute"}
Permission(route) == IF route = "execute" THEN "execute" ELSE "read"

Init ==
    /\ AuthInit /\ BrokerInit /\ WindowInit
    /\ now = Start /\ events = 0
    /\ request = [q \in Requests |-> Idle]
    /\ storedPlan = 0 /\ lastPlan = 0

Event == events < MaxEvents /\ events' = events + 1
Goto(q, phase) == request' = [request EXCEPT ![q].phase = phase]
Answer(q) == request' = [request EXCEPT ![q] = Idle]
In(q, phase) == request[q].phase = phase

-----------------------------------------------------------------------------
(* The middleware. *)

(* Whether the caller holds the permission now: through a role binding, or, with
   no credentials, by the setting for reads. *)
Holds(cred, permission) ==
    IF UserOf(cred) = NoToken THEN config.anonymousRead /\ permission = "read"
    ELSE Allowed(UserOf(cred), permission)

Arrived(cred, route) ==
    [phase |-> FirstPhase(cred), cred |-> cred, route |-> route, at |-> now,
     held |-> Holds(cred, Permission(route))]

Arrive(q) ==
    /\ In(q, "idle") /\ Event
    /\ \E cred \in Credentials, route \in Routes :
          request' = [request EXCEPT ![q] = Arrived(cred, route)]
    /\ UNCHANGED <<authVars, brokerVars, windowVars, now, storedPlan, lastPlan>>

Anonymous(q) ==
    /\ In(q, "anonymous")
    /\ IF AnonymousMay(Permission(request[q].route)) THEN Goto(q, "allowed") ELSE Answer(q)
    /\ UNCHANGED <<authVars, brokerVars, windowVars, now, events, storedPlan, lastPlan>>

Lookup(q) ==
    LET t == request[q].cred.token
    IN  /\ In(q, "lookup")
        /\ cache' = AfterGet(t, now)
        /\ request' = [request EXCEPT ![q].phase = PhaseAfterGet(t, now), ![q].at = now]
        /\ UNCHANGED <<config, accepted, revokedAt, grants, brokerVars, windowVars, now, events, storedPlan, lastPlan>>

(* The API server answers: accepted, rejected (401), or not at all (500). *)
Review(q) ==
    /\ In(q, "review")
    /\ \/ Reviewed(request[q].cred.token) /\ request' = [request EXCEPT ![q].phase = "reviewed", ![q].at = now]
       \/ Answer(q)
    /\ UNCHANGED <<authVars, brokerVars, windowVars, now, events, storedPlan, lastPlan>>

(* The answer arrives and is cached from then on. *)
CachePut(q) ==
    /\ In(q, "reviewed")
    /\ cache' = AfterPut(request[q].cred.token, now)
    /\ request' = [request EXCEPT ![q].phase = "authorize", ![q].at = now]
    /\ UNCHANGED <<config, accepted, revokedAt, grants, brokerVars, windowVars, now, events, storedPlan, lastPlan>>

(* The access review answers: allowed; denied (403), or nothing (500). The
   handler starts later: the grant may be withdrawn in between. *)
Authorize(q) ==
    /\ In(q, "authorize")
    /\ \/ Allowed(UserOf(request[q].cred), Permission(request[q].route)) /\ Goto(q, "allowed")
       \/ Answer(q)
    /\ UNCHANGED <<authVars, brokerVars, windowVars, now, events, storedPlan, lastPlan>>

-----------------------------------------------------------------------------
(* The handlers and the poller. *)

Read(q) ==
    /\ In(q, "allowed") /\ request[q].route = "plans"
    /\ Answer(q)
    /\ UNCHANGED <<authVars, brokerVars, windowVars, now, events, storedPlan, lastPlan>>

(* The run is queued (module RunQueue), then published. *)
Execute(q) ==
    /\ In(q, "allowed") /\ request[q].route = "execute"
    /\ BeginPublish(q)
    /\ Goto(q, "publish")
    /\ UNCHANGED <<authVars, windowVars, now, events, storedPlan, lastPlan>>

Published(q) ==
    /\ In(q, "publish") /\ sending[q] = Quiet
    /\ Answer(q)
    /\ UNCHANGED <<authVars, brokerVars, windowVars, now, events, storedPlan, lastPlan>>

Connect(q, c) ==
    /\ In(q, "allowed") /\ request[q].route = "events"
    /\ Register(c)
    /\ Answer(q)
    /\ UNCHANGED <<authVars, windowVars, now, events, storedPlan, lastPlan>>

NewPlan ==
    /\ Event
    /\ storedPlan' = storedPlan + 1
    /\ UNCHANGED <<authVars, brokerVars, windowVars, now, request, lastPlan>>

(* PollStore: a plan id it has not seen is published. *)
Poll ==
    /\ Poller \notin panicked
    /\ storedPlan # lastPlan
    /\ BeginPublish(Poller)
    /\ lastPlan' = storedPlan
    /\ UNCHANGED <<authVars, windowVars, now, events, request, storedPlan>>

Fanout ==
    /\ \/ \E p \in Publishers : EndPublish(p) \/ \E c \in Streams : Send(p, c)
       \/ \E c \in Streams : Receive(c) \/ Unregister(c) \/ CloseChannel(c)
    /\ UNCHANGED <<authVars, windowVars, consoleVars>>

-----------------------------------------------------------------------------
(* Administrators, and the clock. *)

Administer ==
    /\ Event
    /\ \/ /\ \/ \E t \in Tokens : RevokeToken(t, now)
             \/ \E u \in Tokens \cup {ProxyUser}, p \in {"read", "execute"} : RevokeGrant(u, p)
          /\ UNCHANGED windowVars
       \/ /\ \E n \in WindowNames : DeleteWindow(n) \/ \E spec \in WindowSpecs : EditWindow(n, spec)
          /\ UNCHANGED authVars
    /\ UNCHANGED <<brokerVars, now, request, storedPlan, lastPlan>>

(* A Red step comes to the guard, or the sweep's timer fires; then they run. *)
AskWindows ==
    /\ Event
    /\ (\E labels \in NodeLabels : GateList(labels)) \/ SweepList(now)
    /\ UNCHANGED <<authVars, brokerVars, now, request, storedPlan, lastPlan>>

ReadWindows ==
    /\ GateAnswer(now) \/ GateRefuses(now) \/ GateDone \/ (\E n \in WindowNames : SweepWrite(n))
    /\ UNCHANGED <<authVars, brokerVars, consoleVars>>

Tick ==
    /\ now < End
    /\ \A q \in Requests : In(q, "reviewed") => now - request[q].at < AnswerDelay
    /\ now' = now + 1
    /\ UNCHANGED <<authVars, brokerVars, windowVars, events, request, storedPlan, lastPlan>>

Serve ==
    \E q \in Requests :
        \/ Arrive(q) \/ Anonymous(q) \/ Lookup(q) \/ Review(q) \/ CachePut(q) \/ Authorize(q)
        \/ Read(q) \/ Execute(q) \/ Published(q) \/ \E c \in Streams : Connect(q, c)

(* A panic on the poller's goroutine ends the process; one in a handler ends
   only its request. *)
Next ==
    /\ Poller \notin panicked
    /\ Serve \/ NewPlan \/ Poll \/ Fanout \/ Administer \/ AskWindows \/ ReadWindows \/ Tick

Spec == Init /\ [][Next]_vars

-----------------------------------------------------------------------------
(* Every variable holds a value of its kind; the cache and the channels keep
   to their limits. *)
TypeOK ==
    /\ now \in Start..End /\ events \in 0..MaxEvents
    /\ Cardinality(DOMAIN cache) <= MaxCachedTokens
    /\ \A q \in Requests : request[q].phase \in
          {"idle", "anonymous", "lookup", "review", "reviewed", "authorize", "allowed", "publish"}
    /\ \A c \in Streams : Len(stream[c].queue) <= ChannelSize
    /\ clients = {c \in Streams : stream[c].state = "open"}

(* A revoked token stops working: nobody is taken for its user later than a
   cache lifetime, and the way of one answer, after the revocation, whatever
   was under way when it was revoked (authenticator.go, tokenCache). *)
RevocationBites ==
    \A q \in Requests :
        LET t == request[q].cred.token
        IN  In(q, "authorize") /\ t \in Tokens \ accepted =>
                request[q].at < revokedAt[t] + AnswerDelay + TTL

(* A withdrawn permission stops working for whatever comes after (middleware.go,
   Require): a request that arrives while its caller does not hold the permission
   never gets to a handler, also when the identity is cached from before the
   withdrawal, and without credentials only reads do, where that is configured. *)
WithdrawnNeverHandled ==
    config.enabled => \A q \in Requests : In(q, "allowed") \/ In(q, "publish") => request[q].held
=============================================================================
