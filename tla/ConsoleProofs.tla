---------------------------- MODULE ConsoleProofs ----------------------------
(***************************************************************************)
(* The ui-backend for any number of requests, tokens, streams, windows and *)
(* ticks: what the token cache, the middleware, the event broker and the   *)
(* window reader guarantee.                                                *)
(***************************************************************************)
EXTENDS Console, FiniteSetTheorems, TLAPS

RequestPhases == {"idle", "anonymous", "lookup", "review", "reviewed", "authorize", "allowed", "publish"}
RequestRecords == [phase : RequestPhases, cred : [token : Tokens \cup {NoToken}, header : BOOLEAN],
                   route : Routes, at : Nat, held : BOOLEAN]

(* The middleware's state: who is in which phase. *)
AuthShape ==
    /\ now \in Start..End /\ events \in 0..MaxEvents
    /\ config \in Configs
    /\ request \in [Requests -> RequestRecords]
    /\ accepted \subseteq Tokens
    /\ revokedAt \in [Tokens -> Nat]
    /\ IsFiniteSet(DOMAIN cache) /\ Cardinality(DOMAIN cache) <= MaxCachedTokens
    /\ \A t \in DOMAIN cache : cache[t] \in Nat

(* Only a bearer token is looked up and reviewed; an anonymous caller stands
   for nobody and an identified one for somebody. *)
Identified ==
    \A q \in Requests :
        /\ request[q].phase \in {"lookup", "review", "reviewed"} => request[q].cred.token \in Tokens
        /\ request[q].phase = "anonymous" => UserOf(request[q].cred) = NoToken
        /\ request[q].phase = "authorize" => UserOf(request[q].cred) # NoToken

(* The last instant at which the token may still be taken for its user. *)
LastUse(t) == revokedAt[t] + AnswerDelay + TTL

(* A request in flight: an answer under way was given before the revocation
   and not long ago, and an identity that was established is not too old. *)
SlotBounded(q) ==
    LET t == request[q].cred.token
    IN  /\ request[q].at <= now
        /\ In(q, "reviewed") =>
              /\ now <= request[q].at + AnswerDelay
              /\ t \in accepted \/ request[q].at <= revokedAt[t]
        /\ In(q, "authorize") /\ t \in Tokens \ accepted => request[q].at < LastUse(t)

(* A cached answer is not kept beyond its time. *)
CacheBounded ==
    \A t \in Tokens \cap DOMAIN cache :
        cache[t] <= IF t \in accepted THEN now + TTL ELSE LastUse(t)

Bounded ==
    /\ \A t \in Tokens : revokedAt[t] <= now
    /\ CacheBounded
    /\ \A q \in Requests : SlotBounded(q)

-----------------------------------------------------------------------------
(* The token cache and the middleware. *)

(* What is neither a request's move, nor a revocation, nor the clock leaves the
   middleware alone. *)
LEMMA AuthQuiet ==
    ASSUME Next, ~Serve, ~Administer, ~Tick
    PROVE  UNCHANGED <<authVars, request, now>> /\ events' \in {events, events + 1}
           /\ (events' = events \/ events < MaxEvents)
BY DEF Next, NewPlan, Poll, Fanout, AskWindows, ReadWindows, consoleVars, Event

(* get only forgets. *)
LEMMA GetForgets ==
    ASSUME AuthShape, NEW t, cache' = AfterGet(t, now)
    PROVE  /\ DOMAIN cache' \subseteq DOMAIN cache
           /\ \A k \in DOMAIN cache' : cache'[k] = cache[k]
           /\ IsFiniteSet(DOMAIN cache') /\ Cardinality(DOMAIN cache') <= MaxCachedTokens
<1>1. /\ DOMAIN cache' \subseteq DOMAIN cache
      /\ \A k \in DOMAIN cache' : cache'[k] = cache[k]
    BY DEF AfterGet, Restrict
<1>2. IsFiniteSet(DOMAIN cache') /\ Cardinality(DOMAIN cache') <= Cardinality(DOMAIN cache)
    BY <1>1, FS_Subset DEF AuthShape
<1>3. Cardinality(DOMAIN cache') \in Nat /\ Cardinality(DOMAIN cache) \in Nat
    BY <1>2, FS_CardinalityType DEF AuthShape
<1>4. QED BY <1>1, <1>2, <1>3, CacheAssumption DEF AuthShape

(* put stores one answer, for one lifetime, and only where there is room. *)
LEMMA PutStoresOne ==
    ASSUME AuthShape, NEW t, cache' = AfterPut(t, now)
    PROVE  /\ DOMAIN cache' \subseteq DOMAIN cache \cup {t}
           /\ \A k \in DOMAIN cache' : \/ cache'[k] = cache[k] /\ k \in DOMAIN cache
                                       \/ cache'[k] = now + TTL /\ k = t
           /\ IsFiniteSet(DOMAIN cache') /\ Cardinality(DOMAIN cache') <= MaxCachedTokens
<1> DEFINE full == Cardinality(DOMAIN cache) >= MaxCachedTokens
           kept == IF full THEN Restrict(cache, {k \in DOMAIN cache : Fresh(k, now)}) ELSE cache
           stored == [k \in DOMAIN kept \cup {t} |-> IF k = t THEN now + TTL ELSE kept[k]]
<1>1. DOMAIN kept \subseteq DOMAIN cache /\ \A k \in DOMAIN kept : kept[k] = cache[k]
    BY DEF Restrict
<1>2. cache' = IF Cardinality(DOMAIN kept) >= MaxCachedTokens THEN kept ELSE stored
    BY DEF AfterPut
<1>3. DOMAIN stored = DOMAIN kept \cup {t}
    OBVIOUS
<1>4. \A k \in DOMAIN stored : stored[k] = IF k = t THEN now + TTL ELSE kept[k]
    OBVIOUS
<1> HIDE DEF kept, stored
<1>5. IsFiniteSet(DOMAIN kept) /\ Cardinality(DOMAIN kept) <= Cardinality(DOMAIN cache)
    BY <1>1, FS_Subset DEF AuthShape
<1>6. Cardinality(DOMAIN kept) \in Nat /\ Cardinality(DOMAIN cache) \in Nat
    BY <1>5, FS_CardinalityType DEF AuthShape
<1>7. CASE Cardinality(DOMAIN kept) >= MaxCachedTokens
    <2>1. cache' = kept
        BY <1>2, <1>7
    <2>2. Cardinality(DOMAIN kept) <= MaxCachedTokens
        BY <1>5, <1>6, CacheAssumption DEF AuthShape
    <2>3. QED BY <1>1, <1>5, <2>1, <2>2
<1>8. CASE Cardinality(DOMAIN kept) < MaxCachedTokens
    <2>1. IsFiniteSet(DOMAIN kept \cup {t})
          /\ Cardinality(DOMAIN kept \cup {t}) \in {Cardinality(DOMAIN kept), Cardinality(DOMAIN kept) + 1}
        BY <1>5, FS_AddElement
    <2>2. cache' = stored
        BY <1>2, <1>6, <1>8, CacheAssumption
    <2>3. Cardinality(DOMAIN kept \cup {t}) <= MaxCachedTokens
        BY <1>6, <1>8, <2>1, CacheAssumption
    <2>4. \A k \in DOMAIN cache' : \/ cache'[k] = cache[k] /\ k \in DOMAIN cache
                                   \/ cache'[k] = now + TTL /\ k = t
        BY <1>1, <1>3, <1>4, <2>2
    <2>5. QED BY <1>1, <1>3, <2>1, <2>2, <2>3, <2>4
<1>9. QED BY <1>6, <1>7, <1>8, CacheAssumption

(* The three ways a request slot is written. *)
LEMMA RequestTypes ==
    ASSUME request \in [Requests -> RequestRecords], now \in Nat, NEW q \in Requests,
           \/ request' = [request EXCEPT ![q] = Idle]
           \/ \E phase \in RequestPhases : request' = [request EXCEPT ![q].phase = phase]
           \/ \E phase \in RequestPhases : request' = [request EXCEPT ![q].phase = phase, ![q].at = now]
    PROVE  request' \in [Requests -> RequestRecords]
<1>1. CASE request' = [request EXCEPT ![q] = Idle]
    <2>1. Idle \in RequestRecords
        BY DEF Idle, RequestRecords, RequestPhases, Routes
    <2>2. QED BY <1>1, <2>1
<1>2. ASSUME NEW phase \in RequestPhases, request' = [request EXCEPT ![q].phase = phase]
      PROVE  request' \in [Requests -> RequestRecords]
    BY <1>2 DEF RequestRecords
<1>3. ASSUME NEW phase \in RequestPhases,
             request' = [request EXCEPT ![q].phase = phase, ![q].at = now]
      PROVE  request' \in [Requests -> RequestRecords]
    <2>1. request[q] \in RequestRecords
        OBVIOUS
    <2>2. [request[q] EXCEPT !.phase = phase, !.at = now] \in RequestRecords
        BY <2>1 DEF RequestRecords
    <2>3. request' = [request EXCEPT ![q] = [request[q] EXCEPT !.phase = phase, !.at = now]]
        BY <1>3, <2>1 DEF RequestRecords
    <2>4. QED BY <2>2, <2>3
<1>4. QED BY <1>1, <1>2, <1>3

(* The shapes are kept. *)
LEMMA AuthShapeStep ==
    ASSUME AuthShape, [Next]_vars
    PROVE  AuthShape'
<1> USE DEF authVars
<1>1. now \in Nat /\ request \in [Requests -> RequestRecords]
    BY ClockAssumption DEF AuthShape
<1>2. ASSUME request' \in [Requests -> RequestRecords], UNCHANGED <<authVars, now, events>>
      PROVE  AuthShape'
    BY <1>2 DEF AuthShape
<1>3. ASSUME NEW q \in Requests, Arrive(q) PROVE AuthShape'
    <2>1. PICK cred \in Credentials, route \in Routes :
              request' = [request EXCEPT ![q] = Arrived(cred, route)]
        BY <1>3 DEF Arrive
    <2>2. FirstPhase(cred) \in RequestPhases
        BY DEF FirstPhase, RequestPhases
    <2>3. Arrived(cred, route) \in RequestRecords
        <3>1. Holds(cred, Permission(route)) \in BOOLEAN
            <4> DEFINE user == UserOf(cred)
                       p == Permission(route)
            <4>1. CASE user = NoToken
                <5>1. Holds(cred, p) = (config.anonymousRead /\ p = "read")
                    BY <4>1 DEF Holds
                <5>2. QED BY <5>1
            <4>2. CASE user # NoToken
                <5>1. Holds(cred, p) = (<<user, p>> \in grants)
                    BY <4>2 DEF Holds, Allowed
                <5>2. QED BY <5>1
            <4>3. QED BY <4>1, <4>2
        <3>2. QED BY <1>1, <2>2, <3>1, ClockAssumption DEF RequestRecords, Arrived
    <2>4. request' \in [Requests -> RequestRecords]
        BY <1>1, <2>1, <2>3
    <2>5. QED BY <1>3, <2>4, ClockAssumption DEF Arrive, Event, AuthShape
<1>4. ASSUME NEW q \in Requests,
             \/ Anonymous(q) \/ Review(q) \/ Authorize(q) \/ Read(q) \/ Published(q) \/ Execute(q)
             \/ \E c \in Streams : Connect(q, c)
      PROVE  AuthShape'
    <2>1. \/ request' = [request EXCEPT ![q] = Idle]
          \/ \E phase \in RequestPhases : request' = [request EXCEPT ![q].phase = phase]
          \/ \E phase \in RequestPhases : request' = [request EXCEPT ![q].phase = phase, ![q].at = now]
        BY <1>4 DEF Anonymous, Review, Authorize, Read, Published, Execute, Connect, Answer, Goto,
            RequestPhases
    <2>2. request' \in [Requests -> RequestRecords]
        BY <1>1, <2>1, RequestTypes
    <2>3. UNCHANGED <<authVars, now, events>>
        BY <1>4 DEF Anonymous, Review, Authorize, Read, Published, Execute, Connect
    <2>4. QED BY <1>2, <2>2, <2>3
<1>5. ASSUME NEW q \in Requests, Lookup(q) \/ CachePut(q) PROVE AuthShape'
    <2>1. \E phase \in RequestPhases : request' = [request EXCEPT ![q].phase = phase, ![q].at = now]
        BY <1>5 DEF Lookup, PhaseAfterGet, CachePut, RequestPhases
    <2>2. request' \in [Requests -> RequestRecords]
        BY <1>1, <2>1, RequestTypes
    <2>3. /\ \A k \in DOMAIN cache' : cache'[k] \in Nat
          /\ IsFiniteSet(DOMAIN cache') /\ Cardinality(DOMAIN cache') <= MaxCachedTokens
        <3>1. CASE Lookup(q)
            BY <3>1, GetForgets DEF Lookup, AuthShape
        <3>2. CASE CachePut(q)
            <4>1. /\ \A k \in DOMAIN cache' : \/ cache'[k] = cache[k] /\ k \in DOMAIN cache
                                              \/ cache'[k] = now + TTL
                  /\ IsFiniteSet(DOMAIN cache') /\ Cardinality(DOMAIN cache') <= MaxCachedTokens
                BY <3>2, PutStoresOne DEF CachePut
            <4>2. \A k \in DOMAIN cache : cache[k] \in Nat
                BY DEF AuthShape
            <4>3. QED BY <1>1, <4>1, <4>2, CacheAssumption
        <3>3. QED BY <1>5, <3>1, <3>2
    <2>4. UNCHANGED <<config, accepted, revokedAt, now, events>>
        BY <1>5 DEF Lookup, CachePut
    <2>5. QED BY <2>2, <2>3, <2>4 DEF AuthShape
<1>6. CASE Administer
    BY <1>6, ClockAssumption DEF AuthShape, Administer, Event, RevokeToken, RevokeGrant
<1>7. CASE Tick
    BY <1>7, ClockAssumption DEF AuthShape, Tick
<1>8. CASE Next /\ ~Serve /\ ~Administer /\ ~Tick
    BY <1>8, AuthQuiet, ClockAssumption DEF AuthShape
<1>9. CASE UNCHANGED vars
    BY <1>9 DEF AuthShape, vars, consoleVars
<1>10. QED
    BY <1>3, <1>4, <1>5, <1>6, <1>7, <1>8, <1>9 DEF Serve

(* The middleware routes a request by what it carries, and its settings do not
   change under it. *)
LEMMA IdentifiedStep ==
    ASSUME AuthShape, Identified, [Next]_vars
    PROVE  Identified'
<1> USE UsersAssumption, ClockAssumption
<1>1. config' = config
    BY DEF Next, Serve, Arrive, Anonymous, Lookup, Review, CachePut, Authorize, Read, Execute,
        Published, Connect, NewPlan, Poll, Fanout, Administer, RevokeToken, RevokeGrant,
        AskWindows, ReadWindows, Tick, authVars, vars
<1>2. ASSUME UNCHANGED request PROVE Identified'
    BY <1>1, <1>2 DEF Identified, UserOf
<1>3. ASSUME NEW q \in Requests, Arrive(q) PROVE Identified'
    <2>1. PICK cred \in Credentials, route \in Routes :
              request' = [request EXCEPT ![q] = Arrived(cred, route)]
        BY <1>3 DEF Arrive
    <2>2. \A r \in Requests : r # q => request'[r] = request[r]
        BY <2>1 DEF AuthShape
    <2>3. request'[q].phase = FirstPhase(cred) /\ request'[q].cred = cred
        BY <2>1 DEF AuthShape, Arrived
    <2>4. cred.token \in Tokens \cup {NoToken} /\ cred.header \in BOOLEAN /\ config.proxy \in BOOLEAN
        BY DEF AuthShape
    <2>5. /\ FirstPhase(cred) \in {"lookup", "review", "reviewed"} => cred.token \in Tokens
          /\ FirstPhase(cred) = "anonymous" => UserOf(cred) = NoToken
          /\ FirstPhase(cred) = "authorize" => UserOf(cred) # NoToken
        BY <2>4 DEF FirstPhase, UserOf
    <2>6. QED BY <1>1, <2>2, <2>3, <2>5 DEF Identified, UserOf
<1>4. ASSUME NEW q \in Requests, request' = [request EXCEPT ![q] = Idle] PROVE Identified'
    BY <1>1, <1>4 DEF Identified, UserOf, AuthShape, Idle
<1>5. ASSUME NEW q \in Requests, NEW phase \in {"allowed", "publish"},
             request' = [request EXCEPT ![q].phase = phase]
      PROVE Identified'
    BY <1>1, <1>5 DEF Identified, UserOf, AuthShape, RequestRecords
<1>6. ASSUME NEW q \in Requests, request[q].phase \in {"lookup", "review", "reviewed"},
             NEW phase \in {"review", "reviewed", "authorize"},
             request' = [request EXCEPT ![q].phase = phase, ![q].at = now]
      PROVE Identified'
    BY <1>1, <1>6 DEF Identified, UserOf, AuthShape, RequestRecords
<1>7. ASSUME NEW q \in Requests, Lookup(q) \/ CachePut(q) \/ Review(q) PROVE Identified'
    BY <1>4, <1>6, <1>7 DEF Lookup, PhaseAfterGet, CachePut, Review, In, Answer
<1>8. ASSUME NEW q \in Requests,
             \/ Anonymous(q) \/ Authorize(q) \/ Read(q) \/ Published(q) \/ Execute(q)
             \/ \E c \in Streams : Connect(q, c)
      PROVE  Identified'
    BY <1>4, <1>5, <1>8 DEF Anonymous, Authorize, Read, Published, Execute, Connect, Answer, Goto
<1>9. CASE ~Serve
    <2>1. UNCHANGED request
        BY <1>9 DEF Next, NewPlan, Poll, Fanout, Administer, AskWindows, ReadWindows, Tick, vars,
            consoleVars
    <2>2. QED BY <1>2, <2>1
<1>10. QED BY <1>3, <1>7, <1>8, <1>9 DEF Serve

(* An answer is cached from the moment it arrives, and it was asked for before
   the revocation: so it is gone one way and one lifetime later. *)
LEMMA BoundedStep ==
    ASSUME AuthShape, Identified, Bounded, [Next]_vars
    PROVE  Bounded'
<1> USE ClockAssumption, CacheAssumption, UsersAssumption DEF In, LastUse
<1>1. /\ now \in Nat /\ revokedAt \in [Tokens -> Nat] /\ accepted \subseteq Tokens
      /\ request \in [Requests -> RequestRecords]
      /\ \A t \in DOMAIN cache : cache[t] \in Nat
    BY DEF AuthShape
<1>2. /\ \A t \in Tokens : revokedAt[t] <= now
      /\ CacheBounded
      /\ \A q \in Requests : SlotBounded(q)
    BY DEF Bounded
<1>3. /\ \A t \in Tokens : revokedAt[t] \in Nat
      /\ \A q \in Requests : request[q].at \in Nat
    BY <1>1 DEF RequestRecords
<1>4. SUFFICES /\ \A t \in Tokens : revokedAt'[t] <= now'
               /\ CacheBounded'
               /\ \A q \in Requests : SlotBounded(q)'
    BY <1>4 DEF Bounded
<1>5. ASSUME UNCHANGED <<authVars, now>>,
             NEW q \in Requests, SlotBounded(q)', \A r \in Requests : r # q => request'[r] = request[r]
      PROVE  /\ \A t \in Tokens : revokedAt'[t] <= now'
             /\ CacheBounded'
             /\ \A r \in Requests : SlotBounded(r)'
    BY <1>2, <1>5 DEF authVars, CacheBounded, SlotBounded
<1>6. ASSUME NEW q \in Requests, Arrive(q)
      PROVE  /\ \A t \in Tokens : revokedAt'[t] <= now'
             /\ CacheBounded'
             /\ \A r \in Requests : SlotBounded(r)'
    <2>1. PICK cred \in Credentials, route \in Routes :
              request' = [request EXCEPT ![q] = Arrived(cred, route)]
        BY <1>6 DEF Arrive
    <2>2. UNCHANGED <<authVars, now>>
        BY <1>6 DEF Arrive
    <2>3. /\ request'[q].phase = FirstPhase(cred) /\ request'[q].cred = cred /\ request'[q].at = now
          /\ \A r \in Requests : r # q => request'[r] = request[r]
        BY <1>1, <2>1 DEF Arrived
    <2>4. FirstPhase(cred) # "reviewed" /\ (FirstPhase(cred) = "authorize" => cred.token = NoToken)
        BY DEF FirstPhase
    <2>5. SlotBounded(q)'
        BY <1>1, <2>2, <2>3, <2>4 DEF SlotBounded
    <2>6. QED BY <1>5, <2>2, <2>3, <2>5
<1>7. ASSUME NEW q \in Requests,
             \/ request' = [request EXCEPT ![q] = Idle]
             \/ \E phase \in {"allowed", "publish"} : request' = [request EXCEPT ![q].phase = phase],
             UNCHANGED <<authVars, now>>
      PROVE  /\ \A t \in Tokens : revokedAt'[t] <= now'
             /\ CacheBounded'
             /\ \A r \in Requests : SlotBounded(r)'
    <2>1. /\ request'[q].phase \notin {"reviewed", "authorize"}
          /\ request'[q].at <= now
        <3>1. request[q] \in RequestRecords /\ request[q].at <= now
            BY <1>1, <1>2 DEF SlotBounded
        <3>2. CASE request' = [request EXCEPT ![q] = Idle]
            <4>1. request'[q] = Idle
                BY <1>1, <3>2
            <4>2. QED BY <1>1, <4>1 DEF Idle
        <3>3. ASSUME NEW phase \in {"allowed", "publish"}, request' = [request EXCEPT ![q].phase = phase]
              PROVE  request'[q].phase = phase /\ request'[q].at = request[q].at
            BY <1>1, <3>1, <3>3 DEF RequestRecords
        <3>4. QED BY <1>7, <3>1, <3>2, <3>3
    <2>2. \A r \in Requests : r # q => request'[r] = request[r]
        BY <1>1, <1>7
    <2>3. SlotBounded(q)'
        BY <1>7, <2>1 DEF SlotBounded
    <2>4. QED BY <1>5, <1>7, <2>2, <2>3
<1>8. ASSUME NEW q \in Requests,
             \/ Anonymous(q) \/ Authorize(q) \/ Read(q) \/ Published(q) \/ Execute(q)
             \/ \E c \in Streams : Connect(q, c)
      PROVE  /\ \A t \in Tokens : revokedAt'[t] <= now'
             /\ CacheBounded'
             /\ \A r \in Requests : SlotBounded(r)'
    BY <1>7, <1>8 DEF Anonymous, Authorize, Read, Published, Execute, Connect, Answer, Goto
<1>9. ASSUME NEW q \in Requests, Review(q)
      PROVE  /\ \A t \in Tokens : revokedAt'[t] <= now'
             /\ CacheBounded'
             /\ \A r \in Requests : SlotBounded(r)'
    <2>1. UNCHANGED <<authVars, now>>
        BY <1>9 DEF Review
    <2>2. CASE Answer(q)
        BY <1>7, <2>1, <2>2 DEF Answer
    <2>3. CASE /\ Reviewed(request[q].cred.token)
               /\ request' = [request EXCEPT ![q].phase = "reviewed", ![q].at = now]
        <3>1. /\ request'[q].phase = "reviewed" /\ request'[q].at = now
              /\ request'[q].cred = request[q].cred
              /\ \A r \in Requests : r # q => request'[r] = request[r]
            BY <1>1, <2>3 DEF RequestRecords
        <3>2. SlotBounded(q)'
            BY <1>1, <2>1, <2>3, <3>1 DEF SlotBounded, Reviewed, authVars
        <3>3. QED BY <1>5, <2>1, <3>1, <3>2
    <2>4. QED BY <1>9, <2>2, <2>3 DEF Review
<1>10. ASSUME NEW q \in Requests, Lookup(q)
       PROVE  /\ \A t \in Tokens : revokedAt'[t] <= now'
              /\ CacheBounded'
              /\ \A r \in Requests : SlotBounded(r)'
    <2> DEFINE t == request[q].cred.token
    <2>1. UNCHANGED <<accepted, revokedAt, now>> /\ t \in Tokens
        BY <1>10 DEF Lookup, Identified
    <2>2. CacheBounded'
        <3>1. /\ DOMAIN cache' \subseteq DOMAIN cache
              /\ \A k \in DOMAIN cache' : cache'[k] = cache[k]
            BY <1>10, GetForgets DEF Lookup
        <3>2. QED BY <1>2, <2>1, <3>1 DEF CacheBounded
    <2>3. /\ request'[q].phase = IF Hit(t, now) THEN "authorize" ELSE "review"
          /\ request'[q].at = now /\ request'[q].cred = request[q].cred
          /\ \A r \in Requests : r # q => request'[r] = request[r]
        BY <1>1, <1>10 DEF Lookup, PhaseAfterGet, RequestRecords
    <2>4. Hit(t, now) /\ t \notin accepted => now < LastUse(t)
        BY <1>1, <1>2, <1>3, <2>1 DEF Hit, Fresh, CacheBounded
    <2>5. SlotBounded(q)'
        BY <1>1, <2>1, <2>3, <2>4 DEF SlotBounded
    <2>6. \A r \in Requests : r # q => SlotBounded(r)'
        BY <1>2, <2>1, <2>3 DEF SlotBounded
    <2>7. QED BY <1>2, <2>1, <2>2, <2>5, <2>6
<1>11. ASSUME NEW q \in Requests, CachePut(q)
       PROVE  /\ \A t \in Tokens : revokedAt'[t] <= now'
              /\ CacheBounded'
              /\ \A r \in Requests : SlotBounded(r)'
    <2> DEFINE t == request[q].cred.token
    <2>1. UNCHANGED <<accepted, revokedAt, now>> /\ t \in Tokens
        BY <1>11 DEF CachePut, Identified
    <2>2. t \notin accepted => now <= revokedAt[t] + AnswerDelay
        BY <1>1, <1>2, <1>3, <1>11, <2>1 DEF CachePut, SlotBounded
    <2>3. CacheBounded'
        <3>1. \A k \in DOMAIN cache' : \/ cache'[k] = cache[k] /\ k \in DOMAIN cache
                                       \/ cache'[k] = now + TTL /\ k = t
            BY <1>11, PutStoresOne DEF CachePut
        <3>2. QED BY <1>1, <1>2, <1>3, <2>1, <2>2, <3>1 DEF CacheBounded
    <2>4. /\ request'[q].phase = "authorize"
          /\ request'[q].at = now /\ request'[q].cred = request[q].cred
          /\ \A r \in Requests : r # q => request'[r] = request[r]
        BY <1>1, <1>11 DEF CachePut, RequestRecords
    <2>5. SlotBounded(q)'
        BY <1>1, <1>3, <2>1, <2>2, <2>4 DEF SlotBounded
    <2>6. \A r \in Requests : r # q => SlotBounded(r)'
        BY <1>2, <2>1, <2>4 DEF SlotBounded
    <2>7. QED BY <1>2, <2>1, <2>3, <2>5, <2>6
<1>12. CASE Administer
    <2>1. UNCHANGED <<cache, now, request>>
        BY <1>12 DEF Administer, RevokeToken, RevokeGrant, authVars
    <2>2. CASE UNCHANGED <<accepted, revokedAt>>
        BY <1>2, <2>1, <2>2 DEF CacheBounded, SlotBounded
    <2>3. ASSUME NEW t \in Tokens, RevokeToken(t, now)
          PROVE  /\ \A u \in Tokens : revokedAt'[u] <= now'
                 /\ CacheBounded'
                 /\ \A r \in Requests : SlotBounded(r)'
        <3>1. /\ t \in accepted /\ accepted' = accepted \ {t}
              /\ revokedAt'[t] = now
              /\ \A u \in Tokens : u # t => revokedAt'[u] = revokedAt[u]
            BY <1>1, <2>3 DEF RevokeToken
        <3>2. CacheBounded'
            BY <1>1, <1>2, <1>3, <2>1, <3>1 DEF CacheBounded
        <3>3. ASSUME NEW r \in Requests PROVE SlotBounded(r)'
            <4>1. request[r].phase = "reviewed" => request[r].cred.token \in Tokens
                BY DEF Identified
            <4>2. request[r].at \in Nat /\ request[r].at <= now
                BY <1>2, <1>3 DEF SlotBounded
            <4>3. CASE request[r].cred.token = t
                BY <1>1, <1>2, <2>1, <3>1, <4>1, <4>2, <4>3 DEF SlotBounded
            <4>4. CASE request[r].cred.token # t
                BY <1>1, <1>2, <2>1, <3>1, <4>1, <4>2, <4>4 DEF SlotBounded
            <4>5. QED BY <4>3, <4>4
        <3>4. QED BY <1>1, <1>2, <2>1, <3>1, <3>2, <3>3
    <2>4. QED BY <1>12, <2>2, <2>3 DEF Administer, RevokeGrant, authVars
<1>13. CASE Tick
    <2>1. /\ now' = now + 1 /\ UNCHANGED <<accepted, revokedAt, cache, request>>
          /\ \A q \in Requests : In(q, "reviewed") => now - request[q].at < AnswerDelay
        BY <1>13 DEF Tick, authVars
    <2>2. CacheBounded'
        BY <1>1, <1>2, <1>3, <2>1 DEF CacheBounded
    <2>3. \A r \in Requests : SlotBounded(r)'
        BY <1>1, <1>2, <1>3, <2>1 DEF SlotBounded
    <2>4. QED BY <1>1, <1>2, <1>3, <2>1, <2>2, <2>3
<1>14. CASE (Next /\ ~Serve /\ ~Administer /\ ~Tick) \/ UNCHANGED vars
    <2>1. UNCHANGED <<accepted, revokedAt, cache, request, now>>
        BY <1>14, AuthQuiet DEF vars, authVars, consoleVars
    <2>2. QED BY <1>2, <2>1 DEF CacheBounded, SlotBounded
<1>15. QED
    BY <1>6, <1>8, <1>9, <1>10, <1>11, <1>12, <1>13, <1>14 DEF Serve

(* The middleware starts empty. *)
LEMMA AuthInitially == Init => AuthShape /\ Identified /\ Bounded
<1> SUFFICES ASSUME Init PROVE AuthShape /\ Identified /\ Bounded
    OBVIOUS
<1> USE ClockAssumption, CacheAssumption, UsersAssumption DEF Init, AuthInit
<1>1. DOMAIN cache = {}
    OBVIOUS
<1>2. IsFiniteSet(DOMAIN cache) /\ Cardinality(DOMAIN cache) = 0
    BY <1>1, FS_EmptySet
<1>3. Idle \in RequestRecords
    BY DEF Idle, RequestRecords, RequestPhases, Routes
<1>4. AuthShape
    BY <1>1, <1>2, <1>3 DEF AuthShape
<1>5. Identified
    BY DEF Identified, Idle
<1>6. Bounded
    BY <1>1 DEF Bounded, CacheBounded, SlotBounded, Idle, In
<1>7. QED BY <1>4, <1>5, <1>6

(* All of it holds throughout. *)
LEMMA AuthAlways == Spec => [](AuthShape /\ Identified /\ Bounded)
<1>1. AuthShape /\ Identified /\ Bounded /\ [Next]_vars => AuthShape' /\ Identified' /\ Bounded'
    BY AuthShapeStep, IdentifiedStep, BoundedStep
<1>2. QED BY <1>1, AuthInitially, PTL DEF Spec

(* A revoked token is taken for its user no later than one way of an answer and
   one cache lifetime after the revocation, for any number of requests racing
   the revocation and any size of the cache (authenticator.go, tokenCache). *)
THEOREM RevocationAlwaysBites == Spec => []RevocationBites
<1>1. Bounded => RevocationBites
    BY DEF Bounded, SlotBounded, RevocationBites, LastUse
<1>2. QED BY <1>1, AuthAlways, PTL

(* Whoever holds the permission now held it on arrival, for permissions are only
   withdrawn; and whoever was let in held it. *)
Entitled(q) ==
    /\ request[q].phase # "idle" /\ Holds(request[q].cred, Permission(request[q].route)) => request[q].held
    /\ config.enabled /\ request[q].phase \in {"allowed", "publish"} => request[q].held

(* A grant held after a step was held before it, and the settings stay. *)
LEMMA GrantsShrink ==
    ASSUME [Next]_vars
    PROVE  config' = config /\ grants' \subseteq grants
BY DEF Next, Serve, Arrive, Anonymous, Lookup, Review, CachePut, Authorize, Read, Execute,
    Published, Connect, NewPlan, Poll, Fanout, Administer, RevokeToken, RevokeGrant,
    AskWindows, ReadWindows, Tick, authVars, vars

(* What one request does to its slot: it arrives, is let in, goes on publishing,
   is answered, or is still being asked about. *)
LEMMA SlotMoves ==
    ASSUME AuthShape, Next, NEW q \in Requests, request'[q] # request[q]
    PROVE  \/ \E cred \in Credentials, route \in Routes : request'[q] = Arrived(cred, route)
           \/ request'[q] = Idle
           \/ /\ request[q].phase # "idle"
              /\ request'[q].cred = request[q].cred /\ request'[q].route = request[q].route
              /\ request'[q].held = request[q].held
              /\ \/ request'[q].phase \in {"review", "reviewed", "authorize"}
                 \/ request'[q].phase = "publish" /\ request[q].phase = "allowed"
                 \/ request'[q].phase = "allowed" /\ (Anonymous(q) \/ Authorize(q))
<1>1. request \in [Requests -> RequestRecords]
    BY DEF AuthShape
<1>2. PICK r \in Requests :
          \/ Arrive(r) \/ Anonymous(r) \/ Lookup(r) \/ Review(r) \/ CachePut(r) \/ Authorize(r)
          \/ Read(r) \/ Execute(r) \/ Published(r) \/ \E c \in Streams : Connect(r, c)
    BY DEF Next, Serve, NewPlan, Poll, Fanout, Administer, AskWindows, ReadWindows, Tick, consoleVars
<1>3. r = q
    <2>1. \/ \E x : request' = [request EXCEPT ![r] = x]
          \/ \E x : request' = [request EXCEPT ![r].phase = x]
          \/ \E x, y : request' = [request EXCEPT ![r].phase = x, ![r].at = y]
        BY <1>2 DEF Arrive, Anonymous, Lookup, Review, CachePut, Authorize, Read, Execute,
            Published, Connect, Answer, Goto
    <2>2. r # q => request'[q] = request[q]
        BY <1>1, <2>1
    <2>3. QED BY <2>2
<1>4. CASE Arrive(q)
    BY <1>1, <1>4 DEF Arrive
<1>5. CASE request' = [request EXCEPT ![q] = Idle]
    BY <1>1, <1>5
<1>6. ASSUME request[q].phase # "idle", NEW x, request' = [request EXCEPT ![q].phase = x],
             \/ x = "publish" /\ request[q].phase = "allowed"
             \/ x = "allowed" /\ (Anonymous(q) \/ Authorize(q))
      PROVE  /\ request'[q].cred = request[q].cred /\ request'[q].route = request[q].route
             /\ request'[q].held = request[q].held
             /\ \/ request'[q].phase = "publish" /\ request[q].phase = "allowed"
                \/ request'[q].phase = "allowed" /\ (Anonymous(q) \/ Authorize(q))
    <2>1. /\ request'[q].cred = request[q].cred /\ request'[q].route = request[q].route
          /\ request'[q].held = request[q].held /\ request'[q].phase = x
        BY <1>1, <1>6 DEF RequestRecords
    <2>2. QED BY <1>6, <2>1, Zenon
<1>7. CASE Anonymous(q) \/ Authorize(q) \/ Execute(q)
    <2>1. request[q].phase # "idle"
        BY <1>7 DEF Anonymous, Authorize, Execute, In
    <2>2. \/ request' = [request EXCEPT ![q] = Idle]
          \/ /\ request' = [request EXCEPT ![q].phase = "publish"]
             /\ request[q].phase = "allowed"
          \/ /\ request' = [request EXCEPT ![q].phase = "allowed"]
             /\ Anonymous(q) \/ Authorize(q)
        BY <1>7 DEF Anonymous, Authorize, Execute, Goto, Answer, In
    <2>3. QED BY <1>5, <1>6, <2>1, <2>2
<1>8. CASE Lookup(q) \/ Review(q) \/ CachePut(q)
    <2>1. \/ request' = [request EXCEPT ![q] = Idle]
          \/ \E x \in {"authorize", "review", "reviewed"} :
                request' = [request EXCEPT ![q].phase = x, ![q].at = now]
        BY <1>8 DEF Lookup, PhaseAfterGet, Review, CachePut, Answer
    <2>2. request[q].phase # "idle"
        BY <1>8 DEF Lookup, Review, CachePut, In
    <2>3. ASSUME NEW x \in {"authorize", "review", "reviewed"},
                 request' = [request EXCEPT ![q].phase = x, ![q].at = now]
          PROVE  /\ request'[q].cred = request[q].cred /\ request'[q].route = request[q].route
                 /\ request'[q].held = request[q].held /\ request'[q].phase = x
        BY <1>1, <2>3 DEF RequestRecords
    <2>4. QED BY <1>5, <2>1, <2>2, <2>3
<1>9. CASE Read(q) \/ Published(q) \/ \E c \in Streams : Connect(q, c)
    BY <1>5, <1>9 DEF Read, Published, Connect, Answer
<1>10. QED BY <1>2, <1>3, <1>4, <1>7, <1>8, <1>9

(* Every step keeps it. *)
LEMMA EntitledStep ==
    ASSUME AuthShape, Identified, [Next]_vars, NEW q \in Requests, Entitled(q)
    PROVE  Entitled(q)'
<1>1. config' = config /\ grants' \subseteq grants
    BY GrantsShrink
<1>2. ASSUME NEW cred, NEW p, Holds(cred, p)' PROVE Holds(cred, p)
    BY <1>1, <1>2 DEF Holds, UserOf, Allowed
<1>3. ASSUME NEW cred \in Credentials, NEW route \in Routes, request'[q] = Arrived(cred, route)
      PROVE  Entitled(q)'
    <2> DEFINE held == Holds(cred, Permission(route))
    <2>1. /\ request'[q].phase = FirstPhase(cred) /\ request'[q].cred = cred
          /\ request'[q].route = route /\ request'[q].held = held
        BY <1>3 DEF Arrived
    <2>2. config.enabled => FirstPhase(cred) \notin {"allowed", "publish"}
        BY DEF FirstPhase
    <2>3. Holds(cred, Permission(route))' => held
        BY <1>2 DEF Permission
    <2> HIDE DEF held
    <2>4. Holds(request[q].cred, Permission(request[q].route))' => Holds(cred, Permission(route))'
        BY <2>1 DEF Holds, UserOf, Allowed, Permission
    <2>5. QED BY <1>1, <2>1, <2>2, <2>3, <2>4, Zenon DEF Entitled
<1>4. ASSUME request'[q].cred = request[q].cred, request'[q].route = request[q].route,
             request'[q].held = request[q].held, request[q].phase # "idle"
      PROVE  /\ Holds(request[q].cred, Permission(request[q].route))' =>
                    Holds(request[q].cred, Permission(request[q].route))
             /\ Holds(request[q].cred, Permission(request[q].route))' => request'[q].held
    <2>1. Holds(request[q].cred, Permission(request[q].route))' =>
              Holds(request[q].cred, Permission(request[q].route))
        BY <1>1, <1>4 DEF Holds, UserOf, Allowed, Permission
    <2>2. QED BY <1>4, <2>1, Zenon DEF Entitled
<1>5. CASE request'[q] = request[q]
    <2>1. CASE request[q].phase = "idle"
        <3>1. request'[q].phase = "idle"
            BY <1>5, <2>1
        <3>2. QED BY <3>1 DEF Entitled
    <2>2. CASE request[q].phase # "idle"
        <3>1. Holds(request[q].cred, Permission(request[q].route))' => request'[q].held
            BY <1>4, <1>5, <2>2
        <3>2. QED BY <1>1, <1>5, <3>1, Zenon DEF Entitled
    <2>3. QED BY <2>1, <2>2
<1>6. CASE request'[q] = Idle
    <2>1. request'[q].phase = "idle"
        BY <1>6 DEF Idle
    <2>2. QED BY <2>1 DEF Entitled
<1>7. ASSUME request[q].phase # "idle",
             request'[q].cred = request[q].cred, request'[q].route = request[q].route,
             request'[q].held = request[q].held,
             \/ request'[q].phase \in {"review", "reviewed", "authorize"}
             \/ request'[q].phase = "publish" /\ request[q].phase = "allowed"
             \/ request'[q].phase = "allowed" /\ (Anonymous(q) \/ Authorize(q))
      PROVE  Entitled(q)'
    <2>1. Holds(request[q].cred, Permission(request[q].route))' => request'[q].held
        BY <1>4, <1>7
    <2>2. config.enabled /\ request'[q].phase \in {"allowed", "publish"} => request'[q].held
        <3>1. CASE request'[q].phase \in {"review", "reviewed", "authorize"}
            BY <3>1
        <3>2. CASE request'[q].phase = "publish" /\ request[q].phase = "allowed"
            <4>1. config.enabled => request[q].held
                BY <3>2 DEF Entitled
            <4>2. QED BY <1>7, <4>1, Zenon
        <3>3. CASE request'[q].phase = "allowed" /\ (Anonymous(q) \/ Authorize(q))
            <4>1. request' # [request EXCEPT ![q] = Idle]
                BY <3>3 DEF Idle, AuthShape
            <4>2. Holds(request[q].cred, Permission(request[q].route))
                <5>1. CASE Anonymous(q)
                    BY <4>1, <5>1 DEF Anonymous, Answer, AnonymousMay, Holds, Identified, In
                <5>2. CASE Authorize(q)
                    BY <4>1, <5>2 DEF Authorize, Answer, Holds, Identified, In
                <5>3. QED BY <3>3, <5>1, <5>2
            <4>3. request[q].held
                BY <1>7, <4>2 DEF Entitled
            <4>4. QED BY <1>7, <4>3, Zenon
        <3>4. QED BY <1>7, <3>1, <3>2, <3>3
    <2>3. QED BY <1>1, <2>1, <2>2, Zenon DEF Entitled
<1>8. CASE UNCHANGED vars
    BY <1>5, <1>8 DEF vars, consoleVars
<1>9. QED BY <1>3, <1>5, <1>6, <1>7, <1>8, SlotMoves

(* A withdrawn permission stops working for every request that arrives after the
   withdrawal, whatever identity is cached, for any number of users, requests and
   withdrawals (middleware.go, Require). *)
THEOREM WithdrawnAlwaysStops == Spec => []WithdrawnNeverHandled
<1> DEFINE AllEntitled == \A q \in Requests : Entitled(q)
<1>1. Init => AllEntitled
    BY DEF Init, Entitled, Idle
<1>2. AuthShape /\ Identified /\ AllEntitled /\ [Next]_vars => AllEntitled'
    BY EntitledStep
<1>3. AllEntitled => WithdrawnNeverHandled
    BY DEF Entitled, WithdrawnNeverHandled, In
<1> HIDE DEF AllEntitled
<1>4. QED BY <1>1, <1>2, <1>3, AuthAlways, PTL DEF Spec
=============================================================================
