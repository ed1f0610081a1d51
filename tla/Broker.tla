------------------------------- MODULE Broker -------------------------------
(***************************************************************************)
(* internal/api/rest/events.go: events fanned out to connected browsers.   *)
(* Every stream has a channel of its own; any number of goroutines (the    *)
(* poller, the handlers that queue runs) publish at once. A publisher      *)
(* copies the client list under the lock and sends after it has released   *)
(* it. Events are numbered in the order Publish takes the lock.            *)
(***************************************************************************)
EXTENDS Naturals, Sequences, FiniteSets, SequencesExt

CONSTANTS
    Streams,        \* connections, each used once
    Publishers,     \* goroutines that publish
    ChannelSize     \* 8

ASSUME ChannelSizeAssumption == ChannelSize \in Nat \ {0}

VARIABLES
    stream,     \* connection -> [state, queue, shown]
    clients,    \* b.clients
    lastEvent,  \* b.lastEvent, 0 for nil
    sending,    \* publisher -> event and the channels it still has to send to
    dropped,    \* stream -> events skipped because its channel was full
    panicked    \* publishers that have sent on a closed channel

brokerVars == <<stream, clients, lastEvent, sending, dropped, panicked>>

Unused == [state |-> "unused", queue |-> <<>>, shown |-> <<>>]
Quiet  == [event |-> 0, targets |-> {}]

BrokerInit ==
    /\ stream = [c \in Streams |-> Unused]
    /\ clients = {} /\ lastEvent = 0
    /\ sending = [p \in Publishers |-> Quiet]
    /\ dropped = [c \in Streams |-> {}]
    /\ panicked = {}

-----------------------------------------------------------------------------
(* Publish, under the lock: remember the event, copy the list. *)
BeginPublish(p) ==
    /\ sending[p] = Quiet
    /\ lastEvent' = lastEvent + 1
    /\ sending' = [sending EXCEPT ![p] = [event |-> lastEvent + 1, targets |-> clients]]
    /\ UNCHANGED <<stream, clients, dropped, panicked>>

(* Publish, after the lock. A full channel is skipped; a closed one panics,
   which ends the publisher: the select has a default, but sending on a closed
   channel is not a case that is not ready. *)
Send(p, c) ==
    /\ c \in sending[p].targets
    /\ IF stream[c].state = "closed"
       THEN /\ panicked' = panicked \cup {p}
            /\ sending' = [sending EXCEPT ![p] = Quiet]
            /\ UNCHANGED <<stream, dropped>>
       ELSE /\ sending' = [sending EXCEPT ![p] = IF @.targets = {c} THEN Quiet
                                                ELSE [event |-> @.event, targets |-> @.targets \ {c}]]
            /\ IF Len(stream[c].queue) < ChannelSize
               THEN stream' = [stream EXCEPT ![c].queue = Append(@, sending[p].event)] /\ UNCHANGED dropped
               ELSE dropped' = [dropped EXCEPT ![c] = @ \cup {sending[p].event}] /\ UNCHANGED stream
            /\ UNCHANGED panicked
    /\ UNCHANGED <<clients, lastEvent>>

(* Nobody is connected. *)
EndPublish(p) ==
    /\ sending[p] # Quiet /\ sending[p].targets = {}
    /\ sending' = [sending EXCEPT ![p] = Quiet]
    /\ UNCHANGED <<stream, clients, lastEvent, dropped, panicked>>

(* Seeded fault: the current state is not sent to a new client. *)
GreetingNone == <<>>

(* The current state goes out at once. *)
Greeting == IF lastEvent = 0 THEN <<>> ELSE <<lastEvent>>

(* ServeHTTP: join and read lastEvent under one lock, then write it. *)
Register(c) ==
    /\ stream[c].state = "unused"
    /\ clients' = clients \cup {c}
    /\ stream' = [stream EXCEPT ![c].state = "open", ![c].shown = Greeting]
    /\ UNCHANGED <<lastEvent, sending, dropped, panicked>>

(* The loop takes an event from the channel and writes it out. *)
Receive(c) ==
    /\ stream[c].state = "open" /\ stream[c].queue # <<>>
    /\ stream' = [stream EXCEPT ![c].queue = Tail(@), ![c].shown = Append(@, Head(stream[c].queue))]
    /\ UNCHANGED <<clients, lastEvent, sending, dropped, panicked>>

(* The client goes away, or a write fails: the deferred function leaves the
   list under the lock and closes the channel after it. *)
Unregister(c) ==
    /\ stream[c].state = "open"
    /\ clients' = clients \ {c}
    /\ stream' = [stream EXCEPT ![c].state = "leaving"]
    /\ UNCHANGED <<lastEvent, sending, dropped, panicked>>

CloseChannel(c) ==
    /\ stream[c].state = "leaving"
    /\ stream' = [stream EXCEPT ![c].state = "closed"]
    /\ UNCHANGED <<clients, lastEvent, sending, dropped, panicked>>

-----------------------------------------------------------------------------
OnItsWay(c) == {sending[p].event : p \in {q \in Publishers : c \in sending[q].targets}}
Reached(c) == stream[c].shown \o stream[c].queue

(* A connected browser is never left without the newest event, and never given
   one twice: it has been shown it, has it queued, is about to be sent it, or
   its channel was full; whoever connects or publishes in between. A publisher
   that has panicked (PublishNeverPanics) leaves its event unsent
   (events.go, Publish and ServeHTTP). *)
NewestReachesEveryone ==
    panicked = {} => \A c \in clients :
        /\ lastEvent \in {0} \cup ToSet(Reached(c)) \cup OnItsWay(c) \cup dropped[c]
        /\ Cardinality(ToSet(Reached(c))) = Len(Reached(c))

(* Publish delivers to every connected client and never fails: no publisher
   dies of a client that is leaving (events.go:36 and 50). *)
PublishNeverPanics == panicked = {}
=============================================================================
