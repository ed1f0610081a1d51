---------------------------- MODULE BrokerProofs ----------------------------
(***************************************************************************)
(* The event broker for any number of browsers, publishers and events, and *)
(* channels of any size: no event is lost but to a full channel, and none  *)
(* is shown twice.                                                         *)
(***************************************************************************)
EXTENDS ConsoleProofs, FunctionTheorems, SequenceTheorems

StreamRecords == [state : {"unused", "open", "leaving", "closed"}, queue : Seq(Nat), shown : Seq(Nat)]

(* The list is that of the open connections; a channel keeps to its size and is
   made with its connection. *)
BrokerShape ==
    /\ stream \in [Streams -> StreamRecords]
    /\ sending \in [Publishers -> [event : Nat, targets : SUBSET Streams]]
    /\ dropped \in [Streams -> SUBSET Nat]
    /\ lastEvent \in Nat
    /\ clients = {c \in Streams : stream[c].state = "open"}
    /\ \A c \in Streams : /\ Len(stream[c].queue) <= ChannelSize
                          /\ stream[c].state = "unused" => Reached(c) = <<>> /\ stream[c].queue = <<>>
    /\ \A p \in Publishers : \A c \in sending[p].targets : stream[c].state # "unused"

(* Nothing is published twice, so a browser never has what is still on its way
   to it. *)
Pending(p, c) == c \in sending[p].targets

OncePending ==
    \A p \in Publishers :
        /\ sending[p].event <= lastEvent
        /\ \A c \in sending[p].targets : sending[p].event \notin ToSet(Reached(c))
        /\ \A q \in Publishers, c \in Streams :
              Pending(p, c) /\ Pending(q, c) /\ sending[p].event = sending[q].event => p = q

OnceReached ==
    \A c \in Streams :
        /\ \A e \in ToSet(Reached(c)) : e <= lastEvent
        /\ \A i, j \in 1..Len(Reached(c)) : Reached(c)[i] = Reached(c)[j] => i = j

(* The newest event is accounted for at every browser. *)
Delivered ==
    panicked = {} => \A c \in clients :
        lastEvent \in {0} \cup ToSet(Reached(c)) \cup OnItsWay(c) \cup dropped[c]

-----------------------------------------------------------------------------
(* Sequences of events. *)

(* Sending on a channel adds to the end of what reaches the browser. *)
LEMMA ConcatAppend ==
    ASSUME NEW s \in Seq(Nat), NEW q \in Seq(Nat), NEW e \in Nat
    PROVE  s \o Append(q, e) = Append(s \o q, e)
<1>1. <<e>> \in Seq(Nat)
    OBVIOUS
<1>2. (s \o q) \o <<e>> = s \o (q \o <<e>>)
    BY <1>1, ConcatAssociative
<1>3. Append(q, e) = q \o <<e>>
    BY AppendIsConcat
<1>4. s \o q \in Seq(Nat)
    BY ConcatProperties
<1>5. Append(s \o q, e) = (s \o q) \o <<e>>
    BY <1>4, AppendIsConcat
<1>6. QED BY <1>2, <1>3, <1>5

(* Showing the first queued event changes nothing of what reached the browser. *)
LEMMA ConcatShift ==
    ASSUME NEW s \in Seq(Nat), NEW q \in Seq(Nat), q # <<>>
    PROVE  Append(s, Head(q)) \o Tail(q) = s \o q
<1> DEFINE h == Head(q)
           t == Tail(q)
<1>1. h \in Nat /\ t \in Seq(Nat) /\ <<h>> \in Seq(Nat)
    BY HeadTailProperties
<1>2. q = <<h>> \o t
    <2>1. Len(q) \in Nat \ {0} /\ Len(t) = Len(q) - 1 /\ \A i \in 1..Len(t) : t[i] = q[i + 1]
        BY HeadTailProperties, EmptySeq
    <2>2. h = q[1]
        OBVIOUS
    <2>3. /\ <<h>> \o t \in Seq(Nat)
          /\ Len(<<h>> \o t) = 1 + Len(t)
          /\ \A i \in 1..(1 + Len(t)) : (<<h>> \o t)[i] = IF i <= 1 THEN <<h>>[i] ELSE t[i - 1]
        BY <1>1, ConcatProperties
    <2> HIDE DEF h, t
    <2>4. ASSUME NEW i \in 1..Len(q) PROVE q[i] = (<<h>> \o t)[i]
        BY <2>1, <2>2, <2>3
    <2>5. Len(q) = Len(<<h>> \o t)
        BY <2>1, <2>3
    <2>6. QED BY <2>3, <2>4, <2>5, SeqEqual, Zenon
<1> HIDE DEF h, t
<1>3. Append(s, h) = s \o <<h>>
    BY <1>1, AppendIsConcat
<1>4. (s \o <<h>>) \o t = s \o (<<h>> \o t)
    BY <1>1, ConcatAssociative, SMTT(30)
<1>5. Append(s, h) \o t = s \o q
    BY <1>2, <1>3, <1>4, Zenon
<1>6. QED BY <1>5 DEF h, t

(* What a longer sequence holds. *)
LEMMA SetOfAppend ==
    ASSUME NEW s \in Seq(Nat), NEW e \in Nat
    PROVE  ToSet(Append(s, e)) = ToSet(s) \cup {e}
<1>1. /\ Len(s) \in Nat /\ DOMAIN s = 1..Len(s)
      /\ DOMAIN Append(s, e) = 1..(Len(s) + 1)
      /\ \A i \in 1..Len(s) : Append(s, e)[i] = s[i]
      /\ Append(s, e)[Len(s) + 1] = e
    BY LenProperties, AppendProperties
<1> DEFINE a == Append(s, e)
<1> HIDE DEF a
<1>2. QED BY <1>1 DEF ToSet, a

(* A new event keeps the events distinct. *)
LEMMA AppendDistinct ==
    ASSUME NEW s \in Seq(Nat), NEW e \in Nat, e \notin ToSet(s),
           \A i, j \in 1..Len(s) : s[i] = s[j] => i = j
    PROVE  \A i, j \in 1..Len(Append(s, e)) : Append(s, e)[i] = Append(s, e)[j] => i = j
<1>1. /\ Len(s) \in Nat /\ DOMAIN s = 1..Len(s)
      /\ Len(Append(s, e)) = Len(s) + 1
      /\ \A i \in 1..Len(s) : Append(s, e)[i] = s[i]
      /\ Append(s, e)[Len(s) + 1] = e
    BY LenProperties, AppendProperties
<1>2. \A i \in 1..Len(s) : s[i] # e
    BY <1>1 DEF ToSet
<1> DEFINE a == Append(s, e)
<1> HIDE DEF a
<1>3. QED BY <1>1, <1>2 DEF a

(* Distinct events are as many as the sequence is long. *)
LEMMA DistinctCount ==
    ASSUME NEW s \in Seq(Nat), \A i, j \in 1..Len(s) : s[i] = s[j] => i = j
    PROVE  Cardinality(ToSet(s)) = Len(s)
<1>1. Len(s) \in Nat /\ s \in [1..Len(s) -> Nat] /\ DOMAIN s = 1..Len(s)
    BY LenProperties
<1>2. s \in [1..Len(s) -> ToSet(s)]
    BY <1>1 DEF ToSet
<1>3. s \in Bijection(1..Len(s), ToSet(s))
    BY <1>1, <1>2 DEF ToSet, Bijection, Injection, Surjection, IsInjective
<1>4. ExistsBijection(1..Len(s), ToSet(s))
    BY <1>3 DEF ExistsBijection
<1>5. QED BY <1>1, <1>4, FS_CountingElements
-----------------------------------------------------------------------------
(* The broker is only touched by its own operations. *)
BrokerMove ==
    \/ \E p \in Publishers : BeginPublish(p) \/ EndPublish(p) \/ \E c \in Streams : Send(p, c)
    \/ \E c \in Streams : Register(c) \/ Receive(c) \/ Unregister(c) \/ CloseChannel(c)

(* Requests, tokens, windows and the clock leave the broker alone. *)
LEMMA BrokerQuiet ==
    ASSUME [Next]_vars
    PROVE  BrokerMove \/ UNCHANGED brokerVars
<1>1. CASE UNCHANGED vars
    BY <1>1 DEF vars
<1>2. CASE Serve
    <2>1. PICK q \in Requests :
              \/ Arrive(q) \/ Anonymous(q) \/ Lookup(q) \/ Review(q) \/ CachePut(q) \/ Authorize(q)
              \/ Read(q) \/ Execute(q) \/ Published(q) \/ \E c \in Streams : Connect(q, c)
        BY <1>2 DEF Serve
    <2>2. q \in Publishers
        BY PublishersAssumption
    <2>3. CASE Execute(q)
        BY <2>2, <2>3 DEF Execute, BrokerMove
    <2>4. CASE \E c \in Streams : Connect(q, c)
        BY <2>4 DEF Connect, BrokerMove
    <2>5. QED
        BY <2>1, <2>3, <2>4 DEF Arrive, Anonymous, Lookup, Review, CachePut, Authorize, Read, Published
<1>3. CASE Poll
    BY <1>3, PublishersAssumption DEF Poll, BrokerMove
<1>4. CASE Fanout
    BY <1>4 DEF Fanout, BrokerMove
<1>5. QED
    BY <1>1, <1>2, <1>3, <1>4 DEF Next, NewPlan, Administer, AskWindows, ReadWindows, Tick

(* What one operation does to what has reached a browser. *)
LEMMA ReachedTypes ==
    ASSUME BrokerShape, NEW c \in Streams
    PROVE  /\ stream[c] \in StreamRecords
           /\ stream[c].queue \in Seq(Nat) /\ stream[c].shown \in Seq(Nat)
           /\ Reached(c) \in Seq(Nat) /\ ToSet(Reached(c)) \subseteq Nat
<1>1. stream[c].queue \in Seq(Nat) /\ stream[c].shown \in Seq(Nat) /\ stream[c] \in StreamRecords
    BY DEF BrokerShape, StreamRecords
<1>2. Reached(c) \in Seq(Nat)
    BY <1>1, ConcatProperties DEF Reached
<1>3. QED BY <1>1, <1>2, LenProperties DEF ToSet

(* One connection changes, the others are left as they are. *)
Becomes(c, x, q, w) ==
    /\ stream' \in [Streams -> StreamRecords]
    /\ stream'[c].state = x /\ stream'[c].queue = q /\ stream'[c].shown = w
    /\ \A d \in Streams : d # c => stream'[d] = stream[d]

(* Send, on an open or leaving channel with room. *)
SendRoom(p, c) ==
    /\ stream[c].state # "closed" /\ Len(stream[c].queue) < ChannelSize
    /\ UNCHANGED <<dropped, panicked>>
    /\ Becomes(c, stream[c].state, Append(stream[c].queue, sending[p].event), stream[c].shown)

SendFull(p, c) ==
    /\ stream[c].state # "closed"
    /\ dropped' = [dropped EXCEPT ![c] = @ \cup {sending[p].event}]
    /\ UNCHANGED <<stream, panicked>>

SendClosed(p, c) ==
    /\ stream[c].state = "closed"
    /\ panicked' = panicked \cup {p}
    /\ UNCHANGED <<stream, dropped>>

(* A send does one of three things to the channel, and strikes it off the
   publisher's list; on a closed one it strikes off the whole list. *)
LEMMA SendCases ==
    ASSUME BrokerShape, NEW p \in Publishers, NEW c \in Streams, Send(p, c)
    PROVE  /\ c \in sending[p].targets /\ UNCHANGED <<clients, lastEvent>>
           /\ SendRoom(p, c) \/ SendFull(p, c) \/ SendClosed(p, c)
           /\ sending' \in [Publishers -> [event : Nat, targets : SUBSET Streams]]
           /\ \A q \in Publishers : q # p => sending'[q] = sending[q]
           /\ \/ SendClosed(p, c) /\ sending'[p] = Quiet
              \/ sending'[p] = Quiet /\ sending[p].targets = {c}
              \/ sending'[p] = [event |-> sending[p].event, targets |-> sending[p].targets \ {c}]
<1>1. sending[p] = [event |-> sending[p].event, targets |-> sending[p].targets]
      /\ sending[p].event \in Nat /\ sending[p].targets \in SUBSET Streams
    BY DEF BrokerShape
<1>2. Quiet \in [event : Nat, targets : SUBSET Streams]
    BY DEF Quiet
<1>3. c \in sending[p].targets /\ UNCHANGED <<clients, lastEvent>>
    BY DEF Send
<1>4. CASE stream[c].state = "closed"
    <2>1. SendClosed(p, c) /\ sending' = [sending EXCEPT ![p] = Quiet]
        BY <1>4 DEF Send, SendClosed
    <2>2. QED BY <1>2, <1>3, <2>1 DEF BrokerShape
<1>5. CASE stream[c].state # "closed"
    <2> DEFINE rest == IF sending[p].targets = {c} THEN Quiet
                       ELSE [event |-> sending[p].event, targets |-> sending[p].targets \ {c}]
    <2>1. sending' = [sending EXCEPT ![p] = rest]
        BY <1>5 DEF Send
    <2>2. rest \in [event : Nat, targets : SUBSET Streams]
        BY <1>1, <1>2
    <2>3. /\ sending' \in [Publishers -> [event : Nat, targets : SUBSET Streams]]
          /\ \A q \in Publishers : q # p => sending'[q] = sending[q]
          /\ sending'[p] = rest
        BY <2>1, <2>2 DEF BrokerShape
    <2>4. SendRoom(p, c) \/ SendFull(p, c)
        <3>1. CASE Len(stream[c].queue) < ChannelSize
            <4>1. /\ stream \in [Streams -> StreamRecords] /\ stream[c] \in StreamRecords
                  /\ Append(stream[c].queue, sending[p].event) \in Seq(Nat)
                BY <1>1, ReachedTypes, AppendProperties DEF BrokerShape
            <4>2. /\ stream' = [stream EXCEPT ![c].queue = Append(@, sending[p].event)]
                  /\ UNCHANGED <<dropped, panicked>>
                BY <1>5, <3>1 DEF Send
            <4>3. Becomes(c, stream[c].state, Append(stream[c].queue, sending[p].event), stream[c].shown)
                BY <4>1, <4>2 DEF Becomes, StreamRecords
            <4>4. QED BY <1>5, <3>1, <4>2, <4>3 DEF SendRoom
        <3>2. CASE ~(Len(stream[c].queue) < ChannelSize)
            BY <1>5, <3>2 DEF Send, SendFull
        <3>3. QED BY <3>1, <3>2
    <2>5. QED BY <1>3, <2>3, <2>4
<1>6. QED BY <1>4, <1>5

(* A step in which every publisher still means to send what it meant to send
   before, or less. *)
Narrowed ==
    \A p \in Publishers :
        /\ sending'[p].event \in {0, sending[p].event}
        /\ \A c \in sending'[p].targets : Pending(p, c) /\ sending'[p].event = sending[p].event

(* Sending is narrowing. *)
LEMMA SendNarrows ==
    ASSUME BrokerShape, NEW p \in Publishers, NEW c \in Streams, Send(p, c)
    PROVE  /\ Narrowed
           /\ \A q \in Publishers : sending'[q].targets \subseteq sending[q].targets
           /\ c \notin sending'[p].targets
<1>1. /\ \A q \in Publishers : q # p => sending'[q] = sending[q]
      /\ \/ sending'[p] = Quiet
         \/ sending'[p] = [event |-> sending[p].event, targets |-> sending[p].targets \ {c}]
    BY SendCases
<1>2. /\ sending'[p].targets \subseteq sending[p].targets \ {c}
      /\ sending'[p].event \in {0, sending[p].event}
      /\ sending'[p].targets = {} \/ sending'[p].event = sending[p].event
    <2>1. CASE sending'[p] = Quiet
        BY <2>1 DEF Quiet
    <2>2. CASE sending'[p] = [event |-> sending[p].event, targets |-> sending[p].targets \ {c}]
        BY <2>2
    <2>3. QED BY <1>1, <2>1, <2>2
<1>3. QED BY <1>1, <1>2 DEF Narrowed, Pending

(* What the other operations do to a connection. *)
LEMMA StreamMoves ==
    ASSUME BrokerShape, NEW c \in Streams
    PROVE  /\ Register(c) => Becomes(c, "open", stream[c].queue, Greeting)
           /\ Receive(c) => Becomes(c, "open", Tail(stream[c].queue),
                                    Append(stream[c].shown, Head(stream[c].queue)))
           /\ Unregister(c) => Becomes(c, "leaving", stream[c].queue, stream[c].shown)
           /\ CloseChannel(c) => Becomes(c, "closed", stream[c].queue, stream[c].shown)
<1>1. /\ stream \in [Streams -> StreamRecords] /\ stream[c] \in StreamRecords
      /\ stream[c].queue \in Seq(Nat) /\ stream[c].shown \in Seq(Nat) /\ lastEvent \in Nat
    BY ReachedTypes DEF BrokerShape
<1>2. Greeting \in Seq(Nat)
    BY <1>1 DEF Greeting
<1>3. ASSUME Register(c) PROVE Becomes(c, "open", stream[c].queue, Greeting)
    BY <1>1, <1>2, <1>3 DEF Register, Becomes, StreamRecords
<1>4. ASSUME Receive(c)
      PROVE  Becomes(c, "open", Tail(stream[c].queue), Append(stream[c].shown, Head(stream[c].queue)))
    <2> DEFINE t == Tail(stream[c].queue)
               w == Append(stream[c].shown, Head(stream[c].queue))
    <2>1. stream[c].queue # <<>> /\ stream[c].state = "open"
        BY <1>4 DEF Receive
    <2>2. t \in Seq(Nat) /\ w \in Seq(Nat)
        BY <1>1, <2>1, HeadTailProperties, AppendProperties
    <2>3. stream' = [stream EXCEPT ![c].queue = t, ![c].shown = w]
        BY <1>4 DEF Receive
    <2> HIDE DEF t, w
    <2>4. Becomes(c, "open", t, w)
        BY <1>1, <2>1, <2>2, <2>3 DEF Becomes, StreamRecords
    <2>5. QED BY <2>4 DEF t, w
<1>5. ASSUME NEW x \in {"leaving", "closed"}, stream' = [stream EXCEPT ![c].state = x]
      PROVE  Becomes(c, x, stream[c].queue, stream[c].shown)
    BY <1>1, <1>5 DEF Becomes, StreamRecords
<1>6. QED BY <1>3, <1>4, <1>5 DEF Unregister, CloseChannel

(* What has reached the browsers grows by a greeting or by what is sent, and by
   nothing else. *)
LEMMA ReachedSteps ==
    ASSUME BrokerShape, NEW c \in Streams
    PROVE  /\ Register(c) => Reached(c)' = Greeting
           /\ Receive(c) \/ Unregister(c) \/ CloseChannel(c) => Reached(c)' = Reached(c)
           /\ \A p \in Publishers : SendRoom(p, c) => Reached(c)' = Append(Reached(c), sending[p].event)
<1>1. stream[c].queue \in Seq(Nat) /\ stream[c].shown \in Seq(Nat) /\ lastEvent \in Nat
    BY ReachedTypes DEF BrokerShape
<1>2. ASSUME Register(c) PROVE Reached(c)' = Greeting
    <2>1. stream[c].queue = <<>>
        BY <1>2 DEF Register, BrokerShape
    <2>2. Reached(c)' = Greeting \o <<>>
        BY <1>2, <2>1, StreamMoves DEF Becomes, Reached
    <2>3. Greeting \in Seq(Nat)
        BY <1>1 DEF Greeting
    <2>4. QED BY <2>2, <2>3, ConcatEmptySeq
<1>3. ASSUME Receive(c) PROVE Reached(c)' = Reached(c)
    <2>1. stream[c].queue # <<>>
        BY <1>3 DEF Receive
    <2>2. Reached(c)' = Append(stream[c].shown, Head(stream[c].queue)) \o Tail(stream[c].queue)
        BY <1>3, StreamMoves DEF Becomes, Reached
    <2>3. QED BY <1>1, <2>1, <2>2, ConcatShift DEF Reached
<1>4. ASSUME Unregister(c) \/ CloseChannel(c) PROVE Reached(c)' = Reached(c)
    BY <1>4, StreamMoves DEF Becomes, Reached
<1>5. ASSUME NEW p \in Publishers, SendRoom(p, c) PROVE Reached(c)' = Append(Reached(c), sending[p].event)
    <2>1. sending[p].event \in Nat
        BY DEF BrokerShape
    <2>2. Reached(c)' = stream[c].shown \o Append(stream[c].queue, sending[p].event)
        BY <1>5 DEF SendRoom, Becomes, Reached
    <2>3. QED BY <1>1, <2>1, <2>2, ConcatAppend DEF Reached
<1>6. QED BY <1>2, <1>3, <1>4, <1>5

(* The broker's state stays well formed. *)
LEMMA BrokerShapeStep ==
    ASSUME BrokerShape, [Next]_vars
    PROVE  BrokerShape'
<1> USE ChannelSizeAssumption
<1> DEFINE Senders == [Publishers -> [event : Nat, targets : SUBSET Streams]]
<1> HIDE DEF Senders
<1>1. /\ stream \in [Streams -> StreamRecords]
      /\ sending \in Senders /\ sending \in [Publishers -> [event : Nat, targets : SUBSET Streams]]
      /\ dropped \in [Streams -> SUBSET Nat]
      /\ lastEvent \in Nat
      /\ clients = {c \in Streams : stream[c].state = "open"}
      /\ \A c \in Streams : /\ Len(stream[c].queue) <= ChannelSize
                            /\ stream[c].state = "unused" => Reached(c) = <<>> /\ stream[c].queue = <<>>
      /\ \A p \in Publishers : \A c \in sending[p].targets : stream[c].state # "unused"
    BY DEF BrokerShape, Senders
<1>2. ASSUME UNCHANGED stream, UNCHANGED clients, lastEvent' \in Nat,
             sending' \in Senders, dropped' \in [Streams -> SUBSET Nat],
             \A p \in Publishers : sending'[p].targets \subseteq sending[p].targets \cup clients
      PROVE  BrokerShape'
    <2>1. \A p \in Publishers : \A c \in sending'[p].targets : stream'[c].state # "unused"
        BY <1>1, <1>2
    <2>2. QED BY <1>1, <1>2, <2>1 DEF BrokerShape, Reached, Senders
<1>3. ASSUME NEW c \in Streams, NEW x, NEW q, NEW w, Becomes(c, x, q, w),
             UNCHANGED <<dropped, lastEvent>>, x # "unused", Len(q) <= ChannelSize,
             clients' = IF x = "open" THEN clients \cup {c} ELSE clients \ {c},
             sending' \in Senders,
             \A p \in Publishers : sending'[p].targets \subseteq sending[p].targets
      PROVE  BrokerShape'
    <2>1. clients' = {d \in Streams : stream'[d].state = "open"}
        BY <1>1, <1>3 DEF Becomes
    <2>2. \A d \in Streams : d # c => Reached(d)' = Reached(d)
        BY <1>3 DEF Becomes, Reached
    <2>3. \A d \in Streams : /\ Len(stream'[d].queue) <= ChannelSize
                             /\ stream'[d].state = "unused" => Reached(d)' = <<>> /\ stream'[d].queue = <<>>
        BY <1>1, <1>3, <2>2 DEF Becomes
    <2>4. \A p \in Publishers : \A d \in sending'[p].targets : stream'[d].state # "unused"
        <3>1. \A p \in Publishers : sending'[p].targets \subseteq Streams
            BY <1>1, <1>3
        <3>2. QED BY <1>1, <1>3, <3>1 DEF Becomes
    <2>5. QED BY <1>1, <1>3, <2>1, <2>3, <2>4 DEF Becomes, BrokerShape, Senders
<1>4. ASSUME NEW p \in Publishers, BeginPublish(p) PROVE BrokerShape'
    <2>1. /\ UNCHANGED <<stream, clients, dropped>>
          /\ lastEvent' = lastEvent + 1
          /\ sending' = [sending EXCEPT ![p] = [event |-> lastEvent + 1, targets |-> clients]]
        BY <1>4 DEF BeginPublish
    <2>2. clients \in SUBSET Streams
        BY <1>1
    <2>3. /\ sending' \in [Publishers -> [event : Nat, targets : SUBSET Streams]]
          /\ \A q \in Publishers : sending'[q].targets \subseteq sending[q].targets \cup clients
        BY <1>1, <2>1, <2>2
    <2>4. QED BY <1>1, <1>2, <2>1, <2>3 DEF Senders
<1>5. ASSUME NEW p \in Publishers, EndPublish(p) PROVE BrokerShape'
    <2>1. /\ sending' \in [Publishers -> [event : Nat, targets : SUBSET Streams]]
          /\ \A q \in Publishers : sending'[q].targets \subseteq sending[q].targets
        BY <1>1, <1>5 DEF EndPublish, Quiet
    <2>2. QED BY <1>1, <1>2, <1>5, <2>1 DEF EndPublish, Senders
<1>6. ASSUME NEW p \in Publishers, NEW c \in Streams, Send(p, c) PROVE BrokerShape'
    <2>1. UNCHANGED <<clients, lastEvent>> /\ sending' \in Senders /\ c \in sending[p].targets
        BY <1>6, SendCases DEF Senders
    <2>2. \A q \in Publishers : sending'[q].targets \subseteq sending[q].targets
        BY <1>6, SendNarrows
    <2>3. CASE SendRoom(p, c)
        <3>1. UNCHANGED dropped /\ Len(stream[c].queue) < ChannelSize
              /\ Becomes(c, stream[c].state, Append(stream[c].queue, sending[p].event), stream[c].shown)
            BY <2>3 DEF SendRoom
        <3>2. sending[p].event \in Nat /\ stream[c].queue \in Seq(Nat)
            BY <1>1, ReachedTypes
        <3>3. Len(Append(stream[c].queue, sending[p].event)) <= ChannelSize
            BY <3>1, <3>2, AppendProperties, LenProperties
        <3>4. clients' = IF stream[c].state = "open" THEN clients \cup {c} ELSE clients \ {c}
            BY <1>1, <2>1
        <3>5. QED BY <1>1, <1>3, <2>1, <2>2, <3>1, <3>3, <3>4
    <2>4. CASE SendFull(p, c)
        <3>1. dropped' \in [Streams -> SUBSET Nat]
            BY <1>1, <2>4 DEF SendFull
        <3>2. QED BY <1>1, <1>2, <2>1, <2>2, <2>4, <3>1 DEF SendFull
    <2>5. CASE SendClosed(p, c)
        BY <1>1, <1>2, <2>1, <2>2, <2>5 DEF SendClosed
    <2>6. QED BY <1>6, <2>3, <2>4, <2>5, SendCases
<1>7. ASSUME NEW c \in Streams, Register(c) PROVE BrokerShape'
    <2>1. Becomes(c, "open", stream[c].queue, Greeting)
        BY <1>7, StreamMoves
    <2>2. UNCHANGED <<dropped, lastEvent, sending>> /\ clients' = clients \cup {c}
        BY <1>7 DEF Register
    <2>3. QED BY <1>1, <1>3, <2>1, <2>2
<1>8. ASSUME NEW c \in Streams, Receive(c) PROVE BrokerShape'
    <2>1. Becomes(c, "open", Tail(stream[c].queue), Append(stream[c].shown, Head(stream[c].queue)))
        BY <1>8, StreamMoves
    <2>2. UNCHANGED <<dropped, lastEvent, sending, clients>>
          /\ stream[c].state = "open" /\ stream[c].queue # <<>>
        BY <1>8 DEF Receive
    <2>3. Len(Tail(stream[c].queue)) <= ChannelSize
        <3>1. stream[c].queue \in Seq(Nat)
            BY ReachedTypes
        <3>2. Len(Tail(stream[c].queue)) = Len(stream[c].queue) - 1 /\ Len(stream[c].queue) \in Nat
            BY <2>2, <3>1, HeadTailProperties, LenProperties
        <3>3. Len(stream[c].queue) <= ChannelSize
            BY <1>1
        <3>4. QED BY <3>2, <3>3
    <2>4. clients' = clients \cup {c}
        BY <1>1, <2>2
    <2>5. QED BY <1>1, <1>3, <2>1, <2>2, <2>3, <2>4
<1>9. ASSUME NEW c \in Streams, Unregister(c) \/ CloseChannel(c) PROVE BrokerShape'
    <2>1. PICK x \in {"leaving", "closed"} : Becomes(c, x, stream[c].queue, stream[c].shown)
        BY <1>9, StreamMoves
    <2>2. UNCHANGED <<dropped, lastEvent, sending>> /\ clients' = clients \ {c}
        BY <1>1, <1>9 DEF Unregister, CloseChannel
    <2>3. QED BY <1>1, <1>3, <2>1, <2>2
<1>10. CASE UNCHANGED brokerVars
    BY <1>1, <1>2, <1>10 DEF brokerVars
<1>11. QED
    BY <1>4, <1>5, <1>6, <1>7, <1>8, <1>9, <1>10, BrokerQuiet DEF BrokerMove

(* No event is given twice to a browser: an event is numbered once, and struck
   off its publisher's list when it is sent. *)
LEMMA OnceStep ==
    ASSUME BrokerShape, OncePending, OnceReached, [Next]_vars
    PROVE  OncePending' /\ OnceReached'
<1>1. /\ lastEvent \in Nat
      /\ sending \in [Publishers -> [event : Nat, targets : SUBSET Streams]]
      /\ clients \subseteq Streams
      /\ \A p \in Publishers : sending[p].event \in Nat /\ sending[p].event <= lastEvent
    BY DEF BrokerShape, OncePending
<1>2. \A c \in Streams : Reached(c) \in Seq(Nat) /\ ToSet(Reached(c)) \subseteq Nat
    BY ReachedTypes
<1>3. ASSUME \A c \in Streams : Reached(c)' = Reached(c), lastEvent' \in {lastEvent, lastEvent + 1}
      PROVE  OnceReached'
    <2>1. \A c \in Streams : ToSet(Reached(c))' = ToSet(Reached(c))
        BY <1>3 DEF ToSet
    <2>2. \A c \in Streams : \A e \in ToSet(Reached(c)) : e <= lastEvent'
        BY <1>1, <1>2, <1>3 DEF OnceReached
    <2>3. QED BY <1>3, <2>1, <2>2 DEF OnceReached
<1>4. ASSUME Narrowed, lastEvent' = lastEvent,
             \A p \in Publishers : \A c \in sending'[p].targets :
                 sending[p].event \notin ToSet(Reached(c))'
      PROVE  OncePending'
    BY <1>1, <1>4 DEF OncePending, Narrowed, Pending
<1>5. ASSUME Narrowed, lastEvent' = lastEvent, \A c \in Streams : Reached(c)' = Reached(c)
      PROVE  OncePending' /\ OnceReached'
    <2>1. \A c \in Streams : ToSet(Reached(c))' = ToSet(Reached(c))
        BY <1>5 DEF ToSet
    <2>2. \A p \in Publishers : \A c \in sending'[p].targets : sending[p].event \notin ToSet(Reached(c))'
        BY <1>1, <1>5, <2>1 DEF Narrowed, Pending, OncePending
    <2>3. QED BY <1>3, <1>4, <1>5, <2>2
<1>6. ASSUME NEW p \in Publishers, BeginPublish(p) PROVE OncePending' /\ OnceReached'
    <2>1. /\ \A c \in Streams : Reached(c)' = Reached(c)
          /\ lastEvent' = lastEvent + 1
          /\ sending'[p].event = lastEvent + 1 /\ sending'[p].targets = clients
          /\ \A q \in Publishers : q # p => sending'[q] = sending[q]
        BY <1>1, <1>6 DEF BeginPublish, Reached
    <2>2. OnceReached'
        BY <1>3, <2>1
    <2>3. \A c \in Streams : ToSet(Reached(c))' = ToSet(Reached(c)) /\ lastEvent + 1 \notin ToSet(Reached(c))
        <3>1. \A c \in Streams : ToSet(Reached(c))' = ToSet(Reached(c))
            BY <2>1 DEF ToSet
        <3>2. \A c \in Streams : lastEvent + 1 \notin ToSet(Reached(c))
            BY <1>1 DEF OnceReached
        <3>3. QED BY <3>1, <3>2
    <2>4. ASSUME NEW q \in Publishers, NEW c \in sending'[q].targets
          PROVE  sending'[q].event \notin ToSet(Reached(c))'
        <3>1. CASE q = p
            BY <1>1, <2>1, <2>3, <3>1
        <3>2. CASE q # p
            BY <1>1, <2>1, <2>3, <3>2 DEF OncePending
        <3>3. QED BY <3>1, <3>2
    <2>5. \A q \in Publishers : sending'[q].event <= lastEvent'
        BY <1>1, <2>1
    <2>6. ASSUME NEW q \in Publishers, NEW r \in Publishers, NEW c \in Streams,
                 Pending(q, c)', Pending(r, c)', sending'[q].event = sending'[r].event
          PROVE  q = r
        <3>1. q # p => sending'[q].event <= lastEvent /\ sending'[q].event \in Nat
            BY <1>1, <2>1
        <3>2. r # p => sending'[r].event <= lastEvent /\ sending'[r].event \in Nat
            BY <1>1, <2>1
        <3>3. CASE q = p \/ r = p
            BY <1>1, <2>1, <2>6, <3>1, <3>2, <3>3
        <3>4. CASE q # p /\ r # p
            BY <2>1, <2>6, <3>4 DEF OncePending, Pending
        <3>5. QED BY <3>3, <3>4
    <2>7. QED BY <2>2, <2>4, <2>5, <2>6 DEF OncePending
<1>7. ASSUME NEW p \in Publishers, EndPublish(p) PROVE OncePending' /\ OnceReached'
    <2>1. Narrowed
        BY <1>1, <1>7 DEF EndPublish, Narrowed, Pending, Quiet
    <2>2. QED BY <1>5, <1>7, <2>1 DEF EndPublish, Reached
<1>8. ASSUME NEW p \in Publishers, NEW c \in Streams, Send(p, c) PROVE OncePending' /\ OnceReached'
    <2>1. Narrowed /\ lastEvent' = lastEvent
        BY <1>8, SendCases, SendNarrows
    <2>2. CASE SendFull(p, c) \/ SendClosed(p, c)
        BY <1>5, <2>1, <2>2 DEF SendFull, SendClosed, Reached
    <2>3. CASE SendRoom(p, c)
        <3> DEFINE e == sending[p].event
                   s == Reached(c)
        <3>1. Reached(c)' = Append(s, e)
            BY <2>3, ReachedSteps
        <3>2. \A d \in Streams : d # c => Reached(d)' = Reached(d)
            BY <2>3 DEF SendRoom, Becomes, Reached
        <3>3. s \in Seq(Nat) /\ e \in Nat /\ e <= lastEvent /\ c \in sending[p].targets
            BY <1>1, <1>2, <1>8, SendCases
        <3>4. e \notin ToSet(s) /\ \A i, j \in 1..Len(s) : s[i] = s[j] => i = j
            BY <3>3 DEF OncePending, OnceReached
        <3>5. ToSet(Reached(c))' = ToSet(s) \cup {e}
            <4>1. ToSet(Reached(c))' = ToSet(Append(s, e))
                BY <3>1 DEF ToSet
            <4>2. QED BY <3>3, <4>1, SetOfAppend
        <3>6. \A d \in Streams : d # c => ToSet(Reached(d))' = ToSet(Reached(d))
            BY <3>2 DEF ToSet
        <3>7. \A i, j \in 1..Len(Append(s, e)) : Append(s, e)[i] = Append(s, e)[j] => i = j
            BY <3>3, <3>4, AppendDistinct
        <3>8. \A x \in ToSet(s) : x <= lastEvent
            BY DEF OnceReached
        <3> HIDE DEF e, s
        <3>9. OnceReached'
            <4>1. ASSUME NEW d \in Streams
                  PROVE  /\ \A x \in ToSet(Reached(d))' : x <= lastEvent'
                         /\ \A i, j \in 1..Len(Reached(d)') : Reached(d)'[i] = Reached(d)'[j] => i = j
                <5>1. CASE d = c
                    BY <2>1, <3>1, <3>3, <3>5, <3>7, <3>8, <5>1
                <5>2. CASE d # c
                    BY <2>1, <3>2, <3>6, <5>2 DEF OnceReached
                <5>3. QED BY <5>1, <5>2
            <4>2. QED BY <4>1 DEF OnceReached
        <3>10. ASSUME NEW q \in Publishers, NEW d \in sending'[q].targets
               PROVE  sending[q].event \notin ToSet(Reached(d))'
            <4>1. d \in sending[q].targets /\ sending[q].event \notin ToSet(Reached(d)) /\ d \in Streams
                BY <1>1, <2>1 DEF Narrowed, Pending, OncePending
            <4>2. CASE d # c
                BY <3>6, <4>1, <4>2
            <4>3. CASE d = c
                <5>1. c \notin sending'[p].targets
                    BY <1>8, SendNarrows
                <5>2. q # p
                    BY <4>3, <5>1
                <5>3. sending[q].event # e
                    BY <3>3, <4>1, <4>3, <5>2 DEF OncePending, Pending, e
                <5>4. QED BY <3>5, <4>1, <4>3, <5>3 DEF s
            <4>4. QED BY <4>2, <4>3
        <3>11. QED BY <1>4, <2>1, <3>9, <3>10
    <2>4. QED BY <1>8, <2>2, <2>3, SendCases
<1>9. ASSUME NEW c \in Streams, Register(c) PROVE OncePending' /\ OnceReached'
    <2>1. UNCHANGED <<sending, lastEvent>> /\ stream[c].state = "unused"
        BY <1>9 DEF Register
    <2>2. Reached(c)' = Greeting
        BY <1>9, ReachedSteps
    <2>3. \A d \in Streams : d # c => Reached(d)' = Reached(d)
        BY <1>9, StreamMoves DEF Becomes, Reached
    <2>4. \A d \in Streams : d # c => ToSet(Reached(d))' = ToSet(Reached(d))
        BY <2>3 DEF ToSet
    <2>5. Narrowed
        BY <1>1, <2>1 DEF Narrowed, Pending
    <2>6. \A p \in Publishers : c \notin sending[p].targets
        BY <2>1 DEF BrokerShape
    <2>7. \A p \in Publishers : \A d \in sending'[p].targets : sending[p].event \notin ToSet(Reached(d))'
        BY <1>1, <2>1, <2>4, <2>6 DEF OncePending
    <2>8. OncePending'
        BY <1>4, <2>1, <2>5, <2>7
    <2>9. /\ \A x \in ToSet(Reached(c))' : x <= lastEvent
          /\ \A i, j \in 1..Len(Reached(c)') : Reached(c)'[i] = Reached(c)'[j] => i = j
        BY <1>1, <2>2 DEF Greeting, ToSet
    <2>10. OnceReached'
        BY <2>1, <2>3, <2>4, <2>9 DEF OnceReached
    <2>11. QED BY <2>8, <2>10
<1>10. ASSUME NEW c \in Streams, Receive(c) \/ Unregister(c) \/ CloseChannel(c)
       PROVE  OncePending' /\ OnceReached'
    <2>1. UNCHANGED <<sending, lastEvent>>
        BY <1>10 DEF Receive, Unregister, CloseChannel
    <2>2. \A d \in Streams : Reached(d)' = Reached(d)
        <3>1. Reached(c)' = Reached(c)
            BY <1>10, ReachedSteps
        <3>2. \A d \in Streams : d # c => Reached(d)' = Reached(d)
            BY <1>10, StreamMoves DEF Becomes, Reached
        <3>3. QED BY <3>1, <3>2
    <2>3. Narrowed
        BY <1>1, <2>1 DEF Narrowed, Pending
    <2>4. QED BY <1>5, <2>1, <2>2, <2>3
<1>11. CASE UNCHANGED brokerVars
    <2>1. Narrowed
        BY <1>1, <1>11 DEF Narrowed, Pending, brokerVars
    <2>2. QED BY <1>5, <1>11, <2>1 DEF brokerVars, Reached
<1>12. QED
    BY <1>6, <1>7, <1>8, <1>9, <1>10, <1>11, BrokerQuiet DEF BrokerMove

(* Where the newest event may be: nowhere yet published, shown or queued, on its
   way in some Publish, or dropped at a full channel. *)
Held(c) == {0} \cup ToSet(Reached(c)) \cup OnItsWay(c) \cup dropped[c]

(* No operation of the broker loses the newest event. *)
LEMMA DeliveredStep ==
    ASSUME BrokerShape, Delivered, [Next]_vars
    PROVE  Delivered'
<1>1. /\ lastEvent \in Nat
      /\ sending \in [Publishers -> [event : Nat, targets : SUBSET Streams]]
      /\ dropped \in [Streams -> SUBSET Nat]
      /\ clients \subseteq Streams
    BY DEF BrokerShape
<1>2. SUFFICES ASSUME panicked' = {}, NEW c \in clients' PROVE lastEvent' \in Held(c)'
    BY DEF Delivered, Held
<1>3. ASSUME panicked' = panicked, c \in clients PROVE lastEvent \in Held(c)
    BY <1>2, <1>3 DEF Delivered, Held
<1>4. ASSUME panicked' = panicked, c \in clients, UNCHANGED lastEvent,
             Reached(c)' = Reached(c), UNCHANGED <<sending, dropped>>
      PROVE  lastEvent' \in Held(c)'
    BY <1>3, <1>4 DEF Held, ToSet, OnItsWay
<1>5. ASSUME NEW p \in Publishers, BeginPublish(p) PROVE lastEvent' \in Held(c)'
    <2>1. sending'[p].event = lastEvent' /\ c \in sending'[p].targets
        BY <1>1, <1>5 DEF BeginPublish
    <2>2. QED BY <2>1 DEF Held, OnItsWay
<1>6. ASSUME NEW p \in Publishers, EndPublish(p) PROVE lastEvent' \in Held(c)'
    <2>1. UNCHANGED <<stream, clients, lastEvent, dropped, panicked>>
        BY <1>6 DEF EndPublish
    <2>2. OnItsWay(c) \subseteq OnItsWay(c)'
        <3>1. \A q \in Publishers : c \in sending[q].targets => sending'[q] = sending[q]
            BY <1>1, <1>6 DEF EndPublish
        <3>2. QED BY <3>1 DEF OnItsWay
    <2>3. QED BY <1>3, <2>1, <2>2 DEF Held, Reached, ToSet
<1>7. ASSUME NEW p \in Publishers, NEW d \in Streams, Send(p, d) PROVE lastEvent' \in Held(c)'
    <2>1. /\ UNCHANGED <<clients, lastEvent>> /\ ~SendClosed(p, d)
          /\ \A q \in Publishers : q # p => sending'[q] = sending[q]
          /\ \/ sending'[p] = Quiet /\ sending[p].targets = {d}
             \/ sending'[p] = [event |-> sending[p].event, targets |-> sending[p].targets \ {d}]
        BY <1>2, <1>7, SendCases DEF SendClosed
    <2>2. CASE c # d
        <3>1. \A q \in Publishers : c \in sending[q].targets =>
                  c \in sending'[q].targets /\ sending'[q].event = sending[q].event
            BY <2>1, <2>2
        <3>2. OnItsWay(c) \subseteq OnItsWay(c)'
            BY <3>1 DEF OnItsWay
        <3>3. Reached(c)' = Reached(c) /\ dropped'[c] = dropped[c] /\ panicked' = panicked
            <4>1. CASE SendRoom(p, d)
                BY <1>1, <1>2, <2>1, <2>2, <4>1 DEF SendRoom, Becomes, Reached
            <4>2. CASE SendFull(p, d)
                BY <1>1, <1>2, <2>1, <2>2, <4>2 DEF SendFull, Reached
            <4>3. QED BY <1>7, <2>1, <4>1, <4>2, SendCases
        <3>4. QED BY <1>3, <2>1, <3>2, <3>3 DEF Held, ToSet
    <2>3. CASE c = d
        <3>1. ASSUME lastEvent \in OnItsWay(c), lastEvent \notin OnItsWay(c)'
              PROVE  sending[p].event = lastEvent
            <4>1. PICK q \in Publishers : c \in sending[q].targets /\ sending[q].event = lastEvent
                BY <3>1 DEF OnItsWay
            <4>2. CASE q = p
                BY <4>1, <4>2
            <4>3. CASE q # p
                <5>1. sending'[q] = sending[q]
                    BY <2>1, <4>3
                <5>2. QED BY <3>1, <4>1, <5>1 DEF OnItsWay
            <4>4. QED BY <4>2, <4>3
        <3>2. CASE SendRoom(p, d)
            <4>1. Reached(c)' = Append(Reached(c), sending[p].event) /\ UNCHANGED <<dropped, panicked>>
                BY <2>3, <3>2, ReachedSteps DEF SendRoom
            <4>2. sending[p].event \in Nat /\ Reached(c) \in Seq(Nat)
                BY <1>1, <2>3, ReachedTypes
            <4>3. ToSet(Reached(c))' = ToSet(Reached(c)) \cup {sending[p].event}
                <5>1. ToSet(Reached(c))' = ToSet(Append(Reached(c), sending[p].event))
                    BY <4>1 DEF ToSet
                <5>2. QED BY <4>2, <5>1, SetOfAppend
            <4>4. QED BY <1>3, <2>1, <3>1, <4>1, <4>3 DEF Held
        <3>3. CASE SendFull(p, d)
            <4>1. dropped'[c] = dropped[c] \cup {sending[p].event} /\ UNCHANGED <<stream, panicked>>
                BY <1>1, <2>3, <3>3 DEF SendFull
            <4>2. QED BY <1>3, <2>1, <3>1, <4>1 DEF Held, Reached, ToSet
        <3>4. QED BY <1>7, <2>1, <3>2, <3>3, SendCases
    <2>4. QED BY <2>2, <2>3
<1>8. ASSUME NEW d \in Streams, Register(d) PROVE lastEvent' \in Held(c)'
    <2>1. UNCHANGED <<lastEvent, sending, dropped, panicked>> /\ clients' = clients \cup {d}
        BY <1>8 DEF Register
    <2>2. CASE c = d
        <3>1. Reached(c)' = Greeting
            BY <1>8, <2>2, ReachedSteps
        <3>2. lastEvent = 0 \/ (Greeting = <<lastEvent>> /\ lastEvent \in ToSet(<<lastEvent>>))
            BY <1>1 DEF Greeting, ToSet
        <3>3. QED BY <2>1, <3>1, <3>2 DEF Held, ToSet
    <2>3. CASE c # d
        <3>1. Reached(c)' = Reached(c)
            BY <1>1, <1>2, <1>8, <2>1, <2>3, StreamMoves DEF Becomes, Reached
        <3>2. QED BY <1>2, <1>4, <2>1, <2>3, <3>1
    <2>4. QED BY <2>2, <2>3
<1>9. ASSUME NEW d \in Streams, Receive(d) \/ Unregister(d) \/ CloseChannel(d) PROVE lastEvent' \in Held(c)'
    <2>1. UNCHANGED <<lastEvent, sending, dropped, panicked>> /\ clients' \subseteq clients
        BY <1>9 DEF Receive, Unregister, CloseChannel
    <2>2. c \in clients /\ c \in Streams
        BY <1>1, <1>2, <2>1
    <2>3. Reached(c)' = Reached(c)
        <3>1. CASE c = d
            BY <1>9, <3>1, ReachedSteps
        <3>2. CASE c # d
            BY <1>9, <2>2, <3>2, StreamMoves DEF Becomes, Reached
        <3>3. QED BY <3>1, <3>2
    <2>4. QED BY <1>4, <2>1, <2>2, <2>3
<1>10. CASE UNCHANGED brokerVars
    <2>1. c \in clients
        BY <1>2, <1>10 DEF brokerVars
    <2>2. QED BY <1>4, <1>10, <2>1 DEF brokerVars, Reached
<1>11. QED
    BY <1>5, <1>6, <1>7, <1>8, <1>9, <1>10, BrokerQuiet DEF BrokerMove

(* The broker starts empty. *)
LEMMA BrokerInitially == Init => BrokerShape /\ OncePending /\ OnceReached /\ Delivered
<1> SUFFICES ASSUME Init PROVE BrokerShape /\ OncePending /\ OnceReached /\ Delivered
    OBVIOUS
<1>1. /\ stream = [c \in Streams |-> Unused] /\ clients = {} /\ lastEvent = 0
      /\ sending = [p \in Publishers |-> Quiet]
      /\ dropped = [c \in Streams |-> {}]
    BY DEF Init, BrokerInit
<1>2. <<>> \in Seq(Nat) /\ Len(<<>>) = 0 /\ <<>> \o <<>> = <<>>
    BY EmptySeq, ConcatEmptySeq
<1>3. \A c \in Streams : Reached(c) = <<>> /\ stream[c] = Unused
    BY <1>1, <1>2 DEF Reached, Unused
<1>4. BrokerShape
    BY <1>1, <1>2, <1>3, ChannelSizeAssumption DEF BrokerShape, Unused, Quiet, StreamRecords
<1>5. OncePending
    BY <1>1 DEF OncePending, Quiet, Pending
<1>6. ToSet(<<>>) = {}
    BY DEF ToSet
<1>7. OnceReached
    BY <1>2, <1>3, <1>6 DEF OnceReached
<1>8. Delivered
    BY <1>1 DEF Delivered
<1>9. QED BY <1>4, <1>5, <1>7, <1>8

(* So the broker's invariant holds throughout. *)
LEMMA BrokerAlways == Spec => [](BrokerShape /\ OncePending /\ OnceReached /\ Delivered)
<1>1. BrokerShape /\ OncePending /\ OnceReached /\ Delivered /\ [Next]_vars
          => BrokerShape' /\ OncePending' /\ OnceReached' /\ Delivered'
    BY BrokerShapeStep, OnceStep, DeliveredStep
<1>2. QED BY <1>1, BrokerInitially, PTL DEF Spec

(* A connected browser is never left without the newest event and never given
   one twice, for any number of browsers that come and go, publishers that
   publish at once, and a channel of any size, as long as no publisher has died
   of a closed channel (events.go, Publish and ServeHTTP). *)
THEOREM NewestAlwaysReaches == Spec => []NewestReachesEveryone
<1>1. BrokerShape /\ OnceReached /\ Delivered => NewestReachesEveryone
    <2> SUFFICES ASSUME BrokerShape, OnceReached, Delivered, panicked = {}, NEW c \in clients
                 PROVE  /\ lastEvent \in {0} \cup ToSet(Reached(c)) \cup OnItsWay(c) \cup dropped[c]
                        /\ Cardinality(ToSet(Reached(c))) = Len(Reached(c))
        BY DEF NewestReachesEveryone
    <2>1. c \in Streams
        BY DEF BrokerShape
    <2>2. Reached(c) \in Seq(Nat)
        BY <2>1, ReachedTypes
    <2>3. Cardinality(ToSet(Reached(c))) = Len(Reached(c))
        BY <2>1, <2>2, DistinctCount DEF OnceReached
    <2>4. QED BY <2>3 DEF Delivered
<1>2. QED BY <1>1, BrokerAlways, PTL

(* The whole ui-backend keeps its types and its limits: the clock and the token
   cache within their bounds, every request in a phase of the middleware, no
   channel over its size, the client list that of the open connections
   (auth/authenticator.go, rest/events.go). *)
THEOREM ConsoleTypes == Spec => []TypeOK
<1>1. AuthShape /\ BrokerShape => TypeOK
    <2> SUFFICES ASSUME AuthShape, BrokerShape PROVE TypeOK
        OBVIOUS
    <2>1. \A q \in Requests : request[q].phase \in RequestPhases
        BY DEF AuthShape, RequestRecords
    <2>2. QED BY <2>1 DEF AuthShape, BrokerShape, RequestPhases, TypeOK
<1>2. QED BY <1>1, AuthAlways, BrokerAlways, PTL
=============================================================================
