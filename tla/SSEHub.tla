------------------------------- MODULE SSEHub -------------------------------
(***************************************************************************)
(* The SSE hub: broadcast takes an id, stores the event in a ring buffer   *)
(* and fans it out to the subscribed streams, under three separate locks;  *)
(* handleEventStream subscribes, replays the ring to a client that comes   *)
(* back with Last-Event-ID, then streams from the client's channel.        *)
(*                                                                         *)
(* A publisher is one call of broadcast.  A client reconnects after its    *)
(* stream broke, with the id of the last event it received.  "Received"    *)
(* and "written to the response" are one: an event written but lost with   *)
(* the connection is an event not yet written.  eventsSince returns        *)
(* pointers into the ring, so a replay is a list of slots, each read when  *)
(* it is written out: a function from places in the ring's order.          *)
(***************************************************************************)
EXTENDS Naturals, Sequences, FiniteSets

CONSTANTS
  Publisher, Client, Topic,
  Wants,     \* topics that match the filters of each client
  RingSize,  \* sseRingBufferSize
  ChanSize,  \* capacity of a client's channel
  MaxConn    \* bound: connections of one client

Slot == 0..(RingSize - 1)
EventId == 1..Cardinality(Publisher)
Event == [id: EventId \cup {0}, topic: Topic]   \* id 0: a slot never written

ASSUME SSEHubAssumption ==
  /\ RingSize \in Nat \ {0} /\ ChanSize \in Nat \ {0} /\ MaxConn \in Nat
  /\ Wants \in [Client -> SUBSET Topic]
  /\ IsFiniteSet(Publisher) /\ IsFiniteSet(Client)

VARIABLES
  nextID, ring, ringPos, ringLen,
  pc, evt, todo,      \* per publisher: its place, its event, clients left to send to
  clients, chan,      \* registered streams and their channels
  stream, replay,     \* per client: its handler's place, slots left to replay
  lastID, conns,      \* per client: last id received, connections so far
  seen,               \* history: ids received, in order
  owed, excused,      \* history: ids due to a client, and those it may miss
  torn,               \* history: a replay of the client was overtaken by the ring
  late, overtaken     \* history: ids that were behind a higher one in storing,
                      \* and in sending to a client

hub == <<nextID, ring, ringPos, ringLen>>
pubs == <<pc, evt, todo>>
handler == <<stream, replay>>
history == <<seen, owed, excused, torn, late, overtaken>>
vars == <<hub, pubs, clients, chan, handler, lastID, conns, history>>

Elems(s) == {s[i] : i \in DOMAIN s}
Seen(c) == Elems(seen[c])
FanningOut == {p \in Publisher : pc[p] = "fan"}   \* readers of the mutex mu

\* Events that have not reached the channel of client c.
Unsent(c) == {p \in Publisher : pc[p] \in {"store", "stored"} \/ (pc[p] = "fan" /\ c \in todo[p])}
IdsBelow(P, id) == {i \in {evt[p].id : p \in P} : i < id}

-----------------------------------------------------------------------------
(* Publishers.                                                             *)

TakeId(p) ==
  /\ pc[p] = "idle"
  /\ nextID' = nextID + 1
  /\ \E t \in Topic : evt' = [evt EXCEPT ![p] = [id |-> nextID + 1, topic |-> t]]
  /\ pc' = [pc EXCEPT ![p] = "store"]
  /\ UNCHANGED <<ring, ringPos, ringLen, todo, clients, chan, handler, lastID, conns, history>>

\* Under ringMu.  A replay under way that still points at the slot will write
\* this event in place of the one it selected.
Store(p) ==
  /\ pc[p] = "store"
  /\ torn' = [c \in Client |-> torn[c] \/ ringPos \in Elems(replay[c])]
  /\ ring' = [ring EXCEPT ![ringPos] = evt[p]]
  /\ ringPos' = (ringPos + 1) % RingSize
  /\ ringLen' = IF ringLen < RingSize THEN ringLen + 1 ELSE ringLen
  /\ pc' = [pc EXCEPT ![p] = "stored"]
  /\ late' = late \cup IdsBelow({q \in Publisher : pc[q] = "store"}, evt[p].id)
  /\ UNCHANGED <<nextID, evt, todo, clients, chan, handler, lastID, conns, seen, owed, excused, overtaken>>

\* mu.RLock: until it is released nobody subscribes or unsubscribes.  From here
\* on the event is due to the streams that want it, and to the clients that
\* will come back with an earlier id.
EnterFan(p) ==
  /\ pc[p] = "stored"
  /\ todo' = [todo EXCEPT ![p] = clients]
  /\ owed' = [c \in Client |->
                IF evt[p].topic \in Wants[c] /\ (c \in clients \/ lastID[c] # 0)
                THEN owed[c] \cup {evt[p].id} ELSE owed[c]]
  /\ pc' = [pc EXCEPT ![p] = "fan"]
  /\ UNCHANGED <<hub, evt, clients, chan, handler, lastID, conns, seen, excused, torn, late, overtaken>>

\* (fault) the send waits for room in the channel
SendBlocking(p, c) ==
  /\ pc[p] = "fan" /\ c \in todo[p]
  /\ todo' = [todo EXCEPT ![p] = @ \ {c}]
  /\ IF evt[p].topic \in Wants[c]
     THEN Len(chan[c]) < ChanSize /\ chan' = [chan EXCEPT ![c] = Append(@, evt[p])]
     ELSE UNCHANGED chan
  /\ UNCHANGED <<hub, pc, evt, clients, handler, lastID, conns, history>>

\* The select with a default: an event for a full channel is dropped.
Send(p, c) ==
  /\ pc[p] = "fan" /\ c \in todo[p]
  /\ todo' = [todo EXCEPT ![p] = @ \ {c}]
  /\ LET matches == evt[p].topic \in Wants[c]
         full == Len(chan[c]) = ChanSize
     IN /\ chan' = IF matches /\ ~full THEN [chan EXCEPT ![c] = Append(@, evt[p])] ELSE chan
        /\ excused' = IF matches /\ full
                      THEN [excused EXCEPT ![c] = @ \cup {evt[p].id}] ELSE excused
        /\ overtaken' = IF matches /\ ~full
                        THEN [overtaken EXCEPT ![c] = @ \cup IdsBelow(Unsent(c), evt[p].id)] ELSE overtaken
  /\ UNCHANGED <<hub, pc, evt, clients, handler, lastID, conns, seen, owed, torn, late>>

LeaveFan(p) ==
  /\ pc[p] = "fan" /\ todo[p] = {}
  /\ pc' = [pc EXCEPT ![p] = "done"]
  /\ UNCHANGED <<hub, evt, todo, clients, chan, handler, lastID, conns, history>>

-----------------------------------------------------------------------------
(* Streams.                                                                *)

\* (fault) the walk starts with the first slot, wherever the oldest event is
RingOrderFromFirst == [i \in 1..ringLen |-> i - 1]

\* Slots of the ring from oldest to newest.
RingOrder ==
  [i \in 1..ringLen |-> (ringPos + RingSize - ringLen + i - 1) % RingSize]

\* (fault) the walk starts one slot too late
EventsSinceSkipsOldest(last) ==
  [i \in {j \in 2..ringLen : ring[RingOrder[j]].id > last} |-> RingOrder[i]]

EventsSince(last) == [i \in {j \in 1..ringLen : ring[RingOrder[j]].id > last} |-> RingOrder[i]]

\* subscribe: mu.Lock waits for the fan-outs under way.
Subscribe(c) ==
  /\ stream[c] = "away" /\ conns[c] < MaxConn /\ FanningOut = {}
  /\ clients' = clients \cup {c}
  /\ chan' = [chan EXCEPT ![c] = <<>>]
  /\ conns' = [conns EXCEPT ![c] = @ + 1]
  /\ stream' = [stream EXCEPT ![c] = "subscribed"]
  /\ UNCHANGED <<hub, pubs, replay, lastID, history>>

\* What the full ring no longer holds: older than all it holds, but for what came late.
PushedOut ==
  {i \in EventId : ringLen = RingSize /\ \A s \in Slot : ring[s].id > i \/ ring[s].id \in late}

\* eventsSince under ringMu, if the request has a Last-Event-ID.  Events that the
\* ring no longer holds are lost to the client.
Replay(c) ==
  /\ stream[c] = "subscribed"
  /\ replay' = [replay EXCEPT ![c] = IF lastID[c] = 0 THEN <<>> ELSE EventsSince(lastID[c])]
  /\ excused' = [excused EXCEPT ![c] = IF lastID[c] = 0 THEN @ ELSE @ \cup PushedOut]
  /\ stream' = [stream EXCEPT ![c] = "replaying"]
  /\ UNCHANGED <<hub, pubs, clients, chan, lastID, conns, seen, owed, torn, late, overtaken>>

Receive(c, id) ==
  /\ seen' = [seen EXCEPT ![c] = Append(@, id)]
  /\ lastID' = [lastID EXCEPT ![c] = id]

Oldest(places) == CHOOSE i \in places : \A j \in places : i <= j

\* Reads the slot now, without the lock.
WriteReplayed(c) ==
  /\ stream[c] = "replaying" /\ DOMAIN replay[c] # {}
  /\ replay' = [replay EXCEPT ![c] = [i \in DOMAIN @ \ {Oldest(DOMAIN @)} |-> @[i]]]
  /\ LET e == ring[replay[c][Oldest(DOMAIN replay[c])]]
     IN IF e.topic \in Wants[c] THEN Receive(c, e.id) ELSE UNCHANGED <<seen, lastID>>
  /\ UNCHANGED <<hub, pubs, clients, chan, stream, conns, owed, excused, torn, late, overtaken>>

EndReplay(c) ==
  /\ stream[c] = "replaying" /\ DOMAIN replay[c] = {}
  /\ stream' = [stream EXCEPT ![c] = "streaming"]
  /\ UNCHANGED <<hub, pubs, clients, chan, replay, lastID, conns, history>>

\* (fault) events not newer than the last one are taken for repeats
WriteNewOnly(c) ==
  /\ stream[c] = "streaming" /\ chan[c] # <<>>
  /\ chan' = [chan EXCEPT ![c] = Tail(@)]
  /\ IF Head(chan[c]).id > lastID[c] THEN Receive(c, Head(chan[c]).id)
     ELSE UNCHANGED <<seen, lastID>>
  /\ UNCHANGED <<hub, pubs, clients, handler, conns, owed, excused, torn, late, overtaken>>

WriteEvent(c) ==
  /\ stream[c] = "streaming" /\ chan[c] # <<>>
  /\ chan' = [chan EXCEPT ![c] = Tail(@)]
  /\ Receive(c, Head(chan[c]).id)
  /\ UNCHANGED <<hub, pubs, clients, handler, conns, owed, excused, torn, late, overtaken>>

\* The stream breaks and the handler unsubscribes.  A client that has received
\* nothing has no id to come back with and starts anew.
Unsubscribe(c) ==
  /\ stream[c] # "away" /\ FanningOut = {}
  /\ clients' = clients \ {c}
  /\ chan' = [chan EXCEPT ![c] = <<>>]
  /\ replay' = [replay EXCEPT ![c] = <<>>]
  /\ stream' = [stream EXCEPT ![c] = "away"]
  /\ owed' = [owed EXCEPT ![c] = IF lastID[c] = 0 THEN {} ELSE @]
  /\ UNCHANGED <<hub, pubs, lastID, conns, seen, excused, torn, late, overtaken>>

-----------------------------------------------------------------------------
Init ==
  /\ nextID = 0 /\ ringPos = 0 /\ ringLen = 0
  /\ \E t \in Topic :
       /\ ring = [s \in Slot |-> [id |-> 0, topic |-> t]]
       /\ evt = [p \in Publisher |-> [id |-> 0, topic |-> t]]
  /\ pc = [p \in Publisher |-> "idle"]
  /\ todo = [p \in Publisher |-> {}]
  /\ clients = {}
  /\ chan = [c \in Client |-> <<>>]
  /\ stream = [c \in Client |-> "away"]
  /\ replay = [c \in Client |-> <<>>]
  /\ lastID = [c \in Client |-> 0]
  /\ conns = [c \in Client |-> 0]
  /\ seen = [c \in Client |-> <<>>]
  /\ owed = [c \in Client |-> {}]
  /\ excused = [c \in Client |-> {}]
  /\ torn = [c \in Client |-> FALSE]
  /\ late = {} /\ overtaken = [c \in Client |-> {}]

Publish(p) ==
  Store(p) \/ EnterFan(p) \/ (\E c \in Client : Send(p, c)) \/ LeaveFan(p)
Handle(c) == Replay(c) \/ WriteReplayed(c) \/ EndReplay(c) \/ WriteEvent(c)

Next ==
  \/ \E p \in Publisher : TakeId(p) \/ Publish(p)
  \/ \E c \in Client : Subscribe(c) \/ Handle(c) \/ Unsubscribe(c)

Spec == Init /\ [][Next]_vars

\* Go runs every goroutine that can run; nothing makes a client read.
PublisherFairness == \A p \in Publisher : WF_vars(Publish(p))
PublisherSpec == Spec /\ PublisherFairness

\* ... unless the clients keep reading, so that the handlers get to write.
HandlerFairness == \A c \in Client : WF_vars(Handle(c))

-----------------------------------------------------------------------------
(* Properties.                                                             *)

\* Types; the ring holds the last ringLen stored events and nothing twice.
TypeOK ==
  /\ nextID \in Nat /\ ringPos \in Slot /\ ringLen \in 0..RingSize
  /\ ring \in [Slot -> Event] /\ evt \in [Publisher -> Event]
  /\ pc \in [Publisher -> {"idle", "store", "stored", "fan", "done"}]
  /\ todo \in [Publisher -> SUBSET clients] /\ clients \subseteq Client
  /\ \A c \in Client : /\ Len(chan[c]) <= ChanSize /\ Elems(chan[c]) \subseteq Event
                       /\ Elems(replay[c]) \subseteq Slot
  /\ stream \in [Client -> {"away", "subscribed", "replaying", "streaming"}]
  /\ clients = {c \in Client : stream[c] # "away"}
  /\ Cardinality({ring[s].id : s \in Elems(RingOrder)} \ {0}) = ringLen

\* Subscribing before the replay and not after leaves no gap: an event due to a
\* connected client has been received, is on its way through replay, channel or
\* fan-out, or was lost by overflow of channel or ring, or because an overlapping
\* broadcast of a higher id passed it in the ring or on its way to the client,
\* which may then come back with that id.  A replay overtaken by the ring voids
\* this: the client comes back with an id ahead of what it has.
OnTheWay(c) ==
  Elems(chan[c]) \cup {ring[s] : s \in Elems(replay[c])}
    \cup {evt[p] : p \in {q \in FanningOut : c \in todo[q]}}
Coming(c) == {e.id : e \in {e \in OnTheWay(c) : e.topic \in Wants[c]}}
NoLoss ==
  \A c \in Client : ~torn[c] /\ stream[c] \in {"replaying", "streaming"} =>
    owed[c] \subseteq Seen(c) \cup Coming(c) \cup excused[c] \cup late \cup overtaken[c]

\* "eventsSince returns buffered events with ID > lastID, in order", whatever
\* the last id.
ReplaySorted ==
  LET r == EventsSince(0) IN \A i, j \in DOMAIN r : i < j => ring[r[i]].id < ring[r[j]].id

\* The replay of a full ring too starts with its oldest event: an event is behind
\* a higher id only when it was stored behind it.
ReplayAsStored ==
  LET r == EventsSince(0) IN
    \A i, j \in DOMAIN r : i < j => ring[r[i]].id < ring[r[j]].id \/ ring[r[j]].id \in late

\* A client that stays connected and reads receives what is on its way to it.
Delivered ==
  HandlerFairness =>
    \A c \in Client, i \in EventId :
      (i \in Coming(c)) ~> (i \in Seen(c) \cup excused[c] \/ torn[c] \/ stream[c] = "away")

\* No client, however slow, keeps a publisher from finishing: recordAndPublish
\* runs inside every mutation handler.
PublisherFinishes ==
  \A p \in Publisher : pc[p] = "store" ~> pc[p] = "done"
=============================================================================
