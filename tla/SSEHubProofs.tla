---------------------------- MODULE SSEHubProofs ----------------------------
(***************************************************************************)
(* What holds of the SSE hub for every number of publishers and clients,   *)
(* every size of ring and channel, and every choice of filters, however    *)
(* calls of broadcast overlap. HubIInv is about types and the ring;        *)
(* LossIInv says in which order events stand in the ring, in a channel and *)
(* in a replay, but for those that an overlapping broadcast got ahead of.  *)
(* The filters mean what they say for every pattern and topic, wildcards   *)
(* in the topic included.                                                  *)
(***************************************************************************)
EXTENDS MCSSEHub, FiniteSetTheorems, SequenceTheorems, WellFoundedInduction, TLAPS

\* How many events were stored after the one in the slot.
Age(s) == IF s < ringPos THEN ringPos - 1 - s ELSE ringPos - 1 - s + RingSize

\* An event, whatever its id.
EventType == [id : Nat, topic : Topic]

\* Types of the hub and of the publishers.
HubTypes ==
  /\ nextID \in Nat /\ ringPos \in Slot /\ ringLen \in 0..RingSize
  /\ ring \in [Slot -> EventType] /\ evt \in [Publisher -> EventType]
  /\ pc \in [Publisher -> {"idle", "store", "stored", "fan", "done"}]

\* A stream is registered until its handler ends; only a fan-out has clients left.
StreamTypes ==
  /\ stream \in [Client -> {"away", "subscribed", "replaying", "streaming"}]
  /\ clients = {c \in Client : stream[c] # "away"}
  /\ todo \in [Publisher -> SUBSET clients]
  /\ \A p \in Publisher : pc[p] # "fan" => todo[p] = {}

\* Channels are within their capacity.
ChanTypes ==
  /\ DOMAIN chan = Client
  /\ \A c \in Client : chan[c] \in Seq(EventType) /\ Len(chan[c]) <= ChanSize

\* Only a replaying handler has slots left to write.
ReplayTypes ==
  /\ DOMAIN replay = Client
  /\ \A c \in Client :
       /\ DOMAIN replay[c] \subseteq 1..RingSize /\ \A k \in DOMAIN replay[c] : replay[c][k] \in Slot
       /\ stream[c] # "replaying" => DOMAIN replay[c] = {}

\* All of these.
TypesHold == HubTypes /\ StreamTypes /\ ChanTypes /\ ReplayTypes

\* Ids are given out once, one to each publisher that has started.
IdsTaken ==
  /\ nextID = Cardinality({p \in Publisher : pc[p] # "idle"})
  /\ \A p \in Publisher : IF pc[p] = "idle" THEN evt[p].id = 0 ELSE evt[p].id \in 1..nextID
  /\ \A c \in Client : \A i \in DOMAIN chan[c] : chan[c][i].id \in 1..nextID
  /\ \A p, q \in Publisher : p # q /\ evt[p].id = evt[q].id => evt[p].id = 0

\* The publishers whose event has been stored.
Storers == {p \in Publisher : pc[p] \in {"stored", "fan", "done"}}

\* The last ringLen slots hold events, no two with the same id, and an event that was
\* stored is in the ring as it was published, or not at all.
RingHolds ==
  /\ \A s \in Slot : IF Age(s) < ringLen THEN ring[s].id \in 1..nextID ELSE ring[s].id = 0
  /\ \A s, t \in Slot : s # t /\ ring[s].id = ring[t].id => ring[s].id = 0
  /\ \A p \in Publisher, s \in Slot : pc[p] = "store" => ring[s].id # evt[p].id
  /\ \A p \in Publisher, s \in Slot : p \in Storers /\ ring[s].id = evt[p].id => ring[s] = evt[p]

\* What the hub keeps, however broadcasts overlap.
HubIInv == TypesHold /\ IdsTaken /\ RingHolds

\* An event still to be stored that no higher id got ahead of is newer than all that were.
LateKnown ==
  \A p \in Publisher, q \in Storers :
    pc[p] = "store" /\ evt[p].id \notin late => evt[q].id < evt[p].id

\* The ring holds stored events, newer ones after older ones but for those that came late;
\* one that it no longer holds is older than all it holds, but for those.
RingInOrder ==
  /\ \A s \in Slot : Age(s) < ringLen => \E q \in Storers : ring[s].id = evt[q].id
  /\ \A s, t \in Slot : Age(s) < Age(t) /\ Age(t) < ringLen =>
       ring[t].id < ring[s].id \/ ring[s].id \in late
  /\ \A q \in Storers :
       \/ \E s \in Slot : Age(s) < ringLen /\ ring[s].id = evt[q].id
       \/ /\ ringLen = RingSize
          /\ \A s \in Slot : ring[s].id > evt[q].id \/ ring[s].id \in late

\* What the client has, or may miss; what it is to have, due already or on its way; and
\* what it is to have and has not.
Had(c) == Seen(c) \cup excused[c] \cup late \cup overtaken[c]
Awaited(c) == owed[c] \cup {evt[p].id : p \in {p \in Unsent(c) : evt[p].topic \in Wants[c]}}
Missing(c) == Awaited(c) \ Had(c)

\* Ids of events the client wants: in its channel, in a fan-out to it, or in its replay.
InChan(c) == {chan[c][k].id : k \in {k \in DOMAIN chan[c] : chan[c][k].topic \in Wants[c]}}
InFan(c) ==
  {evt[p].id : p \in {p \in Publisher : pc[p] = "fan" /\ c \in todo[p] /\ evt[p].topic \in Wants[c]}}
InReplay(c) ==
  {ring[replay[c][k]].id : k \in {k \in DOMAIN replay[c] : ring[replay[c][k]].topic \in Wants[c]}}

\* The ids the replay is going to write, place by place.
Due(c) == [k \in DOMAIN replay[c] |-> ring[replay[c][k]].id]

\* Types of what is remembered of each client.
HistoryTypes ==
  /\ lastID \in [Client -> Nat] /\ seen \in [Client -> Seq(Nat)]
  /\ owed \in [Client -> SUBSET Nat] /\ excused \in [Client -> SUBSET Nat]
  /\ late \in SUBSET Nat /\ overtaken \in [Client -> SUBSET Nat]

\* The id a client comes back with was given out; what is due to it is an event it wants
\* and was stored, and a client that has received nothing and left is owed nothing.
ClientsSay ==
  \A c \in Client :
    /\ lastID[c] \in 0..nextID
    /\ \A i \in owed[c] : \E q \in Storers : i = evt[q].id /\ evt[q].topic \in Wants[c]
    /\ stream[c] = "away" /\ lastID[c] = 0 => owed[c] = {}

\* Events stand in a channel in the order of their ids, before those yet to be sent, but
\* for those that were overtaken.
ChansInOrder ==
  \A c \in Client :
    /\ \A i, j \in DOMAIN chan[c] : i < j =>
         chan[c][i].id < chan[c][j].id \/ chan[c][j].id \in overtaken[c]
    /\ \A p \in Unsent(c) : evt[p].id \notin overtaken[c] =>
         \A i \in DOMAIN chan[c] : chan[c][i].id < evt[p].id

\* The handler has read the ring, or has no need to.
Connected(c) ==
  stream[c] \in {"replaying", "streaming"} \/ (stream[c] = "subscribed" /\ lastID[c] = 0)

\* Unless a replay was overtaken by the ring: what a client misses is newer than what it
\* has, and what is due of it comes by its replay, its channel or a fan-out; the replay is
\* in order but for what came late, and what is missing is in it or newer than all of it.
NothingLost(c) ==
  ~torn[c] =>
    /\ \A i \in Missing(c) : i > lastID[c]
    /\ Connected(c) => owed[c] \ Had(c) \subseteq InChan(c) \cup InReplay(c) \cup InFan(c)
    /\ \A k, l \in DOMAIN Due(c) : k < l => Due(c)[k] < Due(c)[l] \/ Due(c)[l] \in late
    /\ \A i \in Missing(c) : (\E k \in DOMAIN Due(c) : Due(c)[k] = i)
                             \/ (\A k \in DOMAIN Due(c) : Due(c)[k] < i)

\* What is in order, but for what came late or was overtaken.
InOrder == HistoryTypes /\ LateKnown /\ RingInOrder /\ ClientsSay /\ ChansInOrder

\* What carries NoLoss.
LossIInv == InOrder /\ \A c \in Client : NothingLost(c)

\* Counting around the ring goes around once at most.
LEMMA OneTurn ==
  ASSUME NEW x \in Nat, x < 2 * RingSize
  PROVE  x % RingSize = IF x < RingSize THEN x ELSE x - RingSize
<1> USE SSEHubAssumption
<1>1. CASE x < RingSize
  BY <1>1
<1>2. CASE x >= RingSize
  BY <1>2
<1> QED
  BY <1>1, <1>2

\* The place after the last one is the first.
LEMMA NextPlace ==
  ASSUME ringPos \in Slot
  PROVE  (ringPos + 1) % RingSize = IF ringPos + 1 < RingSize THEN ringPos + 1 ELSE 0
<1> USE SSEHubAssumption DEF Slot
<1>1. ringPos + 1 \in Nat /\ ringPos + 1 < 2 * RingSize
  OBVIOUS
<1>2. (ringPos + 1) % RingSize = IF ringPos + 1 < RingSize THEN ringPos + 1 ELSE ringPos + 1 - RingSize
  BY <1>1, OneTurn
<1> QED
  BY <1>2

\* One more event is stored, and all get one older: the same are within the count.
LEMMA CappedCount ==
  ASSUME NEW a \in 0..(RingSize - 1), a # RingSize - 1, NEW n \in 0..RingSize
  PROVE  a + 1 < (IF n < RingSize THEN n + 1 ELSE n) <=> a < n
<1>1. CASE n < RingSize
  BY <1>1, SSEHubAssumption
<1>2. CASE n >= RingSize
  BY <1>2, SSEHubAssumption
<1> QED
  BY <1>1, <1>2, SSEHubAssumption

\* A set of places has a first one.
LEMMA OldestIsOne ==
  ASSUME NEW S, S \subseteq Nat, S # {}
  PROVE  Oldest(S) \in S /\ \A j \in S : Oldest(S) <= j
<1> DEFINE R == OpToRel(<, Nat)
<1>1. IsWellFoundedOn(R, Nat)
  BY NatLessThanWellFounded
<1>2. \A x, y \in Nat : x < y => <<x, y>> \in R
  BY DEF OpToRel
<1> HIDE DEF R
<1>3. PICK n \in S : \A m \in S : ~ (<<m, n>> \in R)
  BY <1>1, WFMin
<1>4. ASSUME NEW m \in S PROVE n <= m
  <2>1. ~ (<<m, n>> \in R)
    BY <1>3
  <2>2. m \in Nat /\ n \in Nat
    OBVIOUS
  <2>3. ~ (m < n)
    BY <2>1, <2>2, <1>2
  <2> QED
    BY <2>2, <2>3
<1> QED
  BY <1>4 DEF Oldest

\* eventsSince walks through the slots from the oldest event to the newest.
LEMMA RingOrderPlaces ==
  ASSUME ringPos \in Slot, ringLen \in 0..RingSize
  PROVE  /\ RingOrder \in [1..ringLen -> Slot]
         /\ \A i \in 1..ringLen : Age(RingOrder[i]) = ringLen - i
         /\ \A s \in Slot : Age(s) \in 0..(RingSize - 1)
<1> USE SSEHubAssumption DEF Slot
<1>1. ASSUME NEW i \in 1..ringLen
      PROVE  RingOrder[i] \in Slot /\ Age(RingOrder[i]) = ringLen - i
  <2> DEFINE x == ringPos + RingSize - ringLen + i - 1
  <2>1. x \in Nat /\ x < 2 * RingSize
    OBVIOUS
  <2>2. RingOrder[i] = IF x < RingSize THEN x ELSE x - RingSize
    BY <2>1, OneTurn DEF RingOrder
  <2> QED
    BY <2>1, <2>2 DEF Age
<1> QED
  BY <1>1 DEF RingOrder, Age

\* Storing an event makes its slot the newest and the others one older.
LEMMA OneOlder ==
  ASSUME ringPos \in Slot, NEW p \in Publisher, Store(p)
  PROVE  \A s \in Slot : (Age(s))' = IF s = ringPos THEN 0 ELSE Age(s) + 1
<1>1. ringPos' = IF ringPos + 1 < RingSize THEN ringPos + 1 ELSE 0
  BY NextPlace DEF Store
<1> QED
  BY <1>1, SSEHubAssumption DEF Age, Slot

\* The types of the hub are kept.
LEMMA HubTypesKept ==
  TypesHold /\ [Next]_vars => HubTypes'
<1> SUFFICES ASSUME TypesHold, [Next]_vars
             PROVE  HubTypes'
  OBVIOUS
<1> USE SSEHubAssumption DEF TypesHold, HubTypes, EventType, Slot
<1>1. ASSUME NEW p \in Publisher, TakeId(p) \/ Publish(p) PROVE HubTypes'
  <2>1. CASE TakeId(p)
    BY <2>1 DEF TakeId, hub, pubs, handler, history
  <2>2. CASE Store(p)
    BY <2>2 DEF Store, hub, pubs, handler, history
  <2>3. CASE EnterFan(p)
    BY <2>3 DEF EnterFan, hub, pubs, handler, history
  <2>4. ASSUME NEW c \in Client, Send(p, c) PROVE HubTypes'
    BY <2>4 DEF Send, hub, pubs, handler, history
  <2>5. CASE LeaveFan(p)
    BY <2>5 DEF LeaveFan, hub, pubs, handler, history
  <2> QED
    BY <1>1, <2>1, <2>2, <2>3, <2>4, <2>5 DEF Publish
<1>2. ASSUME NEW c \in Client, Subscribe(c) \/ Handle(c) \/ Unsubscribe(c) PROVE HubTypes'
  <2>1. CASE Subscribe(c)
    BY <2>1 DEF Subscribe, hub, pubs, handler, history
  <2>2. CASE Replay(c)
    BY <2>2 DEF Replay, hub, pubs, handler, history
  <2>3. CASE WriteReplayed(c)
    BY <2>3 DEF WriteReplayed, hub, pubs, handler, history, Receive
  <2>4. CASE EndReplay(c)
    BY <2>4 DEF EndReplay, hub, pubs, handler, history
  <2>5. CASE WriteEvent(c)
    BY <2>5 DEF WriteEvent, hub, pubs, handler, history, Receive
  <2>6. CASE Unsubscribe(c)
    BY <2>6 DEF Unsubscribe, hub, pubs, handler, history
  <2> QED
    BY <1>2, <2>1, <2>2, <2>3, <2>4, <2>5, <2>6 DEF Handle
<1>3. CASE UNCHANGED vars
  BY <1>3 DEF vars, hub, pubs, handler, history
<1> QED
  BY <1>1, <1>2, <1>3 DEF Next

\* A handler registers and unregisters its stream.
LEMMA StreamTypesKept ==
  TypesHold /\ [Next]_vars => StreamTypes'
<1> SUFFICES ASSUME TypesHold, [Next]_vars
             PROVE  StreamTypes'
  OBVIOUS
<1> USE SSEHubAssumption DEF TypesHold, StreamTypes, FanningOut
<1>1. ASSUME NEW p \in Publisher, TakeId(p) \/ Publish(p) PROVE StreamTypes'
  <2>1. CASE TakeId(p)
    BY <2>1 DEF TakeId, hub, pubs, handler, history
  <2>2. CASE Store(p)
    BY <2>2 DEF Store, hub, pubs, handler, history
  <2>3. CASE EnterFan(p)
    BY <2>3 DEF EnterFan, hub, pubs, handler, history, HubTypes
  <2>4. ASSUME NEW c \in Client, Send(p, c) PROVE StreamTypes'
    BY <2>4 DEF Send, hub, pubs, handler, history
  <2>5. CASE LeaveFan(p)
    BY <2>5 DEF LeaveFan, hub, pubs, handler, history
  <2> QED
    BY <1>1, <2>1, <2>2, <2>3, <2>4, <2>5 DEF Publish
<1>2. ASSUME NEW c \in Client, Subscribe(c) \/ Handle(c) \/ Unsubscribe(c) PROVE StreamTypes'
  <2>1. CASE Subscribe(c)
    BY <2>1 DEF Subscribe, hub, pubs, handler, history
  <2>2. CASE Replay(c)
    BY <2>2 DEF Replay, hub, pubs, handler, history
  <2>3. CASE WriteReplayed(c)
    BY <2>3 DEF WriteReplayed, hub, pubs, handler, history, Receive
  <2>4. CASE EndReplay(c)
    BY <2>4 DEF EndReplay, hub, pubs, handler, history
  <2>5. CASE WriteEvent(c)
    BY <2>5 DEF WriteEvent, hub, pubs, handler, history, Receive
  <2>6. CASE Unsubscribe(c)
    BY <2>6 DEF Unsubscribe, hub, pubs, handler, history
  <2> QED
    BY <1>2, <2>1, <2>2, <2>3, <2>4, <2>5, <2>6 DEF Handle
<1>3. CASE UNCHANGED vars
  BY <1>3 DEF vars, hub, pubs, handler, history
<1> QED
  BY <1>1, <1>2, <1>3 DEF Next

\* A send checks for room.
LEMMA ChanTypesKept ==
  TypesHold /\ [Next]_vars => ChanTypes'
<1> SUFFICES ASSUME TypesHold, [Next]_vars
             PROVE  ChanTypes'
  OBVIOUS
<1> USE SSEHubAssumption DEF TypesHold, ChanTypes, HubTypes
<1>1. ASSUME NEW p \in Publisher, TakeId(p) \/ Publish(p) PROVE ChanTypes'
  <2>1. CASE TakeId(p)
    BY <2>1 DEF TakeId, hub, pubs, handler, history
  <2>2. CASE Store(p)
    BY <2>2 DEF Store, hub, pubs, handler, history
  <2>3. CASE EnterFan(p)
    BY <2>3 DEF EnterFan, hub, pubs, handler, history
  <2>4. ASSUME NEW c \in Client, Send(p, c) PROVE ChanTypes'
    BY <2>4 DEF Send, hub, pubs, handler, history
  <2>5. CASE LeaveFan(p)
    BY <2>5 DEF LeaveFan, hub, pubs, handler, history
  <2> QED
    BY <1>1, <2>1, <2>2, <2>3, <2>4, <2>5 DEF Publish
<1>2. ASSUME NEW c \in Client, Subscribe(c) \/ Handle(c) \/ Unsubscribe(c) PROVE ChanTypes'
  <2>1. CASE Subscribe(c)
    BY <2>1 DEF Subscribe, hub, pubs, handler, history
  <2>2. CASE Replay(c)
    BY <2>2 DEF Replay, hub, pubs, handler, history
  <2>3. CASE WriteReplayed(c)
    BY <2>3 DEF WriteReplayed, hub, pubs, handler, history, Receive
  <2>4. CASE EndReplay(c)
    BY <2>4 DEF EndReplay, hub, pubs, handler, history
  <2>5. CASE WriteEvent(c)
    BY <2>5 DEF WriteEvent, hub, pubs, handler, history, Receive
  <2>6. CASE Unsubscribe(c)
    BY <2>6 DEF Unsubscribe, hub, pubs, handler, history
  <2> QED
    BY <1>2, <2>1, <2>2, <2>3, <2>4, <2>5, <2>6 DEF Handle
<1>3. CASE UNCHANGED vars
  BY <1>3 DEF vars, hub, pubs, handler, history
<1> QED
  BY <1>1, <1>2, <1>3 DEF Next

\* A replay takes slots of the ring.
LEMMA ReplayTypesKept ==
  TypesHold /\ [Next]_vars => ReplayTypes'
<1> SUFFICES ASSUME TypesHold, [Next]_vars
             PROVE  ReplayTypes'
  OBVIOUS
<1> USE SSEHubAssumption DEF TypesHold, ReplayTypes, StreamTypes
<1>1. ASSUME NEW p \in Publisher, TakeId(p) \/ Publish(p) PROVE ReplayTypes'
  <2>1. CASE TakeId(p)
    BY <2>1 DEF TakeId, hub, pubs, handler, history
  <2>2. CASE Store(p)
    BY <2>2 DEF Store, hub, pubs, handler, history
  <2>3. CASE EnterFan(p)
    BY <2>3 DEF EnterFan, hub, pubs, handler, history
  <2>4. ASSUME NEW c \in Client, Send(p, c) PROVE ReplayTypes'
    BY <2>4 DEF Send, hub, pubs, handler, history
  <2>5. CASE LeaveFan(p)
    BY <2>5 DEF LeaveFan, hub, pubs, handler, history
  <2> QED
    BY <1>1, <2>1, <2>2, <2>3, <2>4, <2>5 DEF Publish
<1>2. ASSUME NEW c \in Client, Subscribe(c) \/ Handle(c) \/ Unsubscribe(c) PROVE ReplayTypes'
  <2>1. CASE Subscribe(c)
    BY <2>1 DEF Subscribe, hub, pubs, handler, history
  <2>2. CASE Replay(c)
    <3>1. replay' = [replay EXCEPT ![c] = IF lastID[c] = 0 THEN <<>> ELSE EventsSince(lastID[c])]
      BY <2>2 DEF Replay
    <3>2. /\ DOMAIN EventsSince(lastID[c]) \subseteq 1..RingSize
          /\ \A k \in DOMAIN EventsSince(lastID[c]) : EventsSince(lastID[c])[k] \in Slot
      BY RingOrderPlaces DEF EventsSince, HubTypes
    <3>3. DOMAIN replay'[c] \subseteq 1..RingSize /\ \A k \in DOMAIN replay'[c] : replay'[c][k] \in Slot
      BY <3>1, <3>2
    <3>4. stream' = [stream EXCEPT ![c] = "replaying"]
      BY <2>2 DEF Replay
    <3> QED
      BY <3>1, <3>3, <3>4
  <2>3. CASE WriteReplayed(c)
    BY <2>3 DEF WriteReplayed, hub, pubs, handler, history, Receive
  <2>4. CASE EndReplay(c)
    BY <2>4 DEF EndReplay, hub, pubs, handler, history
  <2>5. CASE WriteEvent(c)
    BY <2>5 DEF WriteEvent, hub, pubs, handler, history, Receive
  <2>6. CASE Unsubscribe(c)
    BY <2>6 DEF Unsubscribe, hub, pubs, handler, history
  <2> QED
    BY <1>2, <2>1, <2>2, <2>3, <2>4, <2>5, <2>6 DEF Handle
<1>3. CASE UNCHANGED vars
  BY <1>3 DEF vars, hub, pubs, handler, history
<1> QED
  BY <1>1, <1>2, <1>3 DEF Next

\* The oldest event of a channel that is not empty, and the others.
LEMMA HeadOfChan ==
  ASSUME TypesHold, NEW c \in Client, chan[c] # <<>>
  PROVE  /\ 1 \in DOMAIN chan[c] /\ Head(chan[c]) = chan[c][1] /\ chan[c][1] \in EventType
         /\ DOMAIN Tail(chan[c]) = 1..(Len(chan[c]) - 1) /\ DOMAIN chan[c] = 1..Len(chan[c])
         /\ \A i \in DOMAIN Tail(chan[c]) : Tail(chan[c])[i] = chan[c][i + 1]
<1>1. chan[c] \in Seq(EventType)
  BY DEF TypesHold, ChanTypes
<1> QED
  BY <1>1

\* An id is taken by one publisher.
LEMMA IdsTakenKept ==
  TypesHold /\ IdsTaken /\ [Next]_vars => IdsTaken'
<1> SUFFICES ASSUME TypesHold, IdsTaken, [Next]_vars
             PROVE  IdsTaken'
  OBVIOUS
<1> USE SSEHubAssumption DEF TypesHold, HubTypes, StreamTypes, ChanTypes, EventType, IdsTaken
<1>1. ASSUME NEW p \in Publisher, TakeId(p) \/ Publish(p) PROVE IdsTaken'
  <2>1. CASE TakeId(p)
    <3>1. /\ nextID' = nextID + 1 /\ pc[p] = "idle" /\ UNCHANGED chan
          /\ pc' = [pc EXCEPT ![p] = "store"] /\ evt'[p].id = nextID + 1
          /\ \A q \in Publisher \ {p} : evt'[q] = evt[q]
      BY <2>1 DEF TakeId
    <3>2. nextID' = Cardinality({q \in Publisher : pc'[q] # "idle"})
      <4> DEFINE T == {q \in Publisher : pc[q] # "idle"}
      <4>1. {q \in Publisher : pc'[q] # "idle"} = T \cup {p} /\ p \notin T
        BY <3>1
      <4>2. IsFiniteSet(T)
        BY FS_Subset
      <4>3. Cardinality(T \cup {p}) = Cardinality(T) + 1
        BY <4>1, <4>2, FS_AddElement
      <4> QED
        BY <3>1, <4>1, <4>3
    <3>3. \A q \in Publisher \ {p} : pc'[q] = pc[q]
      BY <3>1
    <3>4. \A q \in Publisher : IF pc'[q] = "idle" THEN evt'[q].id = 0 ELSE evt'[q].id \in 1..nextID'
      BY <3>1, <3>3
    <3>5. \A q \in Publisher \ {p} : evt'[q].id # evt'[p].id
      <4>1. \A q \in Publisher : evt[q].id <= nextID
        OBVIOUS
      <4>2. evt'[p].id \in Nat /\ evt'[p].id > nextID
        BY <3>1
      <4>3. ASSUME NEW q \in Publisher \ {p} PROVE evt'[q].id # evt'[p].id
        <5>1. evt'[q].id <= nextID /\ evt'[q].id \in Nat
          BY <3>1, <4>1
        <5> QED
          BY <4>2, <5>1
      <4> QED
        BY <4>3
    <3>6. ASSUME NEW q \in Publisher, NEW r \in Publisher, q # r, evt'[q].id = evt'[r].id PROVE evt'[q].id = 0
      <4>1. q # p /\ r # p
        BY <3>5, <3>6
      <4>2. evt'[q] = evt[q] /\ evt'[r] = evt[r]
        BY <3>1, <4>1
      <4> QED
        BY <3>6, <4>2
    <3>7. \A c \in Client : \A i \in DOMAIN chan'[c] : chan'[c][i].id \in 1..nextID'
      BY <3>1
    <3> QED
      BY <3>2, <3>4, <3>6, <3>7
  <2>2. CASE Store(p)
    BY <2>2 DEF Store, hub, pubs, handler, history
  <2>3. CASE EnterFan(p)
    BY <2>3 DEF EnterFan, hub, pubs, handler, history
  <2>4. ASSUME NEW c \in Client, Send(p, c) PROVE IdsTaken'
    <3>1. UNCHANGED <<nextID, pc, evt>> /\ \A d \in Client \ {c} : chan'[d] = chan[d]
      BY <2>4 DEF Send, hub
    <3>2. chan'[c] = chan[c] \/ chan'[c] = Append(chan[c], evt[p])
      BY <2>4 DEF Send
    <3>3. evt[p].id \in 1..nextID
      BY <2>4 DEF Send
    <3>4. \A i \in DOMAIN chan'[c] : chan'[c][i].id \in 1..nextID
      <4>1. CASE chan'[c] = Append(chan[c], evt[p])
        BY <3>3, <4>1
      <4> QED
        BY <3>2, <4>1
    <3> QED
      BY <3>1, <3>4
  <2>5. CASE LeaveFan(p)
    BY <2>5 DEF LeaveFan, hub, pubs, handler, history
  <2> QED
    BY <1>1, <2>1, <2>2, <2>3, <2>4, <2>5 DEF Publish
<1>2. ASSUME NEW c \in Client, Subscribe(c) \/ Handle(c) \/ Unsubscribe(c) PROVE IdsTaken'
  <2>1. CASE Subscribe(c)
    <3>1. UNCHANGED <<nextID, pc, evt>> /\ chan' = [chan EXCEPT ![c] = <<>>]
      BY <2>1 DEF Subscribe, hub, pubs
    <3>2. \A d \in Client : \A i \in DOMAIN chan'[d] : chan'[d][i].id \in 1..nextID
      BY <3>1
    <3> QED
      BY <3>1, <3>2
  <2>2. CASE Replay(c)
    BY <2>2 DEF Replay, hub, pubs, handler, history
  <2>3. CASE WriteReplayed(c)
    BY <2>3 DEF WriteReplayed, hub, pubs, handler, history, Receive
  <2>4. CASE EndReplay(c)
    BY <2>4 DEF EndReplay, hub, pubs, handler, history
  <2>5. CASE WriteEvent(c)
    <3>1. chan[c] # <<>> /\ chan' = [chan EXCEPT ![c] = Tail(@)] /\ UNCHANGED <<nextID, pc, evt>>
      BY <2>5 DEF WriteEvent, hub, pubs
    <3>2. ASSUME NEW i \in DOMAIN Tail(chan[c]) PROVE Tail(chan[c])[i].id \in 1..nextID
      <4>1. Tail(chan[c])[i] = chan[c][i + 1] /\ i + 1 \in DOMAIN chan[c]
        BY <3>1, HeadOfChan
      <4> QED
        BY <4>1
    <3>3. \A d \in Client : chan'[d] = IF d = c THEN Tail(chan[c]) ELSE chan[d]
      BY <3>1
    <3> QED
      BY <3>1, <3>2, <3>3
  <2>6. CASE Unsubscribe(c)
    BY <2>6 DEF Unsubscribe, hub, pubs, handler, history
  <2> QED
    BY <1>2, <2>1, <2>2, <2>3, <2>4, <2>5, <2>6 DEF Handle
<1>3. CASE UNCHANGED vars
  BY <1>3 DEF vars, hub, pubs, handler, history
<1> QED
  BY <1>1, <1>2, <1>3 DEF Next

\* Storing an event overwrites the oldest slot.
LEMMA RingHoldsKept ==
  TypesHold /\ IdsTaken /\ RingHolds /\ [Next]_vars => RingHolds'
<1> SUFFICES ASSUME TypesHold, IdsTaken, RingHolds, [Next]_vars
             PROVE  RingHolds'
  OBVIOUS
<1> USE SSEHubAssumption DEF TypesHold, HubTypes, EventType, Slot, RingHolds, Age, Storers
<1>1. ASSUME NEW p \in Publisher, TakeId(p) \/ Publish(p) PROVE RingHolds'
  <2>1. CASE TakeId(p)
    BY <2>1 DEF TakeId, hub, pubs, handler, history
  <2>2. CASE Store(p)
    <3>1. /\ pc[p] = "store" /\ pc' = [pc EXCEPT ![p] = "stored"] /\ ring' = [ring EXCEPT ![ringPos] = evt[p]]
          /\ ringLen' = (IF ringLen < RingSize THEN ringLen + 1 ELSE ringLen)
          /\ UNCHANGED <<nextID, evt>>
      BY <2>2 DEF Store
    <3>2. ringPos' = IF ringPos + 1 < RingSize THEN ringPos + 1 ELSE 0
      BY <2>2, NextPlace DEF Store
    <3>3. \A s \in Slot : (Age(s))' = IF s = ringPos THEN 0 ELSE Age(s) + 1
      BY <2>2, OneOlder
    <3>4. evt[p].id \in 1..nextID
      BY <3>1 DEF IdsTaken
    <3>5. ring'[ringPos] = evt[p] /\ \A s \in Slot \ {ringPos} : ring'[s] = ring[s]
      BY <3>1
    <3>6. \A s \in Slot : Age(s) \in 0..(RingSize - 1) /\ (Age(s) = RingSize - 1 => s = ringPos)
      OBVIOUS
    <3> HIDE DEF Age
    <3>7. \A s \in Slot : IF (Age(s))' < ringLen' THEN ring'[s].id \in 1..nextID' ELSE ring'[s].id = 0
      <4>1. ASSUME NEW s \in Slot
            PROVE  IF (Age(s))' < ringLen' THEN ring'[s].id \in 1..nextID' ELSE ring'[s].id = 0
        <5>1. CASE s = ringPos
          BY <3>1, <3>3, <3>4, <3>5, <5>1
        <5>2. CASE s # ringPos
          <6>1. (Age(s))' = Age(s) + 1 /\ ring'[s] = ring[s] /\ Age(s) \in 0..(RingSize - 1) /\ Age(s) # RingSize - 1
            BY <3>3, <3>5, <3>6, <5>2
          <6>2. (Age(s))' < ringLen' <=> Age(s) < ringLen
            <7>1. Age(s) + 1 < (IF ringLen < RingSize THEN ringLen + 1 ELSE ringLen) <=> Age(s) < ringLen
              BY <6>1, CappedCount
            <7>2. (Age(s))' = Age(s) + 1 /\ ringLen' = (IF ringLen < RingSize THEN ringLen + 1 ELSE ringLen)
              BY <3>1, <6>1
            <7> QED
              BY <7>1, <7>2
          <6> QED
            BY <3>1, <6>1, <6>2
        <5> QED
          BY <5>1, <5>2
      <4> QED
        BY <4>1
    <3>8. \A s, t \in Slot : s # t /\ ring'[s].id = ring'[t].id => ring'[s].id = 0
      BY <3>1, <3>5
    <3>9. \A q \in Publisher, s \in Slot : pc'[q] = "store" => ring'[s].id # evt'[q].id
      <4>1. \A q \in Publisher : pc'[q] = "store" => q # p /\ pc[q] = "store" /\ evt[q].id # evt[p].id
        BY <3>1, <3>4 DEF IdsTaken
      <4> QED
        BY <3>1, <3>5, <4>1
    <3>10. \A q \in Publisher, s \in Slot :
             q \in Storers' /\ ring'[s].id = evt'[q].id => ring'[s] = evt'[q]
      <4>1. \A q \in Publisher \ {p} : evt[q].id # evt[p].id /\ pc'[q] = pc[q]
        BY <3>1, <3>4 DEF IdsTaken
      <4> QED
        BY <3>1, <3>5, <4>1
    <3> QED
      BY <3>7, <3>8, <3>9, <3>10
  <2>3. CASE EnterFan(p)
    BY <2>3 DEF EnterFan, hub, pubs, handler, history
  <2>4. ASSUME NEW c \in Client, Send(p, c) PROVE RingHolds'
    BY <2>4 DEF Send, hub, pubs, handler, history
  <2>5. CASE LeaveFan(p)
    BY <2>5 DEF LeaveFan, hub, pubs, handler, history
  <2> QED
    BY <1>1, <2>1, <2>2, <2>3, <2>4, <2>5 DEF Publish
<1>2. ASSUME NEW c \in Client, Subscribe(c) \/ Handle(c) \/ Unsubscribe(c) PROVE RingHolds'
  <2>1. CASE Subscribe(c)
    BY <2>1 DEF Subscribe, hub, pubs, handler, history
  <2>2. CASE Replay(c)
    BY <2>2 DEF Replay, hub, pubs, handler, history
  <2>3. CASE WriteReplayed(c)
    BY <2>3 DEF WriteReplayed, hub, pubs, handler, history, Receive
  <2>4. CASE EndReplay(c)
    BY <2>4 DEF EndReplay, hub, pubs, handler, history
  <2>5. CASE WriteEvent(c)
    BY <2>5 DEF WriteEvent, hub, pubs, handler, history, Receive
  <2>6. CASE Unsubscribe(c)
    BY <2>6 DEF Unsubscribe, hub, pubs, handler, history
  <2> QED
    BY <1>2, <2>1, <2>2, <2>3, <2>4, <2>5, <2>6 DEF Handle
<1>3. CASE UNCHANGED vars
  BY <1>3 DEF vars, hub, pubs, handler, history
<1> QED
  BY <1>1, <1>2, <1>3 DEF Next

\* An empty hub.
LEMMA HubInitially == Init => HubIInv
<1> SUFFICES ASSUME Init PROVE HubIInv
  OBVIOUS
<1> USE SSEHubAssumption DEF Init, EventType, Slot
<1>1. PICK t \in Topic : ring = [s \in Slot |-> [id |-> 0, topic |-> t]] /\ evt = [p \in Publisher |-> [id |-> 0, topic |-> t]]
  OBVIOUS
<1>2. HubTypes
  BY <1>1 DEF HubTypes
<1>3. StreamTypes /\ ChanTypes /\ ReplayTypes
  BY DEF StreamTypes, ChanTypes, ReplayTypes
<1>4. {p \in Publisher : pc[p] # "idle"} = {}
  OBVIOUS
<1>5. IdsTaken
  <2>1. nextID = Cardinality({p \in Publisher : pc[p] # "idle"})
    BY <1>4, FS_EmptySet
  <2>2. \A p \in Publisher : pc[p] = "idle" /\ evt[p].id = 0
    BY <1>1
  <2>3. \A c \in Client : DOMAIN chan[c] = {}
    OBVIOUS
  <2> HIDE DEF Init
  <2> QED
    BY <2>1, <2>2, <2>3 DEF IdsTaken
<1>6. RingHolds
  BY <1>1 DEF RingHolds, Age
<1> QED
  BY <1>2, <1>3, <1>5, <1>6 DEF HubIInv, TypesHold

\* These hold however broadcasts, streams and reconnections interleave.
LEMMA HubIInvHolds == Spec => []HubIInv
<1>1. HubIInv /\ [Next]_vars => HubIInv'
  BY HubTypesKept, StreamTypesKept, ChanTypesKept, ReplayTypesKept, IdsTakenKept, RingHoldsKept
     DEF HubIInv, TypesHold
<1> QED
  BY <1>1, HubInitially, PTL DEF Spec

\* The slots that eventsSince walks through hold as many events as ringLen says.
LEMMA RingCounts ==
  ASSUME HubIInv
  PROVE  Cardinality({ring[s].id : s \in Elems(RingOrder)} \ {0}) = ringLen
<1> DEFINE T == {ring[s].id : s \in Elems(RingOrder)} \ {0}
           f == [i \in 1..ringLen |-> ring[RingOrder[i]].id]
<1>1. /\ RingOrder \in [1..ringLen -> Slot]
      /\ \A i \in 1..ringLen : Age(RingOrder[i]) = ringLen - i
  BY RingOrderPlaces DEF HubIInv, TypesHold, HubTypes
<1>2. ringLen \in Nat
  BY SSEHubAssumption DEF HubIInv, TypesHold, HubTypes
<1>3. \A i \in 1..ringLen : ring[RingOrder[i]].id \in Nat /\ ring[RingOrder[i]].id # 0
  BY <1>1, <1>2 DEF HubIInv, TypesHold, HubTypes, RingHolds
<1>4. T = {ring[RingOrder[i]].id : i \in 1..ringLen}
  BY <1>1, <1>3 DEF Elems
<1>5. \A i, j \in 1..ringLen : f[i] = f[j] => i = j
  <2> SUFFICES ASSUME NEW i \in 1..ringLen, NEW j \in 1..ringLen, ring[RingOrder[i]].id = ring[RingOrder[j]].id
               PROVE  i = j
    OBVIOUS
  <2>1. RingOrder[i] = RingOrder[j]
    BY <1>1, <1>3 DEF HubIInv, RingHolds
  <2>2. ringLen - i = ringLen - j
    BY <1>1, <2>1
  <2> QED
    BY <1>2, <2>2
<1>6. f \in [1..ringLen -> T]
  BY <1>4
<1>7. \A t \in T : \E i \in 1..ringLen : f[i] = t
  BY <1>4
<1> HIDE DEF T, f
<1>8. ExistsBijection(1..ringLen, T)
  <2>1. f \in Injection(1..ringLen, T)
    BY <1>5, <1>6 DEF Injection, IsInjective
  <2>2. f \in Surjection(1..ringLen, T)
    BY <1>6, <1>7 DEF Surjection
  <2> QED
    BY <2>1, <2>2 DEF ExistsBijection, Bijection
<1>9. IsFiniteSet(1..ringLen) /\ Cardinality(1..ringLen) = ringLen
  BY <1>2, FS_Interval
<1>10. Cardinality(T) = Cardinality(1..ringLen)
  BY <1>8, <1>9, FS_Bijection
<1> QED
  BY <1>9, <1>10 DEF T

\* Types, and "the ring holds the last ringLen stored events and nothing twice", however
\* calls of broadcast overlap (sseHub.broadcast, sseHub.eventsSince).
THEOREM SSEHubTypeCorrect == Spec => []TypeOK
<1>1. HubIInv => TypeOK
  <2> SUFFICES ASSUME HubIInv PROVE TypeOK
    OBVIOUS
  <2> USE DEF HubIInv, TypesHold
  <2>1. nextID \in Nat /\ nextID <= Cardinality(Publisher) /\ Cardinality(Publisher) \in Nat
    BY SSEHubAssumption, FS_Subset, FS_CardinalityType DEF HubTypes, IdsTaken
  <2>2. \A e \in EventType : e.id \in 0..nextID => e \in Event
    BY <2>1 DEF EventType, Event, EventId
  <2>3. \A s \in Slot : ring[s].id \in 0..nextID
    BY <2>1 DEF RingHolds
  <2>4. \A p \in Publisher : evt[p].id \in 0..nextID
    BY <2>1 DEF IdsTaken
  <2>5. ring \in [Slot -> Event] /\ evt \in [Publisher -> Event]
    BY <2>2, <2>3, <2>4 DEF HubTypes
  <2>6. \A c \in Client : Elems(chan[c]) \subseteq Event
    <3>1. ASSUME NEW c \in Client, NEW i \in DOMAIN chan[c] PROVE chan[c][i] \in Event
      <4>1. chan[c] \in Seq(EventType) /\ chan[c][i].id \in 1..nextID
        BY DEF IdsTaken, ChanTypes
      <4>2. chan[c][i] \in EventType
        BY <4>1
      <4> QED
        BY <2>1, <2>2, <4>1, <4>2
    <3> QED
      BY <3>1 DEF Elems
  <2>7. \A c \in Client : Elems(replay[c]) \subseteq Slot
    BY DEF ReplayTypes, Elems
  <2> QED
    BY <2>5, <2>6, <2>7, RingCounts DEF TypeOK, HubTypes, StreamTypes, ChanTypes
<1> QED
  BY <1>1, HubIInvHolds, PTL

\* A sequence with one more element.
LEMMA AddedElems ==
  ASSUME NEW S, NEW s \in Seq(S), NEW x \in S
  PROVE  Elems(Append(s, x)) = Elems(s) \cup {x}
<1> DEFINE t == Append(s, x)
<1>1. /\ Len(s) \in Nat /\ DOMAIN s = 1..Len(s) /\ DOMAIN t = 1..(Len(s) + 1)
      /\ t[Len(s) + 1] = x /\ \A i \in 1..Len(s) : t[i] = s[i]
  OBVIOUS
<1> HIDE DEF t
<1>2. ASSUME NEW y \in Elems(t) PROVE y \in Elems(s) \cup {x}
  BY <1>1, <1>2 DEF Elems
<1>3. ASSUME NEW y \in Elems(s) PROVE y \in Elems(t)
  BY <1>1, <1>3 DEF Elems
<1>4. x \in Elems(t)
  BY <1>1 DEF Elems
<1> QED
  BY <1>2, <1>3, <1>4 DEF t

\* Receiving an event adds its id to what the client has.
LEMMA Received ==
  ASSUME HistoryTypes, NEW c \in Client, NEW id \in Nat, Receive(c, id)
  PROVE  /\ lastID' \in [Client -> Nat] /\ seen' \in [Client -> Seq(Nat)]
         /\ lastID'[c] = id /\ Seen(c)' = Seen(c) \cup {id}
         /\ \A d \in Client : d # c => lastID'[d] = lastID[d] /\ seen'[d] = seen[d]
<1> USE DEF HistoryTypes, Receive
<1>1. seen'[c] = Append(seen[c], id) /\ seen[c] \in Seq(Nat)
  OBVIOUS
<1>2. Elems(Append(seen[c], id)) = Elems(seen[c]) \cup {id}
  <2>1. \A s \in Seq(Nat), x \in Nat : Elems(Append(s, x)) = Elems(s) \cup {x}
    BY AddedElems
  <2> QED
    BY <1>1, <2>1
<1>3. seen' \in [Client -> Seq(Nat)]
  OBVIOUS
<1> QED
  BY <1>1, <1>2, <1>3 DEF Seen

\* The steps of a stream's handler publish nothing.
LEMMA HandlersPublishNothing ==
  ASSUME NEW c \in Client, Subscribe(c) \/ Handle(c) \/ Unsubscribe(c)
  PROVE  UNCHANGED <<nextID, ring, ringPos, ringLen, pc, evt, todo, torn, late, overtaken>>
<1>1. CASE Subscribe(c)
  BY <1>1 DEF Subscribe, hub, pubs, history
<1>2. CASE Replay(c)
  BY <1>2 DEF Replay, hub, pubs
<1>3. CASE WriteReplayed(c)
  BY <1>3 DEF WriteReplayed, hub, pubs
<1>4. CASE EndReplay(c)
  BY <1>4 DEF EndReplay, hub, pubs, history
<1>5. CASE WriteEvent(c)
  BY <1>5 DEF WriteEvent, hub, pubs
<1>6. CASE Unsubscribe(c)
  BY <1>6 DEF Unsubscribe, hub, pubs
<1> QED
  BY <1>1, <1>2, <1>3, <1>4, <1>5, <1>6 DEF Handle

\* The replay writes the first slot left, if its event is wanted.
LEMMA ReplayedEvent ==
  ASSUME TypesHold, NEW c \in Client, WriteReplayed(c)
  PROVE  LET P == DOMAIN replay[c]
             n == Oldest(P)
             e == ring[replay[c][n]]
         IN  /\ n \in P /\ (\A k \in P : n <= k) /\ P \subseteq Nat
             /\ replay[c][n] \in Slot /\ e \in EventType
             /\ DOMAIN replay'[c] = P \ {n}
             /\ \A k \in P \ {n} : replay'[c][k] = replay[c][k]
             /\ \A d \in Client : d # c => replay'[d] = replay[d]
             /\ \/ e.topic \in Wants[c] /\ Receive(c, e.id)
                \/ e.topic \notin Wants[c] /\ UNCHANGED <<seen, lastID>>
<1> DEFINE P == DOMAIN replay[c]
           n == Oldest(P)
<1>1. P \subseteq Nat /\ P # {}
  BY DEF WriteReplayed, TypesHold, ReplayTypes
<1>2. n \in P /\ \A k \in P : n <= k
  BY <1>1, OldestIsOne
<1>3. replay[c][n] \in Slot /\ ring[replay[c][n]] \in EventType
  BY <1>2 DEF TypesHold, ReplayTypes, HubTypes
<1>4. /\ replay' = [replay EXCEPT ![c] = [i \in P \ {n} |-> replay[c][i]]]
      /\ \/ ring[replay[c][n]].topic \in Wants[c] /\ Receive(c, ring[replay[c][n]].id)
         \/ ring[replay[c][n]].topic \notin Wants[c] /\ UNCHANGED <<seen, lastID>>
  BY DEF WriteReplayed
<1> HIDE DEF n, P
<1>5. /\ DOMAIN replay'[c] = P \ {n} /\ \A k \in P \ {n} : replay'[c][k] = replay[c][k]
      /\ \A d \in Client : d # c => replay'[d] = replay[d]
  BY <1>4 DEF TypesHold, ReplayTypes
<1> QED
  BY <1>1, <1>2, <1>3, <1>4, <1>5 DEF n, P

\* Ids are natural numbers.
LEMMA HistoryTypesKept ==
  TypesHold /\ HistoryTypes /\ [Next]_vars => HistoryTypes'
<1> SUFFICES ASSUME TypesHold, HistoryTypes, [Next]_vars
             PROVE  HistoryTypes'
  OBVIOUS
<1> USE SSEHubAssumption DEF TypesHold, HistoryTypes
<1>0. \A P \in SUBSET Publisher, i \in Nat : IdsBelow(P, i) \subseteq Nat
  BY DEF IdsBelow, HubTypes, EventType
<1>1. ASSUME NEW p \in Publisher, TakeId(p) \/ Publish(p) PROVE HistoryTypes'
  <2>0. evt[p].id \in Nat
    BY DEF HubTypes, EventType
  <2>1. CASE TakeId(p)
    BY <2>1 DEF TakeId, history
  <2>2. CASE Store(p)
    <3>1. UNCHANGED <<lastID, seen, owed, excused, overtaken>>
      BY <2>2 DEF Store
    <3>2. late' \in SUBSET Nat
      <4>1. late' = late \cup IdsBelow({q \in Publisher : pc[q] = "store"}, evt[p].id)
        BY <2>2 DEF Store
      <4>2. IdsBelow({q \in Publisher : pc[q] = "store"}, evt[p].id) \subseteq Nat
        BY <1>0, <2>0
      <4> QED
        BY <4>1, <4>2
    <3> QED
      BY <3>1, <3>2
  <2>3. CASE EnterFan(p)
    BY <2>0, <2>3 DEF EnterFan
  <2>4. ASSUME NEW c \in Client, Send(p, c) PROVE HistoryTypes'
    <3>1. UNCHANGED <<lastID, seen, owed, late>>
      BY <2>4 DEF Send
    <3>2. excused' = excused \/ excused' = [excused EXCEPT ![c] = @ \cup {evt[p].id}]
      BY <2>4 DEF Send
    <3>3. overtaken' = overtaken \/ overtaken' = [overtaken EXCEPT ![c] = @ \cup IdsBelow(Unsent(c), evt[p].id)]
      BY <2>4 DEF Send
    <3>4. IdsBelow(Unsent(c), evt[p].id) \subseteq Nat
      BY <1>0, <2>0 DEF Unsent
    <3>5. excused' \in [Client -> SUBSET Nat]
      BY <2>0, <3>2
    <3>6. overtaken' \in [Client -> SUBSET Nat]
      BY <3>3, <3>4
    <3> QED
      BY <3>1, <3>5, <3>6
  <2>5. CASE LeaveFan(p)
    BY <2>5 DEF LeaveFan, history
  <2> QED
    BY <1>1, <2>1, <2>2, <2>3, <2>4, <2>5 DEF Publish
<1>2. ASSUME NEW c \in Client, Subscribe(c) \/ Handle(c) \/ Unsubscribe(c) PROVE HistoryTypes'
  <2>1. CASE Subscribe(c)
    BY <2>1 DEF Subscribe, history
  <2>2. CASE Replay(c)
    <3>1. PushedOut \subseteq Nat
      BY DEF PushedOut, EventId
    <3> QED
      BY <2>2, <3>1 DEF Replay
  <2>3. CASE WriteReplayed(c)
    <3>1. UNCHANGED <<owed, excused, late, overtaken>>
      BY <2>3 DEF WriteReplayed
    <3>2. CASE UNCHANGED <<seen, lastID>>
      BY <3>1, <3>2
    <3>3. ring[replay[c][Oldest(DOMAIN replay[c])]].id \in Nat
      BY <2>3, ReplayedEvent DEF EventType
    <3>4. CASE Receive(c, ring[replay[c][Oldest(DOMAIN replay[c])]].id)
      BY <3>1, <3>3, <3>4, Received
    <3> QED
      BY <2>3, <3>2, <3>4 DEF WriteReplayed
  <2>4. CASE EndReplay(c)
    BY <2>4 DEF EndReplay, history
  <2>5. CASE WriteEvent(c)
    <3>1. Head(chan[c]).id \in Nat
      BY <2>5, HeadOfChan DEF WriteEvent, EventType
    <3> QED
      BY <2>5, <3>1, Received DEF WriteEvent
  <2>6. CASE Unsubscribe(c)
    BY <2>6 DEF Unsubscribe
  <2> QED
    BY <1>2, <2>1, <2>2, <2>3, <2>4, <2>5, <2>6 DEF Handle
<1>3. CASE UNCHANGED vars
  BY <1>3 DEF vars, history
<1> QED
  BY <1>1, <1>2, <1>3 DEF Next

\* Only Store makes a publisher one of those whose event was stored.
LEMMA StorersSteps ==
  ASSUME HubTypes, NEW p \in Publisher
  PROVE  /\ UNCHANGED pc => Storers' = Storers
         /\ TakeId(p) => Storers' = Storers /\ p \notin Storers /\ \A q \in Publisher \ {p} : evt'[q] = evt[q]
         /\ EnterFan(p) => Storers' = Storers /\ p \in Storers /\ evt' = evt
         /\ LeaveFan(p) => Storers' = Storers /\ evt' = evt
         /\ Store(p) => Storers' = Storers \cup {p} /\ p \notin Storers /\ evt' = evt
<1>1. ASSUME TakeId(p)
      PROVE  Storers' = Storers /\ p \notin Storers /\ \A q \in Publisher \ {p} : evt'[q] = evt[q]
  BY <1>1 DEF TakeId, Storers, HubTypes
<1>2. ASSUME EnterFan(p) PROVE Storers' = Storers /\ p \in Storers /\ evt' = evt
  BY <1>2 DEF EnterFan, Storers, HubTypes
<1>3. ASSUME LeaveFan(p) PROVE Storers' = Storers /\ evt' = evt
  BY <1>3 DEF LeaveFan, Storers, HubTypes
<1>4. ASSUME Store(p) PROVE Storers' = Storers \cup {p} /\ p \notin Storers /\ evt' = evt
  BY <1>4 DEF Store, Storers, HubTypes
<1>5. UNCHANGED pc => Storers' = Storers
  BY DEF Storers
<1> QED
  BY <1>1, <1>2, <1>3, <1>4, <1>5

\* Which publishers have started, and with which ids.
LEMMA StorersIds ==
  ASSUME HubTypes, IdsTaken
  PROVE  /\ \A q \in Storers : q \in Publisher /\ evt[q].id \in 1..nextID /\ pc[q] # "idle" /\ pc[q] # "store"
         /\ \A p \in Publisher : pc[p] # "idle" => pc[p] = "store" \/ p \in Storers
BY DEF Storers, HubTypes, IdsTaken

\* A step that stores nothing and takes no id leaves the ring and what came late alone.
LEMMA RingAlone ==
  ASSUME UNCHANGED <<ring, ringPos, ringLen, evt, late>>, Storers' = Storers,
         \A p \in Publisher : pc'[p] = "store" => pc[p] = "store"
  PROVE  (LateKnown => LateKnown') /\ (RingInOrder => RingInOrder')
<1>1. LateKnown => LateKnown'
  BY DEF LateKnown
<1>2. \A s \in Slot : (Age(s))' = Age(s)
  BY DEF Age
<1>3. RingInOrder => RingInOrder'
  BY <1>2 DEF RingInOrder
<1> QED
  BY <1>1, <1>3

\* An id that storing has passed over comes late.
LEMMA LateKnownKept ==
  TypesHold /\ IdsTaken /\ LateKnown /\ [Next]_vars => LateKnown'
<1> SUFFICES ASSUME TypesHold, IdsTaken, LateKnown, [Next]_vars
             PROVE  LateKnown'
  OBVIOUS
<1> USE DEF TypesHold
<1>1. ASSUME NEW p \in Publisher, TakeId(p) \/ Publish(p) PROVE LateKnown'
  <2>1. CASE TakeId(p)
    <3>1. Storers' = Storers /\ p \notin Storers /\ \A q \in Publisher \ {p} : evt'[q] = evt[q]
      BY <2>1, StorersSteps
    <3>2. /\ evt'[p].id = nextID + 1 /\ late' = late
          /\ \A x \in Publisher \ {p} : pc'[x] = pc[x]
      BY <2>1 DEF TakeId, HubTypes, history
    <3>3. \A q \in Storers : q \in Publisher /\ evt'[q].id = evt[q].id /\ evt[q].id \in 1..nextID
      BY <3>1, StorersIds
    <3>4. nextID \in Nat
      BY DEF HubTypes
    <3>5. \A q \in Storers : evt'[q].id < evt'[p].id
      BY <3>2, <3>3, <3>4
    <3>6. ASSUME NEW x \in Publisher \ {p}, NEW q \in Storers, pc'[x] = "store", evt'[x].id \notin late'
          PROVE  evt'[q].id < evt'[x].id
      BY <3>1, <3>2, <3>3, <3>6 DEF LateKnown
    <3> QED
      BY <3>1, <3>5, <3>6 DEF LateKnown
  <2>2. CASE Store(p)
    <3>1. Storers' = Storers \cup {p} /\ evt' = evt
      BY <2>2, StorersSteps
    <3>2. /\ late' = late \cup IdsBelow({q \in Publisher : pc[q] = "store"}, evt[p].id)
          /\ pc[p] = "store" /\ pc' = [pc EXCEPT ![p] = "stored"]
      BY <2>2 DEF Store
    <3>3. ASSUME NEW x \in Publisher, NEW q \in Storers', pc'[x] = "store", evt[x].id \notin late'
          PROVE  evt[q].id < evt[x].id
      <4>1. x # p /\ pc[x] = "store"
        BY <3>2, <3>3 DEF HubTypes
      <4>2. CASE q \in Storers
        BY <3>2, <3>3, <4>1, <4>2 DEF LateKnown
      <4>3. CASE q = p
        <5>1. evt[x].id \in 1..nextID /\ evt[p].id \in 1..nextID /\ evt[x].id # evt[p].id
          BY <3>2, <4>1 DEF IdsTaken
        <5>2. ~ (evt[x].id < evt[p].id)
          BY <3>2, <3>3, <4>1 DEF IdsBelow
        <5> QED
          BY <4>3, <5>1, <5>2
      <4> QED
        BY <3>1, <3>3, <4>2, <4>3
    <3> QED
      BY <3>1, <3>3 DEF LateKnown
  <2>3. CASE EnterFan(p)
    BY <2>3, RingAlone, StorersSteps DEF EnterFan, hub, HubTypes
  <2>4. ASSUME NEW c \in Client, Send(p, c) PROVE LateKnown'
    BY <2>4, RingAlone, StorersSteps DEF Send, hub
  <2>5. CASE LeaveFan(p)
    BY <2>5, RingAlone, StorersSteps DEF LeaveFan, hub, HubTypes, history
  <2> QED
    BY <1>1, <2>1, <2>2, <2>3, <2>4, <2>5 DEF Publish
<1>2. ASSUME NEW c \in Client, Subscribe(c) \/ Handle(c) \/ Unsubscribe(c) PROVE LateKnown'
  <2>1. UNCHANGED <<nextID, ring, ringPos, ringLen, pc, evt, late>> /\ Storers' = Storers
    BY <1>2, HandlersPublishNothing DEF Storers
  <2> QED
    BY <2>1, RingAlone
<1>3. CASE UNCHANGED vars
  BY <1>3, RingAlone DEF vars, hub, pubs, history, Storers
<1> QED
  BY <1>1, <1>2, <1>3 DEF Next

\* A full ring drops its oldest event; an id that comes late is out of order, and no other.
LEMMA StoreKeepsOrder ==
  ASSUME TypesHold, IdsTaken, RingHolds, LateKnown, RingInOrder, NEW p \in Publisher, Store(p)
  PROVE  RingInOrder'
<1> USE SSEHubAssumption DEF TypesHold
<1>1. /\ pc[p] = "store" /\ ring' = [ring EXCEPT ![ringPos] = evt[p]] /\ ringPos \in Slot
      /\ ringLen' = (IF ringLen < RingSize THEN ringLen + 1 ELSE ringLen) /\ ringLen \in 0..RingSize
      /\ late \subseteq late'
  BY DEF Store, HubTypes
<1>2. Storers' = Storers \cup {p} /\ evt' = evt
  BY StorersSteps
<1>3. ring'[ringPos] = evt[p] /\ \A s \in Slot \ {ringPos} : ring'[s] = ring[s]
  BY <1>1 DEF HubTypes
<1>4. \A s \in Slot : (Age(s))' = IF s = ringPos THEN 0 ELSE Age(s) + 1
  BY <1>1, OneOlder
<1>5. /\ \A s \in Slot : Age(s) \in 0..(RingSize - 1) /\ (Age(s) = RingSize - 1 => s = ringPos)
      /\ Age(ringPos) = RingSize - 1
  BY <1>1 DEF Age, Slot
<1> HIDE DEF Age
<1>6. ASSUME NEW s \in Slot, s # ringPos
      PROVE  /\ (Age(s))' = Age(s) + 1 /\ ring'[s] = ring[s] /\ Age(s) \in Nat
             /\ (Age(s))' < ringLen' <=> Age(s) < ringLen
  <2>1. (Age(s))' = Age(s) + 1 /\ ring'[s] = ring[s] /\ Age(s) \in 0..(RingSize - 1) /\ Age(s) # RingSize - 1
    BY <1>3, <1>4, <1>5, <1>6
  <2>2. Age(s) + 1 < (IF ringLen < RingSize THEN ringLen + 1 ELSE ringLen) <=> Age(s) < ringLen
    BY <1>1, <2>1, CappedCount
  <2> QED
    BY <1>1, <2>1, <2>2
<1>7. 0 < ringLen' /\ \A s \in Slot : s = ringPos => (Age(s))' = 0
  BY <1>1, <1>4
<1>8. \A q \in Storers : evt[p].id \in late \/ evt[q].id < evt[p].id
  BY <1>1 DEF LateKnown
<1>9. \A q \in Storers \cup {p} : evt[q].id \in 1..nextID
  BY <1>1, StorersIds DEF IdsTaken
<1>10. ASSUME NEW s \in Slot, (Age(s))' < ringLen' PROVE \E q \in Storers' : ring'[s].id = evt'[q].id
  <2>1. CASE s = ringPos
    BY <1>2, <1>3, <2>1
  <2>2. CASE s # ringPos
    BY <1>2, <1>6, <1>10, <2>2 DEF RingInOrder
  <2> QED
    BY <2>1, <2>2
<1>11. ASSUME NEW s \in Slot, NEW t \in Slot, (Age(s))' < (Age(t))', (Age(t))' < ringLen'
       PROVE  ring'[t].id < ring'[s].id \/ ring'[s].id \in late'
  <2>1. t # ringPos /\ Age(t) < ringLen /\ ring'[t] = ring[t]
    <3>1. (Age(s))' \in Nat
      BY <1>4, <1>5
    <3>2. t # ringPos
      BY <1>7, <1>11, <3>1
    <3> QED
      BY <1>6, <1>11, <3>2
  <2>2. CASE s = ringPos
    <3>1. PICK q \in Storers : ring[t].id = evt[q].id
      BY <2>1 DEF RingInOrder
    <3> QED
      BY <1>1, <1>3, <1>8, <2>1, <2>2, <3>1
  <2>3. CASE s # ringPos
    <3>1. Age(s) < Age(t) /\ ring'[s] = ring[s]
      BY <1>6, <1>11, <2>1, <2>3
    <3>2. ring[t].id < ring[s].id \/ ring[s].id \in late
      BY <2>1, <3>1 DEF RingInOrder
    <3> QED
      BY <1>1, <2>1, <3>1, <3>2
  <2> QED
    BY <2>2, <2>3
<1>12. ASSUME NEW q \in Storers'
       PROVE  \/ \E s \in Slot : (Age(s))' < ringLen' /\ ring'[s].id = evt'[q].id
              \/ /\ ringLen' = RingSize
                 /\ \A s \in Slot : ring'[s].id > evt'[q].id \/ ring'[s].id \in late'
  <2>1. CASE q = p
    <3>1. PICK s \in Slot : s = ringPos
      BY <1>1
    <3>2. (Age(s))' < ringLen' /\ ring'[s].id = evt'[q].id
      BY <1>1, <1>2, <1>3, <1>7, <2>1, <3>1
    <3> QED
      BY <3>2
  <2>2. CASE \E s \in Slot \ {ringPos} : Age(s) < ringLen /\ ring[s].id = evt[q].id
    BY <1>2, <1>6, <2>2
  <2>3. CASE q \in Storers /\ Age(ringPos) < ringLen /\ ring[ringPos].id = evt[q].id
    <3>1. ringLen = RingSize /\ ringLen' = RingSize
      BY <1>1, <1>5, <2>3
    <3>2. ASSUME NEW s \in Slot PROVE ring'[s].id > evt[q].id \/ ring'[s].id \in late'
      <4>1. CASE s = ringPos
        BY <1>1, <1>3, <1>8, <1>9, <2>3, <4>1
      <4>2. CASE s # ringPos
        <5>1. Age(s) < Age(ringPos)
          BY <1>5, <4>2
        <5>2. ring[ringPos].id < ring[s].id \/ ring[s].id \in late
          BY <1>1, <2>3, <5>1 DEF RingInOrder
        <5>3. ring[s].id \in Nat
          BY DEF HubTypes, EventType
        <5> QED
          BY <1>1, <1>3, <1>9, <2>3, <4>2, <5>2, <5>3
      <4> QED
        BY <4>1, <4>2
    <3> QED
      BY <1>2, <3>1, <3>2
  <2>4. CASE q \in Storers /\ ringLen = RingSize /\ \A s \in Slot : ring[s].id > evt[q].id \/ ring[s].id \in late
    <3>1. ringLen' = RingSize
      BY <1>1, <2>4
    <3>2. ASSUME NEW s \in Slot PROVE ring'[s].id > evt[q].id \/ ring'[s].id \in late'
      <4>1. CASE s = ringPos
        BY <1>1, <1>3, <1>8, <1>9, <2>4, <4>1
      <4>2. CASE s # ringPos
        BY <1>1, <1>3, <2>4, <4>2
      <4> QED
        BY <4>1, <4>2
    <3> QED
      BY <1>2, <3>1, <3>2
  <2>5. q \in Storers =>
          \/ \E s \in Slot : Age(s) < ringLen /\ ring[s].id = evt[q].id
          \/ ringLen = RingSize /\ \A s \in Slot : ring[s].id > evt[q].id \/ ring[s].id \in late
    BY DEF RingInOrder
  <2> QED
    BY <1>2, <2>1, <2>2, <2>3, <2>4, <2>5
<1> QED
  BY <1>10, <1>11, <1>12 DEF RingInOrder

\* Nothing else writes to the ring.
LEMMA RingInOrderKept ==
  TypesHold /\ IdsTaken /\ RingHolds /\ LateKnown /\ RingInOrder /\ [Next]_vars => RingInOrder'
<1> SUFFICES ASSUME TypesHold, IdsTaken, RingHolds, LateKnown, RingInOrder, [Next]_vars
             PROVE  RingInOrder'
  OBVIOUS
<1> USE DEF TypesHold
<1>1. ASSUME NEW p \in Publisher, TakeId(p) \/ Publish(p) PROVE RingInOrder'
  <2>1. CASE TakeId(p)
    <3>1. /\ UNCHANGED <<ring, ringPos, ringLen, late>> /\ Storers' = Storers
          /\ \A q \in Storers : evt'[q] = evt[q]
      BY <2>1, StorersSteps DEF TakeId, history, Storers
    <3>2. \A s \in Slot : (Age(s))' = Age(s)
      BY <3>1 DEF Age
    <3> QED
      BY <3>1, <3>2 DEF RingInOrder
  <2>2. CASE Store(p)
    BY <2>2, StoreKeepsOrder
  <2>3. CASE EnterFan(p)
    BY <2>3, RingAlone, StorersSteps DEF EnterFan, hub, HubTypes
  <2>4. ASSUME NEW c \in Client, Send(p, c) PROVE RingInOrder'
    BY <2>4, RingAlone, StorersSteps DEF Send, hub
  <2>5. CASE LeaveFan(p)
    BY <2>5, RingAlone, StorersSteps DEF LeaveFan, hub, HubTypes, history
  <2> QED
    BY <1>1, <2>1, <2>2, <2>3, <2>4, <2>5 DEF Publish
<1>2. ASSUME NEW c \in Client, Subscribe(c) \/ Handle(c) \/ Unsubscribe(c) PROVE RingInOrder'
  <2>1. UNCHANGED <<nextID, ring, ringPos, ringLen, pc, evt, late>> /\ Storers' = Storers
    BY <1>2, HandlersPublishNothing DEF Storers
  <2> QED
    BY <2>1, RingAlone
<1>3. CASE UNCHANGED vars
  BY <1>3, RingAlone DEF vars, hub, pubs, history, Storers
<1> QED
  BY <1>1, <1>2, <1>3 DEF Next

\* An event is due from its fan-out on; ids received were given out.
LEMMA ClientsSayKept ==
  TypesHold /\ IdsTaken /\ RingHolds /\ HistoryTypes /\ ClientsSay /\ [Next]_vars => ClientsSay'
<1> SUFFICES ASSUME TypesHold, IdsTaken, RingHolds, HistoryTypes, ClientsSay, [Next]_vars
             PROVE  ClientsSay'
  OBVIOUS
<1> USE DEF TypesHold
<1>0. nextID \in Nat
  BY DEF HubTypes
<1>1. ASSUME NEW p \in Publisher, TakeId(p) \/ Publish(p) PROVE ClientsSay'
  <2>1. CASE TakeId(p)
    <3>1. Storers' = Storers /\ \A q \in Storers : evt'[q] = evt[q]
      BY <2>1, StorersSteps, StorersIds
    <3>2. UNCHANGED <<owed, stream, lastID>> /\ nextID' = nextID + 1
      BY <2>1 DEF TakeId, handler, history
    <3>3. \A d \in Client : lastID[d] \in 0..nextID'
      BY <1>0, <3>2 DEF ClientsSay
    <3> QED
      BY <3>1, <3>2, <3>3 DEF ClientsSay
  <2>2. CASE Store(p)
    <3>1. Storers \subseteq Storers' /\ evt' = evt
      BY <2>2, StorersSteps
    <3>2. UNCHANGED <<owed, stream, lastID, nextID>>
      BY <2>2 DEF Store, handler
    <3> QED
      BY <3>1, <3>2 DEF ClientsSay
  <2>3. CASE EnterFan(p)
    <3>1. Storers' = Storers /\ p \in Storers /\ evt' = evt
      BY <2>3, StorersSteps
    <3>2. UNCHANGED <<stream, lastID, nextID>>
      BY <2>3 DEF EnterFan, handler, hub
    <3>3. \A d \in Client : \/ owed'[d] = owed[d]
                            \/ /\ owed'[d] = owed[d] \cup {evt[p].id} /\ evt[p].topic \in Wants[d]
                               /\ d \in clients \/ lastID[d] # 0
      BY <2>3 DEF EnterFan
    <3>4. \A d \in Client : d \in clients => stream[d] # "away"
      BY DEF StreamTypes
    <3> QED
      BY <3>1, <3>2, <3>3, <3>4 DEF ClientsSay
  <2>4. ASSUME NEW c \in Client, Send(p, c) PROVE ClientsSay'
    <3>1. Storers' = Storers /\ UNCHANGED <<evt, nextID, stream, lastID, owed>>
      BY <2>4 DEF Send, hub, handler, Storers
    <3> QED
      BY <3>1 DEF ClientsSay
  <2>5. CASE LeaveFan(p)
    <3>1. Storers' = Storers /\ UNCHANGED <<evt, nextID, stream, lastID, owed>>
      BY <2>5, StorersSteps DEF LeaveFan, hub, handler, history
    <3> QED
      BY <3>1 DEF ClientsSay
  <2> QED
    BY <1>1, <2>1, <2>2, <2>3, <2>4, <2>5 DEF Publish
<1>2. ASSUME NEW c \in Client, Subscribe(c) \/ Handle(c) \/ Unsubscribe(c) PROVE ClientsSay'
  <2>1. Storers' = Storers /\ UNCHANGED <<evt, nextID>>
    BY <1>2, HandlersPublishNothing DEF Storers
  <2>2. CASE UNCHANGED <<owed, lastID>> /\ \A d \in Client : stream'[d] = "away" => stream[d] = "away"
    BY <2>1, <2>2 DEF ClientsSay
  <2>3. CASE Subscribe(c)
    <3>1. UNCHANGED <<owed, lastID>> /\ stream' = [stream EXCEPT ![c] = "subscribed"]
      BY <2>3 DEF Subscribe, history
    <3> QED
      BY <2>2, <3>1 DEF StreamTypes
  <2>4. CASE Replay(c)
    <3>1. UNCHANGED <<owed, lastID>> /\ stream' = [stream EXCEPT ![c] = "replaying"]
      BY <2>4 DEF Replay
    <3> QED
      BY <2>2, <3>1 DEF StreamTypes
  <2>5. CASE EndReplay(c)
    <3>1. UNCHANGED <<owed, lastID>> /\ stream' = [stream EXCEPT ![c] = "streaming"]
      BY <2>5 DEF EndReplay, history
    <3> QED
      BY <2>2, <3>1 DEF StreamTypes
  <2>6. ASSUME NEW id \in 0..nextID, Receive(c, id), UNCHANGED <<owed, stream>>, stream[c] # "away"
        PROVE  ClientsSay'
    <3>1. id \in Nat
      BY <1>0
    <3>2. lastID'[c] = id /\ \A d \in Client : d # c => lastID'[d] = lastID[d]
      BY <2>6, <3>1, Received
    <3> QED
      BY <2>1, <2>6, <3>2 DEF ClientsSay
  <2>7. CASE WriteReplayed(c)
    <3>1. UNCHANGED <<owed, stream>> /\ stream[c] # "away"
      BY <2>7 DEF WriteReplayed
    <3> DEFINE id == ring[replay[c][Oldest(DOMAIN replay[c])]].id
    <3>2. id \in 0..nextID
      BY <1>0, <2>7, ReplayedEvent DEF RingHolds
    <3>3. CASE UNCHANGED <<seen, lastID>>
      BY <2>2, <3>1, <3>3
    <3>4. CASE Receive(c, id)
      <4> HIDE DEF id
      <4> QED
        BY <2>6, <3>1, <3>2, <3>4
    <3> QED
      BY <2>7, <3>3, <3>4 DEF WriteReplayed
  <2>8. CASE WriteEvent(c)
    <3> DEFINE id == Head(chan[c]).id
    <3>1. Receive(c, id) /\ stream[c] # "away" /\ UNCHANGED <<owed, stream>>
      BY <2>8 DEF WriteEvent, handler
    <3>2. id \in 1..nextID
      BY <2>8, HeadOfChan DEF WriteEvent, IdsTaken
    <3> HIDE DEF id
    <3>3. id \in 0..nextID
      BY <1>0, <3>2
    <3> QED
      BY <2>6, <3>1, <3>3
  <2>9. CASE Unsubscribe(c)
    <3>1. /\ lastID' = lastID /\ stream' = [stream EXCEPT ![c] = "away"]
          /\ owed' = [owed EXCEPT ![c] = IF lastID[c] = 0 THEN {} ELSE @]
      BY <2>9 DEF Unsubscribe
    <3>2. \A d \in Client : owed'[d] \subseteq owed[d] /\ (d # c => owed'[d] = owed[d] /\ stream'[d] = stream[d])
      BY <3>1 DEF HistoryTypes, StreamTypes
    <3>3. lastID[c] = 0 => owed'[c] = {}
      BY <3>1 DEF HistoryTypes
    <3> QED
      BY <2>1, <3>1, <3>2, <3>3 DEF ClientsSay
  <2> QED
    BY <1>2, <2>3, <2>4, <2>5, <2>7, <2>8, <2>9 DEF Handle
<1>3. CASE UNCHANGED vars
  BY <1>3 DEF vars, hub, pubs, handler, history, ClientsSay, Storers
<1> QED
  BY <1>1, <1>2, <1>3 DEF Next

\* An event put in a channel ahead of one with a lower id overtakes it.
LEMMA SendKeepsOrder ==
  ASSUME TypesHold, IdsTaken, HistoryTypes, ChansInOrder,
         NEW p \in Publisher, NEW c \in Client, Send(p, c)
  PROVE  ChansInOrder'
<1> USE DEF TypesHold
<1>1. /\ UNCHANGED <<pc, evt>> /\ pc[p] = "fan" /\ c \in todo[p]
      /\ todo' = [todo EXCEPT ![p] = @ \ {c}]
      /\ chan' = chan \/ chan' = [chan EXCEPT ![c] = Append(@, evt[p])]
      /\ chan' # chan => overtaken' = [overtaken EXCEPT ![c] = @ \cup IdsBelow(Unsent(c), evt[p].id)]
      /\ chan' = chan => overtaken \in [Client -> SUBSET Nat]
      /\ overtaken' = overtaken \/ overtaken' = [overtaken EXCEPT ![c] = @ \cup IdsBelow(Unsent(c), evt[p].id)]
  BY DEF Send, HistoryTypes
<1>2. \A d \in Client : overtaken[d] \subseteq overtaken'[d]
  BY <1>1 DEF HistoryTypes
<1>3. \A d \in Client : Unsent(d)' \subseteq Unsent(d)
  BY <1>1 DEF Unsent, StreamTypes
<1>4. CASE chan' = chan
  BY <1>1, <1>2, <1>3, <1>4 DEF ChansInOrder
<1>5. CASE chan' # chan
  <2>1. /\ \A d \in Client : d # c => chan'[d] = chan[d]
        /\ chan'[c] = Append(chan[c], evt[p]) /\ chan[c] \in Seq(EventType) /\ evt[p] \in EventType
        /\ overtaken'[c] = overtaken[c] \cup IdsBelow(Unsent(c), evt[p].id)
    BY <1>1, <1>5 DEF ChanTypes, HubTypes, HistoryTypes
  <2> DEFINE s == chan[c]
             t == chan'[c]
  <2>2. /\ Len(s) \in Nat /\ DOMAIN s = 1..Len(s) /\ DOMAIN t = 1..(Len(s) + 1)
        /\ t[Len(s) + 1] = evt[p] /\ \A i \in 1..Len(s) : t[i] = s[i]
    BY <2>1
  <2>3. \A i, j \in DOMAIN s : i < j => s[i].id < s[j].id \/ s[j].id \in overtaken[c]
    BY DEF ChansInOrder
  <2>4. \A q \in Unsent(c) : evt[q].id \notin overtaken[c] => \A i \in DOMAIN s : s[i].id < evt[q].id
    BY DEF ChansInOrder
  <2>5. p \in Unsent(c)
    BY <1>1 DEF Unsent
  <2> HIDE DEF s, t
  <2>6. ASSUME NEW i \in DOMAIN t, NEW j \in DOMAIN t, i < j
        PROVE  t[i].id < t[j].id \/ t[j].id \in overtaken'[c]
    <3>1. i \in DOMAIN s /\ t[i] = s[i]
      BY <2>2, <2>6
    <3>2. CASE j = Len(s) + 1
      BY <1>2, <2>2, <2>4, <2>5, <3>1, <3>2
    <3>3. CASE j # Len(s) + 1
      <4>1. j \in DOMAIN s /\ t[j] = s[j]
        BY <2>2, <3>3
      <4> QED
        BY <1>2, <2>3, <2>6, <3>1, <4>1
    <3> QED
      BY <3>2, <3>3
  <2>7. ASSUME NEW q \in Unsent(c)', evt[q].id \notin overtaken'[c], NEW i \in DOMAIN t
        PROVE  t[i].id < evt[q].id
    <3>1. q \in Unsent(c) /\ q \in Publisher /\ q # p
      BY <1>1, <1>3, <2>7 DEF Unsent, StreamTypes
    <3>2. CASE i \in DOMAIN s
      BY <1>2, <2>2, <2>4, <2>7, <3>1, <3>2
    <3>3. CASE i \notin DOMAIN s
      <4>1. t[i] = evt[p]
        BY <2>2, <3>3
      <4>2. evt[q].id \in 1..nextID /\ evt[p].id \in 1..nextID /\ evt[q].id # evt[p].id
        <5>1. pc[q] # "idle" /\ pc[p] # "idle"
          BY <1>1, <3>1 DEF Unsent
        <5> QED
          BY <3>1, <5>1 DEF IdsTaken
      <4>3. ~ (evt[q].id < evt[p].id)
        BY <2>1, <2>7, <3>1 DEF IdsBelow
      <4> QED
        BY <4>1, <4>2, <4>3
    <3> QED
      BY <3>2, <3>3
  <2>8. ASSUME NEW d \in Client
        PROVE  /\ \A i, j \in DOMAIN chan'[d] : i < j =>
                    chan'[d][i].id < chan'[d][j].id \/ chan'[d][j].id \in overtaken'[d]
               /\ \A q \in Unsent(d)' : evt[q].id \notin overtaken'[d] =>
                    \A i \in DOMAIN chan'[d] : chan'[d][i].id < evt[q].id
    <3>1. CASE d = c
      BY <2>6, <2>7, <3>1 DEF t
    <3>2. CASE d # c
      <4>1. chan'[d] = chan[d]
        BY <2>1, <3>2
      <4>2. /\ \A i, j \in DOMAIN chan[d] : i < j =>
                 chan[d][i].id < chan[d][j].id \/ chan[d][j].id \in overtaken[d]
            /\ \A q \in Unsent(d) : evt[q].id \notin overtaken[d] =>
                 \A i \in DOMAIN chan[d] : chan[d][i].id < evt[q].id
        BY DEF ChansInOrder
      <4> QED
        BY <1>2, <1>3, <4>1, <4>2
    <3> QED
      BY <3>1, <3>2
  <2> QED
    BY <1>1, <2>8 DEF ChansInOrder
<1> QED
  BY <1>4, <1>5

\* Nothing else adds to a channel, and a new id is newer than all in it.
LEMMA ChansInOrderKept ==
  TypesHold /\ IdsTaken /\ HistoryTypes /\ ChansInOrder /\ [Next]_vars => ChansInOrder'
<1> SUFFICES ASSUME TypesHold, IdsTaken, HistoryTypes, ChansInOrder, [Next]_vars
             PROVE  ChansInOrder'
  OBVIOUS
<1> USE DEF TypesHold
<1>0. ASSUME UNCHANGED <<chan, evt, overtaken>>, \A d \in Client : Unsent(d)' \subseteq Unsent(d)
      PROVE  ChansInOrder'
  BY <1>0 DEF ChansInOrder
<1>1. ASSUME NEW p \in Publisher, TakeId(p) \/ Publish(p) PROVE ChansInOrder'
  <2>1. CASE TakeId(p)
    <3>1. /\ nextID' = nextID + 1 /\ evt'[p].id = nextID + 1 /\ UNCHANGED <<chan, overtaken, todo>>
          /\ pc' = [pc EXCEPT ![p] = "store"] /\ \A q \in Publisher \ {p} : evt'[q] = evt[q]
          /\ nextID \in Nat
      BY <2>1 DEF TakeId, history, HubTypes
    <3>2. \A d \in Client : \A i \in DOMAIN chan[d] : chan[d][i].id < evt'[p].id
      BY <3>1 DEF IdsTaken
    <3>3. \A d \in Client : \A q \in Unsent(d)' : q = p \/ (q \in Unsent(d) /\ evt'[q] = evt[q])
      BY <3>1 DEF Unsent, HubTypes
    <3>4. ASSUME NEW d \in Client, NEW q \in Unsent(d)', evt'[q].id \notin overtaken[d], NEW i \in DOMAIN chan[d]
          PROVE  chan[d][i].id < evt'[q].id
      BY <3>2, <3>3, <3>4 DEF ChansInOrder
    <3> QED
      BY <3>1, <3>4 DEF ChansInOrder
  <2>2. CASE Store(p)
    <3>1. UNCHANGED <<chan, evt, overtaken, todo>> /\ pc[p] = "store" /\ pc' = [pc EXCEPT ![p] = "stored"]
      BY <2>2 DEF Store
    <3> QED
      BY <1>0, <3>1 DEF Unsent, HubTypes
  <2>3. CASE EnterFan(p)
    <3>1. /\ UNCHANGED <<chan, evt, overtaken>> /\ pc[p] = "stored" /\ pc' = [pc EXCEPT ![p] = "fan"]
          /\ todo' = [todo EXCEPT ![p] = clients]
      BY <2>3 DEF EnterFan
    <3> QED
      BY <1>0, <3>1 DEF Unsent, HubTypes, StreamTypes
  <2>4. ASSUME NEW c \in Client, Send(p, c) PROVE ChansInOrder'
    BY <2>4, SendKeepsOrder
  <2>5. CASE LeaveFan(p)
    <3>1. UNCHANGED <<chan, evt, overtaken, todo>> /\ pc' = [pc EXCEPT ![p] = "done"]
      BY <2>5 DEF LeaveFan, history
    <3> QED
      BY <1>0, <3>1 DEF Unsent, HubTypes
  <2> QED
    BY <1>1, <2>1, <2>2, <2>3, <2>4, <2>5 DEF Publish
<1>2. ASSUME NEW c \in Client, Subscribe(c) \/ Handle(c) \/ Unsubscribe(c) PROVE ChansInOrder'
  <2>1. UNCHANGED <<evt, overtaken>> /\ \A d \in Client : Unsent(d)' = Unsent(d)
    BY <1>2, HandlersPublishNothing DEF Unsent
  <2>2. CASE chan' = chan
    BY <1>0, <2>1, <2>2
  <2>3. CASE DOMAIN chan'[c] = {} /\ \A d \in Client : d # c => chan'[d] = chan[d]
    BY <2>1, <2>3 DEF ChansInOrder
  <2>4. CASE Subscribe(c)
    <3>1. chan' = [chan EXCEPT ![c] = <<>>]
      BY <2>4 DEF Subscribe
    <3> QED
      BY <2>3, <3>1 DEF ChanTypes
  <2>5. CASE Unsubscribe(c)
    <3>1. chan' = [chan EXCEPT ![c] = <<>>]
      BY <2>5 DEF Unsubscribe
    <3> QED
      BY <2>3, <3>1 DEF ChanTypes
  <2>6. CASE WriteEvent(c)
    <3>1. chan[c] # <<>> /\ chan'[c] = Tail(chan[c]) /\ \A d \in Client : d # c => chan'[d] = chan[d]
      BY <2>6 DEF WriteEvent, ChanTypes
    <3>2. /\ DOMAIN chan'[c] = 1..(Len(chan[c]) - 1) /\ DOMAIN chan[c] = 1..Len(chan[c]) /\ Len(chan[c]) \in Nat
          /\ \A i \in DOMAIN chan'[c] : chan'[c][i] = chan[c][i + 1]
      <4>1. chan[c] \in Seq(EventType)
        BY DEF ChanTypes
      <4> QED
        BY <3>1, <4>1, HeadOfChan
    <3> DEFINE s == chan[c]
               t == chan'[c]
    <3>3. \A i, j \in DOMAIN s : i < j => s[i].id < s[j].id \/ s[j].id \in overtaken[c]
      BY DEF ChansInOrder
    <3>4. \A q \in Unsent(c) : evt[q].id \notin overtaken[c] => \A i \in DOMAIN s : s[i].id < evt[q].id
      BY DEF ChansInOrder
    <3> HIDE DEF s, t
    <3>5. ASSUME NEW i \in DOMAIN t PROVE i \in Nat /\ i + 1 \in DOMAIN s /\ t[i] = s[i + 1]
      BY <3>2 DEF s, t
    <3>6. ASSUME NEW i \in DOMAIN t, NEW j \in DOMAIN t, i < j
          PROVE  t[i].id < t[j].id \/ t[j].id \in overtaken[c]
      <4>1. i + 1 \in DOMAIN s /\ j + 1 \in DOMAIN s /\ i + 1 < j + 1
        BY <3>5, <3>6
      <4>2. s[i + 1].id < s[j + 1].id \/ s[j + 1].id \in overtaken[c]
        BY <3>3, <4>1
      <4> QED
        BY <3>5, <4>2
    <3>7. \A q \in Unsent(c) : evt[q].id \notin overtaken[c] => \A i \in DOMAIN t : t[i].id < evt[q].id
      BY <3>4, <3>5
    <3>8. ASSUME NEW d \in Client
          PROVE  /\ \A i, j \in DOMAIN chan'[d] : i < j =>
                      chan'[d][i].id < chan'[d][j].id \/ chan'[d][j].id \in overtaken[d]
                 /\ \A q \in Unsent(d) : evt[q].id \notin overtaken[d] =>
                      \A i \in DOMAIN chan'[d] : chan'[d][i].id < evt[q].id
      <4>1. CASE d = c
        BY <3>6, <3>7, <4>1 DEF t
      <4>2. CASE d # c
        BY <3>1, <4>2 DEF ChansInOrder
      <4> QED
        BY <4>1, <4>2
    <3> QED
      BY <2>1, <3>8 DEF ChansInOrder
  <2>7. Replay(c) \/ WriteReplayed(c) \/ EndReplay(c) => chan' = chan
    BY DEF Replay, WriteReplayed, EndReplay
  <2> QED
    BY <1>2, <2>2, <2>4, <2>5, <2>6, <2>7 DEF Handle
<1>3. CASE UNCHANGED vars
  BY <1>0, <1>3 DEF vars, hub, pubs, history, Unsent
<1> QED
  BY <1>1, <1>2, <1>3 DEF Next

\* What is on its way to a client, or due to it, is an event of its own, that it wants.
LEMMA AwaitedIs ==
  ASSUME HubTypes, IdsTaken, ClientsSay, NEW c \in Client, NEW i \in Awaited(c)
  PROVE  \E q \in Publisher : /\ pc[q] # "idle" /\ i = evt[q].id /\ evt[q].topic \in Wants[c]
                              /\ i \in owed[c] => q \in Storers
<1>1. CASE i \in owed[c]
  <2>1. PICK q \in Storers : i = evt[q].id /\ evt[q].topic \in Wants[c]
    BY <1>1 DEF ClientsSay
  <2> QED
    BY <2>1, StorersIds
<1>2. CASE i \notin owed[c]
  <2>1. PICK q \in Unsent(c) : evt[q].topic \in Wants[c] /\ i = evt[q].id
    BY <1>2 DEF Awaited
  <2>2. q \in Publisher /\ pc[q] # "idle"
    BY <2>1 DEF Unsent
  <2> QED
    BY <1>2, <2>1, <2>2
<1> QED
  BY <1>1, <1>2

\* A slot that holds the id of an event holds the event.
LEMMA SlotOfEvent ==
  ASSUME HubTypes, IdsTaken, RingHolds, NEW q \in Publisher, pc[q] # "idle",
         NEW s \in Slot, ring[s].id = evt[q].id
  PROVE  q \in Storers /\ ring[s] = evt[q]
<1>1. pc[q] # "store"
  BY DEF RingHolds
<1>2. q \in Storers
  BY <1>1, StorersIds
<1> QED
  BY <1>2 DEF RingHolds

\* A step that leaves a client alone, but for fan-outs on the way to it, loses nothing.
LEMMA Untouched ==
  ASSUME NEW c \in Client, NothingLost(c), ring' = ring, torn'[c] = torn[c],
         stream'[c] = stream[c], replay'[c] = replay[c], chan'[c] = chan[c],
         lastID'[c] = lastID[c], seen'[c] = seen[c], owed'[c] = owed[c], excused'[c] = excused[c],
         late' = late, overtaken[c] \subseteq overtaken'[c],
         Awaited(c)' \subseteq Awaited(c), InFan(c) \subseteq InFan(c)'
  PROVE  NothingLost(c)'
<1>1. Had(c) \subseteq Had(c)' /\ (Connected(c)' <=> Connected(c))
  BY DEF Had, Seen, Connected
<1>2. Missing(c)' \subseteq Missing(c)
  BY <1>1 DEF Missing
<1>3. InChan(c)' = InChan(c) /\ InReplay(c)' = InReplay(c) /\ Due(c)' = Due(c)
  BY DEF InChan, InReplay, Due
<1> QED
  BY <1>1, <1>2, <1>3 DEF NothingLost

\* The same of a step that publishes nothing.
LEMMA UntouchedByHandler ==
  ASSUME NEW c \in Client, NothingLost(c),
         UNCHANGED <<ring, pc, evt, todo, torn, late, overtaken>>,
         stream'[c] = stream[c], replay'[c] = replay[c], chan'[c] = chan[c],
         lastID'[c] = lastID[c], seen'[c] = seen[c], owed'[c] = owed[c], excused'[c] = excused[c]
  PROVE  NothingLost(c)'
<1>1. Awaited(c)' = Awaited(c) /\ InFan(c)' = InFan(c)
  BY DEF Awaited, Unsent, InFan
<1> QED
  BY <1>1, Untouched

\* Storing an event may overwrite a slot, but then the replay counts as overtaken.
LEMMA StoreLosesNothing ==
  ASSUME HubIInv, NEW p \in Publisher, Store(p), NEW c \in Client, NothingLost(c)
  PROVE  NothingLost(c)'
<1> SUFFICES ASSUME ~torn'[c] PROVE NothingLost(c)'
  BY DEF NothingLost
<1> USE DEF HubIInv, TypesHold
<1>1. /\ UNCHANGED <<stream, replay, chan, lastID, seen, owed, excused, todo, evt, overtaken>>
      /\ pc[p] = "store" /\ pc' = [pc EXCEPT ![p] = "stored"]
      /\ ring' = [ring EXCEPT ![ringPos] = evt[p]] /\ late \subseteq late'
      /\ ~torn[c] /\ ringPos \notin Elems(replay[c])
  BY DEF Store, handler
<1>2. \A k \in DOMAIN replay[c] : ring'[replay[c][k]] = ring[replay[c][k]]
  BY <1>1 DEF Elems, HubTypes, ReplayTypes
<1>3. Had(c) \subseteq Had(c)' /\ (Connected(c)' <=> Connected(c))
  BY <1>1 DEF Had, Seen, Connected
<1>4. Due(c)' = Due(c) /\ InReplay(c)' = InReplay(c) /\ InChan(c)' = InChan(c)
  BY <1>1, <1>2 DEF Due, InReplay, InChan
<1>5. InFan(c)' = InFan(c)
  BY <1>1 DEF InFan, HubTypes
<1>6. Unsent(c)' = Unsent(c)
  BY <1>1 DEF Unsent, HubTypes
<1>7. Missing(c)' \subseteq Missing(c)
  BY <1>1, <1>3, <1>6 DEF Missing, Awaited
<1>8. lastID'[c] = lastID[c] /\ owed'[c] = owed[c]
  BY <1>1
<1> QED
  BY <1>1, <1>3, <1>4, <1>5, <1>7, <1>8 DEF NothingLost

\* A new id is newer than all a client has, and than all its replay holds.
LEMMA TakeIdLosesNothing ==
  ASSUME HubIInv, InOrder, NEW p \in Publisher, TakeId(p), NEW c \in Client, NothingLost(c)
  PROVE  NothingLost(c)'
<1> SUFFICES ASSUME ~torn'[c] PROVE NothingLost(c)'
  BY DEF NothingLost
<1> USE DEF HubIInv, TypesHold, InOrder
<1>1. /\ pc[p] = "idle" /\ pc' = [pc EXCEPT ![p] = "store"] /\ evt'[p].id = nextID + 1
      /\ UNCHANGED <<ring, stream, replay, chan, lastID, todo, seen, owed, excused, torn, late, overtaken>>
      /\ \A q \in Publisher : q # p => evt'[q] = evt[q]
      /\ nextID \in Nat
  BY DEF TakeId, handler, history, HubTypes
<1>2. Had(c)' = Had(c) /\ (Connected(c)' <=> Connected(c))
  BY <1>1 DEF Had, Seen, Connected
<1>3. Due(c)' = Due(c) /\ InReplay(c)' = InReplay(c) /\ InChan(c)' = InChan(c)
  BY <1>1 DEF Due, InReplay, InChan
<1>4. InFan(c) \subseteq InFan(c)'
  BY <1>1 DEF InFan, HubTypes
<1>5. \A i \in Missing(c)' : i \in Missing(c) \/ i = nextID + 1
  <2>1. \A q \in Unsent(c)' : q = p \/ (q \in Unsent(c) /\ evt'[q] = evt[q])
    BY <1>1 DEF Unsent, HubTypes
  <2>2. \A i \in Awaited(c)' : i \in Awaited(c) \/ i = nextID + 1
    BY <1>1, <2>1 DEF Awaited
  <2> QED
    BY <1>2, <2>2 DEF Missing
<1>6. lastID[c] \in 0..nextID
  BY DEF ClientsSay
<1>7. \A k \in DOMAIN Due(c) : Due(c)[k] \in 0..nextID
  <2>1. \A s \in Slot : ring[s].id \in 0..nextID
    BY <1>1 DEF RingHolds
  <2> QED
    BY <2>1 DEF Due, ReplayTypes
<1>8. lastID'[c] = lastID[c] /\ owed'[c] = owed[c] /\ ~torn[c] /\ late' = late
  BY <1>1
<1>9. \A i \in Missing(c)' : i > lastID[c]
  BY <1>1, <1>5, <1>6, <1>8 DEF NothingLost
<1>10. \A i \in Missing(c)' : (\E k \in DOMAIN Due(c) : Due(c)[k] = i)
                              \/ (\A k \in DOMAIN Due(c) : Due(c)[k] < i)
  BY <1>1, <1>5, <1>7, <1>8 DEF NothingLost
<1> QED
  BY <1>2, <1>3, <1>4, <1>8, <1>9, <1>10 DEF NothingLost

\* A fan-out ends when it has gone through all clients.
LEMMA LeaveFanLosesNothing ==
  ASSUME HubIInv, NEW p \in Publisher, LeaveFan(p), NEW c \in Client, NothingLost(c)
  PROVE  NothingLost(c)'
<1> USE DEF HubIInv, TypesHold
<1>1. /\ pc[p] = "fan" /\ todo[p] = {} /\ pc' = [pc EXCEPT ![p] = "done"]
      /\ UNCHANGED <<ring, evt, todo, chan, stream, replay, lastID, seen, owed, excused, torn, late, overtaken>>
  BY DEF LeaveFan, hub, handler, history
<1>2. InFan(c) \subseteq InFan(c)'
  BY <1>1 DEF InFan, HubTypes
<1>3. Unsent(c)' \subseteq Unsent(c)
  BY <1>1 DEF Unsent, HubTypes
<1>4. Awaited(c)' \subseteq Awaited(c)
  BY <1>1, <1>3 DEF Awaited
<1> QED
  BY <1>1, <1>2, <1>4, Untouched

\* An event that becomes due goes to the streams registered.
LEMMA EnterFanLosesNothing ==
  ASSUME HubIInv, NEW p \in Publisher, EnterFan(p), NEW c \in Client, NothingLost(c)
  PROVE  NothingLost(c)'
<1> SUFFICES ASSUME ~torn'[c] PROVE NothingLost(c)'
  BY DEF NothingLost
<1> USE DEF HubIInv, TypesHold
<1>1. /\ UNCHANGED <<ring, stream, replay, chan, lastID, seen, excused, torn, evt, late, overtaken>>
      /\ pc[p] = "stored" /\ pc' = [pc EXCEPT ![p] = "fan"] /\ todo' = [todo EXCEPT ![p] = clients]
      /\ owed'[c] = IF evt[p].topic \in Wants[c] /\ (c \in clients \/ lastID[c] # 0)
                    THEN owed[c] \cup {evt[p].id} ELSE owed[c]
  BY DEF EnterFan, hub, handler
<1>2. /\ ~torn[c] /\ (Connected(c)' <=> Connected(c)) /\ (Connected(c) => c \in clients)
      /\ Had(c)' = Had(c) /\ lastID'[c] = lastID[c] /\ late' = late
  BY <1>1 DEF Connected, StreamTypes, Had, Seen
<1>3. InChan(c)' = InChan(c) /\ InReplay(c)' = InReplay(c) /\ Due(c)' = Due(c)
  BY <1>1 DEF InChan, InReplay, Due
<1>4. p \in Unsent(c) /\ Unsent(c)' \subseteq Unsent(c)
  BY <1>1 DEF Unsent, HubTypes, StreamTypes
<1>5. Awaited(c)' \subseteq Awaited(c)
  BY <1>1, <1>4 DEF Awaited
<1>6. Missing(c)' \subseteq Missing(c)
  BY <1>2, <1>5 DEF Missing
<1>7. InFan(c) \subseteq InFan(c)'
  BY <1>1 DEF InFan, HubTypes, StreamTypes
<1>8. c \in clients /\ evt[p].topic \in Wants[c] => evt[p].id \in InFan(c)'
  BY <1>1 DEF InFan, HubTypes, StreamTypes
<1>9. Connected(c)' => owed'[c] \ Had(c)' \subseteq InChan(c)' \cup InReplay(c)' \cup InFan(c)'
  BY <1>1, <1>2, <1>3, <1>7, <1>8 DEF NothingLost
<1> QED
  BY <1>2, <1>3, <1>6, <1>9 DEF NothingLost

\* A send puts the event into the channel, or drops it, which is excused.
LEMMA SendLosesNothing ==
  ASSUME HubIInv, InOrder, NEW p \in Publisher, NEW d \in Client, Send(p, d), NEW c \in Client, NothingLost(c)
  PROVE  NothingLost(c)'
<1> USE DEF HubIInv, TypesHold, InOrder
<1>1. /\ UNCHANGED <<ring, stream, replay, lastID, seen, owed, torn, evt, pc, late>>
      /\ pc[p] = "fan" /\ d \in todo[p] /\ todo' = [todo EXCEPT ![p] = @ \ {d}]
  BY DEF Send, hub, handler
<1>2. /\ \A e \in Client : e # d => chan'[e] = chan[e] /\ excused'[e] = excused[e] /\ overtaken'[e] = overtaken[e]
      /\ overtaken[d] \subseteq overtaken'[d]
      /\ chan[d] \in Seq(EventType) /\ evt[p] \in EventType
      /\ DOMAIN chan = Client /\ excused \in [Client -> SUBSET Nat]
  BY DEF Send, ChanTypes, HubTypes, HistoryTypes
<1>3. Unsent(c)' \subseteq Unsent(c)
  BY <1>1 DEF Unsent, StreamTypes
<1>4. Awaited(c)' \subseteq Awaited(c)
  BY <1>1, <1>3 DEF Awaited
<1>5. CASE c # d
  <2>1. InFan(c) \subseteq InFan(c)'
    BY <1>1, <1>5 DEF InFan, HubTypes, StreamTypes
  <2> QED
    BY <1>1, <1>2, <1>4, <1>5, <2>1, Untouched
<1>6. CASE c = d
  <2> SUFFICES ASSUME ~torn'[c] PROVE NothingLost(c)'
    BY DEF NothingLost
  <2>1. /\ ~torn[c] /\ (Connected(c)' <=> Connected(c)) /\ lastID'[c] = lastID[c]
        /\ owed'[c] = owed[c] /\ late' = late
    BY <1>1 DEF Connected
  <2>2. Due(c)' = Due(c) /\ InReplay(c)' = InReplay(c)
    BY <1>1 DEF Due, InReplay
  <2>3. excused[c] \subseteq excused'[c]
    BY <1>6 DEF Send, HistoryTypes
  <2>4. Had(c) \subseteq Had(c)'
    BY <1>1, <1>2, <1>6, <2>3 DEF Had, Seen
  <2>5. Missing(c)' \subseteq Missing(c)
    BY <1>4, <2>4 DEF Missing
  <2>6. \A i \in InFan(c) : i \in InFan(c)' \/ (i = evt[p].id /\ evt[p].topic \in Wants[c])
    BY <1>1 DEF InFan, HubTypes, StreamTypes
  <2>7. InChan(c) \subseteq InChan(c)' /\ (evt[p].topic \in Wants[c] => evt[p].id \in InChan(c)' \cup Had(c)')
    <3>1. CASE evt[p].topic \notin Wants[c]
      <4>1. chan' = chan
        BY <1>6, <3>1 DEF Send
      <4> QED
        BY <3>1, <4>1 DEF InChan
    <3>2. CASE evt[p].topic \in Wants[c] /\ Len(chan[c]) = ChanSize
      <4>1. chan' = chan /\ excused'[c] = excused[c] \cup {evt[p].id}
        BY <1>2, <1>6, <3>2 DEF Send
      <4> QED
        BY <4>1 DEF InChan, Had
    <3>3. CASE evt[p].topic \in Wants[c] /\ Len(chan[c]) # ChanSize
      <4>1. chan'[c] = Append(chan[c], evt[p])
        BY <1>2, <1>6, <3>3 DEF Send
      <4>2. /\ Len(chan[c]) \in Nat /\ DOMAIN chan[c] = 1..Len(chan[c])
            /\ DOMAIN chan'[c] = 1..(Len(chan[c]) + 1) /\ chan'[c][Len(chan[c]) + 1] = evt[p]
            /\ \A i \in 1..Len(chan[c]) : chan'[c][i] = chan[c][i]
        BY <1>2, <1>6, <4>1
      <4>3. InChan(c) \subseteq InChan(c)'
        BY <4>2 DEF InChan
      <4>4. Len(chan[c]) + 1 \in DOMAIN chan'[c]
        BY <4>2
      <4>5. evt[p].id \in InChan(c)'
        BY <3>3, <4>2, <4>4 DEF InChan
      <4> QED
        BY <4>3, <4>5
    <3> QED
      BY <3>1, <3>2, <3>3
  <2>8. Connected(c)' => owed'[c] \ Had(c)' \subseteq InChan(c)' \cup InReplay(c)' \cup InFan(c)'
    BY <2>1, <2>2, <2>4, <2>6, <2>7 DEF NothingLost
  <2> QED
    BY <2>1, <2>2, <2>5, <2>8 DEF NothingLost
<1> QED
  BY <1>5, <1>6

\* A new stream has its history to read first; a replay ends when all is written; and
\* a client that is away waits for nothing.
LEMMA ComingAndGoingLosesNothing ==
  ASSUME HubIInv, InOrder, NEW d \in Client, Subscribe(d) \/ EndReplay(d) \/ Unsubscribe(d),
         NEW c \in Client, NothingLost(c)
  PROVE  NothingLost(c)'
<1> USE DEF HubIInv, TypesHold, InOrder
<1>1. /\ UNCHANGED <<ring, pc, evt, todo, lastID, seen, excused, torn, late, overtaken>>
      /\ (Subscribe(d) \/ EndReplay(d)) => UNCHANGED <<replay, owed>>
      /\ EndReplay(d) => UNCHANGED chan
  BY DEF Subscribe, EndReplay, Unsubscribe, hub, pubs, handler, history
<1>2. CASE c # d
  <2>1. stream'[c] = stream[c] /\ chan'[c] = chan[c] /\ replay'[c] = replay[c] /\ owed'[c] = owed[c]
    BY <1>1, <1>2 DEF Subscribe, EndReplay, Unsubscribe, StreamTypes, ChanTypes, ReplayTypes, HistoryTypes
  <2> QED
    BY <1>1, <2>1, UntouchedByHandler
<1>3. CASE c = d
  <2> SUFFICES ASSUME ~torn'[c] PROVE NothingLost(c)'
    BY DEF NothingLost
  <2>1. /\ ~torn[c] /\ lastID'[c] = lastID[c] /\ Had(c)' = Had(c) /\ Unsent(c)' = Unsent(c)
        /\ InFan(c)' = InFan(c) /\ late' = late
    BY <1>1 DEF Had, Seen, Unsent, InFan
  <2>2. owed'[c] \subseteq owed[c] => Missing(c)' \subseteq Missing(c)
    BY <1>1, <2>1 DEF Missing, Awaited
  <2>3. CASE Subscribe(c)
    <3>1. stream[c] = "away" /\ stream'[c] = "subscribed" /\ DOMAIN replay[c] = {}
      BY <2>3 DEF Subscribe, ReplayTypes, StreamTypes
    <3>2. owed' = owed /\ Due(c)' = Due(c)
      BY <1>1, <1>3, <2>3 DEF Due
    <3>3. Connected(c)' => owed[c] = {}
      BY <1>1, <3>1 DEF Connected, ClientsSay
    <3> QED
      BY <2>1, <2>2, <3>2, <3>3 DEF NothingLost
  <2>4. CASE EndReplay(c)
    <3>1. owed' = owed /\ Due(c)' = Due(c) /\ InReplay(c)' = InReplay(c) /\ InChan(c)' = InChan(c)
      BY <1>1, <1>3, <2>4 DEF Due, InReplay, InChan
    <3>2. Connected(c)
      BY <2>4 DEF EndReplay, Connected
    <3> QED
      BY <2>1, <2>2, <3>1, <3>2 DEF NothingLost
  <2>5. CASE Unsubscribe(c)
    <3>1. stream'[c] = "away" /\ replay'[c] = <<>> /\ owed'[c] \subseteq owed[c]
      BY <2>5 DEF Unsubscribe, StreamTypes, ReplayTypes, HistoryTypes
    <3>2. ~Connected(c)' /\ DOMAIN Due(c)' = {}
      BY <3>1 DEF Connected, Due
    <3> QED
      BY <2>1, <2>2, <3>1, <3>2 DEF NothingLost
  <2> QED
    BY <1>3, <2>3, <2>4, <2>5
<1> QED
  BY <1>2, <1>3

\* No two slots are of one age.
LEMMA AgeOnce ==
  ASSUME ringPos \in Slot, NEW s \in Slot, NEW t \in Slot, Age(s) = Age(t)
  PROVE  s = t
BY SSEHubAssumption DEF Age, Slot

\* eventsSince comes by every stored event that the ring has not pushed out.
LEMMA StoredIsFound ==
  ASSUME HubIInv, RingInOrder, NEW q \in Storers, evt[q].id \notin PushedOut
  PROVE  \E j \in 1..ringLen : RingOrder[j] \in Slot /\ ring[RingOrder[j]] = evt[q]
<1> USE SSEHubAssumption DEF HubIInv, TypesHold
<1>1. q \in Publisher /\ evt[q].id \in 1..nextID /\ pc[q] # "idle"
  BY StorersIds
<1>2. evt[q].id \in EventId
  <2>1. nextID \in Nat /\ nextID <= Cardinality(Publisher) /\ Cardinality(Publisher) \in Nat
    BY FS_Subset, FS_CardinalityType DEF HubTypes, IdsTaken
  <2> QED
    BY <1>1, <2>1 DEF EventId
<1>3. ~ (ringLen = RingSize /\ \A s \in Slot : ring[s].id > evt[q].id \/ ring[s].id \in late)
  BY <1>2 DEF PushedOut
<1>4. PICK s \in Slot : Age(s) < ringLen /\ ring[s].id = evt[q].id
  BY <1>3 DEF RingInOrder
<1>5. ring[s] = evt[q]
  BY <1>1, <1>4, SlotOfEvent
<1>6. /\ RingOrder \in [1..ringLen -> Slot] /\ Age(s) \in Nat /\ ringLen \in Nat /\ ringPos \in Slot
      /\ \A j \in 1..ringLen : Age(RingOrder[j]) = ringLen - j
  BY RingOrderPlaces DEF HubTypes
<1> DEFINE j == ringLen - Age(s)
<1>7. j \in 1..ringLen /\ ringLen - j = Age(s)
  BY <1>4, <1>6
<1> HIDE DEF j
<1>8. RingOrder[j] \in Slot /\ Age(RingOrder[j]) = Age(s)
  BY <1>6, <1>7
<1>9. RingOrder[j] = s
  BY <1>6, <1>8, AgeOnce
<1> QED
  BY <1>5, <1>7, <1>8, <1>9

\* Slots in the order of the ring hold events in the order of their ids, or late ones.
LEMMA RingOrderAscends ==
  ASSUME HubIInv, RingInOrder
  PROVE  /\ RingOrder \in [1..ringLen -> Slot] /\ ringLen \in Nat
         /\ \A j \in 1..ringLen : \E q \in Storers : ring[RingOrder[j]].id = evt[q].id
         /\ \A i, j \in 1..ringLen : i < j =>
              ring[RingOrder[i]].id < ring[RingOrder[j]].id \/ ring[RingOrder[j]].id \in late
<1>1. /\ RingOrder \in [1..ringLen -> Slot] /\ ringLen \in Nat
      /\ \A j \in 1..ringLen : Age(RingOrder[j]) = ringLen - j
  BY RingOrderPlaces, SSEHubAssumption DEF HubIInv, TypesHold, HubTypes
<1>2. \A j \in 1..ringLen : RingOrder[j] \in Slot /\ Age(RingOrder[j]) < ringLen
  BY <1>1
<1>3. ASSUME NEW i \in 1..ringLen, NEW j \in 1..ringLen, i < j
      PROVE  ring[RingOrder[i]].id < ring[RingOrder[j]].id \/ ring[RingOrder[j]].id \in late
  <2>1. Age(RingOrder[j]) < Age(RingOrder[i])
    BY <1>1, <1>3
  <2> QED
    BY <1>2, <2>1 DEF RingInOrder
<1>4. \A j \in 1..ringLen : \E q \in Storers : ring[RingOrder[j]].id = evt[q].id
  BY <1>2 DEF RingInOrder
<1> QED
  BY <1>1, <1>3, <1>4

\* The ring still holds what is missing and stored, but for what is excused, after the last
\* id; what is not stored yet is newer than all the ring holds, or late.
LEMMA ReplayLosesNothing ==
  ASSUME HubIInv, InOrder, NEW d \in Client, Replay(d), NEW c \in Client, NothingLost(c)
  PROVE  NothingLost(c)'
<1> USE DEF HubIInv, TypesHold, InOrder
<1>1. /\ UNCHANGED <<ring, pc, evt, todo, lastID, seen, owed, torn, chan, late, overtaken>>
      /\ stream[d] = "subscribed" /\ stream' = [stream EXCEPT ![d] = "replaying"]
      /\ replay' = [replay EXCEPT ![d] = IF lastID[d] = 0 THEN <<>> ELSE EventsSince(lastID[d])]
      /\ excused' = [excused EXCEPT ![d] = IF lastID[d] = 0 THEN @ ELSE @ \cup PushedOut]
  BY DEF Replay, hub, pubs
<1>2. CASE c # d
  <2>1. stream'[c] = stream[c] /\ replay'[c] = replay[c] /\ excused'[c] = excused[c]
    BY <1>1, <1>2 DEF StreamTypes, ReplayTypes, HistoryTypes
  <2> QED
    BY <1>1, <2>1, UntouchedByHandler
<1>3. CASE c = d
  <2> SUFFICES ASSUME ~torn'[c] PROVE NothingLost(c)'
    BY DEF NothingLost
  <2>1. /\ ~torn[c] /\ lastID'[c] = lastID[c] /\ stream'[c] = "replaying" /\ owed'[c] = owed[c]
        /\ excused'[c] = (IF lastID[c] = 0 THEN excused[c] ELSE excused[c] \cup PushedOut)
        /\ DOMAIN replay = Client
    BY <1>1, <1>3 DEF HistoryTypes, StreamTypes, ReplayTypes
  <2>2. /\ InFan(c)' = InFan(c) /\ InChan(c)' = InChan(c) /\ Awaited(c)' = Awaited(c)
        /\ Had(c) \subseteq Had(c)'
    BY <1>1, <2>1 DEF InFan, InChan, Awaited, Unsent, Had, Seen
  <2>3. Missing(c)' \subseteq Missing(c)
    BY <2>2 DEF Missing
  <2>4. CASE lastID[c] = 0
    <3>1. DOMAIN Due(c)' = {}
      BY <1>1, <1>3, <2>1, <2>4 DEF Due
    <3>2. InReplay(c) = {} /\ Connected(c)
      BY <1>1, <1>3, <2>4 DEF InReplay, ReplayTypes, Connected
    <3> QED
      BY <2>1, <2>2, <2>3, <3>1, <3>2 DEF NothingLost
  <2>5. CASE lastID[c] # 0
    <3> DEFINE L == lastID[c]
               P == {j \in 1..ringLen : ring[RingOrder[j]].id > L}
    <3>1. replay'[c] = EventsSince(L)
      BY <1>1, <1>3, <2>1, <2>5
    <3>2. /\ RingOrder \in [1..ringLen -> Slot] /\ ringLen \in Nat
          /\ \A j \in 1..ringLen : \E q \in Storers : ring[RingOrder[j]].id = evt[q].id
          /\ \A i, j \in 1..ringLen : i < j =>
               ring[RingOrder[i]].id < ring[RingOrder[j]].id \/ ring[RingOrder[j]].id \in late
      BY RingOrderAscends
    <3>3. DOMAIN replay'[c] = P /\ \A j \in P : replay'[c][j] = RingOrder[j]
      BY <3>1 DEF EventsSince
    <3>4. \A j \in 1..ringLen : ring[RingOrder[j]].id > L => j \in P
      OBVIOUS
    <3>5. P \subseteq 1..ringLen
      OBVIOUS
    <3> HIDE DEF P
    <3>6. DOMAIN Due(c)' = P /\ \A j \in P : Due(c)'[j] = ring[RingOrder[j]].id
      BY <1>1, <3>3 DEF Due
    <3>7. PushedOut \subseteq Had(c)' /\ late \subseteq Had(c)'
      BY <1>1, <2>1, <2>5 DEF Had
    <3>8. ASSUME NEW i \in Missing(c)', NEW q \in Storers, i = evt[q].id
          PROVE  \E j \in P : ring[RingOrder[j]] = evt[q]
      <4>1. i \notin PushedOut /\ i > L
        BY <2>1, <2>3, <3>7, <3>8 DEF Missing, NothingLost
      <4>2. PICK j \in 1..ringLen : ring[RingOrder[j]] = evt[q]
        BY <3>8, <4>1, StoredIsFound
      <4> QED
        BY <3>4, <3>8, <4>1, <4>2
    <3>9. owed'[c] \ Had(c)' \subseteq InReplay(c)'
      <4>1. ASSUME NEW i \in owed[c], i \notin Had(c)' PROVE i \in InReplay(c)'
        <5>1. PICK q \in Storers : i = evt[q].id /\ evt[q].topic \in Wants[c]
          BY DEF ClientsSay
        <5>2. i \in Missing(c)'
          BY <2>2, <4>1 DEF Missing, Awaited
        <5>3. PICK j \in P : ring[RingOrder[j]] = evt[q]
          BY <3>8, <5>1, <5>2
        <5>4. j \in DOMAIN replay'[c] /\ ring'[replay'[c][j]] = evt[q]
          BY <1>1, <3>3, <5>3
        <5> QED
          BY <5>1, <5>4 DEF InReplay
      <4> QED
        BY <2>1, <4>1
    <3>10. ASSUME NEW i \in Missing(c)'
           PROVE  (\E k \in P : Due(c)'[k] = i) \/ (\A k \in P : Due(c)'[k] < i)
      <4>1. i \in Awaited(c) /\ i \notin late
        BY <2>2, <3>7, <3>10 DEF Missing
      <4>2. PICK q \in Publisher : pc[q] # "idle" /\ i = evt[q].id
        BY <4>1, AwaitedIs
      <4>3. CASE q \in Storers
        BY <3>6, <3>8, <3>10, <4>2, <4>3
      <4>4. CASE pc[q] = "store"
        <5>1. \A x \in Storers : evt[x].id < i
          BY <4>1, <4>2, <4>4 DEF LateKnown
        <5>2. \A k \in P : ring[RingOrder[k]].id < i
          BY <3>2, <3>5, <5>1
        <5> QED
          BY <3>6, <5>2
      <4> QED
        BY <4>2, <4>3, <4>4, StorersIds
    <3>11. \A k, l \in P : k < l => Due(c)'[k] < Due(c)'[l] \/ Due(c)'[l] \in late
      BY <3>2, <3>5, <3>6
    <3>12. \A i \in Missing(c)' : i > lastID'[c]
      BY <2>1, <2>3 DEF NothingLost
    <3>13. late' = late
      BY <1>1
    <3> QED
      BY <3>6, <3>9, <3>10, <3>11, <3>12, <3>13 DEF NothingLost
  <2> QED
    BY <2>4, <2>5
<1> QED
  BY <1>2, <1>3

\* Writing the first slot left, in order, moves the last id past nothing missing.
LEMMA WriteReplayedLosesNothing ==
  ASSUME HubIInv, InOrder, NEW d \in Client, WriteReplayed(d), NEW c \in Client, NothingLost(c)
  PROVE  NothingLost(c)'
<1> USE DEF HubIInv, TypesHold, InOrder
<1>1. /\ UNCHANGED <<ring, pc, evt, todo, owed, excused, torn, chan, stream, late, overtaken>>
      /\ stream[d] = "replaying"
  BY DEF WriteReplayed, hub, pubs
<1>2. InFan(c)' = InFan(c) /\ InChan(c)' = InChan(c) /\ Awaited(c)' = Awaited(c)
  BY <1>1 DEF InFan, InChan, Awaited, Unsent
<1> DEFINE P == DOMAIN replay[d]
           n == Oldest(P)
           e == ring[replay[d][n]]
<1>3. /\ n \in P /\ (\A k \in P : n <= k) /\ P \subseteq Nat
      /\ replay[d][n] \in Slot /\ e \in EventType
      /\ DOMAIN replay'[d] = P \ {n} /\ \A k \in P \ {n} : replay'[d][k] = replay[d][k]
  BY ReplayedEvent
<1>4. \A x \in Client : x # d => replay'[x] = replay[x]
  BY ReplayedEvent
<1>5. \/ e.topic \in Wants[d] /\ Receive(d, e.id)
      \/ e.topic \notin Wants[d] /\ UNCHANGED <<seen, lastID>>
  BY ReplayedEvent
<1>6. e.id \in Nat
  BY <1>3 DEF EventType
<1>7. Receive(d, e.id) => /\ lastID'[d] = e.id /\ Seen(d)' = Seen(d) \cup {e.id}
                          /\ \A x \in Client : x # d => lastID'[x] = lastID[x] /\ seen'[x] = seen[x]
  BY <1>6, Received
<1>8. CASE c # d
  <2>1. lastID'[c] = lastID[c] /\ seen'[c] = seen[c] /\ replay'[c] = replay[c]
    BY <1>4, <1>5, <1>7, <1>8
  <2> QED
    BY <1>1, <2>1, UntouchedByHandler DEF WriteReplayed, pubs
<1>9. CASE c = d
  <2> SUFFICES ASSUME ~torn'[c] PROVE NothingLost(c)'
    BY DEF NothingLost
  <2>1. ~torn[c] /\ Connected(c) /\ owed'[c] = owed[c] /\ late' = late
    BY <1>1, <1>9 DEF Connected
  <2>2. DOMAIN Due(c) = P /\ Due(c)[n] = e.id
    BY <1>3, <1>9 DEF Due
  <2>3. DOMAIN Due(c)' = P \ {n} /\ \A k \in P \ {n} : Due(c)'[k] = Due(c)[k]
    <3>1. DOMAIN Due(c)' = P \ {n} /\ \A k \in P \ {n} : Due(c)'[k] = ring'[replay'[c][k]].id
      BY <1>3, <1>9 DEF Due
    <3>2. \A k \in P \ {n} : ring'[replay'[c][k]].id = ring[replay[c][k]].id
      BY <1>1, <1>3, <1>9
    <3> QED
      BY <1>9, <3>1, <3>2 DEF Due
  <2>4. \A i \in InReplay(c) : i \in InReplay(c)' \/ (i = e.id /\ e.topic \in Wants[c])
    <3>1. ASSUME NEW k \in P, ring[replay[c][k]].topic \in Wants[c], k # n
          PROVE  ring[replay[c][k]].id \in InReplay(c)'
      <4>1. k \in DOMAIN replay'[c] /\ ring'[replay'[c][k]] = ring[replay[c][k]]
        BY <1>1, <1>3, <1>9, <3>1
      <4> QED
        BY <3>1, <4>1 DEF InReplay
    <3> QED
      BY <1>9, <3>1 DEF InReplay
  <2>5. \A i \in Missing(c) : i = e.id => e.topic \in Wants[c]
    <3>1. ASSUME NEW i \in Missing(c), i = e.id PROVE e.topic \in Wants[c]
      <4>1. PICK q \in Publisher : pc[q] # "idle" /\ i = evt[q].id /\ evt[q].topic \in Wants[c]
        BY AwaitedIs DEF Missing
      <4>2. e = evt[q]
        BY <1>3, <3>1, <4>1, SlotOfEvent
      <4> QED
        BY <4>1, <4>2
    <3> QED
      BY <3>1
  <2> HIDE DEF P, n, e
  <2>6. /\ \A k, l \in P \ {n} : k < l => Due(c)[k] < Due(c)[l] \/ Due(c)[l] \in late
        /\ \A i \in Missing(c) : (\E k \in P : Due(c)[k] = i) \/ (\A k \in P : Due(c)[k] < i)
        /\ \A i \in Missing(c) : i > lastID[c] /\ i \notin late
        /\ \A k \in P \ {n} : Due(c)[n] < Due(c)[k] \/ Due(c)[k] \in late
    <3>1. \A k \in P \ {n} : n < k
      BY <1>3
    <3>2. \A i \in Missing(c) : i \notin late
      BY DEF Missing, Had
    <3> QED
      BY <1>3, <2>1, <2>2, <3>1, <3>2 DEF NothingLost
  <2>7. \A i \in Missing(c) : i # e.id =>
          (\E k \in P \ {n} : Due(c)[k] = i) \/ (\A k \in P \ {n} : Due(c)[k] < i)
    BY <2>2, <2>6
  <2>8. CASE e.topic \in Wants[c] /\ Receive(c, e.id)
    <3>1. lastID'[c] = e.id /\ Had(c)' = Had(c) \cup {e.id}
      BY <1>1, <1>7, <1>9, <2>8 DEF Had
    <3>2. Missing(c)' = Missing(c) \ {e.id}
      BY <1>2, <3>1 DEF Missing
    <3>3. ASSUME NEW i \in Missing(c), i # e.id PROVE i > e.id
      <4>1. CASE \E k \in P : Due(c)[k] = i
        <5>1. PICK k \in P : Due(c)[k] = i
          BY <4>1
        <5>2. k # n
          BY <2>2, <3>3, <5>1
        <5> QED
          BY <2>2, <2>6, <5>1, <5>2
      <4>2. CASE \A k \in P : Due(c)[k] < i
        BY <1>3, <2>2, <4>2
      <4> QED
        BY <2>6, <4>1, <4>2
    <3>4. owed'[c] \ Had(c)' \subseteq InChan(c)' \cup InReplay(c)' \cup InFan(c)'
      BY <1>2, <2>1, <2>4, <3>1 DEF NothingLost
    <3> QED
      BY <2>1, <2>3, <2>6, <2>7, <3>1, <3>2, <3>3, <3>4 DEF NothingLost
  <2>9. CASE e.topic \notin Wants[c] /\ UNCHANGED <<seen, lastID>>
    <3>1. lastID'[c] = lastID[c] /\ Had(c)' = Had(c)
      BY <1>1, <2>9 DEF Had, Seen
    <3>2. Missing(c)' = Missing(c)
      BY <1>2, <3>1 DEF Missing
    <3>3. \A i \in Missing(c) : i # e.id
      BY <2>5, <2>9
    <3>4. owed'[c] \ Had(c)' \subseteq InChan(c)' \cup InReplay(c)' \cup InFan(c)'
      BY <1>2, <2>1, <2>4, <2>9, <3>1 DEF NothingLost
    <3> QED
      BY <2>1, <2>3, <2>6, <2>7, <3>1, <3>2, <3>3, <3>4 DEF NothingLost
  <2> QED
    BY <1>5, <1>9, <2>8, <2>9
<1> QED
  BY <1>8, <1>9

\* So does writing the first event of the channel.
LEMMA WriteEventLosesNothing ==
  ASSUME HubIInv, InOrder, NEW d \in Client, WriteEvent(d), NEW c \in Client, NothingLost(c)
  PROVE  NothingLost(c)'
<1> USE DEF HubIInv, TypesHold, InOrder
<1> DEFINE h == Head(chan[d]).id
<1>1. /\ UNCHANGED <<ring, pc, evt, todo, owed, excused, torn, replay, stream, late, overtaken>>
      /\ stream[d] = "streaming" /\ chan[d] # <<>> /\ Receive(d, h)
      /\ chan'[d] = Tail(chan[d]) /\ \A x \in Client : x # d => chan'[x] = chan[x]
  BY DEF WriteEvent, hub, pubs, handler, ChanTypes
<1>2. InFan(c)' = InFan(c) /\ InReplay(c)' = InReplay(c) /\ Due(c)' = Due(c) /\ Awaited(c)' = Awaited(c)
  BY <1>1 DEF InFan, InReplay, Due, Awaited, Unsent
<1>3. /\ 1 \in DOMAIN chan[d] /\ h = chan[d][1].id /\ h \in Nat
      /\ DOMAIN Tail(chan[d]) = 1..(Len(chan[d]) - 1) /\ DOMAIN chan[d] = 1..Len(chan[d])
      /\ \A i \in DOMAIN Tail(chan[d]) : Tail(chan[d])[i] = chan[d][i + 1]
      /\ Len(chan[d]) \in Nat
  <2>1. chan[d] \in Seq(EventType)
    BY DEF ChanTypes
  <2> QED
    BY <1>1, <2>1, HeadOfChan DEF EventType
<1> HIDE DEF h
<1>4. /\ lastID'[d] = h /\ Seen(d)' = Seen(d) \cup {h}
      /\ \A x \in Client : x # d => lastID'[x] = lastID[x] /\ seen'[x] = seen[x]
  BY <1>1, <1>3, Received
<1>5. CASE c # d
  <2>1. lastID'[c] = lastID[c] /\ seen'[c] = seen[c] /\ chan'[c] = chan[c]
    BY <1>1, <1>4, <1>5
  <2> QED
    BY <1>1, <2>1, UntouchedByHandler
<1>6. CASE c = d
  <2> SUFFICES ASSUME ~torn'[c] PROVE NothingLost(c)'
    BY DEF NothingLost
  <2>1. ~torn[c] /\ Connected(c) /\ owed'[c] = owed[c]
    BY <1>1, <1>6 DEF Connected
  <2>2. DOMAIN Due(c) = {} /\ InReplay(c) = {}
    <3>1. DOMAIN replay[c] = {}
      BY <1>1, <1>6 DEF ReplayTypes
    <3> QED
      BY <3>1 DEF Due, InReplay
  <2>3. Had(c)' = Had(c) \cup {h} /\ overtaken[c] \subseteq Had(c)
    BY <1>1, <1>4, <1>6 DEF Had
  <2>4. Missing(c)' = Missing(c) \ {h}
    BY <1>2, <2>3 DEF Missing
  <2>5. \A i \in InChan(c) : i \notin Had(c) => i = h \/ (i > h /\ i \in InChan(c)')
    <3>1. ASSUME NEW k \in DOMAIN chan[c], chan[c][k].topic \in Wants[c], k # 1, chan[c][k].id \notin Had(c)
          PROVE  chan[c][k].id > h /\ chan[c][k].id \in InChan(c)'
      <4>1. k - 1 \in DOMAIN Tail(chan[c]) /\ Tail(chan[c])[k - 1] = chan[c][k] /\ k > 1
        BY <1>3, <1>6, <3>1
      <4>2. chan[c][1].id < chan[c][k].id
        BY <1>3, <1>6, <2>3, <3>1, <4>1 DEF ChansInOrder
      <4>3. k - 1 \in DOMAIN chan'[c] /\ chan'[c][k - 1] = chan[c][k]
        BY <1>1, <1>6, <4>1
      <4>4. chan[c][k].id \in Nat
        <5>1. chan[c] \in Seq(EventType)
          BY DEF ChanTypes
        <5>2. chan[c][k] \in EventType
          BY <5>1
        <5> QED
          BY <5>2 DEF EventType
      <4>5. chan[c][k].id \in InChan(c)'
        BY <3>1, <4>3 DEF InChan
      <4> QED
        BY <1>3, <1>6, <4>2, <4>4, <4>5
    <3>2. chan[c][1].id = h
      BY <1>3, <1>6
    <3> QED
      BY <3>1, <3>2 DEF InChan
  <2>6. ASSUME NEW p \in Unsent(c), evt[p].id \notin Had(c) PROVE evt[p].id > h
    <3>1. chan[c][1].id < evt[p].id
      BY <1>3, <1>6, <2>3, <2>6 DEF ChansInOrder
    <3>2. evt[p].id \in Nat
      BY DEF HubTypes, EventType, Unsent
    <3> QED
      BY <1>3, <1>6, <3>1, <3>2
  <2>7. \A i \in InFan(c) : i \notin Had(c) => i > h
    BY <2>6 DEF InFan, Unsent
  <2>8. \A i \in owed[c] : i \notin Had(c) => i \in InChan(c) \cup InFan(c)
    BY <2>1, <2>2 DEF NothingLost
  <2>9. \A i \in Missing(c)' : i > h
    <3>1. ASSUME NEW i \in Missing(c), i # h PROVE i > h
      <4>1. i \in Awaited(c) /\ i \notin Had(c)
        BY DEF Missing
      <4>2. CASE i \in owed[c]
        BY <2>5, <2>7, <2>8, <3>1, <4>1, <4>2
      <4>3. CASE i \notin owed[c]
        <5>1. PICK p \in Unsent(c) : i = evt[p].id
          BY <4>1, <4>3 DEF Awaited
        <5> QED
          BY <2>6, <4>1, <5>1
      <4> QED
        BY <4>2, <4>3
    <3> QED
      BY <2>4, <3>1
  <2>10. owed'[c] \ Had(c)' \subseteq InChan(c)' \cup InReplay(c)' \cup InFan(c)'
    BY <1>2, <2>1, <2>3, <2>5, <2>8
  <2>11. lastID'[c] = h
    BY <1>4, <1>6
  <2> QED
    BY <1>2, <2>2, <2>9, <2>10, <2>11 DEF NothingLost
<1> QED
  BY <1>5, <1>6

\* Nothing is due to anybody.
LEMMA LossInitially == Init => LossIInv
<1> SUFFICES ASSUME Init PROVE LossIInv
  OBVIOUS
<1> USE DEF Init
<1>1. PICK t \in Topic : ring = [s \in Slot |-> [id |-> 0, topic |-> t]]
  OBVIOUS
<1>2. \A p \in Publisher : pc[p] = "idle"
  OBVIOUS
<1>3. Storers = {} /\ \A c \in Client : Unsent(c) = {}
  BY <1>2 DEF Storers, Unsent
<1>4. HistoryTypes
  BY DEF HistoryTypes
<1>5. LateKnown
  BY <1>2 DEF LateKnown
<1>6. RingInOrder
  <2>1. ringLen = 0 /\ \A s \in Slot : Age(s) \in Nat
    BY SSEHubAssumption DEF Age, Slot
  <2>2. \A s \in Slot : ~ (Age(s) < ringLen)
    BY <2>1
  <2> QED
    BY <1>3, <2>2 DEF RingInOrder
<1>7. ClientsSay
  BY DEF ClientsSay
<1>8. ChansInOrder
  BY <1>3 DEF ChansInOrder
<1>9. ASSUME NEW c \in Client PROVE NothingLost(c)
  <2>1. DOMAIN replay[c] = {} /\ owed[c] = {}
    OBVIOUS
  <2>2. Missing(c) = {} /\ DOMAIN Due(c) = {}
    BY <1>3, <2>1 DEF Missing, Awaited, Due
  <2> QED
    BY <2>1, <2>2 DEF NothingLost
<1> QED
  BY <1>4, <1>5, <1>6, <1>7, <1>8, <1>9 DEF LossIInv, InOrder

\* Each step keeps it.
LEMMA LossIInvKept == HubIInv /\ LossIInv /\ [Next]_vars => LossIInv'
<1> SUFFICES ASSUME HubIInv, LossIInv, [Next]_vars PROVE LossIInv'
  OBVIOUS
<1>1. InOrder'
  BY LateKnownKept, RingInOrderKept, ClientsSayKept, ChansInOrderKept, HistoryTypesKept
     DEF LossIInv, InOrder, HubIInv
<1>2. ASSUME NEW c \in Client PROVE NothingLost(c)'
  <2>1. NothingLost(c) /\ InOrder
    BY DEF LossIInv
  <2>2. ASSUME NEW p \in Publisher, TakeId(p) \/ Publish(p) PROVE NothingLost(c)'
    BY <2>1, <2>2, StoreLosesNothing, TakeIdLosesNothing, LeaveFanLosesNothing,
       EnterFanLosesNothing, SendLosesNothing DEF Publish
  <2>3. ASSUME NEW d \in Client, Subscribe(d) \/ Handle(d) \/ Unsubscribe(d) PROVE NothingLost(c)'
    BY <2>1, <2>3, ComingAndGoingLosesNothing, ReplayLosesNothing, WriteReplayedLosesNothing,
       WriteEventLosesNothing DEF Handle
  <2>4. CASE UNCHANGED vars
    BY <2>1, <2>4, UntouchedByHandler DEF vars, hub, pubs, handler, history
  <2> QED
    BY <2>2, <2>3, <2>4 DEF Next
<1> QED
  BY <1>1, <1>2 DEF LossIInv

\* And so it holds at all times.
LEMMA LossIInvHolds == Spec => []LossIInv
<1>1. HubIInv /\ LossIInv /\ [Next]_vars => LossIInv'
  BY LossIInvKept
<1> QED
  BY <1>1, HubIInvHolds, LossInitially, PTL DEF Spec

\* Subscribing before the replay leaves no gap: an event due to a client is received, on its
\* way, lost by overflow of its channel or of the ring, or one that an overlapping broadcast
\* of a higher id got ahead of (handleEventStream against sseHub.broadcast).
THEOREM SSEHubNothingLost == Spec => []NoLoss
<1>1. HubIInv /\ LossIInv => NoLoss
  <2> SUFFICES ASSUME HubIInv, LossIInv, NEW c \in Client, ~torn[c],
                      stream[c] \in {"replaying", "streaming"},
                      NEW i \in owed[c], i \notin Had(c)
               PROVE  i \in Coming(c)
    BY DEF NoLoss, Had
  <2>1. i \in InChan(c) \cup InReplay(c) \cup InFan(c)
    BY DEF LossIInv, NothingLost, Connected
  <2>2. InChan(c) \subseteq Coming(c)
    BY DEF InChan, Coming, OnTheWay, Elems
  <2>3. InReplay(c) \subseteq Coming(c)
    BY DEF InReplay, Coming, OnTheWay, Elems
  <2>4. InFan(c) \subseteq Coming(c)
    BY DEF InFan, Coming, OnTheWay, FanningOut
  <2> QED
    BY <2>1, <2>2, <2>3, <2>4
<1> QED
  BY <1>1, HubIInvHolds, LossIInvHolds, PTL

\* "eventsSince returns buffered events with ID > lastID, in order": as far as they were
\* stored in order, wherever in the ring the oldest stands (sseHub.eventsSince).
THEOREM SSEHubReplayAsStored == Spec => []ReplayAsStored
<1>1. HubIInv /\ LossIInv => ReplayAsStored
  <2> SUFFICES ASSUME HubIInv, LossIInv PROVE ReplayAsStored
    OBVIOUS
  <2> DEFINE r == EventsSince(0)
  <2>1. DOMAIN r \subseteq 1..ringLen /\ \A j \in DOMAIN r : r[j] = RingOrder[j]
    BY DEF EventsSince
  <2> HIDE DEF r
  <2>2. \A i, j \in DOMAIN r : i < j => ring[r[i]].id < ring[r[j]].id \/ ring[r[j]].id \in late
    BY <2>1, RingOrderAscends DEF LossIInv, InOrder
  <2> QED
    BY <2>2 DEF ReplayAsStored, r
<1> QED
  BY <1>1, HubIInvHolds, LossIInvHolds, PTL

\* matchTopicPattern decides what the wildcards mean, for patterns and topics of any
\* length over any segments: "*" is one segment, ">" one or more, and the first segment
\* at which the loop returns is enough (sse.go, matchTopicPattern).
THEOREM WildcardsMean ==
  ASSUME NEW Segment, NEW p \in Seq(Segment), NEW t \in Seq(Segment)
  PROVE  MatchTopicPattern(p, t) <=> Means(p, t)
<1> DEFINE d == {i \in DOMAIN p : Decides(p, t, i)}
<1>1. CASE p = t
  BY <1>1 DEF MatchTopicPattern, Means, Covers
<1>2. CASE p # t /\ d = {}
  <2>1. \A i \in 1..Len(p) : p[i] # ">" /\ i <= Len(t) /\ p[i] \in {"*", t[i]}
    BY <1>2 DEF Decides
  <2>2. Covers(p, t, Len(p))
    BY <2>1 DEF Covers
  <2>3. MatchTopicPattern(p, t) <=> Len(p) = Len(t)
    BY <1>2 DEF MatchTopicPattern
  <2> QED
    BY <2>1, <2>2, <2>3 DEF Means
<1>3. CASE p # t /\ d # {}
  <2> DEFINE m == Min(d)
  <2>1. m \in d /\ \A j \in d : m <= j
    <3>1. d \subseteq Nat
      OBVIOUS
    <3> HIDE DEF d
    <3> QED
      BY <1>3, <3>1, OldestIsOne DEF Min, Oldest
  <2>2. MatchTopicPattern(p, t) <=> p[m] = ">" /\ m <= Len(t)
    BY <1>3 DEF MatchTopicPattern
  <2> HIDE DEF m
  <2>3. m \in 1..Len(p) /\ Decides(p, t, m)
    BY <2>1
  <2>4. \A i \in 1..(m - 1) : i <= Len(t) /\ p[i] \in {"*", t[i]} /\ p[i] # ">"
    BY <2>1, <2>3 DEF Decides
  <2>5. ASSUME p[m] = ">", m <= Len(t) PROVE Means(p, t)
    <3>1. Covers(p, t, m - 1)
      BY <2>3, <2>4, <2>5 DEF Covers
    <3> QED
      BY <2>3, <2>5, <3>1 DEF Means
  <2>6. ASSUME Means(p, t) PROVE p[m] = ">" /\ m <= Len(t)
    <3>1. CASE Len(p) = Len(t) /\ Covers(p, t, Len(p))
      BY <2>3, <3>1 DEF Covers, Decides
    <3>2. ASSUME NEW k \in 1..Len(p), p[k] = ">", k <= Len(t), Covers(p, t, k - 1)
          PROVE  p[m] = ">" /\ m <= Len(t)
      <4>1. k \in d
        BY <3>2 DEF Decides
      <4>2. m <= k
        BY <2>1, <4>1
      <4>3. CASE m = k
        BY <3>2, <4>3
      <4>4. CASE m < k
        BY <2>3, <3>2, <4>4 DEF Covers, Decides
      <4> QED
        BY <2>3, <4>2, <4>3, <4>4
    <3> QED
      BY <2>6, <3>1, <3>2 DEF Means
  <2> QED
    BY <2>2, <2>5, <2>6
<1> QED
  BY <1>1, <1>2, <1>3

\* Sequences of bounded length are sequences.
LEMMA SeqOfIsSeq ==
  ASSUME NEW S, NEW n \in Nat, NEW p \in SeqOf(S, n)
  PROVE  p \in Seq(S)
<1>1. PICK m \in 0..n : p \in [1..m -> S]
  BY DEF SeqOf
<1>2. \A k \in Nat : [1..k -> S] \subseteq Seq(S)
  OBVIOUS
<1>3. m \in Nat
  OBVIOUS
<1> QED
  BY <1>1, <1>2, <1>3

\* The patterns and topics the run tries are among them (MatchIsMeaning of the run
\* sse; sse.go, matchTopicPattern).
THEOREM SSEHubMatchIsMeaning == Spec => []MatchIsMeaning
<1>1. ASSUME NEW p \in Patterns, NEW t \in Topics PROVE MatchTopicPattern(p, t) = Means(p, t)
  <2> DEFINE Segment == Literal \cup {"*", ">"}
  <2>1. Literal \subseteq Segment
    OBVIOUS
  <2>2. p \in SeqOf(Segment, 4) /\ t \in SeqOf(Literal, 5)
    BY DEF Patterns, Topics
  <2> HIDE DEF Segment
  <2>3. p \in Seq(Segment) /\ t \in Seq(Literal)
    <3>1. 4 \in Nat /\ 5 \in Nat
      OBVIOUS
    <3> QED
      BY <2>2, <3>1, SeqOfIsSeq
  <2>4. t \in Seq(Segment)
    BY <2>1, <2>3, SeqMonotonic
  <2>5. MatchTopicPattern(p, t) <=> Means(p, t)
    BY <2>3, <2>4, WildcardsMean
  <2>6. MatchTopicPattern(p, t) \in BOOLEAN /\ Means(p, t) \in BOOLEAN
    BY DEF MatchTopicPattern, Means, Covers
  <2> QED
    BY <2>5, <2>6
<1>2. MatchIsMeaning
  BY <1>1 DEF MatchIsMeaning
<1> QED
  BY <1>2, PTL
=============================================================================
