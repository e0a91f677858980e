------------------------------ MODULE BusStream ------------------------------
(***************************************************************************)
(* Events on the JetStream streams of the bus, and GET /v1/bus/events with *)
(* its client.  An event's subject is the stream, for hook events the      *)
(* actor, and the event's type; whoever reads a stream gets the type back  *)
(* as the last segment of the subject.  Types are sequences of segments,   *)
(* as "jack.on" has two.                                                   *)
(*                                                                         *)
(* Each entry of a request's list gets a subscription of its own, so what  *)
(* is named twice comes twice.  Behind it is an ephemeral JetStream push   *)
(* consumer, whose messages the NATS client acknowledges once the callback *)
(* returned: one that is lost on its way, or its acknowledgement, is       *)
(* delivered again, and the consumer itself may go in an outage.           *)
(*                                                                         *)
(* The streams' retention (10000 messages), the consumers' limit on what   *)
(* is not acknowledged (1000) and the payloads are left out.               *)
(***************************************************************************)
EXTENDS Naturals, Sequences, SequencesExt, FiniteSets

CONSTANTS
  BusType, BusActor,    \* what is published, and by whom
  NoActor,              \* an event without actor
  Asks,                 \* requests: [streams, filter], a list without names for all streams
  NoFilter,
  BusCap, ClientCap,    \* channels of the handler (128) and the client (64)
  MaxPublished,         \* bound: events published
  MaxFaults             \* bound: messages, acknowledgements or consumers lost per connection

\* A type has at least one segment.
ASSUME BusAssumption ==
  /\ BusType \subseteq Seq(STRING) \ {<<>>}
  /\ \A ask \in Asks : ask.streams \in Seq(STRING)
  /\ BusCap \in Nat /\ ClientCap \in Nat

VARIABLES
  log,          \* [StreamNames -> Seq of messages], what JetStream stores
  conn          \* the connection of a client

busVars == <<log, conn>>

-----------------------------------------------------------------------------
(* Types, subjects and streams.                                            *)

AllStreams ==
  <<"hooks", "decisions", "agents", "mail", "mutations", "config", "gate", "inbox", "jack">>
StreamNames == {AllStreams[i] : i \in DOMAIN AllStreams}

Categories ==
  [decisions |-> {<<"DecisionCreated">>, <<"DecisionResponded">>, <<"DecisionEscalated">>, <<"DecisionExpired">>},
   agents    |-> {<<"AgentStarted">>, <<"AgentStopped">>, <<"AgentCrashed">>, <<"AgentIdle">>, <<"AgentHeartbeat">>},
   mail      |-> {<<"MailSent">>, <<"MailRead">>},
   mutations |-> {<<"MutationCreate">>, <<"MutationUpdate">>, <<"MutationDelete">>,
                  <<"MutationComment">>, <<"MutationStatus">>},
   config    |-> {<<"ConfigSet">>, <<"ConfigUnset">>},
   gate      |-> {<<"GateSatisfied">>, <<"GateCleared">>},
   jack      |-> {<<"jack", "on">>, <<"jack", "off">>, <<"jack", "expired">>, <<"jack", "extend">>}]

\* Any type without a category of its own is a hook event.
StreamOf(type) ==
  IF \E c \in DOMAIN Categories : type \in Categories[c]
  THEN CHOOSE c \in DOMAIN Categories : type \in Categories[c] ELSE "hooks"

\* SubjectForHookEvent for hook events, SubjectForEvent for the others.
SubjectOf(type, actor) ==
  IF StreamOf(type) = "hooks"
  THEN <<"hooks", IF actor = NoActor THEN "_global" ELSE actor>> \o type
  ELSE <<StreamOf(type)>> \o type

StreamForSubject(subject) == subject[1]

\* (fault) the segment after the stream's name
SecondSegment(subject) == subject[2]

EventTypeFromSubject(subject) == Last(subject)

-----------------------------------------------------------------------------
(* Publishing.                                                             *)

Published == FoldSet(LAMBDA s, n : n + Len(log[s]), 0, StreamNames)

\* Dispatch after its handlers, PublishRaw of a mutation.  A publish that
\* fails is logged: nothing is stored.
PublishToJetStream(type, actor) ==
  /\ Published < MaxPublished
  /\ LET subject == SubjectOf(type, actor)
         s == StreamForSubject(subject)
         msg == [subject |-> subject, seq |-> Len(log[s]) + 1, type |-> type]
     IN log' = [log EXCEPT ![s] = Append(@, msg)]
  /\ UNCHANGED conn

-----------------------------------------------------------------------------
(* The endpoint.                                                           *)

\* Subscriptions are named by their place in the list.  dropped and resent are
\* history: what found the channel full, and what was delivered again.
Unconnected ==
  [at |-> "none", filter |-> NoFilter, streams |-> <<>>, todo |-> {}, subs |-> {},
   since |-> <<>>, next |-> <<>>, unacked |-> <<>>, gone |-> {}, faults |-> 0,
   channel |-> <<>>, dropped |-> {}, resent |-> {}, wire |-> <<>>, got |-> <<>>, read |-> <<>>]

\* Names of no stream are ignored; a request without a valid one is refused.
ConnectBusSSE(ask) ==
  LET streams == IF ask.streams = <<>> THEN AllStreams ELSE ask.streams
      valid == {k \in DOMAIN streams : streams[k] \in StreamNames}
  IN /\ conn.at = "none" /\ valid # {}
     /\ conn' = [Unconnected EXCEPT
                   !.at = "subscribe", !.filter = ask.filter, !.streams = streams, !.todo = valid,
                   !.since = [k \in DOMAIN streams |-> 0], !.next = [k \in DOMAIN streams |-> 0],
                   !.unacked = [k \in DOMAIN streams |-> {}]]
     /\ UNCHANGED log

\* One entry after the other, each from the next message of its stream on.  One
\* that fails is skipped.
SubscribeStream(k) ==
  /\ conn.at = "subscribe" /\ k \in conn.todo /\ \A j \in conn.todo : k <= j
  /\ LET last == Len(log[conn.streams[k]])
     IN \/ conn' = [conn EXCEPT !.todo = @ \ {k}, !.subs = @ \cup {k}, !.since[k] = last, !.next[k] = last]
        \/ conn' = [conn EXCEPT !.todo = @ \ {k}]
  /\ UNCHANGED log

\* Without any subscription the stream ends here.
Subscribed ==
  /\ conn.at = "subscribe" /\ conn.todo = {}
  /\ conn' = IF conn.subs = {} THEN Unconnected ELSE [conn EXCEPT !.at = "stream"]
  /\ UNCHANGED log

\* The callback of subscription k: a full channel drops the message.
Callback(c, k, n) ==
  IF Len(c.channel) < BusCap
  THEN [c EXCEPT !.channel = Append(@, [sub |-> k, msg |-> log[c.streams[k]][n]])]
  ELSE [c EXCEPT !.dropped = @ \cup {<<k, n>>}]

\* Message n is sent: it and its acknowledgement arrive, or one of them is lost.
Transmit(c, k, n) ==
  /\ \/ conn' = [Callback(c, k, n) EXCEPT !.unacked[k] = @ \ {n}]
     \/ /\ c.faults < MaxFaults
        /\ \/ conn' = [Callback(c, k, n) EXCEPT !.unacked[k] = @ \cup {n}, !.faults = @ + 1]
           \/ conn' = [c EXCEPT !.unacked[k] = @ \cup {n}, !.faults = @ + 1]
  /\ UNCHANGED log

Deliver(k) ==
  /\ conn.next[k] < Len(log[conn.streams[k]])
  /\ Transmit([conn EXCEPT !.next[k] = @ + 1], k, conn.next[k] + 1)

\* What was not acknowledged in time is sent again.
Redeliver(k) ==
  \E n \in conn.unacked[k] : Transmit([conn EXCEPT !.resent = @ \cup {<<k, n>>}], k, n)

\* While the server is out of NATS' reach its consumer is removed: nothing more
\* comes, and nothing tells the handler.
ConsumerGone(k) ==
  /\ conn.faults < MaxFaults
  /\ conn' = [conn EXCEPT !.gone = @ \cup {k}, !.faults = @ + 1]
  /\ UNCHANGED log

Consumers == conn.subs \ conn.gone

\* The handler takes a message, and writes it unless its type is filtered out
\* (sub is history: the client sees the stream only).
HandleMessage ==
  /\ conn.at = "stream" /\ conn.channel # <<>>
  /\ LET msg == Head(conn.channel).msg
         evt == [sub |-> Head(conn.channel).sub, stream |-> StreamForSubject(msg.subject),
                 type |-> EventTypeFromSubject(msg.subject), seq |-> msg.seq]
         c == [conn EXCEPT !.channel = Tail(@)]
     IN IF conn.filter \in {NoFilter, evt.type}
        THEN Len(conn.wire) < 1 /\ conn' = [c EXCEPT !.wire = Append(@, evt)]
        ELSE conn' = c
  /\ UNCHANGED log

\* The client parses an event and sends it to its channel, waiting for room.
ReceiveEvent ==
  /\ conn.wire # <<>> /\ Len(conn.got) < ClientCap
  /\ conn' = [conn EXCEPT !.wire = Tail(@), !.got = Append(@, Head(conn.wire))]
  /\ UNCHANGED log

ReadEvent ==
  /\ conn.got # <<>>
  /\ conn' = [conn EXCEPT !.got = Tail(@), !.read = Append(@, Head(conn.got))]
  /\ UNCHANGED log

\* The client's context ends: the handler unsubscribes, the client's channel
\* is closed.
Disconnect ==
  /\ conn.at # "none"
  /\ conn' = Unconnected
  /\ UNCHANGED log

BusInit == log = [s \in StreamNames |-> <<>>] /\ conn = Unconnected

BusNext ==
  \/ \E type \in BusType, actor \in BusActor \cup {NoActor} : PublishToJetStream(type, actor)
  \/ \E ask \in Asks : ConnectBusSSE(ask)
  \/ \E k \in conn.todo : SubscribeStream(k)
  \/ \E k \in Consumers : Deliver(k) \/ Redeliver(k) \/ ConsumerGone(k)
  \/ Subscribed \/ HandleMessage \/ ReceiveEvent \/ ReadEvent \/ Disconnect

BusSpec == BusInit /\ [][BusNext]_busVars

-----------------------------------------------------------------------------
BusTypeOK ==
  /\ \A s \in StreamNames : \A i \in DOMAIN log[s] : log[s][i].seq = i /\ log[s][i].subject[1] = s
  /\ conn.at \in {"none", "subscribe", "stream"}
  /\ conn.subs \cup conn.todo \subseteq {k \in DOMAIN conn.streams : conn.streams[k] \in StreamNames}
  /\ conn.subs \cap conn.todo = {} /\ conn.gone \subseteq conn.subs
  /\ \A k \in conn.subs :
       /\ conn.since[k] <= conn.next[k] /\ conn.next[k] <= Len(log[conn.streams[k]])
       /\ conn.unacked[k] \subseteq conn.since[k] + 1 .. conn.next[k]
  /\ Len(conn.channel) <= BusCap /\ Len(conn.wire) <= 1 /\ Len(conn.got) <= ClientCap

\* What was delivered and not filtered out, oldest first: subscription and number.
Sent == conn.read \o conn.got \o conn.wire
Line ==
  [i \in DOMAIN Sent |-> <<Sent[i].sub, Sent[i].seq>>]
  \o [i \in DOMAIN conn.channel |-> <<conn.channel[i].sub, conn.channel[i].msg.seq>>]

\* "stream: comma-separated stream names", "filter: event type filter": for each
\* entry of its list that was subscribed to, the client gets events of that
\* stream and of the type it asked for, published since; those that were not sent
\* again in order and once; and every one the consumer has sent, unless the
\* channel was full or JetStream has still to send it again.
\* Filter and type for types of one segment only: of the others the last one is
\* taken for the type.
StreamsAsAsked ==
  \A k \in conn.subs :
    LET stream == conn.streams[k]
        heard == conn.since[k] + 1 .. conn.next[k]
        plain(n) == Len(log[stream][n].type) = 1
        wanted(n) == conn.filter \in {NoFilter, log[stream][n].type[1]}
    IN /\ \A i \in DOMAIN conn.channel : conn.channel[i].sub = k =>
            \E n \in heard : conn.channel[i].msg = log[stream][n]
       /\ \A i \in DOMAIN Sent : Sent[i].sub = k =>
            /\ Sent[i].seq \in heard /\ Sent[i].stream = stream
            /\ plain(Sent[i].seq) => wanted(Sent[i].seq) /\ Sent[i].type = log[stream][Sent[i].seq].type[1]
       /\ \A i, j \in DOMAIN Line :
            i < j /\ Line[i][1] = k /\ Line[j][1] = k /\ {Line[i], Line[j]} \cap conn.resent = {} =>
              Line[i][2] < Line[j][2]
       /\ \A n \in heard \ conn.unacked[k] : plain(n) /\ wanted(n) =>
            <<k, n>> \in conn.dropped \/ \E i \in DOMAIN Line : Line[i] = <<k, n>>
=============================================================================
