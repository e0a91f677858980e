---------------------------- MODULE ServerProofs ----------------------------
(***************************************************************************)
(* What holds of the server beside its mutations for every value of the    *)
(* constants: the subscription of kd watch never sends on its closed       *)
(* channel and no announced change is left without a query to come, a hook *)
(* that must block a request does, serve closes the publisher and the      *)
(* store only when no call it waits for uses them and what it waits for    *)
(* only ends, the graph put together from several reads is whole, and a    *)
(* client of the bus's streams reads what it asked for.  The last part is  *)
(* about all of these side by side.                                        *)
(***************************************************************************)
EXTENDS MCServer, Integers, FiniteSetTheorems, SequenceTheorems, TLAPS

-----------------------------------------------------------------------------
(* kd watch: messages, changes and outages of any number.                  *)

Subscription ==
  [registered : BOOLEAN, callback : {"idle", "started", "sending"}, mu : {"free", "callback"},
   closed : BOOLEAN, channelClosed : BOOLEAN, queued : Int]

Connection == [messages : Int, connected : BOOLEAN, outages : Int]

CommandLoop ==
  [at : {"start", "subscribe", "select", "wait", "answer", "cancel", "drain", "ended"},
   next : {"start", "subscribe", "select", "wait"}, answer : Nat, debounce : BOOLEAN,
   reconnect : BOOLEAN, failed : BOOLEAN, unheard : BOOLEAN]

WatchTyped == updatedAt \in Nat /\ sub \in Subscription /\ loop \in CommandLoop /\ nats \in Connection

\* mu is held by the callback exactly while it sends; closed is set under mu, and
\* before the channel is drained and closed.
Handshake ==
  /\ sub.mu = "callback" <=> sub.callback = "sending"
  /\ sub.closed => sub.callback # "sending"
  /\ sub.channelClosed => sub.closed
  /\ loop.at = "drain" => sub.closed

WatchIInv == WatchTyped /\ Handshake

\* Nothing shown or asked is newer than the bead, there are no more messages than
\* changes, and the channel is closed last.
WatchBounds ==
  /\ updatedAt \in 1..MaxUpdates /\ seen \in 0..updatedAt /\ loop.answer \in 0..updatedAt
  /\ nats.messages \in 0..updatedAt /\ nats.outages \in 0..MaxOutages
  /\ sub.queued \in 0..ChannelCap
  /\ sub.channelClosed => loop.at = "ended"

-----------------------------------------------------------------------------
LEMMA WatchInitIInv == WatchInit => WatchIInv
<1> SUFFICES ASSUME WatchInit PROVE WatchIInv
  OBVIOUS
<1>1. sub \in Subscription /\ nats \in Connection
  BY DEF WatchInit, Subscription, Connection
<1>2. loop \in CommandLoop
  BY DEF WatchInit, CommandLoop
<1>3. Handshake
  BY DEF WatchInit, Handshake
<1> QED
  BY <1>1, <1>2, <1>3 DEF WatchInit, WatchIInv, WatchTyped

\* Steps of the server and the connection leave the subscription alone.
LEMMA ConnectionSteps ==
  ASSUME WatchIInv,
         (\E published \in BOOLEAN : UpdateBead(published)) \/ DisconnectNATS \/ ReconnectNATS
  PROVE  WatchIInv'
<1>1. ASSUME NEW published \in BOOLEAN, UpdateBead(published) PROVE WatchIInv'
  <2> DEFINE told == ~(published /\ sub.registered) /\ nats.connected
  <2>0. told \in BOOLEAN
    BY DEF WatchIInv, WatchTyped, Connection, Subscription
  <2>1. nats' \in Connection
    BY <1>1 DEF UpdateBead, WatchIInv, WatchTyped, Connection
  <2> HIDE DEF told
  <2>2. loop' \in CommandLoop /\ loop'.at = loop.at
    BY <1>1, <2>0 DEF UpdateBead, WatchIInv, WatchTyped, CommandLoop, told
  <2>3. updatedAt' \in Nat /\ sub' = sub
    BY <1>1 DEF UpdateBead, WatchIInv, WatchTyped
  <2> QED
    BY <2>1, <2>2, <2>3 DEF WatchIInv, WatchTyped, Handshake
<1>2. CASE DisconnectNATS
  BY <1>2 DEF DisconnectNATS, WatchIInv, WatchTyped, Handshake, Connection
<1>3. CASE ReconnectNATS
  BY <1>3 DEF ReconnectNATS, WatchIInv, WatchTyped, Handshake, CommandLoop, Connection
<1> QED
  BY <1>1, <1>2, <1>3

\* The callback: it returns at once when closed, and sends under mu.
LEMMA CallbackSteps ==
  ASSUME WatchIInv, CallbackStart \/ CallbackLock \/ CallbackSend
  PROVE  WatchIInv'
<1>1. CASE CallbackStart
  BY <1>1 DEF CallbackStart, WatchIInv, WatchTyped, Handshake, Subscription, Connection
<1>2. CASE CallbackLock
  BY <1>2 DEF CallbackLock, WatchIInv, WatchTyped, Handshake, Subscription
<1>3. CASE CallbackSend
  <2> DEFINE queued == IF sub.queued < ChannelCap THEN sub.queued + 1 ELSE sub.queued
  <2>0. queued \in Int
    BY DEF WatchIInv, WatchTyped, Subscription
  <2> HIDE DEF queued
  <2>1. sub' \in Subscription
    <3>1. sub' = [sub EXCEPT !.callback = "idle", !.mu = "free", !.queued = queued]
      BY <1>3 DEF CallbackSend, queued
    <3> QED
      BY <2>0, <3>1 DEF WatchIInv, WatchTyped, Subscription
  <2>2. Handshake'
    BY <1>3 DEF CallbackSend, WatchIInv, WatchTyped, Handshake, Subscription
  <2> QED
    BY <1>3, <2>1, <2>2 DEF CallbackSend, WatchIInv, WatchTyped
<1> QED
  BY <1>1, <1>2, <1>3

\* subscribe and cancel.
LEMMA SubscriptionSteps ==
  ASSUME WatchIInv, Subscribe \/ Unsubscribe \/ MarkClosed \/ DrainAndClose
  PROVE  WatchIInv'
<1>1. CASE Subscribe
  <2>1. sub' \in Subscription
    BY <1>1 DEF Subscribe, WatchIInv, WatchTyped, Subscription
  <2>2. loop' \in CommandLoop
    BY <1>1 DEF Subscribe, WatchIInv, WatchTyped, CommandLoop
  <2>3. Handshake'
    BY <1>1 DEF Subscribe, WatchIInv, WatchTyped, Handshake, Subscription, CommandLoop
  <2> QED
    BY <1>1, <2>1, <2>2, <2>3 DEF Subscribe, WatchIInv, WatchTyped
<1>2. CASE Unsubscribe
  <2>1. sub' \in Subscription
    BY <1>2 DEF Unsubscribe, WatchIInv, WatchTyped, Subscription
  <2>2. nats' \in Connection
    BY <1>2 DEF Unsubscribe, WatchIInv, WatchTyped, Connection
  <2>3. Handshake'
    BY <1>2 DEF Unsubscribe, WatchIInv, WatchTyped, Handshake, Subscription
  <2> QED
    BY <1>2, <2>1, <2>2, <2>3 DEF Unsubscribe, WatchIInv, WatchTyped
<1>3. CASE MarkClosed
  BY <1>3 DEF MarkClosed, WatchIInv, WatchTyped, Handshake, Subscription, CommandLoop
<1>4. CASE DrainAndClose
  <2> DEFINE fewer == sub.queued - 1
  <2>0. fewer \in Int
    BY DEF WatchIInv, WatchTyped, Subscription
  <2> HIDE DEF fewer
  <2>1. sub' \in Subscription
    <3>1. sub' = [sub EXCEPT !.queued = fewer] \/ sub' = [sub EXCEPT !.channelClosed = TRUE]
      BY <1>4 DEF DrainAndClose, fewer
    <3> QED
      BY <2>0, <3>1 DEF WatchIInv, WatchTyped, Subscription
  <2>2. loop' \in CommandLoop
    BY <1>4 DEF DrainAndClose, WatchIInv, WatchTyped, CommandLoop
  <2>3. Handshake'
    BY <1>4 DEF DrainAndClose, WatchIInv, WatchTyped, Handshake, Subscription, CommandLoop
  <2> QED
    BY <1>4, <2>1, <2>2, <2>3 DEF DrainAndClose, WatchIInv, WatchTyped
<1> QED
  BY <1>1, <1>2, <1>3, <1>4

\* The command's queries and timers.
LEMMA LoopSteps ==
  ASSUME WatchIInv,
         \/ InitialQuery \/ ShowChanged \/ DebounceFires \/ IntervalPasses
         \/ EventArrives \/ Reconnected \/ Interrupt
  PROVE  WatchIInv'
<1>1. CASE InitialQuery
  BY <1>1 DEF InitialQuery, Query, WatchIInv, WatchTyped, Handshake, CommandLoop
<1>2. CASE ShowChanged
  BY <1>2 DEF ShowChanged, Ended, WatchIInv, WatchTyped, Handshake, CommandLoop
<1>3. CASE DebounceFires
  BY <1>3 DEF DebounceFires, WatchIInv, WatchTyped, Handshake, CommandLoop
<1>4. CASE IntervalPasses
  BY <1>4 DEF IntervalPasses, Query, WatchIInv, WatchTyped, Handshake, CommandLoop
<1>5. CASE EventArrives
  <2>1. sub' \in Subscription
    BY <1>5 DEF EventArrives, WatchIInv, WatchTyped, Subscription
  <2>2. loop' \in CommandLoop
    BY <1>5 DEF EventArrives, WatchIInv, WatchTyped, CommandLoop
  <2>3. Handshake'
    BY <1>5 DEF EventArrives, WatchIInv, WatchTyped, Handshake, Subscription, CommandLoop
  <2> QED
    BY <1>5, <2>1, <2>2, <2>3 DEF EventArrives, WatchIInv, WatchTyped
<1>6. CASE Reconnected
  BY <1>6 DEF Reconnected, WatchIInv, WatchTyped, Handshake, CommandLoop
<1>7. CASE Interrupt
  BY <1>7 DEF Interrupt, WatchIInv, WatchTyped, Handshake, CommandLoop
<1> QED
  BY <1>1, <1>2, <1>3, <1>4, <1>5, <1>6, <1>7

LEMMA WatchStepIInv == WatchIInv /\ [WatchNext]_watchVars => WatchIInv'
<1> SUFFICES ASSUME WatchIInv, [WatchNext]_watchVars PROVE WatchIInv'
  OBVIOUS
<1>1. CASE UNCHANGED watchVars
  BY <1>1 DEF watchVars, WatchIInv, WatchTyped, Handshake
<1>2. CASE WatchNext
  BY <1>2, ConnectionSteps, CallbackSteps, SubscriptionSteps, LoopSteps DEF WatchNext, WatchSteps
<1> QED
  BY <1>1, <1>2

\* Bounds of what kd watch counts, and its end, hold at the start.
LEMMA WatchInitBounds == WatchInit => WatchBounds
BY WatchAssumption DEF WatchInit, WatchBounds

\* The server and the connection: one message for one change.
LEMMA ConnectionBounded ==
  ASSUME WatchIInv, WatchBounds,
         (\E published \in BOOLEAN : UpdateBead(published)) \/ DisconnectNATS \/ ReconnectNATS
  PROVE  WatchBounds'
<1>1. sub \in Subscription /\ loop \in CommandLoop /\ nats \in Connection
  BY DEF WatchIInv, WatchTyped
<1>2. ASSUME NEW published \in BOOLEAN, UpdateBead(published) PROVE WatchBounds'
  <2>1. updatedAt' = updatedAt + 1 /\ updatedAt < MaxUpdates /\ seen' = seen /\ sub' = sub
    BY <1>2 DEF UpdateBead
  <2>2. loop'.answer = loop.answer /\ loop'.at = loop.at
    BY <1>1, <1>2 DEF UpdateBead, CommandLoop
  <2>3. nats'.outages = nats.outages /\ (nats'.messages = nats.messages \/ nats'.messages = nats.messages + 1)
    BY <1>1, <1>2 DEF UpdateBead, Connection
  <2> QED
    BY <2>1, <2>2, <2>3, WatchAssumption DEF WatchBounds
<1>3. CASE DisconnectNATS
  BY <1>3, WatchAssumption DEF DisconnectNATS, WatchBounds
<1>4. CASE ReconnectNATS
  BY <1>1, <1>4 DEF ReconnectNATS, WatchBounds, Connection, CommandLoop
<1> QED
  BY <1>2, <1>3, <1>4

\* The callback and cancel: a full channel takes no more.
LEMMA SubscriptionBounded ==
  ASSUME WatchIInv, WatchBounds,
         \/ Subscribe \/ CallbackStart \/ CallbackLock \/ CallbackSend
         \/ Unsubscribe \/ MarkClosed \/ DrainAndClose
  PROVE  WatchBounds'
<1>1. sub \in Subscription /\ loop \in CommandLoop /\ nats \in Connection
  BY DEF WatchIInv, WatchTyped
<1>2. CASE Subscribe
  <2>1. sub'.queued = sub.queued /\ sub'.channelClosed = sub.channelClosed
    BY <1>1, <1>2 DEF Subscribe, Subscription
  <2>2. loop'.answer = loop.answer /\ loop.at # "ended"
    BY <1>1, <1>2 DEF Subscribe, CommandLoop
  <2>3. UNCHANGED <<updatedAt, seen, nats>>
    BY <1>2 DEF Subscribe
  <2> QED
    BY <2>1, <2>2, <2>3 DEF WatchBounds
<1>3. CASE CallbackStart
  BY <1>1, <1>3 DEF CallbackStart, WatchBounds, Subscription, Connection
<1>4. CASE CallbackLock
  BY <1>1, <1>4 DEF CallbackLock, WatchBounds, Subscription
<1>5. CASE CallbackSend
  <2>1. /\ sub'.queued = IF sub.queued < ChannelCap THEN sub.queued + 1 ELSE sub.queued
        /\ sub'.channelClosed = sub.channelClosed /\ UNCHANGED <<updatedAt, seen, nats, loop>>
    BY <1>1, <1>5 DEF CallbackSend, Subscription
  <2> QED
    BY <2>1, WatchAssumption DEF WatchBounds
<1>6. CASE Unsubscribe
  <2>1. /\ sub'.queued = sub.queued /\ sub'.channelClosed = sub.channelClosed /\ UNCHANGED <<updatedAt, seen, loop>>
        /\ nats'.messages = 0 /\ nats'.outages = nats.outages
    BY <1>1, <1>6 DEF Unsubscribe, Subscription, Connection
  <2> QED
    BY <2>1, WatchAssumption DEF WatchBounds
<1>7. CASE MarkClosed
  BY <1>1, <1>7 DEF MarkClosed, WatchBounds, Subscription, CommandLoop
<1>8. CASE DrainAndClose
  <2>1. CASE sub.queued > 0
    <3>1. /\ sub'.queued = sub.queued - 1 /\ sub'.channelClosed = sub.channelClosed
          /\ UNCHANGED <<updatedAt, seen, nats, loop>>
      BY <1>1, <1>8, <2>1 DEF DrainAndClose, Subscription
    <3> QED
      BY <2>1, <3>1, WatchAssumption DEF WatchBounds
  <2>2. CASE ~(sub.queued > 0)
    BY <1>1, <1>8, <2>2 DEF DrainAndClose, WatchBounds, Subscription, CommandLoop
  <2> QED
    BY <2>1, <2>2
<1> QED
  BY <1>2, <1>3, <1>4, <1>5, <1>6, <1>7, <1>8

\* The command shows what a query answered, and asks what is there.
LEMMA LoopBounded ==
  ASSUME WatchIInv, WatchBounds,
         \/ InitialQuery \/ ShowChanged \/ EventArrives \/ Reconnected \/ DebounceFires
         \/ IntervalPasses \/ Interrupt
  PROVE  WatchBounds'
<1>1. sub \in Subscription /\ loop \in CommandLoop /\ nats \in Connection /\ updatedAt \in Nat
  BY DEF WatchIInv, WatchTyped
<1>2. CASE InitialQuery \/ IntervalPasses
  <2>1. PICK next \in {"subscribe", "wait"} : Query(next) /\ loop.at # "ended"
    BY <1>2 DEF InitialQuery, IntervalPasses
  <2>2. loop'.answer = updatedAt /\ loop'.at = "answer"
    BY <1>1, <2>1 DEF Query, CommandLoop
  <2>3. UNCHANGED <<updatedAt, seen, nats, sub>>
    BY <1>2 DEF InitialQuery, IntervalPasses
  <2> QED
    BY <1>1, <2>1, <2>2, <2>3 DEF WatchBounds
<1>3. CASE ShowChanged
  <2>1. loop.at = "answer" /\ loop'.answer = loop.answer /\ seen' \in {seen, loop.answer}
        /\ UNCHANGED <<updatedAt, nats, sub>>
    BY <1>1, <1>3 DEF ShowChanged, Ended, CommandLoop
  <2> QED
    BY <2>1 DEF WatchBounds
<1>4. CASE EventArrives
  <2>1. /\ sub'.queued = sub.queued - 1 /\ sub.queued > 0 /\ sub'.channelClosed = sub.channelClosed
        /\ loop'.answer = loop.answer /\ loop'.at = loop.at /\ UNCHANGED <<updatedAt, seen, nats>>
    BY <1>1, <1>4 DEF EventArrives, Subscription, CommandLoop
  <2> QED
    BY <2>1, WatchAssumption DEF WatchBounds
<1>5. CASE Reconnected
  BY <1>1, <1>5 DEF Reconnected, WatchBounds, CommandLoop
<1>6. CASE DebounceFires
  <2>1. /\ loop.at = "select" /\ loop'.answer = updatedAt /\ UNCHANGED <<updatedAt, seen, nats, sub>>
    BY <1>1, <1>6 DEF DebounceFires, CommandLoop
  <2> QED
    BY <1>1, <2>1 DEF WatchBounds
<1>7. CASE Interrupt
  <2>1. /\ loop.at \in {"wait", "select"} /\ loop'.answer = loop.answer /\ UNCHANGED <<updatedAt, seen, nats, sub>>
    BY <1>1, <1>7 DEF Interrupt, CommandLoop
  <2> QED
    BY <2>1 DEF WatchBounds
<1> QED
  BY <1>2, <1>3, <1>4, <1>5, <1>6, <1>7

\* Every step keeps the bounds.
LEMMA WatchStepBounds == WatchIInv /\ WatchBounds /\ [WatchNext]_watchVars => WatchBounds'
<1> SUFFICES ASSUME WatchIInv, WatchBounds, [WatchNext]_watchVars PROVE WatchBounds'
  OBVIOUS
<1>1. CASE UNCHANGED watchVars
  BY <1>1 DEF watchVars, WatchBounds
<1>2. CASE WatchNext
  BY <1>2, ConnectionBounded, SubscriptionBounded, LoopBounded DEF WatchNext, WatchSteps
<1> QED
  BY <1>1, <1>2

\* The types of kd watch follow.
LEMMA WatchTypes == WatchIInv /\ WatchBounds => WatchTypeOK /\ NeverSendsOnClosed
<1> SUFFICES ASSUME WatchIInv, WatchBounds PROVE WatchTypeOK /\ NeverSendsOnClosed
  OBVIOUS
<1>1. sub \in Subscription /\ loop \in CommandLoop /\ nats \in Connection
  BY DEF WatchIInv, WatchTyped
<1>2. nats.messages \in 0..MaxUpdates
  BY WatchAssumption DEF WatchBounds
<1>3. nats.connected \in BOOLEAN /\ sub.callback \in {"idle", "started", "sending"}
      /\ loop.at \in {"start", "subscribe", "select", "wait", "answer", "cancel", "drain", "ended"}
  BY <1>1 DEF Subscription, Connection, CommandLoop
<1>4. (sub.mu = "callback") = (sub.callback = "sending")
  BY DEF WatchIInv, Handshake
<1>5. NeverSendsOnClosed
  BY DEF WatchIInv, Handshake, NeverSendsOnClosed
<1> QED
  BY <1>2, <1>3, <1>4, <1>5 DEF WatchTypeOK, WatchBounds

-----------------------------------------------------------------------------
\* A message callback that runs while cancel unsubscribes, marks and closes the
\* channel never sends on it once it is closed (nats.go:87-127).
THEOREM WatchNeverSendsOnClosed == WatchSpec => []NeverSendsOnClosed
<1>1. WatchIInv => NeverSendsOnClosed
  BY DEF WatchIInv, Handshake, NeverSendsOnClosed
<1> QED
  BY <1>1, WatchInitIInv, WatchStepIInv, PTL DEF WatchSpec

\* What kd watch knows of the bead: what it shows, or is about to show.
Newest == IF loop.at = "answer" THEN loop.answer ELSE seen

\* What makes it ask again: a timer, a token, the connection when it is back, a message
\* on its way to the channel or in it.
Wakes ==
  \/ loop.debounce \/ loop.reconnect \/ ~nats.connected
  \/ nats.messages > 0 \/ sub.callback # "idle" \/ sub.queued > 0

\* A change that kd watch does not know of wakes it, unless nobody announced it.
ChangesAreDue ==
  loop.at \in {"subscribe", "select", "answer"} /\ Newest # updatedAt => loop.unheard \/ Wakes

\* The channel is closed by a command that asks no more.
ClosedLast == sub.closed => loop.at \in {"drain", "ended"}

\* A change is announced, lost with the connection, or not announced.
LEMMA ConnectionDue ==
  ASSUME WatchIInv, WatchBounds, ChangesAreDue,
         (\E published \in BOOLEAN : UpdateBead(published)) \/ DisconnectNATS \/ ReconnectNATS
  PROVE  ChangesAreDue'
<1>0. sub \in Subscription /\ loop \in CommandLoop /\ nats \in Connection /\ nats.messages \in Nat
  BY DEF WatchIInv, WatchTyped, WatchBounds
<1>1. ASSUME NEW published \in BOOLEAN, UpdateBead(published) PROVE ChangesAreDue'
  <2>1. loop' = [loop EXCEPT !.unheard = ~(published /\ sub.registered) /\ nats.connected] /\ sub' = sub
    BY <1>1 DEF UpdateBead
  <2>2. CASE ~nats.connected
    <3>1. ~nats'.connected
      BY <1>1, <2>2 DEF UpdateBead
    <3> QED
      BY <3>1 DEF ChangesAreDue, Wakes
  <2>3. CASE nats.connected /\ published /\ sub.registered
    <3>1. nats' = [nats EXCEPT !.messages = @ + 1]
      BY <1>1, <2>3 DEF UpdateBead
    <3>2. nats'.messages > 0
      BY <1>0, <3>1 DEF Connection
    <3> QED
      BY <3>2 DEF ChangesAreDue, Wakes
  <2>4. CASE nats.connected /\ ~(published /\ sub.registered)
    <3>1. loop'.unheard
      BY <1>0, <2>1, <2>4 DEF CommandLoop
    <3> QED
      BY <3>1 DEF ChangesAreDue
  <2> QED
    BY <2>2, <2>3, <2>4
<1>2. CASE DisconnectNATS
  <2>1. ~nats'.connected
    BY <1>2 DEF DisconnectNATS
  <2> QED
    BY <2>1 DEF ChangesAreDue, Wakes
<1>3. CASE ReconnectNATS
  <2>1. loop'.reconnect
    BY <1>0, <1>3 DEF ReconnectNATS, CommandLoop
  <2> QED
    BY <2>1 DEF ChangesAreDue, Wakes
<1> QED
  BY <1>1, <1>2, <1>3

\* The callback hands the message on; only cancel makes it drop one for good, and
\* what a full channel holds will do.
LEMMA CallbackDue ==
  ASSUME WatchIInv, WatchBounds, ChangesAreDue, ClosedLast, CallbackStart \/ CallbackLock \/ CallbackSend
  PROVE  ChangesAreDue'
<1>0. /\ sub \in Subscription /\ loop \in CommandLoop /\ nats \in Connection
      /\ sub.queued \in 0..ChannelCap /\ ChannelCap \in Nat \ {0}
  BY WatchAssumption DEF WatchIInv, WatchTyped, WatchBounds
<1>1. UNCHANGED <<updatedAt, seen, loop>>
  BY DEF CallbackStart, CallbackLock, CallbackSend
<1>2. CASE CallbackStart
  <2>1. sub'.callback = "started"
    BY <1>0, <1>2 DEF CallbackStart, Subscription
  <2> QED
    BY <2>1 DEF ChangesAreDue, Wakes
<1>3. CASE CallbackLock
  <2>1. CASE sub.closed
    <3>1. loop.at \notin {"subscribe", "select", "answer"}
      BY <2>1 DEF ClosedLast
    <3> QED
      BY <1>1, <3>1 DEF ChangesAreDue
  <2>2. CASE ~sub.closed
    <3>1. sub'.callback = "sending"
      BY <1>0, <1>3, <2>2 DEF CallbackLock, Subscription
    <3> QED
      BY <3>1 DEF ChangesAreDue, Wakes
  <2> QED
    BY <2>1, <2>2
<1>4. CASE CallbackSend
  <2>1. sub'.queued > 0
    <3>1. sub'.queued = IF sub.queued < ChannelCap THEN sub.queued + 1 ELSE sub.queued
      BY <1>0, <1>4 DEF CallbackSend, Subscription
    <3> QED
      BY <1>0, <3>1
  <2> QED
    BY <2>1 DEF ChangesAreDue, Wakes
<1> QED
  BY <1>2, <1>3, <1>4

\* Subscribing loses nothing that was due; after cancel nothing is.
LEMMA SubscriptionDue ==
  ASSUME WatchIInv, WatchBounds, ChangesAreDue, Subscribe \/ Unsubscribe \/ MarkClosed \/ DrainAndClose
  PROVE  ChangesAreDue'
<1>0. sub \in Subscription /\ loop \in CommandLoop /\ nats \in Connection
  BY DEF WatchIInv, WatchTyped
<1>1. CASE Subscribe
  <2>1. CASE loop'.at = "ended"
    BY <2>1 DEF ChangesAreDue
  <2>2. CASE loop'.at # "ended"
    <3>1. /\ loop.at = "subscribe" /\ sub' = [sub EXCEPT !.registered = TRUE] /\ loop' = [loop EXCEPT !.at = "select"]
          /\ UNCHANGED <<updatedAt, seen, nats>>
      BY <1>0, <1>1, <2>2 DEF Subscribe, CommandLoop
    <3>2. /\ Newest' = Newest /\ loop'.unheard = loop.unheard /\ loop'.debounce = loop.debounce
          /\ loop'.reconnect = loop.reconnect /\ sub'.callback = sub.callback /\ sub'.queued = sub.queued
      BY <1>0, <3>1 DEF Newest, CommandLoop, Subscription
    <3> QED
      BY <3>1, <3>2 DEF ChangesAreDue, Wakes
  <2> QED
    BY <2>1, <2>2
<1>2. CASE Unsubscribe \/ MarkClosed \/ DrainAndClose
  <2>1. loop'.at \in {"cancel", "drain", "ended"}
    BY <1>0, <1>2 DEF Unsubscribe, MarkClosed, DrainAndClose, CommandLoop
  <2> QED
    BY <2>1 DEF ChangesAreDue
<1> QED
  BY <1>1, <1>2

\* A query knows the bead as it is; an event or a token taken arms the timer.
LEMMA LoopDue ==
  ASSUME WatchIInv, WatchBounds, ChangesAreDue,
         \/ InitialQuery \/ ShowChanged \/ DebounceFires \/ IntervalPasses
         \/ EventArrives \/ Reconnected \/ Interrupt
  PROVE  ChangesAreDue'
<1>0. sub \in Subscription /\ loop \in CommandLoop /\ nats \in Connection
  BY DEF WatchIInv, WatchTyped
<1>1. CASE InitialQuery \/ DebounceFires \/ IntervalPasses
  <2>1. loop'.at = "answer" /\ loop'.answer = updatedAt /\ updatedAt' = updatedAt
    BY <1>0, <1>1 DEF InitialQuery, DebounceFires, IntervalPasses, Query, CommandLoop
  <2>2. Newest' = updatedAt'
    BY <2>1 DEF Newest
  <2> QED
    BY <2>2 DEF ChangesAreDue
<1>2. CASE ShowChanged
  <2>1. CASE seen' = loop.answer /\ loop' = [loop EXCEPT !.at = loop.next]
    <3>1. /\ loop.at = "answer" /\ Newest = loop.answer /\ loop'.at # "answer" /\ UNCHANGED <<updatedAt, nats, sub>>
          /\ loop'.unheard = loop.unheard /\ loop'.debounce = loop.debounce /\ loop'.reconnect = loop.reconnect
      BY <1>0, <1>2, <2>1 DEF ShowChanged, Newest, CommandLoop
    <3>2. Newest' = Newest
      BY <2>1, <3>1 DEF Newest
    <3> QED
      BY <3>1, <3>2 DEF ChangesAreDue, Wakes
  <2>2. CASE loop' = [Ended EXCEPT !.failed = TRUE]
    <3>1. loop'.at \in {"cancel", "ended"}
      BY <1>0, <2>2 DEF Ended, CommandLoop
    <3> QED
      BY <3>1 DEF ChangesAreDue
  <2> QED
    BY <1>2, <2>1, <2>2 DEF ShowChanged
<1>3. CASE EventArrives \/ Reconnected
  <2>1. loop'.debounce
    BY <1>0, <1>3 DEF EventArrives, Reconnected, CommandLoop
  <2> QED
    BY <2>1 DEF ChangesAreDue, Wakes
<1>4. CASE Interrupt
  <2>1. loop'.at \in {"cancel", "ended"}
    BY <1>0, <1>4 DEF Interrupt, CommandLoop
  <2> QED
    BY <2>1 DEF ChangesAreDue
<1> QED
  BY <1>1, <1>2, <1>3, <1>4

\* cancel is the last thing the command does.
LEMMA ClosedStaysLast == WatchIInv /\ ClosedLast /\ [WatchNext]_watchVars => ClosedLast'
<1> SUFFICES ASSUME WatchIInv, ClosedLast, [WatchNext]_watchVars PROVE ClosedLast'
  OBVIOUS
<1>0. sub \in Subscription /\ loop \in CommandLoop
  BY DEF WatchIInv, WatchTyped
<1>1. ASSUME sub'.closed = sub.closed, loop'.at = loop.at \/ loop.at \notin {"drain", "ended"} \/ loop'.at \in {"drain", "ended"}
      PROVE  ClosedLast'
  BY <1>1 DEF ClosedLast
<1>2. CASE UNCHANGED watchVars
  BY <1>2 DEF watchVars, ClosedLast
<1>3. ASSUME NEW published \in BOOLEAN, UpdateBead(published) PROVE ClosedLast'
  BY <1>0, <1>1, <1>3 DEF UpdateBead, CommandLoop
<1>4. CASE DisconnectNATS \/ ReconnectNATS
  BY <1>0, <1>1, <1>4 DEF DisconnectNATS, ReconnectNATS, CommandLoop
<1>5. CASE CallbackStart \/ CallbackLock \/ CallbackSend
  BY <1>0, <1>1, <1>5 DEF CallbackStart, CallbackLock, CallbackSend, Subscription
<1>6. CASE EventArrives \/ Reconnected \/ Interrupt
  BY <1>0, <1>1, <1>6 DEF EventArrives, Reconnected, Interrupt, Subscription, CommandLoop
<1>7. CASE InitialQuery \/ ShowChanged \/ DebounceFires \/ IntervalPasses
  BY <1>0, <1>1, <1>7 DEF InitialQuery, ShowChanged, DebounceFires, IntervalPasses, Query, Subscription, CommandLoop
<1>8. CASE Subscribe \/ Unsubscribe
  BY <1>0, <1>1, <1>8 DEF Subscribe, Unsubscribe, Subscription, CommandLoop
<1>9. CASE MarkClosed \/ DrainAndClose
  BY <1>0, <1>9 DEF MarkClosed, DrainAndClose, Subscription, CommandLoop, ClosedLast
<1> QED
  BY <1>2, <1>3, <1>4, <1>5, <1>6, <1>7, <1>8, <1>9 DEF WatchNext, WatchSteps

\* "immediately re-query for missed events": whatever was dropped by a full channel, came
\* while a query ran or was lost with the connection, the command never waits in select
\* with a change it does not know of and nothing that will wake it. What LastChangeShown
\* needs beside fairness (watchNATS, NATSSubscriber.Subscribe).
THEOREM WatchChangesAreDue == WatchSpec => []ChangesAreDue
<1> DEFINE Inv == WatchIInv /\ WatchBounds /\ ChangesAreDue /\ ClosedLast
<1>1. WatchInit => Inv
  <2>1. WatchInit => ChangesAreDue /\ ClosedLast
    BY DEF WatchInit, ChangesAreDue, ClosedLast
  <2> QED
    BY <2>1, WatchInitIInv, WatchInitBounds
<1>2. Inv /\ [WatchNext]_watchVars => Inv'
  <2>1. ASSUME WatchIInv, WatchBounds, ChangesAreDue, ClosedLast, WatchNext PROVE ChangesAreDue'
    BY <2>1, ConnectionDue, CallbackDue, SubscriptionDue, LoopDue DEF WatchNext, WatchSteps
  <2>2. ChangesAreDue /\ UNCHANGED watchVars => ChangesAreDue'
    BY DEF watchVars, ChangesAreDue, Newest, Wakes
  <2> QED
    BY <2>1, <2>2, WatchStepIInv, WatchStepBounds, ClosedStaysLast
<1> QED
  BY <1>1, <1>2, PTL DEF WatchSpec

-----------------------------------------------------------------------------
(* EmitHook and ExecuteHooks.                                              *)

\* The advice for this agent, and the failed advice whose failure must block.
Mine == {a \in Advice \ Unusable : Concerns(a)}
Fatal(e) == {a \in e.failed : OnFailure[a] = "block"}

\* What a request whose reads succeeded has done so far.
Heeds(e) ==
  /\ e.at = "subs" => e.steady \subseteq e.todo
  /\ e.at = "hooks" => e.subs = Enriched /\ e.steady \cap Mine \subseteq e.todo \cup e.ran
  /\ e.ran \subseteq Mine
  /\ e.at \in {"bus", "answered"} /\ e.agent /\ e.op # "other" /\ e.reason \notin Advice \cup {"gate"} =>
       e.steady \cap Mine \subseteq e.ran

\* What every request has done, by where it is.
Early(e) == e.at \in {"gate", "list", "subs", "hooks"}
Progress(e) ==
  /\ Early(e) => e.op # "other" /\ e.agent /\ e.said = {} /\ e.reason = Nobody
  /\ e.at \in {"gate", "list", "subs"} => e.ran = {}
  /\ e.at = "gate" => e.op = "stop"
  /\ e.at = "bus" => e.agent /\ e.op # "execute"
  /\ ~e.agent => e.at = "answered" /\ e.ran = {} /\ e.said = {} /\ e.reason = Nobody /\ e.op # "execute"
  /\ e.op = "execute" => e.said = {}

\* Why a request blocks.
Names(e) ==
  /\ e.block = (e.reason # Nobody)
  /\ e.failed \subseteq e.ran /\ e.steady \subseteq open
  /\ e.reason \in Advice => Fatal(e) = {e.reason}
  /\ Fatal(e) # {} => e.reason \in Advice
  /\ e.reason = "gate" => e.at = "answered" /\ e.op = "stop" /\ e.ran = {} /\ e.said = {}
  /\ e.reason \in BusHandler => e.reason \in e.said
  /\ e.awaited => IF e.said = {} THEN e.reason \notin BusHandler ELSE e.reason \in Advice \cup e.said
  /\ e.at = "answered" /\ e.awaited /\ e.agent /\ e.op # "execute" /\ e.reason # "gate" => e.handlers = {}

\* One whose reads succeeded has done what Heeds says.
RequestHolds(e) == Progress(e) /\ Names(e) /\ (e.relied => Heeds(e))

HooksIInv == HooksTypeOK /\ \A r \in Emitter : emit[r] # NoEmit => RequestHolds(emit[r])

\* matchesSubscriptions decides what the properties mean by "for the agent".
LEMMA MatchConcerns ==
  ASSUME NEW a \in Advice
  PROVE  MatchesSubscriptions(LabelsOf[a], Enriched) <=> Concerns(a)
<1> DEFINE L == LabelsOf[a]
           groups == {k.group : k \in L}
           members(g) == {k \in L : k.group = g}
           Meant(l) == IF l.group = Ungrouped THEN Plain(l) \in Enriched
                       ELSE \A k \in L : k.group = l.group => Plain(k) \in Enriched
<1>1. \A l \in L : l.scope \in {"rig", "agent"} <=> l.scope # "other"
  BY HooksAssumption
<1>2. ASSUME NEW group \in GroupsOf(L), group \subseteq Enriched
      PROVE  \E l \in L : Meant(l)
  <2>1. CASE \E g \in groups \ {Ungrouped} : group = {Plain(l) : l \in members(g)}
    <3>1. PICK g \in groups \ {Ungrouped} : group = {Plain(l) : l \in members(g)}
      BY <2>1
    <3>2. PICK l \in L : l.group = g
      BY <3>1
    <3> QED
      BY <1>2, <3>1, <3>2
  <2>2. CASE \E l \in L : l.group = Ungrouped /\ group = {Plain(l)}
    BY <1>2, <2>2
  <2> QED
    BY <2>1, <2>2 DEF GroupsOf
<1>3. ASSUME NEW l \in L, Meant(l)
      PROVE  \E group \in GroupsOf(L) : group \subseteq Enriched
  <2>1. CASE l.group = Ungrouped
    <3>1. {Plain(l)} \in GroupsOf(L)
      BY <2>1 DEF GroupsOf
    <3> QED
      BY <1>3, <2>1, <3>1
  <2>2. CASE l.group # Ungrouped
    <3>1. {Plain(k) : k \in members(l.group)} \in GroupsOf(L)
      BY <2>2 DEF GroupsOf
    <3>2. {Plain(k) : k \in members(l.group)} \subseteq Enriched
      BY <1>3, <2>2
    <3> QED
      BY <3>1, <3>2
  <2> QED
    BY <2>1, <2>2
<1> QED
  BY <1>1, <1>2, <1>3 DEF MatchesSubscriptions, Concerns

\* Every request under way is one.
LEMMA RequestIs ==
  ASSUME HooksIInv, NEW r \in Emitter, emit[r] # NoEmit
  PROVE  emit[r] \in HookRequest /\ RequestHolds(emit[r])
BY DEF HooksIInv, HooksTypeOK

\* A request that goes on has to hold itself only.
LEMMA ProceedsKeeps ==
  ASSUME HooksIInv, NEW r \in Emitter, NEW next,
         next # NoEmit => next \in HookRequest /\ RequestHolds(next),
         Proceeds(r, next)
  PROVE  HooksIInv'
<1>1. emit \in [Emitter -> HookRequest \cup {NoEmit}] /\ emit' = [emit EXCEPT ![r] = next] /\ open' = open /\ open \subseteq Advice
  BY DEF HooksIInv, HooksTypeOK, Proceeds
<1>2. emit' \in [Emitter -> HookRequest \cup {NoEmit}]
  BY <1>1
<1>3. \A x \in Emitter : emit'[x] = IF x = r THEN next ELSE emit[x]
  BY <1>1
<1>4. ASSUME NEW x \in Emitter, emit'[x] # NoEmit
      PROVE  /\ RequestHolds(emit[x])'
             /\ emit'[x].block = (emit'[x].reason # Nobody) /\ emit'[x].failed \subseteq emit'[x].ran
  <2>1. RequestHolds(emit'[x])
    BY <1>3, <1>4 DEF HooksIInv
  <2> QED
    BY <1>1, <2>1 DEF RequestHolds, Progress, Early, Names, Heeds, Fatal
<1> QED
  BY <1>1, <1>2, <1>4 DEF HooksIInv, HooksTypeOK

\* A request starts with nothing done; without an agent it is answered at once
\* (http_hooks.go:54-64).
LEMMA HooksStart ==
  ASSUME HooksIInv, NEW r \in Emitter, EmitHook(r)
  PROVE  HooksIInv'
<1>1. PICK op \in {"stop", "execute", "other"}, agent \in BOOLEAN :
        (op = "execute" => agent) /\ Proceeds(r, Fresh(op, agent))
  BY DEF EmitHook
<1> DEFINE e == Fresh(op, agent)
<1>2. /\ e.op = op /\ e.agent = agent /\ e.todo = {} /\ e.subs = {} /\ e.handlers = BusHandler /\ e.block = FALSE
      /\ e.reason = Nobody /\ e.steady = open /\ e.ran = {} /\ e.failed = {} /\ e.said = {} /\ e.relied /\ e.awaited
      /\ e.at = IF ~agent THEN "answered" ELSE IF op = "stop" THEN "gate" ELSE IF op = "execute" THEN "list" ELSE "bus"
  BY DEF Fresh
<1>3. e \in HookRequest
  <2>1. open \subseteq Advice
    BY DEF HooksIInv, HooksTypeOK
  <2> QED
    BY <2>1 DEF Fresh, HookRequest
<1> HIDE DEF e
<1>4. Fatal(e) = {} /\ Nobody # "gate" /\ Nobody \notin Advice /\ Nobody \notin BusHandler
  BY <1>2, HooksAssumption DEF Fatal
<1>5. Progress(e)
  BY <1>1, <1>2 DEF Progress, Early
<1>6. Names(e)
  BY <1>1, <1>2, <1>4 DEF Names
<1>7. Heeds(e)
  BY <1>1, <1>2 DEF Heeds
<1> QED
  BY <1>1, <1>3, <1>5, <1>6, <1>7, ProceedsKeeps DEF RequestHolds, e

\* The hooks over, a request goes to the bus or, for ExecuteHooks, is answered.
LEMMA AfterHooksHolds ==
  ASSUME HooksIInv, NEW e \in HookRequest, Progress([e EXCEPT !.reason = Nobody]), Names(e), e.relied => Heeds(e),
         e.at \in {"list", "hooks"}, e.reason \in Advice \cup {Nobody},
         e.relied /\ e.reason = Nobody => e.steady \cap Mine \subseteq e.ran
  PROVE  AfterHooks(e) \in HookRequest /\ RequestHolds(AfterHooks(e))
<1>1. AfterHooks(e) \in HookRequest
  BY DEF AfterHooks, HookRequest
<1> DEFINE next == AfterHooks(e)
           prior == [e EXCEPT !.reason = Nobody]
<1>2. /\ next.at = IF e.op = "execute" THEN "answered" ELSE "bus"
      /\ next.op = e.op /\ next.agent = e.agent /\ next.handlers = e.handlers /\ next.block = e.block
      /\ next.reason = e.reason /\ next.steady = e.steady /\ next.ran = e.ran /\ next.failed = e.failed
      /\ next.said = e.said /\ next.relied = e.relied /\ next.awaited = e.awaited
  BY DEF AfterHooks, HookRequest
<1>3. /\ prior.at = e.at /\ prior.op = e.op /\ prior.agent = e.agent /\ prior.said = e.said
  BY DEF HookRequest
<1> HIDE DEF next, prior
<1>4. e.op # "other" /\ e.agent /\ e.said = {}
  BY <1>3 DEF Progress, Early, prior
<1>5. Fatal(next) = Fatal(e) /\ "gate" \notin Advice \cup {Nobody}
  BY <1>2, HooksAssumption DEF Fatal
<1>6. Progress(next)
  BY <1>2, <1>4 DEF Progress, Early
<1>7. Names(next)
  BY <1>2, <1>4, <1>5 DEF Names
<1>8. next.relied => Heeds(next)
  BY <1>2 DEF Heeds
<1> QED
  BY <1>1, <1>6, <1>7, <1>8 DEF RequestHolds, next

\* The hooks over, a request that has found no fatal failure goes on.
LEMMA HooksOver ==
  ASSUME HooksIInv, NEW e \in HookRequest, RequestHolds(e), e.at \in {"list", "hooks"},
         e.relied => e.steady \cap Mine \subseteq e.ran
  PROVE  AfterHooks(e) \in HookRequest /\ RequestHolds(AfterHooks(e))
<1>1. Progress(e) /\ e.reason = Nobody /\ Names(e) /\ (e.relied => Heeds(e))
  BY DEF RequestHolds, Progress, Early
<1>2. [e EXCEPT !.reason = Nobody] = e
  BY <1>1 DEF HookRequest
<1> QED
  BY <1>1, <1>2, AfterHooksHolds

\* A request that has the advice listed has everything open to do.
LEMMA UnreadHolds ==
  ASSUME NEW e \in HookRequest, NEW next \in HookRequest, RequestHolds(e), e.at = "list",
         next.at = "subs", next.todo = open, next.op = e.op, next.agent = e.agent,
         next.handlers = e.handlers, next.steady = e.steady, next.block = e.block, next.reason = e.reason,
         next.ran = e.ran, next.failed = e.failed, next.said = e.said,
         next.relied = e.relied, next.awaited = e.awaited
  PROVE  RequestHolds(next)
<1>1. Progress(e) /\ Names(e) /\ (e.relied => Heeds(e))
  BY DEF RequestHolds
<1>2. Progress(next)
  BY <1>1 DEF Progress, Early
<1>3. Names(next)
  BY <1>1 DEF Names, Fatal, Progress, Early
<1>4. next.relied => Heeds(next)
  BY <1>1 DEF Heeds, Names
<1> QED
  BY <1>2, <1>3, <1>4 DEF RequestHolds

\* The stop gate answers at once or lets the hooks run.
LEMMA GateKeeps ==
  ASSUME HooksIInv, NEW r \in Emitter, Gate(r)
  PROVE  HooksIInv'
<1> DEFINE e == emit[r]
<1>0. e # NoEmit /\ e.at = "gate" /\ e \in HookRequest /\ RequestHolds(e)
  BY RequestIs DEF Gate, Is
<1>1. e.op = "stop" /\ e.agent /\ e.said = {} /\ e.reason = Nobody /\ e.ran = {} /\ Names(e)
  BY <1>0 DEF RequestHolds, Progress, Early
<1> DEFINE passed == [e EXCEPT !.at = "list"]
           stopped == [e EXCEPT !.at = "answered", !.block = TRUE, !.reason = "gate"]
<1>2. ASSUME NEW next, next = passed \/ next = stopped
      PROVE  next \in HookRequest /\ RequestHolds(next)
  <2>0. passed \in HookRequest /\ stopped \in HookRequest
    BY <1>0 DEF HookRequest
  <2>1. next \in HookRequest
    BY <1>2, <2>0
  <2>2. /\ next.op = e.op /\ next.agent = e.agent /\ next.handlers = e.handlers /\ next.steady = e.steady
        /\ next.ran = e.ran /\ next.failed = e.failed /\ next.said = e.said
        /\ next.relied = e.relied /\ next.awaited = e.awaited
        /\ \/ next.at = "list" /\ next.block = e.block /\ next.reason = e.reason
           \/ next.at = "answered" /\ next.block /\ next.reason = "gate"
    BY <1>0, <1>2 DEF HookRequest
  <2>3. "gate" \notin Advice \cup BusHandler \cup {Nobody} /\ Nobody \notin Advice \cup BusHandler
    BY HooksAssumption
  <2>4. Fatal(e) = {} /\ Fatal(next) = {}
    BY <1>1, <2>2, <2>3 DEF Fatal, Names
  <2>5. Progress(next)
    BY <1>1, <2>2 DEF Progress, Early
  <2>6. Names(next)
    BY <1>1, <2>2, <2>3, <2>4 DEF Names
  <2>7. next.relied => Heeds(next)
    BY <1>0, <1>1, <2>2 DEF RequestHolds, Heeds
  <2> QED
    BY <2>1, <2>5, <2>6, <2>7 DEF RequestHolds
<1> QED
  BY <1>2, ProceedsKeeps DEF Gate

\* What ListBeads returns is what is left to do; on an error there are no hooks.
LEMMA ListKeeps ==
  ASSUME HooksIInv, NEW r \in Emitter, ListAdvice(r)
  PROVE  HooksIInv'
<1> DEFINE e == emit[r]
<1>0. e # NoEmit /\ e.at = "list" /\ e \in HookRequest /\ RequestHolds(e) /\ open \subseteq Advice
  BY RequestIs DEF ListAdvice, Is, HooksIInv, HooksTypeOK
<1>1. ASSUME NEW next, next = [e EXCEPT !.at = "subs", !.todo = open] PROVE next \in HookRequest /\ RequestHolds(next)
  <2>1. next \in HookRequest
    BY <1>0, <1>1 DEF HookRequest
  <2>2. /\ next.at = "subs" /\ next.todo = open /\ next.op = e.op /\ next.agent = e.agent
        /\ next.handlers = e.handlers /\ next.steady = e.steady /\ next.block = e.block /\ next.reason = e.reason
        /\ next.ran = e.ran /\ next.failed = e.failed /\ next.said = e.said
        /\ next.relied = e.relied /\ next.awaited = e.awaited
    BY <1>0, <1>1 DEF HookRequest
  <2> QED
    BY <1>0, <2>1, <2>2, UnreadHolds
<1>2. ASSUME NEW next, next = AfterHooks([e EXCEPT !.relied = FALSE])
      PROVE  next \in HookRequest /\ RequestHolds(next)
  <2> DEFINE unread == [e EXCEPT !.relied = FALSE]
  <2>1. /\ unread \in HookRequest /\ ~unread.relied /\ unread.at = "list" /\ unread.op = e.op /\ unread.agent = e.agent
        /\ unread.handlers = e.handlers /\ unread.steady = e.steady /\ unread.block = e.block
        /\ unread.reason = e.reason /\ unread.ran = e.ran /\ unread.failed = e.failed /\ unread.said = e.said
        /\ unread.awaited = e.awaited
    BY <1>0 DEF HookRequest
  <2> HIDE DEF unread
  <2>2. RequestHolds(unread)
    BY <1>0, <2>1 DEF RequestHolds, Progress, Early, Names, Fatal
  <2> QED
    BY <1>2, <2>1, <2>2, HooksOver DEF unread
<1> QED
  BY <1>1, <1>2, ProceedsKeeps DEF ListAdvice

\* A request that cannot read the subscriptions is no longer relied on.
LEMMA SubscriptionsKeep ==
  ASSUME HooksIInv, NEW r \in Emitter, EnrichSubscriptions(r)
  PROVE  HooksIInv'
<1> DEFINE e == emit[r]
<1>0. e # NoEmit /\ e.at = "subs" /\ e \in HookRequest /\ RequestHolds(e)
  BY RequestIs DEF EnrichSubscriptions, Is
<1> DEFINE read == [e EXCEPT !.at = "hooks", !.subs = Enriched]
           unread == [e EXCEPT !.at = "hooks", !.subs = Automatic, !.relied = FALSE]
<1>1. ASSUME NEW next, next = read \/ next = unread
      PROVE  next \in HookRequest /\ RequestHolds(next)
  <2>0. read \in HookRequest /\ unread \in HookRequest
    BY <1>0 DEF HookRequest, Enriched
  <2>1. next \in HookRequest
    BY <1>1, <2>0
  <2>2. /\ next.at = "hooks" /\ next.todo = e.todo /\ next.op = e.op /\ next.agent = e.agent
        /\ next.handlers = e.handlers /\ next.steady = e.steady /\ next.block = e.block /\ next.reason = e.reason
        /\ next.ran = e.ran /\ next.failed = e.failed /\ next.said = e.said /\ next.awaited = e.awaited
        /\ next.relied => next.subs = Enriched /\ e.relied
    BY <1>0, <1>1 DEF HookRequest
  <2>3. Progress(e) /\ Names(e) /\ (e.relied => Heeds(e))
    BY <1>0 DEF RequestHolds
  <2>4. Progress(next)
    BY <1>0, <2>2, <2>3 DEF Progress, Early
  <2>5. Names(next)
    BY <1>0, <2>2, <2>3 DEF Names, Fatal, Progress, Early
  <2>6. next.relied => Heeds(next)
    BY <1>0, <2>2, <2>3 DEF Heeds
  <2> QED
    BY <2>1, <2>4, <2>5, <2>6 DEF RequestHolds
<1> QED
  BY <1>1, ProceedsKeeps DEF EnrichSubscriptions

\* An advice passed over, or run without an end to the hooks.
LEMMA HookTaken ==
  ASSUME NEW e \in HookRequest, NEW next \in HookRequest, NEW a \in e.todo, RequestHolds(e),
         e.at = "hooks", next.at = "hooks", next.todo = e.todo \ {a}, next.op = e.op, next.agent = e.agent,
         next.subs = e.subs, next.handlers = e.handlers, next.steady = e.steady, next.block = e.block,
         next.reason = e.reason, next.said = e.said, next.relied = e.relied, next.awaited = e.awaited,
         next.ran = IF Applies(a, e.subs) THEN e.ran \cup {a} ELSE e.ran,
         \/ next.failed = e.failed
         \/ next.failed = e.failed \cup {a} /\ Applies(a, e.subs) /\ OnFailure[a] # "block"
  PROVE  RequestHolds(next)
<1>1. Progress(e) /\ Names(e) /\ (e.relied => Heeds(e)) /\ e.reason = Nobody
  BY DEF RequestHolds, Progress, Early
<1>2. Fatal(e) = {}
  BY <1>1, HooksAssumption DEF Names
<1>3. Fatal(next) = {} /\ next.failed \subseteq next.ran
  <2>1. e.failed \subseteq e.ran
    BY <1>1 DEF Names
  <2> QED
    BY <1>2, <2>1 DEF Fatal
<1>4. Progress(next)
  BY <1>1 DEF Progress, Early
<1>5. Names(next)
  <2>1. Nobody \notin Advice \cup BusHandler /\ Nobody # "gate"
    BY HooksAssumption
  <2> QED
    BY <1>1, <1>3, <2>1 DEF Names, Progress, Early
<1>6. ASSUME next.relied PROVE Heeds(next)
  <2>1. a \in Advice /\ Heeds(e)
    BY <1>1, <1>6 DEF HookRequest
  <2>2. Applies(a, e.subs) <=> a \in Mine
    BY <2>1, MatchConcerns DEF Heeds, Applies, Mine
  <2> QED
    BY <2>1, <2>2 DEF Heeds
<1> QED
  BY <1>4, <1>5, <1>6 DEF RequestHolds

\* A fatal failure ends the hooks and blocks in the advice's name.
LEMMA HookBlocks ==
  ASSUME HooksIInv, NEW e \in HookRequest, NEW next \in HookRequest, NEW a \in e.todo, RequestHolds(e),
         Applies(a, e.subs), OnFailure[a] = "block",
         e.at = "hooks", next.at = "hooks", next.op = e.op, next.agent = e.agent,
         next.handlers = e.handlers, next.steady = e.steady, next.block, next.reason = a,
         next.said = e.said, next.relied = e.relied, next.awaited = e.awaited,
         next.subs = e.subs, next.todo = e.todo \ {a},
         next.ran = e.ran \cup {a}, next.failed = e.failed \cup {a}
  PROVE  AfterHooks(next) \in HookRequest /\ RequestHolds(AfterHooks(next))
<1>1. Progress(e) /\ Names(e) /\ (e.relied => Heeds(e)) /\ e.reason = Nobody
  BY DEF RequestHolds, Progress, Early
<1>2. Fatal(e) = {} /\ a \in Advice /\ a \notin BusHandler /\ a # "gate" /\ a # Nobody
  BY <1>1, HooksAssumption DEF Names, HookRequest
<1>3. Fatal(next) = {a}
  BY <1>2 DEF Fatal
<1>4. Names(next)
  BY <1>1, <1>2, <1>3 DEF Names, Progress, Early
<1> DEFINE prior == [next EXCEPT !.reason = Nobody]
<1>5. /\ prior.at = "hooks" /\ prior.op = e.op /\ prior.agent = e.agent /\ prior.said = e.said
      /\ prior.reason = Nobody
  BY DEF HookRequest
<1> HIDE DEF prior
<1>6. Progress(prior)
  BY <1>1, <1>5 DEF Progress, Early
<1>7. ASSUME next.relied PROVE Heeds(next)
  <2>1. Heeds(e)
    BY <1>1, <1>7
  <2>2. a \in Mine
    BY <1>2, <2>1, MatchConcerns DEF Heeds, Applies, Mine
  <2> QED
    BY <2>1, <2>2 DEF Heeds
<1> QED
  BY <1>2, <1>4, <1>6, <1>7, AfterHooksHolds DEF prior

\* Each advice is passed over, runs, or fails; the first fatal failure ends the hooks.
LEMMA RunHookKeeps ==
  ASSUME HooksIInv, NEW r \in Emitter, RunHook(r)
  PROVE  HooksIInv'
<1> DEFINE e == emit[r]
<1>0. e # NoEmit /\ e.at = "hooks" /\ e \in HookRequest /\ RequestHolds(e)
  BY RequestIs DEF RunHook, Is
<1>1. PICK a \in e.todo :
       LET x == [e EXCEPT !.todo = @ \ {a}]
       IN \/ ~Applies(a, x.subs) /\ Proceeds(r, x)
          \/ Applies(a, x.subs) /\ Proceeds(r, [x EXCEPT !.ran = @ \cup {a}])
          \/ /\ Applies(a, x.subs)
             /\ LET f == [x EXCEPT !.ran = @ \cup {a}, !.failed = @ \cup {a}]
                IN IF OnFailure[a] = "block"
                   THEN Proceeds(r, AfterHooks([f EXCEPT !.block = TRUE, !.reason = a]))
                   ELSE Proceeds(r, f)
  BY Zenon DEF RunHook
<1> DEFINE passed == [e EXCEPT !.todo = @ \ {a}]
           ran == [passed EXCEPT !.ran = @ \cup {a}]
           failed == [passed EXCEPT !.ran = @ \cup {a}, !.failed = @ \cup {a}]
           blocked == [failed EXCEPT !.block = TRUE, !.reason = a]
<1>2. a \in Advice /\ passed.subs = e.subs /\ e.todo \subseteq Advice
  BY <1>0 DEF HookRequest
<1>3. /\ passed \in HookRequest /\ passed.at = "hooks" /\ passed.todo = e.todo \ {a} /\ passed.op = e.op
      /\ passed.agent = e.agent /\ passed.subs = e.subs /\ passed.handlers = e.handlers
      /\ passed.steady = e.steady /\ passed.block = e.block /\ passed.reason = e.reason /\ passed.said = e.said
      /\ passed.relied = e.relied /\ passed.awaited = e.awaited
      /\ passed.ran = e.ran /\ passed.failed = e.failed
  BY <1>0, <1>2 DEF HookRequest
<1>4. /\ ran \in HookRequest /\ ran.at = "hooks" /\ ran.todo = e.todo \ {a} /\ ran.op = e.op
      /\ ran.agent = e.agent /\ ran.subs = e.subs /\ ran.handlers = e.handlers
      /\ ran.steady = e.steady /\ ran.block = e.block /\ ran.reason = e.reason /\ ran.said = e.said
      /\ ran.relied = e.relied /\ ran.awaited = e.awaited
      /\ ran.ran = e.ran \cup {a} /\ ran.failed = e.failed
  BY <1>0, <1>2 DEF HookRequest
<1>5. /\ failed \in HookRequest /\ failed.at = "hooks" /\ failed.todo = e.todo \ {a} /\ failed.op = e.op
      /\ failed.agent = e.agent /\ failed.subs = e.subs /\ failed.handlers = e.handlers
      /\ failed.steady = e.steady /\ failed.block = e.block /\ failed.reason = e.reason /\ failed.said = e.said
      /\ failed.relied = e.relied /\ failed.awaited = e.awaited
      /\ failed.ran = e.ran \cup {a} /\ failed.failed = e.failed \cup {a}
  BY <1>0, <1>2 DEF HookRequest
<1>6. /\ blocked \in HookRequest /\ blocked.at = "hooks" /\ blocked.todo = e.todo \ {a} /\ blocked.op = e.op
      /\ blocked.agent = e.agent /\ blocked.subs = e.subs /\ blocked.handlers = e.handlers
      /\ blocked.steady = e.steady /\ blocked.block /\ blocked.reason = a /\ blocked.said = e.said
      /\ blocked.relied = e.relied /\ blocked.awaited = e.awaited
      /\ blocked.ran = e.ran \cup {a} /\ blocked.failed = e.failed \cup {a}
  BY <1>0, <1>2 DEF HookRequest
<1> HIDE DEF passed, ran, failed, blocked
<1>7. \/ ~Applies(a, e.subs) /\ Proceeds(r, passed)
      \/ Applies(a, e.subs) /\ Proceeds(r, ran)
      \/ Applies(a, e.subs) /\ OnFailure[a] = "block" /\ Proceeds(r, AfterHooks(blocked))
      \/ Applies(a, e.subs) /\ OnFailure[a] # "block" /\ Proceeds(r, failed)
  BY <1>1, <1>2 DEF passed, ran, failed, blocked
<1>8. ~Applies(a, e.subs) => RequestHolds(passed)
  BY <1>0, <1>3, HookTaken
<1>9. Applies(a, e.subs) => RequestHolds(ran)
  BY <1>0, <1>4, HookTaken
<1>10. Applies(a, e.subs) /\ OnFailure[a] # "block" => RequestHolds(failed)
  BY <1>0, <1>5, HookTaken
<1>11. Applies(a, e.subs) /\ OnFailure[a] = "block" =>
         AfterHooks(blocked) \in HookRequest /\ RequestHolds(AfterHooks(blocked))
  BY <1>0, <1>6, HookBlocks
<1> QED
  BY <1>3, <1>4, <1>5, <1>7, <1>8, <1>9, <1>10, <1>11, ProceedsKeeps

\* With nothing left every steady advice of the agent has run.
LEMMA HooksDoneKeeps ==
  ASSUME HooksIInv, NEW r \in Emitter, HooksDone(r)
  PROVE  HooksIInv'
<1> DEFINE e == emit[r]
<1>0. e # NoEmit /\ e.at = "hooks" /\ e \in HookRequest /\ RequestHolds(e) /\ e.todo = {} /\ Proceeds(r, AfterHooks(e))
  BY RequestIs DEF HooksDone, Is
<1>1. e.relied => e.steady \cap Mine \subseteq e.ran
  BY <1>0 DEF RequestHolds, Heeds
<1> QED
  BY <1>0, <1>1, HooksOver, ProceedsKeeps

\* A handler on the bus names itself unless an advice hook blocked before.
LEMMA HandleKeeps ==
  ASSUME HooksIInv, NEW r \in Emitter, Handle(r)
  PROVE  HooksIInv'
<1> DEFINE e == emit[r]
<1>0. e # NoEmit /\ e.at = "bus" /\ e \in HookRequest /\ RequestHolds(e)
  BY RequestIs DEF Handle, Is
<1>1. Progress(e) /\ Names(e) /\ (e.relied => Heeds(e))
  BY <1>0 DEF RequestHolds
<1>2. ASSUME NEW h \in Foremost(e.handlers), NEW next, next = [e EXCEPT !.handlers = @ \ {h}]
      PROVE  /\ next \in HookRequest /\ RequestHolds(next)
             /\ BlockedBy(next, h) \in HookRequest /\ RequestHolds(BlockedBy(next, h))
  <2>0. h \in BusHandler /\ h \notin Advice \cup {"gate", Nobody} /\ Nobody \notin Advice
    BY <1>0, HooksAssumption DEF Foremost, HookRequest
  <2>1. /\ next \in HookRequest /\ next.at = "bus" /\ next.op = e.op /\ next.agent = e.agent
        /\ next.steady = e.steady /\ next.block = e.block /\ next.reason = e.reason /\ next.ran = e.ran
        /\ next.failed = e.failed /\ next.said = e.said /\ next.relied = e.relied /\ next.awaited = e.awaited
    BY <1>0, <1>2 DEF HookRequest
  <2>2. Fatal(next) = Fatal(e)
    BY <2>1 DEF Fatal
  <2>3. Progress(next) /\ (next.relied => Heeds(next))
    BY <1>0, <1>1, <2>1 DEF Progress, Early, Heeds
  <2>4. Names(next)
    BY <1>0, <1>1, <2>1, <2>2 DEF Names
  <2> DEFINE blocked == BlockedBy(next, h)
  <2>5. /\ blocked \in HookRequest /\ blocked.at = "bus" /\ blocked.op = e.op /\ blocked.agent = e.agent
        /\ blocked.steady = e.steady /\ blocked.block /\ blocked.ran = e.ran
        /\ blocked.reason = IF e.reason \in Advice THEN e.reason ELSE h
        /\ blocked.failed = e.failed /\ blocked.said = e.said \cup {h}
        /\ blocked.relied = e.relied /\ blocked.awaited = e.awaited
    BY <2>0, <2>1 DEF BlockedBy, HookRequest
  <2> HIDE DEF blocked
  <2>6. Fatal(blocked) = Fatal(e)
    BY <2>5 DEF Fatal
  <2>7. Progress(blocked)
    BY <1>0, <1>1, <2>5 DEF Progress, Early
  <2>8. blocked.relied => Heeds(blocked)
    BY <1>0, <1>1, <2>0, <2>5 DEF Heeds, Names
  <2>9. Names(blocked)
    BY <1>0, <1>1, <2>0, <2>5, <2>6 DEF Names
  <2> QED
    BY <2>1, <2>3, <2>4, <2>5, <2>7, <2>8, <2>9 DEF RequestHolds, blocked
<1> QED
  BY <1>2, ProceedsKeeps DEF Handle

\* A chain cut short keeps a block of the hooks only; a whole one has asked every handler.
LEMMA BusEndKeeps ==
  ASSUME HooksIInv, NEW r \in Emitter, Canceled(r) \/ Dispatched(r)
  PROVE  HooksIInv'
<1> DEFINE e == emit[r]
<1>0. e # NoEmit /\ e.at = "bus" /\ e \in HookRequest /\ RequestHolds(e)
  BY RequestIs DEF Canceled, Dispatched, Is
<1>1. Progress(e) /\ Names(e) /\ (e.relied => Heeds(e))
  BY <1>0 DEF RequestHolds
<1>2. Nobody \notin Advice \cup BusHandler \cup {"gate"}
  BY HooksAssumption
<1>3. CASE Canceled(r)
  <2> DEFINE next == [e EXCEPT !.at = "answered", !.handlers = {}, !.awaited = FALSE,
                              !.block = @ /\ e.reason \in Advice,
                              !.reason = IF @ \in Advice THEN @ ELSE Nobody]
  <2>1. next \in HookRequest
    BY <1>0 DEF HookRequest
  <2>2. /\ next.at = "answered" /\ next.op = e.op /\ next.agent = e.agent /\ next.handlers = {}
        /\ next.steady = e.steady /\ next.ran = e.ran /\ next.failed = e.failed /\ next.said = e.said
        /\ next.relied = e.relied /\ ~next.awaited /\ next.block = (e.block /\ e.reason \in Advice)
        /\ next.reason = IF e.reason \in Advice THEN e.reason ELSE Nobody
    BY <1>0 DEF HookRequest
  <2> HIDE DEF next
  <2>3. Fatal(next) = Fatal(e)
    BY <2>2 DEF Fatal
  <2>4. Progress(next)
    BY <1>0, <1>1, <2>2 DEF Progress, Early
  <2>5. next.relied => Heeds(next)
    BY <1>0, <1>1, <1>2, <2>2 DEF Heeds, Names
  <2>6. Names(next)
    BY <1>0, <1>1, <1>2, <2>2, <2>3 DEF Names
  <2>7. Proceeds(r, next)
    BY <1>3 DEF Canceled, next
  <2> QED
    BY <2>1, <2>4, <2>5, <2>6, <2>7, ProceedsKeeps DEF RequestHolds
<1>4. CASE Dispatched(r)
  <2> DEFINE next == [e EXCEPT !.at = "answered"]
  <2>1. /\ next \in HookRequest /\ next.at = "answered" /\ next.op = e.op /\ next.agent = e.agent
        /\ next.handlers = {} /\ next.reason = e.reason /\ next.block = e.block
        /\ next.steady = e.steady /\ next.ran = e.ran /\ next.failed = e.failed /\ next.said = e.said
        /\ next.relied = e.relied /\ next.awaited = e.awaited
    BY <1>0, <1>4 DEF HookRequest, Dispatched
  <2> HIDE DEF next
  <2>2. Fatal(next) = Fatal(e)
    BY <2>1 DEF Fatal
  <2>3. Progress(next) /\ (next.relied => Heeds(next))
    BY <1>0, <1>1, <2>1 DEF Progress, Early, Heeds
  <2>4. Names(next)
    BY <1>0, <1>1, <2>1, <2>2 DEF Names
  <2>5. Proceeds(r, next)
    BY <1>4 DEF Dispatched, next
  <2> QED
    BY <2>1, <2>3, <2>4, <2>5, ProceedsKeeps DEF RequestHolds
<1> QED
  BY <1>3, <1>4

\* An advice that changes is no longer steady; nothing else of a request depends on it.
LEMMA AdviceChangesKeeps ==
  ASSUME HooksIInv, NEW a \in Advice, AdviceChanges(a)
  PROVE  HooksIInv'
<1>1. open' = IF a \in open THEN open \ {a} ELSE open \cup {a}
  BY DEF AdviceChanges
<1>2. ASSUME NEW r \in Emitter
      PROVE  /\ emit'[r] \in HookRequest \cup {NoEmit}
             /\ emit'[r] # NoEmit => RequestHolds(emit[r])'
  <2>1. CASE emit[r] = NoEmit
    BY <2>1 DEF AdviceChanges
  <2>2. CASE emit[r] # NoEmit
    <3> DEFINE e == emit[r]
               next == [e EXCEPT !.steady = @ \ {a}]
    <3>1. e \in HookRequest /\ Progress(e) /\ Names(e) /\ (e.relied => Heeds(e))
      BY <2>2, RequestIs DEF RequestHolds
    <3>2. /\ next \in HookRequest /\ next.steady = e.steady \ {a} /\ next.at = e.at /\ next.op = e.op
          /\ next.agent = e.agent /\ next.todo = e.todo /\ next.subs = e.subs /\ next.handlers = e.handlers
          /\ next.block = e.block /\ next.reason = e.reason /\ next.ran = e.ran /\ next.failed = e.failed
          /\ next.said = e.said /\ next.relied = e.relied /\ next.awaited = e.awaited
      BY <3>1 DEF HookRequest
    <3>3. emit'[r] = next
      BY <2>2 DEF AdviceChanges
    <3> HIDE DEF e, next
    <3>4. next.steady \subseteq open'
      BY <1>1, <3>1, <3>2 DEF Names
    <3>5. Progress(next) /\ (next.relied => Heeds(next))
      BY <3>1, <3>2 DEF Progress, Early, Heeds
    <3>6. Fatal(next) = Fatal(e)
      BY <3>2 DEF Fatal
    <3> QED
      BY <3>1, <3>2, <3>3, <3>4, <3>5, <3>6 DEF RequestHolds, Names, Progress, Early, Heeds, Fatal
  <2> QED
    BY <2>1, <2>2
<1>3. open' \subseteq Advice
  BY <1>1 DEF HooksIInv, HooksTypeOK
<1>4. emit' \in [Emitter -> HookRequest \cup {NoEmit}]
  <2>1. emit' = [r \in Emitter |-> emit'[r]]
    BY DEF AdviceChanges
  <2> QED
    BY <1>2, <2>1
<1>5. \A r \in Emitter : emit'[r] # NoEmit => RequestHolds(emit[r])'
  BY <1>2
<1>6. ASSUME NEW r \in Emitter, emit'[r] # NoEmit
      PROVE  emit'[r].block = (emit'[r].reason # Nobody) /\ emit'[r].failed \subseteq emit'[r].ran
  BY <1>5, <1>6 DEF RequestHolds, Names
<1> QED
  BY <1>3, <1>4, <1>5, <1>6 DEF HooksIInv, HooksTypeOK

\* An answered request goes away.
LEMMA AnswerHookKeeps ==
  ASSUME HooksIInv, NEW r \in Emitter, AnswerHook(r)
  PROVE  HooksIInv'
BY ProceedsKeeps DEF AnswerHook

\* No hook is under way at the start.
LEMMA HooksInitIInv == HooksInit => HooksIInv
BY DEF HooksInit, HooksIInv, HooksTypeOK

\* Every step of EmitHook, ExecuteHooks and the advice they read keeps the invariant.
LEMMA HooksStep == HooksIInv /\ [HooksNext]_hookVars => HooksIInv'
<1> SUFFICES ASSUME HooksIInv, [HooksNext]_hookVars PROVE HooksIInv'
  OBVIOUS
<1>1. CASE UNCHANGED hookVars
  BY <1>1 DEF hookVars, HooksIInv, HooksTypeOK, RequestHolds, Progress, Early, Names, Heeds, Fatal
<1>2. CASE HooksNext
  BY <1>2, HooksStart, GateKeeps, ListKeeps, SubscriptionsKeep, RunHookKeeps, HooksDoneKeeps,
     HandleKeeps, BusEndKeeps, AnswerHookKeeps, AdviceChangesKeeps DEF HooksNext
<1> QED
  BY <1>1, <1>2

\* What the invariant says of an answer.
LEMMA HooksPromise == HooksIInv => HooksTypeOK /\ BlockersHeeded
<1> SUFFICES ASSUME HooksIInv, NEW r \in Emitter, Is(r, "answered")
             PROVE  LET e == emit[r]
                        mine == {a \in Advice \ Unusable : Concerns(a)}
                        fatal == {a \in e.failed : OnFailure[a] = "block"}
                    IN /\ ~e.agent => e.ran = {} /\ ~e.block
                       /\ e.reason = "gate" => e.op = "stop" /\ e.ran = {} /\ e.said = {}
                       /\ fatal # {} => e.block /\ fatal = {e.reason}
                       /\ fatal = {} /\ e.agent /\ e.awaited /\ e.reason # "gate" =>
                            /\ e.op # "execute" => e.handlers = {}
                            /\ IF e.said = {} THEN ~e.block ELSE e.block /\ e.reason \in e.said
                       /\ e.agent /\ e.relied =>
                            /\ e.ran \subseteq mine
                            /\ e.op # "other" /\ e.reason \notin Advice \cup {"gate"} =>
                                 e.steady \cap mine \subseteq e.ran
  BY DEF BlockersHeeded, HooksIInv
<1> DEFINE e == emit[r]
<1>1. e.at = "answered" /\ e \in HookRequest /\ Progress(e) /\ Names(e) /\ (e.relied => Heeds(e))
  BY RequestIs DEF Is, RequestHolds
<1>2. Nobody \notin Advice \cup BusHandler \cup {"gate"} /\ Advice \cap BusHandler = {} /\ "gate" \notin BusHandler
  BY HooksAssumption
<1>3. e.reason \in Advice \cup BusHandler \cup {"gate", Nobody} /\ e.said \subseteq BusHandler
  BY <1>1 DEF HookRequest
<1> HIDE DEF e
<1>4. Fatal(e) = {a \in e.failed : OnFailure[a] = "block"}
  BY DEF Fatal
<1>5. /\ ~e.agent => e.ran = {} /\ ~e.block
      /\ e.reason = "gate" => e.op = "stop" /\ e.ran = {} /\ e.said = {}
      /\ Fatal(e) # {} => e.block /\ Fatal(e) = {e.reason}
  BY <1>1, <1>2 DEF Progress, Names
<1>6. Fatal(e) = {} /\ e.agent /\ e.awaited /\ e.reason # "gate" =>
        /\ e.op # "execute" => e.handlers = {}
        /\ IF e.said = {} THEN ~e.block ELSE e.block /\ e.reason \in e.said
  <2> SUFFICES ASSUME Fatal(e) = {}, e.agent, e.awaited, e.reason # "gate"
               PROVE  /\ e.op # "execute" => e.handlers = {}
                      /\ IF e.said = {} THEN ~e.block ELSE e.block /\ e.reason \in e.said
    OBVIOUS
  <2>1. e.reason \notin Advice /\ (e.op # "execute" => e.handlers = {})
    BY <1>1 DEF Names
  <2>2. IF e.said = {} THEN e.reason = Nobody ELSE e.reason \in e.said
    BY <1>1, <1>3, <2>1 DEF Names
  <2> QED
    BY <1>1, <1>2, <1>3, <2>1, <2>2 DEF Names
<1>7. e.agent /\ e.relied =>
        /\ e.ran \subseteq Mine
        /\ e.op # "other" /\ e.reason \notin Advice \cup {"gate"} => e.steady \cap Mine \subseteq e.ran
  BY <1>1 DEF Heeds
<1> QED
  BY <1>4, <1>5, <1>6, <1>7 DEF Mine, e

\* However the stages of a request interleave with changes of the advice, and
\* whatever fails or goes away: its answer blocks for the gate, for its first fatal
\* hook, or because a handler it asked said so, and for nothing else; and what
\* ran was meant for its agent.  Without an agent nothing ran.
THEOREM HooksBlockersHeeded == HooksSpec => [](HooksTypeOK /\ BlockersHeeded)
BY HooksInitIInv, HooksStep, HooksPromise, PTL DEF HooksSpec

-----------------------------------------------------------------------------
(* serve.                                                                  *)

\* Where serve is, from its start to its end (server.go of kd serve).
Places == {"start", "store", "publisher", "grpc", "sync", "hooks", "reaper", "serving", "stopReaper",
           "stopHooks", "stopSync", "stopGRPC", "stopHTTP", "closePublisher", "closePublisherLate",
           "closeStore", "closeStoreLate", "exit", "exitLate", "ended"}
Late == {"closePublisherLate", "closeStoreLate", "exitLate"}
Closing == {"closePublisher", "closeStore", "exit"}

\* serve opens the store before the publisher and closes them after the servers; the
\* late places are those after an HTTP shutdown that timed out.
ServeIInv ==
  /\ ServeTypeOK /\ main \in Places
  /\ opened = IF main \in {"start", "ended", "exit", "exitLate"} THEN {}
              ELSE IF main \in {"store", "closeStore", "closeStoreLate"} THEN {"store"} ELSE {"store", "publisher"}
  /\ main \in {"start", "store", "publisher", "ended"} => listening = {} /\ inFlight = {} /\ worker.sync = "off"
  /\ main \in {"stopGRPC", "stopHTTP"} \cup Closing \cup Late => "grpc" \notin listening /\ worker.sync = "off"
  /\ main \in {"stopHTTP"} \cup Closing \cup Late => listening = {} /\ Grpc = {}
  /\ main \in Closing => Http = {}

\* Nothing is open at the start.
LEMMA ServeInitIInv == ServeInit => ServeIInv
BY DEF ServeInit, ServeIInv, ServeTypeOK, Places, Late, Closing, Workers

USE DEF Goes, Running

\* serve opens the store and the publisher before it listens or starts a worker.
LEMMA Starts ==
  ASSUME ServeIInv,
         OpenStore \/ CreatePublisher \/ ListenGRPC \/ ListenHTTP \/ StartScheduler \/ StartSubscriber \/ StartReaper
  PROVE  ServeIInv'
<1>1. CASE OpenStore \/ CreatePublisher
  BY <1>1 DEF ServeIInv, ServeTypeOK, Places, Late, Closing, Workers, OpenStore, CreatePublisher, Grpc, Http
<1>2. CASE ListenGRPC \/ ListenHTTP
  BY <1>2 DEF ServeIInv, ServeTypeOK, Places, Late, Closing, Workers, ListenGRPC, ListenHTTP, Grpc, Http
<1>3. CASE StartScheduler \/ StartSubscriber \/ StartReaper
  BY <1>3 DEF ServeIInv, ServeTypeOK, Places, Late, Closing, Workers, StartScheduler, StartSubscriber, StartReaper, Grpc, Http
<1> QED
  BY <1>1, <1>2, <1>3

\* Calls and workers open and close nothing.
LEMMA Serving ==
  ASSUME ServeIInv,
         \/ \E c \in Caller \cup Browser \cup StreamClient : CallArrives(c) \/ CallEnds(c)
         \/ \E w \in Workers : Works(w) \/ WorkEnds(w)
  PROVE  ServeIInv'
<1>1. ASSUME NEW c \in Caller \cup Browser \cup StreamClient, CallArrives(c) PROVE ServeIInv'
  BY <1>1 DEF ServeIInv, ServeTypeOK, Places, Late, Closing, CallArrives, Grpc, Http
<1>2. ASSUME NEW c \in Caller \cup Browser \cup StreamClient, CallEnds(c) PROVE ServeIInv'
  BY <1>2 DEF ServeIInv, ServeTypeOK, Places, Late, Closing, CallEnds, Grpc, Http
<1>3. ASSUME NEW w \in Workers, Works(w) \/ WorkEnds(w) PROVE ServeIInv'
  BY <1>3 DEF ServeIInv, ServeTypeOK, Places, Late, Closing, Workers, Works, WorkEnds, Grpc, Http
<1> QED
  BY <1>1, <1>2, <1>3

\* Telling a worker to stop leaves the others alone.
LEMMA ToldType ==
  ASSUME ServeTypeOK, NEW w \in Workers, NEW next \in Told(w)
  PROVE  /\ next \in [Workers -> {"off", "idle", "busy", "stopping"}]
         /\ \A v \in Workers \ {w} : next[v] = worker[v]
BY DEF Told, ServeTypeOK

\* serve closes the publisher and the store after the servers and the sync stopped.
LEMMA Stops ==
  ASSUME ServeIInv, SignalArrives \/ StopSteps
  PROVE  ServeIInv'
<1>1. CASE SignalArrives
  BY <1>1, ToldType DEF ServeIInv, ServeTypeOK, Places, Late, Closing, Workers, SignalArrives, Grpc, Http
<1>2. CASE StopReaper \/ CancelSync
  BY <1>2, ToldType DEF ServeIInv, ServeTypeOK, Places, Late, Closing, Workers, StopReaper, CancelSync, Grpc, Http
<1>3. CASE StopSync \/ StopGRPC \/ StopHTTP
  BY <1>3 DEF ServeIInv, ServeTypeOK, Places, Late, Closing, Workers, StopSync, StopGRPC, StopHTTP, Grpc, Http
<1>4. CASE ClosePublisher \/ CloseStore \/ Exit
  BY <1>4 DEF ServeIInv, ServeTypeOK, Places, Late, Closing, Workers, ClosePublisher, CloseStore, Exit, Grpc, Http
<1> QED
  BY <1>1, <1>2, <1>3, <1>4 DEF StopSteps

\* Every step of serve, its workers and its callers keeps the invariant.
LEMMA ServeStep == ServeIInv /\ [ServeNext]_serveVars => ServeIInv'
<1> SUFFICES ASSUME ServeIInv, [ServeNext]_serveVars PROVE ServeIInv'
  OBVIOUS
<1>1. CASE UNCHANGED serveVars
  BY <1>1 DEF serveVars, ServeIInv, ServeTypeOK, Grpc, Http
<1> QED
  BY <1>1, Starts, Serving, Stops DEF ServeNext

\* Where serve is, what is used is open.
LEMMA ServePromise == ServeIInv => ServeTypeOK /\ OpenWhenUsed
BY DEF ServeIInv, ServeTypeOK, OpenWhenUsed, Places, Late, Closing, Grpc, Http

\* No call uses a closed store or publisher while serve goes down, unless the HTTP
\* shutdown timed out with streams still open (the safety half of a graceful stop).
THEOREM ServeOpenWhenUsed == ServeSpec => []OpenWhenUsed
BY ServeInitIInv, ServeStep, ServePromise, PTL DEF ServeSpec

\* What serve waits for on its way out.
Awaited ==
  CASE main = "stopReaper" -> {w \in {"reaper"} : worker[w] # "off"}
    [] main = "stopSync" -> {w \in {"sync"} : worker[w] # "off"}
    [] main = "stopGRPC" -> Grpc
    [] main = "stopHTTP" -> Http
    [] OTHER -> {}

\* A worker serve waits for has been told to stop.
ToldToStop ==
  /\ main = "stopReaper" => worker.reaper \in {"off", "stopping"}
  /\ main = "stopSync" => worker.sync \in {"off", "stopping"}

\* It is told in the step that begins the wait, and begins nothing new.
LEMMA ToldToStopStep == ServeIInv /\ ToldToStop /\ [ServeNext]_serveVars => ToldToStop'
<1> SUFFICES ASSUME ServeIInv, ToldToStop, [ServeNext]_serveVars PROVE ToldToStop'
  OBVIOUS
<1>0. worker \in [Workers -> {"off", "idle", "busy", "stopping"}] /\ {"reaper", "sync", "hooks"} = Workers
  BY DEF ServeIInv, ServeTypeOK, Workers
<1>1. CASE UNCHANGED serveVars
  BY <1>1 DEF serveVars, ToldToStop
<1>2. CASE OpenStore \/ CreatePublisher \/ ListenGRPC \/ ListenHTTP \/ StartScheduler \/ StartSubscriber \/ StartReaper
  BY <1>2 DEF OpenStore, CreatePublisher, ListenGRPC, ListenHTTP, StartScheduler, StartSubscriber, StartReaper, ToldToStop
<1>3. ASSUME NEW c \in Caller \cup Browser \cup StreamClient, CallArrives(c) \/ CallEnds(c) PROVE ToldToStop'
  BY <1>3 DEF CallArrives, CallEnds, ToldToStop
<1>4. ASSUME NEW w \in Workers, Works(w) \/ WorkEnds(w) PROVE ToldToStop'
  <2>1. main' = main /\ \A x \in Workers : worker[x] \in {"off", "stopping"} => worker'[x] \in {"off", "stopping"}
    BY <1>0, <1>4 DEF Works, WorkEnds
  <2> QED
    BY <1>0, <2>1 DEF ToldToStop
<1>5. CASE SignalArrives \/ CancelSync
  <2>1. \A w \in Workers : \A next \in Told(w) : next[w] \in {"off", "stopping"}
    BY <1>0 DEF Told
  <2>2. CASE SignalArrives
    BY <1>0, <2>1, <2>2 DEF SignalArrives, ToldToStop
  <2>3. CASE CancelSync
    BY <1>0, <2>1, <2>3 DEF CancelSync, ToldToStop
  <2> QED
    BY <1>5, <2>2, <2>3
<1>6. CASE StopReaper \/ StopSync \/ StopGRPC \/ StopHTTP \/ ClosePublisher \/ CloseStore \/ Exit
  BY <1>6 DEF StopReaper, StopSync, StopGRPC, StopHTTP, ClosePublisher, CloseStore, Exit, ToldToStop
<1> QED
  BY <1>1, <1>2, <1>3, <1>4, <1>5, <1>6 DEF ServeNext, StopSteps

\* While serve waits, what it waits for ends and nothing joins it.
LEMMA AwaitedStep ==
  ASSUME ServeIInv, ToldToStop, [ServeNext]_serveVars, main' = main
  PROVE  Awaited' \subseteq Awaited
<1>0. worker \in [Workers -> {"off", "idle", "busy", "stopping"}] /\ {"reaper", "sync", "hooks"} = Workers
  BY DEF ServeIInv, ServeTypeOK, Workers
<1>1. CASE UNCHANGED serveVars
  BY <1>1 DEF serveVars, Awaited, Grpc, Http
<1>2. ASSUME NEW c \in Caller \cup Browser \cup StreamClient, CallArrives(c) PROVE Awaited' \subseteq Awaited
  <2>1. main = "stopGRPC" => c \notin Caller
    BY <1>2 DEF CallArrives, ServeIInv
  <2>2. main # "stopHTTP"
    BY <1>2 DEF CallArrives, ServeIInv
  <2> QED
    BY <1>2, <2>1, <2>2 DEF CallArrives, Awaited, Grpc, Http
<1>3. ASSUME NEW c \in Caller \cup Browser \cup StreamClient, CallEnds(c) PROVE Awaited' \subseteq Awaited
  BY <1>3 DEF CallEnds, Awaited, Grpc, Http
<1>4. ASSUME NEW w \in Workers, Works(w) \/ WorkEnds(w) PROVE Awaited' \subseteq Awaited
  <2>1. \A x \in Workers : worker[x] = "off" => worker'[x] = "off"
    BY <1>0, <1>4 DEF Works, WorkEnds
  <2>2. inFlight' = inFlight
    BY <1>4 DEF Works, WorkEnds
  <2> QED
    BY <1>0, <2>1, <2>2 DEF Awaited, Grpc, Http
<1>5. CASE \/ OpenStore \/ CreatePublisher \/ ListenGRPC \/ ListenHTTP \/ StartScheduler \/ StartSubscriber \/ StartReaper
           \/ SignalArrives \/ StopSteps
  BY <1>5 DEF OpenStore, CreatePublisher, ListenGRPC, ListenHTTP, StartScheduler, StartSubscriber, StartReaper,
              SignalArrives, StopSteps, StopReaper, CancelSync, StopSync, StopGRPC, StopHTTP, ClosePublisher, CloseStore, Exit
<1> QED
  BY <1>1, <1>2, <1>3, <1>4, <1>5 DEF ServeNext

\* "Graceful shutdown" does not wait on a moving target: the reaper, the sync, the calls
\* and the requests serve waits for have been told or can no longer begin, so each wait is
\* for a set that only shrinks. With OpenWhenUsed, what GracefulShutdown needs beside
\* fairness (the deferred stops of serve, in their order).
THEOREM ServeWaitsEnd == ServeSpec => [][main' = main => Awaited' \subseteq Awaited]_serveVars
<1>1. ServeInit => ServeIInv /\ ToldToStop
  BY ServeInitIInv DEF ServeInit, ToldToStop
<1>2. ServeIInv /\ ToldToStop /\ [ServeNext]_serveVars => [main' = main => Awaited' \subseteq Awaited]_serveVars
  BY AwaitedStep
<1> QED
  BY <1>1, <1>2, ServeStep, ToldToStopStep, PTL DEF ServeSpec

-----------------------------------------------------------------------------
(* The graph: any beads, links, requests and changes between its reads.    *)

Found == UNION {[S -> Statuses \ {"gone"}] : S \in SUBSET Row}
Agents == {About[b].assignee : b \in Row}
GraphNode == [id : Row \cup Agents, status : Statuses \cup {"agent"}, parent : Row \cup {NoOne}]
GraphEdge == [from : Row \cup Agents, to : Row, type : {"blocks", "parent-child", "related", "assigned_to"}]

GraphRequest ==
  [at : {"list", "batch", "closed", "build", "answered"},
   statuses : Seq(Statuses), filter : {r.filter : r \in Asking}, deps : {r.deps : r \in Asking},
   connected : {r.connected : r \in Asking}, agents : {r.agents : r \in Asking},
   asked : Nat, listed : UNION {SUBSET Listings(r.filter) : r \in Asking}, found : Found, cut : BOOLEAN, ids : SUBSET Row, forward : SUBSET Link, reverse : SUBSET Link,
   unread : SUBSET {"forward", "reverse"}, reverseRead : BOOLEAN,
   nodes : SUBSET GraphNode, edges : SUBSET GraphEdge, steady : SUBSET Row, kept : SUBSET Link]

\* What the answer g promises: the parts of GraphIsWhole.
ShownIds(g) == {n.id : n \in g.nodes}
BeadNodes(g) == {n \in g.nodes : n.status # "agent"}
Joined(g, x, y) == \E e \in g.edges : {e.from, e.to} = {x, y}

ShowsSteady(g) ==
  ~g.cut => \A b \in g.steady :
    \/ b \in ShownIds(g) \/ g.found[b] = "closed"
    \/ /\ About[b].type \in {"gate", "decision"}
       /\ ~\E l \in g.kept : l.from = b \/ (l.to = b /\ g.reverseRead)
ShowsKept(g) ==
  \A l \in g.kept :
    l.from \in ShownIds(g) /\ l.to \in ShownIds(g) /\ (l.from \in g.ids \/ (l.to \in g.ids /\ g.reverseRead))
      => Joined(g, l.from, l.to)
EndsShown(g) == \A e \in g.edges : e.from \in ShownIds(g) /\ e.to \in ShownIds(g)
ClosedHaveLive(g) ==
  \A n \in BeadNodes(g) : n.status = "closed" => \E m \in g.nodes : m.status \in Live /\ Joined(g, n.id, m.id)
ParentsJoined(g) ==
  \A n \in BeadNodes(g) : n.parent \in ShownIds(g) => \E e \in g.edges :
    e.from = n.id /\ e.to = n.parent /\ e.type = "parent-child"

Whole(g) == ShowsSteady(g) /\ ShowsKept(g) /\ EndsShown(g) /\ ClosedHaveLive(g) /\ ParentsJoined(g)

\* The listing a bead's type puts it in.
TypeListing(g, b) == IF g.filter.types = Anything THEN Anything ELSE {About[b].type}

\* The i-th status is still to be asked for, with the type of bead b.
StillAsked(g, b, i) == i = g.asked => TypeListing(g, b) \notin g.listed

\* A bead that is wanted throughout has been listed, or its status and type are still to be asked for.
Listed(g, w) ==
  /\ g.ids = {} /\ g.forward = {} /\ g.reverse = {} /\ ~g.reverseRead /\ g.unread = {"forward", "reverse"}
  /\ g.asked \in 1..(Len(g.statuses) + 1) /\ g.listed \subseteq Listings(g.filter)
  /\ ~g.cut => \A b \in g.steady :
       b \in DOMAIN g.found \/ \E i \in g.asked..Len(g.statuses) : g.statuses[i] = w.status[b] /\ StillAsked(g, b, i)

\* The beads kept by the limit, and the links read of them.
Gathered(g) ==
  /\ g.ids \subseteq DOMAIN g.found
  /\ ~g.cut => g.steady \subseteq g.ids
  /\ "forward" \notin g.unread => {l \in g.kept : l.from \in g.ids} \subseteq g.forward
  /\ g.reverseRead => {l \in g.kept : l.to \in g.ids} \subseteq g.reverse
  /\ g.at # "batch" => g.unread = {}

GraphHolds(g, w) ==
  /\ g \in GraphRequest
  /\ g.steady \subseteq Wanted(g, w) /\ g.kept \subseteq w.links
  /\ Cardinality(g.ids) <= GraphLimit
  /\ g.at = "list" => Listed(g, w)
  /\ g.at # "list" => Gathered(g)
  /\ g.at = "answered" => Whole(g)

World == [status : [Row -> Statuses], links : SUBSET Link]
WorldHolds(w) ==
  /\ w \in World
  /\ \A l \in w.links : w.status[l.from] # "gone" /\ w.status[l.to] # "gone"

GraphIInv == WorldHolds(world) /\ (graph # NoOne => GraphHolds(graph, world))

-----------------------------------------------------------------------------
\* The rows found: of beads that are not gone.
LEMMA FoundIs ==
  /\ \A f \in Found : DOMAIN f \subseteq Row /\ \A b \in DOMAIN f : f[b] \in Statuses \ {"gone"}
  /\ \A S \in SUBSET Row : \A f \in [S -> Statuses \ {"gone"}] : f \in Found
BY DEF Found

\* Merging what was fetched into what was found.
LEMMA OverIs ==
  ASSUME NEW f \in Found, NEW h \in Found
  PROVE  /\ Over(f, h) \in Found
         /\ DOMAIN Over(f, h) = DOMAIN f \cup DOMAIN h
<1>1. DOMAIN Over(f, h) = DOMAIN f \cup DOMAIN h
  BY DEF Over
<1>2. Over(f, h) \in [DOMAIN f \cup DOMAIN h -> Statuses \ {"gone"}]
  BY FoundIs DEF Over
<1>3. DOMAIN f \cup DOMAIN h \in SUBSET Row
  BY FoundIs
<1> QED
  BY <1>1, <1>2, <1>3, FoundIs

\* What is wanted, and what one listing selects of it.
LEMMA WantedIs ==
  ASSUME NEW g \in GraphRequest, NEW w \in World, NEW b \in Wanted(g, w)
  PROVE  /\ b \in Row /\ w.status[b] # "gone"
         /\ \E i \in 1..Len(g.statuses) : g.statuses[i] = w.status[b]
         /\ TypeListing(g, b) \in Listings(g.filter)
         /\ \A s, types : w.status[b] = s /\ types = TypeListing(g, b) =>
              b \in Selected([g.filter EXCEPT !.status = {s}, !.types = types, !.excluded = ExcludedTypes,
                                             !.limit = GraphLimit], w.status, w.links)
<1>1. PICK r \in Asking : g.filter = r.filter
  BY DEF GraphRequest
<1> DEFINE f == [g.filter EXCEPT !.status = Range(g.statuses), !.excluded = ExcludedTypes]
           one(s, types) == [g.filter EXCEPT !.status = {s}, !.types = types, !.excluded = ExcludedTypes,
                                             !.limit = GraphLimit]
<1>2. DOMAIN g.filter = {"status", "types", "excluded", "assignee", "atLeast", "atMost",
                         "labels", "labelsAny", "parent", "noOpenDeps", "limit"}
  BY <1>1, GraphAssumption DEF NoCriteria
<1>3. f.status = Range(g.statuses) /\ f.types = g.filter.types /\ f.excluded = ExcludedTypes
      /\ f.assignee = g.filter.assignee /\ f.atLeast = g.filter.atLeast /\ f.atMost = g.filter.atMost
      /\ f.labels = g.filter.labels /\ f.labelsAny = g.filter.labelsAny /\ f.parent = g.filter.parent
      /\ f.noOpenDeps = g.filter.noOpenDeps
  BY <1>2
<1>4. ASSUME NEW s, NEW types
      PROVE  LET h == one(s, types)
             IN /\ h.status = {s} /\ h.types = types /\ h.excluded = ExcludedTypes
                /\ h.assignee = g.filter.assignee /\ h.atLeast = g.filter.atLeast /\ h.atMost = g.filter.atMost
                /\ h.labels = g.filter.labels /\ h.labelsAny = g.filter.labelsAny /\ h.parent = g.filter.parent
                /\ h.noOpenDeps = g.filter.noOpenDeps
  BY <1>2
<1>5. b \in Selected(f, w.status, w.links) /\ DOMAIN w.status = Row
  BY DEF Wanted, World
<1> HIDE DEF f, one
<1>6. b \in Row /\ w.status[b] # "gone" /\ Selects(f, b, w.status, w.links)
  BY <1>5 DEF Selected
<1>7. w.status[b] \in Range(g.statuses)
  <2>1. Range(g.statuses) \in SUBSET Statuses
    BY DEF Range, GraphRequest
  <2> QED
    BY <1>3, <1>6, <2>1, GraphAssumption DEF Selects
<1>8. \E i \in 1..Len(g.statuses) : g.statuses[i] = w.status[b]
  <2>1. DOMAIN g.statuses = 1..Len(g.statuses)
    BY DEF GraphRequest
  <2> QED
    BY <1>7, <2>1 DEF Range
<1>9. ASSUME NEW s, NEW types, w.status[b] = s, types = TypeListing(g, b)
      PROVE  b \in Selected(one(s, types), w.status, w.links)
  <2>1. Selects(one(s, types), b, w.status, w.links)
    BY <1>3, <1>4, <1>6, <1>9 DEF Selects, TypeListing
  <2> QED
    BY <1>5, <1>6, <2>1 DEF Selected
<1>10. TypeListing(g, b) \in Listings(g.filter)
  BY <1>3, <1>6 DEF Selects, TypeListing, Listings
<1> QED
  BY <1>6, <1>8, <1>9, <1>10 DEF one

\* A page that is not shorter than the total has all that was selected.
LEMMA PageIsAll ==
  ASSUME NEW f, NEW w \in World
  PROVE  LET page == ListBeads(f, w.status, w.links)
         IN /\ page.beads \subseteq Selected(f, w.status, w.links)
            /\ Selected(f, w.status, w.links) \subseteq {b \in Row : w.status[b] # "gone"}
            /\ page.total \in Nat /\ Cardinality(page.beads) \in Nat
            /\ ~(page.total > Cardinality(page.beads)) => page.beads = Selected(f, w.status, w.links)
<1> DEFINE all == Selected(f, w.status, w.links)
           page == ListBeads(f, w.status, w.links)
<1>1. all \subseteq {b \in Row : w.status[b] # "gone"}
  BY DEF Selected, World
<1>2. IsFiniteSet(all)
  BY <1>1, FS_Subset, GraphAssumption
<1>3. page.total = Cardinality(all) /\ page.beads \subseteq all
  BY DEF ListBeads
<1> HIDE DEF all, page
<1>4. IsFiniteSet(page.beads) /\ Cardinality(page.beads) <= Cardinality(all)
      /\ (Cardinality(page.beads) = Cardinality(all) => page.beads = all)
  BY <1>2, <1>3, FS_Subset
<1>5. Cardinality(page.beads) \in Nat /\ Cardinality(all) \in Nat
  BY <1>2, <1>4, FS_CardinalityType
<1> QED
  BY <1>1, <1>3, <1>4, <1>5 DEF all, page

-----------------------------------------------------------------------------
LEMMA WholeShrinks ==
  ASSUME NEW g, NEW h, Whole(g), h.nodes = g.nodes, h.edges = g.edges, h.cut = g.cut, h.found = g.found,
         h.ids = g.ids, h.reverseRead = g.reverseRead, h.steady \subseteq g.steady, h.kept \subseteq g.kept
  PROVE  Whole(h)
<1>1. ShownIds(h) = ShownIds(g) /\ BeadNodes(h) = BeadNodes(g)
      /\ \A x, y : Joined(h, x, y) <=> Joined(g, x, y)
  BY DEF ShownIds, BeadNodes, Joined
<1> QED
  BY <1>1 DEF Whole, ShowsSteady, ShowsKept, EndsShown, ClosedHaveLive, ParentsJoined

\* What every change by another request does to the request.
LEMMA WritesKeep ==
  ASSUME GraphIInv, NEW next, NEW disturbed, Writes(next, disturbed), WorldHolds(next),
         \A b \in Row \ disturbed :
           next.status[b] = world.status[b] \/ ~Before(next.status[b], world.status[b])
  PROVE  GraphIInv'
<1>1. world' = next /\ world \in World /\ next \in World /\ WorldHolds(next)
  BY DEF Writes, WorldHolds, GraphIInv
<1>2. CASE graph = NoOne
  BY <1>1, <1>2 DEF Writes, GraphIInv, WorldHolds
<1>3. CASE graph # NoOne
  <2> DEFINE g == graph
             h == [graph EXCEPT !.steady = (@ \ disturbed) \cap Wanted(graph, next), !.kept = @ \cap next.links]
  <2>1. graph' = h /\ GraphHolds(g, world)
    BY <1>3 DEF Writes, GraphIInv
  <2>2. /\ h.steady = (g.steady \ disturbed) \cap Wanted(g, next) /\ h.kept = g.kept \cap next.links
        /\ h.at = g.at /\ h.statuses = g.statuses /\ h.filter = g.filter /\ h.asked = g.asked /\ h.listed = g.listed
        /\ h.found = g.found /\ h.cut = g.cut /\ h.ids = g.ids /\ h.forward = g.forward /\ h.reverse = g.reverse
        /\ h.unread = g.unread /\ h.reverseRead = g.reverseRead /\ h.nodes = g.nodes /\ h.edges = g.edges
    BY <2>1 DEF GraphHolds, GraphRequest
  <2>3. h \in GraphRequest
    BY <2>1 DEF GraphHolds, GraphRequest
  <2> HIDE DEF h
  <2>4. Wanted(h, next) = Wanted(g, next)
    BY <2>2 DEF Wanted
  <2>5. ASSUME g.at = "list" PROVE Listed(h, next)
    <3>1. Listed(g, world)
      BY <2>1, <2>5 DEF GraphHolds
    <3>2. ASSUME ~h.cut, NEW b \in h.steady, b \notin DOMAIN h.found
          PROVE  \E i \in h.asked..Len(h.statuses) : h.statuses[i] = next.status[b] /\ StillAsked(h, b, i)
      <4>1. PICK i \in g.asked..Len(g.statuses) : g.statuses[i] = world.status[b] /\ StillAsked(g, b, i)
        BY <2>2, <3>1, <3>2 DEF Listed
      <4>2. b \in Row /\ b \notin disturbed /\ b \in Wanted(g, next)
        BY <2>1, <2>2, <3>2, <1>1, WantedIs DEF GraphHolds
      <4>3. PICK k \in 1..Len(g.statuses) : g.statuses[k] = next.status[b]
        BY <1>1, <2>1, <4>2, WantedIs DEF GraphHolds
      <4>4. g.statuses \in Seq(Statuses) /\ g.asked \in Nat
        BY <2>1 DEF GraphHolds, GraphRequest
      <4>5. \A j : StillAsked(h, b, j) <=> StillAsked(g, b, j)
        BY <2>2 DEF StillAsked, TypeListing
      <4>6. CASE next.status[b] = world.status[b]
        BY <2>2, <4>1, <4>5, <4>6
      <4>7. CASE next.status[b] # world.status[b] /\ ~Before(next.status[b], world.status[b])
        <5>1. ~(k < i) /\ k # i
          BY <1>3, <4>1, <4>3, <4>4, <4>7 DEF Before
        <5>2. k \in g.asked..Len(g.statuses) /\ k # g.asked
          BY <4>1, <4>3, <4>4, <5>1
        <5> QED
          BY <2>2, <4>3, <4>5, <5>2 DEF StillAsked
      <4> QED
        BY <4>2, <4>6, <4>7
    <3> QED
      BY <2>2, <3>1, <3>2 DEF Listed
  <2>6. ASSUME g.at # "list" PROVE Gathered(h)
    <3>1. Gathered(g)
      BY <2>1, <2>6 DEF GraphHolds
    <3> QED
      BY <2>2, <3>1 DEF Gathered
  <2>7. ASSUME g.at = "answered" PROVE Whole(h)
    <3>1. Whole(g)
      BY <2>1, <2>7 DEF GraphHolds
    <3> QED
      BY <2>2, <3>1, WholeShrinks
  <2>8. GraphHolds(h, next)
    BY <2>1, <2>2, <2>3, <2>4, <2>5, <2>6, <2>7 DEF GraphHolds
  <2> QED
    BY <1>1, <2>1, <2>8 DEF GraphIInv, GraphHolds, WorldHolds, Wanted, Listed
<1> QED
  BY <1>2, <1>3

\* The changes other requests make between two reads.
LEMMA OthersKeep ==
  ASSUME GraphIInv,
         \/ \E b \in Row : DeleteRow(b) \/ \E status \in {"open", "in_progress", "closed"} : ChangeStatus(b, status)
         \/ \E l \in Linkable : ChangeLink(l)
  PROVE  GraphIInv'
<1>0. world \in World /\ WorldHolds(world)
  BY DEF GraphIInv, WorldHolds
<1>1. ASSUME NEW b \in Row, DeleteRow(b) PROVE GraphIInv'
  <2> DEFINE next == [status |-> [world.status EXCEPT ![b] = "gone"],
                      links |-> {l \in world.links : b \notin {l.from, l.to}}]
  <2>1. WorldHolds(next)
    <3>1. next \in World
      BY <1>0 DEF World, Statuses
    <3>2. \A l \in next.links : l.from \in Row /\ l.to \in Row
      BY <1>0 DEF World, Link
    <3> QED
      BY <1>0, <3>1, <3>2 DEF WorldHolds, World
  <2>2. Writes(next, {b}) /\ \A c \in Row \ {b} : next.status[c] = world.status[c]
    BY <1>0, <1>1 DEF DeleteRow, World
  <2> HIDE DEF next
  <2> QED
    BY <2>1, <2>2, WritesKeep
<1>2. ASSUME NEW b \in Row, NEW status \in {"open", "in_progress", "closed"}, ChangeStatus(b, status) PROVE GraphIInv'
  <2> DEFINE next == [world EXCEPT !.status[b] = status]
             disturbed == IF Before(status, world.status[b]) THEN {b} ELSE {}
  <2>0. next \in World /\ next.links = world.links /\ next.status = [world.status EXCEPT ![b] = status]
    BY <1>0 DEF World, Statuses
  <2>1. WorldHolds(next)
    <3>2. \A l \in next.links : l.from \in Row /\ l.to \in Row
      BY <1>0, <2>0 DEF World, Link
    <3> QED
      BY <1>0, <2>0, <3>2 DEF WorldHolds, World
  <2>2. Writes(next, disturbed)
    BY <1>2 DEF ChangeStatus
  <2>3. \A c \in Row \ disturbed : next.status[c] = world.status[c] \/ ~Before(next.status[c], world.status[c])
    BY <1>0, <2>0 DEF World
  <2> HIDE DEF next, disturbed
  <2> QED
    BY <2>1, <2>2, <2>3, WritesKeep
<1>3. ASSUME NEW l \in Linkable, ChangeLink(l) PROVE GraphIInv'
  <2> DEFINE next == [world EXCEPT !.links = IF l \in @ THEN @ \ {l} ELSE @ \cup {l}]
  <2>0. next \in World /\ next.status = world.status /\ next.links \subseteq world.links \cup {l}
    BY <1>0, GraphAssumption DEF World
  <2>1. WorldHolds(next)
    BY <1>0, <1>3, <2>0 DEF WorldHolds, ChangeLink
  <2>2. Writes(next, {})
    BY <1>3 DEF ChangeLink
  <2> HIDE DEF next
  <2> QED
    BY <2>0, <2>1, <2>2, WritesKeep
<1> QED
  BY <1>1, <1>2, <1>3

-----------------------------------------------------------------------------
\* A step of the request itself has to hold the request only.
LEMMA ReadsKeep ==
  ASSUME GraphIInv, NEW from, NEW next, Reads(from, next), next # NoOne => GraphHolds(next, world)
  PROVE  GraphIInv'
BY DEF Reads, GraphIInv, GraphHolds, WorldHolds, Wanted, Listed, StillAsked, TypeListing

\* What the invariant says of a request under way.
LEMMA GraphRequestIs ==
  ASSUME GraphIInv, graph # NoOne
  PROVE  /\ graph \in GraphRequest /\ GraphHolds(graph, world) /\ world \in World
         /\ graph.found \in Found /\ DOMAIN graph.found \subseteq Row /\ graph.ids \subseteq Row
BY FoundIs DEF GraphIInv, GraphHolds, WorldHolds, GraphRequest

\* A new request: nothing listed, all statuses still to be asked for.
LEMMA AskKeeps ==
  ASSUME GraphIInv, NEW r \in Asking, AskGraph(r)
  PROVE  GraphIInv'
<1> DEFINE g == [at |-> "list", statuses |-> r.statuses, filter |-> r.filter, deps |-> r.deps,
               connected |-> r.connected, agents |-> r.agents,
               asked |-> 1, listed |-> {}, found |-> [b \in {} |-> "open"], cut |-> FALSE,
               ids |-> {}, forward |-> {}, reverse |-> {}, unread |-> {"forward", "reverse"},
               reverseRead |-> FALSE,
               nodes |-> {}, edges |-> {},
               steady |-> Wanted(r, world),
               kept |-> world.links]
<1>0. world \in World /\ r.statuses \in Seq(Statuses)
  BY GraphAssumption DEF GraphIInv, WorldHolds
<1>1. graph' = g /\ world' = world
  BY DEF AskGraph
<1>2. [b \in {} |-> "open"] \in Found
  <2>1. [b \in {} |-> "open"] \in [{} -> Statuses \ {"gone"}] /\ {} \in SUBSET Row
    OBVIOUS
  <2> QED
    BY <2>1, FoundIs
<1>3. Wanted(r, world) \subseteq Row
  BY <1>0 DEF Wanted, Selected, World
<1>4. g \in GraphRequest
  BY <1>0, <1>2, <1>3 DEF GraphRequest, World
<1>5. /\ g.at = "list" /\ g.statuses = r.statuses /\ g.filter = r.filter /\ g.asked = 1 /\ g.listed = {} /\ ~g.cut
      /\ g.ids = {} /\ g.forward = {} /\ g.reverse = {} /\ g.unread = {"forward", "reverse"} /\ ~g.reverseRead
      /\ g.steady = Wanted(r, world) /\ g.kept = world.links
  OBVIOUS
<1> HIDE DEF g
<1>6. Wanted(g, world) = Wanted(r, world)
  BY <1>5 DEF Wanted
<1>7. \A b \in g.steady : \E i \in 1..Len(g.statuses) : g.statuses[i] = world.status[b]
  <2>1. g.steady = Wanted(g, world)
    BY <1>5, <1>6
  <2> QED
    BY <1>0, <1>4, <2>1, WantedIs
<1>8. Listed(g, world)
  BY <1>0, <1>5, <1>7 DEF Listed, StillAsked
<1>9. Cardinality(g.ids) <= GraphLimit
  BY <1>5, FS_EmptySet, GraphAssumption
<1>10. GraphHolds(g, world)
  BY <1>4, <1>5, <1>6, <1>8, <1>9 DEF GraphHolds
<1> QED
  BY <1>1, <1>10 DEF GraphIInv, WorldHolds, GraphHolds, Wanted, Listed

\* One listing: a bead of that status and type which is wanted is found, or the page was cut.
LEMMA GraphListKeeps ==
  ASSUME GraphIInv, ListStatus
  PROVE  GraphIInv'
<1> DEFINE g == graph
           s == graph.statuses[graph.asked]
<1>0. graph # NoOne /\ g.at = "list" /\ g.asked <= Len(g.statuses)
  BY DEF ListStatus
<1>0a. PICK types \in Listings(g.filter) \ g.listed :
         LET f == [graph.filter EXCEPT !.status = {graph.statuses[graph.asked]}, !.types = types,
                                       !.excluded = ExcludedTypes, !.limit = GraphLimit]
             page == ListBeads(f, world.status, world.links)
             listed == graph.listed \cup {types}
             last == listed = Listings(graph.filter)
         IN Reads("list", [graph EXCEPT !.asked = IF last THEN @ + 1 ELSE @, !.listed = IF last THEN {} ELSE listed,
                                        !.cut = @ \/ page.total > Cardinality(page.beads),
                                        !.found = Over([b \in page.beads |-> world.status[b]], @)])
  BY DEF ListStatus
<1> DEFINE f == [graph.filter EXCEPT !.status = {s}, !.types = types, !.excluded = ExcludedTypes, !.limit = GraphLimit]
           page == ListBeads(f, world.status, world.links)
           rows == [b \in page.beads |-> world.status[b]]
           listed == g.listed \cup {types}
           last == listed = Listings(g.filter)
           next == [graph EXCEPT !.asked = IF last THEN @ + 1 ELSE @, !.listed = IF last THEN {} ELSE listed,
                                 !.cut = @ \/ page.total > Cardinality(page.beads), !.found = Over(rows, @)]
<1>0b. Reads("list", next)
  BY <1>0a
<1>1. g \in GraphRequest /\ GraphHolds(g, world) /\ world \in World /\ g.found \in Found /\ Listed(g, world)
  BY <1>0, GraphRequestIs DEF GraphHolds
<1>2. /\ page.beads \subseteq Selected(f, world.status, world.links)
      /\ Selected(f, world.status, world.links) \subseteq {b \in Row : world.status[b] # "gone"}
      /\ ~(page.total > Cardinality(page.beads)) => page.beads = Selected(f, world.status, world.links)
  BY <1>1, PageIsAll
<1>3. rows \in Found /\ DOMAIN rows = page.beads
  <2>1. \A b \in page.beads : b \in Row /\ world.status[b] \in Statuses \ {"gone"}
    BY <1>1, <1>2 DEF World
  <2> HIDE DEF page
  <2> QED
    BY <2>1, FoundIs
<1> DEFINE more == page.total > Cardinality(page.beads)
<1>4. more \in BOOLEAN
  OBVIOUS
<1>5. Over(rows, g.found) \in Found /\ DOMAIN Over(rows, g.found) = page.beads \cup DOMAIN g.found
  BY <1>1, <1>3, OverIs
<1>6. \A b \in g.steady : world.status[b] = s /\ types = TypeListing(g, b) => b \in Selected(f, world.status, world.links)
  BY <1>1, WantedIs DEF GraphHolds
<1> DEFINE a == IF last THEN g.asked + 1 ELSE g.asked
           l == IF last THEN {} ELSE listed
<1>7. next = [graph EXCEPT !.asked = a, !.listed = l, !.cut = @ \/ more, !.found = Over(rows, @)]
  OBVIOUS
<1>8a. a \in Nat /\ l \in UNION {SUBSET Listings(r.filter) : r \in Asking}
  <2>1. PICK r \in Asking : g.filter = r.filter
    BY <1>1 DEF GraphRequest
  <2>2. g.asked \in Nat
    BY <1>1 DEF GraphRequest
  <2>3. last \/ listed \subseteq Listings(r.filter)
    BY <1>0a, <1>1, <2>1 DEF Listed
  <2> QED
    BY <2>1, <2>2, <2>3
<1>8b. a \in 1..(Len(g.statuses) + 1) /\ l \subseteq Listings(g.filter)
  BY <1>0, <1>0a, <1>1 DEF Listed, GraphRequest
<1>8c. (a = g.asked /\ ~last /\ l = listed) \/ (a = g.asked + 1 /\ last)
  OBVIOUS
<1> HIDE DEF more, page, f
<1>8. more = FALSE => page.beads = Selected(f, world.status, world.links)
  BY <1>2 DEF more
<1> HIDE DEF rows, a, l
<1>9. next \in GraphRequest
  <2> DEFINE c == g.cut \/ more
             h == Over(rows, g.found)
  <2>1. next = [g EXCEPT !.asked = a, !.listed = l, !.cut = c, !.found = h]
    BY <1>7
  <2>2. c \in BOOLEAN /\ h \in Found
    BY <1>1, <1>4, <1>5 DEF GraphRequest
  <2> HIDE DEF c, h, next
  <2> QED
    BY <1>1, <1>8a, <2>1, <2>2 DEF GraphRequest
<1>10. /\ next.at = "list" /\ next.statuses = g.statuses /\ next.filter = g.filter /\ next.asked = a /\ next.listed = l
       /\ next.found = Over(rows, g.found) /\ next.cut = (g.cut \/ more)
       /\ next.ids = g.ids /\ next.forward = g.forward /\ next.reverse = g.reverse /\ next.unread = g.unread
       /\ next.reverseRead = g.reverseRead /\ next.steady = g.steady /\ next.kept = g.kept
  BY <1>0, <1>1, <1>7 DEF GraphRequest
<1> HIDE DEF next
<1>11. ASSUME ~next.cut, NEW b \in next.steady, b \notin DOMAIN next.found
       PROVE  \E i \in next.asked..Len(next.statuses) : next.statuses[i] = world.status[b] /\ StillAsked(next, b, i)
  <2>1. b \in g.steady /\ b \notin DOMAIN g.found /\ ~g.cut /\ ~more /\ b \notin page.beads
    BY <1>5, <1>10, <1>11
  <2>2. PICK i \in g.asked..Len(g.statuses) : g.statuses[i] = world.status[b] /\ StillAsked(g, b, i)
    BY <1>1, <2>1 DEF Listed
  <2>3. ~(world.status[b] = s /\ types = TypeListing(g, b))
    BY <1>6, <1>8, <2>1, <1>4
  <2>4. g.asked \in Nat /\ g.statuses \in Seq(Statuses) /\ TypeListing(next, b) = TypeListing(g, b)
    BY <1>1, <1>10 DEF GraphRequest, TypeListing
  <2>5. TypeListing(g, b) \in Listings(g.filter)
    BY <1>1, <2>1, WantedIs DEF GraphHolds
  <2>6. CASE i # g.asked
    <3>1. i \in g.asked + 1 .. Len(g.statuses)
      BY <2>2, <2>4, <2>6
    <3>2. i = a => l = {}
      BY <1>8c, <2>4, <2>6 DEF l, a
    <3>3. i \in a..Len(g.statuses)
      BY <1>8c, <2>4, <3>1
    <3> QED
      BY <1>10, <2>2, <3>2, <3>3 DEF StillAsked
  <2>7. CASE i = g.asked
    <3>1. TypeListing(g, b) \notin listed
      BY <2>2, <2>3, <2>7 DEF StillAsked
    <3>2. a = g.asked /\ l = listed
      BY <1>8c, <2>5, <3>1
    <3> QED
      BY <1>10, <2>2, <2>4, <2>7, <3>1, <3>2 DEF StillAsked
  <2> QED
    BY <2>6, <2>7
<1>12. Wanted(next, world) = Wanted(g, world)
  BY <1>10 DEF Wanted
<1>13. next.asked \in 1..(Len(next.statuses) + 1) /\ next.listed \subseteq Listings(next.filter)
  BY <1>8b, <1>10
<1>14. Listed(next, world)
  BY <1>1, <1>10, <1>11, <1>13 DEF Listed
<1>15. GraphHolds(next, world)
  BY <1>1, <1>9, <1>10, <1>12, <1>14 DEF GraphHolds
<1> QED
  BY <1>0b, <1>15, ReadsKeep

\* Cutting the beads found to the limit.
LEMMA LimitKeeps ==
  ASSUME GraphIInv, EnforceLimit
  PROVE  GraphIInv'
<1> DEFINE g == graph
<1>0. graph # NoOne /\ g.at = "list" /\ g.asked > Len(g.statuses)
  BY DEF EnforceLimit
<1>1. g \in GraphRequest /\ GraphHolds(g, world) /\ world \in World /\ g.found \in Found /\ Listed(g, world)
      /\ DOMAIN g.found \subseteq Row
  BY <1>0, GraphRequestIs DEF GraphHolds
<1>2. PICK kept \in SUBSET DOMAIN g.found :
        /\ Cardinality(kept) = IF Cardinality(DOMAIN g.found) > GraphLimit THEN GraphLimit
                               ELSE Cardinality(DOMAIN g.found)
        /\ Reads("list", [graph EXCEPT !.at = "batch", !.ids = kept, !.cut = @ \/ kept # DOMAIN graph.found,
                                       !.found = [b \in kept |-> graph.found[b]]])
  BY DEF EnforceLimit
<1> DEFINE rows == [b \in kept |-> g.found[b]]
           dropped == kept # DOMAIN g.found
           next == [graph EXCEPT !.at = "batch", !.ids = kept, !.cut = @ \/ dropped, !.found = rows]
<1>3. Reads("list", next)
  BY <1>2
<1>4. rows \in Found /\ DOMAIN rows = kept /\ kept \subseteq Row /\ dropped \in BOOLEAN
  BY <1>1, FoundIs
<1>5. Cardinality(kept) <= GraphLimit
  <2>1. IsFiniteSet(DOMAIN g.found)
    BY <1>1, FS_Subset, GraphAssumption
  <2>2. Cardinality(DOMAIN g.found) \in Nat
    BY <2>1, FS_CardinalityType
  <2> QED
    BY <1>2, <2>2, GraphAssumption
<1>6. dropped = FALSE => kept = DOMAIN g.found
  OBVIOUS
<1> HIDE DEF rows, dropped
<1>7. next \in GraphRequest
  BY <1>1, <1>4 DEF GraphRequest
<1>8. /\ next.at = "batch" /\ next.statuses = g.statuses /\ next.filter = g.filter /\ next.found = rows
      /\ next.cut = (g.cut \/ dropped) /\ next.ids = kept /\ next.unread = g.unread /\ next.reverseRead = g.reverseRead
      /\ next.steady = g.steady /\ next.kept = g.kept /\ next.forward = g.forward /\ next.reverse = g.reverse
  BY <1>1 DEF GraphRequest
<1> HIDE DEF next
<1>9. ~next.cut => next.steady \subseteq next.ids
  <2>1. ASSUME ~next.cut, NEW b \in next.steady PROVE b \in kept
    <3>1. ~g.cut /\ kept = DOMAIN g.found
      BY <1>4, <1>6, <1>8, <2>1
    <3>2. b \in DOMAIN g.found \/ \E i \in g.asked..Len(g.statuses) : g.statuses[i] = world.status[b]
      BY <1>1, <1>8, <2>1, <3>1 DEF Listed
    <3>3. g.asked \in Nat /\ Len(g.statuses) \in Nat
      BY <1>1 DEF GraphRequest
    <3> QED
      BY <1>0, <3>1, <3>2, <3>3
  <2> QED
    BY <1>8, <2>1
<1>10. Gathered(next)
  BY <1>1, <1>4, <1>8, <1>9 DEF Gathered, Listed
<1>11. Wanted(next, world) = Wanted(g, world)
  BY <1>8 DEF Wanted
<1>12. GraphHolds(next, world)
  BY <1>1, <1>5, <1>7, <1>8, <1>10, <1>11 DEF GraphHolds
<1> QED
  BY <1>3, <1>12, ReadsKeep

\* The batch of links from the beads found.
LEMMA ForwardKeeps ==
  ASSUME GraphIInv, GetDependenciesForBeads
  PROVE  GraphIInv'
<1> DEFINE g == graph
           links == {l \in world.links : l.from \in graph.ids}
           next == [graph EXCEPT !.unread = @ \ {"forward"}, !.forward = links]
<1>0. graph # NoOne /\ g.at = "batch" /\ Reads("batch", next)
  BY DEF GetDependenciesForBeads, Reads
<1>1. g \in GraphRequest /\ GraphHolds(g, world) /\ world \in World /\ Gathered(g)
  BY <1>0, GraphRequestIs DEF GraphHolds
<1>2. links \subseteq Link /\ {l \in g.kept : l.from \in g.ids} \subseteq links
  BY <1>1 DEF World, GraphHolds
<1> HIDE DEF links
<1>3. next \in GraphRequest
  BY <1>1, <1>2 DEF GraphRequest
<1>4. /\ next.at = "batch" /\ next.filter = g.filter /\ next.statuses = g.statuses /\ next.found = g.found
      /\ next.cut = g.cut /\ next.ids = g.ids /\ next.unread = g.unread \ {"forward"} /\ next.forward = links
      /\ next.reverse = g.reverse /\ next.reverseRead = g.reverseRead /\ next.steady = g.steady /\ next.kept = g.kept
  BY <1>0, <1>1 DEF GraphRequest
<1> HIDE DEF next
<1>5. Gathered(next)
  BY <1>1, <1>2, <1>4 DEF Gathered
<1>6. Wanted(next, world) = Wanted(g, world)
  BY <1>4 DEF Wanted
<1>7. GraphHolds(next, world)
  BY <1>1, <1>3, <1>4, <1>5, <1>6 DEF GraphHolds
<1> QED
  BY <1>0, <1>7, ReadsKeep

\* The batch of links to them, which may fail.
LEMMA ReverseKeeps ==
  ASSUME GraphIInv, GetReverseDependenciesForBeads
  PROVE  GraphIInv'
<1> DEFINE g == graph
<1>0. graph # NoOne /\ g.at = "batch"
  BY DEF GetReverseDependenciesForBeads, Reads
<1>1. g \in GraphRequest /\ GraphHolds(g, world) /\ world \in World /\ Gathered(g)
  BY <1>0, GraphRequestIs DEF GraphHolds
<1>2. CASE Reads("batch", [graph EXCEPT !.unread = @ \ {"reverse"}, !.reverseRead = TRUE,
                                        !.reverse = {l \in world.links : l.to \in graph.ids}])
  <2> DEFINE links == {l \in world.links : l.to \in graph.ids}
             next == [graph EXCEPT !.unread = @ \ {"reverse"}, !.reverseRead = TRUE, !.reverse = links]
  <2>1. links \subseteq Link /\ {l \in g.kept : l.to \in g.ids} \subseteq links /\ Reads("batch", next)
    BY <1>1, <1>2 DEF World, GraphHolds
  <2> HIDE DEF links
  <2>2. next \in GraphRequest
    BY <1>1, <2>1 DEF GraphRequest
  <2>3. /\ next.at = "batch" /\ next.filter = g.filter /\ next.statuses = g.statuses /\ next.found = g.found
        /\ next.cut = g.cut /\ next.ids = g.ids /\ next.unread = g.unread \ {"reverse"} /\ next.forward = g.forward
        /\ next.reverse = links /\ next.reverseRead = TRUE /\ next.steady = g.steady /\ next.kept = g.kept
    BY <1>0, <1>1 DEF GraphRequest
  <2> HIDE DEF next
  <2>4. Gathered(next)
    BY <1>1, <2>1, <2>3 DEF Gathered
  <2>5. Wanted(next, world) = Wanted(g, world)
    BY <2>3 DEF Wanted
  <2>6. GraphHolds(next, world)
    BY <1>1, <2>2, <2>3, <2>4, <2>5 DEF GraphHolds
  <2> QED
    BY <2>1, <2>6, ReadsKeep
<1>3. CASE Reads("batch", [graph EXCEPT !.unread = @ \ {"reverse"}])
  <2> DEFINE next == [graph EXCEPT !.unread = @ \ {"reverse"}]
  <2>1. Reads("batch", next) /\ next \in GraphRequest
    BY <1>1, <1>3 DEF GraphRequest
  <2>2. /\ next.at = "batch" /\ next.filter = g.filter /\ next.statuses = g.statuses /\ next.found = g.found
        /\ next.cut = g.cut /\ next.ids = g.ids /\ next.unread = g.unread \ {"reverse"} /\ next.forward = g.forward
        /\ next.reverse = g.reverse /\ next.reverseRead = g.reverseRead /\ next.steady = g.steady /\ next.kept = g.kept
    BY <1>0, <1>1 DEF GraphRequest
  <2> HIDE DEF next
  <2>3. Gathered(next)
    BY <1>1, <2>2 DEF Gathered
  <2>4. Wanted(next, world) = Wanted(g, world)
    BY <2>2 DEF Wanted
  <2>5. GraphHolds(next, world)
    BY <1>1, <2>1, <2>2, <2>3, <2>4 DEF GraphHolds
  <2> QED
    BY <2>1, <2>5, ReadsKeep
<1> QED
  BY <1>2, <1>3 DEF GetReverseDependenciesForBeads

\* Rows fetched by id only add to those found.
LEMMA FetchKeeps ==
  ASSUME GraphIInv, NEW from, from # "list", NEW at \in {"closed", "build"}, NEW more \in Found, graph # NoOne,
         graph.unread = {},
         \/ Reads(from, [graph EXCEPT !.at = at, !.found = Over(@, more)])
         \/ Reads(from, [graph EXCEPT !.at = at])
  PROVE  GraphIInv'
<1> DEFINE g == graph
<1>1. g \in GraphRequest /\ GraphHolds(g, world) /\ world \in World /\ Gathered(g) /\ g.found \in Found
  BY GraphRequestIs DEF GraphHolds, Reads
<1>2. PICK rows \in Found : DOMAIN g.found \subseteq DOMAIN rows /\ Reads(from, [graph EXCEPT !.at = at, !.found = rows])
  <2>1. [graph EXCEPT !.at = at] = [graph EXCEPT !.at = at, !.found = g.found]
    BY <1>1 DEF GraphRequest
  <2>2. Over(g.found, more) \in Found /\ DOMAIN g.found \subseteq DOMAIN Over(g.found, more)
    BY <1>1, OverIs
  <2>3. [graph EXCEPT !.at = at, !.found = Over(@, more)] = [graph EXCEPT !.at = at, !.found = Over(g.found, more)]
    OBVIOUS
  <2>4. CASE Reads(from, [graph EXCEPT !.at = at, !.found = Over(@, more)])
    BY <2>2, <2>3, <2>4
  <2>5. CASE Reads(from, [graph EXCEPT !.at = at])
    BY <1>1, <2>1, <2>5
  <2> QED
    BY <2>4, <2>5
<1> DEFINE next == [graph EXCEPT !.at = at, !.found = rows]
<1>3. next \in GraphRequest
  BY <1>1 DEF GraphRequest
<1>4. /\ next.at = at /\ next.filter = g.filter /\ next.statuses = g.statuses /\ next.found = rows
      /\ next.cut = g.cut /\ next.ids = g.ids /\ next.unread = g.unread /\ next.forward = g.forward
      /\ next.reverse = g.reverse /\ next.reverseRead = g.reverseRead /\ next.steady = g.steady /\ next.kept = g.kept
  BY <1>1 DEF GraphRequest
<1>5. Reads(from, next)
  BY <1>2
<1> HIDE DEF next
<1>6. Gathered(next)
  BY <1>1, <1>2, <1>4 DEF Gathered
<1>7. Wanted(next, world) = Wanted(g, world)
  BY <1>4 DEF Wanted
<1>8. GraphHolds(next, world)
  BY <1>1, <1>3, <1>4, <1>6, <1>7 DEF GraphHolds
<1> QED
  BY <1>5, <1>8, ReadsKeep

\* The links read, and their ends.
LEMMA LinksAre ==
  ASSUME GraphIInv, graph # NoOne
  PROVE  Links \subseteq Link /\ Ends \subseteq Row
<1>1. Links \subseteq Link
  BY GraphRequestIs DEF Links, GraphRequest
<1> QED
  BY <1>1 DEF Ends, Link

\* GetBeadsByIDs answers with rows.
LEMMA FetchedIs ==
  ASSUME GraphIInv, graph # NoOne, NEW statuses \in SUBSET (Statuses \ {"gone"})
  PROVE  Fetched(statuses) \in Found
<1> DEFINE ids == {e \in Ends \ DOMAIN graph.found : world.status[e] \in statuses /\ About[e].type \notin ExcludedTypes}
<1>1. ids \in SUBSET Row /\ \A b \in ids : world.status[b] \in Statuses \ {"gone"}
  BY LinksAre
<1> HIDE DEF ids
<1>2. [b \in ids |-> world.status[b]] \in Found
  BY <1>1, FoundIs
<1> QED
  BY <1>2 DEF Fetched, ids


\* Both fetches of missing ends.
LEMMA FetchesKeep ==
  ASSUME GraphIInv, FetchMissing \/ FetchClosed
  PROVE  GraphIInv'
<1>1. graph # NoOne
  BY DEF FetchMissing, FetchClosed
<1>2. Fetched(Statuses \ {"gone"}) \in Found /\ Fetched({"closed"}) \in Found
  BY <1>1, FetchedIs DEF Statuses
<1>3. CASE FetchMissing
  <2>1. graph.unread = {}
    BY <1>3 DEF FetchMissing
  <2>2. \/ Reads("batch", [graph EXCEPT !.at = "closed", !.found = Over(@, Fetched(Statuses \ {"gone"}))])
        \/ Reads("batch", [graph EXCEPT !.at = "closed"])
    BY <1>3 DEF FetchMissing
  <2> QED
    BY <1>1, <1>2, <2>1, <2>2, FetchKeeps
<1>4. CASE FetchClosed
  <2>1. graph.unread = {}
    BY <1>1, <1>4, GraphRequestIs DEF FetchClosed, Reads, GraphHolds, Gathered
  <2>2. \/ Reads("closed", [graph EXCEPT !.at = "build", !.found = Over(@, Fetched({"closed"}))])
        \/ Reads("closed", [graph EXCEPT !.at = "build"])
    BY <1>4 DEF FetchClosed
  <2> QED
    BY <1>1, <1>2, <2>1, <2>2, FetchKeeps
<1> QED
  BY <1>3, <1>4

-----------------------------------------------------------------------------
\* A promoted link keeps its ends.
LEMMA PromotedIs ==
  ASSUME NEW l \in Link, NEW parent \in [Row -> Row \cup {NoOne}]
  PROVE  /\ Promoted(l, parent) \in Link
         /\ Promoted(l, parent).from = l.from /\ Promoted(l, parent).to = l.to
         /\ l.type = "parent-child" => Promoted(l, parent).type = "parent-child"
         /\ l.type = "blocks" /\ parent[l.from] = l.to => Promoted(l, parent).type = "parent-child"
BY DEF Promoted, Link

\* What is put together is whole: each part of GraphIsWhole from what was read.
LEMMA BuildKeeps ==
  ASSUME GraphIInv, Build
  PROVE  GraphIInv'
<1> DEFINE g == graph
<1>0. graph # NoOne /\ g.at = "build"
  BY DEF Build, Reads
<1>1. /\ g \in GraphRequest /\ GraphHolds(g, world) /\ world \in World /\ Gathered(g)
      /\ g.found \in Found /\ DOMAIN g.found \subseteq Row
      /\ \A b \in DOMAIN g.found : g.found[b] \in Statuses \ {"gone"}
  BY <1>0, GraphRequestIs, FoundIs DEF GraphHolds
<1>2. PICK parent \in [Row -> Row \cup {NoOne}] :
        /\ \A b \in Row : parent[b] \in Parents(b)
        /\ LET edges == {Promoted(l, parent) : l \in Links} \cup AgentEdges
               staying == {b \in DOMAIN graph.found : Stays(b, edges)}
               shown == staying \cup {e.from : e \in AgentEdges}
           IN Reads("build", [graph EXCEPT !.at = "answered",
                !.nodes = {[id |-> b, status |-> graph.found[b], parent |-> parent[b]] : b \in staying}
                          \cup {[id |-> e.from, status |-> "agent", parent |-> NoOne] : e \in AgentEdges},
                !.edges = {e \in edges : e.from \in shown /\ e.to \in shown}])
  BY DEF Build
<1> DEFINE edges == {Promoted(l, parent) : l \in Links} \cup AgentEdges
           staying == {b \in DOMAIN g.found : Stays(b, edges)}
           shown == staying \cup {e.from : e \in AgentEdges}
           nodes == {[id |-> b, status |-> g.found[b], parent |-> parent[b]] : b \in staying}
                    \cup {[id |-> e.from, status |-> "agent", parent |-> NoOne] : e \in AgentEdges}
           drawn == {e \in edges : e.from \in shown /\ e.to \in shown}
           next == [graph EXCEPT !.at = "answered", !.nodes = nodes, !.edges = drawn]
<1>3. Reads("build", next)
  BY <1>2
<1>4. Links \subseteq Link
  BY <1>0, LinksAre
<1>5. /\ \A l \in Links : Promoted(l, parent) \in edges
      /\ \A e \in edges : (\E l \in Links : e = Promoted(l, parent)) \/ e \in AgentEdges
  OBVIOUS
<1>6. \A e \in AgentEdges : e \in [from : Agents, to : Row, type : {"assigned_to"}] /\ e.from # NoOne
  BY <1>1 DEF AgentEdges, Assigned, Agents
<1>7. edges \subseteq GraphEdge
  BY <1>4, <1>5, <1>6, PromotedIs DEF GraphEdge, Link
<1> HIDE DEF edges
<1>8. nodes \subseteq GraphNode
  <2>1. \A b \in staying : [id |-> b, status |-> g.found[b], parent |-> parent[b]] \in GraphNode
    BY <1>1 DEF GraphNode
  <2>2. \A e \in AgentEdges : [id |-> e.from, status |-> "agent", parent |-> NoOne] \in GraphNode
    BY <1>6 DEF GraphNode
  <2> QED
    BY <2>1, <2>2
<1>9. drawn \subseteq edges /\ \A e \in drawn : e.from \in shown /\ e.to \in shown
  OBVIOUS
<1>10. /\ {n.id : n \in nodes} = shown
       /\ \A n \in nodes : n.status # "agent" =>
            n.id \in staying /\ n.status = g.found[n.id] /\ n.parent = parent[n.id]
       /\ \A b \in staying : [id |-> b, status |-> g.found[b], parent |-> parent[b]] \in nodes
  <2>1. {n.id : n \in nodes} = shown
    <3>1. ASSUME NEW b \in staying PROVE \E n \in nodes : n.id = b
      <4>1. [id |-> b, status |-> g.found[b], parent |-> parent[b]] \in nodes
        OBVIOUS
      <4> HIDE DEF nodes
      <4> QED
        BY <4>1
    <3>2. ASSUME NEW e \in AgentEdges PROVE \E n \in nodes : n.id = e.from
      <4>1. [id |-> e.from, status |-> "agent", parent |-> NoOne] \in nodes
        OBVIOUS
      <4> HIDE DEF nodes
      <4> QED
        BY <4>1
    <3>3. \A n \in nodes : n.id \in staying \/ \E e \in AgentEdges : n.id = e.from
      OBVIOUS
    <3> HIDE DEF nodes, staying
    <3> QED
      BY <3>1, <3>2, <3>3
  <2>2. \A n \in nodes : n.status # "agent" => n.id \in staying /\ n.status = g.found[n.id] /\ n.parent = parent[n.id]
    OBVIOUS
  <2> QED
    BY <2>1, <2>2
<1>11. staying \subseteq DOMAIN g.found /\ (\A b \in DOMAIN g.found : b \in staying <=> Stays(b, edges))
       /\ staying \subseteq shown /\ NoOne \notin shown
  BY <1>1, <1>6, GraphAssumption
<1>12. \A e \in edges : e.from \in shown /\ e.to \in shown => e \in drawn
  OBVIOUS
<1> HIDE DEF nodes, drawn, shown, staying
<1>13. next \in GraphRequest
  BY <1>1, <1>7, <1>8, <1>9 DEF GraphRequest
<1>14. /\ next.at = "answered" /\ next.filter = g.filter /\ next.statuses = g.statuses /\ next.found = g.found
       /\ next.cut = g.cut /\ next.ids = g.ids /\ next.unread = g.unread /\ next.forward = g.forward
       /\ next.reverse = g.reverse /\ next.reverseRead = g.reverseRead /\ next.steady = g.steady /\ next.kept = g.kept
       /\ next.nodes = nodes /\ next.edges = drawn
  BY <1>1 DEF GraphRequest
<1> HIDE DEF next
<1>15. Gathered(next)
  BY <1>0, <1>1, <1>14 DEF Gathered
<1>16. g.forward \subseteq Links /\ g.reverse \subseteq Links /\ g.unread = {}
  BY <1>0, <1>1 DEF Gathered, Links
<1>17. \A l \in g.kept : l.from \in g.ids \/ (l.to \in g.ids /\ g.reverseRead) => l \in Links
  BY <1>1, <1>16 DEF Gathered
<1>18. \A l \in Links : \E e \in edges : e.from = l.from /\ e.to = l.to
  BY <1>4, <1>5, PromotedIs
<1>19. ShownIds(next) = shown
  BY <1>10, <1>14 DEF ShownIds
<1>20. ShowsSteady(next)
  <2>1. ASSUME ~g.cut, NEW b \in g.steady, b \notin shown, g.found[b] # "closed"
        PROVE  /\ About[b].type \in {"gate", "decision"}
               /\ ~\E l \in g.kept : l.from = b \/ (l.to = b /\ g.reverseRead)
    <3>1. b \in g.ids /\ b \in DOMAIN g.found /\ b \notin staying
      BY <1>0, <1>1, <1>11, <2>1 DEF Gathered
    <3>2. ~Stays(b, edges)
      BY <1>11, <3>1
    <3>3. /\ About[b].type \in {"gate", "decision"}
          /\ ~\E e \in edges : e.from = b \/ e.to = b
      BY <2>1, <3>2 DEF Stays
    <3>4. \A l \in g.kept : l.from = b \/ (l.to = b /\ g.reverseRead) => \E e \in edges : e.from = b \/ e.to = b
      BY <1>17, <1>18, <3>1
    <3> QED
      BY <3>3, <3>4
  <2> QED
    BY <1>14, <1>19, <2>1 DEF ShowsSteady
<1>21. ShowsKept(next)
  <2>1. ASSUME NEW l \in g.kept, l.from \in shown, l.to \in shown, l.from \in g.ids \/ (l.to \in g.ids /\ g.reverseRead)
        PROVE  \E e \in drawn : {e.from, e.to} = {l.from, l.to}
    BY <1>12, <1>17, <1>18, <2>1
  <2> QED
    BY <1>14, <1>19, <2>1 DEF ShowsKept, Joined
<1>22. EndsShown(next)
  BY <1>9, <1>14, <1>19 DEF EndsShown
<1>23. ClosedHaveLive(next)
  <2>1. ASSUME NEW n \in nodes, n.status # "agent", n.status = "closed"
        PROVE  \E m \in nodes : m.status \in Live /\ \E e \in drawn : {e.from, e.to} = {n.id, m.id}
    <3>1. n.id \in staying /\ g.found[n.id] = "closed" /\ n.id \in DOMAIN g.found /\ Stays(n.id, edges)
      BY <1>10, <1>11, <2>1
    <3>2. PICK b \in DOMAIN g.found : /\ g.found[b] \in Live
                                      /\ \E e \in edges : (e.from = n.id /\ e.to = b) \/ (e.to = n.id /\ e.from = b)
      BY <3>1 DEF Stays
    <3>3. Stays(b, edges)
      BY <3>2 DEF Stays, Live
    <3>4. b \in staying /\ n.id \in shown /\ b \in shown
      BY <1>11, <3>1, <3>2, <3>3
    <3>5. \E e \in drawn : {e.from, e.to} = {n.id, b}
      BY <1>12, <3>2, <3>4
    <3>6. [id |-> b, status |-> g.found[b], parent |-> parent[b]] \in nodes
      BY <1>10, <3>4
    <3> QED
      BY <3>2, <3>5, <3>6
  <2> QED
    BY <1>14, <2>1 DEF ClosedHaveLive, BeadNodes, Joined
<1>24. ParentsJoined(next)
  <2>1. ASSUME NEW n \in nodes, n.status # "agent", n.parent \in shown
        PROVE  \E e \in drawn : e.from = n.id /\ e.to = n.parent /\ e.type = "parent-child"
    <3>1. n.id \in staying /\ n.id \in Row /\ n.id \in shown /\ n.parent = parent[n.id] /\ n.parent # NoOne
      BY <1>1, <1>10, <1>11, <2>1
    <3>2. parent[n.id] \in Parents(n.id) \ {NoOne}
      BY <1>2, <3>1
    <3>3. PICK l \in Links : l.from = n.id /\ l.to = n.parent /\ l.type \in {"parent-child", "blocks"}
      BY <1>16, <3>1, <3>2 DEF Parents
    <3>4. /\ Promoted(l, parent) \in edges /\ Promoted(l, parent).from = n.id /\ Promoted(l, parent).to = n.parent
          /\ Promoted(l, parent).type = "parent-child"
      BY <1>4, <1>5, <3>1, <3>3, PromotedIs
    <3> QED
      BY <1>12, <2>1, <3>1, <3>4
  <2> QED
    BY <1>14, <1>19, <2>1 DEF ParentsJoined, BeadNodes
<1>25. Whole(next)
  BY <1>20, <1>21, <1>22, <1>23, <1>24 DEF Whole
<1>26. Wanted(next, world) = Wanted(g, world)
  BY <1>14 DEF Wanted
<1>27. GraphHolds(next, world)
  BY <1>1, <1>13, <1>14, <1>15, <1>25, <1>26 DEF GraphHolds
<1> QED
  BY <1>3, <1>27, ReadsKeep

-----------------------------------------------------------------------------
\* No request for the graph at the start.
LEMMA GraphInitIInv == GraphInit => GraphIInv
<1> SUFFICES ASSUME GraphInit PROVE GraphIInv
  OBVIOUS
<1>1. world \in World
  BY GraphAssumption DEF GraphInit, World, Statuses
<1>2. \A l \in world.links : l.from \in Row /\ l.to \in Row
  BY <1>1 DEF World, Link
<1>3. \A b \in Row : world.status[b] # "gone"
  BY DEF GraphInit
<1> QED
  BY <1>1, <1>2, <1>3 DEF GraphInit, GraphIInv, WorldHolds

\* Every read, answer and change keeps the invariant.
LEMMA GraphStep == GraphIInv /\ [GraphNext]_graphVars => GraphIInv'
<1> SUFFICES ASSUME GraphIInv, [GraphNext]_graphVars PROVE GraphIInv'
  OBVIOUS
<1>1. CASE UNCHANGED graphVars
  BY <1>1 DEF graphVars, GraphIInv, WorldHolds, GraphHolds, Wanted, Listed
<1>2. CASE GraphNext
  <2>1. CASE StatementFails \/ ReadGraph
    BY <2>1, ReadsKeep DEF StatementFails, ReadGraph
  <2> QED
    BY <1>2, <2>1, AskKeeps, GraphListKeeps, LimitKeeps, ForwardKeeps, ReverseKeeps, FetchesKeep, BuildKeeps,
       OthersKeep DEF GraphNext
<1> QED
  BY <1>1, <1>2

\* What the invariant says of an answer.
LEMMA GraphPromise == GraphIInv => GraphTypeOK /\ GraphIsWhole
<1> SUFFICES ASSUME GraphIInv PROVE GraphTypeOK /\ GraphIsWhole
  OBVIOUS
<1>1. CASE graph = NoOne
  BY <1>1 DEF GraphIInv, WorldHolds, World, GraphTypeOK, GraphIsWhole
<1>2. CASE graph # NoOne
  <2>1. /\ graph \in GraphRequest /\ GraphHolds(graph, world) /\ DOMAIN graph.found \subseteq Row
        /\ WorldHolds(world)
    BY <1>2, GraphRequestIs DEF GraphIInv
  <2>2. GraphTypeOK
    BY <2>1 DEF GraphTypeOK, GraphHolds, GraphRequest, WorldHolds, World
  <2>3. GraphIsWhole
    BY <2>1 DEF GraphIsWhole, GraphHolds, Whole, ShowsSteady, ShowsKept, EndsShown, ClosedHaveLive, ParentsJoined,
                ShownIds, BeadNodes, Joined
  <2> QED
    BY <2>2, <2>3
<1> QED
  BY <1>1, <1>2

\* The graph answered misses no bead and no link that held throughout the request,
\* keeps a closed bead only with a live neighbour, and joins children to parents,
\* whatever other requests changed between its reads (handleGraph).
THEOREM GraphGraphIsWhole == GraphSpec => []GraphIsWhole
BY GraphInitIInv, GraphStep, GraphPromise, PTL DEF GraphSpec

-----------------------------------------------------------------------------
(* The bus streams and their endpoint, for any types and capacities.       *)

LEMMA StreamNamesAre ==
  /\ StreamNames = {"hooks", "decisions", "agents", "mail", "mutations", "config", "gate", "inbox", "jack"}
  /\ AllStreams \in Seq(StreamNames)
<1> DEFINE names == {"hooks", "decisions", "agents", "mail", "mutations", "config", "gate", "inbox", "jack"}
<1>1. DOMAIN AllStreams = 1..9
  BY DEF AllStreams
<1>2. StreamNames = {AllStreams[i] : i \in 1..9}
  BY <1>1 DEF StreamNames
<1>3. 1..9 = {1, 2, 3, 4, 5, 6, 7, 8, 9}
  OBVIOUS
<1>4. /\ AllStreams[1] = "hooks" /\ AllStreams[2] = "decisions" /\ AllStreams[3] = "agents"
      /\ AllStreams[4] = "mail" /\ AllStreams[5] = "mutations" /\ AllStreams[6] = "config"
      /\ AllStreams[7] = "gate" /\ AllStreams[8] = "inbox" /\ AllStreams[9] = "jack"
  BY DEF AllStreams
<1>5. StreamNames = {AllStreams[1], AllStreams[2], AllStreams[3], AllStreams[4], AllStreams[5], AllStreams[6],
                     AllStreams[7], AllStreams[8], AllStreams[9]}
  BY <1>2, <1>3
<1>6. StreamNames = names
  BY <1>4, <1>5
<1>7. AllStreams \in Seq(names)
  BY DEF AllStreams
<1> QED
  BY <1>6, <1>7

\* A request's list: names of streams, and any others.
Text == STRING \cup StreamNames

\* What subjects and types are made of.
Segment == Text \cup BusActor \cup {"_global"}

\* A message has a subject; a type of one segment is the subject's last.
Message ==
  {m \in [subject : Seq(Segment), seq : Nat, type : BusType] :
     m.subject # <<>> /\ (Len(m.type) = 1 => EventTypeFromSubject(m.subject) = m.type[1])}

Queued == [sub : Nat, msg : Message]
BusEvent == [sub : Nat, stream : StreamNames, type : Segment, seq : Nat]
Filters == {NoFilter} \cup {ask.filter : ask \in Asks}

BusConnection ==
  [at : {"none", "subscribe", "stream"}, filter : Filters, streams : Seq(Text), todo : SUBSET Nat,
   subs : SUBSET Nat, since : Seq(Nat), next : Seq(Nat), unacked : Seq(SUBSET Nat), gone : SUBSET Nat,
   faults : Nat, channel : Seq(Queued), dropped : SUBSET (Nat \X Nat), resent : SUBSET (Nat \X Nat),
   wire : Seq(BusEvent), got : Seq(BusEvent), read : Seq(BusEvent)]

BusLog == [StreamNames -> Seq(Message)]

\* A message knows its place.
LogNumbered(l) == \A s \in StreamNames : \A n \in 1..Len(l[s]) : l[s][n].seq = n /\ l[s][n].subject[1] = s

\* What the consumer of a subscription has sent, and one message of it.
BusHeard(c, k) == c.since[k] + 1 .. c.next[k]
BusMsg(l, c, k, n) == l[c.streams[k]][n]
BusPlain(m) == Len(m.type) = 1
BusWanted(c, m) == c.filter \in {NoFilter, m.type[1]}

\* The events written, on their way or read, and all that was delivered, as in Line.
BusSent(c) == c.read \o c.got \o c.wire
SentPairs(c) == [i \in DOMAIN BusSent(c) |-> <<BusSent(c)[i].sub, BusSent(c)[i].seq>>]
QueuedPairs(c) == [i \in DOMAIN c.channel |-> <<c.channel[i].sub, c.channel[i].msg.seq>>]
BusLine(c) == SentPairs(c) \o QueuedPairs(c)

\* Subscriptions are to streams that were asked for; a consumer is within its
\* stream and waits only for what it sent; channels have their capacity.
BusShape(l, c) ==
  /\ c \in BusConnection
  /\ DOMAIN c.since = DOMAIN c.streams /\ DOMAIN c.next = DOMAIN c.streams /\ DOMAIN c.unacked = DOMAIN c.streams
  /\ c.subs \cup c.todo \subseteq {k \in DOMAIN c.streams : c.streams[k] \in StreamNames}
  /\ c.subs \cap c.todo = {} /\ c.gone \subseteq c.subs
  /\ \A k \in c.subs : /\ c.since[k] <= c.next[k] /\ c.next[k] <= Len(l[c.streams[k]])
                       /\ c.unacked[k] \subseteq BusHeard(c, k)
  /\ \A k \in c.todo : c.unacked[k] = {}
  /\ Len(c.channel) <= BusCap /\ Len(c.wire) <= 1 /\ Len(c.got) <= ClientCap

\* The handler's channel holds messages the consumers sent.
MessageRight(l, c, m) == m.sub \in c.subs /\ \E n \in BusHeard(c, m.sub) : m.msg = BusMsg(l, c, m.sub, n)
QueuedRight(l, c) == \A i \in 1..Len(c.channel) : MessageRight(l, c, c.channel[i])

\* Every event stands for one they sent, and was asked for.
EventRight(l, c, e) ==
  /\ e.sub \in c.subs /\ e.seq \in BusHeard(c, e.sub) /\ e.stream = c.streams[e.sub]
  /\ BusPlain(BusMsg(l, c, e.sub, e.seq)) =>
       BusWanted(c, BusMsg(l, c, e.sub, e.seq)) /\ e.type = BusMsg(l, c, e.sub, e.seq).type[1]
SentRight(l, c) == \A i \in 1..Len(BusSent(c)) : EventRight(l, c, BusSent(c)[i])

\* What was not sent again is in order and once.
Ascends(line, resent) ==
  \A i, j \in 1..Len(line) :
    i < j /\ line[i][1] = line[j][1] /\ {line[i], line[j]} \cap resent = {} => line[i][2] < line[j][2]

\* What was sent and acknowledged is there, unless it was dropped or filtered out.
Has(line, p) == \E i \in 1..Len(line) : line[i] = p
Arrived(l, c) ==
  \A k \in c.subs : \A n \in BusHeard(c, k) \ c.unacked[k] :
    BusPlain(BusMsg(l, c, k, n)) /\ BusWanted(c, BusMsg(l, c, k, n)) =>
      <<k, n>> \in c.dropped \/ Has(BusLine(c), <<k, n>>)

BusHolds(l, c) ==
  BusShape(l, c) /\ QueuedRight(l, c) /\ SentRight(l, c) /\ Ascends(BusLine(c), c.resent) /\ Arrived(l, c)

BusIInv == log \in BusLog /\ LogNumbered(log) /\ BusHolds(log, conn)

-----------------------------------------------------------------------------
\* The subject of an event: stream first, type last.
LEMMA SubjectMeans ==
  ASSUME NEW type \in BusType, NEW actor \in BusActor \cup {NoActor}
  PROVE  /\ SubjectOf(type, actor) \in Seq(Segment) \ {<<>>}
         /\ StreamForSubject(SubjectOf(type, actor)) \in StreamNames
         /\ Len(type) = 1 => EventTypeFromSubject(SubjectOf(type, actor)) = type[1]
<1>1. type \in Seq(Segment) /\ Len(type) >= 1 /\ Len(type) \in Nat
  <2>1. type \in Seq(STRING) /\ type # <<>>
    BY BusAssumption
  <2> QED
    BY <2>1 DEF Segment, Text
<1>2. StreamOf(type) \in StreamNames
  <2>1. DOMAIN Categories \subseteq StreamNames
    BY StreamNamesAre DEF Categories
  <2>2. CASE \E c \in DOMAIN Categories : type \in Categories[c]
    <3>1. (CHOOSE c \in DOMAIN Categories : type \in Categories[c]) \in DOMAIN Categories
      BY <2>2
    <3> QED
      BY <2>1, <2>2, <3>1 DEF StreamOf
  <2>3. CASE ~ \E c \in DOMAIN Categories : type \in Categories[c]
    BY <2>3, StreamNamesAre DEF StreamOf
  <2> QED
    BY <2>2, <2>3
<1>3. StreamNames \subseteq Segment /\ "hooks" \in StreamNames
  <2>1. "hooks" \in StreamNames
    BY StreamNamesAre
  <2> QED
    BY <2>1 DEF Segment, Text
<1>4. CASE StreamOf(type) = "hooks"
  <2> DEFINE who == IF actor = NoActor THEN "_global" ELSE actor
             front == <<"hooks", who>>
  <2>1. who \in Segment
    BY DEF Segment
  <2>2. front \in Seq(Segment) /\ Len(front) = 2 /\ front[1] = "hooks"
    BY <2>1, <1>3
  <2>3. SubjectOf(type, actor) = front \o type
    BY <1>4 DEF SubjectOf
  <2> HIDE DEF front
  <2>4. front \o type \in Seq(Segment) /\ Len(front \o type) = 2 + Len(type) /\ (front \o type)[1] = "hooks"
        /\ (Len(type) = 1 => (front \o type)[3] = type[1])
    <3>0. front \in Seq(Segment) /\ type \in Seq(Segment)
      BY <1>1, <2>2
    <3>1. /\ front \o type \in Seq(Segment) /\ Len(front \o type) = Len(front) + Len(type)
          /\ \A i \in 1..Len(front) + Len(type) :
               (front \o type)[i] = IF i <= Len(front) THEN front[i] ELSE type[i - Len(front)]
      BY <3>0, ConcatProperties
    <3>2. front \o type \in Seq(Segment) /\ Len(front \o type) = 2 + Len(type)
      BY <2>2, <3>1
    <3>3. (front \o type)[1] = front[1]
      BY <1>1, <2>2, <3>1
    <3>4. (front \o type)[3] = type[3 - Len(front)]
      <4>1. 3 \in 1..Len(front) + Len(type) /\ ~(3 <= Len(front))
        BY <1>1, <2>2
      <4> QED
        BY <3>1, <4>1
    <3> QED
      BY <2>2, <3>2, <3>3, <3>4
  <2> QED
    BY <1>1, <1>2, <1>4, <2>3, <2>4 DEF StreamForSubject, EventTypeFromSubject, Last
<1>5. CASE StreamOf(type) # "hooks"
  <2> DEFINE front == <<StreamOf(type)>>
  <2>1. front \in Seq(Segment) /\ Len(front) = 1 /\ front[1] = StreamOf(type)
    BY <1>2, <1>3
  <2>2. SubjectOf(type, actor) = front \o type
    BY <1>5 DEF SubjectOf
  <2> HIDE DEF front
  <2>3. front \o type \in Seq(Segment) /\ Len(front \o type) = 1 + Len(type) /\ (front \o type)[1] = StreamOf(type)
        /\ (Len(type) = 1 => (front \o type)[2] = type[1])
    <3>0. front \in Seq(Segment) /\ type \in Seq(Segment)
      BY <1>1, <2>1
    <3>1. /\ front \o type \in Seq(Segment) /\ Len(front \o type) = Len(front) + Len(type)
          /\ \A i \in 1..Len(front) + Len(type) :
               (front \o type)[i] = IF i <= Len(front) THEN front[i] ELSE type[i - Len(front)]
      BY <3>0, ConcatProperties
    <3>2. front \o type \in Seq(Segment) /\ Len(front \o type) = 1 + Len(type)
      BY <2>1, <3>1
    <3>3. (front \o type)[1] = front[1]
      BY <1>1, <2>1, <3>1
    <3>4. (front \o type)[2] = type[2 - Len(front)]
      <4>1. 2 \in 1..Len(front) + Len(type) /\ ~(2 <= Len(front))
        BY <1>1, <2>1
      <4> QED
        BY <3>1, <4>1
    <3> QED
      BY <2>1, <3>2, <3>3, <3>4
  <2> QED
    BY <1>1, <1>2, <2>2, <2>3 DEF StreamForSubject, EventTypeFromSubject, Last
<1> QED
  BY <1>4, <1>5

\* Moving the first event of a sequence to the end of the one before it.
LEMMA MoveOn ==
  ASSUME NEW S, NEW a \in Seq(S), NEW b \in Seq(S), b # <<>>
  PROVE  Append(a, Head(b)) \o Tail(b) = a \o b
<1>1. Head(b) \in S /\ Tail(b) \in Seq(S) /\ Append(a, Head(b)) \in Seq(S) /\ Len(a) \in Nat /\ Len(b) \in Nat \ {0}
  OBVIOUS
<1>2. Len(Tail(b)) = Len(b) - 1 /\ Len(Append(a, Head(b))) = Len(a) + 1
  BY <1>1
<1> DEFINE x == Append(a, Head(b)) \o Tail(b)
           y == a \o b
<1>3. /\ x \in Seq(S) /\ y \in Seq(S) /\ Len(x) = Len(a) + Len(b) /\ Len(y) = Len(a) + Len(b)
      /\ \A i \in 1..Len(a) + Len(b) : x[i] = IF i <= Len(a) + 1 THEN Append(a, Head(b))[i] ELSE Tail(b)[i - (Len(a) + 1)]
      /\ \A i \in 1..Len(a) + Len(b) : y[i] = IF i <= Len(a) THEN a[i] ELSE b[i - Len(a)]
  <2>1. Len(a) + Len(b) = Len(Append(a, Head(b))) + Len(Tail(b))
    BY <1>1, <1>2
  <2> QED
    BY <1>1, <1>2, <2>1, ConcatProperties
<1>4. ASSUME NEW i \in 1..Len(a) + Len(b) PROVE x[i] = y[i]
  <2>1. CASE i <= Len(a)
    <3>1. Append(a, Head(b))[i] = a[i]
      BY <1>1, <2>1
    <3> QED
      BY <1>1, <1>3, <2>1, <3>1
  <2>2. CASE i = Len(a) + 1
    <3>1. Append(a, Head(b))[i] = Head(b) /\ Head(b) = b[1] /\ i - Len(a) = 1
      BY <1>1, <2>2
    <3> QED
      BY <1>1, <1>3, <2>2, <3>1
  <2>3. CASE i > Len(a) + 1
    <3>1. i - (Len(a) + 1) \in 1..Len(b) - 1 /\ (i - (Len(a) + 1)) + 1 = i - Len(a)
      BY <1>1, <2>3
    <3>2. \A j \in 1..Len(b) - 1 : Tail(b)[j] = b[j + 1]
      BY <1>1
    <3> QED
      BY <1>1, <1>3, <2>3, <3>1, <3>2
  <2> QED
    BY <1>1, <2>1, <2>2, <2>3
<1> HIDE DEF x, y
<1>5. x = y
  BY <1>3, <1>4, SeqEqual
<1> QED
  BY <1>5 DEF x, y

\* The same behind another sequence.
LEMMA PassOn ==
  ASSUME NEW p \in Seq(BusEvent), NEW a \in Seq(BusEvent), NEW b \in Seq(BusEvent), b # <<>>
  PROVE  p \o Append(a, Head(b)) \o Tail(b) = p \o a \o b
<1>1. ASSUME NEW s \in Seq(BusEvent), NEW t \in Seq(BusEvent), NEW u \in Seq(BusEvent)
      PROVE  (s \o t) \o u = s \o (t \o u)
  <2> DEFINE v == s \o t
             w == t \o u
             x == v \o u
             y == s \o w
  <2>1. /\ s \in Seq(BusEvent) /\ t \in Seq(BusEvent) /\ u \in Seq(BusEvent)
        /\ Len(s) \in Nat /\ Len(t) \in Nat /\ Len(u) \in Nat
    BY <1>1
  <2>2. /\ v \in Seq(BusEvent) /\ Len(v) = Len(s) + Len(t)
        /\ \A i \in 1..Len(s) + Len(t) : v[i] = IF i <= Len(s) THEN s[i] ELSE t[i - Len(s)]
    BY <2>1, ConcatProperties
  <2>3. /\ w \in Seq(BusEvent) /\ Len(w) = Len(t) + Len(u)
        /\ \A i \in 1..Len(t) + Len(u) : w[i] = IF i <= Len(t) THEN t[i] ELSE u[i - Len(t)]
    BY <2>1, ConcatProperties
  <2>2a. v \in Seq(BusEvent)
    BY <2>2
  <2>3a. w \in Seq(BusEvent)
    BY <2>3
  <2> HIDE DEF v, w
  <2>4. /\ x \in Seq(BusEvent) /\ Len(x) = Len(v) + Len(u)
        /\ \A i \in 1..Len(v) + Len(u) : x[i] = IF i <= Len(v) THEN v[i] ELSE u[i - Len(v)]
    BY <2>1, <2>2a, ConcatProperties
  <2>5. /\ y \in Seq(BusEvent) /\ Len(y) = Len(s) + Len(w)
        /\ \A i \in 1..Len(s) + Len(w) : y[i] = IF i <= Len(s) THEN s[i] ELSE w[i - Len(s)]
    BY <2>1, <2>3a, ConcatProperties
  <2> HIDE DEF x, y
  <2>6. Len(x) = Len(y) /\ Len(x) = Len(s) + Len(t) + Len(u)
    BY <2>1, <2>2, <2>3, <2>4, <2>5
  <2>7. ASSUME NEW i \in 1..Len(x) PROVE x[i] = y[i]
    <3>1. /\ i \in Int /\ 1 <= i /\ i <= Len(s) + Len(t) + Len(u)
          /\ i \in 1..Len(v) + Len(u) /\ i \in 1..Len(s) + Len(w)
      BY <2>1, <2>2, <2>3, <2>4, <2>6
    <3>2. CASE i <= Len(s)
      <4>1. x[i] = s[i]
        BY <2>1, <2>2, <2>4, <3>1, <3>2
      <4>2. y[i] = s[i]
        BY <2>5, <3>1, <3>2
      <4> QED
        BY <4>1, <4>2
    <3>3. CASE Len(s) < i /\ i <= Len(s) + Len(t)
      <4>1. x[i] = t[i - Len(s)]
        BY <2>1, <2>2, <2>4, <3>1, <3>3
      <4>2. i - Len(s) \in 1..Len(t) + Len(u) /\ i - Len(s) <= Len(t) /\ ~(i <= Len(s))
        BY <2>1, <3>1, <3>3
      <4>3. y[i] = t[i - Len(s)]
        BY <2>3, <2>5, <3>1, <4>2
      <4> QED
        BY <4>1, <4>3
    <3>4. CASE Len(s) + Len(t) < i
      <4>1. x[i] = u[i - (Len(s) + Len(t))]
        BY <2>1, <2>2, <2>4, <3>1, <3>4
      <4>2. /\ i - Len(s) \in 1..Len(t) + Len(u) /\ ~(i - Len(s) <= Len(t)) /\ ~(i <= Len(s))
            /\ (i - Len(s)) - Len(t) = i - (Len(s) + Len(t))
        BY <2>1, <3>1, <3>4
      <4>3. y[i] = u[i - (Len(s) + Len(t))]
        BY <2>3, <2>5, <3>1, <4>2
      <4> QED
        BY <4>1, <4>3
    <3> QED
      BY <2>1, <3>1, <3>2, <3>3, <3>4
  <2>8. x = y
    BY <2>4, <2>5, <2>6, <2>7, SeqEqual
  <2> QED
    BY <2>8 DEF x, y, v, w
<1>2. Append(a, Head(b)) \in Seq(BusEvent) /\ Tail(b) \in Seq(BusEvent)
  OBVIOUS
<1> DEFINE x == Append(a, Head(b))
           y == Tail(b)
<1>3. x \in Seq(BusEvent) /\ y \in Seq(BusEvent)
  BY <1>2
<1>4. x \o y = a \o b
  BY MoveOn
<1> HIDE DEF x, y
<1>5. (p \o x) \o y = p \o (x \o y)
  BY <1>1, <1>3, ZenonT(40)
<1>6. (p \o a) \o b = p \o (a \o b)
  BY <1>1
<1>7. (p \o x) \o y = (p \o a) \o b
  BY <1>5, <1>6, <1>4
<1> QED
  BY <1>7 DEF x, y

-----------------------------------------------------------------------------
\* What was delivered, as a sequence of pairs.
LEMMA LineIs ==
  ASSUME NEW c \in BusConnection
  PROVE  /\ BusSent(c) \in Seq(BusEvent) /\ Len(BusSent(c)) \in Nat /\ Len(c.channel) \in Nat
         /\ SentPairs(c) \in Seq(Nat \X Nat) /\ QueuedPairs(c) \in Seq(Nat \X Nat)
         /\ Len(SentPairs(c)) = Len(BusSent(c)) /\ Len(QueuedPairs(c)) = Len(c.channel)
         /\ \A i \in 1..Len(BusSent(c)) : SentPairs(c)[i] = <<BusSent(c)[i].sub, BusSent(c)[i].seq>>
         /\ \A i \in 1..Len(c.channel) : QueuedPairs(c)[i] = <<c.channel[i].sub, c.channel[i].msg.seq>>
         /\ BusLine(c) \in Seq(Nat \X Nat) /\ Len(BusLine(c)) = Len(BusSent(c)) + Len(c.channel)
         /\ \A i \in 1..Len(BusSent(c)) + Len(c.channel) :
              BusLine(c)[i] = IF i <= Len(BusSent(c)) THEN SentPairs(c)[i] ELSE QueuedPairs(c)[i - Len(BusSent(c))]
<1>1. /\ c.read \in Seq(BusEvent) /\ c.got \in Seq(BusEvent) /\ c.wire \in Seq(BusEvent) /\ c.channel \in Seq(Queued)
  BY DEF BusConnection
<1> DEFINE sent == BusSent(c)
           chan == c.channel
           a == SentPairs(c)
           b == QueuedPairs(c)
<1>2. sent \in Seq(BusEvent)
  <2>1. c.read \o c.got \in Seq(BusEvent)
    BY <1>1, ConcatProperties
  <2> QED
    BY <1>1, <2>1, ConcatProperties DEF BusSent
<1>3. /\ Len(sent) \in Nat /\ DOMAIN sent = 1..Len(sent) /\ Len(chan) \in Nat /\ DOMAIN chan = 1..Len(chan)
  BY <1>1, <1>2
<1>4. a = [i \in 1..Len(sent) |-> <<sent[i].sub, sent[i].seq>>]
  BY <1>3 DEF SentPairs
<1>5. b = [i \in 1..Len(chan) |-> <<chan[i].sub, chan[i].msg.seq>>]
  BY <1>3 DEF QueuedPairs
<1>6. \A i \in 1..Len(sent) : <<sent[i].sub, sent[i].seq>> \in Nat \X Nat
  <2> SUFFICES ASSUME NEW i \in 1..Len(sent) PROVE sent[i].sub \in Nat /\ sent[i].seq \in Nat
    OBVIOUS
  <2>1. sent[i] \in BusEvent
    BY <1>2, ElementOfSeq
  <2> QED
    BY <2>1 DEF BusEvent
<1>7. \A i \in 1..Len(chan) : <<chan[i].sub, chan[i].msg.seq>> \in Nat \X Nat
  <2> SUFFICES ASSUME NEW i \in 1..Len(chan) PROVE chan[i].sub \in Nat /\ chan[i].msg.seq \in Nat
    OBVIOUS
  <2>1. chan[i] \in Queued
    BY <1>1, ElementOfSeq
  <2> QED
    BY <2>1 DEF Queued, Message
<1> HIDE DEF sent, chan, a, b
<1>8. a \in Seq(Nat \X Nat) /\ Len(a) = Len(sent) /\ \A i \in 1..Len(sent) : a[i] = <<sent[i].sub, sent[i].seq>>
  BY <1>3, <1>4, <1>6
<1>9. b \in Seq(Nat \X Nat) /\ Len(b) = Len(chan) /\ \A i \in 1..Len(chan) : b[i] = <<chan[i].sub, chan[i].msg.seq>>
  BY <1>3, <1>5, <1>7
<1>10. a \in Seq(Nat \X Nat) /\ b \in Seq(Nat \X Nat)
  BY <1>8, <1>9
<1>11. /\ a \o b \in Seq(Nat \X Nat) /\ Len(a \o b) = Len(a) + Len(b)
       /\ \A i \in 1..Len(a) + Len(b) : (a \o b)[i] = IF i <= Len(a) THEN a[i] ELSE b[i - Len(a)]
  BY <1>10, ConcatProperties
<1>12. /\ a \o b \in Seq(Nat \X Nat) /\ Len(a \o b) = Len(sent) + Len(chan)
       /\ \A i \in 1..Len(sent) + Len(chan) : (a \o b)[i] = IF i <= Len(sent) THEN a[i] ELSE b[i - Len(sent)]
  BY <1>8, <1>9, <1>11
<1> QED
  BY <1>2, <1>3, <1>8, <1>9, <1>12 DEF BusLine, sent, chan, a, b

\* One pair of it.
LEMMA PairIs ==
  ASSUME NEW c \in BusConnection, NEW i \in 1..Len(BusLine(c))
  PROVE  \/ i \in 1..Len(BusSent(c)) /\ BusLine(c)[i] = <<BusSent(c)[i].sub, BusSent(c)[i].seq>>
         \/ \E j \in 1..Len(c.channel) :
              i = Len(BusSent(c)) + j /\ BusLine(c)[i] = <<c.channel[j].sub, c.channel[j].msg.seq>>
<1> DEFINE s == Len(BusSent(c))
           t == Len(c.channel)
<1>1. s \in Nat /\ t \in Nat /\ Len(BusLine(c)) = s + t
  BY LineIs
<1>2. \A j \in 1..s : SentPairs(c)[j] = <<BusSent(c)[j].sub, BusSent(c)[j].seq>>
  BY LineIs
<1>3. \A j \in 1..t : QueuedPairs(c)[j] = <<c.channel[j].sub, c.channel[j].msg.seq>>
  BY LineIs
<1>4. \A j \in 1..s + t : BusLine(c)[j] = IF j <= s THEN SentPairs(c)[j] ELSE QueuedPairs(c)[j - s]
  BY LineIs
<1> HIDE DEF s, t
<1>5. CASE i <= s
  BY <1>1, <1>2, <1>4, <1>5 DEF s
<1>6. CASE ~(i <= s)
  <2>1. i - s \in 1..t /\ i \in 1..s + t /\ i = s + (i - s)
    BY <1>1, <1>6
  <2>2. BusLine(c)[i] = QueuedPairs(c)[i - s]
    BY <1>4, <1>6, <2>1
  <2>3. QueuedPairs(c)[i - s] = <<c.channel[i - s].sub, c.channel[i - s].msg.seq>>
    BY <1>3, <2>1
  <2> QED
    BY <2>1, <2>2, <2>3 DEF s, t
<1> QED
  BY <1>5, <1>6

\* A message of a stream in its place.
LEMMA BusMsgIs ==
  ASSUME NEW l \in BusLog, LogNumbered(l), NEW c, BusShape(l, c), NEW k \in c.subs, NEW n \in BusHeard(c, k)
  PROVE  /\ c.streams[k] \in StreamNames /\ n \in Nat /\ n \in 1..Len(l[c.streams[k]])
         /\ BusMsg(l, c, k, n) \in Message /\ BusMsg(l, c, k, n).seq = n
         /\ BusMsg(l, c, k, n).subject[1] = c.streams[k]
<1>1. c.streams[k] \in StreamNames /\ k \in DOMAIN c.since /\ k \in DOMAIN c.next
  BY DEF BusShape
<1>2. c.since \in Seq(Nat) /\ c.next \in Seq(Nat)
  BY DEF BusShape, BusConnection
<1>3. c.since[k] \in Nat /\ c.next[k] \in Nat
  BY <1>1, <1>2
<1>4. l[c.streams[k]] \in Seq(Message) /\ Len(l[c.streams[k]]) \in Nat
  BY <1>1 DEF BusLog
<1>5. c.next[k] <= Len(l[c.streams[k]])
  BY DEF BusShape
<1>6. n \in Nat /\ n \in 1..Len(l[c.streams[k]])
  BY <1>3, <1>4, <1>5 DEF BusHeard
<1>7. l[c.streams[k]][n] \in Message
  BY <1>4, <1>6, ElementOfSeq
<1> QED
  BY <1>1, <1>6, <1>7 DEF BusMsg, LogNumbered

\* What was delivered had been sent.
LEMMA LineHeard ==
  ASSUME NEW l \in BusLog, LogNumbered(l), NEW c, BusHolds(l, c), NEW i \in 1..Len(BusLine(c))
  PROVE  /\ BusLine(c)[i] = <<BusLine(c)[i][1], BusLine(c)[i][2]>>
         /\ BusLine(c)[i][1] \in c.subs /\ BusLine(c)[i][2] \in BusHeard(c, BusLine(c)[i][1])
<1>1. c \in BusConnection /\ BusShape(l, c)
  BY DEF BusHolds, BusShape
<1>2. CASE i \in 1..Len(BusSent(c)) /\ BusLine(c)[i] = <<BusSent(c)[i].sub, BusSent(c)[i].seq>>
  <2>1. EventRight(l, c, BusSent(c)[i])
    BY <1>2 DEF BusHolds, SentRight
  <2> QED
    BY <1>2, <2>1 DEF EventRight
<1>3. ASSUME NEW j \in 1..Len(c.channel), BusLine(c)[i] = <<c.channel[j].sub, c.channel[j].msg.seq>>
      PROVE  /\ BusLine(c)[i] = <<BusLine(c)[i][1], BusLine(c)[i][2]>>
             /\ BusLine(c)[i][1] \in c.subs /\ BusLine(c)[i][2] \in BusHeard(c, BusLine(c)[i][1])
  <2> DEFINE m == c.channel[j]
  <2>1. MessageRight(l, c, m)
    BY DEF BusHolds, QueuedRight
  <2>2. PICK n \in BusHeard(c, m.sub) : m.msg = BusMsg(l, c, m.sub, n)
    BY <2>1 DEF MessageRight
  <2>3. m.sub \in c.subs
    BY <2>1 DEF MessageRight
  <2>4. m.msg.seq = n
    BY <1>1, <2>2, <2>3, BusMsgIs
  <2>5. BusLine(c)[i] = <<m.sub, n>>
    BY <1>3, <2>4
  <2> HIDE DEF m
  <2> QED
    BY <2>2, <2>3, <2>5
<1> QED
  BY <1>1, <1>2, <1>3, PairIs

\* A step on the client's side, or of what nothing depends on.
LEMMA QuietHolds ==
  ASSUME NEW l, NEW c, NEW d, BusHolds(l, c), BusShape(l, d),
         d.streams = c.streams, d.filter = c.filter, d.subs = c.subs, d.since = c.since, d.next = c.next,
         d.unacked = c.unacked, d.dropped = c.dropped, d.resent = c.resent, d.channel = c.channel,
         BusSent(d) = BusSent(c)
  PROVE  BusHolds(l, d)
<1>1. BusLine(d) = BusLine(c)
  BY DEF BusLine, SentPairs, QueuedPairs
<1>2. \A k, n : BusHeard(d, k) = BusHeard(c, k) /\ BusMsg(l, d, k, n) = BusMsg(l, c, k, n)
  BY DEF BusHeard, BusMsg
<1>3. \A m : BusWanted(d, m) <=> BusWanted(c, m)
  BY DEF BusWanted
<1>4. QueuedRight(l, d)
  BY <1>2 DEF BusHolds, QueuedRight, MessageRight
<1>5. SentRight(l, d)
  BY <1>2, <1>3 DEF BusHolds, SentRight, EventRight
<1>6. Arrived(l, d)
  BY <1>1, <1>2, <1>3 DEF BusHolds, Arrived
<1> QED
  BY <1>1, <1>4, <1>5, <1>6 DEF BusHolds

\* Nothing was delivered yet.
LEMMA FreshHolds ==
  ASSUME NEW l \in BusLog, NEW c, BusShape(l, c), c.subs = {},
         c.channel = <<>>, c.wire = <<>>, c.got = <<>>, c.read = <<>>
  PROVE  BusHolds(l, c)
<1>1. c \in BusConnection /\ BusSent(c) = <<>>
  BY DEF BusShape, BusSent
<1>2. Len(BusSent(c)) = 0 /\ Len(c.channel) = 0
  BY <1>1
<1>3. Len(BusLine(c)) = 0
  BY <1>1, <1>2, LineIs
<1> QED
  BY <1>2, <1>3 DEF BusHolds, QueuedRight, SentRight, Ascends, Arrived

\* A consumer sends one more, or again: what is not acknowledged is not missed yet.
LEMMA SendingHolds ==
  ASSUME NEW l \in BusLog, LogNumbered(l), NEW c, NEW d, BusHolds(l, c), BusShape(l, d),
         d.streams = c.streams, d.filter = c.filter, d.subs = c.subs, d.since = c.since,
         d.dropped = c.dropped, c.resent \subseteq d.resent, d.channel = c.channel, BusSent(d) = BusSent(c),
         \A k \in c.subs : /\ BusHeard(c, k) \subseteq BusHeard(d, k) /\ c.unacked[k] \subseteq d.unacked[k]
                           /\ BusHeard(d, k) \ BusHeard(c, k) \subseteq d.unacked[k]
  PROVE  BusHolds(l, d)
<1>1. BusLine(d) = BusLine(c)
  BY DEF BusLine, SentPairs, QueuedPairs
<1>2. \A k, n : BusMsg(l, d, k, n) = BusMsg(l, c, k, n)
  BY DEF BusMsg
<1>3. \A m : BusWanted(d, m) <=> BusWanted(c, m)
  BY DEF BusWanted
<1>4. QueuedRight(l, d)
  <2> SUFFICES ASSUME NEW i \in 1..Len(c.channel) PROVE MessageRight(l, d, c.channel[i])
    BY DEF QueuedRight
  <2>1. MessageRight(l, c, c.channel[i])
    BY DEF BusHolds, QueuedRight
  <2> QED
    BY <1>2, <2>1 DEF MessageRight
<1>5. SentRight(l, d)
  <2> SUFFICES ASSUME NEW i \in 1..Len(BusSent(c)) PROVE EventRight(l, d, BusSent(c)[i])
    BY DEF SentRight
  <2>1. EventRight(l, c, BusSent(c)[i])
    BY DEF BusHolds, SentRight
  <2> QED
    BY <1>2, <1>3, <2>1 DEF EventRight
<1>6. Ascends(BusLine(d), d.resent)
  BY <1>1 DEF BusHolds, Ascends
<1>7. Arrived(l, d)
  <2> SUFFICES ASSUME NEW k \in c.subs, NEW n \in BusHeard(d, k) \ d.unacked[k],
                      BusPlain(BusMsg(l, c, k, n)), BusWanted(c, BusMsg(l, c, k, n))
               PROVE  <<k, n>> \in c.dropped \/ Has(BusLine(c), <<k, n>>)
    BY <1>1, <1>2, <1>3 DEF Arrived
  <2>1. n \in BusHeard(c, k) \ c.unacked[k]
    OBVIOUS
  <2> QED
    BY <2>1 DEF BusHolds, Arrived
<1> QED
  BY <1>4, <1>5, <1>6, <1>7 DEF BusHolds

\* An acknowledgement of what was delivered or dropped.
LEMMA AckedHolds ==
  ASSUME NEW l, NEW c, NEW d, BusHolds(l, c), BusShape(l, d), NEW k \in c.subs, NEW n,
         d.streams = c.streams, d.filter = c.filter, d.subs = c.subs, d.since = c.since, d.next = c.next,
         d.dropped = c.dropped, d.resent = c.resent, d.channel = c.channel, BusSent(d) = BusSent(c),
         \A j \in c.subs : d.unacked[j] = IF j = k THEN c.unacked[j] \ {n} ELSE c.unacked[j],
         <<k, n>> \in c.dropped \/ Has(BusLine(c), <<k, n>>)
  PROVE  BusHolds(l, d)
<1>1. BusLine(d) = BusLine(c)
  BY DEF BusLine, SentPairs, QueuedPairs
<1>2. \A j, m : BusHeard(d, j) = BusHeard(c, j) /\ BusMsg(l, d, j, m) = BusMsg(l, c, j, m)
  BY DEF BusHeard, BusMsg
<1>3. \A m : BusWanted(d, m) <=> BusWanted(c, m)
  BY DEF BusWanted
<1>4. QueuedRight(l, d)
  BY <1>2 DEF BusHolds, QueuedRight, MessageRight
<1>5. SentRight(l, d)
  BY <1>2, <1>3 DEF BusHolds, SentRight, EventRight
<1>6. Arrived(l, d)
  <2> SUFFICES ASSUME NEW j \in c.subs, NEW m \in BusHeard(c, j) \ d.unacked[j],
                      BusPlain(BusMsg(l, c, j, m)), BusWanted(c, BusMsg(l, c, j, m))
               PROVE  <<j, m>> \in c.dropped \/ Has(BusLine(c), <<j, m>>)
    BY <1>1, <1>2, <1>3 DEF Arrived
  <2>1. CASE m \in c.unacked[j]
    <3>1. j = k /\ m = n
      BY <2>1
    <3> QED
      BY <3>1
  <2>2. CASE m \notin c.unacked[j]
    BY <2>2 DEF BusHolds, Arrived
  <2> QED
    BY <2>1, <2>2
<1> QED
  BY <1>1, <1>4, <1>5, <1>6 DEF BusHolds

\* A message reaches the handler's channel behind all others.
LEMMA QueueHolds ==
  ASSUME NEW l \in BusLog, LogNumbered(l), NEW c, NEW d, BusHolds(l, c), BusShape(l, d),
         NEW k \in c.subs, NEW n \in BusHeard(c, k),
         d.streams = c.streams, d.filter = c.filter, d.subs = c.subs, d.since = c.since, d.next = c.next,
         d.unacked = c.unacked, d.dropped = c.dropped, d.resent = c.resent, BusSent(d) = BusSent(c),
         d.channel = Append(c.channel, [sub |-> k, msg |-> BusMsg(l, c, k, n)]),
         <<k, n>> \in c.resent \/ \A i \in 1..Len(BusLine(c)) : BusLine(c)[i][1] = k => BusLine(c)[i][2] < n
  PROVE  BusHolds(l, d) /\ Has(BusLine(d), <<k, n>>)
<1> DEFINE q == [sub |-> k, msg |-> BusMsg(l, c, k, n)]
           x == BusLine(c)
           y == BusLine(d)
           w == Len(x)
<1>1. c \in BusConnection /\ d \in BusConnection /\ BusShape(l, c)
  BY DEF BusHolds, BusShape
<1>2. \A j, m : BusHeard(d, j) = BusHeard(c, j) /\ BusMsg(l, d, j, m) = BusMsg(l, c, j, m)
  BY DEF BusHeard, BusMsg
<1>3. \A m : BusWanted(d, m) <=> BusWanted(c, m)
  BY DEF BusWanted
<1>4. c.channel \in Seq(Queued) /\ Len(c.channel) \in Nat /\ q \in Queued
  <2>1. BusMsg(l, c, k, n) \in Message /\ k \in Nat
    BY <1>1, BusMsgIs DEF BusConnection
  <2> QED
    BY <1>1, <2>1 DEF BusConnection, Queued
<1>5. /\ Len(d.channel) = Len(c.channel) + 1 /\ d.channel[Len(c.channel) + 1] = q
      /\ \A i \in 1..Len(c.channel) : d.channel[i] = c.channel[i]
  BY <1>4, AppendProperties
<1>6. w \in Nat /\ Len(y) = w + 1 /\ y[w + 1] = <<k, n>> /\ \A i \in 1..w : y[i] = x[i]
  <2> DEFINE s == Len(BusSent(c))
             t == Len(c.channel)
  <2>1. s \in Nat /\ t \in Nat /\ w = s + t /\ Len(y) = s + (t + 1)
    BY <1>1, <1>5, LineIs
  <2>2. SentPairs(d) = SentPairs(c)
    BY DEF SentPairs
  <2>3a. \A i \in 1..t : QueuedPairs(c)[i] = <<c.channel[i].sub, c.channel[i].msg.seq>>
    BY <1>1, LineIs
  <2>3b. \A i \in 1..t + 1 : QueuedPairs(d)[i] = <<d.channel[i].sub, d.channel[i].msg.seq>>
    BY <1>1, <1>5, LineIs
  <2>3. \A i \in 1..t : QueuedPairs(d)[i] = QueuedPairs(c)[i]
    <3> SUFFICES ASSUME NEW i \in 1..t PROVE QueuedPairs(d)[i] = QueuedPairs(c)[i]
      OBVIOUS
    <3>1. QueuedPairs(c)[i] = <<c.channel[i].sub, c.channel[i].msg.seq>>
      BY <2>3a
    <3>2. i \in 1..t + 1
      BY <2>1
    <3>3. QueuedPairs(d)[i] = <<d.channel[i].sub, d.channel[i].msg.seq>>
      BY <2>3b, <3>2
    <3>4. d.channel[i] = c.channel[i]
      BY <1>5
    <3> QED
      BY <3>1, <3>3, <3>4
  <2>4. QueuedPairs(d)[t + 1] = <<k, n>>
    <3>1. QueuedPairs(d)[t + 1] = <<d.channel[t + 1].sub, d.channel[t + 1].msg.seq>>
      BY <2>1, <2>3b
    <3>2. BusMsg(l, c, k, n).seq = n
      BY <1>1, BusMsgIs
    <3> QED
      BY <1>5, <3>1, <3>2
  <2>5. \A i \in 1..s + (t + 1) : y[i] = IF i <= s THEN SentPairs(c)[i] ELSE QueuedPairs(d)[i - s]
    <3>1. \A i \in 1..Len(BusSent(d)) + Len(d.channel) :
            y[i] = IF i <= Len(BusSent(d)) THEN SentPairs(d)[i] ELSE QueuedPairs(d)[i - Len(BusSent(d))]
      BY <1>1, LineIs
    <3> QED
      BY <1>5, <2>2, <3>1
  <2>6. \A i \in 1..s + t : x[i] = IF i <= s THEN SentPairs(c)[i] ELSE QueuedPairs(c)[i - s]
    BY <1>1, LineIs
  <2> HIDE DEF s, t, x, y, w
  <2>7. \A i \in 1..w : y[i] = x[i]
    <3> SUFFICES ASSUME NEW i \in 1..w PROVE y[i] = x[i]
      OBVIOUS
    <3>1. CASE i <= s
      BY <2>1, <2>5, <2>6, <3>1
    <3>2. CASE ~(i <= s)
      <4>1. i - s \in 1..t /\ i \in 1..s + t /\ i \in 1..s + (t + 1)
        BY <2>1, <3>2
      <4> QED
        BY <2>3, <2>5, <2>6, <3>2, <4>1
    <3> QED
      BY <3>1, <3>2
  <2>8. y[w + 1] = <<k, n>>
    <3>1. w + 1 \in 1..s + (t + 1) /\ ~(w + 1 <= s) /\ (w + 1) - s = t + 1
      BY <2>1
    <3> QED
      BY <2>4, <2>5, <3>1
  <2> QED
    BY <2>1, <2>7, <2>8
<1>7. Has(y, <<k, n>>)
  BY <1>6 DEF Has
<1>8. QueuedRight(l, d)
  <2> SUFFICES ASSUME NEW i \in 1..Len(d.channel) PROVE MessageRight(l, d, d.channel[i])
    BY DEF QueuedRight
  <2>1. CASE i \in 1..Len(c.channel)
    <3>1. MessageRight(l, c, c.channel[i])
      BY <2>1 DEF BusHolds, QueuedRight
    <3> QED
      BY <1>2, <1>5, <2>1, <3>1 DEF MessageRight
  <2>2. CASE i \notin 1..Len(c.channel)
    <3>1. d.channel[i] = q
      BY <1>4, <1>5, <2>2
    <3> QED
      BY <1>2, <3>1 DEF MessageRight
  <2> QED
    BY <2>1, <2>2
<1>9. SentRight(l, d)
  BY <1>2, <1>3 DEF BusHolds, SentRight, EventRight
<1>10. Ascends(y, d.resent)
  <2> SUFFICES ASSUME NEW i \in 1..Len(y), NEW j \in 1..Len(y),
                      i < j, y[i][1] = y[j][1], {y[i], y[j]} \cap c.resent = {}
               PROVE  y[i][2] < y[j][2]
    BY DEF Ascends
  <2>0. Ascends(x, c.resent)
    BY DEF BusHolds
  <2> HIDE DEF x, y, w
  <2>1. CASE j \in 1..w
    <3>1. i \in 1..w /\ y[i] = x[i] /\ y[j] = x[j]
      BY <1>6, <2>1
    <3> QED
      BY <1>6, <2>0, <2>1, <3>1 DEF Ascends, w
  <2>2. CASE j \notin 1..w
    <3>1. j = w + 1 /\ i \in 1..w
      BY <1>6, <2>2
    <3>2. y[j] = <<k, n>> /\ y[i] = x[i]
      BY <1>6, <3>1
    <3> QED
      BY <3>1, <3>2 DEF x, w
  <2> QED
    BY <2>1, <2>2
<1>11. Arrived(l, d)
  <2> SUFFICES ASSUME NEW j \in c.subs, NEW m \in BusHeard(c, j) \ c.unacked[j],
                      BusPlain(BusMsg(l, c, j, m)), BusWanted(c, BusMsg(l, c, j, m))
               PROVE  <<j, m>> \in c.dropped \/ Has(y, <<j, m>>)
    BY <1>2, <1>3 DEF Arrived
  <2>1. <<j, m>> \in c.dropped \/ Has(x, <<j, m>>)
    BY DEF BusHolds, Arrived
  <2> HIDE DEF x, y, w
  <2>2. Has(x, <<j, m>>) => Has(y, <<j, m>>)
    BY <1>6 DEF Has, w
  <2> QED
    BY <2>1, <2>2
<1> QED
  BY <1>7, <1>8, <1>9, <1>10, <1>11 DEF BusHolds

\* A full channel drops it.
LEMMA DropHolds ==
  ASSUME NEW l, NEW c, NEW d, BusHolds(l, c), BusShape(l, d),
         d.streams = c.streams, d.filter = c.filter, d.subs = c.subs, d.since = c.since, d.next = c.next,
         d.unacked = c.unacked, c.dropped \subseteq d.dropped, d.resent = c.resent, d.channel = c.channel,
         BusSent(d) = BusSent(c)
  PROVE  BusHolds(l, d)
<1>1. BusLine(d) = BusLine(c)
  BY DEF BusLine, SentPairs, QueuedPairs
<1>2. \A k, n : BusHeard(d, k) = BusHeard(c, k) /\ BusMsg(l, d, k, n) = BusMsg(l, c, k, n)
  BY DEF BusHeard, BusMsg
<1>3. \A m : BusWanted(d, m) <=> BusWanted(c, m)
  BY DEF BusWanted
<1>4. QueuedRight(l, d)
  BY <1>2 DEF BusHolds, QueuedRight, MessageRight
<1>5. SentRight(l, d)
  BY <1>2, <1>3 DEF BusHolds, SentRight, EventRight
<1>6. Arrived(l, d)
  BY <1>1, <1>2, <1>3 DEF BusHolds, Arrived
<1> QED
  BY <1>1, <1>4, <1>5, <1>6 DEF BusHolds

-----------------------------------------------------------------------------
\* What a shape depends on.
LEMMA SameShape ==
  ASSUME NEW l, NEW c, NEW d \in BusConnection, BusShape(l, c),
         d.streams = c.streams, d.subs = c.subs, d.todo \subseteq c.todo, d.since = c.since, d.next = c.next,
         DOMAIN d.unacked = DOMAIN c.unacked, \A k \in c.subs : d.unacked[k] \subseteq BusHeard(c, k),
         \A k \in c.todo : d.unacked[k] = {},
         d.gone \subseteq c.subs, Len(d.channel) <= BusCap, Len(d.wire) <= 1, Len(d.got) <= ClientCap
  PROVE  BusShape(l, d)
<1>1. \A k : BusHeard(d, k) = BusHeard(c, k)
  BY DEF BusHeard
<1> QED
  BY <1>1 DEF BusShape

\* A message on its way changes what is queued, dropped or not acknowledged.
Alike(c, d) ==
  /\ d.streams = c.streams /\ d.filter = c.filter /\ d.subs = c.subs /\ d.todo = c.todo
  /\ d.since = c.since /\ d.next = c.next /\ d.resent = c.resent
  /\ d.gone = c.gone /\ d.wire = c.wire /\ d.got = c.got /\ d.read = c.read

LEMMA CallbackIs ==
  ASSUME NEW c \in BusConnection, NEW k \in Nat, NEW n \in Nat, BusMsg(log, c, k, n) \in Message
  PROVE  LET d == Callback(c, k, n)
             q == [sub |-> k, msg |-> BusMsg(log, c, k, n)]
         IN /\ d \in BusConnection /\ Alike(c, d) /\ d.unacked = c.unacked
            /\ \/ Len(c.channel) < BusCap /\ d.channel = Append(c.channel, q) /\ d.dropped = c.dropped
               \/ d.channel = c.channel /\ d.dropped = c.dropped \cup {<<k, n>>}
<1> DEFINE q == [sub |-> k, msg |-> BusMsg(log, c, k, n)]
<1>1. q \in Queued
  BY DEF Queued
<1>2. c.channel \in Seq(Queued) /\ c.dropped \in SUBSET (Nat \X Nat)
  BY DEF BusConnection
<1>3. Append(c.channel, q) \in Seq(Queued)
  BY <1>1, <1>2
<1>4. c.dropped \cup {<<k, n>>} \in SUBSET (Nat \X Nat)
  BY <1>2
<1>5. CASE Len(c.channel) < BusCap
  <2>1. Callback(c, k, n) = [c EXCEPT !.channel = Append(c.channel, q)]
    BY <1>5 DEF Callback, BusMsg
  <2> HIDE DEF q
  <2> QED
    BY <1>3, <1>5, <2>1 DEF BusConnection, Alike, q
<1>6. CASE ~(Len(c.channel) < BusCap)
  <2>1. Callback(c, k, n) = [c EXCEPT !.dropped = c.dropped \cup {<<k, n>>}]
    BY <1>6 DEF Callback
  <2> QED
    BY <1>4, <1>6, <2>1 DEF BusConnection, Alike
<1> QED
  BY <1>5, <1>6

\* The callback queues a message or drops it.
LEMMA CallbackHolds ==
  ASSUME log \in BusLog, LogNumbered(log), NEW c, BusHolds(log, c), NEW k \in c.subs, NEW n \in BusHeard(c, k),
         <<k, n>> \in c.resent \/ \A i \in 1..Len(BusLine(c)) : BusLine(c)[i][1] = k => BusLine(c)[i][2] < n
  PROVE  LET d == Callback(c, k, n)
         IN /\ BusHolds(log, d)
            /\ <<k, n>> \in d.dropped \/ Has(BusLine(d), <<k, n>>)
<1> DEFINE d == Callback(c, k, n)
           q == [sub |-> k, msg |-> BusMsg(log, c, k, n)]
<1>1. c \in BusConnection /\ BusShape(log, c) /\ k \in Nat
  BY DEF BusHolds, BusShape, BusConnection
<1>2. n \in Nat /\ BusMsg(log, c, k, n) \in Message
  BY <1>1, BusMsgIs
<1>3. /\ d \in BusConnection /\ Alike(c, d) /\ d.unacked = c.unacked
      /\ \/ Len(c.channel) < BusCap /\ d.channel = Append(c.channel, q) /\ d.dropped = c.dropped
         \/ d.channel = c.channel /\ d.dropped = c.dropped \cup {<<k, n>>}
  BY <1>1, <1>2, CallbackIs
<1> HIDE DEF d
<1>4. BusSent(d) = BusSent(c)
  BY <1>3 DEF BusSent, Alike
<1>5. BusCap \in Nat /\ Len(c.channel) \in Nat /\ c.channel \in Seq(Queued) /\ q \in Queued
  <2>1. q \in Queued
    BY <1>1, <1>2 DEF Queued
  <2> QED
    BY <1>1, <2>1, BusAssumption DEF BusConnection
<1>6. /\ \A j \in c.subs : c.unacked[j] \subseteq BusHeard(c, j)
      /\ \A j \in c.todo : c.unacked[j] = {}
      /\ c.gone \subseteq c.subs /\ Len(c.channel) <= BusCap /\ Len(c.wire) <= 1 /\ Len(c.got) <= ClientCap
  BY <1>1 DEF BusShape
<1>7. Len(d.channel) <= BusCap
  <2>1. Len(Append(c.channel, q)) = Len(c.channel) + 1
    BY <1>5, AppendProperties
  <2> HIDE DEF q
  <2> QED
    BY <1>3, <1>5, <1>6, <2>1
<1>8. BusShape(log, d)
  BY <1>1, <1>3, <1>6, <1>7, SameShape DEF Alike
<1>9. CASE d.channel = Append(c.channel, q) /\ d.dropped = c.dropped
  BY <1>3, <1>4, <1>8, <1>9, QueueHolds DEF d, Alike
<1>10. CASE d.channel = c.channel /\ d.dropped = c.dropped \cup {<<k, n>>}
  <2>1. BusHolds(log, d)
    BY <1>3, <1>4, <1>8, <1>10, DropHolds DEF Alike
  <2> QED
    BY <1>10, <2>1 DEF d
<1> QED
  BY <1>3, <1>9, <1>10

\* One of a sequence's elements is replaced.
LEMMA Replaced ==
  ASSUME NEW S, NEW s \in Seq(S), NEW k \in DOMAIN s, NEW e \in S
  PROVE  /\ [s EXCEPT ![k] = e] \in Seq(S) /\ DOMAIN [s EXCEPT ![k] = e] = DOMAIN s
         /\ [s EXCEPT ![k] = e][k] = e
         /\ \A j \in DOMAIN s : j # k => [s EXCEPT ![k] = e][j] = s[j]
BY ExceptSeq

\* A message on its way: as if it waited to be acknowledged.
Waits(c, k, n) == [c EXCEPT !.unacked = [c.unacked EXCEPT ![k] = c.unacked[k] \cup {n}]]

LEMMA TransmitHolds ==
  ASSUME log \in BusLog, LogNumbered(log), NEW c, NEW k \in c.subs, NEW n \in BusHeard(c, k),
         c \in BusConnection, k \in DOMAIN c.unacked, n \in Nat, BusHolds(log, Waits(c, k, n)),
         <<k, n>> \in c.resent \/ \A i \in 1..Len(BusLine(c)) : BusLine(c)[i][1] = k => BusLine(c)[i][2] < n,
         Transmit(c, k, n)
  PROVE  BusHolds(log, conn') /\ log' = log
<1> DEFINE more == [c.unacked EXCEPT ![k] = c.unacked[k] \cup {n}]
           less == [c.unacked EXCEPT ![k] = c.unacked[k] \ {n}]
           w == Waits(c, k, n)
           d == Callback(w, k, n)
           e == Callback(c, k, n)
           q == [sub |-> k, msg |-> BusMsg(log, c, k, n)]
<1>1. c.unacked \in Seq(SUBSET Nat) /\ k \in Nat
  BY DEF BusConnection
<1>2. c.unacked[k] \cup {n} \in SUBSET Nat /\ c.unacked[k] \ {n} \in SUBSET Nat
  BY <1>1, ElementOfSeq
<1>3. /\ more \in Seq(SUBSET Nat) /\ DOMAIN more = DOMAIN c.unacked
      /\ more[k] = c.unacked[k] \cup {n} /\ \A j \in DOMAIN c.unacked : j # k => more[j] = c.unacked[j]
  BY <1>1, <1>2, Replaced
<1>4. /\ less \in Seq(SUBSET Nat) /\ DOMAIN less = DOMAIN c.unacked
      /\ less[k] = c.unacked[k] \ {n} /\ \A j \in DOMAIN c.unacked : j # k => less[j] = c.unacked[j]
  BY <1>1, <1>2, Replaced
<1> HIDE DEF more, less
<1>5. /\ w \in BusConnection /\ Alike(c, w) /\ w.unacked = more
      /\ w.channel = c.channel /\ w.dropped = c.dropped
  <2>1. w = [c EXCEPT !.unacked = more]
    BY DEF Waits, more
  <2> HIDE DEF w
  <2> QED
    BY <1>3, <2>1 DEF BusConnection, Alike
<1>6. BusHolds(log, w) /\ BusShape(log, w)
  BY DEF BusHolds
<1> HIDE DEF w
<1>7. BusHeard(w, k) = BusHeard(c, k) /\ BusMsg(log, w, k, n) = BusMsg(log, c, k, n) /\ BusLine(w) = BusLine(c)
  BY <1>5 DEF Alike, BusHeard, BusMsg, BusLine, SentPairs, QueuedPairs, BusSent
<1>8. BusMsg(log, c, k, n) \in Message
  BY <1>5, <1>6, <1>7, BusMsgIs DEF Alike
<1>9. BusHolds(log, d) /\ (<<k, n>> \in d.dropped \/ Has(BusLine(d), <<k, n>>))
  BY <1>5, <1>6, <1>7, CallbackHolds DEF Alike
<1>10. d \in BusConnection /\ Alike(c, d) /\ d.unacked = more
  <2>1. BusMsg(log, w, k, n) \in Message
    BY <1>7, <1>8
  <2>2. d \in BusConnection /\ Alike(w, d) /\ d.unacked = w.unacked
    BY <1>1, <1>5, <2>1, CallbackIs
  <2> HIDE DEF d
  <2> QED
    BY <1>5, <2>2 DEF Alike
<1>11. e \in BusConnection /\ Alike(c, e) /\ e.unacked = c.unacked
  BY <1>1, <1>8, CallbackIs
<1>12. d.channel = e.channel /\ d.dropped = e.dropped
  BY <1>5, <1>7 DEF Callback, BusConnection, Alike
<1>13. BusSent(d) = BusSent(e) /\ BusSent(d) = BusSent(c) /\ BusSent(w) = BusSent(c)
  BY <1>5, <1>10, <1>11 DEF BusSent, Alike
<1>14. BusShape(log, d)
  BY <1>9 DEF BusHolds
<1> HIDE DEF d, e
<1>15. /\ \A j \in c.subs : more[j] \subseteq BusHeard(c, j)
       /\ \A j \in c.todo : more[j] = {}
       /\ c.gone \subseteq c.subs /\ Len(c.channel) <= BusCap /\ Len(c.wire) <= 1 /\ Len(c.got) <= ClientCap
       /\ k \notin c.todo /\ c.subs \subseteq DOMAIN c.unacked /\ c.todo \subseteq DOMAIN c.unacked
  <2>1. \A j \in w.subs : w.unacked[j] \subseteq BusHeard(w, j)
    BY <1>6 DEF BusShape
  <2>2. \A j : BusHeard(w, j) = BusHeard(c, j)
    BY <1>5 DEF BusHeard, Alike
  <2>3. w.subs \subseteq DOMAIN w.unacked /\ w.todo \subseteq DOMAIN w.unacked /\ w.subs \cap w.todo = {}
    BY <1>6 DEF BusShape
  <2>4. /\ \A j \in w.todo : w.unacked[j] = {}
        /\ w.gone \subseteq w.subs /\ Len(w.channel) <= BusCap /\ Len(w.wire) <= 1 /\ Len(w.got) <= ClientCap
    BY <1>6 DEF BusShape
  <2>5. \A j \in c.subs : more[j] \subseteq BusHeard(c, j)
    BY <1>5, <2>1, <2>2 DEF Alike
  <2>6. k \notin c.todo /\ c.subs \subseteq DOMAIN c.unacked /\ c.todo \subseteq DOMAIN c.unacked
    BY <1>3, <1>5, <2>3 DEF Alike
  <2> QED
    BY <1>5, <2>4, <2>5, <2>6 DEF Alike
<1>16. Len(d.channel) <= BusCap
  BY <1>14 DEF BusShape
<1>17. \A j : BusHeard(w, j) = BusHeard(c, j) /\ BusHeard(d, j) = BusHeard(c, j)
  BY <1>5, <1>10 DEF BusHeard, Alike
<1>18. ASSUME NEW x \in BusConnection, Alike(c, x), x.channel = d.channel, x.dropped = d.dropped, x.unacked = less
       PROVE  BusHolds(log, x)
  <2>1. \A j \in c.subs : less[j] = (IF j = k THEN more[j] \ {n} ELSE more[j]) /\ less[j] \subseteq BusHeard(c, j)
    BY <1>3, <1>4, <1>15
  <2>2. \A j \in c.todo : less[j] = {}
    BY <1>3, <1>4, <1>15
  <2>3. BusSent(x) = BusSent(d)
    BY <1>10, <1>18 DEF BusSent, Alike
  <2>4. DOMAIN x.unacked = DOMAIN d.unacked
    BY <1>3, <1>4, <1>10, <1>18
  <2>5. /\ x.streams = d.streams /\ x.filter = d.filter /\ x.subs = d.subs /\ x.todo = d.todo
        /\ x.since = d.since /\ x.next = d.next /\ x.resent = d.resent
        /\ x.gone = d.gone /\ x.wire = d.wire /\ x.got = d.got
        /\ d.subs = c.subs /\ d.todo = c.todo /\ d.wire = c.wire /\ d.got = c.got /\ d.gone = c.gone
    BY <1>10, <1>18 DEF Alike
  <2>6. \A j \in d.subs : x.unacked[j] = IF j = k THEN d.unacked[j] \ {n} ELSE d.unacked[j]
    BY <1>10, <1>18, <2>1, <2>5
  <2>7. \A j \in d.subs : x.unacked[j] \subseteq BusHeard(d, j)
    BY <1>17, <1>18, <2>1, <2>5
  <2>8. \A j \in d.todo : x.unacked[j] = {}
    BY <1>18, <2>2, <2>5
  <2>9. d.gone \subseteq d.subs /\ Len(x.channel) <= BusCap /\ Len(x.wire) <= 1 /\ Len(x.got) <= ClientCap
    BY <1>15, <1>16, <1>18, <2>5
  <2>10. BusShape(log, x)
    BY <1>14, <2>4, <2>5, <2>7, <2>8, <2>9, SameShape
  <2>11. k \in d.subs /\ x.dropped = d.dropped /\ x.channel = d.channel
    BY <1>18, <2>5
  <2>12. BusHolds(log, d) /\ (<<k, n>> \in d.dropped \/ Has(BusLine(d), <<k, n>>))
    BY <1>9
  <2>13. /\ x.streams = d.streams /\ x.filter = d.filter /\ x.subs = d.subs
         /\ x.since = d.since /\ x.next = d.next /\ x.resent = d.resent
    BY <2>5
  <2> QED
    BY <2>3, <2>6, <2>10, <2>11, <2>12, <2>13, AckedHolds
<1>19. ASSUME NEW x \in BusConnection, Alike(c, x), x.unacked = more,
              \/ x.channel = d.channel /\ x.dropped = d.dropped
              \/ x.channel = w.channel /\ x.dropped = w.dropped
       PROVE  BusHolds(log, x)
  <2>1. BusSent(x) = BusSent(d) /\ BusSent(x) = BusSent(w)
    BY <1>5, <1>10, <1>19 DEF BusSent, Alike
  <2>2. CASE x.channel = d.channel /\ x.dropped = d.dropped
    <3>1. BusShape(log, x)
      BY <1>10, <1>14, <1>15, <1>16, <1>17, <1>19, <2>2, SameShape DEF Alike
    <3> QED
      BY <1>9, <1>10, <1>19, <2>1, <2>2, <3>1, QuietHolds DEF Alike
  <2>3. CASE x.channel = w.channel /\ x.dropped = w.dropped
    <3>1. BusShape(log, x)
      BY <1>5, <1>6, <1>15, <1>17, <1>19, <2>3, SameShape DEF Alike
    <3> QED
      BY <1>5, <1>6, <1>19, <2>1, <2>3, <3>1, QuietHolds DEF Alike
  <2> QED
    BY <1>19, <2>2, <2>3
<1> DEFINE f == e.faults + 1
           g == c.faults + 1
<1>20. f \in Nat /\ g \in Nat
  <2>1. e.faults \in Nat
    BY <1>11 DEF BusConnection
  <2>2. c.faults \in Nat
    BY DEF BusConnection
  <2> QED
    BY <2>1, <2>2
<1>21. \/ conn' = [e EXCEPT !.unacked = less]
       \/ conn' = [e EXCEPT !.unacked = more, !.faults = f]
       \/ conn' = [c EXCEPT !.unacked = more, !.faults = g]
  <2>1. \/ conn' = [e EXCEPT !.unacked[k] = @ \ {n}]
        \/ conn' = [e EXCEPT !.unacked[k] = @ \cup {n}, !.faults = @ + 1]
        \/ conn' = [c EXCEPT !.unacked[k] = @ \cup {n}, !.faults = @ + 1]
    BY DEF Transmit, e
  <2> QED
    BY <1>11, <2>1 DEF BusConnection, more, less
<1> HIDE DEF f, g
<1>22. CASE conn' = [e EXCEPT !.unacked = less]
  <2>1. /\ conn' \in BusConnection /\ Alike(e, conn') /\ conn'.unacked = less
        /\ conn'.channel = e.channel /\ conn'.dropped = e.dropped
    BY <1>4, <1>11, <1>22 DEF BusConnection, Alike
  <2>2. Alike(c, conn')
    BY <1>11, <2>1 DEF Alike
  <2> QED
    BY <1>12, <1>18, <2>1, <2>2 DEF Transmit
<1>23. CASE conn' = [e EXCEPT !.unacked = more, !.faults = f]
  <2>1. /\ conn' \in BusConnection /\ Alike(e, conn') /\ conn'.unacked = more
        /\ conn'.channel = e.channel /\ conn'.dropped = e.dropped
    BY <1>3, <1>11, <1>20, <1>23 DEF BusConnection, Alike
  <2>2. Alike(c, conn')
    BY <1>11, <2>1 DEF Alike
  <2> QED
    BY <1>12, <1>19, <2>1, <2>2 DEF Transmit
<1>24. CASE conn' = [c EXCEPT !.unacked = more, !.faults = g]
  <2>1. /\ conn' \in BusConnection /\ Alike(c, conn') /\ conn'.unacked = more
        /\ conn'.channel = c.channel /\ conn'.dropped = c.dropped
    BY <1>3, <1>20, <1>24 DEF BusConnection, Alike
  <2> QED
    BY <1>5, <1>19, <2>1 DEF Transmit
<1> QED
  BY <1>21, <1>22, <1>23, <1>24 DEF Transmit

-----------------------------------------------------------------------------
\* The streams grow.
LEMMA GrowHolds ==
  ASSUME NEW l \in BusLog, NEW m \in BusLog, LogNumbered(l), NEW c, BusHolds(l, c),
         \A s \in StreamNames : Len(l[s]) <= Len(m[s]) /\ \A n \in 1..Len(l[s]) : m[s][n] = l[s][n]
  PROVE  BusHolds(m, c)
<1>1. BusShape(l, c) /\ c \in BusConnection
  BY DEF BusHolds, BusShape
<1>2. ASSUME NEW k \in c.subs, NEW n \in BusHeard(c, k)
      PROVE  BusMsg(m, c, k, n) = BusMsg(l, c, k, n)
  <2>1. c.streams[k] \in StreamNames /\ n \in 1..Len(l[c.streams[k]])
    BY <1>1, BusMsgIs
  <2> QED
    BY <2>1 DEF BusMsg
<1>3. BusShape(m, c)
  <2>1. ASSUME NEW k \in c.subs PROVE c.next[k] <= Len(m[c.streams[k]])
    <3>1. c.streams[k] \in StreamNames /\ c.next[k] <= Len(l[c.streams[k]]) /\ k \in DOMAIN c.next
      BY <1>1 DEF BusShape
    <3>2. c.next[k] \in Nat
      BY <1>1, <3>1 DEF BusConnection
    <3>3. Len(l[c.streams[k]]) \in Nat /\ Len(m[c.streams[k]]) \in Nat
      <4>1. l[c.streams[k]] \in Seq(Message) /\ m[c.streams[k]] \in Seq(Message)
        BY <3>1 DEF BusLog
      <4> QED
        BY <4>1
    <3>4. Len(l[c.streams[k]]) <= Len(m[c.streams[k]])
      BY <3>1
    <3> QED
      BY <3>1, <3>2, <3>3, <3>4
  <2> QED
    BY <1>1, <2>1 DEF BusShape
<1>4. QueuedRight(m, c)
  <2> SUFFICES ASSUME NEW i \in 1..Len(c.channel) PROVE MessageRight(m, c, c.channel[i])
    BY DEF QueuedRight
  <2>1. MessageRight(l, c, c.channel[i])
    BY DEF BusHolds, QueuedRight
  <2> QED
    BY <1>2, <2>1 DEF MessageRight
<1>5. SentRight(m, c)
  <2> SUFFICES ASSUME NEW i \in 1..Len(BusSent(c)) PROVE EventRight(m, c, BusSent(c)[i])
    BY DEF SentRight
  <2>1. EventRight(l, c, BusSent(c)[i])
    BY DEF BusHolds, SentRight
  <2> QED
    BY <1>2, <2>1 DEF EventRight
<1>6. Arrived(m, c)
  <2> SUFFICES ASSUME NEW k \in c.subs, NEW n \in BusHeard(c, k) \ c.unacked[k],
                      BusPlain(BusMsg(l, c, k, n)), BusWanted(c, BusMsg(l, c, k, n))
               PROVE  <<k, n>> \in c.dropped \/ Has(BusLine(c), <<k, n>>)
    BY <1>2 DEF Arrived
  <2> QED
    BY DEF BusHolds, Arrived
<1> QED
  BY <1>3, <1>4, <1>5, <1>6 DEF BusHolds

\* A subscription begins behind everything published.
LEMMA NewHolds ==
  ASSUME NEW l, NEW c, NEW d, BusHolds(l, c), BusShape(l, d), NEW k, k \notin c.subs, NEW n \in Nat,
         d.streams = c.streams, d.filter = c.filter, d.subs = c.subs \cup {k},
         d.since[k] = n, d.next[k] = n,
         \A j \in c.subs : d.since[j] = c.since[j] /\ d.next[j] = c.next[j],
         d.unacked = c.unacked, d.dropped = c.dropped, d.resent = c.resent, d.channel = c.channel,
         BusSent(d) = BusSent(c)
  PROVE  BusHolds(l, d)
<1>1. BusLine(d) = BusLine(c)
  BY DEF BusLine, SentPairs, QueuedPairs
<1>2. \A j \in c.subs : BusHeard(d, j) = BusHeard(c, j)
  BY DEF BusHeard
<1>3. BusHeard(d, k) = {}
  BY DEF BusHeard
<1>4. \A j, m : BusMsg(l, d, j, m) = BusMsg(l, c, j, m)
  BY DEF BusMsg
<1>5. \A m : BusWanted(d, m) <=> BusWanted(c, m)
  BY DEF BusWanted
<1>6. QueuedRight(l, d)
  BY <1>2, <1>4 DEF BusHolds, QueuedRight, MessageRight
<1>7. SentRight(l, d)
  BY <1>2, <1>4, <1>5 DEF BusHolds, SentRight, EventRight
<1>8. Arrived(l, d)
  <2> SUFFICES ASSUME NEW j \in d.subs, NEW m \in BusHeard(d, j) \ c.unacked[j],
                      BusPlain(BusMsg(l, c, j, m)), BusWanted(c, BusMsg(l, c, j, m))
               PROVE  <<j, m>> \in c.dropped \/ Has(BusLine(c), <<j, m>>)
    BY <1>1, <1>4, <1>5 DEF Arrived
  <2>1. j \in c.subs /\ m \in BusHeard(c, j) \ c.unacked[j]
    BY <1>2, <1>3
  <2> QED
    BY <2>1 DEF BusHolds, Arrived
<1> QED
  BY <1>1, <1>6, <1>7, <1>8 DEF BusHolds

\* An element at the end of a sequence of three.
LEMMA AppendLast ==
  ASSUME NEW S, NEW a \in Seq(S), NEW b \in Seq(S), NEW e \in S
  PROVE  a \o Append(b, e) = Append(a \o b, e)
<1> DEFINE x == a \o Append(b, e)
           y == Append(a \o b, e)
           ab == a \o b
           be == Append(b, e)
<1>1. Len(a) \in Nat /\ Len(b) \in Nat
  OBVIOUS
<1>2. /\ ab \in Seq(S) /\ Len(ab) = Len(a) + Len(b)
      /\ \A i \in 1..Len(a) + Len(b) : ab[i] = IF i <= Len(a) THEN a[i] ELSE b[i - Len(a)]
  BY ConcatProperties
<1>3. /\ be \in Seq(S) /\ Len(be) = Len(b) + 1 /\ be[Len(b) + 1] = e
      /\ \A i \in 1..Len(b) : be[i] = b[i]
  BY AppendProperties
<1> HIDE DEF ab, be
<1>4. /\ a \o be \in Seq(S) /\ Len(a \o be) = Len(a) + Len(be)
      /\ \A i \in 1..Len(a) + Len(be) : (a \o be)[i] = IF i <= Len(a) THEN a[i] ELSE be[i - Len(a)]
  BY <1>3, ConcatProperties
<1>5. /\ Append(ab, e) \in Seq(S) /\ Len(Append(ab, e)) = Len(ab) + 1 /\ Append(ab, e)[Len(ab) + 1] = e
      /\ \A i \in 1..Len(ab) : Append(ab, e)[i] = ab[i]
  <2>1. ab \in Seq(S)
    BY <1>2
  <2> QED
    BY <2>1, AppendProperties
<1>6. x = a \o be /\ y = Append(ab, e)
  BY DEF ab, be
<1> HIDE DEF x, y
<1>7. Len(x) = Len(a) + Len(b) + 1 /\ Len(y) = Len(a) + Len(b) + 1 /\ x \in Seq(S) /\ y \in Seq(S)
  BY <1>1, <1>2, <1>3, <1>4, <1>5, <1>6
<1>8. ASSUME NEW i \in 1..Len(x) PROVE x[i] = y[i]
  <2>1. i \in 1..Len(a) + Len(be) /\ i \in 1..Len(ab) + 1 /\ i \in Int /\ 1 <= i
    BY <1>1, <1>2, <1>3, <1>7
  <2>2. CASE i <= Len(a)
    <3>1. i \in 1..Len(ab) /\ i \in 1..Len(a) + Len(b)
      BY <1>1, <1>2, <2>1, <2>2
    <3>2. x[i] = a[i]
      BY <1>4, <1>6, <2>1, <2>2
    <3>3. y[i] = a[i]
      BY <1>2, <1>5, <1>6, <2>2, <3>1
    <3> QED
      BY <3>2, <3>3
  <2>3. CASE ~(i <= Len(a)) /\ i <= Len(a) + Len(b)
    <3>1. i \in 1..Len(ab) /\ i \in 1..Len(a) + Len(b) /\ i - Len(a) \in 1..Len(b)
      BY <1>1, <1>2, <2>1, <2>3
    <3>2. x[i] = b[i - Len(a)]
      BY <1>3, <1>4, <1>6, <2>1, <2>3, <3>1
    <3>3. y[i] = b[i - Len(a)]
      BY <1>2, <1>5, <1>6, <2>3, <3>1
    <3> QED
      BY <3>2, <3>3
  <2>4. CASE i = Len(a) + Len(b) + 1
    <3>1. i = Len(ab) + 1 /\ i - Len(a) = Len(b) + 1 /\ ~(i <= Len(a))
      BY <1>1, <1>2, <2>4
    <3>2. x[i] = e
      BY <1>3, <1>4, <1>6, <2>1, <3>1
    <3>3. y[i] = e
      BY <1>5, <1>6, <3>1
    <3> QED
      BY <3>2, <3>3
  <2> QED
    <3>1. i <= Len(a) \/ (~(i <= Len(a)) /\ i <= Len(a) + Len(b)) \/ i = Len(a) + Len(b) + 1
      BY <1>1, <1>7
    <3> QED
      BY <2>2, <2>3, <2>4, <3>1
<1>9. x = y
  BY <1>7, <1>8, SeqEqual
<1> QED
  BY <1>9 DEF x, y

\* The handler writes the first message of its channel.
LEMMA WriteHolds ==
  ASSUME NEW l, NEW c, NEW d, NEW e \in BusEvent, BusHolds(l, c), BusShape(l, d), c.channel # <<>>,
         d.streams = c.streams, d.filter = c.filter, d.subs = c.subs, d.since = c.since, d.next = c.next,
         d.unacked = c.unacked, d.dropped = c.dropped, d.resent = c.resent, d.channel = Tail(c.channel),
         BusSent(d) = Append(BusSent(c), e), e.sub = c.channel[1].sub, e.seq = c.channel[1].msg.seq,
         EventRight(l, c, e)
  PROVE  BusHolds(l, d)
<1> DEFINE s == Len(BusSent(c))
           t == Len(c.channel)
           a == SentPairs(c)
           b == QueuedPairs(c)
<1>0. c \in BusConnection /\ d \in BusConnection
  BY DEF BusHolds, BusShape
<1>1. /\ s \in Nat /\ t \in Nat /\ BusSent(c) \in Seq(BusEvent)
      /\ a \in Seq(Nat \X Nat) /\ b \in Seq(Nat \X Nat) /\ Len(a) = s /\ Len(b) = t
      /\ \A i \in 1..s : a[i] = <<BusSent(c)[i].sub, BusSent(c)[i].seq>>
      /\ \A i \in 1..t : b[i] = <<c.channel[i].sub, c.channel[i].msg.seq>>
  BY <1>0, LineIs
<1>2. c.channel \in Seq(Queued) /\ t >= 1
  BY <1>0 DEF BusConnection
<1>3. /\ SentPairs(d) \in Seq(Nat \X Nat) /\ Len(SentPairs(d)) = Len(BusSent(d))
      /\ \A i \in 1..Len(BusSent(d)) : SentPairs(d)[i] = <<BusSent(d)[i].sub, BusSent(d)[i].seq>>
  BY <1>0, LineIs
<1>4. /\ QueuedPairs(d) \in Seq(Nat \X Nat) /\ Len(QueuedPairs(d)) = Len(d.channel)
      /\ \A i \in 1..Len(d.channel) : QueuedPairs(d)[i] = <<d.channel[i].sub, d.channel[i].msg.seq>>
  BY <1>0, LineIs
<1>5. /\ Len(BusSent(d)) = s + 1 /\ BusSent(d)[s + 1] = e
      /\ \A i \in 1..s : BusSent(d)[i] = BusSent(c)[i]
  BY <1>1, AppendProperties
<1>6. Len(d.channel) = t - 1 /\ \A i \in 1..t - 1 : d.channel[i] = c.channel[i + 1]
  BY <1>2
<1>7. b # <<>> /\ Head(b) = b[1] /\ b[1] = <<e.sub, e.seq>>
  BY <1>1, <1>2
<1>8. Head(b) \in Nat \X Nat /\ Tail(b) \in Seq(Nat \X Nat) /\ Len(Tail(b)) = t - 1
      /\ \A i \in 1..t - 1 : Tail(b)[i] = b[i + 1]
  BY <1>1, <1>2
<1>9. /\ Append(a, Head(b)) \in Seq(Nat \X Nat) /\ Len(Append(a, Head(b))) = s + 1
      /\ Append(a, Head(b))[s + 1] = Head(b) /\ \A i \in 1..s : Append(a, Head(b))[i] = a[i]
  BY <1>1, <1>8, AppendProperties
<1> HIDE DEF s, t, a, b
<1>10. SentPairs(d) = Append(a, Head(b))
  <2>1. ASSUME NEW i \in 1..s + 1 PROVE SentPairs(d)[i] = Append(a, Head(b))[i]
    <3>1. CASE i \in 1..s
      <4>1. SentPairs(d)[i] = <<BusSent(d)[i].sub, BusSent(d)[i].seq>>
        BY <1>3, <1>5
      <4> QED
        BY <1>1, <1>5, <1>9, <3>1, <4>1
    <3>2. CASE i = s + 1
      <4>1. SentPairs(d)[i] = <<BusSent(d)[i].sub, BusSent(d)[i].seq>>
        BY <1>3, <1>5
      <4> QED
        BY <1>5, <1>7, <1>9, <3>2, <4>1
    <3> QED
      BY <1>1, <3>1, <3>2
  <2>2. SentPairs(d) \in Seq(Nat \X Nat) /\ Append(a, Head(b)) \in Seq(Nat \X Nat)
    BY <1>3, <1>9
  <2>3. Len(SentPairs(d)) = s + 1 /\ Len(Append(a, Head(b))) = s + 1
    BY <1>3, <1>5, <1>9
  <2> QED
    BY <2>1, <2>2, <2>3, SeqEqual
<1>11. QueuedPairs(d) = Tail(b)
  <2>1. ASSUME NEW i \in 1..t - 1 PROVE QueuedPairs(d)[i] = Tail(b)[i]
    <3>1. QueuedPairs(d)[i] = <<d.channel[i].sub, d.channel[i].msg.seq>> /\ d.channel[i] = c.channel[i + 1]
      BY <1>4, <1>6
    <3>2. i + 1 \in 1..t
      BY <1>1
    <3>3. b[i + 1] = <<c.channel[i + 1].sub, c.channel[i + 1].msg.seq>>
      BY <1>1, <3>2
    <3> QED
      BY <1>8, <3>1, <3>3
  <2>2. QueuedPairs(d) \in Seq(Nat \X Nat) /\ Tail(b) \in Seq(Nat \X Nat)
    BY <1>4, <1>8
  <2>3. Len(QueuedPairs(d)) = t - 1 /\ Len(Tail(b)) = t - 1
    BY <1>4, <1>6, <1>8
  <2> DEFINE q == QueuedPairs(d)
             r == Tail(b)
  <2>4. /\ q \in Seq(Nat \X Nat) /\ r \in Seq(Nat \X Nat) /\ Len(q) = Len(r)
        /\ \A i \in 1..Len(q) : q[i] = r[i]
    BY <2>1, <2>2, <2>3
  <2> HIDE DEF q, r
  <2>5. q = r
    BY <2>4, SeqEqual
  <2> QED
    BY <2>5 DEF q, r
<1>12. BusLine(d) = BusLine(c)
  <2>1. Append(a, Head(b)) \o Tail(b) = a \o b
    BY <1>1, <1>7, MoveOn
  <2> QED
    BY <1>10, <1>11, <2>1 DEF BusLine, a, b
<1>13. \A k, n : BusHeard(d, k) = BusHeard(c, k) /\ BusMsg(l, d, k, n) = BusMsg(l, c, k, n)
  BY DEF BusHeard, BusMsg
<1>14. \A m : BusWanted(d, m) <=> BusWanted(c, m)
  BY DEF BusWanted
<1>15. QueuedRight(l, d)
  <2> SUFFICES ASSUME NEW i \in 1..Len(d.channel) PROVE MessageRight(l, d, d.channel[i])
    BY DEF QueuedRight
  <2>1. i + 1 \in 1..Len(c.channel) /\ d.channel[i] = c.channel[i + 1]
    BY <1>1, <1>6 DEF t
  <2>2. MessageRight(l, c, c.channel[i + 1])
    BY <2>1 DEF BusHolds, QueuedRight
  <2> QED
    BY <1>13, <2>1, <2>2 DEF MessageRight
<1>16. SentRight(l, d)
  <2> SUFFICES ASSUME NEW i \in 1..s + 1 PROVE EventRight(l, d, BusSent(d)[i])
    BY <1>5 DEF SentRight
  <2>1. EventRight(l, c, BusSent(d)[i])
    <3>1. CASE i \in 1..s
      BY <1>5, <3>1 DEF BusHolds, SentRight, s
    <3>2. CASE i \notin 1..s
      <4>1. i = s + 1
        BY <1>1, <3>2
      <4> QED
        BY <1>5, <4>1
    <3> QED
      BY <3>1, <3>2
  <2> QED
    BY <1>13, <1>14, <2>1 DEF EventRight
<1>17. Arrived(l, d)
  BY <1>12, <1>13, <1>14 DEF BusHolds, Arrived
<1> QED
  BY <1>12, <1>15, <1>16, <1>17 DEF BusHolds

\* The handler leaves the first message of its channel out.
LEMMA SkipHolds ==
  ASSUME NEW l \in BusLog, LogNumbered(l), NEW c, NEW d, BusHolds(l, c), BusShape(l, d), c.channel # <<>>,
         d.streams = c.streams, d.filter = c.filter, d.subs = c.subs, d.since = c.since, d.next = c.next,
         d.unacked = c.unacked, d.dropped = c.dropped, d.resent = c.resent, d.channel = Tail(c.channel),
         BusSent(d) = BusSent(c), ~(BusPlain(c.channel[1].msg) /\ BusWanted(c, c.channel[1].msg))
  PROVE  BusHolds(l, d)
<1> DEFINE s == Len(BusSent(c))
           t == Len(c.channel)
           x == BusLine(c)
           y == BusLine(d)
           m == c.channel[1]
<1>0. c \in BusConnection /\ d \in BusConnection /\ BusShape(l, c)
  BY DEF BusHolds, BusShape
<1>1. /\ s \in Nat /\ t \in Nat /\ Len(x) = s + t
      /\ \A i \in 1..s : SentPairs(c)[i] = <<BusSent(c)[i].sub, BusSent(c)[i].seq>>
      /\ \A i \in 1..t : QueuedPairs(c)[i] = <<c.channel[i].sub, c.channel[i].msg.seq>>
      /\ \A i \in 1..s + t : x[i] = IF i <= s THEN SentPairs(c)[i] ELSE QueuedPairs(c)[i - s]
  BY <1>0, LineIs
<1>2. c.channel \in Seq(Queued) /\ t >= 1
  BY <1>0 DEF BusConnection
<1>3. Len(d.channel) = t - 1 /\ \A i \in 1..t - 1 : d.channel[i] = c.channel[i + 1]
  BY <1>2
<1>4. /\ Len(y) = Len(BusSent(d)) + Len(d.channel)
      /\ \A i \in 1..Len(d.channel) : QueuedPairs(d)[i] = <<d.channel[i].sub, d.channel[i].msg.seq>>
      /\ \A i \in 1..Len(BusSent(d)) + Len(d.channel) :
           y[i] = IF i <= Len(BusSent(d)) THEN SentPairs(d)[i] ELSE QueuedPairs(d)[i - Len(BusSent(d))]
  BY <1>0, LineIs
<1>5. SentPairs(d) = SentPairs(c)
  BY DEF SentPairs
<1>6. /\ Len(y) = s + (t - 1)
      /\ \A i \in 1..t - 1 : QueuedPairs(d)[i] = <<d.channel[i].sub, d.channel[i].msg.seq>>
      /\ \A i \in 1..s + (t - 1) : y[i] = IF i <= s THEN SentPairs(c)[i] ELSE QueuedPairs(d)[i - s]
  BY <1>3, <1>4, <1>5
<1> HIDE DEF s, t, x, y
<1>7. \A i \in 1..t - 1 : QueuedPairs(d)[i] = QueuedPairs(c)[i + 1]
  <2> SUFFICES ASSUME NEW i \in 1..t - 1 PROVE QueuedPairs(d)[i] = QueuedPairs(c)[i + 1]
    OBVIOUS
  <2>1. i + 1 \in 1..t
    BY <1>1
  <2>2. QueuedPairs(c)[i + 1] = <<c.channel[i + 1].sub, c.channel[i + 1].msg.seq>>
    BY <1>1, <2>1
  <2>3. QueuedPairs(d)[i] = <<d.channel[i].sub, d.channel[i].msg.seq>>
    BY <1>6
  <2> QED
    BY <1>3, <2>2, <2>3
<1>8. \A i \in 1..s : i \in 1..s + (t - 1) => y[i] = x[i]
  BY <1>1, <1>6
<1>9. \A i \in s + 1..s + (t - 1) : y[i] = x[i + 1]
  <2> SUFFICES ASSUME NEW i \in s + 1..s + (t - 1) PROVE y[i] = x[i + 1]
    OBVIOUS
  <2>1. /\ i \in 1..s + (t - 1) /\ ~(i <= s) /\ i - s \in 1..t - 1
        /\ i + 1 \in 1..s + t /\ ~(i + 1 <= s) /\ (i + 1) - s = (i - s) + 1
    BY <1>1
  <2>2. y[i] = QueuedPairs(d)[i - s]
    BY <1>6, <2>1
  <2>3. x[i + 1] = QueuedPairs(c)[(i - s) + 1]
    BY <1>1, <2>1
  <2> QED
    BY <1>7, <2>1, <2>2, <2>3
<1>10. x[s + 1] = <<m.sub, m.msg.seq>>
  <2>1. s + 1 \in 1..s + t /\ ~(s + 1 <= s) /\ (s + 1) - s = 1 /\ 1 \in 1..t
    BY <1>1, <1>2
  <2> QED
    BY <1>1, <2>1
<1>11. \A k, n : BusHeard(d, k) = BusHeard(c, k) /\ BusMsg(l, d, k, n) = BusMsg(l, c, k, n)
  BY DEF BusHeard, BusMsg
<1>12. \A z : BusWanted(d, z) <=> BusWanted(c, z)
  BY DEF BusWanted
<1>13. QueuedRight(l, d)
  <2> SUFFICES ASSUME NEW i \in 1..Len(d.channel) PROVE MessageRight(l, d, d.channel[i])
    BY DEF QueuedRight
  <2>1. i + 1 \in 1..Len(c.channel) /\ d.channel[i] = c.channel[i + 1]
    BY <1>1, <1>3 DEF t
  <2>2. MessageRight(l, c, c.channel[i + 1])
    BY <2>1 DEF BusHolds, QueuedRight
  <2> QED
    BY <1>11, <2>1, <2>2 DEF MessageRight
<1>14. SentRight(l, d)
  BY <1>11, <1>12 DEF BusHolds, SentRight, EventRight
<1>15. ASSUME NEW i \in 1..Len(y)
       PROVE  \E u \in 1..Len(x) : /\ y[i] = x[u]
                                   /\ i <= s => u = i
                                   /\ ~(i <= s) => u = i + 1
  <2>1. CASE i <= s
    <3>1. i \in 1..s /\ i \in 1..s + (t - 1) /\ i \in 1..Len(x)
      BY <1>1, <1>2, <1>6, <2>1
    <3>2. y[i] = x[i]
      BY <1>8, <3>1
    <3> QED
      BY <2>1, <3>1, <3>2
  <2>2. CASE ~(i <= s)
    <3>1. i \in s + 1..s + (t - 1) /\ i + 1 \in 1..Len(x)
      BY <1>1, <1>2, <1>6, <2>2
    <3>2. y[i] = x[i + 1]
      BY <1>9, <3>1
    <3> QED
      BY <2>2, <3>1, <3>2
  <2> QED
    BY <2>1, <2>2
<1>16. Ascends(y, d.resent)
  <2> SUFFICES ASSUME NEW i \in 1..Len(y), NEW j \in 1..Len(y),
                      i < j, y[i][1] = y[j][1], {y[i], y[j]} \cap c.resent = {}
               PROVE  y[i][2] < y[j][2]
    BY DEF Ascends
  <2>1. Ascends(x, c.resent)
    BY DEF BusHolds, x
  <2>2. PICK u \in 1..Len(x) : y[i] = x[u] /\ (i <= s => u = i) /\ (~(i <= s) => u = i + 1)
    BY <1>15
  <2>3. PICK v \in 1..Len(x) : y[j] = x[v] /\ (j <= s => v = j) /\ (~(j <= s) => v = j + 1)
    BY <1>15
  <2>4. u < v
    BY <1>1, <1>6, <2>2, <2>3
  <2>5. x[u][1] = x[v][1] /\ {x[u], x[v]} \cap c.resent = {}
    BY <2>2, <2>3
  <2>6. x[u][2] < x[v][2]
    BY <2>1, <2>4, <2>5 DEF Ascends
  <2> QED
    BY <2>2, <2>3, <2>6
<1>17. Arrived(l, d)
  <2> SUFFICES ASSUME NEW k \in c.subs, NEW n \in BusHeard(c, k) \ c.unacked[k],
                      BusPlain(BusMsg(l, c, k, n)), BusWanted(c, BusMsg(l, c, k, n))
               PROVE  <<k, n>> \in c.dropped \/ Has(y, <<k, n>>)
    BY <1>11, <1>12 DEF Arrived, y
  <2>1. <<k, n>> \in c.dropped \/ Has(x, <<k, n>>)
    BY DEF BusHolds, Arrived, x
  <2>2. ASSUME NEW u \in 1..Len(x), x[u] = <<k, n>> PROVE Has(y, <<k, n>>)
    <3>1. CASE u <= s
      <4>1. u \in 1..s /\ u \in 1..s + (t - 1)
        BY <1>1, <1>2, <3>1
      <4>2. y[u] = <<k, n>> /\ u \in 1..Len(y)
        BY <1>6, <1>8, <2>2, <4>1
      <4> QED
        BY <4>2 DEF Has
    <3>2. CASE u = s + 1
      <4>1. k = m.sub /\ n = m.msg.seq
        BY <1>10, <2>2, <3>2
      <4>2. MessageRight(l, c, m)
        BY <1>1, <1>2 DEF BusHolds, QueuedRight, t
      <4>3. PICK p \in BusHeard(c, k) : m.msg = BusMsg(l, c, k, p)
        BY <4>1, <4>2 DEF MessageRight
      <4>4. p = n
        BY <1>0, <4>1, <4>3, BusMsgIs
      <4> QED
        BY <4>3, <4>4
    <3>3. CASE u > s + 1
      <4>1. u - 1 \in s + 1..s + (t - 1) /\ u - 1 \in 1..Len(y) /\ (u - 1) + 1 = u
        BY <1>1, <1>6, <3>3
      <4>2. y[u - 1] = <<k, n>>
        BY <1>9, <2>2, <4>1
      <4> QED
        BY <4>1, <4>2 DEF Has
    <3> QED
      BY <1>1, <3>1, <3>2, <3>3
  <2> QED
    BY <2>1, <2>2 DEF Has
<1> QED
  BY <1>13, <1>14, <1>16, <1>17 DEF BusHolds, y

-----------------------------------------------------------------------------
LEMMA UnconnectedHolds == ASSUME NEW l \in BusLog PROVE BusHolds(l, Unconnected)
<1>1. Unconnected \in BusConnection
  BY DEF Unconnected, BusConnection, Filters
<1>2. BusShape(l, Unconnected)
  BY <1>1, BusAssumption DEF BusShape, Unconnected
<1> QED
  BY <1>2, FreshHolds DEF Unconnected

LEMMA BusInitIInv == BusInit => BusIInv
<1> SUFFICES ASSUME BusInit PROVE BusIInv
  OBVIOUS
<1>1. log \in BusLog /\ LogNumbered(log)
  BY DEF BusInit, BusLog, LogNumbered
<1> QED
  BY <1>1, UnconnectedHolds DEF BusInit, BusIInv

LEMMA PublishStep ==
  ASSUME BusIInv, NEW type \in BusType, NEW actor \in BusActor \cup {NoActor}, PublishToJetStream(type, actor)
  PROVE  BusIInv'
<1> DEFINE subject == SubjectOf(type, actor)
           s == StreamForSubject(subject)
           n == Len(log[s])
           msg == [subject |-> subject, seq |-> n + 1, type |-> type]
<1>1. /\ subject \in Seq(Segment) \ {<<>>} /\ s \in StreamNames
      /\ Len(type) = 1 => EventTypeFromSubject(subject) = type[1]
  BY SubjectMeans
<1>2. subject[1] = s
  BY DEF StreamForSubject
<1>3. log \in BusLog /\ log[s] \in Seq(Message) /\ n \in Nat
  BY <1>1 DEF BusIInv, BusLog
<1>4. log' = [log EXCEPT ![s] = Append(log[s], msg)] /\ conn' = conn
  BY DEF PublishToJetStream
<1> HIDE DEF s, subject, n
<1>5. msg \in Message
  BY <1>1, <1>3 DEF Message
<1>6. msg.seq = n + 1 /\ msg.subject[1] = s
  BY <1>2
<1> HIDE DEF msg
<1>7. /\ Append(log[s], msg) \in Seq(Message) /\ Len(Append(log[s], msg)) = n + 1
      /\ Append(log[s], msg)[n + 1] = msg /\ \A i \in 1..n : Append(log[s], msg)[i] = log[s][i]
  BY <1>3, <1>5, AppendProperties DEF n
<1>8. log' \in BusLog
  BY <1>1, <1>3, <1>4, <1>7 DEF BusLog
<1>9. /\ log'[s] = Append(log[s], msg)
      /\ \A r \in StreamNames : r # s => log'[r] = log[r]
  BY <1>1, <1>3, <1>4 DEF BusLog
<1>10. LogNumbered(log')
  <2> SUFFICES ASSUME NEW r \in StreamNames, NEW i \in 1..Len(log'[r])
               PROVE  log'[r][i].seq = i /\ log'[r][i].subject[1] = r
    BY DEF LogNumbered
  <2>1. CASE r # s
    BY <1>9, <2>1 DEF BusIInv, LogNumbered
  <2>2. CASE r = s /\ i \in 1..n
    <3>1. log'[r][i] = log[s][i]
      BY <1>7, <1>9, <2>2
    <3> QED
      BY <1>1, <2>2, <3>1 DEF BusIInv, LogNumbered, n
  <2>3. CASE r = s /\ i \notin 1..n
    <3>1. i = n + 1
      BY <1>3, <1>7, <1>9, <2>3
    <3> QED
      BY <1>6, <1>7, <1>9, <2>3, <3>1
  <2> QED
    BY <2>1, <2>2, <2>3
<1>11. ASSUME NEW r \in StreamNames
       PROVE  Len(log[r]) <= Len(log'[r]) /\ \A i \in 1..Len(log[r]) : log'[r][i] = log[r][i]
  <2>1. CASE r # s
    <3>1. log'[r] = log[r] /\ log[r] \in Seq(Message)
      BY <1>3, <1>9, <2>1 DEF BusLog
    <3>2. Len(log[r]) \in Nat
      BY <3>1
    <3> QED
      BY <3>1, <3>2
  <2>2. CASE r = s
    BY <1>3, <1>7, <1>9, <2>2 DEF n
  <2> QED
    BY <2>1, <2>2
<1>12. BusHolds(log', conn)
  BY <1>3, <1>8, <1>11, GrowHolds DEF BusIInv
<1> QED
  BY <1>4, <1>8, <1>10, <1>12 DEF BusIInv

LEMMA WiderSeq == ASSUME NEW S, NEW T, S \subseteq T, NEW s \in Seq(S) PROVE s \in Seq(T)
OBVIOUS

LEMMA ConnectStep ==
  ASSUME BusIInv, NEW ask \in Asks, ConnectBusSSE(ask)
  PROVE  BusIInv'
<1> DEFINE streams == IF ask.streams = <<>> THEN AllStreams ELSE ask.streams
           valid == {k \in DOMAIN streams : streams[k] \in StreamNames}
           zeros == [k \in DOMAIN streams |-> 0]
           none == [k \in DOMAIN streams |-> {}]
<1>1. streams \in Seq(Text)
  <2>1. AllStreams \in Seq(StreamNames) /\ ask.streams \in Seq(STRING)
    BY StreamNamesAre, BusAssumption
  <2>2. AllStreams \in Seq(Text)
    <3>1. StreamNames \subseteq Text
      BY DEF Text
    <3> QED
      BY <2>1, <3>1, WiderSeq
  <2>3. ask.streams \in Seq(Text)
    <3>1. STRING \subseteq Text
      BY DEF Text
    <3> QED
      BY <2>1, <3>1, WiderSeq
  <2> QED
    BY <2>2, <2>3
<1>2. conn' = [Unconnected EXCEPT
                 !.at = "subscribe", !.filter = ask.filter, !.streams = streams, !.todo = valid,
                 !.since = zeros, !.next = zeros, !.unacked = none]
      /\ log' = log
  BY DEF ConnectBusSSE
<1> HIDE DEF streams
<1>3. DOMAIN streams = 1..Len(streams) /\ Len(streams) \in Nat
  BY <1>1
<1>4. zeros \in Seq(Nat) /\ none \in Seq(SUBSET Nat)
  BY <1>3
<1>5. DOMAIN zeros = DOMAIN streams /\ DOMAIN none = DOMAIN streams /\ \A k \in DOMAIN streams : none[k] = {}
  OBVIOUS
<1>6. valid \subseteq DOMAIN streams /\ valid \in SUBSET Nat
  BY <1>3
<1>7. ask.filter \in Filters
  BY DEF Filters
<1>8. valid = {k \in DOMAIN streams : streams[k] \in StreamNames}
  OBVIOUS
<1> HIDE DEF valid, zeros, none
<1>9. /\ conn' \in BusConnection /\ conn'.streams = streams /\ conn'.todo = valid /\ conn'.subs = {}
      /\ conn'.since = zeros /\ conn'.next = zeros /\ conn'.unacked = none /\ conn'.gone = {}
      /\ conn'.channel = <<>> /\ conn'.wire = <<>> /\ conn'.got = <<>> /\ conn'.read = <<>>
  <2>1. conn' = [at |-> "subscribe", filter |-> ask.filter, streams |-> streams, todo |-> valid, subs |-> {},
                 since |-> zeros, next |-> zeros, unacked |-> none, gone |-> {}, faults |-> 0,
                 channel |-> <<>>, dropped |-> {}, resent |-> {}, wire |-> <<>>, got |-> <<>>, read |-> <<>>]
    BY <1>2 DEF Unconnected
  <2>2. conn' \in BusConnection
    BY <1>1, <1>4, <1>6, <1>7, <2>1 DEF BusConnection
  <2> QED
    BY <2>1, <2>2
<1>10. log \in BusLog /\ LogNumbered(log)
  BY DEF BusIInv
<1>11. BusShape(log, conn')
  BY <1>5, <1>6, <1>8, <1>9, BusAssumption DEF BusShape
<1>12. BusHolds(log, conn')
  BY <1>9, <1>10, <1>11, FreshHolds
<1> QED
  BY <1>2, <1>10, <1>12 DEF BusIInv

LEMMA SubscribeStep ==
  ASSUME BusIInv, NEW k \in conn.todo, SubscribeStream(k)
  PROVE  BusIInv'
<1> DEFINE last == Len(log[conn.streams[k]])
           todo == conn.todo \ {k}
           subs == conn.subs \cup {k}
           since == [conn.since EXCEPT ![k] = last]
           next == [conn.next EXCEPT ![k] = last]
<1>1. /\ log' = log /\ log \in BusLog /\ LogNumbered(log) /\ BusHolds(log, conn) /\ BusShape(log, conn)
      /\ conn \in BusConnection
  BY DEF SubscribeStream, BusIInv, BusHolds, BusShape
<1>2. /\ k \notin conn.subs /\ conn.streams[k] \in StreamNames /\ k \in DOMAIN conn.since /\ k \in DOMAIN conn.next
      /\ conn.subs \subseteq DOMAIN conn.since /\ conn.subs \subseteq DOMAIN conn.next
      /\ DOMAIN conn.since = DOMAIN conn.streams /\ DOMAIN conn.next = DOMAIN conn.streams
      /\ conn.unacked[k] = {}
  BY <1>1 DEF BusShape
<1>3. log[conn.streams[k]] \in Seq(Message)
  BY <1>1, <1>2 DEF BusLog
<1>4. last \in Nat /\ todo \in SUBSET Nat /\ subs \in SUBSET Nat /\ k \in Nat
  BY <1>1, <1>3 DEF BusConnection
<1>5. conn.since \in Seq(Nat) /\ conn.next \in Seq(Nat)
  BY <1>1 DEF BusConnection
<1> HIDE DEF last
<1>6. /\ since \in Seq(Nat) /\ DOMAIN since = DOMAIN conn.since /\ since[k] = last
      /\ \A j \in DOMAIN conn.since : j # k => since[j] = conn.since[j]
  BY <1>2, <1>4, <1>5, Replaced
<1>7. /\ next \in Seq(Nat) /\ DOMAIN next = DOMAIN conn.next /\ next[k] = last
      /\ \A j \in DOMAIN conn.next : j # k => next[j] = conn.next[j]
  BY <1>2, <1>4, <1>5, Replaced
<1>8. \/ conn' = [conn EXCEPT !.todo = todo, !.subs = subs, !.since = since, !.next = next]
      \/ conn' = [conn EXCEPT !.todo = todo]
  BY <1>1 DEF SubscribeStream, BusConnection, last
<1> HIDE DEF todo, subs, since, next
<1>9. CASE conn' = [conn EXCEPT !.todo = todo, !.subs = subs, !.since = since, !.next = next]
  <2>1. /\ conn' \in BusConnection /\ conn'.streams = conn.streams /\ conn'.filter = conn.filter
        /\ conn'.todo = todo /\ conn'.subs = subs /\ conn'.since = since /\ conn'.next = next
        /\ conn'.unacked = conn.unacked /\ conn'.gone = conn.gone /\ conn'.dropped = conn.dropped
        /\ conn'.resent = conn.resent /\ conn'.channel = conn.channel /\ conn'.wire = conn.wire
        /\ conn'.got = conn.got /\ conn'.read = conn.read
    BY <1>1, <1>4, <1>6, <1>7, <1>9 DEF BusConnection
  <2>2. \A j \in conn.subs : since[j] = conn.since[j] /\ next[j] = conn.next[j]
    BY <1>2, <1>6, <1>7
  <2>3. ASSUME NEW j \in conn'.subs
        PROVE  /\ conn'.since[j] <= conn'.next[j] /\ conn'.next[j] <= Len(log[conn'.streams[j]])
               /\ conn'.unacked[j] \subseteq BusHeard(conn', j)
    <3>1. CASE j \in conn.subs
      <4>1. BusHeard(conn', j) = BusHeard(conn, j) /\ conn'.since[j] = conn.since[j] /\ conn'.next[j] = conn.next[j]
        BY <2>1, <2>2, <3>1 DEF BusHeard
      <4> QED
        BY <1>1, <2>1, <3>1, <4>1 DEF BusShape
    <3>2. CASE j = k
      BY <1>2, <1>4, <1>6, <1>7, <2>1, <3>2 DEF last
    <3> QED
      BY <2>1, <3>1, <3>2 DEF subs
  <2>4. /\ subs \cup todo \subseteq {j \in DOMAIN conn.streams : conn.streams[j] \in StreamNames}
        /\ subs \cap todo = {} /\ conn.gone \subseteq subs /\ \A j \in todo : conn.unacked[j] = {}
        /\ DOMAIN conn.unacked = DOMAIN conn.streams
        /\ Len(conn.channel) <= BusCap /\ Len(conn.wire) <= 1 /\ Len(conn.got) <= ClientCap
    BY <1>1, <1>2 DEF BusShape, subs, todo
  <2>5. BusShape(log, conn')
    BY <1>2, <1>6, <1>7, <2>1, <2>3, <2>4 DEF BusShape
  <2>6. BusSent(conn') = BusSent(conn)
    BY <2>1 DEF BusSent
  <2>7. conn'.since[k] = last /\ conn'.next[k] = last /\ conn'.subs = conn.subs \cup {k}
        /\ \A j \in conn.subs : conn'.since[j] = conn.since[j] /\ conn'.next[j] = conn.next[j]
    BY <1>6, <1>7, <2>1, <2>2 DEF subs
  <2>8. BusHolds(log, conn')
    BY <1>1, <1>2, <1>4, <2>1, <2>5, <2>6, <2>7, NewHolds
  <2> QED
    BY <1>1, <2>8 DEF BusIInv
<1>10. CASE conn' = [conn EXCEPT !.todo = todo]
  <2>1. /\ conn' \in BusConnection /\ conn'.streams = conn.streams /\ conn'.filter = conn.filter
        /\ conn'.todo = todo /\ conn'.subs = conn.subs /\ conn'.since = conn.since /\ conn'.next = conn.next
        /\ conn'.unacked = conn.unacked /\ conn'.gone = conn.gone /\ conn'.dropped = conn.dropped
        /\ conn'.resent = conn.resent /\ conn'.channel = conn.channel /\ conn'.wire = conn.wire
        /\ conn'.got = conn.got /\ conn'.read = conn.read
    BY <1>1, <1>4, <1>10 DEF BusConnection
  <2>2. /\ \A j \in conn.subs : conn.unacked[j] \subseteq BusHeard(conn, j)
        /\ \A j \in conn.todo : conn.unacked[j] = {}
        /\ conn.gone \subseteq conn.subs /\ todo \subseteq conn.todo
        /\ Len(conn.channel) <= BusCap /\ Len(conn.wire) <= 1 /\ Len(conn.got) <= ClientCap
    BY <1>1 DEF BusShape, todo
  <2>3. BusShape(log, conn')
    BY <1>1, <2>1, <2>2, SameShape
  <2>4. BusSent(conn') = BusSent(conn)
    BY <2>1 DEF BusSent
  <2>5. BusHolds(log, conn')
    BY <1>1, <2>1, <2>3, <2>4, QuietHolds
  <2> QED
    BY <1>1, <2>5 DEF BusIInv
<1> QED
  BY <1>8, <1>9, <1>10

\* What a state says of one of its consumers.
LEMMA ConsumerIs ==
  ASSUME BusIInv, NEW k \in Consumers
  PROVE  /\ log \in BusLog /\ LogNumbered(log) /\ BusHolds(log, conn) /\ BusShape(log, conn) /\ conn \in BusConnection
         /\ k \in conn.subs /\ k \in Nat /\ conn.since[k] \in Nat /\ conn.next[k] \in Nat
         /\ conn.since[k] <= conn.next[k] /\ conn.next[k] <= Len(log[conn.streams[k]])
         /\ Len(log[conn.streams[k]]) \in Nat
         /\ conn.unacked \in Seq(SUBSET Nat) /\ conn.unacked[k] \in SUBSET Nat /\ conn.next \in Seq(Nat)
         /\ k \in DOMAIN conn.next /\ k \in DOMAIN conn.unacked /\ k \notin conn.todo
         /\ conn.unacked[k] \subseteq BusHeard(conn, k)
<1>1. log \in BusLog /\ LogNumbered(log) /\ BusHolds(log, conn) /\ BusShape(log, conn) /\ conn \in BusConnection
  BY DEF BusIInv, BusHolds, BusShape
<1>2. k \in conn.subs
  BY DEF Consumers
<1>3. /\ k \in DOMAIN conn.since /\ k \in DOMAIN conn.next /\ k \in DOMAIN conn.unacked /\ k \notin conn.todo
      /\ conn.streams[k] \in StreamNames
      /\ conn.since[k] <= conn.next[k] /\ conn.next[k] <= Len(log[conn.streams[k]])
      /\ conn.unacked[k] \subseteq BusHeard(conn, k)
  BY <1>1, <1>2 DEF BusShape
<1>4. conn.since \in Seq(Nat) /\ conn.next \in Seq(Nat) /\ conn.unacked \in Seq(SUBSET Nat) /\ k \in Nat
  BY <1>1, <1>2 DEF BusConnection
<1>5. conn.since[k] \in Nat /\ conn.next[k] \in Nat /\ conn.unacked[k] \in SUBSET Nat
  <2>1. DOMAIN conn.since = 1..Len(conn.since) /\ DOMAIN conn.next = 1..Len(conn.next)
        /\ DOMAIN conn.unacked = 1..Len(conn.unacked)
    BY <1>4
  <2>2. conn.since[k] \in Nat
    BY <1>3, <1>4, <2>1, ElementOfSeq
  <2>3. conn.next[k] \in Nat
    BY <1>3, <1>4, <2>1, ElementOfSeq
  <2>4. conn.unacked[k] \in SUBSET Nat
    BY <1>3, <1>4, <2>1, ElementOfSeq
  <2> QED
    BY <2>2, <2>3, <2>4
<1>6. log[conn.streams[k]] \in Seq(Message)
  BY <1>1, <1>3 DEF BusLog
<1>7. Len(log[conn.streams[k]]) \in Nat
  BY <1>6
<1> QED
  BY <1>1, <1>2, <1>3, <1>4, <1>5, <1>7

LEMMA DeliverStep ==
  ASSUME BusIInv, NEW k \in Consumers, Deliver(k)
  PROVE  BusIInv'
<1> DEFINE n == conn.next[k] + 1
           next == [conn.next EXCEPT ![k] = n]
           c == [conn EXCEPT !.next = next]
           more == [conn.unacked EXCEPT ![k] = conn.unacked[k] \cup {n}]
           d == Waits(c, k, n)
<1>1. /\ log \in BusLog /\ LogNumbered(log) /\ BusHolds(log, conn) /\ BusShape(log, conn) /\ conn \in BusConnection
      /\ k \in conn.subs /\ k \in Nat /\ conn.since[k] \in Nat /\ conn.next[k] \in Nat
      /\ conn.since[k] <= conn.next[k] /\ Len(log[conn.streams[k]]) \in Nat
      /\ conn.unacked \in Seq(SUBSET Nat) /\ conn.unacked[k] \in SUBSET Nat /\ conn.next \in Seq(Nat)
      /\ k \in DOMAIN conn.next /\ k \in DOMAIN conn.unacked /\ k \notin conn.todo
      /\ conn.unacked[k] \subseteq BusHeard(conn, k)
  BY ConsumerIs
<1>2. n \in Nat /\ n <= Len(log[conn.streams[k]])
  BY <1>1 DEF Deliver
<1>3. /\ next \in Seq(Nat) /\ DOMAIN next = DOMAIN conn.next /\ next[k] = n
      /\ \A j \in DOMAIN conn.next : j # k => next[j] = conn.next[j]
  BY <1>1, <1>2, Replaced
<1>4. Transmit(c, k, n)
  <2>1. Transmit([conn EXCEPT !.next[k] = @ + 1], k, conn.next[k] + 1)
    BY DEF Deliver
  <2>2. c = [conn EXCEPT !.next[k] = @ + 1]
    BY <1>1 DEF BusConnection
  <2> QED
    BY <2>1, <2>2
<1>5. conn.unacked[k] \cup {n} \in SUBSET Nat
  BY <1>1, <1>2
<1>6. n = conn.next[k] + 1
  OBVIOUS
<1> HIDE DEF n
<1>7. /\ more \in Seq(SUBSET Nat) /\ DOMAIN more = DOMAIN conn.unacked /\ more[k] = conn.unacked[k] \cup {n}
      /\ \A j \in DOMAIN conn.unacked : j # k => more[j] = conn.unacked[j]
  BY <1>1, <1>5, Replaced
<1> HIDE DEF next
<1>8. /\ c \in BusConnection /\ c.next = next
      /\ c.streams = conn.streams /\ c.filter = conn.filter /\ c.subs = conn.subs /\ c.todo = conn.todo
      /\ c.since = conn.since /\ c.unacked = conn.unacked /\ c.resent = conn.resent /\ c.dropped = conn.dropped
      /\ c.gone = conn.gone /\ c.wire = conn.wire /\ c.got = conn.got /\ c.read = conn.read
      /\ c.channel = conn.channel
  BY <1>1, <1>3 DEF BusConnection
<1> HIDE DEF c
<1>9. d = [c EXCEPT !.unacked = more]
  BY <1>8 DEF Waits
<1> HIDE DEF more, d
<1>10. /\ d \in BusConnection /\ d.next = next /\ d.unacked = more
       /\ d.streams = conn.streams /\ d.filter = conn.filter /\ d.subs = conn.subs /\ d.todo = conn.todo
       /\ d.since = conn.since /\ d.resent = conn.resent /\ d.dropped = conn.dropped
       /\ d.gone = conn.gone /\ d.wire = conn.wire /\ d.got = conn.got /\ d.read = conn.read
       /\ d.channel = conn.channel
  BY <1>7, <1>8, <1>9 DEF BusConnection
<1>11. BusHeard(d, k) = BusHeard(conn, k) \cup {n} /\ n \in BusHeard(c, k)
  <2> DEFINE a == conn.since[k]
             b == conn.next[k]
  <2>1. d.since[k] = a /\ c.since[k] = a /\ d.next[k] = n /\ c.next[k] = n
    BY <1>3, <1>8, <1>10
  <2>2. a \in Nat /\ b \in Nat /\ a <= b /\ n = b + 1
    BY <1>1, <1>6
  <2>3. BusHeard(d, k) = a + 1 .. n /\ BusHeard(c, k) = a + 1 .. n /\ BusHeard(conn, k) = a + 1 .. b
    BY <2>1 DEF BusHeard
  <2> HIDE DEF a, b
  <2> QED
    BY <2>2, <2>3
<1>12. conn.subs \subseteq DOMAIN conn.next /\ conn.subs \subseteq DOMAIN conn.unacked /\ conn.todo \subseteq DOMAIN conn.unacked
  BY <1>1 DEF BusShape
<1>13. ASSUME NEW j \in conn.subs
       PROVE  /\ BusHeard(conn, j) \subseteq BusHeard(d, j) /\ conn.unacked[j] \subseteq d.unacked[j]
              /\ BusHeard(d, j) \ BusHeard(conn, j) \subseteq d.unacked[j]
              /\ d.since[j] <= d.next[j] /\ d.next[j] <= Len(log[conn.streams[j]])
              /\ d.unacked[j] \subseteq BusHeard(d, j)
  <2>1. CASE j = k
    <3>1. d.unacked[k] = conn.unacked[k] \cup {n} /\ d.next[k] = n /\ d.since[k] = conn.since[k]
      BY <1>3, <1>7, <1>10
    <3>2. conn.since[k] <= n /\ n <= Len(log[conn.streams[k]])
      BY <1>1, <1>2, <1>6
    <3>3. conn.unacked[k] \subseteq BusHeard(conn, k)
      BY <1>1
    <3> QED
      BY <1>11, <2>1, <3>1, <3>2, <3>3
  <2>2. CASE j # k
    <3>1. d.next[j] = conn.next[j] /\ d.unacked[j] = conn.unacked[j] /\ d.since[j] = conn.since[j]
      BY <1>3, <1>7, <1>10, <1>12, <2>2
    <3>2. BusHeard(d, j) = BusHeard(conn, j)
      BY <3>1 DEF BusHeard
    <3> QED
      BY <1>1, <3>1, <3>2 DEF BusShape
  <2> QED
    BY <2>1, <2>2
<1>14. \A j \in d.todo : d.unacked[j] = {}
  BY <1>1, <1>7, <1>10, <1>12 DEF BusShape
<1>15. BusShape(log, d)
  <2>1. /\ DOMAIN conn.since = DOMAIN conn.streams /\ DOMAIN conn.next = DOMAIN conn.streams
        /\ DOMAIN conn.unacked = DOMAIN conn.streams
        /\ conn.subs \cup conn.todo \subseteq {j \in DOMAIN conn.streams : conn.streams[j] \in StreamNames}
        /\ conn.subs \cap conn.todo = {} /\ conn.gone \subseteq conn.subs
        /\ Len(conn.channel) <= BusCap /\ Len(conn.wire) <= 1 /\ Len(conn.got) <= ClientCap
    BY <1>1 DEF BusShape
  <2> QED
    BY <1>3, <1>7, <1>10, <1>13, <1>14, <2>1 DEF BusShape
<1>16. BusSent(d) = BusSent(conn) /\ BusLine(c) = BusLine(conn)
  BY <1>8, <1>10 DEF BusSent, BusLine, SentPairs, QueuedPairs
<1>17. \A j \in conn.subs : /\ BusHeard(conn, j) \subseteq BusHeard(d, j) /\ conn.unacked[j] \subseteq d.unacked[j]
                            /\ BusHeard(d, j) \ BusHeard(conn, j) \subseteq d.unacked[j]
  BY <1>13
<1>18. BusHolds(log, d)
  BY <1>1, <1>10, <1>15, <1>16, <1>17, SendingHolds
<1>19. ASSUME NEW i \in 1..Len(BusLine(c)), BusLine(c)[i][1] = k PROVE BusLine(c)[i][2] < n
  <2>1. BusLine(conn)[i][2] \in BusHeard(conn, k)
    BY <1>1, <1>16, <1>19, LineHeard
  <2> QED
    BY <1>1, <1>6, <1>16, <2>1 DEF BusHeard
<1>20. k \in c.subs /\ k \in DOMAIN c.unacked
  BY <1>1, <1>8
<1>21. BusHolds(log, conn') /\ log' = log
  BY <1>1, <1>2, <1>4, <1>8, <1>11, <1>18, <1>19, <1>20, TransmitHolds DEF d
<1> QED
  BY <1>1, <1>21 DEF BusIInv

LEMMA RedeliverStep ==
  ASSUME BusIInv, NEW k \in Consumers, NEW n \in conn.unacked[k],
         Transmit([conn EXCEPT !.resent = @ \cup {<<k, n>>}], k, n)
  PROVE  BusIInv'
<1> DEFINE resent == conn.resent \cup {<<k, n>>}
           c == [conn EXCEPT !.resent = resent]
           more == [conn.unacked EXCEPT ![k] = conn.unacked[k] \cup {n}]
           d == Waits(c, k, n)
<1>1. /\ log \in BusLog /\ LogNumbered(log) /\ BusHolds(log, conn) /\ BusShape(log, conn) /\ conn \in BusConnection
      /\ k \in conn.subs /\ k \in Nat
      /\ conn.unacked \in Seq(SUBSET Nat) /\ conn.unacked[k] \in SUBSET Nat /\ k \in DOMAIN conn.unacked
      /\ conn.unacked[k] \subseteq BusHeard(conn, k)
  BY ConsumerIs
<1>2. n \in Nat /\ n \in BusHeard(conn, k)
  BY <1>1
<1>3. resent \in SUBSET (Nat \X Nat) /\ conn.resent \subseteq resent /\ <<k, n>> \in resent
  BY <1>1, <1>2 DEF BusConnection
<1>4. Transmit(c, k, n)
  <2>1. c = [conn EXCEPT !.resent = @ \cup {<<k, n>>}]
    BY <1>1 DEF BusConnection
  <2> QED
    BY <2>1
<1>5. more = conn.unacked
  <2>1. conn.unacked[k] \cup {n} = conn.unacked[k]
    OBVIOUS
  <2>2. [conn.unacked EXCEPT ![k] = conn.unacked[k]] = conn.unacked
    BY <1>1
  <2> QED
    BY <2>1, <2>2
<1> HIDE DEF resent
<1>6. /\ c \in BusConnection /\ c.next = conn.next
      /\ c.streams = conn.streams /\ c.filter = conn.filter /\ c.subs = conn.subs /\ c.todo = conn.todo
      /\ c.since = conn.since /\ c.unacked = conn.unacked /\ c.resent = resent /\ c.dropped = conn.dropped
      /\ c.gone = conn.gone /\ c.wire = conn.wire /\ c.got = conn.got /\ c.read = conn.read
      /\ c.channel = conn.channel
  BY <1>1, <1>3 DEF BusConnection
<1> HIDE DEF c
<1>7. d = [c EXCEPT !.unacked = conn.unacked]
  BY <1>5, <1>6 DEF Waits
<1> HIDE DEF more, d
<1>8. /\ d \in BusConnection /\ d.next = conn.next /\ d.unacked = conn.unacked
      /\ d.streams = conn.streams /\ d.filter = conn.filter /\ d.subs = conn.subs /\ d.todo = conn.todo
      /\ d.since = conn.since /\ d.resent = resent /\ d.dropped = conn.dropped
      /\ d.gone = conn.gone /\ d.wire = conn.wire /\ d.got = conn.got /\ d.read = conn.read
      /\ d.channel = conn.channel
  BY <1>1, <1>6, <1>7 DEF BusConnection
<1>9. \A j : BusHeard(d, j) = BusHeard(conn, j) /\ BusHeard(c, j) = BusHeard(conn, j)
  BY <1>6, <1>8 DEF BusHeard
<1>10. /\ \A j \in conn.subs : conn.unacked[j] \subseteq BusHeard(conn, j)
       /\ \A j \in conn.todo : conn.unacked[j] = {}
       /\ conn.gone \subseteq conn.subs
       /\ Len(conn.channel) <= BusCap /\ Len(conn.wire) <= 1 /\ Len(conn.got) <= ClientCap
  BY <1>1 DEF BusShape
<1>11. BusShape(log, d)
  BY <1>1, <1>8, <1>10, SameShape
<1>12. BusSent(d) = BusSent(conn)
  BY <1>8 DEF BusSent
<1>13. \A j \in conn.subs : /\ BusHeard(conn, j) \subseteq BusHeard(d, j) /\ conn.unacked[j] \subseteq d.unacked[j]
                            /\ BusHeard(d, j) \ BusHeard(conn, j) \subseteq d.unacked[j]
  BY <1>8, <1>9
<1>14. BusHolds(log, d)
  BY <1>1, <1>3, <1>8, <1>11, <1>12, <1>13, SendingHolds
<1>15. k \in c.subs /\ k \in DOMAIN c.unacked /\ n \in BusHeard(c, k) /\ <<k, n>> \in c.resent
  BY <1>1, <1>2, <1>3, <1>6, <1>9
<1>16. BusHolds(log, conn') /\ log' = log
  BY <1>1, <1>2, <1>4, <1>6, <1>14, <1>15, TransmitHolds DEF d
<1> QED
  BY <1>1, <1>16 DEF BusIInv

LEMMA GoneStep ==
  ASSUME BusIInv, NEW k \in Consumers, ConsumerGone(k)
  PROVE  BusIInv'
<1> DEFINE gone == conn.gone \cup {k}
           faults == conn.faults + 1
<1>1. /\ log \in BusLog /\ LogNumbered(log) /\ BusHolds(log, conn) /\ BusShape(log, conn) /\ conn \in BusConnection
      /\ k \in conn.subs /\ k \in Nat
  BY ConsumerIs
<1>2. gone \in SUBSET Nat /\ faults \in Nat
  BY <1>1 DEF BusConnection
<1>3. conn' = [conn EXCEPT !.gone = gone, !.faults = faults] /\ log' = log
  BY DEF ConsumerGone
<1>4. /\ \A j \in conn.subs : conn.unacked[j] \subseteq BusHeard(conn, j)
      /\ \A j \in conn.todo : conn.unacked[j] = {}
      /\ gone \subseteq conn.subs
      /\ Len(conn.channel) <= BusCap /\ Len(conn.wire) <= 1 /\ Len(conn.got) <= ClientCap
  BY <1>1 DEF BusShape
<1> HIDE DEF gone, faults
<1>5. /\ conn' \in BusConnection /\ conn'.gone = gone /\ conn'.next = conn.next /\ conn'.unacked = conn.unacked
      /\ conn'.streams = conn.streams /\ conn'.filter = conn.filter /\ conn'.subs = conn.subs
      /\ conn'.todo = conn.todo /\ conn'.since = conn.since /\ conn'.resent = conn.resent
      /\ conn'.dropped = conn.dropped /\ conn'.wire = conn.wire /\ conn'.got = conn.got
      /\ conn'.read = conn.read /\ conn'.channel = conn.channel
  BY <1>1, <1>2, <1>3 DEF BusConnection
<1>6. BusShape(log, conn')
  BY <1>1, <1>4, <1>5, SameShape
<1>7. BusSent(conn') = BusSent(conn)
  BY <1>5 DEF BusSent
<1>8. BusHolds(log, conn')
  BY <1>1, <1>5, <1>6, <1>7, QuietHolds
<1> QED
  BY <1>1, <1>3, <1>8 DEF BusIInv

\* A step that leaves what was sent and what is to come as it is.
LEMMA QuietStep ==
  ASSUME BusIInv, log' = log, conn' \in BusConnection, BusSent(conn') = BusSent(conn),
         conn'.streams = conn.streams, conn'.filter = conn.filter, conn'.subs = conn.subs, conn'.todo = conn.todo,
         conn'.since = conn.since, conn'.next = conn.next, conn'.unacked = conn.unacked, conn'.gone = conn.gone,
         conn'.dropped = conn.dropped, conn'.resent = conn.resent, conn'.channel = conn.channel,
         Len(conn'.wire) <= 1, Len(conn'.got) <= ClientCap
  PROVE  BusIInv'
<1>1. log \in BusLog /\ LogNumbered(log) /\ BusHolds(log, conn) /\ BusShape(log, conn)
  BY DEF BusIInv, BusHolds
<1>2. /\ \A j \in conn.subs : conn.unacked[j] \subseteq BusHeard(conn, j)
      /\ \A j \in conn.todo : conn.unacked[j] = {}
      /\ conn.gone \subseteq conn.subs /\ Len(conn.channel) <= BusCap
  BY <1>1 DEF BusShape
<1>3. BusShape(log, conn')
  BY <1>1, <1>2, SameShape
<1>4. BusHolds(log, conn')
  BY <1>1, <1>3, QuietHolds
<1> QED
  BY <1>1, <1>4 DEF BusIInv

LEMMA FreshStep == ASSUME BusIInv, log' = log, conn' = Unconnected PROVE BusIInv'
BY UnconnectedHolds DEF BusIInv

LEMMA SubscribedStep == ASSUME BusIInv, Subscribed PROVE BusIInv'
<1>1. log' = log
  BY DEF Subscribed
<1>2. CASE conn' = Unconnected
  BY <1>1, <1>2, FreshStep
<1>3. CASE conn' = [conn EXCEPT !.at = "stream"]
  <2>1. conn \in BusConnection /\ Len(conn.wire) <= 1 /\ Len(conn.got) <= ClientCap
    BY DEF BusIInv, BusHolds, BusShape
  <2>2. /\ conn' \in BusConnection
        /\ conn'.streams = conn.streams /\ conn'.filter = conn.filter /\ conn'.subs = conn.subs
        /\ conn'.todo = conn.todo /\ conn'.since = conn.since /\ conn'.next = conn.next
        /\ conn'.unacked = conn.unacked /\ conn'.gone = conn.gone /\ conn'.dropped = conn.dropped
        /\ conn'.resent = conn.resent /\ conn'.channel = conn.channel
        /\ conn'.wire = conn.wire /\ conn'.got = conn.got /\ conn'.read = conn.read
    BY <1>3, <2>1 DEF BusConnection
  <2>3. BusSent(conn') = BusSent(conn)
    BY <2>2 DEF BusSent
  <2> QED
    BY <1>1, <2>1, <2>2, <2>3, QuietStep
<1> QED
  BY <1>2, <1>3 DEF Subscribed

\* The client takes an event from the stream, or from its channel.
LEMMA ReceiveStep == ASSUME BusIInv, ReceiveEvent PROVE BusIInv'
<1> DEFINE wire == Tail(conn.wire)
           got == Append(conn.got, Head(conn.wire))
<1>1. conn \in BusConnection /\ Len(conn.wire) <= 1 /\ ClientCap \in Nat
  BY BusAssumption DEF BusIInv, BusHolds, BusShape
<1>2. conn.wire # <<>> /\ Len(conn.got) < ClientCap /\ log' = log
      /\ conn' = [conn EXCEPT !.wire = wire, !.got = got]
  BY DEF ReceiveEvent
<1>3. conn.wire \in Seq(BusEvent) /\ conn.got \in Seq(BusEvent) /\ conn.read \in Seq(BusEvent)
  BY <1>1 DEF BusConnection
<1>4. Head(conn.wire) \in BusEvent /\ wire \in Seq(BusEvent) /\ Len(wire) = Len(conn.wire) - 1
      /\ Len(conn.wire) \in Nat /\ Len(conn.got) \in Nat
  BY <1>2, <1>3
<1>5. got \in Seq(BusEvent) /\ Len(got) = Len(conn.got) + 1
  BY <1>3, <1>4, AppendProperties
<1>6. conn.read \o got \o wire = conn.read \o conn.got \o conn.wire
  BY <1>2, <1>3, PassOn
<1> HIDE DEF wire, got
<1>7. /\ conn' \in BusConnection
      /\ conn'.streams = conn.streams /\ conn'.filter = conn.filter /\ conn'.subs = conn.subs
      /\ conn'.todo = conn.todo /\ conn'.since = conn.since /\ conn'.next = conn.next
      /\ conn'.unacked = conn.unacked /\ conn'.gone = conn.gone /\ conn'.dropped = conn.dropped
      /\ conn'.resent = conn.resent /\ conn'.channel = conn.channel
      /\ conn'.wire = wire /\ conn'.got = got /\ conn'.read = conn.read
  BY <1>1, <1>2, <1>4, <1>5 DEF BusConnection
<1>8. BusSent(conn') = BusSent(conn)
  BY <1>6, <1>7 DEF BusSent
<1>9. Len(conn'.wire) <= 1 /\ Len(conn'.got) <= ClientCap
  BY <1>1, <1>2, <1>4, <1>5, <1>7
<1> QED
  BY <1>2, <1>7, <1>8, <1>9, QuietStep

LEMMA ReadStep == ASSUME BusIInv, ReadEvent PROVE BusIInv'
<1> DEFINE got == Tail(conn.got)
           read == Append(conn.read, Head(conn.got))
<1>1. conn \in BusConnection /\ Len(conn.wire) <= 1 /\ Len(conn.got) <= ClientCap /\ ClientCap \in Nat
  BY BusAssumption DEF BusIInv, BusHolds, BusShape
<1>2. conn.got # <<>> /\ log' = log /\ conn' = [conn EXCEPT !.got = got, !.read = read]
  BY DEF ReadEvent
<1>3. conn.wire \in Seq(BusEvent) /\ conn.got \in Seq(BusEvent) /\ conn.read \in Seq(BusEvent)
  BY <1>1 DEF BusConnection
<1>4. Head(conn.got) \in BusEvent /\ got \in Seq(BusEvent) /\ Len(got) = Len(conn.got) - 1 /\ Len(conn.got) \in Nat
  BY <1>2, <1>3
<1>5. read \in Seq(BusEvent)
  BY <1>3, <1>4, AppendProperties
<1>6. read \o got = conn.read \o conn.got
  BY <1>2, <1>3, MoveOn
<1> HIDE DEF got, read
<1>7. /\ conn' \in BusConnection
      /\ conn'.streams = conn.streams /\ conn'.filter = conn.filter /\ conn'.subs = conn.subs
      /\ conn'.todo = conn.todo /\ conn'.since = conn.since /\ conn'.next = conn.next
      /\ conn'.unacked = conn.unacked /\ conn'.gone = conn.gone /\ conn'.dropped = conn.dropped
      /\ conn'.resent = conn.resent /\ conn'.channel = conn.channel
      /\ conn'.wire = conn.wire /\ conn'.got = got /\ conn'.read = read
  BY <1>1, <1>2, <1>4, <1>5 DEF BusConnection
<1>8. BusSent(conn') = BusSent(conn)
  BY <1>6, <1>7 DEF BusSent
<1>9. Len(conn'.wire) <= 1 /\ Len(conn'.got) <= ClientCap
  BY <1>1, <1>4, <1>7
<1> QED
  BY <1>2, <1>7, <1>8, <1>9, QuietStep

\* The handler writes the first message of its channel, or leaves it out.
LEMMA HandleStep == ASSUME BusIInv, HandleMessage PROVE BusIInv'
<1> DEFINE m == conn.channel[1]
           evt == [sub |-> m.sub, stream |-> StreamForSubject(m.msg.subject),
                   type |-> EventTypeFromSubject(m.msg.subject), seq |-> m.msg.seq]
           rest == Tail(conn.channel)
           wire == Append(conn.wire, evt)
<1>1. /\ log \in BusLog /\ LogNumbered(log) /\ BusHolds(log, conn) /\ BusShape(log, conn) /\ conn \in BusConnection
      /\ conn.channel # <<>> /\ log' = log
  BY DEF HandleMessage, BusIInv, BusHolds, BusShape
<1>2. /\ conn.channel \in Seq(Queued) /\ conn.wire \in Seq(BusEvent)
      /\ conn.got \in Seq(BusEvent) /\ conn.read \in Seq(BusEvent)
  BY <1>1 DEF BusConnection
<1>3. /\ m \in Queued /\ rest \in Seq(Queued) /\ Len(rest) = Len(conn.channel) - 1 /\ Head(conn.channel) = m
      /\ Len(conn.channel) \in Nat /\ 1 \in 1..Len(conn.channel)
  BY <1>1, <1>2
<1>4. MessageRight(log, conn, m)
  BY <1>1, <1>3 DEF BusHolds, QueuedRight
<1>5. PICK n \in BusHeard(conn, m.sub) : m.msg = BusMsg(log, conn, m.sub, n)
  BY <1>4 DEF MessageRight
<1>6. /\ m.sub \in conn.subs /\ conn.streams[m.sub] \in StreamNames /\ m.msg \in Message /\ m.msg.seq = n
      /\ m.msg.subject[1] = conn.streams[m.sub] /\ n \in Nat
  BY <1>1, <1>4, <1>5, BusMsgIs DEF MessageRight
<1>7. evt.stream = conn.streams[m.sub] /\ (BusPlain(m.msg) => evt.type = m.msg.type[1])
  BY <1>6 DEF StreamForSubject, BusPlain, Message
<1>8. evt \in BusEvent
  <2>1. m.msg.subject \in Seq(Segment) /\ m.msg.subject # <<>>
    BY <1>6 DEF Message
  <2>2. EventTypeFromSubject(m.msg.subject) \in Segment
    BY <2>1 DEF EventTypeFromSubject, Last
  <2>3. m.sub \in Nat
    BY <1>3 DEF Queued
  <2> QED
    BY <1>6, <2>2, <2>3 DEF BusEvent, StreamForSubject
<1>9. \/ conn.filter \in {NoFilter, evt.type} /\ Len(conn.wire) < 1
         /\ conn' = [conn EXCEPT !.channel = rest, !.wire = wire]
      \/ conn.filter \notin {NoFilter, evt.type} /\ conn' = [conn EXCEPT !.channel = rest]
  <2>1. LET a == Head(conn.channel)
            e == [sub |-> a.sub, stream |-> StreamForSubject(a.msg.subject),
                  type |-> EventTypeFromSubject(a.msg.subject), seq |-> a.msg.seq]
            c == [conn EXCEPT !.channel = Tail(@)]
        IN IF conn.filter \in {NoFilter, e.type}
           THEN Len(conn.wire) < 1 /\ conn' = [c EXCEPT !.wire = Append(@, e)]
           ELSE conn' = c
    BY Zenon DEF HandleMessage
  <2>2. IF conn.filter \in {NoFilter, evt.type}
        THEN Len(conn.wire) < 1 /\ conn' = [[conn EXCEPT !.channel = Tail(@)] EXCEPT !.wire = Append(@, evt)]
        ELSE conn' = [conn EXCEPT !.channel = Tail(@)]
    BY <1>3, <2>1
  <2>3. conn.channel = conn.channel /\ [conn EXCEPT !.channel = Tail(@)] = [conn EXCEPT !.channel = rest]
    OBVIOUS
  <2>4. [[conn EXCEPT !.channel = Tail(@)] EXCEPT !.wire = Append(@, evt)]
          = [conn EXCEPT !.channel = rest, !.wire = wire]
    <3> HIDE DEF evt, m
    <3> QED
      BY <1>1 DEF BusConnection
  <2> HIDE DEF evt, rest, wire
  <2> QED
    BY <2>2, <2>3, <2>4
<1>10. EventTypeFromSubject(m.msg.subject) = evt.type /\ evt.sub = m.sub /\ evt.seq = n /\ evt.seq = m.msg.seq
  BY <1>6
<1>11. wire \in Seq(BusEvent) /\ Len(wire) = Len(conn.wire) + 1 /\ Len(conn.wire) \in Nat
  BY <1>2, <1>8, AppendProperties
<1>12. conn.read \o conn.got \o wire = Append(conn.read \o conn.got \o conn.wire, evt)
  <2>1. conn.read \o conn.got \in Seq(BusEvent)
    BY <1>2, ConcatProperties
  <2> DEFINE front == conn.read \o conn.got
  <2>2. front \in Seq(BusEvent) /\ conn.wire \in Seq(BusEvent) /\ evt \in BusEvent
    BY <1>2, <1>8, <2>1
  <2> HIDE DEF front, evt
  <2>3. front \o Append(conn.wire, evt) = Append(front \o conn.wire, evt)
    BY <2>2, AppendLast
  <2> QED
    BY <2>3 DEF front
<1>13. rest = Tail(conn.channel) /\ m = conn.channel[1]
  OBVIOUS
<1> HIDE DEF evt, rest, wire, m
<1>14. /\ DOMAIN conn.unacked = DOMAIN conn.unacked
       /\ \A j \in conn.subs : conn.unacked[j] \subseteq BusHeard(conn, j)
       /\ \A j \in conn.todo : conn.unacked[j] = {}
       /\ conn.gone \subseteq conn.subs
       /\ Len(conn.channel) <= BusCap /\ Len(conn.wire) <= 1 /\ Len(conn.got) <= ClientCap
  BY <1>1 DEF BusShape
<1>15. Len(rest) <= BusCap
  BY <1>3, <1>14, BusAssumption
<1>16. CASE /\ conn.filter \in {NoFilter, evt.type} /\ Len(conn.wire) < 1
            /\ conn' = [conn EXCEPT !.channel = rest, !.wire = wire]
  <2>1. /\ conn' \in BusConnection
        /\ conn'.streams = conn.streams /\ conn'.filter = conn.filter /\ conn'.subs = conn.subs
        /\ conn'.todo = conn.todo /\ conn'.since = conn.since /\ conn'.next = conn.next
        /\ conn'.unacked = conn.unacked /\ conn'.gone = conn.gone /\ conn'.dropped = conn.dropped
        /\ conn'.resent = conn.resent /\ conn'.channel = rest
        /\ conn'.wire = wire /\ conn'.got = conn.got /\ conn'.read = conn.read
    BY <1>1, <1>3, <1>11, <1>16 DEF BusConnection
  <2>2. BusSent(conn') = Append(BusSent(conn), evt)
    BY <1>12, <2>1 DEF BusSent
  <2>3. Len(wire) <= 1
    BY <1>11, <1>16
  <2>4. BusShape(log, conn')
    BY <1>1, <1>14, <1>15, <2>1, <2>3, SameShape
  <2>5. EventRight(log, conn, evt)
    <3>1. evt.sub \in conn.subs /\ evt.seq \in BusHeard(conn, evt.sub) /\ evt.stream = conn.streams[evt.sub]
      BY <1>5, <1>6, <1>7, <1>10
    <3>2. BusMsg(log, conn, evt.sub, evt.seq) = m.msg
      BY <1>5, <1>10
    <3>3. BusPlain(m.msg) => BusWanted(conn, m.msg) /\ evt.type = m.msg.type[1]
      BY <1>7, <1>16 DEF BusWanted
    <3> QED
      BY <3>1, <3>2, <3>3 DEF EventRight
  <2>6. evt.sub = conn.channel[1].sub /\ evt.seq = conn.channel[1].msg.seq /\ conn'.channel = Tail(conn.channel)
    BY <1>10, <1>13, <2>1
  <2>7. BusHolds(log, conn')
    BY <1>1, <1>8, <2>1, <2>2, <2>4, <2>5, <2>6, WriteHolds
  <2> QED
    BY <1>1, <2>7 DEF BusIInv
<1>17. CASE conn.filter \notin {NoFilter, evt.type} /\ conn' = [conn EXCEPT !.channel = rest]
  <2>1. /\ conn' \in BusConnection
        /\ conn'.streams = conn.streams /\ conn'.filter = conn.filter /\ conn'.subs = conn.subs
        /\ conn'.todo = conn.todo /\ conn'.since = conn.since /\ conn'.next = conn.next
        /\ conn'.unacked = conn.unacked /\ conn'.gone = conn.gone /\ conn'.dropped = conn.dropped
        /\ conn'.resent = conn.resent /\ conn'.channel = rest
        /\ conn'.wire = conn.wire /\ conn'.got = conn.got /\ conn'.read = conn.read
    BY <1>1, <1>3, <1>17 DEF BusConnection
  <2>2. BusSent(conn') = BusSent(conn)
    BY <2>1 DEF BusSent
  <2>3. BusShape(log, conn')
    BY <1>1, <1>14, <1>15, <2>1, SameShape
  <2>4. ~(BusPlain(conn.channel[1].msg) /\ BusWanted(conn, conn.channel[1].msg))
    BY <1>7, <1>13, <1>17 DEF BusWanted
  <2>5. conn'.channel = Tail(conn.channel)
    BY <1>13, <2>1
  <2>6. BusHolds(log, conn')
    BY <1>1, <2>1, <2>2, <2>3, <2>4, <2>5, SkipHolds
  <2> QED
    BY <1>1, <2>6 DEF BusIInv
<1> QED
  BY <1>9, <1>16, <1>17

LEMMA BusStep == BusIInv /\ [BusNext]_busVars => BusIInv'
<1> SUFFICES ASSUME BusIInv, [BusNext]_busVars PROVE BusIInv'
  OBVIOUS
<1>1. CASE UNCHANGED busVars
  <2>1. log' = log /\ conn' = conn
    BY <1>1 DEF busVars
  <2> QED
    BY <2>1 DEF BusIInv
<1>2. ASSUME NEW type \in BusType, NEW actor \in BusActor \cup {NoActor}, PublishToJetStream(type, actor)
      PROVE  BusIInv'
  BY <1>2, PublishStep
<1>3. ASSUME NEW ask \in Asks, ConnectBusSSE(ask) PROVE BusIInv'
  BY <1>3, ConnectStep
<1>4. ASSUME NEW k \in conn.todo, SubscribeStream(k) PROVE BusIInv'
  BY <1>4, SubscribeStep
<1>5. ASSUME NEW k \in Consumers, Deliver(k) PROVE BusIInv'
  BY <1>5, DeliverStep
<1>6. ASSUME NEW k \in Consumers, Redeliver(k) PROVE BusIInv'
  BY <1>6, RedeliverStep DEF Redeliver
<1>7. ASSUME NEW k \in Consumers, ConsumerGone(k) PROVE BusIInv'
  BY <1>7, GoneStep
<1>8. CASE Subscribed
  BY <1>8, SubscribedStep
<1>9. CASE HandleMessage
  BY <1>9, HandleStep
<1>10. CASE ReceiveEvent
  BY <1>10, ReceiveStep
<1>11. CASE ReadEvent
  BY <1>11, ReadStep
<1>12. CASE Disconnect
  BY <1>12, FreshStep DEF Disconnect
<1>13. CASE BusNext
  BY Zenon, <1>2, <1>3, <1>4, <1>5, <1>6, <1>7, <1>8, <1>9, <1>10, <1>11, <1>12, <1>13 DEF BusNext
<1> QED
  BY <1>1, <1>13

LEMMA BusPromise == BusIInv => StreamsAsAsked
<1> SUFFICES ASSUME BusIInv, NEW k \in conn.subs
             PROVE  LET stream == conn.streams[k]
                        heard == conn.since[k] + 1 .. conn.next[k]
                        plain(n) == Len(log[stream][n].type) = 1
                        wanted(n) == conn.filter \in {NoFilter, log[stream][n].type[1]}
                    IN /\ \A i \in DOMAIN conn.channel : conn.channel[i].sub = k =>
                            \E n \in heard : conn.channel[i].msg = log[stream][n]
                       /\ \A i \in DOMAIN Sent : Sent[i].sub = k =>
                            /\ Sent[i].seq \in heard /\ Sent[i].stream = stream
                            /\ plain(Sent[i].seq) =>
                                 wanted(Sent[i].seq) /\ Sent[i].type = log[stream][Sent[i].seq].type[1]
                       /\ \A i, j \in DOMAIN Line :
                            i < j /\ Line[i][1] = k /\ Line[j][1] = k /\ {Line[i], Line[j]} \cap conn.resent = {} =>
                              Line[i][2] < Line[j][2]
                       /\ \A n \in heard \ conn.unacked[k] : plain(n) /\ wanted(n) =>
                            <<k, n>> \in conn.dropped \/ \E i \in DOMAIN Line : Line[i] = <<k, n>>
  BY Zenon DEF StreamsAsAsked
<1>1. BusHolds(log, conn) /\ conn \in BusConnection
  BY DEF BusIInv, BusHolds, BusShape
<1>2. Sent = BusSent(conn) /\ Line = BusLine(conn)
  BY DEF Sent, Line, BusSent, BusLine, SentPairs, QueuedPairs
<1>3. /\ BusSent(conn) \in Seq(BusEvent) /\ BusLine(conn) \in Seq(Nat \X Nat)
  BY <1>1, LineIs
<1>4. conn.channel \in Seq(Queued)
  BY <1>1 DEF BusConnection
<1>5. /\ DOMAIN Sent = 1..Len(BusSent(conn)) /\ DOMAIN Line = 1..Len(BusLine(conn))
      /\ DOMAIN conn.channel = 1..Len(conn.channel)
  BY <1>2, <1>3, <1>4
<1>6. ASSUME NEW i \in DOMAIN conn.channel, conn.channel[i].sub = k
      PROVE  \E n \in BusHeard(conn, k) : conn.channel[i].msg = log[conn.streams[k]][n]
  <2>1. MessageRight(log, conn, conn.channel[i])
    BY <1>1, <1>5 DEF BusHolds, QueuedRight
  <2> QED
    BY <1>6, <2>1 DEF MessageRight, BusMsg
<1>7. ASSUME NEW i \in DOMAIN Sent, Sent[i].sub = k
      PROVE  /\ Sent[i].seq \in BusHeard(conn, k) /\ Sent[i].stream = conn.streams[k]
             /\ Len(log[conn.streams[k]][Sent[i].seq].type) = 1 =>
                  /\ conn.filter \in {NoFilter, log[conn.streams[k]][Sent[i].seq].type[1]}
                  /\ Sent[i].type = log[conn.streams[k]][Sent[i].seq].type[1]
  <2>1. EventRight(log, conn, Sent[i])
    BY <1>1, <1>2, <1>5 DEF BusHolds, SentRight
  <2> QED
    BY <1>7, <2>1 DEF EventRight, BusMsg, BusPlain, BusWanted
<1>8. ASSUME NEW i \in DOMAIN Line, NEW j \in DOMAIN Line, i < j, Line[i][1] = k, Line[j][1] = k,
             {Line[i], Line[j]} \cap conn.resent = {}
      PROVE  Line[i][2] < Line[j][2]
  BY <1>1, <1>2, <1>5, <1>8 DEF BusHolds, Ascends
<1>9. ASSUME NEW n \in BusHeard(conn, k) \ conn.unacked[k], Len(log[conn.streams[k]][n].type) = 1,
             conn.filter \in {NoFilter, log[conn.streams[k]][n].type[1]}
      PROVE  <<k, n>> \in conn.dropped \/ \E i \in DOMAIN Line : Line[i] = <<k, n>>
  <2>1. <<k, n>> \in conn.dropped \/ Has(BusLine(conn), <<k, n>>)
    BY <1>1, <1>9 DEF BusHolds, Arrived, BusMsg, BusPlain, BusWanted
  <2> QED
    BY <1>2, <1>5, <2>1 DEF Has
<1> QED
  BY Zenon, <1>6, <1>7, <1>8, <1>9 DEF BusHeard

LEMMA BusTypes == BusIInv => BusTypeOK
<1> SUFFICES ASSUME BusIInv PROVE BusTypeOK
  OBVIOUS
<1>1. log \in BusLog /\ LogNumbered(log) /\ BusShape(log, conn) /\ conn \in BusConnection
  BY DEF BusIInv, BusHolds, BusShape
<1>2. ASSUME NEW s \in StreamNames, NEW i \in DOMAIN log[s] PROVE log[s][i].seq = i /\ log[s][i].subject[1] = s
  <2>1. DOMAIN log[s] = 1..Len(log[s])
    <3>1. log[s] \in Seq(Message)
      BY <1>1 DEF BusLog
    <3> QED
      BY <3>1
  <2> QED
    BY <1>1, <2>1 DEF LogNumbered
<1>3. conn.at \in {"none", "subscribe", "stream"}
  BY <1>1 DEF BusConnection
<1>4. \A k \in conn.subs :
        /\ conn.since[k] <= conn.next[k] /\ conn.next[k] <= Len(log[conn.streams[k]])
        /\ conn.unacked[k] \subseteq conn.since[k] + 1 .. conn.next[k]
  BY <1>1 DEF BusShape, BusHeard
<1>5. /\ conn.subs \cup conn.todo \subseteq {k \in DOMAIN conn.streams : conn.streams[k] \in StreamNames}
      /\ conn.subs \cap conn.todo = {} /\ conn.gone \subseteq conn.subs
      /\ Len(conn.channel) <= BusCap /\ Len(conn.wire) <= 1 /\ Len(conn.got) <= ClientCap
  BY <1>1 DEF BusShape
<1> QED
  BY <1>2, <1>3, <1>4, <1>5 DEF BusTypeOK

\* Whatever is published, to however many streams, and however far the reader is
\* behind: for every entry of its list the client of GET /v1/bus/events gets events
\* it asked for, published since it subscribed; those not sent again in order and
\* once; and every one the consumer got rid of, except those the full channel
\* dropped (handleBusEvents, the callback of Subscribe, StreamEvents).
THEOREM BusAsAsked == BusSpec => []StreamsAsAsked
<1>1. BusInit => BusIInv
  BY BusInitIInv
<1>2. BusIInv /\ [BusNext]_busVars => BusIInv'
  BY BusStep
<1>3. BusIInv => StreamsAsAsked
  BY BusPromise
<1> QED
  BY <1>1, <1>2, <1>3, PTL DEF BusSpec

\* Messages know their place in their stream; what the connection holds stays
\* within its bounds.
THEOREM BusTypeCorrect == BusSpec => []BusTypeOK
<1>1. BusInit => BusIInv
  BY BusInitIInv
<1>2. BusIInv /\ [BusNext]_busVars => BusIInv'
  BY BusStep
<1>3. BusIInv => BusTypeOK
  BY BusTypes
<1> QED
  BY <1>1, <1>2, <1>3, PTL DEF BusSpec

-----------------------------------------------------------------------------
(* All of it together, as the runs check it.                               *)

ServerIInv == HooksIInv /\ BusIInv /\ WatchIInv /\ WatchBounds /\ ServeIInv /\ GraphIInv

\* A step of the whole is a step of each component, or leaves it alone.
LEMMA ServerParts ==
  [Next]_serverVars =>
    /\ [HooksNext]_hookVars /\ [BusNext]_busVars /\ [WatchNext]_watchVars
    /\ [ServeNext]_serveVars /\ [GraphNext]_graphVars
<1> SUFFICES ASSUME [Next]_serverVars
             PROVE  /\ HooksNext \/ UNCHANGED hookVars
                    /\ BusNext \/ UNCHANGED busVars
                    /\ WatchNext \/ UNCHANGED watchVars
                    /\ ServeNext \/ UNCHANGED serveVars
                    /\ GraphNext \/ UNCHANGED graphVars
  OBVIOUS
<1> QED
  BY Zenon DEF Next, serverVars, OnlyHooks, OnlyBus, OnlyWatch, OnlyServe, OnlyGraph

\* Whichever component is at work, what each state holds is of its type; no hook
\* that must block is passed over, a client of the bus's streams gets what it asked
\* for, kd watch never sends on a closed channel, serve uses only what is open, and
\* the graph is whole, for every value of the constants.
THEOREM ServerCorrect ==
  Spec => [](TypeOK /\ BlockersHeeded /\ StreamsAsAsked /\ NeverSendsOnClosed /\ OpenWhenUsed /\ GraphIsWhole)
<1>1. Init => ServerIInv
  BY HooksInitIInv, BusInitIInv, WatchInitIInv, WatchInitBounds, ServeInitIInv, GraphInitIInv DEF Init, ServerIInv
<1>2. ServerIInv /\ [Next]_serverVars => ServerIInv'
  BY ServerParts, HooksStep, BusStep, WatchStepIInv, WatchStepBounds, ServeStep, GraphStep DEF ServerIInv
<1>3. ServerIInv =>
        TypeOK /\ BlockersHeeded /\ StreamsAsAsked /\ NeverSendsOnClosed /\ OpenWhenUsed /\ GraphIsWhole
  BY HooksPromise, BusPromise, BusTypes, WatchTypes, ServePromise, GraphPromise DEF ServerIInv, TypeOK
<1>4. Spec => Init /\ [][Next]_serverVars
  BY DEF Spec
<1> QED
  BY <1>1, <1>2, <1>3, <1>4, PTL
=============================================================================
