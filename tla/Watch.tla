-------------------------------- MODULE Watch --------------------------------
(***************************************************************************)
(* kd watch: a query, then one more whenever beads may have changed, each  *)
(* showing the beads whose updated_at differs from the one last shown;     *)
(* and the subscription it waits on.                                       *)
(*                                                                         *)
(* One bead of the view stands for all, its updated_at a number.  Durations*)
(* are abstracted: an armed timer may fire at any time.  The NATS client   *)
(* calls the subscription's callback for one message at a time, delivers   *)
(* nothing while disconnected, and reconnects for ever.                    *)
(***************************************************************************)
EXTENDS Naturals

CONSTANTS
  ChannelCap,      \* capacity of the subscription's channel (64)
  MaxUpdates,      \* bound: changes of the bead
  MaxOutages       \* bound: disconnects

ASSUME WatchAssumption == ChannelCap \in Nat \ {0} /\ MaxUpdates \in Nat \ {0} /\ MaxOutages \in Nat

VARIABLES
  updatedAt,       \* of the bead in the store
  seen,            \* updated_at of the bead as last shown, 0 before
  nats,            \* the connection: messages under way, connected, outages
  sub,             \* the subscription and its channel
  loop             \* the command

watchVars == <<updatedAt, seen, nats, sub, loop>>

-----------------------------------------------------------------------------
(* The server.                                                             *)

\* A change commits, then its event is published: it is lost if publishing
\* fails, if nobody has subscribed yet, or while the subscriber is disconnected.
\* unheard: the last change was not announced, and no later query is due for it.
UpdateBead(published) ==
  /\ updatedAt < MaxUpdates
  /\ updatedAt' = updatedAt + 1
  /\ loop' = [loop EXCEPT !.unheard = ~(published /\ sub.registered) /\ nats.connected]
  /\ nats' = IF published /\ sub.registered /\ nats.connected THEN [nats EXCEPT !.messages = @ + 1] ELSE nats
  /\ UNCHANGED <<seen, sub>>

\* What was under way is lost.
DisconnectNATS ==
  /\ nats.connected /\ nats.outages < MaxOutages /\ sub.registered
  /\ nats' = [messages |-> 0, connected |-> FALSE, outages |-> nats.outages + 1]
  /\ UNCHANGED <<updatedAt, seen, sub, loop>>

\* The reconnect handler leaves a token, unless one is there.
ReconnectNATS ==
  /\ ~nats.connected
  /\ nats' = [nats EXCEPT !.connected = TRUE]
  /\ loop' = [loop EXCEPT !.reconnect = TRUE]
  /\ UNCHANGED <<updatedAt, seen, sub>>

-----------------------------------------------------------------------------
(* The subscription: its callback and cancel run concurrently, mu guards   *)
(* closed, and the channel is closed outside of mu.                        *)

Subscribe ==
  /\ loop.at = "subscribe"
  /\ \/ /\ sub' = [sub EXCEPT !.registered = TRUE]
        /\ loop' = [loop EXCEPT !.at = "select"]
     \/ /\ loop' = [loop EXCEPT !.at = "ended", !.failed = TRUE]
        /\ UNCHANGED sub
  /\ UNCHANGED <<updatedAt, seen, nats>>

\* The client takes a message off the connection and calls the callback.
CallbackStart ==
  /\ sub.registered /\ sub.callback = "idle" /\ nats.messages > 0
  /\ nats' = [nats EXCEPT !.messages = @ - 1]
  /\ sub' = [sub EXCEPT !.callback = "started"]
  /\ UNCHANGED <<updatedAt, seen, loop>>

\* mu.Lock(); if closed { return }
CallbackLock ==
  /\ sub.callback = "started" /\ sub.mu = "free"
  /\ sub' = IF sub.closed THEN [sub EXCEPT !.callback = "idle"]
            ELSE [sub EXCEPT !.callback = "sending", !.mu = "callback"]
  /\ UNCHANGED <<updatedAt, seen, nats, loop>>

\* A full channel drops the message: one is there to be read.
CallbackSend ==
  /\ sub.callback = "sending"
  /\ sub' = [sub EXCEPT !.callback = "idle", !.mu = "free",
                        !.queued = IF @ < ChannelCap THEN @ + 1 ELSE @]
  /\ UNCHANGED <<updatedAt, seen, nats, loop>>

\* cancel: Unsubscribe, then closed = true under mu.
Unsubscribe ==
  /\ loop.at = "cancel" /\ sub.registered
  /\ sub' = [sub EXCEPT !.registered = FALSE]
  /\ nats' = [nats EXCEPT !.messages = 0]
  /\ UNCHANGED <<updatedAt, seen, loop>>

\* (fault) cancel does not tell the callback
MarkClosedNot ==
  /\ loop.at = "cancel" /\ ~sub.registered /\ sub.mu = "free"
  /\ loop' = [loop EXCEPT !.at = "drain"]
  /\ UNCHANGED <<updatedAt, seen, nats, sub>>

MarkClosed ==
  /\ loop.at = "cancel" /\ ~sub.registered /\ sub.mu = "free"
  /\ sub' = [sub EXCEPT !.closed = TRUE]
  /\ loop' = [loop EXCEPT !.at = "drain"]
  /\ UNCHANGED <<updatedAt, seen, nats>>

\* The channel is emptied and closed; the command ends.
DrainAndClose ==
  /\ loop.at = "drain"
  /\ IF sub.queued > 0
     THEN sub' = [sub EXCEPT !.queued = @ - 1] /\ UNCHANGED loop
     ELSE sub' = [sub EXCEPT !.channelClosed = TRUE] /\ loop' = [loop EXCEPT !.at = "ended"]
  /\ UNCHANGED <<updatedAt, seen, nats>>

-----------------------------------------------------------------------------
(* The command.                                                            *)

\* A query is asked at the server and answered with the bead as it is.
Query(next) ==
  loop' = [loop EXCEPT !.at = "answer", !.next = next, !.answer = updatedAt, !.unheard = FALSE]

InitialQuery ==
  /\ loop.at = "start"
  /\ \E next \in {"subscribe", "wait"} : Query(next)
  /\ UNCHANGED <<updatedAt, seen, nats, sub>>

Ended == [loop EXCEPT !.at = IF loop.next = "select" THEN "cancel" ELSE "ended"]

\* diffBeads: what differs from the last time is shown.  A query that fails
\* ends the command with an error, or without one when it was interrupted.
ShowChanged ==
  /\ loop.at = "answer"
  /\ \/ seen' = loop.answer /\ loop' = [loop EXCEPT !.at = loop.next]
     \/ seen' = seen /\ loop' = [Ended EXCEPT !.failed = TRUE]
  /\ UNCHANGED <<updatedAt, nats, sub>>

\* Every event restarts the debounce timer.
EventArrives ==
  /\ loop.at = "select" /\ sub.queued > 0
  /\ sub' = [sub EXCEPT !.queued = @ - 1]
  /\ loop' = [loop EXCEPT !.debounce = TRUE]
  /\ UNCHANGED <<updatedAt, seen, nats>>

\* (fault) a reconnect is noted, nothing is asked again
ReconnectedOnly ==
  /\ loop.at = "select" /\ loop.reconnect
  /\ loop' = [loop EXCEPT !.reconnect = FALSE]
  /\ UNCHANGED <<updatedAt, seen, nats, sub>>

Reconnected ==
  /\ loop.at = "select" /\ loop.reconnect
  /\ loop' = [loop EXCEPT !.reconnect = FALSE, !.debounce = TRUE]
  /\ UNCHANGED <<updatedAt, seen, nats, sub>>

DebounceFires ==
  /\ loop.at = "select" /\ loop.debounce
  /\ loop' = [loop EXCEPT !.at = "answer", !.next = "select", !.debounce = FALSE,
                          !.answer = updatedAt, !.unheard = FALSE]
  /\ UNCHANGED <<updatedAt, seen, nats, sub>>

\* watchPoll: without NATS, a query every interval.
IntervalPasses ==
  /\ loop.at = "wait"
  /\ Query("wait")
  /\ UNCHANGED <<updatedAt, seen, nats, sub>>

Interrupt ==
  /\ loop.at \in {"wait", "select"}
  /\ loop' = [loop EXCEPT !.at = IF @ = "wait" THEN "ended" ELSE "cancel"]
  /\ UNCHANGED <<updatedAt, seen, nats, sub>>

-----------------------------------------------------------------------------
WatchInit ==
  /\ updatedAt = 1 /\ seen = 0
  /\ nats = [messages |-> 0, connected |-> TRUE, outages |-> 0]
  /\ sub = [registered |-> FALSE, callback |-> "idle", mu |-> "free", closed |-> FALSE,
            channelClosed |-> FALSE, queued |-> 0]
  /\ loop = [at |-> "start", next |-> "start", answer |-> 0, debounce |-> FALSE, reconnect |-> FALSE,
             failed |-> FALSE, unheard |-> FALSE]

\* The steps of the command and of the NATS client, which the scheduler takes.
WatchSteps ==
  \/ InitialQuery \/ Subscribe \/ ShowChanged \/ DebounceFires \/ IntervalPasses
  \/ Unsubscribe \/ MarkClosed \/ DrainAndClose

WatchNext ==
  \/ \E published \in BOOLEAN : UpdateBead(published)
  \/ DisconnectNATS \/ ReconnectNATS \/ CallbackStart \/ CallbackLock \/ CallbackSend
  \/ EventArrives \/ Reconnected \/ Interrupt \/ WatchSteps

WatchSpec == WatchInit /\ [][WatchNext]_watchVars

-----------------------------------------------------------------------------
WatchTypeOK ==
  /\ updatedAt \in 1 .. MaxUpdates /\ seen \in 0 .. updatedAt
  /\ nats.messages \in 0 .. MaxUpdates /\ nats.connected \in BOOLEAN /\ nats.outages \in 0 .. MaxOutages
  /\ sub.queued \in 0 .. ChannelCap /\ sub.callback \in {"idle", "started", "sending"}
  /\ (sub.mu = "callback") = (sub.callback = "sending")
  /\ loop.at \in {"start", "subscribe", "select", "wait", "answer", "cancel", "drain", "ended"}
  /\ sub.channelClosed => loop.at = "ended"

\* "Call the returned cancel function to unsubscribe and close the channel":
\* a callback that is under way meanwhile never sends on the closed channel,
\* which would panic.
NeverSendsOnClosed == ~(sub.callback = "sending" /\ sub.channelClosed)

\* "immediately re-query for missed events": the bead is shown as it is in the
\* end, however many events were dropped, came while a query ran or were lost
\* with the connection, unless the command has ended, or the last change was
\* made between the first query and the subscription or was never published.
LastChangeShown == []<>(seen = updatedAt \/ loop.unheard \/ loop.at \in {"start", "ended"})
=============================================================================
