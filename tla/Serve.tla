-------------------------------- MODULE Serve --------------------------------
(***************************************************************************)
(* kd serve: what it opens and starts, what runs while it serves, and the  *)
(* order in which it stops everything after a signal.  gRPC calls, HTTP    *)
(* requests, the sync scheduler and the hooks subscriber all work on the   *)
(* store and publish; an HTTP stream ends when its client does.            *)
(***************************************************************************)
EXTENDS FiniteSets

CONSTANTS Caller, Browser, StreamClient  \* of gRPC, of HTTP, and of an HTTP stream

VARIABLES
  main,        \* where serve is
  opened,      \* of "store", "publisher": open now
  worker,      \* [reaper, sync, hooks]: off, idle or busy
  listening,   \* of "grpc", "http": accepting
  inFlight     \* callers whose call, request or stream is being handled

serveVars == <<main, opened, worker, listening, inFlight>>

Workers == {"reaper", "sync", "hooks"}
Grpc == inFlight \cap Caller
Http == inFlight \cap (Browser \cup StreamClient)
Goes(from, to) == main = from /\ main' = to

-----------------------------------------------------------------------------
(* Start.                                                                  *)

OpenStore ==
  /\ \/ Goes("start", "store") /\ opened' = {"store"}
     \/ Goes("start", "ended") /\ UNCHANGED opened
  /\ UNCHANGED <<worker, listening, inFlight>>

\* (fault) giving up leaves the store open
CreatePublisherOnly ==
  /\ \/ Goes("store", "publisher") /\ opened' = opened \cup {"publisher"}
     \/ Goes("store", "ended") /\ UNCHANGED opened
  /\ UNCHANGED <<worker, listening, inFlight>>

\* Without NATS the publisher does nothing.  If NATS cannot be reached at the
\* start, serve closes the store and gives up.
CreatePublisher ==
  /\ \/ Goes("store", "publisher") /\ opened' = opened \cup {"publisher"}
     \/ Goes("store", "ended") /\ opened' = {}
  /\ UNCHANGED <<worker, listening, inFlight>>

\* JetStream and the handlers on the bus do without what fails; the gRPC
\* address being taken ends serve.
ListenGRPC ==
  /\ \/ Goes("publisher", "grpc") /\ listening' = {"grpc"} /\ UNCHANGED opened
     \/ Goes("publisher", "ended") /\ opened' = {} /\ UNCHANGED listening
  /\ UNCHANGED <<worker, inFlight>>

\* The HTTP address being taken is logged, and serve goes on.
ListenHTTP ==
  /\ Goes("grpc", "sync")
  /\ listening' \in {listening, listening \cup {"http"}}
  /\ UNCHANGED <<opened, worker, inFlight>>

\* With an interval and a destination; it runs at once.
StartScheduler ==
  /\ Goes("sync", "hooks")
  /\ worker' \in {worker, [worker EXCEPT !.sync = "busy"]}
  /\ UNCHANGED <<opened, listening, inFlight>>

\* With NATS, unless its subscriber cannot connect.
StartSubscriber ==
  /\ Goes("hooks", "reaper")
  /\ worker' \in {worker, [worker EXCEPT !.hooks = "idle"]}
  /\ UNCHANGED <<opened, listening, inFlight>>

StartReaper ==
  /\ Goes("reaper", "serving")
  /\ worker' = [worker EXCEPT !.reaper = "idle"]
  /\ UNCHANGED <<opened, listening, inFlight>>

-----------------------------------------------------------------------------
(* Serving, also while serve starts and stops.                             *)

Running == main # "ended"

CallArrives(c) ==
  /\ Running /\ c \notin inFlight
  /\ IF c \in Caller THEN "grpc" \in listening ELSE "http" \in listening
  /\ inFlight' = inFlight \cup {c}
  /\ UNCHANGED <<main, opened, worker, listening>>

CallEnds(c) ==
  /\ Running /\ c \in inFlight
  /\ inFlight' = inFlight \ {c}
  /\ UNCHANGED <<main, opened, worker, listening>>

\* A tick, or a message.  Once told to stop a worker begins nothing new.
Works(w) ==
  /\ Running /\ worker[w] = "idle"
  /\ worker' = [worker EXCEPT ![w] = "busy"]
  /\ UNCHANGED <<main, opened, listening, inFlight>>

WorkEnds(w) ==
  /\ Running /\ worker[w] \in {"busy", "stopping"}
  /\ worker' = [worker EXCEPT ![w] = IF @ = "busy" THEN "idle" ELSE "off"]
  /\ UNCHANGED <<main, opened, listening, inFlight>>

-----------------------------------------------------------------------------
(* Stop.                                                                   *)

\* A worker that is idle may still pick its tick or message before the stop.
Told(w) == {[worker EXCEPT ![w] = s] :
              s \in IF worker[w] = "off" THEN {"off"} ELSE IF worker[w] = "busy" THEN {"stopping"} ELSE {"off", "stopping"}}

SignalArrives ==
  /\ Goes("serving", "stopReaper")
  /\ worker' \in Told("reaper")
  /\ UNCHANGED <<opened, listening, inFlight>>

\* Presence.Stop waits for the reaper; hooksCancel waits for nobody: a hook's
\* command is killed, but what the handler still does is not awaited.
StopReaper ==
  /\ Goes("stopReaper", "stopHooks") /\ worker.reaper = "off"
  /\ worker' \in Told("hooks")
  /\ UNCHANGED <<opened, listening, inFlight>>

CancelSync ==
  /\ Goes("stopHooks", "stopSync")
  /\ worker' \in Told("sync")
  /\ UNCHANGED <<opened, listening, inFlight>>

\* Scheduler.Stop waits for the sync under way; then no gRPC call is accepted.
StopSync ==
  /\ Goes("stopSync", "stopGRPC") /\ worker.sync = "off"
  /\ listening' = listening \ {"grpc"}
  /\ UNCHANGED <<opened, worker, inFlight>>

\* GracefulStop waits for the calls under way, however long they take.
StopGRPC ==
  /\ Goes("stopGRPC", "stopHTTP") /\ Grpc = {}
  /\ listening' = listening \ {"http"}
  /\ UNCHANGED <<opened, worker, inFlight>>

\* (fault) Shutdown without a deadline
StopHTTPPatiently ==
  /\ Goes("stopHTTP", "closePublisher") /\ Http = {}
  /\ UNCHANGED <<opened, worker, listening, inFlight>>

\* Shutdown waits for the requests under way, but for 10 seconds at most.
StopHTTP ==
  /\ \/ Goes("stopHTTP", "closePublisher") /\ Http = {}
     \/ Goes("stopHTTP", "closePublisherLate") /\ Http # {}
  /\ UNCHANGED <<opened, worker, listening, inFlight>>

ClosePublisher ==
  /\ Goes("closePublisher", "closeStore") \/ Goes("closePublisherLate", "closeStoreLate")
  /\ opened' = opened \ {"publisher"}
  /\ UNCHANGED <<worker, listening, inFlight>>

CloseStore ==
  /\ Goes("closeStore", "exit") \/ Goes("closeStoreLate", "exitLate")
  /\ opened' = opened \ {"store"}
  /\ UNCHANGED <<worker, listening, inFlight>>

\* The process ends, and with it whatever still runs.
Exit ==
  /\ Goes("exit", "ended") \/ Goes("exitLate", "ended")
  /\ worker' = [w \in Workers |-> "off"] /\ inFlight' = {} /\ listening' = {}
  /\ UNCHANGED opened

-----------------------------------------------------------------------------
ServeInit ==
  /\ main = "start" /\ opened = {} /\ listening = {} /\ inFlight = {}
  /\ worker = [w \in Workers |-> "off"]

StopSteps ==
  \/ StopReaper \/ CancelSync \/ StopSync \/ StopGRPC \/ StopHTTP
  \/ ClosePublisher \/ CloseStore \/ Exit

ServeNext ==
  \/ OpenStore \/ CreatePublisher \/ ListenGRPC \/ ListenHTTP
  \/ StartScheduler \/ StartSubscriber \/ StartReaper
  \/ \E c \in Caller \cup Browser \cup StreamClient : CallArrives(c) \/ CallEnds(c)
  \/ \E w \in Workers : Works(w) \/ WorkEnds(w)
  \/ SignalArrives \/ StopSteps

ServeSpec == ServeInit /\ [][ServeNext]_serveVars

-----------------------------------------------------------------------------
ServeTypeOK ==
  /\ opened \in {{}, {"store"}, {"store", "publisher"}}
  /\ worker \in [Workers -> {"off", "idle", "busy", "stopping"}]
  /\ listening \in {{}, {"grpc"}, {"http"}, {"grpc", "http"}}
  /\ inFlight \subseteq Caller \cup Browser \cup StreamClient
  /\ main = "ended" => opened = {} /\ inFlight = {}

\* Nobody works on a store or with a publisher that is not open, but for what
\* the code does not wait for: the hooks subscriber, and HTTP requests beyond
\* the 10 seconds.
OpenWhenUsed ==
  \/ opened = {"store", "publisher"}
  \/ /\ Grpc = {} /\ worker.sync \in {"off", "idle"}
     /\ Http # {} => main \in {"closeStoreLate", "exitLate"}

\* "Graceful shutdown": whoever is at work when the signal comes keeps store and
\* publisher until it is done, and then the server does end, though clients of
\* its streams stay for ever.  (Calls, requests and syncs themselves end.)
GracefulShutdown ==
  /\ []OpenWhenUsed
  /\ main = "stopReaper" ~> main = "ended"
=============================================================================
