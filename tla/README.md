# A TLA+ model of kbeads

kbeads is an event-driven tracker of work items ("beads"). A Go server (`kd
serve`) keeps beads in Postgres behind a gRPC and an HTTP API, publishes an
event for every mutation (an events table, NATS, SSE streams), gates coding
agents through hook events, tracks which agents are alive, and exports the
store to S3 and git. The CLI (`kd`) runs the agents' side: claiming, jacks,
formulas, watching.

This directory holds the verification project: TLA+ modules translated from the
Go and SQL source, TLC configurations that check them on small instances, and
TLAPS proofs of the properties that must hold for all of them. File and line
references below are relative to the repository (`internal/...`, `cmd/kd/...`);
`PROJECT.json` maps every definition to its lines.

## 1. Inventory

### Server

| Component | State | Operations | Interacts with | What is hard | What makes it correct |
|---|---|---|---|---|---|
| **Bead store and mutation handlers** (`server/beads.go`, `http_beads.go`, `http_relations.go`, `store/postgres`) | tables beads, labels, deps, comments, events | create, update, close, merge of fields, delete, labels, dependencies, comments, over gRPC and HTTP | every other component mutates beads through it; `recordAndPublish` after each mutation | only `createBead` is a transaction: a handler is a sequence of statements that interleave with others', any of which may fail or take effect and lose its reply | rows consistent (`ClosedAt` with `Status`); an update nobody interfered with has its effect; deletes cascade and are final; one deletion is published once |
| **Events log and publication** (`server/server.go`, `events/`) | events table, NATS subjects, SSE hub | recordAndPublish | called by every mutation handler | best effort: the change is committed before the event is recorded | topics per operation; a failed publication fails nothing else |
| **Stop gate** (`http_hooks.go`, `http_gates.go`, `postgres/gates.go`) | `session_gates` row and the agent bead's `gate_satisfied_by` | hook Stop, satisfy, clear, yield | reads and writes agent beads by whole-row updates; then advice hooks and the bus | two records, separate statements, failures logged and passed over | one yield lets one Stop through |
| **SSE hub** (`server/sse.go`) | id counter, ring of recent events, client channels | broadcast, subscribe, eventsSince, unsubscribe, the stream handler | broadcast runs inside every mutation handler | three locks taken one after the other; bounded ring and channels; reconnection | no gap between replay and live stream; a slow client blocks nobody; order |
| **SSE topic filters** (`sse.go`) | none | matchTopicPattern | the hub | wildcards at the ends | `*` is one segment, `>` one or more |
| **Sync scheduler** (`internal/sync`) | S3 object, a git clone and its branch at origin | export on start and on every tick, S3 and git destinations, Stop | reads the store; other clones push to the branch | failing and killed git commands, rival pushes, restarts | success means origin has the export; nothing of origin is lost; failures heal |
| **Presence tracker** (`internal/presence`) | an entry per actor, the reaper's goroutine | RecordHookEvent, Roster, the reaper's sweep | hook events; OnDead | clocks are read before the lock is taken; the reaper calls out after releasing it | a live actor is not marked dead; a death is reported once; silent actors are evicted |
| **Event bus** (`internal/eventbus`, `http_bus_sse.go`) | handlers by priority, JetStream streams | Register, Unregister, Dispatch, bus streams | hook events | handler errors, cancellation, unstable sort; lost messages and consumers of a bus stream | priority order; a block stops nothing but the agent; errors do not stop the chain; a stream is complete up to what is dropped or lost |
| **Advice hooks** (`internal/hooks`, `model/advice.go`) | none (reads advice beads) | HandleSessionEvent, external commands with timeouts | hook events, mutation events | which subset matches; failures pass | first block wins; unreadable advice lets through |
| **Decisions** (`http_decisions.go`) | decision beads | list, get, resolve, cancel | the store's merge and close; closes and updates of any bead | merge and close are separate, updates write the whole row | a closed decision shows an outcome |
| **Configs** (`config.go`, `type_config.go`, `validate_fields.go`) | configs table | get, set, list, delete; type configs with built-in fallback | every create and update | a type config changed between two updates | fields stored conform to the type at the time |
| **Ready, blocked, graph** (`http_graph.go`, `batch_queries.go`) | none | ready and blocked lists, graph | reads beads and deps in several statements | reads are no snapshot; limits before filters; errors count as "not blocked" | what is reported ready has no open blocker |
| **Listing and search** (`queries.go`, `filter.go`) | none | list with a filter, a page and a total | every list of every client | one request reaches the filter by three transports that encode it differently | the server queries with what the client was asked for |
| **Row scanning**, **authentication** | none | | | pure functions of one row or one header | |
| **Start and shutdown** (`cmd/kd/serve.go`) | the order of the above | | owns all | handlers that outlive their store and publisher | nothing is used after it is closed |

### Clients

| Component | State | What is hard | What makes it correct |
|---|---|---|---|
| **Claiming** (`claim.go`, `unclaim.go`) | assignee of a bead | check and update are separate calls | one bead has one claimant, one agent one claim |
| **Jacks** (`jack_*.go`, `model/jack.go`) | jack beads with a change log and a TTL | the log and the limits are read, changed and written back by the client | no change is lost; limits hold |
| **Formulas and molecules** (`formula_*.go`, `mol_*.go`) | formula beads; molecule beads, their steps and dependencies | fields merged from copies; a sequence of creates and links that may stop anywhere | a formula comes from one file; a step is not ready before its predecessors are done |
| **kd watch and the NATS subscriber** (`watch.go`, `events/nats.go`) | a bounded channel, a debounce timer | drops, cancel against a running callback, a timer that restarts | the last change is shown |
| **Remotes** (`remote.go`, `main.go`) | `remotes.toml` | processes read, truncate and rewrite it without a lock | one remote per name, an active one that exists, URL and token of one add |
| Output, views, generated code, API wrappers | | formatting and one call per method | |

Three properties of the design shape all of it: the server has many goroutines
and no lock over the store; almost no sequence of statements is atomic; and
everything that follows a committed change is best effort. The models
therefore interleave **statements**, let every one of them **fail before or
after it took effect**, and state what still holds.

The hazards found in this code, each at its line, are listed in `PROJECT.json`
with the properties that cover them or the reason there is none.

## 2. Modules

| Module | What it is |
|---|---|
| `Beads` | mutation handlers over the tables |
| `BeadsProofs` | its theorems |
| `StopGate` | the decision gate of one agent |
| `StopGatePromise` | the abstract gate: a turnstile |
| `StopGateProofs` | safety of the gate and its refinement of the turnstile |
| `SSEHub` | broadcast, ring, channels and streams |
| `SSEHubProofs` | theorems about it and about `TopicMatch` |
| `TopicMatch` | `matchTopicPattern` and the meaning of its wildcards |
| `GitSync` | sync scheduler with S3 and git destinations |
| `GitSyncProofs` | its theorems, and those of it beside `Presence` |
| `Presence` | the presence tracker and its reaper |
| `PresenceProofs` | its theorems |
| `Claims` | claim, unclaim, done, close, reopen, defer, update, create, label, orphans |
| `Jacks` | jack up, log, extend, down, check |
| `Molecules` | formula apply, the agents' work on its steps, bond, squash, burn |
| `Ready` | the ready query over `Molecules` |
| `MoleculesProofs` | theorems about both |
| `Formulas` | formula create and update |
| `Decisions` | resolve and cancel of a decision |
| `Configs` | type configs and the validation of fields |
| `Remotes` | `remotes.toml` |
| `AgentsProofs` | theorems about `Claims`, `Jacks`, `Decisions`, `Configs`, `Formulas`, `Remotes` and `ListRequests`, and about `MCAgents` |
| `ListRequests` | a list request on its way to the server's filter |
| `Listing` | what a filter selects |
| `Graph` | the graph request over `Listing` |
| `HookEmit` | hook events through advice hooks and bus handlers |
| `BusStream` | JetStream streams and the bus's SSE endpoint with its client |
| `Watch` | kd watch and its NATS subscription |
| `Serve` | start and shutdown of `kd serve` |
| `ServerProofs` | theorems about `Watch`, `HookEmit`, `Serve`, `Graph` and `BusStream`, and about `MCServer` |
| `MCAgents`, `MCServer`, `MCBackground` | compositions, and instances for TLC |
| the other `MC...` | instances TLC checks |

The compositions `MCAgents`, `MCServer` and `MCBackground` put components side by side that
touch different rows, files or goroutines. Interleaving them would multiply states
without adding behaviours of any one of them, so a variable `cast` picks the component
that is at work in a behaviour. Components that do meet are one specification: `Ready`
EXTENDS `Molecules` and interleaves the query with everything in it, `Graph` EXTENDS
`Listing`, `HookEmit` has hooks and bus, `BusStream` publisher, handler and client,
`Watch` server, NATS client, subscription and command.

Definitions marked `(fault)` are plausible bugs in the definition that follows
them. No specification uses them; they show that each property can tell the
code from the bug (see `mutants` in `PROJECT.json`).

### Beads

A request is a goroutine that runs one handler. `pc[r]` is its next SQL
statement, `call[r]` what the client asked, `row[r]` the whole row an update or
merge is about to write, `adding`/`removing` the label differences still to be
applied. Each action is one statement together with the Go code up to the
next:

- `ReadRow` is `GetBead` and the patching of the copy (`updateBead` with
  validation, `mergeBeadFields` without); `WriteRow` is `UPDATE beads SET
  <every column>`; a bead deleted in between makes it an error (`Missing`).
- `GetLabels`, `ReconcileRemove`, `ReconcileAdd` are `reconcileLabels`.
- `Close` is the one UPDATE of `CloseBead`, `Create` its transaction, `Delete`
  the DELETE with its cascades; the rest are single INSERTs and DELETEs.
- `RecordEvent`, `RecordAdvice` are `recordAndPublish`, which may lose the event.
- `Fail` is an error before a statement took effect, `Took` one after. The HTTP
  close goes on after a failed merge; everybody else gives up.

`alone[r]` is a history variable: no other request has written to the bead
since `r` began. Requests that write the same bead are told apart from
requests that merely exist, which is what makes lost updates statable.

Data is abstracted: `assignee` stands for every column copied through,
`closedAt` is a Boolean, dependencies have one type. Deferred dates, due dates,
priorities and the text columns behave as `assignee` does.

Properties: `ClosedConsistent`, `NoOrphans`, `GoneForGood`, `DeletedOnce`,
`WriteBackIsFresh`, `UpdateTookEffect`. `NilStatusMeansKeep` is what the comment
on `updateBeadInput` promises, and does not hold.

### StopGate

`gate` is the `session_gates` row, `field` is `gate_satisfied_by` on the agent
bead. Five kinds of requests touch them: Stop hooks, yields (satisfy, then set the
field), bare satisfies, clears, and updates of the agent bead that carry the
field along unread. `AfterFailure` is what `handleHookEmit` does on errors: it
logs and goes on, blocking when a record cannot be read and not blocking when
one cannot be consumed. `RunHooks` is the rest of the handler (advice hooks,
bus), which may still block.

The yield is external: `gb yield` is a client outside this repository, modelled
from how `decision_test.go` plays it. `Overlap` says whether two Stops of the
agent may be handled at once. An agent emits its hooks one at a time, so the
properties are stated for `Overlap = FALSE`; the code does nothing to enforce
it, and the run `gate_overlap` shows what happens otherwise.

`StopGatePromise` is what the gate is for: `open`, `opened`, `through`; only a
mark opens it, a pass shuts it. The refinement mapping takes the gate for open
while the row says satisfied **or** a Stop has seen that and not cleared it yet.

### SSEHub and TopicMatch

A publisher is one call of `broadcast`; its steps are the three critical
sections: `TakeId` (under `idMu`), `Store` (under `ringMu`), and
`EnterFan`/`Send`/`LeaveFan` (under `mu.RLock`, which holds back `subscribe` and
`unsubscribe`). A client's handler subscribes, replays `EventsSince(lastID)`,
then streams from its channel. A replay is a sequence of **slots**: `eventsSince`
returns pointers into the ring and the handler reads them after the lock is
gone.

History variables: `owed` (events due to a client that has been there), `excused`
(those lost where the design says so: full channel, or overwritten in the ring
before a reconnection), `torn` (a broadcast overwrote a slot of a replay under
way; the client is then ahead of what it has received), and two for broadcasts
that overlap: `late`, the ids that a broadcast of a higher id was stored before,
and `overtaken`, per client, those that one was sent before. A client that has received
the higher id comes back with it and never gets the lower one, so `NoLoss`
excuses just these. `ReplayAsStored` says how far "in order" (`sse.go:109`)
goes: an event of a replay is behind a higher id only if it was stored behind it.
`ReplaySorted` is the comment itself, and does not hold.

`TopicMatch` has the loop of `matchTopicPattern` as an operator (the first
segment that decides) and `Means`, what NATS wildcards mean. `MCSSEHub` computes
what a client wants from its filters with it.

### Presence

`actors` is the tracker's map. A call of `RecordHookEvent` reads the clock
(`ReadClock`) and then takes the lock (`RecordHookEvent`); the reaper does the same
(`TickerFires`, `Sweep`) and then calls `OnDead` for every actor it marked. Times are kept as
**ages**, which `Tick` advances up to a cap beyond all thresholds, so that no
bound on the clock is needed and eviction can be stated as liveness. `MaxWait`
bounds how long a goroutine may wait for the lock with its clock reading in
hand. `heard` and `newest` are history: the ages of the last call recorded and
of the newest reading recorded. They differ because two calls of one actor can
get the lock in the other order than they read the clock, so that `lastSeen` goes
back; `NotMarkedEarly` and `NotForgottenEarly` say by how much that matters.
The fields an entry keeps for display are left out.

### GitSync

One goroutine: export, `PutObject`, then the commands of `GitDestination.Write`.
A branch is the sequence of its commits with the exported file in each. Every
command may fail, a push may fail after it has reached origin, `Stop` kills the
command that runs (leaving `index.lock` behind or not), rivals push other files
to the branch. `calm` is a choice of the environment to stop disturbing;
`quiet` that it was calm throughout a sync.

### Claims

A session runs one command; `cmd[s]` is where it is in it. `claim` lists, checks the
epic, checks the project, updates; each check passes when its call fails, as in
`claim.go`. Commands of one remote call are one step, with three outcomes: no effect
(the step is not taken), effect, effect with a lost answer (the same to the store).
`orphans` closes a list it read before. `excused` holds the agents that got an issue
past the check: forced, `kd update`, two claims at once, an unreadable or crowded list.
`OneClaim` says those are the only ways. That a claim takes another agent's bead
away is as the code has it.

### Jacks

One jack; every command reads all fields, changes its copy, and writes all of them
back. `fresh` tells whether anyone wrote the bead in between. `JackKeepsRecord` counts
what was granted and logged in history variables, and compares with the fields: no
record is lost and no limit exceeded until a stale write (`raced`).

### Molecules and Ready

`Resolve` is `instantiateFormula` (values, defaults, enums, conditions, dropped
dependencies); `CreateMolecule` to `Applied` are the calls of `formula apply`, which
stops at the first error and takes nothing back. Agents work on the steps meanwhile.
Squash and burn read the children once, then close or delete them one by one; burn
goes on after a failed call, squash gives up while it reads. `undone` is history:
something was linked, reopened or failed since. `Ready` adds `GET /v1/ready`: one
list, then per bead its dependencies, then per blocker its row, while everything
above goes on. `ReadyIsExact` holds when nothing changed under the query,
`StepsInOrder` whatever changes, if the query began after the apply had ended.

### Formulas

The fields a client sends, and the server's merge of them (`MergeIntoRow`) and write
back (`StoreRow`), each in a step of its own. `FormulaIsOneFile`: variables and steps
are always those of one accepted file, though `--assignee` sends back all it read.
`ClearedIsNobodys` is what the help of `--assignee` says, and does not hold.

### Decisions

Merge (read, write) and close as three statements, any of which may fail; a failed
merge is followed by the close. Two more callers touch the bead: a close (`kd close`,
which by HTTP merges the fields of its body first) and an update (`kd update`, `kd reopen`,
PATCH), which writes back the whole row that it read. `ClosedHasOutcome` says that a closed decision shows an outcome.
`excuse` is history, and holds from a write that is no answer's and leaves the row without an outcome, because
it closes the row (so does an answer whose merge failed) or takes away an outcome that was there (a stale
or a clearing update), until an answer is merged again. Deleting the bead is in `Beads`.

### Configs

`stored` is the row of one type in the configs table, changed at any time. A create
or update resolves it (`Resolved`, with the built-in configs of `config.go`) and
validates; a merge does not. `seen` and `basis` collect the configs in force during
the request that stored the fields: `FieldsConform` asks for one of them that the
fields conform to, by a definition (`Conforms`) written independently of `ValidateFields`.

### Remotes

A file, and processes that load it whole, change the copy, truncate the file, and write it.
A write may come in two parts (`WriteBeginning`, then `WriteFile`), and the process may be killed in between: what
is in the file is a beginning of the text (`Beginnings`: some of its remotes, the last of them perhaps without its token
or its URL). Two writers both write from the start of the file: the end of the longer text stays behind the shorter
one, and any lines of either may be read under any name of either (`Mixed`; which, depends on their lengths). `layers` are the texts
written since the last truncation. URL and token are numbered by the command that gave them, so that a
remote with the URL of one add and the token of another can be told. `torn` is history: the file, or the copy a process
made of it, stems from such a write. `ActiveIsWhole` says what holds while it does not: commands that overlap
between load and save, or that are killed between truncation and write, lose changes and never mix them.

### ListRequests, Listing and Graph

`ListRequests` follows one request through `HTTPClient.ListBeads` and `handleListBeads`,
through `GRPCClient.ListBeads` and `BeadsServer.ListBeads`, and through `connectList`.
A text is the sequence of the pieces its separators cut it into, so that joining
and splitting lists are what they are. `FilterAsAsked` names, per transport, the
requests that arrive unchanged.

`Listing` gives a filter its meaning as a predicate over rows and links. `Graph` is
`handleGraph`: a listing per status, and per type if types are given, a limit by relevance, two concurrent batch
queries of links, rows of missing and closed neighbours, and the construction of nodes
and edges with parents, promotion of `blocks` edges, agents and pruning, while other
requests change rows and links. `steady` and `kept` are history: the beads
selected, and the links that held, throughout.

### HookEmit

A request without an agent is answered at once. Any other goes through its gate (an outcome here; `StopGate` has the inside), lists advice,
completes its subscriptions, runs the advice that applies one by one, and then the
bus's handlers by priority, of which equals come in any order. `Concerns` is the
meaning of scopes and groups, next to the algorithm of `MatchesSubscriptions`.
History: `said` are the handlers that blocked, `awaited` is false once the client went away (the chain then
drops what they said), `relied` marks answers whose reads succeeded. `BlockersHeeded` uses each only
where it must: that a fatal hook blocks needs none of them, that handlers are heeded needs `awaited`, and which
advice has run needs `relied`.

### BusStream

Subjects and streams of event types (`SubjectOf`, `StreamOf`), the endpoint with a
channel of 128 that drops when full, and the client with one of 64 that waits.
A request names a list of streams, and each of its entries has a subscription of its own, named by its place in the list;
a stream named twice is delivered twice. Behind a subscription is an ephemeral push consumer of JetStream, which is external: it
sends the messages in order (`Deliver`), the NATS client acknowledges each when the callback has returned, and what is not acknowledged,
because the message or the acknowledgement was lost, is sent again (`Redeliver`). In an outage the consumer itself may be removed
(`ConsumerGone`), without a word to the handler or its client. `resent` and `dropped` are history.
`StreamsAsAsked` compares what the client has read, and what is on its way, with the log, entry by entry.

### Watch

Bead changes with an event each that may be lost, a connection with outages, the
subscription's callback and `cancel` with their mutex in separate steps, the debounce
timer, queries that are answered at one moment and shown at another. An armed timer may
fire at any time. `unheard` marks the one gap there is: a change that nobody announced.

### Serve

`main` walks through `serve.go`; workers (reaper, scheduler, hooks subscriber) and
callers (gRPC, HTTP, streams that never end by themselves) are idle or busy. The
scheduler and the reaper are waited for, gRPC calls too, HTTP for 10 seconds, the hooks
subscriber not at all.

## 3. Runs

| Run | Instance | Shows |
|---|---|---|
| `beads` | 2 beads, 3 requests out of 21 calls, 2 labels, 1 field key with 2 values | all properties of `Beads` |
| `beads_nil_status` | 1 bead, an update and a close | `NilStatusMeansKeep` is violated |
| `gate` | 3 Stops, 2 yields, a satisfy, a clear, an unrelated update | `OneStopPerYield`, `Turnstile` |
| `gate_overlap` | 2 Stops at once, 1 yield, no failures | `OneStopPerMark` is violated |
| `sse` | 3 overlapping broadcasts, 1 client with 3 connections, ring of 2, channel of 1, 2 topics | `NoLoss`, `ReplayAsStored`, `MatchIsMeaning` |
| `sse_live` | 3 overlapping broadcasts, 1 client with 2 connections, ring of 2, channel of 1 | `PublisherFinishes`, `Delivered` |
| `sse_order` | 2 overlapping broadcasts | `ReplaySorted` is violated |
| `background` | presence: 1 agent, 2 calls at a time, thresholds 3, 3 and 1, waits of up to 2; git: 4 exports of 2 versions, 2 rival pushes, 1 restart | `DeadMeansSilent`, `NotMarkedEarly`, `ReportedOncePerDeath`, `NotForgottenEarly`, `SilentIsEvicted`; `NilMeansPushed`, `OriginOnlyGrows`, `LoneSyncSucceeds` |
| `git_rival` | 2 exports, 1 rival push | `CalmSyncSucceeds` is violated |
| `formula_clear` | 1 terminal, 3 commands | `ClearedIsNobodys` is violated |
| `agents` | one of: 3 sessions of 2 agents with 3 commands on 3 beads; 2 runners on a jack; 2 responders; 3 steps, a molecule and a bond target, with and without the ready query (limit 2); 2 editors, 2 configs; 2 processes, 1 name of a remote, 3 commands; 192 command lines and 18 request bodies; 2 terminals, 4 files, 3 formula commands | `OneClaim`, `JackKeepsRecord`, `ClosedHasOutcome`, `EndedMeansDone`, `ReadyIsExact`, `StepsInOrder`, `FieldsConform`, `ActiveIsWhole`, `FilterAsAsked`, `FormulaIsOneFile`, `TypeOK` of all |
| `server` | one of: 1 request, 3 advice beads, 2 handlers; 3 events of 3 types, channels of 1, a list that names a stream twice, 1 message, acknowledgement or consumer lost; 4 changes, 2 outages, channel of 1; 2 gRPC callers, a browser and a stream; 3 beads, 2 changes, 3 graph requests, limit 2 | `BlockersHeeded`, `StreamsAsAsked`, `NeverSendsOnClosed`, `LastChangeShown`, `GracefulShutdown`, `GraphIsWhole`, `TypeOK` of all |

Why these bounds are enough:

- **Beads.** A hazard here is a stale copy (one request reads, a second writes
  or deletes, the first writes) plus a third that observes or deletes again.
  Three requests are what the longest of these takes; the theorems below cover
  any number. The calls come in three groups (rows, labels, links) and
  `OneScenario` keeps a behaviour within one group and, for the first two, on one
  bead: the groups write different tables, except for deletes, updates and
  closes, which are in more than one. The update calls carry one change each,
  so a state or field value that needs two patches takes two requests.
- **StopGate.** Three Stops against two yields: more Stops than anything that
  could let them through, and room for a second cycle.
- **SSEHub.** Three events wrap a ring of 2 and overflow a channel of 1, and one may be passed by two;
  three connections give a replay after a replay. One client,
  because clients meet only in the mutex, which the publishers already contend for.
- **Presence.** The thresholds exceed the waits, as 5 to 30 minutes exceed a wait for a
  mutex, and differ from each other; two events are enough to stop being ephemeral. One agent,
  because the tracker treats its entries one by one. The theorems have no such bounds.
- **GitSync.** Two rival pushes and four exports are a failure, a sync that runs
  into its effect, a sync that should heal, and one more.

- **agents.** Two sessions of one agent race, a third belongs to another; a list limit
  of 1 is crowded by two beads, as 5 is by six. Three steps in a chain with a skipped middle make a
  dependency that is dropped; a ready limit of 2 cuts the five beads. Two commands on one jack,
  decision, field set or formula are a stale copy and its victim, and a third follows once one has
  ended, since processes start again. Three remote commands are two adds that overlap and a process that connects, or
  a third that copies what they left; one name is enough to mix them under it. The command lines of `kd list` are all combinations of
  its flags given or not, once, twice, and with a comma in a value.
- **server.** One emitter, as requests share nothing but the advice, which changes under it. Channels of 1
  overflow with two messages. A message that is lost comes again after later ones; the doubly named stream gives two consumers of one log. Four changes are one shown, one lost, one dropped and one last. Three
  beads are a parent, a child and a neighbour; two changes fall between any two reads.

`CHECK_DEADLOCK FALSE` is set where the system may come to rest: commands, publishers,
updates, exports and outages are bounded and the models stop when they are used up (SSE,
background, git, agents, formulas), and a server ends. `Beads` and `StopGate` end in an explicit
stuttering action once every request is answered, so that deadlock checking is on and
means a stuck handler.

**Fairness.** `PublisherSpec` assumes weak fairness of every publisher's steps
after it has its id: a goroutine that can run is run by the Go scheduler, and
none of the locks in `broadcast` is held while waiting for anything but the
other critical sections. Nothing is assumed of a client, which may never read;
`PublisherFinishes` holds all the same. `Delivered` holds **if** the handlers
also keep running (`HandlerFairness`): whether they do is up to the client's
TCP connection, so it is a premise of the property, not part of the specification.
`Presence` assumes that time passes, the ticker fires, a goroutine that waits for
the mutex gets it, and `OnDead` returns (`kd serve` sets none).
`WatchFairness`: the goroutines of kd watch and of its NATS client are scheduled, and the
client reconnects in the end (`MaxReconnects(-1)`). Nothing is assumed of the server's changes; an
armed debounce timer fires, since changes pause at their bound. `ServeFairness`: `serve` goes on to its
next statement, gRPC calls end (each is a few statements with a context) and so does the work of the
goroutines that are waited for; of HTTP requests and streams nothing is assumed.

## 4. Proofs

All theorems hold for any values of the constants that satisfy the named assumptions. These say

- that markers differ from data (`BeadsAssumption`, `ClaimsAssumption`, `ConfigsAssumption`, `FormulasAssumption`,
  `GitSyncAssumption`, `HooksAssumption`, `MoleculesAssumption`, and `GraphAssumption`, where an agent's node is no bead
  because its id begins with `agent:`, `http_graph.go:407`), and that the kinds of requests at the gate are disjoint
  (`StopGateAssumption`);
- that bounds are numbers and sets finite where they are counted (`SSEHubAssumption`, `JacksAssumption`, `RemotesAssumption`,
  `BusAssumption`, `WatchAssumption`, and of `ClaimsAssumption` and `GraphAssumption`); the channel of a NATS subscription has
  room for at least one message, as its 64 are (`WatchAssumption`): one that can hold none would drop every change;
- that what a run gives as inputs (initial rows, links, labels, filters, and the fields of `PatchAssumption`) is of the types the code accepts. The names of event
  types have a segment (`BusAssumption`); a request for a list is a `ListBeadsRequest` or a command line of `kd list`
  (`RequestsAssumption`), and its names are not empty: an empty one cannot be told from none in a query string; fields in a
  request are JSON values, each of a kind (`ConfigsAssumption`);
- that a wait for the tracker's lock is shorter than the threshold (`PresenceAssumption`);
- that a formula's steps are listed in some order and need each other (`MoleculesAssumption`), cycles included.

TLC evaluates each of them on the instance it checks. No theorem assumes the bounds of a run:
the numbers of requests, agents, events, retries and rows are arbitrary.

**BeadsProofs.** The inductive invariant is

    IInv == TypeOK /\ ClosedConsistent /\ CopiesConsistent /\ NoOrphans

`ClosedConsistent` alone is not inductive: `WriteRow` stores a copy made
earlier. `CopiesConsistent` adds that every copy about to be written is
itself consistent; `ReadRow` establishes it, from the row it read and, for
`updateBead`, from validation (`ImageType`), so that even a merge, which never validates, and
a stale copy keep the table consistent. From `IInv`: `BeadsTypeCorrect`,
`BeadsClosedConsistent`, `BeadsNoOrphans`, and `BeadsGoneForGood`
(`StepGone`: no statement but `Create` brings a row into being, and `Start`
never hands out a used id). `BeadsWriteBackIsFresh` adds to it that a copy held by
a request still `alone` is the image of the stored row
(`StepWriteBackIsFresh`): each statement that changes a row also ends the
`alone` of everyone else at that bead.

`BeadsUpdateTookEffect` speaks of the moment an update returns; `UpdateStored` says what is in the tables
at each place on the way there: the row it wrote, and, between the two statements of
`reconcileLabels`, labels that will be the ones asked for when what is left to remove and to add is done
(`OpPlaces` says which places an update goes through). `BeadsDeletedOnce` needs three facts together: an id is
created once (`CreatesOnce`), of the requests that delete a bead one finds the row and is the only one
still to say so (`DeletesOnce`), and who has said so has an entry of its own in the log (`Recorded`).

**StopGateProofs.** `TypeOK /\ Roles` is inductive whatever overlaps and fails.
With `Overlap = FALSE`, so is `OneStopAtATime`. On top of these:

- `MarkLedger`: `passed + (1 if Open) <= marks`. `passed <= marks` alone is not
  inductive: it must count the mark that is still to be used. It needs that
  `ClearGate` does not fail (`"clear" \notin MayFail`), for then a Stop passes and
  the gate stays open.
- `YieldLedger`: `~spoilt => passed + (1 if Yielded) <= yields`, where `Yielded` is
  an accepted field no Stop is about to erase, or a Stop that has seen one.
  It does **not** need `ClearGate` to succeed: the field is the second lock of the door.
- `StepIsPromise`: every step is a step of the turnstile or leaves it alone, hence
  `StopGateTurnstile`: `Spec => Promise!Spec`.

**PresenceProofs.** The invariant relates an entry to the history (`InStep`):
`idle` is at most one `MaxWait` ahead of what was heard; a dead entry had been idle for
`DeadThreshold` when marked, and nothing was heard since. From it follow
`PresenceDeadMeansSilent` (an invariant), `PresenceNotMarkedEarly` and
`PresenceNotForgottenEarly` (action properties), for any thresholds above `MaxWait`.
`PresenceReportedOncePerDeath` needs only that the list of calls is empty outside of the calls (`CallsMade`).

**SSEHubProofs.** Two invariants. `HubIInv` holds however broadcasts overlap: ids are given out once
(`IdsTaken`, by counting the publishers that have started), and the last `ringLen` slots hold events, no two
alike (`RingHolds`). `Age(s)` numbers the slots from the newest back, so that storing is "all others get one
older" (`OneOlder`) and the walk of `eventsSince` is one by descending age.

`LossIInv` is about overlapping broadcasts and all that follows from them: a greater id stored first, a client that
has received it and comes back with it as `Last-Event-ID`, and the lesser one behind it. It says which ids these
are. `LateKnown`: an event still to be stored that no greater id got ahead of is newer than all that were. So the slots of the
ring ascend, but for ids in `late` (`RingInOrder`), and a channel ascends, but for those in `overtaken` (`ChansInOrder`).
`NothingLost` then says that what a client misses, apart from these, is newer than all it has and is in its
replay, its channel or a fan-out on its way to it, unless the ring overtook the replay (`torn`). The gap between
`subscribe` and the replay is where this could go wrong: an event stored in between is in both, and is
skipped once by its id. `SSEHubNothingLost` and `SSEHubReplayAsStored` follow, with no hypothesis on how broadcasts overlap.

`WildcardsMean` takes the loop of `matchTopicPattern` apart: the first segment at which the loop returns exists
(well-founded induction on numbers), and what it returns there is what `*` and `>` mean, for patterns and topics
of any length. The run's `MatchIsMeaning` is this fact on short ones (`SSEHubMatchIsMeaning`).

**MoleculesProofs.** `MoleculesIInv` says what burn and squash have gone through so far: every child linked before
the list was read is in what is left, or has been deleted or closed (`Sweeping`), unless something was
linked, reopened or failed since (`undone`); `Linking` ties children to the links apply has made.
`ReadyIInv` adds, for the store, that each dependency has both its beads, that skipped steps have none, and that every
link of the formula is made, still to be made, or has lost an end (`EndsThere`, `Chosen`, `Ordered`); and for the request
what it has found so far: exactly what is ready, while nothing changed (`FoundSoFar`), or steps whose needs are met
apart from those it is still reading (`InOrder`). `ReadyReadyIsExact` and `ReadyStepsInOrder` follow at its end. Nothing is assumed of
the formula's needs; with a cycle no step of it is ever ready.

**AgentsProofs.** Seven components, an invariant each, in the first six about what a command may rely on between two of its calls:

- `ClaimsIInv`: a claim that was checked and that nobody raced is of an agent without an issue (`CommandsHold`). The
  theorem is about cardinality; `AtMostOne` says the same without counting.
- `JacksIInv`: a fresh copy differs from the jack by what its command adds (`Follows`), and the fields count what was given until
  a stale copy is written (`FieldsCount`).
- `DecisionsIInv`: a copy of a closed row, and a request that goes on to close after a merge, are as good as a closed row: the
  row shows an outcome now, or its want is excused (`DecidedOnceClosed`). A stale write takes an outcome away between the merge and the close
  only by being excused itself.
- `ConfigsIInv`: a request has seen the config in force, and the fields it is about to write are meant by one it has seen.
  `Conforms` is a definition of its own; that `ValidateFields` implies it is a lemma. `ConfigsTyped` adds that all fields kept are JSON.
- `FormulasIInv`: the fields of a command under way are of one accepted file, whatever it merged them over.
- `RemotesIInv`: `ActiveIsWhole` speaks of the file; the invariant adds that every copy a process holds is whole (`Whole`) unless
  it stems from a torn file, because a copy replaces the file without a look at it. The one way into `file` that mixes lines is a
  write over another text or a part of one, and each such write makes the file torn (`layers`), until a
  copy that is not torn has it for itself.
- `RequestsIInv` says no more than that the filter is what one of the three ways made of the request; the substance is in
  the lemmas. `Join` flattens and `Split` cuts, so that a list comes back iff each of its names is one piece: `JoinOfPlain`,
  from the definition of the fold, by the least position at which another way to put the list together would differ
  (`OnePiece`, `OneLonger`). `ListCarried`, `NumberCarried` and
  `FieldsCarried` say what becomes of each parameter, `QueryCarries` and `ConnectCarries` of the whole; `FlagsAsk` that a command
  line makes a request.
- `AgentsCorrect` is about `MCAgents`: the step of one component leaves the variables of the others alone, so that all
  invariants hold together (`AgentsIInv`), and the types of all with them. `MoleculesInCast` tells the behaviours with burn and squash,
  in which no ready request is made, from those with ready requests.

**ServerProofs.** Five components:

- `WatchIInv`: the handshake. `mu` is held exactly while the callback sends, `closed` is set under `mu` and before the channel is
  drained and closed, and a callback that finds `closed` does not send. `WatchBounds` adds the bounds: nothing shown or asked is newer
  than the bead, no more messages than changes.
- `WatchChangesAreDue` is what a lost wake-up would break, the safety half of `LastChangeShown`: while less than the last
  change is shown or about to be (`Newest`), something is armed, queued or on its way that makes the loop ask again (`Wakes`). A message that is
  dropped is covered by the full channel that drops it, which is why the channel must hold one; one that is lost, by the
  outage and the reconnection after it; one taken from the channel, by the timer it arms.
- `HooksIInv`: `RequestHolds` accounts for every advice that stayed open since the list was read: still to be looked at, or
  run (`Heeds`, for requests whose reads succeeded); and for whoever blocks (`Names`): a failed fatal hook does, and the reason of
  a request still awaited is a handler exactly if one said so and no hook did. `Progress` says what a request without
  an agent leaves out. `MatchConcerns` proves that the algorithm of `MatchesSubscriptions` selects what `Concerns` means.
- `ServeIInv`: what is open and who listens at each place of `serve`. `ServeOpenWhenUsed` is one safety part of `GracefulShutdown`,
  `ServeWaitsEnd` the other: what `serve` waits for at a place of its shutdown (`Awaited`) only becomes less, since workers have been
  told to stop (`ToldToStop`) and the listeners are closed.
- `GraphIInv`: while the request lists, a bead wanted throughout has been found or its status and type are still to be asked for
  (`Listed`, `StillAsked`); this is where `steady` leaves out a bead that went back in the order of the statuses. Once the limit is
  applied, `Gathered` says which links that held throughout have been read. `Whole` is `GraphIsWhole` as a predicate of the
  request, since later writes shrink `steady` and `kept` (`WholeShrinks`); `BuildKeeps` has one step per part of it. That a
  closed bead's live neighbour is shown needs that it is not pruned itself: the edge between them keeps it even if it is
  a gate or decision.
- `BusIInv`: a message knows its place in the log (`LogNumbered`). `BusHolds` is about one connection: its subscriptions are
  places of its list that name a stream (`BusShape`), what is in the handler's channel, on the wire or read is what their
  consumers sent, and what was asked for (`QueuedRight`, `SentRight`); in the line of all that was delivered, each subscription's
  numbers ascend but for what was sent again (`Ascends`); and what was sent and acknowledged is in that line, filtered out or dropped (`Arrived`).
  `SubjectMeans` is about names: a subject leads to its own
  stream and, for types of one segment, back to its type. `BusAsAsked` and `BusTypeCorrect` follow.
- `ServerCorrect` is about `MCServer` as `AgentsCorrect` about `MCAgents`.

**GitSyncProofs.** Exports are numbered (`stamp`), and the one being written is newer than every committed one
(`ExportIsNew`); so an unchanged index, which ends a sync early with success, means the export itself was committed before, by
this sync. Without `ExportIsNew` a sync could take an old file for its own. `CloneLeads` (origin is a prefix of the clone
while no rival pushes) gives `GitLoneSyncSucceeds`, from any state that earlier failures left.
`GitOriginOnlyGrows` is an action property. Every behaviour of `MCBackground` is one of the tracker and one of the sync
(`BackgroundImplements`), so that what holds of each holds there (`BackgroundCorrect`).

**Only model-checked.**

- Liveness under fairness is out of the prover's reach: `PublisherFinishes`, `Delivered`, `SilentIsEvicted`, `LastChangeShown` and
  `GracefulShutdown`. Of the last two the safety parts are theorems (`WatchChangesAreDue`, `ServeOpenWhenUsed`, `ServeWaitsEnd`); that what is
  due is done needs fairness. Every other property that a passing run checks is a theorem.
- The five runs that expect a violation show one behaviour each, which TLC finds; there is nothing to prove.

`TypeOK` of `StopGate`, of `Presence` and of `SSEHub`, `ServeOpenWhenUsed`, `ServeWaitsEnd`, `WatchChangesAreDue`, and
`OneStopPerMark` without overlaps are theorems and not checked by runs of their own.

## 5. Where code and documentation part

Shown by a run (`findings` in `PROJECT.json`):

1. `updateBead` writes back a stale status (`beads.go:354`), against "nil means
   don't change" (`beads.go:219`): an assignee-only update reopens a bead closed meanwhile.
2. Two Stops handled at once pass on one mark (`http_hooks.go:67`, `:99`).
3. Ids are taken outside the ring's lock, so overlapping broadcasts are
   buffered out of order (`sse.go:60`), against "in order" (`sse.go:109`). A client that comes back with the
   greater id never gets the lesser one; `NoLoss` is stated up to it (`late`, `overtaken`).
4. A push of another clone that a sync did not pull (it came after its pull, or before a pull that failed and was ignored,
   as in the run's trace) leaves a diverged clone whose later syncs all
   fail, since the failing `pull --ff-only` is ignored (`sync/git.go:37`).
5. `kd formula update --assignee ""` changes nothing: the server merges the fields it gets, and a
   missing key stays (`formula_update.go:95`, `beads.go:301`), against the flag's help (`formula_update.go:146`).

Met while modelling and built into the models, without a run of their own:

6. An update of the agent bead that overlaps a Stop writes `gate_satisfied_by`
   back (`http.go:89`); `OneStopPerYield` is stated up to it (`spoilt`).
7. A replay whose slots are overwritten shows newer events, then goes back
   (`sse.go:128`, `:215`); `NoLoss` is stated up to it (`torn`).
8. `eventsSince` returns what is left of the ring for a `lastID` that has left it
   (`sse.go:129`), against "Returns nil if lastID is too old" (`sse.go:110`);
   `NoLoss` excuses the overwritten events.
9. `Stop` kills the git command that runs (`sync.go:58`), which can leave
   `.git/index.lock` and fail all syncs after the restart; `LoneSyncSucceeds`
   is stated up to it (`locked`).
10. The HTTP close and `DeleteBead` publish no `advice.deleted`
   (`http_beads.go:242`), the gRPC close does.
11. An event for a committed change may be lost: documented as best effort
   (`server.go:54`), so no property says the log is complete.

Agents' side:

- A failed `UpdateBead` leaves a new jack `open`; `jack check` looks at `in_progress` ones only, 100 at most
  (`jack_up.go:101`, `jack_check.go`). An extended jack keeps `jack_escalated`, so that it is not escalated again.
- `evaluateCondition` takes `"false"` and `"0"` for false (`formula_apply.go:417`). What a skipped step
  needed is not passed on to those that needed it. A failure during apply leaves what was created. `mol bond`
  links two molecules and blocks none of their steps. `depends_on` cycles are accepted (`formula_create.go:95`).
- `formula update --file` ignores the file's `default_roles` (`formula_update.go:45`).
- The default HTTP URL never comes from the active remote, though the remote's token is sent (`main.go`).
- Overlapping `kd remote` commands lose each other's changes (`remote.go:64`). When their writes overlap too, the end of a longer
  text stays behind a shorter one: the file may be garbled, or readable with the URL of one add and the token of
  another. A process killed while it writes may leave a readable beginning, a remote without its token for one.
- The gRPC client sends neither field filters nor `no_open_deps` (`client/grpc.go:92`). The Connect shim sends labels
  as `label`, which `handleListBeads` does not read, and has no priority and no `no_open_deps`
  (`http_connect.go:86`). gRPC resolves deprecated type names, HTTP does not. A comma in a name splits it, by HTTP.
- Resolve and cancel do not look at the status; a decision may be answered twice. The built-in config of a decision
  lacks the `canceled` fields that cancel merges without validation (`config.go`, `http_decisions.go:180`). An update that read the
  decision before the merge and writes its row back after it erases the outcome, and the close follows all the same
  (`beads.go:354`); a `kd close` with fields may clear it. `ClosedHasOutcome` is stated up to both (`excuse`).

Server:

- `no_open_deps` counts every type of dependency, and takes a `blocked` one for closed (`queries.go`).
  Totals are 0 beyond the last page (`COUNT(*) OVER ()` with `OFFSET`); ties of a sort may move between pages.
- `include_deps` brings in rows, but no edge between two of them (`http_graph.go:256`).
- Groups of advice labels from `g1000` on are taken for ungrouped (`model/advice.go`). Server and client match
  `project:` labels differently. A dispatch that is cancelled drops what a handler said.
- `Raw` is never set on events, so that decision subjects are never scoped; the type of an event with a dot is
  taken for its last segment (`eventbus/streams.go:74`). A request without `agent_bead_id` is allowed at once: no gate, advice or bus
  (`http_hooks.go:54`). A stream named twice is subscribed to twice and each of its events comes twice (`http_bus_sse.go:75`),
  and a message whose acknowledgement was lost comes again; clients do not compare numbers. When JetStream removes a consumer, its
  stream falls silent under keepalives. When no
  subscription succeeds the 503 follows a 200 (`http_bus_sse.go:91`). A Stop its gate blocks is not published.
- kd watch misses a change made between its first query and its subscription until the next event; label
  changes do not touch `updated_at` and are not shown (`watch.go`).
- An open SSE stream holds the shutdown for its 10 seconds (`serve.go:218`).

## 6. Plan

Done, in this order: the store, the gate, the streams, presence, the sync; then the hook path and the bus, the
agents' work, watchers, shutdown, the graph, configuration files and list requests. Left:

1. **Torn exports**: `GitSync` composed with a store that changes between the reads of `ExportJSONL`.
2. **Registration** of bus handlers while events are dispatched, and the blocked list.

## 7. Not modelled, and why

Row scanning and wire conversion (field-by-field copies), API wrappers other than `ListBeads` (one call each),
authentication (a stateless comparison), environment variables, CLI output, views and trees, and generated code
have no control of their own. SQL itself is taken at its word: a statement is atomic and isolated, as single
statements in Postgres are. The roster endpoint, `mol show` and the listings of decisions and configs only read. Keepalives
of streams carry no state. TCP is a stream that breaks: events written but not received count as not
written. JetStream's retention (a consumer starts with new messages, so only one that lags behind a stream's limits would notice) and
its limit on unacknowledged messages, payloads of events, what a claim prints of the advice it brings,
full-text search, field filters and sort orders of a listing, bodies and statistics of the graph are left out.
