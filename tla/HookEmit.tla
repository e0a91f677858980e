------------------------------- MODULE HookEmit -------------------------------
(***************************************************************************)
(* POST /v1/hooks/emit after its Stop gate, and /v1/hooks/execute: advice  *)
(* hooks, then the handlers on the bus, while advice is opened and closed. *)
(* The first advice hook that fails with on_failure block ends the hooks,  *)
(* not the request; of the handlers on the bus the last that blocks is     *)
(* named.  What the gate does is the subject of StopGate; here it passes   *)
(* or blocks.                                                              *)
(*                                                                         *)
(* Labels are records of a scope, a name and a group.  Groups from g1000   *)
(* on, which ParseGroups mixes up with labels that have none, are left     *)
(* out, and so are warnings and injected texts.                            *)
(***************************************************************************)
EXTENDS Naturals, FiniteSets

CONSTANTS
  Advice,
  LabelsOf,     \* [Advice -> sets of labels [scope, name, group]]
  OnFailure,    \* [Advice -> {"block", "warn", "ignore"}]
  Unusable,     \* advice with malformed fields, no command, or another trigger
  Ungrouped,    \* the group of a label without prefix
  Automatic,    \* subscriptions built from the agent's id
  Added, Excluded, \* advice_subscriptions and _exclude of the agent bead
  BusHandler,
  HandlerPriority,    \* [BusHandler -> Nat]
  Emitter,      \* concurrent requests
  Nobody, NoEmit

\* A request: whether it names an agent, the locals of its handler, and as
\* history the advice open throughout and what it ran (steady, ran, failed),
\* the handlers that blocked (said), whether every read succeeded (relied) and
\* the client waited for its answer (awaited).
HookRequest ==
  [op : {"stop", "execute", "other"}, agent : BOOLEAN, at : {"gate", "list", "subs", "hooks", "bus", "answered"},
   todo : SUBSET Advice, subs : SUBSET (Automatic \cup Added), handlers : SUBSET BusHandler, block : BOOLEAN,
   reason : Advice \cup BusHandler \cup {"gate", Nobody}, steady : SUBSET Advice, ran : SUBSET Advice,
   failed : SUBSET Advice, said : SUBSET BusHandler, relied : BOOLEAN, awaited : BOOLEAN]

ASSUME HooksAssumption ==
  /\ \A a \in Advice : \A l \in LabelsOf[a] : l.scope \in {"rig", "agent", "other"}
  /\ Advice \cap (BusHandler \cup {"gate", Nobody}) = {} /\ BusHandler \cap {"gate", Nobody} = {} /\ Nobody # "gate"
  /\ NoEmit \notin HookRequest

VARIABLES
  open,         \* open advice beads
  emit          \* per emitter: its request

hookVars == <<open, emit>>

-----------------------------------------------------------------------------
(* Which advice is for which agent.                                        *)

Plain(l) == [scope |-> l.scope, name |-> l.name]

\* enrichAgentSubscriptions: an agent bead that cannot be read adds nothing.
Enriched == (Automatic \cup Added) \ Excluded

GroupsOf(labels) ==
  {{Plain(l) : l \in {k \in labels : k.group = g}} : g \in {k.group : k \in labels} \ {Ungrouped}}
  \cup {{Plain(l)} : l \in {k \in labels : k.group = Ungrouped}}

\* (fault) only labels without a group prefix are required
MatchUngrouped(labels, subs) ==
  /\ \A l \in labels : l.scope \in {"rig", "agent"} /\ l.group = Ungrouped => Plain(l) \in subs
  /\ \E group \in GroupsOf(labels) : group \subseteq subs

\* All of one group, and every rig and agent label whatever its group.
MatchesSubscriptions(labels, subs) ==
  /\ \A l \in labels : l.scope \in {"rig", "agent"} => Plain(l) \in subs
  /\ \E group \in GroupsOf(labels) : group \subseteq subs

-----------------------------------------------------------------------------
(* A request.                                                              *)

\* Without an agent there is nothing to check: it is answered at once.
Fresh(op, agent) ==
  [op |-> op, agent |-> agent,
   at |-> IF ~agent THEN "answered" ELSE CASE op = "stop" -> "gate" [] op = "execute" -> "list" [] OTHER -> "bus",
   todo |-> {}, subs |-> {}, handlers |-> BusHandler, block |-> FALSE, reason |-> Nobody,
   steady |-> open, ran |-> {}, failed |-> {}, said |-> {}, relied |-> TRUE, awaited |-> TRUE]

Proceeds(r, next) == emit' = [emit EXCEPT ![r] = next] /\ UNCHANGED open
Is(r, at) == emit[r] # NoEmit /\ emit[r].at = at
AfterHooks(e) == [e EXCEPT !.todo = {}, !.at = IF e.op = "execute" THEN "answered" ELSE "bus"]

\* Hooks are executed for an agent only; an event may come without one.
EmitHook(r) ==
  /\ emit[r] = NoEmit
  /\ \E op \in {"stop", "execute", "other"}, agent \in BOOLEAN :
       (op = "execute" => agent) /\ Proceeds(r, Fresh(op, agent))

\* A Stop that does not pass its gate is answered at once.
Gate(r) ==
  /\ Is(r, "gate")
  /\ \/ Proceeds(r, [emit[r] EXCEPT !.at = "list"])
     \/ Proceeds(r, [emit[r] EXCEPT !.at = "answered", !.block = TRUE, !.reason = "gate"])

\* ListBeads of open advice; when it fails no hook runs.
ListAdvice(r) ==
  /\ Is(r, "list")
  /\ \/ Proceeds(r, [emit[r] EXCEPT !.at = "subs", !.todo = open])
     \/ Proceeds(r, AfterHooks([emit[r] EXCEPT !.relied = FALSE]))

EnrichSubscriptions(r) ==
  /\ Is(r, "subs")
  /\ \/ Proceeds(r, [emit[r] EXCEPT !.at = "hooks", !.subs = Enriched])
     \/ Proceeds(r, [emit[r] EXCEPT !.at = "hooks", !.subs = Automatic, !.relied = FALSE])

Applies(a, subs) == a \notin Unusable /\ MatchesSubscriptions(LabelsOf[a], subs)

\* One advice after the other.  A command fails, or runs into its timeout.
RunHook(r) ==
  /\ Is(r, "hooks")
  /\ \E a \in emit[r].todo :
       LET e == [emit[r] EXCEPT !.todo = @ \ {a}]
       IN \/ ~Applies(a, e.subs) /\ Proceeds(r, e)
          \/ Applies(a, e.subs) /\ Proceeds(r, [e EXCEPT !.ran = @ \cup {a}])
          \/ /\ Applies(a, e.subs)
             /\ LET f == [e EXCEPT !.ran = @ \cup {a}, !.failed = @ \cup {a}]
                IN IF OnFailure[a] = "block"
                   THEN Proceeds(r, AfterHooks([f EXCEPT !.block = TRUE, !.reason = a]))
                   ELSE Proceeds(r, f)

HooksDone(r) ==
  /\ Is(r, "hooks") /\ emit[r].todo = {}
  /\ Proceeds(r, AfterHooks(emit[r]))

-----------------------------------------------------------------------------
(* The bus.                                                                *)

\* sort.Slice is not stable: equal priorities come in any order.
Foremost(handlers) == {h \in handlers : \A g \in handlers : HandlerPriority[h] <= HandlerPriority[g]}

\* Blocked on the bus by h: an earlier stage that blocked keeps its reason.
BlockedBy(e, h) ==
  [e EXCEPT !.said = @ \cup {h}, !.block = TRUE, !.reason = IF @ \in Advice THEN @ ELSE h]

\* The handler blocks, or not; an error is logged.
Handle(r) ==
  /\ Is(r, "bus")
  /\ \E h \in Foremost(emit[r].handlers) :
       LET e == [emit[r] EXCEPT !.handlers = @ \ {h}]
       IN Proceeds(r, e) \/ Proceeds(r, BlockedBy(e, h))

\* The client went away: the chain stops, and what handlers said is dropped.
Canceled(r) ==
  /\ Is(r, "bus") /\ emit[r].handlers # {}
  /\ Proceeds(r, [emit[r] EXCEPT !.at = "answered", !.handlers = {}, !.awaited = FALSE,
                              !.block = @ /\ emit[r].reason \in Advice,
                              !.reason = IF @ \in Advice THEN @ ELSE Nobody])

Dispatched(r) ==
  /\ Is(r, "bus") /\ emit[r].handlers = {}
  /\ Proceeds(r, [emit[r] EXCEPT !.at = "answered"])

AnswerHook(r) ==
  /\ Is(r, "answered")
  /\ Proceeds(r, NoEmit)

-----------------------------------------------------------------------------
\* Advice is opened, closed or deleted by other requests.
AdviceChanges(a) ==
  /\ open' = IF a \in open THEN open \ {a} ELSE open \cup {a}
  /\ emit' = [r \in Emitter |->
       IF emit[r] = NoEmit THEN NoEmit ELSE [emit[r] EXCEPT !.steady = @ \ {a}]]

HooksInit == open \in SUBSET Advice /\ emit = [r \in Emitter |-> NoEmit]

HooksNext ==
  \/ \E r \in Emitter :
       \/ EmitHook(r) \/ Gate(r) \/ ListAdvice(r) \/ EnrichSubscriptions(r) \/ RunHook(r) \/ HooksDone(r)
       \/ Handle(r) \/ Canceled(r) \/ Dispatched(r) \/ AnswerHook(r)
  \/ \E a \in Advice : AdviceChanges(a)

HooksSpec == HooksInit /\ [][HooksNext]_hookVars

-----------------------------------------------------------------------------
HooksTypeOK ==
  /\ open \subseteq Advice
  /\ emit \in [Emitter -> HookRequest \cup {NoEmit}]
  /\ \A r \in Emitter : emit[r] = NoEmit \/
       /\ emit[r].block = (emit[r].reason # Nobody)
       /\ emit[r].failed \subseteq emit[r].ran

\* "This prevents rig-scoped advice from leaking to other rigs": advice that
\* names a rig or an agent is not for one that has not subscribed to it, and
\* other advice is for whoever has subscribed to one of its labels or groups.
Concerns(a) ==
  /\ \A l \in LabelsOf[a] : l.scope # "other" => Plain(l) \in Enriched
  /\ \E l \in LabelsOf[a] :
       IF l.group = Ungrouped THEN Plain(l) \in Enriched
       ELSE \A k \in LabelsOf[a] : k.group = l.group => Plain(k) \in Enriched

\* "Stop on first block", "Handler errors ... do not stop the chain": when a
\* request is answered,
\*  - one without an agent has run nothing and does not block;
\*  - it blocks for the one fatal failure of its hooks, if there was one, whatever
\*    it could not read and whoever went away;
\*  - else, unless the client went away, every handler was asked, and it blocks
\*    just when one of them said so, and names one that did;
\*  - if its reads succeeded, only advice for the agent has run, and all of it
\*    that was open throughout if the agent may go on.
BlockersHeeded ==
  \A r \in Emitter :
    Is(r, "answered") =>
      LET e == emit[r]
          mine == {a \in Advice \ Unusable : Concerns(a)}
          fatal == {a \in e.failed : OnFailure[a] = "block"}
      IN /\ ~e.agent => e.ran = {} /\ ~e.block
         /\ e.reason = "gate" => e.op = "stop" /\ e.ran = {} /\ e.said = {}
         /\ fatal # {} => e.block /\ fatal = {e.reason}
         /\ fatal = {} /\ e.agent /\ e.awaited /\ e.reason # "gate" =>
              /\ e.op # "execute" => e.handlers = {}
              /\ IF e.said = {} THEN ~e.block ELSE e.block /\ e.reason \in e.said
         /\ e.agent /\ e.relied =>
              /\ e.ran \subseteq mine
              /\ e.op # "other" /\ e.reason \notin Advice \cup {"gate"} => e.steady \cap mine \subseteq e.ran
=============================================================================
