------------------------------ MODULE MCServer ------------------------------
(***************************************************************************)
(* What the server does besides mutations: hooks, the bus and its streams, *)
(* notifications, the graph, start and stop.  As in MCAgents one component *)
(* is at work in each behaviour.                                           *)
(***************************************************************************)
EXTENDS HookEmit, BusStream, Watch, Serve, Graph

CONSTANTS rig1, grouped, local, foreign, epic1, task1, dec1, ann

VARIABLE cast

serverVars == <<cast, hookVars, busVars, watchVars, serveVars, graphVars>>

Label(scope, name, group) == [scope |-> scope, name |-> name, group |-> group]
Plainly(scope, name) == [scope |-> scope, name |-> name]
MCLabelsOf == [a \in Advice |->
  IF a = grouped THEN {Label("other", "role", "g0"), Label("other", "lang", "g0"), Label("other", "night", "g1")}
  ELSE IF a = local THEN {Label("rig", rig1, "g0"), Label("other", "global", Ungrouped)}
  ELSE {Label("rig", "rig2", "g0"), Label("other", "global", Ungrouped)}]
MCOnFailure == [a \in Advice |-> IF a = grouped THEN "warn" ELSE "block"]
MCAutomatic == {Plainly("rig", rig1), Plainly("other", "global"), Plainly("other", "role")}
MCExcluded == {Plainly("other", "night")}
MCAdded == {Plainly("other", "lang")} \cup MCExcluded
MCPriority == [h \in BusHandler |-> 50]

MCTypes == {<<"Stop">>, <<"MutationUpdate">>, <<"jack", "on">>}
MCAsks == {[streams |-> <<"hooks", "nope", "hooks">>, filter |-> NoFilter],
           [streams |-> <<"mutations", "jack">>, filter |-> "MutationUpdate"]}

MCAbout == [b \in Row |->
  [type |-> IF b = epic1 THEN "epic" ELSE IF b = dec1 THEN "decision" ELSE "task",
   priority |-> IF b = epic1 THEN 1 ELSE 2, assignee |-> IF b = task1 THEN ann ELSE NoOne,
   labels |-> {}, created |-> IF b = epic1 THEN 1 ELSE IF b = task1 THEN 2 ELSE 3]]
MCLink(x, y, type) == [from |-> x, to |-> y, type |-> type]
MCInitialLinks == {{MCLink(dec1, epic1, "related")},
                   {MCLink(task1, epic1, "blocks"), MCLink(dec1, task1, "blocks")}}
MCLinkable == {MCLink(task1, epic1, "blocks"), MCLink(task1, dec1, "parent-child")}
Asks4(statuses, f, deps, connected, agents) ==
  [statuses |-> statuses, filter |-> f, deps |-> deps, connected |-> connected, agents |-> agents]
MCAsking == {Asks4(<<"open", "in_progress">>, NoCriteria, TRUE, TRUE, TRUE),
             Asks4(<<"open", "closed">>, [NoCriteria EXCEPT !.types = {"epic", "decision"}], FALSE, FALSE, FALSE),
             Asks4(<<"open", "in_progress">>, [NoCriteria EXCEPT !.parent = dec1], FALSE, TRUE, FALSE)}

Init ==
  /\ cast \in {"hooks", "bus", "watch", "serve", "graph"}
  /\ HooksInit /\ BusInit /\ WatchInit /\ ServeInit /\ GraphInit
  /\ cast # "hooks" => open = {}
  /\ cast # "graph" => world.links = {MCLink(dec1, epic1, "related")} /\ world.status = [b \in Row |-> "open"]

OnlyHooks == cast = "hooks" /\ UNCHANGED <<cast, busVars, watchVars, serveVars, graphVars>>
OnlyBus == cast = "bus" /\ UNCHANGED <<cast, hookVars, watchVars, serveVars, graphVars>>
OnlyWatch == cast = "watch" /\ UNCHANGED <<cast, hookVars, busVars, serveVars, graphVars>>
OnlyServe == cast = "serve" /\ UNCHANGED <<cast, hookVars, busVars, watchVars, graphVars>>
OnlyGraph == cast = "graph" /\ UNCHANGED <<cast, hookVars, busVars, watchVars, serveVars>>

Next ==
  \/ OnlyHooks /\ HooksNext
  \/ OnlyBus /\ BusNext
  \/ OnlyWatch /\ WatchNext
  \/ OnlyServe /\ ServeNext
  \/ OnlyGraph /\ GraphNext

\* The goroutines of kd watch and of its NATS client are scheduled, and the
\* client reconnects in the end.
WatchFairness ==
  /\ WF_serverVars(OnlyWatch /\ WatchSteps)
  /\ WF_serverVars(OnlyWatch /\ EventArrives) /\ WF_serverVars(OnlyWatch /\ Reconnected)
  /\ WF_serverVars(OnlyWatch /\ CallbackStart) /\ WF_serverVars(OnlyWatch /\ CallbackLock)
  /\ WF_serverVars(OnlyWatch /\ CallbackSend) /\ WF_serverVars(OnlyWatch /\ ReconnectNATS)

\* serve goes on, and gRPC calls and the work of its goroutines end.
ServeFairness ==
  /\ WF_serverVars(OnlyServe /\ StopSteps)
  /\ \A c \in Caller : WF_serverVars(OnlyServe /\ CallEnds(c))
  /\ \A w \in Workers : WF_serverVars(OnlyServe /\ WorkEnds(w))

Spec == Init /\ [][Next]_serverVars /\ WatchFairness /\ ServeFairness

\* What each component's state holds, whichever is at work.
TypeOK == HooksTypeOK /\ BusTypeOK /\ WatchTypeOK /\ ServeTypeOK /\ GraphTypeOK
=============================================================================
