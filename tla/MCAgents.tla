------------------------------ MODULE MCAgents ------------------------------
(***************************************************************************)
(* The clients' work on the store.  The components touch different beads,  *)
(* so that one of them is at work in each behaviour.                       *)
(***************************************************************************)
EXTENDS Claims, Jacks, Decisions, Ready, Configs, Remotes, ListRequests, Formulas

CONSTANTS ann, bob, tab3, task1, jack1, proj, s1, s2, s3, v, narrow

VARIABLE cast

agentsVars == <<cast, claimVars, jackVars, decisionVars, readyVars, configVars, remoteVars, requestVars, formulaVars>>

MCActor == [s \in Session |-> IF s = tab3 THEN bob ELSE ann]
MCAgentProject == [a \in Agent |-> IF a = ann THEN proj ELSE NoProject]
MCTypeOf == [b \in Bead |-> IF b = task1 THEN "task" ELSE IF b = jack1 THEN "jack" ELSE "epic"]
Durations == {1, 2, 4}

MCOrder == <<s1, s2, s3>>
MCNeeds == [s \in Step |-> IF s = s1 THEN {} ELSE IF s = s2 THEN {s1} ELSE {s1, s2}]
MCWhen == [s \in Step |-> IF s = s2 THEN [var |-> v, op |-> "truthy", value |-> "", negated |-> FALSE] ELSE Always]
MCVarDef == [x \in Var |-> [default |-> Unset, required |-> FALSE, enum |-> {}]]
MCGiven == {[x \in Var |-> g] : g \in {Unset, "true"}}

MCPatch == {[sets |-> {"chosen"}, clears |-> {}], [sets |-> {}, clears |-> {"chosen", "canceled"}]}

MCDefinitions == [c \in {narrow} |-> {Enum("artifact_status", {"accepted"})}]
MCFieldsGiven == {[prompt |-> Text("p")], [artifact_status |-> Text("pending")], NotAnObject}

MCPiece == {"issue", "data", "template", "formula", "task", "open", "closed", "k", "l", "p", "q", "v", "w", "x", "y"}
MCAlias == [t \in {<<"template">>} |-> <<"formula">>]
Texts == {<<>>, <<<<"x">>, <<"y">>>>, <<<<"x", "y">>>>}
MCFlags ==
  [status : {<<>>, <<<<"open">>, <<"closed">>>>}, types : {<<>>, <<<<"template">>, <<"task">>>>}, kinds : {<<>>, <<<<"data">>>>},
   labels : Texts, project : {NotSet, <<"p">>, <<"p", "q">>}, allProjects : BOOLEAN, allTypes : BOOLEAN,
   noBlockers : BOOLEAN, fields : {{}, {<<"k", <<"v", "w">>>>, <<"l", <<"v">>>>}}, limit : {0, 20}, offset : {0, 5}]
MCBodies ==
  {[Blank EXCEPT !.priority = p, !.labels = l, !.assignee = a] : p \in {NotSet, 0, 2}, l \in Texts, a \in {NotSet, <<"x", "y">>}}

MCStep(id, needs) == [id |-> id, titled |-> TRUE, needs |-> needs]
MCFiles ==
  {[vars |-> {"x"}, roles |-> <<>>, steps |-> <<MCStep("a", {}), MCStep("b", {"a"})>>],
   [vars |-> {}, roles |-> <<"crew">>, steps |-> <<MCStep("a", {})>>],
   [vars |-> {"x"}, roles |-> <<>>, steps |-> <<MCStep("a", {"c"})>>],
   [vars |-> {}, roles |-> <<>>, steps |-> <<MCStep("a", {}), MCStep("a", {})>>]}

Init ==
  /\ cast \in {"claims", "jacks", "decisions", "molecules", "ready", "configs", "remotes", "requests", "formulas"}
  /\ ClaimsInit /\ JacksInit /\ DecisionsInit /\ ReadyInit /\ ConfigsInit /\ RemotesInit /\ RequestsInit /\ FormulasInit
  /\ cast # "claims" => \A b \in Initial : rows[b].assignee = NoAgent
  /\ cast # "configs" => beadType = "decision"
  /\ cast # "requests" => asked = Blank

Next ==
  /\ UNCHANGED cast
  /\ \/ cast = "claims" /\ ClaimsNext /\ UNCHANGED <<jackVars, decisionVars, readyVars, configVars, remoteVars, requestVars, formulaVars>>
     \/ cast = "jacks" /\ JacksNext /\ UNCHANGED <<claimVars, decisionVars, readyVars, configVars, remoteVars, requestVars, formulaVars>>
     \/ cast = "decisions" /\ DecisionsNext /\ UNCHANGED <<claimVars, jackVars, readyVars, configVars, remoteVars, requestVars, formulaVars>>
     \/ cast = "molecules" /\ MoleculesNext /\ UNCHANGED <<query, claimVars, jackVars, decisionVars, configVars, remoteVars, requestVars, formulaVars>>
     \/ cast = "ready" /\ ReadyNext /\ UNCHANGED <<claimVars, jackVars, decisionVars, configVars, remoteVars, requestVars, formulaVars>>
     \/ cast = "configs" /\ ConfigsNext /\ UNCHANGED <<claimVars, jackVars, decisionVars, readyVars, remoteVars, requestVars, formulaVars>>
     \/ cast = "remotes" /\ RemotesNext /\ UNCHANGED <<claimVars, jackVars, decisionVars, readyVars, configVars, requestVars, formulaVars>>
     \/ cast = "requests" /\ RequestsNext /\ UNCHANGED <<claimVars, jackVars, decisionVars, readyVars, configVars, remoteVars, formulaVars>>
     \/ cast = "formulas" /\ FormulasNext /\ UNCHANGED <<claimVars, jackVars, decisionVars, readyVars, configVars, remoteVars, requestVars>>

Spec == Init /\ [][Next]_agentsVars

\* What each component's state holds, whichever is at work.
TypeOK ==
  /\ ClaimsTypeOK /\ JacksTypeOK /\ DecisionsTypeOK /\ ReadyTypeOK /\ ConfigsTypeOK /\ RemotesTypeOK
=============================================================================
