-------------------------------- MODULE Graph --------------------------------
(***************************************************************************)
(* GET and POST /v1/graph: nodes and edges put together from one listing   *)
(* per status (and type, when types are given), batches of links and rows  *)
(* by id, while other requests change the beads and links.  No two of the  *)
(* reads see the same moment.                                              *)
(*                                                                         *)
(* Left out: max_age_days, bodies, counts, labels and statistics, which    *)
(* decide about no node or edge.                                           *)
(***************************************************************************)
EXTENDS Listing, SequencesExt

CONSTANTS
  ExcludedTypes, \* message, config, advice, ... by default
  Asking,        \* requests: statuses in order, other criteria, include_deps,
                 \* _connected_closed and _agents
  GraphLimit,
  NoOne,         \* no assignee, no parent, no request
  InitialLinks, Linkable,  \* links at first, and links that come and go
  MaxWrites      \* bound: changes by other requests

VARIABLES
  world,         \* [status : [Row -> status], links : sets of links]
  writes,        \* changes so far
  graph          \* the request

graphVars == <<world, writes, graph>>

Statuses == {"open", "in_progress", "blocked", "deferred", "closed", "gone"}
Live == {"open", "in_progress", "blocked", "deferred"}

\* An agent's node has an id of its own, "agent:" and the name.
ASSUME GraphAssumption ==
  /\ IsFiniteSet(Row) /\ NoOne \notin Row /\ GraphLimit \in Nat
  /\ \A S \in SUBSET Statuses : S # Anything
  /\ \A b \in Row : About[b].assignee \notin Row
  /\ InitialLinks \subseteq SUBSET Link /\ Linkable \subseteq Link
  /\ \A r \in Asking :
       r.statuses \in Seq(Statuses) /\ DOMAIN r.filter = DOMAIN NoCriteria /\ r.filter.types # {}

-----------------------------------------------------------------------------
(* The reads.                                                              *)

\* Rows kept, and others added.
Over(kept, added) ==
  [b \in DOMAIN kept \cup DOMAIN added |-> IF b \in DOMAIN kept THEN kept[b] ELSE added[b]]

Reads(from, next) == graph # NoOne /\ graph.at = from /\ graph' = next /\ UNCHANGED <<world, writes>>

\* What the request asks for, as it is at one moment.
Wanted(r, w) ==
  Selected([r.filter EXCEPT !.status = Range(r.statuses), !.excluded = ExcludedTypes], w.status, w.links)

AskGraph(r) ==
  /\ graph = NoOne
  /\ graph' = [at |-> "list", statuses |-> r.statuses, filter |-> r.filter, deps |-> r.deps,
               connected |-> r.connected, agents |-> r.agents,
               asked |-> 1, listed |-> {}, found |-> [b \in {} |-> "open"], cut |-> FALSE,
               ids |-> {}, forward |-> {}, reverse |-> {}, unread |-> {"forward", "reverse"},
               reverseRead |-> FALSE,
               nodes |-> {}, edges |-> {},
               steady |-> Wanted(r, world),
               kept |-> world.links]
  /\ UNCHANGED <<world, writes>>

\* The types of each listing, one listing per type given.
Listings(f) == IF f.types = Anything THEN {Anything} ELSE {{t} : t \in f.types}

\* One status after the other, and for each the types, here in any order.  A bead
\* listed twice is as it was the last time.
ListStatus ==
  /\ graph # NoOne /\ graph.at = "list" /\ graph.asked <= Len(graph.statuses)
  /\ \E types \in Listings(graph.filter) \ graph.listed :
       LET f == [graph.filter EXCEPT !.status = {graph.statuses[graph.asked]}, !.types = types,
                                     !.excluded = ExcludedTypes, !.limit = GraphLimit]
           page == ListBeads(f, world.status, world.links)
           listed == graph.listed \cup {types}
           last == listed = Listings(graph.filter)
       IN Reads("list", [graph EXCEPT !.asked = IF last THEN @ + 1 ELSE @, !.listed = IF last THEN {} ELSE listed,
                                      !.cut = @ \/ page.total > Cardinality(page.beads),
                                      !.found = Over([b \in page.beads |-> world.status[b]], @)])

Relevance(status) ==
  CASE status = "in_progress" -> 0 [] status = "blocked" -> 1 [] status = "open" -> 2
    [] status = "deferred" -> 3 [] OTHER -> 4

\* Ahead(b, c): b is kept before c; of equals, either may be.
Ahead(b, c) ==
  LET rank(x) == 10 * Relevance(graph.found[x]) + About[x].priority IN rank(b) < rank(c)

EnforceLimit ==
  /\ graph # NoOne /\ graph.at = "list" /\ graph.asked > Len(graph.statuses)
  /\ \E kept \in SUBSET DOMAIN graph.found :
       /\ Cardinality(kept) = IF Cardinality(DOMAIN graph.found) > GraphLimit THEN GraphLimit
                              ELSE Cardinality(DOMAIN graph.found)
       /\ \A b \in kept, c \in DOMAIN graph.found \ kept : ~Ahead(c, b)
       /\ Reads("list", [graph EXCEPT !.at = "batch", !.ids = kept, !.cut = @ \/ kept # DOMAIN graph.found,
                                      !.found = [b \in kept |-> graph.found[b]]])

\* The batch queries run concurrently.  Without the links of the beads found
\* there is no answer, without those to them there is.
GetDependenciesForBeads ==
  /\ graph # NoOne /\ "forward" \in graph.unread
  /\ Reads("batch", [graph EXCEPT !.unread = @ \ {"forward"},
                                  !.forward = {l \in world.links : l.from \in graph.ids}])

GetReverseDependenciesForBeads ==
  /\ graph # NoOne /\ "reverse" \in graph.unread
  /\ \/ Reads("batch", [graph EXCEPT !.unread = @ \ {"reverse"}, !.reverseRead = TRUE,
                                     !.reverse = {l \in world.links : l.to \in graph.ids}])
     \/ Reads("batch", [graph EXCEPT !.unread = @ \ {"reverse"}])

StatementFails ==
  /\ graph # NoOne /\ graph.at \in {"list", "batch"}
  /\ Reads(graph.at, NoOne)

Links == graph.forward \cup graph.reverse
Ends == {l.from : l \in Links} \cup {l.to : l \in Links}

\* GetBeadsByIDs of ends that were not found, of the given statuses.
Fetched(statuses) ==
  [b \in {e \in Ends \ DOMAIN graph.found : world.status[e] \in statuses /\ About[e].type \notin ExcludedTypes}
     |-> world.status[b]]

\* include_deps: the other ends of links, whatever their status.
FetchMissing ==
  /\ graph # NoOne /\ graph.unread = {}
  /\ \/ graph.deps /\ Reads("batch", [graph EXCEPT !.at = "closed", !.found = Over(@, Fetched(Statuses \ {"gone"}))])
     \/ Reads("batch", [graph EXCEPT !.at = "closed"])

\* include_connected_closed: those that are closed by now.
FetchClosed ==
  \/ graph # NoOne /\ graph.connected /\ Reads("closed", [graph EXCEPT !.at = "build", !.found = Over(@, Fetched({"closed"}))])
  \/ graph # NoOne /\ Reads("closed", [graph EXCEPT !.at = "build"])

-----------------------------------------------------------------------------
(* The answer.                                                             *)

\* Parents of b: by a parent-child link; else epics b is linked to by blocks.
\* Of several parents the one read last is taken.
Parents(b) ==
  LET told == {l.to : l \in {k \in Links : k.from = b /\ k.type = "parent-child"}}
      inferred == {l.to : l \in {k \in graph.forward : /\ k.from = b /\ k.type = "blocks"
                                                       /\ k.to \in DOMAIN graph.found
                                                       /\ About[k.to].type = "epic"}}
  IN IF told # {} THEN told ELSE IF inferred # {} THEN inferred ELSE {NoOne}

Promoted(l, parent) ==
  IF l.type = "blocks" /\ parent[l.from] = l.to THEN [l EXCEPT !.type = "parent-child"] ELSE l

\* Actors, alive or not, with an issue in progress.
Assigned == {b \in DOMAIN graph.found : graph.found[b] = "in_progress" /\ About[b].assignee # NoOne}
AgentEdges ==
  IF graph.agents THEN {[from |-> About[b].assignee, to |-> b, type |-> "assigned_to"] : b \in Assigned} ELSE {}

\* (fault) a closed bead stays if it has any neighbour
StaysIfConnected(b, edges) ==
  LET neighbours == {e.to : e \in {k \in edges : k.from = b}} \cup {e.from : e \in {k \in edges : k.to = b}}
  IN /\ About[b].type \in {"gate", "decision"} => neighbours # {}
     /\ graph.found[b] = "closed" => neighbours # {}

\* Gates and decisions stay if they have an edge, closed beads if one of their
\* neighbours is live.
Stays(b, edges) ==
  LET neighbours == {e.to : e \in {k \in edges : k.from = b}} \cup {e.from : e \in {k \in edges : k.to = b}}
  IN /\ About[b].type \in {"gate", "decision"} => neighbours # {}
     /\ graph.found[b] = "closed" =>
          \E n \in neighbours : n \in DOMAIN graph.found /\ graph.found[n] \in Live

Build ==
  /\ graph # NoOne
  /\ \E parent \in [Row -> Row \cup {NoOne}] :
       /\ \A b \in Row : parent[b] \in Parents(b)
       /\ LET edges == {Promoted(l, parent) : l \in Links} \cup AgentEdges
              staying == {b \in DOMAIN graph.found : Stays(b, edges)}
              shown == staying \cup {e.from : e \in AgentEdges}
          IN Reads("build", [graph EXCEPT !.at = "answered",
                !.nodes = {[id |-> b, status |-> graph.found[b], parent |-> parent[b]] : b \in staying}
                          \cup {[id |-> e.from, status |-> "agent", parent |-> NoOne] : e \in AgentEdges},
                !.edges = {e \in edges : e.from \in shown /\ e.to \in shown}])

ReadGraph == Reads("answered", NoOne)

-----------------------------------------------------------------------------
(* Other requests.  A bead that goes back in the order of the statuses     *)
(* asked for may be missed.                                                *)

Before(status, other) ==
  /\ graph # NoOne
  /\ \E i, j \in DOMAIN graph.statuses : i < j /\ graph.statuses[i] = status /\ graph.statuses[j] = other

Writes(next, disturbed) ==
  /\ writes < MaxWrites
  /\ world' = next /\ writes' = writes + 1
  /\ graph' = IF graph = NoOne THEN NoOne
              ELSE [graph EXCEPT !.steady = (@ \ disturbed) \cap Wanted(graph, next), !.kept = @ \cap next.links]

ChangeStatus(b, status) ==
  /\ world.status[b] \notin {"gone", status}
  /\ Writes([world EXCEPT !.status[b] = status], IF Before(status, world.status[b]) THEN {b} ELSE {})

DeleteRow(b) ==
  /\ world.status[b] # "gone"
  /\ Writes([status |-> [world.status EXCEPT ![b] = "gone"],
             links |-> {l \in world.links : b \notin {l.from, l.to}}], {b})

ChangeLink(l) ==
  /\ world.status[l.from] # "gone" /\ world.status[l.to] # "gone"
  /\ Writes([world EXCEPT !.links = IF l \in @ THEN @ \ {l} ELSE @ \cup {l}], {})

GraphInit ==
  /\ world \in [status : [Row -> {"open", "in_progress", "closed"}], links : InitialLinks]
  /\ writes = 0 /\ graph = NoOne

GraphNext ==
  \/ \E r \in Asking : AskGraph(r)
  \/ ListStatus \/ EnforceLimit \/ GetDependenciesForBeads \/ GetReverseDependenciesForBeads \/ StatementFails
  \/ FetchMissing \/ FetchClosed \/ Build \/ ReadGraph
  \/ \E b \in Row : DeleteRow(b) \/ \E status \in {"open", "in_progress", "closed"} : ChangeStatus(b, status)
  \/ \E l \in Linkable : ChangeLink(l)

GraphSpec == GraphInit /\ [][GraphNext]_graphVars

-----------------------------------------------------------------------------
GraphTypeOK ==
  /\ world.status \in [Row -> Statuses]
  /\ \A l \in world.links : world.status[l.from] # "gone" /\ world.status[l.to] # "gone"
  /\ graph # NoOne =>
       /\ graph.at \in {"list", "batch", "closed", "build", "answered"}
       /\ DOMAIN graph.found \subseteq Row /\ Cardinality(graph.ids) <= GraphLimit

\* "Returns nodes and edges for 3D force-directed graph visualization": of beads
\* that the criteria selected throughout the request, none is missing unless the
\* limit cut the listing; a closed bead has a live neighbour in the answer, a
\* child an edge to its parent if both are shown; and a link that held
\* throughout is shown when both its ends are and one of them was listed.
GraphIsWhole ==
  graph # NoOne /\ graph.at = "answered" =>
    LET ids == {n.id : n \in graph.nodes}
        bead == {n \in graph.nodes : n.status # "agent"}
        joined(x, y) == \E e \in graph.edges : {e.from, e.to} = {x, y}
    IN /\ ~graph.cut => \A b \in graph.steady :
            \/ b \in ids \/ graph.found[b] = "closed"
            \/ /\ About[b].type \in {"gate", "decision"}
               /\ ~\E l \in graph.kept : l.from = b \/ (l.to = b /\ graph.reverseRead)
       /\ \A e \in graph.edges : e.from \in ids /\ e.to \in ids
       /\ \A n \in bead : n.status = "closed" => \E m \in graph.nodes : m.status \in Live /\ joined(n.id, m.id)
       /\ \A n \in bead : n.parent \in ids => \E e \in graph.edges :
            e.from = n.id /\ e.to = n.parent /\ e.type = "parent-child"
       /\ \A l \in graph.kept :
            l.from \in ids /\ l.to \in ids /\ (l.from \in graph.ids \/ (l.to \in graph.ids /\ graph.reverseRead))
              => joined(l.from, l.to)
=============================================================================
