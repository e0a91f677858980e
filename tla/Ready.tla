-------------------------------- MODULE Ready --------------------------------
(***************************************************************************)
(* GET /v1/ready while the beads of Molecules change: one statement lists  *)
(* the open beads, one per bead reads its dependencies, one per blocker    *)
(* reads its status.                                                       *)
(***************************************************************************)
EXTENDS Molecules

CONSTANTS Limit,   \* beads listed (200 unless the request says)
          None

VARIABLE query     \* the request, and history: whether its answer can be relied upon

readyVars == <<moleculeVars, query>>

Query == [at : {"idle", "beads", "deps", "answered"},
          todo : SUBSET Item, bead : Item \cup {None}, deps : SUBSET Item,
          listed : SUBSET Item, ready : SUBSET Item,
          settled : BOOLEAN, still : BOOLEAN]

NoQuery == [at |-> "idle", todo |-> {}, bead |-> None, deps |-> {}, listed |-> {}, ready |-> {},
            settled |-> FALSE, still |-> FALSE]

Blockers(b) == {l[2] : l \in {k \in blocks : k[1] = b}}
IsReady(b) == status[b] = "open" /\ \A p \in Blockers(b) : status[p] = "closed"

-----------------------------------------------------------------------------
OpenItems == {b \in Item : status[b] = "open"}

\* Priorities fall in the order of the formula, then come the molecules.
Priority(b) == IF b = Root THEN Len(Order) + 1 ELSE IF b = Outer THEN Len(Order) + 2 ELSE Position(b)
Before(b, S) == {c \in S : Priority(c) < Priority(b)}

\* ListBeads: the first Limit open beads by priority.
ListOpen ==
  /\ query.at = "idle"
  /\ LET L == {b \in OpenItems : Cardinality(Before(b, OpenItems)) < Limit}
     IN query' = [NoQuery EXCEPT !.at = "beads", !.todo = L, !.listed = L,
                                 !.settled = apply.at = "done", !.still = TRUE]
  /\ UNCHANGED moleculeVars

GetDependencies ==
  /\ query.at = "beads"
  /\ \E b \in query.todo :
       /\ Before(b, query.todo) = {}
       /\ query' = [query EXCEPT !.at = "deps", !.todo = @ \ {b}, !.bead = b, !.deps = Blockers(b)]
  /\ UNCHANGED moleculeVars

\* Any dependency read fails: 500.
QueryFails ==
  /\ query.at = "beads" /\ query.todo # {}
  /\ query' = NoQuery
  /\ UNCHANGED moleculeVars

\* (fault) only an open blocker blocks
GetOpenBlocker ==
  /\ query.at = "deps"
  /\ \E p \in query.deps :
       \/ /\ status[p] = "open"
          /\ query' = [query EXCEPT !.at = "beads", !.deps = {}]
       \/ /\ status[p] # "open"
          /\ query' = [query EXCEPT !.deps = @ \ {p}]
       \/ query' = [query EXCEPT !.deps = @ \ {p}, !.settled = FALSE, !.still = FALSE]
  /\ UNCHANGED moleculeVars

\* A blocker that is not closed ends the loop; one that is gone or cannot be read
\* does not block.
GetBlocker ==
  /\ query.at = "deps"
  /\ \E p \in query.deps :
       \/ /\ status[p] \notin {"closed", Gone}
          /\ query' = [query EXCEPT !.at = "beads", !.deps = {}]
       \/ /\ status[p] \in {"closed", Gone}
          /\ query' = [query EXCEPT !.deps = @ \ {p}]
       \/ query' = [query EXCEPT !.deps = @ \ {p}, !.settled = FALSE, !.still = FALSE]
  /\ UNCHANGED moleculeVars

NotBlocked ==
  /\ query.at = "deps" /\ query.deps = {}
  /\ query' = [query EXCEPT !.at = "beads", !.ready = @ \cup {query.bead}]
  /\ UNCHANGED moleculeVars

AnswerReady ==
  /\ query.at = "beads" /\ query.todo = {}
  /\ query' = [query EXCEPT !.at = "answered", !.bead = None]
  /\ UNCHANGED moleculeVars

\* The next request.
AskAgain ==
  /\ query.at = "answered"
  /\ query' = NoQuery
  /\ UNCHANGED moleculeVars

\* A command changes the store while the request may be under way.  Squash and
\* burn do it by the same calls as the agents' commands.
Reopens == \E b \in Item : status[b] = "closed" /\ status'[b] \notin {"closed", Gone}
Meanwhile ==
  /\ ApplyNext \/ AgentsNext
  /\ query' = IF query.at = "idle" \/ UNCHANGED <<status, blocks>> THEN query
              ELSE [query EXCEPT !.still = FALSE, !.settled = @ /\ ~Reopens]

-----------------------------------------------------------------------------
ReadyInit == MoleculesInit /\ query = NoQuery

ReadyNext ==
  \/ ListOpen \/ GetDependencies \/ QueryFails \/ GetBlocker \/ NotBlocked \/ AnswerReady \/ AskAgain
  \/ Meanwhile

ReadySpec == ReadyInit /\ [][ReadyNext]_readyVars

-----------------------------------------------------------------------------
ReadyTypeOK == MoleculesTypeOK /\ query \in Query

\* "Returns beads that are open and have no unsatisfied blocking dependencies":
\* an answer whose reads succeeded, and during which nothing changed, says so of
\* exactly the ready ones among the beads listed.
ReadyIsExact ==
  query.at = "answered" /\ query.still => query.ready = {b \in query.listed : IsReady(b)}

\* The order of a formula's steps holds for the agents that work on them: a
\* request made after the formula was applied, whatever is closed, claimed, bonded
\* or deleted while it reads, reports a step only when all steps it needs are
\* closed or deleted, unless one was reopened or a read failed.
StepsInOrder ==
  query.at = "answered" /\ query.settled =>
    \A s \in {t \in query.ready \cap Step : There(t)} :
      \A p \in Needs[s] \ apply.skipped : status[p] \in {"closed", Gone}
=============================================================================
