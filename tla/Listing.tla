------------------------------- MODULE Listing -------------------------------
(***************************************************************************)
(* ListBeads: which rows a filter selects, in which order, and which of    *)
(* them a page holds.  A criterion that is not given selects all.  Search, *)
(* kind, field and age criteria, of the same form as those here, are left  *)
(* out; so are the labels read after the rows.                             *)
(***************************************************************************)
EXTENDS Naturals, Sequences, FiniteSets, TLC

CONSTANTS
  Row,           \* ids
  About,         \* [Row -> [type, priority, assignee, labels, created]], which does not change here
  Anything,           \* a criterion not given
  Unlimited      \* limit 0

\* A link is a row of deps: [from, to, type].
Link == [from : Row, to : Row, type : {"blocks", "parent-child", "related"}]

NoCriteria ==
  [status |-> Anything, types |-> Anything, excluded |-> {}, assignee |-> Anything, atLeast |-> Anything, atMost |-> Anything,
   labels |-> {}, labelsAny |-> Anything, parent |-> Anything, noOpenDeps |-> FALSE, limit |-> Unlimited]

Selects(f, b, status, links) ==
  /\ f.status # Anything => status[b] \in f.status
  /\ f.types # Anything => About[b].type \in f.types
  /\ About[b].type \notin f.excluded
  /\ f.assignee # Anything => About[b].assignee = f.assignee
  /\ f.atLeast # Anything => About[b].priority >= f.atLeast
  /\ f.atMost # Anything => About[b].priority <= f.atMost
  /\ f.labels \subseteq About[b].labels
  /\ f.labelsAny # Anything => f.labelsAny \cap About[b].labels # {}
  /\ f.parent # Anything => [from |-> b, to |-> f.parent, type |-> "parent-child"] \in links
  /\ f.noOpenDeps => \A l \in links : l.from = b => status[l.to] \notin {"open", "in_progress", "deferred"}

Selected(f, status, links) == {b \in DOMAIN status : status[b] # "gone" /\ Selects(f, b, status, links)}

\* ORDER BY created_at DESC LIMIT n, and COUNT(*) OVER () for the total.
ListBeads(f, status, links) ==
  LET all == Selected(f, status, links)
      newer(b) == {c \in all : About[c].created > About[b].created}
  IN [beads |-> IF f.limit = Unlimited THEN all ELSE {b \in all : Cardinality(newer(b)) < f.limit},
      total |-> Cardinality(all)]
=============================================================================
