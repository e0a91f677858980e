------------------------------ MODULE MCBeads ------------------------------
(***************************************************************************)
(* Instances of Beads for TLC: which requests the clients may make.        *)
(***************************************************************************)
EXTENDS Beads, TLC

CONSTANTS b1, b2, l1, l2, k1, v1, v2, a1, a2

NoFields == [k \in Key |-> Keep]
Nothing == [status |-> Keep, assignee |-> Keep, fields |-> NoFields,
            labelsSet |-> FALSE, labels |-> {}]
SetLabels(s) == [Nothing EXCEPT !.labelsSet = TRUE, !.labels = s]
Ask(op, b) ==
  [op |-> op, bead |-> b, patch |-> Nothing, actor |-> a1, label |-> l1, on |-> b]
Update(b, p) == [Ask("update", b) EXCEPT !.patch = p]
With(op, v) == [Ask(op, b1) EXCEPT !.patch.fields = [k \in Key |-> v]]

\* Status, assignee and field patches, closes and merges racing on one bead
\* that may get deleted.
RowCalls ==
  {Update(b1, [Nothing EXCEPT !.status = s]) : s \in {"open", "closed", "bogus"}}
  \cup {[With("update", v1) EXCEPT !.patch.assignee = a2],
        With("merge", v2), With("httpClose", v2),
        Ask("close", b1), Ask("delete", b1)}

\* Label sets and single labels racing with each other and with a delete.
LabelCalls ==
  {Update(b1, SetLabels(s)) : s \in {{}, {l1}, {l2}, {l1, l2}}}
  \cup {Ask("addLabel", b1), Ask("removeLabel", b1), Ask("delete", b1)}

\* Creation, relations between two beads, deletes of either end.
LinkCalls ==
  {[Ask("create", b) EXCEPT !.patch.labels = {l1}] : b \in {b1, b2}}
  \cup {[Ask(op, b1) EXCEPT !.on = b2] : op \in {"addDep", "removeDep"}}
  \cup {Ask(op, b1) : op \in {"addComment", "delete", "httpClose"}}
  \cup {Ask("delete", b2), Update(b1, SetLabels({l1}))}

\* One client patches the assignee while another closes the bead.
PatchCalls == {Update(b1, [Nothing EXCEPT !.assignee = a2]), Ask("close", b1)}

\* The three sets of calls are explored one at a time, the first two on a single
\* bead: no request of one races with a request of another.
AllCalls == RowCalls \cup LabelCalls \cup LinkCalls
Asked == {call[r] : r \in {q \in Request : pc[q] # Idle}}
OneScenario ==
  \/ Asked \subseteq LinkCalls
  \/ used \subseteq {b1} /\ (Asked \subseteq RowCalls \/ Asked \subseteq LabelCalls)

RequestSymmetry == Permutations(Request)
=============================================================================
