------------------------------ MODULE MCSSEHub ------------------------------
(* Instances of SSEHub for TLC: topics are sequences of segments, and what a *)
(* client wants is what the filters of its stream match.                     *)
EXTENDS SSEHub, TopicMatch, SequencesExt, TLC

Symmetry == Permutations(Publisher)

Created == <<"beads", "bead", "created">>
Labelled == <<"beads", "label", "added">>
BeadTopics == {Created}
BothTopics == {Created, Labelled}

\* ?topics=beads.bead.>,jacks.*
Filters == {<<"beads", "bead", ">">>, <<"jacks", "*">>}
WantsFiltered ==
  [c \in Client |-> {t \in Topic : \E p \in Filters : MatchTopicPattern(p, t)}]

Literal == {"a", "b"}
Patterns == SeqOf(Literal \cup {"*", ">"}, 4) \ {<<>>}
Topics == SeqOf(Literal, 5) \ {<<>>}

\* 'Supports "*" as a single-segment wildcard and ">" as a multi-segment suffix
\* wildcard (NATS-style)': matchTopicPattern decides what the wildcards mean,
\* for topics without wildcards of their own.
MatchIsMeaning ==
  nextID = 0 /\ clients = {} =>
    \A p \in Patterns, t \in Topics : MatchTopicPattern(p, t) = Means(p, t)
=============================================================================
