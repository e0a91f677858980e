----------------------------- MODULE TopicMatch -----------------------------
(***************************************************************************)
(* matchTopicPattern: the filter of an SSE stream, on topics and patterns  *)
(* split at the dots.  The loop returns at the first segment of the        *)
(* pattern that decides; it is compared with the meaning of the wildcards. *)
(***************************************************************************)
EXTENDS Naturals, Sequences, FiniteSetsExt

\* Where the loop returns.
Decides(p, t, i) == p[i] = ">" \/ i > Len(t) \/ (p[i] # "*" /\ p[i] # t[i])

\* (fault) ">" also stands for no segment at all
MatchEmptyTail(p, t) ==
  LET d == {i \in DOMAIN p : Decides(p, t, i)}
  IN \/ p = t
     \/ IF d = {} THEN Len(p) = Len(t) ELSE p[Min(d)] = ">"

MatchTopicPattern(p, t) ==
  LET d == {i \in DOMAIN p : Decides(p, t, i)}
  IN \/ p = t
     \/ IF d = {} THEN Len(p) = Len(t) ELSE p[Min(d)] = ">" /\ Min(d) <= Len(t)

\* A prefix of the pattern stands for as many segments, literally or by "*";
\* then the pattern ends with the topic, or its ">" stands for what is left.
Covers(p, t, k) == k <= Len(t) /\ \A i \in 1..k : p[i] \in {"*", t[i]}
Means(p, t) ==
  \/ Len(p) = Len(t) /\ Covers(p, t, Len(p))
  \/ \E k \in 1..Len(p) : p[k] = ">" /\ k <= Len(t) /\ Covers(p, t, k - 1)
=============================================================================
