----------------------------- MODULE MCStopGate -----------------------------
(* Instances of StopGate for TLC. *)
EXTENDS StopGate, TLC

\* Requests of one kind are interchangeable.
Symmetry == Permutations(Stops) \cup Permutations(Yields) \cup
            Permutations(Satisfies) \cup Permutations(Touches)

NoFailure == {}
AnyButClear == {"upsert", "check", "verify", "mark", "read", "write"}
=============================================================================
