--------------------------- MODULE StopGatePromise ---------------------------
(***************************************************************************)
(* What the "decision" gate promises to an agent: a turnstile.  Satisfying *)
(* the gate is the only thing that opens it, letting a Stop through shuts  *)
(* it, and it may also be shut without letting anyone through.             *)
(***************************************************************************)
EXTENDS Naturals

VARIABLES open,     \* a Stop would be let through
          opened,   \* times the gate was satisfied
          through   \* Stops let through so far

Init == open = FALSE /\ opened = 0 /\ through = 0

Satisfy == open' = TRUE /\ opened' = opened + 1 /\ UNCHANGED through
Reset == open' = FALSE /\ UNCHANGED <<opened, through>>
Pass == open /\ open' = FALSE /\ through' = through + 1 /\ UNCHANGED opened

Next == Satisfy \/ Reset \/ Pass

Spec == Init /\ [][Next]_<<open, opened, through>>
=============================================================================
