------------------------------ MODULE StopGate ------------------------------
(***************************************************************************)
(* The "decision" gate of one agent: handleHookEmit for Stop hooks, the    *)
(* satisfy and clear endpoints, and the writers of the agent bead.         *)
(*                                                                         *)
(* Two records must agree for a Stop to pass: the row of session_gates and *)
(* the field gate_satisfied_by of the agent bead.  They are read and       *)
(* cleared by separate statements, in handlers that run concurrently; one  *)
(* action is one statement.  The agent bead is written as a whole row, so  *)
(* any update of it writes back the field it read.                         *)
(***************************************************************************)
EXTENDS Naturals, FiniteSets

CONSTANTS
  Stops,     \* Stop hooks emitted for the agent
  Yields,    \* gb yield / gb gate mark --force: satisfy, then set the field
  Satisfies, \* bare calls of the satisfy endpoint
  Clears,    \* calls of the clear endpoint
  Touches,   \* updates of the agent bead that do not give the field
  Overlap,   \* may two Stops of the agent be handled at once?
  MayFail,   \* the statements that may fail
  Unread     \* no copy of the agent bead held

Request == Stops \cup Yields \cup Satisfies \cup Clears \cup Touches

Statement == {"upsert", "check", "verify", "mark", "clear", "read", "write", "hooks"}
PC == {"idle", "done", "failed", "allowed", "blocked"} \cup Statement

Accepted == {"yield", "operator"}   \* "manual-force" is treated as "operator"
Field == Accepted \cup {"none"}

ASSUME StopGateAssumption ==
  /\ Overlap \in BOOLEAN
  /\ MayFail \subseteq Statement \ {"hooks"}
  /\ Unread \notin Field
  /\ Stops \cap (Yields \cup Satisfies \cup Clears \cup Touches) = {}
  /\ Yields \cap (Satisfies \cup Clears \cup Touches) = {}
  /\ Satisfies \cap (Clears \cup Touches) = {} /\ Clears \cap Touches = {}

VARIABLES
  gate,    \* session_gates.status of (agent, "decision"), "absent" with no row
  field,   \* gate_satisfied_by of the agent bead ("none": missing, null, other)
  pc,      \* per request: its next statement or its outcome
  copy,    \* per request: the field in the row it is about to write back
  marks,   \* history: times the gate was marked satisfied
  yields,  \* history: times a yield set the field
  passed,  \* history: Stops that got past the gate
  spoilt   \* history: a Stop failed to clear the field, or a stale update of the
           \* agent bead wrote over it

history == <<marks, yields, passed, spoilt>>
vars == <<gate, field, pc, copy, history>>

Goto(r, s) == pc' = [pc EXCEPT ![r] = s]
Stopping(r) == r \in Stops /\ pc[r] \in Statement

-----------------------------------------------------------------------------
Start(r) ==
  /\ pc[r] = "idle"
  /\ r \in Stops /\ ~Overlap => \A q \in Stops : ~Stopping(q)
  /\ Goto(r, IF r \in Clears THEN "clear" ELSE IF r \in Touches THEN "read" ELSE "upsert")
  /\ UNCHANGED <<gate, field, copy, history>>

\* INSERT ... ON CONFLICT DO NOTHING.
UpsertGate(r) ==
  /\ pc[r] = "upsert"
  /\ gate' = IF gate = "absent" THEN "pending" ELSE gate
  /\ Goto(r, IF r \in Stops THEN "check" ELSE "mark")
  /\ UNCHANGED <<field, copy, history>>

\* (fault) everything but "pending" counts as satisfied
CheckNotPending(r) ==
  /\ pc[r] = "check"
  /\ Goto(r, IF gate # "pending" THEN "verify" ELSE "blocked")
  /\ UNCHANGED <<gate, field, copy, history>>

\* IsGateSatisfied: a missing row is not satisfied.
IsGateSatisfied(r) ==
  /\ pc[r] = "check"
  /\ Goto(r, IF gate = "satisfied" THEN "verify" ELSE "blocked")
  /\ UNCHANGED <<gate, field, copy, history>>

\* GetBead of the agent: was the gate satisfied via yield or by an operator?
VerifySatisfiedBy(r) ==
  /\ pc[r] = "verify"
  /\ Goto(r, IF field \in Accepted THEN "clear" ELSE "blocked")
  /\ UNCHANGED <<gate, field, copy, history>>

\* UPDATE of the row the upsert before it made sure of.
MarkGateSatisfied(r) ==
  /\ pc[r] = "mark"
  /\ gate' = IF gate = "absent" THEN "absent" ELSE "satisfied"
  /\ marks' = marks + 1
  /\ Goto(r, IF r \in Yields THEN "read" ELSE "done")
  /\ UNCHANGED <<field, copy, yields, passed, spoilt>>

AfterClear(r) == IF r \in Stops THEN "read" ELSE "done"
CountPass(r) == passed' = IF r \in Stops THEN passed + 1 ELSE passed

\* Consumption by a Stop that passes, or the clear endpoint.
ClearGate(r) ==
  /\ pc[r] = "clear"
  /\ gate' = IF gate = "absent" THEN "absent" ELSE "pending"
  /\ Goto(r, AfterClear(r))
  /\ CountPass(r)
  /\ UNCHANGED <<field, copy, marks, yields, spoilt>>

\* (fault) the Stop's merge writes the field back as it was
ReadBeadKeeps(r) ==
  /\ pc[r] = "read"
  /\ \E v \in IF r \in Yields THEN Accepted ELSE {field} : copy' = [copy EXCEPT ![r] = v]
  /\ Goto(r, "write")
  /\ UNCHANGED <<gate, field, history>>

\* GetBead of mergeBeadFields or updateBead, and the new fields: a Stop sets
\* the field to null, a yield sets it, any other update keeps what it read.
NewField(r) ==
  IF r \in Stops THEN {"none"} ELSE IF r \in Yields THEN Accepted ELSE {field}
ReadBead(r) ==
  /\ pc[r] = "read"
  /\ \E v \in NewField(r) : copy' = [copy EXCEPT ![r] = v]
  /\ Goto(r, "write")
  /\ UNCHANGED <<gate, field, history>>

\* UpdateBead: the whole row.
WriteBead(r) ==
  /\ pc[r] = "write"
  /\ field' = copy[r]
  /\ yields' = IF r \in Yields THEN yields + 1 ELSE yields
  /\ Goto(r, IF r \in Stops THEN "hooks" ELSE "done")
  /\ spoilt' = (spoilt \/ (r \in Touches /\ copy[r] # field))
  /\ UNCHANGED <<gate, copy, marks, passed>>

\* The session-end advice hooks and the event bus may still block a Stop that
\* has consumed the gate.
RunHooks(r) ==
  /\ pc[r] = "hooks"
  /\ \E outcome \in {"allowed", "blocked"} : Goto(r, outcome)
  /\ UNCHANGED <<gate, field, copy, history>>

\* Where a failed statement leads.  handleHookEmit logs and goes on: an
\* unreadable gate or bead blocks, a failed consumption does not.
AfterFailure(r) ==
  IF r \notin Stops THEN "failed"
  ELSE CASE pc[r] = "upsert" -> "check"
         [] pc[r] \in {"check", "verify"} -> "blocked"
         [] pc[r] = "clear" -> "read"
         [] OTHER -> "hooks"
Fail(r) ==
  /\ pc[r] \in MayFail
  /\ Goto(r, AfterFailure(r))
  /\ passed' = IF r \in Stops /\ pc[r] = "clear" THEN passed + 1 ELSE passed
  /\ spoilt' = (spoilt \/ (r \in Stops /\ pc[r] \in {"read", "write"}))
  /\ UNCHANGED <<gate, field, copy, marks, yields>>

-----------------------------------------------------------------------------
Init ==
  /\ gate = "absent" /\ field = "none"
  /\ pc = [r \in Request |-> "idle"]
  /\ copy = [r \in Request |-> Unread]
  /\ marks = 0 /\ yields = 0 /\ passed = 0 /\ spoilt = FALSE

Step(r) ==
  \/ Start(r) \/ UpsertGate(r) \/ IsGateSatisfied(r) \/ VerifySatisfiedBy(r)
  \/ MarkGateSatisfied(r) \/ ClearGate(r) \/ ReadBead(r) \/ WriteBead(r)
  \/ RunHooks(r) \/ Fail(r)

AllServed == (\A r \in Request : pc[r] \notin Statement \cup {"idle"}) /\ UNCHANGED vars

Next == (\E r \in Request : Step(r)) \/ AllServed

Spec == Init /\ [][Next]_vars

-----------------------------------------------------------------------------
(* Properties.                                                             *)

\* Types; and no update of the agent bead writes a row it has not read.
TypeOK ==
  /\ gate \in {"absent", "pending", "satisfied"}
  /\ field \in Field
  /\ pc \in [Request -> PC]
  /\ copy \in [Request -> Field \cup {Unread}]
  /\ marks \in Nat /\ yields \in Nat /\ passed \in Nat /\ spoilt \in BOOLEAN
  /\ \A r \in Request : pc[r] = "write" => copy[r] # Unread

\* "A new decision+yield cycle is required for every Stop": the Stops let
\* through never outnumber the times the gate was marked satisfied.
OneStopPerMark == passed <= marks

\* The same for the second record, also when clearing the gate row fails: while
\* the Stops manage to clear the field and no stale update undoes it, the Stops
\* let through never outnumber the times a yield (or an operator) put its name
\* on the agent bead, so a bare call of the satisfy endpoint lets nobody through.
OneStopPerYield == ~spoilt => passed <= yields

\* While one Stop is handled at a time and its ClearGate succeeds, the gate is
\* a turnstile: it stands open from a mark until the Stop that passes, and
\* nothing but a mark opens it.
Open == gate = "satisfied" \/ \E r \in Stops : pc[r] \in {"verify", "clear"}
Promise == INSTANCE StopGatePromise WITH
             open <- Open, opened <- marks, through <- passed
Turnstile == Promise!Spec
=============================================================================
