--------------------------- MODULE StopGateProofs ---------------------------
(***************************************************************************)
(* While an agent has one Stop handled at a time, the decision gate lets   *)
(* one Stop through per mark and per yield, for any numbers of requests.   *)
(***************************************************************************)
EXTENDS StopGate, TLAPS

\* Which statements a kind of request executes; a mark finds the row of the
\* upsert before it.
Roles ==
  /\ \A r \in Request :
       /\ pc[r] \in {"check", "verify", "hooks"} => r \in Stops
       /\ pc[r] = "mark" => r \notin Stops /\ gate # "absent"
       /\ pc[r] = "clear" => r \in Stops \cup Clears
       /\ pc[r] \in {"read", "write"} => r \in Stops \cup Yields \cup Touches
       /\ pc[r] = "write" /\ r \in Stops => copy[r] = "none"

OneStopAtATime ==
  \A q, r \in Stops : Stopping(q) /\ Stopping(r) => q = r

\* The gate stands for one mark that no Stop has used up yet.
MarkLedger == passed + (IF Open THEN 1 ELSE 0) <= marks

IInv == TypeOK /\ Roles /\ OneStopAtATime

\* A Stop has seen an accepted field and has not consumed it yet, or the field
\* is there to be seen and no Stop is about to erase it.
Yielded ==
  \/ \E r \in Stops : pc[r] = "clear"
  \/ field \in Accepted /\ \A r \in Stops : pc[r] \notin {"read", "write"}
YieldLedger == ~spoilt => passed + (IF Yielded THEN 1 ELSE 0) <= yields

-----------------------------------------------------------------------------
LEMMA InitIInv == Init => IInv /\ MarkLedger /\ YieldLedger
<1> SUFFICES ASSUME Init PROVE IInv /\ MarkLedger /\ YieldLedger
  OBVIOUS
<1> USE StopGateAssumption DEF Init, Request
<1>1. TypeOK /\ Roles
  BY DEF TypeOK, Roles, PC, Field
<1>2. OneStopAtATime
  BY DEF OneStopAtATime, Stopping, Statement
<1>3. ~Open /\ ~Yielded
  BY DEF Open, Yielded, Accepted
<1> QED
  BY <1>1, <1>2, <1>3 DEF IInv, MarkLedger, YieldLedger

\* Types and roles hold whatever the overlap and the failures.
LEMMA NextTypes == TypeOK /\ Roles /\ [Next]_vars => TypeOK' /\ Roles'
<1> SUFFICES ASSUME TypeOK, Roles, [Next]_vars PROVE TypeOK' /\ Roles'
  OBVIOUS
<1> USE StopGateAssumption DEF TypeOK, Roles, PC, Statement, Field, Accepted, Goto, history
<1>1. ASSUME NEW r \in Request, Start(r) PROVE TypeOK' /\ Roles'
  BY <1>1 DEF Start, Request
<1>2. ASSUME NEW r \in Request, UpsertGate(r) PROVE TypeOK' /\ Roles'
  BY <1>2 DEF UpsertGate
<1>3. ASSUME NEW r \in Request, IsGateSatisfied(r) PROVE TypeOK' /\ Roles'
  BY <1>3 DEF IsGateSatisfied
<1>4. ASSUME NEW r \in Request, VerifySatisfiedBy(r) PROVE TypeOK' /\ Roles'
  BY <1>4 DEF VerifySatisfiedBy
<1>5. ASSUME NEW r \in Request, MarkGateSatisfied(r) PROVE TypeOK' /\ Roles'
  BY <1>5 DEF MarkGateSatisfied
<1>6. ASSUME NEW r \in Request, ClearGate(r) PROVE TypeOK' /\ Roles'
  BY <1>6 DEF ClearGate, AfterClear, CountPass
<1>7. ASSUME NEW r \in Request, ReadBead(r) PROVE TypeOK' /\ Roles'
  BY <1>7 DEF ReadBead, NewField
<1>8. ASSUME NEW r \in Request, WriteBead(r) PROVE TypeOK' /\ Roles'
  BY <1>8 DEF WriteBead
<1>9. ASSUME NEW r \in Request, RunHooks(r) PROVE TypeOK' /\ Roles'
  BY <1>9 DEF RunHooks
<1>10. ASSUME NEW r \in Request, Fail(r) PROVE TypeOK' /\ Roles'
  BY <1>10 DEF Fail, AfterFailure
<1>11. CASE UNCHANGED vars
  BY <1>11 DEF vars
<1> QED
  BY <1>1, <1>2, <1>3, <1>4, <1>5, <1>6, <1>7, <1>8, <1>9, <1>10, <1>11
  DEF Next, Step, AllServed

\* Two Stops overlap only if Start lets them.
LEMMA NextSerial ==
  ASSUME Overlap = FALSE
  PROVE  IInv /\ [Next]_vars => OneStopAtATime'
<1> SUFFICES ASSUME IInv, [Next]_vars PROVE OneStopAtATime'
  OBVIOUS
<1> USE DEF OneStopAtATime, Stopping
<1>1. ASSUME NEW r \in Request, Start(r) PROVE OneStopAtATime'
  BY <1>1 DEF Start, Goto, IInv, TypeOK
<1>2. ASSUME NEW r \in Request, Step(r), ~Start(r) PROVE OneStopAtATime'
  <2>1. pc[r] \in Statement
    BY <1>2, StopGateAssumption
    DEF Step, UpsertGate, IsGateSatisfied, VerifySatisfiedBy, MarkGateSatisfied,
        ClearGate, ReadBead, WriteBead, RunHooks, Fail, Statement
  <2>2. \E s : pc' = [pc EXCEPT ![r] = s]
    BY <1>2 DEF Step, UpsertGate, IsGateSatisfied, VerifySatisfiedBy, MarkGateSatisfied,
                ClearGate, ReadBead, WriteBead, RunHooks, Fail, Goto
  <2> QED
    BY <2>1, <2>2 DEF IInv, TypeOK
<1>3. CASE UNCHANGED vars
  BY <1>3 DEF vars, IInv
<1> QED
  BY <1>1, <1>2, <1>3 DEF Next, AllServed

\* A Stop spends the mark it saw when it clears the gate, and no other Stop has
\* seen the same mark.
LEMMA NextMarkLedger ==
  ASSUME Overlap = FALSE, "clear" \notin MayFail
  PROVE  IInv /\ MarkLedger /\ [Next]_vars => MarkLedger'
<1> SUFFICES ASSUME IInv, MarkLedger, [Next]_vars PROVE MarkLedger'
  OBVIOUS
<1> USE StopGateAssumption DEF IInv, TypeOK, Goto, MarkLedger, Open, Request, history
<1>1. ASSUME NEW r \in Request, Start(r) PROVE MarkLedger'
  BY <1>1 DEF Start
<1>2. ASSUME NEW r \in Request, UpsertGate(r) PROVE MarkLedger'
  BY <1>2 DEF UpsertGate
<1>3. ASSUME NEW r \in Request, IsGateSatisfied(r) PROVE MarkLedger'
  BY <1>3 DEF IsGateSatisfied
<1>4. ASSUME NEW r \in Request, VerifySatisfiedBy(r) PROVE MarkLedger'
  BY <1>4 DEF VerifySatisfiedBy, Roles
<1>5. ASSUME NEW r \in Request, MarkGateSatisfied(r) PROVE MarkLedger'
  BY <1>5 DEF MarkGateSatisfied
<1>6. ASSUME NEW r \in Request, ClearGate(r) PROVE MarkLedger'
  <2>1. CASE r \in Stops
    <3>1. ~Open'
      BY <1>6, <2>1 DEF ClearGate, AfterClear, OneStopAtATime, Stopping, Statement
    <3> QED
      BY <1>6, <2>1, <3>1 DEF ClearGate, CountPass
  <2>2. CASE r \notin Stops
    BY <1>6, <2>2 DEF ClearGate, CountPass, AfterClear
  <2> QED
    BY <2>1, <2>2
<1>7. ASSUME NEW r \in Request, ReadBead(r) PROVE MarkLedger'
  BY <1>7 DEF ReadBead
<1>8. ASSUME NEW r \in Request, WriteBead(r) PROVE MarkLedger'
  BY <1>8 DEF WriteBead
<1>9. ASSUME NEW r \in Request, RunHooks(r) PROVE MarkLedger'
  BY <1>9 DEF RunHooks
<1>10. ASSUME NEW r \in Request, Fail(r) PROVE MarkLedger'
  BY <1>10 DEF Fail, AfterFailure
<1>11. CASE UNCHANGED vars
  BY <1>11 DEF vars
<1> QED
  BY <1>1, <1>2, <1>3, <1>4, <1>5, <1>6, <1>7, <1>8, <1>9, <1>10, <1>11
  DEF Next, Step, AllServed

\* A Stop erases the field it accepted before another Stop can see it.
LEMMA NextYieldLedger ==
  ASSUME Overlap = FALSE
  PROVE  IInv /\ YieldLedger /\ [Next]_vars => YieldLedger'
<1> SUFFICES ASSUME IInv, YieldLedger, [Next]_vars PROVE YieldLedger'
  OBVIOUS
<1> USE StopGateAssumption DEF IInv, TypeOK, Goto, YieldLedger, Yielded, Request, history
<1>1. ASSUME NEW r \in Request, Start(r) PROVE YieldLedger'
  BY <1>1 DEF Start
<1>2. ASSUME NEW r \in Request, UpsertGate(r) PROVE YieldLedger'
  BY <1>2 DEF UpsertGate
<1>3. ASSUME NEW r \in Request, IsGateSatisfied(r) PROVE YieldLedger'
  BY <1>3 DEF IsGateSatisfied
<1>4. ASSUME NEW r \in Request, VerifySatisfiedBy(r) PROVE YieldLedger'
  <2>1. r \in Stops /\ pc[r] = "verify"
    BY <1>4 DEF VerifySatisfiedBy, Roles
  <2>2. \A q \in Stops : pc[q] \notin {"read", "write"}
    BY <2>1 DEF OneStopAtATime, Stopping, Statement
  <2> QED
    BY <1>4, <2>1, <2>2 DEF VerifySatisfiedBy
<1>5. ASSUME NEW r \in Request, MarkGateSatisfied(r) PROVE YieldLedger'
  BY <1>5 DEF MarkGateSatisfied, Roles
<1>6. ASSUME NEW r \in Request, ClearGate(r) PROVE YieldLedger'
  <2>1. CASE r \in Stops
    <3>1. ~Yielded'
      BY <1>6, <2>1 DEF ClearGate, AfterClear, OneStopAtATime, Stopping, Statement
    <3> QED
      BY <1>6, <2>1, <3>1 DEF ClearGate, CountPass
  <2>2. CASE r \notin Stops
    BY <1>6, <2>2 DEF ClearGate, CountPass, AfterClear
  <2> QED
    BY <2>1, <2>2
<1>7. ASSUME NEW r \in Request, ReadBead(r) PROVE YieldLedger'
  BY <1>7 DEF ReadBead
<1>8. ASSUME NEW r \in Request, WriteBead(r) PROVE YieldLedger'
  <2>1. CASE r \in Stops
    <3>1. field' = "none"
      BY <1>8, <2>1 DEF WriteBead, Roles
    <3> QED
      BY <1>8, <2>1, <3>1 DEF WriteBead, Accepted
  <2>2. CASE r \in Yields
    BY <1>8, <2>2 DEF WriteBead
  <2>3. CASE r \in Touches
    BY <1>8, <2>3 DEF WriteBead
  <2> QED
    BY <1>8, <2>1, <2>2, <2>3 DEF WriteBead, Roles
<1>9. ASSUME NEW r \in Request, RunHooks(r) PROVE YieldLedger'
  BY <1>9 DEF RunHooks
<1>10. ASSUME NEW r \in Request, Fail(r) PROVE YieldLedger'
  <2>1. CASE r \in Stops /\ pc[r] = "clear"
    <3>1. ~Yielded'
      BY <1>10, <2>1 DEF Fail, AfterFailure, OneStopAtATime, Stopping, Statement
    <3> QED
      BY <1>10, <2>1, <3>1 DEF Fail
  <2>2. CASE ~(r \in Stops /\ pc[r] = "clear")
    BY <1>10, <2>2 DEF Fail, AfterFailure
  <2> QED
    BY <2>1, <2>2
<1>11. CASE UNCHANGED vars
  BY <1>11 DEF vars
<1> QED
  BY <1>1, <1>2, <1>3, <1>4, <1>5, <1>6, <1>7, <1>8, <1>9, <1>10, <1>11
  DEF Next, Step, AllServed

-----------------------------------------------------------------------------
\* The types and the copies hold however Stops overlap and statements fail.
THEOREM StopGateTypeCorrect == Spec => []TypeOK
<1>1. Init => TypeOK /\ Roles
  BY InitIInv DEF IInv
<1> QED
  BY <1>1, NextTypes, PTL DEF Spec

LEMMA SerialIInv == ASSUME Overlap = FALSE PROVE Spec => []IInv
<1>1. Init => IInv
  BY InitIInv
<1>2. IInv /\ [Next]_vars => IInv'
  BY NextTypes, NextSerial DEF IInv
<1> QED
  BY <1>1, <1>2, PTL DEF Spec

\* "A new decision+yield cycle is required for every Stop", for the gate row:
\* any mix of requests and failures except overlapping Stops and a failing
\* ClearGate.
THEOREM StopGateOneStopPerMark ==
  ASSUME Overlap = FALSE, "clear" \notin MayFail
  PROVE  Spec => []OneStopPerMark
<1>1. Init => MarkLedger
  BY InitIInv
<1>2. TypeOK /\ MarkLedger => OneStopPerMark
  BY DEF TypeOK, MarkLedger, OneStopPerMark
<1>3. IInv => TypeOK
  BY DEF IInv
<1> QED
  BY <1>1, <1>2, <1>3, SerialIInv, NextMarkLedger, PTL DEF Spec

\* The same for gate_satisfied_by, whatever fails and whoever else updates the
\* agent bead, until the field a Stop cleared is back.
THEOREM StopGateOneStopPerYield ==
  ASSUME Overlap = FALSE
  PROVE  Spec => []OneStopPerYield
<1>1. Init => YieldLedger
  BY InitIInv
<1>2. TypeOK /\ YieldLedger => OneStopPerYield
  BY DEF TypeOK, YieldLedger, OneStopPerYield
<1>3. IInv => TypeOK
  BY DEF IInv
<1> QED
  BY <1>1, <1>2, <1>3, SerialIInv, NextYieldLedger, PTL DEF Spec

\* Each step of the handlers is a step of the turnstile or leaves it as it is.
LEMMA StepIsPromise ==
  ASSUME Overlap = FALSE, "clear" \notin MayFail
  PROVE  IInv /\ [Next]_vars => [Promise!Next]_<<Open, marks, passed>>
<1> SUFFICES ASSUME IInv, [Next]_vars PROVE [Promise!Next]_<<Open, marks, passed>>
  OBVIOUS
<1> USE StopGateAssumption DEF IInv, TypeOK, Goto, Open, Request, history
<1> DEFINE Same == Open' = Open /\ marks' = marks /\ passed' = passed
<1>1. ASSUME NEW r \in Request, Start(r) PROVE Same
  BY <1>1 DEF Start
<1>2. ASSUME NEW r \in Request, UpsertGate(r) PROVE Same
  BY <1>2 DEF UpsertGate
<1>3. ASSUME NEW r \in Request, IsGateSatisfied(r) PROVE Same
  BY <1>3 DEF IsGateSatisfied
<1>4. ASSUME NEW r \in Request, VerifySatisfiedBy(r) PROVE Same \/ Promise!Reset
  BY <1>4 DEF VerifySatisfiedBy, Roles, Promise!Reset
<1>5. ASSUME NEW r \in Request, MarkGateSatisfied(r) PROVE Same \/ Promise!Satisfy
  BY <1>5 DEF MarkGateSatisfied, Roles, Promise!Satisfy
<1>6. ASSUME NEW r \in Request, ClearGate(r) PROVE Same \/ Promise!Reset \/ Promise!Pass
  <2>1. CASE r \in Stops
    <3>1. ~Open'
      BY <1>6, <2>1 DEF ClearGate, AfterClear, OneStopAtATime, Stopping, Statement
    <3> QED
      BY <1>6, <2>1, <3>1 DEF ClearGate, CountPass, Promise!Pass
  <2>2. CASE r \notin Stops
    BY <1>6, <2>2 DEF ClearGate, CountPass, AfterClear, Promise!Reset
  <2> QED
    BY <2>1, <2>2
<1>7. ASSUME NEW r \in Request, ReadBead(r) PROVE Same
  BY <1>7 DEF ReadBead
<1>8. ASSUME NEW r \in Request, WriteBead(r) PROVE Same
  BY <1>8 DEF WriteBead
<1>9. ASSUME NEW r \in Request, RunHooks(r) PROVE Same
  BY <1>9 DEF RunHooks
<1>10. ASSUME NEW r \in Request, Fail(r) PROVE Same \/ Promise!Reset
  BY <1>10 DEF Fail, AfterFailure, Promise!Reset
<1>11. CASE UNCHANGED vars
  BY <1>11 DEF vars
<1> QED
  BY <1>1, <1>2, <1>3, <1>4, <1>5, <1>6, <1>7, <1>8, <1>9, <1>10, <1>11
  DEF Next, Step, AllServed, Promise!Next

\* handleHookEmit with the gate endpoints implements the turnstile.
THEOREM StopGateTurnstile ==
  ASSUME Overlap = FALSE, "clear" \notin MayFail
  PROVE  Spec => Turnstile
<1>1. Init => Promise!Init
  BY StopGateAssumption DEF Init, Open, Request, Promise!Init
<1> QED
  BY <1>1, SerialIInv, StepIsPromise, PTL DEF Spec, Turnstile, Promise!Spec
=============================================================================
