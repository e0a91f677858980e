---------------------------- MODULE BeadsProofs ----------------------------
(***************************************************************************)
(* What holds of the mutation handlers for every set of beads, requests,   *)
(* labels, fields and client calls.  The invariant that carries the proof  *)
(* adds to the tables the copies that requests hold between their read and *)
(* their whole-row write: a stale copy is harmless to ClosedConsistent     *)
(* because it was consistent when it was made.                             *)
(***************************************************************************)
EXTENDS Beads, TLAPS

\* A copy about to be written back has closed_at in step with its status.
CopiesConsistent ==
  \A r \in Request : pc[r] = "write" => (row[r].status = "closed" <=> row[r].closedAt)

IInv == TypeOK /\ ClosedConsistent /\ CopiesConsistent /\ NoOrphans

-----------------------------------------------------------------------------
\* Merging a patch into a row's fields yields fields.
LEMMA MergeType ==
  ASSUME NEW f \in [Key -> Value \cup {Unset}], NEW p \in [Key -> Value \cup {Keep}]
  PROVE  MergeFields(f, p) \in [Key -> Value \cup {Unset}]
  BY DEF MergeFields, Given

\* The row a new bead is inserted with is well formed and not closed.
LEMMA NewRowType ==
  ASSUME NEW p \in Patch
  PROVE  NewRow(p) \in Row /\ NewRow(p).status = "open" /\ NewRow(p).closedAt = FALSE
<1>1. [k \in Key |-> Unset] \in [Key -> Value \cup {Unset}]
  OBVIOUS
<1>2. p.fields \in [Key -> Value \cup {Keep}] /\ p.assignee \in Person \cup {Keep}
  BY DEF Patch
<1>3. MergeFields([k \in Key |-> Unset], p.fields) \in [Key -> Value \cup {Unset}]
  BY <1>1, <1>2, MergeType
<1>4. QED
  BY <1>2, <1>3 DEF NewRow, Row, Given, Status, Person

\* What a handler writes back is a row, and consistent, if the row it read was
\* and (for updateBead) validation accepted the result.
LEMMA ImageType ==
  ASSUME NEW c \in Call, NEW old \in Row,
         old.status = "closed" <=> old.closedAt,
         c.op = "update" => ValidRow(Image(c, old))
  PROVE  /\ Image(c, old) \in Row
         /\ Image(c, old).status = "closed" <=> Image(c, old).closedAt
<1> DEFINE p == c.patch
<1>1. /\ p.fields \in [Key -> Value \cup {Keep}]
      /\ p.assignee \in Person \cup {Keep}
      /\ p.status \in StatusInput \cup {Keep}
  BY DEF Call, Patch
<1>2. MergeFields(old.fields, p.fields) \in [Key -> Value \cup {Unset}]
  BY <1>1, MergeType DEF Row
<1>3. CASE c.op = "update"
  BY <1>1, <1>2, <1>3 DEF Image, PatchRow, ValidRow, Row, Given
<1>4. CASE c.op # "update"
  BY <1>2, <1>4 DEF Image, Row
<1>5. QED
  BY <1>3, <1>4

\* Closing a row gives a closed row with its time stamp.
LEMMA ClosedRowType ==
  ASSUME NEW old \in Row, NEW who \in Person
  PROVE  /\ ClosedRow(old, who) \in Row
         /\ ClosedRow(old, who).status = "closed" /\ ClosedRow(old, who).closedAt
  BY DEF ClosedRow, Row, Status

\* Every place a handler can go next is one of the program's.
LEMMA NextStatements ==
  ASSUME NEW c \in Call
  PROVE  /\ FirstStatement(c) \in PC \ {Idle, "write"}
         /\ AfterWrite(c) \in PC \ {Idle, "write"}
         /\ AfterEvent(c) \in PC \ {Idle, "write"}
  BY DEF FirstStatement, AfterWrite, AfterEvent, PC, Statement, Op, Idle, Finished, Call

-----------------------------------------------------------------------------
\* In a busy request everything asked for has its type.
LEMMA CallType ==
  ASSUME TypeOK, NEW r \in Request, pc[r] # Idle
  PROVE  /\ call[r] \in Call /\ B(r) \in Bead /\ call[r].on \in Bead
         /\ call[r].patch \in Patch /\ call[r].patch.labels \in SUBSET Label
         /\ call[r].label \in Label /\ call[r].actor \in Person
  BY BeadsAssumption DEF TypeOK, B, Call, Patch

LEMMA InitIInv == Init => IInv
<1> SUFFICES ASSUME Init PROVE IInv
  OBVIOUS
<1>1. PICK live \in SUBSET Bead : Init!(live)
  BY DEF Init
<1>2. /\ rows \in [Bead -> Row \cup {Nil}]
      /\ \A b \in Bead : rows[b] # Nil => rows[b].status = "open" /\ rows[b].closedAt = FALSE
      /\ \A b \in Bead : rows[b] = Nil => b \notin live
  <2> DEFINE p == [assignee |-> Keep, fields |-> [k \in Key |-> Keep]]
  <2>1. NewRow(p) \in Row /\ NewRow(p).status = "open" /\ NewRow(p).closedAt = FALSE
    <3>1. MergeFields([k \in Key |-> Unset], p.fields) \in [Key -> Value \cup {Unset}]
      <4>1. [k \in Key |-> Unset] \in [Key -> Value \cup {Unset}]
        OBVIOUS
      <4>2. p.fields \in [Key -> Value \cup {Keep}]
        OBVIOUS
      <4>3. QED
        BY <4>1, <4>2, MergeType
    <3>2. QED
      BY <3>1 DEF NewRow, Row, Given, Status, Person
  <2>2. QED
    BY <1>1, <2>1, BeadsAssumption
<1>3. TypeOK
  BY <1>1, <1>2, BeadsAssumption DEF TypeOK, PC, Idle, Statement
<1>4. ClosedConsistent /\ CopiesConsistent
  BY <1>1, <1>2 DEF ClosedConsistent, CopiesConsistent, Idle
<1>5. NoOrphans
  <2>1. ASSUME NEW b \in Bead, rows[b] = Nil PROVE labels[b] = {} /\ comments[b] = {}
    <3>1. b \notin live
      BY <1>2, <2>1
    <3>2. /\ labels = [x \in Bead |-> IF x \in live THEN InitLabels ELSE {}]
          /\ comments = [x \in Bead |-> {}]
      BY <1>1
    <3>3. QED
      BY <3>1, <3>2
  <2>2. deps = {}
    BY <1>1
  <2>3. QED
    BY <2>1, <2>2 DEF NoOrphans
<1>6. QED
  BY <1>3, <1>4, <1>5 DEF IInv

-----------------------------------------------------------------------------
(* Preservation: one lemma per conjunct, one step per action.              *)

\* Every statement keeps the tables and the requests' locals well typed.
LEMMA StepTypeOK == TypeOK /\ ClosedConsistent /\ [Next]_vars => TypeOK'
<1> SUFFICES ASSUME TypeOK, ClosedConsistent, [Next]_vars PROVE TypeOK'
  OBVIOUS
<1> USE DEF Goto, Took, Wrote
<1>u. ASSUME UNCHANGED vars PROVE TypeOK'
  BY <1>u DEF TypeOK, vars, tables, locals
<1>s. ASSUME NEW r \in Request, Step(r) PROVE TypeOK'
  <2> USE DEF TypeOK
  <2>start. CASE Start(r)
    <3>1. PICK c \in Calls : /\ used' = IF c.op = "create" THEN used \cup {c.bead} ELSE used
                             /\ call' = [call EXCEPT ![r] = c]
                             /\ pc' = [pc EXCEPT ![r] = FirstStatement(c)]
      BY <2>start DEF Start
    <3>2. c \in Call /\ c.bead \in Bead /\ FirstStatement(c) \in PC \ {Idle, "write"}
      BY BeadsAssumption, NextStatements DEF Call
    <3>3. UNCHANGED <<tables, log, row, adding, removing, alone>>
      BY <2>start DEF Start
    <3>4. QED
      BY <3>1, <3>2, <3>3 DEF tables
  <2>b. ASSUME pc[r] # Idle
        PROVE  /\ call[r] \in Call /\ B(r) \in Bead /\ call[r].on \in Bead
               /\ call[r].patch \in Patch /\ call[r].patch.labels \in SUBSET Label
               /\ call[r].label \in Label /\ call[r].actor \in Person
               /\ AfterWrite(call[r]) \in PC \ {Idle, "write"}
               /\ AfterEvent(call[r]) \in PC \ {Idle, "write"}
               /\ AfterError(r) \in PC \ {Idle, "write"}
    BY <2>b, CallType, NextStatements DEF AfterError, PC, Statement, Op, Idle, Finished
  <2> USE DEF tables, locals
  <2>fail. CASE Fail(r)
    BY <2>fail, <2>b DEF Fail, Idle, Statement, Op
  <2>create. CASE Create(r)
    <3>1. pc[r] # Idle /\ NewRow(call[r].patch) \in Row
      BY <2>create, <2>b, NewRowType DEF Create, Idle
    <3>2. "event" \in PC \ {Idle, "write"}
      BY DEF PC, Statement, Idle
    <3> QED
      BY <2>create, <2>b, <3>1, <3>2 DEF Create
  <2>read. CASE ReadRow(r)
    <3>1. pc[r] # Idle /\ rows[B(r)] # Nil
      BY <2>read DEF ReadRow, Idle
    <3>2. /\ rows[B(r)] \in Row
          /\ rows[B(r)].status = "closed" <=> rows[B(r)].closedAt
      BY <3>1, <2>b DEF ClosedConsistent
    <3> DEFINE new == Image(call[r], rows[B(r)])
    <3>3. CASE call[r].op = "update" /\ ~ValidRow(new)
      BY <3>1, <3>3, <2>read DEF ReadRow, PC, Finished, Idle
    <3>4. CASE ~(call[r].op = "update" /\ ~ValidRow(new))
      <4>1. new \in Row
        BY <3>1, <3>2, <3>4, <2>b, ImageType
      <4>2. /\ pc' = [pc EXCEPT ![r] = "write"] /\ row' = [row EXCEPT ![r] = new]
            /\ UNCHANGED <<tables, log, used, call, adding, removing, alone>>
        BY <3>4, <2>read DEF ReadRow
      <4>3. QED
        BY <3>1, <4>1, <4>2 DEF PC, Statement, Idle
    <3>5. QED
      BY <3>3, <3>4
  <2>missing. CASE Missing(r)
    BY <2>missing, <2>b DEF Missing, Idle
  <2>write. CASE WriteRow(r)
    BY <2>write, <2>b DEF WriteRow, Idle
  <2>get. CASE GetLabels(r)
    BY <2>get, <2>b DEF GetLabels, Idle, PC, Statement
  <2>rem. CASE ReconcileRemove(r)
    BY <2>rem, <2>b DEF ReconcileRemove, Idle
  <2>add. CASE ReconcileAdd(r)
    BY <2>add, <2>b DEF ReconcileAdd, Idle
  <2>end. CASE ReconcileEnd(r)
    BY <2>end, <2>b DEF ReconcileEnd, Idle, PC, Statement
  <2>close. CASE Close(r)
    <3>1. pc[r] # Idle /\ rows[B(r)] \in Row
      BY <2>close, <2>b DEF Close, Idle
    <3>2. ClosedRow(rows[B(r)], call[r].actor) \in Row
      BY <3>1, <2>b, ClosedRowType
    <3>3. QED
      BY <2>close, <3>1, <3>2, <2>b DEF Close, PC, Statement, Finished, Idle
  <2>delete. CASE Delete(r)
    BY <2>delete, <2>b DEF Delete, Idle, PC, Statement
  <2>al. CASE AddLabel(r)
    BY <2>al, <2>b DEF AddLabel, Idle, PC, Statement
  <2>rl. CASE RemoveLabel(r)
    BY <2>rl, <2>b DEF RemoveLabel, Idle, PC, Statement
  <2>ad. CASE AddDep(r)
    BY <2>ad, <2>b DEF AddDep, Idle, PC, Statement
  <2>rd. CASE RemoveDep(r)
    BY <2>rd, <2>b DEF RemoveDep, Idle, PC, Statement
  <2>ac. CASE AddComment(r)
    BY <2>ac, <2>b DEF AddComment, Idle, PC, Statement
  <2>re. CASE RecordEvent(r)
    BY <2>re, <2>b DEF RecordEvent, Idle
  <2>ra. CASE RecordAdvice(r)
    BY <2>ra, <2>b DEF RecordAdvice, Idle, PC, Finished
  <2>q. QED
    BY <1>s, <2>start, <2>fail, <2>create, <2>read, <2>missing, <2>write, <2>get, <2>rem,
       <2>add, <2>end, <2>close, <2>delete, <2>al, <2>rl, <2>ad, <2>rd, <2>ac, <2>re, <2>ra
       DEF Step, Mutate, Advance
<1>q. QED
  BY <1>u, <1>s DEF Next, AllServed

\* What one step does to the table beads: nothing, or one statement of one
\* request on the row of its bead.
LEMMA RowsStep ==
  ASSUME [Next]_vars
  PROVE  \/ UNCHANGED rows
         \/ \E r \in Request : Create(r) \/ WriteRow(r) \/ Close(r) \/ Delete(r)
  BY DEF Next, AllServed, Step, Start, Fail, Mutate, Advance, vars, tables,
         ReadRow, Missing, GetLabels, ReconcileRemove, ReconcileAdd, ReconcileEnd,
         AddLabel, RemoveLabel, AddDep, RemoveDep, AddComment, RecordEvent, RecordAdvice

\* Every statement leaves each stored row's closed_at in step with its status.
LEMMA StepClosedConsistent ==
  TypeOK /\ ClosedConsistent /\ CopiesConsistent /\ [Next]_vars => ClosedConsistent'
<1> SUFFICES ASSUME TypeOK, ClosedConsistent, CopiesConsistent, [Next]_vars,
                    NEW b \in Bead, rows'[b] # Nil
             PROVE  rows'[b].status = "closed" <=> rows'[b].closedAt
  BY DEF ClosedConsistent
<1>1. CASE UNCHANGED rows
  BY <1>1 DEF ClosedConsistent
<1>2. ASSUME NEW r \in Request, Create(r) \/ WriteRow(r) \/ Close(r) \/ Delete(r)
      PROVE  rows'[b].status = "closed" <=> rows'[b].closedAt
  <2>b. pc[r] # Idle
    BY <1>2 DEF Create, WriteRow, Close, Delete, Idle
  <2>t. /\ B(r) \in Bead /\ call[r].patch \in Patch /\ call[r].actor \in Person
        /\ rows \in [Bead -> Row \cup {Nil}]
    BY <2>b, CallType DEF TypeOK
  <2>0. CASE B(r) # b
    BY <2>0, <2>t, <1>2 DEF ClosedConsistent, Create, WriteRow, Close, Delete
  <2>1. CASE B(r) = b /\ Create(r)
    BY <2>1, <2>t, NewRowType DEF Create
  <2>2. CASE B(r) = b /\ WriteRow(r)
    BY <2>2, <2>t DEF WriteRow, CopiesConsistent
  <2>3. CASE B(r) = b /\ Close(r)
    BY <2>3, <2>t, ClosedRowType DEF Close
  <2>4. CASE B(r) = b /\ Delete(r)
    BY <2>4, <2>t DEF Delete
  <2>5. QED
    BY <1>2, <2>0, <2>1, <2>2, <2>3, <2>4
<1>3. QED
  BY <1>1, <1>2, RowsStep

\* A copy made by ReadRow is consistent because the row read was, and because
\* updateBead validates what it computes; no step touches another's copy.
LEMMA StepCopiesConsistent ==
  TypeOK /\ ClosedConsistent /\ CopiesConsistent /\ [Next]_vars => CopiesConsistent'
<1> SUFFICES ASSUME TypeOK, ClosedConsistent, CopiesConsistent, [Next]_vars,
                    NEW q \in Request, pc'[q] = "write"
             PROVE  row'[q].status = "closed" <=> row'[q].closedAt
  BY DEF CopiesConsistent
<1> USE DEF Goto, Took
<1>1. CASE UNCHANGED vars
  BY <1>1 DEF CopiesConsistent, vars, locals
<1>2. ASSUME NEW r \in Request, Step(r)
      PROVE  row'[q].status = "closed" <=> row'[q].closedAt
  <2>t. pc \in [Request -> PC] /\ row \in [Request -> Row \cup {Nil}]
    BY DEF TypeOK
  <2>b. pc[r] # Idle => /\ call[r] \in Call /\ B(r) \in Bead
                        /\ AfterWrite(call[r]) # "write" /\ AfterEvent(call[r]) # "write"
                        /\ AfterError(r) # "write"
    BY CallType, NextStatements DEF AfterError
  <2>1. CASE ReadRow(r)
    <3>1. pc[r] # Idle /\ rows[B(r)] # Nil
      BY <2>1 DEF ReadRow, Idle
    <3>2. /\ rows[B(r)] \in Row
          /\ rows[B(r)].status = "closed" <=> rows[B(r)].closedAt
      BY <3>1, <2>b DEF ClosedConsistent, TypeOK
    <3> DEFINE new == Image(call[r], rows[B(r)])
    <3>3. CASE q = r
      <4>1. ~(call[r].op = "update" /\ ~ValidRow(new)) /\ row' = [row EXCEPT ![r] = new]
        BY <2>1, <2>t, <3>3 DEF ReadRow
      <4>2. new.status = "closed" <=> new.closedAt
        BY <3>1, <3>2, <4>1, <2>b, ImageType
      <4>3. QED
        BY <3>3, <4>1, <4>2, <2>t
    <3>4. CASE q # r
      BY <2>1, <2>t, <3>4 DEF ReadRow, CopiesConsistent
    <3>5. QED
      BY <3>3, <3>4
  <2>2. CASE Start(r)
    <3>1. PICK c \in Calls : pc' = [pc EXCEPT ![r] = FirstStatement(c)]
      BY <2>2 DEF Start
    <3>2. FirstStatement(c) # "write"
      BY BeadsAssumption, NextStatements
    <3>3. pc[q] = "write" /\ row' = row
      BY <2>2, <2>t, <3>1, <3>2 DEF Start
    <3>4. QED
      BY <3>3 DEF CopiesConsistent
  <2>3. CASE ~ReadRow(r) /\ ~Start(r)
    <3>1. row' = row
      BY <1>2, <2>3 DEF Step, Mutate, Advance, Fail, Create, WriteRow, Close, Delete,
           ReconcileRemove, ReconcileAdd, AddLabel, RemoveLabel, AddDep, RemoveDep,
           AddComment, Missing, GetLabels, ReconcileEnd, RecordEvent, RecordAdvice, locals
    <3>2. pc[q] = "write"
      BY <1>2, <2>3, <2>t, <2>b
         DEF Step, Mutate, Advance, Fail, Create, WriteRow, Close, Delete,
           ReconcileRemove, ReconcileAdd, AddLabel, RemoveLabel, AddDep, RemoveDep,
           AddComment, Missing, GetLabels, ReconcileEnd, RecordEvent, RecordAdvice,
           Idle, Statement, Op
    <3>3. QED
      BY <3>1, <3>2 DEF CopiesConsistent
  <2>4. QED
    BY <2>1, <2>2, <2>3
<1>3. QED
  BY <1>1, <1>2 DEF Next, AllServed

\* No statement leaves a label, dependency or comment without its bead: those
\* that insert need the row (foreign keys), the one that removes it cascades.
LEMMA StepNoOrphans == TypeOK /\ NoOrphans /\ [Next]_vars => NoOrphans'
<1> SUFFICES ASSUME TypeOK, NoOrphans, [Next]_vars, NEW b \in Bead, rows'[b] = Nil
             PROVE  /\ labels'[b] = {} /\ comments'[b] = {}
                    /\ \A d \in deps' : b \notin {d[1], d[2]}
  BY DEF NoOrphans
<1> DEFINE Clean == /\ labels'[b] = {} /\ comments'[b] = {}
                    /\ \A d \in deps' : b \notin {d[1], d[2]}
<1>1. CASE UNCHANGED tables
  BY <1>1 DEF NoOrphans, tables
<1>2. ASSUME NEW r \in Request, Mutate(r) PROVE Clean
  <2>b. pc[r] # Idle
    BY <1>2 DEF Mutate, Create, WriteRow, Close, Delete, ReconcileRemove, ReconcileAdd,
         AddLabel, RemoveLabel, AddDep, RemoveDep, AddComment, Idle
  <2>t. /\ B(r) \in Bead /\ call[r] \in Call /\ call[r].on \in Bead
        /\ call[r].patch \in Patch /\ call[r].actor \in Person
        /\ rows \in [Bead -> Row \cup {Nil}] /\ labels \in [Bead -> SUBSET Label]
        /\ comments \in [Bead -> SUBSET Request] /\ deps \subseteq Bead \X Bead
    BY <2>b, CallType DEF TypeOK
  <2>o. rows[b] = Nil => /\ labels[b] = {} /\ comments[b] = {}
                         /\ \A d \in deps : b \notin {d[1], d[2]}
    BY DEF NoOrphans
  <2>1. CASE Create(r)
    BY <2>1, <2>t, <2>o, NewRowType, BeadsAssumption DEF Create
  <2>2. CASE WriteRow(r)
    <3>1. row[r] # Nil
      BY <2>2, BeadsAssumption DEF WriteRow, TypeOK
    <3>2. QED
      BY <2>2, <3>1, <2>t, <2>o DEF WriteRow
  <2>3. CASE Close(r)
    BY <2>3, <2>t, <2>o, ClosedRowType, BeadsAssumption DEF Close
  <2>4. CASE Delete(r)
    BY <2>4, <2>t, <2>o DEF Delete
  <2>5. CASE ReconcileRemove(r) \/ RemoveLabel(r)
    BY <2>5, <2>t, <2>o DEF ReconcileRemove, RemoveLabel
  <2>6. CASE ReconcileAdd(r) \/ AddLabel(r)
    BY <2>6, <2>t, <2>o DEF ReconcileAdd, AddLabel
  <2>7. CASE AddDep(r)
    BY <2>7, <2>t, <2>o DEF AddDep
  <2>8. CASE RemoveDep(r)
    BY <2>8, <2>t, <2>o DEF RemoveDep
  <2>9. CASE AddComment(r)
    BY <2>9, <2>t, <2>o DEF AddComment
  <2>10. QED
    BY <1>2, <2>1, <2>2, <2>3, <2>4, <2>5, <2>6, <2>7, <2>8, <2>9 DEF Mutate
<1>3. QED
  BY <1>1, <1>2 DEF Next, AllServed, Step, Start, Fail, Advance, vars, ReadRow, Missing,
       GetLabels, ReconcileEnd, RecordEvent, RecordAdvice

\* A request starts its transaction only from Start, with an id never used.
LEMMA CreateIsFresh ==
  ASSUME TypeOK, NEW r \in Request, Step(r), NEW q \in Request, pc'[q] = "create"
  PROVE  /\ pc[q] = "create" => call'[q] = call[q]
         /\ pc[q] # "create" => B(q)' \notin used
<1> USE DEF Goto, Took
<1>t. pc \in [Request -> PC] /\ call \in [Request -> Calls \cup {Nil}]
  BY DEF TypeOK
<1>1. CASE Start(r)
  <2>1. PICK c \in Calls : /\ c.op = "create" => c.bead \notin used
                           /\ call' = [call EXCEPT ![r] = c]
                           /\ pc' = [pc EXCEPT ![r] = FirstStatement(c)]
    BY <1>1 DEF Start
  <2>2. c \in Call /\ (FirstStatement(c) = "create" => c.op = "create")
    BY BeadsAssumption DEF FirstStatement, Call, Op
  <2>3. QED
    BY <1>1, <1>t, <2>1, <2>2 DEF Start, B, Idle
<1>2. CASE ~Start(r)
  <2>1. pc[r] # Idle => /\ AfterWrite(call[r]) # "create"
                        /\ AfterEvent(call[r]) # "create" /\ AfterError(r) # "create"
    BY CallType DEF AfterWrite, AfterEvent, AfterError
  <2>2. call' = call /\ pc[q] = "create"
    BY <1>2, <1>t, <2>1
       DEF Step, Mutate, Advance, Fail, Create, WriteRow, Close, Delete, ReadRow,
         ReconcileRemove, ReconcileAdd, AddLabel, RemoveLabel, AddDep, RemoveDep,
         AddComment, Missing, GetLabels, ReconcileEnd, RecordEvent, RecordAdvice,
         Idle, Statement, Op, locals
  <2>3. QED
    BY <2>2
<1>3. QED
  BY <1>1, <1>2

\* No statement of any request brings a deleted bead back.
LEMMA StepGone == ASSUME TypeOK, [Next]_vars, NEW b \in Bead, Gone(b) PROVE Gone(b)'
<1>1. CASE UNCHANGED vars
  BY <1>1 DEF Gone, vars, tables, locals, B
<1>2. ASSUME NEW r \in Request, Step(r) PROVE Gone(b)'
  <2>1. b \in used'
    BY <1>2 DEF Gone, Step, Start, Fail, Mutate, Advance, Create, WriteRow, Close, Delete,
      ReadRow, ReconcileRemove, ReconcileAdd, AddLabel, RemoveLabel, AddDep, RemoveDep,
      AddComment, Missing, GetLabels, ReconcileEnd, RecordEvent, RecordAdvice
  <2>2. rows'[b] = Nil
    <3>1. CASE UNCHANGED rows
      BY <3>1 DEF Gone
    <3>2. ASSUME NEW q \in Request, Create(q) \/ WriteRow(q) \/ Close(q) \/ Delete(q)
          PROVE  rows'[b] = Nil
      <4>1. B(q) \in Bead /\ rows \in [Bead -> Row \cup {Nil}]
        BY <3>2, CallType DEF TypeOK, Create, WriteRow, Close, Delete, Idle
      <4>2. QED
        BY <3>2, <4>1 DEF Gone, Create, WriteRow, Close, Delete
    <3>3. QED
      BY <3>1, <3>2, RowsStep
  <2>3. ASSUME NEW q \in Request, pc'[q] = "create" PROVE B(q)' # b
    BY <1>2, <2>3, CreateIsFresh DEF Gone, B
  <2>4. QED
    BY <2>1, <2>2, <2>3 DEF Gone
<1>3. QED
  BY <1>1, <1>2 DEF Next, AllServed

\* A request reaches its whole-row write only from the read that made its copy,
\* and keeps copy and call until the write.
LEMMA WriteComesFromRead ==
  ASSUME TypeOK, NEW r \in Request, Step(r), NEW q \in Request, pc'[q] = "write"
  PROVE  \/ q = r /\ ReadRow(r)
         \/ pc[q] = "write" /\ q # r /\ row'[q] = row[q] /\ call'[q] = call[q]
<1> USE DEF Goto, Took
<1>t. /\ pc \in [Request -> PC] /\ call \in [Request -> Calls \cup {Nil}]
      /\ row \in [Request -> Row \cup {Nil}]
  BY DEF TypeOK
<1>1. CASE Start(r)
  <2>1. PICK c \in Calls : /\ call' = [call EXCEPT ![r] = c]
                           /\ pc' = [pc EXCEPT ![r] = FirstStatement(c)]
    BY <1>1 DEF Start
  <2>2. FirstStatement(c) # "write"
    BY BeadsAssumption, NextStatements
  <2>3. QED
    BY <1>1, <1>t, <2>1, <2>2 DEF Start
<1>2. CASE ReadRow(r)
  BY <1>2, <1>t DEF ReadRow
<1>3. CASE ~Start(r) /\ ~ReadRow(r)
  <2>1. pc[r] # Idle => /\ AfterWrite(call[r]) # "write"
                        /\ AfterEvent(call[r]) # "write" /\ AfterError(r) # "write"
    BY CallType, NextStatements DEF AfterError
  <2>2. call' = call /\ row' = row
    BY <1>3 DEF Step, Mutate, Advance, Fail, Create, WriteRow, Close, Delete,
         ReconcileRemove, ReconcileAdd, AddLabel, RemoveLabel, AddDep, RemoveDep,
         AddComment, Missing, GetLabels, ReconcileEnd, RecordEvent, RecordAdvice, locals
  <2>3. pc[q] = "write" /\ q # r
    BY <1>3, <1>t, <2>1
       DEF Step, Mutate, Advance, Fail, Create, WriteRow, Close, Delete,
         ReconcileRemove, ReconcileAdd, AddLabel, RemoveLabel, AddDep, RemoveDep,
         AddComment, Missing, GetLabels, ReconcileEnd, RecordEvent, RecordAdvice,
         Idle, Statement, Op
  <2>4. QED
    BY <2>2, <2>3
<1>4. QED
  BY <1>1, <1>2, <1>3

\* A request about to write back either holds the stored row with its own patch
\* applied, or has been overtaken by a writer of its bead.
LEMMA StepWriteBackIsFresh ==
  TypeOK /\ WriteBackIsFresh /\ [Next]_vars => WriteBackIsFresh'
<1> SUFFICES ASSUME TypeOK, WriteBackIsFresh, [Next]_vars,
                    NEW q \in Request, pc'[q] = "write", alone'[q]
             PROVE  /\ rows'[B(q)'] # Nil
                    /\ row'[q] = Image(call'[q], rows'[B(q)'])
  BY DEF WriteBackIsFresh
<1> DEFINE Fresh == /\ rows'[B(q)'] # Nil
                    /\ row'[q] = Image(call'[q], rows'[B(q)'])
<1>1. CASE UNCHANGED vars
  BY <1>1 DEF WriteBackIsFresh, vars, tables, locals, B
<1>2. ASSUME NEW r \in Request, Step(r) PROVE Fresh
  <2>1. CASE q = r /\ ReadRow(r)
    <3>1. /\ row'[q] = Image(call[q], rows[B(q)]) /\ rows' = rows /\ call' = call
          /\ rows[B(q)] # Nil
      BY <2>1 DEF ReadRow, Goto, TypeOK, tables
    <3>2. QED
      BY <3>1 DEF B
  <2>2. CASE pc[q] = "write" /\ q # r /\ row'[q] = row[q] /\ call'[q] = call[q]
    <3>1. B(q)' = B(q)
      BY <2>2 DEF B
    <3>2. Busy(q)
      BY <2>2 DEF Busy, Statement
    <3>t. alone \in [Request -> BOOLEAN]
      BY DEF TypeOK
    <3>3. CASE UNCHANGED <<rows, alone>> \/ (UNCHANGED rows /\ Wrote(r))
      <4>1. alone[q]
        BY <3>3, <3>t DEF Wrote
      <4>2. QED
        BY <2>2, <3>1, <3>3, <4>1 DEF WriteBackIsFresh
    <3>4. CASE Create(r) \/ WriteRow(r) \/ Close(r) \/ Delete(r)
      <4>1. Wrote(r)
        BY <3>4 DEF Create, WriteRow, Close, Delete
      <4>2. alone[q] /\ B(q) # B(r)
        BY <2>2, <3>2, <4>1 DEF Wrote
      <4>3. B(r) \in Bead /\ rows \in [Bead -> Row \cup {Nil}]
        BY <3>4, CallType DEF TypeOK, Create, WriteRow, Close, Delete, Idle
      <4>4. rows'[B(q)] = rows[B(q)]
        BY <3>4, <4>2, <4>3, <2>2, CallType
           DEF TypeOK, Create, WriteRow, Close, Delete, Idle
      <4>5. QED
        BY <2>2, <3>1, <4>2, <4>4 DEF WriteBackIsFresh
    <3>5. QED
      BY <1>2, <3>3, <3>4
         DEF Step, Start, Mutate, Advance, Fail, ReadRow, ReconcileRemove, ReconcileAdd,
           AddLabel, RemoveLabel, AddDep, RemoveDep, AddComment, Missing, GetLabels,
           ReconcileEnd, RecordEvent, RecordAdvice, tables
  <2>3. QED
    BY <1>2, <2>1, <2>2, WriteComesFromRead
<1>3. QED
  BY <1>1, <1>2 DEF Next, AllServed

-----------------------------------------------------------------------------
\* The invariant holds of every behaviour.
THEOREM BeadsInvariant == Spec => []IInv
<1>1. IInv /\ [Next]_vars => IInv'
  BY StepTypeOK, StepClosedConsistent, StepCopiesConsistent, StepNoOrphans DEF IInv
<1>2. QED
  BY InitIInv, <1>1, PTL DEF Spec

\* The tables and every request's locals are well typed.
THEOREM BeadsTypeCorrect == Spec => []TypeOK
  BY BeadsInvariant, PTL DEF IInv

\* A stored bead is closed exactly when it has a closing time, whatever stale
\* rows are written back.
THEOREM BeadsClosedConsistent == Spec => []ClosedConsistent
  BY BeadsInvariant, PTL DEF IInv

\* Labels, dependencies and comments never outlive their bead.
THEOREM BeadsNoOrphans == Spec => []NoOrphans
  BY BeadsInvariant, PTL DEF IInv

\* Deletion is final: no handler resurrects a row it read earlier.
THEOREM BeadsGoneForGood == Spec => GoneForGood
<1>1. TypeOK /\ [Next]_vars => [\A b \in Bead : Gone(b) => Gone(b)']_vars
  BY StepGone
<1>2. QED
  BY <1>1, BeadsTypeCorrect, PTL DEF Spec, GoneForGood

\* Updates are lost only to an overlapping writer of the same bead.
THEOREM BeadsWriteBackIsFresh == Spec => []WriteBackIsFresh
<1>1. Init => WriteBackIsFresh
  BY DEF Init, WriteBackIsFresh, Idle
<1>2. QED
  BY <1>1, BeadsTypeCorrect, StepWriteBackIsFresh, PTL DEF Spec

-----------------------------------------------------------------------------
(* What an update has stored when it returns.                              *)

\* Where a handler can be, by what it was asked for.
OpPlaces ==
  \A r \in Request : pc[r] # Idle =>
    /\ call[r].op = "update" =>
         pc[r] \in {"read", "write", "getLabels", "reconcile", "event", "advice", "done", "failed"}
    /\ call[r].op = "delete" => pc[r] \in {"delete", "event", "done", "failed"}
    /\ pc[r] = "advice" => call[r].op \in {"create", "update", "close"}

\* No step leads a handler where its operation does not go.
LEMMA StepOpPlaces == TypeOK /\ OpPlaces /\ [Next]_vars => OpPlaces'
<1> SUFFICES ASSUME TypeOK, OpPlaces, [Next]_vars, NEW q \in Request, pc'[q] # Idle
             PROVE  /\ call'[q].op = "update" =>
                         pc'[q] \in {"read", "write", "getLabels", "reconcile", "event", "advice", "done", "failed"}
                    /\ call'[q].op = "delete" => pc'[q] \in {"delete", "event", "done", "failed"}
                    /\ pc'[q] = "advice" => call'[q].op \in {"create", "update", "close"}
  BY DEF OpPlaces
<1> USE DEF Goto, Took
<1>1. CASE UNCHANGED vars
  BY <1>1 DEF OpPlaces, vars, locals
<1>2. ASSUME NEW r \in Request, Step(r)
      PROVE  /\ call'[q].op = "update" =>
                  pc'[q] \in {"read", "write", "getLabels", "reconcile", "event", "advice", "done", "failed"}
             /\ call'[q].op = "delete" => pc'[q] \in {"delete", "event", "done", "failed"}
             /\ pc'[q] = "advice" => call'[q].op \in {"create", "update", "close"}
  <2>t. pc \in [Request -> PC] /\ call \in [Request -> Calls \cup {Nil}]
    BY DEF TypeOK
  <2>1. CASE Start(r)
    <3>1. PICK c \in Calls : /\ call' = [call EXCEPT ![r] = c]
                             /\ pc' = [pc EXCEPT ![r] = FirstStatement(c)]
      BY <2>1 DEF Start
    <3>2. c \in Call
      BY BeadsAssumption
    <3>3. /\ c.op = "update" => FirstStatement(c) = "read"
          /\ c.op = "delete" => FirstStatement(c) = "delete"
          /\ FirstStatement(c) # "advice"
      BY <3>2 DEF FirstStatement, Call, Op
    <3> QED
      BY <2>t, <3>1, <3>3 DEF OpPlaces
  <2>2. CASE ~Start(r)
    <3>1. pc[r] # Idle /\ call' = call
      BY <1>2, <2>2
         DEF Step, Mutate, Advance, Fail, Create, WriteRow, Close, Delete, ReadRow,
           ReconcileRemove, ReconcileAdd, AddLabel, RemoveLabel, AddDep, RemoveDep,
           AddComment, Missing, GetLabels, ReconcileEnd, RecordEvent, RecordAdvice,
           Idle, Statement, Op, locals
    <3>2. call[r] \in Call
      BY <3>1, CallType
    <3>3. /\ call[r].op = "update" => AfterWrite(call[r]) \in {"getLabels", "event"} /\ AfterError(r) = "failed"
          /\ call[r].op = "delete" => AfterError(r) = "failed" /\ AfterEvent(call[r]) = "done"
          /\ AfterWrite(call[r]) # "advice" /\ AfterError(r) \in {"close", "failed"}
          /\ AfterEvent(call[r]) \in {"advice", "done"}
          /\ AfterEvent(call[r]) = "advice" => call[r].op \in {"create", "update", "close"}
      BY <3>2 DEF AfterWrite, AfterError, AfterEvent, Call, Op
    <3>4. CASE q # r
      <4>1. pc'[q] = pc[q]
        BY <1>2, <2>2, <2>t, <3>4
           DEF Step, Mutate, Advance, Fail, Create, WriteRow, Close, Delete, ReadRow,
             ReconcileRemove, ReconcileAdd, AddLabel, RemoveLabel, AddDep, RemoveDep,
             AddComment, Missing, GetLabels, ReconcileEnd, RecordEvent, RecordAdvice
      <4> QED
        BY <3>1, <4>1 DEF OpPlaces
    <3>5. CASE q = r
      BY <1>2, <2>2, <2>t, <3>1, <3>3, <3>5
         DEF OpPlaces, Step, Mutate, Advance, Fail, Create, WriteRow, Close, Delete, ReadRow,
           ReconcileRemove, ReconcileAdd, AddLabel, RemoveLabel, AddDep, RemoveDep,
           AddComment, Missing, GetLabels, ReconcileEnd, RecordEvent, RecordAdvice
    <3> QED
      BY <3>4, <3>5
  <2> QED
    BY <2>1, <2>2
<1> QED
  BY <1>1, <1>2 DEF Next, AllServed

-----------------------------------------------------------------------------
\* What an update that no other request wrote over has stored so far.
UpdateStored ==
  \A r \in Request : pc[r] \in {"getLabels", "reconcile", "event", "advice"} /\ call[r].op = "update" /\ alone[r] =>
    /\ rows[B(r)] = row[r]
    /\ pc[r] = "reconcile" => (labels[B(r)] \ removing[r]) \cup adding[r] = call[r].patch.labels
    /\ pc[r] \in {"event", "advice"} /\ call[r].patch.labelsSet => labels[B(r)] = call[r].patch.labels

\* A statement of another request that leaves this one alone leaves its bead alone.
LEMMA OthersApart ==
  ASSUME TypeOK, NEW r \in Request, Step(r), NEW q \in Request, q # r, Busy(q), alone'[q]
  PROVE  /\ alone[q] /\ rows'[B(q)] = rows[B(q)] /\ labels'[B(q)] = labels[B(q)]
         /\ pc'[q] = pc[q] /\ call'[q] = call[q] /\ row'[q] = row[q]
         /\ removing'[q] = removing[q] /\ adding'[q] = adding[q]
<1> USE DEF Goto, Took
<1>t. /\ pc \in [Request -> PC] /\ call \in [Request -> Calls \cup {Nil}] /\ row \in [Request -> Row \cup {Nil}]
      /\ adding \in [Request -> SUBSET Label] /\ removing \in [Request -> SUBSET Label]
      /\ alone \in [Request -> BOOLEAN] /\ rows \in [Bead -> Row \cup {Nil}] /\ labels \in [Bead -> SUBSET Label]
  BY DEF TypeOK
<1>1. CASE Start(r) \/ Fail(r) \/ Advance(r) \/ AddDep(r) \/ RemoveDep(r) \/ AddComment(r)
  BY <1>1, <1>t DEF Start, Fail, Advance, AddDep, RemoveDep, AddComment, ReadRow, Missing, GetLabels, ReconcileEnd,
     RecordEvent, RecordAdvice, tables, locals
<1>2. CASE Create(r) \/ WriteRow(r) \/ Close(r) \/ Delete(r) \/ ReconcileRemove(r) \/ ReconcileAdd(r) \/ AddLabel(r) \/ RemoveLabel(r)
  <2>1. Wrote(r) /\ pc[r] # Idle
    BY <1>2 DEF Create, WriteRow, Close, Delete, ReconcileRemove, ReconcileAdd, AddLabel, RemoveLabel, Idle
  <2>2. alone[q] /\ B(q) # B(r) /\ B(r) \in Bead /\ B(q) \in Bead
    BY <1>t, <2>1, CallType DEF Wrote, Busy, Statement, Op, Idle
  <2>3. rows'[B(q)] = rows[B(q)]
    BY <1>2, <1>t, <2>2 DEF Create, WriteRow, Close, Delete, ReconcileRemove, ReconcileAdd, AddLabel, RemoveLabel
  <2>4. labels'[B(q)] = labels[B(q)]
    BY <1>2, <1>t, <2>2 DEF Create, WriteRow, Close, Delete, ReconcileRemove, ReconcileAdd, AddLabel, RemoveLabel
  <2> QED
    BY <1>2, <1>t, <2>2, <2>3, <2>4
       DEF Create, WriteRow, Close, Delete, ReconcileRemove, ReconcileAdd, AddLabel, RemoveLabel, locals
<1> QED
  BY <1>1, <1>2 DEF Step, Mutate

\* A read, a write back and a reconciled label each store their part of the update.
LEMMA StepUpdateStored ==
  TypeOK /\ OpPlaces /\ UpdateStored /\ [Next]_vars => UpdateStored'
<1> SUFFICES ASSUME TypeOK, OpPlaces, UpdateStored, [Next]_vars, NEW q \in Request,
                    pc'[q] \in {"getLabels", "reconcile", "event", "advice"}, call'[q].op = "update", alone'[q]
             PROVE  /\ rows'[B(q)'] = row'[q]
                    /\ pc'[q] = "reconcile" => (labels'[B(q)'] \ removing'[q]) \cup adding'[q] = call'[q].patch.labels
                    /\ pc'[q] \in {"event", "advice"} /\ call'[q].patch.labelsSet => labels'[B(q)'] = call'[q].patch.labels
  BY DEF UpdateStored
<1> DEFINE Stored == /\ rows'[B(q)'] = row'[q]
                     /\ pc'[q] = "reconcile" => (labels'[B(q)'] \ removing'[q]) \cup adding'[q] = call'[q].patch.labels
                     /\ pc'[q] \in {"event", "advice"} /\ call'[q].patch.labelsSet => labels'[B(q)'] = call'[q].patch.labels
<1>t. /\ pc \in [Request -> PC] /\ call \in [Request -> Calls \cup {Nil}] /\ row \in [Request -> Row \cup {Nil}]
      /\ adding \in [Request -> SUBSET Label] /\ removing \in [Request -> SUBSET Label]
      /\ alone \in [Request -> BOOLEAN] /\ rows \in [Bead -> Row \cup {Nil}] /\ labels \in [Bead -> SUBSET Label]
  BY DEF TypeOK
<1>1. CASE UNCHANGED vars
  BY <1>1 DEF UpdateStored, vars, tables, locals, B
<1>2. ASSUME NEW r \in Request, Step(r), r # q PROVE Stored
  <2>1. pc'[q] = pc[q]
    BY <1>2, <1>t
       DEF Step, Start, Mutate, Advance, Fail, Create, WriteRow, Close, Delete, ReadRow, Goto, Took,
         ReconcileRemove, ReconcileAdd, AddLabel, RemoveLabel, AddDep, RemoveDep,
         AddComment, Missing, GetLabels, ReconcileEnd, RecordEvent, RecordAdvice
  <2>2. Busy(q)
    BY <2>1 DEF Busy, Statement
  <2>3. B(q)' = call'[q].bead
    BY DEF B
  <2> QED
    BY <1>2, <2>1, <2>2, <2>3, OthersApart DEF UpdateStored, B
<1>3. ASSUME Step(q) PROVE Stored
  <2> USE DEF Goto, Took
  <2>1. ~Start(q)
    <3>1. ASSUME NEW c \in Calls, c.op = "update" PROVE FirstStatement(c) = "read"
      BY <3>1 DEF FirstStatement
    <3> QED
      BY <1>t, <3>1 DEF Start
  <2>2. pc[q] # Idle /\ call' = call
    BY <1>3, <2>1
       DEF Step, Mutate, Advance, Fail, Create, WriteRow, Close, Delete, ReadRow,
         ReconcileRemove, ReconcileAdd, AddLabel, RemoveLabel, AddDep, RemoveDep,
         AddComment, Missing, GetLabels, ReconcileEnd, RecordEvent, RecordAdvice,
         Idle, Statement, Op, locals
  <2>3. /\ call[q] \in Call /\ B(q) \in Bead /\ call[q].op = "update" /\ B(q)' = B(q)
        /\ call[q].patch.labels \in SUBSET Label
    BY <2>2, CallType DEF B
  <2>4. AfterError(q) = "failed" /\ AfterWrite(call[q]) = IF call[q].patch.labelsSet THEN "getLabels" ELSE "event"
    BY <2>3 DEF AfterError, AfterWrite
  <2>5. pc[q] \in {"read", "write", "getLabels", "reconcile", "event", "advice", "done", "failed"}
    BY <2>2, <2>3 DEF OpPlaces
  <2>6. CASE WriteRow(q)
    <3>1. rows'[B(q)] = row[q] /\ row' = row
      BY <1>t, <2>3, <2>6 DEF WriteRow, locals
    <3>2. pc'[q] \in {"getLabels", "failed"} \/ (pc'[q] = "event" /\ ~call[q].patch.labelsSet)
      BY <1>t, <2>3, <2>4, <2>6 DEF WriteRow
    <3> QED
      BY <2>2, <2>3, <3>1, <3>2
  <2>7. CASE GetLabels(q)
    <3>1. /\ pc'[q] = "reconcile" /\ removing'[q] = labels[B(q)] \ call[q].patch.labels
          /\ adding'[q] = call[q].patch.labels \ labels[B(q)] /\ UNCHANGED <<rows, labels, row, alone>>
      BY <1>t, <2>7 DEF GetLabels, tables
    <3> QED
      BY <2>2, <2>3, <2>7, <3>1 DEF UpdateStored, GetLabels
  <2>8. CASE ReconcileRemove(q)
    <3>1. PICK l \in removing[q] : /\ labels' = [labels EXCEPT ![B(q)] = @ \ {l}]
                                   /\ removing' = [removing EXCEPT ![q] = @ \ {l}]
      BY <2>8 DEF ReconcileRemove
    <3>2. pc'[q] = "reconcile" /\ pc[q] = "reconcile" /\ alone[q] /\ UNCHANGED <<rows, row, adding>>
      BY <1>t, <2>4, <2>8 DEF ReconcileRemove, Wrote
    <3> QED
      BY <1>t, <2>2, <2>3, <3>1, <3>2 DEF UpdateStored
  <2>9. CASE ReconcileAdd(q)
    <3>1. PICK l \in adding[q] : /\ labels' = [labels EXCEPT ![B(q)] = @ \cup {l}]
                                 /\ adding' = [adding EXCEPT ![q] = @ \ {l}]
      BY <2>9 DEF ReconcileAdd
    <3>2. /\ pc'[q] = "reconcile" /\ pc[q] = "reconcile" /\ alone[q] /\ UNCHANGED <<rows, row, removing>>
          /\ removing[q] = {}
      BY <1>t, <2>4, <2>9 DEF ReconcileAdd, Wrote
    <3> QED
      BY <1>t, <2>2, <2>3, <3>1, <3>2 DEF UpdateStored
  <2>10. CASE ReconcileEnd(q)
    <3>1. /\ pc[q] = "reconcile" /\ removing[q] = {} /\ adding[q] = {} /\ pc'[q] = "event"
          /\ UNCHANGED <<rows, labels, row, alone>>
      BY <1>t, <2>10 DEF ReconcileEnd, tables, locals
    <3> QED
      BY <2>2, <2>3, <3>1 DEF UpdateStored
  <2>11. CASE RecordEvent(q) \/ RecordAdvice(q)
    <3>1. pc[q] \in {"event", "advice"} /\ pc'[q] # "reconcile" /\ UNCHANGED <<rows, labels, row, alone>>
      BY <1>t, <2>11 DEF RecordEvent, RecordAdvice, AfterEvent, tables, locals
    <3> QED
      BY <2>2, <2>3, <3>1 DEF UpdateStored
  <2>12. CASE Fail(q) \/ Missing(q)
    BY <1>t, <2>4, <2>12 DEF Fail, Missing
  <2>13. CASE ReadRow(q)
    BY <1>t, <2>13 DEF ReadRow
  <2> QED
    BY <1>3, <2>1, <2>5, <2>6, <2>7, <2>8, <2>9, <2>10, <2>11, <2>12, <2>13
       DEF Step, Mutate, Advance, Create, Close, Delete, AddLabel, RemoveLabel, AddDep, RemoveDep, AddComment
<1> QED
  BY <1>1, <1>2, <1>3 DEF Next, AllServed

\* An update nobody wrote over is in the rows when it returns, its labels included,
\* for any number of requests (http_beads.go handleUpdateBead, server.go updateBead).
THEOREM BeadsUpdateTookEffect == Spec => []UpdateTookEffect
<1>1. Init => OpPlaces /\ UpdateStored
  BY DEF Init, OpPlaces, UpdateStored, Idle
<1>2. UpdateStored => UpdateTookEffect
  BY DEF UpdateStored, UpdateTookEffect
<1> QED
  BY <1>1, <1>2, BeadsTypeCorrect, StepOpPlaces, StepUpdateStored, PTL DEF Spec

-----------------------------------------------------------------------------
(* One deletion of a bead, one event.                                      *)

\* An id is handed out once: while its bead is being created it has no row,
\* and one request creates it.
CreatesOnce ==
  /\ \A b \in Bead : rows[b] # Nil => b \in used
  /\ \A r \in Request : pc[r] = "create" => B(r) \in used /\ rows[B(r)] = Nil
  /\ \A r, q \in Request : pc[r] = "create" /\ pc[q] = "create" /\ B(r) = B(q) => r = q

\* Requests that have deleted their bead and not yet said so.
HasDeleted == {r \in Request : pc[r] = "event" /\ call[r].op = "delete"}

DeletesOnce ==
  /\ \A r \in HasDeleted : Gone(B(r))
  /\ \A r, q \in HasDeleted : B(r) = B(q) => r = q

Topics == {"bead.created", "bead.updated", "bead.closed", "bead.deleted", "label.added", "label.removed",
           "dependency.added", "dependency.removed", "comment.added",
           "advice.created", "advice.updated", "advice.deleted"}
LogEntry == [topic : Topics, bead : Bead, req : Request]

\* The places in the log where a deletion was recorded.
Deletions == {i \in 1..Len(log) : log[i].topic = "bead.deleted"}

\* The beads that were deleted.
GoneBeads == {b \in Bead : Gone(b)}

\* A deletion is in the log once, of a bead that is gone, and nobody is about to repeat it.
Recorded ==
  /\ log \in Seq(LogEntry)
  /\ \A i \in Deletions : log[i].bead \in GoneBeads /\ \A r \in HasDeleted : B(r) # log[i].bead
  /\ \A i, j \in Deletions : log[i].bead = log[j].bead => i = j

\* Every step but a start keeps the calls, and none but a start begins a transaction.
LEMMA CallsStay ==
  ASSUME TypeOK, NEW r \in Request, Step(r), ~Start(r)
  PROVE  /\ call' = call /\ used' = used /\ pc[r] # Idle
         /\ pc'[r] # "create" /\ \A q \in Request \ {r} : pc'[q] = pc[q]
<1> USE DEF Goto, Took
<1>t. pc \in [Request -> PC]
  BY DEF TypeOK
<1>1. pc[r] # Idle => /\ AfterWrite(call[r]) # "create"
                      /\ AfterEvent(call[r]) # "create" /\ AfterError(r) # "create"
  BY CallType DEF AfterWrite, AfterEvent, AfterError
<1>2. call' = call /\ used' = used /\ pc[r] # Idle
  BY DEF Step, Mutate, Advance, Fail, Create, WriteRow, Close, Delete, ReadRow,
     ReconcileRemove, ReconcileAdd, AddLabel, RemoveLabel, AddDep, RemoveDep,
     AddComment, Missing, GetLabels, ReconcileEnd, RecordEvent, RecordAdvice,
     Idle, Statement, Op, locals
<1>3. \A q \in Request \ {r} : pc'[q] = pc[q]
  BY <1>t DEF Step, Mutate, Advance, Fail, Create, WriteRow, Close, Delete, ReadRow,
     ReconcileRemove, ReconcileAdd, AddLabel, RemoveLabel, AddDep, RemoveDep,
     AddComment, Missing, GetLabels, ReconcileEnd, RecordEvent, RecordAdvice
<1>4. pc'[r] # "create"
  BY <1>t, <1>1, <1>2
     DEF Step, Mutate, Advance, Fail, Create, WriteRow, Close, Delete, ReadRow,
     ReconcileRemove, ReconcileAdd, AddLabel, RemoveLabel, AddDep, RemoveDep,
     AddComment, Missing, GetLabels, ReconcileEnd, RecordEvent, RecordAdvice
<1> QED
  BY <1>2, <1>3, <1>4

\* What a start changes.
LEMMA StartDoes ==
  ASSUME TypeOK, NEW r \in Request, Start(r)
  PROVE  \E c \in Calls :
           /\ c \in Call /\ call'[r] = c /\ pc'[r] = FirstStatement(c) /\ FirstStatement(c) # "event"
           /\ c.op = "create" => c.bead \notin used
           /\ used' = IF c.op = "create" THEN used \cup {c.bead} ELSE used
           /\ FirstStatement(c) = "create" => c.op = "create"
           /\ UNCHANGED <<rows, log>>
           /\ \A q \in Request \ {r} : pc'[q] = pc[q] /\ call'[q] = call[q]
<1>1. PICK c \in Calls : /\ c.op = "create" => c.bead \notin used
                         /\ used' = IF c.op = "create" THEN used \cup {c.bead} ELSE used
                         /\ call' = [call EXCEPT ![r] = c]
                         /\ pc' = [pc EXCEPT ![r] = FirstStatement(c)]
  BY DEF Start, Goto
<1>2. c \in Call /\ FirstStatement(c) # "event" /\ (FirstStatement(c) = "create" => c.op = "create")
  BY BeadsAssumption DEF FirstStatement, Call, Op
<1>3. UNCHANGED <<rows, log>>
  BY DEF Start, tables
<1> QED
  BY <1>1, <1>2, <1>3 DEF TypeOK

\* An id is drawn fresh, and one INSERT uses it.
LEMMA StepCreatesOnce == TypeOK /\ CreatesOnce /\ [Next]_vars => CreatesOnce'
<1> SUFFICES ASSUME TypeOK, CreatesOnce, [Next]_vars PROVE CreatesOnce'
  OBVIOUS
<1>1. CASE UNCHANGED vars
  BY <1>1 DEF CreatesOnce, vars, tables, locals, B
<1>2. ASSUME NEW r \in Request, Start(r) PROVE CreatesOnce'
  <2>1. PICK c \in Calls :
           /\ c \in Call /\ call'[r] = c /\ pc'[r] = FirstStatement(c) /\ FirstStatement(c) # "event"
           /\ c.op = "create" => c.bead \notin used
           /\ used' = IF c.op = "create" THEN used \cup {c.bead} ELSE used
           /\ FirstStatement(c) = "create" => c.op = "create"
           /\ UNCHANGED <<rows, log>>
           /\ \A q \in Request \ {r} : pc'[q] = pc[q] /\ call'[q] = call[q]
    BY <1>2, StartDoes
  <2>2. c.bead \in Bead
    BY <2>1 DEF Call
  <2> QED
    BY <2>1, <2>2 DEF CreatesOnce, B
<1>3. ASSUME NEW r \in Request, Step(r), ~Start(r) PROVE CreatesOnce'
  <2>1. /\ call' = call /\ used' = used /\ pc'[r] # "create"
        /\ \A q \in Request \ {r} : pc'[q] = pc[q]
    BY <1>3, CallsStay
  <2>2. \A q \in Request : pc'[q] = "create" => q # r /\ pc[q] = "create" /\ B(q)' = B(q)
    BY <2>1 DEF B
  <2>3. \A q \in Request : pc[q] = "create" => B(q) \in Bead
    BY CallType DEF Idle
  <2>4. ASSUME NEW b \in Bead
        PROVE  /\ rows'[b] # Nil => b \in used
               /\ rows[b] = Nil /\ rows'[b] # Nil => pc[r] = "create" /\ B(r) = b
    <3>1. CASE UNCHANGED rows
      BY <3>1 DEF CreatesOnce
    <3>2. CASE Create(r) \/ WriteRow(r) \/ Close(r) \/ Delete(r)
      <4>1. rows \in [Bead -> Row \cup {Nil}] /\ B(r) \in Bead
        BY <3>2, CallType DEF TypeOK, Create, WriteRow, Close, Delete, Idle
      <4> QED
        BY <3>2, <4>1 DEF Create, WriteRow, Close, Delete, CreatesOnce
    <3> QED
      BY <1>3, <3>1, <3>2 DEF Step, Mutate, Advance, Fail, ReadRow, tables,
         ReconcileRemove, ReconcileAdd, AddLabel, RemoveLabel, AddDep, RemoveDep,
         AddComment, Missing, GetLabels, ReconcileEnd, RecordEvent, RecordAdvice
  <2> QED
    BY <2>1, <2>2, <2>3, <2>4 DEF CreatesOnce
<1> QED
  BY <1>1, <1>2, <1>3 DEF Next, AllServed, Step

\* A request that has deleted its bead had done so before, or does it now.
LEMMA DeletedComes ==
  ASSUME TypeOK, OpPlaces, [Next]_vars, NEW q \in HasDeleted'
  PROVE  /\ q \in Request /\ B(q)' = B(q) /\ B(q) \in Bead
         /\ q \in HasDeleted \/ Delete(q)
<1>0. q \in Request /\ pc'[q] = "event" /\ call'[q].op = "delete"
  BY DEF HasDeleted
<1>1. CASE UNCHANGED vars
  BY <1>0, <1>1, CallType DEF HasDeleted, vars, locals, B, Idle
<1>2. ASSUME NEW r \in Request, Start(r)
      PROVE  B(q)' = B(q) /\ B(q) \in Bead /\ q \in HasDeleted
  <2>1. pc'[r] # "event" /\ \A x \in Request \ {r} : pc'[x] = pc[x] /\ call'[x] = call[x]
    BY <1>2, StartDoes
  <2> QED
    BY <1>0, <2>1, CallType DEF HasDeleted, B, Idle
<1>3. ASSUME NEW r \in Request, Step(r), ~Start(r)
      PROVE  B(q)' = B(q) /\ B(q) \in Bead /\ (q \in HasDeleted \/ Delete(q))
  <2>1. call' = call /\ pc[r] # Idle /\ \A x \in Request \ {r} : pc'[x] = pc[x]
    BY <1>3, CallsStay
  <2>2. q # r => q \in HasDeleted
    BY <1>0, <2>1 DEF HasDeleted
  <2>3. q = r => Delete(q)
    <3>1. q = r => pc[r] \in {"delete", "event", "done", "failed"} /\ call[r].op = "delete" /\ pc'[r] = "event"
      BY <1>0, <2>1 DEF OpPlaces
    <3>2. call[r].op = "delete" => AfterError(r) = "failed" /\ AfterEvent(call[r]) = "done"
      BY DEF AfterError, AfterEvent
    <3> QED
      BY <1>3, <3>1, <3>2
         DEF TypeOK, Goto, Took, Step, Mutate, Advance, Fail, Create, WriteRow, Close, ReadRow,
         ReconcileRemove, ReconcileAdd, AddLabel, RemoveLabel, AddDep, RemoveDep, Statement,
         AddComment, Missing, GetLabels, ReconcileEnd, RecordEvent, RecordAdvice
  <2>4. B(q) \in Bead /\ B(q)' = B(q)
    BY <2>1, <2>2, CallType DEF HasDeleted, B, Idle
  <2> QED
    BY <2>2, <2>3, <2>4
<1> QED
  BY <1>0, <1>1, <1>2, <1>3 DEF Next, AllServed, Step

\* The request whose DELETE finds the row leaves the bead gone.
LEMMA DeleteLeavesGone ==
  ASSUME TypeOK, CreatesOnce, NEW r \in Request, Delete(r)
  PROVE  B(r) \in Bead /\ rows[B(r)] # Nil /\ (Gone(B(r)))' /\ ~Gone(B(r))
<1>1. Step(r) /\ ~Start(r)
  BY DEF Step, Mutate, Delete, Start, Idle
<1>2. /\ call' = call /\ used' = used /\ pc[r] # Idle /\ pc'[r] # "create"
      /\ \A q \in Request \ {r} : pc'[q] = pc[q]
  BY <1>1, CallsStay
<1>3. B(r) \in Bead /\ rows[B(r)] # Nil /\ rows'[B(r)] = Nil /\ B(r) \in used'
  BY <1>2, CallType DEF Delete, TypeOK, CreatesOnce
<1>4. \A q \in Request : B(q)' = B(q)
  BY <1>2 DEF B
<1>5. \A q \in Request : pc'[q] = "create" => B(q)' # B(r)
  BY <1>2, <1>3, <1>4 DEF CreatesOnce
<1> QED
  BY <1>3, <1>4, <1>5 DEF Gone

\* One DELETE finds the row: its request alone will say so.
LEMMA StepDeletesOnce ==
  TypeOK /\ OpPlaces /\ CreatesOnce /\ DeletesOnce /\ [Next]_vars => DeletesOnce'
<1> SUFFICES ASSUME TypeOK, OpPlaces, CreatesOnce, DeletesOnce, [Next]_vars PROVE DeletesOnce'
  OBVIOUS
<1>1. \A b \in Bead : Gone(b) => Gone(b)'
  BY StepGone
<1>2. ASSUME NEW r \in HasDeleted'
      PROVE  (Gone(B(r)))'
  <2>1. r \in Request /\ B(r)' = B(r) /\ B(r) \in Bead /\ (r \in HasDeleted \/ Delete(r))
    BY DeletedComes
  <2>2. Gone(B(r)) => (Gone(B(r)))'
    BY <1>1, <2>1 DEF Gone
  <2> QED
    BY <2>1, <2>2, DeleteLeavesGone DEF DeletesOnce
<1>3. ASSUME NEW r \in HasDeleted', NEW q \in HasDeleted', B(r)' = B(q)'
      PROVE  r = q
  <2>1. /\ r \in Request /\ B(r)' = B(r) /\ (r \in HasDeleted \/ Delete(r))
        /\ q \in Request /\ B(q)' = B(q) /\ (q \in HasDeleted \/ Delete(q))
    BY DeletedComes
  <2>2. CASE r \in HasDeleted /\ q \in HasDeleted
    BY <1>3, <2>1, <2>2 DEF DeletesOnce
  <2>3. ASSUME NEW x \in Request, Delete(x), NEW y \in HasDeleted PROVE B(x) # B(y)
    BY <2>3, DeleteLeavesGone DEF DeletesOnce
  <2>4. ASSUME Delete(r), Delete(q) PROVE r = q
    <3>1. Step(r) /\ ~Start(r) /\ pc[q] = "delete" /\ (pc'[q] = "event" \/ pc'[q] = AfterError(q))
      BY <2>1, <2>4 DEF Step, Mutate, Delete, Start, Idle, Took, Goto, TypeOK
    <3>2. q # r => pc'[q] = pc[q]
      BY <2>1, <3>1, CallsStay
    <3> QED
      BY <1>3, <3>1, <3>2 DEF HasDeleted
  <2> QED
    BY <1>3, <2>1, <2>2, <2>3, <2>4
<1> QED
  BY <1>2, <1>3 DEF DeletesOnce

\* What one step does to the log: nothing, or one entry of a request at its events.
LEMMA LogStep ==
  ASSUME TypeOK, OpPlaces, [Next]_vars
  PROVE  \/ UNCHANGED log
         \/ \E r \in Request, topic \in Topics :
              /\ log' = Append(log, [topic |-> topic, bead |-> B(r), req |-> r])
              /\ B(r) \in Bead /\ r \notin HasDeleted'
              /\ topic = "bead.deleted" => r \in HasDeleted
<1>1. ASSUME NEW r \in Request, RecordEvent(r), log' # log
      PROVE  \E topic \in Topics :
              /\ log' = Append(log, [topic |-> topic, bead |-> B(r), req |-> r])
              /\ B(r) \in Bead /\ r \notin HasDeleted'
              /\ topic = "bead.deleted" => r \in HasDeleted
  <2>1. pc[r] = "event" /\ pc'[r] = AfterEvent(call[r]) /\ call[r] \in Call /\ B(r) \in Bead
    BY <1>1, CallType DEF RecordEvent, Goto, TypeOK, Idle
  <2>2. log' = Append(log, [topic |-> Topic(call[r].op), bead |-> B(r), req |-> r])
    BY <1>1 DEF RecordEvent, Append1
  <2>3. Topic(call[r].op) \in Topics
    BY <2>1 DEF Topic, Topics, Call, Op
  <2>4. Topic(call[r].op) = "bead.deleted" => call[r].op = "delete"
    BY <2>1 DEF Topic, Call, Op
  <2>5. AfterEvent(call[r]) # "event"
    BY DEF AfterEvent
  <2> QED
    BY <2>1, <2>2, <2>3, <2>4, <2>5 DEF HasDeleted
<1>2. ASSUME NEW r \in Request, RecordAdvice(r), log' # log
      PROVE  \E topic \in Topics :
              /\ log' = Append(log, [topic |-> topic, bead |-> B(r), req |-> r])
              /\ B(r) \in Bead /\ r \notin HasDeleted'
              /\ topic = "bead.deleted" => r \in HasDeleted
  <2>1. pc[r] = "advice" /\ pc'[r] = "done" /\ B(r) \in Bead /\ call[r].op \in {"create", "update", "close"}
    BY <1>2, CallType DEF RecordAdvice, Goto, TypeOK, Idle, OpPlaces
  <2>2. log' = Append(log, [topic |-> AdviceTopic(call[r]), bead |-> B(r), req |-> r])
    BY <1>2 DEF RecordAdvice, Append1
  <2>3. AdviceTopic(call[r]) \in Topics /\ AdviceTopic(call[r]) # "bead.deleted"
    BY <2>1 DEF AdviceTopic, Topics
  <2> QED
    BY <2>1, <2>2, <2>3 DEF HasDeleted
<1> QED
  BY <1>1, <1>2 DEF Next, AllServed, vars, Step, Start, Mutate, Advance, Fail, Create, WriteRow, Close, Delete, ReadRow,
     ReconcileRemove, ReconcileAdd, AddLabel, RemoveLabel, AddDep, RemoveDep,
     AddComment, Missing, GetLabels, ReconcileEnd

\* The one request that deleted the row writes the one entry.
LEMMA StepRecorded ==
  TypeOK /\ OpPlaces /\ CreatesOnce /\ DeletesOnce /\ Recorded /\ [Next]_vars => Recorded'
<1> SUFFICES ASSUME TypeOK, OpPlaces, CreatesOnce, DeletesOnce, Recorded, [Next]_vars PROVE Recorded'
  OBVIOUS
<1>1. GoneBeads \subseteq GoneBeads'
  <2>1. \A b \in Bead : Gone(b) => (Gone(b))'
    BY StepGone
  <2> QED
    BY <2>1 DEF GoneBeads
<1>2. ASSUME NEW r \in HasDeleted' PROVE B(r)' = B(r) /\ (r \in HasDeleted \/ ~Gone(B(r)))
  BY DeletedComes, DeleteLeavesGone
<1>3. \A i \in 1..Len(log) : log[i] \in LogEntry /\ log[i].bead \in Bead
  <2>1. log \in [1..Len(log) -> LogEntry]
    BY DEF Recorded
  <2> QED
    BY <2>1 DEF LogEntry
<1>4. ASSUME NEW i \in Deletions
      PROVE  log[i].bead \in GoneBeads' /\ \A r \in HasDeleted' : B(r)' # log[i].bead
  BY <1>1, <1>2 DEF Recorded, GoneBeads
<1>5. CASE UNCHANGED log
  <2>1. Deletions' = Deletions
    BY <1>5 DEF Deletions
  <2>2. ASSUME NEW i \in Deletions PROVE log'[i].bead \in GoneBeads' /\ \A r \in HasDeleted' : B(r)' # log'[i].bead
    BY <1>4, <1>5
  <2> QED
    BY <1>5, <2>1, <2>2 DEF Recorded
<1>6. ASSUME NEW r \in Request, NEW topic \in Topics,
             log' = Append(log, [topic |-> topic, bead |-> B(r), req |-> r]),
             B(r) \in Bead, r \notin HasDeleted', topic = "bead.deleted" => r \in HasDeleted
      PROVE  Recorded'
  <2> DEFINE entry == [topic |-> topic, bead |-> B(r), req |-> r]
             n == Len(log) + 1
  <2>1. log \in Seq(LogEntry) /\ entry \in LogEntry /\ Len(log) \in Nat
    BY <1>6 DEF Recorded, LogEntry
  <2>2. log' \in Seq(LogEntry) /\ Len(log') = n /\ log'[n] = entry /\ \A i \in 1..Len(log) : log'[i] = log[i]
    BY <1>6, <2>1
  <2>3. Deletions' = IF topic = "bead.deleted" THEN Deletions \cup {n} ELSE Deletions
    BY <2>1, <2>2 DEF Deletions
  <2>4. \A i \in Deletions : log'[i] = log[i] /\ i # n
    BY <2>1, <2>2 DEF Deletions
  <2>5. topic = "bead.deleted" => Gone(B(r)) /\ \A i \in Deletions : log[i].bead # B(r)
    BY <1>6 DEF DeletesOnce, Recorded
  <2>6. topic = "bead.deleted" => \A q \in HasDeleted' : B(q)' # B(r)
    BY <1>2, <1>6, <2>5 DEF DeletesOnce
  <2>7. \A i, j \in Deletions' : log'[i].bead = log'[j].bead => i = j
    BY <2>2, <2>3, <2>4, <2>5 DEF Recorded
  <2>8. \A i \in Deletions' : \A q \in HasDeleted' : B(q)' # log'[i].bead
    BY <1>4, <2>2, <2>3, <2>4, <2>6
  <2>9. \A i \in Deletions' : log'[i].bead \in GoneBeads'
    <3>1. topic = "bead.deleted" => B(r) \in GoneBeads'
      BY <1>1, <1>6, <2>5 DEF GoneBeads
    <3> QED
      BY <1>4, <2>2, <2>3, <2>4, <3>1
  <2> QED
    BY <2>2, <2>7, <2>8, <2>9 DEF Recorded
<1> QED
  BY <1>5, <1>6, LogStep

\* Of several racing DeleteBead requests one wins, for any number of them: one event
\* of the deletion at most, and none while the bead is there.
THEOREM BeadsDeletedOnce == Spec => []DeletedOnce
<1> DEFINE Inv == OpPlaces /\ CreatesOnce /\ DeletesOnce /\ Recorded
<1>1. Init => Inv
  BY DEF Init, OpPlaces, CreatesOnce, DeletesOnce, HasDeleted, Recorded, Deletions, Idle
<1>2. TypeOK /\ Inv /\ [Next]_vars => Inv'
  BY StepOpPlaces, StepCreatesOnce, StepDeletesOnce, StepRecorded
<1>3. Inv => DeletedOnce
  BY DEF DeletedOnce, Recorded, Deletions, GoneBeads, Gone
<1> HIDE DEF Inv
<1> QED
  BY <1>1, <1>2, <1>3, BeadsTypeCorrect, PTL DEF Spec
=============================================================================
