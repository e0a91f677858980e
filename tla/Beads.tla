------------------------------- MODULE Beads -------------------------------
(***************************************************************************)
(* The mutation handlers of the beads server over its Postgres tables.     *)
(*                                                                         *)
(* A request is one goroutine running a gRPC or HTTP handler.  No handler  *)
(* but createBead uses a transaction, so a request is a sequence of        *)
(* separate SQL statements, and the statements of concurrent requests      *)
(* interleave.  One action below is one statement with the code that runs  *)
(* between it and the next.  Every statement may also fail (lost           *)
(* connection, cancelled request context), before it took effect (Fail) or *)
(* after (Took).                                                           *)
(*                                                                         *)
(* Data is abstracted to what the properties tell apart.  The column       *)
(* "assignee" stands for every column that updateBead copies through       *)
(* (title, description, notes, priority, owner, due_at, defer_until);      *)
(* closedAt is whether closed_at is non-NULL; a dependency has one type.   *)
(***************************************************************************)
EXTENDS Naturals, Sequences, FiniteSets

CONSTANTS
  Bead,        \* bead ids that idgen may hand out
  Request,     \* the requests the server handles, each once
  Label, Key, Value, Actor,
  AdviceBead,  \* the beads whose (immutable) type is advice
  InitLabels,  \* labels carried by the beads that exist at the start
  Calls,       \* what clients may ask for: a subset of Call
  Nil,         \* no row with this id; no call or copy held yet
  Nobody,      \* empty assignee / closed_by
  Unset,       \* key missing from the fields JSON
  Keep         \* nil in updateBeadInput: "don't change"

Status == {"open", "in_progress", "blocked", "deferred", "closed"}
StatusInput == Status \cup {"bogus"}
Person == Actor \cup {Nobody}

Row == [status: Status, closedAt: BOOLEAN, closedBy: Person,
        assignee: Person, fields: [Key -> Value \cup {Unset}]]

Patch == [status: StatusInput \cup {Keep}, assignee: Person \cup {Keep},
          fields: [Key -> Value \cup {Keep}], labelsSet: BOOLEAN, labels: SUBSET Label]

Op == {"create", "update", "close", "httpClose", "merge", "delete",
       "addLabel", "removeLabel", "addDep", "removeDep", "addComment"}

Call == [op: Op, bead: Bead, patch: Patch, actor: Person, label: Label, on: Bead]

ASSUME BeadsAssumption ==
  /\ Nil \notin Row
  /\ Unset \notin Value /\ Keep \notin Value
  /\ Keep \notin StatusInput \cup Person
  /\ AdviceBead \subseteq Bead
  /\ InitLabels \subseteq Label
  /\ Calls \subseteq Call

VARIABLES
  rows,       \* table beads
  labels,     \* table labels, by bead
  deps,       \* table deps, pairs <<bead, depends_on>>
  comments,   \* table comments, by bead: the requests that wrote one
  log,        \* table events
  used,       \* ids generated so far
  pc, call,   \* per request: the next statement, what was asked
  row,        \* per request: the whole row it is about to write back
  adding, removing,  \* per request: labels left to add and to remove
  alone       \* history: no other request wrote this request's bead since it began

tables == <<rows, labels, deps, comments>>
locals == <<call, row, adding, removing>>
vars == <<tables, log, used, pc, locals, alone>>

Idle == "idle"
Finished == {"done", "failed"}
Statement == {"read", "write", "getLabels", "reconcile", "event", "advice"}
               \cup (Op \ {"update", "merge", "httpClose"})
PC == {Idle} \cup Statement \cup Finished

-----------------------------------------------------------------------------
(* Row arithmetic of the handlers.                                         *)

Given(v, old) == IF v = Keep THEN old ELSE v

\* Patch semantics of the fields JSON: a key can be overwritten, never dropped.
MergeFields(f, p) == [k \in Key |-> Given(p[k], f[k])]

NewRow(p) == [status |-> "open", closedAt |-> FALSE, closedBy |-> Nobody,
              assignee |-> Given(p.assignee, Nobody),
              fields |-> MergeFields([k \in Key |-> Unset], p.fields)]

\* updateBead on the row it read; closed_at follows status, closed_by does not.
PatchRow(r, p) ==
  LET s == Given(p.status, r.status)
  IN [status |-> s, closedAt |-> (s = "closed"), closedBy |-> r.closedBy,
      assignee |-> Given(p.assignee, r.assignee),
      fields |-> MergeFields(r.fields, p.fields)]

\* (fault) the enum check of the status is left out
ValidRowAnyStatus(r) == r.status = "closed" <=> r.closedAt

\* The part of ValidateBead that depends on what updateBead changes.
ValidRow(r) == r.status \in Status /\ (r.status = "closed" <=> r.closedAt)

\* (fault) closed without a time stamp
ClosedRowNoTime(r, who) == [r EXCEPT !.status = "closed", !.closedBy = who]

\* UPDATE beads SET status = 'closed', closed_at = NOW(), closed_by = $2.
ClosedRow(r, who) ==
  [r EXCEPT !.status = "closed", !.closedAt = TRUE, !.closedBy = who]

-----------------------------------------------------------------------------
(* Requests.                                                               *)

B(r) == call[r].bead
Busy(r) == pc[r] \in Statement

HasExtra(c) == \E k \in Key : c.patch.fields[k] # Keep

FirstStatement(c) ==
  CASE c.op \in {"update", "merge"} -> "read"
    [] c.op = "httpClose" -> IF HasExtra(c) THEN "read" ELSE "close"
    [] OTHER -> c.op

\* What follows the whole-row write, and what follows its failure: the merge
\* that precedes an HTTP close is "Non-fatal -- log and continue with close".
AfterWrite(c) ==
  CASE c.op = "httpClose" -> "close"
    [] c.op = "merge" -> "done"
    [] OTHER -> IF c.patch.labelsSet THEN "getLabels" ELSE "event"
AfterError(r) ==
  IF call[r].op = "httpClose" /\ pc[r] \in {"read", "write"} THEN "close" ELSE "failed"

Goto(r, s) == pc' = [pc EXCEPT ![r] = s]
\* The statement took effect.  Its reply may be lost (the context is cancelled,
\* the connection breaks), and then the handler takes the error path.
Took(r, s) == \E next \in {s, AfterError(r)} : Goto(r, next)
Wrote(r) == alone' = [q \in Request |->
                        alone[q] /\ ~(q # r /\ Busy(q) /\ B(q) = B(r))]

Start(r) ==
  /\ pc[r] = Idle
  /\ \E c \in Calls :
       /\ c.op = "create" => c.bead \notin used
       /\ used' = IF c.op = "create" THEN used \cup {c.bead} ELSE used
       /\ call' = [call EXCEPT ![r] = c]
       /\ Goto(r, FirstStatement(c))
  /\ UNCHANGED <<tables, log, row, adding, removing, alone>>

\* A statement fails, or what it returned makes the handler give up
\* (type config not readable, fields rejected by ValidateFields).
Fail(r) ==
  /\ pc[r] \in Statement \ {"event", "advice"}
  /\ Goto(r, AfterError(r))
  /\ UNCHANGED <<tables, log, used, locals, alone>>

\* The transaction of createBead: the row and its labels, or nothing (Fail).
Create(r) ==
  /\ pc[r] = "create"
  /\ rows[B(r)] = Nil
  /\ rows' = [rows EXCEPT ![B(r)] = NewRow(call[r].patch)]
  /\ labels' = [labels EXCEPT ![B(r)] = call[r].patch.labels]
  /\ Took(r, "event")
  /\ Wrote(r)
  /\ UNCHANGED <<deps, comments, log, used, locals>>

\* What a handler means to write, given the row it read.
Image(c, old) ==
  IF c.op = "update" THEN PatchRow(old, c.patch)
  ELSE [old EXCEPT !.fields = MergeFields(@, c.patch.fields)]

\* (fault) the row is built from the request alone, not from the one stored
ReadRowIgnored(r) ==
  /\ pc[r] = "read"
  /\ rows[B(r)] # Nil
  /\ Goto(r, "write")
  /\ row' = [row EXCEPT ![r] = Image(call[r], NewRow(call[r].patch))]
  /\ UNCHANGED <<tables, log, used, call, adding, removing, alone>>

\* GetBead, then the patch (update) or merge computed on the copy just read.
ReadRow(r) ==
  /\ pc[r] = "read"
  /\ rows[B(r)] # Nil
  /\ LET new == Image(call[r], rows[B(r)])
     IN IF call[r].op = "update" /\ ~ValidRow(new)
        THEN Goto(r, "failed") /\ UNCHANGED row
        ELSE Goto(r, "write") /\ row' = [row EXCEPT ![r] = new]
  /\ UNCHANGED <<tables, log, used, call, adding, removing, alone>>

\* A statement that needs the bead finds no such row: ErrNils from GetBead,
\* UPDATE ... RETURNING and DELETE, a foreign-key error from the INSERTs.
Missing(r) ==
  /\ \/ /\ pc[r] \in {"read", "write", "close", "delete", "addLabel",
                      "addDep", "addComment"}
        /\ rows[B(r)] = Nil
     \/ pc[r] = "reconcile" /\ removing[r] = {} /\ adding[r] # {} /\ rows[B(r)] = Nil
     \/ /\ pc[r] = "addDep"
        /\ rows[call[r].on] = Nil \/ <<B(r), call[r].on>> \in deps
  /\ Goto(r, AfterError(r))
  /\ UNCHANGED <<tables, log, used, locals, alone>>

\* (fault) INSERT ... ON CONFLICT UPDATE instead of UPDATE
UpsertRow(r) ==
  /\ pc[r] = "write"
  /\ rows' = [rows EXCEPT ![B(r)] = row[r]]
  /\ Took(r, AfterWrite(call[r]))
  /\ Wrote(r)
  /\ UNCHANGED <<labels, deps, comments, log, used, locals>>

\* UPDATE beads SET <every column> WHERE id = $1.
WriteRow(r) ==
  /\ pc[r] = "write"
  /\ rows[B(r)] # Nil
  /\ rows' = [rows EXCEPT ![B(r)] = row[r]]
  /\ Took(r, AfterWrite(call[r]))
  /\ Wrote(r)
  /\ UNCHANGED <<labels, deps, comments, log, used, locals>>

\* (fault) the labels to drop are never computed
GetLabelsAddOnly(r) ==
  /\ pc[r] = "getLabels"
  /\ removing' = [removing EXCEPT ![r] = {}]
  /\ adding' = [adding EXCEPT ![r] = call[r].patch.labels]
  /\ Goto(r, "reconcile")
  /\ UNCHANGED <<tables, log, used, call, row, alone>>

\* reconcileLabels: GetLabels, then a DELETE or INSERT per difference.
GetLabels(r) ==
  /\ pc[r] = "getLabels"
  /\ removing' = [removing EXCEPT ![r] = labels[B(r)] \ call[r].patch.labels]
  /\ adding' = [adding EXCEPT ![r] = call[r].patch.labels \ labels[B(r)]]
  /\ Goto(r, "reconcile")
  /\ UNCHANGED <<tables, log, used, call, row, alone>>

ReconcileRemove(r) ==
  /\ pc[r] = "reconcile"
  /\ \E l \in removing[r] :
       /\ labels' = [labels EXCEPT ![B(r)] = @ \ {l}]
       /\ removing' = [removing EXCEPT ![r] = @ \ {l}]
  /\ Took(r, "reconcile")
  /\ Wrote(r)
  /\ UNCHANGED <<rows, deps, comments, log, used, call, row, adding>>

ReconcileAdd(r) ==
  /\ pc[r] = "reconcile" /\ removing[r] = {} /\ rows[B(r)] # Nil
  /\ \E l \in adding[r] :
       /\ labels' = [labels EXCEPT ![B(r)] = @ \cup {l}]
       /\ adding' = [adding EXCEPT ![r] = @ \ {l}]
  /\ Took(r, "reconcile")
  /\ Wrote(r)
  /\ UNCHANGED <<rows, deps, comments, log, used, call, row, removing>>

ReconcileEnd(r) ==
  /\ pc[r] = "reconcile" /\ removing[r] = {} /\ adding[r] = {}
  /\ Goto(r, "event")
  /\ UNCHANGED <<tables, log, used, locals, alone>>

\* One UPDATE.  The SELECTs that follow it may fail as well, and then too the
\* handler reports an error and publishes nothing although the bead is closed.
Close(r) ==
  /\ pc[r] = "close"
  /\ rows[B(r)] # Nil
  /\ rows' = [rows EXCEPT ![B(r)] = ClosedRow(@, call[r].actor)]
  /\ Took(r, "event")
  /\ Wrote(r)
  /\ UNCHANGED <<labels, deps, comments, log, used, locals>>

\* (fault) the number of deleted rows is not looked at
DeleteUnchecked(r) ==
  /\ pc[r] = "delete"
  /\ rows' = [rows EXCEPT ![B(r)] = Nil]
  /\ labels' = [labels EXCEPT ![B(r)] = {}]
  /\ deps' = {d \in deps : B(r) \notin {d[1], d[2]}}
  /\ comments' = [comments EXCEPT ![B(r)] = {}]
  /\ Took(r, "event")
  /\ Wrote(r)
  /\ UNCHANGED <<log, used, locals>>

\* (fault) the foreign key depends_on_id does not cascade
DeleteForwardOnly(r) ==
  /\ pc[r] = "delete"
  /\ rows[B(r)] # Nil
  /\ rows' = [rows EXCEPT ![B(r)] = Nil]
  /\ labels' = [labels EXCEPT ![B(r)] = {}]
  /\ deps' = {d \in deps : d[1] # B(r)}
  /\ comments' = [comments EXCEPT ![B(r)] = {}]
  /\ Took(r, "event")
  /\ Wrote(r)
  /\ UNCHANGED <<log, used, locals>>

\* DELETE FROM beads WHERE id = $1, cascading to labels, deps and comments.
Delete(r) ==
  /\ pc[r] = "delete"
  /\ rows[B(r)] # Nil
  /\ rows' = [rows EXCEPT ![B(r)] = Nil]
  /\ labels' = [labels EXCEPT ![B(r)] = {}]
  /\ deps' = {d \in deps : B(r) \notin {d[1], d[2]}}
  /\ comments' = [comments EXCEPT ![B(r)] = {}]
  /\ Took(r, "event")
  /\ Wrote(r)
  /\ UNCHANGED <<log, used, locals>>

AddLabel(r) ==
  /\ pc[r] = "addLabel"
  /\ rows[B(r)] # Nil
  /\ labels' = [labels EXCEPT ![B(r)] = @ \cup {call[r].label}]
  /\ Took(r, "event")
  /\ Wrote(r)
  /\ UNCHANGED <<rows, deps, comments, log, used, locals>>

\* The DELETE affecting no row is not an error: the event is still published.
RemoveLabel(r) ==
  /\ pc[r] = "removeLabel"
  /\ labels' = [labels EXCEPT ![B(r)] = @ \ {call[r].label}]
  /\ Took(r, "event")
  /\ Wrote(r)
  /\ UNCHANGED <<rows, deps, comments, log, used, locals>>

AddDep(r) ==
  /\ pc[r] = "addDep"
  /\ rows[B(r)] # Nil /\ rows[call[r].on] # Nil
  /\ <<B(r), call[r].on>> \notin deps
  /\ deps' = deps \cup {<<B(r), call[r].on>>}
  /\ Took(r, "event")
  /\ UNCHANGED <<rows, labels, comments, log, used, locals, alone>>

RemoveDep(r) ==
  /\ pc[r] = "removeDep"
  /\ deps' = deps \ {<<B(r), call[r].on>>}
  /\ Took(r, "event")
  /\ UNCHANGED <<rows, labels, comments, log, used, locals, alone>>

AddComment(r) ==
  /\ pc[r] = "addComment"
  /\ rows[B(r)] # Nil
  /\ comments' = [comments EXCEPT ![B(r)] = @ \cup {r}]
  /\ Took(r, "event")
  /\ UNCHANGED <<rows, labels, deps, log, used, locals, alone>>

-----------------------------------------------------------------------------
(* Events.                                                                 *)

Topic(op) ==
  CASE op = "create" -> "bead.created"       [] op = "update" -> "bead.updated"
    [] op \in {"close", "httpClose"} -> "bead.closed"
    [] op = "delete" -> "bead.deleted"       [] op = "addLabel" -> "label.added"
    [] op = "removeLabel" -> "label.removed" [] op = "addDep" -> "dependency.added"
    [] op = "removeDep" -> "dependency.removed"
    [] OTHER -> "comment.added"

\* The second event of the handlers that look at the type: the HTTP close and
\* DeleteBead do not.
AdviceTopic(c) ==
  CASE c.op = "create" -> "advice.created"
    [] c.op = "update" -> "advice.updated"
    [] c.op = "close" -> "advice.deleted"

AfterEvent(c) ==
  IF c.op \in {"create", "update", "close"} /\ c.bead \in AdviceBead
  THEN "advice" ELSE "done"

\* recordAndPublish is best effort: the row may not get recorded.
Append1(topic, r) ==
  \/ log' = Append(log, [topic |-> topic, bead |-> B(r), req |-> r])
  \/ UNCHANGED log

RecordEvent(r) ==
  /\ pc[r] = "event"
  /\ Append1(Topic(call[r].op), r)
  /\ Goto(r, AfterEvent(call[r]))
  /\ UNCHANGED <<tables, used, locals, alone>>

RecordAdvice(r) ==
  /\ pc[r] = "advice"
  /\ Append1(AdviceTopic(call[r]), r)
  /\ Goto(r, "done")
  /\ UNCHANGED <<tables, used, locals, alone>>

-----------------------------------------------------------------------------
\* Some of the beads exist already, as created, when the requests arrive.
Init ==
  \E live \in SUBSET Bead :
    /\ rows = [b \in Bead |->
                 IF b \in live
                 THEN NewRow([assignee |-> Keep, fields |-> [k \in Key |-> Keep]])
                 ELSE Nil]
    /\ labels = [b \in Bead |-> IF b \in live THEN InitLabels ELSE {}]
    /\ used = live
    /\ deps = {}
    /\ comments = [b \in Bead |-> {}]
    /\ log = <<>>
    /\ pc = [r \in Request |-> Idle]
    /\ call = [r \in Request |-> Nil]
    /\ row = [r \in Request |-> Nil]
    /\ adding = [r \in Request |-> {}]
    /\ removing = [r \in Request |-> {}]
    /\ alone = [r \in Request |-> TRUE]

Mutate(r) ==
  \/ Create(r) \/ WriteRow(r) \/ Close(r) \/ Delete(r)
  \/ ReconcileRemove(r) \/ ReconcileAdd(r) \/ AddLabel(r) \/ RemoveLabel(r)
  \/ AddDep(r) \/ RemoveDep(r) \/ AddComment(r)

Advance(r) ==
  \/ ReadRow(r) \/ Missing(r) \/ GetLabels(r) \/ ReconcileEnd(r)
  \/ RecordEvent(r) \/ RecordAdvice(r)

Step(r) == Start(r) \/ Fail(r) \/ Mutate(r) \/ Advance(r)

AllServed == (\A r \in Request : pc[r] \in Finished) /\ UNCHANGED vars

Next == (\E r \in Request : Step(r)) \/ AllServed

Spec == Init /\ [][Next]_vars

-----------------------------------------------------------------------------
(* Properties.                                                             *)

\* The tables and the requests hold what their types allow; a handler in its
\* label or write-back part holds a copy of the kind it needs.
TypeOK ==
  /\ rows \in [Bead -> Row \cup {Nil}]
  /\ labels \in [Bead -> SUBSET Label]
  /\ deps \subseteq Bead \X Bead
  /\ comments \in [Bead -> SUBSET Request]
  /\ used \subseteq Bead
  /\ pc \in [Request -> PC]
  /\ call \in [Request -> Calls \cup {Nil}]
  /\ row \in [Request -> Row \cup {Nil}]
  /\ adding \in [Request -> SUBSET Label]
  /\ removing \in [Request -> SUBSET Label]
  /\ alone \in [Request -> BOOLEAN]
  /\ \A r \in Request :
       /\ pc[r] # Idle => call[r] \in Calls
       /\ pc[r] = "write" => row[r] \in Row

\* "ClosedAt consistency with Status" (ValidateBead) holds of every stored row,
\* although mergeBeadFields and CloseBead never validate and a whole-row write
\* may put back a copy read before other requests closed or reopened the bead.
ClosedConsistent ==
  \A b \in Bead : rows[b] # Nil => (rows[b].status = "closed" <=> rows[b].closedAt)

\* Labels, dependencies (either end) and comments never outlive their bead,
\* whatever label reconciliation or INSERT was under way when it was deleted.
NoOrphans ==
  \A b \in Bead : rows[b] = Nil =>
    labels[b] = {} /\ comments[b] = {} /\ \A d \in deps : b \notin {d[1], d[2]}

\* A deleted bead stays deleted: no handler that read it before DeleteBead
\* brings its row back (UpdateBead is an UPDATE, ids are never reused).
Gone(b) ==
  /\ b \in used /\ rows[b] = Nil
  /\ \A r \in Request : pc[r] = "create" => B(r) # b
GoneForGood == [][\A b \in Bead : Gone(b) => Gone(b)']_vars

\* Of several racing DeleteBead requests one wins: a bead has at most one
\* bead.deleted event, and once it has one the bead is gone.
DeletedOnce ==
  \A i \in 1..Len(log) : log[i].topic = "bead.deleted" =>
    /\ rows[log[i].bead] = Nil
    /\ \A j \in 1..Len(log) :
         log[j].topic = "bead.deleted" /\ log[j].bead = log[i].bead => i = j

\* Lost updates need an overlap: what updateBead and mergeBeadFields are about
\* to write over the whole row is the stored row with their own patch applied,
\* unless some other request wrote the bead since this one began.
WriteBackIsFresh ==
  \A r \in Request : pc[r] = "write" /\ alone[r] =>
    rows[B(r)] # Nil /\ row[r] = Image(call[r], rows[B(r)])

\* An updateBead that got as far as its event, with no other writer meanwhile,
\* has left exactly the row it built and exactly the labels it was given
\* (reconcileLabels computes its differences from a separate read).
UpdateTookEffect ==
  \A r \in Request : pc[r] \in {"event", "advice"} /\ call[r].op = "update" /\ alone[r] =>
    /\ rows[B(r)] = row[r]
    /\ call[r].patch.labelsSet => labels[B(r)] = call[r].patch.labels

\* 'Pointer fields indicate optionality: nil means "don't change"': the write of
\* an updateBead that was given no status leaves the stored status alone.
NilStatusMeansKeep ==
  [][\A r \in Request :
       /\ pc[r] = "write" /\ call[r].op = "update" /\ call[r].patch.status = Keep
       /\ rows[B(r)] # Nil /\ WriteRow(r)
       => rows'[B(r)].status = rows[B(r)].status]_vars
=============================================================================
