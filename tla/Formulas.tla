------------------------------ MODULE Formulas ------------------------------
(***************************************************************************)
(* kd formula create and update on one formula: the client checks the      *)
(* file, builds the fields from it or from those it has read, and the      *)
(* server merges them, key by key, into a row it reads and writes back.    *)
(***************************************************************************)
EXTENDS Naturals, Sequences, FiniteSets

CONSTANTS
  File,          \* definitions: [vars, roles, steps], a step [id, titled, needs]
  Planner,       \* agents a formula may be assigned to
  Terminal,      \* kd processes
  MaxFormulaEdits,
  Leave, Clear,  \* --assignee not given, and given empty
  NoFileGiven, NoFormula

\* "Not given" and "given empty" are told apart from every agent's name.
ASSUME FormulasAssumption == Leave \notin Planner /\ Clear \notin Planner

VARIABLES
  formula,       \* the stored fields, NoFormula before
  terminal,      \* what each process does
  formulaEdits   \* commands started, bounded

formulaVars == <<formula, terminal, formulaEdits>>

NoCommand == [pc |-> "idle", given |-> NoFileGiven, assign |-> Leave, fields |-> NoFormula, alone |-> FALSE]
Busy(t) == terminal[t].pc \notin {"idle", "done", "failed"}
Moves(t, next) == terminal' = [terminal EXCEPT ![t] = next]

\* A formula has steps; their ids are there, unique, and cover what the steps
\* need.  That the needs have no cycle is not asked for.
Accepted(f) ==
  LET ids == {f.steps[i].id : i \in DOMAIN f.steps}
  IN /\ f.steps # <<>>
     /\ \A i \in DOMAIN f.steps : f.steps[i].id # "" /\ f.steps[i].titled /\ f.steps[i].needs \subseteq ids
     /\ Cardinality(ids) = Len(f.steps)

\* (fault) a file without variables says nothing about variables
FileFieldsSparse(f) ==
  IF f.vars = {} THEN [steps |-> f.steps] ELSE [vars |-> f.vars, steps |-> f.steps]

\* The default_roles of a file count for create only.
FileFields(f) == [vars |-> f.vars, steps |-> f.steps]

\* Key by key, the new fields replace the old ones.
Over(new, old) == [k \in DOMAIN new \cup DOMAIN old |-> IF k \in DOMAIN new THEN new[k] ELSE old[k]]

Assigned(fields, assign) ==
  CASE assign = Leave -> fields
    [] assign = Clear -> [k \in DOMAIN fields \ {"assigned_agent"} |-> fields[k]]
    [] assign \in Planner -> Over([assigned_agent |-> assign], fields)

\* A process starts; none that has started before is alone from here on.  The
\* first creates the formula; another create would make another bead.
StartFormula(t) ==
  /\ ~Busy(t) /\ formulaEdits < MaxFormulaEdits
  /\ formula = NoFormula => \A u \in Terminal : ~Busy(u)
  /\ formulaEdits' = formulaEdits + 1
  /\ \E given \in File \cup {NoFileGiven}, assign \in Planner \cup {Leave, Clear} :
       /\ given # NoFileGiven \/ assign # Leave
       /\ terminal' = [u \in Terminal |->
            IF u = t THEN [pc |-> IF formula = NoFormula THEN "create" ELSE "check", given |-> given, assign |-> assign,
                              fields |-> NoFormula, alone |-> \A x \in Terminal : ~Busy(x)]
            ELSE [terminal[u] EXCEPT !.alone = FALSE]]
  /\ UNCHANGED formula

\* create: the fields of an accepted file, with its roles if it names some
Created(f, assign) ==
  Assigned(IF f.roles = <<>> THEN FileFields(f) ELSE Over(FileFields(f), [default_roles |-> f.roles]), assign)

CreateFormula(t) ==
  /\ terminal[t].pc = "create"
  /\ LET f == terminal[t].given
     IN IF f # NoFileGiven /\ Accepted(f)
        THEN /\ formula' = Created(f, terminal[t].assign)
             /\ \E end \in {"done", "failed"} : Moves(t, [terminal[t] EXCEPT !.pc = end])
        ELSE Moves(t, [terminal[t] EXCEPT !.pc = "failed"]) /\ UNCHANGED formula
  /\ UNCHANGED formulaEdits

\* update: GetBead, then the fields of the file, or else all those just read
ReadFormula(t) ==
  /\ terminal[t].pc = "check"
  /\ LET f == terminal[t].given
     IN IF f = NoFileGiven \/ Accepted(f)
        THEN Moves(t, [terminal[t] EXCEPT !.pc = "merge", !.fields =
               Assigned(IF f = NoFileGiven THEN formula ELSE FileFields(f), terminal[t].assign)])
        ELSE Moves(t, [terminal[t] EXCEPT !.pc = "failed"])
  /\ UNCHANGED <<formula, formulaEdits>>

\* UpdateBead at the server: the keys that came replace those of the row it
\* reads, the others stay,
MergeIntoRow(t) ==
  /\ terminal[t].pc = "merge"
  /\ Moves(t, [terminal[t] EXCEPT !.pc = "store", !.fields = Over(@, formula)])
  /\ UNCHANGED <<formula, formulaEdits>>

\* and the row is written as a whole.
StoreRow(t) ==
  /\ terminal[t].pc = "store"
  /\ formula' = terminal[t].fields
  /\ Moves(t, [terminal[t] EXCEPT !.pc = "done"])
  /\ UNCHANGED formulaEdits

\* A call fails, or its answer is lost after the write.
FormulaCallFails(t) ==
  /\ Busy(t)
  /\ Moves(t, [terminal[t] EXCEPT !.pc = "failed"])
  /\ formula' \in IF terminal[t].pc = "store" THEN {formula, terminal[t].fields} ELSE {formula}
  /\ UNCHANGED formulaEdits

FormulasInit ==
  /\ formula = NoFormula
  /\ terminal = [t \in Terminal |-> NoCommand]
  /\ formulaEdits = 0

FormulasNext ==
  \E t \in Terminal :
    \/ StartFormula(t) \/ CreateFormula(t) \/ ReadFormula(t) \/ MergeIntoRow(t) \/ StoreRow(t) \/ FormulaCallFails(t)

FormulasSpec == FormulasInit /\ [][FormulasNext]_formulaVars

-----------------------------------------------------------------------------
(* Properties.                                                             *)

VarsOf(fields) == IF "vars" \in DOMAIN fields THEN fields.vars ELSE {}

\* However edits overlap or fail, the variables and the steps of a formula come
\* from one file, which was accepted; and a file or an agent given to a command
\* that no other overlapped is in the formula when the command is done.
FormulaIsOneFile ==
  /\ formula # NoFormula =>
       \E f \in File : Accepted(f) /\ formula.steps = f.steps /\ VarsOf(formula) = f.vars
  /\ \A t \in Terminal : terminal[t].pc = "done" /\ terminal[t].alone =>
       /\ terminal[t].given # NoFileGiven => formula.steps = terminal[t].given.steps
       /\ terminal[t].assign \in Planner => formula.assigned_agent = terminal[t].assign

\* "agent to assign molecules to when this formula is poured (empty string to
\* clear)": after a command with an empty --assignee that no other overlapped
\* the formula has no agent.
ClearedIsNobodys ==
  \A t \in Terminal : terminal[t].pc = "done" /\ terminal[t].alone /\ terminal[t].assign = Clear =>
    "assigned_agent" \notin DOMAIN formula
=============================================================================
