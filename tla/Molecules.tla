------------------------------ MODULE Molecules ------------------------------
(***************************************************************************)
(* A formula applied to become a molecule, agents that take, finish and    *)
(* reopen its steps meanwhile, and kd mol bond, squash and burn on it.     *)
(*                                                                         *)
(* Apply creates one bead after the other and links them, in remote calls  *)
(* that may fail before they had an effect or lose their answer after; it  *)
(* stops at the first error and takes nothing back.  Titles, roles, labels *)
(* and priorities are left out.                                            *)
(***************************************************************************)
EXTENDS Naturals, FiniteSets, Sequences

CONSTANTS
  Step,      \* steps of the formula; also the beads created for them
  Order,     \* the steps as the formula lists them
  Needs,     \* [Step -> SUBSET Step], depends_on
  When,      \* [Step -> Condition \cup {Always}]
  Always,
  Var,       \* variables of the formula
  VarDef,    \* [Var -> [default, required, enum]]
  Given,     \* sets of --var options, each a function from Var
  Unset,     \* no value, and no default
  Root,      \* the molecule bead
  Outer,     \* another molecule, for bond
  Gone       \* no such bead

\* A formula lists its steps, and the beads created are those of the steps.
ASSUME MoleculesAssumption ==
  /\ Order \in Seq(Step) /\ \A s \in Step : \E i \in DOMAIN Order : Order[i] = s
  /\ Needs \in [Step -> SUBSET Step]
  /\ Root \notin Step /\ Outer \notin Step /\ Root # Outer
  /\ Gone \notin {"open", "in_progress", "closed"}

VARIABLES
  status,    \* status of the beads
  parent,    \* steps with a parent-child link to the molecule
  blocks,    \* <<b, p>>: b depends on p, type blocks
  apply,     \* the apply command
  mol,       \* the squash or burn command
  linked,    \* history: steps that ever were linked to the molecule
  undone     \* history: something was reopened, linked or failed since mol started

moleculeVars == <<status, parent, blocks, apply, mol, linked, undone>>

Item == Step \cup {Root, Outer}
There(b) == status[b] # Gone

-----------------------------------------------------------------------------
(* Expanding the formula.                                                  *)

\* Values given on the command line, then defaults.
Bound(given) == [v \in Var |-> IF given[v] # Unset THEN given[v] ELSE VarDef[v].default]

Acceptable(given) ==
  \A v \in Var :
    /\ VarDef[v].required => Bound(given)[v] # Unset
    /\ VarDef[v].enum # {} /\ Bound(given)[v] # Unset => Bound(given)[v] \in VarDef[v].enum

\* A placeholder that was not replaced is false, and differs from every value.
Holds(c, vars) ==
  LET x == vars[c.var]
      plain == CASE c.op = "truthy" -> x \notin {Unset, "", "false", "0"}
                 [] c.op = "==" -> x = c.value
                 [] c.op = "!=" -> x # c.value
  IN IF c.negated THEN ~plain ELSE plain

Skipped(vars) == {s \in Step : When[s] # Always /\ ~Holds(When[s], vars)}

\* Dependencies on skipped steps are dropped, not passed on.
Links(skipped) == {l \in (Step \ skipped) \X (Step \ skipped) : l[2] \in Needs[l[1]]}

-----------------------------------------------------------------------------
(* formula apply, pour and wisp.                                           *)

Stays == UNCHANGED <<status, parent, blocks, linked, undone>>
Failed == [apply EXCEPT !.at = "failed", !.steps = {}, !.links = {}]
ApplyGoes(at) == apply' = IF at = "failed" THEN Failed ELSE [apply EXCEPT !.at = at]

Position(s) == CHOOSE i \in DOMAIN Order : Order[i] = s

\* The active step that is first in the formula among those of S.
First(S) == CHOOSE s \in S : \A t \in S : Position(s) <= Position(t)

Resolve ==
  /\ apply.at = "start"
  /\ \E given \in Given :
       LET skipped == Skipped(Bound(given))
       IN apply' = IF Acceptable(given) /\ skipped # Step
                   THEN [at |-> "create", steps |-> Step \ skipped,
                         links |-> Links(skipped), skipped |-> skipped]
                   ELSE Failed
  /\ UNCHANGED mol /\ Stays

\* A call's effect with its answer, or the effect and no answer, or neither.
Answer(at) == {at, "failed"}

CreateMolecule ==
  /\ apply.at = "create"
  /\ status' = [status EXCEPT ![Root] = "open"]
  /\ \E at \in Answer("step") : ApplyGoes(at)
  /\ UNCHANGED <<parent, blocks, mol, linked, undone>>

NextStep == First(apply.steps)

CreateStep ==
  /\ apply.at = "step" /\ apply.steps # {}
  /\ status' = [status EXCEPT ![NextStep] = "open"]
  /\ \E at \in Answer("parent") : ApplyGoes(at)
  /\ UNCHANGED <<parent, blocks, mol, linked, undone>>

\* The link needs both beads.
LinkParent ==
  /\ apply.at = "parent"
  /\ There(Root) /\ There(NextStep)
  /\ parent' = parent \cup {NextStep} /\ linked' = linked \cup {NextStep}
  /\ undone' = (undone \/ mol.at # "idle")
  /\ \E at \in Answer("step") :
       apply' = IF at = "failed" THEN Failed
                ELSE [apply EXCEPT !.at = at, !.steps = @ \ {NextStep}]
  /\ UNCHANGED <<status, blocks, mol>>

\* (fault) links are made from the last dependency to the bead, the wrong way round
LinkStepsBackwards ==
  /\ apply.at = "step" /\ apply.steps = {}
  /\ \E l \in apply.links :
       /\ l[1] = First({k[1] : k \in apply.links})
       /\ There(l[1]) /\ There(l[2])
       /\ blocks' = blocks \cup {<<l[2], l[1]>>}
       /\ \E next \in {Failed, [apply EXCEPT !.links = @ \ {l}]} : apply' = next
  /\ UNCHANGED <<status, parent, mol, linked, undone>>

\* When all beads exist: step by step, in the order of depends_on.
LinkSteps ==
  /\ apply.at = "step" /\ apply.steps = {}
  /\ \E l \in apply.links :
       /\ l[1] = First({k[1] : k \in apply.links})
       /\ There(l[1]) /\ There(l[2])
       /\ blocks' = blocks \cup {l}
       /\ \E next \in {Failed, [apply EXCEPT !.links = @ \ {l}]} : apply' = next
  /\ UNCHANGED <<status, parent, mol, linked, undone>>

Applied ==
  /\ apply.at = "step" /\ apply.steps = {} /\ apply.links = {}
  /\ ApplyGoes("done")
  /\ UNCHANGED mol /\ Stays

ApplyFails ==
  /\ apply.at \in {"start", "create", "step", "parent"}
  /\ apply.at = "step" => apply.steps # {} \/ apply.links # {}
  /\ ApplyGoes("failed")
  /\ UNCHANGED mol /\ Stays

-----------------------------------------------------------------------------
(* Agents at work, and kd mol bond.                                        *)

\* claim, done and reopen of a step, or of the other molecule.
Work(b, from, to) ==
  /\ status[b] = from
  /\ status' = [status EXCEPT ![b] = to]
  /\ undone' = (undone \/ (from = "closed" /\ mol.at # "idle"))
  /\ UNCHANGED <<parent, blocks, apply, mol, linked>>

\* The molecule runs after the other one; a parallel bond, of type related,
\* blocks nothing.
Bond ==
  /\ There(Root) /\ There(Outer)
  /\ blocks' = blocks \cup {<<Root, Outer>>}
  /\ UNCHANGED <<status, parent, apply, mol, linked, undone>>

\* The rows that reference a bead go with it.
Without(b) ==
  /\ status' = [status EXCEPT ![b] = Gone]
  /\ parent' = IF b = Root THEN {} ELSE parent \ {b}
  /\ blocks' = {l \in blocks : b \notin {l[1], l[2]}}

\* kd delete of a step.
Delete(s) ==
  /\ There(s) /\ Without(s)
  /\ UNCHANGED <<apply, mol, linked, undone>>

-----------------------------------------------------------------------------
(* kd mol squash and kd mol burn.                                          *)

MolGoes(next) ==
  /\ mol' = next
  /\ UNCHANGED <<status, parent, blocks, apply, linked>>

StartMol(op) ==
  /\ mol.at = "idle" /\ There(Root)
  /\ MolGoes([mol EXCEPT !.op = op, !.at = "children"])
  /\ undone' = FALSE

\* GetReverseDependencies.  Burn asks for --force when there are any.
ReadChildren ==
  /\ mol.at = "children"
  /\ MolGoes([mol EXCEPT !.at = IF mol.op = "burn" THEN "each" ELSE "read", !.todo = parent])
  /\ UNCHANGED undone

\* squash: GetBead of a child, and whether it is closed; one that cannot be read
\* is skipped.
ReadChild ==
  /\ mol.at = "read"
  /\ \E s \in mol.todo :
       \/ /\ MolGoes([mol EXCEPT !.todo = @ \ {s},
                                 !.open = IF There(s) /\ status[s] # "closed" THEN @ \cup {s} ELSE @])
          /\ UNCHANGED undone
       \/ /\ MolGoes([mol EXCEPT !.todo = @ \ {s}])
          /\ undone' = TRUE

\* (fault) what was open is forgotten with the digest
DigestForgets ==
  /\ mol.at = "read" /\ mol.todo = {} /\ There(Root)
  /\ MolGoes([mol EXCEPT !.at = "each", !.todo = {}, !.open = {}])
  /\ UNCHANGED undone

\* squash: the digest becomes a comment on the molecule.
Digest ==
  /\ mol.at = "read" /\ mol.todo = {} /\ There(Root)
  /\ MolGoes([mol EXCEPT !.at = "each", !.todo = mol.open, !.open = {}])
  /\ UNCHANGED undone

\* Any call that ends the command when it fails.
MolFails ==
  /\ mol.at \in {"children", "each"} \/ (mol.at = "read" /\ mol.todo = {})
  /\ mol.at = "each" => mol.todo = {}
  /\ MolGoes([mol EXCEPT !.at = "failed", !.todo = {}, !.open = {}])
  /\ undone' = TRUE

\* A failure is a warning.
CloseChild ==
  /\ mol.op = "squash" /\ mol.at = "each"
  /\ \E s \in mol.todo :
       /\ mol' = [mol EXCEPT !.todo = @ \ {s}]
       /\ \/ /\ There(s) /\ status' = [status EXCEPT ![s] = "closed"]
             /\ UNCHANGED undone
          \/ UNCHANGED status /\ undone' = TRUE
  /\ UNCHANGED <<parent, blocks, apply, linked>>

DeleteChild ==
  /\ mol.op = "burn" /\ mol.at = "each"
  /\ \E s \in mol.todo :
       /\ mol' = [mol EXCEPT !.todo = @ \ {s}]
       /\ \/ There(s) /\ Without(s) /\ UNCHANGED undone
          \/ UNCHANGED <<status, parent, blocks>> /\ undone' = TRUE
  /\ UNCHANGED <<apply, linked>>

Ending(op) ==
  /\ mol.op = op /\ mol.at = "each" /\ mol.todo = {}
  /\ mol' = [mol EXCEPT !.at = "ended"]
  /\ UNCHANGED <<apply, linked, undone>>

\* squash --close-mol, or not.
EndSquash ==
  /\ Ending("squash")
  /\ \/ UNCHANGED status
     \/ There(Root) /\ status' = [status EXCEPT ![Root] = "closed"]
  /\ UNCHANGED <<parent, blocks>>

EndBurn == Ending("burn") /\ There(Root) /\ Without(Root)

-----------------------------------------------------------------------------
MoleculesInit ==
  /\ status = [b \in Item |-> IF b = Outer THEN "open" ELSE Gone]
  /\ parent = {} /\ blocks = {} /\ linked = {} /\ undone = FALSE
  /\ apply = [at |-> "start", steps |-> {}, links |-> {}, skipped |-> {}]
  /\ mol = [op |-> "squash", at |-> "idle", todo |-> {}, open |-> {}]

ApplyNext ==
  \/ Resolve \/ CreateMolecule \/ CreateStep \/ LinkParent \/ LinkSteps \/ Applied \/ ApplyFails

AgentsNext ==
  \/ \E b \in Step \cup {Outer} :
       \/ Work(b, "open", "in_progress") \/ Work(b, "open", "closed")
       \/ Work(b, "in_progress", "closed") \/ Work(b, "closed", "open")
  \/ \E s \in Step : Delete(s)
  \/ Bond

MolNext ==
  \/ StartMol("squash") \/ StartMol("burn")
  \/ ReadChildren \/ ReadChild \/ Digest \/ MolFails \/ CloseChild \/ DeleteChild
  \/ EndSquash \/ EndBurn

MoleculesNext == ApplyNext \/ AgentsNext \/ MolNext

MoleculesSpec == MoleculesInit /\ [][MoleculesNext]_moleculeVars

-----------------------------------------------------------------------------
MoleculesTypeOK ==
  /\ status \in [Item -> {"open", "in_progress", "closed", Gone}]
  /\ parent \subseteq linked /\ linked \subseteq Step /\ undone \in BOOLEAN
  /\ blocks \subseteq Item \X Item
  /\ apply \in [at : {"start", "create", "step", "parent", "done", "failed"},
                steps : SUBSET Step, links : SUBSET (Step \X Step), skipped : SUBSET Step]
  /\ mol \in [op : {"squash", "burn"},
              at : {"idle", "children", "read", "each", "ended", "failed"},
              todo : SUBSET Step, open : SUBSET Step]

\* "deleting it and all child beads", "Closes all child beads": when burn or
\* squash ends without a failed call, and nothing was linked to the molecule or
\* reopened meanwhile, no step that ever was its child is left, or left open.
EndedMeansDone ==
  mol.at = "ended" /\ ~undone =>
    \A s \in linked : status[s] \in (IF mol.op = "burn" THEN {Gone} ELSE {"closed", Gone})
=============================================================================
