-------------------------- MODULE MoleculesProofs ---------------------------
(***************************************************************************)
(* What holds of molecules and of the answers kd ready gives, for every    *)
(* formula: every order of steps, every set of needs and every condition.  *)
(* Burn and squash go through the children one call at a time, and a       *)
(* request reads beads, dependencies and blockers one after the other, so  *)
(* both invariants say what has been gone through so far.                  *)
(***************************************************************************)
EXTENDS Ready, WellFoundedInduction, TLAPS

\* A set of natural numbers has a least one.
LEMMA LeastNatural ==
  ASSUME NEW S, S \subseteq Nat, S # {}
  PROVE  \E n \in S : \A m \in S : n <= m
<1> DEFINE R == OpToRel(<, Nat)
<1>1. IsWellFoundedOn(R, Nat)
  BY NatLessThanWellFounded
<1>2. \A x, y \in Nat : x < y => <<x, y>> \in R
  BY DEF OpToRel
<1> HIDE DEF R
<1>3. \E n \in S : \A m \in S : ~ (<<m, n>> \in R)
  BY <1>1, WFMin
<1>4. PICK n \in S : \A m \in S : ~ (<<m, n>> \in R)
  BY <1>3
<1>5. ASSUME NEW m \in S PROVE n <= m
  <2>1. ~ (<<m, n>> \in R)
    BY <1>4
  <2>2. m \in Nat /\ n \in Nat
    OBVIOUS
  <2>3. ~ (m < n)
    BY <2>1, <2>2, <1>2
  <2> QED
    BY <2>2, <2>3
<1> QED
  BY <1>5

\* The step to go on with is one of the steps.
LEMMA FirstIsOne ==
  ASSUME NEW S, S \subseteq Step, S # {}
  PROVE  First(S) \in S
<1>1. \A s \in Step : Position(s) \in Nat
  BY MoleculesAssumption DEF Position
<1>2. PICK n \in {Position(s) : s \in S} : \A m \in {Position(s) : s \in S} : n <= m
  BY <1>1, LeastNatural
<1>3. \E s \in S : \A t \in S : Position(s) <= Position(t)
  BY <1>2
<1> QED
  BY <1>3 DEF First

\* Linking the molecule's steps: what is left to link was never linked, and a step
\* once linked that is a child no more is gone, until burn takes the molecule itself.
Linking ==
  /\ apply.steps \cap linked = {}
  /\ apply.at = "start" => linked = {}
  /\ apply.at = "parent" => apply.steps # {}
  /\ mol.at # "ended" => \A s \in linked \ parent : status[s] = Gone

\* What becomes of the beads of steps.
Swept(op) == IF op = "burn" THEN {Gone} ELSE {"closed", Gone}

\* What burn and squash have done so far: each child they went through is gone, or
\* closed, unless something was linked or reopened meanwhile.
Sweeping ==
  /\ mol.at = "read" => mol.op = "squash"
  /\ mol.at # "read" => mol.open = {}
  /\ mol.at = "ended" => mol.todo = {}
  /\ ~undone /\ mol.at \in {"read", "each", "ended"} =>
       \A s \in linked \ (mol.todo \cup mol.open) : status[s] \in Swept(mol.op)

\* What carries it: types, the links made so far, the children gone through so far.
MoleculesIInv == MoleculesTypeOK /\ Linking /\ Sweeping

\* Types are kept: a step to go on with is there when one is left.
LEMMA MoleculesTypeKept ==
  MoleculesTypeOK /\ Linking /\ [MoleculesNext]_moleculeVars => MoleculesTypeOK'
<1> SUFFICES ASSUME MoleculesTypeOK, Linking, [MoleculesNext]_moleculeVars
             PROVE  MoleculesTypeOK'
  OBVIOUS
<1> USE DEF MoleculesTypeOK, Item
<1>1. ASSUME ApplyNext PROVE MoleculesTypeOK'
  <2>1. CASE Resolve
    <3>1. ASSUME NEW k \in SUBSET Step PROVE Links(k) \in SUBSET (Step \X Step)
      BY DEF Links
    <3>2. ASSUME NEW x PROVE Skipped(x) \in SUBSET Step
      BY DEF Skipped
    <3>3. PICK given \in Given :
            apply' = IF Acceptable(given) /\ Skipped(Bound(given)) # Step
                     THEN [at |-> "create", steps |-> Step \ Skipped(Bound(given)),
                           links |-> Links(Skipped(Bound(given))), skipped |-> Skipped(Bound(given))]
                     ELSE Failed
      BY <2>1 DEF Resolve
    <3>4. Failed \in [at : {"start", "create", "step", "parent", "done", "failed"},
                      steps : SUBSET Step, links : SUBSET (Step \X Step), skipped : SUBSET Step]
      BY DEF Failed
    <3> QED
      BY <2>1, <3>1, <3>2, <3>3, <3>4 DEF Resolve, Stays
  <2>2. CASE CreateMolecule
    BY <2>2 DEF CreateMolecule, Answer, ApplyGoes, Failed
  <2>3. CASE CreateStep
    <3>1. NextStep \in Step
      BY <2>3, FirstIsOne DEF CreateStep, NextStep
    <3>2. status' = [status EXCEPT ![NextStep] = "open"] /\ UNCHANGED <<parent, blocks, mol, linked, undone>>
      BY <2>3 DEF CreateStep
    <3>3. apply' = Failed \/ apply' = [apply EXCEPT !.at = "parent"]
      BY <2>3 DEF CreateStep, Answer, ApplyGoes
    <3> HIDE DEF NextStep
    <3>4. apply' \in [at : {"start", "create", "step", "parent", "done", "failed"},
                      steps : SUBSET Step, links : SUBSET (Step \X Step), skipped : SUBSET Step]
      BY <3>3 DEF Failed
    <3> QED
      BY <3>1, <3>2, <3>4
  <2>4. CASE LinkParent
    <3>1. NextStep \in apply.steps
      BY <2>4, FirstIsOne DEF LinkParent, Linking, NextStep
    <3>2. parent' = parent \cup {NextStep} /\ linked' = linked \cup {NextStep}
          /\ undone' \in BOOLEAN
      BY <2>4 DEF LinkParent
    <3>3. \/ apply' = [apply EXCEPT !.at = "step", !.steps = @ \ {NextStep}]
          \/ apply' = [apply EXCEPT !.at = "failed", !.steps = {}, !.links = {}]
      BY <2>4 DEF LinkParent, Answer, Failed
    <3> HIDE DEF NextStep
    <3>4. apply' \in [at : {"start", "create", "step", "parent", "done", "failed"},
                      steps : SUBSET Step, links : SUBSET (Step \X Step), skipped : SUBSET Step]
      <4>1. apply.steps \ {NextStep} \in SUBSET Step /\ {} \in SUBSET Step /\ {} \in SUBSET (Step \X Step)
        OBVIOUS
      <4>2. CASE apply' = [apply EXCEPT !.at = "step", !.steps = @ \ {NextStep}]
        BY <4>1, <4>2
      <4>3. CASE apply' = [apply EXCEPT !.at = "failed", !.steps = {}, !.links = {}]
        BY <4>1, <4>3
      <4> QED
        BY <3>3, <4>2, <4>3
    <3>5. UNCHANGED <<status, blocks, mol>>
      BY <2>4 DEF LinkParent
    <3> QED
      BY <3>1, <3>2, <3>4, <3>5
  <2>5. CASE LinkSteps
    <3>1. PICK l \in apply.links :
              blocks' = blocks \cup {l} /\ \E next \in {Failed, [apply EXCEPT !.links = @ \ {l}]} : apply' = next
      BY <2>5, Zenon DEF LinkSteps
    <3>2. l \in Item \X Item
      OBVIOUS
    <3>3. [apply EXCEPT !.links = @ \ {l}] \in [at : {"start", "create", "step", "parent", "done", "failed"},
                      steps : SUBSET Step, links : SUBSET (Step \X Step), skipped : SUBSET Step]
      <4>1. apply.links \ {l} \in SUBSET (Step \X Step)
        OBVIOUS
      <4> QED
        BY <4>1
    <3>4. Failed \in [at : {"start", "create", "step", "parent", "done", "failed"},
                      steps : SUBSET Step, links : SUBSET (Step \X Step), skipped : SUBSET Step]
      BY DEF Failed
    <3>5. apply' \in [at : {"start", "create", "step", "parent", "done", "failed"},
                      steps : SUBSET Step, links : SUBSET (Step \X Step), skipped : SUBSET Step]
      BY <3>1, <3>3, <3>4
    <3>6. UNCHANGED <<status, parent, mol, linked, undone>>
      BY <2>5, Zenon DEF LinkSteps
    <3> QED
      BY <3>1, <3>2, <3>5, <3>6
  <2>6. CASE Applied
    BY <2>6 DEF Applied, ApplyGoes, Stays
  <2>7. CASE ApplyFails
    BY <2>7 DEF ApplyFails, ApplyGoes, Failed, Stays
  <2> QED
    BY <1>1, <2>1, <2>2, <2>3, <2>4, <2>5, <2>6, <2>7 DEF ApplyNext
<1>2. ASSUME AgentsNext PROVE MoleculesTypeOK'
  <2>1. ASSUME NEW b \in Step \cup {Outer}, NEW from, NEW to \in {"open", "in_progress", "closed"},
               Work(b, from, to)
        PROVE  MoleculesTypeOK'
    BY <2>1 DEF Work
  <2>2. ASSUME NEW s \in Step, Delete(s) PROVE MoleculesTypeOK'
    BY <2>2 DEF Delete, Without
  <2>3. CASE Bond
    BY <2>3 DEF Bond
  <2> QED
    BY <1>2, <2>1, <2>2, <2>3 DEF AgentsNext
<1>3. ASSUME MolNext PROVE MoleculesTypeOK'
  <2>1. ASSUME NEW op \in {"squash", "burn"}, StartMol(op) PROVE MoleculesTypeOK'
    BY <2>1 DEF StartMol, MolGoes
  <2>2. CASE ReadChildren
    BY <2>2 DEF ReadChildren, MolGoes
  <2>3. CASE ReadChild
    <3>1. PICK s \in mol.todo :
            \/ mol' = [mol EXCEPT !.todo = @ \ {s},
                                  !.open = IF There(s) /\ status[s] # "closed" THEN @ \cup {s} ELSE @]
            \/ mol' = [mol EXCEPT !.todo = @ \ {s}]
      BY <2>3 DEF ReadChild, MolGoes
    <3>2. mol' \in [op : {"squash", "burn"},
                    at : {"idle", "children", "read", "each", "ended", "failed"},
                    todo : SUBSET Step, open : SUBSET Step]
      <4>1. /\ mol.todo \ {s} \in SUBSET Step
            /\ IF There(s) /\ status[s] # "closed" THEN mol.open \cup {s} \in SUBSET Step
                                                  ELSE mol.open \in SUBSET Step
        OBVIOUS
      <4> HIDE DEF There
      <4> QED
        BY <3>1, <4>1
    <3>3. undone' \in BOOLEAN /\ UNCHANGED <<status, parent, blocks, apply, linked>>
      BY <2>3 DEF ReadChild, MolGoes
    <3> QED
      BY <3>2, <3>3
  <2>4. CASE Digest
    BY <2>4 DEF Digest, MolGoes
  <2>5. CASE MolFails
    BY <2>5 DEF MolFails, MolGoes
  <2>6. CASE CloseChild
    <3>1. PICK s \in mol.todo :
            /\ mol' = [mol EXCEPT !.todo = @ \ {s}]
            /\ \/ There(s) /\ status' = [status EXCEPT ![s] = "closed"] /\ undone' = undone
               \/ status' = status /\ undone' = TRUE
      BY <2>6 DEF CloseChild
    <3>2. mol' \in [op : {"squash", "burn"},
                    at : {"idle", "children", "read", "each", "ended", "failed"},
                    todo : SUBSET Step, open : SUBSET Step]
      <4>1. mol.todo \ {s} \in SUBSET Step
        OBVIOUS
      <4> QED
        BY <3>1, <4>1
    <3>3. status' \in [Item -> {"open", "in_progress", "closed", Gone}] /\ undone' \in BOOLEAN
      BY <3>1
    <3>4. UNCHANGED <<parent, blocks, apply, linked>>
      BY <2>6 DEF CloseChild
    <3> QED
      BY <3>2, <3>3, <3>4
  <2>7. CASE DeleteChild
    <3>1. mol' \in [op : {"squash", "burn"},
                    at : {"idle", "children", "read", "each", "ended", "failed"},
                    todo : SUBSET Step, open : SUBSET Step]
      BY <2>7 DEF DeleteChild
    <3> QED
      BY <2>7, <3>1 DEF DeleteChild, Without
  <2>8. CASE EndSquash
    BY <2>8 DEF EndSquash, Ending
  <2>9. CASE EndBurn
    BY <2>9 DEF EndBurn, Ending, Without
  <2> QED
    BY <1>3, <2>1, <2>2, <2>3, <2>4, <2>5, <2>6, <2>7, <2>8, <2>9 DEF MolNext
<1>4. CASE UNCHANGED moleculeVars
  BY <1>4 DEF moleculeVars
<1> QED
  BY <1>1, <1>2, <1>3, <1>4 DEF MoleculesNext

\* What is left to link was not linked before.
LEMMA LinkingKept ==
  MoleculesTypeOK /\ Linking /\ [MoleculesNext]_moleculeVars => Linking'
<1> SUFFICES ASSUME MoleculesTypeOK, Linking, [MoleculesNext]_moleculeVars
             PROVE  Linking'
  OBVIOUS
<1> USE MoleculesAssumption DEF MoleculesTypeOK, Item, Linking
<1>1. ASSUME ApplyNext PROVE Linking'
  <2>1. CASE Resolve
    <3>1. \/ apply'.steps = {} /\ apply'.at = "failed"
          \/ apply'.at = "create" /\ apply.at = "start"
      BY <2>1 DEF Resolve, Failed
    <3> QED
      BY <2>1, <3>1 DEF Resolve, Stays
  <2>2. CASE CreateMolecule
    BY <2>2 DEF CreateMolecule, Answer, ApplyGoes, Failed
  <2>3. CASE CreateStep
    <3>1. NextStep \in apply.steps /\ apply.at = "step"
      BY <2>3, FirstIsOne DEF CreateStep, NextStep
    <3>2. status' = [status EXCEPT ![NextStep] = "open"] /\ UNCHANGED <<parent, blocks, mol, linked, undone>>
      BY <2>3 DEF CreateStep
    <3>3. apply' = Failed \/ apply' = [apply EXCEPT !.at = "parent"]
      BY <2>3 DEF CreateStep, Answer, ApplyGoes
    <3> HIDE DEF NextStep
    <3>4. (apply'.at = "failed" /\ apply'.steps = {}) \/ (apply'.at = "parent" /\ apply'.steps = apply.steps)
      BY <3>3 DEF Failed
    <3>5. NextStep \notin linked
      BY <3>1
    <3>6. \A s \in linked : status'[s] = status[s]
      BY <3>2, <3>5
    <3> QED
      BY <3>1, <3>2, <3>4, <3>6
  <2>4. CASE LinkParent
    <3>1. NextStep \in apply.steps
      BY <2>4, FirstIsOne DEF LinkParent, NextStep
    <3> QED
      BY <2>4, <3>1 DEF LinkParent, Answer, Failed
  <2>5. CASE LinkSteps
    <3>1. \/ apply'.steps = {} /\ apply'.at = "failed"
          \/ apply'.steps = apply.steps /\ apply'.at = apply.at
      <4>1. PICK l \in apply.links :
              \E next \in {Failed, [apply EXCEPT !.links = @ \ {l}]} : apply' = next
        BY <2>5, Zenon DEF LinkSteps
      <4>2. apply' = Failed \/ apply' = [apply EXCEPT !.links = @ \ {l}]
        BY <4>1
      <4>3. CASE apply' = Failed
        BY <4>3 DEF Failed
      <4>4. CASE apply' = [apply EXCEPT !.links = @ \ {l}]
        BY <4>4
      <4> QED
        BY <4>2, <4>3, <4>4
    <3> QED
      BY <2>5, <3>1 DEF LinkSteps
  <2>6. CASE Applied
    BY <2>6 DEF Applied, ApplyGoes, Stays
  <2>7. CASE ApplyFails
    BY <2>7 DEF ApplyFails, ApplyGoes, Failed, Stays
  <2> QED
    BY <1>1, <2>1, <2>2, <2>3, <2>4, <2>5, <2>6, <2>7 DEF ApplyNext
<1>2. ASSUME AgentsNext PROVE Linking'
  <2>1. ASSUME NEW b \in Step \cup {Outer}, NEW from \in {"open", "in_progress", "closed"},
               NEW to \in {"open", "in_progress", "closed"}, Work(b, from, to)
        PROVE  Linking'
    BY <2>1 DEF Work
  <2>2. ASSUME NEW s \in Step, Delete(s) PROVE Linking'
    BY <2>2 DEF Delete, Without
  <2>3. CASE Bond
    BY <2>3 DEF Bond
  <2> QED
    BY <1>2, <2>1, <2>2, <2>3 DEF AgentsNext
<1>3. ASSUME MolNext PROVE Linking'
  <2>1. ASSUME NEW op \in {"squash", "burn"}, StartMol(op) PROVE Linking'
    BY <2>1 DEF StartMol, MolGoes
  <2>2. CASE ReadChildren
    BY <2>2 DEF ReadChildren, MolGoes
  <2>3. CASE ReadChild
    BY <2>3 DEF ReadChild, MolGoes
  <2>4. CASE Digest
    BY <2>4 DEF Digest, MolGoes
  <2>5. CASE MolFails
    BY <2>5 DEF MolFails, MolGoes
  <2>6. CASE CloseChild
    BY <2>6 DEF CloseChild, There
  <2>7. CASE DeleteChild
    BY <2>7 DEF DeleteChild, Without
  <2>8. CASE EndSquash
    BY <2>8 DEF EndSquash, Ending
  <2>9. CASE EndBurn
    BY <2>9 DEF EndBurn, Ending
  <2> QED
    BY <1>3, <2>1, <2>2, <2>3, <2>4, <2>5, <2>6, <2>7, <2>8, <2>9 DEF MolNext
<1>4. CASE UNCHANGED moleculeVars
  BY <1>4 DEF moleculeVars
<1> QED
  BY <1>1, <1>2, <1>3, <1>4 DEF MoleculesNext

\* Each call of burn or squash goes through one more child.
LEMMA SweepingKept ==
  MoleculesTypeOK /\ Linking /\ Sweeping /\ [MoleculesNext]_moleculeVars => Sweeping'
<1> SUFFICES ASSUME MoleculesTypeOK, Linking, Sweeping, [MoleculesNext]_moleculeVars
             PROVE  Sweeping'
  OBVIOUS
<1> USE MoleculesAssumption DEF MoleculesTypeOK, Item, Sweeping, Swept
<1>1. ASSUME ApplyNext PROVE Sweeping'
  <2>1. CASE Resolve
    BY <2>1 DEF Resolve, Stays
  <2>2. CASE CreateMolecule
    BY <2>2 DEF CreateMolecule
  <2>3. CASE CreateStep
    <3>1. NextStep \in apply.steps /\ NextStep \notin linked
      BY <2>3, FirstIsOne DEF CreateStep, NextStep, Linking
    <3> QED
      BY <2>3, <3>1 DEF CreateStep
  <2>4. CASE LinkParent
    BY <2>4 DEF LinkParent
  <2>5. CASE LinkSteps
    BY <2>5 DEF LinkSteps
  <2>6. CASE Applied
    BY <2>6 DEF Applied, Stays
  <2>7. CASE ApplyFails
    BY <2>7 DEF ApplyFails, Stays
  <2> QED
    BY <1>1, <2>1, <2>2, <2>3, <2>4, <2>5, <2>6, <2>7 DEF ApplyNext
<1>2. ASSUME AgentsNext PROVE Sweeping'
  <2>1. ASSUME NEW b \in Step \cup {Outer}, NEW from, NEW to,
               \/ from = "open" /\ to \in {"in_progress", "closed"}
               \/ from = "in_progress" /\ to = "closed"
               \/ from = "closed" /\ to = "open",
               Work(b, from, to)
        PROVE  Sweeping'
    <3>1. \A s \in linked : status'[s] = status[s] \/ (s = b /\ status[s] = from /\ status'[s] = to)
      BY <2>1 DEF Work
    <3>2. UNCHANGED <<mol, linked>> /\ undone' = (undone \/ (from = "closed" /\ mol.at # "idle"))
      BY <2>1 DEF Work
    <3>3. CASE mol.at \in {"read", "each", "ended"} /\ ~undone'
      <4>1. from # "closed" /\ ~undone
        BY <3>2, <3>3
      <4>2. ASSUME NEW s \in linked \ (mol.todo \cup mol.open) PROVE status'[s] \in Swept(mol.op)
        BY <2>1, <3>1, <3>3, <4>1
      <4> QED
        BY <3>2, <4>2
    <3> QED
      BY <3>2, <3>3
  <2>2. ASSUME NEW s \in Step, Delete(s) PROVE Sweeping'
    BY <2>2 DEF Delete, Without
  <2>3. CASE Bond
    BY <2>3 DEF Bond
  <2> QED
    BY <1>2, <2>1, <2>2, <2>3 DEF AgentsNext
<1>3. ASSUME MolNext PROVE Sweeping'
  <2>1. ASSUME NEW op \in {"squash", "burn"}, StartMol(op) PROVE Sweeping'
    BY <2>1 DEF StartMol, MolGoes
  <2>2. CASE ReadChildren
    BY <2>2 DEF ReadChildren, MolGoes, Linking
  <2>3. CASE ReadChild
    <3>1. PICK s \in mol.todo :
            \/ /\ mol' = [mol EXCEPT !.todo = @ \ {s},
                            !.open = IF There(s) /\ status[s] # "closed" THEN @ \cup {s} ELSE @]
               /\ undone' = undone
            \/ mol' = [mol EXCEPT !.todo = @ \ {s}] /\ undone' = TRUE
      BY <2>3 DEF ReadChild, MolGoes
    <3>2. mol.at = "read" /\ mol.op = "squash" /\ UNCHANGED <<status, linked>>
      BY <2>3 DEF ReadChild, MolGoes
    <3>3. mol'.at = mol.at /\ mol'.op = mol.op /\ mol'.todo = mol.todo \ {s}
      <4>1. CASE mol' = [mol EXCEPT !.todo = @ \ {s}]
        BY <4>1
      <4>2. CASE mol' = [mol EXCEPT !.todo = @ \ {s},
                            !.open = IF There(s) /\ status[s] # "closed" THEN @ \cup {s} ELSE @]
        BY <4>2
      <4> QED
        BY <3>1, <4>1, <4>2
    <3>4. CASE ~undone'
      <4>1. /\ ~undone
            /\ mol'.open = IF There(s) /\ status[s] # "closed" THEN mol.open \cup {s} ELSE mol.open
        BY <3>1, <3>4
      <4>2. ASSUME NEW t \in linked \ (mol'.todo \cup mol'.open) PROVE status[t] \in {"closed", Gone}
        <5>1. CASE t = s
          BY <4>1, <5>1 DEF There
        <5>2. CASE t # s
          BY <3>2, <3>3, <4>1, <5>2
        <5> QED
          BY <5>1, <5>2
      <4> QED
        BY <3>2, <3>3, <4>2
    <3> QED
      BY <3>2, <3>3, <3>4
  <2>4. CASE Digest
    BY <2>4 DEF Digest, MolGoes
  <2>5. CASE MolFails
    BY <2>5 DEF MolFails, MolGoes
  <2>6. CASE CloseChild
    BY <2>6 DEF CloseChild
  <2>7. CASE DeleteChild
    BY <2>7 DEF DeleteChild, Without
  <2>8. CASE EndSquash
    BY <2>8 DEF EndSquash, Ending
  <2>9. CASE EndBurn
    BY <2>9 DEF EndBurn, Ending, Without
  <2> QED
    BY <1>3, <2>1, <2>2, <2>3, <2>4, <2>5, <2>6, <2>7, <2>8, <2>9 DEF MolNext
<1>4. CASE UNCHANGED moleculeVars
  BY <1>4 DEF moleculeVars
<1> QED
  BY <1>1, <1>2, <1>3, <1>4 DEF MoleculesNext

\* No bead, no link, and no command has started.
LEMMA MoleculesInitially == MoleculesInit => MoleculesIInv
<1> SUFFICES ASSUME MoleculesInit PROVE MoleculesIInv
  OBVIOUS
<1> USE DEF MoleculesInit
<1>1. status \in [Item -> {"open", "in_progress", "closed", Gone}]
  OBVIOUS
<1>2. apply \in [at : {"start", "create", "step", "parent", "done", "failed"},
                 steps : SUBSET Step, links : SUBSET (Step \X Step), skipped : SUBSET Step]
  OBVIOUS
<1>3. mol \in [op : {"squash", "burn"},
               at : {"idle", "children", "read", "each", "ended", "failed"},
               todo : SUBSET Step, open : SUBSET Step]
  OBVIOUS
<1>4. Linking /\ Sweeping
  BY DEF Linking, Sweeping
<1> QED
  BY <1>1, <1>2, <1>3, <1>4 DEF MoleculesIInv, MoleculesTypeOK

\* Every step of apply, of the agents and of burn or squash keeps it.
LEMMA MoleculesStep == MoleculesIInv /\ [MoleculesNext]_moleculeVars => MoleculesIInv'
BY MoleculesTypeKept, LinkingKept, SweepingKept DEF MoleculesIInv

\* When all children have been gone through, the molecule is done.
LEMMA MoleculesPromise == MoleculesIInv => MoleculesTypeOK /\ EndedMeansDone
BY DEF MoleculesIInv, Sweeping, Swept, EndedMeansDone

\* "deleting it and all child beads", "Closes all child beads": when burn or squash ends
\* without a failed call, no step that ever was a child is left, or left open (kd mol).
THEOREM MoleculesEndedMeansDone == MoleculesSpec => []EndedMeansDone
BY MoleculesInitially, MoleculesStep, MoleculesPromise, PTL DEF MoleculesSpec

\* What stands in the store of the formula's order: a dependency has both its beads,
\* a skipped step no bead; and while apply runs or has ended, a link between two
\* beads that are there is made, or is still to be made.
EndsThere == \A l \in blocks : There(l[1]) /\ There(l[2])

\* Steps left out by a condition have no bead.
Chosen ==
  /\ apply.at = "start" => \A s \in Step : status[s] = Gone
  /\ apply.steps \cap apply.skipped = {}
  /\ \A s \in apply.skipped : status[s] = Gone

\* Each link of the formula is made, still to be made, or has lost one of its beads.
Ordered ==
  apply.at \in {"create", "step", "parent", "done"} =>
    /\ \A l \in Links(apply.skipped) :
         l \in apply.links \/ l \in blocks \/ ~There(l[1]) \/ ~There(l[2])
    /\ apply.steps # {} => apply.links = Links(apply.skipped)
    /\ apply.at = "done" => apply.steps = {} /\ apply.links = {}

\* A dependency is added between two beads that are there, whether the call is
\* answered or not.
LEMMA LinkStepsCases ==
  ASSUME LinkSteps
  PROVE  \E l \in apply.links :
           /\ There(l[1]) /\ There(l[2])
           /\ blocks' = blocks \cup {l}
           /\ apply' = Failed \/ apply' = [apply EXCEPT !.links = @ \ {l}]
<1>1. \E l \in apply.links :
        /\ There(l[1]) /\ There(l[2])
        /\ blocks' = blocks \cup {l}
        /\ \E next \in {Failed, [apply EXCEPT !.links = @ \ {l}]} : apply' = next
  BY Zenon DEF LinkSteps
<1> QED
  BY <1>1

\* Deleting a bead takes its dependencies with it.
LEMMA EndsThereKept ==
  MoleculesTypeOK /\ EndsThere /\ [MoleculesNext]_moleculeVars => EndsThere'
<1> SUFFICES ASSUME MoleculesTypeOK, EndsThere, [MoleculesNext]_moleculeVars
             PROVE  EndsThere'
  OBVIOUS
<1> USE MoleculesAssumption DEF MoleculesTypeOK, Item, EndsThere, There
<1>1. ASSUME ApplyNext PROVE EndsThere'
  <2>1. CASE Resolve
    BY <2>1 DEF Resolve, Stays, Failed
  <2>2. CASE CreateMolecule
    BY <2>2 DEF CreateMolecule, Answer, ApplyGoes, Failed
  <2>3. CASE CreateStep
    BY <2>3 DEF CreateStep, Answer, ApplyGoes, Failed
  <2>4. CASE LinkParent
    BY <2>4 DEF LinkParent, Answer, Failed
  <2>5. CASE LinkSteps
    BY <2>5 DEF LinkSteps, Failed
  <2>6. CASE Applied
    BY <2>6 DEF Applied, ApplyGoes, Stays
  <2>7. CASE ApplyFails
    BY <2>7 DEF ApplyFails, ApplyGoes, Failed, Stays
  <2> QED
    BY <1>1, <2>1, <2>2, <2>3, <2>4, <2>5, <2>6, <2>7 DEF ApplyNext
<1>2. ASSUME AgentsNext PROVE EndsThere'
  <2>1. ASSUME NEW b \in Step \cup {Outer}, NEW from \in {"open", "in_progress", "closed"},
               NEW to \in {"open", "in_progress", "closed"}, Work(b, from, to)
        PROVE  EndsThere'
    BY <2>1 DEF Work
  <2>2. ASSUME NEW s \in Step, Delete(s) PROVE EndsThere'
    BY <2>2 DEF Delete, Without
  <2>3. CASE Bond
    BY <2>3 DEF Bond
  <2> QED
    BY <1>2, <2>1, <2>2, <2>3 DEF AgentsNext
<1>3. ASSUME MolNext PROVE EndsThere'
  <2>1. ASSUME NEW op \in {"squash", "burn"}, StartMol(op) PROVE EndsThere'
    BY <2>1 DEF StartMol, MolGoes
  <2>2. CASE ReadChildren
    BY <2>2 DEF ReadChildren, MolGoes
  <2>3. CASE ReadChild
    BY <2>3 DEF ReadChild, MolGoes
  <2>4. CASE Digest
    BY <2>4 DEF Digest, MolGoes
  <2>5. CASE MolFails
    BY <2>5 DEF MolFails, MolGoes
  <2>6. CASE CloseChild
    BY <2>6 DEF CloseChild
  <2>7. CASE DeleteChild
    BY <2>7 DEF DeleteChild, Without
  <2>8. CASE EndSquash
    BY <2>8 DEF EndSquash, Ending
  <2>9. CASE EndBurn
    BY <2>9 DEF EndBurn, Ending, Without
  <2> QED
    BY <1>3, <2>1, <2>2, <2>3, <2>4, <2>5, <2>6, <2>7, <2>8, <2>9 DEF MolNext
<1>4. CASE UNCHANGED moleculeVars
  BY <1>4 DEF moleculeVars
<1> QED
  BY <1>1, <1>2, <1>3, <1>4 DEF MoleculesNext


\* The steps left out stay left out.
LEMMA ChosenKept ==
  MoleculesTypeOK /\ Linking /\ Chosen /\ [MoleculesNext]_moleculeVars => Chosen'
<1> SUFFICES ASSUME MoleculesTypeOK, Linking, Chosen, [MoleculesNext]_moleculeVars
             PROVE  Chosen'
  OBVIOUS
<1> USE MoleculesAssumption DEF MoleculesTypeOK, Item, Chosen
<1>1. ASSUME ApplyNext PROVE Chosen'
  <2>1. CASE Resolve
    <3>1. PICK given \in Given :
            \/ apply' = [at |-> "create", steps |-> Step \ Skipped(Bound(given)),
                         links |-> Links(Skipped(Bound(given))), skipped |-> Skipped(Bound(given))]
            \/ apply' = Failed
      BY <2>1 DEF Resolve
    <3> DEFINE k == Skipped(Bound(given))
    <3>2. k \subseteq Step
      BY DEF Skipped
    <3> HIDE DEF k
    <3>3. \/ apply'.steps = Step \ k /\ apply'.skipped = k /\ apply'.at = "create"
          \/ apply'.steps = {} /\ apply'.skipped = apply.skipped /\ apply'.at = "failed"
      <4>1. CASE apply' = Failed
        BY <4>1 DEF Failed
      <4>2. CASE apply' = [at |-> "create", steps |-> Step \ k, links |-> Links(k), skipped |-> k]
        BY <4>2
      <4> QED
        BY <3>1, <4>1, <4>2 DEF k
    <3> QED
      BY <2>1, <3>2, <3>3 DEF Resolve, Stays
  <2>2. CASE CreateMolecule
    BY <2>2 DEF CreateMolecule, Answer, ApplyGoes, Failed
  <2>3. CASE CreateStep
    <3>1. NextStep \in apply.steps /\ NextStep \notin apply.skipped
      BY <2>3, FirstIsOne DEF CreateStep, NextStep
    <3>2. /\ apply'.skipped = apply.skipped /\ apply'.at # "start"
          /\ apply'.steps = {} \/ apply'.steps = apply.steps
      BY <2>3 DEF CreateStep, Answer, ApplyGoes, Failed
    <3>3. \A s \in Step : s # NextStep => status'[s] = status[s]
      BY <2>3 DEF CreateStep
    <3> QED
      BY <3>1, <3>2, <3>3
  <2>4. CASE LinkParent
    BY <2>4 DEF LinkParent, Answer, Failed
  <2>5. CASE LinkSteps
    <3>1. apply.at = "step" /\ UNCHANGED status
      BY <2>5, Zenon DEF LinkSteps
    <3>2. PICK l \in apply.links : apply' = Failed \/ apply' = [apply EXCEPT !.links = @ \ {l}]
      BY <2>5, LinkStepsCases
    <3>3. /\ apply'.skipped = apply.skipped /\ apply'.at # "start"
          /\ apply'.steps = {} \/ apply'.steps = apply.steps
      <4>1. CASE apply' = Failed
        BY <4>1 DEF Failed
      <4>2. CASE apply' = [apply EXCEPT !.links = @ \ {l}]
        BY <3>1, <4>2
      <4> QED
        BY <3>2, <4>1, <4>2
    <3> QED
      BY <3>1, <3>3
  <2>6. CASE Applied
    BY <2>6 DEF Applied, ApplyGoes, Stays
  <2>7. CASE ApplyFails
    BY <2>7 DEF ApplyFails, ApplyGoes, Failed, Stays
  <2> QED
    BY <1>1, <2>1, <2>2, <2>3, <2>4, <2>5, <2>6, <2>7 DEF ApplyNext
<1>2. ASSUME AgentsNext PROVE Chosen'
  <2>1. ASSUME NEW b \in Step \cup {Outer}, NEW from \in {"open", "in_progress", "closed"},
               NEW to \in {"open", "in_progress", "closed"}, Work(b, from, to)
        PROVE  Chosen'
    BY <2>1 DEF Work
  <2>2. ASSUME NEW s \in Step, Delete(s) PROVE Chosen'
    BY <2>2 DEF Delete, Without
  <2>3. CASE Bond
    BY <2>3 DEF Bond
  <2> QED
    BY <1>2, <2>1, <2>2, <2>3 DEF AgentsNext
<1>3. ASSUME MolNext PROVE Chosen'
  <2>1. ASSUME NEW op \in {"squash", "burn"}, StartMol(op) PROVE Chosen'
    BY <2>1 DEF StartMol, MolGoes
  <2>2. CASE ReadChildren
    BY <2>2 DEF ReadChildren, MolGoes
  <2>3. CASE ReadChild
    BY <2>3 DEF ReadChild, MolGoes
  <2>4. CASE Digest
    BY <2>4 DEF Digest, MolGoes
  <2>5. CASE MolFails
    BY <2>5 DEF MolFails, MolGoes
  <2>6. CASE CloseChild
    BY <2>6 DEF CloseChild, There
  <2>7. CASE DeleteChild
    BY <2>7 DEF DeleteChild, Without
  <2>8. CASE EndSquash
    BY <2>8 DEF EndSquash, Ending
  <2>9. CASE EndBurn
    BY <2>9 DEF EndBurn, Ending, Without
  <2> QED
    BY <1>3, <2>1, <2>2, <2>3, <2>4, <2>5, <2>6, <2>7, <2>8, <2>9 DEF MolNext
<1>4. CASE UNCHANGED moleculeVars
  BY <1>4 DEF moleculeVars
<1> QED
  BY <1>1, <1>2, <1>3, <1>4 DEF MoleculesNext


\* Apply makes the links left to it before it ends.
LEMMA OrderedKept ==
  MoleculesTypeOK /\ Linking /\ Ordered /\ [MoleculesNext]_moleculeVars => Ordered'
<1> SUFFICES ASSUME MoleculesTypeOK, Linking, Ordered, [MoleculesNext]_moleculeVars
             PROVE  Ordered'
  OBVIOUS
<1> USE MoleculesAssumption DEF MoleculesTypeOK, Item, Ordered, Links, There
<1>1. ASSUME ApplyNext PROVE Ordered'
  <2>1. CASE Resolve
    BY <2>1 DEF Resolve, Stays, Failed
  <2>2. CASE CreateMolecule
    BY <2>2 DEF CreateMolecule, Answer, ApplyGoes, Failed
  <2>3. CASE CreateStep
    BY <2>3 DEF CreateStep, Answer, ApplyGoes, Failed
  <2>4. CASE LinkParent
    BY <2>4 DEF LinkParent, Answer, Failed
  <2>5. CASE LinkSteps
    <3>1. apply.at = "step" /\ apply.steps = {} /\ UNCHANGED status
      BY <2>5, Zenon DEF LinkSteps
    <3>2. PICK l \in apply.links :
            blocks' = blocks \cup {l} /\ (apply' = Failed \/ apply' = [apply EXCEPT !.links = @ \ {l}])
      BY <2>5, LinkStepsCases
    <3>3. CASE apply' = Failed
      BY <3>3 DEF Failed
    <3>4. CASE apply' = [apply EXCEPT !.links = @ \ {l}]
      <4>1. /\ apply'.at = "step" /\ apply'.steps = {} /\ apply'.skipped = apply.skipped
            /\ apply'.links = apply.links \ {l}
        BY <3>1, <3>4
      <4> QED
        BY <3>1, <3>2, <4>1
    <3> QED
      BY <3>2, <3>3, <3>4
  <2>6. CASE Applied
    BY <2>6 DEF Applied, ApplyGoes, Stays
  <2>7. CASE ApplyFails
    BY <2>7 DEF ApplyFails, ApplyGoes, Failed, Stays
  <2> QED
    BY <1>1, <2>1, <2>2, <2>3, <2>4, <2>5, <2>6, <2>7 DEF ApplyNext
<1>2. ASSUME AgentsNext PROVE Ordered'
  <2>1. ASSUME NEW b \in Step \cup {Outer}, NEW from \in {"open", "in_progress", "closed"},
               NEW to \in {"open", "in_progress", "closed"}, Work(b, from, to)
        PROVE  Ordered'
    BY <2>1 DEF Work
  <2>2. ASSUME NEW s \in Step, Delete(s) PROVE Ordered'
    BY <2>2 DEF Delete, Without
  <2>3. CASE Bond
    BY <2>3 DEF Bond
  <2> QED
    BY <1>2, <2>1, <2>2, <2>3 DEF AgentsNext
<1>3. ASSUME MolNext PROVE Ordered'
  <2>1. ASSUME NEW op \in {"squash", "burn"}, StartMol(op) PROVE Ordered'
    BY <2>1 DEF StartMol, MolGoes
  <2>2. CASE ReadChildren
    BY <2>2 DEF ReadChildren, MolGoes
  <2>3. CASE ReadChild
    BY <2>3 DEF ReadChild, MolGoes
  <2>4. CASE Digest
    BY <2>4 DEF Digest, MolGoes
  <2>5. CASE MolFails
    BY <2>5 DEF MolFails, MolGoes
  <2>6. CASE CloseChild
    BY <2>6 DEF CloseChild
  <2>7. CASE DeleteChild
    <3>1. UNCHANGED apply
      BY <2>7 DEF DeleteChild
    <3>2. CASE UNCHANGED <<status, blocks>>
      BY <3>1, <3>2
    <3>3. CASE \E s \in mol.todo : Without(s)
      BY <3>1, <3>3 DEF Without
    <3> QED
      BY <2>7, <3>2, <3>3 DEF DeleteChild
  <2>8. CASE EndSquash
    BY <2>8 DEF EndSquash, Ending
  <2>9. CASE EndBurn
    BY <2>9 DEF EndBurn, Ending, Without
  <2> QED
    BY <1>3, <2>1, <2>2, <2>3, <2>4, <2>5, <2>6, <2>7, <2>8, <2>9 DEF MolNext
<1>4. CASE UNCHANGED moleculeVars
  BY <1>4 DEF moleculeVars
<1> QED
  BY <1>1, <1>2, <1>3, <1>4 DEF MoleculesNext

\* A request is at one of its reads, and between two requests nothing is relied upon.
Reading ==
  /\ query.at = "idle" => ~query.settled /\ ~query.still
  /\ query.todo \subseteq query.listed
  /\ query.at = "deps" => query.bead \in query.listed \ query.todo

\* While nothing changed: what was found so far is what there is.
FoundSoFar ==
  query.still =>
    /\ \A b \in query.listed : status[b] = "open"
    /\ query.at = "beads" => query.ready = {b \in query.listed \ query.todo : IsReady(b)}
    /\ query.at = "deps" =>
         /\ query.deps \subseteq Blockers(query.bead)
         /\ \A p \in Blockers(query.bead) \ query.deps : status[p] = "closed"
         /\ query.ready = {b \in query.listed \ (query.todo \cup {query.bead}) : IsReady(b)}
    /\ query.at = "answered" => query.ready = {b \in query.listed : IsReady(b)}

\* The steps it needs are closed or deleted, all but some.
Satisfied(s, but) == \A p \in Needs[s] \ apply.skipped : status[p] \in {"closed", Gone} \/ p \in but
\* After the formula was applied: what the request found ready waits for nothing
\* that is there.
InOrder ==
  query.settled =>
    /\ apply.at = "done"
    /\ \A s \in query.ready \cap Step : There(s) => Satisfied(s, {})
    /\ query.at = "deps" /\ query.bead \in Step /\ There(query.bead) => Satisfied(query.bead, query.deps)

\* What carries an answer: the store in order, and what the request found so far.
ReadyIInv ==
  /\ MoleculesTypeOK /\ Linking /\ EndsThere /\ Chosen /\ Ordered
  /\ query \in Query /\ Reading /\ FoundSoFar /\ InOrder


\* A step of the request is a step of the molecule, or leaves it alone.
LEMMA ReadyStepsMolecules == [ReadyNext]_readyVars => [MoleculesNext]_moleculeVars
BY DEF ReadyNext, readyVars, ListOpen, GetDependencies, QueryFails, GetBlocker, NotBlocked,
       AnswerReady, AskAgain, Meanwhile, MoleculesNext

\* The request reads one bead after the other.
LEMMA ReadingKept ==
  query \in Query /\ MoleculesTypeOK /\ Reading /\ [ReadyNext]_readyVars => query' \in Query /\ Reading'
<1> SUFFICES ASSUME query \in Query, MoleculesTypeOK, Reading, [ReadyNext]_readyVars
             PROVE  query' \in Query /\ Reading'
  OBVIOUS
<1> USE DEF Query, Reading, NoQuery
<1>0. \A b : Blockers(b) \subseteq Item
  BY DEF Blockers, MoleculesTypeOK
<1>1. CASE ListOpen
  <2>1. PICK L \in SUBSET Item :
          query' = [NoQuery EXCEPT !.at = "beads", !.todo = L, !.listed = L,
                                   !.settled = apply.at = "done", !.still = TRUE]
    BY <1>1 DEF ListOpen, OpenItems
  <2> QED
    BY <2>1
<1>2. CASE GetDependencies
  <2>1. PICK b \in query.todo :
          query' = [query EXCEPT !.at = "deps", !.todo = @ \ {b}, !.bead = b, !.deps = Blockers(b)]
    BY <1>2 DEF GetDependencies
  <2> QED
    BY <1>0, <2>1
<1>3. CASE QueryFails
  BY <1>3 DEF QueryFails
<1>4. CASE GetBlocker
  <2>1. PICK p \in query.deps :
          \/ query' = [query EXCEPT !.at = "beads", !.deps = {}]
          \/ query' = [query EXCEPT !.deps = @ \ {p}]
          \/ query' = [query EXCEPT !.deps = @ \ {p}, !.settled = FALSE, !.still = FALSE]
    BY <1>4 DEF GetBlocker
  <2>2. query.at = "deps"
    BY <1>4 DEF GetBlocker
  <2>3. CASE query' = [query EXCEPT !.at = "beads", !.deps = {}]
    BY <2>2, <2>3
  <2>4. CASE query' # [query EXCEPT !.at = "beads", !.deps = {}]
    <3>1. query.deps \ {p} \in SUBSET Item
      OBVIOUS
    <3>2. CASE query' = [query EXCEPT !.deps = @ \ {p}]
      BY <2>2, <3>1, <3>2
    <3>3. CASE query' = [query EXCEPT !.deps = @ \ {p}, !.settled = FALSE, !.still = FALSE]
      BY <2>2, <3>1, <3>3
    <3> QED
      BY <2>1, <2>4, <3>2, <3>3
  <2> QED
    BY <2>3, <2>4
<1>5. CASE NotBlocked
  BY <1>5 DEF NotBlocked
<1>6. CASE AnswerReady
  BY <1>6 DEF AnswerReady
<1>7. CASE AskAgain
  BY <1>7 DEF AskAgain
<1>8. CASE Meanwhile
  <2>1. \/ query' = query
        \/ query.at # "idle" /\ query' = [query EXCEPT !.still = FALSE, !.settled = @ /\ ~Reopens]
    BY <1>8 DEF Meanwhile
  <2> QED
    BY <2>1
<1>9. CASE UNCHANGED readyVars
  BY <1>9 DEF readyVars
<1> QED
  BY <1>1, <1>2, <1>3, <1>4, <1>5, <1>6, <1>7, <1>8, <1>9 DEF ReadyNext

\* While nothing changes, what was found remains what there is.
LEMMA FoundSoFarKept ==
  query \in Query /\ MoleculesTypeOK /\ EndsThere /\ Reading /\ FoundSoFar /\ [ReadyNext]_readyVars => FoundSoFar'
<1> SUFFICES ASSUME query \in Query, MoleculesTypeOK, EndsThere, Reading, FoundSoFar, [ReadyNext]_readyVars,
                    query'.still
             PROVE  FoundSoFar'
  BY DEF FoundSoFar
<1> USE DEF Query, Reading, FoundSoFar, Blockers, IsReady
<1>1. CASE ListOpen
  <2>1. PICK L \in SUBSET OpenItems :
          query' = [NoQuery EXCEPT !.at = "beads", !.todo = L, !.listed = L,
                                   !.settled = apply.at = "done", !.still = TRUE]
    BY <1>1 DEF ListOpen
  <2>2. UNCHANGED <<status, blocks>>
    BY <1>1 DEF ListOpen, moleculeVars
  <2> QED
    BY <2>1, <2>2 DEF NoQuery, OpenItems
<1>2. CASE GetDependencies
  <2>1. PICK b \in query.todo :
          query' = [query EXCEPT !.at = "deps", !.todo = @ \ {b}, !.bead = b, !.deps = Blockers(b)]
    BY <1>2 DEF GetDependencies
  <2>2. query.at = "beads" /\ UNCHANGED <<status, blocks>>
    BY <1>2 DEF GetDependencies, moleculeVars
  <2>3. /\ query'.at = "deps" /\ query'.todo = query.todo \ {b} /\ query'.bead = b
        /\ query'.deps = Blockers(b) /\ query'.listed = query.listed /\ query'.ready = query.ready
        /\ query.still
    BY <2>1
  <2>4. query.listed \ query.todo = query'.listed \ (query'.todo \cup {b})
    BY <2>1, <2>3
  <2> QED
    BY <2>2, <2>3, <2>4
<1>3. CASE QueryFails
  BY <1>3 DEF QueryFails, NoQuery
<1>4. CASE GetBlocker
  <2>0. query.at = "deps" /\ UNCHANGED <<status, blocks>>
    BY <1>4 DEF GetBlocker, moleculeVars
  <2>1. PICK p \in query.deps :
          \/ /\ status[p] \notin {"closed", Gone}
             /\ query' = [query EXCEPT !.at = "beads", !.deps = {}]
          \/ /\ status[p] \in {"closed", Gone}
             /\ query' = [query EXCEPT !.deps = @ \ {p}]
    BY <1>4 DEF GetBlocker
  <2>2. query.still
    BY <2>1
  <2>3. PICK l \in blocks : l[1] = query.bead /\ l[2] = p
    BY <2>0, <2>1, <2>2
  <2>4. There(p)
    BY <2>3 DEF EndsThere
  <2>5. CASE query' = [query EXCEPT !.at = "beads", !.deps = {}] /\ status[p] # "closed"
    <3>1. ~IsReady(query.bead)
      BY <2>0, <2>1, <2>2, <2>5
    <3>2. /\ query'.at = "beads" /\ query'.listed = query.listed /\ query'.todo = query.todo
          /\ query'.ready = query.ready
      BY <2>5
    <3>3. {b \in query.listed \ query.todo : IsReady(b)}
            = {b \in query.listed \ (query.todo \cup {query.bead}) : IsReady(b)}
      BY <3>1
    <3> QED
      BY <2>0, <2>2, <3>2, <3>3
  <2>6. CASE query' = [query EXCEPT !.deps = @ \ {p}] /\ status[p] = "closed"
    BY <2>0, <2>2, <2>6
  <2> QED
    BY <2>1, <2>4, <2>5, <2>6 DEF There
<1>5. CASE NotBlocked
  <2>1. /\ query.at = "deps" /\ query.deps = {} /\ UNCHANGED <<status, blocks>>
        /\ query'.at = "beads" /\ query'.listed = query.listed /\ query'.todo = query.todo
        /\ query'.ready = query.ready \cup {query.bead} /\ query.still
    BY <1>5 DEF NotBlocked, moleculeVars
  <2>2. IsReady(query.bead)
    BY <2>1
  <2>3. {b \in query.listed \ query.todo : IsReady(b)}
          = {b \in query.listed \ (query.todo \cup {query.bead}) : IsReady(b)} \cup {query.bead}
    BY <2>1, <2>2
  <2> QED
    BY <2>1, <2>3
<1>6. CASE AnswerReady
  <2>1. /\ query.at = "beads" /\ query.todo = {} /\ UNCHANGED <<status, blocks>>
        /\ query'.at = "answered" /\ query'.listed = query.listed
        /\ query'.ready = query.ready /\ query.still
    BY <1>6 DEF AnswerReady, moleculeVars
  <2> QED
    BY <2>1
<1>7. CASE AskAgain
  BY <1>7 DEF AskAgain, NoQuery
<1>8. CASE Meanwhile
  <2>1. query' = query /\ (query.at = "idle" \/ UNCHANGED <<status, blocks>>)
    BY <1>8 DEF Meanwhile
  <2> QED
    BY <2>1
<1>9. CASE UNCHANGED readyVars
  BY <1>9 DEF readyVars, moleculeVars
<1> QED
  BY <1>1, <1>2, <1>3, <1>4, <1>5, <1>6, <1>7, <1>8, <1>9 DEF ReadyNext

\* A formula that was applied stays applied, and a deleted bead is not created again.
LEMMA AppliedForGood ==
  MoleculesTypeOK /\ apply.at = "done" /\ [MoleculesNext]_moleculeVars =>
    UNCHANGED apply /\ \A s \in Step : status[s] = Gone => status'[s] = Gone
<1> SUFFICES ASSUME MoleculesTypeOK, apply.at = "done", [MoleculesNext]_moleculeVars
             PROVE  UNCHANGED apply /\ \A s \in Step : status[s] = Gone => status'[s] = Gone
  OBVIOUS
<1> USE MoleculesAssumption DEF MoleculesTypeOK, Item
<1>1. ~ApplyNext
  BY DEF ApplyNext, Resolve, CreateMolecule, CreateStep, LinkParent, LinkSteps, Applied, ApplyFails
<1>2. ASSUME AgentsNext PROVE UNCHANGED apply /\ \A s \in Step : status[s] = Gone => status'[s] = Gone
  <2>1. ASSUME NEW b \in Step \cup {Outer}, NEW from \in {"open", "in_progress", "closed"},
               NEW to \in {"open", "in_progress", "closed"}, Work(b, from, to)
        PROVE  UNCHANGED apply /\ \A s \in Step : status[s] = Gone => status'[s] = Gone
    BY <2>1 DEF Work
  <2>2. ASSUME NEW s \in Step, Delete(s)
        PROVE  UNCHANGED apply /\ \A t \in Step : status[t] = Gone => status'[t] = Gone
    BY <2>2 DEF Delete, Without
  <2> QED
    BY <1>2, <2>1, <2>2 DEF AgentsNext, Bond
<1>3. ASSUME MolNext PROVE UNCHANGED apply /\ \A s \in Step : status[s] = Gone => status'[s] = Gone
  <2>1. CASE CloseChild
    BY <2>1 DEF CloseChild, There
  <2>2. CASE DeleteChild
    BY <2>2 DEF DeleteChild, Without
  <2>3. CASE EndSquash
    BY <2>3 DEF EndSquash, Ending
  <2>4. CASE EndBurn
    BY <2>4 DEF EndBurn, Ending, Without
  <2> QED
    BY <1>3, <2>1, <2>2, <2>3, <2>4
       DEF MolNext, StartMol, ReadChildren, ReadChild, Digest, MolFails, MolGoes
<1> QED
  BY <1>1, <1>2, <1>3 DEF MoleculesNext, moleculeVars

\* Whatever closes, is bonded or is deleted while the request reads, a step found
\* ready stays ready unless something is reopened.
LEMMA InOrderKept ==
  ASSUME query \in Query, MoleculesTypeOK, EndsThere, Chosen, Ordered, Reading, InOrder,
         [ReadyNext]_readyVars, query'.settled
  PROVE  InOrder'
<1> USE MoleculesAssumption DEF Query, InOrder, Satisfied
<1>1. CASE ListOpen
  <2>1. query' = [NoQuery EXCEPT !.at = "beads", !.todo = query'.todo, !.listed = query'.listed,
                                 !.settled = apply.at = "done", !.still = TRUE]
    BY <1>1 DEF ListOpen, NoQuery
  <2>2. query'.ready = {} /\ query'.at = "beads" /\ apply.at = "done" /\ UNCHANGED moleculeVars
    BY <1>1, <2>1 DEF ListOpen, NoQuery
  <2> QED
    BY <2>2 DEF moleculeVars
<1>2. CASE GetDependencies
  <2>1. PICK b \in query.todo :
          query' = [query EXCEPT !.at = "deps", !.todo = @ \ {b}, !.bead = b, !.deps = Blockers(b)]
    BY <1>2 DEF GetDependencies
  <2>2. UNCHANGED <<status, blocks, apply>>
    BY <1>2 DEF GetDependencies, moleculeVars
  <2>3. /\ query'.bead = b /\ query'.deps = Blockers(b) /\ query'.ready = query.ready
        /\ query.settled
    BY <2>1
  <2>4. ASSUME b \in Step, There(b), NEW p \in Needs[b] \ apply.skipped
        PROVE  status[p] \in {"closed", Gone} \/ p \in Blockers(b)
    <3>1. b \notin apply.skipped
      BY <2>4 DEF Chosen, There
    <3>2. <<b, p>> \in Links(apply.skipped)
      BY <2>4, <3>1 DEF Links
    <3>3. <<b, p>> \in blocks \/ ~There(p)
      BY <2>3, <2>4, <3>2 DEF Ordered
    <3>4. <<b, p>> \in blocks => p \in Blockers(b)
      BY DEF Blockers
    <3> QED
      BY <3>3, <3>4 DEF There
  <2> QED
    BY <2>2, <2>3, <2>4 DEF There
<1>3. CASE QueryFails
  BY <1>3 DEF QueryFails, NoQuery
<1>4. CASE GetBlocker
  <2>0. query.at = "deps" /\ UNCHANGED <<status, blocks, apply>>
    BY <1>4 DEF GetBlocker, moleculeVars
  <2>1. PICK p \in query.deps :
          \/ query' = [query EXCEPT !.at = "beads", !.deps = {}]
          \/ /\ status[p] \in {"closed", Gone}
             /\ query' = [query EXCEPT !.deps = @ \ {p}]
    BY <1>4 DEF GetBlocker
  <2>2. query.settled /\ query'.ready = query.ready /\ query'.bead = query.bead
    <3>1. CASE query' = [query EXCEPT !.at = "beads", !.deps = {}]
      BY <3>1
    <3>2. CASE query' = [query EXCEPT !.deps = @ \ {p}]
      BY <3>2
    <3> QED
      BY <2>1, <3>1, <3>2
  <2>3. query'.at = "deps" => query'.deps = query.deps \ {p} /\ status[p] \in {"closed", Gone}
    <3>1. CASE query' = [query EXCEPT !.at = "beads", !.deps = {}]
      BY <3>1
    <3>2. CASE status[p] \in {"closed", Gone} /\ query' = [query EXCEPT !.deps = @ \ {p}]
      BY <3>2
    <3> QED
      BY <2>1, <3>1, <3>2
  <2> QED
    BY <2>0, <2>2, <2>3 DEF There
<1>5. CASE NotBlocked
  <2>1. /\ query.at = "deps" /\ query.deps = {} /\ UNCHANGED <<status, blocks, apply>>
        /\ query'.at = "beads" /\ query'.ready = query.ready \cup {query.bead} /\ query.settled
    BY <1>5 DEF NotBlocked, moleculeVars
  <2> QED
    BY <2>1 DEF There
<1>6. CASE AnswerReady
  <2>1. /\ UNCHANGED <<status, blocks, apply>>
        /\ query'.at = "answered" /\ query'.ready = query.ready /\ query.settled
    BY <1>6 DEF AnswerReady, moleculeVars
  <2> QED
    BY <2>1 DEF There
<1>7. CASE AskAgain
  BY <1>7 DEF AskAgain, NoQuery
<1>8. CASE Meanwhile
  <2>1. \/ query' = query
        \/ query' = [query EXCEPT !.still = FALSE, !.settled = @ /\ ~Reopens]
    BY <1>8 DEF Meanwhile
  <2>2. query.settled /\ apply.at = "done"
    BY <2>1
  <2>3. UNCHANGED apply /\ \A s \in Step : status[s] = Gone => status'[s] = Gone
    BY <2>2, ReadyStepsMolecules, AppliedForGood
  <2>4. /\ query'.at = query.at /\ query'.ready = query.ready
        /\ query'.bead = query.bead /\ query'.deps = query.deps
    <3>1. CASE query' = query
      BY <3>1
    <3>2. CASE query' = [query EXCEPT !.still = FALSE, !.settled = @ /\ ~Reopens]
      BY <3>2
    <3> QED
      BY <2>1, <3>1, <3>2
  <2>5. \A s \in Step : status[s] = "closed" => status'[s] \in {"closed", Gone}
    <3>1. CASE UNCHANGED <<status, blocks>>
      BY <3>1
    <3>2. CASE ~UNCHANGED <<status, blocks>>
      <4>1. query' = [query EXCEPT !.still = FALSE, !.settled = @ /\ ~Reopens]
        BY <1>8, <2>2, <3>2 DEF Meanwhile, Reading
      <4>2. ~Reopens
        BY <4>1
      <4> QED
        BY <4>2 DEF Reopens, Item
    <3> QED
      BY <3>1, <3>2
  <2>6. Needs \in [Step -> SUBSET Step]
    OBVIOUS
  <2>7. \A p \in Step : status[p] \in {"closed", Gone} => status'[p] \in {"closed", Gone}
    BY <2>3, <2>5
  <2>8. ASSUME NEW s \in query.ready \cap Step, status'[s] # Gone
        PROVE  \A p \in Needs[s] \ apply.skipped : status'[p] \in {"closed", Gone}
    <3>1. \A p \in Needs[s] \ apply.skipped : p \in Step /\ status[p] \in {"closed", Gone}
      BY <2>2, <2>3, <2>6, <2>8 DEF There
    <3> QED
      BY <2>7, <3>1
  <2>9. ASSUME query.at = "deps", query.bead \in Step, status'[query.bead] # Gone
        PROVE  \A p \in Needs[query.bead] \ apply.skipped : status'[p] \in {"closed", Gone} \/ p \in query.deps
    <3>1. \A p \in Needs[query.bead] \ apply.skipped :
            p \in Step /\ (status[p] \in {"closed", Gone} \/ p \in query.deps)
      BY <2>2, <2>3, <2>6, <2>9 DEF There
    <3> QED
      BY <2>7, <3>1
  <2> QED
    BY <2>2, <2>3, <2>4, <2>8, <2>9 DEF There
<1>9. CASE UNCHANGED readyVars
  BY <1>9 DEF readyVars, moleculeVars, There
<1> QED
  BY <1>1, <1>2, <1>3, <1>4, <1>5, <1>6, <1>7, <1>8, <1>9 DEF ReadyNext

\* No request has been made.
LEMMA ReadyInitially == ReadyInit => ReadyIInv
<1> SUFFICES ASSUME ReadyInit PROVE ReadyIInv
  OBVIOUS
<1>1. MoleculesTypeOK /\ Linking
  BY MoleculesInitially DEF ReadyInit, MoleculesIInv
<1>2. EndsThere /\ Chosen /\ Ordered
  BY MoleculesAssumption DEF ReadyInit, MoleculesInit, EndsThere, Chosen, Ordered, Item
<1>3. query \in Query /\ Reading /\ FoundSoFar /\ InOrder
  BY DEF ReadyInit, NoQuery, Query, Reading, FoundSoFar, InOrder
<1> QED
  BY <1>1, <1>2, <1>3 DEF ReadyIInv

\* Every step of a request, and of what happens meanwhile, keeps it.
LEMMA ReadyStep == ReadyIInv /\ [ReadyNext]_readyVars => ReadyIInv'
<1> SUFFICES ASSUME ReadyIInv, [ReadyNext]_readyVars PROVE ReadyIInv'
  OBVIOUS
<1>1. MoleculesTypeOK' /\ Linking' /\ EndsThere' /\ Chosen' /\ Ordered'
  BY ReadyStepsMolecules, MoleculesTypeKept, LinkingKept, EndsThereKept, ChosenKept, OrderedKept
     DEF ReadyIInv
<1>2. query' \in Query /\ Reading' /\ FoundSoFar'
  BY ReadingKept, FoundSoFarKept DEF ReadyIInv
<1>3. InOrder'
  BY InOrderKept DEF ReadyIInv, InOrder
<1> QED
  BY <1>1, <1>2, <1>3 DEF ReadyIInv

\* When all listed beads have been gone through, what was found is the answer.
LEMMA ReadyPromise == ReadyIInv => ReadyIsExact /\ StepsInOrder
<1>1. ReadyIInv => ReadyIsExact
  BY DEF ReadyIInv, FoundSoFar, ReadyIsExact
<1>2. ReadyIInv => StepsInOrder
  BY DEF ReadyIInv, InOrder, Satisfied, StepsInOrder
<1> QED
  BY <1>1, <1>2

\* The invariant holds at all times.
LEMMA ReadyIInvHolds == ReadySpec => []ReadyIInv
BY ReadyInitially, ReadyStep, PTL DEF ReadySpec

\* "Returns beads that are open and have no unsatisfied blocking dependencies": an answer
\* during which nothing changed says so of exactly those (handleGetReady reads them one by one).
THEOREM ReadyReadyIsExact == ReadySpec => []ReadyIsExact
BY ReadyPromise, ReadyIInvHolds, PTL

\* A request made after the formula was applied reports a step only when the steps it
\* needs are closed or deleted, whatever happens while it reads (handleGetReady, runFormulaApply).
THEOREM ReadyStepsInOrder == ReadySpec => []StepsInOrder
BY ReadyPromise, ReadyIInvHolds, PTL
=============================================================================
