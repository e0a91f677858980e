----------------------------- MODULE MCFormulas -----------------------------
(* One formula and its editors, for TLC. *)
EXTENDS Formulas

FormulaStep(id, needs) == [id |-> id, titled |-> TRUE, needs |-> needs]
MCFiles ==
  {[vars |-> {"v"}, roles |-> <<>>, steps |-> <<FormulaStep("a", {}), FormulaStep("b", {"a"})>>],
   [vars |-> {}, roles |-> <<>>, steps |-> <<FormulaStep("a", {})>>],
   [vars |-> {}, roles |-> <<>>, steps |-> <<FormulaStep("a", {}), FormulaStep("a", {})>>]}

Spec == FormulasInit /\ [][FormulasNext]_formulaVars
=============================================================================
