---------------------------- MODULE MCRuleState ----------------------------
(* Small instances of RuleState for TLC. *)
EXTENDS RuleState, TLC

CONSTANTS r1, r2, c1, c2, c3

Lifecycle == {"start", "stop"}

\* With one rule Bootstrap and ValidateAndRun take the same steps.
Signals == ActionSignal \cup {"upsertStopped"}
Updates == {"start", "stop", "bootstrap", "setRule", "delete"}

Symmetry == Permutations(Callers)
=============================================================================
