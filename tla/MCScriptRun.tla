------------------------------ MODULE MCScriptRun ------------------------------
(* A small instance of ScriptRun: a run of two items at a time, one of      *)
(* which may be a nested script with one item of its own.                   *)
EXTENDS ScriptRun, TLC

CONSTANTS root, nested, r1, r2, n1

TwoAndOne == (root :> {r1, r2}) @@ (nested :> {n1})
AllAndAwait == (root :> CallForms) @@ (nested :> {"await"})
ItemSymmetry == Permutations({r1, r2})
=============================================================================
