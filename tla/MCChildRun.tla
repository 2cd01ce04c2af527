----------------------------- MODULE MCChildRun ------------------------------
(***************************************************************************)
(* Small instances of ChildRun: two schema children.  One works in a       *)
(* worktree and has two tool calls in flight; the other never submits, but *)
(* opens and closes its scope around the first one's.                      *)
(***************************************************************************)
EXTENDS ChildRun, TLC

CONSTANTS a, b, t1, t2

OneSubmits == [c \in Children |-> IF c = a THEN 3 ELSE 0]

Alike == Permutations({t1, t2})
=============================================================================
