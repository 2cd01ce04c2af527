-------------------------- MODULE MCAgentExecution --------------------------
(***************************************************************************)
(* Small instances of AgentExecution: calls that share one slot and one    *)
(* frame, the agent cap one below the number of calls where there are      *)
(* three, and a budget one child can spend.                                *)
(***************************************************************************)
EXTENDS AgentExecution, TLC

CONSTANTS c1, c2, c3, root, nested, fp1, fp2

OneFrame == [c \in Calls |-> root]
TwoFrames == [c \in Calls |-> IF c = c3 THEN nested ELSE root]
OnePrompt == [c \in Calls |-> fp1]
TwoPrompts == [c \in Calls |-> IF c = c1 THEN fp1 ELSE fp2]

CallSymmetry == Permutations(Calls)
=============================================================================
