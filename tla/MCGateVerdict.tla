--------------------------- MODULE MCGateVerdict ----------------------------
(***************************************************************************)
(* Small instances of GateVerdict: gates of one prompt that only have a    *)
(* judge, and one with a judge behind a check that accepts an answer but   *)
(* not a skipped agent's None.  This one asks its agent for a schema: it   *)
(* shares its judge's key with the others, but not its agent's.            *)
(***************************************************************************)
EXTENDS GateVerdict, TLC

CONSTANTS g1, g2, g3, p1, plain, schema, strict, good

OnePrompt == [g \in Gates |-> p1]
OneSchema == [g \in Gates |-> IF g = g3 THEN schema ELSE plain]
AllPlain == [g \in Gates |-> plain]
OneChecked == [g \in Gates |-> IF g = g3 THEN strict ELSE NoCheck]
AcceptsGood == [c \in Checks |-> {good}]

(* g1 and g2 are alike. *)
GateSymmetry == Permutations({g1, g2})
=============================================================================
