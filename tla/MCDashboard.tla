----------------------------- MODULE MCDashboard ------------------------------
(***************************************************************************)
(* A small instance of Dashboard: two runs, of one session, and two        *)
(* processes that save them; records of one size, which is the worst case  *)
(* for the caches.  A run has agents of no phase first, and announces a    *)
(* phase later.                                                            *)
(***************************************************************************)
EXTENDS Dashboard, TLC

CONSTANTS s1, p1, p2, agents, plan

OneSession == [r \in Runs |-> s1]
NoPhase == [phases |-> <<[title |-> agents, agents |-> 2]>>, announced |-> 0, current |-> Nothing]
OnePhase == [phases |-> <<[title |-> plan, agents |-> 0], [title |-> agents, agents |-> 2]>>,
             announced |-> 1, current |-> plan]
FewShapes == {NoPhase, OnePhase}
SaverSymmetry == Permutations(Savers)
=============================================================================
