------------------------------ MODULE MCRewards ------------------------------
(***************************************************************************)
(* One user; a conversion that is delivered twice, a points award that     *)
(* needs an admin, and a mixed one without a reference.                    *)
(***************************************************************************)
EXTENDS Rewards, TLC

CONSTANTS u1, c1, c2, w1, w2, p1, p2, a1

MCAward(u, ref, cash, points, manual) ==
  [user |-> u, ref |-> ref, cash |-> cash, points |-> points, manual |-> manual]

MCAwards ==
  {MCAward(u1, c1, 2, 0, TRUE), MCAward(u1, c2, 0, 3, FALSE),
   MCAward(u1, NoRef, 1, 1, TRUE), MCAward(u1, c2, 0, 0, FALSE)}

\* For the liveness run: only rewards that start pending.
MCPendingAwards == {MCAward(u1, c1, 2, 0, TRUE), MCAward(u1, NoRef, 1, 1, TRUE)}

Symmetry == Permutations({w1, w2}) \cup Permutations({p1, p2})
=============================================================================
