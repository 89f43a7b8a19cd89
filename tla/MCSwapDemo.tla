----------------------------- MODULE MCSwapDemo -----------------------------
(* Two feeds and two users.  A u64 is shrunk to 0 .. 4, in which 2 * 3     *)
(* wraps; pool B can pay for some swaps and not for others.                *)
EXTENDS SwapDemo, TLC

CONSTANTS f1, f2, u1, u2

MCFeed == {f1, f2}
MCUser == {u1, u2}
Symmetry == Permutations(MCFeed) \cup Permutations(MCUser)
=============================================================================
