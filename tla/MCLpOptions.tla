---------------------------- MODULE MCLpOptions ----------------------------
(* Two queues for LpOptions, in the order libcups lists them, and writers  *)
(* that differ in nothing.                                                 *)
EXTENDS LpOptions, TLC

CONSTANTS w1, w2

MCOrder == <<"q1", "q2">>

WritersAlike == Permutations({w1, w2})

=============================================================================
