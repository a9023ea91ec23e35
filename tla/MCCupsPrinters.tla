--------------------------- MODULE MCCupsPrinters ---------------------------
(***************************************************************************)
(* CupsPrinters for TLC: programs and users are alike.                     *)
(***************************************************************************)
EXTENDS CupsPrinters, TLC

CONSTANTS c1, c2, lp, admin

Alike == {p @@ r : p \in Permutations({c1, c2}),
                   r \in Permutations({lp, admin})}

=============================================================================
