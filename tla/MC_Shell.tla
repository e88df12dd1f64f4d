------------------------------ MODULE MC_Shell ------------------------------
(* A guest of three instructions that loops and branches.                  *)
EXTENDS Shell, TLC
MCSucc == (0 :> {1}) @@ (1 :> {0, 2}) @@ (2 :> {2})
=============================================================================
