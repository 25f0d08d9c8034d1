---------------------------- MODULE MCSearchMany ----------------------------
(***************************************************************************)
(* An instance of SearchMany for TLC: two dimensions out of a list of      *)
(* three, one whose order has two groups and one whose order has one.  The *)
(* orders stand for larger ones: they only set how many trials are run.    *)
(***************************************************************************)
EXTENDS SearchMany, TLC

CONSTANTS w1, w2

Dims2 == 0 :> [ n |-> 3 ] @@ 1 :> [ n |-> 1 ] @@ 2 :> [ n |-> 2 ]
Groups2 == 1 :> 2 @@ 2 :> 1 @@ 3 :> 1

Solvable2 == { << 1, 2 >>, << 2, 1 >> }
Pool == { main, w1, w2 }
=============================================================================
