--------------------------- MODULE MCLocalSearch ---------------------------
(***************************************************************************)
(* Local search for TLC in the nonabelian group of order 6: search with    *)
(* each metric, search_old with two.                                       *)
(***************************************************************************)
EXTENDS LocalSearch

(* The dihedral group of order 2m: x is the rotation by x % m, followed by *)
(* a reflection if x >= m.                                                 *)
Dihedral(m) ==
  [ x \in 0..(2*m-1) |-> [ y \in 0..(2*m-1) |->
      LET r == IF x < m THEN (x + y) % m ELSE (x + m - (y % m)) % m
      IN  IF (x < m) = (y < m) THEN r ELSE r + m ] ]
S3 == Dihedral(3)

MCCalls ==
  ({"search"} \X Metrics) \cup ({"search_old"} \X {"L2", "LINF"})

(* The function runs on, and the generator does not avoid the free         *)
(* elements for ever.  Trials are followed to their ends for one metric.   *)
MCFairSpec ==
  Spec /\ WF_vars(e = "LINF" /\ Next) /\ SF_vars(e = "LINF" /\ DrawFresh)

(* Every trial returns.                                                    *)
Termination == e = "LINF" ~> Returned
=============================================================================
