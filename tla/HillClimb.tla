------------------------------ MODULE HillClimb ------------------------------
(***************************************************************************)
(* What a trial of local search promises: it starts at some set of k       *)
(* elements other than the identity, exchanges one element at a time, each *)
(* time for a smaller error, and stops when the error is not above zero or *)
(* when no exchange makes it smaller, but for as many as it may overlook.  *)
(* No list, no sums, no order in which the exchanges are looked at.        *)
(***************************************************************************)
EXTENDS ErrorCalc

VARIABLES
  e,           (* the metric                                               *)
  overlooks,   (* how many exchanges it may overlook                       *)
  set,         (* the candidate                                            *)
  error,       (* its error                                                *)
  phase        (* "empty", "climb" or "done"                               *)

hcvars == << e, overlooks, set, error, phase >>

SetSums(D) ==
  [ g \in Elem |-> Cardinality({ p \in D \X D : ct[p[1]][p[2]] = g }) ]

ErrorOf(D) == EfsFromMember(e, [ x \in Elem |-> x \in D ], SetSums(D))

Neighbours(D) ==
  { (D \ {a}) \cup {b} : a \in D, b \in NonId \ D }

(* The exchanges that pay.                                                 *)
Better == { D \in Neighbours(set) : ErrorOf(D) < error }

HCInit ==
  /\ e \in Metrics
  /\ overlooks \in 0..1
  /\ set = {}
  /\ error = 0
  /\ phase = "empty"

(* A random set, and its error.                                            *)
Begin ==
  /\ phase = "empty"
  /\ set' \in { D \in SUBSET NonId : Cardinality(D) = k }
  /\ error' = ErrorOf(set')
  /\ phase' = "climb"
  /\ UNCHANGED << e, overlooks >>

(* An exchange that pays.                                                  *)
Improve ==
  /\ phase = "climb"
  /\ error > 0
  /\ set' \in Neighbours(set)
  /\ error' = ErrorOf(set')
  /\ error' < error
  /\ UNCHANGED << e, overlooks, phase >>

(* A solution, or a local optimum as far as it has looked.                 *)
Stop ==
  /\ phase = "climb"
  /\ error > 0 => Cardinality(Better) <= overlooks
  /\ phase' = "done"
  /\ UNCHANGED << e, overlooks, set, error >>

HCNext == Begin \/ Improve \/ Stop

Spec == HCInit /\ [][HCNext]_hcvars
=============================================================================
