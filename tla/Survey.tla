------------------------------- MODULE Survey -------------------------------
(***************************************************************************)
(* What search64.cpp and search64_par.cpp promise: one line for each       *)
(* group, in some order, with the number of the trials, out of NUM_TRIALS  *)
(* for each error metric, that found a PDS in it; then the time taken.     *)
(***************************************************************************)
EXTENDS Integers, Sequences

CONSTANTS
  num_groups,
  errors,       (* the metrics, in the order of the vector                 *)
  NUM_TRIALS,
  Solvable      (* the groups that have a PDS                              *)

Groups == 1..num_groups

VARIABLES
  lines,        (* what has been written, a record for each line           *)
  over          (* the total time has been written                         *)

svars == << lines, over >>

Tallies(g) == [ DOMAIN errors -> IF g \in Solvable THEN 0..NUM_TRIALS ELSE {0} ]

SInit == lines = << >> /\ over = FALSE

Report(g) ==
  /\ ~over
  /\ \A j \in DOMAIN lines : lines[j].group # g
  /\ \E t \in Tallies(g) : lines' = Append(lines, [ group |-> g, tally |-> t ])
  /\ UNCHANGED over

End ==
  /\ Len(lines) = num_groups
  /\ over' = TRUE
  /\ UNCHANGED lines

SNext == End \/ \E g \in Groups : Report(g)

Spec == SInit /\ [][SNext]_svars
=============================================================================
