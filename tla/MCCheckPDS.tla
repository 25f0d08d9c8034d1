----------------------------- MODULE MCCheckPDS -----------------------------
(***************************************************************************)
(* Tables and lists of sets for TLC: checkPDS.py, on sets in the nonabelian*)
(* group of order 6; the reading of tables of order 2 by two bodies of     *)
(* searchMany; and testEvalSpeed's drawing of random sets.  This module    *)
(* extends those of all three; part says which of them moves.              *)
(***************************************************************************)
EXTENDS CheckPDS, Tables

CONSTANT Parts
VARIABLE part

all == << part, vars, vars_read, vars_random >>

S3 == [ x \in 0..5 |-> [ y \in 0..5 |->
         LET r == IF x < 3 THEN (x + y) % 3 ELSE (x + 3 - (y % 3)) % 3
         IN  IF (x < 3) = (y < 3) THEN r ELSE r + 3 ] ]

(* Sets are lists in increasing order, as searchMany prints them; only a   *)
(* list from elsewhere holds the identity.                                 *)
Sorted(S) ==
  { s \in [Idx -> S] : \A a, b \in Idx : a < b => s[a] < s[b] }
Printed   == Sorted(NonId)
AnySorted == Sorted(Elem)

(* The table file of a group may be another group's, or of another order.  *)
ItsOwn == { << 6, 1 >> }
AnyFile == ItsOwn \cup { << 6, 2 >>, << 5, 1 >> }

(* The table of the cyclic group of order 2 and every beginning of it,     *)
(* down to none; and the table of the group of order 3.                    *)
Whole2 == << 2, 1, 1, 2, 2, 1 >>
TableFiles == { SubSeq(Whole2, 1, l) : l \in 0..6 } \cup { << 3, 1, 1, 2, 3, 2, 3, 1, 3, 1, 2 >> }

(* The parts while another moves.                                          *)
CheckRest == data = << >> /\ heading = [ g \in Groups |-> CHOOSE h \in Headings : TRUE ] /\ Init
ReadRest  == ReadInit /\ g_file = [ r \in Readers |-> CHOOSE f \in Files : TRUE ]

CheckStart == part = "checkPDS" /\ Init /\ ReadRest /\ RandomInit
CheckMove ==
  /\ part = "checkPDS" /\ Next
  /\ UNCHANGED << part, vars_read, vars_random >>

ReadStart == part = "read tables" /\ ReadInit /\ CheckRest /\ RandomInit
ReadMove ==
  /\ part = "read tables" /\ ReadNext
  /\ UNCHANGED << part, vars, vars_random >>

RandomStart == part = "random sets" /\ RandomInit /\ CheckRest /\ ReadRest
RandomMove ==
  /\ part = "random sets" /\ RandomNext
  /\ UNCHANGED << part, vars, vars_read >>

-----------------------------------------------------------------------------
MCInit == part \in Parts /\ (CheckStart \/ ReadStart \/ RandomStart)

MCNext == CheckMove \/ ReadMove \/ RandomMove

MCSpec == MCInit /\ [][MCNext]_all

(* A random generator does not return taken elements for ever.             *)
DrawNew == RandomMove /\ \E x \in NonId : ~is_member[x] /\ Draw(x)

MCFairSpec ==
  /\ MCSpec
  /\ WF_all(RandomMove /\ ~RandomOver) /\ SF_all(DrawNew)

-----------------------------------------------------------------------------
(* What the drivers make of table files: with whole files each body reads  *)
(* its own table, though t1 and t2 belong to main and all bodies write     *)
(* them; and what it makes of a file that ends early is no group's table.  *)
TablesRead ==
  /\ OwnTable /\ CutShort

(* Drawing until k elements have been found ends, and what has been drawn  *)
(* is k different elements, none of them the identity.                     *)
Drawn ==
  /\ []Distinct
  /\ part = "random sets" ~> (part = "random sets" /\ RandomOver)
=============================================================================
