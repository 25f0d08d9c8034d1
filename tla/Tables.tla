------------------------------- MODULE Tables -------------------------------
(***************************************************************************)
(* The tables of groups: how the drivers read them, and the random subsets *)
(* searches start from; each a state machine of its own.                   *)
(***************************************************************************)
EXTENDS PDSProblem, Sequences

----------------------------------------------------------------------------
(***************************************************************************)
(* How the drivers read the table of a group: two numbers of heading, then *)
(* d.n * d.n entries, with ">>" on a file that is never asked whether it   *)
(* could be opened or has ended.  In searchMany.cpp many bodies do so at a *)
(* time, all of them with the same t1 and t2 of main for the heading.      *)
(*                                                                         *)
(* A failed ">>" leaves its variable alone (at the end of a file and after *)
(* an earlier failure), so temp keeps the last entry read; if there was    *)
(* none it has never been written, and what it holds is anything.          *)
(***************************************************************************)
CONSTANTS
  Readers, (* bodies that read a table, each from a file of its own     *)
  n_read,  (* d.n, as the dimensions on the command line or in the list *)
  Files,   (* the sequences of numbers a file may hold; one that is not *)
           (* there is as good as empty                                 *)
  Junk,    (* what an int that was never written may hold               *)
  Unset

(* Files are tables of groups, or beginnings of such: what is headed by an *)
(* order has no entries but those of a group of that order.                *)
ASSUME FilesAssumption ==
  /\ n_read \in Nat \ {0}
  /\ Files \subseteq Seq(Nat)
  /\ \A f \in Files : f # << >> /\ f[1] = n_read =>
       \A x \in 3..Len(f) : f[x] \in 1..n_read
  /\ Junk \subseteq Int
  /\ Unset \notin Int

VARIABLES
  g_file,  (* each reader's numbers still to be read            *)
  given,   (* the numbers there were at first                   *)
  t1, t2,  (* of main, shared                                   *)
  headed,  (* how many numbers of the heading a reader has read *)
  temp,
  row, col,
  ct_read

vars_read == << g_file, given, t1, t2, headed, temp, row, col, ct_read >>

Dom == 0..(n_read-1)

ReadInit ==
  /\ g_file \in [Readers -> Files]
  /\ given = g_file
  /\ t1 = Unset /\ t2 = Unset
  /\ headed = [ r \in Readers |-> 0 ]
  /\ temp = [ r \in Readers |-> Unset ]
  /\ row = [ r \in Readers |-> 0 ]
  /\ col = [ r \in Readers |-> 0 ]
  /\ ct_read = [ r \in Readers |-> [ x \in Dom |-> [ y \in Dom |-> 0 ] ] ]

(* Mutant: the value after a failure is 0, as ">>" sets it when there is a *)
(* word that is not a number.                                              *)
ShiftZero(r, old) == IF g_file[r] = << >> THEN 0 ELSE Head(g_file[r])

(* What ">>" leaves in a variable that held old.                           *)
Shift(r, old) == IF g_file[r] = << >> THEN old ELSE Head(g_file[r])

Rest(r) == IF g_file[r] = << >> THEN << >> ELSE Tail(g_file[r])

(* t1, then t2.                                                            *)
ReadHeading(r) ==
  /\ headed[r] < 2
  /\ IF headed[r] = 0
     THEN t1' = Shift(r, t1) /\ UNCHANGED t2
     ELSE t2' = Shift(r, t2) /\ UNCHANGED t1
  /\ g_file' = [ g_file EXCEPT ![r] = Rest(r) ]
  /\ headed' = [ headed EXCEPT ![r] = @ + 1 ]
  /\ UNCHANGED << given, temp, row, col, ct_read >>

(* The loops are left when i reaches their bound.                          *)
ReadDone(r) == headed[r] = 2 /\ row[r] = n_read

(* How long a row is.                                                      *)
Bound(r) == n_read

(* ct[i][j] = temp - 1, for an index that is in range.                     *)
ReadEntry(r) ==
  /\ headed[r] = 2 /\ row[r] < n_read
  /\ temp' = [ temp EXCEPT ![r] = Shift(r, @) ]
  /\ \E v \in IF temp'[r] = Unset THEN Junk ELSE {temp'[r]} :
       ct_read' = [ ct_read EXCEPT ![r][row[r]][col[r]] = v - 1 ]
  /\ IF col[r] + 1 < Bound(r)
     THEN col' = [ col EXCEPT ![r] = @ + 1 ] /\ UNCHANGED row
     ELSE row' = [ row EXCEPT ![r] = @ + 1 ] /\ col' = [ col EXCEPT ![r] = 0 ]
  /\ g_file' = [ g_file EXCEPT ![r] = Rest(r) ]
  /\ UNCHANGED << given, t1, t2, headed >>

AllDone == \A r \in Readers : ReadDone(r)

ReadNext ==
  \/ \E r \in Readers : ReadHeading(r) \/ ReadEntry(r)
  \/ AllDone /\ UNCHANGED vars_read

-----------------------------------------------------------------------------
Whole(r) == Len(given[r]) = n_read * n_read + 2 /\ given[r][1] = n_read
EntriesGiven(r) == Len(given[r]) - 2

(* A table file of the right order is read as it is, renumbered from 0,    *)
(* whatever the other bodies read into t1 and t2 meanwhile.                *)
OwnTable ==
  \A r \in Readers : ReadDone(r) /\ Whole(r) =>
    \A x, y \in Dom : ct_read[r][x][y] = given[r][2 + n_read * x + y + 1] - 1

Latin(t) ==
  /\ \A x, y, z \in Dom : t[x][y] = t[x][z] => y = z
  /\ \A x, y, z \in Dom : t[y][x] = t[z][x] => y = z

(* A table cut short, but not before its first entry, is not noticed. What *)
(* is read instead stays among the elements, so that no index the search   *)
(* takes from it is out of range; and it is never the table of a group, so *)
(* that checkPDS.py, which reads the table anew, has something to find.    *)
CutShort ==
  \A r \in Readers :
    ReadDone(r) /\ EntriesGiven(r) \in 1..(n_read * n_read - 1) /\ given[r][1] = n_read =>
      /\ \A x, y \in Dom : ct_read[r][x][y] \in Dom
      /\ ~Latin(ct_read[r])

----------------------------------------------------------------------------
(***************************************************************************)
(* random_gens.cpp: the two ways to draw k distinct elements out of        *)
(* 1..(n-1) whose speeds it compares, one after the other: drawing again   *)
(* what is there already, and taking the beginning of a shuffled list.     *)
(***************************************************************************)
CONSTANT num_reps

VARIABLES
  rep,        (* the calls made, num_reps of each function *)
  my_set, is_member,
  new_member, (* repeat_select only                        *)
  ran         (* with_shuffle only                         *)

ASSUME RandomSetsAssumption == num_reps \in Nat

vars_random == << rep, my_set, is_member, new_member, ran >>

Shuffling == rep < num_reps
Selecting == rep \in num_reps..(2 * num_reps - 1)
Full == Len(my_set) = k

RandomInit ==
  /\ rep = 0
  /\ my_set = << >>
  /\ is_member = [ x \in Elem |-> FALSE ]
  /\ new_member = 0
  /\ ran = << >>

(* std::shuffle: any order of the list of all elements but 0.              *)
Shuffle ==
  /\ Shuffling /\ ran = << >> /\ ~Full
  /\ ran' \in { f \in [NonId -> NonId] : \A x \in NonId : \E y \in NonId : f[y] = x }
  /\ UNCHANGED << rep, my_set, is_member, new_member >>

Put(x) ==
  /\ my_set' = Append(my_set, x)
  /\ is_member' = [ is_member EXCEPT ![x] = TRUE ]

(* The loop over the first k of the list.                                  *)
TakeFirst ==
  /\ Shuffling /\ ran # << >> /\ ~Full
  /\ Put(ran[Len(my_set) + 1])
  /\ UNCHANGED << rep, new_member, ran >>

(* Mutant: the test of the flag is turned round.                           *)
TakenDrawn == ~is_member[new_member] \/ new_member = 0

(* The condition on which repeat_select draws again.                       *)
Taken == is_member[new_member] \/ new_member = 0

(* rand_gen() % (n-1) + 1.                                                 *)
Draw(x) ==
  /\ Selecting /\ ~Full /\ Taken
  /\ new_member' = x
  /\ UNCHANGED << rep, my_set, is_member, ran >>

TakeNew ==
  /\ Selecting /\ ~Full /\ ~Taken
  /\ Put(new_member)
  /\ UNCHANGED << rep, new_member, ran >>

(* The call returns; the next has variables of its own.                    *)
Return ==
  /\ Full /\ rep < 2 * num_reps
  /\ rep' = rep + 1
  /\ my_set' = << >>
  /\ is_member' = [ x \in Elem |-> FALSE ]
  /\ new_member' = 0 /\ ran' = << >>

RandomOver == rep = 2 * num_reps

RandomNext ==
  \/ Shuffle \/ TakeFirst \/ TakeNew \/ Return
  \/ \E x \in NonId : Draw(x)
  \/ RandomOver /\ UNCHANGED vars_random

-----------------------------------------------------------------------------
(* Both functions draw what a search may start from: distinct elements,    *)
(* none the identity, the flags true for just these.                       *)
Distinct ==
  /\ \A a, b \in DOMAIN my_set : my_set[a] = my_set[b] => a = b
  /\ \A x \in Elem : is_member[x] <=> x # 0 /\ \E a \in DOMAIN my_set : my_set[a] = x
=============================================================================
