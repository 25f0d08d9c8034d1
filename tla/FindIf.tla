------------------------------- MODULE FindIf -------------------------------
(***************************************************************************)
(* The searches of parlay (primitives.h): find_if_index tries a few        *)
(* indices in turn, then blocks of indices in parallel, each twice as long *)
(* as the one before; what a body finds goes into an atomic variable by    *)
(* write_min.  All the other searches ask it for the first index that      *)
(* satisfies a predicate of theirs.  A step of a body is a test, a load or *)
(* a compare-and-swap.                                                     *)
(***************************************************************************)
EXTENDS Integers, FiniteSets, SequencesExt

CONSTANTS
  granularity,
  serial_size,      (* operator< takes at most so many one by one: 1000    *)
  Ops,              (* the searches                                        *)
  Ranges, Patterns  (* the sequences searched in, and for                  *)

VARIABLES
  op, r1, r2,
  d,                (* what is_partitioned's first search found, else -1   *)
  i,                (* the index of the serial loop                        *)
  start, block_size,
  result,
  at, c,            (* where the bodies of the block are; what they loaded *)
  answer            (* find_if_index's, or -1                              *)

vars == << op, r1, r2, d, i, start, block_size, result, at, c, answer >>

n1 == Len(r1)
n2 == Len(r2)
MinOf(a, b) == IF a < b THEN a ELSE b
elt(r, k) == r[k + 1]

(* How many indices a search tries.                                        *)
Tries ==
  CASE op \in {"find_if", "find_if_not", "find_first_of", "search"} -> n1
    [] op = "equal" -> IF n1 = n2 THEN n1 ELSE 0
    [] op \in {"adjacent_find", "is_sorted_until"} -> n1 - 1
    [] op \in {"mismatch", "lexicographical_compare", "operator<"} -> MinOf(n1, n2)
    [] op = "find_end" -> n1 - n2 + 1
    [] op = "is_partitioned" -> IF d = -1 THEN n1 ELSE n1 - d - 1

Differs(k) == elt(r1, k) # elt(r2, k)
Descends(k) == elt(r1, k + 1) < elt(r1, k)
Matches(k) == \A j \in 0..(n2 - 1) : elt(r1, k + j) = elt(r2, j)

(* The predicate it tries them with; an element of 1 is what find_if and   *)
(* is_partitioned look for.                                                *)
Hit(k) ==
  CASE op = "find_if" -> elt(r1, k) = 1
    [] op = "find_if_not" -> elt(r1, k) # 1
    [] op = "find_first_of" -> \E j \in 0..(n2 - 1) : elt(r1, k) = elt(r2, j)
    [] op = "adjacent_find" -> elt(r1, k) = elt(r1, k + 1)
    [] op = "is_sorted_until" -> Descends(k)
    [] op \in {"mismatch", "equal"} -> Differs(k)
    [] op \in {"lexicographical_compare", "operator<"} -> elt(r1, k) < elt(r2, k) \/ elt(r2, k) < elt(r1, k)
    [] op = "search" -> k + n2 <= n1 /\ Matches(k)
    [] op = "find_end" -> Matches(n1 - k - n2)
    [] op = "is_partitioned" -> IF d = -1 THEN elt(r1, k) # 1 ELSE elt(r1, d + 1 + k) = 1

(* What the functions must not be given.                                   *)
Allowed(o, a, b) ==
  /\ o = "adjacent_find" => a # << >>
  /\ o = "find_end" => b # << >> /\ Len(b) <= Len(a) + 1
  /\ o = "is_sorted_until" => a # << >>

Fresh(n) ==
  /\ i = 0 /\ start = granularity /\ block_size = 2 * granularity
  /\ result = n
  /\ at = << >> /\ c = << >>
  /\ answer = -1

Init ==
  /\ op \in Ops
  /\ r1 \in Ranges
  /\ r2 \in Patterns
  /\ Allowed(op, r1, r2)
  /\ d = -1
  /\ Fresh(Tries)

-----------------------------------------------------------------------------
Searching == answer = -1
Block == start..(MinOf(Tries, start + block_size) - 1)
Idle == at = << >>

(* operator< of two sequences: one pass over both, and a search from 1000  *)
(* elements of the first on.                                               *)
OnePass == op = "operator<" /\ n1 <= serial_size

less ==
  /\ Searching /\ OnePass
  /\ IF i < Tries /\ ~Differs(i) THEN i' = i + 1 /\ UNCHANGED answer ELSE answer' = i /\ UNCHANGED i
  /\ UNCHANGED << op, r1, r2, d, start, block_size, result, at, c >>

(* The serial loop.                                                        *)
Serial ==
  /\ Searching /\ ~OnePass
  /\ i < MinOf(granularity, Tries)
  /\ IF Hit(i) THEN answer' = i /\ UNCHANGED i ELSE i' = i + 1 /\ UNCHANGED answer
  /\ UNCHANGED << op, r1, r2, d, start, block_size, result, at, c >>

Fork ==
  /\ Searching /\ ~OnePass
  /\ i = MinOf(granularity, Tries) /\ Idle
  /\ IF start < Tries /\ i # Tries
     THEN /\ at' = [ j \in Block |-> "test" ]
          /\ c' = [ j \in Block |-> result ]
          /\ UNCHANGED answer
     ELSE /\ answer' = Tries
          /\ UNCHANGED << at, c >>
  /\ UNCHANGED << op, r1, r2, d, i, start, block_size, result >>

Go(j, place) == at' = [ at EXCEPT ![j] = place ]

Test(j) ==
  /\ at[j] = "test"
  /\ Go(j, IF Hit(j) THEN "load" ELSE "done")
  /\ UNCHANGED << op, r1, r2, d, i, start, block_size, result, c, answer >>

(* write_min.                                                              *)
Load(j) ==
  /\ at[j] = "load"
  /\ c' = [ c EXCEPT ![j] = result ]
  /\ Go(j, IF j < result THEN "swap" ELSE "done")
  /\ UNCHANGED << op, r1, r2, d, i, start, block_size, result, answer >>

Swap(j) ==
  /\ at[j] = "swap"
  /\ IF result = c[j]
     THEN result' = j /\ Go(j, "done")
     ELSE Go(j, "load") /\ UNCHANGED result
  /\ UNCHANGED << op, r1, r2, d, i, start, block_size, c, answer >>

Join ==
  /\ Searching /\ ~Idle
  /\ \A j \in DOMAIN at : at[j] = "done"
  /\ at' = << >> /\ c' = << >>
  /\ IF result < Tries
     THEN answer' = result /\ UNCHANGED << start, block_size >>
     ELSE /\ start' = start + block_size
          /\ block_size' = 2 * block_size
          /\ UNCHANGED answer
  /\ UNCHANGED << op, r1, r2, d, i, result >>

(* is_partitioned searches the rest for an element that should be before.  *)
SearchRest ==
  /\ op = "is_partitioned" /\ d = -1 /\ ~Searching /\ answer # n1
  /\ d' = answer
  /\ i' = 0 /\ start' = granularity /\ block_size' = 2 * granularity
  /\ result' = n1 - answer - 1
  /\ answer' = -1
  /\ UNCHANGED << op, r1, r2, at, c >>

Next ==
  \/ less \/ Serial \/ Fork \/ Join \/ SearchRest
  \/ \E j \in DOMAIN at : Test(j) \/ Load(j) \/ Swap(j)

Spec == Init /\ [][Next]_vars
Finished == ~Searching /\ (op = "is_partitioned" /\ d = -1 => answer = n1)

-----------------------------------------------------------------------------
(* What each function returns, positions counted from 0 and n1 for the end. *)
Returned ==
  CASE op \in {"find_if", "find_if_not", "find_first_of", "mismatch", "search"} -> answer
    [] op = "adjacent_find" -> IF answer = n1 - 1 THEN n1 ELSE answer
    [] op = "is_sorted_until" -> answer + 1
    [] op = "find_end" -> IF answer = n1 - n2 + 1 THEN n1 ELSE n1 - answer - n2
    [] op = "equal" -> n1 = n2 /\ answer = n1
    [] op \in {"lexicographical_compare", "operator<"} ->
         IF answer < MinOf(n1, n2) THEN elt(r1, answer) < elt(r2, answer) ELSE n1 < n2
    [] op = "is_partitioned" -> d = -1 \/ answer = n1 - d - 1

(* The least element of S, or e when it is empty.                          *)
FirstOf(S, e) == IF S = {} THEN e ELSE CHOOSE x \in S : \A y \in S : x <= y
LastOf(S, e) == IF S = {} THEN e ELSE CHOOSE x \in S : \A y \in S : x >= y
At1 == 0..(n1 - 1)

(* What the C++ algorithms of these names return.                          *)
Meant ==
  CASE op = "find_if" -> FirstOf({ k \in At1 : elt(r1, k) = 1 }, n1)
    [] op = "find_if_not" -> FirstOf({ k \in At1 : elt(r1, k) # 1 }, n1)
    [] op = "find_first_of" -> FirstOf({ k \in At1 : elt(r1, k) \in ToSet(r2) }, n1)
    [] op = "adjacent_find" -> FirstOf({ k \in At1 : k + 1 < n1 /\ elt(r1, k) = elt(r1, k + 1) }, n1)
    [] op = "is_sorted_until" ->
         LastOf({ k \in 0..n1 : \A x, y \in 0..(k - 1) : x < y => elt(r1, x) <= elt(r1, y) }, 0)
    [] op = "mismatch" -> LastOf({ k \in 0..MinOf(n1, n2) : SubSeq(r1, 1, k) = SubSeq(r2, 1, k) }, 0)
    [] op = "search" -> FirstOf({ k \in At1 : k + n2 <= n1 /\ SubSeq(r1, k + 1, k + n2) = r2 }, n1)
    [] op = "find_end" -> LastOf({ k \in At1 : k + n2 <= n1 /\ SubSeq(r1, k + 1, k + n2) = r2 }, n1)
    [] op = "equal" -> r1 = r2
    [] op \in {"lexicographical_compare", "operator<"} ->
         \E k \in 0..MinOf(n1, n2) :
           /\ SubSeq(r1, 1, k) = SubSeq(r2, 1, k)
           /\ IF k < n1 THEN k < n2 /\ elt(r1, k) < elt(r2, k) ELSE k < n2
    [] op = "is_partitioned" -> \A x, y \in At1 : x < y /\ elt(r1, y) = 1 => elt(r1, x) = 1

(* Whatever the order in which the bodies of a block test and write, and   *)
(* wherever the blocks end, each function returns what its sequential      *)
(* namesake does.                                                          *)
Right == Finished => Returned = Meant

=============================================================================
