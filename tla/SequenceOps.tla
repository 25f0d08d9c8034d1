---------------------------- MODULE SequenceOps -----------------------------
(***************************************************************************)
(* The blocked loops of parlay (internal/sequence_ops.h) and the functions *)
(* of primitives.h that are made of them: reduce, scan, pack, filter,      *)
(* split_two and split_three.  Each cuts its input into                    *)
(* blocks, looks at all of them in parallel, scans what it found, and goes *)
(* over them in parallel again, writing to uninitialised memory.  The body *)
(* of a block is a step; bodies of one loop come in any order.  Arrays are *)
(* functions from 0.                                                       *)
(*                                                                         *)
(* The monoid is concatenation and element j of the input is << j >>, so a *)
(* result tells exactly which elements were combined, and in which order.  *)
(***************************************************************************)
EXTENDS Integers, FiniteSets, SequencesExt

CONSTANTS
  _block_size,
  sqrt_factor,      (* reduce's blocks are that many roots of n long       *)
  Lengths,          (* of the inputs                                       *)
  Ops,              (* some of the operations defined below                *)
  Uninitialized

BlockAssumption == _block_size \in Nat \ {0}

VARIABLES
  op, n, Fl,        (* what was asked; Fl[j] is the flag of element j      *)
  seen,             (* the flags filter has worked out                     *)
  pass,             (* "first", "between", "second", "done"                *)
  sums,             (* what a block came to, then the sum before it        *)
  ran,              (* the blocks whose body has run in this loop          *)
  Out, writes,      (* the output, and how often each cell was written     *)
  result            (* what is returned besides                            *)

vars == << op, n, Fl, seen, pass, sums, ran, Out, writes, result >>

Indices(k) == 0..(k - 1)
In == [ j \in Indices(n) |-> << j >> ]
Cut(f, s, e) == [ k \in Indices(e - s) |-> f[s + k] ]
MinOf(a, b) == IF a < b THEN a ELSE b
MaxOf(a, b) == IF a < b THEN b ELSE a
size(f) == Cardinality(DOMAIN f)

(* The operations.  Those that end in inplace write the scan over what is  *)
(* scanned; those into uninitialized write to memory the caller gives;     *)
(* pack_index packs the places and not the elements, which are named after *)
(* their places here.                                                      *)
Copying == {"scan", "scan_inclusive"}
InPlace == {"scan_inplace", "scan_inclusive_inplace"}
Inclusive == {"scan_inclusive", "scan_inclusive_inplace"}
Scans == Copying \cup InPlace
Combining == {"reduce"} \cup Scans
IntoUninitialized == {"pack_into_uninitialized", "filter_into_uninitialized"}
Packs == {"pack", "pack_index", "pack_into_uninitialized"}
Filters == {"filter", "filter_into_uninitialized"}

(* What is read: In, or what stands in its place by now.                   *)
Read == IF op \in InPlace THEN Out ELSE In

(* Arrays with one cell, or some cells, assigned.                          *)
Written(f, g) == [ c \in DOMAIN f |-> IF c \in DOMAIN g THEN g[c] ELSE f[c] ]

num_blocks(k, b) == IF k = 0 THEN 0 ELSE 1 + ((k - 1) \div b)

(* The square root rounded up.                                             *)
Root(k) == CHOOSE r \in 0..k : r * r >= k /\ (r = 0 \/ (r - 1) * (r - 1) < k)

block_size == IF op = "reduce" THEN MaxOf(_block_size, sqrt_factor * Root(n)) ELSE _block_size

l == num_blocks(n, block_size)

(* sliced_for: where block i begins, and ends.                             *)
Begin(i) == i * block_size

End(i) == MinOf(Begin(i) + block_size, n)

-----------------------------------------------------------------------------
(* The serial loops.                                                       *)
reduce_serial(A) ==
  LET R[j \in DOMAIN A] == IF j = 0 THEN A[0] ELSE R[j-1] \o A[j]
  IN  IF size(A) = 0 THEN << >> ELSE R[size(A) - 1]

scan_serial(A, offset, inclusive) ==
  LET R[j \in 0..size(A)] == IF j = 0 THEN offset ELSE R[j-1] \o A[j-1]
  IN  [ out |-> [ j \in DOMAIN A |-> IF inclusive THEN R[j+1] ELSE R[j] ], total |-> R[size(A)] ]

(* The same, of numbers: the sums before each of them, and of all.         *)
scan_inplace(A) ==
  LET R[j \in 0..size(A)] == IF j = 0 THEN 0 ELSE R[j-1] + A[j-1]
  IN  [ out |-> [ j \in DOMAIN A |-> R[j] ], total |-> R[size(A)] ]

sum_flags(F, v) == Cardinality({ j \in DOMAIN F : F[j] = v })

(* The elements whose flag is v, one after the other from cell k on.       *)
pack_serial_at(A, F, v, k) ==
  [ c \in k..(k + sum_flags(F, v) - 1) |->
      A[CHOOSE j \in DOMAIN F : F[j] = v /\ Cardinality({ h \in DOMAIN F : h < j /\ F[h] = v }) = c - k] ]

-----------------------------------------------------------------------------
Flags(o) == IF o = "split_three" THEN 0..2 ELSE IF o \in Combining THEN {0} ELSE {0, 1}

Init ==
  /\ op \in Ops
  /\ n \in Lengths
  /\ Fl \in [ Indices(n) -> Flags(op) ]
  /\ seen = [ j \in Indices(n) |-> Uninitialized ]
  /\ pass = "first"
  /\ sums = [ i \in Indices(l) |-> Uninitialized ]
  /\ ran = {}
  /\ Out = [ j \in Indices(n) |-> IF op \in InPlace THEN In[j] ELSE Uninitialized ]
  /\ writes = [ j \in Indices(n) |-> 0 ]
  /\ result = Uninitialized

(* The output has as many cells as it will need.                           *)
Write(cells) ==
  /\ Out' = Written(Out, cells)
  /\ writes' = [ c \in DOMAIN writes |-> IF c \in DOMAIN cells THEN writes[c] + 1 ELSE writes[c] ]

(* What is too short for two loops is done by one thread.                  *)
Short ==
  \/ op = "reduce" /\ l <= 1
  \/ op \in Packs /\ (l = 1 \/ (l = 0 /\ op \in IntoUninitialized))
  \/ op \in Scans /\ l <= 2

Serially ==
  /\ pass = "first" /\ Short
  /\ CASE op = "reduce" ->
            /\ result' = reduce_serial(In)
            /\ UNCHANGED << Out, writes >>
       [] op \in Scans ->
            LET s == scan_serial(Read, << >>, op \in Inclusive)
            IN  Write(s.out) /\ result' = s.total
       [] op \in Packs -> Write(pack_serial_at(In, Fl, 1, 0)) /\ result' = sum_flags(Fl, 1)
  /\ pass' = "done"
  /\ UNCHANGED << op, n, Fl, seen, sums, ran >>

(* The first loop.                                                         *)
Summary(i, F) ==
  CASE op \in Combining -> reduce_serial(Cut(Read, Begin(i), End(i)))
    [] op \in Packs \cup Filters -> sum_flags(F, 1)
    [] op = "split_two" -> sum_flags(F, 0)
    [] op = "split_three" -> << sum_flags(F, 0), sum_flags(F, 1) >>

First(i) ==
  /\ pass = "first" /\ ~Short
  /\ i \in Indices(l) \ ran
  /\ sums' = [ sums EXCEPT ![i] = Summary(i, Cut(Fl, Begin(i), End(i))) ]
  /\ seen' = IF op \in Filters THEN [ j \in Indices(n) |-> IF j \in Begin(i)..(End(i)-1) THEN Fl[j] ELSE seen[j] ]
             ELSE seen
  /\ ran' = ran \cup {i}
  /\ UNCHANGED << op, n, Fl, pass, Out, writes, result >>

(* The scan of the summaries, when all bodies have run.  That of reduce is *)
(* a reduce again.                                                         *)
Between ==
  /\ pass = "first" /\ ~Short
  /\ ran = Indices(l)
  /\ CASE op = "reduce" -> result' = reduce_serial(sums) /\ UNCHANGED sums
       [] op \in Scans ->
            LET s == scan_serial(sums, << >>, FALSE) IN sums' = s.out /\ result' = s.total
       [] op \in Packs \cup Filters \cup {"split_two"} ->
            LET s == scan_inplace(sums) IN sums' = s.out /\ result' = s.total
       [] op = "split_three" ->
            LET s0 == scan_inplace([ i \in DOMAIN sums |-> sums[i][1] ])
                s1 == scan_inplace([ i \in DOMAIN sums |-> sums[i][2] ])
            IN  /\ sums' = [ i \in DOMAIN sums |-> << s0.out[i], s1.out[i] >> ]
                /\ result' = << s0.total, s1.total >>
  /\ ran' = {}
  /\ pass' = IF op = "reduce" THEN "done" ELSE "second"
  /\ UNCHANGED << op, n, Fl, seen, Out, writes >>

(* The second loop: the cells block i writes.                              *)
Packed(i, F) ==
  LET room == sums[i]..((IF i = l - 1 THEN result ELSE sums[i+1]) - 1)
      p == pack_serial_at(Cut(In, Begin(i), End(i)), Cut(F, Begin(i), End(i)), 1, sums[i])
  IN  [ c \in room |-> p[c] ]

Two(i) ==
  LET A == Cut(In, Begin(i), End(i))
      F == Cut(Fl, Begin(i), End(i))
      c1 == Begin(i) + (result - sums[i])
  IN  pack_serial_at(A, F, 0, sums[i]) @@ pack_serial_at(A, F, 1, c1)

Three(i) ==
  LET A == Cut(In, Begin(i), End(i))
      F == Cut(Fl, Begin(i), End(i))
      c0 == sums[i][1]
      c1 == result[1] + sums[i][2]
      c2 == result[1] + result[2] + (Begin(i) - sums[i][1] - sums[i][2])
  IN  pack_serial_at(A, F, 0, c0) @@ pack_serial_at(A, F, 1, c1) @@ pack_serial_at(A, F, 2, c2)

Scanned(i) ==
  LET s == scan_serial(Cut(Read, Begin(i), End(i)), sums[i], op \in Inclusive).out
  IN  [ c \in Begin(i)..(End(i) - 1) |-> s[c - Begin(i)] ]

Second(i) ==
  /\ pass = "second"
  /\ i \in Indices(l) \ ran
  /\ Write(CASE op \in Scans -> Scanned(i)
             [] op \in Packs -> Packed(i, Fl)
             [] op \in Filters -> Packed(i, seen)
             [] op = "split_two" -> Two(i)
             [] op = "split_three" -> Three(i))
  /\ ran' = ran \cup {i}
  /\ UNCHANGED << op, n, Fl, seen, pass, sums, result >>

Return ==
  /\ pass = "second" /\ ran = Indices(l)
  /\ pass' = "done"
  /\ UNCHANGED << op, n, Fl, seen, sums, ran, Out, writes, result >>

Next ==
  \/ Serially \/ Between \/ Return
  \/ \E i \in Indices(l) : First(i) \/ Second(i)

Spec == Init /\ [][Next]_vars

-----------------------------------------------------------------------------
(* What the functions are for, said without blocks.                        *)
Prefix(k) == [ j \in 1..k |-> j - 1 ]

(* The elements with flag v, in their order.                               *)
With(v) == SelectSeq(Prefix(n), LAMBDA j : Fl[j] = v)

AsCells(s) == [ c \in Indices(Len(s)) |-> << s[c + 1] >> ]

(* Whatever the order in which the blocks run, the result is that of the   *)
(* serial loop: prefixes in order, selected elements in order, nothing     *)
(* twice and nothing missing.                                              *)
Right ==
  pass = "done" =>
    CASE op = "reduce" -> result = Prefix(n)
      [] op \in Scans \ Inclusive -> result = Prefix(n) /\ \A j \in Indices(n) : Out[j] = Prefix(j)
      [] op \in Inclusive -> result = Prefix(n) /\ \A j \in Indices(n) : Out[j] = Prefix(j + 1)
      [] op \in Packs \cup Filters ->
           /\ result = Len(With(1))
           /\ Cut(Out, 0, result) = AsCells(With(1))
      [] op = "split_two" -> result = Len(With(0)) /\ Out = AsCells(With(0) \o With(1))
      [] op = "split_three" ->
           /\ result = << Len(With(0)), Len(With(1)) >>
           /\ Out = AsCells(With(0) \o With(1) \o With(2))

(* No two bodies write the same cell, and at the end every cell of the     *)
(* output has been constructed: assign_uninitialized must be used exactly  *)
(* once for each.                                                          *)
OnceEach ==
  /\ \A c \in DOMAIN writes : writes[c] <= 1
  /\ pass = "done" /\ op \in Packs \cup Filters => \A c \in DOMAIN writes : (writes[c] = 1) = (c < result)
  /\ pass = "done" /\ op \notin Packs \cup Filters \cup {"reduce"} => \A c \in DOMAIN writes : writes[c] = 1
=============================================================================
