-------------------------- MODULE ComparisonSorts --------------------------
(***************************************************************************)
(* parlay's sorts by comparison that work in place of one array or between *)
(* two: quicksort and merge sort, each a state machine of its own.         *)
(***************************************************************************)
EXTENDS Integers, FiniteSets, SequencesExt

----------------------------------------------------------------------------
(***************************************************************************)
(* quicksort.h: split3 divides a segment by two pivots into three, which   *)
(* are sorted in parallel, or by recursion when they are short; segments   *)
(* below the base case are sorted by insertion.  Two split3 in parallel    *)
(* work on segments that do not meet, so here one of them is under way at  *)
(* a time, and which comes next is open.                                   *)
(***************************************************************************)
CONSTANTS
  QuickInputs, (* the sequences sorted, of numbers                       *)
  base,        (* segments shorter than this are the base case: 16 or 24 *)
  Hashes,      (* what hash64 may return for 0..4                        *)
  None

VARIABLES
  given, A, (* the array at first and now                           *)
  hash64,
  tasks,    (* the segments still to be sorted, from lo up to hi    *)
  cur       (* the split3 under way: its segment and its L, M and R *)

BaseAssumption == base >= 5

vars_quick == << given, A, hash64, tasks, cur >>

At(q, x) == q[x + 1]

Swap(q, x, y) == [ q EXCEPT ![x + 1] = q[y + 1], ![y + 1] = q[x + 1] ]
Length(t) == t.hi - t.lo
Seg(l, h) == [ lo |-> l, hi |-> h ]

(* Insertion sorts in place, whatever it is given.                         *)
insertion_sort_quick(q) == SortSeq(q, <)

Sorted(q, l, h) == SubSeq(q, 1, l) \o insertion_sort_quick(SubSeq(q, l + 1, h)) \o SubSeq(q, h + 1, Len(q))

(* Five elements are drawn to the front of the segment, and sorted.        *)
Drawn(q, t) ==
  LET Draw(u, i) == Swap(u, t.lo + i, t.lo + i + (hash64[i] % (Length(t) - i)))
      q0 == Draw(q, 0)
      q1 == Draw(q0, 1)
      q2 == Draw(q1, 2)
      q3 == Draw(q2, 3)
  IN  Draw(q3, 4)
sort5(q, t) == Sorted(Drawn(q, t), t.lo, t.lo + 5)

p1(q, t) == At(q, t.lo)
p2(q, t) == At(q, t.lo + 1)

(* The first place from x on that is not less than p1, and the last down   *)
(* from x that is not greater than p2.                                     *)
Up(q, t, x) == CHOOSE y \in x..(Len(q) - 1) : ~(At(q, y) < p1(q, t)) /\ \A z \in x..(y - 1) : At(q, z) < p1(q, t)
Down(q, t, x) == CHOOSE y \in 0..x : ~(p2(q, t) < At(q, y)) /\ \A z \in (y + 1)..x : p2(q, t) < At(q, z)

-----------------------------------------------------------------------------
QuickInit ==
  /\ given \in QuickInputs
  /\ A = given
  /\ hash64 \in Hashes
  /\ tasks = { Seg(0, Len(given)) }
  /\ cur = None

BaseCase(t) ==
  /\ t \in tasks /\ Length(t) < base
  /\ A' = Sorted(A, t.lo, t.hi)
  /\ tasks' = tasks \ {t}
  /\ UNCHANGED << given, hash64, cur >>

(* split3 as far as its loop.                                              *)
Split(t) ==
  /\ t \in tasks /\ Length(t) >= base /\ cur = None
  /\ \E q \in { sort5(A, t) } : A' = Swap(Swap(q, t.lo, t.lo + 1), t.lo + 1, t.lo + 3)
  /\ LET q == A'
         L == Up(q, t, t.lo + 2)
     IN  cur' = [ seg |-> t, L |-> L, M |-> L, R |-> Down(q, t, t.hi - 1) ]
  /\ tasks' = tasks \ {t}
  /\ UNCHANGED << given, hash64 >>

(* An iteration of the loop.                                               *)
ToLeft ==
  /\ cur # None /\ cur.M <= cur.R
  /\ At(A, cur.M) < p1(A, cur.seg)
  /\ A' = Swap(A, cur.M, cur.L)
  /\ cur' = [ cur EXCEPT !.L = @ + 1, !.M = @ + 1 ]
  /\ UNCHANGED << given, hash64, tasks >>

ToRight ==
  /\ cur # None /\ cur.M <= cur.R
  /\ ~(At(A, cur.M) < p1(A, cur.seg)) /\ p2(A, cur.seg) < At(A, cur.M)
  /\ LET q == Swap(A, cur.M, cur.R)
         small == At(q, cur.M) < p1(q, cur.seg)
     IN  /\ A' = IF small THEN Swap(q, cur.L, cur.M) ELSE q
         /\ cur' = [ cur EXCEPT !.L = IF small THEN @ + 1 ELSE @, !.M = @ + 1, !.R = Down(A', cur.seg, @ - 1) ]
  /\ UNCHANGED << given, hash64, tasks >>

Stay ==
  /\ cur # None /\ cur.M <= cur.R
  /\ ~(At(A, cur.M) < p1(A, cur.seg)) /\ ~(p2(A, cur.seg) < At(A, cur.M))
  /\ cur' = [ cur EXCEPT !.M = @ + 1 ]
  /\ UNCHANGED << given, hash64, A, tasks >>

(* The pivots go between the parts.  The part between them is sorted       *)
(* unless they are equal.                                                  *)
QuickJoin ==
  /\ cur # None /\ cur.M > cur.R
  /\ LET t == cur.seg
         L == cur.L - 2
     IN  /\ A' = Swap(Swap(Swap(A, t.lo + 1, L + 1), t.lo, L), L + 1, cur.R)
         /\ tasks' = tasks \cup { Seg(t.lo, L), Seg(cur.M, t.hi) }
                           \cup (IF p1(A, t) < p2(A, t) THEN { Seg(L + 1, cur.M) } ELSE {})
  /\ cur' = None
  /\ UNCHANGED << given, hash64 >>

QuickNext ==
  \/ \E t \in tasks : BaseCase(t) \/ Split(t)
  \/ ToLeft \/ ToRight \/ Stay \/ QuickJoin

QuickDone == tasks = {} /\ cur = None

-----------------------------------------------------------------------------
Places == 0..(Len(A) - 1)
Open == tasks \cup (IF cur = None THEN {} ELSE { cur.seg })
Inside(t) == t.lo..(t.hi - 1)

(* Nothing has to leave a segment again: what is before it is not greater, *)
(* and what is behind it is not less; and between segments the array is in *)
(* order already.                                                          *)
Apart ==
  \A x, y \in Places : x < y /\ ~(\E t \in Open : {x, y} \subseteq Inside(t)) => At(A, x) <= At(A, y)

(* "below L is less than p1, above R is greater than p2, between L and M   *)
(* are between p1 and p2 inclusive".                                       *)
LoopInvariant ==
  cur # None =>
    LET t == cur.seg IN
    /\ \A x \in (t.lo + 2)..(cur.L - 1) : At(A, x) < p1(A, t)
    /\ \A x \in (cur.R + 1)..(t.hi - 1) : p2(A, t) < At(A, x)
    /\ \A x \in cur.L..(cur.M - 1) : p1(A, t) <= At(A, x) /\ At(A, x) <= p2(A, t)

(* No element is lost or made.                                             *)
Kept == \A v \in ToSet(given) : Cardinality({ x \in DOMAIN A : A[x] = v }) = Cardinality({ x \in DOMAIN given : given[x] = v })

----------------------------------------------------------------------------
(***************************************************************************)
(* p_quicksort_inplace (quicksort.h): a segment is divided by split_three  *)
(* into the same places of the other array, and its parts are sorted by    *)
(* the same code, with the arrays exchanged, until they are short enough   *)
(* for quicksort; inplace says whether the result goes back to where the   *)
(* segment is.  The parts of a segment are tasks that run in any order.    *)
(***************************************************************************)
CONSTANTS
  cut_size (* segments shorter than this are left to quicksort *)

VARIABLES
  B (* the other array; what is not an element there, or has been *)
    (* moved away, is None                                        *)

Task(l, h, inplace) == [ lo |-> l, hi |-> h, inplace |-> inplace, equal |-> FALSE ]

(* A task's segment, in the array it is in: that of the whole is A, and    *)
(* each division goes to the other.                                        *)
Mine(t) == SubSeq(IF t.inplace THEN A ELSE B, t.lo + 1, t.hi)
Put(t, mine, other) ==
  LET Into(q, new) == SubSeq(q, 1, t.lo) \o new \o SubSeq(q, t.hi + 1, Len(q))
  IN  /\ A' = Into(A, IF t.inplace THEN mine ELSE other)
      /\ B' = Into(B, IF t.inplace THEN other ELSE mine)

Gone(q) == [ x \in DOMAIN q |-> None ]

ParallelInit ==
  /\ given \in QuickInputs
  /\ A = given /\ B = Gone(given)
  /\ hash64 \in Hashes
  /\ tasks = { Task(0, Len(given), TRUE) }

(* quicksort, and a loop that moves what is not to stay.                   *)
CutOff(t) ==
  /\ t \in tasks /\ ~t.equal /\ Length(t) < cut_size
  /\ LET q == insertion_sort_quick(Mine(t))
     IN  IF t.inplace THEN Put(t, q, Gone(q)) ELSE Put(t, Gone(q), q)
  /\ tasks' = tasks \ {t}
  /\ UNCHANGED << given, hash64 >>

(* The pivots are the second and fourth of five elements, or one of these  *)
(* for both, if few are less than the one or greater than the other.       *)
Pivots(q) ==
  LET few == ~(q[1] < q[2])
      many == ~(q[4] < q[5])
      low == IF few THEN q[4] ELSE q[2]
  IN  << low, IF many THEN low ELSE q[4] >>

p_split3(t) ==
  /\ t \in tasks /\ ~t.equal /\ Length(t) >= cut_size
  /\ \E q \in { sort5(Mine(t), [ lo |-> 0, hi |-> Length(t) ]) } :
     LET p == Pivots(q)
         flag(e) == IF e < p[1] THEN 0 ELSE IF p[2] < e THEN 2 ELSE 1
         With(k) == SelectSeq(q, LAMBDA e : flag(e) = k)
         l == t.lo + Len(With(0))
         m == l + Len(With(1))
     IN  /\ Put(t, Gone(q), With(0) \o With(1) \o With(2))
         /\ tasks' = (tasks \ {t}) \cup
              { Task(t.lo, l, ~t.inplace), [ Task(l, m, ~t.inplace) EXCEPT !.equal = ~(p[1] < p[2]) ],
                Task(m, t.hi, ~t.inplace) }
  /\ UNCHANGED << given, hash64 >>

(* What lies between equal pivots is only brought back, if it has to be.   *)
copy_in(t) ==
  /\ t \in tasks /\ t.equal
  /\ IF t.inplace THEN UNCHANGED << A, B >> ELSE Put(t, Mine(t), Mine(t))
  /\ tasks' = tasks \ {t}
  /\ UNCHANGED << given, hash64 >>

ParallelNext == \E t \in tasks : CutOff(t) \/ p_split3(t) \/ copy_in(t)

ParallelDone == tasks = {}

-----------------------------------------------------------------------------
(* What a task sorts is there, and nothing of it is in the array its       *)
(* result goes to: no task moves what belongs to another.                  *)
Exchanged ==
  \A t \in tasks : None \notin ToSet(Mine(t)) /\ \A x \in (t.lo + 1)..t.hi : None \in { A[x], B[x] }

(* The result is in the array that was given, though parts of it have been *)
(* in the other an odd number of times.                                    *)
ParallelSorted == ParallelDone => A = insertion_sort_quick(given)

----------------------------------------------------------------------------
(***************************************************************************)
(* merge_sort.h and merge.h: both halves are sorted in parallel into the   *)
(* other of two arrays and merged back; a long merge is divided at an      *)
(* element of its first half, found in the second by binary search, into   *)
(* two that run in parallel.  Elements are relocated: the cell they leave  *)
(* is raw memory again.  merge by itself copies two sorted sequences, here *)
(* one behind the other in In, to one.                                     *)
(***************************************************************************)
CONSTANTS
  MergeInputs,         (* the sequences of keys *)
  MERGE_SORT_BASE,     (* 48                    *)
  _merge_base,         (* 2000                  *)
  _binary_search_base, (* 16                    *)
  Uninitialized

VARIABLES
  how,       (* "merge_sort", in place or of a copy, or "merge"           *)
  In, Out,   (* the arrays: cells hold << key, place it came from >>      *)
  sorts,     (* the sorts not begun: [lo, hi, inplace]                *)
  joins,     (* those that wait for their halves                      *)
  merges     (* the merges not begun: the source's ranges [a, b) and  *)
             (* [c, d), where the result begins, and whether it is In *)

n == Len(given)
f(x, y) == x[1] < y[1]
Cut(q, l, h) == SubSeq(q, l + 1, h)
Raw(len) == [ i \in 1..len |-> Uninitialized ]
(* q with the cells from l on replaced.                                    *)
Over(q, l, new) == SubSeq(q, 1, l) \o new \o SubSeq(q, l + Len(new) + 1, Len(q))

(* Insertion sort is stable.                                               *)
insertion_sort_merge(q) == SortSeq(q, LAMBDA x, y : f(x, y) \/ (~f(y, x) /\ x[2] < y[2]))

linear_search(q, v) ==
  CHOOSE i \in 0..Len(q) : (i < Len(q) => ~f(q[i + 1], v)) /\ \A j \in 1..i : f(q[j], v)

(* "index to first key greater or equal to v".                             *)
RECURSIVE search(_, _, _, _)
search(q, v, start, end) ==
  IF end - start > _binary_search_base
  THEN LET mid == (end + start) \div 2
       IN  IF ~f(q[mid + 1], v) THEN search(q, v, start, mid) ELSE search(q, v, mid + 1, end)
  ELSE start + linear_search(Cut(q, start, end), v)

binary_search(q, v) == search(q, v, 0, Len(q))

RECURSIVE seq_merge(_, _)
seq_merge(xs, ys) ==
  IF xs = << >> THEN ys
  ELSE IF ys = << >> THEN xs
  ELSE IF f(ys[1], xs[1]) THEN << ys[1] >> \o seq_merge(xs, Tail(ys)) ELSE << xs[1] >> \o seq_merge(Tail(xs), ys)

-----------------------------------------------------------------------------
merge_sort ==
  /\ how = "merge_sort"
  /\ IF n <= MERGE_SORT_BASE
     THEN In = insertion_sort_merge(given) /\ sorts = {}
     ELSE In = given /\ sorts = { [ lo |-> 0, hi |-> n, inplace |-> TRUE ] }
  /\ merges = {}

(* Two sequences that are sorted, the first of length m.                   *)
merge(m) ==
  /\ how = "merge"
  /\ In = insertion_sort_merge(Cut(given, 0, m)) \o insertion_sort_merge(Cut(given, m, n))
  /\ sorts = {}
  /\ merges = { [ a |-> 0, b |-> m, c |-> m, d |-> n, r |-> 0, inplace |-> FALSE ] }

MergeInit ==
  /\ \E keys \in MergeInputs : given = [ i \in 1..Len(keys) |-> << keys[i], i >> ]
  /\ Out = Raw(n)
  /\ joins = {}
  /\ merge_sort \/ \E m \in 0..n : merge(m)

SortBase(t) ==
  /\ t \in sorts /\ t.hi - t.lo < MERGE_SORT_BASE
  /\ LET q == insertion_sort_merge(Cut(In, t.lo, t.hi))
     IN  IF t.inplace
         THEN In' = Over(In, t.lo, q) /\ UNCHANGED Out
         ELSE In' = Over(In, t.lo, Raw(t.hi - t.lo)) /\ Out' = Over(Out, t.lo, q)
  /\ sorts' = sorts \ {t}
  /\ UNCHANGED << given, how, joins, merges >>

Halve(t) ==
  /\ t \in sorts /\ t.hi - t.lo >= MERGE_SORT_BASE
  /\ LET m == t.lo + (t.hi - t.lo) \div 2
     IN  sorts' = (sorts \ {t}) \cup { [ t EXCEPT !.hi = m, !.inplace = ~@ ], [ t EXCEPT !.lo = m, !.inplace = ~@ ] }
  /\ joins' = joins \cup {t}
  /\ UNCHANGED << given, how, In, Out, merges >>

(* Whether nothing that was started inside the range is still to be done.  *)
Quiet(t) ==
  /\ \A u \in sorts \cup (joins \ {t}) : ~(t.lo <= u.lo /\ u.hi <= t.hi)
  /\ \A u \in merges : ~(t.lo <= u.r /\ u.r + (u.b - u.a) + (u.d - u.c) <= t.hi)

MergeJoin(t) ==
  /\ t \in joins /\ Quiet(t)
  /\ LET m == t.lo + (t.hi - t.lo) \div 2
     IN  merges' = merges \cup { [ a |-> t.lo, b |-> m, c |-> m, d |-> t.hi, r |-> t.lo, inplace |-> t.inplace ] }
  /\ joins' = joins \ {t}
  /\ UNCHANGED << given, how, In, Out, sorts >>

nA(u) == u.b - u.a
nB(u) == u.d - u.c
From(u) == IF u.inplace THEN Out ELSE In
Short(u) == nA(u) + nB(u) < _merge_base \/ nA(u) = 0 \/ nB(u) = 0

Emptied(q, u) == IF how = "merge" THEN q ELSE Over(Over(q, u.a, Raw(nA(u))), u.c, Raw(nB(u)))
Merged(u) == seq_merge(Cut(From(u), u.a, u.b), Cut(From(u), u.c, u.d))

MergeBase(u) ==
  /\ u \in merges /\ Short(u)
  /\ IF u.inplace
     THEN In' = Over(In, u.r, Merged(u)) /\ Out' = Emptied(Out, u)
     ELSE Out' = Over(Out, u.r, Merged(u)) /\ In' = Emptied(In, u)
  /\ merges' = merges \ {u}
  /\ UNCHANGED << given, how, sorts, joins >>

Divide(u) ==
  /\ u \in merges /\ ~Short(u)
  /\ LET half == nA(u) \div 2
         mB == binary_search(Cut(From(u), u.c, u.d), From(u)[u.a + half + 1])
         mA == IF mB = 0 THEN half + 1 ELSE half
     IN  merges' = (merges \ {u}) \cup { [ u EXCEPT !.b = u.a + mA, !.d = u.c + mB ],
                                         [ u EXCEPT !.a = @ + mA, !.c = @ + mB, !.r = @ + mA + mB ] }
  /\ UNCHANGED << given, how, In, Out, sorts, joins >>

MergeNext ==
  \/ \E t \in sorts : SortBase(t) \/ Halve(t)
  \/ \E t \in joins : MergeJoin(t)
  \/ \E u \in merges : MergeBase(u) \/ Divide(u)

MergeDone == sorts = {} /\ joins = {} /\ merges = {}

-----------------------------------------------------------------------------
Live(q) == { i \in DOMAIN q : q[i] # Uninitialized }

(* At every moment every element is in one cell of one of the arrays: no   *)
(* relocation reads raw memory or writes over an element.                  *)
NoneLost ==
  \A e \in ToSet(given) :
    LET in == Cardinality({ i \in DOMAIN In : In[i] = e })
        out == Cardinality({ i \in DOMAIN Out : Out[i] = e })
    IN  IF how = "merge" THEN in = 1 /\ out <= 1 ELSE in + out = 1

(* "This sort is stable", and its result is in In; so is a merge, of which *)
(* the first sequence comes before the second, and its result is in Out.   *)
InOrder(q) == \A i, j \in DOMAIN q : i < j => f(q[i], q[j]) \/ (q[i][1] = q[j][1] /\ q[i][2] < q[j][2])
Stable ==
  MergeDone => IF how = "merge" THEN Len(Out) = n /\ Live(Out) = DOMAIN Out /\ InOrder(Out)
               ELSE Live(Out) = {} /\ InOrder(In)
=============================================================================
