--------------------------- MODULE SamplingSorts ---------------------------
(***************************************************************************)
(* parlay's sorts that choose their pivots from a sample: sample sort and  *)
(* bucket sort, each a state machine of its own.                           *)
(***************************************************************************)
EXTENDS Integers, FiniteSets, SequencesExt

----------------------------------------------------------------------------
(***************************************************************************)
(* sample_sort.h and transpose.h: pivots are taken from a sorted sample;   *)
(* blocks of the input are sorted in parallel and the keys between pivots  *)
(* counted; every block's part of every bucket is moved to where the       *)
(* counts say, block by block or, if the matrix of the counts is large, by *)
(* parts of it that are divided recursively, the counts being transposed   *)
(* the same way first; and each bucket is sorted.  The copying version can *)
(* be stable; the one in place keeps its sample in the first blocks of the *)
(* input.                                                                  *)
(***************************************************************************)
CONSTANTS
  Inputs,              (* sequences of keys                               *)
  Modes,               (* "sort", "stable_sort": copying; "sort_inplace"  *)
  QUICKSORT_THRESHOLD, (* 16384                                           *)
  OVER_SAMPLE,         (* 8                                               *)
  sample_blocks,       (* 4                                               *)
  num_blocks,          (* a power of two near the square root of the size *)
  num_buckets,         (* near the square root too                        *)
  TRANS_THRESHHOLD,    (* 500 counts                                      *)
  block_factor,        (* 16: a part to be moved has so many times that   *)
  Oblivious,           (* whether both numbers are above 512              *)
  Hashes(_, _),        (* what hash64(0), hash64(1), .. may choose        *)
  Uninitialized

VARIABLES
  given, mode,
  pc,      (* "start", "blocks", "transpose", "scan", "move", "buckets",*)
           (* "done"                                                    *)
  hash,    (* what hash64 gives for each sample                         *)
  mem,     (* "In", "Tmp", "Out"; cells hold << key, place >>           *)
  pivots,
  counts,  (* of each block, each bucket's, block after block           *)
  offsets, (* where each block's part of each bucket goes, bucket after *)
           (* bucket                                                    *)
  todo,    (* blocks or buckets to be processed, parts of the matrix to *)
           (* be transposed or moved                                    *)
  misused  (* raw memory was read, or an element written over           *)

n_sample == Len(given)
Rows == 0..(num_blocks - 1)
Columns == 0..(num_buckets - 1)
less(x, y) == x[1] < y[1]
SampleCut(q, l, h) == SubSeq(q, l + 1, h)
SampleOver(q, l, new) == SubSeq(q, 1, l) \o new \o SubSeq(q, l + Len(new) + 1, Len(q))
SampleRaw(len) == [ i \in 1..len |-> Uninitialized ]

(* sort, stable_sort and sort_inplace of primitives.h.                     *)
Copying == mode \in {"sort", "stable_sort"}
Stable == mode = "stable_sort"
InPlace == mode = "sort_inplace"
Out == IF InPlace THEN "In" ELSE "Out"
MinOf(a, b) == IF a < b THEN a ELSE b

(* bucket_sort is stable if asked to; quicksort leaves equal keys in an    *)
(* order of its own, here that from the last place to the first.           *)
seq_sort(q) ==
  SortSeq(q, LAMBDA x, y : less(x, y) \/ (x[1] = y[1] /\ IF Stable THEN x[2] < y[2] ELSE x[2] > y[2]))

block_size == (n_sample - 1) \div num_blocks + 1
start(i) == MinOf(i * block_size, n_sample)
end(i) == MinOf((i + 1) * block_size, n_sample)
sample_set_size == IF InPlace THEN sample_blocks * block_size ELSE num_buckets * OVER_SAMPLE

(* get_bucket_counts: the pivot reached and the count of the elements      *)
(* before it are b + 1 and c[b]; equal is set in the second inner loop,    *)
(* which gives a bucket between equal pivots what is equal to them.        *)
RECURSIVE get_bucket_counts(_, _, _, _, _, _)
get_bucket_counts(q, B, a, b, c, equal) ==
  IF a > Len(q) THEN c
  ELSE IF b >= Len(B) THEN [ c EXCEPT ![b] = Len(q) - a + 1 ]
  ELSE IF (IF equal THEN ~less(B[b + 1], q[a]) ELSE less(q[a], B[b + 1]))
       THEN get_bucket_counts(q, B, a + 1, b, [ c EXCEPT ![b] = @ + 1 ], equal)
       ELSE get_bucket_counts(q, B, a, b + 1, c, ~equal /\ b + 2 <= Len(B) /\ ~less(B[b + 1], B[b + 2]))
Counts(q) == get_bucket_counts(q, pivots, 1, 0, [ b \in Columns |-> 0 ], FALSE)

-----------------------------------------------------------------------------
SampleInit ==
  /\ mode \in Modes
  /\ \E keys \in Inputs : given = [ i \in 1..Len(keys) |-> << keys[i], i >> ]
  /\ hash \in Hashes(sample_set_size, Len(given))
  /\ pc = "start"
  /\ mem = [ In |-> given, Tmp |-> SampleRaw(Len(given)), Out |-> SampleRaw(Len(given)) ]
  /\ pivots = << >>
  /\ counts = SampleRaw(num_blocks * num_buckets)
  /\ offsets = << >> /\ todo = {} /\ misused = FALSE

Small ==
  /\ pc = "start" /\ n_sample < QUICKSORT_THRESHOLD
  /\ mem' = [ mem EXCEPT ![Out] = seq_sort(mem["In"]) ]
  /\ pc' = "done"
  /\ UNCHANGED << given, mode, hash, pivots, counts, offsets, todo, misused >>

(* The input after its first m elements were exchanged with ones behind.   *)
RECURSIVE Swapped(_, _, _)
Swapped(q, i, m) ==
  IF i = m THEN q
  ELSE LET j == i + (hash[i + 1] % (n_sample - i))
       IN  Swapped([ q EXCEPT ![i + 1] = q[j + 1], ![j + 1] = q[i + 1] ], i + 1, m)

Sample ==
  /\ pc = "start" /\ n_sample >= QUICKSORT_THRESHOLD
  /\ LET swapped == Swapped(given, 0, sample_set_size)
         copies == [ i \in 1..sample_set_size |-> given[(hash[i] % n_sample) + 1] ]
         sample_set == seq_sort(IF InPlace THEN SampleCut(swapped, 0, sample_set_size) ELSE copies)
         stride == IF InPlace THEN sample_set_size \div (num_buckets - 1) ELSE OVER_SAMPLE
     IN  /\ pivots' = [ i \in 1..(num_buckets - 1) |-> sample_set[stride * (i - 1) + 1] ]
         /\ IF InPlace THEN mem' = [ mem EXCEPT !["In"] = SampleOver(swapped, 0, sample_set) ] ELSE UNCHANGED mem
  /\ todo' = { i \in Rows : start(i) < end(i) }
  /\ pc' = "blocks"
  /\ UNCHANGED << given, mode, hash, counts, offsets, misused >>

(* A block goes to Tmp sorted; those of the sample are sorted and stay.    *)
SortBlock(i) ==
  /\ pc = "blocks" /\ i \in todo
  /\ LET q == SampleCut(mem["In"], start(i), end(i))
         stays == InPlace /\ i < sample_blocks
         sorted == IF stays THEN q ELSE seq_sort(q)
     IN  /\ mem' = IF stays THEN mem
                   ELSE [ mem EXCEPT !["Tmp"] = SampleOver(@, start(i), sorted),
                                     !["In"] = IF InPlace THEN SampleOver(@, start(i), SampleRaw(Len(q))) ELSE @ ]
         /\ counts' = SampleOver(counts, i * num_buckets, [ b \in 1..num_buckets |-> Counts(sorted)[b - 1] ])
  /\ todo' = todo \ {i}
  /\ UNCHANGED << given, mode, pc, hash, pivots, offsets, misused >>

(* Sums of all that comes before in a row of numbers.                      *)
scan_inplace(q) ==
  LET sum[i \in 1..Len(q)] == IF i = 1 THEN 0 ELSE sum[i - 1] + q[i - 1] IN [ i \in 1..Len(q) |-> sum[i] ]

(* Where the count of block i and bucket j is, before and after.           *)
RowMajor(i, j) == i * num_buckets + j + 1
ColumnMajor(i, j) == j * num_blocks + i + 1

(* Each row by itself, or all as one part to be divided.                   *)
Row(i) == [ r |-> i, rCount |-> 1, c |-> 0, cCount |-> num_buckets, row |-> TRUE ]
trans == [ r |-> 0, rCount |-> num_blocks, c |-> 0, cCount |-> num_buckets, row |-> FALSE ]

(* The sample follows its blocks into Tmp.  The counts, which must have    *)
(* been made for every block, are read in the order of the buckets at once *)
(* or transposed first.                                                    *)
SampleFollows ==
  /\ pc = "blocks" /\ todo = {}
  /\ mem' = IF InPlace
            THEN [ mem EXCEPT !["Tmp"] = SampleOver(@, 0, SampleCut(mem["In"], 0, sample_set_size)),
                              !["In"] = SampleOver(@, 0, SampleRaw(sample_set_size)) ]
            ELSE mem
  /\ misused' = (Uninitialized \in ToSet(counts))
  /\ UNCHANGED << given, mode, hash, pivots, counts >>

transpose_buckets ==
  /\ SampleFollows
  /\ IF misused' THEN pc' = "done" /\ UNCHANGED << offsets, todo >>
     ELSE \/ /\ FALSE \in Oblivious
             /\ LET get(x) == counts[RowMajor((x - 1) % num_blocks, (x - 1) \div num_blocks)]
                IN  offsets' = scan_inplace([ x \in DOMAIN counts |-> get(x) ])
             /\ todo' = { Row(i) : i \in Rows }
             /\ pc' = "move"
          \/ /\ TRUE \in Oblivious
             /\ offsets' = SampleRaw(Len(counts))
             /\ todo' = {trans}
             /\ pc' = "transpose"

Threshold == IF pc = "move" THEN block_factor * TRANS_THRESHHOLD ELSE TRANS_THRESHHOLD
Cells(t) == (t.r..(t.r + t.rCount - 1)) \X (t.c..(t.c + t.cCount - 1))

Transpose(t) ==
  /\ pc = "transpose" /\ t \in todo /\ t.rCount * t.cCount < Threshold
  /\ offsets' = [ x \in DOMAIN offsets |->
                    IF \E p \in Cells(t) : x = ColumnMajor(p[1], p[2])
                    THEN LET p == CHOOSE p \in Cells(t) : x = ColumnMajor(p[1], p[2]) IN counts[RowMajor(p[1], p[2])]
                    ELSE offsets[x] ]
  /\ misused' = (misused \/ \E p \in Cells(t) : offsets[ColumnMajor(p[1], p[2])] # Uninitialized)
  /\ todo' = todo \ {t}
  /\ UNCHANGED << given, mode, pc, hash, mem, pivots, counts >>

Scans ==
  /\ pc = "transpose" /\ todo = {}
  /\ misused' = (misused \/ Uninitialized \in ToSet(offsets))
  /\ offsets' = scan_inplace(offsets)
  /\ counts' = Append(scan_inplace(counts), n_sample)
  /\ todo' = {trans} /\ pc' = "move"
  /\ UNCHANGED << given, mode, hash, mem, pivots >>

(* transR, of transpose and of blockTrans: the longer side is halved.      *)
Divide(t) ==
  /\ pc \in {"transpose", "move"} /\ t \in todo /\ ~t.row /\ t.rCount * t.cCount >= Threshold
  /\ LET l == (IF t.cCount > t.rCount THEN t.cCount ELSE t.rCount) \div 2
     IN  todo' = (todo \ {t}) \cup
           IF t.cCount > t.rCount
           THEN { [ t EXCEPT !.cCount = l ], [ t EXCEPT !.c = @ + l, !.cCount = @ - l ] }
           ELSE { [ t EXCEPT !.rCount = l ], [ t EXCEPT !.r = @ + l, !.rCount = @ - l ] }
  /\ UNCHANGED << given, mode, pc, hash, mem, pivots, counts, offsets, misused >>

(* Block i's part of bucket j: in Tmp, and where it goes.  The loop over a *)
(* row adds up the counts, which otherwise have been.                      *)
OfRow(i, j) ==
  LET s_offset[k \in 0..j] == IF k = 0 THEN i * block_size ELSE s_offset[k - 1] + counts[RowMajor(i, k - 1)]
  IN  [ from |-> s_offset[j], to |-> offsets[ColumnMajor(i, j)], len |-> counts[RowMajor(i, j)] ]
OfMatrix(i, j) ==
  LET sa == counts[RowMajor(i, j)]
  IN  [ from |-> sa, to |-> offsets[ColumnMajor(i, j)], len |-> counts[RowMajor(i, j) + 1] - sa ]
Chunks(t) == { IF t.row THEN OfRow(p[1], p[2]) ELSE OfMatrix(p[1], p[2]) : p \in Cells(t) }

Move(t) ==
  /\ pc = "move" /\ t \in todo
  /\ t.row \/ t.rCount * t.cCount < Threshold
  /\ LET parts == Chunks(t)
         Goes(p) == { x.from + p - x.to : x \in { y \in parts : y.to < p /\ p <= y.to + y.len } }
         Leaves(p) == \E x \in parts : x.from < p /\ p <= x.from + x.len
     IN  /\ misused' = (misused \/ \E p \in 1..n_sample :
                          \/ Goes(p) # {} /\ mem[Out][p] # Uninitialized
                          \/ Leaves(p) /\ mem["Tmp"][p] = Uninitialized)
         /\ mem' = [ mem EXCEPT ![Out] = [ p \in 1..n_sample |-> IF Goes(p) = {} THEN mem[Out][p] ELSE mem["Tmp"][CHOOSE f \in Goes(p) : TRUE] ],
                                !["Tmp"] = [ p \in 1..n_sample |-> IF Leaves(p) THEN Uninitialized ELSE mem["Tmp"][p] ] ]
  /\ todo' = todo \ {t}
  /\ UNCHANGED << given, mode, pc, hash, pivots, counts, offsets >>

Moved ==
  /\ pc = "move" /\ todo = {}
  /\ todo' = Columns /\ pc' = "buckets"
  /\ UNCHANGED << given, mode, hash, mem, pivots, counts, offsets, misused >>

bucket_offset(j) == IF j = num_buckets THEN n_sample ELSE offsets[ColumnMajor(0, j)]
(* Which buckets are sorted: all, when the pivots are gone.                *)
NeedsSort(j) == InPlace \/ j = 0 \/ j = num_buckets - 1 \/ less(pivots[j], pivots[j + 1])

SortBucket(j) ==
  /\ pc = "buckets" /\ j \in todo
  /\ mem' = IF NeedsSort(j)
            THEN [ mem EXCEPT ![Out] = SampleOver(@, bucket_offset(j), seq_sort(SampleCut(@, bucket_offset(j), bucket_offset(j + 1)))) ]
            ELSE mem
  /\ todo' = todo \ {j}
  /\ UNCHANGED << given, mode, pc, hash, pivots, counts, offsets, misused >>

Sorted ==
  /\ pc = "buckets" /\ todo = {}
  /\ pc' = "done"
  /\ UNCHANGED << given, mode, hash, mem, pivots, counts, offsets, todo, misused >>

SampleNext ==
  \/ Small \/ Sample \/ transpose_buckets \/ Scans \/ Moved \/ Sorted
  \/ \E x \in todo :
       \/ pc = "blocks" /\ SortBlock(x)
       \/ pc = "transpose" /\ (Divide(x) \/ Transpose(x))
       \/ pc = "move" /\ (Divide(x) \/ Move(x))
       \/ pc = "buckets" /\ SortBucket(x)

-----------------------------------------------------------------------------
(* Every block has counted, and each element is moved once, to a free      *)
(* place: nothing is lost between three arrays.                            *)
EachMovedOnce ==
  /\ ~misused
  /\ pc = "buckets" => mem["Tmp"] = SampleRaw(n_sample) /\ ToSet(mem[Out]) = ToSet(given)

(* When buckets are sorted, in any order, what is in one is not before     *)
(* what is in another, and one that is not sorted has equal keys only.     *)
Bucketed ==
  pc = "buckets" =>
    /\ \A i, j \in Columns : i < j =>
         \A x \in ToSet(SampleCut(mem[Out], bucket_offset(i), bucket_offset(i + 1))),
            y \in ToSet(SampleCut(mem[Out], bucket_offset(j), bucket_offset(j + 1))) : ~less(y, x)
    /\ \A j \in Columns : ~NeedsSort(j) =>
         \A x, y \in ToSet(SampleCut(mem[Out], bucket_offset(j), bucket_offset(j + 1))) : x[1] = y[1]

(* The result is sorted, and stable when that was asked for; a copying     *)
(* sort leaves its input alone.                                            *)
SampleSortedRight ==
  pc = "done" =>
    /\ \A i, j \in 1..n_sample : i < j => ~less(mem[Out][j], mem[Out][i])
    /\ Stable => \A i, j \in 1..n_sample : i < j /\ mem[Out][i][1] = mem[Out][j][1] => mem[Out][i][2] < mem[Out][j][2]
    /\ Copying => mem["In"] = given

----------------------------------------------------------------------------
(***************************************************************************)
(* bucket_sort.h, the sequential sort of sample sort: elements are sent    *)
(* down a balanced tree of pivots to buckets, relocated there stably into  *)
(* the other of two arrays, and the buckets are sorted by the same code    *)
(* with the arrays exchanged.                                              *)
(***************************************************************************)
CONSTANTS
             (* sequences of keys                              *)
  bits,      (* 4                                              *)
  BASE,      (* num_buckets * 32                               *)
  per_pivot, (* 400: for so many elements of a bucket, one   *)
             (* more of the sample before each pivot         *)
  Samples(_, _) (* the places of a sample, of so many of so many *)

VARIABLES
  stable,
  In, Tmp, (* cells hold << key, place >>                     *)
  sorts    (* the calls not begun: [lo, hi, inplace]          *)
           (* raw memory was read, or an element written over *)

n_bucket == Len(given)
num_buckets_bucket == 2^bits
num_pivots == num_buckets_bucket - 1
f(x, y) == x[1] < y[1]
BucketCut(q, l, h) == SubSeq(q, l + 1, h)
BucketOver(q, l, new) == SubSeq(q, 1, l) \o new \o SubSeq(q, l + Len(new) + 1, Len(q))
BucketRaw(len) == [ i \in 1..len |-> Uninitialized ]

(* merge_sort is stable; quicksort leaves equal keys in an order of its    *)
(* own, here from the last place to the first.                             *)
Arranged(q) == SortSeq(q, LAMBDA x, y : f(x, y) \/ (x[1] = y[1] /\ IF stable THEN x[2] < y[2] ELSE x[2] > y[2]))

(* A call's array, and the other.                                          *)
Mine(t) == BucketCut(IF t.inplace THEN In ELSE Tmp, t.lo, t.hi)
Other(t) == BucketCut(IF t.inplace THEN Tmp ELSE In, t.lo, t.hi)
Put(t, mine, other) ==
  /\ In' = BucketOver(In, t.lo, IF t.inplace THEN mine ELSE other)
  /\ Tmp' = BucketOver(Tmp, t.lo, IF t.inplace THEN other ELSE mine)

(* to_balanced_tree: what is where in the implicit tree of q[l, r).        *)
RECURSIVE to_balanced_tree(_, _, _, _)
to_balanced_tree(q, root, l, r) ==
  LET m == l + (r - l) \div 2
  IN  IF r - l = 1 THEN { << root, q[m + 1] >> }
      ELSE { << root, q[m + 1] >> } \cup to_balanced_tree(q, 2 * root + 1, l, m)
           \cup to_balanced_tree(q, 2 * root + 2, m + 1, r)

(* The pivots of a sample of q: each over_sample-th but the first.         *)
over_sample(size) == 1 + size \div (num_buckets_bucket * per_pivot)

Pivots(q, sample) ==
  LET s == SortSeq([ i \in DOMAIN sample |-> q[sample[i]] ], f)
  IN  [ i \in 1..num_pivots |-> s[over_sample(Len(q)) * i + 1] ]

(* get_buckets: where an element comes out below the tree.                 *)
Bucket(tree, e) ==
  LET at(j) == CHOOSE x \in tree : x[1] = j
      down[k \in 0..bits] == IF k = 0 THEN 0
                             ELSE 1 + 2 * down[k - 1] + IF f(e, at(down[k - 1])[2]) THEN 0 ELSE 1
  IN  down[bits] - num_pivots

-----------------------------------------------------------------------------
BucketInit ==
  /\ stable \in BOOLEAN
  /\ \E keys \in Inputs : given = [ i \in 1..Len(keys) |-> << keys[i], i >> ]
  /\ In = given /\ Tmp = BucketRaw(Len(given))
  /\ sorts = { [ lo |-> 0, hi |-> Len(given), inplace |-> TRUE ] }
  /\ misused = FALSE

HasRaw(t) == Uninitialized \in ToSet(Mine(t))

Base(t) ==
  LET q == IF HasRaw(t) THEN Mine(t) ELSE Arranged(Mine(t))
  IN  /\ IF t.inplace THEN Put(t, q, Other(t)) ELSE Put(t, BucketRaw(Len(q)), q)
      /\ misused' = (misused \/ HasRaw(t) \/ (~t.inplace /\ Other(t) # BucketRaw(Len(q))))
      /\ sorts' = sorts \ {t}
      /\ UNCHANGED << given, stable >>

SortBase(t) == t \in sorts /\ t.hi - t.lo < BASE /\ Base(t)

(* If all pivots are equal there is nothing to divide by.                  *)
Distribute(t, sample) ==
  /\ t \in sorts /\ t.hi - t.lo >= BASE
  /\ LET q == Mine(t)
         cuts == Pivots(q, sample)
         tree == to_balanced_tree(cuts, 0, 0, num_pivots)
         b == [ i \in DOMAIN q |-> Bucket(tree, q[i]) ]
         upto(j) == Cardinality({ i \in DOMAIN q : b[i] < j })
         moved == FlattenSeq([ j \in 1..num_buckets_bucket |->
                    [ x \in 1..(upto(j) - upto(j - 1)) |->
                        q[CHOOSE i \in DOMAIN q : b[i] = j - 1 /\ Cardinality({ h \in 1..i : b[h] = j - 1 }) = x] ] ])
     IN  IF HasRaw(t) \/ ~f(cuts[1], cuts[num_pivots]) THEN Base(t)
         ELSE /\ Put(t, BucketRaw(Len(q)), moved)
              /\ misused' = (misused \/ Other(t) # BucketRaw(Len(q)))
              /\ sorts' = (sorts \ {t}) \cup
                   { [ lo |-> t.lo + upto(j), hi |-> t.lo + upto(j + 1), inplace |-> ~t.inplace ] : j \in 0..num_pivots }
              /\ UNCHANGED << given, stable >>

BucketNext ==
  \E t \in sorts :
    LET size == t.hi - t.lo IN
    \/ SortBase(t)
    \/ \E sample \in Samples(num_buckets_bucket * over_sample(size), size) : Distribute(t, sample)

Done == sorts = {}

-----------------------------------------------------------------------------
(* Every relocation is from an element to raw memory, at every level.      *)
Relocated == ~misused

(* Sorted, stably if that was asked for, in the array it came in.          *)
BucketSortedRight ==
  Done => /\ Tmp = BucketRaw(n_bucket) /\ ToSet(In) = ToSet(given)
          /\ \A i, j \in 1..n_bucket : i < j => f(In[i], In[j]) \/ (In[i][1] = In[j][1] /\ (stable => In[i][2] < In[j][2]))
=============================================================================
