--------------------------- MODULE CountingSorts ---------------------------
(***************************************************************************)
(* parlay's sorts by counting: one pass over few buckets, and the radix    *)
(* sort that is made of such passes; each a state machine of its own.      *)
(***************************************************************************)
EXTENDS Integers, FiniteSets, SequencesExt

----------------------------------------------------------------------------
(***************************************************************************)
(* counting_sort.h: the elements are counted by block and bucket, the      *)
(* counts give where each block's part of each bucket begins, and the      *)
(* blocks are written there, all blocks (and in between all buckets) in    *)
(* parallel.  count_sort_ writes one sequence, group_by_small_int a        *)
(* sequence for each bucket, with less ado if there are two, and           *)
(* seq_count_sort one block by itself, from its end.  Bodies of a loop do  *)
(* not share what they write, so a body is one step.  In place, elements   *)
(* are relocated, and their keys with them, and brought back at the end.   *)
(* random_shuffle (random.h) sorts copies by the low bits of random        *)
(* numbers, here the keys, and shuffles each bucket by itself.             *)
(***************************************************************************)
CONSTANTS
  CountInputs, (* sequences of keys                                  *)
  num_buckets,
  BlockCounts, (* the numbers of blocks, one for the sequential sort *)
  Modes,       (* the functions: "counting_sort",                    *)
               (* "counting_sort_inplace", "group_by_small_int",     *)
               (* "random_shuffle", and "skip_if_in_one" within      *)
               (* integer_sort                                       *)
  SEQ_THRESHOLD, (* of random_shuffle: 8192                          *)
  None

VARIABLES
  mode, given,    (* elements: << key, place >>                        *)
  In,             (* what is left of them there                        *)
  num_blocks,
  phase,          (* "count", "total", "scan", "dest", "write",        *)
                  (* "shuffle", "back", "done"                         *)
  todo,           (* the bodies of the phase's loop that have not run  *)
  counts,         (* of each block, each bucket's                      *)
  bucket_offsets, (* each bucket's size, then where it begins          *)
  dest_offsets,
  Out,            (* for each place written, what was written          *)
  twice           (* a place was constructed twice, or an element read *)
                  (* that had been relocated                           *)

n_count == Len(given)
Copying == mode # "counting_sort_inplace"
Grouping == mode = "group_by_small_int"
Shuffling == mode = "random_shuffle"
Short == Shuffling /\ n_count < SEQ_THRESHOLD
Buckets == 0..(num_buckets - 1)
Blocks == 0..(num_blocks - 1)
Keys(j) == given[j + 1][1]
CountMinOf(a, b) == IF a < b THEN a ELSE b
block_size == (IF n_count = 0 THEN 0 ELSE (n_count - 1) \div num_blocks) + 1

start(i) == CountMinOf(i * block_size, n_count)

Block(i) == start(i)..(CountMinOf(start(i) + block_size, n_count) - 1)

Sum(S, g(_)) == LET sum[m \in 0..num_buckets + num_blocks] == IF m = 0 THEN 0 ELSE sum[m - 1] + (IF m - 1 \in S THEN g(m - 1) ELSE 0)
                IN sum[num_buckets + num_blocks]

(* What of In is left when the elements J have been written, and whether   *)
(* they were there.                                                        *)
Left(J) == IF Copying THEN In ELSE [ x \in DOMAIN In |-> IF x - 1 \in J THEN None ELSE In[x] ]
There(J) == \A j \in J : In[j + 1] # None

(* seq_count_ of the elements J.                                           *)
Count(J) == [ k \in Buckets |-> Cardinality({ j \in J : Keys(j) = k }) ]

(* What seq_write_ of the elements J makes of the places offsets give for  *)
(* the buckets: a set of pairs of a place and an element.                  *)
Write(J, offsets) ==
  { << offsets[Keys(j)] + Cardinality({ i \in J : i < j /\ Keys(i) = Keys(j) }), In[j + 1] >> : j \in J }

(* seq_write_down_: offsets are the ends, and it goes from the last.       *)
WriteDown(J, offsets) ==
  { << offsets[Keys(j)] - 1 - Cardinality({ i \in J : i > j /\ Keys(i) = Keys(j) }), In[j + 1] >> : j \in J }

(* The places of group_by_small_int's results are numbered by bucket, with *)
(* room for everything in each.                                            *)
Begin(k) == IF Grouping THEN k * n_count ELSE bucket_offsets[k]

-----------------------------------------------------------------------------
Two == Grouping /\ num_buckets = 2

CountInit ==
  /\ mode \in Modes
  /\ \E keys \in CountInputs : given = [ i \in 1..Len(keys) |-> << keys[i], i >> ]
  /\ In = given
  /\ num_blocks \in BlockCounts
  /\ phase = IF Short THEN "short" ELSE IF num_blocks = 1 /\ ~Grouping THEN "alone" ELSE "count"
  /\ todo = IF Two THEN { i \in Blocks : start(i) < n_count } ELSE Blocks
  /\ counts = [ i \in Blocks |-> IF Two THEN 0 ELSE None ]
  /\ bucket_offsets = [ k \in 0..num_buckets |-> None ]
  /\ dest_offsets = [ i \in Blocks |-> [ k \in Buckets |-> None ] ]
  /\ Out = {}
  /\ twice = FALSE

(* The places an element was written to already, or outside.               *)
Meets(W) == \E w \in W : (\E v \in Out : v[1] = w[1]) \/ (\E v \in W : v # w /\ v[1] = w[1])

(* What comes when all is written.                                         *)
Written == IF Shuffling THEN "shuffle" ELSE IF Copying THEN "done" ELSE "back"

(* seq_count_sort.                                                         *)
Alone ==
  /\ phase = "alone"
  /\ LET c == Count(0..(n_count - 1))
         end == [ k \in Buckets |-> Sum(0..k, LAMBDA b : c[b]) ]
     IN  /\ Out' = WriteDown(0..(n_count - 1), end)
         /\ twice' = (Meets(Out') \/ ~There(0..(n_count - 1)))
         /\ bucket_offsets' = [ k \in 0..num_buckets |-> IF k = num_buckets THEN n_count ELSE end[k] - c[k] ]
  /\ In' = Left(0..(n_count - 1))
  /\ phase' = Written
  /\ todo' = IF Shuffling THEN Buckets ELSE {}
  /\ UNCHANGED << mode, given, num_blocks, counts, dest_offsets >>

CountBlock(i) ==
  /\ phase = "count" /\ ~Two /\ i \in todo
  /\ counts' = [ counts EXCEPT ![i] = Count(Block(i)) ]
  /\ twice' = (twice \/ ~There(Block(i)))
  /\ todo' = todo \ {i}
  /\ UNCHANGED << mode, given, In, num_blocks, phase, bucket_offsets, dest_offsets, Out >>

TotalOf(k) ==
  /\ phase = "total" /\ k \in todo
  /\ bucket_offsets' = [ bucket_offsets EXCEPT ![k] = Sum(Blocks, LAMBDA j : counts[j][k]) ]
  /\ todo' = todo \ {k}
  /\ UNCHANGED << mode, given, In, num_blocks, phase, counts, dest_offsets, Out, twice >>

NonZero == { k \in Buckets : bucket_offsets[k] > 0 }

(* The exclusive scan, which group_by_small_int has no need of; and        *)
(* nothing is moved if one bucket has everything and that is asked for.    *)
Scan ==
  /\ phase = "scan"
  /\ bucket_offsets' =
       IF Grouping THEN bucket_offsets
       ELSE [ k \in 0..num_buckets |-> Sum(0..(k - 1), LAMBDA b : bucket_offsets[b]) ]
  /\ phase' = IF mode = "skip_if_in_one" /\ Cardinality(NonZero) = 1 THEN "in one" ELSE "dest"
  /\ todo' = IF phase' = "dest" THEN Buckets ELSE {}
  /\ UNCHANGED << mode, given, In, num_blocks, counts, dest_offsets, Out, twice >>

DestOf(k) ==
  /\ phase = "dest" /\ k \in todo
  /\ dest_offsets' = [ j \in Blocks |->
       [ dest_offsets[j] EXCEPT ![k] = Begin(k) + Sum(0..(j - 1), LAMBDA i : counts[i][k]) ] ]
  /\ todo' = todo \ {k}
  /\ UNCHANGED << mode, given, In, num_blocks, phase, counts, bucket_offsets, Out, twice >>

WriteBlock(i) ==
  /\ phase = "write" /\ ~Two /\ i \in todo
  /\ LET W == Write(Block(i), dest_offsets[i])
     IN  /\ Out' = Out \cup W
         /\ twice' = (twice \/ Meets(W) \/ ~There(Block(i)))
  /\ In' = Left(Block(i))
  /\ todo' = todo \ {i}
  /\ UNCHANGED << mode, given, num_blocks, phase, counts, bucket_offsets, dest_offsets >>

(* group_by_small_int with two buckets: the blocks count what goes to the  *)
(* first, and the counts are scanned; what does not goes to the second.    *)
CountZeros(i) ==
  /\ phase = "count" /\ Two /\ i \in todo
  /\ counts' = [ counts EXCEPT ![i] = Cardinality({ j \in Block(i) : Keys(j) = 0 }) ]
  /\ todo' = todo \ {i}
  /\ UNCHANGED << mode, given, In, num_blocks, phase, bucket_offsets, dest_offsets, Out, twice >>

ScanZeros ==
  /\ phase = "count" /\ Two /\ todo = {}
  /\ LET m == Sum(Blocks, LAMBDA j : counts[j])
     IN  bucket_offsets' = [ bucket_offsets EXCEPT ![0] = m, ![1] = n_count - m ]
  /\ counts' = [ i \in Blocks |-> Sum(0..(i - 1), LAMBDA j : counts[j]) ]
  /\ todo' = { i \in Blocks : start(i) < n_count }
  /\ phase' = "write"
  /\ UNCHANGED << mode, given, In, num_blocks, dest_offsets, Out, twice >>

WriteTwo(i) ==
  /\ phase = "write" /\ Two /\ i \in todo
  /\ LET c0 == counts[i]
         c1 == start(i) - c0
         W == Write(Block(i), (0 :> Begin(0) + c0) @@ (1 :> Begin(1) + c1))
     IN  /\ Out' = Out \cup W
         /\ twice' = (twice \/ Meets(W))
  /\ todo' = todo \ {i}
  /\ UNCHANGED << mode, given, In, num_blocks, phase, counts, bucket_offsets, dest_offsets >>

(* count_sort_inplace: the elements are relocated back.                    *)
Back ==
  /\ phase = "back"
  /\ twice' = (twice \/ \E x \in DOMAIN In : In[x] # None \/ ~ \E w \in Out : w[1] = x - 1)
  /\ IF twice' THEN UNCHANGED << In, Out >>
     ELSE In' = [ x \in DOMAIN In |-> (CHOOSE w \in Out : w[1] = x - 1)[2] ] /\ Out' = {}
  /\ phase' = "done"
  /\ UNCHANGED << mode, given, num_blocks, todo, counts, bucket_offsets, dest_offsets >>

(* seq_random_shuffle_: the Knuth shuffle of W, which has the places from  *)
(* lo to hi - 1, with any random numbers.                                  *)
seq_random_shuffle(W, lo, hi, rand) ==
  LET shuffled[i \in 1..(hi - lo)] ==
        IF i = hi - lo THEN [ j \in 0..(hi - lo - 1) |-> (CHOOSE w \in W : w[1] = lo + j)[2] ]
        ELSE LET A == shuffled[i + 1]
                 j == rand[i] % (i + 1)
             IN  [ A EXCEPT ![i] = A[j], ![j] = A[i] ]
  IN  IF hi = lo THEN {} ELSE { << lo + j, shuffled[1][j] >> : j \in 0..(hi - lo - 1) }

Rands(len) == [ 1..(len - 1) -> 0..(len - 1) ]

ShuffleShort ==
  /\ phase = "short"
  /\ \E rand \in Rands(n_count) :
       Out' = seq_random_shuffle({ << j, In[j + 1] >> : j \in 0..(n_count - 1) }, 0, n_count, rand)
  /\ phase' = "done"
  /\ UNCHANGED << mode, given, In, num_blocks, todo, counts, bucket_offsets, dest_offsets, twice >>

ShuffleBucket(k) ==
  /\ phase = "shuffle" /\ k \in todo
  /\ LET lo == bucket_offsets[k]
         hi == bucket_offsets[k + 1]
         W == { w \in Out : w[1] \in lo..(hi - 1) }
     IN  \E rand \in Rands(hi - lo) : Out' = (Out \ W) \cup seq_random_shuffle(W, lo, hi, rand)
  /\ todo' = todo \ {k}
  /\ UNCHANGED << mode, given, In, num_blocks, phase, counts, bucket_offsets, dest_offsets, twice >>

(* A loop ends when all its bodies have run.                               *)
LoopEnds ==
  /\ ~(Two /\ phase = "count")
  /\ todo = {} /\ phase \in {"count", "total", "dest", "write", "shuffle"}
  /\ phase' = CASE phase = "count" -> "total"
                [] phase = "total" -> "scan"
                [] phase = "dest" -> "write"
                [] phase = "write" -> Written
                [] phase = "shuffle" -> "done"
  /\ todo' = CASE phase' \in {"total", "shuffle"} -> Buckets [] phase' = "write" -> Blocks [] OTHER -> {}
  /\ UNCHANGED << mode, given, In, num_blocks, counts, bucket_offsets, dest_offsets, Out, twice >>

CountNext ==
  \/ Alone \/ Scan \/ ScanZeros \/ Back \/ LoopEnds \/ ShuffleShort
  \/ \E i \in Blocks : CountBlock(i) \/ WriteBlock(i) \/ CountZeros(i) \/ WriteTwo(i)
  \/ \E k \in Buckets : TotalOf(k) \/ DestOf(k) \/ ShuffleBucket(k)

-----------------------------------------------------------------------------
Of(k) == SelectSeq(given, LAMBDA e : e[1] = k)
Less(k) == Cardinality({ j \in 0..(n_count - 1) : Keys(j) < k })

(* What must be at which place: each bucket in the order of the input.     *)
Meant(Start(_)) == UNION { { << Start(k) + i - 1, Of(k)[i] >> : i \in DOMAIN Of(k) } : k \in Buckets }

(* Blocks written in parallel never meet.                                  *)
OnceEach == ~twice

(* Each element once, those of a bucket together.                          *)
Permuted ==
  /\ { w[1] : w \in Out } = 0..(n_count - 1) /\ Cardinality(Out) = n_count
  /\ { w[2] : w \in Out } = { given[x] : x \in DOMAIN given }
  /\ ~Short => \A v, w \in Out : v[2][1] < w[2][1] => v[1] < w[1]

(* The result is the stable one for every number of blocks, and so are the *)
(* offsets returned; a sort that is skipped had nothing to do; a shuffle   *)
(* keeps every element.                                                    *)
CountStableRight ==
  /\ phase = "done" /\ Grouping => Out = Meant(LAMBDA k : k * n_count) /\ \A k \in Buckets : bucket_offsets[k] = Len(Of(k))
  /\ phase = "done" /\ Shuffling => Permuted
  /\ phase = "done" /\ ~Grouping /\ ~Shuffling => (IF Copying THEN Out ELSE { << x - 1, In[x] >> : x \in DOMAIN In }) = Meant(Less)
  /\ phase \in {"done", "in one"} /\ ~Grouping /\ ~Short => \A k \in 0..num_buckets : bucket_offsets[k] = Less(k)
  /\ phase = "in one" => Out = {} /\ \E k \in Buckets : Of(k) = given

----------------------------------------------------------------------------
(***************************************************************************)
(* integer_sort.h: a radix sort from the top, whose buckets are sorted in  *)
(* parallel by the same code with the roles of the arrays exchanged, and   *)
(* from the bottom once a bucket is small.  Elements are relocated from    *)
(* array to array; which array has the result, and which must be raw       *)
(* memory when, is the contract at the head of integer_sort_r.             *)
(***************************************************************************)
CONSTANTS
  RadixInputs,    (* sequences of keys                       *)
  Calls,          (* the calls: [ kind, bits, num_buckets ]  *)
  radix,          (* 8                                       *)
  outer_bits,     (* 8: the bits of a division               *)
  BaseBits,       (* base_bits, 8 to 13 by the size of input *)
  BASE_CASE_SIZE, (* 2^17                                    *)
  Relocatable,    (* whether elements are trivially so       *)
  Uninitialized

VARIABLES
  call, base_bits, trivially,
  mem,     (* arrays "A", "B", "C": cells hold << key, place >> *)
  sorts,   (* the calls of integer_sort_r not begun             *)
  radixes, (* the calls of seq_radix_sort_ under way            *)
  offsets, (* of each bucket, if they were asked for            *)
  misused  (* raw memory was read or an element written over    *)

n_radix == Len(given)
Raw(len) == [ i \in 1..len |-> Uninitialized ]
Cut(q, l, h) == SubSeq(q, l + 1, h)
Over(q, l, new) == SubSeq(q, 1, l) \o new \o SubSeq(q, l + Len(new) + 1, Len(q))
Size(t) == t.hi - t.lo
RadixMinOf(a, b) == IF a < b THEN a ELSE b
integer_sort_inplace == call.kind = "inplace"
integer_sort == ~integer_sort_inplace
inplace(t) == t.in = t.result

log2_up(x) == CHOOSE a \in 0..20 : 2^a >= x /\ (a = 0 \/ 2^(a - 1) < x)

(* The bits of an element's key from off on.                               *)
Bits(e, off, bits) == IF e = Uninitialized THEN 0 ELSE (e[1] \div 2^off) % 2^bits

(* The counting sort by those bits: stable.                                *)
Sorted(q, off, bits) ==
  FlattenSeq([ b \in 1..2^bits |-> SelectSeq(q, LAMBDA e : Bits(e, off, bits) = b - 1) ])
Before(q, off, bits, b) == Cardinality({ i \in DOMAIN q : Bits(q[i], off, bits) < b })

(* What is left of memory m when the cells of from in [lo, hi) have gone   *)
(* to the same cells of to, arranged as q.  An element that is moved onto  *)
(* itself is constructed from itself and then destroyed, or copied.        *)
Move(m, from, to, lo, q, copy) ==
  IF from = to
  THEN IF trivially THEN m ELSE [ m EXCEPT ![to] = Over(@, lo, Raw(Len(q))) ]
  ELSE [ m EXCEPT ![to] = Over(@, lo, q), ![from] = IF copy THEN @ ELSE Over(@, lo, Raw(Len(q))) ]
Bad(m, from, to, lo, hi) ==
  \E i \in (lo + 1)..hi : m[from][i] = Uninitialized \/ (from # to /\ m[to][i] # Uninitialized)

Here(t) == Cut(mem[t.in], t.lo, t.hi)
OneBucket(t, off, bits) == \E b \in 0..(2^bits - 1) : \A i \in DOMAIN Here(t) : Bits(Here(t)[i], off, bits) = b

-----------------------------------------------------------------------------
(* integer_sort_inplace sorts A with B and no third array; integer_sort    *)
(* copies A into B, sorted, with C for help.  Offsets are asked for by     *)
(* collect_reduce only.                                                    *)
RadixInit ==
  /\ call \in Calls /\ base_bits \in BaseBits /\ trivially \in Relocatable
  /\ \E keys \in RadixInputs :
       /\ \A i \in DOMAIN keys : keys[i] < IF call.num_buckets > 0 THEN call.num_buckets ELSE IF call.bits > 0 THEN 2^call.bits ELSE keys[i] + 1
       /\ given = [ i \in 1..Len(keys) |-> << keys[i], i >> ]
       /\ LET max == CHOOSE m \in {0} \cup ToSet(keys) : \A x \in ToSet(keys) : x <= m
              tmp == IF integer_sort_inplace THEN "A" ELSE "C"
          IN  sorts = { [ in |-> "A", out |-> "B", tmp |-> tmp,
                          result |-> IF integer_sort_inplace THEN "A" ELSE "B",
                          copy |-> integer_sort, lo |-> 0, hi |-> Len(keys), nested |-> FALSE,
                          bits |-> IF call.bits = 0 THEN log2_up(max + 1) ELSE call.bits,
                          first |-> 0, num_buckets |-> IF call.kind = "offsets" THEN call.num_buckets ELSE 0 ] }
  /\ mem = [ A |-> given, B |-> Raw(Len(given)), C |-> Raw(Len(given)) ]
  /\ radixes = {}
  /\ offsets = IF call.kind # "offsets" THEN << >>
               ELSE [ b \in 1..(call.num_buckets + 1) |-> IF b > call.num_buckets THEN Len(given) ELSE Uninitialized ]
  /\ misused = FALSE

(* No bits are left: what is not to stay is moved.                         *)
NoBits(t) ==
  /\ t \in sorts /\ t.bits = 0
  /\ IF inplace(t) THEN UNCHANGED << mem, misused >>
     ELSE /\ mem' = Move(mem, t.in, t.out, t.lo, Here(t), t.copy)
          /\ misused' = (misused \/ Bad(mem, t.in, t.out, t.lo, t.hi))
  /\ sorts' = sorts \ {t}
  /\ UNCHANGED << given, call, base_bits, trivially, radixes, offsets >>

(* Small, or a part so small of a huge input that it has no parallelism.   *)
Little(t) == (Size(t) < BASE_CASE_SIZE \/ t.nested) /\ t.num_buckets = 0

(* seq_radix_sort: the input is first put where an even or odd number of   *)
(* rounds leaves the result in Out.                                        *)
(* Mutant: as if there were always an odd number of rounds.                *)
SeqRadixAnyParity(t) ==
  /\ t \in sorts /\ t.bits > 0 /\ Little(t)
  /\ LET r(x, y, inp) == [ x |-> x, y |-> y, lo |-> t.lo, hi |-> t.hi, left |-> t.bits, off |-> 0,
                           swapped |-> FALSE, inplace |-> inp ]
     IN  IF inplace(t)
         THEN radixes' = radixes \cup { r(t.in, t.out, TRUE) } /\ UNCHANGED << mem, misused >>
         ELSE /\ mem' = Move(mem, t.in, t.tmp, t.lo, Here(t), t.copy)
              /\ misused' = (misused \/ Bad(mem, t.in, t.tmp, t.lo, t.hi))
              /\ radixes' = radixes \cup { r(t.tmp, t.out, TRUE) }
  /\ sorts' = sorts \ {t}
  /\ UNCHANGED << given, call, base_bits, trivially, offsets >>

SeqRadix(t) ==
  /\ t \in sorts /\ t.bits > 0 /\ Little(t)
  /\ LET odd == ((t.bits - 1) \div radix) % 2 = 1
         first == IF odd THEN t.tmp ELSE t.out
         r(x, y, inp) == [ x |-> x, y |-> y, lo |-> t.lo, hi |-> t.hi, left |-> t.bits, off |-> 0,
                           swapped |-> FALSE, inplace |-> inp ]
     IN  IF inplace(t)
         THEN radixes' = radixes \cup { r(t.in, t.out, TRUE) } /\ UNCHANGED << mem, misused >>
         ELSE /\ mem' = Move(mem, t.in, first, t.lo, Here(t), t.copy)
              /\ misused' = (misused \/ Bad(mem, t.in, first, t.lo, t.hi))
              /\ radixes' = radixes \cup { r(first, IF odd THEN t.out ELSE t.tmp, ~odd) }
  /\ sorts' = sorts \ {t}
  /\ UNCHANGED << given, call, base_bits, trivially, offsets >>

Round(r) ==
  /\ r \in radixes /\ r.left > 0 /\ r.hi > r.lo
  /\ LET round_bits == RadixMinOf(radix, r.left)
         from == IF r.swapped THEN r.y ELSE r.x
         to == IF r.swapped THEN r.x ELSE r.y
     IN  /\ mem' = Move(mem, from, to, r.lo, Sorted(Cut(mem[from], r.lo, r.hi), r.off, round_bits), FALSE)
         /\ misused' = (misused \/ Bad(mem, from, to, r.lo, r.hi))
         /\ radixes' = (radixes \ {r}) \cup
              { [ r EXCEPT !.left = @ - round_bits, !.off = @ + round_bits, !.swapped = ~@ ] }
  /\ UNCHANGED << given, call, base_bits, trivially, sorts, offsets >>

(* After the last round the elements are in y if swapped.                  *)
RadixEnds(r) ==
  /\ r \in radixes /\ (r.left = 0 \/ r.hi = r.lo)
  /\ LET from == IF r.swapped THEN r.y ELSE r.x
         to == IF r.swapped THEN r.x ELSE r.y
     IN  IF r.hi > r.lo /\ r.swapped = r.inplace
         THEN /\ mem' = Move(mem, from, to, r.lo, Cut(mem[from], r.lo, r.hi), FALSE)
              /\ misused' = (misused \/ Bad(mem, from, to, r.lo, r.hi))
         ELSE UNCHANGED << mem, misused >>
  /\ radixes' = radixes \ {r}
  /\ UNCHANGED << given, call, base_bits, trivially, sorts, offsets >>

(* Few bits: one counting sort, and back if the result is to stay.  If all *)
(* is in one bucket a parallel counting sort may do nothing.               *)
FewBits(t) ==
  /\ t \in sorts /\ t.bits > 0 /\ t.bits <= base_bits
  /\ Size(t) >= BASE_CASE_SIZE \/ t.num_buckets > 0
  /\ LET q == Sorted(Here(t), 0, t.bits)
         num_bkts == IF t.num_buckets = 0 THEN 2^t.bits ELSE t.num_buckets
     IN  /\ \E one_bucket \in BOOLEAN :
              /\ one_bucket => inplace(t) /\ OneBucket(t, 0, t.bits)
              /\ mem' = IF one_bucket THEN mem
                        ELSE LET moved == Move(mem, t.in, t.out, t.lo, q, t.copy)
                             IN  IF inplace(t) THEN Move(moved, t.out, t.in, t.lo, q, FALSE) ELSE moved
              /\ misused' = (misused \/ (~one_bucket /\ Bad(mem, t.in, t.out, t.lo, t.hi)))
         /\ IF t.num_buckets = 0 THEN UNCHANGED offsets
            ELSE offsets' = [ b \in 1..Len(offsets) |->
                   IF b - 1 - t.first \in 0..(num_bkts - 1)
                   THEN t.lo + Before(Here(t), 0, t.bits, b - 1 - t.first) ELSE offsets[b] ]
  /\ sorts' = sorts \ {t}
  /\ UNCHANGED << given, call, base_bits, trivially, radixes >>

(* If all is in one bucket of the highest bits, try those below.           *)
Again(t) ==
  /\ t \in sorts /\ t.bits > base_bits /\ Size(t) >= BASE_CASE_SIZE /\ t.num_buckets = 0
  /\ OneBucket(t, t.bits - outer_bits, outer_bits)
  /\ sorts' = (sorts \ {t}) \cup { [ t EXCEPT !.bits = @ - outer_bits ] }
  /\ UNCHANGED << given, call, base_bits, trivially, mem, radixes, offsets, misused >>

(* Bucket i of a division, to be sorted within Out with Tmp's help.        *)
Part(t, i) ==
  LET shift == t.bits - outer_bits
      at(b) == t.lo + Before(Here(t), shift, outer_bits, b)
  IN  [ in |-> t.out, out |-> t.tmp, tmp |-> t.out, result |-> t.result,
        copy |-> FALSE, lo |-> at(i), hi |-> at(i + 1), nested |-> TRUE, bits |-> shift,
        first |-> t.first + i * 2^shift, num_buckets |-> IF t.num_buckets = 0 THEN 0 ELSE 2^shift ]

(* A part that is empty and has no offsets to return does nothing.         *)
Divide(t) ==
  /\ t \in sorts /\ t.bits > base_bits
  /\ Size(t) >= BASE_CASE_SIZE \/ t.num_buckets > 0
  /\ mem' = Move(mem, t.in, t.out, t.lo, Sorted(Here(t), t.bits - outer_bits, outer_bits), t.copy)
  /\ misused' = (misused \/ Bad(mem, t.in, t.out, t.lo, t.hi))
  /\ sorts' = (sorts \ {t}) \cup
       { p \in { Part(t, i) : i \in 0..(2^outer_bits - 1) } : p.lo < p.hi \/ p.num_buckets > 0 }
  /\ UNCHANGED << given, call, base_bits, trivially, radixes, offsets >>

RadixNext ==
  \/ \E t \in sorts : NoBits(t) \/ SeqRadix(t) \/ FewBits(t) \/ Again(t) \/ Divide(t)
  \/ \E r \in radixes : Round(r) \/ RadixEnds(r)

Done == sorts = {} /\ radixes = {}
Result == mem[IF integer_sort_inplace THEN "A" ELSE "B"]

(* get_counts, from where each integer begins and ends in sorted q.        *)
get_counts(q, buckets) ==
  IF q = << >> THEN [ b \in 0..(buckets - 1) |-> 0 ]
  ELSE LET Starts(b) == { i \in 1..(Len(q) - 1) : q[i][1] # q[i + 1][1] /\ q[i + 1][1] = b }
           Ends(b) == { i \in 1..(Len(q) - 1) : q[i][1] # q[i + 1][1] /\ q[i][1] = b }
                        \cup (IF q[Len(q)][1] = b THEN { Len(q) } ELSE {})
       IN  [ b \in 0..(buckets - 1) |->
               (IF Ends(b) = {} THEN 0 ELSE CHOOSE i \in Ends(b) : TRUE)
               - (IF Starts(b) = {} THEN 0 ELSE CHOOSE i \in Starts(b) : TRUE) ]

-----------------------------------------------------------------------------
(* The contract of integer_sort_r, at every level at once: what is read is *)
(* an element, and what is constructed on is raw memory.                   *)
Contract == ~misused

(* The sort is stable; sorted in place it leaves the other array raw, and  *)
(* otherwise its input as it was and the third array raw.                  *)
RadixStableRight ==
  Done =>
    /\ \A i, j \in 1..n_radix : i < j =>
         Result[i][1] < Result[j][1] \/ (Result[i][1] = Result[j][1] /\ Result[i][2] < Result[j][2])
    /\ ToSet(Result) = ToSet(given)
    /\ IF integer_sort_inplace THEN mem["B"] = Raw(n_radix) ELSE mem["A"] = given /\ mem["C"] = Raw(n_radix)

(* The offsets count what is less, and the counts what there is.           *)
OffsetsRight ==
  Done => /\ call.kind = "offsets" =>
               \A b \in 0..call.num_buckets : offsets[b + 1] = Cardinality({ i \in 1..n_radix : given[i][1] < b })
          /\ call.kind = "counts" =>
               \A b \in 0..(call.num_buckets - 1) :
                 get_counts(Result, call.num_buckets)[b] = Cardinality({ i \in 1..n_radix : given[i][1] = b })
=============================================================================
