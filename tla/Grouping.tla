------------------------------ MODULE Grouping ------------------------------
(***************************************************************************)
(* What parlay does with the values of equal keys: combines them, or puts  *)
(* them into groups; each a state machine of its own.                      *)
(***************************************************************************)
EXTENDS Integers, FiniteSets, SequencesExt

----------------------------------------------------------------------------
(***************************************************************************)
(* collect_reduce.h and its callers in group_by.h: the values of equal     *)
(* keys are combined.  Few buckets are combined block by block and then    *)
(* across blocks; with many, the elements are first sorted into blocks by  *)
(* a hash function that gives a block of its own to each key seen often in *)
(* a sample, and blocks are combined in parallel; sparse keys go through a *)
(* hash table of each block.                                               *)
(***************************************************************************)
CONSTANTS
  CollectInputs,    (* sequences of keys; an element's value is its place *)
  Kinds,            (* the functions of group_by.h named below            *)
  num_buckets,      (* of the result                                      *)
  Blocks,           (* the numbers of blocks: a power of two for blocks   *)
                    (* by hash                                            *)
  CR_SEQ_THRESHOLD, (* 8192; 10000 for sparse keys                        *)
  copy_cutoff,      (* 5                                                  *)
  Hashes,           (* hash functions: from keys to numbers               *)
  Samples(_),       (* the places looked at, as many as hash64 gives      *)
  None

VARIABLES
  kind, A,
  relocating, (* whether A was given up by the caller *)
  hash, sample, num_blocks,
  pc,       (* "start", "few", "combine", "hashed", "done"     *)
  todo,     (* the bodies of the parallel loop that are to run *)
  blocks,   (* of each block its elements                      *)
  heavy,    (* the number of keys with a block of their own    *)
  sums,     (* the result; a set of pairs for sparse keys      *)
  partial,  (* of each block, its result                       *)
  destroyed (* how often each element was, as << key, value >> *)

n_collect == Len(A)
Keys == 0..(num_buckets - 1)
get_key(e) == e[1]

-----------------------------------------------------------------------------
(* The functions whose keys are indices of the result, with the helpers    *)
(* they hand on.  The monoids concatenate; group_by_index_, which nothing  *)
(* calls, is not to be handed a sequence of values.                        *)
histogram_by_index == kind = "histogram_by_index"
remove_duplicate_integers == kind = "remove_duplicate_integers"
group_by_index_ == kind = "group_by_index_"

init == IF histogram_by_index THEN 0 ELSE IF remove_duplicate_integers THEN FALSE ELSE << >>
get_val(e) == IF histogram_by_index THEN 1 ELSE IF remove_duplicate_integers THEN TRUE ELSE << e[2] >>
update(d, v) == IF histogram_by_index THEN d + v ELSE IF remove_duplicate_integers THEN TRUE ELSE d \o v
values(q) == [ i \in DOMAIN q |-> q[i][2] ]
combine(q) == IF histogram_by_index THEN Len(q) ELSE IF remove_duplicate_integers THEN TRUE ELSE values(q)

(* Those whose keys are any.  A key that is all there is of an element has *)
(* no value to be destroyed.                                               *)
reduce_by_key == kind = "reduce_by_key"
group_by_key == kind = "group_by_key"
histogram_by_key == kind = "histogram_by_key"
remove_duplicates == kind = "remove_duplicates"
Sparse == reduce_by_key \/ group_by_key \/ histogram_by_key \/ remove_duplicates
HasValue == reduce_by_key \/ group_by_key

first(e) == IF histogram_by_key THEN 1 ELSE IF remove_duplicates THEN None ELSE << e[2] >>
added(d, e) ==
  IF histogram_by_key THEN d + 1 ELSE IF remove_duplicates THEN d ELSE IF group_by_key THEN Append(d, e[2]) ELSE d \o << e[2] >>
reduce(q) == IF histogram_by_key THEN Len(q) ELSE IF remove_duplicates THEN None ELSE values(q)
destruct(d) == << d[1] + 1, IF HasValue THEN d[2] + 1 ELSE d[2] >>

seq_collect_reduce(q, Out) ==
  FoldLeft(LAMBDA s, e : [ s EXCEPT ![get_key(e)] = update(@, get_val(e)) ], Out, q)
Identity == [ k \in Keys |-> init ]

-----------------------------------------------------------------------------
(* get_bucket: a table of the sample with one less than each key's count.  *)
table_size == 4 * num_blocks
Probe(t, k) ==
  LET at(i) == (hash[k] + i) % table_size
      stop == CHOOSE i \in 0..(table_size - 1) :
                 /\ t[at(i)][2] = -1 \/ t[at(i)][1] = k
                 /\ \A j \in 0..(i - 1) : t[at(j)][2] # -1 /\ t[at(j)][1] # k
  IN  at(stop)
Counted ==
  FoldLeft(LAMBDA t, p : LET k == get_key(A[p]) IN [ t EXCEPT ![Probe(t, k)] = << k, @[2] + 1 >> ],
           [ i \in 0..(table_size - 1) |-> << None, -1 >> ], sample)

(* The heavy keys in the order of their slots; one is given up if another  *)
(* has its first slot already.                                             *)
Heavy ==
  LET counted == Counted
      often == SelectSeq([ j \in 1..table_size |-> j - 1 ], LAMBDA i : counted[i][2] + 2 > copy_cutoff)
      add(h, i) == LET k == counted[i][1]
                       idx == hash[k] % table_size
                   IN  IF h.at[idx][2] # -1 THEN h
                       ELSE [ next |-> h.next + 1, at |-> [ h.at EXCEPT ![idx] = << k, h.next >> ] ]
  IN  FoldLeft(add, [ next |-> 0, at |-> [ i \in 0..(table_size - 1) |-> << None, -1 >> ] ], often)

(* The block of key k, h being what Heavy gives.                           *)
(* Mutant: other keys may be given a heavy key's block.                    *)
get_bucket_shared(h, k) ==
  LET s == h.at[hash[k] % table_size]
  IN  IF h.next > 0 /\ s[2] # -1 /\ s[1] = k THEN s[2] ELSE hash[k] % num_blocks

get_bucket(h, k) ==
  LET s == h.at[hash[k] % table_size]
      low == hash[k] % num_blocks
  IN  IF h.next = 0 THEN low
      ELSE IF s[2] # -1 /\ s[1] = k THEN s[2]
      ELSE IF low < h.next THEN (low % (num_blocks - h.next)) + h.next
      ELSE low

-----------------------------------------------------------------------------
CollectInit ==
  /\ kind \in Kinds
  /\ relocating \in IF Sparse THEN BOOLEAN ELSE {FALSE}
  /\ \E keys \in CollectInputs : A = [ i \in 1..Len(keys) |-> << keys[i], i >> ]
  /\ group_by_index_ => Len(A) <= num_buckets * num_buckets (* or it is group_by_small_int *)
  /\ hash \in Hashes /\ num_blocks \in Blocks
  /\ sample \in IF Len(A) < CR_SEQ_THRESHOLD THEN { << >> } ELSE Samples(Len(A))
  /\ pc = "start" /\ todo = {} /\ blocks = << >> /\ partial = << >> /\ heavy = 0
  /\ sums = None
  /\ destroyed = [ i \in 1..Len(A) |-> << 0, 0 >> ]

block_size == (n_collect - 1) \div num_blocks + 1
Block(i) == SubSeq(A, i * block_size + 1, IF (i + 1) * block_size > n_collect THEN n_collect ELSE (i + 1) * block_size)

(* collect_reduce_few, taken if there are few buckets for the size of the  *)
(* elements; an empty input divides by a block size of zero.               *)
Few ==
  /\ pc = "start" /\ ~Sparse /\ n_collect > 0
  /\ IF n_collect < CR_SEQ_THRESHOLD \/ (n_collect - 1) \div block_size = 0
     THEN sums' = seq_collect_reduce(A, Identity) /\ pc' = "done" /\ UNCHANGED << blocks, todo, partial >>
     ELSE LET used == 0..((n_collect - 1) \div block_size)
          IN  /\ blocks' = [ i \in used |-> Block(i) ] /\ todo' = used
              /\ partial' = [ i \in used |-> None ]
              /\ pc' = "few" /\ UNCHANGED sums
  /\ UNCHANGED << kind, A, relocating, hash, sample, num_blocks, heavy, destroyed >>

FewBlock(i) ==
  /\ pc = "few" /\ i \in todo
  /\ partial' = [ partial EXCEPT ![i] = seq_collect_reduce(blocks[i], Identity) ]
  /\ todo' = todo \ {i}
  /\ UNCHANGED << kind, A, relocating, hash, sample, num_blocks, pc, blocks, heavy, sums, destroyed >>

(* The partial results of every bucket, in the order of the blocks; or the *)
(* program is aborted.                                                     *)
Combine ==
  /\ pc = "few" /\ todo = {}
  /\ IF group_by_index_ THEN pc' = "aborted" /\ UNCHANGED sums
     ELSE /\ sums' = [ k \in Keys |-> FoldLeft(update, init, [ j \in 1..Cardinality(DOMAIN partial) |-> partial[j - 1][k] ]) ]
          /\ pc' = "done"
  /\ UNCHANGED << kind, A, relocating, hash, sample, num_blocks, todo, blocks, heavy, partial, destroyed >>

(* Many buckets, or sparse keys: a stable sort by get_bucket.              *)
Partition ==
  /\ pc = "start" /\ n_collect >= CR_SEQ_THRESHOLD
  /\ LET h == Heavy
     IN  /\ blocks' = [ b \in 0..(num_blocks - 1) |-> SelectSeq(A, LAMBDA e : get_bucket(h, get_key(e)) = b) ]
         /\ heavy' = h.next
  /\ todo' = 0..(num_blocks - 1)
  /\ sums' = IF Sparse THEN {} ELSE Identity
  /\ pc' = "hashed"
  /\ UNCHANGED << kind, A, relocating, hash, sample, num_blocks, partial, destroyed >>

IntoSums(i) ==
  /\ pc = "hashed" /\ ~Sparse /\ i \in todo
  /\ LET q == blocks[i]
     IN  sums' = IF i < heavy THEN [ sums EXCEPT ![get_key(q[1])] = combine(q) ] ELSE seq_collect_reduce(q, sums)
  /\ todo' = todo \ {i}
  /\ UNCHANGED << kind, A, relocating, hash, sample, num_blocks, pc, blocks, heavy, partial, destroyed >>

(* seq_collect_reduce_sparse of the elements q: a table of 3/2 the size,   *)
(* each slot << key, values >>, and what is destroyed if q is relocated:   *)
(* the key of each element, by the table or by hand, and the value.        *)
SparseTable(q, relocate) ==
  LET size == (3 * Len(q)) \div 2
      probe(t, k) == LET at(i) == (hash[k] + i) % size
                     IN  at(CHOOSE i \in 0..(size - 1) :
                              /\ t[at(i)] = None \/ t[at(i)][1] = k
                              /\ \A j \in 0..(i - 1) : t[at(j)] # None /\ t[at(j)][1] # k)
      insert(s, e) ==
        LET p == probe(s.t, get_key(e))
        IN  [ t |-> [ s.t EXCEPT ![p] = << get_key(e), IF @ = None THEN first(e) ELSE added(@[2], e) >> ],
              d |-> IF relocate THEN [ s.d EXCEPT ![e[2]] = destruct(@) ] ELSE s.d ]
  IN  FoldLeft(insert, [ t |-> [ i \in 0..(size - 1) |-> None ], d |-> destroyed ], q)
Entries(t) == { t[i] : i \in { j \in DOMAIN t : t[j] # None } }

SparseAlone ==
  /\ pc = "start" /\ Sparse /\ n_collect < CR_SEQ_THRESHOLD
  /\ LET s == SparseTable(A, relocating)
     IN  sums' = Entries(s.t) /\ destroyed' = s.d
  /\ pc' = "done"
  /\ UNCHANGED << kind, A, relocating, hash, sample, num_blocks, todo, blocks, heavy, partial >>

(* A block of copies in B, or of the elements themselves; in either case   *)
(* all of B is destroyed here.  A heavy block is reduced and destroyed     *)
(* whole.                                                                  *)
SparseBlock(i) ==
  /\ pc = "hashed" /\ Sparse /\ i \in todo
  /\ LET q == blocks[i]
         s == SparseTable(q, TRUE)
     IN  IF i < heavy
         THEN /\ sums' = sums \cup { << get_key(q[1]), reduce(q) >> }
              /\ destroyed' = [ p \in 1..n_collect |-> IF p \in ToSet(values(q)) THEN destruct(destroyed[p]) ELSE destroyed[p] ]
         ELSE sums' = sums \cup Entries(s.t) /\ destroyed' = s.d
  /\ todo' = todo \ {i}
  /\ UNCHANGED << kind, A, relocating, hash, sample, num_blocks, pc, blocks, heavy, partial >>

CollectFinish ==
  /\ pc = "hashed" /\ todo = {}
  /\ pc' = "done"
  /\ UNCHANGED << kind, A, relocating, hash, sample, num_blocks, todo, blocks, heavy, sums, partial, destroyed >>

CollectNext ==
  \/ Few \/ Combine \/ Partition \/ SparseAlone \/ CollectFinish
  \/ \E i \in todo : FewBlock(i) \/ IntoSums(i) \/ SparseBlock(i)

-----------------------------------------------------------------------------
Of(k) == SelectSeq(A, LAMBDA e : get_key(e) = k)
CollectPresent == { get_key(A[i]) : i \in 1..n_collect }

(* Blocks processed in parallel never have a key in common, and a heavy    *)
(* one has a single key, so that its sum may be written instead of added.  *)
OwnKeys ==
  pc = "hashed" =>
    /\ \A i, j \in DOMAIN blocks : i # j =>
         { get_key(e) : e \in ToSet(blocks[i]) } \cap { get_key(e) : e \in ToSet(blocks[j]) } = {}
    /\ \A i \in DOMAIN blocks : i < heavy => Cardinality({ get_key(e) : e \in ToSet(blocks[i]) }) = 1

(* The partial results of remove_duplicate_integers say of each integer    *)
(* whether a block has it.                                                 *)
FlagsCombined == remove_duplicate_integers /\ partial # << >>

(* Every key's values are combined in the order of the input, all of them  *)
(* and once, whatever the path; keys are combined in one entry.  Where     *)
(* remove_duplicate_integers combines partial results all that holds is    *)
(* that it misses no integer: see OnlyPresent.                             *)
Collected ==
  pc = "done" =>
    CASE FlagsCombined -> \A k \in CollectPresent : sums[k]
      [] histogram_by_index -> \A k \in Keys : sums[k] = Len(Of(k))
      [] remove_duplicate_integers /\ ~FlagsCombined -> \A k \in Keys : sums[k] = (k \in CollectPresent)
      [] histogram_by_key -> sums = { << k, Len(Of(k)) >> : k \in CollectPresent }
      [] remove_duplicates -> sums = { << k, None >> : k \in CollectPresent }
      [] reduce_by_key \/ group_by_key -> sums = { << k, values(Of(k)) >> : k \in CollectPresent }
      [] OTHER -> \A k \in Keys : sums[k] = values(Of(k))

(* remove_duplicate_integers returns the integers of its input, and no     *)
(* others: so two tests, of inputs that have all there can be              *)
(* (test_group_by.cpp:854, 865).                                           *)
OnlyPresent ==
  pc = "done" /\ remove_duplicate_integers => { k \in Keys : sums[k] } = CollectPresent

(* What was relocated is destroyed exactly once, and so are the copies.    *)
DestroyedOnce ==
  pc = "done" /\ Sparse /\ (relocating \/ blocks # << >>) =>
    \A i \in 1..n_collect : destroyed[i] = << 1, IF HasValue THEN 1 ELSE 0 >>

----------------------------------------------------------------------------
(***************************************************************************)
(* group_by_key_ordered and group_by_index of group_by.h: the pairs are    *)
(* sorted stably by key, the places where a new key begins are filtered    *)
(* out, and each group is cut from one such place to the next, in          *)
(* parallel.                                                               *)
(***************************************************************************)
CONSTANTS
  GroupInputs, (* sequences of keys; the values are places       *)
  Calls,       (* "ordered", "by index"                          *)
  Orders,      (* the comparisons of keys: "less", "greater"     *)
  KeyTypes,    (* "unsigned": integers in a small pair; "other"  *)
  num_buckets_group,
  Width        (* the bits of Integer_t, the type of num_buckets *)

VARIABLES
  call, order, key_type,
          (* "start", "sorted", "groups", "done"          *)
  sorted,
  starts, (* places where groups begin, from 0            *)
          (* groups to be cut                             *)
  r       (* the groups: of each place, << key, values >> *)

n_group == Len(A)
Buckets == 0..(num_buckets_group - 1)
less(k, l) == IF order = "less" THEN k < l ELSE k > l

(* An index as an Integer_t.                                               *)
Integer_t(i) == i % 2^Width

GroupInit ==
  /\ call \in Calls /\ key_type \in KeyTypes
  /\ order \in IF call = "ordered" THEN Orders ELSE {"less"}
  /\ \E keys \in GroupInputs : A = [ i \in 1..Len(keys) |-> << keys[i], i >> ]
  /\ pc = "start"
  /\ sorted = << >> /\ starts = << >> /\ todo = {} /\ r = << >>

(* integer_sort knows nothing of the order asked for.                      *)
Sort ==
  /\ pc = "start" /\ (call = "ordered" \/ n_group <= num_buckets_group * num_buckets_group)
  /\ sorted' = SortSeq(A, LAMBDA x, y :
       \/ IF call = "by index" \/ key_type = "unsigned" THEN x[1] < y[1] ELSE less(x[1], y[1])
       \/ x[1] = y[1] /\ x[2] < y[2])
  /\ pc' = "sorted"
  /\ UNCHANGED << A, call, order, key_type, starts, todo, r >>

(* More elements than the square of the buckets: group_by_small_int.       *)
SmallInt ==
  /\ pc = "start" /\ call = "by index" /\ n_group > num_buckets_group * num_buckets_group
  /\ r' = [ k \in Buckets |-> << k, SelectSeq([ i \in 1..n_group |-> i ], LAMBDA i : A[i][1] = k) >> ]
  /\ pc' = "done"
  /\ UNCHANGED << A, call, order, key_type, sorted, starts, todo >>

Begins(i) == i = 0 \/ (IF call = "ordered" THEN less(sorted[i][1], sorted[i + 1][1]) ELSE sorted[i][1] < sorted[i + 1][1])

Filter ==
  /\ pc = "sorted"
  /\ LET ids == [ i \in 1..n_group |-> IF call = "ordered" THEN i - 1 ELSE Integer_t(i - 1) ]
     IN  starts' = SelectSeq(ids, Begins)
  /\ todo' = 0..(Len(starts') - 1)
  /\ r' = IF call = "ordered" THEN [ i \in todo' |-> None ] ELSE [ k \in Buckets |-> << k, << >> >> ]
  /\ pc' = "groups"
  /\ UNCHANGED << A, call, order, key_type, sorted >>

Group(i) ==
  /\ pc = "groups" /\ i \in todo
  /\ LET start == starts[i + 1]
         end == IF i = Len(starts) - 1 THEN n_group ELSE starts[i + 2]
         key == sorted[start + 1][1]
         place == IF call = "ordered" THEN i ELSE key
     IN  r' = [ r EXCEPT ![place] = << key, [ j \in 1..(IF end > start THEN end - start ELSE 0) |-> sorted[start + j][2] ] >> ]
  /\ todo' = todo \ {i}
  /\ UNCHANGED << A, call, order, key_type, pc, sorted, starts >>

GroupFinish ==
  /\ pc = "groups" /\ todo = {}
  /\ pc' = "done"
  /\ UNCHANGED << A, call, order, key_type, sorted, starts, todo, r >>

GroupNext == Sort \/ SmallInt \/ Filter \/ GroupFinish \/ \E i \in todo : Group(i)

-----------------------------------------------------------------------------
ValuesOf(k) == SelectSeq([ i \in 1..n_group |-> i ], LAMBDA i : A[i][1] = k)
GroupPresent == { A[i][1] : i \in 1..n_group }

(* The sort that was chosen heeds the order asked for: not so integer_sort *)
(* of unsigned keys, which then come in ascending order, and of which only *)
(* the first begins a group.                                               *)
OrderHeeded == call = "by index" \/ key_type = "other" \/ order = "less"

(* Every key is in one group, with its values in the order of the input;   *)
(* the groups are in the order asked for, and by index every bucket has    *)
(* one.  Unsigned keys in another order than ascending are left out.       *)
Grouped ==
  pc = "done" /\ OrderHeeded =>
    /\ { r[i] : i \in DOMAIN r } = { << k, ValuesOf(k) >> : k \in IF call = "ordered" THEN GroupPresent ELSE Buckets }
    /\ call = "ordered" => \A i, j \in DOMAIN r : i < j => less(r[i][1], r[j][1])
    /\ call = "by index" => \A k \in DOMAIN r : r[k][1] = k

(* Groups that are cut in parallel do not overlap.                         *)
Apart ==
  pc = "groups" => \A i \in 1..(Len(starts) - 1) : starts[i] < starts[i + 1]
=============================================================================
