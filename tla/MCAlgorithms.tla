---------------------------- MODULE MCAlgorithms ----------------------------
(***************************************************************************)
(* The algorithms of parlay that the searches' thread pool comes with, run *)
(* by TLC one at a time: algorithm says which, and its variables are kept  *)
(* in slots that all of them share; a slot it has no use for holds Unused.   *)
(* No algorithm is changed by this: its initial states and its steps are   *)
(* those of its module.                                                    *)
(***************************************************************************)
EXTENDS Integers, Sequences

CONSTANTS None, Uninitialized, Unused

VARIABLES
  algorithm,   (* which one is run *)
  x1, x2, x3, x4, x5, x6, x7, x8, x9, x10, x11, x12, x13, x14, x15

slots == << x1, x2, x3, x4, x5, x6, x7, x8, x9, x10, x11, x12, x13, x14, x15 >>
all == << algorithm, slots >>

(* Sequences of at most k elements of S. *)
UpTo(k, S) == UNION { [ 1..m -> S ] : m \in 0..k }

(* Inputs: short ones with many equal elements, and a few longer ones that *)
(* reach every branch; several blocks for what works in blocks.            *)
(* One least element, and a next one. *)
ToRange == { [ k \in 0..8 |-> IF k = y THEN 0 ELSE IF k = z THEN 1 ELSE 2 + (k % 2) ] : y, z \in 0..8 }
ToFind == UNION { [ 1..m -> {0, 1} ] : m \in {0, 1, 2, 5, 6} }
ToReduce == UpTo(6, {0, 1}) \cup UpTo(4, 0..2)
ToSearch == [ 1..4 -> 0..2 ] \cup { << 3, 1, 4, 0, 5, 2 >>, << 1, 1, 2, 2, 0, 3 >> }
ToQuicksort == [ 1..5 -> 0..2 ] \cup { << 1, 4, 5, 6, 9, 8, 0 >>,
  << 7, 3, 5, 1, 8, 2, 6, 4, 9 >>, << 1, 1, 2, 2, 1, 1, 2, 2, 0, 3 >> }
ToParallel == [ 1..5 -> 0..1 ] \cup { << 7, 3, 5, 1, 8, 2, 6, 4, 9 >>, << 1, 4, 5, 6, 9, 8, 0 >>,
  << 1, 1, 2, 2, 1, 1, 2, 2, 0, 3 >>, << 5, 0, 5, 1, 5, 4, 5, 3, 5, 2 >>, << 0, 1, 2, 3, 4, 5, 6, 7, 8, 9 >> }
QuickHashes == { [ i \in 0..4 |-> 0 ], [ i \in 0..4 |-> 7 * i + 3 ] }
ToMerge == UpTo(5, {0, 1}) \cup [ 1..4 -> 0..2 ] \cup { << 3, 2, 2, 1, 3, 2 >> }
ToCount == UpTo(3, 0..2) \cup { << 2, 0, 0, 2 >>, << 0, 1, 2, 1 >>,
  << 2, 0, 0, 2, 0 >>, << 1, 1, 1, 1, 1 >>, << 2, 1, 0, 1, 2 >> }
RadixKeys == { << >>, << 5 >>, << 9, 0 >>, << 1, 1, 1 >>, << 1, 6, 1 >>, << 7, 6, 6 >>, << 6, 7, 1 >>,
  << 29, 13, 29, 12 >>, << 3, 2, 3, 0 >>, << 31, 0, 16, 31, 15 >>, << 21, 22, 22, 23 >>, << 5, 5, 1, 5, 1 >> }
RadixCalls ==
  [ kind : {"inplace", "copy"}, bits : {0, 3, 5}, num_buckets : {0} ]
  \cup { [ kind |-> "offsets", bits |-> 3, num_buckets |-> 8 ],
         [ kind |-> "offsets", bits |-> 4, num_buckets |-> 10 ],
         [ kind |-> "offsets", bits |-> 2, num_buckets |-> 4 ],
         [ kind |-> "counts", bits |-> 3, num_buckets |-> 8 ] }
ToSample == { << >>, << 1, 0 >>, << 3, 1, 2, 0 >>, << 1, 1, 1, 1, 1 >>, << 2, 1, 0, 1, 2 >>, << 0, 0, 1 >>,
  << 1, 0, 1, 0, 1, 0 >>, << 5, 4, 3, 2, 1, 0 >>, << 0, 2, 2, 1, 2, 2, 0 >>, << 1, 3, 1, 2, 1, 0, 1 >> }
SampleHashes(m, len) ==
  IF len = 0 THEN { << >> } ELSE { [ i \in 1..m |-> (a * i + b) % len ] : a \in 0..3, b \in 0..(len - 1) }
BucketSamples(m, len) == { [ i \in 1..m |-> ((a * i + b) % len) + 1 ] : a \in 0..3, b \in 0..(len - 1) }
ToCollect == UNION { [ 1..k -> 0..2 ] : k \in 1..2 }
  \cup { << 0, 1, 0 >>, << 2, 2, 2 >>, << 0, 1, 2 >>, << 2, 0, 0 >>, << 1, 2, 1 >>, << 3, 0, 3, 3 >>, << 1, 3, 1, 3 >>,
  << 1, 1, 1, 2 >>, << 3, 1, 3, 1, 3 >>, << 0, 1, 2, 3, 0 >>, << 2, 2, 2, 2, 2 >> }
CollectKinds == { "reduce_by_index", "histogram_by_index", "remove_duplicate_integers", "group_by_index_",
  "reduce_by_key", "group_by_key", "histogram_by_key", "remove_duplicates" }
(* No collision; some; all of them; heavy keys with one first slot. *)
KeyHashes == { [ k \in 0..3 |-> k ], [ k \in 0..3 |-> 5 * (k \div 2) ],
               [ k \in 0..3 |-> 7 ], [ k \in 0..3 |-> 16 - 4 * k ] }
KeySamples(m) == { << 1, m, 1, m >>, [ i \in 1..4 |-> ((i - 1) % m) + 1 ], [ i \in 1..4 |-> m ] }
ToGroup == UpTo(4, 0..2) \cup { << 2, 0, 0, 2, 0, 2 >>, << 1, 1, 1, 1, 1, 1 >>,
  << 2, 2, 1, 0, 1, 2 >>, << 0, 2, 0, 0, 2, 1, 2, 0, 0, 2 >> }
(* Keys that fall into neighbouring cells, across the end of the table. *)
ThreeHashes == { h \in [ 1..4 -> {8, 0, 1} ] : h[1] = 8 /\ h[2] # 1 /\ h[4] # 8 }
OneHash == { h \in ThreeHashes : h[2] = 8 /\ h[3] # 1 /\ h[4] = 1 }
(* What each of two or three threads does, up to their names. *)
TwoBatches == { b \in [ 1..2 -> 1..4 ] : b[1] <= b[2] }
ThreeBatches == { b \in [ 1..3 -> 1..4 ] : b[1] <= b[2] /\ b[2] <= b[3] }
(* Three keys for three cells, all with one first cell or two; a key that  *)
(* is inserted twice at once, removed and inserted again; a full map.      *)
MapHashes == { h \in [ 1..3 -> {2, 0} ] : h[1] = 2 }
ToMap == { << << << "insert", 1 >>, << "remove", 1 >> >>, << << "insert", 1 >>, << "find", 2 >> >>,
              << << "insert", 2 >>, << "remove", 1 >> >> >>,
           << << << "insert", 1 >>, << "insert", 2 >> >>, << << "remove", 1 >>, << "insert", 1 >> >>,
              << << "insert", 3 >>, << "find", 1 >> >> >> }
(* A cycle, a star, parallel edges, an edge from a vertex to itself. *)
ToMatch(vs) == { << <<1, 2>>, <<2, 3>>, <<3, 4>>, <<4, 1>> >>,
  << <<1, 2>>, <<1, 3>>, <<4, 1>>, <<3, 4>>, <<2, 3>> >>,
  << <<1, 1>>, <<2, 1>>, <<1, 2>>, <<3, 2>>, <<3, 4>> >>,
  << <<1, 2>>, <<3, 1>>, <<3, 2>>, <<4, 3>>, <<4, 1>> >>, << >> }
(* Edges with weights: a cycle of four and one across it, equal weights,   *)
(* edges beside one another, an edge from a vertex to itself, two trees.   *)
ToSpan == { << <<1, 2, a>>, <<2, 3, b>>, <<3, 4, 1>>, <<4, 1, 1>>, <<1, 3, 1>> >> : a, b \in 0..2 }
  \cup { << <<1, 2, 0>>, <<2, 1, 0>>, <<2, 2, 0>>, <<3, 4, 1>> >>,
         << <<4, 3, 1>>, <<3, 2, 1>>, <<2, 1, 1>>, <<4, 1, 0>> >>, << >> }
ToHook == { << <<1, 2>>, <<2, 3>>, <<3, 4>>, <<4, 1>> >>, << <<3, 4>>, <<2, 3>>, <<1, 2>> >>,
  << <<1, 4>>, <<1, 3>>, <<1, 2>>, <<2, 3>> >>, << <<1, 2>>, <<2, 1>>, <<3, 3>> >>, << >> }
(* Sets that share elements, an empty one, and one that fails after it has *)
(* kept an element from another that is taken.                             *)
ToTake == { << {1, 2, 3, 4}, {1, 2, 3, 5}, {1, 5, 6, 7} >>, << {2, 3, 4}, {1, 2, 3}, {4, 5}, {1} >>,
  << {1, 2, 3, 4}, {3, 4, 5}, {}, {1, 2, 5} >>, << {1, 2, 3}, {1, 2, 4}, {3, 4} >> }
(* Words, none of them or up to three together, and sequences of three     *)
(* blocks: of words long and short, and of none but one that is not empty. *)
ToPipe == UpTo(3, { << >>, << 1 >>, << 0, 1 >> })
  \cup { [ j \in 1..k |-> << j % 2 >> ] : k \in 4..5 }
  \cup { << << >>, << >>, << 1 >>, << >>, << 1, 0, 1 >> >>, << << 1, 0, 1 >>, << >>, << >>, << >>, << >> >>,
         << << >>, << >>, << >>, << >>, << 1 >> >> }
ToZip == << << 0 >>, << >>, << 1, 1 >> >>
ToBuild ==
  { << << o >>, "to_sequence" >> : o \in {"map", "enumerate", "scan", "scan_inclusive", "filter", "filter_op", "flatten", "zip"} }
  \cup { << << >>, "reduce" >>, << << >>, "for_each" >>, << << "filter", "flatten" >>, "reduce" >>,
         << << "filter", "scan" >>, "to_sequence" >>, << << "scan", "filter" >>, "for_each" >>,
         << << "filter", "zip" >>, "to_sequence" >>, << << "flatten", "scan_inclusive" >>, "to_sequence" >>,
         << << "map", "flatten" >>, "reduce" >>, << << "filter_op", "flatten" >>, "for_each" >> }
ToBuildOld ==
  { << << o >>, "force" >> : o \in {"map", "scan", "scan_inclusive", "filter", "filter_op", "flatten", "zip"} }
  \cup { << << "map" >>, "reduce" >>, << << "scan", "map" >>, "for_each" >>, << << "filter", "flatten" >>, "force" >>,
         << << "flatten", "scan_inclusive" >>, "force" >>, << << "filter_op", "map" >>, "reduce" >>,
         << << "scan", "filter" >>, "force" >> }
(* The network of a matrix of capacities; of the networks the first has    *)
(* vertices that see an edge saturated while it is being pushed back.      *)
Network(c) ==
  [ u \in 0..6 |-> SelectSeq([ j \in 1..7 |-> << j - 1, c[u + 1][j] >> ],
                      LAMBDA e : c[u + 1][e[1] + 1] + c[e[1] + 1][u + 1] > 0) ]
ToFlow == { Network(c) : c \in {
      << <<0, 1, 0, 2, 0, 0, 0>>, <<0, 0, 0, 0, 0, 1, 0>>, <<0, 0, 0, 2, 0, 1, 0>>,
           <<0, 1, 1, 0, 0, 0, 1>>, <<0, 0, 0, 0, 0, 0, 0>>, <<0, 0, 0, 1, 0, 0, 2>>,
           <<0, 0, 0, 0, 0, 0, 0>> >>,
      << <<0, 0, 1, 0, 1, 1, 0>>, <<0, 0, 0, 0, 2, 0, 2>>, <<2, 0, 0, 0, 0, 2, 2>>,
           <<0, 0, 0, 0, 0, 0, 0>>, <<0, 0, 1, 0, 0, 0, 0>>, <<1, 0, 1, 1, 0, 0, 0>>,
           <<0, 0, 0, 1, 0, 0, 0>> >>,
      << <<0, 2, 0, 1, 1, 0, 0>>, <<0, 0, 2, 0, 2, 0, 0>>, <<0, 0, 0, 0, 0, 0, 2>>,
           <<0, 1, 0, 0, 1, 0, 0>>, <<1, 0, 0, 0, 0, 0, 0>>, <<1, 0, 1, 0, 1, 0, 0>>,
           <<0, 0, 0, 0, 0, 0, 0>> >>,
      << <<0, 1, 2, 1, 0, 0, 0>>, <<0, 0, 1, 2, 0, 0, 0>>, <<0, 0, 0, 2, 0, 0, 0>>,
           <<0, 0, 1, 0, 0, 1, 0>>, <<0, 0, 2, 1, 0, 0, 1>>, <<0, 0, 2, 2, 0, 0, 1>>,
           <<0, 0, 2, 1, 2, 0, 0>> >> } }
(* Graphs with weights by their edges, from vertex 0 on: a chain with ways *)
(* round it, edges that write one distance at once, a vertex that is made  *)
(* active twice, edges of negative weight, and cycles of them.             *)
FromZero(q) == [ u \in 0..(Len(q) - 1) |-> q[u + 1] ]
ToRelax == { FromZero(q) : q \in {
  << << <<1, 1>>, <<2, 4>> >>, << <<2, 1>>, <<3, 6>> >>, << <<3, 1>> >>, << <<4, 2>> >>, << >> >>,
  << << <<1, 3>>, <<2, 1>>, <<3, 2>> >>, << <<4, 1>> >>, << <<1, 1>>, <<4, 5>> >>, << <<1, -1>> >>, << <<2, 1>> >> >>,
  << << <<1, 2>> >>, << <<2, -3>> >>, << <<3, 1>> >>, << <<1, 1>>, <<4, 0>> >>, << >> >>,
  << << <<1, 2>> >>, << <<2, -3>> >>, << <<1, 3>>, <<2, 0>> >>, << <<4, -1>> >>, << <<3, -1>> >> >>,
  << << <<1, 1>>, <<2, 1>> >>, << <<3, 2>> >>, << <<3, 1>> >>, << <<4, -1>> >>, << <<1, 0>> >> >> } }
ToSweep == { FromZero(q) : q \in {
  << << <<1, 3>>, <<2, 1>>, <<1, 4>> >>, << <<4, 1>> >>, << <<1, 1>>, <<3, 2>> >>, << <<1, 1>>, <<4, 1>> >>, << >> >>,
  << << <<1, 1>>, <<2, 1>> >>, << <<3, 2>>, <<2, 1>> >>, << <<3, 1>>, <<0, 1>> >>, << <<4, 2>> >>, << >> >> } }
ToVisit == { FromZero(q) : q \in {
  << << <<1, 1>>, <<2, 1>> >>, << <<3, 1>>, <<0, 1>> >>, << <<3, 1>>, <<1, 1>> >>, << <<4, 1>> >>, << >> >>,
  << << <<1, 1>>, <<1, 1>>, <<0, 1>> >>, << <<2, 1>> >>, << >>, << <<0, 1>> >> >> } }
(* All symmetric graphs on k vertices, neighbours in ascending order. *)
ToCover(k) ==
  { [ v \in 0..(k - 1) |-> SelectSeq([ j \in 1..k |-> j - 1 ], LAMBDA u : {u, v} \in es) ] :
      es \in SUBSET { {u, v} : u, v \in 0..(k - 1) } }
ToExplore(k) == { [ v \in DOMAIN g |-> [ i \in DOMAIN g[v] |-> << g[v][i], 1 >> ] ] : g \in ToCover(k) }
ToSearches == [ BFS |-> ToVisit, BFS_ligra |-> ToExplore(4), LDD |-> ToExplore(3),
  bellman_ford |-> ToRelax, bellman_ford_lazy |-> ToRelax, bucketed_dijkstra |-> ToSweep,
  kcore |-> ToExplore(4) ]

Flag == INSTANCE SequenceOps WITH
  _block_size <- 2, sqrt_factor <- 1, Lengths <- {0, 1, 2, 3, 5, 6},
  Ops <- {"pack", "pack_index", "pack_into_uninitialized", "filter", "filter_into_uninitialized", "split_two", "split_three"},
  op <- x1, n <- x2, Fl <- x3, seen <- x4, pass <- x5, sums <- x6, ran <- x7,
  Out <- x8, writes <- x9, result <- x10

Sum == INSTANCE SequenceOps WITH
  _block_size <- 2, sqrt_factor <- 1, Lengths <- 0..12,
  Ops <- {"reduce", "scan", "scan_inclusive", "scan_inplace", "scan_inclusive_inplace"},
  op <- x1, n <- x2, Fl <- x3, seen <- x4, pass <- x5, sums <- x6, ran <- x7,
  Out <- x8, writes <- x9, result <- x10

Find1 == INSTANCE FindIf WITH
  granularity <- 1, serial_size <- 3,
  Ops <- {"find_if", "find_if_not", "adjacent_find", "is_sorted_until", "is_partitioned"},
  Ranges <- ToFind, Patterns <- {<< >>}, op <- x1, r1 <- x2, r2 <- x3, d <- x4,
  i <- x5, start <- x6, block_size <- x7, result <- x8, at <- x9, c <- x10,
  answer <- x11

Find2 == INSTANCE FindIf WITH
  granularity <- 1, serial_size <- 3,
  Ops <- {"find_first_of", "mismatch", "search", "find_end", "equal", "lexicographical_compare", "operator<"},
  Ranges <- UpTo(5, {0, 1}), Patterns <- UpTo(2, {0, 1}), op <- x1, r1 <- x2,
  r2 <- x3, d <- x4, i <- x5, start <- x6, block_size <- x7, result <- x8,
  at <- x9, c <- x10, answer <- x11

Prim == INSTANCE Primitives WITH
  ReduceOps <- {"count_if", "all_of", "none_of", "min_element", "max_element", "minmax_element", "is_sorted"},
  ReduceRanges <- ToReduce,
  MoveOps <- {"reverse", "reverse_inplace", "rotate", "append", "flatten", "unique", "remove_if", "remove_duplicates_ordered", "rank", "copy", "iota", "for_each"},
  MoveRanges <- UpTo(4, 0..2), Others <- UpTo(2, {3}),
  Nested <- UpTo(3, UpTo(2, 0..1)), Texts <- UpTo(5, BOOLEAN),
  Inputs <- ToSearch, small <- 2, sample_size <- 3, MaxDepth <- 3,
  Arrays <- ToRange, BlockSizes <- {1, 2, 4}, array <- x1, block_size <- x2,
  table <- x3, asked <- x4, found <- x5,
  None <- None, op <- x1, r <- x2, parts <- x3, s <- x4, t <- x5, res <- x6,
  todo <- x7, twice <- x8, text <- x4, offsets <- x5, sum <- x6, result <- x7,
  ran <- x8, given <- x4, wanted <- x5, in <- x6, k <- x7, pivots <- x8,
  depth <- x9, answer <- x10

Comp == INSTANCE ComparisonSorts WITH
  QuickInputs <- ToQuicksort, base <- 5, cut_size <- 5, Hashes <- QuickHashes,
  MergeInputs <- ToMerge, MERGE_SORT_BASE <- 2, _merge_base <- 2,
  _binary_search_base <- 1, given <- x1, A <- x2, hash64 <- x3, tasks <- x4,
  cur <- x5, In <- x2, Out <- x3, sorts <- x4, joins <- x5, merges <- x6,
  how <- x7, B <- x1

CompP == INSTANCE ComparisonSorts WITH
  QuickInputs <- ToParallel, base <- 5, cut_size <- 5, Hashes <- QuickHashes,
  MergeInputs <- ToMerge, MERGE_SORT_BASE <- 2, _merge_base <- 2,
  _binary_search_base <- 1, given <- x1, A <- x2, B <- x3, hash64 <- x4,
  tasks <- x5, cur <- x1, how <- x1, In <- x1, Out <- x1, sorts <- x1,
  joins <- x1, merges <- x1

Digit == INSTANCE CountingSorts WITH
  CountInputs <- ToCount, num_buckets <- 3, BlockCounts <- {1, 2, 4},
  Modes <- {"counting_sort", "counting_sort_inplace", "skip_if_in_one", "group_by_small_int", "random_shuffle"},
  SEQ_THRESHOLD <- 3, RadixInputs <- RadixKeys, Calls <- RadixCalls,
  radix <- 2, outer_bits <- 2, BaseBits <- {2, 3}, BASE_CASE_SIZE <- 3,
  Relocatable <- {TRUE}, given <- x1, mode <- x2, In <- x3, num_blocks <- x4,
  phase <- x5, todo <- x6, counts <- x7, bucket_offsets <- x8,
  dest_offsets <- x9, Out <- x10, twice <- x11, call <- x2, base_bits <- x3,
  trivially <- x4, mem <- x5, sorts <- x6, radixes <- x7, offsets <- x8,
  misused <- x9

Digit2 == INSTANCE CountingSorts WITH
  CountInputs <- UpTo(5, 0..1), num_buckets <- 2, BlockCounts <- {1, 2, 4},
  Modes <- {"group_by_small_int"}, SEQ_THRESHOLD <- 3,
  RadixInputs <- RadixKeys, Calls <- RadixCalls, radix <- 2, outer_bits <- 2,
  BaseBits <- {2, 3}, BASE_CASE_SIZE <- 3, Relocatable <- {TRUE}, mode <- x1,
  In <- x2, num_blocks <- x3, phase <- x4, todo <- x5, counts <- x6,
  bucket_offsets <- x7, dest_offsets <- x8, Out <- x9, twice <- x10,
  given <- x11, call <- x1, base_bits <- x1, trivially <- x1, mem <- x1,
  sorts <- x1, radixes <- x1, offsets <- x1, misused <- x1

Samp == INSTANCE SamplingSorts WITH
  Inputs <- ToSample, Modes <- {"sort", "stable_sort", "sort_inplace"},
  QUICKSORT_THRESHOLD <- 5, OVER_SAMPLE <- 2, sample_blocks <- 1,
  num_blocks <- 2, num_buckets <- 4, TRANS_THRESHHOLD <- 3, block_factor <- 1,
  Oblivious <- BOOLEAN, Hashes <- SampleHashes, bits <- 2, BASE <- 3,
  per_pivot <- 1, Samples <- BucketSamples, given <- x1, misused <- x2, mode <- x3, pc <- x4,
  hash <- x5, mem <- x6, pivots <- x7, counts <- x8, offsets <- x9,
  todo <- x10, stable <- x3, In <- x4, Tmp <- x5, sorts <- x6

Keyed == INSTANCE Grouping WITH
  CollectInputs <- ToCollect, Kinds <- CollectKinds, num_buckets <- 4,
  Blocks <- {4}, CR_SEQ_THRESHOLD <- 3, copy_cutoff <- 2, Hashes <- KeyHashes,
  Samples <- KeySamples, GroupInputs <- ToGroup,
  Calls <- {"ordered", "by index"}, Orders <- {"less", "greater"},
  KeyTypes <- {"unsigned", "other"}, num_buckets_group <- 3, Width <- 8,
  A <- x1, pc <- x2, todo <- x3, kind <- x4, hash <- x5, sample <- x6,
  num_blocks <- x7, blocks <- x8, heavy <- x9, sums <- x10, partial <- x11,
  destroyed <- x12, relocating <- x13, call <- x4, order <- x5, key_type <- x6,
  sorted <- x7, starts <- x8, r <- x9

Reserve == INSTANCE Reservations WITH
  start_size <- 3, Vertices <- 1..4, Lists <- ToMatch, Free <- None, n <- 4,
  Graphs <- ToCover, Weighted <- ToSpan, Cuts <- {0, 1, 2},
  Unweighted <- ToHook, end <- x1,
  current_round_size <- x2, carry_forward <- x3, number_done <- x4, keep <- x5,
  at <- x6, phase <- x7, E <- x8, R <- x9, matched <- x10, G <- x8,
  in_set <- x9, decided <- x10, todo <- x11, parents <- x10, loc <- x11,
  ordering <- x9, colors <- x10, ngh <- x11,
  rand <- x8, res <- x9, items <- x10, c <- x11,
  SEI <- x12, in_mst <- x13, pass <- x14, hooks <- x9,
  Families <- ToTake, Growth <- 2, Share <- 1,
  S <- x10, Si <- x12, B <- x13, bucket <- x14, in_result <- x15

Delay == INSTANCE Delayed WITH
  block_size <- 2, Sources <- ToPipe, other <- ToZip, Pipelines <- ToBuild,
  source <- x1, ops <- x2, terminal <- x3, left <- x4, view <- x5,
  random <- x6, temporary <- x7, total <- x13, past <- x14, pc <- x8,
  todo <- x9, part <- x10, out <- x11, writes <- x12

OldDelay == INSTANCE Delayed WITH
  block_size <- 2, Sources <- ToPipe, other <- ToZip, Pipelines <- ToBuildOld,
  source <- x1, ops <- x2, terminal <- x3, left <- x4, view <- x5,
  random <- x6, temporary <- x7, total <- x13, past <- x14, pc <- x8,
  todo <- x9, part <- x10, out <- x11, writes <- x12

Flow == INSTANCE GraphExamples WITH
  Graphs <- ToFlow, s <- 0, t <- 6, Infinity <- 20, edge_share <- 2,
  vertex_share <- 2, G <- x1, flow <- x2, label <- x3, excess <- x4,
  current <- x5, new_label <- x6, new_excess <- x7, pushes <- x8, pushed <- x9,
  active <- x10, at <- x11, d <- x12, cur_level <- x13, frontier <- x14,
  phase <- x15,
  Problems <- DOMAIN ToSearches, Searched <- ToSearches, lazy_share <- 3,
  problem <- x2, mark <- x3, da <- x4, edges <- x5, frontiers <- x6, cnt <- x7,
  num_active <- x8, lazy <- x9, buckets <- x13,
  Permuted <- { f \in [ 0..3 -> 0..3 ] : \A u, v \in 0..3 : f[u] = f[v] => u = v },
  Priorities <- 0..2, permutation <- x1, priority <- x2, links <- x3, degree <- x4

HashI == INSTANCE HashTable WITH
  m <- 9, Empty <- None, Keys <- 1..4, Batches <- ThreeBatches,
  Threads <- 1..3, Hashes <- OneHash,
  Phases <- {<< "insert", "hash_numeric" >>, << "insert", "largest" >>, << "update", "sum" >>},
  Loads <- {{}, {1}, {2}}, hash <- x1, phase <- x2, TA <- x3, pre <- x4,
  arg <- x5, at <- x6, v <- x7, i <- x8, j <- x9, c <- x10, jj <- x11,
  x <- x12, jjj <- x13, result <- x14, HASH <- x15,
  Scripts <- {}, H <- x2, script <- x3, status <- x4, count <- x5, balance <- x7

HashD == INSTANCE HashTable WITH
  m <- 9, Empty <- None, Keys <- 1..4, Batches <- TwoBatches, Threads <- 1..2,
  Hashes <- ThreeHashes, Phases <- {<< "delete", "hash_numeric" >>},
  Loads <- {{1, 2, 3, 4}, {1, 2, 4}}, hash <- x1, phase <- x2, TA <- x3,
  pre <- x4, arg <- x5, at <- x6, v <- x7, i <- x8, j <- x9, c <- x10,
  jj <- x11, x <- x12, jjj <- x13, result <- x14, HASH <- x15,
  Scripts <- {}, H <- x2, script <- x3, status <- x4, count <- x5, balance <- x7

Mon == INSTANCE Monoids WITH
  Unsigned <- 0..3, Signed <- (-2)..1, Bit <- 0..1, Terms <- 3, M <- x1, given <- x2, values <- x3

HashM == INSTANCE HashTable WITH
  m <- 3, Empty <- None, Keys <- 1..3, Batches <- {}, Threads <- 1..3,
  Hashes <- MapHashes, Phases <- {}, Loads <- {}, hash <- x1, phase <- x2,
  TA <- x3, pre <- x4, arg <- x5, at <- x6, v <- x7, i <- x8, j <- x9,
  c <- x10, jj <- x11, x <- x12, jjj <- x13, result <- x14, HASH <- x15,
  Scripts <- ToMap, H <- x2, script <- x3, status <- x4, count <- x5, balance <- x7

FlagsInit ==
  /\ algorithm = "flags" /\ Flag!Init
  /\ x11 = Unused /\ x12 = Unused /\ x13 = Unused /\ x14 = Unused
  /\ x15 = Unused
FlagsNext ==
  /\ algorithm = "flags" /\ Flag!Next
  /\ UNCHANGED << algorithm, x11, x12, x13, x14, x15 >>

SumsInit ==
  /\ algorithm = "sums" /\ Sum!Init
  /\ x11 = Unused /\ x12 = Unused /\ x13 = Unused /\ x14 = Unused
  /\ x15 = Unused
SumsNext ==
  /\ algorithm = "sums" /\ Sum!Next
  /\ UNCHANGED << algorithm, x11, x12, x13, x14, x15 >>

FindOneInit ==
  /\ algorithm = "find in one" /\ Find1!Init
  /\ x12 = Unused /\ x13 = Unused /\ x14 = Unused /\ x15 = Unused
FindOneNext ==
  /\ algorithm = "find in one" /\ Find1!Next
  /\ UNCHANGED << algorithm, x12, x13, x14, x15 >>

FindTwoInit ==
  /\ algorithm = "find in two" /\ Find2!Init
  /\ x12 = Unused /\ x13 = Unused /\ x14 = Unused /\ x15 = Unused
FindTwoNext ==
  /\ algorithm = "find in two" /\ Find2!Next
  /\ UNCHANGED << algorithm, x12, x13, x14, x15 >>

ReduceInit ==
  /\ algorithm = "reduce" /\ Prim!ReduceInit
  /\ x4 = Unused /\ x5 = Unused /\ x6 = Unused /\ x7 = Unused /\ x8 = Unused
  /\ x9 = Unused /\ x10 = Unused /\ x11 = Unused /\ x12 = Unused
  /\ x13 = Unused /\ x14 = Unused /\ x15 = Unused
ReduceNext ==
  /\ algorithm = "reduce" /\ Prim!ReduceNext
  /\ UNCHANGED << algorithm, x4, x5, x6, x7, x8, x9, x10, x11, x12, x13, x14,
                x15 >>

MoveInit ==
  /\ algorithm = "move" /\ Prim!MoveInit
  /\ x3 = Unused /\ x9 = Unused /\ x10 = Unused /\ x11 = Unused /\ x12 = Unused
  /\ x13 = Unused /\ x14 = Unused /\ x15 = Unused
MoveNext ==
  /\ algorithm = "move" /\ Prim!MoveNext
  /\ UNCHANGED << algorithm, x3, x9, x10, x11, x12, x13, x14, x15 >>

TokenInit ==
  /\ algorithm = "tokens" /\ Prim!TokenInit
  /\ x2 = Unused /\ x9 = Unused /\ x10 = Unused /\ x11 = Unused /\ x12 = Unused
  /\ x13 = Unused /\ x14 = Unused /\ x15 = Unused
TokenNext ==
  /\ algorithm = "tokens" /\ Prim!TokenNext
  /\ UNCHANGED << algorithm, x2, x9, x10, x11, x12, x13, x14, x15 >>

KthInit ==
  /\ algorithm = "kth smallest" /\ Prim!KthInit
  /\ x1 = Unused /\ x2 = Unused /\ x3 = Unused /\ x11 = Unused /\ x12 = Unused
  /\ x13 = Unused /\ x14 = Unused /\ x15 = Unused
KthNext ==
  /\ algorithm = "kth smallest" /\ Prim!KthNext
  /\ UNCHANGED << algorithm, x1, x2, x3, x11, x12, x13, x14, x15 >>

RangeInit ==
  /\ algorithm = "range minima" /\ Prim!RangeInit
  /\ x6 = Unused /\ x7 = Unused /\ x8 = Unused /\ x9 = Unused /\ x10 = Unused
  /\ x11 = Unused /\ x12 = Unused /\ x13 = Unused /\ x14 = Unused /\ x15 = Unused
RangeNext ==
  /\ algorithm = "range minima" /\ Prim!RangeNext
  /\ UNCHANGED << algorithm, x6, x7, x8, x9, x10, x11, x12, x13, x14, x15 >>

QuickInit ==
  /\ algorithm = "quicksort" /\ Comp!QuickInit
  /\ x6 = Unused /\ x7 = Unused /\ x8 = Unused /\ x9 = Unused /\ x10 = Unused
  /\ x11 = Unused /\ x12 = Unused /\ x13 = Unused /\ x14 = Unused
  /\ x15 = Unused
QuickNext ==
  /\ algorithm = "quicksort" /\ Comp!QuickNext
  /\ UNCHANGED << algorithm, x6, x7, x8, x9, x10, x11, x12, x13, x14, x15 >>

ParallelInit ==
  /\ algorithm = "parallel quicksort" /\ CompP!ParallelInit
  /\ x6 = Unused /\ x7 = Unused /\ x8 = Unused /\ x9 = Unused /\ x10 = Unused
  /\ x11 = Unused /\ x12 = Unused /\ x13 = Unused /\ x14 = Unused
  /\ x15 = Unused
ParallelNext ==
  /\ algorithm = "parallel quicksort" /\ CompP!ParallelNext
  /\ UNCHANGED << algorithm, x6, x7, x8, x9, x10, x11, x12, x13, x14, x15 >>

MergeInit ==
  /\ algorithm = "merge sort" /\ Comp!MergeInit
  /\ x8 = Unused /\ x9 = Unused /\ x10 = Unused /\ x11 = Unused /\ x12 = Unused
  /\ x13 = Unused /\ x14 = Unused /\ x15 = Unused
MergeNext ==
  /\ algorithm = "merge sort" /\ Comp!MergeNext
  /\ UNCHANGED << algorithm, x8, x9, x10, x11, x12, x13, x14, x15 >>

CountInit ==
  /\ algorithm = "count sort" /\ Digit!CountInit
  /\ x12 = Unused /\ x13 = Unused /\ x14 = Unused /\ x15 = Unused
CountNext ==
  /\ algorithm = "count sort" /\ Digit!CountNext
  /\ UNCHANGED << algorithm, x12, x13, x14, x15 >>

GroupTwoInit ==
  /\ algorithm = "group by two" /\ Digit2!CountInit
  /\ x12 = Unused /\ x13 = Unused /\ x14 = Unused /\ x15 = Unused
GroupTwoNext ==
  /\ algorithm = "group by two" /\ Digit2!CountNext
  /\ UNCHANGED << algorithm, x12, x13, x14, x15 >>

RadixInit ==
  /\ algorithm = "integer sort" /\ Digit!RadixInit
  /\ x10 = Unused /\ x11 = Unused /\ x12 = Unused /\ x13 = Unused
  /\ x14 = Unused /\ x15 = Unused
RadixNext ==
  /\ algorithm = "integer sort" /\ Digit!RadixNext
  /\ UNCHANGED << algorithm, x10, x11, x12, x13, x14, x15 >>

SampleInit ==
  /\ algorithm = "sample sort" /\ Samp!SampleInit
  /\ x11 = Unused /\ x12 = Unused /\ x13 = Unused /\ x14 = Unused
  /\ x15 = Unused
SampleNext ==
  /\ algorithm = "sample sort" /\ Samp!SampleNext
  /\ UNCHANGED << algorithm, x11, x12, x13, x14, x15 >>

BucketInit ==
  /\ algorithm = "bucket sort" /\ Samp!BucketInit
  /\ x7 = Unused /\ x8 = Unused /\ x9 = Unused /\ x10 = Unused /\ x11 = Unused
  /\ x12 = Unused /\ x13 = Unused /\ x14 = Unused /\ x15 = Unused
BucketNext ==
  /\ algorithm = "bucket sort" /\ Samp!BucketNext
  /\ UNCHANGED << algorithm, x7, x8, x9, x10, x11, x12, x13, x14, x15 >>

CollectInit ==
  /\ algorithm = "collect" /\ Keyed!CollectInit
  /\ x14 = Unused /\ x15 = Unused
CollectNext ==
  /\ algorithm = "collect" /\ Keyed!CollectNext
  /\ UNCHANGED << algorithm, x14, x15 >>

GroupInit ==
  /\ algorithm = "group" /\ Keyed!GroupInit
  /\ x10 = Unused /\ x11 = Unused /\ x12 = Unused /\ x13 = Unused
  /\ x14 = Unused /\ x15 = Unused
GroupNext ==
  /\ algorithm = "group" /\ Keyed!GroupNext
  /\ UNCHANGED << algorithm, x10, x11, x12, x13, x14, x15 >>

MatchInit ==
  /\ algorithm = "matching" /\ Reserve!MatchInit
  /\ x11 = Unused /\ x12 = Unused /\ x13 = Unused /\ x14 = Unused
  /\ x15 = Unused
MatchNext ==
  /\ algorithm = "matching" /\ Reserve!MatchNext
  /\ UNCHANGED << algorithm, x11, x12, x13, x14, x15 >>

SetInit ==
  /\ algorithm = "independent set" /\ Reserve!SetInit
  /\ x12 = Unused /\ x13 = Unused /\ x14 = Unused /\ x15 = Unused
SetNext ==
  /\ algorithm = "independent set" /\ Reserve!SetNext
  /\ UNCHANGED << algorithm, x12, x13, x14, x15 >>

ColorInit ==
  /\ algorithm = "coloring" /\ Reserve!ColorInit
  /\ x12 = Unused /\ x13 = Unused /\ x14 = Unused /\ x15 = Unused
ColorNext ==
  /\ algorithm = "coloring" /\ Reserve!ColorNext
  /\ UNCHANGED << algorithm, x12, x13, x14, x15 >>

ShuffleInit ==
  /\ algorithm = "shuffle" /\ Reserve!ShuffleInit
  /\ x12 = Unused /\ x13 = Unused /\ x14 = Unused /\ x15 = Unused
ShuffleNext ==
  /\ algorithm = "shuffle" /\ Reserve!ShuffleNext
  /\ UNCHANGED << algorithm, x12, x13, x14, x15 >>

KruskalInit ==
  /\ algorithm = "kruskal" /\ (Reserve!KruskalInit \/ Reserve!FilterInit)
  /\ x15 = Unused
KruskalNext ==
  /\ algorithm = "kruskal" /\ Reserve!ForestNext
  /\ UNCHANGED << algorithm, x15 >>

SpanInit ==
  /\ algorithm = "spanning forest" /\ Reserve!SpanInit
  /\ x1 = Unused /\ x2 = Unused /\ x3 = Unused /\ x4 = Unused /\ x5 = Unused
  /\ x7 = Unused /\ x12 = Unused /\ x13 = Unused /\ x14 = Unused
  /\ x15 = Unused
SpanNext ==
  /\ algorithm = "spanning forest" /\ Reserve!SpanNext
  /\ UNCHANGED << algorithm, x1, x2, x3, x4, x5, x7, x12, x13, x14, x15 >>

CoverInit ==
  /\ algorithm = "set cover" /\ Reserve!CoverInit
CoverNext ==
  /\ algorithm = "set cover" /\ Reserve!CoverNext
  /\ UNCHANGED algorithm

DelayedInit ==
  /\ algorithm = "delayed" /\ Delay!Init
  /\ x15 = Unused
DelayedNext ==
  /\ algorithm = "delayed" /\ Delay!Next
  /\ UNCHANGED << algorithm, x15 >>

OldDelayedInit ==
  /\ algorithm = "block delayed" /\ OldDelay!OldInit
  /\ x15 = Unused
OldDelayedNext ==
  /\ algorithm = "block delayed" /\ OldDelay!OldNext
  /\ UNCHANGED << algorithm, x15 >>

FlowInit ==
  /\ algorithm = "max flow" /\ Flow!Init
FlowNext ==
  /\ algorithm = "max flow" /\ Flow!Next
  /\ UNCHANGED << algorithm >>

SearchInit ==
  /\ algorithm = "search" /\ Flow!SearchesInit
SearchNext ==
  /\ algorithm = "search" /\ Flow!SearchesNext
  /\ UNCHANGED << algorithm >>

CycleInit ==
  /\ algorithm = "cycles" /\ Flow!CycleInit
  /\ x5 = Unused /\ x6 = Unused /\ x7 = Unused /\ x8 = Unused /\ x9 = Unused
  /\ x10 = Unused /\ x12 = Unused /\ x13 = Unused /\ x14 = Unused /\ x15 = Unused
CycleNext ==
  /\ algorithm = "cycles" /\ Flow!CycleNext
  /\ UNCHANGED << algorithm, x5, x6, x7, x8, x9, x10, x12, x13, x14, x15 >>

InsertInit ==
  /\ algorithm = "insert" /\ HashI!Init
InsertNext ==
  /\ algorithm = "insert" /\ HashI!Next
  /\ UNCHANGED algorithm

MonoidInit ==
  /\ algorithm = "monoid" /\ Mon!Init
  /\ x4 = Unused /\ x5 = Unused /\ x6 = Unused /\ x7 = Unused /\ x8 = Unused
  /\ x9 = Unused /\ x10 = Unused /\ x11 = Unused /\ x12 = Unused
  /\ x13 = Unused /\ x14 = Unused /\ x15 = Unused
MonoidNext ==
  /\ algorithm = "monoid" /\ Mon!Next
  /\ UNCHANGED << algorithm, x4, x5, x6, x7, x8, x9, x10, x11, x12, x13, x14, x15 >>

MapInit ==
  /\ algorithm = "map" /\ HashM!MapInit
  /\ x9 = Unused /\ x10 = Unused /\ x11 = Unused /\ x12 = Unused
  /\ x13 = Unused /\ x14 = Unused /\ x15 = Unused
MapNext ==
  /\ algorithm = "map" /\ HashM!MapNext
  /\ UNCHANGED << algorithm, x9, x10, x11, x12, x13, x14, x15 >>

DeleteInit ==
  /\ algorithm = "delete" /\ HashD!Init
DeleteNext ==
  /\ algorithm = "delete" /\ HashD!Next
  /\ UNCHANGED algorithm

-----------------------------------------------------------------------------
ASSUME Comp!BaseAssumption /\ Flag!BlockAssumption

Init ==
  \/ SearchInit
  \/ InsertInit
  \/ DeleteInit
  \/ FlagsInit
  \/ SumsInit
  \/ FindOneInit
  \/ FindTwoInit
  \/ ReduceInit
  \/ MoveInit
  \/ TokenInit
  \/ KthInit
  \/ RangeInit
  \/ QuickInit
  \/ ParallelInit
  \/ MergeInit
  \/ CountInit
  \/ GroupTwoInit
  \/ RadixInit
  \/ SampleInit
  \/ BucketInit
  \/ CollectInit
  \/ GroupInit
  \/ MatchInit
  \/ SetInit
  \/ ColorInit
  \/ ShuffleInit
  \/ KruskalInit
  \/ SpanInit
  \/ CoverInit
  \/ DelayedInit
  \/ OldDelayedInit
  \/ FlowInit
  \/ CycleInit
  \/ MapInit
  \/ MonoidInit

Next ==
  \/ FlagsNext
  \/ SumsNext
  \/ FindOneNext
  \/ FindTwoNext
  \/ ReduceNext
  \/ MoveNext
  \/ TokenNext
  \/ KthNext
  \/ RangeNext
  \/ QuickNext
  \/ ParallelNext
  \/ MergeNext
  \/ CountNext
  \/ GroupTwoNext
  \/ RadixNext
  \/ SampleNext
  \/ BucketNext
  \/ CollectNext
  \/ GroupNext
  \/ MatchNext
  \/ SetNext
  \/ ColorNext
  \/ ShuffleNext
  \/ KruskalNext
  \/ SpanNext
  \/ CoverNext
  \/ DelayedNext
  \/ OldDelayedNext
  \/ FlowNext
  \/ SearchNext
  \/ CycleNext
  \/ InsertNext
  \/ DeleteNext
  \/ MapNext
  \/ MonoidNext

(* All that is asked of the scheduler is that it goes on while there is    *)
(* something to do.                                                        *)
Spec ==
  /\ Init /\ [][Next]_all
  /\ WF_all(FindOneNext) /\ WF_all(QuickNext) /\ WF_all(ParallelNext)
  /\ WF_all(MergeNext) /\ WF_all(RadixNext) /\ WF_all(BucketNext)
  /\ WF_all(MatchNext) /\ WF_all(SetNext) /\ WF_all(ColorNext)
  /\ WF_all(ShuffleNext) /\ WF_all(KruskalNext) /\ WF_all(CoverNext)
  /\ WF_all(FlowNext) /\ WF_all(SearchNext) /\ WF_all(CycleNext)
  /\ WF_all(InsertNext) /\ WF_all(DeleteNext)

-----------------------------------------------------------------------------
(* pack, filter and split write each place of the result once, though all  *)
(* blocks write at once at offsets from a scan (sequence_ops.h).           *)
BlocksOnce == algorithm = "flags" => Flag!OnceEach

(* .. and the result of these, and of reduce and scan by blocks, is what   *)
(* one pass from left to right would give, with an operation that is not   *)
(* commutative, and at sizes that leave a short last block.                *)
BlocksRight ==
  /\ algorithm = "flags" => Flag!Right
  /\ algorithm = "sums" => Sum!Right

(* The searches of primitives.h, in one sequence or two, find the first    *)
(* place, though the bodies of a block run in any order and some are       *)
(* skipped (find_if_index).                                                *)
FindRight ==
  /\ algorithm = "find in one" => Find1!Right
  /\ algorithm = "find in two" => Find2!Right

(* Counts, extremes (the first of equal ones) and sortedness by reductions *)
(* that combine neighbouring parts in any order.                           *)
ReduceRight == algorithm = "reduce" => Prim!ReduceRight

(* map_tokens gives the words of the text, in order, whatever the order in *)
(* which the scan combines its parts and the bodies write.                 *)
TokensRight == algorithm = "tokens" => Prim!TokensRight

(* The pieces of split_at cover the text, each character in one of them.   *)
PiecesCover == algorithm = "tokens" => Prim!PiecesCover

(* No place of a result of reverse, rotate, append, flatten, unique and    *)
(* the others is constructed twice.                                        *)
MovedOnce == algorithm = "move" => Prim!OnceEach

(* .. and each holds the element it should.                                *)
MoveRight == algorithm = "move" => Prim!MoveRight

(* heap_tree::rank puts keys into parts that are ordered as the keys are.  *)
RankMonotone == algorithm = "kth smallest" => Prim!RankMonotone

(* Each call of kth_smallest_copy asks for the element the first one was   *)
(* asked for, k adjusted by what was left out.                             *)
AsksTheSame == algorithm = "kth smallest" => Prim!AsksTheSame

(* What the loop of split3 relies on at each turn: left of L is below the  *)
(* first pivot, right of R above the second, between them in between.      *)
SplitLoop == algorithm = "quicksort" => Comp!LoopInvariant

(* quicksort keeps the elements: no swap loses one.                        *)
QuickKept == algorithm = "quicksort" => Comp!Kept

(* What lies between two segments still to be sorted needs no more         *)
(* sorting.                                                                *)
QuickApart == algorithm = "quicksort" => Comp!Apart

(* What a task of the parallel quicksort sorts is in the array it takes it *)
(* to be in, though parts that run at once have gone to and fro.           *)
Exchanged == algorithm = "parallel quicksort" => CompP!Exchanged

(* The parallel quicksort ends with all elements, sorted, in the array     *)
(* that was given.                                                         *)
ParallelSorted == algorithm = "parallel quicksort" => CompP!ParallelSorted

(* Each element is in one cell of the two arrays at any moment: none is    *)
(* relocated twice, or onto one that has not left.                         *)
NoneLost == algorithm = "merge sort" => Comp!NoneLost

(* The result of merge sort is sorted and keeps equal elements in order,   *)
(* though a long merge is cut in two that run at once.                     *)
MergeStable == algorithm = "merge sort" => Comp!Stable

(* The blocks of count_sort_ write each place once.                        *)
CountedOnce ==
  /\ algorithm = "count sort" => Digit!OnceEach
  /\ algorithm = "group by two" => Digit2!OnceEach

(* .. and the result is sorted stably by bucket, with the right offsets.   *)
CountStable ==
  /\ algorithm = "count sort" => Digit!CountStableRight
  /\ algorithm = "group by two" => Digit2!CountStableRight

(* The contract of integer_sort_r at each call: which array holds the      *)
(* elements, and which must be raw memory, also when their roles are       *)
(* exchanged for a bucket.                                                 *)
RadixContract == algorithm = "integer sort" => Digit!Contract

(* integer_sort is right, and stable, for every way its parts overlap.     *)
RadixStable == algorithm = "integer sort" => Digit!RadixStableRight

(* The offsets or counts it returns are those of the buckets, empty ones   *)
(* included.                                                               *)
OffsetsRight == algorithm = "integer sort" => Digit!OffsetsRight

(* The transposition of sample sort moves each element once, into raw      *)
(* memory.                                                                 *)
EachMovedOnce == algorithm = "sample sort" => Samp!EachMovedOnce

(* A bucket between equal pivots, which is never sorted, is constant.      *)
Bucketed == algorithm = "sample sort" => Samp!Bucketed

(* Sample sort is right, and stable where it promises to be.               *)
SampleRight == algorithm = "sample sort" => Samp!SampleSortedRight

(* bucket_sort reads no raw memory and writes over no element.             *)
Relocated == algorithm = "bucket sort" => Samp!Relocated

(* bucket_sort is right, and stable if asked, with equal pivots too.       *)
BucketRight == algorithm = "bucket sort" => Samp!BucketSortedRight

(* A block for a heavy key holds that key only, and no other block has it. *)
OwnKeys == algorithm = "collect" => Keyed!OwnKeys

(* collect_reduce combines all values of a key and no other, in any order  *)
(* of the blocks; but for the flags of remove_duplicate_integers.          *)
Collected == algorithm = "collect" => Keyed!Collected

(* Where elements are relocated each is destroyed once.                    *)
DestroyedOnce == algorithm = "collect" => Keyed!DestroyedOnce

(* The groups that are cut in parallel do not overlap.                     *)
GroupsApart == algorithm = "group" => Keyed!Apart

(* Each key has one group, with its values in their order, where the order *)
(* asked for is one that the sort heeds.                                   *)
Grouped == algorithm = "group" => Keyed!Grouped

(* Each place of a sequence made of a delayed one is constructed once.     *)
PipesWritten ==
  /\ algorithm = "delayed" => Delay!PlacesOnce
  /\ algorithm = "block delayed" => OldDelay!PlacesOnce

(* A pipeline of delayed operations ends with what the operations give one *)
(* after the other.                                                        *)
PipesRight ==
  /\ algorithm = "delayed" => Delay!PipelineRight
  /\ algorithm = "block delayed" => OldDelay!PipelineRight

(* .. and what is built so far has the right elements in blocks of         *)
(* block_size, as those built on it take it to.                            *)
ViewsRight ==
  /\ algorithm = "delayed" => Delay!ViewRight
  /\ algorithm = "block delayed" => OldDelay!ViewRight

(* Each block of a flattened sequence begins where its first element is.   *)
BeginningsRight ==
  /\ algorithm = "delayed" => Delay!StartsRight
  /\ algorithm = "block delayed" => OldDelay!StartsRight

(* A round of speculative_for runs different iterations, those carried     *)
(* forward first and all in the order of the sequential loop.              *)
LoopWhole ==
  algorithm \in {"matching", "independent set", "coloring", "shuffle", "kruskal", "set cover"} => Reserve!LoopWhole

(* The first iteration of a round succeeds, which is why the loop ends.    *)
FirstSucceeds ==
  algorithm \in {"matching", "independent set", "coloring", "shuffle", "kruskal", "set cover"} => Reserve!FirstSucceeds

(* Between rounds only matched vertices hold a reservation.                *)
NoStaleReservation == algorithm = "matching" => Reserve!NoStaleReservation

(* The matching is the greedy sequential one, whatever the order of the    *)
(* tasks, and what is left in R is each of its edges once.                 *)
SameAsGreedy == algorithm = "matching" => Reserve!SameAsGreedy

(* What in_set says of a decided vertex is what the greedy pass says.      *)
DecidedRight == algorithm = "independent set" => Reserve!DecidedRight

(* The colours are those of the sequential pass over the vertices.         *)
ColorRight == algorithm = "coloring" => Reserve!ColorRight

(* The shuffle is that of the sequential loop.                             *)
ShuffleRight == algorithm = "shuffle" => Reserve!ShuffleRight

(* The minimum spanning forest is the one a sequential pass over the edges *)
(* in order of weight chooses.                                             *)
ForestRight == algorithm = "kruskal" => Reserve!ForestRight

(* The trees of the union-find structure are those of the edges chosen, at *)
(* any time, and no root is kept from later edges by a reservation.        *)
TreesRight == algorithm = "kruskal" => Reserve!TreesRight /\ Reserve!RootsFree

(* A vertex is linked to a tree once.                                      *)
LinkedOnce == algorithm \in {"kruskal", "spanning forest"} => Reserve!LinkedOnce

(* The spanning forest connects what the edges connect, with no edge too   *)
(* many, at any time.                                                      *)
SpanRight == algorithm = "spanning forest" => Reserve!SpanRight

(* The sets taken cover what all sets do.                                  *)
CoverRight == algorithm = "set cover" => Reserve!CoverRight

(* .. and are nearly as few as can be: a set adds about as many elements   *)
(* as any other would; what a set has dropped is covered.                  *)
CoverGreedy == algorithm = "set cover" => Reserve!Greedy /\ Reserve!NoneForgotten

(* Nothing is lost of what neighbours push to a vertex at once, and        *)
(* nothing counted twice.                                                  *)
FlowConserved == algorithm = "max flow" => Flow!Conserved

(* After a round of push and relabel, whatever has an excess to pass on is *)
(* active.                                                                 *)
NoneIdle == algorithm = "max flow" => Flow!NoneIdle

(* .. and has one body in the next round, not two that race for its        *)
(* excess.                                                                 *)
ActiveOnce == algorithm = "max flow" => Flow!ActiveOnce

(* The flow is a maximum flow, if the labels pass the check at the end.    *)
FlowRight == algorithm = "max flow" => Flow!IsMax

(* A query for the least element of a range finds one.                     *)
RangeMinRight == algorithm = "range minima" => Prim!RangeMinRight

(* The searches of a graph and the shortest paths give each vertex what    *)
(* its paths from the start give it.                                       *)
SearchRight == algorithm = "search" => Flow!SearchRight

(* .. and what a round of them has to do is in one bucket once.            *)
BucketsOnce == algorithm = "search" => Flow!BucketsOnce

(* The cycles of a permutation are counted once each, those that are.      *)
CyclesRight == algorithm = "cycles" => Flow!CyclesCounted

(* Once all calls have returned, the cells of the hash table depend on the *)
(* set of its keys only, not on the order of the calls.                    *)
Deterministic ==
  /\ algorithm = "insert" => HashI!Deterministic
  /\ algorithm = "delete" => HashD!Deterministic

(* .. and every key can be found, across the end of the table too.         *)
FindsAll ==
  /\ algorithm = "insert" => HashI!FindsAll
  /\ algorithm = "delete" => HashD!FindsAll

(* The monoids of the library give the same in whatever order the blocks   *)
(* are combined.                                                           *)
CombinedRight == algorithm = "monoid" => Mon!CombinedRight

(* hash_map gives a key one cell, which its calls fill and empty in turn.  *)
MapRight == algorithm = "map" => HashM!OneCell /\ HashM!Balanced

(* No parallel step destroys what another has written: each place of a     *)
(* result is written once and each element moved once, whatever the order  *)
(* of the steps.                                                           *)
WrittenOnce ==
  /\ BlocksOnce /\ MovedOnce /\ NoneLost /\ QuickKept /\ Exchanged
  /\ CountedOnce /\ EachMovedOnce /\ Relocated /\ DestroyedOnce
  /\ GroupsApart /\ ActiveOnce /\ PiecesCover /\ PipesWritten /\ LinkedOnce

(* Each algorithm gives the result that one pass, or the definition,       *)
(* gives.                                                                  *)
ResultRight ==
  /\ BlocksRight /\ FindRight /\ ReduceRight /\ TokensRight /\ MoveRight
  /\ ParallelSorted /\ MergeStable /\ CountStable /\ RadixStable
  /\ OffsetsRight /\ SampleRight /\ BucketRight /\ Collected /\ Grouped
  /\ SameAsGreedy /\ DecidedRight /\ ColorRight /\ ShuffleRight /\ PipesRight /\ FlowRight
  /\ ForestRight /\ SpanRight /\ CoverRight /\ RangeMinRight /\ SearchRight /\ CyclesRight /\ CombinedRight

(* What the steps of an algorithm rely on while it is under way: the loop  *)
(* invariants, the contracts of the calls, and what keeps its parts apart. *)
StepsRight ==
  /\ RankMonotone /\ AsksTheSame /\ SplitLoop /\ QuickApart
  /\ RadixContract /\ Bucketed /\ OwnKeys /\ LoopWhole /\ FirstSucceeds
  /\ NoStaleReservation /\ ViewsRight /\ BeginningsRight /\ FlowConserved
  /\ NoneIdle /\ TreesRight /\ CoverGreedy /\ BucketsOnce

(* Concurrent calls leave the hash table in one state, in which every key  *)
(* is found.                                                               *)
CellsAgree ==
  /\ Deterministic /\ FindsAll /\ MapRight

Finished ==
  \/ algorithm = "find in one" /\ Find1!Finished
  \/ algorithm = "quicksort" /\ Comp!QuickDone
  \/ algorithm = "parallel quicksort" /\ CompP!ParallelDone
  \/ algorithm = "merge sort" /\ Comp!MergeDone
  \/ algorithm = "integer sort" /\ Digit!Done
  \/ algorithm = "bucket sort" /\ Samp!Done
  \/ algorithm \in {"matching", "independent set", "coloring", "shuffle"} /\ Reserve!LoopOver
  \/ algorithm = "kruskal" /\ Reserve!ForestOver
  \/ algorithm = "set cover" /\ Reserve!CoverOver
  \/ algorithm \in {"max flow", "search"} /\ Flow!Over
  \/ algorithm = "cycles" /\ Flow!CycleOver
  \/ algorithm = "insert" /\ HashI!Quiet
  \/ algorithm = "delete" /\ HashD!Quiet
  \/ algorithm \in { "flags", "sums", "find in two", "reduce", "move", "tokens",
                     "kth smallest", "count sort", "group by two", "sample sort", "collect", "group",
                     "delayed", "block delayed", "spanning forest", "map", "monoid",
                     "range minima" }

(* Those that could go on for ever end: a recursion on parts that get no   *)
(* smaller, a bucket sorted again and again, an iteration that is never    *)
(* done, a call that walks round a full table.                             *)
Finishes == <>Finished

(* The maximum flow by itself.                                             *)
RaceSpec == FlowInit /\ [][FlowNext]_all

(* What compute_max_flow ends with passes its check_correctness: labels   *)
(* computed beside the pushes of other vertices included.                  *)
ChecksPass == Flow!ChecksPass

(* collect_reduce by itself.                                               *)
CollectSpec == CollectInit /\ [][CollectNext]_all

(* What remove_duplicate_integers returns are the integers of its input,   *)
(* as the tests of it ask (test_group_by.cpp:854, 865).                    *)
OnlyPresent == Keyed!OnlyPresent
=============================================================================
