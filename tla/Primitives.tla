----------------------------- MODULE Primitives -----------------------------
(***************************************************************************)
(* Functions of parlay's primitives.h that are a reduction, a parallel     *)
(* move of elements, the tokens of a text, and the choice of the k-th      *)
(* smallest; then the least of a range, of the examples.  Each part below  *)
(* is a state machine of its own.                                          *)
(***************************************************************************)
EXTENDS Integers, FiniteSets, SequencesExt

----------------------------------------------------------------------------
(***************************************************************************)
(* The questions parlay answers by a reduction (primitives.h): counts,     *)
(* smallest and largest elements, sortedness.  A reduction combines        *)
(* neighbouring partial results in an order that depends on the blocks and *)
(* on the scheduler; here any two neighbours may be combined next.         *)
(***************************************************************************)
CONSTANTS
  ReduceOps,   (* the functions                                *)
  ReduceRanges (* the sequences of numbers they are applied to *)

VARIABLES
  op, r,
  parts (* the partial results, from left to right *)

n_reduce == Len(r)
elt_reduce(k) == r[k + 1]
ReducePlaces == 0..(n_reduce - 1)

(* The predicate counted: whether an element is 1.                         *)
p(x) == x = 1
Counting == {"count_if", "all_of", "any_of", "none_of"}

(* Of equal elements the left one is taken.                                *)
min_element(x, y) == IF ~(elt_reduce(y) < elt_reduce(x)) THEN x ELSE y
max_element(x, y) == IF ~(elt_reduce(x) < elt_reduce(y)) THEN x ELSE y
minmax_element(x, y) == << min_element(x[1], y[1]), max_element(x[2], y[2]) >>

(* What is_sorted looks for.                                               *)
Descent(k) == elt_reduce(k + 1) < elt_reduce(k)

(* What the function makes of place k.                                     *)
Single(k) ==
  CASE op \in Counting -> IF p(elt_reduce(k)) THEN 1 ELSE 0
    [] op \in {"min_element", "max_element"} -> k
    [] op = "minmax_element" -> << k, k >>
    [] op = "is_sorted" -> Descent(k)

(* How two results are combined, the left one first.                       *)
ReduceCombine(x, y) ==
  CASE op \in Counting -> x + y
    [] op = "min_element" -> min_element(x, y)
    [] op = "max_element" -> max_element(x, y)
    [] op = "minmax_element" -> minmax_element(x, y)
    [] op = "is_sorted" -> x \/ y

Identity ==
  CASE op \in Counting -> 0
    [] op \in {"min_element", "max_element"} -> n_reduce
    [] op = "minmax_element" -> << n_reduce, n_reduce >>
    [] op = "is_sorted" -> FALSE

Many == IF op = "is_sorted" THEN (IF n_reduce = 0 THEN 0 ELSE n_reduce - 1) ELSE n_reduce

ReduceInit ==
  /\ op \in ReduceOps
  /\ r \in ReduceRanges
  /\ parts = [ k \in 1..Many |-> Single(k - 1) ]

Merge(k) ==
  /\ k + 1 <= Len(parts)
  /\ parts' = SubSeq(parts, 1, k - 1) \o << ReduceCombine(parts[k], parts[k+1]) >> \o SubSeq(parts, k + 2, Len(parts))
  /\ UNCHANGED << op, r >>

ReduceNext == \E k \in 1..Len(parts) : Merge(k)

ReduceFinished == Len(parts) <= 1
Reduced == IF parts = << >> THEN Identity ELSE parts[1]

Returned ==
  CASE op \in {"count_if", "min_element", "max_element", "minmax_element"} -> Reduced
    [] op = "all_of" -> Reduced = n_reduce
    [] op = "any_of" -> Reduced > 1
    [] op = "none_of" -> Reduced = 0
    [] op = "is_sorted" -> ~Reduced

-----------------------------------------------------------------------------
Least == { k \in ReducePlaces : \A j \in ReducePlaces : elt_reduce(k) <= elt_reduce(j) }
Greatest == { k \in ReducePlaces : \A j \in ReducePlaces : elt_reduce(k) >= elt_reduce(j) }
FirstOf(S) == IF S = {} THEN n_reduce ELSE CHOOSE x \in S : \A y \in S : x <= y

(* What the functions are for.  An element among equals is the first.      *)
ReduceMeant ==
  CASE op = "count_if" -> Cardinality({ k \in ReducePlaces : p(elt_reduce(k)) })
    [] op = "all_of" -> \A k \in ReducePlaces : p(elt_reduce(k))
    [] op = "any_of" -> \E k \in ReducePlaces : p(elt_reduce(k))
    [] op = "none_of" -> ~ \E k \in ReducePlaces : p(elt_reduce(k))
    [] op = "min_element" -> FirstOf(Least)
    [] op = "max_element" -> FirstOf(Greatest)
    [] op = "minmax_element" -> << FirstOf(Least), FirstOf(Greatest) >>
    [] op = "is_sorted" -> \A k, j \in ReducePlaces : k < j => elt_reduce(k) <= elt_reduce(j)

(* The answer is the same and right however the partial results were       *)
(* combined: which of several equal elements is found does not depend on   *)
(* the number of threads.                                                  *)
ReduceRight == ReduceFinished => Returned = ReduceMeant

----------------------------------------------------------------------------
(***************************************************************************)
(* The functions of primitives.h that rearrange a sequence: every body of  *)
(* their loops writes one place of the result from one place of the        *)
(* argument, and reverse_inplace's swap two places.  A place of the result *)
(* holds the place its element came from, so equal elements can be told    *)
(* apart.                                                                  *)
(***************************************************************************)
CONSTANTS
  MoveOps,    (* the functions                       *)
  MoveRanges, (* sequences of numbers                *)
  Others,     (* those appended to them              *)
  Nested,     (* sequences of sequences, for flatten *)
  Uninitialized

VARIABLES
  s, t, (* the arguments: r, append's other, rotate's number    *)
  res,  (* the result                                           *)
  todo, (* the bodies of the loop that have not run: pairs of a *)
        (* place written and a place read                       *)
  twice (* a place was constructed a second time                *)

n_move == Len(r)
MovePlaces(m) == 0..(m - 1)
elt_move(i) == r[i + 1]

(* The stable order of the places: i comes before j.                       *)
Before(i, j) == elt_move(i) < elt_move(j) \/ (elt_move(i) = elt_move(j) /\ i < j)
SortedPlace(i) == Cardinality({ j \in MovePlaces(n_move) : Before(j, i) })
position(k) == CHOOSE i \in MovePlaces(n_move) : SortedPlace(i) = k

(* What pack keeps of the places for which Flag holds, seen through at.    *)
Packed(Flag(_), at(_)) ==
  { << Cardinality({ j \in MovePlaces(n_move) : j < i /\ Flag(j) }), at(i) >> : i \in { i \in MovePlaces(n_move) : Flag(i) } }

offsets_move(i) == LET m[k \in 0..i] == IF k = 0 THEN 0 ELSE m[k-1] + Len(r[k]) IN m[i]

Rotated == { << i, IF i + t < n_move THEN i + t ELSE i + t - n_move >> : i \in MovePlaces(n_move) }
Copied == { << i, i >> : i \in MovePlaces(n_move) }
iota == { << i, i >> : i \in MovePlaces(n_move) }
Reversed == { << i, n_move - i - 1 >> : i \in MovePlaces(n_move) }
Appended == { << i, IF i < n_move THEN i ELSE n_move + (i - n_move) >> : i \in MovePlaces(n_move + Len(s)) }

(* Mutant: the scan of the lengths is inclusive.                           *)
FlattenedInclusive ==
  UNION { { << offsets_move(i + 1) + j, << i, j >> >> : j \in MovePlaces(Len(elt_move(i))) } : i \in MovePlaces(n_move) }

Flattened == UNION { { << offsets_move(i) + j, << i, j >> >> : j \in MovePlaces(Len(elt_move(i))) } : i \in MovePlaces(n_move) }

Unique == LET New(i) == i = 0 \/ elt_move(i) # elt_move(i - 1) IN Packed(New, LAMBDA i : i)
Removed == LET Kept(i) == elt_move(i) # 1 IN Packed(Kept, LAMBDA i : i)
DuplicatesRemoved ==
  LET New(k) == k = 0 \/ elt_move(position(k - 1)) < elt_move(position(k)) IN Packed(New, position)
Ranked == { << position(i), i >> : i \in MovePlaces(n_move) }
for_each == { << i, i >> : i \in MovePlaces(n_move) }
Swaps == { << i, n_move - i - 1 >> : i \in MovePlaces(n_move \div 2) }

Bodies ==
  CASE op = "reverse" -> Reversed
    [] op = "reverse_inplace" -> Swaps
    [] op = "copy" -> Copied
    [] op = "iota" -> iota
    [] op = "for_each" -> for_each
    [] op = "rotate" -> Rotated
    [] op = "append" -> Appended
    [] op = "flatten" -> Flattened
    [] op = "unique" -> Unique
    [] op = "remove_if" -> Removed
    [] op = "remove_duplicates_ordered" -> DuplicatesRemoved
    [] op = "rank" -> Ranked

Size ==
  CASE op \in {"unique", "remove_if", "remove_duplicates_ordered"} -> Cardinality(Bodies)
    [] op = "append" -> n_move + Len(s)
    [] op = "flatten" -> offsets_move(n_move)
    [] OTHER -> n_move

MoveInit ==
  /\ op \in MoveOps
  /\ IF op = "flatten" THEN r \in Nested ELSE r \in MoveRanges
  /\ s \in IF op = "append" THEN Others ELSE { << >> }
  /\ t \in IF op = "rotate" THEN 0..n_move ELSE {0}
  /\ todo = Bodies
  /\ res = [ k \in MovePlaces(Size) |-> IF op = "reverse_inplace" THEN k ELSE Uninitialized ]
  /\ twice = FALSE

Body(b) ==
  /\ b \in todo /\ op # "reverse_inplace"
  /\ res' = [ k \in DOMAIN res \cup {b[1]} |-> IF k = b[1] THEN b[2] ELSE res[k] ]
  /\ twice' = (twice \/ b[1] \notin DOMAIN res \/ res[b[1]] # Uninitialized)
  /\ todo' = todo \ {b}
  /\ UNCHANGED << op, r, s, t >>

Swap(b) ==
  /\ b \in todo /\ op = "reverse_inplace"
  /\ res' = [ res EXCEPT ![b[1]] = res[b[2]], ![b[2]] = res[b[1]] ]
  /\ todo' = todo \ {b}
  /\ UNCHANGED << op, r, s, t, twice >>

MoveNext == \E b \in todo : Body(b) \/ Swap(b)

-----------------------------------------------------------------------------
Result == [ k \in 1..Size |-> res[k - 1] ]
Whole == [ i \in 1..n_move |-> i - 1 ]
Under(x) == { i \in MovePlaces(n_move) : elt_move(i) = x }
First(S) == CHOOSE i \in S : \A j \in S : i <= j
Increasing(q) == \A j, k \in DOMAIN q : j < k => q[j] < q[k]

MoveMeant ==
  CASE op \in {"reverse", "reverse_inplace"} -> Result = Reverse(Whole)
    [] op \in {"copy", "iota", "for_each"} -> Result = Whole
    [] op = "rotate" -> Result = SubSeq(Whole, t + 1, n_move) \o SubSeq(Whole, 1, t)
    [] op = "append" -> Result = [ i \in 1..(n_move + Len(s)) |-> i - 1 ]
    [] op = "flatten" -> [ k \in 1..Size |-> r[Result[k][1] + 1][Result[k][2] + 1] ] = FlattenSeq(r)
    [] op = "unique" ->
         Increasing(Result) /\ ToSet(Result) = { i \in MovePlaces(n_move) : \A j \in MovePlaces(n_move) : i = j + 1 => elt_move(i) # elt_move(j) }
    [] op = "remove_if" -> Increasing(Result) /\ ToSet(Result) = MovePlaces(n_move) \ Under(1)
    [] op = "remove_duplicates_ordered" ->
         /\ ToSet(Result) = { First(Under(elt_move(i))) : i \in MovePlaces(n_move) }
         /\ Increasing([ k \in DOMAIN Result |-> elt_move(Result[k]) ])
    [] op = "rank" ->
         \A i \in MovePlaces(n_move) : i = First(Under(elt_move(i))) =>
           res[i] = Cardinality({ j \in MovePlaces(n_move) : elt_move(j) < elt_move(i) })

(* Every place of the result is constructed exactly once: a loop leaves no *)
(* hole and no two of its bodies meet.                                     *)
OnceEach ==
  /\ ~twice
  /\ todo = {} => \A k \in DOMAIN res : res[k] # Uninitialized

(* The functions do what their names say; of equal elements the first      *)
(* remains.  The rank of an element is "the number of elements in the      *)
(* range that compare less than it" (primitives.h:1211): that is claimed   *)
(* of the first of equal elements, and nothing of the others, whose rank   *)
(* is one more than that of the one before.                                *)
MoveRight == todo = {} => MoveMeant

----------------------------------------------------------------------------
(***************************************************************************)
(* Splitting a text (primitives.h): map_tokens_small finds the places      *)
(* where spaces begin or end, map_tokens scans pairs of a count and a      *)
(* place and then writes each token where its count says, all ends in      *)
(* parallel; split_at cuts behind marked places.  A token is given by the  *)
(* places where it begins and ends.                                        *)
(***************************************************************************)
CONSTANTS
  Texts (* sequences of Booleans: whether a character is space, *)
        (* or, for split_at, whether it is marked               *)

VARIABLES
                (* "map_tokens_small", "map_tokens", "split_at"  *)
  text,
                (* map_tokens: the scan's partial results so far *)
  offsets, sum, (* what it returned                              *)
  result,
  ran           (* the bodies of the last loop that have run     *)

n_token == Len(text)
is_space(k) == text[k + 1]

is_start(i) == (i = 0 \/ is_space(i - 1)) /\ i # n_token /\ ~is_space(i)
is_end(i) == (i = n_token \/ is_space(i)) /\ i # 0 /\ ~is_space(i - 1)

(* The number of starts, and the last of them.                             *)
g(a, b) == IF b[1] = 0 THEN a ELSE << a[1] + b[1], b[2] >>

in_token(i) == IF is_start(i) THEN << 1, i >> ELSE << 0, 0 >>

(* The places where map_tokens_small cuts.                                 *)
Boundary(i) ==
  IF i = 0 THEN ~is_space(0) ELSE IF i = n_token THEN ~is_space(n_token - 1) ELSE is_space(i - 1) # is_space(i)

RECURSIVE TokenRising(_)
TokenRising(S) ==
  IF S = {} THEN << >>
  ELSE LET x == CHOOSE x \in S : \A y \in S : x <= y IN << x >> \o TokenRising(S \ {x})

Locations ==
  TokenRising(IF op = "split_at" THEN { i \in 0..(n_token - 1) : text[i + 1] } ELSE { i \in 0..n_token : Boundary(i) })

TokenInit ==
  /\ op \in {"map_tokens_small", "map_tokens", "split_at"}
  /\ text \in Texts
  /\ op # "split_at" => n_token > 0
  /\ parts = IF op = "map_tokens" THEN [ k \in 1..(n_token + 1) |-> << << in_token(k - 1) >>, in_token(k - 1) >> ] ELSE << >>
  /\ offsets = Uninitialized /\ sum = Uninitialized
  /\ ran = {}
  /\ result =
       CASE op = "map_tokens_small" -> [ k \in 1..(Len(Locations) \div 2) |-> Uninitialized ]
         [] op = "split_at" -> [ k \in 1..(Len(Locations) + 1) |-> Uninitialized ]
         [] op = "map_tokens" -> Uninitialized

-----------------------------------------------------------------------------
(* The scan combines neighbouring parts in any order: a part is what it    *)
(* covers, with each place's total from the part's beginning on, and the   *)
(* total.                                                                  *)
TokenCombine(k) ==
  /\ op = "map_tokens" /\ sum = Uninitialized
  /\ k + 1 <= Len(parts)
  /\ LET a == parts[k]
         b == parts[k + 1]
         c == << a[1] \o [ j \in 1..Len(b[1]) |-> g(a[2], b[1][j]) ], g(a[2], b[2]) >>
     IN  parts' = SubSeq(parts, 1, k - 1) \o << c >> \o SubSeq(parts, k + 2, Len(parts))
  /\ UNCHANGED << op, text, offsets, sum, result, ran >>

(* The exclusive scan, and room for as many tokens as there are starts.    *)
Scanned ==
  /\ op = "map_tokens" /\ sum = Uninitialized
  /\ Len(parts) = 1
  /\ offsets' = << << 0, 0 >> >> \o SubSeq(parts[1][1], 1, n_token)
  /\ sum' = parts[1][2]
  /\ result' = [ k \in 1..parts[1][2][1] |-> Uninitialized ]
  /\ parts' = << >>
  /\ UNCHANGED << op, text, ran >>

Assign(k, token) == result' = [ result EXCEPT ![k] = token ]

(* The loop of map_tokens over all places.                                 *)
AtPlace(i) ==
  /\ op = "map_tokens" /\ sum # Uninitialized
  /\ i \in (0..n_token) \ ran
  /\ IF is_end(i) THEN Assign(offsets[i + 1][1], << offsets[i + 1][2], i >>) ELSE UNCHANGED result
  /\ ran' = ran \cup {i}
  /\ UNCHANGED << op, text, parts, offsets, sum >>

(* That of map_tokens_small over its cuts, two by two.                     *)
AtCut(i) ==
  /\ op = "map_tokens_small"
  /\ i \in DOMAIN result \ ran
  /\ Assign(i, << Locations[2 * i - 1], Locations[2 * i] >>)
  /\ ran' = ran \cup {i}
  /\ UNCHANGED << op, text, parts, offsets, sum >>

(* That of map_split_at over the pieces.                                   *)
AtPiece(i) ==
  /\ op = "split_at"
  /\ i \in DOMAIN result \ ran
  /\ Assign(i, << IF i = 1 THEN 0 ELSE Locations[i - 1] + 1,
                  IF i = Len(result) THEN n_token ELSE Locations[i] + 1 >>)
  /\ ran' = ran \cup {i}
  /\ UNCHANGED << op, text, parts, offsets, sum >>

TokenNext ==
  \/ Scanned
  \/ \E k \in 1..(n_token + 1) : TokenCombine(k) \/ AtCut(k) \/ AtPiece(k)
  \/ \E i \in 0..n_token : AtPlace(i)

TokenFinished ==
  CASE op = "map_tokens" -> sum # Uninitialized /\ ran = 0..n_token
    [] OTHER -> ran = DOMAIN result

-----------------------------------------------------------------------------
(* The longest runs of characters that are not space, from left to right.  *)
Runs ==
  { << a, b >> \in (0..n_token) \X (0..n_token) :
      /\ a < b
      /\ \A k \in a..(b - 1) : ~is_space(k)
      /\ a > 0 => is_space(a - 1)
      /\ b < n_token => is_space(b) }

(* "the longest contiguous subsequences of non space characters": both     *)
(* ways of finding them give the same tokens in their order, each written  *)
(* to a cell of its own.                                                   *)
TokensRight ==
  TokenFinished /\ op # "split_at" =>
    /\ ToSet(result) = Runs
    /\ \A j, k \in DOMAIN result : j < k => result[j][1] < result[k][1]

(* split_at: "a nested sequence whose sum of lengths is equal to the       *)
(* original length", "one more than the number of true flags".             *)
PiecesCover ==
  TokenFinished /\ op = "split_at" =>
    /\ Len(result) = 1 + Cardinality({ k \in 1..n_token : text[k] })
    /\ result[1][1] = 0 /\ result[Len(result)][2] = n_token
    /\ \A k \in 1..(Len(result) - 1) : result[k][2] = result[k + 1][1] /\ text[result[k][2]]

----------------------------------------------------------------------------
(***************************************************************************)
(* kth_smallest_copy (primitives.h, and in examples/kth_smallest.h): the   *)
(* elements are divided by pivots drawn from among them, counted, and the  *)
(* search goes on in the part that holds the k-th.  The pivots stand in a  *)
(* heap_tree, whose rank says to which part an element belongs.            *)
(***************************************************************************)
CONSTANTS
  Inputs,      (* the sequences searched                                 *)
  small,       (* sequences of at most so many elements are sorted: 1000 *)
  sample_size, (* one less than a power of two: 31                       *)
  MaxDepth,    (* bound: how many calls are followed                     *)
  None

VARIABLES
  given, wanted, (* what the first call was asked    *)
  in, k,         (* the arguments of the current one *)
  pivots,        (* those of the previous one        *)
  depth,         (* how many calls                   *)
  answer

Sorted(q) == SortSeq(q, <)
KthRising(q) == \A i \in 1..(Len(q) - 1) : q[i] <= q[i + 1]

-----------------------------------------------------------------------------
(* heap_tree: the sorted keys from l to r below root, the children of i at *)
(* 2i+1 and 2i+2.                                                          *)
RECURSIVE to_tree(_, _, _, _)
to_tree(In, root, from, to) ==
  LET m == from + (to - from) \div 2
  IN  IF to - from = 1
      THEN root :> In[m + 1]
      ELSE (root :> In[m + 1]) @@ to_tree(In, 2 * root + 1, from, m) @@ to_tree(In, 2 * root + 2, m + 1, to)

If(b) == IF b THEN 1 ELSE 0

(* The way down from j: left at a key that is not less, except at the last *)
(* level, where it is right unless the key is greater.                     *)
RECURSIVE descend(_, _, _, _)
descend(tree, size, key, j) ==
  IF 2 * j + 1 < size
  THEN descend(tree, size, key, 1 + 2 * j + If(tree[j] < key))
  ELSE 1 + 2 * j + If(~(key < tree[j]))

rank(keys, key) ==
  LET size == Len(keys) IN descend(to_tree(keys, 0, 0, size), size, key, 0) - size

-----------------------------------------------------------------------------
KthInit ==
  /\ given \in Inputs
  /\ wanted \in 0..(Len(given) - 1)
  /\ in = given /\ k = wanted
  /\ pivots = << >>
  /\ depth = 1
  /\ answer = None

Sort ==
  /\ answer = None /\ Len(in) <= small
  /\ answer' = Sorted(in)[k + 1]
  /\ UNCHANGED << given, wanted, in, k, pivots, depth >>

(* The pivots are any that a sample can give: each a drawn element.        *)
Draws == { q \in [ 1..sample_size -> ToSet(in) ] : KthRising(q) }

(* The number of elements in the parts before part id.                     *)
offset(q, id) == Cardinality({ i \in DOMAIN in : rank(q, in[i]) < id })

(* upper_bound of k among the offsets, less one.                           *)
Part(q) == CHOOSE id \in 0..sample_size : offset(q, id) <= k /\ \A j \in (id + 1)..sample_size : offset(q, j) > k

Recurse ==
  /\ answer = None /\ Len(in) > small /\ depth < MaxDepth
  /\ \E q \in Draws, id \in 0..sample_size :
       /\ id = Part(q)
       /\ pivots' = q
       /\ in' = SelectSeq(in, LAMBDA x : rank(q, x) = id)
       /\ k' = k - offset(q, id)
  /\ depth' = depth + 1
  /\ UNCHANGED << given, wanted, answer >>

KthNext == Sort \/ Recurse

-----------------------------------------------------------------------------
Kth(q, i) == Sorted(q)[i + 1]

(* Every call is asked for the element the first one was asked for, and it *)
(* is the k-th of what was given.                                          *)
AsksTheSame ==
  /\ 0 <= k /\ k < Len(in) /\ Kth(in, k) = Kth(given, wanted)
  /\ answer # None => answer = Kth(given, wanted)

(* rank keeps the order, all that counting and packing by it need.         *)
RankMonotone ==
  pivots # << >> => \A x, y \in ToSet(given) : x <= y => rank(pivots, x) <= rank(pivots, y)
-----------------------------------------------------------------------------
(***************************************************************************)
(* range_min of examples/range_min.h: a table of the places of the least   *)
(* elements of 1, 2, 4, .. blocks, and a query for any range.  The array   *)
(* is a function from 0, as are the rows of the table.                     *)
(***************************************************************************)
CONSTANTS Arrays, BlockSizes

VARIABLES array, block_size, table, asked, found

range_vars == << array, block_size, table, asked, found >>

n_range == Cardinality(DOMAIN array)
m_range == 1 + (n_range - 1) \div block_size

min_index(i, j) == IF array[j] < array[i] THEN j ELSE i

(* The later place goes first, so of equal ones the last one is kept.      *)
BlockMin(i) ==
  LET last == IF (i + 1) * block_size < n_range THEN (i + 1) * block_size - 1 ELSE n_range - 1
      f[j \in (i * block_size)..last] == IF j = i * block_size THEN j ELSE min_index(j, f[j - 1])
  IN  f[last]

log2_up(x) == CHOOSE e \in 0..x : 2^e >= x /\ (e = 0 \/ 2^(e - 1) < x)

(* preprocess: a row from the row before it, for all blocks at once.       *)
FirstRow == [ i \in 0..(m_range - 1) |-> BlockMin(i) ]
NextRow(row, dist) ==
  [ i \in 0..(m_range - 1) |-> IF i < m_range - dist THEN min_index(row[i], row[i + dist]) ELSE row[i] ]

RangeInit ==
  /\ array \in Arrays /\ block_size \in BlockSizes
  /\ table = << FirstRow >>
  /\ asked = << >> /\ found = << >>

AddRow ==
  /\ Len(table) < log2_up(m_range + 1)
  /\ table' = Append(table, NextRow(Last(table), 2^(Len(table) - 1)))
  /\ UNCHANGED << array, block_size, asked, found >>

(* The least place from i to j, the earlier one first.                     *)
Scan(i, j) == LET f[x \in i..j] == IF x = i THEN i ELSE min_index(f[x - 1], x) IN f[j]

(* The least of the blocks a to b: two ranges of the table that overlap.   *)
Between(a, b) ==
  IF a = b THEN table[1][a]
  ELSE IF b = a + 1 THEN table[2][a]
  ELSE LET e == log2_up(b - a + 1) - 1
       IN  min_index(table[e + 1][a], table[e + 1][b + 1 - 2^e])

Query(i, j) ==
  LET bi == i \div block_size bj == j \div block_size IN
  /\ Len(table) >= log2_up(m_range + 1) /\ asked = << >>
  /\ asked' = << i, j >>
  /\ found' = << IF bi >= bj - 1 THEN Scan(i, j)
                 ELSE min_index(Scan(i, (bi + 1) * block_size - 1),
                        min_index(Between(bi + 1, bj - 1), Scan(bj * block_size, j))) >>
  /\ UNCHANGED << array, block_size, table >>

RangeNext == AddRow \/ \E i, j \in DOMAIN array : i <= j /\ Query(i, j)

(* A query gives a place in its range with no lesser element there, though *)
(* the two ranges it looks up in the table overlap and end at blocks.      *)
RangeMinRight ==
  asked # << >> =>
    found[1] \in asked[1]..asked[2] /\ \A x \in asked[1]..asked[2] : array[found[1]] <= array[x]
=============================================================================
