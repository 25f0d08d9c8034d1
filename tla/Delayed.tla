------------------------------- MODULE Delayed -------------------------------
(***************************************************************************)
(* Delayed sequences of parlay (internal/delayed): operations on a         *)
(* sequence that store no result.  What each of them does store is where   *)
(* an iterator has to begin for every block of block_size elements of the  *)
(* result, so that the blocks can be run through in parallel later.  A     *)
(* pipeline of operations is built over a sequence and then run.           *)
(*                                                                         *)
(* A view is the sequence of its blocks, a block what an iterator gives    *)
(* from begin_block(i) until it equals end_block(i).  The elements are     *)
(* words, the monoid is concatenation, so a result tells what was combined *)
(* and in which order; flatten takes words apart into words of one letter. *)
(* Blocks and elements are numbered from 0, as in the code.                *)
(***************************************************************************)
EXTENDS Integers, FiniteSets, SequencesExt

CONSTANTS
  block_size,
  Sources,     (* the sequences of words pipelines are built over          *)
  other,       (* the sequence that zip pairs them with                    *)
  Pipelines,   (* pairs of a sequence of operations and a terminal one     *)
  Uninitialized

VARIABLES
  source, ops, terminal, (* what is asked for                              *)
  left,        (* the operations still to be built                         *)
  view,        (* what the operations built so far give                    *)
  random,      (* it is a random-access range                              *)
  temporary,   (* its elements are made when asked for                     *)
  total,       (* what the scan that made it returned beside it            *)
  past,        (* its last stream reads on when it has been run to its end *)
  pc,          (* the loop under way                                       *)
  todo,        (* the blocks whose body has not run in it                  *)
  part,        (* what the bodies have found, by block                     *)
  out, writes  (* the result, and how often each place was constructed     *)

vars == << source, ops, terminal, left, view, random, temporary, total, past, pc, todo, part,
           out, writes >>
asked == << source, ops, terminal >>
built == << left, view, random, temporary, total, past >>

num_blocks_from_size(n) == IF n = 0 THEN 0 ELSE 1 + (n - 1) \div block_size
Smaller(a, b) == IF a < b THEN a ELSE b
Upto(m) == 0..(m - 1)

(* A random-access range by blocks: begin_block and end_block.             *)
begin_block(q, i) == Smaller(i * block_size, Len(q))
end_block(q, i) == Smaller((i + 1) * block_size, Len(q))
(* An iterator of a delayed_sequence is an index: what it gives from one   *)
(* index to another.                                                       *)
Run(q, first, last) == SubSeq(q, first + 1, last)

Blocks(q) ==
  [ b \in 1..num_blocks_from_size(Len(q)) |-> Run(q, begin_block(q, b - 1), end_block(q, b - 1)) ]

num_blocks == Len(view)
block(i) == view[i + 1]
All == FlattenSeq(view)
n == Len(All)

(* What an iterator goes through from begin_block(i) to the end.           *)
From(i) == FlattenSeq(SubSeq(view, i + 1, num_blocks))

(* The functions given to the operations.                                  *)
f(w) == Append(w, 2)
p(w) == w = << >> \/ Head(w) = 1
Fold(w, q) == w \o FlattenSeq(q)

(* The source is stored, or a delayed_tabulate of the same elements.       *)
Init ==
  /\ source \in Sources
  /\ \E line \in Pipelines : ops = line[1] /\ terminal = line[2]
  /\ left = ops
  /\ view = Blocks(source)
  /\ random = TRUE /\ temporary \in BOOLEAN /\ total = << >> /\ past = FALSE
  /\ pc = "build" /\ todo = {} /\ part = << >> /\ out = << >> /\ writes = << >>

Builds(o) == pc = "build" /\ left # << >> /\ Head(left) = o

(* An operation is built: v is what it gives.                              *)
BuiltWith(v, r, t, sum, on) ==
  /\ view' = v /\ random' = r /\ temporary' = t /\ total' = sum /\ past' = on
  /\ left' = Tail(left)
  /\ pc' = "build" /\ todo' = {} /\ part' = << >>
  /\ UNCHANGED << asked, out, writes >>

Built(v, r, t) == BuiltWith(v, r, t, << >>, FALSE)

(* A loop over the blocks of the view begins.                              *)
Start(loop, bodies, initially) ==
  /\ pc' = loop /\ todo' = bodies /\ part' = initially
  /\ UNCHANGED << asked, built, out, writes >>

(* Memory that is not of the range is read, and not survived.              *)
Crash ==
  /\ pc' = "crashed" /\ todo' = {}
  /\ UNCHANGED << asked, built, part, out, writes >>

(* The body of block i has found x.                                        *)
Found(i, x) ==
  /\ part' = [ k \in DOMAIN part |-> IF k \in DOMAIN x THEN x[k] ELSE part[k] ]
  /\ todo' = todo \ {i}
  /\ UNCHANGED << asked, built, pc, out, writes >>

One(i, x) == [ k \in {i} |-> x ]
Nothing(m) == [ i \in Upto(m) |-> Uninitialized ]

-----------------------------------------------------------------------------
(* map stores nothing.                                                     *)
delayed_map(q) == [ k \in DOMAIN q |-> f(q[k]) ]

Map ==
  /\ Builds("map")
  /\ Built([ b \in DOMAIN view |-> delayed_map(view[b]) ], random, TRUE)

(* enumerate pairs every element with its index.                           *)
Numbered(q, first) == [ k \in DOMAIN q |-> << first + k - 1 >> \o q[k] ]

Enumerate ==
  /\ Builds("enumerate")
  /\ Built([ b \in DOMAIN view |-> Numbered(view[b], (b - 1) * block_size) ], random, TRUE)

(* zip_with: as many elements as the shorter one has.  The iterators of    *)
(* both go on from their block i until the index says that it is the end.  *)
ZipBlock(m, i) ==
  LET tail == SubSeq(other, begin_block(other, i) + 1, Len(other))
  IN  [ k \in 1..(Smaller(m, (i + 1) * block_size) - Smaller(m, i * block_size)) |-> From(i)[k] \o tail[k] ]

ZipWith ==
  /\ Builds("zip")
  /\ LET m == Smaller(n, Len(other))
     IN  Built([ b \in 1..num_blocks_from_size(m) |-> ZipBlock(m, b - 1) ], random, TRUE)

-----------------------------------------------------------------------------
(* Scans.  The sums of the blocks are found first, unless there is only    *)
(* one block and its sum is not needed.                                    *)
Inclusive == Head(left) = "scan_inclusive"
OneBlock == num_blocks = 1 /\ Inclusive

ScanStart ==
  /\ Builds("scan") \/ Builds("scan_inclusive")
  /\ IF OneBlock THEN Start("first values", Upto(num_blocks), [ i \in {0} |-> << >> ])
     ELSE Start("block sums", Upto(num_blocks), [ i \in 0..num_blocks |-> << >> ])

SumBlock(i) ==
  /\ pc = "block sums" /\ i \in todo
  /\ Found(i, One(i, Fold(<< >>, block(i))))

SumBefore(i) == Fold(<< >>, [ k \in 1..i |-> part[k - 1] ])

ScanSums ==
  /\ pc = "block sums" /\ todo = {}
  /\ Start("first values", IF Inclusive THEN Upto(num_blocks) ELSE {}, [ i \in DOMAIN part |-> SumBefore(i) ])

(* "If inclusive, each block needs to initially include its first value".  *)
FirstValue(i) ==
  /\ pc = "first values" /\ i \in todo
  /\ Found(i, One(i, part[i] \o From(i)[1]))

(* The value of the iterator at the k-th element of block i.               *)
ScanValue(i, k) == Fold(part[i], IF Inclusive THEN SubSeq(block(i), 2, k) ELSE SubSeq(block(i), 1, k - 1))

ScanBuilt ==
  /\ pc = "first values" /\ todo = {}
  /\ Inclusive \/ num_blocks + 1 = Cardinality(DOMAIN part)
  /\ BuiltWith([ b \in DOMAIN view |-> [ k \in DOMAIN view[b] |-> ScanValue(b - 1, k) ] ], FALSE, TRUE,
               IF Inclusive THEN << >> ELSE part[num_blocks], FALSE)

-----------------------------------------------------------------------------
(* filter and filter_op: every block keeps what it should in a sequence of *)
(* its own, and these are flattened.                                       *)
filter_block(q) == SelectSeq(q, p)
map_maybe_block(q) == delayed_map(SelectSeq(q, p))

FilterStart ==
  /\ Builds("filter") \/ Builds("filter_op")
  /\ Start("filter blocks", Upto(num_blocks), Nothing(num_blocks))

FilterBlock(i) ==
  /\ pc = "filter blocks" /\ i \in todo
  /\ Found(i, One(i, IF Head(left) = "filter" THEN filter_block(block(i)) ELSE map_maybe_block(block(i))))

-----------------------------------------------------------------------------
(* flatten.  outer is the sequence of sequences, an iterator a pair of a   *)
(* place in it and a place in the inner sequence.                          *)
offset(outer, j) == Len(FlattenSeq(SubSeq(outer, 1, j)))
size(outer) == offset(outer, Len(outer))
Sentinel(outer) == << Len(outer), 0 >>

(* upper_bound of the first place of output block i, less one.             *)
Holds(outer, i) == Cardinality({ j \in Upto(Len(outer)) : offset(outer, j) <= i * block_size }) - 1

StartAt(outer, i) == LET j == Holds(outer, i) IN << j, i * block_size - offset(outer, j) >>

(* operator++, which leaves out inner sequences that are empty.            *)
Step(outer, it) ==
  LET later == { j \in Upto(Len(outer)) : j > it[1] /\ outer[j + 1] # << >> }
  IN  IF it[2] + 1 < Len(outer[it[1] + 1]) THEN << it[1], it[2] + 1 >>
      ELSE IF later = {} THEN Sentinel(outer)
      ELSE << CHOOSE j \in later : \A h \in later : j <= h, 0 >>

(* What lies between two iterators, and the end of the range if the second *)
(* is never met.                                                           *)
Between(outer, a, b) ==
  LET It[k \in 0..size(outer)] == IF k = 0 THEN a ELSE IF It[k - 1] = Sentinel(outer) THEN It[k - 1]
                                  ELSE Step(outer, It[k - 1])
      met == { k \in 0..size(outer) : It[k] = b }
      stop == IF met = {} THEN size(outer) ELSE CHOOSE k \in met : \A h \in met : k <= h
  IN  [ k \in 1..stop |-> outer[It[k - 1][1] + 1][It[k - 1][2] + 1] ]

Flattened(outer, start) ==
  [ b \in 1..(Cardinality(DOMAIN start) - 1) |-> Between(outer, start[b - 1], start[b]) ]

Letters(blocks) == [ b \in DOMAIN blocks |-> [ k \in DOMAIN blocks[b] |-> << blocks[b][k] >> ] ]

(* What begin_block is for each block of the result, and at its end.       *)
Starts(outer) == [ i \in 0..num_blocks_from_size(size(outer)) |->
  IF i = num_blocks_from_size(size(outer)) THEN Sentinel(outer) ELSE Uninitialized ]

(* A sequence of temporaries is copied first.                              *)
FlattenStart ==
  /\ Builds("flatten")
  /\ IF temporary THEN Start("copy", Upto(num_blocks), Nothing(n))
     ELSE IF random THEN Start("search", Upto(num_blocks_from_size(size(All))), Starts(All))
     ELSE Start("walk", IF size(All) = 0 THEN {} ELSE Upto(num_blocks), Starts(All))

CopyBlock(i) ==
  /\ pc = "copy" /\ i \in todo
  /\ Found(i, [ j \in { i * block_size + k - 1 : k \in DOMAIN block(i) } |-> block(i)[j - i * block_size + 1] ])

Copied ==
  /\ pc = "copy" /\ todo = {}
  /\ LET copy == [ k \in 1..n |-> part[k - 1] ]
     IN  /\ view' = Blocks(copy) /\ random' = TRUE /\ temporary' = FALSE
         /\ pc' = "search" /\ todo' = Upto(num_blocks_from_size(size(copy))) /\ part' = Starts(copy)
  /\ UNCHANGED << asked, left, total, past, out, writes >>

(* filter's sequences are flattened as they are.                           *)
Filtered ==
  /\ pc = "filter blocks" /\ todo = {}
  /\ LET kept == [ b \in 1..num_blocks |-> part[b - 1] ]
     IN  /\ view' = Blocks(kept) /\ random' = TRUE
         /\ pc' = "search" /\ todo' = Upto(num_blocks_from_size(size(kept))) /\ part' = Starts(kept)
  /\ UNCHANGED << asked, left, temporary, total, past, out, writes >>

(* A random-access range: each output block looks for its beginning.       *)
Search(i) ==
  /\ pc = "search" /\ i \in todo
  /\ Found(i, One(i, StartAt(All, i)))

(* A block-iterable one: each block of it looks for the output blocks that *)
(* begin in it.  No output block may begin in it or in a later block: then *)
(* the code reads out_block_offsets past its end, and what it finds there  *)
(* either ends the search or sends its iterator out of the range.          *)
out_block_offsets == [ b \in Upto(Cardinality(DOMAIN part) - 1) |-> Holds(All, b) ]
BlockEnd(i) == Smaller((i + 1) * block_size, n)
OutBlockId(i) == Cardinality({ b \in DOMAIN out_block_offsets : out_block_offsets[b] < i * block_size })
PastEnd(i) == OutBlockId(i) \notin DOMAIN out_block_offsets

(* Where in the range the iterator of block i is at index j.               *)
Advanced(i, j) == Len(FlattenSeq(SubSeq(view, 1, i))) + (j - i * block_size)

Walk(i) ==
  /\ pc = "walk" /\ i \in todo
  /\ LET mine == { b \in DOMAIN out_block_offsets : b >= OutBlockId(i) /\ out_block_offsets[b] < BlockEnd(i) }
     IN  Found(i, [ b \in mine |-> LET j == out_block_offsets[b]
                                   IN  << Advanced(i, j), b * block_size - offset(All, j) >> ])

WalkAway(i) ==
  /\ pc = "walk" /\ i \in todo /\ PastEnd(i)
  /\ Crash

FlattenBuilt ==
  /\ pc \in {"search", "walk"} /\ todo = {}
  /\ LET blocks == Flattened(All, part)
     IN  IF Head(left) = "flatten" THEN Built(Letters(blocks), FALSE, FALSE)
         ELSE Built(blocks, FALSE, temporary /\ Head(left) = "filter")

-----------------------------------------------------------------------------
(* The terminal operations.  Over a random-access range every element is   *)
(* a body of its own, else every block.                                    *)
TerminalStart ==
  /\ pc = "build" /\ left = << >>
  /\ pc' = terminal /\ todo' = Upto(IF random /\ terminal # "reduce" THEN n ELSE num_blocks)
  /\ part' = IF terminal = "reduce" THEN Nothing(num_blocks) ELSE << >>
  /\ out' = IF terminal = "to_sequence" THEN [ j \in Upto(n) |-> Uninitialized ] ELSE << >>
  /\ writes' = IF terminal = "to_sequence" THEN [ j \in Upto(n) |-> 0 ] ELSE << >>
  /\ UNCHANGED << asked, built >>

(* uninitialized_copy of block i to the places from i * block_size on.     *)
ToSequence(i) ==
  /\ pc = "to_sequence" /\ ~random /\ i \in todo
  /\ LET at == { i * block_size + k - 1 : k \in DOMAIN block(i) }
     IN  /\ out' = [ j \in DOMAIN out \cup at |-> IF j \in at THEN block(i)[j - i * block_size + 1] ELSE out[j] ]
         /\ writes' = [ j \in DOMAIN writes |-> IF j \in at THEN writes[j] + 1 ELSE writes[j] ]
  /\ todo' = todo \ {i}
  /\ UNCHANGED << asked, built, pc, part >>

CopyElement(i) ==
  /\ pc = "to_sequence" /\ random /\ i \in todo
  /\ out' = [ out EXCEPT ![i] = All[i + 1] ]
  /\ writes' = [ writes EXCEPT ![i] = @ + 1 ]
  /\ todo' = todo \ {i}
  /\ UNCHANGED << asked, built, pc, part >>

ReduceBlock(i) ==
  /\ pc = "reduce" /\ i \in todo
  /\ Found(i, One(i, Fold(<< >>, block(i))))

ForEach(i) ==
  /\ pc = "for_each" /\ i \in todo
  /\ out' = out \o IF random THEN << All[i + 1] >> ELSE block(i)
  /\ todo' = todo \ {i}
  /\ UNCHANGED << asked, built, pc, part, writes >>

Return ==
  /\ pc \in {"to_sequence", "reduce", "for_each"} /\ todo = {}
  /\ pc' = "done"
  /\ out' = IF terminal = "reduce" THEN SumBefore(num_blocks) ELSE out
  /\ UNCHANGED << asked, built, todo, part, writes >>

Next ==
  \/ Map \/ Enumerate \/ ZipWith \/ ScanStart \/ ScanSums \/ ScanBuilt \/ FilterStart \/ Filtered
  \/ FlattenStart \/ Copied \/ FlattenBuilt \/ TerminalStart \/ Return
  \/ \E i \in todo : \/ SumBlock(i) \/ FirstValue(i) \/ FilterBlock(i) \/ CopyBlock(i) \/ Search(i)
                     \/ Walk(i) \/ WalkAway(i) \/ ToSequence(i) \/ CopyElement(i) \/ ReduceBlock(i) \/ ForEach(i)

-----------------------------------------------------------------------------
(* What an operation is for, said without blocks.                          *)
Meant(op, q) ==
  CASE op = "map" -> [ k \in DOMAIN q |-> f(q[k]) ]
    [] op = "enumerate" -> Numbered(q, 0)
    [] op = "zip" -> [ k \in 1..Smaller(Len(q), Len(other)) |-> q[k] \o other[k] ]
    [] op = "scan" -> [ k \in DOMAIN q |-> Fold(<< >>, SubSeq(q, 1, k - 1)) ]
    [] op = "scan_inclusive" -> [ k \in DOMAIN q |-> Fold(<< >>, SubSeq(q, 1, k)) ]
    [] op = "filter" -> SelectSeq(q, p)
    [] op = "filter_op" -> LET kept == SelectSeq(q, p) IN [ k \in DOMAIN kept |-> f(kept[k]) ]
    [] op = "flatten" -> LET w == FlattenSeq(q) IN [ k \in DOMAIN w |-> << w[k] >> ]

Eager(done) == FoldLeft(LAMBDA q, op : Meant(op, q), source, done)

(* Whatever is built over a sequence, in blocks and in any order of their  *)
(* bodies, has the elements the same operations give one after the other,  *)
(* all blocks but the last of block_size elements: to_sequence and zip     *)
(* take block i to begin at i * block_size.  A scan also returns the total.*)
ViewRight ==
  LET done == SubSeq(ops, 1, Len(ops) - Len(left))
  IN  pc = "build" =>
        /\ view = Blocks(Eager(done))
        /\ done # << >> /\ Last(done) = "scan" => total = FlattenSeq(Eager(Front(done)))

PipelineRight ==
  pc = "done" =>
    CASE terminal \in {"to_sequence", "force"} -> [ k \in 1..Cardinality(DOMAIN out) |-> out[k - 1] ] = Eager(ops)
      [] terminal = "reduce" -> out = FlattenSeq(Eager(ops))
      [] terminal = "for_each" ->
           \A w \in ToSet(out) \cup ToSet(Eager(ops)) :
             Cardinality({ k \in DOMAIN out : out[k] = w }) = Cardinality({ k \in DOMAIN Eager(ops) : Eager(ops)[k] = w })

(* to_sequence constructs every place of its result once.                  *)
PlacesOnce ==
  /\ \A j \in DOMAIN writes : writes[j] <= 1
  /\ pc = "done" => \A j \in DOMAIN writes : writes[j] = 1

(* The iterators flatten has stored are those of the blocks, and differ.   *)
StartsRight ==
  (pc \in {"search", "walk"} /\ todo = {}) =>
    \A i \in DOMAIN part : i < Cardinality(DOMAIN part) - 1 => part[i] = StartAt(All, i)

-----------------------------------------------------------------------------
(***************************************************************************)
(* The older delayed sequences of parlay (block_delayed.h,                 *)
(* stream_delayed.h), which group_by still uses: a sequence of streams, one*)
(* for every block, each an iterator and a count.  An operation makes new  *)
(* streams out of the old ones.  The names and the functions are those of  *)
(* the newer ones, so both are checked against the same meaning.           *)
(***************************************************************************)
(* make_iterators cuts a sequence into blocks, and takes the streams of a  *)
(* delayed one as they are: the view in either case.                       *)
OldInit == Init /\ temporary = FALSE

(* A block_delayed_sequence dereferences its first stream when it is made, *)
(* though it may have none: what it finds there is kept and not used, or   *)
(* cannot be read.                                                         *)
Streams(v, sum, on) ==
  \/ BuiltWith(v, FALSE, FALSE, sum, on /\ v # << >>)
  \/ v = << >> /\ Crash

stream_map(q) == [ k \in DOMAIN q |-> f(q[k]) ]

OldMap ==
  /\ Builds("map")
  /\ Streams([ b \in DOMAIN view |-> stream_map(view[b]) ], << >>, past)

(* zip goes by the lengths of the first range: the second must not be      *)
(* shorter.                                                                *)
zip_with(q, r) == [ k \in DOMAIN q |-> q[k] \o r[k] ]

OldZip ==
  /\ Builds("zip")
  /\ \/ /\ n <= Len(other)
        /\ Streams([ b \in DOMAIN view |-> zip_with(view[b], Blocks(other)[b]) ], << >>, past)
     \/ n > Len(other) /\ Crash

(* Scans.                                                                  *)
stream_reduce(q) == Fold(<< >>, q)

OldScanStart ==
  /\ Builds("scan") \/ Builds("scan_inclusive")
  /\ IF OneBlock THEN Start("streams", {}, [ i \in {0} |-> << >> ])
     ELSE Start("stream sums", Upto(num_blocks), [ i \in 0..num_blocks |-> << >> ])

StreamSum(i) ==
  /\ pc = "stream sums" /\ i \in todo
  /\ Found(i, One(i, stream_reduce(block(i))))

OldScanSums ==
  /\ pc = "stream sums" /\ todo = {}
  /\ Start("streams", {}, [ i \in DOMAIN part |-> SumBefore(i) ])

(* The value is kept one element ahead if it is to include the first: with *)
(* the last element of the last block, what follows the range is read.     *)
stream_scan(q, init) == [ k \in DOMAIN q |-> Fold(init, SubSeq(q, 1, IF Inclusive THEN k ELSE k - 1)) ]

OldScanBuilt ==
  /\ pc = "streams"
  /\ \/ Streams([ b \in DOMAIN view |-> stream_scan(view[b], part[b - 1]) ],
                IF Inclusive THEN << >> ELSE part[num_blocks], past \/ Inclusive)
     \/ Inclusive /\ past /\ Len(block(num_blocks - 1)) = 1 /\ Crash

(* filter_map: the blocks are filtered into sequences, which are copied to *)
(* the places that a scan of their sizes gives, unless there is only one.  *)
OldFilterStart ==
  /\ Builds("filter") \/ Builds("filter_op")
  /\ Start("streams filtered", Upto(num_blocks), Nothing(num_blocks))

FilterStream(i) ==
  /\ pc = "streams filtered" /\ i \in todo
  /\ Found(i, One(i, IF Head(left) = "filter" THEN filter_block(block(i)) ELSE map_maybe_block(block(i))))

Kept == [ b \in 1..num_blocks |-> part[b - 1] ]

Placed ==
  /\ pc = "streams filtered" /\ todo = {} /\ Head(left) = "filter"
  /\ IF num_blocks = 1 THEN Built(Blocks(part[0]), TRUE, FALSE)
     ELSE /\ view' = Kept
          /\ pc' = "copy kept" /\ todo' = Upto(num_blocks) /\ part' = Nothing(size(Kept))
          /\ UNCHANGED << asked, left, random, temporary, total, past, out, writes >>

CopyKept(i) ==
  /\ pc = "copy kept" /\ i \in todo
  /\ LET at == offset(view, i)
     IN  Found(i, [ j \in { at + k - 1 : k \in DOMAIN block(i) } |-> block(i)[j - at + 1] ])

KeptBuilt ==
  /\ pc = "copy kept" /\ todo = {}
  /\ Built(Blocks([ k \in 1..n |-> part[k - 1] ]), TRUE, FALSE)

(* flatten of a sequence of sequences: each block of the result begins at  *)
(* an iterator found by its offset, and takes len elements from there.     *)
(* After the last of all, operator++ looks for a sequence that follows.    *)
len(outer, i) == Smaller(block_size, size(outer) - i * block_size)

OldFlattenStart ==
  /\ Builds("flatten") /\ random
  /\ Start("old search", Upto(num_blocks_from_size(size(All))), Nothing(num_blocks_from_size(size(All))))

(* filter_op flattens the sequences of its blocks.                         *)
OldFiltered ==
  /\ pc = "streams filtered" /\ todo = {} /\ Head(left) = "filter_op"
  /\ view' = Blocks(Kept) /\ random' = TRUE
  /\ pc' = "old search" /\ todo' = Upto(num_blocks_from_size(size(Kept)))
  /\ part' = Nothing(num_blocks_from_size(size(Kept)))
  /\ UNCHANGED << asked, left, temporary, total, past, out, writes >>

OldSearch(i) ==
  /\ pc = "old search" /\ i \in todo
  /\ Found(i, One(i, StartAt(All, i)))

Taken(outer, start, m) ==
  LET It[k \in 1..m] == IF k = 1 THEN start ELSE Step(outer, It[k - 1])
  IN  [ k \in 1..m |-> outer[It[k][1] + 1][It[k][2] + 1] ]

OldFlattenBuilt ==
  /\ pc = "old search" /\ todo = {}
  /\ LET blocks == [ b \in 1..num_blocks_from_size(size(All)) |-> Taken(All, part[b - 1], len(All, b - 1)) ]
     IN  Streams(IF Head(left) = "flatten" THEN Letters(blocks) ELSE blocks, << >>, TRUE)

(* force: zip_apply with the indices constructs each place of the result.  *)
(* A sequence that is not delayed is its own.                              *)
ForceStart ==
  /\ pc = "build" /\ left = << >> /\ terminal = "force"
  /\ pc' = "force"
  /\ todo' = IF random THEN {} ELSE Upto(num_blocks)
  /\ out' = [ j \in Upto(n) |-> IF random THEN All[j + 1] ELSE Uninitialized ]
  /\ writes' = [ j \in Upto(n) |-> IF random THEN 1 ELSE 0 ]
  /\ UNCHANGED << asked, built, part >>

zip_apply(i) ==
  /\ pc = "force" /\ i \in todo
  /\ LET index == { j \in Upto(n) : j \div block_size = i }
     IN  /\ out' = [ j \in DOMAIN out |-> IF j \in index THEN block(i)[j - i * block_size + 1] ELSE out[j] ]
         /\ writes' = [ j \in DOMAIN writes |-> IF j \in index THEN writes[j] + 1 ELSE writes[j] ]
  /\ todo' = todo \ {i}
  /\ UNCHANGED << asked, built, pc, part >>

OldReduceStart ==
  /\ pc = "build" /\ left = << >> /\ terminal = "reduce"
  /\ Start("reduce", Upto(num_blocks), Nothing(num_blocks))

OldReduceBlock(i) ==
  /\ pc = "reduce" /\ i \in todo
  /\ Found(i, One(i, stream_reduce(block(i))))

ApplyStart ==
  /\ pc = "build" /\ left = << >> /\ terminal = "for_each"
  /\ Start("for_each", Upto(num_blocks), << >>)

Apply(i) ==
  /\ pc = "for_each" /\ i \in todo
  /\ out' = out \o block(i)
  /\ todo' = todo \ {i}
  /\ UNCHANGED << asked, built, pc, part, writes >>

OldReturn ==
  /\ pc \in {"force", "reduce", "for_each"} /\ todo = {}
  /\ pc' = "done"
  /\ out' = IF terminal = "reduce" THEN SumBefore(num_blocks) ELSE out
  /\ UNCHANGED << asked, built, todo, part, writes >>

(* The loop over the last block steps past its last element before it ends,*)
(* and there its stream reads memory that is not of the range.             *)
ReadOn(i) ==
  /\ pc \in {"stream sums", "streams filtered", "force", "reduce", "for_each"} /\ i \in todo
  /\ past /\ i = num_blocks - 1
  /\ Crash

OldNext ==
  \/ OldMap \/ OldZip \/ OldScanStart \/ OldScanSums \/ OldScanBuilt \/ OldFilterStart \/ Placed \/ KeptBuilt
  \/ OldFlattenStart \/ OldFiltered \/ OldFlattenBuilt \/ ForceStart \/ OldReduceStart \/ ApplyStart \/ OldReturn
  \/ \E i \in todo : \/ StreamSum(i) \/ FilterStream(i) \/ CopyKept(i) \/ OldSearch(i)
                     \/ zip_apply(i) \/ OldReduceBlock(i) \/ Apply(i) \/ ReadOn(i)
=============================================================================
