# Verification of PDS_local

PDS_local looks for regular partial difference sets (PDSs) in finite groups by
local search, in parallel over trials, groups and parameters, and has scripts
that put together and double-check what was found. It runs on parlay, a library
of parallel algorithms that is kept in the same repository. This directory holds
TLA+ models of both, the TLC configurations that check them on small instances,
and proofs, checked by TLAPS, of what matters most for every instance.

## The system

| Part | State | Operations | Talks to |
|---|---|---|---|
| **Local search** `search_tools.h` | the candidate as a list `my_set` and a vector `is_member`, the counts `sums` of its products, its error, the swap looked at | `select_start_set`, `calculate_starting_error`, `adjust_sums`, `increment`, `search`, `search_old` | calls the metric; called by the drivers |
| **Error metrics** `error_calc.h` | none | `efs` (walks the list) and `efs_from_member` (walks the vector) of L1, L2, L4, LInf | called by a trial |
| **searchMany** | the two loops, per pair of dimensions and group a trial counter and a success flag; a mutex; the output | read the table, run trials, print one line per pair | `parallel_for`; its output is read by the scripts |
| **search_parallel** | per trial its progress; the shared flag `success`; a mutex; the output | run a trial, list its set, give a verdict at the end | `parallel_for` |
| **search64_par, search64, search** | tallies per metric or in all | run trials, count, print | the first uses `parallel_for` |
| **Tables** | the file, the table in memory, the variables `t1` and `t2` of `main` | read heading and entries | every driver; `searchMany` does it in all bodies at once |
| **checkPDS.py** | the lines of a file of results, the line it is at | skip, parse, read the table, check, exit | reads what searchMany printed and the table files |
| **Thread pool** `scheduler.h`, `work_stealing_deque.h`, `work_stealing_job.h`, `atomic_wait.h`, `parallel.h` | a deque of jobs per worker, counters of awake and finished workers, a wake-up counter, a table of waiters | fork, join, steal, sleep, wake, shut down | runs the bodies of every parallel loop |
| **Memory** `sequence.h`, `sequence_base.h`, `alloc.h`, `block_allocator.h`, `hazptr_stack.h`, `acquire_retire.h` | the cells of a buffer; free lists per worker; a shared stack of lists; announcements of hazard pointers | construct, relocate, destroy; take and give back blocks; push, pop, retire | used by all algorithms |
| **Parallel algorithms** `primitives.h` and `internal/` | the input, the result as far as it is written, offsets per block | reduce, scan, pack, filter, searches, rearrangements, the sorts, grouping by key, delayed sequences | blocks of a loop run on any worker in any order |
| **Hash table** `hash_table.h` | the cells | insert, update, delete, find, by many threads | compare-and-swap on a cell |
| **Examples** greedy algorithms over `speculative_for.h` and `union_find.h`, `hash_map.h`, searches of graphs, `push_relabel_max_flow.h`, `kcore.h`, `cycle_count.h`, `range_min.h` | reservations, parents; cells; distances, frontiers, buckets; flows, labels and excesses; links | rounds of parallel tasks | shared slots, `edge_map` |
| **sortAsData.py, alternateCheckPDS.py, GAP scripts, data** | lines, files | sort; print GAP code; write tables | the same files |

What is hard about it:

* A trial edits `sums`, `is_member` and, later, `my_set` in place for each swap
  it tries, and edits them back if the swap does not help. Nothing is ever
  recounted. A slip shows only as a wrong error long afterwards.
* The round over all swaps begins at a random one and must come back to it,
  having looked at each once: an error of one costs solutions, silently.
* All drivers trust that error 0 means a regular PDS, though the code counts
  products x*y where the definition has x*y^-1.
* Bodies run on any worker, one on top of another where a worker waits for an
  inner loop; what they print is kept together by a mutex only.
* The cluster kills jobs at a time limit, and the partial output is used.
* The deque, the sleeping of workers, the stack of free blocks and the hash table
  are lock-free, and what is read is often stale when it is used.
* The parallel algorithms write uninitialised memory at offsets that a scan has
  worked out: a wrong offset loses an element and constructs another twice.
* Thresholds (block sizes, base cases, samples) hide branches from tests on small
  inputs, and the last block is nearly always shorter.

What makes each part correct:

* *Local search*: bookkeeping is exact at every step; error 0 exactly for a
  regular PDS; it stops only at a solution or a local optimum; it stops.
* *Metrics*: the two entries of a metric agree; errors fit an `int`.
* *Drivers*: the output is whole lines at any moment, one per pair or group, each
  with the right verdict or tally when the program exits; it exits.
* *checkPDS*: what it vouches for are regular PDSs, in the group named; what it
  refuses is not.
* *Thread pool*: every index is run once, a loop returns after its bodies, no job is
  lost, nobody sleeps for ever.
* *Memory*: every element is constructed and destroyed once, no node is used
  after it is freed, no block is in two places.
* *Algorithms*: the result is that of one sequential pass, each place of it is
  written once, and the recursions end.

## Modules

The program:

| Module | Models | State and actions |
|---|---|---|
| `PDSProblem` | `dims.h`, the group table in memory | constants `n k lam mu ct` with their assumptions; the counts and their targets; the definition of a regular PDS |
| `ErrorCalc` | `error_calc.h` | `Efs` and `EfsFromMember`, with the wrap-around of `int` at the constant `IntMax` |
| `LocalSearch` | `search`, `search_old` and what they call | one variable per local variable, `pc` for the place in the function; `Draw`, `Take` are `select_start_set`, `Start` counts the sums, `Round`, `Skip`, `Try`, `Accept`, `Reject`, `Exhaust`, `Return` are the two loops. `variant` tells the functions apart, each with the metric it is given (`Calls`): they differ in where a round starts looking (`FirstLooked`) |
| `HillClimb` | abstract: what a trial promises | the set, its error, and whether the trial `overlooks` one exchange as `search_old` does; `Begin`, `Improve`, `Stop` |
| `ParallelFor` | abstract: what `parallel_for` promises the drivers | the status of each call, the loops each worker waits in, the body it runs; `Begin`, `Finish`, `Join` |
| `SearchMany` | `searchMany.cpp` | an instance of `ParallelFor` two deep; per pair the place in the body, the trial and the flag; the mutex; `buffer` and `file`, std::cout before and after a flush |
| `SearchParallel` | `search_parallel.cpp` | an instance of `ParallelFor` one deep; per trial the place in the body and whether it found a set; `success`, the mutex, `buffer`, `file` |
| `Surveys` | `search64_par.cpp`, `search64.cpp`, `search.cpp` | three state machines; the first over an instance of `ParallelFor` |
| `TrialReport`, `Survey` | abstract: what `search_parallel` and `search`, and the two `search64`, promise | which trials are listed and the verdict; which groups have their line |
| `Tables` | reading a table, in all drivers; the random sets of `random_gens.cpp` | two state machines: readers that share `t1` and `t2`, step by number read; draws of elements |
| `CheckPDS` | `checkPDS.py` | the lines, the table headings, the line it is at, the exit status |

The thread pool and the memory of parlay:

| Module | Models | State and actions |
|---|---|---|
| `WorkStealingDeque` | `work_stealing_deque.h` | the members `bot`, `age`, `deq`, per worker the place in its call and its local variables, the job last returned; one action per atomic operation: `PushJob`, `PushBot`, `Overflow` are `push_bottom`, `Pop...` `pop_bottom`, `Top...` `pop_top` |
| `JobDeque` | abstract: what a worker's deque promises | jobs pushed, the queue, what each worker got; `Push`, `Pop`, `PopNothing`, `Steal`, `StealNothing` |
| `AtomicWait` | `atomic_wait.h`, three of its strategies | the atomics and the table entry they share, one operation a step |
| `Scheduler` | the life of a worker in `scheduler.h` | main's deque, the counters, the flag, each thread's place; one atomic operation a step where threads meet |
| `ForkJoin` | `parallel.h`, and `parfor`, `parfor_`, `get_granularity`, `pardo`, `wait_until` | each worker's stack of frames (`loop`, `range`, `body`), the deques, the jobs that are done, the calls that have returned, and the arguments `granularity` and `conservative`; `Given` starts a loop that has a granularity, `Batch`, `Measured` are `get_granularity`, `Fork`, `Pop`, `HalvesDone` are `pardo`, `TakeJob` is `wait_until` and an idle worker; implements `ParallelFor` |
| `ParlaySequence` | `sequence.h`, `sequence_base.h` | buffers cell by cell, the objects, beside them what two std::vectors would hold |
| `HazptrStack` | `hazptr_stack.h`, `acquire_retire.h` | nodes at addresses that are used again, announcements, retired lists; one access to shared memory a step; the history variable `stacked` is the list of the nodes pushed and not popped |
| `AbstractStack` | abstract: a stack whose calls take effect at one moment | |
| `Allocators` | `block_allocator.h`; `alloc.h` with its pools | two state machines; the first stands on the abstract stack |

The algorithms of parlay. Several modules hold more than one state machine, each
under a heading of its own:

| Module | Models |
|---|---|
| `SequenceOps` | reduce, scan, pack, filter, split_two, split_three (`internal/sequence_ops.h`) |
| `FindIf`, `Primitives` | `primitives.h`: the searches over `find_if_index` and `write_min`; reductions, moves, tokens, selection, `heap_tree`; `examples/range_min.h` |
| `Monoids` | `monoid.h`: the monoids that reductions and scans are given, and a reduction of them in blocks |
| `ComparisonSorts` | quicksort, the parallel quicksort, merge and merge sort |
| `CountingSorts` | counting sort, grouping by small integers, random shuffle; integer sort |
| `SamplingSorts` | sample sort with the transpositions; bucket sort |
| `Grouping` | `collect_reduce.h`, `group_by.h` |
| `HashTable` | `hash_table.h`, a read or compare-and-swap a step, with `hash_numeric` and with structs that keep values; `examples/hash_map.h` with its locked cells |
| `Delayed`, `BlockDelayed` | `internal/delayed/*`; the older `block_delayed.h`, `stream_delayed.h` |
| `Reservations` | `speculative_for`, and over it greedy matching, independent set, colouring, set cover, the shuffle of `knuth_shuffle.h`, and minimum spanning forests (`kruskal.h`, `filter_kruskal.h`); `spanning_tree.h`; `union_find.h` |
| `GraphExamples` | `push_relabel_max_flow.h`, `ligra_light.h`; `BFS.h`, `BFS_ligra.h`, `low_diameter_decomposition.h`, `bellman_ford.h`, `bucketed_dijkstra.h`, `kcore.h`; `cycle_count.h` |

`MC...` are the instances for TLC, `...Proofs` the theorems and lemmas about the
module named; `ThreadsProofs` is about `HazptrStack` and `ForkJoin`, `RuntimeProofs` about the
deque, the scheduler, waiting, and what all five come to in `MCRuntime`, and `Monoids` has
its theorems in it.

How they are composed. `PDSProblem` is extended by `ErrorCalc`, that by
`LocalSearch` and `HillClimb`; `CheckPDS` extends `PDSProblem` too, so the search
and its checker are held to one definition. Every detailed module is shown to
implement the abstract one beside it by a refinement mapping, and what uses it stands on
the abstract one: the drivers on `ParallelFor`, which `ForkJoin` implements;
`ForkJoin` and `Scheduler` on atomic deques, as `JobDeque`, which
`WorkStealingDeque` implements; `Scheduler` on waiting as `AtomicWait` gives it;
`Allocators` on `AbstractStack`, which `HazptrStack` implements. So from the
program's output down to single compare-and-swaps each level is checked once.

Data is abstract where no property asks for it. What a trial finds is the
generator's doing, so in the drivers a trial finds a set or not, freely (in
`SearchMany`, only in a pair that has one). A printed line is a sequence of
pieces, one for each statement that prints; a line of a result file is what
`getParms` and `get_pds` make of it. The algorithms work on numbers, or on places of
the input under concatenation, so that a result tells which elements were combined
and in which order; bodies of a loop that share nothing are one step each, in
any order, and bodies that share memory are interleaved access by access.

Four MC modules hold several state machines each. A variable (`part`, in
`MCAlgorithms` `algorithm`) says which one moves and never changes. `MCRuntime` extends
`WorkStealingDeque`, `AtomicWait`, `Scheduler`, `ForkJoin` and `HazptrStack`, `MCCheckPDS` `Tables`,
`MCSearchParallel` `SearchParallel` and `Surveys`: what is proved of these modules carries over to
the composition. `MCSearchParallel` also has an instance each of `AtomicWait` and `Scheduler` for the
threads beneath the drivers (`WithThreadsSpec`), for `AllWake`. The machines without a theorem, and these two, keep their variables in slots `x1`, `x2`,
... that all of them share, `Unused` where one needs fewer. No machine is changed by this:
an initial state is an initial state of one, and each step a step of it.

## Runs

| Run | Instance | Shows |
|---|---|---|
| `local_search` | `search` with all four metrics, `search_old` with L2 and LInf, the nonabelian group of order 6, k=3, lam=0, mu=3; 103,000 states | `SumsExact`, `MemberExact`, `ErrorExact`: the bookkeeping; `ErrorZeroIffPDS`; `LocalOptimum`, and `OldOptimum` for `search_old`; `Climbs`: it implements `HillClimb`; `Termination` |
| `search_many` | 3 workers, two dimensions of one and two groups, up to 4 trials; 402,000 states | `FileWhole`, `OneLine`, `ExitComplete`, `Termination` |
| `search_parallel` | `search_parallel` on 3 workers with 3 trials; `search64_par` on 2 workers with 2 groups and 2 trials of 3 metrics; `search64` with 3 groups; `search` with 4 trials; beneath them 1 waiter and 2 notifiers with 2 changes, by three strategies, and a scheduler of 3 threads with 1 job; 82,900 states | `ListingsWhole`, `TalliesTrue`; `Reports`, `Surveyed`: they implement `TrialReport` and `Survey`; no deadlock; `AllWake`: nobody sleeps for ever |
| `check_pds` | files of up to 2 lines over all sets a search can print in the group of order 6, table files right and wrong; tables of order 2 cut short anywhere, read by two bodies at once; random sets of 3 out of 5; 210,000 states | `Vouches`, `Refuses`, `TablesRead`, `Drawn` |
| `runtime` | the parts of the thread pool and of the memory, below; 502,000 states up to symmetry | `SleepSafe`, `ForkSafe`, `SequencesRight`, `NodesSafe`, `BlocksKept`, `AgeGrows`; `IsDeque`, `Contract`, `Linearizable`: refinements of `JobDeque`, `ParallelFor`, `AbstractStack` |
| `algorithms` | the algorithms, one at a time; 570,000 states | `WrittenOnce`, `ResultRight`, `StepsRight`, `CellsAgree`, `Finishes` |
| `check_identity` | one line, lists that may hold the identity, a violation | `is_pds` accepts a set with the identity in it |
| `deque_first` | 3 entries, 3 pushes, a violation | `push_bottom` does not return whether the queue was empty |
| `wait_lost` | 1 waiter, a futex on the version, a violation | a wake-up is lost, and only the time limit of the futex ends the wait |
| `sequence_alias` | a sequence pushed an element of its own, a violation | the element is read after its buffer has been freed |
| `max_flow_race` | seven vertices, a violation | a label computed beside a push fails the example's own check |
| `duplicates` | the inputs of collect_reduce in `algorithms`, a violation | `remove_duplicate_integers` returns integers that are not in its input |

Properties of `runtime` and `algorithms` are conjunctions of the named properties of
their parts (`SleepSafe` is `AwakeExact`, `JobsKept`, `JoinSafe`, and `NoLostWake` of the two ways of waiting
that have no time limit: of the third, the futex on the version of the table, `wait_lost` shows that
it does not hold), each stated above its definition. `ResultRight` says what the documents of an
algorithm say of it, but for the cases that are listed under *Disagreements* below.

### Bounds

*Searches.* The group of order 6 is the smallest that is not abelian, so the order of
factors in `adjust_sums` matters; k=3 has a solution there (the three
involutions), and the largest-deviation metric has local optima that are none. For
`search_old` these also give a set whose only improvement is the swap a round
starts from. Trials are followed to their end for that metric only, the one with
most ways to stop. `search_many` has a loop of two bodies and one of one inside a
loop of two, more workers than either, so that a worker waits in one loop with a
body of the other on top; one pair has a solution per order, so both kinds of line
and of exit from the trials occur. Three trials on three workers give every overlap of
two listings with a third trial. Two lines are enough for the checker: it carries
nothing from line to line but its place.

*Thread pool.* Three pushes into a deque of three entries reach its overflow, its
reset and use after that, and a thief that sleeps across the reset while the other
thief and the owner contend; `TagMod` is one more than the pushes, the least its
assumption admits. Two atomics share one entry of the waiters' table, so that a
notification of one meets waiters of the other. Three threads and three jobs
let one thread fall asleep while one is being woken and one shuts down. A loop of
four, the second of which runs a loop of two and the others loops of none, is run by three
workers: without a granularity, so that batches are measured and the rest of each loop is
split unevenly, and with granularity 1, so that it is split down to single indices; and
conservative or not, so that a worker that waits in an inner loop runs an index of the outer
one, or nothing. That the bounds hide nothing here is what the theorems about it say.

*Memory.* Any series of operations on two sequences of together up to 3 elements, or of up
to 4 with room for 2 in the object, reaches growth, relocation, both directions of a
change between short and long, and assignment between them. Two threads and three
addresses are enough for a node to be freed and its address to come back as another
node under a thread that is about to compare-and-swap; the stack begins with two nodes, and
four calls can empty it. The block allocator has
lists of two blocks and two workers, with tasks that change workers while they get a list;
the pools have four sizes, the last two above `large_threshold`.

*Algorithms.* Blocks, base cases, samples and thresholds are constants, set to 1 to 5
so that inputs of 5 to 10 elements have several blocks, a shorter last one, every
branch and two levels of recursion; the inputs are all short sequences over two or
three keys and chosen longer ones. Keys are grouped in ascending and descending order. Hash functions are chosen so that keys collide
in part, all, or not at all. Three threads insert into a table of nine cells, two
delete from a full neighbourhood, across its end. Four networks of
seven vertices are run through the flow example, one of them chosen so that a vertex
sees an edge saturated while it is being pushed back: there `ResultRight`
asks for a maximal flow only if the labels came out valid, and `max_flow_race` shows that they
need not.

*Symmetry.* In `runtime` thieves are interchangeable, and so are the values put into
sequences and onto the stack: no action, initial value or property names one, and no
liveness is checked there. `View` is the state of the part that moves, and leaves out of the
allocators' what is never read again (the contents of freed blocks).

*Deadlock* is checked in the drivers' runs: an ended program stutters by an
explicit disjunct. It is off in `runtime`, `algorithms` and the
violations that use their modules: their parts come to an end (a bounded number of pushes, a
finished sort); that they do not end too early is what `AllWake` and `Finishes` say.

### Fairness

`local_search` asks that the function runs on (weak fairness of `Next`), and that
the generator does not for ever return elements that are in the set already (strong
fairness of `DrawFresh`): mt19937 is periodic and takes every value. The same is asked of
the random sets. `SearchMany!FairSpec` asks only that some thread runs while one can
(weak fairness of `Next` as a whole, nothing about any single thread), which the
operating system gives; no scheduling of the mutex is assumed. What is said of the
drivers in `search_parallel` needs no fairness: no step of theirs can be repeated for ever, so that
the absence of deadlock means that they end. `AllWake`, in the same run, asks that every thread goes on
where it can, that a worker whose clock runs gives up stealing in the end, and that the futex on the
version returns at its time limit, which `wait_lost` shows to be needed. It asks nothing of mutexes: a
mutex is taken once for each change or wait, and there are finitely many changes, after which
a waiter that wants it finds it free. `algorithms` asks only that some task runs while there is one, and only of the
algorithms whose loops or recursions might not end.

## Proofs

TLAPS checks every theorem for all groups, dimensions, workers and trials that
the assumptions of the modules admit: `1 <= k <= n-1`, `0 <= lam, mu <= k`, and
a table that is associative, has identity 0 and right inverses
(`PDSProblem`); any finite or infinite set of workers with main in it.

* `PDSProblemProofs`: `BalancedIffPDS`. A list of k distinct elements other
  than the identity is a regular PDS exactly if each count of products meets its
  target. One direction needs that k copies of the identity among the products
  force the set to be closed under inverses; then counting x*y and
  counting x*y^-1 is the same up to a bijection of pairs. `PairsSplit`
  says what a swap does to the counts (inclusion and exclusion over
  the pairs that meet the position that changes), which is what `adjust_sums`
  computes.
* `LocalSearchProofs`: first what the error functions compute. An error is 0 exactly if
  every penalty is, provided nothing wraps (`WidthFits`: (k+n) * largest penalty <=
  IntMax); and `efs` over the list and `efs_from_member` over the vector give one value
  (`EfsAgrees`), also where the arithmetic wraps. This is induction over two recursive
  functions, made without the library's induction theorems: the least number at which a
  claim fails is picked (`LeastNat`) and refuted. Then `TypeCorrect`, `SumsStayExact`,
  `MembersStayExact` from one inductive invariant, `IInv`: types, exact sums, exact
  members, and that the element of a swap being judged is new. The last is what makes
  undoing a swap right, and none of the four is inductive without the others. On top of it
  `TrialInv`: the error held is that of the candidate and the new error that of the swap
  made in it, and the swaps passed since the round began have all been looked at and do
  not help (`ScanInv`). From these `ErrorStaysExact`, `ZeroErrorMeansPDS`, `StopsAtOptimum`,
  `OldStopsShort`, and `TrialsClimb`, the refinement of `HillClimb`.
* `SearchManyProofs`: `TypesKept`, `LinesStayWhole`, `ReportedOnce`, `AllReported`
  from `Inv`: a body runs on one worker at most; the mutex is held exactly by
  the worker whose body prints; the buffer holds what that body has printed; a pair
  is in the file exactly if its body is past its flush; a loop is done only if
  its calls are.
* `SearchParallelProofs`: `TypesKept`, `ListedWhole`, and `VerdictRight`, the
  refinement of `TrialReport`: each step lists one trial, fails one, gives the
  verdict, or changes nothing there. `TalliesAreTrue`, about the other drivers: between lock
  and unlock the output is what the body has printed of its line, before that whole lines
  (`GroupInv`); the listings of `search` are those of the trials won (`OneInv`).
  `SurveysDone`, the refinement of `Survey`, from where each body is, what it has
  tried and what is printed (`ParLoop`, `ParTries`, `ParPrinted`, `SeqInv`).
* `CheckPDSProofs`: `VouchedForIsPDS`, `RefusedIsNot`. They assume that the lists of
  the file are ones a search can print (`ListsPrinted`): distinct elements
  without the identity. The run `check_identity` shows that without this they
  are false. `TablesAreRead`, for any number of readers that overwrite each other's t1 and
  t2, and tables of any order: `ReadInv` says which entries a reader has written and that
  those it has not are what memory held before. It assumes of the files
  (`FilesAssumption`) that what is in them are elements, as GAP wrote them.
* `ThreadsProofs`. *The stack*: `StackSafe` and `StackLinearizable`, for any number of threads, calls
  and addresses. The invariant (`StackInv`): the list from `head` is `stacked`; every
  allocated node is in the list, with the thread that pushes or pops it, or in one retired
  list, and in one place only (`OneOwner`); a node that a thread has announced and found
  still at the head is not freed until the announcement is withdrawn, because a scan that is
  under way has still to come to it or has kept it (`Guarded`); and a
  `pop` about to compare-and-swap holds the true successor of its node, a `push` has linked
  its own to what it read (`Prepared`): addresses come back, but not one that is guarded. The step at which a call takes effect is the
  successful compare-and-swap, or the load of an empty head.
  *parallel_for*: `LoopsTyped`, `PopsOwnHalf`, `JobsOutlived`, `LoopsKeepPromise`, for any
  number of workers, any nest of loops and any granularity. None of them is inductive
  by itself: that a job popped is the right one needs that stack and deque match, that needs that only a job's own pardo forks it, that needs that no two
  ranges hold an index. The invariant `FJInv` takes frames and jobs as the holders of
  indices. Each index of a loop that has begun has returned or has one holder: the frame
  that is its call, the loop or range that has yet to call it, or the job it is in
  (`OneHolder`, `NoneLost`), and its loop is then on a stack (`Families`). Each frame has been
  called by the one below it (`Stacked`). The jobs in a deque are those of the ranges on
  its owner's stack that are in their left half, the outermost first, less those stolen, and
  stolen are the outermost (`Matched`). What a range, or a job that is done, has left behind
  is held by nobody (`CleanLeft`), so that a loop that returns has had all its indices
  return. The first index of a range that is not empty has been called, or is about to be by
  a range above it (`FirstIndex`): two ranges that begin alike are never in flight, so a job
  is run once, and its pardo waits for it (`OneRunner`, `Aliveness`). A step replaces the
  innermost frame of one worker by none, one or two, and adds or removes one job; what
  that does to each conjunct is a lemma of its own (`FramesStayApart`, `FamiliesStep`, ...), and
  each action (`IndexKeeps`, `SplitKeeps`, `ChangeKeeps`, `ReturnKeeps`, `ForkKeeps`,
  `PopKeeps`, `TakeKeeps`) puts them together. For the refinement, the loops a worker is
  in are those of the frames on its stack, by recursion over it, of which the proof
  needs only how one frame more or less changes them (`LoopsAppend`).
* `RuntimeProofs`, on the thread pool, for any number of threads, jobs, atomics, entries and
  pushes. *Deque*: `DequeTypeCorrect`, `AgeNeverReturns`, `DequeLinearizable`, if the tag does
  not wrap. The invariant says where the owner is in its call (and bounds the tag by the
  pushes), that thieves never pass the end, and that an age read by a thief is either
  past for good, or current, and then there is a job at the top and it is the one the
  thief holds. The queue of the refinement mapping ends at `End`, which keeps the job that
  `pop_bottom` has lowered `bot` over but not yet won. *Scheduler*: `TypeCorrect`,
  `AwakeCounted`, `NoJobLost`, `JoinsTheFinished`, from where main and the others may be, what
  both counters count, who holds a job, and that no job is in two places; `EachMove` reduces a
  step to four kinds of moves, of which one lowers and one raises each counter. *Waiting*:
  `NoWakeLost`, for finitely many waiters, whatever strategies there are: no wake-up is lost where
  waiting is on the atomic itself or on a condition variable. Of the futex on the version of the
  table, which the scheduler has under C++17 on Linux, it says nothing: that one does lose wake-ups
  (`wait_lost`) and lives by its time limit. *Composition*: `PartsMove`, by which
  each part of `MCRuntime` moves by its own steps, and `SleepsSafely`, `ForksSafely`,
  `NodesAreSafe`, `KeepsContract`, `IsLinearizable`, which state these results and those of
  `ThreadsProofs` of it.
* `Monoids`: `AnyOrder`. Any number of values, neighbours of which are combined in any order,
  come to what one loop over them would have, for any type and any associative function
  with an identity; the invariant (`Partly`) is that a loop over what is left would still
  end there, and `LoopCombined` that combining two neighbours beforehand changes no later value
  of the loop. `Lawfully`: wrapping sums, maxima and minima are lawful, and pairs and
  arrays of what is lawful.

Only model-checked: liveness (`Termination`, `AllWake`, `Finishes`, `Drawn`), which is outside
the prover's reach; `BlocksKept`, which follows linked lists and adds up bags by recursive
functions, where a proof would be an induction over their length; `SequencesRight`, of which
lifetimes and contents would be a proof of the size of that about `ForkJoin` and have not been
proved, and whose comparison reads blocks that double: that they leave no element out rests on
2^(k+1) = 2 * 2^k, which the provers do not know; and the parallel algorithms
(`WrittenOnce`, `ResultRight`, `StepsRight`, `CellsAgree`), whose results are defined by
recursion over inputs, and whose modules declare RECURSIVE operators.

## Disagreements between code and documents

Six are runs (the violations above). Others were met while the models were written. The
models follow the code there or leave the case out, and no run is about them; where a property
would say what the document says, it is stated without the case, as named here:

* *Searches.* The comment above the first mutation says that the initial mutation is never tried
  (`search_tools.h:151`); that is so in `search_old`, not in `search`. `searchMany.cpp:99` computes
  `MULTIPLIER * n * n` in `int`: with n = 238 it wraps for a multiplier above 37000, and
  then no trial may run. `searchMany.cpp:73` does not check the indices of the two lists.
* *Scheduler.* `PARLAY_NUM_THREADS=0` makes a scheduler without deques, and `spawn` indexes
  the first (`scheduler.h:78`).
* *Memory.* With `list_length` 1 a worker's list in the block allocator grows past
  the two lists its comment allows: the test for one more than a list comes before that for two
  (`block_allocator.h:188`). `p_quicksort` with `uninitialized_move_tag` constructs
  elements over ones that have been moved from.
* *Algorithms.* `any_of` compares a count with `> 1` (`primitives.h:573`): it is false where
  exactly one element will do. `rank` gives equal elements different ranks, though it
  is said to be the number of elements less (`primitives.h:1211`-1213): `MoveMeant` asks for that number of
  the first of equal elements only. `group_by_key_ordered` sorts unsigned keys in small
  pairs by `integer_sort`, whatever comparison it is given (`group_by.h:64`-65), and
  looks for the places where groups begin by the comparison: keys between which the two orders
  disagree are merged, all of them into one group where descending order is asked for. `Grouped` leaves out these (`OrderHeeded`), and holds
  of descending order for other keys. `kth_smallest` does not end on
  more than 1000 equal elements, which all stay in one part. The hash table's `insert` may
  return 0 though the value was put in, if one that it displaced was found further
  on. Trailing empty blocks leave counts of sample sort uninitialised.
  Of `remove_duplicate_integers` with several blocks (run `duplicates`), `Collected` says only that no integer is
  missing.
  `group_by_index_`, which nothing calls, aborts.
* *Examples.* `bellman_ford.h` says that the result is empty "if there is a negative weight
  cycle"; one through the start is not seen, by either function, since the start's distance is
  kept at 0. `bucketed_dijkstra.h` allows "non-negative" weights, but what an edge of
  weight 0 reaches is put into the bucket just swept and never expanded. `cycle_count.h` "counts
  the number of distinct cycles": not those of one link, nor those whose two
  largest priorities are equal; `CyclesCounted` says which are. `knuth_shuffle.h` says that the
  reservations start at "an id out of range"; it depends on that being below all ids, with
  one above them the order differs from the sequential shuffle's. In `hash_map.h` find
  stops at a deleted or locked cell, remove at a locked one, and takes the value out
  only after the key is marked deleted: with other calls running these are not one step.
* *Delayed sequences.* `scan_inclusive` of one block reads `block_sums[1]`; `flatten` over a
  block-iterable range reads `out_block_offsets` past its end; the older
  `block_delayed_sequence` has `begin()` and `end()` swapped, its constructor dereferences the
  first stream of none, its `zip` reads past the end of a shorter second range. The
  comment at `common.h:170` on `begin_block(n)` does not hold of all views.

Where such a read has no defined outcome the model makes it a free choice, `Crash`
included; where a result is wrong the model computes it as the code does and the property
says what holds of it.

## What is assumed and what is left out

* Memory is sequentially consistent in all models. What the drivers share, but for t1 and
  t2, is under the mutex or read after the loop's return. The lock-free parts ask for
  less in places (acquire, release); on x86, where the jobs ran, that lets only a store
  be passed by a later load of the same thread, and `pop_bottom` has a fence where this
  would matter. Other architectures are not covered.
* The comment on `pop_top` says that other threads than the owner may call it. In the
  model the owner may too: `try_steal` picks any deque, its own included.
* The tag of a deque does not wrap (`TagMod > MaxPushes`): 2^32 contested pops. Counters in the
  waiters' table do not come round to the same value.
* A line fits the buffer of std::cout, so that it reaches the file at `std::endl`
  and not before, and what is flushed survives the end of the process.
* `searchMany.cpp` writes t1 and t2 from all bodies without a lock: a data race.
  `TablesRead` says that with whole files each body still reads its own table.
* The assumption on `ct` holds of tables GAP wrote. What a short or missing file leaves in
  memory is in `Tables`; with such a table nothing can be said of the search.
* What a user passes to an algorithm (comparison, hash, monoid) is pure and lawful.
* Memory is never exhausted: `bad_alloc` is not modelled.
* `prob_commute`, timers, `real_steps`, wording and layout: no state depends on them.

Not modelled, each a component of its own in `PROJECT.json` with its reason: the GAP
scripts that write the tables and `alternateCheckPDS.py`, whose work GAP does; `sortAsData.py`, one
call of `sorted`; the data; and of parlay its other examples, benchmarks and
tests, parsing and formatting (`io.h`), ranges and views, type traits. These have no state of their own, or nothing
here uses them. The plugins for other schedulers, `blocked_for`, `notify_one` on the futex of
an atomic, the timed back-off for systems without futexes, and `clear`-like loops over
operations that are modelled are left out of components that are.

Left for later: the numeric and geometric examples of parlay (n-body, hulls, spheres);
weak memory for the deque and the stack; proofs about the allocators and sequences.
