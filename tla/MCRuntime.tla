----------------------------- MODULE MCRuntime -----------------------------
(***************************************************************************)
(* What runs under parlay's algorithms, for TLC: the thread pool, that is  *)
(* the deque of jobs, waiting for an atomic, how workers sleep, wake and   *)
(* finish, and parallel_for over the deques; and the memory: the stack     *)
(* with hazard pointers, sequences, the allocator of blocks over that      *)
(* stack, the pools over those.  The modules of the deque, the waits, the  *)
(* sleepers, the loops and the stack are extended, the others instances.   *)
(* part says which of them moves: each is checked by itself, with what the *)
(* others promise built in; the variables of the instances are kept in     *)
(* slots that all share.                                                   *)
(***************************************************************************)
EXTENDS WorkStealingDeque, AtomicWait, Scheduler, ForkJoin, HazptrStack, TLC

CONSTANTS Parts, Vals, Tasks, Aliasing, Raw, Moved, Inline, Unused

VARIABLES
  part,   (* which part moves *)
  x1, x2, x3, x4, x5, x6, x7, x8

slots == << x1, x2, x3, x4, x5, x6, x7, x8 >>
all == << part, slots, vars, aw_vars, sched_vars, fj_vars, stack_vars >>

Symmetry ==
  Permutations(Workers \ {owner}) \cup Permutations(Vals) \cup Permutations(Elements)

(* A loop of four, whose second index runs a loop of two and whose others  *)
(* run loops of none; so named, the outermost loop of main among them.     *)
LoopCalls == { << >> } \cup { << i >> : i \in 0..3 } \cup { << 1, i >> : i \in 0..1 }

Long == INSTANCE ParlaySequence WITH
  Raw <- Raw, Moved <- Moved, None <- None, short <- Inline, Buffers <- 1..4,
  Vals <- Vals, use_sso <- FALSE, short_capacity <- 0, MaxLen <- 3,
  Aliasing <- Aliasing, granularity <- 1, mem <- x1, want <- x2, it <- x3

Short == INSTANCE ParlaySequence WITH
  Raw <- Raw, Moved <- Moved, None <- None, short <- Inline, Buffers <- 1..4,
  Vals <- Vals, use_sso <- TRUE, short_capacity <- 2, MaxLen <- 4,
  Aliasing <- Aliasing, granularity <- 1, mem <- x1, want <- x2, it <- x3

StackAddresses == 1..3
CallsMade == << 1, 3 >>

Alloc == INSTANCE Allocators WITH
  Workers <- 1..2, Tasks <- Tasks, list_length <- 2, Blocks <- 1..6,
  None <- None, sizes <- << 16, 32, 64, 128 >>, large_threshold <- 64,
  max_alignment <- 16, Modulus <- 65536,
  Requests <- {1, 8, 24, 32, 56, 120, 128}, Alignments <- {16, 64},
  Bases <- {16, 48, 64}, most <- 2, next <- x1, local_lists <- x2,
  global_stack <- x3, blocks_allocated <- x4, buffers <- x5, used <- x6,
  at <- x7, new_list <- x8, large_allocated <- x1, large_used <- x2,
  small_used <- x3, large_buckets <- x4, live <- x5

(* The parts with variables of their own, while another moves: all waits   *)
(* and loops begin in one way for those, and the stack has one length.     *)
others == << vars, aw_vars, sched_vars, fj_vars, stack_vars >>
AWAtRest ==
  /\ AWInit
  /\ strategy = CHOOSE s \in Strategies : TRUE
  /\ at = [t \in Parties |-> CHOOSE l \in Locations : TRUE]
FJAtRest ==
  /\ FJInit
  /\ granularity = CHOOSE g \in Granularities : TRUE
  /\ conservative = FALSE
HSAtRest ==
  /\ HSInit
  /\ stacked = [ k \in 1..(CHOOSE n \in Filled : TRUE) |-> k ]
AtRest == Init /\ SchedInit /\ AWAtRest /\ FJAtRest /\ HSAtRest

(* The slots from one on, while a part moves that has no need of them.     *)
EmptyFrom7 == x7 = Unused /\ x8 = Unused
EmptyFrom6 == x6 = Unused /\ EmptyFrom7
EmptyFrom4 == x4 = Unused /\ x5 = Unused /\ EmptyFrom6
AllEmpty == x1 = Unused /\ x2 = Unused /\ x3 = Unused /\ EmptyFrom4

DequeInit == part = "deque" /\ AtRest /\ AllEmpty
DequeNext ==
  /\ part = "deque" /\ Next
  /\ UNCHANGED << part, slots, aw_vars, sched_vars, fj_vars, stack_vars >>

WaitInit ==
  /\ part = "wait" /\ AWInit
  /\ Init /\ SchedInit /\ FJAtRest /\ HSAtRest /\ AllEmpty
WaitNext ==
  /\ part = "wait" /\ AWNext
  /\ UNCHANGED << part, slots, vars, sched_vars, fj_vars, stack_vars >>

SleepInit == part = "sleep" /\ AtRest /\ AllEmpty
SleepNext ==
  /\ part = "sleep" /\ SchedNext
  /\ UNCHANGED << part, slots, vars, aw_vars, fj_vars, stack_vars >>

LoopInit ==
  /\ part = "loop" /\ FJInit
  /\ Init /\ SchedInit /\ AWAtRest /\ HSAtRest /\ AllEmpty
LoopNext ==
  /\ part = "loop" /\ FJNext
  /\ UNCHANGED << part, slots, vars, aw_vars, sched_vars, stack_vars >>

LongInit ==
  part = "long" /\ Long!Init /\ AtRest /\ EmptyFrom4
LongNext ==
  /\ part = "long" /\ Long!Next
  /\ UNCHANGED << part, x4, x5, x6, x7, x8, others >>

ShortInit ==
  part = "short" /\ Short!Init /\ AtRest /\ EmptyFrom4
ShortNext ==
  /\ part = "short" /\ Short!Next
  /\ UNCHANGED << part, x4, x5, x6, x7, x8, others >>

StackInit ==
  /\ part = "stack" /\ HSInit
  /\ Init /\ SchedInit /\ AWAtRest /\ FJAtRest /\ AllEmpty
StackNext ==
  /\ part = "stack" /\ HSNext
  /\ UNCHANGED << part, slots, vars, aw_vars, sched_vars, fj_vars >>

BlockInit == part = "blocks" /\ Alloc!BlockInit /\ AtRest
BlockNext ==
  /\ part = "blocks" /\ Alloc!BlockNext
  /\ UNCHANGED << part, others >>

PoolInit ==
  part = "pools" /\ Alloc!PoolInit /\ AtRest /\ EmptyFrom6
PoolNext ==
  /\ part = "pools" /\ Alloc!PoolNext
  /\ UNCHANGED << part, x6, x7, x8, others >>

-----------------------------------------------------------------------------
ASSUME ThreadsAssumption ==
  AtomicWaitAssumption /\ SchedulerAssumption /\ ForkJoinAssumption
ASSUME
  /\ Alloc!LengthAssumption
  /\ Alloc!BlocksAssumption /\ Alloc!SizesAssumption

MCInit == part \in Parts /\
  ( \/ DequeInit
    \/ WaitInit
    \/ SleepInit
    \/ LoopInit
    \/ LongInit
    \/ ShortInit
    \/ StackInit
    \/ BlockInit
    \/ PoolInit )

MCNext ==
  \/ DequeNext
  \/ WaitNext
  \/ SleepNext
  \/ LoopNext
  \/ LongNext
  \/ ShortNext
  \/ StackNext
  \/ BlockNext
  \/ PoolNext

MCSpec == MCInit /\ [][MCNext]_all

(* A state is that of the part that moves, without what is never read      *)
(* again; the others are as they were at first.                            *)
View ==
  CASE part = "deque" -> << part, vars >>
    [] part = "wait" -> << part, aw_vars >>
    [] part = "sleep" -> << part, sched_vars >>
    [] part = "loop" -> << part, fj_vars >>
    [] part = "stack" -> << part, stack_vars >>
    [] part = "blocks" -> << part, Alloc!Live >>
    [] part = "pools" -> << part, Alloc!Decisive >>
    [] OTHER -> << part, slots >>

-----------------------------------------------------------------------------
(* The types of the parts, of which the deque has its own (TypeOK): no     *)
(* wait is left counted, no range ends outside its loop.                   *)
PartsTyped == AWTypeOK /\ SchedTypeOK /\ FJTypeOK

(* Every object in a sequence is constructed once and destroyed once, and  *)
(* every buffer is freed once.                                             *)
Lifetimes ==
  /\ part = "long" => Long!Lifetimes
  /\ part = "short" => Short!Lifetimes

(* After any series of calls two sequences hold what two std::vectors      *)
(* would.                                                                  *)
LikeVector ==
  /\ part = "long" => Long!LikeVector
  /\ part = "short" => Short!LikeVector

(* The iterator that insert and erase return is valid, though the tail has *)
(* been moved away and back.                                               *)
ReturnsValid ==
  /\ part = "long" => Long!ReturnsValid
  /\ part = "short" => Short!ReturnsValid

(* Between calls the number of used blocks that the allocator works out is *)
(* that of the blocks handed out.                                          *)
UsedExact == part = "blocks" => Alloc!UsedExact

(* No thread keeps more than two lists of blocks to itself.                *)
KeepsLittle == part = "blocks" => Alloc!KeepsLittle

(* Each block is in one place: handed out, in one list, or never linked.   *)
OnePlace == part = "blocks" => Alloc!OnePlace

(* A block holds what was asked for, its header included, at the alignment *)
(* asked for, whichever pool it came from.                                 *)
Holds == part = "pools" => Alloc!Holds

(* A block comes back to the bucket it was taken from, though only the     *)
(* size is remembered, as a power of two.                                  *)
RightPool == part = "pools" => Alloc!RightPool

(* However threads fall asleep, wake and finish, no job is lost and none   *)
(* of them is left behind; and no notification, where the futex is on the  *)
(* atomic itself, or where there is a condition variable.  The futex on    *)
(* the version, which the scheduler has on Linux with C++17, is left out:  *)
(* there one can be lost, and the time limit stands in for it.             *)
SleepSafe ==
  /\ strategy # "table" => NoLostWake
  /\ AwakeExact /\ JobsKept /\ JoinSafe

(* What pardo relies on when it leaves half of a range to whoever steals   *)
(* it: a worker that is back from its left half pops the right half or     *)
(* nothing, and what is in a deque or run as a job has not been done and   *)
(* lies on a stack that still holds it.                                    *)
ForkSafe ==
  /\ PartsTyped /\ PopsRight /\ JobsAlive

(* What sequence.h promises, down to the lifetime of each element.         *)
SequencesRight ==
  /\ Lifetimes /\ LikeVector /\ ReturnsValid

(* Hazard pointers do what they are for: no thread reads a node that has   *)
(* been freed, the list is that of what was pushed and not popped, and     *)
(* each node is linked, with one thread, or retired by one: freed once,    *)
(* and lost by nobody.                                                     *)
NodesSafe ==
  part = "stack" => NoUseAfterFree /\ Linked /\ OneOwner

(* The allocators know what they have handed out, hand nothing out twice,  *)
(* and take it back where it belongs.                                      *)
BlocksKept ==
  /\ UsedExact /\ KeepsLittle /\ OnePlace /\ Holds /\ RightPool

(* A parallel_for, nested or not, keeps the contract that the searches are *)
(* modelled with (ParallelFor): each body begins once, while its loop      *)
(* runs, and a loop returns when all of its bodies have.                   *)
Contract ==
  Promise!PFInit /\ [][part = "loop" => Promised]_all

(* Each call on the stack takes effect at one moment between its beginning *)
(* and its end, as on a stack that is used by one thread at a time.        *)
Linearizable ==
  /\ part = "stack" => Stack!Init
  /\ [][part = "stack" => AsStack]_all

(* The sequence is "a fully-parallel drop-in replacement for std::vector"  *)
(* (sequence.h:58), whose push_back, insert and resize take references to  *)
(* elements of their own.                                                  *)
DropInReplacement == part = "long" => Long!DropInReplacement
=============================================================================
