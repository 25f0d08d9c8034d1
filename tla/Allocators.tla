----------------------------- MODULE Allocators -----------------------------
(***************************************************************************)
(* parlay's allocators: one of blocks of one size, and the one of all      *)
(* sizes that is made of such; each a state machine of its own.            *)
(***************************************************************************)
EXTENDS Integers, FiniteSets, SequencesExt, FiniteSetsExt, Bags

----------------------------------------------------------------------------
(***************************************************************************)
(* parlay's allocator of equal blocks (block_allocator.h): a list of free  *)
(* blocks per worker, and a global stack of lists of list_length.  A call  *)
(* runs on one worker and touches only its list, so it is one step, except *)
(* that alloc leaves its worker while it gets a list and may go on on      *)
(* another.  The global stack is HazptrStack's abstract one.               *)
(***************************************************************************)
CONSTANTS
  Workers,
  Tasks,  (* those that may be in get_list at once                 *)
  list_length,
  Blocks, (* where blocks may lie, numbered; as many as max_blocks *)
  None

VARIABLES
  next,         (* block::next                         *)
  local_lists,
  global_stack, (* the heads of its lists              *)
  blocks_allocated,
  buffers,      (* the blocks of the allocated buffers *)
  used,         (* the blocks handed out               *)
  at, new_list  (* the calls of alloc in get_list      *)

LengthAssumption == list_length \in Nat \ {0}

(* The first n blocks of the list that starts at b.                        *)
List(b, n) ==
  LET L[k \in 0..n] == IF k = 0 THEN << >>
                       ELSE IF k = 1 THEN << b >>
                       ELSE LET l == L[k-1]
                            IN  Append(l, IF Last(l) = None THEN None ELSE next[Last(l)])
  IN  L[n]

(* Where "operator new" may put n blocks, one after the other.             *)
Room(n) == { s \in { [ k \in 1..n |-> a + k - 1 ] : a \in Blocks } : Range(s) \subseteq Blocks \ buffers }

(* initialize_list: each list_length blocks of a buffer linked up.         *)
Linked(f, s) ==
  [ c \in Blocks |->
      IF c \notin Range(s) THEN f[c]
      ELSE LET k == CHOOSE k \in DOMAIN s : s[k] = c
           IN  IF k % list_length = 0 THEN None ELSE s[k + 1] ]

(* The constructor: reserve(0), a list for each worker.                    *)
Reserved == Cardinality(Workers) * list_length

BlocksAssumption == Cardinality(Blocks) >= Reserved

BlockInit ==
  /\ buffers = {}
  /\ local_lists = [ w \in Workers |-> [ sz |-> 0, head |-> None, mid |-> None ] ]
  /\ global_stack = << >>
  /\ blocks_allocated = 0
  /\ next = [ c \in Blocks |-> None ]
  /\ used = {}
  /\ at = [ t \in Tasks |-> "constructor" ]
  /\ new_list = [ t \in Tasks |-> None ]

(* reserve(n), as a step: new lists for n blocks and one for each worker.  *)
Reserve(n) ==
  LET num_lists == Cardinality(Workers) + (n + list_length - 1) \div list_length IN
  /\ \E s \in Room(num_lists * list_length) :
       /\ buffers' = buffers \cup Range(s)
       /\ next' = Linked(next, s)
       /\ global_stack' = [ k \in 1..num_lists |-> s[(k - 1) * list_length + 1] ] \o global_stack
  /\ blocks_allocated' = blocks_allocated + num_lists * list_length
  /\ UNCHANGED << local_lists, used, new_list >>

Construct ==
  /\ at = [ t \in Tasks |-> "constructor" ]
  /\ Reserve(0)
  /\ at' = [ t \in Tasks |-> "outside" ]

ReserveMore(t) ==
  /\ at[t] = "outside"
  /\ \E n \in 0..list_length : Reserve(n)
  /\ UNCHANGED at

-----------------------------------------------------------------------------
(* alloc takes the first block of a list that has one.  What is in it from *)
(* now on is its user's.                                                   *)
Take(w, l) ==
  /\ used' = used \cup {l.head}
  /\ next' = [ next EXCEPT ![l.head] = None ]
  /\ local_lists' = [ local_lists EXCEPT ![w] = [ l EXCEPT !.head = next[l.head], !.sz = @ - 1 ] ]

Alloc(w) ==
  /\ local_lists[w].sz > 0
  /\ Take(w, local_lists[w])
  /\ UNCHANGED << global_stack, blocks_allocated, buffers, at, new_list >>

AllocSlowly(t, w) ==
  /\ local_lists[w].sz = 0
  /\ at[t] = "outside"
  /\ at' = [ at EXCEPT ![t] = "get_list" ]
  /\ UNCHANGED << next, local_lists, global_stack, blocks_allocated, buffers, used, new_list >>

GetList(t) ==
  /\ at[t] = "get_list"
  /\ IF global_stack # << >>
     THEN /\ new_list' = [ new_list EXCEPT ![t] = Head(global_stack) ]
          /\ global_stack' = Tail(global_stack)
          /\ at' = [ at EXCEPT ![t] = "got" ]
     ELSE /\ at' = [ at EXCEPT ![t] = "allocate" ]
          /\ UNCHANGED << new_list, global_stack >>
  /\ UNCHANGED << next, local_lists, blocks_allocated, buffers, used >>

(* allocate_blocks and initialize_list; "operator new" gives a buffer that *)
(* overlaps no other.                                                      *)
AllocateBlocks(t) ==
  /\ at[t] = "allocate"
  /\ \E s \in Room(list_length) :
       /\ buffers' = buffers \cup Range(s)
       /\ next' = Linked(next, s)
       /\ new_list' = [ new_list EXCEPT ![t] = s[1] ]
  /\ blocks_allocated' = blocks_allocated + list_length
  /\ at' = [ at EXCEPT ![t] = "got" ]
  /\ UNCHANGED << local_lists, global_stack, used >>

(* alloc goes on, on any worker, whose list may have got blocks meanwhile. *)
Resume(t, w) ==
  /\ at[t] = "got"
  /\ IF local_lists[w].sz = 0
     THEN /\ Take(w, [ local_lists[w] EXCEPT !.head = new_list[t], !.sz = list_length ])
          /\ UNCHANGED global_stack
     ELSE /\ global_stack' = << new_list[t] >> \o global_stack
          /\ Take(w, local_lists[w])
  /\ at' = [ at EXCEPT ![t] = "outside" ]
  /\ new_list' = [ new_list EXCEPT ![t] = None ]
  /\ UNCHANGED << blocks_allocated, buffers >>

(* free, of any block by any worker.  On the way up the last block of the  *)
(* half that stays is remembered; from a full list the other half goes to  *)
(* the global stack.                                                       *)
Put(w, b, full, mid) ==
  LET l == local_lists[w]
      n == IF full THEN [ next EXCEPT ![l.mid] = None ] ELSE next
  IN
  /\ b \in used
  /\ used' = used \ {b}
  /\ global_stack' = IF full THEN << next[l.mid] >> \o global_stack ELSE global_stack
  /\ next' = [ n EXCEPT ![b] = l.head ]
  /\ local_lists' = [ local_lists EXCEPT ![w] =
                        [ sz |-> IF full THEN list_length + 1 ELSE l.sz + 1, head |-> b, mid |-> mid ] ]
  /\ UNCHANGED << blocks_allocated, buffers, at, new_list >>

Marks(w) == local_lists[w].sz = list_length + 1

(* Mutant: the block is remembered when the list has list_length blocks.   *)
FreeEarly(w, b) ==
  LET l == local_lists[w] IN
  Put(w, b, l.sz = 2 * list_length, IF l.sz = list_length THEN l.head ELSE l.mid)

Free(w, b) ==
  LET l == local_lists[w] IN
  Put(w, b, ~Marks(w) /\ l.sz = 2 * list_length, IF Marks(w) THEN l.head ELSE l.mid)

-----------------------------------------------------------------------------
num_used_blocks ==
  blocks_allocated
    - Len(global_stack) * list_length
    - FoldSet(LAMBDA w, s : s + local_lists[w].sz, 0, Workers)

Quiet == at = [ t \in Tasks |-> "outside" ]

(* clear, with nothing else going on: true, or refused.  The heads and the *)
(* middles of the lists stay what they were; the memory is given back.     *)
Clear ==
  /\ Quiet
  /\ num_used_blocks <= 0
  /\ local_lists' = [ w \in Workers |-> [ local_lists[w] EXCEPT !.sz = 0 ] ]
  /\ global_stack' = << >>
  /\ buffers' = {}
  /\ blocks_allocated' = 0
  /\ next' = [ b \in Blocks |-> None ]
  /\ UNCHANGED << used, at, new_list >>

BlockNext ==
  \/ \E w \in Workers :
       \/ Alloc(w)
       \/ \E t \in Tasks : AllocSlowly(t, w) \/ Resume(t, w)
       \/ \E b \in Blocks : Free(w, b)
  \/ \E t \in Tasks : GetList(t) \/ AllocateBlocks(t) \/ ReserveMore(t)
  \/ Construct \/ Clear

(* The part of the state that is ever read again: the middle of a list no  *)
(* longer than list_length and the head of an empty one are written first. *)
Live ==
  << next, global_stack, blocks_allocated, buffers, used, at, new_list,
     [ w \in Workers |-> LET l == local_lists[w] IN
         << l.sz, IF l.sz = 0 THEN None ELSE l.head,
            IF l.sz <= list_length + 1 THEN None ELSE l.mid >> ] >>

-----------------------------------------------------------------------------
(* Every block of a buffer is in one place: handed out, in one worker's    *)
(* list, in one list of the global stack or in one that a call has just    *)
(* got; a list that goes from hand to hand has list_length blocks.  So no  *)
(* block is handed out twice, and none is lost.                            *)
Lists ==
  { << "worker", w, List(local_lists[w].head, local_lists[w].sz) >> : w \in Workers }
  \cup { << "stack", k, List(global_stack[k], list_length) >> : k \in DOMAIN global_stack }
  \cup { << "call", t, List(new_list[t], list_length) >> : t \in { u \in Tasks : at[u] = "got" } }

OnePlace ==
  LET all == Lists IN
  /\ used \subseteq buffers
  /\ UNION { ToSet(l[3]) : l \in all } = buffers \ used
  /\ \A l, m \in all : \A j \in DOMAIN l[3], k \in DOMAIN m[3] :
       l[3][j] = m[3][k] => l = m /\ j = k

(* num_used_blocks counts the lists by their heads and takes each for      *)
(* list_length blocks: with no call under way it is the number of blocks   *)
(* handed out, so clear throws memory away only when none of it is in use. *)
UsedExact == Quiet => num_used_blocks = Cardinality(used)

(* "returns list_length elements to the global pool when local             *)
(* pool=2*list_length": no worker keeps more than that.                    *)
KeepsLittle == \A w \in Workers : local_lists[w].sz <= 2 * list_length

----------------------------------------------------------------------------
(***************************************************************************)
(* parlay's memory (pool_allocator.h, alloc.h): pools of blocks of given   *)
(* sizes, small ones from a BlockAllocator, large ones kept on a stack per *)
(* size, larger ones from the system; and p_malloc, which puts a header in *)
(* front.  Calls of different threads meet only in atomic counters and on  *)
(* the stacks, each of which a call uses once, so a call is one step.      *)
(***************************************************************************)
CONSTANTS
  sizes,      (* of the buckets, rising                             *)
  large_threshold,
  max_alignment,
  Modulus,    (* of size_t                                          *)
  Requests,   (* the sizes that are asked for                       *)
  Alignments, (* the alignments p_malloc is asked for               *)
  Bases,      (* where blocks may begin, multiples of max_alignment *)
  most        (* how many blocks are in use at once                 *)

VARIABLES
  large_allocated, large_used,
  small_used,      (* of each small bucket                                 *)
  large_buckets,   (* what is on the stack of each large bucket: the sizes *)
                   (* the blocks really have                               *)
  live             (* the blocks in use                                    *)

SizesAssumption ==
  /\ \A k \in DOMAIN sizes : sizes[k] \in Nat /\ (k > 1 => sizes[k-1] < sizes[k])
  /\ \A b \in Bases : b % max_alignment = 0

Buckets == DOMAIN sizes
num_small == Cardinality({ k \in Buckets : sizes[k] < large_threshold })
max_small == IF num_small > 0 THEN sizes[num_small] ELSE 0
max_size == sizes[Len(sizes)]
Small == 1..num_small
Large == Buckets \ Small

(* size_t arithmetic.                                                      *)
Plus(a, b) == (a + b) % Modulus
Minus(a, b) == (a - b) % Modulus

(* The first bucket from `from' on whose blocks hold n bytes.              *)
BucketOf(n, from) == Min({ k \in Buckets : k >= from /\ n <= sizes[k] })

RoundUp(n) == IF n % max_alignment = 0 THEN n ELSE n + max_alignment - (n % max_alignment)

PoolInit ==
  /\ large_allocated = 0 /\ large_used = 0
  /\ small_used = [ k \in Small |-> 0 ]
  /\ large_buckets = [ k \in Large |-> EmptyBag ]
  /\ live = EmptyBag

-----------------------------------------------------------------------------
(* allocate(n): a block that really has `cap' bytes; `made' if the system  *)
(* gave it just now.                                                       *)
AllocateSmall(n, cap) ==
  LET k == BucketOf(n, 1) IN
  /\ n <= max_small
  /\ cap = sizes[k]
  /\ small_used' = [ small_used EXCEPT ![k] = @ + 1 ]
  /\ UNCHANGED << large_allocated, large_used, large_buckets >>

AllocateLarge(n, cap) ==
  LET k == BucketOf(n, num_small + 1) IN
  /\ n > max_small
  /\ large_used' = Plus(large_used, n)
  /\ IF n <= max_size /\ large_buckets[k] # EmptyBag
     THEN /\ cap \in BagToSet(large_buckets[k])
          /\ large_buckets' = [ large_buckets EXCEPT ![k] = @ (-) SetToBag({cap}) ]
          /\ UNCHANGED large_allocated
     ELSE /\ cap = RoundUp(IF n <= max_size THEN sizes[k] ELSE n)
          /\ large_allocated' = Plus(large_allocated, n)
          /\ UNCHANGED large_buckets
  /\ UNCHANGED << small_used >>

allocate(n, cap) == AllocateSmall(n, cap) \/ AllocateLarge(n, cap)

(* deallocate(ptr, n), of a block that has `cap' bytes.                    *)
DeallocateSmall(n) ==
  LET k == BucketOf(n, 1) IN
  /\ n <= max_small
  /\ small_used' = [ small_used EXCEPT ![k] = @ - 1 ]
  /\ UNCHANGED << large_allocated, large_used, large_buckets >>

DeallocateLarge(n, cap) ==
  /\ n > max_small
  /\ large_used' = Minus(large_used, n)
  /\ IF n > max_size
     THEN /\ large_allocated' = Minus(large_allocated, n)
          /\ UNCHANGED large_buckets
     ELSE /\ LET k == BucketOf(n, num_small + 1) IN
               large_buckets' = [ large_buckets EXCEPT ![k] = @ (+) SetToBag({cap}) ]
          /\ UNCHANGED large_allocated
  /\ UNCHANGED << small_used >>

deallocate(n, cap) == DeallocateSmall(n) \/ DeallocateLarge(n, cap)

-----------------------------------------------------------------------------
(* parlay::allocator: the user keeps the size.                             *)
Allocate ==
  \E n \in Requests :
    \E cap \in ToSet(sizes) \cup { RoundUp(n) } :
      /\ BagCardinality(live) < most
      /\ allocate(n, cap)
      /\ live' = live (+) SetToBag({[ n |-> n, cap |-> cap, base |-> 0, offset |-> 0, align |-> 1, tag |-> 0 ]})

Deallocate ==
  \E b \in BagToSet(live) :
    /\ b.offset = 0
    /\ deallocate(b.n, b.cap)
    /\ live' = live (-) SetToBag({b})

-----------------------------------------------------------------------------
header_size == 8

alloc_padding_size(n) ==
  IF n >= 1024 THEN 64 ELSE IF n % 16 # 0 THEN 8 ELSE IF n % 64 # 0 THEN 16 ELSE 64

log2_up(n) == Min({ k \in 0..30 : 2 ^ k >= n })

Tag(n) == log2_up(n)

(* std::align: the first multiple of a from address x on.                  *)
Aligned(x, a) == x + ((a - (x % a)) % a)

Offset(base, pad) == Aligned(base + header_size, pad) - base

p_malloc ==
  \E n \in Requests, a \in Alignments, base \in Bases :
    LET pad == Max({ alloc_padding_size(n), a }) IN
    \E cap \in ToSet(sizes) \cup { RoundUp(n + pad) } :
      /\ BagCardinality(live) < most
      /\ allocate(n + pad, cap)
      /\ live' = live (+) SetToBag({[ n |-> n, cap |-> cap, base |-> base,
                                      offset |-> Offset(base, pad), align |-> a, tag |-> Tag(n + pad) ]})

p_free ==
  \E b \in BagToSet(live) :
    /\ b.offset > 0
    /\ deallocate(2 ^ b.tag, b.cap)
    /\ live' = live (-) SetToBag({b})

(* memory_clear: what lies on the stacks goes back to the system.          *)
clear ==
  /\ \E k \in Large : large_buckets[k] # EmptyBag
  /\ large_allocated' =
       Minus(large_allocated, FoldSet(LAMBDA k, s : s + sizes[k] * BagCardinality(large_buckets[k]), 0, Large))
  /\ large_buckets' = [ k \in Large |-> EmptyBag ]
  /\ UNCHANGED << large_used, small_used, live >>

PoolNext == Allocate \/ Deallocate \/ p_malloc \/ p_free \/ clear

(* The two counters of large blocks decide nothing.                        *)
Decisive == << small_used, large_buckets, live >>

-----------------------------------------------------------------------------
-----------------------------------------------------------------------------
(* A block holds what was asked for, its header included, at an address of *)
(* the alignment asked for, whichever pool it came from and however often  *)
(* it has been there.                                                      *)
Holds ==
  \A b \in BagToSet(live) :
    /\ b.offset + b.n <= b.cap
    /\ b.offset # 0 => b.offset >= header_size
    /\ (b.base + b.offset) % b.align = 0

(* deallocate is told another size than allocate was: that in the header   *)
(* is a power of two.  It finds the same bucket: each stack holds blocks   *)
(* of its own size, and every small block comes back to its own pool.      *)
RightPool ==
  /\ \A k \in Large : BagToSet(large_buckets[k]) \subseteq { RoundUp(sizes[k]) }
  /\ \A k \in Small :
       small_used[k] =
         FoldSet(LAMBDA b, s : s + live[b], 0, { b \in BagToSet(live) : b.cap = sizes[k] })
=============================================================================
