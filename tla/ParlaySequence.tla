--------------------------- MODULE ParlaySequence ---------------------------
(***************************************************************************)
(* parlay::sequence, the dynamic array (sequence.h, sequence_base.h): its  *)
(* operations on two sequences, down to which cell of which buffer holds   *)
(* an object.  A cell is Raw when nothing is constructed in it; an object  *)
(* that was moved from, of a type for which that matters, is Moved, and    *)
(* has to be destroyed like any other.  Loops over disjoint cells are one  *)
(* step.  An argument that is not a sequence is a value, or a reference to *)
(* an element of the sequence the operation is applied to.                 *)
(***************************************************************************)
EXTENDS Integers, Sequences, FiniteSetsExt

CONSTANTS
  use_sso,          (* short sequences of a trivial type lie in the object *)
  short_capacity,
  Vals,
  Raw, Moved,
  Buffers,          (* the numbers of the buffers the heap may hold        *)
  None,             (* no buffer                                           *)
  short,            (* the place that is not a buffer                      *)
  MaxLen,           (* bounds the sizes of both sequences together         *)
  Aliasing,         (* may arguments refer to the sequence itself?         *)
  granularity       (* of a comparison: 1024 words in the code             *)

Names == { "a", "b" }
Other(x) == IF x = "a" THEN "b" ELSE "a"

VARIABLES
  mem,     (* heap: the buffers, each a function from 0..cap-1, or None;   *)
           (* obj: the sequence objects, their temporaries included;       *)
           (* err: a cell was used in a way that its state does not allow  *)
  want,    (* what std::vector would contain                               *)
  it       (* what was returned last, an iterator or the result of a       *)
           (* comparison, is what it should be                             *)

vars == << mem, want, it >>

-----------------------------------------------------------------------------
(* storage_impl.  A memory is the first argument and the result.           *)
Cells(c, x) == [ i \in 0..(c-1) |-> x ]
Empty == [ flag |-> ~use_sso, buffer |-> None, n |-> 0, inline |-> Cells(short_capacity, Raw) ]

is_small(m, x) == ~m.obj[x].flag
size(m, x)     == m.obj[x].n
Place(m, x)    == IF is_small(m, x) THEN short ELSE m.obj[x].buffer
capacity(m, x) ==
  IF is_small(m, x) THEN short_capacity
  ELSE IF m.obj[x].buffer = None THEN 0
  ELSE Cardinality(DOMAIN m.heap[m.obj[x].buffer])

data(m, x) ==
  IF is_small(m, x) THEN m.obj[x].inline
  ELSE IF m.obj[x].buffer = None THEN Cells(0, Raw)
  ELSE m.heap[m.obj[x].buffer]

set_size(m, x, n) == [ m EXCEPT !.obj[x].n = n, !.err = @ \/ n > capacity(m, x) ]

(* data() with the cells I given new contents; they must be in range.      *)
Write(m, x, I, f(_)) ==
  LET d == data(m, x)
      e == [ i \in DOMAIN d |-> IF i \in I THEN f(i) ELSE d[i] ]
      w == [ m EXCEPT !.err = @ \/ ~(I \subseteq DOMAIN d) ]
  IN  IF is_small(m, x) THEN [ w EXCEPT !.obj[x].inline = e ]
      ELSE IF m.obj[x].buffer = None THEN w
      ELSE [ w EXCEPT !.heap[m.obj[x].buffer] = e ]

Span(from, len) == from..(from + len - 1)

(* Constructing objects with the values s in the cells from "from" on.     *)
initialize(m, x, from, s) ==
  LET d == data(m, x)
      I == Span(from, Len(s))
      w == Write(m, x, I, LAMBDA i : s[i - from + 1])
  IN  [ w EXCEPT !.err = @ \/ (\E i \in I \cap DOMAIN d : d[i] # Raw)
                           \/ (\E j \in DOMAIN s : s[j] = Raw) ]

(* Destroying the objects in the cells I.                                  *)
destroy(m, x, I) ==
  LET d == data(m, x)
      w == Write(m, x, I, LAMBDA i : Raw)
  IN  [ w EXCEPT !.err = @ \/ \E i \in I \cap DOMAIN d : d[i] = Raw ]

(* The values of len cells, and the cells after they were moved from; a    *)
(* trivial type is copied.                                                 *)
Values(m, x, from, len) == [ j \in 1..len |-> data(m, x)[from + j - 1] ]
MoveOut(m, x, from, len) ==
  IF use_sso THEN m ELSE Write(m, x, Span(from, len), LAMBDA i : Moved)

New(m, c) ==
  LET id == Min({ b \in Buffers : m.heap[b] = None })
  IN  << id, [ m EXCEPT !.heap[id] = Cells(c, Raw) ] >>

free_buffer(m, b) ==
  IF b = None THEN m
  ELSE [ m EXCEPT !.heap[b] = None, !.err = @ \/ m.heap[b] = None ]

initialize_capacity(m, x, desired) ==
  IF use_sso /\ desired <= short_capacity THEN [ m EXCEPT !.obj[x].flag = FALSE ]
  ELSE LET new == New(m, desired)
       IN  [ new[2] EXCEPT !.obj[x] =
               [ flag |-> TRUE, buffer |-> new[1], n |-> 0,
                 inline |-> Cells(short_capacity, Raw) ] ]

(* The cells d after the first n elements of old were moved in.            *)
relocate(d, old, n) == [ i \in DOMAIN d |-> IF i < n THEN old[i] ELSE Raw ]

(* A larger buffer, the elements relocated, the old one freed.             *)
ensure_capacity(m, x, desired) ==
  IF desired <= capacity(m, x) THEN m
  ELSE LET new == New(m, Max({ desired, (5 * capacity(m, x)) \div 2 }))
           old == data(m, x)
           w   == new[2]
           u   == IF is_small(m, x) THEN w ELSE free_buffer(w, m.obj[x].buffer)
           v   == [ u EXCEPT !.obj[x] = [ flag |-> TRUE, buffer |-> new[1],
                      n |-> size(m, x), inline |-> Cells(short_capacity, Raw) ] ]
       IN  [ v EXCEPT !.heap[new[1]] =
               relocate(@, old, size(m, x)) ]

(* ~storage_impl too.                                                      *)
clear(m, x) ==
  LET w == IF is_small(m, x) THEN m
           ELSE free_buffer(destroy(m, x, 0..(size(m, x) - 1)), m.obj[x].buffer)
  IN  [ w EXCEPT !.obj[x] = Empty ]

(* The move constructor: bytes copied, the other emptied.                  *)
move_from(m, x, y) == [ m EXCEPT !.obj[x] = m.obj[y], !.obj[y] = Empty ]

(* The copy constructor, x not yet being anything.                         *)
copy_from(m, x, y) ==
  IF is_small(m, y) THEN [ m EXCEPT !.obj[x] = m.obj[y] ]
  ELSE LET w == initialize_capacity([ m EXCEPT !.obj[x] = Empty ], x, size(m, y))
       IN  set_size(initialize(w, x, 0, Values(m, y, 0, size(m, y))), x, size(m, y))

swap(m, x, y) == [ m EXCEPT !.obj[x] = m.obj[y], !.obj[y] = m.obj[x] ]

-----------------------------------------------------------------------------
(* sequence.  An argument is a value or a reference to a cell, which is    *)
(* read when the object is constructed from it.                            *)
Value(v) == [ place |-> None, at |-> 0, val |-> v ]
Element(m, x, i) == [ place |-> Place(m, x), at |-> i, val |-> Raw ]

Read(m, x, arg) ==
  IF arg.place = None THEN arg.val
  ELSE IF arg.place = short THEN m.obj[x].inline[arg.at]
  ELSE IF m.heap[arg.place] = None THEN Raw
  ELSE m.heap[arg.place][arg.at]

(* What arg stands for at the call.                                        *)
Meant(arg) == Read(mem, "a", arg)

Args == { Value(v) : v \in Vals }
          \cup { Element(mem, "a", i) : i \in IF Aliasing THEN 0..(size(mem, "a") - 1) ELSE {} }

Repeat(n, v) == [ j \in 1..n |-> v ]

(* initialize_fill and initialize_range into an empty sequence.            *)
initialize_range(m, x, s) ==
  set_size(initialize(initialize_capacity(m, x, Len(s)), x, 0, s), x, Len(s))

append_n(m, x, n, arg) ==
  LET w == ensure_capacity(m, x, size(m, x) + n)
  IN  set_size(initialize(w, x, size(m, x), Repeat(n, Read(w, x, arg))), x, size(m, x) + n)

append_range(m, x, s) ==
  LET w == ensure_capacity(m, x, size(m, x) + Len(s))
  IN  set_size(initialize(w, x, size(m, x), s), x, size(m, x) + Len(s))

emplace_back(m, x, arg) == append_n(m, x, 1, arg)

(* append with move iterators over all of y.                               *)
move_append(m, x, y) ==
  LET w == append_range(m, x, Values(m, y, 0, size(m, y)))
  IN  MoveOut(w, y, 0, size(m, y))

(* The elements from p on, moved to a sequence t of their own.             *)
pop_tail(m, x, p, t) ==
  LET len == size(m, x) - p
      w == initialize_range([ m EXCEPT !.obj[t] = Empty ], t, Values(m, x, p, len))
  IN  IF len = 0 THEN [ m EXCEPT !.obj[t] = Empty ]
      ELSE set_size(destroy(MoveOut(w, x, p, len), x, Span(p, len)), x, p)

pop_back(m, x) == set_size(destroy(m, x, {size(m, x) - 1}), x, size(m, x) - 1)

(* The tail t put back, and t destroyed at the end of the function.        *)
PutBack(m, x, t) == clear(move_append(m, x, t), t)

insert_n(m, x, p, n, arg) ==
  PutBack(append_n(pop_tail(ensure_capacity(m, x, size(m, x) + n), x, p, "tail"), x, n, arg),
          x, "tail")

emplace(m, x, p, arg) ==
  IF p = size(m, x) THEN emplace_back(m, x, arg) ELSE insert_n(m, x, p, 1, arg)

insert_range(m, x, p, s) ==
  PutBack(append_range(pop_tail(m, x, p, "tail"), x, s), x, "tail")

erase(m, x, q) ==
  IF q = size(m, x) - 1 THEN pop_back(m, x)
  ELSE PutBack(pop_back(pop_tail(m, x, q + 1, "tail"), x), x, "tail")

resize(m, x, n, arg) ==
  IF n < size(m, x)
  THEN set_size(destroy(m, x, n..(size(m, x) - 1)), x, n)
  ELSE LET w == ensure_capacity(m, x, n)
       IN  set_size(initialize(w, x, size(m, x), Repeat(n - size(m, x), Read(w, x, arg))), x, n)

erase_range(m, x, q1, q2) ==
  PutBack(resize(pop_tail(m, x, q2, "tail"), x, size(m, x) - (size(m, x) - q1), Value(Raw)),
          x, "tail")

(* Room for n objects, none of them constructed; and with them.            *)
uninitialized(m, x, n) ==
  set_size(initialize_capacity([ m EXCEPT !.obj[x] = Empty ], x, n), x, n)

from_function(m, x, s) == initialize(uninitialized(m, x, Len(s)), x, 0, s)

(* All of x relocated to the cells of y from "from" on, and x left behind. *)
uninitialized_relocate_n(m, y, from, x) ==
  destroy(initialize(m, y, from, Values(m, x, 0, size(m, x))), x, 0..(size(m, x) - 1))

clear_relocated(m, x) ==
  LET w == IF is_small(m, x) THEN m ELSE free_buffer(m, m.obj[x].buffer)
  IN  [ w EXCEPT !.obj[x] = Empty ]

to_sequence(m, x, s) == initialize_range([ m EXCEPT !.obj[x] = Empty ], x, s)

(* The first elements one by one, then blocks that double.                 *)
Block(k, n) ==
  LET start == granularity * (2 ^ (k + 1) - 1)
  IN  start..(Min({ n, start + granularity * 2 ^ (k + 1) }) - 1)

compare_equal(m, x, y) ==
  LET n == size(m, x)
      same(i) == data(m, x)[i] = data(m, y)[i]
  IN  /\ \A i \in 0..(Min({ granularity, n }) - 1) : same(i)
      /\ \A k \in 0..n : \A i \in Block(k, n) : same(i)

-----------------------------------------------------------------------------
Init ==
  /\ mem = [ heap |-> [ b \in Buffers |-> None ], obj |-> [ x \in Names \cup {"tail", "tmp"} |-> Empty ], err |-> FALSE ]
  /\ want = [ x \in Names |-> << >> ]
  /\ it = TRUE

A == want["a"]
Room == MaxLen - size(mem, "a") - size(mem, "b")
Positions == 0..size(mem, "a")

(* The new memory m, and what "a" should be; the iterator returned is to   *)
(* position i of "a" as it was in memory k, and should be to position due. *)
Do(m, s) == mem' = m /\ want' = [ want EXCEPT !["a"] = s ]
Returns(k, i, due) == it' = (Place(k, "a") = Place(mem', "a") /\ i = due)

Before(p) == SubSeq(A, 1, p)
From(p)   == SubSeq(A, p + 1, Len(A))

PushBack == \E v \in Args :
  /\ 1 <= Room
  /\ Do(emplace_back(mem, "a", v), Append(A, Meant(v)))
  /\ Returns(mem', size(mem', "a") - 1, Len(A))

Insert == \E v \in Args, p \in Positions :
  /\ 1 <= Room
  /\ Do(emplace(mem, "a", p, v), Before(p) \o << Meant(v) >> \o From(p))
  /\ LET k == pop_tail(ensure_capacity(mem, "a", size(mem, "a") + 1), "a", p, "tail")
     IN  Returns(k, size(k, "a"), p)

InsertN == \E v \in Args, p \in Positions, n \in 0..2 :
  /\ n <= Room
  /\ Do(insert_n(mem, "a", p, n, v), Before(p) \o Repeat(n, Meant(v)) \o From(p))
  /\ LET k == pop_tail(ensure_capacity(mem, "a", size(mem, "a") + n), "a", p, "tail")
     IN  Returns(k, size(k, "a"), p)

(* Mutant: the iterator is kept over move_append.                          *)
InsertRangeEarly == \E u, v \in Vals, p \in Positions :
  /\ 2 <= Room
  /\ Do(insert_range(mem, "a", p, << u, v >>), Before(p) \o << u, v >> \o From(p))
  /\ LET k == append_range(pop_tail(mem, "a", p, "tail"), "a", << u, v >>)
     IN  Returns(k, size(k, "a") - 2, p)

InsertRange == \E u, v \in Vals, p \in Positions :
  /\ 2 <= Room
  /\ Do(insert_range(mem, "a", p, << u, v >>), Before(p) \o << u, v >> \o From(p))
  /\ Returns(mem', p, p)

AppendN == \E v \in Args, n \in 0..2 :
  /\ n <= Room
  /\ Do(append_n(mem, "a", n, v), A \o Repeat(n, Meant(v)))
  /\ Returns(mem', Len(A), Len(A))

(* append(sequence&&): takes over the other's buffer if that is no loss.   *)
AppendMove ==
  LET takes == size(mem, "a") = 0 /\ capacity(mem, "a") <= size(mem, "b")
      w == clear(swap(move_from(mem, "tmp", "b"), "a", "tmp"), "tmp")
  IN
  /\ size(mem, "b") <= Room
  /\ mem' = IF takes THEN w ELSE move_append(mem, "a", "b")
  /\ want' = [ a |-> A \o want["b"],
               b |-> IF takes THEN << >> ELSE IF use_sso THEN want["b"]
                     ELSE Repeat(Len(want["b"]), Moved) ]
  /\ Returns(mem', Len(A), Len(A))

Erase == \E q \in 0..(size(mem, "a") - 1) :
  /\ Do(erase(mem, "a", q), Before(q) \o From(q + 1))
  /\ Returns(mem', q, q)

EraseRange == \E q1, q2 \in Positions :
  /\ q1 <= q2
  /\ Do(erase_range(mem, "a", q1, q2), Before(q1) \o From(q2))
  /\ Returns(mem', q1, q1)

PopBack ==
  /\ size(mem, "a") > 0
  /\ Do(pop_back(mem, "a"), Before(Len(A) - 1))
  /\ UNCHANGED it

Resize == \E n \in 0..(Len(A) + Room), v \in Args :
  /\ Do(resize(mem, "a", n, v),
        IF n <= Len(A) THEN Before(n) ELSE A \o Repeat(n - Len(A), Meant(v)))
  /\ UNCHANGED it

Reserve == \E n \in {0, MaxLen} : Do(ensure_capacity(mem, "a", n), A) /\ UNCHANGED it

Clear == Do(clear(mem, "a"), << >>) /\ UNCHANGED it

Assign == \E n \in 0..2, v \in Vals :
  /\ n <= Room + Len(A)
  /\ Do(initialize_range(clear(mem, "a"), "a", Repeat(n, v)), Repeat(n, v))
  /\ UNCHANGED it

Swap ==
  /\ mem' = swap(mem, "a", "b")
  /\ want' = [ a |-> want["b"], b |-> A ]
  /\ UNCHANGED it

(* operator=, from a copy or a moved one, which is then swapped in.        *)
MoveAssign ==
  /\ mem' = clear(swap(move_from(mem, "tmp", "b"), "a", "tmp"), "tmp")
  /\ want' = [ a |-> want["b"], b |-> << >> ]
  /\ UNCHANGED it

CopyAssign ==
  /\ Len(want["b"]) <= Room + Len(A)
  /\ Do(clear(swap(copy_from(mem, "tmp", "b"), "a", "tmp"), "tmp"), want["b"])
  /\ UNCHANGED it

(* x takes over what the temporary holds.                                  *)
Assigned(m, x) == clear(swap(m, x, "tmp"), "tmp")

UpToTwo == UNION { [ 1..n -> Vals ] : n \in 0..2 }

AppendRange == \E u, v \in Vals :
  /\ 2 <= Room
  /\ Do(append_range(mem, "a", << u, v >>), A \o << u, v >>)
  /\ Returns(mem', Len(A), Len(A))

AssignList == \E s \in UpToTwo :
  /\ Len(s) <= Room + Len(A)
  /\ Do(initialize_range(clear(mem, "a"), "a", s), s)
  /\ UNCHANGED it

Construct == \E s \in UpToTwo :
  /\ Len(s) <= Room + Len(A)
  /\ Do(Assigned(from_function(mem, "tmp", s), "a"), s)
  /\ UNCHANGED it

PopTail == \E len \in 0..size(mem, "a") :
  /\ mem' = Assigned(pop_tail(mem, "a", size(mem, "a") - len, "tmp"), "b")
  /\ want' = [ a |-> Before(Len(A) - len), b |-> From(Len(A) - len) ]
  /\ UNCHANGED it

Subseq == \E i, j \in Positions :
  /\ i <= j /\ j - i <= Room + Len(want["b"])
  /\ mem' = Assigned(to_sequence(mem, "tmp", Values(mem, "a", i, j - i)), "b")
  /\ want' = [ want EXCEPT !["b"] = SubSeq(A, i + 1, j) ]
  /\ UNCHANGED it

(* flatten of both, which are given up.                                    *)
Flatten ==
  LET room == uninitialized(mem, "tmp", size(mem, "a") + size(mem, "b"))
      first == clear_relocated(uninitialized_relocate_n(room, "tmp", 0, "a"), "a")
      both == clear_relocated(uninitialized_relocate_n(first, "tmp", size(mem, "a"), "b"), "b")
  IN
  /\ mem' = Assigned(both, "a")
  /\ want' = [ a |-> A \o want["b"], b |-> << >> ]
  /\ UNCHANGED it

Compare ==
  /\ it' = ((size(mem, "a") = size(mem, "b") /\ compare_equal(mem, "a", "b")) <=> A = want["b"])
  /\ UNCHANGED << mem, want >>

Next ==
  \/ PushBack \/ Insert \/ InsertN \/ InsertRange \/ AppendN \/ AppendMove
  \/ Erase \/ EraseRange \/ PopBack \/ Resize \/ Reserve \/ Clear \/ Assign
  \/ Swap \/ MoveAssign \/ CopyAssign \/ AppendRange \/ AssignList \/ Construct
  \/ PopTail \/ Subseq \/ Flatten \/ Compare

Spec == Init /\ [][Next]_vars

-----------------------------------------------------------------------------
Holders(b) == { x \in DOMAIN mem.obj : mem.obj[x].flag /\ mem.obj[x].buffer = b }

(* No object is constructed on top of another, destroyed twice, or read    *)
(* where there is none; outside the operations the cells below the size    *)
(* hold objects, the others do not; each buffer belongs to one sequence:   *)
(* none is freed twice or lost.                                            *)
Lifetimes ==
  /\ ~mem.err
  /\ \A x \in Names : \A i \in 0..(capacity(mem, x) - 1) :
       data(mem, x)[i] = Raw <=> i >= size(mem, x)
  /\ \A b \in Buffers : Cardinality(Holders(b)) = IF mem.heap[b] = None THEN 0 ELSE 1

(* The contents are those std::vector would have after the same calls.     *)
LikeVector == \A x \in Names : Values(mem, x, 0, size(mem, x)) = want[x]

(* The iterator an operation returns points into the buffer the sequence   *)
(* has after it, at the element it should, even where a tail was moved     *)
(* away and back ("it" is guaranteed to remain valid).                     *)
ReturnsValid == it

(* The sequence is "a fully-parallel drop-in replacement for std::vector", *)
(* whose push_back, insert and resize take a reference to an element of    *)
(* their own.                                                              *)
DropInReplacement == ~mem.err /\ LikeVector
=============================================================================
