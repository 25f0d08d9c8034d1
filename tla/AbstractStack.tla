--------------------------- MODULE AbstractStack ----------------------------
(***************************************************************************)
(* What parlay's concurrent stack (hazptr_stack.h) promises: each call     *)
(* takes effect at one moment between its start and its return, on one     *)
(* stack that knows its length.                                            *)
(***************************************************************************)
EXTENDS Integers, Sequences

CONSTANTS Threads, Values, None

VARIABLES
  items,      (* the stack, its top last                                   *)
  call        (* what each thread asks for, or has been answered           *)

vars == << items, call >>

Nothing == [ op |-> "none", val |-> None, len |-> 0 ]
Asked(op, v) == [ op |-> op, val |-> v, len |-> 0 ]
Answer(op, v, n) == [ op |-> op, val |-> v, len |-> n ]

Init ==
  /\ items \in Seq(Values)
  /\ call = [ t \in Threads |-> Nothing ]

Ask(t) ==
  /\ call[t] = Nothing
  /\ \/ \E v \in Values : call' = [ call EXCEPT ![t] = Asked("push", v) ]
     \/ \E op \in {"pop", "size"} : call' = [ call EXCEPT ![t] = Asked(op, None) ]
  /\ UNCHANGED items

Push(t) ==
  /\ call[t].op = "push"
  /\ items' = Append(items, call[t].val)
  /\ call' = [ call EXCEPT ![t] = Answer("pushed", None, 0) ]

Pop(t) ==
  /\ call[t].op = "pop"
  /\ \/ /\ items # << >>
        /\ items' = SubSeq(items, 1, Len(items) - 1)
        /\ call' = [ call EXCEPT ![t] = Answer("popped", items[Len(items)], 0) ]
     \/ /\ items = << >>
        /\ call' = [ call EXCEPT ![t] = Answer("empty", None, 0) ]
        /\ UNCHANGED items

Size(t) ==
  /\ call[t].op = "size"
  /\ call' = [ call EXCEPT ![t] = Answer("length", None, Len(items)) ]
  /\ UNCHANGED items

Return(t) ==
  /\ call[t].op \in {"pushed", "popped", "empty", "length"}
  /\ call' = [ call EXCEPT ![t] = Nothing ]
  /\ UNCHANGED items

(* The destructor, when no call is on.                                     *)
Destroy ==
  /\ call = [ t \in Threads |-> Nothing ]
  /\ items' = << >>
  /\ UNCHANGED call

Next ==
  \/ \E t \in Threads : Ask(t) \/ Push(t) \/ Pop(t) \/ Size(t) \/ Return(t)
  \/ Destroy

Spec == Init /\ [][Next]_vars
=============================================================================
