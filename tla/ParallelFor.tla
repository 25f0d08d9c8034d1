----------------------------- MODULE ParallelFor -----------------------------
(***************************************************************************)
(* What the drivers rely on in parlay::parallel_for, loops within loops    *)
(* included: every index of a loop is run once, by any one of the workers, *)
(* and the call returns when all of them have returned.  A worker whose    *)
(* loop is not finished does not sit idle: it runs whatever index of any   *)
(* open loop it can get, on top of the call that waits.                    *)
(*                                                                         *)
(* A call is a sequence of loop indices: << >> is the outermost            *)
(* parallel_for of main, << i >> its body for index i, << i, g >> the body *)
(* for index g of a parallel_for inside that.  How parlay splits the range *)
(* and which index it hands to whom is left open.                          *)
(***************************************************************************)
EXTENDS Integers, Sequences

CONSTANTS
  Workers,   (* the threads of the scheduler, main among them              *)
  main,
  NoCall,    (* what a worker runs when it runs no body                    *)
  Depth,     (* how deep the loops are nested                              *)
  Calls      (* all calls, << >> included                                  *)

Parent(c)   == SubSeq(c, 1, Len(c) - 1)
Children(c) == { b \in Calls : b # << >> /\ Parent(b) = c }

Loops  == { c \in Calls : Len(c) < Depth }   \* calls that run a loop
Bodies == Calls \ Loops                      \* calls that do the work

-----------------------------------------------------------------------------
VARIABLES
  status,   (* of each call: "open" before it begins, "running", "done"    *)
  waits,    (* the loops a worker is in, the innermost last                *)
  runs      (* the innermost body a worker is in                           *)

pfvars == << status, waits, runs >>

PFTypeOK ==
  /\ status \in [Calls -> {"open", "running", "done"}]
  /\ waits \in [Workers -> Seq(Loops)]
  /\ runs \in [Workers -> Bodies \cup {NoCall}]

PFInit ==
  /\ status = [ c \in Calls |-> IF c = << >> THEN "running" ELSE "open" ]
  /\ waits = [ w \in Workers |-> IF w = main THEN << << >> >> ELSE << >> ]
  /\ runs = [ w \in Workers |-> NoCall ]

(* A worker that has nothing else to do begins a call of a running loop.   *)
Begin(w, c) ==
  /\ runs[w] = NoCall
  /\ c # << >>
  /\ status[c] = "open"
  /\ status[Parent(c)] = "running"
  /\ status' = [ status EXCEPT ![c] = "running" ]
  /\ IF c \in Loops
     THEN waits' = [ waits EXCEPT ![w] = Append(@, c) ] /\ UNCHANGED runs
     ELSE runs' = [ runs EXCEPT ![w] = c ] /\ UNCHANGED waits

(* The body returns.                                                       *)
Finish(w) ==
  /\ runs[w] # NoCall
  /\ status' = [ status EXCEPT ![runs[w]] = "done" ]
  /\ runs' = [ runs EXCEPT ![w] = NoCall ]
  /\ UNCHANGED waits

Innermost(w) == waits[w][Len(waits[w])]

(* Mutant: the loop returns when all its calls have been handed out.       *)
JoinHandedOut(w) ==
  /\ runs[w] = NoCall
  /\ waits[w] # << >>
  /\ \A c \in Children(Innermost(w)) : status[c] # "open"
  /\ status' = [ status EXCEPT ![Innermost(w)] = "done" ]
  /\ waits' = [ waits EXCEPT ![w] = SubSeq(@, 1, Len(@) - 1) ]
  /\ UNCHANGED runs

(* The innermost loop of a worker returns: all its calls have.             *)
Join(w) ==
  /\ runs[w] = NoCall
  /\ waits[w] # << >>
  /\ \A c \in Children(Innermost(w)) : status[c] = "done"
  /\ status' = [ status EXCEPT ![Innermost(w)] = "done" ]
  /\ waits' = [ waits EXCEPT ![w] = SubSeq(@, 1, Len(@) - 1) ]
  /\ UNCHANGED runs

(* The contract by itself: any worker, in any order.                       *)
PFNext ==
  \E w \in Workers :
    \/ \E c \in Calls : Begin(w, c)
    \/ Finish(w)
    \/ Join(w)

PFSpec == PFInit /\ [][PFNext]_pfvars
=============================================================================
