------------------------------ MODULE JobDeque ------------------------------
(***************************************************************************)
(* What the scheduler relies on in a worker's deque of jobs: the owner     *)
(* puts jobs in at one end and takes them out there, the last first, and   *)
(* learns for certain that none is left; any worker may take them at the   *)
(* other end, the first first, and may find nothing for no reason.         *)
(***************************************************************************)
EXTENDS Naturals, Sequences

CONSTANTS Workers, owner, NoJob

VARIABLES
  made,     (* jobs pushed so far; they are numbered in that order         *)
  queue,    (* the jobs in the deque, the owner's end last                 *)
  got       (* what each worker's last call came back with                 *)

jdvars == << made, queue, got >>

JDInit ==
  /\ made = 0
  /\ queue = << >>
  /\ got = [ p \in Workers |-> NoJob ]

Push ==
  /\ made' = made + 1
  /\ queue' = Append(queue, made + 1)
  /\ UNCHANGED got

Pop ==
  /\ queue # << >>
  /\ got' = [ got EXCEPT ![owner] = queue[Len(queue)] ]
  /\ queue' = SubSeq(queue, 1, Len(queue) - 1)
  /\ UNCHANGED made

PopNothing ==
  /\ queue = << >>
  /\ got' = [ got EXCEPT ![owner] = NoJob ]
  /\ UNCHANGED << made, queue >>

Steal(t) ==
  /\ queue # << >>
  /\ got' = [ got EXCEPT ![t] = Head(queue) ]
  /\ queue' = Tail(queue)
  /\ UNCHANGED made

StealNothing(t) ==
  /\ got' = [ got EXCEPT ![t] = NoJob ]
  /\ UNCHANGED << made, queue >>

JDNext ==
  \/ Push \/ Pop \/ PopNothing
  \/ \E t \in Workers : Steal(t) \/ StealNothing(t)

Spec == JDInit /\ [][JDNext]_jdvars
=============================================================================
