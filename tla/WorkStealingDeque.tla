-------------------------- MODULE WorkStealingDeque --------------------------
(***************************************************************************)
(* work_stealing_deque.h of parlay: the deque of Arora, Blumofe and        *)
(* Plaxton in which a worker keeps the jobs it has forked.  Its owner      *)
(* calls push_bottom and pop_bottom, and any worker pop_top, at any time   *)
(* and in any order: the owner too, since try_steal of scheduler.h picks   *)
(* its victim among all workers.                                           *)
(*                                                                         *)
(* A step is one atomic operation on shared memory; a load of what only    *)
(* the owner writes is taken together with the owner's next step.  Memory  *)
(* is sequentially consistent: of the weaker orders the code asks for,     *)
(* none lets x86 reorder anything but a store with a later load, and       *)
(* pop_bottom has a fence there.                                           *)
(***************************************************************************)
EXTENDS Integers, Sequences

CONSTANTS
  Workers, owner, NoJob,
  q_size,      (* entries of deq, 1000 in the code                         *)
  TagMod,      (* values of tag_t, 2^32 in the code                        *)
  MaxPushes    (* bound: jobs pushed                                       *)

ASSUME DequeAssumption ==
  /\ q_size \in Nat /\ q_size > 0
  /\ MaxPushes \in Nat
  /\ TagMod \in Nat /\ TagMod > MaxPushes
  /\ owner \in Workers
  /\ NoJob \notin Nat

Slots   == 0..(q_size-1)
Jobs    == 1..MaxPushes    \* a job is the number of the push that brought it
Age     == [ tag : 0..(TagMod-1), top : Nat ]

VARIABLES
  bot, age, deq,   (* the three members of Deque                           *)
  pushes,          (* jobs pushed so far                                   *)
  pc,              (* where each worker is in its call                     *)
  local_bot, old_age, job,   (* its local variables                        *)
  got              (* the job its last call has returned, NoJob for nullptr *)

vars == << bot, age, deq, pushes, pc, local_bot, old_age, job, got >>

Init ==
  /\ bot = 0
  /\ age = [ tag |-> 0, top |-> 0 ]
  /\ deq = [ i \in Slots |-> NoJob ]
  /\ pushes = 0
  /\ pc = [ p \in Workers |-> "idle" ]
  /\ local_bot = [ p \in Workers |-> 0 ]
  /\ old_age = [ p \in Workers |-> [ tag |-> 0, top |-> 0 ] ]
  /\ job = [ p \in Workers |-> NoJob ]
  /\ got = [ p \in Workers |-> NoJob ]

Goto(p, from, to) ==
  /\ pc[owner] # "aborted"
  /\ pc[p] = from
  /\ pc' = [ pc EXCEPT ![p] = to ]

locals == << local_bot, old_age, job >>
memory == << bot, age, deq >>

(* A call returns j, and its local variables are gone.                     *)
Returns(p, j) ==
  /\ got' = [ got EXCEPT ![p] = j ]
  /\ local_bot' = [ local_bot EXCEPT ![p] = 0 ]
  /\ old_age' = [ old_age EXCEPT ![p] = [ tag |-> 0, top |-> 0 ] ]
  /\ job' = [ job EXCEPT ![p] = NoJob ]

-----------------------------------------------------------------------------
(* push_bottom: the job is stored, then bot is raised over it.  What it    *)
(* and pop_top return beside the job is a hint for waking workers, without *)
(* effect on the deque: push_bottom's is local_bot = 1.                    *)
PushJob ==
  /\ pushes < MaxPushes
  /\ Goto(owner, "idle", "push")
  /\ deq' = [ deq EXCEPT ![bot] = pushes + 1 ]
  /\ local_bot' = [ local_bot EXCEPT ![owner] = bot + 1 ]
  /\ UNCHANGED << bot, age, pushes, old_age, job, got >>

(* Mutant: the deque is taken to hold one job more.                        *)
PushBotOverfull ==
  /\ Goto(owner, "push", "idle")
  /\ local_bot[owner] # q_size + 1
  /\ bot' = local_bot[owner]
  /\ pushes' = pushes + 1
  /\ Returns(owner, got[owner])
  /\ UNCHANGED << age, deq >>

PushBot ==
  /\ Goto(owner, "push", "idle")
  /\ local_bot[owner] # q_size
  /\ bot' = local_bot[owner]
  /\ pushes' = pushes + 1
  /\ Returns(owner, got[owner])
  /\ UNCHANGED << age, deq >>

(* "scheduler queue overflow": the program is aborted.                     *)
Overflow ==
  /\ Goto(owner, "push", "aborted")
  /\ local_bot[owner] = q_size
  /\ UNCHANGED << memory, pushes, locals, got >>

(* pop_bottom: bot is 0.                                                   *)
PopNone ==
  /\ Goto(owner, "idle", "idle")
  /\ bot = 0
  /\ Returns(owner, NoJob)
  /\ UNCHANGED << memory, pushes >>

(* pop_bottom: bot is lowered over the last job.                           *)
PopLower ==
  /\ Goto(owner, "idle", "pop")
  /\ bot # 0
  /\ bot' = bot - 1
  /\ local_bot' = [ local_bot EXCEPT ![owner] = bot - 1 ]
  /\ UNCHANGED << age, deq, pushes, old_age, job, got >>

(* pop_bottom: the job is beyond what thieves can be after.                *)
PopLast ==
  /\ Goto(owner, "pop", "idle")
  /\ local_bot[owner] > age.top
  /\ Returns(owner, deq[local_bot[owner]])
  /\ UNCHANGED << memory, pushes >>

(* pop_bottom: it is the only one, or gone.                                *)
PopContend ==
  /\ Goto(owner, "pop", "reset")
  /\ ~(local_bot[owner] > age.top)
  /\ old_age' = [ old_age EXCEPT ![owner] = age ]
  /\ job' = [ job EXCEPT ![owner] = deq[local_bot[owner]] ]
  /\ UNCHANGED << memory, pushes, local_bot, got >>

PopReset ==
  /\ Goto(owner, "reset", "swap")
  /\ bot' = 0
  /\ UNCHANGED << age, deq, pushes, locals, got >>

(* Mutant: the tag is not raised.                                          *)
new_ageSameTag == [ tag |-> old_age[owner].tag, top |-> 0 ]

new_age == [ tag |-> (old_age[owner].tag + 1) % TagMod, top |-> 0 ]

(* Mutant: age is stored without being compared.                           *)
PopCasBlind ==
  /\ Goto(owner, "swap", "idle")
  /\ local_bot[owner] = old_age[owner].top
  /\ age' = new_age
  /\ Returns(owner, job[owner])
  /\ UNCHANGED << bot, deq, pushes >>

(* pop_bottom: the compare-and-swap takes the only job.                    *)
PopCas ==
  /\ Goto(owner, "swap", "idle")
  /\ local_bot[owner] = old_age[owner].top
  /\ age = old_age[owner]
  /\ age' = new_age
  /\ Returns(owner, job[owner])
  /\ UNCHANGED << bot, deq, pushes >>

(* pop_bottom: a thief has it; the comparison, if made, has failed.        *)
PopLost ==
  /\ Goto(owner, "swap", "store")
  /\ local_bot[owner] = old_age[owner].top => age # old_age[owner]
  /\ UNCHANGED << memory, pushes, locals, got >>

PopStore ==
  /\ Goto(owner, "store", "idle")
  /\ age' = new_age
  /\ Returns(owner, NoJob)
  /\ UNCHANGED << bot, deq, pushes >>

-----------------------------------------------------------------------------
(* pop_top: its four operations on shared memory.                          *)
TopAge(t) ==
  /\ Goto(t, "idle", "bot")
  /\ old_age' = [ old_age EXCEPT ![t] = age ]
  /\ UNCHANGED << memory, pushes, local_bot, job, got >>

TopBot(t) ==
  /\ Goto(t, "bot", "job")
  /\ bot > old_age[t].top
  /\ UNCHANGED << memory, pushes, locals, got >>

TopNone(t) ==
  /\ Goto(t, "bot", "idle")
  /\ ~(bot > old_age[t].top)
  /\ Returns(t, NoJob)
  /\ UNCHANGED << memory, pushes >>

TopJob(t) ==
  /\ Goto(t, "job", "cas")
  /\ job' = [ job EXCEPT ![t] = deq[old_age[t].top] ]
  /\ UNCHANGED << memory, pushes, local_bot, old_age, got >>

TopCas(t) ==
  /\ Goto(t, "cas", "idle")
  /\ age = old_age[t]
  /\ age' = [ age EXCEPT !.top = @ + 1 ]
  /\ Returns(t, job[t])
  /\ UNCHANGED << bot, deq, pushes >>

TopLost(t) ==
  /\ Goto(t, "cas", "idle")
  /\ age # old_age[t]
  /\ Returns(t, NoJob)
  /\ UNCHANGED << memory, pushes >>

PushBottom == PushJob \/ PushBot \/ Overflow
PopBottom  == \/ PopNone \/ PopLower \/ PopLast \/ PopContend \/ PopReset
              \/ PopCas \/ PopLost \/ PopStore
PopTop(t)  == \/ TopAge(t) \/ TopBot(t) \/ TopNone(t) \/ TopJob(t)
              \/ TopCas(t) \/ TopLost(t)

Next ==
  \/ PushBottom
  \/ PopBottom
  \/ \E t \in Workers : PopTop(t)
  \/ pc[owner] = "aborted" /\ UNCHANGED vars

Spec == Init /\ [][Next]_vars

-----------------------------------------------------------------------------
(* The types of all variables.  bot stays below q_size: no push writes     *)
(* past the end of deq.                                                    *)
TypeOK ==
  /\ bot \in Slots
  /\ age \in Age
  /\ deq \in [Slots -> Jobs \cup {NoJob}]
  /\ pushes \in 0..MaxPushes
  /\ pc \in [Workers -> { "idle", "push", "pop", "reset", "swap", "store",
                          "bot", "job", "cas", "aborted" }]
  /\ local_bot \in [Workers -> 0..q_size]
  /\ old_age \in [Workers -> Age]
  /\ job \in [Workers -> Jobs \cup {NoJob}]
  /\ got \in [Workers -> Jobs \cup {NoJob}]

(* What a thief read before it slept is never there again: each change of  *)
(* age is to a higher tag, or to a higher top under the same tag.          *)
Later(a, b) == a.tag < b.tag \/ (a.tag = b.tag /\ a.top < b.top)
AgeGrows == [][Later(age, age')]_age

(* The end of the jobs in the deque.  A job that pop_bottom is about to    *)
(* take counts until it is taken.                                          *)
End ==
  CASE pc[owner] \in {"pop", "reset", "swap"} -> local_bot[owner] + 1
    [] pc[owner] = "store"                    -> 0
    [] OTHER                                  -> bot

(* What deque d holds from entry top up to, but not including, end.        *)
Held(d, top, end) ==
  IF end > top THEN [ i \in 1..(end - top) |-> d[top + i - 1] ] ELSE << >>

Queue == Held(deq, age.top, End)

JD == INSTANCE JobDeque WITH made <- pushes, queue <- Queue

(* However the calls overlap, every job pushed is returned to one worker   *)
(* only, thieves get the oldest, the owner the youngest, and the owner is  *)
(* told that there is none only when there is none.                        *)
IsDeque == JD!Spec

(* "Returns true if the queue was empty before this push": a push that     *)
(* begins with the queue empty has 1 in local_bot, as it must for true.    *)
FirstTold == [][PushJob /\ Queue = << >> => local_bot'[owner] = 1]_vars
=============================================================================
