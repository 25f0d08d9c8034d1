---------------------------- MODULE RuntimeProofs ----------------------------
(***************************************************************************)
(* Theorems about what runs under parlay's algorithms.  First, how threads *)
(* wait and are woken, for any number of threads, atomics and jobs:        *)
(* Scheduler's counters are those of the threads asleep and finished,      *)
(* shutdown joins no thread that is still to be woken, and no job is lost  *)
(* or run twice; AtomicWait keeps its types and loses no wake-up with the  *)
(* two strategies that have no time limit.  Then that the deque of a       *)
(* worker, of any size and with any number of thieves, is a JobDeque.      *)
(* Last what MCRuntime asks of the sleepers, and of the stack and the      *)
(* loops that ThreadsProofs is about.                                      *)
(***************************************************************************)
EXTENDS MCRuntime, ThreadsProofs

(* Main and the others are at different places: main never sleeps, and     *)
(* only main spawns and shuts down.                                        *)
Both == {"steal", "run", "wake", "bump", "gone"}
MainPlaces == Both \cup {"main", "work", "exit", "spam", "spamwake", "spambump", "join"}
WorkerPlaces == Both \cup {"drop", "loop", "none", "count"} \cup Asleep

PlaceInv ==
  /\ place \in [Threads -> MainPlaces \cup WorkerPlaces]
  /\ place[Main] \in MainPlaces
  /\ \A t \in Sleepers : place[t] \in WorkerPlaces

Awake == {t \in Threads : place[t] \notin Asleep}
Gone == {t \in Sleepers : place[t] = "gone"}

(* The two counters, and what shutdown relies on when it joins.            *)
CountInv ==
  /\ num_awake_workers = Cardinality(Awake)
  /\ num_finished_workers = Cardinality(Gone)
  /\ place[Main] \in {"join", "gone"} => Gone = Sleepers

(* A thread holds a job while it is about to run it, or to wake another    *)
(* before it does.                                                         *)
HoldInv ==
  /\ held \in [Threads -> ToSpawn \cup {NoWork}]
  /\ \A t \in Threads : place[t] = "run" => held[t] # NoWork
  /\ \A t \in Threads : held[t] # NoWork => place[t] \in {"run", "wake", "bump"}

(* No job is in two places, and each that was spawned is in one.           *)
JobInv ==
  /\ main_deque \in Seq(ToSpawn) /\ spawned \subseteq ToSpawn
  /\ \A i, k \in DOMAIN main_deque : main_deque[i] = main_deque[k] => i = k
  /\ \A t, u \in Threads : held[t] # NoWork /\ held[t] = held[u] => t = u
  /\ \A i \in DOMAIN main_deque : \A t \in Threads : main_deque[i] # held[t]
  /\ \A i \in DOMAIN main_deque : main_deque[i] \in spawned \ ran
  /\ \A t \in Threads : held[t] # NoWork => held[t] \in spawned \ ran
  /\ ran \subseteq spawned
  /\ \A j \in spawned : \/ j \in ran
                        \/ \E i \in DOMAIN main_deque : main_deque[i] = j
                        \/ \E t \in Threads : held[t] = j

FlagInv == finished_flag \in BOOLEAN /\ stale \subseteq Threads

IInv == PlaceInv /\ FlagInv /\ CountInv /\ HoldInv /\ JobInv

-----------------------------------------------------------------------------
(* What a step does to places and counters: at most one thread moves, and  *)
(* a counter changes exactly if it falls asleep, rises, or ends.           *)
Still(t) ==
  /\ place[t] \in Asleep <=> place'[t] \in Asleep
  /\ t \in Sleepers => place[t] # "gone" /\ place'[t] # "gone"
  /\ num_awake_workers' = num_awake_workers
  /\ num_finished_workers' = num_finished_workers
Falls(t) ==
  /\ place[t] = "drop" /\ place'[t] = "read"
  /\ num_awake_workers' = num_awake_workers - 1
  /\ num_finished_workers' = num_finished_workers
Rises(t) ==
  /\ place[t] = "rise" /\ place'[t] = "loop"
  /\ num_awake_workers' = num_awake_workers + 1
  /\ num_finished_workers' = num_finished_workers
Ends(t) ==
  /\ place[t] = "count" /\ place'[t] = "gone"
  /\ num_awake_workers' = num_awake_workers
  /\ num_finished_workers' = num_finished_workers + 1
Joined(t) ==
  t = Main /\ place'[Main] \in {"join", "gone"} =>
    \/ place[Main] = "spam" /\ ~(num_finished_workers < num_threads - 1)
    \/ place[Main] = "join"

(* The thread that moves goes from a place of its kind to another.         *)
Moves(t) ==
  /\ \E q : place' = [place EXCEPT ![t] = q]
  /\ place'[t] \in IF t = Main THEN MainPlaces ELSE WorkerPlaces
  /\ Still(t) \/ Falls(t) \/ Rises(t) \/ Ends(t)
  /\ Joined(t)
Stays ==
  /\ place' = place
  /\ num_awake_workers' = num_awake_workers
  /\ num_finished_workers' = num_finished_workers

(* Every step moves one thread so, or none.                                *)
LEMMA EachMove ==
  ASSUME SchedulerAssumption, PlaceInv, FlagInv, [SchedNext]_sched_vars
  PROVE  (Stays \/ \E t \in Threads : Moves(t)) /\ FlagInv'
<1> USE DEF Both, MainPlaces, WorkerPlaces, Asleep
<1>1. Main \in Threads /\ Sleepers \subseteq Threads /\ Main \notin Sleepers
  BY DEF Threads, SchedulerAssumption
<1> DEFINE Goal == (Stays \/ \E t \in Threads : Moves(t)) /\ FlagInv'
<1>s. ASSUME NEW t \in Threads, Step(t)  PROVE Goal
  <2> DEFINE One == Moves(t) /\ FlagInv'
  <2>0. SUFFICES One  OBVIOUS
  <2>k. t = Main \/ t \in Sleepers  BY DEF Threads
  <2> USE DEF PlaceInv, Moves, Joined, Go, FlagInv
  <2>1. ASSUME Drop(t) PROVE One  BY <1>1, <2>1, <2>k DEF Drop, Falls
  <2>2. ASSUME ReadCounter(t) PROVE One  BY <1>1, <2>2, <2>k DEF ReadCounter, Still, counts
  <2>3. ASSUME WakeUp(t) PROVE One  BY <1>1, <2>3, <2>k DEF WakeUp, Still, counts
  <2>4. ASSUME Rise(t) PROVE One  BY <1>1, <2>4, <2>k DEF Rise, Rises
  <2>5. ASSUME Loop(t) PROVE One  BY <1>1, <2>5, <2>k DEF Loop, Still, counts
  <2>6. ASSUME Steal(t) PROVE One  BY <1>1, <2>6, <2>k DEF Steal, AfterSteal, Still, counts
  <2>7. ASSUME GiveUp(t) PROVE One  BY <1>1, <2>7, <2>k DEF GiveUp, Still, counts
  <2>8. ASSUME FoundNone(t) PROVE One  BY <1>1, <2>8, <2>k DEF FoundNone, Still, counts
  <2>9. ASSUME Run(t) PROVE One  BY <1>1, <2>9, <2>k DEF Run, Still, counts
  <2>10. ASSUME Count(t) PROVE One  BY <1>1, <2>10, <2>k DEF Count, Ends
  <2>11. ASSUME WakeAWorker(t) PROVE One  BY <1>1, <2>11, <2>k DEF WakeAWorker, Back, AfterSteal, Still, counts
  <2>12. ASSUME Bump(t) PROVE One  BY <1>1, <2>12, <2>k DEF Bump, Back, AfterSteal, Still, counts
  <2> QED  BY <1>s, <2>1, <2>2, <2>3, <2>4, <2>5, <2>6, <2>7, <2>8, <2>9, <2>10, <2>11, <2>12
           DEF Step, WaitForWork
<1>m. ASSUME Work \/ Shutdown \/ \E j \in ToSpawn : Spawn(j)  PROVE Goal
  <2> DEFINE One == Moves(Main) /\ FlagInv'
  <2>0. SUFFICES One  BY <1>1
  <2> USE DEF PlaceInv, Moves, Joined, Go, FlagInv
  <2>1. ASSUME Work PROVE One  BY <1>1, <2>1 DEF Work, Still, counts
  <2>2. ASSUME NEW j \in ToSpawn, Spawn(j) PROVE One  BY <1>1, <2>2 DEF Spawn, Still, counts
  <2>3. ASSUME SetFinished PROVE One  BY <1>1, <2>3 DEF SetFinished, Still
  <2>4. ASSUME Spam PROVE One  BY <1>1, <2>4 DEF Spam, Still, counts
  <2>5. ASSUME SpamWake PROVE One  BY <1>1, <2>5 DEF SpamWake, Still, counts
  <2>6. ASSUME SpamBump PROVE One  BY <1>1, <2>6 DEF SpamBump, Still, counts
  <2>7. ASSUME Join PROVE One  BY <1>1, <2>7 DEF Join, Still, counts
  <2> QED  BY <1>m, <2>1, <2>2, <2>3, <2>4, <2>5, <2>6, <2>7 DEF Shutdown
<1>u. ASSUME UNCHANGED sched_vars PROVE Goal
  BY <1>u DEF sched_vars, Stays, FlagInv
<1> QED  BY <1>s, <1>m, <1>u DEF SchedNext, Ended

(* Moves keep the places right, and count who sleeps and who is gone.      *)
LEMMA PlacesStay ==
  ASSUME SchedulerAssumption, PlaceInv, [SchedNext]_sched_vars, FlagInv
  PROVE  PlaceInv'
<1>1. Main \in Threads /\ Sleepers \subseteq Threads /\ Main \notin Sleepers
  BY DEF Threads, SchedulerAssumption
<1>2. CASE Stays  BY <1>2 DEF Stays, PlaceInv
<1>3. ASSUME NEW t \in Threads, Moves(t)  PROVE PlaceInv'
  <2>1. t = Main \/ t \in Sleepers  BY DEF Threads
  <2> QED  BY <1>1, <1>3, <2>1 DEF Moves, PlaceInv
<1> QED  BY <1>2, <1>3, EachMove

(* The threads are finitely many, main is one more than the others.       *)
LEMMA Finite ==
  ASSUME SchedulerAssumption
  PROVE  /\ IsFiniteSet(Threads)
         /\ num_threads = Cardinality(Sleepers) + 1
         /\ Cardinality(Sleepers) \in Nat
         /\ \A S \in SUBSET Threads : IsFiniteSet(S) /\ Cardinality(S) \in Nat
<1>1. IsFiniteSet(Threads) /\ num_threads = Cardinality(Sleepers) + 1
  BY FS_AddElement DEF SchedulerAssumption, Threads, num_threads
<1>2. \A S \in SUBSET Threads : IsFiniteSet(S) /\ Cardinality(S) \in Nat
  BY <1>1, FS_Subset, FS_CardinalityType
<1> QED  BY <1>1, <1>2 DEF Threads

(* The invariant of the counters is kept.                                  *)
LEMMA CountsStay ==
  ASSUME SchedulerAssumption, PlaceInv, FlagInv, CountInv, [SchedNext]_sched_vars
  PROVE  CountInv'
<1> USE DEF Awake, Gone
<1>0. Main \in Threads /\ Sleepers \subseteq Threads /\ Main \notin Sleepers
  BY DEF Threads, SchedulerAssumption
<1>1. CASE Stays  BY <1>1 DEF Stays, CountInv
<1>2. ASSUME NEW t \in Threads, Moves(t)  PROVE CountInv'
  <2>1. PICK q : place' = [place EXCEPT ![t] = q]  BY <1>2 DEF Moves
  <2>2. /\ \A u \in Threads : u # t => place'[u] = place[u]
        /\ place'[t] = q
    BY <2>1 DEF PlaceInv
  <2>3. IsFiniteSet(Awake) /\ IsFiniteSet(Gone) /\ Cardinality(Awake) \in Nat /\ Cardinality(Gone) \in Nat
    BY <1>0, Finite
  <2>a. num_awake_workers' = Cardinality(Awake')
    <3>1. CASE Falls(t)
      <4>1. Awake' = Awake \ {t} /\ t \in Awake  BY <3>1, <2>2 DEF Falls, Asleep
      <4> QED  BY <3>1, <4>1, <2>3, FS_RemoveElement DEF Falls, CountInv
    <3>2. CASE Rises(t)
      <4>1. Awake' = Awake \cup {t} /\ t \notin Awake  BY <3>2, <2>2 DEF Rises, Asleep
      <4> QED  BY <3>2, <4>1, <2>3, FS_AddElement DEF Rises, CountInv
    <3>3. CASE Still(t) \/ Ends(t)
      <4>1. Awake' = Awake  BY <3>3, <2>2 DEF Still, Ends, Asleep
      <4> QED  BY <3>3, <4>1 DEF Still, Ends, CountInv
    <3> QED  BY <1>2, <3>1, <3>2, <3>3 DEF Moves
  <2>b. num_finished_workers' = Cardinality(Gone')
    <3>1. CASE Ends(t)
      <4>0. t # Main  BY <3>1 DEF Ends, PlaceInv, MainPlaces, Both
      <4>1. t \in Sleepers  BY <4>0 DEF Threads
      <4>2. Gone' = Gone \cup {t} /\ t \notin Gone  BY <3>1, <4>1, <2>2, <1>0 DEF Ends
      <4>3. Cardinality(Gone \cup {t}) = Cardinality(Gone) + 1  BY <4>2, <2>3, FS_AddElement
      <4>4. num_finished_workers' = Cardinality(Gone) + 1  BY <3>1 DEF Ends, CountInv
      <4> QED  BY <4>2, <4>3, <4>4
    <3>2. CASE Still(t) \/ Falls(t) \/ Rises(t)
      <4>1. Gone' = Gone  BY <3>2, <2>2, <1>0 DEF Still, Falls, Rises
      <4> QED  BY <3>2, <4>1 DEF Still, Falls, Rises, CountInv
    <3> QED  BY <1>2, <3>1, <3>2 DEF Moves
  <2>c. ASSUME place'[Main] \in {"join", "gone"}  PROVE Gone' = Sleepers
    <3>1. CASE t = Main
      <4>1. Gone' = Gone  BY <3>1, <2>2, <1>0
      <4>2. CASE place[Main] = "join"  BY <4>1, <4>2 DEF CountInv
      <4>3. CASE place[Main] = "spam" /\ ~(num_finished_workers < num_threads - 1)
        <5>1. Cardinality(Gone) >= Cardinality(Sleepers)  BY <4>3, <2>3, Finite DEF CountInv
        <5>2. Gone \in SUBSET Sleepers  OBVIOUS
        <5>3. IsFiniteSet(Sleepers)  BY DEF SchedulerAssumption
        <5>4. Cardinality(Gone) <= Cardinality(Sleepers)  BY <5>2, <5>3, FS_Subset
        <5>5. Cardinality(Sleepers) = Cardinality(Gone)  BY <5>1, <5>4, <2>3, Finite
        <5>6. Sleepers = Gone  BY <5>2, <5>3, <5>5, FS_Subset
        <5> QED  BY <4>1, <5>6
      <4> QED  BY <1>2, <2>c, <3>1, <4>2, <4>3 DEF Moves, Joined
    <3>2. CASE t # Main
      <4>1. Gone = Sleepers  BY <3>2, <2>2, <2>c, <1>0 DEF CountInv
      <4>2. t \in Sleepers /\ place[t] = "gone"  BY <3>2, <4>1 DEF Threads
      <4> QED  BY <1>2, <4>2 DEF Moves, Still, Falls, Rises, Ends
    <3> QED  BY <3>1, <3>2
  <2> QED  BY <2>a, <2>b, <2>c DEF CountInv
<1> QED  BY <1>1, <1>2, EachMove

-----------------------------------------------------------------------------
(* e is d without x, which was in it once.                                 *)
Takes(d, x, e) ==
  /\ e \in Seq(ToSpawn) /\ x \in ToSpawn
  /\ \E i \in DOMAIN d : d[i] = x
  /\ \A k \in DOMAIN e : e[k] # x /\ \E i \in DOMAIN d : d[i] = e[k]
  /\ \A i, k \in DOMAIN e : e[i] = e[k] => i = k
  /\ \A i \in DOMAIN d : d[i] = x \/ \E k \in DOMAIN e : e[k] = d[i]

(* A thief takes the front, the owner the back.                            *)
LEMMA EndsTaken ==
  ASSUME NEW d \in Seq(ToSpawn), d # <<>>, \A i, k \in DOMAIN d : d[i] = d[k] => i = k
  PROVE  /\ Takes(d, Head(d), Tail(d))
         /\ Takes(d, d[Len(d)], SubSeq(d, 1, Len(d) - 1))
<1>1. Len(d) \in Nat /\ Len(d) >= 1 /\ DOMAIN d = 1..Len(d)  OBVIOUS
<1>2. \A i \in 1..Len(d) : d[i] \in ToSpawn  OBVIOUS
<1>3. Takes(d, Head(d), Tail(d))
  <2> DEFINE e == Tail(d)
  <2>1. e \in Seq(ToSpawn) /\ Len(e) = Len(d) - 1 /\ DOMAIN e = 1..(Len(d) - 1)  BY <1>1
  <2>2. Head(d) = d[1]  BY <1>1
  <2>3. \A k \in 1..(Len(d) - 1) : e[k] = d[k + 1]  BY <1>1
  <2> HIDE DEF e
  <2>4. \A k \in DOMAIN e : e[k] # d[1] /\ \E i \in DOMAIN d : d[i] = e[k]
    <3>1. ASSUME NEW k \in DOMAIN e
          PROVE e[k] = d[k + 1] /\ k + 1 \in DOMAIN d /\ 1 \in DOMAIN d /\ k + 1 # 1
      BY <1>1, <2>1, <2>3
    <3> QED  BY <3>1
  <2>5. \A i, k \in DOMAIN e : e[i] = e[k] => i = k
    <3>1. ASSUME NEW i \in DOMAIN e, NEW k \in DOMAIN e, e[i] = e[k]  PROVE i = k
      <4>1. i + 1 \in DOMAIN d /\ k + 1 \in DOMAIN d /\ d[i + 1] = d[k + 1]
        BY <1>1, <2>1, <2>3, <3>1
      <4>2. i + 1 = k + 1  BY <4>1
      <4> QED  BY <4>2, <2>1, <1>1
    <3> QED  BY <3>1
  <2>6. ASSUME NEW i \in DOMAIN d  PROVE d[i] = d[1] \/ \E k \in DOMAIN e : e[k] = d[i]
    <3>1. CASE i = 1  BY <3>1
    <3>2. CASE i # 1
      <4>1. i - 1 \in DOMAIN e /\ (i - 1) + 1 = i  BY <3>2, <1>1, <2>1
      <4>2. e[i - 1] = d[i]  BY <4>1, <2>1, <2>3
      <4> QED  BY <4>1, <4>2
    <3> QED  BY <3>1, <3>2
  <2>7. 1 \in DOMAIN d /\ d[1] \in ToSpawn  BY <1>1, <1>2
  <2> QED  BY <2>1, <2>2, <2>4, <2>5, <2>6, <2>7 DEF Takes, e
<1>4. Takes(d, d[Len(d)], SubSeq(d, 1, Len(d) - 1))
  <2> DEFINE e == SubSeq(d, 1, Len(d) - 1)
  <2>1. e \in Seq(ToSpawn) /\ Len(e) = Len(d) - 1 /\ DOMAIN e = 1..(Len(d) - 1)  BY <1>1, <1>2
  <2>2. \A k \in 1..(Len(d) - 1) : e[k] = d[k]  BY <1>1
  <2> HIDE DEF e
  <2>3. \A k \in DOMAIN e : e[k] # d[Len(d)] /\ \E i \in DOMAIN d : d[i] = e[k]
    <3>1. ASSUME NEW k \in DOMAIN e
          PROVE e[k] = d[k] /\ k \in DOMAIN d /\ Len(d) \in DOMAIN d /\ k # Len(d)
      BY <1>1, <2>1, <2>2
    <3> QED  BY <3>1
  <2>4. \A i, k \in DOMAIN e : e[i] = e[k] => i = k
    <3>1. ASSUME NEW i \in DOMAIN e, NEW k \in DOMAIN e, e[i] = e[k]  PROVE i = k
      <4>1. i \in DOMAIN d /\ k \in DOMAIN d /\ d[i] = d[k]  BY <1>1, <2>1, <2>2, <3>1
      <4> QED  BY <4>1
    <3> QED  BY <3>1
  <2>5. ASSUME NEW i \in DOMAIN d  PROVE d[i] = d[Len(d)] \/ \E k \in DOMAIN e : e[k] = d[i]
    <3>1. CASE i = Len(d)  BY <3>1
    <3>2. CASE i # Len(d)
      <4>1. i \in DOMAIN e  BY <3>2, <1>1, <2>1
      <4>2. e[i] = d[i]  BY <4>1, <2>1, <2>2
      <4> QED  BY <4>1, <4>2
    <3> QED  BY <3>1, <3>2
  <2>6. Len(d) \in DOMAIN d /\ d[Len(d)] \in ToSpawn  BY <1>1, <1>2
  <2> QED  BY <2>1, <2>3, <2>4, <2>5, <2>6 DEF Takes, e
<1> QED  BY <1>3, <1>4

(* A thread without a job that takes one out of the deque keeps JobInv.    *)
LEMMA TakingKeeps ==
  ASSUME SchedulerAssumption, JobInv, held \in [Threads -> ToSpawn \cup {NoWork}],
         NEW t \in Threads, held[t] = NoWork,
         NEW x, Takes(main_deque, x, main_deque'), held' = [held EXCEPT ![t] = x],
         UNCHANGED << spawned, ran >>
  PROVE  JobInv'
<1>0. NoWork \notin ToSpawn /\ x # NoWork  BY DEF SchedulerAssumption, Takes
<1>1. /\ held'[t] = x
      /\ \A u \in Threads : u # t => held'[u] = held[u]
  OBVIOUS
<1>2. x \in spawned \ ran /\ \A u \in Threads : held[u] # x
  BY DEF Takes, JobInv
<1>3. \A u, v \in Threads : held'[u] # NoWork /\ held'[u] = held'[v] => u = v
  BY <1>1, <1>2 DEF JobInv
<1>4. \A i \in DOMAIN main_deque' : \A u \in Threads : main_deque'[i] # held'[u]
  BY <1>1 DEF JobInv, Takes
<1>5. \A i \in DOMAIN main_deque' : main_deque'[i] \in spawned \ ran
  BY DEF JobInv, Takes
<1>6. \A u \in Threads : held'[u] # NoWork => held'[u] \in spawned \ ran
  BY <1>1, <1>2 DEF JobInv
<1>7. ASSUME NEW j \in spawned
      PROVE  j \in ran \/ (\E i \in DOMAIN main_deque' : main_deque'[i] = j) \/ \E u \in Threads : held'[u] = j
  <2>1. CASE \E i \in DOMAIN main_deque : main_deque[i] = j  BY <2>1, <1>1 DEF Takes
  <2>2. CASE \E u \in Threads : held[u] = j
    <3>1. PICK u \in Threads : held[u] = j  BY <2>2
    <3>2. j # NoWork  BY <1>0 DEF JobInv
    <3>3. held'[u] = j  BY <1>1, <3>1, <3>2
    <3> QED  BY <3>3
  <2> QED  BY <2>1, <2>2 DEF JobInv
<1> QED  BY <1>3, <1>4, <1>5, <1>6, <1>7 DEF JobInv, Takes

(* A thread that has run its job keeps JobInv.                             *)
LEMMA RunningKeeps ==
  ASSUME SchedulerAssumption, JobInv, held \in [Threads -> ToSpawn \cup {NoWork}],
         NEW t \in Threads, held[t] # NoWork,
         ran' = ran \cup {held[t]}, held' = [held EXCEPT ![t] = NoWork],
         UNCHANGED << spawned, main_deque >>
  PROVE  JobInv'
<1>1. /\ held'[t] = NoWork
      /\ \A u \in Threads : u # t => held'[u] = held[u] /\ held[u] # held[t]
  BY DEF JobInv
<1>2. \A i \in DOMAIN main_deque : main_deque[i] # NoWork
  BY DEF SchedulerAssumption, JobInv
<1>3. ASSUME NEW j \in spawned
      PROVE  j \in ran' \/ (\E i \in DOMAIN main_deque' : main_deque'[i] = j) \/ \E u \in Threads : held'[u] = j
  <2>1. CASE \E u \in Threads : held[u] = j  BY <2>1, <1>1
  <2> QED  BY <2>1 DEF JobInv
<1> QED  BY <1>1, <1>2, <1>3 DEF JobInv

(* Main pushes a job that has not been spawned before.                     *)
LEMMA SpawnKeeps ==
  ASSUME SchedulerAssumption, JobInv,
         NEW j \in ToSpawn \ spawned, main_deque' = Append(main_deque, j), spawned' = spawned \cup {j},
         UNCHANGED << ran, held >>
  PROVE  JobInv'
<1>1. /\ main_deque \in Seq(ToSpawn) /\ main_deque' \in Seq(ToSpawn)
      /\ Len(main_deque) \in Nat /\ Len(main_deque') = Len(main_deque) + 1
      /\ DOMAIN main_deque = 1..Len(main_deque) /\ DOMAIN main_deque' = 1..(Len(main_deque) + 1)
      /\ \A i \in DOMAIN main_deque : main_deque'[i] = main_deque[i]
      /\ main_deque'[Len(main_deque) + 1] = j
  BY DEF JobInv
<1>2. \A i \in DOMAIN main_deque' : i \in DOMAIN main_deque \/ i = Len(main_deque) + 1
  BY <1>1
<1>3. DOMAIN main_deque \subseteq DOMAIN main_deque' /\ Len(main_deque) + 1 \in DOMAIN main_deque'
  BY <1>1
<1>4. \A i \in DOMAIN main_deque : main_deque[i] # j  BY DEF JobInv
<1>5. \A i, k \in DOMAIN main_deque' : main_deque'[i] = main_deque'[k] => i = k
  BY <1>1, <1>2, <1>4 DEF JobInv
<1>6. j # NoWork  BY DEF SchedulerAssumption
<1>7. \A i \in DOMAIN main_deque' : \A t \in Threads : main_deque'[i] # held[t]
  BY <1>1, <1>2, <1>6 DEF JobInv
<1>8. \A i \in DOMAIN main_deque' : main_deque'[i] \in spawned' \ ran
  BY <1>1, <1>2 DEF JobInv
<1>9. \A k \in spawned' : k \in ran \/ (\E i \in DOMAIN main_deque' : main_deque'[i] = k) \/ \E t \in Threads : held[t] = k
  BY <1>1, <1>3 DEF JobInv
<1> QED  BY <1>1, <1>5, <1>7, <1>8, <1>9 DEF JobInv

(* The jobs stay where they should through every step.                     *)
LEMMA JobsStay ==
  ASSUME SchedulerAssumption, PlaceInv, HoldInv, JobInv, [SchedNext]_sched_vars
  PROVE  HoldInv' /\ JobInv'
<1>0. Main \in Threads /\ NoWork \notin ToSpawn
  BY DEF Threads, SchedulerAssumption
<1> DEFINE Goal == HoldInv' /\ JobInv'
<1>w. ASSUME UNCHANGED work  PROVE JobInv'
  BY <1>w DEF JobInv, work
<1>h. ASSUME NEW t \in Threads, NEW q, place' = [place EXCEPT ![t] = q], UNCHANGED work,
             q = "run" => held[t] # NoWork, held[t] # NoWork => q \in {"run", "wake", "bump"}
      PROVE  Goal
  <2>1. \A u \in Threads : place'[u] = IF u = t THEN q ELSE place[u]  BY <1>h DEF PlaceInv
  <2>2. HoldInv'  BY <1>h, <2>1 DEF HoldInv, work
  <2> QED  BY <1>h, <1>w, <2>2
<1>s. ASSUME NEW t \in Threads, Step(t)  PROVE Goal
  <2>1. ASSUME WaitForWork(t) PROVE Goal
    BY <2>1, <1>h DEF WaitForWork, Drop, ReadCounter, WakeUp, Rise, Go, HoldInv
  <2>2. ASSUME Loop(t) \/ GiveUp(t) \/ FoundNone(t) \/ Count(t) PROVE Goal
    BY <2>2, <1>h DEF Loop, GiveUp, FoundNone, Count, Go, HoldInv
  <2>3. ASSUME Steal(t) PROVE Goal
    <3>1. held[t] = NoWork  BY <2>3 DEF Steal, HoldInv
    <3>2. PICK left \in BOOLEAN : place' = [place EXCEPT ![t] = IF left THEN "wake" ELSE AfterSteal(t, held'[t] # NoWork)]
      BY <2>3 DEF Steal
    <3>3. CASE UNCHANGED << main_deque, held >>
      BY <2>3, <3>1, <3>2, <3>3, <1>h DEF Steal, AfterSteal, work
    <3>4. CASE main_deque # <<>> /\ main_deque' = Tail(main_deque) /\ held' = [held EXCEPT ![t] = Head(main_deque)]
      <4>1. Takes(main_deque, Head(main_deque), main_deque')  BY <3>4, EndsTaken DEF JobInv
      <4>2. JobInv'  BY <2>3, <3>1, <3>4, <4>1, TakingKeeps DEF Steal, HoldInv
      <4>3. Head(main_deque) \in ToSpawn  BY <4>1 DEF Takes
      <4>4. held'[t] = Head(main_deque) /\ held'[t] # NoWork  BY <3>4, <4>3, <1>0 DEF HoldInv
      <4>5. place'[t] \in {"wake", "run"}  BY <3>2, <4>4 DEF AfterSteal, PlaceInv
      <4>6. \A u \in Threads : u # t => place'[u] = place[u] /\ held'[u] = held[u]  BY <3>2, <3>4 DEF PlaceInv, HoldInv
      <4>7. held' \in [Threads -> ToSpawn \cup {NoWork}]  BY <3>4, <4>3 DEF HoldInv
      <4> QED  BY <4>2, <4>4, <4>5, <4>6, <4>7 DEF HoldInv
    <3> QED  BY <2>3, <3>3, <3>4 DEF Steal, StealFrom
  <2>4. ASSUME Run(t) PROVE Goal
    <3>1. held[t] # NoWork  BY <2>4 DEF Run, Go, HoldInv
    <3>2. JobInv'  BY <2>4, <3>1, RunningKeeps DEF Run, HoldInv
    <3>3. place'[t] \in {"work", "loop"} /\ \A u \in Threads : u # t => place'[u] = place[u]
      BY <2>4 DEF Run, Go, PlaceInv
    <3>4. held' = [held EXCEPT ![t] = NoWork]  BY <2>4 DEF Run
    <3>5. HoldInv'  BY <3>3, <3>4 DEF HoldInv
    <3> QED  BY <3>2, <3>5
  <2>5. ASSUME WakeAWorker(t) \/ Bump(t) PROVE Goal
    <3>1. PICK q \in {"bump", Back(t)} : place' = [place EXCEPT ![t] = q]  BY <2>5 DEF WakeAWorker, Bump, Go
    <3>2. UNCHANGED work  BY <2>5 DEF WakeAWorker, Bump
    <3>3. q = "run" => held[t] # NoWork  BY <3>1 DEF Back, AfterSteal
    <3>4. held[t] # NoWork => q \in {"run", "wake", "bump"}  BY <3>1 DEF Back, AfterSteal
    <3> QED  BY <3>1, <3>2, <3>3, <3>4, <1>h
  <2> QED  BY <1>s, <2>1, <2>2, <2>3, <2>4, <2>5 DEF Step
<1>j. ASSUME NEW j \in ToSpawn, Spawn(j)  PROVE Goal
  <2>1. JobInv'  BY <1>j, SpawnKeeps DEF Spawn
  <2>2. held[Main] = NoWork  BY <1>j, <1>0 DEF Spawn, HoldInv
  <2>3. \A u \in Threads : place'[u] = place[u] \/ (u = Main /\ place'[u] \in {"wake", "work", "main"})
    BY <1>j DEF Spawn, PlaceInv
  <2>4. HoldInv'  BY <1>j, <2>2, <2>3 DEF Spawn, HoldInv
  <2> QED  BY <2>1, <2>4
<1>m. ASSUME Work  PROVE Goal
  <2>1. held[Main] = NoWork  BY <1>m, <1>0 DEF Work, HoldInv
  <2>2. CASE main_deque # <<>> /\ held' = [held EXCEPT ![Main] = main_deque[Len(main_deque)]]
             /\ main_deque' = SubSeq(main_deque, 1, Len(main_deque) - 1) /\ place' = [place EXCEPT ![Main] = "run"]
    <3>1. Takes(main_deque, main_deque[Len(main_deque)], main_deque')  BY <2>2, EndsTaken DEF JobInv
    <3>2. JobInv'  BY <1>m, <1>0, <2>1, <2>2, <3>1, TakingKeeps DEF Work, HoldInv
    <3>3. main_deque[Len(main_deque)] \in ToSpawn  BY <3>1 DEF Takes
    <3>4. held'[Main] # NoWork /\ place'[Main] = "run"  BY <1>0, <2>2, <3>3 DEF HoldInv, PlaceInv
    <3>5. \A u \in Threads : u # Main => place'[u] = place[u] /\ held'[u] = held[u]  BY <2>2 DEF PlaceInv, HoldInv
    <3>6. held' \in [Threads -> ToSpawn \cup {NoWork}]  BY <2>2, <3>3 DEF HoldInv
    <3> QED  BY <3>2, <3>4, <3>5, <3>6 DEF HoldInv
  <2>3. CASE UNCHANGED << main_deque, held >> /\ \E q \in {"exit", "steal"} : place' = [place EXCEPT ![Main] = q]
    BY <1>m, <1>0, <2>1, <2>3, <1>h DEF Work, work
  <2> QED  BY <1>m, <2>2, <2>3 DEF Work
<1>d. ASSUME Shutdown  PROVE Goal
  <2>1. UNCHANGED work  BY <1>d DEF Shutdown, SetFinished, Spam, SpamWake, SpamBump, Join
  <2>2. held[Main] = NoWork
    BY <1>d, <1>0 DEF Shutdown, SetFinished, Spam, SpamWake, SpamBump, Join, Go, HoldInv
  <2>3. \E q \in {"spam", "spamwake", "join", "spambump", "gone"} : place' = [place EXCEPT ![Main] = q]
    BY <1>d DEF Shutdown, SetFinished, Spam, SpamWake, SpamBump, Join, Go
  <2> QED  BY <1>0, <2>1, <2>2, <2>3, <1>h
<1>u. ASSUME UNCHANGED sched_vars  PROVE Goal
  BY <1>u DEF sched_vars, HoldInv, JobInv
<1> QED  BY <1>s, <1>j, <1>m, <1>d, <1>u DEF SchedNext, Ended

-----------------------------------------------------------------------------
(* At first all threads are counted awake, and there is no job.            *)
LEMMA InitHolds ==
  ASSUME SchedulerAssumption, SchedInit
  PROVE  IInv
<1>1. Main \in Threads /\ Sleepers \subseteq Threads /\ Main \notin Sleepers
  BY DEF Threads, SchedulerAssumption
<1>2. PlaceInv
  BY <1>1 DEF SchedInit, PlaceInv, MainPlaces, WorkerPlaces, Both, Threads
<1>3. FlagInv  BY DEF SchedInit, FlagInv
<1>4. CountInv
  <2>1. Awake = Threads  BY DEF SchedInit, Awake, Asleep
  <2>2. Gone = {}  BY <1>1 DEF SchedInit, Gone
  <2>3. place[Main] = "main"  BY <1>1 DEF SchedInit
  <2> QED  BY <2>1, <2>2, <2>3, FS_EmptySet DEF SchedInit, CountInv, num_threads
<1>5. HoldInv /\ JobInv
  <2>1. held \in [Threads -> ToSpawn \cup {NoWork}] /\ \A t \in Threads : held[t] = NoWork /\ place[t] # "run"
    BY DEF SchedInit
  <2>2. main_deque = <<>> /\ DOMAIN main_deque = {} /\ main_deque \in Seq(ToSpawn)  BY DEF SchedInit
  <2> QED  BY <2>1, <2>2 DEF SchedInit, HoldInv, JobInv
<1> QED  BY <1>2, <1>3, <1>4, <1>5 DEF IInv

(* The parts of the invariant are kept together.                           *)
LEMMA StepKeeps ==
  ASSUME SchedulerAssumption, IInv, [SchedNext]_sched_vars
  PROVE  IInv'
BY EachMove, PlacesStay, CountsStay, JobsStay DEF IInv

(* No thread is counted twice, and main is always awake.                   *)
LEMMA Typed ==
  ASSUME SchedulerAssumption, IInv
  PROVE  SchedTypeOK
<1>1. Main \in Threads /\ Sleepers \subseteq Threads /\ Main \notin Sleepers
  BY DEF Threads, SchedulerAssumption
<1>2. num_awake_workers \in 1..num_threads
  <2>1. Awake \in SUBSET Threads /\ Main \in Awake
    BY <1>1 DEF Awake, IInv, PlaceInv, MainPlaces, Both, Asleep
  <2>2. {Main} \in SUBSET Awake  BY <2>1
  <2>3. IsFiniteSet(Awake) /\ IsFiniteSet(Threads)  BY <2>1, Finite
  <2>4. Cardinality({Main}) <= Cardinality(Awake)  BY <2>2, <2>3, FS_Subset
  <2>5. Cardinality(Awake) <= Cardinality(Threads)  BY <2>1, <2>3, FS_Subset
  <2>6. Cardinality({Main}) = 1  BY FS_Singleton
  <2>7. Cardinality(Awake) \in Nat /\ Cardinality(Threads) \in Nat  BY <2>3, FS_CardinalityType
  <2> QED  BY <2>4, <2>5, <2>6, <2>7 DEF IInv, CountInv, num_threads
<1>3. num_finished_workers \in 0..(num_threads - 1)
  <2>1. Gone \in SUBSET Sleepers  BY DEF Gone
  <2>2. IsFiniteSet(Sleepers)  BY DEF SchedulerAssumption
  <2>3. IsFiniteSet(Gone) /\ Cardinality(Gone) <= Cardinality(Sleepers)  BY <2>1, <2>2, FS_Subset
  <2>4. Cardinality(Gone) \in Nat /\ Cardinality(Sleepers) \in Nat  BY <2>2, <2>3, FS_CardinalityType
  <2> QED  BY <2>3, <2>4, Finite DEF IInv, CountInv
<1> QED
  BY <1>2, <1>3 DEF SchedTypeOK, IInv, PlaceInv, FlagInv, HoldInv, JobInv, MainPlaces, WorkerPlaces, Both

(* One place for each job is what JobsKept counts.                         *)
LEMMA Kept ==
  ASSUME SchedulerAssumption, IInv
  PROVE  JobsKept
<1> SUFFICES ASSUME NEW j \in spawned
             PROVE  Cardinality({i \in DOMAIN main_deque : main_deque[i] = j})
                      + Cardinality({t \in Threads : held[t] = j})
                      + (IF j \in ran THEN 1 ELSE 0) = 1
  BY DEF JobsKept
<1> DEFINE D == {i \in DOMAIN main_deque : main_deque[i] = j}
           T == {t \in Threads : held[t] = j}
<1>0. j # NoWork  BY DEF SchedulerAssumption, IInv, JobInv
<1>1. CASE \E i \in DOMAIN main_deque : main_deque[i] = j
  <2>1. PICK i \in DOMAIN main_deque : main_deque[i] = j  BY <1>1
  <2>2. D = {i}  BY <2>1 DEF IInv, JobInv
  <2>3. T = {} /\ j \notin ran  BY <2>1 DEF IInv, JobInv
  <2>4. Cardinality(D) = 1 /\ Cardinality(T) = 0  BY <2>2, <2>3, FS_Singleton, FS_EmptySet
  <2> QED  BY <2>3, <2>4
<1>2. CASE \E t \in Threads : held[t] = j
  <2>1. PICK t \in Threads : held[t] = j  BY <1>2
  <2>2. T = {t}  BY <2>1, <1>0 DEF IInv, JobInv
  <2>3. D = {} /\ j \notin ran  BY <2>1, <1>0 DEF IInv, JobInv
  <2>4. Cardinality(T) = 1 /\ Cardinality(D) = 0  BY <2>2, <2>3, FS_Singleton, FS_EmptySet
  <2> QED  BY <2>3, <2>4
<1>3. CASE j \in ran
  <2>1. D = {} /\ T = {}  BY <1>0, <1>3 DEF IInv, JobInv
  <2>2. Cardinality(D) = 0 /\ Cardinality(T) = 0  BY <2>1, FS_EmptySet
  <2> QED  BY <1>3, <2>2
<1> QED  BY <1>1, <1>2, <1>3 DEF IInv, JobInv

(* So the invariant holds in every behaviour.                              *)
LEMMA Invariant ==
  ASSUME SchedulerAssumption
  PROVE  SchedSpec => []IInv
<1>1. SchedInit => IInv  BY InitHolds
<1>2. IInv /\ [SchedNext]_sched_vars => IInv'  BY StepKeeps
<1> QED  BY <1>1, <1>2, PTL DEF SchedSpec

(* The types of the scheduler's state: some thread is always counted       *)
(* awake, and never more than there are; no more finish than were started. *)
THEOREM TypeCorrect ==
  ASSUME SchedulerAssumption
  PROVE  SchedSpec => []SchedTypeOK
<1>1. IInv => SchedTypeOK  BY Typed
<1> QED  BY <1>1, Invariant, PTL

(* num_awake_workers is the number of threads outside wait_for_work at any *)
(* moment: wake_up_a_worker, which adds to the wake-up counter only if it  *)
(* is below the number of threads, overlooks no thread that has begun to   *)
(* sleep.                                                                  *)
THEOREM AwakeCounted ==
  ASSUME SchedulerAssumption
  PROVE  SchedSpec => []AwakeExact
<1>1. IInv => AwakeExact  BY DEF IInv, CountInv, AwakeExact, Awake
<1> QED  BY <1>1, Invariant, PTL

(* However jobs are spawned, stolen, and run by threads that fall asleep   *)
(* and wake, each is in one place: none is lost, and none runs twice.      *)
THEOREM NoJobLost ==
  ASSUME SchedulerAssumption
  PROVE  SchedSpec => []JobsKept
<1>1. IInv => JobsKept  BY Kept
<1> QED  BY <1>1, Invariant, PTL

(* The destructor joins threads only once each has left its loop: shutdown *)
(* goes on waking until all have counted themselves finished.              *)
THEOREM JoinsTheFinished ==
  ASSUME SchedulerAssumption
  PROVE  SchedSpec => []JoinSafe
<1>1. IInv => JoinSafe  BY DEF IInv, CountInv, JoinSafe, Gone
<1> QED  BY <1>1, Invariant, PTL
-----------------------------------------------------------------------------
(* AtomicWait.  Where threads get to depends on the strategy.              *)
WaiterStages ==
  IF strategy = "table"
  THEN {"out", "check", "announce", "version", "recheck", "sleep", "asleep"}
  ELSE IF strategy = "direct"
  THEN {"out", "check", "announce", "sleep", "asleep", "leave"}
  ELSE {"out", "check", "lock", "announce", "recheck", "sleep", "asleep",
        "relock", "unlock"}
NotifierStages ==
  IF strategy = "table" THEN {"out", "notify", "exchange", "wake"}
  ELSE IF strategy = "direct" THEN {"out", "notify", "wake"}
  ELSE NotifierPlaces

StageInv ==
  /\ strategy \in Strategies
  /\ stage \in [Parties -> WaiterPlaces \cup NotifierPlaces]
  /\ \A t \in Waiters : stage[t] \in WaiterStages
  /\ \A m \in Notifiers : stage[m] \in NotifierStages

(* Values only grow, so that one read before is not come back to.          *)
ValueInv ==
  /\ value \in [Locations -> Nat]
  /\ at \in [Parties -> Locations]
  /\ old \in [Waiters -> Nat] /\ ver \in [Waiters -> Nat] /\ version \in Nat
  /\ changes \in [Notifiers -> 0 .. MaxChanges]
  /\ \A t \in Waiters : old[t] <= value[at[t]]

(* waiters counts those between announcing and leaving, with the direct    *)
(* strategy; with the others it only tells that there may be some.         *)
Counted == {t \in Waiters : stage[t] \in {"sleep", "asleep", "leave"}}
WaitersInv ==
  IF strategy = "direct" THEN waiters = Cardinality(Counted)
  ELSE waiters = 0 \/ (waiters = 1 /\ Waiters # {})

(* The mutex is held where the code holds it; only "condvar" has one.      *)
Inside == {"announce", "recheck", "sleep", "unlock", "free"}
MutexInv ==
  /\ mutex \in Parties \cup {NoThread}
  /\ strategy = "condvar" =>
       \A p \in Parties : mutex = p <=> stage[p] \in Inside

(* "direct": whoever sleeps on an old value has a notifier on its way,     *)
(* which will find waiters above zero.                                     *)
DirectInv ==
  strategy = "direct" =>
    \A t \in Waiters : stage[t] = "asleep" /\ value[at[t]] # old[t] =>
      \E m \in Notifiers : stage[m] \in {"notify", "wake"} /\ at[m] = at[t]

(* "condvar": whoever goes to sleep is announced, or a notifier has seen   *)
(* the announcement and is to wake all; if the value has changed, the one  *)
(* that changed it has not given up.  To wake, a notifier needs the mutex  *)
(* in between, and gets it when the waiter is asleep.                      *)
Told(S) == \E m \in Notifiers : stage[m] \in S
CondvarInv ==
  strategy = "condvar" =>
    \A t \in Waiters :
      /\ stage[t] \in {"recheck", "sleep"} => waiters # 0 \/ Told({"grab"})
      /\ stage[t] = "asleep" => waiters # 0 \/ Told({"grab", "free", "wake"})
      /\ stage[t] = "sleep" /\ value[at[t]] # old[t] =>
           Told({"notify", "exchange", "grab"})
      /\ stage[t] = "asleep" /\ value[at[t]] # old[t] =>
           Told({"notify", "exchange", "grab", "free", "wake"})

WaitIInv ==
  /\ StageInv /\ ValueInv /\ WaitersInv /\ MutexInv /\ DirectInv /\ CondvarInv

(* Threads stay where their strategy takes them.                           *)
LEMMA StageStep ==
  ASSUME AtomicWaitAssumption, StageInv, [AWNext]_aw_vars
  PROVE  StageInv'
<1>0. Parties = Waiters \cup Notifiers /\ Waiters \cap Notifiers = {}
  BY DEF Parties, AtomicWaitAssumption
<1> USE DEF StageInv, WaiterPlaces, NotifierPlaces, Move
<1>w. ASSUME NEW t \in Waiters, BeginWait(t) \/ WaiterStep(t)  PROVE StageInv'
  <2>1. ASSUME BeginWait(t) PROVE StageInv'  BY <1>0, <2>1 DEF BeginWait, table, WaiterStages, NotifierStages, AfterSleep, Woken
  <2>2. ASSUME Check(t) PROVE StageInv'  BY <1>0, <2>2 DEF Check, table, WaiterStages, NotifierStages, AfterSleep, Woken
  <2>3. ASSUME Lock(t) PROVE StageInv'  BY <1>0, <2>3 DEF Lock, table, WaiterStages, NotifierStages, AfterSleep, Woken
  <2>4. ASSUME Announce(t) PROVE StageInv'  BY <1>0, <2>4 DEF Announce, table, WaiterStages, NotifierStages, AfterSleep, Woken
  <2>5. ASSUME ReadVersion(t) PROVE StageInv'  BY <1>0, <2>5 DEF ReadVersion, table, WaiterStages, NotifierStages, AfterSleep, Woken
  <2>6. ASSUME Recheck(t) PROVE StageInv'  BY <1>0, <2>6 DEF Recheck, table, WaiterStages, NotifierStages, AfterSleep, Woken
  <2>7. ASSUME Sleep(t) PROVE StageInv'  BY <1>0, <2>7 DEF Sleep, table, WaiterStages, NotifierStages, AfterSleep, Woken
  <2>8. ASSUME Timeout(t) PROVE StageInv'  BY <1>0, <2>8 DEF Timeout, table, WaiterStages, NotifierStages, AfterSleep, Woken
  <2>9. ASSUME Unlock(t) PROVE StageInv'  BY <1>0, <2>9 DEF Unlock, table, WaiterStages, NotifierStages, AfterSleep, Woken
  <2>10. ASSUME Leave(t) PROVE StageInv'  BY <1>0, <2>10 DEF Leave, table, WaiterStages, NotifierStages, AfterSleep, Woken
  <2> QED  BY <1>w, <2>1, <2>2, <2>3, <2>4, <2>5, <2>6, <2>7, <2>8, <2>9, <2>10 DEF WaiterStep
<1>n. ASSUME NEW m \in Notifiers, Change(m) \/ NotifierStep(m)  PROVE StageInv'
  <2>1. ASSUME Change(m) PROVE StageInv'  BY <1>0, <2>1 DEF Change, table, WaiterStages, NotifierStages, AfterSleep, Woken
  <2>2. ASSUME Notify(m) PROVE StageInv'  BY <1>0, <2>2 DEF Notify, table, WaiterStages, NotifierStages, AfterSleep, Woken
  <2>3. ASSUME Exchange(m) PROVE StageInv'  BY <1>0, <2>3 DEF Exchange, table, WaiterStages, NotifierStages, AfterSleep, Woken
  <2>4. ASSUME Grab(m) PROVE StageInv'  BY <1>0, <2>4 DEF Grab, table, WaiterStages, NotifierStages, AfterSleep, Woken
  <2>5. ASSUME Free(m) PROVE StageInv'  BY <1>0, <2>5 DEF Free, table, WaiterStages, NotifierStages, AfterSleep, Woken
  <2>6. ASSUME WakeAll(m) PROVE StageInv'  BY <1>0, <2>6 DEF WakeAll, table, WaiterStages, NotifierStages, AfterSleep, Woken
  <2> QED  BY <1>n, <2>1, <2>2, <2>3, <2>4, <2>5, <2>6 DEF NotifierStep
<1>u. ASSUME UNCHANGED aw_vars PROVE StageInv'  BY <1>u DEF aw_vars, table, WaiterStages, NotifierStages, AfterSleep, Woken
<1> QED  BY <1>w, <1>n, <1>u DEF AWNext

(* Values are never below those that waiters have read.                    *)
LEMMA ValueStep ==
  ASSUME AtomicWaitAssumption, ValueInv, [AWNext]_aw_vars
  PROVE  ValueInv'
<1>0. Parties = Waiters \cup Notifiers /\ Waiters \cap Notifiers = {} /\ MaxChanges \in Nat
  BY DEF Parties, AtomicWaitAssumption
<1> USE DEF ValueInv
<1>w. ASSUME NEW t \in Waiters, BeginWait(t) \/ WaiterStep(t)  PROVE ValueInv'
  <2>1. ASSUME BeginWait(t) PROVE ValueInv'  BY <1>0, <2>1 DEF BeginWait, table, waiter
  <2>2. ASSUME Check(t) PROVE ValueInv'  BY <1>0, <2>2 DEF Check, table, waiter
  <2>3. ASSUME Lock(t) PROVE ValueInv'  BY <1>0, <2>3 DEF Lock, table, waiter
  <2>4. ASSUME Announce(t) PROVE ValueInv'  BY <1>0, <2>4 DEF Announce, table, waiter
  <2>5. ASSUME ReadVersion(t) PROVE ValueInv'  BY <1>0, <2>5 DEF ReadVersion, table, waiter
  <2>6. ASSUME Recheck(t) PROVE ValueInv'  BY <1>0, <2>6 DEF Recheck, table, waiter
  <2>7. ASSUME Sleep(t) PROVE ValueInv'  BY <1>0, <2>7 DEF Sleep, table, waiter
  <2>8. ASSUME Timeout(t) PROVE ValueInv'  BY <1>0, <2>8 DEF Timeout, table, waiter
  <2>9. ASSUME Unlock(t) PROVE ValueInv'  BY <1>0, <2>9 DEF Unlock, table, waiter
  <2>10. ASSUME Leave(t) PROVE ValueInv'  BY <1>0, <2>10 DEF Leave, table, waiter
  <2> QED  BY <1>w, <2>1, <2>2, <2>3, <2>4, <2>5, <2>6, <2>7, <2>8, <2>9, <2>10 DEF WaiterStep
<1>n. ASSUME NEW m \in Notifiers, Change(m) \/ NotifierStep(m)  PROVE ValueInv'
  <2>1. ASSUME Change(m) PROVE ValueInv'  BY <1>0, <2>1 DEF Change, table, waiter
  <2>2. ASSUME Notify(m) PROVE ValueInv'  BY <1>0, <2>2 DEF Notify, table, waiter
  <2>3. ASSUME Exchange(m) PROVE ValueInv'  BY <1>0, <2>3 DEF Exchange, table, waiter
  <2>4. ASSUME Grab(m) PROVE ValueInv'  BY <1>0, <2>4 DEF Grab, table, waiter
  <2>5. ASSUME Free(m) PROVE ValueInv'  BY <1>0, <2>5 DEF Free, table, waiter
  <2>6. ASSUME WakeAll(m) PROVE ValueInv'  BY <1>0, <2>6 DEF WakeAll, table, waiter
  <2> QED  BY <1>n, <2>1, <2>2, <2>3, <2>4, <2>5, <2>6 DEF NotifierStep
<1>u. ASSUME UNCHANGED aw_vars PROVE ValueInv'  BY <1>u DEF aw_vars, table, waiter
<1> QED  BY <1>w, <1>n, <1>u DEF AWNext

(* The mutex changes hands only at lock and unlock.                        *)
LEMMA MutexStep ==
  ASSUME AtomicWaitAssumption, StageInv, MutexInv, [AWNext]_aw_vars
  PROVE  MutexInv'
<1>0. Parties = Waiters \cup Notifiers /\ Waiters \cap Notifiers = {} /\ NoThread \notin Parties
  BY DEF Parties, AtomicWaitAssumption
<1> USE DEF StageInv, WaiterPlaces, NotifierPlaces, Move, MutexInv, Inside, WaiterStages, NotifierStages
<1>w. ASSUME NEW t \in Waiters, BeginWait(t) \/ WaiterStep(t)  PROVE MutexInv'
  <2>1. ASSUME BeginWait(t) PROVE MutexInv'  BY <1>0, <2>1 DEF BeginWait, table, AfterSleep, Woken
  <2>2. ASSUME Check(t) PROVE MutexInv'  BY <1>0, <2>2 DEF Check, table, AfterSleep, Woken
  <2>3. ASSUME Lock(t) PROVE MutexInv'  BY <1>0, <2>3 DEF Lock, table, AfterSleep, Woken
  <2>4. ASSUME Announce(t) PROVE MutexInv'  BY <1>0, <2>4 DEF Announce, table, AfterSleep, Woken
  <2>5. ASSUME ReadVersion(t) PROVE MutexInv'  BY <1>0, <2>5 DEF ReadVersion, table, AfterSleep, Woken
  <2>6. ASSUME Recheck(t) PROVE MutexInv'  BY <1>0, <2>6 DEF Recheck, table, AfterSleep, Woken
  <2>7. ASSUME Sleep(t) PROVE MutexInv'  BY <1>0, <2>7 DEF Sleep, table, AfterSleep, Woken
  <2>8. ASSUME Timeout(t) PROVE MutexInv'  BY <1>0, <2>8 DEF Timeout, table, AfterSleep, Woken
  <2>9. ASSUME Unlock(t) PROVE MutexInv'  BY <1>0, <2>9 DEF Unlock, table, AfterSleep, Woken
  <2>10. ASSUME Leave(t) PROVE MutexInv'  BY <1>0, <2>10 DEF Leave, table, AfterSleep, Woken
  <2> QED  BY <1>w, <2>1, <2>2, <2>3, <2>4, <2>5, <2>6, <2>7, <2>8, <2>9, <2>10 DEF WaiterStep
<1>n. ASSUME NEW m \in Notifiers, Change(m) \/ NotifierStep(m)  PROVE MutexInv'
  <2>1. ASSUME Change(m) PROVE MutexInv'  BY <1>0, <2>1 DEF Change, table, AfterSleep, Woken
  <2>2. ASSUME Notify(m) PROVE MutexInv'  BY <1>0, <2>2 DEF Notify, table, AfterSleep, Woken
  <2>3. ASSUME Exchange(m) PROVE MutexInv'  BY <1>0, <2>3 DEF Exchange, table, AfterSleep, Woken
  <2>4. ASSUME Grab(m) PROVE MutexInv'  BY <1>0, <2>4 DEF Grab, table, AfterSleep, Woken
  <2>5. ASSUME Free(m) PROVE MutexInv'  BY <1>0, <2>5 DEF Free, table, AfterSleep, Woken
  <2>6. ASSUME WakeAll(m) PROVE MutexInv'  BY <1>0, <2>6 DEF WakeAll, table, AfterSleep, Woken
  <2> QED  BY <1>n, <2>1, <2>2, <2>3, <2>4, <2>5, <2>6 DEF NotifierStep
<1>u. ASSUME UNCHANGED aw_vars PROVE MutexInv'  BY <1>u DEF aw_vars, table, AfterSleep, Woken
<1> QED  BY <1>w, <1>n, <1>u DEF AWNext

(* With the direct strategy nobody sleeps through the last notification.   *)
LEMMA DirectStep ==
  ASSUME AtomicWaitAssumption, StageInv, ValueInv, WaitersInv, DirectInv, [AWNext]_aw_vars
  PROVE  DirectInv'
<1>0. Parties = Waiters \cup Notifiers /\ Waiters \cap Notifiers = {}
  BY DEF Parties, AtomicWaitAssumption
<1>1. strategy = "direct" /\ waiters = 0 => \A t \in Waiters : stage[t] # "asleep"
  <2>1. SUFFICES ASSUME strategy = "direct", waiters = 0, NEW t \in Counted  PROVE FALSE
    BY DEF Counted
  <2>2. Cardinality(Counted) = 0 /\ Counted \subseteq Waiters  BY <2>1 DEF WaitersInv, Counted
  <2>3. IsFiniteSet(Counted)  BY <2>2, FS_Subset DEF AtomicWaitAssumption
  <2>4. Counted = {}  BY <2>2, <2>3, FS_EmptySet
  <2> QED  BY <2>1, <2>4
<1> USE DEF StageInv, Move, DirectInv, WaiterStages, NotifierStages, ValueInv
<1>w. ASSUME NEW t \in Waiters, BeginWait(t) \/ WaiterStep(t)  PROVE DirectInv'
  <2>1. ASSUME BeginWait(t) PROVE DirectInv'  BY <1>0, <2>1, <1>1 DEF BeginWait, table, waiter, AfterSleep, Woken, Unmoved
  <2>2. ASSUME Check(t) PROVE DirectInv'  BY <1>0, <2>2, <1>1 DEF Check, table, waiter, AfterSleep, Woken, Unmoved
  <2>3. ASSUME Lock(t) PROVE DirectInv'  BY <1>0, <2>3, <1>1 DEF Lock, table, waiter, AfterSleep, Woken, Unmoved
  <2>4. ASSUME Announce(t) PROVE DirectInv'  BY <1>0, <2>4, <1>1 DEF Announce, table, waiter, AfterSleep, Woken, Unmoved
  <2>5. ASSUME ReadVersion(t) PROVE DirectInv'  BY <1>0, <2>5, <1>1 DEF ReadVersion, table, waiter, AfterSleep, Woken, Unmoved
  <2>6. ASSUME Recheck(t) PROVE DirectInv'  BY <1>0, <2>6, <1>1 DEF Recheck, table, waiter, AfterSleep, Woken, Unmoved
  <2>7. ASSUME Sleep(t) PROVE DirectInv'  BY <1>0, <2>7, <1>1 DEF Sleep, table, waiter, AfterSleep, Woken, Unmoved
  <2>8. ASSUME Timeout(t) PROVE DirectInv'  BY <1>0, <2>8, <1>1 DEF Timeout, table, waiter, AfterSleep, Woken, Unmoved
  <2>9. ASSUME Unlock(t) PROVE DirectInv'  BY <1>0, <2>9, <1>1 DEF Unlock, table, waiter, AfterSleep, Woken, Unmoved
  <2>10. ASSUME Leave(t) PROVE DirectInv'  BY <1>0, <2>10, <1>1 DEF Leave, table, waiter, AfterSleep, Woken, Unmoved
  <2> QED  BY <1>w, <2>1, <2>2, <2>3, <2>4, <2>5, <2>6, <2>7, <2>8, <2>9, <2>10 DEF WaiterStep
<1>n. ASSUME NEW m \in Notifiers, Change(m) \/ NotifierStep(m)  PROVE DirectInv'
  <2>1. ASSUME Change(m) PROVE DirectInv'  BY <1>0, <2>1, <1>1 DEF Change, table, waiter, AfterSleep, Woken, Unmoved
  <2>2. ASSUME Notify(m) PROVE DirectInv'  BY <1>0, <2>2, <1>1 DEF Notify, table, waiter, AfterSleep, Woken, Unmoved
  <2>3. ASSUME Exchange(m) PROVE DirectInv'  BY <1>0, <2>3, <1>1 DEF Exchange, table, waiter, AfterSleep, Woken, Unmoved
  <2>4. ASSUME Grab(m) PROVE DirectInv'  BY <1>0, <2>4, <1>1 DEF Grab, table, waiter, AfterSleep, Woken, Unmoved
  <2>5. ASSUME Free(m) PROVE DirectInv'  BY <1>0, <2>5, <1>1 DEF Free, table, waiter, AfterSleep, Woken, Unmoved
  <2>6. ASSUME WakeAll(m) PROVE DirectInv'  BY <1>0, <2>6, <1>1 DEF WakeAll, table, waiter, AfterSleep, Woken, Unmoved
  <2> QED  BY <1>n, <2>1, <2>2, <2>3, <2>4, <2>5, <2>6 DEF NotifierStep
<1>u. ASSUME UNCHANGED aw_vars PROVE DirectInv'  BY <1>u, <1>1 DEF aw_vars, table, waiter, AfterSleep, Woken, Unmoved
<1> QED  BY <1>w, <1>n, <1>u DEF AWNext

(* With the mutex and the condition variable neither.                      *)
LEMMA CondvarStep ==
  ASSUME AtomicWaitAssumption, StageInv, ValueInv, WaitersInv, MutexInv, CondvarInv,
         [AWNext]_aw_vars
  PROVE  CondvarInv'
<1>0. Parties = Waiters \cup Notifiers /\ Waiters \cap Notifiers = {} /\ NoThread \notin Parties
  BY DEF Parties, AtomicWaitAssumption
<1> USE DEF StageInv, Move, CondvarInv, Told, WaiterStages, NotifierStages, ValueInv, MutexInv, Inside
<1>w. ASSUME NEW t \in Waiters, BeginWait(t) \/ WaiterStep(t)  PROVE CondvarInv'
  <2>1. ASSUME BeginWait(t) PROVE CondvarInv'  BY <1>0, <2>1 DEF BeginWait, table, waiter, AfterSleep, Woken, Unmoved
  <2>2. ASSUME Check(t) PROVE CondvarInv'  BY <1>0, <2>2 DEF Check, table, waiter, AfterSleep, Woken, Unmoved
  <2>3. ASSUME Lock(t) PROVE CondvarInv'  BY <1>0, <2>3 DEF Lock, table, waiter, AfterSleep, Woken, Unmoved
  <2>4. ASSUME Announce(t) PROVE CondvarInv'  BY <1>0, <2>4 DEF Announce, table, waiter, AfterSleep, Woken, Unmoved
  <2>5. ASSUME ReadVersion(t) PROVE CondvarInv'  BY <1>0, <2>5 DEF ReadVersion, table, waiter, AfterSleep, Woken, Unmoved
  <2>6. ASSUME Recheck(t) PROVE CondvarInv'  BY <1>0, <2>6 DEF Recheck, table, waiter, AfterSleep, Woken, Unmoved
  <2>7. ASSUME Sleep(t) PROVE CondvarInv'  BY <1>0, <2>7 DEF Sleep, table, waiter, AfterSleep, Woken, Unmoved
  <2>8. ASSUME Timeout(t) PROVE CondvarInv'  BY <1>0, <2>8 DEF Timeout, table, waiter, AfterSleep, Woken, Unmoved
  <2>9. ASSUME Unlock(t) PROVE CondvarInv'  BY <1>0, <2>9 DEF Unlock, table, waiter, AfterSleep, Woken, Unmoved
  <2>10. ASSUME Leave(t) PROVE CondvarInv'  BY <1>0, <2>10 DEF Leave, table, waiter, AfterSleep, Woken, Unmoved
  <2> QED  BY <1>w, <2>1, <2>2, <2>3, <2>4, <2>5, <2>6, <2>7, <2>8, <2>9, <2>10 DEF WaiterStep
<1>n. ASSUME NEW m \in Notifiers, Change(m) \/ NotifierStep(m)  PROVE CondvarInv'
  <2>1. ASSUME Change(m) PROVE CondvarInv'  BY <1>0, <2>1 DEF Change, table, waiter, AfterSleep, Woken, Unmoved
  <2>2. ASSUME Notify(m) PROVE CondvarInv'  BY <1>0, <2>2 DEF Notify, table, waiter, AfterSleep, Woken, Unmoved
  <2>3. ASSUME Exchange(m) PROVE CondvarInv'  BY <1>0, <2>3 DEF Exchange, table, waiter, AfterSleep, Woken, Unmoved
  <2>4. ASSUME Grab(m) PROVE CondvarInv'  BY <1>0, <2>4 DEF Grab, table, waiter, AfterSleep, Woken, Unmoved
  <2>5. ASSUME Free(m) PROVE CondvarInv'  BY <1>0, <2>5 DEF Free, table, waiter, AfterSleep, Woken, Unmoved
  <2>6. ASSUME WakeAll(m) PROVE CondvarInv'  BY <1>0, <2>6 DEF WakeAll, table, waiter, AfterSleep, Woken, Unmoved
  <2> QED  BY <1>n, <2>1, <2>2, <2>3, <2>4, <2>5, <2>6 DEF NotifierStep
<1>u. ASSUME UNCHANGED aw_vars PROVE CondvarInv'  BY <1>u DEF aw_vars, table, waiter, AfterSleep, Woken, Unmoved
<1> QED  BY <1>w, <1>n, <1>u DEF AWNext

(* waiters counts up when a waiter announces itself, down when it leaves,  *)
(* and nothing else changes who is counted.                                *)
LEMMA WaitersStep ==
  ASSUME AtomicWaitAssumption, StageInv, WaitersInv, [AWNext]_aw_vars
  PROVE  WaitersInv'
<1>0. /\ Parties = Waiters \cup Notifiers /\ Waiters \cap Notifiers = {}
      /\ IsFiniteSet(Counted) /\ Counted \subseteq Waiters
      /\ Cardinality(Counted) \in Nat
  BY FS_Subset, FS_CardinalityType DEF Parties, AtomicWaitAssumption, Counted
<1> USE DEF StageInv, WaitersInv, Move, WaiterStages, NotifierStages
<1>1. ASSUME strategy # "direct"  PROVE WaitersInv'
  <2>1. strategy' = strategy  BY <1>1 DEF AWNext, aw_vars, BeginWait, WaiterStep,
    NotifierStep, Change, Check, Lock, Announce, ReadVersion, Recheck, Sleep, Timeout, Unlock, Leave, Notify, Exchange, Grab, Free, WakeAll
  <2> QED  BY <1>0, <1>1, <2>1 DEF AWNext, aw_vars, BeginWait, WaiterStep, NotifierStep, Change,
    table, Check, Lock, Announce, ReadVersion, Recheck, Sleep, Timeout, Unlock, Leave, Notify, Exchange, Grab, Free, WakeAll
<1>2. ASSUME strategy = "direct", Counted' = Counted, UNCHANGED <<strategy, waiters>>
      PROVE  WaitersInv'
  BY <1>2
<1>3. ASSUME NEW t \in Waiters, strategy = "direct", Announce(t)  PROVE WaitersInv'
  <2>1. Counted' = Counted \cup {t} /\ t \notin Counted  BY <1>0, <1>3 DEF Announce, Counted
  <2>2. Cardinality(Counted \cup {t}) = Cardinality(Counted) + 1  BY <1>0, <2>1, FS_AddElement
  <2> QED  BY <1>3, <2>1, <2>2 DEF Announce
<1>4. ASSUME NEW t \in Waiters, strategy = "direct", Leave(t)  PROVE WaitersInv'
  <2>1. Counted' = Counted \ {t} /\ t \in Counted  BY <1>0, <1>4 DEF Leave, Counted
  <2>2. Cardinality(Counted \ {t}) = Cardinality(Counted) - 1  BY <1>0, <2>1, FS_RemoveElement
  <2> QED  BY <1>4, <2>1, <2>2 DEF Leave
<1> DEFINE Same == Counted' = Counted /\ UNCHANGED <<strategy, waiters>>
<1>5. ASSUME NEW t \in Waiters, strategy = "direct", WaiterStep(t) \/ BeginWait(t)
      PROVE  Announce(t) \/ Leave(t) \/ Same
  <2>1. BeginWait(t) => Same  BY <1>0 DEF BeginWait, table, Counted
  <2>2. Check(t) => Same  BY <1>0, <1>5 DEF Check, table, Counted
  <2>3. Sleep(t) => Same  BY <1>0, <1>5 DEF Sleep, AfterSleep, Counted
  <2>4. ~(Lock(t) \/ ReadVersion(t) \/ Recheck(t) \/ Timeout(t) \/ Unlock(t))
    BY <1>0, <1>5 DEF Lock, ReadVersion, Recheck, Timeout, Unlock
  <2> QED  BY <1>5, <2>1, <2>2, <2>3, <2>4 DEF WaiterStep
<1>6. ASSUME NEW m \in Notifiers, strategy = "direct", NotifierStep(m) \/ Change(m)
      PROVE  Same
  <2>1. Change(m) => Same  BY <1>0 DEF Change, table, Counted
  <2>2. Notify(m) => Same  BY <1>0, <1>6 DEF Notify, Counted
  <2>3. WakeAll(m) => Same  BY <1>0, <1>6 DEF WakeAll, table, AfterSleep, Woken, Counted
  <2>4. ~(Exchange(m) \/ Grab(m) \/ Free(m))  BY <1>0, <1>6 DEF Exchange, Grab, Free
  <2> QED  BY <1>6, <2>1, <2>2, <2>3, <2>4 DEF NotifierStep
<1>7. UNCHANGED aw_vars => Same  BY DEF aw_vars, Counted
<1> QED  BY <1>1, <1>2, <1>3, <1>4, <1>5, <1>6, <1>7 DEF AWNext

(* At first nobody waits and nobody notifies.                              *)
LEMMA WaitStarts ==
  ASSUME AtomicWaitAssumption, AWInit
  PROVE  WaitIInv
<1>0. Parties = Waiters \cup Notifiers /\ NoThread \notin Parties /\ MaxChanges \in Nat
  BY DEF Parties, AtomicWaitAssumption
<1>1. StageInv  BY <1>0 DEF AWInit, StageInv, WaiterPlaces, NotifierPlaces, WaiterStages, NotifierStages
<1>2. ValueInv  BY <1>0 DEF AWInit, ValueInv
<1>3. WaitersInv
  <2>1. Counted = {}  BY <1>0 DEF AWInit, Counted
  <2> QED  BY <2>1, FS_EmptySet DEF AWInit, WaitersInv
<1>4. MutexInv  BY <1>0 DEF AWInit, MutexInv, Inside
<1>5. DirectInv /\ CondvarInv  BY <1>0 DEF AWInit, DirectInv, CondvarInv
<1> QED  BY <1>1, <1>2, <1>3, <1>4, <1>5 DEF WaitIInv

(* What holds in every state of AtomicWait.                                *)
LEMMA WaitInvariant ==
  ASSUME AtomicWaitAssumption
  PROVE  AWSpec => []WaitIInv
<1>1. AWInit => WaitIInv  BY WaitStarts
<1>2. WaitIInv /\ [AWNext]_aw_vars => WaitIInv'
  BY StageStep, ValueStep, WaitersStep, MutexStep, DirectStep, CondvarStep DEF WaitIInv
<1> QED  BY <1>1, <1>2, PTL DEF AWSpec

(* The types, with waiters never below zero nor above the waiters there    *)
(* are, whatever the strategy.                                             *)
LEMMA WaitTyped ==
  ASSUME AtomicWaitAssumption, WaitIInv
  PROVE  AWTypeOK
<1>1. /\ IsFiniteSet(Waiters) /\ Counted \subseteq Waiters
      /\ Cardinality(Counted) <= Cardinality(Waiters)
      /\ Cardinality(Counted) \in Nat /\ Cardinality(Waiters) \in Nat
  BY FS_Subset, FS_CardinalityType DEF AtomicWaitAssumption, Counted
<1>2. Waiters # {} => Cardinality(Waiters) >= 1  BY <1>1, FS_EmptySet
<1>3. waiters \in 0 .. Cardinality(Waiters)  BY <1>1, <1>2 DEF WaitIInv, WaitersInv
<1> QED  BY <1>3 DEF WaitIInv, AWTypeOK, StageInv, ValueInv, MutexInv,
         WaiterStages, NotifierStages, WaiterPlaces, NotifierPlaces

(* Whoever sleeps on an old value has a notifier on its way.               *)
LEMMA WakesComing ==
  ASSUME AtomicWaitAssumption, WaitIInv, strategy # "table"
  PROVE  NoLostWake
<1>1. strategy \in {"direct", "condvar"}  BY DEF WaitIInv, StageInv, AtomicWaitAssumption
<1> QED  BY <1>1 DEF NoLostWake, WaitIInv, DirectInv, CondvarInv, Told

(* A futex on the atomic itself, or a condition variable, loses no wake-up *)
(* (atomic_wait.h), for any threads and atomics.  The futex on the version *)
(* can lose one, and of it nothing is said here.                           *)
THEOREM NoWakeLost ==
  ASSUME AtomicWaitAssumption
  PROVE  AWSpec => [](strategy # "table" => NoLostWake)
<1>1. WaitIInv => (strategy # "table" => NoLostWake)  BY WakesComing
<1> QED  BY <1>1, WaitInvariant, PTL
-----------------------------------------------------------------------------
(***************************************************************************)
(* The work-stealing deque: its types, that age only grows, and that it    *)
(* implements JobDeque, for any number of workers and pushes, as long as   *)
(* the tag does not wrap round.                                            *)
(***************************************************************************)
Contending == pc[owner] \in {"reset", "swap", "store"}

(* One past the last entry the owner has not yet given up.                 *)
Bottom ==
  IF pc[owner] = "pop" \/ Contending THEN local_bot[owner] + 1 ELSE bot

(* Where the owner is in its call, and what it knows there.                *)
OwnerInv ==
  /\ Bottom < q_size
  /\ age.tag + Bottom <= pushes
  /\ pc[owner] = "push" => /\ local_bot[owner] = bot + 1
                           /\ deq[bot] = pushes + 1
  /\ pc[owner] \in {"pop", "reset"} => bot = local_bot[owner]
  /\ pc[owner] \in {"swap", "store"} => bot = 0
  /\ Contending => /\ old_age[owner].tag = age.tag
                   /\ old_age[owner].top <= age.top
                   /\ local_bot[owner] <= old_age[owner].top
                   /\ job[owner] = deq[local_bot[owner]]

(* No thief has taken a job beyond the end.                                *)
EndInv == pc[owner] # "store" => age.top <= End

(* A thief has read age at some earlier time; if age is still that, then   *)
(* there is a job, and it is the one the thief has read, if it has.        *)
ThiefInv ==
  \A t \in Workers :
    /\ pc[t] \in {"bot", "job", "cas"} =>
         old_age[t] = age \/ Later(old_age[t], age)
    /\ pc[t] \in {"job", "cas"} =>
         /\ old_age[t].top \in Slots
         /\ old_age[t] = age => age.top < End
    /\ pc[t] = "cas" /\ old_age[t] = age => job[t] = deq[age.top]

DequeInv == TypeOK /\ OwnerInv /\ EndInv /\ ThiefInv

-----------------------------------------------------------------------------
(* What lies between two ends of the array, as a sequence: of queue, Held. *)

(* The jobs held, from top to bot, are a sequence of jobs.                 *)
LEMMA HeldSeq ==
  ASSUME NEW S, NEW d \in [Slots -> S], NEW top \in Nat, NEW end \in Nat,
         top <= end, end <= q_size
  PROVE  /\ Held(d, top, end) \in Seq(S)
         /\ Len(Held(d, top, end)) = end - top
<1>1. CASE end = top
  <2>1. Held(d, top, end) = << >>  BY <1>1 DEF Held
  <2>2. << >> \in Seq(S) /\ Len(<< >>) = 0  BY EmptySeq
  <2> QED  BY <1>1, <2>1, <2>2
<1>2. CASE end > top
  <2> DEFINE h == [ i \in 1..(end - top) |-> d[top + i - 1] ]
  <2>1. Held(d, top, end) = h  BY <1>2 DEF Held
  <2>2. end - top \in Nat  BY <1>2
  <2>3. \A i \in 1..(end - top) : top + i - 1 \in Slots
    BY DequeAssumption DEF Slots
  <2>4. h \in [1..(end - top) -> S]  BY <2>3
  <2> HIDE DEF h
  <2>5. h \in Seq(S)  BY <2>2, <2>4, SeqDef
  <2>6. Len(h) = end - top  BY <2>2, <2>4
  <2> QED  BY <2>1, <2>5, <2>6
<1> QED  BY <1>1, <1>2

(* The i-th job held is the one in the i-th entry from top.                *)
LEMMA HeldEntry ==
  ASSUME NEW d, NEW top \in Nat, NEW end \in Nat, NEW i \in 1..(end - top)
  PROVE  Held(d, top, end)[i] = d[top + i - 1]
<1>1. end > top  OBVIOUS
<1> QED  BY <1>1 DEF Held

(* A job stored at the end lengthens the sequence by that job.             *)
LEMMA HeldAppend ==
  ASSUME NEW S, NEW d \in [Slots -> S], NEW top \in Nat, NEW end \in Nat,
         top <= end, end + 1 <= q_size
  PROVE  Held(d, top, end + 1) = Append(Held(d, top, end), d[end])
<1> DEFINE h == Held(d, top, end)  g == Held(d, top, end + 1)
           a == Append(h, d[end])
<1>0. end + 1 \in Nat /\ top <= end + 1 /\ end <= q_size
  BY DequeAssumption
<1>1. h \in Seq(S) /\ Len(h) = end - top
  BY <1>0, HeldSeq
<1>2. g \in Seq(S) /\ Len(g) = (end + 1) - top
  BY <1>0, HeldSeq
<1>3. d[end] \in S  BY DequeAssumption DEF Slots
<1>4. a \in Seq(S) /\ Len(a) = Len(h) + 1
  BY <1>1, <1>3, AppendProperties
<1>5. Len(g) = Len(a)  BY <1>1, <1>2, <1>4
<1>6. ASSUME NEW i \in 1..Len(g)  PROVE g[i] = a[i]
  <2>0. i \in 1..((end + 1) - top)  BY <1>2
  <2>1. g[i] = d[top + i - 1]  BY <1>0, <2>0, HeldEntry
  <2>2. CASE i \in 1..(end - top)
    <3>1. h[i] = d[top + i - 1]  BY <2>2, HeldEntry
    <3>2. a[i] = h[i]  BY <1>1, <1>3, <2>2, AppendProperties
    <3> QED  BY <2>1, <3>1, <3>2
  <2>3. CASE i = (end - top) + 1
    <3>1. a[i] = d[end]  BY <1>1, <1>3, <2>3, AppendProperties
    <3> QED  BY <2>1, <2>3, <3>1
  <2>4. i \in 1..(end - top) \/ i = (end - top) + 1  BY <2>0
  <2> QED  BY <2>2, <2>3, <2>4
<1>7. g = a  BY <1>2, <1>4, <1>5, <1>6, SeqEqual
<1> QED  BY <1>7

(* Taking from the top is Head and Tail, from the end the last and SubSeq. *)
LEMMA HeldTail ==
  ASSUME NEW S, NEW d \in [Slots -> S], NEW top \in Nat, NEW end \in Nat,
         top < end, end <= q_size
  PROVE  /\ Held(d, top, end) # << >>
         /\ Head(Held(d, top, end)) = d[top]
         /\ Held(d, top + 1, end) = Tail(Held(d, top, end))
<1> DEFINE h == Held(d, top, end)  g == Held(d, top + 1, end)
<1>0. top <= end /\ top + 1 \in Nat /\ top + 1 <= end  OBVIOUS
<1>1. h \in Seq(S) /\ Len(h) = end - top
  BY <1>0, HeldSeq
<1>2. g \in Seq(S) /\ Len(g) = end - (top + 1)
  <2> DEFINE x == top + 1
  <2>1. x \in Nat /\ x <= end  BY <1>0
  <2> HIDE DEF x
  <2>2. Held(d, x, end) \in Seq(S) /\ Len(Held(d, x, end)) = end - x
    BY <2>1, HeldSeq
  <2> QED  BY <2>2 DEF x
<1>3. h # << >>  BY <1>1, EmptySeq
<1>4. Head(h) = d[top]
  <2>1. h[1] = d[top + 1 - 1]  BY HeldEntry
  <2>2. Head(h) = h[1]  BY <1>1, <1>3
  <2> QED  BY <2>1, <2>2
<1>5. Tail(h) \in Seq(S) /\ Len(Tail(h)) = Len(h) - 1
  BY <1>1, <1>3, HeadTailProperties
<1>6. Len(g) = Len(Tail(h))  BY <1>1, <1>2, <1>5
<1>7. ASSUME NEW i \in 1..Len(g)  PROVE g[i] = Tail(h)[i]
  <2>0. i \in 1..(end - (top + 1)) /\ i + 1 \in 1..(end - top)  BY <1>2
  <2>1. g[i] = d[(top + 1) + i - 1]  BY <1>0, <2>0, HeldEntry
  <2>2. h[i+1] = d[top + (i + 1) - 1]  BY <2>0, HeldEntry
  <2>3. Tail(h)[i] = h[i+1]  BY <1>1, <1>3, <1>6, HeadTailProperties
  <2>4. (top + 1) + i - 1 = top + (i + 1) - 1  BY <1>2
  <2> QED  BY <2>1, <2>2, <2>3, <2>4
<1>8. g = Tail(h)  BY <1>2, <1>5, <1>6, <1>7, SeqEqual
<1> QED  BY <1>3, <1>4, <1>8

(* The sequence up to one entry further ends with the job in that entry;   *)
(* without its last job it is the sequence up to the entry.                *)
LEMMA HeldFront ==
  ASSUME NEW S, NEW d \in [Slots -> S], NEW top \in Nat, NEW end \in Nat,
         top <= end, end + 1 <= q_size
  PROVE  LET h == Held(d, top, end + 1) IN
         /\ h # << >>
         /\ h[Len(h)] = d[end]
         /\ Held(d, top, end) = SubSeq(h, 1, Len(h) - 1)
<1> DEFINE h == Held(d, top, end + 1)  g == Held(d, top, end)
           m == Len(h) - 1
<1>0. end + 1 \in Nat /\ top <= end + 1 /\ end <= q_size
  BY DequeAssumption
<1>1. g \in Seq(S) /\ Len(g) = end - top
  BY <1>0, HeldSeq
<1>2. h \in Seq(S) /\ Len(h) = (end + 1) - top
  BY <1>0, HeldSeq
<1>3. h # << >>  BY <1>2, EmptySeq
<1>4. h[Len(h)] = d[end]
  <2>1. h[Len(h)] = d[top + Len(h) - 1]  BY <1>2, HeldEntry
  <2> QED  BY <1>2, <2>1
<1>5. m \in Nat /\ m = Len(g)  BY <1>1, <1>2
<1>6. ASSUME NEW i \in 1..m  PROVE h[i] \in S /\ h[i] = g[i]
  <2>1. h[i] \in S  BY <1>2, <1>5, ElementOfSeq
  <2>0. i \in 1..(end - top) /\ i \in 1..((end + 1) - top)  BY <1>1, <1>5
  <2>2. h[i] = d[top + i - 1]  BY <1>0, <2>0, HeldEntry
  <2>3. g[i] = d[top + i - 1]  BY <2>0, HeldEntry
  <2> QED  BY <2>1, <2>2, <2>3
<1> HIDE DEF h, g, m
<1>7. /\ SubSeq(h, 1, m) \in Seq(S)
      /\ Len(SubSeq(h, 1, m)) = IF 1 <= m THEN m - 1 + 1 ELSE 0
      /\ \A i \in 1..(m - 1 + 1) : SubSeq(h, 1, m)[i] = h[1 + i - 1]
  BY <1>5, <1>6, SubSeqProperties
<1>8. Len(SubSeq(h, 1, m)) = Len(g)  BY <1>5, <1>7
<1>9. ASSUME NEW i \in 1..Len(g)  PROVE g[i] = SubSeq(h, 1, m)[i]
  <2>1. i \in 1..(m - 1 + 1) /\ 1 + i - 1 = i /\ i \in 1..m  BY <1>5
  <2>2. SubSeq(h, 1, m)[i] = h[i]  BY <1>7, <2>1
  <2> QED  BY <1>6, <2>1, <2>2
<1>10. g = SubSeq(h, 1, m)  BY <1>1, <1>7, <1>8, <1>9, SeqEqual
<1> QED  BY <1>3, <1>4, <1>10 DEF h, g, m

-----------------------------------------------------------------------------
(* The invariant, one lemma for each of its parts.                         *)

(* An empty deque satisfies the invariant.                                 *)
LEMMA InitInv == Init => DequeInv
BY DequeAssumption
   DEF Init, DequeInv, TypeOK, OwnerInv, EndInv, ThiefInv, Bottom, End, Contending,
       Slots, Jobs, Age

(* The tag does not wrap: each push is popped in a contest once at most.    *)
LEMMA NewAge ==
  ASSUME DequeInv, Contending
  PROVE  /\ new_age = [ tag |-> age.tag + 1, top |-> 0 ]
         /\ age.tag + 1 \in 0..(TagMod-1)
         /\ new_age \in Age
         /\ Later(age, new_age)
<1> DEFINE x == age.tag + 1
<1>1. x \in Nat /\ x < TagMod /\ TagMod \in Nat
  BY DequeAssumption
     DEF DequeInv, TypeOK, OwnerInv, Bottom, Contending, Age, Slots
<1>2. old_age[owner].tag + 1 = x
  BY DequeAssumption DEF DequeInv, OwnerInv
<1> HIDE DEF x
<1>3. x % TagMod = x  BY <1>1
<1>4. new_age = [ tag |-> x, top |-> 0 ]  BY <1>2, <1>3 DEF new_age
<1>5. new_age \in Age  BY <1>1, <1>4 DEF Age
<1>6. Later(age, new_age)
  BY <1>1, <1>4 DEF x, Later, DequeInv, TypeOK, Age
<1> QED  BY <1>1, <1>4, <1>5, <1>6 DEF x

(* A compare-and-swap that succeeds moves top up by one, and age grows.    *)
LEMMA NextTop ==
  ASSUME DequeInv, NEW t \in Workers, TopCas(t)
  PROVE  /\ age' = [ tag |-> age.tag, top |-> age.top + 1 ]
         /\ age' \in Age
         /\ Later(age, age')
<1>1. age \in Age  BY DEF DequeInv, TypeOK
<1>2. age' = [ age EXCEPT !.top = @ + 1 ]  BY DEF TopCas
<1> QED  BY <1>1, <1>2 DEF Age, Later

(* A pop that loses the contest for the last job finds the deque empty.     *)
LEMMA LostEmpty ==
  ASSUME DequeInv, PopLost  PROVE End <= age.top
<1> USE DequeAssumption
    DEF DequeInv, TypeOK, OwnerInv, Slots, Age, Goto, Contending, End
<1>1. End = local_bot[owner] + 1  BY DEF PopLost
<1>2. local_bot[owner] \in Nat /\ age.top \in Nat  OBVIOUS
<1>3. old_age[owner].top \in Nat /\ old_age[owner] \in Age
  OBVIOUS
<1>4. /\ old_age[owner].tag = age.tag
      /\ old_age[owner].top <= age.top
      /\ local_bot[owner] <= old_age[owner].top
  BY DEF PopLost
<1>5. CASE local_bot[owner] # old_age[owner].top
  BY <1>1, <1>2, <1>3, <1>4, <1>5
<1>6. CASE age # old_age[owner]
  <2>1. old_age[owner].top # age.top
    <3>1. age = [ tag |-> age.tag, top |-> age.top ]  OBVIOUS
    <3>2. old_age[owner] =
            [ tag |-> old_age[owner].tag, top |-> old_age[owner].top ]
      BY <1>3
    <3> QED  BY <1>4, <1>6, <3>1, <3>2
  <2> QED  BY <1>1, <1>2, <1>3, <1>4, <2>1
<1> QED  BY <1>5, <1>6 DEF PopLost

(* bot is never beyond the end of the jobs that are held.                  *)
LEMMA BotBelowEnd ==
  ASSUME DequeInv
  PROVE  bot <= End /\ End \in Nat
<1> USE DequeAssumption DEF DequeInv, TypeOK, OwnerInv, Slots, End
<1>1. bot \in Nat /\ local_bot[owner] \in Nat  OBVIOUS
<1>2. CASE pc[owner] \in {"pop", "reset"}  BY <1>1, <1>2
<1>3. CASE pc[owner] \in {"swap", "store"}  BY <1>1, <1>3
<1>4. CASE pc[owner] \notin {"pop", "reset", "swap", "store"}  BY <1>1, <1>4
<1> QED  BY <1>2, <1>3, <1>4

(* A step of a thief does not move the end of the jobs that are held.      *)
LEMMA EndKept ==
  ASSUME DequeInv, NEW t \in Workers,
         pc[t] \in {"idle", "bot", "job", "cas"},
         pc'[t] \in {"idle", "bot", "job", "cas"},
         \A s \in Workers \ {t} :
            pc'[s] = pc[s] /\ local_bot'[s] = local_bot[s],
         UNCHANGED bot
  PROVE  End' = End
BY DequeAssumption DEF End

(* A step keeps the types.                                                 *)
LEMMA TypeStep ==
  ASSUME DequeInv, Next  PROVE TypeOK'
<1> USE DequeAssumption DEF DequeInv, TypeOK, Slots, Jobs, Age, Goto,
          Returns, locals, memory
<1>1. CASE PushJob  BY <1>1 DEF PushJob
<1>2. CASE PushBot
  <2>1. bot \in Slots /\ pushes + 1 \in Nat /\ deq[bot] = pushes + 1
    BY <1>2 DEF PushBot, OwnerInv
  <2>2. pushes + 1 # NoJob  BY <2>1
  <2>3. deq[bot] \in Jobs \cup {NoJob}  BY <2>1
  <2>4. pushes + 1 \in Jobs  BY <2>1, <2>2, <2>3
  <2>5. pushes' \in 0..MaxPushes  BY <1>2, <2>4 DEF PushBot
  <2>6. bot' \in Slots  BY <1>2 DEF PushBot
  <2> QED  BY <1>2, <2>5, <2>6 DEF PushBot
<1>3. CASE Overflow  BY <1>3 DEF Overflow
<1>4. CASE PopNone  BY <1>4 DEF PopNone
<1>5. CASE PopLower  BY <1>5 DEF PopLower
<1>6. CASE PopLast
  <2>1. local_bot[owner] \in Slots
    BY <1>6 DEF PopLast, OwnerInv, Bottom
  <2>2. deq[local_bot[owner]] \in Jobs \cup {NoJob}  BY <2>1
  <2>3. got' \in [Workers -> Jobs \cup {NoJob}]
    BY <1>6, <2>2 DEF PopLast
  <2>4. /\ pc' \in [Workers -> { "idle", "push", "pop", "reset", "swap", "store",
                                "bot", "job", "cas", "aborted" }]
    BY <1>6 DEF PopLast
  <2>5. /\ local_bot' \in [Workers -> 0..q_size]
        /\ old_age' \in [Workers -> Age]
        /\ job' \in [Workers -> Jobs \cup {NoJob}]
    BY <1>6 DEF PopLast
  <2> QED  BY <1>6, <2>3, <2>4, <2>5 DEF PopLast
<1>7. CASE PopContend  BY <1>7 DEF PopContend, OwnerInv, Bottom
<1>8. CASE PopReset  BY <1>8 DEF PopReset
<1>9. CASE PopCas
  <2>1. Contending  BY <1>9 DEF Contending, PopCas
  <2>2. age' \in Age  BY <1>9, <2>1, NewAge DEF PopCas
  <2>3. /\ bot' \in Slots
        /\ deq' \in [Slots -> Jobs \cup {NoJob}]
        /\ pushes' \in 0..MaxPushes
    BY <1>9 DEF PopCas
  <2>4. pc' \in [Workers -> { "idle", "push", "pop", "reset", "swap", "store",
                             "bot", "job", "cas", "aborted" }]
    BY <1>9 DEF PopCas
  <2>5. /\ local_bot' \in [Workers -> 0..q_size]
        /\ old_age' \in [Workers -> Age]
        /\ job' \in [Workers -> Jobs \cup {NoJob}]
        /\ got' \in [Workers -> Jobs \cup {NoJob}]
    BY <1>9 DEF PopCas
  <2> QED  BY <2>2, <2>3, <2>4, <2>5
<1>10. CASE PopLost  BY <1>10 DEF PopLost
<1>11. CASE PopStore
  <2>1. Contending  BY <1>11 DEF Contending, PopStore
  <2>2. age' \in Age  BY <1>11, <2>1, NewAge DEF PopStore
  <2>3. /\ bot' \in Slots
        /\ deq' \in [Slots -> Jobs \cup {NoJob}]
        /\ pushes' \in 0..MaxPushes
    BY <1>11 DEF PopStore
  <2>4. pc' \in [Workers -> { "idle", "push", "pop", "reset", "swap", "store",
                             "bot", "job", "cas", "aborted" }]
    BY <1>11 DEF PopStore
  <2>5. /\ local_bot' \in [Workers -> 0..q_size]
        /\ old_age' \in [Workers -> Age]
        /\ job' \in [Workers -> Jobs \cup {NoJob}]
        /\ got' \in [Workers -> Jobs \cup {NoJob}]
    BY <1>11 DEF PopStore
  <2> QED  BY <2>2, <2>3, <2>4, <2>5
<1>12. ASSUME NEW t \in Workers, PopTop(t)  PROVE TypeOK'
  <2>1. CASE TopAge(t)  BY <2>1 DEF TopAge
  <2>2. CASE TopBot(t)  BY <2>2 DEF TopBot
  <2>3. CASE TopNone(t)
    <3>1. /\ local_bot' \in [Workers -> 0..q_size]
          /\ old_age' \in [Workers -> Age]
          /\ job' \in [Workers -> Jobs \cup {NoJob}]
          /\ got' \in [Workers -> Jobs \cup {NoJob}]
      BY <2>3 DEF TopNone
    <3> QED  BY <2>3, <3>1 DEF TopNone
  <2>4. CASE TopJob(t)  BY <2>4 DEF TopJob, ThiefInv
  <2>5. CASE TopCas(t)
    <3>1. age' \in Age  BY <2>5, NextTop DEF TopCas
    <3>2. /\ bot' \in Slots
          /\ deq' \in [Slots -> Jobs \cup {NoJob}]
          /\ pushes' \in 0..MaxPushes
      BY <2>5 DEF TopCas
    <3>3. pc' \in [Workers -> { "idle", "push", "pop", "reset", "swap", "store",
                               "bot", "job", "cas", "aborted" }]
      BY <2>5 DEF TopCas
    <3>4. /\ local_bot' \in [Workers -> 0..q_size]
          /\ old_age' \in [Workers -> Age]
          /\ job' \in [Workers -> Jobs \cup {NoJob}]
      BY <2>5 DEF TopCas
    <3>5. got' \in [Workers -> Jobs \cup {NoJob}]
      <4>1. job[t] \in Jobs \cup {NoJob}  OBVIOUS
      <4> QED  BY <2>5, <4>1 DEF TopCas
    <3> QED  BY <3>1, <3>2, <3>3, <3>4, <3>5
  <2>6. CASE TopLost(t)  BY <2>6 DEF TopLost
  <2> QED  BY <1>12, <2>1, <2>2, <2>3, <2>4, <2>5, <2>6 DEF PopTop
<1>13. CASE pc[owner] = "aborted" /\ UNCHANGED vars  BY <1>13 DEF vars
<1> QED
  BY <1>1, <1>2, <1>3, <1>4, <1>5, <1>6, <1>7, <1>8,
     <1>9, <1>10, <1>11, <1>12, <1>13
     DEF Next, PushBottom, PopBottom

(* A step keeps what the program counter of the owner says of bot, top and *)
(* the entries.                                                            *)
LEMMA OwnerStep ==
  ASSUME DequeInv, Next  PROVE OwnerInv'
<1> USE DequeAssumption DEF DequeInv, TypeOK, Slots, Jobs, Age, Goto,
          Returns, locals, memory, OwnerInv, Bottom, Contending, EndInv, End, Later
<1>1. CASE PushJob  BY <1>1 DEF PushJob
<1>2. CASE PushBot
  <2>1. /\ pc[owner] = "push" /\ pc'[owner] = "idle"
        /\ bot' = bot + 1 /\ pushes' = pushes + 1
        /\ UNCHANGED age
        /\ bot \in Nat /\ bot + 1 # q_size /\ pushes \in Nat
        /\ age.tag \in Nat /\ age.top \in Nat
    BY <1>2 DEF PushBot
  <2> HIDE DEF TypeOK, Goto, Returns, Age, Jobs, memory, locals
  <2> QED  BY <2>1
<1>3. CASE Overflow  BY <1>3 DEF Overflow
<1>4. CASE PopNone  BY <1>4 DEF PopNone
<1>5. CASE PopLower
  <2>1. /\ pc[owner] = "idle" /\ pc'[owner] = "pop"
        /\ bot' = bot - 1 /\ local_bot'[owner] = bot - 1
        /\ UNCHANGED << age, pushes >>
        /\ bot \in Nat /\ bot # 0 /\ pushes \in Nat
        /\ age.tag \in Nat /\ age.top \in Nat
    BY <1>5 DEF PopLower
  <2> HIDE DEF TypeOK, Goto, Returns, Age, Jobs, memory, locals
  <2> QED  BY <2>1
<1>6. CASE PopLast  BY <1>6 DEF PopLast
<1>7. CASE PopContend  BY <1>7 DEF PopContend
<1>8. CASE PopReset  BY <1>8 DEF PopReset
<1>9. CASE PopCas
  <2>1. Contending  BY <1>9 DEF PopCas
  <2> QED  BY <1>9, <2>1, NewAge DEF PopCas
<1>10. CASE PopLost  BY <1>10 DEF PopLost
<1>11. CASE PopStore
  <2>1. Contending  BY <1>11 DEF PopStore
  <2>2. /\ pc[owner] = "store" /\ pc'[owner] = "idle"
        /\ UNCHANGED << bot, pushes >>
        /\ age' = new_age
        /\ local_bot[owner] \in Nat /\ pushes \in Nat /\ age.tag \in Nat
    BY <1>11 DEF PopStore
  <2>3. age'.tag = age.tag + 1 /\ age'.top = 0
    <3>1. new_age = [ tag |-> age.tag + 1, top |-> 0 ]  BY <2>1, NewAge
    <3> QED  BY <2>2, <3>1
  <2> HIDE DEF TypeOK, Goto, Returns, Age, Jobs, memory, locals
  <2> QED  BY <2>2, <2>3
<1>12. ASSUME NEW t \in Workers, PopTop(t)  PROVE OwnerInv'
  <2>1. CASE TopAge(t)  BY <2>1 DEF TopAge
  <2>2. CASE TopBot(t)  BY <2>2 DEF TopBot
  <2>3. CASE TopNone(t)  BY <2>3 DEF TopNone
  <2>4. CASE TopJob(t)  BY <2>4 DEF TopJob
  <2>5. CASE TopCas(t)
    <3>1. /\ age'.tag = age.tag /\ age'.top = age.top + 1
          /\ age.top \in Nat
      <4>1. age \in Age /\ age' = [ age EXCEPT !.top = @ + 1 ]
        BY <2>5 DEF TopCas
      <4> HIDE DEF TypeOK, DequeInv, OwnerInv, EndInv, Goto, Returns
      <4> QED  BY <4>1
    <3>2. UNCHANGED << bot, deq, pushes >>  BY <2>5 DEF TopCas
    <3>3. CASE t = owner
      <4>1. pc[owner] = "cas" /\ pc'[owner] = "idle"  BY <2>5, <3>3 DEF TopCas
      <4> QED  BY <3>1, <3>2, <4>1
    <3>4. CASE t # owner
      <4>1. /\ pc'[owner] = pc[owner] /\ local_bot'[owner] = local_bot[owner]
            /\ old_age'[owner] = old_age[owner] /\ job'[owner] = job[owner]
            /\ old_age[owner].top \in Nat
        BY <2>5, <3>4 DEF TopCas
      <4> HIDE DEF TypeOK, Goto, Returns, Jobs, Age
      <4> QED  BY <3>1, <3>2, <4>1
    <3> QED  BY <3>3, <3>4
  <2>6. CASE TopLost(t)  BY <2>6 DEF TopLost
  <2> QED  BY <1>12, <2>1, <2>2, <2>3, <2>4, <2>5, <2>6 DEF PopTop
<1>13. CASE pc[owner] = "aborted" /\ UNCHANGED vars  BY <1>13 DEF vars
<1> QED
  BY <1>1, <1>2, <1>3, <1>4, <1>5, <1>6, <1>7, <1>8,
     <1>9, <1>10, <1>11, <1>12, <1>13
     DEF Next, PushBottom, PopBottom

(* A step keeps top from passing the end, a reset that is under way apart. *)
LEMMA EndStep ==
  ASSUME DequeInv, Next  PROVE EndInv'
<1> USE DequeAssumption DEF DequeInv, TypeOK, Slots, Jobs, Age, Goto,
          Returns, locals, memory, OwnerInv, Bottom, Contending, EndInv, ThiefInv, End
<1>1. CASE PushJob  BY <1>1 DEF PushJob
<1>2. CASE PushBot
  <2>1. /\ pc[owner] = "push" /\ pc'[owner] = "idle"
        /\ bot' = bot + 1 /\ pushes' = pushes + 1
        /\ UNCHANGED age
        /\ bot \in Nat /\ bot + 1 # q_size /\ pushes \in Nat
        /\ age.tag \in Nat /\ age.top \in Nat
    BY <1>2 DEF PushBot
  <2> HIDE DEF TypeOK, Goto, Returns, Age, Jobs, memory, locals
  <2> QED  BY <2>1
<1>3. CASE Overflow  BY <1>3 DEF Overflow
<1>4. CASE PopNone  BY <1>4 DEF PopNone
<1>5. CASE PopLower
  <2>1. /\ pc[owner] = "idle" /\ pc'[owner] = "pop"
        /\ bot' = bot - 1 /\ local_bot'[owner] = bot - 1
        /\ UNCHANGED << age, pushes >>
        /\ bot \in Nat /\ bot # 0 /\ pushes \in Nat
        /\ age.tag \in Nat /\ age.top \in Nat
    BY <1>5 DEF PopLower
  <2> HIDE DEF TypeOK, Goto, Returns, Age, Jobs, memory, locals
  <2> QED  BY <2>1
<1>6. CASE PopLast  BY <1>6 DEF PopLast
<1>7. CASE PopContend  BY <1>7 DEF PopContend
<1>8. CASE PopReset  BY <1>8 DEF PopReset
<1>9. CASE PopCas
  <2>1. Contending  BY <1>9 DEF PopCas
  <2> QED  BY <1>9, <2>1, NewAge DEF PopCas
<1>10. CASE PopLost  BY <1>10 DEF PopLost
<1>11. CASE PopStore
  <2>1. Contending  BY <1>11 DEF PopStore
  <2>2. /\ pc[owner] = "store" /\ pc'[owner] = "idle"
        /\ UNCHANGED << bot, pushes >>
        /\ age' = new_age
        /\ local_bot[owner] \in Nat /\ pushes \in Nat /\ age.tag \in Nat
    BY <1>11 DEF PopStore
  <2>3. age'.tag = age.tag + 1 /\ age'.top = 0
    <3>1. new_age = [ tag |-> age.tag + 1, top |-> 0 ]  BY <2>1, NewAge
    <3> QED  BY <2>2, <3>1
  <2> HIDE DEF TypeOK, Goto, Returns, Age, Jobs, memory, locals
  <2> QED  BY <2>2, <2>3
<1>12. ASSUME NEW t \in Workers, PopTop(t)  PROVE EndInv'
  <2>1. CASE TopAge(t)  BY <2>1 DEF TopAge
  <2>2. CASE TopBot(t)  BY <2>2 DEF TopBot
  <2>3. CASE TopNone(t)  BY <2>3 DEF TopNone
  <2>4. CASE TopJob(t)  BY <2>4 DEF TopJob
  <2>5. CASE TopCas(t)
    <3>1. age.top < End  BY <2>5 DEF TopCas
    <3>2. age'.top = age.top + 1 /\ age.top \in Nat  BY <2>5 DEF TopCas
    <3>3. UNCHANGED bot  BY <2>5 DEF TopCas
    <3>4. pc[t] = "cas" /\ pc'[t] = "idle"  BY <2>5 DEF TopCas
    <3>5. \A s \in Workers \ {t} :
            pc'[s] = pc[s] /\ local_bot'[s] = local_bot[s]
      BY <2>5 DEF TopCas
    <3>6. End' = End  BY <3>3, <3>4, <3>5, EndKept
    <3>7. End \in Nat  BY BotBelowEnd
    <3> HIDE DEF DequeInv, TypeOK, OwnerInv, ThiefInv, End
    <3> QED  BY <3>1, <3>2, <3>6, <3>7
  <2>6. CASE TopLost(t)  BY <2>6 DEF TopLost
  <2> QED  BY <1>12, <2>1, <2>2, <2>3, <2>4, <2>5, <2>6 DEF PopTop
<1>13. CASE pc[owner] = "aborted" /\ UNCHANGED vars  BY <1>13 DEF vars
<1> QED
  BY <1>1, <1>2, <1>3, <1>4, <1>5, <1>6, <1>7, <1>8,
     <1>9, <1>10, <1>11, <1>12, <1>13
     DEF Next, PushBottom, PopBottom

(* A step that leaves age alone, and the job at the top in place, leaves   *)
(* the thieves as they were.                                               *)
LEMMA ThiefKept ==
  ASSUME DequeInv, UNCHANGED age,
         age.top < End => age.top < End' /\ deq'[age.top] = deq[age.top],
         \A t \in Workers :
            pc'[t] \in {"bot", "job", "cas"} =>
              /\ pc'[t] = pc[t] /\ old_age'[t] = old_age[t]
              /\ job'[t] = job[t]
  PROVE  ThiefInv'
BY DEF DequeInv, ThiefInv, Later

(* Once age has moved on, nobody's old_age is age.                         *)
LEMMA AllLate ==
  ASSUME DequeInv, TypeOK', Later(age, age'),
         NEW w \in Workers, pc'[w] = "idle",
         \A t \in Workers \ {w} :
            pc'[t] = pc[t] /\ old_age'[t] = old_age[t]
  PROVE  ThiefInv'
<1> SUFFICES ASSUME NEW t \in Workers, pc'[t] \in {"bot", "job", "cas"}
             PROVE  /\ Later(old_age'[t], age')
                    /\ old_age'[t] # age'
                    /\ pc'[t] \in {"job", "cas"} => old_age'[t].top \in Slots
  BY DEF ThiefInv
<1>1. pc'[t] = pc[t] /\ old_age'[t] = old_age[t]  OBVIOUS
<1>2. old_age[t] \in Age /\ age \in Age /\ age' \in Age
  BY DEF DequeInv, TypeOK
<1>3. old_age[t] = age \/ Later(old_age[t], age)
  BY <1>1 DEF DequeInv, ThiefInv
<1>4. Later(old_age[t], age')  BY <1>2, <1>3 DEF Later, Age
<1>5. old_age[t] # age'  BY <1>2, <1>4 DEF Later, Age
<1>6. pc[t] \in {"job", "cas"} => old_age[t].top \in Slots
  BY DEF DequeInv, ThiefInv
<1> QED  BY <1>1, <1>4, <1>5, <1>6

(* A step keeps what a thief knows of the top it has read: the tag tells   *)
(* if it is stale.                                                         *)
LEMMA ThiefStep ==
  ASSUME DequeInv, Next  PROVE ThiefInv'
<1> USE DequeAssumption DEF DequeInv, TypeOK, Slots, Jobs, Age, Goto,
          Returns, locals, memory, OwnerInv, Bottom, Contending, EndInv, ThiefInv, End, Later
<1>1. CASE PushJob  BY <1>1 DEF PushJob
<1>2. CASE PushBot
  <2>1. UNCHANGED << age, deq >>  BY <1>2 DEF PushBot
  <2>2. age.top < End => age.top < End'
    <3>1. End = bot /\ End' = bot + 1 /\ bot \in Nat /\ age.top \in Nat
      BY <1>2 DEF PushBot
    <3> QED  BY <3>1
  <2>3. \A t \in Workers : pc'[t] \in {"bot", "job", "cas"} =>
          /\ pc'[t] = pc[t] /\ old_age'[t] = old_age[t]
          /\ job'[t] = job[t]
    BY <1>2 DEF PushBot
  <2>4. DequeInv  OBVIOUS
  <2> HIDE DEF DequeInv, ThiefInv, End
  <2> QED  BY <2>1, <2>2, <2>3, <2>4, ThiefKept
<1>3. CASE Overflow
  <2>1. UNCHANGED << age, deq >>  BY <1>3 DEF Overflow
  <2>2. age.top < End => age.top < End'
    <3>1. End' = End  BY <1>3 DEF Overflow
    <3> QED  BY <3>1
  <2>3. \A t \in Workers : pc'[t] \in {"bot", "job", "cas"} =>
          /\ pc'[t] = pc[t] /\ old_age'[t] = old_age[t]
          /\ job'[t] = job[t]
    BY <1>3 DEF Overflow
  <2>4. DequeInv  OBVIOUS
  <2> HIDE DEF DequeInv, ThiefInv, End
  <2> QED  BY <2>1, <2>2, <2>3, <2>4, ThiefKept
<1>4. CASE PopNone
  <2>1. UNCHANGED << age, deq >>  BY <1>4 DEF PopNone
  <2>2. age.top < End => age.top < End'
    <3>1. End' = End  BY <1>4 DEF PopNone
    <3> QED  BY <3>1
  <2>3. \A t \in Workers : pc'[t] \in {"bot", "job", "cas"} =>
          /\ pc'[t] = pc[t] /\ old_age'[t] = old_age[t]
          /\ job'[t] = job[t]
    BY <1>4 DEF PopNone
  <2>4. DequeInv  OBVIOUS
  <2> HIDE DEF DequeInv, ThiefInv, End
  <2> QED  BY <2>1, <2>2, <2>3, <2>4, ThiefKept
<1>5. CASE PopLower
  <2>1. UNCHANGED << age, deq >>  BY <1>5 DEF PopLower
  <2>2. age.top < End => age.top < End'
    <3>1. End' = End  BY <1>5 DEF PopLower
    <3> QED  BY <3>1
  <2>3. \A t \in Workers : pc'[t] \in {"bot", "job", "cas"} =>
          /\ pc'[t] = pc[t] /\ old_age'[t] = old_age[t]
          /\ job'[t] = job[t]
    BY <1>5 DEF PopLower
  <2>4. DequeInv  OBVIOUS
  <2> HIDE DEF DequeInv, ThiefInv, End
  <2> QED  BY <2>1, <2>2, <2>3, <2>4, ThiefKept
<1>6. CASE PopLast
  <2>1. UNCHANGED << age, deq >>  BY <1>6 DEF PopLast
  <2>2. age.top < End => age.top < End'
    BY <1>6 DEF PopLast
  <2>3. \A t \in Workers : pc'[t] \in {"bot", "job", "cas"} =>
          /\ pc'[t] = pc[t] /\ old_age'[t] = old_age[t]
          /\ job'[t] = job[t]
    BY <1>6 DEF PopLast
  <2>4. DequeInv  OBVIOUS
  <2> HIDE DEF DequeInv, ThiefInv, End
  <2> QED  BY <2>1, <2>2, <2>3, <2>4, ThiefKept
<1>7. CASE PopContend
  <2>1. UNCHANGED << age, deq >>  BY <1>7 DEF PopContend
  <2>2. age.top < End => age.top < End'
    <3>1. End' = End  BY <1>7 DEF PopContend
    <3> QED  BY <3>1
  <2>3. \A t \in Workers : pc'[t] \in {"bot", "job", "cas"} =>
          /\ pc'[t] = pc[t] /\ old_age'[t] = old_age[t]
          /\ job'[t] = job[t]
    BY <1>7 DEF PopContend
  <2>4. DequeInv  OBVIOUS
  <2> HIDE DEF DequeInv, ThiefInv, End
  <2> QED  BY <2>1, <2>2, <2>3, <2>4, ThiefKept
<1>8. CASE PopReset
  <2>1. UNCHANGED << age, deq >>  BY <1>8 DEF PopReset
  <2>2. age.top < End => age.top < End'
    <3>1. End' = End  BY <1>8 DEF PopReset
    <3> QED  BY <3>1
  <2>3. \A t \in Workers : pc'[t] \in {"bot", "job", "cas"} =>
          /\ pc'[t] = pc[t] /\ old_age'[t] = old_age[t]
          /\ job'[t] = job[t]
    BY <1>8 DEF PopReset
  <2>4. DequeInv  OBVIOUS
  <2> HIDE DEF DequeInv, ThiefInv, End
  <2> QED  BY <2>1, <2>2, <2>3, <2>4, ThiefKept
<1>9. CASE PopCas
  <2>1. Later(age, age')
    <3>1. Contending  BY <1>9 DEF PopCas
    <3>2. age' = new_age  BY <1>9 DEF PopCas
    <3> QED  BY <3>1, <3>2, NewAge
  <2>2. /\ pc'[owner] = "idle"
        /\ \A t \in Workers \ {owner} :
             pc'[t] = pc[t] /\ old_age'[t] = old_age[t]
    BY <1>9 DEF PopCas
  <2>3. DequeInv /\ TypeOK'  BY TypeStep
  <2>4. owner \in Workers  OBVIOUS
  <2> HIDE DEF DequeInv, TypeOK, ThiefInv, Later
  <2> QED  BY <2>1, <2>2, <2>3, <2>4, AllLate
<1>10. CASE PopLost
  <2>1. UNCHANGED << age, deq >>  BY <1>10 DEF PopLost
  <2>2. age.top < End => age.top < End'
    <3>1. End <= age.top  BY <1>10, LostEmpty
    <3>2. End \in Nat /\ age.top \in Nat  BY <1>10 DEF PopLost
    <3> QED  BY <3>1, <3>2
  <2>3. \A t \in Workers : pc'[t] \in {"bot", "job", "cas"} =>
          /\ pc'[t] = pc[t] /\ old_age'[t] = old_age[t]
          /\ job'[t] = job[t]
    BY <1>10 DEF PopLost
  <2>4. DequeInv  OBVIOUS
  <2> HIDE DEF DequeInv, ThiefInv, End
  <2> QED  BY <2>1, <2>2, <2>3, <2>4, ThiefKept
<1>11. CASE PopStore
  <2>1. Later(age, age')
    <3>1. Contending  BY <1>11 DEF PopStore
    <3>2. age' = new_age  BY <1>11 DEF PopStore
    <3> QED  BY <3>1, <3>2, NewAge
  <2>2. /\ pc'[owner] = "idle"
        /\ \A t \in Workers \ {owner} :
             pc'[t] = pc[t] /\ old_age'[t] = old_age[t]
    BY <1>11 DEF PopStore
  <2>3. DequeInv /\ TypeOK'  BY TypeStep
  <2>4. owner \in Workers  OBVIOUS
  <2> HIDE DEF DequeInv, TypeOK, ThiefInv, Later
  <2> QED  BY <2>1, <2>2, <2>3, <2>4, AllLate
<1>12. ASSUME NEW t \in Workers, PopTop(t)  PROVE ThiefInv'
  <2>1. CASE TopAge(t)  BY <2>1 DEF TopAge
  <2>2. CASE TopBot(t)
    <3>1. UNCHANGED << age, old_age, deq, job, bot, local_bot >>
      BY <2>2 DEF TopBot
    <3>2. End' = End /\ bot <= End /\ End \in Nat
      <4>1. pc[owner] = pc'[owner] \/ (pc[owner] = "bot" /\ pc'[owner] = "job")
        BY <2>2 DEF TopBot
      <4>2. End' = End  BY <3>1, <4>1
      <4>3. bot <= End /\ End \in Nat  BY BotBelowEnd
      <4> QED  BY <4>2, <4>3
    <3>3. bot > old_age[t].top /\ old_age[t].top \in Slots
      <4>1. old_age[t].top \in Nat /\ bot \in Slots  OBVIOUS
      <4>2. bot > old_age[t].top  BY <2>2 DEF TopBot
      <4> QED  BY <4>1, <4>2
    <3>4. pc'[t] = "job" /\ pc[t] = "bot"  BY <2>2 DEF TopBot
    <3>5. \A s \in Workers \ {t} : pc'[s] = pc[s]  BY <2>2 DEF TopBot
    <3>6. old_age[t] = age => age.top < End
      <4>1. bot \in Nat /\ age.top \in Nat  OBVIOUS
      <4> HIDE DEF DequeInv, TypeOK, OwnerInv, EndInv, ThiefInv, End
      <4> QED  BY <3>2, <3>3, <4>1
    <3> SUFFICES ASSUME NEW s \in Workers
                 PROVE  /\ pc'[s] \in {"bot", "job", "cas"} =>
                              old_age[s] = age \/ Later(old_age[s], age)
                        /\ pc'[s] \in {"job", "cas"} =>
                              /\ old_age[s].top \in Slots
                              /\ old_age[s] = age => age.top < End
                        /\ pc'[s] = "cas" /\ old_age[s] = age =>
                              job[s] = deq[age.top]
      BY <3>1, <3>2
    <3>7. CASE s = t
      <4>1. old_age[t] = age \/ Later(old_age[t], age)  BY <3>4
      <4> QED  BY <3>3, <3>4, <3>6, <3>7, <4>1
    <3>8. CASE s # t  BY <3>5, <3>8
    <3> QED  BY <3>7, <3>8
  <2>3. CASE TopNone(t)  BY <2>3 DEF TopNone
  <2>4. CASE TopJob(t)  BY <2>4 DEF TopJob
  <2>5. CASE TopCas(t)
    <3>1. Later(age, age')  BY <2>5, NextTop
    <3>2. /\ pc'[t] = "idle"
          /\ \A s \in Workers \ {t} :
               pc'[s] = pc[s] /\ old_age'[s] = old_age[s]
      BY <2>5 DEF TopCas
    <3>3. DequeInv /\ TypeOK'  BY TypeStep
    <3> HIDE DEF DequeInv, TypeOK, ThiefInv, Later
    <3> QED  BY <3>1, <3>2, <3>3, AllLate
  <2>6. CASE TopLost(t)  BY <2>6 DEF TopLost
  <2> QED  BY <1>12, <2>1, <2>2, <2>3, <2>4, <2>5, <2>6 DEF PopTop
<1>13. CASE pc[owner] = "aborted" /\ UNCHANGED vars  BY <1>13 DEF vars
<1> QED
  BY <1>1, <1>2, <1>3, <1>4, <1>5, <1>6, <1>7, <1>8,
     <1>9, <1>10, <1>11, <1>12, <1>13
     DEF Next, PushBottom, PopBottom

(* The strengthened invariant holds in all reachable states.               *)
LEMMA Invariance == Spec => []DequeInv
<1>1. DequeInv /\ Next => DequeInv'
  BY TypeStep, OwnerStep, EndStep, ThiefStep DEF DequeInv
<1>2. DequeInv /\ UNCHANGED vars => DequeInv'
  BY DEF vars, DequeInv, TypeOK, OwnerInv, EndInv, ThiefInv, Bottom, Contending, End,
         Later
<1> QED  BY InitInv, <1>1, <1>2, PTL DEF Spec

(* Type correctness, of a deque of any size: no push writes past its end,  *)
(* and no thief reads there.                                               *)
THEOREM DequeTypeCorrect == Spec => []TypeOK
BY Invariance, PTL DEF DequeInv

-----------------------------------------------------------------------------
(* The age of the deque grows with each change, so that an age read before *)
(* a change, by a thief however slow, is never current again.              *)
THEOREM AgeNeverReturns == Spec => AgeGrows
<1>1. DequeInv /\ [Next]_vars => [Later(age, age')]_age
  <2> SUFFICES ASSUME DequeInv, Next  PROVE age' = age \/ Later(age, age')
    BY DEF vars
  <2>1. CASE PopCas \/ PopStore
    <3>1. Contending  BY <2>1 DEF PopCas, PopStore, Contending, Goto
    <3>2. age' = new_age  BY <2>1 DEF PopCas, PopStore
    <3> QED  BY <3>1, <3>2, NewAge
  <2>2. CASE \E t \in Workers : TopCas(t)  BY <2>2, NextTop
  <2> QED
    BY <2>1, <2>2
       DEF Next, PushBottom, PopBottom, PopTop, vars, memory, PushJob, PushBot,
           Overflow, PopNone, PopLower, PopLast, PopContend, PopReset, PopLost,
           TopAge, TopBot, TopNone, TopJob, TopLost
<1> QED  BY Invariance, <1>1, PTL DEF Spec, AgeGrows

-----------------------------------------------------------------------------
(* The refinement: what each step is to JobDeque.                          *)

(* What is certain of the two ends whenever the deque is not mid-pop.      *)
LEMMA DequeEnds ==
  ASSUME DequeInv
  PROVE  /\ deq \in [Slots -> Jobs \cup {NoJob}]
         /\ age.top \in Nat
         /\ End \in Nat /\ End < q_size
         /\ pc[owner] # "store" => age.top <= End
<1>1. End \in Nat  BY BotBelowEnd
<1>2. End < q_size
  BY DequeAssumption
     DEF DequeInv, TypeOK, OwnerInv, Bottom, Contending, End, Slots
<1> QED  BY <1>1, <1>2 DEF DequeInv, TypeOK, EndInv, Age

(* Most steps leave the deque's contents as they are.                      *)
LEMMA QueueKept ==
  ASSUME UNCHANGED << age, deq >>, End' = End
  PROVE  Queue' = Queue
BY DEF Queue, Held

(* Publishing bot is a Push of the abstract deque.                         *)
LEMMA PushStep ==
  ASSUME DequeInv, PushBot  PROVE JD!Push
<1> USE DEF PushBot, Goto, Returns, DequeInv, TypeOK
<1>1. End = bot /\ End' = bot + 1 /\ age.top <= bot
  BY DequeAssumption DEF End, EndInv, OwnerInv
<1>2. bot + 1 <= q_size /\ bot \in Nat /\ age.top \in Nat
  BY DequeAssumption DEF Slots, Age
<1>3. deq[bot] = pushes + 1 /\ UNCHANGED << age, deq >>  BY DEF OwnerInv
<1>4. Held(deq, age.top, bot + 1) = Append(Held(deq, age.top, bot), deq[bot])
  BY <1>1, <1>2, HeldAppend
<1>5. Queue' = Append(Queue, pushes + 1)
  <2>1. Queue' = Held(deq, age.top, bot + 1)  BY <1>1, <1>3 DEF Queue
  <2> QED  BY <1>1, <1>3, <1>4, <2>1 DEF Queue
<1>6. got' = got  OBVIOUS
<1> QED  BY <1>5, <1>6 DEF JD!Push

(* Taking a job that no thief can reach is a Pop of the abstract deque.    *)
LEMMA PopLastStep ==
  ASSUME DequeInv, PopLast  PROVE JD!Pop
<1> DEFINE b == local_bot[owner]
<1>1. End = b + 1 /\ End' = b /\ b > age.top
  <2>1. bot' = b  BY DEF PopLast, Goto, memory, DequeInv, OwnerInv
  <2>2. pc'[owner] = "idle"
    BY DequeAssumption DEF PopLast, Goto, DequeInv, TypeOK
  <2> QED  BY <2>1, <2>2 DEF PopLast, Goto, End
<1>2. /\ b \in Nat /\ age.top \in Nat /\ age.top <= b /\ b + 1 <= q_size
      /\ deq \in [Slots -> Jobs \cup {NoJob}]
  BY <1>1, DequeAssumption, DequeEnds DEF DequeInv, TypeOK
<1>3. UNCHANGED << age, deq, pushes >>  BY DEF PopLast, memory
<1>4. got' = [ got EXCEPT ![owner] = deq[b] ]  BY DEF PopLast, Returns
<1> HIDE DEF b
<1>5. LET h == Held(deq, age.top, b + 1) IN
      /\ h # << >>
      /\ h[Len(h)] = deq[b]
      /\ Held(deq, age.top, b) = SubSeq(h, 1, Len(h) - 1)
  BY <1>2, HeldFront
<1>6. Queue = Held(deq, age.top, b + 1)  BY <1>1 DEF Queue
<1>7. Queue' = Held(deq, age.top, b)  BY <1>1, <1>3 DEF Queue
<1>8. Queue # << >> /\ Queue[Len(Queue)] = deq[b]  BY <1>5, <1>6
<1>9. Queue' = SubSeq(Queue, 1, Len(Queue) - 1)  BY <1>5, <1>6, <1>7
<1> QED  BY <1>3, <1>4, <1>8, <1>9 DEF JD!Pop

(* Taking the last job by compare-and-swap is a Pop of the abstract deque. *)
LEMMA PopCasStep ==
  ASSUME DequeInv, PopCas  PROVE JD!Pop
<1> DEFINE b == local_bot[owner]
<1>1. End = b + 1 /\ b = age.top /\ job[owner] = deq[b]
  BY DEF PopCas, Goto, End, DequeInv, OwnerInv, Contending
<1>2. /\ b \in Nat /\ b <= b /\ b + 1 <= q_size
      /\ deq \in [Slots -> Jobs \cup {NoJob}]
  BY <1>1, DequeAssumption, DequeEnds
<1>3. UNCHANGED << bot, deq, pushes >>  BY DEF PopCas
<1>4. got' = [ got EXCEPT ![owner] = deq[b] ]  BY <1>1 DEF PopCas, Returns
<1>5. End' = 0 /\ age'.top = 0
  <2>1. bot' = 0  BY <1>3 DEF PopCas, Goto, DequeInv, OwnerInv
  <2>2. pc'[owner] = "idle"
    BY DequeAssumption DEF PopCas, Goto, DequeInv, TypeOK
  <2>3. age' = new_age  BY DEF PopCas
  <2> QED  BY <2>1, <2>2, <2>3 DEF End, new_age
<1> HIDE DEF b
<1>6. LET h == Held(deq, b, b + 1) IN
      /\ h # << >>
      /\ h[Len(h)] = deq[b]
      /\ Held(deq, b, b) = SubSeq(h, 1, Len(h) - 1)
  BY <1>2, HeldFront
<1>7. Queue = Held(deq, b, b + 1)  BY <1>1 DEF Queue
<1>8. Queue' = << >> /\ Held(deq, b, b) = << >>
  BY <1>2, <1>5 DEF Queue, Held
<1>9. Queue # << >> /\ Queue[Len(Queue)] = deq[b]  BY <1>6, <1>7
<1>10. Queue' = SubSeq(Queue, 1, Len(Queue) - 1)  BY <1>6, <1>7, <1>8
<1> QED  BY <1>3, <1>4, <1>9, <1>10 DEF JD!Pop

(* A thief's compare-and-swap that succeeds is a PopTop.                   *)
LEMMA StealStep ==
  ASSUME DequeInv, NEW t \in Workers, TopCas(t)  PROVE JD!Steal(t)
<1>1. age.top < End
  BY DEF TopCas, Goto, DequeInv, ThiefInv
<1>2. job[t] = deq[age.top]
  BY DEF TopCas, Goto, DequeInv, ThiefInv
<1>3. /\ age.top \in Nat /\ End \in Nat /\ End <= q_size
      /\ deq \in [Slots -> Jobs \cup {NoJob}]
  BY DequeEnds, DequeAssumption
<1>4. age'.top = age.top + 1  BY NextTop
<1>5. UNCHANGED << bot, deq, pushes >>  BY DEF TopCas
<1>6. End' = End
  <2>1. pc[t] = "cas" /\ pc'[t] = "idle"
    BY DEF TopCas, Goto, DequeInv, TypeOK
  <2>2. \A s \in Workers \ {t} :
          pc'[s] = pc[s] /\ local_bot'[s] = local_bot[s]
    BY DEF TopCas, Goto, Returns, DequeInv, TypeOK
  <2> QED  BY <1>5, <2>1, <2>2, EndKept
<1>7. /\ Queue # << >>
      /\ Head(Queue) = deq[age.top]
      /\ Held(deq, age.top + 1, End) = Tail(Queue)
  BY <1>1, <1>3, HeldTail DEF Queue
<1>8. Queue' = Tail(Queue)  BY <1>4, <1>5, <1>6, <1>7 DEF Queue
<1>9. got' = [ got EXCEPT ![t] = Head(Queue) ]
  BY <1>2, <1>7 DEF TopCas, Returns
<1> QED  BY <1>5, <1>7, <1>8, <1>9 DEF JD!Steal

(* A pop that fails finds the deque empty, and leaves it so.               *)
LEMMA PopNothingStep ==
  ASSUME DequeInv, PopNone \/ PopStore  PROVE JD!PopNothing
<1>1. CASE PopNone
  <2>1. End = 0 /\ End' = End  BY <1>1 DEF PopNone, Goto, memory, End
  <2>2. age.top \in Nat /\ UNCHANGED << age, deq, pushes >>
    BY <1>1, DequeEnds DEF PopNone, memory
  <2>3. Queue = << >> /\ Queue' = Queue
    BY <2>1, <2>2 DEF Queue, Held
  <2> QED  BY <1>1, <2>2, <2>3 DEF PopNone, Returns, JD!PopNothing
<1>2. CASE PopStore
  <2>1. End = 0  BY <1>2 DEF PopStore, Goto, End
  <2>2. bot' = 0  BY <1>2 DEF PopStore, Goto, DequeInv, OwnerInv
  <2>3. pc'[owner] = "idle"
    BY <1>2, DequeAssumption DEF PopStore, Goto, DequeInv, TypeOK
  <2>4. End' = 0  BY <2>2, <2>3 DEF End
  <2>5. age.top \in Nat /\ age'.top = 0
    BY <1>2, DequeEnds DEF PopStore, new_age
  <2>6. Queue = << >> /\ Queue' = << >>
    BY <2>1, <2>4, <2>5 DEF Queue, Held
  <2> QED  BY <1>2, <2>6 DEF PopStore, Returns, JD!PopNothing
<1> QED  BY <1>1, <1>2

(* A pop_top that fails says nothing about the deque.                      *)
LEMMA StealNothingStep ==
  ASSUME DequeInv, NEW t \in Workers, TopNone(t) \/ TopLost(t)
  PROVE  JD!StealNothing(t)
<1>1. pc[t] \in {"bot", "cas"} /\ pc'[t] = "idle"
  BY DEF TopNone, TopLost, Goto, DequeInv, TypeOK
<1>2. \A s \in Workers \ {t} :
        pc'[s] = pc[s] /\ local_bot'[s] = local_bot[s]
  BY DEF TopNone, TopLost, Goto, Returns, DequeInv, TypeOK
<1>3. UNCHANGED << bot, age, deq, pushes >>
  BY DEF TopNone, TopLost, memory
<1>4. End' = End  BY <1>1, <1>2, <1>3, EndKept
<1>5. Queue' = Queue  BY <1>3, <1>4, QueueKept
<1> QED  BY <1>3, <1>5 DEF TopNone, TopLost, Returns, JD!StealNothing

(* The other steps of the owner show nothing.                              *)
LEMMA OwnerStutter ==
  ASSUME DequeInv,
         PushJob \/ Overflow \/ PopLower \/ PopContend \/ PopReset \/ PopLost
  PROVE  UNCHANGED << pushes, Queue, got >>
<1> USE DequeAssumption
<1>1. UNCHANGED << pushes, got >>
  BY DEF PushJob, Overflow, PopLower, PopContend, PopReset, PopLost
<1>2. CASE PushJob
  <2>1. End = bot /\ End' = bot /\ UNCHANGED age
    BY <1>2 DEF PushJob, Goto, End, DequeInv, TypeOK
  <2>2. deq' = [ deq EXCEPT ![bot] = pushes + 1 ]  BY <1>2 DEF PushJob
  <2>3. /\ bot \in Nat /\ bot < q_size /\ age.top \in Nat
        /\ deq \in [Slots -> Jobs \cup {NoJob}]
    BY <2>1, DequeEnds
  <2>4. \A i \in 1..(bot - age.top) : deq'[age.top + i - 1] = deq[age.top + i - 1]
    BY <2>2, <2>3 DEF Slots
  <2>5. Held(deq', age.top, bot) = Held(deq, age.top, bot)
    BY <2>4 DEF Held
  <2> QED  BY <1>1, <2>1, <2>5 DEF Queue
<1>3. CASE Overflow \/ PopLower \/ PopContend \/ PopReset
  <2>1. End' = End
    BY <1>3
       DEF Overflow, PopLower, PopContend, PopReset, Goto, memory, locals, End,
           DequeInv, TypeOK, Slots
  <2>2. UNCHANGED << age, deq >>
    BY <1>3 DEF Overflow, PopLower, PopContend, PopReset, memory
  <2> QED  BY <1>1, <2>1, <2>2, QueueKept
<1>4. CASE PopLost
  <2>1. End <= age.top  BY <1>4, LostEmpty
  <2>2. End' = 0
    BY <1>4 DEF PopLost, Goto, End, DequeInv, TypeOK
  <2>3. UNCHANGED << age, deq >>  BY <1>4 DEF PopLost, memory
  <2>4. age.top \in Nat /\ End \in Nat  BY DequeEnds
  <2>5. Queue = << >> /\ Queue' = << >>
    BY <2>1, <2>2, <2>3, <2>4 DEF Queue, Held
  <2> QED  BY <1>1, <2>5
<1> QED  BY <1>2, <1>3, <1>4

(* What a thief reads before its compare-and-swap is a stutter of the      *)
(* abstract deque.                                                         *)
LEMMA TopStutter ==
  ASSUME DequeInv, NEW t \in Workers, TopAge(t) \/ TopBot(t) \/ TopJob(t)
  PROVE  UNCHANGED << pushes, Queue, got >>
<1>1. UNCHANGED << bot, age, deq, pushes, got, local_bot >>
  BY DEF TopAge, TopBot, TopJob, memory, locals
<1>2. /\ pc[t] \in {"idle", "bot", "job"}
      /\ pc'[t] \in {"bot", "job", "cas"}
      /\ \A s \in Workers \ {t} : pc'[s] = pc[s]
  BY DEF TopAge, TopBot, TopJob, Goto, DequeInv, TypeOK
<1>3. End' = End  BY <1>1, <1>2, EndKept
<1> QED  BY <1>1, <1>3, QueueKept

(* The deque implements JobDeque: no job is lost, none is returned twice,  *)
(* each end gives what is at that end, and pop_bottom returns nullptr only *)
(* when there is nothing.                                                  *)
THEOREM DequeLinearizable == Spec => IsDeque
<1>1. Init => JD!JDInit
  BY DequeAssumption DEF Init, JD!JDInit, Queue, Held, End
<1>2. DequeInv /\ [Next]_vars => [JD!JDNext]_(JD!jdvars)
  <2> SUFFICES ASSUME DequeInv, [Next]_vars
               PROVE  JD!JDNext \/ UNCHANGED << pushes, Queue, got >>
    BY DEF JD!jdvars
  <2>1. CASE PushBottom
    BY <2>1, OwnerStutter, PushStep DEF PushBottom, JD!JDNext
  <2>2. CASE PopBottom
    BY <2>2, OwnerStutter, PopNothingStep, PopLastStep, PopCasStep
       DEF PopBottom, JD!JDNext
  <2>3. ASSUME NEW t \in Workers, PopTop(t)
        PROVE  JD!JDNext \/ UNCHANGED << pushes, Queue, got >>
    BY <2>3, TopStutter, StealNothingStep, StealStep DEF PopTop, JD!JDNext
  <2>4. CASE UNCHANGED vars
    <3>1. UNCHANGED << pushes, got, age, deq, bot, pc, local_bot >>
      BY <2>4 DEF vars
    <3>2. End' = End  BY <3>1 DEF End
    <3> QED  BY <3>1, <3>2, QueueKept
  <2> QED  BY <2>1, <2>2, <2>3, <2>4 DEF Next
<1> QED  BY Invariance, <1>1, <1>2, PTL DEF Spec, IsDeque, JD!Spec
-----------------------------------------------------------------------------
(* MCRuntime moves one part at a time, and each by its own steps.          *)
LEMMA PartsMove ==
  MCSpec => AWSpec /\ SchedSpec /\ FJSpec /\ HSSpec
<1>1. MCInit => AWInit /\ SchedInit /\ FJInit /\ HSInit
  BY DEF MCInit, AtRest, AWAtRest, FJAtRest, HSAtRest, DequeInit, WaitInit, SleepInit, LoopInit,
         LongInit, ShortInit, StackInit, BlockInit, PoolInit
<1>2. [MCNext]_all =>
        /\ [AWNext]_aw_vars /\ [SchedNext]_sched_vars
        /\ [FJNext]_fj_vars /\ [HSNext]_stack_vars
  BY DEF MCNext, DequeNext, WaitNext, SleepNext, LoopNext, LongNext,
         ShortNext, StackNext, BlockNext, PoolNext, all, others
<1> QED  BY <1>1, <1>2, PTL DEF MCSpec, AWSpec, SchedSpec, FJSpec, HSSpec

(* However threads fall asleep, wake and finish, scheduler.h loses no job, *)
(* counts who is awake, and joins only threads that have finished, whether *)
(* or not wake-ups get lost; and none is with the two strategies of        *)
(* atomic_wait.h that have no time limit.  This covers programs that use   *)
(* the third, the futex on the version, as the scheduler does on Linux     *)
(* with C++17, but promises no wake-up there.                              *)
THEOREM SleepsSafely ==
  MCSpec => []SleepSafe
<1>1. AtomicWaitAssumption /\ SchedulerAssumption  BY ThreadsAssumption
<1>2. AWSpec => [](strategy # "table" => NoLostWake)  BY <1>1, NoWakeLost
<1>3. SchedSpec => []AwakeExact /\ []JobsKept /\ []JoinSafe
  BY <1>1, AwakeCounted, NoJobLost, JoinsTheFinished
<1> QED  BY <1>2, <1>3, PartsMove, PTL DEF SleepSafe

(* Whatever is stolen, and whether or not those that wait run other jobs:  *)
(* a worker of scheduler.h pops its own right half or nothing, no job is   *)
(* run that is done, and none outlives the pardo whose stack it is on; the *)
(* counters of the threads that wait, and the ranges, stay in bounds.      *)
THEOREM ForksSafely ==
  MCSpec => []ForkSafe
<1>1. AtomicWaitAssumption /\ SchedulerAssumption /\ ForkJoinAssumption
  BY ThreadsAssumption
<1>2. AWSpec => []AWTypeOK
  <2>1. WaitIInv => AWTypeOK  BY <1>1, WaitTyped
  <2> QED  BY <1>1, <2>1, WaitInvariant, PTL
<1>3. SchedSpec => []SchedTypeOK  BY <1>1, TypeCorrect
<1>4. FJSpec => []FJTypeOK /\ []PopsRight /\ []JobsAlive
  BY <1>1, LoopsTyped, PopsOwnHalf, JobsOutlived
<1> QED  BY <1>2, <1>3, <1>4, PartsMove, PTL DEF ForkSafe, PartsTyped

(* What the searches rely on in parallel.h: every index of a loop begins   *)
(* once, while the loop runs, and the call returns when all have, however  *)
(* ranges are split, stolen and waited for.                                *)
THEOREM KeepsContract ==
  MCSpec => Contract
<1>1. MCSpec => Promise!PFInit /\ [][Promised]_fj_vars
  BY ThreadsAssumption, PartsMove, LoopsKeepPromise
<1>2. [Promised]_fj_vars => [part = "loop" => Promised]_all
  <2>1. UNCHANGED fj_vars => UNCHANGED Promise!pfvars
    BY DEF fj_vars, Promise!pfvars, CallStatus, OpenLoops, BodiesRun, OnStacks, Frames,
           TopIs, Busy, Top
  <2> QED  BY <2>1 DEF Promised
<1> QED  BY <1>1, <1>2, PTL DEF Contract

(* Whatever threads push, pop and retire, and however addresses are used   *)
(* again, no thread of hazptr_stack.h reads a node that has been freed,    *)
(* the list is that of what was pushed and not popped, and every node has  *)
(* one owner, who frees it once.                                           *)
THEOREM NodesAreSafe ==
  MCSpec => []NodesSafe
<1>1. StackInv => NodesSafe  BY WhatIsAllocated DEF StackInv, NodesSafe
<1> QED  BY <1>1, StackSafe, PartsMove, PTL

(* Every push, pop and size of hazptr_stack.h takes effect at one moment   *)
(* between its start and its return.                                       *)
THEOREM IsLinearizable ==
  MCSpec => Linearizable
<1>1. MCSpec => Stack!Init /\ [][AsStack]_stack_vars
  BY PartsMove, StackLinearizable
<1>2. [AsStack]_stack_vars => [part = "stack" => AsStack]_all
  <2>1. UNCHANGED stack_vars => UNCHANGED Stack!vars
    BY DEF stack_vars, nodes, hazards, stack_calls, stack_own, scan_vars, whole,
           Stack!vars, Result
  <2> QED  BY <2>1 DEF AsStack
<1> QED  BY <1>1, <1>2, PTL DEF Linearizable
=============================================================================
