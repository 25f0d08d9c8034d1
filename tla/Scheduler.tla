------------------------------ MODULE Scheduler ------------------------------
(***************************************************************************)
(* scheduler.h: the life of the worker threads.  Main spawns jobs, works   *)
(* until they are done and, at exit, shuts the others down; they steal,    *)
(* fall asleep when there is nothing to steal, are woken, and finish.      *)
(* Deques are atomic here (JobDeque, which WorkStealingDeque implements),  *)
(* and so is waiting for wake_up_counter: who sleeps may go on once the    *)
(* counter has changed since it read it (AtomicWait).  The counter itself  *)
(* only counts up, so that "it has changed since" is all the state kept.   *)
(***************************************************************************)
EXTENDS Integers, FiniteSets, Sequences

CONSTANTS
    Sleepers,     \* the threads but main
    Main,        \* the thread that made the scheduler
    ToSpawn,        \* what main spawns
    NoWork         \* no job

SchedulerAssumption ==
    /\ IsFiniteSet(Sleepers) /\ Main \notin Sleepers
    /\ NoWork \notin ToSpawn

Threads == Sleepers \cup {Main}
num_threads == Cardinality(Threads)

VARIABLES
    main_deque,                   \* main's deque; the others' stay empty
    spawned,                 \* jobs main has pushed
    ran,                     \* jobs that have returned
    num_awake_workers,
    num_finished_workers,
    finished_flag,
    stale,                   \* threads since whose read wake_up_counter changed
    place,                      \* where each thread is
    held                      \* the job a thread holds, or None

sched_vars == <<main_deque, spawned, ran, num_awake_workers, num_finished_workers,
          finished_flag, stale, place, held>>
counts == <<num_awake_workers, num_finished_workers, finished_flag>>
work == <<main_deque, spawned, ran, held>>

(* A worker enters worker(), which waits for work before anything else;    *)
(* main leaves the constructor.                                            *)
SchedInit ==
    /\ main_deque = <<>> /\ spawned = {} /\ ran = {}
    /\ num_awake_workers = num_threads
    /\ num_finished_workers = 0
    /\ finished_flag = FALSE
    /\ stale = {}
    /\ place = [t \in Threads |-> IF t = Main THEN "main" ELSE "drop"]
    /\ held = [t \in Threads |-> NoWork]

Go(t, p, q) == place[t] = p /\ place' = [place EXCEPT ![t] = q]

-------------------------------------------------------------------------------
(* wait_for_work: count out, read the counter, sleep on it, count in. *)
Drop(t) ==
    /\ Go(t, "drop", "read")
    /\ num_awake_workers' = num_awake_workers - 1
    /\ UNCHANGED <<work, num_finished_workers, finished_flag, stale>>

ReadCounter(t) ==
    /\ Go(t, "read", "sleep")
    /\ stale' = stale \ {t}
    /\ UNCHANGED <<work, counts>>

WakeUp(t) ==
    /\ t \in stale
    /\ Go(t, "sleep", "rise")
    /\ UNCHANGED <<work, counts, stale>>

Rise(t) ==
    /\ Go(t, "rise", "loop")
    /\ num_awake_workers' = num_awake_workers + 1
    /\ UNCHANGED <<work, num_finished_workers, finished_flag, stale>>

(* The loop of worker(), and the first look of get_job at its condition;   *)
(* its own deque is empty, so that it goes on to steal.                    *)
Loop(t) ==
    /\ Go(t, "loop", IF finished_flag THEN "count" ELSE "steal")
    /\ UNCHANGED <<work, counts, stale>>

(* try_steal.  A thief is told whether it has emptied the deque, by reads   *)
(* made at different times: any answer may come with a job or without.     *)
(* An answer that jobs are left makes it wake a worker before it runs its. *)
StealFrom(t) ==
    \/ main_deque # <<>> /\ main_deque' = Tail(main_deque) /\ held' = [held EXCEPT ![t] = Head(main_deque)]
    \/ UNCHANGED <<main_deque, held>>

(* Where a thread goes once try_steal is over. *)
AfterSteal(t, found) == IF found THEN "run" ELSE IF t = Main THEN "work" ELSE "steal"

Steal(t) ==
    /\ place[t] = "steal"
    /\ StealFrom(t)
    /\ \E left \in BOOLEAN :
          place' = [place EXCEPT ![t] = IF left THEN "wake" ELSE AfterSteal(t, held'[t] # NoWork)]
    /\ UNCHANGED <<spawned, ran, counts, stale>>

(* steal_job sees its condition hold, or STEAL_TIMEOUT is over. *)
GiveUp(t) ==
    /\ t \in Sleepers
    /\ Go(t, "steal", "none")
    /\ UNCHANGED <<work, counts, stale>>

(* No job: asleep again, unless it is time to finish. *)
FoundNone(t) ==
    /\ Go(t, "none", IF finished_flag THEN "loop" ELSE "drop")
    /\ UNCHANGED <<work, counts, stale>>

Run(t) ==
    /\ Go(t, "run", IF t = Main THEN "work" ELSE "loop")
    /\ ran' = ran \cup {held[t]}
    /\ held' = [held EXCEPT ![t] = NoWork]
    /\ UNCHANGED <<main_deque, spawned, counts, stale>>

(* The last act of worker(); then the thread is over. *)
Count(t) ==
    /\ Go(t, "count", "gone")
    /\ num_finished_workers' = num_finished_workers + 1
    /\ UNCHANGED <<work, num_awake_workers, finished_flag, stale>>

-------------------------------------------------------------------------------
(* wake_up_a_worker: nothing if all are awake, else the counter moves on.   *)
(* The notification that follows is part of what AtomicWait promises.      *)
Back(t) == IF t = Main /\ held[t] = NoWork /\ spawned # ToSpawn THEN "main"
           ELSE AfterSteal(t, held[t] # NoWork)

WakeAWorker(t) ==
    /\ place[t] = "wake"
    /\ IF num_awake_workers < num_threads
       THEN place' = [place EXCEPT ![t] = "bump"]
       ELSE place' = [place EXCEPT ![t] = Back(t)]
    /\ UNCHANGED <<work, counts, stale>>

Bump(t) ==
    /\ Go(t, "bump", Back(t))
    /\ stale' = Threads
    /\ UNCHANGED <<work, counts>>

(* spawn: push_bottom tells if bot was 0, which an empty deque may or may  *)
(* not have.                                                               *)
Spawn(j) ==
    /\ place[Main] = "main"
    /\ j \in ToSpawn \ spawned
    /\ main_deque' = Append(main_deque, j)
    /\ spawned' = spawned \cup {j}
    /\ \E first \in IF main_deque = <<>> THEN BOOLEAN ELSE {FALSE} :
          place' = [place EXCEPT ![Main] = IF first THEN "wake" ELSE
                                     IF spawned' = ToSpawn THEN "work" ELSE "main"]
    /\ UNCHANGED <<ran, held, counts, stale>>

(* do_work_until: main never sleeps.  Its own jobs first, else it steals,  *)
(* from any deque, its own included.                                       *)
Work ==
    /\ place[Main] = "work"
    /\ \/ /\ ran = ToSpawn
          /\ place' = [place EXCEPT ![Main] = "exit"]
          /\ UNCHANGED <<main_deque, held>>
       \/ /\ ran # ToSpawn /\ main_deque # <<>>
          /\ held' = [held EXCEPT ![Main] = main_deque[Len(main_deque)]]
          /\ main_deque' = SubSeq(main_deque, 1, Len(main_deque) - 1)
          /\ place' = [place EXCEPT ![Main] = "run"]
       \/ /\ ran # ToSpawn /\ main_deque = <<>>
          /\ place' = [place EXCEPT ![Main] = "steal"]
          /\ UNCHANGED <<main_deque, held>>
    /\ UNCHANGED <<spawned, ran, counts, stale>>

(* shutdown. *)
SetFinished ==
    /\ Go(Main, "exit", "spam")
    /\ finished_flag' = TRUE
    /\ UNCHANGED <<work, num_awake_workers, num_finished_workers, stale>>

(* Mutant: the flag is set and the others are woken once. *)
SpamOnce ==
    /\ place[Main] = "spam"
    /\ \/ num_awake_workers >= num_threads /\ stale' = stale
       \/ num_awake_workers < num_threads /\ stale' = Threads
    /\ place' = [place EXCEPT ![Main] = "join"]
    /\ UNCHANGED <<work, counts>>

Spam ==
    /\ place[Main] = "spam"
    /\ IF num_finished_workers < num_threads - 1
       THEN place' = [place EXCEPT ![Main] = "spamwake"]
       ELSE place' = [place EXCEPT ![Main] = "join"]
    /\ UNCHANGED <<work, counts, stale>>

(* wake_up_all_workers: it loads the number of those awake, then adds. *)
SpamWake ==
    /\ Go(Main, "spamwake", IF num_awake_workers < num_threads THEN "spambump" ELSE "spam")
    /\ UNCHANGED <<work, counts, stale>>

SpamBump ==
    /\ Go(Main, "spambump", "spam")
    /\ stale' = Threads
    /\ UNCHANGED <<work, counts>>

Join ==
    /\ \A t \in Sleepers : place[t] = "gone"
    /\ Go(Main, "join", "gone")
    /\ UNCHANGED <<work, counts, stale>>

Ended == place[Main] = "gone" /\ UNCHANGED sched_vars

WaitForWork(t) == Drop(t) \/ ReadCounter(t) \/ WakeUp(t) \/ Rise(t)
Step(t) == WaitForWork(t) \/ Loop(t) \/ Steal(t) \/ GiveUp(t) \/ FoundNone(t) \/ Run(t)
           \/ Count(t) \/ WakeAWorker(t) \/ Bump(t)
Shutdown == SetFinished \/ Spam \/ SpamWake \/ SpamBump \/ Join

MainStep == Step(Main) \/ Work \/ Shutdown \/ \E j \in ToSpawn : Spawn(j)

SchedNext ==
    \/ \E t \in Threads : Step(t)
    \/ \E j \in ToSpawn : Spawn(j)
    \/ Work \/ Shutdown \/ Ended

SchedSpec == SchedInit /\ [][SchedNext]_sched_vars

-------------------------------------------------------------------------------
Asleep == {"read", "sleep", "rise"}

(* Types. *)
SchedTypeOK ==
    /\ main_deque \in Seq(ToSpawn) /\ spawned \subseteq ToSpawn /\ ran \subseteq spawned
    /\ num_awake_workers \in 1 .. num_threads
    /\ num_finished_workers \in 0 .. num_threads - 1
    /\ finished_flag \in BOOLEAN
    /\ stale \subseteq Threads
    /\ held \in [Threads -> ToSpawn \cup {NoWork}]
    /\ place \in [Threads -> {"main", "work", "exit", "spam", "spamwake", "spambump",
                 "join", "drop", "loop", "steal", "none", "run", "count", "gone",
                 "wake", "bump"} \cup Asleep]

(* The counter of awake workers is that of the threads outside             *)
(* wait_for_work at any time, so that num_awake_workers < num_threads       *)
(* misses nobody who has begun to sleep.                                   *)
AwakeExact == num_awake_workers = Cardinality({t \in Threads : place[t] \notin Asleep})

(* Each job spawned is in the deque, with one thread, or has run: never     *)
(* lost and never run twice, asleep or not.                                *)
JobsKept ==
    \A j \in spawned :
        Cardinality({i \in DOMAIN main_deque : main_deque[i] = j})
          + Cardinality({t \in Threads : held[t] = j})
          + (IF j \in ran THEN 1 ELSE 0) = 1

(* When main waits for the threads to join, none is asleep or about to be: *)
(* nobody is left to wake it.                                              *)
JoinSafe == place[Main] = "join" => \A t \in Sleepers : place[t] = "gone"

AllGone == \A t \in Threads : place[t] = "gone"

===============================================================================
