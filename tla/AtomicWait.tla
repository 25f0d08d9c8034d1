------------------------------ MODULE AtomicWait ------------------------------
(***************************************************************************)
(* atomic_wait.h: waiting for an atomic to change, and the notification    *)
(* that ends the wait, with C++17.  Three of its strategies:               *)
(*   "table"    a futex on the version of a table entry: the atomic is not *)
(*              an int32, as the scheduler's wake_up_counter; on Linux     *)
(*   "direct"   a futex on the atomic itself, an int32                     *)
(*   "condvar"  a mutex and a condition variable in the table entry        *)
(* All atomics of the model share one entry: __contention maps addresses   *)
(* to 256 entries, so that two atomics may meet in one.                    *)
(***************************************************************************)
EXTENDS Integers, FiniteSets

CONSTANTS
    Waiters,       \* threads that wait
    Notifiers,     \* threads that change an atomic and then notify
    Locations,     \* the atomics
    MaxChanges,    \* bound: changes a notifier makes
    Strategies,    \* strategies of this instance
    NoThread       \* nobody holds the mutex

AtomicWaitAssumption ==
    /\ IsFiniteSet(Waiters)
    /\ Waiters \cap Notifiers = {}
    /\ NoThread \notin Waiters \cup Notifiers
    /\ Locations # {}
    /\ MaxChanges \in Nat \ {0}
    /\ Strategies \subseteq {"table", "direct", "condvar"}

Parties == Waiters \cup Notifiers

VARIABLES
    strategy,
    value,      \* of each atomic; changes count up and never come back
    waiters,    \* contended_t::waiters, or ::credit
    version,    \* contended_t::version
    mutex,      \* contended_t::mutex
    stage,         \* where each thread is; "out": outside these functions
    at,         \* the atomic a thread waits on or notifies
    old,        \* waiter: the argument val
    ver,        \* waiter: the version it read
    changes     \* notifier: changes made

aw_vars == <<strategy, value, waiters, version, mutex, stage, at, old, ver, changes>>
table == <<waiters, version, mutex>>
waiter == <<old, ver>>

WaiterPlaces == {"out", "check", "lock", "announce", "version", "recheck",
                 "sleep", "asleep", "relock", "unlock", "leave"}
NotifierPlaces == {"out", "notify", "exchange", "grab", "free", "wake"}

AWInit ==
    /\ strategy \in Strategies
    /\ value = [l \in Locations |-> 0]
    /\ waiters = 0 /\ version = 0 /\ mutex = NoThread
    /\ stage = [t \in Parties |-> "out"]
    /\ at \in [Parties -> Locations]
    /\ old = [w \in Waiters |-> 0]
    /\ ver = [w \in Waiters |-> 0]
    /\ changes = [m \in Notifiers |-> 0]

Move(t, p, q) == stage[t] = p /\ stage' = [stage EXCEPT ![t] = q]

(* The caller reads the atomic and waits for it to change. *)
BeginWait(t) ==
    /\ Move(t, "out", "check")
    /\ \E l \in Locations :
          /\ at' = [at EXCEPT ![t] = l]
          /\ old' = [old EXCEPT ![t] = value[l]]
    /\ UNCHANGED <<strategy, value, table, ver, changes>>

(* The loads of __cxx_atomic_wait, spinning or not: return once changed. *)
Check(t) ==
    /\ \/ value[at[t]] # old[t] /\ Move(t, "check", "out")
       \/ /\ value[at[t]] = old[t]
          /\ Move(t, "check",
                  IF strategy = "condvar" THEN "lock" ELSE "announce")
    /\ UNCHANGED <<strategy, value, table, at, waiter, changes>>

Lock(t) ==
    /\ mutex = NoThread
    /\ mutex' = t
    /\ \/ Move(t, "lock", "announce")
       \/ Move(t, "relock", "unlock")   \* on the way out of pthread_cond_wait
    /\ UNCHANGED <<strategy, value, waiters, version, at, waiter, changes>>

Announce(t) ==
    /\ \/ /\ strategy = "direct"
          /\ waiters' = waiters + 1
          /\ Move(t, "announce", "sleep")
       \/ /\ strategy # "direct"
          /\ waiters' = 1
          /\ Move(t, "announce",
                  IF strategy = "table" THEN "version" ELSE "recheck")
    /\ UNCHANGED <<strategy, value, version, mutex, at, waiter, changes>>

ReadVersion(t) ==
    /\ Move(t, "version", "recheck")
    /\ ver' = [ver EXCEPT ![t] = version]
    /\ UNCHANGED <<strategy, value, table, at, old, changes>>

Recheck(t) ==
    /\ \/ /\ value[at[t]] = old[t]
          /\ Move(t, "recheck", "sleep")
       \/ /\ value[at[t]] # old[t]
          /\ Move(t, "recheck",
                  IF strategy = "condvar" THEN "unlock" ELSE "check")
    /\ UNCHANGED <<strategy, value, table, at, waiter, changes>>

(* The kernel compares and puts to sleep in one step; pthread_cond_wait    *)
(* gives up the mutex as it does.                                          *)
Unmoved(t) ==
    /\ strategy = "table" => version = ver[t]
    /\ strategy = "direct" => value[at[t]] = old[t]

AfterSleep == IF strategy = "table" THEN "check"
              ELSE IF strategy = "direct" THEN "leave" ELSE "relock"

Sleep(t) ==
    /\ Move(t, "sleep", IF Unmoved(t) THEN "asleep" ELSE AfterSleep)
    /\ mutex' = IF strategy = "condvar" THEN NoThread ELSE mutex
    /\ UNCHANGED <<strategy, value, waiters, version, at, waiter, changes>>

(* Mutant: the futex has no time limit, as without __FUTEX_TIMED. *)
TimeoutNever(t) == FALSE

(* The two seconds of the futex on the version are over. *)
Timeout(t) ==
    /\ strategy = "table"
    /\ Move(t, "asleep", AfterSleep)
    /\ UNCHANGED <<strategy, value, table, at, waiter, changes>>

Unlock(t) ==
    /\ Move(t, "unlock", "check")
    /\ mutex' = NoThread
    /\ UNCHANGED <<strategy, value, waiters, version, at, waiter, changes>>

Leave(t) ==
    /\ Move(t, "leave", "check")
    /\ waiters' = waiters - 1
    /\ UNCHANGED <<strategy, value, version, mutex, at, waiter, changes>>

(* The caller changes the atomic, then notifies. *)
Change(m) ==
    /\ changes[m] < MaxChanges
    /\ Move(m, "out", "notify")
    /\ \E l \in Locations :
          /\ at' = [at EXCEPT ![m] = l]
          /\ value' = [value EXCEPT ![l] = @ + 1]
    /\ changes' = [changes EXCEPT ![m] = @ + 1]
    /\ UNCHANGED <<strategy, table, waiter>>

(* The first step of notify_all: the version, or a look for waiters. *)
Notify(m) ==
    /\ \/ /\ strategy = "table"
          /\ version' = version + 1
          /\ Move(m, "notify", "exchange")
       \/ /\ strategy # "table"
          /\ version' = version
          /\ Move(m, "notify", IF waiters = 0 THEN "out"
                               ELSE IF strategy = "direct" THEN "wake" ELSE "exchange")
    /\ UNCHANGED <<strategy, value, waiters, mutex, at, waiter, changes>>

Exchange(m) ==
    /\ Move(m, "exchange", IF waiters = 0 THEN "out"
                           ELSE IF strategy = "table" THEN "wake" ELSE "grab")
    /\ waiters' = 0
    /\ UNCHANGED <<strategy, value, version, mutex, at, waiter, changes>>

Grab(m) ==
    /\ mutex = NoThread
    /\ mutex' = m
    /\ Move(m, "grab", "free")
    /\ UNCHANGED <<strategy, value, waiters, version, at, waiter, changes>>

Free(m) ==
    /\ Move(m, "free", "wake")
    /\ mutex' = NoThread
    /\ UNCHANGED <<strategy, value, waiters, version, at, waiter, changes>>

(* Those the kernel finds asleep on what is woken: the entry's version or  *)
(* condition variable, or the atomic.                                      *)
Woken(m) == {t \in Waiters : /\ stage[t] = "asleep"
                             /\ strategy = "direct" => at[t] = at[m]}

WakeAll(m) ==
    /\ stage[m] = "wake"
    /\ stage' = [t \in Parties |-> IF t = m THEN "out"
                                   ELSE IF t \in Woken(m) THEN AfterSleep ELSE stage[t]]
    /\ UNCHANGED <<strategy, value, table, at, waiter, changes>>

WaiterStep(t) ==
    \/ Check(t) \/ Lock(t) \/ Announce(t) \/ ReadVersion(t) \/ Recheck(t)
    \/ Sleep(t) \/ Timeout(t) \/ Unlock(t) \/ Leave(t)
NotifierStep(m) == Notify(m) \/ Exchange(m) \/ Grab(m) \/ Free(m) \/ WakeAll(m)

AWNext ==
    \/ \E t \in Waiters : BeginWait(t) \/ WaiterStep(t)
    \/ \E m \in Notifiers : Change(m) \/ NotifierStep(m)

AWSpec == AWInit /\ [][AWNext]_aw_vars

-------------------------------------------------------------------------------
(* Types, and that waiters never drops below zero. *)
AWTypeOK ==
    /\ strategy \in Strategies
    /\ value \in [Locations -> Nat]
    /\ waiters \in 0 .. Cardinality(Waiters) /\ version \in Nat
    /\ mutex \in Parties \cup {NoThread}
    /\ \A t \in Waiters : stage[t] \in WaiterPlaces
    /\ \A m \in Notifiers : stage[m] \in NotifierPlaces
    /\ at \in [Parties -> Locations]
    /\ old \in [Waiters -> Nat] /\ ver \in [Waiters -> Nat]
    /\ changes \in [Notifiers -> 0 .. MaxChanges]

(* When every notification has been carried out, whoever is still asleep   *)
(* is so because the atomic has not changed: no wake-up is lost, and none  *)
(* depends on the time limit of the futex.                                 *)
NoLostWake ==
    (\A m \in Notifiers : stage[m] = "out") =>
        \A t \in Waiters : stage[t] = "asleep" => value[at[t]] = old[t]

(* A waiter that has a change to return for, and one that has returned. *)
Owed(t) == stage[t] # "out" /\ value[at[t]] # old[t]
Outside(t) == stage[t] = "out"

(* Nothing will change any more, and whoever waits sleeps.                 *)
AllAsleep ==
    /\ \A m \in Notifiers : stage[m] = "out" /\ changes[m] = MaxChanges
    /\ \A t \in Waiters : stage[t] = "asleep"

===============================================================================
