-------------------------- MODULE MCSearchParallel --------------------------
(***************************************************************************)
(* The drivers that list what many trials find, for TLC: search_parallel,  *)
(* whose module this one extends, on three workers; search64_par on two;   *)
(* search64 and search, which are sequential.  Beneath them, the waits and *)
(* the sleep of the threads of those workers, for what the drivers take    *)
(* for granted: that a thread which has something to do is not left        *)
(* asleep.  These are instances, whose variables share slots.              *)
(***************************************************************************)
EXTENDS Surveys

CONSTANT w1

VARIABLES
  part,   (* which of them moves *)
  x1, x2, x3, x4, x5, x6, x7, x8, x9, x10

slots == << x1, x2, x3, x4, x5, x6, x7, x8, x9, x10 >>

errors_three == << "L1", "L2", "L4" >>

all == << part, vars, vars_par, vars_seq, vars_one >>

MCInit ==
  /\ part \in { "search_parallel", "search64_par", "search64", "search" }
  /\ Init /\ ParInit /\ SeqInit /\ OneInit

ParallelMove ==
  /\ part = "search_parallel" /\ Next
  /\ UNCHANGED << part, vars_par, vars_seq, vars_one >>
ParMove ==
  /\ part = "search64_par" /\ ParNext
  /\ UNCHANGED << part, vars, vars_seq, vars_one >>
SeqMove ==
  /\ part = "search64" /\ SeqNext
  /\ UNCHANGED << part, vars, vars_par, vars_one >>
OneMove ==
  /\ part = "search" /\ OneNext
  /\ UNCHANGED << part, vars, vars_par, vars_seq >>

MCNext == ParallelMove \/ ParMove \/ SeqMove \/ OneMove

MCSpec == MCInit /\ [][MCNext]_all

-----------------------------------------------------------------------------
(* The drivers, and the threads beneath them.                              *)
Waits == INSTANCE AtomicWait WITH
  Waiters <- { w1 }, Notifiers <- Workers \ { w1 }, Locations <- { "counter" },
  MaxChanges <- 2, Strategies <- { "table", "direct", "condvar" },
  NoThread <- nobody, strategy <- x1, value <- x2, waiters <- x3,
  version <- x4, mutex <- x5, stage <- x6, at <- x7, old <- x8, ver <- x9,
  changes <- x10

Sleeps == INSTANCE Scheduler WITH
  Sleepers <- Workers \ { main }, Main <- main, ToSpawn <- { "job" },
  NoWork <- nobody, main_deque <- x1, spawned <- x2, ran <- x3,
  num_awake_workers <- x4, num_finished_workers <- x5, finished_flag <- x6,
  stale <- x7, place <- x8, held <- x9

AtRest == Init /\ ParInit /\ SeqInit /\ OneInit
AllEmpty ==
  /\ x1 = nobody /\ x2 = nobody /\ x3 = nobody /\ x4 = nobody /\ x5 = nobody
  /\ x6 = nobody /\ x7 = nobody /\ x8 = nobody /\ x9 = nobody /\ x10 = nobody

DriverMove == MCNext /\ UNCHANGED slots
WaitMove ==
  /\ part = "wait" /\ Waits!AWNext
  /\ UNCHANGED all
WaitOver ==
  /\ part = "wait" /\ Waits!AllAsleep
  /\ UNCHANGED << all, slots >>
SleepMove ==
  /\ part = "sleep" /\ Sleeps!SchedNext
  /\ UNCHANGED << all, x10 >>

WithThreadsInit ==
  \/ MCInit /\ AllEmpty
  \/ part = "wait" /\ AtRest /\ Waits!AWInit
  \/ part = "sleep" /\ AtRest /\ Sleeps!SchedInit /\ x10 = nobody

WithThreadsNext == DriverMove \/ WaitMove \/ WaitOver \/ SleepMove

(* Every thread goes on, and a worker whose clock runs gives up stealing   *)
(* in the end.  Nothing is asked of the drivers, which do not go on for    *)
(* ever.                                                                   *)
WithThreadsSpec ==
  /\ WithThreadsInit /\ [][WithThreadsNext]_<< all, slots >>
  /\ WF_<< all, slots >>(WaitMove /\ Waits!WaiterStep(w1))
  /\ \A t \in Workers \ { w1 } : WF_<< all, slots >>(WaitMove /\ Waits!NotifierStep(t))
  /\ \A t \in Workers \ { main } :
        /\ WF_<< all, slots >>(SleepMove /\ Sleeps!Step(t))
        /\ SF_<< all, slots >>(SleepMove /\ Sleeps!GiveUp(t))
  /\ WF_<< all, slots >>(SleepMove /\ Sleeps!MainStep)

-----------------------------------------------------------------------------
(* What the drivers count is what their trials found.  In search64_par the *)
(* counts in a line are those of the trials of that group and metric, all  *)
(* of which have been run, though the bodies share an output; the number   *)
(* search prints is that of the listings above it, and an average error of *)
(* 0 means that every trial has one.                                       *)
TalliesTrue == CountsTrue /\ TotalsTrue

(* search64_par and search64 implement Survey: whenever the output is      *)
(* looked at it is a line for each of some of the groups, and for all of   *)
(* them at the end; a group without a PDS has no counts.  search           *)
(* implements TrialReport, as search_parallel does: each trial is listed   *)
(* at most once, and the sentence that there is nothing appears exactly if *)
(* nothing is listed.                                                      *)
Surveyed ==
  /\ ParS!SInit /\ SeqS!SInit /\ OneT!TRInit
  /\ [][ /\ ParS!SNext \/ ParS!svars' = ParS!svars
         /\ SeqS!SNext \/ SeqS!svars' = SeqS!svars
         /\ OneT!TRNext \/ OneT!trvars' = OneT!trvars ]_all

(* Nobody sleeps for ever: whoever waits for a change that has been made   *)
(* returns, and the thread pool runs its jobs and ends, whoever sleeps.    *)
AllWake ==
  /\ (part = "wait" /\ Waits!Owed(w1)) ~> (part = "wait" /\ Waits!Outside(w1))
  /\ part = "sleep" ~> (part = "sleep" /\ Sleeps!AllGone)
=============================================================================
