------------------------------ MODULE Surveys ------------------------------
(***************************************************************************)
(* The drivers besides searchMany and search_parallel: search64_par,       *)
(* search64 and search; each a state machine of its own, the first on the  *)
(* workers of SearchParallel.                                              *)
(***************************************************************************)
EXTENDS SearchParallel, FiniteSets

----------------------------------------------------------------------------
(***************************************************************************)
(* search64_par.cpp: for each of the groups 1..num_groups, in parallel,    *)
(* NUM_TRIALS trials of search with each of three error metrics; then one  *)
(* line, printed under a mutex, with the number of trials that succeeded   *)
(* for each metric.                                                        *)
(***************************************************************************)
CONSTANTS
  num_groups, errors, NUM_TRIALS_each,
  Solvable (* the groups that have a PDS *)

ASSUME SurveysAssumption ==
  /\ num_groups \in Nat /\ NUM_TRIALS_each \in Nat
  /\ errors \in Seq(STRING)

VARIABLES
  loop_status, loop_waits, loop_runs, (* the parallel loop (ParallelFor)     *)
  where,            (* where the body of a group is                          *)
  e_lens, tries, indices, (* its loop variables, from 1, 0 and 1             *)
  counted,          (* its vector, successes                                 *)
  won,              (* the trials << e_len, i >> that succeeded              *)
  out_m,            (* who holds the mutex                                   *)
  out_buffer, out_file    (* std::cout: printed, and flushed                 *)

Ids == 1..num_groups
GroupCalls == { << >> } \cup { << id >> : id \in Ids }

group_loops  == << loop_status, loop_waits, loop_runs >>
group_locals == << where, e_lens, tries, indices, counted, won >>
vars_par == << group_loops, group_locals, out_m, out_buffer, out_file >>

GF == INSTANCE ParallelFor WITH
  Depth <- 1, NoCall <- nobody, Calls <- GroupCalls,
  status <- loop_status, waits <- loop_waits, runs <- loop_runs

Zeros == [ x \in DOMAIN errors |-> 0 ]

ParInit ==
  /\ GF!PFInit
  /\ where = [ g \in Ids |-> "trials" ]
  /\ e_lens = [ g \in Ids |-> 1 ]
  /\ tries = [ g \in Ids |-> 0 ]
  /\ indices = [ g \in Ids |-> 1 ]
  /\ counted = [ g \in Ids |-> Zeros ]
  /\ won = [ g \in Ids |-> {} ]
  /\ out_m = nobody
  /\ out_buffer = << >>
  /\ out_file = << >>

GroupGoto(g, from, to) == where[g] = from /\ where' = [ where EXCEPT ![g] = to ]

-----------------------------------------------------------------------------
GroupBegin(w, c) ==
  /\ GF!Begin(w, c)
  /\ UNCHANGED << group_locals, out_m, out_buffer, out_file >>

(* A trial: its error is 0, or not.                                        *)
ParTrial(w, g) ==
  /\ where[g] = "trials"
  /\ e_lens[g] <= Len(errors) /\ tries[g] < NUM_TRIALS_each
  /\ tries' = [ tries EXCEPT ![g] = @ + 1 ]
  /\ \/ UNCHANGED << counted, won >>
     \/ /\ g \in Solvable
        /\ counted' = [ counted EXCEPT ![g][e_lens[g]] = @ + 1 ]
        /\ won' = [ won EXCEPT ![g] = @ \cup { << e_lens[g], tries[g] >> } ]
  /\ UNCHANGED << group_loops, where, e_lens, indices, out_m, out_buffer, out_file >>

ParNextMetric(w, g) ==
  /\ where[g] = "trials"
  /\ e_lens[g] <= Len(errors) /\ tries[g] = NUM_TRIALS_each
  /\ e_lens' = [ e_lens EXCEPT ![g] = @ + 1 ]
  /\ tries' = [ tries EXCEPT ![g] = 0 ]
  /\ UNCHANGED << group_loops, where, indices, counted, won, out_m, out_buffer, out_file >>

(* Mutant: the mutex is not taken.                                         *)
GroupLockNothing(w, g) ==
  /\ e_lens[g] > Len(errors)
  /\ GroupGoto(g, "trials", "head")
  /\ UNCHANGED << group_loops, e_lens, tries, indices, counted, won, out_m, out_buffer, out_file >>

(* The probability of commuting is computed; then the mutex is taken.      *)
GroupLock(w, g) ==
  /\ e_lens[g] > Len(errors)
  /\ GroupGoto(g, "trials", "head")
  /\ out_m = nobody /\ out_m' = w
  /\ UNCHANGED << group_loops, e_lens, tries, indices, counted, won, out_buffer, out_file >>

GroupHead(g) == [ group |-> g, metric |-> 0, count |-> 0 ]
Count(g, x) == [ group |-> g, metric |-> x, count |-> counted[g][x] ]

PrintGroup(w, g) ==
  /\ GroupGoto(g, "head", "counts")
  /\ out_buffer' = Append(out_buffer, GroupHead(g))
  /\ UNCHANGED << group_loops, e_lens, tries, indices, counted, won, out_m, out_file >>

(* The loop over index.                                                    *)
PrintCount(w, g) ==
  /\ where[g] = "counts" /\ indices[g] <= Len(errors)
  /\ out_buffer' = Append(out_buffer, Count(g, indices[g]))
  /\ indices' = [ indices EXCEPT ![g] = @ + 1 ]
  /\ UNCHANGED << group_loops, where, e_lens, tries, counted, won, out_m, out_file >>

(* std::endl.                                                              *)
EndLine(w, g) ==
  /\ indices[g] > Len(errors)
  /\ GroupGoto(g, "counts", "unlock")
  /\ out_file' = out_file \o out_buffer
  /\ out_buffer' = << >>
  /\ UNCHANGED << group_loops, e_lens, tries, indices, counted, won, out_m >>

GroupUnlock(w, g) ==
  /\ GroupGoto(g, "unlock", "end")
  /\ out_m' = nobody
  /\ UNCHANGED << group_loops, e_lens, tries, indices, counted, won, out_buffer, out_file >>

(* Mutant: a group with nothing to tell is left without a line.            *)
GroupFinishUnprinted(w, g) ==
  /\ where[g] = "end" \/ (where[g] = "trials" /\ e_lens[g] > Len(errors) /\ won[g] = {})
  /\ GF!Finish(w)
  /\ UNCHANGED << group_locals, out_m, out_buffer, out_file >>

(* The body returns.                                                       *)
GroupFinish(w, g) ==
  /\ where[g] = "end"
  /\ GF!Finish(w)
  /\ UNCHANGED << group_locals, out_m, out_buffer, out_file >>

GroupStep(w, g) ==
  \/ ParTrial(w, g) \/ ParNextMetric(w, g)
  \/ GroupLock(w, g) \/ PrintGroup(w, g) \/ PrintCount(w, g) \/ EndLine(w, g)
  \/ GroupUnlock(w, g) \/ GroupFinish(w, g)

(* The parallel_for returns and main prints the total time.                *)
GroupJoin(w) ==
  /\ GF!Join(w)
  /\ UNCHANGED << group_locals, out_m, out_buffer, out_file >>

Exited == loop_status[<< >>] = "done"

ParNext ==
  \/ \E w \in Workers :
       \/ \E c \in GroupCalls : GroupBegin(w, c)
       \/ loop_runs[w] # nobody /\ GroupStep(w, loop_runs[w][1])
       \/ GroupJoin(w)
  \/ Exited /\ UNCHANGED vars_par

-----------------------------------------------------------------------------
(* What the scripts that read the output take for its lines: as many       *)
(* pieces each as there are metrics, and one.                              *)
Width == Len(errors) + 1
Line(j) == [ group |-> out_file[Width * (j - 1) + 1].group,
             tally |-> [ x \in DOMAIN errors |-> out_file[Width * (j - 1) + 1 + x].count ] ]
ParLines == [ j \in 1..(Len(out_file) \div Width) |-> Line(j) ]

ParS == INSTANCE Survey WITH
  NUM_TRIALS <- NUM_TRIALS_each, lines <- ParLines, over <- Exited

WonOf(g, x) == { t \in won[g] : t[1] = x }

(* The counts in the file are those of the trials of the same group and    *)
(* metric, all of which have been run: no body counts for another, and no  *)
(* line is mixed with another one ("mutex for controlling access to cout"): *)
(* the count of the first metric comes after the group, each other one     *)
(* after the one before, and the next group after the last.                *)
CountsTrue ==
  /\ \A j \in DOMAIN out_file :
       LET p == out_file[j]  q == out_file[j - 1]  IN
       /\ p.metric =
            IF j = 1 \/ q.metric = Len(errors) THEN 0 ELSE q.metric + 1
       /\ p.metric > 0 =>
            /\ p.group = q.group
            /\ p.count = Cardinality(WonOf(p.group, p.metric))
  /\ out_file # << >> => out_file[Len(out_file)].metric = Len(errors)

----------------------------------------------------------------------------
(***************************************************************************)
(* search64.cpp: the survey of search64_par.cpp on one thread, group after *)
(* group, each line written when its group is done.                        *)
(***************************************************************************)

VARIABLES
  id, e_len, trial, (* the loop variables                             *)
  tally,            (* successes                                      *)
  lines,            (* written to std::cout, each flushed by its endl *)
  over              (* the overall runtime is written                 *)

vars_seq == << id, e_len, trial, tally, lines, over >>

SeqInit ==
  /\ id = 1 /\ e_len = 1 /\ trial = 0
  /\ tally = [ x \in DOMAIN errors |-> 0 ]
  /\ lines = << >>
  /\ over = FALSE

(* A trial: its error is 0, or not.                                        *)
SeqTrial ==
  /\ id <= num_groups /\ e_len <= Len(errors) /\ trial < NUM_TRIALS_each
  /\ trial' = trial + 1
  /\ \/ UNCHANGED tally
     \/ id \in Solvable /\ tally' = [ tally EXCEPT ![e_len] = @ + 1 ]
  /\ UNCHANGED << id, e_len, lines, over >>

SeqNextMetric ==
  /\ id <= num_groups /\ e_len <= Len(errors) /\ trial = NUM_TRIALS_each
  /\ e_len' = e_len + 1
  /\ trial' = 0
  /\ UNCHANGED << id, tally, lines, over >>

(* The line of the group; the next one has a table, a generator and        *)
(* counters of its own.                                                    *)
NextGroup ==
  /\ id <= num_groups /\ e_len > Len(errors)
  /\ lines' = Append(lines, [ group |-> id, tally |-> tally ])
  /\ id' = id + 1 /\ e_len' = 1
  /\ tally' = [ x \in DOMAIN errors |-> 0 ]
  /\ UNCHANGED << trial, over >>

SeqEnd ==
  /\ id > num_groups /\ ~over
  /\ over' = TRUE
  /\ UNCHANGED << id, e_len, trial, tally, lines >>

SeqNext ==
  \/ SeqTrial \/ SeqNextMetric \/ NextGroup \/ SeqEnd
  \/ over /\ UNCHANGED vars_seq

-----------------------------------------------------------------------------
SeqS == INSTANCE Survey WITH NUM_TRIALS <- NUM_TRIALS_each

----------------------------------------------------------------------------
(***************************************************************************)
(* search.cpp: NUM_TRIALS trials of search on one group, one after the     *)
(* other; the set of each that succeeds is listed, a sentence says that    *)
(* none did, and the last lines give their number and the average error.   *)
(***************************************************************************)
CONSTANTS
  NUM_TRIALS_one,
  Errors (* the errors a trial may return, 0 among them or not *)

ASSUME TrialErrors == NUM_TRIALS_one \in Nat /\ Errors \subseteq Nat

VARIABLES
  tried, succeeded, (* i and successes *)
  avg_error,
  out,   (* std::cout, the listings by the number of their trial *)
  missed (* the trials that found none                           *)

vars_one == << tried, succeeded, avg_error, out, missed >>

Listing(t)  == [ line |-> "PDS", value |-> t ]
NoneSaid      == [ line |-> "none", value |-> NUM_TRIALS_one ]
Totals      == [ line |-> "succ", value |-> succeeded ]

OneInit ==
  /\ tried = 0 /\ succeeded = 0 /\ avg_error = 0
  /\ out = << >>
  /\ missed = {}

(* A trial; avg_error is their sum until the end.                          *)
OneTrial ==
  /\ tried < NUM_TRIALS_one
  /\ \E my_error \in Errors :
       /\ avg_error' = avg_error + my_error
       /\ IF my_error = 0
          THEN /\ succeeded' = succeeded + 1
               /\ out' = Append(out, Listing(tried))
               /\ UNCHANGED missed
          ELSE missed' = missed \cup {tried} /\ UNCHANGED << succeeded, out >>
  /\ tried' = tried + 1

Said == \E j \in DOMAIN out : out[j].line = "succ"

(* The lines after the loop.                                               *)
OneReport ==
  /\ tried = NUM_TRIALS_one /\ ~Said
  /\ out' = (IF succeeded = 0 THEN Append(out, NoneSaid) ELSE out)
              \o << Totals, [ line |-> "average", value |-> avg_error ] >>
  /\ UNCHANGED << tried, succeeded, avg_error, missed >>

OneNext == OneTrial \/ OneReport \/ (Said /\ UNCHANGED vars_one)

-----------------------------------------------------------------------------
OneLines(l) == { j \in DOMAIN out : out[j].line = l }

OneT == INSTANCE TrialReport WITH
  Trials  <- 0..(NUM_TRIALS_one - 1),
  listed  <- { out[j].value : j \in OneLines("PDS") },
  failed  <- missed,
  verdict <- IF ~Said THEN "pending"
             ELSE IF OneLines("none") # {} THEN "none" ELSE "some"

(* The number printed is that of the listings above it, and an average of  *)
(* 0 means that every trial has one.                                       *)
TotalsTrue ==
  \A j \in OneLines("succ") :
    /\ out[j].value = Cardinality(OneLines("PDS"))
    /\ out[j+1].value = 0 <=> out[j].value = NUM_TRIALS_one
=============================================================================
