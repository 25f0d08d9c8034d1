--------------------------- MODULE SearchParallel ---------------------------
(***************************************************************************)
(* search_parallel.cpp: NUM_TRIALS trials of search on one group, in       *)
(* parallel.  A trial that ends with error 0 lists its set and sets the    *)
(* flag success, both under a mutex; main reads the flag after the loop,   *)
(* without the mutex.  What a trial finds is up to the random generator.   *)
(***************************************************************************)
EXTENDS Integers, Sequences

CONSTANTS Workers, main, nobody, NUM_TRIALS

Trials == { << i >> : i \in 0..(NUM_TRIALS-1) }
Calls  == { << >> } \cup Trials

ASSUME SearchParallelAssumption ==
  /\ NUM_TRIALS \in Nat
  /\ main \in Workers
  /\ nobody \notin Workers \cup Calls

VARIABLES
  status, waits, runs,   (* the parallel loop (ParallelFor)                *)
  at,                    (* where the body of a trial is                   *)
  solved,                (* of a trial: my_error == 0                      *)
  success,
  m,                     (* who holds the mutex                            *)
  buffer,                (* std::cout: printed, not flushed                *)
  file,                  (* std::cout: flushed                             *)
  told                   (* main has printed what it prints after the loop *)

loops == << status, waits, runs >>
vars  == << loops, at, solved, success, m, buffer, file, told >>

PF == INSTANCE ParallelFor WITH
  Depth  <- 1,
  NoCall <- nobody

(* What is printed: "PDS: ", a set, the closing words.                     *)
Piece(i, part) == [ trial |-> i, part |-> part ]
NoPDSs == Piece(<< >>, "No PDSs found")

Init ==
  /\ PF!PFInit
  /\ at = [ i \in Trials |-> "search" ]
  /\ solved = [ i \in Trials |-> FALSE ]
  /\ success = FALSE
  /\ m = nobody
  /\ buffer = << >>
  /\ file = << >>
  /\ told = FALSE

Goto(i, from, to) == at[i] = from /\ at' = [ at EXCEPT ![i] = to ]

-----------------------------------------------------------------------------
(* parallel_for hands a trial to a worker.                                 *)
Begin(w, c) ==
  /\ PF!Begin(w, c)
  /\ UNCHANGED << at, solved, success, m, buffer, file, told >>

(* search returns, and my_error is looked at.                              *)
Search(w, i) ==
  /\ \/ Goto(i, "search", "found") /\ solved' = [ solved EXCEPT ![i] = TRUE ]
     \/ Goto(i, "search", "left")  /\ UNCHANGED solved
  /\ UNCHANGED << loops, success, m, buffer, file, told >>

(* Mutant: no lock is taken.                                               *)
LockNothing(w, i) ==
  /\ Goto(i, "found", "locked")
  /\ UNCHANGED << loops, solved, success, m, buffer, file, told >>

Lock(w, i) ==
  /\ Goto(i, "found", "locked")
  /\ m = nobody
  /\ m' = w
  /\ UNCHANGED << loops, solved, success, buffer, file, told >>

(* Mutant: success is a variable of the body.                              *)
MarkOwn(w, i) ==
  /\ Goto(i, "locked", "head")
  /\ UNCHANGED << loops, solved, success, m, buffer, file, told >>

Mark(w, i) ==
  /\ Goto(i, "locked", "head")
  /\ success' = TRUE
  /\ UNCHANGED << loops, solved, m, buffer, file, told >>

(* The operators << on std::cout; std::endl flushes.                       *)
PrintHead(w, i) ==
  /\ Goto(i, "head", "set")
  /\ file' = file \o Append(buffer, Piece(i, "PDS"))
  /\ buffer' = << >>
  /\ UNCHANGED << loops, solved, success, m, told >>

PrintSet(w, i) ==
  /\ Goto(i, "set", "endl")
  /\ buffer' = Append(buffer, Piece(i, "set"))
  /\ UNCHANGED << loops, solved, success, m, file, told >>

Flush(w, i) ==
  /\ Goto(i, "endl", "unlock")
  /\ file' = file \o buffer
  /\ buffer' = << >>
  /\ UNCHANGED << loops, solved, success, m, told >>

(* Mutant: the mutex is not given back.                                    *)
UnlockNothing(w, i) ==
  /\ Goto(i, "unlock", "left")
  /\ UNCHANGED << loops, solved, success, m, buffer, file, told >>

Unlock(w, i) ==
  /\ Goto(i, "unlock", "left")
  /\ m' = nobody
  /\ UNCHANGED << loops, solved, success, buffer, file, told >>

Finish(w, i) ==
  /\ at[i] = "left"
  /\ PF!Finish(w)
  /\ UNCHANGED << at, solved, success, m, buffer, file, told >>

Step(w, i) ==
  \/ Search(w, i) \/ Lock(w, i) \/ Mark(w, i) \/ Unlock(w, i) \/ Finish(w, i)
  \/ PrintHead(w, i) \/ PrintSet(w, i) \/ Flush(w, i)

(* The parallel_for returns.                                               *)
Join(w) ==
  /\ PF!Join(w)
  /\ UNCHANGED << at, solved, success, m, buffer, file, told >>

(* main, after the loop; the timer it prints is left out.                  *)
Tell ==
  /\ status[<< >>] = "done"
  /\ ~told
  /\ told' = TRUE
  /\ file' = file \o buffer \o IF success THEN << >> ELSE << NoPDSs >>
  /\ buffer' = << >>
  /\ UNCHANGED << loops, at, solved, success, m >>

Next ==
  \/ \E w \in Workers :
       \/ \E c \in Calls : Begin(w, c)
       \/ runs[w] # nobody /\ Step(w, runs[w])
       \/ Join(w)
  \/ Tell
  \/ told /\ UNCHANGED vars

Spec == Init /\ [][Next]_vars

-----------------------------------------------------------------------------
Output == Seq([ trial : Calls, part : {"PDS", "set", "No PDSs found"} ])

(* The types of all variables; the mutex is held only by a worker in the   *)
(* section it protects.                                                    *)
TypeOK ==
  /\ PF!PFTypeOK
  /\ at \in [Trials -> { "search", "found", "locked", "head", "set", "endl",
                         "unlock", "left" }]
  /\ solved \in [Trials -> BOOLEAN]
  /\ success \in BOOLEAN
  /\ m \in Workers \cup {nobody}
  /\ m # nobody => /\ runs[m] # nobody
                   /\ at[runs[m]] \in {"locked", "head", "set", "endl", "unlock"}
  /\ buffer \in Output
  /\ file \in Output
  /\ told \in BOOLEAN

(* "use a mutex to make sure that two threads don't try to print at the    *)
(* same time": in the output each "PDS: " has its own set right after it,  *)
(* or still to come if it is the last thing printed.                       *)
ListingsWhole ==
  \A j \in DOMAIN file :
    /\ file[j].part = "PDS" /\ j < Len(file) =>
         file[j+1] = Piece(file[j].trial, "set")
    /\ file[j].part = "set" =>
         j > 1 /\ file[j-1] = Piece(file[j].trial, "PDS")

(* The run as its user may think of it: a trial is listed once its set is  *)
(* in the output, and the closing words are the verdict.                   *)
Listed  == { i \in Trials : \E j \in DOMAIN file : file[j] = Piece(i, "set") }
Failed  == { i \in Trials : at[i] = "left" /\ ~solved[i] }
Verdict == IF ~told THEN "pending"
           ELSE IF \E j \in DOMAIN file : file[j] = NoPDSs THEN "none" ELSE "some"

TR == INSTANCE TrialReport WITH
  listed <- Listed, failed <- Failed, verdict <- Verdict

(* Every trial counts, none twice, before the verdict, and the flag that   *)
(* main reads without the mutex gives the verdict the listings give.       *)
Reports == TR!Spec
=============================================================================
