----------------------------- MODULE SearchMany -----------------------------
(***************************************************************************)
(* searchMany.cpp: for each of a range of dimensions, and within it for    *)
(* each group of that order, both loops in parallel, up to MULTIPLIER*n*n  *)
(* trials of search, of which the first that succeeds is printed and ends  *)
(* the group; a group where none succeeds gets a line that says so.        *)
(* Printing is kept together by a mutex.  Scripts read the lines back      *)
(* (sortAsData.py, checkPDS.py), often those of a job that was killed.     *)
(*                                                                         *)
(* Left out: t1 and t2, shared by all bodies and written by each when it   *)
(* reads the head of its table, since nothing reads them afterwards.       *)
(***************************************************************************)
EXTENDS Integers, Sequences, FiniteSets

CONSTANTS
  Workers, main, nobody,
  allDims,               (* the list of dimensions read; here, only .n     *)
  num_groups_of_order,   (* for each order, the number of groups           *)
  startDim, endDim,      (* the indices to search, endDim excluded         *)
  MULTIPLIER,
  Solvable               (* the << dim_index, g_id >> that have a PDS      *)

Dim == startDim..(endDim-1)
Group(i) == 1..num_groups_of_order[allDims[i].n]
Pairs == UNION { { << i, g >> : g \in Group(i) } : i \in Dim }

Calls == { << >> } \cup { << d >> : d \in Dim } \cup Pairs

ASSUME SearchManyAssumption ==
  /\ startDim \in Nat
  /\ endDim \in Nat
  /\ MULTIPLIER \in Nat
  /\ \A i \in Dim : allDims[i].n \in Nat
  /\ \A i \in Dim : num_groups_of_order[allDims[i].n] \in Nat
  /\ nobody \notin Workers \cup Calls
  /\ main \in Workers

VARIABLES
  status, waits, runs,   (* the two parallel loops (ParallelFor)           *)
  at,                    (* where the body of a pair is                    *)
  trial,                 (* its loop variable i, the trials run so far      *)
  found_success,         (* its flag                                       *)
  m,                     (* who holds the mutex                            *)
  buffer,                (* std::cout: printed, not flushed                *)
  file                   (* std::cout: flushed                             *)

loops  == << status, waits, runs >>
locals == << at, trial, found_success >>
output == << buffer, file >>
vars == << loops, locals, m, output >>

PF == INSTANCE ParallelFor WITH
  Depth  <- 2,
  NoCall <- nobody

NUM_TRIALS(p) == MULTIPLIER * allDims[p[1]].n * allDims[p[1]].n

(* The pieces of a line: the dimensions and the group; the set; the number *)
(* of the trial that found it; or the number of trials that found nothing. *)
Piece(p, part, num) == [ pair |-> p, part |-> part, tri |-> num ]

Init ==
  /\ PF!PFInit
  /\ at = [ p \in Pairs |-> "table" ]
  /\ trial = [ p \in Pairs |-> 0 ]
  /\ found_success = [ p \in Pairs |-> FALSE ]
  /\ m = nobody
  /\ buffer = << >>
  /\ file = << >>

Goto(p, from, to) == at[p] = from /\ at' = [ at EXCEPT ![p] = to ]

-----------------------------------------------------------------------------
(* parallel_for hands a dimension, or a group of it, to a worker.          *)
Begin(w, c) ==
  /\ PF!Begin(w, c)
  /\ UNCHANGED << locals, m, output >>

(* Reading the table of the group.                                         *)
ReadTable(w, p) ==
  /\ Goto(p, "table", "trials")
  /\ UNCHANGED << loops, trial, found_success, m, output >>

(* Mutant: found_success is not set.                                       *)
SucceedUnmarked(w, p) ==
  /\ trial[p] < NUM_TRIALS(p)
  /\ p \in Solvable
  /\ Goto(p, "trials", "found")
  /\ UNCHANGED << loops, trial, found_success, m, output >>

(* A trial that finds a set of error 0.                                    *)
Succeed(w, p) ==
  /\ trial[p] < NUM_TRIALS(p)
  /\ p \in Solvable
  /\ Goto(p, "trials", "found")
  /\ found_success' = [ found_success EXCEPT ![p] = TRUE ]
  /\ UNCHANGED << loops, trial, m, output >>

(* Mutant: the trial is not counted.                                       *)
FailUncounted(w, p) ==
  /\ at[p] = "trials"
  /\ trial[p] < NUM_TRIALS(p)
  /\ UNCHANGED vars

(* Mutant: the loop runs while i <= NUM_TRIALS.                            *)
FailOnceMore(w, p) ==
  /\ at[p] = "trials"
  /\ trial[p] <= NUM_TRIALS(p)
  /\ trial' = [ trial EXCEPT ![p] = @ + 1 ]
  /\ UNCHANGED << loops, at, found_success, m, output >>

(* A trial that does not.                                                  *)
Fail(w, p) ==
  /\ at[p] = "trials"
  /\ trial[p] < NUM_TRIALS(p)
  /\ trial' = [ trial EXCEPT ![p] = @ + 1 ]
  /\ UNCHANGED << loops, at, found_success, m, output >>

(* The trials are used up.                                                 *)
GiveUp(w, p) ==
  /\ trial[p] >= NUM_TRIALS(p)
  /\ Goto(p, "trials", "left")
  /\ UNCHANGED << loops, trial, found_success, m, output >>

(* Mutant: no lock is taken to print the set.                              *)
LockNothing(w, p) ==
  /\ \/ Goto(p, "found", "head")
     \/ ~found_success[p] /\ Goto(p, "left", "none head")
  /\ UNCHANGED << loops, trial, found_success, m, output >>

(* Taking the mutex, to print the set or to print that there is none.      *)
Lock(w, p) ==
  /\ \/ Goto(p, "found", "head")
     \/ ~found_success[p] /\ Goto(p, "left", "none head")
  /\ m = nobody
  /\ m' = w
  /\ UNCHANGED << loops, trial, found_success, output >>

(* The operators << on std::cout, one by one; std::endl flushes.           *)
PrintHead(w, p) ==
  /\ Goto(p, "head", "set") \/ Goto(p, "none head", "none")
  /\ buffer' = Append(buffer, Piece(p, "head", 0))
  /\ UNCHANGED << loops, trial, found_success, m, file >>

PrintSet(w, p) ==
  /\ Goto(p, "set", "tri")
  /\ buffer' = Append(buffer, Piece(p, "set", 0))
  /\ UNCHANGED << loops, trial, found_success, m, file >>

PrintEnd(w, p) ==
  /\ \/ /\ Goto(p, "tri", "unlock")
        /\ file' = file \o Append(buffer, Piece(p, "tri", trial[p] + 1))
     \/ /\ Goto(p, "none", "none unlock")
        /\ file' = file \o Append(buffer, Piece(p, "none", NUM_TRIALS(p)))
  /\ buffer' = << >>
  /\ UNCHANGED << loops, trial, found_success, m >>

(* Giving the mutex back; after a set, the break out of the trials.        *)
Unlock(w, p) ==
  /\ Goto(p, "unlock", "left") \/ Goto(p, "none unlock", "end")
  /\ m' = nobody
  /\ UNCHANGED << loops, trial, found_success, output >>

(* The body returns.                                                       *)
Finish(w, p) ==
  /\ at[p] = "end" \/ (at[p] = "left" /\ found_success[p])
  /\ PF!Finish(w)
  /\ UNCHANGED << locals, m, output >>

Step(w, p) ==
  \/ ReadTable(w, p) \/ Succeed(w, p) \/ Fail(w, p) \/ GiveUp(w, p)
  \/ Lock(w, p) \/ Unlock(w, p)
  \/ PrintHead(w, p) \/ PrintSet(w, p) \/ PrintEnd(w, p)
  \/ Finish(w, p)

(* A parallel_for returns.                                                 *)
Join(w) ==
  /\ PF!Join(w)
  /\ UNCHANGED << locals, m, output >>

Exited == status[<< >>] = "done"

Next ==
  \/ \E w \in Workers :
       \/ \E c \in Calls : Begin(w, c)
       \/ runs[w] # nobody /\ Step(w, runs[w])
       \/ Join(w)
  \/ Exited /\ UNCHANGED vars

Spec == Init /\ [][Next]_vars

(* Some thread runs on as long as one can.                                 *)
FairSpec == Spec /\ WF_vars(Next)

-----------------------------------------------------------------------------
Places == { "table", "trials", "found", "head", "set", "tri", "left",
            "unlock", "none head", "none", "none unlock", "end" }

Output == Seq([ pair : Pairs, part : {"head", "set", "tri", "none"}, tri : Nat ])

(* The types of all variables.                                             *)
TypeOK ==
  /\ PF!PFTypeOK
  /\ at \in [Pairs -> Places]
  /\ trial \in [Pairs -> Nat]
  /\ \A p \in Pairs : trial[p] <= NUM_TRIALS(p)
  /\ found_success \in [Pairs -> BOOLEAN]
  /\ m \in Workers \cup {nobody}
  /\ buffer \in Output
  /\ file \in Output

(* What may follow a piece within its line.                                *)
Continues(x, y) ==
  /\ x.pair = y.pair
  /\ << x.part, y.part >> \in
       { << "head", "set" >>, << "set", "tri" >>, << "head", "none" >> }

EndOfLine(x) == x.part \in {"tri", "none"}

(* Whole lines: each begins with its head, goes on with pieces of the same *)
(* pair, and is complete before the next begins.                           *)
WholeLines(s) ==
  /\ s # << >> => s[1].part = "head" /\ EndOfLine(s[Len(s)])
  /\ \A j \in 1..(Len(s) - 1) :
       IF EndOfLine(s[j]) THEN s[j+1].part = "head" ELSE Continues(s[j], s[j+1])

(* What has reached the output file consists of whole lines at any time,   *)
(* so the scripts can take apart each line even if the job is killed: the  *)
(* "mutex for printing" keeps others out until endl has flushed the line.  *)
FileWhole == WholeLines(file)

(* "max 1 success per parameter-group pair", and never a success and a     *)
(* None for the same pair: no pair gets two lines.                         *)
OneLine ==
  \A j, l \in DOMAIN file :
    file[j].part = "head" /\ file[l].part = "head"
      /\ file[j].pair = file[l].pair => j = l

(* When main returns, each pair of the range has its line, and it is       *)
(* "None in Tri" exactly if all the trials it was due have failed.         *)
ExitComplete ==
  Exited =>
    /\ m = nobody /\ buffer = << >>
    /\ \A p \in Pairs : \E j \in DOMAIN file :
         /\ file[j].pair = p
         /\ IF found_success[p]
            THEN file[j].part = "tri" /\ file[j].tri \in 1..NUM_TRIALS(p)
            ELSE file[j].part = "none" /\ trial[p] = NUM_TRIALS(p)

(* The program ends: no worker waits for the mutex, or in a loop, for ever.*)
Termination == <>Exited
=============================================================================
