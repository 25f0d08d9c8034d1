------------------------ MODULE SearchParallelProofs ------------------------
(***************************************************************************)
(* Proofs about SearchParallel, for any number of workers and trials: its  *)
(* types, that listings come out whole, and that it implements TrialReport,*)
(* which is to say that the verdict main prints is right.  Then about the  *)
(* drivers that count successes, for any number of groups and trials: that *)
(* the tallies are true, and that search64_par implements Survey.          *)
(***************************************************************************)
EXTENDS MCSearchParallel, SequenceTheorems, FiniteSetTheorems, TLAPS

(* The places of a body between lock and unlock.                           *)
Holding == { "locked", "head", "set", "endl", "unlock" }

(* A body runs on one worker at most, and only between its begin and end.  *)
InvRuns ==
  /\ \A w \in Workers : runs[w] # nobody => status[runs[w]] = "running"
  /\ \A w, v \in Workers : runs[w] = runs[v] /\ runs[w] # nobody => w = v
  /\ \A i \in Trials : status[i] = "open" => at[i] = "search"
  /\ \A i \in Trials : status[i] = "done" => at[i] = "left"

(* A body in the section holds the mutex.                                  *)
InvMutex ==
  \A i \in Trials : at[i] \in Holding => \E w \in Workers : runs[w] = i /\ m = w

(* main is past the loop only if all trials are, and done only after that. *)
InvJoin ==
  /\ status[<< >>] = "done" => \A i \in Trials : status[i] = "done"
  /\ told => status[<< >>] = "done"

(* Who has found a set, and when success is set.                           *)
InvSolved ==
  /\ \A i \in Trials : at[i] \in Holding \cup {"found"} => solved[i]
  /\ \A i \in Trials : at[i] = "search" => ~solved[i]
  /\ success <=> \E i \in Trials : solved[i] /\ at[i] \notin {"found", "locked"}

(* The buffer holds a set only between its printing and the flush.         *)
InvBuffer ==
  /\ (\A i \in Trials : at[i] # "endl") => buffer = << >>
  /\ \A i \in Trials : at[i] = "endl" => buffer = << Piece(i, "set") >>

(* Which sets are in the file; and whose listing, if any, is under way.    *)
InvFile ==
  /\ \A i \in Trials : i \in Listed <=> solved[i] /\ at[i] \in {"unlock", "left"}
  /\ \A i \in Trials : at[i] \in {"set", "endl"} =>
       Len(file) > 0 /\ file[Len(file)] = Piece(i, "PDS")
  /\ Len(file) > 0 /\ file[Len(file)].part = "PDS" =>
       \E i \in Trials : at[i] \in {"set", "endl"}

(* The closing words.                                                      *)
InvTold ==
  IF told
  THEN (\E j \in DOMAIN file : file[j] = NoPDSs) <=> ~success
  ELSE \A j \in DOMAIN file : file[j] # NoPDSs

Control == TypeOK /\ InvRuns /\ InvMutex /\ InvJoin /\ InvSolved
Printed == InvBuffer /\ InvFile /\ InvTold /\ ListingsWhole
Inv == Control /\ Printed

(* A step of the implementation is a step of TrialReport or changes        *)
(* nothing there.                                                          *)
Maps == [TR!TRNext]_(TR!trvars)
-----------------------------------------------------------------------------
(* The calls at the bottom are the trials.                                 *)
LEMMA Shape ==
  /\ << >> \in Calls /\ << >> \in PF!Loops
  /\ PF!Bodies = Trials
  /\ PF!Loops = { << >> }
  /\ \A i \in Trials : i \in Calls /\ i # << >>
  /\ PF!Children(<< >>) = Trials
  /\ nobody \notin Calls /\ nobody \notin Workers
<1>1. \A i \in Trials : Len(i) = 1
  BY DEF Trials
<1>2. Len(<< >>) = 0
  OBVIOUS
<1>3. Calls = { << >> } \cup Trials
  BY DEF Calls
<1>4. /\ \A i \in Trials : i # << >>
      /\ \A c \in Calls : Len(c) < 1 <=> c = << >>
  BY <1>1, <1>2, <1>3
<1>5. ASSUME NEW i \in Trials PROVE PF!Parent(i) = << >>
  <2>1. PICK x \in 0..(NUM_TRIALS-1) : i = << x >>
    BY DEF Trials
  <2>2. SubSeq(<< x >>, 1, Len(<< x >>) - 1) = << >>
    OBVIOUS
  <2> QED  BY <2>1, <2>2 DEF PF!Parent
<1>6. PF!Children(<< >>) = Trials
  BY <1>3, <1>4, <1>5 DEF PF!Children
<1> QED  BY <1>3, <1>4, <1>6, SearchParallelAssumption DEF PF!Bodies, PF!Loops

(* Everything holds when main enters the loop.                             *)
LEMMA InitInv == Init => Inv /\ TR!TRInit
<1> SUFFICES ASSUME Init PROVE Inv /\ TR!TRInit
  OBVIOUS
<1> USE DEF Init
<1>0. << >> \in PF!Loops /\ << >> \in Calls
  BY Shape
<1>1. PF!PFTypeOK
  <2>1. status \in [Calls -> {"open", "running", "done"}]
    BY DEF PF!PFInit
  <2>2. waits \in [Workers -> Seq(PF!Loops)]
    BY <1>0 DEF PF!PFInit
  <2>3. runs \in [Workers -> PF!Bodies \cup {nobody}]
    BY DEF PF!PFInit
  <2> QED  BY <2>1, <2>2, <2>3 DEF PF!PFTypeOK
<1>2. TypeOK
  <2>1. << >> \in Output
    BY DEF Output
  <2> QED  BY <1>1, <2>1 DEF TypeOK
<1>8. status[<< >>] = "running" /\ \A i \in Trials : status[i] = "open"
  BY Shape DEF PF!PFInit
<1>9. \A w \in Workers : runs[w] = nobody
  BY DEF PF!PFInit
<1>3. InvRuns /\ InvJoin
  BY <1>8, <1>9 DEF InvRuns, InvJoin
<1>7. InvMutex /\ InvSolved
  BY DEF InvMutex, InvSolved, Holding
<1>4. file = << >> /\ DOMAIN file = {} /\ Len(file) = 0
  OBVIOUS
<1>5. Printed
  BY <1>4 DEF Printed, InvBuffer, InvFile, InvTold, ListingsWhole, Listed
<1>6. TR!TRInit
  BY <1>4 DEF TR!TRInit, Listed, Failed, Verdict
<1> QED  BY <1>2, <1>3, <1>5, <1>6, <1>7 DEF Inv, Control
-----------------------------------------------------------------------------
(* Only one body at a time is between lock and unlock.                     *)
LEMMA Alone ==
  ASSUME Control, NEW i \in Trials, NEW j \in Trials,
         at[i] \in Holding, at[j] \in Holding
  PROVE  i = j
  BY DEF Control, InvMutex

(* A step of one body before it returns: what it does to the variables of  *)
(* other bodies, which is nothing, and where it may lead.                  *)
LEMMA BodyStep ==
  ASSUME Control, NEW w \in Workers, NEW i \in Trials, runs[w] = i,
         \/ Search(w, i) \/ Lock(w, i) \/ Mark(w, i) \/ Unlock(w, i)
         \/ PrintHead(w, i) \/ PrintSet(w, i) \/ Flush(w, i)
  PROVE  /\ UNCHANGED << status, waits, runs, told >>
         /\ i # nobody /\ w # nobody /\ status[i] = "running"
         /\ \A j \in Trials : j # i => at'[j] = at[j] /\ solved'[j] = solved[j]
         /\ at' = [ at EXCEPT ![i] = at'[i] ]
         /\ << at[i], at'[i] >> \in
              { << "search", "found" >>, << "search", "left" >>,
                << "found", "locked" >>, << "locked", "head" >>,
                << "head", "set" >>, << "set", "endl" >>,
                << "endl", "unlock" >>, << "unlock", "left" >> }
         /\ solved' \in [Trials -> BOOLEAN]
         /\ at[i] # "search" => solved'[i] = solved[i]
         /\ at[i] = "search" => (solved'[i] <=> solved[i] \/ at'[i] = "found")
         /\ at[i] # "locked" => success' = success
         /\ at[i] = "locked" => success' = TRUE
         /\ at[i] = "found" => m = nobody /\ m' = w
         /\ at[i] = "unlock" => m' = nobody
         /\ at[i] \notin {"found", "unlock"} => m' = m
<1>1. /\ at \in [Trials -> { "search", "found", "locked", "head", "set", "endl",
                             "unlock", "left" }]
      /\ solved \in [Trials -> BOOLEAN]
      /\ i # nobody /\ w # nobody /\ status[i] = "running"
  BY Shape DEF Control, TypeOK, InvRuns
<1>2. CASE Search(w, i)
  BY <1>1, <1>2 DEF Search, Goto, loops
<1>3. CASE Lock(w, i) \/ Mark(w, i) \/ Unlock(w, i)
  BY <1>1, <1>3 DEF Lock, Mark, Unlock, Goto, loops
<1>4. CASE PrintHead(w, i) \/ PrintSet(w, i) \/ Flush(w, i)
  BY <1>1, <1>4 DEF PrintHead, PrintSet, Flush, Goto, loops
<1> QED  BY <1>2, <1>3, <1>4

(* Such a step keeps what is said of all but the output.                   *)
LEMMA BodyControl ==
  ASSUME Control, NEW w \in Workers, NEW i \in Trials, runs[w] = i,
         \/ Search(w, i) \/ Lock(w, i) \/ Mark(w, i) \/ Unlock(w, i)
         \/ PrintHead(w, i) \/ PrintSet(w, i) \/ Flush(w, i),
         buffer' \in Output, file' \in Output
  PROVE  Control'
<1>1. /\ UNCHANGED << status, waits, runs, told >>
      /\ i # nobody /\ w # nobody /\ status[i] = "running"
      /\ \A j \in Trials : j # i => at'[j] = at[j] /\ solved'[j] = solved[j]
      /\ at' = [ at EXCEPT ![i] = at'[i] ]
      /\ << at[i], at'[i] >> \in
           { << "search", "found" >>, << "search", "left" >>,
             << "found", "locked" >>, << "locked", "head" >>,
             << "head", "set" >>, << "set", "endl" >>,
             << "endl", "unlock" >>, << "unlock", "left" >> }
      /\ solved' \in [Trials -> BOOLEAN]
      /\ at[i] # "search" => solved'[i] = solved[i]
      /\ at[i] = "search" => (solved'[i] <=> solved[i] \/ at'[i] = "found")
      /\ at[i] # "locked" => success' = success
      /\ at[i] = "locked" => success' = TRUE
      /\ at[i] = "found" => m = nobody /\ m' = w
      /\ at[i] = "unlock" => m' = nobody
      /\ at[i] \notin {"found", "unlock"} => m' = m
  BY BodyStep
<1> USE DEF Control
<1>2. \/ at[i] = "search" /\ at'[i] \in {"found", "left"}
      \/ at[i] = "found" /\ at'[i] = "locked"
      \/ at[i] = "unlock" /\ at'[i] = "left"
      \/ at[i] \in {"locked", "head", "set", "endl"} /\ at'[i] \in Holding
  <2>1. << at[i], at'[i] >> \in
           { << "search", "found" >>, << "search", "left" >>,
             << "found", "locked" >>, << "locked", "head" >>,
             << "head", "set" >>, << "set", "endl" >>,
             << "endl", "unlock" >>, << "unlock", "left" >> }
    BY <1>1
  <2> QED
    BY <2>1 DEF Holding
<1>3. TypeOK'
  <2>1. at' \in [Trials -> { "search", "found", "locked", "head", "set", "endl",
                             "unlock", "left" }]
    BY <1>1, <1>2 DEF TypeOK, Holding
  <2>2. m' # nobody => runs'[m'] # nobody /\ at'[runs'[m']] \in Holding
    <3>1. m # nobody => runs[m] # nobody /\ at[runs[m]] \in Holding
                        /\ runs[m] \in Trials /\ m \in Workers
      BY Shape DEF TypeOK, Holding, PF!PFTypeOK
    <3>2. CASE at[i] \in {"search", "unlock"}
      BY <1>1, <1>2, <3>1, <3>2 DEF Holding
    <3>3. CASE at[i] = "found"
      BY <1>1, <1>2, <3>3 DEF Holding
    <3>4. CASE at[i] \in {"locked", "head", "set", "endl"}
      BY <1>1, <1>2, <3>1, <3>4
    <3> QED  BY <1>2, <3>2, <3>3, <3>4
  <2>3. m' \in Workers \cup {nobody} /\ success' \in BOOLEAN
    BY <1>1 DEF TypeOK
  <2> QED  BY <1>1, <2>1, <2>2, <2>3 DEF TypeOK, Holding, PF!PFTypeOK
<1>4. InvRuns'
  BY <1>1 DEF InvRuns
<1>5. InvMutex'
  <2>1. CASE at[i] = "found"
    <3>1. \A j \in Trials : at[j] \notin Holding
      BY <1>1, <2>1, Shape DEF InvMutex
    <3> QED  BY <1>1, <2>1, <3>1 DEF InvMutex
  <2>2. CASE at[i] = "unlock"
    <3>1. \A j \in Trials : j # i => at[j] \notin Holding
      BY <2>2, Alone DEF Holding
    <3> QED  BY <1>1, <1>2, <2>2, <3>1 DEF InvMutex, Holding
  <2>3. CASE at[i] \in {"search", "locked", "head", "set", "endl"}
    <3>1. \A j \in Trials : at'[j] \in Holding => at[j] \in Holding
      BY <1>1, <1>2, <2>3 DEF Holding
    <3> QED  BY <1>1, <2>3, <3>1 DEF InvMutex
  <2> QED  BY <1>2, <2>1, <2>2, <2>3
<1>6. InvJoin'
  BY <1>1 DEF InvJoin
<1>7. InvSolved'
  <2>1. /\ \A j \in Trials : at'[j] \in Holding \cup {"found"} => solved'[j]
        /\ \A j \in Trials : at'[j] = "search" => ~solved'[j]
    BY <1>1, <1>2 DEF InvSolved, Holding
  <2>2. CASE at[i] = "locked"
    <3>1. solved'[i] /\ at'[i] = "head" /\ success' = TRUE
      BY <1>1, <2>2 DEF InvSolved, Holding
    <3> QED  BY <2>1, <3>1 DEF InvSolved
  <2>3. CASE at[i] # "locked"
    <3>1. /\ solved'[i] /\ at'[i] \notin {"found", "locked"} <=>
               solved[i] /\ at[i] \notin {"found", "locked"}
          /\ success' = success
      BY <1>1, <1>2, <2>3 DEF InvSolved, Holding
    <3> QED  BY <1>1, <2>1, <3>1 DEF InvSolved
  <2> QED  BY <2>2, <2>3
<1> QED  BY <1>3, <1>4, <1>5, <1>6, <1>7
-----------------------------------------------------------------------------
(* A step that touches neither the output nor the bodies.                  *)
LEMMA Silent ==
  ASSUME Printed, UNCHANGED << at, solved, success, buffer, file, told >>
  PROVE  Printed' /\ Maps
<1>1. Listed' = Listed /\ Failed' = Failed /\ Verdict' = Verdict
  BY DEF Listed, Failed, Verdict
<1>2. Printed'
  BY <1>1 DEF Printed, InvBuffer, InvFile, InvTold, ListingsWhole
<1> QED  BY <1>1, <1>2 DEF Maps, TR!trvars

(* A body steps, but nothing is printed.                                   *)
LEMMA Unprinting ==
  ASSUME Inv, NEW w \in Workers, NEW i \in Trials, runs[w] = i,
         Search(w, i) \/ Lock(w, i) \/ Mark(w, i) \/ Unlock(w, i)
  PROVE  Inv' /\ Maps
<1>1. UNCHANGED << buffer, file, told >>
  BY DEF Search, Lock, Mark, Unlock
<1>2. Control'
  BY <1>1, BodyControl DEF Inv, Control, TypeOK
<1>3. Listed' = Listed
  BY <1>1 DEF Listed
<1>4. /\ status[i] = "running"
      /\ \A j \in Trials : j # i => at'[j] = at[j] /\ solved'[j] = solved[j]
      /\ << at[i], at'[i] >> \in
           { << "search", "found" >>, << "search", "left" >>,
             << "found", "locked" >>, << "locked", "head" >>,
             << "unlock", "left" >> }
      /\ at[i] # "search" => solved'[i] = solved[i]
      /\ at[i] = "search" => (solved'[i] <=> solved[i] \/ at'[i] = "found")
      /\ success \/ at[i] = "locked" => success'
      /\ at[i] # "locked" => success' = success
  <2>1. at[i] \in {"search", "found", "locked", "unlock"}
    BY DEF Search, Lock, Mark, Unlock, Goto
  <2> QED  BY <2>1, BodyStep DEF Inv
<1>5. ~told
  BY <1>4 DEF Inv, Control, InvJoin
<1>6. solved[i] \/ at[i] = "search"
  BY <1>4 DEF Inv, Control, InvSolved, Holding
<1>7. at[i] = "search" => ~solved[i]
  BY DEF Inv, Control, InvSolved
<1>8. Printed'
  <2>1. InvBuffer'
    BY <1>1, <1>4 DEF Inv, Printed, InvBuffer, Piece
  <2>2. InvFile'
    <3>1. \A j \in Trials : j \in Listed' <=> solved'[j] /\ at'[j] \in {"unlock", "left"}
      BY <1>3, <1>4, <1>6, <1>7 DEF Inv, Printed, InvFile
    <3>2. \A j \in Trials : at'[j] \in {"set", "endl"} <=> at[j] \in {"set", "endl"}
      BY <1>4
    <3> QED  BY <1>1, <3>1, <3>2 DEF Inv, Printed, InvFile, Piece
  <2>3. InvTold' /\ ListingsWhole'
    BY <1>1, <1>5 DEF Inv, Printed, InvTold, ListingsWhole, Piece
  <2> QED  BY <2>1, <2>2, <2>3 DEF Printed
<1>9. Verdict' = "pending" /\ Verdict = "pending"
  BY <1>1, <1>5 DEF Verdict
<1>10. Maps
  <2>1. CASE at'[i] = "left" /\ at[i] = "search"
    <3>1. Failed' = Failed \cup {i}
      BY <1>4, <1>7, <2>1 DEF Failed
    <3>2. i \notin Listed \cup Failed
      BY <1>7, <2>1 DEF Failed, Inv, Printed, InvFile
    <3> QED  BY <1>3, <1>9, <3>1, <3>2 DEF Maps, TR!TRNext, TR!Conclude
  <2>2. CASE ~(at'[i] = "left" /\ at[i] = "search")
    <3>1. Failed' = Failed
      BY <1>4, <1>6, <2>2 DEF Failed
    <3> QED  BY <1>3, <1>9, <3>1 DEF Maps, TR!trvars
  <2> QED  BY <2>1, <2>2
<1> QED  BY <1>2, <1>8, <1>10 DEF Inv
-----------------------------------------------------------------------------
(* What a piece of output may be.                                          *)
Pieces == [ trial : Calls, part : {"PDS", "set", "No PDSs found"} ]

(* The pieces of output that are printed.                                  *)
LEMMA PieceType ==
  /\ \A i \in Trials : /\ Piece(i, "PDS") \in Pieces
                       /\ Piece(i, "set") \in Pieces
  /\ NoPDSs \in Pieces
  /\ \A i, j \in Trials : /\ Piece(i, "set") = Piece(j, "set") <=> i = j
                          /\ Piece(i, "set") # Piece(j, "PDS")
  /\ \A i \in Trials : Piece(i, "set") # NoPDSs /\ Piece(i, "PDS") # NoPDSs
  /\ \A i \in Calls : \A p : /\ Piece(i, p).trial = i
                              /\ Piece(i, p).part = p
  BY Shape DEF Pieces, Piece, NoPDSs

(* One more piece of output, wherever it went before.                      *)
LEMMA OneMore ==
  ASSUME NEW s \in Output, NEW x \in Pieces
  PROVE  /\ s \o << x >> \in Output
         /\ s \o << >> = s
         /\ Append(<< >>, x) = << x >>
         /\ << x >> \in Output
         /\ Len(s) \in Nat
         /\ DOMAIN s = 1..Len(s)
         /\ DOMAIN (s \o << x >>) = 1..(Len(s) + 1)
         /\ Len(s \o << x >>) = Len(s) + 1
         /\ \A j \in 1..Len(s) : (s \o << x >>)[j] = s[j]
         /\ (s \o << x >>)[Len(s) + 1] = x
<1>1. Output = Seq(Pieces)
  BY DEF Output, Pieces
<1> HIDE DEF Pieces
<1>2. s \in Seq(Pieces) /\ << x >> \in Seq(Pieces)
  BY <1>1
<1>3. Len(<< x >>) = 1 /\ << x >>[1] = x
  OBVIOUS
<1>4. s \o << >> = s
  BY <1>2, ConcatEmptySeq
<1>5. Append(<< >>, x) = << x >>
  OBVIOUS
<1> QED  BY <1>1, <1>2, <1>3, <1>4, <1>5
(* A body that prints: who does not, and what it finds.                    *)
LEMMA Printing ==
  ASSUME Inv, NEW w \in Workers, NEW i \in Trials, runs[w] = i, at[i] \in Holding
  PROVE  /\ ~told
         /\ solved[i]
         /\ file \in Output /\ buffer \in Output
         /\ \A j \in Trials : j # i => at[j] \notin {"locked", "head", "set", "endl", "unlock"}
         /\ at[i] # "endl" => buffer = << >>
<1>1. ~told /\ solved[i]
  BY Shape DEF Inv, Control, InvJoin, InvRuns, InvSolved
<1>2. \A j \in Trials : j # i => at[j] \notin {"locked", "head", "set", "endl", "unlock"}
  BY Alone DEF Inv, Holding
<1>3. at[i] # "endl" => buffer = << >>
  BY <1>2 DEF Inv, Printed, InvBuffer
<1> QED  BY <1>1, <1>2, <1>3 DEF Inv, Control, TypeOK

(* The head of a listing.                                                  *)
LEMMA PrintHeadInv ==
  ASSUME Inv, NEW w \in Workers, NEW i \in Trials, runs[w] = i, PrintHead(w, i)
  PROVE  Inv' /\ Maps
<1> DEFINE x == Piece(i, "PDS")
<1>1. at[i] = "head" /\ at[i] \in Holding
  BY DEF PrintHead, Goto, Holding
<1>2. /\ ~told /\ solved[i]
      /\ file \in Output
      /\ \A j \in Trials : j # i => at[j] \notin {"locked", "head", "set", "endl", "unlock"}
      /\ buffer = << >>
  BY <1>1, Printing
<1>3. /\ x \in Pieces /\ x # NoPDSs /\ x.part = "PDS"
      /\ \A j \in Trials : x # Piece(j, "set")
  BY PieceType, Shape
<1> HIDE DEF x
<1>4. file' = file \o << x >> /\ buffer' = << >> /\ told' = told
  BY <1>2, <1>3, OneMore DEF PrintHead, x
<1>5. /\ file' \in Output /\ buffer' \in Output
      /\ Len(file) \in Nat
      /\ DOMAIN file = 1..Len(file)
      /\ DOMAIN file' = 1..(Len(file) + 1)
      /\ Len(file') = Len(file) + 1
      /\ \A j \in 1..Len(file) : file'[j] = file[j]
      /\ file'[Len(file) + 1] = x
  <2>1. << >> \in Output
    BY DEF Output
  <2> QED  BY <1>2, <1>3, <1>4, <2>1, OneMore
<1>6. /\ at'[i] = "set"
      /\ \A j \in Trials : j # i => at'[j] = at[j]
      /\ solved' = solved /\ success' = success
  <2>1. at \in [Trials -> { "search", "found", "locked", "head", "set", "endl",
                           "unlock", "left" }]
    BY DEF Inv, Control, TypeOK
  <2> QED  BY <2>1 DEF PrintHead, Goto
<1>7. Listed' = Listed /\ Failed' = Failed
  <2>1. \A j \in Trials : j \in Listed' <=> j \in Listed
    BY <1>3, <1>5 DEF Listed
  <2> QED  BY <2>1, <1>1, <1>6 DEF Failed, Listed
<1>8. Control'
  BY <1>5, BodyControl DEF Inv
<1>9. InvBuffer'
  BY <1>2, <1>4, <1>6 DEF InvBuffer
<1>10. InvFile'
  <2>1. \A j \in Trials : j \in Listed' <=> solved'[j] /\ at'[j] \in {"unlock", "left"}
    BY <1>1, <1>6, <1>7 DEF Inv, Printed, InvFile
  <2>2. \A j \in Trials : at'[j] \in {"set", "endl"} <=> j = i
    BY <1>2, <1>6
  <2> QED  BY <1>5, <2>1, <2>2 DEF InvFile, x, Piece
<1>11. InvTold'
  <2>1. \A j \in DOMAIN file : file[j] # NoPDSs
    BY <1>2 DEF Inv, Printed, InvTold
  <2>2. \A j \in DOMAIN file' : file'[j] # NoPDSs
    BY <1>3, <1>5, <2>1
  <2> QED  BY <1>2, <1>4, <2>2 DEF InvTold, NoPDSs, Piece
<1>12. ListingsWhole'
  <2>1. Len(file) > 0 => file[Len(file)].part # "PDS"
    BY <1>1, <1>2 DEF Inv, Printed, InvFile
  <2>2. \A j \in 1..Len(file) :
          /\ file[j].part = "PDS" /\ j < Len(file) => file[j+1] = Piece(file[j].trial, "set")
          /\ file[j].part = "set" => j > 1 /\ file[j-1] = Piece(file[j].trial, "PDS")
    BY <1>5 DEF Inv, Printed, ListingsWhole
  <2>3. ASSUME NEW j \in 1..(Len(file) + 1)
        PROVE  /\ file'[j].part = "PDS" /\ j < Len(file) + 1 =>
                     file'[j+1] = Piece(file'[j].trial, "set")
               /\ file'[j].part = "set" =>
                     j > 1 /\ file'[j-1] = Piece(file'[j].trial, "PDS")
    <3>1. CASE j = Len(file) + 1
      BY <1>3, <1>5, <3>1
    <3>2. CASE j = Len(file)
      <4>1. file'[j] = file[j] /\ file[j].part # "PDS"
        BY <1>5, <2>1, <3>2
      <4>2. file[j].part = "set" => j > 1 /\ j-1 \in 1..Len(file)
        BY <1>5, <2>2, <3>2
      <4> QED  BY <1>5, <2>2, <3>2, <4>1, <4>2
    <3>3. CASE j < Len(file)
      <4>1. file'[j] = file[j] /\ j+1 \in 1..Len(file) /\ file'[j+1] = file[j+1]
        BY <1>5, <3>3
      <4>2. j > 1 => file'[j-1] = file[j-1]
        BY <1>5, <3>3
      <4> QED  BY <1>5, <2>2, <3>3, <4>1, <4>2
    <3>4. Len(file) \in Nat
      BY <1>5
    <3>5. j = Len(file) + 1 \/ j = Len(file) \/ j < Len(file)
      BY <3>4
    <3> QED  BY <3>1, <3>2, <3>3, <3>5
  <2> QED  BY <1>5, <2>3 DEF ListingsWhole, Piece
<1>13. Maps
  BY <1>2, <1>4, <1>7 DEF Maps, TR!trvars, Verdict
<1> QED  BY <1>8, <1>9, <1>10, <1>11, <1>12, <1>13 DEF Inv, Printed

(* The set goes into the buffer.                                           *)
LEMMA PrintSetInv ==
  ASSUME Inv, NEW w \in Workers, NEW i \in Trials, runs[w] = i, PrintSet(w, i)
  PROVE  Inv' /\ Maps
<1>1. at[i] = "set" /\ at[i] \in Holding
  BY DEF PrintSet, Goto, Holding
<1>2. /\ ~told /\ solved[i]
      /\ file \in Output
      /\ \A j \in Trials : j # i => at[j] \notin {"locked", "head", "set", "endl", "unlock"}
      /\ buffer = << >>
  BY <1>1, Printing
<1>3. /\ Piece(i, "set") \in Pieces
      /\ file' = file /\ told' = told
      /\ solved' = solved /\ success' = success
  BY PieceType DEF PrintSet
<1>4. buffer' = << Piece(i, "set") >> /\ buffer' \in Output
  BY <1>2, <1>3, OneMore DEF PrintSet
<1>5. at'[i] = "endl" /\ \A j \in Trials : j # i => at'[j] = at[j]
  <2>1. at \in [Trials -> { "search", "found", "locked", "head", "set", "endl",
                           "unlock", "left" }]
    BY DEF Inv, Control, TypeOK
  <2> QED  BY <2>1 DEF PrintSet, Goto
<1>6. Control'
  BY <1>2, <1>3, <1>4, BodyControl DEF Inv
<1>7. Listed' = Listed /\ Failed' = Failed /\ Verdict' = Verdict
  BY <1>1, <1>3, <1>5 DEF Listed, Failed, Verdict
<1>8. InvBuffer'
  BY <1>2, <1>4, <1>5 DEF InvBuffer, Piece
<1>9. InvFile'
  <2>1. \A j \in Trials : /\ at'[j] \in {"set", "endl"} <=> at[j] \in {"set", "endl"}
                          /\ at'[j] \in {"unlock", "left"} <=> at[j] \in {"unlock", "left"}
    BY <1>1, <1>5
  <2> QED  BY <1>3, <1>7, <2>1 DEF Inv, Printed, InvFile, Piece
<1>10. InvTold' /\ ListingsWhole'
  BY <1>3 DEF Inv, Printed, InvTold, ListingsWhole, NoPDSs, Piece
<1> QED  BY <1>6, <1>7, <1>8, <1>9, <1>10 DEF Inv, Printed, Maps, TR!trvars
(* endl: the set reaches the file, and the trial is listed.                *)
LEMMA FlushInv ==
  ASSUME Inv, NEW w \in Workers, NEW i \in Trials, runs[w] = i, Flush(w, i)
  PROVE  Inv' /\ Maps
<1> DEFINE x == Piece(i, "set")
<1>1. at[i] = "endl" /\ at[i] \in Holding
  BY DEF Flush, Goto, Holding
<1>2. /\ ~told /\ solved[i]
      /\ file \in Output
      /\ \A j \in Trials : j # i => at[j] \notin {"locked", "head", "set", "endl", "unlock"}
      /\ buffer = << x >>
  BY <1>1, Printing DEF Inv, Printed, InvBuffer
<1>3. /\ x \in Pieces /\ x # NoPDSs /\ x.part = "set" /\ x.trial = i
      /\ \A j \in Trials : x = Piece(j, "set") <=> i = j
  BY PieceType, Shape
<1>4. /\ Len(file) > 0
      /\ file[Len(file)].part = "PDS" /\ file[Len(file)].trial = i
      /\ file[Len(file)] = Piece(i, "PDS")
  BY <1>1, PieceType, Shape DEF Inv, Printed, InvFile
<1> HIDE DEF x
<1>5. file' = file \o << x >> /\ buffer' = << >> /\ told' = told
  BY <1>2 DEF Flush
<1>6. /\ file' \in Output /\ buffer' \in Output
      /\ Len(file) \in Nat
      /\ DOMAIN file = 1..Len(file)
      /\ DOMAIN file' = 1..(Len(file) + 1)
      /\ Len(file') = Len(file) + 1
      /\ \A j \in 1..Len(file) : file'[j] = file[j]
      /\ file'[Len(file) + 1] = x
  <2>1. << >> \in Output
    BY DEF Output
  <2> QED  BY <1>2, <1>3, <1>5, <2>1, OneMore
<1>7. /\ at'[i] = "unlock"
      /\ \A j \in Trials : j # i => at'[j] = at[j]
      /\ solved' = solved /\ success' = success
  <2>1. at \in [Trials -> { "search", "found", "locked", "head", "set", "endl",
                           "unlock", "left" }]
    BY DEF Inv, Control, TypeOK
  <2> QED  BY <2>1 DEF Flush, Goto
<1>8. Listed' = Listed \cup {i} /\ Failed' = Failed /\ i \notin Listed \cup Failed
  <2>1. \A j \in Trials : j \in Listed' <=> j \in Listed \/ j = i
    BY <1>3, <1>6 DEF Listed, x
  <2>2. Listed \subseteq Trials /\ Listed' \subseteq Trials
    BY DEF Listed
  <2>3. Failed' = Failed
    BY <1>1, <1>7 DEF Failed
  <2>4. i \notin Listed
    BY <1>1 DEF Inv, Printed, InvFile
  <2>5. i \notin Failed
    BY <1>1 DEF Failed
  <2> QED  BY <2>1, <2>2, <2>3, <2>4, <2>5
<1>9. Control'
  BY <1>6, BodyControl DEF Inv
<1>10. InvBuffer'
  BY <1>2, <1>5, <1>7 DEF InvBuffer
<1>11. InvFile'
  <2>1. \A j \in Trials : j \in Listed' <=> solved'[j] /\ at'[j] \in {"unlock", "left"}
    BY <1>2, <1>7, <1>8 DEF Inv, Printed, InvFile
  <2>2. \A j \in Trials : at'[j] \notin {"set", "endl"}
    BY <1>2, <1>7
  <2>3. file'[Len(file')].part # "PDS"
    BY <1>3, <1>6
  <2> QED  BY <2>1, <2>2, <2>3 DEF InvFile
<1>12. InvTold'
  <2>1. \A j \in DOMAIN file : file[j] # NoPDSs
    BY <1>2 DEF Inv, Printed, InvTold
  <2>2. \A j \in DOMAIN file' : file'[j] # NoPDSs
    BY <1>3, <1>6, <2>1
  <2> QED  BY <1>2, <1>5, <2>2 DEF InvTold, NoPDSs, Piece
<1>13. ListingsWhole'
  <2>1. \A j \in 1..Len(file) :
          /\ file[j].part = "PDS" /\ j < Len(file) => file[j+1] = Piece(file[j].trial, "set")
          /\ file[j].part = "set" => j > 1 /\ file[j-1] = Piece(file[j].trial, "PDS")
    BY <1>6 DEF Inv, Printed, ListingsWhole
  <2>2. ASSUME NEW j \in 1..(Len(file) + 1)
        PROVE  /\ file'[j].part = "PDS" /\ j < Len(file) + 1 =>
                     file'[j+1] = Piece(file'[j].trial, "set")
               /\ file'[j].part = "set" =>
                     j > 1 /\ file'[j-1] = Piece(file'[j].trial, "PDS")
    <3>0. Len(file) \in Nat
      BY <1>6
    <3>1. CASE j = Len(file) + 1
      <4>1. j > 1 /\ j-1 = Len(file) /\ Len(file) \in 1..Len(file)
        BY <1>4, <3>0, <3>1
      <4>2. file'[j-1] = file[Len(file)]
        BY <1>6, <4>1
      <4> QED  BY <1>3, <1>4, <1>6, <3>1, <4>1, <4>2
    <3>2. CASE j = Len(file)
      <4>1. file'[j] = Piece(i, "PDS") /\ file'[j].part = "PDS" /\ file'[j].trial = i
        BY <1>4, <1>6, <3>2
      <4> QED  BY <1>6, <3>2, <4>1 DEF x
    <3>3. CASE j < Len(file)
      <4>1. file'[j] = file[j] /\ j+1 \in 1..Len(file) /\ file'[j+1] = file[j+1]
        BY <1>6, <3>3
      <4>2. j > 1 => file'[j-1] = file[j-1]
        BY <1>6, <3>3
      <4> QED  BY <1>6, <2>1, <3>3, <4>1, <4>2
    <3>5. j = Len(file) + 1 \/ j = Len(file) \/ j < Len(file)
      BY <3>0
    <3> QED  BY <3>1, <3>2, <3>3, <3>5
  <2> QED  BY <1>6, <2>2 DEF ListingsWhole, Piece
<1>14. Verdict = "pending" /\ Verdict' = "pending"
  BY <1>2, <1>5 DEF Verdict
<1>15. Maps
  BY <1>8, <1>14 DEF Maps, TR!TRNext, TR!Conclude, Listed
<1> QED  BY <1>9, <1>10, <1>11, <1>12, <1>13, <1>15 DEF Inv, Printed

-----------------------------------------------------------------------------
(* main prints its verdict: all trials are over, so it is final.           *)
LEMMA TellInv ==
  ASSUME Inv, Tell
  PROVE  Inv' /\ Maps
<1>1. /\ status[<< >>] = "done" /\ ~told /\ told' = TRUE
      /\ buffer' = << >>
      /\ UNCHANGED << status, waits, runs, at, solved, success, m >>
      /\ file' = file \o buffer \o IF success THEN << >> ELSE << NoPDSs >>
  BY DEF Tell, loops
<1>2. \A i \in Trials : at[i] = "left"
  BY <1>1 DEF Inv, Control, InvJoin, InvRuns
<1>3. buffer = << >> /\ file \in Output /\ NoPDSs \in Pieces
  BY <1>2, PieceType DEF Inv, Printed, InvBuffer, Control, TypeOK
<1>4. /\ file \o << >> = file
      /\ file \o << NoPDSs >> \in Output
      /\ Len(file) \in Nat
      /\ DOMAIN file = 1..Len(file)
      /\ DOMAIN (file \o << NoPDSs >>) = 1..(Len(file) + 1)
      /\ Len(file \o << NoPDSs >>) = Len(file) + 1
      /\ \A j \in 1..Len(file) : (file \o << NoPDSs >>)[j] = file[j]
      /\ (file \o << NoPDSs >>)[Len(file) + 1] = NoPDSs
  BY <1>3, OneMore
<1>5. IF success THEN file' = file ELSE file' = file \o << NoPDSs >>
  BY <1>1, <1>3, <1>4
<1>6. Control'
  <2>1. << >> \in Output
    BY DEF Output
  <2>2. TypeOK'
    BY <1>1, <1>3, <1>4, <1>5, <2>1 DEF Inv, Control, TypeOK, PF!PFTypeOK
  <2> QED  BY <1>1, <2>2 DEF Inv, Control, InvRuns, InvMutex, InvJoin, InvSolved
<1>7. Listed' = Listed /\ Failed' = Failed
  <2>1. \A i \in Trials : Piece(i, "set") # NoPDSs
    BY PieceType
  <2>2. \A i \in Trials : i \in Listed' <=> i \in Listed
    BY <1>4, <1>5, <2>1 DEF Listed, Piece
  <2> QED  BY <1>1, <2>2 DEF Listed, Failed
<1>8. \A j \in DOMAIN file : file[j] # NoPDSs
  BY <1>1 DEF Inv, Printed, InvTold
<1>9. (\E j \in DOMAIN file' : file'[j] = NoPDSs) <=> ~success
  <2>1. CASE success
    BY <1>5, <1>8, <2>1
  <2>2. CASE ~success
    BY <1>4, <1>5, <2>2
  <2> QED  BY <2>1, <2>2
<1>10. Printed'
  <2>1. InvBuffer'
    BY <1>1, <1>2 DEF InvBuffer
  <2>2. InvTold'
    BY <1>1, <1>9 DEF InvTold, NoPDSs, Piece
  <2>3. Len(file) > 0 => file[Len(file)].part # "PDS"
    BY <1>2 DEF Inv, Printed, InvFile
  <2>4. NoPDSs.part = "No PDSs found"
    BY DEF NoPDSs, Piece
  <2>5. InvFile'
    <3>1. \A i \in Trials : i \in Listed' <=> solved'[i] /\ at'[i] \in {"unlock", "left"}
      BY <1>1, <1>7 DEF Inv, Printed, InvFile
    <3>2. Len(file') > 0 => file'[Len(file')].part # "PDS"
      <4>1. CASE success
        BY <1>5, <2>3, <4>1
      <4>2. CASE ~success
        BY <1>4, <1>5, <2>4, <4>2
      <4> QED  BY <4>1, <4>2
    <3> QED  BY <1>1, <1>2, <3>1, <3>2 DEF InvFile
  <2>6. ListingsWhole'
    <3>1. CASE success
      BY <1>5, <3>1 DEF Inv, Printed, ListingsWhole, Piece
    <3>2. CASE ~success
      <4>1. \A j \in 1..Len(file) :
              /\ file[j].part = "PDS" /\ j < Len(file) =>
                   file[j+1] = Piece(file[j].trial, "set")
              /\ file[j].part = "set" => j > 1 /\ file[j-1] = Piece(file[j].trial, "PDS")
        BY <1>4 DEF Inv, Printed, ListingsWhole
      <4>2. /\ Len(file') = Len(file) + 1 /\ DOMAIN file' = 1..(Len(file) + 1)
            /\ \A j \in 1..Len(file) : file'[j] = file[j]
            /\ file'[Len(file) + 1] = NoPDSs
            /\ Len(file) \in Nat
        BY <1>4, <1>5, <3>2
      <4>3. ASSUME NEW j \in 1..(Len(file) + 1)
            PROVE  /\ file'[j].part = "PDS" /\ j < Len(file) + 1 =>
                         file'[j+1] = Piece(file'[j].trial, "set")
                   /\ file'[j].part = "set" =>
                         j > 1 /\ file'[j-1] = Piece(file'[j].trial, "PDS")
        <5>0. Len(file) \in Nat
          BY <4>2
        <5>1. CASE j = Len(file) + 1
          BY <2>4, <4>2, <5>1
        <5>2. CASE j = Len(file)
          <6>1. file'[j] = file[j] /\ file[j].part # "PDS"
            BY <2>3, <4>2, <5>2
          <6>2. file[j].part = "set" => j > 1 /\ j-1 \in 1..Len(file)
            BY <4>1, <4>2, <5>2
          <6> QED  BY <4>1, <4>2, <5>2, <6>1, <6>2
        <5>3. CASE j < Len(file)
          <6>1. file'[j] = file[j] /\ j+1 \in 1..Len(file) /\ file'[j+1] = file[j+1]
            BY <4>2, <5>3
          <6>2. j > 1 => file'[j-1] = file[j-1]
            BY <4>2, <5>3
          <6> QED  BY <4>1, <4>2, <5>3, <6>1, <6>2
        <5>5. j = Len(file) + 1 \/ j = Len(file) \/ j < Len(file)
          BY <5>0
        <5> QED  BY <5>1, <5>2, <5>3, <5>5
      <4> QED  BY <4>2, <4>3 DEF ListingsWhole, Piece
    <3> QED  BY <3>1, <3>2
  <2> QED  BY <2>1, <2>2, <2>5, <2>6 DEF Printed
<1>11. Maps
  <2>1. Listed \cup Failed = Trials
    BY <1>2 DEF Inv, Printed, InvFile, Listed, Failed
  <2>2. success <=> Listed # {}
    <3>1. success <=> \E i \in Trials : solved[i]
      BY <1>2 DEF Inv, Control, InvSolved
    <3>2. \A i \in Trials : i \in Listed <=> solved[i]
      BY <1>2 DEF Inv, Printed, InvFile
    <3>3. Listed \subseteq Trials
      BY DEF Listed
    <3> QED  BY <3>1, <3>2, <3>3
  <2>3. Verdict = "pending" /\ Verdict' = IF Listed = {} THEN "none" ELSE "some"
    <3>1. (\E j \in DOMAIN file' : file'[j] = NoPDSs') <=> ~success
      BY <1>9 DEF NoPDSs, Piece
    <3> QED  BY <1>1, <2>2, <3>1 DEF Verdict
  <2> QED  BY <1>7, <2>1, <2>3 DEF Maps, TR!TRNext, TR!Say
<1> QED  BY <1>6, <1>10, <1>11 DEF Inv
-----------------------------------------------------------------------------
(* What parallel_for does beside the bodies.                               *)
LEMMA LoopInv ==
  ASSUME Inv, NEW w \in Workers,
         \/ \E c \in Calls : Begin(w, c)
         \/ Join(w)
         \/ runs[w] # nobody /\ Finish(w, runs[w])
  PROVE  Inv' /\ Maps
<1>1. UNCHANGED << at, solved, success, m, buffer, file, told >>
  BY DEF Begin, Join, Finish
<1>2. Printed' /\ Maps
  BY <1>1, Silent DEF Inv
<1>3. /\ runs \in [Workers -> Trials \cup {nobody}]
      /\ status \in [Calls -> {"open", "running", "done"}]
      /\ waits \in [Workers -> Seq({ << >> })]
      /\ << >> \in Calls /\ nobody \notin Calls /\ nobody \notin Workers
      /\ \A i \in Trials : i \in Calls /\ i # << >> /\ i # nobody
      /\ \A c \in Calls : c \in Trials \/ c = << >>
  BY Shape DEF Inv, Control, TypeOK, PF!PFTypeOK, Calls
<1> USE DEF Inv, Control
<1>4. ASSUME PF!PFTypeOK', InvRuns', InvMutex', InvJoin',
             m # nobody => runs'[m] # nobody /\ at[runs'[m]] \in Holding
      PROVE  Inv'
  <2>1. TypeOK'
    BY <1>1, <1>4 DEF TypeOK, Holding
  <2>2. InvSolved'
    BY <1>1 DEF InvSolved, Holding
  <2> QED  BY <1>2, <1>4, <2>1, <2>2
<1>5. ASSUME NEW c \in Calls, Begin(w, c) PROVE Inv'
  <2>1. /\ c \in Trials
        /\ status[c] = "open" /\ runs[w] = nobody
        /\ status[<< >>] = "running"
        /\ status' = [ status EXCEPT ![c] = "running" ]
        /\ runs' = [ runs EXCEPT ![w] = c ]
        /\ waits' = waits
    <3>1. c \in Trials /\ c \notin PF!Loops
      BY <1>3, <1>5, Shape DEF Begin, PF!Begin
    <3>2. PF!Parent(c) = << >>
      BY <3>1, Shape DEF PF!Children
    <3> QED  BY <1>5, <3>1, <3>2 DEF Begin, PF!Begin
  <2>2. at[c] = "search" /\ \A v \in Workers : runs[v] # c
    BY <1>3, <2>1 DEF InvRuns
  <2>3. PF!PFTypeOK'
    BY <1>3, <2>1, Shape DEF TypeOK, PF!PFTypeOK
  <2>4. InvRuns'
    <3>1. \A v \in Workers : runs'[v] # nobody => status'[runs'[v]] = "running"
      BY <1>3, <2>1, <2>2 DEF InvRuns
    <3>2. \A u, v \in Workers : runs'[u] = runs'[v] /\ runs'[u] # nobody => u = v
      BY <1>3, <2>1, <2>2 DEF InvRuns
    <3>3. \A i \in Trials : /\ status'[i] = "open" => at[i] = "search"
                            /\ status'[i] = "done" => at[i] = "left"
      BY <1>3, <2>1 DEF InvRuns
    <3> QED  BY <1>1, <3>1, <3>2, <3>3 DEF InvRuns
  <2>5. InvMutex'
    BY <1>1, <1>3, <2>1, <2>2 DEF InvMutex, Holding
  <2>6. InvJoin'
    BY <1>1, <1>3, <2>1 DEF InvJoin
  <2>7. m # nobody => runs'[m] # nobody /\ at[runs'[m]] \in Holding
    BY <1>3, <2>1 DEF TypeOK, Holding
  <2> QED  BY <1>4, <2>3, <2>4, <2>5, <2>6, <2>7
<1>6. ASSUME runs[w] # nobody, Finish(w, runs[w]) PROVE Inv'
  <2> DEFINE c == runs[w]
  <2>1. /\ c \in Trials
        /\ at[c] = "left"
        /\ status' = [ status EXCEPT ![c] = "done" ]
        /\ runs' = [ runs EXCEPT ![w] = nobody ]
        /\ waits' = waits
    BY <1>3, <1>6 DEF Finish, PF!Finish
  <2> HIDE DEF c
  <2>2. PF!PFTypeOK'
    BY <1>3, <2>1, Shape DEF TypeOK, PF!PFTypeOK
  <2>3. InvRuns'
    <3>1. \A v \in Workers : runs'[v] # nobody => status'[runs'[v]] = "running"
      BY <1>3, <2>1 DEF InvRuns, c
    <3>2. \A u, v \in Workers : runs'[u] = runs'[v] /\ runs'[u] # nobody => u = v
      BY <1>3, <2>1 DEF InvRuns
    <3>3. \A i \in Trials : /\ status'[i] = "open" => at[i] = "search"
                            /\ status'[i] = "done" => at[i] = "left"
      BY <1>3, <2>1 DEF InvRuns
    <3> QED  BY <1>1, <3>1, <3>2, <3>3 DEF InvRuns
  <2>4. InvMutex'
    BY <1>1, <1>3, <2>1 DEF InvMutex, Holding, c
  <2>5. InvJoin'
    BY <1>1, <1>3, <2>1 DEF InvJoin
  <2>6. m # nobody => runs'[m] # nobody /\ at[runs'[m]] \in Holding
    BY <1>3, <2>1 DEF TypeOK, Holding, c
  <2> QED  BY <1>4, <2>2, <2>3, <2>4, <2>5, <2>6
<1>7. ASSUME Join(w) PROVE Inv'
  <2> DEFINE c == PF!Innermost(w)
  <2>1. /\ waits[w] # << >>
        /\ \A b \in PF!Children(c) : status[b] = "done"
        /\ status' = [ status EXCEPT ![c] = "done" ]
        /\ waits' = [ waits EXCEPT ![w] = SubSeq(@, 1, Len(@) - 1) ]
        /\ runs' = runs
    BY <1>7 DEF Join, PF!Join
  <2>2. /\ c = << >>
        /\ SubSeq(waits[w], 1, Len(waits[w]) - 1) \in Seq({ << >> })
    BY <1>3, <2>1 DEF PF!Innermost
  <2> HIDE DEF c
  <2>3. \A i \in Trials : status[i] = "done"
    BY <2>1, <2>2, Shape
  <2>4. PF!PFTypeOK'
    BY <1>3, <2>1, <2>2, Shape DEF TypeOK, PF!PFTypeOK
  <2>5. InvRuns' /\ InvMutex' /\ InvJoin'
    <3>1. \A i \in Trials : status'[i] = status[i]
      BY <1>3, <2>1, <2>2
    <3>2. \A v \in Workers : runs[v] # nobody => runs[v] \in Trials
      BY <1>3
    <3>3. status'[<< >>] = "done"
      BY <1>3, <2>1, <2>2
    <3>4. InvRuns'
      BY <1>1, <2>1, <3>1, <3>2 DEF InvRuns
    <3>5. InvMutex'
      BY <1>1, <2>1 DEF InvMutex, Holding
    <3>6. InvJoin'
      BY <2>3, <3>1, <3>3 DEF InvJoin
    <3> QED  BY <3>4, <3>5, <3>6
  <2>6. m # nobody => runs'[m] # nobody /\ at[runs'[m]] \in Holding
    BY <2>1 DEF TypeOK, Holding
  <2> QED  BY <1>4, <2>4, <2>5, <2>6
<1> QED  BY <1>2, <1>5, <1>6, <1>7

(* Every step keeps the invariant and maps to a step of TrialReport.       *)
LEMMA StepInv ==
  ASSUME Inv, [Next]_vars
  PROVE  Inv' /\ Maps
<1>1. ASSUME NEW w \in Workers, (\E c \in Calls : Begin(w, c)) \/ Join(w)
      PROVE  Inv' /\ Maps
  BY <1>1, LoopInv
<1>2. ASSUME NEW w \in Workers, runs[w] # nobody, Step(w, runs[w])
      PROVE  Inv' /\ Maps
  <2>1. runs[w] \in Trials
    BY <1>2, Shape DEF Inv, Control, TypeOK, PF!PFTypeOK
  <2>2. CASE Finish(w, runs[w])
    BY <1>2, <2>2, LoopInv
  <2>3. CASE Search(w, runs[w]) \/ Lock(w, runs[w]) \/ Mark(w, runs[w]) \/ Unlock(w, runs[w])
    BY <2>1, <2>3, Unprinting
  <2>4. CASE PrintHead(w, runs[w])
    BY <2>1, <2>4, PrintHeadInv
  <2>5. CASE PrintSet(w, runs[w])
    BY <2>1, <2>5, PrintSetInv
  <2>6. CASE Flush(w, runs[w])
    BY <2>1, <2>6, FlushInv
  <2> QED  BY <1>2, <2>2, <2>3, <2>4, <2>5, <2>6 DEF Step
<1>3. CASE Tell
  BY <1>3, TellInv
<1>4. CASE UNCHANGED vars
  <2>1. UNCHANGED << status, waits, runs, at, solved, success, m, buffer, file, told >>
    BY <1>4 DEF vars, loops
  <2>2. Control'
    BY <2>1 DEF Inv, Control, TypeOK, InvRuns, InvMutex, InvJoin, InvSolved, Holding,
                PF!PFTypeOK
  <2> QED  BY <2>1, <2>2, Silent DEF Inv
<1> QED  BY <1>1, <1>2, <1>3, <1>4 DEF Next

(* The inductive invariant.                                                *)
THEOREM Invariance == Spec => []Inv
<1>1. Init => Inv
  BY InitInv
<1>2. Inv /\ [Next]_vars => Inv'
  BY StepInv
<1> QED  BY <1>1, <1>2, PTL DEF Spec

(* The types, and that nobody outside the section holds the mutex.         *)
THEOREM TypesKept == Spec => []TypeOK
<1>1. Inv => TypeOK
  BY DEF Inv, Control
<1> QED  BY <1>1, Invariance, PTL

(* The mutex keeps each listing together.                                  *)
THEOREM ListedWhole == Spec => []ListingsWhole
<1>1. Inv => ListingsWhole
  BY DEF Inv, Printed
<1> QED  BY <1>1, Invariance, PTL

(* The driver implements TrialReport: in particular its verdict is right.  *)
THEOREM VerdictRight == Spec => Reports
<1>1. Init => TR!TRInit
  BY InitInv
<1>2. Inv /\ [Next]_vars => [TR!TRNext]_(TR!trvars)
  BY StepInv DEF Maps
<1> QED  BY <1>1, <1>2, Invariance, PTL DEF Spec, Reports, TR!Spec
-----------------------------------------------------------------------------
(* search64_par: the bodies of the groups.                                 *)
GroupPieces == [ group : Ids, metric : Nat, count : Nat ]
Printing64 == { "head", "counts", "unlock" }

(* The types that what follows needs.                                      *)
GroupTypes ==
  /\ loop_runs \in [Workers -> { << g >> : g \in Ids } \cup { nobody }]
  /\ where \in [Ids -> Printing64 \cup { "trials", "end" }]
  /\ e_lens \in [Ids -> Nat \ {0}] /\ tries \in [Ids -> Nat]
  /\ indices \in [Ids -> Nat \ {0}]
  /\ counted \in [Ids -> [DOMAIN errors -> Nat]]
  /\ won \in [Ids -> SUBSET (Nat \X Nat)]
  /\ out_buffer \in Seq(GroupPieces) /\ out_file \in Seq(GroupPieces)

(* The counters count the trials won, which are among those that were      *)
(* tried; after the trials nothing is counted any more.                    *)
GroupCounts ==
  \A g \in Ids :
    /\ \A x \in DOMAIN errors : /\ IsFiniteSet(WonOf(g, x))
                                /\ counted[g][x] = Cardinality(WonOf(g, x))
    /\ \A t \in won[g] : \/ t[1] < e_lens[g]
                         \/ t[1] = e_lens[g] /\ t[2] < tries[g]
    /\ where[g] # "trials" => e_lens[g] > Len(errors)

(* One body at most is between lock and unlock, and none while the mutex   *)
(* is free.                                                                *)
GroupMutex ==
  /\ \A g, h \in Ids : where[g] \in Printing64 /\ where[h] \in Printing64 => g = h
  /\ out_m = nobody => \A g \in Ids : where[g] \notin Printing64

(* The buffer holds the line of the body that prints, as far as it is, and *)
(* nothing else.                                                           *)
GroupBuffer ==
  /\ (\A g \in Ids : where[g] # "counts") => out_buffer = << >>
  /\ \A g \in Ids :
       /\ where[g] \in { "trials", "head" } => indices[g] = 1
       /\ where[g] = "counts" =>
            /\ indices[g] <= Len(errors) + 1
            /\ Len(out_buffer) = indices[g]
            /\ \A j \in 1..indices[g] :
                 out_buffer[j] = IF j = 1 THEN GroupHead(g) ELSE Count(g, j - 1)

(* The file holds whole lines, of groups whose trials are over.            *)
GroupFile ==
  /\ CountsTrue
  /\ \A j \in DOMAIN out_file : where[out_file[j].group] # "trials"

GroupInv ==
  GroupTypes /\ GroupCounts /\ GroupMutex /\ GroupBuffer /\ GroupFile

(* It holds at the start.                                                  *)
LEMMA GroupInit == ParInit => GroupInv
<1> SUFFICES ASSUME ParInit PROVE GroupInv
  OBVIOUS
<1> USE DEF ParInit
<1>1. GroupTypes
  <2>1. loop_runs \in [Workers -> { << g >> : g \in Ids } \cup { nobody }]
    BY DEF GF!PFInit
  <2>2. Zeros \in [DOMAIN errors -> Nat]
    BY DEF Zeros
  <2> QED  BY <2>1, <2>2 DEF GroupTypes
<1>2. GroupCounts
  <2>1. ASSUME NEW g \in Ids, NEW x \in DOMAIN errors
        PROVE  IsFiniteSet(WonOf(g, x)) /\ counted[g][x] = Cardinality(WonOf(g, x))
    <3>1. WonOf(g, x) = {}
      BY DEF WonOf
    <3> QED  BY <3>1, FS_EmptySet DEF Zeros
  <2> QED  BY <2>1 DEF GroupCounts
<1>3. GroupMutex /\ GroupBuffer
  BY DEF GroupMutex, GroupBuffer, Printing64
<1>4. GroupFile
  <2>1. DOMAIN out_file = {}
    OBVIOUS
  <2> QED  BY <2>1 DEF GroupFile, CountsTrue
<1> QED  BY <1>1, <1>2, <1>3, <1>4 DEF GroupInv

(* A step that only hands bodies out or takes them back.                   *)
LEMMA GroupSilent ==
  ASSUME GroupInv, UNCHANGED << group_locals, out_m, out_buffer, out_file >>,
         loop_runs' \in [Workers -> { << g >> : g \in Ids } \cup { nobody }]
  PROVE  GroupInv'
<1>1. UNCHANGED << where, e_lens, tries, indices, counted, won >>
  BY DEF group_locals
<1>2. \A g, x : WonOf(g, x)' = WonOf(g, x)
  BY <1>1 DEF WonOf
<1>3. GroupTypes' /\ GroupMutex'
  BY <1>1 DEF GroupInv, GroupTypes, GroupMutex
<1>4. GroupCounts'
  BY <1>1, <1>2 DEF GroupInv, GroupCounts
<1>5. GroupBuffer'
  BY <1>1 DEF GroupInv, GroupBuffer, Count, GroupHead
<1>6. GroupFile'
  BY <1>1, <1>2 DEF GroupInv, GroupFile, CountsTrue
<1> QED  BY <1>3, <1>4, <1>5, <1>6 DEF GroupInv

(* parallel_for begins and ends bodies.                                    *)
LEMMA GroupLoop ==
  ASSUME GroupInv, NEW w \in Workers,
         \/ \E c \in GroupCalls : GroupBegin(w, c)
         \/ GroupJoin(w)
         \/ \E g \in Ids : GroupFinish(w, g)
  PROVE  GroupInv'
<1>1. UNCHANGED << group_locals, out_m, out_buffer, out_file >>
  BY DEF GroupBegin, GroupJoin, GroupFinish
<1>2. ASSUME NEW c \in GroupCalls, c \notin GF!Loops
      PROVE  c \in { << g >> : g \in Ids }
  <2>1. Len(<< >>) < 1 /\ << >> \in GroupCalls
    BY DEF GroupCalls
  <2> QED  BY <1>2, <2>1 DEF GroupCalls, GF!Loops
<1>3. loop_runs' \in [Workers -> { << g >> : g \in Ids } \cup { nobody }]
  BY <1>2 DEF GroupInv, GroupTypes, GroupBegin, GroupJoin, GroupFinish,
              GF!Begin, GF!Join, GF!Finish
<1> QED  BY <1>1, <1>3, GroupSilent

(* A group that is not being tried is not in the file, nor in the buffer.  *)
LEMMA GroupTrialInv ==
  ASSUME GroupInv, NEW w \in Workers, NEW g \in Ids,
         ParTrial(w, g) \/ ParNextMetric(w, g)
  PROVE  GroupInv'
<1> USE DEF GroupInv
<1>a. e_lens \in [Ids -> Nat \ {0}]
  BY DEF GroupTypes
<1>b. tries \in [Ids -> Nat]
  BY DEF GroupTypes
<1>c. counted \in [Ids -> [DOMAIN errors -> Nat]]
  BY DEF GroupTypes
<1>d. won \in [Ids -> SUBSET (Nat \X Nat)]
  BY DEF GroupTypes
<1>1. /\ where[g] = "trials" /\ e_lens[g] <= Len(errors)
      /\ UNCHANGED << loop_runs, where, indices, out_m, out_buffer, out_file >>
  BY DEF ParTrial, ParNextMetric, group_loops
<1>2. Len(errors) \in Nat /\ DOMAIN errors = 1..Len(errors)
  BY SurveysAssumption
<1>3. e_lens[g] \in DOMAIN errors
  BY <1>1, <1>2 DEF GroupTypes
<1>4. \A h \in Ids : h # g =>
        /\ UNCHANGED << e_lens[h], tries[h], counted[h], won[h] >>
  BY DEF ParTrial, ParNextMetric, GroupTypes
<1>5. GroupTypes'
  <2>1. e_lens' \in [Ids -> Nat \ {0}] /\ tries' \in [Ids -> Nat]
    BY <1>a, <1>b DEF ParTrial, ParNextMetric
  <2>2. counted' \in [Ids -> [DOMAIN errors -> Nat]]
    <3>1. counted[g] \in [DOMAIN errors -> Nat]
      BY <1>c
    <3>2. [ counted[g] EXCEPT ![e_lens[g]] = @ + 1 ] \in [DOMAIN errors -> Nat]
      BY <1>3, <3>1
    <3>3. \/ counted' = counted
          \/ counted' = [ counted EXCEPT ![g] = [ counted[g] EXCEPT ![e_lens[g]] = @ + 1 ] ]
      BY DEF ParTrial, ParNextMetric
    <3> QED  BY <1>c, <3>2, <3>3
  <2>3. won' \in [Ids -> SUBSET (Nat \X Nat)]
    <3>1. << e_lens[g], tries[g] >> \in Nat \X Nat
      BY <1>a, <1>b
    <3>2. \/ won' = won
          \/ won' = [ won EXCEPT ![g] = @ \cup { << e_lens[g], tries[g] >> } ]
      BY DEF ParTrial, ParNextMetric
    <3> QED  BY <1>d, <3>1, <3>2
  <2> QED  BY <1>1, <2>1, <2>2, <2>3 DEF GroupTypes
<1>6. GroupMutex'
  BY <1>1 DEF GroupMutex
<1>7. GroupCounts'
  <2>1. ASSUME NEW h \in Ids, NEW x \in DOMAIN errors, WonOf(h, x)' = WonOf(h, x),
               counted'[h][x] = counted[h][x]
        PROVE  IsFiniteSet(WonOf(h, x)') /\ counted'[h][x] = Cardinality(WonOf(h, x)')
    BY <2>1 DEF GroupCounts
  <2>2. ASSUME NEW h \in Ids, NEW x \in DOMAIN errors
        PROVE  IsFiniteSet(WonOf(h, x)') /\ counted'[h][x] = Cardinality(WonOf(h, x)')
    <3>1. CASE UNCHANGED << counted, won >>
      BY <2>1, <3>1 DEF WonOf
    <3>2. CASE h # g
      BY <1>4, <2>1, <3>2 DEF WonOf
    <3>3. CASE h = g /\ ~UNCHANGED << counted, won >>
      <4> DEFINE t == << e_lens[g], tries[g] >>
      <4>1. /\ counted' = [ counted EXCEPT ![g][e_lens[g]] = @ + 1 ]
            /\ won' = [ won EXCEPT ![g] = @ \cup { t } ]
        BY <3>3 DEF ParTrial, ParNextMetric
      <4>2. /\ won'[g] = won[g] \cup { t }
            /\ counted'[g] = [ counted[g] EXCEPT ![e_lens[g]] = @ + 1 ]
        BY <4>1 DEF GroupTypes
      <4>3. t \notin won[g] /\ t[1] = e_lens[g]
        <5>1. e_lens[g] \in Nat /\ tries[g] \in Nat
          BY <1>a, <1>b
        <5>2. t \in won[g] => t[1] < e_lens[g] \/ t[2] < tries[g]
          BY DEF GroupCounts
        <5> QED  BY <5>1, <5>2
      <4> HIDE DEF t
      <4>4. counted[g] \in [DOMAIN errors -> Nat]
        BY DEF GroupTypes
      <4>5. CASE x # e_lens[g]
        <5>1. WonOf(g, x)' = WonOf(g, x)
          BY <4>2, <4>3, <4>5 DEF WonOf
        <5>2. counted'[g][x] = counted[g][x]
          BY <4>2, <4>4, <4>5
        <5> QED  BY <2>1, <3>3, <5>1, <5>2
      <4>6. CASE x = e_lens[g]
        <5>1. WonOf(g, x)' = WonOf(g, x) \cup { t } /\ t \notin WonOf(g, x)
          BY <4>2, <4>3, <4>6 DEF WonOf
        <5>2. counted'[g][x] = counted[g][x] + 1
          BY <4>2, <4>4, <4>6
        <5>3. IsFiniteSet(WonOf(g, x)) /\ counted[g][x] = Cardinality(WonOf(g, x))
          BY DEF GroupCounts
        <5> QED  BY <3>3, <5>1, <5>2, <5>3, FS_AddElement
      <4> QED  BY <4>5, <4>6
    <3> QED  BY <3>1, <3>2, <3>3
  <2>3. ASSUME NEW h \in Ids, NEW t \in won'[h]
        PROVE  t[1] < e_lens'[h] \/ (t[1] = e_lens'[h] /\ t[2] < tries'[h])
    <3>1. CASE h # g
      BY <1>4, <2>3, <3>1 DEF GroupCounts
    <3>2. CASE h = g /\ ParTrial(w, g)
      <4>1. /\ e_lens' = e_lens /\ tries'[g] = tries[g] + 1
            /\ t \in won[g] \/ t = << e_lens[g], tries[g] >>
        BY <2>3, <3>2 DEF ParTrial, GroupTypes
      <4>2. tries[g] \in Nat /\ e_lens[g] \in Nat
        BY DEF GroupTypes
      <4>3. CASE t \in won[g]
        <5>1. t[1] \in Nat /\ t[2] \in Nat
          BY <4>3 DEF GroupTypes
        <5>2. t[1] < e_lens[g] \/ (t[1] = e_lens[g] /\ t[2] < tries[g])
          BY <4>3 DEF GroupCounts
        <5> QED  BY <3>2, <4>1, <4>2, <5>1, <5>2
      <4> QED  BY <3>2, <4>1, <4>2, <4>3
    <3>3. CASE h = g /\ ParNextMetric(w, g)
      <4>1. e_lens'[g] = e_lens[g] + 1 /\ e_lens[g] \in Nat /\ won' = won
        BY <3>3 DEF ParNextMetric, GroupTypes
      <4>2. t[1] \in Nat /\ t[1] <= e_lens[g]
        <5>1. t \in won[g] /\ won[g] \subseteq Nat \X Nat
          BY <1>d, <2>3, <3>3, <4>1
        <5>2. t[1] < e_lens[g] \/ t[1] = e_lens[g]
          BY <5>1 DEF GroupCounts
        <5> QED  BY <4>1, <5>1, <5>2
      <4> QED  BY <3>3, <4>1, <4>2
    <3> QED  BY <3>1, <3>2, <3>3
  <2>4. \A h \in Ids : where'[h] # "trials" => e_lens'[h] > Len(errors)
    BY <1>1, <1>4 DEF GroupCounts
  <2> QED  BY <2>2, <2>3, <2>4 DEF GroupCounts
<1>8. GroupBuffer'
  <2>1. \A h \in Ids : where[h] = "counts" =>
          \A x : Count(h, x)' = Count(h, x) /\ GroupHead(h)' = GroupHead(h)
    BY <1>1, <1>4 DEF Count, GroupHead
  <2> QED  BY <1>1, <2>1 DEF GroupBuffer
<1>9. GroupFile'
  <2>1. \A j \in DOMAIN out_file : out_file[j].group \in Ids \ {g}
    <3>1. out_file \in Seq(GroupPieces)
      BY DEF GroupTypes
    <3>2. \A j \in DOMAIN out_file : out_file[j] \in GroupPieces
      BY <3>1
    <3> QED  BY <1>1, <3>2 DEF GroupFile, GroupPieces
  <2>2. \A j \in DOMAIN out_file : \A x :
          WonOf(out_file[j].group, x)' = WonOf(out_file[j].group, x)
    BY <1>1, <1>4, <2>1 DEF WonOf
  <2>3. CountsTrue'
    BY <1>1, <2>2 DEF GroupFile, CountsTrue
  <2> QED  BY <1>1, <2>3 DEF GroupFile
<1> QED  BY <1>5, <1>6, <1>7, <1>8, <1>9

(* The mutex is taken, or given back.                                      *)
LEMMA GroupLockInv ==
  ASSUME GroupInv, NEW w \in Workers, NEW g \in Ids,
         GroupLock(w, g) \/ GroupUnlock(w, g)
  PROVE  GroupInv'
<1> USE DEF GroupInv
<1>a. where \in [Ids -> Printing64 \cup { "trials", "end" }]
  BY DEF GroupTypes
<1>1. /\ UNCHANGED << loop_runs, e_lens, tries, indices, counted, won >>
      /\ UNCHANGED << out_buffer, out_file >>
  BY DEF GroupLock, GroupUnlock, group_loops
<1>2. /\ \A h \in Ids : h # g => where'[h] = where[h]
      /\ \/ /\ where[g] = "trials" /\ where'[g] = "head"
            /\ out_m = nobody /\ out_m' = w /\ e_lens[g] > Len(errors)
         \/ where[g] = "unlock" /\ where'[g] = "end" /\ out_m' = nobody
  BY <1>a DEF GroupLock, GroupUnlock, GroupGoto
<1>3. GroupTypes'
  <2>1. where' \in [Ids -> Printing64 \cup { "trials", "end" }]
    BY <1>a DEF GroupLock, GroupUnlock, GroupGoto, Printing64
  <2> QED  BY <1>1, <2>1 DEF GroupTypes
<1>4. w # nobody
  BY SearchParallelAssumption
<1>5. \A h, x : WonOf(h, x)' = WonOf(h, x)
  BY <1>1 DEF WonOf
<1>6. GroupCounts'
  BY <1>1, <1>2, <1>5 DEF GroupCounts
<1>7. GroupMutex'
  BY <1>2, <1>4 DEF GroupMutex, Printing64
<1>8. GroupBuffer'
  <2>1. \A h, x : Count(h, x)' = Count(h, x) /\ GroupHead(h)' = GroupHead(h)
    BY <1>1 DEF Count, GroupHead
  <2> QED  BY <1>1, <1>2, <2>1 DEF GroupBuffer
<1>9. GroupFile'
  <2>1. \A j \in DOMAIN out_file : out_file[j].group \in Ids
    <3>1. out_file \in Seq(GroupPieces)
      BY DEF GroupTypes
    <3>2. \A j \in DOMAIN out_file : out_file[j] \in GroupPieces
      BY <3>1
    <3> QED  BY <3>2 DEF GroupPieces
  <2>2. CountsTrue'
    BY <1>1, <1>5 DEF GroupFile, CountsTrue
  <2> QED  BY <1>1, <1>2, <2>1, <2>2 DEF GroupFile
<1> QED  BY <1>3, <1>6, <1>7, <1>8, <1>9

(* A piece of the line goes to the buffer.                                 *)
LEMMA GroupPrintInv ==
  ASSUME GroupInv, NEW w \in Workers, NEW g \in Ids,
         PrintGroup(w, g) \/ PrintCount(w, g)
  PROVE  GroupInv'
<1> USE DEF GroupInv
<1> DEFINE b == IF where[g] = "head" THEN GroupHead(g) ELSE Count(g, indices[g])
<1>a. where \in [Ids -> Printing64 \cup { "trials", "end" }]
  BY DEF GroupTypes
<1>b. indices \in [Ids -> Nat \ {0}]
  BY DEF GroupTypes
<1>c. out_buffer \in Seq(GroupPieces)
  BY DEF GroupTypes
<1>0. Len(errors) \in Nat /\ DOMAIN errors = 1..Len(errors)
  BY SurveysAssumption
<1>1. UNCHANGED << loop_runs, e_lens, tries, counted, won, out_m, out_file >>
  BY DEF PrintGroup, PrintCount, group_loops
<1>2. /\ \A h \in Ids : h # g => where'[h] = where[h] /\ indices'[h] = indices[h]
      /\ where'[g] = "counts"
      /\ where' \in [Ids -> Printing64 \cup { "trials", "end" }]
      /\ indices' \in [Ids -> Nat \ {0}]
      /\ out_buffer' = Append(out_buffer, b)
      /\ \/ where[g] = "head" /\ indices' = indices
         \/ /\ where[g] = "counts" /\ indices[g] <= Len(errors)
            /\ indices'[g] = indices[g] + 1
  BY <1>a, <1>b DEF PrintGroup, PrintCount, GroupGoto, Printing64
<1>3. GroupTypes'
  <2>1. b \in GroupPieces
    <3>1. CASE where[g] = "head"
      BY <3>1 DEF GroupHead, GroupPieces
    <3>2. CASE where[g] # "head"
      <4>1. indices[g] \in DOMAIN errors /\ counted \in [Ids -> [DOMAIN errors -> Nat]]
        BY <1>0, <1>b, <1>2, <3>2 DEF GroupTypes
      <4>2. counted[g][indices[g]] \in Nat /\ indices[g] \in Nat
        BY <1>b, <4>1
      <4> QED  BY <3>2, <4>2 DEF Count, GroupPieces
    <3> QED  BY <3>1, <3>2
  <2>2. out_buffer' \in Seq(GroupPieces)
    BY <1>c, <1>2, <2>1
  <2> QED  BY <1>1, <1>2, <2>2 DEF GroupTypes
<1> HIDE DEF b
<1>5. \A h, x : WonOf(h, x)' = WonOf(h, x)
  BY <1>1 DEF WonOf
<1>6. GroupCounts'
  BY <1>1, <1>2, <1>5 DEF GroupCounts
<1>7. GroupMutex' /\ \A h \in Ids : h # g => where[h] \notin Printing64
  BY <1>1, <1>2 DEF GroupMutex, Printing64
<1>8. GroupBuffer'
  <2>1. \A h, x : Count(h, x)' = Count(h, x) /\ GroupHead(h)' = GroupHead(h)
    BY <1>1 DEF Count, GroupHead
  <2>2. \A h \in Ids : h # g => where'[h] # "counts"
    BY <1>2, <1>7 DEF Printing64
  <2>3. \A h \in Ids : where'[h] \in { "trials", "head" } => indices'[h] = 1
    BY <1>2 DEF GroupBuffer
  <2>4. CASE where[g] = "head"
    <3>1. \A h \in Ids : where[h] # "counts"
      BY <1>7, <2>4 DEF Printing64
    <3>2. out_buffer = << >> /\ indices[g] = 1
      BY <2>4, <3>1 DEF GroupBuffer
    <3>3. Len(out_buffer') = 1 /\ out_buffer'[1] = GroupHead(g)
      BY <1>2, <2>4, <3>2 DEF b
    <3> QED  BY <1>0, <1>2, <2>1, <2>2, <2>3, <2>4, <3>2, <3>3 DEF GroupBuffer
  <2>5. CASE where[g] = "counts"
    <3>1. /\ Len(out_buffer) = indices[g]
          /\ \A j \in 1..indices[g] :
               out_buffer[j] = IF j = 1 THEN GroupHead(g) ELSE Count(g, j - 1)
      BY <2>5 DEF GroupBuffer
    <3>2. b = Count(g, indices[g]) /\ indices[g] <= Len(errors)
          /\ indices'[g] = indices[g] + 1 /\ indices[g] \in Nat \ {0}
      BY <1>b, <1>2, <2>5 DEF b
    <3>3. Len(out_buffer') = indices'[g]
      BY <1>c, <1>2, <3>1, <3>2
    <3>4. ASSUME NEW j \in 1..indices'[g]
          PROVE  out_buffer'[j] = IF j = 1 THEN GroupHead(g) ELSE Count(g, j - 1)
      <4>1. CASE j = indices[g] + 1
        BY <1>c, <1>2, <3>1, <3>2, <4>1
      <4>2. CASE j \in 1..indices[g]
        <5>1. out_buffer'[j] = out_buffer[j]
          BY <1>c, <1>2, <3>1, <4>2
        <5> QED  BY <3>1, <4>2, <5>1
      <4> QED  BY <3>2, <3>4, <4>1, <4>2
    <3> QED  BY <1>0, <1>2, <2>1, <2>2, <2>3, <2>5, <3>2, <3>3, <3>4 DEF GroupBuffer
  <2> QED  BY <1>2, <2>4, <2>5
<1>9. GroupFile'
  <2>1. \A j \in DOMAIN out_file : out_file[j].group \in Ids
    <3>1. out_file \in Seq(GroupPieces)
      BY DEF GroupTypes
    <3>2. \A j \in DOMAIN out_file : out_file[j] \in GroupPieces
      BY <3>1
    <3> QED  BY <3>2 DEF GroupPieces
  <2>2. CountsTrue'
    BY <1>1, <1>5 DEF GroupFile, CountsTrue
  <2> QED  BY <1>1, <1>2, <2>1, <2>2 DEF GroupFile
<1> QED  BY <1>3, <1>6, <1>7, <1>8, <1>9

(* The line goes to the file.                                              *)
LEMMA GroupEndInv ==
  ASSUME GroupInv, NEW w \in Workers, NEW g \in Ids, EndLine(w, g)
  PROVE  GroupInv'
<1> USE DEF GroupInv
<1> DEFINE L == Len(errors)
           N == Len(out_file)
<1>a. where \in [Ids -> Printing64 \cup { "trials", "end" }]
  BY DEF GroupTypes
<1>b. indices \in [Ids -> Nat \ {0}]
  BY DEF GroupTypes
<1>c. out_buffer \in Seq(GroupPieces) /\ out_file \in Seq(GroupPieces)
  BY DEF GroupTypes
<1>0. L \in Nat /\ DOMAIN errors = 1..L /\ N \in Nat
  BY <1>c, SurveysAssumption
<1>1. /\ UNCHANGED << loop_runs, e_lens, tries, indices, counted, won, out_m >>
      /\ where[g] = "counts" /\ where' = [ where EXCEPT ![g] = "unlock" ]
      /\ out_file' = out_file \o out_buffer /\ out_buffer' = << >>
      /\ indices[g] > L
  BY DEF EndLine, GroupGoto, group_loops
<1>2. /\ \A h \in Ids : h # g => where'[h] = where[h]
      /\ where'[g] = "unlock"
      /\ where' \in [Ids -> Printing64 \cup { "trials", "end" }]
  BY <1>a, <1>1 DEF Printing64
<1>3. /\ Len(out_buffer) = L + 1
      /\ \A j \in 1..(L + 1) :
           out_buffer[j] = IF j = 1 THEN GroupHead(g) ELSE Count(g, j - 1)
  <2>1. indices[g] = L + 1
    BY <1>0, <1>b, <1>1 DEF GroupBuffer
  <2> QED  BY <1>1, <2>1 DEF GroupBuffer
<1>4. GroupTypes'
  BY <1>c, <1>1, <1>2 DEF GroupTypes
<1>5. \A h, x : WonOf(h, x)' = WonOf(h, x)
  BY <1>1 DEF WonOf
<1>6. GroupCounts'
  BY <1>1, <1>2, <1>5 DEF GroupCounts
<1>7. GroupMutex' /\ \A h \in Ids : h # g => where[h] \notin Printing64
  BY <1>1, <1>2 DEF GroupMutex, Printing64
<1>8. GroupBuffer'
  <2>1. \A h \in Ids : where'[h] # "counts"
    BY <1>2, <1>7 DEF Printing64
  <2> QED  BY <1>1, <1>2, <2>1 DEF GroupBuffer
<1>10. /\ Len(out_file') = N + L + 1
       /\ \A j \in 1..N : out_file'[j] = out_file[j]
       /\ \A j \in 1..(L + 1) : out_file'[N + j] = out_buffer[j]
  <2> DEFINE F == out_file
             B == out_buffer
  <2>1. F \in Seq(GroupPieces) /\ B \in Seq(GroupPieces) /\ Len(B) = L + 1
    BY <1>c, <1>3
  <2>2. out_file' = F \o B
    BY <1>1
  <2> HIDE DEF F, B
  <2>3. Len(F \o B) = Len(F) + (L + 1)
    BY <2>1
  <2>4. \A j \in 1..Len(F) : (F \o B)[j] = F[j]
    BY <2>1
  <2>5. \A j \in 1..Len(B) : (F \o B)[Len(F) + j] = B[j]
    BY <2>1
  <2> QED  BY <1>0, <2>1, <2>2, <2>3, <2>4, <2>5 DEF F, B
<1>11. \A j \in 1..(L + 1) :
         LET p == out_file'[N + j]  IN
         /\ p.group = g /\ p.metric = j - 1
         /\ p.metric > 0 => p.count = Cardinality(WonOf(g, p.metric))
  <2>1. ASSUME NEW j \in 1..(L + 1), j = 1
        PROVE  out_file'[N + j].group = g /\ out_file'[N + j].metric = 0
    BY <1>3, <1>10, <2>1 DEF GroupHead
  <2>2. ASSUME NEW j \in 1..(L + 1), j # 1
        PROVE  /\ out_file'[N + j].group = g /\ out_file'[N + j].metric = j - 1
               /\ out_file'[N + j].count = Cardinality(WonOf(g, j - 1))
    <3>1. out_file'[N + j] = Count(g, j - 1)
      BY <1>3, <1>10, <2>2
    <3>2. counted[g][j - 1] = Cardinality(WonOf(g, j - 1))
      BY <1>0, <2>2 DEF GroupCounts
    <3> QED  BY <1>5, <3>1, <3>2 DEF Count
  <2> QED  BY <2>1, <2>2
<1>12. CountsTrue'
  <2> DEFINE f == out_file'
  <2>1. Len(f) = N + L + 1 /\ f \in Seq(GroupPieces) /\ DOMAIN f = 1..(N + L + 1)
    BY <1>c, <1>0, <1>1, <1>10
  <2>2. ASSUME NEW j \in 1..N
        PROVE  /\ f[j].metric = IF j = 1 \/ f[j - 1].metric = L THEN 0
                                ELSE f[j - 1].metric + 1
               /\ f[j].metric > 0 =>
                    /\ f[j].group = f[j - 1].group
                    /\ f[j].count = Cardinality(WonOf(f[j].group, f[j].metric))
    <3>1. j \in DOMAIN out_file /\ f[j] = out_file[j]
      BY <1>c, <1>10
    <3>2. j # 1 => f[j - 1] = out_file[j - 1]
      BY <1>0, <1>10
    <3>3. /\ out_file[j].metric = IF j = 1 \/ out_file[j - 1].metric = L THEN 0
                                  ELSE out_file[j - 1].metric + 1
          /\ out_file[j].metric > 0 =>
               /\ out_file[j].group = out_file[j - 1].group
               /\ out_file[j].count =
                    Cardinality(WonOf(out_file[j].group, out_file[j].metric))
      BY <3>1 DEF GroupFile, CountsTrue
    <3> QED  BY <1>5, <3>1, <3>2, <3>3
  <2>3. ASSUME NEW k \in 1..(L + 1)
        PROVE  /\ f[N + k].metric = IF N + k = 1 \/ f[N + k - 1].metric = L THEN 0
                                    ELSE f[N + k - 1].metric + 1
               /\ f[N + k].metric > 0 =>
                    /\ f[N + k].group = f[N + k - 1].group
                    /\ f[N + k].count =
                         Cardinality(WonOf(f[N + k].group, f[N + k].metric))
    <3>1. /\ f[N + k].group = g /\ f[N + k].metric = k - 1
          /\ k - 1 > 0 => f[N + k].count = Cardinality(WonOf(g, k - 1))
      BY <1>11
    <3>2. CASE k = 1
      <4>1. N # 0 => f[N] = out_file[N] /\ out_file[N].metric = L
        BY <1>c, <1>0, <1>10 DEF GroupFile, CountsTrue
      <4>2. N + k - 1 = N
        BY <1>0, <3>2
      <4> QED  BY <1>0, <3>1, <3>2, <4>1, <4>2
    <3>3. CASE k > 1
      <4>1. k - 1 \in 1..(L + 1) /\ N + (k - 1) = N + k - 1 /\ k - 1 - 1 # L
        BY <1>0, <3>3
      <4>2. f[N + (k - 1)].group = g /\ f[N + (k - 1)].metric = k - 1 - 1
        BY <1>11, <4>1
      <4> QED  BY <1>0, <3>1, <3>3, <4>1, <4>2
    <3> QED  BY <3>2, <3>3
  <2>4. f[Len(f)].metric = L
    <3>1. Len(f) = N + (L + 1) /\ L + 1 \in 1..(L + 1)
      BY <1>0, <2>1
    <3> QED  BY <1>0, <1>11, <3>1
  <2>5. \A j \in DOMAIN f : j \in 1..N \/ \E k \in 1..(L + 1) : j = N + k
    <3>1. ASSUME NEW j \in 1..(N + L + 1), j \notin 1..N
          PROVE  j - N \in 1..(L + 1) /\ j = N + (j - N)
      BY <1>0, <3>1
    <3> QED  BY <2>1, <3>1
  <2> HIDE DEF f
  <2>6. \A j \in DOMAIN f :
          /\ f[j].metric = IF j = 1 \/ f[j - 1].metric = L THEN 0
                           ELSE f[j - 1].metric + 1
          /\ f[j].metric > 0 =>
               /\ f[j].group = f[j - 1].group
               /\ f[j].count = Cardinality(WonOf(f[j].group, f[j].metric))
    BY <2>2, <2>3, <2>5
  <2> QED  BY <1>5, <2>4, <2>6 DEF CountsTrue, f
<1>13. GroupFile'
  <2>1. \A j \in DOMAIN out_file' : where'[out_file'[j].group] # "trials"
    <3>1. ASSUME NEW j \in 1..N PROVE where'[out_file'[j].group] # "trials"
      <4>1. out_file[j] \in GroupPieces /\ out_file'[j] = out_file[j] /\ j \in DOMAIN out_file
        BY <1>c, <1>10
      <4> QED  BY <1>2, <4>1 DEF GroupPieces, GroupFile
    <3>2. ASSUME NEW k \in 1..(L + 1) PROVE where'[out_file'[N + k].group] # "trials"
      BY <1>2, <1>11
    <3>3. ASSUME NEW j \in 1..(N + L + 1), j \notin 1..N
          PROVE  j - N \in 1..(L + 1) /\ j = N + (j - N)
      BY <1>0, <3>3
    <3>4. DOMAIN out_file' = 1..(N + L + 1)
      BY <1>c, <1>0, <1>1, <1>10
    <3> QED  BY <3>1, <3>2, <3>3, <3>4
  <2> QED  BY <1>12, <2>1 DEF GroupFile
<1> QED  BY <1>4, <1>6, <1>7, <1>8, <1>13

(* Every step of search64_par keeps the invariant.                         *)
LEMMA GroupNextInv ==
  ASSUME GroupInv, [ParNext]_vars_par
  PROVE  GroupInv'
<1>1. ASSUME NEW w \in Workers, loop_runs[w] # nobody,
             GroupStep(w, loop_runs[w][1])
      PROVE  GroupInv'
  <2>1. PICK g \in Ids : loop_runs[w] = << g >>
    BY <1>1 DEF GroupInv, GroupTypes
  <2>2. GroupStep(w, g)
    BY <1>1, <2>1
  <2> QED  BY <2>2, GroupTrialInv, GroupLockInv, GroupPrintInv, GroupEndInv, GroupLoop
           DEF GroupStep
<1>2. CASE UNCHANGED vars_par
  <2>1. UNCHANGED << group_locals, out_m, out_buffer, out_file, loop_runs >>
    BY <1>2 DEF vars_par, group_loops
  <2> QED  BY <2>1, GroupSilent DEF GroupInv, GroupTypes
<1> QED  BY <1>1, <1>2, GroupLoop DEF ParNext
-----------------------------------------------------------------------------
OneLinesType ==
  [ line : { "PDS", "none", "succ", "average" }, value : Nat ]

(* search: what it has counted is what it has listed, the sum of the       *)
(* errors is 0 exactly if no trial has failed, and the number is printed   *)
(* after the last trial.                                                   *)
OneInv ==
  /\ tried \in Nat /\ succeeded \in Nat /\ avg_error \in Nat
  /\ succeeded <= tried
  /\ avg_error = 0 <=> succeeded = tried
  /\ out \in Seq(OneLinesType)
  /\ succeeded = Cardinality(OneLines("PDS"))
  /\ Said => tried = NUM_TRIALS_one
  /\ TotalsTrue

(* It holds at the start.                                                  *)
LEMMA OneStart == OneInit => OneInv
<1> SUFFICES ASSUME OneInit PROVE OneInv
  OBVIOUS
<1>1. out = << >> /\ DOMAIN out = {} /\ tried = 0 /\ succeeded = 0 /\ avg_error = 0
  BY DEF OneInit
<1>2. \A l : OneLines(l) = {}
  BY <1>1 DEF OneLines
<1>3. ~Said /\ TotalsTrue
  BY <1>1, <1>2 DEF Said, TotalsTrue
<1> QED  BY <1>1, <1>2, <1>3, FS_EmptySet DEF OneInv

(* The lines are finitely many.                                            *)
LEMMA OneFinite == ASSUME OneInv, NEW l PROVE IsFiniteSet(OneLines(l))
<1>1. DOMAIN out = 1..Len(out) /\ Len(out) \in Nat
  BY DEF OneInv
<1>2. IsFiniteSet(1..Len(out))
  BY <1>1, FS_Interval
<1> QED  BY <1>1, <1>2, FS_Subset DEF OneLines

(* A trial.                                                                *)
LEMMA OneTrialInv == ASSUME OneInv, OneTrial PROVE OneInv'
<1>1. PICK e \in Errors :
        /\ avg_error' = avg_error + e
        /\ IF e = 0
           THEN /\ succeeded' = succeeded + 1
                /\ out' = Append(out, Listing(tried))
                /\ UNCHANGED missed
           ELSE missed' = missed \cup {tried} /\ UNCHANGED << succeeded, out >>
  BY DEF OneTrial
<1>2. /\ e \in Nat /\ tried < NUM_TRIALS_one /\ tried' = tried + 1
      /\ tried \in Nat /\ succeeded \in Nat /\ avg_error \in Nat
      /\ succeeded <= tried /\ (avg_error = 0 <=> succeeded = tried)
      /\ out \in Seq(OneLinesType)
      /\ NUM_TRIALS_one \in Nat /\ ~Said
  BY TrialErrors DEF OneInv, OneTrial
<1>3. /\ tried' \in Nat /\ succeeded' \in Nat /\ avg_error' \in Nat
      /\ succeeded' <= tried' /\ (avg_error' = 0 <=> succeeded' = tried')
  BY <1>1, <1>2
<1>4. CASE e = 0
  <2>1. Listing(tried) \in OneLinesType
    BY <1>2 DEF Listing, OneLinesType
  <2>2. /\ out' = Append(out, Listing(tried)) /\ succeeded' = succeeded + 1
        /\ out' \in Seq(OneLinesType)
        /\ DOMAIN out' = 1..(Len(out) + 1) /\ DOMAIN out = 1..Len(out)
        /\ \A j \in DOMAIN out : out'[j] = out[j]
        /\ out'[Len(out) + 1] = Listing(tried) /\ Len(out) \in Nat
    BY <1>1, <1>2, <1>4, <2>1
  <2>3. out'[Len(out) + 1].line = "PDS"
    BY <2>2 DEF Listing
  <2>4. ~Said'
    BY <1>2, <2>2, <2>3 DEF Said
  <2>5. TotalsTrue'
    BY <2>4 DEF TotalsTrue, Said, OneLines
  <2>6. /\ OneLines("PDS")' = OneLines("PDS") \cup { Len(out) + 1 }
        /\ Len(out) + 1 \notin OneLines("PDS")
    BY <2>2, <2>3 DEF OneLines
  <2>7. succeeded' = Cardinality(OneLines("PDS"))'
    BY <2>2, <2>6, OneFinite, FS_AddElement DEF OneInv
  <2> QED  BY <1>3, <2>2, <2>4, <2>5, <2>7 DEF OneInv
<1>5. CASE e # 0
  <2>1. out' = out /\ succeeded' = succeeded
    BY <1>1, <1>5
  <2>2. OneLines("PDS")' = OneLines("PDS") /\ ~Said'
    BY <1>2, <2>1 DEF OneLines, Said
  <2>3. TotalsTrue'
    BY <2>2 DEF TotalsTrue, Said, OneLines
  <2> QED  BY <1>2, <1>3, <2>1, <2>2, <2>3 DEF OneInv
<1> QED  BY <1>4, <1>5

(* The lines after the loop.                                               *)
LEMMA OneReportInv == ASSUME OneInv, OneReport PROVE OneInv'
<1> DEFINE Printed1 == IF succeeded = 0 THEN Append(out, NoneSaid) ELSE out
           Average == [ line |-> "average", value |-> avg_error ]
           N == Len(Printed1)
<1>1. /\ UNCHANGED << tried, succeeded, avg_error >>
      /\ out' = Printed1 \o << Totals, Average >>
      /\ tried = NUM_TRIALS_one /\ ~Said
  BY DEF OneReport
<1>2. /\ tried \in Nat /\ succeeded \in Nat /\ avg_error \in Nat
      /\ succeeded <= tried /\ (avg_error = 0 <=> succeeded = tried)
      /\ out \in Seq(OneLinesType) /\ NUM_TRIALS_one \in Nat
  BY TrialErrors DEF OneInv
<1>3. NoneSaid \in OneLinesType /\ Totals \in OneLinesType /\ Average \in OneLinesType
  BY <1>2, TrialErrors DEF NoneSaid, Totals, OneLinesType
<1>4. /\ Printed1 \in Seq(OneLinesType) /\ N \in Nat /\ DOMAIN Printed1 = 1..N
      /\ \A j \in DOMAIN out : j \in DOMAIN Printed1 /\ Printed1[j] = out[j]
      /\ \A j \in DOMAIN Printed1 : j \in DOMAIN out \/ Printed1[j] = NoneSaid
  BY <1>2, <1>3
<1> HIDE DEF Printed1, Average, N
<1>5. /\ out' \in Seq(OneLinesType) /\ DOMAIN out' = 1..(N + 2)
      /\ \A j \in 1..N : out'[j] = Printed1[j]
      /\ out'[N + 1] = Totals /\ out'[N + 2] = Average
  <2>1. << Totals, Average >> \in Seq(OneLinesType)
    BY <1>3
  <2> QED  BY <1>1, <1>3, <1>4, <2>1 DEF N
<1>6. \A j \in 1..N : Printed1[j].line # "succ"
  BY <1>1, <1>4 DEF Said, NoneSaid
<1>7. OneLines("PDS")' = OneLines("PDS")
  <2>1. \A j \in 1..(N + 2) : j \in 1..N \/ j = N + 1 \/ j = N + 2
    BY <1>4
  <2>2. out'[N + 1].line # "PDS" /\ out'[N + 2].line # "PDS"
    BY <1>5 DEF Totals, Average
  <2>3. \A j \in 1..N : Printed1[j].line = "PDS" <=> j \in OneLines("PDS")
    BY <1>4 DEF NoneSaid, OneLines
  <2>4. \A j \in OneLines("PDS") : j \in 1..N
    BY <1>4 DEF OneLines
  <2>5. \A j : j \in OneLines("PDS")' <=> j \in 1..(N + 2) /\ out'[j].line = "PDS"
    BY <1>5 DEF OneLines
  <2>6. 1..N \subseteq 1..(N + 2)
    BY <1>4
  <2> QED  BY <1>5, <2>1, <2>2, <2>3, <2>4, <2>5, <2>6
<1>8. \A j \in OneLines("succ")' : j = N + 1
  <2>1. \A j \in 1..(N + 2) : j \in 1..N \/ j = N + 1 \/ j = N + 2
    BY <1>4
  <2>2. out'[N + 2].line # "succ"
    BY <1>5 DEF Average
  <2> QED  BY <1>5, <1>6, <2>1, <2>2 DEF OneLines
<1>9. TotalsTrue'
  <2>1. /\ out'[N + 1].value = Cardinality(OneLines("PDS")')
        /\ out'[N + 1 + 1].value = 0 <=> out'[N + 1].value = NUM_TRIALS_one
    <3>1. out'[N + 1].value = succeeded /\ out'[N + 2].value = avg_error
      BY <1>5 DEF Totals, Average
    <3>2. N + 1 + 1 = N + 2
      BY <1>4
    <3>3. succeeded = Cardinality(OneLines("PDS"))
      BY DEF OneInv
    <3> QED  BY <1>1, <1>2, <1>7, <3>1, <3>2, <3>3
  <2> QED  BY <1>8, <2>1 DEF TotalsTrue
<1> QED  BY <1>1, <1>2, <1>5, <1>7, <1>9 DEF OneInv

(* Every step of search keeps the invariant.                               *)
LEMMA OneNextInv == ASSUME OneInv, [OneNext]_vars_one PROVE OneInv'
<1>1. CASE UNCHANGED vars_one
  <2>1. UNCHANGED << tried, succeeded, avg_error, out >>
    BY <1>1 DEF vars_one
  <2>2. \A l : OneLines(l)' = OneLines(l)
    BY <2>1 DEF OneLines
  <2> QED  BY <2>1, <2>2 DEF OneInv, TotalsTrue, Said
<1> QED  BY <1>1, OneTrialInv, OneReportInv DEF OneNext

(* What search64_par and search print is what their trials found.          *)
THEOREM TalliesAreTrue == MCSpec => []TalliesTrue
<1>1. MCInit => GroupInv /\ OneInv
  BY GroupInit, OneStart DEF MCInit
<1>2. GroupInv /\ OneInv /\ [MCNext]_all => GroupInv' /\ OneInv'
  <2> SUFFICES ASSUME GroupInv, OneInv, [MCNext]_all
               PROVE  [ParNext]_vars_par /\ [OneNext]_vars_one
    BY GroupNextInv, OneNextInv
  <2> QED  BY DEF MCNext, ParallelMove, ParMove, SeqMove, OneMove, all
<1>3. GroupInv /\ OneInv => TalliesTrue
  BY DEF GroupInv, GroupFile, OneInv, TalliesTrue
<1> QED  BY <1>1, <1>2, <1>3, PTL DEF MCSpec
-----------------------------------------------------------------------------
(* search64: its lines are those of the groups before id, and what it has  *)
(* counted for the group at hand is no more than it has tried.             *)
SeqLine == [ group : Nat, tally : [ DOMAIN errors -> Nat ] ]

SeqInv ==
  /\ id \in 1..(num_groups + 1)
  /\ e_len \in 1..(Len(errors) + 1)
  /\ trial \in 0..NUM_TRIALS_each
  /\ tally \in [ DOMAIN errors -> Nat ]
  /\ \A x \in DOMAIN errors :
       /\ tally[x] <= NUM_TRIALS_each
       /\ x = e_len => tally[x] <= trial
       /\ x > e_len => tally[x] = 0
       /\ id \notin Solvable => tally[x] = 0
  /\ lines \in Seq(SeqLine) /\ Len(lines) = id - 1
  /\ \A j \in 1..(id - 1) : lines[j].group = j
  /\ over \in BOOLEAN /\ (over => id > num_groups)

(* A step of search64 is one of Survey, or changes nothing there.          *)
SeqMaps == SeqS!SNext \/ SeqS!svars' = SeqS!svars

(* It holds at the start.                                                  *)
LEMMA SeqStart == SeqInit => SeqInv /\ SeqS!SInit
<1> SUFFICES ASSUME SeqInit PROVE SeqInv /\ SeqS!SInit
  OBVIOUS
<1>1. num_groups \in Nat /\ NUM_TRIALS_each \in Nat /\ Len(errors) \in Nat
  BY SurveysAssumption
<1>2. lines = << >> /\ lines \in Seq(SeqLine) /\ Len(lines) = 0
  BY DEF SeqInit
<1>3. /\ tally \in [ DOMAIN errors -> Nat ]
      /\ \A x \in DOMAIN errors : tally[x] = 0
  BY DEF SeqInit
<1>4. id = 1 /\ e_len = 1 /\ trial = 0 /\ over = FALSE
  BY DEF SeqInit
<1>5. SeqInv
  <2>1. /\ id \in 1..(num_groups + 1) /\ e_len \in 1..(Len(errors) + 1)
        /\ trial \in 0..NUM_TRIALS_each
    BY <1>1, <1>4
  <2>2. over \in BOOLEAN /\ ~over
    BY <1>4
  <2>3. \A j \in 1..(id - 1) : lines[j].group = j
    BY <1>4
  <2>4. Len(lines) = id - 1
    BY <1>2, <1>4
  <2> QED  BY <1>1, <1>2, <1>3, <2>1, <2>2, <2>3, <2>4 DEF SeqInv
<1>6. SeqS!SInit
  BY DEF SeqInit, SeqS!SInit
<1> QED  BY <1>5, <1>6

(* Every step of search64 keeps it and is a step of Survey.                *)
LEMMA SeqNextInv ==
  ASSUME SeqInv, [SeqNext]_vars_seq
  PROVE  SeqInv' /\ SeqMaps
<1>0. /\ num_groups \in Nat /\ NUM_TRIALS_each \in Nat /\ Len(errors) \in Nat
      /\ DOMAIN errors = 1..Len(errors)
  BY SurveysAssumption
<1>1. CASE UNCHANGED vars_seq
  BY <1>1 DEF vars_seq, SeqInv, SeqMaps, SeqS!svars
<1>2. CASE SeqTrial
  <2>1. /\ UNCHANGED << id, e_len, lines, over >> /\ trial' = trial + 1
        /\ e_len \in DOMAIN errors /\ trial < NUM_TRIALS_each
        /\ \/ tally' = tally
           \/ id \in Solvable /\ tally' = [ tally EXCEPT ![e_len] = @ + 1 ]
    BY <1>0, <1>2 DEF SeqTrial, SeqInv
  <2>2. tally' \in [ DOMAIN errors -> Nat ]
    BY <2>1 DEF SeqInv
  <2>3. ASSUME NEW x \in DOMAIN errors
        PROVE  /\ tally'[x] <= NUM_TRIALS_each
               /\ x = e_len => tally'[x] <= trial'
               /\ x > e_len => tally'[x] = 0
               /\ id \notin Solvable => tally'[x] = 0
    <3>1. tally[x] \in Nat /\ trial \in Nat /\ e_len \in Nat /\ x \in Nat
      BY <1>0 DEF SeqInv
    <3>2. \/ tally'[x] = tally[x]
          \/ x = e_len /\ id \in Solvable /\ tally'[x] = tally[x] + 1
      BY <2>1 DEF SeqInv
    <3> QED  BY <1>0, <2>1, <3>1, <3>2 DEF SeqInv
  <2>4. trial' \in 0..NUM_TRIALS_each
    BY <1>0, <2>1 DEF SeqInv
  <2> QED  BY <2>1, <2>2, <2>3, <2>4 DEF SeqInv, SeqMaps, SeqS!svars
<1>3. CASE SeqNextMetric
  <2>1. /\ UNCHANGED << id, tally, lines, over >> /\ trial' = 0
        /\ e_len' = e_len + 1 /\ e_len' \in 1..(Len(errors) + 1)
    BY <1>0, <1>3 DEF SeqNextMetric, SeqInv
  <2>2. ASSUME NEW x \in DOMAIN errors
        PROVE  /\ x = e_len' => tally[x] <= 0
               /\ x > e_len' => tally[x] = 0
    BY <1>0, <2>1 DEF SeqInv
  <2> QED  BY <1>0, <2>1, <2>2 DEF SeqInv, SeqMaps, SeqS!svars
<1>4. CASE NextGroup
  <2> DEFINE l == [ group |-> id, tally |-> tally ]
  <2>1. /\ id <= num_groups /\ id' = id + 1 /\ e_len' = 1
        /\ lines' = Append(lines, l)
        /\ tally' = [ x \in DOMAIN errors |-> 0 ]
        /\ UNCHANGED << trial, over >>
    BY <1>4 DEF NextGroup
  <2>2. l \in SeqLine /\ l.group = id /\ l.tally = tally
    BY <1>0 DEF SeqInv, SeqLine
  <2> HIDE DEF l
  <2>3. /\ lines' \in Seq(SeqLine) /\ Len(lines') = id
        /\ \A j \in 1..(id - 1) : lines'[j] = lines[j]
        /\ lines'[id] = l /\ id \in Nat /\ DOMAIN lines = 1..(id - 1)
    BY <1>0, <2>1, <2>2 DEF SeqInv
  <2>4. SeqInv'
    <3>1. \A j \in 1..(id' - 1) : lines'[j].group = j
      <4>1. ASSUME NEW j \in 1..id PROVE lines'[j].group = j
        <5>1. j = id \/ j \in 1..(id - 1)
          BY <2>3
        <5> QED  BY <2>2, <2>3, <5>1 DEF SeqInv
      <4> QED  BY <2>1, <2>3, <4>1
    <3>2. /\ tally' \in [ DOMAIN errors -> Nat ]
          /\ \A x \in DOMAIN errors : tally'[x] = 0
      BY <2>1
    <3>3. id' \in 1..(num_groups + 1) /\ Len(lines') = id' - 1
      BY <1>0, <2>1, <2>3 DEF SeqInv
    <3>4. over' \in BOOLEAN /\ ~over'
      BY <1>0, <2>1 DEF SeqInv
    <3>5. e_len' \in 1..(Len(errors) + 1) /\ trial' \in 0..NUM_TRIALS_each
      BY <1>0, <2>1 DEF SeqInv
    <3>6. \A x \in DOMAIN errors :
            /\ tally'[x] <= NUM_TRIALS_each
            /\ x = e_len' => tally'[x] <= trial'
            /\ x > e_len' => tally'[x] = 0
            /\ id' \notin Solvable => tally'[x] = 0
      BY <1>0, <3>2, <3>5
    <3> QED  BY <2>3, <3>1, <3>2, <3>3, <3>4, <3>5, <3>6 DEF SeqInv
  <2>5. SeqS!Report(id)
    <3>1. ~over /\ UNCHANGED over
      BY <1>0, <2>1 DEF SeqInv
    <3>2. \A j \in DOMAIN lines : lines[j].group # id
      BY <2>3 DEF SeqInv
    <3>3. tally \in SeqS!Tallies(id)
      <4>1. \A x \in DOMAIN errors :
              tally[x] \in IF id \in Solvable THEN 0..NUM_TRIALS_each ELSE {0}
        BY <1>0 DEF SeqInv
      <4> QED  BY <4>1 DEF SeqInv, SeqS!Tallies
    <3>4. lines' = Append(lines, [ group |-> id, tally |-> tally ])
      BY <2>1 DEF l
    <3> QED  BY <3>1, <3>2, <3>3, <3>4 DEF SeqS!Report
  <2>6. id \in SeqS!Groups
    BY <1>0, <2>1 DEF SeqInv, SeqS!Groups
  <2> QED  BY <2>4, <2>5, <2>6 DEF SeqMaps, SeqS!SNext
<1>5. CASE SeqEnd
  <2>1. /\ UNCHANGED << id, e_len, trial, tally, lines >>
        /\ over' = TRUE /\ id > num_groups
    BY <1>5 DEF SeqEnd
  <2>2. Len(lines) = num_groups
    BY <1>0, <2>1 DEF SeqInv
  <2>3. SeqInv'
    BY <2>1 DEF SeqInv
  <2> QED  BY <2>1, <2>2, <2>3 DEF SeqMaps, SeqS!SNext, SeqS!End
<1> QED  BY <1>1, <1>2, <1>3, <1>4, <1>5 DEF SeqNext
-----------------------------------------------------------------------------
(* search: the trials so far are those listed and those missed, and the    *)
(* sentence that there is nothing comes with the totals.                   *)
OneListed == { out[j].value : j \in OneLines("PDS") }

OneTrials ==
  /\ \A t : t \in OneListed \cup missed <=> t \in 0..(tried - 1)
  /\ ~Said => OneLines("none") = {}

(* A step of search is one of TrialReport, or changes nothing there.       *)
OneMaps == OneT!TRNext \/ OneT!trvars' = OneT!trvars

(* It holds at the start.                                                  *)
LEMMA OneTrialsStart == OneInit => OneTrials /\ OneT!TRInit
<1> SUFFICES ASSUME OneInit PROVE OneTrials /\ OneT!TRInit
  OBVIOUS
<1>1. out = << >> /\ DOMAIN out = {} /\ tried = 0 /\ missed = {}
  BY DEF OneInit
<1>2. ~Said /\ OneListed = {} /\ \A l : OneLines(l) = {}
  BY <1>1 DEF Said, OneLines, OneListed
<1> QED  BY <1>1, <1>2 DEF OneTrials, OneT!TRInit, OneListed

(* A trial.                                                                *)
LEMMA OneTrialMaps ==
  ASSUME OneInv, OneTrials, OneTrial
  PROVE  OneTrials' /\ OneMaps
<1>1. PICK e \in Errors :
        /\ avg_error' = avg_error + e
        /\ IF e = 0
           THEN /\ succeeded' = succeeded + 1
                /\ out' = Append(out, Listing(tried))
                /\ UNCHANGED missed
           ELSE missed' = missed \cup {tried} /\ UNCHANGED << succeeded, out >>
  BY DEF OneTrial
<1>2. /\ tried \in Nat /\ tried < NUM_TRIALS_one /\ tried' = tried + 1
      /\ out \in Seq(OneLinesType) /\ NUM_TRIALS_one \in Nat /\ ~Said
  BY TrialErrors DEF OneInv, OneTrial
<1>3. /\ ~Said' /\ OneLines("none")' = {}
      /\ OneListed' = IF e = 0 THEN OneListed \cup {tried} ELSE OneListed
      /\ missed' = IF e = 0 THEN missed ELSE missed \cup {tried}
  <2>1. CASE e # 0
    BY <1>1, <1>2, <2>1 DEF Said, OneLines, OneListed, OneTrials
  <2>2. CASE e = 0
    <3>1. Listing(tried) \in OneLinesType
      BY <1>2 DEF Listing, OneLinesType
    <3>2. /\ DOMAIN out' = 1..(Len(out) + 1) /\ DOMAIN out = 1..Len(out)
          /\ \A j \in DOMAIN out : out'[j] = out[j]
          /\ out'[Len(out) + 1] = Listing(tried) /\ Len(out) \in Nat
      BY <1>1, <1>2, <2>2, <3>1
    <3>3. /\ out'[Len(out) + 1].line = "PDS"
          /\ out'[Len(out) + 1].value = tried
      BY <3>2 DEF Listing
    <3>4. ~Said' /\ OneLines("none")' = {}
      BY <1>2, <3>2, <3>3 DEF Said, OneLines, OneTrials
    <3>5. OneLines("PDS")' = OneLines("PDS") \cup { Len(out) + 1 }
      BY <3>2, <3>3 DEF OneLines
    <3>6. \A j \in OneLines("PDS") : out'[j] = out[j]
      BY <3>2 DEF OneLines
    <3>7. OneListed' = OneListed \cup {tried}
      BY <3>3, <3>5, <3>6 DEF OneListed
    <3> QED  BY <1>1, <2>2, <3>4, <3>7
  <2> QED  BY <2>1, <2>2
<1>4. /\ (OneListed \cup missed)' = OneListed \cup missed \cup {tried}
      /\ tried \notin OneListed \cup missed
  BY <1>2, <1>3 DEF OneTrials
<1>5. OneTrials'
  <2>1. \A t : t \in 0..(tried' - 1) <=> t \in 0..(tried - 1) \/ t = tried
    BY <1>2
  <2> QED  BY <1>3, <1>4, <2>1 DEF OneTrials
<1>6. PICK t \in 0..(NUM_TRIALS_one - 1) : t = tried
  BY <1>2
<1>7. OneT!Conclude(t)
  BY <1>2, <1>3, <1>4, <1>6 DEF OneT!Conclude, OneListed
<1> QED  BY <1>5, <1>6, <1>7 DEF OneMaps, OneT!TRNext

(* The lines after the loop.                                               *)
LEMMA OneReportMaps ==
  ASSUME OneInv, OneTrials, OneReport
  PROVE  OneTrials' /\ OneMaps
<1> DEFINE Printed1 == IF succeeded = 0 THEN Append(out, NoneSaid) ELSE out
           Average == [ line |-> "average", value |-> avg_error ]
           N == Len(Printed1)
<1>1. /\ UNCHANGED << tried, missed >>
      /\ out' = Printed1 \o << Totals, Average >>
      /\ tried = NUM_TRIALS_one /\ ~Said
  BY DEF OneReport
<1>2. /\ succeeded \in Nat /\ avg_error \in Nat
      /\ out \in Seq(OneLinesType) /\ NUM_TRIALS_one \in Nat
  BY TrialErrors DEF OneInv
<1>3. /\ NoneSaid \in OneLinesType /\ NoneSaid.line = "none"
      /\ Totals \in OneLinesType /\ Totals.line = "succ"
      /\ Average \in OneLinesType /\ Average.line = "average"
  BY <1>2, TrialErrors DEF NoneSaid, Totals, OneLinesType
<1>4. /\ Printed1 \in Seq(OneLinesType) /\ N \in Nat /\ DOMAIN Printed1 = 1..N
      /\ \A j \in DOMAIN out : j \in 1..N /\ Printed1[j] = out[j]
      /\ \A j \in 1..N :
           j \in DOMAIN out \/ (succeeded = 0 /\ Printed1[j] = NoneSaid)
      /\ succeeded = 0 => N > 0 /\ Printed1[N] = NoneSaid
  BY <1>2, <1>3
<1> HIDE DEF Printed1, Average, N
<1>5. /\ out' \in Seq(OneLinesType) /\ DOMAIN out' = 1..(N + 2)
      /\ \A j \in 1..N : out'[j] = Printed1[j]
      /\ out'[N + 1] = Totals /\ out'[N + 2] = Average
  <2>1. << Totals, Average >> \in Seq(OneLinesType)
    BY <1>3
  <2> QED  BY <1>1, <1>3, <1>4, <2>1 DEF N
<1>6. \A j \in 1..(N + 2) : j \in 1..N \/ j = N + 1 \/ j = N + 2
  BY <1>4
<1>7. /\ \A j \in DOMAIN out : j \in DOMAIN out' /\ out'[j] = out[j]
      /\ \A j \in DOMAIN out' :
           j \in DOMAIN out \/ out'[j].line # "PDS"
      /\ \A j \in DOMAIN out' : out'[j].line = "none" =>
           j \in OneLines("none") \/ succeeded = 0
      /\ N + 1 \in DOMAIN out'
      /\ succeeded = 0 => N \in DOMAIN out' /\ out'[N].line = "none"
  <2>1. 1..N \subseteq 1..(N + 2) /\ N + 1 \in 1..(N + 2)
    BY <1>4
  <2> QED  BY <1>3, <1>4, <1>5, <1>6, <2>1 DEF OneLines
<1>8. OneLines("PDS")' = OneLines("PDS")
  BY <1>7 DEF OneLines
<1>9. OneListed' = OneListed
  <2>1. \A j \in OneLines("PDS") : out'[j] = out[j]
    BY <1>7 DEF OneLines
  <2> QED  BY <1>8, <2>1 DEF OneListed
<1>10. Said'
  BY <1>3, <1>5, <1>7 DEF Said
<1>11. OneLines("none")' # {} <=> succeeded = 0
  <2>1. OneLines("none") = {}
    BY <1>1 DEF OneTrials
  <2>2. \A j \in OneLines("none")' : j \in DOMAIN out' /\ out'[j].line = "none"
    BY DEF OneLines
  <2>3. succeeded = 0 => N \in OneLines("none")'
    BY <1>7 DEF OneLines
  <2> QED  BY <1>7, <2>1, <2>2, <2>3
<1>12. OneListed = {} <=> succeeded = 0
  <2>1. succeeded = Cardinality(OneLines("PDS"))
    BY DEF OneInv
  <2>2. OneLines("PDS") = {} <=> succeeded = 0
    BY <2>1, OneFinite, FS_EmptySet
  <2> QED  BY <2>2 DEF OneListed
<1>13. OneTrials'
  BY <1>1, <1>9, <1>10 DEF OneTrials
<1>14. OneListed \cup missed = 0..(NUM_TRIALS_one - 1)
  BY <1>1 DEF OneTrials
<1>15. OneT!Say
  BY <1>1, <1>9, <1>10, <1>11, <1>12, <1>14 DEF OneT!Say, OneListed
<1> QED  BY <1>13, <1>15 DEF OneMaps, OneT!TRNext

(* Every step of search keeps it and is a step of TrialReport.             *)
LEMMA OneNextMaps ==
  ASSUME OneInv, OneTrials, [OneNext]_vars_one
  PROVE  OneTrials' /\ OneMaps
<1>1. CASE UNCHANGED vars_one
  <2>1. UNCHANGED << tried, succeeded, avg_error, out, missed >>
    BY <1>1 DEF vars_one
  <2>2. (\A l : OneLines(l)' = OneLines(l)) /\ Said' = Said
    BY <2>1 DEF OneLines, Said
  <2>3. OneListed' = OneListed
    BY <2>1, <2>2 DEF OneListed
  <2> QED  BY <2>1, <2>2, <2>3 DEF OneTrials, OneMaps, OneT!trvars, OneListed
<1> QED  BY <1>1, OneTrialMaps, OneReportMaps DEF OneNext
-----------------------------------------------------------------------------
(* search64_par: the loop over the groups.  A body runs on one worker at   *)
(* most, and only between its begin and its end; main is past the loop     *)
(* only if every body has ended.                                           *)
ParLoop ==
  /\ loop_status \in [ GroupCalls -> { "open", "running", "done" } ]
  /\ loop_waits \in [ Workers -> Seq({ << >> }) ]
  /\ \A w \in Workers :
       loop_runs[w] # nobody => loop_status[loop_runs[w]] = "running"
  /\ \A w, v \in Workers :
       loop_runs[w] # nobody /\ loop_runs[w] = loop_runs[v] => w = v
  /\ \A g \in Ids : loop_status[<< g >>] = "done" => where[g] = "end"
  /\ Exited => \A g \in Ids : loop_status[<< g >>] = "done"

(* What has been counted for a group is no more than has been tried.       *)
ParTries ==
  \A g \in Ids :
    /\ tries[g] <= NUM_TRIALS_each
    /\ \A x \in DOMAIN errors :
         /\ counted[g][x] <= NUM_TRIALS_each
         /\ x = e_lens[g] => counted[g][x] <= tries[g]
         /\ x > e_lens[g] => counted[g][x] = 0
         /\ g \notin Solvable => counted[g][x] = 0

(* The file is made of lines, one for each group that has printed its own. *)
GroupAt(j) == out_file[Width * (j - 1) + 1].group

ParPrinted(k) ==
  /\ Len(out_file) = Width * k
  /\ \A j \in 1..k :
       GroupAt(j) \in Ids /\ where[GroupAt(j)] \in { "unlock", "end" }
  /\ \A i, j \in 1..k : GroupAt(i) = GroupAt(j) => i = j
  /\ \A g \in Ids :
       where[g] \in { "unlock", "end" } => \E j \in 1..k : GroupAt(j) = g

ParInv == ParLoop /\ ParTries /\ \E k \in Nat : ParPrinted(k)

(* A step of search64_par is one of Survey, or changes nothing there.      *)
ParMaps == ParS!SNext \/ ParS!svars' = ParS!svars

(* Multiples of a width.                                                   *)
LEMMA Multiples ==
  ASSUME NEW l \in Nat \ {0}, NEW k \in Nat
  PROVE  /\ (l * k) \div l = k
         /\ l * (k + 1) = l * k + l
         /\ l * k \in Nat
  OBVIOUS

(* A line of a multiple is below it.                                       *)
LEMMA BelowMultiple ==
  ASSUME NEW l \in Nat \ {0}, NEW k \in Nat, NEW j \in 1..k
  PROVE  l * (j - 1) + l <= l * k /\ l * (j - 1) \in Nat
  OBVIOUS

(* What the assumptions say of widths and numbers.                         *)
LEMMA WidthType ==
  /\ Width \in Nat \ {0} /\ Width = Len(errors) + 1
  /\ Len(errors) \in Nat /\ DOMAIN errors = 1..Len(errors)
  /\ num_groups \in Nat /\ NUM_TRIALS_each \in Nat
  BY SurveysAssumption DEF Width

(* The calls: the loop itself and a body for each group.                   *)
LEMMA ParCalls ==
  /\ << >> \in GroupCalls /\ \A g \in Ids : << g >> \in GroupCalls
  /\ \A c \in GroupCalls : c # << >> => \E g \in Ids : c = << g >>
  /\ \A g \in Ids : << g >> # << >> /\ << g >>[1] = g
  /\ \A c \in GroupCalls : c \in GF!Loops <=> c = << >>
  /\ \A g \in Ids : << g >> \in GF!Children(<< >>)
<1>1. /\ << >> \in GroupCalls /\ \A g \in Ids : << g >> \in GroupCalls
      /\ \A c \in GroupCalls : c # << >> => \E g \in Ids : c = << g >>
      /\ \A g \in Ids : << g >> # << >> /\ << g >>[1] = g
  BY DEF GroupCalls
<1>2. \A c \in GroupCalls : c \in GF!Loops <=> c = << >>
  <2>1. Len(<< >>) < 1 /\ \A g : ~(Len(<< g >>) < 1)
    OBVIOUS
  <2> QED  BY <1>1, <2>1 DEF GF!Loops
<1>3. ASSUME NEW g \in Ids PROVE << g >> \in GF!Children(<< >>)
  <2>1. g \in Int
    BY DEF Ids
  <2>2. Len(<< g >>) - 1 = 0 /\ << g >> \in Seq(Int)
    BY <2>1
  <2>3. SubSeq(<< g >>, 1, 0) = << >>
    BY <2>2
  <2> QED  BY <1>1, <2>2, <2>3 DEF GF!Children, GF!Parent
<1> QED  BY <1>1, <1>2, <1>3

(* How many lines there are, and that they stay when nothing is flushed.   *)
LEMMA ParLength ==
  ASSUME NEW k \in Nat, ParPrinted(k)
  PROVE  ParLines = [ j \in 1..k |-> Line(j) ]
<1>1. Len(out_file) \div Width = k
  BY WidthType, Multiples DEF ParPrinted
<1> QED  BY <1>1 DEF ParLines

(* A step that prints nothing and leaves the loop is a stutter of Survey.  *)
LEMMA ParSame ==
  ASSUME out_file' = out_file, loop_status'[<< >>] = loop_status[<< >>]
  PROVE  ParMaps
<1>1. \A j : Line(j)' = Line(j)
  BY DEF Line, Width
<1>2. ParLines' = ParLines
  BY <1>1 DEF ParLines, Width
<1> QED  BY <1>2 DEF ParMaps, ParS!svars, Exited

(* It holds at the start.                                                  *)
LEMMA ParStart == ParInit => ParInv /\ ParS!SInit
<1> SUFFICES ASSUME ParInit PROVE ParInv /\ ParS!SInit
  OBVIOUS
<1>1. /\ loop_status = [ c \in GroupCalls |->
                           IF c = << >> THEN "running" ELSE "open" ]
      /\ loop_waits = [ w \in Workers |->
                           IF w = main THEN << << >> >> ELSE << >> ]
      /\ loop_runs = [ w \in Workers |-> nobody ]
  BY DEF ParInit, GF!PFInit
<1>2. loop_status[<< >>] = "running" /\ \A g \in Ids : loop_status[<< g >>] = "open"
  BY <1>1, ParCalls
<1>3. ParLoop
  <2>1. loop_waits \in [ Workers -> Seq({ << >> }) ]
    <3>1. << << >> >> \in Seq({ << >> }) /\ << >> \in Seq({ << >> })
      OBVIOUS
    <3> QED  BY <1>1, <3>1
  <2>2. loop_status \in [ GroupCalls -> { "open", "running", "done" } ]
    BY <1>1
  <2> QED  BY <1>1, <1>2, <2>1, <2>2 DEF ParLoop, Exited
<1>4. ParTries
  <2>1. \A g \in Ids : tries[g] = 0 /\ \A x \in DOMAIN errors : counted[g][x] = 0
    BY DEF ParInit, Zeros
  <2> QED  BY <2>1, WidthType DEF ParTries
<1>5. ParPrinted(0)
  <2>1. Len(out_file) = 0 /\ \A g \in Ids : where[g] = "trials"
    BY DEF ParInit
  <2>2. Width * 0 = 0
    BY WidthType
  <2> QED  BY <2>1, <2>2 DEF ParPrinted
<1>6. ParLines = << >>
  BY <1>5, ParLength
<1>7. Exited = FALSE
  BY <1>2 DEF Exited
<1> QED  BY <1>3, <1>4, <1>5, <1>6, <1>7 DEF ParInv, ParS!SInit

(* A body is handed to a worker.                                           *)
LEMMA ParBeginInv ==
  ASSUME ParInv, GroupInv, NEW w \in Workers, NEW c \in GroupCalls,
         GroupBegin(w, c)
  PROVE  ParInv' /\ ParMaps
<1>1. /\ UNCHANGED << where, e_lens, tries, counted, out_file >>
      /\ c # << >> /\ loop_status[c] = "open" /\ loop_runs[w] = nobody
      /\ loop_status' = [ loop_status EXCEPT ![c] = "running" ]
  BY DEF GroupBegin, GF!Begin, group_locals
<1>2. PICK h \in Ids : c = << h >>
  BY <1>1, ParCalls
<1>3. loop_runs' = [ loop_runs EXCEPT ![w] = c ] /\ loop_waits' = loop_waits
  BY <1>1, ParCalls DEF GroupBegin, GF!Begin
<1>4. /\ loop_status'[<< >>] = loop_status[<< >>]
      /\ loop_status'[c] = "running"
      /\ \A b \in GroupCalls : b # c => loop_status'[b] = loop_status[b]
  BY <1>1, ParCalls DEF ParInv, ParLoop
<1>5. /\ loop_runs'[w] = c
      /\ \A v \in Workers : v # w => loop_runs'[v] = loop_runs[v]
      /\ \A v \in Workers : loop_runs[v] # nobody =>
           loop_runs[v] \in GroupCalls /\ loop_runs[v] # c
  BY <1>1, <1>3, ParCalls DEF GroupInv, GroupTypes, ParInv, ParLoop
<1>6. ParLoop'
  <2>1. loop_status' \in [ GroupCalls -> { "open", "running", "done" } ]
    BY <1>1 DEF ParInv, ParLoop
  <2>2. \A v \in Workers :
          loop_runs'[v] # nobody => loop_status'[loop_runs'[v]] = "running"
    BY <1>4, <1>5 DEF ParInv, ParLoop
  <2>3. \A u, v \in Workers :
          loop_runs'[u] # nobody /\ loop_runs'[u] = loop_runs'[v] => u = v
    BY <1>5 DEF ParInv, ParLoop
  <2>4. \A g \in Ids : loop_status'[<< g >>] = "done" => where[g] = "end"
    BY <1>4, ParCalls DEF ParInv, ParLoop
  <2>5. Exited' => \A g \in Ids : loop_status'[<< g >>] = "done"
    BY <1>1, <1>2, <1>4, ParCalls DEF ParInv, ParLoop, Exited
  <2> QED  BY <1>1, <1>3, <2>1, <2>2, <2>3, <2>4, <2>5 DEF ParInv, ParLoop
<1>7. ParTries'
  BY <1>1 DEF ParInv, ParTries
<1>8. \A k \in Nat : ParPrinted(k) => ParPrinted(k)'
  BY <1>1 DEF ParPrinted, GroupAt, Width
<1> QED  BY <1>1, <1>4, <1>6, <1>7, <1>8, ParSame DEF ParInv

(* A step of a body that flushes nothing.                                  *)
LEMMA ParQuietInv ==
  ASSUME ParInv, GroupInv, NEW w \in Workers, NEW g \in Ids,
         loop_status[<< g >>] = "running",
         \/ ParTrial(w, g) \/ ParNextMetric(w, g)
         \/ GroupLock(w, g) \/ PrintGroup(w, g) \/ PrintCount(w, g)
         \/ GroupUnlock(w, g)
  PROVE  ParInv' /\ ParMaps
<1>0. /\ where \in [Ids -> Printing64 \cup { "trials", "end" }]
      /\ e_lens \in [Ids -> Nat \ {0}] /\ tries \in [Ids -> Nat]
      /\ counted \in [Ids -> [DOMAIN errors -> Nat]]
  BY DEF GroupInv, GroupTypes
<1>1. UNCHANGED << loop_status, loop_waits, loop_runs, out_file >>
  BY DEF ParTrial, ParNextMetric, GroupLock, PrintGroup, PrintCount, GroupUnlock,
         group_loops
<1>2. /\ \A h \in Ids : h # g => where'[h] = where[h]
      /\ where'[g] \in { "unlock", "end" } <=> where[g] \in { "unlock", "end" }
  BY <1>0 DEF ParTrial, ParNextMetric, GroupLock, PrintGroup, PrintCount,
              GroupUnlock, GroupGoto
<1>3. ParLoop'
  <2>1. \A h \in Ids : loop_status[<< h >>] = "done" => where'[h] = "end"
    BY <1>2 DEF ParInv, ParLoop
  <2> QED  BY <1>1, <2>1 DEF ParInv, ParLoop, Exited
<1>4. \A k \in Nat : ParPrinted(k) => ParPrinted(k)'
  <2> SUFFICES ASSUME NEW k \in Nat, ParPrinted(k) PROVE ParPrinted(k)'
    OBVIOUS
  <2>1. \A j : GroupAt(j)' = GroupAt(j)
    BY <1>1 DEF GroupAt, Width
  <2>2. \A h \in Ids :
          where'[h] \in { "unlock", "end" } <=> where[h] \in { "unlock", "end" }
    BY <1>2
  <2> QED  BY <1>1, <2>1, <2>2 DEF ParPrinted, Width
<1>5. ParTries'
  <2>1. CASE UNCHANGED << e_lens, tries, counted >>
    BY <2>1 DEF ParInv, ParTries
  <2>2. CASE ParTrial(w, g)
    <3>1. /\ e_lens' = e_lens /\ tries' = [ tries EXCEPT ![g] = @ + 1 ]
          /\ e_lens[g] <= Len(errors) /\ tries[g] < NUM_TRIALS_each
          /\ \/ counted' = counted
             \/ /\ g \in Solvable
                /\ counted' = [ counted EXCEPT ![g][e_lens[g]] = @ + 1 ]
      BY <2>2 DEF ParTrial
    <3>2. tries'[g] = tries[g] + 1 /\ \A h \in Ids : h # g => tries'[h] = tries[h]
      BY <1>0, <3>1
    <3>3. ASSUME NEW h \in Ids, NEW x \in DOMAIN errors
          PROVE  \/ counted'[h][x] = counted[h][x]
                 \/ /\ h = g /\ g \in Solvable /\ x = e_lens[g]
                    /\ counted'[h][x] = counted[h][x] + 1
      <4>1. CASE counted' = counted
        BY <4>1
      <4>2. CASE counted' # counted
        <5>1. /\ g \in Solvable
              /\ counted' =
                   [ counted EXCEPT ![g] = [ counted[g] EXCEPT ![e_lens[g]] = @ + 1 ] ]
          BY <3>1, <4>2
        <5>2. h # g => counted'[h] = counted[h]
          BY <1>0, <5>1
        <5>3. counted'[g] = [ counted[g] EXCEPT ![e_lens[g]] = @ + 1 ]
          BY <1>0, <5>1
        <5>4. counted[g] \in [DOMAIN errors -> Nat]
          BY <1>0
        <5>5. counted'[g][x] = IF x = e_lens[g] THEN counted[g][x] + 1 ELSE counted[g][x]
          BY <5>3, <5>4
        <5> QED  BY <5>1, <5>2, <5>5
      <4> QED  BY <4>1, <4>2
    <3>4. \A h \in Ids : tries'[h] <= NUM_TRIALS_each
      BY <1>0, <3>1, <3>2, WidthType DEF ParInv, ParTries
    <3>5. ASSUME NEW h \in Ids, NEW x \in DOMAIN errors
          PROVE  /\ counted'[h][x] <= NUM_TRIALS_each
                 /\ x = e_lens[h] => counted'[h][x] <= tries'[h]
                 /\ x > e_lens[h] => counted'[h][x] = 0
                 /\ h \notin Solvable => counted'[h][x] = 0
      <4>1. /\ counted[h][x] <= NUM_TRIALS_each
            /\ x = e_lens[h] => counted[h][x] <= tries[h]
            /\ x > e_lens[h] => counted[h][x] = 0
            /\ h \notin Solvable => counted[h][x] = 0
        BY DEF ParInv, ParTries
      <4>2. /\ counted[h][x] \in Nat /\ tries[h] \in Nat /\ e_lens[h] \in Nat
            /\ x \in Nat
        BY <1>0, WidthType
      <4>3. tries'[h] = IF h = g THEN tries[h] + 1 ELSE tries[h]
        BY <3>2
      <4> QED  BY <3>1, <3>3, <4>1, <4>2, <4>3, WidthType
    <3> QED  BY <3>1, <3>4, <3>5 DEF ParTries
  <2>3. CASE ParNextMetric(w, g)
    <3>1. /\ counted' = counted /\ e_lens[g] <= Len(errors)
          /\ e_lens' = [ e_lens EXCEPT ![g] = @ + 1 ]
          /\ tries' = [ tries EXCEPT ![g] = 0 ]
      BY <2>3 DEF ParNextMetric
    <3>2. /\ e_lens'[g] = e_lens[g] + 1 /\ tries'[g] = 0
          /\ \A h \in Ids : h # g => e_lens'[h] = e_lens[h] /\ tries'[h] = tries[h]
      BY <1>0, <3>1
    <3>3. \A h \in Ids : tries'[h] <= NUM_TRIALS_each
      BY <3>2, WidthType DEF ParInv, ParTries
    <3>4. ASSUME NEW h \in Ids, NEW x \in DOMAIN errors
          PROVE  /\ counted[h][x] <= NUM_TRIALS_each
                 /\ x = e_lens'[h] => counted[h][x] <= tries'[h]
                 /\ x > e_lens'[h] => counted[h][x] = 0
                 /\ h \notin Solvable => counted[h][x] = 0
      <4>1. /\ counted[h][x] <= NUM_TRIALS_each
            /\ x = e_lens[h] => counted[h][x] <= tries[h]
            /\ x > e_lens[h] => counted[h][x] = 0
            /\ h \notin Solvable => counted[h][x] = 0
        BY DEF ParInv, ParTries
      <4>2. e_lens[h] \in Nat /\ x \in Nat
        BY <1>0, WidthType
      <4> QED  BY <3>2, <4>1, <4>2
    <3> QED  BY <3>1, <3>3, <3>4 DEF ParTries
  <2> QED  BY <2>1, <2>2, <2>3 DEF GroupLock, PrintGroup, PrintCount, GroupUnlock
<1> QED  BY <1>1, <1>3, <1>4, <1>5, ParSame DEF ParInv

(* The body returns.                                                       *)
LEMMA ParFinishInv ==
  ASSUME ParInv, GroupInv, NEW w \in Workers, NEW g \in Ids,
         loop_runs[w] = << g >>, loop_runs[w] # nobody, GroupFinish(w, g)
  PROVE  ParInv' /\ ParMaps
<1>1. /\ UNCHANGED << where, e_lens, tries, counted, out_file, loop_waits >>
      /\ where[g] = "end"
      /\ loop_status' = [ loop_status EXCEPT ![<< g >>] = "done" ]
      /\ loop_runs' = [ loop_runs EXCEPT ![w] = nobody ]
  BY DEF GroupFinish, GF!Finish, group_locals
<1>2. /\ loop_status'[<< >>] = loop_status[<< >>]
      /\ loop_status'[<< g >>] = "done"
      /\ \A b \in GroupCalls : b # << g >> => loop_status'[b] = loop_status[b]
  BY <1>1, ParCalls DEF ParInv, ParLoop
<1>3. /\ loop_runs'[w] = nobody
      /\ \A v \in Workers : v # w => loop_runs'[v] = loop_runs[v]
      /\ \A v \in Workers : loop_runs[v] # nobody => loop_runs[v] \in GroupCalls
      /\ \A v \in Workers : v # w => loop_runs[v] # << g >>
  <2>1. loop_runs \in [Workers -> { << h >> : h \in Ids } \cup { nobody }]
    BY DEF GroupInv, GroupTypes
  <2>2. \A v \in Workers : loop_runs[v] # nobody => loop_runs[v] \in GroupCalls
    BY <2>1, ParCalls
  <2>3. \A v \in Workers : v # w => loop_runs[v] # << g >>
    BY DEF ParInv, ParLoop
  <2> QED  BY <1>1, <2>1, <2>2, <2>3
<1>4. ParLoop'
  <2>1. loop_status' \in [ GroupCalls -> { "open", "running", "done" } ]
    BY <1>1 DEF ParInv, ParLoop
  <2>2. \A v \in Workers :
          loop_runs'[v] # nobody => loop_status'[loop_runs'[v]] = "running"
    BY <1>2, <1>3 DEF ParInv, ParLoop
  <2>3. \A u, v \in Workers :
          loop_runs'[u] # nobody /\ loop_runs'[u] = loop_runs'[v] => u = v
    BY <1>3 DEF ParInv, ParLoop
  <2>4. \A h \in Ids : loop_status'[<< h >>] = "done" => where[h] = "end"
    <3>1. \A h \in Ids : h # g => << h >> # << g >>
      BY ParCalls
    <3> QED  BY <1>1, <1>2, <3>1, ParCalls DEF ParInv, ParLoop
  <2>5. Exited' => \A h \in Ids : loop_status'[<< h >>] = "done"
    BY <1>2, ParCalls DEF ParInv, ParLoop, Exited
  <2> QED  BY <1>1, <2>1, <2>2, <2>3, <2>4, <2>5 DEF ParInv, ParLoop
<1>5. ParTries'
  BY <1>1 DEF ParInv, ParTries
<1>6. \A k \in Nat : ParPrinted(k) => ParPrinted(k)'
  BY <1>1 DEF ParPrinted, GroupAt, Width
<1> QED  BY <1>1, <1>2, <1>4, <1>5, <1>6, ParSame DEF ParInv

(* The loop returns: there is a line for every group.                      *)
LEMMA ParJoinInv ==
  ASSUME ParInv, GroupInv, NEW w \in Workers, GroupJoin(w)
  PROVE  ParInv' /\ ParMaps
<1>1. /\ UNCHANGED << where, e_lens, tries, counted, out_file, loop_runs >>
      /\ loop_waits[w] # << >>
      /\ \A c \in GF!Children(GF!Innermost(w)) : loop_status[c] = "done"
      /\ loop_status' = [ loop_status EXCEPT ![GF!Innermost(w)] = "done" ]
      /\ loop_waits' = [ loop_waits EXCEPT
                           ![w] = SubSeq(@, 1, Len(@) - 1) ]
  BY DEF GroupJoin, GF!Join, group_locals
<1>2. loop_waits[w] \in Seq({ << >> }) /\ loop_waits[w] # << >>
  BY <1>1 DEF ParInv, ParLoop
<1>3. GF!Innermost(w) = << >>
  BY <1>2 DEF GF!Innermost
<1>4. SubSeq(loop_waits[w], 1, Len(loop_waits[w]) - 1) \in Seq({ << >> })
  BY <1>2
<1>5. \A g \in Ids : loop_status[<< g >>] = "done" /\ where[g] = "end"
  BY <1>1, <1>3, ParCalls DEF ParInv, ParLoop
<1>6. /\ loop_status'[<< >>] = "done"
      /\ \A g \in Ids : loop_status'[<< g >>] = loop_status[<< g >>]
      /\ loop_status' \in [ GroupCalls -> { "open", "running", "done" } ]
  BY <1>1, <1>3, ParCalls DEF ParInv, ParLoop
<1>7. ParLoop'
  <2>1. loop_waits' \in [ Workers -> Seq({ << >> }) ]
    BY <1>1, <1>4 DEF ParInv, ParLoop
  <2>2. ASSUME NEW v \in Workers, loop_runs[v] # nobody
        PROVE  loop_status'[loop_runs[v]] = "running"
    <3>1. PICK g \in Ids : loop_runs[v] = << g >>
      BY <2>2 DEF GroupInv, GroupTypes
    <3> QED  BY <1>5, <2>2, <3>1 DEF ParInv, ParLoop
  <2> QED  BY <1>1, <1>5, <1>6, <2>1, <2>2 DEF ParInv, ParLoop
<1>8. ParTries'
  BY <1>1 DEF ParInv, ParTries
<1>9. PICK k \in Nat : ParPrinted(k)
  BY DEF ParInv
<1>10. ParPrinted(k)'
  BY <1>1, <1>9 DEF ParPrinted, GroupAt, Width
<1>11. k = num_groups
  <2> DEFINE f == [ j \in 1..k |-> GroupAt(j) ]
  <2>1. f \in Bijection(1..k, Ids)
    <3>1. f \in [ 1..k -> Ids ]
      BY <1>9 DEF ParPrinted
    <3>2. \A i, j \in 1..k : f[i] = f[j] => i = j
      BY <1>9 DEF ParPrinted
    <3>3. \A g \in Ids : \E j \in 1..k : f[j] = g
      BY <1>5, <1>9 DEF ParPrinted
    <3> HIDE DEF f
    <3> QED  BY <3>1, <3>2, <3>3 DEF Bijection, Injection, Surjection, IsInjective
  <2>2. ExistsBijection(1..k, Ids)
    BY <2>1 DEF ExistsBijection
  <2>3. \A n \in Nat : IsFiniteSet(1..n) /\ Cardinality(1..n) = n
    <3> SUFFICES ASSUME NEW n \in Nat
                 PROVE  IsFiniteSet(1..n) /\ Cardinality(1..n) = n
      OBVIOUS
    <3>1. /\ IsFiniteSet(1..n)
          /\ Cardinality(1..n) = IF 1 > n THEN 0 ELSE n - 1 + 1
      BY FS_Interval
    <3> QED  BY <3>1
  <2> QED  BY <2>2, <2>3, FS_Bijection, WidthType DEF Ids
<1>12. ParS!End
  <2>1. ParLines = [ j \in 1..k |-> Line(j) ]
    BY <1>9, ParLength
  <2>2. Len(ParLines) = num_groups
    BY <1>11, <2>1
  <2>3. \A j : Line(j)' = Line(j)
    BY <1>1 DEF Line, Width
  <2>4. ParLines' = ParLines
    BY <1>1, <2>3 DEF ParLines, Width
  <2>5. Exited' = TRUE
    BY <1>6 DEF Exited
  <2> QED  BY <2>2, <2>4, <2>5 DEF ParS!End
<1> QED  BY <1>7, <1>8, <1>10, <1>12 DEF ParInv, ParMaps, ParS!SNext

(* The line of a group is flushed.                                         *)
LEMMA ParLineInv ==
  ASSUME ParInv, GroupInv, NEW w \in Workers, NEW g \in Ids,
         loop_status[<< g >>] = "running", EndLine(w, g)
  PROVE  ParInv' /\ ParMaps
<1> DEFINE L == Len(errors)
<1>0. /\ where \in [Ids -> Printing64 \cup { "trials", "end" }]
      /\ indices \in [Ids -> Nat \ {0}]
      /\ counted \in [Ids -> [DOMAIN errors -> Nat]]
      /\ out_buffer \in Seq(GroupPieces) /\ out_file \in Seq(GroupPieces)
  BY DEF GroupInv, GroupTypes
<1>1. /\ UNCHANGED << loop_status, loop_waits, loop_runs, e_lens, tries, counted >>
      /\ where[g] = "counts" /\ where' = [ where EXCEPT ![g] = "unlock" ]
      /\ out_file' = out_file \o out_buffer
      /\ indices[g] > L
  BY DEF EndLine, GroupGoto, group_loops
<1>2. where'[g] = "unlock" /\ \A h \in Ids : h # g => where'[h] = where[h]
  BY <1>0, <1>1
<1>3. /\ Len(out_buffer) = Width /\ out_buffer[1] = GroupHead(g)
      /\ \A x \in DOMAIN errors : out_buffer[1 + x] = Count(g, x)
  <2>1. indices[g] = L + 1
    BY <1>0, <1>1, WidthType DEF GroupInv, GroupBuffer
  <2>2. /\ Len(out_buffer) = indices[g]
        /\ \A j \in 1..indices[g] :
             out_buffer[j] = IF j = 1 THEN GroupHead(g) ELSE Count(g, j - 1)
    BY <1>1 DEF GroupInv, GroupBuffer
  <2>3. \A x \in DOMAIN errors :
          1 + x \in 1..indices[g] /\ 1 + x # 1 /\ 1 + x - 1 = x
    BY <2>1, WidthType
  <2>4. 1 \in 1..indices[g]
    BY <2>1, WidthType
  <2> QED  BY <2>1, <2>2, <2>3, <2>4, WidthType
<1>4. PICK k \in Nat : ParPrinted(k)
  BY DEF ParInv
<1> DEFINE n == Width * k
<1>5. /\ Len(out_file) = n /\ n \in Nat
      /\ Width * (k + 1) = n + Width /\ Width * (k + 1 - 1) = n
  <2>1. k + 1 - 1 = k
    OBVIOUS
  <2> QED  BY <1>4, <2>1, WidthType, Multiples DEF ParPrinted
<1>6. /\ Len(out_file') = n + Width
      /\ \A j \in 1..n : out_file'[j] = out_file[j]
      /\ \A j \in 1..Width : out_file'[n + j] = out_buffer[j]
  <2> DEFINE F == out_file
             B == out_buffer
  <2>1. /\ F \in Seq(GroupPieces) /\ B \in Seq(GroupPieces)
        /\ Len(F) = n /\ Len(B) = Width
    BY <1>0, <1>3, <1>5
  <2>2. out_file' = F \o B
    BY <1>1
  <2> HIDE DEF F, B, n
  <2>3. Len(F \o B) = Len(F) + Len(B)
    BY <2>1
  <2>4. \A j \in 1..Len(F) : (F \o B)[j] = F[j]
    BY <2>1
  <2>5. \A j \in 1..Len(B) : (F \o B)[Len(F) + j] = B[j]
    BY <2>1
  <2> QED  BY <2>1, <2>2, <2>3, <2>4, <2>5 DEF F, B
<1> HIDE DEF n
<1>7. \A j \in 1..k :
        /\ Width * (j - 1) + 1 \in 1..n
        /\ \A x \in DOMAIN errors : Width * (j - 1) + 1 + x \in 1..n
  <2> SUFFICES ASSUME NEW j \in 1..k
               PROVE  /\ Width * (j - 1) + 1 \in 1..n
                      /\ \A x \in DOMAIN errors : Width * (j - 1) + 1 + x \in 1..n
    OBVIOUS
  <2> DEFINE a == Width * (j - 1)
  <2>1. a + Width <= n /\ a \in Nat
    BY WidthType, BelowMultiple DEF n
  <2> HIDE DEF a
  <2>2. /\ a + 1 \in 1..n
        /\ \A x \in DOMAIN errors : a + 1 + x \in 1..n
    BY <1>5, <2>1, WidthType
  <2> QED  BY <2>2 DEF a
<1>8. \A j \in 1..k : GroupAt(j)' = GroupAt(j) /\ Line(j)' = Line(j)
  BY <1>6, <1>7 DEF GroupAt, Line, Width
<1>9. GroupAt(k + 1)' = g
  <2>1. out_file'[n + 1] = GroupHead(g)
    BY <1>3, <1>6, WidthType
  <2>2. GroupAt(k + 1)' = out_file'[Width * (k + 1 - 1) + 1].group
    BY DEF GroupAt, Width
  <2> QED  BY <1>5, <2>1, <2>2 DEF GroupHead
<1>10. Line(k + 1)' = [ group |-> g, tally |-> counted[g] ]
  <2>1. ASSUME NEW x \in DOMAIN errors
        PROVE  out_file'[n + 1 + x].count = counted[g][x]
    <3>1. 1 + x \in 1..Width /\ n + (1 + x) = n + 1 + x
      BY <1>5, WidthType
    <3>2. out_file'[n + 1 + x] = Count(g, x)
      BY <1>3, <1>6, <3>1
    <3> QED  BY <3>2 DEF Count
  <2>2. [ x \in DOMAIN errors |-> out_file'[n + 1 + x].count ] = counted[g]
    <3>1. counted[g] \in [DOMAIN errors -> Nat]
      BY <1>0
    <3>2. counted[g] = [ x \in DOMAIN errors |-> counted[g][x] ]
      BY <3>1
    <3> QED  BY <2>1, <3>2
  <2>3. out_file'[n + 1].group = g
    BY <1>3, <1>6, WidthType DEF GroupHead
  <2>4. Line(k + 1)' =
          [ group |-> out_file'[n + 1].group,
            tally |-> [ x \in DOMAIN errors |-> out_file'[n + 1 + x].count ] ]
    BY <1>5 DEF Line, Width
  <2> QED  BY <2>2, <2>3, <2>4
<1>11. \A j \in 1..k : GroupAt(j) \in Ids /\ GroupAt(j) # g
  BY <1>1, <1>4 DEF ParPrinted
<1>12. \A j \in 1..(k + 1) : j \in 1..k \/ j = k + 1
  OBVIOUS
<1>13. ParPrinted(k + 1)'
  <2>1. Len(out_file)' = (Width * (k + 1))'
    BY <1>5, <1>6 DEF Width
  <2>2. \A j \in 1..(k + 1) :
          GroupAt(j)' \in Ids /\ where'[GroupAt(j)'] \in { "unlock", "end" }
    BY <1>2, <1>4, <1>8, <1>9, <1>11, <1>12 DEF ParPrinted
  <2>3. \A i, j \in 1..(k + 1) : GroupAt(i)' = GroupAt(j)' => i = j
    BY <1>4, <1>8, <1>9, <1>11, <1>12 DEF ParPrinted
  <2>4. ASSUME NEW h \in Ids, where'[h] \in { "unlock", "end" }
        PROVE  \E j \in 1..(k + 1) : GroupAt(j)' = h
    <3>1. CASE h = g
      <4>1. k + 1 \in 1..(k + 1)
        OBVIOUS
      <4> QED  BY <1>9, <3>1, <4>1
    <3>2. CASE h # g
      <4>1. PICK j \in 1..k : GroupAt(j) = h
        BY <1>2, <1>4, <2>4, <3>2 DEF ParPrinted
      <4>2. j \in 1..(k + 1)
        OBVIOUS
      <4> QED  BY <1>8, <4>1, <4>2
    <3> QED  BY <3>1, <3>2
  <2> QED  BY <2>1, <2>2, <2>3, <2>4 DEF ParPrinted
<1>14. ParInv'
  <2>1. ParLoop'
    BY <1>1, <1>2 DEF ParInv, ParLoop, Exited
  <2>2. ParTries'
    BY <1>1 DEF ParInv, ParTries
  <2> QED  BY <1>13, <2>1, <2>2 DEF ParInv
<1>15. ParS!Report(g)
  <2> DEFINE l == [ group |-> g, tally |-> counted[g] ]
  <2>1. ParLines = [ j \in 1..k |-> Line(j) ]
    BY <1>4, ParLength
  <2>2. ParLines' = [ j \in 1..(k + 1) |-> Line(j)' ]
    <3>1. k + 1 \in Nat
      OBVIOUS
    <3>2. (Len(out_file) \div Width)' = k + 1
      <4>1. Len(out_file') = Width * (k + 1)
        BY <1>5, <1>6
      <4> QED  BY <3>1, <4>1, WidthType, Multiples DEF Width
    <3> QED  BY <3>2 DEF ParLines
  <2>3. ParLines' = Append(ParLines, l)
    <3>1. \A j \in 1..(k + 1) :
            Line(j)' = IF j = k + 1 THEN l ELSE Line(j)
      BY <1>8, <1>10, <1>12
    <3>2. Len(ParLines) = k /\ \A j \in 1..k : ParLines[j] = Line(j)
      BY <2>1
    <3> HIDE DEF l
    <3>3. Append(ParLines, l) =
            [ j \in 1..(k + 1) |-> IF j = k + 1 THEN l ELSE Line(j) ]
      BY <2>1, <3>2
    <3> QED  BY <2>2, <3>1, <3>3
  <2>4. \A j \in DOMAIN ParLines : ParLines[j].group # g
    BY <1>11, <2>1 DEF Line, GroupAt
  <2>5. ~Exited /\ Exited' = Exited
    BY <1>1 DEF ParInv, ParLoop, Exited
  <2>6. counted[g] \in ParS!Tallies(g)
    <3>1. counted[g] \in [DOMAIN errors -> Nat]
      BY <1>0
    <3>2. \A x \in DOMAIN errors :
            counted[g][x] \in IF g \in Solvable THEN 0..NUM_TRIALS_each ELSE {0}
      BY <3>1, WidthType DEF ParInv, ParTries
    <3> QED  BY <3>1, <3>2 DEF ParS!Tallies
  <2> QED  BY <2>3, <2>4, <2>5, <2>6 DEF ParS!Report
<1> QED  BY <1>14, <1>15 DEF ParMaps, ParS!SNext, ParS!Groups, Ids

(* Every step of search64_par keeps it and is a step of Survey.            *)
LEMMA ParNextMaps ==
  ASSUME ParInv, GroupInv, [ParNext]_vars_par
  PROVE  ParInv' /\ ParMaps
<1>1. ASSUME NEW w \in Workers, loop_runs[w] # nobody,
             GroupStep(w, loop_runs[w][1])
      PROVE  ParInv' /\ ParMaps
  <2>1. PICK g \in Ids : loop_runs[w] = << g >>
    BY <1>1 DEF GroupInv, GroupTypes
  <2>2. GroupStep(w, g)
    BY <1>1, <2>1
  <2>3. loop_status[<< g >>] = "running"
    BY <1>1, <2>1 DEF ParInv, ParLoop
  <2> QED  BY <1>1, <2>1, <2>2, <2>3, ParQuietInv, ParLineInv, ParFinishInv
           DEF GroupStep
<1>2. CASE UNCHANGED vars_par
  <2>1. UNCHANGED << loop_status, loop_waits, loop_runs, where, e_lens, tries,
                     counted, out_file >>
    BY <1>2 DEF vars_par, group_loops, group_locals
  <2>2. \A k \in Nat : ParPrinted(k) => ParPrinted(k)'
    BY <2>1 DEF ParPrinted, GroupAt, Width
  <2>3. ParLoop' /\ ParTries'
    BY <2>1 DEF ParInv, ParLoop, ParTries, Exited
  <2> QED  BY <2>1, <2>2, <2>3, ParSame DEF ParInv
<1> QED  BY <1>1, <1>2, ParBeginInv, ParJoinInv DEF ParNext
-----------------------------------------------------------------------------
(* search64_par and search64 implement Survey and search TrialReport, for  *)
(* any number of groups, metrics, trials and workers.                      *)
THEOREM SurveysDone == MCSpec => Surveyed
<1> DEFINE Safe == GroupInv /\ ParInv /\ SeqInv /\ OneInv /\ OneTrials
<1>1. MCInit => Safe /\ ParS!SInit /\ SeqS!SInit /\ OneT!TRInit
  BY GroupInit, ParStart, SeqStart, OneStart, OneTrialsStart DEF MCInit
<1>2. Safe /\ [MCNext]_all => Safe' /\ ParMaps /\ SeqMaps /\ OneMaps
  <2> SUFFICES ASSUME Safe, [MCNext]_all
               PROVE  /\ [ParNext]_vars_par /\ [SeqNext]_vars_seq
                      /\ [OneNext]_vars_one
    BY GroupNextInv, ParNextMaps, SeqNextInv, OneNextInv, OneNextMaps
  <2> QED  BY DEF MCNext, ParallelMove, ParMove, SeqMove, OneMove, all
<1>3. Safe /\ [MCNext]_all =>
        Safe' /\ [ /\ ParS!SNext \/ ParS!svars' = ParS!svars
                   /\ SeqS!SNext \/ SeqS!svars' = SeqS!svars
                   /\ OneT!TRNext \/ OneT!trvars' = OneT!trvars ]_all
  BY <1>2 DEF ParMaps, SeqMaps, OneMaps
<1> HIDE DEF Safe
<1> QED  BY <1>1, <1>3, PTL DEF MCSpec, Surveyed
=============================================================================
