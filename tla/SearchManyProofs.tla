-------------------------- MODULE SearchManyProofs --------------------------
(***************************************************************************)
(* Proofs about SearchMany, for any number of workers, dimensions, groups  *)
(* and trials: its types, that the file holds whole lines at any time,     *)
(* that no pair gets two, and that each has its own when main returns.     *)
(***************************************************************************)
EXTENDS SearchMany, SequenceTheorems, TLAPS

(* The places of a body between lock and unlock.                           *)
Holding == { "head", "set", "tri", "unlock", "none head", "none", "none unlock" }

(* A pair whose body has been left for good.                               *)
Over(p) == at[p] = "end" \/ (at[p] = "left" /\ found_success[p])

(* A body runs on one worker at most, and only between its begin and end.  *)
InvRuns ==
  /\ \A w \in Workers : runs[w] # nobody => status[runs[w]] = "running"
  /\ \A w, v \in Workers : runs[w] = runs[v] /\ runs[w] # nobody => w = v
  /\ \A p \in Pairs : status[p] = "open" => at[p] = "table"
  /\ \A p \in Pairs : status[p] = "done" => Over(p)

(* The worker that holds the mutex is the one whose body is printing.      *)
InvMutex ==
  /\ \A w \in Workers : m = w => runs[w] # nobody /\ at[runs[w]] \in Holding
  /\ \A p \in Pairs : at[p] \in Holding => \E w \in Workers : runs[w] = p /\ m = w

(* Where the flag is set.                                                  *)
InvFound ==
  \A p \in Pairs :
    /\ at[p] \in {"found", "head", "set", "tri", "unlock"} =>
         found_success[p] /\ trial[p] < NUM_TRIALS(p)
    /\ at[p] \in {"table", "trials", "none head", "none", "none unlock", "end"} =>
         ~found_success[p]
    /\ at[p] = "left" /\ found_success[p] => trial[p] < NUM_TRIALS(p)
    /\ at[p] \in {"none head", "none", "none unlock", "end"} \/
       (at[p] = "left" /\ ~found_success[p]) => trial[p] = NUM_TRIALS(p)

(* What the printing body has put into the buffer: how much, and what.     *)
InvBufferLen ==
  /\ (\A p \in Pairs : at[p] \notin {"set", "tri", "none"}) => buffer = << >>
  /\ \A p \in Pairs : at[p] \in {"set", "none"} => Len(buffer) = 1
  /\ \A p \in Pairs : at[p] = "tri" => Len(buffer) = 2

InvBufferAt ==
  \A p \in Pairs :
    /\ at[p] \in {"set", "tri", "none"} => buffer[1] = Piece(p, "head", 0)
    /\ at[p] = "tri" => buffer[2] = Piece(p, "set", 0)

(* A pair has nothing in the file before its line is flushed.              *)
Unprinted(p) ==
  \/ at[p] \in {"table", "trials", "found", "head", "set", "tri", "none head", "none"}
  \/ at[p] = "left" /\ ~found_success[p]

InvLines ==
  /\ \A p \in Pairs : Unprinted(p) => \A j \in 1..Len(file) : file[j].pair # p
  /\ \A p \in Pairs : ~Unprinted(p) => \E j \in 1..Len(file) :
       /\ file[j].pair = p
       /\ IF found_success[p]
          THEN file[j].part = "tri" /\ file[j].tri = trial[p] + 1
          ELSE file[j].part = "none"

(* A loop has returned only if all its calls have.                         *)
InvJoin ==
  \A c \in PF!Loops : status[c] = "done" => \A b \in PF!Children(c) : status[b] = "done"

Inv ==
  /\ TypeOK /\ InvRuns /\ InvMutex /\ InvFound
  /\ InvBufferLen /\ InvBufferAt /\ FileWhole /\ OneLine /\ InvLines /\ InvJoin
-----------------------------------------------------------------------------
(* The calls at the bottom are the pairs.                                  *)
LEMMA BodiesArePairs ==
  /\ PF!Bodies = Pairs
  /\ \A p \in Pairs : p \in Calls /\ p # << >>
<1>1. \A p \in Pairs : Len(p) = 2
  BY DEF Pairs
<1>2. \A d \in Dim : Len(<< d >>) = 1
  OBVIOUS
<1>3. Len(<< >>) = 0
  OBVIOUS
<1>4. \A c \in Calls : c \in Pairs <=> ~(Len(c) < 2)
  BY <1>1, <1>2, <1>3 DEF Calls
<1>5. Pairs \subseteq Calls
  BY DEF Calls
<1> QED  BY <1>1, <1>3, <1>4, <1>5 DEF PF!Bodies, PF!Loops

(* How many trials a pair is due is a number.                              *)
LEMMA NumTrialsType ==
  ASSUME NEW p \in Pairs
  PROVE  NUM_TRIALS(p) \in Nat
<1>1. PICK d \in Dim : \E g \in Group(d) : p = << d, g >>
  BY DEF Pairs
<1>2. MULTIPLIER \in Nat /\ allDims[d].n \in Nat
  BY SearchManyAssumption
<1>3. \A x, y \in Nat : x * y \in Nat
  OBVIOUS
<1> QED  BY <1>1, <1>2, <1>3 DEF NUM_TRIALS

(* Everything holds when main enters the outer loop.                       *)
LEMMA InitInv == Init => Inv
<1> SUFFICES ASSUME Init PROVE Inv
  OBVIOUS
<1> USE DEF Init
<1>1. /\ << >> \in Calls
      /\ << >> \in PF!Loops
  <2>1. Len(<< >>) = 0
    OBVIOUS
  <2> QED  BY <2>1 DEF Calls, PF!Loops
<1>2. PF!PFTypeOK
  <2>1. status \in [Calls -> {"open", "running", "done"}]
    BY DEF PF!PFInit
  <2>2. waits \in [Workers -> Seq(PF!Loops)]
    BY <1>1 DEF PF!PFInit
  <2>3. runs \in [Workers -> PF!Bodies \cup {nobody}]
    BY DEF PF!PFInit
  <2> QED  BY <2>1, <2>2, <2>3 DEF PF!PFTypeOK
<1>3. TypeOK
  BY <1>2, NumTrialsType DEF TypeOK, Places, Output
<1>4. InvRuns
  BY BodiesArePairs DEF InvRuns, PF!PFInit
<1>5. InvMutex
  BY SearchManyAssumption DEF InvMutex, Holding
<1>6. InvFound /\ InvBufferLen /\ InvBufferAt
  BY DEF InvFound, InvBufferLen, InvBufferAt
<1>7. FileWhole /\ OneLine /\ InvLines
  BY DEF FileWhole, WholeLines, OneLine, InvLines, Unprinted
<1>8. InvJoin
  BY DEF InvJoin, PF!Loops, PF!PFInit
<1> QED  BY <1>3, <1>4, <1>5, <1>6, <1>7, <1>8 DEF Inv
-----------------------------------------------------------------------------
(* A step of one body between its begin and its end that neither prints    *)
(* nor touches the mutex keeps all but what is said of its own variables.  *)
LEMMA PrivateStep ==
  ASSUME Inv, NEW w \in Workers, NEW p \in Pairs, runs[w] = p,
         UNCHANGED << loops, m, output >>,
         at[p] \in {"table", "trials"},
         at' = [ at EXCEPT ![p] = at'[p] ],
         at'[p] \in {"trials", "found", "left"},
         at'[p] = "left" => ~found_success'[p],
         found_success' = [ found_success EXCEPT ![p] = found_success'[p] ],
         trial' = [ trial EXCEPT ![p] = trial'[p] ],
         TypeOK', InvFound'
  PROVE  Inv'
<1> USE DEF Inv
<1>1. /\ \A q \in Pairs : q # p => at'[q] = at[q] /\ found_success'[q] = found_success[q]
                                   /\ trial'[q] = trial[q]
      /\ p # nobody
      /\ UNCHANGED << status, waits, runs, m, buffer, file >>
  BY SearchManyAssumption, BodiesArePairs DEF TypeOK, loops, output
<1>0. runs \in [Workers -> Pairs \cup {nobody}]
  BY BodiesArePairs DEF TypeOK, PF!PFTypeOK
<1>2. InvRuns'
  <2>1. status[p] = "running"
    BY <1>1 DEF InvRuns
  <2> QED  BY <1>1, <2>1 DEF InvRuns, Over
<1>3. InvMutex'
  BY <1>0, <1>1 DEF InvMutex, Holding
<1>4. InvBufferLen' /\ InvBufferAt'
  BY <1>1 DEF InvBufferLen, InvBufferAt
<1>5. FileWhole' /\ OneLine'
  BY <1>1 DEF FileWhole, OneLine, WholeLines, Continues, EndOfLine
<1>6. InvLines'
  <2>1. Unprinted(p)
    BY DEF Unprinted
  <2>2. Unprinted(p)'
    BY DEF Unprinted
  <2>3. \A q \in Pairs : q # p => (Unprinted(q)' <=> Unprinted(q))
    BY <1>1 DEF Unprinted
  <2> QED  BY <1>1, <2>1, <2>2, <2>3 DEF InvLines
<1>7. InvJoin'
  BY <1>1 DEF InvJoin
<1> QED  BY <1>2, <1>3, <1>4, <1>5, <1>6, <1>7
(* Reading the table and running trials.                                   *)
LEMMA TrialsInv ==
  ASSUME Inv, NEW w \in Workers, NEW p \in Pairs, runs[w] = p,
         ReadTable(w, p) \/ Succeed(w, p) \/ Fail(w, p) \/ GiveUp(w, p)
  PROVE  Inv'
<1> USE DEF Goto
<1>1. /\ at \in [Pairs -> Places]
      /\ trial \in [Pairs -> Nat]
      /\ found_success \in [Pairs -> BOOLEAN]
      /\ \A q \in Pairs : trial[q] <= NUM_TRIALS(q)
      /\ NUM_TRIALS(p) \in Nat
  BY NumTrialsType DEF Inv, TypeOK
<1>2. /\ UNCHANGED << loops, m, output >>
      /\ at[p] \in {"table", "trials"}
      /\ at' = [ at EXCEPT ![p] = at'[p] ]
      /\ at'[p] \in {"trials", "found", "left"}
      /\ found_success' = [ found_success EXCEPT ![p] = found_success'[p] ]
      /\ trial' = [ trial EXCEPT ![p] = trial'[p] ]
  BY <1>1 DEF ReadTable, Succeed, Fail, GiveUp
<1>3. \A q \in Pairs : NUM_TRIALS(q)' = NUM_TRIALS(q)
  BY DEF NUM_TRIALS
<1>4. ~found_success[p]
  BY <1>2 DEF Inv, InvFound
<1>5. at'[p] = "left" => ~found_success'[p] /\ trial'[p] = NUM_TRIALS(p)
  BY <1>1, <1>4 DEF ReadTable, Succeed, Fail, GiveUp
<1>6. TypeOK'
  <2>1. /\ at' \in [Pairs -> Places]
        /\ found_success' \in [Pairs -> BOOLEAN]
    <3>1. at'[p] \in Places
      BY <1>2 DEF Places
    <3>2. found_success'[p] \in BOOLEAN
      BY <1>1 DEF ReadTable, Succeed, Fail, GiveUp
    <3> QED  BY <1>1, <1>2, <3>1, <3>2
  <2>2. /\ trial'[p] \in Nat
        /\ trial'[p] <= NUM_TRIALS(p)
    BY <1>1 DEF ReadTable, Succeed, Fail, GiveUp
  <2>3. /\ trial' \in [Pairs -> Nat]
        /\ \A q \in Pairs : trial'[q] <= NUM_TRIALS(q)
    BY <1>1, <1>2, <2>2
  <2>4. PF!PFTypeOK'
    BY <1>2 DEF Inv, TypeOK, PF!PFTypeOK, loops
  <2> QED  BY <1>2, <1>3, <2>1, <2>3, <2>4 DEF Inv, TypeOK, output
<1>7. InvFound'
  <2>1. CASE Succeed(w, p)
    BY <1>1, <2>1 DEF Inv, InvFound, Succeed, NUM_TRIALS
  <2>2. CASE ReadTable(w, p) \/ Fail(w, p) \/ GiveUp(w, p)
    <3>1. \A q \in Pairs : q # p => at'[q] = at[q] /\ trial'[q] = trial[q]
      BY <1>1, <1>2
    <3>2. at'[p] \in {"trials", "left"} /\ found_success' = found_success
      BY <1>1, <2>2 DEF ReadTable, Fail, GiveUp
    <3> QED  BY <1>3, <1>4, <1>5, <3>1, <3>2 DEF Inv, InvFound
  <2> QED  BY <2>1, <2>2
<1> QED  BY <1>2, <1>5, <1>6, <1>7, PrivateStep

(* Taking the mutex.                                                       *)
LEMMA LockInv ==
  ASSUME Inv, NEW w \in Workers, NEW p \in Pairs, runs[w] = p, Lock(w, p)
  PROVE  Inv'
<1> USE DEF Inv
<1>1. /\ at \in [Pairs -> Places]
      /\ runs \in [Workers -> Pairs \cup {nobody}]
      /\ p # nobody
      /\ w # nobody
  BY SearchManyAssumption, BodiesArePairs DEF TypeOK, PF!PFTypeOK
<1>2. /\ UNCHANGED << status, waits, runs, trial, found_success, buffer, file >>
      /\ m = nobody /\ m' = w
      /\ \/ at[p] = "found" /\ at'[p] = "head"
         \/ at[p] = "left" /\ ~found_success[p] /\ at'[p] = "none head"
      /\ at' = [ at EXCEPT ![p] = at'[p] ]
      /\ \A q \in Pairs : q # p => at'[q] = at[q]
  BY <1>1 DEF Lock, Goto, loops, output
<1>3. \A q \in Pairs : NUM_TRIALS(q)' = NUM_TRIALS(q)
  BY DEF NUM_TRIALS
<1>4. TypeOK'
  <2>1. at' \in [Pairs -> Places]
    BY <1>1, <1>2 DEF Places
  <2> QED  BY <1>2, <1>3, <2>1 DEF TypeOK, PF!PFTypeOK
<1>5. InvRuns'
  <2>1. status[p] = "running"
    BY <1>1 DEF InvRuns
  <2> QED  BY <1>2, <2>1 DEF InvRuns, Over
<1>6. InvMutex'
  <2>1. \A q \in Pairs : at[q] \notin Holding
    BY <1>2, SearchManyAssumption DEF InvMutex
  <2> QED  BY <1>1, <1>2, <2>1 DEF InvMutex, Holding
<1>7. InvFound'
  BY <1>2, <1>3 DEF InvFound
<1>8. InvBufferLen' /\ InvBufferAt'
  BY <1>2 DEF InvBufferLen, InvBufferAt
<1>9. FileWhole' /\ OneLine'
  BY <1>2 DEF FileWhole, OneLine, WholeLines, Continues, EndOfLine
<1>10. InvLines'
  <2>1. Unprinted(p) /\ Unprinted(p)'
    BY <1>2 DEF Unprinted
  <2>2. \A q \in Pairs : q # p => (Unprinted(q)' <=> Unprinted(q))
    BY <1>2 DEF Unprinted
  <2>3. \A q \in Pairs : Unprinted(q)' <=> Unprinted(q)
    BY <2>1, <2>2
  <2>4. UNCHANGED << trial, found_success, file >>
    BY <1>2
  <2> QED  BY <2>3, <2>4 DEF InvLines
<1>11. InvJoin'
  BY <1>2 DEF InvJoin
<1> QED  BY <1>4, <1>5, <1>6, <1>7, <1>8, <1>9, <1>10, <1>11

(* Giving it back.                                                         *)
LEMMA UnlockInv ==
  ASSUME Inv, NEW w \in Workers, NEW p \in Pairs, runs[w] = p, Unlock(w, p)
  PROVE  Inv'
<1> USE DEF Inv
<1>1. /\ at \in [Pairs -> Places]
      /\ runs \in [Workers -> Pairs \cup {nobody}]
      /\ p # nobody
      /\ w # nobody
  BY SearchManyAssumption, BodiesArePairs DEF TypeOK, PF!PFTypeOK
<1>2. /\ UNCHANGED << status, waits, runs, trial, found_success, buffer, file >>
      /\ m' = nobody
      /\ \/ at[p] = "unlock" /\ at'[p] = "left"
         \/ at[p] = "none unlock" /\ at'[p] = "end"
      /\ at' = [ at EXCEPT ![p] = at'[p] ]
      /\ \A q \in Pairs : q # p => at'[q] = at[q]
  BY <1>1 DEF Unlock, Goto, loops, output
<1>3. \A q \in Pairs : NUM_TRIALS(q)' = NUM_TRIALS(q)
  BY DEF NUM_TRIALS
<1>4. TypeOK'
  <2>1. at' \in [Pairs -> Places]
    BY <1>1, <1>2 DEF Places
  <2> QED  BY <1>2, <1>3, <2>1 DEF TypeOK, PF!PFTypeOK
<1>5. InvRuns'
  <2>1. status[p] = "running"
    BY <1>1 DEF InvRuns
  <2> QED  BY <1>2, <2>1 DEF InvRuns, Over
<1>6. InvMutex'
  <2>0. at[p] \in Holding
    BY <1>2 DEF Holding
  <2>1. m = w
    BY <1>1, <2>0 DEF InvMutex, InvRuns
  <2>2. \A q \in Pairs : q # p => at[q] \notin Holding
    BY <2>1 DEF InvMutex
  <2>3. \A q \in Pairs : at'[q] \notin Holding
    BY <1>2, <2>2 DEF Holding
  <2> QED  BY <1>2, <2>3, SearchManyAssumption DEF InvMutex, Holding
<1>7. InvFound'
  BY <1>2, <1>3 DEF InvFound
<1>8. InvBufferLen' /\ InvBufferAt'
  BY <1>2 DEF InvBufferLen, InvBufferAt
<1>9. FileWhole' /\ OneLine'
  BY <1>2 DEF FileWhole, OneLine, WholeLines, Continues, EndOfLine
<1>10. InvLines'
  <2>1. ~Unprinted(p) /\ ~Unprinted(p)'
    BY <1>2 DEF Unprinted, InvFound
  <2>2. \A q \in Pairs : q # p => (Unprinted(q)' <=> Unprinted(q))
    BY <1>2 DEF Unprinted
  <2>3. \A q \in Pairs : Unprinted(q)' <=> Unprinted(q)
    BY <2>1, <2>2
  <2>4. UNCHANGED << trial, found_success, file >>
    BY <1>2
  <2> QED  BY <2>3, <2>4 DEF InvLines
<1>11. InvJoin'
  BY <1>2 DEF InvJoin
<1> QED  BY <1>4, <1>5, <1>6, <1>7, <1>8, <1>9, <1>10, <1>11
-----------------------------------------------------------------------------
(* What s \o l has at each place.                                          *)
LEMMA ConcatAt ==
  ASSUME NEW s \in Output, NEW l \in Output
  PROVE  /\ s \o l \in Output
         /\ Len(s) \in Nat /\ Len(l) \in Nat
         /\ Len(s \o l) = Len(s) + Len(l)
         /\ \A j \in 1..Len(s) : (s \o l)[j] = s[j]
         /\ \A j \in 1..Len(l) : (s \o l)[Len(s) + j] = l[j]
<1> DEFINE S == [ pair : Pairs, part : {"head", "set", "tri", "none"}, tri : Nat ]
<1> HIDE DEF S
<1>1. s \in Seq(S) /\ l \in Seq(S) /\ Output = Seq(S)
  BY DEF Output, S
<1> QED  BY <1>1

(* The indices of output.                                                  *)
LEMMA OutputDomain ==
  ASSUME NEW s \in Output
  PROVE  DOMAIN s = 1..Len(s)
  BY DEF Output

(* Whole lines after whole lines are whole lines.                          *)
LEMMA WholeAppended ==
  ASSUME NEW s \in Output, NEW l \in Output, l # << >>,
         WholeLines(s), WholeLines(l)
  PROVE  WholeLines(s \o l)
<1> DEFINE t == s \o l
<1>1. /\ Len(s) \in Nat /\ Len(l) \in Nat /\ Len(t) = Len(s) + Len(l)
      /\ \A j \in 1..Len(s) : t[j] = s[j]
      /\ \A j \in 1..Len(l) : t[Len(s) + j] = l[j]
  BY ConcatAt
<1> HIDE DEF t
<1>2. \A j \in 1..Len(t) : j \in 1..Len(s) \/ (j - Len(s) \in 1..Len(l) /\ t[j] = l[j - Len(s)])
  <2> SUFFICES ASSUME NEW j \in 1..Len(t), j \notin 1..Len(s)
               PROVE  j - Len(s) \in 1..Len(l) /\ t[j] = l[j - Len(s)]
    OBVIOUS
  <2>1. j - Len(s) \in 1..Len(l) /\ Len(s) + (j - Len(s)) = j
    BY <1>1
  <2> QED  BY <1>1, <2>1
<1>3. /\ l[1].part = "head"
      /\ EndOfLine(l[Len(l)])
      /\ \A j \in 1..(Len(l) - 1) :
           IF EndOfLine(l[j]) THEN l[j+1].part = "head" ELSE Continues(l[j], l[j+1])
  BY DEF WholeLines
<1>4. t[1].part = "head" /\ EndOfLine(t[Len(t)])
  <2>1. t[Len(t)] = l[Len(l)]
    BY <1>1
  <2>2. CASE s = << >>
    <3>1. Len(s) = 0
      BY <2>2
    <3>2. t[1] = l[1]
      BY <1>1, <3>1
    <3> QED  BY <1>3, <2>1, <3>2
  <2>3. CASE s # << >>
    <3>1. s[1].part = "head" /\ Len(s) > 0
      BY <2>3 DEF WholeLines
    <3>2. t[1] = s[1]
      BY <1>1, <3>1
    <3> QED  BY <1>3, <2>1, <3>1, <3>2
  <2> QED  BY <2>2, <2>3
<1>5. ASSUME NEW j \in 1..(Len(t) - 1)
      PROVE  IF EndOfLine(t[j]) THEN t[j+1].part = "head" ELSE Continues(t[j], t[j+1])
  <2>1. CASE j < Len(s)
    <3>1. j \in 1..(Len(s) - 1) /\ t[j] = s[j] /\ t[j+1] = s[j+1] /\ Len(s) > 0
      BY <1>1, <2>1
    <3>2. s # << >>
      BY <1>1, <3>1
    <3> QED  BY <3>1, <3>2 DEF WholeLines
  <2>2. CASE j = Len(s)
    <3>1. t[j] = s[j] /\ t[j+1] = l[1] /\ Len(s) > 0
      BY <1>1, <2>2
    <3>2. s # << >>
      BY <1>1, <3>1
    <3>3. EndOfLine(t[j])
      BY <2>2, <3>1, <3>2 DEF WholeLines
    <3> QED  BY <1>3, <3>1, <3>3
  <2>3. CASE j > Len(s)
    <3>1. /\ j - Len(s) \in 1..(Len(l) - 1)
          /\ j + 1 - Len(s) = (j - Len(s)) + 1
          /\ j \in 1..Len(t) /\ j + 1 \in 1..Len(t)
          /\ j \notin 1..Len(s) /\ j + 1 \notin 1..Len(s)
      BY <1>1, <2>3
    <3>2. t[j] = l[j - Len(s)] /\ t[j+1] = l[(j - Len(s)) + 1]
      BY <1>2, <3>1
    <3> QED  BY <1>3, <3>1, <3>2
  <2> QED  BY <1>1, <2>1, <2>2, <2>3
<1> QED  BY <1>4, <1>5 DEF WholeLines, t

(* While a body prints, its worker has the mutex and no other body does.   *)
LEMMA PrinterAlone ==
  ASSUME Inv, NEW w \in Workers, NEW p \in Pairs, runs[w] = p, at[p] \in Holding
  PROVE  /\ m = w
         /\ \A q \in Pairs : q # p => at[q] \notin Holding
<1>1. p # nobody
  BY SearchManyAssumption, BodiesArePairs
<1>2. m = w
  BY <1>1 DEF Inv, InvMutex, InvRuns
<1> QED  BY <1>2 DEF Inv, InvMutex

(* << on std::cout within a line: the head, and the set.                   *)
LEMMA PrintInv ==
  ASSUME Inv, NEW w \in Workers, NEW p \in Pairs, runs[w] = p,
         PrintHead(w, p) \/ PrintSet(w, p)
  PROVE  Inv'
<1> USE DEF Inv
<1>1. /\ at \in [Pairs -> Places]
      /\ runs \in [Workers -> Pairs \cup {nobody}]
      /\ p # nobody
      /\ buffer \in Output
  BY SearchManyAssumption, BodiesArePairs DEF TypeOK, PF!PFTypeOK
<1>2. /\ UNCHANGED << status, waits, runs, trial, found_success, m, file >>
      /\ \/ /\ << at[p], at'[p] >> \in { << "head", "set" >>, << "none head", "none" >> }
            /\ buffer' = Append(buffer, Piece(p, "head", 0))
         \/ /\ << at[p], at'[p] >> = << "set", "tri" >>
            /\ buffer' = Append(buffer, Piece(p, "set", 0))
      /\ at' = [ at EXCEPT ![p] = at'[p] ]
      /\ \A q \in Pairs : q # p => at'[q] = at[q]
  BY <1>1 DEF PrintHead, PrintSet, Goto, loops
<1>3. \A q \in Pairs : NUM_TRIALS(q)' = NUM_TRIALS(q)
  BY DEF NUM_TRIALS
<1>4. /\ at[p] \in Holding
      /\ \A q \in Pairs : q # p => at[q] \notin Holding
  <2>1. at[p] \in Holding
    BY <1>2 DEF Holding
  <2> QED  BY <2>1, PrinterAlone
<1>5. TypeOK'
  <2>1. at' \in [Pairs -> Places]
    BY <1>1, <1>2 DEF Places
  <2>2. \A part \in {"head", "set"} : Append(buffer, Piece(p, part, 0)) \in Output
    BY <1>1 DEF Output, Piece
  <2>3. buffer' \in Output
    BY <1>2, <2>2
  <2> QED  BY <1>2, <1>3, <2>1, <2>3 DEF TypeOK, PF!PFTypeOK
<1>6. InvRuns'
  <2>1. status[p] = "running"
    BY <1>1 DEF InvRuns
  <2> QED  BY <1>2, <2>1 DEF InvRuns, Over
<1>7. InvMutex'
  <2>1. \A q \in Pairs : at'[q] \in Holding <=> at[q] \in Holding
    BY <1>2 DEF Holding
  <2>2. UNCHANGED << runs, m >>
    BY <1>2
  <2>3. ASSUME NEW v \in Workers, m' = v
        PROVE  runs'[v] # nobody /\ at'[runs'[v]] \in Holding
    BY <1>1, <2>1, <2>2, <2>3 DEF InvMutex
  <2>4. ASSUME NEW q \in Pairs, at'[q] \in Holding
        PROVE  \E v \in Workers : runs'[v] = q /\ m' = v
    BY <2>1, <2>2, <2>4 DEF InvMutex
  <2> QED  BY <2>3, <2>4 DEF InvMutex, Holding
<1>8. InvFound'
  BY <1>2, <1>3 DEF InvFound
<1>9. InvBufferLen' /\ InvBufferAt'
  <2>1. \A q \in Pairs : q # p => at'[q] \notin {"set", "tri", "none"}
    BY <1>2, <1>4 DEF Holding
  <2>2. \A x : Len(Append(buffer, x)) = Len(buffer) + 1
    BY <1>1 DEF Output
  <2>3. \A x : /\ Append(buffer, x)[Len(buffer) + 1] = x
               /\ \A j \in 1..Len(buffer) : Append(buffer, x)[j] = buffer[j]
    BY <1>1 DEF Output
  <2>4. CASE at[p] = "set"
    <3>1. at'[p] = "tri" /\ buffer' = Append(buffer, Piece(p, "set", 0))
      BY <1>2, <2>4
    <3>2. Len(buffer) = 1 /\ 1 \in 1..Len(buffer) /\ Len(buffer) + 1 = 2
      <4>1. Len(buffer) = 1
        BY <2>4 DEF InvBufferLen
      <4> QED  BY <4>1
    <3>3. Len(buffer') = 2
      BY <2>2, <3>1, <3>2
    <3>4. buffer'[1] = buffer[1] /\ buffer'[2] = Piece(p, "set", 0)
      BY <2>3, <3>1, <3>2
    <3> QED  BY <2>1, <2>4, <3>1, <3>3, <3>4 DEF InvBufferLen, InvBufferAt, Piece
  <2>5. CASE at[p] \in {"head", "none head"}
    <3>1. at'[p] \in {"set", "none"} /\ buffer' = Append(buffer, Piece(p, "head", 0))
      BY <1>2, <2>5
    <3>2. Len(buffer) = 0 /\ Len(buffer) + 1 = 1
      <4>1. Len(<< >>) = 0
        OBVIOUS
      <4>2. buffer = << >>
        BY <1>4, <2>5 DEF InvBufferLen, Holding
      <4> QED  BY <4>1, <4>2
    <3>3. Len(buffer') = 1
      BY <2>2, <3>1, <3>2
    <3>4. buffer'[1] = Piece(p, "head", 0)
      BY <2>3, <3>1, <3>2
    <3> QED  BY <2>1, <3>1, <3>3, <3>4 DEF InvBufferLen, InvBufferAt, Piece
  <2> QED  BY <1>2, <2>4, <2>5
<1>10. FileWhole' /\ OneLine'
  BY <1>2 DEF FileWhole, OneLine, WholeLines, Continues, EndOfLine
<1>11. InvLines'
  <2>1. Unprinted(p) /\ Unprinted(p)'
    BY <1>2 DEF Unprinted
  <2>2. \A q \in Pairs : q # p => (Unprinted(q)' <=> Unprinted(q))
    BY <1>2 DEF Unprinted
  <2>3. \A q \in Pairs : Unprinted(q)' <=> Unprinted(q)
    BY <2>1, <2>2
  <2>4. UNCHANGED << trial, found_success, file >>
    BY <1>2
  <2> QED  BY <2>3, <2>4 DEF InvLines
<1>12. InvJoin'
  BY <1>2 DEF InvJoin
<1> QED  BY <1>5, <1>6, <1>7, <1>8, <1>9, <1>10, <1>11, <1>12
(* std::endl: the line, complete now, goes to the file.                    *)
LEMMA FlushInv ==
  ASSUME Inv, NEW w \in Workers, NEW p \in Pairs, runs[w] = p, PrintEnd(w, p)
  PROVE  Inv'
<1> USE DEF Inv
<1> DEFINE x == IF at[p] = "tri" THEN Piece(p, "tri", trial[p] + 1)
                ELSE Piece(p, "none", NUM_TRIALS(p))
           l == Append(buffer, x)
<1>1. /\ at \in [Pairs -> Places]
      /\ runs \in [Workers -> Pairs \cup {nobody}]
      /\ p # nobody
      /\ buffer \in Output /\ file \in Output
      /\ trial[p] \in Nat /\ NUM_TRIALS(p) \in Nat
  BY SearchManyAssumption, BodiesArePairs, NumTrialsType DEF TypeOK, PF!PFTypeOK
<1>2. /\ UNCHANGED << status, waits, runs, trial, found_success, m >>
      /\ << at[p], at'[p] >> \in { << "tri", "unlock" >>, << "none", "none unlock" >> }
      /\ file' = file \o l
      /\ buffer' = << >>
      /\ at' = [ at EXCEPT ![p] = at'[p] ]
      /\ \A q \in Pairs : q # p => at'[q] = at[q]
  BY <1>1 DEF PrintEnd, Goto, loops
<1>3. \A q \in Pairs : NUM_TRIALS(q)' = NUM_TRIALS(q)
  BY DEF NUM_TRIALS
<1>4. /\ at[p] \in Holding
      /\ \A q \in Pairs : q # p => at[q] \notin Holding
  <2>1. at[p] \in Holding
    BY <1>2 DEF Holding
  <2> QED  BY <2>1, PrinterAlone
<1>5. /\ x \in [ pair : Pairs, part : {"head", "set", "tri", "none"}, tri : Nat ]
      /\ x.pair = p
      /\ x.part = at[p]
      /\ at[p] = "tri" => x.tri = trial[p] + 1
  <2>1. CASE at[p] = "tri"
    <3>1. x = Piece(p, "tri", trial[p] + 1) /\ trial[p] + 1 \in Nat
      BY <1>1, <2>1
    <3> HIDE DEF x
    <3> QED  BY <2>1, <3>1 DEF Piece
  <2>2. CASE at[p] = "none"
    <3>1. x = Piece(p, "none", NUM_TRIALS(p))
      BY <2>2
    <3> HIDE DEF x
    <3> QED  BY <1>1, <2>2, <3>1 DEF Piece
  <2> QED  BY <1>2, <2>1, <2>2
<1>6. /\ l \in Output
      /\ Len(buffer) \in Nat
      /\ Len(l) = Len(buffer) + 1
  <2> HIDE DEF x
  <2> QED  BY <1>1, <1>5 DEF Output
<1>60. /\ l[Len(buffer) + 1] = x
       /\ \A j \in 1..Len(buffer) : l[j] = buffer[j]
  <2> HIDE DEF x
  <2> QED  BY <1>1, <1>5 DEF Output
<1> HIDE DEF x, l
<1>70. /\ at[p] = "tri" => Len(buffer) = 2
       /\ at[p] = "none" => Len(buffer) = 1
  BY DEF InvBufferLen
<1>7. /\ at[p] = "tri" => Len(l) = 3
      /\ at[p] = "none" => Len(l) = 2
  <2>1. Len(buffer) = 2 => Len(l) = 3
    BY <1>6
  <2>2. Len(buffer) = 1 => Len(l) = 2
    BY <1>6
  <2> QED  BY <1>70, <2>1, <2>2
<1>0. /\ at[p] = "tri" => l[1] = Piece(p, "head", 0) /\ l[2] = Piece(p, "set", 0) /\ l[3] = x
      /\ at[p] = "none" => l[1] = Piece(p, "head", 0) /\ l[2] = x
  <2>1. CASE at[p] = "tri"
    <3>1. 1 \in 1..Len(buffer) /\ 2 \in 1..Len(buffer) /\ Len(buffer) + 1 = 3
      <4>1. Len(buffer) = 2
        BY <1>70, <2>1
      <4> QED  BY <4>1
    <3> QED  BY <1>60, <2>1, <3>1 DEF InvBufferAt
  <2>2. CASE at[p] = "none"
    <3>1. 1 \in 1..Len(buffer) /\ Len(buffer) + 1 = 2
      <4>1. Len(buffer) = 1
        BY <1>70, <2>2
      <4> QED  BY <4>1
    <3> QED  BY <1>60, <2>2, <3>1 DEF InvBufferAt
  <2> QED  BY <1>2, <2>1, <2>2
<1>8. /\ file \o l \in Output
      /\ Len(file) \in Nat
      /\ Len(file \o l) = Len(file) + Len(l)
      /\ \A j \in 1..Len(file) : (file \o l)[j] = file[j]
      /\ \A j \in 1..Len(l) : (file \o l)[Len(file) + j] = l[j]
  BY <1>1, <1>6, ConcatAt
<1>9. Len(l) \in {2, 3} /\ \A j \in 1..Len(l) : l[j].pair = p /\ (l[j].part = "head" <=> j = 1)
  <2>1. CASE at[p] = "tri"
    <3>1. \A j \in 1..Len(l) : j = 1 \/ j = 2 \/ j = 3
      <4>1. Len(l) = 3
        BY <1>7, <2>1
      <4> QED  BY <4>1
    <3> QED  BY <1>0, <1>5, <1>7, <2>1, <3>1 DEF Piece
  <2>2. CASE at[p] = "none"
    <3>1. \A j \in 1..Len(l) : j = 1 \/ j = 2
      <4>1. Len(l) = 2
        BY <1>7, <2>2
      <4> QED  BY <4>1
    <3> QED  BY <1>0, <1>5, <1>7, <2>2, <3>1 DEF Piece
  <2> QED  BY <1>2, <2>1, <2>2
<1>10. TypeOK'
  <2>1. at' \in [Pairs -> Places]
    BY <1>1, <1>2 DEF Places
  <2>2. file' \in Output /\ buffer' \in Output
    <3>1. << >> \in Output
      BY DEF Output
    <3> QED  BY <1>2, <1>8, <3>1
  <2> QED  BY <1>2, <1>3, <2>1, <2>2 DEF TypeOK, PF!PFTypeOK
<1>11. InvRuns'
  <2>1. status[p] = "running"
    BY <1>1 DEF InvRuns
  <2> QED  BY <1>2, <2>1 DEF InvRuns, Over
<1>12. InvMutex'
  <2>1. \A q \in Pairs : at'[q] \in Holding <=> at[q] \in Holding
    BY <1>2 DEF Holding
  <2>2. UNCHANGED << runs, m >>
    BY <1>2
  <2>3. ASSUME NEW v \in Workers, m' = v
        PROVE  runs'[v] # nobody /\ at'[runs'[v]] \in Holding
    BY <1>1, <2>1, <2>2, <2>3 DEF InvMutex
  <2>4. ASSUME NEW q \in Pairs, at'[q] \in Holding
        PROVE  \E v \in Workers : runs'[v] = q /\ m' = v
    BY <2>1, <2>2, <2>4 DEF InvMutex
  <2> QED  BY <2>3, <2>4 DEF InvMutex, Holding
<1>13. InvFound'
  BY <1>2, <1>3 DEF InvFound
<1>14. InvBufferLen' /\ InvBufferAt'
  <2>1. \A q \in Pairs : at'[q] \notin {"set", "tri", "none"}
    BY <1>2, <1>4 DEF Holding
  <2> QED  BY <1>2, <2>1 DEF InvBufferLen, InvBufferAt
<1>15. FileWhole'
  <2>1. WholeLines(l)
    <3>1. CASE at[p] = "tri"
      <4>1. \A j \in 1..(Len(l) - 1) : j = 1 \/ j = 2
        <5>1. Len(l) = 3
          BY <1>7, <3>1
        <5> QED  BY <5>1
      <4>2. l[Len(l)] = x
        BY <1>0, <1>7, <3>1
      <4> QED  BY <1>0, <1>5, <3>1, <4>1, <4>2 DEF WholeLines, EndOfLine, Continues, Piece
    <3>2. CASE at[p] = "none"
      <4>1. \A j \in 1..(Len(l) - 1) : j = 1
        <5>1. Len(l) = 2
          BY <1>7, <3>2
        <5> QED  BY <5>1
      <4>2. l[Len(l)] = x
        BY <1>0, <1>7, <3>2
      <4> QED  BY <1>0, <1>5, <3>2, <4>1, <4>2 DEF WholeLines, EndOfLine, Continues, Piece
    <3> QED  BY <1>2, <3>1, <3>2
  <2>2. WholeLines(file) /\ l # << >>
    BY <1>9 DEF FileWhole
  <2>3. WholeLines(file \o l)
    BY <1>1, <1>6, <2>1, <2>2, WholeAppended
  <2> QED  BY <1>2, <2>3 DEF FileWhole, WholeLines, EndOfLine, Continues
<1>16. Unprinted(p) /\ ~Unprinted(p)'
  BY <1>2 DEF Unprinted, InvFound
<1>17. \A j \in 1..Len(file') :
         \/ j \in 1..Len(file) /\ file'[j] = file[j] /\ file[j].pair # p
         \/ /\ j - Len(file) \in 1..Len(l)
            /\ file'[j].pair = p
            /\ file'[j].part = "head" => j = Len(file) + 1
  <2> SUFFICES ASSUME NEW j \in 1..(Len(file) + Len(l))
               PROVE  \/ j \in 1..Len(file) /\ file'[j] = file[j] /\ file[j].pair # p
                      \/ /\ j - Len(file) \in 1..Len(l)
                         /\ file'[j].pair = p
                         /\ file'[j].part = "head" => j = Len(file) + 1
    BY <1>2, <1>8
  <2>1. CASE j \in 1..Len(file)
    BY <1>2, <1>8, <1>16, <2>1 DEF InvLines
  <2>2. CASE j \notin 1..Len(file)
    <3>1. j - Len(file) \in 1..Len(l) /\ j = Len(file) + (j - Len(file))
      BY <1>8, <1>9, <2>2
    <3>2. file'[j] = l[j - Len(file)]
      BY <1>2, <1>8, <3>1
    <3> QED  BY <1>9, <3>1, <3>2
  <2> QED  BY <2>1, <2>2
<1>18. OneLine'
  <2> SUFFICES ASSUME NEW j \in DOMAIN file', NEW h \in DOMAIN file',
                      file'[j].part = "head", file'[h].part = "head",
                      file'[j].pair = file'[h].pair
               PROVE  j = h
    BY DEF OneLine
  <2>1. DOMAIN file' = 1..Len(file') /\ DOMAIN file = 1..Len(file)
    <3>1. file' \in Output
      BY <1>2, <1>8
    <3> QED  BY <1>1, <3>1, OutputDomain
  <2> QED  BY <1>17, <2>1 DEF OneLine
<1>19. InvLines'
  <2>1. \A q \in Pairs : q # p => (Unprinted(q)' <=> Unprinted(q))
    BY <1>2 DEF Unprinted
  <2>2. ASSUME NEW q \in Pairs, Unprinted(q)'
        PROVE  \A j \in 1..Len(file') : file'[j].pair # q
    BY <1>16, <1>17, <2>1, <2>2 DEF InvLines
  <2>3. ASSUME NEW q \in Pairs, ~Unprinted(q)'
        PROVE  \E j \in 1..Len(file') :
                 /\ file'[j].pair = q
                 /\ IF found_success'[q]
                    THEN file'[j].part = "tri" /\ file'[j].tri = trial'[q] + 1
                    ELSE file'[j].part = "none"
    <3>1. CASE q = p
      <4>1. /\ Len(file) + Len(l) \in 1..Len(file')
            /\ file'[Len(file) + Len(l)] = x
        <5>1. Len(l) \in 1..Len(l) /\ Len(file) + Len(l) \in 1..(Len(file) + Len(l))
          <6>1. Len(file) \in Nat
            BY <1>8
          <6>2. Len(l) \in {2, 3}
            BY <1>9
          <6>3. \A a \in Nat, b \in {2, 3} : b \in 1..b /\ a + b \in 1..(a + b)
            OBVIOUS
          <6> QED  BY <6>1, <6>2, <6>3
        <5>2. l[Len(l)] = x
          BY <1>0, <1>2, <1>7
        <5> QED  BY <1>2, <1>8, <5>1, <5>2
      <4>2. at[p] = "tri" <=> found_success'[p]
        BY <1>2 DEF InvFound
      <4> QED  BY <1>2, <1>5, <3>1, <4>1, <4>2
    <3>2. CASE q # p
      <4>1. PICK j \in 1..Len(file) :
               /\ file[j].pair = q
               /\ IF found_success[q]
                  THEN file[j].part = "tri" /\ file[j].tri = trial[q] + 1
                  ELSE file[j].part = "none"
        BY <2>1, <2>3, <3>2 DEF InvLines
      <4>2. j \in 1..Len(file') /\ file'[j] = file[j]
        <5>1. j \in 1..(Len(file) + Len(l))
          BY <1>8, <1>9
        <5> QED  BY <1>2, <1>8, <5>1
      <4> QED  BY <1>2, <4>1, <4>2
    <3> QED  BY <3>1, <3>2
  <2> QED  BY <2>2, <2>3 DEF InvLines
<1>20. InvJoin'
  BY <1>2 DEF InvJoin
<1> QED  BY <1>10, <1>11, <1>12, <1>13, <1>14, <1>15, <1>18, <1>19, <1>20
-----------------------------------------------------------------------------
(* The body returns.                                                       *)
LEMMA FinishInv ==
  ASSUME Inv, NEW w \in Workers, NEW p \in Pairs, runs[w] = p, Finish(w, p)
  PROVE  Inv'
<1> USE DEF Inv
<1>1. /\ runs \in [Workers -> Pairs \cup {nobody}]
      /\ status \in [Calls -> {"open", "running", "done"}]
      /\ p # nobody /\ p \in Calls
      /\ Over(p)
  BY SearchManyAssumption, BodiesArePairs DEF TypeOK, PF!PFTypeOK, Finish, Over
<1>2. /\ UNCHANGED << waits, at, trial, found_success, m, buffer, file >>
      /\ status' = [ status EXCEPT ![p] = "done" ]
      /\ runs' = [ runs EXCEPT ![w] = nobody ]
  BY DEF Finish, PF!Finish, locals, output
<1>3. \A q \in Pairs : NUM_TRIALS(q)' = NUM_TRIALS(q)
  BY DEF NUM_TRIALS
<1>4. TypeOK'
  <2>1. PF!PFTypeOK'
    BY <1>1, <1>2 DEF TypeOK, PF!PFTypeOK
  <2> QED  BY <1>2, <1>3, <2>1 DEF TypeOK
<1>5. InvRuns'
  BY <1>1, <1>2, BodiesArePairs DEF InvRuns, Over
<1>6. InvMutex'
  <2>1. at[p] \notin Holding
    BY <1>1 DEF Over, Holding
  <2>2. \A v \in Workers : v # w => runs'[v] = runs[v]
    BY <1>1, <1>2
  <2>3. ASSUME NEW v \in Workers, m' = v
        PROVE  runs'[v] # nobody /\ at'[runs'[v]] \in Holding
    BY <1>2, <2>1, <2>2, <2>3 DEF InvMutex
  <2>4. ASSUME NEW q \in Pairs, at'[q] \in Holding
        PROVE  \E v \in Workers : runs'[v] = q /\ m' = v
    BY <1>2, <2>1, <2>2, <2>4 DEF InvMutex
  <2> QED  BY <2>3, <2>4 DEF InvMutex, Holding
<1>7. InvFound' /\ InvBufferLen' /\ InvBufferAt'
  BY <1>2, <1>3 DEF InvFound, InvBufferLen, InvBufferAt, Piece
<1>8. FileWhole' /\ OneLine'
  BY <1>2 DEF FileWhole, OneLine, WholeLines, Continues, EndOfLine
<1>9. InvLines'
  <2>1. \A q \in Pairs : Unprinted(q)' <=> Unprinted(q)
    BY <1>2 DEF Unprinted
  <2>2. UNCHANGED << trial, found_success, file >>
    BY <1>2
  <2> QED  BY <2>1, <2>2 DEF InvLines
<1>10. InvJoin'
  BY <1>1, <1>2, BodiesArePairs DEF InvJoin, PF!Loops, PF!Bodies, PF!Children, PF!Parent
<1> QED  BY <1>4, <1>5, <1>6, <1>7, <1>8, <1>9, <1>10

(* A call is handed to a worker.                                           *)
LEMMA BeginInv ==
  ASSUME Inv, NEW w \in Workers, NEW c \in Calls, Begin(w, c)
  PROVE  Inv'
<1> USE DEF Inv
<1>1. /\ runs \in [Workers -> Pairs \cup {nobody}]
      /\ status \in [Calls -> {"open", "running", "done"}]
      /\ waits \in [Workers -> Seq(PF!Loops)]
      /\ c \in PF!Loops \/ c \in Pairs
      /\ \A q \in Pairs : q \in Calls
      /\ nobody \notin Calls
  BY SearchManyAssumption, BodiesArePairs DEF TypeOK, PF!PFTypeOK, PF!Bodies
<1>2. /\ UNCHANGED << at, trial, found_success, m, buffer, file >>
      /\ status[c] = "open"
      /\ runs[w] = nobody
      /\ status' = [ status EXCEPT ![c] = "running" ]
      /\ IF c \in PF!Loops
         THEN waits' = [ waits EXCEPT ![w] = Append(@, c) ] /\ runs' = runs
         ELSE waits' = waits /\ runs' = [ runs EXCEPT ![w] = c ]
  BY DEF Begin, PF!Begin, locals, output
<1>3. \A q \in Pairs : NUM_TRIALS(q)' = NUM_TRIALS(q)
  BY DEF NUM_TRIALS
<1>4. /\ c \in Pairs => at[c] = "table"
      /\ \A v \in Workers : runs[v] # nobody => runs[v] # c
      /\ c \notin PF!Loops => c \in Pairs
  BY <1>1, <1>2 DEF InvRuns
<1>5. TypeOK'
  <2>1. status' \in [Calls -> {"open", "running", "done"}]
    BY <1>1, <1>2
  <2>2. waits' \in [Workers -> Seq(PF!Loops)]
    <3>1. c \in PF!Loops => Append(waits[w], c) \in Seq(PF!Loops)
      BY <1>1
    <3> QED  BY <1>1, <1>2, <3>1
  <2>3. runs' \in [Workers -> Pairs \cup {nobody}]
    BY <1>1, <1>2, <1>4
  <2>4. PF!PFTypeOK'
    BY <2>1, <2>2, <2>3, BodiesArePairs DEF PF!PFTypeOK
  <2> QED  BY <1>2, <1>3, <2>4 DEF TypeOK
<1>6. InvRuns'
  <2>1. ASSUME NEW v \in Workers, runs'[v] # nobody
        PROVE  status'[runs'[v]] = "running"
    BY <1>1, <1>2, <1>4, <2>1 DEF InvRuns
  <2>2. ASSUME NEW u \in Workers, NEW v \in Workers, runs'[u] = runs'[v], runs'[u] # nobody
        PROVE  u = v
    BY <1>1, <1>2, <1>4, <2>2 DEF InvRuns
  <2>3. ASSUME NEW q \in Pairs
        PROVE  /\ status'[q] = "open" => at'[q] = "table"
               /\ status'[q] = "done" => Over(q)'
    BY <1>1, <1>2 DEF InvRuns, Over
  <2> QED  BY <2>1, <2>2, <2>3 DEF InvRuns
<1>7. InvMutex'
  <2>1. c \in Pairs => at[c] \notin Holding
    BY <1>4 DEF Holding
  <2>2. \A v \in Workers : v # w => runs'[v] = runs[v]
    BY <1>1, <1>2
  <2>3. ASSUME NEW v \in Workers, m' = v
        PROVE  runs'[v] # nobody /\ at'[runs'[v]] \in Holding
    BY <1>2, <2>2, <2>3 DEF InvMutex
  <2>4. ASSUME NEW q \in Pairs, at'[q] \in Holding
        PROVE  \E v \in Workers : runs'[v] = q /\ m' = v
    BY <1>1, <1>2, <2>2, <2>4 DEF InvMutex
  <2> QED  BY <2>3, <2>4 DEF InvMutex, Holding
<1>8. InvFound' /\ InvBufferLen' /\ InvBufferAt'
  BY <1>2, <1>3 DEF InvFound, InvBufferLen, InvBufferAt, Piece
<1>9. FileWhole' /\ OneLine'
  BY <1>2 DEF FileWhole, OneLine, WholeLines, Continues, EndOfLine
<1>10. InvLines'
  BY <1>2 DEF InvLines, Unprinted
<1>11. InvJoin'
  BY <1>1, <1>2 DEF InvJoin, PF!Loops, PF!Children, PF!Parent
<1> QED  BY <1>5, <1>6, <1>7, <1>8, <1>9, <1>10, <1>11

(* A loop returns.                                                         *)
LEMMA JoinInv ==
  ASSUME Inv, NEW w \in Workers, Join(w)
  PROVE  Inv'
<1> USE DEF Inv
<1> DEFINE c == PF!Innermost(w)
<1>1. /\ runs \in [Workers -> Pairs \cup {nobody}]
      /\ status \in [Calls -> {"open", "running", "done"}]
      /\ waits \in [Workers -> Seq(PF!Loops)]
      /\ \A q \in Pairs : q \in Calls /\ q \notin PF!Loops
  BY BodiesArePairs DEF TypeOK, PF!PFTypeOK, PF!Bodies
<1>2. /\ UNCHANGED << runs, at, trial, found_success, m, buffer, file >>
      /\ waits[w] # << >>
      /\ \A b \in PF!Children(c) : status[b] = "done"
      /\ status' = [ status EXCEPT ![c] = "done" ]
      /\ waits' = [ waits EXCEPT ![w] = SubSeq(@, 1, Len(@) - 1) ]
  BY DEF Join, PF!Join, locals, output
<1>3. /\ c \in PF!Loops
      /\ SubSeq(waits[w], 1, Len(waits[w]) - 1) \in Seq(PF!Loops)
  BY <1>1, <1>2 DEF PF!Innermost
<1> HIDE DEF c
<1>4. c \in Calls /\ c \notin Pairs
  BY <1>1, <1>3 DEF PF!Loops
<1>5. \A q \in Pairs : NUM_TRIALS(q)' = NUM_TRIALS(q)
  BY DEF NUM_TRIALS
<1>6. TypeOK'
  <2>1. PF!PFTypeOK'
    BY <1>1, <1>2, <1>3, BodiesArePairs DEF PF!PFTypeOK
  <2> QED  BY <1>2, <1>5, <2>1 DEF TypeOK
<1>7. InvRuns'
  BY <1>1, <1>2, <1>4 DEF InvRuns, Over
<1>8. InvMutex'
  BY <1>2 DEF InvMutex, Holding
<1>9. InvFound' /\ InvBufferLen' /\ InvBufferAt'
  BY <1>2, <1>5 DEF InvFound, InvBufferLen, InvBufferAt, Piece
<1>10. FileWhole' /\ OneLine'
  BY <1>2 DEF FileWhole, OneLine, WholeLines, Continues, EndOfLine
<1>11. InvLines'
  BY <1>2 DEF InvLines, Unprinted
<1>12. InvJoin'
  <2>1. \A d \in PF!Loops : \A b \in PF!Children(d) : b \in Calls
    BY DEF PF!Children
  <2>2. ASSUME NEW d \in PF!Loops, status'[d] = "done", NEW b \in PF!Children(d)
        PROVE  status'[b] = "done"
    <3>1. status[b] = "done"
      <4>1. CASE d = c
        BY <1>2, <4>1
      <4>2. CASE d # c
        <5>1. status[d] = "done"
          BY <1>1, <1>2, <1>4, <2>2, <4>2 DEF PF!Loops
        <5> QED  BY <5>1 DEF InvJoin
      <4> QED  BY <4>1, <4>2
    <3> QED  BY <1>1, <1>2, <1>4, <2>1, <3>1
  <2> QED  BY <2>2 DEF InvJoin, PF!Loops, PF!Children, PF!Parent
<1> QED  BY <1>6, <1>7, <1>8, <1>9, <1>10, <1>11, <1>12

(* Every step keeps the invariant.                                         *)
LEMMA StepInv == Inv /\ [Next]_vars => Inv'
<1> SUFFICES ASSUME Inv, [Next]_vars PROVE Inv'
  OBVIOUS
<1>1. ASSUME NEW w \in Workers, NEW c \in Calls, Begin(w, c) PROVE Inv'
  BY <1>1, BeginInv
<1>2. ASSUME NEW w \in Workers, runs[w] # nobody, Step(w, runs[w]) PROVE Inv'
  <2>1. runs[w] \in Pairs
    BY <1>2, BodiesArePairs DEF Inv, TypeOK, PF!PFTypeOK
  <2> QED  BY <1>2, <2>1, TrialsInv, LockInv, UnlockInv, PrintInv, FlushInv, FinishInv DEF Step
<1>3. ASSUME NEW w \in Workers, Join(w) PROVE Inv'
  BY <1>3, JoinInv
<1>4. CASE UNCHANGED vars
  <2>1. UNCHANGED << status, waits, runs, at, trial, found_success, m, buffer, file >>
    BY <1>4 DEF vars, loops, locals, output
  <2>2. TypeOK'
    BY <2>1 DEF Inv, TypeOK, NUM_TRIALS, PF!PFTypeOK
  <2>3. InvRuns' /\ InvMutex'
    BY <2>1 DEF Inv, InvRuns, InvMutex, Over, Holding
  <2>5. InvFound' /\ InvBufferLen' /\ InvBufferAt'
    BY <2>1 DEF Inv, InvFound, NUM_TRIALS, InvBufferLen, InvBufferAt, Piece
  <2>6. InvLines'
    <3>1. \A q \in Pairs : Unprinted(q)' <=> Unprinted(q)
      BY <2>1 DEF Unprinted
    <3> QED  BY <2>1, <3>1 DEF Inv, InvLines
  <2>7. InvJoin'
    BY <2>1 DEF Inv, InvJoin, PF!Loops, PF!Children, PF!Parent
  <2>4. FileWhole' /\ OneLine'
    BY <2>1 DEF Inv, FileWhole, OneLine, WholeLines, Continues, EndOfLine
  <2> QED  BY <2>2, <2>3, <2>4, <2>5, <2>6, <2>7 DEF Inv
<1> QED  BY <1>1, <1>2, <1>3, <1>4 DEF Next
(* When main is out of its loops, every pair is over.                      *)
LEMMA ExitOver ==
  ASSUME Inv, Exited
  PROVE  \A p \in Pairs : Over(p)
<1>1. /\ << >> \in PF!Loops
      /\ \A d \in Dim : << d >> \in PF!Loops
  <2>1. Len(<< >>) = 0 /\ \A d \in Dim : Len(<< d >>) = 1
    OBVIOUS
  <2> QED  BY <2>1 DEF PF!Loops, Calls
<1>2. \A d \in Dim : << d >> \in PF!Children(<< >>)
  <2>1. ASSUME NEW d \in Dim PROVE SubSeq(<< d >>, 1, Len(<< d >>) - 1) = << >>
    OBVIOUS
  <2> QED  BY <2>1 DEF PF!Children, PF!Parent, Calls
<1>3. \A d \in Dim : \A g \in Group(d) : << d, g >> \in PF!Children(<< d >>)
  <2>1. ASSUME NEW d \in Dim, NEW g \in Group(d)
        PROVE  SubSeq(<< d, g >>, 1, Len(<< d, g >>) - 1) = << d >>
    <3> DEFINE S == Dim \cup Group(d)
               q == << d, g >>
    <3>1. Len(q) = 2 /\ q[1] = d /\ q[2] = g
      OBVIOUS
    <3>2. << d >> \in Seq(S) /\ Len(<< d >>) = 1 /\ << d >>[1] = d
      OBVIOUS
    <3> HIDE DEF q
    <3> DEFINE r == SubSeq(q, 1, 1)
    <3>3. d \in S
      OBVIOUS
    <3> HIDE DEF S
    <3>4. /\ r \in Seq(S)
          /\ Len(r) = 1
          /\ \A i \in 1..1 : r[i] = q[1+i-1]
      BY <3>1, <3>3, SubSeqProperties
    <3> HIDE DEF r
    <3>5. r = << d >>
      BY <3>1, <3>2, <3>4, SeqEqual
    <3> QED  BY <3>1, <3>5 DEF q, r
  <2>2. \A d \in Dim : \A g \in Group(d) : << d, g >> \in Pairs
    BY DEF Pairs
  <2> QED  BY <2>1, <2>2, BodiesArePairs DEF PF!Children, PF!Parent
<1>4. ASSUME NEW d \in Dim, NEW g \in Group(d)
      PROVE  status[<< d, g >>] = "done"
  <2>1. status[<< d >>] = "done"
    BY <1>1, <1>2 DEF Inv, InvJoin, Exited
  <2> QED  BY <1>1, <1>3, <2>1 DEF Inv, InvJoin
<1> QED  BY <1>4 DEF Inv, InvRuns, Pairs

(* What the invariant says of the moment main returns.                     *)
LEMMA ExitInv == Inv => ExitComplete
<1> SUFFICES ASSUME Inv, Exited
             PROVE  /\ m = nobody /\ buffer = << >>
                    /\ \A p \in Pairs : \E j \in DOMAIN file :
                         /\ file[j].pair = p
                         /\ IF found_success[p]
                            THEN file[j].part = "tri" /\ file[j].tri \in 1..NUM_TRIALS(p)
                            ELSE file[j].part = "none" /\ trial[p] = NUM_TRIALS(p)
  BY DEF ExitComplete
<1>1. \A p \in Pairs : Over(p)
  BY ExitOver
<1>2. m = nobody
  <2>1. \A p \in Pairs : at[p] \notin Holding
    BY <1>1 DEF Over, Holding
  <2>2. /\ runs \in [Workers -> Pairs \cup {nobody}]
        /\ m \in Workers \cup {nobody}
    BY BodiesArePairs DEF Inv, TypeOK, PF!PFTypeOK
  <2> QED  BY <2>1, <2>2 DEF Inv, InvMutex
<1>3. buffer = << >>
  BY <1>1 DEF Over, Inv, InvBufferLen
<1>4. ASSUME NEW p \in Pairs
      PROVE  \E j \in DOMAIN file :
               /\ file[j].pair = p
               /\ IF found_success[p]
                  THEN file[j].part = "tri" /\ file[j].tri \in 1..NUM_TRIALS(p)
                  ELSE file[j].part = "none" /\ trial[p] = NUM_TRIALS(p)
  <2>1. PICK j \in 1..Len(file) :
           /\ file[j].pair = p
           /\ IF found_success[p]
              THEN file[j].part = "tri" /\ file[j].tri = trial[p] + 1
              ELSE file[j].part = "none"
    BY <1>1 DEF Over, Unprinted, Inv, InvLines
  <2>2. j \in DOMAIN file
    BY OutputDomain DEF Inv, TypeOK
  <2>3. /\ found_success[p] => trial[p] < NUM_TRIALS(p)
        /\ ~found_success[p] => trial[p] = NUM_TRIALS(p)
    BY <1>1 DEF Over, Inv, InvFound
  <2>4. trial[p] \in Nat /\ NUM_TRIALS(p) \in Nat
    BY NumTrialsType DEF Inv, TypeOK
  <2> QED  BY <2>1, <2>2, <2>3, <2>4
<1> QED  BY <1>2, <1>3, <1>4

-----------------------------------------------------------------------------
(* The invariant holds throughout.                                         *)
THEOREM Invariance == Spec => []Inv
<1>1. Init => Inv
  BY InitInv
<1>2. Inv /\ [Next]_vars => Inv'
  BY StepInv
<1> QED  BY <1>1, <1>2, PTL DEF Spec

(* All variables keep their types.                                         *)
THEOREM TypesKept == Spec => []TypeOK
<1>1. Inv => TypeOK
  BY DEF Inv
<1> QED  BY <1>1, Invariance, PTL

(* The output file holds whole lines at any time, for any number of        *)
(* threads that print: the mutex of searchMany.cpp does its work, and a    *)
(* job that is killed leaves nothing the scripts cannot read.              *)
THEOREM LinesStayWhole == Spec => []FileWhole
<1>1. Inv => FileWhole
  BY DEF Inv
<1> QED  BY <1>1, Invariance, PTL

(* No pair of a dimension and a group is reported twice.                   *)
THEOREM ReportedOnce == Spec => []OneLine
<1>1. Inv => OneLine
  BY DEF Inv
<1> QED  BY <1>1, Invariance, PTL

(* When main returns, every pair of the range has its line, with a verdict *)
(* that is right: the flag, the break and the two joins.                   *)
THEOREM AllReported == Spec => []ExitComplete
<1>1. Inv => ExitComplete
  BY ExitInv
<1> QED  BY <1>1, Invariance, PTL
=============================================================================
