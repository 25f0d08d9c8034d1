----------------------------- MODULE HashTable ------------------------------
(***************************************************************************)
(* parlay::hashtable (hash_table.h), linear probing in which a key of      *)
(* higher priority pushes one of lower priority on.  Any number of threads *)
(* insert, or update, or delete at a time, but operations of these kinds   *)
(* are not mixed ("phases").  Each read of a cell and each compare-and-swap *)
(* is a step.  The priority of a key is the key.  What becomes of a value  *)
(* when its key is there already is up to the struct the table is given,   *)
(* HASH: hash_numeric has numbers without values, and keeps the old one.   *)
(***************************************************************************)
EXTENDS Integers, Sequences, FiniteSets, Functions

CONSTANTS
  Threads,
  m,          (* the number of cells                                       *)
  Keys,       (* numbers                                                   *)
  Hashes,     (* the functions from keys to cells to be tried              *)
  Phases,     (* pairs of "insert", "update" or "delete" and a HASH:       *)
              (* "hash_numeric", or one that keeps the "largest" value or  *)
              (* the "sum" of the values                                   *)
  Loads,      (* the sets of keys the table may hold at first              *)
  Batches,    (* what the threads do: functions from threads to keys       *)
  Empty

VARIABLES
  hash, phase, HASH,
  TA,
  pre, arg,   (* the keys at first, and each thread's key                  *)
  at,         (* where a thread is in its function                         *)
  v, i, j, c, (* its variables                                             *)
  jj, x, jjj,
  result      (* what its call returned                                    *)

locals == << v, i, j, c, jj, x, jjj >>
vars == << hash, phase, HASH, TA, pre, arg, at, locals, result >>

Cells == 0..(m-1)
Elt(k, n) == [ key |-> k, val |-> n ]

incrementIndex(h) == IF h + 1 = m THEN 0 ELSE h + 1
decrementIndex(h) == IF h = 0 THEN m - 1 ELSE h - 1
lessIndex(a, b) == IF a < b THEN 2 * (b - a) < m ELSE 2 * (a - b) > m
firstIndex(k) == hash[k]

(* The sign of the comparison of a key with that of an element, 1 with an  *)
(* empty cell.                                                             *)
cmp(k, e) == IF e = Empty \/ k > e.key THEN 1 ELSE IF k = e.key THEN 0 ELSE -1

-----------------------------------------------------------------------------
(* The layout a set of elements has in the table: by falling priority, each *)
(* in the first cell that is free from its hash on.                        *)
FirstFree(t, h) ==
  LET d == CHOOSE d \in Cells : t[(h + d) % m] = Empty /\ \A b \in 0..(d-1) : t[(h + b) % m] # Empty
  IN  (h + d) % m

Layout(E, hf) ==
  LET Put[S \in SUBSET E] ==
        IF S = E THEN [ cell \in Cells |-> Empty ]
        ELSE LET e == CHOOSE f \in E \ S : \A g \in E \ S : f.key <= g.key
                 t == Put[S \cup {e}]
             IN  [ t EXCEPT ![FirstFree(t, hf[e.key])] = e ]
  IN  Put[{}]

(* The table before and after: as if the calls had been made one by one.   *)
(* Each thread gives its own number, the load has the value 0.             *)
Given(k) == { t \in Threads : arg[t] = k }
Total(k) == LET S[T \in SUBSET Threads] ==
                  IF T = {} THEN 0 ELSE LET t == CHOOSE t \in T : TRUE IN t + S[T \ {t}]
            IN  S[Given(k)]
Largest(k) == CHOOSE t \in Given(k) : \A u \in Given(k) : u <= t

Kept(k) ==
  CASE Given(k) = {} \/ HASH = "hash_numeric" -> 0
    [] HASH = "largest" -> Largest(k)
    [] HASH = "sum" -> Total(k)

Due == { Elt(k, Kept(k)) : k \in IF phase = "delete" THEN pre \ Range(arg) ELSE pre \cup Range(arg) }

Init ==
  /\ hash \in Hashes
  /\ \E p \in Phases : phase = p[1] /\ HASH = p[2]
  /\ pre \in Loads
  /\ arg \in Batches
  /\ TA = Layout({ Elt(k, 0) : k \in pre }, hash)
  /\ at = [ t \in Threads |-> IF phase = "delete" THEN "begin" ELSE "read" ]
  /\ v = [ t \in Threads |-> Elt(arg[t], IF HASH = "hash_numeric" THEN 0 ELSE t) ]
  /\ i = [ t \in Threads |-> hash[arg[t]] ]
  /\ j = [ t \in Threads |-> hash[arg[t]] ]
  /\ c = [ t \in Threads |-> Empty ]
  /\ jj = [ t \in Threads |-> 0 ]
  /\ x = [ t \in Threads |-> Empty ]
  /\ jjj = [ t \in Threads |-> 0 ]
  /\ result = [ t \in Threads |-> FALSE ]

Goto(t, from, to) == at[t] = from /\ at' = [ at EXCEPT ![t] = to ]
Set(f, t, e) == [ f EXCEPT ![t] = e ]
Fixed == UNCHANGED << hash, phase, HASH, pre, arg >>

-----------------------------------------------------------------------------
(* insert and update.                                                      *)
Return(t, r) ==
  /\ at' = [ at EXCEPT ![t] = "done" ]
  /\ result' = [ result EXCEPT ![t] = r ]

ReadCell(t) ==
  /\ Goto(t, "read", "try")
  /\ c' = Set(c, t, TA[i[t]])
  /\ Fixed /\ UNCHANGED << TA, v, i, j, jj, x, jjj, result >>

(* The compare-and-swap fails: the loop is begun again.                    *)
Lost(t) ==
  /\ TA[i[t]] # c[t]
  /\ Goto(t, "try", "read")
  /\ UNCHANGED << TA, v, i, result >>

(* Mutant: the element is put there without a comparison.                  *)
VacantBlindly(t) ==
  /\ c[t] = Empty
  /\ TA' = [ TA EXCEPT ![i[t]] = v[t] ]
  /\ Return(t, TRUE)
  /\ UNCHANGED << v, i >>

Vacant(t) ==
  /\ c[t] = Empty
  /\ \/ Lost(t)
     \/ /\ TA[i[t]] = c[t]
        /\ TA' = [ TA EXCEPT ![i[t]] = v[t] ]
        /\ Return(t, TRUE)
        /\ UNCHANGED << v, i >>

(* Of HASH; update(e, f) is what takes the place of e when f is given.     *)
replaceQ(e, f) == HASH = "sum" \/ (HASH = "largest" /\ e.val > f.val)
update(e, f) == IF HASH = "sum" THEN Elt(e.key, e.val + f.val) ELSE e

Replacement(t) == IF phase = "update" THEN update(c[t], v[t]) ELSE v[t]

Equal(t) ==
  /\ c[t] # Empty /\ cmp(v[t].key, c[t]) = 0
  /\ IF ~replaceQ(v[t], c[t])
     THEN Return(t, FALSE) /\ UNCHANGED << TA, v, i >>
     ELSE \/ Lost(t)
          \/ /\ TA[i[t]] = c[t]
             /\ TA' = [ TA EXCEPT ![i[t]] = Replacement(t) ]
             /\ Return(t, TRUE)
             /\ UNCHANGED << v, i >>

GoOn(t) ==
  /\ c[t] # Empty /\ cmp(v[t].key, c[t]) < 0
  /\ i' = Set(i, t, incrementIndex(i[t]))
  /\ Goto(t, "try", "read")
  /\ UNCHANGED << TA, v, result >>

(* The element there is pushed on, and this thread finds it a place.       *)
Bump(t) ==
  /\ c[t] # Empty /\ cmp(v[t].key, c[t]) > 0
  /\ \/ Lost(t)
     \/ /\ TA[i[t]] = c[t]
        /\ TA' = [ TA EXCEPT ![i[t]] = v[t] ]
        /\ v' = Set(v, t, c[t])
        /\ i' = Set(i, t, incrementIndex(i[t]))
        /\ Goto(t, "try", "read")
        /\ UNCHANGED result

Try(t) ==
  /\ at[t] = "try"
  /\ Vacant(t) \/ Equal(t) \/ GoOn(t) \/ Bump(t)
  /\ Fixed /\ UNCHANGED << j, c, jj, x, jjj >>

-----------------------------------------------------------------------------
(* deleteVal.                                                              *)
Begin(t) ==
  /\ at[t] = "begin"
  /\ c' = Set(c, t, TA[j[t]])
  /\ IF c'[t] = Empty
     THEN Return(t, TRUE)
     ELSE at' = [ at EXCEPT ![t] = "up" ] /\ UNCHANGED result
  /\ Fixed /\ UNCHANGED << TA, v, i, j, jj, x, jjj >>

(* The loop up to the first cell of a priority not above that of v.        *)
Up(t) ==
  /\ at[t] = "up"
  /\ IF cmp(v[t].key, c[t]) < 0
     THEN /\ j' = Set(j, t, incrementIndex(j[t]))
          /\ c' = Set(c, t, TA[j'[t]])
          /\ UNCHANGED at
     ELSE at' = [ at EXCEPT ![t] = "down" ] /\ UNCHANGED << j, c >>
  /\ Fixed /\ UNCHANGED << TA, v, i, jj, x, jjj, result >>

(* Not here: one down, or out.                                             *)
Down(t) ==
  /\ at[t] = "down" /\ cmp(v[t].key, c[t]) # 0
  /\ IF j[t] = i[t]
     THEN Return(t, TRUE) /\ UNCHANGED << j, c >>
     ELSE /\ j' = Set(j, t, decrementIndex(j[t]))
          /\ c' = Set(c, t, TA[j'[t]])
          /\ UNCHANGED << at, result >>
  /\ Fixed /\ UNCHANGED << TA, v, i, jj, x, jjj >>

(* Here: the next element that may fill cell j is looked for ...           *)
Found(t) ==
  /\ cmp(v[t].key, c[t]) = 0
  /\ Goto(t, "down", "fill")
  /\ jj' = Set(jj, t, incrementIndex(j[t]))
  /\ x' = Set(x, t, TA[jj'[t]])
  /\ Fixed /\ UNCHANGED << TA, v, i, j, c, jjj, result >>

BelongsLater(t, e) == lessIndex(j[t], firstIndex(e.key))

Fill(t) ==
  /\ at[t] = "fill"
  /\ IF x[t] # Empty /\ BelongsLater(t, x[t])
     THEN /\ jj' = Set(jj, t, incrementIndex(jj[t]))
          /\ x' = Set(x, t, TA[jj'[t]])
          /\ UNCHANGED << at, jjj >>
     ELSE /\ jjj' = Set(jjj, t, decrementIndex(jj[t]))
          /\ at' = [ at EXCEPT ![t] = "back" ]
          /\ UNCHANGED << jj, x >>
  /\ Fixed /\ UNCHANGED << TA, v, i, j, c, result >>

(* ... and looked for again on the way back, in case others moved it.      *)
Back(t) ==
  /\ at[t] = "back"
  /\ IF jjj[t] = j[t]
     THEN at' = [ at EXCEPT ![t] = "cas" ] /\ UNCHANGED << jj, x, jjj >>
     ELSE LET y == TA[jjj[t]] IN
          /\ IF y = Empty \/ ~BelongsLater(t, y)
             THEN x' = Set(x, t, y) /\ jj' = Set(jj, t, jjj[t])
             ELSE UNCHANGED << x, jj >>
          /\ jjj' = Set(jjj, t, decrementIndex(jjj[t]))
          /\ UNCHANGED at
  /\ Fixed /\ UNCHANGED << TA, v, i, j, c, result >>

(* The replacement is copied into j, and then one of its copies is deleted *)
(* in the same way.                                                        *)
Replace(t) ==
  /\ at[t] = "cas"
  /\ IF TA[j[t]] = c[t]
     THEN /\ TA' = [ TA EXCEPT ![j[t]] = x[t] ]
          /\ IF x[t] = Empty
             THEN Return(t, TRUE) /\ UNCHANGED << v, i, j >>
             ELSE /\ v' = Set(v, t, x[t])
                  /\ j' = Set(j, t, jj[t])
                  /\ i' = Set(i, t, firstIndex(x[t].key))
                  /\ at' = [ at EXCEPT ![t] = "reread" ]
                  /\ UNCHANGED result
     ELSE at' = [ at EXCEPT ![t] = "reread" ] /\ UNCHANGED << TA, v, i, j, result >>
  /\ Fixed /\ UNCHANGED << c, jj, x, jjj >>

Reread(t) ==
  /\ Goto(t, "reread", "down")
  /\ c' = Set(c, t, TA[j[t]])
  /\ Fixed /\ UNCHANGED << TA, v, i, j, jj, x, jjj, result >>

-----------------------------------------------------------------------------
Quiet == \A t \in Threads : at[t] = "done"

Step(t) ==
  \/ ReadCell(t) \/ Try(t)
  \/ Begin(t) \/ Up(t) \/ Down(t) \/ Found(t) \/ Fill(t) \/ Back(t)
  \/ Replace(t) \/ Reread(t)

Next == (\E t \in Threads : Step(t)) \/ (Quiet /\ UNCHANGED vars)

Spec == Init /\ [][Next]_vars
(* find and findIndex, in a phase of their own: the cell where the search  *)
(* for key k ends.  It ends at an empty cell or one of lower priority.     *)
FindIndex(k) ==
  LET Probe[d \in 0..m] ==
        LET h == (firstIndex(k) + d) % m IN
        IF d = m THEN -1
        ELSE IF cmp(k, TA[h]) = 0 THEN h
        ELSE IF cmp(k, TA[h]) > 0 THEN -1
        ELSE Probe[d + 1]
  IN  Probe[0]

entries == { TA[h] : h \in { h \in Cells : TA[h] # Empty } }

-----------------------------------------------------------------------------
(* Whatever order the threads ran in, the table ends up the same, cell by  *)
(* cell: with the elements that sequential calls would leave, in the one   *)
(* layout there is for them ("history independent").                       *)
Deterministic == Quiet => TA = Layout(Due, hash)

(* A search finds what is there, and nothing else; entries lists it all.   *)
FindsAll ==
  Quiet => entries = Due /\ \A k \in Keys :
    LET h == FindIndex(k) IN
    IF \E e \in Due : e.key = k THEN h # -1 /\ TA[h].key = k ELSE h = -1

-----------------------------------------------------------------------------
(***************************************************************************)
(* hash_map of examples/hash_map.h, in which a call locks a cell to write  *)
(* it and a cell once given to a key is never given to another.  A thread  *)
(* makes the calls in script one after the other.  The key of a cell is    *)
(* read in the step of its status: it is written before the first time the *)
(* cell is full, and then stays.  Values are left out.                     *)
(***************************************************************************)
CONSTANT Scripts   (* what the threads do: sequences of pairs, operation and key *)

VARIABLES
  H,       (* the cells, each a status and a key                            *)
  script,  (* the calls a thread has still to return from                   *)
  status,  (* what the thread has read of its cell                          *)
  count,   (* the cells it has passed                                       *)
  balance  (* for each key the insertions less the removals that succeeded  *)

map_vars == << hash, H, script, at, i, status, count, balance >>

Call(t) == Head(script[t])
Key(t) == Call(t)[2]

MapInit ==
  /\ hash \in Hashes
  /\ script \in Scripts
  /\ H = [ cell \in Cells |-> [ status |-> "empty", key |-> Empty ] ]
  /\ at = [ t \in Threads |-> "idle" ]
  /\ i = [ t \in Threads |-> 0 ]
  /\ status = [ t \in Threads |-> "empty" ]
  /\ count = [ t \in Threads |-> 0 ]
  /\ balance = [ k \in Keys |-> 0 ]

BeginCall(t) ==
  /\ script[t] # << >>
  /\ Goto(t, "idle", Call(t)[1])
  /\ i' = Set(i, t, firstIndex(Key(t)))
  /\ count' = Set(count, t, 0)
  /\ UNCHANGED << hash, H, script, status, balance >>

EndCall(t) ==
  /\ at' = Set(at, t, "idle")
  /\ script' = Set(script, t, Tail(script[t]))

Pass(t) ==
  /\ i' = Set(i, t, incrementIndex(i[t]))
  /\ UNCHANGED << at, script >>

(* insert looks at a cell: it waits for one that is locked, and passes one *)
(* that another key has, min(1000, m) of them at most.                     *)
LookToInsert(t) ==
  LET cell == H[i[t]] IN
  /\ at[t] = "insert"
  /\ status' = Set(status, t, cell.status)
  /\ \/ cell.status = "locked" /\ UNCHANGED << at, script, i, count >>
     \/ /\ cell.status \in {"full", "tomb"} /\ cell.key # Key(t)
        /\ IF count[t] = m THEN EndCall(t) /\ UNCHANGED i ELSE Pass(t)
        /\ count' = Set(count, t, count[t] + 1)
     \/ /\ cell.status = "full" /\ cell.key = Key(t)
        /\ EndCall(t) /\ UNCHANGED << i, count >>
     \/ /\ cell.status = "empty" \/ (cell.status = "tomb" /\ cell.key = Key(t))
        /\ Goto(t, "insert", "lock") /\ UNCHANGED << script, i, count >>
  /\ UNCHANGED << hash, H, balance >>

(* The compare-and-swap of an empty cell, or of the one the key had.       *)
Lock(t) ==
  /\ IF H[i[t]].status = status[t]
     THEN H' = [ H EXCEPT ![i[t]].status = "locked" ] /\ Goto(t, "lock", "write")
     ELSE UNCHANGED H /\ Goto(t, "lock", "insert")
  /\ UNCHANGED << hash, script, i, status, count, balance >>

Write(t) ==
  /\ at[t] = "write"
  /\ H' = [ H EXCEPT ![i[t]] = [ status |-> "full", key |-> Key(t) ] ]
  /\ balance' = [ balance EXCEPT ![Key(t)] = @ + 1 ]
  /\ EndCall(t)
  /\ UNCHANGED << hash, i, status, count >>

(* find ends at any cell that is not full.                                 *)
LookFor(t) ==
  /\ at[t] = "find"
  /\ IF H[i[t]].status # "full" \/ H[i[t]].key = Key(t)
     THEN EndCall(t) /\ UNCHANGED i
     ELSE Pass(t)
  /\ UNCHANGED << hash, H, status, count, balance >>

(* remove ends at an empty or a locked one.                                *)
LookToRemove(t) ==
  LET cell == H[i[t]] IN
  /\ at[t] = "remove"
  /\ \/ cell.status \in {"empty", "locked"} /\ EndCall(t) /\ UNCHANGED i
     \/ /\ cell.status \in {"full", "tomb"} /\ cell.key # Key(t)
        /\ Pass(t)
     \/ /\ cell.status \in {"full", "tomb"} /\ cell.key = Key(t)
        /\ Goto(t, "remove", "bury") /\ UNCHANGED << script, i >>
  /\ UNCHANGED << hash, H, status, count, balance >>

(* The test of the status, and the compare-and-swap: with either the call  *)
(* returns nothing if the cell is not full any more.                       *)
Bury(t) ==
  /\ at[t] = "bury"
  /\ EndCall(t)
  /\ IF H[i[t]].status = "full"
     THEN /\ H' = [ H EXCEPT ![i[t]].status = "tomb" ]
          /\ balance' = [ balance EXCEPT ![Key(t)] = @ - 1 ]
     ELSE UNCHANGED << H, balance >>
  /\ UNCHANGED << hash, i, status, count >>

MapQuiet == \A t \in Threads : script[t] = << >>

MapNext ==
  \/ \E t \in Threads : \/ BeginCall(t) \/ LookToInsert(t) \/ Lock(t) \/ Write(t)
                        \/ LookFor(t) \/ LookToRemove(t) \/ Bury(t)
  \/ MapQuiet /\ UNCHANGED map_vars

keys == { H[cell].key : cell \in { h \in Cells : H[h].status = "full" } }

(* A cell is given to the key that has locked it or that is written in it: *)
(* to one key, once and for all, and a key gets no second cell, though     *)
(* calls for it race and its cell is a tomb between them.                  *)
OneCell ==
  LET has(k) == { h \in Cells : \/ H[h].status \in {"full", "tomb"} /\ H[h].key = k
                                \/ \E t \in Threads : at[t] = "write" /\ i[t] = h /\ Key(t) = k }
  IN  /\ \A k \in Keys : Cardinality(has(k)) <= 1
      /\ \A k1, k2 \in Keys : k1 # k2 => has(k1) \cap has(k2) = {}
      /\ \A k \in Keys : \A h \in has(k) : \A d \in Cells :
            (d < (h + m - firstIndex(k)) % m) => H[(firstIndex(k) + d) % m].status # "empty"

(* A key is inserted and removed in turn: its insertions exceed its        *)
(* removals by one while it is in the map and by none while it is not.     *)
Balanced == \A k \in Keys : balance[k] = IF k \in keys THEN 1 ELSE 0

=============================================================================
