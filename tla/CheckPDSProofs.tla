--------------------------- MODULE CheckPDSProofs ---------------------------
(***************************************************************************)
(* Proofs about the checker and about reading tables.  CheckPDS, for every *)
(* group table, all parameters and any file of results: when the lists are *)
(* such as the searches print, k distinct elements other than the          *)
(* identity, the checker vouches only for regular partial difference sets, *)
(* and turns away only others.  Tables, for tables of any order, any       *)
(* number of readers and files whole or cut short: what is read is the     *)
(* reader's own table, or not the table of a group.                        *)
(***************************************************************************)
EXTENDS MCCheckPDS, PDSProblemProofs, SequenceTheorems

(* The lists the searches print.                                           *)
ListsPrinted == Lists \subseteq Candidate

(* On such a list is_pds decides the definition with inverses.             *)
THEOREM IsPdsDecides ==
  ASSUME NEW s \in Candidate
  PROVE  is_pds(s) <=> IsRegularPDS(Entries(s))
<1>1. DOMAIN s = Idx /\ Entries(s) = Members(s)
  BY DEF Candidate, Entries, Members
<1>2. Sums(s) = SumsOf(s)
  BY <1>1 DEF Sums, SumsOf, PairsTo
<1>3. Cardinality(Entries(s)) = k
  BY <1>1, MembersCount
<1>4. \A x \in Elem : MemberOf(s)[x] <=> x \in Entries(s)
  BY <1>1 DEF MemberOf, Members
<1>5. /\ 0 \in Elem
      /\ \A x : x \in Elem <=> x = 0 \/ x \in 1..(n-1)
      /\ 0 \notin 1..(n-1)
  BY ElemParts DEF NonId
<1>6. is_pds(s) <=> Balanced(MemberOf(s), SumsOf(s))
  BY <1>2, <1>3, <1>4, <1>5 DEF is_pds, Balanced, Target
<1> QED  BY <1>1, <1>6, BalancedIffPDS

-----------------------------------------------------------------------------
(* What is known of the line at hand, and of those dealt with.             *)
AtHand ==
  /\ pc \in {"table", "check"} => data[i+1].v = data[i+1].order
  /\ pc = "check" => heading[data[i+1].gid] = << n, data[i+1].gid >>

Ending ==
  /\ pc # "over" => status = 0
  /\ pc = "over" /\ status = 0 => i = Len(data)
  /\ pc = "over" /\ status = 10 =>
       i < Len(data) /\ ~IsRegularPDS(Entries(data[i+1].pds))

Inv ==
  /\ TypeOK
  /\ AtHand
  /\ Ending
  /\ \A j \in 1..i : HasSet(data[j]) => Sound(data[j])

(* Lines, and the sequence of them.                                        *)
LEMMA DataType ==
  ASSUME TypeOK
  PROVE  /\ Len(data) \in Nat
         /\ \A j \in 1..Len(data) : data[j] \in Line
<1>1. PICK l \in 0..MaxLines : data \in [1..l -> Line]
  BY DEF TypeOK
<1>2. l \in Nat
  BY ListsAssumption
<1>3. data \in Seq(Line)
  BY <1>1, <1>2, SeqDef
<1> HIDE DEF Line
<1> QED  BY <1>3, LenProperties, ElementOfSeq

(* A line that holds a set holds one of Lists.                             *)
LEMMA LineWithSet ==
  ASSUME NEW a \in Line, HasSet(a)
  PROVE  a.pds \in Lists
<1>1. a # None
  BY DEF HasSet, None
<1>2. PICK s \in Lists, o \in {n, n+1}, g \in Groups : a = Found(s, n, o, g)
  BY <1>1 DEF Line
<1> QED  BY <1>2 DEF Found

(* The invariant holds of any file before the first line is read.          *)
LEMMA InitInv == Init => Inv
<1> SUFFICES ASSUME Init PROVE Inv
  OBVIOUS
<1>1. 0 \in 0..Len(data)
  <2>1. PICK l \in 0..MaxLines : data \in [1..l -> Line]
    BY DEF Init
  <2>2. data \in Seq(Line)
    BY <2>1, ListsAssumption, SeqDef
  <2> QED  BY <2>2, LenProperties
<1> QED  BY <1>1 DEF Init, Inv, TypeOK, AtHand, Ending

(* Every step keeps it.                                                    *)
LEMMA NextInv ==
  ASSUME ListsPrinted, Inv, [Next]_vars
  PROVE  Inv'
<1>1. /\ Len(data) \in Nat /\ i \in 0..Len(data) /\ i \in Nat
      /\ i < Len(data) => i+1 \in 1..Len(data) /\ i+1 \in 0..Len(data)
      /\ \A j \in 1..(i+1) : j \in 1..i \/ j = i+1
  BY DataType DEF Inv, TypeOK
<1>2. i < Len(data) /\ HasSet(data[i+1]) =>
        (is_pds(data[i+1].pds) <=> IsRegularPDS(Entries(data[i+1].pds)))
  BY <1>1, DataType, LineWithSet, IsPdsDecides DEF Inv, ListsPrinted
<1>3. CASE Skip
  BY <1>1, <1>3 DEF Skip, Inv, TypeOK, AtHand, Ending, Sound
<1>9. ASSUME UNCHANGED << data, heading, i >>, Exit(3) \/ Exit(17)
      PROVE  Inv'
  <2>1. TypeOK'
    BY <1>9 DEF Exit, Inv, TypeOK
  <2>2. AtHand' /\ Ending'
    BY <1>9 DEF Exit, AtHand, Ending
  <2> QED  BY <1>9, <2>1, <2>2 DEF Inv, Sound
<1>4. CASE Parameters
  <2>1. CASE data[i+1].v = data[i+1].order
    BY <1>1, <1>4, <2>1 DEF Parameters, Inv, TypeOK, AtHand, Ending, Sound
  <2> QED  BY <1>4, <1>9, <2>1 DEF Parameters
<1>5. CASE ReadTable
  <2>1. CASE heading[data[i+1].gid] = << n, data[i+1].gid >>
    BY <1>1, <1>5, <2>1 DEF ReadTable, Inv, TypeOK, AtHand, Ending, Sound
  <2> QED  BY <1>5, <1>9, <2>1 DEF ReadTable
<1>6. CASE Check
  <2>1. i < Len(data) /\ HasSet(data[i+1])
    BY <1>6 DEF Check, Inv, TypeOK
  <2>2. CASE is_pds(data[i+1].pds)
    <3>1. Sound(data[i+1])
      BY <1>2, <1>6, <2>1, <2>2 DEF Check, Inv, AtHand, Sound
    <3> QED  BY <1>1, <1>6, <2>1, <2>2, <3>1
              DEF Check, Inv, TypeOK, AtHand, Ending, Sound
  <2>3. CASE ~is_pds(data[i+1].pds)
    BY <1>1, <1>2, <1>6, <2>1, <2>3
       DEF Check, Exit, Inv, TypeOK, AtHand, Ending, Sound
  <2> QED  BY <2>2, <2>3
<1>7. CASE End
  BY <1>1, <1>7 DEF End, Exit, Inv, TypeOK, AtHand, Ending, Sound
<1>8. CASE UNCHANGED vars
  BY <1>8 DEF vars, Inv, TypeOK, AtHand, Ending, Sound
<1> QED  BY <1>3, <1>4, <1>5, <1>6, <1>7, <1>8 DEF Next

(* Whatever the file holds of printed lists, the invariant holds.          *)
THEOREM Invariance == ASSUME ListsPrinted PROVE Spec => []Inv
<1>1. Inv /\ [Next]_vars => Inv'
  BY NextInv
<1> QED  BY <1>1, InitInv, PTL DEF Spec

(* The checker takes its lines in order and leaves with one of its codes.  *)
THEOREM TypeCorrect == ASSUME ListsPrinted PROVE Spec => []TypeOK
<1>1. Inv => TypeOK
  BY DEF Inv
<1> QED  BY <1>1, Invariance, PTL

(* A file it reaches the end of holds only regular partial difference sets.*)
THEOREM VouchedForIsPDS == ASSUME ListsPrinted PROVE Spec => []Vouches
<1>1. Inv => Vouches
  BY DataType DEF Inv, Ending, Vouches
<1> QED  BY <1>1, Invariance, PTL

(* What it turns away is not one.                                          *)
THEOREM RefusedIsNot == ASSUME ListsPrinted PROVE Spec => []Refuses
<1>1. Inv => Refuses
  BY DEF Inv, Ending, Refuses
<1> QED  BY <1>1, Invariance, PTL

-----------------------------------------------------------------------------
(* Tables.  The p-th entry that a reader takes, when its file has some: of *)
(* those the file has, or the last again.                                  *)
Nth(r, p) == given[r][2 + (IF p < EntriesGiven(r) THEN p ELSE EntriesGiven(r))]

(* How many numbers a reader has asked for.                                *)
Asked(r) == headed[r] + n_read * row[r] + col[r]

(* The cells of the table written so far.                                  *)
Written(r, x, y) == x < row[r] \/ (x = row[r] /\ y < col[r])

ReadTypes ==
  /\ given \in [Readers -> Files] /\ g_file \in [Readers -> Seq(Nat)]
  /\ headed \in [Readers -> 0..2]
  /\ row \in [Readers -> 0..n_read] /\ col \in [Readers -> Dom]
  /\ temp \in [Readers -> Nat \cup {Unset}]
  /\ ct_read \in [Readers -> [Dom -> [Dom -> Int]]]
  /\ \A r \in Readers : headed[r] < 2 => row[r] = 0 /\ col[r] = 0
  /\ \A r \in Readers : row[r] = n_read => col[r] = 0

(* A reader has before it what its file held, less what it asked for.      *)
RestInv ==
  \A r \in Readers :
    /\ Asked(r) <= Len(given[r]) => Len(g_file[r]) = Len(given[r]) - Asked(r)
    /\ Asked(r) >= Len(given[r]) => g_file[r] = << >>
    /\ \A x \in DOMAIN g_file[r] : g_file[r][x] = given[r][Asked(r) + x]

(* What it has taken is in temp and in the table.                          *)
TakenInv ==
  \A r \in Readers : EntriesGiven(r) >= 1 =>
    /\ Asked(r) > 2 => temp[r] = Nth(r, Asked(r) - 2)
    /\ \A x, y \in Dom : Written(r, x, y) =>
         ct_read[r][x][y] = Nth(r, n_read * x + y + 1) - 1

ReadInv == ReadTypes /\ RestInv /\ TakenInv

(* Products, in the order the cells are read in.                           *)
LEMMA Products ==
  ASSUME NEW x \in Dom, NEW y \in Dom
  PROVE  /\ n_read \in Nat /\ n_read >= 1
         /\ n_read * x \in Nat
         /\ n_read * x + y + 1 \in 1..(n_read * n_read)
         /\ n_read * (x + 1) = n_read * x + n_read
<1>1. n_read \in Nat /\ n_read >= 1 /\ x \in Nat /\ y \in Nat /\ y + 1 <= n_read
  BY FilesAssumption DEF Dom
<1>2. PICK d \in Nat : n_read = x + 1 + d
  <2>1. n_read - x - 1 \in Nat /\ n_read = x + 1 + (n_read - x - 1)  BY FilesAssumption DEF Dom
  <2> QED  BY <2>1
<1>3. n_read * n_read = n_read * x + n_read + n_read * d
  BY <1>1, <1>2
<1>4. n_read * x \in Nat /\ n_read * d \in Nat  BY <1>1, <1>2
<1> QED  BY <1>1, <1>3, <1>4

(* The numbers asked for.                                                  *)
LEMMA AskedNat ==
  ASSUME ReadTypes, NEW r \in Readers
  PROVE  /\ headed[r] \in 0..2 /\ row[r] \in Nat /\ col[r] \in Nat
         /\ n_read * row[r] \in Nat
         /\ Asked(r) \in Nat
         /\ headed[r] < 2 => Asked(r) = headed[r]
         /\ Len(given[r]) \in Nat /\ given[r] \in Seq(Nat)
<1>1. n_read \in Nat /\ given[r] \in Seq(Nat)  BY FilesAssumption DEF ReadTypes
<1>2. headed[r] \in 0..2 /\ row[r] \in Nat /\ col[r] \in Nat  BY <1>1 DEF ReadTypes, Dom
<1>3. n_read * row[r] \in Nat  BY <1>1, <1>2
<1>4. row[r] = 0 => n_read * row[r] = 0  BY <1>1
<1>5. headed[r] < 2 => row[r] = 0 /\ col[r] = 0  BY DEF ReadTypes
<1> DEFINE before == n_read * row[r]
<1>6. Asked(r) = headed[r] + before + col[r] /\ before \in Nat
  BY <1>3 DEF Asked
<1>7. headed[r] < 2 => before = 0 /\ col[r] = 0  BY <1>4, <1>5
<1> HIDE DEF before
<1>8. Asked(r) \in Nat /\ (headed[r] < 2 => Asked(r) = headed[r])
  BY <1>2, <1>6, <1>7
<1> QED  BY <1>1, <1>2, <1>3, <1>8

(* Taking a number, if there is one, keeps what is left in step.           *)
LEMMA TakingOne ==
  ASSUME ReadTypes, RestInv, NEW r \in Readers,
         Asked(r)' = Asked(r) + 1, \A u \in Readers \ {r} : Asked(u)' = Asked(u),
         g_file' = [ g_file EXCEPT ![r] = Rest(r) ], given' = given
  PROVE  RestInv' /\ g_file' \in [Readers -> Seq(Nat)]
<1>1. ASSUME NEW u \in Readers, u # r
      PROVE  g_file'[u] = g_file[u] /\ Asked(u)' = Asked(u)
  BY <1>1 DEF ReadTypes
<1>2. g_file'[r] = Rest(r) /\ g_file[r] \in Seq(Nat)  BY DEF ReadTypes
<1>3. Asked(r) \in Nat /\ Len(given[r]) \in Nat  BY AskedNat
<1>4. Rest(r) \in Seq(Nat)  BY <1>2 DEF Rest
<1>5. /\ Asked(r) + 1 <= Len(given[r]) => Len(Rest(r)) = Len(given[r]) - (Asked(r) + 1)
      /\ Asked(r) + 1 >= Len(given[r]) => Rest(r) = << >>
      /\ \A x \in DOMAIN Rest(r) : Rest(r)[x] = given[r][Asked(r) + 1 + x]
  <2>1. CASE g_file[r] = << >>
    <3>1. Rest(r) = << >>  BY <2>1 DEF Rest
    <3>2. Len(g_file[r]) = 0 /\ DOMAIN Rest(r) = {}  BY <2>1, <3>1
    <3>3. Asked(r) <= Len(given[r]) => Len(given[r]) - Asked(r) = 0  BY <3>2 DEF RestInv
    <3> QED  BY <1>3, <3>1, <3>2, <3>3
  <2>2. CASE g_file[r] # << >>
    <3>1. Rest(r) = Tail(g_file[r])  BY <2>2 DEF Rest
    <3>2. Len(g_file[r]) \in Nat /\ Len(g_file[r]) > 0  BY <1>2, <2>2
    <3>3. Asked(r) < Len(given[r])  BY <1>3, <2>2 DEF RestInv
    <3>4. Len(g_file[r]) = Len(given[r]) - Asked(r)  BY <1>3, <3>3 DEF RestInv
    <3>5. /\ Len(Rest(r)) = Len(given[r]) - (Asked(r) + 1)
          /\ DOMAIN Rest(r) = 1..Len(Rest(r))
          /\ \A x \in DOMAIN Rest(r) : Rest(r)[x] = g_file[r][x + 1]
      <4>1. /\ Tail(g_file[r]) \in Seq(Nat)
            /\ Len(Tail(g_file[r])) = Len(g_file[r]) - 1
            /\ \A x \in 1..(Len(g_file[r]) - 1) : Tail(g_file[r])[x] = g_file[r][x + 1]
        BY <1>2, <2>2, HeadTailProperties
      <4>2. Len(g_file[r]) - 1 = Len(given[r]) - (Asked(r) + 1)  BY <1>3, <3>4
      <4> QED  BY <3>1, <4>1, <4>2, LenProperties
    <3>6. ASSUME NEW x \in DOMAIN Rest(r)  PROVE Rest(r)[x] = given[r][Asked(r) + 1 + x]
      <4>1. x \in Nat /\ x + 1 \in DOMAIN g_file[r]  BY <1>2, <1>3, <3>4, <3>5
      <4>2. g_file[r][x + 1] = given[r][Asked(r) + (x + 1)]  BY <4>1 DEF RestInv
      <4>3. Asked(r) + (x + 1) = Asked(r) + 1 + x  BY <1>3, <4>1
      <4> QED  BY <3>5, <4>2, <4>3
    <3>7. Asked(r) + 1 >= Len(given[r]) => Rest(r) = << >>
      BY <1>3, <1>4, <3>3, <3>5
    <3> QED  BY <3>5, <3>6, <3>7
  <2> QED  BY <2>1, <2>2
<1>6. g_file' \in [Readers -> Seq(Nat)]  BY <1>4 DEF ReadTypes
<1> QED  BY <1>1, <1>2, <1>5, <1>6 DEF RestInv

(* What a reader takes while its file lasts.                               *)
LEMMA NextNumber ==
  ASSUME ReadTypes, RestInv, NEW r \in Readers, NEW v
  PROVE  Shift(r, v) = IF Asked(r) < Len(given[r]) THEN given[r][Asked(r) + 1] ELSE v
<1>1. Asked(r) \in Nat /\ Len(given[r]) \in Nat /\ g_file[r] \in Seq(Nat)
  BY AskedNat DEF ReadTypes
<1>2. CASE Asked(r) < Len(given[r])
  <2>1. Len(g_file[r]) > 0  BY <1>1, <1>2 DEF RestInv
  <2>2. g_file[r] # << >> /\ 1 \in DOMAIN g_file[r] /\ Head(g_file[r]) = g_file[r][1]
    BY <1>1, <2>1
  <2>3. g_file[r][1] = given[r][Asked(r) + 1]  BY <2>2 DEF RestInv
  <2> QED  BY <1>2, <2>2, <2>3 DEF Shift
<1>3. CASE ~(Asked(r) < Len(given[r]))
  BY <1>1, <1>3 DEF RestInv, Shift
<1> QED  BY <1>2, <1>3

(* Before anything is read.                                                *)
LEMMA ReadInitInv == ReadInit => ReadInv
<1> SUFFICES ASSUME ReadInit PROVE ReadInv
  OBVIOUS
<1>1. n_read \in Nat /\ n_read >= 1 /\ Files \subseteq Seq(Nat) /\ n_read * 0 = 0
  BY FilesAssumption
<1>2. ReadTypes  BY <1>1 DEF ReadInit, ReadTypes, Dom
<1>3. \A r \in Readers : Asked(r) = 0  BY <1>1, <1>2, AskedNat DEF ReadInit
<1>4. ASSUME NEW r \in Readers
      PROVE  /\ given[r] \in Seq(Nat) /\ g_file[r] = given[r]
             /\ \A x \in DOMAIN g_file[r] : x \in Nat
  BY <1>1, <1>2, LenProperties DEF ReadInit, ReadTypes
<1>5. RestInv  BY <1>3, <1>4 DEF RestInv
<1>6. \A r \in Readers : \A x, y \in Dom : ~Written(r, x, y)
  BY <1>1 DEF ReadInit, Written, Dom
<1> QED  BY <1>2, <1>3, <1>5, <1>6 DEF ReadInv, TakenInv

(* The heading is passed over, whoever else writes t1 and t2.              *)
LEMMA HeadingStep ==
  ASSUME ReadInv, NEW r \in Readers, ReadHeading(r)
  PROVE  ReadInv'
<1>1. n_read \in Nat /\ n_read >= 1  BY FilesAssumption
<1>2. ReadTypes /\ RestInv /\ TakenInv  BY DEF ReadInv
<1>3. \A u \in Readers \ {r} : Asked(u)' = Asked(u)
  BY <1>2 DEF ReadHeading, Asked, ReadTypes
<1>4. Asked(r)' = Asked(r) + 1 /\ Asked(r) = headed[r] /\ headed[r] \in {0, 1}
  <2>1. headed'[r] = headed[r] + 1 /\ headed[r] \in {0, 1} /\ Asked(r) = headed[r]
    BY <1>2, AskedNat DEF ReadHeading, ReadTypes
  <2>2. row[r] = 0 /\ col[r] = 0 /\ n_read * 0 = 0  BY <1>1, <1>2, <2>1 DEF ReadTypes
  <2> QED  BY <2>1, <2>2 DEF ReadHeading, Asked
<1>5. RestInv' /\ g_file' \in [Readers -> Seq(Nat)]
  BY <1>2, <1>3, <1>4, TakingOne DEF ReadHeading
<1>6. ReadTypes'  BY <1>2, <1>4, <1>5 DEF ReadHeading, ReadTypes
<1>7. TakenInv'
  <2>1. \A u \in Readers : Asked(u)' = Asked(u) \/ Asked(u)' \in {1, 2}  BY <1>3, <1>4
  <2> QED  BY <1>2, <2>1 DEF TakenInv, EntriesGiven, Nth, Written, ReadHeading
<1> QED  BY <1>5, <1>6, <1>7 DEF ReadInv

(* The cells behind the reader hold what it has taken for them.            *)
LEMMA EntryStep ==
  ASSUME ReadInv, NEW r \in Readers, ReadEntry(r)
  PROVE  ReadInv'
<1>1. n_read \in Nat /\ n_read >= 1 /\ Junk \subseteq Int /\ Unset \notin Int
  BY FilesAssumption
<1>2. ReadTypes /\ RestInv /\ TakenInv  BY DEF ReadInv
<1>3. row[r] \in Dom /\ col[r] \in Dom /\ headed[r] = 2
  BY <1>1, <1>2 DEF ReadEntry, ReadTypes, Dom
<1>t. row \in [Readers -> 0..n_read] /\ col \in [Readers -> Dom]  BY <1>2 DEF ReadTypes
<1> DEFINE at == n_read * row[r]
           nth == at + col[r] + 1
<1>4. at \in Nat /\ nth \in 1..(n_read * n_read) /\ n_read * (row[r] + 1) = at + n_read
  BY <1>3, Products
<1>5. Asked(r) = 2 + at + col[r]  BY <1>3 DEF Asked
<1>6. \A u \in Readers \ {r} :
        /\ Asked(u)' = Asked(u) /\ row'[u] = row[u] /\ col'[u] = col[u]
        /\ temp'[u] = temp[u] /\ ct_read'[u] = ct_read[u]
  BY <1>2 DEF ReadEntry, Asked, ReadTypes
<1>7. /\ Asked(r)' = Asked(r) + 1
      /\ row'[r] \in 0..n_read /\ col'[r] \in Dom /\ (row'[r] = n_read => col'[r] = 0)
      /\ row' \in [Readers -> 0..n_read] /\ col' \in [Readers -> Dom]
      /\ \A x, y \in Dom : Written(r, x, y)' => Written(r, x, y) \/ (x = row[r] /\ y = col[r])
  <2>0. headed' = headed  BY DEF ReadEntry
  <2>1. CASE col[r] + 1 < n_read
    <3>1. col' = [ col EXCEPT ![r] = @ + 1 ] /\ row' = row  BY <2>1 DEF ReadEntry, Bound
    <3>2. col'[r] = col[r] + 1 /\ row'[r] = row[r] /\ col'[r] \in Dom
      <4>1. col'[r] = col[r] + 1 /\ row'[r] = row[r]  BY <1>t, <3>1
      <4>2. col[r] \in Nat  BY <1>1, <1>3 DEF Dom
      <4> QED  BY <1>1, <2>1, <4>1, <4>2 DEF Dom
    <3>3. Asked(r)' = 2 + at + (col[r] + 1)  BY <1>3, <2>0, <3>2 DEF Asked
    <3>4. col' \in [Readers -> Dom] /\ row' \in [Readers -> 0..n_read]
      BY <1>2, <3>1, <3>2 DEF ReadTypes
    <3>5. \A x, y \in Dom : Written(r, x, y)' => Written(r, x, y) \/ (x = row[r] /\ y = col[r])
      BY <1>1, <1>3, <3>2 DEF Written, Dom
    <3>6. row'[r] # n_read  BY <1>1, <1>3, <3>2 DEF Dom
    <3> HIDE DEF at
    <3> QED  BY <1>3, <1>4, <1>5, <3>2, <3>3, <3>4, <3>5, <3>6 DEF Dom
  <2>2. CASE ~(col[r] + 1 < n_read)
    <3>1. row' = [ row EXCEPT ![r] = @ + 1 ] /\ col' = [ col EXCEPT ![r] = 0 ]
      BY <2>2 DEF ReadEntry, Bound
    <3>2. col'[r] = 0 /\ row'[r] = row[r] + 1 /\ row'[r] \in 0..n_read /\ col'[r] \in Dom
          /\ col[r] = n_read - 1
      <4>1. col'[r] = 0 /\ row'[r] = row[r] + 1  BY <1>t, <3>1
      <4>2. col[r] \in Nat /\ col[r] <= n_read - 1 /\ row[r] \in Nat /\ row[r] <= n_read - 1
        BY <1>1, <1>3 DEF Dom
      <4> QED  BY <1>1, <2>2, <4>1, <4>2 DEF Dom
    <3>3. Asked(r)' = 2 + (at + n_read) + 0  BY <1>3, <1>4, <2>0, <3>2 DEF Asked
    <3>4. col' \in [Readers -> Dom] /\ row' \in [Readers -> 0..n_read]
      BY <1>2, <3>1, <3>2 DEF ReadTypes
    <3>5. \A x, y \in Dom : Written(r, x, y)' => Written(r, x, y) \/ (x = row[r] /\ y = col[r])
      BY <1>1, <1>3, <3>2 DEF Written, Dom
    <3> HIDE DEF at
    <3> QED  BY <1>1, <1>3, <1>4, <1>5, <3>2, <3>3, <3>4, <3>5 DEF Dom
  <2> QED  BY <2>1, <2>2
<1>8. RestInv' /\ g_file' \in [Readers -> Seq(Nat)]
  BY <1>2, <1>6, <1>7, TakingOne DEF ReadEntry
<1>9. temp'[r] = Shift(r, temp[r]) /\ temp' \in [Readers -> Nat \cup {Unset}]
  <2>1. Shift(r, temp[r]) \in Nat \cup {Unset}  BY <1>2 DEF Shift, ReadTypes
  <2> QED  BY <1>2, <2>1 DEF ReadEntry, ReadTypes
<1>10. PICK v \in IF temp'[r] = Unset THEN Junk ELSE {temp'[r]} :
         ct_read' = [ ct_read EXCEPT ![r][row[r]][col[r]] = v - 1 ]
  BY DEF ReadEntry
<1>11. v \in Int  BY <1>1, <1>9, <1>10
<1>12. /\ ct_read' \in [Readers -> [Dom -> [Dom -> Int]]]
       /\ ct_read'[r][row[r]][col[r]] = v - 1
       /\ \A x, y \in Dom : ~(x = row[r] /\ y = col[r]) => ct_read'[r][x][y] = ct_read[r][x][y]
  BY <1>2, <1>3, <1>10, <1>11 DEF ReadTypes
<1>13. ReadTypes'
  <2>1. given' = given /\ headed' = headed  BY DEF ReadEntry
  <2>2. given' \in [Readers -> Files] /\ headed' \in [Readers -> 0..2]
    BY <1>2, <2>1 DEF ReadTypes
  <2>3. \A u \in Readers : headed'[u] < 2 => row'[u] = 0 /\ col'[u] = 0
    <3>1. \A u \in Readers : headed[u] < 2 => row[u] = 0 /\ col[u] = 0  BY <1>2 DEF ReadTypes
    <3>2. ASSUME NEW u \in Readers, headed[u] < 2  PROVE u # r  BY <1>3, <3>2
    <3> QED  BY <1>6, <2>1, <3>1, <3>2
  <2>4. \A u \in Readers : row'[u] = n_read => col'[u] = 0
    BY <1>2, <1>6, <1>7 DEF ReadTypes
  <2> QED  BY <1>7, <1>8, <1>9, <1>12, <2>2, <2>3, <2>4 DEF ReadTypes
<1>14. ASSUME EntriesGiven(r) >= 1  PROVE temp'[r] = Nth(r, nth)
  <2>1. Len(given[r]) \in Nat /\ Len(given[r]) >= 3 /\ Asked(r) \in Nat /\ Asked(r) = nth + 1
    <3>1. Len(given[r]) \in Nat /\ Asked(r) \in Nat  BY <1>2, AskedNat
    <3>2. col[r] \in Nat  BY <1>1, <1>3 DEF Dom
    <3> HIDE DEF at
    <3> QED  BY <1>4, <1>5, <1>14, <3>1, <3>2 DEF EntriesGiven
  <2>2. nth \in Nat /\ EntriesGiven(r) = Len(given[r]) - 2  BY <1>4 DEF EntriesGiven
  <2>3. temp'[r] = IF Asked(r) < Len(given[r]) THEN given[r][Asked(r) + 1] ELSE temp[r]
    BY <1>2, <1>9, NextNumber
  <2> HIDE DEF nth
  <2>4. CASE Asked(r) < Len(given[r])
    <3>1. (IF nth < EntriesGiven(r) THEN nth ELSE EntriesGiven(r)) = nth /\ Asked(r) + 1 = 2 + nth
      BY <2>1, <2>2, <2>4
    <3> QED  BY <2>3, <2>4, <3>1 DEF Nth
  <2>5. CASE ~(Asked(r) < Len(given[r]))
    <3>1. temp[r] = Nth(r, Asked(r) - 2)  BY <1>2, <1>14, <2>1, <2>5 DEF TakenInv
    <3>2. /\ (IF nth < EntriesGiven(r) THEN nth ELSE EntriesGiven(r)) = EntriesGiven(r)
          /\ (IF Asked(r) - 2 < EntriesGiven(r) THEN Asked(r) - 2 ELSE EntriesGiven(r))
                = EntriesGiven(r)
      BY <2>1, <2>2, <2>5
    <3> QED  BY <2>3, <2>5, <3>1, <3>2 DEF Nth
  <2> QED  BY <2>4, <2>5
<1>15. TakenInv'
  <2>1. SUFFICES ASSUME NEW u \in Readers, (EntriesGiven(u) >= 1)'
                 PROVE  ( /\ Asked(u) > 2 => temp[u] = Nth(u, Asked(u) - 2)
                          /\ \A x, y \in Dom : Written(u, x, y) =>
                               ct_read[u][x][y] = Nth(u, n_read * x + y + 1) - 1 )'
    BY DEF TakenInv
  <2>2. given' = given  BY DEF ReadEntry
  <2>3. EntriesGiven(u) >= 1 /\ EntriesGiven(u)' = EntriesGiven(u)
    BY <2>1, <2>2 DEF EntriesGiven
  <2>4. CASE u # r
    BY <1>2, <1>6, <2>2, <2>3, <2>4 DEF TakenInv, Written, Nth
  <2>5. CASE u = r
    <3>1. Asked(r)' - 2 = nth
      <4>1. col[r] \in Nat  BY <1>3 DEF Dom
      <4> HIDE DEF at
      <4> QED  BY <1>4, <1>5, <1>7, <4>1
    <3>2. temp'[r] = Nth(r, nth)  BY <1>14, <2>3, <2>5
    <3>3. v = temp'[r]
      <4>1. given[r] \in Seq(Nat) /\ Len(given[r]) \in Nat  BY <1>2, AskedNat
      <4>2. 2 + (IF nth < EntriesGiven(r) THEN nth ELSE EntriesGiven(r)) \in 1..Len(given[r])
        <5>1. nth \in Nat /\ nth >= 1  BY <1>4
        <5> HIDE DEF nth
        <5> QED  BY <2>3, <2>5, <4>1, <5>1 DEF EntriesGiven
      <4>3. Nth(r, nth) \in Nat  BY <4>1, <4>2, ElementOfSeq DEF Nth
      <4> QED  BY <1>1, <1>10, <3>2, <4>3
    <3>4. ASSUME NEW x \in Dom, NEW y \in Dom, Written(r, x, y)'
          PROVE  ct_read'[r][x][y] = Nth(r, n_read * x + y + 1) - 1
      <4>1. CASE x = row[r] /\ y = col[r]
        BY <1>12, <3>2, <3>3, <4>1
      <4>2. CASE ~(x = row[r] /\ y = col[r])
        BY <1>2, <1>7, <1>12, <2>3, <2>5, <3>4, <4>2 DEF TakenInv
      <4> QED  BY <4>1, <4>2
    <3> QED  BY <2>2, <2>3, <2>5, <3>1, <3>2, <3>4 DEF Nth
  <2> QED  BY <2>4, <2>5
<1> QED  BY <1>8, <1>13, <1>15 DEF ReadInv

(* However the readers take turns, each knows what it has read.            *)
LEMMA ReadInvariance ==
  ReadInit /\ [][ReadNext]_vars_read => []ReadInv
<1>1. ReadInv /\ [ReadNext]_vars_read => ReadInv'
  <2>1. ASSUME ReadInv, UNCHANGED vars_read  PROVE ReadInv'
    BY <2>1 DEF vars_read, ReadInv, ReadTypes, RestInv, TakenInv, Asked, Nth, Written, EntriesGiven
  <2> QED  BY <2>1, HeadingStep, EntryStep DEF ReadNext
<1> QED  BY <1>1, ReadInitInv, PTL

(* A whole file is read as it is.                                          *)
LEMMA WholeRead == ReadInv => OwnTable
<1> SUFFICES ASSUME ReadInv, NEW r \in Readers, ReadDone(r), Whole(r), NEW x \in Dom, NEW y \in Dom
             PROVE  ct_read[r][x][y] = given[r][2 + n_read * x + y + 1] - 1
  BY DEF OwnTable
<1>1. Written(r, x, y)  BY FilesAssumption DEF ReadDone, Written, Dom
<1> DEFINE nth == n_read * x + y + 1
           all2 == n_read * n_read
<1>2. nth \in 1..all2 /\ all2 \in Nat /\ n_read * x \in Nat /\ y \in Nat
  BY Products, FilesAssumption DEF Dom
<1>3. EntriesGiven(r) = all2
  <2>1. Len(given[r]) = all2 + 2  BY DEF Whole
  <2> HIDE DEF all2
  <2> QED  BY <1>2, <2>1 DEF EntriesGiven
<1>4. 2 + n_read * x + y + 1 = 2 + nth  BY <1>2
<1>5. all2 >= 1  BY <1>2
<1>6. ct_read[r][x][y] = Nth(r, nth) - 1  BY <1>1, <1>3, <1>5 DEF ReadInv, TakenInv
<1> HIDE DEF all2, nth
<1>7. (IF nth < EntriesGiven(r) THEN nth ELSE EntriesGiven(r)) = nth  BY <1>2, <1>3
<1> QED  BY <1>4, <1>6, <1>7 DEF Nth

(* Of a file cut short the last two cells are the same, which no group's   *)
(* table has.                                                              *)
LEMMA CutRead == ReadInv => CutShort
<1> DEFINE all2 == n_read * n_read
<1> SUFFICES ASSUME ReadInv, NEW r \in Readers, ReadDone(r), EntriesGiven(r) \in 1..(all2 - 1),
                    given[r][1] = n_read
             PROVE  (\A x, y \in Dom : ct_read[r][x][y] \in Dom) /\ ~Latin(ct_read[r])
  BY DEF CutShort
<1>1. n_read \in Nat /\ n_read >= 1 /\ all2 \in Nat  BY FilesAssumption
<1>2. ASSUME NEW x \in Dom, NEW y \in Dom
      PROVE  ct_read[r][x][y] = Nth(r, n_read * x + y + 1) - 1
  <2>1. Written(r, x, y)  BY <1>1 DEF ReadDone, Written, Dom
  <2> QED  BY <1>1, <2>1 DEF ReadInv, TakenInv
<1>3. ASSUME NEW x \in Dom, NEW y \in Dom  PROVE ct_read[r][x][y] \in Dom
  <2> DEFINE nth == n_read * x + y + 1
             p == 2 + (IF nth < EntriesGiven(r) THEN nth ELSE EntriesGiven(r))
  <2>1. nth \in 1..all2  BY Products
  <2>2. given[r] \in Files /\ given[r] \in Seq(Nat) /\ Len(given[r]) \in Nat
    BY AskedNat DEF ReadInv, ReadTypes
  <2>3. EntriesGiven(r) = Len(given[r]) - 2  BY DEF EntriesGiven
  <2>4. p \in 3..Len(given[r]) /\ given[r] # << >>
    <3> HIDE DEF nth, all2
    <3> QED  BY <1>1, <2>1, <2>2, <2>3
  <2>5. given[r][p] \in 1..n_read  BY <2>2, <2>4, FilesAssumption
  <2>6. ct_read[r][x][y] = given[r][p] - 1  BY <1>2 DEF Nth
  <2> HIDE DEF p
  <2> QED  BY <1>1, <2>5, <2>6 DEF Dom
<1>4. n_read >= 2
  <2>1. n_read = 1 => all2 = 1  OBVIOUS
  <2> QED  BY <1>1, <2>1
<1>5. ct_read[r][n_read - 1][n_read - 2] = ct_read[r][n_read - 1][n_read - 1]
  <2>1. n_read - 1 \in Dom /\ n_read - 2 \in Dom  BY <1>1, <1>4 DEF Dom
  <2> DEFINE a == n_read * (n_read - 1)
  <2>2. a = all2 - n_read  BY <1>1
  <2>3. a + (n_read - 2) + 1 = all2 - 1 /\ a + (n_read - 1) + 1 = all2
    <3> HIDE DEF a, all2
    <3> QED  BY <1>1, <2>2
  <2>4. Nth(r, all2 - 1) = Nth(r, all2)
    <3>1. EntriesGiven(r) \in Nat  BY <1>1
    <3> HIDE DEF all2
    <3> QED  BY <1>1, <3>1 DEF Nth
  <2> QED  BY <1>2, <2>1, <2>3, <2>4
<1>6. ~Latin(ct_read[r])
  <2>1. n_read - 1 \in Dom /\ n_read - 2 \in Dom /\ n_read - 1 # n_read - 2  BY <1>1, <1>4 DEF Dom
  <2> QED  BY <1>5, <2>1 DEF Latin
<1> QED  BY <1>3, <1>6

(* Whatever number of bodies of searchMany reads at a time, with t1 and t2 *)
(* shared: a whole table is read as it stands, each body its own; what     *)
(* comes of one cut short stays within the elements and is no group's.     *)
THEOREM TablesAreRead == MCSpec => []TablesRead
<1>1. MCInit => ReadInit
  BY DEF MCInit, CheckStart, ReadStart, RandomStart, ReadRest
<1>2. [MCNext]_all => [ReadNext]_vars_read
  BY DEF MCNext, CheckMove, ReadMove, RandomMove, all
<1>3. ReadInv => TablesRead  BY WholeRead, CutRead DEF TablesRead
<1> QED  BY <1>1, <1>2, <1>3, ReadInvariance, PTL DEF MCSpec

=============================================================================
