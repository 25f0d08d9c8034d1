------------------------------ MODULE CheckPDS ------------------------------
(***************************************************************************)
(* checkPDS.py: reads the lines the searches have printed, put together    *)
(* and sorted, and checks each set found against the table of its group,   *)
(* recounting all products.  It stops at the first that fails.             *)
(*                                                                         *)
(* One line at a time is modelled, for one parameter tuple (n,k,lam,mu):   *)
(* the line's text is what getParms and get_pds make of it, and a table    *)
(* file is the heading it carries and ct.                                  *)
(***************************************************************************)
EXTENDS PDSProblem, Sequences

CONSTANTS
  Lists,      (* the lists of elements a line may hold, indexed from 0     *)
  Headings,   (* the headings << order, id >> a table file may carry       *)
  MaxLines    (* bound: lines in the file of results                       *)

Groups == { h[2] : h \in Headings }

ASSUME ListsAssumption ==
  /\ Lists \subseteq UNION { [0..(l-1) -> Elem] : l \in 0..n }
  /\ MaxLines \in Nat

(* What a line says: nothing was found, or a set and the group it is in.   *)
(* v is the order in PDS(...), order the one in SmGrp(...).                *)
None == [ pds |-> "None in" ]
Found(s, v, order, gid) == [ pds |-> s, v |-> v, order |-> order, gid |-> gid ]
HasSet(a) == DOMAIN a # {"pds"}

VARIABLES
  data,       (* the lines                                                 *)
  heading,    (* the heading in the table file of each group               *)
  i,          (* lines dealt with                                          *)
  pc,         (* "lines", "table", "check", "over"                         *)
  status      (* of the process once over; Python's own is 0               *)

vars == << data, heading, i, pc, status >>

Line == { None } \cup
        { Found(s, n, o, g) : s \in Lists, o \in {n, n+1}, g \in Groups }

Init ==
  /\ data \in UNION { [1..l -> Line] : l \in 0..MaxLines }
  /\ heading \in [Groups -> Headings]
  /\ i = 0
  /\ pc = "lines"
  /\ status = 0

-----------------------------------------------------------------------------
(* is_pds, with pds a list as the line gives it.                           *)
Entries(pds) == { pds[j] : j \in DOMAIN pds }

Sums(pds) ==
  [ g \in Elem |->
      Cardinality({ p \in (DOMAIN pds) \X (DOMAIN pds) :
                      ct[pds[p[1]]][pds[p[2]]] = g }) ]

(* Mutant: lambda and mu change places.                                    *)
is_pdsSwapped(pds) ==
  /\ Cardinality(Entries(pds)) = k
  /\ Sums(pds)[0] = k
  /\ \A x \in 1..(n-1) : Sums(pds)[x] = IF x \in Entries(pds) THEN mu ELSE lam

is_pds(pds) ==
  /\ Cardinality(Entries(pds)) = k
  /\ Sums(pds)[0] = k
  /\ \A x \in 1..(n-1) : Sums(pds)[x] = IF x \in Entries(pds) THEN lam ELSE mu

Exit(code) == pc' = "over" /\ status' = code

-----------------------------------------------------------------------------
(* A line without a set is passed over.                                    *)
Skip ==
  /\ pc = "lines"
  /\ i < Len(data)
  /\ ~HasSet(data[i+1])
  /\ i' = i + 1
  /\ UNCHANGED << data, heading, pc, status >>

(* The parameters of a line: its two orders must agree.                    *)
Parameters ==
  /\ pc = "lines"
  /\ i < Len(data)
  /\ HasSet(data[i+1])
  /\ IF data[i+1].v # data[i+1].order
     THEN Exit(3)
     ELSE pc' = "table" /\ UNCHANGED status
  /\ UNCHANGED << data, heading, i >>

(* get_ct: the table must be headed by the order and id it is read for.    *)
ReadTable ==
  /\ pc = "table"
  /\ IF heading[data[i+1].gid] # << n, data[i+1].gid >>
     THEN Exit(17)
     ELSE pc' = "check" /\ UNCHANGED status
  /\ UNCHANGED << data, heading, i >>

(* Mutant: a set that fails is reported, and the checker goes on.          *)
CheckOnly ==
  /\ pc = "check"
  /\ pc' = "lines" /\ i' = i + 1
  /\ UNCHANGED << data, heading, status >>

(* Mutant: the next line is taken up without its parameters.               *)
CheckOnward ==
  /\ pc = "check"
  /\ IF is_pds(data[i+1].pds)
     THEN pc' = "table" /\ i' = i + 1 /\ UNCHANGED status
     ELSE Exit(10) /\ UNCHANGED i
  /\ UNCHANGED << data, heading >>

Check ==
  /\ pc = "check"
  /\ IF is_pds(data[i+1].pds)
     THEN pc' = "lines" /\ i' = i + 1 /\ UNCHANGED status
     ELSE Exit(10) /\ UNCHANGED i
  /\ UNCHANGED << data, heading >>

(* The end of the file.                                                    *)
End ==
  /\ pc = "lines"
  /\ i = Len(data)
  /\ Exit(0)
  /\ UNCHANGED << data, heading, i >>

Next ==
  \/ Skip \/ Parameters \/ ReadTable \/ Check \/ End
  \/ pc = "over" /\ UNCHANGED vars

Spec == Init /\ [][Next]_vars
-----------------------------------------------------------------------------
(* The types of all variables.                                             *)
TypeOK ==
  /\ data \in UNION { [1..l -> Line] : l \in 0..MaxLines }
  /\ heading \in [Groups -> Headings]
  /\ i \in 0..Len(data)
  /\ pc \in {"lines", "table", "check", "over"}
  /\ status \in {0, 3, 10, 17}
  /\ pc \in {"table", "check"} => i < Len(data) /\ HasSet(data[i+1])

Sound(a) ==
  /\ a.v = a.order
  /\ heading[a.gid] = << n, a.gid >>
  /\ IsRegularPDS(Entries(a.pds))

(* "a group ring check to determine whether a set is a regular pds": a     *)
(* file the checker reaches the end of holds nothing but such sets, each   *)
(* checked in the group its line names; no line slips through.             *)
Vouches ==
  pc = "over" /\ status = 0 =>
    \A j \in 1..Len(data) : HasSet(data[j]) => Sound(data[j])

(* "Bad PDS!" is said of a set that is not one, and all before it are.     *)
Refuses ==
  pc = "over" /\ status = 10 =>
    /\ ~IsRegularPDS(Entries(data[i+1].pds))
    /\ \A j \in 1..i : HasSet(data[j]) => Sound(data[j])
=============================================================================
