----------------------------- MODULE LocalSearch -----------------------------
(***************************************************************************)
(* One trial of local search: search() of search_tools.h, and search_old() *)
(* beside it, with select_start_set, calculate_starting_error,             *)
(* adjust_sums and increment, which they call.  One trial is sequential;   *)
(* what is not determined is what the random generator returns.            *)
(*                                                                         *)
(* The sums of the candidate are never recomputed: each swap that is tried *)
(* edits them in place, together with is_member, and a swap that does not  *)
(* lower the error is undone the same way.  real_steps is left out: it is  *)
(* only ever written.                                                      *)
(***************************************************************************)
EXTENDS ErrorCalc

CONSTANT Calls       (* the calls: which function, with which metric       *)

ASSUME CallsAssumption == Calls \subseteq {"search", "search_old"} \X Metrics

VARIABLES
  variant,            (* the function called: "search" or "search_old"     *)
  e,                  (* the ErrorCalc the caller passed                   *)
  pc,                 (* where the function is                             *)
  my_set,             (* the candidate, a list of k elements, -1 if unset  *)
  is_member,          (* the candidate as a boolean vector                 *)
  new_member,         (* select_start_set: the last element drawn          *)
  filled,             (* select_start_set: its loop variable i             *)
  sums,               (* sums[g]: how often g is a product of two members  *)
  cur_error,
  new_error,
  changed_val,        (* a swap was made in the last round                 *)
  initial_mutation,   (* the random swap a round starts from               *)
  mutation,           (* the swap that is looked at                        *)
  first_time          (* the round has not looked at any swap yet          *)

vars == << variant, e, pc, my_set, is_member, new_member, filled, sums,
           cur_error, new_error, changed_val, initial_mutation, mutation,
           first_time >>

(* A swap: the position whose entry goes, and the element that comes.      *)
Mutation == [ first : Idx, second : NonId ]

Swap(s, m) == [ s EXCEPT ![m.first] = m.second ]

(* Mutants: the carry of increment() gives the identity, as its comment's  *)
(* "mod n" would; the carry comes one element early.                       *)
IncrementToIdentity(m) ==
  [ first  |-> IF m.second # n-1 THEN m.first
               ELSE IF m.first = k-1 THEN 0 ELSE m.first + 1,
    second |-> (m.second + 1) % n ]

IncrementCarriesEarly(m) ==
  [ first  |-> IF m.second < n-2 THEN m.first
               ELSE IF m.first = k-1 THEN 0 ELSE m.first + 1,
    second |-> IF m.second < n-2 THEN m.second + 1 ELSE 1 ]

(* increment(): the next swap, elements first, round to the start at the   *)
(* end; never to the identity.                                             *)
Increment(m) ==
  [ first  |-> IF m.second # n-1 THEN m.first
               ELSE IF m.first = k-1 THEN 0 ELSE m.first + 1,
    second |-> IF m.second = n-1 THEN 1 ELSE m.second + 1 ]

(* adjust_sums(): D*D becomes (D-a+b)*(D-a+b), or back when fac is -1, in  *)
(* one pass over D, with D as it is while a is still in it.                *)
Hits(s, x, g) ==
  Cardinality({ i \in Idx : ct[s[i]][x] = g })
    + Cardinality({ i \in Idx : ct[x][s[i]] = g })

(* Mutant: -Da-aD+bD+Db alone, without a^2, b^2, ab and ba.                *)
AdjustSumsUncrossed(s, q, m, fac) ==
  [ g \in Elem |->
      q[g] + fac * (Hits(s, m.second, g) - Hits(s, s[m.first], g)) ]

AdjustSums(s, q, m, fac) ==
  LET a == s[m.first]
      b == m.second
  IN  [ g \in Elem |->
          q[g] + fac * ( Hits(s, b, g) - Hits(s, a, g)
                          + One(ct[a][a] = g) + One(ct[b][b] = g)
                          - One(ct[a][b] = g) - One(ct[b][a] = g) ) ]

-----------------------------------------------------------------------------
Init ==
  /\ \E call \in Calls : variant = call[1] /\ e = call[2]
  /\ pc = "select"
  /\ my_set = [ i \in Idx |-> -1 ]
  /\ is_member = [ x \in Elem |-> FALSE ]
  /\ new_member = 0
  /\ filled = 0
  /\ sums = [ g \in Elem |-> 0 ]
  /\ cur_error = 0
  /\ new_error = 0
  /\ changed_val = TRUE
  /\ initial_mutation = [ first |-> 0, second |-> 1 ]
  /\ mutation = [ first |-> 0, second |-> 1 ]
  /\ first_time = FALSE

selecting == << my_set, is_member, new_member, filled >>
scanning  == << sums, cur_error, new_error, changed_val,
                initial_mutation, mutation, first_time >>

(* select_start_set: the element drawn last is taken; draw again.          *)
Draw ==
  /\ pc = "select"
  /\ filled < k
  /\ is_member[new_member] \/ new_member = 0
  /\ new_member' \in NonId
  /\ UNCHANGED << variant, e, pc, my_set, is_member, filled, scanning >>

(* select_start_set: the element drawn last is new; take it.               *)
Take ==
  /\ pc = "select"
  /\ filled < k
  /\ ~is_member[new_member]
  /\ new_member # 0
  /\ my_set' = [ my_set EXCEPT ![filled] = new_member ]
  /\ is_member' = [ is_member EXCEPT ![new_member] = TRUE ]
  /\ filled' = filled + 1
  /\ UNCHANGED << variant, e, pc, new_member, scanning >>

(* calculate_starting_error: the only time the sums are counted out.       *)
Start ==
  /\ pc = "select"
  /\ filled = k
  /\ sums' = SumsOf(my_set)
  /\ cur_error' = Efs(e, my_set, sums')
  /\ pc' = "loop"
  /\ UNCHANGED << variant, e, selecting, new_error, changed_val,
                  initial_mutation, mutation, first_time >>

(* Mutant: search starts a round after the initial swap, as search_old     *)
(* does.                                                                   *)
RoundAfterInitial ==
  /\ pc = "loop"
  /\ cur_error > 0
  /\ changed_val
  /\ changed_val' = FALSE
  /\ initial_mutation' \in Mutation
  /\ mutation' = Increment(initial_mutation')
  /\ first_time' = FALSE
  /\ pc' = "scan"
  /\ UNCHANGED << variant, e, selecting, sums, cur_error, new_error >>

(* Mutant: search_old leaves out the swap after the first one too.         *)
FirstLookedLate(m) == IF variant = "search" THEN m ELSE Increment(Increment(m))

(* The swap a round looks at first: the one it is drawn to start from, or, *)
(* in search_old, the one after it.  Else the two functions are the same.  *)
FirstLooked(m) == IF variant = "search" THEN m ELSE Increment(m)

(* Mutant: the flag that a swap was kept is not reset.                     *)
RoundUnreset ==
  /\ pc = "loop"
  /\ cur_error > 0
  /\ changed_val
  /\ initial_mutation' \in Mutation
  /\ mutation' = FirstLooked(initial_mutation')
  /\ first_time' = (variant = "search")
  /\ pc' = "scan"
  /\ UNCHANGED << variant, e, selecting, sums, cur_error, new_error,
                  changed_val >>

(* The outer loop begins a round at a random swap.                         *)
Round ==
  /\ pc = "loop"
  /\ cur_error > 0
  /\ changed_val
  /\ changed_val' = FALSE
  /\ initial_mutation' \in Mutation
  /\ mutation' = FirstLooked(initial_mutation')
  /\ first_time' = (variant = "search")
  /\ pc' = "scan"
  /\ UNCHANGED << variant, e, selecting, sums, cur_error, new_error >>

(* The outer loop ends and the function returns (my_set, cur_error).       *)
Return ==
  /\ pc = "loop"
  /\ ~(cur_error > 0 /\ changed_val)
  /\ pc' = "done"
  /\ UNCHANGED << variant, e, selecting, scanning >>

InRound == pc = "scan" /\ (mutation # initial_mutation \/ first_time)

(* The element is in the set already: on to the next swap.                 *)
Skip ==
  /\ InRound
  /\ is_member[mutation.second]
  /\ first_time' = FALSE
  /\ mutation' = Increment(mutation)
  /\ UNCHANGED << variant, e, pc, selecting, sums, cur_error, new_error,
                  changed_val, initial_mutation >>

(* Make the swap in sums and is_member, not in my_set, and evaluate it.    *)
Try ==
  /\ InRound
  /\ ~is_member[mutation.second]
  /\ first_time' = FALSE
  /\ sums' = AdjustSums(my_set, sums, mutation, 1)
  /\ is_member' = [ is_member EXCEPT ![my_set[mutation.first]] = FALSE,
                                     ![mutation.second] = TRUE ]
  /\ new_error' = EfsFromMember(e, is_member', sums')
  /\ pc' = "judge"
  /\ UNCHANGED << variant, e, my_set, new_member, filled, cur_error,
                  changed_val, initial_mutation, mutation >>

(* Mutant: a swap that leaves the error as it was is kept as well.         *)
AcceptEqual ==
  /\ pc = "judge"
  /\ new_error <= cur_error
  /\ my_set' = Swap(my_set, mutation)
  /\ cur_error' = new_error
  /\ changed_val' = TRUE
  /\ pc' = "loop"
  /\ UNCHANGED << variant, e, is_member, new_member, filled, sums, new_error,
                  initial_mutation, mutation, first_time >>

(* The swap lowers the error: keep it and leave the round.                 *)
Accept ==
  /\ pc = "judge"
  /\ new_error < cur_error
  /\ my_set' = Swap(my_set, mutation)
  /\ cur_error' = new_error
  /\ changed_val' = TRUE
  /\ pc' = "loop"
  /\ UNCHANGED << variant, e, is_member, new_member, filled, sums, new_error,
                  initial_mutation, mutation, first_time >>

(* Mutant: the element that came stays marked as a member.                 *)
RejectKeepsMember ==
  /\ pc = "judge"
  /\ ~(new_error < cur_error)
  /\ sums' = AdjustSums(my_set, sums, mutation, -1)
  /\ is_member' = [ is_member EXCEPT ![my_set[mutation.first]] = TRUE ]
  /\ mutation' = Increment(mutation)
  /\ pc' = "scan"
  /\ UNCHANGED << variant, e, my_set, new_member, filled, cur_error, new_error,
                  changed_val, initial_mutation, first_time >>

(* It does not: undo it in sums and is_member, and on to the next swap.    *)
Reject ==
  /\ pc = "judge"
  /\ ~(new_error < cur_error)
  /\ sums' = AdjustSums(my_set, sums, mutation, -1)
  /\ is_member' = [ is_member EXCEPT ![my_set[mutation.first]] = TRUE,
                                     ![mutation.second] = FALSE ]
  /\ mutation' = Increment(mutation)
  /\ pc' = "scan"
  /\ UNCHANGED << variant, e, my_set, new_member, filled, cur_error, new_error,
                  changed_val, initial_mutation, first_time >>

(* The round has come back to where it started.                            *)
Exhaust ==
  /\ pc = "scan"
  /\ ~InRound
  /\ pc' = "loop"
  /\ UNCHANGED << variant, e, selecting, scanning >>

Returned == pc = "done"

Done == Returned /\ UNCHANGED vars

Next ==
  \/ Draw \/ Take \/ Start
  \/ Round \/ Return
  \/ Skip \/ Try \/ Accept \/ Reject \/ Exhaust
  \/ Done

Spec == Init /\ [][Next]_vars

(* The generator does not avoid the free elements for ever: a draw that is *)
(* wanted again and again is, at some point, one of an element not yet in  *)
(* the set (there are k < n of them).                                      *)
DrawFresh == Draw /\ ~is_member[new_member']

-----------------------------------------------------------------------------
(* The list the sums and is_member are kept for: my_set, with the swap     *)
(* that is being judged made in it.                                        *)
Current == IF pc = "judge" THEN Swap(my_set, mutation) ELSE my_set

(* The error of a candidate worked out from nothing.                       *)
TrueError(s) == EfsFromMember(e, MemberOf(s), SumsOf(s))

Partial == { s \in [Idx -> NonId \cup {-1}] :
               /\ \A i \in Idx : s[i] = -1 <=> i >= filled
               /\ \A i, j \in Idx : s[i] = s[j] /\ i < filled => i = j }

(* The types of all variables; my_set is a list of distinct elements other *)
(* than the identity as far as it is filled.                               *)
TypeOK ==
  /\ << variant, e >> \in Calls
  /\ pc \in {"select", "loop", "scan", "judge", "done"}
  /\ filled \in 0..k
  /\ my_set \in Partial
  /\ pc # "select" => filled = k
  /\ is_member \in [Elem -> BOOLEAN]
  /\ new_member \in Elem
  /\ sums \in [Elem -> Int]
  /\ cur_error \in Int
  /\ new_error \in Int
  /\ changed_val \in BOOLEAN
  /\ initial_mutation \in Mutation
  /\ mutation \in Mutation
  /\ first_time \in BOOLEAN

(* After any sequence of swaps tried, kept and undone, the sums edited in  *)
(* place are the sums a recount of the candidate would give (adjust_sums,  *)
(* and its call with fac = -1).                                            *)
SumsExact == pc # "select" => sums = SumsOf(Current)

(* The list my_set and the vector is_member describe the same set, also    *)
(* between a swap and its undoing, where only one of them has changed.     *)
MemberExact ==
  /\ pc = "select" => is_member = MemberOf(my_set)
  /\ pc # "select" => Current \in Candidate /\ is_member = MemberOf(Current)

(* The error the search goes by, computed once by efs from the list and    *)
(* then by efs_from_member from edited sums, is that of the set it holds.  *)
ErrorExact == pc # "select" => cur_error = TrueError(my_set)

(* "The candidate set is a regular PDS iff the error is 0": in the sense   *)
(* of the definition with inverses, which the code never computes, for the *)
(* set the search holds between rounds and for the one it returns.         *)
ErrorZeroIffPDS ==
  pc \in {"loop", "done"} =>
    (cur_error = 0 <=> IsRegularPDS(Members(my_set)))

NoBetter(m) ==
  ~MemberOf(my_set)[m.second] => TrueError(Swap(my_set, m)) >= cur_error

(* search gives up only at a local optimum: no exchange of one member for  *)
(* another element lowers the error of the set it returns.                 *)
LocalOptimum ==
  variant = "search" /\ pc = "done" /\ cur_error > 0 =>
    \A m \in Mutation : NoBetter(m)

(* search_old gives up when no exchange but the one its last round began   *)
(* with lowers the error.                                                  *)
OldOptimum ==
  variant = "search_old" /\ pc = "done" /\ cur_error > 0 =>
    \A m \in Mutation \ {initial_mutation} : NoBetter(m)

-----------------------------------------------------------------------------
(* The trial as its caller may think of it.                                *)
HC == INSTANCE HillClimb WITH
  overlooks <- IF variant = "search" THEN 0 ELSE 1,
  set   <- IF pc = "select" THEN {} ELSE Members(my_set),
  error <- cur_error,
  phase <- IF pc = "select" THEN "empty"
           ELSE IF pc = "done" THEN "done" ELSE "climb"

(* A trial is a hill climb: it moves only to a better neighbour and stops  *)
(* only at a solution or where there is none; search_old may have          *)
(* overlooked one.                                                         *)
Climbs == HC!Spec
=============================================================================
