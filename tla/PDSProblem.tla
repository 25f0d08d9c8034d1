----------------------------- MODULE PDSProblem -----------------------------
(***************************************************************************)
(* What every search of this repository works on: the dimensions of the    *)
(* partial difference set that is looked for (dims.h) and the convolution  *)
(* table of the group it is looked for in, as the programs hold them after *)
(* reading a table file (elements renumbered from 0, the identity first).  *)
(***************************************************************************)
EXTENDS Integers, FiniteSets

CONSTANTS
  n,     (* order of the group                                             *)
  k,     (* size of the set                                                *)
  lam,   (* copies in D*D of each element of D                             *)
  mu,    (* copies in D*D of each other element, the identity excepted     *)
  ct     (* the convolution table: ct[x][y] is the product x*y             *)

Elem  == 0..(n-1)
NonId == 1..(n-1)          \* the elements a search may pick
Idx   == 0..(k-1)          \* the positions of my_set

(***************************************************************************)
(* The dimensions for which the drivers are run: the random draws take a   *)
(* remainder modulo k and modulo n-1, and k distinct elements must exist.  *)
(***************************************************************************)
ASSUME DimsAssumption ==
  /\ n \in Nat
  /\ n >= 2
  /\ k \in 1..(n-1)
  /\ lam \in 0..k
  /\ mu \in 0..k

(***************************************************************************)
(* The table is the one GAP wrote for a group whose first element is the   *)
(* identity.                                                               *)
(***************************************************************************)
ASSUME TableAssumption ==
  /\ ct \in [Elem -> [Elem -> Elem]]
  /\ \A x \in Elem : ct[0][x] = x /\ ct[x][0] = x
  /\ \A x \in Elem : \E y \in Elem : ct[x][y] = 0
  /\ \A x, y, z \in Elem : ct[ct[x][y]][z] = ct[x][ct[y][z]]

-----------------------------------------------------------------------------
(* The candidates of a search: k distinct elements, none the identity.     *)
Candidate == { s \in [Idx -> NonId] : \A i, j \in Idx : s[i] = s[j] => i = j }

Members(s)  == { s[i] : i \in Idx }
MemberOf(s) == [ x \in Elem |-> \E i \in Idx : s[i] = x ]

(* What an entry adds to a count when P holds of it.                       *)
One(P) == IF P THEN 1 ELSE 0

(* The pairs of positions whose product is g, and their number: the sums   *)
(* array that two nested loops over my_set fill in.                        *)
PairsTo(s, g) == { p \in Idx \X Idx : ct[s[p[1]]][s[p[2]]] = g }
SumsOf(s)     == [ g \in Elem |-> Cardinality(PairsTo(s, g)) ]

(* What the error functions compare the sums with: k copies of the         *)
(* identity, lam of each member and mu of every other element.             *)
Target(mem, g) == IF g = 0 THEN k ELSE IF mem[g] THEN lam ELSE mu
Balanced(mem, q) == \A g \in Elem : q[g] = Target(mem, g)

-----------------------------------------------------------------------------
(***************************************************************************)
(* The mathematical notion the programs are about, stated without the      *)
(* sums: D is a regular partial difference set when it avoids the identity,*)
(* is closed under inverses, and each element other than the identity is   *)
(* x * y^-1 for lam pairs of D if it lies in D, for mu pairs if not.       *)
(***************************************************************************)
InverseOf(x) == CHOOSE y \in Elem : ct[x][y] = 0
Quotients(D, g) == { p \in D \X D : ct[p[1]][InverseOf(p[2])] = g }

IsRegularPDS(D) ==
  /\ D \subseteq NonId
  /\ Cardinality(D) = k
  /\ \A x \in D : InverseOf(x) \in D
  /\ \A g \in NonId :
       Cardinality(Quotients(D, g)) = IF g \in D THEN lam ELSE mu
=============================================================================
