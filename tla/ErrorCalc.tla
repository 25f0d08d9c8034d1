------------------------------ MODULE ErrorCalc ------------------------------
(***************************************************************************)
(* error_calc.h: how far a set is from a partial difference set.  The four *)
(* subclasses of ErrorCalc differ in what they make of one deviation and   *)
(* in whether they add up or take the largest; each has two entries, efs,  *)
(* which walks the list my_set, and efs_from_member, which walks the       *)
(* elements with the boolean vector is_member.                             *)
(*                                                                         *)
(* error, temp and t2 are C++ ints: a result that does not fit wraps.      *)
(***************************************************************************)
EXTENDS PDSProblem

CONSTANTS
  Metrics,   (* the metrics in use, some of "l1", "L2", "L4", "LINF"       *)
  IntMax     (* INT_MAX                                                    *)

(* The dimensions are ints themselves; that the errors fit is not assumed. *)
ASSUME MetricsAssumption ==
  /\ Metrics \subseteq {"l1", "L2", "L4", "LINF"}
  /\ IntMax \in Nat
  /\ k <= IntMax

Wrap(x) ==
  IF x <= IntMax /\ x >= -IntMax - 1
  THEN x
  ELSE ((x + IntMax + 1) % (2 * (IntMax + 1))) - (IntMax + 1)

Abs(x)  == IF x < 0 THEN -x ELSE x
Square(x) == Wrap(x * x)

(* The fourth power, by two products of int, as L4_error takes it.         *)
Quartic(dev) == Square(Square(Abs(dev)))

(* Mutant: deviations above and below the target cancel.                   *)
PenaltySigned(e, dev) ==
  CASE e \in {"l1", "LINF"} -> dev
    [] e = "L2"             -> Square(dev)
    [] e = "L4"             -> Square(Square(dev))

(* What a metric makes of the deviation of one count from its target.      *)
Penalty(e, dev) ==
  CASE e \in {"l1", "LINF"} -> Abs(dev)
    [] e = "L2"             -> Square(Abs(dev))
    [] e = "L4"             -> Quartic(dev)

(* The largest penalty of a count between 0 and k against a target in the  *)
(* same range, and the widths at which no error built from such penalties  *)
(* can wrap.                                                               *)
MaxPenalty(e) ==
  IF e \in {"l1", "LINF"} THEN k ELSE IF e = "L2" THEN k*k ELSE (k*k) * (k*k)

WidthFits == \A e \in Metrics : (k+n) * MaxPenalty(e) <= IntMax

(* LInf_error keeps the largest deviation so far.                          *)
TakeLarger(error, pen) == IF pen > error THEN pen ELSE error

(* How a metric takes one more penalty into the error so far.              *)
Combine(e, error, pen) ==
  IF e = "LINF"
  THEN TakeLarger(error, pen)
  ELSE Wrap(error + pen)

(* The loops: the error after the penalties 0..i, for each i up to last.   *)
ErrorUpTo(e, pen, last) ==
  LET error[i \in 0..last] ==
        IF i = 0 THEN pen[0] ELSE Combine(e, error[i-1], pen[i])
  IN  error

-----------------------------------------------------------------------------
(***************************************************************************)
(* efs(d, my_set, sums): the identity, then the entries of my_set in list  *)
(* order, each marked as checked, then the other elements.  The element a  *)
(* loop skips costs nothing, which both ways of combining leave unchanged. *)
(* Mutant EfsPenaltyUnmarked: the entries of my_set are not marked.        *)
(***************************************************************************)
EfsPenaltyUnmarked(e, s, q) ==
  [ i \in 0..(k+n-1) |->
      IF i = 0 THEN Penalty(e, k - q[0])
      ELSE IF i <= k THEN Penalty(e, lam - q[s[i-1]])
      ELSE Penalty(e, mu - q[i-k]) ]

EfsPenalty(e, s, q) ==
  [ i \in 0..(k+n-1) |->
      IF i = 0 THEN Penalty(e, k - q[0])
      ELSE IF i <= k THEN Penalty(e, lam - q[s[i-1]])
      ELSE IF MemberOf(s)[i-k] THEN 0
      ELSE Penalty(e, mu - q[i-k]) ]

Efs(e, s, q) == ErrorUpTo(e, EfsPenalty(e, s, q), k+n-1)[k+n-1]

(***************************************************************************)
(* efs_from_member(is_member, d, sums): one pass over the elements.        *)
(***************************************************************************)
MemberPenalty(e, mem, q) ==
  [ g \in Elem |-> Penalty(e, Target(mem, g) - q[g]) ]

EfsFromMember(e, mem, q) ==
  ErrorUpTo(e, MemberPenalty(e, mem, q), n-1)[n-1]
=============================================================================
