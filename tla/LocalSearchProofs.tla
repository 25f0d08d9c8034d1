-------------------------- MODULE LocalSearchProofs --------------------------
(***************************************************************************)
(* Theorems about what the error functions compute and about a trial of    *)
(* local search, for every group, every size of the set and every choice   *)
(* of metrics.                                                             *)
(***************************************************************************)
EXTENDS LocalSearch, PDSProblemProofs, WellFoundedInduction

(* A set of natural numbers that is not empty has a least element: the     *)
(* form in which the proofs below use induction.                           *)
LEMMA LeastNat ==
  ASSUME NEW T \in SUBSET Nat, T # {}
  PROVE  \E m \in T : \A y \in T : m <= y
<1>1. PICK m \in T : \A y \in T : ~(<< y, m >> \in OpToRel(<, Nat))
  BY NatLessThanWellFounded, WFMin
<1>2. ASSUME NEW y \in T PROVE m <= y
  <2>1. << y, m >> \in OpToRel(<, Nat) <=> y < m
    BY DEF OpToRel
  <2>2. ~(y < m)
    BY <1>1, <2>1
  <2> QED  BY <2>2
<1> QED  BY <1>2

-----------------------------------------------------------------------------
(* What the loops of an error function leave in error is given by the      *)
(* recursion they run: ErrorUpTo is the function its equation describes.   *)
LEMMA ErrorUpToEquation ==
  ASSUME NEW m, NEW pen, NEW last \in Nat
  PROVE  ErrorUpTo(m, pen, last) =
           [ i \in 0..last |->
               IF i = 0 THEN pen[0]
               ELSE Combine(m, ErrorUpTo(m, pen, last)[i-1], pen[i]) ]
<1> DEFINE Fits(f, j) ==
      f = [ i \in 0..j |->
              IF i = 0 THEN pen[0] ELSE Combine(m, f[i-1], pen[i]) ]
    Short == { j \in Nat : ~ \E f : Fits(f, j) }
<1>1. Fits([ i \in 0..0 |-> pen[0] ], 0)
  OBVIOUS
<1>2. ASSUME NEW j \in Nat, NEW f, Fits(f, j)
      PROVE  \E g : Fits(g, j+1)
  <2> DEFINE g == [ i \in 0..(j+1) |->
                      IF i = j+1 THEN Combine(m, f[j], pen[j+1]) ELSE f[i] ]
  <2>1. ASSUME NEW i \in 0..(j+1)
        PROVE  g[i] = IF i = 0 THEN pen[0] ELSE Combine(m, g[i-1], pen[i])
    <3>1. CASE i = j+1
      <4>1. g[i] = Combine(m, f[j], pen[j+1])
        BY <3>1
      <4>2. g[i-1] = f[j] /\ i # 0
        BY <3>1
      <4> QED  BY <3>1, <4>1, <4>2
    <3>2. CASE i # j+1
      <4>1. i \in 0..j /\ g[i] = f[i]
        BY <3>2
      <4>2. i # 0 => g[i-1] = f[i-1]
        BY <4>1
      <4>3. f[i] = IF i = 0 THEN pen[0] ELSE Combine(m, f[i-1], pen[i])
        BY <1>2, <4>1
      <4> QED  BY <4>1, <4>2, <4>3
    <3> QED  BY <3>1, <3>2
  <2>2. Fits(g, j+1)
    BY <2>1
  <2> QED  BY <2>2
<1>3. Short = {}
  <2>1. SUFFICES ASSUME Short # {} PROVE FALSE
    OBVIOUS
  <2>2. PICK j \in Short : \A y \in Short : j <= y
    BY <2>1, LeastNat
  <2>3. j # 0
    BY <1>1, <2>2
  <2>4. j \in Nat /\ j-1 \in Nat
    BY <2>3
  <2>5. PICK f : Fits(f, j-1)
    <3>1. ~(j <= j-1)
      BY <2>4
    <3>2. j-1 \notin Short
      BY <3>1, <2>2, Zenon
    <3> QED  BY <2>4, <3>2
  <2>6. \E g : Fits(g, (j-1)+1)
    BY <2>4, <2>5, <1>2
  <2> QED  BY <2>2, <2>6
<1>4. \E f : Fits(f, last)
  BY <1>3
<1>5. Fits(CHOOSE f : Fits(f, last), last)
  BY <1>4
<1>6. ErrorUpTo(m, pen, last) = CHOOSE f : Fits(f, last)
  BY DEF ErrorUpTo
<1> QED  BY <1>5, <1>6

-----------------------------------------------------------------------------
(* Whatever the counts, an error function returns an integer.              *)
LEMMA WrapType == ASSUME NEW x \in Int PROVE Wrap(x) \in Int
  BY MetricsAssumption DEF Wrap

(* So is a penalty.                                                        *)
LEMMA PenaltyType ==
  ASSUME NEW m \in Metrics, NEW dev \in Int
  PROVE  Penalty(m, dev) \in Int
<1>1. Abs(dev) \in Int
  BY DEF Abs
<1>2. Square(Abs(dev)) \in Int
  BY <1>1, WrapType DEF Square
<1>3. Square(Square(Abs(dev))) \in Int
  BY <1>2, WrapType DEF Square
<1>4. m \in {"l1", "L2", "L4", "LINF"}
  BY MetricsAssumption
<1> QED  BY <1>1, <1>2, <1>3, <1>4 DEF Penalty, Quartic

(* And an error with one more penalty taken in.                            *)
LEMMA CombineType ==
  ASSUME NEW m, NEW err \in Int, NEW pen \in Int
  PROVE  Combine(m, err, pen) \in Int
  BY WrapType DEF Combine, TakeLarger

(* And the error after any number of them.                                 *)
LEMMA ErrorUpToType ==
  ASSUME NEW m, NEW pen, NEW last \in Nat, \A i \in 0..last : pen[i] \in Int
  PROVE  ErrorUpTo(m, pen, last) \in [0..last -> Int]
<1>0. PICK err : /\ err = ErrorUpTo(m, pen, last)
                 /\ err = [ i \in 0..last |->
                              IF i = 0 THEN pen[0]
                              ELSE Combine(m, err[i-1], pen[i]) ]
  BY ErrorUpToEquation
<1> DEFINE Bad == { i \in Nat : i <= last /\ err[i] \notin Int }
<1>1. err = [ i \in 0..last |->
                IF i = 0 THEN pen[0] ELSE Combine(m, err[i-1], pen[i]) ]
  BY <1>0
<1>2. SUFFICES ASSUME Bad # {} PROVE FALSE
  <2>1. ASSUME NEW i \in 0..last PROVE err[i] \in Int
    BY <1>2
  <2> QED  BY <1>0, <1>1, <2>1
<1>3. PICK i \in Bad : \A y \in Bad : i <= y
  BY <1>2, LeastNat
<1>4. i # 0
  BY <1>1
<1>5. i-1 \in 0..last /\ i \in 0..last
  BY <1>4
<1>6. err[i-1] \in Int
  BY <1>3, <1>5
<1>7. err[i] = Combine(m, err[i-1], pen[i])
  BY <1>1, <1>4, <1>5
<1> QED  BY <1>5, <1>6, <1>7, CombineType

(* efs returns an int for any list and any counts.                         *)
LEMMA EfsType ==
  ASSUME NEW m \in Metrics, NEW s \in [Idx -> NonId], NEW q \in [Elem -> Int]
  PROVE  Efs(m, s, q) \in Int
<1>1. k+n-1 \in Nat
  BY DimsAssumption
<1>2. ASSUME NEW i \in 0..(k+n-1) PROVE EfsPenalty(m, s, q)[i] \in Int
  <2>1. CASE i = 0
    <3>1. k - q[0] \in Int
      BY DimsAssumption DEF Elem
    <3> QED  BY <2>1, <3>1, PenaltyType DEF EfsPenalty
  <2>2. CASE i \in 1..k
    <3>1. lam - q[s[i-1]] \in Int
      BY <2>2, DimsAssumption DEF Elem, Idx, NonId
    <3>2. EfsPenalty(m, s, q)[i] = Penalty(m, lam - q[s[i-1]])
      BY <2>2, DimsAssumption DEF EfsPenalty
    <3> QED  BY <3>1, <3>2, PenaltyType
  <2>3. CASE i > k
    <3>1. mu - q[i-k] \in Int
      BY <2>3, DimsAssumption DEF Elem
    <3>2. Penalty(m, mu - q[i-k]) \in Int
      BY <3>1, PenaltyType
    <3>3. EfsPenalty(m, s, q)[i]
            = IF MemberOf(s)[i-k] THEN 0 ELSE Penalty(m, mu - q[i-k])
      BY <2>3, DimsAssumption DEF EfsPenalty
    <3> QED  BY <3>2, <3>3
  <2> QED  BY <2>1, <2>2, <2>3, DimsAssumption
<1>3. EfsPenalty(m, s, q) \in [0..(k+n-1) -> Int]
  BY <1>2 DEF EfsPenalty
<1>4. ErrorUpTo(m, EfsPenalty(m, s, q), k+n-1) \in [0..(k+n-1) -> Int]
  BY <1>1, <1>3, ErrorUpToType
<1> QED  BY <1>1, <1>4 DEF Efs

(* efs_from_member returns an int for any counts.                          *)
LEMMA EfsFromMemberType ==
  ASSUME NEW m \in Metrics, NEW mem, NEW q \in [Elem -> Int]
  PROVE  EfsFromMember(m, mem, q) \in Int
<1>1. n-1 \in Nat /\ Elem = 0..(n-1)
  BY DimsAssumption DEF Elem
<1>2. ASSUME NEW g \in Elem PROVE MemberPenalty(m, mem, q)[g] \in Int
  <2>1. Target(mem, g) - q[g] \in Int
    BY DimsAssumption DEF Target
  <2> QED  BY <2>1, PenaltyType DEF MemberPenalty
<1>3. MemberPenalty(m, mem, q) \in [0..(n-1) -> Int]
  BY <1>1, <1>2 DEF MemberPenalty
<1>4. ErrorUpTo(m, MemberPenalty(m, mem, q), n-1) \in [0..(n-1) -> Int]
  BY <1>1, <1>3, ErrorUpToType
<1> QED  BY <1>1, <1>4 DEF EfsFromMember

-----------------------------------------------------------------------------
(* What fits the width is not changed by it.                               *)
LEMMA WrapFits ==
  ASSUME NEW x \in 0..IntMax PROVE Wrap(x) = x
  BY MetricsAssumption DEF Wrap

(* A square of something between 0 and b is between 0 and b*b, and is 0    *)
(* only if it is the square of 0.                                          *)
LEMMA SquareBound ==
  ASSUME NEW b \in Nat, NEW a \in 0..b
  PROVE  a*a \in 0..(b*b) /\ (a*a = 0 <=> a = 0)
<1>1. a*a \in Nat /\ a*b \in Nat /\ b*b \in Nat
  OBVIOUS
<1>2. a*a <= a*b
  OBVIOUS
<1>3. a*b <= b*b
  OBVIOUS
<1> QED  BY <1>1, <1>2, <1>3

(* Where the width fits, one largest penalty fits.                         *)
LEMMA MaxPenaltyFits ==
  ASSUME WidthFits, NEW m \in Metrics
  PROVE  MaxPenalty(m) \in Nat /\ MaxPenalty(m) <= IntMax
<1>1. MaxPenalty(m) \in Nat
  <2>1. k \in Nat
    BY DimsAssumption
  <2>2. k*k \in Nat
    BY <2>1
  <2>3. (k*k) * (k*k) \in Nat
    BY <2>2
  <2> QED  BY <2>1, <2>2, <2>3 DEF MaxPenalty
<1>2. k+n \in Nat /\ k+n >= 1
  BY DimsAssumption
<1>3. MaxPenalty(m) <= (k+n) * MaxPenalty(m)
  BY <1>1, <1>2
<1>4. (k+n) * MaxPenalty(m) <= IntMax
  BY DEF WidthFits
<1>5. (k+n) * MaxPenalty(m) \in Nat
  BY <1>1, <1>2
<1> QED  BY <1>1, <1>3, <1>4, <1>5, MetricsAssumption

(* A deviation of at most k gives a penalty that fits and that is 0 only   *)
(* if there is no deviation.                                               *)
LEMMA PenaltyExact ==
  ASSUME WidthFits, NEW m \in Metrics, NEW dev \in -k..k
  PROVE  /\ Penalty(m, dev) \in 0..MaxPenalty(m)
         /\ Penalty(m, dev) = 0 <=> dev = 0
<1> DEFINE a == Abs(dev)
<1>1. k \in Nat /\ a \in 0..k /\ (a = 0 <=> dev = 0)
  BY DimsAssumption DEF Abs
<1> HIDE DEF a
<1>2. m \in {"l1", "L2", "L4", "LINF"} /\ IntMax \in Nat
  BY MetricsAssumption
<1>3. MaxPenalty(m) \in Nat /\ MaxPenalty(m) <= IntMax
  BY MaxPenaltyFits
<1>4. CASE m \in {"l1", "LINF"}
  <2>1. Penalty(m, dev) = a /\ MaxPenalty(m) = k
    BY <1>4 DEF Penalty, Quartic, MaxPenalty, a
  <2> QED  BY <1>1, <2>1
<1>5. CASE m = "L2"
  <2>1. MaxPenalty(m) = k*k /\ Penalty(m, dev) = Wrap(a*a)
    BY <1>5 DEF Penalty, Quartic, MaxPenalty, Square, a
  <2>2. a*a \in 0..(k*k) /\ (a*a = 0 <=> a = 0)
    BY <1>1, SquareBound
  <2>3. Wrap(a*a) = a*a
    BY <1>2, <1>3, <2>1, <2>2, WrapFits
  <2> QED  BY <1>1, <2>1, <2>2, <2>3
<1>6. CASE m = "L4"
  <2>1. MaxPenalty(m) = (k*k) * (k*k)
    BY <1>6 DEF MaxPenalty
  <2>2. a*a \in 0..(k*k) /\ (a*a = 0 <=> a = 0)
    BY <1>1, SquareBound
  <2> DEFINE b == a*a
             c == k*k
  <2>3. b \in 0..c /\ c \in Nat
    BY <1>1, <2>2
  <2> HIDE DEF b, c
  <2>4. b*b \in 0..(c*c) /\ (b*b = 0 <=> b = 0)
    BY <2>3, SquareBound
  <2>5. c <= c*c /\ c*c \in Nat
    BY <2>3
  <2>6. c*c = MaxPenalty(m)
    BY <2>1 DEF c
  <2>7. Wrap(b) = b /\ Wrap(b*b) = b*b
    BY <1>2, <1>3, <2>3, <2>4, <2>5, <2>6, WrapFits
  <2>8. Penalty(m, dev) = Wrap(Wrap(b) * Wrap(b))
    BY <1>6 DEF Penalty, Quartic, Square, a, b
  <2>9. b = 0 <=> a = 0
    BY <2>2 DEF b
  <2> QED  BY <1>1, <2>4, <2>6, <2>7, <2>8, <2>9
<1> QED  BY <1>2, <1>4, <1>5, <1>6

(* An error made of penalties between 0 and M does not wrap where so many  *)
(* M's fit, and it is 0 exactly when every penalty was.                    *)
LEMMA ErrorUpToExact ==
  ASSUME NEW m, NEW pen, NEW last \in Nat, NEW M \in Nat,
         (last+1) * M <= IntMax,
         \A i \in 0..last : pen[i] \in 0..M
  PROVE  \A i \in 0..last :
           /\ ErrorUpTo(m, pen, last)[i] \in 0..((i+1) * M)
           /\ ErrorUpTo(m, pen, last)[i] = 0 <=> \A j \in 0..i : pen[j] = 0
<1>0. PICK err : /\ err = ErrorUpTo(m, pen, last)
                 /\ err = [ i \in 0..last |->
                              IF i = 0 THEN pen[0]
                              ELSE Combine(m, err[i-1], pen[i]) ]
  BY ErrorUpToEquation
<1> DEFINE Good(i) == /\ err[i] \in 0..((i+1) * M)
                      /\ err[i] = 0 <=> \A j \in 0..i : pen[j] = 0
           Bad == { i \in Nat : i <= last /\ ~Good(i) }
<1>1. Good(0)
  BY <1>0
<1>2. ASSUME NEW i \in 1..last, Good(i-1)
      PROVE  Good(i)
  <2>1. err[i] = Combine(m, err[i-1], pen[i])
    BY <1>0
  <2>2. /\ i-1 \in Nat /\ i \in Nat /\ pen[i] \in 0..M
        /\ err[i-1] \in 0..(((i-1)+1) * M)
        /\ err[i-1] = 0 <=> \A j \in 0..(i-1) : pen[j] = 0
    BY <1>2
  <2>3. /\ i * M \in Nat /\ (i+1) * M = i * M + M
        /\ (i+1) * M <= (last+1) * M /\ (last+1) * M \in Nat
    BY <2>2
  <2>4. /\ err[i-1] \in 0..(i*M)
        /\ err[i-1] + pen[i] \in 0..((i+1) * M)
    BY <2>2, <2>3
  <2>5. Wrap(err[i-1] + pen[i]) = err[i-1] + pen[i]
    BY <2>3, <2>4, WrapFits, MetricsAssumption
  <2>6. err[i] \in 0..((i+1) * M)
    BY <2>1, <2>2, <2>3, <2>4, <2>5 DEF Combine, TakeLarger
  <2>7. err[i] = 0 <=> err[i-1] = 0 /\ pen[i] = 0
    BY <2>1, <2>2, <2>4, <2>5 DEF Combine, TakeLarger
  <2>8. (\A j \in 0..i : pen[j] = 0)
          <=> (\A j \in 0..(i-1) : pen[j] = 0) /\ pen[i] = 0
    BY <2>2
  <2> QED  BY <2>2, <2>6, <2>7, <2>8
<1> HIDE DEF Good
<1>3. SUFFICES ASSUME Bad # {} PROVE FALSE
  <2>1. \A i \in 0..last : Good(i)
    BY <1>3
  <2> QED  BY <1>0, <2>1 DEF Good
<1>4. PICK i \in Bad : \A y \in Bad : i <= y
  BY <1>3, LeastNat
<1>5. i \in 1..last /\ i-1 \in Nat /\ i-1 <= last /\ ~(i <= i-1)
  BY <1>1, <1>4
<1>6. i-1 \notin Bad
  BY <1>4, <1>5, Zenon
<1>7. Good(i-1)
  BY <1>5, <1>6
<1> QED  BY <1>2, <1>4, <1>5, <1>7

(* Where the width fits, efs_from_member returns 0 exactly when every count*)
(* is on target, and is never negative.                                    *)
LEMMA EfsFromMemberExact ==
  ASSUME WidthFits, NEW m \in Metrics, NEW mem, NEW q \in [Elem -> 0..k]
  PROVE  /\ EfsFromMember(m, mem, q) \in Nat
         /\ EfsFromMember(m, mem, q) = 0 <=> Balanced(mem, q)
<1> DEFINE pen == MemberPenalty(m, mem, q)
           M == MaxPenalty(m)
           err == ErrorUpTo(m, pen, n-1)
<1>1. n-1 \in Nat /\ k \in Nat /\ Elem = 0..(n-1)
  BY DimsAssumption DEF Elem
<1>2. ASSUME NEW g \in Elem
      PROVE  pen[g] \in 0..M /\ (pen[g] = 0 <=> q[g] = Target(mem, g))
  <2>1. Target(mem, g) \in 0..k /\ q[g] \in 0..k
    BY DimsAssumption DEF Target
  <2>2. Target(mem, g) - q[g] \in -k..k
    BY <1>1, <2>1
  <2>3. Target(mem, g) - q[g] = 0 <=> q[g] = Target(mem, g)
    BY <2>1
  <2> QED  BY <2>2, <2>3, PenaltyExact DEF MemberPenalty
<1>3. M \in Nat /\ ((n-1)+1) * M <= IntMax
  <2>1. M \in Nat
    BY MaxPenaltyFits
  <2>2. (k+n) * M <= IntMax
    BY DEF WidthFits
  <2>3. ((n-1)+1) * M <= (k+n) * M /\ (k+n) * M \in Nat /\ ((n-1)+1) * M \in Nat
    <3> HIDE DEF M
    <3>1. (n-1)+1 = n /\ n \in Nat
      BY DimsAssumption
    <3>2. n*M \in Nat /\ k*M \in Nat /\ (k+n) * M = k*M + n*M
      BY <1>1, <2>1, <3>1
    <3> QED  BY <3>1, <3>2
  <2> QED  BY <2>1, <2>2, <2>3, MetricsAssumption
<1> HIDE DEF pen, M
<1>4. /\ err[n-1] \in 0..(((n-1)+1) * M)
      /\ err[n-1] = 0 <=> \A j \in 0..(n-1) : pen[j] = 0
  BY <1>1, <1>2, <1>3, ErrorUpToExact
<1>5. EfsFromMember(m, mem, q) = err[n-1]
  BY DEF EfsFromMember, pen
<1> QED  BY <1>1, <1>2, <1>4, <1>5 DEF Balanced

(* The same of efs, which walks the list: between them the identity, the   *)
(* entries and the elements not marked are all the elements.               *)
LEMMA EfsExact ==
  ASSUME WidthFits, NEW m \in Metrics, NEW s \in [Idx -> NonId],
         NEW q \in [Elem -> 0..k]
  PROVE  /\ Efs(m, s, q) \in Nat
         /\ Efs(m, s, q) = 0 <=> Balanced(MemberOf(s), q)
<1> DEFINE pen == EfsPenalty(m, s, q)
           M == MaxPenalty(m)
           last == k+n-1
           err == ErrorUpTo(m, pen, last)
           mem == MemberOf(s)
           onTarget(g) == q[g] = Target(mem, g)
<1>1. last \in Nat /\ k \in Nat /\ last+1 = k+n
  BY DimsAssumption
<1>2. M \in Nat /\ (last+1) * M <= IntMax
  BY <1>1, MaxPenaltyFits DEF WidthFits
<1>3. /\ pen[0] \in 0..M
      /\ pen[0] = 0 <=> onTarget(0)
  <2>1. q[0] \in 0..k /\ k - q[0] \in -k..k /\ (k - q[0] = 0 <=> q[0] = k)
    BY DimsAssumption DEF Elem
  <2>2. pen[0] = Penalty(m, k - q[0])
    BY <1>1 DEF EfsPenalty
  <2> QED  BY <2>1, <2>2, PenaltyExact DEF Target
<1>4. ASSUME NEW i \in Idx
      PROVE  /\ pen[i+1] \in 0..M
             /\ pen[i+1] = 0 <=> onTarget(s[i])
  <2>1. /\ s[i] \in Elem /\ s[i] # 0 /\ q[s[i]] \in 0..k
        /\ i+1 \in 1..k /\ i+1 \in 0..last /\ (i+1)-1 = i
    BY DimsAssumption DEF Elem, NonId, Idx
  <2>2. Target(mem, s[i]) = lam
    BY <2>1 DEF Target, MemberOf
  <2>3. lam - q[s[i]] \in -k..k /\ (lam - q[s[i]] = 0 <=> q[s[i]] = lam)
    BY <2>1, DimsAssumption
  <2>4. pen[i+1] = Penalty(m, lam - q[s[i]])
    BY <1>1, <2>1 DEF EfsPenalty
  <2> QED  BY <2>2, <2>3, <2>4, PenaltyExact
<1>5. ASSUME NEW g \in NonId
      PROVE  /\ pen[g+k] \in 0..M
             /\ pen[g+k] = 0 <=> (mem[g] \/ onTarget(g))
  <2>1. /\ g \in Elem /\ g # 0 /\ q[g] \in 0..k
        /\ g+k \in 0..last /\ g+k > k /\ g+k # 0 /\ (g+k)-k = g
    BY DimsAssumption DEF Elem, NonId
  <2>2. mu - q[g] \in -k..k /\ (mu - q[g] = 0 <=> q[g] = mu)
    BY <2>1, DimsAssumption
  <2>3. pen[g+k] = IF mem[g] THEN 0 ELSE Penalty(m, mu - q[g])
    BY <1>1, <2>1 DEF EfsPenalty
  <2>4. CASE mem[g]
    BY <1>2, <2>3, <2>4
  <2>5. CASE ~mem[g]
    <3>1. Target(mem, g) = mu
      BY <2>1, <2>5 DEF Target
    <3> QED  BY <2>2, <2>3, <2>5, <3>1, PenaltyExact
  <2> QED  BY <2>4, <2>5
<1>6. ASSUME NEW j \in 0..last
      PROVE  j = 0 \/ j-1 \in Idx \/ j-k \in NonId
  BY DimsAssumption DEF Idx, NonId
<1> HIDE DEF pen, M, mem
<1>7. ASSUME NEW j \in 0..last PROVE pen[j] \in 0..M
  <2>1. CASE j = 0
    BY <1>3, <2>1
  <2>2. CASE j-1 \in Idx
    <3>1. pen[(j-1)+1] \in 0..M
      BY <1>4, <2>2
    <3> QED  BY <3>1
  <2>3. CASE j-k \in NonId
    <3>1. pen[(j-k)+k] \in 0..M
      BY <1>5, <2>3
    <3> QED  BY <1>1, <3>1
  <2> QED  BY <1>6, <2>1, <2>2, <2>3
<1>8. /\ err[last] \in 0..((last+1) * M)
      /\ err[last] = 0 <=> \A j \in 0..last : pen[j] = 0
  BY <1>1, <1>2, <1>7, ErrorUpToExact
<1>9. Efs(m, s, q) = err[last]
  BY DEF Efs, pen
<1>10. (\A j \in 0..last : pen[j] = 0) <=> \A g \in Elem : onTarget(g)
  <2>1. ASSUME \A j \in 0..last : pen[j] = 0, NEW g \in Elem
        PROVE  onTarget(g)
    <3>1. CASE g = 0
      BY <1>1, <1>3, <2>1, <3>1
    <3>2. CASE g # 0 /\ mem[g]
      <4>1. PICK i \in Idx : s[i] = g
        BY <3>2 DEF mem, MemberOf
      <4>2. i+1 \in 0..last
        BY DimsAssumption DEF Idx
      <4> QED  BY <1>4, <2>1, <4>1, <4>2
    <3>3. CASE g # 0 /\ ~mem[g]
      <4>1. g \in NonId /\ g+k \in 0..last
        BY <3>3, DimsAssumption DEF Elem, NonId
      <4> QED  BY <1>5, <2>1, <3>3, <4>1
    <3> QED  BY <3>1, <3>2, <3>3
  <2>2. ASSUME \A g \in Elem : onTarget(g), NEW j \in 0..last
        PROVE  pen[j] = 0
    <3>1. CASE j = 0
      BY <1>3, <2>2, <3>1, DimsAssumption DEF Elem
    <3>2. CASE j-1 \in Idx
      <4>1. s[j-1] \in Elem
        BY <3>2 DEF Elem, NonId
      <4>2. pen[(j-1)+1] = 0
        BY <1>4, <2>2, <3>2, <4>1
      <4> QED  BY <4>2
    <3>3. CASE j-k \in NonId
      <4>1. j-k \in Elem
        BY <3>3 DEF Elem, NonId
      <4>2. pen[(j-k)+k] = 0
        BY <1>5, <2>2, <3>3, <4>1
      <4> QED  BY <1>1, <4>2
    <3> QED  BY <1>6, <3>1, <3>2, <3>3
  <2> QED  BY <2>1, <2>2
<1>11. (\A g \in Elem : onTarget(g)) <=> Balanced(mem, q)
  BY DEF Balanced
<1>12. Efs(m, s, q) \in Nat
  BY <1>1, <1>2, <1>8, <1>9
<1> QED  BY <1>8, <1>9, <1>10, <1>11, <1>12 DEF mem
-----------------------------------------------------------------------------
(* Induction along a loop, over the set of the turns at which what is to   *)
(* be shown holds.                                                         *)
LEMMA AlongLoop ==
  ASSUME NEW last \in Nat, NEW S, 0 \in S,
         \A i \in 1..last : i-1 \in S => i \in S
  PROVE  0..last \subseteq S
<1> DEFINE Bad == { i \in Nat : i <= last /\ i \notin S }
<1>1. SUFFICES ASSUME Bad # {} PROVE FALSE
  OBVIOUS
<1>2. PICK i \in Bad : \A y \in Bad : i <= y
  BY <1>1, LeastNat
<1>3. i \in 1..last /\ i-1 \in Nat /\ i-1 <= last /\ ~(i <= i-1)
  BY <1>2
<1>4. i-1 \notin Bad
  BY <1>2, <1>3, Zenon
<1> QED  BY <1>2, <1>3, <1>4

(* The values of an int, and what Wrap does to a number: it adds a         *)
(* multiple of the number of these values, and gives one of them.          *)
Ints == (-IntMax - 1)..IntMax
Values == 2 * (IntMax + 1)

(* Wrap gives a value of an int, off by a multiple of their number.        *)
LEMMA WrapCongruent ==
  ASSUME NEW x \in Int
  PROVE  Wrap(x) \in Ints /\ \E z \in Int : Wrap(x) = x + z * Values
<1>1. IntMax \in Nat
  BY MetricsAssumption
<1>2. CASE x <= IntMax /\ x >= -IntMax - 1
  <2>1. Wrap(x) = x /\ x = x + 0 * Values
    BY <1>1, <1>2 DEF Wrap, Values
  <2> QED  BY <1>1, <1>2, <2>1 DEF Ints
<1>3. CASE ~(x <= IntMax /\ x >= -IntMax - 1)
  <2> DEFINE y == x + IntMax + 1
  <2>1. Wrap(x) = (y % Values) - (IntMax + 1)
    BY <1>3 DEF Wrap, Values
  <2>2. Values \in Nat /\ Values > 0 /\ y \in Int /\ Values = 2 * (IntMax + 1)
    BY <1>1 DEF Values
  <2> HIDE DEF y
  <2>3. /\ y % Values \in 0..(Values - 1)
        /\ y = Values * (y \div Values) + (y % Values)
        /\ y \div Values \in Int
    <3> HIDE DEF Values
    <3> QED  BY <2>2
  <2>4. Wrap(x) \in Ints
    BY <1>1, <2>1, <2>2, <2>3 DEF Ints
  <2>5. PICK d \in Int : y = Values * d + (y % Values)
    BY <2>3
  <2>6. -d \in Int /\ (-d) * Values = -(Values * d) /\ Values * d \in Int
    <3> HIDE DEF Values
    <3> QED  BY <2>2
  <2>7. y = x + IntMax + 1
    BY DEF y
  <2>8. Wrap(x) = x + (-d) * Values
    <3> HIDE DEF Values
    <3> QED  BY <1>1, <2>1, <2>2, <2>3, <2>5, <2>6, <2>7
  <2> QED  BY <2>4, <2>6, <2>8
<1> QED  BY <1>2, <1>3

(* Two ints that differ by such a multiple are the same.                   *)
LEMMA WrapUnique ==
  ASSUME NEW x \in Ints, NEW y \in Ints, NEW z \in Int, x = y + z * Values
  PROVE  x = y
<1>1. IntMax \in Nat /\ Values \in Nat /\ Values > 0
      /\ x \in Int /\ y \in Int /\ x - y < Values /\ y - x < Values
  BY MetricsAssumption DEF Ints, Values
<1> HIDE DEF Values
<1>2. CASE z >= 1
  <2>1. z * Values >= Values
    BY <1>1, <1>2
  <2> QED  BY <1>1, <2>1
<1>3. CASE z <= -1
  <2>1. z * Values <= -Values
    BY <1>1, <1>3
  <2> QED  BY <1>1, <2>1
<1>4. CASE z = 0
  BY <1>1, <1>4
<1> QED  BY <1>2, <1>3, <1>4

(* It does not matter in which order two numbers are added.                *)
LEMMA WrapCommutes ==
  ASSUME NEW x \in Int, NEW a \in Int, NEW b \in Int
  PROVE  Wrap(Wrap(x + a) + b) = Wrap(Wrap(x + b) + a)
<1>1. PICK z1 \in Int : Wrap(x + a) = x + a + z1 * Values
  BY WrapCongruent
<1>2. PICK z2 \in Int : Wrap(x + b) = x + b + z2 * Values
  BY WrapCongruent
<1>3. Wrap(x + a) \in Int /\ Wrap(x + b) \in Int
  BY WrapType
<1>4. PICK z3 \in Int : Wrap(Wrap(x + a) + b) = Wrap(x + a) + b + z3 * Values
  BY <1>3, WrapCongruent
<1>5. PICK z4 \in Int : Wrap(Wrap(x + b) + a) = Wrap(x + b) + a + z4 * Values
  BY <1>3, WrapCongruent
<1>6. Wrap(Wrap(x + a) + b) \in Ints /\ Wrap(Wrap(x + b) + a) \in Ints
  BY <1>3, WrapCongruent
<1> DEFINE z == z1 + z3 - z2 - z4
<1>7. Values \in Int
  BY MetricsAssumption DEF Values
<1> HIDE DEF Values
<1>8. z \in Int
      /\ z * Values = z1 * Values + z3 * Values - z2 * Values - z4 * Values
  BY <1>7
<1>9. /\ z1 * Values \in Int /\ z2 * Values \in Int
      /\ z3 * Values \in Int /\ z4 * Values \in Int
  BY <1>7
<1> HIDE DEF z
<1>10. Wrap(Wrap(x + a) + b) = Wrap(Wrap(x + b) + a) + z * Values
  BY <1>1, <1>2, <1>4, <1>5, <1>8, <1>9
<1> QED  BY <1>6, <1>8, <1>10, WrapUnique

(* So it does not matter in which order two penalties are taken in.        *)
LEMMA CombineCommutes ==
  ASSUME NEW m, NEW x \in Int, NEW a \in Int, NEW b \in Int
  PROVE  Combine(m, Combine(m, x, a), b) = Combine(m, Combine(m, x, b), a)
<1>1. CASE m = "LINF"
  BY <1>1 DEF Combine, TakeLarger
<1>2. CASE m # "LINF"
  BY <1>2, WrapCommutes DEF Combine, TakeLarger
<1> QED  BY <1>1, <1>2

(* An error that one more penalty of 0 does not change.                    *)
Settled(m, x) == IF m = "LINF" THEN x \in Nat ELSE x \in Ints

(* Another penalty of 0 leaves it as it is.                                *)
LEMMA CombineZero ==
  ASSUME NEW m, NEW x, Settled(m, x)
  PROVE  Combine(m, x, 0) = x /\ x \in Int
  BY MetricsAssumption DEF Combine, TakeLarger, Settled, Ints, Wrap

(* A penalty taken in gives such an error again.                           *)
LEMMA CombineSettled ==
  ASSUME NEW m, NEW x \in Int, NEW a \in Int,
         m = "LINF" => x \in Nat /\ a \in Nat
  PROVE  Settled(m, Combine(m, x, a))
<1>1. CASE m = "LINF"
  BY <1>1 DEF Combine, TakeLarger, Settled
<1>2. CASE m # "LINF"
  BY <1>2, WrapCongruent DEF Combine, TakeLarger, Settled
<1> QED  BY <1>1, <1>2

(* What the loop does in each of its turns.                                *)
Turns(m, pen, last, err) ==
  /\ err[0] = pen[0]
  /\ \A i \in 1..last : err[i] = Combine(m, err[i-1], pen[i])

(* The loop's error after each turn is that of one turn more.              *)
LEMMA ErrorUpToTurns ==
  ASSUME NEW m, NEW pen, NEW last \in Nat
  PROVE  Turns(m, pen, last, ErrorUpTo(m, pen, last))
<1> DEFINE err == ErrorUpTo(m, pen, last)
<1>1. err = [ i \in 0..last |->
                IF i = 0 THEN pen[0] ELSE Combine(m, err[i-1], pen[i]) ]
  BY ErrorUpToEquation
<1> HIDE DEF err
<1>2. err[0] = pen[0]
  BY <1>1
<1>3. \A i \in 1..last : err[i] = Combine(m, err[i-1], pen[i])
  BY <1>1
<1> QED  BY <1>2, <1>3 DEF err, Turns

(* The error after each penalty, if none of them is one that a metric does *)
(* not give.                                                               *)
LEMMA LoopSettled ==
  ASSUME NEW m, NEW last \in Nat, NEW pen \in [0..last -> Int],
         m = "LINF" => pen \in [0..last -> Nat], Settled(m, pen[0])
  PROVE  \A i \in 0..last : Settled(m, ErrorUpTo(m, pen, last)[i])
<1> DEFINE err == ErrorUpTo(m, pen, last)
<1>1. Turns(m, pen, last, err)
  BY ErrorUpToTurns
<1> HIDE DEF err
<1> DEFINE S == { i \in 0..last : Settled(m, err[i]) }
<1>2. 0 \in S
  BY <1>1 DEF Turns
<1>3. ASSUME NEW i \in 1..last, i-1 \in S PROVE i \in S
  <2>1. err[i] = Combine(m, err[i-1], pen[i])
    BY <1>1 DEF Turns
  <2>2. Settled(m, err[i-1]) /\ i \in 0..last
    BY <1>3
  <2>3. err[i-1] \in Int /\ pen[i] \in Int
    BY <2>2, CombineZero
  <2>4. m = "LINF" => err[i-1] \in Nat /\ pen[i] \in Nat
    BY <2>2 DEF Settled
  <2> QED  BY <2>1, <2>2, <2>3, <2>4, CombineSettled
<1> HIDE DEF S
<1>4. 0..last \subseteq S
  BY <1>2, <1>3, AlongLoop
<1> QED  BY <1>4 DEF S, err

(* A penalty may be taken in earlier, in a turn that had none to take.     *)
LEMMA EarlierPenalty ==
  ASSUME NEW m, NEW last \in Nat, NEW pen \in [0..last -> Int],
         m = "LINF" => pen \in [0..last -> Nat], Settled(m, pen[0]),
         NEW a \in 1..last, NEW b \in 1..last, a < b, pen[a] = 0
  PROVE  ErrorUpTo(m, [ pen EXCEPT ![a] = pen[b], ![b] = 0 ], last)[last] =
           ErrorUpTo(m, pen, last)[last]
<1> DEFINE moved == [ pen EXCEPT ![a] = pen[b], ![b] = 0 ]
<1>0. \A i \in 0..last :
        moved[i] = IF i = a THEN pen[b] ELSE IF i = b THEN 0 ELSE pen[i]
  OBVIOUS
<1> HIDE DEF moved
<1> DEFINE err == ErrorUpTo(m, pen, last)
<1>1. Turns(m, pen, last, err)
  BY ErrorUpToTurns
<1> DEFINE new == ErrorUpTo(m, moved, last)
<1>2. Turns(m, moved, last, new)
  BY ErrorUpToTurns
<1>3. \A i \in 0..last : Settled(m, err[i]) /\ err[i] \in Int
  BY LoopSettled, CombineZero
<1> HIDE DEF err, new
<1> DEFINE between(i) == IF i \in a..(b-1) THEN Combine(m, err[i], pen[b])
                         ELSE err[i]
           S == { i \in 0..last : new[i] = between(i) }
<1>4. 0 \in S
  BY <1>0, <1>1, <1>2 DEF Turns
<1>5. ASSUME NEW i \in 1..last, i-1 \in S PROVE i \in S
  <2>1. /\ i-1 \in 0..last /\ i \in 0..last
        /\ err[i] = Combine(m, err[i-1], pen[i])
        /\ new[i] = Combine(m, new[i-1], moved[i])
        /\ pen[i] \in Int /\ pen[b] \in Int
    BY <1>1, <1>2 DEF Turns
  <2>2. CASE i < a \/ i > b
    <3>1. moved[i] = pen[i] /\ new[i-1] = err[i-1]
      BY <1>0, <1>5, <2>1, <2>2
    <3> QED  BY <2>1, <2>2, <3>1
  <2>3. CASE i = a
    <3>1. moved[i] = pen[b] /\ new[i-1] = err[i-1] /\ pen[i] = 0
      BY <1>0, <1>5, <2>1, <2>3
    <3>2. err[i] = err[i-1]
      BY <1>3, <2>1, <3>1, CombineZero
    <3> QED  BY <2>1, <2>3, <3>1, <3>2
  <2>4. CASE i \in (a+1)..(b-1)
    <3>1. moved[i] = pen[i] /\ new[i-1] = Combine(m, err[i-1], pen[b])
      BY <1>0, <1>5, <2>1, <2>4
    <3>2. Combine(m, Combine(m, err[i-1], pen[b]), pen[i])
            = Combine(m, Combine(m, err[i-1], pen[i]), pen[b])
      BY <1>3, <2>1, CombineCommutes
    <3> QED  BY <2>1, <2>4, <3>1, <3>2
  <2>5. CASE i = b
    <3>1. moved[i] = 0 /\ new[i-1] = Combine(m, err[i-1], pen[b])
      BY <1>0, <1>5, <2>1, <2>5
    <3>2. new[i-1] = err[i]
      BY <2>1, <2>5, <3>1
    <3>3. new[i] = err[i]
      BY <1>3, <2>1, <3>1, <3>2, CombineZero
    <3> QED  BY <2>1, <2>5, <3>3
  <2> QED  BY <2>1, <2>2, <2>3, <2>4, <2>5
<1> HIDE DEF S
<1>6. 0..last \subseteq S
  BY <1>4, <1>5, AlongLoop
<1>7. new[last] = between(last)
  BY <1>6 DEF S
<1>8. new[last] = err[last]
  BY <1>7
<1> QED  BY <1>8 DEF moved, err, new

(* Turns without a penalty after the first do not count.                   *)
LEMMA TurnsWithout ==
  ASSUME NEW m, NEW d \in Nat, NEW last \in Nat,
         NEW pen \in [0..(last+d) -> Int], NEW short \in [0..last -> Int],
         Settled(m, pen[0]), short[0] = pen[0],
         \A i \in 1..d : pen[i] = 0,
         \A i \in 1..last : pen[i+d] = short[i]
  PROVE  ErrorUpTo(m, pen, last+d)[last+d] = ErrorUpTo(m, short, last)[last]
<1>0. last+d \in Nat
  OBVIOUS
<1> DEFINE err == ErrorUpTo(m, pen, last+d)
<1>1. Turns(m, pen, last+d, err)
  BY <1>0, ErrorUpToTurns
<1> DEFINE new == ErrorUpTo(m, short, last)
<1>2. Turns(m, short, last, new)
  BY ErrorUpToTurns
<1> HIDE DEF err, new
<1> DEFINE R == { i \in 0..d : err[i] = pen[0] }
           S == { i \in 0..last : err[i+d] = new[i] }
<1>3. 0 \in R
  BY <1>1 DEF Turns
<1>4. ASSUME NEW i \in 1..d, i-1 \in R PROVE i \in R
  <2>1. err[i] = Combine(m, err[i-1], pen[i]) /\ pen[i] = 0
    BY <1>1 DEF Turns
  <2> QED  BY <1>4, <2>1, CombineZero
<1>5. d \in R
  <2> HIDE DEF R
  <2>1. 0..d \subseteq R
    BY <1>3, <1>4, AlongLoop
  <2> QED  BY <2>1
<1>6. 0 \in S
  BY <1>2, <1>5 DEF Turns
<1>7. ASSUME NEW i \in 1..last, i-1 \in S PROVE i \in S
  <2>1. i+d \in 1..(last+d) /\ (i+d)-1 = (i-1)+d
    OBVIOUS
  <2>2. /\ err[i+d] = Combine(m, err[(i-1)+d], pen[i+d])
        /\ new[i] = Combine(m, new[i-1], short[i])
    BY <1>1, <1>2, <2>1 DEF Turns
  <2> QED  BY <1>7, <2>2
<1>8. last \in S
  <2> HIDE DEF S
  <2>1. 0..last \subseteq S
    BY <1>6, <1>7, AlongLoop
  <2> QED  BY <2>1
<1> QED  BY <1>8 DEF err, new

(* A penalty has the range of an int, if the deviation has, and that of    *)
(* the largest deviation is not negative.                                  *)
LEMMA PenaltySettled ==
  ASSUME NEW m \in Metrics, NEW dev \in -k..k
  PROVE  Settled(m, Penalty(m, dev))
<1>1. k \in 0..IntMax /\ IntMax \in Nat /\ m \in {"l1", "L2", "L4", "LINF"}
  BY DimsAssumption, MetricsAssumption
<1>2. Abs(dev) \in 0..k
  BY <1>1 DEF Abs
<1>3. ASSUME NEW x \in Int PROVE Square(x) \in Ints
  BY WrapCongruent DEF Square
<1>4. Square(Abs(dev)) \in Int
  BY <1>1, <1>2, <1>3 DEF Ints
<1>5. Square(Abs(dev)) \in Ints /\ Square(Square(Abs(dev))) \in Ints
  BY <1>2, <1>3, <1>4
<1>6. Abs(dev) \in Ints
  BY <1>1, <1>2 DEF Ints
<1> QED  BY <1>1, <1>2, <1>5, <1>6 DEF Penalty, Quartic, Settled

(* Between efs_from_member and efs: the first j entries of the list have   *)
(* turns of their own, and their elements have none among the elements.    *)
Partway(m, s, q, j) ==
  [ i \in 0..(k+n-1) |->
      IF i = 0 THEN Penalty(m, k - q[0])
      ELSE IF i <= k THEN IF i <= j THEN Penalty(m, lam - q[s[i-1]]) ELSE 0
      ELSE IF \E l \in Idx : l < j /\ s[l] = i-k THEN 0
      ELSE MemberPenalty(m, MemberOf(s), q)[i-k] ]

(* One more entry moves one penalty from the elements to the list.         *)
LEMMA PartwayStep ==
  ASSUME NEW m \in Metrics, NEW s \in Candidate,
         NEW q \in [Elem -> 0..k], NEW j \in Idx
  PROVE  ErrorUpTo(m, Partway(m, s, q, j+1), k+n-1)[k+n-1] =
           ErrorUpTo(m, Partway(m, s, q, j), k+n-1)[k+n-1]
<1> DEFINE last == k+n-1
           pen == Partway(m, s, q, j)
           new == Partway(m, s, q, j+1)
           member == MemberPenalty(m, MemberOf(s), q)
           a == j+1
           b == s[j]+k
<1>1. k \in Nat /\ n \in Nat /\ k \in 1..(n-1) /\ last \in Nat /\ j \in Nat
      /\ j < k
  BY DimsAssumption DEF Idx
<1>2. /\ s \in [Idx -> NonId] /\ s[j] \in 1..(n-1)
      /\ \A l \in Idx : s[l] = s[j] => l = j
  BY DEF Candidate, NonId
<1>3. a \in 1..last /\ b \in 1..last /\ a < b /\ a <= k /\ b > k
  BY <1>1, <1>2
<1>4. ASSUME NEW g \in Elem
      PROVE  /\ member[g] = Penalty(m, Target(MemberOf(s), g) - q[g])
             /\ member[g] \in Int /\ (m = "LINF" => member[g] \in Nat)
  <2>1. Target(MemberOf(s), g) - q[g] \in Int
    BY DimsAssumption DEF Target
  <2>2. member[g] = Penalty(m, Target(MemberOf(s), g) - q[g])
    BY DEF MemberPenalty
  <2>3. m = "LINF" => member[g] = Abs(Target(MemberOf(s), g) - q[g])
    BY <2>2 DEF Penalty, Quartic
  <2> QED  BY <2>1, <2>2, <2>3, PenaltyType DEF Abs
<1>5. ASSUME NEW dev \in Int
      PROVE  /\ Penalty(m, dev) \in Int
             /\ m = "LINF" => Penalty(m, dev) \in Nat
  <2>1. m = "LINF" => Penalty(m, dev) = Abs(dev)
    BY DEF Penalty, Quartic
  <2> QED  BY <2>1, PenaltyType DEF Abs
<1>6. k - q[0] \in -k..k
  BY <1>1 DEF Elem
<1>7. ASSUME NEW i \in 0..last
      PROVE  pen[i] \in Int /\ (m = "LINF" => pen[i] \in Nat)
  <2>1. CASE i = 0
    <3>1. pen[i] = Penalty(m, k - q[0])
      BY <2>1 DEF Partway
    <3> QED  BY <1>1, <1>5, <1>6, <3>1
  <2>2. CASE i # 0 /\ i <= k
    <3>1. i-1 \in Idx
      BY <1>1, <2>2 DEF Idx
    <3>2. s[i-1] \in Elem
      BY <1>2, <3>1 DEF Elem, NonId
    <3>3. lam - q[s[i-1]] \in Int
      BY <3>2, DimsAssumption
    <3>4. pen[i] = IF i <= j THEN Penalty(m, lam - q[s[i-1]]) ELSE 0
      BY <2>2 DEF Partway
    <3>5. CASE i <= j
      BY <1>5, <3>3, <3>4, <3>5
    <3>6. CASE ~(i <= j)
      BY <3>4, <3>6
    <3> QED  BY <3>5, <3>6
  <2>3. CASE i > k
    <3>1. i-k \in Elem
      BY <1>1, <2>3 DEF Elem
    <3>2. pen[i] = 0 \/ pen[i] = member[i-k]
      BY <1>1, <2>3 DEF Partway
    <3> QED  BY <1>4, <3>1, <3>2
  <2> QED  BY <1>1, <2>1, <2>2, <2>3
<1>8. pen \in [0..last -> Int] /\ (m = "LINF" => pen \in [0..last -> Nat])
  <2>1. pen = [ i \in 0..last |-> pen[i] ]
    BY DEF Partway
  <2> HIDE DEF pen, last
  <2> QED  BY <1>7, <2>1
<1>9. Settled(m, pen[0])
  <2>1. pen[0] = Penalty(m, k - q[0])
    BY <1>1 DEF Partway
  <2> QED  BY <1>6, <2>1, PenaltySettled
<1>10. pen[a] = 0 /\ new[a] = Penalty(m, lam - q[s[j]])
  BY <1>1, <1>3 DEF Partway
<1>11. pen[b] = Penalty(m, lam - q[s[j]]) /\ new[b] = 0
  <2>1. ~ \E l \in Idx : l < j /\ s[l] = b-k
    BY <1>1, <1>2
  <2>2. \E l \in Idx : l < j+1 /\ s[l] = b-k
    BY <1>1, <1>2
  <2>3. pen[b] = member[b-k] /\ new[b] = 0
    <3> HIDE DEF b, member
    <3> QED  BY <1>1, <1>3, <2>1, <2>2 DEF Partway, member
  <2>4. b-k = s[j] /\ s[j] \in Elem /\ s[j] # 0 /\ MemberOf(s)[s[j]]
    BY <1>1, <1>2 DEF Elem, MemberOf
  <2>5. Target(MemberOf(s), s[j]) = lam
    BY <2>4 DEF Target
  <2> QED  BY <1>4, <2>3, <2>4, <2>5
<1>12. ASSUME NEW i \in 0..last, i # a, i # b
       PROVE  new[i] = pen[i]
  <2>1. i <= j+1 <=> i <= j
    BY <1>1, <1>12
  <2>2. CASE i <= k
    BY <2>1, <2>2 DEF Partway
  <2>3. CASE i > k
    <3>1. s[j] # i-k
      BY <1>1, <1>2, <1>12
    <3>2. ASSUME NEW l \in Idx PROVE l < j+1 /\ s[l] = i-k <=> l < j /\ s[l] = i-k
      BY <1>1, <3>1 DEF Idx
    <3> QED  BY <1>1, <2>3, <3>2 DEF Partway
  <2> QED  BY <1>1, <2>2, <2>3
<1>13. new = [ pen EXCEPT ![a] = pen[b], ![b] = 0 ]
  <2>1. new = [ i \in 0..last |-> new[i] ]
    BY DEF Partway
  <2> HIDE DEF pen, new, a, b, last
  <2> QED  BY <1>3, <1>8, <1>10, <1>11, <1>12, <2>1
<1> HIDE DEF pen, new, last, a, b
<1>14. ErrorUpTo(m, [ pen EXCEPT ![a] = pen[b], ![b] = 0 ], last)[last]
         = ErrorUpTo(m, pen, last)[last]
  BY <1>1, <1>3, <1>8, <1>9, <1>10, EarlierPenalty
<1> QED  BY <1>13, <1>14 DEF pen, new, last

(* efs and efs_from_member, which take the same penalties in different     *)
(* orders, return the same error, wrapped or not.                          *)
LEMMA EfsAgrees ==
  ASSUME NEW m \in Metrics, NEW s \in Candidate,
         NEW q \in [Elem -> 0..k]
  PROVE  Efs(m, s, q) = EfsFromMember(m, MemberOf(s), q)
<1> DEFINE last == k+n-1
           total(j) == ErrorUpTo(m, Partway(m, s, q, j), last)[last]
           S == { j \in 0..k : total(j) = total(0) }
           short == MemberPenalty(m, MemberOf(s), q)
           pen == Partway(m, s, q, 0)
<1>1. k \in Nat /\ n-1 \in Nat /\ last \in Nat /\ last = (n-1)+k
      /\ Elem = 0..(n-1) /\ s \in [Idx -> NonId] /\ 0 \in Elem
  BY DimsAssumption DEF Elem, Candidate
<1>2. 0 \in S
  BY <1>1
<1>3. ASSUME NEW j \in 1..k, j-1 \in S PROVE j \in S
  <2>1. j-1 \in Idx /\ (j-1)+1 = j /\ j \in 0..k
    BY <1>1 DEF Idx
  <2>2. total((j-1)+1) = total(j-1)
    BY <2>1, PartwayStep
  <2> QED  BY <1>3, <2>1, <2>2
<1>4. 0..k \subseteq S
  <2> HIDE DEF S
  <2> QED  BY <1>1, <1>2, <1>3, AlongLoop
<1>5. total(k) = total(0)
  BY <1>1, <1>4
<1>6. Partway(m, s, q, k) = EfsPenalty(m, s, q)
  <2>1. ASSUME NEW i \in 0..last
        PROVE  Partway(m, s, q, k)[i] = EfsPenalty(m, s, q)[i]
    <3>1. CASE i <= k
      BY <3>1 DEF Partway, EfsPenalty
    <3>2. CASE i > k
      <4>1. i-k \in Elem /\ i-k # 0
        BY <1>1, <3>2
      <4>2. (\E l \in Idx : l < k /\ s[l] = i-k) <=> MemberOf(s)[i-k]
        BY <1>1, <4>1 DEF MemberOf, Idx
      <4>3. ~MemberOf(s)[i-k] => short[i-k] = Penalty(m, mu - q[i-k])
        BY <4>1 DEF MemberPenalty, Target
      <4> QED  BY <1>1, <3>2, <4>2, <4>3 DEF Partway, EfsPenalty
    <3> QED  BY <1>1, <3>1, <3>2
  <2> QED  BY <2>1 DEF Partway, EfsPenalty
<1>7. total(k) = Efs(m, s, q)
  BY <1>6 DEF Efs
<1>8. ASSUME NEW g \in Elem PROVE short[g] \in Int
  <2>1. Target(MemberOf(s), g) - q[g] \in Int
    BY DimsAssumption DEF Target
  <2> QED  BY <2>1, PenaltyType DEF MemberPenalty
<1>9. short \in [0..(n-1) -> Int]
  BY <1>1, <1>8 DEF MemberPenalty
<1>10. /\ pen[0] = short[0] /\ pen[0] = Penalty(m, k - q[0])
       /\ \A i \in 1..k : pen[i] = 0
       /\ \A i \in 1..(n-1) : pen[i+k] = short[i]
  <2>1. pen[0] = Penalty(m, k - q[0]) /\ short[0] = Penalty(m, k - q[0])
    BY <1>1 DEF Partway, MemberPenalty, Target
  <2>2. \A i \in 1..k : pen[i] = 0
    BY <1>1 DEF Partway
  <2>3. ASSUME NEW i \in 1..(n-1) PROVE pen[i+k] = short[i]
    <3>1. i+k \in 0..last /\ i+k > k /\ i+k # 0 /\ (i+k)-k = i
      BY <1>1
    <3>2. ~ \E l \in Idx : l < 0 /\ s[l] = (i+k)-k
      BY DEF Idx
    <3> DEFINE x == i+k
    <3> HIDE DEF short, x
    <3>3. x \in 0..last /\ x > k /\ x # 0 /\ ~(x <= k)
      BY <1>1, <3>1 DEF x
    <3>4. ~ \E l \in Idx : l < 0 /\ s[l] = x-k
      BY <3>2 DEF x
    <3>5. pen[x] = short[x-k]
      BY <3>3, <3>4 DEF Partway, short
    <3> QED  BY <3>1, <3>5 DEF x
  <2> QED  BY <2>1, <2>2, <2>3
<1>11. pen \in [0..last -> Int]
  <2>1. ASSUME NEW i \in 0..last PROVE pen[i] \in Int
    <3>1. CASE i = 0
      BY <1>8, <1>10, <3>1, <1>1
    <3>2. CASE i \in 1..k
      BY <1>10, <3>2
    <3>3. CASE i > k
      <4>1. i-k \in 1..(n-1) /\ (i-k)+k = i
        BY <1>1, <3>3
      <4>2. pen[(i-k)+k] = short[i-k]
        BY <1>10, <4>1
      <4> QED  BY <1>1, <1>8, <4>1, <4>2
    <3> QED  BY <1>1, <3>1, <3>2, <3>3
  <2>2. pen = [ i \in 0..last |-> pen[i] ]
    BY DEF Partway
  <2> HIDE DEF pen, last
  <2> QED  BY <2>1, <2>2
<1>12. Settled(m, pen[0])
  <2>1. k - q[0] \in -k..k
    BY <1>1
  <2> QED  BY <1>10, <2>1, PenaltySettled
<1>13. total(0) = EfsFromMember(m, MemberOf(s), q)
  <2> HIDE DEF pen, short, last
  <2> DEFINE N == n-1
  <2>0. /\ N \in Nat /\ k \in Nat
        /\ pen \in [0..(N+k) -> Int] /\ short \in [0..N -> Int]
        /\ Settled(m, pen[0]) /\ short[0] = pen[0]
        /\ \A i \in 1..k : pen[i] = 0
        /\ \A i \in 1..N : pen[i+k] = short[i]
    BY <1>1, <1>9, <1>10, <1>11, <1>12
  <2>1. ErrorUpTo(m, pen, N+k)[N+k] = ErrorUpTo(m, short, N)[N]
    <3> HIDE DEF N
    <3> QED  BY <2>0, TurnsWithout
  <2>2. ErrorUpTo(m, pen, last)[last] = ErrorUpTo(m, short, n-1)[n-1]
    BY <1>1, <2>1
  <2> QED  BY <2>2 DEF EfsFromMember, pen, short
<1> QED  BY <1>5, <1>7, <1>13

-----------------------------------------------------------------------------
(* One pass over the list counts the pairs with the entry at f and the     *)
(* other pairs: the two halves of Hits, each split by whether i = f.       *)
LEMMA HitsSplit ==
  ASSUME NEW s, NEW f \in Idx, NEW x, NEW g
  PROVE  Hits(s, x, g) =
           Cardinality(RightOf(s, f, x, g)) + Cardinality(LeftOf(s, f, x, g))
             + One(ct[s[f]][x] = g) + One(ct[x][s[f]] = g)
<1> DEFINE R == RightOf(s, f, x, g)
           L == LeftOf(s, f, x, g)
           CR == IF ct[s[f]][x] = g THEN {f} ELSE {}
           CL == IF ct[x][s[f]] = g THEN {f} ELSE {}
<1>1. /\ { i \in Idx : ct[s[i]][x] = g } = R \cup CR
      /\ { i \in Idx : ct[x][s[i]] = g } = L \cup CL
      /\ R \cap CR = {}
      /\ L \cap CL = {}
  BY DEF RightOf, LeftOf
<1>2. /\ IsFiniteSet(R) /\ Cardinality(R) \in Nat
      /\ IsFiniteSet(L) /\ Cardinality(L) \in Nat
  <2>1. R \in SUBSET Idx /\ L \in SUBSET Idx
    BY DEF RightOf, LeftOf
  <2> QED  BY <2>1, IdxFinite
<1>3. /\ IsFiniteSet(CR) /\ Cardinality(CR) = One(ct[s[f]][x] = g)
      /\ IsFiniteSet(CL) /\ Cardinality(CL) = One(ct[x][s[f]] = g)
  BY FS_Singleton, FS_EmptySet DEF One
<1>4. One(ct[s[f]][x] = g) \in Nat /\ One(ct[x][s[f]] = g) \in Nat
  BY DEF One
<1> HIDE DEF R, L, CR, CL
<1>5. /\ Cardinality(R \cup CR) = Cardinality(R) + Cardinality(CR)
      /\ Cardinality(L \cup CL) = Cardinality(L) + Cardinality(CL)
  BY <1>1, <1>2, <1>3, DisjointCount
<1>6. Hits(s, x, g) = Cardinality(R \cup CR) + Cardinality(L \cup CL)
  BY <1>1 DEF Hits
<1>7. Hits(s, x, g) = Cardinality(R) + Cardinality(L)
                        + One(ct[s[f]][x] = g) + One(ct[x][s[f]] = g)
  BY <1>2, <1>3, <1>4, <1>5, <1>6
<1> QED  BY <1>7 DEF R, L

(* adjust_sums with fac = 1 turns the sums of a list into those of the     *)
(* list with one entry exchanged, in any group and for any exchange.       *)
LEMMA AdjustExact ==
  ASSUME NEW s \in [Idx -> NonId], NEW m \in Mutation
  PROVE  AdjustSums(s, SumsOf(s), m, 1) = SumsOf(Swap(s, m))
<1> DEFINE f == m.first
           a == s[f]
           b == m.second
           t == Swap(s, m)
<1>1. /\ f \in Idx
      /\ t[f] = b
      /\ \A i \in Idx \ {f} : t[i] = s[i]
  BY DEF Mutation, Swap
<1>2. ASSUME NEW g \in Elem
      PROVE  SumsOf(s)[g] + 1 * ( Hits(s, b, g) - Hits(s, a, g)
                + One(ct[a][a] = g) + One(ct[b][b] = g)
                - One(ct[a][b] = g) - One(ct[b][a] = g) ) = SumsOf(t)[g]
  <2>1. /\ Without(t, f, g) = Without(s, f, g)
        /\ RightOf(t, f, b, g) = RightOf(s, f, b, g)
        /\ LeftOf(t, f, b, g) = LeftOf(s, f, b, g)
    BY <1>1 DEF Without, RightOf, LeftOf
  <2>2. Cardinality(PairsTo(s, g)) =
          Cardinality(Without(s, f, g)) + Cardinality(RightOf(s, f, a, g))
            + Cardinality(LeftOf(s, f, a, g)) + One(ct[a][a] = g)
    BY <1>1, PairsSplit
  <2>3. Cardinality(PairsTo(t, g)) =
          Cardinality(Without(s, f, g)) + Cardinality(RightOf(s, f, b, g))
            + Cardinality(LeftOf(s, f, b, g)) + One(ct[b][b] = g)
    BY <1>1, <2>1, PairsSplit
  <2>4. Hits(s, a, g) =
          Cardinality(RightOf(s, f, a, g)) + Cardinality(LeftOf(s, f, a, g))
            + One(ct[a][a] = g) + One(ct[a][a] = g)
    BY <1>1, HitsSplit
  <2>5. Hits(s, b, g) =
          Cardinality(RightOf(s, f, b, g)) + Cardinality(LeftOf(s, f, b, g))
            + One(ct[a][b] = g) + One(ct[b][a] = g)
    BY <1>1, HitsSplit
  <2>6. /\ Cardinality(Without(s, f, g)) \in Nat
        /\ \A x : /\ Cardinality(RightOf(s, f, x, g)) \in Nat
                  /\ Cardinality(LeftOf(s, f, x, g)) \in Nat
    <3>1. /\ Without(s, f, g) \in SUBSET (Idx \X Idx)
          /\ \A x : /\ RightOf(s, f, x, g) \in SUBSET Idx
                    /\ LeftOf(s, f, x, g) \in SUBSET Idx
      BY DEF Without, RightOf, LeftOf
    <3> QED  BY <3>1, IdxFinite
  <2>7. /\ One(ct[a][a] = g) \in Nat /\ One(ct[a][b] = g) \in Nat
        /\ One(ct[b][a] = g) \in Nat /\ One(ct[b][b] = g) \in Nat
    BY DEF One
  <2>8. /\ SumsOf(s)[g] = Cardinality(PairsTo(s, g))
        /\ SumsOf(t)[g] = Cardinality(PairsTo(t, g))
    BY DEF SumsOf
  <2> QED  BY <2>2, <2>3, <2>4, <2>5, <2>6, <2>7, <2>8
<1>3. SumsOf(t) = [ g \in Elem |-> SumsOf(t)[g] ]
  BY DEF SumsOf
<1> QED  BY <1>2, <1>3 DEF AdjustSums

(* adjust_sums with fac = -1 takes back what it did with fac = 1.          *)
LEMMA AdjustUndone ==
  ASSUME NEW s \in [Idx -> NonId], NEW q \in [Elem -> Int], NEW m \in Mutation
  PROVE  AdjustSums(s, AdjustSums(s, q, m, 1), m, -1) = q
<1>1. ASSUME NEW x, NEW g PROVE Hits(s, x, g) \in Int
  <2>1. /\ { i \in Idx : ct[s[i]][x] = g } \in SUBSET Idx
        /\ { i \in Idx : ct[x][s[i]] = g } \in SUBSET Idx
    OBVIOUS
  <2>2. /\ Cardinality({ i \in Idx : ct[s[i]][x] = g }) \in Nat
        /\ Cardinality({ i \in Idx : ct[x][s[i]] = g }) \in Nat
    BY <2>1, IdxFinite
  <2> QED  BY <2>2 DEF Hits
<1> DEFINE a == s[m.first]
           b == m.second
           change(g) == Hits(s, b, g) - Hits(s, a, g)
                          + One(ct[a][a] = g) + One(ct[b][b] = g)
                          - One(ct[a][b] = g) - One(ct[b][a] = g)
           once == AdjustSums(s, q, m, 1)
<1>2. ASSUME NEW g \in Elem PROVE change(g) \in Int
  <2>1. /\ One(ct[a][a] = g) \in Int /\ One(ct[a][b] = g) \in Int
        /\ One(ct[b][a] = g) \in Int /\ One(ct[b][b] = g) \in Int
    BY DEF One
  <2> QED  BY <1>1, <2>1
<1>3. ASSUME NEW g \in Elem PROVE once[g] = q[g] + 1 * change(g)
  BY DEF AdjustSums
<1>4. AdjustSums(s, once, m, -1) = [ g \in Elem |-> once[g] + (-1) * change(g) ]
  BY DEF AdjustSums
<1> HIDE DEF change, once
<1>5. ASSUME NEW g \in Elem PROVE once[g] + (-1) * change(g) = q[g]
  BY <1>2, <1>3
<1>6. AdjustSums(s, once, m, -1) = q
  BY <1>4, <1>5
<1> QED  BY <1>6 DEF once

-----------------------------------------------------------------------------
(* The swap that is being judged brings an element that is not in the list:*)
(* without it, undoing the swap would take a member out of is_member.      *)
SwapIsNew == pc = "judge" => mutation.second \notin Members(my_set)

(* TypeOK needs is_member to be right (or select_start_set could take an   *)
(* element twice), is_member needs SwapIsNew, and the sums are integers    *)
(* because they are exact.                                                 *)
IInv == TypeOK /\ MemberExact /\ SumsExact /\ SwapIsNew

(* What is called is one of the two functions, with a metric in use.       *)
LEMMA CallFacts ==
  ASSUME << variant, e >> \in Calls
  PROVE  variant \in {"search", "search_old"} /\ e \in Metrics
  BY CallsAssumption

(* increment() goes from a swap to a swap: never to the identity.          *)
LEMMA IncrementType ==
  ASSUME NEW m \in Mutation PROVE Increment(m) \in Mutation
<1>1. m.first \in 0..(k-1) /\ m.second \in 1..(n-1)
  BY DEF Mutation, Idx, NonId
<1>2. Increment(m).first \in 0..(k-1) /\ Increment(m).second \in 1..(n-1)
  BY <1>1, DimsAssumption DEF Increment
<1> QED  BY <1>2 DEF Increment, Mutation, Idx, NonId

(* Once filled, the list is a candidate.                                   *)
LEMMA FilledIsCandidate ==
  ASSUME NEW s \in [Idx -> NonId \cup {-1}],
         \A i \in Idx : s[i] = -1 <=> i >= k,
         \A i, j \in Idx : s[i] = s[j] /\ i < k => i = j
  PROVE  s \in Candidate
<1>1. \A i \in Idx : i < k /\ ~(i >= k)
  BY DimsAssumption DEF Idx
<1>2. \A i \in Idx : s[i] \in NonId
  BY <1>1
<1> QED  BY <1>1, <1>2 DEF Candidate

(* And a candidate is a filled list.                                       *)
LEMMA CandidateIsFilled ==
  ASSUME NEW s \in Candidate
  PROVE  /\ s \in [Idx -> NonId \cup {-1}]
         /\ \A i \in Idx : s[i] = -1 <=> i >= k
         /\ \A i, j \in Idx : s[i] = s[j] /\ i < k => i = j
  BY DimsAssumption DEF Candidate, Idx, NonId

(* Exchanging an entry for a new element leaves the elements distinct, and *)
(* changes is_member in two places.                                        *)
LEMMA SwapCandidate ==
  ASSUME NEW s \in Candidate, NEW m \in Mutation,
         m.second \notin Members(s)
  PROVE  /\ Swap(s, m) \in Candidate
         /\ MemberOf(Swap(s, m)) =
              [ MemberOf(s) EXCEPT ![s[m.first]] = FALSE, ![m.second] = TRUE ]
         /\ MemberOf(s) =
              [ MemberOf(Swap(s, m)) EXCEPT ![s[m.first]] = TRUE,
                                            ![m.second] = FALSE ]
<1> DEFINE t == Swap(s, m)
<1>1. m.first \in Idx /\ m.second \in NonId
  BY DEF Mutation
<1>2. /\ t \in [Idx -> NonId]
      /\ t[m.first] = m.second
      /\ \A i \in Idx \ {m.first} : t[i] = s[i]
      /\ s \in [Idx -> NonId]
  BY <1>1, CandidateType DEF Swap
<1>3. /\ \A i \in Idx : s[i] # m.second
      /\ \A i, j \in Idx : s[i] = s[j] => i = j
  BY CandidateType DEF Members
<1> HIDE DEF t
<1>4. t \in Candidate
  BY <1>1, <1>2, <1>3 DEF Candidate
<1>5. /\ s[m.first] \in Elem /\ m.second \in Elem /\ s[m.first] # m.second
      /\ MemberOf(t) \in [Elem -> BOOLEAN]
      /\ MemberOf(s) \in [Elem -> BOOLEAN]
  BY <1>1, <1>2, <1>3, ElemParts DEF MemberOf
<1>6. ASSUME NEW x \in Elem
      PROVE  /\ x = m.second => MemberOf(t)[x] /\ ~MemberOf(s)[x]
             /\ x = s[m.first] => ~MemberOf(t)[x] /\ MemberOf(s)[x]
             /\ x # m.second /\ x # s[m.first]
                  => (MemberOf(t)[x] <=> MemberOf(s)[x])
  <2>1. /\ MemberOf(t)[x] <=> \E i \in Idx : t[i] = x
        /\ MemberOf(s)[x] <=> \E i \in Idx : s[i] = x
    BY DEF MemberOf
  <2>2. x = m.second => MemberOf(t)[x] /\ ~MemberOf(s)[x]
    BY <1>1, <1>2, <1>3, <2>1
  <2>3. x = s[m.first] => ~MemberOf(t)[x] /\ MemberOf(s)[x]
    BY <1>1, <1>2, <1>3, <2>1
  <2>4. x # m.second /\ x # s[m.first] => (MemberOf(t)[x] <=> MemberOf(s)[x])
    BY <1>1, <1>2, <2>1
  <2> QED  BY <2>2, <2>3, <2>4
<1>7. MemberOf(t) =
        [ MemberOf(s) EXCEPT ![s[m.first]] = FALSE, ![m.second] = TRUE ]
  BY <1>5, <1>6
<1>8. MemberOf(s) =
        [ MemberOf(t) EXCEPT ![s[m.first]] = TRUE, ![m.second] = FALSE ]
  BY <1>5, <1>6
<1> QED  BY <1>4, <1>7, <1>8 DEF t

-----------------------------------------------------------------------------
(* A trial begins in the invariant.                                        *)
LEMMA InitInv == Init => IInv
<1> SUFFICES ASSUME Init PROVE IInv
  OBVIOUS
<1> USE DEF Init
<1>1. 0 \in Elem /\ 0 \in 0..k /\ 0 \in Idx /\ 1 \in NonId
  BY DimsAssumption DEF Elem, Idx, NonId
<1>2. my_set \in Partial
  BY DEF Partial, Idx
<1>3. [ first |-> 0, second |-> 1 ] \in Mutation
  BY <1>1 DEF Mutation
<1>4. /\ is_member \in [Elem -> BOOLEAN] /\ sums \in [Elem -> Int]
      /\ << variant, e >> \in Calls
  BY CallsAssumption
<1>5. TypeOK
  BY <1>1, <1>2, <1>3, <1>4 DEF TypeOK
<1>6. is_member = MemberOf(my_set)
  <2>1. ASSUME NEW x \in Elem PROVE MemberOf(my_set)[x] = FALSE
    BY DEF MemberOf, Elem
  <2>2. MemberOf(my_set) = [ x \in Elem |-> MemberOf(my_set)[x] ]
    BY DEF MemberOf
  <2> QED  BY <2>1, <2>2
<1> QED  BY <1>5, <1>6 DEF IInv, MemberExact, SumsExact, SwapIsNew

(* What IInv says outside select_start_set.                                *)
LEMMA InvFacts ==
  ASSUME IInv, pc # "select"
  PROVE  /\ my_set \in Candidate /\ my_set \in [Idx -> NonId] /\ filled = k
         /\ Current \in Candidate
         /\ is_member = MemberOf(Current)
         /\ sums = SumsOf(Current)
<1>1. filled = k /\ my_set \in Partial
  BY DEF IInv, TypeOK
<1>2. my_set \in Candidate
  BY <1>1, FilledIsCandidate DEF Partial
<1> QED  BY <1>1, <1>2, CandidateType DEF IInv, MemberExact, SumsExact

(* While it judges a swap, the search holds the sums and the vector of the *)
(* list with the swap made.                                                *)
LEMMA JudgeFacts ==
  ASSUME IInv, pc = "judge"
  PROVE  /\ mutation.second \notin Members(my_set)
         /\ Current = Swap(my_set, mutation)
  BY DEF IInv, SwapIsNew, Current

(* Drawing an element touches nothing the invariant is about.              *)
LEMMA DrawInv == IInv /\ Draw => IInv'
<1> SUFFICES ASSUME IInv, Draw PROVE IInv'
  OBVIOUS
<1>1. new_member' \in Elem
  BY ElemParts DEF Draw
<1>2. UNCHANGED << variant, e, pc, my_set, is_member, filled, sums, cur_error,
                   new_error, changed_val, initial_mutation, mutation,
                   first_time >>
  BY DEF Draw, scanning
<1>3. TypeOK'
  BY <1>1, <1>2 DEF IInv, TypeOK, Partial
<1>4. MemberExact' /\ SumsExact' /\ SwapIsNew'
  BY <1>2 DEF IInv, MemberExact, SumsExact, SwapIsNew, Current
<1> QED  BY <1>3, <1>4 DEF IInv

(* The element taken is new, so the list stays distinct and is_member true *)
(* to it.                                                                  *)
LEMMA TakeInv == IInv /\ Take => IInv'
<1> SUFFICES ASSUME IInv, Take PROVE IInv'
  OBVIOUS
<1> USE DEF Take, scanning
<1>1. /\ my_set \in [Idx -> NonId \cup {-1}]
      /\ \A i \in Idx : my_set[i] = -1 <=> i >= filled
      /\ \A i, j \in Idx : my_set[i] = my_set[j] /\ i < filled => i = j
      /\ filled \in 0..k /\ filled < k
      /\ new_member \in NonId /\ ~is_member[new_member]
      /\ is_member = MemberOf(my_set)
  BY ElemParts DEF IInv, TypeOK, Partial, MemberExact
<1>2. /\ filled \in Idx /\ filled' \in 0..k /\ new_member \in Elem
      /\ new_member # -1
  BY <1>1, ElemParts, DimsAssumption DEF Idx, NonId
<1>3. \A i \in Idx : my_set[i] # new_member
  BY <1>1, <1>2 DEF MemberOf
<1>4. \A i \in Idx : my_set'[i] = IF i = filled THEN new_member ELSE my_set[i]
  BY <1>1, <1>2
<1>5. my_set' \in Partial'
  <2>1. my_set' \in [Idx -> NonId \cup {-1}]
    BY <1>1
  <2>2. ASSUME NEW i \in Idx PROVE my_set'[i] = -1 <=> i >= filled'
    BY <1>1, <1>2, <1>4 DEF Idx
  <2>3. ASSUME NEW i \in Idx, NEW j \in Idx, my_set'[i] = my_set'[j], i < filled'
        PROVE  i = j
    BY <1>1, <1>2, <1>3, <1>4, <2>3 DEF Idx
  <2> QED  BY <2>1, <2>2, <2>3 DEF Partial
<1>6. is_member' = MemberOf(my_set')
  <2>1. ASSUME NEW x \in Elem
        PROVE  MemberOf(my_set')[x] = IF x = new_member THEN TRUE
                                      ELSE MemberOf(my_set)[x]
    <3>1. x # -1
      BY DEF Elem
    <3>2. my_set[filled] = -1
      BY <1>1, <1>2
    <3>3. (\E i \in Idx : my_set'[i] = x)
            <=> x = new_member \/ \E i \in Idx : my_set[i] = x
      BY <1>2, <1>4, <3>1, <3>2
    <3> QED  BY <3>3 DEF MemberOf
  <2>2. MemberOf(my_set') = [ x \in Elem |-> MemberOf(my_set')[x] ]
    BY DEF MemberOf
  <2>3. [ MemberOf(my_set) EXCEPT ![new_member] = TRUE ] =
          [ x \in Elem |-> IF x = new_member THEN TRUE ELSE MemberOf(my_set)[x] ]
    BY DEF MemberOf
  <2> QED  BY <1>1, <2>1, <2>2, <2>3
<1>7. is_member' \in [Elem -> BOOLEAN]
  BY <1>6 DEF MemberOf
<1>8. TypeOK'
  BY <1>2, <1>5, <1>7 DEF IInv, TypeOK
<1>9. MemberExact' /\ SumsExact' /\ SwapIsNew'
  BY <1>6 DEF IInv, MemberExact, SumsExact, SwapIsNew
<1> QED  BY <1>8, <1>9 DEF IInv

(* calculate_starting_error counts the sums of the filled list.            *)
LEMMA StartInv == IInv /\ Start => IInv'
<1> SUFFICES ASSUME IInv, Start PROVE IInv'
  OBVIOUS
<1> USE DEF Start, selecting
<1>1. /\ my_set \in Partial /\ filled = k /\ e \in Metrics
      /\ is_member = MemberOf(my_set)
  BY CallFacts DEF IInv, TypeOK, MemberExact
<1>2. my_set \in Candidate /\ my_set \in [Idx -> NonId]
  BY <1>1, FilledIsCandidate, CandidateType DEF Partial
<1>3. sums' = SumsOf(my_set) /\ sums' \in [Elem -> Int]
  BY SumsType
<1>4. cur_error' \in Int
  BY <1>1, <1>2, <1>3, EfsType
<1>5. TypeOK'
  BY <1>1, <1>3, <1>4 DEF IInv, TypeOK, Partial
<1>6. MemberExact' /\ SumsExact' /\ SwapIsNew'
  BY <1>1, <1>2, <1>3 DEF MemberExact, SumsExact, SwapIsNew, Current
<1> QED  BY <1>5, <1>6 DEF IInv

(* A round begins at a swap, and moves no sums.                            *)
LEMMA RoundInv == IInv /\ Round => IInv'
<1> SUFFICES ASSUME IInv, Round PROVE IInv'
  OBVIOUS
<1> USE DEF Round, FirstLooked, selecting
<1>1. initial_mutation' \in Mutation /\ mutation' \in Mutation
  BY IncrementType
<1>2. first_time' \in BOOLEAN
  OBVIOUS
<1>3. TypeOK'
  BY <1>1, <1>2 DEF IInv, TypeOK, Partial
<1>4. MemberExact' /\ SumsExact' /\ SwapIsNew'
  BY DEF IInv, MemberExact, SumsExact, SwapIsNew, Current
<1> QED  BY <1>3, <1>4 DEF IInv

(* A skipped swap changes only where the scan is.                          *)
LEMMA SkipInv == IInv /\ Skip => IInv'
<1> SUFFICES ASSUME IInv, Skip PROVE IInv'
  OBVIOUS
<1> USE DEF Skip, selecting
<1>1. mutation' \in Mutation /\ pc = "scan"
  BY IncrementType DEF IInv, TypeOK, InRound
<1>2. TypeOK'
  BY <1>1 DEF IInv, TypeOK, Partial
<1>3. MemberExact' /\ SumsExact' /\ SwapIsNew'
  BY <1>1 DEF IInv, MemberExact, SumsExact, SwapIsNew, Current
<1> QED  BY <1>2, <1>3 DEF IInv

(* A swap made in sums and is_member leaves both true to the list with the *)
(* swap made in it.                                                        *)
LEMMA TryInv == IInv /\ Try => IInv'
<1> SUFFICES ASSUME IInv, Try PROVE IInv'
  OBVIOUS
<1> DEFINE t == Swap(my_set, mutation)
<1>1. /\ pc = "scan" /\ pc' = "judge" /\ first_time' = FALSE
      /\ ~is_member[mutation.second]
      /\ sums' = AdjustSums(my_set, sums, mutation, 1)
      /\ is_member' = [ is_member EXCEPT ![my_set[mutation.first]] = FALSE,
                                         ![mutation.second] = TRUE ]
      /\ new_error' = EfsFromMember(e, is_member', sums')
      /\ UNCHANGED << variant, e, my_set, new_member, filled, cur_error, changed_val,
                      initial_mutation, mutation >>
  BY DEF Try, InRound
<1>2. /\ mutation \in Mutation /\ e \in Metrics
      /\ mutation.second \in Elem
  BY ElemParts, CallFacts DEF IInv, TypeOK, Mutation
<1>3. /\ my_set \in Candidate /\ my_set \in [Idx -> NonId]
      /\ is_member = MemberOf(my_set) /\ sums = SumsOf(my_set)
  BY <1>1, InvFacts DEF Current
<1>4. mutation.second \notin Members(my_set)
  BY <1>1, <1>2, <1>3 DEF Members, MemberOf
<1>5. t \in Candidate /\ is_member' = MemberOf(t)
  BY <1>1, <1>2, <1>3, <1>4, SwapCandidate
<1>6. sums' = SumsOf(t)
  BY <1>1, <1>2, <1>3, AdjustExact
<1>7. sums' \in [Elem -> Int] /\ is_member' \in [Elem -> BOOLEAN]
  BY <1>5, <1>6, SumsType DEF MemberOf
<1>8. new_error' \in Int
  BY <1>1, <1>2, <1>7, EfsFromMemberType
<1>9. Current' = t
  BY <1>1 DEF Current
<1> HIDE DEF t
<1>10. TypeOK'
  BY <1>1, <1>7, <1>8 DEF IInv, TypeOK, Partial
<1>11. MemberExact' /\ SumsExact' /\ SwapIsNew'
  BY <1>1, <1>4, <1>5, <1>6, <1>9 DEF MemberExact, SumsExact, SwapIsNew
<1> QED  BY <1>10, <1>11 DEF IInv

(* Making the swap in my_set as well makes the list catch up with them.    *)
LEMMA AcceptInv == IInv /\ Accept => IInv'
<1> SUFFICES ASSUME IInv, Accept PROVE IInv'
  OBVIOUS
<1>1. /\ pc = "judge" /\ pc' = "loop" /\ my_set' = Swap(my_set, mutation)
      /\ cur_error' = new_error /\ changed_val' = TRUE
      /\ UNCHANGED << variant, e, is_member, new_member, filled, sums, new_error,
                      initial_mutation, mutation, first_time >>
  BY DEF Accept
<1>2. /\ my_set' \in Candidate /\ is_member' = MemberOf(my_set')
      /\ sums' = SumsOf(my_set') /\ filled' = k
  BY <1>1, InvFacts, JudgeFacts
<1>3. my_set' \in Partial'
  BY <1>2, CandidateIsFilled DEF Partial
<1>4. TypeOK'
  BY <1>1, <1>2, <1>3 DEF IInv, TypeOK
<1>5. Current' = my_set'
  BY <1>1 DEF Current
<1>6. MemberExact' /\ SumsExact' /\ SwapIsNew'
  BY <1>1, <1>2, <1>5 DEF MemberExact, SumsExact, SwapIsNew
<1> QED  BY <1>4, <1>6 DEF IInv

(* Undoing it makes them fall back to the list.                            *)
LEMMA RejectInv == IInv /\ Reject => IInv'
<1> SUFFICES ASSUME IInv, Reject PROVE IInv'
  OBVIOUS
<1>1. /\ pc = "judge" /\ pc' = "scan"
      /\ sums' = AdjustSums(my_set, sums, mutation, -1)
      /\ is_member' = [ is_member EXCEPT ![my_set[mutation.first]] = TRUE,
                                         ![mutation.second] = FALSE ]
      /\ mutation' = Increment(mutation)
      /\ UNCHANGED << variant, e, my_set, new_member, filled, cur_error, new_error,
                      changed_val, initial_mutation, first_time >>
  BY DEF Reject
<1>2. mutation \in Mutation /\ mutation' \in Mutation
  BY <1>1, IncrementType DEF IInv, TypeOK
<1>3. /\ my_set \in Candidate /\ my_set \in [Idx -> NonId]
      /\ is_member = MemberOf(Swap(my_set, mutation))
      /\ sums = SumsOf(Swap(my_set, mutation))
      /\ mutation.second \notin Members(my_set)
  BY <1>1, InvFacts, JudgeFacts
<1>4. is_member' = MemberOf(my_set)
  BY <1>1, <1>2, <1>3, SwapCandidate
<1>5. sums' = SumsOf(my_set)
  <2>1. SumsOf(my_set) \in [Elem -> Int]
    BY SumsType
  <2>2. sums = AdjustSums(my_set, SumsOf(my_set), mutation, 1)
    BY <1>2, <1>3, AdjustExact
  <2> QED  BY <1>1, <1>2, <1>3, <2>1, <2>2, AdjustUndone
<1>6. sums' \in [Elem -> Int] /\ is_member' \in [Elem -> BOOLEAN]
  BY <1>4, <1>5, SumsType DEF MemberOf
<1>7. TypeOK'
  BY <1>1, <1>2, <1>6 DEF IInv, TypeOK, Partial
<1>8. Current' = my_set
  BY <1>1 DEF Current
<1>9. MemberExact' /\ SumsExact' /\ SwapIsNew'
  BY <1>1, <1>3, <1>4, <1>5, <1>8 DEF MemberExact, SumsExact, SwapIsNew
<1> QED  BY <1>7, <1>9 DEF IInv

(* Returning, leaving a round and stuttering change nothing but pc.        *)
LEMMA ControlInv ==
  IInv /\ (Return \/ Exhaust \/ Done \/ UNCHANGED vars) => IInv'
<1> SUFFICES ASSUME IInv, Return \/ Exhaust \/ Done \/ UNCHANGED vars
             PROVE  IInv'
  OBVIOUS
<1>1. /\ UNCHANGED << variant, e, my_set, is_member, new_member, filled, sums,
                      cur_error, new_error, changed_val, initial_mutation,
                      mutation, first_time >>
      /\ \/ pc = "loop" /\ pc' = "done"
         \/ pc = "scan" /\ pc' = "loop"
         \/ pc' = pc
  BY DEF Return, Exhaust, Done, vars, selecting, scanning
<1>2. TypeOK'
  BY <1>1 DEF IInv, TypeOK, Partial
<1>3. MemberExact' /\ SumsExact' /\ SwapIsNew'
  BY <1>1 DEF IInv, MemberExact, SumsExact, SwapIsNew, Current
<1> QED  BY <1>2, <1>3 DEF IInv

(* Every step keeps IInv.                                                  *)
LEMMA NextInv == IInv /\ [Next]_vars => IInv'
  BY DrawInv, TakeInv, StartInv, RoundInv, SkipInv, TryInv, AcceptInv,
     RejectInv, ControlInv DEF Next

(* IInv holds in every state of every trial.                               *)
THEOREM Invariance == Spec => []IInv
  BY InitInv, NextInv, PTL DEF Spec

(* The variables have their types, and my_set never holds the identity or  *)
(* an element twice.                                                       *)
THEOREM TypeCorrect == Spec => []TypeOK
<1>1. IInv => TypeOK
  BY DEF IInv
<1> QED  BY <1>1, Invariance, PTL

(* For every group, k, lam, mu and metric: after any number of swaps tried,*)
(* kept and undone, the sums edited in place are those of the candidate.   *)
THEOREM SumsStayExact == Spec => []SumsExact
<1>1. IInv => SumsExact
  BY DEF IInv
<1> QED  BY <1>1, Invariance, PTL

(* is_member describes the list, or the list with the swap being judged.   *)
THEOREM MembersStayExact == Spec => []MemberExact
<1>1. IInv => MemberExact
  BY DEF IInv
<1> QED  BY <1>1, Invariance, PTL

-----------------------------------------------------------------------------
(* The error of the swap that is being judged is that of the exchanged     *)
(* list, and the error the search goes by is 0 exactly when every count of *)
(* its list is on target.                                                  *)
NewErrorExact == pc = "judge" => new_error = TrueError(Current)

ErrorSound ==
  pc # "select" =>
    /\ cur_error \in Nat
    /\ cur_error = 0 <=> Balanced(MemberOf(my_set), SumsOf(my_set))

(* The error worked out from nothing is 0 exactly when all counts are on   *)
(* target.                                                                 *)
LEMMA TrueErrorExact ==
  ASSUME WidthFits, e \in Metrics, NEW s \in Candidate
  PROVE  /\ TrueError(s) \in Nat
         /\ TrueError(s) = 0 <=> Balanced(MemberOf(s), SumsOf(s))
  BY SumsBound, EfsFromMemberExact DEF TrueError

(* Only Try computes new_error, from sums and is_member as it has left     *)
(* them.                                                                   *)
LEMMA NewErrorNext ==
  ASSUME IInv, NewErrorExact, [Next]_vars
  PROVE  NewErrorExact'
<1>1. CASE Try
  <2>1. IInv'
    BY <1>1, TryInv
  <2>2. new_error' = EfsFromMember(e', is_member', sums') /\ pc' = "judge"
    BY <1>1 DEF Try
  <2>3. is_member' = MemberOf(Current') /\ sums' = SumsOf(Current')
    BY <2>1, <2>2 DEF IInv, MemberExact, SumsExact
  <2> QED  BY <2>2, <2>3 DEF NewErrorExact, TrueError
<1>2. CASE UNCHANGED vars
  BY <1>2 DEF vars, NewErrorExact, TrueError, Current
<1>3. CASE Draw \/ Take \/ Start \/ Round \/ Return \/ Skip \/ Accept
             \/ Reject \/ Exhaust
  <2>1. pc' # "judge"
    BY <1>3 DEF Draw, Take, Start, Round, Return, Skip, Accept, Reject,
                Exhaust, InRound
  <2> QED  BY <2>1 DEF NewErrorExact
<1> QED  BY <1>1, <1>2, <1>3 DEF Next, Done

(* The error is computed by efs at the start, and by efs_from_member for   *)
(* each swap that is kept.                                                 *)
LEMMA ErrorSoundNext ==
  ASSUME WidthFits, IInv, NewErrorExact, ErrorSound, [Next]_vars
  PROVE  ErrorSound'
<1>1. CASE Start
  <2>1. my_set \in Candidate /\ my_set \in [Idx -> NonId] /\ e \in Metrics
    BY <1>1, FilledIsCandidate, CandidateType, CallFacts
       DEF Start, IInv, TypeOK, Partial
  <2>2. /\ sums' = SumsOf(my_set) /\ my_set' = my_set
        /\ cur_error' = Efs(e, my_set, SumsOf(my_set))
    BY <1>1 DEF Start, selecting
  <2>3. SumsOf(my_set) \in [Elem -> 0..k]
    BY <2>1, SumsBound
  <2> QED  BY <2>1, <2>2, <2>3, EfsExact DEF ErrorSound
<1>2. CASE Accept
  <2>1. /\ Current \in Candidate /\ Current = Swap(my_set, mutation)
        /\ e \in Metrics
    BY <1>2, InvFacts, JudgeFacts, CallFacts DEF Accept, IInv, TypeOK
  <2>2. my_set' = Current /\ cur_error' = TrueError(Current)
    BY <1>2, <2>1 DEF Accept, NewErrorExact
  <2> QED  BY <2>1, <2>2, TrueErrorExact DEF ErrorSound
<1>3. CASE Draw \/ Take
  BY <1>3 DEF Draw, Take, ErrorSound
<1>4. CASE Round \/ Return \/ Skip \/ Try \/ Reject \/ Exhaust \/ UNCHANGED vars
  <2>1. /\ my_set' = my_set /\ cur_error' = cur_error
        /\ pc' # "select" => pc # "select"
    BY <1>4 DEF Round, Return, Skip, Try, Reject, Exhaust, InRound, vars,
                selecting, scanning
  <2> QED  BY <2>1 DEF ErrorSound
<1> QED  BY <1>1, <1>2, <1>3, <1>4 DEF Next, Done

(* Where the width fits, for every group and all dimensions: the error is  *)
(* 0 exactly when the set is a regular partial difference set.             *)
THEOREM ZeroErrorMeansPDS == ASSUME WidthFits PROVE Spec => []ErrorZeroIffPDS
<1> DEFINE EInv == IInv /\ NewErrorExact /\ ErrorSound
<1>1. Init => EInv
  BY InitInv DEF Init, NewErrorExact, ErrorSound
<1>2. EInv /\ [Next]_vars => EInv'
  BY NextInv, NewErrorNext, ErrorSoundNext
<1>3. EInv => ErrorZeroIffPDS
  <2> SUFFICES ASSUME EInv, pc \in {"loop", "done"}
               PROVE  cur_error = 0 <=> IsRegularPDS(Members(my_set))
    BY DEF ErrorZeroIffPDS
  <2>1. my_set \in Candidate
    BY InvFacts
  <2> QED  BY <2>1, BalancedIffPDS DEF ErrorSound
<1> HIDE DEF EInv
<1> QED  BY <1>1, <1>2, <1>3, PTL DEF Spec

-----------------------------------------------------------------------------
(* The order in which increment() runs through the swaps, and the swaps    *)
(* that lie on the way from one to another, all of them if it comes back.  *)
Before(a, b) ==
  a.first < b.first \/ (a.first = b.first /\ a.second < b.second)

Passed(from, to) ==
  { x \in Mutation : IF Before(from, to)
                     THEN ~Before(x, from) /\ Before(x, to)
                     ELSE ~Before(x, from) \/ Before(x, to) }

(* The two fields of a swap.                                               *)
LEMMA MutationFields ==
  ASSUME NEW x \in Mutation
  PROVE  x.first \in 0..(k-1) /\ x.second \in 1..(n-1)
  BY DEF Mutation, Idx, NonId

(* The order is total.                                                     *)
LEMMA MutationEqual ==
  ASSUME NEW x \in Mutation, NEW y \in Mutation,
         ~Before(x, y), ~Before(y, x)
  PROVE  x = y
<1>1. x.first = y.first /\ x.second = y.second
  BY MutationFields DEF Before
<1> QED  BY <1>1 DEF Mutation

(* The next swap: nothing lies between it and the last, but for the turn.  *)
LEMMA IncrementOrder ==
  ASSUME NEW a \in Mutation, NEW x \in Mutation
  PROVE  /\ Before(a, Increment(a)) =>
              (Before(x, Increment(a)) <=> Before(x, a) \/ x = a)
         /\ ~Before(a, Increment(a)) =>
              ~Before(x, Increment(a)) /\ ~Before(a, x)
<1>1. /\ a.first \in 0..(k-1) /\ a.second \in 1..(n-1)
      /\ x.first \in 0..(k-1) /\ x.second \in 1..(n-1)
      /\ k \in Nat /\ n \in Nat
  BY MutationFields, DimsAssumption
<1>2. /\ Increment(a).first = IF a.second # n-1 THEN a.first
                              ELSE IF a.first = k-1 THEN 0 ELSE a.first + 1
      /\ Increment(a).second = IF a.second = n-1 THEN 1 ELSE a.second + 1
  BY DEF Increment
<1>3. x = a <=> x.first = a.first /\ x.second = a.second
  BY DEF Mutation
<1>4. CASE a.second # n-1
  BY <1>1, <1>2, <1>3, <1>4 DEF Before
<1>5. CASE a.second = n-1 /\ a.first # k-1
  BY <1>1, <1>2, <1>3, <1>5 DEF Before
<1>6. CASE a.second = n-1 /\ a.first = k-1
  BY <1>1, <1>2, <1>3, <1>6 DEF Before
<1> QED  BY <1>4, <1>5, <1>6

(* One increment adds the swap it leaves to those passed; it begins anew   *)
(* when it leaves the swap it began with.                                  *)
LEMMA PassedNext ==
  ASSUME NEW from \in Mutation, NEW to \in Mutation
  PROVE  /\ to # from =>
              Passed(from, Increment(to)) \subseteq Passed(from, to) \cup {to}
         /\ Passed(from, Increment(from)) \subseteq {from}
<1> DEFINE up == Increment(to)
<1>1. up \in Mutation
  BY IncrementType
<1>2. ASSUME to # from, NEW x \in Passed(from, up), x # to
      PROVE  x \in Passed(from, to)
  <2>1. x \in Mutation
    BY DEF Passed
  <2>2. Before(to, from) \/ Before(from, to)
    BY <1>2, MutationEqual
  <2>3. CASE Before(to, up)
    <3>1. Before(x, up) <=> Before(x, to)
      BY <1>2, <2>1, <2>3, IncrementOrder
    <3>2. Before(from, up) <=> Before(from, to)
      BY <1>2, <2>3, IncrementOrder
    <3> QED  BY <1>2, <2>1, <3>1, <3>2 DEF Passed
  <2>4. CASE ~Before(to, up)
    <3>1. ~Before(x, up) /\ ~Before(from, up)
      BY <2>1, <2>4, IncrementOrder
    <3>2. ~Before(to, x) /\ ~Before(to, from)
      BY <2>1, <2>4, IncrementOrder
    <3>3. ~Before(x, from)
      BY <1>2, <3>1 DEF Passed
    <3>4. Before(x, to)
      BY <1>2, <2>1, <3>2, MutationEqual
    <3>5. Before(from, to)
      BY <2>2, <3>2
    <3> QED  BY <2>1, <3>3, <3>4, <3>5 DEF Passed
  <2> QED  BY <2>3, <2>4
<1>3. ASSUME NEW x \in Passed(from, Increment(from))
      PROVE  x = from
  <2>1. x \in Mutation
    BY DEF Passed
  <2>2. CASE Before(from, Increment(from))
    <3>1. ~Before(x, from) /\ Before(x, Increment(from))
      BY <1>3, <2>2 DEF Passed
    <3> QED  BY <2>1, <2>2, <3>1, IncrementOrder
  <2>3. CASE ~Before(from, Increment(from))
    <3>1. ~Before(x, Increment(from)) /\ ~Before(from, x)
      BY <2>1, <2>3, IncrementOrder
    <3>2. ~Before(x, from)
      BY <1>3, <2>3, <3>1 DEF Passed
    <3> QED  BY <2>1, <3>1, <3>2, MutationEqual
  <2> QED  BY <2>2, <2>3
<1> QED  BY <1>2, <1>3

(* Coming back to where one began passes all swaps.                        *)
LEMMA PassedAll ==
  ASSUME NEW m \in Mutation PROVE Passed(m, m) = Mutation
<1>1. ~Before(m, m)
  BY MutationFields DEF Before
<1>2. ASSUME NEW x \in Mutation PROVE ~Before(x, m) \/ Before(x, m)
  OBVIOUS
<1> QED  BY <1>1, <1>2 DEF Passed

-----------------------------------------------------------------------------
(* What a round has established so far.  search_old never looks at the     *)
(* swap a round begins with.                                               *)
Exempt == IF variant = "search" THEN {} ELSE {initial_mutation}
Swept(S) == \A m \in S \ Exempt : NoBetter(m)

ScanInv ==
  /\ pc = "select" => changed_val = TRUE
  /\ pc \in {"scan", "judge"} => changed_val = FALSE
  /\ pc = "scan" /\ first_time => mutation = initial_mutation
  /\ pc = "scan" /\ ~first_time => Swept(Passed(initial_mutation, mutation))
  /\ pc = "judge" => first_time = FALSE
  /\ pc = "judge" /\ mutation # initial_mutation =>
        Swept(Passed(initial_mutation, mutation))
  /\ pc = "loop" /\ changed_val = FALSE => Swept(Mutation)
  /\ pc = "done" /\ cur_error > 0 => Swept(Mutation)

(* Whether a swap pays depends on the list and its error only.             *)
LEMMA NoBetterStable ==
  ASSUME UNCHANGED << variant, e, my_set, cur_error >>, NEW m
  PROVE  NoBetter(m)' <=> NoBetter(m)
  BY DEF NoBetter, TrueError

(* And so does what a round has established.                               *)
LEMMA SweptStable ==
  ASSUME UNCHANGED << variant, e, my_set, cur_error, initial_mutation >>, NEW S
  PROVE  Swept(S) => Swept(S)'
  BY NoBetterStable DEF Swept, Exempt

(* The swap that Skip or Reject leaves is added to what was swept.         *)
LEMMA SweepOn ==
  ASSUME IInv, NoBetter(mutation),
         mutation # initial_mutation =>
           Swept(Passed(initial_mutation, mutation))
  PROVE  Swept(Passed(initial_mutation, Increment(mutation)))
<1>1. initial_mutation \in Mutation /\ mutation \in Mutation
  BY DEF IInv, TypeOK
<1>2. CASE mutation = initial_mutation
  <2>1. Passed(initial_mutation, Increment(mutation)) \subseteq {mutation}
    BY <1>1, <1>2, PassedNext
  <2> QED  BY <2>1 DEF Swept
<1>3. CASE mutation # initial_mutation
  <2>1. Passed(initial_mutation, Increment(mutation))
          \subseteq Passed(initial_mutation, mutation) \cup {mutation}
    BY <1>1, <1>3, PassedNext
  <2> QED  BY <1>3, <2>1 DEF Swept
<1> QED  BY <1>2, <1>3

(* Every step keeps what a round has established.                          *)
LEMMA ScanNext ==
  ASSUME IInv, NewErrorExact, ScanInv, [Next]_vars
  PROVE  ScanInv'
<1>0. initial_mutation \in Mutation /\ mutation \in Mutation
  BY DEF IInv, TypeOK
<1>1. CASE Draw \/ Take \/ Start
  <2>1. pc' \in {"select", "loop"} /\ changed_val' = TRUE
    BY <1>1 DEF Draw, Take, Start, scanning, ScanInv
  <2> QED  BY <2>1 DEF ScanInv
<1>2. CASE Round
  <2>1. /\ pc' = "scan" /\ changed_val' = FALSE
        /\ initial_mutation' \in Mutation
        /\ first_time' = (variant = "search")
        /\ mutation' = IF variant = "search" THEN initial_mutation'
                       ELSE Increment(initial_mutation')
        /\ variant' = variant
    BY <1>2 DEF Round, FirstLooked
  <2>2. CASE variant = "search"
    BY <2>1, <2>2 DEF ScanInv
  <2>3. CASE variant # "search"
    <3>1. Passed(initial_mutation', mutation') \subseteq {initial_mutation'}
      BY <2>1, <2>3, PassedNext
    <3>2. Swept(Passed(initial_mutation, mutation))'
      BY <2>1, <2>3, <3>1 DEF Swept, Exempt
    <3>3. first_time' = FALSE
      BY <2>1, <2>3
    <3> QED  BY <2>1, <3>2, <3>3 DEF ScanInv
  <2> QED  BY <2>2, <2>3
<1>3. CASE Return
  <2>1. /\ pc = "loop" /\ pc' = "done" /\ ~(cur_error > 0 /\ changed_val)
        /\ UNCHANGED << variant, e, my_set, cur_error, initial_mutation,
                        changed_val >>
    BY <1>3 DEF Return, selecting, scanning
  <2>2. changed_val \in BOOLEAN
    BY DEF IInv, TypeOK
  <2>3. cur_error > 0 => Swept(Mutation)
    BY <2>1, <2>2 DEF ScanInv
  <2> QED  BY <2>1, <2>3, SweptStable DEF ScanInv
<1>4. CASE Skip
  <2>1. /\ pc = "scan" /\ pc' = "scan" /\ is_member[mutation.second]
        /\ first_time' = FALSE /\ mutation' = Increment(mutation)
        /\ changed_val' = changed_val
        /\ UNCHANGED << variant, e, my_set, cur_error, initial_mutation >>
    BY <1>4 DEF Skip, InRound, selecting
  <2>2. is_member = MemberOf(my_set)
    BY <2>1, InvFacts DEF Current
  <2>3. NoBetter(mutation)
    BY <2>1, <2>2 DEF NoBetter
  <2>4. mutation # initial_mutation => Swept(Passed(initial_mutation, mutation))
    BY <2>1 DEF ScanInv
  <2>5. Swept(Passed(initial_mutation, Increment(mutation)))
    BY <2>3, <2>4, SweepOn
  <2>6. Swept(Passed(initial_mutation, mutation))'
    BY <2>1, <2>5 DEF Swept, Exempt, NoBetter, TrueError
  <2> QED  BY <2>1, <2>6 DEF ScanInv
<1>5. CASE Try
  <2>1. /\ pc = "scan" /\ pc' = "judge" /\ first_time' = FALSE
        /\ mutation # initial_mutation \/ first_time
        /\ UNCHANGED << variant, e, my_set, cur_error, changed_val, initial_mutation,
                        mutation >>
    BY <1>5 DEF Try, InRound
  <2>2. mutation # initial_mutation => Swept(Passed(initial_mutation, mutation))
    BY <2>1 DEF ScanInv
  <2>3. (mutation # initial_mutation
           => Swept(Passed(initial_mutation, mutation)))'
    BY <2>1, <2>2 DEF Swept, Exempt, NoBetter, TrueError
  <2> QED  BY <2>1, <2>3 DEF ScanInv
<1>6. CASE Accept
  <2>1. pc' = "loop" /\ changed_val' = TRUE
    BY <1>6 DEF Accept
  <2> QED  BY <2>1 DEF ScanInv
<1>7. CASE Reject
  <2>1. /\ pc = "judge" /\ pc' = "scan" /\ ~(new_error < cur_error)
        /\ mutation' = Increment(mutation)
        /\ UNCHANGED << variant, e, my_set, cur_error, changed_val, initial_mutation,
                        first_time >>
    BY <1>7 DEF Reject
  <2>2. new_error = TrueError(Swap(my_set, mutation))
    BY <2>1, JudgeFacts DEF NewErrorExact
  <2>3. new_error \in Int /\ cur_error \in Int
    BY DEF IInv, TypeOK
  <2>4. NoBetter(mutation)
    BY <2>1, <2>2, <2>3 DEF NoBetter
  <2>5. mutation # initial_mutation => Swept(Passed(initial_mutation, mutation))
    BY <2>1 DEF ScanInv
  <2>6. Swept(Passed(initial_mutation, Increment(mutation)))
    BY <2>4, <2>5, SweepOn
  <2>7. Swept(Passed(initial_mutation, mutation))'
    BY <2>1, <2>6 DEF Swept, Exempt, NoBetter, TrueError
  <2>8. first_time' = FALSE /\ changed_val' = FALSE
    BY <2>1 DEF ScanInv
  <2> QED  BY <2>1, <2>7, <2>8 DEF ScanInv
<1>8. CASE Exhaust
  <2>1. /\ pc = "scan" /\ pc' = "loop" /\ mutation = initial_mutation
        /\ ~first_time
        /\ UNCHANGED << variant, e, my_set, cur_error, changed_val, initial_mutation >>
    BY <1>8 DEF Exhaust, InRound, selecting, scanning
  <2>2. Swept(Mutation)
    BY <1>0, <2>1, PassedAll DEF ScanInv
  <2>3. Swept(Mutation)'
    BY <2>1, <2>2, SweptStable
  <2> QED  BY <2>1, <2>3 DEF ScanInv
<1>9. CASE UNCHANGED vars
  BY <1>9 DEF vars, ScanInv, Swept, Exempt, NoBetter, TrueError
<1> QED  BY <1>1, <1>2, <1>3, <1>4, <1>5, <1>6, <1>7, <1>8, <1>9
         DEF Next, Done

(* The three invariants together are inductive.                            *)
LEMMA Sweeps == Spec => [](IInv /\ NewErrorExact /\ ScanInv)
<1>1. Init => IInv /\ NewErrorExact /\ ScanInv
  BY InitInv DEF Init, NewErrorExact, ScanInv
<1>2. IInv /\ NewErrorExact /\ ScanInv /\ [Next]_vars
        => (IInv /\ NewErrorExact /\ ScanInv)'
  BY NextInv, NewErrorNext, ScanNext
<1> QED  BY <1>1, <1>2, PTL DEF Spec

(* For every group and all dimensions, search gives up only where no       *)
(* exchange of a member for another element lowers the error.              *)
THEOREM StopsAtOptimum == Spec => []LocalOptimum
<1>1. ScanInv => LocalOptimum
  BY DEF ScanInv, LocalOptimum, Swept, Exempt
<1> QED  BY <1>1, Sweeps, PTL

(* The same of search_old, but for the swap its last round began with.     *)
THEOREM OldStopsShort == Spec => []OldOptimum
<1>1. ScanInv => OldOptimum
  BY DEF ScanInv, OldOptimum, Swept, Exempt
<1> QED  BY <1>1, Sweeps, PTL

-----------------------------------------------------------------------------
(* The error the search starts from is worked out from the list, and every *)
(* later one from the vector; they agree.                                  *)
LEMMA ErrorExactNext ==
  ASSUME IInv, NewErrorExact, ErrorExact, [Next]_vars
  PROVE  ErrorExact'
<1>1. CASE Start
  <2>1. my_set \in Candidate /\ e \in Metrics
    BY <1>1, FilledIsCandidate, CallFacts DEF Start, IInv, TypeOK, Partial
  <2>2. /\ my_set' = my_set /\ e' = e
        /\ cur_error' = Efs(e, my_set, SumsOf(my_set))
    BY <1>1 DEF Start, selecting
  <2>3. SumsOf(my_set) \in [Elem -> 0..k]
    BY <2>1, SumsBound
  <2> QED  BY <2>1, <2>2, <2>3, EfsAgrees DEF ErrorExact, TrueError
<1>2. CASE Accept
  <2>1. Current = Swap(my_set, mutation)
    BY <1>2, JudgeFacts DEF Accept
  <2>2. my_set' = Current /\ cur_error' = TrueError(Current) /\ e' = e
    BY <1>2, <2>1 DEF Accept, NewErrorExact
  <2> QED  BY <2>2 DEF ErrorExact, TrueError
<1>3. CASE Draw \/ Take
  BY <1>3 DEF Draw, Take, ErrorExact
<1>4. CASE Round \/ Return \/ Skip \/ Try \/ Reject \/ Exhaust \/ UNCHANGED vars
  <2>1. /\ my_set' = my_set /\ cur_error' = cur_error /\ e' = e
        /\ pc' # "select" => pc # "select"
    BY <1>4 DEF Round, Return, Skip, Try, Reject, Exhaust, InRound, vars,
                selecting, scanning
  <2> QED  BY <2>1 DEF ErrorExact, TrueError
<1> QED  BY <1>1, <1>2, <1>3, <1>4 DEF Next, Done

(* A round is only begun above zero, and keeps the error it began with.    *)
Above == pc \in {"scan", "judge"} => cur_error > 0

(* No step begins a round at zero, as cur_error is tested before each.     *)
LEMMA AboveNext ==
  ASSUME Above, [Next]_vars
  PROVE  Above'
  BY DEF Above, Next, Draw, Take, Start, Round, Return, Skip, Try, Accept,
         Reject, Exhaust, Done, InRound, vars, selecting, scanning

(* All that is known of a trial.                                           *)
TrialInv == IInv /\ NewErrorExact /\ ScanInv /\ ErrorExact /\ Above

(* A trial, from the first draw to the last comparison, keeps to it.       *)
LEMMA TrialInvariance == Spec => []TrialInv
<1>1. Init => TrialInv
  BY InitInv DEF Init, NewErrorExact, ScanInv, ErrorExact, Above, TrialInv
<1>2. TrialInv /\ [Next]_vars => TrialInv'
  BY NextInv, NewErrorNext, ScanNext, ErrorExactNext, AboveNext DEF TrialInv
<1> QED  BY <1>1, <1>2, PTL DEF Spec

(* For every group, all dimensions and every metric, and whether or not the*)
(* arithmetic wraps: the error the search goes by is the one that a fresh  *)
(* evaluation of its set would give.                                       *)
THEOREM ErrorStaysExact == Spec => []ErrorExact
<1>1. TrialInv => ErrorExact
  BY DEF TrialInv
<1> QED  BY <1>1, TrialInvariance, PTL

-----------------------------------------------------------------------------
(* The instance counts as this module does.                                *)
LEMMA CardinalitySame ==
  ASSUME NEW S PROVE HC!Cardinality(S) = Cardinality(S)
  BY DEF HC!Cardinality, Cardinality, HC!IsFiniteSet, IsFiniteSet

(* The sums of a list are those of its set.                                *)
LEMMA SetSumsSame ==
  ASSUME NEW s \in Candidate
  PROVE  HC!SetSums(Members(s)) = SumsOf(s)
<1> DEFINE D == Members(s)
           Pairs(g) == { p \in D \X D : ct[p[1]][p[2]] = g }
<1>1. ASSUME NEW g \in Elem
      PROVE  Cardinality(Pairs(g)) = Cardinality(PairsTo(s, g))
  <2> DEFINE f == [ p \in PairsTo(s, g) |-> << s[p[1]], s[p[2]] >> ]
  <2>1. f \in [PairsTo(s, g) -> Pairs(g)]
    BY DEF PairsTo, Members
  <2>2. ASSUME NEW p \in PairsTo(s, g), NEW q \in PairsTo(s, g), f[p] = f[q]
        PROVE  p = q
    <3>1. s[p[1]] = s[q[1]] /\ s[p[2]] = s[q[2]]
      BY <2>2
    <3>2. p \in Idx \X Idx /\ q \in Idx \X Idx
      BY DEF PairsTo
    <3>3. p[1] = q[1] /\ p[2] = q[2]
      BY <3>1, <3>2, CandidateType
    <3> QED  BY <3>2, <3>3
  <2>3. ASSUME NEW y \in Pairs(g)
        PROVE  \E p \in PairsTo(s, g) : f[p] = y
    <3>1. PICK i \in Idx, j \in Idx : y[1] = s[i] /\ y[2] = s[j]
      BY DEF Members
    <3>2. << i, j >> \in PairsTo(s, g)
      BY <3>1 DEF PairsTo
    <3>3. f[<< i, j >>] = y
      BY <3>1, <3>2
    <3> QED  BY <3>2, <3>3
  <2>4. IsFiniteSet(PairsTo(s, g))
    BY IdxFinite DEF PairsTo
  <2> HIDE DEF f
  <2> QED  BY <2>1, <2>2, <2>3, <2>4, BijectionCount
<1>2. HC!SetSums(D) = [ g \in Elem |-> HC!Cardinality(Pairs(g)) ]
  BY DEF HC!SetSums, HC!Elem, Elem
<1> HIDE DEF D, Pairs
<1>3. HC!SetSums(D) = SumsOf(s)
  BY <1>1, <1>2, CardinalitySame DEF SumsOf
<1> QED  BY <1>3 DEF D

(* So is its error.                                                        *)
LEMMA ErrorOfSame ==
  ASSUME NEW s \in Candidate
  PROVE  HC!ErrorOf(Members(s)) = TrueError(s)
<1>1. ASSUME NEW m, NEW mem, NEW q
      PROVE  HC!EfsFromMember(m, mem, q) = EfsFromMember(m, mem, q)
  BY DEF HC!EfsFromMember, EfsFromMember, HC!ErrorUpTo, ErrorUpTo,
         HC!MemberPenalty, MemberPenalty, HC!Penalty, Penalty, HC!Quartic, Quartic, HC!Square,
         Square, HC!Abs, Abs, HC!Wrap, Wrap, HC!Combine, Combine, HC!TakeLarger, TakeLarger,
         HC!Target, Target, HC!Elem, Elem
<1>2. [ x \in Elem |-> x \in Members(s) ] = MemberOf(s)
  <2> DEFINE mem == [ x \in Elem |-> x \in Members(s) ]
  <2>1. mem \in [Elem -> BOOLEAN] /\ MemberOf(s) \in [Elem -> BOOLEAN]
    BY DEF MemberOf
  <2>2. ASSUME NEW x \in Elem PROVE mem[x] <=> MemberOf(s)[x]
    BY DEF Members, MemberOf
  <2> HIDE DEF mem
  <2>3. mem = MemberOf(s)
    BY <2>1, <2>2
  <2> QED  BY <2>3 DEF mem
<1> QED  BY <1>1, <1>2, SetSumsSame
         DEF HC!ErrorOf, TrueError, HC!Elem, Elem

(* The exchanges of a set are the swaps of its list that bring a new       *)
(* element.                                                                *)
LEMMA SwapMembers ==
  ASSUME NEW s \in Candidate, NEW m \in Mutation
  PROVE  Members(Swap(s, m)) = (Members(s) \ {s[m.first]}) \cup {m.second}
<1>1. m.first \in Idx /\ s \in [Idx -> NonId]
  BY CandidateType DEF Mutation
<1>2. \A i \in Idx : Swap(s, m)[i] = IF i = m.first THEN m.second ELSE s[i]
  BY <1>1 DEF Swap
<1>3. \A i, j \in Idx : s[i] = s[j] => i = j
  BY CandidateType
<1> QED  BY <1>1, <1>2, <1>3 DEF Members

(* A neighbour of a set is what one of the swaps makes of it.              *)
LEMMA NeighbourIsSwap ==
  ASSUME NEW s \in Candidate, NEW D \in HC!Neighbours(Members(s))
  PROVE  \E m \in Mutation : /\ m.second \notin Members(s)
                             /\ D = Members(Swap(s, m))
<1>1. PICK a \in Members(s), b \in NonId \ Members(s) :
        D = (Members(s) \ {a}) \cup {b}
  BY DEF HC!Neighbours, HC!NonId, NonId
<1>2. PICK i \in Idx : s[i] = a
  BY DEF Members
<1>3. [ first |-> i, second |-> b ] \in Mutation
  BY DEF Mutation
<1> QED  BY <1>1, <1>2, <1>3, SwapMembers

(* Where a round has swept all swaps, no exchange pays but the one it began*)
(* with, which search has looked at as well.                               *)
LEMMA FewBetter ==
  ASSUME IInv, pc = "loop", cur_error > 0, Swept(Mutation)
  PROVE  Cardinality(HC!Better) <= IF variant = "search" THEN 0 ELSE 1
<1>1. my_set \in Candidate /\ initial_mutation \in Mutation
      /\ cur_error \in Int
  BY InvFacts DEF IInv, TypeOK
<1> DEFINE D0 == Members(Swap(my_set, initial_mutation))
<1>2. ASSUME NEW D \in HC!Better
      PROVE  variant # "search" /\ D = D0
  <2>1. D \in HC!Neighbours(Members(my_set)) /\ HC!ErrorOf(D) < cur_error
    BY <1>1 DEF HC!Better
  <2>2. PICK m \in Mutation : /\ m.second \notin Members(my_set)
                             /\ D = Members(Swap(my_set, m))
    BY <1>1, <2>1, NeighbourIsSwap
  <2>3. Swap(my_set, m) \in Candidate /\ ~MemberOf(my_set)[m.second]
    <3>1. m.second \in Elem
      BY ElemParts DEF Mutation
    <3> QED  BY <1>1, <2>2, <3>1, SwapCandidate DEF Members, MemberOf
  <2>4. TrueError(Swap(my_set, m)) < cur_error
    BY <2>1, <2>2, <2>3, ErrorOfSame
  <2>5. TrueError(Swap(my_set, m)) \in Int
    <3>1. SumsOf(Swap(my_set, m)) \in [Elem -> Int] /\ e \in Metrics
      BY SumsType, CallFacts DEF IInv, TypeOK
    <3> QED  BY <3>1, EfsFromMemberType DEF TrueError
  <2>6. ~NoBetter(m)
    BY <1>1, <2>3, <2>4, <2>5 DEF NoBetter
  <2>7. m \in Exempt
    BY <2>6 DEF Swept
  <2> QED  BY <2>2, <2>7 DEF Exempt
<1>3. CASE variant = "search"
  <2>1. HC!Better = {}
    BY <1>2, <1>3
  <2> QED  BY <1>3, <2>1, FS_EmptySet
<1>4. CASE variant # "search"
  <2>1. HC!Better \subseteq {D0}
    BY <1>2
  <2>2. IsFiniteSet({D0}) /\ Cardinality({D0}) = 1
    BY FS_Singleton
  <2>3. Cardinality(HC!Better) <= 1
    BY <2>1, <2>2, FS_Subset
  <2> QED  BY <1>4, <2>3
<1> QED  BY <1>3, <1>4

(* A trial begins as a hill climb does.                                    *)
LEMMA ClimbInit == Init => HC!HCInit
<1> SUFFICES ASSUME Init PROVE HC!HCInit
  OBVIOUS
<1>1. << variant, e >> \in Calls
  BY CallsAssumption DEF Init
<1>2. variant \in {"search", "search_old"} /\ e \in Metrics
  BY <1>1, CallFacts
<1> QED  BY <1>2 DEF Init, HC!HCInit

(* Each of its steps is a step of one, or changes nothing it shows.        *)
LEMMA ClimbNext ==
  ASSUME TrialInv, TrialInv', [Next]_vars
  PROVE  [HC!HCNext]_(HC!hcvars)
<1>1. CASE Start
  <2>1. /\ pc = "select" /\ pc' = "loop" /\ my_set' = my_set
        /\ variant' = variant /\ e' = e
    BY <1>1 DEF Start, selecting
  <2>2. /\ my_set' \in Candidate /\ cur_error' = TrueError(my_set)
    BY <1>1, <2>1, FilledIsCandidate
       DEF TrialInv, ErrorExact, TrueError, Start, IInv, TypeOK, Partial
  <2>3. /\ Members(my_set) \in SUBSET NonId
        /\ Cardinality(Members(my_set)) = k
    BY <2>1, <2>2, MembersCount, CandidateType DEF Members
  <2>4. cur_error' = HC!ErrorOf(Members(my_set'))
    BY <2>1, <2>2, ErrorOfSame
  <2> QED  BY <2>1, <2>3, <2>4, CardinalitySame
           DEF HC!HCNext, HC!Begin, HC!NonId, NonId
<1>2. CASE Accept
  <2>1. /\ pc = "judge" /\ pc' = "loop" /\ my_set' = Swap(my_set, mutation)
        /\ cur_error' = new_error /\ new_error < cur_error
        /\ variant' = variant /\ e' = e
    BY <1>2 DEF Accept
  <2>2. /\ my_set \in Candidate /\ my_set' \in Candidate
        /\ mutation.second \notin Members(my_set) /\ mutation \in Mutation
        /\ Current = Swap(my_set, mutation)
    BY <2>1, InvFacts, JudgeFacts DEF TrialInv, IInv, TypeOK
  <2>3. new_error = TrueError(my_set')
    BY <2>1, <2>2 DEF TrialInv, NewErrorExact
  <2>4. cur_error > 0
    BY <2>1 DEF TrialInv, Above
  <2>5. Members(my_set') \in HC!Neighbours(Members(my_set))
    <3>1. mutation.first \in Idx /\ mutation.second \in NonId
      BY <2>2 DEF Mutation
    <3>2. my_set[mutation.first] \in Members(my_set)
      BY <3>1 DEF Members
    <3> QED  BY <2>1, <2>2, <3>1, <3>2, SwapMembers
             DEF HC!Neighbours, HC!NonId, NonId
  <2>6. cur_error' = HC!ErrorOf(Members(my_set'))
    BY <2>1, <2>2, <2>3, ErrorOfSame
  <2> QED  BY <2>1, <2>4, <2>5, <2>6 DEF HC!HCNext, HC!Improve
<1>3. CASE Return
  <2>1. /\ pc = "loop" /\ pc' = "done" /\ ~(cur_error > 0 /\ changed_val)
        /\ UNCHANGED << variant, e, my_set, cur_error >>
    BY <1>3 DEF Return, selecting, scanning
  <2>2. changed_val \in BOOLEAN
    BY DEF TrialInv, IInv, TypeOK
  <2>3. cur_error > 0 => Swept(Mutation)
    BY <2>1, <2>2 DEF TrialInv, ScanInv
  <2>4. cur_error > 0
          => Cardinality(HC!Better) <= IF variant = "search" THEN 0 ELSE 1
    BY <2>1, <2>3, FewBetter DEF TrialInv
  <2> QED  BY <2>1, <2>4, CardinalitySame DEF HC!HCNext, HC!Stop
<1>4. CASE Draw \/ Take
  <2>1. /\ pc = "select" /\ pc' = "select"
        /\ UNCHANGED << variant, e, cur_error >>
    BY <1>4 DEF Draw, Take, scanning
  <2> QED  BY <2>1 DEF HC!hcvars
<1>5. CASE Round \/ Skip \/ Try \/ Reject \/ Exhaust \/ UNCHANGED vars
  <2>1. /\ UNCHANGED << variant, e, cur_error, my_set >>
        /\ pc = "select" <=> pc' = "select"
        /\ pc = "done" <=> pc' = "done"
    BY <1>5 DEF Round, Skip, Try, Reject, Exhaust, InRound, vars,
                selecting, scanning
  <2> QED  BY <2>1 DEF HC!hcvars
<1> QED  BY <1>1, <1>2, <1>3, <1>4, <1>5 DEF Next, Done

(* For every group, all dimensions, both functions and every metric: a     *)
(* trial of local search is a hill climb over sets of k elements, which    *)
(* stops only at a solution or where no exchange pays, but that search_old *)
(* may overlook one.                                                       *)
THEOREM TrialsClimb == Spec => Climbs
<1>1. Init => HC!HCInit
  BY ClimbInit
<1>2. TrialInv /\ TrialInv' /\ [Next]_vars => [HC!HCNext]_(HC!hcvars)
  BY ClimbNext
<1> QED  BY <1>1, <1>2, TrialInvariance, PTL DEF Spec, Climbs, HC!Spec
=============================================================================
