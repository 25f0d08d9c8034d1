------------------------------ MODULE Monoids -------------------------------
(***************************************************************************)
(* The monoids of monoid.h, which reduce, scan and the others combine      *)
(* values with in whatever order their blocks come: each is a type, the    *)
(* identity and the function of two arguments.  A numeric type is the set  *)
(* of its numbers, 2^w of them one after the other; what does not fit      *)
(* wraps round, as unsigned numbers do.                                    *)
(***************************************************************************)
EXTENDS Integers, FiniteSets, Sequences, FiniteSetTheorems, SequenceTheorems,
        WellFoundedInduction, TLAPS

CONSTANTS Unsigned, Signed,   (* two types of numbers                      *)
          Bit,                (* the type bool, or of one bit              *)
          Terms               (* how many values are combined              *)

lowest(T) == CHOOSE x \in T : \A y \in T : x <= y
max(T) == CHOOSE x \in T : \A y \in T : y <= x

wrap(T, x) == lowest(T) + ((x - lowest(T)) % Cardinality(T))

(* binary_op, make_monoid and the class monoid; an old monoid has its      *)
(* function under the name f.                                              *)
monoid(T, f(_, _), id) ==
  [ T |-> T, identity |-> id, f |-> [ a \in T |-> [ b \in T |-> f(a, b) ] ] ]

is_monoid(m) == m.identity \in m.T /\ m.f \in [ m.T -> [ m.T -> m.T ] ]

-----------------------------------------------------------------------------
plus(T) == monoid(T, LAMBDA a, b : wrap(T, a + b), 0)

multiplies(T) == monoid(T, LAMBDA a, b : wrap(T, a * b), 1)

(* Of type bool: of another type the identity is one up to its truth only. *)
logical_and == monoid(Bit, LAMBDA a, b : IF a # 0 /\ b # 0 THEN 1 ELSE 0, 1)
logical_or == monoid(Bit, LAMBDA a, b : IF a # 0 \/ b # 0 THEN 1 ELSE 0, 0)

(* The number of type T with the bits that op gives of those of a and b.   *)
Bitwise(T, op(_, _), a, b) ==
  LET bit(x, k) == (x \div 2^k) % 2
  IN  CHOOSE z \in T : \A k \in 0..Cardinality(T) : bit(z, k) = op(bit(a, k), bit(b, k))

bit_or(T) == monoid(T, LAMBDA a, b : Bitwise(T, LAMBDA c, d : IF c + d > 0 THEN 1 ELSE 0, a, b), 0)
bit_xor(T) == monoid(T, LAMBDA a, b : Bitwise(T, LAMBDA c, d : (c + d) % 2, a, b), 0)
bit_and(T) == monoid(T, LAMBDA a, b : Bitwise(T, LAMBDA c, d : c * d, a, b), wrap(T, -1))

maximum(T) == monoid(T, LAMBDA a, b : IF a < b THEN b ELSE a, lowest(T))
minimum(T) == monoid(T, LAMBDA a, b : IF b < a THEN b ELSE a, max(T))

-----------------------------------------------------------------------------
(* The deprecated ones: the same by other names, of pairs, in the order of *)
(* pairs, and made of others.                                              *)
addm(T) == plus(T)
maxm(T) == maximum(T)
minm(T) == minimum(T)
xorm(T) == bit_xor(T)

PairLess(a, b) == a[1] < b[1] \/ (a[1] = b[1] /\ a[2] < b[2])

maxm_pair(T1, T2) ==
  monoid(T1 \X T2, LAMBDA a, b : IF PairLess(a, b) THEN b ELSE a, << lowest(T1), lowest(T2) >>)

minm_pair(T1, T2) ==
  monoid(T1 \X T2, LAMBDA a, b : IF PairLess(b, a) THEN b ELSE a, << max(T1), max(T2) >>)

minmaxm(T) ==
  monoid(T \X T, LAMBDA a, b : << IF b[1] < a[1] THEN b[1] ELSE a[1], IF a[2] < b[2] THEN b[2] ELSE a[2] >>,
         << max(T), lowest(T) >>)

Pairwise(T1, f1, T2, f2) ==
  [ a \in T1 \X T2 |-> [ b \in T1 \X T2 |-> << f1[a[1]][b[1]], f2[a[2]][b[2]] >> ] ]

pair_monoid(m1, m2) ==
  [ T |-> m1.T \X m2.T, identity |-> << m1.identity, m2.identity >>,
    f |-> Pairwise(m1.T, m1.f, m2.T, m2.f) ]

Elementwise(T, f, n) ==
  [ a \in [ 1..n -> T ] |-> [ b \in [ 1..n -> T ] |-> [ i \in 1..n |-> f[a[i]][b[i]] ] ] ]

array_monoid(m, n) ==
  [ T |-> [ 1..n -> m.T ], identity |-> [ i \in 1..n |-> m.identity ], f |-> Elementwise(m.T, m.f, n) ]

-----------------------------------------------------------------------------
(* Some values, neighbours of which are combined one after the other.      *)
VARIABLES M, given, values

monoid_vars == << M, given, values >>

Tried ==
  << addm(Unsigned), multiplies(Unsigned), plus(Signed), multiplies(Signed), logical_and, logical_or,
     bit_or(Unsigned), bit_xor(Unsigned), bit_and(Unsigned), bit_or(Signed), xorm(Signed), bit_and(Signed),
     maximum(Signed), minimum(Signed), maxm(Unsigned), minm(Unsigned),
     maxm_pair(Bit, Bit), minm_pair(Bit, Bit), minmaxm(Bit),
     pair_monoid(logical_or, maximum(Bit)), array_monoid(bit_xor(Bit), 2) >>

InitOf(m, n) ==
  /\ M = m
  /\ given \in [ 1..n -> m.T ]
  /\ values = given

Init == \E k \in DOMAIN Tried : InitOf(Tried[k], Terms)

Replaced(s, k, v) == SubSeq(s, 1, k - 1) \o << v >> \o SubSeq(s, k + 2, Len(s))

Combine ==
  \E k \in 1..(Len(values) - 1) :
    /\ values' = Replaced(values, k, M.f[values[k]][values[k + 1]])
    /\ UNCHANGED << M, given >>

Next == Combine \/ (Len(values) = 1 /\ UNCHANGED monoid_vars)

(* What a loop over the first n of s has at each moment.                   *)
Loop(f, id, s, n) ==
  LET sum[i \in 0..n] == IF i = 0 THEN id ELSE f[sum[i - 1]][s[i]]
  IN  sum

(* Whatever the order they are combined in, the result is the same as that *)
(* of a loop from the identity, with the identity put in at the end or not.*)
CombinedRight ==
  Len(values) = 1 =>
    LET all == Loop(M.f, M.identity, given, Len(given))[Len(given)]
    IN  values[1] = all /\ M.f[all][M.identity] = all

Spec == Init /\ [][Next]_monoid_vars

-----------------------------------------------------------------------------
(* What a monoid must be for that.                                         *)
Laws(T, id, f) ==
  /\ id \in T /\ f \in [ T -> [ T -> T ] ]
  /\ \A a, b, c \in T : f[f[a][b]][c] = f[a][f[b][c]]
  /\ \A a \in T : f[id][a] = a /\ f[a][id] = a

Lawful(m) == is_monoid(m) /\ Laws(m.T, m.identity, m.f)

(* The fields of a monoid are what it is made of.                          *)
LEMMA MadeLawful ==
  ASSUME NEW T, NEW id, NEW f, Laws(T, id, f)
  PROVE  Lawful([ T |-> T, identity |-> id, f |-> f ])
BY DEF Lawful, is_monoid, Laws

(* The largest of some numbers.                                            *)
LEMMA MaximumLawful ==
  ASSUME NEW lo \in Int, NEW hi \in Int, lo <= hi
  PROVE  Lawful(maximum(lo..hi))
<1> DEFINE T == lo..hi
           g == [ a \in T |-> [ b \in T |-> IF a < b THEN b ELSE a ] ]
<1>1. lowest(T) = lo
  BY DEF lowest
<1>2. maximum(T) = [ T |-> T, identity |-> lo, f |-> g ]
  BY <1>1 DEF maximum, monoid
<1>3. \A a, b \in T : g[a][b] = IF a < b THEN b ELSE a
  OBVIOUS
<1>4. g \in [ T -> [ T -> T ] ]
  OBVIOUS
<1> HIDE DEF g
<1>5. \A a, b, c \in T : g[g[a][b]][c] = g[a][g[b][c]]
  BY <1>3
<1>6. lo \in T /\ \A a \in T : g[lo][a] = a /\ g[a][lo] = a
  BY <1>3
<1>7. Laws(T, lo, g)
  <2> HIDE DEF T
  <2> QED  BY <1>4, <1>5, <1>6 DEF Laws
<1> QED  BY <1>2, <1>7, MadeLawful

(* The smallest.                                                           *)
LEMMA MinimumLawful ==
  ASSUME NEW lo \in Int, NEW hi \in Int, lo <= hi
  PROVE  Lawful(minimum(lo..hi))
<1> DEFINE T == lo..hi
           g == [ a \in T |-> [ b \in T |-> IF b < a THEN b ELSE a ] ]
<1>1. max(T) = hi
  BY DEF max
<1>2. minimum(T) = [ T |-> T, identity |-> hi, f |-> g ]
  BY <1>1 DEF minimum, monoid
<1>3. \A a, b \in T : g[a][b] = IF b < a THEN b ELSE a
  OBVIOUS
<1>4. g \in [ T -> [ T -> T ] ]
  OBVIOUS
<1> HIDE DEF g
<1>5. \A a, b, c \in T : g[g[a][b]][c] = g[a][g[b][c]]
  BY <1>3
<1>6. hi \in T /\ \A a \in T : g[hi][a] = a /\ g[a][hi] = a
  BY <1>3
<1>7. Laws(T, hi, g)
  <2> HIDE DEF T
  <2> QED  BY <1>4, <1>5, <1>6 DEF Laws
<1> QED  BY <1>2, <1>7, MadeLawful

(* Two monoids side by side.                                               *)
LEMMA PairLaws ==
  ASSUME NEW T1, NEW e1, NEW f1, Laws(T1, e1, f1),
         NEW T2, NEW e2, NEW f2, Laws(T2, e2, f2)
  PROVE  Laws(T1 \X T2, << e1, e2 >>, Pairwise(T1, f1, T2, f2))
<1> DEFINE T == T1 \X T2
           g == [ a \in T |-> [ b \in T |-> << f1[a[1]][b[1]], f2[a[2]][b[2]] >> ] ]
<1>1. /\ \A a, b \in T1 : f1[a][b] \in T1
      /\ \A a, b \in T2 : f2[a][b] \in T2
  BY DEF Laws
<1>2. ASSUME NEW a1 \in T1, NEW a2 \in T2, NEW b1 \in T1, NEW b2 \in T2
      PROVE  /\ g[<< a1, a2 >>][<< b1, b2 >>] = << f1[a1][b1], f2[a2][b2] >>
             /\ g[<< a1, a2 >>][<< b1, b2 >>] \in T
  <2>1. << a1, a2 >> \in T /\ << b1, b2 >> \in T
    OBVIOUS
  <2>2. g[<< a1, a2 >>] = [ b \in T |-> << f1[a1][b[1]], f2[a2][b[2]] >> ]
    BY <2>1
  <2> QED  BY <1>1, <2>1, <2>2
<1>3. g \in [ T -> [ T -> T ] ]
  <2>1. \A a, b \in T : << f1[a[1]][b[1]], f2[a[2]][b[2]] >> \in T
    BY <1>1
  <2> HIDE DEF T
  <2> QED  BY <2>1
<1> HIDE DEF g
<1>4. \A a, b, c \in T : g[g[a][b]][c] = g[a][g[b][c]]
  <2> SUFFICES ASSUME NEW a1 \in T1, NEW a2 \in T2, NEW b1 \in T1, NEW b2 \in T2,
                      NEW c1 \in T1, NEW c2 \in T2
               PROVE  g[g[<< a1, a2 >>][<< b1, b2 >>]][<< c1, c2 >>]
                        = g[<< a1, a2 >>][g[<< b1, b2 >>][<< c1, c2 >>]]
    OBVIOUS
  <2>1. /\ f1[f1[a1][b1]][c1] = f1[a1][f1[b1][c1]]
        /\ f2[f2[a2][b2]][c2] = f2[a2][f2[b2][c2]]
    BY DEF Laws
  <2>2. /\ g[<< f1[a1][b1], f2[a2][b2] >>][<< c1, c2 >>] = << f1[f1[a1][b1]][c1], f2[f2[a2][b2]][c2] >>
        /\ g[<< a1, a2 >>][<< f1[b1][c1], f2[b2][c2] >>] = << f1[a1][f1[b1][c1]], f2[a2][f2[b2][c2]] >>
    <3>1. PICK x1 \in T1, y1 \in T1 : x1 = f1[a1][b1] /\ y1 = f1[b1][c1]
      BY <1>1
    <3>2. PICK x2 \in T2, y2 \in T2 : x2 = f2[a2][b2] /\ y2 = f2[b2][c2]
      BY <1>1
    <3>3. g[<< x1, x2 >>][<< c1, c2 >>] = << f1[x1][c1], f2[x2][c2] >>
      BY <1>2
    <3>4. g[<< a1, a2 >>][<< y1, y2 >>] = << f1[a1][y1], f2[a2][y2] >>
      BY <1>2
    <3> QED  BY <3>1, <3>2, <3>3, <3>4
  <2>3. /\ g[<< a1, a2 >>][<< b1, b2 >>] = << f1[a1][b1], f2[a2][b2] >>
        /\ g[<< b1, b2 >>][<< c1, c2 >>] = << f1[b1][c1], f2[b2][c2] >>
    BY <1>2
  <2> QED  BY <2>1, <2>2, <2>3
<1>5. \A a \in T : g[<< e1, e2 >>][a] = a /\ g[a][<< e1, e2 >>] = a
  <2> SUFFICES ASSUME NEW a1 \in T1, NEW a2 \in T2
               PROVE  /\ g[<< e1, e2 >>][<< a1, a2 >>] = << a1, a2 >>
                      /\ g[<< a1, a2 >>][<< e1, e2 >>] = << a1, a2 >>
    OBVIOUS
  <2>1. /\ e1 \in T1 /\ f1[e1][a1] = a1 /\ f1[a1][e1] = a1
        /\ e2 \in T2 /\ f2[e2][a2] = a2 /\ f2[a2][e2] = a2
    BY DEF Laws
  <2> QED  BY <1>2, <2>1
<1>6. << e1, e2 >> \in T
  BY DEF Laws
<1>7. Laws(T, << e1, e2 >>, g)
  <2> HIDE DEF T
  <2> QED  BY <1>3, <1>4, <1>5, <1>6 DEF Laws
<1> QED  BY <1>7, Zenon DEF g, Pairwise

(* As many of one as an array has elements.                                *)
LEMMA ArrayLaws ==
  ASSUME NEW S, NEW e, NEW h, Laws(S, e, h), NEW n \in Nat
  PROVE  Laws([ 1..n -> S ], [ i \in 1..n |-> e ], Elementwise(S, h, n))
<1> DEFINE T == [ 1..n -> S ]
<1> SUFFICES ASSUME NEW id, id = [ i \in 1..n |-> e ],
                    NEW g, g = [ a \in T |-> [ b \in T |-> [ i \in 1..n |-> h[a[i]][b[i]] ] ] ]
             PROVE  Laws(T, id, g)
  BY Zenon DEF Elementwise
<1>1. \A a, b \in T : g[a][b] = [ i \in 1..n |-> h[a[i]][b[i]] ]
  OBVIOUS
<1>2. \A a, b \in S : h[a][b] \in S
  BY DEF Laws
<1>3. \A a, b \in T : g[a][b] \in T
  BY <1>1, <1>2
<1>4. g \in [ T -> [ T -> T ] ]
  BY <1>2
<1>5. id \in T /\ \A i \in 1..n : id[i] = e
  BY DEF Laws
<1>6. ASSUME NEW a \in T, NEW b \in T, NEW c \in T
      PROVE  g[g[a][b]][c] = g[a][g[b][c]]
  <2>1. PICK ab \in T : ab = g[a][b]
    BY <1>3
  <2>2. PICK bc \in T : bc = g[b][c]
    BY <1>3
  <2>3. /\ ab = [ i \in 1..n |-> h[a[i]][b[i]] ] /\ bc = [ i \in 1..n |-> h[b[i]][c[i]] ]
        /\ g[ab][c] = [ i \in 1..n |-> h[ab[i]][c[i]] ] /\ g[a][bc] = [ i \in 1..n |-> h[a[i]][bc[i]] ]
    BY <1>1, <2>1, <2>2
  <2>4. \A i \in 1..n : ab[i] = h[a[i]][b[i]] /\ bc[i] = h[b[i]][c[i]]
    BY <2>3
  <2>5. \A i \in 1..n : h[h[a[i]][b[i]]][c[i]] = h[a[i]][h[b[i]][c[i]]]
    BY DEF Laws
  <2>6. g[ab][c] = g[a][bc]
    BY <2>3, <2>4, <2>5
  <2> QED  BY <2>1, <2>2, <2>6
<1>7. ASSUME NEW a \in T
      PROVE  g[id][a] = a /\ g[a][id] = a
  <2>1. /\ g[id][a] = [ i \in 1..n |-> h[id[i]][a[i]] ]
        /\ g[a][id] = [ i \in 1..n |-> h[a[i]][id[i]] ]
    BY <1>1, <1>5
  <2>2. \A i \in 1..n : h[e][a[i]] = a[i] /\ h[a[i]][e] = a[i]
    BY DEF Laws
  <2> QED  BY <1>5, <2>1, <2>2
<1>8. Laws(T, id, g)
  BY <1>4, <1>5, <1>6, <1>7 DEF Laws
<1> QED  BY <1>8

-----------------------------------------------------------------------------
(* Wrapping round takes away a multiple of the number of the numbers, and  *)
(* two numbers that differ by such a multiple are one.                     *)
LEMMA WrapCongruent ==
  ASSUME NEW W \in Nat, W > 0, NEW lo \in Int, NEW x \in Int
  PROVE  /\ wrap(lo..(lo + W - 1), x) \in lo..(lo + W - 1)
         /\ \E z \in Int : wrap(lo..(lo + W - 1), x) = x + z * W
<1> DEFINE T == lo..(lo + W - 1)
<1>1. lowest(T) = lo
  BY DEF lowest
<1>2. Cardinality(T) = W
  <2>1. \A h \in Int : lo <= h => Cardinality(lo..h) = h - lo + 1
    BY FS_Interval
  <2> QED  BY <2>1
<1>3. PICK y \in Int : y = x - lo
  OBVIOUS
<1>4. wrap(T, x) = lo + (y % W)
  BY <1>1, <1>2, <1>3 DEF wrap
<1>5. PICK r \in 0..(W - 1) : r = y % W
  OBVIOUS
<1>6. PICK d \in Int : y = W * d + r
  BY <1>5
<1>7. PICK z \in Int : z = -d
  OBVIOUS
<1>8. z * W = -(W * d) /\ W * d \in Int
  BY <1>7
<1>9. \A v \in Int : y = v + r => lo + r = x - v
  BY <1>3
<1>10. lo + r = x + z * W
  BY <1>6, <1>8, <1>9
<1>11. lo + r \in T
  OBVIOUS
<1> QED  BY <1>4, <1>5, <1>10, <1>11

(* Numbers that differ by a multiple of how many there are are the same.   *)
LEMMA CongruentEqual ==
  ASSUME NEW W \in Nat, W > 0, NEW lo \in Int,
         NEW a \in lo..(lo + W - 1), NEW b \in lo..(lo + W - 1),
         NEW z \in Int, a = b + z * W
  PROVE  a = b
<1>1. CASE z = 0
  BY <1>1
<1>2. CASE z >= 1
  <2>1. z * W >= W
    <3>1. PICK y \in Nat : z = y + 1
      <4>1. z - 1 \in Nat /\ z = (z - 1) + 1
        BY <1>2
      <4> QED  BY <4>1
    <3>2. y * W \in Nat /\ (y + 1) * W = y * W + W
      OBVIOUS
    <3> QED  BY <3>1, <3>2
  <2>2. z * W \in Int
    OBVIOUS
  <2>3. \A v \in Int : v >= W /\ a = b + v => FALSE
    OBVIOUS
  <2> QED  BY <2>1, <2>2, <2>3
<1>3. CASE z <= -1
  <2>1. z * W <= -W
    <3>1. PICK y \in Nat : z = -y - 1
      <4>1. -z - 1 \in Nat /\ z = -(-z - 1) - 1
        BY <1>3
      <4> QED  BY <4>1
    <3>2. y * W \in Nat /\ (-y - 1) * W = -(y * W) - W
      OBVIOUS
    <3> QED  BY <3>1, <3>2
  <2>2. z * W \in Int
    OBVIOUS
  <2>3. \A v \in Int : v <= -W /\ a = b + v => FALSE
    OBVIOUS
  <2> QED  BY <2>1, <2>2, <2>3
<1> QED  BY <1>1, <1>2, <1>3

(* Wrapped sums are the same whichever was made first.                     *)
LEMMA SumsAgree ==
  ASSUME NEW W \in Nat, W > 0, NEW lo \in Int,
         NEW a \in Int, NEW b \in Int, NEW c \in Int,
         NEW z1 \in Int, NEW z2 \in Int, NEW z3 \in Int, NEW z4 \in Int,
         NEW ab \in Int, ab = (a + b) + z1 * W,
         NEW bc \in Int, bc = (b + c) + z2 * W,
         NEW x \in lo..(lo + W - 1), x = (ab + c) + z3 * W,
         NEW y \in lo..(lo + W - 1), y = (a + bc) + z4 * W
  PROVE  x = y
<1>1. PICK z \in Int : z = z1 + z3 - z2 - z4
  OBVIOUS
<1>2. z * W = z1 * W + z3 * W - z2 * W - z4 * W
  BY <1>1
<1>3. z1 * W \in Int /\ z2 * W \in Int /\ z3 * W \in Int /\ z4 * W \in Int
  OBVIOUS
<1>4. \A v1, v2, v3, v4 \in Int :
        (ab = (a + b) + v1 /\ bc = (b + c) + v2 /\ x = (ab + c) + v3 /\ y = (a + bc) + v4)
          => x = y + (v1 + v3 - v2 - v4)
  OBVIOUS
<1>5. x = y + (z1 * W + z3 * W - z2 * W - z4 * W)
  BY <1>3, <1>4
<1>6. x = y + z * W
  BY <1>2, <1>5
<1> QED  BY <1>6, CongruentEqual

(* Addition of numbers that wrap round.                                    *)
LEMMA PlusLawful ==
  ASSUME NEW lo \in Int, NEW hi \in Int, 0 \in lo..hi
  PROVE  Lawful(plus(lo..hi))
<1> DEFINE T == lo..hi
           g == [ a \in T |-> [ b \in T |-> wrap(T, a + b) ] ]
<1>1. plus(T) = [ T |-> T, identity |-> 0, f |-> g ]
  BY DEF plus, monoid
<1>2. PICK W \in Nat : W = hi - lo + 1
  OBVIOUS
<1>3. W > 0 /\ T = lo..(lo + W - 1) /\ T \subseteq Int /\ 0 \in T
  BY <1>2
<1> HIDE DEF T
<1>4. ASSUME NEW x \in Int
      PROVE  wrap(T, x) \in T /\ \E z \in Int : wrap(T, x) = x + z * W
  <2>1. T = lo..(lo + W - 1)
    BY <1>3
  <2>2. W > 0
    BY <1>3
  <2>3. /\ wrap(lo..(lo + W - 1), x) \in lo..(lo + W - 1)
        /\ \E z \in Int : wrap(lo..(lo + W - 1), x) = x + z * W
    BY <2>2, WrapCongruent, Zenon
  <2> QED  BY <2>1, <2>3, Zenon
<1>5. \A a, b \in T : g[a][b] = wrap(T, a + b)
  OBVIOUS
<1>6. ASSUME NEW a \in T, NEW b \in T
      PROVE  wrap(T, a + b) \in T
  <2>1. a + b \in Int
    BY <1>3
  <2> QED  BY <1>4, <2>1
<1>7. g \in [ T -> [ T -> T ] ]
  BY <1>6
<1> HIDE DEF g, T
<1>8. ASSUME NEW a \in T, NEW b \in T, NEW c \in T
      PROVE  g[g[a][b]][c] = g[a][g[b][c]]
  <2>1. a \in Int /\ b \in Int /\ c \in Int
    BY <1>3
  <2>2. PICK ab \in T : ab = wrap(T, a + b)
    BY <1>6
  <2>3. PICK bc \in T : bc = wrap(T, b + c)
    BY <1>6
  <2>4. ab \in Int /\ bc \in Int
    BY <1>3
  <2>5. PICK x \in T : x = wrap(T, ab + c)
    BY <1>6
  <2>6. PICK y \in T : y = wrap(T, a + bc)
    BY <1>6
  <2>7. PICK z1 \in Int : ab = (a + b) + z1 * W
    <3>1. a + b \in Int
      BY <2>1
    <3> QED  BY <1>4, <2>2, <3>1
  <2>8. PICK z2 \in Int : bc = (b + c) + z2 * W
    <3>1. b + c \in Int
      BY <2>1
    <3> QED  BY <1>4, <2>3, <3>1
  <2>9. PICK z3 \in Int : x = (ab + c) + z3 * W
    <3>1. ab + c \in Int
      BY <2>1, <2>4
    <3> QED  BY <1>4, <2>5, <3>1
  <2>10. PICK z4 \in Int : y = (a + bc) + z4 * W
    <3>1. a + bc \in Int
      BY <2>1, <2>4
    <3> QED  BY <1>4, <2>6, <3>1
  <2>11. x = y
    <3>1. x \in lo..(lo + W - 1) /\ y \in lo..(lo + W - 1)
      BY <1>3
    <3> QED  BY <1>3, <2>1, <2>4, <2>7, <2>8, <2>9, <2>10, <3>1, SumsAgree
  <2> QED  BY <1>5, <2>2, <2>3, <2>5, <2>6, <2>11
<1>9. ASSUME NEW a \in T
      PROVE  g[0][a] = a /\ g[a][0] = a
  <2>1. a \in Int /\ 0 + a = a /\ a + 0 = a
    BY <1>3
  <2>2. PICK x \in T : x = wrap(T, a)
    BY <1>4, <2>1
  <2>3. PICK z \in Int : x = a + z * W
    BY <1>4, <2>1, <2>2
  <2>4. x = a
    <3>1. x \in lo..(lo + W - 1) /\ a \in lo..(lo + W - 1)
      BY <1>3
    <3> QED  BY <1>3, <2>3, <3>1, CongruentEqual
  <2> QED  BY <1>3, <1>5, <2>1, <2>2, <2>4
<1>10. Laws(T, 0, g)
  BY <1>3, <1>7, <1>8, <1>9 DEF Laws
<1> QED  BY <1>1, <1>10, MadeLawful DEF T

-----------------------------------------------------------------------------
(* What Replaced must give: its elements, and how many there are.          *)
ReplacedBy(S, s, k, v, t) ==
  /\ t \in Seq(S) /\ Len(t) = Len(s) - 1
  /\ \A i \in 1..(Len(s) - 1) : t[i] = IF i < k THEN s[i] ELSE IF i = k THEN v ELSE s[i + 1]

(* A step takes two neighbours out and puts their combination in.          *)
LEMMA StepsOfCombine ==
  ASSUME NEW S, NEW s \in Seq(S), NEW k \in 1..(Len(s) - 1), NEW v \in S
  PROVE  ReplacedBy(S, s, k, v, Replaced(s, k, v))
<1>1. PICK n \in Nat : n = Len(s)
  BY LenProperties
<1>2. k \in 1..(n - 1) /\ \A i \in 1..n : s[i] \in S
  BY <1>1, ElementOfSeq
<1>3. PICK a : a = SubSeq(s, 1, k - 1)
  OBVIOUS
<1>4. PICK b : b = SubSeq(s, k + 2, n)
  OBVIOUS
<1>5. PICK o : o = << v >>
  OBVIOUS
<1>6. PICK c : c = a \o o
  OBVIOUS
<1>7. PICK t : t = c \o b
  OBVIOUS
<1>8. /\ a \in Seq(S) /\ Len(a) = k - 1
      /\ \A i \in 1..(k - 1) : a[i] = s[i]
  <2>1. \A i \in 1..(k - 1) : s[i] \in S
    BY <1>2
  <2>2. PICK l \in Int : l = k - 1
    BY <1>2
  <2>3. /\ a \in Seq(S) /\ Len(a) = IF 1 <= l THEN l - 1 + 1 ELSE 0
        /\ \A i \in 1..(l - 1 + 1) : a[i] = s[1 + i - 1]
    BY <1>3, <2>1, <2>2, SubSeqProperties
  <2> QED  BY <1>2, <2>2, <2>3
<1>9. /\ b \in Seq(S) /\ Len(b) = n - k - 1
      /\ \A i \in 1..(n - k - 1) : b[i] = s[i + k + 1]
  <2>1. PICK l \in Int : l = k + 2
    BY <1>2
  <2>2. \A i \in l..n : s[i] \in S
    BY <1>2, <2>1
  <2>3. /\ b \in Seq(S) /\ Len(b) = IF l <= n THEN n - l + 1 ELSE 0
        /\ \A i \in 1..(n - l + 1) : b[i] = s[l + i - 1]
    BY <1>4, <2>1, <2>2, SubSeqProperties
  <2> QED  BY <1>2, <2>1, <2>3
<1>10. o \in Seq(S) /\ Len(o) = 1 /\ o[1] = v
  BY <1>5
<1>11. /\ c \in Seq(S) /\ Len(c) = Len(a) + Len(o)
       /\ \A i \in 1..(Len(a) + Len(o)) : c[i] = IF i <= Len(a) THEN a[i] ELSE o[i - Len(a)]
  <2>1. a \in Seq(S) /\ o \in Seq(S)
    BY <1>8, <1>10
  <2> QED  BY <1>6, <2>1, ConcatProperties
<1>12. /\ t \in Seq(S) /\ Len(t) = Len(c) + Len(b)
       /\ \A i \in 1..(Len(c) + Len(b)) : t[i] = IF i <= Len(c) THEN c[i] ELSE b[i - Len(c)]
  <2>1. c \in Seq(S) /\ b \in Seq(S)
    BY <1>9, <1>11
  <2> QED  BY <1>7, <2>1, ConcatProperties
<1>13. /\ Len(a) = k - 1 /\ Len(b) = n - k - 1 /\ Len(o) = 1
       /\ Len(c) = k /\ Len(t) = n - 1
  <2>1. Len(a) = k - 1 /\ Len(b) = n - k - 1 /\ Len(o) = 1
    BY <1>8, <1>9, <1>10
  <2>2. PICK p, q, r, x, y : p = Len(a) /\ q = Len(b) /\ r = Len(o) /\ x = Len(c) /\ y = Len(t)
    OBVIOUS
  <2>3. p = k - 1 /\ q = n - k - 1 /\ r = 1 /\ x = p + r /\ y = x + q
    BY <1>11, <1>12, <2>1, <2>2, Zenon
  <2>4. x = k /\ y = n - 1
    BY <1>2, <2>3
  <2> QED  BY <2>1, <2>2, <2>4, Zenon
<1>14. ASSUME NEW i \in 1..(n - 1)
       PROVE  t[i] = IF i < k THEN s[i] ELSE IF i = k THEN v ELSE s[i + 1]
  <2>1. i \in 1..(k + (n - k - 1)) /\ k \in Nat
    BY <1>2
  <2>2. t[i] = IF i <= k THEN c[i] ELSE b[i - k]
    BY <1>12, <1>13, <2>1, Zenon
  <2>3. i \in 1..k => c[i] = IF i <= k - 1 THEN a[i] ELSE o[i - (k - 1)]
    <3>1. i \in 1..k => i \in 1..((k - 1) + 1)
      BY <2>1
    <3> QED  BY <1>11, <1>13, <3>1, Zenon
  <2>4. CASE i < k
    <3>1. t[i] = c[i] /\ c[i] = a[i] /\ i \in 1..(k - 1)
      BY <2>1, <2>2, <2>3, <2>4
    <3> QED  BY <1>8, <2>4, <3>1
  <2>5. CASE i = k
    <3>1. t[i] = c[i] /\ c[i] = o[1]
      BY <2>1, <2>2, <2>3, <2>5
    <3> QED  BY <1>10, <2>1, <2>5, <3>1
  <2>6. CASE i > k
    <3>1. t[i] = b[i - k] /\ i - k \in 1..(n - k - 1)
      BY <1>2, <2>1, <2>2, <2>6
    <3>2. b[i - k] = s[(i - k) + k + 1] /\ (i - k) + k + 1 = i + 1
      BY <1>2, <1>9, <2>1, <3>1
    <3> QED  BY <1>2, <2>1, <2>6, <3>1, <3>2
  <2> QED  BY <1>2, <2>1, <2>4, <2>5, <2>6
<1>15. t = Replaced(s, k, v)
  BY <1>1, <1>3, <1>4, <1>5, <1>6, <1>7, Zenon DEF Replaced
<1>16. t \in Seq(S) /\ Len(t) = Len(s) - 1
  BY <1>1, <1>12, <1>13, Zenon
<1>17. \A i \in 1..(Len(s) - 1) : t[i] = IF i < k THEN s[i] ELSE IF i = k THEN v ELSE s[i + 1]
  BY <1>1, <1>14, Zenon
<1> QED  BY <1>15, <1>16, <1>17, Zenon DEF ReplacedBy

-----------------------------------------------------------------------------
(* A set of natural numbers that is not empty has a least element.         *)
LEMMA LeastNat ==
  ASSUME NEW T \in SUBSET Nat, T # {}
  PROVE  \E m \in T : \A y \in T : m <= y
<1>1. PICK m \in T : \A y \in T : ~(<< y, m >> \in OpToRel(<, Nat))
  BY NatLessThanWellFounded, WFMin
<1>2. ASSUME NEW y \in T PROVE m <= y
  <2>1. << y, m >> \in OpToRel(<, Nat) <=> y < m
    BY DEF OpToRel
  <2>2. ~(y < m)
    BY <1>1, <2>1
  <2> QED  BY <2>2
<1> QED  BY <1>2

(* The loop's recursion has a solution, whatever is combined: Loop is it.  *)
LEMMA LoopEquation ==
  ASSUME NEW f, NEW id, NEW s, NEW n \in Nat
  PROVE  Loop(f, id, s, n) =
           [ i \in 0..n |-> IF i = 0 THEN id ELSE f[Loop(f, id, s, n)[i - 1]][s[i]] ]
<1> DEFINE Fits(g, j) == g = [ i \in 0..j |-> IF i = 0 THEN id ELSE f[g[i - 1]][s[i]] ]
           Short == { j \in Nat : ~ \E g : Fits(g, j) }
<1>1. Fits([ i \in 0..0 |-> id ], 0)
  OBVIOUS
<1>2. ASSUME NEW j \in Nat, NEW g, Fits(g, j)
      PROVE  \E h : Fits(h, j + 1)
  <2> DEFINE h == [ i \in 0..(j + 1) |-> IF i = j + 1 THEN f[g[j]][s[j + 1]] ELSE g[i] ]
  <2>1. ASSUME NEW i \in 0..(j + 1)
        PROVE  h[i] = IF i = 0 THEN id ELSE f[h[i - 1]][s[i]]
    <3>1. CASE i = j + 1
      <4>1. h[i] = f[g[j]][s[j + 1]]
        BY <3>1
      <4>2. h[i - 1] = g[j] /\ i # 0
        BY <3>1
      <4> QED  BY <3>1, <4>1, <4>2
    <3>2. CASE i # j + 1
      <4>1. i \in 0..j /\ h[i] = g[i]
        BY <3>2
      <4>2. i # 0 => h[i - 1] = g[i - 1]
        BY <4>1
      <4>3. g[i] = IF i = 0 THEN id ELSE f[g[i - 1]][s[i]]
        BY <1>2, <4>1
      <4> QED  BY <4>1, <4>2, <4>3
    <3> QED  BY <3>1, <3>2
  <2>2. Fits(h, j + 1)
    BY <2>1
  <2> QED  BY <2>2
<1>3. Short = {}
  <2>1. SUFFICES ASSUME Short # {} PROVE FALSE
    OBVIOUS
  <2>2. PICK j \in Short : \A y \in Short : j <= y
    BY <2>1, LeastNat
  <2>3. j # 0
    BY <1>1, <2>2
  <2>4. j \in Nat /\ j - 1 \in Nat
    BY <2>3
  <2>5. PICK g : Fits(g, j - 1)
    <3>1. ~(j <= j - 1)
      BY <2>4
    <3>2. j - 1 \notin Short
      BY <3>1, <2>2, Zenon
    <3> QED  BY <2>4, <3>2
  <2>6. \E h : Fits(h, (j - 1) + 1)
    BY <2>4, <2>5, <1>2
  <2> QED  BY <2>2, <2>6
<1>4. \E g : Fits(g, n)
  BY <1>3
<1>5. Fits(CHOOSE g : Fits(g, n), n)
  BY <1>4
<1>6. Loop(f, id, s, n) = CHOOSE g : Fits(g, n)
  BY DEF Loop
<1> QED  BY <1>5, <1>6

(* What the loop has is of the type it works on.                           *)
LEMMA LoopType ==
  ASSUME NEW T, NEW id, NEW f, Laws(T, id, f),
         NEW n \in Nat, NEW s, \A i \in 1..n : s[i] \in T
  PROVE  \A i \in 0..n : Loop(f, id, s, n)[i] \in T
<1> DEFINE Bad == { i \in Nat : i <= n /\ Loop(f, id, s, n)[i] \notin T }
<1>1. SUFFICES Bad = {}
  OBVIOUS
<1>2. SUFFICES ASSUME Bad # {} PROVE FALSE
  OBVIOUS
<1>3. PICK i \in Bad : \A y \in Bad : i <= y
  BY <1>2, LeastNat
<1>4. Loop(f, id, s, n)[0] = id
  BY LoopEquation
<1>5. i # 0
  BY <1>3, <1>4 DEF Laws
<1>6. i \in 1..n /\ i - 1 \in Nat /\ i - 1 <= n
  BY <1>3, <1>5
<1>7. i - 1 \notin Bad
  BY <1>3, <1>6
<1>8. Loop(f, id, s, n)[i - 1] \in T
  BY <1>6, <1>7
<1>9. Loop(f, id, s, n)[i] = f[Loop(f, id, s, n)[i - 1]][s[i]]
  BY <1>6, LoopEquation
<1>10. Loop(f, id, s, n)[i] \in T
  <2>1. \A a, b \in T : f[a][b] \in T
    BY DEF Laws
  <2>2. s[i] \in T
    BY <1>6
  <2> QED  BY <1>8, <1>9, <2>1, <2>2, Zenon
<1> QED  BY <1>3, <1>10

(* Two neighbours combined beforehand leave the loop where it ended: up to *)
(* them it has what it had, after them what it had one later.              *)
LEMMA LoopCombined ==
  ASSUME NEW T, NEW id, NEW f, Laws(T, id, f),
         NEW s \in Seq(T), NEW k \in 1..(Len(s) - 1), NEW t,
         ReplacedBy(T, s, k, f[s[k]][s[k + 1]], t)
  PROVE  Loop(f, id, t, Len(t))[Len(t)] = Loop(f, id, s, Len(s))[Len(s)]
<1>1. PICK n \in Nat : n = Len(s)
  BY LenProperties
<1>2. PICK L : L = Loop(f, id, s, n)
  OBVIOUS
<1>3. PICK R : R = Loop(f, id, t, n - 1)
  OBVIOUS
<1>4. /\ k \in 1..(n - 1) /\ n - 1 \in Nat /\ Len(t) = n - 1
      /\ \A i \in 1..n : s[i] \in T
      /\ \A i \in 1..(n - 1) : t[i] = IF i < k THEN s[i] ELSE IF i = k THEN f[s[k]][s[k + 1]] ELSE s[i + 1]
  BY <1>1, ElementOfSeq DEF ReplacedBy
<1>5. L[0] = id /\ \A i \in 1..n : L[i] = f[L[i - 1]][s[i]]
  BY <1>2, LoopEquation
<1>6. R[0] = id /\ \A i \in 1..(n - 1) : R[i] = f[R[i - 1]][t[i]]
  BY <1>3, <1>4, LoopEquation
<1>7. \A i \in 0..n : L[i] \in T
  BY <1>2, <1>4, LoopType
<1> DEFINE Bad == { i \in Nat : i <= n - 1 /\ R[i] # (IF i < k THEN L[i] ELSE L[i + 1]) }
<1>8. Bad = {}
  <2>1. SUFFICES ASSUME Bad # {} PROVE FALSE
    OBVIOUS
  <2>2. PICK i \in Bad : \A y \in Bad : i <= y
    BY <2>1, LeastNat
  <2>3. i # 0
    BY <1>4, <1>5, <1>6, <2>2
  <2>4. i \in 1..(n - 1) /\ i - 1 \in Nat /\ i - 1 <= n - 1
    BY <2>2, <2>3
  <2>5. i - 1 \notin Bad
    BY <2>2, <2>4
  <2>6. R[i - 1] = IF i - 1 < k THEN L[i - 1] ELSE L[i]
    <3>1. (i - 1) + 1 = i
      BY <2>4
    <3>2. R[i - 1] = IF i - 1 < k THEN L[i - 1] ELSE L[(i - 1) + 1]
      BY <2>4, <2>5
    <3> QED  BY <3>1, <3>2
  <2>7. R[i] = f[R[i - 1]][t[i]]
    BY <1>6, <2>4
  <2>8. CASE i < k
    <3>0. t[i] = s[i] /\ R[i - 1] = L[i - 1] /\ i \in 1..n
      BY <1>4, <2>4, <2>6, <2>8
    <3>1. R[i] = f[L[i - 1]][s[i]] /\ L[i] = f[L[i - 1]][s[i]]
      BY <1>5, <2>7, <3>0, Zenon
    <3> QED  BY <2>2, <2>8, <3>1
  <2>9. CASE i = k
    <3>1. R[k] = f[L[k - 1]][f[s[k]][s[k + 1]]]
      BY <1>4, <2>4, <2>6, <2>7, <2>9
    <3>2. L[k] = f[L[k - 1]][s[k]]
      BY <1>4, <1>5
    <3>3. L[k + 1] = f[L[k]][s[k + 1]]
      <4>1. k + 1 \in 1..n /\ (k + 1) - 1 = k
        BY <1>4
      <4> QED  BY <1>5, <4>1
    <3>4. L[k - 1] \in T /\ s[k] \in T /\ s[k + 1] \in T
      BY <1>4, <1>7
    <3>5. f[f[L[k - 1]][s[k]]][s[k + 1]] = f[L[k - 1]][f[s[k]][s[k + 1]]]
      BY <3>4 DEF Laws
    <3> QED  BY <2>2, <2>9, <3>1, <3>2, <3>3, <3>5
  <2>10. CASE i > k
    <3>1. R[i] = f[L[i]][s[i + 1]]
      BY <1>4, <2>4, <2>6, <2>7, <2>10
    <3>2. L[i + 1] = f[L[i]][s[i + 1]]
      <4>1. i + 1 \in 1..n /\ (i + 1) - 1 = i
        BY <2>4
      <4> QED  BY <1>5, <4>1
    <3> QED  BY <2>2, <2>10, <3>1, <3>2
  <2> QED  BY <1>4, <2>4, <2>8, <2>9, <2>10
<1>9. R[n - 1] = L[n]
  <2>1. n - 1 \notin Bad
    BY <1>8
  <2>2. ~(n - 1 < k) /\ (n - 1) + 1 = n
    BY <1>4
  <2> QED  BY <1>4, <2>1, <2>2
<1> QED  BY <1>1, <1>2, <1>3, <1>4, <1>9

-----------------------------------------------------------------------------
(* A loop over what is left would end with what one over all would.        *)
Partly(T, e, h, n) ==
  /\ given \in [ 1..n -> T ] /\ Len(given) = n
  /\ values \in Seq(T)
  /\ Loop(h, e, values, Len(values))[Len(values)] = Loop(h, e, given, n)[n]

(* A lawful monoid gives the same whatever the order, of however many      *)
(* values: the result of reduce and scan is that of the loop, however the  *)
(* scheduler cuts and steals.                                              *)
THEOREM AnyOrder ==
  ASSUME NEW m, Lawful(m), NEW n \in Nat
  PROVE  InitOf(m, n) /\ [][Next]_monoid_vars => []CombinedRight
<1>1. PICK T, e, h : T = m.T /\ e = m.identity /\ h = m.f
  OBVIOUS
<1>2. Laws(T, e, h)
  BY <1>1 DEF Lawful
<1>3. InitOf(m, n) => M = m /\ Partly(T, e, h, n)
  <2> SUFFICES ASSUME InitOf(m, n)
               PROVE  M = m /\ Partly(T, e, h, n)
    OBVIOUS
  <2>1. M = m /\ given \in [ 1..n -> T ] /\ values = given
    BY <1>1 DEF InitOf
  <2>2. given \in Seq(T) /\ Len(given) = n
    <3>1. given \in Seq(T)
      BY <2>1, SeqDef
    <3>2. PICK L \in Nat : L = Len(given) /\ 1..L = 1..n
      BY <2>1, <3>1, LenProperties, Zenon
    <3>3. L = n
      <4>1. L # 0 => L \in 1..n
        BY <3>2
      <4>2. n # 0 => n \in 1..L
        BY <3>2
      <4> QED  BY <4>1, <4>2
    <3> QED  BY <3>1, <3>2, <3>3
  <2> QED  BY <2>1, <2>2 DEF Partly
<1>4. M = m /\ Partly(T, e, h, n) /\ [Next]_monoid_vars => (M = m /\ Partly(T, e, h, n))'
  <2> SUFFICES ASSUME M = m, Partly(T, e, h, n), [Next]_monoid_vars
               PROVE  (M = m /\ Partly(T, e, h, n))'
    OBVIOUS
  <2>1. CASE UNCHANGED monoid_vars
    BY <2>1 DEF Partly, monoid_vars
  <2>2. CASE Combine
    <3>1. PICK k \in 1..(Len(values) - 1) :
            /\ values' = Replaced(values, k, M.f[values[k]][values[k + 1]])
            /\ UNCHANGED << M, given >>
      BY <2>2 DEF Combine
    <3>2. values \in Seq(T)
      BY DEF Partly
    <3>3. PICK v : v = h[values[k]][values[k + 1]]
      OBVIOUS
    <3>4. v \in T
      <4>1. values[k] \in T /\ values[k + 1] \in T
        BY <3>2
      <4> QED  BY <1>2, <3>3, <4>1 DEF Laws
    <3>5. ReplacedBy(T, values, k, v, values')
      <4>1. values' = Replaced(values, k, v)
        BY <1>1, <3>1, <3>3
      <4> QED  BY <3>2, <3>4, <4>1, StepsOfCombine
    <3>6. Loop(h, e, values', Len(values'))[Len(values')] = Loop(h, e, values, Len(values))[Len(values)]
      BY <1>2, <3>2, <3>3, <3>5, LoopCombined
    <3>7. values' \in Seq(T)
      BY <3>5 DEF ReplacedBy
    <3>8. M' = m /\ given' = given
      BY <3>1
    <3> QED  BY <3>6, <3>7, <3>8 DEF Partly
  <2> QED  BY <2>1, <2>2 DEF Next, monoid_vars
<1>5. M = m /\ Partly(T, e, h, n) => CombinedRight
  <2> SUFFICES ASSUME M = m, Partly(T, e, h, n), Len(values) = 1
               PROVE  /\ values[1] = Loop(h, e, given, n)[n]
                      /\ h[Loop(h, e, given, n)[n]][e] = Loop(h, e, given, n)[n]
    BY <1>1 DEF CombinedRight, Partly
  <2>1. values \in Seq(T) /\ given \in [ 1..n -> T ]
    BY DEF Partly
  <2>2. PICK r : r = Loop(h, e, values, 1)
    OBVIOUS
  <2>3. r[1] = Loop(h, e, given, n)[n]
    BY <2>2 DEF Partly
  <2>4. r[0] = e /\ r[1] = h[r[0]][values[1]]
    BY <2>2, LoopEquation
  <2>5. values[1] \in T
    <3>1. 1 \in 1..Len(values)
      OBVIOUS
    <3> QED  BY <2>1, <3>1, ElementOfSeq
  <2>6. r[1] = values[1] /\ h[values[1]][e] = values[1]
    BY <1>2, <2>4, <2>5 DEF Laws
  <2> QED  BY <2>3, <2>6
<1> QED  BY <1>3, <1>4, <1>5, PTL

(* The maximum and the sum of numbers that wrap round are lawful, and so   *)
(* are pairs and arrays of lawful ones: none of them depends on the order. *)
THEOREM Lawfully ==
  ASSUME NEW lo \in Int, NEW hi \in Int, 0 \in lo..hi
  PROVE  /\ Lawful(plus(lo..hi)) /\ Lawful(maximum(lo..hi)) /\ Lawful(minimum(lo..hi))
         /\ \A m1, m2 : Lawful(m1) /\ Lawful(m2) => Lawful(pair_monoid(m1, m2))
         /\ \A m : \A n \in Nat : Lawful(m) => Lawful(array_monoid(m, n))
<1>1. Lawful(plus(lo..hi)) /\ Lawful(maximum(lo..hi)) /\ Lawful(minimum(lo..hi))
  <2>1. lo <= hi
    OBVIOUS
  <2> QED  BY <2>1, PlusLawful, MaximumLawful, MinimumLawful
<1>2. ASSUME NEW m1, NEW m2, Lawful(m1), Lawful(m2)
      PROVE  Lawful(pair_monoid(m1, m2))
  <2>1. Laws(m1.T, m1.identity, m1.f) /\ Laws(m2.T, m2.identity, m2.f)
    BY <1>2 DEF Lawful
  <2>2. Laws(m1.T \X m2.T, << m1.identity, m2.identity >>, Pairwise(m1.T, m1.f, m2.T, m2.f))
    BY <2>1, PairLaws
  <2> QED  BY <2>2, MadeLawful, Zenon DEF pair_monoid
<1>3. ASSUME NEW m, NEW n \in Nat, Lawful(m)
      PROVE  Lawful(array_monoid(m, n))
  <2>1. Laws(m.T, m.identity, m.f)
    BY <1>3 DEF Lawful
  <2>2. Laws([ 1..n -> m.T ], [ i \in 1..n |-> m.identity ], Elementwise(m.T, m.f, n))
    BY <2>1, ArrayLaws
  <2> QED  BY <2>2, MadeLawful, Zenon DEF array_monoid
<1> QED  BY <1>1, <1>2, <1>3

=============================================================================
