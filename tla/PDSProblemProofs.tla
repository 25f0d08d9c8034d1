-------------------------- MODULE PDSProblemProofs --------------------------
(***************************************************************************)
(* Facts about counting the products of a list, for every group and every  *)
(* list: what the exchange of one entry does to the sums.                  *)
(***************************************************************************)
EXTENDS PDSProblem, FiniteSetTheorems, TLAPS

(* The cardinality of two sets that do not meet.                           *)
LEMMA DisjointCount ==
  ASSUME NEW A, NEW B, IsFiniteSet(A), IsFiniteSet(B), A \cap B = {}
  PROVE  /\ IsFiniteSet(A \cup B)
         /\ Cardinality(A \cup B) = Cardinality(A) + Cardinality(B)
<1>1. Cardinality(A) \in Nat /\ Cardinality(B) \in Nat
  BY FS_CardinalityType
<1>2. Cardinality(A \cap B) = 0
  BY FS_EmptySet
<1>3. /\ IsFiniteSet(A \cup B)
      /\ Cardinality(A \cup B)
           = Cardinality(A) + Cardinality(B) - Cardinality(A \cap B)
  BY FS_Union
<1> QED  BY <1>1, <1>2, <1>3

(* A set, each element paired with one and the same thing, keeps its size. *)
LEMMA PairedCount ==
  ASSUME NEW A, IsFiniteSet(A), NEW z
  PROVE  /\ IsFiniteSet(A \X {z}) /\ IsFiniteSet({z} \X A)
         /\ Cardinality(A \X {z}) = Cardinality(A)
         /\ Cardinality({z} \X A) = Cardinality(A)
<1>1. IsFiniteSet({z}) /\ Cardinality({z}) = 1
  BY FS_Singleton
<1>2. /\ IsFiniteSet(A \X {z}) /\ IsFiniteSet({z} \X A)
      /\ Cardinality(A \X {z}) = Cardinality(A) * Cardinality({z})
      /\ Cardinality({z} \X A) = Cardinality({z}) * Cardinality(A)
  BY <1>1, FS_Product
<1>3. Cardinality(A) \in Nat
  BY FS_CardinalityType
<1> QED  BY <1>1, <1>2, <1>3

(* The positions of a list are finitely many, and so are their subsets.    *)
LEMMA IdxFinite ==
  /\ IsFiniteSet(Idx)
  /\ \A A \in SUBSET Idx : IsFiniteSet(A) /\ Cardinality(A) \in Nat
  /\ \A P \in SUBSET (Idx \X Idx) : IsFiniteSet(P) /\ Cardinality(P) \in Nat
<1>1. IsFiniteSet(Idx)
  BY FS_Interval, DimsAssumption DEF Idx
<1>2. IsFiniteSet(Idx \X Idx)
  BY <1>1, FS_Product
<1> QED  BY <1>1, <1>2, FS_Subset, FS_CardinalityType

(* The sums of any list are natural numbers.                               *)
LEMMA SumsType ==
  ASSUME NEW s
  PROVE  SumsOf(s) \in [Elem -> Nat]
<1>1. ASSUME NEW g \in Elem PROVE Cardinality(PairsTo(s, g)) \in Nat
  <2>1. PairsTo(s, g) \in SUBSET (Idx \X Idx)
    BY DEF PairsTo
  <2> QED  BY <2>1, IdxFinite
<1> QED  BY <1>1 DEF SumsOf

-----------------------------------------------------------------------------
(* The positions other than f whose entry, multiplied with x, gives g.     *)
RightOf(s, f, x, g) == { i \in Idx \ {f} : ct[s[i]][x] = g }
LeftOf(s, f, x, g)  == { i \in Idx \ {f} : ct[x][s[i]] = g }
Without(s, f, g)    == { p \in (Idx \ {f}) \X (Idx \ {f}) :
                            ct[s[p[1]]][s[p[2]]] = g }

(* The products of a list that give g, split by whether the entry at f is  *)
(* the second factor, the first, both, or neither.                         *)
LEMMA PairsSplit ==
  ASSUME NEW s, NEW f \in Idx, NEW g
  PROVE  Cardinality(PairsTo(s, g)) =
           Cardinality(Without(s, f, g))
             + Cardinality(RightOf(s, f, s[f], g))
             + Cardinality(LeftOf(s, f, s[f], g))
             + One(ct[s[f]][s[f]] = g)
<1> DEFINE W == Without(s, f, g)
           R == RightOf(s, f, s[f], g)
           L == LeftOf(s, f, s[f], g)
           C == IF ct[s[f]][s[f]] = g THEN {<< f, f >>} ELSE {}
<1>1. PairsTo(s, g) = ((W \cup (R \X {f})) \cup ({f} \X L)) \cup C
  BY DEF PairsTo, Without, RightOf, LeftOf
<1>2. /\ W \cap (R \X {f}) = {}
      /\ (W \cup (R \X {f})) \cap ({f} \X L) = {}
      /\ ((W \cup (R \X {f})) \cup ({f} \X L)) \cap C = {}
  BY DEF Without, RightOf, LeftOf
<1>3. /\ IsFiniteSet(W) /\ Cardinality(W) \in Nat
      /\ IsFiniteSet(R) /\ Cardinality(R) \in Nat
      /\ IsFiniteSet(L) /\ Cardinality(L) \in Nat
  <2>1. W \in SUBSET (Idx \X Idx) /\ R \in SUBSET Idx /\ L \in SUBSET Idx
    BY DEF Without, RightOf, LeftOf
  <2> QED  BY <2>1, IdxFinite
<1> DEFINE RF == R \X {f}
           LF == {f} \X L
<1>4. /\ IsFiniteSet(RF) /\ Cardinality(RF) = Cardinality(R)
      /\ IsFiniteSet(LF) /\ Cardinality(LF) = Cardinality(L)
  BY <1>3, PairedCount
<1>5. IsFiniteSet(C) /\ Cardinality(C) = One(ct[s[f]][s[f]] = g)
  BY FS_Singleton, FS_EmptySet DEF One
<1>6. /\ W \cap RF = {}
      /\ (W \cup RF) \cap LF = {}
      /\ ((W \cup RF) \cup LF) \cap C = {}
      /\ PairsTo(s, g) = ((W \cup RF) \cup LF) \cup C
  BY <1>1, <1>2
<1> HIDE DEF W, R, L, C, RF, LF
<1>7. /\ IsFiniteSet(W \cup RF)
      /\ Cardinality(W \cup RF) = Cardinality(W) + Cardinality(RF)
  BY <1>3, <1>4, <1>6, DisjointCount
<1>8. /\ IsFiniteSet((W \cup RF) \cup LF)
      /\ Cardinality((W \cup RF) \cup LF)
           = Cardinality(W \cup RF) + Cardinality(LF)
  BY <1>4, <1>6, <1>7, DisjointCount
<1>9. Cardinality(PairsTo(s, g))
        = Cardinality((W \cup RF) \cup LF) + Cardinality(C)
  BY <1>5, <1>6, <1>8, DisjointCount
<1>10. Cardinality(PairsTo(s, g)) =
        Cardinality(W) + Cardinality(R) + Cardinality(L)
          + One(ct[s[f]][s[f]] = g)
  BY <1>4, <1>5, <1>7, <1>8, <1>9
<1> QED  BY <1>10 DEF W, R, L

-----------------------------------------------------------------------------
(* The table of a group: products, and inverses on both sides.             *)
LEMMA ProductType == \A x, y \in Elem : ct[x][y] \in Elem
  BY TableAssumption

(* InverseOf is a right inverse, as the table has one.                     *)
LEMMA InverseRight ==
  ASSUME NEW x \in Elem
  PROVE  InverseOf(x) \in Elem /\ ct[x][InverseOf(x)] = 0
  BY TableAssumption DEF InverseOf

(* And a left inverse.                                                     *)
LEMMA InverseLeft ==
  ASSUME NEW x \in Elem
  PROVE  ct[InverseOf(x)][x] = 0
<1> DEFINE y == InverseOf(x)
           z == InverseOf(y)
<1>1. /\ y \in Elem /\ ct[x][y] = 0
      /\ z \in Elem /\ ct[y][z] = 0
  BY InverseRight
<1> HIDE DEF y, z
<1>2. ct[y][x] \in Elem
  BY <1>1, ProductType
<1>3. ct[y][x] = ct[ct[y][x]][ct[y][z]]
  BY <1>1, <1>2, TableAssumption
<1>4. ct[ct[y][x]][ct[y][z]] = ct[ct[ct[y][x]][y]][z]
  BY <1>1, <1>2, TableAssumption
<1>5. ct[ct[y][x]][y] = ct[y][ct[x][y]]
  BY <1>1, TableAssumption
<1>6. ct[y][ct[x][y]] = y
  BY <1>1, TableAssumption
<1>7. ct[y][x] = 0
  BY <1>1, <1>3, <1>4, <1>5, <1>6
<1> QED  BY <1>7 DEF y

(* Left cancellation, and with it the uniqueness of inverses.              *)
LEMMA Cancel ==
  ASSUME NEW x \in Elem, NEW y \in Elem, NEW z \in Elem, ct[x][y] = ct[x][z]
  PROVE  y = z
<1> DEFINE i == InverseOf(x)
<1>1. i \in Elem /\ ct[i][x] = 0
  BY InverseRight, InverseLeft
<1> HIDE DEF i
<1>2. ct[i][ct[x][y]] = y
  BY <1>1, TableAssumption
<1>3. ct[i][ct[x][z]] = z
  BY <1>1, TableAssumption
<1> QED  BY <1>2, <1>3

(* What gives the identity with x is its inverse.                          *)
LEMMA InverseUnique ==
  ASSUME NEW x \in Elem, NEW y \in Elem, ct[x][y] = 0
  PROVE  y = InverseOf(x)
  BY Cancel, InverseRight

(* The inverse of the inverse.                                             *)
LEMMA InverseTwice ==
  ASSUME NEW x \in Elem
  PROVE  InverseOf(InverseOf(x)) = x
  BY InverseRight, InverseLeft, InverseUnique

(* The identity, and so any element of NonId, keeps its kind.              *)
LEMMA ElemParts == Elem = NonId \cup {0} /\ 0 \in Elem /\ 0 \notin NonId
  BY DimsAssumption DEF Elem, NonId

-----------------------------------------------------------------------------
(* Two sets with a bijection between them that is given as a function.     *)
LEMMA BijectionCount ==
  ASSUME NEW S, NEW T, IsFiniteSet(S), NEW f \in [S -> T],
         \A x, y \in S : f[x] = f[y] => x = y,
         \A y \in T : \E x \in S : f[x] = y
  PROVE  IsFiniteSet(T) /\ Cardinality(T) = Cardinality(S)
<1>1. f \in Bijection(S, T)
  BY DEF Bijection, Injection, Surjection, IsInjective
<1>2. ExistsBijection(S, T)
  BY <1>1 DEF ExistsBijection
<1> QED  BY <1>2, FS_Bijection

(* An injection of S into T bounds the size of S.                          *)
LEMMA InjectionCount ==
  ASSUME NEW S, NEW T, IsFiniteSet(T), NEW f \in [S -> T],
         \A x, y \in S : f[x] = f[y] => x = y
  PROVE  IsFiniteSet(S) /\ Cardinality(S) <= Cardinality(T)
<1>1. f \in Injection(S, T)
  BY DEF Injection, IsInjective
<1> QED  BY <1>1, FS_Injection

(* There are k positions.                                                  *)
LEMMA IdxCount == IsFiniteSet(Idx) /\ Cardinality(Idx) = k /\ k \in Nat
  BY FS_Interval, DimsAssumption DEF Idx

(* What it is to be a candidate.                                           *)
LEMMA CandidateType ==
  ASSUME NEW s \in Candidate
  PROVE  /\ s \in [Idx -> NonId]
         /\ \A i \in Idx : s[i] \in NonId /\ s[i] \in Elem
         /\ \A i, j \in Idx : s[i] = s[j] => i = j
  BY ElemParts DEF Candidate

(* A list of k distinct elements describes a set of k elements.            *)
LEMMA MembersCount ==
  ASSUME NEW s \in Candidate
  PROVE  IsFiniteSet(Members(s)) /\ Cardinality(Members(s)) = k
<1>1. s \in [Idx -> Members(s)]
  BY CandidateType DEF Members
<1>2. \A y \in Members(s) : \E i \in Idx : s[i] = y
  BY DEF Members
<1>3. \A i, j \in Idx : s[i] = s[j] => i = j
  BY CandidateType
<1> QED  BY <1>1, <1>2, <1>3, IdxCount, BijectionCount

(* No element is a product of two members more than k times: the first     *)
(* factor determines the second.                                           *)
LEMMA SumsBound ==
  ASSUME NEW s \in Candidate
  PROVE  SumsOf(s) \in [Elem -> 0..k]
<1>1. ASSUME NEW g \in Elem PROVE Cardinality(PairsTo(s, g)) \in 0..k
  <2> DEFINE f == [ p \in PairsTo(s, g) |-> p[1] ]
  <2>1. f \in [PairsTo(s, g) -> Idx]
    BY DEF PairsTo
  <2>2. ASSUME NEW p \in PairsTo(s, g), NEW q \in PairsTo(s, g), f[p] = f[q]
        PROVE  p = q
    <3>1. /\ p \in Idx \X Idx /\ q \in Idx \X Idx
          /\ ct[s[p[1]]][s[p[2]]] = ct[s[q[1]]][s[q[2]]]
          /\ p[1] = q[1]
      BY <2>2 DEF PairsTo
    <3>2. s[p[1]] \in Elem /\ s[p[2]] \in Elem /\ s[q[2]] \in Elem
      BY <3>1, CandidateType
    <3>3. s[p[2]] = s[q[2]]
      BY <3>1, <3>2, Cancel
    <3>4. p[2] = q[2]
      BY <3>1, <3>3, CandidateType
    <3> QED  BY <3>1, <3>4
  <2> HIDE DEF f
  <2>3. Cardinality(PairsTo(s, g)) <= k
    BY <2>1, <2>2, IdxCount, InjectionCount
  <2>4. SumsOf(s)[g] = Cardinality(PairsTo(s, g)) /\ SumsOf(s)[g] \in Nat
    BY SumsType DEF SumsOf
  <2> QED  BY <2>3, <2>4, IdxCount
<1> QED  BY <1>1 DEF SumsOf

(* The identity is a product of two members as often as a member has its   *)
(* inverse among the members.                                              *)
LEMMA IdentityCount ==
  ASSUME NEW s \in Candidate
  PROVE  SumsOf(s)[0] = k <=> \A x \in Members(s) : InverseOf(x) \in Members(s)
<1> DEFINE A == { i \in Idx : InverseOf(s[i]) \in Members(s) }
           f == [ p \in PairsTo(s, 0) |-> p[1] ]
<1>1. ASSUME NEW i \in Idx, NEW j \in Idx
      PROVE  ct[s[i]][s[j]] = 0 <=> s[j] = InverseOf(s[i])
  BY CandidateType, InverseUnique, InverseRight
<1>2. f \in [PairsTo(s, 0) -> A]
  <2>1. ASSUME NEW p \in PairsTo(s, 0) PROVE p[1] \in A
    BY <1>1 DEF PairsTo, Members
  <2> QED  BY <2>1
<1>3. ASSUME NEW p \in PairsTo(s, 0), NEW q \in PairsTo(s, 0), f[p] = f[q]
      PROVE  p = q
  <2>1. /\ p \in Idx \X Idx /\ q \in Idx \X Idx /\ p[1] = q[1]
        /\ s[p[2]] = InverseOf(s[p[1]]) /\ s[q[2]] = InverseOf(s[q[1]])
    BY <1>1, <1>3 DEF PairsTo
  <2>2. p[2] = q[2]
    BY <2>1, CandidateType
  <2> QED  BY <2>1, <2>2
<1>4. ASSUME NEW i \in A PROVE \E p \in PairsTo(s, 0) : f[p] = i
  <2>1. PICK j \in Idx : s[j] = InverseOf(s[i])
    BY DEF Members
  <2>2. << i, j >> \in PairsTo(s, 0)
    BY <1>1, <2>1 DEF PairsTo
  <2>3. f[<< i, j >>] = i
    BY <2>2
  <2> QED  BY <2>2, <2>3
<1>5. PairsTo(s, 0) \in SUBSET (Idx \X Idx)
  BY DEF PairsTo
<1>6. IsFiniteSet(PairsTo(s, 0))
  BY <1>5, IdxFinite
<1> HIDE DEF f
<1>7. Cardinality(A) = Cardinality(PairsTo(s, 0))
  BY <1>2, <1>3, <1>4, <1>6, BijectionCount
<1>8. SumsOf(s)[0] = Cardinality(A)
  BY <1>7, ElemParts DEF SumsOf
<1>9. Cardinality(A) = k <=> A = Idx
  <2>1. A \in SUBSET Idx
    OBVIOUS
  <2> HIDE DEF A
  <2> QED  BY <2>1, IdxCount, FS_Subset
<1>10. A = Idx <=> \A x \in Members(s) : InverseOf(x) \in Members(s)
  BY DEF Members
<1> QED  BY <1>8, <1>9, <1>10

(* In a set that is closed under inverses, x * y and x * (y^-1)^-1 count   *)
(* the same.                                                               *)
LEMMA QuotientCount ==
  ASSUME NEW s \in Candidate, NEW g \in Elem,
         \A x \in Members(s) : InverseOf(x) \in Members(s)
  PROVE  SumsOf(s)[g] = Cardinality(Quotients(Members(s), g))
<1> DEFINE D == Members(s)
           f == [ p \in PairsTo(s, g) |-> << s[p[1]], InverseOf(s[p[2]]) >> ]
<1>1. f \in [PairsTo(s, g) -> Quotients(D, g)]
  <2>1. ASSUME NEW p \in PairsTo(s, g)
        PROVE  << s[p[1]], InverseOf(s[p[2]]) >> \in Quotients(D, g)
    <3>1. /\ p[1] \in Idx /\ p[2] \in Idx
          /\ ct[s[p[1]]][s[p[2]]] = g
      BY DEF PairsTo
    <3>2. s[p[1]] \in D /\ s[p[2]] \in D /\ InverseOf(s[p[2]]) \in D
      BY <3>1 DEF Members
    <3>3. InverseOf(InverseOf(s[p[2]])) = s[p[2]]
      BY <3>1, CandidateType, InverseTwice
    <3> QED  BY <3>1, <3>2, <3>3 DEF Quotients
  <2> QED  BY <2>1
<1>2. ASSUME NEW p \in PairsTo(s, g), NEW q \in PairsTo(s, g), f[p] = f[q]
      PROVE  p = q
  <2>1. /\ p \in Idx \X Idx /\ q \in Idx \X Idx
        /\ s[p[1]] = s[q[1]] /\ InverseOf(s[p[2]]) = InverseOf(s[q[2]])
    BY <1>2 DEF PairsTo
  <2>2. s[p[2]] = s[q[2]]
    BY <2>1, CandidateType, InverseTwice
  <2>3. p[1] = q[1] /\ p[2] = q[2]
    BY <2>1, <2>2, CandidateType
  <2> QED  BY <2>1, <2>3
<1>3. ASSUME NEW r \in Quotients(D, g) PROVE \E p \in PairsTo(s, g) : f[p] = r
  <2>1. /\ r \in D \X D /\ r[1] \in D /\ r[2] \in D
        /\ ct[r[1]][InverseOf(r[2])] = g
    BY DEF Quotients
  <2>2. InverseOf(r[2]) \in D
    BY <2>1
  <2>3. PICK i \in Idx : s[i] = r[1]
    BY <2>1 DEF Members
  <2>4. PICK j \in Idx : s[j] = InverseOf(r[2])
    BY <2>2 DEF Members
  <2>5. << i, j >> \in PairsTo(s, g)
    BY <2>1, <2>3, <2>4 DEF PairsTo
  <2>6. r[2] \in Elem
    BY <2>1, CandidateType DEF Members
  <2>7. f[<< i, j >>] = << r[1], InverseOf(InverseOf(r[2])) >>
    BY <2>3, <2>4, <2>5
  <2>8. f[<< i, j >>] = r
    BY <2>1, <2>6, <2>7, InverseTwice
  <2> QED  BY <2>5, <2>8
<1>4. PairsTo(s, g) \in SUBSET (Idx \X Idx)
  BY DEF PairsTo
<1>5. IsFiniteSet(PairsTo(s, g))
  BY <1>4, IdxFinite
<1> HIDE DEF f
<1>6. Cardinality(Quotients(D, g)) = Cardinality(PairsTo(s, g))
  BY <1>1, <1>2, <1>3, <1>5, BijectionCount
<1> QED  BY <1>6 DEF SumsOf

(* The counts of a candidate are on target exactly when its members form a *)
(* regular partial difference set.                                         *)
THEOREM BalancedIffPDS ==
  ASSUME NEW s \in Candidate
  PROVE  Balanced(MemberOf(s), SumsOf(s)) <=> IsRegularPDS(Members(s))
<1> DEFINE D == Members(s)
           closed == \A x \in D : InverseOf(x) \in D
<1>1. D \subseteq NonId /\ Cardinality(D) = k
  BY CandidateType, MembersCount DEF Members
<1>2. Balanced(MemberOf(s), SumsOf(s)) <=>
        /\ SumsOf(s)[0] = k
        /\ \A g \in NonId : SumsOf(s)[g] = Target(MemberOf(s), g)
  BY ElemParts DEF Balanced, Target
<1>3. ASSUME NEW g \in NonId
      PROVE  Target(MemberOf(s), g) = IF g \in D THEN lam ELSE mu
  BY ElemParts DEF Target, MemberOf, Members
<1>4. SumsOf(s)[0] = k <=> closed
  BY IdentityCount
<1>5. ASSUME closed, NEW g \in NonId
      PROVE  SumsOf(s)[g] = Cardinality(Quotients(D, g))
  BY <1>5, ElemParts, QuotientCount
<1> HIDE DEF closed
<1>6. IsRegularPDS(D) <=>
        /\ closed
        /\ \A g \in NonId :
             Cardinality(Quotients(D, g)) = IF g \in D THEN lam ELSE mu
  BY <1>1 DEF IsRegularPDS, closed
<1> HIDE DEF D
<1>7. Balanced(MemberOf(s), SumsOf(s)) <=> IsRegularPDS(D)
  BY <1>2, <1>3, <1>4, <1>5, <1>6
<1> QED  BY <1>7 DEF D
=============================================================================
