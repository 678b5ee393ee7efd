-------------------------- MODULE ArithmeticLemmas --------------------------
(***************************************************************************)
(* Facts about numbers, counting and sequences that several proofs rest on:   *)
(* the tag ring of SequenceTracker and the slots of the rings index by a      *)
(* number modulo the ring's size, loops meet the members of a set of numbers  *)
(* from the least up, and a journal or a queue is a function on 1 .. n.       *)
(***************************************************************************)
EXTENDS Integers, TLAPS, WellFoundedInduction, FiniteSetTheorems, SequenceTheorems

(* Division by a positive size: quotient and remainder. *)
LEMMA DivMod ==
    ASSUME NEW S \in Nat \ {0}, NEW a \in Nat
    PROVE  /\ a \div S \in Nat
           /\ a % S \in 0 .. S - 1
           /\ a = S * (a \div S) + (a % S)
  OBVIOUS

(* A multiple of S that is smaller than S in size is zero. *)
LEMMA SmallMultiple ==
    ASSUME NEW S \in Nat \ {0}, NEW d \in Int, S * d < S, -S < S * d
    PROVE  d = 0
  <1>1. CASE d >= 1
    <2>1. S * d >= S * 1  BY <1>1
    <2> QED  BY <2>1
  <1>2. CASE d <= -1
    <2>1. S * d <= S * (-1)  BY <1>2
    <2> QED  BY <2>1
  <1> QED  BY <1>1, <1>2

(* Two numbers less than a ring apart share a slot only if they are equal. *)
LEMMA ModWindow ==
    ASSUME NEW S \in Nat \ {0}, NEW a \in Nat, NEW b \in Nat,
           a % S = b % S, a - b < S, b - a < S
    PROVE  a = b
  <1> DEFINE q == a \div S
             r == b \div S
  <1>1. q \in Nat /\ r \in Nat /\ a = S * q + (a % S) /\ b = S * r + (b % S)
    BY DivMod
  <1>2. a % S \in Int /\ b % S \in Int  BY DivMod
  <1> HIDE DEF q, r
  <1>3. a - b = S * (q - r)  BY <1>1, <1>2
  <1>4. q - r = 0
    <2>1. S * (q - r) < S /\ -S < S * (q - r)  BY <1>3
    <2>2. q - r \in Int  BY <1>1
    <2> QED  BY <2>1, <2>2, SmallMultiple
  <1> QED  BY <1>1, <1>3, <1>4

(* The remainder is the only number that leaves a multiple of S. *)
LEMMA ModUnique ==
    ASSUME NEW S \in Nat \ {0}, NEW a \in Nat, NEW q \in Nat, NEW r \in 0 .. S - 1,
           a = S * q + r
    PROVE  a % S = r
  <1> DEFINE p == a \div S
             m == a % S
  <1>1. p \in Nat /\ m \in 0 .. S - 1 /\ a = S * p + m  BY DivMod
  <1> HIDE DEF p, m
  <1>2. S * (p - q) = r - m  BY <1>1
  <1>3. p - q = 0
    <2>1. S * (p - q) < S /\ -S < S * (p - q)  BY <1>1, <1>2
    <2>2. p - q \in Int  BY <1>1
    <2> QED  BY <2>1, <2>2, SmallMultiple
  <1>4. m = r  BY <1>1, <1>2, <1>3
  <1> QED  BY <1>4 DEF m

(* The quotient is the number of whole multiples. *)
LEMMA DivUnique ==
    ASSUME NEW S \in Nat \ {0}, NEW a \in Nat, NEW q \in Nat, NEW r \in 0 .. S - 1,
           a = S * q + r
    PROVE  a \div S = q
  <1> DEFINE p == a \div S
             m == a % S
  <1>1. p \in Nat /\ m \in 0 .. S - 1 /\ a = S * p + m  BY DivMod
  <1>2. m = r  BY ModUnique
  <1> HIDE DEF p, m
  <1>3. S * (p - q) = 0  BY <1>1, <1>2
  <1>4. p - q = 0
    <2>1. S * (p - q) < S /\ -S < S * (p - q)  BY <1>3
    <2>2. p - q \in Int  BY <1>1
    <2> QED  BY <2>1, <2>2, SmallMultiple
  <1>5. p = q  BY <1>1, <1>4
  <1> QED  BY <1>5 DEF p

(* The slot after a's slot is the slot of a + 1. *)
LEMMA ModSucc ==
    ASSUME NEW S \in Nat \ {0}, NEW a \in Nat
    PROVE  ((a % S) + 1) % S = (a + 1) % S
  <1> DEFINE q == a \div S
             m == a % S
  <1>1. q \in Nat /\ m \in 0 .. S - 1 /\ a = S * q + m  BY DivMod
  <1> HIDE DEF q, m
  <1>2. CASE m + 1 < S
    <2>1. m + 1 \in 0 .. S - 1 /\ m + 1 \in Nat  BY <1>1, <1>2
    <2>2. m + 1 = S * 0 + (m + 1)  BY <1>1
    <2>3. (m + 1) % S = m + 1  BY <2>1, <2>2, ModUnique
    <2>4. a + 1 = S * q + (m + 1)  BY <1>1
    <2>5. (a + 1) % S = m + 1  BY <1>1, <2>1, <2>4, ModUnique
    <2> QED  BY <2>3, <2>5 DEF m
  <1>3. CASE m + 1 = S
    <2>1. 0 \in 0 .. S - 1 /\ q + 1 \in Nat /\ a + 1 \in Nat  BY <1>1
    <2>2. m + 1 = S * 1 + 0 /\ a + 1 = S * (q + 1) + 0  BY <1>1, <1>3
    <2>3. (m + 1) % S = 0  BY <1>1, <2>1, <2>2, ModUnique
    <2>4. (a + 1) % S = 0  BY <2>1, <2>2, ModUnique
    <2> QED  BY <2>3, <2>4 DEF m
  <1> QED  BY <1>1, <1>2, <1>3

(* A set of naturals that is not empty has a least member. *)
LEMMA LeastMember ==
    ASSUME NEW T, T \subseteq Nat, T # {}
    PROVE  \E x \in T : \A y \in T : x <= y
  <1>1. PICK x \in T : \A y \in T : ~(<<y, x>> \in OpToRel(<, Nat))
    BY NatLessThanWellFounded, WFMin
  <1>2. ASSUME NEW y \in T PROVE x <= y
    <2>1. ~(<<y, x>> \in OpToRel(<, Nat))  BY <1>1
    <2>2. ~(y < x)  BY <2>1 DEF OpToRel
    <2> QED  BY <2>2
  <1> QED  BY <1>2

(* A function on 1 .. m is a sequence of length m. *)
LEMMA FunctionIsSeq ==
    ASSUME NEW S, NEW m \in Nat, NEW f \in [1 .. m -> S]
    PROVE  f \in Seq(S) /\ Len(f) = m
  <1>1. f \in Seq(S)  BY SeqDef
  <1>2. Len(f) \in Nat /\ DOMAIN f = 1 .. Len(f)  BY <1>1, LenProperties
  <1>3. DOMAIN f = 1 .. m  OBVIOUS
  <1>4. CASE Len(f) < m
    <2>1. m \in 1 .. m /\ ~(m \in 1 .. Len(f))  BY <1>2, <1>4
    <2> QED  BY <1>2, <1>3, <2>1, Zenon
  <1>5. CASE Len(f) > m
    <2>1. Len(f) \in 1 .. Len(f) /\ ~(Len(f) \in 1 .. m)  BY <1>2, <1>5
    <2> QED  BY <1>2, <1>3, <2>1, Zenon
  <1> QED  BY <1>1, <1>2, <1>4, <1>5

(* A finite set of naturals that is not empty has a greatest member. *)
LEMMA GreatestMember ==
    ASSUME NEW S \in SUBSET Nat, IsFiniteSet(S), S # {}
    PROVE  \E x \in S : \A y \in S : y <= x
  <1> DEFINE HasMax(A) == \E x \in A : \A y \in A : y <= x
             Bad(n) == \E A \in SUBSET Nat : IsFiniteSet(A) /\ A # {} /\ Cardinality(A) = n /\ ~HasMax(A)
             T == {n \in Nat : Bad(n)}
  <1> SUFFICES ASSUME ~HasMax(S) PROVE FALSE  OBVIOUS
  <1>1. Cardinality(S) \in T  BY FS_CardinalityType
  <1>2. PICK n \in T : \A m \in T : n <= m  BY <1>1, LeastMember
  <1>3. PICK A \in SUBSET Nat : IsFiniteSet(A) /\ A # {} /\ Cardinality(A) = n /\ ~HasMax(A)
    BY <1>2
  <1>4. PICK x \in A : TRUE  BY <1>3
  <1> DEFINE B == A \ {x}
  <1>5. IsFiniteSet(B) /\ Cardinality(B) = n - 1 /\ n - 1 \in Nat
    <2>1. IsFiniteSet(B) /\ Cardinality(B) = Cardinality(A) - 1  BY <1>3, <1>4, FS_RemoveElement
    <2>2. Cardinality(B) \in Nat  BY <2>1, FS_CardinalityType
    <2> QED  BY <1>3, <2>1, <2>2
  <1>6. ~(n - 1 \in T)  BY <1>2, <1>5
  <1>7. CASE B = {}
    <2>1. \A y \in A : y = x  BY <1>7
    <2> QED  BY <1>3, <1>4, <2>1
  <1>8. CASE B # {}
    <2>1. HasMax(B)  BY <1>3, <1>5, <1>6, <1>8
    <2>2. PICK m \in B : \A y \in B : y <= m  BY <2>1
    <2>3. \A y \in A : y = x \/ y \in B  OBVIOUS
    <2>4. x \in Nat /\ m \in Nat /\ A \subseteq Nat /\ m \in A  BY <1>3, <1>4, <2>2
    <2>5. CASE x <= m  BY <1>3, <2>2, <2>3, <2>4, <2>5
    <2>6. CASE ~(x <= m)
      <3>1. \A y \in A : y <= x  BY <2>2, <2>3, <2>4, <2>6
      <3> QED  BY <1>3, <1>4, <3>1
    <2> QED  BY <2>5, <2>6
  <1> QED  BY <1>7, <1>8

(* The members of J up to i. *)
UpTo(J, i) == {j \in J : j <= i}

(* The members of J up to i are finitely many. *)
LEMMA UpToFinite ==
    ASSUME NEW J \in SUBSET Nat, NEW i \in Nat
    PROVE  IsFiniteSet(UpTo(J, i)) /\ Cardinality(UpTo(J, i)) \in Nat
  <1>1. IsFiniteSet({j \in J : j <= i})
    <2>1. {j \in J : j <= i} \in SUBSET Nat /\ \A j \in {j \in J : j <= i} : j <= i  OBVIOUS
    <2> QED  BY <2>1, FS_BoundedSetOfNaturals
  <1> QED  BY <1>1, FS_CardinalityType DEF UpTo

LEMMA UpToZero ==
    ASSUME NEW J \in SUBSET (Nat \ {0}) PROVE Cardinality(UpTo(J, 0)) = 0
  <1>0. \A j \in J : ~(j <= 0)  OBVIOUS
  <1>1. {j \in J : j <= 0} = {}  BY <1>0, Zenon
  <1> QED  BY <1>1, FS_EmptySet DEF UpTo

(* One number more. *)
LEMMA UpToNext ==
    ASSUME NEW J \in SUBSET Nat, NEW i \in Nat
    PROVE  Cardinality(UpTo(J, i + 1)) = IF i + 1 \in J THEN Cardinality(UpTo(J, i)) + 1
                                         ELSE Cardinality(UpTo(J, i))
  <1> DEFINE A == {j \in J : j <= i}
             B == {j \in J : j <= i + 1}
  <1>0. ~(i + 1 <= i) /\ \A j \in Nat : j <= i + 1 <=> j <= i \/ j = i + 1  OBVIOUS
  <1>1. IsFiniteSet(A) /\ ~(i + 1 \in A)
    <2>1. IsFiniteSet(A)  BY UpToFinite DEF UpTo
    <2> QED  BY <1>0, <2>1, Zenon
  <1>2. CASE i + 1 \in J
    <2>1. B = A \cup {i + 1}  BY <1>0, <1>2
    <2> HIDE DEF A, B
    <2>2. Cardinality(B) = Cardinality(A) + 1  BY <1>1, <2>1, FS_AddElement
    <2> QED  BY <1>2, <2>2 DEF UpTo, A, B
  <1>3. CASE i + 1 \notin J
    <2>1. \A j \in J : j <= i + 1 <=> j <= i  BY <1>0, <1>3
    <2>2. B = A  BY <2>1
    <2> QED  BY <1>3, <2>2 DEF UpTo
  <1> QED  BY <1>2, <1>3

(* Every count up to the last is that of a member. *)
LEMMA UpToOnto ==
    ASSUME NEW J \in SUBSET (Nat \ {0}), NEW n \in Nat, NEW r \in 1 .. Cardinality(UpTo(J, n))
    PROVE  \E i \in J : i <= n /\ Cardinality(UpTo(J, i)) = r
  <1> DEFINE T == {i \in Nat : Cardinality(UpTo(J, i)) >= r}
  <1>0. J \in SUBSET Nat  OBVIOUS
  <1>1. Cardinality(UpTo(J, n)) \in Nat  BY <1>0, UpToFinite
  <1>2. n \in T /\ T \subseteq Nat  BY <1>1
  <1>3. PICK i \in T : \A y \in T : i <= y  BY <1>2, LeastMember
  <1>4. i \in Nat /\ Cardinality(UpTo(J, i)) >= r /\ i <= n  BY <1>2, <1>3
  <1>5. i # 0  BY <1>4, UpToZero
  <1>6. i - 1 \in Nat /\ ~(i - 1 \in T) /\ (i - 1) + 1 = i  BY <1>3, <1>4, <1>5
  <1>7. Cardinality(UpTo(J, i - 1)) \in Nat /\ Cardinality(UpTo(J, i - 1)) < r
    <2>1. Cardinality(UpTo(J, i - 1)) \in Nat  BY <1>0, <1>6, UpToFinite
    <2>2. ~(Cardinality(UpTo(J, i - 1)) >= r)  BY <1>6
    <2> QED  BY <2>1, <2>2
  <1>8. Cardinality(UpTo(J, i)) = IF i \in J THEN Cardinality(UpTo(J, i - 1)) + 1
                                  ELSE Cardinality(UpTo(J, i - 1))
    BY <1>0, <1>6, UpToNext
  <1>9. i \in J /\ Cardinality(UpTo(J, i)) = r  BY <1>4, <1>7, <1>8
  <1> QED  BY <1>4, <1>9

(* A member further on has a greater count. *)
LEMMA UpToStrict ==
    ASSUME NEW J \in SUBSET Nat, NEW x \in Nat, NEW y \in J, x < y
    PROVE  Cardinality(UpTo(J, x)) < Cardinality(UpTo(J, y))
  <1> DEFINE A == UpTo(J, x)
             B == UpTo(J, y)
  <1>0. y \in Nat  OBVIOUS
  <1>1. IsFiniteSet(A) /\ IsFiniteSet(B) /\ Cardinality(A) \in Nat /\ Cardinality(B) \in Nat
    BY <1>0, UpToFinite
  <1>2. y \in B /\ A \subseteq B \ {y}
    <2>1. y \in B  BY <1>0 DEF UpTo
    <2>2. ASSUME NEW j \in A PROVE j \in B \ {y}  BY <1>0 DEF UpTo
    <2> QED  BY <2>1, <2>2
  <1> HIDE DEF A, B
  <1>3. IsFiniteSet(B \ {y}) /\ Cardinality(B \ {y}) = Cardinality(B) - 1
    BY <1>1, <1>2, FS_RemoveElement
  <1>4. Cardinality(A) <= Cardinality(B \ {y})  BY <1>2, <1>3, FS_Subset
  <1>5. Cardinality(A) < Cardinality(B)  BY <1>1, <1>3, <1>4
  <1> QED  BY <1>5 DEF A, B
==============================================================================
