----------------------------- MODULE NumberLemmas -----------------------------
(***************************************************************************)
(* Least and greatest elements of sets of numbers, for the proofs about    *)
(* what the code takes the first or the last of, and sums.                 *)
(***************************************************************************)
EXTENDS Integers, FiniteSetsExt, Functions, FiniteSetTheorems, WellFoundedInduction, TLAPS

(* A non-empty set of naturals has a least element, which Min finds. *)
LEMMA LeastNatural ==
    ASSUME NEW S \in SUBSET Nat, S # {}
    PROVE  Min(S) \in S /\ \A f \in S : Min(S) <= f
<1> DEFINE Before == {ss \in Nat \X Nat : ss[1] < ss[2]}
<1>1. OpToRel(<, Nat) = Before
    BY Zenon DEF OpToRel
<1>2. \E x \in S : \A y \in S : ~(<<y, x>> \in OpToRel(<, Nat))
    BY NatLessThanWellFounded, WFMin
<1>3. \E x \in S : \A y \in S : ~(<<y, x>> \in Before)
    BY <1>1, <1>2, Zenon
<1>4. \E x \in S : \A y \in S : x <= y
    <2>1. PICK x \in S : \A y \in S : ~(<<y, x>> \in Before)
        BY <1>3
    <2>2. ASSUME NEW y \in S PROVE x <= y
        <3>1. x \in Nat /\ y \in Nat
            OBVIOUS
        <3>2. ~(<<y, x>> \in Before)
            BY <2>1
        <3>3. ~(y < x)
            BY <3>1, <3>2
        <3>4. QED BY <3>1, <3>3
    <2>3. QED BY <2>2
<1>5. QED BY <1>4 DEF Min

(* One that is bounded has a greatest element, which Max finds: the least of its
   bounds. *)
LEMMA GreatestNatural ==
    ASSUME NEW S \in SUBSET Nat, S # {}, NEW b \in Nat, \A x \in S : x <= b
    PROVE  Max(S) \in S /\ \A f \in S : f <= Max(S)
<1> DEFINE Bounds == {u \in Nat : \A x \in S : x <= u}
           m == Min(Bounds)
<1>1. m \in Bounds /\ \A u \in Bounds : m <= u
    <2>1. Bounds \in SUBSET Nat /\ b \in Bounds
        OBVIOUS
    <2>2. QED BY <2>1, LeastNatural
<1> HIDE DEF m
<1>2. m \in Nat /\ \A x \in S : x <= m
    BY <1>1
<1>3. m \in S
    <2> SUFFICES ASSUME m \notin S PROVE FALSE
        OBVIOUS
    <2>1. PICK x \in S : TRUE
        OBVIOUS
    <2>2. m # 0
        BY <1>2, <2>1
    <2>3. m - 1 \in Bounds
        BY <1>2, <2>2
    <2>4. QED BY <1>1, <1>2, <2>3
<1>4. \E x \in S : \A y \in S : y <= x
    BY <1>2, <1>3
<1>5. QED BY <1>4 DEF Max

-----------------------------------------------------------------------------
(* Sums. That the recursion of SumFunction defines a sum, and one that does not
   depend on the order of its terms, is proved by taking the smallest set for
   which it would not.                                                      *)

(* What SumFunction takes next, and one unfolding of its recursion. *)
Taken(s) == CHOOSE x \in s : TRUE
SumOnce(f, g, s) == IF s = {} THEN 0 ELSE f[Taken(s)] + g[s \ {Taken(s)}]
SumsOf(f, g) == [s \in SUBSET DOMAIN f |-> SumOnce(f, g, s)]

(* The sums the recursion has reached for sets of at most n elements. *)
UpTo(f, n) == {s \in SUBSET DOMAIN f : Cardinality(s) <= n}
PartialSums(f, g, n) == g = [s \in UpTo(f, n) |-> SumOnce(f, g, s)]

(* SumFunction is what one such table gives for the whole domain. *)
LEMMA SumUnfolds ==
    ASSUME NEW f
    PROVE  SumFunction(f) = (CHOOSE g : g = SumsOf(f, g))[DOMAIN f]
    BY Zenon DEF SumFunction, SumFunctionOnSet, FoldFunctionOnSet, MapThenFoldSet, SumsOf, SumOnce, Taken

(* Taking one element from a finite set. *)
LEMMA TakeOne ==
    ASSUME NEW s, IsFiniteSet(s), s # {}
    PROVE  /\ Taken(s) \in s
           /\ \A x \in s : /\ IsFiniteSet(s \ {x}) /\ Cardinality(s \ {x}) \in Nat
                           /\ Cardinality(s) = Cardinality(s \ {x}) + 1
<1>1. Taken(s) \in s
    BY DEF Taken
<1>2. ASSUME NEW x \in s
      PROVE  /\ IsFiniteSet(s \ {x}) /\ Cardinality(s \ {x}) \in Nat
             /\ Cardinality(s) = Cardinality(s \ {x}) + 1
    <2>1. IsFiniteSet(s \ {x}) /\ Cardinality(s \ {x}) = Cardinality(s) - 1
        BY FS_RemoveElement
    <2>2. Cardinality(s) \in Nat /\ Cardinality(s \ {x}) \in Nat
        BY <2>1, FS_CardinalityType
    <2>3. QED BY <2>1, <2>2
<1>3. QED BY <1>1, <1>2

(* There are sums for sets of any size. *)
LEMMA PartialSumsExist ==
    ASSUME NEW f, IsFiniteSet(DOMAIN f)
    PROVE  \A n \in Nat : \E g : PartialSums(f, g, n)
<1> DEFINE Missing == {n \in Nat : ~\E g : PartialSums(f, g, n)}
<1>0. \A s \in SUBSET DOMAIN f : IsFiniteSet(s) /\ Cardinality(s) \in Nat
    BY FS_Subset, FS_CardinalityType
<1>1. SUFFICES ASSUME Missing # {} PROVE FALSE
    OBVIOUS
<1> DEFINE m == Min(Missing)
<1>2. m \in Missing /\ \A n \in Missing : m <= n
    BY <1>1, LeastNatural
<1>3. m # 0
    <2> DEFINE g == [s \in UpTo(f, 0) |-> 0]
    <2>1. \A s \in UpTo(f, 0) : s = {}
        BY <1>0, FS_EmptySet DEF UpTo
    <2>2. PartialSums(f, g, 0)
        BY <2>1 DEF PartialSums, SumOnce
    <2>3. QED BY <1>2, <2>2
<1> DEFINE n == m - 1
<1>4. n \in Nat /\ n \notin Missing /\ m = n + 1 /\ m \in Nat
    <2>1. m \in Nat
        BY <1>2
    <2> HIDE DEF m, Missing
    <2>2. QED BY <1>2, <1>3, <2>1
<1>5. PICK g : PartialSums(f, g, n)
    BY <1>4
<1> DEFINE h == [s \in UpTo(f, m) |-> IF Cardinality(s) <= n THEN g[s] ELSE SumOnce(f, g, s)]
<1> HIDE DEF m, n, Missing
<1>6. ASSUME NEW s \in UpTo(f, m)
      PROVE  h[s] = SumOnce(f, h, s)
    <2>1. s \in SUBSET DOMAIN f /\ Cardinality(s) <= m /\ IsFiniteSet(s) /\ Cardinality(s) \in Nat
        BY <1>0 DEF UpTo
    <2>2. h[s] = SumOnce(f, g, s)
        <3>1. Cardinality(s) <= n => s \in UpTo(f, n)
            BY <2>1 DEF UpTo
        <3>2. Cardinality(s) <= n => g[s] = SumOnce(f, g, s)
            BY <1>5, <3>1 DEF PartialSums
        <3>3. QED BY <3>2
    <2>3. CASE s = {}
        BY <2>2, <2>3 DEF SumOnce
    <2>4. CASE s # {}
        <3> DEFINE r == s \ {Taken(s)}
        <3>1. Cardinality(r) \in Nat /\ Cardinality(s) = Cardinality(r) + 1
            BY <2>1, <2>4, TakeOne
        <3>2. r \in SUBSET DOMAIN f /\ Cardinality(r) <= n /\ Cardinality(r) <= m
            BY <1>4, <2>1, <3>1
        <3>3. h[r] = g[r]
            BY <3>2 DEF UpTo
        <3>4. QED BY <2>2, <2>4, <3>3 DEF SumOnce
    <2>5. QED BY <2>3, <2>4
<1>7. PartialSums(f, h, m)
    <2>1. h = [s \in UpTo(f, m) |-> h[s]]
        OBVIOUS
    <2> HIDE DEF h
    <2>2. QED BY <1>6, <2>1 DEF PartialSums
<1>8. QED BY <1>2, <1>7 DEF Missing

(* So the recursion of SumFunction defines a function on the subsets. *)
LEMMA SumsDefined ==
    ASSUME NEW f, IsFiniteSet(DOMAIN f)
    PROVE  \E g : g = SumsOf(f, g) /\ SumFunction(f) = g[DOMAIN f]
<1>1. Cardinality(DOMAIN f) \in Nat
    BY FS_CardinalityType
<1>2. PICK g : PartialSums(f, g, Cardinality(DOMAIN f))
    BY <1>1, PartialSumsExist
<1>3. UpTo(f, Cardinality(DOMAIN f)) = SUBSET DOMAIN f
    BY FS_Subset DEF UpTo
<1>4. g = SumsOf(f, g)
    BY <1>2, <1>3 DEF PartialSums, SumsOf
<1>5. DEFINE h == CHOOSE x : x = SumsOf(f, x)
<1>6. h = SumsOf(f, h)
    BY <1>4, Zenon
<1>7. QED BY <1>6, SumUnfolds

(* The sum of every subset is a natural, and any of its elements may be taken
   first. *)
LEMMA SumsAnyOrder ==
    ASSUME NEW f, IsFiniteSet(DOMAIN f), \A x \in DOMAIN f : f[x] \in Nat,
           NEW g, g = SumsOf(f, g)
    PROVE  \A s \in SUBSET DOMAIN f : g[s] \in Nat /\ \A x \in s : g[s] = f[x] + g[s \ {x}]
<1> DEFINE Fine(s)  == g[s] \in Nat /\ \A x \in s : g[s] = f[x] + g[s \ {x}]
           Faulty   == {Cardinality(s) : s \in {t \in SUBSET DOMAIN f : ~Fine(t)}}
<1>1. \A s \in SUBSET DOMAIN f : IsFiniteSet(s) /\ Cardinality(s) \in Nat
    BY FS_Subset, FS_CardinalityType
<1>2. SUFFICES ASSUME Faulty # {} PROVE FALSE
    <2>1. ASSUME NEW s \in SUBSET DOMAIN f PROVE Fine(s)
        BY <1>2
    <2>2. QED BY <2>1
<1>3. Faulty \in SUBSET Nat
    BY <1>1
<1>4. Min(Faulty) \in Faulty /\ \A n \in Faulty : Min(Faulty) <= n
    BY <1>2, <1>3, LeastNatural
<1>5. PICK s \in SUBSET DOMAIN f : ~Fine(s) /\ Cardinality(s) = Min(Faulty)
    BY <1>4
<1>6. ASSUME NEW t \in SUBSET DOMAIN f, Cardinality(t) < Cardinality(s) PROVE Fine(t)
    <2>1. Cardinality(t) \in Faulty => Cardinality(s) <= Cardinality(t)
        BY <1>4, <1>5
    <2>2. Cardinality(t) \in Nat /\ Cardinality(s) \in Nat
        BY <1>1
    <2>3. Cardinality(t) \notin Faulty
        BY <1>6, <2>1, <2>2
    <2>4. QED BY <2>3
<1> HIDE DEF Faulty
<1>7. s # {}
    <2>1. g[{}] = 0
        <3>1. {} \in SUBSET DOMAIN f
            OBVIOUS
        <3>2. QED BY <3>1 DEF SumsOf, SumOnce
    <2>2. Fine({})
        BY <2>1
    <2> HIDE DEF Fine
    <2>3. QED BY <1>5, <2>2
<1> DEFINE y == Taken(s)
<1>8. y \in s /\ g[s] = f[y] + g[s \ {y}] /\ f[y] \in Nat
    <2>1. y \in s
        BY <1>1, <1>7, TakeOne
    <2>2. QED BY <1>7, <2>1 DEF SumsOf, SumOnce
<1> HIDE DEF y
<1>9. \A x \in s : s \ {x} \in SUBSET DOMAIN f /\ Fine(s \ {x})
    <2> TAKE x \in s
    <2>1. Cardinality(s \ {x}) \in Nat /\ Cardinality(s) = Cardinality(s \ {x}) + 1
        BY <1>1, <1>7, TakeOne
    <2>2. Cardinality(s \ {x}) < Cardinality(s)
        BY <2>1
    <2>3. QED BY <1>6, <2>2
<1>10. g[s] \in Nat
    <2>1. g[s \ {y}] \in Nat
        BY <1>8, <1>9
    <2>2. QED BY <1>8, <2>1
<1>11. ASSUME NEW x \in s PROVE g[s] = f[x] + g[s \ {x}]
    <2>1. CASE x = y
        BY <1>8, <2>1
    <2>2. CASE x # y
        <3> DEFINE rest == (s \ {x}) \ {y}
        <3>1. rest = (s \ {y}) \ {x} /\ x \in s \ {y} /\ y \in s \ {x}
            BY <1>8, <2>2
        <3>2. g[s \ {y}] = f[x] + g[rest] /\ g[s \ {x}] = f[y] + g[rest]
            BY <1>8, <1>9, <3>1
        <3>3. g[s \ {y}] \in Nat /\ g[s \ {x}] \in Nat /\ f[x] \in Nat /\ f[y] \in Nat
            BY <1>8, <1>9
        <3>4. s \ {x} \in SUBSET DOMAIN f /\ rest \in SUBSET DOMAIN f
            OBVIOUS
        <3>5. g[rest] \in Nat
            <4>1. IsFiniteSet(s \ {x}) /\ s \ {x} # {}
                BY <1>1, <3>1, <3>4
            <4>2. /\ Cardinality(rest) \in Nat /\ Cardinality(s \ {x}) = Cardinality(rest) + 1
                  /\ Cardinality(s \ {x}) \in Nat /\ Cardinality(s) = Cardinality(s \ {x}) + 1
                BY <1>1, <1>7, <3>1, <4>1, TakeOne
            <4>3. Cardinality(rest) < Cardinality(s)
                BY <4>2
            <4>4. QED BY <1>6, <3>4, <4>3
        <3> HIDE DEF rest
        <3>6. QED BY <1>8, <3>2, <3>3, <3>5
    <2>3. QED BY <2>1, <2>2
<1>12. QED BY <1>5, <1>10, <1>11

(* The sums of a function and of a part of it agree on the subsets of the part. *)
LEMMA SumsOfPart ==
    ASSUME NEW f, IsFiniteSet(DOMAIN f), NEW e, DOMAIN e \subseteq DOMAIN f,
           \A x \in DOMAIN e : e[x] = f[x],
           NEW g, g = SumsOf(f, g), NEW h, h = SumsOf(e, h)
    PROVE  \A s \in SUBSET DOMAIN e : h[s] = g[s]
<1> DEFINE Apart == {Cardinality(s) : s \in {t \in SUBSET DOMAIN e : h[t] # g[t]}}
<1>1. \A s \in SUBSET DOMAIN e : IsFiniteSet(s) /\ Cardinality(s) \in Nat /\ s \in SUBSET DOMAIN f
    BY FS_Subset, FS_CardinalityType
<1>2. SUFFICES ASSUME Apart # {} PROVE FALSE
    OBVIOUS
<1>3. Apart \in SUBSET Nat
    BY <1>1
<1>4. Min(Apart) \in Apart /\ \A n \in Apart : Min(Apart) <= n
    BY <1>2, <1>3, LeastNatural
<1>5. PICK s \in SUBSET DOMAIN e : h[s] # g[s] /\ Cardinality(s) = Min(Apart)
    BY <1>4
<1>6. h[s] = SumOnce(e, h, s) /\ g[s] = SumOnce(f, g, s)
    BY <1>1 DEF SumsOf
<1>7. s # {}
    BY <1>5, <1>6 DEF SumOnce
<1> DEFINE r == s \ {Taken(s)}
<1>8. /\ Taken(s) \in s /\ r \in SUBSET DOMAIN e
      /\ Cardinality(r) \in Nat /\ Cardinality(s) = Cardinality(r) + 1
    BY <1>1, <1>7, TakeOne
<1>9. h[r] = g[r]
    <2>1. h[r] # g[r] => Cardinality(r) \in Apart
        BY <1>8
    <2>2. Cardinality(r) \in Apart => Cardinality(s) <= Cardinality(r)
        BY <1>4, <1>5
    <2> HIDE DEF r, Apart
    <2>3. QED BY <1>8, <2>1, <2>2
<1>10. e[Taken(s)] = f[Taken(s)]
    BY <1>8
<1>11. QED BY <1>5, <1>6, <1>7, <1>9, <1>10 DEF SumOnce

(* A sum of naturals is a natural. *)
LEMMA SumIsNatural ==
    ASSUME NEW f, IsFiniteSet(DOMAIN f), \A x \in DOMAIN f : f[x] \in Nat
    PROVE  SumFunction(f) \in Nat
<1>1. PICK g : g = SumsOf(f, g) /\ SumFunction(f) = g[DOMAIN f]
    BY SumsDefined
<1>2. QED BY <1>1, SumsAnyOrder

(* Any value may be taken out of a sum. *)
LEMMA SumTakesOut ==
    ASSUME NEW f, IsFiniteSet(DOMAIN f), \A x \in DOMAIN f : f[x] \in Nat, NEW x \in DOMAIN f
    PROVE  SumFunction(f) = f[x] + SumFunction([y \in DOMAIN f \ {x} |-> f[y]])
<1> DEFINE e == [y \in DOMAIN f \ {x} |-> f[y]]
<1>1. PICK g : g = SumsOf(f, g) /\ SumFunction(f) = g[DOMAIN f]
    BY SumsDefined
<1>2. DOMAIN e = DOMAIN f \ {x} /\ IsFiniteSet(DOMAIN e)
      /\ DOMAIN e \subseteq DOMAIN f /\ \A y \in DOMAIN e : e[y] = f[y]
    BY FS_Subset
<1> HIDE DEF e
<1>3. PICK h : h = SumsOf(e, h) /\ SumFunction(e) = h[DOMAIN e]
    BY <1>2, SumsDefined
<1>4. h[DOMAIN e] = g[DOMAIN e]
    BY <1>1, <1>2, <1>3, SumsOfPart
<1>5. g[DOMAIN f] = f[x] + g[DOMAIN f \ {x}]
    BY <1>1, SumsAnyOrder
<1>6. QED BY <1>1, <1>2, <1>3, <1>4, <1>5 DEF e

(* The sum of nothing. *)
LEMMA SumOfNone ==
    ASSUME NEW f, DOMAIN f = {}
    PROVE  SumFunction(f) = 0
<1>1. IsFiniteSet(DOMAIN f)
    BY FS_EmptySet
<1>2. PICK g : g = SumsOf(f, g) /\ SumFunction(f) = g[DOMAIN f]
    BY <1>1, SumsDefined
<1>3. g[{}] = 0
    <2>1. {} \in SUBSET DOMAIN f
        OBVIOUS
    <2>2. g[{}] = SumsOf(f, g)[{}]
        BY <1>2
    <2>3. QED BY <2>1, <2>2 DEF SumsOf, SumOnce
<1>4. QED BY <1>2, <1>3

(* U falls into the parts, one for each member of P. *)
Parted(P, part, U) ==
    /\ IsFiniteSet(P) /\ \A x \in P : IsFiniteSet(part[x])
    /\ \A x, y \in P : x # y => part[x] \cap part[y] = {}
    /\ U = UNION {part[x] : x \in P}

(* The sizes of the parts add up to the size of the whole. *)
LEMMA SumOfCounts ==
    ASSUME NEW P, NEW part, NEW U, Parted(P, part, U)
    PROVE  SumFunction([x \in P |-> Cardinality(part[x])]) = Cardinality(U)
<1> DEFINE Counts(Q) == [x \in Q |-> Cardinality(part[x])]
           All(Q) == UNION {part[x] : x \in Q}
           Fine(Q) == IsFiniteSet(All(Q)) /\ SumFunction(Counts(Q)) = Cardinality(All(Q))
           Faulty == {Cardinality(Q) : Q \in {R \in SUBSET P : ~Fine(R)}}
<1>0. /\ IsFiniteSet(P) /\ \A x \in P : IsFiniteSet(part[x])
      /\ \A x, y \in P : x # y => part[x] \cap part[y] = {}
      /\ U = All(P)
    BY DEF Parted
<1>1. \A Q \in SUBSET P : IsFiniteSet(Q) /\ Cardinality(Q) \in Nat
    BY <1>0, FS_Subset, FS_CardinalityType
<1>2. SUFFICES ASSUME Faulty # {} PROVE FALSE
    <2>1. P \in SUBSET P
        OBVIOUS
    <2>2. Faulty = {} => Fine(P)
        BY <2>1
    <2> HIDE DEF All, Faulty
    <2>3. QED BY <1>0, <2>2
<1>3. PICK Q \in SUBSET P : ~Fine(Q) /\ \A R \in SUBSET P : Cardinality(R) < Cardinality(Q) => Fine(R)
    <2>1. Faulty \in SUBSET Nat
        BY <1>1
    <2>2. Min(Faulty) \in Faulty /\ \A c \in Faulty : Min(Faulty) <= c
        BY <1>2, <2>1, LeastNatural
    <2>3. PICK Q \in SUBSET P : ~Fine(Q) /\ Cardinality(Q) = Min(Faulty)
        BY <2>2
    <2>4. \A R \in SUBSET P : ~Fine(R) => Min(Faulty) <= Cardinality(R)
        BY <2>2
    <2> HIDE DEF Faulty, Fine
    <2>5. \A R \in SUBSET P : Cardinality(R) < Cardinality(Q) => Fine(R)
        BY <1>1, <2>3, <2>4
    <2>6. QED BY <2>3, <2>5
<1>4. CASE Q = {}
    <2>1. DOMAIN Counts(Q) = {} /\ All(Q) = {}
        BY <1>4
    <2>2. SumFunction(Counts(Q)) = 0
        BY <2>1, SumOfNone
    <2>3. QED BY <1>3, <2>1, <2>2, FS_EmptySet
<1>5. CASE Q # {}
    <2>1. PICK x \in Q : TRUE
        BY <1>5
    <2> DEFINE R == Q \ {x}
               f == Counts(Q)
    <2>2. R \in SUBSET P /\ Cardinality(R) < Cardinality(Q)
        BY <1>1, <2>1, FS_RemoveElement
    <2>3. IsFiniteSet(All(R)) /\ SumFunction(Counts(R)) = Cardinality(All(R))
        BY <1>3, <2>2
    <2>4. DOMAIN f = Q /\ f[x] = Cardinality(part[x]) /\ [y \in DOMAIN f \ {x} |-> f[y]] = Counts(R)
        BY <2>1
    <2>5. IsFiniteSet(DOMAIN f) /\ \A y \in DOMAIN f : f[y] \in Nat
        BY <1>0, <1>1, FS_CardinalityType
    <2>6. SumFunction(f) = f[x] + SumFunction([y \in DOMAIN f \ {x} |-> f[y]])
        <3> HIDE DEF f
        <3>1. x \in DOMAIN f
            BY <2>1, <2>4
        <3>2. QED BY <2>5, <3>1, SumTakesOut
    <2>7. SumFunction(Counts(Q)) = Cardinality(part[x]) + Cardinality(All(R))
        BY <2>3, <2>4, <2>6
    <2>8. All(Q) = part[x] \cup All(R) /\ part[x] \cap All(R) = {}
        BY <1>0, <2>1
    <2>9. /\ IsFiniteSet(All(Q))
          /\ Cardinality(All(Q)) = Cardinality(part[x]) + Cardinality(All(R)) - Cardinality(part[x] \cap All(R))
        BY <1>0, <2>1, <2>3, <2>8, FS_Union
    <2>10. Cardinality(part[x] \cap All(R)) = 0
        BY <2>8, FS_EmptySet
    <2>11. Cardinality(part[x]) \in Nat /\ Cardinality(All(R)) \in Nat
        BY <1>0, <2>1, <2>3, FS_CardinalityType
    <2> HIDE DEF All, Counts
    <2>12. SumFunction(Counts(Q)) = Cardinality(All(Q))
        BY <2>7, <2>9, <2>10, <2>11
    <2>13. QED BY <1>3, <2>9, <2>12
<1>6. QED BY <1>4, <1>5
=============================================================================
