------------------------------ MODULE FiniteSums ------------------------------
(***************************************************************************)
(* Sums over finite sets, and what the proofs need to know of them: the    *)
(* value of MapThenSumSet (FiniteSetsExt) is defined by recursion over the *)
(* subsets of its set, one chosen element after the other, so that it      *)
(* takes an induction to see that the choice does not matter.              *)
(*                                                                         *)
(* The inductions go by a least counterexample, in a well-founded order.   *)
(***************************************************************************)
EXTENDS Integers, FiniteSetsExt, FiniteSetTheorems, WellFoundedInduction, TLAPS

Pick(s) == CHOOSE x \in s : TRUE

\* One step of a sum of the weights w of the elements of s.
SumStep(w, sum, s) == IF s = {} THEN 0 ELSE w[Pick(s)] + sum[s \ {Pick(s)}]

\* sum is the sum of the weights w on the subsets of S.
SumsUp(sum, w, S) == sum = [s \in SUBSET S |-> SumStep(w, sum, s)]

Total(w, S) == MapThenSumSet(LAMBDA x : w[x], S)

-----------------------------------------------------------------------------
(* Induction                                                               *)

\* A set of natural numbers has a least element.
LEMMA LeastNatural ==
    ASSUME NEW T, T \subseteq Nat, T /= {}
    PROVE  \E m \in T : \A n \in T : m <= n
<1>1. /\ IsWellFoundedOn(OpToRel(<, Nat), Nat)
      /\ \A m, n \in Nat : <<n, m>> \in OpToRel(<, Nat) <=> n < m
  <2>1. IsWellFoundedOn(OpToRel(<, Nat), Nat)
    BY NatLessThanWellFounded
  <2>2. \A m, n \in Nat : <<n, m>> \in OpToRel(<, Nat) <=> n < m
    BY DEF OpToRel
  <2> QED BY <2>1, <2>2
<1>2. PICK less : IsWellFoundedOn(less, Nat) /\ \A m, n \in Nat : <<n, m>> \in less <=> n < m
  BY <1>1, Zenon
<1>3. PICK m \in T : \A n \in T : ~(<<n, m>> \in less)
  BY <1>2, WFMin
<1>4. \A n \in T : ~(n < m)
  BY <1>2, <1>3
<1> QED BY <1>4

\* A set of subsets of a finite set has a member of which no other is part.
LEMMA LeastSubset ==
    ASSUME NEW S, IsFiniteSet(S), NEW T, T \subseteq SUBSET S, T /= {}
    PROVE  \E s \in T : \A t \in SUBSET s : t /= s => t \notin T
<1>1. IsWellFoundedOn(StrictSubsetOrdering(S), SUBSET S)
  BY FS_StrictSubsetOrderingWellFounded, FS_FiniteSubsetsOfFinite
<1>2. PICK s \in T : \A t \in T : ~(<<t, s>> \in StrictSubsetOrdering(S))
  BY <1>1, WFMin
<1>3. ASSUME NEW t \in SUBSET s, t /= s, t \in T
      PROVE  FALSE
  BY <1>2, <1>3 DEF StrictSubsetOrdering
<1> QED BY <1>3

LEMMA PickIsMember ==
    ASSUME NEW s, s /= {}
    PROVE  Pick(s) \in s
BY DEF Pick

-----------------------------------------------------------------------------
(* There is such a function, and MapThenSumSet is one.                     *)

LEMMA SumsExist ==
    ASSUME NEW S, IsFiniteSet(S), NEW w
    PROVE  \E sum : SumsUp(sum, w, S)
<1> DEFINE Upto(n) == {s \in SUBSET S : Cardinality(s) <= n}
           SumsTo(sum, n) == sum = [s \in Upto(n) |-> SumStep(w, sum, s)]
           Failing == {n \in Nat : ~\E sum : SumsTo(sum, n)}
<1>1. \A s \in SUBSET S : IsFiniteSet(s) /\ Cardinality(s) \in Nat /\ Cardinality(s) <= Cardinality(S)
  BY FS_Subset, FS_CardinalityType
<1>2. \A s \in SUBSET S : s /= {} =>
         Pick(s) \in s /\ Cardinality(s) > 0 /\ Cardinality(s \ {Pick(s)}) = Cardinality(s) - 1
  BY <1>1, FS_RemoveElement, FS_EmptySet, PickIsMember
<1>3. \E sum : SumsTo(sum, 0)
  <2> DEFINE none == [s \in Upto(0) |-> 0]
  <2>1. ASSUME NEW s \in Upto(0)
        PROVE  s = {}
    <3>1. s \in SUBSET S /\ ~(Cardinality(s) > 0)
      BY <1>1
    <3> QED BY <3>1, <1>2
  <2>2. \A s \in Upto(0) : SumStep(w, none, s) = 0
    BY <2>1 DEF SumStep
  <2>3. SumsTo(none, 0)
    BY <2>2
  <2> QED BY <2>3
<1>4. ASSUME NEW n \in Nat, NEW less, SumsTo(less, n)
      PROVE  \E sum : SumsTo(sum, n + 1)
  <2> DEFINE sum == [s \in Upto(n + 1) |-> SumStep(w, less, s)]
  <2>1. \A s \in Upto(n) : s \in Upto(n + 1) /\ sum[s] = less[s]
    <3>1. \A s \in Upto(n) : s \in Upto(n + 1)
      BY <1>1
    <3>2. \A s \in Upto(n) : sum[s] = SumStep(w, less, s)
      BY <3>1
    <3>3. \A s \in Upto(n) : less[s] = SumStep(w, less, s)
      BY <1>4
    <3> QED BY <3>1, <3>2, <3>3
  <2>2. \A s \in Upto(n + 1) : s /= {} => s \ {Pick(s)} \in Upto(n)
    BY <1>1, <1>2
  <2>3. \A s \in Upto(n + 1) : SumStep(w, less, s) = SumStep(w, sum, s)
    <3> HIDE DEF sum
    <3> QED BY <2>1, <2>2 DEF SumStep
  <2>4. sum = [s \in Upto(n + 1) |-> SumStep(w, sum, s)]
    BY <2>3
  <2> QED BY <2>4
<1>5. Failing = {}
  <2> SUFFICES ASSUME Failing /= {} PROVE FALSE
    OBVIOUS
  <2>1. PICK m \in Failing : \A n \in Failing : m <= n
    <3>1. Failing \subseteq Nat
      OBVIOUS
    <3> HIDE DEF Failing
    <3> QED BY <3>1, LeastNatural
  <2>2. m \in Nat /\ m /= 0
    BY <1>3
  <2>3. PICK k \in Nat : m = k + 1
    <3>1. m - 1 \in Nat /\ m = (m - 1) + 1
      BY <2>2
    <3> QED BY <3>1
  <2>4. k \notin Failing
    <3>1. ~(m <= k)
      BY <2>3
    <3> QED BY <3>1, <2>1
  <2>5. PICK less : SumsTo(less, k)
    BY <2>4
  <2>6. \E sum : SumsTo(sum, k + 1)
    BY <2>5, <1>4
  <2>7. k + 1 \notin Failing
    BY <2>6
  <2> QED BY <2>1, <2>3, <2>7
<1>6. PICK sum : SumsTo(sum, Cardinality(S))
  <2>1. Cardinality(S) \in Nat
    BY FS_CardinalityType
  <2> QED BY <1>5, <2>1
<1>7. Upto(Cardinality(S)) = SUBSET S
  BY <1>1
<1> QED BY <1>6, <1>7 DEF SumsUp

\* The value of a sum is that of the function on the subsets.
LEMMA SumsUpIsTotal ==
    ASSUME NEW S, IsFiniteSet(S), NEW w
    PROVE  \E sum : SumsUp(sum, w, S) /\ Total(w, S) = sum[S]
<1> DEFINE iter[s \in SUBSET S] ==
             IF s = {} THEN 0
             ELSE w[CHOOSE x \in s : TRUE] + iter[s \ {CHOOSE x \in s : TRUE}]
<1>1. \E sum : sum = [s \in SUBSET S |->
                      IF s = {} THEN 0
                      ELSE w[CHOOSE x \in s : TRUE] + sum[s \ {CHOOSE x \in s : TRUE}]]
  <2>1. PICK sum : SumsUp(sum, w, S)
    BY SumsExist
  <2>2. sum = [s \in SUBSET S |->
                 IF s = {} THEN 0
                 ELSE w[CHOOSE x \in s : TRUE] + sum[s \ {CHOOSE x \in s : TRUE}]]
    BY <2>1 DEF SumsUp, SumStep, Pick
  <2> QED BY <2>2
<1>2. iter = [s \in SUBSET S |->
                IF s = {} THEN 0
                ELSE w[CHOOSE x \in s : TRUE] + iter[s \ {CHOOSE x \in s : TRUE}]]
  BY <1>1
<1>3. SumsUp(iter, w, S)
  BY <1>2 DEF SumsUp, SumStep, Pick
<1>4. Total(w, S) = iter[S]
  BY DEF Total, MapThenSumSet, MapThenFoldSet
<1> QED BY <1>3, <1>4

\* Two sums of weights that agree on a set agree on its subsets.
LEMMA SumsAgree ==
    ASSUME NEW S, IsFiniteSet(S), NEW U, S \subseteq U, NEW w, NEW v,
           \A x \in S : w[x] = v[x],
           NEW sum, SumsUp(sum, w, S), NEW tot, SumsUp(tot, v, U)
    PROVE  \A s \in SUBSET S : sum[s] = tot[s]
<1> DEFINE Failing == {s \in SUBSET S : sum[s] /= tot[s]}
<1> SUFFICES ASSUME Failing /= {} PROVE FALSE
  OBVIOUS
<1>1. PICK s \in Failing : \A t \in SUBSET s : t /= s => t \notin Failing
  <2>1. Failing \subseteq SUBSET S
    OBVIOUS
  <2> HIDE DEF Failing
  <2> QED BY <2>1, LeastSubset
<1>2. s \in SUBSET S /\ s \in SUBSET U
  OBVIOUS
<1>3. sum[s] = SumStep(w, sum, s) /\ tot[s] = SumStep(v, tot, s)
  BY <1>2 DEF SumsUp
<1>4. SumStep(w, sum, s) = SumStep(v, tot, s)
  <2>1. CASE s = {}
    BY <2>1 DEF SumStep
  <2>2. CASE s /= {}
    <3>1. Pick(s) \in s /\ w[Pick(s)] = v[Pick(s)]
      BY <2>2, <1>2, PickIsMember
    <3>2. s \ {Pick(s)} \in SUBSET s /\ s \ {Pick(s)} /= s
      BY <3>1
    <3>3. sum[s \ {Pick(s)}] = tot[s \ {Pick(s)}]
      BY <3>2, <1>1, <1>2
    <3> QED BY <2>2, <3>1, <3>3 DEF SumStep
  <2> QED BY <2>1, <2>2
<1> QED BY <1>1, <1>3, <1>4

\* So every sum on the subsets of a set gives the totals of its subsets.
LEMMA SumsAreTotals ==
    ASSUME NEW S, IsFiniteSet(S), NEW w, NEW sum, SumsUp(sum, w, S)
    PROVE  \A s \in SUBSET S : sum[s] = Total(w, s)
<1> TAKE s \in SUBSET S
<1>1. IsFiniteSet(s)
  BY FS_Subset
<1>2. PICK tot : SumsUp(tot, w, s) /\ Total(w, s) = tot[s]
  BY <1>1, SumsUpIsTotal
<1>3. \A t \in SUBSET s : tot[t] = sum[t]
  BY <1>1, <1>2, SumsAgree
<1> QED BY <1>2, <1>3

-----------------------------------------------------------------------------
(* What totals are                                                         *)

LEMMA TotalStep ==
    ASSUME NEW S, IsFiniteSet(S), NEW w
    PROVE  /\ Total(w, {}) = 0
           /\ \A s \in SUBSET S : s /= {} =>
                 Total(w, s) = w[Pick(s)] + Total(w, s \ {Pick(s)})
<1>1. PICK sum : SumsUp(sum, w, S)
  BY SumsExist
<1>2. \A s \in SUBSET S : sum[s] = Total(w, s) /\ sum[s] = SumStep(w, sum, s)
  <2>1. \A s \in SUBSET S : sum[s] = Total(w, s)
    BY <1>1, SumsAreTotals
  <2>2. \A s \in SUBSET S : sum[s] = SumStep(w, sum, s)
    BY <1>1 DEF SumsUp
  <2> QED BY <2>1, <2>2
<1>3. Total(w, {}) = 0
  BY <1>2 DEF SumStep
<1>4. ASSUME NEW s \in SUBSET S, s /= {}
      PROVE  Total(w, s) = w[Pick(s)] + Total(w, s \ {Pick(s)})
  <2>1. s \ {Pick(s)} \in SUBSET S
    OBVIOUS
  <2>2. sum[s] = w[Pick(s)] + sum[s \ {Pick(s)}]
    BY <1>2, <1>4 DEF SumStep
  <2> QED BY <2>1, <2>2, <1>2
<1> QED BY <1>3, <1>4

LEMMA TotalType ==
    ASSUME NEW S, IsFiniteSet(S), NEW w, \A x \in S : w[x] \in Int
    PROVE  Total(w, S) \in Int
<1> DEFINE Failing == {s \in SUBSET S : Total(w, s) \notin Int}
<1> SUFFICES ASSUME Failing /= {} PROVE FALSE
  OBVIOUS
<1>1. PICK s \in Failing : \A t \in SUBSET s : t /= s => t \notin Failing
  <2>1. Failing \subseteq SUBSET S
    OBVIOUS
  <2> HIDE DEF Failing
  <2> QED BY <2>1, LeastSubset
<1>2. s \in SUBSET S /\ s /= {}
  BY TotalStep
<1>3. Pick(s) \in s /\ w[Pick(s)] \in Int
  BY <1>2, PickIsMember
<1>4. Total(w, s \ {Pick(s)}) \in Int
  BY <1>1, <1>2, <1>3
<1>5. Total(w, s) = w[Pick(s)] + Total(w, s \ {Pick(s)})
  BY <1>2, TotalStep
<1> QED BY <1>1, <1>3, <1>4, <1>5

\* Whichever element is taken out first, it counts once.
LEMMA TotalWithout ==
    ASSUME NEW S, IsFiniteSet(S), NEW w, \A x \in S : w[x] \in Int
    PROVE  \A x \in S : Total(w, S) = w[x] + Total(w, S \ {x})
<1> DEFINE Holds(s) == \A x \in s : Total(w, s) = w[x] + Total(w, s \ {x})
           Failing == {s \in SUBSET S : ~Holds(s)}
<1> SUFFICES ASSUME Failing /= {} PROVE FALSE
  OBVIOUS
<1>1. PICK s \in Failing : \A t \in SUBSET s : t /= s => t \notin Failing
  <2>1. Failing \subseteq SUBSET S
    OBVIOUS
  <2> HIDE DEF Failing
  <2> QED BY <2>1, LeastSubset
<1>2. s \in SUBSET S /\ s /= {} /\ ~Holds(s)
  OBVIOUS
<1>3. PICK x \in s : Total(w, s) /= w[x] + Total(w, s \ {x})
  BY <1>2
<1>4. PICK p \in s : p = Pick(s)
  BY <1>2, PickIsMember
<1>5. Total(w, s) = w[p] + Total(w, s \ {p})
  BY <1>2, <1>4, TotalStep
<1>6. x /= p
  BY <1>3, <1>5
<1>7. Holds(s \ {p}) /\ Holds(s \ {x})
  <2>1. /\ s \ {p} \in SUBSET s /\ s \ {p} /= s
        /\ s \ {x} \in SUBSET s /\ s \ {x} /= s
    OBVIOUS
  <2>2. s \ {p} \notin Failing /\ s \ {x} \notin Failing
    BY <1>1, <2>1
  <2>3. s \ {p} \in SUBSET S /\ s \ {x} \in SUBSET S
    BY <1>2
  <2> QED BY <2>2, <2>3
<1>8. /\ Total(w, s \ {p}) = w[x] + Total(w, (s \ {p}) \ {x})
      /\ Total(w, s \ {x}) = w[p] + Total(w, (s \ {x}) \ {p})
  <2>1. x \in s \ {p} /\ p \in s \ {x}
    BY <1>6
  <2> QED BY <1>7, <2>1
<1>9. PICK rest \in Int : rest = Total(w, (s \ {p}) \ {x}) /\ rest = Total(w, (s \ {x}) \ {p})
  <2>1. (s \ {p}) \ {x} = (s \ {x}) \ {p}
    OBVIOUS
  <2>2. (s \ {p}) \ {x} \in SUBSET S
    BY <1>2
  <2>3. Total(w, (s \ {p}) \ {x}) \in Int
    BY <2>2, FS_Subset, TotalType
  <2> QED BY <2>1, <2>3
<1>10. w[x] \in Int /\ w[p] \in Int
  BY <1>2
<1>11. Total(w, s) = w[p] + (w[x] + rest) /\ w[x] + Total(w, s \ {x}) = w[x] + (w[p] + rest)
  BY <1>5, <1>8, <1>9
<1> QED BY <1>3, <1>10, <1>11

-----------------------------------------------------------------------------
(* Sums of changed weights and sets                                        *)

LEMMA TotalOfEqual ==
    ASSUME NEW S, IsFiniteSet(S), NEW w, NEW v, \A x \in S : w[x] = v[x]
    PROVE  Total(w, S) = Total(v, S)
<1>1. PICK sum : SumsUp(sum, w, S) /\ Total(w, S) = sum[S]
  BY SumsUpIsTotal
<1>2. PICK tot : SumsUp(tot, v, S) /\ Total(v, S) = tot[S]
  BY SumsUpIsTotal
<1>3. \A s \in SUBSET S : sum[s] = tot[s]
  BY <1>1, <1>2, SumsAgree
<1> QED BY <1>1, <1>2, <1>3

LEMMA TotalOfMore ==
    ASSUME NEW S, IsFiniteSet(S), NEW x, x \notin S, NEW w, \A y \in S \union {x} : w[y] \in Int
    PROVE  Total(w, S \union {x}) = w[x] + Total(w, S)
<1>1. IsFiniteSet(S \union {x})
  BY FS_AddElement
<1>2. Total(w, S \union {x}) = w[x] + Total(w, (S \union {x}) \ {x})
  BY <1>1, TotalWithout
<1>3. (S \union {x}) \ {x} = S
  OBVIOUS
<1> QED BY <1>2, <1>3

LEMMA TotalOfChanged ==
    ASSUME NEW S, IsFiniteSet(S), NEW w, NEW v, \A y \in S : w[y] \in Int /\ v[y] \in Int,
           NEW x \in S, \A y \in S : y /= x => v[y] = w[y]
    PROVE  Total(v, S) = Total(w, S) - w[x] + v[x]
<1> DEFINE rest == S \ {x}
<1>1. IsFiniteSet(rest)
  BY FS_Subset
<1>2. Total(w, S) = w[x] + Total(w, rest) /\ Total(v, S) = v[x] + Total(v, rest)
  BY TotalWithout
<1>3. Total(v, rest) = Total(w, rest) /\ Total(w, rest) \in Int
  <2>1. \A y \in rest : v[y] = w[y] /\ w[y] \in Int
    OBVIOUS
  <2> HIDE DEF rest
  <2> QED BY <1>1, <2>1, TotalOfEqual, TotalType
<1> HIDE DEF rest
<1> QED BY <1>2, <1>3

LEMMA TotalOfBoth ==
    ASSUME NEW S, IsFiniteSet(S), NEW T, IsFiniteSet(T), S \intersect T = {},
           NEW w, \A x \in S \union T : w[x] \in Int
    PROVE  Total(w, S \union T) = Total(w, S) + Total(w, T)
<1> DEFINE Failing == {t \in SUBSET T : Total(w, S \union t) /= Total(w, S) + Total(w, t)}
<1> SUFFICES ASSUME Failing /= {} PROVE FALSE
  OBVIOUS
<1>1. PICK t \in Failing : \A u \in SUBSET t : u /= t => u \notin Failing
  <2>1. Failing \subseteq SUBSET T
    OBVIOUS
  <2> HIDE DEF Failing
  <2> QED BY <2>1, LeastSubset
<1>2. t \in SUBSET T /\ Total(w, S \union t) /= Total(w, S) + Total(w, t)
  OBVIOUS
<1>3. Total(w, S) \in Int
  BY TotalType
<1>4. t /= {}
  <2>1. Total(w, {}) = 0 /\ S \union {} = S
    BY TotalStep
  <2> QED BY <1>2, <1>3, <2>1
<1>5. PICK x \in t : TRUE
  BY <1>4
<1>6. PICK u \in SUBSET T : u = t \ {x}
  BY <1>2
<1>7. Total(w, S \union u) = Total(w, S) + Total(w, u)
  <2>1. u \in SUBSET t /\ u /= t
    BY <1>5, <1>6
  <2> QED BY <1>1, <1>6, <2>1
<1>8. Total(w, t) = w[x] + Total(w, u)
  <2>1. IsFiniteSet(t) /\ \A y \in t : w[y] \in Int
    BY <1>2, FS_Subset
  <2> QED BY <1>5, <1>6, <2>1, TotalWithout
<1>9. Total(w, S \union t) = w[x] + Total(w, S \union u)
  <2>1. IsFiniteSet(S \union t) /\ \A y \in S \union t : w[y] \in Int
    <3>1. IsFiniteSet(t)
      BY <1>2, FS_Subset
    <3> QED BY <1>2, <3>1, FS_Union
  <2>2. (S \union t) \ {x} = S \union u
    BY <1>2, <1>5, <1>6
  <2> QED BY <1>5, <2>1, <2>2, TotalWithout
<1>10. w[x] \in Int /\ Total(w, u) \in Int
  <2>1. IsFiniteSet(u) /\ \A y \in u : w[y] \in Int
    BY <1>6, FS_Subset
  <2> QED BY <1>2, <1>5, <2>1, TotalType
<1> QED BY <1>2, <1>3, <1>7, <1>8, <1>9, <1>10

LEMMA TotalIsNatural ==
    ASSUME NEW S, IsFiniteSet(S), NEW w, \A x \in S : w[x] \in Nat
    PROVE  Total(w, S) \in Nat
<1> DEFINE Failing == {s \in SUBSET S : Total(w, s) \notin Nat}
<1> SUFFICES ASSUME Failing /= {} PROVE FALSE
  OBVIOUS
<1>1. PICK s \in Failing : \A t \in SUBSET s : t /= s => t \notin Failing
  <2>1. Failing \subseteq SUBSET S
    OBVIOUS
  <2> HIDE DEF Failing
  <2> QED BY <2>1, LeastSubset
<1>2. s \in SUBSET S /\ s /= {}
  BY TotalStep
<1>3. Pick(s) \in s /\ w[Pick(s)] \in Nat
  BY <1>2, PickIsMember
<1>4. Total(w, s \ {Pick(s)}) \in Nat
  BY <1>1, <1>2, <1>3
<1>5. Total(w, s) = w[Pick(s)] + Total(w, s \ {Pick(s)})
  BY <1>2, TotalStep
<1> QED BY <1>1, <1>3, <1>4, <1>5

\* A part is not more than the whole, and less if weights are positive.
LEMMA TotalOfPart ==
    ASSUME NEW T, IsFiniteSet(T), NEW S \in SUBSET T, NEW w, \A x \in T : w[x] \in Nat
    PROVE  /\ Total(w, S) <= Total(w, T)
           /\ (S /= T /\ \A x \in T : w[x] > 0) => Total(w, S) < Total(w, T)
<1> DEFINE rest == T \ S
<1>1. IsFiniteSet(S) /\ IsFiniteSet(rest)
  BY FS_Subset
<1>2. Total(w, T) = Total(w, S) + Total(w, rest)
  <2>1. S \intersect rest = {} /\ S \union rest = T
    OBVIOUS
  <2> HIDE DEF rest
  <2> QED BY <1>1, <2>1, TotalOfBoth
<1>3. Total(w, S) \in Nat /\ Total(w, rest) \in Nat
  BY <1>1, TotalIsNatural
<1>4. ASSUME S /= T, \A x \in T : w[x] > 0
      PROVE  Total(w, rest) > 0
  <2>1. PICK x \in rest : w[x] \in Nat /\ w[x] > 0
    BY <1>4
  <2>2. IsFiniteSet(rest \ {x})
    BY <1>1, FS_RemoveElement
  <2>3. Total(w, rest \ {x}) \in Nat
    BY <2>2, TotalIsNatural
  <2>4. Total(w, rest) = w[x] + Total(w, rest \ {x})
    BY <1>1, TotalWithout
  <2> HIDE DEF rest
  <2> QED BY <2>1, <2>3, <2>4
<1> HIDE DEF rest
<1> QED BY <1>2, <1>3, <1>4

LEMMA TotalOfLess ==
    ASSUME NEW S, IsFiniteSet(S), NEW w, NEW v,
           \A x \in S : w[x] \in Int /\ v[x] \in Int /\ w[x] <= v[x]
    PROVE  Total(w, S) <= Total(v, S)
<1> DEFINE Failing == {s \in SUBSET S : ~(Total(w, s) <= Total(v, s))}
<1> SUFFICES ASSUME Failing /= {} PROVE FALSE
  OBVIOUS
<1>1. PICK s \in Failing : \A t \in SUBSET s : t /= s => t \notin Failing
  <2>1. Failing \subseteq SUBSET S
    OBVIOUS
  <2> HIDE DEF Failing
  <2> QED BY <2>1, LeastSubset
<1>2. s \in SUBSET S /\ s /= {}
  BY TotalStep
<1>3. PICK x \in s : x = Pick(s) /\ w[x] \in Int /\ v[x] \in Int /\ w[x] <= v[x]
  BY <1>2, PickIsMember
<1>4. PICK t \in SUBSET S : t = s \ {x}
  BY <1>2
<1>5. Total(w, t) <= Total(v, t)
  BY <1>1, <1>3, <1>4
<1>6. Total(w, t) \in Int /\ Total(v, t) \in Int
  BY <1>4, FS_Subset, TotalType
<1>7. Total(w, s) = w[x] + Total(w, t) /\ Total(v, s) = v[x] + Total(v, t)
  BY <1>2, <1>3, <1>4, TotalStep
<1> QED BY <1>1, <1>3, <1>5, <1>6, <1>7


LEMMA TotalOfSums ==
    ASSUME NEW S, IsFiniteSet(S), NEW w, NEW v, NEW u,
           \A x \in S : w[x] \in Int /\ v[x] \in Int /\ u[x] = w[x] + v[x]
    PROVE  Total(u, S) = Total(w, S) + Total(v, S)
<1> DEFINE Failing == {s \in SUBSET S : Total(u, s) /= Total(w, s) + Total(v, s)}
<1> SUFFICES ASSUME Failing /= {} PROVE FALSE
  OBVIOUS
<1>1. PICK s \in Failing : \A t \in SUBSET s : t /= s => t \notin Failing
  <2>1. Failing \subseteq SUBSET S
    OBVIOUS
  <2> HIDE DEF Failing
  <2> QED BY <2>1, LeastSubset
<1>2. s \in SUBSET S /\ s /= {}
  <2>1. Total(u, {}) = 0
    BY TotalStep
  <2>2. Total(w, {}) = 0
    BY TotalStep
  <2>3. Total(v, {}) = 0
    BY TotalStep
  <2>4. Total(u, {}) = Total(w, {}) + Total(v, {})
    BY <2>1, <2>2, <2>3
  <2>5. s \in SUBSET S /\ Total(u, s) /= Total(w, s) + Total(v, s)
    OBVIOUS
  <2> QED BY <2>4, <2>5
<1>3. PICK x \in s : x = Pick(s) /\ w[x] \in Int /\ v[x] \in Int /\ u[x] = w[x] + v[x]
  BY <1>2, PickIsMember
<1>4. PICK t \in SUBSET S : t = s \ {x}
  BY <1>2
<1>5. Total(u, t) = Total(w, t) + Total(v, t)
  BY <1>1, <1>3, <1>4
<1>6. Total(w, t) \in Int /\ Total(v, t) \in Int
  BY <1>4, FS_Subset, TotalType
<1>7. /\ Total(w, s) = w[x] + Total(w, t) /\ Total(v, s) = v[x] + Total(v, t)
      /\ Total(u, s) = u[x] + Total(u, t)
  BY <1>2, <1>3, <1>4, TotalStep
<1> QED BY <1>1, <1>3, <1>5, <1>6, <1>7

=============================================================================
