-------------------------------- MODULE Sums --------------------------------
(***************************************************************************)
(* What sums over finite sets obey: the facts about SumFunctionOnSet that  *)
(* the proofs about ledgers, payments and bank balances rest on.  It is    *)
(* defined by recursion on the set, an arbitrary member first.  Induction  *)
(* is on finite sets, stated for a set of sets instead of a predicate: a   *)
(* set of finite sets has a smallest member (MinimalSubset).               *)
(***************************************************************************)
EXTENDS Integers, FiniteSets, Functions, FiniteSetTheorems, WellFoundedInduction, TLAPS

(* A set of naturals has a least member.                                   *)
LEMMA LeastNatural ==
  ASSUME NEW T, T \subseteq Nat, T # {}
  PROVE  \E n \in T : \A m \in T : n <= m
<1>1. PICK n \in T : \A m \in T : ~ (<<m, n>> \in OpToRel(<, Nat))
  BY WFMin, NatLessThanWellFounded, Zenon
<1>2. \A m \in T : ~ (m < n)
  BY <1>1 DEF OpToRel
<1> QED
  BY <1>2

(* Of some subsets of a finite set one has no other of them below it.      *)
LEMMA MinimalSubset ==
  ASSUME NEW S, IsFiniteSet(S), NEW B, B \subseteq SUBSET S, B # {}
  PROVE  \E s \in B : \A t \in B : t \subseteq s => t = s
<1> DEFINE T == {Cardinality(s) : s \in B}
<1>1. \A s \in B : IsFiniteSet(s) /\ Cardinality(s) \in Nat
  BY FS_Subset, FS_CardinalityType
<1>2. T \subseteq Nat /\ T # {}
  BY <1>1
<1>3. PICK s \in B : \A t \in B : Cardinality(s) <= Cardinality(t)
  <2> HIDE DEF T
  <2>1. PICK n \in T : \A m \in T : n <= m
    BY <1>2, LeastNatural
  <2> QED
    BY <2>1 DEF T
<1>4. ASSUME NEW t \in B, t \subseteq s PROVE t = s
  <2>1. Cardinality(t) <= Cardinality(s)
    BY <1>1, <1>4, FS_Subset
  <2> QED
    BY <2>1, <1>1, <1>3, <1>4, FS_Subset
<1> QED
  BY <1>3, <1>4

(* The recursive equation behind a sum, and its solution.                  *)
AnyOf(s) == CHOOSE x \in s : TRUE
SolvesSum(g, f, S) ==
  g = [s \in SUBSET S |-> IF s = {} THEN 0 ELSE f[AnyOf(s)] + g[s \ {AnyOf(s)}]]
SolvedSum(f, S) == (CHOOSE g : SolvesSum(g, f, S))[S]

(* The sum is what the only solution of its recursive equation says.       *)
LEMMA SumIsTotal ==
  ASSUME NEW f, NEW S PROVE SumFunctionOnSet(f, S) = SolvedSum(f, S)
BY Zenon DEF SumFunctionOnSet, FoldFunctionOnSet, MapThenFoldSet, SolvedSum, SolvesSum, AnyOf

(* The equation has a solution, built up by the size of the sets.          *)
LEMMA SolutionExists ==
  ASSUME NEW f, NEW S, IsFiniteSet(S) PROVE \E g : SolvesSum(g, f, S)
<1> DEFINE Low(n) == {s \in SUBSET S : Cardinality(s) <= n}
           Upto(g, n) == g = [s \in Low(n) |-> IF s = {} THEN 0 ELSE f[AnyOf(s)] + g[s \ {AnyOf(s)}]]
           Bad == {n \in Nat : ~ \E g : Upto(g, n)}
<1>1. \A s \in SUBSET S : IsFiniteSet(s) /\ Cardinality(s) \in Nat /\ Cardinality(s) <= Cardinality(S)
  BY FS_Subset, FS_CardinalityType
<1>2. \A s \in SUBSET S : s # {} =>
         AnyOf(s) \in s /\ s \ {AnyOf(s)} \in SUBSET S /\ Cardinality(s \ {AnyOf(s)}) = Cardinality(s) - 1
  <2> SUFFICES ASSUME NEW s \in SUBSET S, s # {}
               PROVE  AnyOf(s) \in s /\ s \ {AnyOf(s)} \in SUBSET S
                        /\ Cardinality(s \ {AnyOf(s)}) = Cardinality(s) - 1
    OBVIOUS
  <2>1. AnyOf(s) \in s
    BY DEF AnyOf
  <2> QED
    BY <2>1, <1>1, FS_RemoveElement
<1>3. Upto([s \in Low(0) |-> 0], 0)
  <2>1. \A s \in Low(0) : s = {}
    BY <1>1, FS_EmptySet
  <2> QED
    BY <2>1
<1>4. ASSUME NEW n \in Nat, NEW g, Upto(g, n)
      PROVE  \E h : Upto(h, n + 1)
  <2> DEFINE h == [s \in Low(n + 1) |-> IF s = {} THEN 0 ELSE f[AnyOf(s)] + g[s \ {AnyOf(s)}]]
  <2>1. \A s \in Low(n) : s \in Low(n + 1) /\ h[s] = g[s]
    <3> SUFFICES ASSUME NEW s \in Low(n) PROVE s \in Low(n + 1) /\ h[s] = g[s]
      OBVIOUS
    <3>1. s \in Low(n + 1)
      BY <1>1
    <3>2. h[s] = IF s = {} THEN 0 ELSE f[AnyOf(s)] + g[s \ {AnyOf(s)}]
      BY <3>1
    <3>3. g[s] = IF s = {} THEN 0 ELSE f[AnyOf(s)] + g[s \ {AnyOf(s)}]
      <4> HIDE DEF Low
      <4> QED
        BY <1>4
    <3> QED
      BY <3>1, <3>2, <3>3
  <2>2. \A s \in Low(n + 1) : s # {} => s \ {AnyOf(s)} \in Low(n)
    BY <1>1, <1>2
  <2>3. \A s \in Low(n + 1) :
          h[s] = IF s = {} THEN 0 ELSE f[AnyOf(s)] + h[s \ {AnyOf(s)}]
    BY <2>1, <2>2
  <2>4. h = [s \in Low(n + 1) |-> h[s]]
    OBVIOUS
  <2>5. Upto(h, n + 1)
    <3> HIDE DEF h, Low
    <3> QED
      BY <2>3, <2>4
  <2> QED
    BY <2>5
<1>5. Bad = {}
  <2> SUFFICES ASSUME Bad # {} PROVE FALSE
    OBVIOUS
  <2>1. PICK n \in Bad : \A m \in Bad : n <= m
    BY LeastNatural
  <2> HIDE DEF Upto
  <2>2. n \in Nat /\ n # 0
    BY <1>3
  <2>3. n - 1 \in Nat
    BY <2>2
  <2>4. n - 1 \notin Bad
    <3> HIDE DEF Bad
    <3> QED
      BY <2>1, <2>2, <2>3
  <2>5. \E g : Upto(g, n - 1)
    BY <2>3, <2>4
  <2>6. \E g : Upto(g, (n - 1) + 1)
    BY <2>3, <2>5, <1>4
  <2>7. (n - 1) + 1 = n
    BY <2>2
  <2> QED
    BY <2>6, <2>7
<1>6. Cardinality(S) \in Nat /\ Low(Cardinality(S)) = SUBSET S
  BY <1>1
<1>7. PICK g : Upto(g, Cardinality(S))
  BY <1>5, <1>6
<1> QED
  BY <1>6, <1>7 DEF SolvesSum

(* Two solutions agree wherever both are defined.                          *)
LEMMA SolutionsAgree ==
  ASSUME NEW f, NEW S, IsFiniteSet(S), NEW T \in SUBSET S,
         NEW g, SolvesSum(g, f, S), NEW h, SolvesSum(h, f, T)
  PROVE  g[T] = h[T]
<1> DEFINE Bad == {s \in SUBSET T : g[s] # h[s]}
<1>1. IsFiniteSet(T)
  BY FS_Subset
<1>2. Bad = {}
  <2> SUFFICES ASSUME Bad # {} PROVE FALSE
    OBVIOUS
  <2>1. PICK s \in Bad : \A t \in Bad : t \subseteq s => t = s
    <3> HIDE DEF Bad
    <3>1. Bad \subseteq SUBSET T
      BY DEF Bad
    <3> QED
      BY <1>1, <3>1, MinimalSubset
  <2>2. s \in SUBSET S /\ s \in SUBSET T
    OBVIOUS
  <2>3. g[s] = (IF s = {} THEN 0 ELSE f[AnyOf(s)] + g[s \ {AnyOf(s)}])
        /\ h[s] = (IF s = {} THEN 0 ELSE f[AnyOf(s)] + h[s \ {AnyOf(s)}])
    BY <2>2 DEF SolvesSum
  <2>4. s # {}
    BY <2>3
  <2>5. AnyOf(s) \in s
    BY <2>4 DEF AnyOf
  <2>6. s \ {AnyOf(s)} \notin Bad
    BY <2>1, <2>5
  <2> QED
    BY <2>2, <2>3, <2>4, <2>6
<1> QED
  BY <1>2

(* A sum over any subset is what a solution for the whole set says.        *)
LEMMA TotalSolves ==
  ASSUME NEW f, NEW S, IsFiniteSet(S)
  PROVE  \E g : SolvesSum(g, f, S) /\ \A T \in SUBSET S : SolvedSum(f, T) = g[T]
<1> DEFINE g == CHOOSE x : SolvesSum(x, f, S)
<1>1. SolvesSum(g, f, S)
  BY SolutionExists
<1>2. ASSUME NEW T \in SUBSET S PROVE SolvedSum(f, T) = g[T]
  <2> DEFINE h == CHOOSE x : SolvesSum(x, f, T)
  <2>1. IsFiniteSet(T)
    BY FS_Subset
  <2>2. SolvesSum(h, f, T)
    BY <2>1, SolutionExists
  <2>3. SolvedSum(f, T) = h[T]
    BY DEF SolvedSum
  <2> HIDE DEF g, h
  <2> QED
    BY <1>1, <2>2, <2>3, SolutionsAgree
<1> QED
  BY <1>1, <1>2

(* The recursive equation, for the sums themselves.                        *)
LEMMA TotalStep ==
  ASSUME NEW f, NEW S, IsFiniteSet(S)
  PROVE  SolvedSum(f, S) = IF S = {} THEN 0 ELSE f[AnyOf(S)] + SolvedSum(f, S \ {AnyOf(S)})
<1>1. PICK g : SolvesSum(g, f, S) /\ \A T \in SUBSET S : SolvedSum(f, T) = g[T]
  BY TotalSolves
<1>2. S \in SUBSET S /\ S \ {AnyOf(S)} \in SUBSET S
  OBVIOUS
<1>3. g[S] = IF S = {} THEN 0 ELSE f[AnyOf(S)] + g[S \ {AnyOf(S)}]
  BY <1>1, <1>2 DEF SolvesSum
<1> QED
  BY <1>1, <1>2, <1>3


(* Induction over finite sets: what the empty set has, and a set keeps when*)
(* one more member joins it, all finite sets have.                         *)
LEMMA FiniteInduction ==
  ASSUME NEW S, IsFiniteSet(S), NEW P, {} \in P,
         \A s \in SUBSET S, x \in S : x \notin s /\ s \in P => s \cup {x} \in P
  PROVE  S \in P
<1> DEFINE Bad == (SUBSET S) \ P
<1>1. SUFFICES ASSUME Bad # {} PROVE FALSE
  BY DEF Bad
<1>2. PICK s \in Bad : \A t \in Bad : t \subseteq s => t = s
  <2> HIDE DEF Bad
  <2>1. Bad \subseteq SUBSET S
    BY DEF Bad
  <2> QED
    BY <1>1, <2>1, MinimalSubset
<1>3. PICK x : x \in s
  BY <1>2
<1>4. s \ {x} \in SUBSET S /\ s \ {x} \notin Bad
  BY <1>2, <1>3
<1>5. (s \ {x}) \cup {x} = s
  BY <1>3
<1> QED
  BY <1>2, <1>3, <1>4, <1>5

(* Whichever member is taken first, the sum is the same.                   *)
LEMMA TotalRemove ==
  ASSUME NEW S, IsFiniteSet(S), NEW f, \A x \in S : f[x] \in Int
  PROVE  /\ SolvedSum(f, S) \in Int
         /\ \A x \in S : SolvedSum(f, S) = f[x] + SolvedSum(f, S \ {x})
<1> DEFINE Good(s) == /\ SolvedSum(f, s) \in Int
                      /\ \A x \in s : SolvedSum(f, s) = f[x] + SolvedSum(f, s \ {x})
           Bad == {s \in SUBSET S : ~Good(s)}
<1>1. Bad = {}
  <2> SUFFICES ASSUME Bad # {} PROVE FALSE
    OBVIOUS
  <2>1. PICK s \in Bad : \A t \in Bad : t \subseteq s => t = s
    <3> HIDE DEF Bad
    <3>1. Bad \subseteq SUBSET S
      BY DEF Bad
    <3> QED
      BY <3>1, MinimalSubset
  <2> DEFINE a == AnyOf(s)
  <2>2. s \in SUBSET S /\ IsFiniteSet(s) /\ \A t \in SUBSET s : IsFiniteSet(t)
    BY FS_Subset
  <2>3. SolvedSum(f, s) = IF s = {} THEN 0 ELSE f[a] + SolvedSum(f, s \ {a})
    BY <2>2, TotalStep
  <2>4. s # {}
    BY <2>3
  <2>5. a \in s
    BY <2>4 DEF AnyOf
  <2>6. \A t \in SUBSET s : t # s => Good(t)
    <3> HIDE DEF Good
    <3> QED
      BY <2>1, <2>2
  <2> HIDE DEF a
  <2>7. \A x \in s : Good(s \ {x}) /\ f[x] \in Int
    <3> HIDE DEF Good
    <3> QED
      BY <2>2, <2>6
  <2>8. SolvedSum(f, s) \in Int /\ SolvedSum(f, s) = f[a] + SolvedSum(f, s \ {a})
    BY <2>3, <2>4, <2>5, <2>7
  <2>9. ASSUME NEW x \in s, x # a PROVE SolvedSum(f, s) = f[x] + SolvedSum(f, s \ {x})
    <3>1. SolvedSum(f, s \ {a}) = f[x] + SolvedSum(f, (s \ {a}) \ {x})
      BY <2>5, <2>7, <2>9
    <3>2. SolvedSum(f, s \ {x}) = f[a] + SolvedSum(f, (s \ {x}) \ {a})
      BY <2>5, <2>7, <2>9
    <3>3. (s \ {a}) \ {x} = (s \ {x}) \ {a}
      OBVIOUS
    <3>4. Good((s \ {a}) \ {x})
      <4> HIDE DEF Good
      <4> QED
        BY <2>6, <2>5
    <3>5. f[x] \in Int /\ f[a] \in Int /\ SolvedSum(f, (s \ {a}) \ {x}) \in Int
      BY <2>5, <2>7, <3>4
    <3> DEFINE u == SolvedSum(f, (s \ {a}) \ {x})
    <3>6. SolvedSum(f, s \ {a}) = f[x] + u /\ SolvedSum(f, s \ {x}) = f[a] + u
      BY <3>1, <3>2, <3>3, Zenon
    <3>7. u \in Int
      BY <3>5
    <3> HIDE DEF Good, u
    <3> QED
      BY <2>8, <3>5, <3>6, <3>7
  <2> QED
    BY <2>1, <2>8, <2>9
<1> QED
  BY <1>1

(* Nothing sums up to zero.                                                *)
LEMMA SumEmpty ==
  ASSUME NEW f PROVE SumFunctionOnSet(f, {}) = 0
BY SumIsTotal, TotalStep, FS_EmptySet

(* A sum of integers is an integer.                                        *)
LEMMA SumType ==
  ASSUME NEW S, IsFiniteSet(S), NEW f, \A x \in S : f[x] \in Int
  PROVE  SumFunctionOnSet(f, S) \in Int
BY SumIsTotal, TotalRemove

(* A sum less one of its members.                                          *)
LEMMA SumRemove ==
  ASSUME NEW S, IsFiniteSet(S), NEW f, \A x \in S : f[x] \in Int, NEW x \in S
  PROVE  SumFunctionOnSet(f, S) = f[x] + SumFunctionOnSet(f, S \ {x})
BY SumIsTotal, TotalRemove

(* A sum and one more member.                                              *)
LEMMA SumAdd ==
  ASSUME NEW S, IsFiniteSet(S), NEW x, x \notin S, NEW f, \A y \in S \cup {x} : f[y] \in Int
  PROVE  SumFunctionOnSet(f, S \cup {x}) = f[x] + SumFunctionOnSet(f, S)
<1>1. IsFiniteSet(S \cup {x}) /\ (S \cup {x}) \ {x} = S
  BY FS_AddElement
<1> QED
  BY <1>1, SumRemove

(* The sum of one value.                                                   *)
LEMMA SumOne ==
  ASSUME NEW f, NEW x, f[x] \in Int
  PROVE  SumFunctionOnSet(f, {x}) = f[x]
<1>1. IsFiniteSet({x}) /\ {x} \ {x} = {}
  BY FS_Singleton
<1>2. SumFunctionOnSet(f, {x}) = f[x] + SumFunctionOnSet(f, {x} \ {x})
  <2> DEFINE S == {x}
  <2>1. x \in S /\ (\A y \in S : f[y] \in Int) /\ IsFiniteSet(S)
    BY <1>1
  <2> HIDE DEF S
  <2>2. SumFunctionOnSet(f, S) = f[x] + SumFunctionOnSet(f, S \ {x})
    BY <2>1, SumRemove
  <2> QED
    BY <2>2 DEF S
<1>3. SumFunctionOnSet(f, {x} \ {x}) = 0
  BY <1>1, SumEmpty, Zenon
<1> QED
  BY <1>2, <1>3

(* Functions that agree on a set have the same sum over it.                *)
LEMMA SumAgree ==
  ASSUME NEW S, IsFiniteSet(S), NEW f, NEW g, \A x \in S : f[x] \in Int /\ f[x] = g[x]
  PROVE  SumFunctionOnSet(f, S) = SumFunctionOnSet(g, S)
<1> DEFINE P == {s \in SUBSET S : SumFunctionOnSet(f, s) = SumFunctionOnSet(g, s)}
<1>1. {} \in P
  BY SumEmpty
<1>2. ASSUME NEW s \in SUBSET S, NEW x \in S, x \notin s, s \in P PROVE s \cup {x} \in P
  <2>1. IsFiniteSet(s)
    BY FS_Subset
  <2>2. /\ SumFunctionOnSet(f, s \cup {x}) = f[x] + SumFunctionOnSet(f, s)
        /\ SumFunctionOnSet(g, s \cup {x}) = g[x] + SumFunctionOnSet(g, s)
    BY <1>2, <2>1, SumAdd
  <2> QED
    BY <1>2, <2>2
<1> HIDE DEF P
<1>3. S \in P
  BY <1>1, <1>2, FiniteInduction
<1> QED
  BY <1>3 DEF P

(* Zeros sum up to zero.                                                   *)
LEMMA SumZero ==
  ASSUME NEW S, IsFiniteSet(S), NEW f, \A x \in S : f[x] = 0
  PROVE  SumFunctionOnSet(f, S) = 0
<1> DEFINE P == {s \in SUBSET S : SumFunctionOnSet(f, s) = 0}
<1>1. {} \in P
  BY SumEmpty
<1>2. ASSUME NEW s \in SUBSET S, NEW x \in S, x \notin s, s \in P PROVE s \cup {x} \in P
  <2>1. IsFiniteSet(s)
    BY FS_Subset
  <2>2. \A y \in s \cup {x} : f[y] \in Int
    OBVIOUS
  <2>3. SumFunctionOnSet(f, s \cup {x}) = f[x] + SumFunctionOnSet(f, s)
    <3> HIDE DEF P
    <3> QED
      BY <1>2, <2>1, <2>2, SumAdd
  <2> QED
    BY <1>2, <2>3
<1> HIDE DEF P
<1>3. S \in P
  BY <1>1, <1>2, FiniteInduction
<1> QED
  BY <1>3 DEF P

(* Changing every sign changes that of the sum.                            *)
LEMMA SumNegated ==
  ASSUME NEW S, IsFiniteSet(S), NEW f, NEW g, \A x \in S : f[x] \in Int /\ g[x] = -f[x]
  PROVE  SumFunctionOnSet(g, S) = -SumFunctionOnSet(f, S)
<1> DEFINE P == {s \in SUBSET S : SumFunctionOnSet(g, s) = -SumFunctionOnSet(f, s)}
<1>1. {} \in P
  BY SumEmpty
<1>2. ASSUME NEW s \in SUBSET S, NEW x \in S, x \notin s, s \in P PROVE s \cup {x} \in P
  <2>1. IsFiniteSet(s)
    BY FS_Subset
  <2>2. \A y \in s \cup {x} : f[y] \in Int /\ g[y] \in Int
    OBVIOUS
  <2>3. /\ SumFunctionOnSet(f, s \cup {x}) = f[x] + SumFunctionOnSet(f, s)
        /\ SumFunctionOnSet(g, s \cup {x}) = g[x] + SumFunctionOnSet(g, s)
        /\ SumFunctionOnSet(f, s) \in Int
    <3> HIDE DEF P
    <3> QED
      BY <1>2, <2>1, <2>2, SumAdd, SumType
  <2> QED
    BY <1>2, <2>3
<1> HIDE DEF P
<1>3. S \in P
  BY <1>1, <1>2, FiniteInduction
<1> QED
  BY <1>3 DEF P

(* When one value changes the sum changes by as much.                      *)
LEMMA SumChange ==
  ASSUME NEW S, IsFiniteSet(S), NEW x \in S, NEW f, NEW g,
         \A y \in S : f[y] \in Int /\ g[y] \in Int, \A y \in S \ {x} : f[y] = g[y]
  PROVE  SumFunctionOnSet(g, S) = SumFunctionOnSet(f, S) + g[x] - f[x]
<1>1. IsFiniteSet(S \ {x})
  BY FS_Subset
<1>2. SumFunctionOnSet(f, S \ {x}) = SumFunctionOnSet(g, S \ {x})
  BY <1>1, SumAgree
<1>3. SumFunctionOnSet(f, S \ {x}) \in Int
  BY <1>1, SumType
<1>4. /\ SumFunctionOnSet(f, S) = f[x] + SumFunctionOnSet(f, S \ {x})
      /\ SumFunctionOnSet(g, S) = g[x] + SumFunctionOnSet(g, S \ {x})
  BY SumRemove
<1> QED
  BY <1>2, <1>3, <1>4

(* The sum over two sets that have no member in common.                    *)
LEMMA SumDisjoint ==
  ASSUME NEW S, IsFiniteSet(S), NEW T, IsFiniteSet(T), S \cap T = {},
         NEW f, \A x \in S \cup T : f[x] \in Int
  PROVE  SumFunctionOnSet(f, S \cup T) = SumFunctionOnSet(f, S) + SumFunctionOnSet(f, T)
<1> DEFINE P == {s \in SUBSET S :
                   SumFunctionOnSet(f, s \cup T) = SumFunctionOnSet(f, s) + SumFunctionOnSet(f, T)}
<1>1. SumFunctionOnSet(f, T) \in Int
  BY SumType
<1>2. {} \in P
  <2>1. {} \cup T = T
    OBVIOUS
  <2> QED
    BY <1>1, <2>1, SumEmpty
<1>3. ASSUME NEW s \in SUBSET S, NEW x \in S, x \notin s, s \in P PROVE s \cup {x} \in P
  <2>1. IsFiniteSet(s) /\ IsFiniteSet(s \cup T) /\ x \notin s \cup T
    BY <1>3, FS_Subset, FS_Union
  <2>2. SumFunctionOnSet(f, s \cup {x}) = f[x] + SumFunctionOnSet(f, s)
    BY <1>3, <2>1, SumAdd
  <2>3. SumFunctionOnSet(f, (s \cup T) \cup {x}) = f[x] + SumFunctionOnSet(f, s \cup T)
    BY <2>1, SumAdd
  <2>4. (s \cup T) \cup {x} = (s \cup {x}) \cup T
    OBVIOUS
  <2>5. SumFunctionOnSet(f, s) \in Int
    BY <2>1, SumType
  <2>6. SumFunctionOnSet(f, s \cup T) = SumFunctionOnSet(f, s) + SumFunctionOnSet(f, T)
    BY <1>3
  <2>7. SumFunctionOnSet(f, (s \cup {x}) \cup T) = f[x] + SumFunctionOnSet(f, s \cup T)
    BY <2>3, <2>4, Zenon
  <2>8. SumFunctionOnSet(f, (s \cup {x}) \cup T)
          = SumFunctionOnSet(f, s \cup {x}) + SumFunctionOnSet(f, T)
    BY <1>1, <2>2, <2>5, <2>6, <2>7
  <2> QED
    BY <2>8
<1> HIDE DEF P
<1>4. S \in P
  BY <1>2, <1>3, FiniteInduction
<1> QED
  BY <1>4 DEF P

(* What is zero need not be summed.                                        *)
LEMMA SumSupport ==
  ASSUME NEW S, IsFiniteSet(S), NEW T \in SUBSET S, NEW f, \A x \in S : f[x] \in Int,
         \A x \in S \ T : f[x] = 0
  PROVE  SumFunctionOnSet(f, S) = SumFunctionOnSet(f, T)
<1>1. IsFiniteSet(T) /\ IsFiniteSet(S \ T) /\ T \cap (S \ T) = {} /\ T \cup (S \ T) = S
  BY FS_Subset
<1>2. SumFunctionOnSet(f, S) = SumFunctionOnSet(f, T) + SumFunctionOnSet(f, S \ T)
  BY <1>1, SumDisjoint
<1>3. SumFunctionOnSet(f, S \ T) = 0
  BY <1>1, SumZero
<1>4. SumFunctionOnSet(f, T) \in Int
  BY <1>1, SumType
<1> QED
  BY <1>2, <1>3, <1>4

(* What is summed may be renamed one to one.                               *)
LEMMA SumRenamed ==
  ASSUME NEW S, IsFiniteSet(S), NEW f, \A x \in S : f[x] \in Int, NEW g, NEW h,
         \A x \in S : f[x] = g[h[x]], \A x, y \in S : h[x] = h[y] => x = y
  PROVE  SumFunctionOnSet(f, S) = SumFunctionOnSet(g, {h[x] : x \in S})
<1> DEFINE Im(s) == {h[x] : x \in s}
           P == {s \in SUBSET S : IsFiniteSet(Im(s))
                   /\ SumFunctionOnSet(f, s) = SumFunctionOnSet(g, Im(s))}
<1>1. {} \in P
  <2>1. Im({}) = {}
    OBVIOUS
  <2> QED
    BY <2>1, SumEmpty, FS_EmptySet
<1>2. ASSUME NEW s \in SUBSET S, NEW x \in S, x \notin s, s \in P PROVE s \cup {x} \in P
  <2>1. IsFiniteSet(s) /\ IsFiniteSet(Im(s)) /\ SumFunctionOnSet(f, s) = SumFunctionOnSet(g, Im(s))
    BY <1>2, FS_Subset
  <2>2. SumFunctionOnSet(f, s \cup {x}) = f[x] + SumFunctionOnSet(f, s)
    BY <1>2, <2>1, SumAdd
  <2>3. Im(s \cup {x}) = Im(s) \cup {h[x]} /\ h[x] \notin Im(s)
    BY <1>2
  <2>4. \A y \in Im(s) \cup {h[x]} : g[y] \in Int
    OBVIOUS
  <2>5. SumFunctionOnSet(g, Im(s) \cup {h[x]}) = g[h[x]] + SumFunctionOnSet(g, Im(s))
    <3> HIDE DEF Im
    <3> QED
      BY <2>1, <2>3, <2>4, SumAdd
  <2>6. IsFiniteSet(Im(s) \cup {h[x]})
    BY <2>1, FS_AddElement
  <2> QED
    BY <2>1, <2>2, <2>3, <2>5, <2>6
<1>3. S \in P
  <2> HIDE DEF P
  <2> QED
    BY <1>1, <1>2, FiniteInduction
<1> QED
  BY <1>3

(* A sum of as many values, each of them bounded.                          *)
LEMMA SumBound ==
  ASSUME NEW S, IsFiniteSet(S), NEW b \in Int, NEW f, \A x \in S : f[x] \in Int /\ f[x] <= b
  PROVE  SumFunctionOnSet(f, S) <= Cardinality(S) * b
<1> DEFINE P == {s \in SUBSET S : SumFunctionOnSet(f, s) <= Cardinality(s) * b}
<1>1. {} \in P
  BY SumEmpty, FS_EmptySet
<1>2. ASSUME NEW s \in SUBSET S, NEW x \in S, x \notin s, s \in P PROVE s \cup {x} \in P
  <2>1. IsFiniteSet(s) /\ Cardinality(s) \in Nat
    BY FS_Subset, FS_CardinalityType
  <2>2. SumFunctionOnSet(f, s \cup {x}) = f[x] + SumFunctionOnSet(f, s)
    BY <1>2, <2>1, SumAdd
  <2>3. Cardinality(s \cup {x}) = Cardinality(s) + 1
    BY <1>2, <2>1, FS_AddElement
  <2>4. SumFunctionOnSet(f, s) \in Int
    BY <2>1, SumType
  <2>5. (Cardinality(s) + 1) * b = Cardinality(s) * b + b
    BY <2>1
  <2>6. Cardinality(s) * b \in Int
    BY <2>1
  <2>7. SumFunctionOnSet(f, s) <= Cardinality(s) * b
    BY <1>2
  <2>8. f[x] + SumFunctionOnSet(f, s) <= b + Cardinality(s) * b
    BY <2>4, <2>6, <2>7
  <2>9. SumFunctionOnSet(f, s \cup {x}) <= Cardinality(s \cup {x}) * b
    BY <2>2, <2>3, <2>5, <2>6, <2>8
  <2> QED
    BY <2>9
<1> HIDE DEF P
<1>3. S \in P
  BY <1>1, <1>2, FiniteInduction
<1> QED
  BY <1>3 DEF P


(* Sums compare as their values do.                                        *)
LEMMA SumMonotone ==
  ASSUME NEW S, IsFiniteSet(S), NEW f, NEW g,
         \A x \in S : f[x] \in Int /\ g[x] \in Int /\ f[x] <= g[x]
  PROVE  SumFunctionOnSet(f, S) <= SumFunctionOnSet(g, S)
<1> DEFINE P == {s \in SUBSET S : SumFunctionOnSet(f, s) <= SumFunctionOnSet(g, s)}
<1>1. {} \in P
  BY SumEmpty
<1>2. ASSUME NEW s \in SUBSET S, NEW x \in S, x \notin s, s \in P PROVE s \cup {x} \in P
  <2>1. IsFiniteSet(s)
    BY FS_Subset
  <2>2. /\ SumFunctionOnSet(f, s \cup {x}) = f[x] + SumFunctionOnSet(f, s)
        /\ SumFunctionOnSet(g, s \cup {x}) = g[x] + SumFunctionOnSet(g, s)
    BY <1>2, <2>1, SumAdd
  <2>3. SumFunctionOnSet(f, s) \in Int /\ SumFunctionOnSet(g, s) \in Int
    BY <2>1, SumType
  <2>4. SumFunctionOnSet(f, s) <= SumFunctionOnSet(g, s)
    BY <1>2
  <2>5. SumFunctionOnSet(f, s \cup {x}) <= SumFunctionOnSet(g, s \cup {x})
    BY <2>2, <2>3, <2>4
  <2> QED
    BY <2>5
<1>3. S \in P
  <2> HIDE DEF P
  <2> QED
    BY <1>1, <1>2, FiniteInduction
<1> QED
  BY <1>3

(* A sum of naturals is not negative.                                      *)
LEMMA SumNatural ==
  ASSUME NEW S, IsFiniteSet(S), NEW f, \A x \in S : f[x] \in Nat
  PROVE  SumFunctionOnSet(f, S) \in Nat
<1> DEFINE zero == [x \in S |-> 0]
<1>1. \A x \in S : zero[x] = 0 /\ zero[x] \in Int /\ f[x] \in Int /\ zero[x] <= f[x]
  OBVIOUS
<1> HIDE DEF zero
<1>2. SumFunctionOnSet(zero, S) <= SumFunctionOnSet(f, S)
  BY <1>1, SumMonotone
<1>3. SumFunctionOnSet(zero, S) = 0 /\ SumFunctionOnSet(f, S) \in Int
  BY <1>1, SumZero, SumType
<1> QED
  BY <1>2, <1>3
=============================================================================
