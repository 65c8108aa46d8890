----------------------------- MODULE FiguresProofs -----------------------------
(***************************************************************************)
(* The money of a deployment, for any number of budgets, calls and events: *)
(* what the budget stores hold, what a call is priced at, and what the     *)
(* ledger of usage keeps and reports.  The totals are sums over finite     *)
(* sets; facts about them are proved from a least subset that would        *)
(* contradict them.                                                        *)
(***************************************************************************)
EXTENDS Services, SequenceTheorems, FiniteSetTheorems, WellFoundedInduction, TLAPS

(* Sums                                                                    *)

First(s) == CHOOSE x \in s : TRUE

\* g adds up f over every subset of S, one element after another.
Adds(g, f, S) ==
    g = [s \in SUBSET S |-> IF s = {} THEN 0 ELSE f[First(s)] + g[s \ {First(s)}]]

\* A set of finite subsets that is not empty has a least one.
LEMMA LeastSubset ==
    ASSUME NEW S, IsFiniteSet(S), NEW B, B \subseteq SUBSET S, B # {}
    PROVE  \E T \in B : \A U \in B : U \subseteq T => U = T
<1>1. IsWellFoundedOn(StrictSubsetOrdering(S), FiniteSubsetsOf(S))
  BY FS_StrictSubsetOrderingWellFounded
<1>2. B \subseteq FiniteSubsetsOf(S)
  BY FS_Subset DEF FiniteSubsetsOf
<1>3. PICK T \in B : \A U \in B : <<U, T>> \notin StrictSubsetOrdering(S)
  BY <1>1, <1>2, WFMin
<1> QED
  BY <1>3, FS_Subset DEF StrictSubsetOrdering

LEMMA FirstIsIn == ASSUME NEW s, s # {} PROVE First(s) \in s
BY DEF First

LEMMA Unique ==
    ASSUME NEW S, IsFiniteSet(S), NEW f, NEW T \in SUBSET S, NEW g, NEW k,
           Adds(g, f, S), Adds(k, f, T)
    PROVE  \A s \in SUBSET T : g[s] = k[s]
<1> DEFINE B == {s \in SUBSET T : g[s] # k[s]}
<1> SUFFICES ASSUME B # {} PROVE FALSE
  OBVIOUS
<1>1. PICK s \in B : \A U \in B : U \subseteq s => U = s
  <2> HIDE DEF B
  <2>1. B \subseteq SUBSET S
    BY DEF B
  <2> QED
    BY <2>1, LeastSubset
<1>2. g[s] = IF s = {} THEN 0 ELSE f[First(s)] + g[s \ {First(s)}]
  BY DEF Adds
<1>3. k[s] = IF s = {} THEN 0 ELSE f[First(s)] + k[s \ {First(s)}]
  BY DEF Adds
<1>4. s # {} /\ g[s \ {First(s)}] # k[s \ {First(s)}]
  BY <1>2, <1>3
<1>5. s \ {First(s)} \in B /\ s \ {First(s)} # s
  BY <1>4, FirstIsIn
<1> QED
  BY <1>1, <1>5

LEMMA Total ==
    ASSUME NEW S, IsFiniteSet(S), NEW f
    PROVE  \E g : Adds(g, f, S)
<1> DEFINE B == {T \in SUBSET S : ~ \E g : Adds(g, f, T)}
<1> SUFFICES ASSUME B # {} PROVE FALSE
  OBVIOUS
<1>1. PICK T \in B : \A U \in B : U \subseteq T => U = T
  <2> HIDE DEF B
  <2>1. B \subseteq SUBSET S
    BY DEF B
  <2> QED
    BY <2>1, LeastSubset
<1>2. ASSUME NEW U \in SUBSET T, U # T PROVE \E g : Adds(g, f, U)
  BY <1>1, <1>2
<1> DEFINE Part(U) == CHOOSE g : Adds(g, f, U)
<1>3. ASSUME NEW U \in SUBSET T, U # T PROVE Adds(Part(U), f, U)
  BY <1>2, <1>3
<1> HIDE DEF Part
<1>4. ASSUME NEW U \in SUBSET T, U # T, U # {}
      PROVE  Part(U)[U] = f[First(U)] + Part(U \ {First(U)})[U \ {First(U)}]
  <2>1. U \ {First(U)} \in SUBSET U /\ U \ {First(U)} \in SUBSET T
    OBVIOUS
  <2>2. First(U) \in U
    BY <1>4, FirstIsIn
  <2>3. IsFiniteSet(U)
    BY FS_Subset
  <2>4. Part(U)[U \ {First(U)}] = Part(U \ {First(U)})[U \ {First(U)}]
    BY <1>3, <1>4, <2>1, <2>2, <2>3, Unique
  <2>5. Part(U)[U] = f[First(U)] + Part(U)[U \ {First(U)}]
    BY <1>3, <1>4 DEF Adds
  <2> QED
    BY <2>4, <2>5
<1>5. ASSUME {} # T PROVE Part({})[{}] = 0
  BY <1>3, <1>5 DEF Adds
<1> DEFINE h == [s \in SUBSET T |->
             IF s = {} THEN 0
             ELSE f[First(s)] + Part(s \ {First(s)})[s \ {First(s)}]]
<1>6. Adds(h, f, T)
  <2> SUFFICES ASSUME NEW s \in SUBSET T, s # {}
               PROVE  h[s \ {First(s)}] = Part(s \ {First(s)})[s \ {First(s)}]
    BY DEF Adds
  <2> DEFINE u == s \ {First(s)}
  <2>1. First(s) \in s /\ u \in SUBSET T /\ u # T
    BY FirstIsIn
  <2>2. CASE u = {}
    BY <1>5, <2>1, <2>2
  <2>3. CASE u # {}
    BY <1>4, <2>1, <2>3
  <2> QED
    BY <2>2, <2>3
<1> QED
  BY <1>1, <1>6

SumOver(f, S) == MapThenSumSet(LAMBDA x : f[x], S)

LEMMA SumAdds ==
    ASSUME NEW S, IsFiniteSet(S), NEW f
    PROVE  \E g : Adds(g, f, S) /\ SumOver(f, S) = g[S]
<1> DEFINE g == CHOOSE g : Adds(g, f, S)
<1>1. Adds(g, f, S)
  BY Total
<1>2. SumOver(f, S) = g[S]
  BY DEF SumOver, MapThenSumSet, MapThenFoldSet, Adds, First
<1> QED
  BY <1>1, <1>2
LEMMA SumEmpty == ASSUME NEW f PROVE SumOver(f, {}) = 0
<1>1. IsFiniteSet({})
  BY FS_EmptySet
<1>2. PICK g : Adds(g, f, {}) /\ SumOver(f, {}) = g[{}]
  BY <1>1, SumAdds
<1> QED
  BY <1>2 DEF Adds

LEMMA SumFirst ==
    ASSUME NEW S, IsFiniteSet(S), NEW f, S # {}
    PROVE  SumOver(f, S) = f[First(S)] + SumOver(f, S \ {First(S)})
<1> DEFINE T == S \ {First(S)}
<1>1. IsFiniteSet(T)
  BY FS_Subset
<1>2. PICK g : Adds(g, f, S) /\ SumOver(f, S) = g[S]
  BY SumAdds
<1>3. PICK k : Adds(k, f, T) /\ SumOver(f, T) = k[T]
  BY <1>1, SumAdds
<1>4. g[T] = k[T]
  BY <1>2, <1>3, Unique
<1>5. g[S] = f[First(S)] + g[T]
  BY <1>2 DEF Adds
<1> QED
  BY <1>2, <1>3, <1>4, <1>5

LEMMA SumType ==
    ASSUME NEW S, IsFiniteSet(S), NEW f, \A x \in S : f[x] \in Int
    PROVE  SumOver(f, S) \in Int
<1> DEFINE B == {T \in SUBSET S : SumOver(f, T) \notin Int}
<1> SUFFICES ASSUME B # {} PROVE FALSE
  OBVIOUS
<1>1. PICK T \in B : \A U \in B : U \subseteq T => U = T
  <2> HIDE DEF B
  <2>1. B \subseteq SUBSET S
    BY DEF B
  <2> QED
    BY <2>1, LeastSubset
<1>2. T # {}
  BY SumEmpty
<1>3. First(T) \in T /\ IsFiniteSet(T)
  BY <1>2, FirstIsIn, FS_Subset
<1>4. SumOver(f, T) = f[First(T)] + SumOver(f, T \ {First(T)})
  BY <1>2, <1>3, SumFirst
<1>5. SumOver(f, T \ {First(T)}) \in Int
  BY <1>1, <1>3
<1> QED
  BY <1>3, <1>4, <1>5

LEMMA SumNat ==
    ASSUME NEW S, IsFiniteSet(S), NEW f, \A x \in S : f[x] \in Nat
    PROVE  SumOver(f, S) \in Nat
<1> DEFINE B == {T \in SUBSET S : SumOver(f, T) \notin Nat}
<1> SUFFICES ASSUME B # {} PROVE FALSE
  OBVIOUS
<1>1. PICK T \in B : \A U \in B : U \subseteq T => U = T
  <2> HIDE DEF B
  <2>1. B \subseteq SUBSET S
    BY DEF B
  <2> QED
    BY <2>1, LeastSubset
<1>2. T # {}
  BY SumEmpty
<1>3. First(T) \in T /\ IsFiniteSet(T)
  BY <1>2, FirstIsIn, FS_Subset
<1>4. SumOver(f, T) = f[First(T)] + SumOver(f, T \ {First(T)})
  BY <1>2, <1>3, SumFirst
<1>5. SumOver(f, T \ {First(T)}) \in Nat
  BY <1>1, <1>3
<1> QED
  BY <1>3, <1>4, <1>5

\* Any element may be taken out first.
LEMMA SumRemove ==
    ASSUME NEW S, IsFiniteSet(S), NEW f, \A x \in S : f[x] \in Int, NEW y \in S
    PROVE  SumOver(f, S) = f[y] + SumOver(f, S \ {y})
<1> DEFINE B == {T \in SUBSET S :
                   \E x \in T : SumOver(f, T) # f[x] + SumOver(f, T \ {x})}
<1> SUFFICES ASSUME B # {} PROVE FALSE
  OBVIOUS
<1>1. PICK T \in B : \A U \in B : U \subseteq T => U = T
  <2> HIDE DEF B
  <2>1. B \subseteq SUBSET S
    BY DEF B
  <2> QED
    BY <2>1, LeastSubset
<1>2. PICK x \in T : SumOver(f, T) # f[x] + SumOver(f, T \ {x})
  OBVIOUS
<1> DEFINE z == First(T)
           R == (T \ {x}) \ {z}
<1>3. z \in T /\ IsFiniteSet(T) /\ IsFiniteSet(R) /\ f[x] \in Int
  BY <1>2, FirstIsIn, FS_Subset
<1>4. SumOver(f, T) = f[z] + SumOver(f, T \ {z})
  BY <1>2, <1>3, SumFirst
<1>5. x # z
  BY <1>2, <1>4
<1>6. SumOver(f, T \ {z}) = f[x] + SumOver(f, (T \ {z}) \ {x})
  <2>1. T \ {z} \subseteq T /\ T \ {z} # T /\ x \in T \ {z} /\ T \ {z} \in SUBSET S
    BY <1>3, <1>5
  <2> HIDE DEF z
  <2>2. T \ {z} \notin B
    BY <1>1, <2>1
  <2> QED
    BY <2>1, <2>2
<1>7. SumOver(f, T \ {x}) = f[z] + SumOver(f, R)
  <2>1. T \ {x} \subseteq T /\ T \ {x} # T /\ z \in T \ {x} /\ T \ {x} \in SUBSET S
    BY <1>3, <1>5
  <2> HIDE DEF z
  <2>2. T \ {x} \notin B
    BY <1>1, <2>1
  <2> QED
    BY <2>1, <2>2
<1>8. (T \ {z}) \ {x} = R
  OBVIOUS
<1>9. SumOver(f, R) \in Int /\ f[z] \in Int
  BY <1>3, SumType
<1> HIDE DEF R, z
<1>10. SumOver(f, T \ {z}) = f[x] + SumOver(f, R)
  BY <1>6, <1>8, Zenon
<1>11. SumOver(f, T) = f[z] + (f[x] + SumOver(f, R))
  BY <1>4, <1>10, Zenon
<1>12. f[x] + SumOver(f, T \ {x}) = f[x] + (f[z] + SumOver(f, R))
  BY <1>7, Zenon
<1>13. \A a, b, c \in Int : a + (b + c) = b + (a + c)
  OBVIOUS
<1>14. SumOver(f, T) = f[x] + SumOver(f, T \ {x})
  BY <1>3, <1>9, <1>11, <1>12, <1>13
<1> QED
  BY <1>2, <1>14

LEMMA SumInsert ==
    ASSUME NEW S, IsFiniteSet(S), NEW y, y \notin S,
           NEW f, \A x \in S \cup {y} : f[x] \in Int
    PROVE  SumOver(f, S \cup {y}) = f[y] + SumOver(f, S)
<1>1. IsFiniteSet(S \cup {y})
  BY FS_AddElement
<1>2. (S \cup {y}) \ {y} = S
  OBVIOUS
<1> QED
  BY <1>1, <1>2, SumRemove

\* The sum depends on the terms alone.
LEMMA SumSame ==
    ASSUME NEW S, IsFiniteSet(S), NEW f, NEW g, \A x \in S : f[x] = g[x]
    PROVE  SumOver(f, S) = SumOver(g, S)
<1> DEFINE B == {T \in SUBSET S : SumOver(f, T) # SumOver(g, T)}
<1> SUFFICES ASSUME B # {} PROVE FALSE
  OBVIOUS
<1>1. PICK T \in B : \A U \in B : U \subseteq T => U = T
  <2> HIDE DEF B
  <2>1. B \subseteq SUBSET S
    BY DEF B
  <2> QED
    BY <2>1, LeastSubset
<1>2. T # {}
  BY SumEmpty
<1>3. First(T) \in T /\ IsFiniteSet(T)
  BY <1>2, FirstIsIn, FS_Subset
<1>4. /\ SumOver(f, T) = f[First(T)] + SumOver(f, T \ {First(T)})
      /\ SumOver(g, T) = g[First(T)] + SumOver(g, T \ {First(T)})
  BY <1>2, <1>3, SumFirst
<1>5. SumOver(f, T \ {First(T)}) = SumOver(g, T \ {First(T)})
  BY <1>1, <1>3
<1> QED
  BY <1>3, <1>4, <1>5

\* One term changes.
LEMMA SumChange ==
    ASSUME NEW S, IsFiniteSet(S), NEW y \in S, NEW f, NEW g,
           \A x \in S : f[x] \in Int /\ g[x] \in Int,
           \A x \in S \ {y} : f[x] = g[x]
    PROVE  SumOver(g, S) = SumOver(f, S) - f[y] + g[y]
<1>1. IsFiniteSet(S \ {y})
  BY FS_Subset
<1>2. /\ SumOver(f, S) = f[y] + SumOver(f, S \ {y})
      /\ SumOver(g, S) = g[y] + SumOver(g, S \ {y})
  BY SumRemove
<1>3. SumOver(f, S \ {y}) = SumOver(g, S \ {y})
  BY <1>1, SumSame
<1>4. SumOver(f, S \ {y}) \in Int
  BY <1>1, SumType
<1> QED
  BY <1>2, <1>3, <1>4

LEMMA SumUnion ==
    ASSUME NEW S, IsFiniteSet(S), NEW T, IsFiniteSet(T), S \cap T = {},
           NEW f, \A x \in S \cup T : f[x] \in Int
    PROVE  SumOver(f, S \cup T) = SumOver(f, S) + SumOver(f, T)
<1> DEFINE B == {U \in SUBSET T : SumOver(f, S \cup U) # SumOver(f, S) + SumOver(f, U)}
<1>0. SumOver(f, S) \in Int
  BY SumType
<1> SUFFICES ASSUME B # {} PROVE FALSE
  OBVIOUS
<1>1. PICK U \in B : \A V \in B : V \subseteq U => V = U
  <2> HIDE DEF B
  <2>1. B \subseteq SUBSET T
    BY DEF B
  <2> QED
    BY <2>1, LeastSubset
<1>2. U # {}
  <2>1. S \cup {} = S
    OBVIOUS
  <2> QED
    BY <1>0, <2>1, SumEmpty
<1>3. PICK y \in U : TRUE
  BY <1>2
<1>4. IsFiniteSet(U) /\ IsFiniteSet(S \cup U) /\ U \subseteq T
  BY FS_Subset, FS_Union
<1> DEFINE V == U \ {y}
<1>5. SumOver(f, S \cup V) = SumOver(f, S) + SumOver(f, V)
  BY <1>1, <1>3
<1>6. SumOver(f, U) = f[y] + SumOver(f, V)
  BY <1>3, <1>4, SumRemove
<1>7. SumOver(f, S \cup U) = f[y] + SumOver(f, (S \cup U) \ {y})
  BY <1>3, <1>4, SumRemove
<1>8. (S \cup U) \ {y} = S \cup V
  BY <1>3, <1>4
<1>9. SumOver(f, V) \in Int /\ f[y] \in Int
  <2>1. IsFiniteSet(V) /\ \A x \in V : f[x] \in Int
    BY <1>4, FS_Subset
  <2> QED
    BY <1>3, <1>4, <2>1, SumType
<1> HIDE DEF V
<1>10. SumOver(f, S \cup U) # SumOver(f, S) + SumOver(f, U)
  OBVIOUS
<1> HIDE DEF B
<1>11. SumOver(f, S \cup U) = f[y] + (SumOver(f, S) + SumOver(f, V))
  BY <1>5, <1>7, <1>8, Zenon
<1>12. \A a, b, c \in Int : a + (b + c) = b + (a + c)
  OBVIOUS
<1>13. SumOver(f, S \cup U) = SumOver(f, S) + (f[y] + SumOver(f, V))
  BY <1>0, <1>9, <1>11, <1>12
<1> QED
  BY <1>6, <1>10, <1>13, Zenon

\* What is taken out of a sum of numbers is at most the sum.
LEMMA SumPart ==
    ASSUME NEW S, IsFiniteSet(S), NEW T \in SUBSET S,
           NEW f, \A x \in S : f[x] \in Nat
    PROVE  /\ SumOver(f, S) = SumOver(f, T) + SumOver(f, S \ T)
           /\ SumOver(f, T) \in Nat /\ SumOver(f, S \ T) \in Nat
<1>1. IsFiniteSet(T) /\ IsFiniteSet(S \ T)
  BY FS_Subset
<1>2. T \cup (S \ T) = S /\ T \cap (S \ T) = {}
  OBVIOUS
<1>3. \A x \in T \cup (S \ T) : f[x] \in Int
  BY <1>2
<1>4. SumOver(f, T \cup (S \ T)) = SumOver(f, T) + SumOver(f, S \ T)
  BY <1>1, <1>2, <1>3, SumUnion
<1>5. SumOver(f, T) \in Nat /\ SumOver(f, S \ T) \in Nat
  BY <1>1, SumNat
<1> QED
  BY <1>2, <1>4, <1>5

LEMMA SumZero ==
    ASSUME NEW S, IsFiniteSet(S), NEW f, \A x \in S : f[x] = 0
    PROVE  SumOver(f, S) = 0
<1> DEFINE B == {T \in SUBSET S : SumOver(f, T) # 0}
<1> SUFFICES ASSUME B # {} PROVE FALSE
  OBVIOUS
<1>1. PICK T \in B : \A U \in B : U \subseteq T => U = T
  <2> HIDE DEF B
  <2>1. B \subseteq SUBSET S
    BY DEF B
  <2> QED
    BY <2>1, LeastSubset
<1>2. T # {}
  BY SumEmpty
<1>3. First(T) \in T /\ IsFiniteSet(T)
  BY <1>2, FirstIsIn, FS_Subset
<1>4. SumOver(f, T) = f[First(T)] + SumOver(f, T \ {First(T)})
  BY <1>2, <1>3, SumFirst
<1>5. SumOver(f, T \ {First(T)}) = 0
  BY <1>1, <1>3
<1> QED
  BY <1>3, <1>4, <1>5

Image(key, S) == {key[x] : x \in S}
GroupBy(S, key, k) == {x \in S : key[x] = k}
Within(S, key, K) == {x \in S : key[x] \in K}

LEMMA ImageIsFinite ==
    ASSUME NEW S, IsFiniteSet(S), NEW key
    PROVE  IsFiniteSet(Image(key, S))
<1> DEFINE f == [x \in S |-> key[x]]
<1>1. f \in Surjection(S, Image(key, S))
  BY DEF Surjection, Image
<1> HIDE DEF f
<1> QED
  BY <1>1, FS_Surjection

\* The sums of groups are the sum of what is in a group.
LEMMA SumGroups ==
    ASSUME NEW S, IsFiniteSet(S), NEW f, \A x \in S : f[x] \in Int,
           NEW K, IsFiniteSet(K), NEW key,
           NEW g, \A k \in K : g[k] = SumOver(f, GroupBy(S, key, k))
    PROVE  SumOver(g, K) = SumOver(f, Within(S, key, K))
<1> DEFINE In(T) == Within(S, key, T)
           B == {T \in SUBSET K : SumOver(g, T) # SumOver(f, In(T))}
<1> SUFFICES ASSUME B # {} PROVE FALSE
  OBVIOUS
<1>1. PICK T \in B : \A U \in B : U \subseteq T => U = T
  <2> HIDE DEF B
  <2>1. B \subseteq SUBSET K
    BY DEF B
  <2> QED
    BY <2>1, LeastSubset
<1>2. \A U \in SUBSET K : IsFiniteSet(In(U)) /\ In(U) \subseteq S
  BY FS_Subset DEF Within
<1>3. T # {}
  <2>1. SumOver(g, {}) = 0 /\ SumOver(f, {}) = 0
    BY SumEmpty
  <2>2. In({}) = {}
    BY DEF Within
  <2> QED
    BY <1>1, <2>1, <2>2
<1>4. PICK k \in T : k = First(T)
  BY <1>3, FirstIsIn
<1>5. k \in K /\ T \subseteq K /\ IsFiniteSet(T) /\ T \ {k} \in SUBSET K
  BY <1>1, <1>4, FS_Subset
<1>6. SumOver(g, T) = g[k] + SumOver(g, T \ {k})
  BY <1>3, <1>4, <1>5, SumFirst
<1>7. SumOver(g, T \ {k}) = SumOver(f, In(T \ {k}))
  BY <1>1, <1>4, <1>5
<1>8. SumOver(f, In(T)) = SumOver(f, In({k})) + SumOver(f, In(T \ {k}))
  <2>1. /\ In(T) = In({k}) \cup In(T \ {k}) /\ In({k}) \cap In(T \ {k}) = {}
        /\ IsFiniteSet(In({k})) /\ IsFiniteSet(In(T \ {k}))
        /\ \A x \in In({k}) \cup In(T \ {k}) : f[x] \in Int
    BY <1>2, <1>4, <1>5 DEF Within
  <2> HIDE DEF In
  <2>2. PICK A, C : A = In({k}) /\ C = In(T \ {k})
    OBVIOUS
  <2>3. IsFiniteSet(A) /\ IsFiniteSet(C) /\ A \cap C = {} /\ \A x \in A \cup C : f[x] \in Int
    BY <2>1, <2>2
  <2>4. SumOver(f, A \cup C) = SumOver(f, A) + SumOver(f, C)
    BY <2>3, SumUnion
  <2> QED
    BY <2>1, <2>2, <2>4
<1>9. g[k] = SumOver(f, In({k}))
  <2>1. In({k}) = GroupBy(S, key, k)
    BY DEF Within, GroupBy
  <2> QED
    BY <1>5, <2>1
<1> HIDE DEF In
<1>10. SumOver(g, T) = SumOver(f, In(T))
  BY <1>6, <1>7, <1>8, <1>9
<1> QED
  BY <1>1, <1>10

\* What one group lacks, the whole has once more.
LEMMA SumRest ==
    ASSUME NEW S, IsFiniteSet(S), NEW f, \A x \in S : f[x] \in Nat, NEW T \in SUBSET S
    PROVE  SumOver(f, S \ T) = SumOver(f, S) - SumOver(f, T)
<1>1. /\ SumOver(f, S) = SumOver(f, T) + SumOver(f, S \ T)
      /\ SumOver(f, T) \in Nat /\ SumOver(f, S \ T) \in Nat
  BY SumPart
<1> QED
  BY <1>1

\* A sum of naturals is 0 only when each of them is.
LEMMA SumPositive ==
    ASSUME NEW S, IsFiniteSet(S), NEW f, \A x \in S : f[x] \in Nat
    PROVE  SumOver(f, S) = 0 <=> \A x \in S : f[x] = 0
<1>1. ASSUME NEW x \in S, f[x] # 0 PROVE SumOver(f, S) # 0
  <2>1. SumOver(f, S) = f[x] + SumOver(f, S \ {x})
    BY SumRemove
  <2>2. SumOver(f, S \ {x}) \in Nat
    BY FS_RemoveElement, SumNat
  <2> QED
    BY <1>1, <2>1, <2>2
<1>2. (\A x \in S : f[x] = 0) => SumOver(f, S) = 0
  BY SumZero
<1> QED
  BY <1>1, <1>2

-----------------------------------------------------------------------------
(* What the budgets hold                                                   *)

CallsOf(b) == {c \in Calls : BudgetOf[c] = b}
Admitted(b) == {c \in Calls : BudgetOf[c] = b /\ res[c] # "none"}
Beyond(ch) == [c \in Calls |-> Minus(ch[c], Estimate[c])]

\* What the place of a call says of its reservation and of its budget.
CallIsBooked(c) ==
    /\ pc[c] \in {"idle", "reap", "reaping", "reserve"} => res[c] = "none"
    /\ pc[c] \in {"reap", "reaping", "reserve"} => row[BudgetOf[c]] # Nil
    /\ res[c] # "none" => row[BudgetOf[c]] # Nil
    /\ res[c] # "settled" => charged[c] = 0
    /\ charged[c] <= Estimate[c] + Overrun

\* What a budget has spent and counted is what its calls were charged.
RowIsBooked(b) ==
    row[b] # Nil => /\ row[b].spent = SumOver(charged, CallsOf(b))
                    /\ row[b].calls = Cardinality(Admitted(b))

\* What it holds is what its open reservations hold, under the ceiling.
RowHolds(b) ==
    row[b] # Nil =>
        /\ row[b].cap <= peakCap[b]
        /\ row[b].reserved = SumOver(Estimate, OpenOf(b))
        /\ row[b].spent + row[b].reserved
           <= peakCap[b] + SumOver(Beyond(charged), CallsOf(b))

BooksInv == /\ \A c \in Calls : CallIsBooked(c)
            /\ \A b \in Budgets : RowIsBooked(b)

HoldsInv == \A b \in Budgets : RowHolds(b)

\* The store that locks no row promises more than the one that does.
StoresInv == /\ StoresTypeOK
             /\ BooksInv
             /\ store = "sqlite" => HoldsInv

BooksTypes ==
    /\ row \in [Budgets -> Row \cup {Nil}]
    /\ res \in [Calls -> ReservationState]
    /\ pc \in [Calls -> {"idle", "reap", "reaping", "reserve", "running",
                         "settling", "over"}]
    /\ charged \in [Calls -> Nat]
    /\ peakCap \in [Budgets -> Nat]

LEMMA BooksTyped == ASSUME StoresTypeOK PROVE BooksTypes
BY DEF StoresTypeOK, PgTypeOK, BooksTypes

LEMMA FiniteCalls ==
    ASSUME NEW b
    PROVE  /\ IsFiniteSet(CallsOf(b)) /\ CallsOf(b) \subseteq Calls
           /\ IsFiniteSet(OpenOf(b)) /\ OpenOf(b) \subseteq CallsOf(b)
           /\ IsFiniteSet(Admitted(b))
BY BudgetAssumption, FS_Subset DEF CallsOf, OpenOf, Admitted

LEMMA FiniteCallsNext ==
    ASSUME NEW b
    PROVE  /\ IsFiniteSet(OpenOf(b)') /\ OpenOf(b)' \subseteq CallsOf(b)
           /\ IsFiniteSet(Admitted(b)')
BY BudgetAssumption, FS_Subset DEF CallsOf, OpenOf, Admitted

LEMMA EstimateIs == ASSUME NEW cs PROVE EstimateOf(cs) = SumOver(Estimate, cs)
BY DEF EstimateOf, SumOver, MapThenSumSet, MapThenFoldSet

LEMMA ExcessIs ==
    ASSUME NEW b PROVE Excess(b) = SumOver(Beyond(charged), CallsOf(b))
BY DEF Excess, Beyond, CallsOf, SumOver, MapThenSumSet, MapThenFoldSet

LEMMA SpentIs ==
    ASSUME NEW b
    PROVE  MapThenSumSet(LAMBDA c : charged[c], {c \in Calls : BudgetOf[c] = b})
           = SumOver(charged, CallsOf(b))
BY DEF CallsOf, SumOver, MapThenSumSet, MapThenFoldSet

LEMMA BeyondIs ==
    ASSUME NEW ch \in [Calls -> Nat]
    PROVE  Beyond(ch) \in [Calls -> Nat]
BY BudgetAssumption DEF Beyond, Minus

\* The invariant is what the runs check.
LEMMA BooksAreGood ==
    ASSUME StoresInv
    PROVE  SqliteAccountHolds /\ SpentIsWhatWasCharged
<1>1. BooksTypes
  BY BooksTyped DEF StoresInv
<1>2. ASSUME NEW b \in Budgets, row[b] = Nil PROVE OpenOf(b) = {}
  BY <1>2 DEF StoresInv, BooksInv, CallIsBooked, OpenOf
<1>3. ASSUME store = "sqlite" PROVE ReservedIsOutstanding /\ SpendWithinCap
  <2>1. \A b \in Budgets : RowHolds(b)
    BY <1>3 DEF StoresInv, HoldsInv
  <2>2. \A b \in Budgets : EstimateOf(OpenOf(b)) = SumOver(Estimate, OpenOf(b))
    BY EstimateIs
  <2>3. ReservedIsOutstanding
    BY <1>2, <2>1, <2>2 DEF ReservedIsOutstanding, RowHolds
  <2>4. \A b \in Budgets : Excess(b) = SumOver(Beyond(charged), CallsOf(b))
    BY ExcessIs
  <2>5. SpendWithinCap
    BY <2>1, <2>2, <2>4 DEF SpendWithinCap, RowHolds
  <2> QED
    BY <2>3, <2>5
<1>4. SpentIsWhatWasCharged
  <2>1. ASSUME NEW b \in Budgets, row[b] # Nil
        PROVE  /\ row[b].spent = MapThenSumSet(LAMBDA c : charged[c],
                                     {c \in Calls : BudgetOf[c] = b})
               /\ row[b].calls =
                      Cardinality({c \in Calls : BudgetOf[c] = b /\ res[c] # "none"})
    <3>1. /\ row[b].spent = SumOver(charged, CallsOf(b))
          /\ row[b].calls = Cardinality(Admitted(b))
      BY <2>1 DEF StoresInv, BooksInv, RowIsBooked
    <3>2. row[b].calls = Cardinality({c \in Calls : BudgetOf[c] = b /\ res[c] # "none"})
      BY <3>1 DEF Admitted
    <3>3. row[b].spent = MapThenSumSet(LAMBDA c : charged[c],
                                     {c \in Calls : BudgetOf[c] = b})
      BY <3>1 DEF CallsOf, SumOver, MapThenSumSet, MapThenFoldSet
    <3> QED
      BY <3>2, <3>3, Zenon
  <2>2. ASSUME NEW c \in Calls
        PROVE  charged[c] <= Estimate[c] + Overrun /\ (charged[c] > 0 => res[c] = "settled")
    BY <1>1 DEF BooksTypes, StoresInv, BooksInv, CallIsBooked
  <2> QED
    BY <2>1, <2>2, Zenon DEF SpentIsWhatWasCharged
<1> QED
  BY <1>3, <1>4 DEF SqliteAccountHolds

\* A step that leaves rows, reservations and charges alone.
LEMMA BooksQuiet ==
    ASSUME BooksInv, UNCHANGED <<row, res, charged, peakCap>>,
           \A c \in Calls : \/ pc'[c] = pc[c]
                            \/ pc'[c] \in {"over", "running", "settling"}
                            \/ /\ pc[c] \in {"reap", "reaping", "reserve"}
                               /\ pc'[c] \in {"reap", "reaping", "reserve"}
    PROVE  BooksInv' /\ (HoldsInv => HoldsInv')
<1>1. (\A c \in Calls : CallIsBooked(c))'
  BY DEF BooksInv, CallIsBooked
<1>2. (\A b \in Budgets : RowIsBooked(b))'
  BY DEF BooksInv, RowIsBooked, Admitted
<1>3. HoldsInv => HoldsInv'
  BY DEF HoldsInv, RowHolds, OpenOf
<1> QED
  BY <1>1, <1>2, <1>3 DEF BooksInv

\* A row that is written carries its accounts.
Accounts(b, r) == /\ r \in Row
                  /\ r.spent = SumOver(charged', CallsOf(b))
                  /\ r.calls = Cardinality(Admitted(b)')

LEMMA NewRowIs ==
    ASSUME NEW cap \in Nat
    PROVE  /\ NewRow(cap) \in Row /\ NewRow(cap) # Nil
           /\ NewRow(cap).cap = cap /\ NewRow(cap).spent = 0
           /\ NewRow(cap).reserved = 0 /\ NewRow(cap).calls = 0
BY BudgetAssumption DEF NewRow, Row

\* The budget of a row that is made had no call yet.
LEMMA FreshAccounts ==
    ASSUME BooksTypes, BooksInv, NEW b \in Budgets, row[b] = Nil
    PROVE  /\ OpenOf(b) = {} /\ Admitted(b) = {}
           /\ SumOver(charged, CallsOf(b)) = 0
           /\ SumOver(Beyond(charged), CallsOf(b)) = 0
<1>1. \A c \in CallsOf(b) : res[c] = "none" /\ charged[c] = 0
  BY DEF BooksInv, CallIsBooked, CallsOf
<1>2. OpenOf(b) = {} /\ Admitted(b) = {}
  BY <1>1 DEF OpenOf, Admitted, CallsOf
<1>3. \A c \in CallsOf(b) : Beyond(charged)[c] = 0
  BY <1>1, BudgetAssumption DEF Beyond, Minus, CallsOf
<1> QED
  BY <1>1, <1>2, <1>3, FiniteCalls, SumZero

\* A row is made, or the cap of one is moved.
LEMMA CapStep ==
    ASSUME BooksTypes, BooksInv, NEW b \in Budgets, NEW cap \in Nat,
           \/ row' = [row EXCEPT ![b] = IF @ = Nil THEN NewRow(cap)
                                        ELSE [@ EXCEPT !.cap = cap]]
           \/ row' = [row EXCEPT ![b] = IF @ = Nil THEN NewRow(cap) ELSE @],
           peakCap' = [peakCap EXCEPT ![b] = Highest(@, row'[b].cap)],
           UNCHANGED <<res, charged>>,
           \A c \in Calls : \/ pc'[c] = pc[c]
                            \/ BudgetOf[c] = b /\ pc[c] = "idle" /\ pc'[c] = "reap"
    PROVE  /\ BooksInv' /\ (HoldsInv => HoldsInv')
           /\ row' \in [Budgets -> Row \cup {Nil}]
           /\ peakCap' \in [Budgets -> Nat]
<1>1. /\ row'[b] \in Row /\ row'[b] # Nil
      /\ \A a \in Budgets \ {b} : row'[a] = row[a]
      /\ row[b] = Nil => row'[b] = NewRow(cap)
      /\ row[b] # Nil => /\ row'[b].spent = row[b].spent
                         /\ row'[b].reserved = row[b].reserved
                         /\ row'[b].calls = row[b].calls
  BY NewRowIs, BudgetAssumption DEF BooksTypes, Row
<1>2. (\A c \in Calls : CallIsBooked(c))'
  BY <1>1, BudgetAssumption DEF BooksInv, CallIsBooked
<1>3. /\ \A a : Admitted(a)' = Admitted(a) /\ OpenOf(a)' = OpenOf(a)
      /\ charged' = charged
  BY DEF Admitted, OpenOf
<1>4. (\A a \in Budgets : RowIsBooked(a))'
  <2> SUFFICES ASSUME NEW a \in Budgets, row'[a] # Nil
               PROVE  /\ row'[a].spent = SumOver(charged, CallsOf(a))
                      /\ row'[a].calls = Cardinality(Admitted(a))
    BY <1>3 DEF RowIsBooked
  <2>1. CASE row[a] # Nil
    BY <1>1, <2>1 DEF BooksInv, RowIsBooked
  <2>2. CASE row[a] = Nil
    <3>1. a = b /\ row'[a] = NewRow(cap)
      BY <1>1, <2>2
    <3> QED
      BY <2>2, <3>1, NewRowIs, FreshAccounts, FS_EmptySet
  <2> QED
    BY <2>1, <2>2
<1>5. ASSUME HoldsInv PROVE HoldsInv'
  <2> SUFFICES ASSUME NEW a \in Budgets, row'[a] # Nil
               PROVE  /\ row'[a].cap <= peakCap'[a]
                      /\ row'[a].reserved = SumOver(Estimate, OpenOf(a))
                      /\ row'[a].spent + row'[a].reserved
                         <= peakCap'[a] + SumOver(Beyond(charged), CallsOf(a))
    BY <1>3 DEF HoldsInv, RowHolds
  <2>1. SumOver(Beyond(charged), CallsOf(a)) \in Nat
    <3>1. \A c \in CallsOf(a) : Beyond(charged)[c] \in Nat
      BY FiniteCalls, BeyondIs DEF BooksTypes
    <3> QED
      BY <3>1, FiniteCalls, SumNat
  <2>2. /\ peakCap[a] \in Nat /\ peakCap'[a] \in Nat /\ peakCap[a] <= peakCap'[a]
        /\ row'[a] \in Row
        /\ a = b => row'[a].cap <= peakCap'[a]
        /\ a # b => peakCap'[a] = peakCap[a]
    BY <1>1 DEF BooksTypes, Highest, Row
  <2>3. CASE row[a] # Nil
    <3>1. /\ row[a].cap <= peakCap[a]
          /\ row[a].reserved = SumOver(Estimate, OpenOf(a))
          /\ row[a].spent + row[a].reserved
             <= peakCap[a] + SumOver(Beyond(charged), CallsOf(a))
      BY <1>5, <2>3 DEF HoldsInv, RowHolds
    <3>2. /\ row'[a].spent = row[a].spent /\ row'[a].reserved = row[a].reserved
          /\ row'[a].cap <= peakCap'[a]
      BY <1>1, <2>2, <2>3, <3>1
    <3>3. row[a].spent \in Nat /\ row[a].reserved \in Nat
      BY <2>3 DEF BooksTypes, Row
    <3> QED
      BY <2>1, <2>2, <3>1, <3>2, <3>3
  <2>4. CASE row[a] = Nil
    <3>1. a = b /\ row'[a] = NewRow(cap)
      BY <1>1, <2>4
    <3>2. SumOver(Estimate, OpenOf(a)) = 0
      BY <2>4, FreshAccounts, SumEmpty
    <3> QED
      BY <2>1, <2>2, <3>1, <3>2, NewRowIs
  <2> QED
    BY <2>3, <2>4
<1>6. row' \in [Budgets -> Row \cup {Nil}] /\ peakCap' \in [Budgets -> Nat]
  BY <1>1 DEF BooksTypes, Highest, Row
<1> QED
  BY <1>2, <1>4, <1>5, <1>6 DEF BooksInv

\* Reservations are released uncharged: no account of spend moves.
LEMMA ReleaseBooks ==
    ASSUME BooksTypes, BooksInv, NEW cs, NEW back \in [Budgets -> Nat],
           row' = [b \in Budgets |->
                      IF row[b] = Nil THEN Nil
                      ELSE [row[b] EXCEPT !.reserved = Minus(@, back[b])]],
           res' = [c \in Calls |-> IF c \in cs /\ res[c] = "open" THEN "reaped" ELSE res[c]],
           UNCHANGED <<charged, peakCap>>,
           \A c \in Calls : \/ pc'[c] = pc[c]
                            \/ pc[c] \in {"reap", "reaping"} /\ pc'[c] = "reserve"
    PROVE  /\ BooksInv'
           /\ row' \in [Budgets -> Row \cup {Nil}]
           /\ \A b \in Budgets :
                 /\ row'[b] = Nil <=> row[b] = Nil
                 /\ row[b] # Nil => /\ row'[b].spent = row[b].spent
                                    /\ row'[b].cap = row[b].cap
                                    /\ row'[b].calls = row[b].calls
                                    /\ row'[b].reserved = Minus(row[b].reserved, back[b])
<1>1. ASSUME NEW b \in Budgets, row[b] # Nil
      PROVE  /\ row'[b] \in Row /\ row'[b] # Nil
             /\ row'[b].spent = row[b].spent /\ row'[b].cap = row[b].cap
             /\ row'[b].calls = row[b].calls
             /\ row'[b].reserved = Minus(row[b].reserved, back[b])
  <2>1. row[b] \in Row /\ Minus(row[b].reserved, back[b]) \in Nat
    BY <1>1 DEF BooksTypes, Row, Minus
  <2>2. row'[b] = [row[b] EXCEPT !.reserved = Minus(row[b].reserved, back[b])]
    BY <1>1
  <2> QED
    BY <2>1, <2>2, BudgetAssumption DEF Row
<1>2. \A b \in Budgets : row[b] = Nil => row'[b] = Nil
  OBVIOUS
<1>3. (\A c \in Calls : CallIsBooked(c))'
  <2> SUFFICES ASSUME NEW c \in Calls PROVE CallIsBooked(c)'
    OBVIOUS
  <2>1. CallIsBooked(c) /\ BudgetOf[c] \in Budgets
    BY BudgetAssumption DEF BooksInv
  <2>2. /\ res'[c] = "none" <=> res[c] = "none"
        /\ res'[c] = "settled" <=> res[c] = "settled"
    OBVIOUS
  <2> QED
    BY <1>1, <2>1, <2>2 DEF CallIsBooked
<1>4. \A b : Admitted(b)' = Admitted(b)
  BY DEF Admitted
<1>5. (\A b \in Budgets : RowIsBooked(b))'
  BY <1>1, <1>2, <1>4 DEF BooksInv, RowIsBooked
<1> QED
  BY <1>1, <1>2, <1>3, <1>5 DEF BooksInv
LEMMA SumEstimate ==
    ASSUME NEW cs \in SUBSET Calls
    PROVE  SumOver(Estimate, cs) \in Nat
<1>1. IsFiniteSet(cs) /\ \A c \in cs : Estimate[c] \in Nat
  BY BudgetAssumption, FS_Subset
<1> QED
  BY <1>1, SumNat

\* A reap of stale reservations that are open returns what they hold.
LEMMA ReapHolds ==
    ASSUME BooksTypes, BooksInv, HoldsInv, ReapStale, UNCHANGED <<charged, peakCap>>,
           \A c \in Calls : \/ pc'[c] = pc[c]
                            \/ pc[c] \in {"reap", "reaping"} /\ pc'[c] = "reserve"
    PROVE  BooksInv' /\ HoldsInv'
<1>1. \A b \in Budgets : /\ EstimateOf(Stale \cap OpenOf(b)) = SumOver(Estimate, Stale \cap OpenOf(b))
                         /\ EstimateOf(Stale \cap OpenOf(b)) \in Nat
  <2> SUFFICES ASSUME NEW b \in Budgets
               PROVE  /\ EstimateOf(Stale \cap OpenOf(b)) = SumOver(Estimate, Stale \cap OpenOf(b))
                      /\ SumOver(Estimate, Stale \cap OpenOf(b)) \in Nat
    OBVIOUS
  <2>1. Stale \cap OpenOf(b) \in SUBSET Calls
    BY DEF OpenOf
  <2> QED
    BY <2>1, SumEstimate, EstimateIs
<1>2. PICK back \in [Budgets -> Nat] :
         \A b \in Budgets : /\ back[b] = EstimateOf(Stale \cap OpenOf(b))
                            /\ back[b] = SumOver(Estimate, Stale \cap OpenOf(b))
  <2>1. [b \in Budgets |-> EstimateOf(Stale \cap OpenOf(b))] \in [Budgets -> Nat]
    BY <1>1
  <2> QED
    BY <1>1, <2>1
<1>3. row' = [b \in Budgets |->
                 IF row[b] = Nil THEN Nil
                 ELSE [row[b] EXCEPT !.reserved = Minus(@, back[b])]]
  BY <1>2 DEF ReapStale
<1>4. res' = [c \in Calls |-> IF c \in Stale /\ res[c] = "open" THEN "reaped" ELSE res[c]]
  BY DEF ReapStale, Stale
<1>5. /\ BooksInv'
      /\ row' \in [Budgets -> Row \cup {Nil}]
      /\ \A b \in Budgets :
            /\ row'[b] = Nil <=> row[b] = Nil
            /\ row[b] # Nil => /\ row'[b].spent = row[b].spent
                               /\ row'[b].cap = row[b].cap
                               /\ row'[b].calls = row[b].calls
                               /\ row'[b].reserved = Minus(row[b].reserved, back[b])
  BY <1>2, <1>3, <1>4, ReleaseBooks
<1>6. HoldsInv'
  <2> SUFFICES ASSUME NEW b \in Budgets, row'[b] # Nil
               PROVE  /\ row'[b].cap <= peakCap[b]
                      /\ row'[b].reserved = SumOver(Estimate, OpenOf(b)')
                      /\ row'[b].spent + row'[b].reserved
                         <= peakCap[b] + SumOver(Beyond(charged), CallsOf(b))
    BY DEF HoldsInv, RowHolds
  <2>1. /\ row[b] # Nil /\ row[b] \in Row /\ peakCap[b] \in Nat
        /\ row[b].cap <= peakCap[b]
        /\ row[b].reserved = SumOver(Estimate, OpenOf(b))
        /\ row[b].spent + row[b].reserved
           <= peakCap[b] + SumOver(Beyond(charged), CallsOf(b))
    BY <1>5 DEF HoldsInv, RowHolds, BooksTypes
  <2>2. OpenOf(b)' = OpenOf(b) \ (Stale \cap OpenOf(b))
    BY <1>4 DEF OpenOf
  <2>3. /\ SumOver(Estimate, OpenOf(b)) = back[b] + SumOver(Estimate, OpenOf(b)')
        /\ SumOver(Estimate, OpenOf(b)') \in Nat
    <3>1. /\ IsFiniteSet(OpenOf(b)) /\ Stale \cap OpenOf(b) \in SUBSET OpenOf(b)
          /\ \A c \in OpenOf(b) : Estimate[c] \in Nat
      BY FiniteCalls, BudgetAssumption DEF CallsOf
    <3>2. back[b] = SumOver(Estimate, Stale \cap OpenOf(b))
      BY <1>2
    <3>3. /\ SumOver(Estimate, OpenOf(b))
             = SumOver(Estimate, Stale \cap OpenOf(b))
               + SumOver(Estimate, OpenOf(b) \ (Stale \cap OpenOf(b)))
          /\ SumOver(Estimate, OpenOf(b) \ (Stale \cap OpenOf(b))) \in Nat
      BY <3>1, SumPart
    <3> QED
      BY <2>2, <3>2, <3>3, Zenon
  <2>4. SumOver(Beyond(charged), CallsOf(b)) \in Nat
    <3>1. \A c \in CallsOf(b) : Beyond(charged)[c] \in Nat
      BY FiniteCalls, BeyondIs DEF BooksTypes
    <3> QED
      BY <3>1, FiniteCalls, SumNat
  <2>5. row'[b].reserved = SumOver(Estimate, OpenOf(b)')
    BY <1>5, <2>1, <2>3 DEF Minus
  <2>6. row'[b].cap = row[b].cap /\ row'[b].spent = row[b].spent /\ row[b].spent \in Nat
    BY <1>5, <2>1 DEF Row
  <2> QED
    BY <2>1, <2>3, <2>4, <2>5, <2>6
<1> QED
  BY <1>5, <1>6

LEMMA SumBeyond ==
    ASSUME NEW ch \in [Calls -> Nat], NEW b
    PROVE  SumOver(Beyond(ch), CallsOf(b)) \in Nat
<1>1. \A c \in CallsOf(b) : Beyond(ch)[c] \in Nat
  BY FiniteCalls, BeyondIs
<1> QED
  BY <1>1, FiniteCalls, SumNat

\* A call is admitted: it fits under the cap with all that is held.
LEMMA ReserveStep ==
    ASSUME BooksTypes, BooksInv, NEW c \in Calls, pc[c] = "reserve", Fits(c),
           pc' = [pc EXCEPT ![c] = "running"],
           res' = [res EXCEPT ![c] = "open"],
           row' = [row EXCEPT ![BudgetOf[c]].reserved = @ + Estimate[c],
                              ![BudgetOf[c]].calls = @ + 1],
           UNCHANGED <<charged, peakCap>>
    PROVE  /\ BooksInv' /\ (HoldsInv => HoldsInv')
           /\ row' \in [Budgets -> Row \cup {Nil}]
<1>0. PICK b \in Budgets : b = BudgetOf[c]
  BY BudgetAssumption
<1>1. /\ b \in Budgets /\ row[b] \in Row /\ Estimate[c] \in Nat /\ res[c] = "none"
      /\ row[b] # Nil
  BY <1>0, BudgetAssumption DEF BooksTypes, BooksInv, CallIsBooked
<1>2. /\ row'[b] \in Row /\ row'[b] # Nil
      /\ row'[b].cap = row[b].cap /\ row'[b].spent = row[b].spent
      /\ row'[b].reserved = row[b].reserved + Estimate[c]
      /\ row'[b].calls = row[b].calls + 1
      /\ \A a \in Budgets \ {b} : row'[a] = row[a]
  <2>1. row'[b] = [row[b] EXCEPT !.reserved = @ + Estimate[c], !.calls = @ + 1]
    BY <1>0, <1>1 DEF BooksTypes
  <2>2. \A a \in Budgets \ {b} : row'[a] = row[a]
    BY <1>0, <1>1 DEF BooksTypes
  <2>3. row'[b] = [cap |-> row[b].cap, spent |-> row[b].spent,
                   reserved |-> row[b].reserved + Estimate[c],
                   calls |-> row[b].calls + 1]
    BY <1>1, <2>1 DEF Row
  <2>4. /\ row[b].cap \in Nat /\ row[b].spent \in Nat
        /\ row[b].reserved + Estimate[c] \in Nat /\ row[b].calls + 1 \in Nat
    BY <1>1 DEF Row
  <2>5. row'[b] \in Row
    BY <2>3, <2>4 DEF Row
  <2>6. /\ row'[b].cap = row[b].cap /\ row'[b].spent = row[b].spent
        /\ row'[b].calls = row[b].calls + 1
    BY <2>3
  <2>7. row'[b].reserved = row[b].reserved + Estimate[c]
    BY <2>3
  <2> QED
    BY <2>2, <2>5, <2>6, <2>7, BudgetAssumption
<1>3. (\A d \in Calls : CallIsBooked(d))'
  <2> SUFFICES ASSUME NEW d \in Calls PROVE CallIsBooked(d)'
    OBVIOUS
  <2>1. CallIsBooked(d) /\ BudgetOf[d] \in Budgets
    BY BudgetAssumption DEF BooksInv
  <2>2. row'[BudgetOf[d]] = Nil <=> row[BudgetOf[d]] = Nil
    BY <1>1, <1>2, <2>1, BudgetAssumption
  <2>3. CASE d = c
    BY <1>0, <1>1, <1>2, <2>1, <2>3 DEF CallIsBooked, BooksTypes
  <2>4. CASE d # c
    BY <2>1, <2>2, <2>4 DEF CallIsBooked, BooksTypes
  <2> QED
    BY <2>3, <2>4
<1>4. /\ Admitted(b)' = Admitted(b) \cup {c} /\ c \notin Admitted(b)
      /\ OpenOf(b)' = OpenOf(b) \cup {c} /\ c \notin OpenOf(b)
  BY <1>0, <1>1 DEF Admitted, OpenOf, BooksTypes
<1>5. \A a \in Budgets \ {b} : Admitted(a)' = Admitted(a) /\ OpenOf(a)' = OpenOf(a)
  BY <1>0 DEF Admitted, OpenOf, BooksTypes
<1>6. Cardinality(Admitted(b)') = Cardinality(Admitted(b)) + 1
  BY <1>4, FiniteCalls, FS_AddElement
<1>7. SumOver(Estimate, OpenOf(b)') = Estimate[c] + SumOver(Estimate, OpenOf(b))
  <2>1. \A x \in OpenOf(b) \cup {c} : Estimate[x] \in Int
    BY BudgetAssumption DEF OpenOf
  <2> QED
    BY <1>4, <2>1, FiniteCalls, SumInsert
<1>8. row[b] # Nil
  BY <1>1
<1>9. (\A a \in Budgets : RowIsBooked(a))'
  <2> SUFFICES ASSUME NEW a \in Budgets, row'[a] # Nil
               PROVE  /\ row'[a].spent = SumOver(charged, CallsOf(a))
                      /\ row'[a].calls = Cardinality(Admitted(a)')
    BY DEF RowIsBooked
  <2>1. row[a] # Nil /\ RowIsBooked(a)
    BY <1>2, <1>8 DEF BooksInv
  <2>2. CASE a = b
    BY <1>2, <1>6, <2>1, <2>2 DEF RowIsBooked
  <2>3. CASE a # b
    BY <1>2, <1>5, <2>1, <2>3 DEF RowIsBooked
  <2> QED
    BY <2>2, <2>3
<1>10. ASSUME HoldsInv PROVE HoldsInv'
  <2> SUFFICES ASSUME NEW a \in Budgets, row'[a] # Nil
               PROVE  /\ row'[a].cap <= peakCap[a]
                      /\ row'[a].reserved = SumOver(Estimate, OpenOf(a)')
                      /\ row'[a].spent + row'[a].reserved
                         <= peakCap[a] + SumOver(Beyond(charged), CallsOf(a))
    BY DEF HoldsInv, RowHolds
  <2>1. row[a] # Nil /\ RowHolds(a)
    BY <1>2, <1>8, <1>10 DEF HoldsInv
  <2>2. CASE a = b
    <3>1. row[b].spent + row[b].reserved + Estimate[c] <= row[b].cap
      BY <1>0 DEF Fits
    <3>2. row[b].cap <= peakCap[b] /\ row[b].reserved = SumOver(Estimate, OpenOf(b))
      BY <2>1, <2>2 DEF RowHolds
    <3>3. peakCap[b] \in Nat /\ SumOver(Beyond(charged), CallsOf(b)) \in Nat
      BY <1>1, SumBeyond DEF BooksTypes
    <3>4. row[b].cap \in Nat /\ row[b].reserved \in Nat /\ row[b].spent \in Nat
      BY <1>1 DEF Row
    <3>7. row'[b].reserved = row[b].reserved + Estimate[c]
      BY <1>2
    <3>5. row'[b].reserved = SumOver(Estimate, OpenOf(b)')
      BY <1>1, <1>7, <3>2, <3>4, <3>7
    <3>6. row'[b].spent + row'[b].reserved
          <= peakCap[b] + SumOver(Beyond(charged), CallsOf(b))
      <4>1. row'[b].spent = row[b].spent
        BY <1>2
      <4>2. row[b].spent + (row[b].reserved + Estimate[c]) <= peakCap[b]
        BY <1>1, <3>1, <3>2, <3>3, <3>4
      <4> QED
        BY <1>1, <3>3, <3>4, <3>7, <4>1, <4>2
    <3> QED
      BY <1>2, <2>2, <3>2, <3>5, <3>6
  <2>3. CASE a # b
    BY <1>2, <1>5, <2>1, <2>3 DEF RowHolds
  <2> QED
    BY <2>2, <2>3
<1>11. row' \in [Budgets -> Row \cup {Nil}]
  BY <1>0, <1>2 DEF BooksTypes
<1> QED
  BY <1>3, <1>9, <1>10, <1>11 DEF BooksInv

\* A call is charged, once: the row, the reservation and the charge move as one.
LEMMA ChargeStep ==
    ASSUME BooksTypes, BooksInv, NEW c \in Calls, NEW actual \in Actual(c),
           res[c] = "open", Charge(c, actual), UNCHANGED peakCap,
           \A d \in Calls : pc'[d] = pc[d] \/ pc'[d] \in {"over", "running", "settling"}
    PROVE  /\ BooksInv' /\ (HoldsInv => HoldsInv')
           /\ row' \in [Budgets -> Row \cup {Nil}]
           /\ res' \in [Calls -> ReservationState] /\ charged' \in [Calls -> Nat]
<1>0. PICK b \in Budgets : b = BudgetOf[c]
  BY BudgetAssumption
<1>1. /\ b \in Budgets /\ Estimate[c] \in Nat /\ charged[c] = 0
      /\ actual \in Nat /\ actual <= Estimate[c] + Overrun
      /\ row[b] \in Row /\ row[b] # Nil
  BY <1>0, BudgetAssumption DEF BooksTypes, BooksInv, CallIsBooked, Actual
<1>2. /\ row' = [row EXCEPT ![b].spent = @ + actual,
                            ![b].reserved = Minus(@, Estimate[c])]
      /\ res' = [res EXCEPT ![c] = "settled"]
      /\ charged' = [charged EXCEPT ![c] = @ + actual]
  BY <1>0 DEF Charge
<1>3. /\ row'[b] \in Row /\ row'[b] # Nil
      /\ row'[b].cap = row[b].cap /\ row'[b].spent = row[b].spent + actual
      /\ row'[b].reserved = Minus(row[b].reserved, Estimate[c])
      /\ row'[b].calls = row[b].calls
      /\ \A a \in Budgets \ {b} : row'[a] = row[a]
  <2>1. row'[b] = [row[b] EXCEPT !.spent = @ + actual,
                                 !.reserved = Minus(@, Estimate[c])]
    BY <1>1, <1>2 DEF BooksTypes
  <2>2. \A a \in Budgets \ {b} : row'[a] = row[a]
    BY <1>1, <1>2 DEF BooksTypes
  <2>3. row'[b] = [cap |-> row[b].cap, spent |-> row[b].spent + actual,
                   reserved |-> Minus(row[b].reserved, Estimate[c]),
                   calls |-> row[b].calls]
    BY <1>1, <2>1 DEF Row
  <2>4. /\ row[b].cap \in Nat /\ row[b].spent + actual \in Nat
        /\ Minus(row[b].reserved, Estimate[c]) \in Nat /\ row[b].calls \in Nat
    BY <1>1 DEF Row, Minus
  <2>5. row'[b] \in Row
    BY <2>3, <2>4 DEF Row
  <2> QED
    BY <2>2, <2>3, <2>5, BudgetAssumption
<1>4. charged' \in [Calls -> Nat] /\ charged'[c] = actual
  BY <1>1, <1>2 DEF BooksTypes
<1>5. (\A d \in Calls : CallIsBooked(d))'
  <2> SUFFICES ASSUME NEW d \in Calls PROVE CallIsBooked(d)'
    OBVIOUS
  <2>1. CallIsBooked(d) /\ BudgetOf[d] \in Budgets
    BY BudgetAssumption DEF BooksInv
  <2>2. row'[BudgetOf[d]] = Nil <=> row[BudgetOf[d]] = Nil
    BY <1>1, <1>3, <2>1
  <2>3. CASE d = c
    BY <1>0, <1>1, <1>2, <1>3, <1>4, <2>1, <2>3 DEF CallIsBooked, BooksTypes
  <2>4. CASE d # c
    BY <1>2, <2>1, <2>2, <2>4 DEF CallIsBooked, BooksTypes
  <2> QED
    BY <2>3, <2>4
<1>6. /\ \A a : Admitted(a)' = Admitted(a)
      /\ \A a \in Budgets \ {b} : OpenOf(a)' = OpenOf(a)
      /\ OpenOf(b)' = OpenOf(b) \ {c} /\ c \in OpenOf(b) /\ c \in CallsOf(b)
  BY <1>0, <1>2 DEF Admitted, OpenOf, CallsOf, BooksTypes
<1>7. \A a \in Budgets \ {b} :
         /\ SumOver(charged', CallsOf(a)) = SumOver(charged, CallsOf(a))
         /\ SumOver(Beyond(charged'), CallsOf(a)) = SumOver(Beyond(charged), CallsOf(a))
  <2> TAKE a \in Budgets \ {b}
  <2>1. \A d \in CallsOf(a) : /\ charged'[d] = charged[d]
                              /\ Beyond(charged')[d] = Beyond(charged)[d]
    BY <1>0, <1>2 DEF CallsOf, BooksTypes, Beyond
  <2> QED
    BY <2>1, FiniteCalls, SumSame
<1>8. SumOver(charged', CallsOf(b)) = SumOver(charged, CallsOf(b)) + actual
  <2>1. /\ \A d \in CallsOf(b) : charged[d] \in Int /\ charged'[d] \in Int
        /\ \A d \in CallsOf(b) \ {c} : charged[d] = charged'[d]
    BY <1>2, <1>4 DEF CallsOf, BooksTypes
  <2>2. SumOver(charged', CallsOf(b)) = SumOver(charged, CallsOf(b)) - charged[c] + charged'[c]
    BY <1>6, <2>1, FiniteCalls, SumChange
  <2>3. SumOver(charged, CallsOf(b)) \in Int
    BY <2>1, FiniteCalls, SumType
  <2> QED
    BY <1>1, <1>4, <2>2, <2>3
<1>9. SumOver(Beyond(charged'), CallsOf(b))
      = SumOver(Beyond(charged), CallsOf(b)) + Minus(actual, Estimate[c])
  <2>1. /\ \A d \in CallsOf(b) : Beyond(charged)[d] \in Int /\ Beyond(charged')[d] \in Int
        /\ \A d \in CallsOf(b) \ {c} : Beyond(charged)[d] = Beyond(charged')[d]
    <3>1. Beyond(charged) \in [Calls -> Nat] /\ Beyond(charged') \in [Calls -> Nat]
      BY <1>4, BeyondIs DEF BooksTypes
    <3>2. \A d \in CallsOf(b) \ {c} : Beyond(charged)[d] = Beyond(charged')[d]
      BY <1>0, <1>2 DEF CallsOf, BooksTypes, Beyond
    <3> QED
      BY <3>1, <3>2 DEF CallsOf
  <2>2. SumOver(Beyond(charged'), CallsOf(b))
        = SumOver(Beyond(charged), CallsOf(b)) - Beyond(charged)[c] + Beyond(charged')[c]
    BY <1>6, <2>1, FiniteCalls, SumChange
  <2>3. Beyond(charged)[c] = 0 /\ Beyond(charged')[c] = Minus(actual, Estimate[c])
    BY <1>1, <1>4 DEF Beyond, Minus
  <2>4. SumOver(Beyond(charged), CallsOf(b)) \in Nat
    BY SumBeyond DEF BooksTypes
  <2>5. Minus(actual, Estimate[c]) \in Nat
    BY <1>1 DEF Minus
  <2> QED
    BY <2>2, <2>3, <2>4, <2>5
<1>10. SumOver(Estimate, OpenOf(b)) = Estimate[c] + SumOver(Estimate, OpenOf(b)')
  <2>1. \A x \in OpenOf(b) : Estimate[x] \in Int
    BY BudgetAssumption DEF OpenOf
  <2> QED
    BY <1>6, <2>1, FiniteCalls, SumRemove
<1>11. SumOver(Estimate, OpenOf(b)') \in Nat
  <2>1. OpenOf(b)' \in SUBSET Calls
    BY DEF OpenOf
  <2> QED
    BY <2>1, SumEstimate
<1>12. (\A a \in Budgets : RowIsBooked(a))'
  <2> SUFFICES ASSUME NEW a \in Budgets, row'[a] # Nil
               PROVE  /\ row'[a].spent = SumOver(charged', CallsOf(a))
                      /\ row'[a].calls = Cardinality(Admitted(a)')
    BY DEF RowIsBooked
  <2>1. row[a] # Nil /\ RowIsBooked(a)
    BY <1>1, <1>3 DEF BooksInv
  <2>2. CASE a = b
    BY <1>3, <1>6, <1>8, <2>1, <2>2 DEF RowIsBooked
  <2>3. CASE a # b
    BY <1>3, <1>6, <1>7, <2>1, <2>3 DEF RowIsBooked
  <2> QED
    BY <2>2, <2>3
<1>13. ASSUME HoldsInv PROVE HoldsInv'
  <2> SUFFICES ASSUME NEW a \in Budgets, row'[a] # Nil
               PROVE  /\ row'[a].cap <= peakCap[a]
                      /\ row'[a].reserved = SumOver(Estimate, OpenOf(a)')
                      /\ row'[a].spent + row'[a].reserved
                         <= peakCap[a] + SumOver(Beyond(charged'), CallsOf(a))
    BY DEF HoldsInv, RowHolds
  <2>1. row[a] # Nil /\ RowHolds(a)
    BY <1>1, <1>3, <1>13 DEF HoldsInv
  <2>2. CASE a = b
    <3>1. /\ row[b].cap <= peakCap[b] /\ row[b].reserved = SumOver(Estimate, OpenOf(b))
          /\ row[b].spent + row[b].reserved
             <= peakCap[b] + SumOver(Beyond(charged), CallsOf(b))
      BY <2>1, <2>2 DEF RowHolds
    <3>2. peakCap[b] \in Nat /\ SumOver(Beyond(charged), CallsOf(b)) \in Nat
      BY <1>1, SumBeyond DEF BooksTypes
    <3>3. row[b].cap \in Nat /\ row[b].reserved \in Nat /\ row[b].spent \in Nat
      BY <1>1 DEF Row
    <3>4. row'[b].reserved = SumOver(Estimate, OpenOf(b)')
      BY <1>1, <1>3, <1>10, <1>11, <3>1, <3>3 DEF Minus
    <3>5. row'[b].spent + row'[b].reserved
          <= peakCap[b] + SumOver(Beyond(charged'), CallsOf(b))
      BY <1>1, <1>3, <1>9, <1>10, <1>11, <3>1, <3>2, <3>3, <3>4 DEF Minus
    <3> QED
      BY <1>3, <2>2, <3>1, <3>4, <3>5
  <2>3. CASE a # b
    BY <1>3, <1>6, <1>7, <2>1, <2>3 DEF RowHolds
  <2> QED
    BY <2>2, <2>3
<1>14. row' \in [Budgets -> Row \cup {Nil}] /\ res' \in [Calls -> ReservationState]
  BY <1>0, <1>2, <1>3 DEF BooksTypes, ReservationState
<1> QED
  BY <1>4, <1>5, <1>12, <1>13, <1>14 DEF BooksInv

\* The accounts and their types after a step, whichever store made it.
BooksNext == /\ BooksInv' /\ (HoldsInv => HoldsInv')
             /\ row' \in [Budgets -> Row \cup {Nil}]
             /\ res' \in [Calls -> ReservationState]
             /\ charged' \in [Calls -> Nat]
             /\ peakCap' \in [Budgets -> Nat]

LEMMA QuietNext ==
    ASSUME BooksTypes, BooksInv, UNCHANGED <<row, res, charged, peakCap>>,
           \A c \in Calls : \/ pc'[c] = pc[c]
                            \/ pc'[c] \in {"over", "running", "settling"}
                            \/ /\ pc[c] \in {"reap", "reaping", "reserve"}
                               /\ pc'[c] \in {"reap", "reaping", "reserve"}
    PROVE  BooksNext
BY BooksQuiet DEF BooksNext, BooksTypes

LEMMA AdmitBooks ==
    ASSUME BooksTypes, BooksInv, NEW c \in Calls, Admit(c)
    PROVE  BooksNext
<1>1. PICK b \in Budgets : b = BudgetOf[c]
  BY BudgetAssumption
<1>2. pc[c] = "idle" /\ UNCHANGED <<res, charged>>
  BY DEF Admit
<1>3. CASE pc' = [pc EXCEPT ![c] = "over"] /\ UNCHANGED <<row, peakCap>>
  BY <1>2, <1>3, QuietNext DEF BooksTypes
<1>4. CASE /\ pc' = [pc EXCEPT ![c] = "reap"]
           /\ row' = [row EXCEPT ![b] = IF @ = Nil THEN NewRow(EnvCap) ELSE @]
           /\ peakCap' = [peakCap EXCEPT ![b] = Highest(@, row'[b].cap)]
  <2>1. \A d \in Calls : \/ pc'[d] = pc[d]
                         \/ BudgetOf[d] = b /\ pc[d] = "idle" /\ pc'[d] = "reap"
    BY <1>1, <1>2, <1>4 DEF BooksTypes
  <2>2. EnvCap \in Nat
    BY BudgetAssumption
  <2>3. /\ BooksInv' /\ (HoldsInv => HoldsInv')
        /\ row' \in [Budgets -> Row \cup {Nil}] /\ peakCap' \in [Budgets -> Nat]
    BY <1>2, <1>4, <2>1, <2>2, CapStep
  <2> QED
    BY <1>2, <2>3 DEF BooksNext, BooksTypes
<1>5. \/ pc' = [pc EXCEPT ![c] = "over"] /\ UNCHANGED <<row, peakCap>>
      \/ /\ pc' = [pc EXCEPT ![c] = "reap"]
         /\ row' = [row EXCEPT ![b] = IF @ = Nil THEN NewRow(EnvCap) ELSE @]
         /\ peakCap' = [peakCap EXCEPT ![b] = Highest(@, row'[b].cap)]
  <2>1. CASE row[BudgetOf[c]] = Nil /\ BudgetOf[c] \in Tenants
    BY <2>1 DEF Admit, Goto
  <2>2. CASE ~(row[BudgetOf[c]] = Nil /\ BudgetOf[c] \in Tenants)
    BY <1>1, <2>2 DEF Admit, Goto
  <2> QED
    BY <2>1, <2>2
<1> QED
  BY <1>3, <1>4, <1>5

LEMMA ReserveBooks ==
    ASSUME BooksTypes, BooksInv, NEW c \in Calls, Reserve(c)
    PROVE  BooksNext
<1>1. pc[c] = "reserve" /\ UNCHANGED <<charged, peakCap>>
  BY DEF Reserve
<1>2. CASE Fits(c)
  <2>1. /\ pc' = [pc EXCEPT ![c] = "running"]
        /\ res' = [res EXCEPT ![c] = "open"]
        /\ row' = [row EXCEPT ![BudgetOf[c]].reserved = @ + Estimate[c],
                              ![BudgetOf[c]].calls = @ + 1]
    BY <1>2 DEF Reserve, Goto
  <2>2. /\ BooksInv' /\ (HoldsInv => HoldsInv')
        /\ row' \in [Budgets -> Row \cup {Nil}]
    BY <1>1, <1>2, <2>1, ReserveStep
  <2> QED
    BY <1>1, <2>1, <2>2 DEF BooksNext, BooksTypes, ReservationState
<1>3. CASE ~Fits(c)
  <2>1. pc' = [pc EXCEPT ![c] = "over"] /\ UNCHANGED <<row, res>>
    BY <1>3 DEF Reserve, Goto
  <2> QED
    BY <1>1, <2>1, QuietNext DEF BooksTypes
<1> QED
  BY <1>2, <1>3

LEMMA CrashBooks ==
    ASSUME BooksTypes, BooksInv, NEW p \in Procs, Crash(p)
    PROVE  BooksNext
<1>1. /\ UNCHANGED <<row, res, charged, peakCap>>
      /\ \A c \in Calls : pc'[c] = pc[c] \/ pc'[c] = "over"
  BY DEF Crash, BooksTypes
<1> QED
  BY <1>1, QuietNext

LEMMA TickBooks ==
    ASSUME BooksTypes, BooksInv, Tick
    PROVE  BooksNext
<1>1. UNCHANGED <<row, res, pc, charged, peakCap>>
  BY DEF Tick
<1> QED
  BY <1>1, QuietNext

LEMMA CapBooks ==
    ASSUME BooksTypes, BooksInv, NEW b \in Budgets, NEW cap \in Caps,
           SetBudgetCap(b, cap)
    PROVE  BooksNext
<1>1. /\ row' = [row EXCEPT ![b] = IF @ = Nil THEN NewRow(cap)
                                   ELSE [@ EXCEPT !.cap = cap]]
      /\ peakCap' = [peakCap EXCEPT ![b] = Highest(@, cap)]
      /\ UNCHANGED <<res, pc, charged>> /\ cap \in Nat
  BY BudgetAssumption DEF SetBudgetCap
<1>2. row'[b].cap = cap
  BY <1>1, NewRowIs DEF BooksTypes, Row
<1>3. peakCap' = [peakCap EXCEPT ![b] = Highest(@, row'[b].cap)]
  BY <1>1, <1>2
<1>4. /\ BooksInv' /\ (HoldsInv => HoldsInv')
      /\ row' \in [Budgets -> Row \cup {Nil}] /\ peakCap' \in [Budgets -> Nat]
  BY <1>1, <1>3, CapStep
<1> QED
  BY <1>1, <1>4 DEF BooksNext, BooksTypes

\* A call over SQLite reaps at once.
LEMMA ReapBooks ==
    ASSUME BooksTypes, BooksInv, HoldsInv, NEW c \in Calls, Reap(c)
    PROVE  BooksNext
<1>1. /\ pc[c] = "reap" /\ pc' = [pc EXCEPT ![c] = "reserve"]
      /\ UNCHANGED <<charged, peakCap>>
      /\ ReapStale \/ UNCHANGED <<row, res>>
  BY DEF Reap, Goto
<1>2. CASE ReapStale
  <2>1. \A d \in Calls : \/ pc'[d] = pc[d]
                         \/ pc[d] \in {"reap", "reaping"} /\ pc'[d] = "reserve"
    BY <1>1 DEF BooksTypes
  <2>2. BooksInv' /\ HoldsInv'
    BY <1>1, <1>2, <2>1, ReapHolds
  <2>3. res' \in [Calls -> ReservationState]
    BY <1>2 DEF ReapStale, BooksTypes, ReservationState
  <2>4. row' \in [Budgets -> Row \cup {Nil}]
    <3> SUFFICES ASSUME NEW b \in Budgets, row[b] # Nil
                 PROVE  [row[b] EXCEPT !.reserved =
                            Minus(@, EstimateOf(Stale \cap OpenOf(b)))] \in Row
      BY <1>2 DEF ReapStale
    <3>1. Stale \cap OpenOf(b) \in SUBSET Calls
      BY DEF OpenOf
    <3>2. EstimateOf(Stale \cap OpenOf(b)) \in Nat
      BY <3>1, EstimateIs, SumEstimate
    <3>3. row[b] \in Row
      BY DEF BooksTypes
    <3> QED
      BY <3>2, <3>3 DEF Row, Minus
  <2> QED
    BY <1>1, <2>2, <2>3, <2>4 DEF BooksNext, BooksTypes
<1>3. CASE UNCHANGED <<row, res>>
  BY <1>1, <1>3, QuietNext DEF BooksTypes
<1> QED
  BY <1>1, <1>2, <1>3

\* A settlement, in one transaction or as the commit of one.
LEMMA SettleBooks ==
    ASSUME BooksTypes, BooksInv, NEW c \in Calls, pc[c] \in {"running", "settling"},
           \/ \E actual \in Actual(c) : Charge(c, actual)
           \/ UNCHANGED <<row, res, charged>>,
           Goto(c, "over"), UNCHANGED peakCap
    PROVE  BooksNext
<1>1. \A d \in Calls : pc'[d] = pc[d] \/ pc'[d] = "over"
  BY DEF Goto, BooksTypes
<1>2. CASE UNCHANGED <<row, res, charged>>
  BY <1>1, <1>2, QuietNext
<1>3. CASE res[c] = "open" /\ \E actual \in Actual(c) : Charge(c, actual)
  <2>1. PICK actual \in Actual(c) : Charge(c, actual)
    BY <1>3
  <2>2. /\ BooksInv' /\ (HoldsInv => HoldsInv')
        /\ row' \in [Budgets -> Row \cup {Nil}]
        /\ res' \in [Calls -> ReservationState] /\ charged' \in [Calls -> Nat]
    BY <1>1, <1>3, <2>1, ChargeStep
  <2> QED
    BY <2>2 DEF BooksNext, BooksTypes
<1>4. CASE res[c] # "open" /\ \E actual \in Actual(c) : Charge(c, actual)
  BY <1>2, <1>4 DEF Charge
<1> QED
  BY <1>2, <1>3, <1>4

\* A commit of the PostgreSQL reaper deducts what it updated, open or not.
LEMMA ReapCommitBooks ==
    ASSUME BooksTypes, BooksInv, NEW c \in Calls, ReapCommit(c),
           updated \in [Calls -> SUBSET Calls]
    PROVE  /\ BooksInv'
           /\ row' \in [Budgets -> Row \cup {Nil}]
           /\ res' \in [Calls -> ReservationState]
           /\ charged' \in [Calls -> Nat]
           /\ peakCap' \in [Budgets -> Nat]
<1>1. /\ pc[c] = "reaping" /\ pc' = [pc EXCEPT ![c] = "reserve"]
      /\ UNCHANGED <<charged, peakCap>>
      /\ row' = [b \in Budgets |->
                  IF row[b] = Nil THEN Nil
                  ELSE [row[b] EXCEPT !.reserved = Minus(@,
                          EstimateOf({x \in updated[c] : BudgetOf[x] = b}))]]
      /\ res' = [x \in Calls |->
                  IF x \in updated[c] /\ res[x] = "open" THEN "reaped" ELSE res[x]]
  BY DEF ReapCommit, Goto
<1>2. \A d \in Calls : \/ pc'[d] = pc[d]
                       \/ pc[d] \in {"reap", "reaping"} /\ pc'[d] = "reserve"
  BY <1>1 DEF BooksTypes
<1>3. PICK back \in [Budgets -> Nat] :
         \A b \in Budgets : back[b] = EstimateOf({x \in updated[c] : BudgetOf[x] = b})
  <2>1. \A b \in Budgets : EstimateOf({x \in updated[c] : BudgetOf[x] = b}) \in Nat
    <3> TAKE b \in Budgets
    <3>1. {x \in updated[c] : BudgetOf[x] = b} \in SUBSET Calls
      OBVIOUS
    <3> QED
      BY <3>1, EstimateIs, SumEstimate
  <2>2. [b \in Budgets |-> EstimateOf({x \in updated[c] : BudgetOf[x] = b})]
          \in [Budgets -> Nat]
    BY <2>1
  <2> QED
    BY <2>2
<1>4. row' = [b \in Budgets |->
                 IF row[b] = Nil THEN Nil
                 ELSE [row[b] EXCEPT !.reserved = Minus(@, back[b])]]
  BY <1>1, <1>3
<1>5. BooksInv' /\ row' \in [Budgets -> Row \cup {Nil}]
  BY <1>1, <1>2, <1>3, <1>4, ReleaseBooks
<1> QED
  BY <1>1, <1>5 DEF BooksTypes, ReservationState

LEMMA SqliteBooks ==
    ASSUME BooksTypes, BooksInv, HoldsInv, Next
    PROVE  BooksNext
<1>1. ASSUME NEW c \in Calls, Settle(c) PROVE BooksNext
  BY <1>1, SettleBooks DEF Settle
<1> QED
  BY <1>1, AdmitBooks, ReapBooks, ReserveBooks, CrashBooks, TickBooks, CapBooks DEF Next

LEMMA PgBooks ==
    ASSUME BooksTypes, BooksInv, PgNext, updated \in [Calls -> SUBSET Calls]
    PROVE  /\ BooksInv'
           /\ row' \in [Budgets -> Row \cup {Nil}]
           /\ res' \in [Calls -> ReservationState]
           /\ charged' \in [Calls -> Nat]
           /\ peakCap' \in [Budgets -> Nat]
<1>1. ASSUME NEW c \in Calls, Admit(c) \/ PgReserve(c) PROVE BooksNext
  BY <1>1, AdmitBooks, ReserveBooks DEF PgReserve
<1>2. ASSUME NEW c \in Calls, ReapSelect(c) PROVE BooksNext
  <2>1. /\ UNCHANGED <<row, res, charged, peakCap>> /\ pc[c] = "reap"
        /\ \/ pc' = [pc EXCEPT ![c] = "reaping"]
           \/ pc' = [pc EXCEPT ![c] = "reserve"]
    BY <1>2 DEF ReapSelect, Goto
  <2> QED
    BY <2>1, QuietNext DEF BooksTypes
<1>3. ASSUME NEW c \in Calls, NEW x \in Calls, ReapUpdate(c, x) PROVE BooksNext
  <2>1. UNCHANGED <<row, res, pc, charged, peakCap>>
    BY <1>3 DEF ReapUpdate, budgetVars
  <2> QED
    BY <2>1, QuietNext
<1>4. ASSUME NEW c \in Calls, SettleSelect(c) PROVE BooksNext
  <2>1. /\ UNCHANGED <<row, res, charged, peakCap>>
        /\ \/ pc' = [pc EXCEPT ![c] = "settling"]
           \/ pc' = [pc EXCEPT ![c] = "over"]
    BY <1>4 DEF SettleSelect, Goto
  <2> QED
    BY <2>1, QuietNext DEF BooksTypes
<1>5. ASSUME NEW c \in Calls, SettleCommit(c) PROVE BooksNext
  BY <1>5, SettleBooks DEF SettleCommit
<1>6. ASSUME NEW c \in Calls, Rollback(c) PROVE BooksNext
  <2>1. /\ UNCHANGED <<row, res, charged, peakCap>>
        /\ \/ pc' = [pc EXCEPT ![c] = "over"]
           \/ pc[c] = "reaping" /\ pc' = [pc EXCEPT ![c] = "reserve"]
    BY <1>6 DEF Rollback, Goto
  <2> QED
    BY <2>1, QuietNext DEF BooksTypes
<1>7. ASSUME NEW p \in Procs, PgCrash(p) PROVE BooksNext
  BY <1>7, CrashBooks DEF PgCrash
<1>8. ASSUME NEW b \in Budgets, NEW cap \in Caps, PgSetBudgetCap(b, cap)
      PROVE  BooksNext
  BY <1>8, CapBooks DEF PgSetBudgetCap
<1> QED
  BY <1>1, <1>2, <1>3, <1>4, <1>5, <1>6, <1>7, <1>8, TickBooks, ReapCommitBooks
     DEF PgNext, BooksNext

\* The other variables keep their types.
LEMMA SqliteTypes ==
    ASSUME TypeOK, PgTypeOK, Next, NoTransaction
    PROVE  /\ pc' \in [Calls -> {"idle", "reap", "reserve", "running", "over"}]
           /\ age' \in [Calls -> 0..TTL]
           /\ sinceReap' \in [Procs -> 0..Interval]
<1> USE BudgetAssumption DEF TypeOK
<1>1. ASSUME NEW c \in Calls, Admit(c) \/ Reap(c) \/ Reserve(c) \/ Settle(c)
      PROVE  /\ pc' \in [Calls -> {"idle", "reap", "reserve", "running", "over"}]
             /\ age' \in [Calls -> 0..TTL]
             /\ sinceReap' \in [Procs -> 0..Interval]
  <2>1. CASE Admit(c) \/ Settle(c)
    BY <2>1 DEF Admit, Settle, Goto
  <2>2. CASE Reap(c)
    BY <2>2 DEF Reap, Goto
  <2>3. CASE Reserve(c)
    BY <2>3 DEF Reserve, Goto
  <2> QED
    BY <1>1, <2>1, <2>2, <2>3
<1>2. ASSUME NEW p \in Procs, Crash(p)
      PROVE  /\ pc' \in [Calls -> {"idle", "reap", "reserve", "running", "over"}]
             /\ age' \in [Calls -> 0..TTL]
             /\ sinceReap' \in [Procs -> 0..Interval]
  BY <1>2 DEF Crash
<1>3. CASE Tick
  BY <1>3 DEF Tick
<1>4. ASSUME NEW b \in Budgets, NEW cap \in Caps, SetBudgetCap(b, cap)
      PROVE  UNCHANGED <<pc, age, sinceReap>>
  BY <1>4 DEF SetBudgetCap
<1> QED
  BY <1>1, <1>2, <1>3, <1>4 DEF Next

PgPlaces == {"idle", "reap", "reaping", "reserve", "running", "settling", "over"}

LEMMA EndTypes ==
    ASSUME PgTypeOK, NEW cs, EndTransactions(cs)
    PROVE  /\ budgetLock' \in [Budgets -> Calls \cup {Nil}]
           /\ reservationLock' \in [Calls -> Calls \cup {Nil}]
           /\ selected' \in [Calls -> SUBSET Calls]
           /\ updated' \in [Calls -> SUBSET Calls]
BY DEF PgTypeOK, EndTransactions

LEMMA PgTypes ==
    ASSUME PgTypeOK, PgNext
    PROVE  /\ pc' \in [Calls -> PgPlaces]
           /\ age' \in [Calls -> 0..TTL]
           /\ sinceReap' \in [Procs -> 0..Interval]
           /\ budgetLock' \in [Budgets -> Calls \cup {Nil}]
           /\ reservationLock' \in [Calls -> Calls \cup {Nil}]
           /\ selected' \in [Calls -> SUBSET Calls]
           /\ updated' \in [Calls -> SUBSET Calls]
<1> DEFINE Goal == /\ pc' \in [Calls -> PgPlaces]
                   /\ age' \in [Calls -> 0..TTL]
                   /\ sinceReap' \in [Procs -> 0..Interval]
                   /\ budgetLock' \in [Budgets -> Calls \cup {Nil}]
                   /\ reservationLock' \in [Calls -> Calls \cup {Nil}]
                   /\ selected' \in [Calls -> SUBSET Calls]
                   /\ updated' \in [Calls -> SUBSET Calls]
<1> USE BudgetAssumption DEF PgPlaces
<1>1. ASSUME NEW c \in Calls, Admit(c) /\ NoTransaction PROVE Goal
  BY <1>1 DEF PgTypeOK, Admit, Goto, NoTransaction
<1>2. ASSUME NEW c \in Calls, PgReserve(c) PROVE Goal
  BY <1>2 DEF PgTypeOK, PgReserve, Reserve, Goto, NoTransaction
<1>3. ASSUME NEW c \in Calls, ReapSelect(c) PROVE Goal
  <2>1. Stale \subseteq Calls /\ UNCHANGED <<age, budgetLock, reservationLock, updated>>
    BY <1>3 DEF Stale, ReapSelect
  <2>2. CASE sinceReap[ProcOf[c]] = Interval
    BY <1>3, <2>1, <2>2 DEF PgTypeOK, ReapSelect, Goto
  <2>3. CASE sinceReap[ProcOf[c]] # Interval
    BY <1>3, <2>1, <2>3 DEF PgTypeOK, ReapSelect, Goto
  <2> QED
    BY <2>2, <2>3
<1>4. ASSUME NEW c \in Calls, NEW x \in Calls, ReapUpdate(c, x) PROVE Goal
  BY <1>4 DEF PgTypeOK, ReapUpdate, budgetVars
<1>5. ASSUME NEW c \in Calls, ReapCommit(c) \/ SettleCommit(c) \/ Rollback(c) PROVE Goal
  <2>1. EndTransactions({c}) /\ UNCHANGED <<age, sinceReap>>
    BY <1>5 DEF ReapCommit, SettleCommit, Rollback
  <2>2. pc' \in [Calls -> PgPlaces]
    BY <1>5 DEF PgTypeOK, ReapCommit, SettleCommit, Rollback, Goto
  <2> QED
    BY <2>1, <2>2, EndTypes DEF PgTypeOK
<1>6. ASSUME NEW c \in Calls, SettleSelect(c) PROVE Goal
  BY <1>6 DEF PgTypeOK, SettleSelect, Goto
<1>7. ASSUME NEW p \in Procs, PgCrash(p) PROVE Goal
  <2>1. EndTransactions({c \in Calls : ProcOf[c] = p})
    BY <1>7 DEF PgCrash
  <2>2. /\ pc' \in [Calls -> PgPlaces] /\ age' \in [Calls -> 0..TTL]
        /\ sinceReap' \in [Procs -> 0..Interval]
    BY <1>7 DEF PgTypeOK, PgCrash, Crash
  <2> QED
    BY <2>1, <2>2, EndTypes
<1>8. CASE Tick /\ NoTransaction
  BY <1>8 DEF PgTypeOK, Tick, NoTransaction
<1>9. ASSUME NEW b \in Budgets, NEW cap \in Caps, PgSetBudgetCap(b, cap) PROVE Goal
  BY <1>9 DEF PgTypeOK, PgSetBudgetCap, SetBudgetCap, NoTransaction
<1>10. ASSUME NEW c \in Calls,
              \/ Admit(c) /\ NoTransaction
              \/ ReapSelect(c) \/ ReapCommit(c)
              \/ \E x \in Calls : ReapUpdate(c, x)
              \/ PgReserve(c)
              \/ SettleSelect(c) \/ SettleCommit(c) \/ Rollback(c)
       PROVE  Goal
  BY <1>1, <1>2, <1>3, <1>4, <1>5, <1>6, <1>10, Zenon
<1>11. CASE \E c \in Calls :
               \/ Admit(c) /\ NoTransaction
               \/ ReapSelect(c) \/ ReapCommit(c)
               \/ \E x \in Calls : ReapUpdate(c, x)
               \/ PgReserve(c)
               \/ SettleSelect(c) \/ SettleCommit(c) \/ Rollback(c)
  BY <1>10, <1>11
<1>12. CASE \E p \in Procs : PgCrash(p)
  BY <1>7, <1>12
<1>13. CASE \E b \in Budgets, cap \in Caps : PgSetBudgetCap(b, cap)
  BY <1>9, <1>13
<1> QED
  BY <1>8, <1>11, <1>12, <1>13 DEF PgNext

LEMMA StoresStep ==
    ASSUME StoresInv, [StoresNext]_storesVars
    PROVE  StoresInv'
<1>1. BooksTypes /\ BooksInv
  BY BooksTyped DEF StoresInv
<1>2. CASE UNCHANGED storesVars
  <2>1. StoresTypeOK'
    BY <1>2 DEF StoresInv, StoresTypeOK, storesVars, pgVars, budgetVars, TypeOK, PgTypeOK
  <2>2. UNCHANGED <<row, res, pc, charged, peakCap, store>>
    BY <1>2 DEF storesVars, pgVars, budgetVars
  <2> QED
    BY <1>1, <2>1, <2>2, BooksQuiet DEF StoresInv
<1>3. CASE store = "sqlite" /\ Next /\ NoTransaction /\ UNCHANGED store
  <2>1. TypeOK /\ PgTypeOK /\ HoldsInv
    BY <1>3 DEF StoresInv, StoresTypeOK
  <2>2. BooksNext
    BY <1>1, <1>3, <2>1, SqliteBooks
  <2>3. TypeOK'
    BY <1>3, <2>1, <2>2, SqliteTypes DEF TypeOK, BooksNext
  <2>4. PgTypeOK'
    BY <1>3, <2>1, <2>3 DEF TypeOK, PgTypeOK, NoTransaction
  <2> QED
    BY <1>3, <2>1, <2>2, <2>3, <2>4 DEF StoresInv, StoresTypeOK, BooksNext
<1>4. CASE store = "postgres" /\ PgNext /\ UNCHANGED store
  <2>1. PgTypeOK
    BY DEF StoresInv, StoresTypeOK
  <2>2. /\ BooksInv'
        /\ row' \in [Budgets -> Row \cup {Nil}]
        /\ res' \in [Calls -> ReservationState]
        /\ charged' \in [Calls -> Nat]
        /\ peakCap' \in [Budgets -> Nat]
    BY <1>1, <1>4, <2>1, PgBooks DEF PgTypeOK
  <2>3. PgTypeOK'
    BY <1>4, <2>1, <2>2, PgTypes DEF PgTypeOK, PgPlaces
  <2> QED
    BY <1>4, <2>2, <2>3 DEF StoresInv, StoresTypeOK
<1> QED
  BY <1>2, <1>3, <1>4 DEF StoresNext

LEMMA StoresBegin ==
    ASSUME StoresInit
    PROVE  StoresInv
<1>1. StoresTypeOK
  BY BudgetAssumption
     DEF StoresInit, PgInit, Init, StoresTypeOK, PgTypeOK, TypeOK, ReservationState
<1>2. BooksInv /\ HoldsInv
  BY BudgetAssumption
     DEF StoresInit, PgInit, Init, BooksInv, HoldsInv, CallIsBooked, RowIsBooked, RowHolds
<1> QED
  BY <1>1, <1>2 DEF StoresInv

\* Over SQLite only a release gives budget back.
LEMMA OnlyReleaseShrinks ==
    ASSUME StoresInv, [StoresNext]_storesVars, store = "sqlite", NEW b \in Budgets
    PROVE  ~ShrinksUnreleased(b)
<1> SUFFICES ASSUME row[b] # Nil,
                    row[b].spent + row[b].reserved > row'[b].spent + row'[b].reserved,
                    \A c \in OpenOf(b) : res'[c] \notin {"settled", "reaped"}
             PROVE  FALSE
  BY DEF ShrinksUnreleased
<1>1. BooksTypes /\ BooksInv /\ row[b] \in Row
  BY BooksTyped DEF StoresInv, BooksTypes
<1>2. row[b].spent \in Nat /\ row[b].reserved \in Nat
  BY <1>1 DEF Row
<1>3. ASSUME row'[b].spent = row[b].spent, row'[b].reserved = row[b].reserved
      PROVE  FALSE
  BY <1>2, <1>3
<1>4. CASE UNCHANGED storesVars
  BY <1>3, <1>4 DEF storesVars, pgVars, budgetVars
<1>5. ASSUME NEW c \in Calls, Admit(c) PROVE FALSE
  <2>1. row'[b] = row[b]
    BY <1>1, <1>5 DEF Admit, BooksTypes
  <2> QED
    BY <1>3, <2>1
<1>6. ASSUME NEW c \in Calls, Reap(c) PROVE FALSE
  <2>1. CASE UNCHANGED <<row, res>>
    BY <1>3, <2>1
  <2>2. CASE ReapStale
    <3>1. Stale \cap OpenOf(b) = {}
      <4> SUFFICES ASSUME NEW c2 \in Stale \cap OpenOf(b) PROVE FALSE
        OBVIOUS
      <4>1. res'[c2] = "reaped"
        BY <2>2 DEF ReapStale, Stale
      <4> QED
        BY <4>1
    <3>2. EstimateOf(Stale \cap OpenOf(b)) = 0
      BY <3>1, EstimateIs, SumEmpty
    <3>3. row'[b] = [row[b] EXCEPT !.reserved = Minus(@, 0)]
      BY <2>2, <3>2 DEF ReapStale
    <3>4. row'[b].spent = row[b].spent /\ row'[b].reserved = row[b].reserved
      BY <1>1, <1>2, <3>3 DEF Minus, Row
    <3> QED
      BY <1>3, <3>4
  <2> QED
    BY <1>6, <2>1, <2>2 DEF Reap
<1>7. ASSUME NEW c \in Calls, Reserve(c) PROVE FALSE
  <2>1. CASE UNCHANGED row
    BY <1>3, <2>1
  <2>2. CASE row' = [row EXCEPT ![BudgetOf[c]].reserved = @ + Estimate[c],
                                ![BudgetOf[c]].calls = @ + 1]
    <3>1. CASE BudgetOf[c] # b
      BY <1>1, <1>3, <2>2, <3>1 DEF BooksTypes
    <3>2. CASE BudgetOf[c] = b
      <4>1. row'[b] = [row[b] EXCEPT !.reserved = @ + Estimate[c], !.calls = @ + 1]
        BY <1>1, <2>2, <3>2 DEF BooksTypes
      <4>2. row'[b].spent = row[b].spent
        BY <1>1, <4>1 DEF Row
      <4>3. row'[b].reserved = row[b].reserved + Estimate[c]
        BY <1>1, <4>1 DEF Row
      <4>4. Estimate[c] \in Nat
        BY BudgetAssumption
      <4> QED
        BY <1>2, <4>2, <4>3, <4>4
    <3> QED
      BY <3>1, <3>2
  <2> QED
    BY <1>7, <2>1, <2>2 DEF Reserve
<1>8. ASSUME NEW c \in Calls, Settle(c) PROVE FALSE
  <2>1. CASE UNCHANGED row
    BY <1>3, <2>1
  <2>2. CASE \E actual \in Actual(c) : Charge(c, actual)
    <3>1. PICK actual \in Actual(c) : Charge(c, actual)
      BY <2>2
    <3>2. CASE res[c] # "open"
      BY <2>1, <3>1, <3>2 DEF Charge
    <3>3. CASE res[c] = "open" /\ BudgetOf[c] # b
      <4>1. row'[b] = row[b]
        BY <1>1, <3>1, <3>3 DEF Charge, BooksTypes
      <4> QED
        BY <1>3, <4>1
    <3>4. CASE res[c] = "open" /\ BudgetOf[c] = b
      <4>1. c \in OpenOf(b) /\ res'[c] = "settled"
        BY <1>1, <3>1, <3>4 DEF Charge, OpenOf, BooksTypes
      <4> QED
        BY <4>1
    <3> QED
      BY <3>2, <3>3, <3>4
  <2> QED
    BY <1>8, <2>1, <2>2 DEF Settle
<1>9. ASSUME NEW p \in Procs, Crash(p) PROVE FALSE
  BY <1>3, <1>9 DEF Crash
<1>10. CASE Tick
  BY <1>3, <1>10 DEF Tick
<1>11. ASSUME NEW a \in Budgets, NEW cap \in Caps, SetBudgetCap(a, cap) PROVE FALSE
  <2>1. row'[b].spent = row[b].spent /\ row'[b].reserved = row[b].reserved
    BY <1>1, <1>11 DEF SetBudgetCap, BooksTypes, Row
  <2> QED
    BY <1>3, <2>1
<1> QED
  BY <1>4, <1>5, <1>6, <1>7, <1>8, <1>9, <1>10, <1>11 DEF StoresNext, Next

-----------------------------------------------------------------------------
(* The price of a call                                                     *)

\* A reading with a provider in it.
IsReading(r) == r \in Readings /\ r # <<>>

\* The fields of the script's record.
CheckIsFormed(c) ==
    c = [at |-> c.at, noticed |-> c.noticed, table |-> c.table,
         observed |-> c.observed, readings |-> c.readings, exit |-> c.exit]

\* The floor is what was read, under ceilings that covered it; a check knows what
\* it has read so far and the table it began with.
PricingInv ==
    /\ shipped \in [PricedModels -> Rates]
    /\ pinned \in [PricedModels -> Rates \cup {Malformed}]
    /\ catalog \in [PricedModels -> Readings]
    /\ DOMAIN priceFloor.observed = PricedModels
    /\ \A m \in PricedModels :
          /\ IsReading(asRead[m])
          /\ priceFloor.observed[m] = CapRate(asRead[m])
          /\ writtenUnder[m] \in Nat
          /\ priceFloor.observed[m].rate <= writtenUnder[m]
    /\ CheckIsFormed(check)
    /\ check.at \in {"fetch", "compare"} =>
          /\ DOMAIN check.readings = DOMAIN check.observed
          /\ check.table \in [PricedModels -> Rates]
          /\ DOMAIN check.observed \subseteq PricedModels
          /\ \A m \in DOMAIN check.observed :
                IsReading(check.readings[m])
                /\ check.observed[m] = CapRate(check.readings[m])
    /\ check.at = "compare" => DOMAIN check.observed = PricedModels

LEMMA ReadingRanks ==
    ASSUME NEW r, IsReading(r)
    PROVE  /\ r \in Seq(Nat) /\ Len(r) \in Nat \ {0} /\ DOMAIN r = 1..Len(r)
           /\ (9 * Len(r) + 9) \div 10 \in 1..Len(r)
           /\ Len(r) <= 9 => (9 * Len(r) + 9) \div 10 = Len(r)
<1>1. r \in Seq(Nat) /\ Len(r) \in Nat \ {0} /\ DOMAIN r = 1..Len(r)
  <2>1. r \in Seq(Nat) /\ r # <<>>
    BY PricingAssumption DEF IsReading
  <2> QED
    BY <2>1, EmptySeq, LenProperties
<1> DEFINE n == Len(r)
<1>2. (9 * n + 9) \div 10 \in 1..n /\ (n <= 9 => (9 * n + 9) \div 10 = n)
  <2>1. n \in Nat \ {0}
    BY <1>1
  <2> HIDE DEF n
  <2> QED
    BY <2>1
<1> QED
  BY <1>1, <1>2

LEMMA RatesOf ==
    ASSUME NEW r, IsReading(r)
    PROVE  /\ Dearest(r) \in Nat /\ P90(r) \in Nat
           /\ \A i \in DOMAIN r : r[i] \in Nat /\ r[i] <= Dearest(r)
           /\ Len(r) <= 9 => P90(r) = Dearest(r)
<1>1. /\ r \in Seq(Nat) /\ Len(r) \in Nat \ {0} /\ DOMAIN r = 1..Len(r)
      /\ (9 * Len(r) + 9) \div 10 \in 1..Len(r)
      /\ Len(r) <= 9 => (9 * Len(r) + 9) \div 10 = Len(r)
  BY ReadingRanks
<1>6. r \in Seq(Nat) /\ Len(r) \in Nat \ {0} /\ DOMAIN r = 1..Len(r)
  BY <1>1
<1>2. \A i \in DOMAIN r : r[i] \in Nat
  BY <1>6, ElementOfSeq
<1>3. Len(r) \in DOMAIN r
  BY <1>6
<1>4. \A i, j \in DOMAIN r : i < j => r[i] <= r[j]
  BY PricingAssumption DEF IsReading
<1>5. \A i \in DOMAIN r : r[i] <= r[Len(r)]
  <2> TAKE i \in DOMAIN r
  <2>1. i \in Nat /\ i <= Len(r) /\ Len(r) \in Nat
    BY <1>6
  <2>2. CASE i = Len(r)
    BY <1>2, <2>2
  <2>3. CASE i < Len(r)
    BY <1>3, <1>4, <2>3
  <2> QED
    BY <2>1, <2>2, <2>3
<1> QED
  BY <1>1, <1>2, <1>3, <1>5 DEF Dearest, P90, NearestRank

\* What may be adopted covers the peers and is no outlier among them.
LEMMA CapCovers ==
    ASSUME NEW r, IsReading(r)
    PROVE  /\ CapRate(r).rate \in Nat
           /\ \A i \in DOMAIN r : ~IsOutlier(r[i], r) => r[i] <= CapRate(r).rate
           /\ ~IsOutlier(CapRate(r).rate, r)
           /\ Dearest(r) > CapRate(r).rate => CapRate(r).declined = Dearest(r)
           /\ CapRate(r).declined # Unpriced => CapRate(r).providers >= 10
<1>1. /\ Dearest(r) \in Nat /\ P90(r) \in Nat /\ Len(r) \in Nat
      /\ \A i \in DOMAIN r : r[i] \in Nat /\ r[i] <= Dearest(r)
      /\ Len(r) <= 9 => P90(r) = Dearest(r)
  BY RatesOf, ReadingRanks
<1>2. PRICE_OUTLIER_MULTIPLE = 3
  BY DEF PRICE_OUTLIER_MULTIPLE
<1>3. CASE IsOutlier(Dearest(r), r)
  <2>1. Len(r) >= 2 /\ Dearest(r) > 3 * P90(r)
    BY <1>2, <1>3 DEF IsOutlier
  <2>2. /\ CapRate(r).rate = 3 * P90(r) /\ CapRate(r).declined = Dearest(r)
        /\ CapRate(r).providers = Len(r)
    BY <1>2, <1>3 DEF CapRate
  <2>3. Len(r) >= 10
    BY <1>1, <2>1
  <2> QED
    BY <1>1, <1>2, <2>1, <2>2, <2>3 DEF IsOutlier
<1>4. CASE ~IsOutlier(Dearest(r), r)
  <2>1. CapRate(r).rate = Dearest(r) /\ CapRate(r).declined = Unpriced
    BY <1>4 DEF CapRate
  <2> QED
    BY <1>1, <1>4, <2>1
<1> QED
  BY <1>3, <1>4

LEMMA PriceIsGood ==
    ASSUME PricingInv
    PROVE  PriceIsSound
<1>1. RecordIsWhole
  <2> SUFFICES ASSUME NEW m \in PricedModels
               PROVE  LET observed == priceFloor.observed[m]
                      IN /\ writtenUnder[m] # Unpriced /\ observed.rate <= writtenUnder[m]
                         /\ Dearest(asRead[m]) > observed.rate =>
                               observed.declined = Dearest(asRead[m])
                         /\ observed.declined # Unpriced => observed.providers >= 10
    BY DEF RecordIsWhole, PricingInv
  <2> QED
    BY CapCovers, PricingAssumption DEF PricingInv
<1>2. ReservationCoversPeers
  <2> SUFFICES ASSUME NEW m \in PricedModels, pinned[m] = Unpriced, shipped[m] # Unpriced
               PROVE  /\ \A i \in DOMAIN asRead[m] :
                            ~IsOutlier(asRead[m][i], asRead[m]) =>
                               ResolvePrice(m) >= asRead[m][i]
                      /\ ResolvePrice(m) > shipped[m] =>
                            ~IsOutlier(ResolvePrice(m), asRead[m])
    BY DEF ReservationCoversPeers
  <2> DEFINE rate == priceFloor.observed[m].rate
  <2>1. /\ IsReading(asRead[m]) /\ rate = CapRate(asRead[m]).rate
        /\ m \in DOMAIN priceFloor.observed /\ shipped[m] \in Nat
    BY DEF PricingInv, Rates
  <2>2. ResolvePrice(m) = Larger(shipped[m], rate)
    BY <2>1, PricingAssumption DEF ResolvePrice, ApplyPriceFloor
  <2>3. rate \in Nat /\ ~IsOutlier(rate, asRead[m])
    BY <2>1, CapCovers
  <2>4. \A i \in DOMAIN asRead[m] :
           /\ asRead[m][i] \in Nat
           /\ ~IsOutlier(asRead[m][i], asRead[m]) => asRead[m][i] <= rate
    BY <2>1, CapCovers, RatesOf
  <2> HIDE DEF rate
  <2> QED
    BY <2>1, <2>2, <2>3, <2>4 DEF Larger
<1> QED
  BY <1>1, <1>2 DEF PriceIsSound

LEMMA PricingBegins ==
    ASSUME PricingInit
    PROVE  PricingInv
<1>1. \A m \in PricedModels : IsReading(catalog[m]) /\ Len(catalog[m]) = 1
  BY DEF PricingInit, IsReading
<1>2. ASSUME NEW m \in PricedModels
      PROVE  /\ Dearest(catalog[m]) \in Nat
             /\ CapRate(catalog[m]).rate <= Dearest(catalog[m])
  <2>1. ~IsOutlier(Dearest(catalog[m]), catalog[m]) /\ Dearest(catalog[m]) \in Nat
    <3>1. IsReading(catalog[m]) /\ Len(catalog[m]) = 1
      BY <1>1
    <3> QED
      BY <3>1, RatesOf DEF IsOutlier
  <2> QED
    BY <2>1 DEF CapRate
<1>3. /\ shipped \in [PricedModels -> Rates]
      /\ pinned \in [PricedModels -> Rates \cup {Malformed}]
      /\ catalog \in [PricedModels -> Readings]
  BY <1>2 DEF PricingInit, Rates
<1>4. check.at = "idle" /\ CheckIsFormed(check)
  BY DEF PricingInit, Ended, CheckIsFormed
<1> QED
  BY <1>1, <1>2, <1>3, <1>4 DEF PricingInit, PricingInv

LEMMA PricingStep ==
    ASSUME PricingInv, [PricingNext]_pricingVars
    PROVE  PricingInv'
<1> USE DEF CheckIsFormed
<1> DEFINE Same == UNCHANGED <<priceFloor, asRead, writtenUnder>>
<1>1. CASE UNCHANGED pricingVars \/ NextDay
  BY <1>1 DEF pricingVars, NextDay, PricingInv, IsReading
<1>2. ASSUME NEW m \in PricedModels, Reprice(m) \/ Ship(m) \/ Pin(m)
      PROVE  PricingInv'
  <2>1. UNCHANGED <<priceFloor, asRead, writtenUnder, check>>
    BY <1>2 DEF Reprice, Ship, Pin
  <2>2. /\ (shipped \in [PricedModels -> Rates])'
        /\ (pinned \in [PricedModels -> Rates \cup {Malformed}])'
        /\ (catalog \in [PricedModels -> Readings])'
    <3>1. CASE Reprice(m)
      BY <3>1 DEF Reprice, PricingInv
    <3>2. CASE Ship(m)
      BY <3>2, PricingAssumption DEF Ship, PricingInv, Rates
    <3>3. CASE Pin(m)
      BY <3>3, PricingAssumption DEF Pin, PricingInv, Rates
    <3> QED
      BY <1>2, <3>1, <3>2, <3>3
  <2> QED
    BY <2>1, <2>2 DEF PricingInv, IsReading
<1>3. CASE StartCheck
  <2>1. /\ check'.at = "fetch" /\ check'.table = shipped /\ check'.observed = <<>>
        /\ UNCHANGED <<catalog, shipped, pinned, priceFloor, asRead, writtenUnder>>
    BY <1>3 DEF StartCheck, Ended
  <2>3. check' = [at |-> "fetch", noticed |-> IsFloorStale, table |-> shipped,
                  observed |-> <<>>, readings |-> <<>>, exit |-> 0]
    BY <1>3 DEF StartCheck, Ended
  <2>2. DOMAIN check'.observed = {} /\ DOMAIN check'.readings = {} /\ CheckIsFormed(check')
    BY <2>3
  <2> QED
    BY <2>1, <2>2 DEF PricingInv, IsReading
<1>4. ASSUME check' = Ended(1), 
             UNCHANGED <<catalog, shipped, pinned, priceFloor, asRead, writtenUnder>>
      PROVE  PricingInv'
  <2>1. check'.at = "idle" /\ CheckIsFormed(check')
    BY <1>4 DEF Ended
  <2> QED
    BY <1>4, <2>1 DEF PricingInv, IsReading
<1>5. ASSUME NEW m \in PricedModels, Fetch(m) PROVE PricingInv'
  <2>1. /\ check.at = "fetch" /\ m \notin DOMAIN check.observed
        /\ UNCHANGED <<catalog, shipped, pinned, priceFloor, asRead, writtenUnder>>
    BY <1>5 DEF Fetch
  <2>2. CASE catalog[m] = <<>>
    BY <1>4, <1>5, <2>1, <2>2 DEF Fetch
  <2>3. CASE catalog[m] # <<>>
    <3>1. check' = [check EXCEPT
              !.at = IF DOMAIN check.observed \cup {m} = PricedModels THEN "compare" ELSE "fetch",
              !.observed = WithModel(@, m, CapRate(catalog[m])),
              !.readings = WithModel(@, m, catalog[m])]
      BY <1>5, <2>3 DEF Fetch
    <3>2. IsReading(catalog[m])
      BY <2>3 DEF PricingInv, IsReading
    <3>4. check' = [at |-> IF DOMAIN check.observed \cup {m} = PricedModels
                          THEN "compare" ELSE "fetch",
                    noticed |-> check.noticed, table |-> check.table,
                    observed |-> WithModel(check.observed, m, CapRate(catalog[m])),
                    readings |-> WithModel(check.readings, m, catalog[m]), exit |-> check.exit]
      BY <3>1 DEF PricingInv
    <3>3. /\ check'.observed = [n \in DOMAIN check.observed \cup {m} |->
                IF n = m THEN CapRate(catalog[m]) ELSE check.observed[n]]
          /\ check'.readings = [n \in DOMAIN check.readings \cup {m} |->
                IF n = m THEN catalog[m] ELSE check.readings[n]]
      BY <3>4 DEF WithModel
    <3>5. /\ DOMAIN check'.observed = DOMAIN check.observed \cup {m}
          /\ DOMAIN check'.readings = DOMAIN check.readings \cup {m}
          /\ check'.table = check.table
          /\ check'.at = "compare" => DOMAIN check.observed \cup {m} = PricedModels
      BY <3>3, <3>4
    <3>6. /\ DOMAIN check.readings = DOMAIN check.observed
          /\ check.table \in [PricedModels -> Rates]
          /\ DOMAIN check.observed \subseteq PricedModels
          /\ \A n \in DOMAIN check.observed :
                IsReading(check.readings[n])
                /\ check.observed[n] = CapRate(check.readings[n])
      BY <2>1 DEF PricingInv
    <3>7. \A n \in DOMAIN check'.observed :
             IsReading(check'.readings[n])
             /\ check'.observed[n] = CapRate(check'.readings[n])
      BY <3>2, <3>3, <3>5, <3>6
    <3>8. CheckIsFormed(check')
      BY <3>4
    <3> HIDE DEF CheckIsFormed
    <3> QED
      BY <2>1, <3>5, <3>6, <3>7, <3>8 DEF PricingInv, IsReading
  <2> QED
    BY <2>2, <2>3
<1>6. CASE Conclude
  <2>1. /\ check'.at = "idle" /\ check.at = "compare" /\ CheckIsFormed(check')
        /\ UNCHANGED <<catalog, shipped, pinned>>
    BY <1>6 DEF Conclude, Ended
  <2>2. CASE Same
    BY <2>1, <2>2 DEF PricingInv, IsReading
  <2>3. CASE /\ Drifted = {}
             /\ priceFloor' = [verifiedAt |-> today, observed |-> check.observed]
             /\ asRead' = check.readings
             /\ writtenUnder' = check.table
    <3>1. ASSUME NEW m \in PricedModels
          PROVE  /\ IsReading(check.readings[m])
                 /\ check.observed[m] = CapRate(check.readings[m])
                 /\ check.table[m] \in Nat
                 /\ check.observed[m].rate <= check.table[m]
      <4>1. /\ m \in DOMAIN check.observed /\ IsReading(check.readings[m])
            /\ check.observed[m] = CapRate(check.readings[m])
            /\ check.table[m] \in Rates
        BY <2>1 DEF PricingInv
      <4>2. check.table[m] # Unpriced /\ ~(check.table[m] < check.observed[m].rate)
        BY <2>3, <4>1 DEF Drifted
      <4> QED
        BY <4>1, <4>2, CapCovers DEF Rates
    <3>2. DOMAIN check.observed = PricedModels /\ priceFloor'.observed = check.observed
      BY <2>1, <2>3 DEF PricingInv
    <3> QED
      BY <2>1, <2>3, <3>1, <3>2 DEF PricingInv, IsReading
  <2> QED
    BY <1>6, <2>2, <2>3 DEF Conclude
<1>7. CASE FetchFails
  BY <1>4, <1>7 DEF FetchFails
<1> QED
  BY <1>1, <1>2, <1>3, <1>5, <1>6, <1>7 DEF PricingNext

-----------------------------------------------------------------------------
(* The ledger of usage                                                     *)

On(f) == flushing[f].on

\* Where each event may be: an event not recorded has no row, one recorded at
\* once has its own, and only what was retained goes through buffer and flushes.
PlacesAreKept ==
    /\ \A u \in Uses :
          /\ recording[u] \in {"idle", "storing", "thrown"} => rowsOf[u] = 0
          /\ recording[u] = "saved" => rowsOf[u] = 1
          /\ rowsOf[u] > 0 => MeasurementOK(UseOf[u].cost)
          /\ recording[u] \in {"storing", "buffered"} => MeasurementOK(UseOf[u].cost)
    /\ \A i \in DOMAIN buffer : recording[buffer[i]] = "buffered"
    /\ \A f \in Flushers : On(f) =>
          /\ recording[flushing[f].event] = "buffered"
          /\ \A i \in DOMAIN flushing[f].failing :
                recording[flushing[f].failing[i]] = "buffered"

\* A flush alone is at a place of the buffer: before it every event is stored or
\* failing, from it on none is stored.
FlushIsSound(f) ==
    LET at == flushing[f].next - 1
        failing == flushing[f].failing
    IN /\ at \in 1..Len(buffer) /\ flushing[f].event = buffer[at]
       /\ \A i \in 1..(at - 1) :
             /\ rowsOf[buffer[i]] >= 1 \/ \E k \in DOMAIN failing : failing[k] = buffer[i]
             /\ buffer[i] \notin doubted /\ (\E k \in DOMAIN failing : failing[k] = buffer[i])
                   => rowsOf[buffer[i]] = 0
       /\ \A i \in at..Len(buffer) : buffer[i] \notin doubted => rowsOf[buffer[i]] = 0
       /\ \A k \in DOMAIN failing : \E i \in 1..(at - 1) : failing[k] = buffer[i]
       /\ \A j, k \in DOMAIN failing : failing[j] = failing[k] => j = k

NothingLost ==
    \A u \in Uses : recording[u] = "buffered" =>
        /\ rowsOf[u] >= 1 \/ \E i \in DOMAIN buffer : buffer[i] = u
        /\ u \notin doubted => rowsOf[u] <= 1

AloneInv ==
    /\ \A f, g \in Flushers : On(f) /\ On(g) => f = g
    /\ \A i, j \in DOMAIN buffer : buffer[i] = buffer[j] => i = j
    /\ \A f \in Flushers : On(f) => FlushIsSound(f)
    /\ (\A f \in Flushers : ~On(f)) =>
          \A i \in DOMAIN buffer : buffer[i] \notin doubted => rowsOf[buffer[i]] = 0
    /\ NothingLost

UsageInv == UsageTypeOK /\ PlacesAreKept /\ (~crossed => AloneInv)

LEMMA BufferIs ==
    ASSUME UsageTypeOK
    PROVE  /\ Len(buffer) \in Nat /\ DOMAIN buffer = 1..Len(buffer)
           /\ \A i \in DOMAIN buffer : buffer[i] \in Uses
           /\ \A f \in Flushers : On(f) =>
                 /\ flushing[f].next \in Nat \ {0} /\ flushing[f].event \in Uses
                 /\ flushing[f].failing \in Seq(Uses)
                 /\ Len(flushing[f].failing) \in Nat
                 /\ DOMAIN flushing[f].failing = 1..Len(flushing[f].failing)
                 /\ \A i \in DOMAIN flushing[f].failing : flushing[f].failing[i] \in Uses
<1>1. buffer \in Seq(Uses)
  BY DEF UsageTypeOK
<1>2. ASSUME NEW f \in Flushers, On(f)
      PROVE  /\ flushing[f].next \in Nat \ {0} /\ flushing[f].event \in Uses
             /\ flushing[f].failing \in Seq(Uses)
  <2>1. flushing[f] \in {NotFlushing} \cup [on : {TRUE}, next : Nat \ {0}, event : Uses, failing : Seq(Uses)]
    BY DEF UsageTypeOK
  <2>2. flushing[f] # NotFlushing
    <3>1. ~NotFlushing.on
      BY DEF NotFlushing
    <3> QED
      BY <1>2, <3>1 DEF On
  <2>3. flushing[f] \in [on : {TRUE}, next : Nat \ {0}, event : Uses, failing : Seq(Uses)]
    BY <2>1, <2>2
  <2> QED
    BY <2>3
<1> QED
  BY <1>1, <1>2, LenProperties, ElementOfSeq

LEMMA UsageIsKept ==
    ASSUME UsageInv
    PROVE  NoUseIsLost
<1> SUFFICES ASSUME NEW u \in Uses
             PROVE  /\ recording[u] = "saved" => rowsOf[u] >= 1
                    /\ recording[u] = "buffered" /\ ~crossed =>
                          rowsOf[u] >= 1 \/ u \in ToSet(buffer)
                    /\ ~crossed /\ u \notin doubted => rowsOf[u] <= 1
                    /\ rowsOf[u] > 0 => MeasurementOK(UseOf[u].cost)
  BY DEF NoUseIsLost
<1>1. /\ rowsOf[u] \in Nat
      /\ recording[u] \in {"idle", "storing", "saved", "buffered", "thrown"}
  BY DEF UsageInv, UsageTypeOK
<1>2. \A i \in DOMAIN buffer : buffer[i] \in ToSet(buffer)
  BY BufferIs DEF ToSet, UsageInv
<1> QED
  BY <1>1, <1>2 DEF UsageInv, PlacesAreKept, AloneInv, NothingLost

LEMMA UsageBegins ==
    ASSUME UsageInit
    PROVE  UsageInv
<1>1. UsageTypeOK
  <2>1. buffer \in Seq(Uses) /\ flushing \in [Flushers -> {NotFlushing}]
    BY DEF UsageInit
  <2>2. /\ rowsOf \in [Uses -> 0..MaxCopies] /\ doubted \subseteq Uses
        /\ recording \in [Uses -> {"idle", "storing", "saved", "buffered", "thrown"}]
    BY UsageAssumption DEF UsageInit
  <2>3. crossed \in BOOLEAN /\ recorder \in {"usage", "metrics"}
    BY DEF UsageInit
  <2> QED
    BY <2>1, <2>2, <2>3 DEF UsageTypeOK
<1>2. PlacesAreKept
  BY UsageAssumption
     DEF UsageInit, PlacesAreKept, On, NotFlushing, MeasurementOK
<1>3. AloneInv
  BY DEF UsageInit, AloneInv, NothingLost, On, NotFlushing
<1> QED
  BY <1>1, <1>2, <1>3 DEF UsageInv

\* An event whose record is being stored or that is retained is stored once more,
\* or not.
LEMMA InsertIs ==
    ASSUME UsageTypeOK, NEW u \in Uses, NEW answer \in StoreAnswers, InsertUse(u, answer)
    PROVE  /\ rowsOf' \in [Uses -> 0..MaxCopies]
           /\ \A v \in Uses \ {u} : rowsOf'[v] = rowsOf[v]
           /\ answer \in {"ok", "lost"} => rowsOf'[u] = rowsOf[u] + 1
           /\ answer \notin {"ok", "lost"} => rowsOf'[u] = rowsOf[u]
           /\ \A v \in Uses : rowsOf[v] \in Nat /\ rowsOf'[v] \in Nat
                              /\ rowsOf[v] <= rowsOf'[v]
<1>1. rowsOf \in [Uses -> 0..MaxCopies] /\ MaxCopies \in Nat
  BY UsageAssumption DEF UsageTypeOK
<1>2. CASE answer \in {"ok", "lost"}
  BY <1>1, <1>2 DEF InsertUse
<1>3. CASE answer \notin {"ok", "lost"}
  BY <1>1, <1>3 DEF InsertUse
<1> QED
  BY <1>2, <1>3

LEMMA RecordStep ==
    ASSUME UsageInv, NEW u \in Uses, RefuseUse(u) \/ RecordUse(u)
    PROVE  UsageInv'
<1>1. /\ recording[u] = "idle"
      /\ \/ recording' = [recording EXCEPT ![u] = "thrown"]
         \/ /\ recording' = [recording EXCEPT ![u] = "storing"]
            /\ MeasurementOK(UseOf[u].cost)
      /\ UNCHANGED <<recorder, rowsOf, buffer, flushing, crossed, doubted>>
  BY DEF RefuseUse, RecordUse
<1>2. recording \in [Uses -> {"idle", "storing", "saved", "buffered", "thrown"}]
  BY DEF UsageInv, UsageTypeOK
<1>3. UsageTypeOK'
  BY <1>1, <1>2 DEF UsageInv, UsageTypeOK
<1>4. \A v \in Uses : recording[v] = "buffered" <=> recording'[v] = "buffered"
  BY <1>1, <1>2
<1>5. PlacesAreKept'
  <2>1. (\A v \in Uses :
          /\ recording[v] \in {"idle", "storing", "thrown"} => rowsOf[v] = 0
          /\ recording[v] = "saved" => rowsOf[v] = 1
          /\ rowsOf[v] > 0 => MeasurementOK(UseOf[v].cost)
          /\ recording[v] \in {"storing", "buffered"} => MeasurementOK(UseOf[v].cost))'
    BY <1>1, <1>2 DEF UsageInv, PlacesAreKept
  <2>2. (\A i \in DOMAIN buffer : recording[buffer[i]] = "buffered")'
    BY <1>1, <1>4, BufferIs DEF UsageInv, PlacesAreKept
  <2>3. (\A f \in Flushers : On(f) =>
          /\ recording[flushing[f].event] = "buffered"
          /\ \A i \in DOMAIN flushing[f].failing :
                recording[flushing[f].failing[i]] = "buffered")'
    BY <1>1, <1>4, BufferIs DEF UsageInv, PlacesAreKept, On
  <2> QED
    BY <2>1, <2>2, <2>3 DEF PlacesAreKept
<1>6. (~crossed => AloneInv)'
  <2>1. (\A f \in Flushers : On(f) => FlushIsSound(f))' = (\A f \in Flushers : On(f) => FlushIsSound(f))
    BY <1>1 DEF On, FlushIsSound
  <2> QED
    BY <1>1, <1>4, <2>1 DEF UsageInv, AloneInv, NothingLost, On
<1> QED
  BY <1>3, <1>5, <1>6 DEF UsageInv

\* The answer of the store to a recorder: the event is saved, retained or thrown.
LEMMA AnsweredStep ==
    ASSUME UsageInv, NEW u \in Uses, NEW answer \in StoreAnswers, UseAnswered(u, answer)
    PROVE  UsageInv'
<1>1. PICK then \in {"saved", "buffered", "thrown"} :
         /\ then = "saved" <=> answer = "ok"
         /\ then = "thrown" => answer = "rejected"
         /\ recording' = [recording EXCEPT ![u] = then]
         /\ buffer' = IF then = "buffered" THEN Append(buffer, u) ELSE buffer
  BY DEF UseAnswered
<1>2. /\ recording[u] = "storing" /\ InsertUse(u, answer)
      /\ doubted' = doubted \cup Doubt(u, answer)
      /\ UNCHANGED <<recorder, flushing, crossed>>
  BY DEF UseAnswered
<1>3. /\ recording \in [Uses -> {"idle", "storing", "saved", "buffered", "thrown"}]
      /\ buffer \in Seq(Uses) /\ doubted \subseteq Uses
  BY DEF UsageInv, UsageTypeOK
<1>4. /\ rowsOf' \in [Uses -> 0..MaxCopies]
      /\ \A v \in Uses \ {u} : rowsOf'[v] = rowsOf[v]
      /\ answer \in {"ok", "lost"} => rowsOf'[u] = rowsOf[u] + 1
      /\ answer \notin {"ok", "lost"} => rowsOf'[u] = rowsOf[u]
  BY <1>2, InsertIs DEF UsageInv
<1>5. /\ rowsOf[u] = 0 /\ MeasurementOK(UseOf[u].cost)
      /\ \A i \in DOMAIN buffer : buffer[i] # u
  BY <1>2 DEF UsageInv, PlacesAreKept
<1>6. /\ buffer' \in Seq(Uses)
      /\ \A i \in DOMAIN buffer : i \in DOMAIN buffer' /\ buffer'[i] = buffer[i]
      /\ Len(buffer') \in Nat /\ DOMAIN buffer' = 1..Len(buffer')
      /\ Len(buffer) \in Nat /\ DOMAIN buffer = 1..Len(buffer)
      /\ Len(buffer) <= Len(buffer')
      /\ \A i \in DOMAIN buffer' \ DOMAIN buffer :
            i = Len(buffer) + 1 /\ buffer'[i] = u /\ then = "buffered"
      /\ then = "buffered" => \E i \in DOMAIN buffer' : buffer'[i] = u
  <2>1. CASE then = "buffered"
    <3>1. buffer' = Append(buffer, u)
      BY <1>1, <2>1
    <3>2. /\ Len(buffer') = Len(buffer) + 1 /\ buffer' \in Seq(Uses)
          /\ \A i \in 1..Len(buffer) : buffer'[i] = buffer[i]
          /\ buffer'[Len(buffer) + 1] = u
      BY <1>3, <3>1, AppendProperties
    <3> QED
      BY <1>3, <2>1, <3>2, LenProperties
  <2>2. CASE then # "buffered"
    BY <1>1, <1>3, <2>2, LenProperties
  <2> QED
    BY <2>1, <2>2
<1>7. /\ doubted' \subseteq Uses
      /\ u \notin doubted' => answer # "lost"
      /\ \A v \in Uses \ {u} : v \in doubted' <=> v \in doubted
      /\ doubted \subseteq doubted'
  BY <1>2, <1>3 DEF Doubt
<1>8. UsageTypeOK'
  <2>1. recording' \in [Uses -> {"idle", "storing", "saved", "buffered", "thrown"}]
    BY <1>1, <1>3
  <2> QED
    BY <1>2, <1>4, <1>6, <1>7, <2>1 DEF UsageInv, UsageTypeOK
<1>9. /\ \A v \in Uses \ {u} : recording'[v] = recording[v]
      /\ recording'[u] = then
  BY <1>1, <1>3
<1>10. PlacesAreKept'
  <2>1. (\A v \in Uses :
          /\ recording[v] \in {"idle", "storing", "thrown"} => rowsOf[v] = 0
          /\ recording[v] = "saved" => rowsOf[v] = 1
          /\ rowsOf[v] > 0 => MeasurementOK(UseOf[v].cost)
          /\ recording[v] \in {"storing", "buffered"} => MeasurementOK(UseOf[v].cost))'
    <3> SUFFICES ASSUME NEW v \in Uses
                 PROVE  /\ recording'[v] \in {"idle", "storing", "thrown"} => rowsOf'[v] = 0
                        /\ recording'[v] = "saved" => rowsOf'[v] = 1
                        /\ rowsOf'[v] > 0 => MeasurementOK(UseOf[v].cost)
                        /\ recording'[v] \in {"storing", "buffered"} =>
                              MeasurementOK(UseOf[v].cost)
      OBVIOUS
    <3>1. CASE v = u
      BY <1>1, <1>4, <1>5, <1>9, <3>1
    <3>2. CASE v # u
      BY <1>4, <1>9, <3>2 DEF UsageInv, PlacesAreKept
    <3> QED
      BY <3>1, <3>2
  <2>2. (\A i \in DOMAIN buffer : recording[buffer[i]] = "buffered")'
    <3> SUFFICES ASSUME NEW i \in DOMAIN buffer' PROVE recording'[buffer'[i]] = "buffered"
      OBVIOUS
    <3>1. CASE i \in DOMAIN buffer
      <4>1. buffer'[i] = buffer[i] /\ buffer[i] \in Uses \ {u} /\ recording[buffer[i]] = "buffered"
        BY <1>5, <1>6, <3>1, BufferIs DEF UsageInv, PlacesAreKept
      <4> QED
        BY <1>9, <4>1
    <3>2. CASE i \notin DOMAIN buffer
      BY <1>6, <1>9, <3>2
    <3> QED
      BY <3>1, <3>2
  <2>3. (\A f \in Flushers : On(f) =>
          /\ recording[flushing[f].event] = "buffered"
          /\ \A i \in DOMAIN flushing[f].failing :
                recording[flushing[f].failing[i]] = "buffered")'
    <3> SUFFICES ASSUME NEW f \in Flushers, On(f)
                 PROVE  /\ recording'[flushing[f].event] = "buffered"
                        /\ \A i \in DOMAIN flushing[f].failing :
                              recording'[flushing[f].failing[i]] = "buffered"
      BY <1>2 DEF On
    <3>1. /\ recording[flushing[f].event] = "buffered" /\ flushing[f].event \in Uses
          /\ \A i \in DOMAIN flushing[f].failing :
                recording[flushing[f].failing[i]] = "buffered"
                /\ flushing[f].failing[i] \in Uses
      BY BufferIs DEF UsageInv, PlacesAreKept
    <3>2. \A v \in Uses : recording[v] = "buffered" => recording'[v] = "buffered"
      BY <1>2, <1>9
    <3> QED
      BY <3>1, <3>2
  <2> QED
    BY <2>1, <2>2, <2>3 DEF PlacesAreKept
<1>11. ASSUME ~crossed PROVE AloneInv'
  <2>0. AloneInv
    BY <1>11 DEF UsageInv
  <2>1. (\A f, g \in Flushers : On(f) /\ On(g) => f = g)'
    BY <1>2, <2>0 DEF AloneInv, On
  <2>2. (\A i, j \in DOMAIN buffer : buffer[i] = buffer[j] => i = j)'
    <3> SUFFICES ASSUME NEW i \in DOMAIN buffer', NEW j \in DOMAIN buffer', buffer'[i] = buffer'[j]
                 PROVE  i = j
      OBVIOUS
    <3>1. \A k \in DOMAIN buffer' : k \in DOMAIN buffer <=> buffer'[k] # u
      BY <1>5, <1>6
    <3>2. CASE buffer'[i] = u
      <4>1. i \notin DOMAIN buffer /\ j \notin DOMAIN buffer
        BY <3>1, <3>2
      <4> QED
        BY <1>6, <4>1
    <3>3. CASE buffer'[i] # u
      BY <1>6, <2>0, <3>1, <3>3 DEF AloneInv
    <3> QED
      BY <3>2, <3>3
  <2>3. \A v \in Uses \ {u} : rowsOf'[v] = rowsOf[v] /\ (v \in doubted' <=> v \in doubted)
    <3> SUFFICES ASSUME NEW v \in Uses \ {u}
                 PROVE  rowsOf'[v] = rowsOf[v] /\ (v \in doubted' <=> v \in doubted)
      OBVIOUS
    <3>1. rowsOf'[v] = rowsOf[v]
      BY <1>4
    <3>2. v \in doubted' <=> v \in doubted
      BY <1>7
    <3> QED
      BY <3>1, <3>2
  <2>4. then = "buffered" /\ u \notin doubted' => rowsOf'[u] = 0
    BY <1>1, <1>4, <1>5, <1>7
  <2>5. \A i \in DOMAIN buffer : buffer[i] \in Uses \ {u}
    BY <1>5, BufferIs DEF UsageInv
  <2>6. (\A f \in Flushers : On(f) => FlushIsSound(f))'
    <3> SUFFICES ASSUME NEW f \in Flushers, On(f)
                 PROVE  FlushIsSound(f)'
      BY <1>2 DEF On
    <3>1. FlushIsSound(f) /\ flushing' = flushing
      BY <1>2, <2>0 DEF AloneInv
    <3> DEFINE at == flushing[f].next - 1
               failing == flushing[f].failing
    <3>2. /\ at \in 1..Len(buffer) /\ flushing[f].event = buffer[at]
          /\ at \in 1..Len(buffer') /\ flushing[f].event = buffer'[at]
      BY <1>6, <3>1 DEF FlushIsSound
    <3>3. \A i \in 1..(at - 1) : /\ i \in DOMAIN buffer /\ buffer'[i] = buffer[i]
                                 /\ buffer[i] \in Uses \ {u}
      BY <1>6, <2>5, <3>2
    <3>4. \A i \in 1..(at - 1) :
             /\ rowsOf'[buffer'[i]] >= 1 \/ \E k \in DOMAIN failing : failing[k] = buffer'[i]
             /\ buffer'[i] \notin doubted' /\ (\E k \in DOMAIN failing : failing[k] = buffer'[i])
                   => rowsOf'[buffer'[i]] = 0
      BY <2>3, <3>1, <3>3 DEF FlushIsSound
    <3>5. \A i \in at..Len(buffer') : buffer'[i] \notin doubted' => rowsOf'[buffer'[i]] = 0
      <4> SUFFICES ASSUME NEW i \in at..Len(buffer'), buffer'[i] \notin doubted'
                   PROVE  rowsOf'[buffer'[i]] = 0
        OBVIOUS
      <4>1. i \in DOMAIN buffer' /\ (i \in DOMAIN buffer => i \in at..Len(buffer))
        BY <1>6, <3>2
      <4>2. CASE i \in DOMAIN buffer
        BY <1>6, <2>3, <2>5, <3>1, <4>1, <4>2 DEF FlushIsSound
      <4>3. CASE i \notin DOMAIN buffer
        BY <1>6, <2>4, <4>1, <4>3
      <4> QED
        BY <4>2, <4>3
    <3>6. \A k \in DOMAIN failing : \E i \in 1..(at - 1) : failing[k] = buffer'[i]
      BY <3>1, <3>3 DEF FlushIsSound
    <3>7. \A j, k \in DOMAIN failing : failing[j] = failing[k] => j = k
      BY <3>1 DEF FlushIsSound
    <3> QED
      BY <3>1, <3>2, <3>4, <3>5, <3>6, <3>7 DEF FlushIsSound
  <2>7. ((\A f \in Flushers : ~On(f)) =>
          \A i \in DOMAIN buffer : buffer[i] \notin doubted => rowsOf[buffer[i]] = 0)'
    <3> SUFFICES ASSUME \A f \in Flushers : ~On(f),
                        NEW i \in DOMAIN buffer', buffer'[i] \notin doubted'
                 PROVE  rowsOf'[buffer'[i]] = 0
      BY <1>2 DEF On
    <3>1. CASE i \in DOMAIN buffer
      BY <1>6, <2>0, <2>3, <2>5, <3>1 DEF AloneInv
    <3>2. CASE i \notin DOMAIN buffer
      BY <1>6, <2>4, <3>2
    <3> QED
      BY <3>1, <3>2
  <2>8. NothingLost'
    <3> SUFFICES ASSUME NEW v \in Uses, recording'[v] = "buffered"
                 PROVE  /\ rowsOf'[v] >= 1 \/ \E i \in DOMAIN buffer' : buffer'[i] = v
                        /\ v \notin doubted' => rowsOf'[v] <= 1
      BY DEF NothingLost
    <3>1. CASE v = u
      BY <1>6, <1>9, <2>4, <3>1
    <3>2. CASE v # u
      <4>1. /\ rowsOf[v] >= 1 \/ \E i \in DOMAIN buffer : buffer[i] = v
            /\ v \notin doubted => rowsOf[v] <= 1
        BY <1>9, <2>0, <3>2 DEF AloneInv, NothingLost
      <4> QED
        BY <1>6, <2>3, <3>2, <4>1
    <3> QED
      BY <3>1, <3>2
  <2> QED
    BY <2>1, <2>2, <2>6, <2>7, <2>8 DEF AloneInv
<1> QED
  BY <1>2, <1>8, <1>10, <1>11 DEF UsageInv

LEMMA StartFlushStep ==
    ASSUME UsageInv, NEW f \in Flushers, StartFlush(f)
    PROVE  UsageInv'
<1>1. /\ ~On(f) /\ buffer # <<>>
      /\ flushing' = [flushing EXCEPT ![f] = [on |-> TRUE, next |-> 2, event |-> buffer[1],
                                              failing |-> <<>>]]
      /\ crossed' = (crossed \/ \E g \in Flushers \ {f} : On(g))
      /\ UNCHANGED <<recorder, rowsOf, buffer, recording, doubted>>
  BY DEF StartFlush, On
<1>2. /\ Len(buffer) \in Nat /\ DOMAIN buffer = 1..Len(buffer) /\ 1 \in DOMAIN buffer
      /\ buffer[1] \in Uses /\ buffer \in Seq(Uses)
  <2>1. buffer \in Seq(Uses)
    BY DEF UsageInv, UsageTypeOK
  <2>2. Len(buffer) # 0
    BY <1>1, <2>1, EmptySeq
  <2> QED
    BY <2>1, <2>2, BufferIs DEF UsageInv
<1>3. DOMAIN flushing = Flushers
  BY DEF UsageInv, UsageTypeOK
<1>4. /\ On(f)' /\ flushing'[f].next = 2 /\ flushing'[f].event = buffer[1]
      /\ flushing'[f].failing = <<>>
      /\ flushing'[f] \in [on : {TRUE}, next : Nat \ {0}, event : Uses, failing : Seq(Uses)]
      /\ \A g \in Flushers \ {f} : flushing'[g] = flushing[g] /\ (On(g)' <=> On(g))
  <2>1. flushing'[f] = [on |-> TRUE, next |-> 2, event |-> buffer[1], failing |-> <<>>]
    BY <1>1, <1>3
  <2>2. \A g \in Flushers \ {f} : flushing'[g] = flushing[g]
    BY <1>1, <1>3
  <2>3. <<>> \in Seq(Uses)
    BY EmptySeq
  <2> QED
    BY <1>2, <2>1, <2>2, <2>3 DEF On
<1>5. UsageTypeOK'
  <2>1. flushing' \in [Flushers -> {NotFlushing} \cup
                       [on : {TRUE}, next : Nat \ {0}, event : Uses, failing : Seq(Uses)]]
    BY <1>1, <1>4 DEF UsageInv, UsageTypeOK
  <2>2. crossed' \in BOOLEAN
    BY <1>1 DEF UsageInv, UsageTypeOK
  <2> QED
    BY <1>1, <2>1, <2>2 DEF UsageInv, UsageTypeOK
<1>6. PlacesAreKept'
  <2>1. (\A g \in Flushers : On(g) =>
          /\ recording[flushing[g].event] = "buffered"
          /\ \A i \in DOMAIN flushing[g].failing :
                recording[flushing[g].failing[i]] = "buffered")'
    <3> SUFFICES ASSUME NEW g \in Flushers, On(g)'
                 PROVE  /\ recording'[flushing'[g].event] = "buffered"
                        /\ \A i \in DOMAIN flushing'[g].failing :
                              recording'[flushing'[g].failing[i]] = "buffered"
      OBVIOUS
    <3>1. CASE g = f
      <4>1. DOMAIN flushing'[g].failing = {}
        BY <1>4, <3>1
      <4> QED
        BY <1>1, <1>2, <1>4, <3>1, <4>1 DEF UsageInv, PlacesAreKept
    <3>2. CASE g # f
      BY <1>1, <1>4, <3>2 DEF UsageInv, PlacesAreKept
    <3> QED
      BY <3>1, <3>2
  <2> QED
    BY <1>1, <2>1 DEF UsageInv, PlacesAreKept
<1>7. ASSUME ~crossed' PROVE AloneInv'
  <2>1. /\ AloneInv /\ \A g \in Flushers : ~On(g)
        /\ \A g \in Flushers : On(g)' => g = f
    BY <1>1, <1>4, <1>7 DEF UsageInv
  <2>2. FlushIsSound(f)'
    <3>1. /\ 1 \in 1..Len(buffer) /\ 1..(1 - 1) = {} /\ flushing'[f].next - 1 = 1
          /\ DOMAIN flushing'[f].failing = {}
      BY <1>2, <1>4
    <3>2. \A i \in 1..Len(buffer) : buffer[i] \notin doubted => rowsOf[buffer[i]] = 0
      BY <1>2, <2>1 DEF AloneInv
    <3> QED
      BY <1>1, <1>4, <3>1, <3>2 DEF FlushIsSound
  <2>3. (\A g \in Flushers : On(g) => FlushIsSound(g))'
    BY <2>1, <2>2
  <2>4. (\A g, h \in Flushers : On(g) /\ On(h) => g = h)'
    BY <2>1
  <2>5. (\A i, j \in DOMAIN buffer : buffer[i] = buffer[j] => i = j)' /\ NothingLost'
    BY <1>1, <2>1 DEF AloneInv, NothingLost
  <2>6. ~(\A g \in Flushers : ~On(g))'
    BY <1>4
  <2> QED
    BY <2>3, <2>4, <2>5, <2>6 DEF AloneInv
<1> QED
  BY <1>5, <1>6, <1>7 DEF UsageInv

\* An answer to a flush ends it with the buffer as it was, takes it to the next
\* event, or ends it with what failed.
FlushEnds(f) ==
    /\ rowsOf' = rowsOf /\ buffer' = buffer
    /\ flushing' = [flushing EXCEPT ![f] = NotFlushing]
    /\ doubted' = doubted \cup {v \in ToSet(buffer) : rowsOf[v] > 0}

FlushGoesOn(f, failing) ==
    /\ flushing[f].next <= Len(buffer) /\ buffer' = buffer
    /\ flushing' = [flushing EXCEPT
            ![f] = [on |-> TRUE, next |-> flushing[f].next + 1,
                    event |-> buffer[flushing[f].next], failing |-> failing]]

FlushIsOver(f, failing) ==
    /\ ~(flushing[f].next <= Len(buffer)) /\ buffer' = failing
    /\ flushing' = [flushing EXCEPT ![f] = NotFlushing]

LEMMA FlushCases ==
    ASSUME NEW f \in Flushers, NEW answer \in StoreAnswers, FlushAnswered(f, answer),
           UsageTypeOK
    PROVE  /\ On(f) /\ InsertUse(flushing[f].event, answer)
           /\ UNCHANGED <<recorder, recording, crossed>>
           /\ \/ FlushEnds(f)
              \/ \E failing \in {flushing[f].failing,
                                 Append(flushing[f].failing, flushing[f].event)} :
                    /\ failing = flushing[f].failing <=> answer = "ok"
                    /\ FlushGoesOn(f, failing) \/ FlushIsOver(f, failing)
                    /\ doubted' = doubted \cup Doubt(flushing[f].event, answer)
<1>1. /\ On(f) /\ InsertUse(flushing[f].event, answer)
      /\ UNCHANGED <<recorder, recording, crossed>>
  BY DEF FlushAnswered, On
<1>2. CASE answer = "rejected" /\ recorder = "metrics"
  BY <1>1, <1>2 DEF FlushAnswered, FlushEnds, InsertUse
<1>3. CASE ~(answer = "rejected" /\ recorder = "metrics")
  <2>1. PICK failing \in {flushing[f].failing,
                          Append(flushing[f].failing, flushing[f].event)} :
           failing = IF answer = "ok" THEN flushing[f].failing
                     ELSE Append(flushing[f].failing, flushing[f].event)
    OBVIOUS
  <2>2. /\ GoOnFlushing(f, failing)
        /\ doubted' = doubted \cup Doubt(flushing[f].event, answer)
    BY <1>3, <2>1 DEF FlushAnswered
  <2>3. flushing[f].failing # Append(flushing[f].failing, flushing[f].event)
    <3>1. flushing[f].failing \in Seq(Uses) /\ flushing[f].event \in Uses
      BY <1>1, BufferIs
    <3>2. Len(flushing[f].failing) # Len(Append(flushing[f].failing, flushing[f].event))
      BY <3>1, AppendProperties, LenProperties
    <3> QED
      BY <3>2
  <2>4. f \in DOMAIN flushing
    BY DEF UsageTypeOK
  <2>5. FlushGoesOn(f, failing) \/ FlushIsOver(f, failing)
    BY <2>2, <2>4 DEF GoOnFlushing, FlushGoesOn, FlushIsOver
  <2> QED
    BY <1>1, <2>1, <2>2, <2>3, <2>5
<1> QED
  BY <1>2, <1>3

\* What has failed, with one more, is of events once each.
LEMMA FailingIs ==
    ASSUME NEW failing \in Seq(Uses), NEW u \in Uses, NEW longer \in Seq(Uses),
           longer = failing \/ longer = Append(failing, u)
    PROVE  /\ \A k \in DOMAIN longer : longer[k] = u \/ \E j \in DOMAIN failing : longer[k] = failing[j]
           /\ \A j \in DOMAIN failing : \E k \in DOMAIN longer : longer[k] = failing[j]
           /\ longer # failing => \E k \in DOMAIN longer : longer[k] = u
           /\ (\A j \in DOMAIN failing : failing[j] # u)
              /\ (\A j, k \in DOMAIN failing : failing[j] = failing[k] => j = k)
              => \A j, k \in DOMAIN longer : longer[j] = longer[k] => j = k
<1>1. /\ Append(failing, u) \in Seq(Uses) /\ Len(failing) \in Nat
      /\ DOMAIN failing = 1..Len(failing)
      /\ DOMAIN Append(failing, u) = 1..(Len(failing) + 1)
      /\ \A i \in 1..Len(failing) : Append(failing, u)[i] = failing[i]
      /\ Append(failing, u)[Len(failing) + 1] = u
  BY AppendProperties, LenProperties
<1>2. CASE longer = failing
  BY <1>2
<1>3. CASE longer = Append(failing, u)
  <2>1. /\ longer \in Seq(Uses) /\ DOMAIN longer = 1..(Len(failing) + 1)
        /\ \A i \in DOMAIN failing : i \in DOMAIN longer /\ longer[i] = failing[i]
        /\ Len(failing) + 1 \in DOMAIN longer /\ longer[Len(failing) + 1] = u
        /\ \A i \in DOMAIN longer : i \in DOMAIN failing \/ i = Len(failing) + 1
    BY <1>1, <1>3
  <2>2. (\A j \in DOMAIN failing : failing[j] # u)
        /\ (\A j, k \in DOMAIN failing : failing[j] = failing[k] => j = k)
        => \A j, k \in DOMAIN longer : longer[j] = longer[k] => j = k
    <3> SUFFICES ASSUME \A j \in DOMAIN failing : failing[j] # u,
                        \A j, k \in DOMAIN failing : failing[j] = failing[k] => j = k,
                        NEW j \in DOMAIN longer, NEW k \in DOMAIN longer, longer[j] = longer[k]
                 PROVE  j = k
      OBVIOUS
    <3> QED
      BY <2>1
  <2>3. \A k \in DOMAIN longer :
           longer[k] = u \/ \E j \in DOMAIN failing : longer[k] = failing[j]
    BY <2>1
  <2>4. \A j \in DOMAIN failing : \E k \in DOMAIN longer : longer[k] = failing[j]
    BY <2>1
  <2>5. \E k \in DOMAIN longer : longer[k] = u
    BY <2>1
  <2> QED
    BY <2>1, <2>2, <2>3, <2>4, <2>5
<1> QED
  BY <1>2, <1>3

\* What a flush reaches was retained, whatever it still goes through.
FlushPlaced(f) ==
    /\ buffer \in Seq(Uses)
    /\ \A i \in DOMAIN buffer : recording[buffer[i]] = "buffered"
    /\ flushing \in [Flushers -> {NotFlushing} \cup
                        [on : {TRUE}, next : Nat \ {0}, event : Uses, failing : Seq(Uses)]]
    /\ On(f) => /\ recording[flushing[f].event] = "buffered"
                /\ \A i \in DOMAIN flushing[f].failing :
                      recording[flushing[f].failing[i]] = "buffered"

LEMMA FlushPlaces ==
    ASSUME UsageInv, NEW f \in Flushers, NEW answer \in StoreAnswers, FlushAnswered(f, answer)
    PROVE  UsageTypeOK' /\ PlacesAreKept'
<1>a. On(f)
  BY FlushCases DEF UsageInv
<1>u. PICK u \in Uses : u = flushing[f].event
  BY <1>a, BufferIs DEF UsageInv
<1>d. PICK failed \in Seq(Uses) : failed = flushing[f].failing
  BY <1>a, BufferIs DEF UsageInv
<1>1. /\ On(f) /\ InsertUse(u, answer) /\ UNCHANGED <<recorder, recording, crossed>>
      /\ \/ FlushEnds(f)
         \/ \E failing \in {failed, Append(failed, u)} :
               /\ FlushGoesOn(f, failing) \/ FlushIsOver(f, failing)
               /\ doubted' = doubted \cup Doubt(u, answer)
  BY <1>u, <1>d, FlushCases DEF UsageInv
<1>2. /\ flushing[f].next \in Nat \ {0}
      /\ recording[u] = "buffered"
      /\ \A i \in DOMAIN failed : recording[failed[i]] = "buffered"
      /\ doubted \subseteq Uses /\ DOMAIN flushing = Flushers
      /\ DOMAIN buffer = 1..Len(buffer) /\ Len(buffer) \in Nat /\ buffer \in Seq(Uses)
      /\ \A i \in DOMAIN buffer : buffer[i] \in Uses /\ recording[buffer[i]] = "buffered"
      /\ recording \in [Uses -> {"idle", "storing", "saved", "buffered", "thrown"}]
  BY <1>1, <1>u, <1>d, BufferIs DEF UsageInv, PlacesAreKept, UsageTypeOK
<1>3. /\ rowsOf' \in [Uses -> 0..MaxCopies]
      /\ \A v \in Uses \ {u} : rowsOf'[v] = rowsOf[v]
  BY <1>1, <1>2, InsertIs DEF UsageInv
<1>4. \A v \in Uses : /\ recording[v] \in {"idle", "storing", "thrown"} => rowsOf'[v] = 0
                      /\ recording[v] = "saved" => rowsOf'[v] = 1
                      /\ rowsOf'[v] > 0 => MeasurementOK(UseOf[v].cost)
                      /\ recording[v] \in {"storing", "buffered"} => MeasurementOK(UseOf[v].cost)
  <2> SUFFICES ASSUME NEW v \in Uses
               PROVE  /\ recording[v] \in {"idle", "storing", "thrown"} => rowsOf'[v] = 0
                      /\ recording[v] = "saved" => rowsOf'[v] = 1
                      /\ rowsOf'[v] > 0 => MeasurementOK(UseOf[v].cost)
                      /\ recording[v] \in {"storing", "buffered"} => MeasurementOK(UseOf[v].cost)
    OBVIOUS
  <2>1. CASE v = u
    BY <1>2, <2>1 DEF UsageInv, PlacesAreKept
  <2>2. CASE v # u
    BY <1>3, <2>2 DEF UsageInv, PlacesAreKept
  <2> QED
    BY <2>1, <2>2
<1>6. doubted' \subseteq Uses
  <2>1. ToSet(buffer) \subseteq Uses
    BY <1>2 DEF ToSet
  <2> QED
    BY <1>1, <1>2, <2>1 DEF FlushEnds, Doubt
<1>7. ASSUME NEW longer \in {failed, Append(failed, u)}
      PROVE  /\ longer \in Seq(Uses)
             /\ \A k \in DOMAIN longer : recording[longer[k]] = "buffered"
  <2>1. /\ longer \in Seq(Uses)
        /\ \A k \in DOMAIN longer :
              longer[k] = u \/ \E j \in DOMAIN failed : longer[k] = failed[j]
    <3>1. /\ failed \in Seq(Uses) /\ u \in Uses
          /\ longer = failed \/ longer = Append(failed, u)
      BY <1>u, <1>d, <1>7
    <3>2. longer \in Seq(Uses)
      BY <3>1, AppendProperties
    <3> QED
      BY <3>1, <3>2, FailingIs
  <2>2. ASSUME NEW k \in DOMAIN longer
        PROVE  recording[longer[k]] = "buffered"
    BY <1>2, <2>1, <2>2
  <2> QED
    BY <2>1, <2>2
<1>8. FlushPlaced(f)'
  <2>0. flushing \in [Flushers -> {NotFlushing} \cup
                        [on : {TRUE}, next : Nat \ {0}, event : Uses, failing : Seq(Uses)]]
    BY DEF UsageInv, UsageTypeOK
  <2>1. CASE FlushEnds(f)
    BY <1>1, <1>2, <2>0, <2>1 DEF FlushEnds, FlushPlaced, On, NotFlushing
  <2>2. ASSUME NEW longer \in {failed, Append(failed, u)},
               FlushIsOver(f, longer)
        PROVE  FlushPlaced(f)'
    BY <1>1, <1>2, <1>7, <2>0, <2>2 DEF FlushIsOver, FlushPlaced, On, NotFlushing
  <2>3. ASSUME NEW longer \in {failed, Append(failed, u)},
               FlushGoesOn(f, longer)
        PROVE  FlushPlaced(f)'
    <3>0. flushing[f].next <= Len(buffer)
      BY <2>3 DEF FlushGoesOn
    <3>1. flushing[f].next \in DOMAIN buffer
      BY <1>2, <3>0
    <3>2. PICK on \in [on : {TRUE}, next : Nat \ {0}, event : Uses, failing : Seq(Uses)] :
             /\ flushing' = [flushing EXCEPT ![f] = on]
             /\ on.event = buffer[flushing[f].next] /\ on.failing = longer
      <4> DEFINE on == [on |-> TRUE, next |-> flushing[f].next + 1,
                        event |-> buffer[flushing[f].next], failing |-> longer]
      <4>1. flushing' = [flushing EXCEPT ![f] = on]
        BY <2>3 DEF FlushGoesOn
      <4>2. on \in [on : {TRUE}, next : Nat \ {0}, event : Uses, failing : Seq(Uses)]
        <5>1. flushing[f].next + 1 \in Nat \ {0} /\ buffer[flushing[f].next] \in Uses
          BY <1>2, <3>1
        <5>2. longer \in Seq(Uses)
          BY <1>7
        <5> QED
          BY <5>1, <5>2
      <4> QED
        BY <4>1, <4>2
    <3>3. flushing'[f] = on
      BY <1>2, <3>2
    <3>4. /\ recording[on.event] = "buffered"
          /\ \A i \in DOMAIN on.failing : recording[on.failing[i]] = "buffered"
      <4>1. recording[buffer[flushing[f].next]] = "buffered"
        BY <1>2, <3>1
      <4> QED
        BY <1>7, <3>2, <4>1
    <3>5. flushing' \in [Flushers -> {NotFlushing} \cup
                        [on : {TRUE}, next : Nat \ {0}, event : Uses, failing : Seq(Uses)]]
      BY <2>0, <3>2
    <3> QED
      BY <1>1, <1>2, <2>3, <3>3, <3>4, <3>5 DEF FlushGoesOn, FlushPlaced
  <2> QED
    BY <1>1, <2>1, <2>2, <2>3
<1>9. \A g \in Flushers \ {f} : flushing'[g] = flushing[g]
  BY <1>1, <1>2 DEF FlushEnds, FlushGoesOn, FlushIsOver
<1>10. UsageTypeOK'
  BY <1>1, <1>3, <1>6, <1>8 DEF UsageInv, UsageTypeOK, FlushPlaced
<1>11. (\A g \in Flushers : On(g) =>
          /\ recording[flushing[g].event] = "buffered"
          /\ \A i \in DOMAIN flushing[g].failing :
                recording[flushing[g].failing[i]] = "buffered")'
  <2> SUFFICES ASSUME NEW g \in Flushers, On(g)'
               PROVE  (/\ recording[flushing[g].event] = "buffered"
                       /\ \A i \in DOMAIN flushing[g].failing :
                             recording[flushing[g].failing[i]] = "buffered")'
    OBVIOUS
  <2>1. CASE g = f
    BY <1>8, <2>1 DEF FlushPlaced, On
  <2>2. CASE g # f
    BY <1>1, <1>9, <2>2 DEF UsageInv, PlacesAreKept, On
  <2> QED
    BY <2>1, <2>2
<1>12. (\A i \in DOMAIN buffer : recording[buffer[i]] = "buffered")'
  BY <1>8 DEF FlushPlaced
<1>13. (\A v \in Uses :
          /\ recording[v] \in {"idle", "storing", "thrown"} => rowsOf[v] = 0
          /\ recording[v] = "saved" => rowsOf[v] = 1
          /\ rowsOf[v] > 0 => MeasurementOK(UseOf[v].cost)
          /\ recording[v] \in {"storing", "buffered"} => MeasurementOK(UseOf[v].cost))'
  <2> SUFFICES ASSUME NEW v \in Uses
               PROVE  /\ recording'[v] \in {"idle", "storing", "thrown"} => rowsOf'[v] = 0
                      /\ recording'[v] = "saved" => rowsOf'[v] = 1
                      /\ rowsOf'[v] > 0 => MeasurementOK(UseOf[v].cost)
                      /\ recording'[v] \in {"storing", "buffered"} =>
                            MeasurementOK(UseOf[v].cost)
    OBVIOUS
  <2>1. recording' = recording
    BY <1>1
  <2>2. /\ recording[v] \in {"idle", "storing", "thrown"} => rowsOf'[v] = 0
        /\ recording[v] = "saved" => rowsOf'[v] = 1
        /\ rowsOf'[v] > 0 => MeasurementOK(UseOf[v].cost)
        /\ recording[v] \in {"storing", "buffered"} => MeasurementOK(UseOf[v].cost)
    BY <1>4, Zenon
  <2> QED
    BY <2>1, <2>2
<1> QED
  BY <1>10, <1>11, <1>12, <1>13 DEF PlacesAreKept

\* What a lone flush has gone through, after the answer for its event u at `at`.
FlushedUpTo(at, longer) ==
    /\ \A i \in 1..at :
          /\ rowsOf[buffer[i]] >= 1 \/ \E k \in DOMAIN longer : longer[k] = buffer[i]
          /\ buffer[i] \notin doubted /\ (\E k \in DOMAIN longer : longer[k] = buffer[i])
                => rowsOf[buffer[i]] = 0
    /\ \A i \in (at + 1)..Len(buffer) : buffer[i] \notin doubted => rowsOf[buffer[i]] = 0
    /\ \A k \in DOMAIN longer : \E i \in 1..at : longer[k] = buffer[i]
    /\ \A j, k \in DOMAIN longer : longer[j] = longer[k] => j = k

LEMMA FlushAlone ==
    ASSUME UsageInv, NEW f \in Flushers, NEW answer \in StoreAnswers, FlushAnswered(f, answer),
           ~crossed
    PROVE  AloneInv'
<1>0. AloneInv /\ UsageTypeOK
  BY DEF UsageInv
<1>a. On(f)
  BY <1>0, FlushCases
<1>u. PICK u \in Uses : u = flushing[f].event
  BY <1>0, <1>a, BufferIs
<1>d. PICK failed \in Seq(Uses) : failed = flushing[f].failing
  BY <1>0, <1>a, BufferIs
<1>1. /\ InsertUse(u, answer) /\ UNCHANGED <<recorder, recording, crossed>>
      /\ \/ FlushEnds(f)
         \/ \E longer \in {failed, Append(failed, u)} :
               /\ longer = failed <=> answer = "ok"
               /\ FlushGoesOn(f, longer) \/ FlushIsOver(f, longer)
               /\ doubted' = doubted \cup Doubt(u, answer)
  BY <1>0, <1>u, <1>d, FlushCases
<1>2. PICK at \in 1..Len(buffer) : at = flushing[f].next - 1
  BY <1>0, <1>a DEF AloneInv, FlushIsSound
<1>3. /\ at \in DOMAIN buffer /\ u = buffer[at]
      /\ DOMAIN buffer = 1..Len(buffer) /\ Len(buffer) \in Nat
      /\ \A i \in DOMAIN buffer : buffer[i] \in Uses
      /\ \A i, j \in DOMAIN buffer : buffer[i] = buffer[j] => i = j
      /\ \A g \in Flushers : On(g) => g = f
  BY <1>0, <1>a, <1>u, <1>2, BufferIs DEF AloneInv, FlushIsSound
<1>4. /\ \A i \in 1..(at - 1) :
            /\ rowsOf[buffer[i]] >= 1 \/ \E k \in DOMAIN failed : failed[k] = buffer[i]
            /\ buffer[i] \notin doubted /\ (\E k \in DOMAIN failed : failed[k] = buffer[i])
                  => rowsOf[buffer[i]] = 0
      /\ \A i \in at..Len(buffer) : buffer[i] \notin doubted => rowsOf[buffer[i]] = 0
      /\ \A k \in DOMAIN failed : \E i \in 1..(at - 1) : failed[k] = buffer[i]
      /\ \A j, k \in DOMAIN failed : failed[j] = failed[k] => j = k
  <2>1. FlushIsSound(f)
    BY <1>0, <1>a DEF AloneInv
  <2> QED
    BY <1>d, <1>2, <2>1 DEF FlushIsSound
<1>5. /\ rowsOf' \in [Uses -> 0..MaxCopies]
      /\ \A v \in Uses \ {u} : rowsOf'[v] = rowsOf[v]
      /\ answer \in {"ok", "lost"} => rowsOf'[u] = rowsOf[u] + 1
      /\ answer \notin {"ok", "lost"} => rowsOf'[u] = rowsOf[u]
      /\ \A v \in Uses : rowsOf[v] \in Nat /\ rowsOf'[v] \in Nat /\ rowsOf[v] <= rowsOf'[v]
  BY <1>0, <1>1, <1>u, InsertIs
<1>6. DOMAIN flushing = Flushers
  BY <1>0 DEF UsageTypeOK
<1>7. CASE FlushEnds(f)
  <2>1. \A g \in Flushers : ~On(g)'
    BY <1>3, <1>6, <1>7 DEF FlushEnds, On, NotFlushing
  <2>2. /\ \A i \in DOMAIN buffer : buffer[i] \notin doubted' => rowsOf[buffer[i]] = 0
        /\ doubted \subseteq doubted'
    <3>1. \A i \in DOMAIN buffer : buffer[i] \in ToSet(buffer)
      BY DEF ToSet
    <3>2. \A i \in DOMAIN buffer : rowsOf[buffer[i]] \in Nat
      BY <1>3, <1>5
    <3> QED
      BY <1>7, <3>1, <3>2 DEF FlushEnds
  <2>3. NothingLost'
    BY <1>0, <1>1, <1>7, <2>2 DEF AloneInv, NothingLost, FlushEnds
  <2> QED
    BY <1>3, <1>7, <2>1, <2>2, <2>3 DEF AloneInv, FlushEnds
<1>8. ASSUME NEW longer \in {failed, Append(failed, u)},
             longer = failed <=> answer = "ok",
             FlushGoesOn(f, longer) \/ FlushIsOver(f, longer),
             doubted' = doubted \cup Doubt(u, answer)
      PROVE  AloneInv'
  <2>1. \A i \in DOMAIN buffer : i # at => buffer[i] \in Uses \ {u}
    BY <1>3
  <2>2. /\ u \notin doubted' => u \notin doubted /\ answer # "lost"
        /\ \A v \in Uses \ {u} : v \in doubted' <=> v \in doubted
    BY <1>8 DEF Doubt
  <2>3. /\ longer \in Seq(Uses)
        /\ \A k \in DOMAIN longer : longer[k] = u \/ \E j \in DOMAIN failed : longer[k] = failed[j]
        /\ \A j \in DOMAIN failed : \E k \in DOMAIN longer : longer[k] = failed[j]
        /\ longer # failed => \E k \in DOMAIN longer : longer[k] = u
        /\ \A j, k \in DOMAIN longer : longer[j] = longer[k] => j = k
    <3>1. longer \in Seq(Uses) /\ (longer = failed \/ longer = Append(failed, u))
      <4>1. longer = failed \/ longer = Append(failed, u)
        BY <1>8
      <4>2. Append(failed, u) \in Seq(Uses)
        BY <1>u, <1>d, AppendProperties
      <4> QED
        BY <1>d, <4>1, <4>2
    <3>2. ASSUME NEW j \in DOMAIN failed PROVE failed[j] # u
      <4>1. PICK i \in 1..(at - 1) : failed[j] = buffer[i]
        BY <1>4
      <4>2. i \in DOMAIN buffer /\ i # at
        BY <1>2, <1>3, <4>1
      <4> QED
        BY <1>3, <4>1, <4>2
    <3> QED
      <4>1. \A j, k \in DOMAIN failed : failed[j] = failed[k] => j = k
        BY <1>4
      <4>2. failed \in Seq(Uses) /\ u \in Uses
        BY <1>u, <1>d
      <4>3. /\ \A k \in DOMAIN longer : longer[k] = u \/ \E j \in DOMAIN failed : longer[k] = failed[j]
            /\ \A j \in DOMAIN failed : \E k \in DOMAIN longer : longer[k] = failed[j]
            /\ longer # failed => \E k \in DOMAIN longer : longer[k] = u
            /\ (\A j \in DOMAIN failed : failed[j] # u)
               /\ (\A j, k \in DOMAIN failed : failed[j] = failed[k] => j = k)
               => \A j, k \in DOMAIN longer : longer[j] = longer[k] => j = k
        BY <3>1, <4>2, FailingIs
      <4> QED
        BY <3>1, <3>2, <4>1, <4>3
  <2>4. longer = failed => ~\E k \in DOMAIN longer : longer[k] = u
    BY <1>2, <1>3, <1>4
  <2>5. /\ rowsOf'[u] >= 1 \/ \E k \in DOMAIN longer : longer[k] = u
        /\ u \notin doubted' => rowsOf'[u] <= 1
        /\ u \notin doubted' /\ (\E k \in DOMAIN longer : longer[k] = u) => rowsOf'[u] = 0
    <3>1. u \notin doubted => rowsOf[u] = 0
      <4>1. at \in at..Len(buffer)
        BY <1>2, <1>3
      <4> QED
        BY <1>3, <1>4, <4>1
    <3>2. rowsOf[u] \in Nat
      BY <1>5, <1>u
    <3>3. CASE answer = "ok"
      BY <1>5, <1>8, <2>2, <2>4, <3>1, <3>2, <3>3
    <3>4. CASE answer # "ok"
      <4>1. \E k \in DOMAIN longer : longer[k] = u
        BY <1>8, <2>3, <3>4
      <4>2. u \notin doubted' => rowsOf'[u] = 0
        BY <1>5, <2>2, <3>1, <3>4
      <4> QED
        BY <4>1, <4>2
    <3> QED
      BY <3>3, <3>4
  <2>6. ASSUME NEW i \in DOMAIN buffer
        PROVE  /\ i < at => /\ rowsOf'[buffer[i]] >= 1 \/ \E k \in DOMAIN longer : longer[k] = buffer[i]
                            /\ buffer[i] \notin doubted'
                               /\ (\E k \in DOMAIN longer : longer[k] = buffer[i])
                               => rowsOf'[buffer[i]] = 0
               /\ i > at => (buffer[i] \notin doubted' => rowsOf'[buffer[i]] = 0)
    <3> DEFINE v == buffer[i]
    <3>1. CASE i < at
      <4>1. /\ i \in 1..(at - 1) /\ v \in Uses \ {u} /\ rowsOf'[v] = rowsOf[v]
            /\ v \in doubted' <=> v \in doubted
        BY <1>2, <1>3, <1>5, <2>1, <2>2, <3>1
      <4>2. (\E k \in DOMAIN longer : longer[k] = v) <=> (\E k \in DOMAIN failed : failed[k] = v)
        BY <2>3, <4>1
      <4> QED
        BY <1>2, <1>4, <3>1, <4>1, <4>2
    <3>2. CASE i > at
      BY <1>2, <1>3, <1>4, <1>5, <2>1, <2>2, <3>2
    <3>3. CASE i = at
      BY <1>2, <3>3
    <3> QED
      BY <1>2, <1>3, <3>1, <3>2, <3>3
  <2>7. \A k \in DOMAIN longer : \E i \in 1..at : longer[k] = buffer[i]
    <3> SUFFICES ASSUME NEW k \in DOMAIN longer
                 PROVE  \E i \in 1..at : longer[k] = buffer[i]
      OBVIOUS
    <3>1. CASE longer[k] = u
      BY <1>2, <1>3, <3>1
    <3>2. ASSUME NEW j \in DOMAIN failed, longer[k] = failed[j]
          PROVE  \E i \in 1..at : longer[k] = buffer[i]
      <4>1. PICK i \in 1..(at - 1) : failed[j] = buffer[i]
        BY <1>4, <3>2
      <4>2. i \in 1..at
        BY <1>2, <1>3, <4>1
      <4> QED
        BY <3>2, <4>1, <4>2
    <3> QED
      BY <2>3, <3>1, <3>2
  <2>8. ASSUME NEW v \in Uses, recording[v] = "buffered"
        PROVE  /\ rowsOf'[v] >= 1 \/ (\E i \in DOMAIN buffer : buffer[i] = v)
               /\ v \notin doubted' => rowsOf'[v] <= 1
    <3>1. CASE v = u
      BY <1>3, <2>5, <3>1
    <3>2. CASE v # u
      <4>1. rowsOf'[v] = rowsOf[v] /\ (v \in doubted' <=> v \in doubted)
        BY <1>5, <2>2, <3>2
      <4> QED
        BY <1>0, <2>8, <4>1 DEF AloneInv, NothingLost
    <3> QED
      BY <3>1, <3>2
  <2>9. CASE FlushGoesOn(f, longer)
    <3>1. /\ flushing[f].next = at + 1 /\ at + 1 <= Len(buffer) /\ buffer' = buffer
          /\ flushing'[f].next = at + 2 /\ flushing'[f].event = buffer[at + 1]
          /\ flushing'[f].failing = longer
          /\ \A g \in Flushers \ {f} : flushing'[g] = flushing[g]
      <4>1. flushing[f].next = at + 1
        <5>1. flushing[f].next \in Nat
          BY <1>0, <1>a, BufferIs
        <5> QED
          BY <1>2, <5>1
      <4> QED
        BY <1>2, <1>6, <2>9, <4>1 DEF FlushGoesOn
    <3>2. FlushIsSound(f)'
      <4>1. /\ flushing'[f].next - 1 = at + 1 /\ at + 1 \in 1..Len(buffer)
            /\ (at + 1) - 1 = at
        <5>1. at \in Nat \ {0} /\ at + 1 <= Len(buffer) /\ Len(buffer) \in Nat
          BY <1>2, <1>3, <3>1
        <5>2. flushing'[f].next = at + 2
          BY <3>1
        <5> QED
          BY <5>1, <5>2
      <4>2. \A i \in 1..at :
             /\ rowsOf'[buffer[i]] >= 1 \/ \E k \in DOMAIN longer : longer[k] = buffer[i]
             /\ buffer[i] \notin doubted' /\ (\E k \in DOMAIN longer : longer[k] = buffer[i])
                   => rowsOf'[buffer[i]] = 0
        <5> SUFFICES ASSUME NEW i \in 1..at
                     PROVE  /\ rowsOf'[buffer[i]] >= 1 \/ \E k \in DOMAIN longer : longer[k] = buffer[i]
                            /\ buffer[i] \notin doubted'
                               /\ (\E k \in DOMAIN longer : longer[k] = buffer[i])
                               => rowsOf'[buffer[i]] = 0
          OBVIOUS
        <5>1. CASE i = at
          BY <1>3, <2>5, <5>1
        <5>2. CASE i # at
          <6>1. i \in DOMAIN buffer /\ i < at
            BY <1>2, <1>3, <5>2
          <6> QED
            BY <2>6, <6>1
        <5> QED
          BY <5>1, <5>2
      <4>3. \A i \in (at + 1)..Len(buffer) : buffer[i] \notin doubted' => rowsOf'[buffer[i]] = 0
        BY <1>2, <1>3, <2>6
      <4> QED
        BY <2>3, <2>7, <3>1, <4>1, <4>2, <4>3 DEF FlushIsSound
    <3>3. \A g \in Flushers : On(g)' => g = f
      BY <1>3, <3>1 DEF On
    <3>4. On(f)'
      BY <1>6, <2>9 DEF FlushGoesOn, On
    <3>5. NothingLost'
      BY <1>1, <2>8, <3>1 DEF NothingLost
    <3> QED
      BY <1>3, <3>1, <3>2, <3>3, <3>4, <3>5 DEF AloneInv
  <2>10. CASE FlushIsOver(f, longer)
    <3>1. at = Len(buffer)
      <4>1. flushing[f].next \in Nat
        BY <1>0, <1>a, BufferIs
      <4> QED
        BY <1>2, <1>3, <2>10, <4>1 DEF FlushIsOver
    <3>2. \A g \in Flushers : ~On(g)'
      BY <1>3, <1>6, <2>10 DEF FlushIsOver, On, NotFlushing
    <3>3. buffer' = longer
      BY <2>10 DEF FlushIsOver
    <3>4. ASSUME NEW i \in DOMAIN buffer
          PROVE  /\ rowsOf'[buffer[i]] >= 1 \/ \E k \in DOMAIN longer : longer[k] = buffer[i]
                 /\ buffer[i] \notin doubted'
                    /\ (\E k \in DOMAIN longer : longer[k] = buffer[i])
                    => rowsOf'[buffer[i]] = 0
      <4>1. CASE i = at
        BY <1>3, <2>5, <4>1
      <4>2. CASE i # at
        <5>1. i < at
          BY <1>2, <1>3, <3>1, <4>2
        <5> QED
          BY <2>6, <5>1
      <4> QED
        BY <4>1, <4>2
    <3>5. \A k \in DOMAIN longer : longer[k] \notin doubted' => rowsOf'[longer[k]] = 0
      BY <1>3, <2>7, <3>1, <3>4
    <3>6. NothingLost'
      <4> SUFFICES ASSUME NEW v \in Uses, recording[v] = "buffered"
                   PROVE  /\ rowsOf'[v] >= 1 \/ \E k \in DOMAIN longer : longer[k] = v
                          /\ v \notin doubted' => rowsOf'[v] <= 1
        BY <1>1, <3>3 DEF NothingLost
      <4>1. /\ rowsOf'[v] >= 1 \/ (\E i \in DOMAIN buffer : buffer[i] = v)
            /\ v \notin doubted' => rowsOf'[v] <= 1
        BY <2>8
      <4> QED
        BY <3>4, <4>1
    <3> QED
      BY <2>3, <3>2, <3>3, <3>5, <3>6 DEF AloneInv
  <2> QED
    BY <1>8, <2>9, <2>10
<1> QED
  BY <1>1, <1>7, <1>8

LEMMA UsageStep ==
    ASSUME UsageInv, [UsageNext]_usageVars
    PROVE  UsageInv'
<1>1. CASE UNCHANGED usageVars
  <2>1. UsageTypeOK' /\ PlacesAreKept'
    BY <1>1 DEF usageVars, UsageInv, UsageTypeOK, PlacesAreKept, On
  <2>2. AloneInv' <=> AloneInv
    BY <1>1 DEF usageVars, AloneInv, FlushIsSound, NothingLost, On
  <2> QED
    BY <1>1, <2>1, <2>2 DEF UsageInv, usageVars
<1>2. ASSUME NEW f \in Flushers, NEW answer \in StoreAnswers, FlushAnswered(f, answer)
      PROVE  UsageInv'
  <2>1. crossed' = crossed
    BY <1>2 DEF FlushAnswered
  <2> QED
    BY <1>2, <2>1, FlushPlaces, FlushAlone DEF UsageInv
<1> QED
  BY <1>1, <1>2, RecordStep, AnsweredStep, StartFlushStep DEF UsageNext

-----------------------------------------------------------------------------
(* The reports                                                             *)

CostRow == [u \in Uses |-> rowsOf[u] * UseOf[u].cost]

LEMMA CallsOverIs == ASSUME NEW us PROVE CallsOver(us) = SumOver(rowsOf, us)
BY DEF CallsOver, SumOver, MapThenSumSet, MapThenFoldSet

LEMMA CostOverIs == ASSUME NEW us \in SUBSET Uses PROVE CostOver(us) = SumOver(CostRow, us)
BY DEF CostOver, CostRow, SumOver, MapThenSumSet, MapThenFoldSet

LEMMA CallBuckets ==
    ASSUME NEW buckets
    PROVE  CallsOfAll(buckets)
           = SumOver([k \in DOMAIN buckets |-> buckets[k].calls], DOMAIN buckets)
BY DEF CallsOfAll, SumOver, MapThenSumSet, MapThenFoldSet

LEMMA CostBuckets ==
    ASSUME NEW buckets
    PROVE  CostOfAll(buckets)
           = SumOver([k \in DOMAIN buckets |-> CostOf(buckets[k])], DOMAIN buckets)
BY DEF CostOfAll, SumOver, MapThenSumSet, MapThenFoldSet

CostTerm == [u \in Uses |-> IF UseOf[u].cost = Unmeasured THEN 0 ELSE CostRow[u]]

LEMMA RowsAreNat ==
    ASSUME UsageTypeOK
    PROVE  /\ \A u \in Uses : rowsOf[u] \in Nat /\ CostTerm[u] \in Nat
           /\ \A us \in SUBSET Uses : IsFiniteSet(us)
<1>1. \A u \in Uses : rowsOf[u] \in Nat
  BY UsageAssumption DEF UsageTypeOK
<1>2. ASSUME NEW u \in Uses, UseOf[u].cost # Unmeasured
      PROVE  CostRow[u] \in Nat
  <2>1. PICK n \in Nat : n = UseOf[u].cost
    BY <1>2, UsageAssumption
  <2>2. PICK m \in Nat : m = rowsOf[u]
    BY <1>1
  <2>3. m * n \in Nat
    OBVIOUS
  <2> QED
    BY <2>1, <2>2, <2>3 DEF CostRow
<1>3. \A us \in SUBSET Uses : IsFiniteSet(us)
  BY UsageAssumption, FS_Subset
<1> QED
  BY <1>1, <1>2, <1>3 DEF CostTerm

\* What the accumulator of some events comes to.
LEMMA AccumulatedIs ==
    ASSUME UsageTypeOK, NEW us \in SUBSET Uses
    PROVE  LET acc == Accumulated(us)
           IN /\ acc.calls = SumOver(rowsOf, us)
              /\ CostOf(acc) = SumOver(CostTerm, us)
              /\ acc.cost = Unmeasured <=> acc.calls = acc.unmeasured
<1> DEFINE priced == {u \in us : rowsOf[u] > 0 /\ UseOf[u].cost # Unmeasured}
           unpriced == {u \in us : UseOf[u].cost = Unmeasured}
<1>1. /\ Accumulated(us).calls = SumOver(rowsOf, us)
      /\ Accumulated(us).cost = IF priced = {} THEN Unmeasured ELSE CostOver(priced)
      /\ Accumulated(us).unmeasured = SumOver(rowsOf, unpriced)
  BY CallsOverIs DEF Accumulated
<1>2. /\ \A u \in us : rowsOf[u] \in Nat /\ CostTerm[u] \in Nat
      /\ IsFiniteSet(us) /\ IsFiniteSet(priced) /\ priced \in SUBSET us
      /\ unpriced \in SUBSET us /\ us \ unpriced \in SUBSET us
      /\ IsFiniteSet(us \ unpriced) /\ IsFiniteSet(us \ priced)
  BY RowsAreNat
<1>3. CostOver(priced) = SumOver(CostTerm, priced)
  <2>1. CostOver(priced) = SumOver(CostRow, priced)
    BY CostOverIs
  <2>2. \A u \in priced : CostRow[u] = CostTerm[u]
    BY DEF CostTerm
  <2> HIDE DEF priced
  <2> QED
    BY <1>2, <2>1, <2>2, SumSame
<1>4. SumOver(CostTerm, us \ priced) = 0
  <2>1. \A u \in us \ priced : CostTerm[u] = 0
    <3> SUFFICES ASSUME NEW u \in us \ priced, UseOf[u].cost # Unmeasured
                 PROVE  CostTerm[u] = 0
      BY DEF CostTerm
    <3>1. rowsOf[u] = 0
      BY <1>2
    <3>2. UseOf[u].cost \in Nat
      BY UsageAssumption
    <3> QED
      BY <3>1, <3>2 DEF CostTerm, CostRow
  <2> HIDE DEF priced
  <2> QED
    BY <1>2, <2>1, SumZero
<1>5. SumOver(CostTerm, us) = SumOver(CostTerm, priced) /\ SumOver(CostTerm, priced) \in Nat
  <2> HIDE DEF priced
  <2>1. /\ SumOver(CostTerm, us) = SumOver(CostTerm, priced) + SumOver(CostTerm, us \ priced)
        /\ SumOver(CostTerm, priced) \in Nat
    BY <1>2, SumPart
  <2> QED
    BY <1>4, <2>1
<1>6. CostOf(Accumulated(us)) = SumOver(CostTerm, us)
  <2>1. CASE priced = {}
    <3>1. SumOver(CostTerm, us) = 0
      BY <1>5, <2>1, SumEmpty
    <3> QED
      BY <1>1, <2>1, <3>1 DEF CostOf
  <2>2. CASE priced # {}
    <3> HIDE DEF priced
    <3>1. Accumulated(us).cost = SumOver(CostTerm, us) /\ SumOver(CostTerm, us) # Unmeasured
      BY <1>1, <1>3, <1>5, <2>2, UsageAssumption
    <3> QED
      BY <3>1 DEF CostOf
  <2> QED
    BY <2>1, <2>2
<1>7. Accumulated(us).cost = Unmeasured <=> priced = {}
  <2> HIDE DEF priced
  <2> QED
    BY <1>1, <1>3, <1>5, UsageAssumption
<1>8. SumOver(rowsOf, us) = SumOver(rowsOf, unpriced) <=> priced = {}
  <2>1. /\ SumOver(rowsOf, us) = SumOver(rowsOf, unpriced) + SumOver(rowsOf, us \ unpriced)
        /\ SumOver(rowsOf, unpriced) \in Nat /\ SumOver(rowsOf, us \ unpriced) \in Nat
    <3> HIDE DEF unpriced
    <3> QED
      BY <1>2, SumPart
  <2>2. SumOver(rowsOf, us \ unpriced) = 0 <=> \A u \in us \ unpriced : rowsOf[u] = 0
    <3> HIDE DEF unpriced
    <3> QED
      BY <1>2, SumPositive
  <2>3. priced = {} <=> \A u \in us \ unpriced : rowsOf[u] = 0
    BY <1>2
  <2> HIDE DEF priced, unpriced
  <2> QED
    BY <2>1, <2>2, <2>3
<1> HIDE DEF priced, unpriced
<1> QED
  BY <1>1, <1>6, <1>7, <1>8

SelectedBy(driver, w, tenant) ==
    {u \in DriverReads(driver, w) : InWindow(u, w) /\ OfTenant(u, tenant)}

TenantOf == [u \in Uses |-> UseOf[u].tenant]
DayOf == [u \in Uses |-> UseOf[u].at]
TenantsIn(chosen) == Image(TenantOf, chosen) \ {Unassigned}
DaysIn(chosen) == Image(DayOf, chosen)
Buckets(chosen, key, K) == [k \in K |-> Accumulated(GroupBy(chosen, key, k))]

\* What a query answers with, over the events its driver and window select.
LEMMA ReportIs ==
    ASSUME NEW driver, NEW w, NEW tenant,
           NEW answer, answer = summarizeUsage(DriverReads(driver, w), w, tenant),
           NEW chosen, chosen = SelectedBy(driver, w, tenant)
    PROVE  /\ answer.totals = Accumulated(chosen)
           /\ answer.unassigned = Accumulated(GroupBy(chosen, TenantOf, Unassigned))
           /\ answer.byTenant = Buckets(chosen, TenantOf, TenantsIn(chosen))
           /\ answer.byDay = Buckets(chosen, DayOf, DaysIn(chosen))
<1>2. chosen \subseteq Uses
  BY DEF SelectedBy, DriverReads
<1>3. answer = [totals |-> Accumulated(chosen),
                byTenant |-> ByTenant(chosen),
                byDay |-> ByDay(chosen),
                unassigned |-> Accumulated(OfOneTenant(chosen, Unassigned))]
  BY DEF summarizeUsage, SelectedBy
<1>4. /\ \A t : OfOneTenant(chosen, t) = GroupBy(chosen, TenantOf, t)
      /\ \A d : OfOneDay(chosen, d) = GroupBy(chosen, DayOf, d)
  BY <1>2 DEF GroupBy, TenantOf, DayOf, OfOneTenant, OfOneDay
<1>5. /\ {UseOf[u].tenant : u \in chosen} \ {Unassigned} = TenantsIn(chosen)
      /\ {UseOf[u].at : u \in chosen} = DaysIn(chosen)
  BY <1>2 DEF TenantsIn, DaysIn, Image, TenantOf, DayOf
<1>6. ByTenant(chosen) = Buckets(chosen, TenantOf, TenantsIn(chosen))
  BY <1>4, <1>5 DEF Buckets, ByTenant
<1>7. ByDay(chosen) = Buckets(chosen, DayOf, DaysIn(chosen))
  BY <1>4, <1>5 DEF Buckets, ByDay
<1>8. OfOneTenant(chosen, Unassigned) = GroupBy(chosen, TenantOf, Unassigned)
  BY <1>4
<1> QED
  BY <1>3, <1>6, <1>7, <1>8

\* The buckets of some events, by a key of which K are of interest.
LEMMA BucketsAddUp ==
    ASSUME UsageTypeOK, NEW chosen \in SUBSET Uses, NEW key, NEW K, IsFiniteSet(K),
           NEW buckets, buckets = Buckets(chosen, key, K)
    PROVE  /\ CallsOfAll(buckets) = SumOver(rowsOf, Within(chosen, key, K))
           /\ CostOfAll(buckets) = SumOver(CostTerm, Within(chosen, key, K))
<1>1. \A k \in K : GroupBy(chosen, key, k) \in SUBSET Uses
  BY DEF GroupBy
<1>2. /\ DOMAIN buckets = K
      /\ \A k \in K : /\ buckets[k].calls = SumOver(rowsOf, GroupBy(chosen, key, k))
                      /\ CostOf(buckets[k]) = SumOver(CostTerm, GroupBy(chosen, key, k))
  BY <1>1, AccumulatedIs DEF Buckets
<1>3. /\ IsFiniteSet(chosen)
      /\ \A u \in chosen : rowsOf[u] \in Int /\ CostTerm[u] \in Int
  BY RowsAreNat
<1>4. CallsOfAll(buckets) = SumOver(rowsOf, Within(chosen, key, K))
  <2> DEFINE g == [k \in DOMAIN buckets |-> buckets[k].calls]
  <2>1. CallsOfAll(buckets) = SumOver(g, K)
    BY <1>2, CallBuckets
  <2>2. \A k \in K : g[k] = SumOver(rowsOf, GroupBy(chosen, key, k))
    BY <1>2
  <2> HIDE DEF g
  <2> QED
    BY <1>3, <2>1, <2>2, SumGroups
<1>5. CostOfAll(buckets) = SumOver(CostTerm, Within(chosen, key, K))
  <2> DEFINE g == [k \in DOMAIN buckets |-> CostOf(buckets[k])]
  <2>1. CostOfAll(buckets) = SumOver(g, K)
    BY <1>2, CostBuckets
  <2>2. \A k \in K : g[k] = SumOver(CostTerm, GroupBy(chosen, key, k))
    BY <1>2
  <2> HIDE DEF g
  <2> QED
    BY <1>3, <2>1, <2>2, SumGroups
<1> QED
  BY <1>4, <1>5

LEMMA ReportsAreSums ==
    ASSUME UsageTypeOK
    PROVE  ReportsAddUp
<1> SUFFICES ASSUME NEW w \in UsageWindows, NormalWindow(w)
             PROVE  LET all == UsageFor(Unassigned, "postgres", TRUE, w, Unassigned).report
                    IN /\ CallsOfAll(all.byTenant) = all.totals.calls - all.unassigned.calls
                       /\ CostOfAll(all.byTenant) = CostOf(all.totals) - CostOf(all.unassigned)
                       /\ CostOfAll(all.byDay) = CostOf(all.totals)
                       /\ all.totals.cost = Unmeasured <=> all.totals.calls = all.totals.unmeasured
                       /\ \A mid \in {UseOf[u].at : u \in Uses} :
                             LET before == [w EXCEPT !.to = mid]
                                 after == [w EXCEPT !.from = mid]
                                 Half(h) == UsageFor(Unassigned, "sqlite", TRUE, h, Unassigned).report
                             IN (w.from = -1 \/ w.from < mid) /\ (w.to = -1 \/ mid < w.to) =>
                                   Half(before).totals.calls + Half(after).totals.calls
                                   = all.totals.calls
                       /\ \A t \in UsageTenants \ {Unassigned}, asked \in UsageTenants :
                             LET own == UsageFor(t, "sqlite", TRUE, w, asked).report
                             IN /\ own.totals = IF t \in DOMAIN all.byTenant THEN all.byTenant[t]
                                                ELSE Accumulated({})
                                /\ own.unassigned.calls = 0
  BY DEF ReportsAddUp
<1>a. PICK all : /\ all = UsageFor(Unassigned, "postgres", TRUE, w, Unassigned).report
                 /\ all = summarizeUsage(DriverReads("postgres", w), w, Unassigned)
  BY DEF UsageFor, queryUsage
<1>b. all = summarizeUsage(DriverReads("postgres", w), w, Unassigned)
  BY <1>a
<1> DEFINE chosen == SelectedBy("postgres", w, Unassigned)
           names == TenantsIn(chosen)
           days == DaysIn(chosen)
<1>1. /\ all.totals = Accumulated(chosen)
      /\ all.unassigned = Accumulated(GroupBy(chosen, TenantOf, Unassigned))
      /\ all.byTenant = Buckets(chosen, TenantOf, names)
      /\ all.byDay = Buckets(chosen, DayOf, days)
  BY <1>b, ReportIs
<1>2. chosen \in SUBSET Uses /\ IsFiniteSet(chosen)
  BY RowsAreNat DEF SelectedBy, DriverReads
<1>3. /\ w.from \in {-1} \cup {UseOf[u].at : u \in Uses}
      /\ w.to \in {-1} \cup {UseOf[u].at : u \in Uses}
      /\ w.from = -1 \/ w.from \in Nat
      /\ w.to = -1 \/ w.to \in Nat
      /\ \A u \in Uses : UseOf[u].at \in Nat
  BY UsageAssumption DEF UsageWindows
<1>4. chosen = {u \in Uses : rowsOf[u] > 0 /\ InWindow(u, w)}
  BY DEF SelectedBy, DriverReads, OfTenant
<1>5. IsFiniteSet(names) /\ IsFiniteSet(days)
  <2> HIDE DEF chosen
  <2> QED
    BY <1>2, ImageIsFinite, FS_Difference DEF TenantsIn, DaysIn
<1>6. Within(chosen, TenantOf, names) = chosen \ GroupBy(chosen, TenantOf, Unassigned)
  <2> HIDE DEF chosen
  <2> QED
    BY DEF GroupBy, Within, TenantsIn, Image
<1>7. Within(chosen, DayOf, days) = chosen
  <2> HIDE DEF chosen
  <2> QED
    BY DEF Within, DaysIn, Image
<1>8. \A u \in chosen : rowsOf[u] \in Nat /\ CostTerm[u] \in Nat
  BY <1>2, RowsAreNat
<1>9. GroupBy(chosen, TenantOf, Unassigned) \in SUBSET chosen
  BY DEF GroupBy
<1>10. /\ CallsOfAll(all.byTenant) = all.totals.calls - all.unassigned.calls
       /\ CostOfAll(all.byTenant) = CostOf(all.totals) - CostOf(all.unassigned)
  <2> HIDE DEF chosen, names, days
  <2> DEFINE rest == GroupBy(chosen, TenantOf, Unassigned)
  <2>1. /\ CallsOfAll(all.byTenant) = SumOver(rowsOf, chosen \ rest)
        /\ CostOfAll(all.byTenant) = SumOver(CostTerm, chosen \ rest)
    BY <1>1, <1>2, <1>5, <1>6, BucketsAddUp
  <2>2. /\ SumOver(rowsOf, chosen \ rest) = SumOver(rowsOf, chosen) - SumOver(rowsOf, rest)
        /\ SumOver(CostTerm, chosen \ rest) = SumOver(CostTerm, chosen) - SumOver(CostTerm, rest)
    BY <1>2, <1>8, <1>9, SumRest
  <2>3. /\ all.totals.calls = SumOver(rowsOf, chosen)
        /\ CostOf(all.totals) = SumOver(CostTerm, chosen)
        /\ all.unassigned.calls = SumOver(rowsOf, rest)
        /\ CostOf(all.unassigned) = SumOver(CostTerm, rest)
    BY <1>1, <1>2, <1>9, AccumulatedIs
  <2> QED
    BY <2>1, <2>2, <2>3
<1>11. CostOfAll(all.byDay) = CostOf(all.totals)
  <2> HIDE DEF chosen, names, days
  <2>1. CostOfAll(all.byDay) = SumOver(CostTerm, chosen)
    BY <1>1, <1>2, <1>5, <1>7, BucketsAddUp
  <2> QED
    BY <1>1, <1>2, <2>1, AccumulatedIs
<1>12. all.totals.cost = Unmeasured <=> all.totals.calls = all.totals.unmeasured
  BY <1>1, <1>2, AccumulatedIs
<1>13. ASSUME NEW mid \in {UseOf[u].at : u \in Uses},
              w.from = -1 \/ w.from < mid, w.to = -1 \/ mid < w.to,
              NEW before, before = [w EXCEPT !.to = mid],
              NEW after, after = [w EXCEPT !.from = mid]
       PROVE  UsageFor(Unassigned, "sqlite", TRUE, before, Unassigned).report.totals.calls
              + UsageFor(Unassigned, "sqlite", TRUE, after, Unassigned).report.totals.calls
              = all.totals.calls
  <2>1. /\ before.from = w.from /\ before.to = mid /\ after.from = mid /\ after.to = w.to
        /\ mid \in Nat
    BY <1>3, <1>13 DEF UsageWindows
  <2>2. NormalWindow(before) /\ NormalWindow(after)
    BY <1>13, <2>1 DEF NormalWindow
  <2> DEFINE early == SelectedBy("sqlite", before, Unassigned)
             late == SelectedBy("sqlite", after, Unassigned)
  <2>3. /\ UsageFor(Unassigned, "sqlite", TRUE, before, Unassigned).report.totals = Accumulated(early)
        /\ UsageFor(Unassigned, "sqlite", TRUE, after, Unassigned).report.totals = Accumulated(late)
    <3>1. /\ UsageFor(Unassigned, "sqlite", TRUE, before, Unassigned).report
             = summarizeUsage(DriverReads("sqlite", before), before, Unassigned)
          /\ UsageFor(Unassigned, "sqlite", TRUE, after, Unassigned).report
             = summarizeUsage(DriverReads("sqlite", after), after, Unassigned)
      BY <2>2 DEF UsageFor, queryUsage
    <3>2. /\ summarizeUsage(DriverReads("sqlite", before), before, Unassigned).totals = Accumulated(early)
          /\ summarizeUsage(DriverReads("sqlite", after), after, Unassigned).totals = Accumulated(late)
      BY ReportIs
    <3> HIDE DEF early, late
    <3> QED
      BY <3>1, <3>2, Zenon
  <2>4. /\ early = {u \in Uses : rowsOf[u] > 0 /\ InWindow(u, before)}
        /\ late = {u \in Uses : rowsOf[u] > 0 /\ InWindow(u, after)}
    BY DEF SelectedBy, DriverReads, OfTenant
  <2>5. ASSUME NEW u \in Uses
        PROVE  /\ InWindow(u, w) <=> InWindow(u, before) \/ InWindow(u, after)
               /\ ~(InWindow(u, before) /\ InWindow(u, after))
    BY <1>3, <1>13, <2>1 DEF InWindow
  <2> HIDE DEF chosen, early, late
  <2>6. early \cup late = chosen /\ early \cap late = {}
    BY <1>4, <2>4, <2>5
  <2>7. SumOver(rowsOf, chosen) = SumOver(rowsOf, early) + SumOver(rowsOf, late)
    <3>1. /\ IsFiniteSet(early) /\ IsFiniteSet(late)
          /\ \A u \in early \cup late : rowsOf[u] \in Int
      BY <1>2, <1>8, <2>6, FS_Subset
    <3> QED
      BY <2>6, <3>1, SumUnion
  <2>8. early \in SUBSET Uses /\ late \in SUBSET Uses
    BY <1>2, <2>6
  <2> QED
    BY <1>1, <1>2, <2>3, <2>7, <2>8, AccumulatedIs
<1>14. ASSUME NEW t \in UsageTenants \ {Unassigned}, NEW asked \in UsageTenants
       PROVE  LET own == UsageFor(t, "sqlite", TRUE, w, asked).report
              IN /\ own.totals = IF t \in DOMAIN all.byTenant THEN all.byTenant[t]
                                 ELSE Accumulated({})
                 /\ own.unassigned.calls = 0
  <2> DEFINE own == UsageFor(t, "sqlite", TRUE, w, asked).report
             theirs == SelectedBy("sqlite", w, t)
  <2>1. /\ own.totals = Accumulated(theirs)
        /\ own.unassigned = Accumulated(GroupBy(theirs, TenantOf, Unassigned))
    <3>1. own = summarizeUsage(DriverReads("sqlite", w), w, t)
      BY DEF UsageFor, queryUsage
    <3> HIDE DEF own
    <3> QED
      BY <3>1, ReportIs
  <2>2. theirs = {u \in Uses : rowsOf[u] > 0 /\ InWindow(u, w) /\ UseOf[u].tenant = t}
    BY DEF SelectedBy, DriverReads, OfTenant
  <2>3. GroupBy(theirs, TenantOf, Unassigned) = {}
    BY <2>2 DEF GroupBy, TenantOf
  <2>4. Accumulated({}).calls = 0
    BY AccumulatedIs, SumEmpty
  <2>5. theirs = GroupBy(chosen, TenantOf, t)
    BY <1>4, <2>2 DEF GroupBy, TenantOf
  <2>6. t \notin names => GroupBy(chosen, TenantOf, t) = {}
    BY <1>2 DEF GroupBy, TenantsIn, Image
  <2> HIDE DEF own, theirs, chosen, names, days
  <2>7. own.totals = IF t \in DOMAIN all.byTenant THEN all.byTenant[t] ELSE Accumulated({})
    BY <1>1, <2>1, <2>5, <2>6 DEF Buckets
  <2>8. own.unassigned.calls = 0
    BY <2>1, <2>3, <2>4
  <2> QED
    BY <2>7, <2>8 DEF own
<1> HIDE DEF chosen, names, days
<1>15. \A mid \in {UseOf[u].at : u \in Uses} :
          LET before == [w EXCEPT !.to = mid]
              after == [w EXCEPT !.from = mid]
              Half(h) == UsageFor(Unassigned, "sqlite", TRUE, h, Unassigned).report
          IN (w.from = -1 \/ w.from < mid) /\ (w.to = -1 \/ mid < w.to) =>
                Half(before).totals.calls + Half(after).totals.calls = all.totals.calls
  BY <1>13
<1>16. \A t \in UsageTenants \ {Unassigned}, asked \in UsageTenants :
          LET own == UsageFor(t, "sqlite", TRUE, w, asked).report
          IN /\ own.totals = IF t \in DOMAIN all.byTenant THEN all.byTenant[t]
                             ELSE Accumulated({})
             /\ own.unassigned.calls = 0
  BY <1>14
<1> QED
  BY <1>a, <1>10, <1>11, <1>12, <1>15, <1>16, Zenon

-----------------------------------------------------------------------------
(* The metrics of the run history                                          *)

\* A set counts as many as a sum of ones over it.
LEMMA CardIsSum ==
    ASSUME NEW S, IsFiniteSet(S), NEW f, \A x \in S : f[x] = 1
    PROVE  SumOver(f, S) = Cardinality(S)
<1> DEFINE B == {T \in SUBSET S : SumOver(f, T) # Cardinality(T)}
<1> SUFFICES ASSUME B # {} PROVE FALSE
  OBVIOUS
<1>1. PICK T \in B : \A U \in B : U \subseteq T => U = T
  <2> HIDE DEF B
  <2>1. B \subseteq SUBSET S
    BY DEF B
  <2> QED
    BY <2>1, LeastSubset
<1>2. T # {}
  BY SumEmpty, FS_EmptySet
<1>3. First(T) \in T /\ IsFiniteSet(T)
  BY <1>2, FirstIsIn, FS_Subset
<1>4. SumOver(f, T) = f[First(T)] + SumOver(f, T \ {First(T)})
  BY <1>2, <1>3, SumFirst
<1>5. SumOver(f, T \ {First(T)}) = Cardinality(T \ {First(T)})
  BY <1>1, <1>3
<1>6. /\ Cardinality(T \ {First(T)}) = Cardinality(T) - 1
      /\ Cardinality(T) \in Nat
  BY <1>3, FS_RemoveElement, FS_CardinalityType
<1> QED
  BY <1>3, <1>4, <1>5, <1>6

\* The members of a set, counted group by group.
LEMMA CountGroups ==
    ASSUME NEW S, IsFiniteSet(S), NEW K, IsFiniteSet(K),
           NEW key, \A x \in S : key[x] \in K,
           NEW g, \A k \in K : g[k] = Cardinality(GroupBy(S, key, k))
    PROVE  SumOver(g, K) = Cardinality(S)
<1> DEFINE f == [x \in S |-> 1]
<1>1. \A x \in S : f[x] = 1 /\ f[x] \in Int
  OBVIOUS
<1> HIDE DEF f
<1>2. ASSUME NEW k \in K PROVE g[k] = SumOver(f, GroupBy(S, key, k))
  <2>1. GroupBy(S, key, k) \subseteq S /\ IsFiniteSet(GroupBy(S, key, k))
    BY FS_Subset DEF GroupBy
  <2> QED
    BY <1>1, <2>1, CardIsSum
<1>3. SumOver(g, K) = SumOver(f, Within(S, key, K))
  BY <1>1, <1>2, SumGroups
<1>4. Within(S, key, K) = S
  BY DEF Within
<1> QED
  BY <1>1, <1>3, <1>4, CardIsSum

-----------------------------------------------------------------------------

CostMap == [r \in DOMAIN summary |-> summary[r].cost]
SpendRows(asked) == {r \in DOMAIN summary : InRange(asked, summary[r])
                                            /\ summary[r].cost # NoSpend}

LEMMA SpendIs ==
    ASSUME NEW rows \in SUBSET DOMAIN summary
    PROVE  MapThenSumSet(LAMBDA r : summary[r].cost, rows) = SumOver(CostMap, rows)
BY DEF CostMap, SumOver, MapThenSumSet, MapThenFoldSet

LEMMA SpendMeasuredIs ==
    ASSUME NEW asked
    PROVE  Measured(asked) = [sum |-> SumOver(CostMap, SpendRows(asked)),
                              count |-> Cardinality(SpendRows(asked))]
<1>1. SpendRows(asked) \subseteq DOMAIN summary
  BY DEF SpendRows
<1>2. PICK rows \in SUBSET DOMAIN summary : rows = SpendRows(asked)
  BY <1>1
<1>3. MapThenSumSet(LAMBDA r : summary[r].cost, rows) = SumOver(CostMap, rows)
  BY <1>2, SpendIs
<1> QED
  BY <1>2, <1>3 DEF Measured, SpendRows

\* A range is its bounds.
LEMMA RangeIsItsBounds ==
    ASSUME NEW a, NEW b, a.from = b.from, a.to = b.to
    PROVE  /\ \A entry : InRange(a, entry) <=> InRange(b, entry)
           /\ \A s : StatusRows(a, s) = StatusRows(b, s)
           /\ Measured(a) = Measured(b)
<1>1. \A entry : InRange(a, entry) <=> InRange(b, entry)
  BY DEF InRange
<1>2. SpendRows(a) = SpendRows(b) /\ \A s : StatusRows(a, s) = StatusRows(b, s)
  BY <1>1 DEF SpendRows, StatusRows
<1> QED
  BY <1>1, <1>2, SpendMeasuredIs

\* What is read so far lags behind the rows by what changed meanwhile.
ReadSoFar ==
    /\ report.at = "counted" => \A s \in TerminalStatuses :
          /\ report.counts[s] \in Nat
          /\ report.counts[s] <= Cardinality(StatusRows(report, s))
          /\ ~meanwhile => report.counts[s] = Cardinality(StatusRows(report, s))
    /\ report.at \in {"trended", "answered"} => \A s \in TerminalStatuses :
          /\ TrendOf(s) >= report.counts[s]
          /\ ~meanwhile => TrendOf(s) = report.counts[s]
    /\ report.at \in {"counted", "trended"} /\ ~meanwhile => atFirst = Measured(report)
    /\ report.at = "answered" /\ ~meanwhile =>
          report.count = atFirst.count /\ report.sum = atFirst.sum

EndsAreDated ==
    \A r \in DOMAIN summary : summary[r].status \in TerminalStatuses =>
                                 summary[r].completed \in MetricDays

MetricsInv == MetricsTypeOK /\ EndsAreDated /\ ReadSoFar

LEMMA MetricsAreGood == ASSUME MetricsInv PROVE MetricsAgree
BY DEF MetricsInv, ReadSoFar, MetricsAgree

LEMMA MetricsBegin == ASSUME MetricsInit PROVE MetricsInv
<1>1. Cardinality(MetricRuns) \in Nat
  BY MetricsAssumption, FS_CardinalityType
<1>2. MetricsTypeOK
  <2>1. DOMAIN summary = {} /\ 0 \in 0..Cardinality(MetricRuns) /\ meanwhile = FALSE
    BY <1>1 DEF MetricsInit
  <2>2. report \in MetricsReport /\ atFirst \in [sum : Nat, count : 0..Cardinality(MetricRuns)]
    BY <2>1 DEF MetricsInit, MetricsReport, Unasked, Asked
  <2> QED
    BY <2>1, <2>2 DEF MetricsInit, MetricsTypeOK
<1> QED
  BY <1>2 DEF MetricsInit, MetricsInv, EndsAreDated, ReadSoFar, Unasked, Asked

LEMMA RowsAreCounted ==
    ASSUME MetricsTypeOK
    PROVE  /\ IsFiniteSet(DOMAIN summary)
           /\ \A asked, s : /\ IsFiniteSet(StatusRows(asked, s))
                            /\ Cardinality(StatusRows(asked, s)) \in Nat
           /\ \A asked : Measured(asked) \in [sum : Nat, count : 0..Cardinality(MetricRuns)]
<1>1. IsFiniteSet(DOMAIN summary) /\ DOMAIN summary \subseteq MetricRuns
  BY MetricsAssumption, FS_Subset DEF MetricsTypeOK
<1>2. ASSUME NEW asked, NEW s
      PROVE  /\ IsFiniteSet(StatusRows(asked, s))
             /\ Cardinality(StatusRows(asked, s)) \in Nat
  BY <1>1, FS_Subset, FS_CardinalityType DEF StatusRows
<1>3. ASSUME NEW asked
      PROVE  Measured(asked) \in [sum : Nat, count : 0..Cardinality(MetricRuns)]
  <2>1. SpendRows(asked) \subseteq DOMAIN summary
    BY DEF SpendRows
  <2>2. /\ IsFiniteSet(SpendRows(asked))
        /\ Cardinality(SpendRows(asked)) \in 0..Cardinality(MetricRuns)
    <3>1. SpendRows(asked) \in SUBSET MetricRuns
      BY <1>1, <2>1
    <3>2. /\ IsFiniteSet(SpendRows(asked))
          /\ Cardinality(SpendRows(asked)) <= Cardinality(MetricRuns)
      BY <3>1, MetricsAssumption, FS_Subset
    <3>3. Cardinality(SpendRows(asked)) \in Nat /\ Cardinality(MetricRuns) \in Nat
      BY <3>2, MetricsAssumption, FS_CardinalityType
    <3> QED
      BY <3>2, <3>3
  <2>3. \A r \in SpendRows(asked) : CostMap[r] \in Nat
    BY <2>1, MetricsAssumption DEF SpendRows, CostMap, MetricsTypeOK, SummaryRow
  <2>4. SumOver(CostMap, SpendRows(asked)) \in Nat
    BY <2>2, <2>3, SumNat
  <2> QED
    BY <2>2, <2>4, SpendMeasuredIs
<1> QED
  BY <1>1, <1>2, <1>3

MeasuredIn(rows, asked) ==
    [sum |-> SumOver([r \in DOMAIN rows |-> rows[r].cost],
                     {r \in DOMAIN rows : InRange(asked, rows[r]) /\ rows[r].cost # NoSpend}),
     count |-> Cardinality({r \in DOMAIN rows : InRange(asked, rows[r])
                                                /\ rows[r].cost # NoSpend})]

TrendSum(answer, s) == SumOver([d \in MetricDays |-> answer.trend[d][s]], MetricDays)

LEMMA TrendIs ==
    ASSUME NEW s
    PROVE  TrendOf(s) = TrendSum(report, s) /\ TrendOf(s)' = TrendSum(report', s)
BY DEF TrendOf, TrendSum, SumOver, MapThenSumSet, MapThenFoldSet

LEMMA MeasuredIsOfRows == Measured(report) = MeasuredIn(summary, report)
BY SpendMeasuredIs DEF MeasuredIn, CostMap, SpendRows

LEMMA MeasuredStays ==
    ASSUME UNCHANGED summary, report'.from = report.from, report'.to = report.to
    PROVE  Measured(report)' = Measured(report)
<1>1. (Measured(report) = MeasuredIn(summary, report))'
  BY MeasuredIsOfRows, PTL
<1>2. MeasuredIn(summary', report') = MeasuredIn(summary, report)
  <2>1. \A entry : InRange(report', entry) <=> InRange(report, entry)
    BY RangeIsItsBounds
  <2> QED
    BY <2>1 DEF MeasuredIn
<1> QED
  BY <1>1, <1>2, MeasuredIsOfRows

\* A step of the rows that loses no ended run of the range.
LEMMA RowsAreRead ==
    ASSUME MetricsInv, RowsMove, UNCHANGED <<report, atFirst>>, MetricsTypeOK',
           \A r \in DOMAIN summary : /\ r \in DOMAIN summary'
                                     /\ summary'[r].created = summary[r].created
                                     /\ summary[r].status \in TerminalStatuses =>
                                           summary'[r].status = summary[r].status
    PROVE  ReadSoFar'
<1>1. report.at \in {"idle", "counted", "trended"} /\ meanwhile' = (report.at # "idle")
  BY DEF RowsMove
<1>2. CASE report.at = "idle"
  BY <1>2 DEF ReadSoFar
<1>3. CASE report.at = "trended"
  <2>1. \A s : TrendOf(s)' = TrendOf(s)
    BY TrendIs
  <2> QED
    BY <1>1, <1>3, <2>1 DEF ReadSoFar, MetricsInv
<1>4. CASE report.at = "counted"
  <2>1. ASSUME NEW s \in TerminalStatuses
        PROVE  report.counts[s] <= Cardinality(StatusRows(report, s))'
    <3>1. PICK old, new : old = StatusRows(report, s) /\ new = StatusRows(report, s)'
      OBVIOUS
    <3>2. old \subseteq new
      <4> SUFFICES ASSUME NEW r \in old PROVE r \in new
        OBVIOUS
      <4>1. r \in DOMAIN summary /\ InRange(report, summary[r]) /\ summary[r].status = s
        BY <3>1 DEF StatusRows
      <4>2. r \in DOMAIN summary' /\ summary'[r].status = s
        BY <4>1
      <4>3. InRange(report, summary'[r])
        BY <4>1 DEF InRange
      <4> QED
        BY <3>1, <4>2, <4>3 DEF StatusRows
    <3>3. IsFiniteSet(new) /\ Cardinality(old) \in Nat /\ Cardinality(new) \in Nat
      <4>1. Cardinality(old) \in Nat
        BY <3>1, RowsAreCounted DEF MetricsInv
      <4>2. new \subseteq MetricRuns
        BY <3>1 DEF StatusRows, MetricsTypeOK
      <4> QED
        BY <4>1, <4>2, MetricsAssumption, FS_Subset, FS_CardinalityType
    <3>4. Cardinality(old) <= Cardinality(new)
      BY <3>2, <3>3, FS_Subset
    <3>5. report.counts[s] \in Nat /\ report.counts[s] <= Cardinality(old)
      BY <1>4, <3>1 DEF MetricsInv, ReadSoFar
    <3> QED
      BY <3>1, <3>3, <3>4, <3>5
  <2>2. \A s \in TerminalStatuses : report.counts[s] \in Nat
    BY <1>4 DEF MetricsInv, ReadSoFar
  <2> QED
    BY <1>1, <1>4, <2>1, <2>2 DEF ReadSoFar
<1> QED
  BY <1>1, <1>2, <1>3, <1>4

\* One entry is new or goes on: it keeps its creation, and its end.
MovesRow(r) ==
    \E entry \in SummaryRow :
        /\ entry.status \in TerminalStatuses => entry.completed \in MetricDays
        /\ r \in DOMAIN summary => /\ entry.created = summary[r].created
                                   /\ summary[r].status \in TerminalStatuses =>
                                         entry.status = summary[r].status
        /\ DOMAIN summary' = DOMAIN summary \cup {r}
        /\ summary'[r] = entry
        /\ \A x \in DOMAIN summary \ {r} : summary'[x] = summary[x]

LEMMA AcceptMoves ==
    ASSUME MetricsInv, NEW r \in MetricRuns, AcceptMetric(r)
    PROVE  MovesRow(r)
<1>1. PICK d \in MetricDays :
         summary' = [x \in DOMAIN summary \cup {r} |->
                       IF x = r THEN [created |-> d, status |-> "running",
                                      completed |-> 0, cost |-> NoSpend]
                       ELSE summary[x]]
  BY DEF AcceptMetric
<1>2. PICK entry \in SummaryRow :
         entry = [created |-> d, status |-> "running", completed |-> 0, cost |-> NoSpend]
  BY DEF SummaryRow, MetricStatuses
<1>3. r \notin DOMAIN summary
  BY DEF AcceptMetric
<1>4. entry.status \notin TerminalStatuses
  BY <1>2 DEF TerminalStatuses
<1>5. /\ DOMAIN summary' = DOMAIN summary \cup {r}
      /\ summary'[r] = entry
      /\ \A x \in DOMAIN summary \ {r} : summary'[x] = summary[x]
  BY <1>1, <1>2
<1> QED
  BY <1>2, <1>3, <1>4, <1>5 DEF MovesRow

LEMMA EndMoves ==
    ASSUME MetricsInv, NEW r \in MetricRuns, EndMetric(r)
    PROVE  MovesRow(r)
<1>1. PICK s \in TerminalStatuses, d \in MetricDays :
         summary' = [summary EXCEPT ![r].status = s, ![r].completed = d]
  BY DEF EndMetric
<1>2. r \in DOMAIN summary /\ summary[r].status = "running" /\ summary[r] \in SummaryRow
  BY DEF EndMetric, MetricsInv, MetricsTypeOK
<1>3. PICK entry : entry = [created |-> summary[r].created, status |-> s, completed |-> d,
                        cost |-> summary[r].cost]
  OBVIOUS
<1>4. entry \in SummaryRow
  BY <1>1, <1>2, <1>3 DEF SummaryRow, MetricStatuses
<1>5. /\ DOMAIN summary' = DOMAIN summary \cup {r}
      /\ \A x \in DOMAIN summary \ {r} : summary'[x] = summary[x]
  BY <1>1, <1>2
<1>6. summary'[r] = entry
  BY <1>1, <1>2, <1>3 DEF SummaryRow
<1>7. summary[r].status \notin TerminalStatuses
  BY <1>2 DEF TerminalStatuses
<1> QED
  BY <1>1, <1>3, <1>4, <1>5, <1>6, <1>7 DEF MovesRow

LEMMA MeasureMoves ==
    ASSUME MetricsInv, NEW r \in MetricRuns, MeasureMetric(r)
    PROVE  MovesRow(r)
<1>1. PICK c \in Spends \cup {NoSpend} : summary' = [summary EXCEPT ![r].cost = c]
  BY DEF MeasureMetric
<1>2. /\ r \in DOMAIN summary /\ summary[r] \in SummaryRow
      /\ summary[r].status \in TerminalStatuses => summary[r].completed \in MetricDays
  BY DEF MeasureMetric, MetricsInv, MetricsTypeOK, EndsAreDated
<1>3. PICK entry : entry = [created |-> summary[r].created, status |-> summary[r].status,
                        completed |-> summary[r].completed, cost |-> c]
  OBVIOUS
<1>4. entry \in SummaryRow
  BY <1>1, <1>2, <1>3 DEF SummaryRow
<1>5. /\ DOMAIN summary' = DOMAIN summary \cup {r}
      /\ \A x \in DOMAIN summary \ {r} : summary'[x] = summary[x]
  BY <1>1, <1>2
<1>6. summary'[r] = entry
  BY <1>1, <1>2, <1>3 DEF SummaryRow
<1> QED
  BY <1>2, <1>3, <1>4, <1>5, <1>6 DEF MovesRow

LEMMA RowSteps ==
    ASSUME MetricsInv, NEW r \in MetricRuns, AcceptMetric(r) \/ EndMetric(r) \/ MeasureMetric(r)
    PROVE  MetricsInv'
<1>1. RowsMove /\ UNCHANGED <<report, atFirst>>
  BY DEF AcceptMetric, EndMetric, MeasureMetric
<1>2. MovesRow(r)
  BY AcceptMoves, EndMoves, MeasureMoves
<1>3. PICK entry \in SummaryRow :
        /\ entry.status \in TerminalStatuses => entry.completed \in MetricDays
        /\ r \in DOMAIN summary => /\ entry.created = summary[r].created
                                   /\ summary[r].status \in TerminalStatuses =>
                                         entry.status = summary[r].status
        /\ DOMAIN summary' = DOMAIN summary \cup {r}
        /\ summary'[r] = entry
        /\ \A x \in DOMAIN summary \ {r} : summary'[x] = summary[x]
  BY <1>2 DEF MovesRow
<1>4. MetricsTypeOK'
  <2>1. /\ DOMAIN summary' \subseteq MetricRuns
        /\ \A x \in DOMAIN summary' : summary'[x] \in SummaryRow
    BY <1>3 DEF MetricsInv, MetricsTypeOK
  <2>2. meanwhile' \in BOOLEAN
    BY <1>1 DEF RowsMove
  <2> QED
    BY <1>1, <2>1, <2>2 DEF MetricsInv, MetricsTypeOK
<1>5. EndsAreDated'
  BY <1>3 DEF MetricsInv, EndsAreDated
<1>6. ReadSoFar'
  <2>1. \A x \in DOMAIN summary : /\ x \in DOMAIN summary'
                                  /\ summary'[x].created = summary[x].created
                                  /\ summary[x].status \in TerminalStatuses =>
                                        summary'[x].status = summary[x].status
    BY <1>3
  <2> QED
    BY <1>1, <1>4, <2>1, RowsAreRead
<1> QED
  BY <1>4, <1>5, <1>6 DEF MetricsInv

\* What is written of an answer: its field "at" and what was just read.
LEMMA CountStep ==
    ASSUME MetricsInv, CountStatuses
    PROVE  MetricsInv'
<1>1. report.at = "idle" /\ UNCHANGED <<summary, meanwhile>>
  BY DEF CountStatuses
<1>2. PICK from \in RangeEnds \cup {0}, to \in RangeEnds \cup {0} :
         \/ /\ report' = [Asked(from, to) EXCEPT !.at = "counted",
                                                !.counts = StatusCounts(Asked(from, to))]
            /\ atFirst' = Measured(Asked(from, to))
         \/ /\ report' = [Unasked EXCEPT !.at = "refused"]
            /\ UNCHANGED atFirst
  BY DEF CountStatuses
<1>3. from \in MetricDays \cup {0} /\ to \in MetricDays \cup {0}
  BY <1>2, MetricsAssumption
<1>4. PICK asked : asked = Asked(from, to)
  OBVIOUS
<1>0. 0 \in 0..Cardinality(MetricRuns)
  BY MetricsAssumption, FS_CardinalityType
<1>5. CASE report' = [Unasked EXCEPT !.at = "refused"] /\ UNCHANGED atFirst
  <2>1. report' = [at |-> "refused", from |-> 0, to |-> 0, counts |-> <<>>,
                   trend |-> <<>>, sum |-> 0, count |-> 0]
    BY <1>5 DEF Unasked, Asked
  <2>2. report'.at = "refused" /\ report' \in MetricsReport
    BY <1>0, <2>1 DEF MetricsReport
  <2>3. MetricsTypeOK'
    BY <1>1, <1>5, <2>2 DEF MetricsInv, MetricsTypeOK
  <2> QED
    BY <1>1, <2>2, <2>3 DEF MetricsInv, EndsAreDated, ReadSoFar
<1>6. CASE /\ report' = [asked EXCEPT !.at = "counted", !.counts = StatusCounts(asked)]
           /\ atFirst' = Measured(asked)
  <2>0. PICK counts : counts = StatusCounts(asked)
    OBVIOUS
  <2>1. report' = [at |-> "counted", from |-> from, to |-> to, counts |-> counts,
                   trend |-> <<>>, sum |-> 0, count |-> 0]
    BY <1>4, <1>6, <2>0 DEF Asked
  <2>2. asked.from = from /\ asked.to = to
    BY <1>4 DEF Asked
  <2>3. /\ counts \in [MetricStatuses -> Nat]
        /\ \A s \in TerminalStatuses : /\ counts[s] = Cardinality(StatusRows(asked, s))
                                       /\ counts[s] \in Nat
    BY <2>0, RowsAreCounted DEF MetricsInv, MetricStatuses, StatusCounts
  <2>4. MetricsTypeOK'
    <3>1. report' \in MetricsReport
      BY <1>0, <1>3, <2>1, <2>3 DEF MetricsReport
    <3>2. atFirst' \in [sum : Nat, count : 0..Cardinality(MetricRuns)]
      BY <1>6, RowsAreCounted DEF MetricsInv
    <3> QED
      BY <1>1, <3>1, <3>2 DEF MetricsInv, MetricsTypeOK
  <2>5. report'.at = "counted" /\ report'.counts = counts /\ report'.from = from /\ report'.to = to
    BY <2>1
  <2>6. \A s : StatusRows(report, s)' = StatusRows(asked, s)
    BY <1>1, <2>2, <2>5 DEF StatusRows, InRange
  <2>7. Measured(report)' = Measured(asked)
    <3>1. (Measured(report) = MeasuredIn(summary, report))'
      BY MeasuredIsOfRows, PTL
    <3>2. MeasuredIn(summary', report') = MeasuredIn(summary, asked)
      <4>1. \A entry : InRange(report', entry) <=> InRange(asked, entry)
        BY <2>2, <2>5, RangeIsItsBounds
      <4> QED
        BY <1>1, <4>1 DEF MeasuredIn
    <3>3. Measured(asked) = MeasuredIn(summary, asked)
      BY SpendMeasuredIs DEF MeasuredIn, CostMap, SpendRows
    <3> QED
      BY <3>1, <3>2, <3>3
  <2>8. ReadSoFar'
    <3>1. (\A s \in TerminalStatuses :
              /\ report.counts[s] \in Nat
              /\ report.counts[s] <= Cardinality(StatusRows(report, s))
              /\ ~meanwhile => report.counts[s] = Cardinality(StatusRows(report, s)))'
      BY <2>3, <2>5, <2>6
    <3>2. (atFirst = Measured(report))'
      BY <1>6, <2>7
    <3> QED
      BY <2>5, <3>1, <3>2 DEF ReadSoFar
  <2> QED
    BY <1>1, <2>4, <2>8 DEF MetricsInv, EndsAreDated
<1> QED
  BY <1>2, <1>4, <1>5, <1>6

\* The trend has every ended run of the range once, on the day it ended.
LEMMA TrendIsAll ==
    ASSUME MetricsInv, NEW s \in TerminalStatuses,
           NEW f, \A d \in MetricDays : f[d] = Cardinality(TrendRows(d, s))
    PROVE  SumOver(f, MetricDays) = Cardinality(StatusRows(report, s))
<1> DEFINE S == StatusRows(report, s)
           key == [r \in DOMAIN summary |-> summary[r].completed]
<1>1. IsFiniteSet(S)
  BY RowsAreCounted DEF MetricsInv
<1>2. S \subseteq DOMAIN summary /\ \A r \in S : key[r] \in MetricDays
  BY DEF StatusRows, MetricsInv, EndsAreDated
<1>3. \A d \in MetricDays : TrendRows(d, s) = GroupBy(S, key, d)
  <2>1. \A r \in S : key[r] = summary[r].completed
    BY <1>2
  <2> QED
    BY <2>1 DEF TrendRows, StatusRows, GroupBy
<1> HIDE DEF S, key
<1>4. \A d \in MetricDays : f[d] = Cardinality(GroupBy(S, key, d))
  BY <1>3
<1>5. SumOver(f, MetricDays) = Cardinality(S)
  <2>1. IsFiniteSet(MetricDays) /\ \A r \in S : key[r] \in MetricDays
    BY <1>2, MetricsAssumption
  <2> QED
    BY <1>1, <1>4, <2>1, CountGroups
<1> QED
  BY <1>5 DEF S

LEMMA TrendStep ==
    ASSUME MetricsInv, ReadTrend
    PROVE  MetricsInv'
<1>1. /\ report.at = "counted" /\ UNCHANGED <<summary, atFirst, meanwhile>>
      /\ report \in MetricsReport
  BY DEF ReadTrend, MetricsInv, MetricsTypeOK
<1>2. PICK trend : trend = [d \in MetricDays |->
                              [s \in TerminalStatuses |-> Cardinality(TrendRows(d, s))]]
  OBVIOUS
<1>3. report' = [at |-> "trended", from |-> report.from, to |-> report.to,
                 counts |-> report.counts, trend |-> trend, sum |-> report.sum,
                 count |-> report.count]
  BY <1>1, <1>2 DEF ReadTrend, MetricsReport
<1>4. \A d \in MetricDays, s \in TerminalStatuses : Cardinality(TrendRows(d, s)) \in Nat
  <2> SUFFICES ASSUME NEW d \in MetricDays, NEW s \in TerminalStatuses
               PROVE  Cardinality(TrendRows(d, s)) \in Nat
    OBVIOUS
  <2>1. TrendRows(d, s) \subseteq DOMAIN summary /\ IsFiniteSet(DOMAIN summary)
    BY RowsAreCounted DEF MetricsInv, TrendRows
  <2> QED
    BY <2>1, FS_Subset, FS_CardinalityType
<1>5. report' \in MetricsReport
  <2>1. trend \in [MetricDays -> [TerminalStatuses -> Nat]]
    BY <1>2, <1>4
  <2> QED
    BY <1>1, <1>3, <2>1 DEF MetricsReport
<1>6. /\ report'.at = "trended" /\ report'.counts = report.counts
      /\ report'.from = report.from /\ report'.to = report.to /\ report'.trend = trend
  BY <1>3
<1>7. MetricsTypeOK'
  BY <1>1, <1>5 DEF MetricsInv, MetricsTypeOK
<1>8. ASSUME NEW s \in TerminalStatuses
      PROVE  TrendOf(s)' = Cardinality(StatusRows(report, s))
  <2> DEFINE f == [d \in MetricDays |-> report'.trend[d][s]]
  <2>1. TrendOf(s)' = SumOver(f, MetricDays)
    BY TrendIs DEF TrendSum
  <2>2. \A d \in MetricDays : f[d] = Cardinality(TrendRows(d, s))
    BY <1>2, <1>6
  <2> HIDE DEF f
  <2>3. PICK g : g = f
    OBVIOUS
  <2>4. \A d \in MetricDays : g[d] = Cardinality(TrendRows(d, s))
    BY <2>2, <2>3
  <2>5. SumOver(g, MetricDays) = Cardinality(StatusRows(report, s))
    BY <2>4, TrendIsAll
  <2> QED
    BY <2>1, <2>3, <2>5
<1>9. \A s \in TerminalStatuses : /\ Cardinality(StatusRows(report, s)) \in Nat
                                  /\ report.counts[s] \in Nat
                                  /\ report.counts[s] <= Cardinality(StatusRows(report, s))
                                  /\ ~meanwhile => report.counts[s] = Cardinality(StatusRows(report, s))
  BY <1>1, RowsAreCounted DEF MetricsInv, ReadSoFar
<1>10. Measured(report)' = Measured(report)
  BY <1>1, <1>6, MeasuredStays
<1>11. ReadSoFar'
  <2>1. (\A s \in TerminalStatuses : /\ TrendOf(s) >= report.counts[s]
                                     /\ ~meanwhile => TrendOf(s) = report.counts[s])'
    <3> SUFFICES ASSUME NEW s \in TerminalStatuses
                 PROVE  /\ TrendOf(s)' >= report'.counts[s]
                        /\ ~meanwhile' => TrendOf(s)' = report'.counts[s]
      OBVIOUS
    <3>1. TrendOf(s)' = Cardinality(StatusRows(report, s))
      BY <1>8
    <3>2. PICK n, c : n = Cardinality(StatusRows(report, s)) /\ c = report.counts[s]
      OBVIOUS
    <3>3. n \in Nat /\ c \in Nat /\ c <= n /\ (~meanwhile => c = n)
      BY <1>9, <3>2
    <3>4. TrendOf(s)' = n /\ report'.counts[s] = c /\ meanwhile' = meanwhile
      BY <1>1, <1>6, <3>1, <3>2
    <3> QED
      BY <3>3, <3>4
  <2>2. (~meanwhile => atFirst = Measured(report))'
    BY <1>1, <1>10 DEF MetricsInv, ReadSoFar
  <2> QED
    BY <1>6, <2>1, <2>2 DEF ReadSoFar
<1> QED
  BY <1>1, <1>7, <1>11 DEF MetricsInv, EndsAreDated

LEMMA AnswerStep ==
    ASSUME MetricsInv, ReadMeasured \/ MetricsFail
    PROVE  MetricsInv'
<1>1. UNCHANGED <<summary, atFirst, meanwhile>> /\ report \in MetricsReport
  BY DEF ReadMeasured, MetricsFail, MetricsInv, MetricsTypeOK
<1>2. CASE MetricsFail
  <2>1. report' = [at |-> "down", from |-> 0, to |-> 0, counts |-> <<>>,
                   trend |-> <<>>, sum |-> 0, count |-> 0]
    BY <1>2 DEF MetricsFail, Unasked, Asked
  <2>2. report'.at = "down" /\ report' \in MetricsReport
    BY <2>1, MetricsAssumption, FS_CardinalityType DEF MetricsReport
  <2> QED
    BY <1>1, <2>2 DEF MetricsInv, MetricsTypeOK, EndsAreDated, ReadSoFar
<1>3. CASE ReadMeasured
  <2>1. PICK m \in [sum : Nat, count : 0..Cardinality(MetricRuns)] : m = Measured(report)
    BY RowsAreCounted DEF MetricsInv
  <2>2. report' = [at |-> "answered", from |-> report.from, to |-> report.to,
                   counts |-> report.counts, trend |-> report.trend, sum |-> m.sum,
                   count |-> m.count]
    BY <1>1, <1>3, <2>1 DEF ReadMeasured, MetricsReport
  <2>3. report.at = "trended"
    BY <1>3 DEF ReadMeasured
  <2>4. /\ report' \in MetricsReport /\ report'.at = "answered" /\ report'.counts = report.counts
        /\ report'.trend = report.trend /\ report'.sum = m.sum /\ report'.count = m.count
    BY <1>1, <2>1, <2>2 DEF MetricsReport
  <2>5. \A s : TrendOf(s)' = TrendOf(s)
    BY <2>4, TrendIs DEF TrendSum
  <2>6. ReadSoFar'
    BY <1>1, <2>1, <2>3, <2>4, <2>5 DEF MetricsInv, ReadSoFar
  <2> QED
    BY <1>1, <2>4, <2>6 DEF MetricsInv, MetricsTypeOK, EndsAreDated
<1> QED
  BY <1>2, <1>3

LEMMA MetricsStep ==
    ASSUME MetricsInv, [MetricsNext]_metricsVars
    PROVE  MetricsInv'
<1>1. CASE UNCHANGED metricsVars
  <2>1. UNCHANGED <<summary, report, atFirst, meanwhile>>
    BY <1>1 DEF metricsVars
  <2>2. Measured(report)' = Measured(report)
    BY <2>1, MeasuredStays
  <2>3. \A s : TrendOf(s)' = TrendOf(s)
    BY <2>1, TrendIs
  <2>4. \A s : StatusRows(report, s)' = StatusRows(report, s)
    BY <2>1 DEF StatusRows
  <2>5. MetricsTypeOK' /\ EndsAreDated'
    BY <2>1 DEF MetricsInv, MetricsTypeOK, EndsAreDated
  <2>6. ReadSoFar'
    BY <2>1, <2>2, <2>3, <2>4 DEF MetricsInv, ReadSoFar
  <2> QED
    BY <2>5, <2>6 DEF MetricsInv
<1> QED
  BY <1>1, RowSteps, CountStep, TrendStep, AnswerStep DEF MetricsNext

-----------------------------------------------------------------------------
(* The money and the figures of a deployment                               *)

FiguresInv == StoresInv /\ UsageInv /\ PricingInv /\ MetricsInv

LEMMA FiguresBegin ==
    ASSUME ServicesInit
    PROVE  FiguresInv
BY StoresBegin, UsageBegins, PricingBegins, MetricsBegin DEF ServicesInit, FiguresInv

\* A step moves the variables of a part by a step of that part, or not at all.
LEMMA FiguresMove ==
    ASSUME [ServicesNext]_servicesVars
    PROVE  /\ [StoresNext]_storesVars /\ [UsageNext]_usageVars
           /\ [PricingNext]_pricingVars /\ [MetricsNext]_metricsVars
BY DEF ServicesNext, servicesVars, MovedBy

LEMMA FiguresStep ==
    ASSUME FiguresInv, [ServicesNext]_servicesVars
    PROVE  FiguresInv'
BY FiguresMove, StoresStep, UsageStep, PricingStep, MetricsStep DEF FiguresInv

THEOREM FiguresKeepTheirInvariants == ServicesSpec => []FiguresInv
BY FiguresBegin, FiguresStep, PTL DEF ServicesSpec

\* For any number of budgets, calls, processes and events: a budget over SQLite
\* holds what its open reservations hold and stays under its ceiling, over either
\* store it has spent what was charged to it; no usage event is lost or counted
\* twice while a recorder lives, and a report adds up; and a rate that
\* reserves for a call covers the ones that price it.
THEOREM MoneyStaysAccounted == ServicesSpec => []MoneyIsAccounted
<1>1. StoresInv => SqliteAccountHolds /\ SpentIsWhatWasCharged
  BY BooksAreGood
<1>2. UsageInv => UsageIsWhole
  BY UsageIsKept, ReportsAreSums DEF UsageInv, UsageIsWhole
<1>3. PricingInv => PriceIsSound
  BY PriceIsGood
<1>4. FiguresInv => MoneyIsAccounted
  BY <1>1, <1>2, <1>3 DEF FiguresInv, MoneyIsAccounted
<1> QED
  BY <1>4, FiguresKeepTheirInvariants, PTL

\* Over SQLite what a budget has committed shrinks in the steps that release a
\* reservation and in no other, whichever part moves.
THEOREM OnlyReleasesGiveBack == ServicesSpec => SqliteShrinksByReleaseOnly
<1>1. FiguresInv /\ [ServicesNext]_servicesVars
        => [\A b \in Budgets : store = "sqlite" => ~ShrinksUnreleased(b)]_storesVars
  BY FiguresMove, OnlyReleaseShrinks DEF FiguresInv
<1> QED
  BY <1>1, FiguresKeepTheirInvariants, PTL DEF ServicesSpec, SqliteShrinksByReleaseOnly

\* The figures of one answer are of one set of runs: though three SELECTs read
\* them, what changed after the first is all that may set them apart.
THEOREM FiguresAgree == ServicesSpec => []MetricsAgree
<1>1. FiguresInv => MetricsAgree
  BY MetricsAreGood DEF FiguresInv
<1> QED
  BY <1>1, FiguresKeepTheirInvariants, PTL
=============================================================================
