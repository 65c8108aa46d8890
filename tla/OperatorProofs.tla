----------------------------- MODULE OperatorProofs ----------------------------
(***************************************************************************)
(* What an operator is told, for any number of runs, events, viewers and   *)
(* page sizes: what a walk from page to page shows, while rows come, end   *)
(* and fail to be read, and while events are appended; for any sources     *)
(* and number of attempts, what a plan was refused or accepted for; for    *)
(* any runs and prices, what a plan was forecast to cost and what the      *)
(* forecasts were worth; and, for any limits, when work was stopped.       *)
(***************************************************************************)
EXTENDS FiguresProofs

(* Rows in order                                                           *)

\* R puts any two of S in one order.
IsOrder(R, S) ==
    /\ \A a, b \in S : a = b \/ <<a, b>> \in R \/ <<b, a>> \in R
    /\ \A a, b \in S : <<a, b>> \in R => <<b, a>> \notin R
    /\ \A a, b, c \in S : <<a, b>> \in R /\ <<b, c>> \in R => <<a, c>> \in R

Ascends(s, R) == \A i, j \in DOMAIN s : i < j => <<s[i], s[j]>> \in R

\* Of a finite set that is not empty one element comes last.
LEMMA LastOne ==
    ASSUME NEW S, IsFiniteSet(S), S # {}, NEW R, IsOrder(R, S)
    PROVE  \E m \in S : \A x \in S : x # m => <<x, m>> \in R
<1> DEFINE IsLast(m, T) == \A x \in T : x # m => <<x, m>> \in R
           B == {T \in SUBSET S : T # {} /\ \A m \in T : ~IsLast(m, T)}
<1> SUFFICES ASSUME B # {} PROVE FALSE
  OBVIOUS
<1>1. PICK T \in B : \A U \in B : U \subseteq T => U = T
  <2> HIDE DEF B
  <2>1. B \subseteq SUBSET S
    BY DEF B
  <2> QED
    BY <2>1, LeastSubset
<1>2. PICK x \in T : TRUE
  BY <1>1
<1>3. T \ {x} \notin B
  BY <1>1, <1>2
<1>4. CASE T \ {x} = {}
  BY <1>1, <1>2, <1>4
<1>5. CASE T \ {x} # {}
  <2>1. PICK m \in T \ {x} : IsLast(m, T \ {x})
    BY <1>1, <1>3, <1>5
  <2>2. x \in S /\ m \in S /\ T \subseteq S
    BY <1>1, <1>2
  <2>3. CASE <<x, m>> \in R
    BY <1>1, <2>1, <2>3
  <2>4. CASE <<m, x>> \in R
    <3>1. IsLast(x, T)
      BY <2>1, <2>2, <2>4 DEF IsOrder
    <3> QED
      BY <1>1, <1>2, <3>1
  <2> QED
    BY <2>1, <2>2, <2>3, <2>4 DEF IsOrder
<1> QED
  BY <1>4, <1>5

LEMMA OrdersPart ==
    ASSUME NEW R, NEW S, IsOrder(R, S), NEW T \in SUBSET S
    PROVE  IsOrder(R, T)
BY DEF IsOrder

\* A finite set can be put in order, the last one last.
LEMMA OrderExists ==
    ASSUME NEW S, IsFiniteSet(S), NEW R, IsOrder(R, S)
    PROVE  \E s \in [1..Cardinality(S) -> S] : Ascends(s, R)
<1> DEFINE B == {T \in SUBSET S : \A s \in [1..Cardinality(T) -> T] : ~Ascends(s, R)}
<1> SUFFICES ASSUME B # {} PROVE FALSE
  OBVIOUS
<1>1. PICK T \in B : \A U \in B : U \subseteq T => U = T
  <2> HIDE DEF B
  <2>1. B \subseteq SUBSET S
    BY DEF B
  <2> QED
    BY <2>1, LeastSubset
<1>2. IsFiniteSet(T) /\ T \in SUBSET S
  BY <1>1, FS_Subset
<1>3. T # {}
  <2> SUFFICES ASSUME T = {} PROVE FALSE
    OBVIOUS
  <2>1. Cardinality(T) = 0
    BY FS_EmptySet
  <2> DEFINE none == [i \in 1..0 |-> i]
  <2>2. none \in [1..Cardinality(T) -> T] /\ Ascends(none, R)
    BY <2>1 DEF Ascends
  <2> QED
    BY <1>1, <2>2
<1>4. PICK m \in T : \A x \in T : x # m => <<x, m>> \in R
  BY <1>2, <1>3, OrdersPart, LastOne
<1> DEFINE U == T \ {m}
           n == Cardinality(T)
<1>5. n \in Nat \ {0} /\ Cardinality(U) = n - 1 /\ U \in SUBSET S /\ U # T
  <2>1. n \in Nat /\ n # 0
    BY <1>2, <1>3, FS_CardinalityType, FS_EmptySet
  <2>2. Cardinality(U) = n - 1
    BY <1>2, <1>4, FS_RemoveElement
  <2> QED
    BY <1>2, <1>4, <2>1, <2>2
<1>6. PICK s \in [1..(n - 1) -> U] : Ascends(s, R)
  <2>1. U \notin B
    BY <1>1, <1>5
  <2> QED
    BY <1>5, <2>1
<1> DEFINE t == [i \in 1..n |-> IF i = n THEN m ELSE s[i]]
<1>7. \A i \in 1..n : i # n => i \in 1..(n - 1)
  BY <1>5
<1>8. t \in [1..n -> T]
  BY <1>4, <1>6, <1>7
<1>9. Ascends(t, R)
  <2> SUFFICES ASSUME NEW i \in 1..n, NEW j \in 1..n, i < j PROVE <<t[i], t[j]>> \in R
    BY DEF Ascends
  <2>1. i \in 1..(n - 1) /\ s[i] \in U /\ t[i] = s[i]
    BY <1>5, <1>6
  <2>2. CASE j = n
    BY <1>4, <2>1, <2>2
  <2>3. CASE j # n
    <3>1. j \in 1..(n - 1) /\ t[j] = s[j]
      BY <1>7, <2>3
    <3> QED
      BY <1>6, <2>1, <3>1 DEF Ascends
  <2> QED
    BY <2>2, <2>3
<1> QED
  BY <1>1, <1>8, <1>9

\* What of S comes before x.
Below(R, S, x) == {y \in S : <<y, x>> \in R}

\* The element at a place of an order has as many before it.
LEMMA PlaceIs ==
    ASSUME NEW S, NEW R, IsOrder(R, S), NEW n \in Nat, NEW f \in [1..n -> S],
           \A i, j \in 1..n : i < j => <<f[i], f[j]>> \in R,
           \A i, j \in 1..n : f[i] = f[j] => i = j,
           \A r \in S : \E i \in 1..n : f[i] = r
    PROVE  \A i \in 1..n : Cardinality(Below(R, S, f[i])) = i - 1
<1> SUFFICES ASSUME NEW i \in 1..n PROVE Cardinality(Below(R, S, f[i])) = i - 1
  OBVIOUS
<1> DEFINE T == Below(R, S, f[i])
           m == i - 1
           h == [j \in 1..m |-> f[j]]
<1>1. m \in Nat /\ \A j \in 1..m : j \in 1..n /\ j < i
  OBVIOUS
<1>2. \A j \in 1..m : f[j] \in T
  BY <1>1 DEF Below
<1>3. ASSUME NEW r \in T PROVE \E j \in 1..m : f[j] = r
  <2>1. r \in S /\ <<r, f[i]>> \in R
    BY DEF Below
  <2>2. PICK j \in 1..n : f[j] = r
    BY <2>1
  <2>3. j # i
    BY <2>1, <2>2 DEF IsOrder
  <2>4. ~(i < j)
    <3> SUFFICES ASSUME i < j PROVE FALSE
      OBVIOUS
    <3>1. <<f[i], f[j]>> \in R
      OBVIOUS
    <3> QED
      BY <2>1, <2>2, <3>1 DEF IsOrder
  <2>5. j \in 1..m
    BY <2>3, <2>4
  <2> QED
    BY <2>2, <2>5
<1>4. \A j, k \in 1..m : f[j] = f[k] => j = k
  BY <1>1
<1>5. h \in Surjection(1..m, T) /\ h \in Injection(1..m, T)
  <2> HIDE DEF m, T
  <2>1. h \in [1..m -> T]
    BY <1>2
  <2>2. \A r \in T : \E j \in 1..m : h[j] = r
    BY <1>3
  <2>3. \A j, k \in 1..m : h[j] = h[k] => j = k
    BY <1>4
  <2> QED
    BY <2>1, <2>2, <2>3 DEF Surjection, Injection, IsInjective
<1>6. IsFiniteSet(1..m) /\ Cardinality(1..m) = m
  <2>1. 1 \in Int /\ m \in Int
    BY <1>1
  <2>2. IsFiniteSet(1..m) /\ Cardinality(1..m) = IF 1 > m THEN 0 ELSE m - 1 + 1
    BY <2>1, FS_Interval
  <2> HIDE DEF m
  <2> QED
    BY <1>1, <2>2
<1> HIDE DEF h, T
<1>7. Cardinality(T) = m
  BY <1>5, <1>6, FS_Surjection
<1> QED
  BY <1>7 DEF T

\* What InOrder is: every element of S once, each before those it precedes.
LEMMA InOrderIs ==
    ASSUME NEW S, IsFiniteSet(S), NEW R, IsOrder(R, S), NEW s, s = InOrder(S, R)
    PROVE  /\ Cardinality(S) \in Nat
           /\ s \in [1..Cardinality(S) -> S] /\ s \in Seq(S) /\ Len(s) = Cardinality(S)
           /\ \A i, j \in 1..Len(s) : i < j => <<s[i], s[j]>> \in R
           /\ \A i, j \in 1..Len(s) : s[i] = s[j] => i = j
           /\ \A r \in S : \E i \in 1..Len(s) : s[i] = r
           /\ ToSet(s) = S
<1> DEFINE n == Cardinality(S)
<1>1. n \in Nat
  BY FS_CardinalityType
<1>2. PICK f \in [1..n -> S] : Ascends(f, R)
  BY OrderExists
<1>3. \A i, j \in 1..n : i < j => <<f[i], f[j]>> \in R
  BY <1>2 DEF Ascends
<1>4. \A i, j \in 1..n : f[i] = f[j] => i = j
  <2> SUFFICES ASSUME NEW i \in 1..n, NEW j \in 1..n, i < j, f[i] = f[j] PROVE FALSE
    BY <1>1
  <2>1. <<f[i], f[j]>> \in R /\ f[i] \in S /\ f[j] \in S
    BY <1>2, <1>3
  <2> QED
    BY <2>1 DEF IsOrder
<1>5. f \in Surjection(1..n, S)
  <2>1. f \in Injection(1..n, S)
    BY <1>2, <1>4 DEF Injection, IsInjective
  <2>2. Cardinality(1..n) = n
    BY <1>1, FS_Interval
  <2> QED
    BY <2>1, <2>2, FS_Injection
<1>6. \A r \in S : \E i \in 1..n : f[i] = r
  BY <1>5 DEF Surjection
<1>7. ASSUME NEW i \in 1..n
      PROVE  f[i] = CHOOSE x \in S : Cardinality({y \in S : <<y, x>> \in R}) = i - 1
  <2>1. \A j \in 1..n : Cardinality(Below(R, S, f[j])) = j - 1
    <3> HIDE DEF n
    <3> QED
      BY <1>1, <1>2, <1>3, <1>4, <1>6, PlaceIs
  <2>2. f[i] \in S /\ Cardinality(Below(R, S, f[i])) = i - 1
    BY <1>2, <2>1
  <2>3. ASSUME NEW x \in S, Cardinality(Below(R, S, x)) = i - 1 PROVE x = f[i]
    <3>1. PICK j \in 1..n : f[j] = x
      BY <1>6
    <3>2. j - 1 = i - 1
      BY <2>1, <2>3, <3>1
    <3>3. j = i
      BY <1>1, <3>2
    <3> QED
      BY <3>1, <3>3
  <2> QED
    BY <2>2, <2>3 DEF Below
<1>8. s = f
  BY <1>2, <1>7 DEF InOrder
<1>9. s \in Seq(S) /\ Len(s) = n
  BY <1>1, <1>2, <1>8
<1>10. ToSet(s) = S
  BY <1>2, <1>6, <1>8 DEF ToSet
<1> QED
  BY <1>1, <1>2, <1>3, <1>4, <1>6, <1>8, <1>9, <1>10

\* There is one way to put a set in order.
LEMMA OneOrder ==
    ASSUME NEW S, IsFiniteSet(S), NEW R, IsOrder(R, S),
           NEW s \in Seq(S), ToSet(s) = S,
           \A i, j \in 1..Len(s) : i < j => <<s[i], s[j]>> \in R
    PROVE  s = InOrder(S, R)
<1> DEFINE t == InOrder(S, R)
           n == Len(s)
<1>1. /\ n \in Nat /\ s \in [1..n -> S]
      /\ \A r \in S : \E i \in 1..n : s[i] = r
  BY DEF ToSet
<1>2. \A i, j \in 1..n : s[i] = s[j] => i = j
  <2> SUFFICES ASSUME NEW i \in 1..n, NEW j \in 1..n, i < j, s[i] = s[j] PROVE FALSE
    BY <1>1
  <2> QED
    BY <1>1 DEF IsOrder
<1>3. Cardinality(S) = n
  <2>1. s \in Surjection(1..n, S) /\ s \in Injection(1..n, S)
    BY <1>1, <1>2 DEF Surjection, Injection, IsInjective
  <2>2. Cardinality(1..n) = n /\ IsFiniteSet(1..n)
    <3>1. 1 \in Int /\ n \in Int /\ n \in Nat
      BY <1>1
    <3> HIDE DEF n
    <3>2. IsFiniteSet(1..n)
      BY <3>1, FS_Interval
    <3>3. Cardinality(1..n) = IF 1 > n THEN 0 ELSE n - 1 + 1
      BY <3>1, FS_Interval
    <3> QED
      BY <3>1, <3>2, <3>3
  <2> QED
    BY <2>1, <2>2, FS_Surjection
<1>4. /\ t \in [1..n -> S] /\ t \in Seq(S) /\ Len(t) = n
      /\ \A i, j \in 1..n : i < j => <<t[i], t[j]>> \in R
      /\ \A r \in S : \E i \in 1..n : t[i] = r
  BY <1>3, InOrderIs
<1> HIDE DEF t, n
<1> DEFINE D == {i \in 1..n : s[i] # t[i]}
           Falling == {pair \in (1..n) \X (1..n) : pair[1] > pair[2]}
<1>5. CASE D = {}
  <2>1. \A i \in 1..n : s[i] = t[i]
    BY <1>5
  <2>2. s = t
    BY <1>1, <1>4, <2>1
  <2> QED
    BY <2>2 DEF t
<1>6. CASE D # {}
  <2>1. IsFiniteSet(D)
    <3>1. 1 \in Int /\ n \in Int
      BY <1>1
    <3>2. IsFiniteSet(1..n)
      BY <3>1, FS_Interval
    <3> QED
      BY <3>2, FS_Subset
  <2>2. IsOrder(Falling, D)
    BY <1>1 DEF IsOrder
  <2>3. PICK i \in D : \A x \in D : x # i => <<x, i>> \in Falling
    <3> HIDE DEF D, Falling
    <3> QED
      BY <1>6, <2>1, <2>2, LastOne
  <2>4. i \in 1..n /\ s[i] # t[i] /\ \A k \in 1..n : k < i => s[k] = t[k]
    <3>1. i \in 1..n /\ s[i] # t[i]
      BY <2>3
    <3>2. ASSUME NEW k \in 1..n, k < i, s[k] # t[k] PROVE FALSE
      <4>1. <<k, i>> \in Falling
        BY <1>1, <2>3, <3>1, <3>2
      <4>2. k > i
        BY <4>1
      <4> QED
        BY <1>1, <3>1, <3>2, <4>2
    <3> QED
      BY <3>1, <3>2
  <2>5. PICK j \in 1..n : t[j] = s[i]
    BY <1>1, <1>4, <2>4
  <2>6. PICK k \in 1..n : s[k] = t[i]
    BY <1>1, <1>4, <2>4
  <2>7. j > i
    <3>1. j # i
      BY <2>4, <2>5
    <3>2. ~(j < i)
      BY <1>1, <1>2, <2>4, <2>5
    <3> QED
      BY <1>1, <2>4, <3>1, <3>2
  <2>8. k > i
    <3>1. k # i
      BY <2>4, <2>6
    <3>2. ASSUME k < i PROVE FALSE
      <4>1. t[k] = t[i]
        BY <2>4, <2>6, <3>2
      <4>2. <<t[k], t[i]>> \in R /\ t[k] \in S /\ t[i] \in S
        BY <1>4, <2>4, <3>2
      <4> QED
        BY <4>1, <4>2 DEF IsOrder
    <3> QED
      BY <1>1, <2>4, <3>1, <3>2
  <2>9. <<t[i], s[i]>> \in R /\ <<s[i], t[i]>> \in R
    BY <1>1, <1>4, <2>4, <2>5, <2>6, <2>7, <2>8 DEF n
  <2> QED
    BY <1>1, <1>4, <2>4, <2>9 DEF IsOrder
<1> QED
  BY <1>5, <1>6 DEF t

\* The first page of an order.
LEMMA FirstOfIs ==
    ASSUME NEW S, NEW s \in Seq(S), NEW p, p = FirstOf(s)
    PROVE  /\ p \in Seq(S)
           /\ Len(p) = IF Len(s) > Limit THEN Limit ELSE Len(s)
           /\ \A i \in 1..Len(p) : p[i] = s[i]
<1> DEFINE n == IF Len(s) > Limit THEN Limit ELSE Len(s)
<1>1. Len(s) \in Nat /\ n \in Nat /\ n <= Len(s)
  BY ReadsAssumption
<1>2. \A i \in 1..n : s[i] \in S
  BY <1>1
<1> QED
  BY <1>1, <1>2, SubSeqProperties DEF FirstOf

-----------------------------------------------------------------------------
(* The events of a run                                                     *)

UpTo(S, n) == {m \in S : m <= n}
LaterThan(S, n) == {m \in S : m > n}

\* One append is under way at a time, with the greatest number and the last to
\* be logged; what was read is the log up to an event of it.
FollowInv ==
    /\ serial \in 0..MaxSerial
    /\ logged \subseteq 1..serial
    /\ writing \in [Appenders -> 0..serial]
    /\ follower \in Follower
    /\ \A a, b \in Appenders : writing[a] # 0 /\ writing[b] # 0 => a = b
    /\ \A a \in Appenders : writing[a] # 0 => writing[a] = serial /\ serial \notin logged
    /\ follower.after \in {0} \cup logged
    /\ follower.seen = InOrder(UpTo(logged, follower.after), Increasing)

LEMMA NumbersInOrder ==
    ASSUME NEW S \in SUBSET (1..MaxSerial)
    PROVE  IsFiniteSet(S) /\ IsOrder(Increasing, S)
<1>1. IsFiniteSet(S)
  <2>1. 0 \in Int /\ 1 \in Int /\ MaxSerial \in Int
    BY ReadsAssumption
  <2>2. IsFiniteSet(1..MaxSerial)
    BY <2>1, FS_Interval
  <2> QED
    BY <2>2, FS_Subset
<1>2. \A a, b \in S : <<a, b>> \in Increasing <=> a < b
  BY DEF Increasing
<1>3. \A a, b, c \in S : a < b /\ b < c => a < c
  BY ReadsAssumption
<1>4. \A a, b \in S : (a = b \/ a < b \/ b < a) /\ (a < b => ~(b < a))
  BY ReadsAssumption
<1> QED
  BY <1>1, <1>2, <1>3, <1>4 DEF IsOrder

LEMMA EventsInOrder ==
    ASSUME NEW S \in SUBSET (1..MaxSerial), NEW s, s = InOrder(S, Increasing)
    PROVE  /\ s \in Seq(S)
           /\ \A i, j \in 1..Len(s) : i < j => s[i] < s[j]
           /\ \A n \in S : \E i \in 1..Len(s) : s[i] = n
<1>1. IsFiniteSet(S) /\ IsOrder(Increasing, S)
  BY NumbersInOrder
<1>2. /\ s \in Seq(S)
      /\ \A i, j \in 1..Len(s) : i < j => <<s[i], s[j]>> \in Increasing
      /\ \A n \in S : \E i \in 1..Len(s) : s[i] = n
  BY <1>1, InOrderIs
<1>3. \A a, b : <<a, b>> \in Increasing => a < b
  BY DEF Increasing
<1> QED
  BY <1>2, <1>3

LEMMA NothingInOrder == InOrder({}, Increasing) = <<>>
<1>1. IsFiniteSet({}) /\ IsOrder(Increasing, {})
  BY NumbersInOrder
<1>2. <<>> \in Seq({}) /\ ToSet(<<>>) = {}
  BY DEF ToSet
<1>3. \A i, j \in 1..Len(<<>>) : i < j => <<(<<>>)[i], (<<>>)[j]>> \in Increasing
  OBVIOUS
<1> QED
  BY <1>1, <1>2, <1>3, OneOrder

LEMMA LoggedNumbers ==
    ASSUME FollowInv
    PROVE  /\ serial \in Nat /\ MaxSerial \in Nat /\ serial <= MaxSerial
           /\ logged \subseteq 1..MaxSerial
           /\ \A n : UpTo(logged, n) \in SUBSET (1..MaxSerial)
<1>1. serial \in Nat /\ MaxSerial \in Nat /\ serial <= MaxSerial
  BY ReadsAssumption DEF FollowInv
<1>2. logged \subseteq 1..MaxSerial
  BY <1>1 DEF FollowInv
<1> QED
  BY <1>1, <1>2 DEF UpTo

LEMMA FollowBegins ==
    ASSUME FollowInit
    PROVE  FollowInv
<1> USE DEF FollowInit
<1>1. UpTo(logged, 0) = {}
  BY DEF UpTo
<1>2. follower \in Follower /\ follower.after = 0 /\ follower.seen = <<>>
  BY ReadsAssumption DEF Follower
<1>3. (follower.seen = InOrder(UpTo(logged, follower.after), Increasing))
  BY <1>1, <1>2, NothingInOrder
<1>4. /\ serial = 0 /\ 0 \in 0..MaxSerial /\ logged \subseteq 1..serial
      /\ writing \in [Appenders -> 0..serial] /\ \A a \in Appenders : writing[a] = 0
  BY ReadsAssumption
<1> QED
  BY <1>2, <1>3, <1>4 DEF FollowInv

LEMMA InsertStep ==
    ASSUME FollowInv, NEW a \in Appenders, InsertLogged(a)
    PROVE  FollowInv'
<1>1. /\ serial' = serial + 1 /\ serial < MaxSerial
      /\ writing' = [writing EXCEPT ![a] = serial + 1]
      /\ UNCHANGED <<logged, follower>>
      /\ \A b \in Appenders : writing[b] = 0
  BY DEF InsertLogged, RowIsFree
<1>2. serial \in Nat /\ MaxSerial \in Nat /\ logged \subseteq 1..serial
  BY LoggedNumbers DEF FollowInv
<1>3. writing' \in [Appenders -> 0..serial'] /\ logged' \subseteq 1..serial'
  BY <1>1, <1>2 DEF FollowInv
<1>4. \A b \in Appenders : writing'[b] # 0 => b = a
  BY <1>1 DEF FollowInv
<1>5. writing'[a] = serial' /\ serial' \notin logged'
  BY <1>1, <1>2 DEF FollowInv
<1>6. serial' \in 0..MaxSerial
  BY <1>1, <1>2
<1>7. (follower.seen = InOrder(UpTo(logged, follower.after), Increasing))'
  BY <1>1 DEF FollowInv, UpTo, Increasing
<1> QED
  BY <1>1, <1>3, <1>4, <1>5, <1>6, <1>7 DEF FollowInv

LEMMA EndInsertStep ==
    ASSUME FollowInv, NEW a \in Appenders, EndInsert(a)
    PROVE  FollowInv'
<1>1. /\ writing[a] # 0 /\ writing' = [writing EXCEPT ![a] = 0]
      /\ logged' \in {logged, logged \cup {writing[a]}}
      /\ UNCHANGED <<serial, follower>>
  BY DEF EndInsert
<1>2. writing[a] = serial /\ serial \notin logged /\ serial \in Nat \ {0}
  BY <1>1, LoggedNumbers DEF FollowInv
<1>3. logged' \subseteq 1..serial' /\ writing' \in [Appenders -> 0..serial']
  BY <1>1, <1>2 DEF FollowInv
<1>4. \A b \in Appenders : writing'[b] = 0
  BY <1>1 DEF FollowInv
<1>5. follower.after < serial /\ follower.after \in Nat
  <2>1. follower.after = 0 \/ follower.after \in logged
    BY DEF FollowInv
  <2>2. \A n \in logged : n \in Nat /\ n < serial
    BY <1>2 DEF FollowInv
  <2> QED
    BY <1>2, <2>1, <2>2
<1>6. UpTo(logged, follower.after)' = UpTo(logged, follower.after)
  <2>1. UpTo(logged, follower.after)' = {m \in logged' : m <= follower.after}
    BY <1>1 DEF UpTo
  <2> QED
    BY <1>1, <1>2, <1>5, <2>1 DEF UpTo
<1>7. (follower.seen = InOrder(UpTo(logged, follower.after), Increasing))'
  BY <1>1, <1>6 DEF FollowInv, Increasing
<1> QED
  BY <1>1, <1>3, <1>4, <1>7 DEF FollowInv

LEMMA StartFollowingStep ==
    ASSUME FollowInv, StartFollowing
    PROVE  FollowInv'
<1>1. /\ follower' = [at |-> "reading", after |-> 0, seen |-> <<>>]
      /\ UNCHANGED <<serial, logged, writing>>
  BY DEF StartFollowing
<1>2. UpTo(logged, 0)' = {}
  BY <1>1, LoggedNumbers DEF UpTo
<1>3. follower' \in Follower
  BY <1>1, ReadsAssumption DEF Follower
<1>4. (follower.seen = InOrder(UpTo(logged, follower.after), Increasing))'
  <2>1. follower'.after = 0 /\ follower'.seen = <<>>
    BY <1>1
  <2>2. UpTo(logged, follower.after)' = {}
    BY <1>1, <2>1, LoggedNumbers DEF UpTo
  <2> QED
    BY <2>1, <2>2, NothingInOrder DEF Increasing
<1> QED
  BY <1>1, <1>3, <1>4 DEF FollowInv

\* A page after another one: together they are the log up to its last event.
LEMMA PageOfEvents ==
    ASSUME NEW S \in SUBSET (1..MaxSerial), NEW after \in Nat,
           NEW items, items = FirstOf(InOrder(LaterThan(S, after), Increasing)), items # <<>>
    PROVE  /\ Last(items) \in S /\ items \in Seq(S)
           /\ InOrder(UpTo(S, after), Increasing) \o items
                 = InOrder(UpTo(S, Last(items)), Increasing)
<1> DEFINE P == UpTo(S, after)
           T == LaterThan(S, after)
           last == Last(items)
           W == UpTo(S, last)
           seen == InOrder(P, Increasing)
           rows == InOrder(T, Increasing)
           k == Len(items)
           m == Len(seen)
           all == seen \o items
<1>a. items = FirstOf(rows)
  OBVIOUS
<1>b. seen = InOrder(P, Increasing) /\ rows = InOrder(T, Increasing) /\ last = Last(items)
  OBVIOUS
<1> HIDE DEF P, T, last, W, seen, rows
<1>1. MaxSerial \in Nat /\ \A n \in S : n \in Nat /\ n \in 1..MaxSerial
  BY ReadsAssumption
<1>c. /\ P \subseteq S /\ T \subseteq S /\ W \subseteq S
      /\ \A n \in S : /\ n \in P <=> n <= after
                      /\ n \in T <=> n > after
                      /\ n \in W <=> n <= last
  BY DEF UpTo, LaterThan, P, T, W
<1>2. /\ P \in SUBSET (1..MaxSerial) /\ T \in SUBSET (1..MaxSerial)
      /\ W \in SUBSET (1..MaxSerial)
  BY <1>c
<1>3. IsFiniteSet(W) /\ IsOrder(Increasing, W)
  BY <1>2, NumbersInOrder
<1>4. \A a, b \in 1..MaxSerial : <<a, b>> \in Increasing <=> a < b
  BY DEF Increasing
<1>5. /\ seen \in Seq(P)
      /\ \A i, j \in 1..Len(seen) : i < j => seen[i] < seen[j]
      /\ \A r \in P : \E i \in 1..Len(seen) : seen[i] = r
  BY <1>b, <1>2, EventsInOrder
<1>6. /\ rows \in Seq(T)
      /\ \A i, j \in 1..Len(rows) : i < j => rows[i] < rows[j]
      /\ \A r \in T : \E i \in 1..Len(rows) : rows[i] = r
  BY <1>b, <1>2, EventsInOrder
<1>7. /\ items \in Seq(T)
      /\ Len(items) = IF Len(rows) > Limit THEN Limit ELSE Len(rows)
      /\ \A i \in 1..Len(items) : items[i] = rows[i]
  BY <1>a, <1>6, FirstOfIs
<1>8. m \in Nat /\ k \in Nat /\ Len(rows) \in Nat /\ k > 0 /\ k <= Len(rows)
  <2>1. m \in Nat /\ k \in Nat /\ Len(rows) \in Nat
    <3>1. m \in Nat
      BY <1>5
    <3>2. k \in Nat
      BY <1>7
    <3>3. Len(rows) \in Nat
      BY <1>6
    <3> QED
      BY <3>1, <3>2, <3>3
  <2>2. k # 0
    BY <1>7
  <2>3. k <= Len(rows)
    BY <1>7, <2>1, ReadsAssumption
  <2> QED
    BY <2>1, <2>2, <2>3
<1>9. last = items[k] /\ last \in T /\ last = rows[k]
  BY <1>b, <1>7, <1>8 DEF Last
<1>10. \A i \in 1..m : seen[i] \in P
  BY <1>5
<1>11. \A i \in 1..k : items[i] \in T /\ items[i] = rows[i] /\ i \in 1..Len(rows)
  BY <1>7, <1>8
<1>12. /\ all \in Seq(P \cup T) /\ Len(all) = m + k
       /\ \A i \in 1..(m + k) : all[i] = IF i <= m THEN seen[i] ELSE items[i - m]
  <2>1. seen \in Seq(P \cup T) /\ items \in Seq(P \cup T)
    BY <1>5, <1>7, SeqMonotonic
  <2> QED
    BY <2>1, ConcatProperties
<1>13. k = Len(items) /\ m = Len(seen) /\ all = seen \o items
  OBVIOUS
<1> HIDE DEF k, m, all
<1>14. /\ \A i \in 1..m : i \in 1..(m + k) /\ all[i] = seen[i]
       /\ \A i \in 1..k : m + i \in 1..(m + k) /\ all[m + i] = items[i]
       /\ \A i \in 1..(m + k) : \/ i \in 1..m /\ all[i] = seen[i]
                                \/ i - m \in 1..k /\ i > m /\ all[i] = items[i - m]
  BY <1>8, <1>12
<1>15. \A i, j \in 1..k : i < j => items[i] < items[j]
  BY <1>6, <1>11
<1>16. \A i \in 1..k : items[i] <= last
  <2> SUFFICES ASSUME NEW i \in 1..k PROVE items[i] <= last
    OBVIOUS
  <2>1. last \in Nat /\ items[i] \in Nat
    <3>1. last \in S /\ items[i] \in S
      BY <1>c, <1>9, <1>11
    <3>2. \A n \in S : n \in Nat
      BY <1>1
    <3> QED
      BY <3>1, <3>2
  <2>2. i = k => items[i] = last
    BY <1>9
  <2>3. i # k => items[i] < last
    <3>1. i # k => i < k /\ k \in 1..k
      BY <1>8
    <3> QED
      BY <1>9, <1>15, <3>1
  <2> QED
    BY <2>1, <2>2, <2>3
<1>17. \A r \in T : r <= last => \E i \in 1..k : items[i] = r
  <2> SUFFICES ASSUME NEW r \in T, r <= last PROVE \E i \in 1..k : items[i] = r
    OBVIOUS
  <2>1. PICK i \in 1..Len(rows) : rows[i] = r
    BY <1>6
  <2>2. ASSUME i > k PROVE FALSE
    <3>1. k \in 1..Len(rows) /\ k < i
      BY <1>8, <2>1, <2>2
    <3>2. last < r
      BY <1>6, <1>9, <2>1, <3>1
    <3>3. last \in Nat /\ r \in Nat
      BY <1>c, <1>1, <1>9
    <3> QED
      BY <3>2, <3>3
  <2>3. i \in 1..k
    BY <1>8, <2>1, <2>2
  <2> QED
    BY <1>11, <2>1, <2>3
<1>18. last > after /\ last \in S /\ last \in Nat
  BY <1>c, <1>1, <1>9
<1>19. \A i \in 1..(m + k) : all[i] \in W
  <2> SUFFICES ASSUME NEW i \in 1..(m + k) PROVE all[i] \in W
    OBVIOUS
  <2>1. CASE i \in 1..m /\ all[i] = seen[i]
    <3>1. all[i] \in S /\ all[i] <= after
      BY <1>c, <1>10, <2>1
    <3>2. all[i] \in Nat /\ last \in Nat
      BY <1>c, <1>1, <1>18, <3>1
    <3>3. all[i] <= last
      BY <1>c, <1>18, <3>1, <3>2
    <3> QED
      BY <1>c, <3>1, <3>3
  <2>2. CASE i - m \in 1..k /\ all[i] = items[i - m]
    <3>1. all[i] \in S /\ all[i] <= last
      BY <1>c, <1>11, <1>16, <2>2
    <3> QED
      BY <1>c, <3>1
  <2> QED
    BY <1>14, <2>1, <2>2
<1>20. \A n \in W : \E i \in 1..(m + k) : all[i] = n
  <2> SUFFICES ASSUME NEW n \in W PROVE \E i \in 1..(m + k) : all[i] = n
    OBVIOUS
  <2>0. n \in S /\ n <= last /\ n \in Nat
    BY <1>c, <1>1
  <2>1. CASE n <= after
    <3>1. n \in P
      BY <1>c, <2>0, <2>1
    <3>2. PICK i \in 1..m : seen[i] = n
      BY <1>5, <1>13, <3>1
    <3> QED
      BY <1>14, <3>2
  <2>2. CASE n > after
    <3>1. n \in T
      BY <1>c, <2>0, <2>2
    <3>2. PICK i \in 1..k : items[i] = n
      BY <1>17, <2>0, <3>1
    <3> QED
      BY <1>14, <3>2
  <2> QED
    BY <2>0, <2>1, <2>2
<1>21. \A i, j \in 1..(m + k) : i < j => all[i] < all[j]
  <2> SUFFICES ASSUME NEW i \in 1..(m + k), NEW j \in 1..(m + k), i < j
               PROVE  all[i] < all[j]
    OBVIOUS
  <2>1. CASE i \in 1..m /\ all[i] = seen[i] /\ j \in 1..m /\ all[j] = seen[j]
    <3>1. seen[i] < seen[j]
      BY <1>5, <1>13, <2>1
    <3> QED
      BY <2>1, <3>1
  <2>2. CASE i \in 1..m /\ all[i] = seen[i] /\ j - m \in 1..k /\ all[j] = items[j - m]
    <3>1. all[i] \in P /\ all[j] \in T
      BY <1>10, <1>11, <2>2
    <3>2. all[i] \in Nat /\ all[j] \in Nat /\ all[i] <= after /\ all[j] > after
      BY <1>c, <1>1, <3>1
    <3> QED
      BY <3>2
  <2>3. CASE i - m \in 1..k /\ all[i] = items[i - m] /\ j - m \in 1..k /\ all[j] = items[j - m]
    <3>1. i - m < j - m
      BY <1>8
    <3> QED
      BY <1>15, <2>3, <3>1
  <2>4. ~(i > m /\ j \in 1..m)
    BY <1>8
  <2> QED
    BY <1>14, <2>1, <2>2, <2>3, <2>4
<1>22. all = InOrder(W, Increasing)
  <2>1. DOMAIN all = 1..(m + k) /\ Len(all) = m + k
    BY <1>8, <1>12
  <2>2. all \in Seq(W)
    BY <1>12, <1>19, <2>1
  <2>3. ToSet(all) = W
    BY <1>19, <1>20, <2>1 DEF ToSet
  <2>4. \A i, j \in 1..Len(all) : i < j => <<all[i], all[j]>> \in Increasing
    BY <1>c, <1>2, <1>4, <1>19, <1>21, <2>1
  <2> QED
    BY <1>3, <2>2, <2>3, <2>4, OneOrder
<1>23. items \in Seq(S) /\ seen \in Seq(S)
  <2>1. P \subseteq S /\ T \subseteq S
    BY <1>c
  <2> QED
    BY <1>5, <1>7, <2>1, SeqMonotonic
<1> QED
  BY <1>13, <1>18, <1>22, <1>23 DEF seen, P, W, last

LEMMA ReadEventsStep ==
    ASSUME FollowInv, ReadEvents
    PROVE  FollowInv'
<1> DEFINE after == follower.after
           rows == InOrder(LaterThan(logged, after), Increasing)
           items == FirstOf(rows)
           later == IF items = <<>> THEN after ELSE Last(items)
           more == follower.seen \o items
<1>1. /\ follower' = [at |-> IF Len(rows) > Limit THEN "reading" ELSE "over",
                     after |-> later, seen |-> more]
      /\ UNCHANGED <<serial, logged, writing>>
  BY DEF ReadEvents, LaterThan
<1>2. after \in Nat /\ logged \in SUBSET (1..MaxSerial)
  <2>1. logged \subseteq 1..MaxSerial
    BY LoggedNumbers
  <2>2. after \in 0..MaxSerial
    BY DEF FollowInv, Follower
  <2> QED
    BY <2>1, <2>2, LoggedNumbers
<1>3. follower.seen = InOrder(UpTo(logged, after), Increasing)
  BY DEF FollowInv, UpTo
<1>4. follower.seen \in Seq(1..MaxSerial)
  BY DEF FollowInv, Follower
<1>5. /\ later \in {0} \cup logged /\ more \in Seq(1..MaxSerial)
      /\ more = InOrder(UpTo(logged, later), Increasing)
  <2>1. CASE items = <<>>
    <3>1. later = after /\ more = follower.seen
      BY <1>4, <2>1, ConcatEmptySeq
    <3> QED
      BY <1>3, <1>4, <3>1 DEF FollowInv
  <2>2. CASE items # <<>>
    <3>1. /\ Last(items) \in logged /\ items \in Seq(logged)
          /\ more = InOrder(UpTo(logged, Last(items)), Increasing)
      <4>1. items = FirstOf(InOrder(LaterThan(logged, after), Increasing))
        OBVIOUS
      <4> HIDE DEF items, later, more, rows, after
      <4>2. /\ Last(items) \in logged /\ items \in Seq(logged)
            /\ InOrder(UpTo(logged, after), Increasing) \o items
                  = InOrder(UpTo(logged, Last(items)), Increasing)
        BY <1>2, <2>2, <4>1, PageOfEvents
      <4> QED
        BY <1>3, <4>2 DEF more
    <3>2. items \in Seq(1..MaxSerial)
      BY <1>2, <3>1, SeqMonotonic
    <3>3. more \in Seq(1..MaxSerial)
      BY <1>4, <3>2, ConcatProperties
    <3> QED
      BY <2>2, <3>1, <3>3
  <2> QED
    BY <2>1, <2>2
<1> HIDE DEF later, more, rows
<1>6. follower' \in Follower /\ follower'.after = later /\ follower'.seen = more
  <2>1. later \in 0..MaxSerial
    BY <1>2, <1>5, LoggedNumbers
  <2> QED
    BY <1>1, <1>5, <2>1 DEF Follower
<1>7. (follower.seen = InOrder(UpTo(logged, follower.after), Increasing))'
  BY <1>1, <1>5, <1>6 DEF UpTo, Increasing
<1> QED
  BY <1>1, <1>5, <1>6, <1>7 DEF FollowInv

LEMMA FollowStep ==
    ASSUME FollowInv, [FollowNext]_followVars
    PROVE  FollowInv'
<1>1. CASE UNCHANGED followVars
  BY <1>1 DEF FollowInv, followVars, UpTo, Increasing
<1>2. CASE FollowNext
  BY <1>2, InsertStep, EndInsertStep, StartFollowingStep, ReadEventsStep DEF FollowNext
<1> QED
  BY <1>1, <1>2

LEMMA FollowIsGood == ASSUME FollowInv PROVE PagesFollowTheLog
BY DEF FollowInv, PagesFollowTheLog, UpTo

-----------------------------------------------------------------------------
(* The list of runs                                                        *)

\* KeyOf, IsAfter and IsVisible of a board b.
KeyIn(b, r, ordering) == IF ordering.sort = "createdAt" THEN b[r].key ELSE b[r].status

AfterIn(b, ordering, cursor, r) ==
    cursor # NoCursor =>
        \/ Ahead(ordering, cursor.key, KeyIn(b, r, ordering))
        \/ cursor.key = KeyIn(b, r, ordering) /\ Ahead(ordering, cursor.row, r)

SeenBy(b, scope, r) == scope = "operator" \/ b[r].owner = scope

\* No row twice, but for those in `moved`.
ListsOnce(s, moved) == \A m, n \in DOMAIN s : s[m] = s[n] => m = n \/ s[m] \in moved

\* A walk at a position of the order: what it reached is behind the position, and
\* what it had to reach is reached, cut or ahead.
WalkIsAt(b, w, pos, reached) ==
    /\ \A r \in reached : r \in w.moved \/ ~AfterIn(b, w.order, pos, r)
    /\ \A r \in w.since : \/ r \in w.moved \/ ~SeenBy(b, w.scope, r)
                          \/ r \in reached \/ r \in w.cut
                          \/ AfterIn(b, w.order, pos, r)

\* A viewer's walk over the board b: from its last answer, and from the store
\* pages it has read for the next one.
ViewerIsSound(b, w) ==
    /\ w.since \subseteq DOMAIN b
    /\ \A r \in ToSet(w.got) \cup ToSet(w.page) : r \in DOMAIN b /\ SeenBy(b, w.scope, r)
    /\ w.next # NoCursor => w.next.order = w.order
    /\ w.cursor # NoCursor => w.cursor.order = w.order
    /\ ListsOnce(w.got, w.moved)
    /\ w.at = "answered" => w.next # NoCursor
    /\ w.at \in {"reading", "answered"} =>
          /\ WalkIsAt(b, w, w.next, ToSet(w.got))
          /\ w.open => \A r \in w.since : r \in w.moved \/ b[r].status = RunningStatus
    /\ w.at = "reading" =>
          /\ w.passes < FillPages
          /\ WalkIsAt(b, w, w.cursor, ToSet(w.got) \cup ToSet(w.page))
          /\ ListsOnce(w.page, w.moved)
          /\ \A r \in ToSet(w.got) \cap ToSet(w.page) : r \in w.moved
    /\ w.at = "over" =>
          \A r \in w.since : \/ r \in w.moved \/ ~SeenBy(b, w.scope, r)
                             \/ r \in ToSet(w.got) \/ r \in w.cut

BoardIsSound(b) ==
    /\ DOMAIN b \subseteq Rows /\ IsFiniteSet(DOMAIN b)
    /\ \A r \in DOMAIN b : b[r] \in RunRow

ListInv ==
    /\ BoardIsSound(board)
    /\ viewer \in [Viewers -> Viewer]
    /\ \A v \in Viewers : ViewerIsSound(board, viewer[v])

LEMMA ReadsTheBoard ==
    ASSUME NEW r, NEW ordering, NEW cursor, NEW scope
    PROVE  /\ KeyOf(r, ordering) = KeyIn(board, r, ordering)
           /\ IsAfter(ordering, cursor, r) <=> AfterIn(board, ordering, cursor, r)
           /\ IsVisible(scope, r) <=> SeenBy(board, scope, r)
<1>1. KeyOf(r, ordering) = KeyIn(board, r, ordering)
  BY DEF KeyOf, KeyIn
<1>2. IsAfter(ordering, cursor, r) <=> AfterIn(board, ordering, cursor, r)
  BY <1>1 DEF IsAfter, AfterIn
<1> QED
  BY <1>1, <1>2 DEF IsVisible, SeenBy

LEMMA ListIsGood == ASSUME ListInv PROVE PagesListEachRunOnce
<1> SUFFICES ASSUME NEW v \in Viewers
             PROVE  /\ \A r \in ToSet(viewer[v].got) : IsVisible(viewer[v].scope, r)
                    /\ \A m, n \in DOMAIN viewer[v].got :
                          viewer[v].got[m] = viewer[v].got[n] =>
                             m = n \/ viewer[v].got[m] \in viewer[v].moved
                    /\ viewer[v].at = "over" =>
                          {r \in viewer[v].since \ viewer[v].moved : IsVisible(viewer[v].scope, r)}
                              \subseteq ToSet(viewer[v].got) \cup viewer[v].cut
  BY DEF PagesListEachRunOnce
<1>1. ViewerIsSound(board, viewer[v])
  BY DEF ListInv
<1>2. \A r : IsVisible(viewer[v].scope, r) <=> SeenBy(board, viewer[v].scope, r)
  BY ReadsTheBoard
<1>3. \A r \in ToSet(viewer[v].got) : IsVisible(viewer[v].scope, r)
  BY <1>1, <1>2 DEF ViewerIsSound
<1>4. \A m, n \in DOMAIN viewer[v].got :
         viewer[v].got[m] = viewer[v].got[n] =>
            m = n \/ viewer[v].got[m] \in viewer[v].moved
  BY <1>1 DEF ViewerIsSound, ListsOnce
<1>5. viewer[v].at = "over" =>
          {r \in viewer[v].since \ viewer[v].moved : IsVisible(viewer[v].scope, r)}
              \subseteq ToSet(viewer[v].got) \cup viewer[v].cut
  BY <1>1, <1>2 DEF ViewerIsSound
<1> QED
  BY <1>3, <1>4, <1>5

LEMMA UnopenedIsSound ==
    /\ Unopened \in Viewer
    /\ \A b : ViewerIsSound(b, Unopened)
<1>1. Unopened \in Viewer
  BY ReadsAssumption DEF Unopened, Viewer, Scope, Default, Order
<1>2. ToSet(<<>>) = {} /\ DOMAIN <<>> = {}
  BY DEF ToSet
<1>3. \A b : ViewerIsSound(b, Unopened)
  BY <1>2 DEF ViewerIsSound, Unopened, ListsOnce
<1> QED
  BY <1>1, <1>3

LEMMA ListBegins ==
    ASSUME ListInit
    PROVE  ListInv
<1>1. DOMAIN board = {}
  BY DEF ListInit
<1>2. BoardIsSound(board)
  BY <1>1, FS_EmptySet DEF BoardIsSound
<1> QED
  BY <1>2, UnopenedIsSound DEF ListInit, ListInv

\* Lists put together.
LEMMA OnceMore ==
    ASSUME NEW S, NEW s \in Seq(S), NEW t \in Seq(S), NEW moved,
           ListsOnce(s, moved), ListsOnce(t, moved),
           \A r \in ToSet(s) \cap ToSet(t) : r \in moved
    PROVE  ListsOnce(s \o t, moved)
<1> DEFINE all == s \o t
           m == Len(s)
           n == Len(t)
<1>1. /\ m \in Nat /\ n \in Nat /\ DOMAIN s = 1..m /\ DOMAIN t = 1..n
      /\ all \in Seq(S) /\ Len(all) = m + n /\ DOMAIN all = 1..(m + n)
      /\ \A i \in 1..(m + n) : all[i] = IF i <= m THEN s[i] ELSE t[i - m]
  BY ConcatProperties
<1> HIDE DEF all, m, n
<1> SUFFICES ASSUME NEW i \in 1..(m + n), NEW j \in 1..(m + n), i < j, all[i] = all[j]
             PROVE  all[i] \in moved
  BY <1>1 DEF ListsOnce, all
<1>2. CASE j <= m
  BY <1>1, <1>2 DEF ListsOnce
<1>3. CASE i > m
  <2>1. i - m \in 1..n /\ j - m \in 1..n /\ i - m # j - m
    BY <1>1, <1>3
  <2>2. all[i] = t[i - m] /\ all[j] = t[j - m]
    BY <1>1, <1>3
  <2> QED
    BY <1>1, <2>1, <2>2 DEF ListsOnce
<1>4. CASE i <= m /\ j > m
  <2>1. i \in 1..m /\ j - m \in 1..n
    BY <1>1, <1>4
  <2>2. all[i] = s[i] /\ all[j] = t[j - m]
    BY <1>1, <1>4
  <2>3. all[i] \in ToSet(s) /\ all[i] \in ToSet(t)
    BY <1>1, <2>1, <2>2 DEF ToSet
  <2> QED
    BY <2>3
<1> QED
  BY <1>1, <1>2, <1>3, <1>4

LEMMA SetOfBoth ==
    ASSUME NEW S, NEW s \in Seq(S), NEW t \in Seq(S)
    PROVE  s \o t \in Seq(S) /\ ToSet(s \o t) = ToSet(s) \cup ToSet(t)
<1> DEFINE all == s \o t
           m == Len(s)
           n == Len(t)
<1>1. /\ m \in Nat /\ n \in Nat /\ DOMAIN s = 1..m /\ DOMAIN t = 1..n
      /\ all \in Seq(S) /\ DOMAIN all = 1..(m + n)
      /\ \A i \in 1..(m + n) : all[i] = IF i <= m THEN s[i] ELSE t[i - m]
  BY ConcatProperties
<1> HIDE DEF all, m, n
<1>2. \A i \in 1..m : i \in 1..(m + n) /\ all[i] = s[i]
  BY <1>1
<1>3. \A i \in 1..n : m + i \in 1..(m + n) /\ all[m + i] = t[i]
  BY <1>1
<1>4. \A i \in 1..(m + n) : \/ i \in 1..m /\ all[i] = s[i]
                            \/ i - m \in 1..n /\ all[i] = t[i - m]
  BY <1>1
<1>5. ToSet(all) \subseteq ToSet(s) \cup ToSet(t)
  BY <1>1, <1>4 DEF ToSet
<1>6. ToSet(s) \subseteq ToSet(all) /\ ToSet(t) \subseteq ToSet(all)
  <2>1. \A i \in DOMAIN s : i \in DOMAIN all /\ all[i] = s[i]
    BY <1>1, <1>2
  <2>2. \A i \in DOMAIN t : m + i \in DOMAIN all /\ all[m + i] = t[i]
    BY <1>1, <1>3
  <2>3. ToSet(s) \subseteq ToSet(all)
    BY <2>1 DEF ToSet
  <2>4. ASSUME NEW x \in ToSet(t) PROVE x \in ToSet(all)
    <3>1. PICK i \in DOMAIN t : x = t[i]
      BY <2>4 DEF ToSet
    <3>2. m + i \in DOMAIN all /\ all[m + i] = x
      BY <2>2, <3>1
    <3> QED
      BY <3>2 DEF ToSet
  <2> QED
    BY <2>3, <2>4
<1> QED
  BY <1>1, <1>5, <1>6 DEF all

LEMMA FirstOnce ==
    ASSUME NEW S, NEW s \in Seq(S), NEW moved
    PROVE  /\ FirstOf(s) \in Seq(S) /\ ToSet(FirstOf(s)) \subseteq ToSet(s)
           /\ ListsOnce(s, moved) => ListsOnce(FirstOf(s), moved)
<1> DEFINE p == FirstOf(s)
<1>1. /\ p \in Seq(S) /\ Len(p) = IF Len(s) > Limit THEN Limit ELSE Len(s)
      /\ \A i \in 1..Len(p) : p[i] = s[i]
  BY FirstOfIs
<1>2. DOMAIN p = 1..Len(p) /\ DOMAIN s = 1..Len(s) /\ Len(s) \in Nat /\ Len(p) <= Len(s)
  BY <1>1, ReadsAssumption
<1> HIDE DEF p
<1>3. \A i \in DOMAIN p : i \in DOMAIN s /\ p[i] = s[i]
  BY <1>1, <1>2
<1>4. ToSet(p) \subseteq ToSet(s)
  BY <1>3 DEF ToSet
<1>5. ListsOnce(s, moved) => ListsOnce(p, moved)
  BY <1>3 DEF ListsOnce
<1> QED
  BY <1>1, <1>4, <1>5 DEF p

LEMMA OnceStays ==
    ASSUME NEW s, NEW early, NEW late, early \subseteq late, ListsOnce(s, early)
    PROVE  ListsOnce(s, late)
BY DEF ListsOnce

\* A row that comes changes nothing for a walk under way.
LEMMA SoundBesideNew ==
    ASSUME NEW b, NEW c, \A x \in DOMAIN b : x \in DOMAIN c /\ c[x] = b[x],
           NEW w, ViewerIsSound(b, w)
    PROVE  ViewerIsSound(c, w)
<1>1. \A x \in DOMAIN b : /\ SeenBy(c, w.scope, x) <=> SeenBy(b, w.scope, x)
                          /\ \A pos : AfterIn(c, w.order, pos, x) <=> AfterIn(b, w.order, pos, x)
  BY DEF SeenBy, AfterIn, KeyIn
<1>2. w.since \subseteq DOMAIN b
      /\ \A r \in ToSet(w.got) \cup ToSet(w.page) : r \in DOMAIN b
  BY DEF ViewerIsSound
<1>3. ASSUME NEW pos, NEW reached, reached \subseteq DOMAIN b, WalkIsAt(b, w, pos, reached)
      PROVE  WalkIsAt(c, w, pos, reached)
  BY <1>1, <1>2, <1>3 DEF WalkIsAt
<1>4. w.at \in {"reading", "answered"} => WalkIsAt(c, w, w.next, ToSet(w.got))
  BY <1>2, <1>3 DEF ViewerIsSound
<1>5. w.at = "reading" => WalkIsAt(c, w, w.cursor, ToSet(w.got) \cup ToSet(w.page))
  BY <1>2, <1>3 DEF ViewerIsSound
<1> QED
  BY <1>1, <1>2, <1>4, <1>5 DEF ViewerIsSound

LEMMA AcceptRowStep ==
    ASSUME ListInv, NEW r \in Rows, AcceptRow(r)
    PROVE  ListInv'
<1>1. PICK k \in Stamped, o \in Owners :
         board' = [x \in DOMAIN board \cup {r} |->
                      IF x = r THEN [key |-> k, owner |-> o, status |-> RunningStatus]
                      ELSE board[x]]
  BY DEF AcceptRow
<1>2. r \notin DOMAIN board /\ viewer' = viewer
  BY DEF AcceptRow
<1>3. DOMAIN board' = DOMAIN board \cup {r}
      /\ \A x \in DOMAIN board : x \in DOMAIN board' /\ board'[x] = board[x]
  BY <1>1, <1>2
<1>4. board'[r] \in RunRow
  BY <1>1 DEF RunRow
<1>5. BoardIsSound(board')
  BY <1>3, <1>4, FS_AddElement DEF ListInv, BoardIsSound
<1>6. \A v \in Viewers : ViewerIsSound(board', viewer'[v])
  BY <1>2, <1>3, SoundBesideNew DEF ListInv
<1> QED
  BY <1>2, <1>5, <1>6 DEF ListInv

\* The walks that see a row leave its place remember it, for the others its
\* place does not matter.
LEMMA SoundBesideEnd ==
    ASSUME NEW b, NEW r \in DOMAIN b, NEW c, DOMAIN c = DOMAIN b,
           \A x \in DOMAIN b : /\ c[x].key = b[x].key /\ c[x].owner = b[x].owner
                               /\ x # r => c[x].status = b[x].status,
           NEW w \in Viewer, ViewerIsSound(b, w), NEW u \in Viewer,
           u = IF /\ w.at \in {"reading", "answered"}
                  /\ w.open \/ w.order.sort = "status"
               THEN [w EXCEPT !.moved = @ \cup {r}] ELSE w
    PROVE  ViewerIsSound(c, u)
<1>1. /\ u.at = w.at /\ u.scope = w.scope /\ u.order = w.order /\ (u.open <=> w.open)
      /\ u.next = w.next /\ u.cursor = w.cursor /\ u.passes = w.passes /\ u.page = w.page
      /\ u.got = w.got /\ u.since = w.since /\ u.cut = w.cut
      /\ w.moved \subseteq u.moved
      /\ w.at \in {"reading", "answered"} /\ (w.open \/ w.order.sort = "status") => r \in u.moved
  BY DEF Viewer
<1>2. \A x \in DOMAIN b : SeenBy(c, w.scope, x) <=> SeenBy(b, w.scope, x)
  BY DEF SeenBy
<1>3. ASSUME w.at \in {"reading", "answered"}, NEW x \in DOMAIN b, x \notin u.moved, NEW pos
      PROVE  AfterIn(c, w.order, pos, x) <=> AfterIn(b, w.order, pos, x)
  <2>1. KeyIn(c, x, w.order) = KeyIn(b, x, w.order)
    <3>1. CASE w.order.sort = "createdAt"
      BY <3>1 DEF KeyIn
    <3>2. CASE w.order.sort # "createdAt"
      <4>1. w.order.sort = "status"
        BY <3>2 DEF Viewer, Order
      <4>2. x # r
        BY <1>1, <1>3, <4>1
      <4> QED
        BY <3>2, <4>2 DEF KeyIn
    <3> QED
      BY <3>1, <3>2
  <2> QED
    BY <2>1 DEF AfterIn
<1>4. /\ w.since \subseteq DOMAIN b
      /\ \A x \in ToSet(w.got) \cup ToSet(w.page) : x \in DOMAIN b
  BY DEF ViewerIsSound
<1>5. ASSUME w.at \in {"reading", "answered"}, NEW pos, NEW reached, reached \subseteq DOMAIN b,
             WalkIsAt(b, w, pos, reached)
      PROVE  WalkIsAt(c, u, pos, reached)
  <2>1. \A x \in reached : x \in u.moved \/ ~AfterIn(c, u.order, pos, x)
    BY <1>1, <1>3, <1>5 DEF WalkIsAt
  <2>2. \A x \in u.since : \/ x \in u.moved \/ ~SeenBy(c, u.scope, x)
                           \/ x \in reached \/ x \in u.cut
                           \/ AfterIn(c, u.order, pos, x)
    BY <1>1, <1>2, <1>3, <1>4, <1>5 DEF WalkIsAt
  <2> QED
    BY <2>1, <2>2 DEF WalkIsAt
<1>6. u.at \in {"reading", "answered"} => WalkIsAt(c, u, u.next, ToSet(u.got))
  BY <1>1, <1>4, <1>5 DEF ViewerIsSound
<1>7. u.at = "reading" => WalkIsAt(c, u, u.cursor, ToSet(u.got) \cup ToSet(u.page))
  BY <1>1, <1>4, <1>5 DEF ViewerIsSound
<1>8. /\ ListsOnce(u.got, u.moved)
      /\ u.at = "reading" => ListsOnce(u.page, u.moved)
  BY <1>1, OnceStays DEF ViewerIsSound
<1>9. u.at \in {"reading", "answered"} =>
         (u.open => \A x \in u.since : x \in u.moved \/ c[x].status = RunningStatus)
  BY <1>1, <1>4 DEF ViewerIsSound
<1>10. u.at = "reading" => /\ u.passes < FillPages
                           /\ \A x \in ToSet(u.got) \cap ToSet(u.page) : x \in u.moved
  BY <1>1 DEF ViewerIsSound
<1>11. u.at = "over" =>
          \A x \in u.since : \/ x \in u.moved \/ ~SeenBy(c, u.scope, x)
                             \/ x \in ToSet(u.got) \/ x \in u.cut
  BY <1>1, <1>2, <1>4 DEF ViewerIsSound
<1>12. /\ u.since \subseteq DOMAIN c
       /\ \A x \in ToSet(u.got) \cup ToSet(u.page) : x \in DOMAIN c /\ SeenBy(c, u.scope, x)
       /\ u.next # NoCursor => u.next.order = u.order
       /\ u.cursor # NoCursor => u.cursor.order = u.order
       /\ u.at = "answered" => u.next # NoCursor
  BY <1>1, <1>2, <1>4 DEF ViewerIsSound
<1> QED
  BY <1>6, <1>7, <1>8, <1>9, <1>10, <1>11, <1>12 DEF ViewerIsSound

LEMMA EndRowStep ==
    ASSUME ListInv, NEW r \in Rows, EndRow(r)
    PROVE  ListInv'
<1>1. r \in DOMAIN board /\ board' = [board EXCEPT ![r].status = EndedStatus]
  BY DEF EndRow
<1>2. viewer' = [v \in Viewers |->
          IF /\ viewer[v].at \in {"reading", "answered"}
             /\ viewer[v].open \/ viewer[v].order.sort = "status"
          THEN [viewer[v] EXCEPT !.moved = @ \cup {r}] ELSE viewer[v]]
  BY DEF EndRow
<1>3. \A x \in DOMAIN board : board[x] \in RunRow
  BY DEF ListInv, BoardIsSound
<1>4. DOMAIN board' = DOMAIN board
      /\ \A x \in DOMAIN board : /\ board'[x].key = board[x].key /\ board'[x].owner = board[x].owner
                                 /\ x # r => board'[x].status = board[x].status
                                 /\ board'[x] \in RunRow
  <2>1. board'[r] = [board[r] EXCEPT !.status = EndedStatus]
    BY <1>1
  <2>2. board'[r].key = board[r].key /\ board'[r].owner = board[r].owner /\ board'[r] \in RunRow
    BY <1>1, <1>3, <2>1 DEF RunRow
  <2> QED
    BY <1>1, <1>3, <2>2
<1>5. BoardIsSound(board')
  BY <1>4 DEF ListInv, BoardIsSound
<1>6. r \in Rows
  OBVIOUS
<1>7. \A v \in Viewers : viewer[v] \in Viewer
  BY DEF ListInv
<1>8. \A v \in Viewers : viewer'[v] \in Viewer
  <2> SUFFICES ASSUME NEW v \in Viewers PROVE viewer'[v] \in Viewer
    OBVIOUS
  <2>1. viewer[v].moved \cup {r} \in SUBSET Rows
    BY <1>7 DEF Viewer
  <2>2. [viewer[v] EXCEPT !.moved = @ \cup {r}] \in Viewer
    BY <1>7, <2>1 DEF Viewer
  <2> QED
    BY <1>2, <1>7, <2>2
<1>9. \A v \in Viewers : ViewerIsSound(board', viewer'[v])
  <2> SUFFICES ASSUME NEW v \in Viewers PROVE ViewerIsSound(board', viewer'[v])
    OBVIOUS
  <2>1. viewer'[v] = IF /\ viewer[v].at \in {"reading", "answered"}
                        /\ viewer[v].open \/ viewer[v].order.sort = "status"
                     THEN [viewer[v] EXCEPT !.moved = @ \cup {r}] ELSE viewer[v]
    BY <1>2
  <2>2. viewer[v] \in Viewer /\ viewer'[v] \in Viewer /\ ViewerIsSound(board, viewer[v])
    BY <1>7, <1>8 DEF ListInv
  <2>3. /\ r \in DOMAIN board /\ DOMAIN board' = DOMAIN board
        /\ \A x \in DOMAIN board : /\ board'[x].key = board[x].key
                                   /\ board'[x].owner = board[x].owner
                                   /\ x # r => board'[x].status = board[x].status
    BY <1>1, <1>4
  <2> QED
    BY <2>1, <2>2, <2>3, SoundBesideEnd
<1>10. viewer' \in [Viewers -> Viewer]
  BY <1>2, <1>8
<1> QED
  BY <1>5, <1>9, <1>10 DEF ListInv

\* A viewer moves and the board does not.
LEMMA OneViewerMoves ==
    ASSUME ListInv, NEW v \in Viewers, NEW w \in Viewer, ViewerIsSound(board, w),
           viewer' = [viewer EXCEPT ![v] = w], UNCHANGED board
    PROVE  ListInv'
<1>1. viewer' \in [Viewers -> Viewer]
  BY DEF ListInv
<1>2. \A u \in Viewers : ViewerIsSound(board, viewer'[u])
  BY DEF ListInv
<1> QED
  BY <1>1, <1>2 DEF ListInv

LEMMA AskFirstStep ==
    ASSUME ListInv, NEW v \in Viewers, AskFirst(v)
    PROVE  ListInv'
<1>1. PICK scope \in Scope, ordering \in {Default, ByStatus}, open \in BOOLEAN :
          viewer' = [viewer EXCEPT ![v] =
                [Unopened EXCEPT !.at = "reading", !.scope = scope,
                    !.order = ordering, !.open = open,
                    !.since = Selected(ordering, open, NoCursor)]]
  BY DEF AskFirst
<1> DEFINE since == Selected(ordering, open, NoCursor)
           w == [Unopened EXCEPT !.at = "reading", !.scope = scope,
                    !.order = ordering, !.open = open, !.since = since]
<1>2. /\ since \subseteq DOMAIN board /\ since \subseteq Rows
      /\ open => \A r \in since : board[r].status = RunningStatus
  BY DEF Selected, ListInv, BoardIsSound
<1>3. /\ w.at = "reading" /\ w.scope = scope /\ w.order = ordering /\ (w.open <=> open)
      /\ w.since = since /\ w.next = NoCursor /\ w.cursor = NoCursor /\ w.passes = 0
      /\ w.page = <<>> /\ w.got = <<>> /\ w.moved = {} /\ w.cut = {}
  BY DEF Unopened
<1>4. w \in Viewer
  <2>1. ordering \in Order
    <3>1. Default \in Order
      BY DEF Default, Order
    <3>2. ByStatus \in Order
      BY DEF ByStatus, Order
    <3> QED
      BY <3>1, <3>2
  <2>2. Unopened \in Viewer
    BY UnopenedIsSound
  <2> HIDE DEF since
  <2>3. since \in SUBSET Rows /\ "reading" \in {"idle", "reading", "answered", "over"}
    BY <1>2
  <2> HIDE DEF Unopened
  <2> QED
    BY <2>1, <2>2, <2>3 DEF Viewer
<1> HIDE DEF since, w
<1>5. ViewerIsSound(board, w)
  <2>1. ToSet(<<>>) = {} /\ DOMAIN <<>> = {}
    BY DEF ToSet
  <2>2. \A r : AfterIn(board, ordering, NoCursor, r)
    BY DEF AfterIn
  <2>3. WalkIsAt(board, w, NoCursor, {})
    BY <1>3, <2>2 DEF WalkIsAt
  <2>4. ListsOnce(<<>>, {})
    BY <2>1 DEF ListsOnce
  <2>5. FillPages > 0
    BY ReadsAssumption
  <2> QED
    BY <1>2, <1>3, <2>1, <2>3, <2>4, <2>5 DEF ViewerIsSound
<1> QED
  BY <1>1, <1>4, <1>5, OneViewerMoves DEF AskFirst, w, since

\* A walk that stands again where its last answer ended.
LEMMA FromTheAnswer ==
    ASSUME NEW b, NEW w \in Viewer, ViewerIsSound(b, w), w.at \in {"reading", "answered"},
           NEW u \in Viewer,
           u.at = "reading", u.scope = w.scope, u.order = w.order, u.open <=> w.open,
           u.next = w.next, u.cursor = w.next, u.passes = 0, u.page = <<>>, u.got = w.got,
           u.since = w.since, u.moved = w.moved, u.cut = w.cut
    PROVE  ViewerIsSound(b, u)
<1>1. ToSet(u.page) = {} /\ DOMAIN u.page = {}
  BY DEF ToSet
<1>2. WalkIsAt(b, u, u.next, ToSet(u.got))
  BY DEF ViewerIsSound, WalkIsAt
<1>3. WalkIsAt(b, u, u.cursor, ToSet(u.got) \cup ToSet(u.page))
  BY <1>1, <1>2
<1>4. ListsOnce(u.page, u.moved) /\ ListsOnce(u.got, u.moved)
  BY <1>1 DEF ListsOnce, ViewerIsSound
<1>5. u.passes < FillPages
  BY ReadsAssumption
<1>6. u.open => \A r \in u.since : r \in u.moved \/ b[r].status = RunningStatus
  BY DEF ViewerIsSound
<1>7. /\ u.since \subseteq DOMAIN b
      /\ \A r \in ToSet(u.got) \cup ToSet(u.page) : r \in DOMAIN b /\ SeenBy(b, u.scope, r)
      /\ u.next # NoCursor => u.next.order = u.order
      /\ u.cursor # NoCursor => u.cursor.order = u.order
  BY <1>1 DEF ViewerIsSound
<1> QED
  BY <1>1, <1>2, <1>3, <1>4, <1>5, <1>6, <1>7 DEF ViewerIsSound

LEMMA AskNextStep ==
    ASSUME ListInv, NEW v \in Viewers, AskNext(v)
    PROVE  ListInv'
<1>1. PICK desc \in BOOLEAN :
          /\ Honours(viewer[v].next, [viewer[v].order EXCEPT !.desc = desc])
          /\ viewer' = [viewer EXCEPT ![v] =
                [@ EXCEPT !.at = "reading", !.order = [viewer[v].order EXCEPT !.desc = desc],
                          !.cursor = viewer[v].next, !.passes = 0, !.page = <<>>]]
  BY DEF AskNext
<1>2. viewer[v] \in Viewer /\ ViewerIsSound(board, viewer[v]) /\ viewer[v].at = "answered"
  BY DEF ListInv, AskNext
<1>3. [viewer[v].order EXCEPT !.desc = desc] = viewer[v].order
  BY <1>1, <1>2 DEF Honours, ViewerIsSound
<1> DEFINE w == [viewer[v] EXCEPT !.at = "reading", !.order = viewer[v].order,
                          !.cursor = viewer[v].next, !.passes = 0, !.page = <<>>]
<1>4. viewer' = [viewer EXCEPT ![v] = w]
  <2>1. viewer' = [viewer EXCEPT ![v] =
           [@ EXCEPT !.at = "reading", !.order = viewer[v].order,
                     !.cursor = viewer[v].next, !.passes = 0, !.page = <<>>]]
    BY <1>1, <1>3
  <2> QED
    BY <2>1 DEF ListInv
<1>5. /\ w.at = "reading" /\ w.scope = viewer[v].scope /\ w.order = viewer[v].order
      /\ (w.open <=> viewer[v].open) /\ w.next = viewer[v].next
      /\ w.cursor = viewer[v].next /\ w.passes = 0 /\ w.page = <<>>
      /\ w.got = viewer[v].got /\ w.since = viewer[v].since
      /\ w.moved = viewer[v].moved /\ w.cut = viewer[v].cut
  BY <1>2 DEF Viewer
<1>6. w \in Viewer
  <2>1. <<>> \in Seq(Rows) /\ 0 \in 0..FillPages
    BY ReadsAssumption
  <2> QED
    BY <1>2, <2>1 DEF Viewer
<1> HIDE DEF w
<1>7. ViewerIsSound(board, w)
  BY <1>2, <1>5, <1>6, FromTheAnswer
<1> QED
  BY <1>4, <1>6, <1>7, OneViewerMoves DEF AskNext

LEMMA ReadFailsStep ==
    ASSUME ListInv, NEW v \in Viewers, ReadFails(v)
    PROVE  ListInv'
<1>1. viewer[v] \in Viewer /\ ViewerIsSound(board, viewer[v]) /\ viewer[v].at = "reading"
  BY DEF ListInv, ReadFails
<1> DEFINE w == [viewer[v] EXCEPT !.cursor = viewer[v].next, !.passes = 0, !.page = <<>>]
<1>2. viewer' = [viewer EXCEPT ![v] = w]
  BY <1>1 DEF ReadFails, ListInv
<1>3. /\ w.at = "reading" /\ w.scope = viewer[v].scope /\ w.order = viewer[v].order
      /\ (w.open <=> viewer[v].open) /\ w.next = viewer[v].next
      /\ w.cursor = viewer[v].next /\ w.passes = 0 /\ w.page = <<>>
      /\ w.got = viewer[v].got /\ w.since = viewer[v].since
      /\ w.moved = viewer[v].moved /\ w.cut = viewer[v].cut
  BY <1>1 DEF Viewer
<1>4. w \in Viewer
  <2>1. <<>> \in Seq(Rows) /\ 0 \in 0..FillPages
    BY ReadsAssumption
  <2> QED
    BY <1>1, <2>1 DEF Viewer
<1> HIDE DEF w
<1>5. ViewerIsSound(board, w)
  BY <1>1, <1>3, <1>4, FromTheAnswer
<1> QED
  BY <1>2, <1>4, <1>5, OneViewerMoves DEF ReadFails

-----------------------------------------------------------------------------
(* A page of the store                                                     *)

LEMMA KeysAreNumbers ==
    ASSUME BoardIsSound(board)
    PROVE  /\ \A r \in DOMAIN board : r \in Nat /\ r \in Rows
           /\ \A ordering : \A r \in DOMAIN board : /\ KeyIn(board, r, ordering) \in Nat
                                             /\ KeyIn(board, r, ordering)
                                                   \in Stamped \cup {RunningStatus, EndedStatus}
<1>1. \A r \in DOMAIN board : r \in Nat /\ r \in Rows /\ board[r] \in RunRow
  BY ReadsAssumption DEF BoardIsSound
<1>2. \A line \in RunRow : /\ line.key \in Nat /\ line.key \in Stamped
                           /\ line.status \in Nat
                           /\ line.status \in {RunningStatus, EndedStatus}
  <2>1. \A line \in RunRow : line.key \in Stamped /\ line.status \in {RunningStatus, EndedStatus}
    BY DEF RunRow
  <2>2. RunningStatus \in Nat /\ EndedStatus \in Nat /\ \A k \in Stamped : k \in Nat
    BY ReadsAssumption DEF RunningStatus, EndedStatus
  <2> QED
    BY <2>1, <2>2
<1> QED
  BY <1>1, <1>2 DEF KeyIn

\* a is before b in an order of the board.
Before(ordering, a, b) ==
    \/ Ahead(ordering, KeyIn(board, a, ordering), KeyIn(board, b, ordering))
    \/ KeyIn(board, a, ordering) = KeyIn(board, b, ordering) /\ Ahead(ordering, a, b)

LEMMA AlongIs ==
    ASSUME NEW ordering
    PROVE  \A a, b : <<a, b>> \in Along(ordering)
                        <=> a \in DOMAIN board /\ b \in DOMAIN board /\ Before(ordering, a, b)
<1>1. \A a, b : Precedes(ordering, a, b) <=> Before(ordering, a, b)
  BY DEF Precedes, Before, KeyOf, KeyIn
<1> QED
  BY <1>1 DEF Along

LEMMA BoardInOrder ==
    ASSUME BoardIsSound(board), NEW ordering, NEW S \in SUBSET DOMAIN board
    PROVE  IsFiniteSet(S) /\ IsOrder(Along(ordering), S)
<1>1. IsFiniteSet(S)
  BY FS_Subset DEF BoardIsSound
<1>2. \A a, b \in S : <<a, b>> \in Along(ordering) <=> Before(ordering, a, b)
  BY AlongIs
<1>3. \A a \in S : a \in Nat /\ KeyIn(board, a, ordering) \in Nat
  BY KeysAreNumbers
<1>4. \A a, b \in S : a = b \/ Before(ordering, a, b) \/ Before(ordering, b, a)
  BY <1>3 DEF Before, Ahead
<1>5. \A a, b \in S : Before(ordering, a, b) => ~Before(ordering, b, a)
  BY <1>3 DEF Before, Ahead
<1>6. \A a, b, c \in S : Before(ordering, a, b) /\ Before(ordering, b, c) => Before(ordering, a, c)
  BY <1>3 DEF Before, Ahead
<1> QED
  BY <1>1, <1>2, <1>4, <1>5, <1>6 DEF IsOrder

\* What one page of the store says of the rows of the board: those on it are
\* behind the next cursor, those that match and are not on it are ahead.
LEMMA StorePage ==
    ASSUME BoardIsSound(board), NEW ordering \in Order, NEW open \in BOOLEAN,
           NEW cursor \in Cursor \cup {NoCursor},
           NEW S, S = Selected(ordering, open, cursor),
           NEW rows, rows = Matching(ordering, open, cursor),
           NEW first, first = FirstOf(rows),
           NEW next, next = CursorAfter(ordering, rows)
    PROVE  /\ S \subseteq DOMAIN board /\ first \in Seq(S) /\ ToSet(first) \subseteq S
           /\ next \in Cursor \cup {NoCursor}
           /\ next # NoCursor =>
                 /\ next.order = ordering
                 /\ \A r \in ToSet(first) : ~AfterIn(board, ordering, next, r)
                 /\ \A r \in DOMAIN board : ~AfterIn(board, ordering, cursor, r)
                                               => ~AfterIn(board, ordering, next, r)
           /\ \A r \in S : r \in ToSet(first) \/ (next # NoCursor /\ AfterIn(board, ordering, next, r))
<1>1. S \subseteq DOMAIN board /\ \A r \in S : AfterIn(board, ordering, cursor, r)
  BY ReadsTheBoard DEF Selected
<1>2. /\ rows \in Seq(S) /\ Len(rows) \in Nat
      /\ \A i, j \in 1..Len(rows) : i < j => <<rows[i], rows[j]>> \in Along(ordering)
      /\ \A r \in S : \E i \in 1..Len(rows) : rows[i] = r
  <2>1. IsFiniteSet(S) /\ IsOrder(Along(ordering), S)
    BY <1>1, BoardInOrder
  <2> QED
    BY <2>1, InOrderIs DEF Matching
<1>3. /\ first \in Seq(S) /\ Len(first) = IF Len(rows) > Limit THEN Limit ELSE Len(rows)
      /\ \A i \in 1..Len(first) : first[i] = rows[i]
  <2>1. rows \in Seq(S)
    BY <1>2
  <2> QED
    BY <2>1, FirstOfIs
<1>4. Limit \in Nat \ {0} /\ DOMAIN first = 1..Len(first)
  BY <1>3, ReadsAssumption
<1>5. ToSet(first) \subseteq S
  BY <1>3, <1>4 DEF ToSet
<1>6. \A i, j \in 1..Len(rows) : i < j => Before(ordering, rows[i], rows[j])
  BY <1>2, AlongIs
<1>7. CASE Len(rows) > Limit
  <2> DEFINE last == rows[Limit]
  <2>1. Limit \in 1..Len(rows) /\ last \in S /\ last \in DOMAIN board
    BY <1>1, <1>2, <1>4, <1>7
  <2>2. next = [order |-> ordering, key |-> KeyIn(board, last, ordering), row |-> last]
    BY <1>7, ReadsTheBoard DEF CursorAfter
  <2>3. next \in Cursor
    BY <2>1, <2>2, KeysAreNumbers DEF Cursor
  <2>4. next # NoCursor
    BY <2>3, CursorAssumption
  <2> HIDE DEF last
  <2>5. \A r \in DOMAIN board : AfterIn(board, ordering, next, r) <=> Before(ordering, last, r)
    BY <2>2, <2>4 DEF AfterIn, Before
  <2>6. \A a \in DOMAIN board : a \in Nat /\ KeyIn(board, a, ordering) \in Nat
    BY KeysAreNumbers
  <2>7. \A i \in 1..Limit : ~Before(ordering, last, rows[i])
    <3> SUFFICES ASSUME NEW i \in 1..Limit PROVE ~Before(ordering, last, rows[i])
      OBVIOUS
    <3>1. i \in 1..Len(rows) /\ rows[i] \in DOMAIN board
      BY <1>1, <1>2, <1>4, <1>7
    <3>2. CASE i = Limit
      BY <2>1, <2>6, <3>2 DEF last, Before, Ahead
    <3>3. CASE i # Limit
      <4>1. Before(ordering, rows[i], last)
        BY <1>4, <1>6, <2>1, <3>1, <3>3 DEF last
      <4> QED
        BY <2>1, <2>6, <3>1, <4>1 DEF Before, Ahead
    <3> QED
      BY <3>2, <3>3
  <2>8. \A r \in ToSet(first) : ~AfterIn(board, ordering, next, r)
    <3> SUFFICES ASSUME NEW i \in 1..Limit PROVE ~AfterIn(board, ordering, next, first[i])
      BY <1>3, <1>4, <1>7 DEF ToSet
    <3>1. first[i] = rows[i] /\ rows[i] \in DOMAIN board
      BY <1>1, <1>2, <1>3, <1>4, <1>7
    <3> QED
      BY <2>5, <2>7, <3>1
  <2>9. \A r \in S : r \in ToSet(first) \/ AfterIn(board, ordering, next, r)
    <3> SUFFICES ASSUME NEW r \in S PROVE r \in ToSet(first) \/ AfterIn(board, ordering, next, r)
      OBVIOUS
    <3>1. PICK i \in 1..Len(rows) : rows[i] = r
      BY <1>2
    <3>2. CASE i <= Limit
      <4>1. i \in 1..Len(first) /\ first[i] = r
        BY <1>3, <1>4, <1>7, <3>1, <3>2
      <4> QED
        BY <1>4, <4>1 DEF ToSet
    <3>3. CASE i > Limit
      <4>1. Before(ordering, last, r)
        BY <1>6, <2>1, <3>1, <3>3 DEF last
      <4> QED
        BY <1>1, <2>5, <4>1
    <3> QED
      BY <1>4, <3>1, <3>2, <3>3
  <2>10. ASSUME NEW r \in DOMAIN board, ~AfterIn(board, ordering, cursor, r)
         PROVE  ~AfterIn(board, ordering, next, r)
    <3>1. AfterIn(board, ordering, cursor, last)
      BY <1>1, <2>1
    <3>2. cursor # NoCursor /\ cursor.key \in Nat /\ cursor.row \in Nat
      <4>1. cursor # NoCursor
        BY <2>10 DEF AfterIn
      <4> QED
        <5>1. cursor \in Cursor
          BY <4>1
        <5>2. cursor.key \in Stamped \cup {1, 2} /\ cursor.row \in Rows
          BY <5>1 DEF Cursor, RunningStatus, EndedStatus
        <5>3. \A k \in Stamped \cup {1, 2} : k \in Nat
          BY ReadsAssumption
        <5>4. \A x \in Rows : x \in Nat
          BY ReadsAssumption
        <5> QED
          BY <4>1, <5>2, <5>3, <5>4
    <3>3. r \in Nat /\ KeyIn(board, r, ordering) \in Nat
      BY <2>6
    <3>4. last \in Nat /\ KeyIn(board, last, ordering) \in Nat
      BY <2>1, <2>6
    <3>5. ~Before(ordering, last, r)
      BY <2>10, <3>1, <3>2, <3>3, <3>4 DEF AfterIn, Before, Ahead
    <3> QED
      BY <2>5, <3>5
  <2> QED
    BY <1>1, <1>3, <1>5, <2>2, <2>3, <2>8, <2>9, <2>10, <2>4
<1>8. CASE ~(Len(rows) > Limit)
  <2>1. next = NoCursor
    BY <1>8 DEF CursorAfter
  <2>2. \A r \in S : r \in ToSet(first)
    BY <1>2, <1>3, <1>4, <1>8 DEF ToSet
  <2> QED
    BY <1>1, <1>3, <1>5, <2>1, <2>2
<1> QED
  BY <1>7, <1>8

LEMMA VisibleRows ==
    ASSUME BoardIsSound(board), NEW first, ToSet(first) \subseteq DOMAIN board,
           NEW ordering, NEW scope, NEW rows, rows = VisibleOf(first, ordering, scope)
    PROVE  /\ rows \in Seq(DOMAIN board)
           /\ ToSet(rows) = {r \in ToSet(first) : SeenBy(board, scope, r)}
           /\ \A moved : ListsOnce(rows, moved)
<1> DEFINE S == {r \in ToSet(first) : SeenBy(board, scope, r)}
<1>1. S = {r \in ToSet(first) : IsVisible(scope, r)}
  BY ReadsTheBoard
<1>2. S \in SUBSET DOMAIN board
  OBVIOUS
<1> HIDE DEF S
<1>3. IsFiniteSet(S) /\ IsOrder(Along(ordering), S)
  BY <1>2, BoardInOrder
<1>4. rows = InOrder(S, Along(ordering))
  BY <1>1 DEF VisibleOf
<1>5. /\ rows \in Seq(S) /\ ToSet(rows) = S
      /\ \A i, j \in 1..Len(rows) : rows[i] = rows[j] => i = j
  BY <1>3, <1>4, InOrderIs
<1>6. rows \in Seq(DOMAIN board)
  BY <1>2, <1>5, SeqMonotonic
<1>7. \A moved : ListsOnce(rows, moved)
  BY <1>5 DEF ListsOnce
<1> QED
  BY <1>5, <1>6, <1>7 DEF S

\* The rows a page of the store adds to a walk w, and where they leave it.
LEMMA PageOfWalk ==
    ASSUME BoardIsSound(board), NEW w \in Viewer, ViewerIsSound(board, w), w.at = "reading",
           NEW rows, rows = Matching(w.order, w.open, w.cursor),
           NEW next, next = CursorAfter(w.order, rows),
           NEW page, page = w.page \o VisibleOf(FirstOf(rows), w.order, w.scope)
    PROVE  /\ next \in Cursor \cup {NoCursor}
           /\ next # NoCursor => next.order = w.order
           /\ page \in Seq(DOMAIN board)
           /\ \A r \in ToSet(page) : r \in DOMAIN board /\ SeenBy(board, w.scope, r)
           /\ ListsOnce(page, w.moved)
           /\ \A r \in ToSet(w.got) \cap ToSet(page) : r \in w.moved
           /\ next # NoCursor => WalkIsAt(board, w, next, ToSet(w.got) \cup ToSet(page))
           /\ next = NoCursor =>
                 \A r \in w.since : \/ r \in w.moved \/ ~SeenBy(board, w.scope, r)
                                    \/ r \in ToSet(w.got) \cup ToSet(page) \/ r \in w.cut
<1> DEFINE S == Selected(w.order, w.open, w.cursor)
           first == FirstOf(rows)
           seen == VisibleOf(first, w.order, w.scope)
<1>1. /\ w.order \in Order /\ w.open \in BOOLEAN /\ w.cursor \in Cursor \cup {NoCursor}
      /\ w.page \in Seq(Rows)
  BY DEF Viewer
<1>2. /\ S \subseteq DOMAIN board /\ ToSet(first) \subseteq S
      /\ next \in Cursor \cup {NoCursor}
      /\ next # NoCursor =>
            /\ next.order = w.order
            /\ \A r \in ToSet(first) : ~AfterIn(board, w.order, next, r)
            /\ \A r \in DOMAIN board : ~AfterIn(board, w.order, w.cursor, r)
                                          => ~AfterIn(board, w.order, next, r)
      /\ \A r \in S : r \in ToSet(first)
                      \/ (next # NoCursor /\ AfterIn(board, w.order, next, r))
  BY <1>1, StorePage
<1>3. \A r \in DOMAIN board : r \in S <=> /\ w.open => board[r].status = RunningStatus
                                          /\ AfterIn(board, w.order, w.cursor, r)
  BY ReadsTheBoard DEF Selected
<1> HIDE DEF S, first
<1>4. /\ seen \in Seq(DOMAIN board)
      /\ ToSet(seen) = {r \in ToSet(first) : SeenBy(board, w.scope, r)}
      /\ ListsOnce(seen, w.moved)
  BY <1>2, VisibleRows
<1>5. page = w.page \o seen
  BY DEF first
<1> HIDE DEF seen
<1>6. /\ w.since \subseteq DOMAIN board
      /\ \A r \in ToSet(w.got) \cup ToSet(w.page) : r \in DOMAIN board /\ SeenBy(board, w.scope, r)
      /\ WalkIsAt(board, w, w.cursor, ToSet(w.got) \cup ToSet(w.page))
      /\ ListsOnce(w.page, w.moved)
      /\ \A r \in ToSet(w.got) \cap ToSet(w.page) : r \in w.moved
      /\ w.open => \A r \in w.since : r \in w.moved \/ board[r].status = RunningStatus
  BY DEF ViewerIsSound
<1>7. w.page \in Seq(DOMAIN board)
  <2>1. \A i \in DOMAIN w.page : w.page[i] \in DOMAIN board
    BY <1>6 DEF ToSet
  <2> QED
    BY <1>1, <2>1
<1>8. page \in Seq(DOMAIN board) /\ ToSet(page) = ToSet(w.page) \cup ToSet(seen)
  BY <1>4, <1>5, <1>7, SetOfBoth
<1>9. \A r \in ToSet(seen) : r \in ToSet(first) /\ SeenBy(board, w.scope, r)
                             /\ r \in DOMAIN board /\ AfterIn(board, w.order, w.cursor, r)
  BY <1>2, <1>3, <1>4
<1>10. \A r \in (ToSet(w.got) \cup ToSet(w.page)) \cap ToSet(seen) : r \in w.moved
  BY <1>6, <1>9 DEF WalkIsAt
<1>11. ListsOnce(page, w.moved)
  BY <1>4, <1>5, <1>6, <1>7, <1>10, OnceMore
<1>12. \A r \in ToSet(page) : r \in DOMAIN board /\ SeenBy(board, w.scope, r)
  BY <1>6, <1>8, <1>9
<1>13. \A r \in ToSet(w.got) \cap ToSet(page) : r \in w.moved
  BY <1>6, <1>8, <1>10
<1>14. ASSUME NEW r \in w.since
       PROVE  \/ r \in w.moved \/ ~SeenBy(board, w.scope, r)
              \/ r \in ToSet(w.got) \cup ToSet(page) \/ r \in w.cut
              \/ next # NoCursor /\ AfterIn(board, w.order, next, r)
  <2> SUFFICES ASSUME r \notin w.moved, SeenBy(board, w.scope, r), r \notin w.cut,
                      r \notin ToSet(w.got), r \notin ToSet(w.page)
               PROVE  r \in ToSet(page) \/ (next # NoCursor /\ AfterIn(board, w.order, next, r))
    BY <1>8
  <2>1. r \in DOMAIN board /\ AfterIn(board, w.order, w.cursor, r)
    BY <1>6 DEF WalkIsAt
  <2>2. r \in S
    BY <1>3, <1>6, <2>1
  <2>3. r \in ToSet(first) => r \in ToSet(page)
    BY <1>4, <1>8
  <2> QED
    BY <1>2, <2>2, <2>3
<1>15. next # NoCursor => WalkIsAt(board, w, next, ToSet(w.got) \cup ToSet(page))
  <2> SUFFICES ASSUME next # NoCursor
               PROVE  WalkIsAt(board, w, next, ToSet(w.got) \cup ToSet(page))
    OBVIOUS
  <2>1. \A r \in ToSet(w.got) \cup ToSet(w.page) : r \in w.moved \/ ~AfterIn(board, w.order, next, r)
    BY <1>2, <1>6 DEF WalkIsAt
  <2>2. \A r \in ToSet(seen) : ~AfterIn(board, w.order, next, r)
    BY <1>2, <1>9
  <2> QED
    BY <1>8, <1>14, <2>1, <2>2 DEF WalkIsAt
<1>16. next # NoCursor => next.order = w.order
  BY <1>2
<1>17. next \in Cursor \cup {NoCursor}
  BY <1>2
<1> QED
  BY <1>8, <1>11, <1>12, <1>13, <1>14, <1>15, <1>16, <1>17, Zenon

LEMMA ReadPageStep ==
    ASSUME ListInv, NEW v \in Viewers, ReadPage(v)
    PROVE  ListInv'
<1> DEFINE w == viewer[v]
           rows == Matching(w.order, w.open, w.cursor)
           next == CursorAfter(w.order, rows)
           page == w.page \o VisibleOf(FirstOf(rows), w.order, w.scope)
           done == \/ w.scope = "operator" \/ w.passes + 1 = FillPages
                   \/ Len(page) >= Limit \/ next = NoCursor
           answer == [w EXCEPT !.at = IF next = NoCursor THEN "over" ELSE "answered",
                            !.next = next, !.cursor = NoCursor, !.passes = 0,
                            !.page = <<>>, !.got = @ \o FirstOf(page),
                            !.cut = @ \cup (ToSet(page) \ ToSet(FirstOf(page)))]
           onward == [w EXCEPT !.cursor = next, !.passes = w.passes + 1, !.page = page]
<1>1. /\ BoardIsSound(board) /\ w \in Viewer /\ ViewerIsSound(board, w) /\ w.at = "reading"
      /\ UNCHANGED board
  BY DEF ListInv, ReadPage
<1>2. viewer' = [viewer EXCEPT ![v] = IF done THEN answer ELSE onward]
  <2> DEFINE at == IF next = NoCursor THEN "over" ELSE "answered"
             passes == viewer[v].passes + 1
             got == viewer[v].got \o FirstOf(page)
             cut == viewer[v].cut \cup (ToSet(page) \ ToSet(FirstOf(page)))
             some == [viewer[v] EXCEPT !.at = at, !.next = next, !.cursor = NoCursor,
                          !.passes = 0, !.page = <<>>, !.got = got, !.cut = cut]
             none == [viewer[v] EXCEPT !.cursor = next, !.passes = passes, !.page = page]
  <2>1. viewer' = [viewer EXCEPT ![v] =
           IF \/ viewer[v].scope = "operator" \/ passes = FillPages
              \/ Len(page) >= Limit \/ next = NoCursor
           THEN some ELSE none]
    BY DEF ReadPage
  <2>2. some = answer /\ none = onward
    OBVIOUS
  <2>3. (\/ viewer[v].scope = "operator" \/ passes = FillPages
         \/ Len(page) >= Limit \/ next = NoCursor) <=> done
    OBVIOUS
  <2> HIDE DEF some, none, answer, onward, done
  <2> QED
    BY <2>1, <2>2, <2>3
<1>3. /\ next \in Cursor \cup {NoCursor}
      /\ next # NoCursor => next.order = w.order
      /\ page \in Seq(DOMAIN board)
      /\ \A r \in ToSet(page) : r \in DOMAIN board /\ SeenBy(board, w.scope, r)
      /\ ListsOnce(page, w.moved)
      /\ \A r \in ToSet(w.got) \cap ToSet(page) : r \in w.moved
      /\ next # NoCursor => WalkIsAt(board, w, next, ToSet(w.got) \cup ToSet(page))
      /\ next = NoCursor =>
            \A r \in w.since : \/ r \in w.moved \/ ~SeenBy(board, w.scope, r)
                               \/ r \in ToSet(w.got) \cup ToSet(page) \/ r \in w.cut
  <2> HIDE DEF w
  <2> QED
    BY <1>1, PageOfWalk
<1>4. w.passes \in Nat /\ FillPages \in Nat \ {0} /\ w.passes < FillPages
  BY <1>1, ReadsAssumption DEF Viewer, ViewerIsSound
<1>5. page \in Seq(Rows) /\ DOMAIN board \subseteq Rows
  <2>1. DOMAIN board \subseteq Rows
    BY <1>1 DEF BoardIsSound
  <2> HIDE DEF page
  <2> QED
    BY <1>3, <2>1, SeqMonotonic
<1>6. w.got \in Seq(DOMAIN board) /\ w.got \in Seq(Rows)
  <2>1. w.got \in Seq(Rows)
    BY <1>1 DEF Viewer
  <2>2. \A i \in DOMAIN w.got : w.got[i] \in DOMAIN board
    BY <1>1 DEF ViewerIsSound, ToSet
  <2> QED
    BY <2>1, <2>2
<1> HIDE DEF page, next, rows, w
<1>7. CASE done
  <2> DEFINE some == FirstOf(page)
             got == w.got \o some
             cut == w.cut \cup (ToSet(page) \ ToSet(some))
  <2>1. /\ some \in Seq(DOMAIN board) /\ ToSet(some) \subseteq ToSet(page)
        /\ ListsOnce(some, w.moved)
    BY <1>3, FirstOnce
  <2>2. got \in Seq(DOMAIN board) /\ ToSet(got) = ToSet(w.got) \cup ToSet(some)
    <3> HIDE DEF some
    <3> QED
      BY <1>6, <2>1, SetOfBoth
  <2>3. ListsOnce(got, w.moved)
    <3> HIDE DEF some
    <3>1. ListsOnce(w.got, w.moved)
      BY <1>1 DEF ViewerIsSound
    <3>2. \A r \in ToSet(w.got) \cap ToSet(some) : r \in w.moved
      BY <1>3, <2>1
    <3> QED
      BY <1>6, <2>1, <3>1, <3>2, OnceMore
  <2>4. got \in Seq(Rows) /\ cut \subseteq Rows
    <3>1. ToSet(page) \subseteq Rows
      BY <1>3, <1>5
    <3>2. w.cut \subseteq Rows
      BY <1>1 DEF Viewer
    <3>3. got \in Seq(Rows)
      <4> HIDE DEF got
      <4> QED
        BY <1>5, <2>2, SeqMonotonic
    <3> QED
      BY <3>1, <3>2, <3>3
  <2> DEFINE u == [w EXCEPT !.at = IF next = NoCursor THEN "over" ELSE "answered",
                            !.next = next, !.cursor = NoCursor, !.passes = 0,
                            !.page = <<>>, !.got = got, !.cut = cut]
  <2>5. answer = u
    BY <1>1 DEF Viewer
  <2> HIDE DEF got, cut, some
  <2>6. /\ u.at = IF next = NoCursor THEN "over" ELSE "answered"
        /\ u.scope = w.scope /\ u.order = w.order /\ (u.open <=> w.open)
        /\ u.next = next /\ u.cursor = NoCursor /\ u.passes = 0 /\ u.page = <<>>
        /\ u.got = got /\ u.since = w.since /\ u.moved = w.moved /\ u.cut = cut
    BY <1>1 DEF Viewer
  <2>7. u \in Viewer
    <3>1. <<>> \in Seq(Rows) /\ 0 \in 0..FillPages
      BY <1>4
    <3> QED
      BY <1>1, <1>3, <2>4, <3>1 DEF Viewer
  <2>8. viewer' = [viewer EXCEPT ![v] = u]
    BY <1>2, <1>7, <2>5
  <2> HIDE DEF u
  <2>9. \A r \in ToSet(page) : r \in ToSet(got) \/ r \in cut
    BY <2>2 DEF cut
  <2>10. w.cut \subseteq cut /\ ToSet(w.got) \subseteq ToSet(got)
         /\ ToSet(got) \subseteq ToSet(w.got) \cup ToSet(page)
    BY <2>1, <2>2 DEF cut
  <2>11. ViewerIsSound(board, u)
    <3>1. ToSet(u.page) = {}
      BY <2>6 DEF ToSet
    <3>2. u.since \subseteq DOMAIN board
      BY <1>1, <2>6 DEF ViewerIsSound
    <3>3. \A r \in ToSet(u.got) \cup ToSet(u.page) : r \in DOMAIN board /\ SeenBy(board, u.scope, r)
      <4>1. \A r \in ToSet(w.got) : r \in DOMAIN board /\ SeenBy(board, w.scope, r)
        BY <1>1 DEF ViewerIsSound
      <4> QED
        BY <1>3, <2>6, <2>10, <3>1, <4>1
    <3>4. /\ u.next # NoCursor => u.next.order = u.order
          /\ ~(u.cursor # NoCursor)
          /\ ListsOnce(u.got, u.moved)
          /\ u.at = "answered" => u.next # NoCursor
          /\ u.at # "reading"
      BY <1>3, <2>3, <2>6
    <3>5. u.at = "answered" => WalkIsAt(board, u, u.next, ToSet(u.got))
      <4> SUFFICES ASSUME next # NoCursor PROVE WalkIsAt(board, u, next, ToSet(got))
        BY <2>6
      <4>1. WalkIsAt(board, w, next, ToSet(w.got) \cup ToSet(page))
        BY <1>3
      <4>2. \A r \in ToSet(got) : r \in w.moved \/ ~AfterIn(board, w.order, next, r)
        BY <2>10, <4>1 DEF WalkIsAt
      <4>3. \A r \in w.since : \/ r \in w.moved \/ ~SeenBy(board, w.scope, r)
                               \/ r \in ToSet(got) \/ r \in cut
                               \/ AfterIn(board, w.order, next, r)
        BY <2>9, <2>10, <4>1 DEF WalkIsAt
      <4> QED
        BY <2>6, <4>2, <4>3 DEF WalkIsAt
    <3>6. u.open => \A r \in u.since : r \in u.moved \/ board[r].status = RunningStatus
      BY <1>1, <2>6 DEF ViewerIsSound
    <3>7. u.at = "over" =>
             \A r \in u.since : \/ r \in u.moved \/ ~SeenBy(board, u.scope, r)
                                \/ r \in ToSet(u.got) \/ r \in u.cut
      <4> SUFFICES ASSUME next = NoCursor, NEW r \in w.since
                   PROVE  \/ r \in w.moved \/ ~SeenBy(board, w.scope, r)
                          \/ r \in ToSet(got) \/ r \in cut
        BY <2>6
      <4> QED
        BY <1>3, <2>9, <2>10
    <3> QED
      BY <3>2, <3>3, <3>4, <3>5, <3>6, <3>7 DEF ViewerIsSound
  <2> QED
    BY <1>1, <2>7, <2>8, <2>11, OneViewerMoves
<1>8. CASE ~done
  <2> DEFINE u == onward
  <2>1. next # NoCursor /\ w.passes + 1 \in 0..FillPages /\ w.passes + 1 < FillPages
    BY <1>4, <1>8
  <2>2. viewer' = [viewer EXCEPT ![v] = u]
    BY <1>2, <1>8
  <2> HIDE DEF done
  <2>3. /\ u.at = "reading" /\ u.scope = w.scope /\ u.order = w.order /\ (u.open <=> w.open)
        /\ u.next = w.next /\ u.cursor = next /\ u.passes = w.passes + 1 /\ u.page = page
        /\ u.got = w.got /\ u.since = w.since /\ u.moved = w.moved /\ u.cut = w.cut
    BY <1>1 DEF Viewer
  <2>4. u \in Viewer
    BY <1>1, <1>3, <1>5, <2>1 DEF Viewer
  <2> HIDE DEF u
  <2>5. ViewerIsSound(board, u)
    <3>1. WalkIsAt(board, u, u.cursor, ToSet(u.got) \cup ToSet(u.page))
      <4>1. WalkIsAt(board, w, next, ToSet(w.got) \cup ToSet(page))
        BY <1>3, <2>1
      <4> QED
        BY <2>3, <4>1 DEF WalkIsAt
    <3>2. WalkIsAt(board, u, u.next, ToSet(u.got))
      <4>1. WalkIsAt(board, w, w.next, ToSet(w.got))
        BY <1>1 DEF ViewerIsSound
      <4> QED
        BY <2>3, <4>1 DEF WalkIsAt
    <3>3. \A r \in ToSet(u.got) \cup ToSet(u.page) : r \in DOMAIN board /\ SeenBy(board, u.scope, r)
      <4>1. \A r \in ToSet(w.got) : r \in DOMAIN board /\ SeenBy(board, w.scope, r)
        BY <1>1 DEF ViewerIsSound
      <4> QED
        BY <1>3, <2>3, <4>1
    <3>4. /\ u.since \subseteq DOMAIN board
          /\ u.next # NoCursor => u.next.order = u.order
          /\ ListsOnce(u.got, u.moved)
          /\ u.open => \A r \in u.since : r \in u.moved \/ board[r].status = RunningStatus
      BY <1>1, <2>3 DEF ViewerIsSound
    <3>5. /\ u.cursor # NoCursor => u.cursor.order = u.order
          /\ u.passes < FillPages
          /\ ListsOnce(u.page, u.moved)
          /\ \A r \in ToSet(u.got) \cap ToSet(u.page) : r \in u.moved
          /\ u.at = "reading"
      BY <1>3, <2>1, <2>3
    <3> QED
      BY <3>1, <3>2, <3>3, <3>4, <3>5 DEF ViewerIsSound
  <2> QED
    BY <1>1, <2>2, <2>4, <2>5, OneViewerMoves
<1> QED
  BY <1>7, <1>8

LEMMA ListStep ==
    ASSUME ListInv, [ListNext]_listVars
    PROVE  ListInv'
<1>1. CASE UNCHANGED listVars
  BY <1>1 DEF ListInv, listVars
<1>2. CASE ListNext
  BY <1>2, AcceptRowStep, EndRowStep, AskFirstStep, AskNextStep, ReadPageStep, ReadFailsStep
     DEF ListNext
<1> QED
  BY <1>1, <1>2

-----------------------------------------------------------------------------
(* The reading of a deployment                                             *)

HistoryInv == ListInv /\ FollowInv

LEMMA HistoryBegins ==
    ASSUME ServicesInit
    PROVE  HistoryInv
BY ListBegins, FollowBegins DEF ServicesInit, HistoryInv

LEMMA HistoryMoves ==
    ASSUME [ServicesNext]_servicesVars
    PROVE  [ListNext]_listVars /\ [FollowNext]_followVars
BY DEF ServicesNext, servicesVars, MovedBy

LEMMA HistoryStep ==
    ASSUME HistoryInv, [ServicesNext]_servicesVars
    PROVE  HistoryInv'
BY HistoryMoves, ListStep, FollowStep DEF HistoryInv

\* The walks over the list of runs and over a run's events keep what they know of
\* their place in it, whichever part moves.
THEOREM HistoryKeepsItsInvariants == ServicesSpec => []HistoryInv
BY HistoryBegins, HistoryStep, PTL DEF ServicesSpec

\* For any number of viewers, runs and pages: no page shows a run twice or out
\* of the viewer's scope, and the last page leaves out none that was there all
\* along; what is read of a run's events is its log up to the cursor; and the
\* figures of one answer are of one set of runs.
THEOREM HistoryIsReadWhole == ServicesSpec => []HistoryReadsTrue
<1>1. HistoryInv => ReadsAreWhole
  BY ListIsGood, FollowIsGood DEF HistoryInv, ReadsAreWhole
<1>2. ReadsAreWhole /\ MetricsAgree => HistoryReadsTrue
  BY DEF HistoryReadsTrue
<1> QED
  BY <1>1, <1>2, HistoryKeepsItsInvariants, FiguresAgree, PTL

-----------------------------------------------------------------------------
(* How a plan came about                                                   *)

LEMMA MaxIsIn ==
    ASSUME NEW S \in SUBSET Int, IsFiniteSet(S), S # {}
    PROVE  Max(S) \in S /\ \A x \in S : Max(S) >= x
<1> DEFINE R == {pair \in S \X S : pair[1] < pair[2]}
<1>1. \A a, b \in S : <<a, b>> \in R <=> a < b
  OBVIOUS
<1>2. IsOrder(R, S)
  <2> HIDE DEF R
  <2>1. \A a, b \in S : a = b \/ a < b \/ b < a
    OBVIOUS
  <2>2. \A a, b \in S : a < b => ~(b < a)
    OBVIOUS
  <2>3. \A a, b, c \in S : a < b /\ b < c => a < c
    OBVIOUS
  <2> QED
    BY <1>1, <2>1, <2>2, <2>3 DEF IsOrder
<1>3. PICK m \in S : \A x \in S : x # m => <<x, m>> \in R
  <2> HIDE DEF R
  <2> QED
    BY <1>2, LastOne
<1>4. \A x \in S : m >= x
  <2> HIDE DEF R
  <2> SUFFICES ASSUME NEW x \in S PROVE m >= x
    OBVIOUS
  <2>1. m \in Int /\ x \in Int
    BY <1>3
  <2>2. x # m => x < m
    BY <1>1, <1>3
  <2> QED
    BY <2>1, <2>2
<1> QED
  BY <1>4 DEF Max

\* What is kept of a file is no more than there is room for.
LEMMA CutIsBounded ==
    ASSUME NEW f \in 1 .. Len(Contents), NEW bound \in Nat
    PROVE  Cut(Contents[f], bound) \in 0 .. bound
<1> DEFINE file == Contents[f]
           whole == {b \in file.breaks : 1 < b /\ b <= bound}
<1>1. file.chars \in Nat /\ file.breaks \in SUBSET Nat
  <2>1. Contents[f] \in [chars : Nat, breaks : SUBSET Nat]
    BY PlanningAssumption, ElementOfSeq
  <2> QED
    BY <2>1
<1>2. whole \in SUBSET (0 .. bound) /\ whole \in SUBSET Int
  BY <1>1
<1>3. IsFiniteSet(whole)
  <2>1. 0 \in Int /\ bound \in Int
    OBVIOUS
  <2>2. IsFiniteSet(0 .. bound)
    BY <2>1, FS_Interval
  <2> QED
    BY <1>2, <2>2, FS_Subset
<1>4. whole # {} => Max(whole) \in whole
  BY <1>2, <1>3, MaxIsIn
<1>5. Cut(file, bound) = IF file.chars <= bound THEN file.chars
                         ELSE IF whole = {} THEN bound ELSE Max(whole)
  BY DEF Cut
<1>6. file.chars <= bound => file.chars \in 0 .. bound
  BY <1>1
<1>7. bound \in 0 .. bound
  OBVIOUS
<1>8. whole # {} => Max(whole) \in 0 .. bound
  <2> HIDE DEF whole
  <2> QED
    BY <1>2, <1>4
<1> HIDE DEF whole
<1> QED
  BY <1>5, <1>6, <1>7, <1>8

\* The reader keeps within its bounds and charges each file it keeps once.
ReaderIsSound(r) ==
    /\ DOMAIN r.kept \subseteq 1 .. Len(Contents)
    /\ \A f \in DOMAIN r.kept : r.kept[f] \in Nat
    /\ Cardinality(DOMAIN r.kept) <= MaxFiles
    /\ r.chars \in 0 .. MaxTotal
    /\ r.chars = SumOver(r.kept, DOMAIN r.kept)

LEMMA SomeFilesAreFinite ==
    ASSUME NEW S \in SUBSET (1 .. Len(Contents))
    PROVE  IsFiniteSet(S) /\ Cardinality(S) \in Nat
<1>1. 1 \in Int /\ Len(Contents) \in Int
  BY PlanningAssumption
<1>2. IsFiniteSet(1 .. Len(Contents))
  BY <1>1, FS_Interval
<1>3. IsFiniteSet(S)
  BY <1>2, FS_Subset
<1> QED
  BY <1>3, FS_CardinalityType

LEMMA UnreadIsSound == ReaderIsSound(Unread)
<1>1. Unread.kept = [f \in {} |-> 0] /\ Unread.chars = 0 /\ DOMAIN Unread.kept = {}
  BY DEF Unread
<1>2. SumOver(Unread.kept, {}) = 0
  BY SumEmpty
<1>3. Cardinality({}) = 0
  BY FS_EmptySet
<1>4. MaxFiles \in Nat /\ MaxTotal \in Nat
  BY PlanningAssumption
<1> QED
  BY <1>1, <1>2, <1>3, <1>4 DEF ReaderIsSound

LEMMA OneMoreRead ==
    ASSUME NEW r, ReaderIsSound(r), NEW f \in 1 .. Len(Contents)
    PROVE  ReaderIsSound(ReadBounded(r, f))
<1> DEFINE rest == MaxTotal - r.chars
           bound == IF MaxChars < rest THEN MaxChars ELSE rest
           taken == Cut(Contents[f], bound)
           D == DOMAIN r.kept
           k == [g \in D \cup {f} |-> IF g = f THEN taken ELSE r.kept[g]]
           n == [kept |-> k, chars |-> r.chars + taken]
<1>1. MaxTotal \in Nat /\ MaxChars \in Nat /\ MaxFiles \in Nat
  BY PlanningAssumption
<1>2. ReadBounded(r, f) = IF f \in D \/ Cardinality(D) >= MaxFiles \/ rest = 0
                          THEN r ELSE n
  BY DEF ReadBounded
<1>3. ASSUME f \notin D, ~(Cardinality(D) >= MaxFiles) PROVE ReaderIsSound(n)
  <2>1. D \in SUBSET (1 .. Len(Contents)) /\ r.chars \in 0 .. MaxTotal
    BY DEF ReaderIsSound
  <2>2. IsFiniteSet(D) /\ Cardinality(D) \in Nat
    BY <2>1, SomeFilesAreFinite
  <2>3. rest \in Nat /\ bound \in Nat /\ bound <= rest
    BY <1>1, <2>1
  <2>4. taken \in 0 .. bound
    <3> HIDE DEF bound
    <3> QED
      BY <2>3, CutIsBounded
  <2>5. r.chars + taken \in 0 .. MaxTotal
    <3> HIDE DEF bound, taken
    <3> QED
      BY <1>1, <2>1, <2>3, <2>4
  <2>6. taken \in Nat
    <3> HIDE DEF bound, taken
    <3> QED
      BY <2>3, <2>4
  <2> HIDE DEF taken
  <2>7. DOMAIN k = D \cup {f} /\ k[f] = taken /\ \A g \in D : k[g] = r.kept[g]
    BY <1>3
  <2>8. \A g \in D \cup {f} : k[g] \in Nat
    BY <2>6, <2>7 DEF ReaderIsSound
  <2>9. Cardinality(D \cup {f}) <= MaxFiles
    <3>1. Cardinality(D \cup {f}) = Cardinality(D) + 1
      BY <1>3, <2>2, FS_AddElement
    <3> QED
      BY <1>1, <1>3, <2>2, <3>1
  <2>10. r.chars + taken = SumOver(k, D \cup {f})
    <3> HIDE DEF k, D
    <3>1. \A g \in D \cup {f} : k[g] \in Int
      BY <2>8
    <3>2. SumOver(k, D \cup {f}) = k[f] + SumOver(k, D)
      BY <1>3, <2>2, <3>1, SumInsert
    <3>3. SumOver(k, D) = SumOver(r.kept, D)
      BY <2>2, <2>7, SumSame
    <3>4. r.chars = SumOver(r.kept, D)
      BY DEF ReaderIsSound, D
    <3> QED
      BY <2>1, <2>6, <2>7, <3>2, <3>3, <3>4
  <2>11. n.kept = k /\ n.chars = r.chars + taken /\ DOMAIN n.kept = D \cup {f}
    BY <2>7
  <2>12. D \cup {f} \subseteq 1 .. Len(Contents)
    BY <2>1
  <2> HIDE DEF k, n, D
  <2> QED
    BY <2>5, <2>8, <2>9, <2>10, <2>11, <2>12 DEF ReaderIsSound
<1> HIDE DEF n
<1> QED
  BY <1>2, <1>3

\* g reads the files at every set of places, the greatest place last.
Reads(g, files, S) ==
    g = [s \in SUBSET S |->
           IF s = {} THEN Unread ELSE ReadBounded(g[s \ {Max(s)}], files[Max(s)])]

HasGreatest(S) == \A s \in SUBSET S : s # {} => Max(s) \in s

LEMMA ReadsUnique ==
    ASSUME NEW S, IsFiniteSet(S), HasGreatest(S), NEW files, NEW T \in SUBSET S,
           NEW g, NEW k, Reads(g, files, S), Reads(k, files, T)
    PROVE  \A s \in SUBSET T : g[s] = k[s]
<1> DEFINE B == {s \in SUBSET T : g[s] # k[s]}
<1> SUFFICES ASSUME B # {} PROVE FALSE
  OBVIOUS
<1>1. PICK s \in B : \A U \in B : U \subseteq s => U = s
  <2> HIDE DEF B
  <2>1. B \subseteq SUBSET S
    BY DEF B
  <2> QED
    BY <2>1, LeastSubset
<1>2. g[s] = IF s = {} THEN Unread ELSE ReadBounded(g[s \ {Max(s)}], files[Max(s)])
  BY <1>1 DEF Reads
<1>3. k[s] = IF s = {} THEN Unread ELSE ReadBounded(k[s \ {Max(s)}], files[Max(s)])
  BY <1>1 DEF Reads
<1>4. s # {} /\ g[s \ {Max(s)}] # k[s \ {Max(s)}]
  BY <1>1, <1>2, <1>3
<1>5. Max(s) \in s
  BY <1>1, <1>4 DEF HasGreatest
<1>6. s \ {Max(s)} \in B /\ s \ {Max(s)} # s
  BY <1>1, <1>4, <1>5
<1> QED
  BY <1>1, <1>6

LEMMA ReadsTotal ==
    ASSUME NEW S, IsFiniteSet(S), HasGreatest(S), NEW files
    PROVE  \E g : Reads(g, files, S)
<1> DEFINE B == {T \in SUBSET S : ~ \E g : Reads(g, files, T)}
<1> SUFFICES ASSUME B # {} PROVE FALSE
  OBVIOUS
<1>1. PICK T \in B : \A U \in B : U \subseteq T => U = T
  <2> HIDE DEF B
  <2>1. B \subseteq SUBSET S
    BY DEF B
  <2> QED
    BY <2>1, LeastSubset
<1>2. ASSUME NEW U \in SUBSET T, U # T PROVE \E g : Reads(g, files, U)
  BY <1>1, <1>2
<1> DEFINE Part(U) == CHOOSE g : Reads(g, files, U)
<1>3. ASSUME NEW U \in SUBSET T, U # T PROVE Reads(Part(U), files, U)
  BY <1>2, <1>3
<1> HIDE DEF Part
<1>4. T \in SUBSET S
  BY <1>1
<1>5. ASSUME NEW U \in SUBSET T, U # {} PROVE Max(U) \in U
  BY <1>4, <1>5 DEF HasGreatest
<1>6. ASSUME NEW U \in SUBSET T, U # T, U # {}
      PROVE  Part(U)[U] = ReadBounded(Part(U \ {Max(U)})[U \ {Max(U)}], files[Max(U)])
  <2>1. U \ {Max(U)} \in SUBSET U /\ U \ {Max(U)} \in SUBSET T /\ U \ {Max(U)} # T
    BY <1>5, <1>6
  <2>2. IsFiniteSet(U) /\ HasGreatest(U)
    BY <1>4, FS_Subset DEF HasGreatest
  <2>3. Part(U)[U \ {Max(U)}] = Part(U \ {Max(U)})[U \ {Max(U)}]
    BY <1>3, <1>6, <2>1, <2>2, ReadsUnique
  <2>4. Part(U)[U] = ReadBounded(Part(U)[U \ {Max(U)}], files[Max(U)])
    BY <1>3, <1>6 DEF Reads
  <2> QED
    BY <2>3, <2>4
<1>7. ASSUME {} # T PROVE Part({})[{}] = Unread
  BY <1>3, <1>7 DEF Reads
<1> DEFINE h == [s \in SUBSET T |->
             IF s = {} THEN Unread
             ELSE ReadBounded(Part(s \ {Max(s)})[s \ {Max(s)}], files[Max(s)])]
<1>8. Reads(h, files, T)
  <2> SUFFICES ASSUME NEW s \in SUBSET T, s # {}
               PROVE  h[s \ {Max(s)}] = Part(s \ {Max(s)})[s \ {Max(s)}]
    BY DEF Reads
  <2> DEFINE u == s \ {Max(s)}
  <2>1. u \in SUBSET T /\ u # T
    BY <1>5
  <2>2. CASE u = {}
    BY <1>7, <2>1, <2>2
  <2>3. CASE u # {}
    BY <1>6, <2>1, <2>3
  <2> QED
    BY <2>2, <2>3
<1> QED
  BY <1>1, <1>8

\* However many files are read, and however often.
LEMMA ReadAllIsSound ==
    ASSUME NEW files \in Seq(1 .. Len(Contents))
    PROVE  ReaderIsSound(ReadAll(files))
<1> DEFINE S == DOMAIN files
           g == CHOOSE g : Reads(g, files, S)
<1>1. S = 1 .. Len(files) /\ Len(files) \in Nat /\ S \in SUBSET Int
  OBVIOUS
<1>2. IsFiniteSet(S)
  <2>1. 1 \in Int /\ Len(files) \in Int
    OBVIOUS
  <2> QED
    BY <1>1, <2>1, FS_Interval
<1>3. Reads(g, files, S)
  <2> HIDE DEF S
  <2>1. HasGreatest(S)
    <3> SUFFICES ASSUME NEW s \in SUBSET S, s # {} PROVE Max(s) \in s
      BY DEF HasGreatest
    <3>1. s \in SUBSET Int /\ IsFiniteSet(s)
      BY <1>1, <1>2, FS_Subset
    <3> QED
      BY <3>1, MaxIsIn
  <2> QED
    BY <1>2, <2>1, ReadsTotal
<1>4. ReadAll(files) = g[S]
  BY DEF ReadAll, FoldLeft, MapThenFoldSet, Reads
<1> HIDE DEF g, S
<1> DEFINE B == {T \in SUBSET S : ~ReaderIsSound(g[T])}
<1>5. B = {}
  <2> SUFFICES ASSUME B # {} PROVE FALSE
    OBVIOUS
  <2>1. PICK T \in B : \A U \in B : U \subseteq T => U = T
    <3> HIDE DEF B
    <3>1. B \subseteq SUBSET S
      BY DEF B
    <3> QED
      BY <1>2, <3>1, LeastSubset
  <2>2. g[T] = IF T = {} THEN Unread ELSE ReadBounded(g[T \ {Max(T)}], files[Max(T)])
    BY <1>3, <2>1 DEF Reads
  <2>3. T # {}
    BY <2>1, <2>2, UnreadIsSound
  <2>4. Max(T) \in T
    <3>1. T \in SUBSET Int /\ IsFiniteSet(T)
      BY <1>1, <1>2, <2>1, FS_Subset
    <3> QED
      BY <2>3, <3>1, MaxIsIn
  <2>5. ReaderIsSound(g[T \ {Max(T)}])
    BY <2>1, <2>4
  <2>6. files[Max(T)] \in 1 .. Len(Contents)
    <3>1. Max(T) \in 1 .. Len(files)
      BY <1>1, <2>1, <2>4
    <3> QED
      BY <3>1, ElementOfSeq
  <2>7. ReaderIsSound(g[T])
    BY <2>2, <2>3, <2>5, <2>6, OneMoreRead
  <2> QED
    BY <2>1, <2>7
<1> QED
  BY <1>4, <1>5

LEMMA ReadingOrderIs ==
    ASSUME NEW files \in SUBSET (1 .. Len(Contents))
    PROVE  InReadingOrder(files) \in Seq(1 .. Len(Contents))
<1> DEFINE R == {pair \in files \X files : pair[1] < pair[2]}
           n == Cardinality(files)
<1>1. IsFiniteSet(files) /\ n \in Nat
  BY SomeFilesAreFinite
<1>2. \A a, b \in files : <<a, b>> \in R <=> a < b
  OBVIOUS
<1>3. IsOrder(R, files)
  <2> HIDE DEF R
  <2>1. \A a, b \in files : (a = b \/ a < b \/ b < a) /\ (a < b => ~(b < a))
    OBVIOUS
  <2>2. \A a, b, c \in files : a < b /\ b < c => a < c
    OBVIOUS
  <2> QED
    BY <1>2, <2>1, <2>2 DEF IsOrder
<1>4. PICK s \in [1 .. n -> files] : Ascends(s, R)
  <2> HIDE DEF R
  <2> QED
    BY <1>1, <1>3, OrderExists
<1>5. \A i, j \in DOMAIN s : i < j => s[i] < s[j]
  <2> HIDE DEF R
  <2> SUFFICES ASSUME NEW i \in DOMAIN s, NEW j \in DOMAIN s, i < j PROVE s[i] < s[j]
    OBVIOUS
  <2>1. <<s[i], s[j]>> \in R
    BY <1>4 DEF Ascends
  <2>2. s[i] \in files /\ s[j] \in files
    BY <1>4
  <2> QED
    BY <1>2, <2>1, <2>2
<1>6. InReadingOrder(files) \in [1 .. n -> files]
  BY <1>4, <1>5 DEF InReadingOrder
<1> HIDE DEF n
<1>7. InReadingOrder(files) \in [1 .. n -> 1 .. Len(Contents)]
  BY <1>6
<1> QED
  BY <1>1, <1>7

LEMMA InspectedIs ==
    ASSUME NEW S, NEW s \in Seq(S)
    PROVE  Inspected(s) \in Seq(S)
<1> DEFINE n == IF MaxInspect < Len(s) THEN MaxInspect ELSE Len(s)
<1>1. Len(s) \in Nat /\ n \in Nat /\ n <= Len(s)
  BY PlanningAssumption
<1>2. \A i \in 1..n : s[i] \in S
  BY <1>1
<1> QED
  BY <1>1, <1>2, SubSeqProperties DEF Inspected

\* What is inspected and then read for the prompt are files.
LEMMA ReadTwiceIsSound ==
    ASSUME NEW unreadable, NEW files,
           files = InReadingOrder((1 .. Len(Contents)) \ unreadable)
    PROVE  ReaderIsSound(ReadAll(Inspected(files) \o files))
<1>1. files \in Seq(1 .. Len(Contents))
  BY ReadingOrderIs
<1>2. Inspected(files) \in Seq(1 .. Len(Contents))
  BY <1>1, InspectedIs
<1>3. Inspected(files) \o files \in Seq(1 .. Len(Contents))
  BY <1>1, <1>2, ConcatProperties
<1> QED
  BY <1>3, ReadAllIsSound

Awaits(p) == p.at \in {"ready", "waiting"}

\* The loop of a planner p whose calls are k: an entry of the log for every attempt
\* that ended, made of the answer of its own call unless it was abandoned; no call
\* for an attempt still to come; and an outcome that is the one of the log.
LoopIsSound(p, k) ==
    /\ p \in Planner
    /\ Awaits(p) => p.attempt >= 1
    /\ Len(p.log) = IF Awaits(p) THEN p.attempt - 1 ELSE p.attempt
    /\ p.at \in {"idle", "gathering"} => p.attempt = 0
    /\ p.at # "over" => p.outcome = "none"
    /\ \A a \in Attempts :
          \/ p.at = "over" \/ a < p.attempt
          \/ a = p.attempt /\ p.at # "ready"
          \/ k[a].at = "none"
    /\ \A i \in 1 .. Len(p.log) :
          /\ p.log[i].stage # "generate-error" =>
                /\ k[i].at = "ended"
                /\ p.log[i] = RecordOf(k[i].answer, p.evidence)
          /\ p.log[i].stage = "accepted" <=> p.outcome = "accepted" /\ i = p.attempt
    /\ p.outcome = "accepted" => p.attempt >= 1
    /\ p.refused <=> \E i \in 1 .. Len(p.log) : p.log[i].codes # {}
    /\ p.outcome \in {"refused-target", "plan-invalid"} =>
          /\ p.attempt = MaxPlanRetries + 1
          /\ p.refused <=> p.outcome = "refused-target"

CallsAreSound ==
    /\ asks \in [Attempts -> Ask] /\ held \subseteq Attempts
    /\ \A a \in Attempts :
          /\ asks[a].lapsed => asks[a].at = "ended"
          /\ a \in held => asks[a].at \in {"running", "settling"} \/ asks[a].lapsed

PlanningInv == ReaderIsSound(reader) /\ LoopIsSound(planner, asks) /\ CallsAreSound

LEMMA PlanningBegins == ASSUME PlanningInit PROVE PlanningInv
<1>1. MaxPlanRetries \in Nat
  BY PlanningAssumption
<1>2. planner \in Planner
  BY <1>1 DEF PlanningInit, Planner, NoEvidence, Evidence, Outcome
<1>3. asks \in [Attempts -> Ask] /\ held = {}
  BY DEF PlanningInit, Ask, NotAsked
<1>4. LoopIsSound(planner, asks)
  BY <1>1, <1>2 DEF PlanningInit, LoopIsSound, Awaits, NotAsked, Attempts
<1>5. CallsAreSound
  BY <1>3 DEF PlanningInit, CallsAreSound, NotAsked
<1> QED
  BY <1>4, <1>5, UnreadIsSound DEF PlanningInit, PlanningInv

LEMMA AttemptRecordIs ==
    ASSUME NEW answer \in PlanAnswer \cup {"threw"}, NEW e, NEW rec,
           rec = RecordOf(answer, e)
    PROVE  /\ rec \in AttemptRecord
           /\ rec.stage = "generate-error" <=> answer = "threw"
<1>1. rec.stage = CASE answer = "threw" -> "generate-error"
                    [] answer = "garbled" -> "parse"
                    [] IsValid(answer, e) -> "accepted"
                    [] OTHER -> "validate"
  BY DEF RecordOf
<1>2. rec.stage \in {"accepted", "generate-error", "parse", "validate"}
  BY <1>1 DEF PlanAnswer
<1>3. rec.stage = "generate-error" <=> answer = "threw"
  BY <1>1 DEF PlanAnswer, IsValid
<1>4. Codes(answer, e) \in SUBSET {"target-role", "target-missing"}
  BY DEF Codes
<1>5. rec = [stage |-> rec.stage, codes |-> Codes(answer, e)]
  BY DEF RecordOf
<1> QED
  BY <1>2, <1>3, <1>4, <1>5 DEF AttemptRecord

\* The planner p after an attempt that ended with the record rec.
AfterAttempt(p, rec) ==
    LET refused == p.refused \/ rec.codes # {}
        noted == [p EXCEPT !.log = Append(@, rec), !.refused = refused]
    IN  IF rec.stage = "accepted"
        THEN [noted EXCEPT !.at = "over", !.outcome = "accepted"]
        ELSE IF p.attempt <= MaxPlanRetries
        THEN [noted EXCEPT !.at = "ready", !.attempt = @ + 1]
        ELSE [noted EXCEPT !.at = "over",
                       !.outcome = IF refused THEN "refused-target"
                                   ELSE "plan-invalid"]

LEMMA EndedIs ==
    ASSUME NEW p, NEW k, NEW l, LoopIsSound(p, k), p.at = "waiting",
           \A b \in Attempts : b # p.attempt => l[b] = k[b],
           NEW answer \in PlanAnswer \cup {"threw"},
           answer # "threw" => l[p.attempt].at = "ended" /\ l[p.attempt].answer = answer,
           NEW rec, rec = RecordOf(answer, p.evidence), NEW q, q = AfterAttempt(p, rec)
    PROVE  LoopIsSound(q, l)
<1> DEFINE a == p.attempt
           log == Append(p.log, rec)
           more == a <= MaxPlanRetries
           refused == p.refused \/ rec.codes # {}
           done == rec.stage = "accepted"
<1>1. /\ p \in Planner /\ p.outcome = "none" /\ MaxPlanRetries \in Nat
      /\ a \in 1 .. MaxPlanRetries + 1 /\ Len(p.log) = a - 1 /\ p.log \in Seq(AttemptRecord)
  BY PlanningAssumption DEF LoopIsSound, Awaits, Planner
<1>2. rec \in AttemptRecord /\ (rec.stage = "generate-error" <=> answer = "threw")
  BY AttemptRecordIs
<1>3. q = [at |-> IF ~done /\ more THEN "ready" ELSE "over", story |-> p.story,
           evidence |-> p.evidence, attempt |-> IF ~done /\ more THEN a + 1 ELSE a,
           log |-> log, refused |-> refused,
           outcome |-> IF done THEN "accepted" ELSE IF more THEN "none"
                       ELSE IF refused THEN "refused-target" ELSE "plan-invalid"]
  <2>1. p = [at |-> p.at, story |-> p.story, evidence |-> p.evidence, attempt |-> p.attempt,
             log |-> p.log, refused |-> p.refused, outcome |-> p.outcome]
    BY <1>1 DEF Planner
  <2> DEFINE noted == [p EXCEPT !.log = log, !.refused = refused]
  <2>2. noted = [at |-> p.at, story |-> p.story, evidence |-> p.evidence,
                 attempt |-> p.attempt, log |-> log, refused |-> refused,
                 outcome |-> p.outcome]
    <3> HIDE DEF log, refused
    <3> DEFINE first == [p EXCEPT !.log = log]
    <3>1. first = [at |-> p.at, story |-> p.story, evidence |-> p.evidence,
                   attempt |-> p.attempt, log |-> log, refused |-> p.refused,
                   outcome |-> p.outcome]
      BY <1>1 DEF Planner
    <3>2. noted = [first EXCEPT !.refused = refused]
      OBVIOUS
    <3> HIDE DEF first, noted
    <3> QED
      BY <3>1, <3>2
  <2>3. q = IF done THEN [noted EXCEPT !.at = "over", !.outcome = "accepted"]
            ELSE IF more THEN [noted EXCEPT !.at = "ready", !.attempt = noted.attempt + 1]
            ELSE [noted EXCEPT !.at = "over",
                       !.outcome = IF refused THEN "refused-target" ELSE "plan-invalid"]
    BY DEF AfterAttempt
  <2> HIDE DEF noted, log, refused, done, more
  <2> QED
    BY <1>1, <2>2, <2>3 DEF more
<1>4. /\ log \in Seq(AttemptRecord) /\ Len(log) = a /\ log[a] = rec
      /\ \A i \in 1 .. a - 1 : log[i] = p.log[i]
  BY <1>1, <1>2
<1>5. refused \in BOOLEAN
  BY <1>1 DEF Planner
<1>6. q \in Planner
  <2> HIDE DEF log, refused, done
  <2>1. /\ p.story \in BOOLEAN /\ p.evidence \in Evidence
        /\ (IF ~done /\ more THEN a + 1 ELSE a) \in 0 .. MaxPlanRetries + 1
    BY <1>1 DEF Planner
  <2> QED
    BY <1>3, <1>4, <1>5, <2>1 DEF Planner, Outcome
<1>7. /\ q.log = log /\ q.evidence = p.evidence /\ q.refused = refused
      /\ q.at = IF ~done /\ more THEN "ready" ELSE "over"
      /\ q.attempt = IF ~done /\ more THEN a + 1 ELSE a
      /\ q.outcome = IF done THEN "accepted" ELSE IF more THEN "none"
                     ELSE IF refused THEN "refused-target" ELSE "plan-invalid"
  BY <1>3
<1>8. \A i \in 1 .. a - 1 :
         /\ p.log[i].stage # "generate-error" =>
               k[i].at = "ended" /\ p.log[i] = RecordOf(k[i].answer, p.evidence)
         /\ p.log[i].stage # "accepted"
  BY <1>1 DEF LoopIsSound
<1>9. p.refused <=> \E i \in 1 .. a - 1 : p.log[i].codes # {}
  BY <1>1 DEF LoopIsSound
<1>10. \A b \in Attempts : b > a => k[b].at = "none"
  BY <1>1 DEF LoopIsSound, Attempts
<1>11. \A i \in 1 .. a - 1 : i \in Attempts /\ i # a /\ i \in 1 .. a
  BY <1>1 DEF Attempts
<1>12. \A i \in 1 .. a : i = a \/ i \in 1 .. a - 1
  BY <1>1
<1> HIDE DEF a, log, refused, done
<1>13. ASSUME NEW b \in Attempts,
              ~ (\/ q.at = "over" \/ b < q.attempt
                 \/ b = q.attempt /\ q.at # "ready")
       PROVE  l[b].at = "none"
  <2>1. b > a /\ b # a
    <3>1. q.at = "ready" /\ q.attempt = a + 1
      BY <1>7, <1>13
    <3> QED
      BY <1>1, <1>13, <3>1 DEF Attempts
  <2> QED
    BY <1>10, <2>1 DEF a
<1>14. ASSUME NEW i \in 1 .. a
       PROVE  /\ log[i].stage # "generate-error" =>
                    l[i].at = "ended" /\ log[i] = RecordOf(l[i].answer, p.evidence)
              /\ log[i].stage = "accepted" <=> q.outcome = "accepted" /\ i = q.attempt
  <2>1. CASE i = a
    <3>1. log[i] = rec
      BY <1>4, <2>1
    <3>2. log[i].stage # "generate-error" =>
             l[i].at = "ended" /\ log[i] = RecordOf(l[i].answer, p.evidence)
      BY <1>2, <2>1, <3>1 DEF a
    <3>3. log[i].stage = "accepted" <=> q.outcome = "accepted" /\ i = q.attempt
      BY <1>7, <2>1, <3>1 DEF done
    <3> QED
      BY <3>2, <3>3
  <2>2. CASE i # a
    <3>1. i \in 1 .. a - 1 /\ i \in Attempts /\ log[i] = p.log[i] /\ l[i] = k[i]
      BY <1>4, <1>11, <1>12, <2>2 DEF a
    <3>2. log[i].stage # "accepted"
      BY <1>8, <3>1
    <3>3. ~(q.outcome = "accepted" /\ i = q.attempt)
      BY <1>7, <2>2
    <3> QED
      BY <1>8, <3>1, <3>2, <3>3
  <2> QED
    BY <2>1, <2>2
<1>15. refused <=> \E i \in 1 .. a : log[i].codes # {}
  <2>1. ASSUME NEW i \in 1 .. a, log[i].codes # {} PROVE refused
    BY <1>4, <1>9, <1>12, <2>1 DEF refused
  <2>2. ASSUME refused PROVE \E i \in 1 .. a : log[i].codes # {}
    <3>1. CASE rec.codes # {}
      BY <1>1, <1>4, <3>1
    <3>2. CASE p.refused
      BY <1>4, <1>9, <1>11, <3>2
    <3> QED
      BY <2>2, <3>1, <3>2 DEF refused
  <2> QED
    BY <1>5, <2>1, <2>2
<1>16. /\ Awaits(q) <=> ~done /\ more
       /\ Len(q.log) = a /\ q.attempt \in Nat /\ q.attempt >= 1
       /\ ~done /\ ~more => q.attempt = MaxPlanRetries + 1
  BY <1>1, <1>4, <1>7 DEF Awaits, more
<1>17. Len(q.log) = IF Awaits(q) THEN q.attempt - 1 ELSE q.attempt
  BY <1>1, <1>7, <1>16
<1>18. q.outcome \in {"refused-target", "plan-invalid"} =>
          q.attempt = MaxPlanRetries + 1 /\ (q.refused <=> q.outcome = "refused-target")
  BY <1>5, <1>7, <1>16
<1>19. /\ q.at \notin {"idle", "gathering"} /\ (q.at # "over" => q.outcome = "none")
  BY <1>7
<1> QED
  BY <1>6, <1>7, <1>13, <1>14, <1>15, <1>16, <1>17, <1>18, <1>19 DEF LoopIsSound

LEMMA LoopStays ==
    ASSUME NEW p, NEW k, NEW l, LoopIsSound(p, k),
           \A a \in Attempts : k[a].at \in {"none", "ended"} => l[a] = k[a]
    PROVE  LoopIsSound(p, l)
<1>1. MaxPlanRetries \in Nat /\ p.attempt \in 0 .. MaxPlanRetries + 1 /\ Len(p.log) \in Nat
  BY PlanningAssumption DEF LoopIsSound, Planner
<1>2. Len(p.log) <= p.attempt
  BY <1>1 DEF LoopIsSound
<1>3. \A i \in 1 .. Len(p.log) : i \in Attempts
  BY <1>1, <1>2 DEF Attempts
<1> QED
  BY <1>3 DEF LoopIsSound

LEMMA AttemptEnds ==
    ASSUME PlanningInv, planner.at = "waiting",
           NEW answer \in PlanAnswer \cup {"threw"}, EndAttempt(answer),
           \A b \in Attempts : b # planner.attempt => asks'[b] = asks[b],
           answer # "threw" => /\ asks'[planner.attempt].at = "ended"
                               /\ asks'[planner.attempt].answer = answer
    PROVE  LoopIsSound(planner', asks')
<1> DEFINE rec == RecordOf(answer, planner.evidence)
<1>1. planner' = AfterAttempt(planner, rec)
  BY DEF EndAttempt, AfterAttempt
<1>2. LoopIsSound(planner, asks)
  BY DEF PlanningInv
<1> QED
  BY <1>1, <1>2, EndedIs

\* A call of which only one step is left: its attempt may have been abandoned.
LEMMA CallEnds ==
    ASSUME PlanningInv, NEW a \in Attempts, asks[a].at \notin {"none", "ended"},
           asks' \in [Attempts -> Ask], \A b \in Attempts : b # a => asks'[b] = asks[b],
           asks'[a].at = "ended", Answered(a)
    PROVE  LoopIsSound(planner', asks')
<1>1. asks'[a].answer \in PlanAnswer \cup {"threw"}
  BY DEF Ask
<1>2. CASE IsAwaited(a)
  <2>1. planner.at = "waiting" /\ planner.attempt = a
    BY <1>2 DEF IsAwaited
  <2>2. EndAttempt(asks'[a].answer)
    BY <1>2 DEF Answered
  <2> QED
    BY <1>1, <2>1, <2>2, AttemptEnds
<1>3. CASE ~IsAwaited(a)
  <2>1. planner' = planner
    BY <1>3 DEF Answered
  <2> QED
    BY <2>1, LoopStays DEF PlanningInv
<1> QED
  BY <1>2, <1>3

LEMMA CallMoves ==
    ASSUME PlanningInv, NEW a \in Attempts, asks[a].at \notin {"none", "ended"},
           \A b \in Attempts : b # a => asks'[b] = asks[b], planner' = planner
    PROVE  LoopIsSound(planner', asks')
BY LoopStays DEF PlanningInv

LEMMA PlanStoryStep ==
    ASSUME PlanningInv, NEW usable \in BOOLEAN, NEW canRead \in BOOLEAN,
           NEW scoped \in BOOLEAN, NEW found \in BOOLEAN, NEW unreadable,
           PlanStory(usable, canRead, scoped, found, unreadable)
    PROVE  PlanningInv'
<1> DEFINE files == InReadingOrder((1 .. Len(Contents)) \ unreadable)
           r == IF canRead THEN ReadAll(Inspected(files) \o files) ELSE Unread
           seen == [gated |-> canRead, saw |-> SawEvidence(r), page |-> found,
                    scoped |-> scoped]
<1>1. ReaderIsSound(r)
  BY ReadTwiceIsSound, UnreadIsSound
<1>2. /\ planner.at = "idle" /\ asks' = asks /\ held' = held
      /\ usable => reader' = r /\ planner' = [planner EXCEPT !.at = "gathering", !.evidence = seen]
      /\ ~usable => /\ reader' = reader
                    /\ planner' = [planner EXCEPT !.at = "over", !.outcome = "unusable"]
  BY DEF PlanStory
<1>3. seen \in Evidence
  <2>1. SawEvidence(r) \in BOOLEAN
    BY DEF SawEvidence
  <2> HIDE DEF r
  <2> QED
    BY <2>1 DEF Evidence
<1> HIDE DEF r, seen, files
<1>4. planner \in Planner /\ planner.attempt = 0 /\ Len(planner.log) = 0 /\ planner.outcome = "none"
  BY <1>2 DEF PlanningInv, LoopIsSound, Awaits
<1>5. planner' \in Planner
  BY <1>2, <1>3, <1>4 DEF Planner, Outcome
<1>6. /\ planner'.at \in {"gathering", "over"} /\ planner'.attempt = 0
      /\ planner'.log = planner.log /\ planner'.refused = planner.refused
      /\ planner'.outcome \in {"none", "unusable"}
      /\ planner'.at # "over" => planner'.outcome = "none"
  BY <1>2, <1>4 DEF Planner
<1>7. LoopIsSound(planner', asks')
  <2>1. \A a \in Attempts : asks[a].at = "none"
    BY <1>2, <1>4 DEF PlanningInv, LoopIsSound, Attempts
  <2>2. planner.refused <=> \E i \in 1 .. Len(planner.log) : planner.log[i].codes # {}
    BY DEF PlanningInv, LoopIsSound
  <2> QED
    BY <1>2, <1>4, <1>5, <1>6, <2>1, <2>2 DEF LoopIsSound, Awaits
<1>8. ReaderIsSound(reader')
  BY <1>1, <1>2 DEF PlanningInv
<1>9. CallsAreSound'
  BY <1>2 DEF PlanningInv, CallsAreSound
<1> QED
  BY <1>7, <1>8, <1>9 DEF PlanningInv, ReaderIsSound, LoopIsSound, Awaits

LEMMA AmendPlanStep ==
    ASSUME PlanningInv, NEW usable \in BOOLEAN, NEW scoped \in BOOLEAN,
           AmendPlan(usable, scoped)
    PROVE  PlanningInv'
<1> DEFINE seen == NoEvidence(scoped)
<1>1. /\ planner.at = "idle" /\ asks' = asks /\ held' = held /\ reader' = reader
      /\ usable => planner' = [planner EXCEPT !.at = "ready", !.attempt = 1,
                                              !.story = FALSE, !.evidence = seen]
      /\ ~usable => planner' = [planner EXCEPT !.at = "over", !.story = FALSE,
                                               !.outcome = "unusable"]
  BY DEF AmendPlan
<1>2. seen \in Evidence
  BY DEF Evidence, NoEvidence
<1> HIDE DEF seen
<1>3. planner \in Planner /\ planner.attempt = 0 /\ Len(planner.log) = 0 /\ planner.outcome = "none"
  BY <1>1 DEF PlanningInv, LoopIsSound, Awaits
<1>4. MaxPlanRetries \in Nat
  BY PlanningAssumption
<1>5. planner' \in Planner
  <2>1. 1 \in 0 .. MaxPlanRetries + 1
    BY <1>4
  <2>2. CASE usable
    BY <1>1, <1>2, <1>3, <2>1, <2>2 DEF Planner
  <2>3. CASE ~usable
    BY <1>1, <1>3, <2>3 DEF Planner, Outcome
  <2> QED
    BY <2>2, <2>3
<1>6. /\ planner'.log = planner.log /\ planner'.refused = planner.refused
      /\ \/ planner'.at = "ready" /\ planner'.attempt = 1 /\ planner'.outcome = "none"
         \/ planner'.at = "over" /\ planner'.attempt = 0 /\ planner'.outcome = "unusable"
  BY <1>1, <1>3 DEF Planner
<1>7. LoopIsSound(planner', asks')
  <2>1. \A a \in Attempts : asks[a].at = "none"
    BY <1>1, <1>3 DEF PlanningInv, LoopIsSound, Attempts
  <2>2. planner.refused <=> \E i \in 1 .. Len(planner.log) : planner.log[i].codes # {}
    BY DEF PlanningInv, LoopIsSound
  <2> QED
    BY <1>1, <1>3, <1>5, <1>6, <2>1, <2>2 DEF LoopIsSound, Awaits
<1>8. CallsAreSound'
  BY <1>1 DEF PlanningInv, CallsAreSound
<1>9. ReaderIsSound(reader')
  BY <1>1 DEF PlanningInv
<1> QED
  BY <1>7, <1>8, <1>9 DEF PlanningInv, ReaderIsSound, LoopIsSound, Awaits

LEMMA JudgeEvidenceStep == ASSUME PlanningInv, JudgeEvidence PROVE PlanningInv'
<1>1. /\ planner.at = "gathering" /\ asks' = asks /\ held' = held /\ reader' = Unread
      /\ \/ planner' = [planner EXCEPT !.at = "over", !.outcome = "unresolved-surface"]
         \/ planner' = [planner EXCEPT !.at = "ready", !.attempt = 1]
  BY DEF JudgeEvidence
<1>2. planner \in Planner /\ planner.attempt = 0 /\ Len(planner.log) = 0 /\ planner.outcome = "none"
  BY <1>1 DEF PlanningInv, LoopIsSound, Awaits
<1>3. MaxPlanRetries \in Nat
  BY PlanningAssumption
<1>4. planner' \in Planner
  <2>1. 1 \in 0 .. MaxPlanRetries + 1
    BY <1>3
  <2>2. CASE planner' = [planner EXCEPT !.at = "ready", !.attempt = 1]
    BY <1>2, <2>1, <2>2 DEF Planner
  <2>3. CASE planner' = [planner EXCEPT !.at = "over", !.outcome = "unresolved-surface"]
    BY <1>2, <2>3 DEF Planner, Outcome
  <2> QED
    BY <1>1, <2>2, <2>3
<1>5. /\ planner'.log = planner.log /\ planner'.refused = planner.refused
      /\ \/ planner'.at = "ready" /\ planner'.attempt = 1 /\ planner'.outcome = "none"
         \/ /\ planner'.at = "over" /\ planner'.attempt = 0
            /\ planner'.outcome = "unresolved-surface"
  BY <1>1, <1>2 DEF Planner
<1>6. LoopIsSound(planner', asks')
  <2>1. \A a \in Attempts : asks[a].at = "none"
    BY <1>1, <1>2 DEF PlanningInv, LoopIsSound, Attempts
  <2>2. planner.refused <=> \E i \in 1 .. Len(planner.log) : planner.log[i].codes # {}
    BY DEF PlanningInv, LoopIsSound
  <2> QED
    BY <1>1, <1>2, <1>4, <1>5, <2>1, <2>2 DEF LoopIsSound, Awaits
<1>7. CallsAreSound'
  BY <1>1 DEF PlanningInv, CallsAreSound
<1>8. ReaderIsSound(reader')
  BY <1>1, UnreadIsSound
<1> QED
  BY <1>6, <1>7, <1>8 DEF PlanningInv, ReaderIsSound, LoopIsSound, Awaits

LEMMA GenerateStep == ASSUME PlanningInv, Generate PROVE PlanningInv'
<1> DEFINE a == planner.attempt
<1>1. /\ planner.at = "ready" /\ reader' = reader /\ held' = held
      /\ planner' = [planner EXCEPT !.at = "waiting"]
      /\ asks' = [asks EXCEPT ![a].at = "checking"]
  BY DEF Generate
<1>2. /\ planner \in Planner /\ MaxPlanRetries \in Nat /\ a \in Attempts
      /\ Len(planner.log) = a - 1 /\ planner.outcome = "none"
  BY <1>1, PlanningAssumption DEF PlanningInv, LoopIsSound, Awaits, Planner, Attempts
<1>3. planner' \in Planner
  BY <1>1, <1>2 DEF Planner
<1>4. /\ planner'.at = "waiting" /\ planner'.log = planner.log
      /\ planner'.refused = planner.refused /\ planner'.attempt = a
      /\ planner'.outcome = planner.outcome /\ planner'.evidence = planner.evidence
  BY <1>1, <1>2 DEF Planner
<1>5. /\ asks \in [Attempts -> Ask] /\ held \subseteq Attempts /\ asks[a].at = "none"
  BY <1>1, <1>2 DEF PlanningInv, CallsAreSound, LoopIsSound, Attempts
<1>6. asks' \in [Attempts -> Ask] /\ asks'[a].at = "checking" /\ asks'[a].lapsed = asks[a].lapsed
      /\ \A b \in Attempts : b # a => asks'[b] = asks[b]
  BY <1>1, <1>2, <1>5 DEF Ask
<1>7. LoopIsSound(planner', asks')
  <2>1. \A i \in 1 .. Len(planner.log) : i \in Attempts /\ i # a /\ asks'[i] = asks[i]
    BY <1>2, <1>6 DEF Attempts
  <2>2. \A b \in Attempts : b < a \/ b = a \/ asks'[b].at = "none"
    BY <1>1, <1>2, <1>6 DEF PlanningInv, LoopIsSound, Attempts
  <2>3. a >= 1
    BY <1>2 DEF Attempts
  <2>4. LoopIsSound(planner, asks)
    BY DEF PlanningInv
  <2>5. \A i \in 1 .. Len(planner.log) :
          /\ planner.log[i].stage # "generate-error" =>
                /\ asks'[i].at = "ended"
                /\ planner.log[i] = RecordOf(asks'[i].answer, planner.evidence)
          /\ planner.log[i].stage = "accepted" <=> planner.outcome = "accepted" /\ i = a
    BY <2>1, <2>4 DEF LoopIsSound
  <2>6. planner.refused <=> \E i \in 1 .. Len(planner.log) : planner.log[i].codes # {}
    BY <2>4 DEF LoopIsSound
  <2> HIDE DEF a
  <2> QED
    BY <1>2, <1>3, <1>4, <2>2, <2>3, <2>5, <2>6 DEF LoopIsSound, Awaits
<1>8. CallsAreSound'
  <2>1. a \notin held /\ ~asks[a].lapsed
    BY <1>2, <1>5 DEF PlanningInv, CallsAreSound, Ask
  <2> QED
    BY <1>1, <1>2, <1>5, <1>6, <2>1 DEF PlanningInv, CallsAreSound
<1>9. ReaderIsSound(reader')
  BY <1>1 DEF PlanningInv
<1> QED
  BY <1>7, <1>8, <1>9 DEF PlanningInv, ReaderIsSound, LoopIsSound, Awaits

LEMMA PlanTimeoutStep == ASSUME PlanningInv, PlanTimeout PROVE PlanningInv'
<1>1. /\ planner.at = "waiting" /\ EndAttempt("threw")
      /\ reader' = reader /\ asks' = asks /\ held' = held
  BY DEF PlanTimeout
<1>2. LoopIsSound(planner', asks')
  BY <1>1, AttemptEnds
<1>3. CallsAreSound'
  BY <1>1 DEF PlanningInv, CallsAreSound
<1>4. ReaderIsSound(reader')
  BY <1>1 DEF PlanningInv
<1> QED
  BY <1>2, <1>3, <1>4 DEF PlanningInv, ReaderIsSound, LoopIsSound, Awaits

LEMMA AskCheckpointStep ==
    ASSUME PlanningInv, NEW a \in Attempts, NEW ok \in BOOLEAN, AskCheckpoint(a, ok)
    PROVE  PlanningInv'
<1>1. /\ asks[a].at = "checking" /\ reader' = reader /\ held' = held
      /\ asks' = [asks EXCEPT ![a].at = IF ok THEN "admitting" ELSE "ended"]
      /\ ok => planner' = planner
      /\ ~ok => Answered(a)
  BY DEF AskCheckpoint
<1>2. asks \in [Attempts -> Ask]
  BY DEF PlanningInv, CallsAreSound
<1>3. /\ asks' \in [Attempts -> Ask] /\ \A b \in Attempts : b # a => asks'[b] = asks[b]
      /\ asks'[a].at = IF ok THEN "admitting" ELSE "ended"
      /\ asks'[a].lapsed = asks[a].lapsed
  BY <1>1, <1>2 DEF Ask
<1>4. LoopIsSound(planner', asks')
  <2>1. CASE ok
    BY <1>1, <1>3, <2>1, CallMoves
  <2>2. CASE ~ok
    BY <1>1, <1>3, <2>2, CallEnds
  <2> QED
    BY <2>1, <2>2
<1>5. CallsAreSound'
  <2>1. a \notin held /\ ~asks[a].lapsed
    BY <1>1 DEF PlanningInv, CallsAreSound
  <2> QED
    BY <1>1, <1>3, <2>1 DEF PlanningInv, CallsAreSound
<1>6. ReaderIsSound(reader')
  BY <1>1 DEF PlanningInv
<1> QED
  BY <1>4, <1>5, <1>6 DEF PlanningInv, ReaderIsSound, LoopIsSound, Awaits

LEMMA AskAdmitStep ==
    ASSUME PlanningInv, NEW a \in Attempts, NEW ok \in BOOLEAN, AskAdmit(a, ok)
    PROVE  PlanningInv'
<1>1. /\ asks[a].at = "admitting" /\ reader' = reader
      /\ asks' = [asks EXCEPT ![a].at = IF ok THEN "running" ELSE "ended"]
      /\ held' = IF ok THEN held \cup {a} ELSE held
      /\ ok => planner' = planner
      /\ ~ok => Answered(a)
  BY DEF AskAdmit
<1>2. asks \in [Attempts -> Ask]
  BY DEF PlanningInv, CallsAreSound
<1>3. /\ asks' \in [Attempts -> Ask] /\ \A b \in Attempts : b # a => asks'[b] = asks[b]
      /\ asks'[a].at = IF ok THEN "running" ELSE "ended"
      /\ asks'[a].lapsed = asks[a].lapsed
  BY <1>1, <1>2 DEF Ask
<1>4. LoopIsSound(planner', asks')
  <2>1. CASE ok
    BY <1>1, <1>3, <2>1, CallMoves
  <2>2. CASE ~ok
    BY <1>1, <1>3, <2>2, CallEnds
  <2> QED
    BY <2>1, <2>2
<1>5. CallsAreSound'
  <2>1. a \notin held /\ ~asks[a].lapsed
    BY <1>1 DEF PlanningInv, CallsAreSound
  <2> QED
    BY <1>1, <1>3, <2>1 DEF PlanningInv, CallsAreSound
<1>6. ReaderIsSound(reader')
  BY <1>1 DEF PlanningInv
<1> QED
  BY <1>4, <1>5, <1>6 DEF PlanningInv, ReaderIsSound, LoopIsSound, Awaits

LEMMA AskReturnsStep ==
    ASSUME PlanningInv, NEW a \in Attempts, NEW answer \in PlanAnswer \cup {"threw"},
           AskReturns(a, answer)
    PROVE  PlanningInv'
<1>1. /\ asks[a].at = "running" /\ reader' = reader /\ held' = held /\ planner' = planner
      /\ asks' = [asks EXCEPT ![a].at = "settling", ![a].answer = answer]
  BY DEF AskReturns
<1>2. asks \in [Attempts -> Ask]
  BY DEF PlanningInv, CallsAreSound
<1>3. /\ asks' \in [Attempts -> Ask] /\ \A b \in Attempts : b # a => asks'[b] = asks[b]
      /\ asks'[a].at = "settling" /\ asks'[a].lapsed = asks[a].lapsed
  BY <1>1, <1>2 DEF Ask
<1>4. LoopIsSound(planner', asks')
  BY <1>1, <1>3, CallMoves
<1>5. CallsAreSound'
  <2>1. ~asks[a].lapsed
    BY <1>1 DEF PlanningInv, CallsAreSound
  <2> QED
    BY <1>1, <1>3, <2>1 DEF PlanningInv, CallsAreSound
<1>6. ReaderIsSound(reader')
  BY <1>1 DEF PlanningInv
<1> QED
  BY <1>4, <1>5, <1>6 DEF PlanningInv, ReaderIsSound, LoopIsSound, Awaits

LEMMA AskSettleStep ==
    ASSUME PlanningInv, NEW a \in Attempts, NEW ok \in BOOLEAN, AskSettle(a, ok)
    PROVE  PlanningInv'
<1>1. /\ asks[a].at = "settling" /\ reader' = reader /\ Answered(a)
      /\ asks' = [asks EXCEPT ![a].at = "ended", ![a].lapsed = ~ok]
      /\ held' = IF ok THEN held \ {a} ELSE held
  BY DEF AskSettle
<1>2. asks \in [Attempts -> Ask]
  BY DEF PlanningInv, CallsAreSound
<1>3. /\ asks' \in [Attempts -> Ask] /\ \A b \in Attempts : b # a => asks'[b] = asks[b]
      /\ asks'[a].at = "ended" /\ (asks'[a].lapsed <=> ~ok)
  BY <1>1, <1>2 DEF Ask
<1>4. LoopIsSound(planner', asks')
  BY <1>1, <1>3, CallEnds
<1>5. CallsAreSound'
  BY <1>1, <1>3 DEF PlanningInv, CallsAreSound
<1>6. ReaderIsSound(reader')
  BY <1>1 DEF PlanningInv
<1> QED
  BY <1>4, <1>5, <1>6 DEF PlanningInv, ReaderIsSound, LoopIsSound, Awaits

LEMMA PlanningStep ==
    ASSUME PlanningInv, [PlanningNext]_planningVars
    PROVE  PlanningInv'
<1>1. CASE UNCHANGED planningVars
  BY <1>1 DEF planningVars, PlanningInv, CallsAreSound, ReaderIsSound, LoopIsSound, Awaits
<1>2. CASE PlanningNext
  BY <1>2, PlanStoryStep, AmendPlanStep, JudgeEvidenceStep, GenerateStep,
     PlanTimeoutStep, AskCheckpointStep, AskAdmitStep, AskReturnsStep, AskSettleStep
     DEF PlanningNext
<1> QED
  BY <1>1, <1>2

LEMMA PlanningIsGood == ASSUME PlanningInv PROVE PlanningIsAccounted
<1>1. ReadsWithinBounds
  <2>1. ReaderIsSound(reader) /\ MaxTotal \in Nat
    BY PlanningAssumption DEF PlanningInv
  <2>2. SumOver(reader.kept, DOMAIN reader.kept)
          = MapThenFoldSet(LAMBDA x, y : x + y, 0, LAMBDA f : reader.kept[f],
                           LAMBDA S : CHOOSE f \in S : TRUE, DOMAIN reader.kept)
    BY DEF SumOver, MapThenSumSet, MapThenFoldSet
  <2>3. /\ Cardinality(DOMAIN reader.kept) <= MaxFiles /\ reader.chars <= MaxTotal
        /\ reader.chars = SumOver(reader.kept, DOMAIN reader.kept)
    BY <2>1 DEF ReaderIsSound
  <2> QED
    BY <2>2, <2>3, Zenon DEF ReadsWithinBounds
<1>2. ReservationsFollowCalls
  BY DEF PlanningInv, CallsAreSound, ReservationsFollowCalls
<1>3. OutcomeIsOfItsAttempts
  <2> DEFINE log == planner.log
  <2>1. /\ LoopIsSound(planner, asks) /\ planner \in Planner /\ MaxPlanRetries \in Nat
        /\ log \in Seq(AttemptRecord) /\ planner.attempt \in Nat
    BY PlanningAssumption DEF PlanningInv, LoopIsSound, Planner
  <2>2. DOMAIN log = 1 .. Len(log) /\ Len(log) \in Nat
    BY <2>1
  <2>3. planner.outcome # "none" => planner.at = "over" /\ Len(log) = planner.attempt
    BY <2>1 DEF LoopIsSound, Awaits
  <2>4. \A i \in DOMAIN log :
           log[i].stage # "generate-error" =>
              asks[i].at = "ended" /\ log[i] = RecordOf(asks[i].answer, planner.evidence)
    BY <2>1, <2>2 DEF LoopIsSound
  <2>5. {i \in DOMAIN log : log[i].stage = "accepted"}
           = IF planner.outcome = "accepted" THEN {planner.attempt} ELSE {}
    <3>1. \A i \in 1 .. Len(log) :
             log[i].stage = "accepted" <=> planner.outcome = "accepted" /\ i = planner.attempt
      BY <2>1 DEF LoopIsSound
    <3>2. planner.outcome = "accepted" => planner.attempt \in 1 .. Len(log)
      BY <2>1, <2>2, <2>3 DEF LoopIsSound
    <3> QED
      BY <2>2, <3>1, <3>2
  <2>6. planner.outcome \in {"refused-target", "plan-invalid"} =>
           /\ Len(log) = MaxPlanRetries + 1
           /\ (\E i \in DOMAIN log : log[i].codes # {}) <=> planner.outcome = "refused-target"
    BY <2>1, <2>2, <2>3 DEF LoopIsSound
  <2> QED
    BY <2>4, <2>5, <2>6 DEF OutcomeIsOfItsAttempts
<1> QED
  BY <1>1, <1>2, <1>3 DEF PlanningIsAccounted

LEMMA PlanningMoves ==
    ASSUME [ServicesNext]_servicesVars
    PROVE  [PlanningNext]_planningVars
BY DEF ServicesNext, servicesVars, MovedBy

\* The plans of a deployment, read for and asked for however often, keep what
\* they know of how they came about.
THEOREM PlanningKeepsItsInvariant == ServicesSpec => []PlanningInv
<1>1. ServicesInit => PlanningInv
  BY PlanningBegins DEF ServicesInit
<1>2. PlanningInv /\ [ServicesNext]_servicesVars => PlanningInv'
  BY PlanningMoves, PlanningStep
<1> QED
  BY <1>1, <1>2, PTL DEF ServicesSpec

\* For any sources, bounds and number of attempts: what the architect reads stays
\* within its bounds, a reservation is open only while a call is under way, and
\* a plan is accepted or refused for what its own attempts came to.
THEOREM PlansAreAccounted == ServicesSpec => []PlanningIsAccounted
<1>1. PlanningInv => PlanningIsAccounted
  BY PlanningIsGood
<1> QED
  BY <1>1, PlanningKeepsItsInvariant, PTL

-----------------------------------------------------------------------------
(* What a run was forecast and what it cost                                *)

HasDraft == {"post", "record", "same", "estimate"}

\* A process about to forecast has recorded its plan under a revision nobody
\* has forecast; the sum it read was spent.
AuthorIsSound(a, kept, told, n) ==
    /\ a.at \in HasDraft => a.draft \in Drafts
    /\ a.at = "estimate" =>
          /\ \E entry \in kept : entry.revision = a.revision /\ entry.draft = a.draft
          /\ \A f \in told : f.revision # a.revision
    /\ a.at = "write" => a.sum \in 1..n

OneForecasts ==
    \A p, q \in Authors :
        AuthorAt(p, "estimate") /\ AuthorAt(q, "estimate")
          /\ author[p].revision = author[q].revision => p = q

PlanLedgerInv ==
    /\ PlanLedgerTypeOK
    /\ \A p \in Authors : AuthorIsSound(author[p], planRows, forecasts, measured)
    /\ OneForecasts
    /\ \A f \in forecasts :
          /\ \E entry \in planRows : entry.revision = f.revision /\ entry.draft = f.draft
          /\ \A g \in forecasts : f.revision = g.revision => f = g
    /\ costUsd # Unset => costUsd \in 1..measured

LEMMA PlanLedgerBegins == ASSUME PlanLedgerInit PROVE PlanLedgerInv
<1>1. Unlaunched \in AuthorState
  BY DEF Unlaunched, AuthorState
<1>2. PlanLedgerTypeOK
  BY <1>1 DEF PlanLedgerTypeOK, PlanLedgerInit
<1>3. ASSUME NEW p \in Authors PROVE author[p].at = "new"
  BY DEF PlanLedgerInit, Unlaunched
<1> QED
  BY <1>2, <1>3 DEF PlanLedgerInv, PlanLedgerInit, AuthorIsSound, OneForecasts, AuthorAt, HasDraft

LEMMA AccuracyIsGood == ASSUME PlanLedgerInv PROVE AccuracyIsSound
BY DEF PlanLedgerInv, AccuracyIsSound, Accuracy

\* The process p moves to another record, and the tables are left or grow.
LEMMA OneAuthorMoves ==
    ASSUME PlanLedgerInv, NEW p \in Authors, NEW a \in AuthorState,
           author' = [author EXCEPT ![p] = a],
           AuthorIsSound(a, planRows', forecasts', measured'),
           a.at = "estimate" =>
              \A q \in Authors \ {p} : author[q].at = "estimate" => author[q].revision # a.revision,
           UNCHANGED planRows \/ \E entry \in PlanRow : planRows' = planRows \cup {entry},
           UNCHANGED forecasts, measured' \in {measured, measured + 1},
           costUsd' = costUsd \/ costUsd' \in 1..measured,
           rounds' \in Nat, shown' \in Drafts \cup {Unset}, ended' \in BOOLEAN
    PROVE  PlanLedgerInv'
<1>1. /\ author \in [Authors -> AuthorState] /\ measured \in Nat /\ measured' \in Nat
      /\ measured <= measured'
  BY DEF PlanLedgerInv, PlanLedgerTypeOK
<1>2. author'[p] = a /\ \A q \in Authors \ {p} : author'[q] = author[q]
  BY <1>1
<1>3. planRows \subseteq planRows'
  OBVIOUS
<1>4. \A n \in 1..measured : n \in 1..measured'
  BY <1>1
<1>5. PlanLedgerTypeOK'
  <2>1. costUsd' \in Nat \cup {Unset}
    BY <1>1 DEF PlanLedgerInv, PlanLedgerTypeOK
  <2>2. \A entry \in planRows' : entry \in PlanRow
    BY DEF PlanLedgerInv, PlanLedgerTypeOK
  <2> QED
    BY <1>1, <2>1, <2>2 DEF PlanLedgerInv, PlanLedgerTypeOK
<1>6. ASSUME NEW q \in Authors PROVE AuthorIsSound(author'[q], planRows', forecasts', measured')
  <2>1. CASE q = p
    BY <1>2, <2>1 DEF AuthorIsSound
  <2>2. CASE q # p
    <3>1. AuthorIsSound(author[q], planRows, forecasts, measured) /\ author'[q] = author[q]
      BY <1>2, <2>2 DEF PlanLedgerInv
    <3> QED
      BY <1>3, <1>4, <3>1 DEF AuthorIsSound
  <2> QED
    BY <2>1, <2>2
<1>7. OneForecasts'
  BY <1>2 DEF PlanLedgerInv, OneForecasts, AuthorAt
<1>8. costUsd' # Unset => costUsd' \in 1..measured'
  BY <1>4 DEF PlanLedgerInv
<1> QED
  BY <1>3, <1>5, <1>6, <1>7, <1>8 DEF PlanLedgerInv

\* What is past is sound wherever it is past to.
LEMMA PastIsSound ==
    ASSUME NEW place \in {"code", "sum", "gone"}, NEW failed \in BOOLEAN,
           NEW kept, NEW told, NEW n
    PROVE  LET a == [Unlaunched EXCEPT !.at = place, !.failed = failed]
           IN  a \in AuthorState /\ AuthorIsSound(a, kept, told, n) /\ a.at # "estimate"
BY DEF Unlaunched, AuthorState, AuthorIsSound, HasDraft

LEMMA ReachIs ==
    ASSUME PlanLedgerTypeOK, NEW p \in Authors,
           NEW place \in {"plan", "code", "post", "record", "same", "estimate", "sum", "write",
                          "gone"},
           Reach(p, place)
    PROVE  LET a == [author[p] EXCEPT !.at = place]
           IN  /\ author' = [author EXCEPT ![p] = a] /\ a \in AuthorState
               /\ a.at = place /\ a.draft = author[p].draft /\ a.revision = author[p].revision
               /\ a.sum = author[p].sum /\ a.mode = author[p].mode
<1>1. author[p] \in AuthorState
  BY DEF PlanLedgerTypeOK
<1> QED
  BY <1>1 DEF PlanLedgerTypeOK, Reach, AuthorState

LEMMA PlanLedgerStep ==
    ASSUME PlanLedgerInv, PlanLedgerNext
    PROVE  PlanLedgerInv'
<1>0. /\ author \in [Authors -> AuthorState] /\ rounds \in Nat /\ shown \in Drafts \cup {Unset}
      /\ measured \in Nat /\ ended \in BOOLEAN /\ PlanLedgerTypeOK
      /\ \A p \in Authors : author[p] \in AuthorState
      /\ \A p \in Authors : AuthorIsSound(author[p], planRows, forecasts, measured)
  BY DEF PlanLedgerInv, PlanLedgerTypeOK
<1> USE DEF ticketVars
<1>1. ASSUME NEW p \in Authors, LaunchFresh(p) PROVE PlanLedgerInv'
  <2> DEFINE a == [author[p] EXCEPT !.at = "plan"]
  <2>1. author' = [author EXCEPT ![p] = a] /\ a \in AuthorState /\ a.at = "plan"
    BY <1>0, <1>1, ReachIs DEF LaunchFresh
  <2>2. AuthorIsSound(a, planRows', forecasts', measured')
    BY <2>1 DEF AuthorIsSound, HasDraft
  <2> HIDE DEF a
  <2> QED
    BY <1>0, <1>1, <2>1, <2>2, OneAuthorMoves DEF LaunchFresh
<1>2. ASSUME NEW p \in Authors, LaunchRevision(p) PROVE PlanLedgerInv'
  <2>0. PICK n \in Nat : n = rounds + 1
    BY <1>0
  <2> DEFINE a == [author[p] EXCEPT !.at = "plan", !.mode = "revision", !.revision = n]
  <2>1. author' = [author EXCEPT ![p] = a] /\ a \in AuthorState /\ a.at = "plan"
    <3>1. author' = [author EXCEPT ![p].at = "plan", ![p].mode = "revision", ![p].revision = n]
      BY <1>2, <2>0 DEF LaunchRevision
    <3> QED
      BY <1>0, <3>1 DEF AuthorState
  <2>2. AuthorIsSound(a, planRows', forecasts', measured')
    BY <2>1 DEF AuthorIsSound, HasDraft
  <2> HIDE DEF a
  <2> QED
    BY <1>0, <1>2, <2>1, <2>2, OneAuthorMoves DEF LaunchRevision
<1>3. ASSUME NEW p \in Authors, LaunchResume(p) PROVE PlanLedgerInv'
  <2> DEFINE a == [author[p] EXCEPT !.at = "post", !.mode = "resume", !.draft = shown]
  <2>1. author' = [author EXCEPT ![p] = a] /\ a \in AuthorState /\ a.at = "post" /\ a.draft = shown
    BY <1>0, <1>3 DEF LaunchResume, AuthorState
  <2>2. AuthorIsSound(a, planRows', forecasts', measured')
    BY <1>0, <1>3, <2>1 DEF AuthorIsSound, LaunchResume
  <2> HIDE DEF a
  <2> QED
    BY <1>0, <1>3, <2>1, <2>2, OneAuthorMoves DEF LaunchResume
<1>4. ASSUME NEW p \in Authors, MakePlan(p) PROVE PlanLedgerInv'
  <2>1. ASSUME NEW d \in Drafts,
               author' = [author EXCEPT ![p].at = "post", ![p].draft = d]
        PROVE  PlanLedgerInv'
    <3> DEFINE a == [author[p] EXCEPT !.at = "post", !.draft = d]
    <3>1. author' = [author EXCEPT ![p] = a] /\ a \in AuthorState /\ a.at = "post" /\ a.draft = d
      BY <1>0, <2>1 DEF AuthorState
    <3>2. AuthorIsSound(a, planRows', forecasts', measured')
      BY <3>1 DEF AuthorIsSound
    <3>3. measured' \in {measured, measured + 1}
      BY <1>4 DEF MakePlan, Measure
    <3>4. rounds' = rounds \/ rounds' = rounds + 1
      BY <1>4 DEF MakePlan
    <3>5. rounds' \in Nat
      BY <1>0, <3>4
    <3> HIDE DEF a
    <3> QED
      BY <1>0, <1>4, <3>1, <3>2, <3>3, <3>5, OneAuthorMoves DEF MakePlan
  <2>2. ASSUME NEW failed \in BOOLEAN, Past(p, "sum", failed), UNCHANGED rounds
        PROVE  PlanLedgerInv'
    <3> DEFINE a == [Unlaunched EXCEPT !.at = "sum", !.failed = failed]
    <3>1. a \in AuthorState /\ a.at # "estimate" /\ AuthorIsSound(a, planRows', forecasts', measured')
      BY PastIsSound
    <3>2. author' = [author EXCEPT ![p] = a]
      BY <2>2 DEF Past
    <3>3. measured' \in {measured, measured + 1}
      BY <1>4 DEF MakePlan, Measure
    <3> HIDE DEF a
    <3> QED
      BY <1>0, <1>4, <2>2, <3>1, <3>2, <3>3, OneAuthorMoves DEF MakePlan
  <2> QED
    BY <1>4, <2>1, <2>2 DEF MakePlan, Throws
<1>5. ASSUME NEW p \in Authors, PostPlan(p) PROVE PlanLedgerInv'
  <2>0. author[p].draft \in Drafts /\ shown' \in Drafts \cup {Unset}
    BY <1>0, <1>5 DEF PostPlan, AuthorAt, AuthorIsSound, HasDraft
  <2>1. ASSUME NEW place \in {"code", "sum"}, NEW failed \in BOOLEAN, Past(p, place, failed)
        PROVE  PlanLedgerInv'
    <3> DEFINE a == [Unlaunched EXCEPT !.at = place, !.failed = failed]
    <3>1. a \in AuthorState /\ a.at # "estimate" /\ AuthorIsSound(a, planRows', forecasts', measured')
      BY PastIsSound
    <3>2. author' = [author EXCEPT ![p] = a]
      BY <2>1 DEF Past
    <3> HIDE DEF a
    <3> QED
      BY <1>0, <1>5, <2>0, <3>1, <3>2, OneAuthorMoves DEF PostPlan
  <2>2. ASSUME Reach(p, "record") PROVE PlanLedgerInv'
    <3> DEFINE a == [author[p] EXCEPT !.at = "record"]
    <3>1. author' = [author EXCEPT ![p] = a] /\ a \in AuthorState /\ a.at = "record"
             /\ a.draft = author[p].draft
      BY <1>0, <2>2, ReachIs
    <3>2. AuthorIsSound(a, planRows', forecasts', measured')
      BY <2>0, <3>1 DEF AuthorIsSound
    <3> HIDE DEF a
    <3> QED
      BY <1>0, <1>5, <2>0, <3>1, <3>2, OneAuthorMoves DEF PostPlan
  <2> QED
    BY <1>5, <2>1, <2>2 DEF PostPlan, Throws
<1>6. ASSUME NEW p \in Authors, CodePlan(p) PROVE PlanLedgerInv'
  <2>1. PICK place \in {"sum", "gone"}, failed \in BOOLEAN : Past(p, place, failed)
    BY <1>6 DEF CodePlan, Quits, Throws
  <2> DEFINE a == [Unlaunched EXCEPT !.at = place, !.failed = failed]
  <2>2. a \in AuthorState /\ a.at # "estimate" /\ AuthorIsSound(a, planRows', forecasts', measured')
    BY PastIsSound
  <2>3. author' = [author EXCEPT ![p] = a]
    BY <2>1 DEF Past
  <2>4. measured' \in {measured, measured + 1} /\ ended' \in BOOLEAN
    BY <1>0, <1>6 DEF CodePlan, Measure
  <2> HIDE DEF a
  <2> QED
    BY <1>0, <1>6, <2>2, <2>3, <2>4, OneAuthorMoves DEF CodePlan
<1>7. ASSUME NEW p \in Authors, RecordPlan(p) PROVE PlanLedgerInv'
  <2>0. author[p].at = "record" /\ author[p].draft \in Drafts /\ RowOf(p) \in PlanRow
    <3>1. author[p].at = "record" /\ author[p].draft \in Drafts
      BY <1>0, <1>7 DEF RecordPlan, AuthorAt, AuthorIsSound, HasDraft
    <3> QED
      BY <1>0, <3>1 DEF RowOf, PlanRow, Source, AuthorState
  <2>1. ASSUME Reach(p, "same") PROVE PlanLedgerInv'
    <3> DEFINE a == [author[p] EXCEPT !.at = "same"]
    <3>1. author' = [author EXCEPT ![p] = a] /\ a \in AuthorState /\ a.at = "same"
             /\ a.draft = author[p].draft
      BY <1>0, <2>1, ReachIs
    <3>2. AuthorIsSound(a, planRows', forecasts', measured')
      BY <2>0, <3>1 DEF AuthorIsSound
    <3> HIDE DEF a
    <3> QED
      BY <1>0, <1>7, <2>0, <3>1, <3>2, OneAuthorMoves DEF RecordPlan, InsertPlan
  <2>2. ASSUME Reach(p, "estimate"), InsertPlan(p) PROVE PlanLedgerInv'
    <3> DEFINE a == [author[p] EXCEPT !.at = "estimate"]
    <3>1. author' = [author EXCEPT ![p] = a] /\ a \in AuthorState /\ a.at = "estimate"
             /\ a.draft = author[p].draft /\ a.revision = author[p].revision
      BY <1>0, <2>2, ReachIs
    <3> HIDE DEF a
    <3>2. \A entry \in planRows : entry.revision # author[p].revision
      BY <2>2 DEF InsertPlan, IsTaken
    <3>3. \A f \in forecasts : f.revision # author[p].revision
      BY <3>2 DEF PlanLedgerInv
    <3>4. \A q \in Authors \ {p} :
             author[q].at = "estimate" => author[q].revision # author[p].revision
      BY <1>0, <3>2 DEF AuthorIsSound
    <3>5. RowOf(p) \in planRows' /\ RowOf(p).revision = a.revision /\ RowOf(p).draft = a.draft
      BY <2>2, <3>1 DEF InsertPlan, RowOf
    <3>6. UNCHANGED forecasts
      BY <1>7 DEF RecordPlan
    <3>7. AuthorIsSound(a, planRows', forecasts', measured')
      BY <2>0, <3>1, <3>3, <3>5, <3>6 DEF AuthorIsSound
    <3> QED
      BY <1>0, <1>7, <2>0, <2>2, <3>1, <3>4, <3>7, OneAuthorMoves DEF RecordPlan, InsertPlan
  <2> QED
    BY <1>7, <2>1, <2>2 DEF RecordPlan
<1>8. ASSUME NEW p \in Authors, FindSame(p) PROVE PlanLedgerInv'
  <2>1. PICK failed \in BOOLEAN : Past(p, "sum", failed)
    BY <1>8 DEF FindSame, Throws
  <2> DEFINE a == [Unlaunched EXCEPT !.at = "sum", !.failed = failed]
  <2>2. a \in AuthorState /\ a.at # "estimate" /\ AuthorIsSound(a, planRows', forecasts', measured')
    BY PastIsSound
  <2>3. author' = [author EXCEPT ![p] = a]
    BY <2>1 DEF Past
  <2> HIDE DEF a
  <2> QED
    BY <1>0, <1>8, <2>2, <2>3, OneAuthorMoves DEF FindSame
<1>9. ASSUME NEW p \in Authors, RecordEstimate(p) PROVE PlanLedgerInv'
  <2> DEFINE a == [Unlaunched EXCEPT !.at = "sum", !.failed = FALSE]
             f == [revision |-> author[p].revision, draft |-> author[p].draft, by |-> p]
  <2>1. a \in AuthorState /\ a.at # "estimate" /\ AuthorIsSound(a, planRows', forecasts', measured')
    BY PastIsSound
  <2>2. author' = [author EXCEPT ![p] = a]
    BY <1>9 DEF RecordEstimate, Past
  <2>3. CASE UNCHANGED forecasts
    <3> HIDE DEF a
    <3> QED
      BY <1>0, <1>9, <2>1, <2>2, <2>3, OneAuthorMoves DEF RecordEstimate
  <2>4. CASE forecasts' = forecasts \cup {f}
    <3>1. author[p].at = "estimate" /\ AuthorIsSound(author[p], planRows, forecasts, measured)
      BY <1>0, <1>9 DEF RecordEstimate, AuthorAt
    <3>2. /\ \E entry \in planRows : entry.revision = f.revision /\ entry.draft = f.draft
          /\ \A g \in forecasts : g.revision # f.revision
          /\ f \in Forecast
      BY <1>0, <3>1 DEF AuthorIsSound, Forecast, AuthorState, HasDraft
    <3>3. f.revision = author[p].revision
      OBVIOUS
    <3>4. author'[p] = a /\ \A q \in Authors \ {p} : author'[q] = author[q]
      BY <1>0, <2>2
    <3>5. UNCHANGED <<rounds, shown, planRows, measured, costUsd, ended>>
      BY <1>9 DEF RecordEstimate
    <3> HIDE DEF a, f
    <3>6. PlanLedgerTypeOK'
      BY <1>0, <2>1, <2>2, <2>4, <3>2, <3>5 DEF PlanLedgerTypeOK
    <3>7. ASSUME NEW q \in Authors PROVE AuthorIsSound(author'[q], planRows', forecasts', measured')
      <4>1. CASE q = p
        BY <2>1, <3>4, <4>1 DEF AuthorIsSound
      <4>2. CASE q # p
        <5>1. AuthorIsSound(author[q], planRows, forecasts, measured) /\ author'[q] = author[q]
          BY <1>0, <3>4, <4>2
        <5>2. author[q].at = "estimate" => author[q].revision # f.revision
          BY <3>1, <3>3, <4>2 DEF PlanLedgerInv, OneForecasts, AuthorAt
        <5> QED
          BY <2>4, <3>5, <5>1, <5>2 DEF AuthorIsSound
      <4> QED
        BY <4>1, <4>2
    <3>8. OneForecasts'
      BY <2>1, <3>4 DEF PlanLedgerInv, OneForecasts, AuthorAt
    <3>9. \A g \in forecasts' :
             /\ \E entry \in planRows' : entry.revision = g.revision /\ entry.draft = g.draft
             /\ \A h \in forecasts' : g.revision = h.revision => g = h
      BY <2>4, <3>2, <3>5 DEF PlanLedgerInv
    <3> QED
      BY <3>5, <3>6, <3>7, <3>8, <3>9 DEF PlanLedgerInv
  <2> QED
    BY <1>9, <2>3, <2>4 DEF RecordEstimate, InsertForecast
<1>10. ASSUME NEW p \in Authors, SumUsage(p) PROVE PlanLedgerInv'
  <2>1. ASSUME author' = [author EXCEPT ![p].at = "write", ![p].sum = measured], measured > 0,
               UNCHANGED ended
        PROVE  PlanLedgerInv'
    <3> DEFINE a == [author[p] EXCEPT !.at = "write", !.sum = measured]
    <3>1. author' = [author EXCEPT ![p] = a] /\ a \in AuthorState /\ a.at = "write" /\ a.sum = measured
      BY <1>0, <2>1 DEF AuthorState
    <3>2. AuthorIsSound(a, planRows', forecasts', measured')
      <4>1. measured' = measured /\ measured \in 1..measured
        BY <1>0, <1>10, <2>1 DEF SumUsage
      <4> QED
        BY <3>1, <4>1 DEF AuthorIsSound, HasDraft
    <3> HIDE DEF a
    <3> QED
      BY <1>0, <1>10, <2>1, <3>1, <3>2, OneAuthorMoves DEF SumUsage
  <2>2. ASSUME Leave(p) PROVE PlanLedgerInv'
    <3> DEFINE a == [Unlaunched EXCEPT !.at = "gone", !.failed = FALSE]
    <3>1. a \in AuthorState /\ a.at # "estimate" /\ AuthorIsSound(a, planRows', forecasts', measured')
      BY PastIsSound
    <3>2. author' = [author EXCEPT ![p] = a] /\ ended' \in BOOLEAN
      BY <1>0, <2>2 DEF Leave, Quits, Past
    <3> HIDE DEF a
    <3> QED
      BY <1>0, <1>10, <3>1, <3>2, OneAuthorMoves DEF SumUsage
  <2> QED
    BY <1>10, <2>1, <2>2 DEF SumUsage
<1>11. ASSUME NEW p \in Authors, WriteCost(p) PROVE PlanLedgerInv'
  <2> DEFINE a == [Unlaunched EXCEPT !.at = "gone", !.failed = FALSE]
  <2>1. a \in AuthorState /\ a.at # "estimate" /\ AuthorIsSound(a, planRows', forecasts', measured')
    BY PastIsSound
  <2>2. author' = [author EXCEPT ![p] = a] /\ ended' \in BOOLEAN
    BY <1>0, <1>11 DEF WriteCost, Leave, Quits, Past
  <2>3. costUsd' = costUsd \/ costUsd' \in 1..measured
    BY <1>0, <1>11 DEF WriteCost, AuthorAt, AuthorIsSound
  <2> HIDE DEF a
  <2> QED
    BY <1>0, <1>11, <2>1, <2>2, <2>3, OneAuthorMoves DEF WriteCost
<1>12. ASSUME NEW p \in Authors, Dies(p) PROVE PlanLedgerInv'
  <2> DEFINE a == [Unlaunched EXCEPT !.at = "gone", !.failed = FALSE]
  <2>1. a \in AuthorState /\ a.at # "estimate" /\ AuthorIsSound(a, planRows', forecasts', measured')
    BY PastIsSound
  <2>2. author' = [author EXCEPT ![p] = a]
    BY <1>12 DEF Dies, Quits, Past
  <2> HIDE DEF a
  <2> QED
    BY <1>0, <1>12, <2>1, <2>2, OneAuthorMoves DEF Dies
<1> QED
  BY <1>1, <1>2, <1>3, <1>4, <1>5, <1>6, <1>7, <1>8, <1>9, <1>10, <1>11, <1>12
     DEF PlanLedgerNext

-----------------------------------------------------------------------------
(* What a plan was forecast to cost, and what the forecasts were worth     *)

Book == [known : BOOLEAN, input : Nat, output : Nat]

ForecastIsSound(f, b) ==
    /\ f.files \in FileCounts /\ f.tasks \in TaskCounts /\ b \in PriceBooks
    /\ f.expected \in Nat /\ f.samples \in Nat
    /\ f.expected >= BaseCost(f.files, f.tasks, b) * Unit
    /\ f.samples = 0 => f.expected = BaseCost(f.files, f.tasks, b) * Unit

\* A pair is of the forecast f, and of events that were measured and stand.
PairIsSound(pair, f, events) ==
    /\ pair.expected = f.expected
    /\ DOMAIN pair.stageActual \subseteq CountedStages
    /\ \A s \in DOMAIN pair.stageActual :
          /\ events[s] # Quiet
          /\ pair.stageActual[s] = IF events[s] = Unmetered THEN 0 ELSE events[s]
    /\ pair.actual = SumOf(pair.stageActual)

SurveyIsSound(s) ==
    /\ s.at \in {"idle", "reading", "published"}
    /\ s.minimum \in Nat \ {0} /\ s.without \in Nat /\ s.skipped \in Nat
    /\ s.todo \subseteq ForecastRuns /\ DOMAIN s.pairs \subseteq ForecastRuns
    /\ s.todo \cap DOMAIN s.pairs = {}
    /\ s.at = "published" => s.todo = {}
    /\ s.at # "idle" =>
          Cardinality(DOMAIN s.pairs) + s.without + s.skipped + Cardinality(s.todo) = s.listed

Events == [AgentStages -> MeasuredCosts \cup {Quiet, Unmetered}]

CalibrationInv ==
    /\ DOMAIN forecast \subseteq ForecastRuns /\ DOMAIN pricedAt = DOMAIN forecast
    /\ \A r \in DOMAIN forecast : ForecastIsSound(forecast[r], pricedAt[r])
    /\ spent \in [ForecastRuns -> Events]
    /\ outcome \in [ForecastRuns -> Cycles0 \cup {Quiet}]
    /\ book \in PriceBooks /\ reprices \in 0..MaxReprices
    /\ SurveyIsSound(survey)
    /\ \A r \in DOMAIN survey.pairs :
          r \in DOMAIN forecast /\ PairIsSound(survey.pairs[r], forecast[r], spent[r])

LEMMA CalibrationFacts ==
    /\ IsFiniteSet(ForecastRuns) /\ Unit \in Nat \ {0}
    /\ FileCounts \subseteq Nat /\ TaskCounts \subseteq Nat /\ MeasuredCosts \subseteq Nat
    /\ Cycles0 \subseteq Nat /\ MinSamples \subseteq Nat \ {0} /\ MaxReprices \in Nat
    /\ PriceBooks \subseteq Book /\ CeilingBook \in Book
    /\ \A n \in 1..Cardinality(ForecastRuns) : Unit % n = 0
BY CalibrationAssumption DEF Book

LEMMA CalibrationBegins == ASSUME CalibrationInit PROVE CalibrationInv
<1>1. spent \in [ForecastRuns -> Events] /\ outcome \in [ForecastRuns -> Cycles0 \cup {Quiet}]
  BY DEF CalibrationInit, Events
<1>2. DOMAIN forecast = {} /\ DOMAIN pricedAt = {}
  BY DEF CalibrationInit
<1>3. SurveyIsSound(survey) /\ DOMAIN survey.pairs = {}
  BY FS_EmptySet DEF CalibrationInit, Unsurveyed, SurveyIsSound
<1>4. book \in PriceBooks /\ reprices \in 0..MaxReprices
  BY CalibrationFacts DEF CalibrationInit
<1> QED
  BY <1>1, <1>2, <1>3, <1>4 DEF CalibrationInv

-----------------------------------------------------------------------------
(* The estimate                                                            *)

LEMMA PriceIs == ASSUME NEW b \in PriceBooks PROVE PriceOf(b) \in Book
BY CalibrationFacts DEF PriceOf

LEMMA ContextIs == ASSUME NEW n \in Nat PROVE ContextTokens(n) \in Nat
BY DEF ContextTokens, TOKENS_PER_FILE, MAX_CONTEXT_FILES_READ

LEMMA TimesNat == ASSUME NEW m \in Nat, NEW n \in Nat PROVE m * n \in Nat
OBVIOUS

LEMMA PricedStagesAre ==
    CountedStages = {"architect", "developer"} /\ IsFiniteSet(CountedStages)
<1>1. CountedStages = {"architect", "developer"}
  BY DEF CountedStages, AgentStages, EXCLUDED_TASK_TYPES
<1>2. IsFiniteSet({"architect"} \cup {"developer"})
  BY FS_Singleton, FS_AddElement
<1>3. {"architect"} \cup {"developer"} = {"architect", "developer"}
  OBVIOUS
<1> QED
  BY <1>1, <1>2, <1>3

LEMMA SumOfIs == ASSUME NEW f PROVE SumOf(f) = SumOver(f, DOMAIN f)
BY DEF SumOf, SumOver, MapThenSumSet, MapThenFoldSet

\* The two stages share the reading and write apart.
LEMMA StagesAddUp ==
    ASSUME NEW files \in Nat, NEW tasks \in Nat, NEW b \in PriceBooks
    PROVE  /\ SumOf(Decompose(files, tasks, b)) = BaseCost(files, tasks, b)
           /\ BaseCost(files, tasks, b) \in Nat
<1> DEFINE c == ContextTokens(files)
           i == PriceOf(b).input
           o == PriceOf(b).output
           read == c * i
           first == o * 8
           rest == o * (tasks * 2)
           f == Decompose(files, tasks, b)
<1>1. c \in Nat /\ i \in Nat /\ o \in Nat
  BY ContextIs, PriceIs DEF Book
<1> HIDE DEF c, i, o
<1>2. read \in Nat /\ first \in Nat /\ rest \in Nat
  BY <1>1, TimesNat
<1>3. BaseCost(files, tasks, b) = (read + first) + (read + rest)
  <2>1. BaseCost(files, tasks, b) = c * 2 * i + (8 + tasks * 2) * o
    BY DEF BaseCost, c, i, o, CONTEXT_READS_PER_RUN, ARCHITECT_OUTPUT_TOKENS,
           OUTPUT_TOKENS_PER_TASK
  <2>2. c * 2 * i = read + read
    BY <1>1
  <2>3. (8 + tasks * 2) * o = first + rest
    BY <1>1
  <2> QED
    BY <1>2, <2>1, <2>2, <2>3
<1>4. DOMAIN f = {"architect", "developer"} /\ 2 \div 2 = 1
  BY PricedStagesAre DEF Decompose
<1>5. f["architect"] = c * (2 \div 2) * i + first /\ f["developer"] = c * (2 \div 2) * i + rest
  BY PricedStagesAre DEF Decompose, c, i, o, CONTEXT_READS_PER_RUN, ARCHITECT_OUTPUT_TOKENS,
         OUTPUT_TOKENS_PER_TASK
<1>6. c * (2 \div 2) * i = read
  BY <1>1, <1>4
<1>7. f["architect"] = read + first /\ f["developer"] = read + rest
  BY <1>5, <1>6
<1> HIDE DEF f, read, first, rest
<1>8. SumOver(f, {}) = 0
  BY SumEmpty
<1>9. SumOver(f, {} \cup {"architect"}) = f["architect"] + SumOver(f, {})
  <2>1. \A x \in {} \cup {"architect"} : f[x] \in Int
    BY <1>2, <1>7
  <2> QED
    BY <2>1, FS_EmptySet, SumInsert
<1>10. IsFiniteSet({} \cup {"architect"}) /\ ({} \cup {"architect"}) \cup {"developer"} = DOMAIN f
  BY <1>4, FS_EmptySet, FS_AddElement
<1>11. SumOver(f, ({} \cup {"architect"}) \cup {"developer"})
         = f["developer"] + SumOver(f, {} \cup {"architect"})
  BY <1>2, <1>7, <1>10, SumInsert
<1>12. SumOf(f) = f["developer"] + f["architect"]
  BY <1>2, <1>7, <1>8, <1>9, <1>10, <1>11, SumOfIs
<1>13. SumOf(f) = (read + first) + (read + rest)
  BY <1>2, <1>7, <1>12
<1> QED
  BY <1>2, <1>3, <1>13 DEF f

LEMMA SumMonotone ==
    ASSUME NEW S, IsFiniteSet(S), NEW f, NEW g,
           \A x \in S : f[x] \in Int /\ g[x] \in Int /\ f[x] <= g[x]
    PROVE  SumOver(f, S) <= SumOver(g, S)
<1> DEFINE B == {T \in SUBSET S : ~(SumOver(f, T) <= SumOver(g, T))}
<1> SUFFICES ASSUME B # {} PROVE FALSE
  OBVIOUS
<1>1. PICK T \in B : \A U \in B : U \subseteq T => U = T
  <2> HIDE DEF B
  <2>1. B \subseteq SUBSET S
    BY DEF B
  <2> QED
    BY <2>1, LeastSubset
<1>2. T \in SUBSET S /\ IsFiniteSet(T) /\ ~(SumOver(f, T) <= SumOver(g, T))
  BY <1>1, FS_Subset
<1>3. T # {}
  BY <1>2, SumEmpty
<1>4. PICK y \in T : TRUE
  BY <1>3
<1>5. T \ {y} \in SUBSET S /\ T \ {y} \notin B
  BY <1>1, <1>2, <1>4
<1>6. SumOver(f, T \ {y}) <= SumOver(g, T \ {y})
  BY <1>5
<1> HIDE DEF B
<1>7. IsFiniteSet(T \ {y}) /\ \A x \in T : f[x] \in Int /\ g[x] \in Int /\ f[x] <= g[x]
  BY <1>2, FS_Subset
<1>8. /\ SumOver(f, T) = f[y] + SumOver(f, T \ {y})
      /\ SumOver(g, T) = g[y] + SumOver(g, T \ {y})
  BY <1>2, <1>4, <1>7, SumRemove
<1>9. SumOver(f, T \ {y}) \in Int /\ SumOver(g, T \ {y}) \in Int
  BY <1>7, SumType
<1> QED
  BY <1>2, <1>4, <1>6, <1>7, <1>8, <1>9

LEMMA SumOfOnes ==
    ASSUME NEW S, IsFiniteSet(S), NEW f, \A x \in S : f[x] \in Nat /\ f[x] >= 1
    PROVE  SumOver(f, S) \in Nat /\ SumOver(f, S) >= Cardinality(S)
<1> DEFINE one == [x \in S |-> 1]
<1>1. SumOver(one, S) = Cardinality(S)
  BY CardIsSum
<1>2. SumOver(one, S) <= SumOver(f, S)
  <2>1. \A x \in S : one[x] \in Int /\ f[x] \in Int /\ one[x] <= f[x]
    OBVIOUS
  <2> HIDE DEF one
  <2> QED
    BY <2>1, SumMonotone
<1>3. SumOver(f, S) \in Nat /\ Cardinality(S) \in Nat
  BY SumNat, FS_CardinalityType
<1> QED
  BY <1>1, <1>2, <1>3

LEMMA TimesMonotone ==
    ASSUME NEW k \in Nat, NEW m \in Nat, NEW n \in Nat, m >= n
    PROVE  m * k >= n * k
OBVIOUS

\* The work of n runs, one a run at least, makes a factor of one at least.
LEMMA FactorIs ==
    ASSUME CalibrationInv
    PROVE  /\ RevisionFactor \in Nat /\ RevisionFactor >= Unit
           /\ Cardinality(PlanHistory) \in Nat
           /\ Cardinality(PlanHistory) = 0 => RevisionFactor = Unit
<1> DEFINE n == Cardinality(PlanHistory)
           work == [r \in ForecastRuns |-> outcome[r] + 1]
           total == SumOver(work, PlanHistory)
<1>1. IsFiniteSet(PlanHistory) /\ PlanHistory \subseteq ForecastRuns
  BY CalibrationFacts, FS_Subset DEF PlanHistory
<1>2. n \in Nat /\ n <= Cardinality(ForecastRuns) /\ Cardinality(ForecastRuns) \in Nat
  BY <1>1, CalibrationFacts, FS_CardinalityType, FS_Subset
<1>3. n = 0 <=> PlanHistory = {}
  BY <1>1, FS_EmptySet
<1>4. Unit \in Nat /\ Unit >= 1
  BY CalibrationFacts
<1>5. CASE PlanHistory = {}
  <2>1. RevisionFactor = Unit
    BY <1>5 DEF RevisionFactor
  <2> QED
    BY <1>2, <1>4, <2>1
<1>6. CASE PlanHistory # {}
  <2>1. \A r \in PlanHistory : work[r] \in Nat /\ work[r] >= 1
    <3>1. \A r \in PlanHistory : outcome[r] \in Nat
      BY CalibrationFacts DEF CalibrationInv, PlanHistory
    <3> QED
      BY <1>1, <3>1
  <2>2. RevisionFactor = total * (Unit \div n)
    <3>1. MapThenSumSet(LAMBDA r : outcome[r] + 1, PlanHistory) = total
      BY <1>1 DEF SumOver, MapThenSumSet, MapThenFoldSet
    <3> QED
      BY <1>6, <3>1 DEF RevisionFactor
  <2> HIDE DEF work
  <2>3. total \in Nat /\ total >= n
    BY <1>1, <2>1, SumOfOnes
  <2>4. n >= 1 /\ Unit % n = 0
    BY <1>2, <1>3, <1>6, CalibrationFacts
  <2> HIDE DEF n, total
  <2>5. Unit \div n \in Nat /\ Unit = n * (Unit \div n)
    <3>1. Unit \div n \in Nat /\ Unit = n * (Unit \div n) + (Unit % n)
      BY <1>2, <1>4, <2>4
    <3>2. n * (Unit \div n) \in Nat
      BY <1>2, <3>1, TimesNat
    <3> QED
      BY <2>4, <3>1, <3>2
  <2>6. total * (Unit \div n) >= n * (Unit \div n)
    BY <1>2, <2>3, <2>5, TimesMonotone
  <2>7. total * (Unit \div n) \in Nat
    BY <2>3, <2>5, TimesNat
  <2>8. RevisionFactor \in Nat
    BY <2>2, <2>7
  <2>9. RevisionFactor >= Unit
    <3>1. total * (Unit \div n) >= Unit
      BY <2>5, <2>6
    <3> QED
      BY <2>2, <3>1
  <2> QED
    BY <1>2, <2>4, <2>8, <2>9 DEF n
<1> QED
  BY <1>5, <1>6

LEMMA EstimateIsSound ==
    ASSUME CalibrationInv, NEW files \in FileCounts, NEW tasks \in TaskCounts
    PROVE  ForecastIsSound(EstimatePlanCost(files, tasks), book)
<1> DEFINE base == BaseCost(files, tasks, book)
           f == EstimatePlanCost(files, tasks)
<1>1. book \in PriceBooks /\ files \in Nat /\ tasks \in Nat
  BY CalibrationFacts DEF CalibrationInv
<1>2. base \in Nat
  BY <1>1, StagesAddUp
<1>3. /\ f.files = files /\ f.tasks = tasks /\ f.expected = base * RevisionFactor
      /\ f.samples = Cardinality(PlanHistory)
  BY DEF EstimatePlanCost
<1> HIDE DEF base, f
<1>4. /\ RevisionFactor \in Nat /\ RevisionFactor >= Unit /\ Unit \in Nat
      /\ Cardinality(PlanHistory) \in Nat
      /\ Cardinality(PlanHistory) = 0 => RevisionFactor = Unit
  BY FactorIs, CalibrationFacts
<1>5. base * RevisionFactor \in Nat
  BY <1>2, <1>4, TimesNat
<1>6. RevisionFactor * base >= Unit * base
  BY <1>2, <1>4, TimesMonotone
<1>7. base * RevisionFactor >= base * Unit
  BY <1>2, <1>4, <1>6
<1>8. BaseCost(f.files, f.tasks, book) = base
  BY <1>3 DEF base
<1>9. /\ f.files \in FileCounts /\ f.tasks \in TaskCounts
      /\ f.expected \in Nat /\ f.samples \in Nat /\ f.expected >= base * Unit
      /\ f.samples = 0 => f.expected = base * Unit
  BY <1>3, <1>4, <1>5, <1>7
<1> QED
  BY <1>1, <1>8, <1>9 DEF ForecastIsSound, f

-----------------------------------------------------------------------------
(* The steps                                                               *)

LEMMA RecordForecastStep ==
    ASSUME CalibrationInv, NEW r \in ForecastRuns, RecordForecast(r)
    PROVE  CalibrationInv'
<1>1. PICK files \in FileCounts, tasks \in TaskCounts :
         forecast' = WithRun(forecast, r, EstimatePlanCost(files, tasks))
  BY DEF RecordForecast
<1>2. pricedAt' = WithRun(pricedAt, r, book) /\ r \notin DOMAIN forecast
  BY DEF RecordForecast
<1>3. ForecastIsSound(EstimatePlanCost(files, tasks), book)
  BY EstimateIsSound
<1>4. /\ DOMAIN forecast' = DOMAIN forecast \cup {r} /\ forecast'[r] = EstimatePlanCost(files, tasks)
      /\ \A q \in DOMAIN forecast : forecast'[q] = forecast[q]
  <2> DEFINE x == EstimatePlanCost(files, tasks)
  <2>1. forecast' = WithRun(forecast, r, x)
    BY <1>1
  <2> HIDE DEF x
  <2>2. /\ DOMAIN forecast' = DOMAIN forecast \cup {r} /\ forecast'[r] = x
        /\ \A q \in DOMAIN forecast : forecast'[q] = forecast[q]
    BY <1>2, <2>1 DEF WithRun
  <2> QED
    BY <2>2 DEF x
<1>5. /\ DOMAIN pricedAt' = DOMAIN pricedAt \cup {r} /\ pricedAt'[r] = book
      /\ \A q \in DOMAIN forecast : pricedAt'[q] = pricedAt[q]
  BY <1>2 DEF CalibrationInv, WithRun
<1>6. \A q \in DOMAIN forecast' : ForecastIsSound(forecast'[q], pricedAt'[q])
  BY <1>3, <1>4, <1>5 DEF CalibrationInv
<1>7. UNCHANGED <<spent, outcome, book, reprices, survey>>
  BY DEF RecordForecast
<1> QED
  BY <1>4, <1>5, <1>6, <1>7 DEF CalibrationInv

LEMMA SpendOnStep ==
    ASSUME CalibrationInv, NEW r \in ForecastRuns, NEW s \in AgentStages, SpendOn(r, s)
    PROVE  CalibrationInv'
<1>1. PICK c \in MeasuredCosts \cup {Unmetered} : spent' = [spent EXCEPT ![r][s] = c]
  BY DEF SpendOn
<1>2. spent \in [ForecastRuns -> Events] /\ spent[r][s] = Quiet
  BY DEF CalibrationInv, SpendOn
<1>3. spent' \in [ForecastRuns -> Events]
  BY <1>1, <1>2 DEF Events
<1>4. ASSUME NEW q \in ForecastRuns, NEW x \in AgentStages, spent[q][x] # Quiet
      PROVE  spent'[q][x] = spent[q][x]
  BY <1>1, <1>2, <1>4 DEF Events
<1>5. UNCHANGED <<forecast, outcome, book, reprices, survey, pricedAt>>
  BY DEF SpendOn
<1>6. ASSUME NEW q \in DOMAIN survey.pairs
      PROVE  PairIsSound(survey.pairs[q], forecast[q], spent'[q])
  <2>1. q \in ForecastRuns /\ PairIsSound(survey.pairs[q], forecast[q], spent[q])
    BY DEF CalibrationInv, SurveyIsSound
  <2>2. CountedStages \subseteq AgentStages
    BY DEF CountedStages
  <2> QED
    BY <1>4, <2>1, <2>2 DEF PairIsSound
<1> QED
  BY <1>3, <1>5, <1>6 DEF CalibrationInv

LEMMA StageActualIs ==
    ASSUME NEW r
    PROVE  /\ DOMAIN StageActual(r) = {x \in CountedStages : spent[r][x] # Quiet}
           /\ \A s \in DOMAIN StageActual(r) :
                 StageActual(r)[s] = IF spent[r][s] = Unmetered THEN 0 ELSE spent[r][s]
BY DEF StageActual

LEMMA PairRunStep ==
    ASSUME CalibrationInv, NEW r \in ForecastRuns, PairRun(r)
    PROVE  CalibrationInv'
<1> DEFINE s == survey
<1>1. /\ SurveyIsSound(survey) /\ survey.at = "reading" /\ r \in survey.todo
      /\ r \notin DOMAIN survey.pairs
  BY DEF CalibrationInv, PairRun, SurveyIsSound
<1>2. UNCHANGED <<forecast, spent, outcome, book, reprices, pricedAt>>
  BY DEF PairRun
<1>3. /\ IsFiniteSet(survey.todo) /\ IsFiniteSet(DOMAIN survey.pairs)
      /\ IsFiniteSet(survey.todo \ {r})
  BY <1>1, CalibrationFacts, FS_Subset DEF SurveyIsSound
<1>4. /\ Cardinality(survey.todo) \in Nat /\ Cardinality(DOMAIN survey.pairs) \in Nat
      /\ Cardinality(survey.todo \ {r}) = Cardinality(survey.todo) - 1
      /\ Cardinality(DOMAIN survey.pairs \cup {r}) = Cardinality(DOMAIN survey.pairs) + 1
  BY <1>1, <1>3, FS_CardinalityType, FS_RemoveElement, FS_AddElement
<1>5. Cardinality(DOMAIN survey.pairs) + survey.without + survey.skipped
        + Cardinality(survey.todo) = survey.listed
  BY <1>1 DEF SurveyIsSound
<1>6. ASSUME survey' = [survey EXCEPT !.todo = @ \ {r}, !.skipped = @ + 1]
      PROVE  CalibrationInv'
  <2>1. /\ survey'.at = survey.at /\ survey'.minimum = survey.minimum
        /\ survey'.without = survey.without /\ survey'.skipped = survey.skipped + 1
        /\ survey'.todo = survey.todo \ {r} /\ survey'.pairs = survey.pairs
        /\ survey'.listed = survey.listed
    BY <1>6
  <2>2. SurveyIsSound(survey')
    BY <1>1, <1>4, <1>5, <2>1 DEF SurveyIsSound
  <2> QED
    BY <1>2, <2>1, <2>2 DEF CalibrationInv
<1>7. ASSUME r \notin DOMAIN forecast,
             survey' = [survey EXCEPT !.todo = @ \ {r}, !.pairs = @, !.without = @ + 1]
      PROVE  CalibrationInv'
  <2>1. /\ survey'.at = survey.at /\ survey'.minimum = survey.minimum
        /\ survey'.without = survey.without + 1 /\ survey'.skipped = survey.skipped
        /\ survey'.todo = survey.todo \ {r} /\ survey'.pairs = survey.pairs
        /\ survey'.listed = survey.listed
    BY <1>7
  <2>2. SurveyIsSound(survey')
    BY <1>1, <1>4, <1>5, <2>1 DEF SurveyIsSound
  <2> QED
    BY <1>2, <2>1, <2>2 DEF CalibrationInv
<1>8. ASSUME r \in DOMAIN forecast,
             survey' = [survey EXCEPT !.todo = @ \ {r}, !.pairs = WithRun(@, r, PairFor(r)),
                                      !.without = @]
      PROVE  CalibrationInv'
  <2>1. /\ survey'.at = survey.at /\ survey'.minimum = survey.minimum
        /\ survey'.without = survey.without /\ survey'.skipped = survey.skipped
        /\ survey'.todo = survey.todo \ {r}
        /\ survey'.pairs = WithRun(survey.pairs, r, PairFor(r))
        /\ survey'.listed = survey.listed
    BY <1>8
  <2>2. /\ DOMAIN survey'.pairs = DOMAIN survey.pairs \cup {r} /\ survey'.pairs[r] = PairFor(r)
        /\ \A q \in DOMAIN survey.pairs : survey'.pairs[q] = survey.pairs[q]
    <3> DEFINE x == PairFor(r)
    <3>1. survey'.pairs = WithRun(survey.pairs, r, x)
      BY <2>1
    <3> HIDE DEF x
    <3>2. /\ DOMAIN survey'.pairs = DOMAIN survey.pairs \cup {r} /\ survey'.pairs[r] = x
          /\ \A q \in DOMAIN survey.pairs : survey'.pairs[q] = survey.pairs[q]
      BY <1>1, <3>1 DEF WithRun
    <3> QED
      BY <3>2 DEF x
  <2>3. SurveyIsSound(survey')
    BY <1>1, <1>4, <1>5, <2>1, <2>2 DEF SurveyIsSound
  <2>4. PairIsSound(PairFor(r), forecast[r], spent[r])
    BY StageActualIs DEF PairIsSound, PairFor
  <2>5. \A q \in DOMAIN survey'.pairs :
           q \in DOMAIN forecast /\ PairIsSound(survey'.pairs[q], forecast[q], spent[q])
    BY <1>8, <2>2, <2>4 DEF CalibrationInv
  <2> QED
    BY <1>2, <2>3, <2>5 DEF CalibrationInv
<1>9. CASE r \in DOMAIN forecast
  BY <1>6, <1>8, <1>9 DEF PairRun
<1>10. CASE r \notin DOMAIN forecast
  BY <1>6, <1>7, <1>10 DEF PairRun
<1> QED
  BY <1>9, <1>10

LEMMA ListUsedRunsStep == ASSUME CalibrationInv, ListUsedRuns PROVE CalibrationInv'
<1> DEFINE runs == {r \in ForecastRuns : HasUsage(r)}
<1>1. PICK n \in MinSamples :
         survey' = [Unsurveyed EXCEPT !.at = "reading", !.minimum = n, !.todo = runs,
                                      !.listed = Cardinality(runs)]
  BY DEF ListUsedRuns
<1>2. IsFiniteSet(runs) /\ runs \subseteq ForecastRuns
  BY CalibrationFacts, FS_Subset
<1> HIDE DEF runs
<1>3. Cardinality(runs) \in Nat /\ Cardinality({}) = 0
  BY <1>2, FS_CardinalityType, FS_EmptySet
<1>4. /\ survey'.at = "reading" /\ survey'.minimum = n /\ survey'.without = 0
      /\ survey'.skipped = 0 /\ survey'.todo = runs /\ DOMAIN survey'.pairs = {}
      /\ survey'.listed = Cardinality(runs)
  BY <1>1 DEF Unsurveyed
<1>5. SurveyIsSound(survey')
  BY <1>2, <1>3, <1>4, CalibrationFacts DEF SurveyIsSound
<1> QED
  BY <1>4, <1>5 DEF CalibrationInv, ListUsedRuns

LEMMA CalibrationStep ==
    ASSUME CalibrationInv, [CalibrationNext]_calibrationVars
    PROVE  CalibrationInv'
<1>1. CASE UNCHANGED calibrationVars
  BY <1>1 DEF calibrationVars, CalibrationInv
<1>2. ASSUME NEW r \in ForecastRuns, EndRun(r) PROVE CalibrationInv'
  BY <1>2 DEF EndRun, CalibrationInv
<1>3. CASE RepriceModel
  BY <1>3, CalibrationFacts DEF RepriceModel, CalibrationInv
<1>4. CASE Publish
  <2>1. /\ survey' = [survey EXCEPT !.at = "published"]
        /\ survey.at = "reading" /\ survey.todo = {}
        /\ UNCHANGED <<forecast, spent, outcome, book, reprices, pricedAt>>
    BY <1>4 DEF Publish
  <2>2. SurveyIsSound(survey)
    BY DEF CalibrationInv
  <2>3. /\ survey'.at = "published" /\ survey'.minimum = survey.minimum
        /\ survey'.without = survey.without /\ survey'.skipped = survey.skipped
        /\ survey'.todo = survey.todo /\ survey'.pairs = survey.pairs
        /\ survey'.listed = survey.listed
    BY <2>1
  <2>4. SurveyIsSound(survey')
    BY <2>1, <2>2, <2>3 DEF SurveyIsSound
  <2> QED
    BY <2>1, <2>3, <2>4 DEF CalibrationInv
<1> QED
  BY <1>1, <1>2, <1>3, <1>4, RecordForecastStep, SpendOnStep, PairRunStep, ListUsedRunsStep
     DEF CalibrationNext

-----------------------------------------------------------------------------
(* The report                                                              *)

\* What a pair says was spent is part of what was.
LEMMA PairIsMeasured ==
    ASSUME CalibrationInv, NEW r \in DOMAIN survey.pairs
    PROVE  survey.pairs[r].actual <= MapThenSumSet(
               LAMBDA s : IF spent[r][s] > 0 THEN spent[r][s] ELSE 0, CountedStages)
<1> DEFINE whole == [s \in CountedStages |-> IF spent[r][s] > 0 THEN spent[r][s] ELSE 0]
           f == survey.pairs[r].stageActual
           D == DOMAIN f
<1>1. /\ D \subseteq CountedStages /\ survey.pairs[r].actual = SumOver(f, D)
      /\ \A s \in D : /\ spent[r][s] # Quiet
                      /\ f[s] = IF spent[r][s] = Unmetered THEN 0 ELSE spent[r][s]
  BY SumOfIs DEF CalibrationInv, PairIsSound
<1>2. spent[r] \in Events /\ CountedStages \subseteq AgentStages
  BY DEF CalibrationInv, SurveyIsSound, CountedStages
<1>3. ASSUME NEW s \in CountedStages
      PROVE  spent[r][s] \in Nat \/ spent[r][s] = Quiet \/ spent[r][s] = Unmetered
  BY <1>2, CalibrationFacts DEF Events
<1>4. \A s \in CountedStages : whole[s] \in Nat
  BY <1>3 DEF Quiet, Unmetered
<1>5. \A s \in D : f[s] = whole[s]
  BY <1>1, <1>3 DEF Quiet, Unmetered
<1>6. MapThenSumSet(LAMBDA s : IF spent[r][s] > 0 THEN spent[r][s] ELSE 0, CountedStages)
        = SumOver(whole, CountedStages)
  BY DEF SumOver, MapThenSumSet, MapThenFoldSet
<1> HIDE DEF whole, f, D
<1>7. IsFiniteSet(CountedStages) /\ IsFiniteSet(D) /\ D \in SUBSET CountedStages
  BY <1>1, PricedStagesAre, FS_Subset
<1>8. SumOver(f, D) = SumOver(whole, D)
  BY <1>5, <1>7, SumSame
<1>9. /\ SumOver(whole, CountedStages) = SumOver(whole, D) + SumOver(whole, CountedStages \ D)
      /\ SumOver(whole, D) \in Nat /\ SumOver(whole, CountedStages \ D) \in Nat
  BY <1>4, <1>7, SumPart
<1>10. SumOver(whole, D) <= SumOver(whole, CountedStages)
  BY <1>9
<1> QED
  BY <1>1, <1>6, <1>8, <1>10

ErrorOf(pairs) == [r \in DOMAIN pairs |-> pairs[r].expected - pairs[r].actual]

LEMMA BiasIs ==
    ASSUME NEW rs \in SUBSET DOMAIN survey.pairs
    PROVE  Bias(rs) = [sum |-> SumOver(ErrorOf(survey.pairs), rs), n |-> Cardinality(rs)]
<1>1. MapThenSumSet(LAMBDA r : survey.pairs[r].expected - survey.pairs[r].actual, rs)
        = SumOver(ErrorOf(survey.pairs), rs)
  BY DEF ErrorOf, SumOver, MapThenSumSet, MapThenFoldSet
<1> QED
  BY <1>1 DEF Bias, Metric

LEMMA ErrorsAreNumbers ==
    ASSUME CalibrationInv
    PROVE  /\ IsFiniteSet(DOMAIN survey.pairs)
           /\ \A r \in DOMAIN survey.pairs : ErrorOf(survey.pairs)[r] \in Int
<1>1. IsFiniteSet(DOMAIN survey.pairs)
  BY CalibrationFacts, FS_Subset DEF CalibrationInv, SurveyIsSound
<1>2. ASSUME NEW r \in DOMAIN survey.pairs PROVE ErrorOf(survey.pairs)[r] \in Int
  <2> DEFINE f == survey.pairs[r].stageActual
  <2>1. /\ DOMAIN f \subseteq CountedStages /\ survey.pairs[r].actual = SumOver(f, DOMAIN f)
        /\ \A s \in DOMAIN f : f[s] = IF spent[r][s] = Unmetered THEN 0 ELSE spent[r][s]
        /\ survey.pairs[r].expected = forecast[r].expected /\ r \in DOMAIN forecast
    BY SumOfIs DEF CalibrationInv, PairIsSound
  <2>2. spent[r] \in Events /\ CountedStages \subseteq AgentStages
    BY DEF CalibrationInv, SurveyIsSound, CountedStages
  <2>3. ASSUME NEW s \in DOMAIN f PROVE f[s] \in Int
    <3>1. spent[r][s] \in Nat \/ spent[r][s] = Quiet \/ spent[r][s] = Unmetered
      BY <2>1, <2>2, CalibrationFacts DEF Events
    <3> QED
      BY <2>1, <3>1 DEF Quiet, Unmetered
  <2>4. SumOver(f, DOMAIN f) \in Int
    <3> HIDE DEF f
    <3>1. IsFiniteSet(DOMAIN f)
      BY <2>1, PricedStagesAre, FS_Subset
    <3> QED
      BY <2>3, <3>1, SumType
  <2>5. forecast[r].expected \in Int
    BY <2>1 DEF CalibrationInv, ForecastIsSound
  <2> QED
    BY <2>1, <2>4, <2>5 DEF ErrorOf
<1> QED
  BY <1>1, <1>2

ClassesOf(pairs) == {pairs[r].class : r \in DOMAIN pairs}
OfClass(pairs, c) == {r \in DOMAIN pairs : pairs[r].class = c}

\* Split by class, a sample is still the whole of it.
LEMMA ClassesAddUp ==
    ASSUME CalibrationInv, NEW g, NEW f,
           \A r \in DOMAIN survey.pairs : f[r] \in Int,
           \A c \in ClassesOf(survey.pairs) : g[c] = SumOver(f, OfClass(survey.pairs, c))
    PROVE  SumOver(g, ClassesOf(survey.pairs)) = SumOver(f, DOMAIN survey.pairs)
<1> DEFINE rs == DOMAIN survey.pairs
           key == [r \in rs |-> survey.pairs[r].class]
           K == ClassesOf(survey.pairs)
<1>1. IsFiniteSet(rs)
  BY ErrorsAreNumbers
<1>2. IsFiniteSet(K)
  <2>1. K = Image(key, rs)
    BY DEF ClassesOf, Image
  <2> QED
    BY <1>1, <2>1, ImageIsFinite
<1>3. \A c \in K : GroupBy(rs, key, c) = OfClass(survey.pairs, c)
  BY DEF GroupBy, OfClass
<1>4. Within(rs, key, K) = rs
  BY DEF Within, ClassesOf
<1> HIDE DEF rs, key, K
<1>5. /\ \A r \in rs : f[r] \in Int
      /\ \A c \in K : g[c] = SumOver(f, GroupBy(rs, key, c))
  BY <1>3 DEF rs, K
<1>6. SumOver(g, K) = SumOver(f, Within(rs, key, K))
  BY <1>1, <1>2, <1>5, SumGroups
<1> QED
  BY <1>4, <1>6 DEF rs, K

LEMMA SurveyReportIs ==
    LET rs == DOMAIN survey.pairs
    IN  /\ Report.sampleSize = Cardinality(rs)
        /\ Cardinality(rs) < survey.minimum =>
              Report.bias = {} /\ Report.byClass = <<>> /\ Report.measured = {}
        /\ ~(Cardinality(rs) < survey.minimum) =>
              /\ Report.bias = {Bias(rs)}
              /\ Report.byClass = [c \in ClassesOf(survey.pairs) |-> Bias(OfClass(survey.pairs, c))]
              /\ Report.measured = {s \in CountedStages : IsMeasured(s)}
BY DEF Report, ClassesOf, OfClass

LEMMA ByClassAddsUp ==
    ASSUME CalibrationInv, ~(Cardinality(DOMAIN survey.pairs) < survey.minimum)
    PROVE  /\ Bias(DOMAIN survey.pairs).n
                = MapThenSumSet(LAMBDA c : Report.byClass[c].n, DOMAIN Report.byClass)
           /\ Bias(DOMAIN survey.pairs).sum
                = MapThenSumSet(LAMBDA c : Report.byClass[c].sum, DOMAIN Report.byClass)
<1> DEFINE rs == DOMAIN survey.pairs
           K == ClassesOf(survey.pairs)
           by == Report.byClass
           counts == [c \in K |-> by[c].n]
           sums == [c \in K |-> by[c].sum]
           one == [r \in rs |-> 1]
<1>1. by = [c \in K |-> Bias(OfClass(survey.pairs, c))]
  BY SurveyReportIs
<1>2. DOMAIN by = K
  BY <1>1
<1>3. /\ MapThenSumSet(LAMBDA c : by[c].n, K) = SumOver(counts, K)
      /\ MapThenSumSet(LAMBDA c : by[c].sum, K) = SumOver(sums, K)
  <2> HIDE DEF by, K
  <2> QED
    BY DEF SumOver, MapThenSumSet, MapThenFoldSet
<1>4. ASSUME NEW c \in K
      PROVE  /\ counts[c] = SumOver(one, OfClass(survey.pairs, c))
             /\ sums[c] = SumOver(ErrorOf(survey.pairs), OfClass(survey.pairs, c))
  <2>1. OfClass(survey.pairs, c) \in SUBSET rs
    BY DEF OfClass
  <2>2. IsFiniteSet(OfClass(survey.pairs, c))
    BY <2>1, ErrorsAreNumbers, FS_Subset
  <2>3. by[c] = [sum |-> SumOver(ErrorOf(survey.pairs), OfClass(survey.pairs, c)),
                 n |-> Cardinality(OfClass(survey.pairs, c))]
    BY <1>1, <2>1, BiasIs
  <2>4. \A r \in OfClass(survey.pairs, c) : one[r] = 1
    BY <2>1
  <2>5. SumOver(one, OfClass(survey.pairs, c)) = Cardinality(OfClass(survey.pairs, c))
    <3> HIDE DEF one
    <3> QED
      BY <2>2, <2>4, CardIsSum
  <2> HIDE DEF by
  <2> QED
    BY <2>3, <2>5
<1>5. /\ \A r \in rs : one[r] \in Int /\ one[r] = 1
      /\ \A r \in rs : ErrorOf(survey.pairs)[r] \in Int
  BY ErrorsAreNumbers
<1> HIDE DEF one, counts, sums, by
<1>6. SumOver(counts, K) = SumOver(one, rs) /\ SumOver(sums, K) = SumOver(ErrorOf(survey.pairs), rs)
  BY <1>4, <1>5, ClassesAddUp
<1>7. SumOver(one, rs) = Cardinality(rs)
  BY <1>5, ErrorsAreNumbers, CardIsSum
<1>8. Bias(rs) = [sum |-> SumOver(ErrorOf(survey.pairs), rs), n |-> Cardinality(rs)]
  BY BiasIs
<1>9. /\ Bias(rs).n = MapThenSumSet(LAMBDA c : by[c].n, K)
      /\ Bias(rs).sum = MapThenSumSet(LAMBDA c : by[c].sum, K)
  BY <1>3, <1>6, <1>7, <1>8
<1> QED
  BY <1>2, <1>9 DEF by

LEMMA CalibrationIsGood == ASSUME CalibrationInv PROVE CalibrationIsHonest
<1>1. EstimateIsWhole
  <2> SUFFICES ASSUME NEW r \in DOMAIN forecast
               PROVE  LET f == forecast[r] b == pricedAt[r]
                      IN /\ f.expected >= BaseCost(f.files, f.tasks, b) * Unit
                         /\ f.samples = 0 => f.expected = BaseCost(f.files, f.tasks, b) * Unit
                         /\ SumOf(Decompose(f.files, f.tasks, b)) = BaseCost(f.files, f.tasks, b)
    BY DEF EstimateIsWhole
  <2>1. ForecastIsSound(forecast[r], pricedAt[r])
    BY DEF CalibrationInv
  <2>2. forecast[r].files \in Nat /\ forecast[r].tasks \in Nat /\ pricedAt[r] \in PriceBooks
    BY <2>1, CalibrationFacts DEF ForecastIsSound
  <2>3. SumOf(Decompose(forecast[r].files, forecast[r].tasks, pricedAt[r]))
          = BaseCost(forecast[r].files, forecast[r].tasks, pricedAt[r])
    BY <2>2, StagesAddUp
  <2> QED
    BY <2>1, <2>3 DEF ForecastIsSound
<1>2. PairsAreTrue
  <2>1. ASSUME survey.at = "published"
        PROVE  Cardinality(DOMAIN survey.pairs) + survey.without + survey.skipped = survey.listed
    <3>1. SurveyIsSound(survey) /\ survey.todo = {}
      BY <2>1 DEF CalibrationInv, SurveyIsSound
    <3>2. Cardinality(survey.todo) = 0 /\ Cardinality(DOMAIN survey.pairs) \in Nat
      BY <3>1, ErrorsAreNumbers, FS_EmptySet, FS_CardinalityType
    <3> QED
      BY <2>1, <3>1, <3>2 DEF SurveyIsSound
  <2>2. \A r \in DOMAIN survey.pairs :
           r \in DOMAIN forecast /\ survey.pairs[r].expected = forecast[r].expected
    BY DEF CalibrationInv, PairIsSound
  <2> QED
    BY <2>1, <2>2, PairIsMeasured DEF PairsAreTrue
<1>3. ReportIsWhole
  <2> DEFINE few == Cardinality(DOMAIN survey.pairs) < survey.minimum
  <2>1. Report.sampleSize < survey.minimum <=> Report.bias = {}
    BY SurveyReportIs
  <2>2. Report.bias = {} => Report.byClass = <<>> /\ Report.measured = {}
    BY SurveyReportIs
  <2>3. ASSUME NEW b \in Report.bias
        PROVE  /\ b.n = MapThenSumSet(LAMBDA c : Report.byClass[c].n, DOMAIN Report.byClass)
               /\ b.sum = MapThenSumSet(LAMBDA c : Report.byClass[c].sum, DOMAIN Report.byClass)
    <3>1. ~few /\ b = Bias(DOMAIN survey.pairs)
      BY <2>3, SurveyReportIs
    <3> QED
      BY <3>1, ByClassAddsUp
  <2>4. ASSUME NEW s \in Report.measured
        PROVE  \E r \in DOMAIN survey.pairs : r \in DOMAIN forecast /\ spent[r][s] # Quiet
    <3>1. IsMeasured(s)
      BY <2>4, SurveyReportIs
    <3> QED
      BY <3>1 DEF IsMeasured, CalibrationInv, PairIsSound
  <2> QED
    BY <2>1, <2>2, <2>3, <2>4 DEF ReportIsWhole
<1> QED
  BY <1>1, <1>2, <1>3 DEF CalibrationIsHonest

LEMMA ForecastMoves ==
    ASSUME [ServicesNext]_servicesVars
    PROVE  [PlanLedgerNext]_planLedgerVars /\ [CalibrationNext]_calibrationVars
BY DEF ServicesNext, servicesVars, MovedBy

LEMMA PlanLedgerStays ==
    ASSUME PlanLedgerInv, UNCHANGED planLedgerVars PROVE PlanLedgerInv'
<1>1. UNCHANGED <<author, planRows, forecasts, costUsd, measured>> /\ PlanLedgerTypeOK'
  BY DEF planLedgerVars, ticketVars, PlanLedgerInv, PlanLedgerTypeOK
<1> QED
  BY <1>1 DEF PlanLedgerInv, AuthorIsSound, OneForecasts, AuthorAt

\* Whatever authors, surveys and changes of price there are, the plans with
\* their forecasts and the report on them keep what makes them true.
THEOREM ForecastsKeepTheirInvariants == ServicesSpec => [](PlanLedgerInv /\ CalibrationInv)
<1>1. ServicesInit => PlanLedgerInv /\ CalibrationInv
  BY PlanLedgerBegins, CalibrationBegins DEF ServicesInit
<1>2. PlanLedgerInv /\ [ServicesNext]_servicesVars => PlanLedgerInv'
  BY ForecastMoves, PlanLedgerStep, PlanLedgerStays
<1>3. CalibrationInv /\ [ServicesNext]_servicesVars => CalibrationInv'
  BY ForecastMoves, CalibrationStep
<1> QED
  BY <1>1, <1>2, <1>3, PTL DEF ServicesSpec

\* For any runs, prices, stages spent on and order of the reads: a forecast is the
\* whole of its parts and no run has two, the report on them counts every
\* listed run once against spend that was measured, and its classes add up.
THEOREM ForecastsAreOfWhatWasSpent == ServicesSpec => []ForecastsAreTrue
<1>1. PlanLedgerInv /\ CalibrationInv => ForecastsAreTrue
  BY AccuracyIsGood, CalibrationIsGood DEF ForecastsAreTrue
<1> QED
  BY <1>1, ForecastsKeepTheirInvariants, PTL

-----------------------------------------------------------------------------
(* The circuit breaker                                                     *)

\* An entry of the table; one that is not tripped never was.
EntryIsSound(e) == e \in PbiRecord /\ (~e.tripped => e.trips = 0)

TripsAreSound(events) == events \in Seq(TripEvent) /\ Len(events) <= MaxEvents

BreakerInv ==
    /\ recent \in Seq(Pbis) /\ IsInjective(recent) /\ Len(recent) <= MaxEntries
    /\ DOMAIN pbiState = ToSet(recent)
    /\ \A p \in ToSet(recent) : EntryIsSound(pbiState[p])
    /\ TripsAreSound(trips)

LEMMA BreakerFacts ==
    /\ {MaxMinutes, MaxFailed, MaxTrips, MaxEntries, MaxEvents, MaxSafe} \subseteq Nat
    /\ MaxMinutes > 0 /\ MaxFailed > 0 /\ MaxTrips > 0 /\ MaxEntries > 0 /\ MaxEvents > 0
    /\ MaxMinutes <= MaxSafe /\ Minutes \subseteq Nat
BY BreakerAssumption

LEMMA FreshIsSound == EntryIsSound(Fresh) /\ ~Fresh.tripped
<1>1. Fresh \in PbiRecord
  BY BreakerFacts DEF Fresh, PbiRecord
<1> QED
  BY <1>1 DEF EntryIsSound, Fresh

LEMMA InToSet ==
    ASSUME NEW S, NEW s \in Seq(S)
    PROVE  /\ ToSet(s) \subseteq S
           /\ \A x \in ToSet(s) : \E i \in DOMAIN s : s[i] = x
           /\ \A i \in DOMAIN s : s[i] \in ToSet(s)
           /\ Len(s) \in Nat /\ DOMAIN s = 1 .. Len(s)
BY DEF ToSet

LEMMA EntryIs ==
    ASSUME BreakerInv, NEW p \in Pbis
    PROVE  EntryIsSound(Entry(p)) /\ (IsTripped(p) <=> Entry(p).tripped)
BY FreshIsSound DEF BreakerInv, Entry, IsTripped

\* What an activity is charged to: an entry and the list of trips.
IsSheet(b) == b = [entry |-> b.entry, events |-> b.events]
              /\ EntryIsSound(b.entry) /\ TripsAreSound(b.events)

LEMMA TripIs ==
    ASSUME NEW b, IsSheet(b), NEW p \in Pbis, NEW reason \in {"minutes", "failed"}
    PROVE  LET c == Trip(b, p, reason)
           IN  /\ IsSheet(c)
               /\ b.entry.tripped => c.entry.tripped
               /\ Len(b.events) < MaxEvents => c.entry.tripped
               /\ c.entry.minutes = b.entry.minutes /\ c.entry.failed = b.entry.failed
<1> DEFINE full == Len(b.events) >= MaxEvents \/ b.entry.trips >= MaxTrips
           event == [pbi |-> p, minutes |-> b.entry.minutes, reason |-> reason]
           entry == [b.entry EXCEPT !.tripped = TRUE, !.trips = @ + 1]
           more == Append(b.events, event)
<1>0. /\ b.entry \in PbiRecord /\ (~b.entry.tripped => b.entry.trips = 0)
      /\ b.events \in Seq(TripEvent) /\ Len(b.events) <= MaxEvents /\ Len(b.events) \in Nat
  BY DEF IsSheet, EntryIsSound, TripsAreSound
<1>1. CASE full
  <2>1. Trip(b, p, reason) = b
    BY <1>1 DEF Trip
  <2>2. Len(b.events) < MaxEvents => b.entry.tripped
    BY <1>0, <1>1, BreakerFacts
  <2> QED
    BY <2>1, <2>2
<1>2. CASE ~full
  <2>1. Trip(b, p, reason) = [entry |-> entry, events |-> more]
    BY <1>2 DEF Trip
  <2>2. Len(b.events) < MaxEvents /\ b.entry.trips < MaxTrips
    BY <1>0, <1>2, BreakerFacts DEF PbiRecord
  <2>3. entry \in PbiRecord /\ entry.tripped
        /\ entry.minutes = b.entry.minutes /\ entry.failed = b.entry.failed
    <3>1. PICK n \in 0..MaxTrips : n = b.entry.trips + 1
      BY <1>0, <2>2, BreakerFacts DEF PbiRecord
    <3>2. entry = [b.entry EXCEPT !.tripped = TRUE, !.trips = n]
      BY <3>1
    <3> HIDE DEF entry
    <3> QED
      BY <1>0, <3>2 DEF PbiRecord
  <2>4. event \in TripEvent
    BY <1>0 DEF TripEvent, PbiRecord
  <2> HIDE DEF event
  <2>5. more \in Seq(TripEvent) /\ Len(more) = Len(b.events) + 1
    BY <1>0, <2>4
  <2>6. Len(more) <= MaxEvents
    BY <1>0, <2>2, <2>5, BreakerFacts
  <2> HIDE DEF entry, more
  <2> QED
    BY <2>1, <2>3, <2>5, <2>6 DEF IsSheet, EntryIsSound, TripsAreSound
<1> QED
  BY <1>1, <1>2

LEMMA AddMinutesIs ==
    ASSUME NEW b, IsSheet(b), NEW p \in Pbis, NEW m \in Nat
    PROVE  LET c == AddMinutes(b, p, m)
           IN  /\ IsSheet(c)
               /\ b.entry.tripped => c.entry.tripped
               /\ c.entry.tripped \/ c.events = b.events \/ Len(b.events) >= MaxEvents
               /\ c.entry.failed = b.entry.failed
<1>0. /\ b.entry \in PbiRecord /\ (~b.entry.tripped => b.entry.trips = 0)
      /\ Len(b.events) \in Nat
  BY DEF IsSheet, EntryIsSound, TripsAreSound
<1>1. CASE b.entry.minutes + m > MaxSafe
  <2>1. AddMinutes(b, p, m) = Trip(b, p, "minutes")
    BY <1>1 DEF AddMinutes
  <2> QED
    BY <1>0, <2>1, TripIs, BreakerFacts
<1>2. CASE ~(b.entry.minutes + m > MaxSafe)
  <2>1. PICK n \in 0..MaxSafe : n = b.entry.minutes + m
    BY <1>0, <1>2, BreakerFacts DEF PbiRecord
  <2>2. PICK e \in PbiRecord : e = [b.entry EXCEPT !.minutes = n]
    BY <1>0 DEF PbiRecord
  <2>3. AddMinutes(b, p, m) = [b EXCEPT !.entry = e]
    BY <1>2, <2>1, <2>2 DEF AddMinutes
  <2>4. [b EXCEPT !.entry = e] = [entry |-> e, events |-> b.events]
    BY DEF IsSheet
  <2>5. e.tripped = b.entry.tripped /\ e.trips = b.entry.trips /\ e.failed = b.entry.failed
    BY <1>0, <2>2 DEF PbiRecord
  <2> QED
    BY <1>0, <2>3, <2>4, <2>5 DEF IsSheet, EntryIsSound
<1> QED
  BY <1>1, <1>2

\* While the list of trips has room, an activity leaves its PBI below both
\* limits, or tripped.
LEMMA ChargeWorkIs ==
    ASSUME NEW b, IsSheet(b), ~b.entry.tripped,
           NEW p \in Pbis, NEW m \in Nat, NEW ok \in BOOLEAN
    PROVE  LET c == ChargeWork(b, p, m, ok)
           IN  /\ IsSheet(c)
               /\ Len(b.events) < MaxEvents =>
                     \/ c.entry.tripped
                     \/ /\ c.entry.minutes < MaxMinutes
                        /\ c.entry.failed # b.entry.failed => c.entry.failed < MaxFailed
<1> DEFINE added == AddMinutes(b, p, m)
<1>1. /\ IsSheet(added) /\ added.entry.failed = b.entry.failed
      /\ added.entry.tripped \/ added.events = b.events \/ Len(b.events) >= MaxEvents
  BY AddMinutesIs
<1>2. /\ added.entry \in PbiRecord /\ (~added.entry.tripped => added.entry.trips = 0)
      /\ Len(b.events) \in Nat
  BY <1>1 DEF IsSheet, EntryIsSound, TripsAreSound
<1>3. added.entry.minutes \in Nat /\ added.entry.failed \in Nat /\ added.entry.failed <= MaxFailed
  BY <1>2, BreakerFacts DEF PbiRecord
<1> HIDE DEF added
<1>4. CASE added.entry.minutes >= MaxMinutes
  <2>1. ChargeWork(b, p, m, ok) = Trip(added, p, "minutes")
    BY <1>4 DEF ChargeWork, added
  <2> QED
    BY <1>1, <1>2, <2>1, TripIs, BreakerFacts
<1>5. CASE ~(added.entry.minutes >= MaxMinutes)
  <2>0. added.entry.minutes < MaxMinutes
    BY <1>3, <1>5, BreakerFacts
  <2>1. CASE ok
    <3>1. ChargeWork(b, p, m, ok) = added
      BY <1>5, <2>1 DEF ChargeWork, added
    <3> QED
      BY <1>1, <2>0, <3>1
  <2>2. CASE ~ok
    <3> DEFINE failed == [added EXCEPT !.entry.failed = IF @ < MaxFailed THEN @ + 1 ELSE @]
               was == added.entry.failed
    <3>1. PICK n \in 0..MaxFailed : n = IF was < MaxFailed THEN was + 1 ELSE was
      BY <1>3, BreakerFacts
    <3>2. PICK e \in PbiRecord : e = [added.entry EXCEPT !.failed = n]
      BY <1>2 DEF PbiRecord
    <3>3. failed = [entry |-> e, events |-> added.events]
      <4>1. added = [entry |-> added.entry, events |-> added.events]
        BY <1>1 DEF IsSheet
      <4>2. failed = [added EXCEPT !.entry = e]
        BY <3>1, <3>2, <4>1
      <4> QED
        BY <4>1, <4>2
    <3>4. /\ e.tripped = added.entry.tripped /\ e.trips = added.entry.trips
          /\ e.minutes = added.entry.minutes /\ e.failed = n
      BY <1>2, <3>2 DEF PbiRecord
    <3>5. ChargeWork(b, p, m, ok) =
              IF failed.entry.failed >= MaxFailed THEN Trip(failed, p, "failed") ELSE failed
      BY <1>5, <2>2 DEF ChargeWork, AddFailure, added
    <3> HIDE DEF failed
    <3>6. IsSheet(failed) /\ failed.entry = e /\ failed.events = added.events
      BY <1>1, <1>2, <3>3, <3>4 DEF IsSheet, EntryIsSound
    <3>7. CASE failed.entry.failed >= MaxFailed
      BY <1>1, <1>2, <3>4, <3>5, <3>6, <3>7, TripIs, BreakerFacts
    <3>8. CASE ~(failed.entry.failed >= MaxFailed)
      <4>1. n < MaxFailed
        BY <3>4, <3>6, <3>8, BreakerFacts
      <4> QED
        BY <2>0, <3>4, <3>5, <3>6, <3>8, <4>1
    <3> QED
      BY <3>7, <3>8
  <2> QED
    BY <2>1, <2>2
<1> QED
  BY <1>4, <1>5

\* A finite set of numbers has an ascending sequence.
LEMMA AscendingExists ==
    ASSUME NEW n \in Nat, NEW S \in SUBSET (1 .. n)
    PROVE  /\ IsFiniteSet(S) /\ Cardinality(S) \in Nat /\ Cardinality(S) <= n
           /\ \E s \in [1 .. Cardinality(S) -> S] :
                 \A i, j \in DOMAIN s : i < j => s[i] < s[j]
<1> DEFINE R == {pair \in S \X S : pair[1] < pair[2]}
           k == Cardinality(S)
<1>1. IsFiniteSet(1 .. n) /\ Cardinality(1 .. n) = n
  <2>1. 1 \in Int /\ n \in Int
    OBVIOUS
  <2> QED
    BY <2>1, FS_Interval
<1>2. IsFiniteSet(S) /\ k \in Nat /\ k <= n
  BY <1>1, FS_Subset, FS_CardinalityType
<1>3. \A a, b \in S : <<a, b>> \in R <=> a < b
  OBVIOUS
<1>4. IsOrder(R, S)
  <2> HIDE DEF R
  <2>1. \A a, b \in S : (a = b \/ a < b \/ b < a) /\ (a < b => ~(b < a))
    OBVIOUS
  <2>2. \A a, b, c \in S : a < b /\ b < c => a < c
    OBVIOUS
  <2> QED
    BY <1>3, <2>1, <2>2 DEF IsOrder
<1>5. PICK s \in [1 .. k -> S] : Ascends(s, R)
  <2> HIDE DEF R
  <2> QED
    BY <1>2, <1>4, OrderExists
<1>6. \A i, j \in DOMAIN s : i < j => s[i] < s[j]
  <2> HIDE DEF R
  <2> SUFFICES ASSUME NEW i \in DOMAIN s, NEW j \in DOMAIN s, i < j PROVE s[i] < s[j]
    OBVIOUS
  <2>1. <<s[i], s[j]>> \in R
    BY <1>5 DEF Ascends
  <2>2. s[i] \in S /\ s[j] \in S
    BY <1>5
  <2> QED
    BY <1>3, <2>1, <2>2
<1> QED
  BY <1>2, <1>5, <1>6

\* What remains of a sequence is no longer, of its elements, and each once if
\* each was there once.
LEMMA RemainingIs ==
    ASSUME NEW V, NEW s \in Seq(V), NEW S \in SUBSET (DOMAIN s)
    PROVE  /\ Remaining(s, S) \in Seq(V) /\ Len(Remaining(s, S)) <= Len(s)
           /\ ToSet(Remaining(s, S)) \subseteq ToSet(s)
           /\ IsInjective(s) => IsInjective(Remaining(s, S))
<1> DEFINE k == Cardinality(S)
           Ok(o) == \A i, j \in DOMAIN o : i < j => o[i] < o[j]
           place == CHOOSE o \in [1 .. k -> S] : Ok(o)
           r == Remaining(s, S)
<1>1. Len(s) \in Nat /\ DOMAIN s = 1 .. Len(s) /\ \A i \in DOMAIN s : s[i] \in V
  OBVIOUS
<1>2. k \in Nat /\ k <= Len(s) /\ \E o \in [1 .. k -> S] : Ok(o)
  BY <1>1, AscendingExists
<1>3. place \in [1 .. k -> S] /\ Ok(place)
  BY <1>2
<1>4. r = [i \in 1 .. k |-> s[place[i]]]
  BY DEF Remaining
<1> HIDE DEF place, r
<1>5. \A i \in 1 .. k : place[i] \in S /\ place[i] \in DOMAIN s
  BY <1>3
<1>6. r \in Seq(V) /\ Len(r) = k /\ DOMAIN r = 1 .. k
  <2>1. r \in [1 .. k -> V]
    BY <1>1, <1>4, <1>5
  <2> QED
    BY <1>2, <2>1
<1>7. ToSet(r) \subseteq ToSet(s)
  BY <1>4, <1>5, <1>6 DEF ToSet
<1>8. ASSUME IsInjective(s) PROVE IsInjective(r)
  <2> SUFFICES ASSUME NEW i \in 1 .. k, NEW j \in 1 .. k, r[i] = r[j], i # j PROVE FALSE
    BY <1>6 DEF IsInjective
  <2>1. place[i] = place[j]
    BY <1>4, <1>5, <1>8 DEF IsInjective
  <2>2. i < j \/ j < i
    BY <1>2
  <2>3. place[i] < place[j] \/ place[j] < place[i]
    BY <1>3, <2>2
  <2>4. place[i] \in Int
    BY <1>1, <1>5
  <2> QED
    BY <2>1, <2>3, <2>4
<1> QED
  BY <1>2, <1>6, <1>7, <1>8 DEF r

\* Positions behind the one that is taken out, counted from it.
LEMMA PositionsBehind ==
    ASSUME NEW n \in Int, NEW m \in Int, NEW i \in 1 .. m - n
    PROVE  i \in 1 .. m - (n + 1) + 1 /\ n + 1 + i - 1 = n + i
OBVIOUS

\* A PBI that is touched is the last, once, and no other is lost.
LEMMA TouchedIs ==
    ASSUME NEW idle \in Seq(Pbis), IsInjective(idle), NEW p \in Pbis
    PROVE  LET s == Append(Without(idle, p), p)
           IN  /\ s \in Seq(Pbis) /\ IsInjective(s) /\ ToSet(s) = ToSet(idle) \cup {p}
               /\ Len(s) = IF p \in ToSet(idle) THEN Len(idle) ELSE Len(idle) + 1
<1> DEFINE w == Without(idle, p)
           s == Append(w, p)
<1>1. Len(idle) \in Nat /\ DOMAIN idle = 1 .. Len(idle)
  OBVIOUS
<1>2. /\ w \in Seq(Pbis) /\ IsInjective(w) /\ ToSet(w) = ToSet(idle) \ {p}
      /\ Len(w) = IF p \in ToSet(idle) THEN Len(idle) - 1 ELSE Len(idle)
  <2>1. CASE p \in ToSet(idle)
    <3>1. PICK n \in DOMAIN idle : n = CHOOSE i \in DOMAIN idle : idle[i] = p
      BY <2>1 DEF ToSet
    <3>2. idle[n] = p
      BY <2>1, <3>1 DEF ToSet
    <3> DEFINE head == SubSeq(idle, 1, n - 1)
               tail == SubSeq(idle, n + 1, Len(idle))
    <3>0. n \in 1 .. Len(idle) /\ n - 1 \in Int /\ n + 1 \in Int /\ Len(idle) \in Int /\ 1 \in Int
      BY <1>1, <3>1
    <3>4. /\ head \in Seq(Pbis) /\ Len(head) = n - 1
          /\ \A i \in 1 .. n - 1 : head[i] = idle[i]
      <4>1. \A i \in 1 .. n - 1 : idle[i] \in Pbis
        BY <1>1, <3>0
      <4>2. /\ head \in Seq(Pbis) /\ Len(head) = IF 1 <= n - 1 THEN n - 1 - 1 + 1 ELSE 0
            /\ \A i \in 1 .. n - 1 - 1 + 1 : head[i] = idle[1 + i - 1]
        BY <3>0, <4>1, SubSeqProperties
      <4> HIDE DEF head
      <4>3. Len(head) = n - 1
        BY <3>0, <4>2
      <4>4. ASSUME NEW i \in 1 .. n - 1 PROVE head[i] = idle[i]
        <5>1. i \in 1 .. n - 1 - 1 + 1 /\ 1 + i - 1 = i
          BY <3>0
        <5> QED
          BY <4>2, <5>1
      <4> QED
        BY <4>2, <4>3, <4>4
    <3>5. /\ tail \in Seq(Pbis) /\ Len(tail) = Len(idle) - n
          /\ \A i \in 1 .. Len(idle) - n : tail[i] = idle[n + i]
      <4>1. \A i \in n + 1 .. Len(idle) : idle[i] \in Pbis
        BY <1>1, <3>0
      <4>2. /\ tail \in Seq(Pbis)
            /\ Len(tail) = IF n + 1 <= Len(idle) THEN Len(idle) - (n + 1) + 1 ELSE 0
            /\ \A i \in 1 .. Len(idle) - (n + 1) + 1 : tail[i] = idle[n + 1 + i - 1]
        BY <3>0, <4>1, SubSeqProperties
      <4> HIDE DEF tail
      <4>3. Len(tail) = Len(idle) - n
        BY <3>0, <4>2
      <4>4. ASSUME NEW i \in 1 .. Len(idle) - n PROVE tail[i] = idle[n + i]
        <5>1. i \in 1 .. Len(idle) - (n + 1) + 1 /\ n + 1 + i - 1 = n + i
          <6>1. n \in Int /\ Len(idle) \in Int
            BY <3>0
          <6> QED
            BY <6>1, PositionsBehind
        <5> QED
          BY <4>2, <5>1
      <4> QED
        BY <4>2, <4>3, <4>4
    <3> HIDE DEF head, tail
    <3>3. w = head \o tail
      BY <2>1, <3>1 DEF Without, RemoveAt, head, tail
    <3> HIDE DEF w
    <3>6. /\ w \in Seq(Pbis) /\ Len(w) = Len(head) + Len(tail)
          /\ \A i \in 1 .. Len(head) + Len(tail) :
                w[i] = IF i <= Len(head) THEN head[i] ELSE tail[i - Len(head)]
      BY <3>3, <3>4, <3>5, ConcatProperties
    <3>7. Len(w) = Len(idle) - 1
      BY <3>0, <3>4, <3>5, <3>6
    <3>8. DOMAIN w = 1 .. Len(idle) - 1
      BY <3>6, <3>7
    <3>11. ASSUME NEW i \in 1 .. Len(idle) - 1, i < n PROVE w[i] = idle[i]
      <4>1. i \in 1 .. n - 1 /\ i \in 1 .. Len(head) + Len(tail) /\ i <= Len(head)
        BY <3>0, <3>4, <3>5, <3>11
      <4> QED
        BY <3>4, <3>6, <4>1
    <3>12. ASSUME NEW i \in 1 .. Len(idle) - 1, ~(i < n) PROVE w[i] = idle[i + 1]
      <4>1. /\ i \in 1 .. Len(head) + Len(tail) /\ ~(i <= Len(head)) /\ n + (i - (n - 1)) = i + 1
            /\ i - (n - 1) \in 1 .. Len(idle) - n
        BY <3>0, <3>4, <3>5, <3>12
      <4>2. w[i] = tail[i - (n - 1)]
        BY <3>4, <3>6, <4>1
      <4> QED
        BY <3>5, <4>1, <4>2
    <3>9. IsInjective(w)
      <4> SUFFICES ASSUME NEW i \in DOMAIN w, NEW j \in DOMAIN w, w[i] = w[j] PROVE i = j
        BY DEF IsInjective
      <4> DEFINE a == IF i < n THEN i ELSE i + 1
                 b == IF j < n THEN j ELSE j + 1
      <4>1. i \in 1 .. Len(idle) - 1 /\ j \in 1 .. Len(idle) - 1
        BY <3>8
      <4>3. a \in DOMAIN idle /\ b \in DOMAIN idle
        BY <1>1, <3>0, <4>1
      <4>4. w[i] = idle[a] /\ w[j] = idle[b]
        BY <3>11, <3>12, <4>1
      <4>2. a = b
        BY <4>3, <4>4 DEF IsInjective
      <4> QED
        BY <3>0, <4>1, <4>2
    <3>10. ToSet(w) = ToSet(idle) \ {p}
      <4>1. ASSUME NEW i \in DOMAIN w PROVE w[i] \in ToSet(idle) \ {p}
        <5> DEFINE a == IF i < n THEN i ELSE i + 1
        <5>0. i \in 1 .. Len(idle) - 1
          BY <3>8
        <5>1. a \in DOMAIN idle /\ w[i] = idle[a] /\ a # n
          <6>1. a \in DOMAIN idle /\ a # n
            BY <1>1, <3>0, <5>0
          <6>2. w[i] = idle[a]
            BY <3>11, <3>12, <5>0
          <6> QED
            BY <6>1, <6>2
        <5>2. idle[a] # p
          BY <3>2, <5>1 DEF IsInjective
        <5> QED
          BY <5>1, <5>2 DEF ToSet
      <4>2. ASSUME NEW a \in DOMAIN idle, idle[a] # p PROVE idle[a] \in ToSet(w)
        <5> DEFINE i == IF a < n THEN a ELSE a - 1
        <5>1. a # n
          BY <3>2, <4>2
        <5>2. i \in 1 .. Len(idle) - 1 /\ (i < n <=> a < n) /\ (~(a < n) => i + 1 = a)
          BY <1>1, <3>0, <5>1
        <5>3. w[i] = idle[a]
          BY <3>11, <3>12, <5>2
        <5> QED
          BY <3>8, <5>2, <5>3 DEF ToSet
      <4>3. ToSet(w) \subseteq ToSet(idle) \ {p}
        BY <4>1 DEF ToSet
      <4>4. ToSet(idle) \ {p} \subseteq ToSet(w)
        BY <4>2 DEF ToSet
      <4> QED
        BY <4>3, <4>4
    <3> QED
      BY <2>1, <3>6, <3>7, <3>9, <3>10
  <2>2. CASE p \notin ToSet(idle)
    BY <2>2 DEF Without
  <2> QED
    BY <2>1, <2>2
<1> HIDE DEF w
<1>3. /\ s \in Seq(Pbis) /\ Len(s) = Len(w) + 1 /\ s[Len(w) + 1] = p
      /\ \A i \in 1 .. Len(w) : s[i] = w[i]
  BY <1>2
<1>4. DOMAIN w = 1 .. Len(w) /\ DOMAIN s = 1 .. Len(w) + 1 /\ Len(w) \in Nat
  BY <1>2, <1>3
<1> HIDE DEF s
<1>5. IsInjective(s)
  <2> SUFFICES ASSUME NEW i \in DOMAIN s, NEW j \in DOMAIN s, s[i] = s[j] PROVE i = j
    BY DEF IsInjective
  <2>1. \A x \in 1 .. Len(w) : w[x] # p
    BY <1>2, <1>4 DEF ToSet
  <2>2. (i \in 1 .. Len(w) \/ i = Len(w) + 1) /\ (j \in 1 .. Len(w) \/ j = Len(w) + 1)
    BY <1>4
  <2>3. CASE i \in 1 .. Len(w) /\ j \in 1 .. Len(w)
    BY <1>2, <1>3, <1>4, <2>3 DEF IsInjective
  <2>4. CASE i = Len(w) + 1 \/ j = Len(w) + 1
    BY <1>3, <2>1, <2>2, <2>4
  <2> QED
    BY <2>2, <2>3, <2>4
<1>6. ToSet(s) = ToSet(w) \cup {p}
  <2>1. \A i \in 1 .. Len(w) + 1 : i \in 1 .. Len(w) \/ i = Len(w) + 1
    BY <1>4
  <2>2. Len(w) + 1 \in 1 .. Len(w) + 1 /\ 1 .. Len(w) \subseteq 1 .. Len(w) + 1
    BY <1>4
  <2> QED
    BY <1>3, <1>4, <2>1, <2>2 DEF ToSet
<1>7. ToSet(s) = ToSet(idle) \cup {p}
  BY <1>2, <1>6
<1>8. Len(s) = IF p \in ToSet(idle) THEN Len(idle) ELSE Len(idle) + 1
  <2>1. CASE p \in ToSet(idle)
    <3>1. Len(w) = Len(idle) - 1
      BY <1>2, <2>1
    <3> QED
      BY <1>1, <1>3, <2>1, <3>1
  <2>2. CASE p \notin ToSet(idle)
    <3>1. Len(w) = Len(idle)
      BY <1>2, <2>2
    <3> QED
      BY <1>3, <2>2, <3>1
  <2> QED
    BY <2>1, <2>2
<1> QED
  BY <1>3, <1>5, <1>7, <1>8 DEF s, w

LEMMA KeptIs ==
    ASSUME NEW idle \in Seq(Pbis), IsInjective(idle), Len(idle) > 0
    PROVE  /\ Kept(idle) \in Seq(Pbis) /\ IsInjective(Kept(idle))
           /\ ToSet(Kept(idle)) \subseteq ToSet(idle)
           /\ Len(Kept(idle)) <= MaxEntries
<1> DEFINE from == IF Len(idle) > MaxEntries THEN Len(idle) - MaxEntries + 1 ELSE 1
           k == SubSeq(idle, from, Len(idle))
<1>1. Len(idle) \in Nat /\ DOMAIN idle = 1 .. Len(idle) /\ MaxEntries \in Nat /\ MaxEntries > 0
  BY BreakerFacts
<1>2. from \in 1 .. Len(idle) /\ Len(idle) - from + 1 <= MaxEntries
  BY <1>1
<1>3. k = Kept(idle)
  BY DEF Kept
<1> HIDE DEF from
<1>4. /\ k \in Seq(Pbis) /\ Len(k) = Len(idle) - from + 1
      /\ \A i \in 1 .. Len(idle) - from + 1 : k[i] = idle[from + i - 1]
  BY <1>1, <1>2
<1> HIDE DEF k
<1>5. DOMAIN k = 1 .. Len(idle) - from + 1
  BY <1>4
<1>6. \A i \in DOMAIN k : from + i - 1 \in DOMAIN idle /\ k[i] = idle[from + i - 1]
  BY <1>1, <1>2, <1>4, <1>5
<1>7. IsInjective(k)
  <2> SUFFICES ASSUME NEW i \in DOMAIN k, NEW j \in DOMAIN k, k[i] = k[j] PROVE i = j
    BY DEF IsInjective
  <2>1. from + i - 1 = from + j - 1
    BY <1>6 DEF IsInjective
  <2> QED
    BY <1>1, <1>2, <1>5, <2>1
<1>8. ToSet(k) \subseteq ToSet(idle)
  BY <1>6 DEF ToSet
<1> QED
  BY <1>2, <1>3, <1>4, <1>7, <1>8

BreakerHolds(p) ==
    LET was == Entry(p)
        is == pbiState'[p]
    IN  /\ is # was /\ Len(trips) < MaxEvents =>
               \/ is.tripped
               \/ /\ is.minutes < MaxMinutes
                  /\ is.failed # was.failed => is.failed < MaxFailed
        /\ IsTripped(p) => is \in {was, Fresh}

LEMMA TrackIs ==
    ASSUME NEW noted, NEW idle, Track(noted, idle)
    PROVE  /\ recent' = idle /\ DOMAIN pbiState' = ToSet(idle)
           /\ \A p \in ToSet(idle) : pbiState'[p] = noted[p]
BY DEF Track

LEMMA ActivityIs ==
    ASSUME BreakerInv, NEW p \in Pbis, NEW m \in Minutes, NEW ok \in BOOLEAN,
           RecordWorkerActivity(p, m, ok)
    PROVE  BreakerInv' /\ \A q \in DOMAIN pbiState' : BreakerHolds(q)
<1> DEFINE b == [entry |-> Entry(p), events |-> trips]
           c == ChargeWork(b, p, m, ok)
           touched == Append(Without(recent, p), p)
           idle == Kept(touched)
           noted == [q \in Pbis |-> IF q = p THEN c.entry ELSE Entry(q)]
<1>1. recent \in Seq(Pbis) /\ IsInjective(recent) /\ TripsAreSound(trips)
  BY DEF BreakerInv
<1>2. /\ touched \in Seq(Pbis) /\ IsInjective(touched) /\ ToSet(touched) = ToSet(recent) \cup {p}
      /\ Len(touched) = IF p \in ToSet(recent) THEN Len(recent) ELSE Len(recent) + 1
  BY <1>1, TouchedIs
<1>3. Len(touched) > 0
  <2>1. p \in ToSet(touched) /\ Len(touched) \in Nat /\ DOMAIN touched = 1 .. Len(touched)
    BY <1>2, InToSet
  <2>2. \E i \in DOMAIN touched : touched[i] = p
    BY <1>2, <2>1, InToSet
  <2> QED
    BY <2>1, <2>2
<1>4. /\ idle \in Seq(Pbis) /\ IsInjective(idle) /\ ToSet(idle) \subseteq ToSet(touched)
      /\ Len(idle) <= MaxEntries
  BY <1>2, <1>3, KeptIs
<1>5. Entry(p) \in PbiRecord /\ EntryIsSound(Entry(p)) /\ ~Entry(p).tripped
  BY EntryIs DEF RecordWorkerActivity, EntryIsSound
<1>6. IsSheet(b) /\ ~b.entry.tripped /\ m \in Nat
  BY <1>1, <1>5, BreakerFacts DEF IsSheet
<1>7. b.entry = Entry(p) /\ b.events = trips
  OBVIOUS
<1>8. Track(noted, idle) /\ trips' = c.events
  BY DEF RecordWorkerActivity
<1> HIDE DEF b
<1>9. /\ IsSheet(c)
      /\ Len(trips) < MaxEvents =>
            \/ c.entry.tripped
            \/ /\ c.entry.minutes < MaxMinutes
               /\ c.entry.failed # Entry(p).failed => c.entry.failed < MaxFailed
  BY <1>6, <1>7, ChargeWorkIs
<1> HIDE DEF c, idle, touched
<1>10. ToSet(idle) \subseteq Pbis
  BY <1>4, InToSet
<1>11. /\ \A q \in ToSet(idle) : q = p => noted[q] = c.entry
       /\ \A q \in ToSet(idle) : q # p => noted[q] = Entry(q)
  BY <1>10
<1> HIDE DEF noted
<1>12. /\ recent' = idle /\ DOMAIN pbiState' = ToSet(idle)
       /\ \A q \in ToSet(idle) : pbiState'[q] = noted[q]
  BY <1>8, TrackIs
<1>13. \A q \in ToSet(idle) : EntryIsSound(pbiState'[q])
  <2>1. EntryIsSound(c.entry)
    BY <1>9 DEF IsSheet
  <2> QED
    BY <1>10, <1>11, <1>12, <2>1, EntryIs
<1>14. TripsAreSound(trips')
  BY <1>8, <1>9 DEF IsSheet
<1>15. BreakerInv'
  BY <1>4, <1>12, <1>13, <1>14 DEF BreakerInv
<1>16. ASSUME NEW q \in DOMAIN pbiState' PROVE BreakerHolds(q)
  <2>1. CASE q = p
    <3>1. pbiState'[q] = c.entry /\ ~IsTripped(p)
      BY <1>5, <1>11, <1>12, <2>1, EntryIs
    <3> QED
      BY <1>9, <2>1, <3>1 DEF BreakerHolds
  <2>2. CASE q # p
    <3>1. pbiState'[q] = Entry(q)
      BY <1>11, <1>12, <2>2
    <3> QED
      BY <3>1 DEF BreakerHolds
  <2> QED
    BY <2>1, <2>2
<1> QED
  BY <1>15, <1>16

LEMMA ResetIs ==
    ASSUME BreakerInv, NEW p \in Pbis, Reset(p)
    PROVE  BreakerInv' /\ \A q \in DOMAIN pbiState' : BreakerHolds(q)
<1>1. /\ recent \in Seq(Pbis) /\ IsInjective(recent) /\ TripsAreSound(trips)
      /\ DOMAIN pbiState = ToSet(recent) /\ Len(recent) <= MaxEntries
  BY DEF BreakerInv
<1>2. TripsAreSound(trips')
  <2> DEFINE S == {n \in DOMAIN trips : trips[n].pbi # p}
  <2>1. trips' = Remaining(trips, S)
    BY DEF Reset
  <2>2. trips \in Seq(TripEvent) /\ Len(trips) <= MaxEvents /\ S \in SUBSET (DOMAIN trips)
    BY <1>1 DEF TripsAreSound
  <2> HIDE DEF S
  <2>3. Remaining(trips, S) \in Seq(TripEvent) /\ Len(Remaining(trips, S)) <= Len(trips)
    BY <2>2, RemainingIs
  <2>4. Len(Remaining(trips, S)) \in Nat /\ Len(trips) \in Nat /\ MaxEvents \in Nat
    BY <2>2, <2>3, BreakerFacts
  <2> QED
    BY <2>1, <2>2, <2>3, <2>4 DEF TripsAreSound
<1>3. CASE p \notin DOMAIN pbiState
  <2>1. UNCHANGED <<pbiState, recent>>
    BY <1>3 DEF Reset
  <2>2. BreakerInv'
    BY <1>2, <2>1 DEF BreakerInv
  <2>3. \A q \in DOMAIN pbiState' : pbiState'[q] = Entry(q)
    BY <2>1 DEF Entry
  <2> QED
    BY <2>2, <2>3 DEF BreakerHolds
<1>4. CASE p \in DOMAIN pbiState
  <2> DEFINE touched == Append(Without(recent, p), p)
             noted == [pbiState EXCEPT ![p] = Fresh]
  <2>1. /\ touched \in Seq(Pbis) /\ IsInjective(touched) /\ ToSet(touched) = ToSet(recent)
        /\ Len(touched) = Len(recent)
    <3>1. /\ touched \in Seq(Pbis) /\ IsInjective(touched)
          /\ ToSet(touched) = ToSet(recent) \cup {p}
          /\ Len(touched) = IF p \in ToSet(recent) THEN Len(recent) ELSE Len(recent) + 1
      BY <1>1, TouchedIs
    <3>2. p \in ToSet(recent)
      BY <1>1, <1>4
    <3> HIDE DEF touched
    <3> QED
      BY <3>1, <3>2
  <2>2. Track(noted, touched)
    BY <1>4 DEF Reset
  <2> HIDE DEF touched
  <2>3. /\ recent' = touched /\ DOMAIN pbiState' = ToSet(recent)
        /\ \A q \in ToSet(recent) : pbiState'[q] = noted[q]
    BY <2>1, <2>2, TrackIs
  <2>4. \A q \in ToSet(recent) : pbiState'[q] = IF q = p THEN Fresh ELSE pbiState[q]
    BY <1>1, <2>3
  <2>5. BreakerInv'
    BY <1>1, <1>2, <2>1, <2>3, <2>4, FreshIsSound DEF BreakerInv
  <2>6. ASSUME NEW q \in DOMAIN pbiState' PROVE BreakerHolds(q)
    <3>1. pbiState'[q] = Entry(q) \/ pbiState'[q] = Fresh
      BY <1>1, <2>3, <2>4 DEF Entry
    <3>2. Fresh.minutes < MaxMinutes /\ Fresh.failed < MaxFailed
      BY BreakerFacts DEF Fresh
    <3> QED
      BY <3>1, <3>2 DEF BreakerHolds
  <2> QED
    BY <2>5, <2>6
<1> QED
  BY <1>3, <1>4

LEMMA CleanupIs ==
    ASSUME BreakerInv, NEW n \in 0 .. Len(recent), CleanupStaleStates(n)
    PROVE  BreakerInv' /\ \A q \in DOMAIN pbiState' : BreakerHolds(q)
<1>1. /\ recent \in Seq(Pbis) /\ IsInjective(recent) /\ TripsAreSound(trips)
      /\ DOMAIN pbiState = ToSet(recent) /\ Len(recent) <= MaxEntries
  BY DEF BreakerInv
<1>2. PICK S \in SUBSET (DOMAIN recent) : Track(pbiState, Remaining(recent, S))
  BY DEF CleanupStaleStates
<1>3. UNCHANGED trips
  BY DEF CleanupStaleStates
<1> DEFINE left == Remaining(recent, S)
<1>4. /\ left \in Seq(Pbis) /\ Len(left) <= Len(recent) /\ ToSet(left) \subseteq ToSet(recent)
      /\ IsInjective(left)
  BY <1>1, RemainingIs
<1>5. Len(left) <= MaxEntries
  <2>1. Len(left) \in Nat /\ Len(recent) \in Nat /\ MaxEntries \in Nat
    BY <1>1, <1>4, InToSet, BreakerFacts
  <2> QED
    BY <1>1, <1>4, <2>1
<1>6. Track(pbiState, left)
  BY <1>2
<1> HIDE DEF left
<1>7. /\ recent' = left /\ DOMAIN pbiState' = ToSet(left)
      /\ \A q \in ToSet(left) : pbiState'[q] = pbiState[q]
  BY <1>6, TrackIs
<1>8. BreakerInv'
  BY <1>1, <1>3, <1>4, <1>5, <1>7 DEF BreakerInv
<1>9. \A q \in DOMAIN pbiState' : pbiState'[q] = Entry(q)
  BY <1>1, <1>4, <1>7 DEF Entry
<1> QED
  BY <1>8, <1>9 DEF BreakerHolds

LEMMA NothingTracked == ASSUME pbiState = [p \in {} |-> Fresh], recent = <<>>, trips = <<>>
                        PROVE  BreakerInv
<1>1. recent \in Seq(Pbis) /\ Len(recent) = 0 /\ DOMAIN recent = {}
  OBVIOUS
<1>2. ToSet(recent) = {} /\ DOMAIN pbiState = {}
  BY <1>1 DEF ToSet
<1>3. trips \in Seq(TripEvent) /\ Len(trips) = 0
  OBVIOUS
<1> QED
  BY <1>1, <1>2, <1>3, BreakerFacts DEF BreakerInv, IsInjective, TripsAreSound

LEMMA BreakerBegins == ASSUME BreakerInit PROVE BreakerInv
BY NothingTracked DEF BreakerInit

LEMMA DestroyIs ==
    ASSUME Destroy
    PROVE  BreakerInv' /\ \A q \in DOMAIN pbiState' : BreakerHolds(q)
<1>1. (pbiState = [p \in {} |-> Fresh] /\ recent = <<>> /\ trips = <<>> => BreakerInv)'
  BY NothingTracked, PTL
<1>2. BreakerInv'
  BY <1>1 DEF Destroy
<1>3. DOMAIN pbiState' = {}
  BY DEF Destroy
<1> QED
  BY <1>2, <1>3

LEMMA BreakerStep ==
    ASSUME BreakerInv, BreakerNext
    PROVE  BreakerInv' /\ \A q \in DOMAIN pbiState' : BreakerHolds(q)
BY ActivityIs, ResetIs, CleanupIs, DestroyIs DEF BreakerNext

LEMMA BreakerMoves ==
    ASSUME [ServicesNext]_servicesVars
    PROVE  BreakerNext \/ UNCHANGED breakerVars
<1>1. CASE UNCHANGED servicesVars
  BY <1>1 DEF servicesVars
<1>2. CASE part = "coding" /\ CodingNext
  <2>1. Pbi \in Pbis
    BY CodingAssumption
  <2>2. ASSUME NEW m \in Minutes, NEW ok \in BOOLEAN, RecordActivity(m, ok)
        PROVE  BreakerNext \/ UNCHANGED breakerVars
    BY <2>1, <2>2 DEF RecordActivity, BreakerNext
  <2> QED
    BY <1>2, <2>2 DEF CodingNext, NextIteration, Author, AuthoringFails, Test, Finish, CommitAndPush
<1>3. CASE part = "breaker" /\ BreakerNext
  BY <1>3
<1>4. CASE part \notin {"breaker", "coding"} /\ ServicesNext
  BY <1>4 DEF ServicesNext, MovedBy
<1> QED
  BY <1>1, <1>2, <1>3, <1>4 DEF ServicesNext

\* Whatever is charged, evicted, reset, expires or is destroyed, the table of the
\* breaker and its list of trips stay within their limits and agree.
THEOREM BreakerKeepsItsInvariant == ServicesSpec => []BreakerInv
<1>1. ServicesInit => BreakerInv
  BY BreakerBegins DEF ServicesInit, CodingInit
<1>2. BreakerInv /\ [ServicesNext]_servicesVars => BreakerInv'
  <2>1. BreakerInv /\ UNCHANGED breakerVars => BreakerInv'
    BY DEF breakerVars, BreakerInv
  <2> QED
    BY <2>1, BreakerMoves, BreakerStep
<1> QED
  BY <1>1, <1>2, PTL DEF ServicesSpec

\* For any limits, sizes of the table and minutes charged: an activity that takes
\* its PBI to a limit trips it, while the list of trips has room, and a trip
\* lasts until its PBI is evicted, expires or is reset.
THEOREM BreakerStopsForGood == ServicesSpec => BreakerStops
<1> DEFINE AllHold == \A p \in DOMAIN pbiState' : BreakerHolds(p)
<1>1. BreakerInv /\ [ServicesNext]_servicesVars => [AllHold]_breakerVars
  BY BreakerMoves, BreakerStep
<1>2. ServicesSpec => [][AllHold]_breakerVars
  BY <1>1, BreakerKeepsItsInvariant, PTL DEF ServicesSpec
<1>3. BreakerStops <=> [][AllHold]_breakerVars
  BY DEF BreakerStops, BreakerHolds
<1> QED
  BY <1>2, <1>3
==============================================================================
