-------------------------- MODULE KademliaDataProofs --------------------------
(***************************************************************************)
(* Lemmas about the data of a DHT node: what a fold over a finite set      *)
(* computes, the sorted lists of a store and what announces and ExpireKeys *)
(* make of it, and the id a refresh of a bucket asks for.                  *)
(***************************************************************************)
EXTENDS KStore, RoutingTable, FiniteSetTheorems, SequenceTheorems, WellFoundedInduction, TLAPS

-------------------------------------------------------------------------------
(* Folds. *)

\* A set of numbers has a least one.
LEMMA Least ==
  ASSUME NEW T \in SUBSET Nat, T # {}
  PROVE  \E i \in T : \A j \in T : i <= j
<1> DEFINE R == OpToRel(<, Nat)
<1>1. IsWellFoundedOn(R, Nat)
  BY NatLessThanWellFounded
<1>2. \A i, j \in Nat : <<i, j>> \in R <=> i < j
  BY DEF OpToRel
<1> HIDE DEF R
<1>3. PICK i \in T : \A j \in T : ~(<<j, i>> \in R)
  BY <1>1, WFMin
<1>4. ASSUME NEW j \in T PROVE i <= j
  <2>1. i \in Nat /\ j \in Nat
    OBVIOUS
  <2>2. ~(j < i)
    BY <1>2, <1>3, <2>1
  <2> QED
    BY <2>1, <2>2
<1> QED
  BY <1>4

\* The largest of some numbers from a range, as Max chooses it.
LEMMA MaxOfRange ==
  ASSUME NEW n \in Nat, NEW T \in SUBSET (0 .. n), T # {}
  PROVE  Max(T) \in T /\ \A x \in T : Max(T) >= x
<1> DEFINE U == {n - x : x \in T}
<1>1. U \in SUBSET Nat /\ U # {}
  <2>1. \A x \in T : n - x \in Nat
    OBVIOUS
  <2> QED
    BY <2>1
<1>2. PICK u \in U : \A v \in U : u <= v
  BY <1>1, Least
<1>3. PICK x \in T : u = n - x
  OBVIOUS
<1>4. \A y \in T : n - y \in U
  OBVIOUS
<1> HIDE DEF U
<1>5. ASSUME NEW y \in T PROVE x >= y
  <2>1. n - x <= n - y
    BY <1>2, <1>3, <1>4
  <2>2. x \in Nat /\ y \in Nat
    OBVIOUS
  <2> QED
    BY <2>1, <2>2
<1> QED
  BY <1>5 DEF Max

\* A set without one of its elements is smaller.
LEMMA OneFewer ==
  ASSUME NEW S, IsFiniteSet(S), NEW s \in SUBSET S, NEW x \in s
  PROVE  /\ s \ {x} \in SUBSET S /\ Cardinality(s) \in Nat \ {0}
         /\ Cardinality(s \ {x}) \in Nat /\ Cardinality(s \ {x}) = Cardinality(s) - 1
<1>1. IsFiniteSet(s)
  BY FS_Subset
<1>2. Cardinality(s) \in Nat /\ Cardinality(s \ {x}) = Cardinality(s) - 1
  BY <1>1, FS_CardinalityType, FS_RemoveElement
<1>3. IsFiniteSet(s \ {x}) /\ Cardinality(s \ {x}) \in Nat
  BY <1>1, FS_Subset, FS_CardinalityType
<1>4. Cardinality(s) # 0
  BY <1>2, <1>3
<1> QED
  BY <1>2, <1>3, <1>4

\* What holds of the empty set, and of a set when it holds of the set without
\* the element that a fold takes first, holds of all.
LEMMA SetInduction ==
  ASSUME NEW S, IsFiniteSet(S), NEW ch, \A s \in SUBSET S : s # {} => ch[s] \in s,
         NEW G, {} \in G, \A s \in SUBSET S : s # {} /\ s \ {ch[s]} \in G => s \in G
  PROVE  \A s \in SUBSET S : s \in G
<1> DEFINE T == {n \in Nat : \E s \in SUBSET S : s \notin G /\ Cardinality(s) = n}
<1>1. CASE T = {}
  <2>1. \A s \in SUBSET S : Cardinality(s) \in Nat
    BY FS_Subset, FS_CardinalityType
  <2> QED
    BY <1>1, <2>1
<1>2. CASE T # {}
  <2>1. PICK n \in T : \A j \in T : n <= j
    <3> HIDE DEF T
    <3>1. T \in SUBSET Nat
      BY DEF T
    <3> QED
      BY <1>2, <3>1, Least
  <2>2. PICK s \in SUBSET S : s \notin G /\ Cardinality(s) = n
    OBVIOUS
  <2>3. s # {} /\ ch[s] \in s
    BY <2>2
  <2> DEFINE t == s \ {ch[s]}
  <2>4. t \in SUBSET S /\ Cardinality(t) \in Nat /\ n \in Nat /\ Cardinality(t) = n - 1
    BY <2>2, <2>3, OneFewer
  <2>5. t \notin G
    BY <2>2, <2>3
  <2>6. Cardinality(t) \in T
    BY <2>4, <2>5
  <2> HIDE DEF T, t
  <2> QED
    BY <2>1, <2>4, <2>6
<1> QED
  BY <1>1, <1>2

\* g is what a fold over the subsets of S computes: F takes the element that ch
\* chooses, and what comes of the others.
Folds(g, S, base, F, ch) ==
  \A s \in SUBSET S : g[s] = IF s = {} THEN base ELSE F[ch[s]][g[s \ {ch[s]}]]

\* What a fold over a finite set computes, step by step, exists.
LEMMA FoldExists ==
  ASSUME NEW S, IsFiniteSet(S), NEW A, NEW base \in A,
         NEW F, \A x \in S, a \in A : F[x][a] \in A,
         NEW ch, \A s \in SUBSET S : s # {} => ch[s] \in s
  PROVE  \E g \in [SUBSET S -> A] : Folds(g, S, base, F, ch)
<1> DEFINE Rule(g, s) == g[s] = IF s = {} THEN base ELSE F[ch[s]][g[s \ {ch[s]}]]
           Good(g, n) == \A s \in SUBSET S : Cardinality(s) <= n => Rule(g, s)
           T == {n \in Nat : \A g \in [SUBSET S -> A] : ~Good(g, n)}
<1>0. \A s \in SUBSET S : Cardinality(s) \in Nat /\ (Cardinality(s) = 0 => s = {})
  BY FS_Subset, FS_CardinalityType, FS_EmptySet
<1>e. Cardinality({}) = 0
  BY FS_EmptySet
<1>1. 0 \notin T
  <2> DEFINE g == [s \in SUBSET S |-> base]
  <2>1. g \in [SUBSET S -> A]
    OBVIOUS
  <2>2. Good(g, 0)
    BY <1>0
  <2> HIDE DEF g, Good
  <2> QED
    BY <2>1, <2>2
<1>2. ASSUME NEW n \in T, \A j \in T : n <= j PROVE FALSE
  <2>1. n \in Nat \ {0} /\ n - 1 \in Nat /\ n - 1 \notin T
    <3> HIDE DEF Good
    <3>1. n \in Nat /\ n # 0
      BY <1>1
    <3> HIDE DEF T
    <3>2. ~(n <= n - 1) /\ n - 1 \in Nat
      BY <3>1
    <3> QED
      BY <1>2, <3>1, <3>2
  <2>2. PICK g \in [SUBSET S -> A] : Good(g, n - 1)
    <3> HIDE DEF Good
    <3> QED
      BY <2>1
  <2> DEFINE h == [s \in SUBSET S |-> IF Cardinality(s) <= n - 1 THEN g[s]
                                      ELSE F[ch[s]][g[s \ {ch[s]}]]]
  <2>3. \A s \in SUBSET S : Cardinality(s) > n - 1 => s # {} /\ ch[s] \in s /\ s \ {ch[s]} \in SUBSET S
    <3>1. ASSUME NEW s \in SUBSET S, Cardinality(s) > n - 1 PROVE s # {}
      <4>1. Cardinality(s) # 0
        BY <2>1, <3>1
      <4> QED
        BY <1>e, <4>1
    <3> QED
      BY <3>1
  <2>4. h \in [SUBSET S -> A]
    BY <2>3, <1>0, <2>1
  <2>5. ASSUME NEW s \in SUBSET S, Cardinality(s) <= n PROVE Rule(h, s)
    <3>1. CASE s = {}
      <4>1. Cardinality(s) = 0
        BY <3>1, FS_EmptySet
      <4>2. h[s] = g[s] /\ Rule(g, s)
        <5>1. Cardinality(s) <= n - 1
          BY <2>1, <4>1
        <5> QED
          BY <2>2, <5>1
      <4> QED
        BY <3>1, <4>2
    <3>2. CASE s # {}
      <4> DEFINE t == s \ {ch[s]}
      <4>1. /\ t \in SUBSET S /\ Cardinality(s) \in Nat
            /\ Cardinality(t) \in Nat /\ Cardinality(t) = Cardinality(s) - 1
        BY <3>2, OneFewer
      <4>2. h[t] = g[t]
        <5>1. Cardinality(t) <= n - 1
          BY <2>1, <2>5, <4>1
        <5> HIDE DEF t
        <5> QED
          BY <4>1, <5>1
      <4>3. h[s] = F[ch[s]][g[t]]
        <5>1. CASE Cardinality(s) <= n - 1
          <6>1. Rule(g, s)
            BY <2>2, <5>1
          <6> QED
            BY <3>2, <5>1, <6>1
        <5>2. CASE ~(Cardinality(s) <= n - 1)
          BY <5>2
        <5> QED
          BY <5>1, <5>2
      <4> HIDE DEF h
      <4> QED
        BY <3>2, <4>2, <4>3
    <3> QED
      BY <3>1, <3>2
  <2>6. Good(h, n)
    <3> HIDE DEF h, Rule
    <3> QED
      BY <2>5
  <2> HIDE DEF h, Good
  <2> QED
    BY <2>4, <2>6
<1>3. T = {}
  <2>1. T \in SUBSET Nat
    OBVIOUS
  <2> HIDE DEF T
  <2> QED
    BY <1>2, <2>1, Least
<1>4. Cardinality(S) \in Nat
  BY FS_CardinalityType
<1>5. PICK g \in [SUBSET S -> A] : Good(g, Cardinality(S))
  <2> HIDE DEF Good
  <2> QED
    BY <1>3, <1>4
<1>6. \A s \in SUBSET S : Cardinality(s) <= Cardinality(S)
  BY FS_Subset
<1>7. \A s \in SUBSET S : Rule(g, s)
  BY <1>5, <1>6
<1> QED
  BY <1>7 DEF Folds

-------------------------------------------------------------------------------
(* The sorted lists of a store. *)

\* Values are numbers.
LEMMA ValuesInList ==
  /\ Values \subseteq Int
  /\ \A l \in Seq(Values) : Len(l) \in Nat /\ \A k \in 1 .. Len(l) : l[k] \in Values /\ l[k] \in Int
<1>1. Values \subseteq Int
  BY KStoreAssumption
<1>2. ASSUME NEW l \in Seq(Values) PROVE Len(l) \in Nat /\ \A k \in 1 .. Len(l) : l[k] \in Values
  OBVIOUS
<1> QED
  BY <1>1, <1>2

\* In a sorted list what comes later is larger.
LEMMA AscendingPairs ==
  ASSUME NEW l \in Seq(Values), Ascending(l), NEW i \in 1 .. Len(l), NEW j \in 1 .. Len(l), i < j
  PROVE  l[i] < l[j]
<1>0. Values \subseteq Int /\ Len(l) \in Nat /\ \A k \in 1 .. Len(l) : l[k] \in Int
  BY ValuesInList
<1> DEFINE T == {k \in Nat : k \in i + 1 .. Len(l) /\ ~(l[i] < l[k])}
<1>1. CASE T = {}
  BY <1>1
<1>2. CASE T # {}
  <2>1. PICK k \in T : \A m \in T : k <= m
    <3> HIDE DEF T
    <3>1. T \in SUBSET Nat
      BY DEF T
    <3> QED
      BY <1>2, <3>1, Least
  <2>2. k - 1 \in 1 .. Len(l) - 1 /\ l[k - 1] < l[k] /\ k \in Nat
    BY DEF Ascending
  <2>3. CASE k - 1 = i
    BY <2>2, <2>3
  <2>4. CASE k - 1 # i
    <3>1. k - 1 \notin T
      <4>1. ~(k <= k - 1)
        BY <2>2
      <4> HIDE DEF T
      <4> QED
        BY <2>1, <4>1
    <3>2. l[i] < l[k - 1]
      BY <2>2, <2>4, <3>1
    <3>3. l[i] \in Int /\ l[k - 1] \in Int /\ l[k] \in Int
      BY <1>0, <2>2
    <3> QED
      BY <2>2, <3>2, <3>3
  <2> QED
    BY <2>3, <2>4
<1> QED
  BY <1>1, <1>2

\* sort.SearchStrings: the place where a value belongs.
LEMMA SearchPlace ==
  ASSUME NEW l \in Seq(Values), Ascending(l), NEW v \in Values
  PROVE  LET s == SearchStrings(l, v) IN
         /\ s \in 1 .. Len(l) + 1
         /\ \A i \in 1 .. s - 1 : l[i] < v
         /\ \A i \in s .. Len(l) : l[i] >= v
<1>0. Values \subseteq Int /\ Len(l) \in Nat /\ v \in Int /\ \A k \in 1 .. Len(l) : l[k] \in Int
  BY ValuesInList
<1> DEFINE T == {k \in Nat : k \in 1 .. Len(l) + 1 /\ (k = Len(l) + 1 \/ l[k] >= v)}
<1>1. PICK s \in T : \A m \in T : s <= m
  <2>1. T \in SUBSET Nat /\ Len(l) + 1 \in T
    BY <1>0
  <2> HIDE DEF T
  <2> QED
    BY <2>1, Least
<1>2. s \in 1 .. Len(l) + 1 /\ s - 1 \in Nat
  BY <1>0
<1>3. ASSUME NEW i \in 1 .. s - 1 PROVE l[i] < v
  <2>1. i \in 1 .. Len(l) /\ ~(s <= i)
    BY <1>0, <1>2
  <2>2. i \notin T
    <3> HIDE DEF T
    <3> QED
      BY <1>1, <2>1
  <2> QED
    BY <1>0, <2>1, <2>2
<1>4. ASSUME NEW i \in s .. Len(l) PROVE l[i] >= v
  <2>1. i \in 1 .. Len(l) /\ s \in 1 .. Len(l) /\ l[s] >= v
    BY <1>0, <1>2
  <2>2. CASE i = s
    BY <2>1, <2>2
  <2>3. CASE i # s
    <3>1. l[s] < l[i]
      BY <1>2, <2>1, <2>3, AscendingPairs
    <3> QED
      BY <1>0, <2>1, <3>1
  <2> QED
    BY <2>2, <2>3
<1> HIDE DEF T
<1>5. {i \in DOMAIN l : l[i] < v} = 1 .. s - 1
  <2>1. DOMAIN l = 1 .. Len(l)
    OBVIOUS
  <2>2. ASSUME NEW i \in 1 .. Len(l), l[i] < v PROVE i \in 1 .. s - 1
    <3>1. CASE i >= s
      <4>1. l[i] >= v
        BY <1>2, <1>4, <3>1
      <4> QED
        BY <1>0, <2>2, <4>1
    <3>2. CASE i < s
      BY <1>2, <3>2
    <3> QED
      BY <1>2, <3>1, <3>2
  <2>3. 1 .. s - 1 \subseteq 1 .. Len(l)
    BY <1>0, <1>2
  <2> QED
    BY <1>3, <2>1, <2>2, <2>3
<1>6. Cardinality(1 .. s - 1) = s - 1
  BY <1>2, FS_Interval
<1>7. SearchStrings(l, v) = s
  <2>1. SearchStrings(l, v) = 1 + Cardinality({i \in DOMAIN l : l[i] < v})
    BY DEF SearchStrings
  <2>2. SearchStrings(l, v) = 1 + (s - 1)
    BY <1>5, <1>6, <2>1, Zenon
  <2> QED
    BY <1>2, <2>2
<1> QED
  BY <1>2, <1>3, <1>4, <1>7

\* It is found when it is there.
LEMMA FoundWhenThere ==
  ASSUME NEW l \in Seq(Values), Ascending(l), NEW v \in Values
  PROVE  Found(l, v) <=> \E i \in 1 .. Len(l) : l[i] = v
<1> DEFINE s == SearchStrings(l, v)
<1>1. /\ s \in 1 .. Len(l) + 1
      /\ \A i \in 1 .. s - 1 : l[i] < v
      /\ \A i \in s .. Len(l) : l[i] >= v
  BY SearchPlace
<1>2. Found(l, v) <=> s <= Len(l) /\ l[s] = v
  BY DEF Found
<1> HIDE DEF s
<1>3. ASSUME NEW i \in 1 .. Len(l), l[i] = v PROVE Found(l, v)
  <2>0. v \in Int /\ Len(l) \in Nat /\ \A k \in 1 .. Len(l) : l[k] \in Int
    BY ValuesInList
  <2>1. i >= s
    <3>1. CASE i < s
      BY <1>1, <1>3, <2>0, <3>1
    <3> QED
      BY <1>1, <3>1
  <2>2. CASE i = s
    BY <1>2, <1>3, <2>0, <2>2
  <2>3. CASE i # s
    <3>1. s \in 1 .. Len(l) /\ s < i
      BY <1>1, <2>0, <2>1, <2>3
    <3>2. l[s] < l[i] /\ l[s] >= v
      BY <1>1, <3>1, AscendingPairs
    <3> QED
      BY <1>3, <2>0, <3>1, <3>2
  <2> QED
    BY <2>2, <2>3
<1>4. Found(l, v) => \E i \in 1 .. Len(l) : l[i] = v
  BY <1>1, <1>2
<1> QED
  BY <1>3, <1>4

\* An insertion keeps the list sorted and adds the value.
LEMMA InsertedSorted ==
  ASSUME NEW l \in Seq(Values), Ascending(l), NEW v \in Values
  PROVE  /\ Inserted(l, v) \in Seq(Values) /\ Ascending(Inserted(l, v))
         /\ Range(Inserted(l, v)) = Range(l) \cup {v}
<1>1. CASE Found(l, v)
  <2>1. Inserted(l, v) = l
    BY <1>1 DEF Inserted
  <2>2. v \in Range(l)
    BY <1>1, FoundWhenThere DEF Range
  <2> QED
    BY <2>1, <2>2
<1>2. CASE ~Found(l, v)
  <2> DEFINE s == SearchStrings(l, v)
             m == InsertAt(l, s, v)
             new == [i \in 1 .. Len(l) + 1 |-> IF i < s THEN l[i] ELSE IF i = s THEN v ELSE l[i - 1]]
  <2>1. Inserted(l, v) = m
    BY <1>2 DEF Inserted
  <2>2. /\ s \in 1 .. Len(l) + 1
        /\ \A i \in 1 .. s - 1 : l[i] < v
        /\ \A i \in s .. Len(l) : l[i] >= v
    BY SearchPlace
  <2>3. m = SubSeq(l, 1, s - 1) \o <<v>> \o SubSeq(l, s, Len(l))
    BY DEF InsertAt
  <2> HIDE DEF s, m
  <2>0. v \in Int /\ Len(l) \in Nat /\ \A k \in 1 .. Len(l) : l[k] \in Int /\ l[k] \in Values
    BY ValuesInList
  <2>4. /\ SubSeq(l, 1, s - 1) \in Seq(Values) /\ Len(SubSeq(l, 1, s - 1)) = s - 1
        /\ \A i \in 1 .. s - 1 : SubSeq(l, 1, s - 1)[i] = l[i]
    BY <2>0, <2>2
  <2>5. /\ SubSeq(l, s, Len(l)) \in Seq(Values) /\ Len(SubSeq(l, s, Len(l))) = Len(l) - s + 1
        /\ \A i \in 1 .. Len(l) - s + 1 : SubSeq(l, s, Len(l))[i] = l[s + i - 1]
    BY <2>0, <2>2
  <2>6. m \in Seq(Values) /\ Len(m) = Len(l) + 1
    <3> DEFINE x == SubSeq(l, 1, s - 1)  z == SubSeq(l, s, Len(l))
    <3> HIDE DEF x, z
    <3>1. m = x \o <<v>> \o z /\ x \in Seq(Values) /\ z \in Seq(Values)
      BY <2>3, <2>4, <2>5 DEF x, z
    <3>2. Len(x) = s - 1 /\ Len(z) = Len(l) - s + 1
      BY <2>4, <2>5 DEF x, z
    <3> QED
      BY <2>0, <2>2, <3>1, <3>2
  <2>7. \A i \in 1 .. Len(l) + 1 : m[i] = IF i < s THEN l[i] ELSE IF i = s THEN v ELSE l[i - 1]
    <3> DEFINE x == SubSeq(l, 1, s - 1)  z == SubSeq(l, s, Len(l))
    <3> HIDE DEF x, z
    <3>1. m = x \o <<v>> \o z /\ x \in Seq(Values) /\ z \in Seq(Values)
      BY <2>3, <2>4, <2>5 DEF x, z
    <3>2. Len(x) = s - 1 /\ Len(z) = Len(l) - s + 1
      BY <2>4, <2>5 DEF x, z
    <3>3. /\ \A i \in 1 .. s - 1 : x[i] = l[i]
          /\ \A i \in 1 .. Len(l) - s + 1 : z[i] = l[s + i - 1]
      BY <2>4, <2>5 DEF x, z
    <3>4. \A i \in 1 .. Len(l) + 1 : m[i] = IF i < s THEN x[i] ELSE IF i = s THEN v ELSE z[i - s]
      BY <2>0, <2>2, <3>1, <3>2
    <3>5. ASSUME NEW i \in 1 .. Len(l) + 1, i > s PROVE z[i - s] = l[i - 1]
      <4>1. i - s \in 1 .. Len(l) - s + 1 /\ s + (i - s) - 1 = i - 1
        BY <2>0, <2>2, <3>5
      <4> QED
        BY <3>3, <4>1
    <3> QED
      BY <2>2, <3>3, <3>4, <3>5
  <2>8. v \notin Range(l)
    BY <1>2, FoundWhenThere DEF Range
  <2>9. Ascending(m)
    <3>1. ASSUME NEW i \in 1 .. Len(m) - 1 PROVE m[i] < m[i + 1]
      <4>1. i \in 1 .. Len(l) /\ i + 1 \in 1 .. Len(l) + 1
        BY <2>0, <2>6
      <4>2. CASE i + 1 < s
        <5>1. i \in 1 .. Len(l) - 1 /\ l[i] < l[i + 1]
          BY <2>0, <2>2, <4>1, <4>2 DEF Ascending
        <5> QED
          BY <2>2, <2>7, <4>1, <4>2, <5>1
      <4>3. CASE i + 1 = s
        BY <2>2, <2>7, <4>1, <4>3
      <4>4. CASE i = s
        <5>1. l[i] >= v /\ l[i] # v
          BY <2>0, <2>2, <2>8, <4>1, <4>4 DEF Range
        <5>2. m[i] = v /\ m[i + 1] = l[i]
          BY <2>2, <2>7, <4>1, <4>4
        <5> QED
          BY <2>0, <4>1, <5>1, <5>2
      <4>5. CASE i > s
        <5>1. i - 1 \in 1 .. Len(l) - 1 /\ l[i - 1] < l[i]
          BY <2>0, <2>2, <4>1, <4>5 DEF Ascending
        <5>2. m[i] = l[i - 1] /\ m[i + 1] = l[i]
          BY <2>2, <2>7, <4>1, <4>5
        <5> QED
          BY <5>1, <5>2
      <4> QED
        BY <2>2, <4>1, <4>2, <4>3, <4>4, <4>5
    <3> QED
      BY <3>1 DEF Ascending
  <2>10. Range(m) = Range(l) \cup {v}
    <3>1. DOMAIN m = 1 .. Len(l) + 1 /\ DOMAIN l = 1 .. Len(l)
      BY <2>6
    <3>2. ASSUME NEW i \in 1 .. Len(l) PROVE l[i] \in Range(m)
      <4>1. CASE i < s
        BY SMTT(30), <2>0, <2>2, <2>7, <3>1, <4>1 DEF Range
      <4>2. CASE i >= s
        <5>1. i + 1 \in DOMAIN m /\ m[i + 1] = l[i]
          BY <2>0, <2>2, <2>7, <3>1, <4>2
        <5> QED
          BY <5>1 DEF Range
      <4> QED
        BY <2>2, <4>1, <4>2
    <3>3. v \in Range(m)
      BY <2>0, <2>2, <2>7, <3>1 DEF Range
    <3>4. ASSUME NEW i \in 1 .. Len(l) + 1 PROVE m[i] \in Range(l) \cup {v}
      <4>1. CASE i < s
        BY <2>0, <2>2, <2>7, <3>1, <4>1 DEF Range
      <4>2. CASE i = s
        BY <2>7, <4>2
      <4>3. CASE i > s
        <5>1. i - 1 \in 1 .. Len(l) /\ m[i] = l[i - 1]
          BY <2>0, <2>2, <2>7, <4>3
        <5> QED
          BY <3>1, <5>1 DEF Range
      <4> QED
        BY <2>2, <4>1, <4>2, <4>3
    <3> QED
      BY <3>1, <3>2, <3>3, <3>4 DEF Range
  <2> QED
    BY <2>1, <2>6, <2>9, <2>10
<1> QED
  BY <1>1, <1>2

\* A removal keeps the list sorted and takes the value out.
LEMMA RemovedSorted ==
  ASSUME NEW l \in Seq(Values), Ascending(l), NEW v \in Values, Found(l, v)
  PROVE  LET m == RemoveAt(l, SearchStrings(l, v)) IN
         m \in Seq(Values) /\ Ascending(m) /\ Range(m) = Range(l) \ {v}
<1> DEFINE s == SearchStrings(l, v)
           m == RemoveAt(l, s)
           x == SubSeq(l, 1, s - 1)
           z == SubSeq(l, s + 1, Len(l))
<1>1. s \in 1 .. Len(l) /\ l[s] = v
  <2>1. s \in 1 .. Len(l) + 1
    BY SearchPlace
  <2> QED
    BY <2>1 DEF Found
<1>2. m = x \o z
  BY DEF RemoveAt
<1> HIDE DEF s, m
<1>3. v \in Int /\ Len(l) \in Nat /\ \A k \in 1 .. Len(l) : l[k] \in Int /\ l[k] \in Values
  BY ValuesInList
<1>4. /\ x \in Seq(Values) /\ Len(x) = s - 1
      /\ \A i \in 1 .. s - 1 : x[i] = l[i]
  BY <1>1, <1>3
<1>5. /\ z \in Seq(Values) /\ Len(z) = Len(l) - s
      /\ \A i \in 1 .. Len(l) - s : z[i] = l[s + i]
  <2>1. /\ z \in Seq(Values) /\ Len(z) = Len(l) - s
        /\ \A i \in 1 .. Len(l) - s : z[i] = l[(s + 1) + i - 1]
    BY <1>1, <1>3
  <2>2. \A i \in 1 .. Len(l) - s : (s + 1) + i - 1 = s + i
    BY <1>1, <1>3
  <2> QED
    BY <2>1, <2>2
<1> HIDE DEF x, z
<1>6. m \in Seq(Values) /\ Len(m) = Len(l) - 1
  BY <1>1, <1>2, <1>3, <1>4, <1>5
<1>7. \A i \in 1 .. Len(l) - 1 : m[i] = IF i < s THEN l[i] ELSE l[i + 1]
  <2>1. \A i \in 1 .. Len(l) - 1 : m[i] = IF i < s THEN x[i] ELSE z[i - s + 1]
    BY <1>1, <1>2, <1>3, <1>4, <1>5
  <2>2. ASSUME NEW i \in 1 .. Len(l) - 1, i >= s PROVE z[i - s + 1] = l[i + 1]
    <3>1. i - s + 1 \in 1 .. Len(l) - s /\ s + (i - s + 1) = i + 1
      BY <1>1, <1>3, <2>2
    <3> QED
      BY <1>5, <3>1
  <2>3. ASSUME NEW i \in 1 .. Len(l) - 1, i < s PROVE x[i] = l[i]
    BY <1>1, <1>4, <2>3
  <2>4. ASSUME NEW i \in 1 .. Len(l) - 1 PROVE i >= s <=> ~(i < s)
    BY <1>1
  <2> QED
    BY <2>1, <2>2, <2>3, <2>4
<1>8. Ascending(m)
  <2>1. ASSUME NEW i \in 1 .. Len(m) - 1 PROVE m[i] < m[i + 1]
    <3>1. i \in 1 .. Len(l) - 2 /\ i + 1 \in 1 .. Len(l) - 1
      BY <1>3, <1>6
    <3> DEFINE j == IF i < s THEN i ELSE i + 1
               k == IF i + 1 < s THEN i + 1 ELSE i + 2
    <3>2. j \in 1 .. Len(l) /\ k \in 1 .. Len(l) /\ j < k
      BY <1>1, <1>3, <3>1
    <3>3. m[i] = l[j] /\ m[i + 1] = l[k]
      BY SMTT(30), <1>1, <1>3, <1>7, <3>1
    <3> HIDE DEF j, k
    <3> QED
      BY <3>2, <3>3, AscendingPairs
  <2> QED
    BY <2>1 DEF Ascending
<1>9. Range(m) = Range(l) \ {v}
  <2>1. DOMAIN m = 1 .. Len(l) - 1 /\ DOMAIN l = 1 .. Len(l)
    BY <1>6
  <2>2. ASSUME NEW i \in 1 .. Len(l) - 1 PROVE m[i] \in Range(l) \ {v}
    <3> DEFINE j == IF i < s THEN i ELSE i + 1
    <3>1. j \in 1 .. Len(l) /\ m[i] = l[j] /\ (j < s \/ s < j)
      BY <1>1, <1>3, <1>7
    <3> HIDE DEF j
    <3>2. l[j] # v
      <4>1. l[j] < l[s] \/ l[s] < l[j]
        BY <1>1, <3>1, AscendingPairs
      <4> QED
        BY <1>1, <1>3, <3>1, <4>1
    <3> QED
      BY <2>1, <3>1, <3>2 DEF Range
  <2>3. ASSUME NEW i \in 1 .. Len(l), l[i] # v PROVE l[i] \in Range(m)
    <3> DEFINE j == IF i < s THEN i ELSE i - 1
    <3>1. j \in 1 .. Len(l) - 1 /\ m[j] = l[i]
      BY <1>1, <1>3, <1>7, <2>3
    <3> HIDE DEF j
    <3> QED
      BY <2>1, <3>1 DEF Range
  <2> QED
    BY <2>1, <2>2, <2>3 DEF Range
<1> QED
  BY <1>6, <1>8, <1>9 DEF m, s

-------------------------------------------------------------------------------
(* What is stored. *)

InOrder(st) == st \in KStores /\ \A k \in Keys : Ascending(st.data[k])

\* A pair is stored when its value is in the list of its key.
LEMMA StoredInList ==
  ASSUME NEW st, NEW p
  PROVE  p \in Stored(st) <=> p \in Pairs /\ p[2] \in Range(st.data[p[1]])
  BY DEF Stored, Range

\* The other lists stay as they are.
LEMMA OneListChanges ==
  ASSUME NEW st \in KStores, NEW new \in KStores, NEW k \in Keys, NEW v \in Values, NEW l,
         new.data = [st.data EXCEPT ![k] = l]
  PROVE  /\ Range(l) = Range(st.data[k]) \cup {v} => Stored(new) = Stored(st) \cup {<<k, v>>}
         /\ Range(l) = Range(st.data[k]) \ {v} => Stored(new) = Stored(st) \ {<<k, v>>}
<1>1. \A j \in Keys : new.data[j] = IF j = k THEN l ELSE st.data[j]
  BY DEF KStores
<1>2. \A p \in Pairs : p[1] \in Keys /\ p[2] \in Values /\ p = <<p[1], p[2]>>
  BY DEF Pairs
<1>3. <<k, v>> \in Pairs
  BY DEF Pairs
<1>4. ASSUME Range(l) = Range(st.data[k]) \cup {v}, NEW p \in Pairs
      PROVE  p \in Stored(new) <=> p \in Stored(st) \cup {<<k, v>>}
  <2>1. /\ p \in Stored(new) <=> p[2] \in Range(new.data[p[1]])
        /\ p \in Stored(st) <=> p[2] \in Range(st.data[p[1]])
    BY StoredInList
  <2>2. CASE p[1] = k
    <3>1. p = <<k, v>> <=> p[2] = v
      BY <1>2, <2>2
    <3> QED
      BY <1>1, <1>4, <2>1, <2>2, <3>1
  <2>3. CASE p[1] # k
    <3>1. p # <<k, v>> /\ new.data[p[1]] = st.data[p[1]]
      BY <1>1, <1>2, <2>3
    <3> QED
      BY <2>1, <3>1
  <2> QED
    BY <2>2, <2>3
<1>5. ASSUME Range(l) = Range(st.data[k]) \ {v}, NEW p \in Pairs
      PROVE  p \in Stored(new) <=> p \in Stored(st) \ {<<k, v>>}
  <2>1. /\ p \in Stored(new) <=> p[2] \in Range(new.data[p[1]])
        /\ p \in Stored(st) <=> p[2] \in Range(st.data[p[1]])
    BY StoredInList
  <2>2. CASE p[1] = k
    <3>1. p = <<k, v>> <=> p[2] = v
      BY <1>2, <2>2
    <3> QED
      BY <1>1, <1>5, <2>1, <2>2, <3>1
  <2>3. CASE p[1] # k
    <3>1. p # <<k, v>> /\ new.data[p[1]] = st.data[p[1]]
      BY <1>1, <1>2, <2>3
    <3> QED
      BY <2>1, <3>1
  <2> QED
    BY <2>2, <2>3
<1> QED
  BY <1>3, <1>4, <1>5 DEF Stored

\* An announce adds its pair and leaves a store in order.
LEMMA StoreAdds ==
  ASSUME NEW st \in KStores, Agrees(st), NEW k \in Keys, NEW v \in Values
  PROVE  LET new == Store(st, k, v) IN
         /\ new \in KStores /\ Agrees(new)
         /\ Stored(new) = Stored(st) \cup {<<k, v>>} /\ new.due \subseteq st.due
<1> DEFINE new == Store(st, k, v)
           l == Inserted(st.data[k], v)
<1>0. /\ st.data \in [Keys -> Seq(Values)] /\ st.timed \subseteq Pairs /\ st.due \subseteq Pairs
      /\ <<k, v>> \in Pairs
  BY DEF KStores, Pairs
<1>1. /\ new.timed = st.timed \cup {<<k, v>>} /\ new.due = st.due \ {<<k, v>>}
      /\ new.data = IF <<k, v>> \in st.timed THEN st.data ELSE [st.data EXCEPT ![k] = l]
      /\ DOMAIN new = {"data", "timed", "due"}
      /\ new = [data |-> new.data, timed |-> new.timed, due |-> new.due]
  BY DEF Store
<1>2. l \in Seq(Values) /\ Ascending(l) /\ Range(l) = Range(st.data[k]) \cup {v}
  BY <1>0, InsertedSorted DEF Agrees
<1> HIDE DEF new, l
<1>3. new.data \in [Keys -> Seq(Values)] /\ \A j \in Keys : Ascending(new.data[j])
  BY <1>0, <1>1, <1>2 DEF Agrees
<1>4. new \in KStores
  BY <1>0, <1>1, <1>3 DEF KStores
<1>5. Stored(new) = Stored(st) \cup {<<k, v>>}
  <2>1. CASE <<k, v>> \in st.timed
    <3>1. Stored(new) = Stored(st)
      BY <1>1, <2>1 DEF Stored
    <3> QED
      BY <2>1, <3>1 DEF Agrees
  <2>2. CASE <<k, v>> \notin st.timed
    BY <1>1, <1>2, <1>4, <2>2, OneListChanges
  <2> QED
    BY <2>1, <2>2
<1>6. Agrees(new)
  BY <1>0, <1>1, <1>3, <1>5 DEF Agrees
<1> QED
  BY <1>1, <1>4, <1>5, <1>6 DEF new

\* What ExpireKeys does with one pair.
Dropped(st, p) == IF p[1] \in SepKeys THEN st ELSE RemoveKeyValue(st, p[1], p[2])

\* A pair that is dropped leaves the list and nothing else, and the list in order.
LEMMA DroppedOne ==
  ASSUME NEW st, InOrder(st), NEW p \in Pairs
  PROVE  LET new == Dropped(st, p) IN
         /\ InOrder(new) /\ new.timed = st.timed /\ new.due = st.due
         /\ Stored(new) = IF p[1] \in SepKeys THEN Stored(st) ELSE Stored(st) \ {p}
<1> DEFINE k == p[1]  v == p[2]
           l == st.data[k]
           m == RemoveAt(l, SearchStrings(l, v))
           new == Dropped(st, p)
<1>0. k \in Keys /\ v \in Values /\ p = <<k, v>> /\ st \in KStores
  BY DEF Pairs, InOrder
<1>1. l \in Seq(Values) /\ Ascending(l)
  BY <1>0 DEF KStores, InOrder
<1>2. CASE k \in SepKeys
  BY <1>2 DEF Dropped
<1>3. CASE k \notin SepKeys /\ Found(l, v)
  <2>1. new = [st EXCEPT !.data[k] = m]
    BY <1>3 DEF Dropped, RemoveKeyValue
  <2>2. m \in Seq(Values) /\ Ascending(m) /\ Range(m) = Range(l) \ {v}
    BY <1>0, <1>1, <1>3, RemovedSorted
  <2> HIDE DEF m, new
  <2>3. /\ new.timed = st.timed /\ new.due = st.due
        /\ new.data = [st.data EXCEPT ![k] = m] /\ new \in KStores
    BY <1>0, <2>1, <2>2 DEF KStores
  <2>4. \A j \in Keys : Ascending(new.data[j])
    BY <1>0, <2>2, <2>3 DEF InOrder, KStores
  <2>5. Stored(new) = Stored(st) \ {<<k, v>>}
    BY <1>0, <2>2, <2>3, OneListChanges
  <2> QED
    BY <1>0, <1>3, <2>3, <2>4, <2>5 DEF InOrder, new
<1>4. CASE k \notin SepKeys /\ ~Found(l, v)
  <2>1. new = st
    BY <1>4 DEF Dropped, RemoveKeyValue
  <2>2. p \notin Stored(st)
    <3>1. v \notin Range(l)
      BY <1>0, <1>1, <1>4, FoundWhenThere DEF Range
    <3> QED
      BY <3>1, StoredInList
  <2> QED
    BY <1>4, <2>1, <2>2
<1> QED
  BY <1>2, <1>3, <1>4

\* A step of the fold, ...
ExpiryStep(h, s, st) ==
  IF s = {} THEN st ELSE LET x == CHOOSE x \in s : TRUE IN Dropped(h[s \ {x}], x)

\* ... and what the fold comes to.
LEMMA ExpiryUnfolds ==
  ASSUME NEW st, NEW g, g = [s \in SUBSET st.due |-> ExpiryStep(g, s, st)]
  PROVE  \E h : /\ h = [s \in SUBSET st.due |-> ExpiryStep(h, s, st)]
                /\ ExpireKeys(st) = [h[st.due] EXCEPT !.timed = @ \ st.due, !.due = {}]
<1> DEFINE h == CHOOSE h : h = [s \in SUBSET st.due |-> ExpiryStep(h, s, st)]
<1>1. ExpireKeys(st) = [h[st.due] EXCEPT !.timed = @ \ st.due, !.due = {}]
  BY DEF ExpireKeys, FoldSet, MapThenFoldSet, ExpiryStep, Dropped
<1>2. h = [s \in SUBSET st.due |-> ExpiryStep(h, s, st)]
  BY Zenon
<1> QED
  BY <1>1, <1>2, Zenon

\* ExpireKeys takes out the pairs whose time is up, but for those of SepKeys.
LEMMA ExpiryTakes ==
  ASSUME NEW st \in KStores, Agrees(st), IsFiniteSet(st.due)
  PROVE  LET new == ExpireKeys(st) IN
         /\ new \in KStores /\ Agrees(new) /\ new.due = {}
         /\ Stored(new) \subseteq Stored(st)
<1> DEFINE S == st.due
           A == {s \in KStores : InOrder(s)}
           ch == [s \in SUBSET S |-> CHOOSE x \in s : TRUE]
           F == [p \in S |-> [s \in A |-> Dropped(s, p)]]
<1>0. S \subseteq Pairs /\ st \in A /\ \A s \in SUBSET S : s # {} => ch[s] \in s
  BY DEF KStores, Agrees, InOrder
<1>1. \A x \in S, a \in A : F[x][a] \in A
  <2>1. ASSUME NEW x \in S, NEW a \in A PROVE Dropped(a, x) \in A
    BY <1>0, DroppedOne DEF InOrder
  <2> QED
    BY <2>1
<1>2. PICK g \in [SUBSET S -> A] : Folds(g, S, st, F, ch)
  <2>1. IsFiniteSet(S)
    OBVIOUS
  <2> HIDE DEF S, A, ch, F
  <2> QED
    BY <1>0, <1>1, <2>1, FoldExists
<1>3. g = [s \in SUBSET S |-> ExpiryStep(g, s, st)]
  <2>1. ASSUME NEW s \in SUBSET S PROVE g[s] = ExpiryStep(g, s, st)
    <3>1. CASE s = {}
      BY <1>2, <3>1 DEF ExpiryStep, Folds
    <3>2. CASE s # {}
      <4> DEFINE x == CHOOSE x \in s : TRUE
      <4>1. ch[s] = x /\ x \in S
        BY <1>0, <3>2
      <4>2. g[s \ {x}] \in A
        BY <1>2
      <4>3. g[s] = F[x][g[s \ {x}]]
        BY <1>2, <3>2, <4>1 DEF Folds
      <4>4. F[x][g[s \ {x}]] = Dropped(g[s \ {x}], x)
        BY <4>1, <4>2
      <4> QED
        BY <3>2, <4>3, <4>4 DEF ExpiryStep
    <3> QED
      BY <3>1, <3>2
  <2> QED
    BY <1>2, <2>1
<1>4. PICK h : /\ h = [s \in SUBSET S |-> ExpiryStep(h, s, st)]
               /\ ExpireKeys(st) = [h[S] EXCEPT !.timed = @ \ S, !.due = {}]
  BY <1>3, ExpiryUnfolds
<1> DEFINE Left(s) == {p \in Stored(st) : p \in s => p[1] \in SepKeys}
           G == {s \in SUBSET S : /\ InOrder(h[s]) /\ h[s].timed = st.timed
                                  /\ Stored(h[s]) = Left(s)}
<1>5. {} \in G
  <2>1. h[{}] = st
    BY <1>4 DEF ExpiryStep
  <2> QED
    BY <1>0, <2>1
<1>6. ASSUME NEW s \in SUBSET S, s # {}, s \ {ch[s]} \in G PROVE s \in G
  <2> DEFINE x == CHOOSE x \in s : TRUE
             t == s \ {x}
  <2>1. ch[s] = x /\ x \in s /\ x \in Pairs
    BY <1>0, <1>6
  <2>2. h[s] = Dropped(h[t], x)
    BY <1>4, <1>6 DEF ExpiryStep
  <2>3. InOrder(h[t]) /\ h[t].timed = st.timed /\ Stored(h[t]) = Left(t)
    BY <1>6, <2>1
  <2> HIDE DEF x, t
  <2>4. /\ InOrder(h[s]) /\ h[s].timed = st.timed
        /\ Stored(h[s]) = IF x[1] \in SepKeys THEN Left(t) ELSE Left(t) \ {x}
    <3> HIDE DEF Left
    <3>1. LET new == Dropped(h[t], x) IN
          /\ InOrder(new) /\ new.timed = h[t].timed
          /\ Stored(new) = IF x[1] \in SepKeys THEN Stored(h[t]) ELSE Stored(h[t]) \ {x}
      BY <2>1, <2>3, DroppedOne
    <3> QED
      BY <2>2, <2>3, <3>1
  <2>5. Left(s) = IF x[1] \in SepKeys THEN Left(t) ELSE Left(t) \ {x}
    BY <2>1 DEF t
  <2> QED
    BY <2>4, <2>5
<1>7. S \in G
  <2>1. \A s \in SUBSET S : s # {} /\ s \ {ch[s]} \in G => s \in G
    BY <1>6
  <2> HIDE DEF S, ch, G
  <2> QED
    BY <1>0, <1>5, <2>1, SetInduction DEF S
<1> DEFINE new == ExpireKeys(st)
<1>8. /\ h[S] \in KStores /\ \A k \in Keys : Ascending(h[S].data[k])
      /\ h[S].timed = st.timed /\ Stored(h[S]) = Left(S)
  BY <1>7 DEF InOrder
<1>9. /\ new \in KStores /\ new.data = h[S].data /\ new.timed = st.timed \ S /\ new.due = {}
  <2>1. new = [h[S] EXCEPT !.timed = @ \ S, !.due = {}]
    BY <1>4
  <2> HIDE DEF new, S
  <2> QED
    BY <1>8, <2>1 DEF KStores
<1>10. Stored(new) = Left(S)
  BY <1>8, <1>9 DEF Stored
<1>11. Agrees(new)
  BY <1>8, <1>9, <1>10 DEF Agrees
<1> QED
  BY <1>9, <1>10, <1>11

-------------------------------------------------------------------------------
(* The id of a refresh. *)

\* Division with a rest is what one expects.
LEMMA DivRest ==
  ASSUME NEW d \in Nat \ {0}, NEW q \in Nat, NEW r \in 0 .. d - 1, NEW x, x = q * d + r
  PROVE  x \div d = q /\ x % d = r
  OBVIOUS

\* And every number can be divided.
LEMMA DivWhole ==
  ASSUME NEW x \in Nat, NEW d \in Nat \ {0}
  PROVE  x \div d \in Nat /\ x % d \in 0 .. d - 1 /\ x = (x \div d) * d + (x % d)
  OBVIOUS

\* The place of a bit in its byte, counted from both ends.
LEMMA BytePlace ==
  ASSUME NEW b \in Buckets
  PROVE  \E n \in Nat, k \in Nat, r \in 0 .. W - 1 :
           /\ b = k * W + r /\ B = (k + 1 + n) * W /\ n * W \in Nat /\ k * W \in Nat
           /\ B = k * W + W + n * W /\ b % W = r
<1>0. B \in Nat \ {0} /\ W \in Nat \ {0} /\ B % W = 0 /\ b \in Nat /\ b < B
  BY RoutingTableAssumption DEF Buckets
<1>1. PICK k \in Nat, r \in 0 .. W - 1 : b = k * W + r /\ b % W = r
  <2>1. b \div W \in Nat /\ b % W \in 0 .. W - 1 /\ b = (b \div W) * W + (b % W)
    BY <1>0, DivWhole
  <2> QED
    BY <2>1, Zenon
<1>2. PICK m \in Nat : B = m * W
  <2>1. B \div W \in Nat /\ B = (B \div W) * W + (B % W)
    BY <1>0, DivWhole
  <2> DEFINE m == B \div W
  <2>2. B = m * W + 0 /\ m \in Nat
    BY <1>0, <2>1
  <2> HIDE DEF m
  <2>3. B = m * W
    BY <1>0, <2>2
  <2> QED
    BY <2>2, <2>3
<1>3. k < m
  <2>1. CASE k >= m
    <3>1. k * W >= m * W
      BY <1>0, <2>1
    <3> QED
      BY <1>0, <1>1, <1>2, <3>1
  <2> QED
    BY <2>1
<1> DEFINE n == m - 1 - k
<1>4. n \in Nat /\ m = k + 1 + n
  BY <1>3
<1> HIDE DEF n
<1>5. /\ n * W \in Nat /\ k * W \in Nat /\ (k + 1 + n) * W = k * W + W + n * W
  BY <1>0, <1>4
<1> QED
  BY <1>1, <1>2, <1>4, <1>5

\* Past the bits that a random id of a bucket has in common with the node's own.
LEMMA CopiedBits ==
  ASSUME NEW b \in Buckets
  PROVE  /\ B - W * equalsBytes(b) - (IF firstDif(b) >= 0 THEN firstDif(b) ELSE 0)
              = 1 + (IF b % W = 0 THEN b + W - 1 ELSE b)
         /\ firstDif(b) \in Int /\ W * equalsBytes(b) \in Int
<1>0. B \in Nat \ {0} /\ W \in Nat \ {0} /\ b \in Nat /\ b < B
  BY RoutingTableAssumption DEF Buckets
<1>1. PICK n \in Nat, k \in Nat, r \in 0 .. W - 1 :
        /\ b = k * W + r /\ B = (k + 1 + n) * W /\ n * W \in Nat /\ k * W \in Nat
        /\ B = k * W + W + n * W /\ b % W = r
  BY BytePlace
<1>2. equalsBytes(b) = n
  <2>1. (n + 1) * W = n * W + W
    BY <1>0
  <2>2. CASE r = 0
    <3>1. B - b + W - 1 = (n + 1) * W + (W - 1)
      BY <1>0, <1>1, <2>1, <2>2
    <3>2. W - 1 \in 0 .. W - 1 /\ n + 1 \in Nat
      BY <1>0
    <3>3. (B - b + W - 1) \div W = n + 1
      BY <1>0, <3>1, <3>2, DivRest
    <3> QED
      BY <3>3 DEF equalsBytes
  <2>3. CASE r > 0
    <3>1. B - b + W - 1 = (n + 1) * W + (W - 1 - r)
      BY <1>0, <1>1, <2>1
    <3>2. W - 1 - r \in 0 .. W - 1 /\ n + 1 \in Nat
      BY <1>0
    <3> DEFINE x == B - b + W - 1  y == W - 1 - r  z == n + 1
    <3>3. x = z * W + y /\ y \in 0 .. W - 1 /\ z \in Nat
      BY <3>1, <3>2
    <3> HIDE DEF x, y, z
    <3>4. x \div W = z
      BY <1>0, <3>3, DivRest
    <3> QED
      BY <3>4 DEF equalsBytes, x, z
  <2> QED
    BY <2>2, <2>3
<1>3. firstDif(b) = IF r = 0 THEN -1 ELSE W - r - 1
  <2>1. CASE r = 0
    <3> DEFINE x == B - b  z == n + 1
    <3>1. z \in Nat /\ z * W = n * W + W
      BY <1>0
    <3>2. x = z * W + 0 /\ 0 \in 0 .. W - 1
      BY <1>0, <1>1, <2>1, <3>1
    <3> HIDE DEF x, z
    <3>3. x % W = 0
      BY <1>0, <3>1, <3>2, DivRest
    <3>4. (B - b) % W = 0
      BY <3>3 DEF x
    <3> QED
      BY <2>1, <3>4 DEF firstDif
  <2>2. CASE r > 0
    <3> DEFINE x == B - b  y == W - r
    <3>1. x = n * W + y /\ y \in 0 .. W - 1
      BY <1>0, <1>1, <2>2
    <3> HIDE DEF x, y
    <3>2. x % W = y
      BY <1>0, <3>1, DivRest
    <3> QED
      BY <2>2, <3>2 DEF firstDif, x, y
  <2> QED
    BY <2>1, <2>2
<1>4. W * equalsBytes(b) = n * W
  BY <1>0, <1>2
<1> QED
  BY <1>0, <1>1, <1>3, <1>4

\* The id RefreshBucket draws differs from the node's own in no bit past those
\* it is told to copy.
LEMMA RefreshNear ==
  ASSUME NEW self \in Ids, NEW b \in Buckets, NEW id \in getRandomIDFromBucket(self, b)
  PROVE  getFirstDifBitBucketIndex(self, id)
           \in 0 .. (IF b % W = 0 THEN b + W - 1 ELSE b)
<1> DEFINE far == IF b % W = 0 THEN b + W - 1 ELSE b
           D == DifferingBits(self, id)
           begin == B - W * equalsBytes(b)
<1>0. B \in Nat \ {0} /\ W \in Nat \ {0} /\ b \in Nat /\ far \in Nat
  BY RoutingTableAssumption DEF Buckets
<1>1. Max({firstDif(b), 0}) = IF firstDif(b) >= 0 THEN firstDif(b) ELSE 0
  BY CopiedBits DEF Max
<1>2. begin - Max({firstDif(b), 0}) = 1 + far
  BY <1>1, CopiedBits
<1>3. (1 + far .. B - 1) \cap D = {}
  <2>1. (begin - Max({firstDif(b), 0}) .. B - 1) \cap DifferingBits(id, self) = {}
    BY DEF getRandomIDFromBucket
  <2>2. DifferingBits(id, self) = D
    BY DEF DifferingBits
  <2> HIDE DEF begin, far, D
  <2> QED
    BY <1>2, <2>1, <2>2
<1>4. D \subseteq 0 .. far
  <2>1. D \subseteq 0 .. B - 1
    BY DEF DifferingBits, getRandomIDFromBucket, Ids, Buckets
  <2> HIDE DEF D, far
  <2>2. ASSUME NEW i \in D PROVE i \in 0 .. far
    <3>1. i \in 0 .. B - 1 /\ i \notin 1 + far .. B - 1
      BY <1>3, <2>1, <2>2
    <3> QED
      BY <1>0, <3>1
  <2> QED
    BY <2>2
<1>5. D # {} => Max(D) \in D
  BY <1>0, <1>4, MaxOfRange
<1> HIDE DEF D
<1>6. getFirstDifBitBucketIndex(self, id) = IF D = {} THEN 0 ELSE Max(D)
  BY DEF getFirstDifBitBucketIndex, D
<1> HIDE DEF far
<1>7. getFirstDifBitBucketIndex(self, id) \in 0 .. far
  <2>1. CASE D = {}
    BY <1>0, <1>6, <2>1
  <2>2. CASE D # {}
    BY <1>4, <1>5, <1>6, <2>2
  <2> QED
    BY <2>1, <2>2
<1> QED
  BY <1>7 DEF far

-------------------------------------------------------------------------------
(* Which of two ids is nearer. *)

\* The first bit in which two ids differ.
LEMMA FirstBit ==
  ASSUME NEW x \in Ids, NEW y \in Ids
  PROVE  LET d == DifferingBits(x, y) IN
         /\ d \subseteq Buckets /\ (d = {} <=> x = y)
         /\ (d # {} => Max(d) \in d /\ \A i \in d : Max(d) >= i)
<1> DEFINE d == DifferingBits(x, y)
<1>1. d \subseteq Buckets /\ (d = {} <=> x = y)
  BY DEF DifferingBits, Ids
<1>2. B - 1 \in Nat
  BY RoutingTableAssumption
<1> HIDE DEF d
<1>3. d # {} => Max(d) \in d /\ \A i \in d : Max(d) >= i
  BY <1>1, <1>2, MaxOfRange DEF Buckets
<1> QED
  BY <1>1, <1>3 DEF d

\* The bucket of an id.
LEMMA BucketOfId ==
  ASSUME NEW x \in Ids, NEW y \in Ids
  PROVE  getFirstDifBitBucketIndex(x, y) \in Buckets
<1>1. 0 \in Buckets
  BY RoutingTableAssumption DEF Buckets
<1> QED
  BY <1>1, FirstBit DEF getFirstDifBitBucketIndex

\* x is nearer to t than y, and bit i is where they differ first.
Decides(i, x, y, t) ==
  /\ i \in Buckets
  /\ (i \in x) = (i \in t)
  /\ (i \in y) # (i \in t)
  /\ \A j \in Buckets : j > i => ((j \in x) = (j \in y))

\* Of two ids the one is nearer that has the target's bit where they differ first.
LEMMA NearerByBit ==
  ASSUME NEW x \in Ids, NEW y \in Ids, NEW t \in Ids
  PROVE  Nearer(x, y, t) <=> \E i \in Buckets : Decides(i, x, y, t)
<1> DEFINE d == DifferingBits(x, y)
<1>1. Nearer(x, y, t) <=> (d # {} /\ Max(d) \in DifferingBits(y, t))
  <2>1. DifferingBits(DifferingBits(x, t), DifferingBits(y, t)) = d
    BY DEF DifferingBits
  <2> QED
    BY <2>1 DEF Nearer, Smaller, getDistance
<1>2. d \subseteq Buckets
  BY FirstBit
<1>3. d # {} => (Max(d) \in d /\ \A i \in d : Max(d) >= i)
  BY FirstBit
<1>4. \A i \in Buckets : i \in d <=> ((i \in x) # (i \in y))
  BY DEF DifferingBits
<1>5. \A i \in Buckets : i \in DifferingBits(y, t) <=> ((i \in y) # (i \in t))
  BY DEF DifferingBits
<1>6. Buckets \subseteq Int
  BY DEF Buckets
<1> HIDE DEF d
<1>7. ASSUME d # {}, Max(d) \in DifferingBits(y, t)
      PROVE  \E i \in Buckets : Decides(i, x, y, t)
  <2> DEFINE i == Max(d)
  <2>1. i \in Buckets /\ i \in d /\ i \in DifferingBits(y, t) /\ \A j \in d : i >= j
    BY <1>2, <1>3, <1>7
  <2> HIDE DEF i
  <2>2. \A j \in Buckets : j > i => j \notin d
    BY <1>6, <2>1
  <2>3. Decides(i, x, y, t)
    BY <1>4, <1>5, <2>1, <2>2 DEF Decides
  <2> QED
    BY <2>1, <2>3
<1>8. ASSUME NEW i \in Buckets, Decides(i, x, y, t)
      PROVE  d # {} /\ Max(d) \in DifferingBits(y, t)
  <2>1. i \in d /\ \A j \in d : ~(j > i)
    BY <1>2, <1>4, <1>8 DEF Decides
  <2>2. Max(d) \in Int /\ Max(d) >= i /\ ~(Max(d) > i) /\ i \in Int
    BY <1>2, <1>3, <1>6, <2>1
  <2>3. Max(d) = i
    BY <2>2
  <2> QED
    BY <1>5, <1>8, <2>1, <2>3 DEF Decides
<1> QED
  BY <1>1, <1>7, <1>8

\* Nearer is a strict order, and total.
LEMMA NearerOrders ==
  ASSUME NEW x \in Ids, NEW y \in Ids, NEW z \in Ids, NEW t \in Ids
  PROVE  /\ ~Nearer(x, x, t)
         /\ (Nearer(x, y, t) /\ Nearer(y, z, t) => Nearer(x, z, t))
         /\ (x = y \/ Nearer(x, y, t) \/ Nearer(y, x, t))
<1>0. Buckets \subseteq Int
  BY DEF Buckets
<1>1. ~Nearer(x, x, t)
  BY NearerByBit DEF Decides
<1>2. ASSUME Nearer(x, y, t), Nearer(y, z, t) PROVE Nearer(x, z, t)
  <2>1. PICK i \in Buckets : Decides(i, x, y, t)
    BY <1>2, NearerByBit
  <2>2. PICK k \in Buckets : Decides(k, y, z, t)
    BY <1>2, NearerByBit
  <2>3. i \in Int /\ k \in Int
    BY <1>0
  <2>4. CASE i > k
    <3>1. \A j \in Buckets : j > i => j > k
      BY <1>0, <2>3, <2>4
    <3>2. Decides(i, x, z, t)
      BY <2>1, <2>2, <2>4, <3>1 DEF Decides
    <3> QED
      BY <3>2, NearerByBit
  <2>5. CASE k > i
    <3>1. \A j \in Buckets : j > k => j > i
      BY <1>0, <2>3, <2>5
    <3>2. Decides(k, x, z, t)
      BY <2>1, <2>2, <2>5, <3>1 DEF Decides
    <3> QED
      BY <3>2, NearerByBit
  <2>6. i # k
    BY <2>1, <2>2 DEF Decides
  <2> QED
    BY <2>3, <2>4, <2>5, <2>6
<1>3. ASSUME x # y PROVE Nearer(x, y, t) \/ Nearer(y, x, t)
  <2> DEFINE d == DifferingBits(x, y)
             m == Max(d)
  <2>1. d \subseteq Buckets /\ m \in d /\ \A i \in d : m >= i
    BY <1>3, FirstBit
  <2>2. \A i \in Buckets : i \in d <=> ((i \in x) # (i \in y))
    BY DEF DifferingBits
  <2> HIDE DEF m, d
  <2>3. m \in Buckets /\ \A j \in Buckets : j > m => j \notin d
    BY <1>0, <2>1
  <2>4. Decides(m, x, y, t) \/ Decides(m, y, x, t)
    BY <2>1, <2>2, <2>3 DEF Decides
  <2> QED
    BY <2>3, <2>4, NearerByBit
<1> QED
  BY <1>1, <1>2, <1>3

-------------------------------------------------------------------------------
(* Sorting. *)

\* An entry of a list has an id.
LEMMA EntriesInList ==
  ASSUME NEW l \in Seq(Entries)
  PROVE  /\ DOMAIN l = 1 .. Len(l) /\ Len(l) \in Nat
         /\ \A j \in 1 .. Len(l) : l[j] \in Entries /\ l[j].id \in Ids /\ l[j].at \in Addresses
<1>1. DOMAIN l = 1 .. Len(l) /\ Len(l) \in Nat /\ \A j \in 1 .. Len(l) : l[j] \in Entries
  OBVIOUS
<1>2. \A e \in Entries : e.id \in Ids /\ e.at \in Addresses
  BY DEF Entries
<1> QED
  BY <1>1, <1>2

\* How many entries of a list are nearer to the target than that at place j.
Nearers(l, t, j) == {k \in DOMAIN l : Nearer(l[k].id, l[j].id, t)}

\* The entries before that at place j are the nearer ones: each place has a rank of its own.
LEMMA Ranks ==
  ASSUME NEW l \in Seq(Entries), Unique(l), NEW t \in Ids
  PROVE  /\ \A j \in DOMAIN l : /\ Cardinality(Nearers(l, t, j)) \in 0 .. Len(l) - 1
                                /\ IsFiniteSet(Nearers(l, t, j))
         /\ \A j, k \in DOMAIN l :
              Cardinality(Nearers(l, t, j)) = Cardinality(Nearers(l, t, k)) => j = k
<1>0. /\ DOMAIN l = 1 .. Len(l) /\ Len(l) \in Nat
      /\ \A j \in DOMAIN l : l[j] \in Entries /\ l[j].id \in Ids
  BY EntriesInList
<1>1. IsFiniteSet(DOMAIN l) /\ Cardinality(DOMAIN l) = Len(l)
  BY <1>0, FS_Interval
<1>2. ASSUME NEW j \in DOMAIN l
      PROVE  /\ Cardinality(Nearers(l, t, j)) \in 0 .. Len(l) - 1
             /\ IsFiniteSet(Nearers(l, t, j))
  <2> DEFINE N == Nearers(l, t, j)
             D == DOMAIN l \ {j}
  <2>1. N \subseteq D
    BY <1>0, NearerOrders DEF Nearers
  <2> HIDE DEF N
  <2>2. IsFiniteSet(D) /\ Cardinality(D) = Len(l) - 1
    BY <1>0, <1>1, FS_RemoveElement
  <2>3. IsFiniteSet(N) /\ Cardinality(N) <= Len(l) - 1 /\ Cardinality(N) \in Nat
    BY <2>1, <2>2, FS_Subset, FS_CardinalityType
  <2> QED
    BY <1>0, <2>3 DEF N
<1>3. ASSUME NEW j \in DOMAIN l, NEW k \in DOMAIN l, Nearer(l[j].id, l[k].id, t)
      PROVE  Cardinality(Nearers(l, t, j)) # Cardinality(Nearers(l, t, k))
  <2>1. Nearers(l, t, j) \subseteq Nearers(l, t, k)
    BY <1>0, <1>3, NearerOrders DEF Nearers
  <2>2. j \in Nearers(l, t, k) /\ j \notin Nearers(l, t, j)
    BY <1>0, <1>3, NearerOrders DEF Nearers
  <2>3. IsFiniteSet(Nearers(l, t, k))
    BY <1>2
  <2> QED
    BY <2>1, <2>2, <2>3, FS_Subset
<1>4. ASSUME NEW j \in DOMAIN l, NEW k \in DOMAIN l, j # k
      PROVE  Cardinality(Nearers(l, t, j)) # Cardinality(Nearers(l, t, k))
  <2>1. l[j].id # l[k].id
    BY <1>4 DEF Unique
  <2>2. Nearer(l[j].id, l[k].id, t) \/ Nearer(l[k].id, l[j].id, t)
    BY <1>0, <2>1, NearerOrders
  <2> QED
    BY <1>3, <2>2
<1> QED
  BY <1>2, <1>4

\* Sorting rearranges the entries; none is nearer than the first.
LEMMA SortedPermutes ==
  ASSUME NEW l \in Seq(Entries), Unique(l), NEW t \in Ids
  PROVE  LET m == Sorted(l, t) IN
         /\ m \in Seq(Entries) /\ Len(m) = Len(l) /\ Unique(m)
         /\ \A k \in DOMAIN l : \E i \in DOMAIN m : m[i] = l[k]
         /\ \A i \in DOMAIN m : ~Nearer(m[i].id, m[1].id, t)
<1> DEFINE n == Len(l)
           rank == [j \in 1 .. n |-> Cardinality(Nearers(l, t, j))]
           place == [i \in 1 .. n |-> CHOOSE j \in 1 .. n : rank[j] = i - 1]
           m == Sorted(l, t)
<1>0. /\ DOMAIN l = 1 .. n /\ n \in Nat
      /\ \A j \in 1 .. n : l[j] \in Entries /\ l[j].id \in Ids
  BY EntriesInList
<1>1. rank \in [1 .. n -> 0 .. n - 1] /\ \A j, k \in 1 .. n : rank[j] = rank[k] => j = k
  BY <1>0, Ranks
<1>2. \A i \in 1 .. n : \E j \in 1 .. n : rank[j] = i - 1
  <2>1. rank \in Injection(1 .. n, 0 .. n - 1)
    BY <1>1 DEF Injection, IsInjective
  <2>2. /\ IsFiniteSet(0 .. n - 1) /\ Cardinality(0 .. n - 1) = n /\ Cardinality(1 .. n) = n
    <3> HIDE DEF n
    <3>1. 0 \in Int /\ 1 \in Int /\ n - 1 \in Int /\ n \in Int /\ (0 > n - 1 <=> n = 0)
          /\ (1 > n <=> n = 0) /\ (n - 1) - 0 + 1 = n /\ n - 1 + 1 = n
      BY <1>0
    <3> QED
      BY <3>1, FS_Interval
  <2> HIDE DEF rank, n
  <2>3. rank \in Surjection(1 .. n, 0 .. n - 1)
    BY <2>1, <2>2, FS_Injection
  <2>4. \A i \in 1 .. n : i - 1 \in 0 .. n - 1
    BY <1>0
  <2> QED
    BY <2>3, <2>4 DEF Surjection
<1>3. m = [i \in 1 .. n |-> l[place[i]]]
  <2>1. m = [i \in DOMAIN l |-> l[CHOOSE j \in DOMAIN l : Cardinality(Nearers(l, t, j)) = i - 1]]
    BY Zenon DEF Sorted, Nearers
  <2>2. ASSUME NEW i \in 1 .. n
        PROVE  (CHOOSE j \in DOMAIN l : Cardinality(Nearers(l, t, j)) = i - 1) = place[i]
    <3>1. \A j \in 1 .. n : rank[j] = Cardinality(Nearers(l, t, j))
      OBVIOUS
    <3>2. (CHOOSE j \in DOMAIN l : Cardinality(Nearers(l, t, j)) = i - 1)
            = CHOOSE j \in 1 .. n : rank[j] = i - 1
      BY <1>0, <3>1
    <3> QED
      BY <3>2
  <2> DEFINE f(i) == CHOOSE j \in DOMAIN l : Cardinality(Nearers(l, t, j)) = i - 1
  <2>3. m = [i \in DOMAIN l |-> l[f(i)]] /\ \A i \in 1 .. n : f(i) = place[i]
    BY <2>1, <2>2
  <2> HIDE DEF m, place, f
  <2> QED
    BY <1>0, <2>3
<1>4. \A i \in 1 .. n : place[i] \in 1 .. n /\ rank[place[i]] = i - 1
  BY <1>2
<1> HIDE DEF place, m
<1>5. m \in [1 .. n -> Entries] /\ DOMAIN m = 1 .. n
  BY <1>0, <1>3, <1>4
<1>6. m \in Seq(Entries) /\ Len(m) = n
  BY <1>0, <1>5, SeqDef, LenProperties
<1>7. Unique(m)
  <2>1. ASSUME NEW i \in 1 .. n, NEW j \in 1 .. n, m[i].id = m[j].id PROVE i = j
    <3>1. place[i] = place[j]
      BY <1>0, <1>3, <1>4, <2>1 DEF Unique
    <3>2. i - 1 = j - 1
      BY <1>4, <3>1
    <3> HIDE DEF n
    <3> QED
      BY <1>0, <3>2
  <2> QED
    BY <1>5, <2>1 DEF Unique
<1>8. ASSUME NEW k \in 1 .. n PROVE \E i \in DOMAIN m : m[i] = l[k]
  <2> DEFINE i == rank[k] + 1
  <2>1. i \in 1 .. n /\ i - 1 = rank[k] /\ rank[k] \in 0 .. n - 1
    BY <1>0, <1>1
  <2> HIDE DEF i, rank
  <2>2. place[i] = k
    BY <1>1, <1>4, <2>1
  <2> QED
    BY <1>3, <1>5, <2>1, <2>2
<1>9. ASSUME NEW i \in 1 .. n PROVE ~Nearer(m[i].id, m[1].id, t)
  <2>1. 1 \in 1 .. n
    BY <1>0
  <2>2. rank[place[1]] = 0
    BY <1>4, <2>1
  <2>3. Cardinality(Nearers(l, t, place[1])) = 0 /\ place[1] \in 1 .. n
    BY <1>4, <2>1, <2>2
  <2>4. Nearers(l, t, place[1]) = {}
    BY <1>0, <2>3, Ranks, FS_EmptySet
  <2>5. m[1] = l[place[1]] /\ m[i] = l[place[i]] /\ place[i] \in DOMAIN l
    BY <1>0, <1>3, <1>4, <2>1
  <2> QED
    BY <2>4, <2>5 DEF Nearers
<1> QED
  BY <1>0, <1>5, <1>6, <1>7, <1>8, <1>9 DEF m


-------------------------------------------------------------------------------
(* Folds over lists. *)

\* A fold that starts in a set and does not leave it ends in it.
LEMMA FoldStays ==
  ASSUME NEW S, IsFiniteSet(S), NEW ch, \A s \in SUBSET S : s # {} => ch[s] \in s,
         NEW A, NEW h, h[{}] \in A,
         \A s \in SUBSET S : s # {} /\ h[s \ {ch[s]}] \in A => h[s] \in A
  PROVE  h[S] \in A
<1> DEFINE G == {s \in SUBSET S : h[s] \in A}
<1>1. {} \in G /\ \A s \in SUBSET S : s # {} /\ s \ {ch[s]} \in G => s \in G
  OBVIOUS
<1>2. \A s \in SUBSET S : s \in G
  <2> HIDE DEF G
  <2> QED
    BY <1>1, SetInduction
<1> QED
  BY <1>2

\* FoldLeft takes the last place first.
LEMMA LastPlace ==
  ASSUME NEW A, NEW l \in Seq(A)
  PROVE  /\ IsFiniteSet(DOMAIN l)
         /\ \A s \in SUBSET DOMAIN l : s # {} => Max(s) \in s
         /\ \A i \in DOMAIN l : l[i] \in A
<1>1. DOMAIN l = 1 .. Len(l) /\ Len(l) \in Nat /\ \A i \in DOMAIN l : l[i] \in A
  OBVIOUS
<1>2. IsFiniteSet(1 .. Len(l)) /\ 1 .. Len(l) \subseteq 0 .. Len(l)
  BY <1>1, FS_Interval
<1>3. ASSUME NEW s \in SUBSET (1 .. Len(l)), s # {} PROVE Max(s) \in s
  <2>1. s \in SUBSET (0 .. Len(l))
    BY <1>2
  <2> QED
    BY <1>1, <1>3, <2>1, MaxOfRange
<1> QED
  BY <1>1, <1>2, <1>3

\* A list with each id once that begins like l.
Grown(l) ==
  {m \in Seq(Entries) : /\ Unique(m) /\ Len(m) >= Len(l)
                        /\ \A i \in 1 .. Len(l) : m[i] = l[i]}

Added(m, e) == IF HasId(m, e.id) THEN m ELSE Append(m, e)

\* One entry more.
LEMMA AddedGrows ==
  ASSUME NEW l \in Seq(Entries), NEW m \in Grown(l), NEW e \in Entries
  PROVE  Added(m, e) \in Grown(l)
<1>1. /\ m \in Seq(Entries) /\ Unique(m) /\ Len(m) >= Len(l) /\ Len(m) \in Nat /\ Len(l) \in Nat
      /\ \A i \in 1 .. Len(l) : m[i] = l[i]
      /\ DOMAIN m = 1 .. Len(m)
  BY DEF Grown
<1>2. CASE HasId(m, e.id)
  BY <1>2 DEF Added
<1>3. CASE ~HasId(m, e.id)
  <2> DEFINE a == Append(m, e)
  <2>1. /\ a \in Seq(Entries) /\ Len(a) = Len(m) + 1 /\ DOMAIN a = 1 .. Len(m) + 1
        /\ \A i \in 1 .. Len(m) : a[i] = m[i]
        /\ a[Len(m) + 1] = e
    BY <1>1, AppendProperties
  <2> HIDE DEF a
  <2>2. \A i \in 1 .. Len(m) : a[i].id # e.id
    BY <1>1, <1>3, <2>1 DEF HasId
  <2>3. \A i \in 1 .. Len(m) + 1 : i \in 1 .. Len(m) \/ i = Len(m) + 1
    BY <1>1
  <2>4. \A i, j \in 1 .. Len(m) : a[i].id = a[j].id => i = j
    BY <1>1, <2>1 DEF Unique
  <2>5. Unique(a)
    BY <2>1, <2>2, <2>3, <2>4 DEF Unique
  <2>6. Len(a) >= Len(l) /\ \A i \in 1 .. Len(l) : a[i] = l[i]
    BY <1>1, <2>1
  <2> QED
    BY <1>3, <2>1, <2>5, <2>6 DEF Added, Grown, a
<1> QED
  BY <1>2, <1>3

\* A step of the fold of AppendUnique, ...
UniqueStep(h, s, l, new) ==
  IF s = {} THEN l ELSE LET x == Max(s) IN Added(h[s \ {x}], new[x])

UniqueFold(h, l, new) == h = [s \in SUBSET DOMAIN new |-> UniqueStep(h, s, l, new)]

\* ... and what it comes to.
LEMMA UniqueUnfolds ==
  ASSUME NEW l, NEW new, NEW g, UniqueFold(g, l, new)
  PROVE  \E h : UniqueFold(h, l, new) /\ AppendUnique(l, new) = h[DOMAIN new]
<1> DEFINE h == CHOOSE h : h = [s \in SUBSET DOMAIN new |-> UniqueStep(h, s, l, new)]
<1>1. AppendUnique(l, new) = h[DOMAIN new]
  BY DEF AppendUnique, FoldLeft, MapThenFoldSet, UniqueStep, Added
<1>2. h = [s \in SUBSET DOMAIN new |-> UniqueStep(h, s, l, new)]
  BY Zenon DEF UniqueFold
<1>3. UniqueFold(h, l, new)
  BY <1>2, Zenon DEF UniqueFold
<1> QED
  BY <1>1, <1>3, Zenon

\* AppendUnique keeps what is there, and no id comes twice.
LEMMA AppendUniqueGrows ==
  ASSUME NEW l \in Seq(Entries), Unique(l), NEW new \in Seq(Entries)
  PROVE  AppendUnique(l, new) \in Grown(l)
<1> DEFINE S == DOMAIN new
           A == Grown(l)
           ch == [s \in SUBSET S |-> Max(s)]
           F == [x \in S |-> [a \in A |-> Added(a, new[x])]]
<1>0. IsFiniteSet(S) /\ (\A s \in SUBSET S : s # {} => ch[s] \in s) /\ \A x \in S : new[x] \in Entries
  BY LastPlace
<1>1. l \in A
  BY DEF Grown
<1>2. \A x \in S, a \in A : Added(a, new[x]) \in A
  BY <1>0, AddedGrows
<1>3. \A x \in S, a \in A : F[x][a] \in A
  BY <1>2
<1>4. PICK g \in [SUBSET S -> A] : Folds(g, S, l, F, ch)
  <2> HIDE DEF S, A, ch, F
  <2> QED
    BY <1>0, <1>1, <1>3, FoldExists
<1>5. UniqueFold(g, l, new)
  <2>1. ASSUME NEW s \in SUBSET S PROVE g[s] = UniqueStep(g, s, l, new)
    <3>1. CASE s = {}
      BY <1>4, <3>1 DEF UniqueStep, Folds
    <3>2. CASE s # {}
      <4>1. ch[s] = Max(s) /\ Max(s) \in S /\ g[s \ {Max(s)}] \in A
        BY <1>0, <1>4, <3>2
      <4>2. g[s] = F[Max(s)][g[s \ {Max(s)}]]
        BY <1>4, <3>2, <4>1 DEF Folds
      <4> QED
        BY <3>2, <4>1, <4>2 DEF UniqueStep
    <3> QED
      BY <3>1, <3>2
  <2> QED
    BY <1>4, <2>1 DEF UniqueFold
<1>6. PICK h : UniqueFold(h, l, new) /\ AppendUnique(l, new) = h[S]
  BY <1>5, UniqueUnfolds
<1>7. h[{}] \in A
  BY <1>1, <1>6 DEF UniqueFold, UniqueStep
<1>8. ASSUME NEW s \in SUBSET S, s # {}, h[s \ {ch[s]}] \in A PROVE h[s] \in A
  <2>1. ch[s] = Max(s) /\ Max(s) \in S
    BY <1>0, <1>8
  <2>2. h[s] = Added(h[s \ {Max(s)}], new[Max(s)])
    BY <1>6, <1>8 DEF UniqueFold, UniqueStep
  <2> QED
    BY <1>2, <1>8, <2>1, <2>2
<1>9. h[S] \in A
  <2> HIDE DEF S, A, ch
  <2> QED
    BY <1>0, <1>7, <1>8, FoldStays
<1> QED
  BY <1>6, <1>9


\* The entries of the buckets that are visited, one bucket after the other: a
\* step of the fold, ...
BucketStep(h, s, t, order) ==
  IF s = {} THEN <<>> ELSE LET x == Max(s) IN h[s \ {x}] \o t[order[x]]

BucketFold(h, t, order) == h = [s \in SUBSET DOMAIN order |-> BucketStep(h, s, t, order)]

AllOf(t, order) == FoldLeft(LAMBDA l, b : l \o t[b], <<>>, order)

\* The fold over the buckets satisfies its equation, if anything does, ...
LEMMA BucketsUnfold ==
  ASSUME NEW t, NEW order, NEW g, BucketFold(g, t, order)
  PROVE  \E h : BucketFold(h, t, order) /\ AllOf(t, order) = h[DOMAIN order]
<1> DEFINE h == CHOOSE h : h = [s \in SUBSET DOMAIN order |-> BucketStep(h, s, t, order)]
<1>1. AllOf(t, order) = h[DOMAIN order]
  BY DEF AllOf, FoldLeft, MapThenFoldSet, BucketStep
<1>2. h = [s \in SUBSET DOMAIN order |-> BucketStep(h, s, t, order)]
  BY Zenon DEF BucketFold
<1>3. BucketFold(h, t, order)
  BY <1>2, Zenon DEF BucketFold
<1> QED
  BY <1>1, <1>3, Zenon

\* ... and that it is a list of entries.
LEMMA AllEntries ==
  ASSUME NEW t \in Tables, NEW order \in Seq(Buckets)
  PROVE  AllOf(t, order) \in Seq(Entries)
<1> DEFINE S == DOMAIN order
           A == Seq(Entries)
           ch == [s \in SUBSET S |-> Max(s)]
           F == [x \in S |-> [a \in A |-> a \o t[order[x]]]]
<1>0. IsFiniteSet(S) /\ (\A s \in SUBSET S : s # {} => ch[s] \in s) /\ \A x \in S : order[x] \in Buckets
  BY LastPlace
<1>1. <<>> \in A
  OBVIOUS
<1>2. \A x \in S, a \in A : a \o t[order[x]] \in A
  <2>1. \A x \in S : t[order[x]] \in Seq(Entries)
    BY <1>0 DEF Tables
  <2> QED
    BY <2>1, ConcatProperties
<1>3. \A x \in S, a \in A : F[x][a] \in A
  BY <1>2
<1>4. PICK g \in [SUBSET S -> A] : Folds(g, S, <<>>, F, ch)
  <2> HIDE DEF S, A, ch, F
  <2> QED
    BY <1>0, <1>1, <1>3, FoldExists
<1>5. BucketFold(g, t, order)
  <2>1. ASSUME NEW s \in SUBSET S PROVE g[s] = BucketStep(g, s, t, order)
    <3>1. CASE s = {}
      BY <1>4, <3>1 DEF BucketStep, Folds
    <3>2. CASE s # {}
      <4>1. ch[s] = Max(s) /\ Max(s) \in S /\ g[s \ {Max(s)}] \in A
        BY <1>0, <1>4, <3>2
      <4>2. g[s] = F[Max(s)][g[s \ {Max(s)}]]
        BY <1>4, <3>2, <4>1 DEF Folds
      <4>3. F[Max(s)][g[s \ {Max(s)}]] = g[s \ {Max(s)}] \o t[order[Max(s)]]
        BY <4>1
      <4> QED
        BY <3>2, <4>2, <4>3 DEF BucketStep
    <3> QED
      BY <3>1, <3>2
  <2> QED
    BY <1>4, <2>1 DEF BucketFold
<1>6. PICK h : BucketFold(h, t, order) /\ AllOf(t, order) = h[S]
  BY <1>5, BucketsUnfold
<1>7. h[{}] \in A
  BY <1>1, <1>6 DEF BucketFold, BucketStep
<1>8. ASSUME NEW s \in SUBSET S, s # {}, h[s \ {ch[s]}] \in A PROVE h[s] \in A
  <2>1. ch[s] = Max(s) /\ Max(s) \in S
    BY <1>0, <1>8
  <2>2. h[s] = h[s \ {Max(s)}] \o t[order[Max(s)]]
    BY <1>6, <1>8 DEF BucketFold, BucketStep
  <2> QED
    BY <1>2, <1>8, <2>1, <2>2
<1>9. h[S] \in A
  <2> HIDE DEF S, A, ch
  <2> QED
    BY <1>0, <1>7, <1>8, FoldStays
<1> QED
  BY <1>6, <1>9

-------------------------------------------------------------------------------
(* The routing table. *)

\* The smaller of two numbers.
LEMMA MinOfTwo ==
  ASSUME NEW a \in Int, NEW b \in Int
  PROVE  /\ Min({a, b}) \in {a, b} /\ Min({a, b}) <= a /\ Min({a, b}) <= b
<1> DEFINE m == Min({a, b})
<1>1. \E x \in {a, b} : \A y \in {a, b} : x <= y
  <2>1. CASE a <= b
    BY <2>1
  <2>2. CASE b <= a
    BY <2>2
  <2> QED
    BY <2>1, <2>2
<1>2. m = CHOOSE x \in {a, b} : \A y \in {a, b} : x <= y
  BY DEF Min
<1>3. m \in {a, b} /\ \A y \in {a, b} : m <= y
  BY <1>1, <1>2
<1> QED
  BY <1>3

\* getNearestNodes visits buckets of the table only.
LEMMA VisitedBuckets ==
  ASSUME NEW index \in Buckets
  PROVE  Visited(index) \in Seq(Buckets)
<1> DEFINE low == Min({index, B - 1 - index})
           both == 1 + 2 * low
<1>1. B \in Nat \ {0} /\ index \in Int /\ 0 <= index /\ index <= B - 1 /\ Buckets = 0 .. B - 1
  BY RoutingTableAssumption DEF Buckets
<1>2. low \in Nat /\ low <= index /\ low <= B - 1 - index
      /\ (low = index \/ low = B - 1 - index)
  <2>1. B - 1 - index \in Int
    BY <1>1
  <2>2. low \in {index, B - 1 - index} /\ low <= index /\ low <= B - 1 - index
    BY <1>1, <2>1, MinOfTwo
  <2> HIDE DEF low
  <2> QED
    BY <1>1, <2>2
<1>3. Visited(index) = [i \in 1 .. B |->
         IF i > both THEN IF 2 * index < B THEN i - 1 ELSE B - i
         ELSE IF i % 2 = 0 THEN index - i \div 2 ELSE index + i \div 2]
  BY DEF Visited
<1> HIDE DEF low
<1>4. ASSUME NEW i \in 1 .. B
      PROVE  (IF i > both THEN IF 2 * index < B THEN i - 1 ELSE B - i
              ELSE IF i % 2 = 0 THEN index - i \div 2 ELSE index + i \div 2) \in Buckets
  <2>1. CASE i > both
    BY <1>1, <2>1
  <2>2. CASE ~(i > both)
    <3>1. i \div 2 \in Int /\ 0 <= i \div 2 /\ i \div 2 <= low
      BY <1>1, <1>2, <2>2
    <3>2. index - i \div 2 \in 0 .. B - 1 /\ index + i \div 2 \in 0 .. B - 1
      BY <1>1, <1>2, <3>1
    <3> QED
      BY <1>1, <2>2, <3>2
  <2> QED
    BY <2>1, <2>2
<1>5. Visited(index) \in [1 .. B -> Buckets]
  BY <1>3, <1>4
<1> QED
  BY <1>1, <1>5, SeqDef

\* The nodes of an answer, or those LookUP begins with: each id once, the nearest first.
LEMMA NearestNodes ==
  ASSUME NEW t \in Tables, NEW self \in Ids, NEW num \in Nat, NEW target \in Ids
  PROVE  LET l == getNearestNodes(t, self, num, target) IN
         l \in Seq(Entries) /\ Unique(l)
<1> DEFINE order == Visited(getFirstDifBitBucketIndex(self, target))
           all == AllOf(t, order)
           some == SubSeq(all, 1, Min({num, Len(all)}))
           once == AppendUnique(<<>>, some)
<1>1. getNearestNodes(t, self, num, target) = Sorted(once, target)
  BY DEF getNearestNodes, AllOf
<1>2. all \in Seq(Entries)
  BY BucketOfId, VisitedBuckets, AllEntries
<1> HIDE DEF all
<1>3. some \in Seq(Entries)
  <2>1. Len(all) \in Nat /\ \A i \in 1 .. Len(all) : all[i] \in Entries
    BY <1>2, EntriesInList
  <2> DEFINE m == Min({num, Len(all)})
  <2>2. m \in Int /\ m <= Len(all)
    <3>1. num \in Int /\ Len(all) \in Int
      BY <2>1
    <3>2. m \in {num, Len(all)} /\ m <= Len(all)
      BY <3>1, MinOfTwo
    <3> HIDE DEF m
    <3> QED
      BY <3>1, <3>2
  <2> HIDE DEF m
  <2>3. \A i \in 1 .. m : all[i] \in Entries
    BY <2>1, <2>2
  <2>4. SubSeq(all, 1, m) \in Seq(Entries)
    BY <2>2, <2>3, SubSeqProperties
  <2> QED
    BY <2>4 DEF m
<1> HIDE DEF some
<1>4. once \in Seq(Entries) /\ Unique(once)
  <2>1. <<>> \in Seq(Entries) /\ Unique(<<>>)
    BY DEF Unique
  <2>2. once \in Grown(<<>>)
    BY <1>3, <2>1, AppendUniqueGrows
  <2> QED
    BY <2>2 DEF Grown
<1> HIDE DEF once
<1> QED
  BY <1>1, <1>4, SortedPermutes


\* An entry that moves to the end.
LEMMA MovedToEnd ==
  ASSUME NEW l \in Seq(Entries), NEW s \in DOMAIN l
  PROVE  LET m == Append(RemoveAt(l, s), l[s]) IN
         /\ m \in Seq(Entries)
         /\ \A i \in DOMAIN m : m[i] \in Range(l)
         /\ Unique(l) => Unique(m)
<1> DEFINE n == Len(l)
           x == SubSeq(l, 1, s - 1)
           z == SubSeq(l, s + 1, n)
           r == x \o z
           m == Append(r, l[s])
           from == [i \in 1 .. n |-> IF i = n THEN s ELSE IF i < s THEN i ELSE i + 1]
<1>1. n \in Nat /\ DOMAIN l = 1 .. n /\ s \in 1 .. n /\ \A i \in 1 .. n : l[i] \in Entries
  BY EntriesInList
<1>2. RemoveAt(l, s) = r
  BY DEF RemoveAt
<1> HIDE DEF n
<1>3. x \in Seq(Entries) /\ Len(x) = s - 1 /\ \A i \in 1 .. s - 1 : x[i] = l[i]
  <2>1. \A i \in 1 .. s - 1 : l[i] \in Entries
    BY <1>1
  <2>2. /\ x \in Seq(Entries) /\ Len(x) = IF 1 <= s - 1 THEN s - 1 - 1 + 1 ELSE 0
        /\ \A i \in 1 .. s - 1 - 1 + 1 : x[i] = l[1 + i - 1]
    BY <1>1, <2>1, SubSeqProperties
  <2> HIDE DEF x
  <2> QED
    BY <1>1, <2>2
<1>4. z \in Seq(Entries) /\ Len(z) = n - s /\ \A i \in 1 .. n - s : z[i] = l[s + i]
  <2>1. \A i \in s + 1 .. n : l[i] \in Entries
    BY <1>1
  <2>2. /\ z \in Seq(Entries) /\ Len(z) = IF s + 1 <= n THEN n - (s + 1) + 1 ELSE 0
        /\ \A i \in 1 .. n - (s + 1) + 1 : z[i] = l[(s + 1) + i - 1]
    BY <1>1, <2>1, SubSeqProperties
  <2> HIDE DEF z
  <2>3. n - (s + 1) + 1 = n - s /\ \A i \in 1 .. n - s : (s + 1) + i - 1 = s + i
    BY <1>1
  <2>4. Len(z) = n - s
    BY <1>1, <2>2
  <2>5. ASSUME NEW i \in 1 .. n - s PROVE z[i] = l[s + i]
    <3>1. i \in 1 .. n - (s + 1) + 1
      BY <2>3
    <3> QED
      BY <2>2, <2>3, <3>1
  <2> QED
    BY <2>2, <2>4, <2>5
<1> HIDE DEF x, z
<1>5. /\ r \in Seq(Entries) /\ Len(r) = n - 1
      /\ \A i \in 1 .. n - 1 : r[i] = IF i <= s - 1 THEN x[i] ELSE z[i - (s - 1)]
  <2>1. /\ r \in Seq(Entries) /\ Len(r) = Len(x) + Len(z)
        /\ \A i \in 1 .. Len(x) + Len(z) : r[i] = IF i <= Len(x) THEN x[i] ELSE z[i - Len(x)]
    BY <1>3, <1>4, ConcatProperties
  <2> HIDE DEF r
  <2>2. Len(x) + Len(z) = n - 1
    BY <1>1, <1>3, <1>4
  <2> QED
    BY <1>3, <2>1, <2>2
<1> HIDE DEF r
<1>6. /\ m \in Seq(Entries) /\ Len(m) = n
      /\ \A i \in 1 .. n - 1 : m[i] = r[i]
      /\ m[n] = l[s]
  <2>1. l[s] \in Entries
    BY <1>1
  <2>2. /\ m \in Seq(Entries) /\ Len(m) = Len(r) + 1
        /\ \A i \in 1 .. Len(r) : m[i] = r[i]
        /\ m[Len(r) + 1] = l[s]
    BY <1>5, <2>1, AppendProperties
  <2> HIDE DEF m
  <2>3. Len(r) + 1 = n /\ Len(r) = n - 1
    BY <1>1, <1>5
  <2> QED
    BY <2>2, <2>3
<1> HIDE DEF m
<1>7. \A i \in 1 .. n : from[i] \in 1 .. n /\ m[i] = l[from[i]]
  <2>1. ASSUME NEW i \in 1 .. n, i # n, i < s PROVE m[i] = l[i]
    BY <1>1, <1>3, <1>5, <1>6, <2>1
  <2>2. ASSUME NEW i \in 1 .. n, i # n, ~(i < s) PROVE m[i] = l[i + 1] /\ i + 1 \in 1 .. n
    <3>1. i \in 1 .. n - 1 /\ ~(i <= s - 1) /\ i - (s - 1) \in 1 .. n - s /\ s + (i - (s - 1)) = i + 1
      BY <1>1, <2>2
    <3>2. m[i] = z[i - (s - 1)] /\ z[i - (s - 1)] = l[s + (i - (s - 1))]
      BY <1>4, <1>5, <1>6, <3>1
    <3> QED
      BY <1>1, <3>1, <3>2
  <2> QED
    BY <1>1, <1>6, <2>1, <2>2
<1>8. \A i, j \in 1 .. n : from[i] = from[j] => i = j
  BY <1>1
<1> HIDE DEF from
<1>9. DOMAIN m = 1 .. n
  BY <1>6, EntriesInList
<1>10. \A i \in DOMAIN m : m[i] \in Range(l)
  BY <1>1, <1>7, <1>9 DEF Range
<1>11. Unique(l) => Unique(m)
  BY <1>1, <1>7, <1>8, <1>9 DEF Unique
<1> QED
  BY <1>2, <1>6, <1>10, <1>11 DEF m

\* A table that has each id once, in the bucket of the id.
InPlace(t, self) == t \in Tables /\ \A b \in Buckets : OneEach(t[b], self, b)

\* It stays so when a node is heard of.
LEMMA UpdateKeeps ==
  ASSUME NEW self \in Ids, NEW t, InPlace(t, self), NEW e \in Entries
  PROVE  InPlace(updateBucketOfNode(t, self, e), self)
<1> DEFINE b == getFirstDifBitBucketIndex(self, e.id)
           l == t[b]
           i == nodeInBucket(l, e.id)
           m == IF HasId(l, e.id) THEN Append(RemoveAt(l, i), l[i]) ELSE Append(l, e)
           new == updateBucketOfNode(t, self, e)
<1>1. new = [t EXCEPT ![b] = m]
  BY DEF updateBucketOfNode
<1>2. e.id \in Ids /\ b \in Buckets
  <2>1. e.id \in Ids
    BY DEF Entries
  <2> QED
    BY <2>1, BucketOfId
<1>3. l \in Seq(Entries) /\ OneEach(l, self, b)
  BY <1>2 DEF InPlace, Tables
<1>4. m \in Seq(Entries) /\ OneEach(m, self, b)
  <2> HIDE DEF l, i
  <2>1. CASE HasId(l, e.id)
    <3>1. i \in DOMAIN l
      BY <2>1 DEF i, nodeInBucket, HasId
    <3>2. /\ m \in Seq(Entries) /\ \A k \in DOMAIN m : m[k] \in Range(l)
          /\ Unique(m)
      BY <1>3, <2>1, <3>1, MovedToEnd DEF OneEach
    <3> HIDE DEF m
    <3>3. \A k \in DOMAIN m : getFirstDifBitBucketIndex(self, m[k].id) = b
      BY <1>3, <3>2 DEF OneEach, Range
    <3> QED
      BY <3>2, <3>3 DEF OneEach
  <2>2. CASE ~HasId(l, e.id)
    <3>1. l \in Grown(l)
      <4>1. Len(l) \in Nat
        BY <1>3, EntriesInList
      <4> QED
        BY <1>3, <4>1 DEF Grown, OneEach
    <3>2. m \in Seq(Entries) /\ Unique(m)
      <4>1. m = Added(l, e)
        BY <2>2 DEF Added
      <4> QED
        BY <1>3, <3>1, <4>1, AddedGrows DEF Grown
    <3>3. /\ Len(m) = Len(l) + 1 /\ Len(l) \in Nat
          /\ \A k \in 1 .. Len(l) : m[k] = l[k]
          /\ m[Len(l) + 1] = e
      BY <1>3, <2>2, AppendProperties, EntriesInList
    <3>4. DOMAIN m = 1 .. Len(l) + 1 /\ DOMAIN l = 1 .. Len(l)
      BY <1>3, <3>2, <3>3, EntriesInList
    <3> HIDE DEF m, b
    <3>5. \A k \in DOMAIN m : getFirstDifBitBucketIndex(self, m[k].id) = b
      <4>1. \A k \in DOMAIN m : k \in 1 .. Len(l) \/ k = Len(l) + 1
        BY <3>3, <3>4
      <4> QED
        BY <1>3, <3>3, <3>4, <4>1 DEF OneEach, b
    <3> QED
      BY <3>2, <3>5 DEF OneEach
  <2> QED
    BY <2>1, <2>2
<1> HIDE DEF m, b, new
<1>5. new \in Tables
  BY <1>1, <1>2, <1>4 DEF InPlace, Tables
<1>6. \A c \in Buckets : OneEach(new[c], self, c)
  BY <1>1, <1>2, <1>4 DEF InPlace, Tables
<1> QED
  BY <1>5, <1>6 DEF new, InPlace


-------------------------------------------------------------------------------
(* The store of a node that was told of pairs. *)

\* A step of the fold over the pairs, ...
TellStep(h, s) ==
  IF s = {} THEN NewKStore ELSE LET p == CHOOSE p \in s : TRUE IN Store(h[s \ {p}], p[1], p[2])

TellFold(h, S) == h = [s \in SUBSET S |-> TellStep(h, s)]

ToldOf(S) == FoldSet(LAMBDA p, st : Store(st, p[1], p[2]), NewKStore, S)

\* The fold over the pairs satisfies its equation, if anything does, ...
LEMMA TellUnfolds ==
  ASSUME NEW S, NEW g, TellFold(g, S)
  PROVE  \E h : TellFold(h, S) /\ ToldOf(S) = h[S]
<1> DEFINE h == CHOOSE h : h = [s \in SUBSET S |-> TellStep(h, s)]
<1>1. ToldOf(S) = h[S]
  BY DEF ToldOf, FoldSet, MapThenFoldSet, TellStep
<1>2. h = [s \in SUBSET S |-> TellStep(h, s)]
  BY Zenon DEF TellFold
<1>3. TellFold(h, S)
  BY <1>2, Zenon DEF TellFold
<1> QED
  BY <1>1, <1>3, Zenon

\* A store of which nothing grows old that holds pairs of S only.
Fresh(S) == {st \in KStores : Agrees(st) /\ Stored(st) \subseteq S /\ st.due = {}}

\* ... and the store it comes to.
LEMMA ToldStore ==
  ASSUME NEW S \in SUBSET Pairs, IsFiniteSet(S)
  PROVE  ToldOf(S) \in Fresh(S)
<1> DEFINE A == Fresh(S)
           ch == [s \in SUBSET S |-> CHOOSE p \in s : TRUE]
           F == [p \in S |-> [a \in A |-> Store(a, p[1], p[2])]]
<1>0. \A s \in SUBSET S : s # {} => ch[s] \in s
  OBVIOUS
<1>1. NewKStore \in A
  <2>1. NewKStore \in KStores
    BY DEF NewKStore, KStores
  <2>2. Stored(NewKStore) = {} /\ NewKStore.due = {} /\ NewKStore.timed = {}
    BY DEF Stored, NewKStore, Pairs
  <2>3. \A k \in Keys : Ascending(NewKStore.data[k])
    BY DEF NewKStore, Ascending
  <2> QED
    BY <2>1, <2>2, <2>3 DEF Agrees, Fresh
<1>2. ASSUME NEW p \in S, NEW a \in A PROVE Store(a, p[1], p[2]) \in A
  <2>1. p[1] \in Keys /\ p[2] \in Values /\ <<p[1], p[2]>> = p
    BY DEF Pairs
  <2>2. a \in KStores /\ Agrees(a) /\ Stored(a) \subseteq S /\ a.due = {}
    BY DEF Fresh
  <2> DEFINE new == Store(a, p[1], p[2])
  <2>3. /\ new \in KStores /\ Agrees(new)
        /\ Stored(new) = Stored(a) \cup {<<p[1], p[2]>>} /\ new.due \subseteq a.due
    BY <2>1, <2>2, StoreAdds
  <2> HIDE DEF new
  <2>4. Stored(new) \subseteq S /\ new.due = {}
    BY <2>1, <2>2, <2>3
  <2> QED
    BY <2>3, <2>4 DEF Fresh, new
<1>3. \A x \in S, a \in A : F[x][a] \in A
  BY <1>2
<1>4. PICK g \in [SUBSET S -> A] : Folds(g, S, NewKStore, F, ch)
  <2> HIDE DEF A, ch, F
  <2> QED
    BY <1>0, <1>1, <1>3, FoldExists
<1>5. TellFold(g, S)
  <2>1. ASSUME NEW s \in SUBSET S PROVE g[s] = TellStep(g, s)
    <3>1. CASE s = {}
      BY <1>4, <3>1 DEF TellStep, Folds
    <3>2. CASE s # {}
      <4> DEFINE p == CHOOSE p \in s : TRUE
      <4>1. ch[s] = p /\ p \in S /\ g[s \ {p}] \in A
        BY <1>0, <1>4, <3>2
      <4>2. g[s] = F[p][g[s \ {p}]]
        BY <1>4, <3>2, <4>1 DEF Folds
      <4>3. F[p][g[s \ {p}]] = Store(g[s \ {p}], p[1], p[2])
        BY <4>1
      <4> QED
        BY <3>2, <4>2, <4>3 DEF TellStep
    <3> QED
      BY <3>1, <3>2
  <2> QED
    BY <1>4, <2>1 DEF TellFold
<1>6. PICK h : TellFold(h, S) /\ ToldOf(S) = h[S]
  BY <1>5, TellUnfolds
<1>7. h[{}] \in A
  BY <1>1, <1>6 DEF TellFold, TellStep
<1>8. ASSUME NEW s \in SUBSET S, s # {}, h[s \ {ch[s]}] \in A PROVE h[s] \in A
  <2> DEFINE p == CHOOSE p \in s : TRUE
  <2>1. ch[s] = p /\ p \in S
    BY <1>0, <1>8
  <2>2. h[s] = Store(h[s \ {p}], p[1], p[2])
    BY <1>6, <1>8 DEF TellFold, TellStep
  <2> HIDE DEF A, p, ch
  <2> QED
    BY <1>2, <1>8, <2>1, <2>2
<1>9. h[S] \in A
  <2> HIDE DEF A, ch
  <2> QED
    BY <1>0, <1>7, <1>8, FoldStays
<1> QED
  BY <1>6, <1>9

===============================================================================
