------------------------------ MODULE ConfigUiProofs ------------------------------
(***************************************************************************)
(* Proofs about ConfigUi and the helpers it takes its rows from, for any   *)
(* names, labels and numbers, any width of a long and any bound.           *)
(*                                                                         *)
(* A sorted table has at least one order, every order lists each key once, *)
(* and a neighbour is one of the keys next to it in some order.  What the  *)
(* neighbours are then follows from the places in that order.              *)
(***************************************************************************)
EXTENDS ConfigUi, FiniteSetTheorems, TLAPS

------------------------------------------------------------------------------
(* Sorted tables                                                           *)

\* A table of numbers with finitely many keys.
IsTable(table) ==
    /\ IsFiniteSet(DOMAIN table)
    /\ table \in [DOMAIN table -> Nat]
    /\ NoKey \notin DOMAIN table

\* An order of the keys: its length is their number, and it leads through them
\* in order of what they are sorted by.
LEMMA OrderShape ==
    ASSUME NEW table, IsTable(table), NEW s \in Sorted(table)
    PROVE  /\ Len(s) = Cardinality(DOMAIN table) /\ Len(s) \in Nat
           /\ s \in [1 .. Len(s) -> DOMAIN table]
           /\ \A i, j \in 1 .. Len(s) : i # j => s[i] # s[j]
           /\ \A i, j \in 1 .. Len(s) : i < j => table[s[i]] <= table[s[j]]
<1> DEFINE D == DOMAIN table
           n == Cardinality(D)
<1>1. n \in Nat
  BY FS_CardinalityType DEF IsTable
<1>2. s \in [1 .. n -> D] /\ \A i, j \in 1 .. n : i # j => s[i] # s[j]
  BY DEF Sorted, SetToSeqs
<1>3. \A i, j \in 1 .. Len(s) : i < j => table[s[i]] <= table[s[j]]
  BY DEF Sorted
<1> HIDE DEF D, n
<1>4. s \in Seq(D) /\ Len(s) = n
  BY <1>1, <1>2
<1>5. s \in [1 .. Len(s) -> D] /\ \A i, j \in 1 .. Len(s) : i # j => s[i] # s[j]
  BY <1>2, <1>4
<1> QED BY <1>1, <1>3, <1>4, <1>5 DEF D, n

\* Every key has its place.
LEMMA OrderComplete ==
    ASSUME NEW table, IsTable(table), NEW s \in Sorted(table), NEW key \in DOMAIN table
    PROVE  \E i \in 1 .. Len(s) : s[i] = key
<1> DEFINE n == Len(s)
<1>1. /\ n = Cardinality(DOMAIN table) /\ n \in Nat
      /\ s \in [1 .. n -> DOMAIN table]
      /\ \A i, j \in 1 .. n : i # j => s[i] # s[j]
  BY OrderShape
<1> HIDE DEF n
<1>2. s \in Injection(1 .. n, DOMAIN table)
  <2>1. DOMAIN s = 1 .. n
    BY <1>1
  <2>2. \A i, j \in DOMAIN s : s[i] = s[j] => i = j
    BY <1>1, <2>1, Zenon
  <2>3. IsInjective(s)
    BY <2>2, Zenon DEF IsInjective
  <2> QED BY <1>1, <2>3, Zenon DEF Injection
<1>3. Cardinality(1 .. n) = n
  <2>1. 1 \in Int /\ n \in Int
    BY <1>1
  <2>2. Cardinality(1 .. n) = IF 1 > n THEN 0 ELSE n - 1 + 1
    BY ONLY <2>1, FS_Interval, Zenon
  <2> QED BY <1>1, <2>2
<1>4. s \in Surjection(1 .. n, DOMAIN table)
  BY <1>1, <1>2, <1>3, FS_Injection, Zenon DEF IsTable
<1> QED BY <1>4 DEF Surjection, n

\* Index finds the place, which is the only one.
LEMMA IndexFinds ==
    ASSUME NEW table, IsTable(table), NEW s \in Sorted(table), NEW key \in DOMAIN table
    PROVE  /\ Index(s, key) \in 1 .. Len(s) /\ s[Index(s, key)] = key
           /\ \A i \in 1 .. Len(s) : s[i] = key => i = Index(s, key)
<1>1. Index(s, key) \in 1 .. Len(s) /\ s[Index(s, key)] = key
  BY OrderComplete, Zenon DEF Index
<1>2. \A i, j \in 1 .. Len(s) : i # j => s[i] # s[j]
  BY OrderShape
<1> QED BY <1>1, <1>2, Zenon

\* A set of natural numbers that is not empty has a least element.
LEMMA LeastExists ==
    ASSUME NEW S \in SUBSET Nat, S # {}
    PROVE  \E n \in S : \A m \in S : n <= m
<1> DEFINE R == {xy \in Nat \X Nat : xy[1] < xy[2]}
<1>1. IsWellFoundedOn(R, Nat)
  BY NatLessThanWellFounded DEF OpToRel
<1>2. \E n \in S : \A m \in S : ~(<<m, n>> \in R)
  BY <1>1, WFMin
<1>3. ASSUME NEW n \in Nat, NEW m \in Nat, m < n
      PROVE  <<m, n>> \in R
  BY <1>3
<1> HIDE DEF R
<1>4. PICK n \in S : \A m \in S : ~(<<m, n>> \in R)
  BY <1>2
<1>5. \A m \in S : ~(m < n)
  BY <1>3, <1>4
<1> QED BY <1>5

\* Induction, on the set of the numbers that something holds for.
LEMMA NatSet ==
    ASSUME NEW S \in SUBSET Nat, 0 \in S, \A n \in S : n + 1 \in S
    PROVE  S = Nat
<1>1. SUFFICES ASSUME Nat \ S # {} PROVE FALSE
  OBVIOUS
<1>2. PICK n \in Nat \ S : \A m \in Nat \ S : n <= m
  BY <1>1, LeastExists
<1>3. n # 0 /\ n - 1 \in Nat
  BY <1>2
<1>4. n - 1 \in S
  BY <1>2, <1>3
<1>5. (n - 1) + 1 \in S
  BY <1>4
<1> QED BY <1>2, <1>5

\* The orders of some of the keys.
OrdersOf(table, S) ==
    {s \in SetToSeqs(S) :
        \A i, j \in 1 .. Cardinality(S) : i < j => table[s[i]] <= table[s[j]]}

\* A key with the least number goes before an order of the others.
LEMMA OrderGrows ==
    ASSUME NEW table, IsTable(table), NEW S \in SUBSET DOMAIN table, NEW m \in S,
           \A k \in S : table[m] <= table[k], NEW s \in OrdersOf(table, S \ {m})
    PROVE  OrdersOf(table, S) # {}
<1> DEFINE n == Cardinality(S \ {m})
           t == [i \in 1 .. n + 1 |-> IF i = 1 THEN m ELSE s[i - 1]]
<1>1. IsFiniteSet(S)
  BY FS_Subset DEF IsTable
<1>2. n \in Nat /\ Cardinality(S) = n + 1
  <2>1. Cardinality(S) \in Nat /\ n = Cardinality(S) - 1
    BY <1>1, FS_RemoveElement, FS_CardinalityType
  <2>2. n \in Nat
    BY <1>1, FS_RemoveElement, FS_CardinalityType
  <2> QED BY <2>1, <2>2
<1>3. /\ s \in [1 .. n -> S \ {m}]
      /\ \A i, j \in 1 .. n : i # j => s[i] # s[j]
      /\ \A i, j \in 1 .. n : i < j => table[s[i]] <= table[s[j]]
  BY DEF OrdersOf, SetToSeqs
<1> HIDE DEF n
<1>4. \A i \in 2 .. n + 1 : i - 1 \in 1 .. n /\ s[i - 1] \in S /\ s[i - 1] # m
  <2>1. \A i \in 2 .. n + 1 : i - 1 \in 1 .. n
    BY <1>2
  <2> QED BY <1>3, <2>1
<1>5. \A i \in 1 .. n + 1 : i = 1 \/ i \in 2 .. n + 1
  BY <1>2
<1>6. t \in [1 .. n + 1 -> S]
  BY <1>4, <1>5
<1>7. ASSUME NEW i \in 1 .. n + 1, NEW j \in 1 .. n + 1, i < j
      PROVE  t[i] # t[j] /\ table[t[i]] <= table[t[j]]
  <2>1. j \in 2 .. n + 1 /\ t[j] = s[j - 1]
    BY <1>2, <1>7
  <2>2. CASE i = 1
    BY <1>4, <2>1, <2>2
  <2>3. CASE i # 1
    <3>1. i \in 2 .. n + 1 /\ t[i] = s[i - 1] /\ i - 1 < j - 1
      BY <1>2, <1>7, <2>3
    <3>2. i - 1 \in 1 .. n /\ j - 1 \in 1 .. n /\ i - 1 # j - 1
      BY <1>2, <2>1, <3>1
    <3> QED BY <1>3, <2>1, <3>1, <3>2
  <2> QED BY <2>2, <2>3
<1> HIDE DEF t
<1>8. \A i, j \in 1 .. n + 1 : i # j => t[i] # t[j]
  <2>1. \A i, j \in 1 .. n + 1 : i # j => i < j \/ j < i
    BY <1>2
  <2> QED BY <1>7, <2>1
<1>9. t \in OrdersOf(table, S)
  BY <1>2, <1>6, <1>7, <1>8 DEF OrdersOf, SetToSeqs
<1> QED BY <1>9

\* A table has an order.
LEMMA OrderExists ==
    ASSUME NEW table, IsTable(table)
    PROVE  Sorted(table) # {}
<1> DEFINE D == DOMAIN table
           G == {n \in Nat : \A S \in SUBSET D : Cardinality(S) = n => OrdersOf(table, S) # {}}
<1>1. 0 \in G
  <2> SUFFICES ASSUME NEW S \in SUBSET D, Cardinality(S) = 0 PROVE OrdersOf(table, S) # {}
    OBVIOUS
  <2>1. S = {}
    BY FS_Subset, FS_EmptySet DEF IsTable
  <2>2. 1 .. 0 = {}
    OBVIOUS
  <2>3. [i \in {} |-> 0] \in [{} -> S]
    BY <2>1
  <2>4. [i \in {} |-> 0] \in OrdersOf(table, S)
    BY <2>1, <2>2, <2>3 DEF OrdersOf, SetToSeqs
  <2> QED BY <2>4
<1>2. \A n \in G : n + 1 \in G
  <2> SUFFICES ASSUME NEW n \in G, NEW S \in SUBSET D, Cardinality(S) = n + 1
               PROVE  OrdersOf(table, S) # {}
    OBVIOUS
  <2>1. n \in Nat /\ \A T \in SUBSET D : Cardinality(T) = n => OrdersOf(table, T) # {}
    OBVIOUS
  <2>2. IsFiniteSet(S) /\ S # {}
    <3>1. IsFiniteSet(S)
      BY FS_Subset DEF IsTable
    <3>2. n + 1 # 0
      BY <2>1
    <3> QED BY <3>1, <3>2, FS_EmptySet
  <2> DEFINE V == {table[k] : k \in S}
  <2>3. V \in SUBSET Nat /\ V # {}
    BY <2>2 DEF IsTable
  <2>4. PICK v \in V : \A w \in V : v <= w
    BY <2>3, LeastExists
  <2>5. PICK m \in S : v = table[m]
    BY <2>4
  <2>6. \A k \in S : table[m] <= table[k]
    BY <2>4, <2>5
  <2>7. Cardinality(S \ {m}) = n
    <3>1. Cardinality(S \ {m}) = n + 1 - 1
      BY <2>2, FS_RemoveElement
    <3> QED BY <2>1, <3>1
  <2>8. OrdersOf(table, S \ {m}) # {}
    BY <2>1, <2>7
  <2> QED BY <2>6, <2>8, OrderGrows
<1>3. G = Nat
  <2> HIDE DEF G
  <2>1. G \in SUBSET Nat
    BY DEF G
  <2> QED BY <1>1, <1>2, <2>1, NatSet
<1>4. Cardinality(D) \in Nat
  BY FS_CardinalityType DEF IsTable
<1>5. PICK s : s \in OrdersOf(table, D)
  BY <1>3, <1>4
<1>6. Len(s) = Cardinality(D)
  <2> DEFINE n == Cardinality(D)
  <2>1. s \in [1 .. n -> D]
    BY <1>5 DEF OrdersOf, SetToSeqs
  <2> HIDE DEF n, D
  <2>2. n \in Nat
    BY <1>4 DEF n
  <2>3. Len(s) = n
    BY <2>1, <2>2
  <2> QED BY <2>3 DEF n
<1>7. s \in Sorted(table)
  BY <1>5, <1>6, Zenon DEF OrdersOf, Sorted
<1> QED BY <1>7

------------------------------------------------------------------------------
(* Neighbours                                                              *)

\* Some order has one key right before the other.
Adjacent(table, key, next) ==
    \E s \in Sorted(table) : \E i \in 1 .. Len(s) - 1 : s[i] = key /\ s[i + 1] = next

\* Some order ends, or begins, with the key.
Ends(table, key) == \E s \in Sorted(table) : s # <<>> /\ s[Len(s)] = key
Begins(table, key) == \E s \in Sorted(table) : s # <<>> /\ s[1] = key

\* The order is not empty, because the key is in it.
LEMMA OrderHasEnds ==
    ASSUME NEW table, IsTable(table), NEW s \in Sorted(table), NEW key \in DOMAIN table
    PROVE  s # <<>> /\ Len(s) \in Nat /\ 1 \in 1 .. Len(s) /\ Len(s) \in 1 .. Len(s)
<1>1. PICK i \in 1 .. Len(s) : s[i] = key
  BY OrderComplete
<1>2. Len(s) \in Nat
  BY OrderShape
<1>3. 1 \in 1 .. Len(s) /\ Len(s) \in 1 .. Len(s)
  BY <1>1, <1>2
<1>4. s # <<>>
  <2>1. Len(<<>>) = 0
    OBVIOUS
  <2> QED BY <1>3, <2>1
<1> QED BY <1>2, <1>3, <1>4

LEMMA NextIs ==
    ASSUME NEW table, IsTable(table), NEW key \in DOMAIN table, NEW n
    PROVE  n \in GetNext(table, key) <=>
              IF n = NoKey THEN Ends(table, key) ELSE Adjacent(table, key, n)
<1> DEFINE After(s) == LET i == Index(s, key) IN IF i = Len(s) THEN NoKey ELSE s[i + 1]
<1>1. n \in GetNext(table, key) <=> \E s \in Sorted(table) : n = After(s)
  BY Zenon DEF GetNext
<1>2. ASSUME NEW s \in Sorted(table)
      PROVE  n = After(s) <=> IF n = NoKey THEN s # <<>> /\ s[Len(s)] = key
                              ELSE \E i \in 1 .. Len(s) - 1 : s[i] = key /\ s[i + 1] = n
  <2> DEFINE k == Index(s, key)
  <2>1. /\ Len(s) \in Nat /\ s # <<>> /\ Len(s) \in 1 .. Len(s)
        /\ \A i \in 1 .. Len(s) : s[i] \in DOMAIN table
    BY OrderShape, OrderHasEnds
  <2>2. k \in 1 .. Len(s) /\ s[k] = key /\ \A i \in 1 .. Len(s) : s[i] = key => i = k
    BY IndexFinds
  <2>3. NoKey \notin DOMAIN table
    BY DEF IsTable
  <2>4. After(s) = IF k = Len(s) THEN NoKey ELSE s[k + 1]
    OBVIOUS
  <2> HIDE DEF k, After
  <2>5. CASE k = Len(s)
    <3>1. \A i \in 1 .. Len(s) - 1 : i \in 1 .. Len(s) /\ i # k
      BY <2>1, <2>5
    <3> QED BY <2>1, <2>2, <2>4, <2>5, <3>1
  <2>6. CASE k # Len(s)
    <3>1. k \in 1 .. Len(s) - 1 /\ k + 1 \in 1 .. Len(s)
      BY <2>1, <2>2, <2>6
    <3>2. \A i \in 1 .. Len(s) - 1 : i \in 1 .. Len(s)
      BY <2>1
    <3> QED BY <2>1, <2>2, <2>3, <2>4, <2>6, <3>1, <3>2
  <2> QED BY <2>5, <2>6
<1> HIDE DEF After
<1> QED BY <1>1, <1>2, Zenon DEF Ends, Adjacent

LEMMA PrevIs ==
    ASSUME NEW table, IsTable(table), NEW key \in DOMAIN table, NEW n
    PROVE  n \in GetPrev(table, key) <=>
              IF n = NoKey THEN Begins(table, key) ELSE Adjacent(table, n, key)
<1> DEFINE Before(s) == LET i == Index(s, key) IN IF i = 1 THEN NoKey ELSE s[i - 1]
<1>1. n \in GetPrev(table, key) <=> \E s \in Sorted(table) : n = Before(s)
  BY Zenon DEF GetPrev
<1>2. ASSUME NEW s \in Sorted(table)
      PROVE  n = Before(s) <=> IF n = NoKey THEN s # <<>> /\ s[1] = key
                               ELSE \E i \in 1 .. Len(s) - 1 : s[i] = n /\ s[i + 1] = key
  <2> DEFINE k == Index(s, key)
  <2>1. /\ Len(s) \in Nat /\ s # <<>> /\ 1 \in 1 .. Len(s)
        /\ \A i \in 1 .. Len(s) : s[i] \in DOMAIN table
    BY OrderShape, OrderHasEnds
  <2>2. k \in 1 .. Len(s) /\ s[k] = key /\ \A i \in 1 .. Len(s) : s[i] = key => i = k
    BY IndexFinds
  <2>3. NoKey \notin DOMAIN table
    BY DEF IsTable
  <2>4. Before(s) = IF k = 1 THEN NoKey ELSE s[k - 1]
    OBVIOUS
  <2> HIDE DEF k, Before
  <2>5. CASE k = 1
    <3>1. \A i \in 1 .. Len(s) - 1 : i + 1 \in 1 .. Len(s) /\ i + 1 # k
      BY <2>1, <2>5
    <3> QED BY <2>1, <2>2, <2>4, <2>5, <3>1
  <2>6. CASE k # 1
    <3>1. k - 1 \in 1 .. Len(s) - 1 /\ k - 1 \in 1 .. Len(s) /\ (k - 1) + 1 = k
      BY <2>1, <2>2, <2>6
    <3>2. \A i \in 1 .. Len(s) - 1 : i + 1 \in 1 .. Len(s) /\ (i + 1 = k => i = k - 1)
      BY <2>1, <2>2
    <3>3. s[1] # key /\ Before(s) = s[k - 1] /\ s[k - 1] # NoKey
      BY <2>1, <2>2, <2>3, <2>4, <2>6, <3>1
    <3>4. \A i \in 1 .. Len(s) - 1 : s[i + 1] = key => i = k - 1
      BY <2>2, <3>2
    <3> QED BY <2>2, <3>1, <3>3, <3>4
  <2> QED BY <2>5, <2>6
<1> HIDE DEF Before
<1> QED BY <1>1, <1>2, Zenon DEF Begins, Adjacent

LEMMA EndsAre ==
    ASSUME NEW table, IsTable(table), NEW key \in DOMAIN table
    PROVE  (key \in GetFirst(table) <=> Begins(table, key)) /\ (key \in GetLast(table) <=> Ends(table, key))
<1>1. key # NoKey
  BY DEF IsTable
<1> QED BY <1>1, Zenon DEF GetFirst, GetLast, Begins, Ends

\* A key after which nothing comes has the greatest number.
LEMMA EndIsGreatest ==
    ASSUME NEW table, IsTable(table), NEW key \in DOMAIN table, Ends(table, key), NEW m \in DOMAIN table
    PROVE  table[m] <= table[key]
<1>1. PICK s \in Sorted(table) : s # <<>> /\ s[Len(s)] = key
  BY DEF Ends
<1>2. PICK i \in 1 .. Len(s) : s[i] = m
  BY OrderComplete
<1>3. /\ Len(s) \in Nat /\ Len(s) \in 1 .. Len(s)
      /\ \A j, k \in 1 .. Len(s) : j < k => table[s[j]] <= table[s[k]]
  BY OrderShape, OrderHasEnds
<1>4. table[m] \in Nat
  BY DEF IsTable
<1>5. CASE i = Len(s)
  BY <1>1, <1>2, <1>4, <1>5
<1>6. CASE i # Len(s)
  <2>1. i < Len(s)
    BY <1>3, <1>6
  <2> QED BY <1>1, <1>2, <1>3, <2>1
<1> QED BY <1>5, <1>6

LEMMA BeginIsLeast ==
    ASSUME NEW table, IsTable(table), NEW key \in DOMAIN table, Begins(table, key), NEW m \in DOMAIN table
    PROVE  table[key] <= table[m]
<1>1. PICK s \in Sorted(table) : s # <<>> /\ s[1] = key
  BY DEF Begins
<1>2. PICK i \in 1 .. Len(s) : s[i] = m
  BY OrderComplete
<1>3. /\ Len(s) \in Nat /\ 1 \in 1 .. Len(s)
      /\ \A j, k \in 1 .. Len(s) : j < k => table[s[j]] <= table[s[k]]
  BY OrderShape, OrderHasEnds
<1>4. table[m] \in Nat
  BY DEF IsTable
<1>5. CASE i = 1
  BY <1>1, <1>2, <1>4, <1>5
<1>6. CASE i # 1
  <2>1. 1 < i
    BY <1>3, <1>6
  <2> QED BY <1>1, <1>2, <1>3, <2>1
<1> QED BY <1>5, <1>6

\* Between adjacent keys no other number lies.
LEMMA AdjacentAre ==
    ASSUME NEW table, IsTable(table), NEW key \in DOMAIN table, NEW next, Adjacent(table, key, next)
    PROVE  /\ next \in DOMAIN table \ {key}
           /\ table[key] <= table[next]
           /\ \A m \in DOMAIN table : table[m] <= table[key] \/ table[next] <= table[m]
<1>0. PICK s \in Sorted(table) : \E i \in 1 .. Len(s) - 1 : s[i] = key /\ s[i + 1] = next
  BY DEF Adjacent
<1>1. PICK i \in 1 .. Len(s) - 1 : s[i] = key /\ s[i + 1] = next
  BY <1>0
<1>2. /\ Len(s) \in Nat /\ s \in [1 .. Len(s) -> DOMAIN table]
      /\ \A j, k \in 1 .. Len(s) : j # k => s[j] # s[k]
      /\ \A j, k \in 1 .. Len(s) : j < k => table[s[j]] <= table[s[k]]
  BY OrderShape
<1>3. i \in 1 .. Len(s) /\ i + 1 \in 1 .. Len(s) /\ i < i + 1 /\ i # i + 1
  BY <1>2
<1>4. next \in DOMAIN table \ {key} /\ table[key] <= table[next]
  BY <1>1, <1>2, <1>3
<1>5. ASSUME NEW m \in DOMAIN table
      PROVE  table[m] <= table[key] \/ table[next] <= table[m]
  <2>1. PICK j \in 1 .. Len(s) : s[j] = m
    BY OrderComplete
  <2>2. table[m] \in Nat /\ table[key] \in Nat
    BY DEF IsTable
  <2>3. j < i \/ j = i \/ j = i + 1 \/ i + 1 < j
    BY <1>2, <1>3, <2>1
  <2>4. CASE j < i
    BY <1>1, <1>2, <1>3, <2>1, <2>4
  <2>5. CASE j = i \/ j = i + 1
    BY <1>1, <2>1, <2>2, <2>5
  <2>6. CASE i + 1 < j
    BY <1>1, <1>2, <1>3, <2>1, <2>6
  <2> QED BY <2>3, <2>4, <2>5, <2>6
<1> QED BY <1>4, <1>5

------------------------------------------------------------------------------
(* Distinct numbers                                                        *)

\* The keys that come after a key, and the first of them.
Greater(table, key) == {n \in DOMAIN table : table[n] > table[key]}
FirstOf(table, S) == {n \in S : \A m \in S : table[n] <= table[m]}

Apart(table) == \A m, n \in DOMAIN table : table[m] = table[n] => m = n

LEMMA NextIsLeastGreater ==
    ASSUME NEW table, IsTable(table), Apart(table), NEW key \in DOMAIN table
    PROVE  GetNext(table, key) =
              IF Greater(table, key) = {} THEN {NoKey} ELSE FirstOf(table, Greater(table, key))
<1> DEFINE G == Greater(table, key)
<1>1. \A n \in DOMAIN table : table[n] \in Nat /\ n # NoKey
  BY DEF IsTable
<1>2. ASSUME NEW n \in GetNext(table, key), n # NoKey
      PROVE  n \in FirstOf(table, G)
  <2>1. Adjacent(table, key, n)
    BY <1>2, NextIs
  <2>2. /\ n \in DOMAIN table \ {key} /\ table[key] <= table[n]
        /\ \A m \in DOMAIN table : table[m] <= table[key] \/ table[n] <= table[m]
    BY <2>1, AdjacentAre
  <2>3. table[n] # table[key]
    BY <2>2 DEF Apart
  <2>4. n \in G
    BY <1>1, <2>2, <2>3 DEF Greater
  <2>5. \A m \in G : table[n] <= table[m]
    BY <1>1, <2>2 DEF Greater
  <2> QED BY <2>4, <2>5 DEF FirstOf
<1>3. ASSUME NoKey \in GetNext(table, key)
      PROVE  G = {}
  <2>1. Ends(table, key)
    BY <1>3, NextIs
  <2>2. \A m \in DOMAIN table : table[m] <= table[key]
    BY <2>1, EndIsGreatest
  <2> QED BY <1>1, <2>2 DEF Greater
<1>4. PICK n : n \in GetNext(table, key)
  BY OrderExists DEF GetNext
<1>5. FirstOf(table, G) \subseteq G
  BY DEF FirstOf
<1>6. CASE G = {}
  <2>1. \A m \in GetNext(table, key) : m = NoKey
    BY <1>2, <1>5, <1>6
  <2> QED BY <1>4, <1>6, <2>1
<1>7. CASE G # {}
  <2>1. \A m \in GetNext(table, key) : m \in FirstOf(table, G)
    BY <1>2, <1>3, <1>7
  <2>2. ASSUME NEW m \in FirstOf(table, G)
        PROVE  m = n
    <3>1. /\ m \in DOMAIN table /\ n \in DOMAIN table
          /\ table[m] <= table[n] /\ table[n] <= table[m]
      BY <1>4, <2>1, <2>2 DEF FirstOf, Greater
    <3>2. table[m] = table[n]
      BY <1>1, <3>1
    <3> QED BY <3>1, <3>2 DEF Apart
  <2>3. GetNext(table, key) = FirstOf(table, G)
    BY <1>4, <2>1, <2>2
  <2> QED BY <1>7, <2>3
<1> QED BY <1>6, <1>7

LEMMA FirstHasNoPrev ==
    ASSUME NEW table, IsTable(table), Apart(table), NEW key \in DOMAIN table
    PROVE  key \in GetFirst(table) <=> GetPrev(table, key) = {NoKey}
<1>1. \A n \in DOMAIN table : table[n] \in Nat /\ n # NoKey
  BY DEF IsTable
<1>2. PICK n : n \in GetPrev(table, key)
  BY OrderExists DEF GetPrev
<1>3. ASSUME key \in GetFirst(table), NEW m \in GetPrev(table, key), m # NoKey
      PROVE  FALSE
  <2>1. Begins(table, key) /\ Adjacent(table, m, key)
    BY <1>3, EndsAre, PrevIs
  <2>2. m \in DOMAIN table
    <3>1. PICK s \in Sorted(table) : \E i \in 1 .. Len(s) - 1 : s[i] = m /\ s[i + 1] = key
      BY <2>1 DEF Adjacent
    <3>2. Len(s) \in Nat /\ s \in [1 .. Len(s) -> DOMAIN table]
      BY OrderShape
    <3>3. \A i \in 1 .. Len(s) - 1 : i \in 1 .. Len(s)
      BY <3>2
    <3> QED BY <3>1, <3>2, <3>3
  <2>3. key # m /\ table[m] <= table[key]
    BY <2>1, <2>2, AdjacentAre
  <2>4. table[key] <= table[m]
    BY <2>1, <2>2, BeginIsLeast
  <2>5. table[key] = table[m]
    BY <1>1, <2>2, <2>3, <2>4
  <2> QED BY <2>2, <2>3, <2>5 DEF Apart
<1>4. NoKey \in GetPrev(table, key) => key \in GetFirst(table)
  BY PrevIs, EndsAre
<1> QED BY <1>2, <1>3, <1>4

LEMMA LastHasNoNext ==
    ASSUME NEW table, IsTable(table), Apart(table), NEW key \in DOMAIN table
    PROVE  key \in GetLast(table) <=> GetNext(table, key) = {NoKey}
<1>1. \A n \in DOMAIN table : table[n] \in Nat /\ n # NoKey
  BY DEF IsTable
<1>2. PICK n : n \in GetNext(table, key)
  BY OrderExists DEF GetNext
<1>3. ASSUME key \in GetLast(table), NEW m \in GetNext(table, key), m # NoKey
      PROVE  FALSE
  <2>1. Ends(table, key) /\ Adjacent(table, key, m)
    BY <1>3, EndsAre, NextIs
  <2>2. m \in DOMAIN table \ {key} /\ table[key] <= table[m]
    BY <2>1, AdjacentAre
  <2>3. table[m] <= table[key]
    BY <2>1, <2>2, EndIsGreatest
  <2>4. table[key] = table[m]
    BY <1>1, <2>2, <2>3
  <2> QED BY <2>2, <2>4 DEF Apart
<1>4. NoKey \in GetNext(table, key) => key \in GetLast(table)
  BY NextIs, EndsAre
<1> QED BY <1>2, <1>3, <1>4

------------------------------------------------------------------------------
(* The inductive invariant                                                 *)

\* Rows are universes that were given a name, each with a number and a label.
RowsAre ==
    /\ used \subseteq Names /\ IsFiniteSet(used) /\ Universes \subseteq used
    /\ number \in [Universes -> 0 .. InternalMax]
    /\ DOMAIN label = Universes
    /\ selected \in Names \cup {NoKey}

\* Every addition counts a label up by one at most, from what a user typed or
\* from the first label.
LabelsAre ==
    /\ typed \in Nat /\ typed >= 1 /\ added \in Nat
    /\ \A n \in Universes : label[n].value \in Int /\ label[n].value <= typed + added

IInv == RowsAre /\ LabelsAre /\ NumbersDistinct /\ CrashNeedsHugeLabel

LEMMA RowsAreTable ==
    ASSUME RowsAre
    PROVE  IsTable(number)
<1>1. IsFiniteSet(Universes)
  BY FS_Subset DEF RowsAre
<1>2. 0 .. InternalMax \subseteq Nat
  BY UiAssumption
<1>3. number \in [Universes -> Nat]
  BY <1>2 DEF RowsAre
<1>4. NoKey \notin Universes
  BY UiAssumption DEF RowsAre
<1> QED BY <1>1, <1>3, <1>4 DEF IsTable, Universes

\* The last universe has the greatest number, and there is none only if the
\* table is empty.
LEMMA LastIs ==
    ASSUME RowsAre, NEW base \in GetLast(number)
    PROVE  /\ base = NoKey => Universes = {}
           /\ base # NoKey => base \in Universes /\ \A n \in Universes : number[n] <= number[base]
<1>1. IsTable(number)
  BY RowsAreTable
<1>2. PICK s \in Sorted(number) : base = IF s = <<>> THEN NoKey ELSE s[Len(s)]
  BY DEF GetLast
<1>3. /\ Len(s) \in Nat /\ s \in [1 .. Len(s) -> Universes] /\ Len(s) = Cardinality(Universes)
  BY <1>1, OrderShape DEF Universes
<1>4. NoKey \notin Universes
  BY <1>1 DEF IsTable, Universes
<1>5. CASE Universes = {}
  <2>1. Cardinality(Universes) = 0
    BY <1>5, FS_EmptySet
  <2>2. s = <<>>
    <3>1. s \in Seq(Universes) /\ Len(s) = 0
      BY <1>3, <2>1
    <3> QED BY <3>1
  <2> QED BY <1>2, <1>5, <2>2
<1>6. CASE Universes # {}
  <2>1. s # <<>> /\ Len(s) \in 1 .. Len(s)
    BY <1>1, <1>6, OrderHasEnds DEF Universes
  <2>2. base = s[Len(s)] /\ base \in Universes
    BY <1>2, <1>3, <2>1
  <2>3. Ends(number, base)
    BY <2>1, <2>2 DEF Ends
  <2>4. \A n \in Universes : number[n] <= number[base]
    BY <1>1, <2>2, <2>3, EndIsGreatest DEF Universes
  <2> QED BY <1>4, <2>2, <2>4
<1> QED BY <1>5, <1>6

LEMMA BaseIs ==
    ASSUME RowsAre, NEW base \in Bases
    PROVE  /\ base = NoKey => Universes = {}
           /\ base # NoKey => base \in Universes
<1>1. NoKey \notin Universes
  BY UiAssumption DEF RowsAre
<1>2. CASE selected \in Universes
  BY <1>1, <1>2 DEF Bases
<1>3. CASE selected \notin Universes
  <2>1. base \in GetLast(number)
    BY <1>3 DEF Bases
  <2> QED BY <2>1, LastIs
<1> QED BY <1>2, <1>3

------------------------------------------------------------------------------
(* The rows                                                                *)

\* A new universe joins the others.
LEMMA RowJoins ==
    ASSUME RowsAre, NEW n \in Names \ used, NEW x \in 0 .. InternalMax, NEW y,
           used' = used \cup {n}, number' = With(number, n, x), label' = With(label, n, y),
           selected' \in {selected, n}
    PROVE  /\ RowsAre' /\ Universes' = Universes \cup {n} /\ n \notin Universes
           /\ number'[n] = x /\ \A m \in Universes : number'[m] = number[m]
           /\ label'[n] = y /\ \A m \in Universes : label'[m] = label[m]
<1>1. /\ DOMAIN number' = Universes \cup {n} /\ DOMAIN label' = Universes \cup {n}
      /\ n \notin Universes
  BY DEF RowsAre, With, Universes
<1>2. /\ number'[n] = x /\ \A m \in Universes : number'[m] = number[m]
      /\ label'[n] = y /\ \A m \in Universes : label'[m] = label[m]
  BY <1>1 DEF RowsAre, With, Universes
<1>3. number' \in [Universes \cup {n} -> 0 .. InternalMax]
  BY DEF RowsAre, With, Universes
<1>4. IsFiniteSet(used')
  BY FS_AddElement DEF RowsAre
<1>5. used' \subseteq Names /\ Universes \cup {n} \subseteq used' /\ selected' \in Names \cup {NoKey}
  BY DEF RowsAre
<1> QED BY <1>1, <1>2, <1>3, <1>4, <1>5 DEF RowsAre, Universes

\* Some universes leave.
LEMMA RowsLeave ==
    ASSUME RowsAre, NEW S \in SUBSET Universes,
           number' = [m \in S |-> number[m]], label' = [m \in S |-> label[m]],
           used' = used, selected' \in Names \cup {NoKey}
    PROVE  /\ RowsAre' /\ Universes' = S
           /\ \A m \in S : number'[m] = number[m] /\ label'[m] = label[m]
<1>1. DOMAIN number' = S /\ DOMAIN label' = S
  OBVIOUS
<1>2. number' \in [S -> 0 .. InternalMax]
  BY DEF RowsAre, Universes
<1> QED BY <1>1, <1>2 DEF RowsAre, Universes

LEMMA NextNumberFits ==
    ASSUME RowsAre, NEW base \in Universes
    PROVE  /\ NextNumber(base) \in 0 .. InternalMax
           /\ number[base] < InternalMax => NextNumber(base) = number[base] + 1
<1>1. number[base] \in 0 .. InternalMax /\ InternalMax \in Nat
  BY UiAssumption DEF RowsAre
<1> QED BY <1>1 DEF NextNumber, Clip

LEMMA IncrementBounded ==
    ASSUME NEW l, l.value \in Int, NEW b \in Nat, l.value <= b
    PROVE  /\ SymbolIncrement(l, 1).value \in Int
           /\ SymbolIncrement(l, 1).value <= b + 1
<1> DEFINE sum == l.value + 1
           wrapped == IF sum > LongMax THEN 2 * (LongMax + 1) - sum ELSE sum
<1>1. SymbolIncrement(l, 1).value = wrapped
  <2>1. CASE sum > LongMax
    BY <2>1 DEF SymbolIncrement
  <2>2. CASE ~(sum > LongMax)
    BY <2>2 DEF SymbolIncrement
  <2> QED BY <2>1, <2>2
<1>2. wrapped \in Int /\ wrapped <= b + 1
  BY LongAssumption
<1> QED BY <1>1, <1>2

\* What the user interface adds is named anew, has the next number and a label
\* that counts on.
LEMMA AddUniverseKeeps ==
    ASSUME IInv, AddUniverse
    PROVE  IInv'
<1>1. PICK n \in Names \ used, base \in Bases :
        /\ used' = used \cup {n}
        /\ added' = added + 1
        /\ number' = With(number, n, IF base = NoKey THEN 1 ELSE NextNumber(base))
        /\ label' = With(label, n, IF base = NoKey THEN FirstLabel ELSE IncrementedLabel(base))
        /\ dead' = (base # NoKey /\ ~Refused(label[base]) /\ Throws(label[base]))
        /\ appended' = (appended /\ (base = NoKey \/
                       (base \in GetLast(number) /\ number[base] < InternalMax)))
        /\ selected' \in {selected, n}
        /\ UNCHANGED <<edits, typed>>
  BY Zenon DEF AddUniverse
<1> DEFINE x == IF base = NoKey THEN 1 ELSE NextNumber(base)
           y == IF base = NoKey THEN FirstLabel ELSE IncrementedLabel(base)
<1>2. RowsAre /\ LabelsAre /\ NumbersDistinct
  BY DEF IInv
<1>3. (base = NoKey => Universes = {}) /\ (base # NoKey => base \in Universes)
  BY <1>2, BaseIs
<1>4. x \in 0 .. InternalMax
  <2>1. CASE base = NoKey
    BY <2>1, UiAssumption
  <2>2. CASE base # NoKey
    BY <1>2, <1>3, <2>2, NextNumberFits
  <2> QED BY <2>1, <2>2
<1>5. /\ RowsAre' /\ Universes' = Universes \cup {n} /\ n \notin Universes
      /\ number'[n] = x /\ \A m \in Universes : number'[m] = number[m]
      /\ label'[n] = y /\ \A m \in Universes : label'[m] = label[m]
  <2> HIDE DEF x, y
  <2>1. /\ used' = used \cup {n} /\ selected' \in {selected, n}
        /\ number' = With(number, n, x) /\ label' = With(label, n, y)
    BY <1>1 DEF x, y
  <2> QED BY ONLY <1>2, <1>4, <2>1, RowJoins
<1>6. LabelsAre'
  <2>1. typed' = typed /\ added' = added + 1 /\ typed \in Nat /\ typed >= 1 /\ added \in Nat
    BY <1>1, <1>2 DEF LabelsAre
  <2>2. y.value \in Int /\ y.value <= typed + added + 1
    <3>1. CASE base = NoKey
      BY <2>1, <3>1 DEF FirstLabel
    <3>2. CASE base # NoKey
      <4>1. label[base].value \in Int /\ label[base].value <= typed + added
        BY <1>2, <1>3, <3>2 DEF LabelsAre
      <4>2. typed + added \in Nat
        BY <2>1
      <4>3. CASE Refused(label[base])
        BY <2>1, <3>2, <4>1, <4>3 DEF IncrementedLabel
      <4>4. CASE ~Refused(label[base])
        BY <3>2, <4>1, <4>2, <4>4, IncrementBounded DEF IncrementedLabel
      <4> QED BY <4>3, <4>4
    <3> QED BY <3>1, <3>2
  <2> HIDE DEF y
  <2>3. \A m \in Universes : label'[m].value \in Int /\ label'[m].value <= typed + added + 1
    <3>1. \A m \in Universes : label[m].value \in Int /\ label[m].value <= typed + added
      BY <1>2 DEF LabelsAre
    <3> QED BY <1>5, <2>1, <3>1
  <2>4. \A m \in Universes' : label'[m].value \in Int /\ label'[m].value <= typed' + added'
    BY <1>5, <2>1, <2>2, <2>3
  <2> QED BY <2>1, <2>4 DEF LabelsAre
<1>7. NumbersDistinct'
  <2> SUFFICES ASSUME appended', NEW k \in Universes', NEW m \in Universes',
                      number'[k] = number'[m]
               PROVE  k = m
    BY DEF NumbersDistinct
  <2>1. appended /\ (base = NoKey \/ (base \in GetLast(number) /\ number[base] < InternalMax))
    BY <1>1
  <2>2. \A i, j \in Universes : number[i] = number[j] => i = j
    BY <1>2, <2>1 DEF NumbersDistinct
  <2>3. \A i \in Universes : number[i] # x
    <3>1. CASE base = NoKey
      BY <1>3, <3>1
    <3>2. CASE base # NoKey
      <4>1. base \in Universes /\ \A i \in Universes : number[i] <= number[base]
        BY <1>2, <2>1, <3>2, LastIs
      <4>2. x = number[base] + 1
        BY <1>2, <2>1, <3>2, <4>1, NextNumberFits
      <4>3. \A i \in Universes : number[i] \in Int
        BY <1>2, UiAssumption DEF RowsAre
      <4> QED BY <4>1, <4>2, <4>3
    <3> QED BY <3>1, <3>2
  <2> QED BY <1>5, <2>2, <2>3
<1>8. CrashNeedsHugeLabel'
  <2> SUFFICES ASSUME dead' PROVE typed' + added' > LongMax
    BY DEF CrashNeedsHugeLabel
  <2>1. base # NoKey /\ label[base].width # 0 /\ label[base].value > LongMax
    BY <1>1 DEF Refused, Throws
  <2>2. /\ label[base].value \in Int /\ label[base].value <= typed + added
        /\ typed \in Nat /\ added \in Nat
    BY <1>2, <1>3, <2>1 DEF LabelsAre
  <2> QED BY <1>1, <2>1, <2>2, LongAssumption
<1> QED BY <1>5, <1>6, <1>7, <1>8 DEF IInv

\* What leaves takes nothing with it.
LEMMA LeavingKeeps ==
    ASSUME IInv, NEW S \in SUBSET Universes,
           number' = [m \in S |-> number[m]], label' = [m \in S |-> label[m]],
           selected' \in Names \cup {NoKey},
           UNCHANGED <<used, edits, typed, added, appended, dead>>
    PROVE  IInv' /\ Universes' = S
<1>1. RowsAre /\ LabelsAre /\ NumbersDistinct /\ CrashNeedsHugeLabel
  BY DEF IInv
<1>2. /\ RowsAre' /\ Universes' = S
      /\ \A m \in S : number'[m] = number[m] /\ label'[m] = label[m]
  BY <1>1, RowsLeave
<1>3. LabelsAre'
  BY <1>1, <1>2 DEF LabelsAre
<1>4. NumbersDistinct'
  BY <1>1, <1>2 DEF NumbersDistinct
<1>5. CrashNeedsHugeLabel'
  BY <1>1 DEF CrashNeedsHugeLabel
<1> QED BY <1>2, <1>3, <1>4, <1>5 DEF IInv

LEMMA RemoveUniverseKeeps ==
    ASSUME IInv, RemoveUniverse
    PROVE  IInv' /\ Universes' = Universes \ {selected}
<1> DEFINE S == Universes \ {selected}
<1>1. RowsAre /\ IsTable(number)
  BY RowsAreTable DEF IInv
<1>2. /\ number' = [m \in S |-> number[m]] /\ label' = [m \in S |-> label[m]]
      /\ UNCHANGED <<used, edits, typed, added, appended, dead>>
  BY <1>1 DEF RemoveUniverse, Without, RowsAre, Universes
<1>3. selected' \in Universes \cup {NoKey}
  <2>1. selected \in DOMAIN number /\ selected' \in GetNext(number, selected)
    BY DEF RemoveUniverse, Universes
  <2>2. CASE selected' = NoKey
    BY <2>2
  <2>3. CASE selected' # NoKey
    <3>1. Adjacent(number, selected, selected')
      BY <1>1, <2>1, <2>3, NextIs
    <3>2. selected' \in DOMAIN number \ {selected}
      BY <1>1, <2>1, <3>1, AdjacentAre
    <3> QED BY <3>2 DEF Universes
  <2> QED BY <2>2, <2>3
<1>4. selected' \in Names \cup {NoKey}
  BY <1>1, <1>3 DEF RowsAre
<1> HIDE DEF S
<1>5. S \in SUBSET Universes
  BY DEF S
<1> QED BY <1>2, <1>4, <1>5, LeavingKeeps DEF S

LEMMA SetLabelKeeps ==
    ASSUME IInv, SetLabel
    PROVE  IInv'
<1>1. PICK n \in Universes, l \in TypedLabels :
        /\ label' = [label EXCEPT ![n] = l]
        /\ typed' = (IF l.value > typed THEN l.value ELSE typed)
        /\ UNCHANGED <<number, selected, used, added, appended, dead>>
  BY DEF SetLabel
<1>2. l.value \in Nat
  BY UiAssumption
<1>3. /\ RowsAre /\ typed \in Nat /\ typed >= 1 /\ added \in Nat
      /\ \A m \in Universes : label[m].value \in Int /\ label[m].value <= typed + added
  BY DEF IInv, LabelsAre
<1>4. Universes' = Universes /\ DOMAIN label = Universes
  BY <1>1, <1>3 DEF Universes, RowsAre
<1>5. RowsAre'
  BY <1>1, <1>3, <1>4 DEF RowsAre, Universes
<1>6. typed' \in Nat /\ typed' >= typed /\ typed' >= l.value /\ typed' >= 1
  BY <1>1, <1>2, <1>3
<1>7. ASSUME NEW m \in Universes
      PROVE  label'[m].value \in Int /\ label'[m].value <= typed' + added
  <2>1. CASE m = n
    <3>1. label'[m] = l
      BY <1>1, <1>4, <2>1
    <3> QED BY <1>2, <1>3, <1>6, <3>1
  <2>2. CASE m # n
    <3>1. label'[m] = label[m]
      BY <1>1, <1>4, <2>2
    <3> QED BY <1>3, <1>6, <3>1
  <2> QED BY <2>1, <2>2
<1>8. LabelsAre'
  BY <1>1, <1>3, <1>4, <1>6, <1>7 DEF LabelsAre
<1>9. NumbersDistinct'
  BY <1>1, <1>4 DEF IInv, NumbersDistinct
<1>10. CrashNeedsHugeLabel'
  BY <1>1, <1>3, <1>6, LongAssumption DEF IInv, CrashNeedsHugeLabel
<1> QED BY <1>5, <1>8, <1>9, <1>10 DEF IInv

LEMMA SetInternalKeeps ==
    ASSUME IInv, SetInternal
    PROVE  IInv'
<1>1. PICK n \in Universes, i \in TypedNumbers :
        /\ number' = [number EXCEPT ![n] = i] /\ appended' = FALSE
        /\ UNCHANGED <<label, selected, used, typed, added, dead>>
  BY DEF SetInternal
<1>2. Universes' = Universes
  BY <1>1 DEF Universes
<1>3. i \in 0 .. InternalMax
  BY UiAssumption
<1>4. number \in [Universes -> 0 .. InternalMax]
  BY DEF IInv, RowsAre
<1>5. number' \in [Universes -> 0 .. InternalMax]
  BY <1>1, <1>3, <1>4
<1>6. RowsAre'
  BY <1>1, <1>2, <1>5 DEF IInv, RowsAre
<1>7. LabelsAre' /\ CrashNeedsHugeLabel'
  BY <1>1, <1>2 DEF IInv, LabelsAre, CrashNeedsHugeLabel
<1>8. NumbersDistinct'
  BY <1>1 DEF NumbersDistinct
<1> QED BY <1>6, <1>7, <1>8 DEF IInv

LEMMA SelectRowKeeps ==
    ASSUME IInv, SelectRow
    PROVE  IInv'
<1>1. /\ selected' \in Universes \cup {NoKey}
      /\ UNCHANGED <<number, label, used, edits, typed, added, appended, dead>>
  BY DEF SelectRow
<1>2. Universes' = Universes
  BY <1>1 DEF Universes
<1>3. RowsAre'
  BY <1>1, <1>2 DEF IInv, RowsAre
<1>4. LabelsAre' /\ CrashNeedsHugeLabel' /\ NumbersDistinct'
  BY <1>1, <1>2 DEF IInv, LabelsAre, CrashNeedsHugeLabel, NumbersDistinct
<1> QED BY <1>3, <1>4 DEF IInv

\* The universe that lx.config adds may have a number that is taken, unless it
\* is the only one.
LEMMA ConfigAddKeeps ==
    ASSUME IInv, ConfigAdd
    PROVE  IInv'
<1>1. PICK n \in Names \ used :
        /\ used' = used \cup {n}
        /\ number' = With(number, n, 1) /\ label' = With(label, n, FirstLabel)
        /\ appended' = (appended /\ Universes = {})
        /\ UNCHANGED <<selected, edits, typed, added, dead>>
  BY DEF ConfigAdd
<1>2. RowsAre /\ 1 \in 0 .. InternalMax /\ selected' \in {selected, n}
  BY <1>1, UiAssumption DEF IInv
<1>3. /\ RowsAre' /\ Universes' = Universes \cup {n} /\ n \notin Universes
      /\ number'[n] = 1 /\ \A m \in Universes : number'[m] = number[m]
      /\ label'[n] = FirstLabel /\ \A m \in Universes : label'[m] = label[m]
  BY <1>1, <1>2, RowJoins
<1>4. LabelsAre'
  <2>1. /\ typed' = typed /\ added' = added /\ typed \in Nat /\ typed >= 1 /\ added \in Nat
        /\ \A m \in Universes : label[m].value \in Int /\ label[m].value <= typed + added
    BY <1>1 DEF IInv, LabelsAre
  <2>2. FirstLabel.value = 1
    BY DEF FirstLabel
  <2> HIDE DEF FirstLabel
  <2>3. \A m \in Universes' : label'[m].value \in Int /\ label'[m].value <= typed + added
    BY <1>3, <2>1, <2>2
  <2> QED BY <2>1, <2>3 DEF LabelsAre
<1>5. NumbersDistinct'
  BY <1>1, <1>3 DEF NumbersDistinct
<1>6. CrashNeedsHugeLabel'
  BY <1>1 DEF IInv, CrashNeedsHugeLabel
<1> QED BY <1>3, <1>4, <1>5, <1>6 DEF IInv

LEMMA ConfigClearKeeps ==
    ASSUME IInv, ConfigClear
    PROVE  IInv' /\ Universes' = {}
<1> DEFINE S == {}
<1>1. /\ number' = [m \in S |-> number[m]] /\ label' = [m \in S |-> label[m]]
      /\ UNCHANGED <<selected, used, edits, typed, added, appended, dead>>
  BY DEF ConfigClear
<1>2. S \in SUBSET Universes /\ selected' \in Names \cup {NoKey}
  BY <1>1 DEF IInv, RowsAre
<1> HIDE DEF S
<1>3. IInv' /\ Universes' = S
  BY <1>1, <1>2, LeavingKeeps
<1> QED BY <1>3 DEF S

LEMMA IInvInit == Init => IInv
<1> SUFFICES ASSUME Init PROVE IInv
  OBVIOUS
<1>1. PICK n \in Names :
        number = [m \in {n} |-> 1] /\ label = [m \in {n} |-> FirstLabel] /\ used = {n}
  BY DEF Init
<1>2. Universes = {n} /\ number[n] = 1 /\ label[n].value = 1
  BY <1>1 DEF Universes, FirstLabel
<1>3. RowsAre
  <2>1. IsFiniteSet({n})
    BY FS_Singleton
  <2>2. 1 \in 0 .. InternalMax
    BY UiAssumption
  <2> QED BY <1>1, <1>2, <2>1, <2>2 DEF RowsAre, Init
<1>4. LabelsAre
  BY <1>2 DEF LabelsAre, Init
<1>5. NumbersDistinct /\ CrashNeedsHugeLabel
  BY <1>2 DEF NumbersDistinct, CrashNeedsHugeLabel, Init
<1> QED BY <1>3, <1>4, <1>5 DEF IInv

LEMMA IInvNext == IInv /\ [Next]_vars => IInv'
<1> SUFFICES ASSUME IInv, [Next]_vars PROVE IInv'
  OBVIOUS
<1>1. CASE AddUniverse
  BY <1>1, AddUniverseKeeps
<1>2. CASE RemoveUniverse
  BY <1>2, RemoveUniverseKeeps
<1>3. CASE SetLabel
  BY <1>3, SetLabelKeeps
<1>4. CASE SetInternal
  BY <1>4, SetInternalKeeps
<1>5. CASE SelectRow
  BY <1>5, SelectRowKeeps
<1>6. CASE ConfigAdd
  BY <1>6, ConfigAddKeeps
<1>7. CASE ConfigClear
  BY <1>7, ConfigClearKeeps
<1>8. CASE UNCHANGED vars
  BY <1>8 DEF vars, IInv, RowsAre, LabelsAre, NumbersDistinct, CrashNeedsHugeLabel, Universes
<1> QED BY <1>1, <1>2, <1>3, <1>4, <1>5, <1>6, <1>7, <1>8 DEF Next, Ended

------------------------------------------------------------------------------
(* The theorems                                                            *)

\* The rows, labels and numbers are always what IInv says.
THEOREM RowsCorrect == Spec => []IInv
BY IInvInit, IInvNext, PTL DEF Spec

\* While universes are only appended in the user interface, and no number is
\* clipped at InternalMax, no two share an internal universe, whatever was
\* removed and relabelled in between.
THEOREM NumbersStayDistinct == Spec => []NumbersDistinct
<1>1. IInv => NumbersDistinct
  BY DEF IInv
<1> QED BY <1>1, RowsCorrect, PTL

\* However long a long is, the exception of std::stol takes a label that is
\* typed or counted beyond it.
THEOREM OnlyHugeLabelsCrash == Spec => []CrashNeedsHugeLabel
<1>1. IInv => CrashNeedsHugeLabel
  BY DEF IInv
<1> QED BY <1>1, RowsCorrect, PTL

\* For every table that can arise the sorted neighbours are those of the
\* reference definition, as long as the numbers are distinct.
THEOREM NeighboursAlwaysAgree == Spec => []NeighboursAgree
<1>1. ASSUME IInv
      PROVE  NeighboursAgree
  <2> SUFFICES ASSUME Apart(number)
               PROVE  /\ \A k \in Universes :
                            GetNext(number, k) =
                               IF Greater(number, k) = {} THEN {NoKey}
                               ELSE FirstOf(number, Greater(number, k))
                      /\ \A k, n \in Universes : n \in GetNext(number, k) <=> k \in GetPrev(number, n)
                      /\ \A k \in Universes :
                            /\ k \in GetFirst(number) <=> GetPrev(number, k) = {NoKey}
                            /\ k \in GetLast(number) <=> GetNext(number, k) = {NoKey}
    BY Zenon DEF NeighboursAgree, Apart, Greater, FirstOf, Universes
  <2>1. IsTable(number)
    BY <1>1, RowsAreTable DEF IInv
  <2>2. \A k \in Universes :
            GetNext(number, k) = IF Greater(number, k) = {} THEN {NoKey}
                                 ELSE FirstOf(number, Greater(number, k))
    BY <2>1, NextIsLeastGreater, Zenon DEF Universes
  <2>3. ASSUME NEW k \in Universes, NEW n \in Universes
        PROVE  n \in GetNext(number, k) <=> k \in GetPrev(number, n)
    <3>1. n # NoKey /\ k # NoKey
      BY <2>1 DEF IsTable, Universes
    <3>2. n \in GetNext(number, k) <=> Adjacent(number, k, n)
      BY <2>1, <3>1, NextIs DEF Universes
    <3>3. k \in GetPrev(number, n) <=> Adjacent(number, k, n)
      BY <2>1, <3>1, PrevIs DEF Universes
    <3> QED BY <3>2, <3>3
  <2>4. \A k \in Universes : k \in GetFirst(number) <=> GetPrev(number, k) = {NoKey}
    BY <2>1, FirstHasNoPrev, Zenon DEF Universes
  <2>5. \A k \in Universes : k \in GetLast(number) <=> GetNext(number, k) = {NoKey}
    BY <2>1, LastHasNoNext, Zenon DEF Universes
  <2> QED BY <2>2, <2>3, <2>4, <2>5
<1> QED BY <1>1, RowsCorrect, PTL

\* In any table, numbers repeated or not, a removal moves the selection down to
\* the nearest number and loses it only at the end.
THEOREM RemovesDownwards == Spec => RemoveGoesDown
<1> DEFINE Below == {n \in Universes' : number[n] >= number[selected]}
           Goes ==
             IF selected' = NoKey THEN \A n \in Below : number[n] = number[selected]
             ELSE /\ selected' \in Below
                  /\ \A n \in Below : number[n] > number[selected] => number[selected'] <= number[n]
<1>1. ASSUME IInv, [Next]_vars, selected' # selected, selected \in Universes,
             Universes' = Universes \ {selected}
      PROVE  Goes
  <2>1. CASE RemoveUniverse
    <3>1. IsTable(number)
      BY <1>1, RowsAreTable DEF IInv
    <3>2. \A n \in Universes : number[n] \in Nat
      BY <3>1 DEF IsTable, Universes
    <3>3. selected' \in GetNext(number, selected)
      BY <2>1 DEF RemoveUniverse
    <3>4. CASE selected' = NoKey
      <4>1. Ends(number, selected)
        BY <1>1, <3>1, <3>3, <3>4, NextIs DEF Universes
      <4>2. \A n \in Universes : number[n] <= number[selected]
        BY <1>1, <3>1, <4>1, EndIsGreatest DEF Universes
      <4>3. \A n \in Below : n \in Universes /\ number[n] >= number[selected]
        BY <1>1
      <4>4. \A n \in Below : number[n] = number[selected]
        BY <1>1, <3>2, <4>2, <4>3
      <4> QED BY <3>4, <4>4
    <3>5. CASE selected' # NoKey
      <4>1. Adjacent(number, selected, selected')
        BY <1>1, <3>1, <3>3, <3>5, NextIs DEF Universes
      <4>2. /\ selected' \in Universes \ {selected}
            /\ number[selected] <= number[selected']
            /\ \A n \in Universes : number[n] <= number[selected] \/ number[selected'] <= number[n]
        BY <1>1, <3>1, <4>1, AdjacentAre DEF Universes
      <4>3. selected' \in Below
        BY <1>1, <3>2, <4>2
      <4>4. \A n \in Below : n \in Universes
        BY <1>1
      <4>5. \A n \in Below : number[n] > number[selected] => number[selected'] <= number[n]
        BY <1>1, <3>2, <4>2, <4>4
      <4> QED BY <3>5, <4>3, <4>5
    <3> QED BY <3>4, <3>5
  <2>2. CASE AddUniverse
    <3>1. \E n, x : number' = With(number, n, x)
      BY <2>2 DEF AddUniverse
    <3>2. Universes \subseteq Universes'
      BY <3>1 DEF With, Universes
    <3> QED BY <1>1, <3>2
  <2>3. CASE SelectRow
    BY <1>1, <2>3 DEF SelectRow, Universes
  <2>4. CASE selected' = selected
    BY <1>1, <2>4
  <2> QED
    BY <1>1, <2>1, <2>2, <2>3, <2>4
    DEF Next, Ended, vars, SetLabel, SetInternal, ConfigAdd, ConfigClear
<1>2. IInv /\ [Next]_vars =>
        [selected' # selected /\ selected \in Universes /\ Universes' = Universes \ {selected}
            => Goes]_vars
  BY <1>1
<1> QED BY <1>2, RowsCorrect, PTL DEF Spec, RemoveGoesDown
==================================================================================
