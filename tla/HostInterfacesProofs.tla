-------------------------- MODULE HostInterfacesProofs --------------------------
(***************************************************************************)
(* Proofs about HostInterfaces for any machines, devices, addresses, masks *)
(* and inputs, and for any length of the buffer and of a symbol.           *)
(*                                                                         *)
(* The lists come out of loops that the model writes as recursive          *)
(* functions.  RunExists shows by induction (on the set of the rounds that *)
(* something holds for, UpTo) that such a loop has a run, so each of them  *)
(* is what its rounds make of it; from that follows that the table of the  *)
(* macOS build holds for every name the IPv4 addresses of its entries in   *)
(* their order (TableIs), and that of the Windows build, where no two      *)
(* adapters have one name, the same (WindowsTableIs, AddressesOfOne).      *)
(*                                                                         *)
(* A directed broadcast is the highest address of its network because a    *)
(* mask leaves the lower part of one byte and all that is below it open    *)
(* (HighestOf), which or-ing the inverted mask fills with ones (OrNotIs).  *)
(*                                                                         *)
(* The rest is the invariant IInv of the steps.  The universe satisfies it *)
(* by the lemmas of UniverseRecordProofs, taken here for the lists of the  *)
(* moment: Assumed is what that module assumes of them, and ListsFit that  *)
(* every list which can come out satisfies it.                             *)
(***************************************************************************)
EXTENDS HostInterfaces, FiniteSetTheorems, WellFoundedInduction, TLAPS


------------------------------------------------------------------------------
(* Induction and loops                                                     *)

\* A set of natural numbers that is not empty has a least element.
LEMMA LeastOf ==
    ASSUME NEW S \in SUBSET Nat, S # {}
    PROVE  \E n \in S : \A m \in S : n <= m
<1> DEFINE R == {xy \in Nat \X Nat : xy[1] < xy[2]}
<1>1. IsWellFoundedOn(R, Nat)
  BY NatLessThanWellFounded DEF OpToRel
<1>2. \E n \in S : \A m \in S : ~(<<m, n>> \in R)
  BY <1>1, WFMin
<1>3. ASSUME NEW n \in Nat, NEW m \in Nat, m < n
      PROVE  <<m, n>> \in R
  BY <1>3
<1> HIDE DEF R
<1>4. PICK n \in S : \A m \in S : ~(<<m, n>> \in R)
  BY <1>2
<1>5. \A m \in S : ~(m < n)
  BY <1>3, <1>4
<1> QED BY <1>5

\* The greatest of some places is one of them.
LEMMA MaxIn ==
    ASSUME NEW k \in Nat, NEW S \in SUBSET (1 .. k), S # {}
    PROVE  Max(S) \in S
<1> DEFINE D == {k - n : n \in S}
<1>1. D \in SUBSET Nat /\ D # {}
  <2>1. \A n \in S : n \in Int /\ n <= k
    OBVIOUS
  <2>2. \A n \in S : k - n \in Nat
    BY <2>1
  <2> QED BY <2>2
<1>2. PICK d \in D : \A e \in D : d <= e
  BY <1>1, LeastOf
<1>3. PICK n \in S : d = k - n
  BY <1>2
<1>4. \A m \in S : n >= m
  <2>1. TAKE m \in S
  <2>2. k - m \in D
    BY <2>1
  <2>3. d <= k - m
    BY <1>2, <2>2
  <2> HIDE DEF D
  <2> QED BY <1>3, <2>3
<1> QED BY <1>4 DEF Max

\* Induction up to a number, on the set of the numbers that something holds for.
LEMMA UpTo ==
    ASSUME NEW k \in Nat, NEW S, 0 \in S, \A n \in 0 .. (k - 1) : n \in S => n + 1 \in S
    PROVE  \A n \in 0 .. k : n \in S
<1> DEFINE T == {n \in 0 .. k : n \notin S}
<1>1. SUFFICES ASSUME T # {} PROVE FALSE
  OBVIOUS
<1>2. PICK n \in T : \A m \in T : n <= m
  <2>1. T \in SUBSET Nat
    OBVIOUS
  <2> HIDE DEF T
  <2> QED BY <1>1, <2>1, LeastOf
<1>3. n # 0 /\ n - 1 \in 0 .. (k - 1) /\ n - 1 \in 0 .. k /\ ~(n <= n - 1)
  BY <1>2
<1>4. n - 1 \in S
  BY <1>2, <1>3
<1>5. (n - 1) + 1 \in S
  BY <1>3, <1>4
<1> QED BY <1>2, <1>3, <1>5

\* A loop of k rounds: what each makes of what the one before it left, and
\* what is left after each.
Loop(k, V) == [1 .. k -> [V -> V]]
IsRun(f, k, V, base, loop) ==
    f \in [0 .. k -> V] /\ f[0] = base /\ \A i \in 1 .. k : f[i] = loop[i][f[i - 1]]

LEMMA RunExists ==
    ASSUME NEW V, NEW base \in V, NEW k \in Nat, NEW loop \in Loop(k, V)
    PROVE  \E f : IsRun(f, k, V, base, loop)
<1> USE DEF Loop
<1> DEFINE Is(f, n) == IsRun(f, n, V, base, loop)
           S == {n \in 0 .. k : \E f : Is(f, n)}
<1>1. 0 \in S
  <2>1. Is([i \in 0 .. 0 |-> base], 0) /\ 0 \in 0 .. k
    BY DEF IsRun
  <2> HIDE DEF Is
  <2> QED BY <2>1
<1>2. ASSUME NEW n \in 0 .. (k - 1), n \in S PROVE n + 1 \in S
  <2>1. PICK f : Is(f, n)
    BY <1>2
  <2> DEFINE last == loop[n + 1][f[n]]
             g == [i \in 0 .. (n + 1) |-> IF i \in 0 .. n THEN f[i] ELSE last]
  <2>2. n + 1 \in 1 .. k /\ n + 1 \in 0 .. k /\ n \in 0 .. n /\ n \in Nat
    BY <1>2
  <2>3. /\ f \in [0 .. n -> V] /\ f[0] = base
        /\ \A i \in 1 .. n : f[i] = loop[i][f[i - 1]]
    BY <2>1 DEF IsRun
  <2>4. last \in V
    BY <2>2, <2>3
  <2>5. g \in [0 .. (n + 1) -> V] /\ g[0] = base
    BY <2>2, <2>3, <2>4
  <2>6. ASSUME NEW i \in 1 .. (n + 1) PROVE g[i] = loop[i][g[i - 1]]
    <3>1. i - 1 \in 0 .. n /\ g[i - 1] = f[i - 1]
      BY <2>2
    <3>2. CASE i \in 1 .. n
      BY <2>3, <3>1, <3>2
    <3>3. CASE i = n + 1
      BY <2>2, <3>1, <3>3
    <3> QED BY <2>2, <3>2, <3>3
  <2> HIDE DEF g
  <2>7. Is(g, n + 1)
    BY <2>5, <2>6 DEF IsRun
  <2> QED BY <2>2, <2>7
<1>3. k \in S
  <2> HIDE DEF S
  <2>1. \A n \in 0 .. k : n \in S
    BY <1>1, <1>2, UpTo
  <2> QED BY <2>1
<1> QED BY <1>3

\* A sequence of the members of a finite set has each of them once.
LEMMA SeqsOf ==
    ASSUME NEW D, IsFiniteSet(D), NEW s \in SetToSeqs(D)
    PROVE  /\ s \in Seq(D) /\ Len(s) \in Nat
           /\ \A i, j \in 1 .. Len(s) : s[i] = s[j] => i = j
           /\ \A x \in D : \E i \in 1 .. Len(s) : s[i] = x
<1> DEFINE n == Cardinality(D)
<1>1. n \in Nat
  BY FS_CardinalityType
<1>2. s \in [1 .. n -> D] /\ \A i, j \in 1 .. n : s[i] = s[j] => i = j
  BY DEF SetToSeqs
<1>3. s \in Injection(1 .. n, D)
  <2> HIDE DEF n
  <2>1. DOMAIN s = 1 .. n
    BY <1>2
  <2>2. IsInjective(s)
    BY <1>2, <2>1, Zenon DEF IsInjective
  <2> QED BY <1>2, <2>2, Zenon DEF Injection
<1>4. Cardinality(1 .. n) = n
  <2> HIDE DEF n
  <2>1. 1 \in Int /\ n \in Int
    BY <1>1
  <2>2. Cardinality(1 .. n) = IF 1 > n THEN 0 ELSE n - 1 + 1
    BY ONLY <2>1, FS_Interval, Zenon
  <2> QED BY <1>1, <2>2
<1>5. s \in Surjection(1 .. n, D)
  BY <1>1, <1>3, <1>4, FS_Injection, Zenon
<1> HIDE DEF n
<1>6. s \in Seq(D) /\ Len(s) = n
  BY <1>1, <1>2
<1> QED BY <1>1, <1>2, <1>5, <1>6 DEF Surjection

------------------------------------------------------------------------------
(* The loops over addresses and over adapters                              *)

\* The loop over a list of addresses, in one round and after each.
IpRound(list, f, i) ==
    IF i = 0 THEN <<>>
    ELSE IF list[i] \in IpAddresses THEN Append(f[i - 1], list[i]) ELSE f[i - 1]
IpRounds(list) == CHOOSE f : f = [i \in 0 .. Len(list) |-> IpRound(list, f, i)]

LEMMA IpRoundsAre ==
    ASSUME NEW list, Len(list) \in Nat
    PROVE  LET f == IpRounds(list)
           IN /\ IpsOf(list) = f[Len(list)]
              /\ f[0] = <<>>
              /\ \A i \in 1 .. Len(list) :
                    f[i] = IF list[i] \in IpAddresses THEN Append(f[i - 1], list[i]) ELSE f[i - 1]
              /\ \A i \in 0 .. Len(list) : f[i] \in Seq(IpAddresses)
<1>0. PICK k \in Nat : k = Len(list)
  OBVIOUS
<1> DEFINE V == Seq(IpAddresses)
           Is(f) == f = [i \in 0 .. k |-> IpRound(list, f, i)]
           f == CHOOSE f : Is(f)
<1>1. k \in Nat /\ <<>> \in V
  OBVIOUS
<1>2. \E g : Is(g)
  <2>1. PICK loop \in Loop(k, V) :
            \A i \in 1 .. k, q \in V :
               loop[i][q] = IF list[i] \in IpAddresses THEN Append(q, list[i]) ELSE q
    <3> DEFINE loop == [i \in 1 .. k |->
                          [q \in V |-> IF list[i] \in IpAddresses THEN Append(q, list[i]) ELSE q]]
    <3>1. loop \in Loop(k, V)
      BY DEF Loop
    <3> QED BY <3>1
  <2>2. PICK g : IsRun(g, k, V, <<>>, loop)
    BY ONLY <1>1, <2>1, RunExists
  <2>3. g \in [0 .. k -> V] /\ g[0] = <<>> /\ \A i \in 1 .. k : g[i] = loop[i][g[i - 1]]
    BY <2>2 DEF IsRun
  <2>4. ASSUME NEW i \in 0 .. k PROVE g[i] = IpRound(list, g, i)
    <3>1. CASE i = 0
      BY <2>3, <3>1 DEF IpRound
    <3>2. CASE i # 0
      <4>1. i \in 1 .. k /\ i - 1 \in 0 .. k
        BY <3>2
      <4>2. g[i - 1] \in V
        BY <2>3, <4>1
      <4>3. g[i] = IF list[i] \in IpAddresses THEN Append(g[i - 1], list[i]) ELSE g[i - 1]
        BY <2>1, <2>3, <4>1, <4>2
      <4> QED BY <3>2, <4>3 DEF IpRound
    <3> QED BY <3>1, <3>2
  <2>5. g = [i \in 0 .. k |-> g[i]]
    BY <2>3
  <2> QED BY <2>4, <2>5
<1>3. Is(f)
  BY <1>2
<1>4. f = IpRounds(list) /\ IpsOf(list) = f[k]
  BY <1>0 DEF IpRounds, IpsOf, IpRound
<1> HIDE DEF f
<1>5. \A i \in 0 .. k : f[i] = IpRound(list, f, i)
  BY <1>3
<1>6. f[0] = <<>>
  BY <1>1, <1>5 DEF IpRound
<1>7. \A i \in 1 .. k : f[i] = IF list[i] \in IpAddresses THEN Append(f[i - 1], list[i]) ELSE f[i - 1]
  BY <1>1, <1>5 DEF IpRound
<1>8. \A i \in 0 .. k : f[i] \in V
  <2> DEFINE S == {i \in 0 .. k : f[i] \in V}
  <2> HIDE DEF V
  <2>1. 0 \in S
    BY <1>1, <1>6
  <2>2. ASSUME NEW n \in 0 .. (k - 1), n \in S PROVE n + 1 \in S
    <3>1. n + 1 \in 1 .. k /\ n + 1 \in 0 .. k /\ (n + 1) - 1 = n /\ f[n] \in V
      BY <1>1, <2>2
    <3>2. f[n + 1] = IF list[n + 1] \in IpAddresses THEN Append(f[n], list[n + 1]) ELSE f[n]
      BY <1>7, <3>1
    <3>3. f[n + 1] \in V
      BY <3>1, <3>2 DEF V
    <3> QED BY <3>1, <3>3
  <2> HIDE DEF S
  <2>3. \A i \in 0 .. k : i \in S
    BY <1>1, <2>1, <2>2, UpTo
  <2> QED BY <2>3 DEF S
<1> QED BY <1>0, <1>4, <1>6, <1>7, <1>8

\* The loop over the adapters, after each of them.
EntryRound(m, f, i) == IF i = 0 THEN <<>> ELSE f[i - 1] \o EntriesOf(m[i])
EntryRounds(m) == CHOOSE f : f = [i \in 0 .. Len(m) |-> EntryRound(m, f, i)]

EntrySet(names) == [name : names, address : STRING]
MachineSet(names) == [name : names, addresses : Seq(STRING)]

\* The entries of an adapter are its addresses with its name.
LEMMA EntriesOfType ==
    ASSUME NEW names, NEW a \in MachineSet(names)
    PROVE  EntriesOf(a) \in Seq(EntrySet(names)) /\ Len(EntriesOf(a)) = Len(a.addresses)
<1> DEFINE l == Len(a.addresses)
           es == EntriesOf(a)
<1>1. a.name \in names /\ a.addresses \in Seq(STRING)
  BY DEF MachineSet
<1>2. l \in Nat /\ \A j \in 1 .. l : a.addresses[j] \in STRING
  BY <1>1
<1>3. es = [j \in 1 .. l |-> [name |-> a.name, address |-> a.addresses[j]]]
  BY DEF EntriesOf
<1> HIDE DEF l, es
<1>4. es \in [1 .. l -> EntrySet(names)]
  BY <1>1, <1>2, <1>3 DEF EntrySet
<1>5. es \in Seq(EntrySet(names)) /\ Len(es) = l
  BY <1>2, <1>4
<1> QED BY <1>5 DEF l, es

LEMMA EntryRoundsAre ==
    ASSUME NEW names, NEW m \in Seq(MachineSet(names))
    PROVE  LET f == EntryRounds(m)
           IN /\ Entries(m) = f[Len(m)]
              /\ f[0] = <<>>
              /\ \A i \in 1 .. Len(m) : f[i] = f[i - 1] \o EntriesOf(m[i])
              /\ \A i \in 0 .. Len(m) : f[i] \in Seq(EntrySet(names))
<1>0. PICK k \in Nat : k = Len(m)
  OBVIOUS
<1> DEFINE V == Seq(EntrySet(names))
           Is(f) == f = [i \in 0 .. k |-> EntryRound(m, f, i)]
           f == CHOOSE f : Is(f)
<1>1. k \in Nat /\ <<>> \in V
  OBVIOUS
<1>2. ASSUME NEW i \in 1 .. k, NEW q \in V
      PROVE  q \o EntriesOf(m[i]) \in V
  <2>1. m[i] \in MachineSet(names)
    BY <1>0
  <2>2. EntriesOf(m[i]) \in V
    BY <2>1, EntriesOfType
  <2> QED BY <2>2
<1>3. \E g : Is(g)
  <2> HIDE DEF V
  <2>1. PICK loop \in Loop(k, V) : \A i \in 1 .. k, q \in V : loop[i][q] = q \o EntriesOf(m[i])
    <3> DEFINE loop == [i \in 1 .. k |-> [q \in V |-> q \o EntriesOf(m[i])]]
    <3>1. loop \in Loop(k, V)
      BY <1>2 DEF Loop
    <3> QED BY <3>1
  <2>2. PICK g : IsRun(g, k, V, <<>>, loop)
    BY ONLY <1>1, <2>1, RunExists
  <2>3. g \in [0 .. k -> V] /\ g[0] = <<>> /\ \A i \in 1 .. k : g[i] = loop[i][g[i - 1]]
    BY <2>2 DEF IsRun
  <2>4. ASSUME NEW i \in 0 .. k PROVE g[i] = EntryRound(m, g, i)
    <3>1. CASE i = 0
      BY <2>3, <3>1 DEF EntryRound
    <3>2. CASE i # 0
      <4>1. i \in 1 .. k /\ i - 1 \in 0 .. k
        BY <1>1, <3>2
      <4>2. g[i - 1] \in V
        BY <2>3, <4>1
      <4>3. g[i] = g[i - 1] \o EntriesOf(m[i])
        BY <2>1, <2>3, <4>1, <4>2
      <4> QED BY <3>2, <4>3 DEF EntryRound
    <3> QED BY <3>1, <3>2
  <2>5. g = [i \in 0 .. k |-> g[i]]
    BY <2>3
  <2> QED BY <2>4, <2>5
<1>4. Is(f)
  BY <1>3
<1>5. f = EntryRounds(m) /\ Entries(m) = f[k]
  BY <1>0 DEF EntryRounds, Entries, EntryRound
<1> HIDE DEF f
<1>6. \A i \in 0 .. k : f[i] = EntryRound(m, f, i)
  BY <1>4
<1>7. f[0] = <<>>
  BY <1>1, <1>6 DEF EntryRound
<1>8. \A i \in 1 .. k : f[i] = f[i - 1] \o EntriesOf(m[i])
  <2>1. \A i \in 1 .. k : i \in 0 .. k /\ i # 0
    BY <1>1
  <2> QED BY <1>6, <2>1 DEF EntryRound
<1>9. \A i \in 0 .. k : f[i] \in V
  <2> DEFINE S == {i \in 0 .. k : f[i] \in V}
  <2> HIDE DEF V
  <2>1. 0 \in S
    BY <1>1, <1>7
  <2>2. ASSUME NEW n \in 0 .. (k - 1), n \in S PROVE n + 1 \in S
    <3>1. n + 1 \in 1 .. k /\ n + 1 \in 0 .. k /\ (n + 1) - 1 = n /\ f[n] \in V
      BY <1>1, <2>2
    <3>2. f[n + 1] = f[n] \o EntriesOf(m[n + 1])
      BY <1>8, <3>1
    <3>3. f[n + 1] \in V
      BY <1>2, <3>1, <3>2
    <3> QED BY <3>1, <3>3
  <2> HIDE DEF S
  <2>3. \A i \in 0 .. k : i \in S
    BY <1>1, <2>1, <2>2, UpTo
  <2> QED BY <2>3 DEF S
<1> QED BY <1>0, <1>5, <1>7, <1>8, <1>9

------------------------------------------------------------------------------
(* The table                                                               *)

\* The tables that hold addresses by some of the names.
Tables(names) == UNION {[D -> Seq(IpAddresses)] : D \in SUBSET names}

LEMMA InTables ==
    ASSUME NEW names, NEW t
    PROVE  t \in Tables(names) <=> DOMAIN t \subseteq names /\ t \in [DOMAIN t -> Seq(IpAddresses)]
BY DEF Tables

\* An entry goes to the end of the addresses of its name.
LEMMA Added ==
    ASSUME NEW names, NEW t \in Tables(names), NEW e \in EntrySet(names)
    PROVE  LET u == AddEntry(t, e)
           IN /\ u \in Tables(names)
              /\ e.address \notin IpAddresses => u = t
              /\ e.address \in IpAddresses =>
                    /\ DOMAIN u = DOMAIN t \cup {e.name}
                    /\ u[e.name] = IF e.name \in DOMAIN t THEN Append(t[e.name], e.address)
                                   ELSE <<e.address>>
                    /\ \A n \in DOMAIN t : n # e.name => u[n] = t[n]
<1> DEFINE u == AddEntry(t, e)
           own == IF e.name \in DOMAIN t THEN Append(t[e.name], e.address) ELSE <<e.address>>
<1>1. e.name \in names
  BY DEF EntrySet
<1>2. DOMAIN t \subseteq names /\ t \in [DOMAIN t -> Seq(IpAddresses)]
  BY InTables
<1>3. CASE e.address \notin IpAddresses
  BY <1>3 DEF AddEntry
<1>4. CASE e.address \in IpAddresses
  <2>1. own \in Seq(IpAddresses)
    BY <1>2, <1>4
  <2>2. u = [n \in DOMAIN t \cup {e.name} |-> IF n = e.name THEN own ELSE t[n]]
    BY <1>4 DEF AddEntry, Put
  <2> HIDE DEF u, own
  <2>3. DOMAIN u = DOMAIN t \cup {e.name} /\ u[e.name] = own
    BY <2>2
  <2>4. \A n \in DOMAIN t : n # e.name => u[n] = t[n]
    BY <2>2
  <2>5. u \in [DOMAIN u -> Seq(IpAddresses)]
    BY <1>2, <2>1, <2>2
  <2>6. u \in Tables(names)
    BY <1>1, <1>2, <2>3, <2>5, InTables
  <2> QED BY <1>4, <2>3, <2>4, <2>6 DEF u, own
<1> QED BY <1>3, <1>4

\* The loop over the entries, in one round and after each.
TableRound(es, f, i) == IF i = 0 THEN NoTable ELSE AddEntry(f[i - 1], es[i])
TableRounds(es) == CHOOSE f : f = [i \in 0 .. Len(es) |-> TableRound(es, f, i)]

LEMMA NoTableIs ==
    ASSUME NEW names
    PROVE  NoTable \in Tables(names) /\ DOMAIN NoTable = {}
<1>1. DOMAIN NoTable = {} /\ NoTable \in [{} -> Seq(IpAddresses)]
  BY DEF NoTable
<1> QED BY <1>1, InTables

LEMMA TableRoundsAre ==
    ASSUME NEW names, NEW es \in Seq(EntrySet(names))
    PROVE  LET f == TableRounds(es)
           IN /\ TableOf(es) = f[Len(es)]
              /\ f[0] = NoTable
              /\ \A i \in 1 .. Len(es) : f[i] = AddEntry(f[i - 1], es[i])
<1>0. PICK k \in Nat : k = Len(es)
  OBVIOUS
<1> DEFINE V == Tables(names)
           Is(f) == f = [i \in 0 .. k |-> TableRound(es, f, i)]
           f == CHOOSE f : Is(f)
<1>1. NoTable \in V
  BY NoTableIs
<1>2. ASSUME NEW i \in 1 .. k, NEW t \in V
      PROVE  AddEntry(t, es[i]) \in V
  <2>1. es[i] \in EntrySet(names)
    BY <1>0
  <2> QED BY <2>1, Added
<1>3. \E g : Is(g)
  <2> HIDE DEF V
  <2>1. PICK loop \in Loop(k, V) : \A i \in 1 .. k, t \in V : loop[i][t] = AddEntry(t, es[i])
    <3> DEFINE loop == [i \in 1 .. k |-> [t \in V |-> AddEntry(t, es[i])]]
    <3>1. loop \in Loop(k, V)
      BY <1>2 DEF Loop
    <3> QED BY <3>1
  <2>2. PICK g : IsRun(g, k, V, NoTable, loop)
    BY ONLY <1>1, <2>1, RunExists
  <2>3. g \in [0 .. k -> V] /\ g[0] = NoTable /\ \A i \in 1 .. k : g[i] = loop[i][g[i - 1]]
    BY <2>2 DEF IsRun
  <2>4. ASSUME NEW i \in 0 .. k PROVE g[i] = TableRound(es, g, i)
    <3>1. CASE i = 0
      BY <2>3, <3>1 DEF TableRound
    <3>2. CASE i # 0
      <4>1. i \in 1 .. k /\ i - 1 \in 0 .. k
        BY <3>2
      <4>2. g[i - 1] \in V
        BY <2>3, <4>1
      <4>3. g[i] = AddEntry(g[i - 1], es[i])
        BY <2>1, <2>3, <4>1, <4>2
      <4> QED BY <3>2, <4>3 DEF TableRound
    <3> QED BY <3>1, <3>2
  <2>5. g = [i \in 0 .. k |-> g[i]]
    BY <2>3
  <2> QED BY <2>4, <2>5
<1>4. Is(f)
  BY <1>3
<1>5. f = TableRounds(es) /\ TableOf(es) = f[k]
  BY <1>0 DEF TableRounds, TableOf, TableRound
<1> HIDE DEF f
<1>6. \A i \in 0 .. k : f[i] = TableRound(es, f, i)
  BY <1>4
<1>7. f[0] = NoTable
  BY <1>6 DEF TableRound
<1>8. \A i \in 1 .. k : f[i] = AddEntry(f[i - 1], es[i])
  <2>1. \A i \in 1 .. k : i \in 0 .. k /\ i # 0
    OBVIOUS
  <2> QED BY <1>6, <2>1 DEF TableRound
<1> QED BY <1>0, <1>5, <1>7, <1>8

\* The addresses of the entries of one name, those of another being blanked.
Blanked(es, name) == [i \in 1 .. Len(es) |-> IF es[i].name = name THEN es[i].address ELSE ""]

\* The table has the names of the entries with an IPv4 address, and by each
\* name the addresses of its entries in their order.
LEMMA TableIs ==
    ASSUME NEW names, NEW es \in Seq(EntrySet(names))
    PROVE  LET t == TableOf(es)
           IN /\ t \in Tables(names) /\ IsFiniteSet(DOMAIN t)
              /\ \A n \in DOMAIN t : t[n] = IpsOf(Blanked(es, n))
              /\ \A i \in 1 .. Len(es) : es[i].address \in IpAddresses => es[i].name \in DOMAIN t
<1>0. PICK k \in Nat : k = Len(es)
  OBVIOUS
<1> DEFINE V == Tables(names)
           f == TableRounds(es)
           ips(n) == IpRounds(Blanked(es, n))
<1>1. /\ TableOf(es) = f[k] /\ f[0] = NoTable
      /\ \A i \in 1 .. k : f[i] = AddEntry(f[i - 1], es[i])
  BY <1>0, TableRoundsAre
<1>2. ASSUME NEW n
      PROVE  /\ IpsOf(Blanked(es, n)) = ips(n)[k] /\ ips(n)[0] = <<>>
             /\ \A i \in 1 .. k :
                   ips(n)[i] = IF es[i].name = n /\ es[i].address \in IpAddresses
                               THEN Append(ips(n)[i - 1], es[i].address) ELSE ips(n)[i - 1]
  <2> DEFINE list == Blanked(es, n)
  <2>1. Len(list) = k /\ \A i \in 1 .. k : list[i] = IF es[i].name = n THEN es[i].address ELSE ""
    BY <1>0 DEF Blanked
  <2> HIDE DEF list
  <2>2. /\ IpsOf(list) = IpRounds(list)[k] /\ IpRounds(list)[0] = <<>>
        /\ \A i \in 1 .. k :
              IpRounds(list)[i] = IF list[i] \in IpAddresses THEN Append(IpRounds(list)[i - 1], list[i])
                                  ELSE IpRounds(list)[i - 1]
    BY <2>1, IpRoundsAre
  <2>3. "" \notin IpAddresses
    BY AddressAssumption
  <2>4. /\ IpsOf(list) = IpRounds(list)[k] /\ IpRounds(list)[0] = <<>>
        /\ \A i \in 1 .. k :
              IpRounds(list)[i] = IF es[i].name = n /\ es[i].address \in IpAddresses
                                  THEN Append(IpRounds(list)[i - 1], es[i].address)
                                  ELSE IpRounds(list)[i - 1]
    BY <2>1, <2>2, <2>3
  <2> QED BY <2>4 DEF list
<1> HIDE DEF f, ips
<1> DEFINE Fits(i) ==
              /\ f[i] \in V /\ IsFiniteSet(DOMAIN f[i])
              /\ \A n \in names : ips(n)[i] = IF n \in DOMAIN f[i] THEN f[i][n] ELSE <<>>
              /\ \A j \in 1 .. i : es[j].address \in IpAddresses => es[j].name \in DOMAIN f[i]
           S == {i \in 0 .. k : Fits(i)}
<1>3. 0 \in S
  <2>1. NoTable \in V /\ DOMAIN NoTable = {} /\ IsFiniteSet({})
    BY NoTableIs, FS_EmptySet
  <2> HIDE DEF V
  <2>2. Fits(0)
    BY <1>1, <1>2, <2>1
  <2> HIDE DEF Fits
  <2> QED BY <2>2
<1>4. ASSUME NEW i \in 0 .. (k - 1), i \in S PROVE i + 1 \in S
  <2> DEFINE e == es[i + 1]
             t == f[i]
             u == f[i + 1]
  <2>1. i + 1 \in 1 .. k /\ i + 1 \in 0 .. k /\ (i + 1) - 1 = i /\ Fits(i)
    BY <1>4
  <2>2. e \in EntrySet(names)
    BY <1>0, <2>1
  <2>3. e.name \in names
    BY <2>2 DEF EntrySet
  <2>4. u = AddEntry(t, e)
    BY <1>1, <2>1
  <2>5. t \in V /\ IsFiniteSet(DOMAIN t)
    BY <2>1
  <2>6. \A n \in names : ips(n)[i] = IF n \in DOMAIN t THEN t[n] ELSE <<>>
    BY <2>1
  <2>7. \A j \in 1 .. i : es[j].address \in IpAddresses => es[j].name \in DOMAIN t
    BY <2>1
  <2>8. ASSUME NEW n \in names
        PROVE  ips(n)[i + 1] = IF e.name = n /\ e.address \in IpAddresses
                               THEN Append(ips(n)[i], e.address) ELSE ips(n)[i]
    BY <1>2, <2>1
  <2>9. \A j \in 1 .. (i + 1) : j = i + 1 \/ j \in 1 .. i
    BY <2>1
  <2>10. DOMAIN t \subseteq names
    BY <2>5, InTables
  <2> HIDE DEF e, t, u, V
  <2>11. CASE e.address \notin IpAddresses
    <3>1. u = t
      BY <2>2, <2>4, <2>5, <2>11, Added DEF V
    <3>2. \A n \in names : ips(n)[i + 1] = IF n \in DOMAIN u THEN u[n] ELSE <<>>
      BY <2>6, <2>8, <2>11, <3>1
    <3>3. \A j \in 1 .. (i + 1) : es[j].address \in IpAddresses => es[j].name \in DOMAIN u
      BY <2>7, <2>9, <2>11, <3>1 DEF e
    <3>4. Fits(i + 1)
      BY <2>5, <3>1, <3>2, <3>3 DEF u
    <3> QED BY <2>1, <3>4
  <2>12. CASE e.address \in IpAddresses
    <3>1. /\ u \in V
          /\ DOMAIN u = DOMAIN t \cup {e.name}
          /\ u[e.name] = IF e.name \in DOMAIN t THEN Append(t[e.name], e.address) ELSE <<e.address>>
          /\ \A n \in DOMAIN t : n # e.name => u[n] = t[n]
      <4>1. t \in Tables(names)
        BY <2>5 DEF V
      <4>2. /\ AddEntry(t, e) \in Tables(names)
            /\ e.address \in IpAddresses =>
                  /\ DOMAIN AddEntry(t, e) = DOMAIN t \cup {e.name}
                  /\ AddEntry(t, e)[e.name] = IF e.name \in DOMAIN t THEN Append(t[e.name], e.address)
                                              ELSE <<e.address>>
                  /\ \A n \in DOMAIN t : n # e.name => AddEntry(t, e)[n] = t[n]
        BY ONLY <2>2, <4>1, Added
      <4> QED BY <2>4, <2>12, <4>2 DEF V
    <3>2. IsFiniteSet(DOMAIN u)
      BY <2>5, <3>1, FS_AddElement
    <3>3. ASSUME NEW n \in names PROVE ips(n)[i + 1] = IF n \in DOMAIN u THEN u[n] ELSE <<>>
      <4>1. CASE n = e.name
        <5>1. ips(n)[i + 1] = Append(ips(n)[i], e.address)
          BY <2>8, <2>12, <4>1
        <5>2. Append(<<>>, e.address) = <<e.address>>
          OBVIOUS
        <5> QED BY <2>6, <3>1, <4>1, <5>1, <5>2
      <4>2. CASE n # e.name
        BY <2>6, <2>8, <3>1, <4>2
      <4> QED BY <4>1, <4>2
    <3>4. \A j \in 1 .. (i + 1) : es[j].address \in IpAddresses => es[j].name \in DOMAIN u
      BY <2>7, <2>9, <3>1 DEF e
    <3>5. Fits(i + 1)
      BY <3>1, <3>2, <3>3, <3>4 DEF u
    <3> QED BY <2>1, <3>5
  <2> QED BY <2>11, <2>12
<1>5. Fits(k)
  <2> HIDE DEF S, Fits
  <2>1. \A i \in 0 .. k : i \in S
    BY <1>3, <1>4, UpTo
  <2> QED BY <2>1 DEF S
<1>6. DOMAIN f[k] \subseteq names
  BY <1>5, InTables
<1>7. \A n \in DOMAIN f[k] : f[k][n] = IpsOf(Blanked(es, n))
  BY <1>2, <1>5, <1>6
<1> QED BY <1>0, <1>1, <1>5, <1>7

------------------------------------------------------------------------------
(* The addresses of one adapter                                            *)

\* What the loop over a list of addresses leaves after each round.
IsIps(f, list, k) ==
    /\ k = Len(list) /\ IpsOf(list) = f[k] /\ f[0] = <<>>
    /\ \A i \in 1 .. k :
          f[i] = IF list[i] \in IpAddresses THEN Append(f[i - 1], list[i]) ELSE f[i - 1]
    /\ \A i \in 0 .. k : f[i] \in Seq(IpAddresses)

LEMMA IpsByRounds ==
    ASSUME NEW list, Len(list) \in Nat
    PROVE  \E f : IsIps(f, list, Len(list))
<1> DEFINE f == IpRounds(list)
<1>1. /\ IpsOf(list) = f[Len(list)] /\ f[0] = <<>>
      /\ \A i \in 1 .. Len(list) :
            f[i] = IF list[i] \in IpAddresses THEN Append(f[i - 1], list[i]) ELSE f[i - 1]
      /\ \A i \in 0 .. Len(list) : f[i] \in Seq(IpAddresses)
  BY IpRoundsAre
<1> HIDE DEF f
<1>2. IsIps(f, list, Len(list))
  BY <1>1 DEF IsIps
<1> QED BY <1>2

LEMMA IpsType ==
    ASSUME NEW list, Len(list) \in Nat
    PROVE  IpsOf(list) \in Seq(IpAddresses)
<1>1. PICK f : IsIps(f, list, Len(list))
  BY IpsByRounds
<1>2. PICK k \in Nat : k = Len(list)
  OBVIOUS
<1>3. IpsOf(list) = f[k] /\ \A i \in 0 .. k : f[i] \in Seq(IpAddresses)
  BY <1>1, <1>2 DEF IsIps
<1> QED BY <1>3

IsConcat(q, r, x) == q \o Append(r, x) = Append(q \o r, x)

\* Appending to the second of two lists appends to both.
LEMMA ConcatAppend ==
    ASSUME NEW V, NEW q \in Seq(V), NEW r \in Seq(V), NEW x \in V
    PROVE  IsConcat(q, r, x)
<1>1. Len(q) \in Nat /\ Len(r) \in Nat
  OBVIOUS
<1> QED BY <1>1 DEF IsConcat

LEMMA ConcatNone ==
    ASSUME NEW V, NEW q \in Seq(V)
    PROVE  q \o <<>> = q /\ <<>> \o q = q
OBVIOUS

\* A list is one, and then another.
Joins(list, a, b) ==
    /\ Len(a) \in Nat /\ Len(b) \in Nat /\ Len(list) = Len(a) + Len(b)
    /\ \A i \in 1 .. Len(a) : list[i] = a[i]
    /\ \A j \in 1 .. Len(b) : list[Len(a) + j] = b[j]

\* The addresses of a list are those of its first part, then of the second.
LEMMA IpsOfBoth ==
    ASSUME NEW a, NEW b, NEW list, Joins(list, a, b)
    PROVE  IpsOf(list) = IpsOf(a) \o IpsOf(b)
<1>1. PICK p \in Nat, q \in Nat, k \in Nat :
         /\ p = Len(a) /\ q = Len(b) /\ k = Len(list) /\ k = p + q
         /\ \A i \in 1 .. p : list[i] = a[i]
         /\ \A j \in 1 .. q : list[p + j] = b[j]
  BY DEF Joins
<1>2. PICK c : IsIps(c, list, Len(list))
  BY <1>1, IpsByRounds
<1>3. PICK f : IsIps(f, a, Len(a))
  BY <1>1, IpsByRounds
<1>4. PICK g : IsIps(g, b, Len(b))
  BY <1>1, IpsByRounds
<1>21. /\ IpsOf(list) = c[k] /\ c[0] = <<>>
       /\ \A i \in 1 .. k :
             c[i] = IF list[i] \in IpAddresses THEN Append(c[i - 1], list[i]) ELSE c[i - 1]
  BY <1>1, <1>2 DEF IsIps
<1>31. /\ IpsOf(a) = f[p] /\ f[0] = <<>>
       /\ \A i \in 1 .. p :
             f[i] = IF a[i] \in IpAddresses THEN Append(f[i - 1], a[i]) ELSE f[i - 1]
       /\ \A i \in 0 .. p : f[i] \in Seq(IpAddresses)
  BY <1>1, <1>3 DEF IsIps
<1>41. /\ IpsOf(b) = g[q] /\ g[0] = <<>>
       /\ \A j \in 1 .. q :
             g[j] = IF b[j] \in IpAddresses THEN Append(g[j - 1], b[j]) ELSE g[j - 1]
       /\ \A j \in 0 .. q : g[j] \in Seq(IpAddresses)
  BY <1>1, <1>4 DEF IsIps
<1>5. \A i \in 0 .. p : c[i] = f[i]
  <2> DEFINE S == {i \in 0 .. p : c[i] = f[i]}
  <2>1. 0 \in S
    BY <1>21, <1>31
  <2>2. ASSUME NEW n \in 0 .. (p - 1), n \in S PROVE n + 1 \in S
    <3>1. n + 1 \in 1 .. p /\ n + 1 \in 0 .. p /\ n + 1 \in 1 .. k /\ (n + 1) - 1 = n /\ c[n] = f[n]
      BY <1>1, <2>2
    <3>2. c[n + 1] = IF list[n + 1] \in IpAddresses THEN Append(c[n], list[n + 1]) ELSE c[n]
      BY <1>21, <3>1
    <3>3. f[n + 1] = IF a[n + 1] \in IpAddresses THEN Append(f[n], a[n + 1]) ELSE f[n]
      BY <1>31, <3>1
    <3>4. list[n + 1] = a[n + 1]
      BY <1>1, <3>1
    <3> QED BY <3>1, <3>2, <3>3, <3>4
  <2> HIDE DEF S
  <2>3. \A i \in 0 .. p : i \in S
    BY <2>1, <2>2, UpTo
  <2> QED BY <2>3 DEF S
<1>6. f[p] \in Seq(IpAddresses) /\ c[p] = f[p]
  BY <1>31, <1>5
<1>7. \A j \in 0 .. q : c[p + j] = f[p] \o g[j]
  <2> DEFINE S == {j \in 0 .. q : c[p + j] = f[p] \o g[j]}
  <2>1. 0 \in S
    <3>1. f[p] \o <<>> = f[p]
      BY <1>6, ConcatNone
    <3>2. p + 0 = p /\ 0 \in 0 .. q
      OBVIOUS
    <3>3. c[p + 0] = f[p] \o g[0]
      BY <1>41, <1>6, <3>1, <3>2
    <3> QED BY <3>2, <3>3
  <2>2. ASSUME NEW n \in 0 .. (q - 1), n \in S PROVE n + 1 \in S
    <3>1. n + 1 \in 1 .. q /\ n + 1 \in 0 .. q /\ n \in 0 .. q /\ (n + 1) - 1 = n
      OBVIOUS
    <3>2. p + (n + 1) \in 1 .. k /\ (p + (n + 1)) - 1 = p + n
      BY <1>1
    <3>3. list[p + (n + 1)] = b[n + 1]
      BY <1>1, <3>1
    <3>4. c[p + (n + 1)] = IF b[n + 1] \in IpAddresses THEN Append(c[p + n], b[n + 1]) ELSE c[p + n]
      BY <1>21, <3>2, <3>3
    <3>5. g[n + 1] = IF b[n + 1] \in IpAddresses THEN Append(g[n], b[n + 1]) ELSE g[n]
      BY <1>41, <3>1
    <3>6. g[n] \in Seq(IpAddresses)
      BY <1>41, <3>1
    <3>7. c[p + n] = f[p] \o g[n]
      BY <2>2
    <3>8. ASSUME NEW x \in IpAddresses PROVE IsConcat(f[p], g[n], x)
      BY ONLY <1>6, <3>6, <3>8, ConcatAppend
    <3>9. c[p + (n + 1)] = f[p] \o g[n + 1]
      BY <3>4, <3>5, <3>7, <3>8 DEF IsConcat
    <3> QED BY <3>1, <3>9
  <2> HIDE DEF S
  <2>3. \A j \in 0 .. q : j \in S
    BY <2>1, <2>2, UpTo
  <2> QED BY <2>3 DEF S
<1>8. c[p + q] = f[p] \o g[q]
  <2>1. q \in 0 .. q
    OBVIOUS
  <2> QED BY <1>7, <2>1
<1> QED BY <1>1, <1>21, <1>31, <1>41, <1>8

\* A list without an IPv4 address has none.
LEMMA IpsOfNone ==
    ASSUME NEW list, Len(list) \in Nat, \A i \in 1 .. Len(list) : list[i] \notin IpAddresses
    PROVE  IpsOf(list) = <<>>
<1>1. PICK k \in Nat : k = Len(list)
  OBVIOUS
<1>11. PICK f : IsIps(f, list, Len(list))
  BY IpsByRounds
<1>2. /\ IpsOf(list) = f[k] /\ f[0] = <<>>
      /\ \A i \in 1 .. k :
            f[i] = IF list[i] \in IpAddresses THEN Append(f[i - 1], list[i]) ELSE f[i - 1]
  BY <1>1, <1>11 DEF IsIps
<1> DEFINE S == {i \in 0 .. k : f[i] = <<>>}
<1>3. 0 \in S
  BY <1>2
<1>4. ASSUME NEW n \in 0 .. (k - 1), n \in S PROVE n + 1 \in S
  <2>1. n + 1 \in 1 .. k /\ n + 1 \in 0 .. k /\ (n + 1) - 1 = n /\ f[n] = <<>>
    BY <1>4
  <2>2. f[n + 1] = f[n]
    BY <1>1, <1>2, <2>1
  <2> QED BY <2>1, <2>2
<1> HIDE DEF S
<1>5. \A i \in 0 .. k : i \in S
  BY <1>3, <1>4, UpTo
<1> QED BY <1>2, <1>5 DEF S

\* Two lists alike have the same addresses.
Alike(list, a) ==
    Len(a) \in Nat /\ Len(list) = Len(a) /\ \A i \in 1 .. Len(a) : list[i] = a[i]

LEMMA IpsOfSame ==
    ASSUME NEW a, NEW list, Alike(list, a)
    PROVE  IpsOf(list) = IpsOf(a)
<1>1. Len(<<>>) = 0
  OBVIOUS
<1>2. IpsOf(<<>>) = <<>>
  BY <1>1, IpsOfNone
<1>3. Joins(list, a, <<>>)
  <2>1. PICK k \in Nat : k = Len(a) /\ k = Len(list) /\ \A i \in 1 .. k : list[i] = a[i]
    BY DEF Alike
  <2> QED BY <1>1, <2>1 DEF Joins
<1>4. IpsOf(list) = IpsOf(a) \o IpsOf(<<>>)
  BY <1>3, IpsOfBoth
<1>5. IpsOf(a) \in Seq(IpAddresses)
  BY IpsType DEF Alike
<1> QED BY <1>2, <1>4, <1>5, ConcatNone


\* The addresses of one name in two lists of entries.
ByParts(es, fs, name) ==
    IpsOf(Blanked(es \o fs, name)) = IpsOf(Blanked(es, name)) \o IpsOf(Blanked(fs, name))

LEMMA BlankedBoth ==
    ASSUME NEW V, NEW es \in Seq(V), NEW fs \in Seq(V), NEW name
    PROVE  ByParts(es, fs, name)
<1>1. PICK p \in Nat, q \in Nat : p = Len(es) /\ q = Len(fs)
  OBVIOUS
<1>2. PICK both : both = es \o fs
  OBVIOUS
<1>3. /\ Len(both) = p + q
      /\ \A i \in 1 .. p : both[i] = es[i]
      /\ \A j \in 1 .. q : both[p + j] = fs[j]
  BY <1>1, <1>2
<1> DEFINE a == Blanked(es, name)
           b == Blanked(fs, name)
           c == Blanked(both, name)
<1>5. Len(a) = p /\ \A i \in 1 .. p : a[i] = IF es[i].name = name THEN es[i].address ELSE ""
  BY <1>1 DEF Blanked
<1>6. Len(b) = q /\ \A i \in 1 .. q : b[i] = IF fs[i].name = name THEN fs[i].address ELSE ""
  BY <1>1 DEF Blanked
<1>12. PICK k \in Nat : k = p + q
  BY <1>1
<1>7. Len(c) = k /\ \A i \in 1 .. k : c[i] = IF both[i].name = name THEN both[i].address ELSE ""
  <2>1. Len(both) = k
    BY <1>3, <1>12
  <2> QED BY ONLY <1>12, <2>1, k \in Nat DEF Blanked
<1> HIDE DEF a, b, c
<1>8. ASSUME NEW i \in 1 .. p PROVE c[i] = a[i]
  <2>1. i \in 1 .. k
    BY <1>1, <1>12
  <2> QED BY <1>3, <1>5, <1>7, <2>1
<1>9. ASSUME NEW j \in 1 .. q PROVE c[p + j] = b[j]
  <2>1. p + j \in 1 .. k
    BY <1>1, <1>12
  <2>2. c[p + j] = IF both[p + j].name = name THEN both[p + j].address ELSE ""
    BY <1>7, <2>1
  <2> QED BY <1>3, <1>6, <2>2
<1>10. Joins(c, a, b)
  BY <1>5, <1>6, <1>7, <1>8, <1>9, <1>12 DEF Joins
<1>11. IpsOf(c) = IpsOf(a) \o IpsOf(b)
  BY <1>10, IpsOfBoth
<1> QED BY <1>2, <1>11 DEF a, b, c, ByParts

\* The addresses that one adapter has under a name.
LEMMA OneAdapter ==
    ASSUME NEW names, NEW a \in MachineSet(names), NEW name
    PROVE  IpsOf(Blanked(EntriesOf(a), name)) = IF a.name = name THEN IpsOf(a.addresses) ELSE <<>>
<1>1. a.addresses \in Seq(STRING)
  BY DEF MachineSet
<1>2. PICK l \in Nat : l = Len(a.addresses)
  BY <1>1
<1>3. /\ Len(EntriesOf(a)) = l
      /\ \A i \in 1 .. l : EntriesOf(a)[i].name = a.name /\ EntriesOf(a)[i].address = a.addresses[i]
  BY <1>2 DEF EntriesOf
<1> DEFINE list == Blanked(EntriesOf(a), name)
<1>5. /\ Len(list) = l
      /\ \A i \in 1 .. l :
            list[i] = IF EntriesOf(a)[i].name = name THEN EntriesOf(a)[i].address ELSE ""
  BY <1>3 DEF Blanked
<1> HIDE DEF list
<1>6. CASE a.name = name
  <2>1. \A i \in 1 .. l : list[i] = a.addresses[i]
    BY <1>3, <1>5, <1>6
  <2>2. Alike(list, a.addresses)
    BY <1>2, <1>5, <2>1 DEF Alike
  <2>3. IpsOf(list) = IpsOf(a.addresses)
    BY <2>2, IpsOfSame
  <2> QED BY <1>6, <2>3 DEF list
<1>7. CASE a.name # name
  <2>1. \A i \in 1 .. Len(list) : list[i] \notin IpAddresses
    BY <1>3, <1>5, <1>7, AddressAssumption
  <2>2. IpsOf(list) = <<>>
    BY <1>5, <2>1, IpsOfNone
  <2> QED BY <1>7, <2>2 DEF list
<1> QED BY <1>6, <1>7

\* When no two adapters have one name, the addresses of a name are those of its
\* adapter.
LEMMA AddressesOfOne ==
    ASSUME NEW names, NEW m \in Seq(MachineSet(names)),
           \A i, j \in 1 .. Len(m) : m[i].name = m[j].name => i = j,
           NEW p \in 1 .. Len(m)
    PROVE  AddressesOf(m, m[p].name) = IpsOf(m[p].addresses)
<1>1. PICK k \in Nat : k = Len(m)
  OBVIOUS
<1>2. PICK name : name = m[p].name
  OBVIOUS
<1>3. PICK own : own = IpsOf(m[p].addresses)
  OBVIOUS
<1>4. PICK f : /\ Entries(m) = f[k] /\ f[0] = <<>>
               /\ \A i \in 1 .. k : f[i] = f[i - 1] \o EntriesOf(m[i])
               /\ \A i \in 0 .. k : f[i] \in Seq(EntrySet(names))
  BY <1>1, EntryRoundsAre
<1>5. AddressesOf(m, name) = IpsOf(Blanked(f[k], name))
  BY <1>4 DEF AddressesOf, Blanked
<1>6. \A i \in 1 .. k : m[i] \in MachineSet(names)
  BY <1>1
<1>7. own \in Seq(IpAddresses)
  <2>1. m[p].addresses \in Seq(STRING)
    BY <1>1, <1>6 DEF MachineSet
  <2>2. Len(m[p].addresses) \in Nat
    BY <2>1
  <2> QED BY <1>3, <2>2, IpsType
<1> DEFINE Gathered(i) == IpsOf(Blanked(f[i], name))
           S == {i \in 0 .. k : Gathered(i) = IF i < p THEN <<>> ELSE own}
<1>8. 0 \in S
  <2>1. Blanked(<<>>, name) = <<>> /\ Len(<<>>) = 0
    BY DEF Blanked
  <2>2. IpsOf(<<>>) = <<>>
    BY <2>1, IpsOfNone
  <2>3. 0 < p /\ 0 \in 0 .. k
    BY <1>1
  <2>4. Gathered(0) = <<>>
    BY <1>4, <2>1, <2>2
  <2> HIDE DEF Gathered
  <2> QED BY <2>3, <2>4
<1>9. ASSUME NEW n \in 0 .. (k - 1), n \in S PROVE n + 1 \in S
  <2>1. n + 1 \in 1 .. k /\ n + 1 \in 0 .. k /\ n \in 0 .. k /\ (n + 1) - 1 = n
    OBVIOUS
  <2>2. Gathered(n) = IF n < p THEN <<>> ELSE own
    BY <1>9
  <2>3. PICK a \in MachineSet(names) : a = m[n + 1]
    BY <1>6, <2>1
  <2>4. f[n + 1] = f[n] \o EntriesOf(a) /\ f[n] \in Seq(EntrySet(names))
    BY <1>4, <2>1, <2>3
  <2>5. EntriesOf(a) \in Seq(EntrySet(names))
    BY EntriesOfType
  <2>6. Gathered(n + 1) = Gathered(n) \o IpsOf(Blanked(EntriesOf(a), name))
    <3>1. IpsOf(Blanked(f[n] \o EntriesOf(a), name))
            = IpsOf(Blanked(f[n], name)) \o IpsOf(Blanked(EntriesOf(a), name))
      <4>1. ByParts(f[n], EntriesOf(a), name)
        BY ONLY <2>4, <2>5, BlankedBoth
      <4> QED BY <4>1 DEF ByParts
    <3> QED BY <2>4, <3>1
  <2>7. Gathered(n + 1) = Gathered(n) \o (IF a.name = name THEN IpsOf(a.addresses) ELSE <<>>)
    BY <2>6, OneAdapter
  <2>8. a.name = name <=> n + 1 = p
    BY <1>1, <1>2, <2>1, <2>3
  <2>9. Gathered(n) \in Seq(IpAddresses)
    BY <1>7, <2>2
  <2> HIDE DEF Gathered
  <2>10. Gathered(n + 1) = IF n + 1 < p THEN <<>> ELSE own
    <3>1. CASE n + 1 = p
      <4>1. Gathered(n) = <<>> /\ IpsOf(a.addresses) = own
        BY <1>3, <2>2, <2>3, <3>1
      <4> QED BY <1>7, <2>7, <2>8, <3>1, <4>1, ConcatNone
    <3>2. CASE n + 1 # p
      <4>1. Gathered(n + 1) = Gathered(n)
        BY <2>7, <2>8, <2>9, <3>2, ConcatNone
      <4>2. n + 1 < p <=> n < p
        BY <1>1, <3>2
      <4> QED BY <2>2, <4>1, <4>2
    <3> QED BY <3>1, <3>2
  <2> QED BY <2>1, <2>10
<1> HIDE DEF S
<1>10. \A i \in 0 .. k : i \in S
  BY <1>8, <1>9, UpTo
<1>11. Gathered(k) = own
  <2>1. k \in 0 .. k /\ ~(k < p)
    BY <1>1
  <2> QED BY <1>10, <2>1 DEF S
<1> QED BY <1>2, <1>3, <1>5, <1>11

------------------------------------------------------------------------------
(* The order of a table, and the tables on Windows                         *)

\* A list is a table in some order.
ListsTable(q, t, names) ==
    /\ q \in Seq([name : names, addresses : Seq(IpAddresses)])
    /\ \A a \in 1 .. Len(q) : q[a].name \in DOMAIN t /\ q[a].addresses = t[q[a].name]
    /\ \A n \in DOMAIN t : \E a \in 1 .. Len(q) : q[a].name = n

LEMMA OrderIs ==
    ASSUME NEW names, NEW t \in Tables(names), IsFiniteSet(DOMAIN t), NEW q \in Orders(t)
    PROVE  ListsTable(q, t, names)
<1> DEFINE D == DOMAIN t
<1>1. D \subseteq names /\ \A n \in D : t[n] \in Seq(IpAddresses)
  <2>1. t \in [D -> Seq(IpAddresses)] /\ D \subseteq names
    BY InTables
  <2> QED BY <2>1
<1>2. PICK s \in SetToSeqs(D) : q = [i \in 1 .. Len(s) |-> [name |-> s[i], addresses |-> t[s[i]]]]
  BY DEF Orders
<1> HIDE DEF D
<1>3. /\ s \in Seq(D) /\ Len(s) \in Nat
      /\ \A x \in D : \E i \in 1 .. Len(s) : s[i] = x
  <2>1. IsFiniteSet(D)
    BY DEF D
  <2> QED BY <2>1, SeqsOf
<1>4. PICK k \in Nat : k = Len(s)
  BY <1>3
<1>5. \A i \in 1 .. k : s[i] \in D
  BY <1>3, <1>4
<1>6. q = [i \in 1 .. k |-> [name |-> s[i], addresses |-> t[s[i]]]]
  BY <1>2, <1>4
<1>7. Len(q) = k /\ \A i \in 1 .. k : q[i] = [name |-> s[i], addresses |-> t[s[i]]]
  BY <1>6
<1>8. q \in Seq([name : names, addresses : Seq(IpAddresses)])
  <2> DEFINE R == [name : names, addresses : Seq(IpAddresses)]
             r(i) == [name |-> s[i], addresses |-> t[s[i]]]
  <2>1. \A i \in 1 .. k : r(i) \in R
    BY <1>1, <1>5
  <2> HIDE DEF R
  <2>2. q = [i \in 1 .. k |-> r(i)]
    BY <1>6
  <2> HIDE DEF r
  <2>3. q \in [1 .. k -> R]
    BY <2>1, <2>2
  <2>4. q \in Seq(R)
    BY <2>3
  <2> QED BY <2>4 DEF R
<1>9. \A a \in 1 .. k : q[a].name = s[a] /\ q[a].addresses = t[s[a]]
  BY <1>7
<1>10. \A a \in 1 .. Len(q) : q[a].name \in DOMAIN t /\ q[a].addresses = t[q[a].name]
  BY <1>5, <1>7, <1>9 DEF D
<1>11. \A n \in DOMAIN t : \E a \in 1 .. Len(q) : q[a].name = n
  <2>1. ASSUME NEW n \in D PROVE \E a \in 1 .. k : q[a].name = n
    BY <1>3, <1>4, <1>9
  <2> QED BY <1>7, <2>1 DEF D
<1> QED BY <1>8, <1>10, <1>11 DEF ListsTable

\* On Windows a table has names of the adapters, or "?"; and if their names can
\* be converted, exactly these names, each with the addresses of its adapter.
LEMMA WindowsTableIs ==
    ASSUME NEW names, NEW m \in Seq(MachineSet(names)),
           \A i, j \in 1 .. Len(m) : m[i].name = m[j].name => i = j,
           NEW t \in WindowsTables(m)
    PROVE  /\ IsFiniteSet(DOMAIN t)
           /\ t \in Tables({m[i].name : i \in 1 .. Len(m)} \cup {"?"})
           /\ (\A i \in 1 .. Len(m) : m[i].name \in Convertible) =>
                 /\ DOMAIN t = {m[i].name : i \in 1 .. Len(m)}
                 /\ \A i \in 1 .. Len(m) : t[m[i].name] = IpsOf(m[i].addresses)
<1>1. PICK k \in Nat : k = Len(m)
  OBVIOUS
<1>2. \A i \in 1 .. k : m[i] \in MachineSet(names)
  BY <1>1
<1> DEFINE Names == {m[i].name : i \in 1 .. k}
           At(s, n) == Max({i \in 1 .. k : s[i] = n})
<1>3. PICK s \in [1 .. k -> Names \cup {"?"}] :
         /\ \A i \in 1 .. k : m[i].name \in Convertible => s[i] = m[i].name
         /\ t = [n \in {s[i] : i \in 1 .. k} |-> IpsOf(m[At(s, n)].addresses)]
  <2>1. PICK s \in [1 .. Len(m) -> ({m[i].name : i \in 1 .. Len(m)} \cap Convertible) \cup {"?"}] :
           /\ \A i \in 1 .. Len(m) : m[i].name \in Convertible => s[i] = m[i].name
           /\ t = [n \in {s[i] : i \in 1 .. Len(m)} |->
                     IpsOf(m[Max({i \in 1 .. Len(m) : s[i] = n})].addresses)]
    BY Zenon DEF WindowsTables
  <2>2. s \in [1 .. k -> Names \cup {"?"}]
    BY <1>1, <2>1
  <2>3. /\ \A i \in 1 .. k : m[i].name \in Convertible => s[i] = m[i].name
        /\ t = [n \in {s[i] : i \in 1 .. k} |-> IpsOf(m[At(s, n)].addresses)]
    BY <1>1, <2>1
  <2> QED BY <2>2, <2>3
<1> DEFINE D == {s[i] : i \in 1 .. k}
<1>4. DOMAIN t = D
  BY <1>3
<1>5. ASSUME NEW n \in D
      PROVE  /\ At(s, n) \in 1 .. k /\ s[At(s, n)] = n
             /\ t[n] = IpsOf(m[At(s, n)].addresses) /\ t[n] \in Seq(IpAddresses)
  <2> DEFINE S == {i \in 1 .. k : s[i] = n}
  <2>1. S \in SUBSET (1 .. k) /\ S # {}
    OBVIOUS
  <2> HIDE DEF S
  <2>2. Max(S) \in S
    BY ONLY k \in Nat, <2>1, MaxIn
  <2>3. At(s, n) \in 1 .. k /\ s[At(s, n)] = n
    BY <2>2 DEF S
  <2>4. t[n] = IpsOf(m[At(s, n)].addresses)
    BY <1>3
  <2> HIDE DEF At
  <2>5. Len(m[At(s, n)].addresses) \in Nat
    BY <1>2, <2>3 DEF MachineSet
  <2>6. IpsOf(m[At(s, n)].addresses) \in Seq(IpAddresses)
    BY <2>5, IpsType
  <2> QED BY <2>3, <2>4, <2>6
<1>6. IsFiniteSet(D)
  <2>1. IsFiniteSet(1 .. k)
    BY FS_Interval
  <2>2. s \in [1 .. k -> D]
    BY <1>3
  <2>3. \A n \in D : \E i \in 1 .. k : s[i] = n
    OBVIOUS
  <2> HIDE DEF D
  <2>4. s \in Surjection(1 .. k, D)
    BY ONLY <2>2, <2>3, Zenon DEF Surjection
  <2> QED BY ONLY <2>1, <2>4, FS_Surjection, Zenon
<1>7. D \subseteq Names \cup {"?"}
  BY <1>3
<1> HIDE DEF At
<1>8. t \in [D -> Seq(IpAddresses)]
  <2>1. t = [n \in D |-> IpsOf(m[At(s, n)].addresses)]
    BY <1>3 DEF At
  <2> HIDE DEF D
  <2>2. \A n \in D : IpsOf(m[At(s, n)].addresses) \in Seq(IpAddresses)
    BY <1>5
  <2> QED BY <2>1, <2>2
<1> HIDE DEF D, Names
<1>9. t \in Tables(Names \cup {"?"})
  BY <1>4, <1>7, <1>8, InTables
<1>10. ASSUME \A i \in 1 .. k : m[i].name \in Convertible
       PROVE  DOMAIN t = Names /\ \A i \in 1 .. k : t[m[i].name] = IpsOf(m[i].addresses)
  <2>1. \A i \in 1 .. k : s[i] = m[i].name
    BY <1>3, <1>10
  <2>2. D = Names
    BY <2>1 DEF D, Names
  <2>3. ASSUME NEW i \in 1 .. k PROVE t[m[i].name] = IpsOf(m[i].addresses)
    <3>1. s[i] \in D /\ s[i] = m[i].name
      BY <2>1 DEF D
    <3>2. At(s, s[i]) \in 1 .. k /\ s[At(s, s[i])] = s[i] /\ t[s[i]] = IpsOf(m[At(s, s[i])].addresses)
      BY <1>5, <3>1
    <3>3. At(s, s[i]) = i
      BY <1>1, <2>1, <3>2
    <3> QED BY <3>1, <3>2, <3>3
  <2> QED BY <1>4, <2>2, <2>3
<1> QED BY <1>1, <1>4, <1>6, <1>9, <1>10 DEF Names

\* The entries have the names of the adapters.
LEMMA EntryNames ==
    ASSUME NEW names, NEW m \in Seq(MachineSet(names))
    PROVE  /\ Entries(m) \in Seq(EntrySet({m[i].name : i \in 1 .. Len(m)}))
           /\ Len(Entries(m)) \in Nat
<1> DEFINE own == {m[i].name : i \in 1 .. Len(m)}
<1>1. m \in Seq(MachineSet(own))
  <2>1. PICK k \in Nat : k = Len(m)
    OBVIOUS
  <2>2. \A i \in 1 .. k : m[i] \in MachineSet(names)
    BY <2>1
  <2>3. \A i \in 1 .. k : m[i] \in MachineSet(own)
    BY <2>1, <2>2 DEF MachineSet
  <2> HIDE DEF own
  <2>4. m \in [1 .. k -> MachineSet(own)]
    BY <2>1, <2>3
  <2> QED BY <2>4
<1> HIDE DEF own
<1>2. PICK k \in Nat : k = Len(m)
  OBVIOUS
<1>3. Entries(m) = EntryRounds(m)[k] /\ \A i \in 0 .. k : EntryRounds(m)[i] \in Seq(EntrySet(own))
  BY <1>1, <1>2, EntryRoundsAre
<1>4. Entries(m) \in Seq(EntrySet(own))
  BY <1>3
<1> QED BY <1>4 DEF own

------------------------------------------------------------------------------
(* Addresses as numbers                                                    *)

\* Sizes of the part of a byte that a mask leaves open.
Sizes == {1, 2, 4, 8, 16, 32, 64, 128, 256}

\* A byte with the open part of its mask filled with ones.
LEMMA OrNotIs ==
    ASSUME NEW b \in 0 .. 255, NEW s \in Sizes
    PROVE  OrNot(b, 256 - s) = (b \div s) * s + s - 1
<1> USE DEF OrNot
<1>1. CASE s = 1
  BY <1>1
<1>2. CASE s = 2
  BY <1>2
<1>3. CASE s = 4
  BY <1>3
<1>4. CASE s = 8
  BY <1>4
<1>5. CASE s = 16
  BY <1>5
<1>6. CASE s = 32
  BY <1>6
<1>7. CASE s = 64
  BY <1>7
<1>8. CASE s = 128
  BY <1>8
<1>9. CASE s = 256
  BY <1>9
<1> QED BY <1>1, <1>2, <1>3, <1>4, <1>5, <1>6, <1>7, <1>8, <1>9 DEF Sizes

\* Quotients and remainders by the weights of bytes.
LEMMA DivIs ==
    ASSUME NEW d \in Nat, d > 0, NEW k \in Nat, NEW r \in 0 .. (d - 1)
    PROVE  (k * d + r) \div d = k
OBVIOUS

LEMMA DivModIs ==
    ASSUME NEW m \in Nat, NEW r \in Nat
    PROVE  /\ r < 256 => (m * 256 + r) \div 256 = m /\ (m * 256 + r) % 256 = r
           /\ r < 65536 => (m * 65536 + r) \div 65536 = m
           /\ r < 16777216 => (m * 16777216 + r) \div 16777216 = m
BY SMT

\* A number is the value of its bytes.
LEMMA DigitsOf ==
    ASSUME NEW x \in [1 .. 4 -> 0 .. 255]
    PROVE  BytesOf(Value(x)) = x
<1>1. PICK a \in 0 .. 255, b \in 0 .. 255, c \in 0 .. 255, d \in 0 .. 255 :
         a = x[1] /\ b = x[2] /\ c = x[3] /\ d = x[4]
  <2>1. x[1] \in 0 .. 255 /\ x[2] \in 0 .. 255 /\ x[3] \in 0 .. 255 /\ x[4] \in 0 .. 255
    OBVIOUS
  <2> QED BY <2>1, Zenon
<1> DEFINE n == ((a * 256 + b) * 256 + c) * 256 + d
<1>2. (n \div 16777216) % 256 = a
  <2>1. PICK r \in Nat : r = (b * 256 + c) * 256 + d
    BY SMT
  <2>2. r < 16777216 /\ n = a * 16777216 + r
    BY <2>1, SMT
  <2> HIDE DEF n
  <2>3. n \div 16777216 = a
    BY <2>2, DivModIs, SMT
  <2> QED BY <2>3, SMT
<1>3. (n \div 65536) % 256 = b
  <2>1. PICK r \in Nat, m \in Nat : r = c * 256 + d /\ m = a * 256 + b
    BY SMT
  <2>2. r < 65536 /\ n = m * 65536 + r
    BY <2>1, SMT
  <2> HIDE DEF n
  <2>3. n \div 65536 = m /\ m % 256 = b
    BY <2>1, <2>2, DivModIs, SMT
  <2> QED BY <2>3, SMT
<1>4. (n \div 256) % 256 = c
  <2>1. PICK k \in Nat, m \in Nat : k = a * 256 + b /\ m = k * 256 + c
    BY SMT
  <2>2. n = m * 256 + d
    BY <2>1, SMT
  <2> HIDE DEF n
  <2>3. n \div 256 = m /\ m % 256 = c
    BY <2>1, <2>2, DivModIs, SMT
  <2> QED BY <2>3, SMT
<1>5. (n \div 1) % 256 = d
  BY SMT
<1>6. n = Value(x)
  BY <1>1, SMT DEF Value
<1> HIDE DEF n
<1> DEFINE y == BytesOf(n)
<1>7. y[1] = a /\ y[2] = b /\ y[3] = c /\ y[4] = d /\ DOMAIN y = 1 .. 4
  BY <1>2, <1>3, <1>4, <1>5 DEF BytesOf
<1>8. y = [i \in 1 .. 4 |-> y[i]]
  BY DEF BytesOf
<1> HIDE DEF y
<1>9. \A i \in 1 .. 4 : y[i] = x[i]
  BY <1>1, <1>7
<1> QED BY <1>6, <1>8, <1>9 DEF y

\* A number of a byte q * s + r, of what is above it, and of what is below it,
\* when the lower part of this byte and what is below it are left open.
IsOpen(v, size, high, q, r, s, t, low, P) ==
    /\ s \in Nat /\ t \in Nat /\ s > 0 /\ s * t = 256
    /\ q \in Nat /\ r \in 0 .. (s - 1)
    /\ high \in Nat /\ P \in Nat /\ low \in 0 .. (P - 1)
    /\ v \in Nat /\ v = (high * 256 + q * s + r) * P + low
    /\ size \in Nat /\ size = s * P

\* The highest number that shares its upper part with another.
LEMMA HighestOf ==
    ASSUME NEW v, NEW size, NEW high, NEW q, NEW r, NEW s, NEW t, NEW low, NEW P,
           IsOpen(v, size, high, q, r, s, t, low, P)
    PROVE  (v \div size) * size + size - 1 = (high * 256 + q * s + s - 1) * P + P - 1
<1>10. /\ s \in Nat /\ t \in Nat /\ s > 0 /\ s * t = 256
       /\ q \in Nat /\ r \in 0 .. (s - 1)
       /\ high \in Nat /\ P \in Nat /\ low \in 0 .. (P - 1)
       /\ v \in Nat /\ v = (high * 256 + q * s + r) * P + low
       /\ size \in Nat /\ size = s * P
  BY DEF IsOpen
<1> USE <1>10
<1> DEFINE K == high * t + q
           R == r * P + low
<1>1. P > 0 /\ size > 0
  BY SMT
<1>2. K \in Nat /\ R \in Nat
  BY SMT
<1>3. R < size
  <2>1. (s - 1 - r) * P >= 0
    BY SMT
  <2>2. (s - 1 - r) * P = size - P - r * P
    BY SMT
  <2> QED BY <2>1, <2>2, SMT
<1>4. high * 256 = (high * t) * s
  <2>1. high * 256 = high * (s * t)
    BY SMT
  <2> QED BY <2>1, SMT
<1>5. K * s = high * 256 + q * s
  BY <1>4, SMT
<1>6. (K * s) * P = K * size
  BY SMT
<1>7. v = K * size + R
  <2>1. v = (K * s + r) * P + low
    BY <1>5, SMT
  <2>2. (K * s + r) * P = (K * s) * P + r * P
    BY SMT
  <2> QED BY <1>6, <2>1, <2>2, SMT
<1>8. v \div size = K
  <2> HIDE DEF K, R
  <2>1. R \in 0 .. (size - 1)
    BY <1>2, <1>3, SMT
  <2> QED BY <1>1, <1>2, <1>7, <2>1, DivIs, SMT
<1>9. (high * 256 + q * s + s - 1) * P = K * size + size - P
  <2>1. (high * 256 + q * s + s - 1) * P = (K * s + s - 1) * P
    BY <1>5, SMT
  <2>2. (K * s + s - 1) * P = (K * s) * P + s * P - P
    BY SMT
  <2> QED BY <1>6, <2>1, <2>2, SMT
<1> HIDE DEF K, R
<1> QED BY <1>2, <1>8, <1>9, SMT

\* A byte is a multiple of the size that its mask leaves open, and a rest.
LEMMA SizeParts ==
    ASSUME NEW s \in Sizes, NEW b \in 0 .. 255
    PROVE  /\ s \in Nat /\ s > 0 /\ s <= 256
           /\ \E t \in Nat : s * t = 256
           /\ \E q \in Nat, r \in 0 .. (s - 1) : b = q * s + r /\ b \div s = q /\ q * s + s - 1 \in 0 .. 255
<1>1. s \in Nat /\ s > 0 /\ s <= 256
  BY SMT DEF Sizes
<1>2. \E t \in Nat : s * t = 256
  <2>1. 1 * 256 = 256 /\ 2 * 128 = 256 /\ 4 * 64 = 256 /\ 8 * 32 = 256 /\ 16 * 16 = 256
    BY SMT
  <2>2. 32 * 8 = 256 /\ 64 * 4 = 256 /\ 128 * 2 = 256 /\ 256 * 1 = 256
    BY SMT
  <2> QED BY <2>1, <2>2, SMT DEF Sizes
<1>3. \E q \in Nat, r \in 0 .. (s - 1) : b = q * s + r /\ b \div s = q /\ q * s + s - 1 \in 0 .. 255
  <2> DEFINE Fits(z) == /\ b \div z \in Nat /\ b - (b \div z) * z \in Nat
                        /\ b - (b \div z) * z < z /\ (b \div z) * z + z - 1 < 256
  <2>1. Fits(1)
    BY SMT
  <2>2. Fits(2)
    BY SMT
  <2>3. Fits(4)
    BY SMT
  <2>4. Fits(8)
    BY SMT
  <2>5. Fits(16)
    BY SMT
  <2>6. Fits(32)
    BY SMT
  <2>7. Fits(64)
    BY SMT
  <2>8. Fits(128)
    BY SMT
  <2>9. Fits(256)
    BY SMT
  <2> HIDE DEF Fits
  <2>10. Fits(s)
    BY <2>1, <2>2, <2>3, <2>4, <2>5, <2>6, <2>7, <2>8, <2>9, SMT DEF Sizes
  <2>11. PICK q \in Nat, r \in Nat : /\ r < s /\ b = q * s + r /\ b \div s = q
                                    /\ q * s + s - 1 < 256
    <3>1. PICK q \in Nat : q = b \div s
      BY <2>10, SMT DEF Fits
    <3>2. b - q * s \in Nat /\ b - q * s < s /\ q * s + s - 1 < 256
      BY <2>10, <3>1, SMT DEF Fits
    <3>3. b = q * s + (b - q * s)
      BY <1>1, SMT
    <3> QED BY <3>1, <3>2, <3>3, SMT
  <2>12. r \in 0 .. (s - 1)
    BY <1>1, <2>11, SMT
  <2>13. q * s \in Nat
    BY <1>1, SMT
  <2>14. q * s + s - 1 \in 0 .. 255
    BY <1>1, <2>11, <2>13, SMT
  <2> QED BY <2>11, <2>12, <2>14
<1> QED BY <1>1, <1>2, <1>3

\* A mask leaves the last part of one byte open, and all the bytes behind it.
LEMMA MaskIs ==
    ASSUME NEW ip \in IpAddresses
    PROVE  \E i \in 1 .. 4, s \in Sizes :
              /\ \A j \in 1 .. 4 : Mask[ip][j] = IF j < i THEN 255 ELSE IF j = i THEN 256 - s ELSE 0
              /\ DOMAIN Mask[ip] = 1 .. 4
<1>1. PICK i \in 1 .. 4, last \in {0, 128, 192, 224, 240, 248, 252, 254, 255} :
         Mask[ip] = [j \in 1 .. 4 |-> IF j < i THEN 255 ELSE IF j = i THEN last ELSE 0]
  <2>1. Mask[ip] \in Masks
    BY AddressAssumption
  <2> QED BY <2>1, SMTT(30) DEF Masks
<1>2. PICK s \in Sizes : last = 256 - s
  <2>1. 256 - last \in Sizes /\ last = 256 - (256 - last)
    BY SMT DEF Sizes
  <2> QED BY <2>1
<1> QED BY <1>1, <1>2

\* byte | ~mask, for a byte that the mask covers, the last one it covers a part
\* of, and one it leaves open.
LEMMA BroadcastBytes ==
    ASSUME NEW b \in 0 .. 255
    PROVE  OrNot(b, 255) = b /\ OrNot(b, 0) = 255
<1>1. 1 \in Sizes /\ 256 \in Sizes /\ 256 - 1 = 255 /\ 256 - 256 = 0
  BY SMT DEF Sizes
<1>2. OrNot(b, 256 - 1) = (b \div 1) * 1 + 1 - 1
  BY <1>1, OrNotIs
<1>3. OrNot(b, 256 - 256) = (b \div 256) * 256 + 256 - 1
  BY <1>1, OrNotIs
<1>4. (b \div 1) * 1 + 1 - 1 = b /\ (b \div 256) * 256 + 256 - 1 = 255
  BY SMT
<1> QED BY <1>1, <1>2, <1>3, <1>4

\* The highest address of a network is that of its directed broadcast.
LEMMA HighestIs ==
    ASSUME NEW ip \in IpAddresses
    PROVE  Highest(ip) = ToDirectedBroadcast(Bytes[ip], Mask[ip])
<1>1. PICK i \in 1 .. 4, s \in Sizes :
         \A j \in 1 .. 4 : Mask[ip][j] = IF j < i THEN 255 ELSE IF j = i THEN 256 - s ELSE 0
  BY MaskIs
<1>2. Bytes[ip] \in [1 .. 4 -> 0 .. 255]
  BY AddressAssumption
<1> DEFINE x == Bytes[ip]
           open == [j \in 1 .. 4 |-> 255 - Mask[ip][j]]
           d == ToDirectedBroadcast(x, Mask[ip])
           size == Value(open) + 1
           v == Value(x)
<1>3. PICK a \in 0 .. 255, b \in 0 .. 255, c \in 0 .. 255, e \in 0 .. 255 :
         x[1] = a /\ x[2] = b /\ x[3] = c /\ x[4] = e
  <2>1. x[1] \in 0 .. 255 /\ x[2] \in 0 .. 255 /\ x[3] \in 0 .. 255 /\ x[4] \in 0 .. 255
    BY <1>2
  <2> QED BY <2>1, Zenon
<1>4. PICK t \in Nat : s \in Nat /\ s > 0 /\ s <= 256 /\ s * t = 256
  BY 0 \in 0 .. 255, SizeParts
<1>5. x[i] \in 0 .. 255
  BY <1>2
<1>6. PICK q \in Nat, r \in 0 .. (s - 1) :
         x[i] = q * s + r /\ x[i] \div s = q /\ q * s + s - 1 \in 0 .. 255
  BY <1>5, SizeParts
<1>7. /\ d = [j \in 1 .. 4 |-> d[j]]
      /\ \A j \in 1 .. 4 : d[j] = OrNot(x[j], Mask[ip][j])
  BY DEF ToDirectedBroadcast
<1>8. \A j \in 1 .. 4 : open[j] = 255 - Mask[ip][j]
  OBVIOUS
<1> HIDE DEF x, open, d
<1>9. /\ \A j \in 1 .. 4 : open[j] = IF j < i THEN 0 ELSE IF j = i THEN s - 1 ELSE 255
  BY <1>1, <1>4, <1>8
<1>10. \A j \in 1 .. 4 : d[j] = IF j < i THEN x[j] ELSE IF j = i THEN q * s + s - 1 ELSE 255
  <2>1. TAKE j \in 1 .. 4
  <2>2. x[j] \in 0 .. 255
    BY <1>2 DEF x
  <2>3. d[j] = OrNot(x[j], Mask[ip][j])
    BY <1>7
  <2>4. CASE j < i
    BY <1>1, <2>2, <2>3, <2>4, BroadcastBytes
  <2>5. CASE j = i
    <3>1. OrNot(x[i], 256 - s) = (x[i] \div s) * s + s - 1
      BY <1>5, OrNotIs
    <3> QED BY <1>1, <1>6, <2>3, <2>5, <3>1
  <2>6. CASE j > i
    BY <1>1, <2>2, <2>3, <2>6, BroadcastBytes
  <2> QED BY <2>4, <2>5, <2>6
<1>11. d \in [1 .. 4 -> 0 .. 255]
  <2>1. \A j \in 1 .. 4 : d[j] \in 0 .. 255
    <3>1. \A j \in 1 .. 4 : x[j] \in 0 .. 255
      BY <1>2 DEF x
    <3> QED BY <1>6, <1>10, <3>1
  <2> QED BY <1>7, <2>1
<1>12. BytesOf(Value(d)) = d
  BY <1>11, DigitsOf
<1>13. (v \div size) * size + size - 1 = Value(d)
  <2>1. CASE i = 1
    <3> DEFINE high == 0
               low == (b * 256 + c) * 256 + e
               P == 16777216
    <3>1. high \in Nat /\ low \in Nat /\ P \in Nat /\ low < P
      BY SMT
    <3>2. v = (high * 256 + a) * P + low
      BY <1>3, SMT DEF Value
    <3>3. size = s * P
      <4>1. /\ open[1] = s - 1 /\ open[2] = 255 /\ open[3] = 255 /\ open[4] = 255
        BY <1>9, <2>1
      <4> QED BY <1>4, <4>1, SMT DEF Value
    <3>4. PICK m \in Nat : m = q * s + s - 1
      BY <1>6
    <3>5. Value(d) = (high * 256 + m) * P + P - 1
      <4>1. /\ d[1] = m /\ d[2] = 255 /\ d[3] = 255 /\ d[4] = 255
        BY <1>3, <1>10, <2>1, <3>4
      <4> QED BY <4>1, SMT DEF Value
    <3> HIDE DEF v, size, high, low, P
    <3>6. a = q * s + r
      BY <1>3, <1>6, <2>1
    <3>7. IsOpen(v, size, high, q, r, s, t, low, P)
      BY <1>4, <3>1, <3>2, <3>3, <3>6, SMT DEF IsOpen
    <3>8. (v \div size) * size + size - 1 = (high * 256 + q * s + s - 1) * P + P - 1
      BY ONLY <3>7, HighestOf
    <3>9. high * 256 + q * s + s - 1 = high * 256 + m
      BY <1>4, <1>6, <3>1, <3>4, SMT
    <3> QED BY <3>5, <3>8, <3>9
  <2>2. CASE i = 2
    <3> DEFINE high == a
               low == c * 256 + e
               P == 65536
    <3>1. high \in Nat /\ low \in Nat /\ P \in Nat /\ low < P
      BY SMT
    <3>2. v = (high * 256 + b) * P + low
      BY <1>3, SMT DEF Value
    <3>3. size = s * P
      <4>1. /\ open[1] = 0 /\ open[2] = s - 1 /\ open[3] = 255 /\ open[4] = 255
        BY <1>9, <2>2
      <4> QED BY <1>4, <4>1, SMT DEF Value
    <3>4. PICK m \in Nat : m = q * s + s - 1
      BY <1>6
    <3>5. Value(d) = (high * 256 + m) * P + P - 1
      <4>1. /\ d[1] = a /\ d[2] = m /\ d[3] = 255 /\ d[4] = 255
        BY <1>3, <1>10, <2>2, <3>4
      <4> QED BY <4>1, SMT DEF Value
    <3> HIDE DEF v, size, high, low, P
    <3>6. b = q * s + r
      BY <1>3, <1>6, <2>2
    <3>7. IsOpen(v, size, high, q, r, s, t, low, P)
      BY <1>4, <3>1, <3>2, <3>3, <3>6, SMT DEF IsOpen
    <3>8. (v \div size) * size + size - 1 = (high * 256 + q * s + s - 1) * P + P - 1
      BY ONLY <3>7, HighestOf
    <3>9. high * 256 + q * s + s - 1 = high * 256 + m
      BY <1>4, <1>6, <3>1, <3>4, SMT
    <3> QED BY <3>5, <3>8, <3>9
  <2>3. CASE i = 3
    <3> DEFINE high == a * 256 + b
               low == e
               P == 256
    <3>1. high \in Nat /\ low \in Nat /\ P \in Nat /\ low < P
      BY SMT
    <3>2. v = (high * 256 + c) * P + low
      BY <1>3, SMT DEF Value
    <3>3. size = s * P
      <4>1. /\ open[1] = 0 /\ open[2] = 0 /\ open[3] = s - 1 /\ open[4] = 255
        BY <1>9, <2>3
      <4> QED BY <1>4, <4>1, SMT DEF Value
    <3>4. PICK m \in Nat : m = q * s + s - 1
      BY <1>6
    <3>5. Value(d) = (high * 256 + m) * P + P - 1
      <4>1. /\ d[1] = a /\ d[2] = b /\ d[3] = m /\ d[4] = 255
        BY <1>3, <1>10, <2>3, <3>4
      <4> QED BY <4>1, SMT DEF Value
    <3> HIDE DEF v, size, high, low, P
    <3>6. c = q * s + r
      BY <1>3, <1>6, <2>3
    <3>7. IsOpen(v, size, high, q, r, s, t, low, P)
      BY <1>4, <3>1, <3>2, <3>3, <3>6, SMT DEF IsOpen
    <3>8. (v \div size) * size + size - 1 = (high * 256 + q * s + s - 1) * P + P - 1
      BY ONLY <3>7, HighestOf
    <3>9. high * 256 + q * s + s - 1 = high * 256 + m
      BY <1>4, <1>6, <3>1, <3>4, SMT
    <3> QED BY <3>5, <3>8, <3>9
  <2>4. CASE i = 4
    <3> DEFINE high == (a * 256 + b) * 256 + c
               low == 0
               P == 1
    <3>1. high \in Nat /\ low \in Nat /\ P \in Nat /\ low < P
      BY SMT
    <3>2. v = (high * 256 + e) * P + low
      BY <1>3, SMT DEF Value
    <3>3. size = s * P
      <4>1. /\ open[1] = 0 /\ open[2] = 0 /\ open[3] = 0 /\ open[4] = s - 1
        BY <1>9, <2>4
      <4> QED BY <1>4, <4>1, SMT DEF Value
    <3>4. PICK m \in Nat : m = q * s + s - 1
      BY <1>6
    <3>5. Value(d) = (high * 256 + m) * P + P - 1
      <4>1. /\ d[1] = a /\ d[2] = b /\ d[3] = c /\ d[4] = m
        BY <1>3, <1>10, <2>4, <3>4
      <4> QED BY <4>1, SMT DEF Value
    <3> HIDE DEF v, size, high, low, P
    <3>6. e = q * s + r
      BY <1>3, <1>6, <2>4
    <3>7. IsOpen(v, size, high, q, r, s, t, low, P)
      BY <1>4, <3>1, <3>2, <3>3, <3>6, SMT DEF IsOpen
    <3>8. (v \div size) * size + size - 1 = (high * 256 + q * s + s - 1) * P + P - 1
      BY ONLY <3>7, HighestOf
    <3>9. high * 256 + q * s + s - 1 = high * 256 + m
      BY <1>4, <1>6, <3>1, <3>4, SMT
    <3> QED BY <3>5, <3>8, <3>9
  <2> QED BY <2>1, <2>2, <2>3, <2>4
<1>14. Highest(ip) = BytesOf((v \div size) * size + size - 1)
  BY DEF Highest, x, open
<1> QED BY <1>12, <1>13, <1>14 DEF d, x

L == INSTANCE UniverseRecordProofs WITH
    AdapterList <- adapters, PortList <- ports, Windows <- windows, Quads <- IpAddresses,
    Minimum <- [p \in {"artnet", "sacn", "dmxusbpro", "opendmxusb"} |-> 1],
    Maximum <- [p \in {"artnet", "sacn", "dmxusbpro", "opendmxusb"} |-> 1],
    InternalMin <- 1, InternalMax <- 1, PriorityMin <- 100, PriorityMax <- 100, UnicastMax <- 1

------------------------------------------------------------------------------
(* The lists of the moment                                                 *)

AdapterSet == [name : STRING \ {"All", "[global]"}, addresses : Seq(IpAddresses)]
PortSet == [description : STRING \ {"[unknown]", "[none]"}, port : STRING \ {""}]

TypedLists == windows \in BOOLEAN /\ adapters \in Seq(AdapterSet) /\ ports \in Seq(PortSet)

\* What UniverseRecordProofs assumes of its lists.
Assumed ==
    /\ adapters \in Seq([name : STRING, addresses : Seq(IpAddresses)])
    /\ ports \in Seq([description : STRING, port : STRING \ {""}])
    /\ ListMax \in Nat \ {0} /\ windows \in BOOLEAN
    /\ "0.0.0.0" \in IpAddresses /\ IpAddresses \subseteq IpAddresses /\ "" \notin IpAddresses
    /\ \A a \in L!Adapters : L!AdapterToSym(a) \notin {L!All, L!Global}
    /\ [p \in {"artnet", "sacn", "dmxusbpro", "opendmxusb"} |-> 1] \in [L!Protocols -> Int]
    /\ [p \in {"artnet", "sacn", "dmxusbpro", "opendmxusb"} |-> 1] \in [L!Protocols -> Int]
    /\ \A p \in L!Protocols :
          [q \in {"artnet", "sacn", "dmxusbpro", "opendmxusb"} |-> 1][p]
            <= [q \in {"artnet", "sacn", "dmxusbpro", "opendmxusb"} |-> 1][p]
    /\ \A p \in L!Protocols :
          1 \in [q \in {"artnet", "sacn", "dmxusbpro", "opendmxusb"} |-> 1][p]
                .. [q \in {"artnet", "sacn", "dmxusbpro", "opendmxusb"} |-> 1][p]
    /\ 1 \in Int /\ 1 \in Int /\ 1 \in 1 .. 1
    /\ 100 \in Int /\ 100 \in Int /\ 100 \in 100 .. 100
    /\ 1 \in Nat

\* The lists of every moment are lists that the look-up is made for.
LEMMA ListsFit ==
    ASSUME TypedLists
    PROVE  Assumed
<1>1. ASSUME NEW S, NEW T, S \subseteq T, NEW s \in Seq(S) PROVE s \in Seq(T)
  <2>1. PICK k \in Nat : k = Len(s) /\ s \in [1 .. k -> S]
    OBVIOUS
  <2>2. s \in [1 .. k -> T]
    BY <1>1, <2>1
  <2> QED BY <2>1, <2>2
<1>2. adapters \in Seq([name : STRING, addresses : Seq(IpAddresses)])
  <2>1. AdapterSet \subseteq [name : STRING, addresses : Seq(IpAddresses)]
    BY DEF AdapterSet
  <2> QED BY ONLY <1>1, <2>1, TypedLists, Zenon DEF TypedLists
<1>3. ports \in Seq([description : STRING, port : STRING \ {""}])
  <2>1. PortSet \subseteq [description : STRING, port : STRING \ {""}]
    BY DEF PortSet
  <2> QED BY ONLY <1>1, <2>1, TypedLists, Zenon DEF TypedLists
<1>4. ASSUME NEW a \in L!Adapters PROVE L!AdapterToSym(a) \notin {L!All, L!Global}
  <2>1. ASSUME NEW S, NEW s \in Seq(S), NEW n \in 1 .. Len(s) PROVE s[n] \in S
    OBVIOUS
  <2>2. adapters[a] \in AdapterSet
    BY ONLY <2>1, TypedLists, a \in L!Adapters, Zenon DEF TypedLists, L!Adapters
  <2>3. adapters[a].name \notin {"All", "[global]"}
    BY <2>2 DEF AdapterSet
  <2>4. L!AdapterToSym(a).head = adapters[a].name
    BY DEF L!AdapterToSym
  <2>5. L!All.head = "All" /\ L!Global.head = "[global]"
    BY DEF L!All, L!Global
  <2> QED BY <2>3, <2>4, <2>5
<1>5. L!Protocols = {"artnet", "sacn", "dmxusbpro", "opendmxusb"}
  BY DEF L!Protocols, L!IpProtocols, L!SerialProtocols
<1>6. [p \in {"artnet", "sacn", "dmxusbpro", "opendmxusb"} |-> 1] \in [L!Protocols -> Int]
  BY <1>5
<1>8. \A p \in L!Protocols :
         /\ [q \in {"artnet", "sacn", "dmxusbpro", "opendmxusb"} |-> 1][p]
               <= [q \in {"artnet", "sacn", "dmxusbpro", "opendmxusb"} |-> 1][p]
         /\ 1 \in [q \in {"artnet", "sacn", "dmxusbpro", "opendmxusb"} |-> 1][p]
                 .. [q \in {"artnet", "sacn", "dmxusbpro", "opendmxusb"} |-> 1][p]
  BY <1>5
<1>9. 1 \in Int /\ 1 \in Nat /\ 1 \in 1 .. 1 /\ 100 \in Int /\ 100 \in 100 .. 100
  BY SMT
<1>10. /\ ListMax \in Nat \ {0}
       /\ "0.0.0.0" \in IpAddresses /\ IpAddresses \subseteq IpAddresses /\ "" \notin IpAddresses
  BY AddressAssumption
<1>11. windows \in BOOLEAN
  BY DEF TypedLists
<1> QED BY ONLY <1>2, <1>3, <1>4, <1>6, <1>8, <1>9, <1>10, <1>11, Zenon DEF Assumed


------------------------------------------------------------------------------
(* What is listed                                                          *)

\* What a sequence and the set of its members hold.
LEMMA SeqMember ==
    ASSUME NEW S, NEW s \in Seq(S), NEW i \in 1 .. Len(s)
    PROVE  s[i] \in S
OBVIOUS

LEMMA MembersAre ==
    ASSUME NEW S, NEW s \in Seq(S), NEW e \in ToSet(s)
    PROVE  \E i \in 1 .. Len(s) : e = s[i]
BY DEF ToSet

\* A list of the adapters of a machine: each of those with an IPv4 address,
\* with its addresses in their order.
Lists(q, m) ==
    /\ \A a \in 1 .. Len(q) : q[a].addresses = AddressesOf(m, q[a].name)
    /\ \A e \in ToSet(Entries(m)) : e.address \in IpAddresses =>
          \E a \in 1 .. Len(q) : q[a].name = e.name

Unreserved == STRING \ {"All", "[global]"}

\* What is assumed of an adapter, for one machine.
LEMMA MachineIs ==
    ASSUME NEW build \in BOOLEAN, NEW m \in Machines[build]
    PROVE  /\ m \in Seq(MachineSet(Unreserved))
           /\ build => \A i, j \in 1 .. Len(m) : m[i].name = m[j].name => i = j
           /\ build => \A i \in 1 .. Len(m) : m[i].name \in WindowsNames
<1>1. m \in Seq([name : Unreserved, addresses : Seq(STRING)])
  BY MachineAssumption DEF Unreserved
<1>2. build => \A i, j \in 1 .. Len(m) : m[i].name = m[j].name => i = j
  BY MachineAssumption
<1>3. ASSUME build, NEW i \in 1 .. Len(m) PROVE m[i].name \in WindowsNames
  <2>1. m \in Machines[TRUE]
    BY <1>3
  <2> DEFINE own == {m[j].name : j \in 1 .. Len(m)}
  <2>2. m[i].name \in own
    OBVIOUS
  <2>3. own \in {{n[j].name : j \in 1 .. Len(n)} : n \in Machines[TRUE]}
    BY <2>1
  <2> HIDE DEF own
  <2> QED BY <2>2, <2>3 DEF WindowsNames
<1> QED BY <1>1, <1>2, <1>3 DEF MachineSet

\* A table without names is walked to no list.
LEMMA NothingListed ==
    ASSUME NEW q \in Orders(NoTable)
    PROVE  q = <<>>
<1>1. NoTable \in Tables({}) /\ DOMAIN NoTable = {} /\ IsFiniteSet({})
  BY NoTableIs, FS_EmptySet
<1>2. ListsTable(q, NoTable, {})
  BY <1>1, OrderIs
<1>3. q \in Seq([name : {}, addresses : Seq(IpAddresses)]) /\ \A a \in 1 .. Len(q) : q[a].name \in {}
  BY <1>1, <1>2 DEF ListsTable
<1>4. PICK k \in Nat : k = Len(q)
  BY <1>3
<1>5. k = 0
  BY <1>3, <1>4
<1> QED BY <1>3, <1>4, <1>5

LEMMA AdaptersTyped ==
    ASSUME NEW q, q \in Seq([name : Unreserved, addresses : Seq(IpAddresses)])
    PROVE  q \in Seq(AdapterSet)
BY DEF AdapterSet, Unreserved

\* The list that the macOS build makes is that of its machine, ...
LEMMA MacLists ==
    ASSUME NEW m \in Machines[FALSE], NEW q \in Orders(TableOf(Entries(m)))
    PROVE  q \in Seq(AdapterSet) /\ Lists(q, m)
<1> DEFINE es == Entries(m)
           t == TableOf(es)
<1>1. m \in Seq(MachineSet(Unreserved))
  BY MachineIs
<1>2. es \in Seq(EntrySet(Unreserved)) /\ Len(es) \in Nat
  <2>1. PICK k \in Nat : k = Len(m)
    BY <1>1
  <2>2. es = EntryRounds(m)[k] /\ \A i \in 0 .. k : EntryRounds(m)[i] \in Seq(EntrySet(Unreserved))
    BY <1>1, <2>1, EntryRoundsAre
  <2>3. es \in Seq(EntrySet(Unreserved))
    BY <2>2
  <2> HIDE DEF es
  <2> QED BY <2>3
<1> HIDE DEF es
<1>3. /\ t \in Tables(Unreserved) /\ IsFiniteSet(DOMAIN t)
      /\ \A n \in DOMAIN t : t[n] = IpsOf(Blanked(es, n))
      /\ \A i \in 1 .. Len(es) : es[i].address \in IpAddresses => es[i].name \in DOMAIN t
  BY <1>2, TableIs
<1>4. q \in Orders(t)
  BY DEF es
<1> HIDE DEF t
<1>5. ListsTable(q, t, Unreserved)
  BY <1>3, <1>4, OrderIs
<1>6. ASSUME NEW a \in 1 .. Len(q) PROVE q[a].addresses = AddressesOf(m, q[a].name)
  <2>1. q[a].name \in DOMAIN t /\ q[a].addresses = t[q[a].name]
    BY <1>5 DEF ListsTable
  <2>2. t[q[a].name] = IpsOf(Blanked(es, q[a].name))
    BY <1>3, <2>1
  <2> QED BY <2>1, <2>2 DEF AddressesOf, Blanked, es
<1>7. ASSUME NEW e \in ToSet(es), e.address \in IpAddresses
      PROVE  \E a \in 1 .. Len(q) : q[a].name = e.name
  <2>1. PICK i \in 1 .. Len(es) : e = es[i]
    BY <1>2, MembersAre
  <2>2. e.name \in DOMAIN t
    BY <1>3, <1>7, <2>1
  <2> QED BY <1>5, <2>2 DEF ListsTable
<1>8. q \in Seq(AdapterSet)
  BY <1>5, AdaptersTyped DEF ListsTable
<1> QED BY <1>6, <1>7, <1>8 DEF Lists, es

\* ... and so is that of the Windows build, if it can convert the names.
LEMMA WindowsLists ==
    ASSUME NEW m \in Machines[TRUE], NEW t \in WindowsTables(m), NEW q \in Orders(t)
    PROVE  /\ q \in Seq(AdapterSet)
           /\ \A a \in 1 .. Len(q) : q[a].name \in WindowsNames
           /\ (\A i \in 1 .. Len(m) : m[i].name \in Convertible) => Lists(q, m)
<1> DEFINE Names == {m[i].name : i \in 1 .. Len(m)}
<1>1. /\ m \in Seq(MachineSet(Unreserved))
      /\ \A i, j \in 1 .. Len(m) : m[i].name = m[j].name => i = j
      /\ \A i \in 1 .. Len(m) : m[i].name \in WindowsNames
  <2>1. TRUE \in BOOLEAN
    OBVIOUS
  <2> QED BY <2>1, MachineIs
<1>2. /\ IsFiniteSet(DOMAIN t)
      /\ t \in Tables(Names \cup {"?"})
      /\ (\A i \in 1 .. Len(m) : m[i].name \in Convertible) =>
            /\ DOMAIN t = Names
            /\ \A i \in 1 .. Len(m) : t[m[i].name] = IpsOf(m[i].addresses)
  BY <1>1, WindowsTableIs
<1>3. Names \cup {"?"} \subseteq Unreserved /\ Names \cup {"?"} \subseteq WindowsNames
  <2>1. \A i \in 1 .. Len(m) : m[i] \in MachineSet(Unreserved)
    BY <1>1, SeqMember
  <2>2. \A i \in 1 .. Len(m) : m[i].name \in Unreserved
    BY <2>1 DEF MachineSet
  <2>3. "?" \in Unreserved
    BY TextAssumption DEF Unreserved
  <2>4. "?" \in WindowsNames
    BY DEF WindowsNames
  <2> QED BY <1>1, <2>2, <2>3, <2>4
<1>4. ListsTable(q, t, Names \cup {"?"})
  BY <1>2, OrderIs
<1>5. DOMAIN t \subseteq Names \cup {"?"}
  BY <1>2, InTables
<1>6. \A a \in 1 .. Len(q) : q[a].name \in WindowsNames
  BY <1>3, <1>4, <1>5 DEF ListsTable
<1>7. q \in Seq(AdapterSet)
  <2>1. t \in Tables(Unreserved)
    BY <1>2, <1>3, InTables
  <2>2. ListsTable(q, t, Unreserved)
    BY <1>2, <2>1, OrderIs
  <2> QED BY <2>2, AdaptersTyped DEF ListsTable
<1>8. ASSUME \A i \in 1 .. Len(m) : m[i].name \in Convertible PROVE Lists(q, m)
  <2>1. DOMAIN t = Names /\ \A i \in 1 .. Len(m) : t[m[i].name] = IpsOf(m[i].addresses)
    BY <1>2, <1>8
  <2>2. ASSUME NEW a \in 1 .. Len(q) PROVE q[a].addresses = AddressesOf(m, q[a].name)
    <3>1. q[a].name \in Names /\ q[a].addresses = t[q[a].name]
      BY <1>4, <2>1 DEF ListsTable
    <3>2. PICK i \in 1 .. Len(m) : q[a].name = m[i].name
      BY <3>1
    <3>3. AddressesOf(m, m[i].name) = IpsOf(m[i].addresses)
      BY <1>1, AddressesOfOne
    <3> QED BY <2>1, <3>1, <3>2, <3>3
  <2>3. ASSUME NEW e \in ToSet(Entries(m)) PROVE \E a \in 1 .. Len(q) : q[a].name = e.name
    <3>1. Entries(m) \in Seq(EntrySet(Names))
      BY <1>1, EntryNames
    <3>2. e \in EntrySet(Names)
      BY <3>1, MembersAre, SeqMember
    <3>3. e.name \in DOMAIN t
      BY <2>1, <3>2 DEF EntrySet
    <3> QED BY <1>4, <3>3 DEF ListsTable
  <2> QED BY <2>2, <2>3 DEF Lists
<1> QED BY <1>6, <1>7, <1>8

\* No two ports are alike, none of them is found on Windows by an adapter's
\* symbol, and every device that can be opened by its name is one of them.
LEMMA PortsAre ==
    ASSUME windows \in BOOLEAN, NEW ds \in DeviceLists[windows], NEW ps \in SetToSeqs(PortsOf(ds))
    PROVE  /\ ps \in Seq(PortSet)
           /\ \A p, q \in 1 .. Len(ps) : ps[p].port = ps[q].port => p = q
           /\ windows => \A p \in 1 .. Len(ps) :
                 ps[p].port \notin IpAddresses /\ ps[p].description \notin WindowsNames
           /\ \A d \in ToSet(ds) : d.path # "" /\ d.readable /\ ~d.parallel =>
                 \E p \in 1 .. Len(ps) : ps[p].port = d.path
<1> DEFINE D == [path : STRING, description : STRING \ {"[unknown]", "[none]"},
                 readable : BOOLEAN, parallel : BOOLEAN]
           Is == {j \in 1 .. Len(ds) : IsPort(ds[j])}
           P == PortsOf(ds)
<1>1. /\ ds \in Seq(D)
      /\ \A i, j \in 1 .. Len(ds) : ds[i].path = ds[j].path /\ ds[i].path # "" => i = j
      /\ windows => \A i \in 1 .. Len(ds) :
            /\ ds[i].readable => ds[i].path # ""
            /\ ds[i].path \notin IpAddresses /\ ds[i].description \notin WindowsNames
  BY DeviceAssumption
<1> HIDE DEF D
<1>2. \A i \in 1 .. Len(ds) : ds[i] \in D
  BY <1>1, SeqMember
<1>3. Len(ds) \in Nat
  <2>1. ds \in Seq(D)
    BY <1>1
  <2> QED BY ONLY <2>1
<1>4. \A x \in P : \E i \in Is : x = PortOf(ds[i])
  BY DEF PortsOf
<1>5. \A i \in Is : PortOf(ds[i]) \in P
  BY DEF PortsOf
<1>6. ASSUME NEW i \in Is
      PROVE  /\ i \in 1 .. Len(ds)
             /\ ds[i].path # "" /\ ds[i].path \in STRING
             /\ PortOf(ds[i]).port = ds[i].path
             /\ PortOf(ds[i]) \in PortSet
             /\ windows => PortOf(ds[i]).description = ds[i].description
  <2>1. i \in 1 .. Len(ds) /\ IsPort(ds[i]) /\ ds[i] \in D
    BY <1>2
  <2>2. ds[i].path \in STRING /\ ds[i].description \in STRING \ {"[unknown]", "[none]"}
    BY <2>1 DEF D
  <2>3. ds[i].path # ""
    BY <1>1, <2>1 DEF IsPort
  <2>4. /\ PortOf(ds[i]).port = ds[i].path
        /\ PortOf(ds[i]).description = IF ds[i].description = "" /\ ~windows THEN "n/a" ELSE ds[i].description
        /\ PortOf(ds[i]) = [port |-> PortOf(ds[i]).port, description |-> PortOf(ds[i]).description]
    BY DEF PortOf
  <2>5. PortOf(ds[i]) \in PortSet
    <3> DEFINE z == IF ds[i].description = "" /\ ~windows THEN "n/a" ELSE ds[i].description
    <3>1. PortOf(ds[i]) = [port |-> ds[i].path, description |-> z]
      BY DEF PortOf
    <3>2. z \in STRING \ {"[unknown]", "[none]"}
      BY <2>2, TextAssumption
    <3> HIDE DEF z
    <3>3. \A x \in STRING \ {""}, y \in STRING \ {"[unknown]", "[none]"} :
             [port |-> x, description |-> y] \in PortSet
      BY DEF PortSet
    <3> QED BY <2>2, <2>3, <3>1, <3>2, <3>3
  <2> QED BY <2>1, <2>2, <2>3, <2>4, <2>5
<1>7. IsFiniteSet(P)
  <2>1. IsFiniteSet(Is)
    <3>1. IsFiniteSet(1 .. Len(ds))
      BY <1>3, FS_Interval
    <3>2. Is \in SUBSET (1 .. Len(ds))
      OBVIOUS
    <3> QED BY ONLY <3>1, <3>2, FS_Subset, Zenon
  <2> DEFINE f == [i \in Is |-> PortOf(ds[i])]
  <2> HIDE DEF P, Is
  <2>2. f \in [Is -> P]
    BY <1>5
  <2>3. \A x \in P : \E i \in Is : f[i] = x
    BY <1>4
  <2> HIDE DEF f
  <2>4. f \in Surjection(Is, P)
    BY ONLY <2>2, <2>3, Zenon DEF Surjection
  <2> QED BY ONLY <2>1, <2>4, FS_Surjection, Zenon
<1> HIDE DEF P, Is
<1>8. /\ ps \in Seq(P) /\ Len(ps) \in Nat
      /\ \A i, j \in 1 .. Len(ps) : ps[i] = ps[j] => i = j
      /\ \A x \in P : \E i \in 1 .. Len(ps) : ps[i] = x
  BY <1>7, SeqsOf DEF P
<1>9. \A p \in 1 .. Len(ps) : \E i \in Is : ps[p] = PortOf(ds[i])
  BY <1>4, <1>8, SeqMember
<1>10. ps \in Seq(PortSet)
  <2>1. PICK k \in Nat : k = Len(ps) /\ ps \in [1 .. k -> P]
    BY <1>8
  <2>2. P \subseteq PortSet
    BY <1>4, <1>6
  <2>3. ps \in [1 .. k -> PortSet]
    BY <2>1, <2>2
  <2> QED BY <2>1, <2>3
<1>11. ASSUME NEW p \in 1 .. Len(ps), NEW q \in 1 .. Len(ps), ps[p].port = ps[q].port PROVE p = q
  <2>1. PICK i \in Is : ps[p] = PortOf(ds[i])
    BY <1>9
  <2>2. PICK j \in Is : ps[q] = PortOf(ds[j])
    BY <1>9
  <2>3. ds[i].path = ds[j].path
    BY <1>6, <1>11, <2>1, <2>2
  <2>4. i = j
    BY <1>1, <1>6, <2>3
  <2> QED BY <1>8, <2>1, <2>2, <2>4
<1>12. ASSUME windows, NEW p \in 1 .. Len(ps)
       PROVE  ps[p].port \notin IpAddresses /\ ps[p].description \notin WindowsNames
  <2>1. PICK i \in Is : ps[p] = PortOf(ds[i])
    BY <1>9
  <2>2. i \in 1 .. Len(ds) /\ ps[p].port = ds[i].path /\ ps[p].description = ds[i].description
    BY <1>6, <1>12, <2>1
  <2> QED BY <1>1, <1>12, <2>2
<1>13. ASSUME NEW d \in ToSet(ds), d.path # "", d.readable, ~d.parallel
       PROVE  \E p \in 1 .. Len(ps) : ps[p].port = d.path
  <2>1. PICK i \in 1 .. Len(ds) : d = ds[i]
    BY <1>1, MembersAre
  <2>2. i \in Is
    BY <1>13, <2>1 DEF IsPort, Is
  <2>3. PICK p \in 1 .. Len(ps) : ps[p] = PortOf(ds[i])
    BY <1>5, <1>8, <2>2
  <2> QED BY <1>6, <2>1, <2>2, <2>3
<1> QED BY <1>10, <1>11, <1>12, <1>13

------------------------------------------------------------------------------
(* The universe: the operators of both instances are the same              *)

LEMMA SameNames ==
    /\ U!All = L!All /\ U!Global = L!Global /\ U!None = L!None /\ U!Null = L!Null
    /\ U!Adapters = L!Adapters /\ U!Ports = L!Ports
    /\ U!IpProtocols = L!IpProtocols /\ U!SerialProtocols = L!SerialProtocols
    /\ U!Default = L!Default
    /\ U!AdapterMenu = L!AdapterMenu /\ U!PortMenu = L!PortMenu
BY DEF U!All, L!All, U!Global, L!Global, U!None, L!None, U!Null, L!Null, U!Adapters, L!Adapters,
       U!Ports, L!Ports, U!IpProtocols, L!IpProtocols, U!SerialProtocols, L!SerialProtocols,
       U!Default, L!Default, U!AdapterMenu, L!AdapterMenu, U!PortMenu, L!PortMenu,
       U!AdapterToSym, L!AdapterToSym, U!PortToSym, L!PortToSym

\* Both instances look an interface up alike.
LEMMA SameLookUp ==
    ASSUME NEW c, NEW g
    PROVE  U!FindInterface(c, g) = L!FindInterface(c, g)
BY DEF U!FindInterface, L!FindInterface, U!FindIpInterface, L!FindIpInterface,
       U!FindSerialInterface, L!FindSerialInterface, U!FollowGlobal, L!FollowGlobal,
       U!AdapterFind, L!AdapterFind, U!PortFind, L!PortFind, U!HasAddress, L!HasAddress,
       U!AdapterToSym, L!AdapterToSym, U!PortToSym, L!PortToSym,
       U!ParsesAsAdapter, L!ParsesAsAdapter, U!ParsesAsPort, L!ParsesAsPort,
       U!Least, L!Least, U!Greatest, L!Greatest,
       U!All, L!All, U!Global, L!Global, U!None, L!None, U!Null, L!Null,
       U!Adapters, L!Adapters, U!Ports, L!Ports,
       U!IpProtocols, L!IpProtocols, U!SerialProtocols, L!SerialProtocols

LEMMA SameMode ==
    ASSUME NEW c, NEW mode
    PROVE  U!SetMode(c, mode) = L!SetMode(c, mode)
BY DEF U!SetMode, L!SetMode, U!SettledMode, L!SettledMode, U!ClampUniverse, L!ClampUniverse, U!Clamp, L!Clamp

LEMMA SameUnicast ==
    ASSUME NEW c, NEW list
    PROVE  U!SetUnicast(c, list) = L!SetUnicast(c, list)
BY DEF U!SetUnicast, L!SetUnicast, U!ParsedAddresses, L!ParsedAddresses

LEMMA SameInterface ==
    ASSUME NEW c, NEW sym, NEW g
    PROVE  U!SetInterface(c, sym, g) = L!SetInterface(c, sym, g)
BY SameLookUp, Zenon DEF U!SetInterface, L!SetInterface

LEMMA SameProtocol ==
    ASSUME NEW c, NEW p, NEW g
    PROVE  U!SetProtocol(c, p, g) = L!SetProtocol(c, p, g)
BY SameLookUp, SameMode, Zenon DEF U!SetProtocol, L!SetProtocol

LEMMA SameNumbers ==
    ASSUME NEW c, NEW n
    PROVE  /\ U!SetInternal(c, n) = L!SetInternal(c, n)
           /\ U!SetUniverse(c, n) = L!SetUniverse(c, n)
           /\ U!SetPriority(c, n) = L!SetPriority(c, n)
           /\ U!SetType(c, n) = L!SetType(c, n)
BY DEF U!SetInternal, L!SetInternal, U!SetUniverse, L!SetUniverse, U!SetPriority, L!SetPriority,
       U!ClampUniverse, L!ClampUniverse, U!Clamp, L!Clamp, U!IpProtocols, L!IpProtocols,
       U!SetType, L!SetType, U!SetMode, L!SetMode, U!SettledMode, L!SettledMode

LEMMA SameLoad ==
    ASSUME NEW c, NEW g
    PROVE  U!FromDictionary(U!ToDictionary(c), g) = L!FromDictionary(L!ToDictionary(c), g)
<1>1. U!ToDictionary(c) = L!ToDictionary(c)
  BY DEF U!ToDictionary, L!ToDictionary
<1>2. ASSUME NEW d PROVE U!FromDictionary(d, g) = L!FromDictionary(d, g)
  <2> DEFINE type == L!SetType(L!Default, d.type)
             protocol == L!SetProtocol(type, d.protocol, g)
             mode == L!SetMode(protocol, d.mode)
             interface == L!SetInterface(mode, d.interface, g)
             internal == L!SetInternal(interface, d.internal)
             universe == L!SetUniverse(internal, d.universe)
             priority == L!SetPriority(universe, d.priority)
  <2>1. U!SetType(U!Default, d.type) = type
    BY SameNames, SameNumbers, Zenon
  <2>2. U!SetProtocol(type, d.protocol, g) = protocol
    BY ONLY SameProtocol, Zenon
  <2>3. U!SetMode(protocol, d.mode) = mode
    BY ONLY SameMode, Zenon
  <2>4. U!SetInterface(mode, d.interface, g) = interface
    BY ONLY SameInterface, Zenon
  <2>5. U!SetInternal(interface, d.internal) = internal
    BY ONLY SameNumbers, Zenon
  <2>6. U!SetUniverse(internal, d.universe) = universe
    BY ONLY SameNumbers, Zenon
  <2>7. U!SetPriority(universe, d.priority) = priority
    BY ONLY SameNumbers, Zenon
  <2>8. U!SetUnicast(priority, d.unicast) = L!SetUnicast(priority, d.unicast)
    BY ONLY SameUnicast, Zenon
  <2>9. L!FromDictionary(d, g) = L!SetUnicast(priority, d.unicast)
    BY DEF L!FromDictionary
  <2> HIDE DEF type, protocol, mode, interface, internal, universe, priority
  <2> QED BY <2>1, <2>2, <2>3, <2>4, <2>5, <2>6, <2>7, <2>8, <2>9 DEF U!FromDictionary
<1> QED BY <1>1, <1>2

LEMMA SameChoices ==
    ASSUME NEW c, NEW g
    PROVE  U!Honoured(c, g) = L!Honoured(c, g)
BY DEF L!Honoured, U!Honoured, L!IpProtocols, U!IpProtocols, L!Adapters, U!Adapters, L!Ports, U!Ports,
       L!Alone, U!Alone, L!AdapterIsHonoured, U!AdapterIsHonoured, L!Distinct, U!Distinct,
       L!PortIsHonoured, U!PortIsHonoured, L!SetInterface, U!SetInterface,
       L!AdapterToSym, U!AdapterToSym, L!PortToSym, U!PortToSym, L!Global, U!Global, L!Null, U!Null,
       L!HasAddress, U!HasAddress, L!FindInterface, U!FindInterface,
       L!FindIpInterface, U!FindIpInterface, L!FindSerialInterface, U!FindSerialInterface,
       L!AdapterFind, U!AdapterFind, L!PortFind, U!PortFind, L!All, U!All, L!None, U!None,
       L!FollowGlobal, U!FollowGlobal, L!ParsesAsAdapter, U!ParsesAsAdapter,
       L!ParsesAsPort, U!ParsesAsPort, L!Least, U!Least, L!Greatest, U!Greatest

LEMMA SameStranger ==
    ASSUME NEW saved, NEW c
    PROVE  U!NoStranger(saved, c) = L!NoStranger(saved, c)
BY DEF U!NoStranger, L!NoStranger, U!SerialProtocols, L!SerialProtocols, U!Null, L!Null, U!Ports, L!Ports,
       U!SharesPort, L!SharesPort, U!All, L!All, U!Global, L!Global, U!None, L!None,
       U!Adapters, L!Adapters, U!SharesAdapter, L!SharesAdapter, U!HasAddress, L!HasAddress

------------------------------------------------------------------------------
(* The inductive invariant                                                 *)

\* The lists hold what can be listed.
TypesInv ==
    /\ windows \in BOOLEAN
    /\ machine \in Machines[windows] /\ devices \in DeviceLists[windows]
    /\ phase \in {"off", "adapters", "ports", "load", "up"}
    /\ length \in Nat /\ changes \in 0 .. 2
    /\ adapters \in Seq(AdapterSet) /\ ports \in Seq(PortSet)
    /\ listed = [machine |-> listed.machine, devices |-> listed.devices]

\* A buffer that was too short once is only too short again if the adapters
\* changed in between.
TriesInv ==
    phase = "adapters" =>
        /\ tries \in 0 .. 2
        /\ tries >= 1 => changes >= tries - 1 /\ (Needed(machine) # length => changes >= tries)

\* An adapter that is in the list has the addresses it had when it was listed,
\* in their order, and is in the list if it had any.
AdaptersInv ==
    /\ phase \in {"off", "adapters"} => adapters = <<>>
    /\ windows => \A a \in 1 .. Len(adapters) : adapters[a].name \in WindowsNames
    /\ phase \in {"ports", "load", "up"} /\ NamesConvert =>
          /\ \A a \in 1 .. Len(adapters) :
                adapters[a].addresses = AddressesOf(listed.machine, adapters[a].name)
          /\ ~failed /\ changes < 2 =>
                \A e \in ToSet(Entries(listed.machine)) : e.address \in IpAddresses =>
                    \E a \in 1 .. Len(adapters) : adapters[a].name = e.name

\* No two ports are alike, on Windows none has the name of an adapter, and a
\* device that can be opened is among them.
PortsInv ==
    /\ phase \in {"off", "adapters", "ports"} => ports = <<>>
    /\ \A p, q \in 1 .. Len(ports) : ports[p].port = ports[q].port => p = q
    /\ windows => \A p \in 1 .. Len(ports) :
          ports[p].port \notin IpAddresses /\ ports[p].description \notin WindowsNames
    /\ Started /\ ~failed =>
          \A d \in ToSet(listed.devices) : d.path # "" /\ d.readable /\ ~d.parallel =>
              \E p \in 1 .. Len(ports) : ports[p].port = d.path

\* The universe is one that can be loaded, and while the program is up it has
\* the adapter it names.
ConfigInv == L!Saved(WindowsNames, config) /\ (phase = "up" => L!Placed(config))

IInv == TypesInv /\ TriesInv /\ AdaptersInv /\ PortsInv /\ ConfigInv

\* What the lemmas about a universe take.
LEMMA Fitting ==
    ASSUME IInv
    PROVE  TypedLists /\ L!PortsApart /\ L!NamesFit(WindowsNames)
<1>1. TypedLists
  BY DEF IInv, TypesInv, TypedLists
<1>2. L!PortsApart
  <2>1. \A p \in 1 .. Len(ports) : ports[p] \in PortSet
    BY SeqMember DEF IInv, TypesInv
  <2>2. \A p \in 1 .. Len(ports) : ports[p].description \notin {"[unknown]", "[none]"}
    BY <2>1 DEF PortSet
  <2>3. \A p, q \in 1 .. Len(ports) : ports[p].port = ports[q].port => p = q
    BY DEF IInv, PortsInv
  <2> QED BY <2>2, <2>3 DEF L!PortsApart, L!Ports
<1>3. "All" \in WindowsNames
  BY DEF WindowsNames
<1>4. L!NamesFit(WindowsNames)
  BY <1>3 DEF L!NamesFit, L!Adapters, L!Ports, IInv, AdaptersInv, PortsInv
<1> QED BY <1>1, <1>2, <1>4

\* What is true of a record is true of the universe that becomes it.
LEMMA SavedIs ==
    ASSUME NEW c, L!Saved(WindowsNames, c), UNCHANGED windows, config' = c
    PROVE  L!Saved(WindowsNames, config)'
BY DEF L!Saved, L!Readable, L!Shaped, L!Fields, L!Null, L!Types, L!Protocols, L!IpProtocols, L!SerialProtocols

LEMMA PlacedIs ==
    ASSUME NEW c, L!Placed(c), UNCHANGED adapters, config' = c
    PROVE  L!Placed(config)'
BY DEF L!Placed, L!IpProtocols, L!All, L!Global, L!Adapters

\* What a step that leaves the universe alone leaves true of it.
LEMMA ConfigStays ==
    ASSUME ConfigInv, UNCHANGED <<windows, config>>,
           phase' = "up" => phase = "up" /\ UNCHANGED adapters
    PROVE  ConfigInv'
<1>1. L!Saved(WindowsNames, config)'
  BY SavedIs DEF ConfigInv
<1>2. (phase = "up")' => L!Placed(config)'
  BY PlacedIs DEF ConfigInv
<1> QED BY <1>1, <1>2 DEF ConfigInv

\* What GetAdaptersAddresses says it needs is a number.
LEMMA NeededIs ==
    ASSUME NEW build \in BOOLEAN, NEW m \in Machines[build]
    PROVE  Needed(m) \in Nat
<1>1. m \in Seq(MachineSet(Unreserved))
  BY MachineIs
<1>2. Len(Entries(m)) \in Nat
  BY <1>1, EntryNames
<1>3. Len(m) \in Nat
  BY ONLY <1>1
<1> QED BY <1>2, <1>3 DEF Needed

\* At the start of a program that never ran.
LEMMA Initially == Init => IInv
<1> SUFFICES ASSUME Init PROVE IInv
  OBVIOUS
<1>1. adapters = <<>> /\ ports = <<>> /\ phase = "off" /\ windows \in BOOLEAN /\ config = L!Default
  BY SameNames DEF Init
<1>2. \A S : <<>> \in Seq(S) /\ 1 .. Len(<<>>) = {}
  OBVIOUS
<1>3. TypesInv
  BY <1>1, <1>2 DEF Init, TypesInv
<1>4. TriesInv
  BY <1>1 DEF TriesInv
<1>5. AdaptersInv
  BY <1>1, <1>2 DEF AdaptersInv
<1>6. PortsInv
  BY <1>1, <1>2 DEF PortsInv, Started
<1>7. L!Saved(WindowsNames, L!Default)
  BY DEF L!Saved, L!Default, L!Shaped, L!Fields, L!Types, L!Protocols, L!IpProtocols, L!SerialProtocols,
         L!Readable, L!Global, L!Null
<1>8. ConfigInv
  BY <1>1, <1>7 DEF ConfigInv
<1> QED BY <1>3, <1>4, <1>5, <1>6, <1>8 DEF IInv

------------------------------------------------------------------------------
(* The steps                                                               *)

\* The machine changes: only the count of the changes matters.
LEMMA MachineStep ==
    ASSUME IInv, MachineChanges
    PROVE  IInv'
<1> USE DEF MachineChanges
<1>1. TypesInv'
  BY DEF IInv, TypesInv
<1>2. TriesInv'
  BY DEF IInv, TypesInv, TriesInv
<1>3. AdaptersInv'
  <2>1. changes' < 2 => changes < 2
    BY DEF IInv, TypesInv
  <2> QED BY <2>1 DEF IInv, AdaptersInv, NamesConvert
<1>4. PortsInv'
  BY DEF IInv, PortsInv, Started
<1>5. ConfigInv'
  BY ConfigStays DEF IInv
<1> QED BY <1>1, <1>2, <1>3, <1>4, <1>5 DEF IInv

LEMMA DevicesStep ==
    ASSUME IInv, DevicesChange
    PROVE  IInv'
<1> USE DEF DevicesChange
<1>1. TypesInv'
  BY DEF IInv, TypesInv
<1>2. TriesInv'
  BY DEF IInv, TriesInv
<1>3. AdaptersInv'
  BY DEF IInv, AdaptersInv, NamesConvert
<1>4. PortsInv'
  BY DEF IInv, PortsInv, Started
<1>5. ConfigInv'
  BY ConfigStays DEF IInv
<1> QED BY <1>1, <1>2, <1>3, <1>4, <1>5 DEF IInv

\* A start begins with empty lists and the first try.
LEMMA StartStep ==
    ASSUME IInv, Start
    PROVE  IInv'
<1> USE DEF Start
<1>1. TypesInv'
  <2>1. InitialLength \in Nat
    BY AddressAssumption
  <2> QED BY <2>1 DEF IInv, TypesInv
<1>2. TriesInv'
  BY DEF TriesInv
<1>3. AdaptersInv'
  BY DEF IInv, AdaptersInv
<1>4. PortsInv'
  BY DEF IInv, PortsInv, Started
<1>5. ConfigInv'
  BY ConfigStays DEF IInv
<1> QED BY <1>1, <1>2, <1>3, <1>4, <1>5 DEF IInv

\* What the adapters' list must be for the step that makes it.
Fits(q, m, none) ==
    /\ q \in Seq(AdapterSet)
    /\ windows => \A a \in 1 .. Len(q) : q[a].name \in WindowsNames
    /\ (~windows \/ \A i \in 1 .. Len(m) : m[i].name \in Convertible) =>
          Lists(q, m) \/ (none /\ q = <<>>)

\* Whichever build made the list: it is that of its machine, or none was made
\* and that is known.
LEMMA ListedStep ==
    ASSUME IInv, NEW tables, Listed(tables), NEW none,
           Fits(adapters', machine, none), none => failed', phase = "adapters"
    PROVE  IInv'
<1> USE DEF Listed
<1>1. /\ UNCHANGED <<windows, machine, devices, length, tries, ports, config, changes>>
      /\ listed' = [listed EXCEPT !.machine = machine] /\ phase' = "ports"
  OBVIOUS
<1>2. listed' = [machine |-> machine, devices |-> listed.devices]
  BY <1>1 DEF IInv, TypesInv
<1>3. listed'.machine = machine /\ listed' = [machine |-> listed'.machine, devices |-> listed'.devices]
  BY <1>2
<1>4. TypesInv'
  BY <1>1, <1>3 DEF IInv, TypesInv, Fits
<1>5. TriesInv'
  BY <1>1 DEF TriesInv
<1>6. AdaptersInv'
  <2>1. CASE NamesConvert' /\ adapters' = <<>> /\ none
    <3>1. 1 .. Len(adapters') = {}
      BY <2>1
    <3> QED BY <1>1, <2>1, <3>1 DEF AdaptersInv
  <2>2. CASE NamesConvert' /\ Lists(adapters', machine)
    BY <1>1, <1>3, <2>2 DEF AdaptersInv, Fits, Lists
  <2>3. CASE ~NamesConvert'
    BY <1>1, <2>3 DEF AdaptersInv, Fits
  <2>4. NamesConvert' => ~windows \/ \A i \in 1 .. Len(machine) : machine[i].name \in Convertible
    BY <1>1, <1>3 DEF NamesConvert
  <2> QED BY <2>1, <2>2, <2>3, <2>4 DEF Fits
<1>7. PortsInv'
  BY <1>1 DEF IInv, PortsInv, Started
<1>8. ConfigInv'
  BY <1>1, ConfigStays DEF IInv
<1> QED BY <1>4, <1>5, <1>6, <1>7, <1>8 DEF IInv

\* No list was made.
LEMMA NoneFits ==
    ASSUME NEW q \in Orders(NoTable), NEW m
    PROVE  Fits(q, m, TRUE)
<1>1. q = <<>>
  BY NothingListed
<1>2. <<>> \in Seq(AdapterSet) /\ 1 .. Len(<<>>) = {}
  OBVIOUS
<1> QED BY <1>1, <1>2 DEF Fits

\* The one try of the macOS build.
LEMMA MacStep ==
    ASSUME IInv, EnumerateAdapters
    PROVE  IInv'
<1>1. phase = "adapters" /\ ~windows
  BY DEF EnumerateAdapters
<1>2. CASE Listed({TableOf(Entries(machine))}) /\ UNCHANGED failed
  <2>1. adapters' \in Orders(TableOf(Entries(machine)))
    BY <1>2 DEF Listed
  <2>2. machine \in Machines[FALSE]
    BY <1>1 DEF IInv, TypesInv
  <2>3. adapters' \in Seq(AdapterSet) /\ Lists(adapters', machine)
    BY <2>1, <2>2, MacLists
  <2>4. Fits(adapters', machine, FALSE)
    BY <1>1, <2>3 DEF Fits
  <2> QED BY <1>1, <1>2, <2>4, ListedStep
<1>3. CASE Listed({NoTable}) /\ failed' = TRUE
  <2>1. adapters' \in Orders(NoTable)
    BY <1>3 DEF Listed
  <2>2. Fits(adapters', machine, TRUE)
    BY <2>1, NoneFits
  <2> QED BY <1>1, <1>3, <2>2, ListedStep
<1> QED BY <1>2, <1>3 DEF EnumerateAdapters

\* A buffer that is too short again: the adapters changed again, and after the
\* last try they changed twice.
LEMMA OverflowStep ==
    ASSUME IInv, phase = "adapters", windows, Needed(machine) > length, Overflow,
           phase' = IF LastTry(tries') THEN "ports" ELSE "adapters",
           listed' = [listed EXCEPT !.machine = machine],
           UNCHANGED <<windows, machine, devices, adapters, ports, config, failed, changes>>
    PROVE  IInv'
<1>1. listed' = [machine |-> machine, devices |-> listed.devices]
  BY DEF IInv, TypesInv
<1>2. listed' = [machine |-> listed'.machine, devices |-> listed'.devices]
  BY <1>1
<1>3. Needed(machine) \in Nat
  BY NeededIs DEF IInv, TypesInv
<1>4. /\ tries \in 0 .. 2 /\ tries' = tries + 1 /\ length' = Needed(machine)
      /\ Needed(machine) # length
      /\ phase' = IF tries = 2 THEN "ports" ELSE "adapters"
  BY <1>3 DEF IInv, TypesInv, TriesInv, Overflow, LastTry, MaxTries
<1>5. tries >= 1 => changes >= tries
  BY <1>4 DEF IInv, TriesInv
<1>6. TypesInv'
  BY <1>2, <1>3, <1>4 DEF IInv, TypesInv
<1>7. TriesInv'
  <2>1. changes \in 0 .. 2
    BY DEF IInv, TypesInv
  <2> QED BY <1>4, <1>5, <2>1 DEF TriesInv
<1>8. AdaptersInv'
  <2>1. adapters = <<>>
    BY DEF IInv, AdaptersInv
  <2>2. 1 .. Len(adapters) = {}
    BY <2>1
  <2>3. CASE tries = 2
    <3>1. changes \in 0 .. 2 /\ changes >= 2
      BY <1>5, <2>3 DEF IInv, TypesInv
    <3> QED BY <2>1, <2>2, <3>1 DEF AdaptersInv
  <2>4. CASE tries # 2
    BY <1>4, <2>1, <2>2, <2>4 DEF AdaptersInv
  <2> QED BY <2>3, <2>4
<1>9. PortsInv'
  BY <1>4 DEF IInv, PortsInv, Started
<1>10. ConfigInv'
  BY <1>4, ConfigStays DEF IInv
<1> QED BY <1>6, <1>7, <1>8, <1>9, <1>10 DEF IInv

\* A try of the Windows build.
LEMMA WindowsStep ==
    ASSUME IInv, TryAdapters
    PROVE  IInv'
<1>1. phase = "adapters" /\ windows
  BY DEF TryAdapters
<1>2. CASE Needed(machine) > length /\ Overflow
           /\ phase' = (IF LastTry(tries') THEN "ports" ELSE "adapters")
           /\ listed' = [listed EXCEPT !.machine = machine]
           /\ UNCHANGED <<windows, machine, devices, adapters, ports, config, failed, changes>>
  BY <1>1, <1>2, OverflowStep
<1>3. CASE Listed(WindowsTables(machine)) /\ UNCHANGED failed
  <2>1. PICK t \in WindowsTables(machine) : adapters' \in Orders(t)
    BY <1>3 DEF Listed
  <2>2. machine \in Machines[TRUE]
    BY <1>1 DEF IInv, TypesInv
  <2>3. /\ adapters' \in Seq(AdapterSet)
        /\ \A a \in 1 .. Len(adapters') : adapters'[a].name \in WindowsNames
        /\ (\A i \in 1 .. Len(machine) : machine[i].name \in Convertible) => Lists(adapters', machine)
    BY <2>1, <2>2, WindowsLists
  <2>4. Fits(adapters', machine, FALSE)
    BY <1>1, <2>3 DEF Fits
  <2> QED BY <1>1, <1>3, <2>4, ListedStep
<1>4. CASE Listed({NoTable}) /\ failed' = TRUE
  <2>1. adapters' \in Orders(NoTable)
    BY <1>4 DEF Listed
  <2>2. Fits(adapters', machine, TRUE)
    BY <2>1, NoneFits
  <2> QED BY <1>1, <1>4, <2>2, ListedStep
<1> QED BY <1>2, <1>3, <1>4 DEF TryAdapters

\* The ports are listed, after the adapters.
LEMMA PortsStep ==
    ASSUME IInv, EnumeratePorts
    PROVE  IInv'
<1>1. /\ UNCHANGED <<windows, machine, devices, length, tries, adapters, config, changes>>
      /\ phase = "ports" /\ phase' = "load"
      /\ listed' = [listed EXCEPT !.devices = devices]
  BY DEF EnumeratePorts
<1>2. listed' = [machine |-> listed.machine, devices |-> devices]
  BY <1>1 DEF IInv, TypesInv
<1>3. /\ listed'.machine = listed.machine /\ listed'.devices = devices
      /\ listed' = [machine |-> listed'.machine, devices |-> listed'.devices]
  BY <1>2
<1>4. /\ ports' \in Seq(PortSet)
      /\ \A p, q \in 1 .. Len(ports') : ports'[p].port = ports'[q].port => p = q
      /\ windows => \A p \in 1 .. Len(ports') :
            ports'[p].port \notin IpAddresses /\ ports'[p].description \notin WindowsNames
      /\ ~failed' => \A d \in ToSet(devices) : d.path # "" /\ d.readable /\ ~d.parallel =>
            \E p \in 1 .. Len(ports') : ports'[p].port = d.path
  <2>1. CASE ports' \in SetToSeqs(PortsOf(devices))
    <3>1. windows \in BOOLEAN /\ devices \in DeviceLists[windows]
      BY DEF IInv, TypesInv
    <3> QED BY ONLY <2>1, <3>1, PortsAre
  <2>2. CASE ports' = <<>> /\ failed' = TRUE
    <3>1. <<>> \in Seq(PortSet) /\ 1 .. Len(<<>>) = {}
      OBVIOUS
    <3> QED BY <2>2, <3>1
  <2> QED BY <2>1, <2>2 DEF EnumeratePorts
<1>5. failed => failed'
  BY DEF EnumeratePorts
<1>6. TypesInv'
  BY <1>1, <1>3, <1>4 DEF IInv, TypesInv
<1>7. TriesInv'
  BY <1>1 DEF TriesInv
<1>8. AdaptersInv'
  BY <1>1, <1>3, <1>5 DEF IInv, AdaptersInv, NamesConvert
<1>9. PortsInv'
  BY <1>1, <1>3, <1>4 DEF PortsInv, Started
<1>10. ConfigInv'
  BY <1>1, ConfigStays DEF IInv
<1> QED BY <1>6, <1>7, <1>8, <1>9, <1>10 DEF IInv

\* A step to a universe that is what it has to be, all else staying.
LEMMA Settles ==
    ASSUME IInv, NEW c, L!Saved(WindowsNames, c), L!Placed(c), config' = c,
           phase \in {"load", "up"}, phase' = "up",
           UNCHANGED <<windows, machine, devices, length, tries, adapters, ports, listed, failed, changes>>
    PROVE  IInv'
<1>1. TypesInv'
  BY DEF IInv, TypesInv
<1>2. TriesInv'
  BY DEF TriesInv
<1>3. AdaptersInv'
  BY DEF IInv, AdaptersInv, NamesConvert
<1>4. PortsInv'
  BY DEF IInv, PortsInv, Started
<1>5. ConfigInv'
  BY SavedIs, PlacedIs DEF ConfigInv
<1> QED BY <1>1, <1>2, <1>3, <1>4, <1>5 DEF IInv

\* The program ends and keeps of its universe what it saved.
LEMMA QuitStep ==
    ASSUME IInv, Quit
    PROVE  IInv'
<1> DEFINE c == [config EXCEPT !.adapter = 0, !.port = 0]
<1>1. /\ phase' = "off" /\ config' = c /\ adapters' = <<>> /\ ports' = <<>>
      /\ listed' = [machine |-> <<>>, devices |-> <<>>]
      /\ length' = 0 /\ tries' = 0 /\ failed' = FALSE
      /\ UNCHANGED <<windows, machine, devices, changes>>
  BY DEF Quit
<1>2. L!Saved(WindowsNames, c)
  BY DEF IInv, ConfigInv, L!Saved, L!Shaped, L!Fields, L!Readable, L!Null
<1> HIDE DEF c
<1>3. \A S : <<>> \in Seq(S) /\ 1 .. Len(<<>>) = {}
  OBVIOUS
<1>4. TypesInv'
  BY <1>1, <1>3 DEF IInv, TypesInv
<1>5. TriesInv'
  BY <1>1 DEF TriesInv
<1>6. AdaptersInv'
  BY <1>1, <1>3 DEF AdaptersInv
<1>7. PortsInv'
  BY <1>1, <1>3 DEF PortsInv, Started
<1>8. ConfigInv'
  BY <1>1, <1>2, SavedIs DEF ConfigInv
<1> QED BY <1>4, <1>5, <1>6, <1>7, <1>8 DEF IInv

\* The universe is loaded among the adapters of this start.
LEMMA LoadStep ==
    ASSUME IInv, Load
    PROVE  IInv'
<1> DEFINE c == L!FromDictionary(L!ToDictionary(config), NoAdapters)
<1>1. config' = c
  BY SameLoad DEF Load
<1>2. L!Saved(WindowsNames, c) /\ L!Placed(c)
  <2>1. Assumed
    BY Fitting, ListsFit
  <2>2. L!PortsApart /\ L!NamesFit(WindowsNames) /\ L!Saved(WindowsNames, config)
    BY Fitting DEF IInv, ConfigInv
  <2> QED BY ONLY <2>1, <2>2, L!LoadPlaces, Zenon DEF Assumed
<1> HIDE DEF c
<1> QED BY <1>1, <1>2, Settles DEF Load

\* A choice from the menus, whose symbols can all be read.
LEMMA InterfaceStep ==
    ASSUME IInv, ChooseInterface
    PROVE  IInv'
<1>1. phase = "up"
  BY DEF ChooseInterface, Change
<1>2. PICK sym \in IF config.protocol \in U!IpProtocols THEN U!AdapterMenu ELSE U!PortMenu :
         Change(U!SetInterface(config, sym, NoAdapters))
  BY DEF ChooseInterface
<1> DEFINE c == L!SetInterface(config, sym, NoAdapters)
<1>3. Change(c)
  BY <1>2, SameInterface
<1>4. Assumed /\ L!PortsApart /\ L!NamesFit(WindowsNames) /\ L!Saved(WindowsNames, config)
  BY Fitting, ListsFit DEF IInv, ConfigInv
<1>5. /\ L!Readable(WindowsNames, L!All) /\ L!Readable(WindowsNames, L!Global) /\ L!Readable(WindowsNames, L!None)
      /\ \A a \in L!Adapters : L!Readable(WindowsNames, L!AdapterToSym(a))
      /\ windows => \A p \in L!Ports : L!Readable(WindowsNames, L!PortToSym(p))
  BY ONLY <1>4, L!MadeReadable, Zenon DEF Assumed
<1>6. L!Readable(WindowsNames, sym)
  <2>1. sym \in L!AdapterMenu \/ sym \in L!PortMenu
    BY <1>2, SameNames
  <2>2. ~windows => L!Readable(WindowsNames, sym)
    BY DEF L!Readable
  <2> QED BY <1>5, <2>1, <2>2 DEF L!AdapterMenu, L!PortMenu
<1>7. L!Saved(WindowsNames, c) /\ L!Placed(c)
  BY ONLY <1>4, <1>6, L!InterfacePlaces, Zenon DEF Assumed
<1> HIDE DEF c
<1> QED BY <1>1, <1>3, <1>7, Settles DEF Change

LEMMA ProtocolStep ==
    ASSUME IInv, ChooseProtocol
    PROVE  IInv'
<1>1. phase = "up"
  BY DEF ChooseProtocol, Change
<1>2. PICK p \in {"artnet", "sacn", "dmxusbpro"} : Change(U!SetProtocol(config, p, NoAdapters))
  BY DEF ChooseProtocol
<1> DEFINE c == L!SetProtocol(config, p, NoAdapters)
<1>3. Change(c)
  BY <1>2, SameProtocol
<1>4. Assumed /\ L!PortsApart /\ L!NamesFit(WindowsNames) /\ L!Saved(WindowsNames, config)
  BY Fitting, ListsFit DEF IInv, ConfigInv
<1>5. p \in L!Protocols
  BY DEF L!Protocols, L!IpProtocols, L!SerialProtocols
<1>6. L!Saved(WindowsNames, c) /\ L!Placed(c)
  BY ONLY <1>4, <1>5, L!ProtocolPlaces, Zenon DEF Assumed
<1> HIDE DEF c
<1> QED BY <1>1, <1>3, <1>6, Settles DEF Change

LEMMA ModeStep ==
    ASSUME IInv, ChooseMode
    PROVE  IInv'
<1>1. phase = "up"
  BY DEF ChooseMode, Change
<1>2. PICK mode : Change(U!SetMode(config, mode))
  BY DEF ChooseMode
<1> DEFINE c == L!SetMode(config, mode)
<1>3. Change(c)
  BY <1>2, SameMode
<1>4. Assumed /\ L!Saved(WindowsNames, config) /\ L!Placed(config)
  BY <1>1, Fitting, ListsFit DEF IInv, ConfigInv
<1>5. L!Saved(WindowsNames, c) /\ L!Placed(c)
  BY ONLY <1>4, L!ModePlaces, Zenon DEF Assumed
<1> HIDE DEF c
<1> QED BY <1>1, <1>3, <1>5, Settles DEF Change

LEMMA UnicastStep ==
    ASSUME IInv, ChooseUnicast
    PROVE  IInv'
<1>1. phase = "up"
  BY DEF ChooseUnicast, Change
<1>2. PICK list : Change(U!SetUnicast(config, list))
  BY DEF ChooseUnicast
<1> DEFINE c == L!SetUnicast(config, list)
<1>3. Change(c)
  BY <1>2, SameUnicast
<1>4. Assumed /\ L!Saved(WindowsNames, config) /\ L!Placed(config)
  BY <1>1, Fitting, ListsFit DEF IInv, ConfigInv
<1>5. L!Saved(WindowsNames, c) /\ L!Placed(c)
  BY ONLY <1>4, L!UnicastPlaces, Zenon DEF Assumed
<1> HIDE DEF c
<1> QED BY <1>1, <1>3, <1>5, Settles DEF Change

LEMMA Stays ==
    ASSUME IInv, UNCHANGED vars
    PROVE  IInv'
<1> USE DEF vars
<1>1. TypesInv'
  BY DEF IInv, TypesInv
<1>2. TriesInv'
  BY DEF IInv, TriesInv
<1>3. AdaptersInv'
  BY DEF IInv, AdaptersInv, NamesConvert
<1>4. PortsInv'
  BY DEF IInv, PortsInv, Started
<1>5. ConfigInv'
  BY ConfigStays DEF IInv
<1> QED BY <1>1, <1>2, <1>3, <1>4, <1>5 DEF IInv

\* No step breaks the invariant.
LEMMA Steps == IInv /\ [Next]_vars => IInv'
<1> SUFFICES ASSUME IInv, [Next]_vars PROVE IInv'
  OBVIOUS
<1>1. CASE MachineChanges    BY <1>1, MachineStep
<1>2. CASE DevicesChange     BY <1>2, DevicesStep
<1>3. CASE Start             BY <1>3, StartStep
<1>4. CASE EnumerateAdapters BY <1>4, MacStep
<1>5. CASE TryAdapters       BY <1>5, WindowsStep
<1>6. CASE EnumeratePorts    BY <1>6, PortsStep
<1>7. CASE Load              BY <1>7, LoadStep
<1>8. CASE ChooseInterface   BY <1>8, InterfaceStep
<1>9. CASE ChooseProtocol    BY <1>9, ProtocolStep
<1>10. CASE ChooseMode       BY <1>10, ModeStep
<1>11. CASE ChooseUnicast    BY <1>11, UnicastStep
<1>12. CASE Quit             BY <1>12, QuitStep
<1>13. CASE UNCHANGED vars   BY <1>13, Stays
<1> QED BY <1>1, <1>2, <1>3, <1>4, <1>5, <1>6, <1>7, <1>8, <1>9, <1>10, <1>11, <1>12, <1>13 DEF Next

\* The inductive invariant holds in every state of every machine: the lists are
\* typed and are those of the machine, and the universe is placed among them.
THEOREM ListsCorrect == Spec => []IInv
<1> QED BY Initially, Steps, PTL DEF Spec

------------------------------------------------------------------------------
(* The properties                                                          *)

\* What the invariant says of the lists, ...
LEMMA ListedNow == ASSUME IInv PROVE EverythingListed
<1> SUFFICES ASSUME Started, ~failed, NamesConvert
             PROVE  /\ changes < 2 =>
                          \A e \in ToSet(Entries(listed.machine)) : e.address \in IpAddresses =>
                             \E a \in 1 .. Len(adapters) :
                                /\ adapters[a].name = e.name
                                /\ adapters[a].addresses = AddressesOf(listed.machine, e.name)
                    /\ \A d \in ToSet(listed.devices) : d.path # "" /\ d.readable /\ ~d.parallel =>
                          \E p \in 1 .. Len(ports) : ports[p].port = d.path
  BY DEF EverythingListed
<1>1. phase \in {"ports", "load", "up"}
  BY DEF Started
<1>2. /\ \A a \in 1 .. Len(adapters) : adapters[a].addresses = AddressesOf(listed.machine, adapters[a].name)
      /\ changes < 2 =>
            \A e \in ToSet(Entries(listed.machine)) : e.address \in IpAddresses =>
                \E a \in 1 .. Len(adapters) : adapters[a].name = e.name
  BY <1>1 DEF IInv, AdaptersInv
<1>3. \A d \in ToSet(listed.devices) : d.path # "" /\ d.readable /\ ~d.parallel =>
         \E p \in 1 .. Len(ports) : ports[p].port = d.path
  BY DEF IInv, PortsInv
<1> QED BY <1>2, <1>3

\* ... of where the universe sends to, ...
LEMMA SendsNow == ASSUME IInv PROVE SendsToItsNetworks
<1> SUFFICES ASSUME phase = "up", config.mode = "broadcast"
             PROVE  /\ NamesConvert /\ config.interface \notin {U!All, U!Global} =>
                          Destinations(config) =
                            {Highest(ip) : ip \in ToSet(AddressesOf(listed.machine, config.interface.head))}
                    /\ Destinations(config) = {} =>
                          \/ config.interface = U!Global
                          \/ config.adapter # 0 /\ adapters[config.adapter].addresses = <<>>
  BY DEF SendsToItsNetworks
<1>1. config.protocol \in L!IpProtocols
  BY DEF IInv, ConfigInv, L!Saved, L!IpProtocols
<1> DEFINE a == config.adapter
           own == adapters[a].addresses
<1>2. Destinations(config) =
         IF config.interface = U!All THEN {<<255, 255, 255, 255>>}
         ELSE IF a = 0 THEN {} ELSE BroadcastIps(a)
  BY DEF Destinations
<1>3. ASSUME config.interface \notin {U!All, U!Global}
      PROVE  /\ a \in 1 .. Len(adapters) /\ a # 0
             /\ config.interface.head = adapters[a].name
             /\ own \in Seq(IpAddresses)
             /\ Destinations(config) = {Highest(ip) : ip \in ToSet(own)}
  <2>1. a \in L!Adapters /\ config.interface.head = adapters[a].name
    BY <1>1, <1>3, SameNames DEF IInv, ConfigInv, L!Placed
  <2>2. a \in 1 .. Len(adapters) /\ a # 0
    BY <2>1 DEF L!Adapters
  <2>3. adapters[a] \in AdapterSet
    BY <2>2, SeqMember DEF IInv, TypesInv
  <2>4. own \in Seq(IpAddresses)
    BY <2>3 DEF AdapterSet
  <2> HIDE DEF own
  <2>5. \A ip \in ToSet(own) : ip \in IpAddresses
    BY <2>4, MembersAre, SeqMember
  <2>6. BroadcastIps(a) = {ToDirectedBroadcast(Bytes[ip], Mask[ip]) : ip \in ToSet(own)}
    BY DEF BroadcastIps, own
  <2>7. {ToDirectedBroadcast(Bytes[ip], Mask[ip]) : ip \in ToSet(own)} = {Highest(ip) : ip \in ToSet(own)}
    BY <2>5, HighestIs
  <2>8. Destinations(config) = BroadcastIps(a)
    BY <1>2, <1>3, <2>2
  <2> QED BY <2>1, <2>2, <2>4, <2>6, <2>7, <2>8 DEF own
<1>4. ASSUME NamesConvert, config.interface \notin {U!All, U!Global}
      PROVE  own = AddressesOf(listed.machine, config.interface.head)
  BY <1>3, <1>4 DEF IInv, AdaptersInv
<1>5. ASSUME Destinations(config) = {}, config.interface # U!Global
      PROVE  a # 0 /\ own = <<>>
  <2>1. config.interface # U!All
    BY <1>2, <1>5
  <2>2. /\ a # 0 /\ own \in Seq(IpAddresses)
        /\ {Highest(ip) : ip \in ToSet(own)} = {}
    BY <1>3, <1>5, <2>1
  <2>3. ToSet(own) = {}
    BY <2>2
  <2> HIDE DEF own
  <2>4. own = <<>>
    <3>1. PICK k \in Nat : k = Len(own)
      BY <2>2
    <3>2. 1 \notin 1 .. k
      BY <2>3, <3>1 DEF ToSet
    <3> QED BY <2>2, <3>1, <3>2
  <2> QED BY <2>2, <2>4
<1> QED BY <1>3, <1>4, <1>5

\* ... of what a choice would do, ...
LEMMA HonouredNow == ASSUME IInv PROVE ChoiceIsHonoured
<1> SUFFICES L!Honoured(config, NoAdapters)
  BY SameChoices DEF ChoiceIsHonoured
<1>1. Assumed /\ L!PortsApart
  BY Fitting, ListsFit
<1>2. L!Shaped(config) /\ config.protocol \in L!Protocols /\ (windows => config.port = L!Null)
  BY DEF IInv, ConfigInv, L!Saved
<1> QED BY ONLY <1>1, <1>2, L!ChoicesAreHonoured, Zenon DEF Assumed

\* ... and of the next load.
LEMMA NoStrangerNow ==
    ASSUME IInv, [Next]_vars
    PROVE  [phase = "load" => U!NoStranger(config.interface, config')]_phase
<1>1. CASE Load
  <2>1. config' = L!FromDictionary(L!ToDictionary(config), NoAdapters)
    BY <1>1, SameLoad DEF Load
  <2>2. Assumed /\ L!PortsApart
    BY Fitting, ListsFit
  <2>3. config.type \in L!Types /\ config.protocol \in L!Protocols
    BY DEF IInv, ConfigInv, L!Saved
  <2>4. L!NoStranger(config.interface, L!FromDictionary(L!ToDictionary(config), NoAdapters))
    BY ONLY <2>2, <2>3, L!LoadsNoStranger, Zenon DEF Assumed
  <2> QED BY <2>1, <2>4, SameStranger
<1>2. CASE phase # "load"
  BY <1>2
<1>3. CASE phase = "load" /\ ~Load
  BY <1>3 DEF Next, MachineChanges, DevicesChange, Start, EnumerateAdapters, TryAdapters, EnumeratePorts,
              ChooseInterface, ChooseProtocol, ChooseMode, ChooseUnicast, Change, Quit, vars
<1> QED BY <1>1, <1>2, <1>3

\* Every adapter with an IPv4 address is listed with all its addresses in their
\* order unless the adapters changed twice in three tries, and every device that
\* can be opened, on any machine.
THEOREM AllIsListed == Spec => []EverythingListed
BY ListsCorrect, ListedNow, PTL

\* A broadcasting universe reports the networks of the adapter it names, each by
\* its highest address, for all addresses and subnet masks; it reports no address
\* only for the global interface or for an adapter without an IPv4 address.
THEOREM SendsAreRight == Spec => []SendsToItsNetworks
BY ListsCorrect, SendsNow, PTL

\* While the program is up, an adapter that is offered and alone is selected
\* exactly if its symbol can hold its addresses, and a port as its build allows.
THEOREM ChoicesAreKept == Spec => []ChoiceIsHonoured
BY ListsCorrect, HonouredNow, PTL

\* After a restart on a machine that changed in any way the universe has an
\* adapter or a port that shares something with the name it was saved with.  It
\* has none only if no such one is listed or the name was saved without an address
\* or a port, and then it has none even if the adapter of that name is listed.
THEOREM NeverAStranger == Spec => NoStrangerFound
<1>1. IInv /\ [Next]_vars => [phase = "load" => U!NoStranger(config.interface, config')]_phase
  BY NoStrangerNow
<1> QED BY ListsCorrect, <1>1, PTL DEF Spec, NoStrangerFound
================================================================================
