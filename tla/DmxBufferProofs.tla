---------------------------- MODULE DmxBufferProofs ----------------------------
(***************************************************************************)
(* Proofs about DmxBuffer, for any threads, addresses, spans and length of *)
(* a universe: the layout, the inductive invariant and what follows from   *)
(* it, and that it implements DmxFrames.                                   *)
(***************************************************************************)
EXTENDS DmxBufferRefinement, FiniteSetTheorems, TLAPS

------------------------------------------------------------------------------
(* The layout                                                              *)

LEMMA NatTimes ==
    ASSUME NEW n \in Nat, NEW i \in Nat
    PROVE  n * i \in Nat
BY SMT

\* Multiples of the universe's length keep their distance.
LEMMA Spacing ==
    ASSUME NEW n \in Nat, NEW i \in Nat, NEW j \in Nat, i < j
    PROVE  n * i + n <= n * j /\ n * i \in Nat /\ n * j \in Nat
<1>1. j = i + 1 + (j - i - 1) /\ j - i - 1 \in Nat
  OBVIOUS
<1>2. PICK d \in Nat : j = i + 1 + d
  BY <1>1
<1>3. n * d \in Nat
  BY SMT
<1>4. n * j = n * i + n + n * d
  BY <1>2, SMT
<1> QED
  BY <1>3, <1>4, SMT

\* A set of addresses is finite, and so is the part of it below an address.
LEMMA LayoutFinite ==
    ASSUME NEW S \in SUBSET Addresses, NEW u
    PROVE  /\ IsFiniteSet(S)
           /\ Cardinality(S) \in Nat
           /\ IsFiniteSet({v \in S : v < u})
           /\ Cardinality({v \in S : v < u}) \in Nat
<1>1. IsFiniteSet(S)
  BY AddressAssumption, FS_Subset
<1>2. IsFiniteSet({v \in S : v < u})
  BY <1>1, FS_Subset
<1> QED
  BY <1>1, <1>2, FS_CardinalityType

\* The offsets and the length that a layout gives are natural numbers.
LEMMA LayoutType ==
    ASSUME NEW S \in SUBSET Addresses, NEW u
    PROVE  Size(S) \in Nat /\ Base(S, u) \in Nat
<1>1. UniverseLength \in Nat
  BY LengthAssumption
<1>2. Size(S) \in Nat
  BY <1>1, LayoutFinite, NatTimes DEF Size
<1>3. Base(S, u) \in Nat
  <2> DEFINE n == Cardinality({v \in S : v < u})
  <2>1. n \in Nat
    BY LayoutFinite
  <2> HIDE DEF n
  <2>2. UniverseLength * n \in Nat
    BY <1>1, <2>1, NatTimes
  <2> QED
    BY <2>2 DEF Base, n
<1> QED
  BY <1>2, <1>3

\* A universe of the layout lies within the vector.
LEMMA RegionFits ==
    ASSUME NEW S \in SUBSET Addresses, NEW u \in S
    PROVE  Base(S, u) + UniverseLength <= Size(S)
<1> DEFINE B == {v \in S : v < u}
<1>1. u \in Nat
  BY AddressAssumption
<1>2. u \notin B /\ B \subseteq S
  BY <1>1
<1>3. Cardinality(B) < Cardinality(S)
  BY <1>2, LayoutFinite, FS_Subset
<1> HIDE DEF B
<1>4. Cardinality(B) \in Nat /\ Cardinality(S) \in Nat
  BY LayoutFinite DEF B
<1> QED
  BY <1>3, <1>4, Spacing, LengthAssumption DEF Base, Size, B

\* A universe ends before any universe of a higher address begins.
LEMMA RegionsOrdered ==
    ASSUME NEW S \in SUBSET Addresses, NEW u \in S, NEW w \in S, u < w
    PROVE  Base(S, u) + UniverseLength <= Base(S, w)
<1> DEFINE B == {v \in S : v < u}
           C == {v \in S : v < w}
<1>1. \A v \in S : v \in Nat
  BY AddressAssumption
<1>2. u \notin B /\ u \in C /\ B \subseteq C
  BY <1>1
<1>3. IsFiniteSet(C)
  BY LayoutFinite
<1> HIDE DEF B, C
<1>4. Cardinality(B) <= Cardinality(C) /\ Cardinality(B) # Cardinality(C)
  BY <1>2, <1>3, FS_Subset
<1>5. Cardinality(B) \in Nat /\ Cardinality(C) \in Nat
  BY LayoutFinite DEF B, C
<1> QED
  BY <1>4, <1>5, Spacing, LengthAssumption DEF Base, B, C

\* resize() lays the universes out side by side: no two share an offset.
THEOREM LayoutDisjoint ==
    ASSUME NEW S \in SUBSET Addresses, NEW u \in S, NEW w \in S, u # w
    PROVE  Region(S, u) \cap Region(S, w) = {}
<1>1. u \in Nat /\ w \in Nat
  BY AddressAssumption
<1>2. Base(S, u) \in Nat /\ Base(S, w) \in Nat
  BY LayoutType
<1>3. CASE u < w
  BY <1>2, <1>3, RegionsOrdered, LengthAssumption DEF Region
<1>4. CASE w < u
  BY <1>2, <1>4, RegionsOrdered, LengthAssumption DEF Region
<1> QED
  BY <1>1, <1>3, <1>4

------------------------------------------------------------------------------
(* The inductive invariant                                                 *)

WriteHolders == {"write_copy", "swap_pointers", "swap_copy",
                 "resize_build", "resize_assign", "resize_return"}
ReadHolders == {"read_copy", "swap_pointers", "swap_copy",
                "resize_build", "resize_assign", "resize_return"}
Iterating == {"write_lock", "write_copy", "read_lock", "read_copy"}

\* A thread owns a mutex exactly between its acquisition and its release.
LocksHeld ==
    \A t \in Threads :
        /\ pc[t] \in WriteHolders <=> mutex_write = t
        /\ pc[t] \in ReadHolders <=> mutex_read = t

\* The lengths of the two vectors at each stage of resize().
RebuildFits ==
    \A t \in Threads :
        /\ pc[t] = "resize_build" =>
              /\ DOMAIN buffer[current] = Offsets(Size(universes))
              /\ DOMAIN buffer[next] = Offsets(Size(rebuild.new))
              /\ rebuild.todo \subseteq rebuild.new
        /\ pc[t] \in {"resize_assign", "resize_return"} =>
              \A b \in {"a", "b"} : DOMAIN buffer[b] = Offsets(Size(rebuild.new))

\* The map is being assigned during the last step of resize() only, and then
\* every iterator that is still to be dereferenced is stale.
AssignMarks ==
    /\ assigning <=> \E t \in Threads : pc[t] = "resize_return"
    /\ assigning => \A t \in Threads : HoldsIterator(t) => call[t].stale

\* An iterator that is not stale still tells the offset of its universe.
FreshIterators ==
    \A t \in Threads :
        pc[t] \in Iterating /\ ~call[t].stale =>
            /\ call[t].universe \in universes
            /\ call[t].it = Base(universes, call[t].universe)
            /\ call[t].span \in Spans
            /\ pc[t] \in {"read_lock", "read_copy"} => InBounds(call[t].span)

IInv ==
    /\ TypeOK
    /\ LocksHeld
    /\ VectorsFitLayout
    /\ RebuildFits
    /\ AssignMarks
    /\ FreshIterators

\* A vector whose channels are replaced one by one is still a vector.
LEMMA VectorEdit ==
    ASSUME NEW f \in Vectors, NEW g,
           g = [a \in DOMAIN f |-> g[a]],
           \A a \in DOMAIN f : g[a] \in Values
    PROVE  g \in Vectors
<1>1. PICK S \in SUBSET Addresses : f \in [Offsets(Size(S)) -> Values]
  BY DEF Vectors
<1>2. g \in [Offsets(Size(S)) -> Values]
  BY <1>1
<1> QED
  BY <1>2 DEF Vectors

LEMMA ResizedIsVector ==
    ASSUME NEW f \in Vectors, NEW S \in SUBSET Addresses
    PROVE  /\ Resized(f, Size(S)) \in Vectors
           /\ DOMAIN Resized(f, Size(S)) = Offsets(Size(S))
<1>1. \A a \in DOMAIN f : f[a] \in Values
  BY DEF Vectors
<1>2. Resized(f, Size(S)) \in [Offsets(Size(S)) -> Values]
  BY <1>1, ValueAssumption DEF Resized
<1> QED
  BY <1>2 DEF Vectors

LEMMA EmptyIsVector == [a \in {} |-> 0] \in Vectors
<1>1. Size({}) = 0
  BY FS_EmptySet, LengthAssumption DEF Size
<1>2. Offsets(0) = {}
  BY DEF Offsets
<1>3. [a \in {} |-> 0] \in [Offsets(Size({})) -> Values]
  BY <1>1, <1>2
<1> QED
  BY <1>3 DEF Vectors

LEMMA InitHolds == ASSUME Init PROVE IInv
<1>1. TypeOK
  <2>1. /\ buffer \in [{"a", "b"} -> Vectors]
        /\ pc \in [Threads -> Labels]
        /\ dst \in [Threads -> [0 .. UniverseLength -> Values]]
    BY EmptyIsVector, ValueAssumption DEF Init, Labels, Blank
  <2>2. NoCall \in CallRecord
    BY ValueAssumption DEF NoCall, CallRecord
  <2>3. rebuild \in [new : SUBSET Addresses, todo : SUBSET Addresses]
    BY DEF Init, NoRebuild
  <2>4. call \in [Threads -> CallRecord]
    BY <2>2 DEF Init
  <2>5. assigning \in BOOLEAN /\ crashed \in BOOLEAN
    BY Zenon DEF Init
  <2>6. /\ universes \in SUBSET Addresses /\ current \in {"a", "b"}
        /\ calls \in 0 .. MaxCalls
        /\ mutex_read \in Threads \cup {NoThread} /\ mutex_write \in Threads \cup {NoThread}
    BY BoundAssumption DEF Init
  <2> QED
    BY <2>1, <2>3, <2>4, <2>5, <2>6, Zenon DEF TypeOK
<1>2. LocksHeld
  BY ThreadAssumption DEF Init, LocksHeld, WriteHolders, ReadHolders
<1>3. VectorsFitLayout
  <2>1. Size({}) = 0
    BY FS_EmptySet, LengthAssumption DEF Size
  <2> QED
    BY <2>1 DEF Init, VectorsFitLayout, Offsets
<1>4. RebuildFits /\ AssignMarks /\ FreshIterators
  BY DEF Init, RebuildFits, AssignMarks, FreshIterators, Iterating
<1> QED
  BY <1>1, <1>2, <1>3, <1>4 DEF IInv
LEMMA CallEdit ==
    ASSUME NEW r \in CallRecord, NEW n \in Nat
    PROVE  /\ [r EXCEPT !.it = n] \in CallRecord
           /\ [r EXCEPT !.k = n] \in CallRecord
           /\ [r EXCEPT !.stale = TRUE] \in CallRecord
<1>1. [r EXCEPT !.it = n] \in CallRecord
  BY DEF CallRecord
<1>2. [r EXCEPT !.k = n] \in CallRecord
  BY DEF CallRecord
<1>3. [r EXCEPT !.stale = TRUE] \in CallRecord
  BY DEF CallRecord
<1> QED
  BY <1>1, <1>2, <1>3

LEMMA NewCall ==
    ASSUME NEW u \in Addresses, NEW span \in Spans, NEW value \in Values,
           NEW n \in Nat, NEW b \in BOOLEAN
    PROVE  [universe |-> u, span |-> span, value |-> value,
            it |-> n, k |-> 0, stale |-> b] \in CallRecord
BY AddressAssumption, SpanAssumption, SMT DEF CallRecord

LEMMA LookUpType ==
    ASSUME TypeOK, NEW t \in Threads, NEW u \in Addresses, NEW span \in Spans,
           NEW value \in Values, NEW label, LookUp(t, u, span, value, label)
    PROVE  call' \in [Threads -> CallRecord]
<1>1. Base(universes, u) \in Nat /\ assigning \in BOOLEAN
  BY LayoutType, Zenon DEF TypeOK
<1>2. [universe |-> u, span |-> span, value |-> value, it |-> Base(universes, u),
       k |-> 0, stale |-> assigning] \in CallRecord
  BY <1>1, NewCall, Zenon
<1>3. call \in [Threads -> CallRecord]
  BY DEF TypeOK
<1> QED
  BY <1>2, <1>3, Zenon DEF LookUp

LEMMA DereferenceType ==
    ASSUME TypeOK, NEW t \in Threads, Dereference(t)
    PROVE  call' \in [Threads -> CallRecord]
<1>1. call \in [Threads -> CallRecord] /\ call[t] \in CallRecord /\ call[t].it \in Nat
  BY DEF TypeOK, CallRecord
<1>2. PICK offset \in Nat : call' = [call EXCEPT ![t].it = offset]
  BY <1>1, StrayAssumption DEF Dereference
<1> QED
  BY <1>1, <1>2, CallEdit

LEMMA AdvanceType ==
    ASSUME TypeOK, NEW t \in Threads, Advance(t)
    PROVE  call' \in [Threads -> CallRecord]
<1>1. call \in [Threads -> CallRecord] /\ call[t] \in CallRecord /\ call[t].k + 1 \in Nat
  BY DEF TypeOK, CallRecord
<1>2. [call[t] EXCEPT !.k = call[t].k + 1] \in CallRecord
  BY <1>1, CallEdit
<1> QED
  BY <1>1, <1>2 DEF Advance

\* One channel of one vector is replaced.
LEMMA StoreType ==
    ASSUME TypeOK, NEW b \in {"a", "b"}, NEW a, NEW value \in Values
    PROVE  [buffer EXCEPT ![b][a] = value] \in [{"a", "b"} -> Vectors]
<1>1. buffer \in [{"a", "b"} -> Vectors] /\ buffer[b] \in Vectors
  BY DEF TypeOK
<1>2. \A c \in DOMAIN buffer[b] : buffer[b][c] \in Values
  BY <1>1 DEF Vectors
<1>3. PICK S \in SUBSET Addresses : buffer[b] \in [Offsets(Size(S)) -> Values]
  BY <1>1 DEF Vectors
<1>4. [buffer[b] EXCEPT ![a] = value] \in [Offsets(Size(S)) -> Values]
  BY <1>3
<1>5. [buffer[b] EXCEPT ![a] = value] \in Vectors
  BY <1>4 DEF Vectors
<1> QED
  BY <1>1, <1>5


LEMMA WriteAbsentType == ASSUME TypeOK, NEW t \in Threads, WriteAbsent(t) PROVE TypeOK'
<1>1. (calls \in 0 .. MaxCalls)'
  BY ThreadAssumption, BoundAssumption, ValueAssumption DEF TypeOK, WriteAbsent, Enter
<1>2. /\ (universes \in SUBSET Addresses)'
      /\ (assigning \in BOOLEAN)'
      /\ (buffer \in [{"a", "b"} -> Vectors])'
      /\ (current \in {"a", "b"})'
      /\ (mutex_read \in Threads \cup {NoThread} /\ mutex_write \in Threads \cup {NoThread})'
      /\ (pc \in [Threads -> Labels])'
      /\ (call \in [Threads -> CallRecord])'
      /\ (dst \in [Threads -> [0 .. UniverseLength -> Values]])'
      /\ (rebuild \in [new : SUBSET Addresses, todo : SUBSET Addresses])'
      /\ (crashed \in BOOLEAN)'
  BY Zenon DEF TypeOK, WriteAbsent, Enter, shared, mutexes
<1> QED
  BY <1>1, <1>2, Zenon DEF TypeOK

LEMMA WriteFindType == ASSUME TypeOK, NEW t \in Threads, WriteFind(t) PROVE TypeOK'
<1>1. (calls \in 0 .. MaxCalls)'
  BY ThreadAssumption, BoundAssumption, ValueAssumption DEF TypeOK, WriteFind, Enter, LookUp
<1>2. (call \in [Threads -> CallRecord])'
  BY LookUpType DEF WriteFind
<1>3. (pc \in [Threads -> Labels])'
  BY ThreadAssumption, BoundAssumption, ValueAssumption DEF TypeOK, WriteFind, Enter, LookUp, Labels, Goto
<1>4. /\ (universes \in SUBSET Addresses)'
      /\ (assigning \in BOOLEAN)'
      /\ (buffer \in [{"a", "b"} -> Vectors])'
      /\ (current \in {"a", "b"})'
      /\ (mutex_read \in Threads \cup {NoThread} /\ mutex_write \in Threads \cup {NoThread})'
      /\ (dst \in [Threads -> [0 .. UniverseLength -> Values]])'
      /\ (rebuild \in [new : SUBSET Addresses, todo : SUBSET Addresses])'
      /\ (crashed \in BOOLEAN)'
  BY Zenon DEF TypeOK, WriteFind, Enter, LookUp, shared, mutexes
<1> QED
  BY <1>1, <1>2, <1>3, <1>4, Zenon DEF TypeOK

LEMMA WriteLockType == ASSUME TypeOK, NEW t \in Threads, WriteLock(t) PROVE TypeOK'
<1>1. (mutex_read \in Threads \cup {NoThread} /\ mutex_write \in Threads \cup {NoThread})'
  BY ThreadAssumption, BoundAssumption, ValueAssumption DEF TypeOK, WriteLock, Dereference, Goto
<1>2. (call \in [Threads -> CallRecord])'
  BY DereferenceType DEF WriteLock
<1>3. (pc \in [Threads -> Labels])'
  BY ThreadAssumption, BoundAssumption, ValueAssumption DEF TypeOK, WriteLock, Dereference, Goto, Labels, Goto
<1>4. /\ (universes \in SUBSET Addresses)'
      /\ (assigning \in BOOLEAN)'
      /\ (buffer \in [{"a", "b"} -> Vectors])'
      /\ (current \in {"a", "b"})'
      /\ (dst \in [Threads -> [0 .. UniverseLength -> Values]])'
      /\ (rebuild \in [new : SUBSET Addresses, todo : SUBSET Addresses])'
      /\ (calls \in 0 .. MaxCalls)'
      /\ (crashed \in BOOLEAN)'
  BY Zenon DEF TypeOK, WriteLock, Dereference, Goto, shared, mutexes
<1> QED
  BY <1>1, <1>2, <1>3, <1>4, Zenon DEF TypeOK

LEMMA WriteCopyType == ASSUME TypeOK, NEW t \in Threads, WriteCopy(t) PROVE TypeOK'
<1>1. (call \in [Threads -> CallRecord])'
  BY AdvanceType DEF WriteCopy
<1>2. (buffer \in [{"a", "b"} -> Vectors])'
  <2>1. buffer' = buffer \/ buffer' = [buffer EXCEPT ![next][Target(t)] = call[t].value]
    BY Zenon DEF WriteCopy, Undefined
  <2>2. next \in {"a", "b"} /\ call[t].value \in Values
    BY DEF TypeOK, CallRecord, next
  <2>3. buffer \in [{"a", "b"} -> Vectors]
    BY DEF TypeOK
  <2>4. [buffer EXCEPT ![next][Target(t)] = call[t].value] \in [{"a", "b"} -> Vectors]
    BY <2>2, StoreType, Zenon
  <2> QED
    BY <2>1, <2>3, <2>4, Zenon
<1>3. (crashed \in BOOLEAN)'
  BY Zenon DEF TypeOK, WriteCopy, Advance, Undefined
<1>4. (universes \in SUBSET Addresses)'
  BY ThreadAssumption, BoundAssumption, ValueAssumption DEF TypeOK, WriteCopy, Advance, Undefined
<1>5. (assigning \in BOOLEAN)'
  BY Zenon DEF TypeOK, WriteCopy, Advance, Undefined
<1>6. (current \in {"a", "b"})'
  BY ThreadAssumption, BoundAssumption, ValueAssumption DEF TypeOK, WriteCopy, Advance, Undefined, next
<1>7. /\ (mutex_read \in Threads \cup {NoThread} /\ mutex_write \in Threads \cup {NoThread})'
      /\ (pc \in [Threads -> Labels])'
      /\ (dst \in [Threads -> [0 .. UniverseLength -> Values]])'
      /\ (rebuild \in [new : SUBSET Addresses, todo : SUBSET Addresses])'
      /\ (calls \in 0 .. MaxCalls)'
  BY Zenon DEF TypeOK, WriteCopy, Advance, Undefined, shared, mutexes
<1> QED
  BY <1>1, <1>2, <1>3, <1>4, <1>5, <1>6, <1>7, Zenon DEF TypeOK

LEMMA WriteReturnType == ASSUME TypeOK, NEW t \in Threads, WriteReturn(t) PROVE TypeOK'
<1>1. (mutex_read \in Threads \cup {NoThread} /\ mutex_write \in Threads \cup {NoThread})'
  BY ThreadAssumption, BoundAssumption, ValueAssumption DEF TypeOK, WriteReturn, Finish, Goto
<1>2. (call \in [Threads -> CallRecord])'
  BY ThreadAssumption, BoundAssumption, ValueAssumption DEF TypeOK, WriteReturn, Finish, Goto, NoCall, CallRecord
<1>3. (dst \in [Threads -> [0 .. UniverseLength -> Values]])'
  BY ThreadAssumption, BoundAssumption, ValueAssumption DEF TypeOK, WriteReturn, Finish, Goto, Blank
<1>4. (pc \in [Threads -> Labels])'
  BY ThreadAssumption, BoundAssumption, ValueAssumption DEF TypeOK, WriteReturn, Finish, Goto, Labels, Goto
<1>5. /\ (universes \in SUBSET Addresses)'
      /\ (assigning \in BOOLEAN)'
      /\ (buffer \in [{"a", "b"} -> Vectors])'
      /\ (current \in {"a", "b"})'
      /\ (rebuild \in [new : SUBSET Addresses, todo : SUBSET Addresses])'
      /\ (calls \in 0 .. MaxCalls)'
      /\ (crashed \in BOOLEAN)'
  BY Zenon DEF TypeOK, WriteReturn, Finish, Goto, shared, mutexes
<1> QED
  BY <1>1, <1>2, <1>3, <1>4, <1>5, Zenon DEF TypeOK

LEMMA ReadRefusedType == ASSUME TypeOK, NEW t \in Threads, ReadRefused(t) PROVE TypeOK'
<1>1. (calls \in 0 .. MaxCalls)'
  BY ThreadAssumption, BoundAssumption, ValueAssumption DEF TypeOK, ReadRefused, Enter
<1>2. /\ (universes \in SUBSET Addresses)'
      /\ (assigning \in BOOLEAN)'
      /\ (buffer \in [{"a", "b"} -> Vectors])'
      /\ (current \in {"a", "b"})'
      /\ (mutex_read \in Threads \cup {NoThread} /\ mutex_write \in Threads \cup {NoThread})'
      /\ (pc \in [Threads -> Labels])'
      /\ (call \in [Threads -> CallRecord])'
      /\ (dst \in [Threads -> [0 .. UniverseLength -> Values]])'
      /\ (rebuild \in [new : SUBSET Addresses, todo : SUBSET Addresses])'
      /\ (crashed \in BOOLEAN)'
  BY Zenon DEF TypeOK, ReadRefused, Enter, shared, mutexes
<1> QED
  BY <1>1, <1>2, Zenon DEF TypeOK

LEMMA ReadFindType == ASSUME TypeOK, NEW t \in Threads, ReadFind(t) PROVE TypeOK'
<1>1. (calls \in 0 .. MaxCalls)'
  BY ThreadAssumption, BoundAssumption, ValueAssumption DEF TypeOK, ReadFind, Enter, LookUp
<1>2. (call \in [Threads -> CallRecord])'
  BY LookUpType, ValueAssumption DEF ReadFind
<1>3. (pc \in [Threads -> Labels])'
  BY ThreadAssumption, BoundAssumption, ValueAssumption DEF TypeOK, ReadFind, Enter, LookUp, Labels, Goto
<1>4. /\ (universes \in SUBSET Addresses)'
      /\ (assigning \in BOOLEAN)'
      /\ (buffer \in [{"a", "b"} -> Vectors])'
      /\ (current \in {"a", "b"})'
      /\ (mutex_read \in Threads \cup {NoThread} /\ mutex_write \in Threads \cup {NoThread})'
      /\ (dst \in [Threads -> [0 .. UniverseLength -> Values]])'
      /\ (rebuild \in [new : SUBSET Addresses, todo : SUBSET Addresses])'
      /\ (crashed \in BOOLEAN)'
  BY Zenon DEF TypeOK, ReadFind, Enter, LookUp, shared, mutexes
<1> QED
  BY <1>1, <1>2, <1>3, <1>4, Zenon DEF TypeOK

LEMMA ReadLockType == ASSUME TypeOK, NEW t \in Threads, ReadLock(t) PROVE TypeOK'
<1>1. (mutex_read \in Threads \cup {NoThread} /\ mutex_write \in Threads \cup {NoThread})'
  BY ThreadAssumption, BoundAssumption, ValueAssumption DEF TypeOK, ReadLock, Dereference, Goto
<1>2. (call \in [Threads -> CallRecord])'
  BY DereferenceType DEF ReadLock
<1>3. (pc \in [Threads -> Labels])'
  BY ThreadAssumption, BoundAssumption, ValueAssumption DEF TypeOK, ReadLock, Dereference, Goto, Labels, Goto
<1>4. /\ (universes \in SUBSET Addresses)'
      /\ (assigning \in BOOLEAN)'
      /\ (buffer \in [{"a", "b"} -> Vectors])'
      /\ (current \in {"a", "b"})'
      /\ (dst \in [Threads -> [0 .. UniverseLength -> Values]])'
      /\ (rebuild \in [new : SUBSET Addresses, todo : SUBSET Addresses])'
      /\ (calls \in 0 .. MaxCalls)'
      /\ (crashed \in BOOLEAN)'
  BY Zenon DEF TypeOK, ReadLock, Dereference, Goto, shared, mutexes
<1> QED
  BY <1>1, <1>2, <1>3, <1>4, Zenon DEF TypeOK

LEMMA ReadCopyType == ASSUME TypeOK, NEW t \in Threads, ReadCopy(t) PROVE TypeOK'
<1>1. (call \in [Threads -> CallRecord])'
  BY AdvanceType DEF ReadCopy
<1>2. (dst \in [Threads -> [0 .. UniverseLength -> Values]])'
  <2>1. buffer[current] \in Vectors
    BY DEF TypeOK
  <2>2. \A a \in DOMAIN CurrentVector : CurrentVector[a] \in Values
    BY <2>1 DEF Vectors, CurrentVector
  <2>3. dst \in [Threads -> [0 .. UniverseLength -> Values]]
    BY DEF TypeOK
  <2>4. PICK value \in Values : dst' = [dst EXCEPT ![t][call[t].k] = value]
    BY <2>2 DEF ReadCopy
  <2> QED
    BY <2>3, <2>4
<1>3. (crashed \in BOOLEAN)'
  BY Zenon DEF TypeOK, ReadCopy, Advance
<1>4. /\ (universes \in SUBSET Addresses)'
      /\ (assigning \in BOOLEAN)'
      /\ (buffer \in [{"a", "b"} -> Vectors])'
      /\ (current \in {"a", "b"})'
      /\ (mutex_read \in Threads \cup {NoThread} /\ mutex_write \in Threads \cup {NoThread})'
      /\ (pc \in [Threads -> Labels])'
      /\ (rebuild \in [new : SUBSET Addresses, todo : SUBSET Addresses])'
      /\ (calls \in 0 .. MaxCalls)'
  BY Zenon DEF TypeOK, ReadCopy, Advance, shared, mutexes
<1> QED
  BY <1>1, <1>2, <1>3, <1>4, Zenon DEF TypeOK

LEMMA ReadReturnType == ASSUME TypeOK, NEW t \in Threads, ReadReturn(t) PROVE TypeOK'
<1>1. (mutex_read \in Threads \cup {NoThread} /\ mutex_write \in Threads \cup {NoThread})'
  BY ThreadAssumption, BoundAssumption, ValueAssumption DEF TypeOK, ReadReturn, Finish, Goto
<1>2. (call \in [Threads -> CallRecord])'
  BY ThreadAssumption, BoundAssumption, ValueAssumption DEF TypeOK, ReadReturn, Finish, Goto, NoCall, CallRecord
<1>3. (dst \in [Threads -> [0 .. UniverseLength -> Values]])'
  BY ThreadAssumption, BoundAssumption, ValueAssumption DEF TypeOK, ReadReturn, Finish, Goto, Blank
<1>4. (pc \in [Threads -> Labels])'
  BY ThreadAssumption, BoundAssumption, ValueAssumption DEF TypeOK, ReadReturn, Finish, Goto, Labels, Goto
<1>5. /\ (universes \in SUBSET Addresses)'
      /\ (assigning \in BOOLEAN)'
      /\ (buffer \in [{"a", "b"} -> Vectors])'
      /\ (current \in {"a", "b"})'
      /\ (rebuild \in [new : SUBSET Addresses, todo : SUBSET Addresses])'
      /\ (calls \in 0 .. MaxCalls)'
      /\ (crashed \in BOOLEAN)'
  BY Zenon DEF TypeOK, ReadReturn, Finish, Goto, shared, mutexes
<1> QED
  BY <1>1, <1>2, <1>3, <1>4, <1>5, Zenon DEF TypeOK

LEMMA RacingFindType == ASSUME TypeOK, NEW t \in Threads, RacingFind(t) PROVE TypeOK'
<1>1. (calls \in 0 .. MaxCalls)'
  BY ThreadAssumption, BoundAssumption, ValueAssumption DEF TypeOK, RacingFind, Enter
<1>2. (crashed \in BOOLEAN)'
  BY Zenon DEF TypeOK, RacingFind, Enter
<1>3. /\ (universes \in SUBSET Addresses)'
      /\ (assigning \in BOOLEAN)'
      /\ (buffer \in [{"a", "b"} -> Vectors])'
      /\ (current \in {"a", "b"})'
      /\ (mutex_read \in Threads \cup {NoThread} /\ mutex_write \in Threads \cup {NoThread})'
      /\ (pc \in [Threads -> Labels])'
      /\ (call \in [Threads -> CallRecord])'
      /\ (dst \in [Threads -> [0 .. UniverseLength -> Values]])'
      /\ (rebuild \in [new : SUBSET Addresses, todo : SUBSET Addresses])'
  BY Zenon DEF TypeOK, RacingFind, Enter, shared, mutexes
<1> QED
  BY <1>1, <1>2, <1>3, Zenon DEF TypeOK

LEMMA SwapCallType == ASSUME TypeOK, NEW t \in Threads, SwapCall(t) PROVE TypeOK'
<1>1. (calls \in 0 .. MaxCalls)'
  BY ThreadAssumption, BoundAssumption, ValueAssumption DEF TypeOK, SwapCall, Enter, Goto
<1>2. (pc \in [Threads -> Labels])'
  BY ThreadAssumption, BoundAssumption, ValueAssumption DEF TypeOK, SwapCall, Enter, Goto, Labels, Goto
<1>3. /\ (universes \in SUBSET Addresses)'
      /\ (assigning \in BOOLEAN)'
      /\ (buffer \in [{"a", "b"} -> Vectors])'
      /\ (current \in {"a", "b"})'
      /\ (mutex_read \in Threads \cup {NoThread} /\ mutex_write \in Threads \cup {NoThread})'
      /\ (call \in [Threads -> CallRecord])'
      /\ (dst \in [Threads -> [0 .. UniverseLength -> Values]])'
      /\ (rebuild \in [new : SUBSET Addresses, todo : SUBSET Addresses])'
      /\ (crashed \in BOOLEAN)'
  BY Zenon DEF TypeOK, SwapCall, Enter, Goto, shared, mutexes
<1> QED
  BY <1>1, <1>2, <1>3, Zenon DEF TypeOK

LEMMA SwapLockType == ASSUME TypeOK, NEW t \in Threads, SwapLock(t) PROVE TypeOK'
<1>1. (mutex_read \in Threads \cup {NoThread} /\ mutex_write \in Threads \cup {NoThread})'
  BY ThreadAssumption, BoundAssumption, ValueAssumption DEF TypeOK, SwapLock, LockBoth, Goto
<1>2. (pc \in [Threads -> Labels])'
  BY ThreadAssumption, BoundAssumption, ValueAssumption DEF TypeOK, SwapLock, LockBoth, Goto, Labels, Goto
<1>3. /\ (universes \in SUBSET Addresses)'
      /\ (assigning \in BOOLEAN)'
      /\ (buffer \in [{"a", "b"} -> Vectors])'
      /\ (current \in {"a", "b"})'
      /\ (call \in [Threads -> CallRecord])'
      /\ (dst \in [Threads -> [0 .. UniverseLength -> Values]])'
      /\ (rebuild \in [new : SUBSET Addresses, todo : SUBSET Addresses])'
      /\ (calls \in 0 .. MaxCalls)'
      /\ (crashed \in BOOLEAN)'
  BY Zenon DEF TypeOK, SwapLock, LockBoth, Goto, shared, mutexes
<1> QED
  BY <1>1, <1>2, <1>3, Zenon DEF TypeOK

LEMMA SwapPointersType == ASSUME TypeOK, NEW t \in Threads, SwapPointers(t) PROVE TypeOK'
<1>1. (current \in {"a", "b"})'
  BY ThreadAssumption, BoundAssumption, ValueAssumption DEF TypeOK, SwapPointers, Goto, next
<1>2. (pc \in [Threads -> Labels])'
  BY ThreadAssumption, BoundAssumption, ValueAssumption DEF TypeOK, SwapPointers, Goto, Labels, Goto
<1>3. /\ (universes \in SUBSET Addresses)'
      /\ (assigning \in BOOLEAN)'
      /\ (buffer \in [{"a", "b"} -> Vectors])'
      /\ (mutex_read \in Threads \cup {NoThread} /\ mutex_write \in Threads \cup {NoThread})'
      /\ (call \in [Threads -> CallRecord])'
      /\ (dst \in [Threads -> [0 .. UniverseLength -> Values]])'
      /\ (rebuild \in [new : SUBSET Addresses, todo : SUBSET Addresses])'
      /\ (calls \in 0 .. MaxCalls)'
      /\ (crashed \in BOOLEAN)'
  BY Zenon DEF TypeOK, SwapPointers, Goto, shared, mutexes
<1> QED
  BY <1>1, <1>2, <1>3, Zenon DEF TypeOK

LEMMA SwapCopyType == ASSUME TypeOK, NEW t \in Threads, SwapCopy(t) PROVE TypeOK'
<1>1. (buffer \in [{"a", "b"} -> Vectors])'
  BY DEF TypeOK, SwapCopy, CurrentVector
<1>2. (mutex_read \in Threads \cup {NoThread} /\ mutex_write \in Threads \cup {NoThread})'
  BY ThreadAssumption, BoundAssumption, ValueAssumption DEF TypeOK, SwapCopy, UnlockBoth, Goto
<1>3. (pc \in [Threads -> Labels])'
  BY ThreadAssumption, BoundAssumption, ValueAssumption DEF TypeOK, SwapCopy, UnlockBoth, Goto, Labels, Goto
<1>4. /\ (universes \in SUBSET Addresses)'
      /\ (assigning \in BOOLEAN)'
      /\ (current \in {"a", "b"})'
      /\ (call \in [Threads -> CallRecord])'
      /\ (dst \in [Threads -> [0 .. UniverseLength -> Values]])'
      /\ (rebuild \in [new : SUBSET Addresses, todo : SUBSET Addresses])'
      /\ (calls \in 0 .. MaxCalls)'
      /\ (crashed \in BOOLEAN)'
  BY Zenon DEF TypeOK, SwapCopy, UnlockBoth, Goto, shared, mutexes
<1> QED
  BY <1>1, <1>2, <1>3, <1>4, Zenon DEF TypeOK

LEMMA ResizeCallType == ASSUME TypeOK, NEW t \in Threads, ResizeCall(t) PROVE TypeOK'
<1>1. (calls \in 0 .. MaxCalls)'
  BY ThreadAssumption, BoundAssumption, ValueAssumption DEF TypeOK, ResizeCall, Enter, Goto
<1>2. (pc \in [Threads -> Labels])'
  BY ThreadAssumption, BoundAssumption, ValueAssumption DEF TypeOK, ResizeCall, Enter, Goto, Labels, Goto
<1>3. /\ (universes \in SUBSET Addresses)'
      /\ (assigning \in BOOLEAN)'
      /\ (buffer \in [{"a", "b"} -> Vectors])'
      /\ (current \in {"a", "b"})'
      /\ (mutex_read \in Threads \cup {NoThread} /\ mutex_write \in Threads \cup {NoThread})'
      /\ (call \in [Threads -> CallRecord])'
      /\ (dst \in [Threads -> [0 .. UniverseLength -> Values]])'
      /\ (rebuild \in [new : SUBSET Addresses, todo : SUBSET Addresses])'
      /\ (crashed \in BOOLEAN)'
  BY Zenon DEF TypeOK, ResizeCall, Enter, Goto, shared, mutexes
<1> QED
  BY <1>1, <1>2, <1>3, Zenon DEF TypeOK

LEMMA ResizeLockType == ASSUME TypeOK, NEW t \in Threads, ResizeLock(t) PROVE TypeOK'
<1>1. (mutex_read \in Threads \cup {NoThread} /\ mutex_write \in Threads \cup {NoThread})'
  BY ThreadAssumption, BoundAssumption, ValueAssumption DEF TypeOK, ResizeLock, LockBoth, Goto
<1>2. (rebuild \in [new : SUBSET Addresses, todo : SUBSET Addresses])'
  BY ThreadAssumption, BoundAssumption, ValueAssumption DEF TypeOK, ResizeLock, LockBoth, Goto, NoRebuild
<1>3. (buffer \in [{"a", "b"} -> Vectors])'
  <2>1. PICK S \in SUBSET Addresses : buffer' = [buffer EXCEPT ![next] = Resized(buffer[next], Size(S))]
    BY DEF ResizeLock
  <2>2. buffer \in [{"a", "b"} -> Vectors] /\ next \in {"a", "b"}
    BY DEF TypeOK, next
  <2>3. Resized(buffer[next], Size(S)) \in Vectors
    BY <2>2, ResizedIsVector
  <2> QED
    BY <2>1, <2>2, <2>3
<1>4. (pc \in [Threads -> Labels])'
  BY ThreadAssumption, BoundAssumption, ValueAssumption DEF TypeOK, ResizeLock, LockBoth, Goto, Labels, Goto
<1>5. /\ (universes \in SUBSET Addresses)'
      /\ (assigning \in BOOLEAN)'
      /\ (current \in {"a", "b"})'
      /\ (call \in [Threads -> CallRecord])'
      /\ (dst \in [Threads -> [0 .. UniverseLength -> Values]])'
      /\ (calls \in 0 .. MaxCalls)'
      /\ (crashed \in BOOLEAN)'
  BY Zenon DEF TypeOK, ResizeLock, LockBoth, Goto, shared, mutexes
<1> QED
  BY <1>1, <1>2, <1>3, <1>4, <1>5, Zenon DEF TypeOK

LEMMA ResizeUniverseType == ASSUME TypeOK, RebuildFits, NEW t \in Threads, ResizeUniverse(t) PROVE TypeOK'
<1>1. (rebuild \in [new : SUBSET Addresses, todo : SUBSET Addresses])'
  BY ThreadAssumption, BoundAssumption, ValueAssumption DEF TypeOK, ResizeUniverse, KeepUniverse, ClearUniverse, NoRebuild
<1>2. (buffer \in [{"a", "b"} -> Vectors])'
  <2>1. PICK u \in rebuild.todo : (u \in universes /\ KeepUniverse(u)) \/ ClearUniverse
    BY DEF ResizeUniverse
  <2>2. next \in {"a", "b"} /\ buffer \in [{"a", "b"} -> Vectors]
    BY DEF TypeOK, next
  <2>3. \A b \in {"a", "b"} : \A a \in DOMAIN buffer[b] : buffer[b][a] \in Values
    BY <2>2 DEF Vectors
  <2>4. CASE buffer' = buffer
    BY <2>2, <2>4
  <2>5. CASE \E i \in StrayOffsets :
               buffer' = [buffer EXCEPT ![next] =
                 [a \in DOMAIN @ |-> IF a \in i .. i + UniverseLength - 1 THEN 0 ELSE @[a]]]
    <3>1. PICK i \in StrayOffsets :
               buffer' = [buffer EXCEPT ![next] =
                 [a \in DOMAIN @ |-> IF a \in i .. i + UniverseLength - 1 THEN 0 ELSE @[a]]]
      BY <2>5
    <3> DEFINE g == [a \in DOMAIN buffer[next] |->
                      IF a \in i .. i + UniverseLength - 1 THEN 0 ELSE buffer[next][a]]
    <3>2. \A a \in DOMAIN buffer[next] : g[a] \in Values
      BY <2>2, <2>3, ValueAssumption
    <3>3. g \in Vectors
      BY <2>2, <3>2, VectorEdit
    <3> QED
      BY <2>2, <3>1, <3>3
  <2>6. CASE u \in universes /\ KeepUniverse(u) /\ buffer' # buffer
    <3> DEFINE i == Base(rebuild.new, u) + UniverseLength
               old == Base(universes, u)
               g == [a \in DOMAIN buffer[next] |->
                      IF a \in i .. i + UniverseLength - 1
                      THEN CurrentVector[old + (a - i)] ELSE buffer[next][a]]
    <3>1. buffer' = [buffer EXCEPT ![next] = g]
      BY <2>6 DEF KeepUniverse
    <3>2. i \in Nat /\ old \in Nat /\ UniverseLength \in Nat
      <4>1. universes \in SUBSET Addresses /\ rebuild.new \in SUBSET Addresses
        BY DEF TypeOK
      <4>2. Base(rebuild.new, u) \in Nat /\ Base(universes, u) \in Nat
        BY <4>1, LayoutType
      <4> QED
        BY <4>2, LengthAssumption
    <3>3. old + UniverseLength <= Size(universes) /\ Size(universes) \in Nat
      BY <2>6, RegionFits, LayoutType DEF TypeOK
    <3>4. DOMAIN CurrentVector = Offsets(Size(universes))
      BY DEF RebuildFits, ResizeUniverse, CurrentVector
    <3>5. \A a \in DOMAIN CurrentVector : CurrentVector[a] \in Values
      BY <2>3 DEF TypeOK, CurrentVector
    <3> HIDE DEF i, old
    <3>6. \A a \in i .. i + UniverseLength - 1 : CurrentVector[old + (a - i)] \in Values
      BY <3>2, <3>3, <3>4, <3>5 DEF Offsets
    <3>7. \A a \in DOMAIN buffer[next] : g[a] \in Values
      BY <2>2, <2>3, <3>6
    <3>8. g \in Vectors
      BY <2>2, <3>7, VectorEdit
    <3> QED
      BY <2>2, <3>1, <3>8
  <2> QED
    BY <2>1, <2>4, <2>5, <2>6 DEF ClearUniverse
<1>3. (crashed \in BOOLEAN)'
  BY Zenon DEF TypeOK, ResizeUniverse, KeepUniverse, ClearUniverse
<1>4. /\ (universes \in SUBSET Addresses)'
      /\ (assigning \in BOOLEAN)'
      /\ (current \in {"a", "b"})'
      /\ (mutex_read \in Threads \cup {NoThread} /\ mutex_write \in Threads \cup {NoThread})'
      /\ (pc \in [Threads -> Labels])'
      /\ (call \in [Threads -> CallRecord])'
      /\ (dst \in [Threads -> [0 .. UniverseLength -> Values]])'
      /\ (calls \in 0 .. MaxCalls)'
  BY Zenon DEF TypeOK, ResizeUniverse, KeepUniverse, ClearUniverse, shared, mutexes
<1> QED
  BY <1>1, <1>2, <1>3, <1>4, Zenon DEF TypeOK

LEMMA ResizeCopyType == ASSUME TypeOK, NEW t \in Threads, ResizeCopy(t) PROVE TypeOK'
<1>1. (buffer \in [{"a", "b"} -> Vectors])'
  BY DEF TypeOK, ResizeCopy, NextVector, next
<1>2. (pc \in [Threads -> Labels])'
  BY ThreadAssumption, BoundAssumption, ValueAssumption DEF TypeOK, ResizeCopy, Goto, Labels, Goto
<1>3. /\ (universes \in SUBSET Addresses)'
      /\ (assigning \in BOOLEAN)'
      /\ (current \in {"a", "b"})'
      /\ (mutex_read \in Threads \cup {NoThread} /\ mutex_write \in Threads \cup {NoThread})'
      /\ (call \in [Threads -> CallRecord])'
      /\ (dst \in [Threads -> [0 .. UniverseLength -> Values]])'
      /\ (rebuild \in [new : SUBSET Addresses, todo : SUBSET Addresses])'
      /\ (calls \in 0 .. MaxCalls)'
      /\ (crashed \in BOOLEAN)'
  BY Zenon DEF TypeOK, ResizeCopy, Goto, shared, mutexes
<1> QED
  BY <1>1, <1>2, <1>3, Zenon DEF TypeOK

LEMMA ResizeAssignType == ASSUME TypeOK, NEW t \in Threads, ResizeAssign(t) PROVE TypeOK'
<1>1. (assigning \in BOOLEAN)'
  BY Zenon DEF TypeOK, ResizeAssign, Goto
<1>2. (call \in [Threads -> CallRecord])'
  <2>1. call \in [Threads -> CallRecord]
    BY DEF TypeOK
  <2>2. \A r \in CallRecord : [r EXCEPT !.stale = TRUE] \in CallRecord
    BY CallEdit
  <2> QED
    BY <2>1, <2>2 DEF ResizeAssign
<1>3. (pc \in [Threads -> Labels])'
  BY ThreadAssumption, BoundAssumption, ValueAssumption DEF TypeOK, ResizeAssign, Goto, Labels, Goto
<1>4. /\ (universes \in SUBSET Addresses)'
      /\ (buffer \in [{"a", "b"} -> Vectors])'
      /\ (current \in {"a", "b"})'
      /\ (mutex_read \in Threads \cup {NoThread} /\ mutex_write \in Threads \cup {NoThread})'
      /\ (dst \in [Threads -> [0 .. UniverseLength -> Values]])'
      /\ (rebuild \in [new : SUBSET Addresses, todo : SUBSET Addresses])'
      /\ (calls \in 0 .. MaxCalls)'
      /\ (crashed \in BOOLEAN)'
  BY Zenon DEF TypeOK, ResizeAssign, Goto, shared, mutexes
<1> QED
  BY <1>1, <1>2, <1>3, <1>4, Zenon DEF TypeOK

LEMMA ResizeReturnType == ASSUME TypeOK, NEW t \in Threads, ResizeReturn(t) PROVE TypeOK'
<1>1. (universes \in SUBSET Addresses)'
  BY ThreadAssumption, BoundAssumption, ValueAssumption DEF TypeOK, ResizeReturn, UnlockBoth, Goto
<1>2. (assigning \in BOOLEAN)'
  BY Zenon DEF TypeOK, ResizeReturn, UnlockBoth, Goto
<1>3. (rebuild \in [new : SUBSET Addresses, todo : SUBSET Addresses])'
  BY ThreadAssumption, BoundAssumption, ValueAssumption DEF TypeOK, ResizeReturn, UnlockBoth, Goto, NoRebuild
<1>4. (mutex_read \in Threads \cup {NoThread} /\ mutex_write \in Threads \cup {NoThread})'
  BY ThreadAssumption, BoundAssumption, ValueAssumption DEF TypeOK, ResizeReturn, UnlockBoth, Goto
<1>5. (pc \in [Threads -> Labels])'
  BY ThreadAssumption, BoundAssumption, ValueAssumption DEF TypeOK, ResizeReturn, UnlockBoth, Goto, Labels, Goto
<1>6. /\ (buffer \in [{"a", "b"} -> Vectors])'
      /\ (current \in {"a", "b"})'
      /\ (call \in [Threads -> CallRecord])'
      /\ (dst \in [Threads -> [0 .. UniverseLength -> Values]])'
      /\ (calls \in 0 .. MaxCalls)'
      /\ (crashed \in BOOLEAN)'
  BY Zenon DEF TypeOK, ResizeReturn, UnlockBoth, Goto, shared, mutexes
<1> QED
  BY <1>1, <1>2, <1>3, <1>4, <1>5, <1>6, Zenon DEF TypeOK

------------------------------------------------------------------------------
(* Every step keeps the invariant                                          *)

\* Iterators are kept when the map is and their holders are.
LEMMA FreshKept ==
    ASSUME FreshIterators, UNCHANGED <<universes, call>>,
           \A s \in Threads : pc'[s] \in Iterating => pc'[s] = pc[s]
    PROVE  FreshIterators'
BY Zenon DEF FreshIterators

LEMMA WriteAbsentKeeps == ASSUME IInv, NEW t \in Threads, WriteAbsent(t) PROVE IInv'
<1> USE DEF IInv
<1>1. TypeOK'
  BY WriteAbsentType
<1>2. LocksHeld'
  BY ThreadAssumption DEF TypeOK, LocksHeld, WriteAbsent, Enter, shared, mutexes, WriteHolders, ReadHolders
<1>3. VectorsFitLayout'
  BY ThreadAssumption DEF TypeOK, VectorsFitLayout, WriteAbsent, Enter, shared, mutexes, LocksHeld, WriteHolders, Resizing, next
<1>4. RebuildFits'
  BY ThreadAssumption DEF TypeOK, RebuildFits, WriteAbsent, Enter, shared, mutexes, VectorsFitLayout, LocksHeld, WriteHolders, Resizing, next
<1>5. AssignMarks'
  BY ThreadAssumption DEF TypeOK, AssignMarks, WriteAbsent, Enter, shared, mutexes, LocksHeld, WriteHolders, HoldsIterator
<1>6. FreshIterators'
  BY FreshKept, Zenon DEF WriteAbsent, shared
<1> QED
  BY <1>1, <1>2, <1>3, <1>4, <1>5, <1>6

LEMMA WriteFindKeeps == ASSUME IInv, NEW t \in Threads, WriteFind(t) PROVE IInv'
<1> USE DEF IInv
<1>1. TypeOK'
  BY WriteFindType
<1>2. LocksHeld'
  BY ThreadAssumption DEF TypeOK, LocksHeld, WriteFind, Enter, LookUp, Found, Goto, shared, mutexes, WriteHolders, ReadHolders
<1>3. VectorsFitLayout'
  BY ThreadAssumption DEF TypeOK, VectorsFitLayout, WriteFind, Enter, LookUp, Found, Goto, shared, mutexes, LocksHeld, WriteHolders, Resizing, next
<1>4. RebuildFits'
  BY ThreadAssumption DEF TypeOK, RebuildFits, WriteFind, Enter, LookUp, Found, Goto, shared, mutexes, VectorsFitLayout, LocksHeld, WriteHolders, Resizing, next
<1>5. AssignMarks'
  BY ThreadAssumption DEF TypeOK, AssignMarks, WriteFind, Enter, LookUp, Found, Goto, shared, mutexes, LocksHeld, WriteHolders, HoldsIterator
<1>6. FreshIterators'
  BY ThreadAssumption DEF TypeOK, FreshIterators, WriteFind, Enter, LookUp, Found, Goto, shared, mutexes, AssignMarks, LocksHeld, WriteHolders, ReadHolders, HoldsIterator, Iterating
<1> QED
  BY <1>1, <1>2, <1>3, <1>4, <1>5, <1>6

LEMMA WriteLockKeeps == ASSUME IInv, NEW t \in Threads, WriteLock(t) PROVE IInv'
<1> USE DEF IInv
<1>1. TypeOK'
  BY WriteLockType
<1>2. LocksHeld'
  BY ThreadAssumption DEF TypeOK, LocksHeld, WriteLock, Dereference, Goto, shared, mutexes, WriteHolders, ReadHolders
<1>3. VectorsFitLayout'
  BY ThreadAssumption DEF TypeOK, VectorsFitLayout, WriteLock, Dereference, Goto, shared, mutexes, LocksHeld, WriteHolders, Resizing, next
<1>4. RebuildFits'
  BY ThreadAssumption DEF TypeOK, RebuildFits, WriteLock, Dereference, Goto, shared, mutexes, VectorsFitLayout, LocksHeld, WriteHolders, Resizing, next
<1>5. AssignMarks'
  BY ThreadAssumption DEF TypeOK, AssignMarks, WriteLock, Dereference, Goto, shared, mutexes, LocksHeld, WriteHolders, HoldsIterator
<1>6. FreshIterators'
  BY ThreadAssumption DEF TypeOK, FreshIterators, WriteLock, Dereference, Goto, shared, mutexes, AssignMarks, LocksHeld, WriteHolders, ReadHolders, HoldsIterator, Iterating
<1> QED
  BY <1>1, <1>2, <1>3, <1>4, <1>5, <1>6

LEMMA WriteCopyKeeps == ASSUME IInv, NEW t \in Threads, WriteCopy(t) PROVE IInv'
<1> USE DEF IInv
<1>1. TypeOK'
  BY WriteCopyType
<1>2. LocksHeld'
  BY ThreadAssumption DEF TypeOK, LocksHeld, WriteCopy, Advance, Undefined, Target, shared, mutexes, WriteHolders, ReadHolders
<1>3. VectorsFitLayout'
  BY ThreadAssumption DEF TypeOK, VectorsFitLayout, WriteCopy, Advance, Undefined, Target, shared, mutexes, LocksHeld, WriteHolders, Resizing, next
<1>4. RebuildFits'
  BY ThreadAssumption DEF TypeOK, RebuildFits, WriteCopy, Advance, Undefined, Target, shared, mutexes, VectorsFitLayout, LocksHeld, WriteHolders, Resizing, next
<1>5. AssignMarks'
  BY ThreadAssumption DEF TypeOK, AssignMarks, WriteCopy, Advance, Undefined, Target, shared, mutexes, LocksHeld, WriteHolders, HoldsIterator
<1>6. FreshIterators'
  BY ThreadAssumption DEF TypeOK, FreshIterators, WriteCopy, Advance, Undefined, Target, shared, mutexes, AssignMarks, LocksHeld, WriteHolders, ReadHolders, HoldsIterator, Iterating
<1> QED
  BY <1>1, <1>2, <1>3, <1>4, <1>5, <1>6

LEMMA WriteReturnKeeps == ASSUME IInv, NEW t \in Threads, WriteReturn(t) PROVE IInv'
<1> USE DEF IInv
<1>1. TypeOK'
  BY WriteReturnType
<1>2. LocksHeld'
  BY ThreadAssumption DEF TypeOK, LocksHeld, WriteReturn, Finish, Goto, NoCall, Blank, shared, mutexes, WriteHolders, ReadHolders
<1>3. VectorsFitLayout'
  BY ThreadAssumption DEF TypeOK, VectorsFitLayout, WriteReturn, Finish, Goto, NoCall, Blank, shared, mutexes, LocksHeld, WriteHolders, Resizing, next
<1>4. RebuildFits'
  BY ThreadAssumption DEF TypeOK, RebuildFits, WriteReturn, Finish, Goto, NoCall, Blank, shared, mutexes, VectorsFitLayout, LocksHeld, WriteHolders, Resizing, next
<1>5. AssignMarks'
  BY ThreadAssumption DEF TypeOK, AssignMarks, WriteReturn, Finish, Goto, NoCall, Blank, shared, mutexes, LocksHeld, WriteHolders, HoldsIterator
<1>6. FreshIterators'
  BY ThreadAssumption DEF TypeOK, FreshIterators, WriteReturn, Finish, Goto, NoCall, Blank, shared, mutexes, AssignMarks, LocksHeld, WriteHolders, ReadHolders, HoldsIterator, Iterating
<1> QED
  BY <1>1, <1>2, <1>3, <1>4, <1>5, <1>6

LEMMA ReadRefusedKeeps == ASSUME IInv, NEW t \in Threads, ReadRefused(t) PROVE IInv'
<1> USE DEF IInv
<1>1. TypeOK'
  BY ReadRefusedType
<1>2. LocksHeld'
  BY ThreadAssumption DEF TypeOK, LocksHeld, ReadRefused, Enter, shared, mutexes, WriteHolders, ReadHolders
<1>3. VectorsFitLayout'
  BY ThreadAssumption DEF TypeOK, VectorsFitLayout, ReadRefused, Enter, shared, mutexes, LocksHeld, WriteHolders, Resizing, next
<1>4. RebuildFits'
  BY ThreadAssumption DEF TypeOK, RebuildFits, ReadRefused, Enter, shared, mutexes, VectorsFitLayout, LocksHeld, WriteHolders, Resizing, next
<1>5. AssignMarks'
  BY ThreadAssumption DEF TypeOK, AssignMarks, ReadRefused, Enter, shared, mutexes, LocksHeld, WriteHolders, HoldsIterator
<1>6. FreshIterators'
  BY FreshKept, Zenon DEF ReadRefused, shared
<1> QED
  BY <1>1, <1>2, <1>3, <1>4, <1>5, <1>6

LEMMA ReadFindKeeps == ASSUME IInv, NEW t \in Threads, ReadFind(t) PROVE IInv'
<1> USE DEF IInv
<1>1. TypeOK'
  BY ReadFindType
<1>2. LocksHeld'
  BY ThreadAssumption DEF TypeOK, LocksHeld, ReadFind, Enter, LookUp, Found, Goto, shared, mutexes, WriteHolders, ReadHolders
<1>3. VectorsFitLayout'
  BY ThreadAssumption DEF TypeOK, VectorsFitLayout, ReadFind, Enter, LookUp, Found, Goto, shared, mutexes, LocksHeld, WriteHolders, Resizing, next
<1>4. RebuildFits'
  BY ThreadAssumption DEF TypeOK, RebuildFits, ReadFind, Enter, LookUp, Found, Goto, shared, mutexes, VectorsFitLayout, LocksHeld, WriteHolders, Resizing, next
<1>5. AssignMarks'
  BY ThreadAssumption DEF TypeOK, AssignMarks, ReadFind, Enter, LookUp, Found, Goto, shared, mutexes, LocksHeld, WriteHolders, HoldsIterator
<1>6. FreshIterators'
  BY ThreadAssumption DEF TypeOK, FreshIterators, ReadFind, Enter, LookUp, Found, Goto, shared, mutexes, AssignMarks, LocksHeld, WriteHolders, ReadHolders, HoldsIterator, Iterating
<1> QED
  BY <1>1, <1>2, <1>3, <1>4, <1>5, <1>6

LEMMA ReadLockKeeps == ASSUME IInv, NEW t \in Threads, ReadLock(t) PROVE IInv'
<1> USE DEF IInv
<1>1. TypeOK'
  BY ReadLockType
<1>2. LocksHeld'
  BY ThreadAssumption DEF TypeOK, LocksHeld, ReadLock, Dereference, Goto, shared, mutexes, WriteHolders, ReadHolders
<1>3. VectorsFitLayout'
  BY ThreadAssumption DEF TypeOK, VectorsFitLayout, ReadLock, Dereference, Goto, shared, mutexes, LocksHeld, WriteHolders, Resizing, next
<1>4. RebuildFits'
  BY ThreadAssumption DEF TypeOK, RebuildFits, ReadLock, Dereference, Goto, shared, mutexes, VectorsFitLayout, LocksHeld, WriteHolders, Resizing, next
<1>5. AssignMarks'
  BY ThreadAssumption DEF TypeOK, AssignMarks, ReadLock, Dereference, Goto, shared, mutexes, LocksHeld, WriteHolders, HoldsIterator
<1>6. FreshIterators'
  BY ThreadAssumption DEF TypeOK, FreshIterators, ReadLock, Dereference, Goto, shared, mutexes, AssignMarks, LocksHeld, WriteHolders, ReadHolders, HoldsIterator, Iterating
<1> QED
  BY <1>1, <1>2, <1>3, <1>4, <1>5, <1>6

LEMMA ReadCopyKeeps == ASSUME IInv, NEW t \in Threads, ReadCopy(t) PROVE IInv'
<1> USE DEF IInv
<1>1. TypeOK'
  BY ReadCopyType
<1>2. LocksHeld'
  BY ThreadAssumption DEF TypeOK, LocksHeld, ReadCopy, Advance, Target, shared, mutexes, WriteHolders, ReadHolders
<1>3. VectorsFitLayout'
  BY ThreadAssumption DEF TypeOK, VectorsFitLayout, ReadCopy, Advance, Target, shared, mutexes, LocksHeld, WriteHolders, Resizing, next
<1>4. RebuildFits'
  BY ThreadAssumption DEF TypeOK, RebuildFits, ReadCopy, Advance, Target, shared, mutexes, VectorsFitLayout, LocksHeld, WriteHolders, Resizing, next
<1>5. AssignMarks'
  BY ThreadAssumption DEF TypeOK, AssignMarks, ReadCopy, Advance, Target, shared, mutexes, LocksHeld, WriteHolders, HoldsIterator
<1>6. FreshIterators'
  BY ThreadAssumption DEF TypeOK, FreshIterators, ReadCopy, Advance, Target, shared, mutexes, AssignMarks, LocksHeld, WriteHolders, ReadHolders, HoldsIterator, Iterating
<1> QED
  BY <1>1, <1>2, <1>3, <1>4, <1>5, <1>6

LEMMA ReadReturnKeeps == ASSUME IInv, NEW t \in Threads, ReadReturn(t) PROVE IInv'
<1> USE DEF IInv
<1>1. TypeOK'
  BY ReadReturnType
<1>2. LocksHeld'
  BY ThreadAssumption DEF TypeOK, LocksHeld, ReadReturn, Finish, Goto, NoCall, Blank, shared, mutexes, WriteHolders, ReadHolders
<1>3. VectorsFitLayout'
  BY ThreadAssumption DEF TypeOK, VectorsFitLayout, ReadReturn, Finish, Goto, NoCall, Blank, shared, mutexes, LocksHeld, WriteHolders, Resizing, next
<1>4. RebuildFits'
  BY ThreadAssumption DEF TypeOK, RebuildFits, ReadReturn, Finish, Goto, NoCall, Blank, shared, mutexes, VectorsFitLayout, LocksHeld, WriteHolders, Resizing, next
<1>5. AssignMarks'
  BY ThreadAssumption DEF TypeOK, AssignMarks, ReadReturn, Finish, Goto, NoCall, Blank, shared, mutexes, LocksHeld, WriteHolders, HoldsIterator
<1>6. FreshIterators'
  BY ThreadAssumption DEF TypeOK, FreshIterators, ReadReturn, Finish, Goto, NoCall, Blank, shared, mutexes, AssignMarks, LocksHeld, WriteHolders, ReadHolders, HoldsIterator, Iterating
<1> QED
  BY <1>1, <1>2, <1>3, <1>4, <1>5, <1>6

LEMMA RacingFindKeeps == ASSUME IInv, NEW t \in Threads, RacingFind(t) PROVE IInv'
<1> USE DEF IInv
<1>1. TypeOK'
  BY RacingFindType
<1>2. LocksHeld'
  BY ThreadAssumption DEF TypeOK, LocksHeld, RacingFind, Enter, shared, mutexes, WriteHolders, ReadHolders
<1>3. VectorsFitLayout'
  BY ThreadAssumption DEF TypeOK, VectorsFitLayout, RacingFind, Enter, shared, mutexes, LocksHeld, WriteHolders, Resizing, next
<1>4. RebuildFits'
  BY ThreadAssumption DEF TypeOK, RebuildFits, RacingFind, Enter, shared, mutexes, VectorsFitLayout, LocksHeld, WriteHolders, Resizing, next
<1>5. AssignMarks'
  BY ThreadAssumption DEF TypeOK, AssignMarks, RacingFind, Enter, shared, mutexes, LocksHeld, WriteHolders, HoldsIterator
<1>6. FreshIterators'
  BY ThreadAssumption DEF TypeOK, FreshIterators, RacingFind, Enter, shared, mutexes, AssignMarks, LocksHeld, WriteHolders, ReadHolders, HoldsIterator, Iterating
<1> QED
  BY <1>1, <1>2, <1>3, <1>4, <1>5, <1>6

LEMMA SwapCallKeeps == ASSUME IInv, NEW t \in Threads, SwapCall(t) PROVE IInv'
<1> USE DEF IInv
<1>1. TypeOK'
  BY SwapCallType
<1>2. LocksHeld'
  BY ThreadAssumption DEF TypeOK, LocksHeld, SwapCall, Enter, Goto, shared, mutexes, WriteHolders, ReadHolders
<1>3. VectorsFitLayout'
  BY ThreadAssumption DEF TypeOK, VectorsFitLayout, SwapCall, Enter, Goto, shared, mutexes, LocksHeld, WriteHolders, Resizing, next
<1>4. RebuildFits'
  BY ThreadAssumption DEF TypeOK, RebuildFits, SwapCall, Enter, Goto, shared, mutexes, VectorsFitLayout, LocksHeld, WriteHolders, Resizing, next
<1>5. AssignMarks'
  BY ThreadAssumption DEF TypeOK, AssignMarks, SwapCall, Enter, Goto, shared, mutexes, LocksHeld, WriteHolders, HoldsIterator
<1>6. FreshIterators'
  <2>1. UNCHANGED <<universes, call>>
    BY Zenon DEF SwapCall, shared
  <2>2. \A s \in Threads : pc'[s] \in Iterating => pc'[s] = pc[s]
    BY DEF SwapCall, Goto, Iterating, TypeOK
  <2> QED
    BY <2>1, <2>2, FreshKept, Zenon
<1> QED
  BY <1>1, <1>2, <1>3, <1>4, <1>5, <1>6

LEMMA SwapLockKeeps == ASSUME IInv, NEW t \in Threads, SwapLock(t) PROVE IInv'
<1> USE DEF IInv
<1>1. TypeOK'
  BY SwapLockType
<1>2. LocksHeld'
  BY ThreadAssumption DEF TypeOK, LocksHeld, SwapLock, LockBoth, Goto, shared, mutexes, WriteHolders, ReadHolders
<1>3. VectorsFitLayout'
  BY ThreadAssumption DEF TypeOK, VectorsFitLayout, SwapLock, LockBoth, Goto, shared, mutexes, LocksHeld, WriteHolders, Resizing, next
<1>4. RebuildFits'
  BY ThreadAssumption DEF TypeOK, RebuildFits, SwapLock, LockBoth, Goto, shared, mutexes, VectorsFitLayout, LocksHeld, WriteHolders, Resizing, next
<1>5. AssignMarks'
  BY ThreadAssumption DEF TypeOK, AssignMarks, SwapLock, LockBoth, Goto, shared, mutexes, LocksHeld, WriteHolders, HoldsIterator
<1>6. FreshIterators'
  BY ThreadAssumption DEF TypeOK, FreshIterators, SwapLock, LockBoth, Goto, shared, mutexes, AssignMarks, LocksHeld, WriteHolders, ReadHolders, HoldsIterator, Iterating
<1> QED
  BY <1>1, <1>2, <1>3, <1>4, <1>5, <1>6

LEMMA SwapPointersKeeps == ASSUME IInv, NEW t \in Threads, SwapPointers(t) PROVE IInv'
<1> USE DEF IInv
<1>1. TypeOK'
  BY SwapPointersType
<1>2. LocksHeld'
  BY ThreadAssumption DEF TypeOK, LocksHeld, SwapPointers, Goto, shared, mutexes, WriteHolders, ReadHolders
<1>3. VectorsFitLayout'
  BY ThreadAssumption DEF TypeOK, VectorsFitLayout, SwapPointers, Goto, shared, mutexes, LocksHeld, WriteHolders, Resizing, next
<1>4. RebuildFits'
  BY ThreadAssumption DEF TypeOK, RebuildFits, SwapPointers, Goto, shared, mutexes, VectorsFitLayout, LocksHeld, WriteHolders, Resizing, next
<1>5. AssignMarks'
  BY ThreadAssumption DEF TypeOK, AssignMarks, SwapPointers, Goto, shared, mutexes, LocksHeld, WriteHolders, HoldsIterator
<1>6. FreshIterators'
  BY ThreadAssumption DEF TypeOK, FreshIterators, SwapPointers, Goto, shared, mutexes, AssignMarks, LocksHeld, WriteHolders, ReadHolders, HoldsIterator, Iterating
<1> QED
  BY <1>1, <1>2, <1>3, <1>4, <1>5, <1>6

LEMMA SwapCopyKeeps == ASSUME IInv, NEW t \in Threads, SwapCopy(t) PROVE IInv'
<1> USE DEF IInv
<1>1. TypeOK'
  BY SwapCopyType
<1>2. LocksHeld'
  BY ThreadAssumption DEF TypeOK, LocksHeld, SwapCopy, UnlockBoth, Goto, shared, mutexes, WriteHolders, ReadHolders
<1>3. VectorsFitLayout'
  <2>1. DOMAIN buffer["a"] = Offsets(Size(universes)) /\ DOMAIN buffer["b"] = Offsets(Size(universes))
    BY ThreadAssumption DEF VectorsFitLayout, LocksHeld, SwapCopy, WriteHolders, Resizing
  <2>2. buffer' = [buffer EXCEPT ![next] = buffer[current]] /\ universes' = universes
    BY DEF SwapCopy, CurrentVector
  <2>3. buffer \in [{"a", "b"} -> Vectors] /\ current \in {"a", "b"}
    BY DEF TypeOK
  <2>4. \A b \in {"a", "b"} : DOMAIN buffer'[b] = Offsets(Size(universes))
    BY <2>1, <2>2, <2>3 DEF next
  <2> QED
    BY <2>2, <2>4 DEF VectorsFitLayout
<1>4. RebuildFits'
  BY ThreadAssumption DEF TypeOK, RebuildFits, SwapCopy, UnlockBoth, Goto, shared, mutexes, VectorsFitLayout, LocksHeld, WriteHolders, Resizing, next
<1>5. AssignMarks'
  BY ThreadAssumption DEF TypeOK, AssignMarks, SwapCopy, UnlockBoth, Goto, shared, mutexes, LocksHeld, WriteHolders, HoldsIterator
<1>6. FreshIterators'
  BY ThreadAssumption DEF TypeOK, FreshIterators, SwapCopy, UnlockBoth, Goto, shared, mutexes, AssignMarks, LocksHeld, WriteHolders, ReadHolders, HoldsIterator, Iterating
<1> QED
  BY <1>1, <1>2, <1>3, <1>4, <1>5, <1>6

LEMMA ResizeCallKeeps == ASSUME IInv, NEW t \in Threads, ResizeCall(t) PROVE IInv'
<1> USE DEF IInv
<1>1. TypeOK'
  BY ResizeCallType
<1>2. LocksHeld'
  BY ThreadAssumption DEF TypeOK, LocksHeld, ResizeCall, Enter, Goto, shared, mutexes, WriteHolders, ReadHolders
<1>3. VectorsFitLayout'
  BY ThreadAssumption DEF TypeOK, VectorsFitLayout, ResizeCall, Enter, Goto, shared, mutexes, LocksHeld, WriteHolders, Resizing, next
<1>4. RebuildFits'
  BY ThreadAssumption DEF TypeOK, RebuildFits, ResizeCall, Enter, Goto, shared, mutexes, VectorsFitLayout, LocksHeld, WriteHolders, Resizing, next
<1>5. AssignMarks'
  BY ThreadAssumption DEF TypeOK, AssignMarks, ResizeCall, Enter, Goto, shared, mutexes, LocksHeld, WriteHolders, HoldsIterator
<1>6. FreshIterators'
  <2>1. UNCHANGED <<universes, call>>
    BY Zenon DEF ResizeCall, shared
  <2>2. \A s \in Threads : pc'[s] \in Iterating => pc'[s] = pc[s]
    BY DEF ResizeCall, Goto, Iterating, TypeOK
  <2> QED
    BY <2>1, <2>2, FreshKept, Zenon
<1> QED
  BY <1>1, <1>2, <1>3, <1>4, <1>5, <1>6

LEMMA ResizeLockKeeps == ASSUME IInv, NEW t \in Threads, ResizeLock(t) PROVE IInv'
<1> USE DEF IInv
<1>1. TypeOK'
  BY ResizeLockType
<1>2. LocksHeld'
  BY ThreadAssumption DEF TypeOK, LocksHeld, ResizeLock, LockBoth, Goto, shared, mutexes, WriteHolders, ReadHolders
<1>3. VectorsFitLayout'
  BY ThreadAssumption DEF TypeOK, VectorsFitLayout, ResizeLock, LockBoth, Goto, shared, mutexes, LocksHeld, WriteHolders, Resizing, next
<1>4. RebuildFits'
  <2>1. PICK S \in SUBSET Addresses :
            rebuild' = [new |-> S, todo |-> S]
            /\ buffer' = [buffer EXCEPT ![next] = Resized(buffer[next], Size(S))]
    BY DEF ResizeLock
  <2>2. buffer \in [{"a", "b"} -> Vectors] /\ current \in {"a", "b"} /\ next \in {"a", "b"} /\ next # current
    BY DEF TypeOK, next
  <2>3. DOMAIN Resized(buffer[next], Size(S)) = Offsets(Size(S))
    BY <2>2, ResizedIsVector
  <2>4. DOMAIN buffer[current] = Offsets(Size(universes))
    BY <2>2, ThreadAssumption DEF VectorsFitLayout, LocksHeld, ResizeLock, LockBoth, WriteHolders, Resizing
  <2>5. universes' = universes /\ current' = current /\ next' = next
    BY DEF ResizeLock, next
  <2>6. DOMAIN buffer'[current] = Offsets(Size(universes)) /\ DOMAIN buffer'[next] = Offsets(Size(S))
    BY <2>1, <2>2, <2>3, <2>4
  <2>7. \A s \in Threads : pc'[s] \notin {"resize_assign", "resize_return"}
    BY ThreadAssumption DEF LocksHeld, ResizeLock, LockBoth, Goto, WriteHolders, TypeOK
  <2>8. rebuild'.new = S /\ rebuild'.todo = S
    BY <2>1
  <2> QED
    BY <2>5, <2>6, <2>7, <2>8, Zenon DEF RebuildFits
<1>5. AssignMarks'
  BY ThreadAssumption DEF TypeOK, AssignMarks, ResizeLock, LockBoth, Goto, shared, mutexes, LocksHeld, WriteHolders, HoldsIterator
<1>6. FreshIterators'
  <2>1. UNCHANGED <<universes, call>>
    BY Zenon DEF ResizeLock, shared
  <2>2. \A s \in Threads : pc'[s] \in Iterating => pc'[s] = pc[s]
    BY DEF ResizeLock, Goto, Iterating, TypeOK
  <2> QED
    BY <2>1, <2>2, FreshKept, Zenon
<1> QED
  BY <1>1, <1>2, <1>3, <1>4, <1>5, <1>6

LEMMA ResizeUniverseKeeps == ASSUME IInv, NEW t \in Threads, ResizeUniverse(t) PROVE IInv'
<1> USE DEF IInv
<1>1. TypeOK'
  BY ResizeUniverseType
<1>2. LocksHeld'
  BY ThreadAssumption DEF TypeOK, LocksHeld, ResizeUniverse, KeepUniverse, ClearUniverse, shared, mutexes, WriteHolders, ReadHolders
<1>3. VectorsFitLayout'
  BY ThreadAssumption DEF TypeOK, VectorsFitLayout, ResizeUniverse, KeepUniverse, ClearUniverse, shared, mutexes, LocksHeld, WriteHolders, Resizing, next
<1>4. RebuildFits'
  <2>1. UNCHANGED <<universes, current, pc>> /\ next' = next
    BY Zenon DEF ResizeUniverse, next
  <2>2. rebuild'.new = rebuild.new /\ rebuild'.todo \subseteq rebuild.new
    BY DEF ResizeUniverse, RebuildFits, TypeOK
  <2>3. next \in {"a", "b"} /\ next # current /\ buffer \in [{"a", "b"} -> Vectors] /\ current \in {"a", "b"}
    BY DEF TypeOK, next
  <2>4. \A b \in {"a", "b"} : DOMAIN buffer'[b] = DOMAIN buffer[b]
    BY <2>3 DEF ResizeUniverse, KeepUniverse, ClearUniverse
  <2>5. \A s \in Threads : pc[s] \notin {"resize_assign", "resize_return"}
    BY ThreadAssumption DEF ResizeUniverse, LocksHeld, WriteHolders
  <2> QED
    BY <2>1, <2>2, <2>3, <2>4, <2>5 DEF RebuildFits
<1>5. AssignMarks'
  BY ThreadAssumption DEF TypeOK, AssignMarks, ResizeUniverse, KeepUniverse, ClearUniverse, shared, mutexes, LocksHeld, WriteHolders, HoldsIterator
<1>6. FreshIterators'
  BY ThreadAssumption DEF TypeOK, FreshIterators, ResizeUniverse, KeepUniverse, ClearUniverse, shared, mutexes, AssignMarks, LocksHeld, WriteHolders, ReadHolders, HoldsIterator, Iterating
<1> QED
  BY <1>1, <1>2, <1>3, <1>4, <1>5, <1>6

LEMMA ResizeCopyKeeps == ASSUME IInv, NEW t \in Threads, ResizeCopy(t) PROVE IInv'
<1> USE DEF IInv
<1>1. TypeOK'
  BY ResizeCopyType
<1>2. LocksHeld'
  BY ThreadAssumption DEF TypeOK, LocksHeld, ResizeCopy, Goto, shared, mutexes, WriteHolders, ReadHolders
<1>3. VectorsFitLayout'
  BY ThreadAssumption DEF TypeOK, VectorsFitLayout, ResizeCopy, Goto, shared, mutexes, LocksHeld, WriteHolders, Resizing, next
<1>4. RebuildFits'
  <2>1. UNCHANGED <<universes, current, rebuild>>
    BY Zenon DEF ResizeCopy
  <2>2. buffer' = [buffer EXCEPT ![current] = buffer[next]]
    BY DEF ResizeCopy, NextVector
  <2>3. next \in {"a", "b"} /\ next # current /\ buffer \in [{"a", "b"} -> Vectors] /\ current \in {"a", "b"}
    BY DEF TypeOK, next
  <2>4. DOMAIN buffer[next] = Offsets(Size(rebuild.new))
    BY DEF RebuildFits, ResizeCopy
  <2>5. \A b \in {"a", "b"} : DOMAIN buffer'[b] = Offsets(Size(rebuild.new))
    BY <2>2, <2>3, <2>4
  <2>6. \A s \in Threads : pc'[s] # "resize_build"
    BY ThreadAssumption DEF ResizeCopy, Goto, LocksHeld, WriteHolders, TypeOK
  <2> QED
    BY <2>1, <2>5, <2>6, Zenon DEF RebuildFits
<1>5. AssignMarks'
  BY ThreadAssumption DEF TypeOK, AssignMarks, ResizeCopy, Goto, shared, mutexes, LocksHeld, WriteHolders, HoldsIterator
<1>6. FreshIterators'
  BY ThreadAssumption DEF TypeOK, FreshIterators, ResizeCopy, Goto, shared, mutexes, AssignMarks, LocksHeld, WriteHolders, ReadHolders, HoldsIterator, Iterating
<1> QED
  BY <1>1, <1>2, <1>3, <1>4, <1>5, <1>6

LEMMA ResizeAssignKeeps == ASSUME IInv, NEW t \in Threads, ResizeAssign(t) PROVE IInv'
<1> USE DEF IInv
<1>1. TypeOK'
  BY ResizeAssignType
<1>2. LocksHeld'
  BY ThreadAssumption DEF TypeOK, LocksHeld, ResizeAssign, Goto, shared, mutexes, WriteHolders, ReadHolders
<1>3. VectorsFitLayout'
  BY ThreadAssumption DEF TypeOK, VectorsFitLayout, ResizeAssign, Goto, shared, mutexes, LocksHeld, WriteHolders, Resizing, next
<1>4. RebuildFits'
  BY ThreadAssumption DEF TypeOK, RebuildFits, ResizeAssign, Goto, shared, mutexes, VectorsFitLayout, LocksHeld, WriteHolders, Resizing, next
<1>5. AssignMarks'
  BY ThreadAssumption DEF TypeOK, AssignMarks, ResizeAssign, Goto, shared, mutexes, LocksHeld, WriteHolders, HoldsIterator
<1>6. FreshIterators'
  BY ThreadAssumption DEF TypeOK, FreshIterators, ResizeAssign, Goto, shared, mutexes, AssignMarks, LocksHeld, WriteHolders, ReadHolders, HoldsIterator, Iterating
<1> QED
  BY <1>1, <1>2, <1>3, <1>4, <1>5, <1>6

LEMMA ResizeReturnKeeps == ASSUME IInv, NEW t \in Threads, ResizeReturn(t) PROVE IInv'
<1> USE DEF IInv
<1>1. TypeOK'
  BY ResizeReturnType
<1>2. LocksHeld'
  BY ThreadAssumption DEF TypeOK, LocksHeld, ResizeReturn, UnlockBoth, Goto, NoRebuild, shared, mutexes, WriteHolders, ReadHolders
<1>3. VectorsFitLayout'
  <2>1. \A b \in {"a", "b"} : DOMAIN buffer[b] = Offsets(Size(rebuild.new))
    BY DEF RebuildFits, ResizeReturn
  <2>2. universes' = rebuild.new /\ buffer' = buffer
    BY DEF ResizeReturn
  <2> QED
    BY <2>1, <2>2, Zenon DEF VectorsFitLayout
<1>4. RebuildFits'
  BY ThreadAssumption DEF TypeOK, RebuildFits, ResizeReturn, UnlockBoth, Goto, NoRebuild, shared, mutexes, VectorsFitLayout, LocksHeld, WriteHolders, Resizing, next
<1>5. AssignMarks'
  BY ThreadAssumption DEF TypeOK, AssignMarks, ResizeReturn, UnlockBoth, Goto, NoRebuild, shared, mutexes, LocksHeld, WriteHolders, HoldsIterator
<1>6. FreshIterators'
  BY ThreadAssumption DEF TypeOK, FreshIterators, ResizeReturn, UnlockBoth, Goto, NoRebuild, shared, mutexes, AssignMarks, LocksHeld, WriteHolders, ReadHolders, HoldsIterator, Iterating
<1> QED
  BY <1>1, <1>2, <1>3, <1>4, <1>5, <1>6

------------------------------------------------------------------------------
(* The theorems                                                            *)

LEMMA StepKeeps == ASSUME IInv, [Next]_vars PROVE IInv'
<1>1. CASE UNCHANGED vars
  <2>1. TypeOK'
    BY <1>1, Zenon DEF IInv, TypeOK, vars
  <2>2. LocksHeld' /\ VectorsFitLayout' /\ RebuildFits' /\ AssignMarks' /\ FreshIterators'
    BY <1>1, Zenon DEF IInv, vars, LocksHeld, VectorsFitLayout, RebuildFits, AssignMarks,
       FreshIterators, Resizing, HoldsIterator, next
  <2> QED
    BY <2>1, <2>2, Zenon DEF IInv
<1>2. ASSUME NEW t \in Threads, Operation(t) PROVE IInv'
  <2>1. CASE WriteAbsent(t)
    BY <2>1, WriteAbsentKeeps
  <2>2. CASE WriteFind(t)
    BY <2>2, WriteFindKeeps
  <2>3. CASE WriteLock(t)
    BY <2>3, WriteLockKeeps
  <2>4. CASE WriteCopy(t)
    BY <2>4, WriteCopyKeeps
  <2>5. CASE WriteReturn(t)
    BY <2>5, WriteReturnKeeps
  <2>6. CASE ReadRefused(t)
    BY <2>6, ReadRefusedKeeps
  <2>7. CASE ReadFind(t)
    BY <2>7, ReadFindKeeps
  <2>8. CASE ReadLock(t)
    BY <2>8, ReadLockKeeps
  <2>9. CASE ReadCopy(t)
    BY <2>9, ReadCopyKeeps
  <2>10. CASE ReadReturn(t)
    BY <2>10, ReadReturnKeeps
  <2>11. CASE RacingFind(t)
    BY <2>11, RacingFindKeeps
  <2>12. CASE SwapCall(t)
    BY <2>12, SwapCallKeeps
  <2>13. CASE SwapLock(t)
    BY <2>13, SwapLockKeeps
  <2>14. CASE SwapPointers(t)
    BY <2>14, SwapPointersKeeps
  <2>15. CASE SwapCopy(t)
    BY <2>15, SwapCopyKeeps
  <2>16. CASE ResizeCall(t)
    BY <2>16, ResizeCallKeeps
  <2>17. CASE ResizeLock(t)
    BY <2>17, ResizeLockKeeps
  <2>18. CASE ResizeUniverse(t)
    BY <2>18, ResizeUniverseKeeps
  <2>19. CASE ResizeCopy(t)
    BY <2>19, ResizeCopyKeeps
  <2>20. CASE ResizeAssign(t)
    BY <2>20, ResizeAssignKeeps
  <2>21. CASE ResizeReturn(t)
    BY <2>21, ResizeReturnKeeps
  <2> QED
    BY <1>2, <2>1, <2>2, <2>3, <2>4, <2>5, <2>6, <2>7, <2>8, <2>9, <2>10, <2>11, <2>12, <2>13, <2>14, <2>15, <2>16, <2>17, <2>18, <2>19, <2>20, <2>21
    DEF Operation, Write, Read, Swap, Resize
<1> QED
  BY <1>1, <1>2 DEF Next, Stopped

LEMMA Invariance == Spec => []IInv
<1>1. Init => IInv
  BY InitHolds
<1>2. IInv /\ [Next]_vars => IInv'
  BY StepKeeps
<1> QED
  BY <1>1, <1>2, PTL DEF Spec

\* Type correctness of the buffer.
THEOREM TypeCorrect == Spec => []TypeOK
<1>1. IInv => TypeOK
  BY DEF IInv
<1> QED
  BY <1>1, Invariance, PTL

\* The two mutexes exclude every pair of conflicting accesses to a vector:
\* write() against swap() and resize(), read() against swap() and resize(),
\* and write() against read(), which work on different vectors.
THEOREM NoConflict == Spec => []NoConflictingAccess
<1>1. ASSUME IInv, NEW s \in Threads, NEW t \in Threads, s # t
      PROVE  Stores(s) \cap Touches(t) = {}
  <2>1. ~(pc[s] \in WriteHolders /\ pc[t] \in WriteHolders)
    BY <1>1 DEF IInv, LocksHeld
  <2>2. ~(pc[s] \in ReadHolders /\ pc[t] \in ReadHolders)
    BY <1>1 DEF IInv, LocksHeld
  <2>3. next # current
    BY <1>1 DEF IInv, TypeOK, next
  <2> QED
    BY <2>1, <2>2, <2>3 DEF Stores, Touches, Swapping, Resizing, WriteHolders, ReadHolders
<1>2. IInv => NoConflictingAccess
  BY <1>1 DEF NoConflictingAccess
<1> QED
  BY <1>2, Invariance, PTL

\* Outside resize() both vectors have the length of the layout.
THEOREM VectorsFit == Spec => []VectorsFitLayout
<1>1. IInv => VectorsFitLayout
  BY DEF IInv
<1> QED
  BY <1>1, Invariance, PTL

LEMMA FreshAtHome ==
    ASSUME IInv PROVE FreshAccessAtHome
<1> SUFFICES ASSUME NEW t \in Threads, Copying(t), ~call[t].stale, InRange(call[t].span)
             PROVE  /\ call[t].universe \in universes
                    /\ Target(t) \in Region(universes, call[t].universe)
                    /\ Target(t) \in DOMAIN buffer["a"] \cap DOMAIN buffer["b"]
  BY DEF FreshAccessAtHome
<1> DEFINE u == call[t].universe
           base == Base(universes, u)
<1>1. u \in universes /\ call[t].it = base /\ call[t].span \in Spans
  BY DEF IInv, FreshIterators, Copying, Iterating
<1>2. /\ call[t].span.channel >= 1
      /\ (call[t].span.channel - 1) + call[t].span.count <= UniverseLength
      /\ call[t].span.channel \in Int /\ call[t].span.count \in Nat
  BY <1>1, SpanAssumption DEF InRange
<1>3. call[t].k \in Nat /\ call[t].k < call[t].span.count
  BY DEF IInv, TypeOK, CallRecord, Copying
<1>4. base \in Nat /\ Size(universes) \in Nat /\ base + UniverseLength <= Size(universes)
  BY <1>1, LayoutType, RegionFits DEF IInv, TypeOK
<1> HIDE DEF base
<1>5. Target(t) \in base .. base + UniverseLength - 1
  BY <1>1, <1>2, <1>3, <1>4, LengthAssumption DEF Target
<1>6. \A s \in Threads : ~Resizing(s)
  BY DEF IInv, LocksHeld, Copying, Resizing, WriteHolders, ReadHolders
<1>7. DOMAIN buffer["a"] = Offsets(Size(universes)) /\ DOMAIN buffer["b"] = Offsets(Size(universes))
  BY <1>6 DEF IInv, VectorsFitLayout
<1> QED
  BY <1>1, <1>4, <1>5, <1>7, LengthAssumption DEF Region, Offsets, base

\* Although both copies search the map without a mutex, a copy that no resize()
\* overtook stays within its universe and within the vector, if its caller keeps
\* to the channels of one universe, whatever other callers do.
THEOREM FreshAccess == Spec => []FreshAccessAtHome
<1>1. IInv => FreshAccessAtHome
  BY FreshAtHome
<1> QED
  BY <1>1, Invariance, PTL

\* The test of read() keeps every read that no resize() overtook from going
\* beyond the end of its universe, whatever span the caller asks for.
THEOREM ReadBounded == Spec => []ReadEndsAtHome
<1>1. ASSUME IInv, NEW t \in Threads, pc[t] = "read_copy", Copying(t), ~call[t].stale
      PROVE  Target(t) < Base(universes, call[t].universe) + UniverseLength
  <2>1. call[t].it = Base(universes, call[t].universe) /\ call[t].universe \in universes
    BY <1>1 DEF IInv, FreshIterators, Copying, Iterating
  <2>2. InBounds(call[t].span) /\ call[t].span \in Spans
    BY <1>1 DEF IInv, FreshIterators, Iterating
  <2>5. call[t].span.channel \in Int /\ call[t].span.count \in Nat
    BY <2>2, SpanAssumption
  <2>3. call[t].k \in Nat /\ call[t].k < call[t].span.count
    BY <1>1 DEF IInv, TypeOK, CallRecord, Copying
  <2>4. Base(universes, call[t].universe) \in Nat
    BY <1>1, <2>1, LayoutType DEF IInv, TypeOK
  <2> QED
    BY <2>1, <2>2, <2>3, <2>4, <2>5, LengthAssumption DEF Target, InBounds
<1>2. IInv => ReadEndsAtHome
  BY <1>1 DEF ReadEndsAtHome
<1> QED
  BY <1>2, Invariance, PTL

LEMMA CrashStep ==
    ASSUME IInv, [Next]_vars, ~crashed, crashed'
    PROVE  \E t \in Threads :
              Resizing(t) \/ (Copying(t) /\ (call[t].stale \/ ~InRange(call[t].span)))
<1>1. FreshAccessAtHome
  BY FreshAtHome
<1>2. current \in {"a", "b"} /\ next \in {"a", "b"}
  BY DEF IInv, TypeOK, next
<1>3. PICK t \in Threads : Operation(t)
  BY Zenon DEF Next, Stopped, vars
<1>4. CASE WriteCopy(t)
  <2>1. Target(t) \notin DOMAIN buffer[next] /\ Copying(t)
    BY <1>4 DEF WriteCopy, Copying, NextVector
  <2> QED
    BY <1>1, <1>2, <2>1 DEF FreshAccessAtHome
<1>5. CASE ReadCopy(t)
  <2>1. Target(t) \notin DOMAIN buffer[current] /\ Copying(t)
    BY <1>5 DEF ReadCopy, Copying, CurrentVector
  <2> QED
    BY <1>1, <1>2, <2>1 DEF FreshAccessAtHome
<1>6. CASE RacingFind(t)
  BY <1>6 DEF RacingFind, IInv, AssignMarks, Resizing
<1>7. CASE ResizeUniverse(t)
  BY <1>7 DEF ResizeUniverse, Resizing
<1>8. CASE WriteAbsent(t) \/ WriteFind(t) \/ WriteLock(t) \/ WriteReturn(t)
  BY <1>8, Zenon DEF WriteAbsent, WriteFind, WriteLock, WriteReturn
<1>9. CASE ReadRefused(t) \/ ReadFind(t) \/ ReadLock(t) \/ ReadReturn(t)
  BY <1>9, Zenon DEF ReadRefused, ReadFind, ReadLock, ReadReturn
<1>10. CASE Swap(t)
  BY <1>10, Zenon DEF Swap, SwapCall, SwapLock, SwapPointers, SwapCopy
<1>11. CASE ResizeCall(t) \/ ResizeLock(t) \/ ResizeCopy(t) \/ ResizeAssign(t) \/ ResizeReturn(t)
  BY <1>11, Zenon DEF ResizeCall, ResizeLock, ResizeCopy, ResizeAssign, ResizeReturn
<1> QED
  BY <1>3, <1>4, <1>5, <1>6, <1>7, <1>8, <1>9, <1>10, <1>11 DEF Operation, Write, Read, Resize

\* Nothing but resize() can bring the process down from inside this class: a
\* crash happens in it, in a look-up that races with it, through an iterator
\* that it overtook or through a span that is out of range.
THEOREM CrashOnlyWithCause == Spec => CrashNeedsCause
<1>1. IInv /\ [Next]_vars =>
        [~crashed /\ crashed' =>
            \E t \in Threads :
               Resizing(t) \/ (Copying(t) /\ (call[t].stale \/ ~InRange(call[t].span)))]_vars
  BY CrashStep
<1> QED
  BY <1>1, Invariance, PTL DEF Spec, CrashNeedsCause

------------------------------------------------------------------------------
(* The refinement                                                          *)
(*                                                                         *)
(* Every behaviour of DmxBuffer is one of DmxFrames under the mapping of   *)
(* DmxBufferRefinement, for all values of the constants.  Each step of the *)
(* buffer is shown to be one abstract step or none:                        *)
(*                                                                         *)
(*   WriteFind, ReadFind        Start                                      *)
(*   WriteLock, ReadLock        WriteEffect, ReadEffect, or the stray      *)
(*                              forms when resize() overtook the iterator  *)
(*   WriteReturn, ReadReturn    Return                                     *)
(*   SwapPointers               Publish                                    *)
(*   ResizeLock, ResizeReturn   BeginReconfigure, EndReconfigure           *)
(*   RacingFind, and copies and                                            *)
(*   rebuilding steps that crash   Crash                                   *)
(*   everything else            nothing                                    *)

\* Where a thread has a call in progress.

Asking == {"write_lock", "write_copy", "read_lock", "read_copy"}

\* What the refinement needs of a state besides IInv: a thread that waits for
\* its mutex has not copied anything, and the vectors are the same once
\* resize() has copied one to the other.
MapInv ==
    /\ \A t \in Threads : HoldsIterator(t) => call[t].k = 0
    /\ \A t \in Threads : pc[t] \in {"resize_assign", "resize_return"} => buffer["a"] = buffer["b"]

\* The callers keep to the channels of one universe.
SpansInRange == \A span \in Spans : InRange(span)

LEMMA InitMaps == Init => Frames!Init
<1> SUFFICES ASSUME Init PROVE Frames!Init
  OBVIOUS
<1>1. \A t \in Threads : pc[t] = "idle"
  BY DEF Init
<1>2. ~Reconfiguring
  BY <1>1 DEF Reconfiguring, Resizing
<1>3. active = {}
  BY <1>2 DEF active, Init
<1>4. pend = [u \in {} |-> 0] /\ live = [u \in {} |-> 0]
  BY <1>3 DEF pend, live
<1>5. op = [t \in Threads |-> Frames!NoOp]
  BY <1>1 DEF op, Frames!NoOp
<1> QED BY <1>2, <1>3, <1>4, <1>5 DEF Frames!Init, Init

\* Nothing changes in the abstract state.
LEMMA Stutters ==
    ASSUME active' = active, pend' = pend, live' = live, op' = op,
           Reconfiguring' <=> Reconfiguring, crashed' = crashed
    PROVE  UNCHANGED Frames!vars
BY DEF Frames!vars

------------------------------------------------------------------------------
(* The strengthened invariant                                              *)

LEMMA MapNext ==
    ASSUME IInv, MapInv, [Next]_vars
    PROVE  MapInv'
<1>1. CASE UNCHANGED vars
  BY <1>1 DEF MapInv, HoldsIterator, vars
<1>2. ASSUME NEW t \in Threads, \A s \in Threads \ {t} : pc'[s] = pc[s],
             \A s \in Threads \ {t} : call'[s].k = call[s].k,
             pc'[t] \in {"write_lock", "read_lock"} => call'[t].k = 0,
             pc'[t] \notin {"resize_assign", "resize_return"},
             buffer' = buffer \/ \A s \in Threads : pc[s] \notin {"resize_assign", "resize_return"}
      PROVE  MapInv'
  <2>1. ASSUME NEW s \in Threads, HoldsIterator(s)' PROVE call'[s].k = 0
    BY <1>2, <2>1 DEF MapInv, HoldsIterator
  <2>2. ASSUME NEW s \in Threads, pc'[s] \in {"resize_assign", "resize_return"}
        PROVE  buffer'["a"] = buffer'["b"]
    BY <1>2, <2>2 DEF MapInv
  <2> QED BY <2>1, <2>2 DEF MapInv
<1>3. pc \in [Threads -> Labels] /\ call \in [Threads -> CallRecord]
  BY DEF IInv, TypeOK
<1>4. ASSUME NEW t \in Threads, Operation(t) PROVE MapInv'
  <2> USE <1>3 DEF Goto, Enter
  <2>1. CASE WriteAbsent(t) \/ ReadRefused(t) \/ RacingFind(t)
    <3>1. UNCHANGED <<pc, call, buffer>>
      BY <2>1 DEF WriteAbsent, ReadRefused, RacingFind, shared
    <3> QED BY <3>1 DEF MapInv, HoldsIterator
  <2>2. CASE WriteFind(t) \/ ReadFind(t)
    BY <1>2, <2>2 DEF WriteFind, ReadFind, LookUp, shared
  <2>3. CASE WriteLock(t) \/ ReadLock(t)
    BY <1>2, <2>3 DEF WriteLock, ReadLock, Dereference, shared
  <2>4. CASE WriteCopy(t)
    <3>1. pc[t] = "write_copy" /\ pc' = pc /\ call' = [call EXCEPT ![t].k = @ + 1]
      BY <2>4, Zenon DEF WriteCopy, Advance
    <3>2. \A s \in Threads : pc[s] \notin {"resize_assign", "resize_return"}
      BY <3>1 DEF IInv, LocksHeld, WriteHolders
    <3> QED BY <1>2, <3>1, <3>2
  <2>5. CASE ReadCopy(t)
    <3>1. pc[t] = "read_copy" /\ pc' = pc /\ call' = [call EXCEPT ![t].k = @ + 1]
          /\ buffer' = buffer
      BY <2>5, Zenon DEF ReadCopy, Advance, shared
    <3> QED BY <1>2, <3>1
  <2>6. CASE WriteReturn(t) \/ ReadReturn(t)
    BY <1>2, <2>6 DEF WriteReturn, ReadReturn, Finish, shared
  <2>7. CASE SwapCall(t) \/ SwapLock(t) \/ SwapPointers(t) \/ ResizeCall(t)
    BY <1>2, <2>7 DEF SwapCall, SwapLock, SwapPointers, ResizeCall, shared
  <2>8. CASE SwapCopy(t) \/ ResizeLock(t) \/ ResizeUniverse(t)
    <3>1. \A s \in Threads : pc[s] \notin {"resize_assign", "resize_return"}
      <4>1. pc[t] \in {"swap_copy", "resize_lock", "resize_build"}
        BY <2>8 DEF SwapCopy, ResizeLock, ResizeUniverse
      <4>2. mutex_write \in {t, NoThread}
        <5>1. CASE ResizeLock(t)
          BY <5>1 DEF ResizeLock, LockBoth
        <5>2. CASE SwapCopy(t) \/ ResizeUniverse(t)
          <6>1. pc[t] \in {"swap_copy", "resize_build"}
            BY <5>2 DEF SwapCopy, ResizeUniverse
          <6> QED BY <6>1 DEF IInv, LocksHeld, WriteHolders
        <5> QED BY <2>8, <5>1, <5>2
      <4> QED BY <4>1, <4>2, ThreadAssumption DEF IInv, LocksHeld, WriteHolders
    <3>2. call' = call /\ \E at \in {"idle", "resize_build"} : pc' = [pc EXCEPT ![t] = at]
      <4>1. CASE ResizeUniverse(t)
        <5>1. pc' = pc /\ call' = call /\ pc[t] = "resize_build"
          BY <4>1, Zenon DEF ResizeUniverse
        <5>2. pc = [pc EXCEPT ![t] = "resize_build"]
          BY <5>1
        <5> QED BY <5>1, <5>2
      <4> QED BY <2>8, <4>1 DEF SwapCopy, ResizeLock
    <3> QED BY <1>2, <3>1, <3>2
  <2>9. CASE ResizeCopy(t)
    <3>1. pc' = [pc EXCEPT ![t] = "resize_assign"] /\ call' = call
          /\ buffer' = [buffer EXCEPT ![current] = buffer[next]]
      BY <2>9 DEF ResizeCopy, NextVector
    <3>2. buffer \in [{"a", "b"} -> Vectors] /\ current \in {"a", "b"}
      BY DEF IInv, TypeOK
    <3>3. buffer'["a"] = buffer'["b"]
      BY <3>1, <3>2 DEF next
    <3> QED BY <3>1, <3>3 DEF MapInv, HoldsIterator
  <2>10. CASE ResizeAssign(t)
    <3>1. pc[t] = "resize_assign" /\ pc' = [pc EXCEPT ![t] = "resize_return"] /\ buffer' = buffer
      BY <2>10 DEF ResizeAssign
    <3>2. \A s \in Threads : call'[s].k = call[s].k
      BY <2>10 DEF ResizeAssign, CallRecord
    <3> QED BY <3>1, <3>2 DEF MapInv, HoldsIterator
  <2>11. CASE ResizeReturn(t)
    BY <1>2, <2>11 DEF ResizeReturn
  <2> QED
    BY <1>4, <2>1, <2>2, <2>3, <2>4, <2>5, <2>6, <2>7, <2>8, <2>9, <2>10, <2>11
       DEF Operation, Write, Read, Swap, Resize
<1> QED BY <1>1, <1>4 DEF Next, Stopped

------------------------------------------------------------------------------
(* What the mapped state is made of                                        *)

\* Only one thread at a time is between the two ends of a critical section.
LEMMA OneHolder ==
    ASSUME IInv, NEW t \in Threads, pc[t] \in WriteHolders
    PROVE  \A s \in Threads \ {t} : pc[s] \notin WriteHolders
BY DEF IInv, LocksHeld

\* The channels of the universes lie within the vectors.
LEMMA HomeInVector ==
    ASSUME IInv, NEW u \in active, NEW c \in 1..UniverseLength
    PROVE  /\ u \in universes /\ ~Reconfiguring
           /\ \A b \in {"a", "b"} : Base(universes, u) + c - 1 \in DOMAIN buffer[b]
           /\ Base(universes, u) + c - 1 \in Region(universes, u)
<1>1. u \in universes /\ ~Reconfiguring
  BY DEF active
<1>2. \A b \in {"a", "b"} : DOMAIN buffer[b] = Offsets(Size(universes))
  BY <1>1 DEF IInv, VectorsFitLayout, Reconfiguring
<1>3. universes \in SUBSET Addresses
  BY DEF IInv, TypeOK
<1>4. /\ Base(universes, u) \in Nat /\ Size(universes) \in Nat
      /\ Base(universes, u) + UniverseLength <= Size(universes)
  BY <1>1, <1>3, LayoutType, RegionFits
<1>5. /\ Base(universes, u) + c - 1 \in Offsets(Size(universes))
      /\ Base(universes, u) + c - 1 \in Region(universes, u)
  BY <1>4, LengthAssumption DEF Offsets, Region
<1> QED BY <1>1, <1>2, <1>5

\* A channel that is to be published: the one just published while a swap has
\* still to copy it, the value of the write under way, or the next vector's.
LEMMA PendingChannels ==
    ASSUME NEW a
    PROVE  /\ \A t \in Threads : pc[t] = "swap_copy" => PendingChannel(a) = CurrentVector[a]
           /\ \A t \in Threads :
                 /\ pc[t] = "write_copy"
                 /\ \A s \in Threads \ {t} : pc[s] \notin {"write_copy", "swap_copy"}
                 => PendingChannel(a) = IF a \in Remaining(t) THEN call[t].value
                                        ELSE NextVector[a]
           /\ (\A t \in Threads : pc[t] \notin {"write_copy", "swap_copy"})
                 => PendingChannel(a) = NextVector[a]
<1>1. \A t \in Threads : pc[t] = "swap_copy" => PendingChannel(a) = CurrentVector[a]
  BY DEF PendingChannel, Republishing
<1>2. ASSUME NEW t \in Threads, pc[t] = "write_copy",
             \A s \in Threads \ {t} : pc[s] \notin {"write_copy", "swap_copy"}
      PROVE  PendingChannel(a) = IF a \in Remaining(t) THEN call[t].value ELSE NextVector[a]
  <2>1. ~Republishing /\ Writers = {t}
    BY <1>2 DEF Republishing, Writers
  <2>2. a \in Remaining(t) => (CHOOSE s \in Writers : a \in Remaining(s)) = t
    BY <2>1
  <2> QED BY <2>1, <2>2 DEF PendingChannel
<1>3. (\A t \in Threads : pc[t] \notin {"write_copy", "swap_copy"})
         => PendingChannel(a) = NextVector[a]
  BY DEF PendingChannel, Republishing, Writers
<1> QED BY <1>1, <1>2, <1>3

\* The same of the state after a step.
LEMMA PendingChannelsNext ==
    ASSUME NEW a
    PROVE  /\ \A t \in Threads : pc'[t] = "swap_copy" => PendingChannel(a)' = CurrentVector[a]'
           /\ \A t \in Threads :
                 /\ pc'[t] = "write_copy"
                 /\ \A s \in Threads \ {t} : pc'[s] \notin {"write_copy", "swap_copy"}
                 => PendingChannel(a)' = IF a \in Remaining(t)' THEN call'[t].value
                                         ELSE NextVector[a]'
           /\ (\A t \in Threads : pc'[t] \notin {"write_copy", "swap_copy"})
                 => PendingChannel(a)' = NextVector[a]'
<1>1. \A t \in Threads : pc'[t] = "swap_copy" => PendingChannel(a)' = CurrentVector[a]'
  BY DEF PendingChannel, Republishing
<1>2. ASSUME NEW t \in Threads, pc'[t] = "write_copy",
             \A s \in Threads \ {t} : pc'[s] \notin {"write_copy", "swap_copy"}
      PROVE  PendingChannel(a)' = IF a \in Remaining(t)' THEN call'[t].value ELSE NextVector[a]'
  <2>1. ~Republishing' /\ Writers' = {t}
    BY <1>2 DEF Republishing, Writers
  <2>2. a \in Remaining(t)' => (CHOOSE s \in Writers' : a \in Remaining(s)') = t
    BY <2>1
  <2> QED BY <2>1, <2>2 DEF PendingChannel
<1>3. (\A t \in Threads : pc'[t] \notin {"write_copy", "swap_copy"})
         => PendingChannel(a)' = NextVector[a]'
  BY DEF PendingChannel, Republishing, Writers
<1> QED BY <1>1, <1>2, <1>3

\* The frames follow from the channels of the universes.
LEMMA FramesSame ==
    ASSUME active' = active,
           \A u \in active, c \in 1..UniverseLength :
              /\ Base(universes, u)' = Base(universes, u)
              /\ PendingChannel(Base(universes, u) + c - 1)' = PendingChannel(Base(universes, u) + c - 1)
              /\ CurrentVector[Base(universes, u) + c - 1]' = CurrentVector[Base(universes, u) + c - 1]
    PROVE  pend' = pend /\ live' = live
BY Zenon DEF pend, live

------------------------------------------------------------------------------
(* The calls in progress                                                   *)

\* The call of one thread, as the mapped state shows it.
OpOf(t) ==
    IF pc[t] \notin Asking THEN Frames!NoOp
    ELSE [kind |-> Kind(t), universe |-> call[t].universe, span |-> call[t].span,
          value |-> call[t].value,
          overlapped |-> call[t].stale \/ (Reconfiguring /\ HoldsIterator(t)),
          effect |-> ~HoldsIterator(t),
          result |-> IF pc[t] = "read_copy" /\ ~call[t].stale
                     THEN ReadResult(t) ELSE Unspecified]

LEMMA OpIs == op = [t \in Threads |-> OpOf(t)]
BY Zenon DEF op, OpOf, Asking, Frames!NoOp

LEMMA OpIsNext == op' = [t \in Threads |-> OpOf(t)']
BY Zenon DEF op, OpOf, Asking, Frames!NoOp

\* A call in progress, by its fields.
Asked(k, u, p, v, o, e, r) ==
    [kind |-> k, universe |-> u, span |-> p, value |-> v,
     overlapped |-> o, effect |-> e, result |-> r]

\* A call in progress is no NoOp.
LEMMA OpFacts ==
    ASSUME NEW t \in Threads, pc[t] \in Asking
    PROVE  /\ op[t] # Frames!NoOp
           /\ op[t].kind = Kind(t)
           /\ op[t].universe = call[t].universe
           /\ op[t].span = call[t].span
           /\ op[t].value = call[t].value
           /\ op[t].overlapped <=> (call[t].stale \/ (Reconfiguring /\ HoldsIterator(t)))
           /\ op[t].effect <=> ~HoldsIterator(t)
<1>1. op[t] = OpOf(t)
  BY OpIs
<1>2. op[t] = [kind |-> Kind(t), universe |-> call[t].universe, span |-> call[t].span,
          value |-> call[t].value,
          overlapped |-> call[t].stale \/ (Reconfiguring /\ HoldsIterator(t)),
          effect |-> ~HoldsIterator(t),
          result |-> IF pc[t] = "read_copy" /\ ~call[t].stale
                     THEN ReadResult(t) ELSE Unspecified]
  BY <1>1 DEF OpOf
<1>3. "effect" \in DOMAIN op[t] /\ DOMAIN Frames!NoOp = {"kind"}
  BY <1>2 DEF Frames!NoOp
<1>4. op[t] # Frames!NoOp
  BY <1>3
<1>5. /\ op[t].kind = Kind(t) /\ op[t].universe = call[t].universe
      /\ op[t].span = call[t].span /\ op[t].value = call[t].value
  BY <1>2
<1>6. op[t].overlapped = (call[t].stale \/ (Reconfiguring /\ HoldsIterator(t)))
  BY <1>2
<1>7. op[t].effect = ~HoldsIterator(t)
  BY <1>2
<1> QED BY <1>4, <1>5, <1>6, <1>7, Zenon

LEMMA OpIdle ==
    ASSUME NEW t \in Threads, pc[t] \notin Asking
    PROVE  op[t] = Frames!NoOp
BY OpIs DEF OpOf

\* What a thread asks does not change when neither it nor a reconfiguration
\* moves; a reader still has to find what it is about to copy.
LEMMA OpKept ==
    ASSUME NEW s \in Threads, Reconfiguring' <=> Reconfiguring, pc'[s] = pc[s],
           call'[s] = call[s], dst'[s] = dst[s],
           pc[s] = "read_copy" => CurrentVector' = CurrentVector
    PROVE  OpOf(s)' = OpOf(s)
<1>1. pc[s] = "read_copy" => ReadResult(s)' = ReadResult(s)
  BY Zenon DEF ReadResult
<1> QED BY <1>1, Zenon DEF OpOf, Kind, HoldsIterator

LEMMA IdleKept ==
    ASSUME NEW s \in Threads, pc[s] \notin Asking, pc'[s] \notin Asking
    PROVE  OpOf(s)' = OpOf(s)
BY DEF OpOf, Frames!NoOp

\* A reconfiguration goes on as long as no thread enters or leaves it.
LEMMA SameReconfiguring ==
    ASSUME \A s \in Threads : Resizing(s)' <=> Resizing(s)
    PROVE  Reconfiguring' <=> Reconfiguring
BY DEF Reconfiguring

\* Nothing that any thread asks changes.
LEMMA OpSame ==
    ASSUME \A s \in Threads : OpOf(s)' = OpOf(s)
    PROVE  op' = op
BY OpIs, OpIsNext, Zenon

\* One thread moves, and only what it asks changes.
LEMMA OpChanges ==
    ASSUME NEW t \in Threads, \A s \in Threads \ {t} : OpOf(s)' = OpOf(s)
    PROVE  op' = [op EXCEPT ![t] = OpOf(t)']
BY OpIs, OpIsNext

------------------------------------------------------------------------------
(* Steps that leave the frames alone                                       *)

AbstractStep == [Frames!Next]_(Frames!vars)

\* The pending channels stay the same unless a write or a swap moves.
LEMMA PendingUntouched ==
    ASSUME IInv, UNCHANGED <<CurrentVector, NextVector>>, NEW a,
           \A s \in Threads :
              \/ pc'[s] = pc[s] /\ call'[s] = call[s]
              \/ {pc[s], pc'[s]} \cap {"write_copy", "swap_copy"} = {}
    PROVE  PendingChannel(a)' = PendingChannel(a)
<1>1. CASE \E s \in Threads : pc[s] = "swap_copy"
  <2>1. PICK s \in Threads : pc[s] = "swap_copy"
    BY <1>1
  <2>2. pc'[s] = "swap_copy"
    BY <2>1
  <2> QED BY <2>1, <2>2, PendingChannels, PendingChannelsNext
<1>2. CASE \E s \in Threads : pc[s] = "write_copy"
  <2>1. PICK s \in Threads : pc[s] = "write_copy"
    BY <1>2
  <2>2. \A r \in Threads \ {s} : pc[r] \notin {"write_copy", "swap_copy"}
    BY <2>1, OneHolder DEF WriteHolders
  <2>3. pc'[s] = "write_copy" /\ call'[s] = call[s]
    BY <2>1
  <2>4. \A r \in Threads \ {s} : pc'[r] \notin {"write_copy", "swap_copy"}
    BY <2>2
  <2>5. Remaining(s)' = Remaining(s)
    BY <2>3, Zenon DEF Remaining
  <2>6. PendingChannel(a) = IF a \in Remaining(s) THEN call[s].value ELSE NextVector[a]
    BY <2>1, <2>2, PendingChannels
  <2>7. PendingChannel(a)' = IF a \in Remaining(s)' THEN call'[s].value ELSE NextVector[a]'
    BY <2>3, <2>4, PendingChannelsNext
  <2> QED BY <2>3, <2>5, <2>6, <2>7
<1>3. CASE \A s \in Threads : pc[s] \notin {"write_copy", "swap_copy"}
  <2>1. \A s \in Threads : pc'[s] \notin {"write_copy", "swap_copy"}
    BY <1>3
  <2> QED BY <1>3, <2>1, PendingChannels, PendingChannelsNext
<1> QED BY <1>1, <1>2, <1>3

\* A step that stores nothing and neither begins nor ends a write, a swap or a
\* reconfiguration.
LEMMA QuietStep ==
    ASSUME IInv, NEW t \in Threads,
           UNCHANGED <<universes, buffer, current>>,
           \A s \in Threads \ {t} : pc'[s] = pc[s] /\ call'[s] = call[s] /\ dst'[s] = dst[s],
           Resizing(t)' <=> Resizing(t),
           pc[t] \notin {"write_copy", "swap_copy"},
           pc'[t] \notin {"write_copy", "swap_copy"}
    PROVE  /\ active' = active /\ pend' = pend /\ live' = live
           /\ Reconfiguring' <=> Reconfiguring
           /\ op' = [op EXCEPT ![t] = OpOf(t)']
<1>1. Reconfiguring' <=> Reconfiguring
  BY SameReconfiguring DEF Resizing
<1>2. active' = active
  BY <1>1 DEF active
<1>3. UNCHANGED <<CurrentVector, NextVector>>
  BY DEF CurrentVector, NextVector, next
<1>4. ASSUME NEW a PROVE PendingChannel(a)' = PendingChannel(a)
  BY <1>3, PendingUntouched
<1>5. pend' = pend /\ live' = live
  <2>1. \A u : Base(universes, u)' = Base(universes, u)
    BY Zenon DEF Base
  <2> QED BY <1>2, <1>3, <1>4, <2>1, FramesSame
<1>6. \A s \in Threads \ {t} : OpOf(s)' = OpOf(s)
  BY <1>1, <1>3, OpKept
<1> QED BY <1>1, <1>2, <1>5, <1>6, OpChanges

\* A thread that asks nothing before the step and nothing after it.
LEMMA QuietStutter ==
    ASSUME IInv, NEW t \in Threads,
           UNCHANGED <<universes, buffer, current, crashed>>,
           \A s \in Threads \ {t} : pc'[s] = pc[s] /\ call'[s] = call[s] /\ dst'[s] = dst[s],
           Resizing(t)' <=> Resizing(t),
           pc[t] \notin {"write_copy", "swap_copy"},
           pc'[t] \notin {"write_copy", "swap_copy"},
           OpOf(t)' = OpOf(t)
    PROVE  AbstractStep
<1>1. op' = op
  <2>1. op' = [op EXCEPT ![t] = OpOf(t)']
    BY QuietStep
  <2> QED BY <2>1, OpIs
<1> QED BY <1>1, QuietStep, Stutters DEF AbstractStep

LEMMA WriteAbsentMaps == ASSUME IInv, NEW t \in Threads, WriteAbsent(t) \/ ReadRefused(t) PROVE AbstractStep
<1>1. /\ UNCHANGED <<universes, buffer, current, crashed, pc, call, dst>> /\ pc[t] = "idle"
  BY DEF WriteAbsent, ReadRefused, shared, Enter
<1>2. OpOf(t)' = OpOf(t) /\ (Resizing(t)' <=> Resizing(t))
  BY <1>1, IdleKept DEF Asking, Resizing
<1> QED BY <1>1, <1>2, QuietStutter

LEMMA QuietCallMaps ==
    ASSUME IInv, NEW t \in Threads, SwapCall(t) \/ SwapLock(t) \/ ResizeCall(t)
    PROVE  AbstractStep
<1>1. pc \in [Threads -> Labels]
  BY DEF IInv, TypeOK
<1>2. /\ UNCHANGED <<universes, buffer, current, crashed, call, dst>>
      /\ pc[t] \in {"idle", "swap_lock"}
      /\ \E at \in {"swap_lock", "swap_pointers", "resize_lock"} : pc' = [pc EXCEPT ![t] = at]
  BY DEF SwapCall, SwapLock, ResizeCall, shared, Enter, Goto
<1>3. /\ \A s \in Threads \ {t} : pc'[s] = pc[s]
      /\ pc'[t] \in {"swap_lock", "swap_pointers", "resize_lock"}
  BY <1>1, <1>2
<1>4. OpOf(t)' = OpOf(t) /\ (Resizing(t)' <=> Resizing(t))
  BY <1>2, <1>3, IdleKept DEF Asking, Resizing
<1> QED BY <1>2, <1>3, <1>4, QuietStutter

------------------------------------------------------------------------------
(* resize                                                                  *)

\* While the universes are replaced nothing is visible.
LEMMA RebuildStep ==
    ASSUME IInv, NEW t \in Threads, Resizing(t), Resizing(t)',
           \A s \in Threads \ {t} : pc'[s] = pc[s] /\ dst'[s] = dst[s],
           \A s \in Threads \ {t} :
              \/ call'[s] = call[s]
              \/ HoldsIterator(s) /\ call'[s] = [call[s] EXCEPT !.stale = TRUE]
    PROVE  /\ active' = active /\ pend' = pend /\ live' = live /\ op' = op
           /\ Reconfiguring' /\ Reconfiguring
<1>1. Reconfiguring /\ Reconfiguring'
  BY DEF Reconfiguring
<1>2. active = {} /\ active' = {}
  BY <1>1 DEF active
<1>3. pend' = pend /\ live' = live
  BY <1>2 DEF pend, live
<1>4. ASSUME NEW s \in Threads \ {t} PROVE OpOf(s)' = OpOf(s)
  <2>1. pc[s] # "read_copy"
    <3>1. mutex_read = t /\ t # NoThread
      BY ThreadAssumption DEF Resizing, IInv, LocksHeld, ReadHolders
    <3> QED BY <3>1 DEF IInv, LocksHeld, ReadHolders
  <2>2. CASE call'[s] = call[s]
    BY <1>1, <2>1, <2>2, OpKept
  <2>3. CASE HoldsIterator(s) /\ call'[s] = [call[s] EXCEPT !.stale = TRUE]
    <3>1. call[s] \in CallRecord
      BY DEF IInv, TypeOK
    <3>2. /\ call'[s].universe = call[s].universe /\ call'[s].span = call[s].span
          /\ call'[s].value = call[s].value /\ call'[s].stale
      BY <2>3, <3>1 DEF CallRecord
    <3>3. HoldsIterator(s)' /\ HoldsIterator(s) /\ Kind(s)' = Kind(s)
      BY <2>3 DEF HoldsIterator, Kind
    <3>4. OpOf(s) = [kind |-> Kind(s), universe |-> call[s].universe,
                     span |-> call[s].span, value |-> call[s].value,
                     overlapped |-> TRUE, effect |-> FALSE,
                     result |-> Unspecified]
      <4>1. (call[s].stale \/ (Reconfiguring /\ HoldsIterator(s))) = TRUE /\ (~HoldsIterator(s)) = FALSE
        BY <1>1, <3>3
      <4>2. pc[s] \in Asking
        BY <3>3 DEF HoldsIterator, Asking
      <4> QED BY <4>1, <4>2, <2>1, Zenon DEF OpOf
    <3>5. OpOf(s)' = [kind |-> Kind(s)', universe |-> call'[s].universe,
                      span |-> call'[s].span, value |-> call'[s].value,
                      overlapped |-> TRUE, effect |-> FALSE,
                      result |-> Unspecified]
      <4>1. /\ (call'[s].stale \/ (Reconfiguring' /\ HoldsIterator(s)')) = TRUE
            /\ (~HoldsIterator(s)') = FALSE /\ pc'[s] # "read_copy"
        BY <1>1, <3>3, <2>1
      <4>2. pc'[s] \in Asking
        BY <3>3 DEF HoldsIterator, Asking
      <4> QED BY <4>1, <4>2, Zenon DEF OpOf
    <3> QED BY <3>2, <3>3, <3>4, <3>5
  <2> QED BY <2>2, <2>3
<1>5. OpOf(t)' = OpOf(t)
  BY IdleKept DEF Resizing, Asking
<1>6. op' = op
  BY <1>4, <1>5, OpSame
<1> QED BY <1>1, <1>2, <1>3, <1>6

LEMMA RebuildMaps ==
    ASSUME IInv, ~crashed, NEW t \in Threads, ResizeUniverse(t) \/ ResizeCopy(t) \/ ResizeAssign(t)
    PROVE  AbstractStep
<1>1. pc \in [Threads -> Labels] /\ call \in [Threads -> CallRecord]
  BY DEF IInv, TypeOK
<1>2. /\ pc[t] \in {"resize_build", "resize_assign"}
      /\ dst' = dst
      /\ pc' = pc \/ \E at \in {"resize_assign", "resize_return"} : pc' = [pc EXCEPT ![t] = at]
      /\ \/ call' = call
         \/ call' = [s \in Threads |-> IF HoldsIterator(s)
                                  THEN [call[s] EXCEPT !.stale = TRUE] ELSE call[s]]
  <2>1. CASE ResizeUniverse(t)
    BY <2>1, Zenon DEF ResizeUniverse
  <2>2. CASE ResizeCopy(t)
    BY <2>2, Zenon DEF ResizeCopy, Goto
  <2>3. CASE ResizeAssign(t)
    BY <2>3 DEF ResizeAssign, Goto
  <2> QED BY <2>1, <2>2, <2>3
<1>3. crashed' = crashed \/ crashed' = TRUE
  <2>1. CASE ResizeUniverse(t)
    <3>1. PICK u \in rebuild.todo : KeepUniverse(u) \/ ClearUniverse
      BY <2>1, Zenon DEF ResizeUniverse
    <3>2. KeepUniverse(u) => crashed' = crashed \/ crashed' \in BOOLEAN
      BY Zenon DEF KeepUniverse
    <3>3. ClearUniverse => crashed' = crashed \/ crashed' = TRUE
      BY Zenon DEF ClearUniverse
    <3>4. crashed = FALSE
      BY DEF IInv, TypeOK
    <3> QED BY <3>1, <3>2, <3>3, <3>4
  <2>2. CASE ResizeCopy(t) \/ ResizeAssign(t)
    BY <2>2 DEF ResizeCopy, ResizeAssign
  <2> QED BY <2>1, <2>2
<1>4. /\ \A s \in Threads \ {t} : pc'[s] = pc[s] /\ dst'[s] = dst[s]
      /\ Resizing(t) /\ Resizing(t)'
  BY <1>1, <1>2 DEF Resizing
<1>5. \A s \in Threads \ {t} :
              \/ call'[s] = call[s]
              \/ HoldsIterator(s) /\ call'[s] = [call[s] EXCEPT !.stale = TRUE]
  BY <1>2
<1>6. /\ active' = active /\ pend' = pend /\ live' = live /\ op' = op
      /\ Reconfiguring' /\ Reconfiguring
  BY <1>4, <1>5, RebuildStep
<1>7. CASE crashed' = crashed
  BY <1>6, <1>7, Stutters DEF AbstractStep
<1>8. CASE crashed' = TRUE
  <2>1. Frames!Crash
    BY <1>6, <1>8 DEF Frames!Crash
  <2> QED BY <2>1 DEF AbstractStep, Frames!Next
<1> QED BY <1>3, <1>7, <1>8

LEMMA ResizeLockMaps ==
    ASSUME IInv, ~crashed, NEW t \in Threads, ResizeLock(t)
    PROVE  AbstractStep
<1>1. pc \in [Threads -> Labels] /\ call \in [Threads -> CallRecord]
  BY DEF IInv, TypeOK
<1>2. /\ pc[t] = "resize_lock" /\ pc' = [pc EXCEPT ![t] = "resize_build"]
      /\ UNCHANGED <<call, dst, crashed>> /\ mutex_read = NoThread /\ mutex_write = NoThread
  BY Zenon DEF ResizeLock, Goto, LockBoth
<1>3. \A s \in Threads : pc[s] \notin WriteHolders /\ pc[s] \notin ReadHolders
  BY <1>2, ThreadAssumption DEF IInv, LocksHeld
<1>4. ~Reconfiguring /\ Reconfiguring'
  BY <1>1, <1>2, <1>3 DEF Reconfiguring, Resizing, WriteHolders
<1>5. active' = {} /\ pend' = [u \in {} |-> 0] /\ live' = [u \in {} |-> 0]
  <2>1. active' = {}
    BY <1>4 DEF active
  <2> QED BY <2>1 DEF pend, live
<1>6. ASSUME NEW s \in Threads
      PROVE  OpOf(s)' = IF op[s] # Frames!NoOp /\ ~op[s].effect
                        THEN [op[s] EXCEPT !.overlapped = TRUE] ELSE op[s]
  <2>1. CASE pc[s] \in {"write_lock", "read_lock"}
    <3>1. pc[s] \in Asking /\ HoldsIterator(s)
      BY <2>1 DEF Asking, HoldsIterator
    <3>2. op[s] # Frames!NoOp /\ ~op[s].effect
      BY <3>1, OpFacts
    <3>3. pc'[s] = pc[s] /\ call'[s] = call[s]
      BY <1>1, <1>2, <2>1
    <3>4. op[s] = [kind |-> Kind(s), universe |-> call[s].universe,
                   span |-> call[s].span, value |-> call[s].value,
                   overlapped |-> call[s].stale \/ (Reconfiguring /\ HoldsIterator(s)),
                   effect |-> ~HoldsIterator(s), result |-> Unspecified]
      BY <3>1, <2>1, OpIs DEF OpOf
    <3>5. HoldsIterator(s)' /\ pc'[s] \in Asking /\ pc'[s] # "read_copy"
      BY <3>1, <3>3, <2>1 DEF HoldsIterator
    <3>6. /\ (call'[s].stale \/ (Reconfiguring' /\ HoldsIterator(s)')) = TRUE
          /\ (~HoldsIterator(s)') = (~HoldsIterator(s))
      BY <1>4, <3>1, <3>5
    <3>7. OpOf(s)' = [kind |-> Kind(s)', universe |-> call'[s].universe,
                      span |-> call'[s].span, value |-> call'[s].value,
                      overlapped |-> TRUE, effect |-> ~HoldsIterator(s),
                      result |-> Unspecified]
      BY <3>5, <3>6, Zenon DEF OpOf
    <3>8. Kind(s)' = Kind(s)
      BY <3>3 DEF Kind
    <3>9. OpOf(s)' = [op[s] EXCEPT !.overlapped = TRUE]
      <4>1. op[s] = Asked(Kind(s), call[s].universe, call[s].span, call[s].value,
                          call[s].stale \/ (Reconfiguring /\ HoldsIterator(s)),
                          ~HoldsIterator(s), Unspecified)
        BY <3>4, Zenon DEF Asked
      <4>2. OpOf(s)' = Asked(Kind(s), call[s].universe, call[s].span, call[s].value,
                             TRUE, ~HoldsIterator(s), Unspecified)
        BY <3>3, <3>7, <3>8, Zenon DEF Asked
      <4> DEFINE o == call[s].stale \/ (Reconfiguring /\ HoldsIterator(s))
                 e == ~HoldsIterator(s)
                 k == Kind(s)
      <4>3. op[s] = Asked(k, call[s].universe, call[s].span, call[s].value, o, e, Unspecified)
        BY <4>1
      <4>4. OpOf(s)' = Asked(k, call[s].universe, call[s].span, call[s].value, TRUE, e, Unspecified)
        BY <4>2
      <4> HIDE DEF o, e, k
      <4>5. \A w : [op[s] EXCEPT !.overlapped = w]
                     = Asked(k, call[s].universe, call[s].span, call[s].value, w, e, Unspecified)
        BY <4>3 DEF Asked
      <4> QED BY <4>4, <4>5
    <3> QED BY <3>2, <3>9
  <2>2. CASE pc[s] \notin {"write_lock", "read_lock"}
    <3>1. pc[s] \notin Asking /\ pc'[s] \notin Asking
      BY <1>1, <1>2, <1>3, <2>2 DEF Asking, WriteHolders, ReadHolders
    <3> QED BY <3>1, OpIdle, OpIs, IdleKept
  <2> QED BY <2>1, <2>2
<1>7. op' = [s \in Threads |-> IF op[s] # Frames!NoOp /\ ~op[s].effect
                               THEN [op[s] EXCEPT !.overlapped = TRUE] ELSE op[s]]
  BY <1>6, OpIsNext, Zenon
<1>8. Reconfiguring' = TRUE
  BY <1>4 DEF Reconfiguring
<1>9. Frames!BeginReconfigure
  BY <1>2, <1>4, <1>5, <1>7, <1>8, Zenon DEF Frames!BeginReconfigure
<1> QED BY <1>9 DEF AbstractStep, Frames!Next

\* The channels that a layout may show hold values.
LEMMA HomeValue ==
    ASSUME NEW S \in SUBSET Addresses, NEW f \in Vectors, DOMAIN f = Offsets(Size(S)),
           NEW u \in S, NEW c \in 1..UniverseLength
    PROVE  f[Base(S, u) + c - 1] \in Values
<1>1. /\ Base(S, u) \in Nat /\ Size(S) \in Nat
      /\ Base(S, u) + UniverseLength <= Size(S)
  BY LayoutType, RegionFits
<1>2. Base(S, u) + c - 1 \in Offsets(Size(S))
  BY <1>1, LengthAssumption DEF Offsets
<1>3. f \in [DOMAIN f -> Values]
  BY DEF Vectors
<1> QED BY <1>2, <1>3

LEMMA ResizeReturnMaps ==
    ASSUME IInv, IInv', MapInv, ~crashed, NEW t \in Threads, ResizeReturn(t)
    PROVE  AbstractStep
<1>1. pc \in [Threads -> Labels] /\ call \in [Threads -> CallRecord]
  BY DEF IInv, TypeOK
<1>2. /\ pc[t] = "resize_return" /\ pc' = [pc EXCEPT ![t] = "idle"]
      /\ UNCHANGED <<buffer, current, call, dst, crashed>>
      /\ universes' = rebuild.new
  BY Zenon DEF ResizeReturn, Goto
<1>3. \A s \in Threads \ {t} : pc[s] \notin WriteHolders /\ pc[s] \notin ReadHolders
  BY <1>2, ThreadAssumption DEF IInv, LocksHeld, WriteHolders, ReadHolders
<1>4. Reconfiguring /\ ~Reconfiguring'
  BY <1>1, <1>2, <1>3 DEF Reconfiguring, Resizing, WriteHolders
<1>5. active' = universes' /\ universes' \in SUBSET Addresses
  BY <1>4 DEF active, IInv, TypeOK
<1>6. /\ NextVector' = CurrentVector' /\ NextVector' \in Vectors
      /\ DOMAIN NextVector' = Offsets(Size(universes'))
  <2>1. buffer["a"] = buffer["b"]
    BY <1>2 DEF MapInv
  <2>2. current \in {"a", "b"} /\ buffer \in [{"a", "b"} -> Vectors]
    BY DEF IInv, TypeOK
  <2>3. \A b \in {"a", "b"} : DOMAIN buffer[b] = Offsets(Size(universes'))
    BY <1>2 DEF IInv, RebuildFits
  <2> QED BY <1>2, <2>1, <2>2, <2>3 DEF NextVector, CurrentVector, next
<1>7. ASSUME NEW a PROVE PendingChannel(a)' = NextVector[a]'
  <2>1. \A s \in Threads : pc'[s] \notin {"write_copy", "swap_copy"}
    BY <1>1, <1>2, <1>3 DEF WriteHolders
  <2> QED BY <2>1, PendingChannelsNext
<1>8. pend' \in [active' -> [1..UniverseLength -> Values]]
  <2>1. \A u \in active', c \in 1..UniverseLength :
           PendingChannel(Base(universes, u) + c - 1)' \in Values
    <3> SUFFICES ASSUME NEW u \in active', NEW c \in 1..UniverseLength
                 PROVE  PendingChannel(Base(universes, u) + c - 1)' \in Values
      BY Zenon
    <3>1. NextVector'[Base(universes', u) + c - 1] \in Values
      BY <1>5, <1>6, HomeValue
    <3> QED BY <3>1, <1>7
  <2> QED BY <2>1, Zenon DEF pend
<1>9. live' = pend'
  BY <1>6, <1>7, Zenon DEF live, pend
<1>10. op' = op
  <2>1. ASSUME NEW s \in Threads \ {t} PROVE OpOf(s)' = OpOf(s)
    <3>1. CASE HoldsIterator(s)
      <4>1. call[s].stale
        BY <1>2, <3>1 DEF IInv, AssignMarks
      <4>2. pc'[s] = pc[s] /\ call'[s] = call[s] /\ (HoldsIterator(s)' <=> HoldsIterator(s))
        BY <1>1, <1>2 DEF HoldsIterator
      <4>3. /\ (call[s].stale \/ (Reconfiguring /\ HoldsIterator(s))) = TRUE
            /\ (call'[s].stale \/ (Reconfiguring' /\ HoldsIterator(s)')) = TRUE
            /\ (~HoldsIterator(s)') = (~HoldsIterator(s))
        BY <4>1, <4>2
      <4>4. pc[s] # "read_copy"
        BY <3>1 DEF HoldsIterator
      <4> QED BY <4>2, <4>3, <4>4, Zenon DEF OpOf, Kind
    <3>2. CASE ~HoldsIterator(s)
      <4>1. pc[s] \notin Asking /\ pc'[s] \notin Asking
        BY <1>1, <1>2, <1>3, <3>2 DEF Asking, HoldsIterator, WriteHolders, ReadHolders
      <4> QED BY <4>1, IdleKept
    <3> QED BY <3>1, <3>2
  <2>2. OpOf(t)' = OpOf(t)
    BY <1>1, <1>2, IdleKept DEF Asking
  <2> QED BY <2>1, <2>2, OpSame
<1>11. Reconfiguring' = FALSE
  BY <1>4 DEF Reconfiguring
<1>12. Frames!EndReconfigure
  BY <1>2, <1>4, <1>5, <1>8, <1>9, <1>10, <1>11
     DEF Frames!EndReconfigure, Frames!Frames, Frames!Channels
<1> QED BY <1>12 DEF AbstractStep, Frames!Next

------------------------------------------------------------------------------
(* write and read: the beginning and the end of a call                     *)

LEMMA RacingFindMaps ==
    ASSUME IInv, ~crashed, NEW t \in Threads, RacingFind(t)
    PROVE  AbstractStep
<1>1. /\ UNCHANGED <<universes, buffer, current, pc, call, dst>>
      /\ pc[t] = "idle" /\ assigning /\ crashed' = TRUE
  BY DEF RacingFind, shared, Enter
<1>2. OpOf(t)' = OpOf(t) /\ (Resizing(t)' <=> Resizing(t))
  BY <1>1, IdleKept DEF Asking, Resizing
<1>3. Reconfiguring
  BY <1>1 DEF IInv, AssignMarks, Reconfiguring, Resizing
<1>4. op' = op /\ active' = active /\ pend' = pend /\ live' = live
      /\ (Reconfiguring' <=> Reconfiguring)
  <2>1. op' = [op EXCEPT ![t] = OpOf(t)'] /\ active' = active /\ pend' = pend /\ live' = live
        /\ (Reconfiguring' <=> Reconfiguring)
    BY <1>1, <1>2, QuietStep
  <2> QED BY <2>1, <1>2, OpIs
<1>5. Reconfiguring' = Reconfiguring
  BY <1>4 DEF Reconfiguring
<1>6. Frames!Crash
  BY <1>1, <1>3, <1>4, <1>5 DEF Frames!Crash
<1> QED BY <1>6 DEF AbstractStep, Frames!Next

LEMMA FindMaps ==
    ASSUME IInv, ~crashed, NEW t \in Threads, WriteFind(t) \/ ReadFind(t)
    PROVE  AbstractStep
<1>1. pc \in [Threads -> Labels] /\ call \in [Threads -> CallRecord] /\ 0 \in Values
  BY ValueAssumption DEF IInv, TypeOK
<1>2. PICK u \in Addresses, span \in Spans, value \in Values,
           kind \in {"write", "read"}, at \in {"write_lock", "read_lock"} :
           LookUp(t, u, span, value, at) /\ (kind = "write" <=> at = "write_lock")
  BY <1>1 DEF WriteFind, ReadFind
<1>3. UNCHANGED <<universes, buffer, current, dst, crashed>> /\ pc[t] = "idle"
  BY DEF WriteFind, ReadFind, shared, Enter
<1>4. /\ \A s \in Threads \ {t} : pc'[s] = pc[s] /\ call'[s] = call[s]
      /\ pc'[t] = at
      /\ call'[t] = [universe |-> u, span |-> span, value |-> value,
                     it |-> Base(universes, u), k |-> 0, stale |-> assigning]
      /\ u \in universes \/ assigning
  BY <1>1, <1>2 DEF LookUp, Goto, Found
<1>5. assigning => Reconfiguring
  BY DEF IInv, AssignMarks, Reconfiguring, Resizing
<1>6. /\ active' = active /\ pend' = pend /\ live' = live
      /\ Reconfiguring' <=> Reconfiguring
      /\ op' = [op EXCEPT ![t] = OpOf(t)']
  BY <1>3, <1>4, QuietStep DEF Resizing
<1>7. OpOf(t)' = Frames!Request(kind, u, span, value)
  <2>1. pc'[t] \in Asking /\ Kind(t)' = kind /\ pc'[t] # "read_copy" /\ HoldsIterator(t)'
    BY <1>2, <1>4 DEF Asking, Kind, HoldsIterator
  <2>2. /\ (call'[t].stale \/ (Reconfiguring' /\ HoldsIterator(t)')) = Reconfiguring
        /\ (~HoldsIterator(t)') = FALSE
    <3>1. call'[t].stale = assigning
      BY <1>4
    <3>2. (call'[t].stale \/ (Reconfiguring' /\ HoldsIterator(t)')) <=> Reconfiguring
      BY <1>5, <1>6, <2>1, <3>1
    <3> QED BY <3>2, <2>1 DEF Reconfiguring
  <2>3. call'[t].universe = u /\ call'[t].span = span /\ call'[t].value = value
    BY <1>4
  <2>4. OpOf(t)' = [kind |-> Kind(t)', universe |-> call'[t].universe,
                    span |-> call'[t].span, value |-> call'[t].value,
                    overlapped |-> call'[t].stale \/ (Reconfiguring' /\ HoldsIterator(t)'),
                    effect |-> ~HoldsIterator(t)', result |-> Unspecified]
    BY <2>1, Zenon DEF OpOf
  <2> QED BY <2>1, <2>2, <2>3, <2>4, Zenon DEF Frames!Request
<1>8. op[t] = Frames!NoOp
  BY <1>3, OpIdle DEF Asking
<1>9. Reconfiguring \/ u \in active
  BY <1>4, <1>5 DEF active
<1>10. Reconfiguring' = Reconfiguring
  BY <1>6 DEF Reconfiguring
<1>11. Frames!Start(t)
  BY <1>3, <1>6, <1>7, <1>8, <1>9, <1>10, Zenon DEF Frames!Start
<1> QED BY <1>11 DEF AbstractStep, Frames!Next

LEMMA ReadReturnMaps ==
    ASSUME IInv, ~crashed, NEW t \in Threads, ReadReturn(t)
    PROVE  AbstractStep
<1>1. pc \in [Threads -> Labels] /\ call \in [Threads -> CallRecord]
      /\ dst \in [Threads -> [0 .. UniverseLength -> Values]]
  BY DEF IInv, TypeOK
<1>2. /\ UNCHANGED <<universes, buffer, current, crashed>>
      /\ pc[t] = "read_copy" /\ pc' = [pc EXCEPT ![t] = "idle"]
      /\ call' = [call EXCEPT ![t] = NoCall] /\ dst' = [dst EXCEPT ![t] = Blank]
  BY DEF ReadReturn, shared, Finish, Goto
<1>3. /\ \A s \in Threads \ {t} : pc'[s] = pc[s] /\ call'[s] = call[s] /\ dst'[s] = dst[s]
      /\ pc'[t] = "idle"
  BY <1>1, <1>2
<1>4. /\ active' = active /\ pend' = pend /\ live' = live
      /\ Reconfiguring' <=> Reconfiguring
      /\ op' = [op EXCEPT ![t] = OpOf(t)']
  BY <1>2, <1>3, QuietStep DEF Resizing
<1>5. OpOf(t)' = Frames!NoOp
  BY <1>3 DEF OpOf, Asking
<1>6. op[t] # Frames!NoOp /\ op[t].effect
  BY <1>2, OpFacts DEF Asking, HoldsIterator
<1>7. Reconfiguring' = Reconfiguring
  BY <1>4 DEF Reconfiguring
<1>8. Frames!Return(t)
  BY <1>2, <1>4, <1>5, <1>6, <1>7, Zenon DEF Frames!Return
<1> QED BY <1>8 DEF AbstractStep, Frames!Next

\* A step of the writer that holds the mutex: the frames stay the same as long
\* as the channels that the writer has still to copy are those it has not
\* stored yet.
LEMMA WriterStep ==
    ASSUME IInv, NEW t \in Threads, pc[t] = "write_copy", pc'[t] \in {"write_copy", "idle"},
           UNCHANGED <<universes, current>>, CurrentVector' = CurrentVector,
           \A s \in Threads \ {t} : pc'[s] = pc[s] /\ call'[s] = call[s] /\ dst'[s] = dst[s],
           \A a \in DOMAIN NextVector :
              (IF pc'[t] = "write_copy" /\ a \in Remaining(t)' THEN call'[t].value ELSE NextVector'[a])
              = (IF a \in Remaining(t) THEN call[t].value ELSE NextVector[a])
    PROVE  /\ active' = active /\ pend' = pend /\ live' = live
           /\ Reconfiguring' <=> Reconfiguring
           /\ op' = [op EXCEPT ![t] = OpOf(t)']
<1>1. Reconfiguring' <=> Reconfiguring
  BY SameReconfiguring DEF Resizing
<1>2. active' = active
  BY <1>1 DEF active
<1>3. \A r \in Threads \ {t} : /\ pc[r] \notin {"write_copy", "swap_copy"}
                               /\ pc'[r] \notin {"write_copy", "swap_copy"}
  BY OneHolder DEF WriteHolders
<1>4. ASSUME NEW a \in DOMAIN NextVector PROVE PendingChannel(a)' = PendingChannel(a)
  <2>1. PendingChannel(a) = IF a \in Remaining(t) THEN call[t].value ELSE NextVector[a]
    BY <1>3, PendingChannels
  <2>2. PendingChannel(a)' = IF pc'[t] = "write_copy" /\ a \in Remaining(t)'
                             THEN call'[t].value ELSE NextVector'[a]
    <3>1. CASE pc'[t] = "write_copy"
      BY <3>1, <1>3, PendingChannelsNext
    <3>2. CASE pc'[t] = "idle"
      <4>1. \A r \in Threads : pc'[r] \notin {"write_copy", "swap_copy"}
        BY <1>3, <3>2
      <4>2. PendingChannel(a)' = NextVector[a]'
        BY <4>1, PendingChannelsNext
      <4> QED BY <4>2, <3>2
    <3> QED BY <3>1, <3>2
  <2> QED BY <2>1, <2>2
<1>5. pend' = pend /\ live' = live
  <2>1. \A u : Base(universes, u)' = Base(universes, u)
    BY Zenon DEF Base
  <2>2. \A u \in active, c \in 1..UniverseLength :
           Base(universes, u) + c - 1 \in DOMAIN NextVector
    <3>1. next \in {"a", "b"}
      BY DEF next
    <3> QED BY <3>1, HomeInVector DEF NextVector
  <2> QED BY <1>2, <1>4, <2>1, <2>2, FramesSame
<1>6. \A s \in Threads \ {t} : OpOf(s)' = OpOf(s)
  BY <1>1, OpKept
<1> QED BY <1>1, <1>2, <1>5, <1>6, OpChanges

------------------------------------------------------------------------------
(* write and read: the copy                                                *)

LEMMA WriteReturnMaps ==
    ASSUME IInv, ~crashed, NEW t \in Threads, WriteReturn(t)
    PROVE  AbstractStep
<1>1. pc \in [Threads -> Labels] /\ call \in [Threads -> CallRecord]
      /\ dst \in [Threads -> [0 .. UniverseLength -> Values]]
  BY DEF IInv, TypeOK
<1>2. /\ UNCHANGED <<universes, buffer, current, crashed>>
      /\ pc[t] = "write_copy" /\ pc' = [pc EXCEPT ![t] = "idle"]
      /\ call' = [call EXCEPT ![t] = NoCall] /\ dst' = [dst EXCEPT ![t] = Blank]
      /\ call[t].k = call[t].span.count
  BY DEF WriteReturn, shared, Finish, Goto
<1>3. /\ \A s \in Threads \ {t} : pc'[s] = pc[s] /\ call'[s] = call[s] /\ dst'[s] = dst[s]
      /\ pc'[t] = "idle"
  BY <1>1, <1>2
<1>4. Remaining(t) = {}
  <2>1. call[t].k \in Nat
    BY <1>1 DEF CallRecord
  <2>2. call[t].k .. call[t].span.count - 1 = {}
    BY <1>2, <2>1
  <2> QED BY <2>2 DEF Remaining
<1>5. UNCHANGED <<CurrentVector, NextVector>>
  BY <1>2 DEF CurrentVector, NextVector, next
<1>6. /\ active' = active /\ pend' = pend /\ live' = live
      /\ Reconfiguring' <=> Reconfiguring
      /\ op' = [op EXCEPT ![t] = OpOf(t)']
  <2>1. \A a \in DOMAIN NextVector :
              (IF pc'[t] = "write_copy" /\ a \in Remaining(t)' THEN call'[t].value ELSE NextVector'[a])
              = (IF a \in Remaining(t) THEN call[t].value ELSE NextVector[a])
    BY <1>3, <1>4, <1>5
  <2> QED BY <1>2, <1>3, <1>5, <2>1, WriterStep
<1>7. OpOf(t)' = Frames!NoOp
  BY <1>3 DEF OpOf, Asking
<1>8. op[t] # Frames!NoOp /\ op[t].effect
  BY <1>2, OpFacts DEF Asking, HoldsIterator
<1>9. Reconfiguring' = Reconfiguring
  BY <1>6 DEF Reconfiguring
<1>10. Frames!Return(t)
  BY <1>2, <1>6, <1>7, <1>8, <1>9, Zenon DEF Frames!Return
<1> QED BY <1>10 DEF AbstractStep, Frames!Next

\* A copy that goes wrong crashes, if at all, because a reconfiguration
\* overtook it.
LEMMA CopyCrash ==
    ASSUME IInv, SpansInRange, ~crashed, NEW t \in Threads, WriteCopy(t) \/ ReadCopy(t),
           active' = active, pend' = pend, live' = live, op' = op,
           Reconfiguring' <=> Reconfiguring, call[t].stale \/ crashed' = crashed
    PROVE  AbstractStep
<1>1. pc[t] \in {"write_copy", "read_copy"} /\ (crashed' = crashed \/ crashed' = TRUE)
  <2>1. crashed = FALSE
    BY DEF IInv, TypeOK
  <2>2. ASSUME WriteCopy(t) PROVE pc[t] = "write_copy" /\ crashed' \in BOOLEAN
    BY <2>1, <2>2, Zenon DEF WriteCopy, Undefined
  <2>3. ASSUME ReadCopy(t) PROVE pc[t] = "read_copy" /\ crashed' \in BOOLEAN
    BY <2>1, <2>3, Zenon DEF ReadCopy
  <2> QED BY <2>1, <2>2, <2>3
<1>2. CASE crashed' = crashed
  BY <1>2, Stutters DEF AbstractStep
<1>3. CASE crashed' = TRUE /\ call[t].stale
  <2>1. op[t] # Frames!NoOp /\ op[t].overlapped
    BY <1>1, <1>3, OpFacts DEF Asking
  <2>2. Reconfiguring' = Reconfiguring
    BY DEF Reconfiguring
  <2>3. Frames!Crash
    BY <1>3, <2>1, <2>2 DEF Frames!Crash
  <2> QED BY <2>3 DEF AbstractStep, Frames!Next
<1> QED BY <1>1, <1>2, <1>3

\* A copy that no reconfiguration overtook stays within both vectors.
LEMMA FreshTarget ==
    ASSUME IInv, SpansInRange, NEW t \in Threads, pc[t] \in {"write_copy", "read_copy"},
           call[t].k < call[t].span.count, ~call[t].stale
    PROVE  Target(t) \in DOMAIN CurrentVector /\ Target(t) \in DOMAIN NextVector
<1>1. InRange(call[t].span)
  BY DEF IInv, FreshIterators, Iterating, SpansInRange
<1>2. Target(t) \in DOMAIN buffer["a"] \cap DOMAIN buffer["b"]
  BY <1>1, FreshAtHome DEF FreshAccessAtHome, Copying
<1>3. current \in {"a", "b"} /\ next \in {"a", "b"}
  BY DEF IInv, TypeOK, next
<1> QED BY <1>2, <1>3 DEF CurrentVector, NextVector

LEMMA WriteCopyMaps ==
    ASSUME IInv, SpansInRange, ~crashed, NEW t \in Threads, WriteCopy(t)
    PROVE  AbstractStep
<1>1. pc \in [Threads -> Labels] /\ call \in [Threads -> CallRecord]
      /\ current \in {"a", "b"} /\ buffer \in [{"a", "b"} -> Vectors]
  BY DEF IInv, TypeOK
<1>2. /\ UNCHANGED <<universes, current, dst, pc>> /\ pc[t] = "write_copy"
      /\ call' = [call EXCEPT ![t].k = @ + 1] /\ call[t].k < call[t].span.count
      /\ \/ /\ Target(t) \in DOMAIN NextVector
            /\ buffer' = [buffer EXCEPT ![next][Target(t)] = call[t].value]
            /\ crashed' = crashed
         \/ /\ Target(t) \notin DOMAIN NextVector
            /\ buffer' = buffer
  BY Zenon DEF WriteCopy, Undefined, Advance
<1>3. \A s \in Threads \ {t} : pc'[s] = pc[s] /\ call'[s] = call[s] /\ dst'[s] = dst[s]
  BY <1>1, <1>2
<1>4. /\ call'[t].k = call[t].k + 1 /\ call'[t].universe = call[t].universe
      /\ call'[t].span = call[t].span /\ call'[t].value = call[t].value
      /\ call'[t].it = call[t].it /\ call'[t].stale = call[t].stale
  BY <1>1, <1>2 DEF CallRecord
<1>5. /\ CurrentVector' = CurrentVector
      /\ \A a \in DOMAIN NextVector \ {Target(t)} : NextVector'[a] = NextVector[a]
      /\ Target(t) \in DOMAIN NextVector => NextVector'[Target(t)] = call[t].value
  <2>1. next' = next /\ next # current /\ next \in {"a", "b"}
    BY <1>1, <1>2 DEF next
  <2>2. CASE buffer' = buffer /\ Target(t) \notin DOMAIN NextVector
    BY <1>2, <2>1, <2>2 DEF CurrentVector, NextVector
  <2>3. CASE Target(t) \in DOMAIN NextVector
             /\ buffer' = [buffer EXCEPT ![next][Target(t)] = call[t].value]
    <3>1. buffer'[current] = buffer[current]
      BY <1>1, <2>1, <2>3
    <3>2. buffer'[next] = [buffer[next] EXCEPT ![Target(t)] = call[t].value]
      BY <1>1, <2>1, <2>3
    <3> QED BY <1>2, <2>1, <2>3, <3>1, <3>2 DEF CurrentVector, NextVector
  <2> QED BY <1>2, <2>2, <2>3
<1>6. \A a : a \in Remaining(t) <=> a \in Remaining(t)' \/ a = Target(t)
  <2>1. call[t].k \in Nat /\ call[t].it \in Nat /\ call[t].span \in [channel : Int, count : Nat]
    BY <1>1 DEF CallRecord
  <2>2. call[t].k .. call[t].span.count - 1
          = {call[t].k} \cup (call'[t].k .. call'[t].span.count - 1)
    BY <1>2, <1>4, <2>1
  <2>3. Remaining(t)' = {call[t].it + (call[t].span.channel - 1) + j :
                            j \in call'[t].k .. call'[t].span.count - 1}
    BY <1>4, Zenon DEF Remaining
  <2>4. Remaining(t) = {call[t].it + (call[t].span.channel - 1) + j :
                           j \in {call[t].k} \cup (call'[t].k .. call'[t].span.count - 1)}
    BY <2>2, Zenon DEF Remaining
  <2> QED BY <2>3, <2>4 DEF Target
<1>7. \A a \in DOMAIN NextVector :
              (IF pc'[t] = "write_copy" /\ a \in Remaining(t)' THEN call'[t].value ELSE NextVector'[a])
              = (IF a \in Remaining(t) THEN call[t].value ELSE NextVector[a])
  BY <1>2, <1>4, <1>5, <1>6
<1>8. /\ active' = active /\ pend' = pend /\ live' = live
      /\ Reconfiguring' <=> Reconfiguring
      /\ op' = [op EXCEPT ![t] = OpOf(t)']
  BY <1>2, <1>3, <1>5, <1>7, WriterStep
<1>9. OpOf(t)' = OpOf(t)
  <2>1. pc'[t] = "write_copy" /\ pc[t] = "write_copy"
    BY <1>2
  <2> QED BY <1>4, <1>8, <2>1, Zenon DEF OpOf, Kind, HoldsIterator
<1>10. op' = op
  BY <1>8, <1>9, OpIs
<1>11. call[t].stale \/ crashed' = crashed
  BY <1>2, FreshTarget
<1> QED BY <1>8, <1>10, <1>11, CopyCrash

LEMMA ReadCopyMaps ==
    ASSUME IInv, SpansInRange, ~crashed, NEW t \in Threads, ReadCopy(t)
    PROVE  AbstractStep
<1>1. pc \in [Threads -> Labels] /\ call \in [Threads -> CallRecord]
      /\ dst \in [Threads -> [0 .. UniverseLength -> Values]]
  BY DEF IInv, TypeOK
<1>2. /\ UNCHANGED <<universes, buffer, current, pc>> /\ pc[t] = "read_copy"
      /\ call' = [call EXCEPT ![t].k = @ + 1] /\ call[t].k < call[t].span.count
      /\ \E value : dst' = [dst EXCEPT ![t][call[t].k] = value]
      /\ Target(t) \in DOMAIN CurrentVector =>
            dst' = [dst EXCEPT ![t][call[t].k] = CurrentVector[Target(t)]] /\ crashed' = crashed
  BY Zenon DEF ReadCopy, Advance, shared
<1>3. \A s \in Threads \ {t} : pc'[s] = pc[s] /\ call'[s] = call[s] /\ dst'[s] = dst[s]
  BY <1>1, <1>2
<1>4. /\ call'[t].k = call[t].k + 1 /\ call'[t].universe = call[t].universe
      /\ call'[t].span = call[t].span /\ call'[t].value = call[t].value
      /\ call'[t].it = call[t].it /\ call'[t].stale = call[t].stale
  BY <1>1, <1>2 DEF CallRecord
<1>5. /\ active' = active /\ pend' = pend /\ live' = live
      /\ Reconfiguring' <=> Reconfiguring
      /\ op' = [op EXCEPT ![t] = OpOf(t)']
  BY <1>2, <1>3, QuietStep DEF Resizing
<1>6. CurrentVector' = CurrentVector
  BY <1>2 DEF CurrentVector
<1>7. ~call[t].stale => ReadResult(t)' = ReadResult(t)
  <2> SUFFICES ASSUME ~call[t].stale PROVE ReadResult(t)' = ReadResult(t)
    OBVIOUS
  <2>1. call[t].k \in Nat /\ call[t].span \in [channel : Int, count : Nat]
        /\ call[t].span.count <= UniverseLength
    <3>1. InRange(call[t].span)
      BY <1>2 DEF IInv, FreshIterators, Iterating, SpansInRange
    <3> QED BY <1>1, <3>1, LengthAssumption DEF CallRecord, InRange
  <2>2. dst' = [dst EXCEPT ![t][call[t].k] = CurrentVector[Target(t)]]
    BY <1>2, FreshTarget
  <2>3. call[t].k \in 0 .. UniverseLength
    BY <1>2, <2>1, LengthAssumption
  <2>4. \A j \in 0 .. call[t].span.count - 1 :
           (IF j < call'[t].k THEN dst'[t][j]
            ELSE CurrentVector[call[t].it + (call[t].span.channel - 1) + j])
           = (IF j < call[t].k THEN dst[t][j]
              ELSE CurrentVector[call[t].it + (call[t].span.channel - 1) + j])
    <3> SUFFICES ASSUME NEW j \in 0 .. call[t].span.count - 1
                 PROVE  (IF j < call'[t].k THEN dst'[t][j]
                         ELSE CurrentVector[call[t].it + (call[t].span.channel - 1) + j])
                        = (IF j < call[t].k THEN dst[t][j]
                           ELSE CurrentVector[call[t].it + (call[t].span.channel - 1) + j])
      OBVIOUS
    <3>1. dst'[t] = [dst[t] EXCEPT ![call[t].k] = CurrentVector[Target(t)]]
      BY <1>1, <2>2
    <3>2. CASE j = call[t].k
      <4>1. dst'[t][j] = CurrentVector[Target(t)]
        BY <1>1, <2>3, <3>1, <3>2
      <4>2. Target(t) = call[t].it + (call[t].span.channel - 1) + j
        BY <3>2 DEF Target
      <4>3. j < call'[t].k /\ ~(j < call[t].k)
        BY <1>4, <2>1, <3>2
      <4> QED BY <4>1, <4>2, <4>3
    <3>3. CASE j # call[t].k
      <4>1. dst'[t][j] = dst[t][j]
        BY <1>1, <2>1, <3>1, <3>3
      <4>2. j < call'[t].k <=> j < call[t].k
        BY <1>4, <2>1, <3>3
      <4> QED BY <4>1, <4>2
    <3> QED BY <3>2, <3>3
  <2> QED BY <1>4, <1>6, <2>4, Zenon DEF ReadResult
<1>8. OpOf(t)' = OpOf(t)
  <2>1. pc'[t] = "read_copy" /\ pc[t] = "read_copy"
    BY <1>2
  <2>2. HoldsIterator(t)' = HoldsIterator(t) /\ Kind(t)' = Kind(t)
    BY <2>1 DEF HoldsIterator, Kind
  <2>3. (call[t].stale \/ (Reconfiguring /\ HoldsIterator(t)))
         = (call'[t].stale \/ (Reconfiguring' /\ HoldsIterator(t)'))
    BY <1>4, <1>5, <2>2
  <2>4. (IF pc[t] = "read_copy" /\ ~call[t].stale THEN ReadResult(t) ELSE Unspecified)
        = (IF pc'[t] = "read_copy" /\ ~call'[t].stale THEN ReadResult(t)' ELSE Unspecified)
    BY <1>4, <1>7, <2>1
  <2> QED BY <1>4, <2>1, <2>2, <2>3, <2>4, Zenon DEF OpOf
<1>9. op' = op
  BY <1>5, <1>8, OpIs
<1>10. call[t].stale \/ crashed' = crashed
  BY <1>2, FreshTarget
<1> QED BY <1>5, <1>9, <1>10, CopyCrash

------------------------------------------------------------------------------
(* swap                                                                    *)

LEMMA SwapPointersMaps ==
    ASSUME IInv, ~crashed, NEW t \in Threads, SwapPointers(t)
    PROVE  AbstractStep
<1>1. pc \in [Threads -> Labels] /\ current \in {"a", "b"}
  BY DEF IInv, TypeOK
<1>2. /\ UNCHANGED <<universes, buffer, call, dst, crashed>> /\ current' = next
      /\ pc[t] = "swap_pointers" /\ pc' = [pc EXCEPT ![t] = "swap_copy"]
  BY Zenon DEF SwapPointers, Goto
<1>3. /\ \A s \in Threads \ {t} : pc'[s] = pc[s]
      /\ \A s \in Threads \ {t} : pc[s] \notin WriteHolders /\ pc[s] \notin ReadHolders
      /\ pc'[t] = "swap_copy"
  BY <1>1, <1>2, ThreadAssumption DEF IInv, LocksHeld, WriteHolders, ReadHolders
<1>4. ~Reconfiguring /\ ~Reconfiguring'
  BY <1>2, <1>3 DEF Reconfiguring, Resizing, WriteHolders
<1>5. active = universes /\ active' = universes
  BY <1>2, <1>4 DEF active
<1>6. CurrentVector' = NextVector
  BY <1>1, <1>2 DEF CurrentVector, NextVector, next
<1>7. ASSUME NEW a
      PROVE  PendingChannel(a) = NextVector[a] /\ PendingChannel(a)' = NextVector[a]
  <2>1. \A s \in Threads : pc[s] \notin {"write_copy", "swap_copy"}
    BY <1>2, <1>3 DEF WriteHolders
  <2>2. PendingChannel(a)' = CurrentVector[a]'
    BY <1>3, PendingChannelsNext
  <2> QED BY <1>6, <2>1, <2>2, PendingChannels
<1>8. pend' = pend /\ live' = pend
  <2>1. \A u : Base(universes, u)' = Base(universes, u)
    BY <1>2, Zenon DEF Base
  <2> DEFINE frame == [u \in universes |-> [c \in 1..UniverseLength |->
                           NextVector[Base(universes, u) + c - 1]]]
  <2>2. pend = frame
    BY <1>5, <1>7, Zenon DEF pend
  <2>3. \A u, c : PendingChannel(Base(universes, u) + c - 1)'
                   = NextVector[Base(universes, u) + c - 1]
    BY <1>7, <2>1
  <2>4. pend' = frame
    BY <1>5, <2>3, Zenon DEF pend
  <2>5. live' = frame
    BY <1>5, <1>6, <2>1, Zenon DEF live
  <2> QED BY <2>2, <2>4, <2>5
<1>9. op' = op
  <2>1. ASSUME NEW s \in Threads \ {t} PROVE OpOf(s)' = OpOf(s)
    BY <1>2, <1>3, <1>4, OpKept DEF ReadHolders
  <2>2. OpOf(t)' = OpOf(t)
    BY <1>2, <1>3, IdleKept DEF Asking
  <2> QED BY <2>1, <2>2, OpSame
<1>10. Reconfiguring' = Reconfiguring
  BY <1>4 DEF Reconfiguring
<1>11. Frames!Publish
  BY <1>2, <1>4, <1>5, <1>8, <1>9, <1>10 DEF Frames!Publish
<1> QED BY <1>11 DEF AbstractStep, Frames!Next

LEMMA SwapCopyMaps ==
    ASSUME IInv, ~crashed, NEW t \in Threads, SwapCopy(t)
    PROVE  AbstractStep
<1>1. pc \in [Threads -> Labels] /\ current \in {"a", "b"} /\ buffer \in [{"a", "b"} -> Vectors]
  BY DEF IInv, TypeOK
<1>2. /\ UNCHANGED <<universes, current, call, dst, crashed>>
      /\ buffer' = [buffer EXCEPT ![next] = CurrentVector]
      /\ pc[t] = "swap_copy" /\ pc' = [pc EXCEPT ![t] = "idle"]
  BY Zenon DEF SwapCopy, Goto
<1>3. /\ \A s \in Threads \ {t} : pc'[s] = pc[s]
      /\ \A s \in Threads \ {t} : pc[s] \notin WriteHolders /\ pc[s] \notin ReadHolders
      /\ pc'[t] = "idle"
  BY <1>1, <1>2, ThreadAssumption DEF IInv, LocksHeld, WriteHolders, ReadHolders
<1>4. Reconfiguring' <=> Reconfiguring
  BY <1>2, <1>3, SameReconfiguring DEF Resizing
<1>5. active' = active
  BY <1>2, <1>4 DEF active
<1>6. CurrentVector' = CurrentVector /\ NextVector' = CurrentVector
  BY <1>1, <1>2 DEF CurrentVector, NextVector, next
<1>7. ASSUME NEW a PROVE PendingChannel(a)' = PendingChannel(a)
  <2>1. \A s \in Threads : pc'[s] \notin {"write_copy", "swap_copy"}
    BY <1>3 DEF WriteHolders
  <2>2. PendingChannel(a) = CurrentVector[a]
    BY <1>2, PendingChannels
  <2> QED BY <1>6, <2>1, <2>2, PendingChannelsNext
<1>8. pend' = pend /\ live' = live
  <2>1. \A u : Base(universes, u)' = Base(universes, u)
    BY <1>2, Zenon DEF Base
  <2> QED BY <1>5, <1>6, <1>7, <2>1, FramesSame
<1>9. op' = op
  <2>1. ASSUME NEW s \in Threads \ {t} PROVE OpOf(s)' = OpOf(s)
    BY <1>2, <1>3, <1>4, OpKept DEF ReadHolders
  <2>2. OpOf(t)' = OpOf(t)
    BY <1>2, <1>3, IdleKept DEF Asking
  <2> QED BY <2>1, <2>2, OpSame
<1> QED BY <1>2, <1>4, <1>5, <1>8, <1>9, Stutters DEF AbstractStep

------------------------------------------------------------------------------
(* write and read take effect with their mutex                             *)

\* What the two acquisitions have in common.
LEMMA LockStep ==
    ASSUME IInv, MapInv, NEW t \in Threads, WriteLock(t) \/ ReadLock(t)
    PROVE  /\ UNCHANGED <<universes, buffer, current, dst, crashed>>
           /\ \A s \in Threads \ {t} : pc'[s] = pc[s] /\ call'[s] = call[s]
           /\ \/ WriteLock(t) /\ pc[t] = "write_lock" /\ pc'[t] = "write_copy"
              \/ ReadLock(t) /\ pc[t] = "read_lock" /\ pc'[t] = "read_copy"
           /\ call[t].k = 0 /\ call'[t].k = 0 /\ call'[t].universe = call[t].universe
           /\ call'[t].span = call[t].span /\ call'[t].value = call[t].value
           /\ call'[t].stale = call[t].stale
           /\ ~call[t].stale => call'[t].it = call[t].it
           /\ ~Reconfiguring /\ ~Reconfiguring'
<1>1. pc \in [Threads -> Labels] /\ call \in [Threads -> CallRecord]
  BY DEF IInv, TypeOK
<1>2. PICK offset \in IF call[t].stale THEN StrayOffsets ELSE {call[t].it} :
           call' = [call EXCEPT ![t].it = offset]
  BY DEF WriteLock, ReadLock, Dereference
<1>3. /\ UNCHANGED <<universes, buffer, current, dst, crashed>>
      /\ \/ /\ WriteLock(t) /\ pc[t] = "write_lock" /\ mutex_write = NoThread
            /\ pc' = [pc EXCEPT ![t] = "write_copy"]
         \/ /\ ReadLock(t) /\ pc[t] = "read_lock" /\ mutex_read = NoThread
            /\ pc' = [pc EXCEPT ![t] = "read_copy"]
  BY DEF WriteLock, ReadLock, Goto, shared
<1>4. call[t].k = 0
  BY <1>3 DEF MapInv, HoldsIterator
<1>5. /\ \A s \in Threads \ {t} : pc'[s] = pc[s] /\ call'[s] = call[s]
      /\ \/ WriteLock(t) /\ pc[t] = "write_lock" /\ pc'[t] = "write_copy"
         \/ ReadLock(t) /\ pc[t] = "read_lock" /\ pc'[t] = "read_copy"
  BY <1>1, <1>2, <1>3
<1>6. /\ call'[t].k = call[t].k /\ call'[t].universe = call[t].universe
      /\ call'[t].span = call[t].span /\ call'[t].value = call[t].value
      /\ call'[t].stale = call[t].stale
      /\ call'[t].it = offset
  BY <1>1, <1>2 DEF CallRecord
<1>7. ~call[t].stale => call'[t].it = call[t].it
  BY <1>2, <1>6
<1>8. ~Reconfiguring /\ ~Reconfiguring'
  <2>1. \A s \in Threads : ~Resizing(s)
    BY <1>3, ThreadAssumption DEF IInv, LocksHeld, WriteHolders, ReadHolders, Resizing
  <2> QED BY <1>5, <2>1 DEF Reconfiguring, Resizing
<1> QED BY <1>3, <1>4, <1>5, <1>6, <1>7, <1>8

\* The call of the thread takes effect.
LEMMA OpTakesEffect ==
    ASSUME IInv, MapInv, NEW t \in Threads, WriteLock(t) \/ ReadLock(t), NEW r,
           r = IF ReadLock(t) /\ ~call[t].stale THEN ReadResult(t)' ELSE Unspecified
    PROVE  /\ OpOf(t)' = [op[t] EXCEPT !.effect = TRUE, !.result = r]
           /\ (~ReadLock(t) \/ call[t].stale) => OpOf(t)' = [op[t] EXCEPT !.effect = TRUE]
<1> DEFINE o == call[t].stale
           k == Kind(t)
           u == call[t].universe
           p == call[t].span
           v == call[t].value
<1>1. op[t] = Asked(k, u, p, v, o, FALSE, Unspecified)
  <2>1. pc[t] \in Asking /\ pc[t] # "read_copy" /\ HoldsIterator(t)
    BY LockStep DEF Asking, HoldsIterator
  <2>2. (call[t].stale \/ (Reconfiguring /\ HoldsIterator(t))) = o /\ (~HoldsIterator(t)) = FALSE
    <3>1. call[t].stale \in BOOLEAN
      BY DEF IInv, TypeOK, CallRecord
    <3> QED BY <2>1, <3>1, LockStep
  <2>3. OpOf(t) = Asked(k, u, p, v, o, FALSE, Unspecified)
    BY <2>1, <2>2, Zenon DEF OpOf, Asked
  <2> QED BY <2>3, OpIs
<1>2. OpOf(t)' = Asked(k, u, p, v, o, TRUE, r)
  <2>1. pc'[t] \in Asking /\ ~HoldsIterator(t)' /\ Kind(t)' = Kind(t)
    BY LockStep DEF Asking, HoldsIterator, Kind
  <2>2. (call'[t].stale \/ (Reconfiguring' /\ HoldsIterator(t)')) = o /\ (~HoldsIterator(t)') = TRUE
    <3>1. call[t].stale \in BOOLEAN /\ call'[t].stale = call[t].stale
      BY LockStep DEF IInv, TypeOK, CallRecord
    <3> QED BY <2>1, <3>1, LockStep
  <2>3. (IF pc'[t] = "read_copy" /\ ~call'[t].stale THEN ReadResult(t)' ELSE Unspecified) = r
    <3>1. (pc'[t] = "read_copy" /\ ~call'[t].stale) <=> (ReadLock(t) /\ ~call[t].stale)
      BY LockStep DEF ReadLock
    <3> QED BY <3>1
  <2>4. call'[t].universe = u /\ call'[t].span = p /\ call'[t].value = v
    BY LockStep
  <2>5. OpOf(t)' = [kind |-> Kind(t)', universe |-> call'[t].universe,
                    span |-> call'[t].span, value |-> call'[t].value,
                    overlapped |-> call'[t].stale \/ (Reconfiguring' /\ HoldsIterator(t)'),
                    effect |-> ~HoldsIterator(t)',
                    result |-> IF pc'[t] = "read_copy" /\ ~call'[t].stale
                               THEN ReadResult(t)' ELSE Unspecified]
    BY <2>1, Zenon DEF OpOf
  <2> QED BY <2>1, <2>2, <2>3, <2>4, <2>5, Zenon DEF Asked
<1>3. (~ReadLock(t) \/ call[t].stale) => r = Unspecified
  OBVIOUS
<1> HIDE DEF o, k, u, p, v
<1>4. \A w : [op[t] EXCEPT !.effect = w] = Asked(k, u, p, v, o, w, Unspecified)
  BY <1>1 DEF Asked
<1>5. \A w : [op[t] EXCEPT !.effect = w, !.result = r] = Asked(k, u, p, v, o, w, r)
  <2>1. \A w : [Asked(k, u, p, v, o, w, Unspecified) EXCEPT !.result = r] = Asked(k, u, p, v, o, w, r)
    BY DEF Asked
  <2> SUFFICES ASSUME NEW w
               PROVE  [op[t] EXCEPT !.effect = w, !.result = r] = Asked(k, u, p, v, o, w, r)
    BY Zenon
  <2>2. [op[t] EXCEPT !.effect = w, !.result = r]
          = [[op[t] EXCEPT !.effect = w] EXCEPT !.result = r]
    BY Zenon
  <2> QED BY <2>1, <2>2, <1>4, Zenon
<1>6. OpOf(t)' = [op[t] EXCEPT !.effect = TRUE, !.result = r]
  BY <1>2, <1>5
<1>7. (~ReadLock(t) \/ call[t].stale) => OpOf(t)' = [op[t] EXCEPT !.effect = TRUE]
  BY <1>2, <1>3, <1>4
<1> QED BY <1>6, <1>7

\* The channels that a fresh writer has to store are those of its span in its
\* own universe.
LEMMA FreshRemaining ==
    ASSUME IInv, MapInv, SpansInRange, NEW t \in Threads, WriteLock(t), ~call[t].stale,
           NEW u \in universes, NEW c \in 1..UniverseLength
    PROVE  Base(universes, u) + c - 1 \in Remaining(t)'
             <=> u = call[t].universe /\ Frames!InSpan(c, call[t].span)
<1> DEFINE w == call[t].universe
           first == call[t].span.channel
           n == call[t].span.count
           base == Base(universes, w)
           a == Base(universes, u) + c - 1
<1>1. /\ w \in universes /\ call[t].it = base /\ call[t].span \in Spans
  BY LockStep DEF IInv, FreshIterators, Iterating
<1>2. /\ first \in Int /\ n \in Nat /\ first >= 1 /\ (first - 1) + n <= UniverseLength
  BY <1>1, SpanAssumption DEF SpansInRange, InRange
<1>3. universes \in SUBSET Addresses
  BY DEF IInv, TypeOK
<1>4. base \in Nat /\ Base(universes, u) \in Nat
  BY <1>1, <1>3, LayoutType
<1>5. Remaining(t)' = {base + (first - 1) + j : j \in 0 .. n - 1}
  <2>1. call'[t].it = base /\ call'[t].k = 0 /\ call'[t].span = call[t].span
    BY <1>1, LockStep
  <2> QED BY <2>1, Zenon DEF Remaining
<1> HIDE DEF base, first, n
<1>6. CASE u = w
  <2>1. a = base + c - 1
    BY <1>6 DEF base
  <2>2. a \in Remaining(t)' <=> c \in first .. first + n - 1
    <3>1. ASSUME c \in first .. first + n - 1 PROVE a \in Remaining(t)'
      <4>1. c - first \in 0 .. n - 1
        BY <1>2, <3>1
      <4>2. a = base + (first - 1) + (c - first)
        BY <1>2, <1>4, <2>1
      <4> QED BY <1>5, <4>1, <4>2
    <3>2. ASSUME a \in Remaining(t)' PROVE c \in first .. first + n - 1
      <4>1. PICK j \in 0 .. n - 1 : a = base + (first - 1) + j
        BY <1>5, <3>2
      <4>2. c = first + j
        BY <1>2, <1>4, <2>1, <4>1
      <4> QED BY <1>2, <4>2
    <3> QED BY <3>1, <3>2
  <2> QED BY <1>6, <2>2 DEF Frames!InSpan, first, n
<1>7. CASE u # w
  <2>1. Region(universes, u) \cap Region(universes, w) = {}
    BY <1>1, <1>3, <1>7, LayoutDisjoint
  <2>2. a \in Region(universes, u)
    BY <1>4, LengthAssumption DEF Region
  <2>3. ASSUME a \in Remaining(t)' PROVE FALSE
    <3>1. PICK j \in 0 .. n - 1 : a = base + (first - 1) + j
      BY <1>5, <2>3
    <3>2. a \in base .. base + UniverseLength - 1
      BY <1>2, <1>4, <3>1, LengthAssumption
    <3> QED BY <2>1, <2>2, <3>2 DEF Region, base
  <2> QED BY <1>7, <2>3
<1> QED BY <1>6, <1>7

\* The pending frame before the acquisition, and after it.
LEMMA LockFrames ==
    ASSUME IInv, MapInv, NEW t \in Threads, WriteLock(t)
    PROVE  /\ active = universes /\ active' = universes /\ live' = live
           /\ pend = [u \in universes |-> [c \in 1..UniverseLength |->
                         NextVector[Base(universes, u) + c - 1]]]
           /\ pend' = [u \in universes |-> [c \in 1..UniverseLength |->
                         IF Base(universes, u) + c - 1 \in Remaining(t)' THEN call[t].value
                         ELSE NextVector[Base(universes, u) + c - 1]]]
<1>1. active = universes /\ active' = universes
  BY LockStep DEF active
<1>2. CurrentVector' = CurrentVector /\ NextVector' = NextVector
  BY LockStep DEF CurrentVector, NextVector, next
<1>3. \A u : Base(universes, u)' = Base(universes, u)
  BY LockStep, Zenon DEF Base
<1>4. live' = live
  BY <1>1, <1>2, <1>3, Zenon DEF live
<1>5. pc[t] = "write_lock" /\ pc'[t] = "write_copy"
  BY LockStep DEF WriteLock, ReadLock
<1>6. /\ \A s \in Threads : pc[s] \notin {"write_copy", "swap_copy"}
      /\ \A s \in Threads \ {t} : pc'[s] \notin {"write_copy", "swap_copy"}
  <2>1. mutex_write = NoThread
    BY DEF WriteLock
  <2>2. \A s \in Threads : pc[s] \notin WriteHolders
    BY <2>1, ThreadAssumption DEF IInv, LocksHeld
  <2> QED BY <2>2, LockStep DEF WriteHolders
<1>7. ASSUME NEW a
      PROVE  /\ PendingChannel(a) = NextVector[a]
             /\ PendingChannel(a)' = IF a \in Remaining(t)' THEN call[t].value ELSE NextVector[a]
  <2>1. PendingChannel(a) = NextVector[a]
    BY <1>6, PendingChannels
  <2>2. PendingChannel(a)' = IF a \in Remaining(t)' THEN call'[t].value ELSE NextVector[a]'
    BY <1>5, <1>6, PendingChannelsNext
  <2>3. call'[t].value = call[t].value
    BY LockStep
  <2> QED BY <1>2, <2>1, <2>2, <2>3
<1>8. pend = [u \in universes |-> [c \in 1..UniverseLength |->
                         NextVector[Base(universes, u) + c - 1]]]
  BY <1>1, <1>7, Zenon DEF pend
<1>9. pend' = [u \in universes |-> [c \in 1..UniverseLength |->
                         IF Base(universes, u) + c - 1 \in Remaining(t)' THEN call[t].value
                         ELSE NextVector[Base(universes, u) + c - 1]]]
  <2>1. \A u, c : PendingChannel(Base(universes, u) + c - 1)'
                   = IF Base(universes, u) + c - 1 \in Remaining(t)' THEN call[t].value
                     ELSE NextVector[Base(universes, u) + c - 1]
    BY <1>3, <1>7
  <2> QED BY <1>1, <2>1, Zenon DEF pend
<1> QED BY <1>1, <1>4, <1>8, <1>9

LEMMA WriteLockMaps ==
    ASSUME IInv, MapInv, SpansInRange, ~crashed, NEW t \in Threads, WriteLock(t)
    PROVE  AbstractStep
<1>1. ~ReadLock(t)
  BY DEF WriteLock, ReadLock
<1>2. op' = [op EXCEPT ![t] = OpOf(t)']
  <2>1. Reconfiguring' <=> Reconfiguring
    BY LockStep
  <2>2. CurrentVector' = CurrentVector
    BY LockStep DEF CurrentVector
  <2>3. \A s \in Threads \ {t} : dst'[s] = dst[s]
    BY LockStep
  <2> QED BY <2>1, <2>2, <2>3, LockStep, OpKept, OpChanges
<1>3. OpOf(t)' = [op[t] EXCEPT !.effect = TRUE]
  <2>1. PICK r : r = IF ReadLock(t) /\ ~call[t].stale THEN ReadResult(t)' ELSE Unspecified
    BY Zenon
  <2> QED BY <1>1, <2>1, OpTakesEffect
<1>4. op' = [op EXCEPT ![t].effect = TRUE]
  BY <1>2, <1>3, OpIs, Zenon
<1>5. /\ op[t] # Frames!NoOp /\ op[t].kind = "write" /\ ~op[t].effect
      /\ op[t].overlapped <=> call[t].stale
      /\ op[t].universe = call[t].universe /\ op[t].span = call[t].span
      /\ op[t].value = call[t].value
  <2>1. pc[t] = "write_lock" /\ pc[t] \in Asking
    BY DEF WriteLock, Asking
  <2> QED BY <2>1, OpFacts, LockStep DEF Kind, HoldsIterator
<1>6. Reconfiguring' = Reconfiguring /\ ~Reconfiguring /\ crashed' = crashed
  BY LockStep DEF Reconfiguring
<1>7. Frames!Pending(t, "write")
  BY <1>5, <1>6, Zenon DEF Frames!Pending
<1>8. active' = active /\ live' = live
  BY LockFrames
<1>9. CASE call[t].stale
  <2>1. pend' \in [universes -> [1..UniverseLength -> Values]]
    <3>1. call[t].value \in Values
      BY DEF IInv, TypeOK, CallRecord
    <3>2. \A u \in universes, c \in 1..UniverseLength :
             NextVector[Base(universes, u) + c - 1] \in Values
      <4>1. NextVector \in Vectors /\ DOMAIN NextVector = Offsets(Size(universes))
        BY <1>6 DEF IInv, TypeOK, VectorsFitLayout, NextVector, next, Reconfiguring
      <4>2. universes \in SUBSET Addresses
        BY DEF IInv, TypeOK
      <4> QED BY <4>1, <4>2, HomeValue
    <3>3. \A u \in universes, c \in 1..UniverseLength :
             (IF Base(universes, u) + c - 1 \in Remaining(t)' THEN call[t].value
              ELSE NextVector[Base(universes, u) + c - 1]) \in Values
      BY <3>1, <3>2
    <3>4. pend' = [u \in universes |-> [c \in 1..UniverseLength |->
                         IF Base(universes, u) + c - 1 \in Remaining(t)' THEN call[t].value
                         ELSE NextVector[Base(universes, u) + c - 1]]]
      BY LockFrames
    <3> QED BY <3>3, <3>4, Zenon
  <2>2. Frames!StrayWrite(t)
    BY <1>4, <1>5, <1>6, <1>7, <1>8, <1>9, <2>1, LockFrames
       DEF Frames!StrayWrite, Frames!Frames, Frames!Channels
  <2> QED BY <2>2 DEF AbstractStep, Frames!Next
<1>10. CASE ~call[t].stale
  <2> DEFINE w == call[t].universe
  <2>1. pend' = [pend EXCEPT ![w] = [c \in 1..UniverseLength |->
                    IF Frames!InSpan(c, call[t].span) THEN call[t].value ELSE pend[w][c]]]
    <3>1. \A u \in universes, c \in 1..UniverseLength :
             (IF Base(universes, u) + c - 1 \in Remaining(t)' THEN call[t].value
              ELSE NextVector[Base(universes, u) + c - 1])
             = IF u = w /\ Frames!InSpan(c, call[t].span) THEN call[t].value
               ELSE pend[u][c]
      <4>1. \A u \in universes, c \in 1..UniverseLength :
               pend[u][c] = NextVector[Base(universes, u) + c - 1]
        <5>1. pend = [u \in universes |-> [c \in 1..UniverseLength |->
                         NextVector[Base(universes, u) + c - 1]]]
          BY LockFrames
        <5> QED BY <5>1
      <4> QED BY <1>10, <4>1, FreshRemaining
    <3>2. pend' = [u \in universes |-> [c \in 1..UniverseLength |->
                     IF u = w /\ Frames!InSpan(c, call[t].span) THEN call[t].value
                     ELSE pend[u][c]]]
      <4>1. pend' = [u \in universes |-> [c \in 1..UniverseLength |->
                         IF Base(universes, u) + c - 1 \in Remaining(t)' THEN call[t].value
                         ELSE NextVector[Base(universes, u) + c - 1]]]
        BY LockFrames
      <4> QED BY <3>1, <4>1, Zenon
    <3>3. /\ DOMAIN pend = universes
          /\ \A u \in universes : pend[u] = [c \in 1..UniverseLength |-> pend[u][c]]
      BY LockFrames
    <3>4. \A u \in universes :
             [c \in 1..UniverseLength |->
                IF u = w /\ Frames!InSpan(c, call[t].span) THEN call[t].value ELSE pend[u][c]]
             = IF u = w THEN [c \in 1..UniverseLength |->
                                IF Frames!InSpan(c, call[t].span) THEN call[t].value
                                ELSE pend[w][c]]
               ELSE pend[u]
      BY <3>3
    <3>5. pend' = [u \in universes |->
              IF u = w THEN [c \in 1..UniverseLength |->
                                IF Frames!InSpan(c, call[t].span) THEN call[t].value
                                ELSE pend[w][c]]
               ELSE pend[u]]
      BY <3>2, <3>4, Zenon
    <3> HIDE DEF w
    <3> QED BY <3>3, <3>5
  <2>2. Frames!WriteEffect(t)
    BY <1>4, <1>5, <1>6, <1>7, <1>8, <1>10, <2>1, Zenon
       DEF Frames!WriteEffect, Frames!Channels
  <2> QED BY <2>2 DEF AbstractStep, Frames!Next
<1> QED BY <1>9, <1>10

LEMMA ReadLockMaps ==
    ASSUME IInv, MapInv, SpansInRange, ~crashed, NEW t \in Threads, ReadLock(t)
    PROVE  AbstractStep
<1>1. pc[t] = "read_lock" /\ pc'[t] = "read_copy"
  BY LockStep DEF WriteLock, ReadLock
<1>2. /\ active' = active /\ pend' = pend /\ live' = live
      /\ op' = [op EXCEPT ![t] = OpOf(t)']
  BY <1>1, LockStep, QuietStep DEF Resizing
<1>3. /\ op[t] # Frames!NoOp /\ op[t].kind = "read" /\ ~op[t].effect
      /\ op[t].overlapped <=> call[t].stale
      /\ op[t].universe = call[t].universe /\ op[t].span = call[t].span
  BY <1>1, OpFacts, LockStep DEF Kind, HoldsIterator, Asking
<1>4. Reconfiguring' = Reconfiguring /\ ~Reconfiguring /\ crashed' = crashed
  BY LockStep DEF Reconfiguring
<1>5. Frames!Pending(t, "read")
  BY <1>3, <1>4, Zenon DEF Frames!Pending
<1>6. PICK r : r = IF ReadLock(t) /\ ~call[t].stale THEN ReadResult(t)' ELSE Unspecified
  BY Zenon
<1>7. CASE call[t].stale
  <2>1. OpOf(t)' = [op[t] EXCEPT !.effect = TRUE]
    BY <1>6, <1>7, OpTakesEffect
  <2>2. op' = [op EXCEPT ![t].effect = TRUE]
    BY <1>2, <2>1, OpIs, Zenon
  <2>3. Frames!StrayRead(t)
    BY <1>2, <1>3, <1>4, <1>5, <1>7, <2>2, Zenon DEF Frames!StrayRead
  <2> QED BY <2>3 DEF AbstractStep, Frames!Next
<1>8. CASE ~call[t].stale
  <2> DEFINE w == call[t].universe
             p == call[t].span
             result == [j \in 0 .. p.count - 1 |-> live[w][p.channel + j]]
  <2>1. r = result
    <3>1. /\ w \in universes /\ call[t].it = Base(universes, w) /\ p \in Spans
      BY <1>1, <1>8 DEF IInv, FreshIterators, Iterating
    <3>2. /\ p.channel \in Int /\ p.count \in Nat /\ p.channel >= 1
          /\ (p.channel - 1) + p.count <= UniverseLength
      BY <3>1, SpanAssumption DEF SpansInRange, InRange
    <3>3. Base(universes, w) \in Nat
      BY <3>1, LayoutType DEF IInv, TypeOK
    <3>4. ReadResult(t)' = [j \in 0 .. p.count - 1 |->
              IF j < 0 THEN dst'[t][j] ELSE CurrentVector[Base(universes, w) + (p.channel - 1) + j]]
      <4>1. call'[t].k = 0 /\ call'[t].span = p /\ call'[t].it = Base(universes, w)
        BY <1>8, <3>1, LockStep
      <4>2. CurrentVector' = CurrentVector
        BY LockStep DEF CurrentVector
      <4> QED BY <4>1, <4>2, Zenon DEF ReadResult
    <3>5. live = [u \in universes |-> [c \in 1..UniverseLength |->
                     CurrentVector[Base(universes, u) + c - 1]]]
      <4>1. active = universes
        BY <1>4 DEF active
      <4> QED BY <4>1 DEF live
    <3>6. \A j \in 0 .. p.count - 1 :
             (IF j < 0 THEN dst'[t][j] ELSE CurrentVector[Base(universes, w) + (p.channel - 1) + j])
             = live[w][p.channel + j]
      <4> SUFFICES ASSUME NEW j \in 0 .. p.count - 1
                   PROVE  (IF j < 0 THEN dst'[t][j]
                           ELSE CurrentVector[Base(universes, w) + (p.channel - 1) + j])
                          = live[w][p.channel + j]
        BY Zenon
      <4>1. p.channel + j \in 1..UniverseLength /\ ~(j < 0)
        BY <3>2, LengthAssumption
      <4>2. live[w][p.channel + j] = CurrentVector[Base(universes, w) + (p.channel + j) - 1]
        BY <3>1, <3>5, <4>1
      <4>3. Base(universes, w) + (p.channel + j) - 1 = Base(universes, w) + (p.channel - 1) + j
        BY <3>2, <3>3
      <4> QED BY <4>1, <4>2, <4>3
    <3>7. ReadResult(t)' = result
      BY <3>4, <3>6, Zenon
    <3> QED BY <1>6, <1>8, <3>7
  <2>2. OpOf(t)' = [op[t] EXCEPT !.effect = TRUE, !.result = result]
    BY <1>6, <2>1, OpTakesEffect
  <2> HIDE DEF result
  <2>3. op' = [op EXCEPT ![t].effect = TRUE, ![t].result = result]
    BY <1>2, <2>2, OpIs, Zenon
  <2>4. result = [j \in 0 .. op[t].span.count - 1 |->
                     live[op[t].universe][op[t].span.channel + j]]
    BY <1>3, Zenon DEF result
  <2>5. Frames!ReadEffect(t)
    BY <1>2, <1>3, <1>4, <1>5, <1>8, <2>3, <2>4, Zenon DEF Frames!ReadEffect
  <2> QED BY <2>5 DEF AbstractStep, Frames!Next
<1> QED BY <1>7, <1>8

------------------------------------------------------------------------------
(* The refinement                                                          *)

LEMMA EveryStepMaps ==
    ASSUME IInv, MapInv, SpansInRange, [Next]_vars
    PROVE  AbstractStep
<1>1. CASE UNCHANGED vars
  <2>1. UNCHANGED <<universes, buffer, current, pc, call, dst, crashed>>
    BY <1>1 DEF vars
  <2>2. Reconfiguring' <=> Reconfiguring
    BY <2>1, SameReconfiguring DEF Resizing
  <2>3. active' = active
    BY <2>1, <2>2 DEF active
  <2>4. UNCHANGED <<CurrentVector, NextVector>>
    BY <2>1 DEF CurrentVector, NextVector, next
  <2>5. pend' = pend /\ live' = live
    <3>1. \A u : Base(universes, u)' = Base(universes, u)
      BY <2>1, Zenon DEF Base
    <3>2. ASSUME NEW a PROVE PendingChannel(a)' = PendingChannel(a)
      BY <2>1, <2>4, PendingUntouched
    <3> QED BY <2>3, <2>4, <3>1, <3>2, FramesSame
  <2>6. op' = op
    BY <2>1, <2>2, <2>4, OpKept, OpSame
  <2> QED BY <2>1, <2>2, <2>3, <2>5, <2>6, Stutters DEF AbstractStep
<1>2. ASSUME NEW t \in Threads, ~crashed, Operation(t) PROVE AbstractStep
  <2>1. CASE WriteAbsent(t) \/ ReadRefused(t)
    BY <2>1, WriteAbsentMaps
  <2>2. CASE WriteFind(t) \/ ReadFind(t)
    BY <1>2, <2>2, FindMaps
  <2>3. CASE WriteLock(t)
    BY <1>2, <2>3, WriteLockMaps
  <2>4. CASE ReadLock(t)
    BY <1>2, <2>4, ReadLockMaps
  <2>5. CASE WriteCopy(t)
    BY <1>2, <2>5, WriteCopyMaps
  <2>6. CASE ReadCopy(t)
    BY <1>2, <2>6, ReadCopyMaps
  <2>7. CASE WriteReturn(t)
    BY <1>2, <2>7, WriteReturnMaps
  <2>8. CASE ReadReturn(t)
    BY <1>2, <2>8, ReadReturnMaps
  <2>9. CASE RacingFind(t)
    BY <1>2, <2>9, RacingFindMaps
  <2>10. CASE SwapCall(t) \/ SwapLock(t) \/ ResizeCall(t)
    BY <2>10, QuietCallMaps
  <2>11. CASE SwapPointers(t)
    BY <1>2, <2>11, SwapPointersMaps
  <2>12. CASE SwapCopy(t)
    BY <1>2, <2>12, SwapCopyMaps
  <2>13. CASE ResizeLock(t)
    BY <1>2, <2>13, ResizeLockMaps
  <2>14. CASE ResizeUniverse(t) \/ ResizeCopy(t) \/ ResizeAssign(t)
    BY <1>2, <2>14, RebuildMaps
  <2>15. CASE ResizeReturn(t)
    <3>1. IInv'
      BY StepKeeps
    <3> QED BY <1>2, <2>15, <3>1, ResizeReturnMaps
  <2> QED
    BY <1>2, <2>1, <2>2, <2>3, <2>4, <2>5, <2>6, <2>7, <2>8, <2>9, <2>10, <2>11, <2>12,
       <2>13, <2>14, <2>15, Zenon DEF Operation, Write, Read, Swap, Resize
<1> QED BY <1>1, <1>2, Zenon DEF Next, Stopped

LEMMA MapInvariance == Spec => []MapInv
<1>1. Init => MapInv
  BY DEF Init, MapInv, HoldsIterator
<1>2. IInv /\ MapInv /\ [Next]_vars => MapInv'
  BY MapNext
<1> QED BY <1>1, <1>2, Invariance, PTL DEF Spec

\* The buffer implements the abstract frames for every number of threads, every
\* set of addresses and every length of a universe, as long as the callers keep
\* to the channels of one universe: writes are atomic, swap() publishes whole
\* frames and read() never mixes two of them, whatever resize() does in between.
THEOREM BufferImplementsFrames ==
    ASSUME SpansInRange
    PROVE  Spec => RefinesFrames
<1>1. Init => Frames!Init
  BY InitMaps
<1>2. IInv /\ MapInv /\ [Next]_vars => [Frames!Next]_(Frames!vars)
  BY EveryStepMaps DEF AbstractStep
<1> QED
  BY <1>1, <1>2, Invariance, MapInvariance, PTL DEF Spec, RefinesFrames, Frames!Spec
==================================================================================
