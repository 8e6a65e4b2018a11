------------------------------ MODULE DmxBuffer ------------------------------
(***************************************************************************)
(* lxmax::dmx_buffer (internals/dmx_buffer.cpp): two vectors of DMX        *)
(* channels, a current one that is read and a next one that is written, a  *)
(* map from universe address to the universe's offset in both vectors, and *)
(* a mutex for each direction.  Any thread may call any of the four        *)
(* operations.  A step is one access to the shared state: the look-up in   *)
(* the map, which write() and read() make before they take their mutex,    *)
(* the acquisition of a mutex, the copy of one channel, and so on.         *)
(*                                                                         *)
(* resize() replaces the map while other threads may be looking an address *)
(* up in it, or may hold an iterator into it.  What such a thread then     *)
(* reads is undefined: the model lets it be any offset, or a crash of the  *)
(* process.  An access past the end of a vector is undefined as well: it   *)
(* falls into spare memory without an effect, or it crashes.               *)
(***************************************************************************)
EXTENDS Integers, FiniteSets

CONSTANTS
    Threads,          \* the threads that call the buffer
    Addresses,        \* the universe addresses that may be configured
    UniverseLength,   \* LX_DMX_UNIVERSE_LENGTH, channels per universe
    Values,           \* t_dmx_value: the values of a channel
    Spans,            \* the channel ranges callers ask for
    StrayOffsets,     \* the offsets an invalid iterator may yield
    NoThread,         \* the owner of a free mutex
    Unspecified,      \* the result of a read about which nothing is promised
    MaxCalls          \* bound: the calls that all the threads make together

ASSUME LengthAssumption == UniverseLength \in Nat \ {0}
ASSUME AddressAssumption == Addresses \subseteq Nat /\ IsFiniteSet(Addresses)
ASSUME ValueAssumption == 0 \in Values
ASSUME SpanAssumption == Spans \subseteq [channel : Int, count : Nat]
ASSUME StrayAssumption == StrayOffsets \subseteq Nat
ASSUME ThreadAssumption == NoThread \notin Threads
ASSUME BoundAssumption == MaxCalls \in Nat

VARIABLES
    universes,        \* _universes: its keys; an offset follows from the keys
    assigning,        \* TRUE while _universes is being assigned
    buffer,           \* _buffer_a and _buffer_b
    current,          \* _current: which of the two is read from
    mutex_read,       \* _mutex_read: its owner
    mutex_write,      \* _mutex_write: its owner
    pc,               \* where each thread is
    call,             \* the arguments and locals of its write() or read()
    dst,              \* the dst_buffer of its read()
    rebuild,          \* the locals of the one resize() past its lock
    calls,            \* how many calls have been made
    crashed           \* TRUE once the process has crashed

vars == <<universes, assigning, buffer, current, mutex_read, mutex_write,
          pc, call, dst, rebuild, calls, crashed>>

shared == <<universes, assigning, buffer, current, rebuild>>
mutexes == <<mutex_read, mutex_write>>

next == IF current = "a" THEN "b" ELSE "a"
CurrentVector == buffer[current]
NextVector == buffer[next]

------------------------------------------------------------------------------
(* Layout                                                                  *)

\* Seeded fault: the offset is taken after it was advanced.
Base_Advanced(S, u) == UniverseLength * (1 + Cardinality({v \in S : v < u}))

\* The offset resize() gives to a universe: the map is filled in the order
\* of the addresses, UniverseLength apart.
Base(S, u) == UniverseLength * Cardinality({v \in S : v < u})

Size(S) == UniverseLength * Cardinality(S)

\* The offsets of a vector that holds n channels.
Offsets(n) == 0 .. n - 1

\* Seeded fault: the last channel is dropped.
Resized_Short(vector, n) ==
    [a \in Offsets(n - 1) |-> IF a \in DOMAIN vector THEN vector[a] ELSE 0]

\* vector::resize: kept, cut short, or extended with zeros.
Resized(vector, n) ==
    [a \in Offsets(n) |-> IF a \in DOMAIN vector THEN vector[a] ELSE 0]

\* Seeded fault: the first channel is left out of the sum.
InBounds_CountOnly(span) == span.count <= UniverseLength

\* The sum is unsigned: one below zero is far above the length.
InBounds(span) == (span.channel - 1) + span.count \in 0 .. UniverseLength

\* A std::set is walked in the order of its elements.
IsFirst(u, S) == \A v \in S : u <= v

------------------------------------------------------------------------------
NoCall == [universe |-> 0, span |-> [channel |-> 1, count |-> 1],
           value |-> 0, it |-> 0, k |-> 0, stale |-> FALSE]

NoRebuild == [new |-> {}, todo |-> {}]

Blank == [j \in 0 .. UniverseLength |-> 0]

Init ==
    /\ universes = {}
    /\ assigning = FALSE
    /\ buffer = [b \in {"a", "b"} |-> [a \in {} |-> 0]]
    /\ current = "a"
    /\ mutex_read = NoThread
    /\ mutex_write = NoThread
    /\ pc = [t \in Threads |-> "idle"]
    /\ call = [t \in Threads |-> NoCall]
    /\ dst = [t \in Threads |-> Blank]
    /\ rebuild = NoRebuild
    /\ calls = 0
    /\ crashed = FALSE

\* A thread enters one of the four operations.
Enter(t) ==
    /\ pc[t] = "idle"
    /\ calls < MaxCalls
    /\ calls' = calls + 1

Goto(t, label) == pc' = [pc EXCEPT ![t] = label]

\* The process survives an undefined access that has no visible effect, or
\* it crashes.
Undefined ==
    /\ crashed' \in BOOLEAN
    /\ UNCHANGED <<universes, assigning, buffer, current>>

\* The look-up of an address that is not in the map.  While the map is being
\* assigned the look-up may miss an address that is in it.
Missing(u) == u \notin universes \/ assigning

\* A look-up that returns an element.
Found(u) == u \in universes \/ assigning

LookUp(t, u, span, value, label) ==
    /\ Found(u)
    /\ call' = [call EXCEPT ![t] =
                  [universe |-> u, span |-> span, value |-> value,
                   it |-> Base(universes, u), k |-> 0, stale |-> assigning]]
    /\ Goto(t, label)

\* The offset that `it->second` yields: the one of the element found, or
\* anything when the map has been assigned in the meantime.
Dereference(t) ==
    \E offset \in IF call[t].stale THEN StrayOffsets ELSE {call[t].it} :
        call' = [call EXCEPT ![t].it = offset]

Target(t) == call[t].it + (call[t].span.channel - 1) + call[t].k

Advance(t) == call' = [call EXCEPT ![t].k = @ + 1]

Finish(t) ==
    /\ call' = [call EXCEPT ![t] = NoCall]
    /\ dst' = [dst EXCEPT ![t] = Blank]
    /\ Goto(t, "idle")

------------------------------------------------------------------------------
(* write                                                                   *)

\* The universe is not in the map: write() returns.
WriteAbsent(t) ==
    /\ Enter(t)
    /\ \E u \in Addresses : Missing(u)
    /\ UNCHANGED <<shared, mutexes, pc, call, dst, crashed>>

WriteFind(t) ==
    /\ Enter(t)
    /\ \E u \in Addresses, span \in Spans, value \in Values :
          LookUp(t, u, span, value, "write_lock")
    /\ UNCHANGED <<shared, mutexes, dst, crashed>>

\* Seeded fault: the copy starts without the mutex.
WriteLock_Unlocked(t) ==
    /\ pc[t] = "write_lock"
    /\ Dereference(t)
    /\ Goto(t, "write_copy")
    /\ UNCHANGED <<shared, mutexes, dst, calls, crashed>>

WriteLock(t) ==
    /\ pc[t] = "write_lock"
    /\ mutex_write = NoThread
    /\ mutex_write' = t
    /\ Dereference(t)
    /\ Goto(t, "write_copy")
    /\ UNCHANGED <<shared, mutex_read, dst, calls, crashed>>

\* std::copy_n stores one channel.
WriteCopy(t) ==
    /\ pc[t] = "write_copy"
    /\ call[t].k < call[t].span.count
    /\ Advance(t)
    /\ \/ /\ Target(t) \in DOMAIN NextVector
          /\ buffer' = [buffer EXCEPT ![next][Target(t)] = call[t].value]
          /\ UNCHANGED <<universes, assigning, current, crashed>>
       \/ /\ Target(t) \notin DOMAIN NextVector
          /\ Undefined
    /\ UNCHANGED <<mutexes, pc, dst, rebuild, calls>>

\* Seeded fault: the mutex is never released.
WriteReturn_Held(t) ==
    /\ pc[t] = "write_copy"
    /\ call[t].k = call[t].span.count
    /\ Finish(t)
    /\ UNCHANGED <<shared, mutexes, calls, crashed>>

WriteReturn(t) ==
    /\ pc[t] = "write_copy"
    /\ call[t].k = call[t].span.count
    /\ mutex_write' = NoThread
    /\ Finish(t)
    /\ UNCHANGED <<shared, mutex_read, calls, crashed>>

------------------------------------------------------------------------------
(* read                                                                    *)

\* A span that leaves the universe, or a universe that is not in the map.
ReadRefused(t) ==
    /\ Enter(t)
    /\ \/ \E span \in Spans : ~InBounds(span)
       \/ \E u \in Addresses : Missing(u)
    /\ UNCHANGED <<shared, mutexes, pc, call, dst, crashed>>

ReadFind(t) ==
    /\ Enter(t)
    /\ \E u \in Addresses, span \in Spans :
          /\ InBounds(span)
          /\ LookUp(t, u, span, 0, "read_lock")
    /\ UNCHANGED <<shared, mutexes, dst, crashed>>

ReadLock(t) ==
    /\ pc[t] = "read_lock"
    /\ mutex_read = NoThread
    /\ mutex_read' = t
    /\ Dereference(t)
    /\ Goto(t, "read_copy")
    /\ UNCHANGED <<shared, mutex_write, dst, calls, crashed>>

ReadCopy(t) ==
    /\ pc[t] = "read_copy"
    /\ call[t].k < call[t].span.count
    /\ Advance(t)
    /\ \/ /\ Target(t) \in DOMAIN CurrentVector
          /\ dst' = [dst EXCEPT ![t][call[t].k] = CurrentVector[Target(t)]]
          /\ UNCHANGED crashed
       \/ /\ Target(t) \notin DOMAIN CurrentVector
          /\ \E garbage \in Values : dst' = [dst EXCEPT ![t][call[t].k] = garbage]
          /\ crashed' \in BOOLEAN
    /\ UNCHANGED <<shared, mutexes, pc, calls>>

ReadReturn(t) ==
    /\ pc[t] = "read_copy"
    /\ call[t].k = call[t].span.count
    /\ mutex_read' = NoThread
    /\ Finish(t)
    /\ UNCHANGED <<shared, mutex_write, calls, crashed>>

\* A look-up in the map while it is being assigned may also crash.
RacingFind(t) ==
    /\ Enter(t)
    /\ assigning
    /\ crashed' = TRUE
    /\ UNCHANGED <<shared, mutexes, pc, call, dst>>
------------------------------------------------------------------------------
(* swap                                                                    *)

SwapCall(t) ==
    /\ Enter(t)
    /\ Goto(t, "swap_lock")
    /\ UNCHANGED <<shared, mutexes, call, dst, crashed>>

\* std::scoped_lock takes both mutexes without a deadlock.
LockBoth(t) ==
    /\ mutex_read = NoThread
    /\ mutex_write = NoThread
    /\ mutex_read' = t
    /\ mutex_write' = t

UnlockBoth ==
    /\ mutex_read' = NoThread
    /\ mutex_write' = NoThread

SwapLock(t) ==
    /\ pc[t] = "swap_lock"
    /\ LockBoth(t)
    /\ Goto(t, "swap_pointers")
    /\ UNCHANGED <<shared, call, dst, calls, crashed>>

SwapPointers(t) ==
    /\ pc[t] = "swap_pointers"
    /\ current' = next
    /\ Goto(t, "swap_copy")
    /\ UNCHANGED <<universes, assigning, buffer, rebuild, mutexes, call, dst, calls, crashed>>

\* Seeded fault: the next frame does not start from the one just published.
SwapCopy_Forgotten(t) ==
    /\ pc[t] = "swap_copy"
    /\ UnlockBoth
    /\ Goto(t, "idle")
    /\ UNCHANGED <<shared, call, dst, calls, crashed>>

SwapCopy(t) ==
    /\ pc[t] = "swap_copy"
    /\ buffer' = [buffer EXCEPT ![next] = CurrentVector]
    /\ UnlockBoth
    /\ Goto(t, "idle")
    /\ UNCHANGED <<universes, assigning, current, rebuild, call, dst, calls, crashed>>

------------------------------------------------------------------------------
(* resize                                                                  *)

ResizeCall(t) ==
    /\ Enter(t)
    /\ Goto(t, "resize_lock")
    /\ UNCHANGED <<shared, mutexes, call, dst, crashed>>

\* Both mutexes are taken and the next vector gets its new length.
ResizeLock(t) ==
    /\ pc[t] = "resize_lock"
    /\ LockBoth(t)
    /\ \E S \in SUBSET Addresses :
          /\ rebuild' = [new |-> S, todo |-> S]
          /\ buffer' = [buffer EXCEPT ![next] = Resized(@, Size(S))]
    /\ Goto(t, "resize_build")
    /\ UNCHANGED <<universes, assigning, current, call, dst, calls, crashed>>

\* The loop body for a universe that was configured before: `i` is already
\* past the universe's own offset when its channels are copied.
KeepUniverse(u) ==
    LET i == Base(rebuild.new, u) + UniverseLength
        old == Base(universes, u)
    IN \/ /\ i < Size(rebuild.new)
          /\ buffer' = [buffer EXCEPT ![next] =
                [a \in DOMAIN @ |-> IF a \in i .. i + UniverseLength - 1
                                    THEN CurrentVector[old + (a - i)] ELSE @[a]]]
          /\ UNCHANGED crashed
       \/ /\ i >= Size(rebuild.new)
          /\ crashed' \in BOOLEAN
          /\ UNCHANGED buffer

\* The loop body for a new universe: its zeros go to the offset read from
\* the end iterator, which is anything.
ClearUniverse ==
    \/ \E i \in StrayOffsets :
          buffer' = [buffer EXCEPT ![next] =
                [a \in DOMAIN @ |-> IF a \in i .. i + UniverseLength - 1
                                    THEN 0 ELSE @[a]]]
       /\ UNCHANGED crashed
    \/ crashed' = TRUE /\ UNCHANGED buffer

ResizeUniverse(t) ==
    /\ pc[t] = "resize_build"
    /\ \E u \in rebuild.todo :
          /\ IsFirst(u, rebuild.todo)
          /\ rebuild' = [rebuild EXCEPT !.todo = @ \ {u}]
          /\ \/ u \in universes /\ KeepUniverse(u)
             \/ u \notin universes /\ ClearUniverse
    /\ UNCHANGED <<universes, assigning, current, mutexes, pc, call, dst, calls>>

\* The current vector becomes a copy of the next one.
ResizeCopy(t) ==
    /\ pc[t] = "resize_build"
    /\ rebuild.todo = {}
    /\ buffer' = [buffer EXCEPT ![current] = NextVector]
    /\ Goto(t, "resize_assign")
    /\ UNCHANGED <<universes, assigning, current, rebuild, mutexes, call, dst, calls, crashed>>

\* The threads that have found an element and not yet dereferenced it.
HoldsIterator(t) == pc[t] \in {"write_lock", "read_lock"}

\* The assignment of the map begins: the iterators into it are lost.
ResizeAssign(t) ==
    /\ pc[t] = "resize_assign"
    /\ assigning' = TRUE
    /\ call' = [s \in Threads |-> IF HoldsIterator(s)
                                  THEN [call[s] EXCEPT !.stale = TRUE] ELSE call[s]]
    /\ Goto(t, "resize_return")
    /\ UNCHANGED <<universes, buffer, current, rebuild, mutexes, dst, calls, crashed>>

ResizeReturn(t) ==
    /\ pc[t] = "resize_return"
    /\ universes' = rebuild.new
    /\ assigning' = FALSE
    /\ rebuild' = NoRebuild
    /\ UnlockBoth
    /\ Goto(t, "idle")
    /\ UNCHANGED <<buffer, current, call, dst, calls, crashed>>

------------------------------------------------------------------------------
Write(t) == WriteAbsent(t) \/ WriteFind(t) \/ WriteLock(t) \/ WriteCopy(t) \/ WriteReturn(t)
Read(t) == ReadRefused(t) \/ ReadFind(t) \/ ReadLock(t) \/ ReadCopy(t) \/ ReadReturn(t)
Swap(t) == SwapCall(t) \/ SwapLock(t) \/ SwapPointers(t) \/ SwapCopy(t)
Resize(t) == \/ ResizeCall(t) \/ ResizeLock(t) \/ ResizeUniverse(t)
             \/ ResizeCopy(t) \/ ResizeAssign(t) \/ ResizeReturn(t)

\* What a thread does once it is inside an operation.
Step(t) == \/ WriteLock(t) \/ WriteCopy(t) \/ WriteReturn(t)
           \/ ReadLock(t) \/ ReadCopy(t) \/ ReadReturn(t)
           \/ SwapLock(t) \/ SwapPointers(t) \/ SwapCopy(t)
           \/ ResizeLock(t) \/ ResizeUniverse(t) \/ ResizeCopy(t)
           \/ ResizeAssign(t) \/ ResizeReturn(t)

Operation(t) == Write(t) \/ Read(t) \/ Swap(t) \/ Resize(t) \/ RacingFind(t)

\* Nothing is left to do: all the calls have returned, or the process has
\* crashed.
Stopped ==
    /\ crashed \/ (calls = MaxCalls /\ \A t \in Threads : pc[t] = "idle")
    /\ UNCHANGED vars

Next == \/ ~crashed /\ \E t \in Threads : Operation(t)
        \/ Stopped

Spec == Init /\ [][Next]_vars

\* A thread inside an operation is scheduled.
FairSpec == Spec /\ \A t \in Threads : WF_vars(~crashed /\ Step(t))

------------------------------------------------------------------------------
(* Properties                                                              *)

Labels == {"idle", "write_lock", "write_copy", "read_lock", "read_copy",
           "swap_lock", "swap_pointers", "swap_copy", "resize_lock",
           "resize_build", "resize_assign", "resize_return"}

Vectors == UNION {[Offsets(Size(S)) -> Values] : S \in SUBSET Addresses}

CallRecord == [universe : Nat, span : [channel : Int, count : Nat],
               value : Values, it : Nat, k : Nat, stale : BOOLEAN]

\* Every variable holds a value of its kind; a vector always has the length
\* of some set of universes.
TypeOK ==
    /\ universes \in SUBSET Addresses
    /\ assigning \in BOOLEAN
    /\ buffer \in [{"a", "b"} -> Vectors]
    /\ current \in {"a", "b"}
    /\ mutex_read \in Threads \cup {NoThread}
    /\ mutex_write \in Threads \cup {NoThread}
    /\ pc \in [Threads -> Labels]
    /\ call \in [Threads -> CallRecord]
    /\ dst \in [Threads -> [0 .. UniverseLength -> Values]]
    /\ rebuild \in [new : SUBSET Addresses, todo : SUBSET Addresses]
    /\ calls \in 0 .. MaxCalls
    /\ crashed \in BOOLEAN

\* The span of a caller that keeps to the channels of one universe.
InRange(span) == span.channel >= 1 /\ (span.channel - 1) + span.count <= UniverseLength

Resizing(t) == pc[t] \in {"resize_build", "resize_assign", "resize_return"}
Swapping(t) == pc[t] \in {"swap_pointers", "swap_copy"}

\* The vectors that the next step of a thread may store to, and those that it
\* may load from or move.
Stores(t) == CASE pc[t] = "write_copy" -> {next}
               [] pc[t] = "swap_copy" -> {next}
               [] Resizing(t) -> {"a", "b"}
               [] OTHER -> {}
Touches(t) == CASE pc[t] = "read_copy" -> {current}
                [] Swapping(t) -> {"a", "b"}
                [] OTHER -> Stores(t)

\* No two threads are at conflicting accesses of a vector: write() holds one
\* mutex, read() the other, swap() and resize() both.
NoConflictingAccess ==
    \A s, t \in Threads : s # t => Stores(s) \cap Touches(t) = {}

\* Outside resize() both vectors have exactly the length of the layout, so
\* that swap() exchanges vectors of the same shape.
VectorsFitLayout ==
    (\A t \in Threads : ~Resizing(t)) =>
        \A b \in {"a", "b"} : DOMAIN buffer[b] = Offsets(Size(universes))

\* The offsets that belong to a universe.
Region(S, u) == Base(S, u) .. Base(S, u) + UniverseLength - 1

Copying(t) == pc[t] \in {"write_copy", "read_copy"} /\ call[t].k < call[t].span.count

\* A copy whose iterator no resize() has overtaken and whose span is in range
\* stays within the vector and within its own universe, although the map was
\* searched without a mutex and whatever other callers ask for.
FreshAccessAtHome ==
    \A t \in Threads :
        Copying(t) /\ ~call[t].stale /\ InRange(call[t].span) =>
            /\ call[t].universe \in universes
            /\ Target(t) \in Region(universes, call[t].universe)
            /\ Target(t) \in DOMAIN buffer["a"] \cap DOMAIN buffer["b"]

\* read() tests its span, write() does not: a fresh read may begin before its
\* universe, for a channel below 1, but never goes beyond its end.
ReadEndsAtHome ==
    \A t \in Threads :
        pc[t] = "read_copy" /\ Copying(t) /\ ~call[t].stale =>
            Target(t) < Base(universes, call[t].universe) + UniverseLength

\* No two universes share an offset.
RegionsDisjoint ==
    \A u, v \in universes : u # v => Region(universes, u) \cap Region(universes, v) = {}

\* The process crashes in this class only inside resize() itself, during a
\* look-up that races with it, through an iterator that it overtook, or through
\* a span that is out of range.
CrashNeedsCause ==
    [][~crashed /\ crashed' =>
          \E t \in Threads :
             Resizing(t) \/ (Copying(t) /\ (call[t].stale \/ ~InRange(call[t].span)))]_vars

\* Every call that was made returns, unless the process crashes: the mutexes
\* cannot block the threads for good.
CallsReturn ==
    \A t \in Threads : pc[t] # "idle" ~> (pc[t] = "idle" \/ crashed)
==============================================================================
