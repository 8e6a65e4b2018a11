-------------------------- MODULE DmxBufferRefinement --------------------------
(***************************************************************************)
(* dmx_buffer implements DmxFrames.  A write takes effect when it acquires *)
(* its mutex: from then on the channels it has still to copy belong to the *)
(* pending frame.  A read takes effect when it acquires its mutex: the     *)
(* channels it has still to copy are those of the current vector.  A swap  *)
(* publishes at the exchange of the pointers, after which the current      *)
(* vector is the pending frame too until it has been copied.               *)
(***************************************************************************)
EXTENDS DmxBuffer

Reconfiguring == \E t \in Threads : Resizing(t)
Republishing == \E t \in Threads : pc[t] = "swap_copy"

\* The channels a writer has still to store.
Remaining(t) ==
    {call[t].it + (call[t].span.channel - 1) + j : j \in call[t].k .. call[t].span.count - 1}

Writers == {t \in Threads : pc[t] = "write_copy"}

PendingChannel(a) ==
    IF Republishing THEN CurrentVector[a]
    ELSE IF \E t \in Writers : a \in Remaining(t)
         THEN call[CHOOSE t \in Writers : a \in Remaining(t)].value
         ELSE NextVector[a]

active == IF Reconfiguring THEN {} ELSE universes

pend == [u \in active |-> [c \in 1..UniverseLength |-> PendingChannel(Base(universes, u) + c - 1)]]
live == [u \in active |-> [c \in 1..UniverseLength |-> CurrentVector[Base(universes, u) + c - 1]]]

\* What a reader has copied, completed by what it is about to copy.
ReadResult(t) ==
    [j \in 0 .. call[t].span.count - 1 |->
        IF j < call[t].k THEN dst[t][j]
        ELSE CurrentVector[call[t].it + (call[t].span.channel - 1) + j]]

Kind(t) == IF pc[t] \in {"write_lock", "write_copy"} THEN "write" ELSE "read"

op == [t \in Threads |->
    IF pc[t] \notin {"write_lock", "write_copy", "read_lock", "read_copy"}
    THEN [kind |-> "none"]
    ELSE [kind |-> Kind(t), universe |-> call[t].universe, span |-> call[t].span,
          value |-> call[t].value,
          overlapped |-> call[t].stale \/ (Reconfiguring /\ HoldsIterator(t)),
          effect |-> ~HoldsIterator(t),
          result |-> IF pc[t] = "read_copy" /\ ~call[t].stale
                     THEN ReadResult(t) ELSE Unspecified]]

Frames == INSTANCE DmxFrames WITH reconfiguring <- Reconfiguring, dead <- crashed

\* Every behaviour of the buffer is one of the abstract frames: writes are
\* atomic, a swap publishes whole frames, a read never mixes two of them.
RefinesFrames == Frames!Spec
================================================================================
