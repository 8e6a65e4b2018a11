------------------------------ MODULE DmxFrames ------------------------------
(***************************************************************************)
(* What a lxmax::dmx_buffer promises its callers: a pending frame that     *)
(* write calls fill in, a live frame that read calls copy from, and a swap *)
(* that publishes the whole pending frame at once.  A write or read takes  *)
(* effect atomically between its start and its return, unless a            *)
(* reconfiguration of the universes overlaps it: then nothing is promised  *)
(* about it, and the process may even crash.                               *)
(*                                                                         *)
(* The set of universes may be replaced (resize).  The abstract            *)
(* specification promises nothing about the contents a reconfiguration     *)
(* leaves behind, except that both frames are then the same.               *)
(***************************************************************************)
EXTENDS Integers

CONSTANTS
    Threads,          \* the threads that call the buffer
    Addresses,        \* the universe addresses that may be configured
    UniverseLength,   \* channels per universe
    Values,           \* values of a channel
    Spans,            \* the channel ranges callers ask for
    Unspecified       \* the result of a read about which nothing is promised

VARIABLES
    active,           \* the configured universes
    pend,             \* the pending frame of each active universe
    live,             \* the published frame of each active universe
    op,               \* the call each thread has in progress
    reconfiguring,    \* TRUE while the universes are being replaced
    dead              \* TRUE once the process has crashed

vars == <<active, pend, live, op, reconfiguring, dead>>

Channels == 1..UniverseLength
Frames(S) == [S -> [Channels -> Values]]

NoOp == [kind |-> "none"]

Init ==
    /\ active = {}
    /\ pend = [u \in {} |-> 0]
    /\ live = [u \in {} |-> 0]
    /\ op = [t \in Threads |-> NoOp]
    /\ reconfiguring = FALSE
    /\ dead = FALSE

Request(kind, u, span, value) ==
    [kind |-> kind, universe |-> u, span |-> span, value |-> value,
     overlapped |-> reconfiguring, effect |-> FALSE, result |-> Unspecified]

(***************************************************************************)
(* A call begins.  The universe is one that is configured, unless a        *)
(* reconfiguration is under way.                                           *)
(***************************************************************************)
Start(t) ==
    /\ op[t] = NoOp
    /\ \E kind \in {"write", "read"}, u \in Addresses, span \in Spans, value \in Values :
          /\ reconfiguring \/ u \in active
          /\ op' = [op EXCEPT ![t] = Request(kind, u, span, value)]
    /\ UNCHANGED <<active, pend, live, reconfiguring, dead>>

Pending(t, kind) ==
    /\ op[t] # NoOp
    /\ op[t].kind = kind
    /\ ~op[t].effect
    /\ ~reconfiguring

InSpan(c, span) == c \in span.channel .. span.channel + span.count - 1

\* All the channels of a write change in one step.
WriteEffect(t) ==
    /\ Pending(t, "write")
    /\ ~op[t].overlapped
    /\ pend' = [pend EXCEPT ![op[t].universe] =
                  [c \in Channels |-> IF InSpan(c, op[t].span) THEN op[t].value ELSE @[c]]]
    /\ op' = [op EXCEPT ![t].effect = TRUE]
    /\ UNCHANGED <<active, live, reconfiguring, dead>>

\* A read returns channels of one published frame.
ReadEffect(t) ==
    /\ Pending(t, "read")
    /\ ~op[t].overlapped
    /\ op' = [op EXCEPT ![t].effect = TRUE,
                        ![t].result = [j \in 0 .. op[t].span.count - 1 |->
                            live[op[t].universe][op[t].span.channel + j]]]
    /\ UNCHANGED <<active, pend, live, reconfiguring, dead>>

\* A write that a reconfiguration overlapped lands anywhere.
StrayWrite(t) ==
    /\ Pending(t, "write")
    /\ op[t].overlapped
    /\ pend' \in Frames(active)
    /\ op' = [op EXCEPT ![t].effect = TRUE]
    /\ UNCHANGED <<active, live, reconfiguring, dead>>

StrayRead(t) ==
    /\ Pending(t, "read")
    /\ op[t].overlapped
    /\ op' = [op EXCEPT ![t].effect = TRUE]
    /\ UNCHANGED <<active, pend, live, reconfiguring, dead>>

Return(t) ==
    /\ op[t] # NoOp
    /\ op[t].effect
    /\ op' = [op EXCEPT ![t] = NoOp]
    /\ UNCHANGED <<active, pend, live, reconfiguring, dead>>

\* The pending frame is published as a whole and goes on from there.
Publish ==
    /\ ~reconfiguring
    /\ live' = pend
    /\ UNCHANGED <<active, pend, op, reconfiguring, dead>>

BeginReconfigure ==
    /\ ~reconfiguring
    /\ reconfiguring' = TRUE
    /\ active' = {}
    /\ pend' = [u \in {} |-> 0]
    /\ live' = [u \in {} |-> 0]
    /\ op' = [t \in Threads |->
                IF op[t] # NoOp /\ ~op[t].effect
                THEN [op[t] EXCEPT !.overlapped = TRUE] ELSE op[t]]
    /\ UNCHANGED dead

EndReconfigure ==
    /\ reconfiguring
    /\ reconfiguring' = FALSE
    /\ active' \in SUBSET Addresses
    /\ pend' \in Frames(active')
    /\ live' = pend'
    /\ UNCHANGED <<op, dead>>

\* Nothing but a reconfiguration, or a call it overlapped, can crash.
Crash ==
    /\ reconfiguring \/ \E t \in Threads : op[t] # NoOp /\ op[t].overlapped
    /\ dead' = TRUE
    /\ UNCHANGED <<active, pend, live, op, reconfiguring>>

Next ==
    /\ ~dead
    /\ \/ \E t \in Threads :
             \/ Start(t) \/ WriteEffect(t) \/ ReadEffect(t)
             \/ StrayWrite(t) \/ StrayRead(t) \/ Return(t)
       \/ Publish \/ BeginReconfigure \/ EndReconfigure \/ Crash

Spec == Init /\ [][Next]_vars
==============================================================================
