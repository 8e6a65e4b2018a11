------------------------------ MODULE DmxIoService ------------------------------
(***************************************************************************)
(* The DMX IO service, dmx_io_service.cpp, and the part of lx.service.cpp  *)
(* that owns it: the object is made and deleted on the main thread, which  *)
(* starts an IO thread, waits for it in the end, and calls set_universes;  *)
(* Max's scheduler thread runs the clock that calls process_io, and edits  *)
(* the table of universes; patchers call write and read.                   *)
(*                                                                         *)
(* The two buffers are taken at what they promise (DmxFrames).  Everything *)
(* but run, write and read holds the service's mutex throughout.           *)
(***************************************************************************)
EXTENDS Integers, FiniteSets

CONSTANTS
    Names,            \* the keys of the table of universes
    Configs,          \* what a universe may be: its protocol, type and internal universe
    Loaded,           \* bound: the tables that a start may load
    Values,           \* values of a channel
    Unspecified,      \* the result of a read about which nothing is promised
    Driven,           \* whether anybody sets the clock and calls the service
    MaxSets,          \* bound: the calls of set_universes
    MaxCalls          \* bound: the edits of the table and the calls of write and read, together

ASSUME IoAssumption ==
    /\ Loaded \subseteq UNION {[S -> Configs] : S \in SUBSET Names}
    /\ \A c \in Configs : {"protocol", "type", "internal"} \subseteq DOMAIN c
    /\ Driven \in BOOLEAN
    /\ MaxSets \in Nat /\ MaxCalls \in Nat

IpProtocols == {"artnet", "sacn"}
NoConfigs == [n \in {} |-> 0]

VARIABLES
    main,             \* where the main thread is
    io,               \* where the IO thread is
    tick,             \* where the clock's function is
    clock,            \* io_clock
    mutex,            \* the thread that holds _mutex
    work,             \* _io_context_work tracks work of the context
    stopped,          \* _io_context.stopped()
    overtaken,        \* stop came before run had registered its work (history)
    table,            \* the universes of the service
    protocols,        \* the keys of _protocols
    keys, configs,    \* the locals of set_universes
    ever, always,     \* what the table held some time, all the time (history)
    offered,          \* the frame each protocol was given to send
    published,        \* a frame was published and offered (history)
    counts,           \* the sets, and the edits and calls, so far
    outActive, outPend, outLive, outOp, outReconf,    \* _output_buffer
    inActive, inPend, inLive, inOp, inReconf,         \* _input_buffer
    dead              \* the process has crashed

life == <<main, io, work, stopped, overtaken>>
ticking == <<tick, clock, offered, published>>
setting == <<protocols, keys, configs, ever, always>>
output == <<outActive, outPend, outLive, outOp, outReconf>>
input == <<inActive, inPend, inLive, inOp, inReconf>>
vars == <<life, ticking, mutex, table, setting, counts, output, input, dead>>

Out == INSTANCE DmxFrames WITH
    Threads <- {"patcher"}, Addresses <- {c.internal : c \in Configs}, UniverseLength <- 1,
    Spans <- {[channel |-> 1, count |-> 1]},
    active <- outActive, pend <- outPend, live <- outLive, op <- outOp, reconfiguring <- outReconf

\* Nothing is received at this commit, and what write puts in goes out.
In == INSTANCE DmxFrames WITH
    Threads <- {"patcher"}, Addresses <- {c.internal : c \in Configs}, UniverseLength <- 1,
    Spans <- {[channel |-> 1, count |-> 1]}, Values <- {0},
    active <- inActive, pend <- inPend, live <- inLive, op <- inOp, reconfiguring <- inReconf

Free == mutex = "nobody"
Setting == {"keys", "lookup", "resizein", "startout", "resizeout", "protocols"}
Up == main \in {"up"} \cup Setting

Init ==
    /\ main = "new" /\ io = "none" /\ work = FALSE /\ stopped = FALSE /\ overtaken = FALSE
    /\ tick = "idle" /\ clock = "none" /\ offered = {} /\ published = FALSE
    /\ mutex = "nobody"
    /\ table \in Loaded
    /\ protocols = {} /\ keys = {} /\ configs = NoConfigs
    /\ ever = {} /\ always = {}
    /\ counts = [sets |-> 0, calls |-> 0]
    /\ Out!Init /\ In!Init

------------------------------------------------------------------------------
(* The life of the service: lx_service_new, _free and the IO thread        *)

\* The IO thread may run before the clock exists.
StartThread ==
    /\ main = "new"
    /\ main' = "starting" /\ io' = "started"
    /\ UNCHANGED <<work, stopped, overtaken, ticking, mutex, table, setting, counts, output, input, dead>>

\* Without its thread the service frees itself: there is nothing to join.
StartFails ==
    /\ main = "new"
    /\ main' = "delete"
    /\ UNCHANGED <<io, work, stopped, overtaken, ticking, mutex, table, setting, counts, output, input, dead>>

CreateClock ==
    /\ main = "starting"
    /\ main' = "up" /\ clock' = "created"
    /\ UNCHANGED <<io, work, stopped, overtaken, tick, offered, published,
                   mutex, table, setting, counts, output, input, dead>>

\* lx_onquit
Quit ==
    /\ main = "up"
    /\ main' = "stop"
    /\ UNCHANGED <<io, work, stopped, overtaken, ticking, mutex, table, setting, counts, output, input, dead>>

\* Seeded fault: stop leaves the context its work.
Release_Kept(next) ==
    /\ Free
    /\ UNCHANGED <<work, stopped>>
    /\ main' = next

\* dmx_io_service::stop: the last work that goes stops the context.
Release(next) ==
    /\ Free
    /\ work' = (work /\ stopped)
    /\ stopped' = (stopped \/ work)
    /\ main' = next

Stop ==
    /\ main = "stop"
    /\ Release("join")
    /\ overtaken' = (io = "started")
    /\ UNCHANGED <<io, ticking, mutex, table, setting, counts, output, input, dead>>

\* Seeded fault: nobody waits for the thread.
Join_Skipped ==
    /\ main = "join"
    /\ main' = "delete"
    /\ UNCHANGED <<io, work, stopped, overtaken, ticking, mutex, table, setting, counts, output, input, dead>>

Join ==
    /\ main = "join" /\ io = "done"
    /\ main' = "delete"
    /\ UNCHANGED <<io, work, stopped, overtaken, ticking, mutex, table, setting, counts, output, input, dead>>

\* The destructor stops once more ...
Delete ==
    /\ main = "delete"
    /\ Release("destroy")
    /\ UNCHANGED <<io, overtaken, ticking, mutex, table, setting, counts, output, input, dead>>

\* ... and gives the mutex back before the members go and the pointer is
\* cleared, whoever else is in the service.  The clock stays as it is.
Destroy ==
    /\ main = "destroy"
    /\ main' = "gone"
    /\ UNCHANGED <<io, work, stopped, overtaken, ticking, mutex, table, setting, counts, output, input, dead>>

\* dmx_io_service::run
RunRegister ==
    /\ io = "started" /\ Free
    /\ work' = TRUE
    /\ io' = "running"
    /\ UNCHANGED <<main, stopped, overtaken, ticking, mutex, table, setting, counts, output, input, dead>>

\* The context runs until it is stopped.
RunReturn ==
    /\ io = "running" /\ stopped
    /\ io' = "done"
    /\ UNCHANGED <<main, work, stopped, overtaken, ticking, mutex, table, setting, counts, output, input, dead>>

------------------------------------------------------------------------------
(* set_universes, on the main thread, while messages edit the table        *)

Entries(t) == {<<n, t[n]>> : n \in DOMAIN t}

\* A universe is added, changed or removed on the scheduler thread.  Only
\* set_universes reads the table, so edits at other times are left out.
EditTable ==
    /\ Up /\ counts.calls < MaxCalls
    /\ \E n \in Names : table' \in
          {[m \in DOMAIN table \cup {n} |-> IF m = n THEN c ELSE table[m]] : c \in Configs}
          \cup {[m \in DOMAIN table \ {n} |-> table[m]]}
    /\ table' # table
    /\ IF main \in Setting \ {"keys"}
       THEN ever' = ever \cup Entries(table') /\ always' = always \cap Entries(table')
       ELSE UNCHANGED <<ever, always>>
    /\ counts' = [counts EXCEPT !.calls = @ + 1]
    /\ UNCHANGED <<life, ticking, mutex, protocols, keys, configs, output, input, dead>>

SetLock ==
    /\ Driven /\ main = "up" /\ Free /\ counts.sets < MaxSets
    /\ mutex' = "main" /\ main' = "keys"
    /\ counts' = [counts EXCEPT !.sets = @ + 1]
    /\ UNCHANGED <<io, work, stopped, overtaken, ticking, table, setting, output, input, dead>>

\* Max may refuse to list the keys: then everything stays as it was.
SetRefused ==
    /\ main = "keys"
    /\ mutex' = "nobody" /\ main' = "up"
    /\ UNCHANGED <<io, work, stopped, overtaken, ticking, table, setting, counts, output, input, dead>>

SetKeys ==
    /\ main = "keys"
    /\ keys' = DOMAIN table /\ configs' = NoConfigs
    /\ ever' = Entries(table) /\ always' = Entries(table)
    /\ main' = "lookup"
    /\ UNCHANGED <<io, work, stopped, overtaken, ticking, mutex, table, protocols,
                   counts, output, input, dead>>

\* Seeded fault: the protocol is not looked at.
Collect_Any(n) ==
    configs' = IF n \in DOMAIN table
               THEN [m \in DOMAIN configs \cup {n} |-> IF m = n THEN table[n] ELSE configs[m]]
               ELSE configs

Collect(n) ==
    configs' = IF n \in DOMAIN table /\ table[n].protocol \in IpProtocols
               THEN [m \in DOMAIN configs \cup {n} |-> IF m = n THEN table[n] ELSE configs[m]]
               ELSE configs

\* Seeded fault: the first universe that is gone ends the loop.
SetLookUp_Breaks ==
    /\ main = "lookup"
    /\ \E n \in keys :
          /\ Collect(n)
          /\ keys' = IF n \in DOMAIN table THEN keys \ {n} ELSE {}
    /\ UNCHANGED <<life, ticking, mutex, table, protocols, ever, always, counts, output, input, dead>>

\* A universe that has left the table, or is not on the network, is skipped.
SetLookUp ==
    /\ main = "lookup"
    /\ \E n \in keys : Collect(n) /\ keys' = keys \ {n}
    /\ UNCHANGED <<life, ticking, mutex, table, protocols, ever, always, counts, output, input, dead>>

AddressesOf(type) == {configs[n].internal : n \in {m \in DOMAIN configs : configs[m].type = type}}

SetResizeInput ==
    /\ main = "lookup" /\ keys = {}
    /\ In!BeginReconfigure
    /\ main' = "resizein"
    /\ UNCHANGED <<io, work, stopped, overtaken, ticking, mutex, table, setting, counts, output>>

SetInputResized ==
    /\ main = "resizein"
    /\ In!EndReconfigure
    /\ inActive' = AddressesOf("input")
    /\ main' = "startout"
    /\ UNCHANGED <<io, work, stopped, overtaken, ticking, mutex, table, setting, counts, output>>

SetResizeOutput ==
    /\ main = "startout"
    /\ Out!BeginReconfigure
    /\ main' = "resizeout"
    /\ UNCHANGED <<io, work, stopped, overtaken, ticking, mutex, table, setting, counts, input>>

SetOutputResized ==
    /\ main = "resizeout"
    /\ Out!EndReconfigure
    /\ outActive' = AddressesOf("output")
    /\ main' = "protocols"
    /\ UNCHANGED <<io, work, stopped, overtaken, ticking, mutex, table, setting, counts, input>>

\* The universes are read again.  One that was given another protocol gets
\* that one's object, and there is none but for the protocols of the network:
\* the null pointer is dereferenced.  One that was removed is freed: whatever
\* is read there may be any protocol, or end the process by itself.
SetProtocols ==
    /\ main = "protocols"
    /\ \E read \in [DOMAIN configs -> {c.protocol : c \in Configs}] :
          /\ \A n \in DOMAIN configs \cap DOMAIN table : read[n] = table[n].protocol
          /\ protocols' = protocols \cup ({read[n] : n \in DOMAIN configs} \cap IpProtocols)
          /\ \/ dead' = \E n \in DOMAIN configs : read[n] \notin IpProtocols
             \/ ~(DOMAIN configs \subseteq DOMAIN table) /\ dead' = TRUE
    /\ configs' = NoConfigs
    /\ mutex' = "nobody" /\ main' = "up"
    /\ UNCHANGED <<io, work, stopped, overtaken, ticking, table, keys, ever, always, counts, output, input>>

------------------------------------------------------------------------------
(* process_io, on the scheduler thread                                     *)

\* Nobody does at this commit.
SetClock ==
    /\ Driven /\ main = "up" /\ clock = "created"
    /\ clock' = "set"
    /\ UNCHANGED <<life, tick, offered, published, mutex, table, setting, counts, output, input, dead>>

\* lx_service_io_clock_tick.  lx_service_free does not free the clock: a tick
\* after it dereferences the null pointer.
Tick ==
    /\ clock = "set" /\ tick = "idle"
    /\ IF main = "gone"
       THEN dead' = TRUE /\ UNCHANGED <<tick, clock>>
       ELSE tick' = "lock" /\ clock' = "fired" /\ UNCHANGED dead
    /\ UNCHANGED <<life, offered, published, mutex, table, setting, counts, output, input>>

TickLock ==
    /\ tick = "lock" /\ Free
    /\ mutex' = "scheduler" /\ tick' = "swap"
    /\ UNCHANGED <<life, clock, offered, published, table, setting, counts, output, input, dead>>

\* Seeded fault: the mutex is given back before the protocols send.
TickSwap_Unlocks ==
    /\ tick = "swap"
    /\ Out!Publish
    /\ offered' = {} /\ mutex' = "nobody" /\ tick' = "send"
    /\ UNCHANGED <<life, clock, published, table, setting, counts, input>>

TickSwap ==
    /\ tick = "swap"
    /\ Out!Publish
    /\ offered' = {} /\ tick' = "send"
    /\ UNCHANGED <<life, clock, published, mutex, table, setting, counts, input>>

Served == {o.protocol : o \in offered}

TickSend ==
    /\ tick = "send"
    /\ \E p \in protocols \ Served : offered' = offered \cup {[protocol |-> p, frame |-> outLive]}
    /\ UNCHANGED <<life, clock, tick, published, mutex, table, setting, counts, output, input, dead>>

\* Seeded fault: the clock is not set again.
TickReturn_Once ==
    /\ tick = "send" /\ protocols = Served
    /\ mutex' = "nobody" /\ tick' = "idle"
    /\ offered' = {} /\ published' = TRUE
    /\ UNCHANGED <<life, clock, table, setting, counts, output, input, dead>>

TickReturn ==
    /\ tick = "send" /\ protocols = Served
    /\ mutex' = "nobody" /\ tick' = "idle" /\ clock' = "set"
    /\ offered' = {} /\ published' = TRUE
    /\ UNCHANGED <<life, table, setting, counts, output, input, dead>>

------------------------------------------------------------------------------
(* write and read, from patchers: they do not take the service's mutex     *)

Write ==
    /\ Driven /\ main \notin {"new", "gone"} /\ counts.calls < MaxCalls
    /\ Out!Start("patcher") /\ outOp'["patcher"].kind = "write"
    /\ counts' = [counts EXCEPT !.calls = @ + 1]
    /\ UNCHANGED <<life, ticking, mutex, table, setting, input>>

WriteGoesOn ==
    /\ Out!WriteEffect("patcher") \/ Out!StrayWrite("patcher") \/ Out!Return("patcher")
    /\ UNCHANGED <<life, ticking, mutex, table, setting, counts, input>>

Read ==
    /\ Driven /\ main \notin {"new", "gone"} /\ counts.calls < MaxCalls
    /\ In!Start("patcher") /\ inOp'["patcher"].kind = "read"
    /\ counts' = [counts EXCEPT !.calls = @ + 1]
    /\ UNCHANGED <<life, ticking, mutex, table, setting, output>>

ReadGoesOn ==
    /\ In!ReadEffect("patcher") \/ In!StrayRead("patcher") \/ In!Return("patcher")
    /\ UNCHANGED <<life, ticking, mutex, table, setting, counts, output>>

\* What the buffers do when a resize goes astray.
Crash ==
    /\ Out!Crash \/ In!Crash
    /\ UNCHANGED <<life, ticking, mutex, table, setting, counts, output, input>>

Calling == outOp["patcher"] # Out!NoOp \/ inOp["patcher"] # In!NoOp

\* A round or a call that is under way when the service is deleted goes on in
\* freed memory, as if it were still there or to a crash.
UseDeleted ==
    /\ main = "gone"
    /\ tick # "idle" \/ Calling
    /\ dead' = TRUE
    /\ UNCHANGED <<life, ticking, mutex, table, setting, counts, output, input>>

------------------------------------------------------------------------------

MainStep ==
    \/ StartThread \/ StartFails \/ CreateClock \/ Stop \/ Join \/ Delete \/ Destroy
    \/ SetRefused \/ SetKeys \/ SetLookUp \/ SetResizeInput \/ SetInputResized
    \/ SetResizeOutput \/ SetOutputResized \/ SetProtocols

IoStep == RunRegister \/ RunReturn

TickStep == TickLock \/ TickSwap \/ TickSend \/ TickReturn

CallStep == WriteGoesOn \/ ReadGoesOn

\* The IO thread was started, overtaken by stop, and is waited for.
Hung == main = "join" /\ overtaken /\ io = "running"

\* The end of the process, after a crash or once Max has quit or hangs.
Ended ==
    /\ dead \/ main = "gone" \/ Hung
    /\ UNCHANGED vars

Next ==
    \/ /\ ~dead
       /\ \/ MainStep \/ IoStep \/ TickStep \/ CallStep \/ Crash \/ UseDeleted
          \/ Quit \/ EditTable \/ SetLock \/ SetClock \/ Tick \/ Write \/ Read
    \/ Ended

Spec == Init /\ [][Next]_vars

\* Every thread runs, and a clock that is set ticks.  Strong fairness, because
\* who waits for the mutex gets it: whoever holds it gives it back, and the
\* clock lets milliseconds pass before it takes it again.
FairSpec ==
    /\ Spec
    /\ SF_vars(~dead /\ MainStep) /\ SF_vars(~dead /\ IoStep)
    /\ SF_vars(~dead /\ (TickStep \/ Tick)) /\ WF_vars(~dead /\ CallStep)

------------------------------------------------------------------------------
(* Properties                                                              *)

\* The service is deleted only when no thread runs its context any more.
NotDeletedUnderRun == main = "gone" => io \in {"none", "done"}

\* Quitting waits for ever only if stop came before the IO thread registered
\* its work: otherwise, once it waits, the context is stopped.
JoinNeedsStop == main = "join" /\ ~overtaken => stopped

\* All protocols are given one and the same frame to send, the one that was
\* published, although writes go on and universes are reconfigured.
OneFrameForAll == \A o \in offered : o.frame = outLive

\* After set_universes the buffers hold only universes that were in the table
\* during the call, and all that were in it from its start to its end, however
\* the table was edited meanwhile.
LayoutWasConfigured ==
    LET Of(S, type) == {e[2].internal : e \in {f \in S : f[2].type = type /\ f[2].protocol \in IpProtocols}}
    IN main = "up" =>
         /\ Of(always, "output") \subseteq outActive /\ outActive \subseteq Of(ever, "output")
         /\ Of(always, "input") \subseteq inActive /\ inActive \subseteq Of(ever, "input")

\* A quit, or a start that failed, comes to its end although the clock goes on
\* ticking and patchers go on calling.  The one way for it to hang is the one
\* the code has: the wait for an IO thread that stop has overtaken.
QuitEnds == main \in {"stop", "join", "delete"} ~> main = "gone" \/ Hung \/ dead

\* Once somebody has set the clock, a pending frame does not stay pending: a
\* round publishes it or set_universes drops it, which puts the published
\* frame in its place.  The service may also be deleted first.
PendingIsPublishedOrDropped ==
    clock \in {"set", "fired"} /\ outPend # outLive
        ~> outPend = outLive \/ outReconf \/ main = "gone" \/ dead

\* The process crashes only if somebody disturbed set_universes by an edit of
\* the table (ever and always differ), a resize went astray on its own or with
\* a patcher's call, or a round or a call met the deleted service.
ServiceCrashNeedsCause ==
    LET Overlapped(op) == op # Out!NoOp /\ op.overlapped
    IN dead =>
         \/ ever # always
         \/ outReconf \/ Overlapped(outOp["patcher"])
         \/ inReconf \/ Overlapped(inOp["patcher"])
         \/ main = "gone" /\ (clock = "set" \/ tick # "idle" \/ Calling)

\* A service that is up publishes frames.
FramesArePublished == main = "up" ~> published \/ main = "stop" \/ dead
==============================================================================
