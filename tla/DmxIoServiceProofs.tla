--------------------------- MODULE DmxIoServiceProofs ---------------------------
(***************************************************************************)
(* Proofs about DmxIoService for any table, any buffers and any bounds.    *)
(*                                                                         *)
(* Three invariants are enough.  LifeInv relates the steps of the main     *)
(* thread and of the IO thread with the work that the context counts; only *)
(* the life cycle's own actions touch these variables.  TurnInv says whose *)
(* turn the mutex grants, and that a frame is offered only on the          *)
(* scheduler thread's turn, while the layout changes only on the main      *)
(* thread's.  LayoutInv follows set_universes: what it has collected, what *)
(* it has still to look up, and which of the buffers has it already.       *)
(***************************************************************************)
EXTENDS DmxIoService, TLAPS

\* The main thread has the service up or is about to stop it.
Alive == {"starting", "up", "stop"} \cup Setting

LifeInv ==
    /\ main \in Alive \cup {"new", "join", "delete", "destroy", "gone"}
    /\ main = "new" => io = "none"
    /\ main \in Alive \cup {"join"} => io \in {"started", "running", "done"}
    /\ main \in {"delete", "destroy", "gone"} => io \in {"none", "done"}
    /\ io = "running" => work \/ stopped
    /\ io = "done" => stopped
    /\ JoinNeedsStop

\* What the actions of the life cycle change.
LifeStep ==
    \/ StartThread \/ StartFails \/ CreateClock \/ Quit \/ Stop \/ Join \/ Delete
    \/ Destroy \/ RunRegister \/ RunReturn

\* Every other action leaves the life cycle alone, but for set_universes,
\* which moves the main thread between its own places and "up".
OtherStep ==
    /\ UNCHANGED <<io, work, stopped, overtaken>>
    /\ \/ main' = main
       \/ main \in {"up"} \cup Setting /\ main' \in {"up"} \cup Setting

LEMMA StepKinds ==
    ASSUME [Next]_vars
    PROVE  LifeStep \/ OtherStep
<1>1. ASSUME UNCHANGED vars PROVE OtherStep
  BY <1>1 DEF vars, life, OtherStep
<1>2. ASSUME MainStep PROVE LifeStep \/ OtherStep
  <2>1. ASSUME SetRefused \/ SetKeys \/ SetLookUp \/ SetResizeInput \/ SetInputResized
               \/ SetResizeOutput \/ SetOutputResized \/ SetProtocols
        PROVE  OtherStep
    BY <2>1 DEF SetRefused, SetKeys, SetLookUp, SetResizeInput, SetInputResized,
                SetResizeOutput, SetOutputResized, SetProtocols, life, OtherStep, Setting
  <2> QED BY <1>2, <2>1 DEF MainStep, LifeStep
<1>3. ASSUME IoStep PROVE LifeStep
  BY <1>3 DEF IoStep, LifeStep
<1>4. ASSUME TickStep PROVE OtherStep
  BY <1>4 DEF TickStep, TickLock, TickSwap, TickSend, TickReturn, life, OtherStep
<1>5. ASSUME CallStep PROVE OtherStep
  BY <1>5 DEF CallStep, WriteGoesOn, ReadGoesOn, life, OtherStep
<1>6. ASSUME Crash \/ UseDeleted \/ EditTable \/ SetClock \/ Tick \/ Write \/ Read PROVE OtherStep
  BY <1>6 DEF Crash, UseDeleted, EditTable, SetClock, Tick, Write, Read, life, OtherStep
<1>7. ASSUME SetLock PROVE OtherStep
  BY <1>7 DEF SetLock, OtherStep, Setting
<1> QED BY <1>1, <1>2, <1>3, <1>4, <1>5, <1>6, <1>7 DEF Next, Ended, LifeStep

------------------------------------------------------------------------------
(* The life of the service                                                 *)

LEMMA LifeInit == Init => LifeInv
BY DEF Init, LifeInv, Alive, Setting, JoinNeedsStop

\* What stop does to the context.
LEMMA Released ==
    ASSUME LifeInv, NEW next, Release(next)
    PROVE  /\ stopped => stopped'
           /\ io = "running" => stopped'
           /\ main' = next
BY DEF LifeInv, Release

LEMMA LifeNext ==
    ASSUME LifeInv, [Next]_vars
    PROVE  LifeInv'
<1>1. ASSUME OtherStep PROVE LifeInv'
  BY <1>1 DEF OtherStep, LifeInv, Alive, Setting, JoinNeedsStop
<1>2. ASSUME StartThread \/ StartFails PROVE LifeInv'
  BY <1>2 DEF StartThread, StartFails, LifeInv, Alive, Setting, JoinNeedsStop
<1>3. ASSUME CreateClock \/ Quit PROVE LifeInv'
  BY <1>3 DEF CreateClock, Quit, LifeInv, Alive, Setting, JoinNeedsStop
<1>4. ASSUME Stop PROVE LifeInv'
  <2>1. /\ main = "stop" /\ main' = "join" /\ io' = io
        /\ overtaken' = (io = "started")
        /\ stopped => stopped'
        /\ io = "running" => stopped'
    BY <1>4, Released DEF Stop
  <2>2. io \in {"started", "running", "done"} /\ (io = "done" => stopped)
    BY <2>1 DEF LifeInv, Alive
  <2> QED BY <2>1, <2>2 DEF LifeInv, Alive, Setting, JoinNeedsStop
<1>5. ASSUME Join PROVE LifeInv'
  BY <1>5 DEF Join, LifeInv, Alive, Setting, JoinNeedsStop
<1>6. ASSUME Delete PROVE LifeInv'
  <2>1. /\ main = "delete" /\ main' = "destroy" /\ io' = io
        /\ stopped => stopped'
    BY <1>6, Released DEF Delete
  <2>2. io \in {"none", "done"} /\ (io = "done" => stopped)
    BY <2>1 DEF LifeInv
  <2> QED BY <2>1, <2>2 DEF LifeInv, Alive, Setting, JoinNeedsStop
<1>7. ASSUME RunRegister PROVE LifeInv'
  <2>1. /\ main' = main /\ stopped' = stopped /\ overtaken' = overtaken
        /\ io = "started" /\ io' = "running" /\ work'
    BY <1>7 DEF RunRegister
  <2>2. main \in Alive \cup {"join"}
    BY <2>1 DEF LifeInv
  <2> QED BY <2>1, <2>2 DEF LifeInv, Alive, Setting, JoinNeedsStop
<1>8. ASSUME RunReturn PROVE LifeInv'
  <2>1. /\ main' = main /\ stopped' = stopped /\ overtaken' = overtaken
        /\ io = "running" /\ io' = "done" /\ stopped
    BY <1>8 DEF RunReturn
  <2>2. main \in Alive \cup {"join"}
    BY <2>1 DEF LifeInv
  <2> QED BY <2>1, <2>2 DEF LifeInv, Alive, Setting, JoinNeedsStop
<1>9. ASSUME Destroy PROVE LifeInv'
  BY <1>9 DEF Destroy, LifeInv, Alive, Setting, JoinNeedsStop
<1> QED BY <1>1, <1>2, <1>3, <1>4, <1>5, <1>6, <1>7, <1>8, <1>9, StepKinds DEF LifeStep

THEOREM LifeCorrect == Spec => []LifeInv
BY LifeInit, LifeNext, PTL DEF Spec

\* The service is deleted only when no thread runs its context any more, also
\* when the thread could not be started.
THEOREM NeverDeletedUnderRun == Spec => []NotDeletedUnderRun
<1>1. LifeInv => NotDeletedUnderRun
  BY DEF LifeInv, NotDeletedUnderRun
<1> QED BY <1>1, LifeCorrect, PTL

\* Whoever waits for the IO thread has stopped its context, unless stop came
\* before run had registered its work.
THEOREM JoinAfterStop == Spec => []JoinNeedsStop
<1>1. LifeInv => JoinNeedsStop
  BY DEF LifeInv
<1> QED BY <1>1, LifeCorrect, PTL

------------------------------------------------------------------------------
(* One frame for all protocols                                             *)

TurnInv ==
    /\ main \in Setting => mutex = "main"
    /\ tick \in {"swap", "send"} => mutex = "scheduler"
    /\ tick # "send" => offered = {}
    /\ OneFrameForAll

LEMMA TurnInit == Init => TurnInv
BY DEF Init, TurnInv, Setting, OneFrameForAll

\* A step on the main thread's turn that may change the layout.
LEMMA MainTurn ==
    ASSUME TurnInv, main \in Setting, UNCHANGED <<tick, offered>>,
           main' \in Setting => mutex' = "main"
    PROVE  TurnInv'
<1>1. tick \notin {"swap", "send"} /\ offered = {}
  BY DEF TurnInv
<1> QED BY <1>1 DEF TurnInv, OneFrameForAll

\* A step that changes neither the turn nor the published frame.
LEMMA NoTurn ==
    ASSUME TurnInv, UNCHANGED <<mutex, tick, offered, outLive>>,
           main' \in Setting => main \in Setting
    PROVE  TurnInv'
BY DEF TurnInv, OneFrameForAll

LEMMA TurnNext ==
    ASSUME TurnInv, [Next]_vars
    PROVE  TurnInv'
<1>1. ASSUME UNCHANGED vars PROVE TurnInv'
  BY <1>1, NoTurn DEF vars, life, ticking, output
<1>2. ASSUME MainStep PROVE TurnInv'
  <2>1. ASSUME StartThread \/ StartFails \/ CreateClock \/ Stop \/ Join \/ Delete \/ Destroy
        PROVE  TurnInv'
    <3>1. UNCHANGED <<mutex, tick, offered, outLive>> /\ main' \notin Setting
      BY <2>1 DEF StartThread, StartFails, CreateClock, Stop, Join, Delete, Destroy, Release,
                  ticking, output, Setting
    <3> QED BY <3>1, NoTurn
  <2>2. ASSUME SetRefused \/ SetProtocols PROVE TurnInv'
    <3>1. main \in Setting /\ main' \notin Setting /\ UNCHANGED <<tick, offered>>
      BY <2>2 DEF SetRefused, SetProtocols, ticking, Setting
    <3> QED BY <3>1, MainTurn
  <2>3. ASSUME SetKeys \/ SetLookUp \/ SetResizeInput \/ SetInputResized
               \/ SetResizeOutput \/ SetOutputResized
        PROVE  TurnInv'
    <3>1. main \in Setting /\ UNCHANGED <<mutex, tick, offered>>
      <4>1. ASSUME SetKeys PROVE main \in Setting /\ UNCHANGED <<mutex, tick, offered>>
        BY <4>1 DEF SetKeys, ticking, Setting
      <4>2. ASSUME SetLookUp PROVE main \in Setting /\ UNCHANGED <<mutex, tick, offered>>
        BY <4>2 DEF SetLookUp, ticking, Setting
      <4>3. ASSUME SetResizeInput \/ SetInputResized
            PROVE  main \in Setting /\ UNCHANGED <<mutex, tick, offered>>
        BY <4>3 DEF SetResizeInput, SetInputResized, ticking, Setting
      <4>4. ASSUME SetResizeOutput \/ SetOutputResized
            PROVE  main \in Setting /\ UNCHANGED <<mutex, tick, offered>>
        BY <4>4 DEF SetResizeOutput, SetOutputResized, ticking, Setting
      <4> QED BY <2>3, <4>1, <4>2, <4>3, <4>4
    <3>2. mutex = "main"
      BY <3>1 DEF TurnInv
    <3> QED BY <3>1, <3>2, MainTurn
  <2> QED BY <1>2, <2>1, <2>2, <2>3 DEF MainStep
<1>3. ASSUME IoStep \/ Quit \/ EditTable \/ SetClock PROVE TurnInv'
  <2>1. UNCHANGED <<mutex, tick, offered, outLive>> /\ (main' = main \/ main' \notin Setting)
    BY <1>3 DEF IoStep, RunRegister, RunReturn, Quit, EditTable, SetClock, life, ticking,
                output, Setting
  <2> QED BY <2>1, NoTurn
<1>4. ASSUME SetLock PROVE TurnInv'
  <2>1. /\ mutex = "nobody" /\ mutex' = "main"
        /\ UNCHANGED <<tick, offered, outLive>>
    BY <1>4 DEF SetLock, Free, ticking, output
  <2> QED BY <2>1 DEF TurnInv, OneFrameForAll
<1>5. ASSUME Tick PROVE TurnInv'
  <2>1. /\ tick = "idle" /\ tick' \in {"idle", "lock"} /\ UNCHANGED <<main, mutex, offered, outLive>>
    BY <1>5 DEF Tick, life, output
  <2> QED BY <2>1 DEF TurnInv, OneFrameForAll
<1>6. ASSUME TickLock PROVE TurnInv'
  <2>1. /\ mutex = "nobody" /\ mutex' = "scheduler" /\ tick = "lock" /\ tick' = "swap"
        /\ UNCHANGED <<main, offered, outLive>>
    BY <1>6 DEF TickLock, Free, life, output
  <2> QED BY <2>1 DEF TurnInv, OneFrameForAll
<1>7. ASSUME TickSwap PROVE TurnInv'
  <2>1. /\ tick = "swap" /\ tick' = "send" /\ offered' = {} /\ UNCHANGED <<main, mutex>>
    BY <1>7 DEF TickSwap, life
  <2> QED BY <2>1 DEF TurnInv, OneFrameForAll
<1>8. ASSUME TickSend PROVE TurnInv'
  <2>1. PICK p : offered' = offered \cup {[protocol |-> p, frame |-> outLive]}
    BY <1>8 DEF TickSend
  <2>2. tick = "send" /\ UNCHANGED <<main, mutex, tick, outLive>>
    BY <1>8 DEF TickSend, life, output
  <2> QED BY <2>1, <2>2 DEF TurnInv, OneFrameForAll
<1>9. ASSUME TickReturn PROVE TurnInv'
  <2>1. /\ tick = "send" /\ tick' = "idle" /\ offered' = {} /\ main' = main
    BY <1>9 DEF TickReturn, life
  <2>2. main \notin Setting
    BY <2>1 DEF TurnInv
  <2> QED BY <2>1, <2>2 DEF TurnInv, OneFrameForAll
<1>10. ASSUME CallStep \/ Write \/ Read \/ Crash \/ UseDeleted PROVE TurnInv'
  <2>1. UNCHANGED <<main, mutex, tick, offered>>
    BY <1>10 DEF CallStep, WriteGoesOn, ReadGoesOn, Write, Read, Crash, UseDeleted, life, ticking
  <2>2. outLive' = outLive
    BY <1>10 DEF CallStep, WriteGoesOn, ReadGoesOn, Write, Read, Crash, UseDeleted, output,
                 Out!Start, Out!WriteEffect, Out!StrayWrite, Out!Return, Out!Crash
  <2> QED BY <2>1, <2>2, NoTurn
<1> QED BY <1>1, <1>2, <1>3, <1>4, <1>5, <1>6, <1>7, <1>8, <1>9, <1>10
        DEF Next, TickStep, Ended

\* All protocols send one and the same frame, the published one, whatever
\* else writes, reconfigures or edits meanwhile.
THEOREM AllSendOneFrame == Spec => []OneFrameForAll
<1>1. TurnInv => OneFrameForAll
  BY DEF TurnInv
<1> QED BY <1>1, TurnInit, TurnNext, PTL DEF Spec

------------------------------------------------------------------------------
(* The layout                                                              *)

\* The addresses of the network universes of one direction among entries.
AddressesIn(S, type) ==
    {e[2].internal : e \in {f \in S : f[2].type = type /\ f[2].protocol \in IpProtocols}}

Layout ==
    /\ AddressesIn(always, "output") \subseteq outActive
    /\ outActive \subseteq AddressesIn(ever, "output")
    /\ AddressesIn(always, "input") \subseteq inActive
    /\ inActive \subseteq AddressesIn(ever, "input")

\* The places of set_universes past its list of keys.
Collecting == Setting \ {"keys"}

\* What was collected was in the table some time during the call, and what was
\* there all the time is collected or is still to be looked up.
Collected ==
    /\ \A n \in DOMAIN configs :
          <<n, configs[n]>> \in ever /\ configs[n].protocol \in IpProtocols
    /\ \A e \in always :
          \/ e[1] \in keys
          \/ e[2].protocol \notin IpProtocols
          \/ e[1] \in DOMAIN configs /\ configs[e[1]] = e[2]
    /\ always \subseteq Entries(table)
    /\ Entries(table) \subseteq ever

\* The universes that set_universes hands to the buffers are those that it has
\* collected, and they stay until the next call.
LayoutInv ==
    /\ main \in {"new", "starting", "up", "keys"} => Layout
    /\ main \in Collecting => Collected
    /\ main \in Collecting \ {"lookup"} => keys = {}
    /\ main \in {"startout", "resizeout", "protocols"} => inActive = AddressesOf("input")
    /\ main = "protocols" => outActive = AddressesOf("output")

LEMMA LayoutInit == Init => LayoutInv
<1> SUFFICES ASSUME Init PROVE LayoutInv
  OBVIOUS
<1>1. main = "new" /\ always = {} /\ outActive = {} /\ inActive = {}
  BY DEF Init, Out!Init, In!Init
<1>2. Layout
  BY <1>1 DEF Layout, AddressesIn
<1> QED BY <1>1, <1>2 DEF LayoutInv, Collecting, Setting

\* A step that neither sets universes nor edits the table.
LEMMA LayoutKept ==
    ASSUME LayoutInv, UNCHANGED <<table, keys, configs, ever, always, outActive, inActive>>,
           \/ main' = main
           \/ main' = "starting" /\ main = "new"
           \/ main' = "up" /\ main \in {"starting", "keys"}
           \/ main' = "keys" /\ main = "up"
           \/ main' \notin {"new", "starting", "up"} \cup Setting
    PROVE  LayoutInv'
<1>1. Layout' = Layout
  BY Zenon DEF Layout, AddressesIn
<1>2. Collected' = Collected
  BY Zenon DEF Collected, Entries
<1>3. AddressesOf("input")' = AddressesOf("input") /\ AddressesOf("output")' = AddressesOf("output")
  BY Zenon DEF AddressesOf
<1> QED BY <1>1, <1>2, <1>3 DEF LayoutInv, Collecting, Setting

\* The table is edited while set_universes goes on.
LEMMA EditKeepsLayout == ASSUME LayoutInv, EditTable PROVE LayoutInv'
<1>1. /\ UNCHANGED <<main, keys, configs, outActive, inActive>>
      /\ IF main \in Collecting
         THEN ever' = ever \cup Entries(table') /\ always' = always \cap Entries(table')
         ELSE UNCHANGED <<ever, always>>
  BY Zenon DEF EditTable, life, output, input, Collecting
<1>2. main \in {"new", "starting", "up", "keys"} => Layout'
  <2> SUFFICES ASSUME main \in {"new", "starting", "up", "keys"} PROVE Layout'
    OBVIOUS
  <2>1. UNCHANGED <<ever, always>>
    BY <1>1 DEF Collecting, Setting
  <2> QED BY <1>1, <2>1 DEF LayoutInv, Layout, AddressesIn
<1>3. main \in Collecting => Collected'
  <2> SUFFICES ASSUME main \in Collecting PROVE Collected'
    OBVIOUS
  <2>1. ever' = ever \cup Entries(table') /\ always' = always \cap Entries(table')
    BY <1>1
  <2>2. Collected
    BY DEF LayoutInv
  <2>3. Entries(table)' = Entries(table')
    BY DEF Entries
  <2> QED BY <1>1, <2>1, <2>2, <2>3 DEF Collected
<1>4. AddressesOf("input")' = AddressesOf("input") /\ AddressesOf("output")' = AddressesOf("output")
  BY <1>1, Zenon DEF AddressesOf
<1> QED BY <1>1, <1>2, <1>3, <1>4 DEF LayoutInv

LEMMA KeysKeepLayout == ASSUME LayoutInv, SetKeys PROVE LayoutInv'
<1>1. /\ main' = "lookup" /\ keys' = DOMAIN table /\ configs' = NoConfigs
      /\ ever' = Entries(table) /\ always' = Entries(table) /\ table' = table
  BY DEF SetKeys
<1>2. Collected'
  <2>1. \A n \in DOMAIN configs' : FALSE
    BY <1>1 DEF NoConfigs
  <2>2. \A e \in Entries(table) : e[1] \in DOMAIN table
    BY DEF Entries
  <2>3. Entries(table)' = Entries(table)
    BY <1>1, Zenon DEF Entries
  <2> QED BY <1>1, <2>1, <2>2, <2>3 DEF Collected
<1> QED BY <1>1, <1>2 DEF LayoutInv, Collecting, Setting

LEMMA LookUpKeepsLayout == ASSUME LayoutInv, SetLookUp PROVE LayoutInv'
<1>1. PICK n \in keys : Collect(n) /\ keys' = keys \ {n}
  BY DEF SetLookUp
<1>2. /\ main = "lookup" /\ main' = "lookup"
      /\ UNCHANGED <<table, ever, always>>
  BY DEF SetLookUp, life
<1>3. Collected
  BY <1>2 DEF LayoutInv, Collecting, Setting
<1>4. Entries(table)' = Entries(table)
  BY <1>2, Zenon DEF Entries
<1>5. ASSUME n \in DOMAIN table, table[n].protocol \in IpProtocols PROVE Collected'
  <2>1. configs' = [m \in DOMAIN configs \cup {n} |-> IF m = n THEN table[n] ELSE configs[m]]
    BY <1>1, <1>5 DEF Collect
  <2>2. <<n, table[n]>> \in ever
    BY <1>3, <1>5 DEF Collected, Entries
  <2>3. ASSUME NEW m \in DOMAIN configs'
        PROVE  <<m, configs'[m]>> \in ever /\ configs'[m].protocol \in IpProtocols
    BY <1>3, <1>5, <2>1, <2>2 DEF Collected
  <2>4. ASSUME NEW e \in always
        PROVE  \/ e[1] \in keys'
               \/ e[2].protocol \notin IpProtocols
               \/ e[1] \in DOMAIN configs' /\ configs'[e[1]] = e[2]
    <3>1. PICK m \in DOMAIN table : e = <<m, table[m]>>
      BY <1>3 DEF Collected, Entries
    <3>2. CASE m = n
      BY <1>5, <2>1, <3>1, <3>2
    <3>3. CASE m # n
      BY <1>1, <1>3, <2>1, <3>1, <3>3 DEF Collected
    <3> QED BY <3>2, <3>3
  <2> QED BY <1>2, <1>3, <1>4, <2>3, <2>4 DEF Collected
<1>6. ASSUME ~(n \in DOMAIN table /\ table[n].protocol \in IpProtocols) PROVE Collected'
  <2>1. configs' = configs
    BY <1>1, <1>6 DEF Collect
  <2>2. ASSUME NEW e \in always
        PROVE  \/ e[1] \in keys'
               \/ e[2].protocol \notin IpProtocols
               \/ e[1] \in DOMAIN configs /\ configs[e[1]] = e[2]
    <3>1. PICK m \in DOMAIN table : e = <<m, table[m]>>
      BY <1>3 DEF Collected, Entries
    <3>2. m = n => e[2].protocol \notin IpProtocols
      BY <1>6, <3>1
    <3>3. m # n => (e[1] \in keys => e[1] \in keys')
      BY <1>1, <3>1
    <3> QED BY <1>3, <3>1, <3>2, <3>3 DEF Collected
  <2> QED BY <1>2, <1>3, <1>4, <2>1, <2>2 DEF Collected
<1>7. Collected'
  BY <1>5, <1>6
<1> QED BY <1>2, <1>7 DEF LayoutInv, Collecting, Setting

\* One of the two resizes begins or ends.
LEMMA ResizesKeepLayout ==
    ASSUME LayoutInv, SetResizeInput \/ SetInputResized \/ SetResizeOutput \/ SetOutputResized
    PROVE  LayoutInv'
<1>1. UNCHANGED <<table, keys, configs, ever, always>>
  BY DEF SetResizeInput, SetInputResized, SetResizeOutput, SetOutputResized, setting
<1>2. Collected' = Collected
  BY <1>1, Zenon DEF Collected, Entries
<1>3. AddressesOf("input")' = AddressesOf("input") /\ AddressesOf("output")' = AddressesOf("output")
  BY <1>1, Zenon DEF AddressesOf
<1>4. CASE SetResizeInput
  <2>1. main = "lookup" /\ keys = {} /\ main' = "resizein"
    BY <1>4 DEF SetResizeInput
  <2> QED BY <1>1, <1>2, <2>1 DEF LayoutInv, Collecting, Setting
<1>5. CASE SetInputResized
  <2>1. main = "resizein" /\ main' = "startout" /\ inActive' = AddressesOf("input")
    BY <1>5 DEF SetInputResized
  <2> QED BY <1>1, <1>2, <1>3, <2>1 DEF LayoutInv, Collecting, Setting
<1>6. CASE SetResizeOutput
  <2>1. main = "startout" /\ main' = "resizeout" /\ inActive' = inActive
    BY <1>6 DEF SetResizeOutput, input
  <2> QED BY <1>1, <1>2, <1>3, <2>1 DEF LayoutInv, Collecting, Setting
<1>7. CASE SetOutputResized
  <2>1. main = "resizeout" /\ main' = "protocols" /\ inActive' = inActive
        /\ outActive' = AddressesOf("output")
    BY <1>7 DEF SetOutputResized, input
  <2> QED BY <1>1, <1>2, <1>3, <2>1 DEF LayoutInv, Collecting, Setting
<1> QED BY <1>4, <1>5, <1>6, <1>7

\* With everything looked up, what was collected is a layout that was
\* configured.
LEMMA CollectedIsLayout ==
    ASSUME Collected, keys = {}, NEW type
    PROVE  /\ AddressesIn(always, type) \subseteq AddressesOf(type)
           /\ AddressesOf(type) \subseteq AddressesIn(ever, type)
<1>1. ASSUME NEW a \in AddressesIn(always, type) PROVE a \in AddressesOf(type)
  <2>1. PICK e \in always : e[2].type = type /\ e[2].protocol \in IpProtocols /\ a = e[2].internal
    BY <1>1 DEF AddressesIn
  <2>2. e[1] \in DOMAIN configs /\ configs[e[1]] = e[2]
    BY <2>1 DEF Collected
  <2> QED BY <2>1, <2>2 DEF AddressesOf
<1>2. ASSUME NEW a \in AddressesOf(type) PROVE a \in AddressesIn(ever, type)
  <2>1. PICK n \in DOMAIN configs : configs[n].type = type /\ a = configs[n].internal
    BY <1>2 DEF AddressesOf
  <2>2. <<n, configs[n]>> \in ever /\ configs[n].protocol \in IpProtocols
    BY DEF Collected
  <2> QED BY <2>1, <2>2 DEF AddressesIn
<1> QED BY <1>1, <1>2

LEMMA ProtocolsKeepLayout == ASSUME LayoutInv, SetProtocols PROVE LayoutInv'
<1>1. /\ main = "protocols" /\ main' = "up"
      /\ UNCHANGED <<ever, always, outActive, inActive>>
  BY DEF SetProtocols, output, input
<1>2. /\ Collected /\ keys = {} /\ inActive = AddressesOf("input")
      /\ outActive = AddressesOf("output")
  BY <1>1 DEF LayoutInv, Collecting, Setting
<1>3. Layout
  BY <1>2, CollectedIsLayout DEF Layout
<1>4. Layout'
  BY <1>1, <1>3 DEF Layout, AddressesIn
<1> QED BY <1>1, <1>4 DEF LayoutInv, Collecting, Setting

LEMMA LayoutNext ==
    ASSUME LayoutInv, [Next]_vars
    PROVE  LayoutInv'
<1>1. ASSUME UNCHANGED vars PROVE LayoutInv'
  BY <1>1, LayoutKept DEF vars, life, setting, output, input
<1>2. ASSUME StartThread \/ StartFails \/ CreateClock \/ Stop \/ Join \/ Delete \/ Destroy
             \/ SetRefused \/ Quit \/ SetLock
      PROVE  LayoutInv'
  <2>1. UNCHANGED <<table, keys, configs, ever, always, outActive, inActive>>
    BY <1>2 DEF StartThread, StartFails, CreateClock, Stop, Join, Delete, Destroy, SetRefused, Quit,
                SetLock, setting, output, input
  <2>2. \/ main' = "starting" /\ main = "new"
        \/ main' = "up" /\ main \in {"starting", "keys"}
        \/ main' = "keys" /\ main = "up"
        \/ main' \in {"delete", "stop", "join", "destroy", "gone"}
    BY <1>2 DEF StartThread, StartFails, CreateClock, Stop, Join, Delete, Destroy, SetRefused, Quit,
                SetLock, Release
  <2> QED BY <2>1, <2>2, LayoutKept DEF Setting
<1>3. ASSUME IoStep \/ TickStep \/ SetClock \/ Tick PROVE LayoutInv'
  <2>1. UNCHANGED <<main, table, setting>>
    BY <1>3 DEF IoStep, RunRegister, RunReturn, TickStep, TickLock, TickSwap, TickSend,
                TickReturn, SetClock, Tick, life, setting
  <2>2. UNCHANGED <<outActive, inActive>>
    BY <1>3 DEF IoStep, RunRegister, RunReturn, TickStep, TickLock, TickSwap, TickSend,
                TickReturn, SetClock, Tick, Out!Publish, output, input
  <2> QED BY <2>1, <2>2, LayoutKept DEF setting
<1>4. ASSUME CallStep \/ Write \/ Read \/ Crash \/ UseDeleted PROVE LayoutInv'
  <2>1. UNCHANGED <<main, table, setting>>
    BY <1>4 DEF CallStep, WriteGoesOn, ReadGoesOn, Write, Read, Crash, UseDeleted, life, setting
  <2>2. outActive' = outActive
    BY <1>4 DEF CallStep, WriteGoesOn, ReadGoesOn, Write, Read, Crash, UseDeleted, output,
                Out!Start, Out!WriteEffect, Out!StrayWrite, Out!Return, Out!Crash
  <2>3. inActive' = inActive
    BY <1>4 DEF CallStep, WriteGoesOn, ReadGoesOn, Write, Read, Crash, UseDeleted, input,
                In!Start, In!ReadEffect, In!StrayRead, In!Return, In!Crash
  <2> QED BY <2>1, <2>2, <2>3, LayoutKept DEF setting
<1> QED
  BY <1>1, <1>2, <1>3, <1>4, EditKeepsLayout, KeysKeepLayout, LookUpKeepsLayout,
     ResizesKeepLayout, ProtocolsKeepLayout DEF Next, MainStep, Ended

\* However the table is edited while set_universes looks its keys up, the
\* buffers end up with universes that were in it during the call, and with all
\* that were in it from the list of the keys to the end.
THEOREM LayoutIsConfigured == Spec => []LayoutWasConfigured
<1>1. LayoutInv => LayoutWasConfigured
  BY DEF LayoutInv, LayoutWasConfigured, Layout, AddressesIn
<1> QED BY <1>1, LayoutInit, LayoutNext, PTL DEF Spec

------------------------------------------------------------------------------
(* Crashes                                                                 *)

\* A set_universes that no edit disturbs finds every universe it has collected,
\* with the protocol it had.
LEMMA UndisturbedSets ==
    ASSUME LayoutInv, ~dead, SetProtocols, ever = always
    PROVE  ~dead'
<1>1. main = "protocols"
  BY DEF SetProtocols
<1>2. Collected
  BY <1>1 DEF LayoutInv, Collecting, Setting
<1>3. ASSUME NEW n \in DOMAIN configs
      PROVE  n \in DOMAIN table /\ table[n].protocol \in IpProtocols
  <2>1. <<n, configs[n]>> \in ever /\ configs[n].protocol \in IpProtocols
    BY <1>2 DEF Collected
  <2>2. <<n, configs[n]>> \in Entries(table)
    BY <1>2, <2>1 DEF Collected
  <2> QED BY <2>1, <2>2 DEF Entries
<1>4. PICK read \in [DOMAIN configs -> {c.protocol : c \in Configs}] :
         /\ \A n \in DOMAIN configs \cap DOMAIN table : read[n] = table[n].protocol
         /\ \/ dead' = \E n \in DOMAIN configs : read[n] \notin IpProtocols
            \/ ~(DOMAIN configs \subseteq DOMAIN table) /\ dead' = TRUE
  BY Zenon DEF SetProtocols
<1>5. \A n \in DOMAIN configs : read[n] \in IpProtocols
  BY <1>3, <1>4
<1>6. DOMAIN configs \subseteq DOMAIN table
  BY <1>3
<1> QED BY <1>4, <1>5, <1>6

\* The causes of a crash, named as in the property.
Overlapped(op) == op # Out!NoOp /\ op.overlapped

Cause ==
    \/ ever # always
    \/ outReconf \/ Overlapped(outOp["patcher"])
    \/ inReconf \/ Overlapped(inOp["patcher"])
    \/ main = "gone" /\ (clock = "set" \/ tick # "idle" \/ Calling)

LEMMA CausesAgree == ServiceCrashNeedsCause <=> (dead => Cause)
BY DEF ServiceCrashNeedsCause, Cause, Overlapped

\* A crash leaves its cause to be seen.
LEMMA CrashShowsCause ==
    ASSUME LayoutInv, dead => Cause, [Next]_vars
    PROVE  dead' => Cause'
<1>1. ASSUME UNCHANGED vars PROVE dead' => Cause'
  BY <1>1 DEF vars, life, ticking, setting, output, input, Cause, Overlapped, Calling
<1>2. ASSUME ~dead, dead', SetProtocols PROVE Cause'
  <2>1. ever # always
    BY <1>2, UndisturbedSets
  <2>2. UNCHANGED <<ever, always>>
    BY <1>2 DEF SetProtocols
  <2> QED BY <2>1, <2>2 DEF Cause
<1>3. ASSUME ~dead, dead', Tick PROVE Cause'
  <2>1. main = "gone" /\ clock = "set" /\ UNCHANGED <<main, clock>>
    BY <1>3 DEF Tick, life
  <2> QED BY <2>1 DEF Cause
<1>4. ASSUME UseDeleted PROVE Cause'
  <2>1. main = "gone" /\ (tick # "idle" \/ Calling) /\ UNCHANGED <<main, tick, outOp, inOp>>
    BY <1>4 DEF UseDeleted, life, ticking, output, input
  <2> QED BY <2>1 DEF Cause, Calling
<1>5. ASSUME Crash PROVE Cause'
  <2>1. CASE Out!Crash
    <3>1. outReconf \/ Overlapped(outOp["patcher"])
      BY <2>1 DEF Out!Crash, Overlapped
    <3>2. UNCHANGED <<outReconf, outOp>>
      BY <1>5 DEF Crash, output
    <3> QED BY <3>1, <3>2 DEF Cause
  <2>2. CASE In!Crash
    <3>1. inReconf \/ Overlapped(inOp["patcher"])
      BY <2>2 DEF In!Crash, In!NoOp, Out!NoOp, Overlapped
    <3>2. UNCHANGED <<inReconf, inOp>>
      BY <1>5 DEF Crash, input
    <3> QED BY <3>1, <3>2 DEF Cause
  <2> QED BY <1>5, <2>1, <2>2 DEF Crash
<1>6. ASSUME \/ StartThread \/ StartFails \/ CreateClock \/ Stop \/ Join \/ Delete \/ Destroy
             \/ SetRefused \/ SetKeys \/ SetLookUp \/ IoStep \/ TickLock \/ TickSend \/ TickReturn
             \/ Quit \/ EditTable \/ SetLock \/ SetClock
      PROVE  dead' = dead
  BY <1>6 DEF StartThread, StartFails, CreateClock, Stop, Join, Delete, Destroy, SetRefused, SetKeys,
              SetLookUp, IoStep, RunRegister, RunReturn, TickLock, TickSend, TickReturn, Quit,
              EditTable, SetLock, SetClock
<1>7. ASSUME SetResizeInput \/ SetInputResized \/ SetResizeOutput \/ SetOutputResized \/ TickSwap
      PROVE  dead' = dead
  BY <1>7 DEF SetResizeInput, SetInputResized, SetResizeOutput, SetOutputResized, TickSwap,
              In!BeginReconfigure, In!EndReconfigure, Out!BeginReconfigure, Out!EndReconfigure,
              Out!Publish
<1>8. ASSUME CallStep \/ Write \/ Read PROVE dead' = dead
  BY <1>8 DEF CallStep, WriteGoesOn, ReadGoesOn, Write, Read, Out!Start, Out!WriteEffect,
              Out!StrayWrite, Out!Return, In!Start, In!ReadEffect, In!StrayRead, In!Return
<1>9. ASSUME ~dead, dead',
             MainStep \/ IoStep \/ TickStep \/ CallStep \/ Crash \/ UseDeleted
             \/ Quit \/ EditTable \/ SetLock \/ SetClock \/ Tick \/ Write \/ Read
      PROVE  Cause'
  BY <1>2, <1>3, <1>4, <1>5, <1>6, <1>7, <1>8, <1>9 DEF MainStep, TickStep
<1> QED BY <1>1, <1>9 DEF Next, Ended

\* The process crashes only if an edit disturbed set_universes, a resize or a
\* call it overlapped went astray, or the deleted service was met.
THEOREM ServiceCrashesWithCause == Spec => []ServiceCrashNeedsCause
<1>1. Init => (dead => Cause)
  BY DEF Init, Out!Init
<1>2. (dead => Cause) => ServiceCrashNeedsCause
  BY CausesAgree
<1> QED BY <1>1, <1>2, LayoutInit, LayoutNext, CrashShowsCause, PTL DEF Spec
==================================================================================
