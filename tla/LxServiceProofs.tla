----------------------------- MODULE LxServiceProofs -----------------------------
(***************************************************************************)
(* Proofs about LxService, for any names, values and bounds.               *)
(*                                                                         *)
(* TypeInv, RestInv, NewInv, AttachInv and SaveInv hold with Overdrive and *)
(* without it: what a task is about to store is its own, a universe nobody *)
(* listens to is in some task's hands, and what is not saved is going to   *)
(* be.  HoldInv and RowsInv are about a program whose messages all arrive  *)
(* on the main thread, where a task is never disturbed by another.         *)
(*                                                                         *)
(* Each step moves one thread's task; Moves says where to, and the lemmas  *)
(* about it spare every later proof the records.                           *)
(***************************************************************************)
EXTENDS LxService, TLAPS

------------------------------------------------------------------------------
(* The inductive invariant                                                 *)

MessageOps == {"none", "add", "clear", "patch", "set"}
Ops == MessageOps \cup {"uiadd", "uiremove", "uiset"}

StepLabels == {"idle", "create", "store", "attach", "clear", "cleartable",
               "notify", "notifyui", "refresh", "getkeys", "addrows", "modified"}
SaveLabels == {"savekeys", "savenext", "savebare", "saveread", "unset"}
Labels == StepLabels \cup SaveLabels \cup
          {"findbase", "clone", "addrow", "findselected", "removerow", "detach",
           "delete", "unquiet", "setvalue"}

TaskRecord == [op : Ops, at : Labels, item : Names \cup {NoName},
               keys : SUBSET Names, count : Int]

Preferences == [global : Values, universes : UNION {[S -> Values] : S \in SUBSET Names}]

\* Every variable holds a value of its kind; the scheduler thread only has
\* messages to serve.
TypeInv ==
    /\ running \in BOOLEAN /\ queued \in BOOLEAN /\ dropped \in BOOLEAN
    /\ unwritten \in BOOLEAN /\ quiet \in BOOLEAN /\ unlisted \in BOOLEAN /\ strayed \in BOOLEAN
    /\ universes \subseteq Names /\ freed \subseteq Names
    /\ value \in [Names -> Values] /\ global \in Values
    /\ file \in Preferences \cup {NoFile}
    /\ task \in [Threads -> TaskRecord]
    /\ \A t \in Threads \ {"main"} : task[t].op \in MessageOps /\ task[t].at \in StepLabels
    /\ task["main"].at \in SaveLabels \ {"unset"} => draft \in Preferences
    /\ task["main"].at = "saveread" => task["main"].item \in Names
    /\ selected \in Names \cup {NoName}
    /\ rows \subseteq Names \cup {NoName}

\* Nothing is left of a session that ended.
RestInv ==
    ~running =>
        /\ universes = {} /\ freed = {}
        /\ ~queued /\ ~quiet
        /\ \A t \in Threads : task[t] = Idle

\* A universe that is about to be stored is new to the table and belongs to
\* one thread only; what was freed or refused never returns.
NewInv ==
    /\ universes \cap (freed \cup leaked) = {}
    /\ \A t \in Threads : task[t].at = "store" =>
          /\ task[t].item \in Names
          /\ task[t].item \notin universes \cup freed \cup leaked
          /\ \A s \in Threads \ {t} : task[s].at = "store" => task[s].item # task[t].item

\* A universe the service does not listen to is being attached or removed.
InHand(n) ==
    \E t \in Threads :
        \/ task[t].at \in {"attach", "delete"} /\ task[t].item = n
        \/ task[t].at = "cleartable"

AttachInv == \A n \in universes : n \in attached \/ InHand(n)

\* A task that has changed the table or the service, or is about to, and will
\* tell the service so.  A quick patch tells whatever becomes of its universes;
\* one that is added alone is told of only when it is stored.
Telling == {"attach", "clear", "cleartable", "notify", "modified"}

Tells(t) ==
    \/ task[t].at \in Telling
    \/ task[t].at \in {"create", "store"} /\ task[t].op = "patch"

Changing == \E t \in Threads : Tells(t)

Saved == file = Snapshot \/ unwritten

Part(S) == [global |-> global, universes |-> Restrict(value, S)]

\* The save under way will write the table as it is now, or nothing of it.
SaveOnCourse ==
    LET m == task["main"]
    IN CASE m.at \in {"savekeys", "savebare"} -> draft = Part({})
         [] m.at = "savenext" -> m.keys \subseteq universes /\ draft = Part(universes \ m.keys)
         [] m.at = "saveread" -> /\ m.keys \cup {m.item} \subseteq universes /\ m.item \notin m.keys
                                 /\ draft = Part(universes \ (m.keys \cup {m.item}))
         [] m.at = "unset" -> Saved
         [] OTHER -> FALSE

Saving == task["main"].at \in SaveLabels

SaveInv ==
    /\ running => \/ queued \/ Changing
                  \/ IF Saving THEN SaveOnCourse ELSE Saved \/ (Overdrive /\ dropped)
    /\ ~Overdrive /\ Saving => ~queued

\* The labels at which a task is about to use the universe it holds.
Held == {"clone", "removerow", "detach", "delete", "setvalue", "saveread"}

\* Without Overdrive: what a task holds is in the table.
HoldInv ==
    ~Overdrive =>
        /\ ~strayed
        /\ task["main"].at \in Held \ {"clone"} => task["main"].item \in universes
        /\ task["main"].at = "clone" => task["main"].item \in universes \cup {NoName}

\* The rows are S, and universes that Max refused, if they could be listed.
Shows(S) == unlisted \/ rows \ leaked = S

\* Without Overdrive: the user interface ignores notifications while it adds or
\* removes a universe itself; this is how far its rows are from the table at
\* each step of that, and of a refresh.
RowsInv ==
    ~Overdrive =>
        LET m == task["main"]
        IN /\ quiet <=> m.op \in {"uiadd", "uiremove"}
           /\ m.op = "uiadd" =>
                 /\ m.at \in {"findbase", "clone", "store", "attach", "notify", "notifyui", "addrow"}
                 /\ m.at \in {"attach", "notify", "notifyui", "addrow"}
                       => unlisted \/ (rows \cup {m.item}) \ leaked = universes
           /\ m.op = "uiremove" =>
                 /\ m.at \in {"findselected", "removerow", "detach", "delete", "unquiet",
                              "notify", "notifyui"}
                 /\ m.at \in {"notify", "notifyui"} => Shows(universes)
           /\ m.at = "addrow" => m.op = "uiadd"
           /\ m.at \in {"idle", "findbase", "clone", "findselected", "removerow", "unquiet",
                        "setvalue", "modified"} \cup SaveLabels
                 => Shows(universes)
           /\ m.at \in {"create", "store"} => Shows(universes) \/ m.op = "patch"
           /\ m.at \in {"detach", "delete"} => Shows(universes \ {m.item})
           /\ m.at = "getkeys" => rows = {}
           /\ m.at = "addrows" => rows = {} /\ m.keys = universes

IInv ==
    /\ TypeInv /\ RestInv /\ NewInv /\ AttachInv /\ SaveInv /\ HoldInv /\ RowsInv

------------------------------------------------------------------------------
(* What a step does to the tasks                                           *)

\* Thread t's task becomes the one described, the others go on as they were.
Moves(t, op, at, item, keys, count) ==
    /\ task' \in [Threads -> TaskRecord]
    /\ task'[t].op = op /\ task'[t].at = at /\ task'[t].item = item
    /\ task'[t].keys = keys /\ task'[t].count = count
    /\ \A s \in Threads \ {t} : task'[s] = task[s]

LEMMA MainThread == "main" \in Threads /\ (~Overdrive => Threads = {"main"})
BY DEF Threads

LEMMA GotoMoves ==
    ASSUME TypeInv, NEW t \in Threads, NEW at \in Labels, Goto(t, at)
    PROVE  Moves(t, task[t].op, at, task[t].item, task[t].keys, task[t].count)
BY DEF TypeInv, Goto, Moves, TaskRecord

LEMMA GotoWithMoves ==
    ASSUME TypeInv, NEW t \in Threads, NEW at \in Labels, NEW item \in Names \cup {NoName},
           GotoWith(t, at, item)
    PROVE  Moves(t, task[t].op, at, item, task[t].keys, task[t].count)
BY DEF TypeInv, GotoWith, Moves, TaskRecord

LEMMA DoneMoves ==
    ASSUME TypeInv, NEW t \in Threads, Done(t)
    PROVE  Moves(t, "none", "idle", NoName, {}, 0)
BY DEF TypeInv, Done, Moves, TaskRecord, Idle, Ops, MessageOps, Labels, StepLabels

LEMMA BeginMoves ==
    ASSUME TypeInv, NEW t \in Threads, NEW op \in Ops, NEW at \in Labels,
           NEW item \in Names \cup {NoName}, NEW count \in Int, Begin(t, op, at, item, count)
    PROVE  /\ Moves(t, op, at, item, {}, count)
           /\ running /\ task[t].at = "idle" /\ running' = running
BY DEF TypeInv, Begin, At, Moves, TaskRecord

\* Only the tasks of the user interface add its row or reset its flag.
LEMMA GoOnMoves ==
    ASSUME TypeInv, NEW t \in Threads, GoOn(t)
    PROVE  \/ Moves(t, "none", "idle", NoName, {}, 0) /\ task[t].op \notin {"uiadd", "uiremove"}
           \/ \E at \in {"addrow", "unquiet", "create"} :
                 /\ Moves(t, task[t].op, at, task[t].item, {}, task[t].count)
                 /\ at = "addrow" <=> task[t].op = "uiadd"
                 /\ at = "unquiet" <=> task[t].op = "uiremove"
                 /\ at = "create" => task[t].op = "patch"
<1>1. CASE After(t) = "idle"
  <2>1. Done(t)
    BY <1>1 DEF GoOn, Done
  <2>2. task[t].op \notin {"uiadd", "uiremove"}
    BY <1>1 DEF After
  <2> QED BY <2>1, <2>2, DoneMoves
<1>2. CASE After(t) # "idle"
  <2>1. /\ After(t) \in {"addrow", "unquiet", "create"}
        /\ After(t) = "addrow" <=> task[t].op = "uiadd"
        /\ After(t) = "unquiet" <=> task[t].op = "uiremove"
        /\ After(t) = "create" => task[t].op = "patch"
    BY <1>2 DEF After
  <2>2. task' = [task EXCEPT ![t] = [@ EXCEPT !.at = After(t), !.keys = {}]]
    BY <1>2 DEF GoOn
  <2>3. After(t) \in Labels
    BY <2>1 DEF Labels, StepLabels
  <2>4. Moves(t, task[t].op, After(t), task[t].item, {}, task[t].count)
    BY <2>2, <2>3 DEF TypeInv, Moves, TaskRecord
  <2> QED BY <2>1, <2>4
<1> QED BY <1>1, <1>2

\* A task that has made a universe and is about to store it.
LEMMA TakesMoves ==
    ASSUME TypeInv, NEW t \in Threads, NEW item \in Names, NEW count \in Int,
           task' = [task EXCEPT ![t].at = "store", ![t].item = item, ![t].count = count]
    PROVE  Moves(t, task[t].op, "store", item, task[t].keys, count)
<1>1. task \in [Threads -> TaskRecord]
  BY DEF TypeInv
<1>2. "store" \in Labels
  BY DEF Labels, StepLabels
<1> QED BY <1>1, <1>2 DEF Moves, TaskRecord

\* A task that has copied the keys of the table.
LEMMA KeysMoves ==
    ASSUME TypeInv, NEW t \in Threads, NEW at \in Labels, NEW keys \in SUBSET Names,
           task' = [task EXCEPT ![t].at = at, ![t].keys = keys]
    PROVE  Moves(t, task[t].op, at, task[t].item, keys, task[t].count)
BY DEF TypeInv, Moves, TaskRecord

\* What each message and click does to the tasks.
LEMMA MessageMoves ==
    ASSUME TypeInv, NEW t \in Threads
    PROVE  /\ Message(t) =>
                /\ task[t].at = "idle" /\ running /\ running' = running
                /\ \E op \in MessageOps, at \in {"create", "clear", "modified"}, count \in Int :
                      /\ Moves(t, op, at, NoName, {}, count)
                      /\ at \in {"create", "clear"} => op # "none"
           /\ UiAdd => Moves("main", "uiadd", "findbase", NoName, {}, 1)
           /\ UiRemove => Moves("main", "uiremove", "findselected", NoName, {}, 0)
           /\ UiSetValue => \E row \in rows \cap universes :
                               Moves("main", "uiset", "setvalue", row, {}, 0)
<1> USE DEF Ops, MessageOps, Labels, StepLabels
<1>1. ASSUME ConfigAdd(t) PROVE Moves(t, "add", "create", NoName, {}, 1)
  BY <1>1, BeginMoves DEF ConfigAdd
<1>2. ASSUME ConfigClear(t) PROVE Moves(t, "clear", "clear", NoName, {}, 0)
  BY <1>2, BeginMoves DEF ConfigClear
<1>3. ASSUME ConfigPatch(t)
      PROVE  \E at \in {"create", "clear"}, count \in Int : Moves(t, "patch", at, NoName, {}, count)
  BY <1>3, BeginMoves, ServiceAssumption DEF ConfigPatch
<1>4. ASSUME ConfigAttrSet(t) PROVE Moves(t, "set", "modified", NoName, {}, 0)
  BY <1>4, BeginMoves DEF ConfigAttrSet
<1>5. ASSUME Message(t) PROVE task[t].at = "idle" /\ running /\ running' = running
  BY <1>5 DEF Message, ConfigAdd, ConfigClear, ConfigPatch, ConfigAttrSet, Begin, At
<1>6. ASSUME UiAdd PROVE Moves("main", "uiadd", "findbase", NoName, {}, 1)
  <2>1. Begin("main", "uiadd", "findbase", NoName, 1)
    BY <1>6, Zenon DEF UiAdd
  <2>2. "uiadd" \in Ops /\ "findbase" \in Labels /\ NoName \in Names \cup {NoName} /\ 1 \in Int
    OBVIOUS
  <2> QED BY ONLY TypeInv, <2>1, <2>2, BeginMoves, MainThread, Zenon
<1>7. ASSUME UiRemove PROVE Moves("main", "uiremove", "findselected", NoName, {}, 0)
  <2>1. Begin("main", "uiremove", "findselected", NoName, 0)
    BY <1>7, Zenon DEF UiRemove
  <2>2. "uiremove" \in Ops /\ "findselected" \in Labels /\ NoName \in Names \cup {NoName} /\ 0 \in Int
    OBVIOUS
  <2> QED BY ONLY TypeInv, <2>1, <2>2, BeginMoves, MainThread, Zenon
<1>8. ASSUME UiSetValue
      PROVE  \E row \in rows \cap universes : Moves("main", "uiset", "setvalue", row, {}, 0)
  BY <1>8, BeginMoves, MainThread DEF UiSetValue, TypeInv
<1>9. ASSUME Message(t)
      PROVE  \E op \in MessageOps, at \in {"create", "clear", "modified"}, count \in Int :
                /\ Moves(t, op, at, NoName, {}, count)
                /\ at \in {"create", "clear"} => op # "none"
  BY <1>1, <1>2, <1>3, <1>4, <1>9 DEF Message
<1> QED BY <1>5, <1>6, <1>7, <1>8, <1>9

\* What each step of a task under way does to the tasks.
LEMMA StepMoves ==
    ASSUME TypeInv, NEW t \in Threads
    PROVE  LET Goes(at) == Moves(t, task[t].op, at, task[t].item, task[t].keys, task[t].count)
               Ends == Moves(t, "none", "idle", NoName, {}, 0)
           IN /\ Create(t) => \E n \in Fresh, v \in Values :
                    /\ Moves(t, task[t].op, "store", n, task[t].keys, task[t].count - 1)
                    /\ value' = [value EXCEPT ![n] = v]
              /\ Store(t) => Goes("attach")
              /\ StoreFails(t) => IF task[t].op = "patch" THEN Goes(AfterStore(t)) ELSE GoOn(t)
              /\ Attach(t) => Goes(AfterStore(t))
              /\ ClearDetach(t) => Goes("cleartable")
              /\ ClearTable(t) => Goes("notify")
              /\ NotifyService(t) => Goes("notifyui")
              /\ NotifyUi(t) => IF quiet THEN GoOn(t) ELSE Goes("refresh")
              /\ RefreshClear(t) => Goes("getkeys")
              /\ RefreshKeys(t) =>
                    IF unlisted' THEN GoOn(t)
                    ELSE Moves(t, task[t].op, "addrows", task[t].item, universes, task[t].count)
              /\ RefreshAdd(t) => GoOn(t)
              /\ Modified(t) => Ends
<1> USE DEF Labels, StepLabels
<1>1. ASSUME Create(t)
      PROVE  \E n \in Fresh, v \in Values :
                /\ Moves(t, task[t].op, "store", n, task[t].keys, task[t].count - 1)
                /\ value' = [value EXCEPT ![n] = v]
  <2>1. PICK n \in Fresh, v \in (IF task[t].op = "add" THEN {Default} ELSE Values) :
              /\ value' = [value EXCEPT ![n] = v]
              /\ task' = [task EXCEPT ![t].at = "store", ![t].item = n, ![t].count = @ - 1]
    BY <1>1 DEF Create
  <2>2. n \in Names
    BY DEF Fresh
  <2>3. v \in Values
    BY ServiceAssumption
  <2>4. Moves(t, task[t].op, "store", n, task[t].keys, task[t].count - 1)
    <3>1. task[t].count - 1 \in Int
      BY DEF TypeInv, TaskRecord
    <3> QED BY <2>1, <2>2, <3>1, TakesMoves
  <2> QED BY <2>1, <2>3, <2>4
<1>2. ASSUME NEW at \in Labels, Goto(t, at)
      PROVE  Moves(t, task[t].op, at, task[t].item, task[t].keys, task[t].count)
  BY <1>2, GotoMoves
<1>3. ASSUME Store(t) \/ Attach(t) \/ ClearDetach(t) \/ ClearTable(t) \/ NotifyService(t) \/ RefreshClear(t)
      PROVE  /\ Store(t) => Goto(t, "attach")
             /\ Attach(t) => Goto(t, AfterStore(t))
             /\ ClearDetach(t) => Goto(t, "cleartable")
             /\ ClearTable(t) => Goto(t, "notify")
             /\ NotifyService(t) => Goto(t, "notifyui")
             /\ RefreshClear(t) => Goto(t, "getkeys")
  BY Zenon DEF Store, Attach, ClearDetach, ClearTable, NotifyService, RefreshClear
<1>4. ASSUME RefreshKeys(t)
      PROVE  IF unlisted' THEN GoOn(t)
             ELSE Moves(t, task[t].op, "addrows", task[t].item, universes, task[t].count)
  BY <1>4, KeysMoves DEF RefreshKeys, TypeInv
<1>5. ASSUME NotifyUi(t) PROVE IF quiet THEN GoOn(t) ELSE Goto(t, "refresh")
  BY <1>5, Zenon DEF NotifyUi
<1>6. ASSUME RefreshAdd(t) PROVE GoOn(t)
  BY <1>6, Zenon DEF RefreshAdd
<1>7. ASSUME Modified(t) PROVE Moves(t, "none", "idle", NoName, {}, 0)
  BY <1>7, DoneMoves DEF Modified
<1>8. AfterStore(t) \in Labels
  BY DEF AfterStore
<1>9. ASSUME StoreFails(t)
      PROVE  IF task[t].op = "patch" THEN Goto(t, AfterStore(t)) ELSE GoOn(t)
  BY <1>9, Zenon DEF StoreFails
<1> QED BY <1>1, <1>2, <1>3, <1>4, <1>5, <1>6, <1>7, <1>8, <1>9

\* What each step that only the main thread takes does to the tasks.
LEMMA MainMoves ==
    ASSUME TypeInv
    PROVE  LET m == task["main"]
               Goes(at) == Moves("main", m.op, at, m.item, m.keys, m.count)
               Ends == Moves("main", "none", "idle", NoName, {}, 0)
           IN /\ FindBase => \E base \in Names \cup {NoName} :
                    /\ Moves("main", m.op, "clone", base, m.keys, m.count)
                    /\ base \in universes \cup {NoName}
              /\ Clone => \E n \in Fresh, v \in Values :
                    /\ Moves("main", m.op, "store", n, m.keys, 0)
                    /\ value' = [value EXCEPT ![n] = v]
              /\ AddRow => Ends
              /\ FindSelected =>
                    IF selected \in universes
                    THEN Moves("main", m.op, "removerow", selected, m.keys, m.count)
                    ELSE Goes("unquiet")
              /\ RemoveRow => Goes("detach")
              /\ Detach => Goes("delete")
              /\ Delete => Goes(IF m.item \in universes THEN "notify" ELSE "unquiet")
              /\ Unquiet => Ends
              /\ SetValue => Ends
              /\ Serve => Moves("main", m.op, "savekeys", NoName, m.keys, m.count)
              /\ SaveKeys => \/ Moves("main", m.op, "savenext", m.item, universes, m.count)
                             \/ Goes("savebare")
              /\ SaveLookUp => \E n \in m.keys :
                    Moves("main", m.op, IF n \in universes THEN "saveread" ELSE "savenext",
                          n, m.keys \ {n}, m.count)
              /\ SaveRead => Moves("main", m.op, "savenext", NoName, m.keys, m.count)
              /\ SaveWrite => Moves("main", m.op, "unset", NoName, m.keys, m.count)
              /\ SaveUnset => Ends
<1> DEFINE m == task["main"]
<1> USE MainThread DEF Labels, StepLabels, SaveLabels
<1>1. ASSUME FindBase
      PROVE  \E base \in Names \cup {NoName} :
                /\ Moves("main", m.op, "clone", base, m.keys, m.count)
                /\ base \in universes \cup {NoName}
  <2>1. PICK base \in universes \cup {NoName} : GotoWith("main", "clone", base)
    BY <1>1 DEF FindBase
  <2>2. base \in universes \cup {NoName} /\ base \in Names \cup {NoName}
    BY DEF TypeInv
  <2> QED BY <2>1, <2>2, GotoWithMoves
<1>2. ASSUME Clone
      PROVE  \E n \in Fresh, v \in Values :
                /\ Moves("main", m.op, "store", n, m.keys, 0)
                /\ value' = [value EXCEPT ![n] = v]
  <2>1. PICK n \in Fresh, v \in (IF Item("main") = NoName THEN {Default} ELSE Values) :
              /\ value' = [value EXCEPT ![n] = v]
              /\ task' = [task EXCEPT !["main"].at = "store", !["main"].item = n, !["main"].count = 0]
    BY <1>2 DEF Clone
  <2>2. n \in Names
    BY DEF Fresh
  <2>3. v \in Values
    BY ServiceAssumption
  <2>4. Moves("main", m.op, "store", n, m.keys, 0)
    <3>1. task' = [task EXCEPT !["main"].at = "store", !["main"].item = n, !["main"].count = 0]
      BY <2>1
    <3>2. 0 \in Int /\ n \in Names
      BY <2>2
    <3> QED BY <3>1, <3>2, TakesMoves, Zenon
  <2> QED BY <2>1, <2>3, <2>4
<1>3. ASSUME AddRow \/ Unquiet \/ SetValue \/ SaveUnset
      PROVE  Moves("main", "none", "idle", NoName, {}, 0)
  BY <1>3, DoneMoves DEF AddRow, Unquiet, SetValue, SaveUnset
<1>4. ASSUME FindSelected
      PROVE  IF selected \in universes
             THEN Moves("main", m.op, "removerow", selected, m.keys, m.count)
             ELSE Moves("main", m.op, "unquiet", m.item, m.keys, m.count)
  BY <1>4, GotoMoves, GotoWithMoves DEF FindSelected, TypeInv
<1>5. ASSUME RemoveRow PROVE Moves("main", m.op, "detach", m.item, m.keys, m.count)
  BY <1>5, GotoMoves DEF RemoveRow
<1>6. ASSUME Detach PROVE Moves("main", m.op, "delete", m.item, m.keys, m.count)
  BY <1>6, GotoMoves DEF Detach
<1>7. ASSUME Delete
      PROVE  Moves("main", m.op, IF m.item \in universes THEN "notify" ELSE "unquiet",
                   m.item, m.keys, m.count)
  BY <1>7, GotoMoves DEF Delete, Item
<1>8. ASSUME Serve PROVE Moves("main", m.op, "savekeys", NoName, m.keys, m.count)
  BY <1>8, GotoWithMoves DEF Serve
<1>9. ASSUME SaveKeys
      PROVE  \/ Moves("main", m.op, "savenext", m.item, universes, m.count)
             \/ Moves("main", m.op, "savebare", m.item, m.keys, m.count)
  BY <1>9, KeysMoves, GotoMoves DEF SaveKeys, TypeInv
<1>10. ASSUME SaveLookUp
       PROVE  \E n \in m.keys :
                 Moves("main", m.op, IF n \in universes THEN "saveread" ELSE "savenext",
                       n, m.keys \ {n}, m.count)
  <2>1. PICK n \in m.keys :
              task' = [task EXCEPT !["main"].at = IF n \in universes THEN "saveread" ELSE @,
                                   !["main"].item = n, !["main"].keys = @ \ {n}]
    BY <1>10 DEF SaveLookUp
  <2>2. m.at = "savenext" /\ m \in TaskRecord
    BY <1>10 DEF SaveLookUp, At, TypeInv
  <2>3. CASE n \in universes
    BY <2>1, <2>2, <2>3 DEF TypeInv, TaskRecord, Moves
  <2>4. CASE n \notin universes
    BY <2>1, <2>2, <2>4 DEF TypeInv, TaskRecord, Moves
  <2> QED BY <2>3, <2>4
<1>11. ASSUME SaveRead PROVE Moves("main", m.op, "savenext", NoName, m.keys, m.count)
  BY <1>11, GotoWithMoves DEF SaveRead
<1>12. ASSUME SaveWrite PROVE Moves("main", m.op, "unset", NoName, m.keys, m.count)
  BY <1>12, GotoWithMoves DEF SaveWrite
<1> QED
  BY <1>1, <1>2, <1>3, <1>4, <1>5, <1>6, <1>7, <1>8, <1>9, <1>10, <1>11, <1>12

------------------------------------------------------------------------------
(* Types                                                                   *)

LEMMA ValueType ==
    ASSUME TypeInv, NEW n \in Names, NEW v \in Values, value' = [value EXCEPT ![n] = v]
    PROVE  value' \in [Names -> Values]
BY DEF TypeInv

\* Every step but New and Stop is one of a session.
LEMMA InSession ==
    ASSUME Click \/ MainStep \/ \E t \in Threads : Message(t) \/ Step(t)
    PROVE  running /\ running' = running
<1>1. ASSUME Click PROVE running /\ running' = running
  BY <1>1 DEF Click, UiAdd, UiRemove, UiSetValue, UiSelect, Begin, At
<1>2. ASSUME NEW t \in Threads, Message(t) PROVE running /\ running' = running
  BY <1>2 DEF Message, ConfigAdd, ConfigClear, ConfigPatch, ConfigAttrSet, Begin, At
<1>3. ASSUME MainStep PROVE running /\ running' = running
  BY <1>3 DEF MainStep, FindBase, Clone, AddRow, FindSelected, RemoveRow, Detach, Delete, Unquiet,
              SetValue, Serve, SaveKeys, SaveLookUp, SaveRead, SaveWrite, SaveUnset, At
<1>4. ASSUME NEW t \in Threads, Step(t) PROVE running /\ running' = running
  BY <1>4 DEF Step, Create, Store, StoreFails, Attach, ClearDetach, ClearTable, NotifyService, NotifyUi,
              RefreshClear, RefreshKeys, RefreshAdd, Modified, At
<1> QED BY <1>1, <1>2, <1>3, <1>4

\* What New loads are preferences.
LEMMA LoadedType ==
    ASSUME TypeInv, NEW n \in Names, NEW readable \in BOOLEAN
    PROVE  Loaded(n, readable) \in Preferences
<1>1. [m \in {n} |-> Default] \in [{n} -> Values] /\ {n} \in SUBSET Names
  BY ServiceAssumption
<1>2. FirstPreferences(n) \in Preferences
  BY <1>1, ServiceAssumption DEF FirstPreferences, Preferences
<1> QED BY <1>2 DEF TypeInv, Loaded

LEMMA PreferencesParts ==
    ASSUME NEW p \in Preferences
    PROVE  /\ p.global \in Values
           /\ p.universes \in [DOMAIN p.universes -> Values]
           /\ DOMAIN p.universes \subseteq Names
           /\ p = [global |-> p.global, universes |-> p.universes]
<1>1. PICK S \in SUBSET Names : p.universes \in [S -> Values]
  BY DEF Preferences
<1> QED BY <1>1 DEF Preferences

LEMMA PreferencesMade ==
    ASSUME NEW g \in Values, NEW S \in SUBSET Names, NEW f \in [S -> Values]
    PROVE  [global |-> g, universes |-> f] \in Preferences
BY DEF Preferences

LEMMA InitHolds == Init => IInv
<1> SUFFICES ASSUME Init PROVE IInv
  OBVIOUS
<1> USE MainThread DEF Init
<1>1. Idle \in TaskRecord /\ Idle.op = "none" /\ Idle.at = "idle"
  BY DEF Idle, TaskRecord, Ops, MessageOps, Labels, StepLabels
<1>2. task \in [Threads -> TaskRecord] /\ \A t \in Threads : task[t] = Idle
  BY <1>1
<1>3. TypeInv
  BY <1>1, <1>2, ServiceAssumption DEF TypeInv, SaveLabels, MessageOps, StepLabels
<1>4. RestInv /\ NewInv /\ AttachInv
  BY <1>1, <1>2 DEF RestInv, NewInv, AttachInv
<1>5. SaveInv
  BY <1>1, <1>2 DEF SaveInv
<1>6. HoldInv
  BY <1>1, <1>2 DEF HoldInv, Held
<1>7. RowsInv
  BY <1>1, <1>2 DEF RowsInv, Shows, SaveLabels
<1> QED BY <1>3, <1>4, <1>5, <1>6, <1>7 DEF IInv

\* What holds of the tasks after a step of thread t that is not part of a save,
\* and of everything else.
TasksFit(t) ==
    /\ task' \in [Threads -> TaskRecord]
    /\ \A s \in Threads \ {t} : task'[s] = task[s]
    /\ t # "main" => task'[t].op \in MessageOps /\ task'[t].at \in StepLabels
    /\ t = "main" => task'[t].at \notin SaveLabels \ {"unset"}

DataFits ==
    /\ UNCHANGED <<running, file, unwritten>>
    /\ universes' \subseteq Names /\ freed' \subseteq Names
    /\ value' \in [Names -> Values] /\ global' \in Values
    /\ queued' \in BOOLEAN /\ dropped' \in BOOLEAN
    /\ quiet' \in BOOLEAN /\ unlisted' \in BOOLEAN /\ strayed' \in BOOLEAN
    /\ selected' \in Names \cup {NoName} /\ rows' \subseteq Names \cup {NoName}

LEMMA TypeKept ==
    ASSUME TypeInv, NEW t \in Threads, TasksFit(t), DataFits, draft' = draft
    PROVE  TypeInv'
<1> USE DEF TasksFit, DataFits
<1>1. \A s \in Threads \ {"main"} : task'[s].op \in MessageOps /\ task'[s].at \in StepLabels
  BY DEF TypeInv
<1>2. /\ task'["main"].at \in SaveLabels \ {"unset"} => draft' \in Preferences
      /\ task'["main"].at = "saveread" => task'["main"].item \in Names
  <2>1. CASE t = "main"
    BY <2>1 DEF SaveLabels
  <2>2. CASE t # "main"
    <3>1. task'["main"] = task["main"] /\ draft' = draft
      BY <2>2, MainThread
    <3> QED BY <3>1 DEF TypeInv
  <2> QED BY <2>1, <2>2
<1>3. /\ running' \in BOOLEAN /\ unwritten' \in BOOLEAN
      /\ file' \in Preferences \cup {NoFile}
  BY DEF TypeInv
<1> QED BY <1>1, <1>2, <1>3 DEF TypeInv

LEMMA TasksFitMoves ==
    ASSUME TypeInv, NEW t \in Threads, NEW op, NEW at, NEW item, NEW keys, NEW count,
           Moves(t, op, at, item, keys, count),
           op = task[t].op \/ op \in MessageOps,
           \/ at \in StepLabels
           \/ t = "main" /\ at \notin SaveLabels \ {"unset"}
    PROVE  TasksFit(t)
BY DEF TasksFit, Moves, TypeInv, MessageOps, StepLabels, SaveLabels

LEMMA TasksFitGoOn ==
    ASSUME TypeInv, NEW t \in Threads, GoOn(t)
    PROVE  TasksFit(t)
<1>1. CASE Moves(t, "none", "idle", NoName, {}, 0)
  BY <1>1, TasksFitMoves DEF StepLabels, MessageOps
<1>2. ASSUME NEW at \in {"addrow", "unquiet", "create"},
             Moves(t, task[t].op, at, task[t].item, {}, task[t].count),
             at = "addrow" <=> task[t].op = "uiadd",
             at = "unquiet" <=> task[t].op = "uiremove"
      PROVE  TasksFit(t)
  <2>1. t = "main" \/ at = "create"
    BY <1>2 DEF TypeInv, MessageOps
  <2>2. at \in StepLabels \/ (t = "main" /\ at \notin SaveLabels \ {"unset"})
    BY <2>1 DEF StepLabels, SaveLabels
  <2> QED BY <1>2, <2>2, TasksFitMoves
<1> QED BY <1>1, <1>2, GoOnMoves

LEMMA StepFits ==
    ASSUME TypeInv, NewInv, NEW t \in Threads, Message(t) \/ Step(t)
    PROVE  TasksFit(t) /\ DataFits /\ draft' = draft
<1> USE DEF table, attributes, saving, view, DataFits
<1>1. CASE Message(t)
  <2>1. TasksFit(t)
    BY <1>1, MessageMoves, TasksFitMoves DEF StepLabels
  <2>2. /\ UNCHANGED <<running, table, value, saving, view, strayed>>
        /\ global' \in Values
    BY <1>1 DEF Message, ConfigAdd, ConfigClear, ConfigPatch, ConfigAttrSet, Begin, TypeInv
  <2> QED BY <2>1, <2>2 DEF TypeInv
<1>2. CASE Create(t)
  <2>1. PICK n \in Fresh, v \in Values :
              /\ Moves(t, task[t].op, "store", n, task[t].keys, task[t].count - 1)
              /\ value' = [value EXCEPT ![n] = v]
    BY <1>2, StepMoves
  <2>2. TasksFit(t)
    BY <2>1, TasksFitMoves DEF StepLabels
  <2>3. value' \in [Names -> Values]
    BY <2>1, ValueType DEF Fresh
  <2> QED BY <1>2, <2>2, <2>3 DEF Create, TypeInv
<1>3. CASE Store(t)
  <2>1. task[t].at = "store" /\ TasksFit(t)
    BY <1>3, StepMoves, TasksFitMoves DEF StepLabels, Store, At
  <2>2. Item(t) \in Names
    BY <2>1 DEF NewInv, Item
  <2> QED BY <1>3, <2>1, <2>2 DEF Store, TypeInv
<1>4. CASE Attach(t)
  <2>1. TasksFit(t)
    BY <1>4, StepMoves, TasksFitMoves DEF StepLabels, AfterStore
  <2> QED BY <1>4, <2>1 DEF Attach, TypeInv
<1>5. CASE ClearDetach(t)
  <2>1. TasksFit(t)
    BY <1>5, StepMoves, TasksFitMoves DEF StepLabels
  <2> QED BY <1>5, <2>1 DEF ClearDetach, TypeInv
<1>6. CASE ClearTable(t)
  <2>1. TasksFit(t)
    BY <1>6, StepMoves, TasksFitMoves DEF StepLabels
  <2> QED BY <1>6, <2>1 DEF ClearTable, Free, TypeInv
<1>7. CASE NotifyService(t)
  <2>1. TasksFit(t)
    BY <1>7, StepMoves, TasksFitMoves DEF StepLabels
  <2> QED BY <1>7, <2>1 DEF NotifyService, TypeInv
<1>8. CASE NotifyUi(t)
  <2>1. TasksFit(t)
    BY <1>8, StepMoves, TasksFitMoves, TasksFitGoOn DEF StepLabels
  <2> QED BY <1>8, <2>1 DEF NotifyUi, TypeInv
<1>9. CASE RefreshClear(t)
  <2>1. TasksFit(t)
    BY <1>9, StepMoves, TasksFitMoves DEF StepLabels
  <2> QED BY <1>9, <2>1 DEF RefreshClear, TypeInv
<1>10. CASE RefreshKeys(t)
  <2>1. TasksFit(t)
    BY <1>10, StepMoves, TasksFitMoves, TasksFitGoOn DEF StepLabels
  <2> QED BY <1>10, <2>1 DEF RefreshKeys, TypeInv
<1>11. CASE RefreshAdd(t)
  <2>1. TasksFit(t)
    BY <1>11, StepMoves, TasksFitGoOn
  <2>2. task[t].keys \subseteq Names
    BY DEF TypeInv, TaskRecord
  <2> QED BY <1>11, <2>1, <2>2 DEF RefreshAdd, TypeInv
<1>12. CASE Modified(t)
  <2>1. TasksFit(t)
    BY <1>12, StepMoves, TasksFitMoves DEF StepLabels, MessageOps
  <2> QED BY <1>12, <2>1 DEF Modified, TypeInv
<1>13. CASE StoreFails(t)
  <2>1. TasksFit(t)
    BY <1>13, StepMoves, TasksFitMoves, TasksFitGoOn DEF StepLabels, AfterStore
  <2> QED BY <1>13, <2>1 DEF StoreFails, TypeInv
<1> QED
  BY <1>1, <1>2, <1>3, <1>4, <1>5, <1>6, <1>7, <1>8, <1>9, <1>10, <1>11, <1>12, <1>13 DEF Step

LEMMA MainStepFits ==
    ASSUME TypeInv, NewInv, Click \/ MainStep,
           ~(Serve \/ SaveKeys \/ SaveLookUp \/ SaveRead \/ SaveWrite \/ UiSelect)
    PROVE  TasksFit("main") /\ DataFits /\ draft' = draft
<1> USE MainThread DEF table, attributes, saving, view, DataFits
<1>1. CASE UiAdd
  <2>1. TasksFit("main")
    BY <1>1, MessageMoves DEF Moves, TasksFit, SaveLabels
  <2> QED BY <1>1, <2>1 DEF UiAdd, Begin, TypeInv
<1>2. CASE UiRemove
  <2>1. TasksFit("main")
    BY <1>2, MessageMoves DEF Moves, TasksFit, SaveLabels
  <2> QED BY <1>2, <2>1 DEF UiRemove, Begin, TypeInv
<1>3. CASE UiSetValue
  <2>1. TasksFit("main")
    BY <1>3, MessageMoves DEF Moves, TasksFit, SaveLabels
  <2> QED BY <1>3, <2>1 DEF UiSetValue, Begin, TypeInv
<1>4. CASE FindBase
  <2>1. TasksFit("main")
    BY <1>4, MainMoves DEF Moves, TasksFit, SaveLabels
  <2> QED BY <1>4, <2>1 DEF FindBase, TypeInv
<1>5. CASE Clone
  <2>1. PICK n \in Fresh, v \in Values :
              /\ Moves("main", task["main"].op, "store", n, task["main"].keys, 0)
              /\ value' = [value EXCEPT ![n] = v]
    BY <1>5, MainMoves
  <2>2. TasksFit("main")
    BY <2>1 DEF Moves, TasksFit, SaveLabels
  <2>3. value' \in [Names -> Values]
    BY <2>1, ValueType DEF Fresh
  <2>4. strayed' \in BOOLEAN
    BY <1>5 DEF Clone, Use, TypeInv
  <2> QED BY <1>5, <2>2, <2>3, <2>4 DEF Clone, TypeInv
<1>6. CASE AddRow
  <2>1. TasksFit("main")
    BY <1>6, MainMoves DEF Moves, TasksFit, SaveLabels
  <2>2. task["main"].item \in Names \cup {NoName}
    BY DEF TypeInv, TaskRecord
  <2> QED BY <1>6, <2>1, <2>2 DEF AddRow, Item, TypeInv
<1>7. CASE FindSelected
  <2>1. TasksFit("main")
    BY <1>7, MainMoves DEF Moves, TasksFit, SaveLabels
  <2> QED BY <1>7, <2>1 DEF FindSelected, TypeInv
<1>8. CASE RemoveRow
  <2>1. TasksFit("main")
    BY <1>8, MainMoves DEF Moves, TasksFit, SaveLabels
  <2>2. strayed' \in BOOLEAN
    BY <1>8 DEF RemoveRow, Use, TypeInv
  <2> QED BY <1>8, <2>1, <2>2 DEF RemoveRow, TypeInv
<1>9. CASE Detach
  <2>1. TasksFit("main")
    BY <1>9, MainMoves DEF Moves, TasksFit, SaveLabels
  <2>2. strayed' \in BOOLEAN
    BY <1>9 DEF Detach, Use, TypeInv
  <2> QED BY <1>9, <2>1, <2>2 DEF Detach, TypeInv
<1>10. CASE Delete
  <2>1. TasksFit("main")
    BY <1>10, MainMoves DEF Moves, TasksFit, SaveLabels
  <2>2. strayed' \in BOOLEAN
    BY <1>10 DEF Delete, Use, TypeInv
  <2> QED BY <1>10, <2>1, <2>2 DEF Delete, Free, TypeInv
<1>11. CASE Unquiet
  <2>1. TasksFit("main")
    BY <1>11, MainMoves DEF Moves, TasksFit, SaveLabels
  <2> QED BY <1>11, <2>1 DEF Unquiet, TypeInv
<1>12. CASE SetValue
  <2>1. TasksFit("main")
    BY <1>12, MainMoves DEF Moves, TasksFit, SaveLabels
  <2>2. strayed' \in BOOLEAN
    BY <1>12 DEF SetValue, Use, TypeInv
  <2>3. value' \in [Names -> Values]
    BY <1>12 DEF SetValue, TypeInv
  <2>4. queued' \in BOOLEAN
    BY <1>12 DEF SetValue, TypeInv
  <2> QED BY <1>12, <2>1, <2>2, <2>3, <2>4 DEF SetValue, TypeInv
<1>13. CASE SaveUnset
  <2>1. TasksFit("main")
    BY <1>13, MainMoves DEF Moves, TasksFit, SaveLabels
  <2> QED BY <1>13, <2>1 DEF SaveUnset, TypeInv
<1> QED
  BY <1>1, <1>2, <1>3, <1>4, <1>5, <1>6, <1>7, <1>8, <1>9, <1>10, <1>11, <1>12, <1>13
     DEF Click, MainStep

LEMMA DraftType ==
    ASSUME TypeInv, draft \in Preferences, task["main"].at = "saveread",
           Item("main") \in Names,
           draft' = [draft EXCEPT !.universes =
                        [n \in DOMAIN @ \cup {Item("main")} |->
                            IF n = Item("main") THEN value[n] ELSE @[n]]]
    PROVE  draft' \in Preferences
<1> DEFINE d == draft.universes
           i == Item("main")
           f == [n \in DOMAIN d \cup {i} |-> IF n = i THEN value[n] ELSE d[n]]
<1>1. d \in [DOMAIN d -> Values] /\ DOMAIN d \subseteq Names /\ draft.global \in Values
      /\ draft = [global |-> draft.global, universes |-> d]
  BY PreferencesParts
<1>2. draft' = [global |-> draft.global, universes |-> f]
  <2>1. draft' = [draft EXCEPT !.universes = f]
    OBVIOUS
  <2> HIDE DEF f, d
  <2> QED BY <1>1, <2>1
<1>3. value \in [Names -> Values]
  BY DEF TypeInv
<1> HIDE DEF d, i
<1>4. f \in [DOMAIN d \cup {i} -> Values] /\ DOMAIN d \cup {i} \in SUBSET Names
  BY <1>1, <1>3 DEF i
<1> QED BY <1>1, <1>2, <1>4, PreferencesMade

\* A step of a save: draft holds preferences until they are written.
LEMMA TypeSave ==
    ASSUME TypeInv, Serve \/ SaveKeys \/ SaveLookUp \/ SaveRead \/ SaveWrite
    PROVE  TypeInv'
<1> USE MainThread DEF table, attributes, saving, view
<1>1. ASSUME NEW op, NEW at, NEW item, NEW keys, NEW count,
             Moves("main", op, at, item, keys, count), op = task["main"].op,
             UNCHANGED <<running, table, attributes, view>>,
             queued' \in BOOLEAN, dropped' \in BOOLEAN,
             unwritten' \in BOOLEAN, file' \in Preferences \cup {NoFile},
             strayed' \in BOOLEAN,
             draft' \in Preferences \/ at = "unset",
             at = "saveread" => item \in Names
      PROVE  TypeInv'
  <2>1. \A s \in Threads \ {"main"} : task'[s].op \in MessageOps /\ task'[s].at \in StepLabels
    BY <1>1 DEF TypeInv, Moves
  <2>2. /\ task'["main"].at \in SaveLabels \ {"unset"} => draft' \in Preferences
        /\ task'["main"].at = "saveread" => task'["main"].item \in Names
    BY <1>1 DEF Moves
  <2>3. task' \in [Threads -> TaskRecord]
    BY <1>1 DEF Moves
  <2> QED BY <1>1, <2>1, <2>2, <2>3 DEF TypeInv
<1>2. CASE Serve
  <2>1. Moves("main", task["main"].op, "savekeys", NoName, task["main"].keys, task["main"].count)
    BY <1>2, MainMoves
  <2>2. draft' \in Preferences
    <3>1. [n \in {} |-> Default] \in [{} -> Values]
      OBVIOUS
    <3>2. draft' = [global |-> global, universes |-> [n \in {} |-> Default]] /\ global \in Values
      BY <1>2 DEF Serve, WithoutUniverses, TypeInv
    <3> QED BY <3>1, <3>2, PreferencesMade
  <2>3. UNCHANGED <<running, table, attributes, view, strayed, dropped, file, unwritten>>
    BY <1>2, Zenon DEF Serve
  <2>4. queued' \in BOOLEAN
    BY <1>2 DEF Serve
  <2>5. /\ dropped' \in BOOLEAN /\ unwritten' \in BOOLEAN /\ strayed' \in BOOLEAN
        /\ file' \in Preferences \cup {NoFile}
    BY <2>3 DEF TypeInv
  <2> QED BY <1>1, <2>1, <2>2, <2>3, <2>4, <2>5
<1>3. CASE SaveKeys
  <2>1. \/ Moves("main", task["main"].op, "savenext", task["main"].item, universes,
                 task["main"].count)
        \/ Moves("main", task["main"].op, "savebare", task["main"].item, task["main"].keys,
                 task["main"].count)
    BY <1>3, MainMoves
  <2>2. draft' \in Preferences
    BY <1>3 DEF SaveKeys, At, TypeInv, SaveLabels
  <2> QED BY <1>1, <1>3, <2>1, <2>2 DEF SaveKeys, TypeInv
<1>4. CASE SaveLookUp
  <2>1. \E n \in task["main"].keys :
           Moves("main", task["main"].op, IF n \in universes THEN "saveread" ELSE "savenext",
                 n, task["main"].keys \ {n}, task["main"].count)
    BY <1>4, MainMoves
  <2>2. draft' \in Preferences /\ task["main"].keys \subseteq Names
    BY <1>4 DEF SaveLookUp, At, TypeInv, SaveLabels, TaskRecord
  <2> QED BY <1>1, <1>4, <2>1, <2>2 DEF SaveLookUp, TypeInv
<1>5. CASE SaveRead
  <2>1. Moves("main", task["main"].op, "savenext", NoName, task["main"].keys, task["main"].count)
    BY <1>5, MainMoves
  <2>2. draft \in Preferences
    BY <1>5 DEF SaveRead, At, TypeInv, SaveLabels
  <2>3. draft' \in Preferences
    BY <1>5, <2>2, DraftType DEF SaveRead, At, Item, TypeInv
  <2>4. strayed' \in BOOLEAN
    BY <1>5 DEF SaveRead, Use, TypeInv
  <2>5. /\ UNCHANGED <<running, table, attributes, view, queued, dropped, file, unwritten>>
        /\ queued \in BOOLEAN /\ dropped \in BOOLEAN /\ unwritten \in BOOLEAN
        /\ file \in Preferences \cup {NoFile}
    BY <1>5, Zenon DEF SaveRead, TypeInv
  <2> QED BY <1>1, <2>1, <2>3, <2>4, <2>5
<1>6. CASE SaveWrite
  <2>1. Moves("main", task["main"].op, "unset", NoName, task["main"].keys, task["main"].count)
    BY <1>6, MainMoves
  <2>2. draft \in Preferences
    BY <1>6 DEF SaveWrite, At, TypeInv, SaveLabels
  <2>3. file' \in Preferences \cup {NoFile} /\ unwritten' \in BOOLEAN
    BY <1>6, <2>2 DEF SaveWrite, Write, TypeInv
  <2> QED BY <1>1, <1>6, <2>1, <2>3 DEF SaveWrite, TypeInv
<1> QED BY <1>2, <1>3, <1>4, <1>5, <1>6

\* What New leaves: some of the universes that it loaded, the rest refused.
LEMMA NewParts ==
    ASSUME TypeInv, New
    PROVE  /\ universes' \subseteq Names /\ universes' \cap leaked' = {}
           /\ value' \in [Names -> Values] /\ global' \in Values
           /\ Snapshot' \in Preferences /\ WithoutUniverses' \in Preferences
           /\ Write(Snapshot', TRUE) \/ Write(WithoutUniverses', FALSE)
           /\ attached' = universes' /\ rows' \subseteq universes'
           /\ unlisted' \in BOOLEAN /\ (unlisted' \/ rows' = universes')
           /\ ~running /\ running' = TRUE
           /\ UNCHANGED <<freed, queued, dropped, draft, selected, quiet, task, strayed, calls>>
<1>1. PICK n \in Names, readable \in BOOLEAN, isListed \in Chance, isShown \in Chance :
         LET loaded == Loaded(n, readable)
             all == DOMAIN loaded.universes
         IN /\ ~running /\ running' = TRUE
            /\ universes' \in IF MaxFails THEN SUBSET all ELSE {all}
            /\ attached' = universes' /\ leaked' = all \ universes'
            /\ rows' = (IF isShown THEN universes' ELSE {}) /\ unlisted' = ~isShown
            /\ value' = [m \in Names |-> IF m \in universes' THEN loaded.universes[m] ELSE Default]
            /\ global' = loaded.global
            /\ Write(IF isListed THEN Snapshot' ELSE WithoutUniverses', isListed)
            /\ UNCHANGED <<freed, queued, dropped, draft, selected, quiet, task, strayed, calls>>
  BY Zenon DEF New
<1> DEFINE p == Loaded(n, readable)
<1>2. p \in Preferences
  BY LoadedType
<1>3. isListed \in BOOLEAN /\ isShown \in BOOLEAN
  BY DEF Chance
<1>4. /\ universes' \subseteq DOMAIN p.universes /\ leaked' = DOMAIN p.universes \ universes'
      /\ global' = p.global
      /\ value' = [m \in Names |-> IF m \in universes' THEN p.universes[m] ELSE Default]
  BY <1>1
<1> HIDE DEF p
<1>5. /\ p.global \in Values /\ p.universes \in [DOMAIN p.universes -> Values]
      /\ DOMAIN p.universes \subseteq Names
  BY <1>2, PreferencesParts
<1>6. value' \in [Names -> Values] /\ universes' \subseteq Names /\ global' \in Values
  BY <1>4, <1>5, ServiceAssumption
<1>7. Snapshot' \in Preferences
  <2>1. Restrict(value', universes') \in [universes' -> Values]
    BY <1>6 DEF Restrict
  <2> QED BY <1>6, <2>1, PreferencesMade DEF Snapshot
<1>8. WithoutUniverses' \in Preferences
  <2>1. [m \in {} |-> Default] \in [{} -> Values]
    OBVIOUS
  <2> QED BY <1>6, <2>1, PreferencesMade DEF WithoutUniverses
<1>9. Write(Snapshot', TRUE) \/ Write(WithoutUniverses', FALSE)
  BY <1>1, <1>3
<1>10. /\ attached' = universes' /\ rows' \subseteq universes'
       /\ unlisted' \in BOOLEAN /\ (unlisted' \/ rows' = universes')
  BY <1>1, <1>3
<1>11. /\ ~running /\ running' = TRUE
       /\ UNCHANGED <<freed, queued, dropped, draft, selected, quiet, task, strayed, calls>>
  BY <1>1
<1> QED BY <1>4, <1>6, <1>7, <1>8, <1>9, <1>10, <1>11

LEMMA TypeNew ==
    ASSUME TypeInv, RestInv, New
    PROVE  TypeInv'
<1> USE MainThread
<1>1. file' \in Preferences \cup {NoFile} /\ unwritten' \in BOOLEAN
  BY NewParts DEF Write, TypeInv
<1>2. task["main"].at \notin SaveLabels
  BY NewParts DEF RestInv, Idle, SaveLabels
<1> QED BY <1>1, <1>2, NewParts DEF TypeInv

LEMMA TypeStop ==
    ASSUME TypeInv, Stop
    PROVE  TypeInv'
<1> USE MainThread
<1>1. Idle \in TaskRecord /\ Idle.op = "none" /\ Idle.at = "idle"
  BY DEF Idle, TaskRecord, Ops, MessageOps, Labels, StepLabels
<1>2. task' \in [Threads -> TaskRecord] /\ \A t \in Threads : task'[t] = Idle
  BY <1>1 DEF Stop
<1> QED BY <1>1, <1>2, ServiceAssumption DEF Stop, TypeInv, SaveLabels, MessageOps, StepLabels

LEMMA TypeNext ==
    ASSUME TypeInv, NewInv, RestInv, [Next]_vars
    PROVE  TypeInv'
<1>1. CASE UNCHANGED vars
  BY <1>1 DEF TypeInv, vars, table, attributes, saving, view
<1>2. CASE New
  BY <1>2, TypeNew
<1>3. CASE Stop
  BY <1>3, TypeStop
<1>4. CASE Serve \/ SaveKeys \/ SaveLookUp \/ SaveRead \/ SaveWrite
  BY <1>4, TypeSave
<1>5. CASE UiSelect
  BY <1>5 DEF UiSelect, TypeInv, table, attributes, saving
<1>6. CASE Click \/ MainStep
  BY <1>4, <1>5, <1>6, MainStepFits, MainThread, TypeKept
<1>7. ASSUME NEW t \in Threads, Message(t) \/ Step(t) PROVE TypeInv'
  BY <1>7, StepFits, TypeKept
<1> QED BY <1>1, <1>2, <1>3, <1>6, <1>7 DEF Next

------------------------------------------------------------------------------
(* Sessions, new universes and the ones listened to                        *)

LEMMA RestNext ==
    ASSUME RestInv, [Next]_vars
    PROVE  RestInv'
<1>1. CASE UNCHANGED vars
  BY <1>1 DEF RestInv, vars, table, saving, view
<1>2. CASE New
  BY <1>2, Zenon DEF New, RestInv
<1>3. CASE Stop
  <2>1. \A t \in Threads : task'[t] = Idle
    BY <1>3 DEF Stop
  <2> QED BY <1>3, <2>1 DEF Stop, RestInv
<1>4. ASSUME running, running' = running PROVE RestInv'
  BY <1>4 DEF RestInv
<1> QED BY <1>1, <1>2, <1>3, <1>4, InSession DEF Next

\* Only Create and Clone lead to "store", and every step is one thread's.
LEMMA OneThread ==
    ASSUME TypeInv, NEW t \in Threads,
           \/ Message(t) \/ Step(t)
           \/ t = "main" /\ (Click \/ MainStep)
    PROVE  /\ \A s \in Threads \ {t} : task'[s] = task[s]
           /\ Create(t) \/ (t = "main" /\ Clone) \/ task'[t].at # "store"
<1> USE MainThread
<1>1. CASE Message(t)
  BY <1>1, MessageMoves DEF Moves
<1>2. CASE Step(t)
  <2>1. ASSUME GoOn(t)
        PROVE  \A s \in Threads \ {t} : task'[s] = task[s] /\ task'[t].at # "store"
    BY <2>1, GoOnMoves DEF Moves
  <2>2. ASSUME NEW op, NEW at, NEW item, NEW keys, NEW count,
               Moves(t, op, at, item, keys, count)
        PROVE  (\A s \in Threads \ {t} : task'[s] = task[s]) /\ task'[t].at = at
    BY <2>2 DEF Moves
  <2>3. ASSUME GoOn(t)
        PROVE  (\A s \in Threads \ {t} : task'[s] = task[s]) /\ task'[t].at # "store"
    BY <2>3, GoOnMoves, <2>2
  <2>4. CASE Create(t)
    BY <2>2, <2>4, StepMoves
  <2>5. CASE Store(t) \/ StoreFails(t) \/ Attach(t) \/ ClearDetach(t) \/ ClearTable(t)
             \/ NotifyService(t)
    BY <2>2, <2>3, <2>5, StepMoves DEF AfterStore
  <2>6. CASE NotifyUi(t) \/ RefreshClear(t) \/ RefreshKeys(t) \/ RefreshAdd(t) \/ Modified(t)
    BY <2>2, <2>3, <2>6, StepMoves
  <2> QED BY <1>2, <2>4, <2>5, <2>6 DEF Step
<1>3. CASE t = "main" /\ Click
  BY <1>3, MessageMoves DEF Click, UiSelect, At, Moves
<1>4. CASE t = "main" /\ MainStep
  <2>1. ASSUME NEW op, NEW at, NEW item, NEW keys, NEW count,
               Moves("main", op, at, item, keys, count)
        PROVE  (\A s \in Threads \ {"main"} : task'[s] = task[s]) /\ task'["main"].at = at
    BY <2>1 DEF Moves
  <2>2. CASE FindBase \/ Clone \/ AddRow \/ RemoveRow \/ Detach
    BY <1>4, <2>1, <2>2, MainMoves
  <2>3. CASE Unquiet \/ SetValue \/ Serve \/ SaveKeys \/ SaveRead \/ SaveWrite \/ SaveUnset
    BY <1>4, <2>1, <2>3, MainMoves
  <2>4. CASE FindSelected
    BY <1>4, <2>1, <2>4, MainMoves
  <2>5. CASE Delete
    BY <1>4, <2>1, <2>5, MainMoves
  <2>6. CASE SaveLookUp
    <3>1. PICK n \in task["main"].keys :
             Moves("main", task["main"].op, IF n \in universes THEN "saveread" ELSE "savenext",
                   n, task["main"].keys \ {n}, task["main"].count)
      BY <2>6, MainMoves
    <3>2. /\ \A s \in Threads \ {"main"} : task'[s] = task[s]
          /\ task'["main"].at \in {"saveread", "savenext"}
      BY <2>1, <3>1
    <3> QED BY <1>4, <3>2
  <2> QED BY <1>4, <2>2, <2>3, <2>4, <2>5, <2>6 DEF MainStep
<1> QED BY <1>1, <1>2, <1>3, <1>4

\* Nothing but these actions changes the table.
LEMMA TableChanges ==
    ASSUME NEW t \in Threads,
           \/ Message(t) \/ Step(t)
           \/ t = "main" /\ (Click \/ MainStep)
    PROVE  \/ Store(t) \/ StoreFails(t) \/ (t = "main" /\ Delete) \/ ClearTable(t)
           \/ UNCHANGED <<universes, freed, leaked>>
<1> USE DEF table
<1>1. CASE Message(t)
  BY <1>1 DEF Message, ConfigAdd, ConfigClear, ConfigPatch, ConfigAttrSet
<1>2. CASE Step(t)
  BY <1>2 DEF Step, Create, Attach, ClearDetach, NotifyService, NotifyUi, RefreshClear,
              RefreshKeys, RefreshAdd, Modified
<1>3. CASE t = "main" /\ Click
  BY <1>3, SMTT(30) DEF Click, UiAdd, UiRemove, UiSetValue, UiSelect
<1>4. CASE t = "main" /\ MainStep
  BY <1>4 DEF MainStep, FindBase, Clone, AddRow, FindSelected, RemoveRow, Detach, Unquiet, SetValue,
              Serve, SaveKeys, SaveLookUp, SaveRead, SaveWrite, SaveUnset
<1> QED BY <1>1, <1>2, <1>3, <1>4

\* What the table lets go was in it, and no task is about to store it.
LEMMA NewFree ==
    ASSUME NewInv, NEW t \in Threads, NEW gone \in SUBSET universes, Free(gone),
           \A s \in Threads \ {t} : task'[s] = task[s], task'[t].at # "store"
    PROVE  NewInv'
BY DEF NewInv, Free

LEMMA NewMade ==
    ASSUME TypeInv, NewInv, NEW t \in Threads, NEW n \in Fresh, task'[t].item = n,
           \A s \in Threads \ {t} : task'[s] = task[s], UNCHANGED <<universes, freed, leaked>>
    PROVE  NewInv'
<1>1. n \in Names /\ n \notin universes \cup freed \cup leaked
  BY DEF Fresh
<1>2. \A s \in Threads : task[s].item # n
  BY DEF Fresh
<1>3. universes' \cap (freed' \cup leaked') = {}
  BY DEF NewInv
<1>4. ASSUME NEW r \in Threads, task'[r].at = "store"
      PROVE  /\ task'[r].item \in Names
             /\ task'[r].item \notin universes' \cup freed' \cup leaked'
             /\ \A s \in Threads \ {r} : task'[s].at = "store" => task'[s].item # task'[r].item
  <2>1. CASE r = t
    BY <1>1, <1>2, <2>1
  <2>2. CASE r # t
    <3>1. task'[r] = task[r]
      BY <2>2
    <3> QED BY <1>2, <1>4, <3>1 DEF NewInv
  <2> QED BY <2>1, <2>2
<1> QED BY <1>3, <1>4 DEF NewInv

LEMMA NewNext ==
    ASSUME TypeInv, NewInv, RestInv, [Next]_vars
    PROVE  NewInv'
<1> USE MainThread
<1>1. CASE UNCHANGED vars
  BY <1>1 DEF NewInv, vars, table
<1>2. CASE New
  <2>1. ~running /\ freed' = freed /\ task' = task /\ universes' \cap leaked' = {}
    BY <1>2, NewParts
  <2> QED BY <2>1 DEF RestInv, NewInv, Idle
<1>3. CASE Stop
  <2>1. \A t \in Threads : task'[t].at = "idle"
    BY <1>3 DEF Stop, Idle
  <2> QED BY <1>3, <2>1 DEF Stop, NewInv
<1>4. ASSUME NEW t \in Threads,
             \/ Message(t) \/ Step(t)
             \/ t = "main" /\ (Click \/ MainStep)
      PROVE  NewInv'
  <2>1. /\ \A s \in Threads \ {t} : task'[s] = task[s]
        /\ Create(t) \/ (t = "main" /\ Clone) \/ task'[t].at # "store"
    BY <1>4, OneThread
  <2>2. CASE Create(t)
    <3>1. \E n \in Fresh : task'[t].item = n
      BY <2>2, StepMoves DEF Moves
    <3> QED BY <2>1, <2>2, <3>1, NewMade DEF Create, table
  <2>3. CASE t = "main" /\ Clone
    <3>1. \E n \in Fresh : task'[t].item = n
      BY <2>3, MainMoves DEF Moves
    <3> QED BY <2>1, <2>3, <3>1, NewMade DEF Clone, table
  <2>4. CASE Store(t)
    <3>1. /\ task[t].at = "store" /\ universes' = universes \cup {task[t].item}
          /\ UNCHANGED <<freed, leaked>>
      BY <2>4 DEF Store, At, Item
    <3>2. task'[t].at # "store"
      BY <2>4, StepMoves DEF Moves
    <3> QED BY <2>1, <3>1, <3>2 DEF NewInv
  <2>5. CASE ClearTable(t)
    <3>1. task'[t].at # "store" /\ Free(universes)
      BY <2>5, StepMoves DEF ClearTable, Moves
    <3> QED BY <2>1, <3>1, NewFree
  <2>6. CASE t = "main" /\ Delete
    <3>1. task'[t].at # "store" /\ Free({Item("main")} \cap universes)
      BY <2>6, MainMoves DEF Delete, Moves
    <3> QED BY <2>1, <3>1, NewFree
  <2>7. ASSUME UNCHANGED <<universes, freed, leaked>>, task'[t].at # "store" PROVE NewInv'
    BY <2>1, <2>7 DEF NewInv
  <2>8. CASE StoreFails(t)
    <3>1. /\ task[t].at = "store" /\ leaked' = leaked \cup {task[t].item}
          /\ UNCHANGED <<universes, freed>>
      BY <2>8 DEF StoreFails, At, Item
    <3>2. task'[t].at # "store"
      BY <2>8, StepMoves, GoOnMoves DEF Moves, AfterStore
    <3> QED BY <2>1, <3>1, <3>2 DEF NewInv
  <2> QED BY <1>4, <2>1, <2>2, <2>3, <2>4, <2>5, <2>6, <2>7, <2>8, TableChanges
<1> QED BY <1>1, <1>2, <1>3, <1>4 DEF Next

LEMMA AttachKept ==
    ASSUME AttachInv, NEW t \in Threads, \A s \in Threads \ {t} : task'[s] = task[s],
           universes' \subseteq universes, universes' \cap attached \subseteq attached',
           task[t].at \notin {"attach", "delete", "cleartable"}
    PROVE  AttachInv'
<1> SUFFICES ASSUME NEW n \in universes', n \notin attached' PROVE InHand(n)'
  BY DEF AttachInv
<1>1. PICK s \in Threads : \/ task[s].at \in {"attach", "delete"} /\ task[s].item = n
                           \/ task[s].at = "cleartable"
  BY DEF AttachInv, InHand
<1>2. task'[s] = task[s]
  BY <1>1
<1> QED BY <1>1, <1>2 DEF InHand

\* The steps that have nothing to do with who listens to whom.
LEMMA AttachUntouched ==
    ASSUME NEW t \in Threads,
           \/ Message(t) \/ Step(t)
           \/ t = "main" /\ (Click \/ MainStep)
    PROVE  \/ Store(t) \/ Attach(t) \/ ClearDetach(t) \/ ClearTable(t)
           \/ t = "main" /\ (Detach \/ Delete)
           \/ /\ UNCHANGED <<universes, attached>>
              /\ task[t].at \notin {"attach", "delete", "cleartable"}
<1> USE DEF table, At
<1>1. CASE Message(t)
  BY <1>1 DEF Message, ConfigAdd, ConfigClear, ConfigPatch, ConfigAttrSet, Begin
<1>2. CASE Step(t)
  BY <1>2 DEF Step, Create, StoreFails, NotifyService, NotifyUi, RefreshClear, RefreshKeys,
              RefreshAdd, Modified
<1>3. CASE t = "main" /\ Click
  BY <1>3, SMTT(30) DEF Click, UiAdd, UiRemove, UiSetValue, UiSelect, Begin
<1>4. CASE t = "main" /\ MainStep
  BY <1>4 DEF MainStep, FindBase, Clone, AddRow, FindSelected, RemoveRow, Unquiet, SetValue,
              Serve, SaveKeys, SaveLookUp, SaveRead, SaveWrite, SaveUnset
<1> QED BY <1>1, <1>2, <1>3, <1>4

LEMMA AttachNext ==
    ASSUME TypeInv, NewInv, AttachInv, [Next]_vars
    PROVE  AttachInv'
<1> USE MainThread
<1>1. CASE UNCHANGED vars
  BY <1>1 DEF AttachInv, InHand, vars, table
<1>2. CASE New
  <2>1. attached' = universes'
    BY <1>2, NewParts
  <2> QED BY <2>1 DEF AttachInv
<1>3. CASE Stop
  BY <1>3 DEF Stop, AttachInv
<1>4. ASSUME NEW t \in Threads,
             \/ Message(t) \/ Step(t)
             \/ t = "main" /\ (Click \/ MainStep)
      PROVE  AttachInv'
  <2>1. \A s \in Threads \ {t} : task'[s] = task[s]
    BY <1>4, OneThread
  <2>2. CASE Store(t)
    <3>1. /\ universes' = universes \cup {task[t].item} /\ attached' = attached
          /\ task[t].at = "store" /\ task'[t].at = "attach" /\ task'[t].item = task[t].item
      BY <2>2, StepMoves DEF Store, At, Item, Moves
    <3>2. ASSUME NEW n \in universes, n \notin attached PROVE InHand(n)'
      <4>1. PICK s \in Threads : \/ task[s].at \in {"attach", "delete"} /\ task[s].item = n
                                 \/ task[s].at = "cleartable"
        BY <3>2 DEF AttachInv, InHand
      <4>2. task'[s] = task[s]
        BY <2>1, <3>1, <4>1
      <4> QED BY <4>1, <4>2 DEF InHand
    <3> QED BY <3>1, <3>2 DEF AttachInv, InHand
  <2>3. CASE Attach(t)
    <3>1. /\ universes' = universes /\ task[t].at = "attach"
          /\ attached' = attached \cup ({task[t].item} \ freed)
      BY <2>3 DEF Attach, At, Item
    <3>2. SUFFICES ASSUME NEW n \in universes, n \notin attached' PROVE InHand(n)'
      BY <3>1 DEF AttachInv
    <3>3. n # task[t].item /\ n \notin attached
      BY <3>1, <3>2 DEF NewInv
    <3>4. PICK s \in Threads : \/ task[s].at \in {"attach", "delete"} /\ task[s].item = n
                               \/ task[s].at = "cleartable"
      BY <3>2, <3>3 DEF AttachInv, InHand
    <3>5. task'[s] = task[s]
      BY <2>1, <3>1, <3>3, <3>4
    <3> QED BY <3>4, <3>5 DEF InHand
  <2>4. CASE ClearDetach(t)
    <3>1. task'[t].at = "cleartable"
      BY <2>4, StepMoves DEF Moves
    <3> QED BY <3>1 DEF AttachInv, InHand
  <2>5. CASE ClearTable(t)
    <3>1. universes' = {}
      BY <2>5 DEF ClearTable, Free
    <3> QED BY <3>1 DEF AttachInv
  <2>6. CASE t = "main" /\ Detach
    <3>1. /\ universes' = universes /\ attached' = attached \ {task[t].item}
          /\ task[t].at = "detach" /\ task'[t].at = "delete" /\ task'[t].item = task[t].item
      BY <2>6, MainMoves DEF Detach, At, Item, table, Moves
    <3>2. ASSUME NEW n \in universes, n \notin attached PROVE InHand(n)'
      <4>1. PICK s \in Threads : \/ task[s].at \in {"attach", "delete"} /\ task[s].item = n
                                 \/ task[s].at = "cleartable"
        BY <3>2 DEF AttachInv, InHand
      <4>2. task'[s] = task[s]
        BY <2>1, <3>1, <4>1
      <4> QED BY <4>1, <4>2 DEF InHand
    <3> QED BY <3>1, <3>2 DEF AttachInv, InHand
  <2>7. CASE t = "main" /\ Delete
    <3>1. /\ universes' = universes \ {task[t].item}
          /\ universes' \cap attached \subseteq attached' /\ task[t].at = "delete"
      BY <2>7 DEF Delete, Free, At, Item
    <3>2. SUFFICES ASSUME NEW n \in universes', n \notin attached' PROVE InHand(n)'
      BY DEF AttachInv
    <3>3. n \in universes /\ n # task[t].item /\ n \notin attached
      BY <3>1, <3>2
    <3>4. PICK s \in Threads : \/ task[s].at \in {"attach", "delete"} /\ task[s].item = n
                               \/ task[s].at = "cleartable"
      BY <3>3 DEF AttachInv, InHand
    <3>5. task'[s] = task[s]
      BY <2>1, <3>1, <3>3, <3>4
    <3> QED BY <3>4, <3>5 DEF InHand
  <2>8. CASE UNCHANGED <<universes, attached>> /\ task[t].at \notin {"attach", "delete", "cleartable"}
    BY <2>1, <2>8, AttachKept
  <2> QED BY <1>4, <2>2, <2>3, <2>4, <2>5, <2>6, <2>7, <2>8, AttachUntouched
<1> QED BY <1>1, <1>2, <1>3, <1>4 DEF Next

------------------------------------------------------------------------------
(* Without Overdrive: what a task holds stays in the table                 *)

\* No step of the main thread holds a universe that was freed.
LEMMA HoldsNothingFreed ==
    ASSUME ~Overdrive, TypeInv, NewInv, HoldInv, Use("main"),
           task["main"].at \in Held
    PROVE  ~strayed'
<1>1. task["main"].item \in universes \cup {NoName}
  BY DEF HoldInv, Held
<1>2. task["main"].item \notin freed
  BY <1>1, ServiceAssumption DEF NewInv, TypeInv
<1> QED BY <1>2 DEF Use, Item, HoldInv

LEMMA HoldKept ==
    ASSUME HoldInv, ~Overdrive => ~strayed' /\ task'["main"].at \notin Held
    PROVE  HoldInv'
BY DEF HoldInv, Held

LEMMA HoldStep ==
    ASSUME TypeInv, HoldInv, NEW t \in Threads, Message(t) \/ Step(t)
    PROVE  HoldInv'
<1> SUFFICES ASSUME ~Overdrive PROVE HoldInv'
  BY DEF HoldInv, Held
<1>1. t = "main" /\ ~strayed
  BY MainThread DEF HoldInv, Held
<1>2. strayed' = strayed
  BY DEF Message, ConfigAdd, ConfigClear, ConfigPatch, ConfigAttrSet, Step, Create, Store, StoreFails, Attach,
         ClearDetach, ClearTable, NotifyService, NotifyUi, RefreshClear, RefreshKeys, RefreshAdd,
         Modified
<1>3. ASSUME NEW op, NEW at, NEW item, NEW keys, NEW count, Moves(t, op, at, item, keys, count)
      PROVE  task'[t].at = at
  BY <1>3 DEF Moves
<1>4. ASSUME GoOn(t) PROVE task'[t].at \notin Held
  BY <1>3, <1>4, GoOnMoves DEF Held
<1>5. ASSUME Message(t) PROVE task'[t].at \notin Held
  BY <1>3, <1>5, MessageMoves DEF Held
<1>6. CASE \/ Create(t) \/ Store(t) \/ StoreFails(t) \/ Attach(t) \/ ClearDetach(t)
           \/ ClearTable(t) \/ NotifyService(t)
  <2>1. task'[t].at \notin Held
    BY <1>3, <1>4, <1>6, StepMoves DEF Held, AfterStore
  <2> QED BY <1>1, <1>2, <2>1, HoldKept
<1>7. CASE NotifyUi(t) \/ RefreshClear(t) \/ RefreshKeys(t) \/ RefreshAdd(t) \/ Modified(t)
  <2>1. task'[t].at \notin Held
    BY <1>3, <1>4, <1>7, StepMoves DEF Held
  <2> QED BY <1>1, <1>2, <2>1, HoldKept
<1> QED BY <1>1, <1>2, <1>5, <1>6, <1>7, HoldKept DEF Step

LEMMA HoldMain ==
    ASSUME TypeInv, NewInv, HoldInv, Click \/ MainStep
    PROVE  HoldInv'
<1> SUFFICES ASSUME ~Overdrive PROVE HoldInv'
  BY DEF HoldInv, Held
<1> DEFINE m == task["main"]
<1> USE MainThread DEF At, table
<1>1. ~strayed
  BY DEF HoldInv, Held
<1>2. CASE UiAdd \/ UiRemove
  <2>1. task'["main"].at \notin Held /\ strayed' = strayed
    BY <1>2, MessageMoves DEF UiAdd, UiRemove, Moves, Held
  <2> QED BY <1>1, <2>1, HoldKept
<1>3. CASE UiSetValue
  <2>1. /\ task'["main"].at = "setvalue" /\ task'["main"].item \in universes
        /\ universes' = universes /\ strayed' = strayed
    BY <1>3, MessageMoves DEF UiSetValue, Moves
  <2> QED BY <1>1, <2>1 DEF HoldInv, Held
<1>4. CASE UiSelect
  BY <1>4 DEF UiSelect, HoldInv
<1>5. CASE FindBase
  <2>1. /\ task'["main"].at = "clone" /\ task'["main"].item \in universes \cup {NoName}
        /\ universes' = universes /\ strayed' = strayed
    BY <1>5, MainMoves DEF FindBase, Moves
  <2> QED BY <1>1, <2>1 DEF HoldInv, Held
<1>6. CASE Clone
  <2>1. task'["main"].at \notin Held
    BY <1>6, MainMoves DEF Moves, Held
  <2>2. ~strayed'
    BY <1>6, HoldsNothingFreed DEF Clone, Held
  <2> QED BY <2>1, <2>2, HoldKept
<1>7. CASE AddRow \/ Unquiet \/ Serve \/ SaveKeys \/ SaveWrite \/ SaveUnset
  <2>1. task'["main"].at \notin Held /\ strayed' = strayed
    BY <1>7, MainMoves DEF AddRow, Unquiet, Serve, SaveKeys, SaveWrite, SaveUnset, Moves, Held
  <2> QED BY <1>1, <2>1, HoldKept
<1>8. CASE FindSelected
  <2>1. /\ \/ task'["main"].at = "removerow" /\ task'["main"].item \in universes
           \/ task'["main"].at = "unquiet"
        /\ universes' = universes /\ strayed' = strayed
    BY <1>8, MainMoves DEF FindSelected, Moves
  <2> QED BY <1>1, <2>1 DEF HoldInv, Held
<1>9. CASE RemoveRow
  <2>1. /\ m.at = "removerow" /\ task'["main"].at = "detach" /\ task'["main"].item = m.item
        /\ universes' = universes
    BY <1>9, MainMoves DEF RemoveRow, Moves
  <2>2. ~strayed'
    BY <1>9, HoldsNothingFreed DEF RemoveRow, Held
  <2> QED BY <2>1, <2>2 DEF HoldInv, Held
<1>10. CASE Detach
  <2>1. /\ m.at = "detach" /\ task'["main"].at = "delete" /\ task'["main"].item = m.item
        /\ universes' = universes
    BY <1>10, MainMoves DEF Detach, Moves
  <2>2. ~strayed'
    BY <1>10, HoldsNothingFreed DEF Detach, Held
  <2> QED BY <2>1, <2>2 DEF HoldInv, Held
<1>11. CASE Delete
  <2>1. task'["main"].at \notin Held
    BY <1>11, MainMoves DEF Moves, Held
  <2>2. ~strayed'
    BY <1>11, HoldsNothingFreed DEF Delete, Held
  <2> QED BY <2>1, <2>2, HoldKept
<1>12. CASE SetValue
  <2>1. task'["main"].at \notin Held
    BY <1>12, MainMoves DEF Moves, Held
  <2>2. ~strayed'
    BY <1>12, HoldsNothingFreed DEF SetValue, Held
  <2> QED BY <2>1, <2>2, HoldKept
<1>13. CASE SaveLookUp
  <2>1. PICK n \in m.keys :
              Moves("main", m.op, IF n \in universes THEN "saveread" ELSE "savenext",
                    n, m.keys \ {n}, m.count)
    BY <1>13, MainMoves
  <2>2. \/ task'["main"].at = "saveread" /\ task'["main"].item \in universes
        \/ task'["main"].at = "savenext"
    BY <2>1 DEF Moves
  <2>3. universes' = universes /\ strayed' = strayed
    BY <1>13 DEF SaveLookUp
  <2> QED BY <1>1, <2>2, <2>3 DEF HoldInv, Held
<1>14. CASE SaveRead
  <2>1. task'["main"].at \notin Held
    BY <1>14, MainMoves DEF Moves, Held
  <2>2. ~strayed'
    BY <1>14, HoldsNothingFreed DEF SaveRead, Held
  <2> QED BY <2>1, <2>2, HoldKept
<1> QED
  BY <1>2, <1>3, <1>4, <1>5, <1>6, <1>7, <1>8, <1>9, <1>10, <1>11, <1>12, <1>13, <1>14
     DEF Click, MainStep

LEMMA HoldNext ==
    ASSUME TypeInv, RestInv, NewInv, HoldInv, [Next]_vars
    PROVE  HoldInv'
<1> USE MainThread
<1>1. CASE UNCHANGED vars
  BY <1>1 DEF HoldInv, Held, vars, table
<1>2. CASE New
  <2>1. ~running /\ task' = task /\ strayed' = strayed
    BY <1>2, NewParts
  <2>2. task'["main"].at = "idle"
    BY <2>1 DEF RestInv, Idle
  <2> QED BY <2>1, <2>2 DEF HoldInv, Held
<1>3. CASE Stop
  <2>1. task'["main"].at = "idle" /\ strayed' = strayed
    BY <1>3 DEF Stop, Idle
  <2> QED BY <2>1 DEF HoldInv, Held
<1> QED BY <1>1, <1>2, <1>3, HoldStep, HoldMain DEF Next

------------------------------------------------------------------------------
(* What is saved                                                           *)

LEMMA RestrictSame ==
    ASSUME NEW f, NEW g, NEW S, \A x \in S : f[x] = g[x]
    PROVE  Restrict(f, S) = Restrict(g, S)
BY DEF Restrict

\* The thread that moved has asked for a save, or will.
LEMMA SaveTold ==
    ASSUME NEW t \in Threads, task'[t].at \notin SaveLabels,
           queued' \/ Tells(t)'
    PROVE  SaveInv'
<1>1. queued' \/ Changing'
  BY DEF Changing
<1>2. ~Overdrive => ~Saving'
  BY MainThread DEF Saving
<1> QED BY <1>1, <1>2 DEF SaveInv

\* The step concerns neither the table nor what is saved of it.
LEMMA SaveKept ==
    ASSUME SaveInv, NEW t \in Threads, \A s \in Threads \ {t} : task'[s] = task[s],
           UNCHANGED <<running, queued, dropped, file, unwritten, draft, global, universes>>,
           \A n \in universes : value'[n] = value[n],
           ~Tells(t),
           t = "main" => task[t].at \notin SaveLabels /\ task'[t].at \notin SaveLabels
    PROVE  SaveInv'
<1> USE MainThread
<1>1. \A S \in SUBSET universes : Restrict(value', S) = Restrict(value, S)
  BY RestrictSame
<1>2. Snapshot' = Snapshot
  BY <1>1 DEF Snapshot
<1>3. Saved' <=> Saved
  BY <1>2 DEF Saved
<1>4. Changing => Changing'
  <2>1. ASSUME NEW s \in Threads, Tells(s) PROVE Tells(s)'
    <3>1. task'[s] = task[s]
      BY <2>1
    <3> QED BY <2>1, <3>1 DEF Tells
  <2> QED BY <2>1 DEF Changing
<1>5. CASE t = "main"
  <2>1. ~Saving /\ ~Saving'
    BY <1>5 DEF Saving
  <2> QED BY <1>3, <1>4, <2>1 DEF SaveInv
<1>6. CASE t # "main"
  <2>1. task'["main"] = task["main"]
    BY <1>6
  <2>2. Saving' <=> Saving
    BY <2>1 DEF Saving
  <2>3. SaveOnCourse => SaveOnCourse'
    <3> SUFFICES ASSUME SaveOnCourse PROVE SaveOnCourse'
      OBVIOUS
    <3>1. CASE task["main"].at \in {"savekeys", "savebare"}
      <4>1. draft = Part({})
        BY <3>1 DEF SaveOnCourse
      <4> QED BY <1>1, <2>1, <3>1, <4>1 DEF SaveOnCourse, Part
    <3>2. CASE task["main"].at = "savenext"
      <4>1. task["main"].keys \subseteq universes /\ draft = Part(universes \ task["main"].keys)
        BY <3>2 DEF SaveOnCourse
      <4>2. draft' = Part(universes \ task["main"].keys)'
        BY <1>1, <2>1, <4>1 DEF Part
      <4> QED BY <2>1, <3>2, <4>1, <4>2 DEF SaveOnCourse
    <3>3. CASE task["main"].at = "saveread"
      <4> DEFINE K == task["main"].keys \cup {task["main"].item}
      <4>1. K \subseteq universes /\ task["main"].item \notin task["main"].keys
            /\ draft = Part(universes \ K)
        BY <3>3 DEF SaveOnCourse
      <4>2. draft' = Part(universes \ K)'
        BY <1>1, <2>1, <4>1 DEF Part
      <4> QED BY <2>1, <3>3, <4>1, <4>2 DEF SaveOnCourse
    <3>4. CASE task["main"].at = "unset"
      BY <1>3, <2>1, <3>4 DEF SaveOnCourse
    <3> QED BY <3>1, <3>2, <3>3, <3>4 DEF SaveOnCourse
  <2> QED BY <1>3, <1>4, <2>2, <2>3 DEF SaveInv
<1> QED BY <1>5, <1>6

LEMMA SaveMessage ==
    ASSUME TypeInv, SaveInv, NEW t \in Threads, Message(t)
    PROVE  SaveInv'
<1>1. task[t].at = "idle" /\ task'[t].at \in {"create", "clear", "modified"}
  BY MessageMoves DEF Moves
<1>2. CASE Tells(t)'
  BY <1>1, <1>2, SaveTold DEF SaveLabels
<1>3. CASE ~Tells(t)'
  <2>1. task'[t].at = "create"
    BY <1>1, <1>3 DEF Tells, Telling
  <2>2. ASSUME ConfigAttrSet(t) PROVE FALSE
    <3>1. Begin(t, "set", "modified", NoName, 0)
      BY <2>2, Zenon DEF ConfigAttrSet
    <3>2. "set" \in Ops /\ "modified" \in Labels /\ NoName \in Names \cup {NoName} /\ 0 \in Int
      BY DEF Ops, MessageOps, Labels, StepLabels
    <3>3. Moves(t, "set", "modified", NoName, {}, 0)
      BY ONLY TypeInv, t \in Threads, <3>1, <3>2, BeginMoves, Zenon
    <3> QED BY <2>1, <3>3 DEF Moves
  <2>3. UNCHANGED <<running, queued, dropped, file, unwritten, draft, global, universes, value>>
    BY <2>2 DEF Message, ConfigAdd, ConfigClear, ConfigPatch, Begin, table, attributes, saving
  <2>4. \A s \in Threads \ {t} : task'[s] = task[s]
    BY OneThread
  <2>5. ~Tells(t)
    BY <1>1 DEF Tells, Telling
  <2> QED BY <1>1, <2>3, <2>4, <2>5, SaveKept DEF SaveLabels
<1> QED BY <1>2, <1>3

LEMMA SaveStep ==
    ASSUME TypeInv, NewInv, SaveInv, NEW t \in Threads, Step(t)
    PROVE  SaveInv'
<1> USE DEF Telling, SaveLabels, At, table, attributes, saving
<1>1. ASSUME NEW op, NEW at, NEW item, NEW keys, NEW count, Moves(t, op, at, item, keys, count)
      PROVE  task'[t].at = at /\ task'[t].op = op
  BY <1>1 DEF Moves
<1>2. \A s \in Threads \ {t} : task'[s] = task[s]
  BY OneThread
<1>3. ASSUME GoOn(t)
      PROVE  task'[t].at \notin SaveLabels /\ (task'[t].at = "create" => task'[t].op = "patch")
  BY <1>1, <1>3, GoOnMoves
<1>4. CASE Store(t) \/ ClearDetach(t) \/ ClearTable(t)
  <2>1. task'[t].at \in Telling
    BY <1>1, <1>4, StepMoves
  <2> QED BY <2>1, SaveTold DEF Tells
<1>5. CASE Attach(t)
  <2>1. task'[t].at = AfterStore(t) /\ task'[t].op = task[t].op
    BY <1>1, <1>5, StepMoves
  <2>2. Tells(t)' /\ task'[t].at \notin SaveLabels
    BY <2>1 DEF Tells, AfterStore
  <2> QED BY <2>2, SaveTold
<1>6. CASE Create(t)
  <2>1. PICK n \in Fresh, v \in Values :
              /\ Moves(t, task[t].op, "store", n, task[t].keys, task[t].count - 1)
              /\ value' = [value EXCEPT ![n] = v]
    BY <1>6, StepMoves
  <2>2. task'[t].at = "store" /\ task'[t].op = task[t].op
    BY <1>1, <2>1
  <2>3. CASE task[t].op = "patch"
    BY <2>2, <2>3, SaveTold DEF Tells
  <2>4. CASE task[t].op # "patch"
    <3>1. ~Tells(t) /\ task[t].at = "create"
      BY <1>6, <2>4 DEF Create, Tells
    <3>2. UNCHANGED <<running, queued, dropped, file, unwritten, draft, global, universes>>
      BY <1>6 DEF Create
    <3>3. \A m \in universes : value'[m] = value[m]
      BY <2>1 DEF Fresh, TypeInv
    <3> QED BY <1>2, <2>2, <3>1, <3>2, <3>3, SaveKept
  <2> QED BY <2>3, <2>4
<1>7. CASE StoreFails(t)
  <2>1. task[t].at = "store"
        /\ UNCHANGED <<running, queued, dropped, file, unwritten, draft, global, universes, value>>
    BY <1>7 DEF StoreFails
  <2>2. CASE task[t].op = "patch"
    <3>1. task'[t].at = AfterStore(t) /\ task'[t].op = task[t].op
      BY <1>1, <1>7, <2>2, StepMoves
    <3>2. Tells(t)' /\ task'[t].at \notin SaveLabels
      BY <2>2, <3>1 DEF Tells, AfterStore
    <3> QED BY <3>2, SaveTold
  <2>3. CASE task[t].op # "patch"
    <3>1. task'[t].at \notin SaveLabels
      BY <1>3, <1>7, <2>3, StepMoves
    <3>2. ~Tells(t)
      BY <2>1, <2>3 DEF Tells
    <3> QED BY <1>2, <2>1, <3>1, <3>2, SaveKept
  <2> QED BY <2>2, <2>3
<1>8. CASE NotifyService(t) \/ Modified(t)
  <2>1. queued'
    BY <1>8, Zenon DEF NotifyService, Modified
  <2>2. task'[t].at \notin SaveLabels
    BY <1>1, <1>8, StepMoves
  <2> QED BY <2>1, <2>2, SaveTold
<1>9. CASE NotifyUi(t) \/ RefreshClear(t) \/ RefreshKeys(t) \/ RefreshAdd(t)
  <2>1. task'[t].at \notin SaveLabels
    BY <1>1, <1>3, <1>9, StepMoves
  <2>2. /\ task[t].at \notin Telling \cup SaveLabels \cup {"create", "store"}
        /\ UNCHANGED <<running, queued, dropped, file, unwritten, draft, global, universes, value>>
    BY <1>9 DEF NotifyUi, RefreshClear, RefreshKeys, RefreshAdd
  <2>3. ~Tells(t)
    BY <2>2 DEF Tells
  <2> QED BY <1>2, <2>1, <2>2, <2>3, SaveKept
<1> QED BY <1>4, <1>5, <1>6, <1>7, <1>8, <1>9 DEF Step

LEMMA SaveEdit ==
    ASSUME TypeInv, AttachInv, SaveInv, Click \/ MainStep,
           ~(Serve \/ SaveKeys \/ SaveLookUp \/ SaveRead \/ SaveWrite \/ SaveUnset)
    PROVE  SaveInv'
<1> DEFINE m == task["main"]
<1> USE MainThread DEF Telling, Tells, SaveLabels, At, table, attributes, saving
<1>1. \A s \in Threads \ {"main"} : task'[s] = task[s]
  BY OneThread
<1>2. CASE UiAdd \/ UiRemove \/ UiSetValue
  <2>1. task'["main"].at \notin SaveLabels /\ m.at = "idle"
    BY <1>2, MessageMoves DEF Moves, UiAdd, UiRemove, UiSetValue, Begin
  <2>2. UNCHANGED <<running, queued, dropped, file, unwritten, draft, global, universes, value>>
    BY <1>2 DEF UiAdd, UiRemove, UiSetValue, Begin
  <2> QED BY <1>1, <2>1, <2>2, SaveKept
<1>3. CASE UiSelect
  <2>1. task'["main"].at = "idle" /\ m.at = "idle"
    BY <1>3 DEF UiSelect
  <2>2. UNCHANGED <<running, queued, dropped, file, unwritten, draft, global, universes, value>>
    BY <1>3 DEF UiSelect
  <2> QED BY <1>1, <2>1, <2>2, SaveKept
<1>4. CASE FindBase \/ AddRow \/ Unquiet \/ RemoveRow \/ Detach
  <2>1. task'["main"].at \notin SaveLabels
    BY <1>4, MainMoves DEF Moves
  <2>2. /\ m.at \notin Telling \cup SaveLabels \cup {"create", "store"}
        /\ UNCHANGED <<running, queued, dropped, file, unwritten, draft, global, universes, value>>
    BY <1>4 DEF FindBase, AddRow, Unquiet, RemoveRow, Detach
  <2> QED BY <1>1, <2>1, <2>2, SaveKept
<1>5. CASE FindSelected
  <2>1. task'["main"].at \notin SaveLabels
    BY <1>5, MainMoves DEF Moves
  <2>2. /\ m.at \notin Telling \cup SaveLabels \cup {"create", "store"}
        /\ UNCHANGED <<running, queued, dropped, file, unwritten, draft, global, universes, value>>
    BY <1>5 DEF FindSelected
  <2> QED BY <1>1, <2>1, <2>2, SaveKept
<1>6. CASE Clone
  <2>1. PICK n \in Fresh, v \in Values :
              /\ Moves("main", m.op, "store", n, m.keys, 0)
              /\ value' = [value EXCEPT ![n] = v]
    BY <1>6, MainMoves
  <2>2. task'["main"].at = "store"
    BY <2>1 DEF Moves
  <2>3. /\ m.at = "clone"
        /\ UNCHANGED <<running, queued, dropped, file, unwritten, draft, global, universes>>
    BY <1>6 DEF Clone
  <2>4. \A u \in universes : value'[u] = value[u]
    BY <2>1 DEF Fresh, TypeInv
  <2> QED BY <1>1, <2>2, <2>3, <2>4, SaveKept
<1>7. CASE Delete
  <2>1. CASE m.item \in universes
    <3>1. task'["main"].at = "notify"
      BY <1>7, <2>1, MainMoves DEF Moves
    <3> QED BY <3>1, SaveTold
  <2>2. CASE m.item \notin universes
    <3>1. task'["main"].at = "unquiet"
      BY <1>7, <2>2, MainMoves DEF Moves
    <3>2. universes' = universes
      BY <1>7, <2>2 DEF Delete, Free, Item
    <3>3. /\ m.at \notin Telling \cup SaveLabels \cup {"create", "store"}
          /\ UNCHANGED <<running, queued, dropped, file, unwritten, draft, global, value>>
      BY <1>7 DEF Delete
    <3> QED BY <1>1, <3>1, <3>2, <3>3, SaveKept
  <2> QED BY <2>1, <2>2
<1>8. CASE SetValue
  <2>1. task'["main"].at = "idle" /\ m.at = "setvalue"
    BY <1>8, MainMoves DEF SetValue, Moves
  <2>2. /\ UNCHANGED <<running, dropped, file, unwritten, draft, global, universes>>
        /\ queued' = (queued \/ m.item \in attached)
        /\ \E v \in Values : value' = [value EXCEPT ![m.item] = v]
    BY <1>8 DEF SetValue, Item
  <2>3. CASE m.item \in attached
    BY <2>1, <2>2, <2>3, SaveTold
  <2>4. CASE m.item \in universes \ attached
    <3>1. PICK s \in Threads : \/ task[s].at \in {"attach", "delete"} /\ task[s].item = m.item
                               \/ task[s].at = "cleartable"
      BY <2>4 DEF AttachInv, InHand
    <3>2. s # "main"
      BY <2>1, <3>1
    <3>3. task'[s] = task[s] /\ task[s].at \in Telling /\ Overdrive
      BY <1>1, <3>1, <3>2 DEF TypeInv, StepLabels
    <3>4. Changing'
      BY <3>3 DEF Changing
    <3> QED BY <3>3, <3>4 DEF SaveInv
  <2>5. CASE m.item \notin universes \cup attached
    <3>1. queued' = queued /\ \A n \in universes : value'[n] = value[n]
      BY <2>2, <2>5 DEF TypeInv
    <3> QED BY <1>1, <2>1, <2>2, <3>1, SaveKept
  <2> QED BY <2>3, <2>4, <2>5
<1> QED BY <1>2, <1>3, <1>4, <1>5, <1>6, <1>7, <1>8 DEF Click, MainStep

\* The save under way gets on.
LEMMA SaveProceeds ==
    ASSUME TypeInv, SaveInv, task["main"].at \in SaveLabels, task'["main"].at \in SaveLabels,
           \A s \in Threads \ {"main"} : task'[s] = task[s],
           running' = running, queued' = queued,
           SaveOnCourse => SaveOnCourse'
    PROVE  SaveInv'
<1> USE MainThread
<1>1. Saving /\ Saving'
  BY DEF Saving
<1>2. Changing => Changing'
  <2>1. ASSUME NEW s \in Threads, Tells(s) PROVE Tells(s)'
    <3>1. s # "main"
      BY <2>1 DEF SaveLabels, Telling, Tells
    <3>2. task'[s] = task[s]
      BY <3>1
    <3> QED BY <2>1, <3>2 DEF Tells
  <2> QED BY <2>1 DEF Changing
<1> QED BY <1>1, <1>2 DEF SaveInv

LEMMA SaveSave ==
    ASSUME TypeInv, SaveInv,
           Serve \/ SaveKeys \/ SaveLookUp \/ SaveRead \/ SaveWrite \/ SaveUnset
    PROVE  SaveInv'
<1> DEFINE m == task["main"]
<1> USE MainThread DEF SaveLabels, At, table, attributes
<1>1. \A s \in Threads \ {"main"} : task'[s] = task[s]
  BY OneThread DEF MainStep
<1>2. CASE Serve
  <2>1. task'["main"].at = "savekeys"
    BY <1>2, MainMoves DEF Moves
  <2>2. /\ queued' = FALSE /\ global' = global /\ value' = value
        /\ draft' = [global |-> global, universes |-> [n \in {} |-> Default]]
    BY <1>2 DEF Serve, WithoutUniverses
  <2>3. [n \in {} |-> Default] = Restrict(value', {})
    BY DEF Restrict
  <2>4. SaveOnCourse'
    BY <2>1, <2>2, <2>3 DEF SaveOnCourse, Part
  <2> QED BY <2>1, <2>2, <2>4 DEF SaveInv, Saving
<1>3. CASE SaveKeys
  <2>1. /\ m.at = "savekeys"
        /\ \/ task'["main"].at = "savenext" /\ task'["main"].keys = universes
           \/ task'["main"].at = "savebare"
        /\ UNCHANGED <<running, table, attributes, saving>>
    BY <1>3, MainMoves DEF SaveKeys, Moves
  <2>2. ASSUME SaveOnCourse PROVE SaveOnCourse'
    <3>1. draft = Part({})
      BY <2>1, <2>2 DEF SaveOnCourse
    <3>2. universes \ universes = {}
      OBVIOUS
    <3> QED BY <2>1, <3>1, <3>2 DEF SaveOnCourse, Part, saving
  <2> QED BY <1>1, <2>1, <2>2, SaveProceeds DEF saving
<1>4. CASE SaveLookUp
  <2>1. PICK n \in m.keys :
              Moves("main", m.op, IF n \in universes THEN "saveread" ELSE "savenext",
                    n, m.keys \ {n}, m.count)
    BY <1>4, MainMoves
  <2>2. m.at = "savenext" /\ UNCHANGED <<running, table, attributes, saving>>
    BY <1>4 DEF SaveLookUp
  <2>3. ASSUME SaveOnCourse PROVE SaveOnCourse'
    <3>1. m.keys \subseteq universes /\ draft = Part(universes \ m.keys)
      BY <2>2, <2>3 DEF SaveOnCourse
    <3>2. /\ task'["main"].at = "saveread" /\ task'["main"].item = n
          /\ task'["main"].keys = m.keys \ {n}
      BY <2>1, <3>1 DEF Moves
    <3>3. (m.keys \ {n}) \cup {n} = m.keys
      BY <2>1
    <3> QED BY <2>1, <2>2, <3>1, <3>2, <3>3 DEF SaveOnCourse, Part, saving
  <2>4. task'["main"].at \in SaveLabels
    BY <2>1 DEF Moves
  <2> QED BY <1>1, <2>2, <2>3, <2>4, SaveProceeds DEF saving
<1>5. CASE SaveRead
  <2>1. /\ m.at = "saveread" /\ task'["main"].at = "savenext" /\ task'["main"].keys = m.keys
        /\ UNCHANGED <<running, table, attributes, queued>>
    BY <1>5, MainMoves DEF SaveRead, Moves
  <2>2. ASSUME SaveOnCourse PROVE SaveOnCourse'
    <3>1. /\ m.keys \cup {m.item} \subseteq universes /\ m.item \notin m.keys
          /\ draft = Part(universes \ (m.keys \cup {m.item}))
      BY <2>1, <2>2 DEF SaveOnCourse
    <3> DEFINE f == [n \in DOMAIN draft.universes \cup {m.item} |->
                        IF n = m.item THEN value[n] ELSE draft.universes[n]]
    <3>2. draft' = [draft EXCEPT !.universes = f]
      BY <1>5 DEF SaveRead, Item
    <3>3. draft.universes = Restrict(value, universes \ (m.keys \cup {m.item}))
      BY <3>1 DEF Part
    <3>4. f = Restrict(value, universes \ m.keys)
      BY <3>1, <3>3 DEF Restrict
    <3> HIDE DEF f
    <3>5. draft' = [global |-> global, universes |-> f]
      BY <3>1, <3>2 DEF Part
    <3> QED BY <2>1, <3>1, <3>4, <3>5 DEF SaveOnCourse, Part
  <2> QED BY <1>1, <2>1, <2>2, SaveProceeds
<1>6. CASE SaveWrite
  <2>1. /\ \/ m.at = "savenext" /\ m.keys = {} /\ Write(draft, TRUE)
           \/ m.at = "savebare" /\ Write(draft, FALSE)
        /\ task'["main"].at = "unset"
        /\ UNCHANGED <<running, table, attributes, queued>>
    BY <1>6, MainMoves DEF SaveWrite, Moves
  <2>2. ASSUME SaveOnCourse PROVE SaveOnCourse'
    <3>1. CASE m.at = "savenext"
      <4>1. draft = Part(universes \ {})
        BY <2>1, <2>2, <3>1 DEF SaveOnCourse
      <4>2. draft = Snapshot' /\ universes \ {} = universes
        BY <2>1, <4>1 DEF Part, Snapshot
      <4>3. Saved'
        BY <2>1, <3>1, <4>2 DEF Write, Saved
      <4> QED BY <2>1, <4>3 DEF SaveOnCourse
    <3>2. CASE m.at = "savebare"
      <4>1. Saved'
        BY <2>1, <3>2 DEF Write, Saved
      <4> QED BY <2>1, <4>1 DEF SaveOnCourse
    <3> QED BY <2>1, <3>1, <3>2
  <2> QED BY <1>1, <2>1, <2>2, SaveProceeds
<1>7. CASE SaveUnset
  <2>1. /\ m.at = "unset" /\ task'["main"].at = "idle" /\ dropped' = queued /\ queued' = FALSE
        /\ UNCHANGED <<running, table, attributes, file, unwritten>>
    BY <1>7, MainMoves DEF SaveUnset, Moves
  <2>2. Saving /\ ~Saving'
    BY <2>1 DEF Saving
  <2>3. Saved => Saved'
    BY <2>1 DEF Saved, Snapshot
  <2>4. SaveOnCourse => Saved
    BY <2>1 DEF SaveOnCourse
  <2>5. Changing => Changing'
    <3>1. ASSUME NEW s \in Threads, Tells(s) PROVE Tells(s)'
      <4>1. s # "main"
        BY <2>1, <3>1 DEF Telling, Tells
      <4>2. task'[s] = task[s]
        BY <1>1, <4>1
      <4> QED BY <3>1, <4>2 DEF Tells
    <3> QED BY <3>1 DEF Changing
  <2>6. queued => Overdrive /\ dropped'
    BY <2>1, <2>2 DEF SaveInv
  <2> QED BY <2>1, <2>2, <2>3, <2>4, <2>5, <2>6 DEF SaveInv
<1> QED BY <1>2, <1>3, <1>4, <1>5, <1>6, <1>7

LEMMA SaveNew ==
    ASSUME TypeInv, RestInv, New
    PROVE  SaveInv'
<1> USE MainThread
<1>1. Saved'
  BY NewParts DEF Write, Saved
<1>2. ~Saving'
  BY NewParts DEF RestInv, Idle, Saving, SaveLabels
<1> QED BY <1>1, <1>2 DEF SaveInv

LEMMA SaveNext ==
    ASSUME TypeInv, RestInv, NewInv, AttachInv, SaveInv, [Next]_vars
    PROVE  SaveInv'
<1> USE MainThread
<1>1. CASE UNCHANGED vars
  BY <1>1, Zenon DEF SaveInv, Changing, Tells, Saving, SaveOnCourse, Saved, Part, Snapshot, vars, table,
                     attributes, saving
<1>2. CASE Stop
  <2>1. task'["main"].at = "idle" /\ running' = FALSE
    BY <1>2 DEF Stop, Idle
  <2> QED BY <2>1 DEF SaveInv, Saving, SaveLabels
<1>3. CASE Click \/ MainStep
  BY <1>3, SaveEdit, SaveSave
<1> QED BY <1>1, <1>2, <1>3, SaveNew, SaveMessage, SaveStep DEF Next

------------------------------------------------------------------------------
(* Without Overdrive: the rows                                             *)

LEMMA RowsMessage ==
    ASSUME TypeInv, RowsInv, NEW t \in Threads, Message(t)
    PROVE  RowsInv'
<1> SUFFICES ASSUME ~Overdrive PROVE RowsInv'
  BY DEF RowsInv
<1>1. t = "main" /\ task[t].at = "idle"
  BY MainThread, MessageMoves
<1>2. UNCHANGED <<universes, rows, leaked, unlisted, quiet>>
  BY DEF Message, ConfigAdd, ConfigClear, ConfigPatch, ConfigAttrSet, table, view
<1>3. task'["main"].op \in MessageOps /\ task'["main"].at \in {"create", "clear", "modified"}
  BY <1>1, MessageMoves DEF Moves
<1>4. ~quiet /\ Shows(universes)
  BY <1>1 DEF RowsInv, Shows
<1> QED BY <1>2, <1>3, <1>4 DEF RowsInv, Shows, MessageOps, SaveLabels

LEMMA RowsGoOn ==
    ASSUME TypeInv, NewInv, RowsInv, ~Overdrive, GoOn("main"), UNCHANGED <<universes, quiet>>,
           \/ /\ task["main"].at = "notifyui" /\ quiet
              /\ UNCHANGED <<rows, leaked, unlisted>>
           \/ /\ task["main"].at = "store" /\ task["main"].op # "patch"
              /\ leaked' = leaked \cup {task["main"].item} /\ UNCHANGED <<rows, unlisted>>
           \/ task["main"].at = "getkeys" /\ unlisted'
           \/ /\ task["main"].at = "addrows" /\ rows' = rows \cup task["main"].keys
              /\ UNCHANGED <<leaked, unlisted>>
    PROVE  RowsInv'
<1> DEFINE m == task["main"]
<1> USE MainThread
<1>1. CASE m.at = "notifyui"
  <2>1. m.op \in {"uiadd", "uiremove"} /\ rows' = rows
    BY <1>1 DEF RowsInv, Shows
  <2>2. CASE m.op = "uiadd"
    <3>1. /\ task'["main"].at = "addrow" /\ task'["main"].op = m.op
          /\ task'["main"].item = m.item /\ task'["main"].count = m.count
      BY <2>2, GoOnMoves DEF Moves
    <3>2. (unlisted \/ (rows \cup {m.item}) \ leaked = universes) /\ quiet
      BY <1>1, <2>2 DEF RowsInv
    <3>3. (unlisted' \/ (rows' \cup {m.item}) \ leaked' = universes') /\ quiet'
      BY <1>1, <3>2
    <3> QED BY <2>2, <3>1, <3>3 DEF RowsInv, SaveLabels
  <2>3. CASE m.op = "uiremove"
    <3>1. task'["main"].at = "unquiet" /\ task'["main"].op = m.op
      BY <2>3, GoOnMoves DEF Moves
    <3>2. Shows(universes) /\ quiet
      BY <1>1, <2>3 DEF RowsInv, Shows
    <3>3. Shows(universes)' /\ quiet'
      BY <1>1, <3>2 DEF Shows
    <3> QED BY <2>3, <3>1, <3>3 DEF RowsInv, SaveLabels
  <2> QED BY <2>1, <2>2, <2>3
<1>2. CASE m.at = "addrows"
  <2>1. ~quiet /\ m.op \notin {"uiadd", "uiremove"} /\ rows' = universes
    BY <1>2 DEF RowsInv
  <2>3. rows' \ leaked' = universes'
    BY <1>2, <2>1 DEF NewInv
  <2>2. task'["main"].at \in {"idle", "create"} /\ task'["main"].op \notin {"uiadd", "uiremove"}
    BY <2>1, GoOnMoves DEF Moves
  <2>4. task'["main"].at = "create" => task'["main"].op = "patch"
    BY <2>1, GoOnMoves DEF Moves
  <2> QED BY <1>2, <2>1, <2>2, <2>3, <2>4 DEF RowsInv, Shows, SaveLabels
<1>3. CASE m.at = "getkeys"
  <2>1. ~quiet /\ m.op \notin {"uiadd", "uiremove"}
    BY <1>3 DEF RowsInv
  <2>2. task'["main"].at \in {"idle", "create"} /\ task'["main"].op \notin {"uiadd", "uiremove"}
    BY <2>1, GoOnMoves DEF Moves
  <2> QED BY <1>3, <2>1, <2>2 DEF RowsInv, Shows
<1>4. CASE m.at = "store"
  <2>1. Shows(universes) /\ m.op # "uiremove"
    BY <1>4 DEF RowsInv
  <2>2. m.item \notin universes \cup leaked
    BY <1>4 DEF NewInv
  <2>3. unlisted' \/ (rows' \cup {m.item}) \ leaked' = universes'
    BY <1>4, <2>1, <2>2 DEF Shows
  <2>4. Shows(universes)'
    BY <1>4, <2>1, <2>2 DEF Shows
  <2>5. CASE m.op = "uiadd"
    <3>1. /\ task'["main"].at = "addrow" /\ task'["main"].op = m.op
          /\ task'["main"].item = m.item
      BY <2>5, GoOnMoves DEF Moves
    <3>2. quiet'
      BY <2>5 DEF RowsInv
    <3> QED BY <2>3, <2>5, <3>1, <3>2 DEF RowsInv, SaveLabels
  <2>6. CASE m.op # "uiadd"
    <3>1. task'["main"].at = "idle" /\ task'["main"].op = "none"
      BY <1>4, <2>1, <2>6, GoOnMoves DEF Moves
    <3>2. ~quiet'
      BY <2>1, <2>6 DEF RowsInv
    <3> QED BY <2>4, <3>1, <3>2 DEF RowsInv, SaveLabels
  <2> QED BY <2>5, <2>6
<1> QED BY <1>1, <1>2, <1>3, <1>4

LEMMA RowsStep ==
    ASSUME TypeInv, NewInv, RowsInv, NEW t \in Threads, Step(t)
    PROVE  RowsInv'
<1> SUFFICES ASSUME ~Overdrive PROVE RowsInv'
  BY DEF RowsInv
<1> DEFINE m == task["main"]
<1> USE MainThread DEF At, Item, table, view, SaveLabels
<1>1. t = "main"
  OBVIOUS
<1>2. CASE Create(t)
  <2>1. /\ m.at = "create" /\ task'["main"].at = "store" /\ task'["main"].op = m.op
        /\ UNCHANGED <<universes, rows, leaked, unlisted, quiet>>
    BY <1>1, <1>2, StepMoves DEF Create, Moves
  <2> QED BY <2>1, SMTT(30) DEF RowsInv, Shows
<1>3. CASE Store(t)
  <2>1. /\ m.at = "store" /\ task'["main"].at = "attach" /\ task'["main"].op = m.op
        /\ task'["main"].item = m.item
        /\ universes' = universes \cup {m.item} /\ UNCHANGED <<rows, leaked, unlisted, quiet>>
    BY <1>1, <1>3, StepMoves DEF Store, Moves
  <2>2. m.op = "uiadd" => unlisted' \/ (rows' \cup {m.item}) \ leaked' = universes'
    <3>1. m.item \notin universes \cup leaked
      BY <2>1 DEF NewInv
    <3> QED BY <2>1, <3>1 DEF RowsInv, Shows
  <2> QED BY <2>1, <2>2 DEF RowsInv
<1>4. CASE Attach(t)
  <2>1. /\ m.at = "attach" /\ task'["main"].op = m.op
        /\ task'["main"].at = (IF m.op = "patch" /\ m.count > 0 THEN "create" ELSE "notify")
        /\ task'["main"].item = m.item
        /\ UNCHANGED <<universes, rows, leaked, unlisted, quiet>>
    BY <1>1, <1>4, StepMoves DEF Attach, AfterStore, Moves
  <2> QED BY <2>1 DEF RowsInv, Shows
<1>5. CASE ClearDetach(t)
  <2>1. /\ m.at = "clear" /\ task'["main"].at = "cleartable" /\ task'["main"].op = m.op
        /\ UNCHANGED <<universes, rows, leaked, unlisted, quiet>>
    BY <1>1, <1>5, StepMoves DEF ClearDetach, Moves
  <2> QED BY <2>1 DEF RowsInv, Shows
<1>6. CASE ClearTable(t)
  <2>1. /\ m.at = "cleartable" /\ task'["main"].at = "notify" /\ task'["main"].op = m.op
        /\ UNCHANGED <<rows, leaked, unlisted, quiet>>
    BY <1>1, <1>6, StepMoves DEF ClearTable, Free, Moves
  <2> QED BY <2>1 DEF RowsInv, Shows
<1>7. CASE NotifyService(t)
  <2>1. /\ m.at = "notify" /\ task'["main"].at = "notifyui" /\ task'["main"].op = m.op
        /\ task'["main"].item = m.item
        /\ UNCHANGED <<universes, rows, leaked, unlisted, quiet>>
    BY <1>1, <1>7, StepMoves DEF NotifyService, Moves
  <2> QED BY <2>1 DEF RowsInv, Shows
<1>8. CASE NotifyUi(t)
  <2>1. m.at = "notifyui" /\ UNCHANGED <<universes, rows, leaked, unlisted, quiet>>
    BY <1>1, <1>8 DEF NotifyUi
  <2>2. CASE quiet
    BY <1>1, <1>8, <2>1, <2>2, StepMoves, RowsGoOn
  <2>3. CASE ~quiet
    <3>1. task'["main"].at = "refresh" /\ task'["main"].op = m.op
      BY <1>1, <1>8, <2>3, StepMoves DEF Moves
    <3> QED BY <2>1, <2>3, <3>1 DEF RowsInv, Shows
  <2> QED BY <2>2, <2>3
<1>9. CASE RefreshClear(t)
  <2>1. /\ m.at = "refresh" /\ task'["main"].at = "getkeys" /\ task'["main"].op = m.op
        /\ rows' = {} /\ UNCHANGED <<universes, leaked, unlisted, quiet>>
    BY <1>1, <1>9, StepMoves DEF RefreshClear, Moves
  <2> QED BY <2>1 DEF RowsInv, Shows
<1>10. CASE RefreshKeys(t)
  <2>1. m.at = "getkeys" /\ UNCHANGED <<universes, rows, leaked, quiet>> /\ unlisted' \in BOOLEAN
    BY <1>1, <1>10 DEF RefreshKeys
  <2>2. CASE unlisted'
    BY <1>1, <1>10, <2>1, <2>2, StepMoves, RowsGoOn
  <2>3. CASE ~unlisted'
    <3>1. /\ task'["main"].at = "addrows" /\ task'["main"].op = m.op
          /\ task'["main"].keys = universes
      BY <1>1, <1>10, <2>3, StepMoves DEF Moves
    <3>2. rows = {} /\ (quiet <=> m.op \in {"uiadd", "uiremove"})
          /\ m.op \notin {"uiadd", "uiremove"}
      BY <2>1 DEF RowsInv
    <3> QED BY <2>1, <3>1, <3>2 DEF RowsInv, SaveLabels
  <2> QED BY <2>2, <2>3
<1>11. CASE RefreshAdd(t)
  <2>1. /\ m.at = "addrows" /\ rows' = rows \cup m.keys /\ UNCHANGED <<universes, leaked, unlisted, quiet>>
    BY <1>1, <1>11 DEF RefreshAdd
  <2> QED BY <1>1, <1>11, <2>1, StepMoves, RowsGoOn
<1>12. CASE Modified(t)
  <2>1. /\ m.at = "modified" /\ task'["main"].at = "idle" /\ task'["main"].op = "none"
        /\ UNCHANGED <<universes, rows, leaked, unlisted, quiet>>
    BY <1>1, <1>12, StepMoves DEF Modified, Moves
  <2> QED BY <2>1 DEF RowsInv, Shows
<1>13. CASE StoreFails(t)
  <2>1. /\ m.at = "store" /\ leaked' = leaked \cup {m.item}
        /\ UNCHANGED <<universes, rows, unlisted, quiet>>
    BY <1>1, <1>13 DEF StoreFails
  <2>2. CASE m.op = "patch"
    <3>1. /\ task'["main"].op = m.op
          /\ task'["main"].at \in {"create", "notify"}
      BY <1>1, <1>13, <2>2, StepMoves DEF AfterStore, Moves
    <3> QED BY <2>1, <2>2, <3>1 DEF RowsInv
  <2>3. CASE m.op # "patch"
    BY <1>1, <1>13, <2>1, <2>3, StepMoves, RowsGoOn
  <2> QED BY <2>2, <2>3
<1> QED
  BY <1>2, <1>3, <1>4, <1>5, <1>6, <1>7, <1>8, <1>9, <1>10, <1>11, <1>12, <1>13 DEF Step

LEMMA RowsClick ==
    ASSUME TypeInv, RowsInv, Click
    PROVE  RowsInv'
<1> SUFFICES ASSUME ~Overdrive PROVE RowsInv'
  BY DEF RowsInv
<1> DEFINE m == task["main"]
<1> USE MainThread DEF Begin, At, table, view, SaveLabels
<1>1. CASE UiAdd
  <2>1. /\ m.at = "idle" /\ task'["main"].at = "findbase" /\ task'["main"].op = "uiadd"
        /\ quiet' = TRUE /\ UNCHANGED <<universes, rows, leaked, unlisted>>
    BY <1>1, MessageMoves DEF UiAdd, Moves
  <2> QED BY <2>1 DEF RowsInv, Shows
<1>2. CASE UiRemove
  <2>1. /\ m.at = "idle" /\ task'["main"].at = "findselected" /\ task'["main"].op = "uiremove"
        /\ quiet' = TRUE /\ UNCHANGED <<universes, rows, leaked, unlisted>>
    BY <1>2, MessageMoves DEF UiRemove, Moves
  <2> QED BY <2>1 DEF RowsInv, Shows
<1>3. CASE UiSetValue
  <2>1. /\ m.at = "idle" /\ task'["main"].at = "setvalue" /\ task'["main"].op = "uiset"
        /\ UNCHANGED <<universes, rows, leaked, unlisted, quiet>>
    BY <1>3, MessageMoves DEF UiSetValue, Moves
  <2> QED BY <2>1 DEF RowsInv, Shows
<1>4. CASE UiSelect
  BY <1>4 DEF UiSelect, RowsInv, Shows
<1> QED BY <1>1, <1>2, <1>3, <1>4 DEF Click

LEMMA RowsMain ==
    ASSUME TypeInv, RowsInv, MainStep
    PROVE  RowsInv'
<1> SUFFICES ASSUME ~Overdrive PROVE RowsInv'
  BY DEF RowsInv
<1> DEFINE m == task["main"]
<1> USE MainThread DEF At, Item, table, view, SaveLabels
<1>1. CASE FindBase
  <2>1. /\ m.at = "findbase" /\ task'["main"].at = "clone" /\ task'["main"].op = m.op
        /\ UNCHANGED <<universes, rows, leaked, unlisted, quiet>>
    BY <1>1, MainMoves DEF FindBase, Moves
  <2> QED BY <2>1 DEF RowsInv, Shows
<1>2. CASE Clone
  <2>1. /\ m.at = "clone" /\ task'["main"].at = "store" /\ task'["main"].op = m.op
        /\ UNCHANGED <<universes, rows, leaked, unlisted, quiet>>
    BY <1>2, MainMoves DEF Clone, Moves
  <2> QED BY <2>1, SMTT(30) DEF RowsInv, Shows
<1>3. CASE AddRow
  <2>1. /\ m.at = "addrow" /\ task'["main"].at = "idle" /\ task'["main"].op = "none"
        /\ rows' = rows \cup {m.item} /\ quiet' = FALSE
        /\ UNCHANGED <<universes, leaked, unlisted>>
    BY <1>3, MainMoves DEF AddRow, Moves
  <2> QED BY <2>1 DEF RowsInv, Shows
<1>4. CASE FindSelected
  <2>1. /\ m.at = "findselected" /\ task'["main"].at \in {"removerow", "unquiet"}
        /\ task'["main"].op = m.op /\ UNCHANGED <<universes, rows, leaked, unlisted, quiet>>
    BY <1>4, MainMoves DEF FindSelected, Moves
  <2> QED BY <2>1 DEF RowsInv, Shows
<1>5. CASE RemoveRow
  <2>1. /\ m.at = "removerow" /\ task'["main"].at = "detach" /\ task'["main"].op = m.op
        /\ task'["main"].item = m.item
        /\ rows' = rows \ {m.item} /\ UNCHANGED <<universes, leaked, unlisted, quiet>>
    BY <1>5, MainMoves DEF RemoveRow, Moves
  <2> QED BY <2>1 DEF RowsInv, Shows
<1>6. CASE Detach
  <2>1. /\ m.at = "detach" /\ task'["main"].at = "delete" /\ task'["main"].op = m.op
        /\ task'["main"].item = m.item /\ UNCHANGED <<universes, rows, leaked, unlisted, quiet>>
    BY <1>6, MainMoves DEF Detach, Moves
  <2> QED BY <2>1 DEF RowsInv, Shows
<1>7. CASE Delete
  <2>1. /\ m.at = "delete" /\ task'["main"].op = m.op
        /\ task'["main"].at = (IF m.item \in universes THEN "notify" ELSE "unquiet")
        /\ universes' = universes \ {m.item} /\ UNCHANGED <<rows, leaked, unlisted, quiet>>
    BY <1>7, MainMoves DEF Delete, Free, Moves
  <2>2. Shows(universes)'
    BY <2>1 DEF RowsInv, Shows
  <2> QED BY <2>1, <2>2 DEF RowsInv, Shows
<1>8. CASE Unquiet
  <2>1. /\ m.at = "unquiet" /\ task'["main"].at = "idle" /\ task'["main"].op = "none"
        /\ quiet' = FALSE /\ UNCHANGED <<universes, rows, leaked, unlisted>>
    BY <1>8, MainMoves DEF Unquiet, Moves
  <2> QED BY <2>1 DEF RowsInv, Shows
<1>9. CASE SetValue
  <2>1. /\ m.at = "setvalue" /\ task'["main"].at = "idle" /\ task'["main"].op = "none"
        /\ UNCHANGED <<universes, rows, leaked, unlisted, quiet>>
    BY <1>9, MainMoves DEF SetValue, Moves
  <2> QED BY <2>1 DEF RowsInv, Shows
<1>10. CASE Serve \/ SaveKeys \/ SaveLookUp \/ SaveRead \/ SaveWrite
  <2>1. /\ m.at \in {"idle"} \cup SaveLabels /\ UNCHANGED <<universes, rows, leaked, unlisted, quiet>>
    BY <1>10 DEF Serve, SaveKeys, SaveLookUp, SaveRead, SaveWrite
  <2>2. task'["main"].at \in SaveLabels /\ task'["main"].op = m.op
    <3>1. ASSUME NEW op, NEW at \in SaveLabels, NEW item, NEW keys, NEW count,
                 Moves("main", m.op, at, item, keys, count)
          PROVE  task'["main"].at \in SaveLabels /\ task'["main"].op = m.op
      BY <3>1 DEF Moves
    <3>2. CASE Serve \/ SaveKeys \/ SaveRead \/ SaveWrite
      BY <3>1, <3>2, MainMoves
    <3>3. CASE SaveLookUp
      BY <3>3, MainMoves DEF Moves
    <3> QED BY <1>10, <3>2, <3>3
  <2> QED BY <2>1, <2>2 DEF RowsInv, Shows
<1>11. CASE SaveUnset
  <2>1. /\ m.at = "unset" /\ task'["main"].at = "idle" /\ task'["main"].op = "none"
        /\ UNCHANGED <<universes, rows, leaked, unlisted, quiet>>
    BY <1>11, MainMoves DEF SaveUnset, Moves
  <2> QED BY <2>1 DEF RowsInv, Shows
<1> QED
  BY <1>1, <1>2, <1>3, <1>4, <1>5, <1>6, <1>7, <1>8, <1>9, <1>10, <1>11 DEF MainStep

LEMMA RowsNext ==
    ASSUME TypeInv, RestInv, NewInv, RowsInv, [Next]_vars
    PROVE  RowsInv'
<1> USE MainThread
<1>1. CASE UNCHANGED vars
  BY <1>1 DEF RowsInv, Shows, vars, table, view
<1>2. CASE New
  <2>1. /\ ~running /\ task' = task /\ quiet' = quiet
        /\ unlisted' \/ rows' \ leaked' = universes'
    BY <1>2, NewParts
  <2>2. task'["main"].at = "idle" /\ task'["main"].op = "none" /\ ~quiet
    BY <2>1 DEF RestInv, Idle
  <2> QED BY <2>1, <2>2 DEF RowsInv, Shows
<1>3. CASE Stop
  <2>1. /\ task'["main"].at = "idle" /\ task'["main"].op = "none"
        /\ quiet' = FALSE /\ rows' = {} /\ universes' = {} /\ leaked' = {}
    BY <1>3 DEF Stop, Idle
  <2> QED BY <2>1 DEF RowsInv, Shows
<1> QED BY <1>1, <1>2, <1>3, RowsMessage, RowsStep, RowsClick, RowsMain DEF Next

------------------------------------------------------------------------------
(* The theorems                                                            *)

LEMMA IInvNext ==
    ASSUME IInv, [Next]_vars
    PROVE  IInv'
BY TypeNext, RestNext, NewNext, AttachNext, SaveNext, HoldNext, RowsNext DEF IInv

\* The inductive invariant; what a task is about to store is new to the table
\* and to every other task, with Overdrive too.
THEOREM Invariance == Spec => []IInv
BY InitHolds, IInvNext, PTL DEF Spec

\* With every message on the main thread, nothing is used after it was freed:
\* whatever a task looked up is still in the table when it comes to use it.
THEOREM NothingFreedIsUsed == Spec => []NoUseAfterFree
<1>1. IInv => NoUseAfterFree
  BY DEF IInv, HoldInv, NoUseAfterFree
<1> QED BY <1>1, Invariance, PTL

\* With every message on the main thread, the user interface shows the table
\* between messages, although it ignores what it is told while it adds or
\* removes a universe; and besides only universes that Max refused to store.
\* When Max could not list the table for the last refresh nothing is claimed.
THEOREM RowsAreTheTable == Spec => []RowsMatchTable
<1>1. IInv => RowsMatchTable
  BY MainThread DEF IInv, RowsInv, Shows, RowsMatchTable, AtRest
<1> QED BY <1>1, Invariance, PTL

\* Between messages the service listens to every universe of the table, with
\* Overdrive too: each that it does not listen to is being attached or removed.
THEOREM AllAreAttached == Spec => []EveryUniverseAttached
<1>1. IInv => EveryUniverseAttached
  <2> SUFFICES ASSUME IInv, AtRest, NEW n \in universes PROVE n \in attached
    BY DEF EveryUniverseAttached
  <2>1. ~InHand(n)
    BY DEF AtRest, InHand
  <2> QED BY <2>1 DEF IInv, AttachInv
<1> QED BY <1>1, Invariance, PTL

\* Between messages, with no save requested, the file holds the table, unless
\* the last save failed or could not list it, or a request was taken back,
\* which takes Overdrive.
THEOREM RestIsSaved == Spec => []SavedAtRest
<1>1. IInv => SavedAtRest
  <2> SUFFICES ASSUME IInv, AtRest, ~queued
               PROVE  file = Snapshot \/ unwritten \/ (Overdrive /\ dropped)
    BY DEF SavedAtRest
  <2>1. ~Changing /\ ~Saving /\ running
    BY MainThread DEF AtRest, Changing, Tells, Telling, Saving, SaveLabels
  <2> QED BY <2>1 DEF IInv, SaveInv, Saved
<1> QED BY <1>1, Invariance, PTL

LEMMA WholeStep ==
    ASSUME IInv, Next, ~Overdrive, running, file' # file
    PROVE  file' = IF unwritten' THEN WithoutUniverses ELSE Snapshot
<1> USE MainThread DEF At, saving
<1>1. SaveWrite
  <2>1. ~New /\ ~Stop
    BY DEF New, Stop
  <2>2. ~Click
    BY DEF Click, UiAdd, UiRemove, UiSetValue, UiSelect
  <2>3. \A t \in Threads : ~Message(t)
    BY DEF Message, ConfigAdd, ConfigClear, ConfigPatch, ConfigAttrSet
  <2>4. \A t \in Threads : ~Step(t)
    BY DEF Step, Create, Store, StoreFails, Attach, ClearDetach, ClearTable, NotifyService, NotifyUi,
           RefreshClear, RefreshKeys, RefreshAdd, Modified
  <2>5. MainStep
    BY <2>1, <2>2, <2>3, <2>4 DEF Next
  <2> QED
    BY <2>5 DEF MainStep, FindBase, Clone, AddRow, FindSelected, RemoveRow, Detach, Delete, Unquiet,
                SetValue, Serve, SaveKeys, SaveLookUp, SaveRead, SaveUnset
<1>2. /\ file' = draft
      /\ \/ task["main"].at = "savenext" /\ task["main"].keys = {} /\ unwritten' = FALSE
         \/ task["main"].at = "savebare" /\ unwritten' = TRUE
  BY <1>1 DEF SaveWrite, Write
<1>3. ~Changing /\ Saving
  BY <1>2 DEF Changing, Tells, Telling, Saving, SaveLabels
<1>4. SaveOnCourse
  BY <1>3 DEF IInv, SaveInv
<1>5. CASE task["main"].at = "savenext"
  <2>1. draft = Part(universes \ {}) /\ universes \ {} = universes
    BY <1>2, <1>4, <1>5 DEF SaveOnCourse
  <2> QED BY <1>2, <1>5, <2>1 DEF Part, Snapshot
<1>6. CASE task["main"].at = "savebare"
  <2>1. draft = Part({})
    BY <1>4, <1>6 DEF SaveOnCourse
  <2>2. Restrict(value, {}) = [n \in {} |-> Default]
    BY DEF Restrict
  <2> QED BY <1>2, <1>6, <2>1, <2>2 DEF Part, WithoutUniverses
<1> QED BY <1>2, <1>5, <1>6

\* With every message on the main thread, a save that is written is the table as
\* it is at that moment: nothing changes between the look-ups of a save, which
\* runs in one piece, and the file it writes; when Max could not list the table
\* nothing of it is written.
THEOREM TheWholeTableIsSaved == Spec => WholeTableSaved
<1>1. IInv /\ [Next]_vars => [~Overdrive /\ running /\ file' # file =>
                                file' = IF unwritten' THEN WithoutUniverses ELSE Snapshot]_vars
  BY WholeStep
<1> QED BY <1>1, Invariance, PTL DEF Spec, WholeTableSaved

=================================================================================
