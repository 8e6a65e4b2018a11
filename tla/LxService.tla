-------------------------------- MODULE LxService --------------------------------
(***************************************************************************)
(* The LXMax service's table of universes, its preferences file and the    *)
(* editors that work on them: lx.service.cpp, lx_service.c, the messages   *)
(* of lx.config and one lx.config.ui.                                      *)
(*                                                                         *)
(* Max runs the user interface and the queued functions (qelem) on the     *)
(* main thread.  With Overdrive a message to lx.config may also arrive on  *)
(* the scheduler thread, and nothing in the service locks the table for    *)
(* longer than a single look-up.  A task is cut wherever it calls Max or   *)
(* touches shared state.  Max may fail to store a universe in a hash       *)
(* table, to list the keys of one and to write a file; the program goes on *)
(* without a word.                                                         *)
(*                                                                         *)
(* A universe is its unique name; all its attributes are one value, and so *)
(* are the service's own.  A universe that the table lets go is freed at   *)
(* once.  The names of a session are forgotten when it stops: the next one *)
(* reuses them for the universes it loads.                                 *)
(***************************************************************************)
EXTENDS Integers, FiniteSets, Functions

CONSTANTS
    Names,        \* the names symbol_unique returns in a session
    Values,       \* what the attributes of a universe, or of the service, hold
    Default,      \* what they hold at first
    NoName,       \* the NULL symbol
    NoFile,       \* there are no preferences
    Overdrive,    \* whether messages arrive on the scheduler thread too
    MaxFails,     \* whether Max may fail to store, to list and to write
    PatchMax,     \* bound: the universes of one quick patch
    MaxCalls      \* bound: the edits and messages

ASSUME ServiceAssumption ==
    /\ IsFiniteSet(Names) /\ NoName \notin Names
    /\ Default \in Values
    /\ Overdrive \in BOOLEAN /\ MaxFails \in BOOLEAN
    /\ PatchMax \in Nat /\ MaxCalls \in Nat

Threads == IF Overdrive THEN {"main", "scheduler"} ELSE {"main"}

VARIABLES
    running,      \* the service exists and its initial load is complete
    universes,    \* the keys of the hash table
    freed,        \* the universes that were freed in this session
    leaked,       \* those that the hash table refused, which nobody frees
    value,        \* the attributes of each universe
    global,       \* the attributes of the service
    attached,     \* the universes that notify the service
    queued,       \* qelem_save is set
    dropped,      \* qelem_unset took back a request nobody served (history)
    file,         \* the preferences on disk
    unwritten,    \* the last save failed, or left the universes out (history)
    draft,        \* the dictionary that is being filled
    rows,         \* the rows of the lx.config.ui
    selected,     \* its selected_row
    quiet,        \* its is_disable_external_refresh
    unlisted,     \* its last refresh could not list the universes (history)
    task,         \* what each thread is doing
    strayed,      \* a thread has used a universe that was freed (history)
    calls         \* the edits and messages so far

table == <<universes, freed, leaked, attached>>
attributes == <<value, global>>
saving == <<queued, dropped, file, unwritten, draft>>
view == <<rows, selected, quiet, unlisted>>
vars == <<running, table, attributes, saving, view, task, strayed, calls>>

\* What the file should hold, and what it holds when they could not be listed.
Snapshot == [global |-> global, universes |-> Restrict(value, universes)]
WithoutUniverses == [global |-> global, universes |-> [n \in {} |-> Default]]

\* What Max may do besides what it is asked to.
Chance == IF MaxFails THEN BOOLEAN ELSE {TRUE}

Idle == [op |-> "none", at |-> "idle", item |-> NoName, keys |-> {}, count |-> 0]

At(t, label) == running /\ task[t].at = label
Item(t) == task[t].item
Goto(t, label) == task' = [task EXCEPT ![t].at = label]
GotoWith(t, label, item) == task' = [task EXCEPT ![t].at = label, ![t].item = item]
Done(t) == task' = [task EXCEPT ![t] = Idle]

\* A dereference of the universe a task holds.
Use(t) == strayed' = (strayed \/ Item(t) \in freed)

Fresh == Names \ (universes \cup freed \cup leaked \cup {task[t].item : t \in Threads})

\* Bound: a message that makes universes is only sent while there are names
\* left for it and for the tasks under way.
Spare(count) ==
    LET pending == FoldFunction(+, 0, [t \in Threads |-> task[t].count])
    IN Cardinality(Fresh) >= count + pending

------------------------------------------------------------------------------
(* Starting and stopping                                                   *)

\* Before the service exists; a file may be left of an earlier session.
Init ==
    /\ running = FALSE
    /\ universes = {} /\ freed = {} /\ leaked = {} /\ attached = {}
    /\ value = [n \in Names |-> Default] /\ global = Default
    /\ queued = FALSE /\ dropped = FALSE
    /\ file = NoFile /\ unwritten = FALSE /\ draft = NoFile
    /\ rows = {} /\ selected = NoName /\ quiet = FALSE /\ unlisted = FALSE
    /\ task = [t \in Threads |-> Idle]
    /\ strayed = FALSE /\ calls = 0

\* The universe and the attributes of lx_service_preferences_clear.
FirstPreferences(n) == [global |-> Default, universes |-> [m \in {n} |-> Default]]

\* lx_service_preferences_clear and _load: the file's universes replace the
\* default one; when it cannot be read the default one stays.
Loaded(n, readable) == IF file # NoFile /\ readable THEN file ELSE FirstPreferences(n)

\* dictionary_write, whose result lx_service_new and lx_service_qelem_save
\* ignore.  A failure leaves the file as it is.
Write(preferences, complete) ==
    \/ file' = preferences /\ unwritten' = ~complete
    \/ MaxFails /\ unwritten' = TRUE /\ UNCHANGED file

\* lx_service_new, which runs before there is anybody to disturb it: it loads,
\* saves what it loaded, and takes requests to save from then on.  The
\* lx.config.ui is opened.  A universe that is refused is lost, from the file
\* too; when the table cannot be listed all are lost from the file.
New ==
    \E n \in Names, readable \in BOOLEAN, isListed \in Chance, isShown \in Chance :
        LET loaded == Loaded(n, readable)
            all == DOMAIN loaded.universes
        IN /\ ~running /\ running' = TRUE
           /\ universes' \in IF MaxFails THEN SUBSET all ELSE {all}
           /\ attached' = universes' /\ leaked' = all \ universes'
           /\ rows' = (IF isShown THEN universes' ELSE {}) /\ unlisted' = ~isShown
           /\ value' = [m \in Names |-> IF m \in universes' THEN loaded.universes[m] ELSE Default]
           /\ global' = loaded.global
           /\ Write(IF isListed THEN Snapshot' ELSE WithoutUniverses', isListed)
           /\ UNCHANGED <<freed, queued, dropped, draft, selected, quiet, task, strayed, calls>>

\* lx_onquit and lx_service_free, or the end of the program at any moment:
\* nothing is saved, a save under way is lost.
Stop ==
    /\ running /\ running' = FALSE
    /\ universes' = {} /\ freed' = {} /\ leaked' = {} /\ attached' = {}
    /\ value' = [n \in Names |-> Default] /\ global' = Default
    /\ queued' = FALSE /\ dropped' = FALSE /\ unwritten' = FALSE /\ draft' = NoFile
    /\ rows' = {} /\ selected' = NoName /\ quiet' = FALSE /\ unlisted' = FALSE
    /\ task' = [t \in Threads |-> Idle]
    /\ UNCHANGED <<file, strayed, calls>>

------------------------------------------------------------------------------
(* The messages                                                            *)

Begin(t, op, label, item, count) ==
    /\ At(t, "idle") /\ calls < MaxCalls
    /\ count > 0 => Spare(count)
    /\ calls' = calls + 1
    /\ task' = [task EXCEPT ![t] = [op |-> op, at |-> label, item |-> item,
                                    keys |-> {}, count |-> count]]
    /\ UNCHANGED running

\* lx_config_add_universe
ConfigAdd(t) ==
    /\ Begin(t, "add", "create", NoName, 1)
    /\ UNCHANGED <<table, attributes, saving, view, strayed>>

\* lx_config_clear_universes
ConfigClear(t) ==
    /\ Begin(t, "clear", "clear", NoName, 0)
    /\ UNCHANGED <<table, attributes, saving, view, strayed>>

\* lx_config_quick_patch
ConfigPatch(t) ==
    \E count \in 1 .. PatchMax, isClear \in BOOLEAN :
        /\ Begin(t, "patch", IF isClear THEN "clear" ELSE "create", NoName, count)
        /\ UNCHANGED <<table, attributes, saving, view, strayed>>

\* lx_config_attr_set: an attribute of the service, which notifies itself.
ConfigAttrSet(t) ==
    /\ Begin(t, "set", "modified", NoName, 0)
    /\ global' \in Values
    /\ UNCHANGED <<table, value, saving, view, strayed>>

\* lx_config_ui_add_universe
UiAdd ==
    /\ Begin("main", "uiadd", "findbase", NoName, 1)
    /\ quiet' = TRUE
    /\ UNCHANGED <<table, attributes, saving, rows, selected, unlisted, strayed>>

\* lx_config_ui_remove_universe
UiRemove ==
    /\ Begin("main", "uiremove", "findselected", NoName, 0)
    /\ quiet' = TRUE
    /\ UNCHANGED <<table, attributes, saving, rows, selected, unlisted, strayed>>

\* lx_config_ui_set_value
UiSetValue ==
    \E row \in rows \cap universes :
        /\ Begin("main", "uiset", "setvalue", row, 0)
        /\ UNCHANGED <<table, attributes, saving, view, strayed>>

\* lx_config_ui_selected_row
UiSelect ==
    /\ At("main", "idle")
    /\ selected' \in rows \cup {NoName}
    /\ UNCHANGED <<running, table, attributes, saving, rows, quiet, unlisted, task, strayed, calls>>

------------------------------------------------------------------------------
(* Adding a universe                                                       *)

\* lx_universe_config_new and, in a quick patch, the attributes it sets
Create(t) ==
    /\ At(t, "create")
    /\ \E n \in Fresh, v \in IF task[t].op = "add" THEN {Default} ELSE Values :
          /\ value' = [value EXCEPT ![n] = v]
          /\ task' = [task EXCEPT ![t].at = "store", ![t].item = n, ![t].count = @ - 1]
    /\ UNCHANGED <<running, table, global, saving, view, strayed, calls>>

\* The base of a new universe is the selected one or, when that is gone, the
\* last one, if there is one that can be listed.
FindBase ==
    /\ At("main", "findbase")
    /\ \E base \in universes \cup {NoName} :
          /\ selected \in universes => base = selected
          /\ base = NoName => universes = {} \/ MaxFails
          /\ GotoWith("main", "clone", base)
    /\ UNCHANGED <<running, table, attributes, saving, view, strayed, calls>>

\* lx_universe_config_clone and _increment
Clone ==
    /\ At("main", "clone")
    /\ Use("main")
    /\ \E n \in Fresh, v \in IF Item("main") = NoName THEN {Default} ELSE Values :
          /\ value' = [value EXCEPT ![n] = v]
          /\ task' = [task EXCEPT !["main"].at = "store", !["main"].item = n, !["main"].count = 0]
    /\ UNCHANGED <<running, table, global, saving, view, calls>>

Store(t) ==
    /\ At(t, "store")
    /\ universes' = universes \cup {Item(t)}
    /\ Goto(t, "attach")
    /\ UNCHANGED <<running, freed, leaked, attached, attributes, saving, view, strayed, calls>>

\* Only a quick patch makes several universes before it tells of them.
AfterStore(t) == IF task[t].op = "patch" /\ task[t].count > 0 THEN "create" ELSE "notify"

\* Seeded fault: the universes of a quick patch are not listened to.
Attach_UiOnly(t) ==
    /\ At(t, "attach")
    /\ attached' = IF task[t].op = "uiadd" THEN attached \cup {Item(t)} ELSE attached
    /\ Goto(t, AfterStore(t))
    /\ UNCHANGED <<running, universes, freed, leaked, attributes, saving, view, strayed, calls>>

\* object_attach finds the universe by its name, unless it was freed.
Attach(t) ==
    /\ At(t, "attach")
    /\ attached' = attached \cup ({Item(t)} \ freed)
    /\ Goto(t, AfterStore(t))
    /\ UNCHANGED <<running, universes, freed, leaked, attributes, saving, view, strayed, calls>>

\* Seeded fault: the flag that suppresses the refresh is not reset.
AddRow_StaysQuiet ==
    /\ At("main", "addrow")
    /\ rows' = rows \cup {Item("main")}
    /\ selected' \in {selected, Item("main")}
    /\ Done("main")
    /\ UNCHANGED <<running, table, attributes, saving, quiet, unlisted, strayed, calls>>

\* The user interface adds its row itself.
AddRow ==
    /\ At("main", "addrow")
    /\ rows' = rows \cup {Item("main")}
    /\ selected' \in {selected, Item("main")}
    /\ quiet' = FALSE
    /\ Done("main")
    /\ UNCHANGED <<running, table, attributes, saving, unlisted, strayed, calls>>

------------------------------------------------------------------------------
(* Removing universes                                                      *)

\* A freed object is detached from whoever listens to it.
Free(gone) ==
    /\ universes' = universes \ gone
    /\ freed' = freed \cup gone
    /\ attached' = attached \ gone
    /\ UNCHANGED leaked

\* A selected row that has left the table is left alone.
FindSelected ==
    /\ At("main", "findselected")
    /\ IF selected \in universes THEN GotoWith("main", "removerow", selected)
                                 ELSE Goto("main", "unquiet")
    /\ UNCHANGED <<running, table, attributes, saving, view, strayed, calls>>

\* The selection moves to the next row, the last one to none.
RemoveRow ==
    /\ At("main", "removerow")
    /\ Use("main")
    /\ selected' \in (universes \ {Item("main")}) \cup {NoName}
    /\ rows' = rows \ {Item("main")}
    /\ Goto("main", "detach")
    /\ UNCHANGED <<running, table, attributes, saving, quiet, unlisted, calls>>

\* Seeded fault: the universe is deleted before the service detaches from it.
Detach_AfterDelete ==
    /\ At("main", "detach")
    /\ Free({Item("main")} \cap universes)
    /\ Use("main")
    /\ Goto("main", "delete")
    /\ UNCHANGED <<running, attributes, saving, view, calls>>

\* lx_service_universes_remove
Detach ==
    /\ At("main", "detach")
    /\ Use("main")
    /\ attached' = attached \ {Item("main")}
    /\ Goto("main", "delete")
    /\ UNCHANGED <<running, universes, freed, leaked, attributes, saving, view, calls>>

Delete ==
    /\ At("main", "delete")
    /\ Use("main")
    /\ Free({Item("main")} \cap universes)
    /\ Goto("main", IF Item("main") \in universes THEN "notify" ELSE "unquiet")
    /\ UNCHANGED <<running, attributes, saving, view, calls>>

Unquiet ==
    /\ At("main", "unquiet")
    /\ quiet' = FALSE
    /\ Done("main")
    /\ UNCHANGED <<running, table, attributes, saving, rows, selected, unlisted, strayed, calls>>

\* lx_service_universes_clear
ClearDetach(t) ==
    /\ At(t, "clear")
    /\ attached' = attached \ universes
    /\ Goto(t, "cleartable")
    /\ UNCHANGED <<running, universes, freed, leaked, attributes, saving, view, strayed, calls>>

ClearTable(t) ==
    /\ At(t, "cleartable")
    /\ Free(universes)
    /\ Goto(t, "notify")
    /\ UNCHANGED <<running, attributes, saving, view, strayed, calls>>

------------------------------------------------------------------------------
(* Notifications                                                           *)

\* Where a task goes on after it has told everybody.
After(t) ==
    CASE task[t].op = "uiadd" -> "addrow"
      [] task[t].op = "uiremove" -> "unquiet"
      [] task[t].op = "patch" /\ task[t].count > 0 -> "create"
      [] OTHER -> "idle"

GoOn(t) ==
    task' = [task EXCEPT ![t] = IF After(t) = "idle" THEN Idle
                                ELSE [@ EXCEPT !.at = After(t), !.keys = {}]]

\* hashtab_store fails: the universe is neither freed nor attached, and nobody
\* is told of it, except by a quick patch at its end; the user interface adds a
\* row for it all the same.
StoreFails(t) ==
    /\ At(t, "store") /\ MaxFails
    /\ leaked' = leaked \cup {Item(t)}
    /\ IF task[t].op = "patch" THEN Goto(t, AfterStore(t)) ELSE GoOn(t)
    /\ UNCHANGED <<running, universes, freed, attached, attributes, saving, view, strayed, calls>>

\* object_notify reaches lx_service_notify ...
NotifyService(t) ==
    /\ At(t, "notify")
    /\ queued' = TRUE
    /\ Goto(t, "notifyui")
    /\ UNCHANGED <<running, table, attributes, dropped, file, unwritten, draft, view, strayed, calls>>

\* ... and lx_config_ui_notify.
NotifyUi(t) ==
    /\ At(t, "notifyui")
    /\ IF quiet THEN GoOn(t) ELSE Goto(t, "refresh")
    /\ UNCHANGED <<running, table, attributes, saving, view, strayed, calls>>

\* lx_config_ui_refresh_data
RefreshClear(t) ==
    /\ At(t, "refresh")
    /\ rows' = {}
    /\ Goto(t, "getkeys")
    /\ UNCHANGED <<running, table, attributes, saving, selected, quiet, unlisted, strayed, calls>>

RefreshKeys(t) ==
    /\ At(t, "getkeys")
    /\ \/ /\ task' = [task EXCEPT ![t].at = "addrows", ![t].keys = universes]
          /\ unlisted' = FALSE
       \/ MaxFails /\ GoOn(t) /\ unlisted' = TRUE
    /\ UNCHANGED <<running, table, attributes, saving, rows, selected, quiet, strayed, calls>>

RefreshAdd(t) ==
    /\ At(t, "addrows")
    /\ rows' = rows \cup task[t].keys
    /\ GoOn(t)
    /\ UNCHANGED <<running, table, attributes, saving, selected, quiet, unlisted, strayed, calls>>

\* Seeded fault: the service does not tell itself.
Modified_Silent(t) ==
    /\ At(t, "modified")
    /\ Done(t)
    /\ UNCHANGED <<running, table, attributes, saving, view, strayed, calls>>

\* A changed attribute of the service.
Modified(t) ==
    /\ At(t, "modified")
    /\ queued' = TRUE
    /\ Done(t)
    /\ UNCHANGED <<running, table, attributes, dropped, file, unwritten, draft, view, strayed, calls>>

\* A changed attribute of a universe, which tells the service if it listens.
SetValue ==
    /\ At("main", "setvalue")
    /\ Use("main")
    /\ \E v \in Values : value' = [value EXCEPT ![Item("main")] = v]
    /\ queued' = (queued \/ Item("main") \in attached)
    /\ Done("main")
    /\ UNCHANGED <<running, table, global, dropped, file, unwritten, draft, view, calls>>

------------------------------------------------------------------------------
(* Saving                                                                  *)

\* Max clears the request and calls lx_service_qelem_save.
Serve ==
    /\ At("main", "idle") /\ queued
    /\ queued' = FALSE
    /\ draft' = WithoutUniverses
    /\ GotoWith("main", "savekeys", NoName)
    /\ UNCHANGED <<running, table, attributes, dropped, file, unwritten, view, strayed, calls>>

\* Without the keys the file is written without universes.
SaveKeys ==
    /\ At("main", "savekeys")
    /\ \/ task' = [task EXCEPT !["main"].at = "savenext", !["main"].keys = universes]
       \/ MaxFails /\ Goto("main", "savebare")
    /\ UNCHANGED <<running, table, attributes, saving, view, strayed, calls>>

\* A key that has left the table is skipped.
SaveLookUp ==
    /\ At("main", "savenext")
    /\ \E n \in task["main"].keys :
          task' = [task EXCEPT !["main"].at = IF n \in universes THEN "saveread" ELSE @,
                               !["main"].item = n, !["main"].keys = @ \ {n}]
    /\ UNCHANGED <<running, table, attributes, saving, view, strayed, calls>>

SaveRead ==
    /\ At("main", "saveread")
    /\ Use("main")
    /\ draft' = [draft EXCEPT !.universes =
                    [n \in DOMAIN @ \cup {Item("main")} |->
                        IF n = Item("main") THEN value[n] ELSE @[n]]]
    /\ GotoWith("main", "savenext", NoName)
    /\ UNCHANGED <<running, table, attributes, queued, dropped, file, unwritten, view, calls>>

\* Seeded fault: the file is written before every universe is in it.
SaveWrite_Early ==
    /\ At("main", "savenext")
    /\ Write(draft, TRUE) /\ draft' = NoFile
    /\ GotoWith("main", "unset", NoName)
    /\ UNCHANGED <<running, table, attributes, queued, dropped, view, strayed, calls>>

SaveWrite ==
    /\ \/ At("main", "savenext") /\ task["main"].keys = {}
       \/ At("main", "savebare")
    /\ Write(draft, At("main", "savenext")) /\ draft' = NoFile
    /\ GotoWith("main", "unset", NoName)
    /\ UNCHANGED <<running, table, attributes, queued, dropped, view, strayed, calls>>

\* qelem_unset, which takes back what was requested during the save.
SaveUnset ==
    /\ At("main", "unset")
    /\ dropped' = queued
    /\ queued' = FALSE
    /\ Done("main")
    /\ UNCHANGED <<running, table, attributes, file, unwritten, draft, view, strayed, calls>>

------------------------------------------------------------------------------

Message(t) == ConfigAdd(t) \/ ConfigClear(t) \/ ConfigPatch(t) \/ ConfigAttrSet(t)

Click == UiAdd \/ UiRemove \/ UiSetValue \/ UiSelect

\* The steps that a task under way takes.
Step(t) ==
    \/ Create(t) \/ Store(t) \/ StoreFails(t) \/ Attach(t) \/ ClearDetach(t) \/ ClearTable(t)
    \/ NotifyService(t) \/ NotifyUi(t) \/ RefreshClear(t) \/ RefreshKeys(t)
    \/ RefreshAdd(t) \/ Modified(t)

MainStep ==
    \/ FindBase \/ Clone \/ AddRow \/ FindSelected \/ RemoveRow \/ Detach \/ Delete \/ Unquiet \/ SetValue
    \/ Serve \/ SaveKeys \/ SaveLookUp \/ SaveRead \/ SaveWrite \/ SaveUnset

Next == New \/ Stop \/ Click \/ MainStep \/ \E t \in Threads : Message(t) \/ Step(t)

Spec == Init /\ [][Next]_vars

\* Max serves its queues and lets every thread run.
FairSpec == Spec /\ WF_vars(MainStep \/ Step("main")) /\ \A t \in Threads : WF_vars(Step(t))

------------------------------------------------------------------------------
(* Properties                                                              *)

AtRest == running /\ \A t \in Threads : task[t].at = "idle"

\* Once every message is dealt with and no save is waiting, the preferences
\* hold the table, unless the last save failed or Max could not list the
\* universes for it (which nobody retries), or qelem_unset at the end of a save
\* took back the request of a message that the scheduler thread handled
\* meanwhile.
SavedAtRest ==
    AtRest /\ ~queued => file = Snapshot \/ unwritten \/ (Overdrive /\ dropped)

\* The service listens to every universe of the table, whatever threads added
\* and cleared at the same time and whatever Max refused; a later edit of one
\* it does not listen to would not be saved.
EveryUniverseAttached == AtRest => universes \subseteq attached

\* While all messages arrive on the main thread, no task uses a universe that
\* was freed between its look-up and the use.
NoUseAfterFree == Overdrive \/ ~strayed

\* While all messages arrive on the main thread, the rows of the user
\* interface are the table, although it ignores the changes it makes itself;
\* and besides only universes that Max refused to store.  When Max could not
\* list the universes at the last refresh, the rows say nothing of the table.
RowsMatchTable == ~Overdrive /\ AtRest => (rows \ leaked = universes) \/ unlisted

\* While all messages arrive on the main thread, what is written is the table
\* as it is at that moment, never a mixture of two; or none of it, when Max
\* could not list it.
WholeTableSaved ==
    [][~Overdrive /\ running /\ file' # file =>
          file' = IF unwritten' THEN WithoutUniverses ELSE Snapshot]_vars

\* A change is saved in the end, unless the program stops first, the last save
\* failed or the request was taken back.
SavedInTheEnd ==
    running /\ file # Snapshot ~>
        file = Snapshot \/ ~running \/ unwritten \/ dropped
=================================================================================
