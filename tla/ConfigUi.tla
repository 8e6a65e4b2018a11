--------------------------------- MODULE ConfigUi ---------------------------------
(***************************************************************************)
(* One lx.config.ui (lx.config.ui.c) and the numbers and labels it gives   *)
(* to the universes it adds.  LxService has the same handlers with their   *)
(* notifications, threads and saves, and leaves open which universe is     *)
(* copied and which row is selected next; here every handler is one step   *)
(* of the main thread and that choice is what the helpers make it.         *)
(*                                                                         *)
(* The rows are the universes of the table (RowsMatchTable of LxService).  *)
(***************************************************************************)
EXTENDS LxHelpers, FiniteSets

CONSTANTS
    Names,          \* the names symbol_unique returns
    InternalMax,    \* LX_UNIVERSE_MAX; LX_UNIVERSE_MIN is 0
    TypedLabels,    \* the labels a user types
    TypedNumbers,   \* the internal universes a user types
    MaxEdits        \* bound: the edits of labels, and of numbers

ASSUME UiAssumption ==
    /\ NoKey \notin Names
    /\ InternalMax \in Nat \ {0}
    /\ \A l \in TypedLabels : l.width \in Nat /\ l.value \in Nat
    /\ TypedNumbers \subseteq 0 .. InternalMax
    /\ MaxEdits \in Nat

VARIABLES
    number,         \* internal_universe of each universe of the table
    label,          \* its label
    selected,       \* selected_row
    used,           \* the names that were given away
    edits,          \* the edits of labels and of numbers so far
    typed,          \* the greatest number a label was given by the user (history)
    added,          \* how many universes were added (history)
    appended,       \* each universe got the number after the last one's (history)
    dead            \* an exception has ended the process

vars == <<number, label, selected, used, edits, typed, added, appended, dead>>

Universes == DOMAIN number
Clip(n) == IF n > InternalMax THEN InternalMax ELSE n
FirstLabel == [head |-> <<"Universe ">>, width |-> 3, value |-> 1]

With(f, n, x) == [m \in DOMAIN f \cup {n} |-> IF m = n THEN x ELSE f[m]]
Without(f, n) == [m \in DOMAIN f \ {n} |-> f[m]]

\* The service starts with its default universe.
Init ==
    /\ \E n \in Names :
          /\ number = [m \in {n} |-> 1] /\ label = [m \in {n} |-> FirstLabel]
          /\ used = {n}
    /\ selected = NoKey
    /\ edits = 0 /\ typed = 1 /\ added = 0
    /\ appended = TRUE /\ dead = FALSE

\* What is copied: the selected universe or, when none is selected or the
\* selected one is gone, the last one.
Bases == IF selected \in Universes THEN {selected} ELSE GetLast(number)

IncrementedLabel(base) ==
    IF Refused(label[base]) THEN label[base] ELSE SymbolIncrement(label[base], 1)

NextNumber(base) == Clip(number[base] + 1)

\* lx_config_ui_add_universe; the view may select the new row.
AddUniverse ==
    \E n \in Names \ used, base \in Bases :
        /\ used' = used \cup {n}
        /\ added' = added + 1
        /\ number' = With(number, n, IF base = NoKey THEN 1 ELSE NextNumber(base))
        /\ label' = With(label, n, IF base = NoKey THEN FirstLabel ELSE IncrementedLabel(base))
        /\ dead' = (base # NoKey /\ ~Refused(label[base]) /\ Throws(label[base]))
        /\ appended' = (appended /\ (base = NoKey \/
                       (base \in GetLast(number) /\ number[base] < InternalMax)))
        /\ selected' \in {selected, n}
        /\ UNCHANGED <<edits, typed>>

\* Seeded fault: the next row is looked for when the universe is gone.
RemoveUniverse_First ==
    /\ selected \in Universes
    /\ number' = Without(number, selected) /\ label' = Without(label, selected)
    /\ selected' \in GetNext(number', selected)
    /\ UNCHANGED <<used, edits, typed, added, appended, dead>>

\* lx_config_ui_remove_universe
RemoveUniverse ==
    /\ selected \in Universes
    /\ selected' \in GetNext(number, selected)
    /\ number' = Without(number, selected) /\ label' = Without(label, selected)
    /\ UNCHANGED <<used, edits, typed, added, appended, dead>>

\* lx_config_ui_set_value, for the columns that matter here.
SetLabel ==
    \E n \in Universes, l \in TypedLabels :
        /\ edits < MaxEdits /\ edits' = edits + 1
        /\ label' = [label EXCEPT ![n] = l]
        /\ typed' = IF l.value > typed THEN l.value ELSE typed
        /\ UNCHANGED <<number, selected, used, added, appended, dead>>

SetInternal ==
    \E n \in Universes, i \in TypedNumbers :
        /\ edits < MaxEdits /\ edits' = edits + 1
        /\ number' = [number EXCEPT ![n] = i]
        /\ appended' = FALSE
        /\ UNCHANGED <<label, selected, used, typed, added, dead>>

\* lx_config_ui_selected_row
SelectRow ==
    /\ selected' \in Universes \cup {NoKey}
    /\ UNCHANGED <<number, label, used, edits, typed, added, appended, dead>>

\* An lx.config adds its universe as it comes, or clears the table.
ConfigAdd ==
    \E n \in Names \ used :
        /\ used' = used \cup {n}
        /\ number' = With(number, n, 1) /\ label' = With(label, n, FirstLabel)
        /\ appended' = (appended /\ Universes = {})
        /\ UNCHANGED <<selected, edits, typed, added, dead>>

ConfigClear ==
    /\ number' = [n \in {} |-> 0] /\ label' = [n \in {} |-> FirstLabel]
    /\ UNCHANGED <<selected, used, edits, typed, added, appended, dead>>

Ended == dead /\ UNCHANGED vars

Next ==
    \/ /\ ~dead
       /\ \/ AddUniverse \/ RemoveUniverse \/ SetLabel \/ SetInternal \/ SelectRow
          \/ ConfigAdd \/ ConfigClear
    \/ Ended

Spec == Init /\ [][Next]_vars

------------------------------------------------------------------------------
(* Properties                                                              *)

\* As long as universes are only added in the user interface, with the last
\* row selected, none, or one that is gone, and never after one that has
\* reached InternalMax, no two of them have the same internal universe: they
\* would share their channels.  Not covered is what does make duplicates: a
\* number that is clipped at InternalMax, one that is typed in, a copy of an
\* earlier row and a universe that an lx.config adds to others.
NumbersDistinct ==
    appended => \A m, n \in Universes : number[m] = number[n] => m = n

\* An exception ends the process only once a label was given a number that,
\* counted up as often as universes were added, is beyond a long.
CrashNeedsHugeLabel == dead => typed + added > LongMax

\* Removing again and again goes down the rows: the selection moves to a row
\* with the least number that is not below the removed one, and is lost only
\* at the end.
RemoveGoesDown ==
    [][selected' # selected /\ selected \in Universes /\ Universes' = Universes \ {selected} =>
          LET below == {n \in Universes' : number[n] >= number[selected]}
          IN IF selected' = NoKey THEN \A n \in below : number[n] = number[selected]
             ELSE /\ selected' \in below
                  /\ \A n \in below : number[n] > number[selected] => number[selected'] <= number[n]
      ]_vars

\* The neighbours are what a reference definition says: next is the entry of
\* the least greater number, prev leads back, and the ends are the extremes.
NeighboursAgree ==
    (\A m, n \in Universes : number[m] = number[n] => m = n) =>
        /\ \A k \in Universes :
              LET greater == {n \in Universes : number[n] > number[k]}
              IN GetNext(number, k) =
                    IF greater = {} THEN {NoKey}
                    ELSE {n \in greater : \A m \in greater : number[n] <= number[m]}
        /\ \A k, n \in Universes : n \in GetNext(number, k) <=> k \in GetPrev(number, n)
        /\ \A k \in Universes :
              /\ k \in GetFirst(number) <=> GetPrev(number, k) = {NoKey}
              /\ k \in GetLast(number) <=> GetNext(number, k) = {NoKey}
===================================================================================
