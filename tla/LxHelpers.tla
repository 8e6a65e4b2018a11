-------------------------------- MODULE LxHelpers --------------------------------
(***************************************************************************)
(* lx_helpers.cpp: the increment of a label that ends in a number, and the *)
(* neighbours of an entry of a hash table sorted by an attribute.          *)
(*                                                                         *)
(* A label is its head, a sequence of pieces of text, and the number it    *)
(* ends in: how many digits are written (0 for none) and their value.  A   *)
(* table is the function from its keys to the attribute it is sorted by.   *)
(* The order of entries with the same attribute is not specified, so a     *)
(* neighbour is any of a set.                                              *)
(***************************************************************************)
EXTENDS Integers, SequencesExt

CONSTANTS
    LongMax,      \* the largest value of a long
    NoKey         \* the NULL symbol

ASSUME LongAssumption == LongMax \in Nat \ {0}

Digits(n) == CHOOSE d \in 1 .. 20 : n < 10^d /\ (d = 1 \/ 10^(d - 1) <= n)

\* std::stol throws when the digits are beyond a long, and when there are none.
Throws(label) == label.width = 0 \/ label.value > LongMax

\* Seeded fault: a label without a number is not refused.
Refused_Never(label) == FALSE

Refused(label) == label.width = 0

\* The sum of value and count, which wraps to a negative number when it is
\* beyond a long: its sign is text before the digits the next time.
SymbolIncrement(label, count) ==
    LET sum == label.value + count
        wraps == sum > LongMax
        value == IF wraps THEN 2 * (LongMax + 1) - sum ELSE sum
        written == Digits(value) + (IF wraps THEN 1 ELSE 0)
        padding == IF label.width > written THEN label.width - written ELSE 0
    IN IF wraps
       THEN [head |-> label.head \o [i \in 1 .. padding |-> "0"] \o <<"-">>,
             width |-> Digits(value), value |-> value]
       ELSE [head |-> label.head, width |-> Digits(value) + padding, value |-> value]

\* lx_helpers_hashtab_get_sorted_by_attribute
Sorted(table) ==
    {s \in SetToSeqs(DOMAIN table) :
        \A i, j \in 1 .. Len(s) : i < j => table[s[i]] <= table[s[j]]}

\* Seeded fault: the last is looked for at the wrong end.
GetLast_First(table) == {IF s = <<>> THEN NoKey ELSE s[1] : s \in Sorted(table)}

GetFirst(table) == {IF s = <<>> THEN NoKey ELSE s[1] : s \in Sorted(table)}
GetLast(table) == {IF s = <<>> THEN NoKey ELSE s[Len(s)] : s \in Sorted(table)}

Index(s, key) == CHOOSE i \in 1 .. Len(s) : s[i] = key

\* Seeded fault: the last entry is followed by the first.
GetNext_Wraps(table, key) ==
    IF key \notin DOMAIN table THEN {NoKey}
    ELSE {LET i == Index(s, key) IN IF i = Len(s) THEN s[1] ELSE s[i + 1] : s \in Sorted(table)}

\* There is nothing after the last entry, and after a key that is not there.
GetNext(table, key) ==
    IF key \notin DOMAIN table THEN {NoKey}
    ELSE {LET i == Index(s, key) IN IF i = Len(s) THEN NoKey ELSE s[i + 1] : s \in Sorted(table)}

GetPrev(table, key) ==
    IF key \notin DOMAIN table THEN {NoKey}
    ELSE {LET i == Index(s, key) IN IF i = 1 THEN NoKey ELSE s[i - 1] : s \in Sorted(table)}
==================================================================================
