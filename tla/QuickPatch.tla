------------------------------- MODULE QuickPatch -------------------------------
(***************************************************************************)
(* lx_config_quick_patch and lx_service_universes_quick_patch: a message   *)
(* of eight arguments that makes a run of universes alike, and the         *)
(* messages of lx.config that report what it may ask for.                  *)
(*                                                                         *)
(* The handler tests the arguments against the same lists that the reports *)
(* send, then clears the table if asked to, then sets the attributes of    *)
(* each new universe one after the other.  The setters are UniverseRecord. *)
(***************************************************************************)
EXTENDS UniverseRecord

CONSTANTS
    AskedSymbols,     \* the interface symbols that are asked for
    Starts,           \* the numbers that are asked for
    PatchMax,         \* bound: the universes of a patch
    TableMax          \* bound: the universes of the table

ASSUME PatchAssumption == Starts \subseteq Int /\ PatchMax \in Nat /\ TableMax \in Nat

NoPatch == [msg |-> "none"]

VARIABLES
    others,           \* how many universes the table holds besides
    made,             \* the universes of the last patch
    asked,            \* the message that made them
    globalAdapters    \* the adapters of the service's global interfaces

patchVars == <<others, made, asked, globalAdapters>>

\* What a message asks for, its arguments having the right types; "text" is
\* neither a type nor a protocol nor a mode.
Requests ==
    [isClear : BOOLEAN, type : Types \cup {"text"}, protocol : Protocols \cup {"text"},
     mode : ModeNames \cup {"text"}, interface : AskedSymbols]

\* How many universes, and the numbers of the first.
Runs == [count : 0 .. PatchMax, internal : Starts, universe : Starts]

\* lx_universe_protocol_interface_get_list
InterfaceMenu(p) == IF p \in IpProtocols THEN AdapterMenu ELSE PortMenu

\* The type is not looked for in the list of the protocol.
Accepts(msg) ==
    /\ msg.type \in Types /\ msg.protocol \in Protocols
    /\ msg.mode \in ModeMenu(msg.type, msg.protocol)
    /\ msg.interface \in InterfaceMenu(msg.protocol)

\* Seeded fault: the interface is set before the protocol it belongs to.
Patched_InterfaceFirst(msg, run, i, globals) ==
    LET interface == SetInterface(SetType(Default, msg.type), msg.interface, globals)
        mode == SetMode(SetProtocol(interface, msg.protocol, globals), msg.mode)
    IN SetUniverse(SetInternal(mode, run.internal + i), run.universe + i)

\* Seeded fault: the number is set before the protocol whose range it is from.
Patched_NumberFirst(msg, run, i, globals) ==
    LET number == SetUniverse(SetInternal(Default, run.internal + i), run.universe + i)
        protocol == SetProtocol(SetType(number, msg.type), msg.protocol, globals)
    IN SetInterface(SetMode(protocol, msg.mode), msg.interface, globals)

\* The i-th universe of a patch, counted from 0.
Patched(msg, run, i, globals) ==
    LET protocol == SetProtocol(SetType(Default, msg.type), msg.protocol, globals)
        interface == SetInterface(SetMode(protocol, msg.mode), msg.interface, globals)
    IN SetUniverse(SetInternal(interface, run.internal + i), run.universe + i)

------------------------------------------------------------------------------
PatchInit ==
    /\ others = 1 /\ made = <<>> /\ asked = NoPatch
    /\ globalAdapters = [p \in IpProtocols |-> Null]

Size == others + Len(made)

Patch ==
    \E msg \in {m \in Requests : Accepts(m)}, run \in Runs :
        /\ others' = IF msg.isClear THEN 0 ELSE Size
        /\ others' + run.count <= TableMax
        /\ made' = [i \in 1 .. run.count |-> Patched(msg, run, i - 1, globalAdapters)]
        /\ asked' = [msg |-> msg, run |-> run]
        /\ UNCHANGED globalAdapters

\* A message that is refused changes nothing.
Refuse ==
    \E msg \in Requests :
        /\ ~Accepts(msg)
        /\ UNCHANGED patchVars

\* Another global interface is set; the universes are not told.
OtherGlobal ==
    /\ \E p \in IpProtocols, a \in Adapters \cup {Null} :
          globalAdapters' = [globalAdapters EXCEPT ![p] = a]
    /\ others' = Size /\ made' = <<>> /\ asked' = NoPatch

PatchNext == Patch \/ Refuse \/ OtherGlobal

PatchSpec == PatchInit /\ [][PatchNext]_patchVars

------------------------------------------------------------------------------
(* Properties                                                              *)

\* A message that asks for what lx.config reports: a type of the protocol, a
\* mode of the type, an interface of the protocol.
Reported(msg) ==
    /\ msg.protocol \in Protocols
    /\ msg.type \in TypeMenu(msg.protocol)
    /\ msg.mode \in ModeMenu(msg.type, msg.protocol)
    /\ msg.interface \in InterfaceMenu(msg.protocol)

\* The symbol leads back to the interface that prints as it.
LeadsBack(sym, p) ==
    IF p \in IpProtocols
    THEN \/ sym \in {All, Global}
         \/ ParsesAsAdapter(sym) /\ AdapterFind(sym) # Null
               /\ AdapterToSym(AdapterFind(sym)) = sym
    ELSE sym = None \/ (PortFind(sym) # Null /\ PortToSym(PortFind(sym)) = sym)

\* What is asked for by the reports is made: none of the setters that run
\* after an attribute was set takes it back.  The interface is the one asked
\* for, with the adapter that "[global]" means at that time, unless two
\* interfaces print alike or one has nothing by which it is found.
ReportedIsMade ==
    \A i \in 1 .. Len(made) :
        /\ Reported(asked.msg) =>
              /\ made[i].type = asked.msg.type
              /\ made[i].protocol = asked.msg.protocol
              /\ made[i].mode = asked.msg.mode
        /\ LeadsBack(asked.msg.interface, asked.msg.protocol) =>
              /\ made[i].interface = asked.msg.interface
              /\ asked.msg.interface = Global => made[i].adapter = globalAdapters[asked.msg.protocol]

\* The numbers of a patch run on from the ones asked for, and two universes of
\* one patch share a number only at the end of its range.
NumbersRunOn ==
    \A i \in 1 .. Len(made) :
        /\ made[i].universe # asked.run.universe + i - 1 =>
              /\ asked.msg.protocol \in IpProtocols
              /\ made[i].universe \in {Minimum[asked.msg.protocol], Maximum[asked.msg.protocol]}
        /\ made[i].internal # asked.run.internal + i - 1 =>
              made[i].internal \in {InternalMin, InternalMax}

=================================================================================
