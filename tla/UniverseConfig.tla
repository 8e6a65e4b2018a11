----------------------------- MODULE UniverseConfig -----------------------------
(***************************************************************************)
(* One universe of the service's table over its life: its attributes are   *)
(* set from the user interface or a message in any order, the service's    *)
(* global interfaces change under it, it is replaced by a clone, and the   *)
(* program is quit and started again from the preferences.                 *)
(***************************************************************************)
EXTENDS UniverseRecord

CONSTANTS
    SymbolInputs,     \* the interface symbols that are set
    UniverseInputs,   \* the numbers that protocol_universe is set to
    InternalInputs,   \* the numbers that internal_universe is set to
    PriorityInputs,   \* the numbers that priority is set to
    UnicastInputs,    \* the lists that unicast_addresses is set to
    Counts,           \* the steps of lx_universe_config_increment
    UniverseBound     \* bound: how far protocol_universe is counted up

ASSUME InputAssumption ==
    /\ UniverseInputs \subseteq Int /\ Counts \subseteq Int
    /\ InternalInputs \subseteq Int /\ PriorityInputs \subseteq Int
    /\ UnicastInputs \subseteq Seq(IpAddresses \cup {"invalid"})

VARIABLES
    config,           \* the t_lx_universe_config
    globalInterface,  \* the service's global interface, per IP protocol
    globalAdapter     \* the adapter it stands for

vars == <<config, globalInterface, globalAdapter>>
globals == <<globalInterface, globalAdapter>>

NoAdapters == [p \in IpProtocols |-> Null]

\* A service that found no preferences.
Init ==
    /\ config = Default
    /\ globalInterface = [p \in IpProtocols |-> All]
    /\ globalAdapter = NoAdapters

ChangeType == \E type \in Types : config' = SetType(config, type)
ChangeProtocol == \E p \in Protocols : config' = SetProtocol(config, p, globalAdapter)
ChangeMode == \E mode \in ModeNames : config' = SetMode(config, mode)
ChangeInterface ==
    \E sym \in SymbolInputs : config' = SetInterface(config, sym, globalAdapter)
ChangeInternal == \E n \in InternalInputs : config' = SetInternal(config, n)
ChangeUniverse == \E n \in UniverseInputs : config' = SetUniverse(config, n)
ChangePriority == \E n \in PriorityInputs : config' = SetPriority(config, n)
ChangeUnicast == \E list \in UnicastInputs : config' = SetUnicast(config, list)

\* The user interface adds a universe as an incremented clone.
CloneNext ==
    \E n \in Counts :
        /\ config.universe + n <= UniverseBound
        /\ config' = Increment(Clone(config, globalAdapter), n)

Edit ==
    /\ \/ ChangeType \/ ChangeProtocol \/ ChangeMode \/ ChangeInterface
       \/ ChangeInternal \/ ChangeUniverse \/ ChangePriority \/ ChangeUnicast
       \/ CloneNext
    /\ UNCHANGED globals

\* lx_service_find_global_artnet_interface and its sACN twin: the adapter, and
\* the interface that is kept.
GlobalFind(sym) == IF sym = All \/ ~ParsesAsAdapter(sym) THEN Null ELSE AdapterFind(sym)
GlobalKept(sym) == IF GlobalFind(sym) = Null THEN All ELSE AdapterToSym(GlobalFind(sym))

\* The universes are not told.
ChangeGlobal(p) ==
    \E sym \in SymbolInputs :
        /\ globalInterface' = [globalInterface EXCEPT ![p] = GlobalKept(sym)]
        /\ globalAdapter' = [globalAdapter EXCEPT ![p] = GlobalFind(sym)]
        /\ UNCHANGED config

\* The program saves, quits and loads: the universes are made before the
\* global interfaces are looked up, by their setter and then once more.
Restart ==
    /\ config' = FromDictionary(ToDictionary(config), NoAdapters)
    /\ globalInterface' = [p \in IpProtocols |-> GlobalKept(GlobalKept(globalInterface[p]))]
    /\ globalAdapter' = [p \in IpProtocols |-> GlobalFind(GlobalKept(globalInterface[p]))]

Next == Edit \/ (\E p \in IpProtocols : ChangeGlobal(p)) \/ Restart

Spec == Init /\ [][Next]_vars

------------------------------------------------------------------------------
(* Properties                                                              *)

Offered(c) ==
    /\ c.type \in TypeMenu(c.protocol)
    /\ c.mode \in ModeMenu(c.type, c.protocol)

\* Whatever order the attributes were set in, the type and the mode are
\* ones that the menus offer for the protocol (lx_universe_type_get_list and
\* lx_universe_protocol_mode_get_list against the setters).
OfferedByMenus == Offered(config)

NumberFits(c) == c.universe \in Minimum[c.protocol] .. Maximum[c.protocol]

InRange(c) == c.protocol \in IpProtocols => NumberFits(c)

\* An Art-Net or sACN universe has a number of its protocol's range, also
\* after it came from another protocol, a clone or the preferences.
UniverseInRange == InRange(config)

\* The range of its protocol is left only by a number that an Enttec universe
\* is given, by its setter or by counting up a clone: no other edit and no
\* restart carries a number into a range that it does not fit.
RangeLeftOnlyByNumber ==
    [][NumberFits(config) /\ ~NumberFits(config') =>
          /\ config'.protocol \in SerialProtocols
          /\ config'.universe # config.universe
          /\ config'.protocol = config.protocol
          /\ config'.type = config.type /\ config'.mode = config.mode]_config

Matches(c) ==
    IF c.protocol \in SerialProtocols
    THEN /\ c.adapter = Null
         /\ c.interface = IF c.port = Null THEN None ELSE PortToSym(c.port)
    ELSE /\ c.port = Null
         /\ c.interface = All => c.adapter = Null
         /\ c.interface \notin {All, Global} =>
               c.adapter # Null /\ c.interface = AdapterToSym(c.adapter)

\* The name of the interface and the handles agree: a universe of one family
\* has no handle of the other, a named interface is the one the handle is of,
\* and a universe has no handle exactly when its interface says so.
InterfaceMatchesHandle == Matches(config)

FollowsGlobal ==
    config.protocol \in IpProtocols /\ config.interface = Global =>
        config.adapter = globalAdapter[config.protocol]

\* A universe set to "[global]" loses track of the global interface only when
\* that changes or the program restarts, never by an edit of the universe.
DriftNeedsGlobalChange ==
    [][FollowsGlobal /\ ~FollowsGlobal' =>
          globalInterface' # globalInterface \/ config' = FromDictionary(ToDictionary(config), NoAdapters)]_vars

\* The lookup of a handle's own name leads back to the handle.
Resolvable(c) ==
    /\ c.adapter # Null /\ c.interface # Global =>
          ParsesAsAdapter(AdapterToSym(c.adapter))
          /\ AdapterFind(AdapterToSym(c.adapter)) = c.adapter
    /\ c.port # Null => PortFind(PortToSym(c.port)) = c.port

\* A clone is the same universe, with the same handle, unless the universe
\* had lost track of the global interface or its name leads elsewhere.
CloneIsFaithful ==
    Resolvable(config) /\ FollowsGlobal => Clone(config, globalAdapter) = config

\* What a user can see of a universe.
Visible(c) ==
    [type |-> c.type, protocol |-> c.protocol, mode |-> c.mode, interface |-> c.interface,
     internal |-> c.internal, universe |-> c.universe,
     priority |-> IF c.protocol = "sacn" THEN c.priority ELSE 0,
     unicast |-> IF c.mode = "unicast" /\ c.type = "output" THEN c.unicast ELSE <<>>]

\* The interface of a universe for which none is chosen.
NoChoice(p) == IF p \in IpProtocols THEN Global ELSE None

\* The universe has the handle of another adapter or port, one that shares its
\* name or the address or port in it with the one that `c` shows.
LedElsewhere(c, r) ==
    \/ r.adapter \notin {Null, c.adapter} /\ SharesAdapter(c.interface, r.adapter)
    \/ r.port \notin {Null, c.port} /\ SharesPort(c.interface, r.port)

\* A universe that is saved and loaded on the same machine comes back as the
\* user saw it, except for the addresses of an input (they are refused by the
\* setter) and for its interface in two cases.  An adapter that is shown by its
\* name alone, as it has no address or more than fit, is lost to "[global]",
\* and a port shown so (on Windows) to "[none]".  An adapter or port that
\* another shares the name, the address or the description with may come back
\* as the other.
ReloadKeepsVisible ==
    LET r == FromDictionary(ToDictionary(config), NoAdapters)
    IN /\ [Visible(r) EXCEPT !.interface = config.interface] = Visible(config)
       /\ IF config.interface.tail = "" THEN r.interface = NoChoice(config.protocol)
          ELSE r.interface = config.interface \/ LedElsewhere(config, r)

\* Once a serial port was found, nothing but another protocol takes it away:
\* "[none]" does not, and (on macOS) neither does a restart.
PortIsSticky ==
    [][config.port # Null /\ config'.port = Null =>
          config'.protocol \in IpProtocols]_config
=================================================================================
