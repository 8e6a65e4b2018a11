----------------------------- MODULE UniverseRecord -----------------------------
(***************************************************************************)
(* The attributes of a lx_universe_config (lx_universe_config.c) as a      *)
(* record, and each of its setters as an operator from a record to a       *)
(* record.  A setter of the type or the protocol calls the setter of the   *)
(* mode, and the setter of the protocol or the interface looks the         *)
(* interface up again, exactly as the code does.  `globals` holds the      *)
(* adapter that the service's global interface stands for, per protocol.   *)
(*                                                                         *)
(* The label, the enable flag and the status, which no other attribute     *)
(* depends on, are left out.                                               *)
(***************************************************************************)
EXTENDS InterfaceLookup

CONSTANTS
    Minimum, Maximum,           \* the range of protocol_universe, per protocol
    InternalMin, InternalMax,   \* LX_UNIVERSE_MIN and LX_UNIVERSE_MAX
    PriorityMin, PriorityMax,   \* LX_PRIORITY_SACN_MIN and _MAX
    UnicastMax                  \* LX_UNICAST_ADDRESSES_MAX

IpProtocols == {"artnet", "sacn"}
SerialProtocols == {"dmxusbpro", "opendmxusb"}
Protocols == IpProtocols \cup SerialProtocols
Types == {"input", "output"}
ModeNames == {"input", "output", "broadcast", "unicast", "multicast"}

ASSUME RangeAssumption ==
    /\ Minimum \in [Protocols -> Int]
    /\ Maximum \in [Protocols -> Int]
    /\ \A p \in Protocols : Minimum[p] <= Maximum[p]
    /\ \A p \in Protocols : 1 \in Minimum[p] .. Maximum[p]
    /\ InternalMin \in Int /\ InternalMax \in Int
    /\ 1 \in InternalMin .. InternalMax
    /\ PriorityMin \in Int /\ PriorityMax \in Int
    /\ 100 \in PriorityMin .. PriorityMax
    /\ UnicastMax \in Nat

\* CLAMP and the clip filter of an attribute.
Clamp(n, low, high) == IF n < low THEN low ELSE IF n > high THEN high ELSE n

ClampUniverse(p, n) == Clamp(n, Minimum[p], Maximum[p])

\* The menus of the user interface.
TypeMenu(p) == IF p = "opendmxusb" THEN {"output"} ELSE Types

ModeMenu(type, p) ==
    CASE p = "artnet" /\ type = "input" -> {"input"}
      [] p = "artnet" /\ type = "output" -> {"broadcast", "unicast"}
      [] p = "sacn" -> {"multicast", "unicast"}
      [] p = "dmxusbpro" -> {type}
      [] p = "opendmxusb" -> {"output"}

\* lx_universe_config_new without a dictionary.
Default ==
    [type |-> "output", protocol |-> "artnet", mode |-> "broadcast",
     interface |-> Global, internal |-> 1, universe |-> 1, priority |-> 100,
     unicast |-> <<>>, adapter |-> Null, port |-> Null]

------------------------------------------------------------------------------
(* Setters                                                                 *)

\* The mode the code settles on when it is asked for `mode`.
SettledMode(type, p, mode) ==
    CASE p = "artnet" /\ type = "input" -> "input"
      [] p = "artnet" /\ type = "output" ->
            IF mode \in {"broadcast", "unicast"} THEN mode ELSE "broadcast"
      [] p = "sacn" -> IF mode \in {"multicast", "unicast"} THEN mode ELSE "multicast"
      [] p = "dmxusbpro" -> type
      [] p = "opendmxusb" -> "output"

\* Seeded fault: the number is left as it is.
SetMode_KeepNumber(c, mode) ==
    [c EXCEPT !.type = IF c.protocol = "opendmxusb" THEN "output" ELSE @,
              !.mode = SettledMode(c.type, c.protocol, mode)]

SetMode(c, mode) ==
    [c EXCEPT !.type = IF c.protocol = "opendmxusb" THEN "output" ELSE @,
              !.mode = SettledMode(c.type, c.protocol, mode),
              !.universe = ClampUniverse(c.protocol, @)]

\* Seeded fault: the mode is left as it is when the type changes.
SetType_KeepMode(c, type) == [c EXCEPT !.type = type]

SetType(c, type) == SetMode([c EXCEPT !.type = type], c.mode)

\* Seeded fault: the adapter of the previous interface stays.
FollowGlobal_KeepAdapter(c, globals) == [c EXCEPT !.interface = Global, !.port = Null]

FollowGlobal(c, globals) ==
    [c EXCEPT !.interface = Global, !.adapter = globals[c.protocol], !.port = Null]

FindIpInterface(c, globals) ==
    LET a == AdapterFind(c.interface)
    IN IF c.interface = All THEN [c EXCEPT !.adapter = Null, !.port = Null]
       ELSE IF c.interface \in {Global, None} \/ ~ParsesAsAdapter(c.interface)
            THEN FollowGlobal(c, globals)
       ELSE [c EXCEPT !.adapter = a, !.port = Null,
                      !.interface = IF a = Null THEN All ELSE AdapterToSym(a)]

\* Seeded fault: the port is forgotten when nothing is found.
FindSerialInterface_Reset(c) ==
    LET p == PortFind(c.interface)
    IN [c EXCEPT !.adapter = Null, !.port = p,
                 !.interface = IF p = Null THEN None ELSE PortToSym(p)]

\* The port stays the one that was found before when nothing is found now.
FindSerialInterface(c) ==
    LET found == PortFind(c.interface)
        p == IF found = Null THEN c.port ELSE found
    IN [c EXCEPT !.adapter = Null, !.port = p,
                 !.interface = IF p = Null THEN None ELSE PortToSym(p)]

\* lx_universe_config_find_interface
FindInterface(c, globals) ==
    IF c.protocol \in IpProtocols THEN FindIpInterface(c, globals)
                                  ELSE FindSerialInterface(c)

\* Seeded fault: the interface of the previous protocol is kept.
SetProtocol_KeepInterface(c, p, globals) ==
    SetMode([c EXCEPT !.protocol = p], c.mode)

SetProtocol(c, p, globals) ==
    FindInterface(SetMode([c EXCEPT !.protocol = p], c.mode), globals)

SetInterface(c, sym, globals) == FindInterface([c EXCEPT !.interface = sym], globals)

SetInternal(c, n) == [c EXCEPT !.internal = Clamp(n, InternalMin, InternalMax)]

\* Only the two IP protocols clamp here.
SetUniverse(c, n) ==
    [c EXCEPT !.universe = IF c.protocol \in IpProtocols THEN ClampUniverse(c.protocol, n)
                                                         ELSE n]

SetPriority(c, n) ==
    IF c.protocol # "sacn" THEN c
    ELSE [c EXCEPT !.priority = Clamp(n, PriorityMin, PriorityMax)]

\* The addresses of a list, "invalid" standing for a member that is none: of
\* its first UnicastMax members those that parse, in their order.
ParsedAddresses(list) ==
    LET parsed[i \in 0 .. Len(list)] ==
            IF i = 0 THEN <<>>
            ELSE IF i > UnicastMax \/ list[i] = "invalid" THEN parsed[i - 1]
            ELSE Append(parsed[i - 1], list[i])
    IN parsed[Len(list)]

\* `list` is what the attribute receives; one without a single address changes
\* nothing.
SetUnicast(c, list) ==
    LET valid == ParsedAddresses(list)
    IN IF c.type = "input" \/ (list # <<>> /\ valid = <<>>) THEN c
       ELSE [c EXCEPT !.unicast = valid]

\* lx_universe_config_increment, without the label
Increment(c, n) == SetUniverse(SetInternal(c, c.internal + n), c.universe + n)

------------------------------------------------------------------------------
(* Copies                                                                  *)

\* Seeded fault: the interface of the copy is not looked up.
Clone_NoLookup(c, globals) == [c EXCEPT !.adapter = Null, !.port = Null]

\* lx_universe_config_clone: the handles are looked up, not copied.
Clone(c, globals) == FindInterface([c EXCEPT !.adapter = Null, !.port = Null], globals)

\* lx_universe_config_to_dictionary
ToDictionary(c) ==
    [type |-> c.type, protocol |-> c.protocol, mode |-> c.mode,
     interface |-> c.interface, internal |-> c.internal, universe |-> c.universe,
     priority |-> c.priority, unicast |-> c.unicast]

\* Seeded fault: the protocol follows the attributes that depend on it.
FromDictionary_ProtocolLast(d, globals) ==
    LET type == SetType(Default, d.type)
        mode == SetMode(type, d.mode)
        interface == SetInterface(mode, d.interface, globals)
        universe == SetUniverse(SetInternal(interface, d.internal), d.universe)
        unicast == SetUnicast(SetPriority(universe, d.priority), d.unicast)
    IN SetProtocol(unicast, d.protocol, globals)

\* lx_universe_config_new with a dictionary: the attributes are set in the
\* order in which lx_universe_config_to_dictionary appended them.
FromDictionary(d, globals) ==
    LET protocol == SetProtocol(SetType(Default, d.type), d.protocol, globals)
        mode == SetMode(protocol, d.mode)
        interface == SetInterface(mode, d.interface, globals)
        universe == SetUniverse(SetInternal(interface, d.internal), d.universe)
    IN SetUnicast(SetPriority(universe, d.priority), d.unicast)

------------------------------------------------------------------------------
(* What a choice means, for the lists of the moment                        *)

\* An adapter that shares neither its name nor an address with another.
Alone(a) ==
    \A b \in Adapters \ {a} :
        /\ AdapterList[b].name # AdapterList[a].name
        /\ \A i \in 1 .. Len(AdapterList[a].addresses) : ~HasAddress(b, AdapterList[a].addresses[i])

\* It is selected exactly if it has an address and its addresses fit into the
\* name; otherwise the choice means "[global]".
AdapterIsHonoured(c, a, globals) ==
    LET d == SetInterface(c, AdapterToSym(a), globals)
    IN IF Len(AdapterList[a].addresses) \in 1 .. ListMax THEN d.adapter = a ELSE d.interface = Global

\* A port that no other has the description of.
Distinct(p) == \A q \in Ports \ {p} : PortList[q].description # PortList[p].description

\* On Windows none is ever selected: the name that is offered there does not
\* have the form that is looked for.
PortIsHonoured(c, p, globals) ==
    SetInterface(c, PortToSym(p), globals).port = IF Windows THEN Null ELSE p

Honoured(c, globals) ==
    IF c.protocol \in IpProtocols
    THEN \A a \in Adapters : Alone(a) => AdapterIsHonoured(c, a, globals)
    ELSE \A p \in Ports : Distinct(p) => PortIsHonoured(c, p, globals)

SharesAdapter(sym, a) == AdapterList[a].name = sym.head \/ HasAddress(a, sym.tail)
SharesPort(sym, p) == PortList[p].description = sym.head \/ PortList[p].port = sym.tail

\* What a universe may be loaded with for the interface that was saved: a
\* handle that shares something with the saved name, and none only if nothing
\* that is listed does.  A name that does not hold an address or a port is not
\* looked for at all, even if an adapter or a port has exactly this name: the
\* universe then follows the global interface, or has no port.  A name whose
\* address is none stands for all adapters.
NoStranger(saved, c) ==
    IF c.protocol \in SerialProtocols
    THEN IF saved.tail = "" THEN c.port = Null /\ c.interface = None
         ELSE IF c.port = Null THEN \A p \in Ports : ~SharesPort(saved, p)
         ELSE SharesPort(saved, c.port)
    ELSE IF saved.tail \notin Quads THEN c.interface = Global
         ELSE IF saved = All \/ saved.tail \notin IpAddresses THEN c.interface = All /\ c.adapter = Null
         ELSE IF c.adapter = Null THEN c.interface = All /\ \A a \in Adapters : ~SharesAdapter(saved, a)
         ELSE SharesAdapter(saved, c.adapter)
=================================================================================
