-------------------------- MODULE UniverseRecordProofs --------------------------
(***************************************************************************)
(* Lemmas about the operators of InterfaceLookup and UniverseRecord, for   *)
(* any machine, any ranges and any globals: what the look-ups find, and    *)
(* for each setter which fields it leaves alone and what the others become.*)
(* The proofs about UniverseConfig, QuickPatch and HostInterfaces cite     *)
(* them, the last ones for the lists of each moment.                       *)
(***************************************************************************)
EXTENDS UniverseRecord, WellFoundedInduction, TLAPS

\* A record with the fields of a lx_universe_config.
Fields == {"type", "protocol", "mode", "interface", "internal", "universe",
           "priority", "unicast", "adapter", "port"}
Shaped(c) == c = [f \in Fields |-> c[f]]

Good(c) ==
    /\ Shaped(c)
    /\ c.type \in Types
    /\ c.protocol \in Protocols
    /\ c.universe \in Int
    /\ c.adapter \in Adapters \cup {Null}
    /\ c.port \in Ports \cup {Null}

KnownGlobals(g) == g \in [IpProtocols -> Adapters \cup {Null}]

------------------------------------------------------------------------------
(* The look-ups                                                            *)

\* A set of natural numbers that is not empty has a least element.
LEMMA LeastExists ==
    ASSUME NEW S \in SUBSET Nat, S # {}
    PROVE  \E n \in S : \A m \in S : n <= m
<1> DEFINE R == {xy \in Nat \X Nat : xy[1] < xy[2]}
<1>1. IsWellFoundedOn(R, Nat)
  BY NatLessThanWellFounded DEF OpToRel
<1>2. \E n \in S : \A m \in S : ~(<<m, n>> \in R)
  BY <1>1, WFMin
<1>3. ASSUME NEW n \in Nat, NEW m \in Nat, m < n
      PROVE  <<m, n>> \in R
  BY <1>3
<1> HIDE DEF R
<1>4. PICK n \in S : \A m \in S : ~(<<m, n>> \in R)
  BY <1>2
<1>5. \A m \in S : ~(m < n)
  BY <1>3, <1>4
<1> QED BY <1>5

\* Least finds an element of the set.
LEMMA LeastIn ==
    ASSUME NEW S \in SUBSET Nat, S # {}
    PROVE  Least(S) \in S
BY LeastExists DEF Least

\* Greatest finds an element of a bounded set.
LEMMA GreatestIn ==
    ASSUME NEW k \in Nat, NEW S \in SUBSET (1 .. k), S # {}
    PROVE  Greatest(S) \in S
<1> DEFINE D == {k - n : n \in S}
<1>1. D \in SUBSET Nat /\ D # {}
  <2>1. \A n \in S : n \in Int /\ n <= k
    OBVIOUS
  <2>2. \A n \in S : k - n \in Nat
    BY <2>1
  <2> QED BY <2>2
<1>2. PICK d \in D : \A e \in D : d <= e
  BY <1>1, LeastExists
<1>3. PICK n \in S : d = k - n
  BY <1>2
<1>4. \A m \in S : m <= n
  <2>1. TAKE m \in S
  <2>2. k - m \in D
    BY <2>1
  <2>3. d <= k - m
    BY <1>2, <2>2
  <2> HIDE DEF D
  <2> QED BY <1>3, <2>3
<1> QED BY <1>4 DEF Greatest

\* The lists have lengths.
LEMMA Lengths == Len(AdapterList) \in Nat /\ Len(PortList) \in Nat
<1>1. ASSUME NEW S, NEW s \in Seq(S)
      PROVE  Len(s) \in Nat
  OBVIOUS
<1>2. Len(AdapterList) \in Nat
  BY ONLY <1>1, AdapterAssumption, Zenon
<1>3. Len(PortList) \in Nat
  BY ONLY <1>1, PortAssumption, Zenon
<1> QED BY <1>2, <1>3

\* What lx_network_adapter_find finds is an adapter.
LEMMA FoundAdapter ==
    ASSUME NEW sym
    PROVE  AdapterFind(sym) \in Adapters \cup {Null}
<1> DEFINE byName == {a \in Adapters : AdapterList[a].name = sym.head}
           byAddress == {a \in Adapters : HasAddress(a, sym.tail)}
<1>1. byAddress # {} => Greatest(byAddress) \in byAddress
  BY Lengths, GreatestIn DEF Adapters
<1>2. byName # {} => Least(byName) \in byName
  <2>1. byName \in SUBSET Nat
    BY Lengths DEF Adapters
  <2> QED BY <2>1, LeastIn
<1> QED BY <1>1, <1>2 DEF AdapterFind

\* What lx_serial_port_find finds is a port.
LEMMA FoundPort ==
    ASSUME NEW sym
    PROVE  PortFind(sym) \in Ports \cup {Null}
<1> DEFINE byPort == {p \in Ports : PortList[p].port = sym.tail}
           byDescription == {p \in Ports : PortList[p].description = sym.head
                                             /\ sym.head # "[none]"}
<1>1. byPort \in SUBSET Nat /\ byDescription \in SUBSET Nat
  BY Lengths DEF Ports
<1>2. byPort # {} => Least(byPort) \in byPort
  BY <1>1, LeastIn
<1>3. byDescription # {} => Least(byDescription) \in byDescription
  BY <1>1, LeastIn
<1> QED BY <1>2, <1>3 DEF PortFind

\* Null is no adapter and no port.
LEMMA NullIsNone == Null \notin Adapters /\ Null \notin Ports
BY Lengths DEF Null, Adapters, Ports

\* A symbol that names a port by its own name leads to a port on macOS, where
\* the name holds the port.
LEMMA OwnNameFinds ==
    ASSUME ~Windows, NEW p \in Ports
    PROVE  PortFind(PortToSym(p)) \in Ports
<1> DEFINE sym == PortToSym(p)
           byPort == {q \in Ports : PortList[q].port = sym.tail}
           byDescription == {q \in Ports : PortList[q].description = sym.head
                                             /\ sym.head # "[none]"}
<1>1. sym.tail = PortList[p].port
  BY DEF PortToSym
<1>2. PortList[p].port # ""
  <2>1. ASSUME NEW S, NEW s \in Seq(S), NEW n \in 1 .. Len(s)
        PROVE  s[n] \in S
    OBVIOUS
  <2>2. PortList[p] \in [description : STRING, port : STRING \ {""}]
    BY ONLY <2>1, PortAssumption, p \in Ports, Zenon DEF Ports
  <2>3. PortList[p].port \in STRING \ {""}
    BY ONLY <2>2
  <2> QED BY <2>3
<1>3. p \in byPort
  BY <1>1
<1>4. PortFind(sym) \in {Least(byDescription), Least(byPort)}
      /\ (PortFind(sym) = Least(byDescription) \/ PortFind(sym) = Least(byPort))
      /\ (byDescription = {} => PortFind(sym) = Least(byPort))
      /\ (byDescription # {} => PortFind(sym) = Least(byDescription))
  BY <1>1, <1>2, <1>3 DEF PortFind, ParsesAsPort
<1>5. byPort \in SUBSET Nat /\ byDescription \in SUBSET Nat
  BY Lengths DEF Ports
<1>6. byPort \subseteq Ports /\ byDescription \subseteq Ports
  OBVIOUS
<1> HIDE DEF byPort, byDescription, sym
<1>7. PortFind(sym) \in Ports
  <2>1. CASE byDescription = {}
    <3>1. Least(byPort) \in byPort
      BY <1>3, <1>5, LeastIn
    <3> QED BY <1>4, <1>6, <2>1, <3>1
  <2>2. CASE byDescription # {}
    <3>1. Least(byDescription) \in byDescription
      BY <1>5, <2>2, LeastIn
    <3> QED BY <1>4, <1>6, <2>2, <3>1
  <2> QED BY <2>1, <2>2
<1> QED BY <1>7 DEF sym

\* The reserved names are three, and lead to no port; two name no adapter.
LEMMA Reserved ==
    /\ All # Global /\ Global # None /\ All # None
    /\ PortFind(None) = Null /\ PortFind(Global) = Null
    /\ ~ParsesAsAdapter(Global) /\ ~ParsesAsAdapter(None)
<1>1. All # Global /\ Global # None /\ All # None
  BY DEF All, Global, None
<1>2. None.tail = "" /\ Global.tail = ""
  BY DEF None, Global
<1> QED BY <1>1, <1>2, TextAssumption DEF PortFind, ParsesAsPort, ParsesAsAdapter

------------------------------------------------------------------------------
(* The setters                                                             *)

\* Two records of the shape are equal when their fields are.
LEMMA SameRecord ==
    ASSUME NEW c, NEW d, Shaped(c), Shaped(d), \A f \in Fields : d[f] = c[f]
    PROVE  d = c
BY DEF Shaped

\* What is left alone by the setters of the interface.
KeepsRest(c, d) ==
    /\ Shaped(d)
    /\ d.type = c.type /\ d.protocol = c.protocol /\ d.mode = c.mode
    /\ d.internal = c.internal /\ d.universe = c.universe
    /\ d.priority = c.priority /\ d.unicast = c.unicast

LEMMA InterfaceFields ==
    ASSUME NEW c, Shaped(c), NEW i, NEW a, NEW p, NEW d,
           \/ d = [c EXCEPT !.interface = i, !.adapter = a, !.port = p]
           \/ d = [c EXCEPT !.adapter = a, !.port = p, !.interface = i]
    PROVE  KeepsRest(c, d) /\ d.interface = i /\ d.adapter = a /\ d.port = p
BY DEF KeepsRest, Shaped, Fields

LEMMA HandleFields ==
    ASSUME NEW c, Shaped(c), NEW a, NEW p, NEW d, d = [c EXCEPT !.adapter = a, !.port = p]
    PROVE  KeepsRest(c, d) /\ d.interface = c.interface /\ d.adapter = a /\ d.port = p
BY DEF KeepsRest, Shaped, Fields

LEMMA NameFields ==
    ASSUME NEW c, Shaped(c), NEW i, NEW d, d = [c EXCEPT !.interface = i]
    PROVE  KeepsRest(c, d) /\ d.interface = i /\ d.adapter = c.adapter /\ d.port = c.port
BY DEF KeepsRest, Shaped, Fields

\* What the look-up of an IP universe's interface leads to.
IpFound(c, g, d) ==
    /\ d.port = Null
    /\ \/ c.interface = All /\ d.interface = All /\ d.adapter = Null
       \/ /\ c.interface # All
          /\ c.interface \in {Global, None} \/ ~ParsesAsAdapter(c.interface)
          /\ d.interface = Global /\ d.adapter = g[c.protocol]
       \/ /\ c.interface \notin {All, Global, None} /\ ParsesAsAdapter(c.interface)
          /\ d.adapter = AdapterFind(c.interface)
          /\ d.interface = IF d.adapter = Null THEN All ELSE AdapterToSym(d.adapter)

\* What that of a serial universe leads to.
SerialFound(c, d) ==
    /\ d.adapter = Null
    /\ d.port = IF PortFind(c.interface) = Null THEN c.port ELSE PortFind(c.interface)
    /\ d.interface = IF d.port = Null THEN None ELSE PortToSym(d.port)

\* The look-up of the interface changes nothing but the interface.
LEMMA InterfaceFound ==
    ASSUME NEW c, Shaped(c), c.protocol \in Protocols, NEW g
    PROVE  LET d == FindInterface(c, g)
           IN /\ KeepsRest(c, d)
              /\ c.protocol \in IpProtocols => IpFound(c, g, d)
              /\ c.protocol \in SerialProtocols => SerialFound(c, d)
<1> DEFINE d == FindInterface(c, g)
<1>1. c.protocol \in IpProtocols <=> c.protocol \notin SerialProtocols
  BY DEF Protocols, IpProtocols, SerialProtocols
<1>2. CASE c.protocol \in IpProtocols
  <2>1. d = FindIpInterface(c, g)
    BY <1>2 DEF FindInterface
  <2>2. CASE c.interface = All
    <3>1. d = [c EXCEPT !.adapter = Null, !.port = Null]
      BY <2>1, <2>2 DEF FindIpInterface
    <3> HIDE DEF d
    <3>2. KeepsRest(c, d) /\ d.interface = All /\ d.adapter = Null /\ d.port = Null
      BY <2>2, <3>1 DEF KeepsRest, Shaped, Fields
    <3>3. KeepsRest(c, d) /\ IpFound(c, g, d)
      BY <2>2, <3>2 DEF IpFound
    <3> QED BY <1>1, <1>2, <3>3 DEF d
  <2>3. CASE c.interface # All /\ (c.interface \in {Global, None} \/ ~ParsesAsAdapter(c.interface))
    <3>1. d = [c EXCEPT !.interface = Global, !.adapter = g[c.protocol], !.port = Null]
      BY <2>1, <2>3 DEF FindIpInterface, FollowGlobal
    <3> HIDE DEF d
    <3>2. KeepsRest(c, d) /\ d.interface = Global /\ d.adapter = g[c.protocol] /\ d.port = Null
      BY <3>1 DEF KeepsRest, Shaped, Fields
    <3>3. KeepsRest(c, d) /\ IpFound(c, g, d)
      BY <2>3, <3>2 DEF IpFound
    <3> QED BY <1>1, <1>2, <3>3 DEF d
  <2>4. CASE c.interface \notin {All, Global, None} /\ ParsesAsAdapter(c.interface)
    <3> DEFINE a == AdapterFind(c.interface)
               i == IF a = Null THEN All ELSE AdapterToSym(a)
    <3>1. d = [c EXCEPT !.adapter = a, !.port = Null, !.interface = i]
      BY <2>1, <2>4 DEF FindIpInterface
    <3> HIDE DEF d, a, i
    <3>2. KeepsRest(c, d) /\ d.interface = i /\ d.adapter = a /\ d.port = Null
      BY <3>1 DEF KeepsRest, Shaped, Fields
    <3>3. KeepsRest(c, d) /\ IpFound(c, g, d)
      BY <2>4, <3>2 DEF IpFound, a, i
    <3> QED BY <1>1, <1>2, <3>3 DEF d
  <2> QED BY <2>2, <2>3, <2>4
<1>3. CASE c.protocol \in SerialProtocols
  <2> DEFINE p == IF PortFind(c.interface) = Null THEN c.port ELSE PortFind(c.interface)
             i == IF p = Null THEN None ELSE PortToSym(p)
  <2>1. d = [c EXCEPT !.adapter = Null, !.port = p, !.interface = i]
    BY <1>1, <1>3 DEF FindInterface, FindSerialInterface
  <2> HIDE DEF d, p, i
  <2>2. KeepsRest(c, d) /\ d.interface = i /\ d.adapter = Null /\ d.port = p
    BY <2>1 DEF KeepsRest, Shaped, Fields
  <2>3. KeepsRest(c, d) /\ SerialFound(c, d)
    BY <2>2 DEF SerialFound, i, p
  <2> QED BY <1>1, <1>3, <2>3 DEF d
<1> QED BY <1>1, <1>2, <1>3 DEF Protocols

\* What is left alone by the setters of the type, the mode and the protocol.
KeepsInterface(c, d) ==
    /\ Shaped(d)
    /\ d.interface = c.interface /\ d.adapter = c.adapter /\ d.port = c.port
    /\ d.internal = c.internal /\ d.priority = c.priority /\ d.unicast = c.unicast

\* The setter of the mode settles the type, the mode and the number.
LEMMA ModeSettled ==
    ASSUME NEW c, Shaped(c), NEW mode
    PROVE  LET d == SetMode(c, mode)
           IN /\ KeepsInterface(c, d)
              /\ d.protocol = c.protocol
              /\ d.type = (IF c.protocol = "opendmxusb" THEN "output" ELSE c.type)
              /\ d.mode = SettledMode(c.type, c.protocol, mode)
              /\ d.universe = ClampUniverse(c.protocol, c.universe)
BY DEF SetMode, KeepsInterface, Shaped, Fields

\* A mode that the menu offers is settled on.
LEMMA OfferedModeSettles ==
    ASSUME NEW p \in Protocols, NEW type \in TypeMenu(p), NEW mode \in ModeMenu(type, p)
    PROVE  SettledMode(type, p, mode) = mode
BY DEF SettledMode, ModeMenu, TypeMenu, Types, Protocols, IpProtocols, SerialProtocols

LEMMA TypeFields ==
    ASSUME NEW c, Shaped(c), NEW type, NEW d, d = [c EXCEPT !.type = type]
    PROVE  /\ KeepsInterface(c, d) /\ d.type = type
           /\ d.protocol = c.protocol /\ d.mode = c.mode /\ d.universe = c.universe
BY DEF KeepsInterface, Shaped, Fields

LEMMA ProtocolFields ==
    ASSUME NEW c, Shaped(c), NEW p, NEW d, d = [c EXCEPT !.protocol = p]
    PROVE  /\ KeepsInterface(c, d) /\ d.protocol = p
           /\ d.type = c.type /\ d.mode = c.mode /\ d.universe = c.universe
BY DEF KeepsInterface, Shaped, Fields

\* What is left alone by the setters of the numbers, the priority and the
\* unicast addresses.
KeepsSettings(c, d) ==
    /\ Shaped(d)
    /\ d.type = c.type /\ d.protocol = c.protocol /\ d.mode = c.mode
    /\ d.interface = c.interface /\ d.adapter = c.adapter /\ d.port = c.port

LEMMA InternalSet ==
    ASSUME NEW c, Shaped(c), NEW n
    PROVE  LET d == SetInternal(c, n)
           IN /\ KeepsSettings(c, d) /\ d.universe = c.universe
              /\ d.priority = c.priority /\ d.unicast = c.unicast
              /\ d.internal = Clamp(n, InternalMin, InternalMax)
BY DEF KeepsSettings, Shaped, Fields, SetInternal

LEMMA UniverseSet ==
    ASSUME NEW c, Shaped(c), NEW n
    PROVE  LET d == SetUniverse(c, n)
           IN /\ KeepsSettings(c, d) /\ d.internal = c.internal
              /\ d.priority = c.priority /\ d.unicast = c.unicast
              /\ d.universe = (IF c.protocol \in IpProtocols
                               THEN ClampUniverse(c.protocol, n) ELSE n)
<1> DEFINE v == IF c.protocol \in IpProtocols THEN ClampUniverse(c.protocol, n) ELSE n
           d == [c EXCEPT !.universe = v]
<1>1. SetUniverse(c, n) = d
  BY DEF SetUniverse
<1> HIDE DEF v
<1>2. /\ KeepsSettings(c, d) /\ d.internal = c.internal
      /\ d.priority = c.priority /\ d.unicast = c.unicast /\ d.universe = v
  BY DEF KeepsSettings, Shaped, Fields
<1> QED BY <1>1, <1>2 DEF v

LEMMA PrioritySet ==
    ASSUME NEW c, Shaped(c), NEW n
    PROVE  LET d == SetPriority(c, n)
           IN /\ KeepsSettings(c, d) /\ d.internal = c.internal
              /\ d.universe = c.universe /\ d.unicast = c.unicast
              /\ d.priority = (IF c.protocol # "sacn" THEN c.priority
                               ELSE Clamp(n, PriorityMin, PriorityMax))
BY DEF KeepsSettings, Shaped, Fields, SetPriority

\* A clamped number is in the range, and one in the range is left alone.
LEMMA Clamped ==
    ASSUME NEW n \in Int, NEW low \in Int, NEW high \in Int, low <= high
    PROVE  /\ Clamp(n, low, high) \in low .. high
           /\ n \in low .. high => Clamp(n, low, high) = n
           /\ Clamp(n, low, high) # n => Clamp(n, low, high) \in {low, high}
BY DEF Clamp

\* The ranges are not empty.
LEMMA RangesAreSome ==
    /\ InternalMin \in Int /\ InternalMax \in Int /\ InternalMin <= InternalMax
    /\ PriorityMin \in Int /\ PriorityMax \in Int /\ PriorityMin <= PriorityMax
BY RangeAssumption

\* Clamping to each range.
LEMMA InternalClamped ==
    ASSUME NEW n \in Int
    PROVE  /\ Clamp(n, InternalMin, InternalMax) \in InternalMin .. InternalMax
           /\ n \in InternalMin .. InternalMax => Clamp(n, InternalMin, InternalMax) = n
           /\ Clamp(n, InternalMin, InternalMax) # n =>
                 Clamp(n, InternalMin, InternalMax) \in {InternalMin, InternalMax}
BY RangesAreSome, Clamped

LEMMA PriorityClamped ==
    ASSUME NEW n \in Int
    PROVE  /\ Clamp(n, PriorityMin, PriorityMax) \in PriorityMin .. PriorityMax
           /\ n \in PriorityMin .. PriorityMax => Clamp(n, PriorityMin, PriorityMax) = n
BY RangesAreSome, Clamped

LEMMA UniverseClamped ==
    ASSUME NEW p \in Protocols, NEW n \in Int
    PROVE  /\ ClampUniverse(p, n) \in Minimum[p] .. Maximum[p]
           /\ n \in Minimum[p] .. Maximum[p] => ClampUniverse(p, n) = n
           /\ ClampUniverse(p, n) # n => ClampUniverse(p, n) \in {Minimum[p], Maximum[p]}
<1>1. Minimum[p] \in Int /\ Maximum[p] \in Int /\ Minimum[p] <= Maximum[p]
  BY RangeAssumption
<1> QED BY <1>1, Clamped DEF ClampUniverse

\* The service without preferences has a shaped universe.
LEMMA DefaultShaped == Shaped(Default)
BY DEF Shaped, Fields, Default

LEMMA UnicastSet ==
    ASSUME NEW c, Shaped(c), NEW list
    PROVE  LET d == SetUnicast(c, list)
           IN /\ KeepsSettings(c, d) /\ d.internal = c.internal
              /\ d.universe = c.universe /\ d.priority = c.priority
              /\ d.unicast = IF \/ c.type = "input"
                                \/ list # <<>> /\ ParsedAddresses(list) = <<>>
                             THEN c.unicast ELSE ParsedAddresses(list)
<1> DEFINE valid == ParsedAddresses(list)
<1>1. SetUnicast(c, list) = IF c.type = "input" \/ (list # <<>> /\ valid = <<>>) THEN c
                            ELSE [c EXCEPT !.unicast = valid]
  BY DEF SetUnicast
<1> HIDE DEF valid
<1>2. LET d == [c EXCEPT !.unicast = valid]
      IN /\ KeepsSettings(c, d) /\ d.internal = c.internal
         /\ d.universe = c.universe /\ d.priority = c.priority /\ d.unicast = valid
  BY DEF KeepsSettings, Shaped, Fields
<1>3. KeepsSettings(c, c)
  BY DEF KeepsSettings
<1> QED BY <1>1, <1>2, <1>3 DEF valid

------------------------------------------------------------------------------
(* What a load and a patch have in common                                  *)

\* The type, the protocol, the mode and the interface, set in that order.
Opened(type, p, mode, sym, g) ==
    SetInterface(SetMode(SetProtocol(SetType(Default, type), p, g), mode), sym, g)

\* What the look-ups go by when these have been set.
Wanted(p, sym) == [protocol |-> p, interface |-> sym, port |-> Null]

\* Setting one attribute after the other takes none of them back: the mode is
\* settled for the protocol and the interface looked up afresh.
LEMMA OpenedFields ==
    ASSUME NEW type \in Types, NEW p \in Protocols, NEW mode, NEW sym, NEW g
    PROVE  LET d == Opened(type, p, mode, sym, g)
           IN /\ Shaped(d)
              /\ d.protocol = p
              /\ d.type = IF p = "opendmxusb" THEN "output" ELSE type
              /\ d.mode = SettledMode(d.type, p, mode)
              /\ p \in IpProtocols => IpFound(Wanted(p, sym), g, d)
              /\ p \in SerialProtocols => SerialFound(Wanted(p, sym), d)
              /\ d.priority = 100 /\ d.unicast = <<>>
<1> DEFINE typed0 == [Default EXCEPT !.type = type]
           typed == SetMode(typed0, Default.mode)
           placed0 == [typed EXCEPT !.protocol = p]
           placed == SetMode(placed0, typed.mode)
           protocol == FindInterface(placed, g)
           moded == SetMode(protocol, mode)
           named == [moded EXCEPT !.interface = sym]
           d == FindInterface(named, g)
<1>1. Opened(type, p, mode, sym, g) = d
  BY DEF Opened, SetInterface, SetProtocol, SetType
<1>2. KeepsInterface(Default, typed0) /\ typed0.type = type /\ typed0.protocol = "artnet"
  BY DEF KeepsInterface, Shaped, Fields, Default
<1> HIDE DEF typed0
<1>3. KeepsInterface(typed0, typed) /\ typed.type = type
  BY <1>2, ModeSettled DEF KeepsInterface
<1> HIDE DEF typed
<1>4. KeepsInterface(typed, placed0) /\ placed0.type = type /\ placed0.protocol = p
  BY <1>3 DEF KeepsInterface, Shaped, Fields
<1> HIDE DEF placed0
<1>5. /\ KeepsInterface(placed0, placed) /\ placed.protocol = p
      /\ placed.type = IF p = "opendmxusb" THEN "output" ELSE type
  BY <1>4, ModeSettled DEF KeepsInterface
<1> HIDE DEF placed
<1>6. /\ placed.interface = Global /\ placed.port = Null
      /\ placed.priority = 100 /\ placed.unicast = <<>>
  <2>1. Default.interface = Global /\ Default.port = Null /\ Default.priority = 100 /\ Default.unicast = <<>>
    BY DEF Default
  <2> QED BY <1>2, <1>3, <1>4, <1>5, <2>1 DEF KeepsInterface
<1>7. /\ KeepsRest(placed, protocol) /\ protocol.port = Null
  <2>1. /\ KeepsRest(placed, protocol)
        /\ p \in IpProtocols => IpFound(placed, g, protocol)
        /\ p \in SerialProtocols => SerialFound(placed, protocol)
    BY <1>5, InterfaceFound DEF KeepsInterface
  <2> QED BY <1>6, <2>1, Reserved DEF IpFound, SerialFound, Protocols
<1> HIDE DEF protocol
<1>8. /\ KeepsInterface(protocol, moded) /\ moded.protocol = p
      /\ moded.type = IF p = "opendmxusb" THEN "output" ELSE type
      /\ moded.mode = SettledMode(moded.type, p, mode)
  <2>1. Shaped(protocol) /\ protocol.protocol = p /\ protocol.type = placed.type
    BY <1>5, <1>7 DEF KeepsRest
  <2>2. /\ KeepsInterface(protocol, moded) /\ moded.protocol = protocol.protocol
        /\ moded.type = (IF protocol.protocol = "opendmxusb" THEN "output" ELSE protocol.type)
        /\ moded.mode = SettledMode(protocol.type, protocol.protocol, mode)
    BY <2>1, ModeSettled
  <2>3. moded.type = protocol.type
    BY <1>5, <2>1, <2>2
  <2> QED BY <1>5, <2>1, <2>2, <2>3
<1> HIDE DEF moded
<1>9. /\ KeepsRest(moded, named) /\ named.interface = sym /\ named.port = Null
  BY <1>7, <1>8 DEF KeepsRest, KeepsInterface, Shaped, Fields
<1> HIDE DEF named
<1>10. /\ KeepsRest(named, d)
       /\ p \in IpProtocols => IpFound(named, g, d)
       /\ p \in SerialProtocols => SerialFound(named, d)
  BY <1>8, <1>9, InterfaceFound DEF KeepsRest
<1> HIDE DEF d
<1>11. /\ d.protocol = p /\ d.type = moded.type /\ d.mode = moded.mode
       /\ d.priority = 100 /\ d.unicast = <<>> /\ Shaped(d)
  BY <1>6, <1>7, <1>8, <1>9, <1>10 DEF KeepsRest, KeepsInterface
<1>12. /\ p \in IpProtocols => IpFound(Wanted(p, sym), g, d)
       /\ p \in SerialProtocols => SerialFound(Wanted(p, sym), d)
  BY <1>8, <1>9, <1>10 DEF IpFound, SerialFound, Wanted, KeepsRest
<1> QED BY <1>1, <1>8, <1>11, <1>12

\* What is loaded has the interface that was saved, looked up.
LEMMA LoadOpens ==
    ASSUME NEW d, NEW g,
           d.type \in Types, d.protocol \in Protocols
    PROVE  KeepsSettings(Opened(d.type, d.protocol, d.mode, d.interface, g), FromDictionary(d, g))
<1> DEFINE opened == Opened(d.type, d.protocol, d.mode, d.interface, g)
           internal == SetInternal(opened, d.internal)
           universe == SetUniverse(internal, d.universe)
           priority == SetPriority(universe, d.priority)
           result == SetUnicast(priority, d.unicast)
<1>1. FromDictionary(d, g) = result
  BY DEF FromDictionary, Opened
<1>2. Shaped(opened)
  BY OpenedFields
<1> HIDE DEF opened
<1>3. KeepsSettings(opened, internal)
  BY <1>2, InternalSet
<1> HIDE DEF internal
<1>4. KeepsSettings(internal, universe)
  BY <1>3, UniverseSet DEF KeepsSettings
<1> HIDE DEF universe
<1>5. KeepsSettings(universe, priority)
  BY <1>4, PrioritySet DEF KeepsSettings
<1> HIDE DEF priority
<1>6. KeepsSettings(priority, result)
  BY <1>5, UnicastSet DEF KeepsSettings
<1> HIDE DEF result
<1>7. KeepsSettings(opened, result)
  BY <1>3, <1>4, <1>5, <1>6 DEF KeepsSettings
<1> QED BY <1>1, <1>7 DEF opened

------------------------------------------------------------------------------
(* The unicast addresses                                                   *)

\* Induction, on the set of the numbers that something holds for.
LEMMA NatSet ==
    ASSUME NEW S \in SUBSET Nat, 0 \in S, \A n \in S : n + 1 \in S
    PROVE  S = Nat
<1>1. SUFFICES ASSUME Nat \ S # {} PROVE FALSE
  OBVIOUS
<1>2. PICK n \in Nat \ S : \A m \in Nat \ S : n <= m
  BY <1>1, LeastExists
<1>3. n # 0 /\ n - 1 \in Nat
  BY <1>2
<1>4. n - 1 \in S
  BY <1>2, <1>3
<1>5. (n - 1) + 1 \in S
  BY <1>4
<1> QED BY <1>2, <1>5

\* One round of the loop of lx_universe_unicast_addresses_set.
Round(list, f, i) ==
    IF i = 0 THEN <<>>
    ELSE IF i > UnicastMax \/ list[i] = "invalid" THEN f[i - 1]
    ELSE Append(f[i - 1], list[i])

\* The loop has a result after every round.
LEMMA RoundsExist ==
    ASSUME NEW list, NEW k \in Nat
    PROVE  \E f : f = [i \in 0 .. k |-> Round(list, f, i)]
<1> DEFINE S == {n \in Nat : \E f : f = [i \in 0 .. n |-> Round(list, f, i)]}
<1>1. 0 \in S
  <2> DEFINE f == [i \in 0 .. 0 |-> <<>>]
  <2>1. \A i \in 0 .. 0 : Round(list, f, i) = <<>>
    BY DEF Round
  <2>2. f = [i \in 0 .. 0 |-> Round(list, f, i)]
    BY <2>1
  <2> QED BY <2>2
<1>2. ASSUME NEW n \in S PROVE n + 1 \in S
  <2>1. PICK f : f = [i \in 0 .. n |-> Round(list, f, i)]
    OBVIOUS
  <2> DEFINE last == Round(list, f, n + 1)
             g == [i \in 0 .. (n + 1) |-> IF i \in 0 .. n THEN f[i] ELSE last]
  <2>2. ASSUME NEW i \in 0 .. (n + 1) PROVE g[i] = Round(list, g, i)
    <3>1. i # 0 => i - 1 \in 0 .. n /\ g[i - 1] = f[i - 1]
      OBVIOUS
    <3>2. Round(list, g, i) = Round(list, f, i)
      BY <3>1 DEF Round
    <3>3. CASE i \in 0 .. n
      <4>1. g[i] = f[i]
        BY <3>3
      <4>2. f[i] = Round(list, f, i)
        BY <2>1, <3>3
      <4> QED BY <3>2, <4>1, <4>2
    <3>4. CASE i = n + 1
      <4>1. g[i] = last
        BY <3>4
      <4> QED BY <3>2, <3>4, <4>1
    <3> QED BY <3>3, <3>4
  <2>3. g = [i \in 0 .. (n + 1) |-> g[i]]
    OBVIOUS
  <2> HIDE DEF g
  <2>4. g = [i \in 0 .. (n + 1) |-> Round(list, g, i)]
    BY <2>2, <2>3
  <2> QED BY <2>4
<1>3. S = Nat
  <2> HIDE DEF S
  <2>1. S \in SUBSET Nat
    BY DEF S
  <2> QED BY <1>1, <1>2, <2>1, NatSet
<1> QED BY <1>3

\* The result is that of the last round.
LEMMA ParsedByRounds ==
    ASSUME NEW list, Len(list) \in Nat
    PROVE  \E f : /\ f = [i \in 0 .. Len(list) |-> Round(list, f, i)]
                  /\ ParsedAddresses(list) = f[Len(list)]
<1> DEFINE Is(f) == f = [i \in 0 .. Len(list) |-> Round(list, f, i)]
           f == CHOOSE f : Is(f)
<1>1. Is(f)
  BY RoundsExist
<1>2. ParsedAddresses(list) = f[Len(list)]
  BY DEF ParsedAddresses, Round
<1> QED BY <1>1, <1>2

Addresses == IpAddresses \ {"invalid"}

\* What is left of a list are addresses, and no more than fit.
LEMMA ParsedType ==
    ASSUME NEW list \in Seq(IpAddresses \cup {"invalid"})
    PROVE  ParsedAddresses(list) \in Seq(Addresses) /\ Len(ParsedAddresses(list)) <= UnicastMax
<1> DEFINE k == Len(list)
<1>1. k \in Nat
  OBVIOUS
<1>2. PICK f : f = [i \in 0 .. k |-> Round(list, f, i)] /\ ParsedAddresses(list) = f[k]
  BY <1>1, ParsedByRounds
<1> HIDE DEF k
<1>3. \A i \in 0 .. k : f[i] = Round(list, f, i)
  BY <1>2
<1> DEFINE Fits(i) == /\ f[i] \in Seq(Addresses) /\ Len(f[i]) <= i
                      /\ Len(f[i]) <= UnicastMax
           S == {n \in Nat : n <= k => Fits(n)}
<1>4. 0 \in S
  <2>1. f[0] = <<>>
    BY <1>1, <1>3 DEF Round
  <2>2. <<>> \in Seq(Addresses) /\ Len(<<>>) = 0 /\ UnicastMax \in Nat
    BY RangeAssumption
  <2>3. Fits(0)
    BY <2>1, <2>2
  <2> QED BY <2>3
<1>5. ASSUME NEW n \in S PROVE n + 1 \in S
  <2>1. SUFFICES ASSUME n + 1 <= k PROVE Fits(n + 1)
    OBVIOUS
  <2>2. Fits(n) /\ n \in Nat
    BY <1>1, <2>1
  <2>3. n + 1 \in 0 .. k /\ (n + 1) - 1 = n /\ n + 1 # 0
    BY <1>1, <2>1, <2>2
  <2>4. f[n + 1] = IF n + 1 > UnicastMax \/ list[n + 1] = "invalid" THEN f[n]
                   ELSE Append(f[n], list[n + 1])
    BY <1>3, <2>3 DEF Round
  <2>5. list[n + 1] \in IpAddresses \cup {"invalid"}
    BY <2>3 DEF k
  <2>6. UnicastMax \in Nat
    BY RangeAssumption
  <2>7. CASE n + 1 > UnicastMax \/ list[n + 1] = "invalid"
    BY <2>2, <2>4, <2>7
  <2>8. CASE ~(n + 1 > UnicastMax \/ list[n + 1] = "invalid")
    <3>1. f[n + 1] = Append(f[n], list[n + 1]) /\ list[n + 1] \in Addresses
      BY <2>4, <2>5, <2>8 DEF Addresses
    <3>2. n + 1 <= UnicastMax
      BY <2>2, <2>6, <2>8
    <3>3. ASSUME NEW q \in Seq(Addresses), NEW a \in Addresses
          PROVE  Append(q, a) \in Seq(Addresses) /\ Len(Append(q, a)) = Len(q) + 1
      OBVIOUS
    <3>4. f[n + 1] \in Seq(Addresses) /\ Len(f[n + 1]) = Len(f[n]) + 1 /\ Len(f[n]) \in Nat
      BY <2>2, <3>1, <3>3
    <3> QED BY <2>2, <2>6, <3>2, <3>4
  <2> QED BY <2>7, <2>8
<1>6. S = Nat
  <2> HIDE DEF S
  <2>1. S \in SUBSET Nat
    BY DEF S
  <2> QED BY <1>4, <1>5, <2>1, NatSet
<1>7. Fits(k)
  BY <1>1, <1>6
<1> QED BY <1>2, <1>7

\* A list of addresses that fits is taken as it is.
LEMMA ParsedSame ==
    ASSUME NEW list \in Seq(Addresses), Len(list) <= UnicastMax
    PROVE  ParsedAddresses(list) = list
<1> DEFINE k == Len(list)
<1>1. k \in Nat /\ k <= UnicastMax /\ UnicastMax \in Nat
  BY RangeAssumption
<1>2. PICK f : f = [i \in 0 .. k |-> Round(list, f, i)] /\ ParsedAddresses(list) = f[k]
  BY <1>1, ParsedByRounds
<1>3. \A i \in 1 .. k : list[i] \in Addresses
  OBVIOUS
<1> HIDE DEF k
<1>4. \A i \in 0 .. k : f[i] = Round(list, f, i)
  BY <1>2
<1> DEFINE Same(i) == /\ f[i] \in Seq(Addresses) /\ Len(f[i]) = i
                      /\ \A j \in 1 .. i : f[i][j] = list[j]
           S == {n \in Nat : n <= k => Same(n)}
<1>5. 0 \in S
  <2>1. f[0] = <<>>
    BY <1>1, <1>4 DEF Round
  <2>2. <<>> \in Seq(Addresses) /\ Len(<<>>) = 0
    OBVIOUS
  <2>3. Same(0)
    BY <2>1, <2>2
  <2> QED BY <2>3
<1>6. ASSUME NEW n \in S PROVE n + 1 \in S
  <2>1. SUFFICES ASSUME n + 1 <= k PROVE Same(n + 1)
    OBVIOUS
  <2>2. Same(n) /\ n \in Nat
    BY <1>1, <2>1
  <2>3. n + 1 \in 0 .. k /\ (n + 1) - 1 = n /\ n + 1 # 0 /\ ~(n + 1 > UnicastMax)
    BY <1>1, <2>1, <2>2
  <2>4. list[n + 1] \in Addresses /\ list[n + 1] # "invalid"
    BY <1>3, <2>2, <2>3 DEF Addresses
  <2>5. f[n + 1] = Append(f[n], list[n + 1])
    BY <1>4, <2>3, <2>4 DEF Round
  <2>6. f[n + 1] \in Seq(Addresses) /\ Len(f[n + 1]) = n + 1
    BY <2>2, <2>4, <2>5
  <2>7. ASSUME NEW j \in 1 .. (n + 1) PROVE f[n + 1][j] = list[j]
    BY <2>2, <2>4, <2>5
  <2> QED BY <2>6, <2>7
<1>7. S = Nat
  <2> HIDE DEF S
  <2>1. S \in SUBSET Nat
    BY DEF S
  <2> QED BY <1>5, <1>6, <2>1, NatSet
<1>8. Same(k)
  BY <1>1, <1>7
<1>9. f[k] = list
  <2>1. list \in Seq(Addresses) /\ Len(list) = k
    BY DEF k
  <2> QED BY <1>8, <2>1
<1> QED BY <1>2, <1>9

------------------------------------------------------------------------------
(* Choices                                                                 *)

\* What the search by address and name finds shares one of them with the
\* symbol, and it finds nothing only if nothing does.
LEMMA AdapterFound ==
    ASSUME NEW sym, sym.tail \in IpAddresses
    PROVE  IF AdapterFind(sym) = Null THEN \A a \in Adapters : ~SharesAdapter(sym, a)
           ELSE AdapterFind(sym) \in Adapters /\ SharesAdapter(sym, AdapterFind(sym))
<1> DEFINE byName == {a \in Adapters : AdapterList[a].name = sym.head}
           byAddress == {a \in Adapters : HasAddress(a, sym.tail)}
<1>1. /\ byAddress # {} => AdapterFind(sym) = Greatest(byAddress)
      /\ byAddress = {} /\ byName # {} => AdapterFind(sym) = Least(byName)
      /\ byAddress = {} /\ byName = {} => AdapterFind(sym) = Null
  BY DEF AdapterFind
<1>2. byName \in SUBSET Nat /\ byAddress \in SUBSET (1 .. Len(AdapterList)) /\ Len(AdapterList) \in Nat
  BY Lengths DEF Adapters
<1>3. \A a \in byName \cup byAddress : a \in Adapters /\ a # Null /\ SharesAdapter(sym, a)
  BY NullIsNone DEF SharesAdapter
<1>4. \A a \in Adapters : a \in byName \cup byAddress \/ ~SharesAdapter(sym, a)
  BY DEF SharesAdapter
<1> HIDE DEF byName, byAddress
<1>5. CASE byAddress # {}
  BY <1>1, <1>2, <1>3, <1>5, GreatestIn
<1>6. CASE byAddress = {} /\ byName # {}
  BY <1>1, <1>2, <1>3, <1>6, LeastIn
<1>7. CASE byAddress = {} /\ byName = {}
  BY <1>1, <1>4, <1>7
<1> QED BY <1>5, <1>6, <1>7

\* The addresses of an adapter are addresses.
LEMMA FirstAddress ==
    ASSUME NEW a \in Adapters, Len(AdapterList[a].addresses) \in 1 .. ListMax
    PROVE  AdapterList[a].addresses[1] \in IpAddresses
<1>1. ASSUME NEW S, NEW s \in Seq(S), NEW n \in 1 .. Len(s)
      PROVE  s[n] \in S
  OBVIOUS
<1>2. AdapterList[a] \in [name : STRING, addresses : Seq(IpAddresses)]
  BY ONLY <1>1, AdapterAssumption, a \in Adapters, Zenon DEF Adapters
<1>3. AdapterList[a].addresses \in Seq(IpAddresses)
  BY ONLY <1>2
<1>4. 1 \in 1 .. Len(AdapterList[a].addresses)
  BY BuildAssumption
<1> QED BY ONLY <1>1, <1>3, <1>4, Zenon

\* An adapter alone is the one its own symbol leads to.
LEMMA AloneIsFound ==
    ASSUME NEW a \in Adapters, Alone(a), Len(AdapterList[a].addresses) \in 1 .. ListMax
    PROVE  AdapterFind(AdapterToSym(a)) = a
<1> DEFINE first == AdapterList[a].addresses[1]
           sym == AdapterToSym(a)
           byAddress == {b \in Adapters : HasAddress(b, sym.tail)}
<1>1. sym.tail = first
  BY DEF AdapterToSym
<1>2. 1 \in 1 .. Len(AdapterList[a].addresses)
  BY BuildAssumption
<1>3. HasAddress(a, first) /\ \A b \in Adapters \ {a} : ~HasAddress(b, first)
  BY <1>2 DEF Alone, HasAddress
<1>4. byAddress = {a}
  BY <1>1, <1>3
<1>5. AdapterFind(sym) = Greatest(byAddress)
  <2>1. sym.tail \in IpAddresses
    BY <1>1, FirstAddress
  <2> QED BY <1>4, <2>1 DEF AdapterFind
<1>6. Greatest({a}) = a
  <2>1. {a} \in SUBSET (1 .. Len(AdapterList)) /\ {a} # {} /\ Len(AdapterList) \in Nat
    BY Lengths DEF Adapters
  <2>2. Greatest({a}) \in {a}
    BY ONLY <2>1, GreatestIn
  <2> QED BY <2>2
<1> QED BY <1>4, <1>5, <1>6

\* The texts the program itself puts for a missing description and for no
\* interface are not descriptions of ports, and no two ports have one path.
PortsApart ==
    /\ \A p \in Ports : PortList[p].description \notin {"[unknown]", "[none]"}
    /\ \A p, q \in Ports : PortList[p].port = PortList[q].port => p = q

LEMMA PortsAreNumbers == Ports \subseteq Nat
BY Lengths DEF Ports

LEMMA PortParts ==
    ASSUME NEW p \in Ports
    PROVE  PortList[p].port # ""
<1>1. ASSUME NEW S, NEW s \in Seq(S), NEW n \in 1 .. Len(s)
      PROVE  s[n] \in S
  OBVIOUS
<1>2. PortList[p] \in [description : STRING, port : STRING \ {""}]
  BY ONLY <1>1, PortAssumption, p \in Ports, Zenon DEF Ports
<1> QED BY <1>2

\* What the search by description and path finds shares one of them with the
\* symbol ...
LEMMA FoundPortShares ==
    ASSUME NEW sym, PortFind(sym) # Null
    PROVE  PortFind(sym) \in Ports /\ SharesPort(sym, PortFind(sym))
<1> DEFINE byPort == {p \in Ports : PortList[p].port = sym.tail}
           byDescription == {p \in Ports : PortList[p].description = sym.head
                                             /\ sym.head # "[none]"}
<1>1. \/ byDescription # {} /\ PortFind(sym) = Least(byDescription)
      \/ byPort # {} /\ PortFind(sym) = Least(byPort)
  BY DEF PortFind
<1>2. byPort \in SUBSET Nat /\ byDescription \in SUBSET Nat
  <2>1. Ports \subseteq Nat
    BY PortsAreNumbers
  <2>2. byPort \subseteq Ports /\ byDescription \subseteq Ports
    OBVIOUS
  <2> HIDE DEF byPort, byDescription
  <2> QED BY <2>1, <2>2
<1>3. \A p \in byPort \cup byDescription : p \in Ports /\ SharesPort(sym, p)
  BY DEF SharesPort
<1> HIDE DEF byPort, byDescription
<1> QED BY <1>1, <1>2, <1>3, LeastIn

\* ... and it finds nothing only if nothing does.
LEMMA PortFound ==
    ASSUME PortsApart, NEW sym, sym.tail # ""
    PROVE  IF PortFind(sym) = Null THEN \A p \in Ports : ~SharesPort(sym, p)
           ELSE PortFind(sym) \in Ports /\ SharesPort(sym, PortFind(sym))
<1> DEFINE byPort == {p \in Ports : PortList[p].port = sym.tail}
           byDescription == {p \in Ports : PortList[p].description = sym.head
                                             /\ sym.head # "[none]"}
<1>1. /\ byDescription # {} => PortFind(sym) = Least(byDescription)
      /\ byDescription = {} /\ byPort # {} => PortFind(sym) = Least(byPort)
      /\ byDescription = {} /\ byPort = {} => PortFind(sym) = Null
  BY DEF PortFind, ParsesAsPort
<1>2. byPort \in SUBSET Nat /\ byDescription \in SUBSET Nat
  <2>1. Ports \subseteq Nat
    BY PortsAreNumbers
  <2>2. byPort \subseteq Ports /\ byDescription \subseteq Ports
    OBVIOUS
  <2> HIDE DEF byPort, byDescription
  <2> QED BY <2>1, <2>2
<1>3. \A p \in byPort \cup byDescription : p \in Ports /\ p # Null /\ SharesPort(sym, p)
  BY NullIsNone DEF SharesPort
<1>4. \A p \in Ports : p \in byPort \cup byDescription \/ ~SharesPort(sym, p)
  BY DEF SharesPort, PortsApart
<1> HIDE DEF byPort, byDescription
<1>5. CASE byDescription # {}
  BY <1>1, <1>2, <1>3, <1>5, LeastIn
<1>6. CASE byDescription = {} /\ byPort # {}
  BY <1>1, <1>2, <1>3, <1>6, LeastIn
<1>7. CASE byDescription = {} /\ byPort = {}
  BY <1>1, <1>4, <1>7
<1> QED BY <1>5, <1>6, <1>7

\* On macOS a port with a description of its own is the one its symbol leads to.
LEMMA DistinctIsFound ==
    ASSUME ~Windows, PortsApart, NEW p \in Ports, Distinct(p)
    PROVE  PortFind(PortToSym(p)) = p
<1> DEFINE sym == PortToSym(p)
<1>1. /\ sym.tail = PortList[p].port /\ sym.tail # ""
      /\ sym.head = IF PortList[p].description = "n/a" THEN "[unknown]" ELSE PortList[p].description
  BY PortParts DEF PortToSym
<1>2. \A q \in Ports : SharesPort(sym, q) => q = p
  BY <1>1 DEF SharesPort, PortsApart, Distinct
<1>3. SharesPort(sym, p)
  BY <1>1 DEF SharesPort
<1> HIDE DEF sym
<1>4. PortFind(sym) = p
  BY <1>1, <1>2, <1>3, PortFound
<1> QED BY <1>4 DEF sym

\* Whatever the lists are and whatever was set before: an adapter that is offered
\* and alone in its name and addresses is selected, exactly if its symbol can
\* hold its addresses, and a port with a description of its own is selected on
\* macOS and never on Windows.
THEOREM ChoicesAreHonoured ==
    ASSUME PortsApart, NEW c, Shaped(c), c.protocol \in Protocols, NEW g,
           Windows => c.port = Null
    PROVE  Honoured(c, g)
<1>1. ASSUME NEW sym
      PROVE  LET n == [c EXCEPT !.interface = sym]
                 d == SetInterface(c, sym, g)
             IN /\ n.interface = sym /\ n.protocol = c.protocol /\ n.port = c.port
                /\ c.protocol \in IpProtocols => IpFound(n, g, d)
                /\ c.protocol \in SerialProtocols => SerialFound(n, d)
  <2> DEFINE n == [c EXCEPT !.interface = sym]
             d == SetInterface(c, sym, g)
  <2>1. KeepsRest(c, n) /\ n.interface = sym /\ n.port = c.port
    BY NameFields
  <2>2. d = FindInterface(n, g)
    BY DEF SetInterface
  <2> HIDE DEF n, d
  <2>3. Shaped(n) /\ n.protocol = c.protocol
    BY <2>1 DEF KeepsRest
  <2>4. (n.protocol \in IpProtocols => IpFound(n, g, d)) /\ (n.protocol \in SerialProtocols => SerialFound(n, d))
    BY <2>2, <2>3, InterfaceFound
  <2>5. /\ n.interface = sym /\ n.protocol = c.protocol /\ n.port = c.port
        /\ c.protocol \in IpProtocols => IpFound(n, g, d)
        /\ c.protocol \in SerialProtocols => SerialFound(n, d)
    BY <2>1, <2>3, <2>4
  <2> QED BY <2>5 DEF n, d
<1>2. ASSUME c.protocol \in IpProtocols, NEW a \in Adapters, Alone(a)
      PROVE  AdapterIsHonoured(c, a, g)
  <2> DEFINE sym == AdapterToSym(a)
             d == SetInterface(c, sym, g)
             fits == Len(AdapterList[a].addresses) \in 1 .. ListMax
  <2>1. PICK n : n.interface = sym /\ IpFound(n, g, d)
    BY <1>1, <1>2
  <2>2. sym \notin {All, Global}
    BY NameAssumption
  <2>3. sym.tail = IF fits THEN AdapterList[a].addresses[1] ELSE ""
    BY DEF AdapterToSym
  <2>4. CASE fits
    <3>1. AdapterFind(sym) = a
      BY <1>2, <2>4, AloneIsFound
    <3>2. sym.tail \in Quads
      BY <2>3, <2>4, FirstAddress, TextAssumption
    <3>3. sym # None /\ ParsesAsAdapter(sym)
      BY <3>2, Reserved DEF ParsesAsAdapter
    <3> HIDE DEF sym, d
    <3>4. d.adapter = a
      BY <2>1, <2>2, <3>1, <3>3 DEF IpFound
    <3> QED BY <2>4, <3>4 DEF AdapterIsHonoured, sym, d
  <2>5. CASE ~fits
    <3>1. ~ParsesAsAdapter(sym)
      BY <2>3, <2>5, TextAssumption DEF ParsesAsAdapter
    <3> HIDE DEF sym, d
    <3>2. d.interface = Global
      BY <2>1, <2>2, <3>1 DEF IpFound
    <3> QED BY <2>5, <3>2 DEF AdapterIsHonoured, sym, d
  <2> QED BY <2>4, <2>5
<1>3. ASSUME c.protocol \in SerialProtocols, NEW p \in Ports, Distinct(p)
      PROVE  PortIsHonoured(c, p, g)
  <2> DEFINE sym == PortToSym(p)
             d == SetInterface(c, sym, g)
  <2>1. PICK n : n.interface = sym /\ n.port = c.port /\ SerialFound(n, d)
    BY <1>1, <1>3
  <2>2. CASE Windows
    <3>1. PortFind(sym) = Null
      BY <2>2 DEF PortFind, ParsesAsPort, PortToSym
    <3> HIDE DEF sym, d
    <3>2. d.port = Null
      BY <2>1, <2>2, <3>1 DEF SerialFound
    <3> QED BY <2>2, <3>2 DEF PortIsHonoured, sym, d
  <2>3. CASE ~Windows
    <3>1. PortFind(sym) = p /\ p # Null
      BY <1>3, <2>3, DistinctIsFound, NullIsNone
    <3> HIDE DEF sym, d
    <3>2. d.port = p
      BY <2>1, <3>1 DEF SerialFound
    <3> QED BY <2>3, <3>2 DEF PortIsHonoured, sym, d
  <2> QED BY <2>2, <2>3
<1> QED BY <1>2, <1>3 DEF Honoured, Protocols

------------------------------------------------------------------------------
(* Another machine                                                         *)

\* Whatever the lists are at a start, and whatever they were when the universe
\* was saved: a universe is loaded with a handle that shares something with the
\* saved interface.  It has none only if nothing that is listed shares anything
\* with it, or the saved name does not hold an address or a port: such a name is
\* lost, whether or not it is the name of an adapter or a port that is listed.
THEOREM LoadsNoStranger ==
    ASSUME PortsApart, NEW c, NEW g, c.type \in Types, c.protocol \in Protocols
    PROVE  NoStranger(c.interface, FromDictionary(ToDictionary(c), g))
<1> DEFINE d == ToDictionary(c)
           saved == c.interface
           opened == Opened(d.type, d.protocol, d.mode, d.interface, g)
           r == FromDictionary(d, g)
<1>1. d.type \in Types /\ d.protocol \in Protocols /\ d.interface = saved
  BY DEF ToDictionary
<1> HIDE DEF d
<1>2. /\ opened.protocol = d.protocol
      /\ d.protocol \in IpProtocols => IpFound(Wanted(d.protocol, saved), g, opened)
      /\ d.protocol \in SerialProtocols => SerialFound(Wanted(d.protocol, saved), opened)
  BY <1>1, OpenedFields
<1>3. KeepsSettings(opened, r)
  BY <1>1, LoadOpens
<1> HIDE DEF opened, r, saved
<1>4. r.protocol = d.protocol /\ r.adapter = opened.adapter /\ r.port = opened.port
      /\ r.interface = opened.interface
  BY <1>2, <1>3 DEF KeepsSettings
<1>5. Wanted(d.protocol, saved).interface = saved /\ Wanted(d.protocol, saved).port = Null
  BY DEF Wanted
<1>6. ASSUME r.protocol \in SerialProtocols
      PROVE  IF saved.tail = "" THEN r.port = Null /\ r.interface = None
             ELSE IF r.port = Null THEN \A p \in Ports : ~SharesPort(saved, p)
             ELSE SharesPort(saved, r.port)
  <2>1. SerialFound(Wanted(d.protocol, saved), opened)
    BY <1>2, <1>4, <1>6
  <2>2. r.port = PortFind(saved) /\ (r.port = Null => r.interface = None)
    BY <1>4, <1>5, <2>1 DEF SerialFound
  <2>3. saved.tail = "" => PortFind(saved) = Null
    BY DEF PortFind, ParsesAsPort
  <2> QED BY <2>2, <2>3, PortFound
<1>7. ASSUME r.protocol \notin SerialProtocols
      PROVE  IpFound(Wanted(d.protocol, saved), g, opened)
  BY <1>1, <1>2, <1>4, <1>7 DEF Protocols
<1>8. ASSUME r.protocol \notin SerialProtocols, saved.tail \notin Quads
      PROVE  r.interface = Global
  <2>1. saved # All
    <3>1. All.tail = "0.0.0.0"
      BY DEF All
    <3>2. All.tail \in Quads
      BY ONLY <3>1, TextAssumption
    <3> QED BY ONLY <1>8, <3>2
  <2>2. ~ParsesAsAdapter(saved)
    BY <1>8 DEF ParsesAsAdapter
  <2> QED BY <1>4, <1>5, <1>7, <1>8, <2>1, <2>2 DEF IpFound
<1>9. ASSUME r.protocol \notin SerialProtocols, saved.tail \in Quads, saved # All
      PROVE  r.adapter = AdapterFind(saved) /\ (r.adapter = Null => r.interface = All)
  <2>1. ParsesAsAdapter(saved) /\ saved # Global /\ saved # None
    BY <1>9, Reserved DEF ParsesAsAdapter
  <2> QED BY <1>4, <1>5, <1>7, <1>9, <2>1 DEF IpFound
<1>10. ASSUME r.protocol \notin SerialProtocols, saved = All
       PROVE  r.interface = All /\ r.adapter = Null
  BY <1>4, <1>5, <1>7, <1>10, Reserved DEF IpFound
<1>11. saved.tail \notin IpAddresses => AdapterFind(saved) = Null
  BY DEF AdapterFind
<1>12. saved.tail \in IpAddresses =>
         IF AdapterFind(saved) = Null THEN \A a \in Adapters : ~SharesAdapter(saved, a)
         ELSE SharesAdapter(saved, AdapterFind(saved))
  BY AdapterFound
<1>13. ASSUME r.protocol \notin SerialProtocols, saved.tail \in Quads
       PROVE  IF saved = All \/ saved.tail \notin IpAddresses THEN r.interface = All /\ r.adapter = Null
              ELSE IF r.adapter = Null THEN r.interface = All /\ \A a \in Adapters : ~SharesAdapter(saved, a)
              ELSE SharesAdapter(saved, r.adapter)
  BY ONLY <1>9, <1>10, <1>11, <1>12, <1>13
<1>14. NoStranger(saved, r)
  BY ONLY <1>6, <1>8, <1>13, Zenon DEF NoStranger
<1> QED BY <1>14 DEF saved, r, d
------------------------------------------------------------------------------
(* What is true of a universe among its adapters                           *)

\* A symbol that on Windows, if it has a tail, is made of an adapter's name and
\* of an address.
Readable(names, sym) ==
    Windows /\ sym.tail # "" => sym.head \in names /\ sym.tail \in IpAddresses

\* The names are those of the adapters, and on Windows no port is found by them.
NamesFit(names) ==
    Windows =>
        /\ "All" \in names
        /\ \A a \in Adapters : AdapterList[a].name \in names
        /\ \A p \in Ports : PortList[p].port \notin IpAddresses /\ PortList[p].description \notin names

\* What a universe keeps while it is saved: only Art-Net has broadcasts, and on
\* Windows there is no port, nor an interface that leads to one.
Saved(names, c) ==
    /\ Shaped(c)
    /\ c.type \in Types /\ c.protocol \in Protocols
    /\ c.mode = "broadcast" => c.protocol = "artnet"
    /\ Readable(names, c.interface)
    /\ Windows => c.port = Null

\* An IP universe whose interface is no reserved one has the adapter it names.
Placed(c) ==
    c.protocol \in IpProtocols /\ c.interface \notin {All, Global} =>
        c.adapter \in Adapters /\ c.interface.head = AdapterList[c.adapter].name

\* The names that the program makes itself can be read.
LEMMA MadeReadable ==
    ASSUME NEW names, NamesFit(names)
    PROVE  /\ Readable(names, All) /\ Readable(names, Global) /\ Readable(names, None)
           /\ \A a \in Adapters : Readable(names, AdapterToSym(a))
           /\ Windows => \A p \in Ports : Readable(names, PortToSym(p))
<1>1. /\ All.head = "All" /\ All.tail = "0.0.0.0" /\ Global.tail = "" /\ None.tail = ""
  BY DEF All, Global, None
<1>2. ASSUME NEW a \in Adapters PROVE Readable(names, AdapterToSym(a))
  <2> DEFINE fits == Len(AdapterList[a].addresses) \in 1 .. ListMax
             sym == AdapterToSym(a)
  <2>1. sym.head = AdapterList[a].name /\ sym.tail = IF fits THEN AdapterList[a].addresses[1] ELSE ""
    BY DEF AdapterToSym
  <2>2. fits => AdapterList[a].addresses[1] \in IpAddresses
    <3>1. ASSUME NEW S, NEW s \in Seq(S), NEW i \in 1 .. Len(s)
          PROVE  s[i] \in S
      OBVIOUS
    <3>2. AdapterList[a] \in [name : STRING, addresses : Seq(IpAddresses)]
      BY ONLY <3>1, AdapterAssumption, a \in Adapters, Zenon DEF Adapters
    <3>3. AdapterList[a].addresses \in Seq(IpAddresses)
      BY ONLY <3>2
    <3>4. fits => 1 \in 1 .. Len(AdapterList[a].addresses)
      BY BuildAssumption
    <3> QED BY ONLY <3>1, <3>3, <3>4
  <2> HIDE DEF fits, sym
  <2>3. Readable(names, sym)
    BY <2>1, <2>2 DEF Readable, NamesFit
  <2> QED BY <2>3 DEF sym
<1>3. ASSUME Windows, NEW p \in Ports PROVE Readable(names, PortToSym(p))
  <2>1. PortToSym(p).tail = ""
    BY <1>3 DEF PortToSym
  <2> QED BY <2>1 DEF Readable
<1> QED BY <1>1, <1>2, <1>3, TextAssumption DEF Readable, NamesFit

\* On Windows no symbol that can be read leads to a port.
LEMMA ReadableFindsNoPort ==
    ASSUME PortsApart, NEW names, NamesFit(names), Windows, NEW sym, Readable(names, sym)
    PROVE  PortFind(sym) = Null
<1>1. CASE sym.tail = ""
  BY <1>1 DEF PortFind, ParsesAsPort
<1>2. CASE sym.tail # ""
  <2>1. sym.head \in names /\ sym.tail \in IpAddresses
    BY <1>2 DEF Readable
  <2>2. \A p \in Ports : ~SharesPort(sym, p)
    BY <2>1 DEF SharesPort, NamesFit
  <2>3. IF PortFind(sym) = Null THEN \A p \in Ports : ~SharesPort(sym, p)
        ELSE PortFind(sym) \in Ports /\ SharesPort(sym, PortFind(sym))
    BY <1>2, PortFound
  <2> QED BY <2>2, <2>3
<1> QED BY <1>1, <1>2

\* A look-up leads to an interface that can be read, to the adapter it names,
\* and on Windows to no port.
LEMMA LookUpPlaces ==
    ASSUME PortsApart, NEW names, NamesFit(names), NEW c, NEW g, NEW d,
           c.protocol \in Protocols, d.protocol = c.protocol,
           Readable(names, c.interface), Windows => c.port = Null,
           c.protocol \in IpProtocols => IpFound(c, g, d),
           c.protocol \in SerialProtocols => SerialFound(c, d)
    PROVE  Readable(names, d.interface) /\ Placed(d) /\ (Windows => d.port = Null)
<1>1. CASE c.protocol \in IpProtocols
  <2>1. IpFound(c, g, d)
    BY <1>1
  <2>2. d.port = Null
    BY <2>1 DEF IpFound
  <2>3. CASE d.interface \in {All, Global}
    BY <2>2, <2>3, MadeReadable DEF Placed
  <2>4. CASE d.interface \notin {All, Global}
    <3>1. d.adapter = AdapterFind(c.interface) /\ d.adapter # Null /\ d.interface = AdapterToSym(d.adapter)
      BY <2>1, <2>4 DEF IpFound
    <3>2. d.adapter \in Adapters
      BY <3>1, FoundAdapter
    <3>3. d.interface.head = AdapterList[d.adapter].name
      <4>1. AdapterToSym(d.adapter).head = AdapterList[d.adapter].name
        BY DEF AdapterToSym
      <4> QED BY <3>1, <4>1
    <3>4. Readable(names, AdapterToSym(d.adapter))
      BY <3>2, MadeReadable
    <3> QED BY <2>2, <3>1, <3>2, <3>3, <3>4 DEF Placed
  <2> QED BY <2>3, <2>4
<1>2. CASE c.protocol \notin IpProtocols
  <2>1. SerialFound(c, d)
    BY <1>2 DEF Protocols
  <2>2. Placed(d)
    BY <1>2 DEF Placed
  <2>3. CASE Windows
    <3>1. PortFind(c.interface) = Null
      BY <2>3, ReadableFindsNoPort
    <3>2. d.port = Null /\ d.interface = None
      BY <2>1, <2>3, <3>1 DEF SerialFound
    <3> QED BY <2>2, <3>2, MadeReadable
  <2>4. CASE ~Windows
    BY <2>2, <2>4 DEF Readable
  <2> QED BY <2>3, <2>4
<1> QED BY <1>1, <1>2

\* No mode but Art-Net's is a broadcast.
LEMMA BroadcastsAreArtNet ==
    ASSUME NEW type \in Types, NEW p \in Protocols, NEW mode
    PROVE  SettledMode(type, p, mode) = "broadcast" => p = "artnet"
BY DEF SettledMode, Types, Protocols, IpProtocols, SerialProtocols

\* A universe is placed by the load of what was saved, ...
LEMMA LoadPlaces ==
    ASSUME PortsApart, NEW names, NamesFit(names), NEW c, Saved(names, c), NEW g
    PROVE  LET r == FromDictionary(ToDictionary(c), g) IN Saved(names, r) /\ Placed(r)
<1> DEFINE d == ToDictionary(c)
           want == Wanted(d.protocol, d.interface)
           opened == Opened(d.type, d.protocol, d.mode, d.interface, g)
           r == FromDictionary(d, g)
<1>1. d.type \in Types /\ d.protocol \in Protocols /\ d.interface = c.interface
  BY DEF ToDictionary, Saved
<1> HIDE DEF d
<1>2. /\ opened.protocol = d.protocol /\ opened.type \in Types
      /\ opened.mode = SettledMode(opened.type, d.protocol, d.mode)
      /\ d.protocol \in IpProtocols => IpFound(want, g, opened)
      /\ d.protocol \in SerialProtocols => SerialFound(want, opened)
  BY <1>1, OpenedFields DEF Types
<1>3. KeepsSettings(opened, r)
  BY <1>1, LoadOpens
<1>4. want.protocol = d.protocol /\ want.interface = c.interface /\ want.port = Null
  BY <1>1 DEF Wanted
<1> HIDE DEF opened, r, want
<1>5. Readable(names, opened.interface) /\ Placed(opened) /\ (Windows => opened.port = Null)
  BY <1>1, <1>2, <1>4, LookUpPlaces DEF Saved
<1>6. opened.mode = "broadcast" => opened.protocol = "artnet"
  BY <1>1, <1>2, BroadcastsAreArtNet
<1>7. Saved(names, r) /\ Placed(r)
  BY <1>1, <1>2, <1>3, <1>5, <1>6 DEF Saved, Placed, KeepsSettings
<1> QED BY <1>7 DEF r, d

\* ... by the choice of an interface, ...
LEMMA InterfacePlaces ==
    ASSUME PortsApart, NEW names, NamesFit(names), NEW c, Saved(names, c), NEW g,
           NEW sym, Readable(names, sym)
    PROVE  LET d == SetInterface(c, sym, g) IN Saved(names, d) /\ Placed(d)
<1> DEFINE n == [c EXCEPT !.interface = sym]
           d == SetInterface(c, sym, g)
<1>0. Shaped(c)
  BY DEF Saved
<1>1. KeepsRest(c, n) /\ n.interface = sym /\ n.port = c.port
  <2>1. n = [c EXCEPT !.interface = sym]
    OBVIOUS
  <2> HIDE DEF n
  <2> QED BY ONLY <1>0, <2>1, NameFields
<1>2. d = FindInterface(n, g)
  BY DEF SetInterface
<1> HIDE DEF n, d
<1>3. Shaped(n) /\ n.protocol = c.protocol /\ n.protocol \in Protocols
  BY <1>1 DEF KeepsRest, Saved
<1>4. /\ KeepsRest(n, d)
      /\ n.protocol \in IpProtocols => IpFound(n, g, d)
      /\ n.protocol \in SerialProtocols => SerialFound(n, d)
  BY <1>2, <1>3, InterfaceFound
<1>5. Readable(names, d.interface) /\ Placed(d) /\ (Windows => d.port = Null)
  BY <1>1, <1>3, <1>4, LookUpPlaces DEF Saved, KeepsRest
<1>6. Saved(names, d)
  BY <1>1, <1>4, <1>5 DEF Saved, KeepsRest
<1> QED BY <1>5, <1>6 DEF d

\* ... of a protocol, ...
LEMMA ProtocolPlaces ==
    ASSUME PortsApart, NEW names, NamesFit(names), NEW c, Saved(names, c), NEW g, NEW p \in Protocols
    PROVE  LET d == SetProtocol(c, p, g) IN Saved(names, d) /\ Placed(d)
<1> DEFINE n == [c EXCEPT !.protocol = p]
           m == SetMode(n, c.mode)
           d == SetProtocol(c, p, g)
<1>0. Shaped(c)
  BY DEF Saved
<1>1. KeepsInterface(c, n) /\ n.protocol = p /\ n.type = c.type
  BY <1>0, ProtocolFields
<1>2. d = FindInterface(m, g)
  BY DEF SetProtocol
<1> HIDE DEF n, d
<1>3. Shaped(n)
  BY <1>1 DEF KeepsInterface
<1>4. /\ KeepsInterface(n, m) /\ m.protocol = p
      /\ m.type = (IF p = "opendmxusb" THEN "output" ELSE c.type)
      /\ m.mode = SettledMode(c.type, p, c.mode)
  BY <1>1, <1>3, ModeSettled
<1> HIDE DEF m
<1>5. Shaped(m) /\ m.interface = c.interface /\ m.port = c.port
  BY <1>1, <1>4 DEF KeepsInterface
<1>6. /\ KeepsRest(m, d)
      /\ m.protocol \in IpProtocols => IpFound(m, g, d)
      /\ m.protocol \in SerialProtocols => SerialFound(m, d)
  BY <1>2, <1>4, <1>5, InterfaceFound
<1>7. Readable(names, d.interface) /\ Placed(d) /\ (Windows => d.port = Null)
  BY <1>4, <1>5, <1>6, LookUpPlaces DEF Saved, KeepsRest
<1>8. m.mode = "broadcast" => p = "artnet"
  BY <1>4, BroadcastsAreArtNet DEF Saved
<1>9. m.type \in Types
  BY <1>4 DEF Saved, Types
<1>10. Saved(names, d)
  BY <1>4, <1>6, <1>7, <1>8, <1>9 DEF Saved, KeepsRest
<1> QED BY <1>7, <1>10 DEF d

\* ... and left where it is by that of a mode or of addresses.
LEMMA ModePlaces ==
    ASSUME NEW names, NEW c, Saved(names, c), Placed(c), NEW mode
    PROVE  LET d == SetMode(c, mode) IN Saved(names, d) /\ Placed(d)
<1> DEFINE d == SetMode(c, mode)
<1>1. /\ KeepsInterface(c, d) /\ d.protocol = c.protocol
      /\ d.type = (IF c.protocol = "opendmxusb" THEN "output" ELSE c.type)
      /\ d.mode = SettledMode(c.type, c.protocol, mode)
  BY ModeSettled DEF Saved
<1> HIDE DEF d
<1>2. d.mode = "broadcast" => d.protocol = "artnet"
  BY <1>1, BroadcastsAreArtNet DEF Saved
<1>3. d.type \in Types
  BY <1>1 DEF Saved, Types
<1> QED BY <1>1, <1>2, <1>3 DEF Saved, Placed, KeepsInterface, d

LEMMA UnicastPlaces ==
    ASSUME NEW names, NEW c, Saved(names, c), Placed(c), NEW list
    PROVE  LET d == SetUnicast(c, list) IN Saved(names, d) /\ Placed(d)
<1> DEFINE d == SetUnicast(c, list)
<1>1. KeepsSettings(c, d)
  BY UnicastSet DEF Saved
<1> HIDE DEF d
<1> QED BY <1>1 DEF Saved, Placed, KeepsSettings, d
==================================================================================
