-------------------------- MODULE UniverseConfigProofs --------------------------
(***************************************************************************)
(* Proofs about UniverseConfig and QuickPatch for any machine, any ranges, *)
(* any inputs and any bounds.                                              *)
(*                                                                         *)
(* Consistent is the inductive invariant.  Each setter keeps it: the mode  *)
(* setter establishes that the menus offer what is set and that the number *)
(* is in range whatever the record was before, and the look-up of the      *)
(* interface establishes that the name matches the handle.  Loading is a   *)
(* sequence of setters from the default record.                            *)
(*                                                                         *)
(* A clone replays every setter, so it is the record again where each      *)
(* setter keeps what an earlier one set.  A universe that follows the      *)
(* global interface drifts only by a change of that: GlobalInv.  A port    *)
(* stays because no setter clears it: the look-ups find another port or    *)
(* keep the one there is.  A load shows what was saved because Bounded     *)
(* makes every clamp of the load change nothing.                           *)
(*                                                                         *)
(* Of a patch the invariant says that its universes are what the loop made *)
(* of the message, with the global interfaces as they are.  What the loop  *)
(* made is read off Opened, which a patch and a load share: no setter      *)
(* takes back what an earlier one set.                                     *)
(***************************************************************************)
EXTENDS UniverseConfig, QuickPatch, UniverseRecordProofs

Consistent(c) == Good(c) /\ Offered(c) /\ InRange(c) /\ Matches(c)

IInv == Consistent(config) /\ KnownGlobals(globalAdapter)

------------------------------------------------------------------------------
(* The setters                                                             *)

LEMMA ModeSet ==
    ASSUME NEW c, Good(c), NEW mode
    PROVE  LET d == SetMode(c, mode)
           IN /\ Good(d) /\ Offered(d) /\ InRange(d)
              /\ d.protocol = c.protocol /\ d.interface = c.interface
              /\ d.adapter = c.adapter /\ d.port = c.port
<1> DEFINE d == SetMode(c, mode)
<1>1. /\ d.type = (IF c.protocol = "opendmxusb" THEN "output" ELSE c.type)
      /\ d.mode = SettledMode(c.type, c.protocol, mode)
      /\ d.universe = ClampUniverse(c.protocol, c.universe)
      /\ d.protocol = c.protocol /\ d.interface = c.interface
      /\ d.adapter = c.adapter /\ d.port = c.port
      /\ Shaped(d)
  BY DEF SetMode, Good, Shaped, Fields
<1>2. c.protocol \in Protocols /\ c.type \in Types /\ c.universe \in Int
  BY DEF Good
<1>3. ClampUniverse(c.protocol, c.universe) \in Int /\ ClampUniverse(c.protocol, c.universe) \in Minimum[c.protocol] .. Maximum[c.protocol]
  <2>1. Minimum[c.protocol] \in Int /\ Maximum[c.protocol] \in Int /\ Minimum[c.protocol] <= Maximum[c.protocol]
    BY <1>2, RangeAssumption
  <2> QED BY <2>1, <1>2 DEF ClampUniverse, Clamp
<1> HIDE DEF d
<1>4. Good(d)
  BY <1>1, <1>2, <1>3 DEF Good, Types
<1>5. Offered(d)
  BY <1>1, <1>2 DEF Offered, TypeMenu, ModeMenu, SettledMode, Types, Protocols, IpProtocols, SerialProtocols
<1>6. InRange(d)
  BY <1>1, <1>3 DEF InRange, NumberFits
<1> QED BY <1>1, <1>4, <1>5, <1>6 DEF d

LEMMA DefaultConsistent == Consistent(Default)
<1>1. Good(Default)
  BY DEF Good, Shaped, Fields, Default, Types, Protocols, IpProtocols
<1>2. Offered(Default)
  BY DEF Offered, Default, TypeMenu, ModeMenu, Types
<1>3. InRange(Default)
  BY RangeAssumption DEF InRange, NumberFits, Default, Protocols, IpProtocols
<1>4. Matches(Default)
  BY DEF Matches, Default, SerialProtocols, IpProtocols, All, Global, Null
<1> QED BY <1>1, <1>2, <1>3, <1>4 DEF Consistent

\* Changing a field that the menus and the range do not look at, the handles
\* aside, keeps the rest.
LEMMA OtherField ==
    ASSUME NEW c, Consistent(c), NEW v
    PROVE  /\ Consistent([c EXCEPT !.internal = v])
           /\ Consistent([c EXCEPT !.priority = v])
           /\ Consistent([c EXCEPT !.unicast = v])
<1>1. ASSUME NEW d, Shaped(d), d.type = c.type, d.protocol = c.protocol, d.mode = c.mode,
             d.interface = c.interface, d.universe = c.universe,
             d.adapter = c.adapter, d.port = c.port
      PROVE  Consistent(d)
  BY <1>1 DEF Consistent, Good, Offered, InRange, NumberFits, Matches
<1>2. Shaped(c)
  BY DEF Consistent, Good
<1>3. Consistent([c EXCEPT !.internal = v])
  <2> DEFINE d == [c EXCEPT !.internal = v]
  <2>1. /\ Shaped(d) /\ d.type = c.type /\ d.protocol = c.protocol /\ d.mode = c.mode
        /\ d.interface = c.interface /\ d.universe = c.universe
        /\ d.adapter = c.adapter /\ d.port = c.port
    BY <1>2 DEF Shaped, Fields
  <2> HIDE DEF d
  <2>2. Consistent(d)
    BY <1>1, <2>1
  <2> QED BY <2>2 DEF d
<1>4. Consistent([c EXCEPT !.priority = v])
  <2> DEFINE d == [c EXCEPT !.priority = v]
  <2>1. /\ Shaped(d) /\ d.type = c.type /\ d.protocol = c.protocol /\ d.mode = c.mode
        /\ d.interface = c.interface /\ d.universe = c.universe
        /\ d.adapter = c.adapter /\ d.port = c.port
    BY <1>2 DEF Shaped, Fields
  <2> HIDE DEF d
  <2>2. Consistent(d)
    BY <1>1, <2>1
  <2> QED BY <2>2 DEF d
<1>5. Consistent([c EXCEPT !.unicast = v])
  <2> DEFINE d == [c EXCEPT !.unicast = v]
  <2>1. /\ Shaped(d) /\ d.type = c.type /\ d.protocol = c.protocol /\ d.mode = c.mode
        /\ d.interface = c.interface /\ d.universe = c.universe
        /\ d.adapter = c.adapter /\ d.port = c.port
    BY <1>2 DEF Shaped, Fields
  <2> HIDE DEF d
  <2>2. Consistent(d)
    BY <1>1, <2>1
  <2> QED BY <2>2 DEF d
<1> QED BY <1>3, <1>4, <1>5

\* A new interface and new handles of the right family keep the rest.
LEMMA HandlesSet ==
    ASSUME NEW c, Good(c), Offered(c), InRange(c),
           NEW d, Shaped(d), d.type = c.type, d.protocol = c.protocol, d.mode = c.mode,
           d.universe = c.universe,
           d.adapter \in Adapters \cup {Null}, d.port \in Ports \cup {Null}
    PROVE  Good(d) /\ Offered(d) /\ InRange(d)
BY DEF Good, Offered, InRange, NumberFits

\* Whatever the interface was, its look-up makes name and handles agree.
LEMMA Found ==
    ASSUME NEW c, Good(c), Offered(c), InRange(c), NEW g, KnownGlobals(g)
    PROVE  Consistent(FindInterface(c, g))
<1>1. c.protocol \in Protocols /\ c.port \in Ports \cup {Null} /\ Shaped(c)
  BY DEF Good
<1>2. Null \in Adapters \cup {Null} /\ Null \in Ports \cup {Null}
  OBVIOUS
<1>3. CASE c.protocol \in IpProtocols
  <2>1. g[c.protocol] \in Adapters \cup {Null} /\ c.protocol \notin SerialProtocols
    BY <1>3 DEF KnownGlobals, IpProtocols, SerialProtocols
  <2>2. FindInterface(c, g) = FindIpInterface(c, g)
    BY <1>3 DEF FindInterface
  <2>3. CASE c.interface = All
    <3> DEFINE d == [c EXCEPT !.adapter = Null, !.port = Null]
    <3>1. FindInterface(c, g) = d
      BY <2>2, <2>3 DEF FindIpInterface
    <3>2. /\ Shaped(d) /\ d.type = c.type /\ d.protocol = c.protocol /\ d.mode = c.mode
          /\ d.universe = c.universe /\ d.interface = c.interface
          /\ d.adapter = Null /\ d.port = Null
      BY <1>1 DEF Shaped, Fields
    <3> HIDE DEF d
    <3>3. Matches(d)
      BY <3>2, <2>1, <2>3 DEF Matches
    <3> QED BY <3>1, <3>2, <3>3, <1>2, HandlesSet DEF Consistent
  <2>4. CASE /\ c.interface # All
             /\ c.interface \in {Global, None} \/ ~ParsesAsAdapter(c.interface)
    <3> DEFINE d == FollowGlobal(c, g)
    <3>1. FindInterface(c, g) = d
      BY <2>2, <2>4 DEF FindIpInterface
    <3>2. /\ Shaped(d) /\ d.type = c.type /\ d.protocol = c.protocol /\ d.mode = c.mode
          /\ d.universe = c.universe /\ d.interface = Global
          /\ d.adapter = g[c.protocol] /\ d.port = Null
      BY <1>1 DEF Shaped, Fields, FollowGlobal
    <3> HIDE DEF d
    <3>3. Matches(d)
      <4>1. Global # All
        BY DEF Global, All
      <4> QED BY <4>1, <3>2, <2>1 DEF Matches
    <3> QED BY <3>1, <3>2, <3>3, <1>2, <2>1, HandlesSet DEF Consistent
  <2>5. CASE /\ c.interface # All
             /\ ~(c.interface \in {Global, None} \/ ~ParsesAsAdapter(c.interface))
    <3> DEFINE a == AdapterFind(c.interface)
               d == [c EXCEPT !.adapter = a, !.port = Null,
                              !.interface = IF a = Null THEN All ELSE AdapterToSym(a)]
    <3>1. FindInterface(c, g) = d
      BY <2>2, <2>5 DEF FindIpInterface
    <3>2. a \in Adapters \cup {Null}
      BY FoundAdapter
    <3> HIDE DEF a
    <3>3. /\ Shaped(d) /\ d.type = c.type /\ d.protocol = c.protocol /\ d.mode = c.mode
          /\ d.universe = c.universe
          /\ d.interface = (IF a = Null THEN All ELSE AdapterToSym(a))
          /\ d.adapter = a /\ d.port = Null
      BY <1>1 DEF Shaped, Fields
    <3> HIDE DEF d
    <3>4. a # Null => AdapterToSym(a) # All
      BY <3>2, NameAssumption
    <3>5. Matches(d)
      BY <3>3, <3>4, <2>1 DEF Matches
    <3> QED BY <3>1, <3>2, <3>3, <3>5, <1>2, HandlesSet DEF Consistent
  <2> QED BY <2>3, <2>4, <2>5
<1>4. CASE c.protocol \notin IpProtocols
  <2> DEFINE found == PortFind(c.interface)
             p == IF found = Null THEN c.port ELSE found
             d == [c EXCEPT !.adapter = Null, !.port = p,
                            !.interface = IF p = Null THEN None ELSE PortToSym(p)]
  <2>1. FindInterface(c, g) = d
    BY <1>4 DEF FindInterface, FindSerialInterface
  <2>2. p \in Ports \cup {Null}
    BY <1>1, FoundPort
  <2> HIDE DEF p
  <2>3. /\ Shaped(d) /\ d.type = c.type /\ d.protocol = c.protocol /\ d.mode = c.mode
        /\ d.universe = c.universe
        /\ d.interface = (IF p = Null THEN None ELSE PortToSym(p))
        /\ d.adapter = Null /\ d.port = p
    BY <1>1 DEF Shaped, Fields
  <2> HIDE DEF d
  <2>4. Matches(d)
    BY <2>3, <1>1, <1>4 DEF Matches, Protocols
  <2> QED BY <2>1, <2>2, <2>3, <2>4, <1>2, HandlesSet DEF Consistent
<1> QED BY <1>3, <1>4

------------------------------------------------------------------------------
(* Each operation keeps the record consistent                              *)

LEMMA ModeKeeps ==
    ASSUME NEW c, Consistent(c), NEW mode
    PROVE  Consistent(SetMode(c, mode))
<1>1. Good(c) /\ Matches(c)
  BY DEF Consistent
<1> DEFINE d == SetMode(c, mode)
<1>2. /\ Good(d) /\ Offered(d) /\ InRange(d)
      /\ d.protocol = c.protocol /\ d.interface = c.interface
      /\ d.adapter = c.adapter /\ d.port = c.port
  BY <1>1, ModeSet
<1> HIDE DEF d
<1>3. Matches(d)
  BY <1>1, <1>2 DEF Matches
<1>4. Consistent(d)
  BY <1>2, <1>3 DEF Consistent
<1> QED BY <1>4 DEF d

LEMMA TypeKeeps ==
    ASSUME NEW c, Consistent(c), NEW type \in Types
    PROVE  Consistent(SetType(c, type))
<1> DEFINE b == [c EXCEPT !.type = type]
           d == SetMode(b, c.mode)
<1>1. Good(c) /\ Matches(c)
  BY DEF Consistent
<1>2. /\ Shaped(b) /\ b.type = type /\ b.protocol = c.protocol
      /\ b.universe = c.universe /\ b.interface = c.interface
      /\ b.adapter = c.adapter /\ b.port = c.port
  BY <1>1 DEF Good, Shaped, Fields
<1> HIDE DEF b
<1>3. Good(b)
  BY <1>1, <1>2 DEF Good
<1>4. /\ Good(d) /\ Offered(d) /\ InRange(d)
      /\ d.protocol = b.protocol /\ d.interface = b.interface
      /\ d.adapter = b.adapter /\ d.port = b.port
  BY <1>3, ModeSet
<1> HIDE DEF d
<1>5. Matches(d)
  BY <1>1, <1>2, <1>4 DEF Matches
<1>6. Consistent(d)
  BY <1>4, <1>5 DEF Consistent
<1> QED BY <1>6 DEF d, b, SetType

LEMMA ProtocolKeeps ==
    ASSUME NEW c, Consistent(c), NEW p \in Protocols, NEW g, KnownGlobals(g)
    PROVE  Consistent(SetProtocol(c, p, g))
<1> DEFINE b == [c EXCEPT !.protocol = p]
           d == SetMode(b, c.mode)
<1>1. Good(c)
  BY DEF Consistent
<1>2. /\ Shaped(b) /\ b.type = c.type /\ b.protocol = p /\ b.universe = c.universe
      /\ b.adapter = c.adapter /\ b.port = c.port
  BY <1>1 DEF Good, Shaped, Fields
<1> HIDE DEF b
<1>3. Good(b)
  BY <1>1, <1>2 DEF Good
<1>4. Good(d) /\ Offered(d) /\ InRange(d)
  BY <1>3, ModeSet
<1> HIDE DEF d
<1>5. Consistent(FindInterface(d, g))
  BY <1>4, Found
<1> QED BY <1>5 DEF d, b, SetProtocol

LEMMA InterfaceKeeps ==
    ASSUME NEW c, Consistent(c), NEW sym, NEW g, KnownGlobals(g)
    PROVE  Consistent(SetInterface(c, sym, g))
<1> DEFINE d == [c EXCEPT !.interface = sym]
<1>1. Good(c) /\ Offered(c) /\ InRange(c)
  BY DEF Consistent
<1>2. /\ Shaped(d) /\ d.type = c.type /\ d.protocol = c.protocol /\ d.mode = c.mode
      /\ d.universe = c.universe /\ d.adapter = c.adapter /\ d.port = c.port
  BY <1>1 DEF Good, Shaped, Fields
<1> HIDE DEF d
<1>3. c.adapter \in Adapters \cup {Null} /\ c.port \in Ports \cup {Null}
  BY <1>1 DEF Good
<1>4. Good(d) /\ Offered(d) /\ InRange(d)
  BY <1>1, <1>2, <1>3, HandlesSet
<1>5. Consistent(FindInterface(d, g))
  BY <1>4, Found
<1> QED BY <1>5 DEF d, SetInterface

LEMMA CloneKeeps ==
    ASSUME NEW c, Consistent(c), NEW g, KnownGlobals(g)
    PROVE  Consistent(Clone(c, g))
<1> DEFINE d == [c EXCEPT !.adapter = Null, !.port = Null]
<1>1. Good(c) /\ Offered(c) /\ InRange(c)
  BY DEF Consistent
<1>2. /\ Shaped(d) /\ d.type = c.type /\ d.protocol = c.protocol /\ d.mode = c.mode
      /\ d.universe = c.universe /\ d.adapter = Null /\ d.port = Null
  BY <1>1 DEF Good, Shaped, Fields
<1> HIDE DEF d
<1>3. Null \in Adapters \cup {Null} /\ Null \in Ports \cup {Null}
  OBVIOUS
<1>4. Good(d) /\ Offered(d) /\ InRange(d)
  BY <1>1, <1>2, <1>3, HandlesSet
<1>5. Consistent(FindInterface(d, g))
  BY <1>4, Found
<1> QED BY <1>5 DEF d, Clone

LEMMA UniverseKeeps ==
    ASSUME NEW c, Consistent(c), NEW n \in Int
    PROVE  Consistent(SetUniverse(c, n))
<1> DEFINE v == IF c.protocol \in IpProtocols THEN ClampUniverse(c.protocol, n) ELSE n
           d == [c EXCEPT !.universe = v]
<1>1. Good(c) /\ Offered(c) /\ Matches(c)
  BY DEF Consistent
<1>2. c.protocol \in Protocols
  BY <1>1 DEF Good
<1>3. v \in Int /\ (c.protocol \in IpProtocols => v \in Minimum[c.protocol] .. Maximum[c.protocol])
  <2>1. /\ Minimum[c.protocol] \in Int /\ Maximum[c.protocol] \in Int
        /\ Minimum[c.protocol] <= Maximum[c.protocol]
    BY <1>2, RangeAssumption
  <2> QED BY <2>1 DEF ClampUniverse, Clamp
<1> HIDE DEF v
<1>4. /\ Shaped(d) /\ d.type = c.type /\ d.protocol = c.protocol /\ d.mode = c.mode
      /\ d.universe = v /\ d.interface = c.interface
      /\ d.adapter = c.adapter /\ d.port = c.port
  BY <1>1 DEF Good, Shaped, Fields
<1> HIDE DEF d
<1>5. Good(d)
  BY <1>1, <1>3, <1>4 DEF Good
<1>6. Offered(d) /\ InRange(d) /\ Matches(d)
  BY <1>1, <1>3, <1>4 DEF Offered, InRange, NumberFits, Matches
<1>7. Consistent(d)
  BY <1>5, <1>6 DEF Consistent
<1> QED BY <1>7 DEF d, v, SetUniverse

LEMMA OthersKeep ==
    ASSUME NEW c, Consistent(c), NEW n
    PROVE  /\ Consistent(SetInternal(c, n))
           /\ Consistent(SetPriority(c, n))
           /\ Consistent(SetUnicast(c, n))
<1>1. Consistent(SetInternal(c, n))
  BY OtherField DEF SetInternal
<1>2. Consistent(SetPriority(c, n))
  BY OtherField DEF SetPriority
<1>3. Consistent(SetUnicast(c, n))
  BY OtherField DEF SetUnicast
<1> QED BY <1>1, <1>2, <1>3

LEMMA IncrementKeeps ==
    ASSUME NEW c, Consistent(c), NEW n \in Int
    PROVE  Consistent(Increment(c, n))
<1>1. Consistent(SetInternal(c, c.internal + n))
  BY OthersKeep
<1>2. c.universe + n \in Int
  BY DEF Consistent, Good
<1> QED BY <1>1, <1>2, UniverseKeeps DEF Increment

\* What is saved of a consistent universe is loaded as a consistent one.
LEMMA LoadKeeps ==
    ASSUME NEW c, Consistent(c), NEW g, KnownGlobals(g)
    PROVE  Consistent(FromDictionary(ToDictionary(c), g))
<1> DEFINE d == ToDictionary(c)
           type == SetType(Default, d.type)
           protocol == SetProtocol(type, d.protocol, g)
           mode == SetMode(protocol, d.mode)
           interface == SetInterface(mode, d.interface, g)
           internal == SetInternal(interface, d.internal)
           universe == SetUniverse(internal, d.universe)
           priority == SetPriority(universe, d.priority)
<1>1. d.type \in Types /\ d.protocol \in Protocols /\ d.universe \in Int
  BY DEF ToDictionary, Consistent, Good
<1>2. FromDictionary(d, g) = SetUnicast(priority, d.unicast)
  BY DEF FromDictionary
<1> HIDE DEF d
<1>3. Consistent(type)
  BY <1>1, DefaultConsistent, TypeKeeps
<1> HIDE DEF type
<1>4. Consistent(protocol)
  BY <1>1, <1>3, ProtocolKeeps
<1> HIDE DEF protocol
<1>5. Consistent(mode)
  BY <1>4, ModeKeeps
<1> HIDE DEF mode
<1>6. Consistent(interface)
  BY <1>5, InterfaceKeeps
<1> HIDE DEF interface
<1>7. Consistent(internal)
  BY <1>6, OthersKeep
<1> HIDE DEF internal
<1>8. Consistent(universe)
  BY <1>1, <1>7, UniverseKeeps
<1> HIDE DEF universe
<1>9. Consistent(priority)
  BY <1>8, OthersKeep
<1> HIDE DEF priority
<1>10. Consistent(SetUnicast(priority, d.unicast))
  BY <1>9, OthersKeep
<1> QED BY <1>2, <1>10 DEF d

------------------------------------------------------------------------------
(* The invariant                                                           *)

LEMMA GlobalFound ==
    ASSUME NEW sym
    PROVE  GlobalFind(sym) \in Adapters \cup {Null}
BY FoundAdapter DEF GlobalFind

LEMMA NoGlobals == KnownGlobals(NoAdapters)
BY DEF KnownGlobals, NoAdapters

\* A service without preferences is consistent.
LEMMA InitConsistent == Init => IInv
BY DefaultConsistent, NoGlobals DEF Init, IInv

LEMMA EditConsistent ==
    ASSUME IInv, Edit
    PROVE  IInv'
<1>1. Consistent(config) /\ KnownGlobals(globalAdapter)
  BY DEF IInv
<1>2. globalAdapter' = globalAdapter
  BY DEF Edit, globals
<1>3. ASSUME ChangeType PROVE Consistent(config')
  BY <1>1, <1>3, TypeKeeps DEF ChangeType
<1>4. ASSUME ChangeProtocol PROVE Consistent(config')
  BY <1>1, <1>4, ProtocolKeeps DEF ChangeProtocol
<1>5. ASSUME ChangeMode PROVE Consistent(config')
  BY <1>1, <1>5, ModeKeeps DEF ChangeMode
<1>6. ASSUME ChangeInterface PROVE Consistent(config')
  BY <1>1, <1>6, InterfaceKeeps DEF ChangeInterface
<1>7. ASSUME ChangeInternal PROVE Consistent(config')
  BY <1>1, <1>7, OthersKeep DEF ChangeInternal
<1>8. ASSUME ChangeUniverse PROVE Consistent(config')
  BY <1>1, <1>8, UniverseKeeps, InputAssumption DEF ChangeUniverse
<1>9. ASSUME ChangePriority PROVE Consistent(config')
  BY <1>1, <1>9, OthersKeep DEF ChangePriority
<1>10. ASSUME ChangeUnicast PROVE Consistent(config')
  BY <1>1, <1>10, OthersKeep DEF ChangeUnicast
<1>11. ASSUME CloneNext PROVE Consistent(config')
  BY <1>1, <1>11, CloneKeeps, IncrementKeeps, InputAssumption DEF CloneNext
<1>12. Consistent(config')
  BY <1>3, <1>4, <1>5, <1>6, <1>7, <1>8, <1>9, <1>10, <1>11 DEF Edit
<1>13. Consistent(config)'
  BY <1>12 DEF Consistent, Good, Shaped, Offered, InRange, NumberFits, Matches
<1> QED BY <1>1, <1>2, <1>13 DEF IInv, KnownGlobals

LEMMA NextConsistent ==
    ASSUME IInv, [Next]_vars
    PROVE  IInv'
<1>1. Consistent(config) /\ KnownGlobals(globalAdapter)
  BY DEF IInv
<1>2. ASSUME NEW p \in IpProtocols, ChangeGlobal(p)
      PROVE  IInv'
  <2>1. PICK sym \in SymbolInputs :
            globalAdapter' = [globalAdapter EXCEPT ![p] = GlobalFind(sym)]
    BY <1>2 DEF ChangeGlobal
  <2>2. KnownGlobals(globalAdapter')
    BY <1>1, <2>1, GlobalFound DEF KnownGlobals
  <2>3. config' = config
    BY <1>2 DEF ChangeGlobal
  <2> QED BY <1>1, <2>2, <2>3 DEF IInv, Consistent, Good, Shaped, Offered, InRange, NumberFits, Matches, KnownGlobals
<1>3. ASSUME Restart
      PROVE  IInv'
  <2>1. Consistent(config')
    BY <1>1, <1>3, NoGlobals, LoadKeeps DEF Restart
  <2>2. KnownGlobals(globalAdapter')
    BY <1>3, GlobalFound DEF Restart, KnownGlobals
  <2> QED BY <2>1, <2>2 DEF IInv, Consistent, Good, Shaped, Offered, InRange, NumberFits, Matches, KnownGlobals
<1>4. ASSUME UNCHANGED vars
      PROVE  IInv'
  BY <1>1, <1>4 DEF vars, IInv, Consistent, Good, Shaped, Offered, InRange, NumberFits, Matches, KnownGlobals
<1> QED BY <1>2, <1>3, <1>4, EditConsistent DEF Next

THEOREM ConsistentAlways == Spec => []IInv
BY InitConsistent, NextConsistent, PTL DEF Spec

\* Whatever order the attributes are set in, and through clones and reloads,
\* the type and the mode of a universe are ones its protocol's menus offer.
THEOREM MenusAlwaysOffer == Spec => []OfferedByMenus
<1>1. IInv => OfferedByMenus
  BY DEF IInv, Consistent, OfferedByMenus
<1> QED BY <1>1, ConsistentAlways, PTL

\* An Art-Net or sACN universe always has a number of its protocol's range,
\* whatever the ranges are.
THEOREM AlwaysInRange == Spec => []UniverseInRange
<1>1. IInv => UniverseInRange
  BY DEF IInv, Consistent, UniverseInRange
<1> QED BY <1>1, ConsistentAlways, PTL

\* On any machine whose adapters do not print as a reserved name, the name of
\* a universe's interface and its handles always agree.
THEOREM HandleAlwaysMatches == Spec => []InterfaceMatchesHandle
<1>1. IInv => InterfaceMatchesHandle
  BY DEF IInv, Consistent, InterfaceMatchesHandle
<1> QED BY <1>1, ConsistentAlways, PTL
------------------------------------------------------------------------------
(* What may leave the range                                                *)

SameProtocol(c, d) == d.protocol = c.protocol /\ d.type = c.type /\ d.mode = c.mode

\* The look-up of an interface changes nothing but the interface.
LEMMA FoundSame ==
    ASSUME NEW c, Shaped(c), NEW g
    PROVE  SameProtocol(c, FindInterface(c, g)) /\ FindInterface(c, g).universe = c.universe
<1>1. SameProtocol(c, FollowGlobal(c, g)) /\ FollowGlobal(c, g).universe = c.universe
  BY DEF SameProtocol, Shaped, Fields, FollowGlobal
<1>2. SameProtocol(c, FindIpInterface(c, g)) /\ FindIpInterface(c, g).universe = c.universe
  <2> DEFINE d == FindIpInterface(c, g)
  <2>1. PICK a, i :
            \/ d = FollowGlobal(c, g)
            \/ d = [c EXCEPT !.adapter = Null, !.port = Null]
            \/ d = [c EXCEPT !.adapter = a, !.port = Null, !.interface = i]
    BY DEF FindIpInterface
  <2> HIDE DEF d
  <2>2. SameProtocol(c, d) /\ d.universe = c.universe
    BY <2>1, <1>1 DEF SameProtocol, Shaped, Fields
  <2> QED BY <2>2 DEF d
<1>3. /\ SameProtocol(c, FindSerialInterface(c))
      /\ FindSerialInterface(c).universe = c.universe
  <2> DEFINE d == FindSerialInterface(c)
  <2>1. PICK p, i : d = [c EXCEPT !.adapter = Null, !.port = p, !.interface = i]
    BY DEF FindSerialInterface
  <2> HIDE DEF d
  <2>2. SameProtocol(c, d) /\ d.universe = c.universe
    BY <2>1 DEF SameProtocol, Shaped, Fields
  <2> QED BY <2>2 DEF d
<1> QED BY <1>2, <1>3 DEF FindInterface

\* The attributes that the protocol does not constrain change nothing else.
LEMMA OthersSame ==
    ASSUME NEW c, Shaped(c), NEW n
    PROVE  /\ SameProtocol(c, SetInternal(c, n)) /\ SetInternal(c, n).universe = c.universe
           /\ SameProtocol(c, SetPriority(c, n)) /\ SetPriority(c, n).universe = c.universe
           /\ SameProtocol(c, SetUnicast(c, n)) /\ SetUnicast(c, n).universe = c.universe
<1>1. SameProtocol(c, SetInternal(c, n)) /\ SetInternal(c, n).universe = c.universe
  BY DEF SameProtocol, Shaped, Fields, SetInternal
<1>2. SameProtocol(c, SetPriority(c, n)) /\ SetPriority(c, n).universe = c.universe
  BY DEF SameProtocol, Shaped, Fields, SetPriority
<1>3. SameProtocol(c, SetUnicast(c, n)) /\ SetUnicast(c, n).universe = c.universe
  <2>1. ASSUME NEW v
        PROVE  LET d == [c EXCEPT !.unicast = v]
               IN SameProtocol(c, d) /\ d.universe = c.universe
    BY DEF SameProtocol, Shaped, Fields
  <2>2. SameProtocol(c, c)
    BY DEF SameProtocol
  <2>3. PICK v : SetUnicast(c, n) = c \/ SetUnicast(c, n) = [c EXCEPT !.unicast = v]
    BY DEF SetUnicast
  <2> QED BY <2>1, <2>2, <2>3
<1> QED BY <1>1, <1>2, <1>3

\* A number given to an Art-Net or sACN universe is brought into range; that
\* of an Enttec universe is kept.
LEMMA NumberSet ==
    ASSUME NEW c, Good(c), NEW n \in Int
    PROVE  /\ SameProtocol(c, SetUniverse(c, n))
           /\ c.protocol \in IpProtocols => NumberFits(SetUniverse(c, n))
           /\ c.protocol \notin IpProtocols => SetUniverse(c, n).universe = n
<1> DEFINE v == IF c.protocol \in IpProtocols THEN ClampUniverse(c.protocol, n) ELSE n
           d == [c EXCEPT !.universe = v]
<1>1. c.protocol \in Protocols /\ Shaped(c)
  BY DEF Good
<1>2. c.protocol \in IpProtocols => v \in Minimum[c.protocol] .. Maximum[c.protocol]
  <2>1. /\ Minimum[c.protocol] \in Int /\ Maximum[c.protocol] \in Int
        /\ Minimum[c.protocol] <= Maximum[c.protocol]
    BY <1>1, RangeAssumption
  <2> QED BY <2>1 DEF ClampUniverse, Clamp
<1>3. c.protocol \notin IpProtocols => v = n
  OBVIOUS
<1> HIDE DEF v
<1>4. SameProtocol(c, d) /\ d.universe = v
  BY <1>1 DEF SameProtocol, Shaped, Fields
<1>5. SetUniverse(c, n) = d
  BY DEF v, SetUniverse
<1> HIDE DEF d
<1> QED BY <1>2, <1>3, <1>4, <1>5 DEF NumberFits, SameProtocol

\* The mode setter brings every number into the range of its protocol.
LEMMA ModeFits ==
    ASSUME NEW c, Good(c), NEW mode
    PROVE  NumberFits(SetMode(c, mode))
<1> DEFINE d == SetMode(c, mode)
<1>1. c.protocol \in Protocols /\ c.universe \in Int
  BY DEF Good
<1>2. ClampUniverse(c.protocol, c.universe) \in Minimum[c.protocol] .. Maximum[c.protocol]
  <2>1. /\ Minimum[c.protocol] \in Int /\ Maximum[c.protocol] \in Int
        /\ Minimum[c.protocol] <= Maximum[c.protocol]
    BY <1>1, RangeAssumption
  <2> QED BY <2>1, <1>1 DEF ClampUniverse, Clamp
<1>3. d.universe = ClampUniverse(c.protocol, c.universe) /\ d.protocol = c.protocol
  BY DEF SetMode, Good, Shaped, Fields
<1> HIDE DEF d
<1>4. NumberFits(d)
  BY <1>2, <1>3 DEF NumberFits
<1> QED BY <1>4 DEF d
\* Loading keeps the protocol, and a number that fits.
LEMMA LoadFits ==
    ASSUME NEW c, Consistent(c), NumberFits(c), NEW g, KnownGlobals(g)
    PROVE  NumberFits(FromDictionary(ToDictionary(c), g))
<1> DEFINE d == ToDictionary(c)
           type == SetType(Default, d.type)
           placed == [type EXCEPT !.protocol = d.protocol]
           moded == SetMode(placed, type.mode)
           protocol == FindInterface(moded, g)
           mode == SetMode(protocol, d.mode)
           named == [mode EXCEPT !.interface = d.interface]
           interface == FindInterface(named, g)
           internal == SetInternal(interface, d.internal)
           universe == SetUniverse(internal, d.universe)
           priority == SetPriority(universe, d.priority)
           result == SetUnicast(priority, d.unicast)
<1>1. /\ d.type \in Types /\ d.protocol \in Protocols /\ d.universe \in Int
      /\ d.protocol = c.protocol /\ d.universe = c.universe
  BY DEF ToDictionary, Consistent, Good
<1>2. FromDictionary(d, g) = result
  BY DEF FromDictionary, SetProtocol, SetInterface
<1> HIDE DEF d
<1>3. Consistent(type) /\ Good(type)
  BY <1>1, DefaultConsistent, TypeKeeps DEF Consistent
<1> HIDE DEF type
<1>4. Good(placed) /\ placed.protocol = d.protocol
  BY <1>1, <1>3 DEF Good, Shaped, Fields
<1> HIDE DEF placed
<1>5. Good(moded) /\ Offered(moded) /\ InRange(moded) /\ moded.protocol = d.protocol
  BY <1>4, ModeSet
<1> HIDE DEF moded
<1>6. Consistent(protocol) /\ Good(protocol) /\ protocol.protocol = d.protocol
  BY <1>5, Found, FoundSame DEF Consistent, Good, SameProtocol
<1> HIDE DEF protocol
<1>7. Consistent(mode) /\ Good(mode) /\ mode.protocol = d.protocol
  BY <1>6, ModeSet, ModeKeeps DEF Consistent
<1> HIDE DEF mode
<1>8. /\ Shaped(named) /\ named.protocol = d.protocol
      /\ Consistent(interface)
  <2>1. Shaped(named) /\ named.protocol = d.protocol
    BY <1>7 DEF Good, Shaped, Fields
  <2>2. Consistent(interface)
    BY <1>7, InterfaceKeeps DEF SetInterface
  <2> QED BY <2>1, <2>2
<1> HIDE DEF named
<1>9. interface.protocol = d.protocol /\ Shaped(interface)
  BY <1>8, FoundSame DEF SameProtocol, Consistent, Good
<1> HIDE DEF interface
<1>10. Consistent(internal) /\ Good(internal) /\ internal.protocol = d.protocol
  BY <1>8, <1>9, OthersKeep, OthersSame DEF SameProtocol, Consistent
<1> HIDE DEF internal
<1>11. Consistent(universe) /\ Shaped(universe) /\ universe.protocol = d.protocol
  BY <1>1, <1>10, UniverseKeeps, NumberSet DEF SameProtocol, Consistent, Good
<1>12. NumberFits(universe)
  <2>1. CASE internal.protocol \in IpProtocols
    BY <1>1, <1>10, <2>1, NumberSet
  <2>2. CASE internal.protocol \notin IpProtocols
    <3>1. universe.universe = d.universe
      BY <1>1, <1>10, <2>2, NumberSet
    <3> QED BY <3>1, <1>1, <1>11 DEF NumberFits
  <2> QED BY <2>1, <2>2
<1> HIDE DEF universe
<1>13. /\ Consistent(priority) /\ Shaped(priority)
       /\ priority.protocol = universe.protocol /\ priority.universe = universe.universe
  BY <1>11, OthersKeep, OthersSame DEF SameProtocol, Consistent, Good
<1> HIDE DEF priority
<1>14. result.protocol = priority.protocol /\ result.universe = priority.universe
  BY <1>13, OthersSame DEF SameProtocol
<1> HIDE DEF result
<1>15. NumberFits(result)
  BY <1>12, <1>13, <1>14 DEF NumberFits
<1> QED BY <1>2, <1>15 DEF d

\* What a number may do to a universe that fits.
LeavesByNumber(c, d) ==
    ~NumberFits(d) =>
        /\ d.protocol \in SerialProtocols /\ d.universe # c.universe
        /\ d.protocol = c.protocol /\ d.type = c.type /\ d.mode = c.mode

\* Something else has to change too before a number fits no more.
LEMMA SameFits ==
    ASSUME NEW c, NumberFits(c), NEW d, SameProtocol(c, d),
           c.protocol \in Protocols,
           \/ d.universe = c.universe
           \/ c.protocol \in IpProtocols => NumberFits(d)
    PROVE  LeavesByNumber(c, d)
<1>1. ASSUME d.universe = c.universe PROVE NumberFits(d)
  BY <1>1 DEF NumberFits, SameProtocol
<1>2. c.protocol \in IpProtocols \/ c.protocol \in SerialProtocols
  BY DEF Protocols
<1> QED BY <1>1, <1>2 DEF LeavesByNumber, SameProtocol
\* No edit of a universe takes it out of its range but a number.
LEMMA EditLeavesByNumber ==
    ASSUME IInv, Edit, NumberFits(config)
    PROVE  LeavesByNumber(config, config')
<1>1. /\ Consistent(config) /\ Good(config) /\ Shaped(config)
      /\ config.protocol \in Protocols /\ config.universe \in Int
      /\ KnownGlobals(globalAdapter)
  BY DEF IInv, Consistent, Good
<1>2. ASSUME NEW d, NumberFits(d)
      PROVE  LeavesByNumber(config, d)
  BY <1>2 DEF LeavesByNumber
<1>3. ASSUME ChangeType PROVE LeavesByNumber(config, config')
  <2>1. PICK type \in Types : config' = SetType(config, type)
    BY <1>3 DEF ChangeType
  <2> DEFINE b == [config EXCEPT !.type = type]
  <2>2. Good(b)
    BY <1>1 DEF Good, Shaped, Fields
  <2>3. config' = SetMode(b, config.mode)
    BY <2>1 DEF SetType
  <2> HIDE DEF b
  <2> QED BY <1>2, <2>2, <2>3, ModeFits
<1>4. ASSUME ChangeProtocol PROVE LeavesByNumber(config, config')
  <2>1. PICK p \in Protocols : config' = SetProtocol(config, p, globalAdapter)
    BY <1>4 DEF ChangeProtocol
  <2> DEFINE b == [config EXCEPT !.protocol = p]
             d == SetMode(b, config.mode)
  <2>2. Good(b)
    BY <1>1 DEF Good, Shaped, Fields
  <2>3. config' = FindInterface(d, globalAdapter)
    BY <2>1 DEF SetProtocol
  <2> HIDE DEF b
  <2>4. NumberFits(d) /\ Shaped(d)
    BY <2>2, ModeFits, ModeSet DEF Good
  <2> HIDE DEF d
  <2>5. NumberFits(config')
    BY <2>3, <2>4, FoundSame DEF NumberFits, SameProtocol
  <2> QED BY <1>2, <2>5
<1>5. ASSUME ChangeMode PROVE LeavesByNumber(config, config')
  BY <1>1, <1>2, <1>5, ModeFits DEF ChangeMode
<1>6. ASSUME ChangeInterface PROVE LeavesByNumber(config, config')
  <2>1. PICK sym \in SymbolInputs : config' = SetInterface(config, sym, globalAdapter)
    BY <1>6 DEF ChangeInterface
  <2> DEFINE d == [config EXCEPT !.interface = sym]
  <2>2. Shaped(d) /\ SameProtocol(config, d) /\ d.universe = config.universe
    BY <1>1 DEF SameProtocol, Shaped, Fields
  <2>3. config' = FindInterface(d, globalAdapter)
    BY <2>1 DEF SetInterface
  <2> HIDE DEF d
  <2>4. SameProtocol(config, config') /\ config'.universe = config.universe
    BY <2>2, <2>3, FoundSame DEF SameProtocol
  <2> QED BY <1>1, <2>4, SameFits
<1>7. ASSUME ChangeInternal \/ ChangePriority \/ ChangeUnicast
      PROVE  LeavesByNumber(config, config')
  <2>1. SameProtocol(config, config') /\ config'.universe = config.universe
    BY <1>1, <1>7, OthersSame DEF ChangeInternal, ChangePriority, ChangeUnicast
  <2> QED BY <1>1, <2>1, SameFits
<1>8. ASSUME ChangeUniverse PROVE LeavesByNumber(config, config')
  <2>1. PICK n \in Int : config' = SetUniverse(config, n)
    BY <1>8, InputAssumption DEF ChangeUniverse
  <2>2. /\ SameProtocol(config, config')
        /\ config.protocol \in IpProtocols => NumberFits(config')
    BY <1>1, <2>1, NumberSet
  <2> QED BY <1>1, <2>2, SameFits
<1>9. ASSUME CloneNext PROVE LeavesByNumber(config, config')
  <2>1. PICK n \in Int : config' = Increment(Clone(config, globalAdapter), n)
    BY <1>9, InputAssumption DEF CloneNext
  <2> DEFINE b == [config EXCEPT !.adapter = Null, !.port = Null]
             c == Clone(config, globalAdapter)
             d == SetInternal(c, c.internal + n)
  <2>2. Shaped(b) /\ SameProtocol(config, b)
    BY <1>1 DEF SameProtocol, Shaped, Fields
  <2>3. c = FindInterface(b, globalAdapter)
    BY DEF Clone
  <2> HIDE DEF b
  <2>4. Consistent(c) /\ Shaped(c) /\ c.universe \in Int
    BY <1>1, CloneKeeps DEF Consistent, Good
  <2>5. config' = SetUniverse(d, c.universe + n)
    BY <2>1 DEF Increment
  <2>6. SameProtocol(config, c)
    BY <2>2, <2>3, FoundSame DEF SameProtocol
  <2> HIDE DEF c
  <2>7. Good(d) /\ SameProtocol(c, d)
    BY <2>4, OthersKeep, OthersSame DEF Consistent
  <2> HIDE DEF d
  <2>8. c.universe + n \in Int
    BY <2>4
  <2>9. SameProtocol(d, config') /\ (d.protocol \in IpProtocols => NumberFits(config'))
    BY <2>5, <2>7, <2>8, NumberSet
  <2>10. /\ SameProtocol(config, config')
         /\ config.protocol \in IpProtocols => NumberFits(config')
    BY <2>6, <2>7, <2>9 DEF SameProtocol
  <2> QED BY <1>1, <2>10, SameFits
<1> QED BY <1>3, <1>4, <1>5, <1>6, <1>7, <1>8, <1>9 DEF Edit

\* However a universe is edited, cloned, saved and loaded, it leaves the range
\* of its protocol only when an Enttec universe is given a number (whose
\* setter does not clamp it), and then keeps its protocol, type and mode.
THEOREM LeavesRangeByNumber == Spec => RangeLeftOnlyByNumber
<1>1. ASSUME IInv, [Next]_vars, NumberFits(config)
      PROVE  LeavesByNumber(config, config')
  <2>1. Consistent(config) /\ config.protocol \in Protocols
    BY <1>1 DEF IInv, Consistent, Good
  <2>2. ASSUME config' = config PROVE NumberFits(config')
    BY <1>1, <2>2
  <2>3. ASSUME Restart PROVE NumberFits(config')
    BY <1>1, <2>1, <2>3, NoGlobals, LoadFits DEF Restart
  <2>4. \/ Edit
        \/ Restart
        \/ config' = config
    BY <1>1 DEF Next, vars, ChangeGlobal
  <2>5. ASSUME NumberFits(config') PROVE LeavesByNumber(config, config')
    BY <2>5 DEF LeavesByNumber
  <2> QED BY <1>1, <2>2, <2>3, <2>4, <2>5, EditLeavesByNumber
<1>2. ASSUME IInv, [Next]_vars
      PROVE  [NumberFits(config) /\ ~NumberFits(config') =>
                 /\ config'.protocol \in SerialProtocols
                 /\ config'.universe # config.universe
                 /\ config'.protocol = config.protocol
                 /\ config'.type = config.type /\ config'.mode = config.mode]_config
  BY <1>1, <1>2 DEF LeavesByNumber
<1> QED BY <1>2, ConsistentAlways, PTL DEF Spec, RangeLeftOnlyByNumber
------------------------------------------------------------------------------
(* Clones                                                                  *)

\* A named adapter prints as none of the reserved names when it is found by
\* its own name.
LEMMA NamedAdapter ==
    ASSUME NEW a \in Adapters, ParsesAsAdapter(AdapterToSym(a))
    PROVE  AdapterToSym(a) \notin {All, Global, None}
BY NameAssumption, Reserved

\* The interface of a universe that has not lost track of the global one, and
\* whose name leads back, is found again.
LEMMA CloneFinds ==
    ASSUME NEW c, Consistent(c), Resolvable(c), NEW g,
           c.protocol \in IpProtocols /\ c.interface = Global => c.adapter = g[c.protocol]
    PROVE  Clone(c, g) = c
<1> DEFINE b == [c EXCEPT !.adapter = Null, !.port = Null]
           d == FindInterface(b, g)
<1>1. /\ Shaped(c) /\ c.protocol \in Protocols /\ Matches(c)
      /\ c.adapter \in Adapters \cup {Null} /\ c.port \in Ports \cup {Null}
  BY DEF Consistent, Good
<1>2. KeepsRest(c, b) /\ b.interface = c.interface /\ b.adapter = Null /\ b.port = Null
  BY <1>1 DEF KeepsRest, Shaped, Fields
<1> HIDE DEF b
<1>3. /\ KeepsRest(b, d)
      /\ b.protocol \in IpProtocols => IpFound(b, g, d)
      /\ b.protocol \in SerialProtocols => SerialFound(b, d)
  BY <1>1, <1>2, InterfaceFound DEF KeepsRest
<1> HIDE DEF d
<1>4. b.protocol = c.protocol
  BY <1>2 DEF KeepsRest
<1>5. d.interface = c.interface /\ d.adapter = c.adapter /\ d.port = c.port
  <2>1. CASE c.protocol \in IpProtocols
    <3>1. IpFound(b, g, d) /\ c.protocol \notin SerialProtocols
      BY <1>3, <1>4, <2>1 DEF IpProtocols, SerialProtocols
    <3>2. c.interface \notin {All, Global} =>
             /\ c.interface = AdapterToSym(c.adapter) /\ c.adapter # Null
             /\ ParsesAsAdapter(c.interface) /\ AdapterFind(c.interface) = c.adapter
             /\ c.interface # None
      BY <1>1, <3>1, NamedAdapter DEF Matches, Resolvable
    <3> QED BY <1>1, <1>2, <1>4, <2>1, <3>1, <3>2, Reserved DEF IpFound, Matches
  <2>2. CASE c.protocol \in SerialProtocols
    <3>1. SerialFound(b, d)
      BY <1>3, <1>4, <2>2
    <3>2. CASE c.port = Null
      BY <1>1, <1>2, <2>2, <3>1, <3>2, Reserved DEF SerialFound, Matches
    <3>3. CASE c.port # Null
      <4>1. PortFind(c.interface) = c.port /\ c.interface = PortToSym(c.port) /\ c.adapter = Null
        BY <1>1, <2>2, <3>3 DEF Matches, Resolvable
      <4> QED BY <1>2, <3>1, <3>3, <4>1 DEF SerialFound
    <3> QED BY <3>2, <3>3
  <2> QED BY <1>1, <2>1, <2>2 DEF Protocols
<1>6. \A f \in Fields : d[f] = c[f]
  BY <1>2, <1>3, <1>5 DEF KeepsRest, Fields
<1>7. d = c
  BY <1>1, <1>3, <1>6, SameRecord DEF KeepsRest
<1> QED BY <1>7 DEF Clone, d, b

\* However a universe came about, its clone is the same universe with the same
\* handle, although the handles are looked up and not copied.
THEOREM CloneIsSame == Spec => []CloneIsFaithful
<1>1. IInv => CloneIsFaithful
  BY CloneFinds DEF IInv, CloneIsFaithful, FollowsGlobal
<1> QED BY <1>1, ConsistentAlways, PTL

------------------------------------------------------------------------------
(* Following the global interface                                          *)

Follows(c, g) == c.protocol \in IpProtocols /\ c.interface = Global => c.adapter = g[c.protocol]

\* A look-up that ends at "[global]" gives the adapter that this stands for.
LEMMA FoundFollows ==
    ASSUME NEW c, Shaped(c), c.protocol \in Protocols, NEW g
    PROVE  Follows(FindInterface(c, g), g)
<1> DEFINE d == FindInterface(c, g)
<1>1. KeepsRest(c, d) /\ (c.protocol \in IpProtocols => IpFound(c, g, d))
  BY InterfaceFound
<1> HIDE DEF d
<1>2. d.protocol = c.protocol
  BY <1>1 DEF KeepsRest
<1>3. ASSUME c.protocol \in IpProtocols, d.interface = Global
      PROVE  d.adapter = g[c.protocol]
  <2>1. IpFound(c, g, d)
    BY <1>1, <1>3
  <2>2. AdapterFind(c.interface) # Null => AdapterToSym(AdapterFind(c.interface)) # Global
    BY FoundAdapter, NameAssumption
  <2> QED BY <1>3, <2>1, <2>2, Reserved DEF IpFound
<1> QED BY <1>2, <1>3 DEF Follows, d

\* No edit makes a universe lose track of the global interface.
LEMMA EditFollows ==
    ASSUME IInv, Edit, Follows(config, globalAdapter)
    PROVE  Follows(config', globalAdapter)
<1>1. /\ Consistent(config) /\ Good(config) /\ Shaped(config)
      /\ config.protocol \in Protocols
  BY DEF IInv, Consistent, Good
<1>2. ASSUME NEW d, d.protocol = config.protocol, d.interface = config.interface,
             d.adapter = config.adapter
      PROVE  Follows(d, globalAdapter)
  BY <1>2 DEF Follows
<1>3. ASSUME ChangeType PROVE Follows(config', globalAdapter)
  <2>1. PICK type \in Types : config' = SetType(config, type)
    BY <1>3 DEF ChangeType
  <2> DEFINE b == [config EXCEPT !.type = type]
  <2>2. KeepsInterface(config, b) /\ b.protocol = config.protocol
    BY <1>1 DEF KeepsInterface, Shaped, Fields
  <2>3. config' = SetMode(b, config.mode)
    BY <2>1 DEF SetType
  <2> HIDE DEF b
  <2>4. KeepsInterface(b, config') /\ config'.protocol = b.protocol
    BY <2>2, <2>3, ModeSettled DEF KeepsInterface
  <2> QED BY <1>2, <2>2, <2>4 DEF KeepsInterface
<1>4. ASSUME ChangeProtocol PROVE Follows(config', globalAdapter)
  <2>1. PICK p \in Protocols : config' = SetProtocol(config, p, globalAdapter)
    BY <1>4 DEF ChangeProtocol
  <2> DEFINE b == [config EXCEPT !.protocol = p]
             d == SetMode(b, config.mode)
  <2>2. Shaped(b) /\ b.protocol = p
    BY <1>1 DEF Shaped, Fields
  <2>3. config' = FindInterface(d, globalAdapter)
    BY <2>1 DEF SetProtocol
  <2> HIDE DEF b
  <2>4. Shaped(d) /\ d.protocol = p
    BY <2>2, ModeSettled DEF KeepsInterface
  <2> HIDE DEF d
  <2> QED BY <2>3, <2>4, FoundFollows
<1>5. ASSUME ChangeMode PROVE Follows(config', globalAdapter)
  <2>1. PICK mode : config' = SetMode(config, mode)
    BY <1>5 DEF ChangeMode
  <2> QED BY <1>1, <1>2, <2>1, ModeSettled DEF KeepsInterface
<1>6. ASSUME ChangeInterface PROVE Follows(config', globalAdapter)
  <2>1. PICK sym : config' = SetInterface(config, sym, globalAdapter)
    BY <1>6 DEF ChangeInterface
  <2> DEFINE d == [config EXCEPT !.interface = sym]
  <2>2. Shaped(d) /\ d.protocol = config.protocol
    BY <1>1 DEF Shaped, Fields
  <2>3. config' = FindInterface(d, globalAdapter)
    BY <2>1 DEF SetInterface
  <2> HIDE DEF d
  <2> QED BY <1>1, <2>2, <2>3, FoundFollows
<1>7. ASSUME ChangeInternal PROVE Follows(config', globalAdapter)
  BY <1>1, <1>2, <1>7, InternalSet DEF ChangeInternal, KeepsSettings
<1>8. ASSUME ChangeUniverse PROVE Follows(config', globalAdapter)
  BY <1>1, <1>2, <1>8, UniverseSet DEF ChangeUniverse, KeepsSettings
<1>9. ASSUME ChangePriority PROVE Follows(config', globalAdapter)
  BY <1>1, <1>2, <1>9, PrioritySet DEF ChangePriority, KeepsSettings
<1>10. ASSUME ChangeUnicast PROVE Follows(config', globalAdapter)
  BY <1>1, <1>2, <1>10, UnicastSet DEF ChangeUnicast, KeepsSettings
<1>11. ASSUME CloneNext PROVE Follows(config', globalAdapter)
  <2>1. PICK n : config' = Increment(Clone(config, globalAdapter), n)
    BY <1>11 DEF CloneNext
  <2> DEFINE b == [config EXCEPT !.adapter = Null, !.port = Null]
             c == FindInterface(b, globalAdapter)
             d == SetInternal(c, c.internal + n)
  <2>2. Shaped(b) /\ b.protocol \in Protocols
    BY <1>1 DEF Shaped, Fields
  <2>3. config' = SetUniverse(d, c.universe + n)
    BY <2>1 DEF Increment, Clone
  <2> HIDE DEF b
  <2>4. Shaped(c) /\ Follows(c, globalAdapter)
    BY <2>2, InterfaceFound, FoundFollows DEF KeepsRest
  <2> HIDE DEF c
  <2>5. KeepsSettings(c, d)
    BY <2>4, InternalSet
  <2> HIDE DEF d
  <2>6. KeepsSettings(d, config')
    BY <2>3, <2>5, UniverseSet DEF KeepsSettings
  <2> QED BY <2>4, <2>5, <2>6 DEF Follows, KeepsSettings
<1> QED BY <1>3, <1>4, <1>5, <1>6, <1>7, <1>8, <1>9, <1>10, <1>11 DEF Edit

\* Two adapters print alike only when a symbol cannot tell them apart: same
\* name, and no address that fits or the same first one.
SymbolsTellApart == \A a, b \in Adapters : AdapterToSym(a) = AdapterToSym(b) => a = b

\* The global adapter is the one that the kept symbol stands for.
GlobalInv ==
    \A p \in IpProtocols :
        /\ globalAdapter[p] \in Adapters \cup {Null}
        /\ globalInterface[p] = IF globalAdapter[p] = Null THEN All
                                ELSE AdapterToSym(globalAdapter[p])

LEMMA GlobalFits ==
    ASSUME NEW sym
    PROVE  /\ GlobalFind(sym) \in Adapters \cup {Null}
           /\ GlobalKept(sym) = IF GlobalFind(sym) = Null THEN All
                                ELSE AdapterToSym(GlobalFind(sym))
BY GlobalFound DEF GlobalKept

\* What the setter of the global interface and a start leave behind.
LEMMA GlobalInvHolds == Spec => [](GlobalInv /\ globalInterface = [p \in IpProtocols |-> globalInterface[p]])
<1> DEFINE Inv == GlobalInv /\ globalInterface = [p \in IpProtocols |-> globalInterface[p]]
<1>1. Init => Inv
  BY DEF Init, GlobalInv, NoAdapters
<1>2. ASSUME IInv, Inv, [Next]_vars
      PROVE  Inv'
  <2>1. KnownGlobals(globalAdapter)
    BY <1>2 DEF IInv
  <2>2. CASE UNCHANGED globals
    BY <1>2, <2>2 DEF globals, GlobalInv
  <2>3. ASSUME NEW p \in IpProtocols, ChangeGlobal(p)
        PROVE  Inv'
    <3>1. PICK sym : /\ globalInterface' = [globalInterface EXCEPT ![p] = GlobalKept(sym)]
                     /\ globalAdapter' = [globalAdapter EXCEPT ![p] = GlobalFind(sym)]
      BY <2>3 DEF ChangeGlobal
    <3> DEFINE kept == GlobalKept(sym)
               found == GlobalFind(sym)
    <3>2. found \in Adapters \cup {Null} /\ kept = (IF found = Null THEN All ELSE AdapterToSym(found))
      BY GlobalFits
    <3> HIDE DEF kept, found
    <3>3. globalInterface' = [globalInterface EXCEPT ![p] = kept] /\ globalAdapter' = [globalAdapter EXCEPT ![p] = found]
      BY <3>1 DEF kept, found
    <3>4. globalInterface' = [q \in IpProtocols |-> globalInterface'[q]]
      BY <1>2, <3>3
    <3>5. ASSUME NEW q \in IpProtocols
          PROVE  /\ globalAdapter'[q] \in Adapters \cup {Null}
                 /\ globalInterface'[q] = IF globalAdapter'[q] = Null THEN All
                                          ELSE AdapterToSym(globalAdapter'[q])
      <4>1. CASE q = p
        <5>1. globalAdapter'[q] = found
          BY <2>1, <3>3, <4>1 DEF KnownGlobals
        <5>2. globalInterface'[q] = kept
          BY <1>2, <3>3, <4>1
        <5> QED BY <3>2, <5>1, <5>2
      <4>2. CASE q # p
        <5>1. globalAdapter'[q] = globalAdapter[q]
          BY <2>1, <3>3, <4>2 DEF KnownGlobals
        <5>2. globalInterface'[q] = globalInterface[q]
          BY <1>2, <3>3, <4>2
        <5> QED BY <1>2, <5>1, <5>2 DEF GlobalInv
      <4> QED BY <4>1, <4>2
    <3> QED BY <3>4, <3>5 DEF GlobalInv
  <2>4. CASE Restart
    BY <2>4, GlobalFits DEF Restart, GlobalInv
  <2> QED BY <1>2, <2>2, <2>3, <2>4 DEF Next, Edit, vars, globals
<1> QED BY <1>1, <1>2, ConsistentAlways, PTL DEF Spec

\* On a machine whose adapters all print differently, a universe set to
\* "[global]" loses track of the global interface only when that changes or the
\* program restarts: no edit, clone or patch of the universe does it.
THEOREM DriftOnlyByGlobal == ASSUME SymbolsTellApart PROVE Spec => DriftNeedsGlobalChange
<1>1. ASSUME IInv, GlobalInv, GlobalInv', [Next]_vars, FollowsGlobal, ~FollowsGlobal'
      PROVE  \/ globalInterface' # globalInterface
             \/ config' = FromDictionary(ToDictionary(config), NoAdapters)
  <2>1. ASSUME Edit PROVE FALSE
    <3>1. Follows(config', globalAdapter) /\ globalAdapter' = globalAdapter
      BY <1>1, <2>1, EditFollows DEF Edit, globals, Follows, FollowsGlobal
    <3> QED BY <1>1, <3>1 DEF Follows, FollowsGlobal
  <2>2. ASSUME NEW p \in IpProtocols, ChangeGlobal(p), globalInterface' = globalInterface
        PROVE  FALSE
    <3>1. config' = config
      BY <2>2 DEF ChangeGlobal
    <3>2. ASSUME NEW q \in IpProtocols PROVE globalAdapter'[q] = globalAdapter[q]
      <4>1. /\ globalAdapter[q] \in Adapters \cup {Null}
            /\ globalInterface[q] = IF globalAdapter[q] = Null THEN All
                                    ELSE AdapterToSym(globalAdapter[q])
        BY <1>1 DEF GlobalInv
      <4>2. /\ globalAdapter'[q] \in Adapters \cup {Null}
            /\ globalInterface[q] = IF globalAdapter'[q] = Null THEN All
                                    ELSE AdapterToSym(globalAdapter'[q])
        BY <1>1, <2>2 DEF GlobalInv
      <4> QED BY <4>1, <4>2, NameAssumption DEF SymbolsTellApart
    <3> QED BY <1>1, <3>1, <3>2 DEF FollowsGlobal
  <2>3. ASSUME Restart PROVE config' = FromDictionary(ToDictionary(config), NoAdapters)
    BY <2>3 DEF Restart
  <2>4. ASSUME UNCHANGED vars PROVE FALSE
    BY <1>1, <2>4 DEF vars, FollowsGlobal
  <2> QED BY <1>1, <2>1, <2>2, <2>3, <2>4 DEF Next
<1>2. IInv /\ GlobalInv /\ GlobalInv' /\ [Next]_vars =>
         [FollowsGlobal /\ ~FollowsGlobal' =>
             \/ globalInterface' # globalInterface
             \/ config' = FromDictionary(ToDictionary(config), NoAdapters)]_vars
  BY <1>1
<1> QED BY <1>2, ConsistentAlways, GlobalInvHolds, PTL DEF Spec, DriftNeedsGlobalChange

------------------------------------------------------------------------------
(* Keeping a serial port                                                   *)

\* A port that was found is there, or the universe is no serial one any more.
Stays(c, d) == c.port # Null => d.port # Null \/ d.protocol \in IpProtocols

\* A look-up leaves a port that was found, and finds one by its own name.
LEMMA FoundStays ==
    ASSUME NEW c, Shaped(c), c.protocol \in Protocols, NEW g,
           c.port # Null \/ PortFind(c.interface) # Null
    PROVE  LET d == FindInterface(c, g)
           IN d.port # Null \/ d.protocol \in IpProtocols
<1> DEFINE d == FindInterface(c, g)
<1>1. KeepsRest(c, d) /\ (c.protocol \in SerialProtocols => SerialFound(c, d))
  BY InterfaceFound
<1> HIDE DEF d
<1> QED BY <1>1 DEF SerialFound, KeepsRest, Protocols, d

\* On macOS a serial universe with a port has the name that finds it.
LEMMA OwnPort ==
    ASSUME ~Windows, NEW c, Consistent(c), c.port # Null
    PROVE  PortFind(c.interface) # Null /\ c.protocol \in SerialProtocols
<1>1. c.protocol \in SerialProtocols /\ c.port \in Ports /\ c.interface = PortToSym(c.port)
  BY DEF Consistent, Good, Matches, Protocols
<1> QED BY <1>1, OwnNameFinds, NullIsNone

LEMMA EditStays ==
    ASSUME ~Windows, IInv, Edit
    PROVE  Stays(config, config')
<1>1. /\ Consistent(config) /\ Good(config) /\ Shaped(config)
      /\ config.protocol \in Protocols
  BY DEF IInv, Consistent, Good
<1>2. ASSUME NEW d, d.port = config.port
      PROVE  Stays(config, d)
  BY <1>2 DEF Stays
<1>3. ASSUME ChangeType PROVE Stays(config, config')
  <2>1. PICK type \in Types : config' = SetType(config, type)
    BY <1>3 DEF ChangeType
  <2> DEFINE b == [config EXCEPT !.type = type]
  <2>2. KeepsInterface(config, b)
    BY <1>1 DEF KeepsInterface, Shaped, Fields
  <2>3. config' = SetMode(b, config.mode)
    BY <2>1 DEF SetType
  <2> HIDE DEF b
  <2>4. KeepsInterface(b, config')
    BY <2>2, <2>3, ModeSettled DEF KeepsInterface
  <2> QED BY <1>2, <2>2, <2>4 DEF KeepsInterface
<1>4. ASSUME ChangeProtocol PROVE Stays(config, config')
  <2>1. PICK p \in Protocols : config' = SetProtocol(config, p, globalAdapter)
    BY <1>4 DEF ChangeProtocol
  <2> DEFINE b == [config EXCEPT !.protocol = p]
             d == SetMode(b, config.mode)
  <2>2. KeepsInterface(config, b) /\ b.protocol = p
    BY <1>1 DEF KeepsInterface, Shaped, Fields
  <2>3. config' = FindInterface(d, globalAdapter)
    BY <2>1 DEF SetProtocol
  <2> HIDE DEF b
  <2>4. KeepsInterface(b, d) /\ d.protocol = p
    BY <2>2, ModeSettled DEF KeepsInterface
  <2> HIDE DEF d
  <2> QED BY <2>2, <2>3, <2>4, FoundStays DEF Stays, KeepsInterface
<1>5. ASSUME ChangeMode PROVE Stays(config, config')
  <2>1. PICK mode : config' = SetMode(config, mode)
    BY <1>5 DEF ChangeMode
  <2> QED BY <1>1, <1>2, <2>1, ModeSettled DEF KeepsInterface
<1>6. ASSUME ChangeInterface PROVE Stays(config, config')
  <2>1. PICK sym : config' = SetInterface(config, sym, globalAdapter)
    BY <1>6 DEF ChangeInterface
  <2> DEFINE d == [config EXCEPT !.interface = sym]
  <2>2. Shaped(d) /\ d.protocol = config.protocol /\ d.port = config.port
    BY <1>1 DEF Shaped, Fields
  <2>3. config' = FindInterface(d, globalAdapter)
    BY <2>1 DEF SetInterface
  <2> HIDE DEF d
  <2> QED BY <1>1, <2>2, <2>3, FoundStays DEF Stays
<1>7. ASSUME ChangeInternal PROVE Stays(config, config')
  BY <1>1, <1>2, <1>7, InternalSet DEF ChangeInternal, KeepsSettings
<1>8. ASSUME ChangeUniverse PROVE Stays(config, config')
  BY <1>1, <1>2, <1>8, UniverseSet DEF ChangeUniverse, KeepsSettings
<1>9. ASSUME ChangePriority PROVE Stays(config, config')
  BY <1>1, <1>2, <1>9, PrioritySet DEF ChangePriority, KeepsSettings
<1>10. ASSUME ChangeUnicast PROVE Stays(config, config')
  BY <1>1, <1>2, <1>10, UnicastSet DEF ChangeUnicast, KeepsSettings
<1>11. ASSUME CloneNext, config.port # Null PROVE config'.port # Null \/ config'.protocol \in IpProtocols
  <2>1. PICK n : config' = Increment(Clone(config, globalAdapter), n)
    BY <1>11 DEF CloneNext
  <2> DEFINE b == [config EXCEPT !.adapter = Null, !.port = Null]
             c == FindInterface(b, globalAdapter)
             d == SetInternal(c, c.internal + n)
  <2>2. KeepsRest(config, b) /\ b.interface = config.interface
    BY <1>1 DEF KeepsRest, Shaped, Fields
  <2>3. config' = SetUniverse(d, c.universe + n)
    BY <2>1 DEF Increment, Clone
  <2>4. PortFind(config.interface) # Null
    BY <1>1, <1>11, OwnPort
  <2> HIDE DEF b
  <2>5. Shaped(c) /\ (c.port # Null \/ c.protocol \in IpProtocols)
    BY <1>1, <2>2, <2>4, InterfaceFound, FoundStays DEF KeepsRest
  <2> HIDE DEF c
  <2>6. KeepsSettings(c, d)
    BY <2>5, InternalSet
  <2> HIDE DEF d
  <2>7. KeepsSettings(d, config')
    BY <2>3, <2>6, UniverseSet DEF KeepsSettings
  <2> QED BY <2>5, <2>6, <2>7 DEF KeepsSettings
<1> QED BY <1>3, <1>4, <1>5, <1>6, <1>7, <1>8, <1>9, <1>10, <1>11 DEF Edit, Stays

\* A restart finds the port of the saved universe again.
LEMMA RestartStays ==
    ASSUME ~Windows, NEW c, Consistent(c), NEW g
    PROVE  Stays(c, FromDictionary(ToDictionary(c), g))
<1> DEFINE d == ToDictionary(c)
           opened == Opened(d.type, d.protocol, d.mode, d.interface, g)
           result == FromDictionary(d, g)
<1>1. d.type \in Types /\ d.protocol \in Protocols /\ d.interface = c.interface /\ d.protocol = c.protocol
  BY DEF ToDictionary, Consistent, Good
<1> HIDE DEF d
<1>2. d.protocol \in SerialProtocols => SerialFound(Wanted(d.protocol, d.interface), opened)
  BY <1>1, OpenedFields
<1>3. KeepsSettings(opened, result)
  BY <1>1, LoadOpens
<1> HIDE DEF opened, result
<1>4. ASSUME c.port # Null PROVE result.port # Null
  <2>1. PortFind(c.interface) # Null /\ c.protocol \in SerialProtocols
    BY <1>4, OwnPort
  <2>2. opened.port = PortFind(c.interface)
    BY <1>1, <1>2, <2>1 DEF SerialFound, Wanted
  <2> QED BY <1>3, <2>1, <2>2 DEF KeepsSettings
<1> QED BY <1>4 DEF Stays, result, d

\* On macOS nothing but a change of protocol takes a port away that was found:
\* no other interface, no clone and no restart does.
THEOREM PortsStick == ASSUME ~Windows PROVE Spec => PortIsSticky
<1>1. ASSUME IInv, [Next]_vars PROVE Stays(config, config')
  <2>1. CASE Edit
    BY <1>1, <2>1, EditStays
  <2>2. CASE config' = config
    BY <2>2 DEF Stays
  <2>3. CASE Restart
    BY <1>1, <2>3, RestartStays DEF Restart, IInv
  <2> QED BY <1>1, <2>1, <2>2, <2>3 DEF Next, ChangeGlobal, vars
<1>2. IInv /\ [Next]_vars =>
         [config.port # Null /\ config'.port = Null => config'.protocol \in IpProtocols]_config
  BY <1>1 DEF Stays
<1> QED BY <1>2, ConsistentAlways, PTL DEF Spec, PortIsSticky

------------------------------------------------------------------------------
(* Saving and loading                                                      *)

\* The attributes that nothing else constrains stay in their own ranges.
Bounded(c) ==
    /\ c.internal \in InternalMin .. InternalMax
    /\ c.priority \in PriorityMin .. PriorityMax
    /\ c.unicast \in Seq(Addresses) /\ Len(c.unicast) <= UnicastMax

SameBounded(c, d) == d.internal = c.internal /\ d.priority = c.priority /\ d.unicast = c.unicast

LEMMA BoundsKept ==
    ASSUME NEW c, Bounded(c), NEW d, SameBounded(c, d)
    PROVE  Bounded(d)
BY DEF Bounded, SameBounded

LEMMA DefaultBounded == Bounded(Default)
<1>1. Default.internal = 1 /\ Default.priority = 100 /\ Default.unicast = <<>>
  BY DEF Default
<1>2. <<>> \in Seq(Addresses) /\ Len(<<>>) = 0
  OBVIOUS
<1> QED BY <1>1, <1>2, RangeAssumption DEF Bounded

LEMMA InternalBounded ==
    ASSUME NEW c, Shaped(c), Bounded(c), NEW n \in Int
    PROVE  Bounded(SetInternal(c, n))
<1> DEFINE d == SetInternal(c, n)
<1>1. /\ d.internal = Clamp(n, InternalMin, InternalMax)
      /\ d.priority = c.priority /\ d.unicast = c.unicast
  BY InternalSet
<1> HIDE DEF d
<1>2. d.internal \in InternalMin .. InternalMax
  BY <1>1, InternalClamped
<1>3. Bounded(d)
  BY <1>1, <1>2 DEF Bounded
<1> QED BY <1>3 DEF d

LEMMA PriorityBounded ==
    ASSUME NEW c, Shaped(c), Bounded(c), NEW n \in Int
    PROVE  Bounded(SetPriority(c, n))
<1> DEFINE d == SetPriority(c, n)
<1>1. /\ d.internal = c.internal /\ d.unicast = c.unicast
      /\ d.priority = (IF c.protocol # "sacn" THEN c.priority
                       ELSE Clamp(n, PriorityMin, PriorityMax))
  BY PrioritySet
<1> HIDE DEF d
<1>2. Clamp(n, PriorityMin, PriorityMax) \in PriorityMin .. PriorityMax
  BY RangesAreSome, Clamped
<1>3. Bounded(d)
  BY <1>1, <1>2 DEF Bounded
<1> QED BY <1>3 DEF d

LEMMA UnicastBounded ==
    ASSUME NEW c, Shaped(c), Bounded(c), NEW list \in Seq(IpAddresses \cup {"invalid"})
    PROVE  Bounded(SetUnicast(c, list))
<1> DEFINE d == SetUnicast(c, list)
<1>1. /\ d.internal = c.internal /\ d.priority = c.priority
      /\ d.unicast = c.unicast \/ d.unicast = ParsedAddresses(list)
  BY UnicastSet
<1> HIDE DEF d
<1>2. Bounded(d)
  BY <1>1, ParsedType DEF Bounded
<1> QED BY <1>2 DEF d

LEMMA EditBounded ==
    ASSUME IInv, Bounded(config), Edit
    PROVE  Bounded(config')
<1>1. Shaped(config) /\ config.protocol \in Protocols /\ config.internal \in Int
  BY DEF IInv, Consistent, Good, Bounded
<1>2. ASSUME NEW d, SameBounded(config, d)
      PROVE  Bounded(d)
  BY <1>2, BoundsKept
<1>3. ASSUME ChangeType PROVE Bounded(config')
  <2>1. PICK type \in Types : config' = SetType(config, type)
    BY <1>3 DEF ChangeType
  <2> DEFINE b == [config EXCEPT !.type = type]
  <2>2. KeepsInterface(config, b)
    BY <1>1 DEF KeepsInterface, Shaped, Fields
  <2>3. config' = SetMode(b, config.mode)
    BY <2>1 DEF SetType
  <2> HIDE DEF b
  <2>4. KeepsInterface(b, config')
    BY <2>2, <2>3, ModeSettled DEF KeepsInterface
  <2> QED BY <1>2, <2>2, <2>4 DEF KeepsInterface, SameBounded
<1>4. ASSUME ChangeProtocol PROVE Bounded(config')
  <2>1. PICK p \in Protocols : config' = SetProtocol(config, p, globalAdapter)
    BY <1>4 DEF ChangeProtocol
  <2> DEFINE b == [config EXCEPT !.protocol = p]
             d == SetMode(b, config.mode)
  <2>2. KeepsInterface(config, b) /\ b.protocol = p
    BY <1>1 DEF KeepsInterface, Shaped, Fields
  <2>3. config' = FindInterface(d, globalAdapter)
    BY <2>1 DEF SetProtocol
  <2> HIDE DEF b
  <2>4. KeepsInterface(b, d) /\ d.protocol = p
    BY <2>2, ModeSettled DEF KeepsInterface
  <2> HIDE DEF d
  <2>5. KeepsRest(d, config')
    BY <2>3, <2>4, InterfaceFound DEF KeepsInterface
  <2> QED BY <1>2, <2>2, <2>4, <2>5 DEF KeepsInterface, KeepsRest, SameBounded
<1>5. ASSUME ChangeMode PROVE Bounded(config')
  <2>1. PICK mode : config' = SetMode(config, mode)
    BY <1>5 DEF ChangeMode
  <2> QED BY <1>1, <1>2, <2>1, ModeSettled DEF KeepsInterface, SameBounded
<1>6. ASSUME ChangeInterface PROVE Bounded(config')
  <2>1. PICK sym : config' = SetInterface(config, sym, globalAdapter)
    BY <1>6 DEF ChangeInterface
  <2> DEFINE d == [config EXCEPT !.interface = sym]
  <2>2. KeepsRest(config, d)
    BY <1>1 DEF KeepsRest, Shaped, Fields
  <2>3. config' = FindInterface(d, globalAdapter)
    BY <2>1 DEF SetInterface
  <2> HIDE DEF d
  <2>4. KeepsRest(d, config')
    BY <1>1, <2>2, <2>3, InterfaceFound DEF KeepsRest
  <2> QED BY <1>2, <2>2, <2>4 DEF KeepsRest, SameBounded
<1>7. ASSUME ChangeInternal PROVE Bounded(config')
  BY <1>1, <1>7, InternalBounded, InputAssumption DEF ChangeInternal
<1>8. ASSUME ChangeUniverse PROVE Bounded(config')
  BY <1>1, <1>2, <1>8, UniverseSet DEF ChangeUniverse, SameBounded
<1>9. ASSUME ChangePriority PROVE Bounded(config')
  BY <1>1, <1>9, PriorityBounded, InputAssumption DEF ChangePriority
<1>10. ASSUME ChangeUnicast PROVE Bounded(config')
  <2>1. PICK list \in UnicastInputs : config' = SetUnicast(config, list)
    BY <1>10 DEF ChangeUnicast
  <2>2. list \in Seq(IpAddresses \cup {"invalid"})
    BY <2>1, InputAssumption
  <2> QED BY <1>1, <2>1, <2>2, UnicastBounded
<1>11. ASSUME CloneNext PROVE Bounded(config')
  <2>1. PICK n \in Int : config' = Increment(Clone(config, globalAdapter), n)
    BY <1>11, InputAssumption DEF CloneNext
  <2> DEFINE b == [config EXCEPT !.adapter = Null, !.port = Null]
             c == FindInterface(b, globalAdapter)
             d == SetInternal(c, c.internal + n)
  <2>2. KeepsRest(config, b)
    BY <1>1 DEF KeepsRest, Shaped, Fields
  <2>3. config' = SetUniverse(d, c.universe + n)
    BY <2>1 DEF Increment, Clone
  <2> HIDE DEF b
  <2>4. KeepsRest(b, c)
    BY <1>1, <2>2, InterfaceFound DEF KeepsRest
  <2> HIDE DEF c
  <2>5. Bounded(c) /\ c.internal \in Int
    BY <1>1, <1>2, <2>2, <2>4 DEF KeepsRest, SameBounded
  <2>6. Bounded(d) /\ Shaped(d)
    BY <2>4, <2>5, InternalBounded, InternalSet DEF KeepsRest, KeepsSettings
  <2> HIDE DEF d
  <2>7. SameBounded(d, config')
    BY <2>3, <2>6, UniverseSet DEF SameBounded
  <2> QED BY <2>6, <2>7, BoundsKept
<1> QED BY <1>3, <1>4, <1>5, <1>6, <1>7, <1>8, <1>9, <1>10, <1>11 DEF Edit

\* Bounded numbers are numbers.
LEMMA BoundedIs ==
    ASSUME NEW c, Bounded(c)
    PROVE  /\ c.internal \in Int /\ c.priority \in Int
           /\ c.internal \in InternalMin .. InternalMax
           /\ c.priority \in PriorityMin .. PriorityMax
           /\ c.unicast \in Seq(Addresses) /\ Len(c.unicast) <= UnicastMax
BY RangesAreSome DEF Bounded

\* What each attribute is after a load.
LEMMA LoadIs ==
    ASSUME NEW d, NEW g, d.type \in Types, d.protocol \in Protocols
    PROVE  LET opened == Opened(d.type, d.protocol, d.mode, d.interface, g)
               r == FromDictionary(d, g)
           IN /\ KeepsSettings(opened, r)
              /\ r.internal = Clamp(d.internal, InternalMin, InternalMax)
              /\ r.universe = IF d.protocol \in IpProtocols
                              THEN ClampUniverse(d.protocol, d.universe) ELSE d.universe
              /\ r.priority = IF d.protocol # "sacn" THEN 100
                              ELSE Clamp(d.priority, PriorityMin, PriorityMax)
              /\ r.unicast = IF \/ r.type = "input"
                                \/ d.unicast # <<>> /\ ParsedAddresses(d.unicast) = <<>>
                             THEN <<>> ELSE ParsedAddresses(d.unicast)
<1> DEFINE opened == Opened(d.type, d.protocol, d.mode, d.interface, g)
           internal == SetInternal(opened, d.internal)
           universe == SetUniverse(internal, d.universe)
           priority == SetPriority(universe, d.priority)
           r == SetUnicast(priority, d.unicast)
<1>1. FromDictionary(d, g) = r
  BY DEF FromDictionary, Opened
<1>2. /\ Shaped(opened) /\ opened.protocol = d.protocol
      /\ opened.priority = 100 /\ opened.unicast = <<>>
  BY OpenedFields
<1> HIDE DEF opened
<1>3. /\ KeepsSettings(opened, internal)
      /\ internal.internal = Clamp(d.internal, InternalMin, InternalMax)
      /\ internal.priority = 100 /\ internal.unicast = <<>>
  BY <1>2, InternalSet
<1> HIDE DEF internal
<1>4. /\ KeepsSettings(internal, universe) /\ universe.internal = internal.internal
      /\ universe.priority = 100 /\ universe.unicast = <<>>
      /\ universe.universe = IF internal.protocol \in IpProtocols
                             THEN ClampUniverse(internal.protocol, d.universe) ELSE d.universe
  BY <1>3, UniverseSet DEF KeepsSettings
<1> HIDE DEF universe
<1>5. /\ KeepsSettings(universe, priority) /\ priority.internal = universe.internal
      /\ priority.universe = universe.universe /\ priority.unicast = <<>>
      /\ priority.priority = IF universe.protocol # "sacn" THEN 100
                             ELSE Clamp(d.priority, PriorityMin, PriorityMax)
  BY <1>4, PrioritySet DEF KeepsSettings
<1> HIDE DEF priority
<1>6. /\ KeepsSettings(priority, r) /\ r.internal = priority.internal
      /\ r.universe = priority.universe /\ r.priority = priority.priority
      /\ r.unicast = IF \/ priority.type = "input"
                        \/ d.unicast # <<>> /\ ParsedAddresses(d.unicast) = <<>>
                     THEN <<>> ELSE ParsedAddresses(d.unicast)
  BY <1>5, UnicastSet DEF KeepsSettings
<1> HIDE DEF r
<1>7. /\ KeepsSettings(opened, r)
      /\ internal.protocol = d.protocol /\ universe.protocol = d.protocol
      /\ priority.type = r.type
  BY <1>2, <1>3, <1>4, <1>5, <1>6 DEF KeepsSettings
<1>8. /\ r.internal = Clamp(d.internal, InternalMin, InternalMax)
      /\ r.universe = IF d.protocol \in IpProtocols
                      THEN ClampUniverse(d.protocol, d.universe) ELSE d.universe
      /\ r.priority = IF d.protocol # "sacn" THEN 100
                      ELSE Clamp(d.priority, PriorityMin, PriorityMax)
  BY <1>3, <1>4, <1>5, <1>6, <1>7
<1>9. r.unicast = IF \/ r.type = "input"
                     \/ d.unicast # <<>> /\ ParsedAddresses(d.unicast) = <<>>
                  THEN <<>> ELSE ParsedAddresses(d.unicast)
  BY <1>6, <1>7
<1> QED BY <1>1, <1>7, <1>8, <1>9 DEF opened

LEMMA LoadBounded ==
    ASSUME NEW c, Consistent(c), Bounded(c), NEW g
    PROVE  Bounded(FromDictionary(ToDictionary(c), g))
<1> DEFINE d == ToDictionary(c)
           r == FromDictionary(d, g)
<1>1. /\ d.type \in Types /\ d.protocol \in Protocols
      /\ d.internal = c.internal /\ d.priority = c.priority /\ d.unicast = c.unicast
  BY DEF ToDictionary, Consistent, Good
<1> HIDE DEF d
<1>2. /\ r.internal = Clamp(d.internal, InternalMin, InternalMax)
      /\ r.priority = (IF d.protocol # "sacn" THEN 100
                       ELSE Clamp(d.priority, PriorityMin, PriorityMax))
      /\ r.unicast = <<>> \/ r.unicast = ParsedAddresses(d.unicast)
  BY <1>1, LoadIs
<1> HIDE DEF r
<1>3. d.internal \in Int /\ d.priority \in Int /\ d.unicast \in Seq(Addresses)
      /\ Len(d.unicast) <= UnicastMax
  BY <1>1, BoundedIs
<1>4. r.internal \in InternalMin .. InternalMax
  <2>1. Clamp(d.internal, InternalMin, InternalMax) \in InternalMin .. InternalMax
    BY <1>3, InternalClamped
  <2> QED BY <1>2, <2>1
<1>5. r.priority \in PriorityMin .. PriorityMax
  <2>1. Clamp(d.priority, PriorityMin, PriorityMax) \in PriorityMin .. PriorityMax
    BY <1>3, PriorityClamped
  <2> QED BY <1>2, <2>1, RangeAssumption
<1>6. r.unicast \in Seq(Addresses) /\ Len(r.unicast) <= UnicastMax
  <2>1. <<>> \in Seq(Addresses) /\ Len(<<>>) = 0
    OBVIOUS
  <2>2. ParsedAddresses(d.unicast) = d.unicast
    BY <1>3, ParsedSame
  <2>3. UnicastMax \in Nat
    BY RangeAssumption
  <2>4. CASE r.unicast = <<>>
    BY <2>1, <2>3, <2>4
  <2>5. CASE r.unicast = d.unicast
    BY <1>3, <2>5
  <2> QED BY <1>2, <2>2, <2>4, <2>5
<1> QED BY <1>4, <1>5, <1>6 DEF Bounded, r, d

\* The interface that is looked up for the one a universe shows is the same,
\* unless the name holds nothing to look for or another shares it.
LEMMA LookUpShows ==
    ASSUME NEW c, Consistent(c), NEW g, NEW d,
           c.protocol \in IpProtocols => IpFound(Wanted(c.protocol, c.interface), g, d),
           c.protocol \in SerialProtocols => SerialFound(Wanted(c.protocol, c.interface), d)
    PROVE  IF c.interface.tail = "" THEN d.interface = NoChoice(c.protocol)
           ELSE d.interface = c.interface \/ LedElsewhere(c, d)
<1>1. /\ c.protocol \in Protocols /\ Matches(c)
      /\ c.adapter \in Adapters \cup {Null} /\ c.port \in Ports \cup {Null}
  BY DEF Consistent, Good
<1>2. CASE c.protocol \in IpProtocols
  <2> DEFINE sym == c.interface
  <2>1. c.protocol \notin SerialProtocols
    BY <1>2 DEF IpProtocols, SerialProtocols
  <2>2. /\ sym # All => sym = Global \/ (c.adapter # Null /\ sym = AdapterToSym(c.adapter))
        /\ NoChoice(c.protocol) = Global
    BY <1>1, <1>2, <2>1 DEF Matches, NoChoice
  <2>3. IpFound(Wanted(c.protocol, sym), g, d) /\ Wanted(c.protocol, sym).interface = sym
    BY <1>2 DEF Wanted
  <2>4. All.tail = "0.0.0.0" /\ Global.tail = "" /\ None.tail = ""
    BY DEF All, Global, None
  <2> HIDE DEF sym
  <2>5. CASE sym = All
    <3>1. d.interface = sym
      BY ONLY <2>3, <2>5 DEF IpFound
    <3>2. sym.tail # ""
      BY ONLY <2>4, <2>5
    <3> QED BY <3>1, <3>2 DEF sym
  <2>6. CASE sym.tail = ""
    <3>1. ~ParsesAsAdapter(sym)
      BY <2>6, TextAssumption DEF ParsesAsAdapter
    <3>2. sym # All
      BY <2>4, <2>6
    <3>3. d.interface = Global
      BY ONLY <2>3, <3>1, <3>2 DEF IpFound
    <3> QED BY <2>2, <2>6, <3>3 DEF sym
  <2>7. CASE sym # All /\ sym.tail # ""
    <3>1. c.adapter \in Adapters /\ sym = AdapterToSym(c.adapter) /\ sym \notin {Global, None}
      BY <1>1, <2>2, <2>4, <2>7
    <3>2. /\ sym.head = AdapterList[c.adapter].name
          /\ Len(AdapterList[c.adapter].addresses) \in 1 .. ListMax
          /\ sym.tail = AdapterList[c.adapter].addresses[1]
      BY <2>7, <3>1 DEF AdapterToSym
    <3>3. sym.tail \in IpAddresses /\ ParsesAsAdapter(sym)
      BY <3>1, <3>2, FirstAddress, TextAssumption DEF ParsesAsAdapter
    <3>4. SharesAdapter(sym, c.adapter)
      BY <3>2 DEF SharesAdapter
    <3>5. AdapterFind(sym) \in Adapters /\ SharesAdapter(sym, AdapterFind(sym))
      BY <3>1, <3>3, <3>4, AdapterFound
    <3>6. AdapterFind(sym) # Null
      BY <3>5, NullIsNone
    <3>7. d.adapter = AdapterFind(sym) /\ d.interface = AdapterToSym(d.adapter)
      BY ONLY <2>3, <2>7, <3>1, <3>3, <3>6 DEF IpFound
    <3>8. d.interface = sym \/ (d.adapter \notin {Null, c.adapter} /\ SharesAdapter(sym, d.adapter))
      BY <3>1, <3>5, <3>6, <3>7
    <3> QED BY <2>7, <3>8 DEF LedElsewhere, sym
  <2> QED BY <2>5, <2>6, <2>7 DEF sym
<1>3. CASE c.protocol \in SerialProtocols
  <2> DEFINE sym == c.interface
  <2>1. c.protocol \notin IpProtocols
    BY <1>3 DEF IpProtocols, SerialProtocols
  <2>2. /\ sym = IF c.port = Null THEN None ELSE PortToSym(c.port)
        /\ NoChoice(c.protocol) = None
    BY <1>1, <1>3, <2>1 DEF Matches, NoChoice
  <2>3. /\ d.port = PortFind(sym)
        /\ d.interface = IF d.port = Null THEN None ELSE PortToSym(d.port)
    BY <1>3 DEF SerialFound, Wanted
  <2>4. None.tail = ""
    BY DEF None
  <2> HIDE DEF sym
  <2>5. CASE sym.tail = ""
    <3>1. PortFind(sym) = Null
      BY <2>5 DEF PortFind, ParsesAsPort
    <3> QED BY <2>2, <2>3, <2>5, <3>1 DEF sym
  <2>6. CASE sym.tail # ""
    <3>1. c.port \in Ports /\ sym = PortToSym(c.port)
      BY <1>1, <2>2, <2>4, <2>6
    <3>2. ~Windows
      BY <2>6, <3>1 DEF PortToSym
    <3>3. PortFind(sym) \in Ports
      BY <3>1, <3>2, OwnNameFinds
    <3>4. PortFind(sym) # Null
      BY <3>3, NullIsNone
    <3>5. SharesPort(sym, d.port) /\ d.port # Null /\ d.interface = PortToSym(d.port)
      BY <2>3, <3>4, FoundPortShares
    <3>6. d.interface = sym \/ (d.port \notin {Null, c.port} /\ SharesPort(sym, d.port))
      BY <3>1, <3>5
    <3> QED BY <2>6, <3>6 DEF LedElsewhere, sym
  <2> QED BY <2>5, <2>6 DEF sym
<1> QED BY <1>1, <1>2, <1>3 DEF Protocols

\* A universe is loaded as the user saw it, its interface apart; and the
\* interface is the one a look-up of the saved name leads to.
LEMMA LoadShows ==
    ASSUME NEW c, Consistent(c), Bounded(c), NEW g
    PROVE  LET r == FromDictionary(ToDictionary(c), g)
           IN /\ [Visible(r) EXCEPT !.interface = c.interface] = Visible(c)
              /\ IF c.interface.tail = "" THEN r.interface = NoChoice(c.protocol)
                 ELSE r.interface = c.interface \/ LedElsewhere(c, r)
<1> DEFINE d == ToDictionary(c)
           opened == Opened(d.type, d.protocol, d.mode, d.interface, g)
           r == FromDictionary(d, g)
<1>1. /\ c.type \in Types /\ c.protocol \in Protocols /\ c.universe \in Int
      /\ Offered(c) /\ InRange(c) /\ Matches(c)
      /\ c.adapter \in Adapters \cup {Null} /\ c.port \in Ports \cup {Null}
  BY DEF Consistent, Good
<1>2. /\ d.type = c.type /\ d.protocol = c.protocol /\ d.mode = c.mode
      /\ d.interface = c.interface /\ d.internal = c.internal /\ d.universe = c.universe
      /\ d.priority = c.priority /\ d.unicast = c.unicast
  BY DEF ToDictionary
<1> HIDE DEF d
<1>3. /\ KeepsSettings(opened, r)
      /\ r.internal = Clamp(d.internal, InternalMin, InternalMax)
      /\ r.universe = (IF d.protocol \in IpProtocols
                       THEN ClampUniverse(d.protocol, d.universe) ELSE d.universe)
      /\ r.priority = (IF d.protocol # "sacn" THEN 100
                       ELSE Clamp(d.priority, PriorityMin, PriorityMax))
      /\ r.unicast = (IF \/ r.type = "input"
                         \/ d.unicast # <<>> /\ ParsedAddresses(d.unicast) = <<>>
                      THEN <<>> ELSE ParsedAddresses(d.unicast))
  BY <1>1, <1>2, LoadIs
<1>4. /\ opened.protocol = c.protocol
      /\ opened.type = (IF c.protocol = "opendmxusb" THEN "output" ELSE c.type)
      /\ opened.mode = SettledMode(opened.type, c.protocol, c.mode)
      /\ c.protocol \in IpProtocols => IpFound(Wanted(c.protocol, c.interface), g, opened)
      /\ c.protocol \in SerialProtocols => SerialFound(Wanted(c.protocol, c.interface), opened)
  BY <1>1, <1>2, OpenedFields
<1> HIDE DEF opened, r
<1>5. opened.type = c.type /\ opened.mode = c.mode
  <2>1. c.type \in TypeMenu(c.protocol) /\ c.mode \in ModeMenu(c.type, c.protocol)
    BY <1>1 DEF Offered
  <2>2. opened.type = c.type
    BY <1>4, <2>1 DEF TypeMenu
  <2> QED BY <1>1, <1>4, <2>1, <2>2, OfferedModeSettles
<1>6. IF c.interface.tail = "" THEN opened.interface = NoChoice(c.protocol)
      ELSE opened.interface = c.interface \/ LedElsewhere(c, opened)
  BY <1>4, LookUpShows
<1>7. /\ r.type = c.type /\ r.protocol = c.protocol /\ r.mode = c.mode
      /\ r.interface = opened.interface /\ r.adapter = opened.adapter /\ r.port = opened.port
  BY <1>3, <1>4, <1>5 DEF KeepsSettings
<1>8. r.internal = c.internal
  <2>1. c.internal \in Int /\ c.internal \in InternalMin .. InternalMax
    BY BoundedIs
  <2>2. Clamp(c.internal, InternalMin, InternalMax) = c.internal
    BY <2>1, InternalClamped, Zenon
  <2> QED BY <1>2, <1>3, <2>2
<1>9. r.universe = c.universe
  <2>1. c.protocol \in IpProtocols => c.universe \in Minimum[c.protocol] .. Maximum[c.protocol]
    BY <1>1 DEF InRange, NumberFits
  <2>2. c.protocol \in IpProtocols => ClampUniverse(c.protocol, c.universe) = c.universe
    BY <1>1, <2>1, UniverseClamped, Zenon
  <2>3. r.universe = (IF c.protocol \in IpProtocols
                      THEN ClampUniverse(c.protocol, c.universe) ELSE c.universe)
    BY <1>2, <1>3, Zenon
  <2> QED BY <2>2, <2>3
<1>10. c.protocol = "sacn" => r.priority = c.priority
  <2>1. c.priority \in Int /\ c.priority \in PriorityMin .. PriorityMax
    BY BoundedIs
  <2>2. Clamp(c.priority, PriorityMin, PriorityMax) = c.priority
    BY <2>1, PriorityClamped, Zenon
  <2> QED BY <1>2, <1>3, <2>2
<1>11. c.type = "output" => r.unicast = c.unicast
  <2>1. ParsedAddresses(c.unicast) = c.unicast
    BY ParsedSame DEF Bounded
  <2> QED BY <1>2, <1>3, <1>7, <2>1
<1>12. [Visible(r) EXCEPT !.interface = c.interface] = Visible(c)
  BY <1>7, <1>8, <1>9, <1>10, <1>11 DEF Visible
<1>13. IF c.interface.tail = "" THEN r.interface = NoChoice(c.protocol)
       ELSE r.interface = c.interface \/ LedElsewhere(c, r)
  BY <1>6, <1>7 DEF LedElsewhere
<1> QED BY <1>12, <1>13 DEF r, d

LEMMA BoundedAlways == Spec => []Bounded(config)
<1>1. Init => Bounded(config)
  BY DefaultBounded DEF Init
<1>2. ASSUME IInv, Bounded(config), [Next]_vars
      PROVE  Bounded(config)'
  <2>1. Bounded(config')
    <3>1. CASE Edit
      BY <1>2, <3>1, EditBounded
    <3>2. CASE config' = config
      BY <1>2, <3>2
    <3>3. CASE Restart
      BY <1>2, <3>3, LoadBounded DEF Restart, IInv
    <3> QED BY <1>2, <3>1, <3>2, <3>3 DEF Next, ChangeGlobal, vars
  <2> QED BY <2>1 DEF Bounded
<1> QED BY <1>1, <1>2, ConsistentAlways, PTL DEF Spec

\* However a universe came about, saving and loading brings it back as the user
\* saw it: each of its attributes is set again in an order in which none takes
\* another back, and each passes the tests of its setter unchanged.  Only the
\* interface may be lost, exactly if it is shown by a name without an address or
\* a port, or be replaced by one that shares its name, address or description.
THEOREM ReloadShowsSame == Spec => []ReloadKeepsVisible
<1>1. IInv /\ Bounded(config) => ReloadKeepsVisible
  BY LoadShows DEF IInv, ReloadKeepsVisible
<1> QED BY <1>1, ConsistentAlways, BoundedAlways, PTL

------------------------------------------------------------------------------
(* Patches                                                                 *)

\* The universes of the last patch are what the loop made of the message.
MadeInv ==
    \/ made = <<>>
    \/ /\ asked = [msg |-> asked.msg, run |-> asked.run]
       /\ asked.msg \in Requests /\ asked.run \in Runs
       /\ Accepts(asked.msg)
       /\ made = [i \in 1 .. asked.run.count |->
                    Patched(asked.msg, asked.run, i - 1, globalAdapters)]

LEMMA MadeAlways == PatchSpec => []MadeInv
<1>1. PatchInit => MadeInv
  BY DEF PatchInit, MadeInv
<1>2. MadeInv /\ [PatchNext]_patchVars => MadeInv'
  <2> SUFFICES ASSUME MadeInv, [PatchNext]_patchVars PROVE MadeInv'
    OBVIOUS
  <2>1. CASE Patch
    <3>1. PICK msg \in {m \in Requests : Accepts(m)}, run \in Runs :
              /\ made' = [i \in 1 .. run.count |-> Patched(msg, run, i - 1, globalAdapters)]
              /\ asked' = [msg |-> msg, run |-> run]
              /\ globalAdapters' = globalAdapters
      BY <2>1, Zenon DEF Patch
    <3>2. asked'.msg = msg /\ asked'.run = run
      BY <3>1
    <3>3. /\ asked' = [msg |-> asked'.msg, run |-> asked'.run]
          /\ asked'.msg \in Requests /\ asked'.run \in Runs /\ Accepts(asked'.msg)
      BY <3>1, <3>2
    <3>4. made' = [i \in 1 .. asked'.run.count |->
                      Patched(asked'.msg, asked'.run, i - 1, globalAdapters')]
      BY <3>1, <3>2
    <3> QED BY <3>3, <3>4 DEF MadeInv, Accepts
  <2>2. CASE UNCHANGED patchVars
    BY <2>2 DEF patchVars, MadeInv, Accepts, Patched
  <2>3. CASE Refuse
    BY <2>2, <2>3 DEF Refuse
  <2>4. CASE OtherGlobal
    BY <2>4 DEF OtherGlobal, MadeInv
  <2> QED BY <2>1, <2>2, <2>3, <2>4 DEF PatchNext
<1> QED BY <1>1, <1>2, PTL DEF PatchSpec

\* What each universe of a patch is.
LEMMA PatchedIs ==
    ASSUME NEW msg, msg.type \in Types, msg.protocol \in Protocols, NEW run, NEW i, NEW g
    PROVE  LET opened == Opened(msg.type, msg.protocol, msg.mode, msg.interface, g)
               r == Patched(msg, run, i, g)
           IN /\ KeepsSettings(opened, r)
              /\ r.internal = Clamp(run.internal + i, InternalMin, InternalMax)
              /\ r.universe = IF msg.protocol \in IpProtocols
                              THEN ClampUniverse(msg.protocol, run.universe + i)
                              ELSE run.universe + i
<1> DEFINE opened == Opened(msg.type, msg.protocol, msg.mode, msg.interface, g)
           internal == SetInternal(opened, run.internal + i)
           r == SetUniverse(internal, run.universe + i)
<1>1. Patched(msg, run, i, g) = r
  BY DEF Patched, Opened
<1>2. Shaped(opened) /\ opened.protocol = msg.protocol
  BY OpenedFields
<1> HIDE DEF opened
<1>3. /\ KeepsSettings(opened, internal)
      /\ internal.internal = Clamp(run.internal + i, InternalMin, InternalMax)
  BY <1>2, InternalSet
<1> HIDE DEF internal
<1>4. /\ KeepsSettings(internal, r) /\ r.internal = internal.internal
      /\ r.universe = IF internal.protocol \in IpProtocols
                      THEN ClampUniverse(internal.protocol, run.universe + i)
                      ELSE run.universe + i
  BY <1>3, UniverseSet DEF KeepsSettings
<1> HIDE DEF r
<1>5. KeepsSettings(opened, r) /\ internal.protocol = msg.protocol
  BY <1>2, <1>3, <1>4 DEF KeepsSettings
<1> QED BY <1>1, <1>3, <1>4, <1>5 DEF opened

\* The interface that a look-up of a symbol leads to.
Led(p, sym, g, d) ==
    \/ p \in IpProtocols /\ IpFound(Wanted(p, sym), g, d)
    \/ p \in SerialProtocols /\ SerialFound(Wanted(p, sym), d)

\* A symbol that leads back is the interface that is set.
LEMMA LeadsBackIsSet ==
    ASSUME NEW p \in Protocols, NEW sym, NEW g, NEW d, LeadsBack(sym, p), Led(p, sym, g, d)
    PROVE  d.interface = sym /\ (sym = Global => d.adapter = g[p])
<1> USE DEF Led
<1>1. p \in IpProtocols <=> p \notin SerialProtocols
  BY DEF Protocols, IpProtocols, SerialProtocols
<1>2. CASE p \in IpProtocols
  <2>1. IpFound(Wanted(p, sym), g, d)
    BY <1>1, <1>2
  <2>2. \/ sym \in {All, Global}
        \/ /\ ParsesAsAdapter(sym) /\ AdapterFind(sym) # Null
           /\ AdapterToSym(AdapterFind(sym)) = sym
    BY <1>2 DEF LeadsBack
  <2>3. sym = None => sym \notin {All, Global} /\ ~ParsesAsAdapter(sym)
    BY Reserved
  <2> QED BY <2>1, <2>2, <2>3, Reserved DEF IpFound, Wanted
<1>3. CASE p \in SerialProtocols
  <2>1. SerialFound(Wanted(p, sym), d)
    BY <1>1, <1>3
  <2>2. sym = None \/ (PortFind(sym) # Null /\ PortToSym(PortFind(sym)) = sym)
    BY <1>1, <1>3 DEF LeadsBack
  <2> QED BY <2>1, <2>2, Reserved DEF SerialFound, Wanted
<1> QED BY <1>1, <1>2, <1>3 DEF Protocols

\* The universe that the loop makes for a number, when there is one.
LEMMA MadeIs ==
    ASSUME MadeInv, NEW i \in 1 .. Len(made)
    PROVE  /\ asked.msg \in Requests /\ asked.run \in Runs /\ Accepts(asked.msg)
           /\ made[i] = Patched(asked.msg, asked.run, i - 1, globalAdapters)
           /\ i \in Int
<1>1. made # <<>>
  OBVIOUS
<1>2. /\ asked.msg \in Requests /\ asked.run \in Runs /\ Accepts(asked.msg)
      /\ made = [j \in 1 .. asked.run.count |->
                    Patched(asked.msg, asked.run, j - 1, globalAdapters)]
  BY <1>1 DEF MadeInv
<1>3. asked.run.count \in Nat
  BY <1>2, PatchAssumption DEF Runs
<1> DEFINE n == asked.run.count
           P(j) == Patched(asked.msg, asked.run, j - 1, globalAdapters)
           S == {P(j) : j \in 1 .. n}
<1>4. made \in [1 .. n -> S] /\ n \in Nat
  BY <1>2, <1>3
<1> HIDE DEF n, S
<1>5. made \in Seq(S) /\ Len(made) = n
  BY <1>4
<1>6. i \in 1 .. n
  BY <1>5
<1> QED BY <1>2, <1>6 DEF n

\* What lx.config reports as possible is made of a message that asks for it,
\* on any machine, and the interface is the one asked for when its symbol leads
\* back to it.
THEOREM ReportsAreMade == PatchSpec => []ReportedIsMade
<1>1. ASSUME MadeInv, NEW i \in 1 .. Len(made)
      PROVE  /\ Reported(asked.msg) =>
                    /\ made[i].type = asked.msg.type
                    /\ made[i].protocol = asked.msg.protocol
                    /\ made[i].mode = asked.msg.mode
             /\ LeadsBack(asked.msg.interface, asked.msg.protocol) =>
                    /\ made[i].interface = asked.msg.interface
                    /\ asked.msg.interface = Global =>
                          made[i].adapter = globalAdapters[asked.msg.protocol]
  <2> DEFINE msg == asked.msg
             run == asked.run
             r == made[i]
             opened == Opened(msg.type, msg.protocol, msg.mode, msg.interface, globalAdapters)
  <2>1. /\ msg.type \in Types /\ msg.protocol \in Protocols
        /\ r = Patched(msg, run, i - 1, globalAdapters)
    BY <1>1, MadeIs DEF Accepts
  <2> HIDE DEF msg, run, r
  <2>2. KeepsSettings(opened, r)
    BY <2>1, PatchedIs
  <2>3. /\ opened.protocol = msg.protocol
        /\ opened.type = (IF msg.protocol = "opendmxusb" THEN "output" ELSE msg.type)
        /\ opened.mode = SettledMode(opened.type, msg.protocol, msg.mode)
        /\ msg.protocol \in IpProtocols =>
              IpFound(Wanted(msg.protocol, msg.interface), globalAdapters, opened)
        /\ msg.protocol \in SerialProtocols =>
              SerialFound(Wanted(msg.protocol, msg.interface), opened)
    BY <2>1, OpenedFields
  <2> HIDE DEF opened
  <2>4. ASSUME Reported(msg)
        PROVE  opened.type = msg.type /\ opened.mode = msg.mode
    <3>1. msg.type \in TypeMenu(msg.protocol) /\ msg.mode \in ModeMenu(msg.type, msg.protocol)
      BY <2>4 DEF Reported
    <3>2. opened.type = msg.type
      BY <2>3, <3>1 DEF TypeMenu
    <3> QED BY <2>1, <2>3, <3>1, <3>2, OfferedModeSettles
  <2>5. ASSUME LeadsBack(msg.interface, msg.protocol)
        PROVE  /\ opened.interface = msg.interface
               /\ msg.interface = Global => opened.adapter = globalAdapters[msg.protocol]
    <3>1. /\ msg.protocol \in IpProtocols =>
                IpFound(Wanted(msg.protocol, msg.interface), globalAdapters, opened)
          /\ msg.protocol \in SerialProtocols =>
                SerialFound(Wanted(msg.protocol, msg.interface), opened)
      BY <2>3
    <3>2. msg.protocol \in Protocols
      BY <2>1
    <3>3. LeadsBack(msg.interface, msg.protocol)
      BY <2>5
    <3> DEFINE P == msg.protocol
               I == msg.interface
    <3>4. opened.interface = I /\ (I = Global => opened.adapter = globalAdapters[P])
      <4> HIDE DEF P, I
      <4>1. P \in Protocols /\ LeadsBack(I, P)
        BY <3>2, <3>3 DEF P, I
      <4>2. Led(P, I, globalAdapters, opened)
        BY <3>1, <3>2 DEF P, I, Protocols, Led
      <4> QED BY ONLY <4>1, <4>2, LeadsBackIsSet, SMT
    <3> QED BY <3>4
  <2>6. /\ r.type = opened.type /\ r.protocol = opened.protocol /\ r.mode = opened.mode
        /\ r.interface = opened.interface /\ r.adapter = opened.adapter
    BY <2>2 DEF KeepsSettings
  <2> QED BY <2>3, <2>4, <2>5, <2>6 DEF msg, r
<1>2. MadeInv => ReportedIsMade
  BY <1>1 DEF ReportedIsMade
<1> QED BY <1>2, MadeAlways, PTL

\* The numbers of a patch run on from those asked for, whatever the ranges are;
\* one that does not is an end of its range.
THEOREM NumbersAreRun == PatchSpec => []NumbersRunOn
<1>1. ASSUME MadeInv, NEW i \in 1 .. Len(made)
      PROVE  /\ made[i].universe # asked.run.universe + i - 1 =>
                    /\ asked.msg.protocol \in IpProtocols
                    /\ made[i].universe \in {Minimum[asked.msg.protocol],
                                             Maximum[asked.msg.protocol]}
             /\ made[i].internal # asked.run.internal + i - 1 =>
                    made[i].internal \in {InternalMin, InternalMax}
  <2> DEFINE msg == asked.msg
             run == asked.run
             r == made[i]
             p == asked.msg.protocol
             u == asked.run.universe + (i - 1)
             n == asked.run.internal + (i - 1)
  <2>1. /\ msg.type \in Types /\ msg.protocol \in Protocols
        /\ r = Patched(msg, run, i - 1, globalAdapters)
        /\ run \in Runs /\ i \in Int
    BY <1>1, MadeIs DEF Accepts
  <2>2. /\ u \in Int /\ n \in Int
        /\ u = asked.run.universe + i - 1 /\ n = asked.run.internal + i - 1
    <3>1. asked.run.universe \in Starts /\ asked.run.internal \in Starts
      BY <2>1 DEF Runs
    <3>2. asked.run.universe \in Int /\ asked.run.internal \in Int
      BY <3>1, PatchAssumption
    <3> QED BY <2>1, <3>2
  <2>3. /\ r.internal = Clamp(n, InternalMin, InternalMax)
        /\ r.universe = (IF p \in IpProtocols THEN ClampUniverse(p, u) ELSE u)
    <3>1. /\ r.internal = Clamp(run.internal + (i - 1), InternalMin, InternalMax)
          /\ r.universe = (IF msg.protocol \in IpProtocols
                           THEN ClampUniverse(msg.protocol, run.universe + (i - 1))
                           ELSE run.universe + (i - 1))
      <4> HIDE DEF msg, run, r, u, n
      <4> QED BY <2>1, PatchedIs
    <3> QED BY <3>1
  <2>4. p \in Protocols
    BY <2>1
  <2> HIDE DEF msg, run, r, p, u, n
  <2>5. Clamp(n, InternalMin, InternalMax) # n => Clamp(n, InternalMin, InternalMax) \in {InternalMin, InternalMax}
    BY <2>2, InternalClamped
  <2>6. ClampUniverse(p, u) # u => ClampUniverse(p, u) \in {Minimum[p], Maximum[p]}
    BY <2>2, <2>4, UniverseClamped
  <2>7. /\ r.universe # u => p \in IpProtocols /\ r.universe \in {Minimum[p], Maximum[p]}
        /\ r.internal # n => r.internal \in {InternalMin, InternalMax}
    BY <2>3, <2>5, <2>6
  <2> QED BY <2>2, <2>7 DEF p, r
<1>2. MadeInv => NumbersRunOn
  BY <1>1 DEF NumbersRunOn
<1> QED BY <1>2, MadeAlways, PTL
==================================================================================
