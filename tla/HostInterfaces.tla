----------------------------- MODULE HostInterfaces -----------------------------
(***************************************************************************)
(* One universe on a machine whose network adapters and serial devices     *)
(* come and go.  The program lists them once, when it starts               *)
(* (lx_net_macos.c, lx_net_win.c, lx_serial_macos.cpp, lx_serial_win.c),   *)
(* then loads the universe it saved and looks its interface up among them  *)
(* (UniverseRecord); until it quits it knows no others.  Which addresses   *)
(* an Art-Net or sACN universe reports as the ones it sends to (the getter *)
(* of unicast_addresses) follows from the adapter; this code has no        *)
(* protocol yet that would send to them.                                   *)
(*                                                                         *)
(* The global interfaces stay "All" here (UniverseConfig changes them) and *)
(* the numbers of the universe play no part.                               *)
(***************************************************************************)
EXTENDS Integers, FiniteSetsExt, SequencesExt

CONSTANTS
    Machines,         \* what the system may list, by build: names with their addresses
    DeviceLists,      \* the serial devices it may list, by build
    IpAddresses,      \* the texts of the IPv4 addresses
    Bytes, Mask,      \* the four bytes of an address, and of its subnet mask
    Convertible,      \* the names wcstombs can convert
    ListMax,          \* how many addresses fit into a symbol
    UnicastInputs,    \* the lists of addresses a user enters
    InitialLength     \* the adapters and addresses that fit at the first try

\* No adapter has a reserved name (lx_common.c), and on Windows no two have one name.
ASSUME MachineAssumption ==
    /\ \A build \in BOOLEAN :
          Machines[build] \subseteq Seq([name : STRING \ {"All", "[global]"}, addresses : Seq(STRING)])
    /\ \A m \in Machines[TRUE] : \A i, j \in 1 .. Len(m) : m[i].name = m[j].name => i = j

\* What an adapter can be named on Windows, "?" for what a buffer happens to hold.
WindowsNames == {"All", "?"} \cup UNION {{m[i].name : i \in 1 .. Len(m)} : m \in Machines[TRUE]}

\* No two devices have one path, none is described as what the program puts for
\* no description and for no port; on Windows a name that can be read is not
\* empty, and no device is described as an adapter is named or named by an address.
ASSUME DeviceAssumption ==
    \A build \in BOOLEAN : \A ds \in DeviceLists[build] :
        /\ ds \in Seq([path : STRING, description : STRING \ {"[unknown]", "[none]"},
                       readable : BOOLEAN, parallel : BOOLEAN])
        /\ \A i, j \in 1 .. Len(ds) : ds[i].path = ds[j].path /\ ds[i].path # "" => i = j
        /\ build => \A i \in 1 .. Len(ds) :
              /\ ds[i].readable => ds[i].path # ""
              /\ ds[i].path \notin IpAddresses /\ ds[i].description \notin WindowsNames

\* A subnet mask is ones followed by zeros.
Masks ==
    {[j \in 1 .. 4 |-> IF j < i THEN 255 ELSE IF j = i THEN last ELSE 0] :
        i \in 1 .. 4, last \in {0, 128, 192, 224, 240, 248, 252, 254, 255}}

ASSUME AddressAssumption ==
    /\ "0.0.0.0" \in IpAddresses /\ "" \notin IpAddresses
    /\ \A a \in IpAddresses : Bytes[a] \in [1 .. 4 -> 0 .. 255] /\ Mask[a] \in Masks
    /\ ListMax \in Nat \ {0} /\ InitialLength \in Nat

\* What the program puts for a name and for a description is a text.
ASSUME TextAssumption == {"?", "n/a"} \subseteq STRING

VARIABLES
    windows,          \* the build, for Windows or for macOS; it never changes
    machine,          \* the adapters the machine has
    devices,          \* the serial devices it has
    phase,            \* off, starting (adapters, ports, load) or up
    length, tries,    \* the buffer for the adapters, and how often it was too short
    adapters, ports,  \* network_adapters and serial_ports, as the tables are walked
    config,           \* the universe; while the program is off, what it saved
    listed,           \* the machine as it was when it was listed (history)
    failed,           \* the system listed no adapters or no devices (history)
    changes           \* how often the adapters changed since the start, up to 2 (history)

vars == <<windows, machine, devices, phase, length, tries, adapters, ports, config, listed, failed, changes>>

MaxTries == 3

U == INSTANCE UniverseRecord WITH
    AdapterList <- adapters, PortList <- ports, Windows <- windows, Quads <- IpAddresses,
    Minimum <- [p \in {"artnet", "sacn", "dmxusbpro", "opendmxusb"} |-> 1],
    Maximum <- [p \in {"artnet", "sacn", "dmxusbpro", "opendmxusb"} |-> 1],
    InternalMin <- 1, InternalMax <- 1, PriorityMin <- 100, PriorityMax <- 100, UnicastMax <- 1

A == INSTANCE DmxAddress

NoAdapters == [p \in {"artnet", "sacn"} |-> 0]

Init ==
    /\ windows \in BOOLEAN
    /\ machine \in Machines[windows] /\ devices \in DeviceLists[windows]
    /\ phase = "off"
    /\ length = 0 /\ tries = 0
    /\ adapters = <<>> /\ ports = <<>>
    /\ config = U!Default
    /\ listed = [machine |-> <<>>, devices |-> <<>>] /\ failed = FALSE /\ changes = 0

------------------------------------------------------------------------------
(* The machine                                                             *)

MachineChanges ==
    /\ machine' \in Machines[windows] \ {machine}
    /\ changes' = IF changes = 2 THEN 2 ELSE changes + 1
    /\ UNCHANGED <<windows, devices, phase, length, tries, adapters, ports, config, listed, failed>>

DevicesChange ==
    /\ devices' \in DeviceLists[windows] \ {devices}
    /\ UNCHANGED <<windows, machine, phase, length, tries, adapters, ports, config, listed, failed, changes>>

------------------------------------------------------------------------------
(* The lists                                                               *)

\* A table is walked in an order nobody specifies.
Orders(table) ==
    {[i \in 1 .. Len(s) |-> [name |-> s[i], addresses |-> table[s[i]]]] :
        s \in SetToSeqs(DOMAIN table)}

EntriesOf(a) == [j \in 1 .. Len(a.addresses) |-> [name |-> a.name, address |-> a.addresses[j]]]

\* getifaddrs: one entry per address of any family.
Entries(m) ==
    LET upTo[i \in 0 .. Len(m)] == IF i = 0 THEN <<>> ELSE upTo[i - 1] \o EntriesOf(m[i])
    IN upTo[Len(m)]

\* The IPv4 addresses of a list, in their order.
IpsOf(list) ==
    LET ips[i \in 0 .. Len(list)] ==
            IF i = 0 THEN <<>>
            ELSE IF list[i] \in IpAddresses THEN Append(ips[i - 1], list[i]) ELSE ips[i - 1]
    IN ips[Len(list)]

Put(table, name, addresses) ==
    [n \in DOMAIN table \cup {name} |-> IF n = name THEN addresses ELSE table[n]]

\* Seeded fault: an adapter that is in the table already is made anew.
AddEntry_Anew(table, e) ==
    IF e.address \notin IpAddresses THEN table ELSE Put(table, e.name, <<e.address>>)

\* The loop body of lx_network_adapter_enumerate on macOS.
AddEntry(table, e) ==
    IF e.address \notin IpAddresses THEN table
    ELSE Put(table, e.name,
             IF e.name \in DOMAIN table THEN Append(table[e.name], e.address) ELSE <<e.address>>)

NoTable == [n \in {} |-> <<>>]

TableOf(es) ==
    LET table[i \in 0 .. Len(es)] == IF i = 0 THEN NoTable ELSE AddEntry(table[i - 1], es[i])
    IN table[Len(es)]

\* The tables that may come out on Windows: the buffer of a name that cannot be
\* converted keeps what was there, and a later adapter replaces one of its name.
WindowsTables(m) ==
    LET Names == {m[i].name : i \in 1 .. Len(m)}
        shown == {s \in [1 .. Len(m) -> (Names \cap Convertible) \cup {"?"}] :
                    \A i \in 1 .. Len(m) : m[i].name \in Convertible => s[i] = m[i].name}
        At(s, n) == Max({i \in 1 .. Len(m) : s[i] = n})
    IN {[n \in {s[i] : i \in 1 .. Len(m)} |->
            IpsOf(m[At(s, n)].addresses)] : s \in shown}

Needed(m) == Len(m) + Len(Entries(m))

Start ==
    /\ phase = "off"
    /\ phase' = "adapters" /\ length' = InitialLength /\ tries' = 0
    /\ failed' = FALSE /\ changes' = 0
    /\ UNCHANGED <<windows, machine, devices, adapters, ports, config, listed>>

Listed(tables) ==
    /\ \E t \in tables : adapters' \in Orders(t)
    /\ listed' = [listed EXCEPT !.machine = machine]
    /\ phase' = "ports"
    /\ UNCHANGED <<windows, machine, devices, length, tries, ports, config, changes>>

EnumerateAdapters ==
    /\ phase = "adapters" /\ ~windows
    /\ \/ Listed({TableOf(Entries(machine))}) /\ UNCHANGED failed
       \/ Listed({NoTable}) /\ failed' = TRUE

\* GetAdaptersAddresses tells how much it needed.
Overflow ==
    /\ tries' = tries + 1
    /\ length' = Needed(machine)

LastTry(n) == n = MaxTries

\* A buffer that is too short at the last try leaves the table empty, as any
\* other error does.
TryAdapters ==
    /\ phase = "adapters" /\ windows
    /\ \/ /\ Needed(machine) > length
          /\ Overflow
          /\ phase' = IF LastTry(tries') THEN "ports" ELSE "adapters"
          /\ listed' = [listed EXCEPT !.machine = machine]
          /\ UNCHANGED <<windows, machine, devices, adapters, ports, config, failed, changes>>
       \/ Needed(machine) <= length /\ Listed(WindowsTables(machine)) /\ UNCHANGED failed
       \/ Listed({NoTable}) /\ failed' = TRUE

\* On macOS a device without a path is left out, on Windows one whose name
\* cannot be read and a parallel port.
IsPort(d) == IF windows THEN d.readable /\ ~d.parallel ELSE d.path # ""

PortOf(d) ==
    [port |-> d.path,
     description |-> IF d.description = "" /\ ~windows THEN "n/a" ELSE d.description]

PortsOf(ds) == {PortOf(d) : d \in {ds[i] : i \in {j \in 1 .. Len(ds) : IsPort(ds[j])}}}

EnumeratePorts ==
    /\ phase = "ports"
    /\ \/ ports' \in SetToSeqs(PortsOf(devices)) /\ UNCHANGED failed
       \/ ports' = <<>> /\ ~windows /\ failed' = TRUE
    /\ listed' = [listed EXCEPT !.devices = devices]
    /\ phase' = "load"
    /\ UNCHANGED <<windows, machine, devices, length, tries, adapters, config, changes>>

------------------------------------------------------------------------------
(* The universe                                                            *)

Load ==
    /\ phase = "load"
    /\ config' = U!FromDictionary(U!ToDictionary(config), NoAdapters)
    /\ phase' = "up"
    /\ UNCHANGED <<windows, machine, devices, length, tries, adapters, ports, listed, failed, changes>>

Change(c) ==
    /\ phase = "up"
    /\ config' = c
    /\ UNCHANGED <<windows, machine, devices, phase, length, tries, adapters, ports, listed, failed, changes>>

ChooseInterface ==
    \E sym \in IF config.protocol \in U!IpProtocols THEN U!AdapterMenu ELSE U!PortMenu :
        Change(U!SetInterface(config, sym, NoAdapters))

ChooseProtocol ==
    \E p \in {"artnet", "sacn", "dmxusbpro"} : Change(U!SetProtocol(config, p, NoAdapters))

ChooseUnicast == \E list \in UnicastInputs : Change(U!SetUnicast(config, list))

ChooseMode == \E mode \in U!ModeMenu(config.type, config.protocol) : Change(U!SetMode(config, mode))

Quit ==
    /\ phase = "up"
    /\ phase' = "off"
    /\ config' = [config EXCEPT !.adapter = 0, !.port = 0]
    /\ adapters' = <<>> /\ ports' = <<>>
    /\ listed' = [machine |-> <<>>, devices |-> <<>>]
    /\ length' = 0 /\ tries' = 0 /\ failed' = FALSE
    /\ UNCHANGED <<windows, machine, devices, changes>>

Next ==
    \/ MachineChanges \/ DevicesChange
    \/ Start \/ EnumerateAdapters \/ TryAdapters \/ EnumeratePorts \/ Load
    \/ ChooseInterface \/ ChooseProtocol \/ ChooseMode \/ ChooseUnicast \/ Quit

Spec == Init /\ [][Next]_vars

------------------------------------------------------------------------------
(* The addresses a universe reports                                        *)

\* byte | ~mask, in eight bits
OrNot(byte, mask) ==
    LET Bit(w) == IF (byte \div w) % 2 = 1 \/ (mask \div w) % 2 = 0 THEN w ELSE 0
    IN Bit(1) + Bit(2) + Bit(4) + Bit(8) + Bit(16) + Bit(32) + Bit(64) + Bit(128)

\* Seeded fault: the mask is not inverted.
ToDirectedBroadcast_Plain(address, mask) == [i \in 1 .. 4 |-> OrNot(address[i], 255 - mask[i])]

\* lx_ip_address_to_directed_broadcast
ToDirectedBroadcast(address, mask) == [i \in 1 .. 4 |-> OrNot(address[i], mask[i])]

\* lx_network_adapter_get_broadcast_ips
BroadcastIps(a) ==
    {ToDirectedBroadcast(Bytes[ip], Mask[ip]) : ip \in ToSet(adapters[a].addresses)}

\* lx_universe_unicast_addresses_get, the getter of the attribute, which
\* is all that is made of these addresses: "n/a", or nothing at all, is none.
Destinations(c) ==
    CASE c.mode = "broadcast" ->
            IF c.interface = U!All THEN {<<255, 255, 255, 255>>}
            ELSE IF c.adapter = 0 THEN {} ELSE BroadcastIps(c.adapter)
      [] c.mode = "unicast" -> {Bytes[ip] : ip \in ToSet(c.unicast)}
      [] c.mode = "multicast" -> {A!ToSacnMulticast(c.universe)}
      [] OTHER -> {}

------------------------------------------------------------------------------
(* Properties                                                              *)

Started == phase \in {"load", "up"}
NamesConvert == ~windows \/ \A i \in 1 .. Len(listed.machine) : listed.machine[i].name \in Convertible

\* The addresses of the entries of one name, those of another being blanked.
AddressesOf(m, name) ==
    LET es == Entries(m)
    IN IpsOf([i \in 1 .. Len(es) |-> IF es[i].name = name THEN es[i].address ELSE ""])

\* Every adapter that has an IPv4 address is listed, with all its addresses in
\* their order, unless the adapters changed twice while three tries were made
\* to list them; and so is every device that can be opened by its name.  On
\* Windows this takes names that can be converted.
EverythingListed ==
    Started /\ ~failed /\ NamesConvert =>
        /\ changes < 2 =>
              \A e \in ToSet(Entries(listed.machine)) : e.address \in IpAddresses =>
                 \E a \in 1 .. Len(adapters) :
                    /\ adapters[a].name = e.name
                    /\ adapters[a].addresses = AddressesOf(listed.machine, e.name)
        /\ \A d \in ToSet(listed.devices) : d.path # "" /\ d.readable /\ ~d.parallel =>
              \E p \in 1 .. Len(ports) : ports[p].port = d.path

Value(bytes) == ((bytes[1] * 256 + bytes[2]) * 256 + bytes[3]) * 256 + bytes[4]
BytesOf(n) == [i \in 1 .. 4 |-> (n \div <<16777216, 65536, 256, 1>>[i]) % 256]

\* The highest address of the network that an address is in.
Highest(ip) ==
    LET size == Value([i \in 1 .. 4 |-> 255 - Mask[ip][i]]) + 1
    IN BytesOf((Value(Bytes[ip]) \div size) * size + size - 1)

\* A broadcasting universe that names an adapter reports the networks this
\* adapter was in when it was listed, each by its highest address and no
\* other, whatever path led to that adapter.  A broadcasting universe reports
\* no address only if it follows the global interface while that is "All", or
\* its adapter had no IPv4 address.
SendsToItsNetworks ==
    phase = "up" /\ config.mode = "broadcast" =>
        /\ NamesConvert /\ config.interface \notin {U!All, U!Global} =>
              Destinations(config) =
                {Highest(ip) : ip \in ToSet(AddressesOf(listed.machine, config.interface.head))}
        /\ Destinations(config) = {} =>
              \/ config.interface = U!Global
              \/ config.adapter # 0 /\ adapters[config.adapter].addresses = <<>>

\* An adapter that is offered and shares neither name nor address with another
\* is the one that is selected, exactly if it has an address and its addresses
\* fit into the name; otherwise the choice means "[global]".  A port that is
\* offered is the one that is selected, unless another has its description,
\* but on Windows none is ever selected: the name that is offered there does
\* not have the form that is looked for.
ChoiceIsHonoured == phase = "up" => U!Honoured(config, NoAdapters)

\* After a restart a universe that named an adapter or a port has one that
\* shares the saved name or the first address, or the description or the path,
\* and it has none only if no such one is listed or its saved name is a name
\* alone: that of an adapter that had no address or more than fit (and of any
\* port on Windows) is not looked for, and although that adapter is still there
\* the universe comes back as one that follows the global interface.
NoStrangerFound == [][phase = "load" => U!NoStranger(config.interface, config')]_phase
=================================================================================
