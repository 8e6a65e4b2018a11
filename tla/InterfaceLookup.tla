---------------------------- MODULE InterfaceLookup ----------------------------
(***************************************************************************)
(* How an interface is named and found again: lx_network_adapter_to_sym /  *)
(* _find (lx_net.c) and lx_serial_port_to_sym / _find (lx_serial.c), in    *)
(* the builds for macOS and for Windows.                                   *)
(*                                                                         *)
(* A symbol that prints as "head (tail)" is the record of the two parts;   *)
(* one without a parenthesised part has the tail "".  Of the addresses of  *)
(* an adapter only the first is in the symbol, because the look-up parses  *)
(* no other.  Adapters and ports are numbered in the order in which the    *)
(* hash tables are walked; 0 is the NULL pointer.                          *)
(***************************************************************************)
EXTENDS Integers, Sequences, FiniteSets

CONSTANTS
    AdapterList,      \* the network adapters: their name and addresses
    PortList,         \* the serial ports: their description and port name
    Quads,            \* the texts of four groups of one to three digits
    IpAddresses,      \* those of them that parse as an IP address
    ListMax,          \* how many addresses fit into a symbol of 255 characters
    Windows           \* the build, WIN_VERSION

ASSUME AdapterAssumption ==
    AdapterList \in Seq([name : STRING, addresses : Seq(IpAddresses)])
ASSUME PortAssumption == PortList \in Seq([description : STRING, port : STRING \ {""}])
ASSUME BuildAssumption == ListMax \in Nat \ {0} /\ Windows \in BOOLEAN
ASSUME TextAssumption ==
    "0.0.0.0" \in IpAddresses /\ IpAddresses \subseteq Quads /\ "" \notin Quads

Null == 0
Adapters == 1 .. Len(AdapterList)
Ports == 1 .. Len(PortList)

\* lx_common.c: the three reserved interface names.
All == [head |-> "All", tail |-> "0.0.0.0"]
Global == [head |-> "[global]", tail |-> ""]
None == [head |-> "[none]", tail |-> ""]

Least(S) == CHOOSE n \in S : \A m \in S : n <= m
Greatest(S) == CHOOSE n \in S : \A m \in S : m <= n

\* A list that is cut off lacks its closing parenthesis and is no tail.
AdapterToSym(a) ==
    [head |-> AdapterList[a].name,
     tail |-> IF Len(AdapterList[a].addresses) \in 1 .. ListMax
              THEN AdapterList[a].addresses[1] ELSE ""]

\* No adapter prints as one of the reserved names.
ASSUME NameAssumption == \A a \in Adapters : AdapterToSym(a) \notin {All, Global}

HasAddress(a, ip) ==
    \E i \in 1 .. Len(AdapterList[a].addresses) : AdapterList[a].addresses[i] = ip

\* Seeded fault: the address may be missing.
ParsesAsAdapter_Any(sym) == TRUE

\* The symbol has the form of the regular expression.
ParsesAsAdapter(sym) == sym.tail \in Quads

\* Seeded fault: the search by name is forgotten.
AdapterFind_AddressOnly(sym) ==
    LET byAddress == {a \in Adapters : HasAddress(a, sym.tail)}
    IN IF byAddress # {} THEN Greatest(byAddress) ELSE Null

\* The adapter a symbol of that form names, or Null, as when its address is
\* none (300.0.0.1).  The search by address always runs and its last hit
\* overrides the search by name.
AdapterFind(sym) ==
    LET byName == {a \in Adapters : AdapterList[a].name = sym.head}
        byAddress == {a \in Adapters : HasAddress(a, sym.tail)}
    IN IF sym.tail \notin IpAddresses THEN Null
       ELSE IF byAddress # {} THEN Greatest(byAddress)
       ELSE IF byName # {} THEN Least(byName) ELSE Null

\* Seeded fault: the forms of the two builds are exchanged.
PortToSym_Exchanged(p) ==
    IF ~Windows THEN [head |-> PortList[p].port, tail |-> ""]
    ELSE [head |-> PortList[p].description, tail |-> PortList[p].port]

\* On macOS "description (port)", or "[unknown] (port)" without a description;
\* on Windows the port alone.
PortToSym(p) ==
    IF Windows THEN [head |-> PortList[p].port, tail |-> ""]
    ELSE [head |-> IF PortList[p].description = "n/a" THEN "[unknown]" ELSE PortList[p].description,
          tail |-> PortList[p].port]

ParsesAsPort(sym) == sym.tail # ""

\* The port a symbol names, or Null when the caller's pointer is left alone.
\* The search by description always runs and overrides the search by port.
PortFind(sym) ==
    LET byPort == {p \in Ports : PortList[p].port = sym.tail}
        byDescription == {p \in Ports : PortList[p].description = sym.head /\ sym.head # "[none]"}
    IN IF ~ParsesAsPort(sym) THEN Null
       ELSE IF byDescription # {} THEN Least(byDescription)
       ELSE IF byPort # {} THEN Least(byPort) ELSE Null

\* What lx_universe_protocol_interface_get_list offers.
AdapterMenu == {Global, All} \cup {AdapterToSym(a) : a \in Adapters}
PortMenu == {None} \cup {PortToSym(p) : p \in Ports}
================================================================================
