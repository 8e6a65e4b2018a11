------------------------------ MODULE MCQuickPatch ------------------------------
(***************************************************************************)
(* QuickPatch on a machine with two adapters, one without an address, and  *)
(* one port.                                                               *)
(***************************************************************************)
EXTENDS QuickPatch

MCAdapterList ==
    <<[name |-> "eth", addresses |-> <<"10.0.0.1">>], [name |-> "vpn", addresses |-> <<>>]>>

MCPortList ==
    <<[description |-> "dongle", port |-> "tty1"]>>

MCIpAddresses == {"0.0.0.0", "10.0.0.1"}
MCQuads == MCIpAddresses \cup {"300.0.0.1"}

MCMinimum == [artnet |-> 0, sacn |-> 1, dmxusbpro |-> 1, opendmxusb |-> 1]
MCMaximum == [artnet |-> 3, sacn |-> 4, dmxusbpro |-> 2, opendmxusb |-> 1]

\* The menus, and an adapter with an address that is none.
MCAskedSymbols == AdapterMenu \cup PortMenu \cup {[head |-> "eth", tail |-> "300.0.0.1"]}
=================================================================================
