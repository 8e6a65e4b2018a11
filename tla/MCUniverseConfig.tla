---------------------------- MODULE MCUniverseConfig ----------------------------
(***************************************************************************)
(* UniverseConfig with ranges of a few numbers that overlap as those of    *)
(* the code do, and a machine with two adapters of one name, an adapter    *)
(* without an address, two ports of one description and one without any.   *)
(***************************************************************************)
EXTENDS UniverseConfig

MCAdapterList ==
    <<[name |-> "eth", addresses |-> <<"10.0.0.1", "10.0.1.1">>],
      [name |-> "eth", addresses |-> <<"10.0.0.2">>],
      [name |-> "vpn", addresses |-> <<>>]>>

MCPortList ==
    <<[description |-> "dongle", port |-> "tty1"],
      [description |-> "dongle", port |-> "tty2"],
      [description |-> "n/a", port |-> "tty3"]>>

MCIpAddresses == {"0.0.0.0", "10.0.0.1", "10.0.0.2", "10.0.0.9", "10.0.1.1"}
MCQuads == MCIpAddresses \cup {"300.0.0.1"}

\* Art-Net from 0, sACN from 1 and further, as 0..32767 and 1..63999 do.
MCMinimum == [artnet |-> 0, sacn |-> 1, dmxusbpro |-> 1, opendmxusb |-> 1]
MCMaximum == [artnet |-> 3, sacn |-> 4, dmxusbpro |-> 2, opendmxusb |-> 1]

\* The menus, an adapter that got another address, one that is gone, one with
\* an address that is none, an adapter known by its second address, and a text
\* that is no interface.
MCSymbolInputs ==
    AdapterMenu \cup PortMenu \cup
        {[head |-> "vpn", tail |-> "10.0.0.9"], [head |-> "wlan", tail |-> "10.0.0.9"],
         [head |-> "vpn", tail |-> "300.0.0.1"],
         [head |-> "eth", tail |-> "10.0.1.1"], [head |-> "text", tail |-> ""]}

MCUniverseInputs == {-1, 0, 2, 5}
MCInternalInputs == {-1, 1, 3}
MCPriorityInputs == {0, 101}
MCUnicastInputs == {<<>>, <<"10.0.0.9">>, <<"invalid">>, <<"invalid", "10.0.0.2">>}
MCCounts == {1}
=================================================================================
