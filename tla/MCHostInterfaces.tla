---------------------------- MODULE MCHostInterfaces ----------------------------
(* HostInterfaces on machines with a few adapters and devices. *)
EXTENDS HostInterfaces

\* 0.0.0.0 stands behind "All"; the networks have 24, 20 and 24 bits.
MCIpAddresses == {"0.0.0.0", "10.0.0.1", "10.1.18.2", "10.2.0.3"}
MCBytes ==
    [a \in MCIpAddresses |->
        CASE a = "0.0.0.0" -> <<0, 0, 0, 0>>
          [] a = "10.0.0.1" -> <<10, 0, 0, 1>>
          [] a = "10.1.18.2" -> <<10, 1, 18, 2>>
          [] a = "10.2.0.3" -> <<10, 2, 0, 3>>]
MCMask ==
    [a \in MCIpAddresses |->
        IF a = "10.1.18.2" THEN <<255, 255, 240, 0>> ELSE <<255, 255, 255, 0>>]

Adapter(name, addresses) == [name |-> name, addresses |-> addresses]

\* An adapter whose second address follows another adapter's, one that another
\* takes an address from, one with more addresses than fit, one without any.
MCMacMachines ==
    {<<>>,
     <<Adapter("en", <<"ipv6", "10.0.0.1">>), Adapter("wl", <<"10.2.0.3">>), Adapter("en", <<"10.1.18.2">>)>>,
     <<Adapter("en", <<"10.1.18.2">>), Adapter("wl", <<"10.0.0.1">>)>>,
     <<Adapter("en", <<"10.0.0.1", "10.1.18.2", "10.2.0.3">>), Adapter("wl", <<"ipv6">>)>>}

MCWindowsMachines ==
    {<<Adapter("en", <<>>)>>,
     <<Adapter("en", <<"10.0.0.1">>)>>,
     <<Adapter("en", <<"10.0.0.1", "10.1.18.2">>), Adapter("wl", <<>>)>>,
     <<Adapter("en", <<"10.1.18.2">>), Adapter("wl", <<"10.0.0.1">>), Adapter("ja", <<"10.2.0.3">>)>>}

Device(path, description) ==
    [path |-> path, description |-> description, readable |-> TRUE, parallel |-> FALSE]

\* Two of one description, one without any, one that cannot be opened.
MCMacDevices ==
    {<<Device("tty1", "dongle"), Device("tty2", "dongle")>>,
     <<Device("", "modem"), Device("tty1", "box"), Device("tty3", "")>>}

MCWindowsDevices ==
    {<<[Device("LPT1", "printer") EXCEPT !.parallel = TRUE], Device("COM1", "dongle (COM1)")>>,
     <<[Device("COM1", "dongle") EXCEPT !.readable = FALSE], Device("COM2", "box")>>}

MCMachines == [build \in BOOLEAN |-> IF build THEN MCWindowsMachines ELSE MCMacMachines]
MCDeviceLists == [build \in BOOLEAN |-> IF build THEN MCWindowsDevices ELSE MCMacDevices]

MCUnicastInputs == {<<>>, <<"10.0.0.1">>}
=================================================================================
