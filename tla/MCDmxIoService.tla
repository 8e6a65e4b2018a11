----------------------------- MODULE MCDmxIoService -----------------------------
(* DmxIoService on two universes. *)
EXTENDS DmxIoService

Universe(protocol, type, internal) == [protocol |-> protocol, type |-> type, internal |-> internal]

\* One universe for each direction, and one that is not on the network.
OnNetwork == {Universe("artnet", "output", 1), Universe("sacn", "input", 2)}
MCConfigs == OnNetwork \cup {Universe("enttec", "output", 2)}

\* A table with both.
MCLoaded == {CHOOSE t \in [Names -> OnNetwork] : \A c \in OnNetwork : \E n \in Names : t[n] = c}
=================================================================================
