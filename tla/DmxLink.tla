--------------------------------- MODULE DmxLink ---------------------------------
(***************************************************************************)
(* A universe on its way over UDP: packets are built and serialized,       *)
(* datagrams are lost, duplicated and reordered on the way, and            *)
(* udp_socket_service receives one at a time into its one buffer, which it *)
(* hands on before it starts to receive the next.                          *)
(*                                                                         *)
(* No code calls deserialize yet: the callback of the socket is taken to   *)
(* do it, with the buffer and the number of bytes received.  Datagrams of  *)
(* other equipment arrive as well.                                         *)
(***************************************************************************)
EXTENDS DmxPacket, FiniteSets

CONSTANTS
    Protocol,         \* "artnet" or "sacn": what the socket is for
    Universes,        \* the addresses that are sent to
    Sequences,        \* the sequence numbers
    Frames,           \* the channel data that is sent
    Foreign,          \* the datagrams of other equipment
    MaxSent           \* bound: the datagrams that are sent

HeaderSize == IF Protocol = "artnet" THEN ArtDmxHeaderSize ELSE SacnHeaderSize

\* A datagram as it arrives: what is beyond the header is the payload.
Datagram(d) ==
    /\ d.size \in Nat /\ d.payload \in Seq(Nat)
    /\ d.size >= HeaderSize => d.size = HeaderSize + Len(d.payload)
    /\ d.size < HeaderSize => d.payload = <<>>

ASSUME LinkAssumption ==
    /\ Protocol \in {"artnet", "sacn"}
    /\ \A f \in Frames : f \in Seq(Nat) /\ Len(f) = UniverseLength
    /\ \A d \in Foreign : Datagram(d)
    /\ MaxSent \in Nat

VARIABLES
    inflight,         \* the datagrams on the way
    sent,             \* what has been sent: address, sequence and channels
    buffer,           \* _buffer: the header and the bytes after it
    latest,           \* the datagram received last
    received,         \* what deserialize made of it
    listening         \* whether an asynchronous receive is under way

vars == <<inflight, sent, buffer, latest, received, listening>>

Packet(address, sequence, data) ==
    IF Protocol = "artnet" THEN ArtDmx(address, sequence, data)
                           ELSE SacnDmx(address, sequence, data)

\* The other packet of the protocol is shorter than the header of a DMX packet.
SyncDatagram ==
    [size |-> IF Protocol = "artnet" THEN ArtSyncSize ELSE SacnSyncSize,
     header |-> Refused, payload |-> <<>>]

Accepts(size, header) ==
    IF Protocol = "artnet" THEN ArtDmxAccepts(size, header) ELSE SacnAccepts(size, header)

CopiedLength(header) ==
    IF Protocol = "artnet" THEN ArtDmxLength(header) ELSE SacnLength(header)

\* What the buffer holds after `new` was received over `old`.
Overwrite(old, new) ==
    [i \in 1 .. (IF Len(new) > Len(old) THEN Len(new) ELSE Len(old)) |->
        IF i <= Len(new) THEN new[i] ELSE old[i]]

\* deserialize copies from the buffer, whatever was received into it.
Deserialize(size, b) ==
    IF size >= HeaderSize /\ Accepts(size, b.header)
    THEN [header |-> b.header,
          channels |-> [i \in 1 .. CopiedLength(b.header) |->
                            IF i <= Len(b.payload) THEN b.payload[i] ELSE 0]]
    ELSE Refused

------------------------------------------------------------------------------
Init ==
    /\ inflight = {} /\ sent = {}
    /\ buffer = [header |-> Refused, payload |-> <<>>]
    /\ latest = Refused /\ received = Refused
    /\ listening = TRUE

Send ==
    \E address \in Universes, sequence \in Sequences, data \in Frames :
        /\ Cardinality(sent) < MaxSent
        /\ sent' = sent \cup {<<address, sequence, data>>}
        /\ inflight' = inflight \cup
              {Serialize(Packet(address, sequence, data), HeaderSize, HeaderSize + UniverseLength)}
        /\ UNCHANGED <<buffer, latest, received, listening>>

\* A datagram of somebody else, or a sync packet.
Intrude ==
    /\ inflight' \in {inflight \cup {d} : d \in Foreign \cup {SyncDatagram}}
    /\ inflight \cap (Foreign \cup {SyncDatagram}) = {}
    /\ UNCHANGED <<sent, buffer, latest, received, listening>>

Lose ==
    /\ \E d \in inflight : inflight' = inflight \ {d}
    /\ UNCHANGED <<sent, buffer, latest, received, listening>>

\* start_receive: a datagram that stays in flight is a duplicate to come.
Receive ==
    \E d \in inflight :
        /\ listening
        /\ buffer' = [header |-> IF d.size >= HeaderSize THEN d.header ELSE Refused,
                      payload |-> Overwrite(buffer.payload, d.payload)]
        /\ latest' = d
        /\ received' = Deserialize(d.size, buffer')
        /\ UNCHANGED <<inflight, sent, listening>>

\* start_receive, when the receive ends with an error other than message_size:
\* the callback is not called and nothing starts to receive again.
ReceiveFails ==
    /\ listening /\ listening' = FALSE
    /\ UNCHANGED <<inflight, sent, buffer, latest, received>>

Next == Send \/ Intrude \/ Lose \/ Receive \/ ReceiveFails

Spec == Init /\ [][Next]_vars

------------------------------------------------------------------------------
(* Properties                                                              *)

\* The packet of one of the universes that were sent.
Own == {Serialize(Packet(s[1], s[2], s[3]), HeaderSize, HeaderSize + UniverseLength) : s \in sent}

\* The address in the header of an ArtDMX packet, read as lx_dmx.c reads it.
HeaderAddress(header) ==
    FromArtNetFormat(<<header.net, header.sub_uni \div 16, header.sub_uni % 16>>)

\* An ArtDMX packet of ours arrives as it was sent, address, sequence and
\* channels, in whatever order and how often datagrams arrive: the header
\* splits the address where lx_dmx.c does.
ReceivedWasSent ==
    Protocol = "artnet" /\ received # Refused /\ latest \in Own =>
        <<HeaderAddress(received.header), received.header.sequence, received.channels>> \in sent

\* Channels come from the datagram that was just received, never from what an
\* earlier, longer one left in the buffer or from beyond it.
NoStaleChannels ==
    received # Refused =>
        /\ Len(received.channels) <= Len(latest.payload)
        /\ \A i \in 1 .. Len(received.channels) : received.channels[i] = latest.payload[i]

\* Whatever came before, a DMX packet that this code built is taken by this
\* code, and a sync packet is not taken for one.
OwnPacketsTaken ==
    /\ latest \in Own => received # Refused
    /\ latest = SyncDatagram => received = Refused
==================================================================================
