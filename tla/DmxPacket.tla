-------------------------------- MODULE DmxPacket --------------------------------
(***************************************************************************)
(* The DMX packets of both IP protocols (internals/packets): how a packet  *)
(* is built, laid out in a datagram and taken apart again.                 *)
(*                                                                         *)
(* A datagram is its size, the fields of its header that the receiver      *)
(* looks at, and the bytes after the header.  A header is only there when  *)
(* the datagram is long enough for it.  The fields that are constants of a *)
(* protocol and that nobody reads (the CID, the name of the source, the    *)
(* lengths of the outer layers) are left out.                              *)
(***************************************************************************)
EXTENDS DmxAddress

CONSTANT UniverseLength     \* LX_DMX_UNIVERSE_LENGTH

ASSUME UniverseLengthAssumption == UniverseLength \in 2 .. 512

\* sizeof: artdmx_header, sync_packet_artnet, the three sACN layers together,
\* the DMP layer alone, and the two layers of a sync packet.
ArtDmxHeaderSize == 18
ArtSyncSize == 14
SacnHeaderSize == 126
DmpLayerSize == 11
SacnSyncSize == 49

ArtNetId == "Art-Net"
SacnId == "ASC-E1.17"

\* Seeded fault: the halves of the address are swapped.
ArtDmx_Swapped(address, sequence, data) ==
    [header |-> [id |-> ArtNetId, version |-> 14, sequence |-> sequence,
                 sub_uni |-> (address \div 256) % 128, net |-> address % 256,
                 length |-> UniverseLength],
     channels |-> data]

\* The constructor of dmx_packet_artnet.
ArtDmx(address, sequence, data) ==
    [header |-> [id |-> ArtNetId, version |-> 14, sequence |-> sequence,
                 sub_uni |-> address % 256, net |-> (address \div 256) % 128,
                 length |-> UniverseLength],
     channels |-> data]

\* The length and the flags that set_length packs into one word.
FlagsAndLength(length) == 28672 + (length % 4096)

\* The constructor of dmx_packet_sacn.
SacnDmx(address, sequence, data) ==
    [header |-> [id |-> SacnId, sequence |-> sequence, universe |-> BigEndian(address),
                 dmp_flags_length |-> BigEndian(FlagsAndLength(Len(data) + DmpLayerSize))],
     channels |-> data]

\* The two serialize functions; a buffer that is too small is left alone.
Serialize(packet, headerSize, room) ==
    IF room < headerSize + Len(packet.channels) THEN Refused
    ELSE [size |-> headerSize + Len(packet.channels), header |-> packet.header,
          payload |-> packet.channels]

\* Seeded fault: off by one, a datagram that is exactly long enough is refused.
ArtDmxAccepts_Strict(size, header) ==
    /\ size >= ArtDmxHeaderSize + 2
    /\ header.id = ArtNetId
    /\ header.version >= 14
    /\ header.length \in 2 .. 512
    /\ size > ArtDmxHeaderSize + header.length

\* Seeded fault: the length is not compared with what was received.
ArtDmxAccepts_Trusting(size, header) ==
    /\ size >= ArtDmxHeaderSize + 2
    /\ header.id = ArtNetId
    /\ header.version >= 14
    /\ header.length \in 2 .. 512

\* dmx_packet_artnet::deserialize: the checks ...
ArtDmxAccepts(size, header) ==
    /\ size >= ArtDmxHeaderSize + 2
    /\ header.id = ArtNetId
    /\ header.version >= 14
    /\ header.length \in 2 .. 512
    /\ size >= ArtDmxHeaderSize + header.length

\* ... and the number of channels that are copied.
ArtDmxLength(header) == header.length

\* The bit of a word that 0x1000 selects.
Bit12(word) == ((word \div 4096) % 2) * 4096

\* dmx_packet_sacn::deserialize, the length in 16 bits without a sign
SacnLength(header) ==
    (Bit12(FromBigEndian(header.dmp_flags_length)) + 65536 - DmpLayerSize) % 65536

SacnAccepts(size, header) ==
    /\ size >= SacnHeaderSize
    /\ header.id = SacnId
    /\ SacnLength(header) \in 1 .. 513
    /\ size >= SacnHeaderSize + SacnLength(header)
==================================================================================
