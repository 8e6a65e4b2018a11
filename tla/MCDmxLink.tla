-------------------------------- MODULE MCDmxLink --------------------------------
(* DmxLink with universes of three channels, or of 512. *)
EXTENDS DmxLink

\* Two frames that differ in one channel.
MCFrames == {[i \in 1 .. UniverseLength |-> IF i = UniverseLength THEN v ELSE 7] : v \in {1, 2}}

\* The ends of the range and addresses that differ in one half only.
MCUniverses == {0, 1, 256, 32767}

ArtHeader(id, version, length) ==
    [id |-> id, version |-> version, sequence |-> 0, sub_uni |-> 1, net |-> 0, length |-> length]

ArtDatagram(header, payload) ==
    [size |-> ArtDmxHeaderSize + Len(payload), header |-> header, payload |-> payload]

\* Shorter universes, one that was cut short, a longer one, a newer and an
\* older version, another protocol, and too little of everything.
MCArtNetForeign ==
    {ArtDatagram(ArtHeader(ArtNetId, 14, 2), <<9, 9>>),
     ArtDatagram(ArtHeader(ArtNetId, 14, UniverseLength), <<9, 9>>),
     ArtDatagram(ArtHeader(ArtNetId, 14, 2), <<9, 9, 9, 9>>),
     ArtDatagram(ArtHeader(ArtNetId, 15, 4), <<8, 8, 8, 8>>),
     ArtDatagram(ArtHeader(ArtNetId, 13, 2), <<9, 9>>),
     ArtDatagram(ArtHeader("other", 14, 2), <<9, 9>>),
     ArtDatagram(ArtHeader(ArtNetId, 14, 1), <<9>>)}

SacnDatagram(id, length, payload) ==
    [size |-> SacnHeaderSize + Len(payload),
     header |-> [id |-> id, sequence |-> 0, universe |-> <<0, 1>>,
                 dmp_flags_length |-> BigEndian(FlagsAndLength(length + DmpLayerSize))],
     payload |-> payload]

MCSacnForeign == {SacnDatagram(SacnId, 2, <<9, 9>>), SacnDatagram("other", 2, <<9, 9>>)}
==================================================================================
