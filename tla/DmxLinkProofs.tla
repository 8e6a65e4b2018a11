------------------------------ MODULE DmxLinkProofs ------------------------------
(***************************************************************************)
(* What holds of addresses and packets whatever is sent: conversions and   *)
(* their inverses, and the two directions of the sACN length.              *)
(***************************************************************************)
EXTENDS DmxLink, TLAPS

\* Every Art-Net universe survives being shown as net.subnet.universe and read
\* again (the getter and the setter of protocol_universe).
THEOREM ArtNetRoundTrip ==
    ASSUME NEW address \in ArtNetUniverses
    PROVE  FromArtNetFormat(ToArtNetFormat(address)) = address
<1> DEFINE d == address \div 16
<1>1. address \in 0 .. 32767  BY DEF ArtNetUniverses
<1>2. address = 16 * d + (address % 16) /\ d \in 0 .. 2047  BY <1>1, SMT
<1>3. d = 16 * (d \div 16) + (d % 16) /\ d \div 16 \in 0 .. 127  BY <1>2, SMT
<1>4. address \div 256 = d \div 16  BY <1>1, SMT
<1>5. (address \div 256) % 128 = d \div 16  BY <1>3, <1>4, SMT
<1>6. FromArtNetFormat(ToArtNetFormat(address))
        = (d \div 16) * 256 + (d % 16) * 16 + (address % 16)
  BY <1>5 DEF FromArtNetFormat, ToArtNetFormat
<1> QED  BY <1>1, <1>2, <1>3, <1>6, SMT

\* A 16-bit word is read as it was written.
LEMMA BigEndianRoundTrip ==
    ASSUME NEW n \in Nat, n <= 65535
    PROVE  FromBigEndian(BigEndian(n)) = n
BY SMT DEF FromBigEndian, BigEndian

\* The multicast group of an sACN universe leads back to that universe.
THEOREM MulticastRoundTrip ==
    ASSUME NEW address \in SacnUniverses
    PROVE  FromSacnMulticast(ToSacnMulticast(address)) = address
<1> DEFINE ip == ToSacnMulticast(address)
<1>1. address \in Nat /\ address <= 65535  BY SMT DEF SacnUniverses
<1>2. ip[1] = 239 /\ ip[2] = 255 /\ <<ip[3], ip[4]>> = BigEndian(address)
  BY DEF ToSacnMulticast, BigEndian
<1>3. FromBigEndian(<<ip[3], ip[4]>>) = address  BY <1>1, <1>2, BigEndianRoundTrip
<1> QED  BY <1>2, <1>3 DEF FromSacnMulticast

\* No header at all passes the test of the length: 0x1000 selects one bit, and
\* neither of its values less the size of the DMP layer is a universe's length.
THEOREM SacnRefusesAll ==
    ASSUME NEW size \in Nat, NEW header,
           FromBigEndian(header.dmp_flags_length) \in Int
    PROVE  ~ SacnAccepts(size, header)
<1> DEFINE w == FromBigEndian(header.dmp_flags_length)
<1>1. Bit12(w) \in {0, 4096}
  <2>1. (w \div 4096) % 2 \in {0, 1}  BY SMT
  <2> QED  BY <2>1, SMT DEF Bit12
<1>2. (0 + 65536 - 11) % 65536 = 65525 /\ (4096 + 65536 - 11) % 65536 = 4085  BY SMT
<1>3. SacnLength(header) \in {65525, 4085}  BY <1>1, <1>2 DEF SacnLength, DmpLayerSize
<1> QED  BY <1>3, SMT DEF SacnAccepts

------------------------------------------------------------------------------
(* Receiving.  Whatever was received before, what deserialize makes of the *)
(* buffer is what it would make of the last datagram alone.                *)

Parsed ==
    \/ latest = Refused /\ received = Refused
    \/ Datagram(latest) /\ received = Deserialize(latest.size, latest)

\* The invariant: besides, all that is on the way are datagrams, and what was
\* sent are universes.
LinkInv ==
    /\ \A d \in inflight : Datagram(d)
    /\ sent \subseteq Universes \X Sequences \X Frames
    /\ buffer.payload \in Seq(Nat)
    /\ Parsed

\* The bytes of the new datagram hide those of the old.
LEMMA OverwriteFirst ==
    ASSUME NEW old \in Seq(Nat), NEW new \in Seq(Nat)
    PROVE  /\ Overwrite(old, new) \in Seq(Nat)
           /\ Len(Overwrite(old, new)) >= Len(new)
           /\ \A i \in 1 .. Len(new) : Overwrite(old, new)[i] = new[i]
<1> DEFINE n == IF Len(new) > Len(old) THEN Len(new) ELSE Len(old)
           o == Overwrite(old, new)
<1>1. n \in Nat /\ n >= Len(new) /\ n >= Len(old)
      /\ (n = Len(new) \/ n = Len(old))
  OBVIOUS
<1>2. o = [i \in 1 .. n |-> IF i <= Len(new) THEN new[i] ELSE old[i]]  BY DEF Overwrite
<1> HIDE DEF n, o
<1>3. \A i \in 1 .. n : (IF i <= Len(new) THEN new[i] ELSE old[i]) \in Nat
  <2> TAKE i \in 1 .. n
  <2>1. CASE i <= Len(new)  BY <2>1
  <2>2. CASE ~ (i <= Len(new))  BY <2>2, <1>1
  <2> QED  BY <2>1, <2>2
<1>4. o \in [1 .. n -> Nat]  BY <1>2, <1>3
<1>5. o \in Seq(Nat) /\ Len(o) = n  BY <1>1, <1>4
<1> QED  BY <1>1, <1>2, <1>5 DEF o

\* What serialize makes of a packet, as it leaves the program.
LEMMA SentIsDatagram ==
    ASSUME NEW address, NEW sequence, NEW data \in Frames
    PROVE  LET d == Serialize(Packet(address, sequence, data), HeaderSize,
                              HeaderSize + UniverseLength)
           IN /\ d = [size |-> HeaderSize + UniverseLength,
                      header |-> Packet(address, sequence, data).header,
                      payload |-> data]
              /\ Datagram(d)
<1>1. Packet(address, sequence, data).channels = data
  BY DEF Packet, ArtDmx, SacnDmx
<1>2. data \in Seq(Nat) /\ Len(data) = UniverseLength  BY LinkAssumption
<1>3. HeaderSize \in Nat  BY DEF HeaderSize, ArtDmxHeaderSize, SacnHeaderSize
<1>4. UniverseLength \in Nat  BY UniverseLengthAssumption
<1> QED  BY <1>1, <1>2, <1>3, <1>4 DEF Serialize, Datagram

LEMMA SyncIsDatagram == Datagram(SyncDatagram)
BY LinkAssumption DEF Datagram, SyncDatagram, HeaderSize, ArtDmxHeaderSize, SacnHeaderSize,
   ArtSyncSize, SacnSyncSize

\* An accepted length is a number of bytes that were received.
LEMMA AcceptedLength ==
    ASSUME NEW size \in Nat, NEW header, Accepts(size, header)
    PROVE  /\ CopiedLength(header) \in Nat
           /\ size >= HeaderSize + CopiedLength(header)
<1>1. CASE Protocol = "artnet"
  BY <1>1, SMT DEF Accepts, CopiedLength, HeaderSize, ArtDmxAccepts, ArtDmxLength
<1>2. CASE Protocol # "artnet"
  <2>1. SacnAccepts(size, header) /\ CopiedLength(header) = SacnLength(header)
        /\ HeaderSize = SacnHeaderSize
    BY <1>2 DEF Accepts, CopiedLength, HeaderSize
  <2> QED  BY <2>1, SMT DEF SacnAccepts
<1> QED  BY <1>1, <1>2

\* deserialize finds in the buffer what it would find in the datagram.
LEMMA BufferHidesPast ==
    ASSUME NEW old \in Seq(Nat), NEW d, Datagram(d)
    PROVE  Deserialize(d.size, [header |-> IF d.size >= HeaderSize THEN d.header ELSE Refused,
                                payload |-> Overwrite(old, d.payload)])
             = Deserialize(d.size, d)
<1> DEFINE o == Overwrite(old, d.payload)
           b == [header |-> IF d.size >= HeaderSize THEN d.header ELSE Refused, payload |-> o]
<1>1. d.size \in Nat /\ d.payload \in Seq(Nat)  BY DEF Datagram
<1>2. /\ o \in Seq(Nat) /\ Len(o) >= Len(d.payload)
      /\ \A i \in 1 .. Len(d.payload) : o[i] = d.payload[i]
  BY <1>1, OverwriteFirst
<1>3. CASE ~ (d.size >= HeaderSize /\ Accepts(d.size, d.header))
  <2>1. ~ (d.size >= HeaderSize /\ Accepts(d.size, b.header))  BY <1>3
  <2> QED  BY <1>3, <2>1 DEF Deserialize
<1>4. CASE d.size >= HeaderSize /\ Accepts(d.size, d.header)
  <2> DEFINE n == CopiedLength(d.header)
  <2>1. b.header = d.header /\ b.payload = o  BY <1>4
  <2>2. HeaderSize \in Nat  BY DEF HeaderSize, ArtDmxHeaderSize, SacnHeaderSize
  <2>3. n \in Nat /\ d.size >= HeaderSize + n  BY <1>1, <1>4, AcceptedLength
  <2>4. d.size = HeaderSize + Len(d.payload)  BY <1>4 DEF Datagram
  <2>5. n <= Len(d.payload)
    <3> HIDE DEF n
    <3> QED  BY <1>1, <2>2, <2>3, <2>4, SMT
  <2>6. Len(d.payload) \in Nat /\ Len(o) \in Nat  BY <1>1, <1>2
  <2>7. \A i \in 1 .. n : /\ i <= Len(d.payload) /\ i <= Len(o)
                          /\ o[i] = d.payload[i]
    <3> HIDE DEF n, o
    <3> QED  BY <1>2, <2>3, <2>5, <2>6, SMT
  <2>8. [i \in 1 .. n |-> IF i <= Len(o) THEN o[i] ELSE 0]
          = [i \in 1 .. n |-> IF i <= Len(d.payload) THEN d.payload[i] ELSE 0]
    <3> HIDE DEF n, o
    <3> QED  BY <2>7
  <2> QED  BY <1>4, <2>1, <2>8 DEF Deserialize
<1> QED  BY <1>3, <1>4

LEMMA LinkInit == Init => LinkInv
BY DEF Init, LinkInv, Parsed

LEMMA LinkStep == LinkInv /\ [Next]_vars => LinkInv'
<1> SUFFICES ASSUME LinkInv, [Next]_vars PROVE LinkInv'
  OBVIOUS
<1>1. CASE Send
  <2> PICK address \in Universes, sequence \in Sequences, data \in Frames :
         /\ sent' = sent \cup {<<address, sequence, data>>}
         /\ inflight' = inflight \cup
               {Serialize(Packet(address, sequence, data), HeaderSize,
                          HeaderSize + UniverseLength)}
         /\ UNCHANGED <<buffer, latest, received, listening>>
    BY <1>1 DEF Send
  <2>1. \A d \in inflight' : Datagram(d)  BY SentIsDatagram DEF LinkInv
  <2>2. sent' \subseteq Universes \X Sequences \X Frames  BY DEF LinkInv
  <2> QED  BY <2>1, <2>2 DEF LinkInv, Parsed
<1>2. CASE Intrude
  <2>1. \A d \in inflight' : Datagram(d)
    BY <1>2, LinkAssumption, SyncIsDatagram DEF Intrude, LinkInv
  <2> QED  BY <1>2, <2>1 DEF Intrude, LinkInv, Parsed
<1>3. CASE Lose
  BY <1>3 DEF Lose, LinkInv, Parsed
<1>4. CASE Receive
  <2> PICK d \in inflight :
         /\ buffer' = [header |-> IF d.size >= HeaderSize THEN d.header ELSE Refused,
                       payload |-> Overwrite(buffer.payload, d.payload)]
         /\ latest' = d
         /\ received' = Deserialize(d.size, buffer')
         /\ UNCHANGED <<inflight, sent, listening>>
    BY <1>4 DEF Receive
  <2>1. Datagram(d) /\ buffer.payload \in Seq(Nat)  BY DEF LinkInv
  <2>2. received' = Deserialize(d.size, d)  BY <2>1, BufferHidesPast
  <2>3. buffer'.payload \in Seq(Nat)
    <3>1. d.payload \in Seq(Nat)  BY <2>1 DEF Datagram
    <3> QED  BY <2>1, <3>1, OverwriteFirst
  <2> QED  BY <2>1, <2>2, <2>3 DEF LinkInv, Parsed
<1>5. CASE ReceiveFails \/ UNCHANGED vars
  BY <1>5 DEF ReceiveFails, vars, LinkInv, Parsed
<1> QED  BY <1>1, <1>2, <1>3, <1>4, <1>5 DEF Next

LEMMA LinkAlways == Spec => []LinkInv
BY LinkInit, LinkStep, PTL DEF Spec

\* A refusal is neither a packet nor a datagram.
LEMMA RefusedIsNothing ==
    /\ \A h, c : [header |-> h, channels |-> c] # Refused
    /\ \A n, h, p : [size |-> n, header |-> h, payload |-> p] # Refused
<1>1. DOMAIN Refused = {"refused"}  BY DEF Refused
<1>2. \A h, c : DOMAIN [header |-> h, channels |-> c] = {"header", "channels"}  OBVIOUS
<1>3. \A n, h, p : DOMAIN [size |-> n, header |-> h, payload |-> p] = {"size", "header", "payload"}
  OBVIOUS
<1>4. "refused" # "header" /\ "refused" # "size"  OBVIOUS
<1> QED  BY <1>1, <1>2, <1>3, <1>4

\* What deserialize returns of a datagram that it takes.
LEMMA TakenChannels ==
    ASSUME NEW d, Datagram(d), Deserialize(d.size, d) # Refused
    PROVE  /\ CopiedLength(d.header) \in Nat
           /\ CopiedLength(d.header) <= Len(d.payload)
           /\ Deserialize(d.size, d)
                = [header |-> d.header,
                   channels |-> [i \in 1 .. CopiedLength(d.header) |-> d.payload[i]]]
<1> DEFINE n == CopiedLength(d.header)
<1>1. d.size >= HeaderSize /\ Accepts(d.size, d.header)  BY DEF Deserialize
<1>2. d.size \in Nat /\ d.payload \in Seq(Nat) /\ d.size = HeaderSize + Len(d.payload)
  BY <1>1 DEF Datagram
<1>3. n \in Nat /\ d.size >= HeaderSize + n  BY <1>1, <1>2, AcceptedLength
<1>4. HeaderSize \in Nat  BY DEF HeaderSize, ArtDmxHeaderSize, SacnHeaderSize
<1>5. n <= Len(d.payload)
  <2> HIDE DEF n
  <2> QED  BY <1>2, <1>3, <1>4, SMT
<1>6. \A i \in 1 .. n : i <= Len(d.payload)
  <2> HIDE DEF n
  <2> QED  BY <1>2, <1>3, <1>5, SMT
<1>7. [i \in 1 .. n |-> IF i <= Len(d.payload) THEN d.payload[i] ELSE 0]
        = [i \in 1 .. n |-> d.payload[i]]
  <2> HIDE DEF n
  <2> QED  BY <1>6
<1> QED  BY <1>1, <1>3, <1>5, <1>7 DEF Deserialize

\* However often the one buffer is reused, channels come from the datagram that
\* was received last, for both protocols and any datagrams of others.
THEOREM NeverStale == Spec => []NoStaleChannels
<1>1. LinkInv => NoStaleChannels
  <2> SUFFICES ASSUME LinkInv, received # Refused
               PROVE  /\ Len(received.channels) <= Len(latest.payload)
                      /\ \A i \in 1 .. Len(received.channels) :
                            received.channels[i] = latest.payload[i]
    BY DEF NoStaleChannels
  <2> DEFINE n == CopiedLength(latest.header)
  <2>1. Datagram(latest) /\ received = Deserialize(latest.size, latest)
    BY DEF LinkInv, Parsed
  <2>2. /\ n \in Nat /\ n <= Len(latest.payload)
        /\ received = [header |-> latest.header, channels |-> [i \in 1 .. n |-> latest.payload[i]]]
    BY <2>1, TakenChannels
  <2> HIDE DEF n
  <2>3. received.channels = [i \in 1 .. n |-> latest.payload[i]]  BY <2>2
  <2>4. Len([i \in 1 .. n |-> latest.payload[i]]) = n  BY <2>2
  <2> QED  BY <2>2, <2>3, <2>4
<1> QED  BY <1>1, LinkAlways, PTL

\* The constructor splits an address where the text format does.
LEMMA HeaderSplit ==
    ASSUME NEW address \in ArtNetUniverses, NEW sequence, NEW data
    PROVE  HeaderAddress(ArtDmx(address, sequence, data).header) = address
<1>1. (address % 256) \div 16 = (address \div 16) % 16 /\ (address % 256) % 16 = address % 16
  <2> DEFINE d == address \div 16
  <2>1. address \in Nat /\ address <= 32767  BY SMT DEF ArtNetUniverses
  <2>2. address = 16 * d + (address % 16) /\ d \in Nat /\ address % 16 \in 0 .. 15  BY <2>1, SMT
  <2>3. d = 16 * (d \div 16) + (d % 16) /\ d \div 16 \in Nat /\ d % 16 \in 0 .. 15  BY <2>2, SMT
  <2>4. address % 256 = 16 * (d % 16) + (address % 16)
    <3>1. address = 256 * (d \div 16) + (16 * (d % 16) + (address % 16))
      <4> HIDE DEF d
      <4> QED  BY <2>1, <2>2, <2>3, SMT
    <3>2. 16 * (d % 16) + (address % 16) \in 0 .. 255
      <4> HIDE DEF d
      <4> QED  BY <2>2, <2>3, SMT
    <3> DEFINE r == 16 * (d % 16) + (address % 16)
               q == d \div 16
    <3>3. q \in Nat /\ r \in 0 .. 255 /\ address = 256 * q + r  BY <2>3, <3>1, <3>2
    <3> HIDE DEF q, r, d
    <3>4. address % 256 = r  BY <3>3, SMT
    <3> QED  BY <3>4 DEF r
  <2> DEFINE e == d % 16
             u == address % 16
  <2>5. e \in 0 .. 15 /\ u \in 0 .. 15 /\ address % 256 = 16 * e + u  BY <2>2, <2>3, <2>4
  <2> HIDE DEF e, u, d
  <2>6. (16 * e + u) \div 16 = e /\ (16 * e + u) % 16 = u  BY <2>5, SMT
  <2> QED  BY <2>5, <2>6 DEF d, e, u
<1>2. HeaderAddress(ArtDmx(address, sequence, data).header)
        = FromArtNetFormat(ToArtNetFormat(address))
  BY <1>1 DEF HeaderAddress, ArtDmx, ToArtNetFormat
<1> QED  BY <1>2, ArtNetRoundTrip

\* What deserialize makes of an ArtDMX packet of ours.
LEMMA OwnParsed ==
    ASSUME Protocol = "artnet", NEW address, NEW sequence, NEW data \in Frames,
           NEW d, d = Serialize(Packet(address, sequence, data), HeaderSize,
                                HeaderSize + UniverseLength)
    PROVE  /\ Deserialize(d.size, d) # Refused
           /\ d.header = ArtDmx(address, sequence, data).header
           /\ d.payload = data
           /\ CopiedLength(d.header) = UniverseLength
<1>1. /\ d = [size |-> HeaderSize + UniverseLength,
              header |-> Packet(address, sequence, data).header, payload |-> data]
  BY SentIsDatagram
<1>2. /\ d.size = 18 + UniverseLength /\ HeaderSize = 18
      /\ d.header = ArtDmx(address, sequence, data).header /\ d.payload = data
  BY <1>1 DEF HeaderSize, ArtDmxHeaderSize, Packet
<1>3. /\ d.header.id = ArtNetId /\ d.header.version = 14
      /\ d.header.length = UniverseLength
  BY <1>2 DEF ArtDmx
<1>4. UniverseLength \in Nat /\ UniverseLength >= 2 /\ UniverseLength <= 512
  BY UniverseLengthAssumption
<1>5. d.size >= HeaderSize /\ Accepts(d.size, d.header)
  BY <1>2, <1>3, <1>4, SMT DEF Accepts, ArtDmxAccepts, ArtDmxHeaderSize
<1>6. Deserialize(d.size, d) # Refused  BY <1>5, RefusedIsNothing DEF Deserialize
<1> QED  BY <1>2, <1>3, <1>6 DEF CopiedLength, ArtDmxLength

\* A packet of ours was built for some universe that was sent.
LEMMA OwnIsSent ==
    ASSUME LinkInv, NEW d \in Own
    PROVE  \E address \in Universes, sequence \in Sequences, data \in Frames :
              /\ <<address, sequence, data>> \in sent
              /\ d = Serialize(Packet(address, sequence, data), HeaderSize,
                               HeaderSize + UniverseLength)
              /\ d # Refused
<1>1. PICK s \in sent : d = Serialize(Packet(s[1], s[2], s[3]), HeaderSize,
                                      HeaderSize + UniverseLength)
  BY DEF Own
<1>2. s \in Universes \X Sequences \X Frames  BY DEF LinkInv
<1>3. PICK address \in Universes, sequence \in Sequences, data \in Frames :
         s = <<address, sequence, data>>
  BY <1>2
<1>4. d = Serialize(Packet(address, sequence, data), HeaderSize, HeaderSize + UniverseLength)
  BY <1>1, <1>3
<1>5. d = [size |-> HeaderSize + UniverseLength,
           header |-> Packet(address, sequence, data).header, payload |-> data]
  BY <1>4, SentIsDatagram
<1>6. d # Refused  BY <1>5, RefusedIsNothing
<1> QED  BY <1>3, <1>4, <1>6

\* An ArtDMX packet of ours arrives with the address, the sequence number and
\* the channels that were sent, for every universe, sequence and frame.
THEOREM ArrivesAsSent ==
    ASSUME Universes \subseteq ArtNetUniverses
    PROVE  Spec => []ReceivedWasSent
<1>1. LinkInv => ReceivedWasSent
  <2> SUFFICES ASSUME LinkInv, Protocol = "artnet", received # Refused, latest \in Own
               PROVE  <<HeaderAddress(received.header), received.header.sequence,
                        received.channels>> \in sent
    BY DEF ReceivedWasSent
  <2>1. PICK address \in Universes, sequence \in Sequences, data \in Frames :
          /\ <<address, sequence, data>> \in sent
          /\ latest = Serialize(Packet(address, sequence, data), HeaderSize,
                                HeaderSize + UniverseLength)
    BY OwnIsSent
  <2>2. Datagram(latest) /\ received = Deserialize(latest.size, latest)
    BY DEF LinkInv, Parsed
  <2>3. /\ latest.header = ArtDmx(address, sequence, data).header /\ latest.payload = data
        /\ CopiedLength(latest.header) = UniverseLength
    BY <2>1, OwnParsed
  <2>4. received = [header |-> latest.header,
                    channels |-> [i \in 1 .. UniverseLength |-> data[i]]]
    BY <2>2, <2>3, TakenChannels
  <2>5. data \in Seq(Nat) /\ Len(data) = UniverseLength  BY LinkAssumption
  <2>6. [i \in 1 .. UniverseLength |-> data[i]] = data  BY <2>5
  <2>7. received.header = ArtDmx(address, sequence, data).header /\ received.channels = data
    BY <2>3, <2>4, <2>6
  <2>8. HeaderAddress(received.header) = address  BY <2>7, HeaderSplit
  <2>9. received.header.sequence = sequence  BY <2>7 DEF ArtDmx
  <2> QED  BY <2>1, <2>7, <2>8, <2>9
<1> QED  BY <1>1, LinkAlways, PTL

\* With Art-Net, every DMX packet of ours is taken and no sync packet is; with
\* sACN, SacnRefusesAll says that none is.
THEOREM ArtNetTaken ==
    ASSUME Protocol = "artnet"
    PROVE  Spec => []OwnPacketsTaken
<1>1. LinkInv => (latest \in Own => received # Refused)
  <2> SUFFICES ASSUME LinkInv, latest \in Own PROVE received # Refused
    OBVIOUS
  <2>1. PICK address \in Universes, sequence \in Sequences, data \in Frames :
          /\ <<address, sequence, data>> \in sent
          /\ latest = Serialize(Packet(address, sequence, data), HeaderSize,
                                HeaderSize + UniverseLength)
          /\ latest # Refused
    BY OwnIsSent
  <2>2. received = Deserialize(latest.size, latest)  BY <2>1 DEF LinkInv, Parsed
  <2> QED  BY <2>1, <2>2, OwnParsed
<1>2. LinkInv => (latest = SyncDatagram => received = Refused)
  <2> SUFFICES ASSUME LinkInv, latest = SyncDatagram PROVE received = Refused
    OBVIOUS
  <2>1. latest.size = 14 /\ HeaderSize = 18
    BY DEF SyncDatagram, ArtSyncSize, HeaderSize, ArtDmxHeaderSize
  <2>2. ~ (latest.size >= HeaderSize)  BY <2>1, SMT
  <2> QED  BY <2>2 DEF LinkInv, Parsed, Deserialize
<1> QED  BY <1>1, <1>2, LinkAlways, PTL DEF OwnPacketsTaken
==================================================================================
