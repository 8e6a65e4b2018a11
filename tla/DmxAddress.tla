------------------------------- MODULE DmxAddress -------------------------------
(***************************************************************************)
(* The forms in which a universe address is written: lx_dmx.c and the      *)
(* big-endian words of endian_ints.hpp.  A text is the sequence of the     *)
(* numbers in it, an IP address the sequence of its four bytes.            *)
(***************************************************************************)
EXTENDS Integers, Sequences

\* The ranges of lx_dmx.h.
ArtNetUniverses == 0 .. 32767
SacnUniverses == 1 .. 63999

Refused == [refused |-> TRUE]

\* uint16_t_be
BigEndian(n) == <<(n \div 256) % 256, n % 256>>
FromBigEndian(bytes) == bytes[1] * 256 + bytes[2]

\* lx_dmx_universe_to_artnet_format
ToArtNetFormat(address) == <<(address \div 256) % 128, (address \div 16) % 16, address % 16>>

\* lx_dmx_universe_from_artnet_format: all three groups of the expression must
\* match, so that a text of one or two numbers is refused before the switch
\* that would take it; the numbers may be of any size.
FromArtNetFormat(text) ==
    IF Len(text) = 3 THEN text[1] * 256 + text[2] * 16 + text[3] ELSE Refused

\* lx_dmx_universe_to_sacn_multicast_ip
ToSacnMulticast(address) == <<239, 255, (address \div 256) % 256, address % 256>>

\* lx_dmx_universe_from_sacn_multicast_ip
FromSacnMulticast(ip) ==
    LET value == FromBigEndian(<<ip[3], ip[4]>>)
    IN IF ip[1] = 239 /\ ip[2] = 255 /\ value \in SacnUniverses THEN value ELSE Refused
=================================================================================
