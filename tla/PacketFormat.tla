---------------------------- MODULE PacketFormat ----------------------------
(***************************************************************************)
(* The frames of basicProtocol.h: how send_packet builds one and what      *)
(* postPacket makes of the bytes at the head of its ring.                  *)
(***************************************************************************)
EXTENDS Integers, Sequences, SequencesExt, Crc16

CONSTANT PayloadMax     \* PAYLOAD_MAX_LENGTH, 121
ASSUME PayloadAssumption == PayloadMax \in Nat /\ PayloadMax > 0

PACKET_SOP == 126
PACKET_EOP == 127
ESC_PACKET == 125
BROADCAST_PORT == 255
PORT_MAX == ESC_PACKET - 1
MAX_PACKET_LEN == PayloadMax + 7

xor_byte(byte) == FlipBit(byte, 32)

isValidPort(port) == port < PORT_MAX \/ port = BROADCAST_PORT

\* What send_packet makes of the payload: the three bytes with a meaning
\* become two each, and zeros follow up to the CRC.
Escaped(payload) ==
  FlattenSeq([i \in DOMAIN payload |->
    IF payload[i] \in {PACKET_SOP, PACKET_EOP, ESC_PACKET}
    THEN <<ESC_PACKET, xor_byte(payload[i])>> ELSE <<payload[i]>>])

Padded(bytes) == bytes \o [i \in 1..PayloadMax - Len(bytes) |-> 0]

\* send_packet gives up on a port it does not know and on a payload that is
\* too long, before or after escaping.
Sendable(to, from, payload) ==
  /\ isValidPort(to) /\ isValidPort(from)
  /\ Len(payload) <= PayloadMax
  /\ Len(Escaped(payload)) <= PayloadMax

Packet(to, from, payload) ==
  LET body == <<PACKET_SOP, from, to, 0>> \o Padded(Escaped(payload))
      crc  == Crc(body)
  IN  body \o <<crc \div 256, crc % 256, PACKET_EOP>>

-----------------------------------------------------------------------------
\* From here on w is what MAX_PACKET_LEN pops would return.

\* Mutant: a window without a start byte at its head is thrown away whole.
Consumed_Whole(w) ==
  IF w[1] = PACKET_SOP /\ (~isValidPort(w[2]) \/ ~isValidPort(w[3])) THEN 3
  ELSE MAX_PACKET_LEN

\* How many of them postPacket takes before it returns.
Consumed(w) ==
  IF w[1] # PACKET_SOP THEN 1
  ELSE IF ~isValidPort(w[2]) \/ ~isValidPort(w[3]) THEN 3
  ELSE MAX_PACKET_LEN

\* Mutant: the last byte is not looked at.
Complete_AnyEnd(w) == Consumed(w) = MAX_PACKET_LEN

\* It posts the payload of a frame that ends with EOP; the CRC is read and
\* compared, but the comparison decides nothing.
Complete(w) == Consumed(w) = MAX_PACKET_LEN /\ w[MAX_PACKET_LEN] = PACKET_EOP

\* The loop that unescapes in place: an escape byte takes the next byte with
\* it and stands, transformed itself, in the output.  Whether the i-th byte is
\* taken, and which of the first i are not.
Taken(raw) ==
  LET taken[i \in 0..Len(raw)] ==
        i > 1 /\ raw[i - 1] = ESC_PACKET /\ ~taken[i - 1]
  IN  taken
Kept(raw) ==
  LET taken == Taken(raw)
      kept[i \in 0..Len(raw)] ==
        IF i = 0 THEN <<>>
        ELSE IF taken[i] THEN kept[i - 1] ELSE Append(kept[i - 1], i)
  IN  kept

Unescaped(raw) ==
  LET Byte(i, index) ==
        IF raw[i] # ESC_PACKET THEN raw[i]
        ELSE IF i < Len(raw) THEN xor_byte(raw[i]) ELSE raw[index]
      Output[kept \in Seq(DOMAIN raw)] ==
        [index \in DOMAIN raw |->
           IF index <= Len(kept) THEN Byte(kept[index], index) ELSE raw[index]]
  IN  Output[Kept(raw)[Len(raw)]]

PayloadOf(w) == Unescaped(SubSeq(w, 5, PayloadMax + 4))
=============================================================================
