---------------------------- MODULE BasicProtocol ----------------------------
(***************************************************************************)
(* basicProtocol.h: bytes are collected in a ring until a whole frame can  *)
(* be there, and the payload of a frame goes to the callback of its port.  *)
(***************************************************************************)
EXTENDS PacketFormat, RingBuffer

CONSTANT MAX_PORTS      \* 10
ASSUME ProtocolAssumption ==
  MAX_PORTS \in Nat \ {0} /\ RingSize = 2 * MAX_PACKET_LEN

VARIABLE rxRB           \* m_rxRB

ProtocolInit == rxRB = EmptyRing

\* m_callbackList: an entry is free while it has the broadcast port.
NoCallback == "none"
EmptyList ==
  [i \in 1..MAX_PORTS |-> [toPort |-> BROADCAST_PORT, callback |-> NoCallback]]

\* post: the first free entry is taken; a full list ignores the call.
Post(list, port, callback) ==
  LET free == SelectInSeq(list, LAMBDA entry : entry.toPort = BROADCAST_PORT)
  IN  IF free = 0 THEN list
      ELSE [list EXCEPT ![free] = [toPort |-> port, callback |-> callback]]

\* The callback a frame for this port is given to.
CallbackOf(list, port) ==
  LET entry == SelectInSeq(list, LAMBDA e : e.toPort = port /\ e.callback # NoCallback)
  IN  IF entry = 0 THEN NoCallback ELSE list[entry].callback

\* One turn of the loop in onRecv: the byte is pushed, and if that makes a
\* frame's worth of bytes postPacket takes some or all of them.
Pushed(byte) == Push(rxRB, byte)
Filled(byte) == Pushed(byte).size = MAX_PACKET_LEN

\* Mutant: postPacket is called when there is more than a frame.
ReceiveByte_Late(byte) ==
  rxRB' = IF Pushed(byte).size > MAX_PACKET_LEN
          THEN Pops(Pushed(byte), Consumed(Contents(Pushed(byte)))) ELSE Pushed(byte)

ReceiveByte(byte) ==
  rxRB' = IF Filled(byte)
          THEN Pops(Pushed(byte), Consumed(Contents(Pushed(byte)))) ELSE Pushed(byte)

\* The same turn calls this callback with this payload, from this port.
Calls(byte, list) ==
  IF Filled(byte) /\ Complete(Contents(Pushed(byte)))
  THEN CallbackOf(list, Contents(Pushed(byte))[3]) ELSE NoCallback
FromPort(byte) == Contents(Pushed(byte))[2]
Payload(byte) == PayloadOf(Contents(Pushed(byte)))

-----------------------------------------------------------------------------
(* Between two bytes there is never a whole frame in the ring, so a byte is *)
(* never refused, and head, tail and size agree.  basicProtocol.h:313-317.  *)
RingInv == RingOK(rxRB) /\ rxRB.size < MAX_PACKET_LEN
=============================================================================
