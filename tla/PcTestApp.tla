------------------------------ MODULE PcTestApp ------------------------------
(***************************************************************************)
(* pcTestApp.cpp: the UDP server hands what it receives to the packet      *)
(* layer, the packet layer hands the payloads for port 1 to the read/write *)
(* server, and the replies go back through the UDP server's queue.         *)
(*                                                                         *)
(* The client and the way to the server are not part of the repository: a  *)
(* client frames its requests as send_packet does and sends each frame as  *)
(* one datagram or in pieces; a datagram may be lost and a stray byte may  *)
(* come in between, MaxFaults times in all.                                *)
(*                                                                         *)
(* As it is built, with PC_DEBUG, the program reads each address as itself *)
(* and only prints what it is to write; without, it serves its memory.     *)
(***************************************************************************)
EXTENDS BasicProtocol, ReadWriteProtocol, UdpServer

CONSTANTS
  Request,       \* what the client may ask for: [op, size, address, values]
  ClientPort,
  Piece,         \* lengths of a datagram, unless the frame ends first
  Stray,         \* the bytes that may come in between
  MaxRequests, MaxInbox, MaxFaults      \* bounds

ASSUME ClientAssumption ==
  /\ ClientPort \in Octet /\ ClientPort < PORT_MAX
  /\ Piece \subseteq Nat \ {0} /\ Stray \subseteq Octet
  /\ MaxRequests \in Nat /\ MaxInbox \in Nat /\ MaxFaults \in Nat
  /\ MaxRequests < ESC_PACKET                \* no number needs an escape,
  /\ MAX_READWRITE_SIZE < ESC_PACKET         \* nor a length, 8 in the code
  /\ 2 * OperationLength <= PayloadMax       \* 40 bytes and 121 in the code
  /\ buffer_size \in Nat /\ MAX_PACKET_LEN <= buffer_size    \* 128 bytes and 512
  /\ Address \subseteq Octet
  /\ \A r \in Request :
       /\ r \in [op : {ContiguousRead, ContiguousWrite}, size : Octet, address : Octet,
                 values : [1..MAX_READWRITE_SIZE -> Octet]]
       /\ r.size <= MAX_READWRITE_SIZE
       /\ r.address..r.address + r.size - 1 \subseteq Address

VARIABLES
  unsent,        \* what is left to send of the client's frame
  sent,          \* history: the requests framed
  executed,      \* history: the operations carried out
  faults         \* history: datagrams lost and stray bytes

clientVars == <<unsent, sent, faults>>
vars == <<rxRB, memory, udpVars, clientVars, executed>>

Init ==
  /\ ProtocolInit /\ MemoryInit /\ UdpInit
  /\ unsent = <<>> /\ sent = <<>> /\ executed = <<>> /\ faults = 0

-----------------------------------------------------------------------------
\* The client and the network.  What they do in the middle of a handler could
\* as well be done before or after it, since the handler does not look at the
\* socket; so their steps are taken between handlers.

ClientAsks(r) ==
  LET o == [op |-> r.op, size |-> r.size, majic |-> Len(sent) + 1,
            address |-> r.address, values |-> r.values]
  IN  /\ Idle /\ unsent = <<>> /\ Len(sent) < MaxRequests
      /\ sent' = Append(sent, o)
      /\ unsent' = Packet(READ_WRITE_PROTOCOL_PORT, ClientPort, PayloadBytes(o))
      /\ UNCHANGED <<rxRB, memory, udpVars, faults, executed>>

Arrives(datagram) ==
  Len(inbox) < MaxInbox /\ inbox' = Append(inbox, datagram) /\ UNCHANGED faults
IsLost == faults < MaxFaults /\ faults' = faults + 1 /\ UNCHANGED inbox

ClientSends(length) ==
  LET n == IF length < Len(unsent) THEN length ELSE Len(unsent)
  IN  /\ Idle /\ unsent # <<>>
      /\ unsent' = SubSeq(unsent, n + 1, Len(unsent))
      /\ Arrives(SubSeq(unsent, 1, n)) \/ IsLost
      /\ UNCHANGED <<rxRB, memory, txVars, rxBuffer, rxArmed, outbox, posted, open,
                     stopped, rxFailed, sent, executed>>

StrayByte(byte) ==
  /\ Idle /\ faults < MaxFaults /\ Len(inbox) < MaxInbox
  /\ faults' = faults + 1
  /\ inbox' = Append(inbox, <<byte>>)
  /\ UNCHANGED <<rxRB, memory, txVars, rxBuffer, rxArmed, outbox, posted, open,
                 stopped, rxFailed, unsent, sent, executed>>

-----------------------------------------------------------------------------
\* The program.

\* What the static constructors and main register.
ReadWriteServer == "postFromBasicProtocol"
CallbackList == Post(EmptyList, READ_WRITE_PROTOCOL_PORT, ReadWriteServer)

\* The read/write server is given a payload that came from this port.
Serve(o, fromPort) ==
  /\ Execute(o)
  /\ executed' = Append(executed, o)
  /\ LET reply == PayloadBytes(Reply(o))
     IN  IF Replies(o) /\ Sendable(fromPort, READ_WRITE_PROTOCOL_PORT, reply)
         THEN PostTX(Packet(fromPort, READ_WRITE_PROTOCOL_PORT, reply))
         ELSE UNCHANGED txVars

\* One turn of the loop in onRecv, with all that it calls.
Handling == rxBuffer # <<>> /\ NextByte
OnRecv ==
  /\ Handling
  /\ LET byte == Head(rxBuffer)
     IN  /\ ReceiveByte(byte)
         /\ IF Calls(byte, CallbackList) = ReadWriteServer
            THEN Serve(Operation(Payload(byte)), FromPort(byte))
            ELSE UNCHANGED <<memory, txVars, executed>>
  /\ UNCHANGED <<inbox, outbox, posted, open, stopped, rxFailed, clientVars>>

\* SIGINT or SIGTERM.
Stop ==
  /\ Idle
  /\ stopped' = TRUE
  /\ UNCHANGED <<rxRB, memory, txVars, rxVars, outbox, posted, open, rxFailed,
                 clientVars, executed>>

SocketHandler ==
  /\ Receive \/ SendCompletes \/ RunPosted
  /\ UNCHANGED <<rxRB, memory, clientVars, executed>>

SocketError ==
  /\ ReceiveFails \/ SendFails
  /\ UNCHANGED <<rxRB, memory, clientVars, executed>>

Next ==
  \/ \E r \in Request : ClientAsks(r)
  \/ \E length \in Piece : ClientSends(length)
  \/ \E byte \in Stray : StrayByte(byte)
  \/ OnRecv
  \/ SocketHandler
  \/ SocketError
  \/ Stop

\* The thread runs what is ready, and each send is completed by the socket;
\* the client sends the whole of a frame.
Spec ==
  /\ Init /\ [][Next]_vars
  /\ WF_rxBuffer(Handling) /\ WF_vars(SocketHandler)
  /\ WF_vars(\E length \in Piece : ClientSends(length))

-----------------------------------------------------------------------------
(* The type invariant. *)
TypeOK ==
  /\ RingOK(rxRB)
  /\ memory \in [Address -> Octet]
  /\ rxBuffer \in Seq(Octet)
  /\ rxArmed \in BOOLEAN /\ isTxRunning \in BOOLEAN /\ sending \in BOOLEAN
  /\ posted \in Nat /\ open \in BOOLEAN /\ stopped \in BOOLEAN
  /\ Len(sent) <= MaxRequests /\ Len(inbox) <= MaxInbox
  /\ faults \in 0..MaxFaults

(* The ring behaves as a window on the bytes received: a byte goes in at    *)
(* one end, and what a full window loses at the other is what postPacket    *)
(* has taken, wherever the ring wraps.  ringBuffer.h:93-123.                *)
WindowSlides ==
  [][(rxBuffer # <<>> /\ rxBuffer' # rxBuffer) =>
       LET w == Append(Contents(rxRB), Head(rxBuffer))
       IN  Contents(rxRB') = IF Len(w) < MAX_PACKET_LEN THEN w
                             ELSE SubSeq(w, Consumed(w) + 1, Len(w))]_vars

(* The replies, those sent first. *)
Replied == outbox \o (IF isTxRunning THEN <<txBuffer>> ELSE <<>>) \o txQueue

(* A receiver that checks a frame as crc16.h:33-35 says, by computing the   *)
(* CRC over data and CRC, finds crc_ok in every frame sent.                 *)
crc_ok == 18191
FramesCarryTheirCrc ==
  isTxRunning => Crc(SubSeq(txBuffer, 1, MAX_PACKET_LEN - 1)) = crc_ok

\* What the framing makes of a byte on its way: an escaped one arrives as the
\* escape byte transformed.
Blurred(byte) ==
  IF byte \in {PACKET_SOP, PACKET_EOP, ESC_PACKET} THEN xor_byte(ESC_PACKET) ELSE byte
Arrived(o) ==
  [op |-> Blurred(o.op), size |-> Blurred(o.size), majic |-> Blurred(o.majic),
   address |-> Blurred(o.address), values |-> [i \in DOMAIN o.values |-> Blurred(o.values[i])]]

\* An operation, and an answer, as the other side sees it.
AbstractRequest(o) ==
  [op |-> IF o.op = ContiguousRead THEN "read"
          ELSE IF o.op = ContiguousWrite /\ ~PcDebug THEN "write" ELSE "none",
   size |-> o.size, address |-> o.address,
   values |-> [i \in DOMAIN o.values |-> Blurred(o.values[i])]]
AbstractOperation(o) == [no |-> Blurred(o.majic), request |-> AbstractRequest(o)]
AbstractAnswer(frame) ==
  LET bytes == PayloadOf(frame)
  IN  [to |-> bytes[3], words |-> SubSeq(bytes, 5, 4 + bytes[2])]

Service == INSTANCE RemoteMemory WITH
  Cell     <- Address,
  Initial  <- [a \in Address |-> Blurred(IF PcDebug THEN a ELSE 0)],
  Request  <- {AbstractRequest(Arrived([op |-> r.op, size |-> r.size, majic |-> 0,
                 address |-> r.address, values |-> r.values])) : r \in Request},
  sent     <- [k \in DOMAIN sent |-> AbstractOperation(Arrived(sent[k]))],
  done     <- [k \in DOMAIN executed |-> AbstractOperation(executed[k])],
  cells    <- [a \in Address |-> Blurred(Value(a))],
  answers  <- [k \in DOMAIN Replied |-> AbstractAnswer(Replied[k])],
  answered <- Len(outbox)

(* The whole stack is a remote memory.  Up to the first fault the requests  *)
(* take effect in the order sent, none twice and none left out, however the *)
(* datagrams cut the frames.  At all times every read is answered, with its *)
(* own majic and the memory of that moment, and the transmit queue loses,   *)
(* repeats and reorders no answer.                                          *)
ImplementsRemoteMemory == Service!Spec

(* send_packet puts the CRC into the frame as it is, basicProtocol.h:214-215; *)
(* a byte of it may look like the beginning or the end of a frame.            *)
MarkInCrc ==
  \E k \in DOMAIN sent :
    LET frame == Packet(READ_WRITE_PROTOCOL_PORT, ClientPort, PayloadBytes(sent[k]))
    IN  \E i \in {MAX_PACKET_LEN - 2, MAX_PACKET_LEN - 1} :
          frame[i] \in {PACKET_SOP, PACKET_EOP}

(* One fault costs two requests at most, if no CRC holds such a byte: what  *)
(* is carried out are requests, as they arrive, in the order sent and none  *)
(* twice, and at most two were left out, whatever the fault has hit: a      *)
(* frame's beginning, middle or end.  basicProtocol.h:223-268,313-317.      *)
FaultCostsTwo ==
  \/ faults > 1
  \/ \A k \in DOMAIN executed :
       LET i == executed[k].majic
       IN  /\ i \in DOMAIN sent /\ executed[k] = Arrived(sent[i])
           /\ k <= i /\ i <= k + 2 * faults
           /\ k > 1 => executed[k - 1].majic < i
  \/ MarkInCrc

(* The server is lost once it is stopped or its socket has failed. *)
Deaf == stopped \/ ~open \/ rxFailed

(* After a fault the receiver finds the frames again, if no CRC holds such  *)
(* a byte: in the end all requests but two for each fault are carried out,  *)
(* the last ones too.  With one, it may never: see MarkInCrc.               *)
ServedInTheEnd ==
  <>[](Deaf \/ Len(executed) >= Len(sent) - 2 * faults \/ MarkInCrc)

(* Every reply leaves, whenever it is queued: while another is being sent,  *)
(* between its completion and the start_write that this posts, or after.    *)
AnsweredInTheEnd == <>[](stopped \/ ~open \/ Len(outbox) = Len(Replied))

(* What the framing is for, "Some what follows RFC1662 Framing" with an     *)
(* "ESC: 0x7D" (basicProtocol.h:33,36): whatever its bytes, a request       *)
(* arrives as it was sent.                                                  *)
RequestsArriveIntact == \A k \in DOMAIN executed : executed[k] \in ToSet(sent)
=============================================================================
