----------------------------- MODULE UdpServer -----------------------------
(***************************************************************************)
(* udpServer.h on an io_context that one thread runs: handlers are run one *)
(* at a time.  The handler of a received datagram passes its bytes on one  *)
(* by one, so it lasts several steps; the other handlers are one step.     *)
(***************************************************************************)
EXTENDS Integers, Sequences

CONSTANT buffer_size     \* of m_rxBuffer and m_txBuffer, 512

VARIABLES
  inbox,          \* datagrams the socket has received, oldest first
  outbox,         \* datagrams the socket has sent
  rxBuffer,       \* what is left of the datagram being handled; <<>> if none
  rxArmed,        \* an async_receive_from is pending
  txQueue,        \* m_txQueue
  txBuffer,       \* m_txBuffer
  isTxRunning,    \* m_isTxRunning
  sending,        \* an async_send_to is pending
  posted,         \* start_write handlers waiting in the io_context
  open,           \* the socket is open
  stopped,        \* the io_context was stopped
  rxFailed        \* history: a receive has ended with an error

txVars == <<txQueue, txBuffer, isTxRunning, sending>>
rxVars == <<inbox, rxBuffer, rxArmed>>
udpVars == <<txVars, rxVars, outbox, posted, open, stopped, rxFailed>>

\* The state after open() has called start_read().
UdpInit ==
  /\ inbox = <<>> /\ outbox = <<>>
  /\ rxBuffer = <<>> /\ rxArmed = TRUE
  /\ txQueue = <<>> /\ txBuffer = <<>>
  /\ isTxRunning = FALSE /\ sending = FALSE
  /\ posted = 0
  /\ open = TRUE /\ stopped = FALSE /\ rxFailed = FALSE

\* The thread is between two handlers.
Idle == rxBuffer = <<>> /\ ~stopped

\* start_write and the keep_writing it calls, with this queue.
StartWrite(queue) ==
  IF ~isTxRunning /\ queue # <<>>
  THEN /\ isTxRunning' = TRUE
       /\ txBuffer' = Head(queue)
       /\ txQueue' = Tail(queue)
       /\ sending' = TRUE
  ELSE txQueue' = queue /\ UNCHANGED <<txBuffer, isTxRunning, sending>>

\* Mutant: the buffer is filled while it is being sent from.
PostTX_Overwrites(frame) ==
  /\ txBuffer' = frame /\ isTxRunning' = TRUE /\ sending' = TRUE
  /\ UNCHANGED txQueue

PostTX(frame) ==
  IF Len(frame) <= buffer_size THEN StartWrite(Append(txQueue, frame))
  ELSE UNCHANGED txVars

\* A datagram arrives in m_rxBuffer and its handler begins.  Not an empty one:
\* onRecv's loop counts down before it looks, and would wrap.
Receive ==
  /\ Idle /\ rxArmed /\ inbox # <<>> /\ Head(inbox) # <<>>
  /\ rxBuffer' = Head(inbox)
  /\ inbox' = Tail(inbox)
  /\ rxArmed' = FALSE
  /\ UNCHANGED <<txVars, outbox, posted, open, stopped, rxFailed>>

\* The handler goes on to the next byte; after the last one it calls start_read.
NextByte ==
  /\ rxBuffer' = Tail(rxBuffer)
  /\ rxArmed' = (Tail(rxBuffer) = <<>>)

\* An error in async_receive_from: no other receive is started.
ReceiveFails ==
  /\ Idle /\ rxArmed
  /\ rxArmed' = FALSE /\ rxFailed' = TRUE
  /\ UNCHANGED <<txVars, inbox, rxBuffer, outbox, posted, open, stopped>>

\* Mutants: the flag is not reset; the next start_write is forgotten.
SendCompletes_StaysRunning ==
  /\ Idle /\ sending
  /\ sending' = FALSE
  /\ outbox' = Append(outbox, txBuffer)
  /\ posted' = posted + 1
  /\ UNCHANGED <<txQueue, txBuffer, isTxRunning, rxVars, open, stopped, rxFailed>>
SendCompletes_NoPost ==
  /\ Idle /\ sending
  /\ sending' = FALSE /\ isTxRunning' = FALSE
  /\ outbox' = Append(outbox, txBuffer)
  /\ UNCHANGED <<txQueue, txBuffer, posted, rxVars, open, stopped, rxFailed>>

\* A datagram is sent whole or not at all, so m_txBytesSent reaches the end.
SendCompletes ==
  /\ Idle /\ sending
  /\ sending' = FALSE /\ isTxRunning' = FALSE
  /\ outbox' = Append(outbox, txBuffer)
  /\ posted' = posted + 1
  /\ UNCHANGED <<txQueue, txBuffer, rxVars, open, stopped, rxFailed>>

\* The socket is closed, which ends the pending receive too.
SendFails ==
  /\ Idle /\ sending
  /\ sending' = FALSE
  /\ open' = FALSE /\ rxArmed' = FALSE
  /\ UNCHANGED <<txQueue, txBuffer, isTxRunning, inbox, rxBuffer, outbox, posted,
                 stopped, rxFailed>>

\* A start_write that was posted to the io_context.
RunPosted ==
  /\ Idle /\ posted > 0
  /\ posted' = posted - 1
  /\ StartWrite(txQueue)
  /\ UNCHANGED <<rxVars, outbox, open, stopped, rxFailed>>

-----------------------------------------------------------------------------
(* No wake-up is lost: while replies wait in the queue, either one is being *)
(* sent, whose completion will look at the queue, or a start_write that     *)
(* will is waiting in the io_context.  The buffer is in use exactly while   *)
(* m_isTxRunning says so, unless the socket died; and a receive is pending  *)
(* exactly while none is being handled.  udpServer.h:96-152.                *)
TxInv ==
  /\ txQueue # <<>> => isTxRunning \/ posted > 0
  /\ isTxRunning <=> (sending \/ ~open)
  /\ rxArmed <=> (rxBuffer = <<>> /\ open /\ ~rxFailed)
  /\ ~open => ~sending /\ rxBuffer = <<>>
=============================================================================
