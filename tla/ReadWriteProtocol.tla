------------------------- MODULE ReadWriteProtocol -------------------------
(***************************************************************************)
(* readWriteProtocol.h: a request to read or to write consecutive words.   *)
(* A word, an address and each field of the header are one byte here; the  *)
(* version, which nothing reads, is left out.                              *)
(***************************************************************************)
EXTENDS Integers, Sequences

CONSTANTS MAX_READWRITE_SIZE,  \* words in a request, 8
          Address,             \* the words of the memory
          PcDebug              \* whether PC_DEBUG is defined

ASSUME ReadWriteAssumption ==
  MAX_READWRITE_SIZE \in Nat /\ Address \subseteq Nat /\ PcDebug \in BOOLEAN

VARIABLE memory

READ_WRITE_PROTOCOL_PORT == 1
ContiguousRead == 0
ContiguousWrite == 1
OperationLength == 4 + MAX_READWRITE_SIZE      \* sizeof(operationPayload_t)

MemoryInit == memory = [a \in Address |-> 0]

\* operationPayload_t and the bytes it is sent as.
Operation(payload) ==
  [op |-> payload[1], size |-> payload[2], majic |-> payload[3],
   address |-> payload[4], values |-> SubSeq(payload, 5, OperationLength)]
PayloadBytes(o) == <<o.op, o.size, o.majic, o.address>> \o o.values

\* *pMemory, or with PC_DEBUG the pointer itself.
Value(a) == IF PcDebug THEN a ELSE memory[a]

\* m_payload: zeros but for the values read.
Reply(o) ==
  [o EXCEPT !.values = [i \in 1..MAX_READWRITE_SIZE |->
     IF i <= o.size THEN Value(o.address + i - 1) ELSE 0]]

\* With PC_DEBUG a write is only printed.
Written(o) ==
  [a \in Address |-> IF ~PcDebug /\ a - o.address \in 0..o.size - 1
                     THEN o.values[a - o.address + 1] ELSE memory[a]]

\* postFromBasicProtocol, and whether it sends a reply; any other operation
\* is ignored.
Replies(o) == o.op = ContiguousRead
Execute(o) == memory' = IF o.op = ContiguousWrite THEN Written(o) ELSE memory
=============================================================================
