----------------------------- MODULE RingBuffer -----------------------------
(***************************************************************************)
(* ringBuffer.h: a ring as a record of its four members.  The operators    *)
(* give the ring after a call, so that one action can make several calls.  *)
(***************************************************************************)
EXTENDS Integers, Sequences

CONSTANT RingSize      \* the template argument SIZE
ASSUME RingAssumption == RingSize \in Nat /\ RingSize > 0

EmptyRing ==
  [array |-> [i \in 0..RingSize - 1 |-> 0], head |-> 0, tail |-> 0, size |-> 0]

ModuloInc(val) == IF val + 1 >= RingSize THEN 0 ELSE val + 1

\* A full ring refuses the item.
Push(ring, item) ==
  IF ring.size + 1 <= RingSize
  THEN [array |-> [ring.array EXCEPT ![ring.head] = item],
        head  |-> ModuloInc(ring.head),
        tail  |-> ring.tail,
        size  |-> ring.size + 1]
  ELSE ring

\* Where the tail is after n times modulo_inc, n being less than SIZE.
Ahead(tail, n) == IF tail + n >= RingSize THEN tail + n - RingSize ELSE tail + n

\* Mutants: the items go but the size does not; all items go, as in clear.
Pops_KeepsSize(ring, n) == [ring EXCEPT !.tail = Ahead(ring.tail, n)]
Pops_All(ring, n) == [ring EXCEPT !.tail = ring.head, !.size = 0]

\* n calls of pop, each of which finds an item: n <= size.
Pops(ring, n) ==
  [array |-> ring.array, head |-> ring.head,
   tail |-> Ahead(ring.tail, n), size |-> ring.size - n]

\* The item that the offset-th pop from now returns, from zero.
Peek(ring, offset) == ring.array[Ahead(ring.tail, offset)]

-----------------------------------------------------------------------------
\* What the ring stands for: its items, oldest first.
Contents(ring) == [k \in 1..ring.size |-> Peek(ring, k - 1)]

\* The members agree with each other.
RingOK(ring) ==
  /\ ring = [array |-> ring.array, head |-> ring.head,
             tail |-> ring.tail, size |-> ring.size]
  /\ ring.array = [i \in 0..RingSize - 1 |-> ring.array[i]]
  /\ ring.head \in 0..RingSize - 1
  /\ ring.tail \in 0..RingSize - 1
  /\ ring.size \in 0..RingSize
  /\ ring.head = Ahead(ring.tail, ring.size)
=============================================================================
