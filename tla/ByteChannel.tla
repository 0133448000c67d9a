---------------------------- MODULE ByteChannel ----------------------------
(***************************************************************************)
(* What either direction of the fast serial link promises: a first-in      *)
(* first-out channel that neither loses, nor invents, nor repeats, nor     *)
(* alters a byte.  It may hold at most Capacity bytes.  The link modules   *)
(* are shown to implement it.                                              *)
(***************************************************************************)
EXTENDS Naturals, Sequences

CONSTANTS Payload,    \* the bytes that may be sent
          Capacity    \* how many bytes may be under way at once

VARIABLES inFlight,   \* accepted and not yet handed over, oldest first
          received    \* the last byte handed over; parity flips each time

vars == <<inFlight, received>>

Init == inFlight = <<>> /\ received.parity = 0

HandOver(b) == received' = [data |-> b, parity |-> 1 - received.parity]

Accept(b) ==
  /\ Len(inFlight) < Capacity
  /\ inFlight' = Append(inFlight, b)
  /\ UNCHANGED received

Deliver ==
  /\ inFlight # <<>>
  /\ HandOver(Head(inFlight))
  /\ inFlight' = Tail(inFlight)

\* The two ends are clocked together: one may accept as the other delivers.
Exchange(b) ==
  /\ inFlight # <<>>
  /\ HandOver(Head(inFlight))
  /\ inFlight' = Append(Tail(inFlight), b)

Next == Deliver \/ \E b \in Payload : Accept(b) \/ Exchange(b)

Spec == Init /\ [][Next]_vars

(* Every byte accepted is handed over in the end: while bytes are under    *)
(* way, the next hand-over always comes.                                   *)
Live == \A p \in {0, 1} :
          (inFlight # <<>> /\ received.parity = p) ~> (received.parity = 1 - p)
=============================================================================
