------------------------- MODULE OvertakingChannel -------------------------
(***************************************************************************)
(* What the receive register promises a program that reads it: bytes come  *)
(* out in order, unaltered and at most once, but a byte with newer ones    *)
(* behind it may be lost.  The newest byte is never lost.                  *)
(***************************************************************************)
EXTENDS Naturals, Sequences

CONSTANTS Payload, Capacity

VARIABLES inFlight,   \* bytes waiting to be read, oldest first
          received    \* the last byte read; parity flips each time

vars == <<inFlight, received>>

Init == inFlight = << >> /\ received.parity = 0

HandOver(b) == received' = [data |-> b, parity |-> 1 - received.parity]

Accept(b) ==
  /\ Len(inFlight) < Capacity
  /\ inFlight' = Append(inFlight, b)
  /\ UNCHANGED received

Deliver ==
  /\ inFlight # << >>
  /\ HandOver(Head(inFlight))
  /\ inFlight' = Tail(inFlight)

Exchange(b) ==
  /\ inFlight # << >>
  /\ HandOver(Head(inFlight))
  /\ inFlight' = Append(Tail(inFlight), b)

\* The oldest byte is overtaken by the one behind it.
Overtake ==
  /\ Len(inFlight) >= 2
  /\ inFlight' = Tail(inFlight)
  /\ UNCHANGED received

OvertakeAndAccept(b) ==
  /\ Len(inFlight) >= 2
  /\ inFlight' = Append(Tail(inFlight), b)
  /\ UNCHANGED received

Next ==
  \/ Deliver
  \/ Overtake
  \/ \E b \in Payload : Accept(b) \/ Exchange(b) \/ OvertakeAndAccept(b)

Spec == Init /\ [][Next]_vars
=============================================================================
