-------------------------------- MODULE Fifo --------------------------------
(***************************************************************************)
(* The external fifo core that fastserial_wb instantiates twice: a         *)
(* synchronous queue whose output register is loaded by rd_en_i and holds  *)
(* its value until the next read.  Nothing in it guards against a write    *)
(* when full or a read when empty; that is up to whoever drives it.        *)
(***************************************************************************)
EXTENDS Naturals, Sequences

CONSTANT FifoDepth     \* 2^DEPTH_WIDTH entries, 256 in fastserial_wb
ASSUME DepthAssumption == FifoDepth \in Nat /\ FifoDepth >= 1

FifoFull(queue) == Len(queue) = FifoDepth
FifoEmpty(queue) == queue = << >>

\* The queue after one clock with these enables.
FifoNext(queue, wrEn, wrData, rdEn) ==
  (IF rdEn THEN Tail(queue) ELSE queue) \o (IF wrEn THEN <<wrData>> ELSE << >>)

\* rd_data_o after the same clock.
FifoOut(queue, out, rdEn) == IF rdEn THEN Head(queue) ELSE out
=============================================================================
