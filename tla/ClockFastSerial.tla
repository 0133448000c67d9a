-------------------------- MODULE ClockFastSerial --------------------------
(***************************************************************************)
(* rtl/fastserial/clock_fastserial.v: FSCLK is i_clk divided by            *)
(* fast_serial_divider, low for the first half of each period.             *)
(***************************************************************************)
EXTENDS Naturals

CONSTANT FastSerialDivider   \* parameter fast_serial_divider

\* Below 2 the output never toggles; above 2^16 the 16-bit counter wraps
\* before it reaches the limit.
ASSUME DividerAssumption ==
  /\ FastSerialDivider \in Nat
  /\ 2 <= FastSerialDivider /\ FastSerialDivider <= 65536

VARIABLE counter             \* reg [15:0] counter

Half == FastSerialDivider \div 2

\* o_fsclk
Fsclk == IF counter < Half THEN 0 ELSE 1

ClockInit == counter = 0

\* One posedge i_clk.
ClockTick ==
  counter' = IF counter >= FastSerialDivider - 1 THEN 0 ELSE counter + 1

\* What the chip at the other end of the wire sees of the step.
RisingEdge == Fsclk = 0 /\ Fsclk' = 1
FallingEdge == Fsclk = 1 /\ Fsclk' = 0
=============================================================================
