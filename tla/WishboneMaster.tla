--------------------------- MODULE WishboneMaster ---------------------------
(***************************************************************************)
(* The processor's side of the data bus (serv_rf_top behind wb_intercon,   *)
(* both external to the repository): cyc, the address, the direction and   *)
(* the data are held until the slave acknowledges, then cyc is low for at  *)
(* least one cycle.  An access is a record [addr, we, dat]; while cyc is   *)
(* low no slave looks at the other wires, which are given a fixed value.   *)
(***************************************************************************)
EXTENDS Naturals

VARIABLES cyc, addr, we, dat    \* i_wb_cyc, i_wb_addr, i_wb_we, i_wb_dat

masterVars == <<cyc, addr, we, dat>>

MasterInit(rest) ==
  cyc = 0 /\ addr = rest.addr /\ we = rest.we /\ dat = rest.dat

\* What the wires carry from the next cycle on.
Drive(access) ==
  addr' = access.addr /\ we' = access.we /\ dat' = access.dat

MasterRest == cyc = 0 /\ UNCHANGED masterVars

MasterStart(access) == cyc = 0 /\ cyc' = 1 /\ Drive(access)

MasterHold(ack) == cyc = 1 /\ ack = 0 /\ UNCHANGED masterVars

\* The access is over; the processor has what it read.
Finishing(ack) == cyc = 1 /\ ack = 1

MasterFinish(ack, rest) == Finishing(ack) /\ cyc' = 0 /\ Drive(rest)
=============================================================================
