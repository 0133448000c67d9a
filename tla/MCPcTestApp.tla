----------------------------- MODULE MCPcTestApp -----------------------------
(***************************************************************************)
(* PcTestApp with two words of memory and frames of 19 bytes.              *)
(***************************************************************************)
EXTENDS PcTestApp

Req(op, size, address, values) ==
  [op |-> op, size |-> size, address |-> address, values |-> values]

\* Two words read and two written, one of which must be escaped.  The CRC of the
\* frame that writes holds a start byte when it is the second the client sends.
MCRequest == {Req(0, 2, 0, <<0, 0>>), Req(1, 2, 0, <<126, 23>>)}

\* Words that are, or hold, a byte that must be escaped.
MCEscapedRequest == {Req(0, 1, 0, <<0, 0>>), Req(1, 1, 0, <<126, 0>>), Req(1, 1, 1, <<125, 0>>)}
=============================================================================
