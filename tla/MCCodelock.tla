----------------------------- MODULE MCCodelock -----------------------------
(***************************************************************************)
(* Codelock with a keyboard on which the code is typed right or with a key *)
(* doubled, left out or added.                                             *)
(***************************************************************************)
EXTENDS Codelock

MCKeys == <<{"1"}, {"1", "4"}, {"4", "2"}, {"2", "3"}, {"3", "1"}>>
=============================================================================
