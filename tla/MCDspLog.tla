------------------------------ MODULE MCDspLog ------------------------------
(***************************************************************************)
(* An instance of DspLog for TLC: messages of three lengths and an area    *)
(* they fill to the last byte, and to the last but one, in several ways.   *)
(***************************************************************************)
EXTENDS DspLog, TLC

CONSTANTS m1, m2, m3

MCMsg == {m1, m2, m3}
MCMsgLen == m1 :> 1 @@ m2 :> 2 @@ m3 :> 4
=============================================================================
