---------------------------- MODULE MCSharespace ----------------------------
(***************************************************************************)
(* An instance of Sharespace for TLC.                                      *)
(***************************************************************************)
EXTENDS Sharespace

CONSTANTS x, y

MCBytes == {x, y}

\* Messages of one and three bytes, enough to wrap at any position of the ring.
MCMsgs == {<<x>>, <<y, x, y>>}
=============================================================================
