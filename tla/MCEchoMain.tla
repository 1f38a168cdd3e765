----------------------------- MODULE MCEchoMain -----------------------------
(***************************************************************************)
(* An instance of EchoMain for TLC.  The bytes of the greetings and of the *)
(* script are numbered in the order in which they enter the firmware.      *)
(***************************************************************************)
EXTENDS EchoMain

\* Two greetings and a script longer than the ring.
MCByte == 1 .. 6
MCGreetings == <<<<1>>, <<2>>>>
MCScript == <<3, 4, 5, 6>>

\* The ARM may write any run of at most three bytes of the script at once.
MCArmMsgs == UNION {{SubSeq(MCScript, i, j) : j \in i .. (IF i + 2 < Len(MCScript) THEN i + 2 ELSE Len(MCScript))}
                      : i \in 1 .. Len(MCScript)}
NoMsgs == {}
=============================================================================
