------------------------------ MODULE MCQueue ------------------------------
(***************************************************************************)
(* Instances of Queue for TLC.                                             *)
(***************************************************************************)
EXTENDS Queue, TLC

CONSTANTS high, low, mid,       \* tasks
          x, y                  \* items

MCTask == {high, mid, low}
MCPriority == high :> 2 @@ mid :> 1 @@ low :> 1

SendOf(pos, item, ticks) == [op |-> "send", pos |-> pos, item |-> item, ticks |-> ticks]
ReceiveFor(ticks) == [op |-> "receive", pos |-> "none", item |-> "nothing", ticks |-> ticks]
PeekFor(ticks) == [op |-> "peek", pos |-> "none", item |-> "nothing", ticks |-> ticks]
ResetNow == [op |-> "reset", pos |-> "none", item |-> "nothing", ticks |-> "none"]

\* A queue of two: tasks and interrupts send and receive at both ends.
MCCalls == high :> {PeekFor("finite"), SendOf("back", x, "forever")}
           @@ mid :> {ReceiveFor("forever"), SendOf("front", y, "finite")}
           @@ low :> {ReceiveFor("finite")}
MCIsr == {[pos |-> "back", item |-> x]}

\* A queue of one that is overwritten and reset, and a sender with a limit,
\* by tasks of one priority.
MailboxPriority == high :> 1 @@ mid :> 1
MailboxCalls == high :> {SendOf("back", x, "finite"), PeekFor("forever")}
                @@ mid :> {SendOf("overwrite", y, "none"), SendOf("front", y, "forever"),
                           ReceiveFor("finite"), ResetNow}
MailboxIsr == {[pos |-> "overwrite", item |-> y]}
=============================================================================
