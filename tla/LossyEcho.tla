------------------------------ MODULE LossyEcho ------------------------------
(***************************************************************************)
(* What the firmware as a whole promises the ARM: it greets a few times,   *)
(* throwing away whatever the ARM says meanwhile, and then gives back what *)
(* the ARM writes, piece by piece and in order.  A piece for which there   *)
(* is no room is lost as a whole; nothing else is.                         *)
(***************************************************************************)
EXTENDS Naturals, Sequences

CONSTANTS Greetings,    \* the sequence of greetings
          Byte,
          Capacity      \* each stream always holds fewer than Capacity bytes

VARIABLES in,           \* written by the ARM, not yet taken
          held,         \* the piece in hand, a greeting or part of the echo
          out,          \* given back, not yet read by the ARM
          got,          \* everything the ARM has read
          greeted,      \* how many greetings have been tried
          listening     \* no longer throwing input away

vars == <<in, held, out, got, greeted, listening>>

Init == /\ in = << >> /\ held = << >> /\ out = << >> /\ got = << >>
        /\ greeted = 0 /\ listening = FALSE

Room(piece) == Len(out) + Len(piece) < Capacity

Greeting == Greetings[greeted + 1]

Greet == /\ ~listening /\ held = << >> /\ greeted < Len(Greetings)
         /\ Room(Greeting)
         /\ held' = Greeting
         /\ greeted' = greeted + 1
         /\ UNCHANGED <<in, out, got, listening>>

GreetInVain == /\ ~listening /\ held = << >> /\ greeted < Len(Greetings)
               /\ ~Room(Greeting)
               /\ greeted' = greeted + 1
               /\ UNCHANGED <<in, held, out, got, listening>>

Discard(n) == /\ ~listening /\ held = << >>
              /\ in' = SubSeq(in, n + 1, Len(in))
              /\ UNCHANGED <<held, out, got, greeted, listening>>

Listen == /\ greeted = Len(Greetings) /\ held = << >>
          /\ listening' = TRUE
          /\ UNCHANGED <<in, held, out, got, greeted>>

Take(n) == /\ listening /\ held = << >>
           /\ held' = SubSeq(in, 1, n)
           /\ in' = SubSeq(in, n + 1, Len(in))
           /\ UNCHANGED <<out, got, greeted, listening>>

GiveBack == /\ held # << >> /\ Room(held)
            /\ out' = out \o held
            /\ held' = << >>
            /\ UNCHANGED <<in, got, greeted, listening>>

Lose == /\ listening /\ held # << >> /\ ~Room(held)
        /\ held' = << >>
        /\ UNCHANGED <<in, out, got, greeted, listening>>

ArmWrites == /\ \E n \in Len(in) + 1 .. Capacity - 1 :
                  /\ in' \in [1 .. n -> Byte]
                  /\ SubSeq(in', 1, Len(in)) = in
             /\ UNCHANGED <<held, out, got, greeted, listening>>

ArmReads(n) == /\ got' = got \o SubSeq(out, 1, n)
               /\ out' = SubSeq(out, n + 1, Len(out))
               /\ UNCHANGED <<in, held, greeted, listening>>

Next == \/ Greet \/ GreetInVain \/ Listen \/ GiveBack \/ Lose \/ ArmWrites
        \/ \E n \in 1 .. Len(in) : Discard(n) \/ Take(n)
        \/ \E n \in 1 .. Len(out) : ArmReads(n)

Spec == Init /\ [][Next]_vars
=============================================================================
