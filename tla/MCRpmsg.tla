------------------------------ MODULE MCRpmsg ------------------------------
(***************************************************************************)
(* An instance of Rpmsg for TLC: an announcement twice as long as a FIFO,  *)
(* and messages of no byte, of less than a word, of just the size of the   *)
(* reassembly buffer, and of one byte more.                                *)
(***************************************************************************)
EXTENDS Rpmsg, SequencesExt

MCAnnounce == <<1, 2, 3, 4, 5>>
MCArmMsgs == << << >>, <<1, 2, 3>>, <<4, 5, 6, 7, 8, 9, 10, 11>>,
                <<12, 13, 14, 15, 16, 17, 18, 19, 20>>, << >> >>
MCArmStream == FlattenSeq([i \in 1 .. Len(MCArmMsgs) |-> Words(MCArmMsgs[i])])
MCStarts == [i \in 1 .. Len(MCArmMsgs) + 1 |->
               FoldLeft(LAMBDA n, m : n + Len(Words(m)), 0, SubSeq(MCArmMsgs, 1, i - 1))]
MCEnabled == {0}
MCNone == {}
=============================================================================
