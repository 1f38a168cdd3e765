----------------------------- MODULE MCDspBoot -----------------------------
(***************************************************************************)
(* An instance of DspBoot for TLC.  Addresses 10..19 and 30..39 are two    *)
(* windows on the memory at 40..49, and 0..3 is local RAM.  Two images are *)
(* good, one with a segment of zeros only and one in each window's last    *)
(* cell; one has no section table of names, one has the section but no     *)
(* segment for it.  The "reg" of a shared space has no cell, one too few,  *)
(* as many as are wanted, or two more.                                     *)
(***************************************************************************)
EXTENDS DspBoot

CONSTANTS b1, b2, b3, b4, b5, b6, b7     \* bytes of the files

MCByte == {b1, b2, b3, b4, b5, b6, b7}

MCAddrMap == <<[vstart |-> 10, vend |-> 19, offset |-> 30],
               [vstart |-> 30, vend |-> 39, offset |-> 10]>>

Seg(paddr, data, memsz) == [paddr |-> paddr, data |-> data, memsz |-> memsz]

Sec(name, alloc, addr, size) == [name |-> name, alloc |-> alloc, addr |-> addr, size |-> size]

Elf(entry, sections, phdrs) ==
    [entry |-> entry, strtab |-> TRUE, sections |-> sections, phdrs |-> phdrs]

HeadSeg == Seg(10, <<b1, b2, b3>>, 3)
Names == <<Sec(Oemhead, FALSE, 10, 3), Sec(".text", TRUE, 2, 1), Sec(Oemhead, TRUE, 10, 3)>>

InRam == Elf(2, Names, <<HeadSeg, Seg(1, <<b4, b5>>, 3), Seg(33, << >>, 2)>>)
AtEnd == Elf(7, Names, <<Seg(19, <<b6>>, 1), HeadSeg, Seg(38, <<b7>>, 1)>>)
NoNames == [InRam EXCEPT !.strtab = FALSE]
NoSegment == [InRam EXCEPT !.phdrs = <<Seg(1, <<b4, b5>>, 3)>>]
NoSection == [InRam EXCEPT !.sections = <<Sec(".text", TRUE, 2, 1)>>]

MCImage == {InRam, AtEnd, NoNames, NoSegment, NoSection}

MCShare ==
    [state : {"absent", "disabled", "noreg"}, cells : {0}] \cup [state : {"okay"}, cells : {0, 5, 6, 8}]

MCFdt == [dsp : {"okay", "disabled"}, share : MCShare,
          uart : [0 .. 1 -> {"absent", "disabled", "nopins", "okay"}],
          gpio : {[state |-> "okay", groups |-> {"PA", "PH"}], [state |-> "noprop", groups |-> {}]}]

MCAddr == 0 .. 3 \cup 40 .. 49
=============================================================================
