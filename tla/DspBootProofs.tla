--------------------------- MODULE DspBootProofs ---------------------------
(***************************************************************************)
(* What holds of DspBoot for every set of image files whose segments lie   *)
(* side by side, every device tree and every reset vector.                 *)
(***************************************************************************)
EXTENDS DspBoot, SequenceTheorems, WellFoundedInduction, TLAPS

(***************************************************************************)
(* An image in memory is a file in which a cell may hold the message.      *)
(***************************************************************************)
Cell == Byte \cup {DtsMsg}

PatchedType ==
    [entry    : Nat,
     strtab   : BOOLEAN,
     sections : Seq([name : STRING, alloc : BOOLEAN, addr : Nat, size : Nat]),
     phdrs    : Seq([paddr : Nat, data : Seq(Cell), memsz : Nat \ {0}])]

Pcs == {"idle", "find", "clock", "vector", "stall", "clken", "deassert", "load", "run"}

BootType ==
    /\ fdt \in Fdt
    /\ image \in PatchedType
    /\ reg \in [sclk : BOOLEAN, cfg : BOOLEAN, cfg_rst : BOOLEAN, rst : BOOLEAN,
                vec_sel : BOOLEAN, alt_vec : Nat, stall : BOOLEAN, clken : BOOLEAN]
    /\ DOMAIN call = {"pc", "msg", "seg"}
    /\ call.pc \in Pcs /\ call.seg \in Nat
    /\ call.pc # "idle" => call.msg = DtsMsg
    /\ run_ddr \in Nat
    /\ DOMAIN mem = Addr

(***************************************************************************)
(* The segments stay where they are when the message is put into one.      *)
(***************************************************************************)
Apart(img) ==
    \A i \in DOMAIN img.phdrs :
        LET p == img.phdrs[i]  IN
        /\ Len(p.data) <= p.memsz
        /\ Target(p) \subseteq Addr
        /\ \A j \in DOMAIN img.phdrs \ {i} : Target(p) \cap Target(img.phdrs[j]) = {}
        /\ p.paddr = FindImgSection(img) => Len(p.data) >= DtsCell

SideBySide == Apart(image)

(***************************************************************************)
(* How far the registers are, by the place of the call.  An idle DSP has   *)
(* never been turned on, or executes.                                      *)
(***************************************************************************)
Off == ~reg.sclk /\ ~reg.cfg /\ ~reg.cfg_rst /\ ~reg.rst /\ ~reg.vec_sel /\ ~reg.clken

Registers ==
    /\ call.pc = "idle" => Off \/ Executing
    /\ call.pc \in {"find", "clock"} => Off
    /\ call.pc \notin {"idle", "find", "clock"} => reg.sclk /\ reg.cfg /\ reg.cfg_rst
    /\ call.pc = "vector" => ~reg.vec_sel
    /\ call.pc \in {"vector", "stall", "clken", "deassert"} => ~reg.rst
    /\ call.pc \in {"clken", "deassert", "load", "run"} => reg.stall
    /\ call.pc \in {"deassert", "load", "run"} => reg.clken
    /\ call.pc \in {"load", "run"} => reg.rst
    /\ Executing \/ call.pc \in {"stall", "clken", "deassert", "load", "run"} => Vector = run_ddr

Mapping ==
    /\ call.pc \notin {"idle", "run"} => remap
    /\ Executing \/ call.pc = "run" => ~remap

(***************************************************************************)
(* From the patching on, the header's segment holds the message.           *)
(***************************************************************************)
HasMsg ==
    \E i \in DOMAIN image.phdrs :
        /\ image.phdrs[i].paddr = FindImgSection(image)
        /\ image.phdrs[i].data[DtsCell] = DtsMsg

Patched == Executing \/ call.pc \notin {"idle", "find"} => HasMsg

InPlace(i) == \A c \in Target(image.phdrs[i]) : mem[c] = Loaded(image.phdrs[i], c)

AllInPlace == \A i \in DOMAIN image.phdrs : InPlace(i)

(***************************************************************************)
(* The segments before the next one are in place, in the end all of them.  *)
(***************************************************************************)
LoadedSoFar ==
    /\ call.pc \notin {"idle", "load", "run"} => call.seg = 1
    /\ call.seg >= 1
    /\ call.pc = "load" => \A i \in DOMAIN image.phdrs : i < call.seg => InPlace(i)
    /\ Executing \/ call.pc = "run" => AllInPlace

BInv == BootType /\ SideBySide /\ Registers /\ Mapping /\ Patched /\ LoadedSoFar

-----------------------------------------------------------------------------
\* A set of naturals has a least element: < is well-founded on them.
LEMMA LeastExists ==
    ASSUME NEW T \in SUBSET Nat, T # {}
    PROVE  \E x \in T : \A y \in T : x <= y
  <1> DEFINE R == OpToRel(<, Nat)
  <1>1. IsWellFoundedOn(R, Nat)
    BY NatLessThanWellFounded
  <1>2. \A x, y \in Nat : x < y => <<x, y>> \in R
    BY DEF OpToRel
  <1> HIDE DEF R
  <1>3. PICK x \in T : \A y \in T : ~ (<<y, x>> \in R)
    BY <1>1, WFMin
  <1>4. ASSUME NEW y \in T PROVE x <= y
    <2>1. x \in Nat /\ y \in Nat /\ ~ (y < x)
      BY <1>2, <1>3
    <2> QED
      BY <2>1
  <1> QED
    BY <1>4

LEMMA MinIs ==
    ASSUME NEW T \in SUBSET Nat, T # {}
    PROVE  Min(T) \in T /\ \A y \in T : Min(T) <= y
  <1>1. \E x \in T : \A y \in T : x <= y
    BY LeastExists
  <1> QED
    BY <1>1 DEF Min

LEMMA PaIsNat == ASSUME NEW v \in Nat PROVE Pa(v) \in Nat
  <1> DEFINE hits == {i \in DOMAIN AddrMap : AddrMap[i].vstart <= v /\ v <= AddrMap[i].vend}
  <1>1. /\ DOMAIN AddrMap \subseteq Nat
        /\ \A i \in DOMAIN AddrMap : AddrMap[i].offset \in Nat
    <2>1. AddrMap \in Seq([vstart : Nat, vend : Nat, offset : Nat])
      BY BoardAssumption
    <2>2. DOMAIN AddrMap = 1 .. Len(AddrMap) /\ Len(AddrMap) \in Nat
      BY <2>1, LenProperties
    <2>3. \A i \in 1 .. Len(AddrMap) : AddrMap[i] \in [vstart : Nat, vend : Nat, offset : Nat]
      BY <2>1, ElementOfSeq
    <2> QED
      BY <2>2, <2>3
  <1>2. CASE hits = {}
    BY <1>2 DEF Pa
  <1>3. CASE hits # {}
    <2>1. hits \in SUBSET Nat
      BY <1>1
    <2>2. Min(hits) \in hits
      BY <1>3, <2>1, MinIs
    <2>3. AddrMap[Min(hits)].offset \in Nat
      BY <1>1, <2>2
    <2>4. Pa(v) = v + AddrMap[Min(hits)].offset
      BY <1>3 DEF Pa
    <2> QED
      BY <2>3, <2>4
  <1> QED
    BY <1>2, <1>3

(***************************************************************************)
(* An image's segments, as the proofs use them.                            *)
(***************************************************************************)
LEMMA Phdrs ==
    ASSUME image \in PatchedType
    PROVE  /\ Len(image.phdrs) \in Nat /\ DOMAIN image.phdrs = 1 .. Len(image.phdrs)
           /\ \A i \in DOMAIN image.phdrs :
                /\ image.phdrs[i] \in [paddr : Nat, data : Seq(Cell), memsz : Nat \ {0}]
                /\ image.phdrs[i].paddr \in Nat /\ image.phdrs[i].data \in Seq(Cell)
                /\ image.phdrs[i].memsz \in Nat \ {0}
                /\ Len(image.phdrs[i].data) \in Nat
  <1>1. image.phdrs \in Seq([paddr : Nat, data : Seq(Cell), memsz : Nat \ {0}])
    BY DEF PatchedType
  <1>2. Len(image.phdrs) \in Nat /\ DOMAIN image.phdrs = 1 .. Len(image.phdrs)
    BY <1>1, LenProperties
  <1>3. \A i \in DOMAIN image.phdrs :
          image.phdrs[i] \in [paddr : Nat, data : Seq(Cell), memsz : Nat \ {0}]
    BY <1>1, <1>2, ElementOfSeq
  <1>4. \A i \in DOMAIN image.phdrs : image.phdrs[i].data \in Seq(Cell)
    BY <1>3
  <1>5. \A i \in DOMAIN image.phdrs : Len(image.phdrs[i].data) \in Nat
    BY <1>4, LenProperties
  <1> QED
    BY <1>2, <1>3, <1>4, <1>5

LEMMA HeadIs ==
    ASSUME image \in PatchedType, HeadSegment(image) # 0
    PROVE  /\ HeadSegment(image) \in DOMAIN image.phdrs
           /\ image.phdrs[HeadSegment(image)].paddr = FindImgSection(image)
  <1> DEFINE hits == {i \in DOMAIN image.phdrs : image.phdrs[i].paddr = FindImgSection(image)}
  <1>1. hits # {} /\ HeadSegment(image) = Min(hits)
    BY DEF HeadSegment
  <1>2. hits \in SUBSET Nat
    BY Phdrs
  <1>3. Min(hits) \in hits
    BY <1>1, <1>2, MinIs
  <1> QED
    BY <1>1, <1>3

\* Where a segment goes depends on its header alone.
LEMMA TargetIs ==
    ASSUME NEW p, NEW q, p.paddr = q.paddr, p.memsz = q.memsz
    PROVE  Target(p) = Target(q)
  BY DEF Target

LEMMA BInvInit == Init => BInv
  <1> SUFFICES ASSUME Init PROVE BInv
    OBVIOUS
  <1>1. /\ image \in Image /\ fdt \in Fdt /\ call = Idle /\ run_ddr = 0 /\ remap = FALSE
        /\ mem = [c \in Addr |-> Junk]
    BY DEF Init
  <1>2. PICK stall \in BOOLEAN :
          reg = [sclk |-> FALSE, cfg |-> FALSE, cfg_rst |-> FALSE, rst |-> FALSE,
                 vec_sel |-> FALSE, alt_vec |-> 0, stall |-> stall, clken |-> FALSE]
    BY DEF Init
  <1>3. image \in PatchedType
    <2>1. image \in ImageType
      BY <1>1, ImageAssumption
    <2>2. image.phdrs \in Seq([paddr : Nat, data : Seq(Byte), memsz : Nat \ {0}])
      BY <2>1 DEF ImageType
    <2>3. Byte \subseteq Cell
      BY DEF Cell
    <2>4. Seq(Byte) \subseteq Seq(Cell)
      BY <2>3, SeqMonotonic
    <2>5. [paddr : Nat, data : Seq(Byte), memsz : Nat \ {0}]
            \subseteq [paddr : Nat, data : Seq(Cell), memsz : Nat \ {0}]
      BY <2>4
    <2>6. image.phdrs \in Seq([paddr : Nat, data : Seq(Cell), memsz : Nat \ {0}])
      BY <2>2, <2>5, SeqMonotonic
    <2> QED
      BY <2>1, <2>6 DEF ImageType, PatchedType
  <1>4. ~reg.sclk /\ Off /\ ~Executing
    BY <1>2 DEF Off, Executing
  <1>5. call.pc = "idle" /\ call.seg = 1 /\ DOMAIN call = {"pc", "msg", "seg"}
    BY <1>1 DEF Idle
  <1>6. BootType
    <2>1. reg \in [sclk : BOOLEAN, cfg : BOOLEAN, cfg_rst : BOOLEAN, rst : BOOLEAN,
                   vec_sel : BOOLEAN, alt_vec : Nat, stall : BOOLEAN, clken : BOOLEAN]
      BY <1>2
    <2> QED
      BY <1>1, <1>3, <1>5, <2>1 DEF BootType, Pcs
  <1>7. SideBySide
    BY <1>1, ImageAssumption DEF SideBySide, Apart
  <1> QED
    BY <1>4, <1>5, <1>6, <1>7 DEF BInv, Registers, Mapping, Patched, LoadedSoFar

-----------------------------------------------------------------------------
\* Steps that leave the image alone keep all that is said of it.
LEMMA ImageKept ==
    ASSUME BInv, UNCHANGED <<image, fdt>>
    PROVE  /\ image' \in PatchedType' /\ fdt' \in Fdt /\ SideBySide' /\ DtsMsg' = DtsMsg
           /\ HasMsg' = HasMsg
  <1>1. DtsMsg' = DtsMsg
    BY DEF DtsMsg
  <1>2. PatchedType' = PatchedType
    BY <1>1 DEF PatchedType, Cell
  <1>3. SideBySide' = SideBySide
    BY DEF SideBySide
  <1>4. HasMsg' = HasMsg
    BY <1>1 DEF HasMsg
  <1> QED
    BY <1>1, <1>2, <1>3, <1>4 DEF BInv, BootType

(***************************************************************************)
(* The message goes into the head segment's data and nothing else changes. *)
(***************************************************************************)
LEMMA BInvSetMsgDts == BInv /\ SetMsgDts => BInv'
  <1> SUFFICES ASSUME BInv, SetMsgDts PROVE BInv'
    OBVIOUS
  <1> DEFINE i == HeadSegment(image)
             ph == image.phdrs
             p == ph[i]
             data == [p.data EXCEPT ![DtsCell] = DtsMsg]
             p2 == [p EXCEPT !.data = data]
             ph2 == [ph EXCEPT ![i] = p2]
  <1>1. BootType /\ SideBySide /\ Registers /\ Mapping /\ LoadedSoFar
    BY DEF BInv
  <1>2. /\ call.pc = "find" /\ call.msg = DtsMsg /\ i # 0
        /\ image' = [image EXCEPT !.phdrs = ph2]
        /\ call' = [call EXCEPT !.pc = "clock"]
        /\ UNCHANGED <<fdt, run_ddr, reg, remap, mem>>
    BY <1>1 DEF SetMsgDts, Goto, BootType
  <1>3. image \in PatchedType
    BY <1>1 DEF BootType
  <1>4. i \in DOMAIN ph /\ p.paddr = FindImgSection(image)
    BY <1>2, <1>3, HeadIs
  <1>5. /\ Len(ph) \in Nat /\ DOMAIN ph = 1 .. Len(ph)
        /\ ph \in Seq([paddr : Nat, data : Seq(Cell), memsz : Nat \ {0}])
        /\ p \in [paddr : Nat, data : Seq(Cell), memsz : Nat \ {0}]
        /\ p.data \in Seq(Cell)
    BY <1>3, <1>4, Phdrs DEF PatchedType
  <1>6. Len(p.data) >= DtsCell
    BY <1>1, <1>4 DEF SideBySide, Apart
  <1> HIDE DEF i
  <1>7. data \in Seq(Cell) /\ Len(data) = Len(p.data) /\ data[DtsCell] = DtsMsg
    <2> DEFINE d == p.data
    <2>1. d \in Seq(Cell) /\ Len(d) \in Nat /\ DtsCell \in 1 .. Len(d) /\ DtsMsg \in Cell
      BY <1>5, <1>6, LenProperties DEF DtsCell, Cell
    <2> HIDE DEF d
    <2>2. [d EXCEPT ![DtsCell] = DtsMsg] \in Seq(Cell)
          /\ Len([d EXCEPT ![DtsCell] = DtsMsg]) = Len(d)
          /\ [d EXCEPT ![DtsCell] = DtsMsg][DtsCell] = DtsMsg
      BY <2>1, ExceptSeq
    <2> QED
      BY <2>2 DEF d
  <1> HIDE DEF data
  <1>8. /\ p2 \in [paddr : Nat, data : Seq(Cell), memsz : Nat \ {0}]
        /\ p2.paddr = p.paddr /\ p2.memsz = p.memsz /\ p2.data = data
    BY <1>5, <1>7
  <1> HIDE DEF p2
  <1>9. /\ ph2 \in Seq([paddr : Nat, data : Seq(Cell), memsz : Nat \ {0}])
        /\ DOMAIN ph2 = DOMAIN ph /\ ph2[i] = p2
        /\ \A j \in DOMAIN ph : j # i => ph2[j] = ph[j]
    <2>1. i \in 1 .. Len(ph)
      BY <1>4, <1>5
    <2> HIDE DEF ph, p
    <2>2. ph2 \in Seq([paddr : Nat, data : Seq(Cell), memsz : Nat \ {0}])
      BY <1>5, <1>8, <2>1, ExceptSeq
    <2> QED
      BY <1>4, <2>2
  <1> HIDE DEF ph2
  <1>10. /\ image'.phdrs = ph2 /\ image'.sections = image.sections
         /\ image'.strtab = image.strtab /\ image' \in PatchedType
    BY <1>2, <1>3, <1>9 DEF PatchedType
  <1>11. FindImgSection(image') = FindImgSection(image)
    BY <1>10 DEF FindImgSection
  <1>12. \A j \in DOMAIN ph : /\ ph2[j].paddr = ph[j].paddr
                              /\ Target(ph2[j]) = Target(ph[j])
                              /\ ph2[j].memsz = ph[j].memsz
                              /\ Len(ph2[j].data) = Len(ph[j].data)
    <2>1. ASSUME NEW j \in DOMAIN ph
          PROVE  /\ ph2[j].paddr = ph[j].paddr
                 /\ ph2[j].memsz = ph[j].memsz
                 /\ Len(ph2[j].data) = Len(ph[j].data)
      BY <1>7, <1>8, <1>9
    <2> QED
      BY <2>1, TargetIs
  <1>13. SideBySide'
    <2>1. Apart(image)
      BY <1>1 DEF SideBySide
    <2>2. Apart(image')
      BY <2>1, <1>9, <1>10, <1>11, <1>12 DEF Apart
    <2> QED
      BY <2>2 DEF SideBySide
  <1>14. DtsMsg' = DtsMsg
    BY <1>2 DEF DtsMsg
  <1>15. HasMsg'
    <2>1. i \in DOMAIN ph2 /\ ph2[i].paddr = FindImgSection(image) /\ ph2[i].data[DtsCell] = DtsMsg
      BY <1>4, <1>7, <1>8, <1>9
    <2> QED
      BY <2>1, <1>10, <1>11, <1>14 DEF HasMsg
  <1>16. /\ DOMAIN call' = {"pc", "msg", "seg"} /\ call'.pc = "clock"
         /\ call'.msg = DtsMsg /\ call'.seg = call.seg
    BY <1>1, <1>2 DEF BootType
  <1>17. Off /\ ~Executing /\ Off' /\ ~Executing'
    BY <1>1, <1>2 DEF Registers, Off, Executing
  <1>18. BootType'
    <2>1. PatchedType' = PatchedType
      BY <1>14 DEF PatchedType, Cell
    <2> QED
      BY <1>1, <1>2, <1>10, <1>14, <1>16, <2>1 DEF BootType, Pcs
  <1>19. LoadedSoFar'
    BY <1>1, <1>2, <1>16, <1>17 DEF LoadedSoFar
  <1>20. Registers' /\ Mapping'
    BY <1>1, <1>2, <1>16, <1>17 DEF Registers, Mapping
  <1>21. Patched'
    BY <1>15 DEF Patched
  <1> QED
    BY <1>13, <1>18, <1>19, <1>20, <1>21 DEF BInv

\* U-Boot has another file in memory while the DSP is off.
LEMMA BInvFatload == ASSUME BInv, NEW img \in Image, Fatload(img) PROVE BInv'
  <1>1. BootType /\ Registers /\ Mapping /\ LoadedSoFar
    BY DEF BInv
  <1>2. /\ call.pc = "idle" /\ ~Executing /\ image' = img
        /\ UNCHANGED <<fdt, call, run_ddr, reg, remap, mem>>
    BY DEF Fatload
  <1>3. ~Executing'
    BY <1>2 DEF Executing
  <1>4. DtsMsg' = DtsMsg
    BY <1>2 DEF DtsMsg
  <1>5. image' \in PatchedType'
    <2>1. img \in ImageType
      BY ImageAssumption
    <2>2. img.phdrs \in Seq([paddr : Nat, data : Seq(Byte), memsz : Nat \ {0}])
      BY <2>1 DEF ImageType
    <2>3. Seq(Byte) \subseteq Seq(Cell)
      BY SeqMonotonic DEF Cell
    <2>4. img.phdrs \in Seq([paddr : Nat, data : Seq(Cell), memsz : Nat \ {0}])
      <3>1. [paddr : Nat, data : Seq(Byte), memsz : Nat \ {0}]
              \subseteq [paddr : Nat, data : Seq(Cell), memsz : Nat \ {0}]
        BY <2>3
      <3> QED
        BY <2>2, <3>1, SeqMonotonic
    <2>5. img \in PatchedType
      BY <2>1, <2>4 DEF ImageType, PatchedType
    <2>6. PatchedType' = PatchedType
      BY <1>4 DEF PatchedType, Cell
    <2> QED
      BY <1>2, <2>5, <2>6
  <1>6. SideBySide'
    BY <1>2, ImageAssumption DEF SideBySide, Apart
  <1>7. BootType'
    BY <1>1, <1>2, <1>4, <1>5 DEF BootType
  <1>8. Registers'
    BY <1>1, <1>2, <1>3 DEF Registers, Off
  <1>9. LoadedSoFar'
    BY <1>1, <1>2, <1>3 DEF LoadedSoFar
  <1>10. Mapping'
    BY <1>1, <1>2, <1>3 DEF Mapping
  <1>11. Patched'
    BY <1>2, <1>3 DEF Patched
  <1> QED
    BY <1>6, <1>7, <1>8, <1>9, <1>10, <1>11 DEF BInv

LEMMA BInvCall == ASSUME BInv, NEW run \in RunDdr, Call(run) PROVE BInv'
  <1>1. BootType /\ SideBySide /\ Registers /\ Mapping /\ LoadedSoFar
    BY DEF BInv
  <1>2. /\ call.pc = "idle" /\ ~Executing
        /\ call' = [pc |-> "find", msg |-> DtsMsg, seg |-> 1]
        /\ run_ddr' = (IF run = 0 THEN image.entry ELSE run) /\ remap' = TRUE
        /\ UNCHANGED <<image, fdt, reg, mem>>
    BY DEF Call
  <1>3. /\ image' \in PatchedType' /\ fdt' \in Fdt /\ SideBySide' /\ DtsMsg' = DtsMsg
    BY <1>2, ImageKept
  <1>4. Off /\ Off' /\ ~Executing'
    BY <1>1, <1>2 DEF Registers, Off, Executing
  <1>5. call'.pc = "find" /\ call'.seg = 1 /\ call'.msg = DtsMsg /\ DOMAIN call' = {"pc", "msg", "seg"}
    BY <1>2
  <1>6. run_ddr' \in Nat
    <2>1. image.entry \in Nat /\ run \in Nat
      BY <1>1, BoardAssumption DEF BootType, PatchedType
    <2> QED
      BY <1>2, <2>1
  <1>7. BootType'
    BY <1>1, <1>2, <1>3, <1>5, <1>6 DEF BootType, Pcs
  <1>8. Registers' /\ Mapping'
    BY <1>2, <1>4, <1>5 DEF Registers, Mapping
  <1>9. Patched' /\ LoadedSoFar'
    BY <1>4, <1>5 DEF Patched, LoadedSoFar
  <1> QED
    BY <1>3, <1>7, <1>8, <1>9 DEF BInv

\* A refused image leaves the DSP off.
LEMMA BInvRefuse == ASSUME BInv, Refuse PROVE BInv'
  <1>1. BootType /\ SideBySide /\ Registers /\ Mapping /\ LoadedSoFar
    BY DEF BInv
  <1>2. call.pc = "find" /\ call' = Idle /\ UNCHANGED <<image, fdt, run_ddr, reg, remap, mem>>
    BY DEF Refuse
  <1>3. /\ image' \in PatchedType' /\ fdt' \in Fdt /\ SideBySide' /\ DtsMsg' = DtsMsg
    BY <1>2, ImageKept
  <1>4. Off' /\ ~Executing'
    BY <1>1, <1>2 DEF Registers, Off, Executing
  <1>5. call'.pc = "idle" /\ call'.seg = 1 /\ DOMAIN call' = {"pc", "msg", "seg"}
    BY <1>2 DEF Idle
  <1>6. BootType'
    BY <1>1, <1>2, <1>3, <1>5 DEF BootType, Pcs
  <1> QED
    BY <1>3, <1>4, <1>5, <1>6 DEF BInv, Registers, Mapping, Patched, LoadedSoFar

(***************************************************************************)
(* The steps that write a register: the image and the memory are kept, the *)
(* call goes on to the next place, and what the registers are decides.     *)
(***************************************************************************)
LEMMA BInvRegister ==
    ASSUME BInv, NEW pc \in {"vector", "stall", "clken", "deassert", "load"},
           call.pc \in {"clock", "vector", "stall", "clken", "deassert"},
           call' = [call EXCEPT !.pc = pc],
           UNCHANGED <<image, fdt, run_ddr, remap, mem>>,
           reg' \in [sclk : BOOLEAN, cfg : BOOLEAN, cfg_rst : BOOLEAN, rst : BOOLEAN,
                     vec_sel : BOOLEAN, alt_vec : Nat, stall : BOOLEAN, clken : BOOLEAN],
           Registers', ~Executing'
    PROVE  BInv'
  <1>1. BootType /\ SideBySide /\ Registers /\ Mapping /\ Patched /\ LoadedSoFar
    BY DEF BInv
  <1>2. /\ image' \in PatchedType' /\ fdt' \in Fdt /\ SideBySide' /\ DtsMsg' = DtsMsg
        /\ HasMsg' = HasMsg
    BY ImageKept
  <1>3. /\ call'.pc = pc /\ call'.seg = call.seg /\ call'.msg = call.msg
        /\ DOMAIN call' = {"pc", "msg", "seg"}
    BY <1>1 DEF BootType
  <1>4. BootType'
    BY <1>1, <1>2, <1>3 DEF BootType, Pcs
  <1>5. Patched'
    BY <1>1, <1>2, <1>3 DEF Patched
  <1>6. Mapping'
    BY <1>1, <1>3 DEF Mapping
  <1>7. call.seg = 1 /\ call'.seg = 1
    BY <1>1, <1>3 DEF LoadedSoFar
  <1>8. LoadedSoFar'
    <2>1. \A i \in DOMAIN image'.phdrs : ~(i < call'.seg)
      <3>1. DOMAIN image.phdrs = 1 .. Len(image.phdrs) /\ Len(image.phdrs) \in Nat
        BY <1>1, Phdrs DEF BootType
      <3> QED
        BY <1>7, <3>1
    <2> QED
      BY <1>3, <1>7, <2>1 DEF LoadedSoFar
  <1> QED
    BY <1>2, <1>4, <1>5, <1>6, <1>8 DEF BInv

LEMMA BInvClock == ASSUME BInv, Clock PROVE BInv'
  <1>1. Registers /\ Mapping /\ BootType /\ call.pc = "clock"
    BY DEF BInv, Clock
  <1>2. Clock
    OBVIOUS
  <1>3. reg' = [reg EXCEPT !.sclk = TRUE, !.cfg = TRUE, !.cfg_rst = TRUE]
    BY <1>2 DEF Clock
  <1>4. /\ reg' \in
                 [sclk : BOOLEAN, cfg : BOOLEAN, cfg_rst : BOOLEAN, rst : BOOLEAN,
                  vec_sel : BOOLEAN, alt_vec : Nat, stall : BOOLEAN, clken : BOOLEAN]
        /\ reg'.sclk = TRUE /\ reg'.cfg = TRUE /\ reg'.cfg_rst = TRUE
        /\ reg'.rst = reg.rst /\ reg'.vec_sel = reg.vec_sel /\ reg'.alt_vec = reg.alt_vec /\ reg'.stall = reg.stall
        /\ reg'.clken = reg.clken
    BY <1>1, <1>3 DEF BootType
  <1>5. call' = [call EXCEPT !.pc = "vector"] /\ UNCHANGED <<image, fdt, run_ddr, remap, mem>>
    BY DEF Clock, Goto
  <1>6. call'.pc = "vector"
    BY <1>1, <1>5 DEF BootType
  <1>7. ~Executing'
    BY <1>1, <1>4 DEF Registers, Off, Executing
  <1>8. Registers'
    BY <1>1, <1>4, <1>5, <1>6, <1>7 DEF Registers, Off, Vector
  <1> QED
    BY <1>1, <1>4, <1>5, <1>7, <1>8, BInvRegister

LEMMA BInvStall == ASSUME BInv, Stall PROVE BInv'
  <1>1. Registers /\ Mapping /\ BootType /\ call.pc = "stall"
    BY DEF BInv, Stall
  <1>2. Stall
    OBVIOUS
  <1>3. reg' = [reg EXCEPT !.stall = TRUE]
    <2>1. reg.cfg /\ reg.cfg_rst
      BY <1>1 DEF Registers
    <2> QED
      BY <1>2, <2>1 DEF Stall, Cfg
  <1>4. /\ reg' \in
                 [sclk : BOOLEAN, cfg : BOOLEAN, cfg_rst : BOOLEAN, rst : BOOLEAN,
                  vec_sel : BOOLEAN, alt_vec : Nat, stall : BOOLEAN, clken : BOOLEAN]
        /\ reg'.stall = TRUE
        /\ reg'.sclk = reg.sclk /\ reg'.cfg = reg.cfg /\ reg'.cfg_rst = reg.cfg_rst /\ reg'.rst = reg.rst
        /\ reg'.vec_sel = reg.vec_sel /\ reg'.alt_vec = reg.alt_vec /\ reg'.clken = reg.clken
    BY <1>1, <1>3 DEF BootType
  <1>5. call' = [call EXCEPT !.pc = "clken"] /\ UNCHANGED <<image, fdt, run_ddr, remap, mem>>
    BY DEF Stall, Goto
  <1>6. call'.pc = "clken"
    BY <1>1, <1>5 DEF BootType
  <1>7. ~Executing'
    BY <1>1, <1>4 DEF Registers, Off, Executing
  <1>8. Registers'
    BY <1>1, <1>4, <1>5, <1>6, <1>7 DEF Registers, Off, Vector
  <1> QED
    BY <1>1, <1>4, <1>5, <1>7, <1>8, BInvRegister

LEMMA BInvClkEn == ASSUME BInv, ClkEn PROVE BInv'
  <1>1. Registers /\ Mapping /\ BootType /\ call.pc = "clken"
    BY DEF BInv, ClkEn
  <1>2. ClkEn
    OBVIOUS
  <1>3. reg' = [reg EXCEPT !.clken = TRUE]
    <2>1. reg.cfg /\ reg.cfg_rst
      BY <1>1 DEF Registers
    <2> QED
      BY <1>2, <2>1 DEF ClkEn, Cfg
  <1>4. /\ reg' \in
                 [sclk : BOOLEAN, cfg : BOOLEAN, cfg_rst : BOOLEAN, rst : BOOLEAN,
                  vec_sel : BOOLEAN, alt_vec : Nat, stall : BOOLEAN, clken : BOOLEAN]
        /\ reg'.clken = TRUE
        /\ reg'.sclk = reg.sclk /\ reg'.cfg = reg.cfg /\ reg'.cfg_rst = reg.cfg_rst /\ reg'.rst = reg.rst
        /\ reg'.vec_sel = reg.vec_sel /\ reg'.alt_vec = reg.alt_vec /\ reg'.stall = reg.stall
    BY <1>1, <1>3 DEF BootType
  <1>5. call' = [call EXCEPT !.pc = "deassert"] /\ UNCHANGED <<image, fdt, run_ddr, remap, mem>>
    BY DEF ClkEn, Goto
  <1>6. call'.pc = "deassert"
    BY <1>1, <1>5 DEF BootType
  <1>7. ~Executing'
    BY <1>1, <1>4 DEF Registers, Off, Executing
  <1>8. Registers'
    BY <1>1, <1>4, <1>5, <1>6, <1>7 DEF Registers, Off, Vector
  <1> QED
    BY <1>1, <1>4, <1>5, <1>7, <1>8, BInvRegister

LEMMA BInvDeassert == ASSUME BInv, Deassert PROVE BInv'
  <1>1. Registers /\ Mapping /\ BootType /\ call.pc = "deassert"
    BY DEF BInv, Deassert
  <1>2. Deassert
    OBVIOUS
  <1>3. reg' = [reg EXCEPT !.rst = TRUE]
    BY <1>2 DEF Deassert
  <1>4. /\ reg' \in
                 [sclk : BOOLEAN, cfg : BOOLEAN, cfg_rst : BOOLEAN, rst : BOOLEAN,
                  vec_sel : BOOLEAN, alt_vec : Nat, stall : BOOLEAN, clken : BOOLEAN]
        /\ reg'.rst = TRUE
        /\ reg'.sclk = reg.sclk /\ reg'.cfg = reg.cfg /\ reg'.cfg_rst = reg.cfg_rst /\ reg'.vec_sel = reg.vec_sel
        /\ reg'.alt_vec = reg.alt_vec /\ reg'.stall = reg.stall /\ reg'.clken = reg.clken
    BY <1>1, <1>3 DEF BootType
  <1>5. call' = [call EXCEPT !.pc = "load"] /\ UNCHANGED <<image, fdt, run_ddr, remap, mem>>
    BY DEF Deassert, Goto
  <1>6. call'.pc = "load"
    BY <1>1, <1>5 DEF BootType
  <1>7. ~Executing'
    BY <1>1, <1>4 DEF Registers, Off, Executing
  <1>8. Registers'
    BY <1>1, <1>4, <1>5, <1>6, <1>7 DEF Registers, Off, Vector
  <1> QED
    BY <1>1, <1>4, <1>5, <1>7, <1>8, BInvRegister

LEMMA BInvSetVector == ASSUME BInv, SetVector PROVE BInv'
  <1>1. Registers /\ Mapping /\ BootType /\ call.pc = "vector"
    BY DEF BInv, SetVector
  <1>2. /\ call' = [call EXCEPT !.pc = "stall"]
        /\ UNCHANGED <<image, fdt, run_ddr, remap, mem>>
    BY DEF SetVector, Goto
  <1>3. call'.pc = "stall"
    BY <1>1, <1>2 DEF BootType
  <1>4. reg.cfg /\ reg.cfg_rst /\ reg.sclk /\ ~reg.rst /\ ~reg.vec_sel
    BY <1>1 DEF Registers
  <1>5. /\ reg' \in [sclk : BOOLEAN, cfg : BOOLEAN, cfg_rst : BOOLEAN, rst : BOOLEAN,
                     vec_sel : BOOLEAN, alt_vec : Nat, stall : BOOLEAN, clken : BOOLEAN]
        /\ reg'.sclk = reg.sclk /\ reg'.cfg = reg.cfg /\ reg'.cfg_rst = reg.cfg_rst
        /\ reg'.rst = reg.rst /\ Vector' = run_ddr
    <2>1. CASE run_ddr # DefaultVec
      <3>1. reg' = [reg EXCEPT !.alt_vec = run_ddr, !.vec_sel = TRUE]
        BY <1>4, <2>1 DEF SetVector, Cfg
      <3>2. /\ reg' \in [sclk : BOOLEAN, cfg : BOOLEAN, cfg_rst : BOOLEAN, rst : BOOLEAN,
                         vec_sel : BOOLEAN, alt_vec : Nat, stall : BOOLEAN, clken : BOOLEAN]
            /\ reg'.sclk = reg.sclk /\ reg'.cfg = reg.cfg /\ reg'.cfg_rst = reg.cfg_rst
            /\ reg'.rst = reg.rst /\ reg'.vec_sel = TRUE /\ reg'.alt_vec = run_ddr
        BY <1>1, <3>1 DEF BootType
      <3> QED
        BY <3>2 DEF Vector
    <2>2. CASE run_ddr = DefaultVec
      <3>1. reg' = reg
        BY <2>2 DEF SetVector
      <3> QED
        BY <1>1, <1>4, <2>2, <3>1 DEF BootType, Vector
    <2> QED
      BY <2>1, <2>2
  <1>6. ~Executing'
    BY <1>4, <1>5 DEF Executing
  <1>7. Registers'
    BY <1>2, <1>3, <1>4, <1>5, <1>6 DEF Registers
  <1> QED
    BY <1>1, <1>2, <1>5, <1>6, <1>7, BInvRegister

(***************************************************************************)
(* A segment is put in its place, and disturbs none that was put before.   *)
(***************************************************************************)
LEMMA BInvLoadPhdr == ASSUME BInv, LoadPhdr PROVE BInv'
  <1> DEFINE n == call.seg
             p == image.phdrs[n]
  <1>1. BootType /\ SideBySide /\ Registers /\ Mapping /\ Patched /\ LoadedSoFar
    BY DEF BInv
  <1>2. /\ call.pc = "load" /\ n <= Len(image.phdrs)
        /\ mem' = [c \in Addr |-> IF c \in Target(p) /\ (c \in LocalRam => remap)
                                    THEN Loaded(p, c) ELSE mem[c]]
        /\ call' = [call EXCEPT !.seg = n + 1]
        /\ UNCHANGED <<image, fdt, run_ddr, reg, remap>>
    BY DEF LoadPhdr
  <1>3. remap /\ ~Executing /\ ~Executing' /\ HasMsg /\ Vector' = Vector
    BY <1>1, <1>2 DEF Mapping, Registers, Patched, Executing, Vector
  <1>4. /\ DOMAIN image.phdrs = 1 .. Len(image.phdrs) /\ Len(image.phdrs) \in Nat
        /\ n \in Nat /\ n >= 1 /\ n \in DOMAIN image.phdrs
    BY <1>1, <1>2, Phdrs DEF BootType, LoadedSoFar
  <1>5. /\ image' \in PatchedType' /\ fdt' \in Fdt /\ SideBySide' /\ DtsMsg' = DtsMsg /\ HasMsg'
    BY <1>2, <1>3, ImageKept
  <1>6. /\ call'.pc = "load" /\ call'.seg = n + 1 /\ call'.msg = call.msg
        /\ DOMAIN call' = {"pc", "msg", "seg"}
    BY <1>1, <1>2 DEF BootType
  <1>7. BootType'
    BY <1>1, <1>2, <1>4, <1>5, <1>6 DEF BootType, Pcs
  <1>8. Registers'
    BY <1>1, <1>2, <1>3, <1>6 DEF Registers, Off
  <1>9. /\ Target(p) \subseteq Addr
        /\ \A i \in DOMAIN image.phdrs \ {n} :
             /\ Target(image.phdrs[i]) \subseteq Addr
             /\ Target(image.phdrs[i]) \cap Target(p) = {}
    BY <1>1, <1>4 DEF SideBySide, Apart
  <1>10. ASSUME NEW i \in DOMAIN image.phdrs, i < n + 1
         PROVE  \A c \in Target(image.phdrs[i]) : mem'[c] = Loaded(image.phdrs[i], c)
    <2>1. CASE i = n
      BY <1>2, <1>3, <1>9, <2>1
    <2>2. CASE i # n
      <3>1. i < n
        BY <1>4, <1>10, <2>2
      <3>2. \A c \in Target(image.phdrs[i]) : mem[c] = Loaded(image.phdrs[i], c)
        BY <1>1, <1>2, <3>1 DEF LoadedSoFar, InPlace
      <3>3. \A c \in Target(image.phdrs[i]) : c \in Addr /\ c \notin Target(p)
        BY <1>9, <2>2
      <3> QED
        BY <1>2, <3>2, <3>3
    <2> QED
      BY <2>1, <2>2
  <1>11. LoadedSoFar'
    <2>1. \A i \in DOMAIN image'.phdrs : i < call'.seg => InPlace(i)'
      <3> SUFFICES ASSUME NEW i \in DOMAIN image.phdrs, i < n + 1 PROVE InPlace(i)'
        BY <1>2, <1>6
      <3>1. \A c \in Target(image'.phdrs[i]) : mem'[c] = Loaded(image'.phdrs[i], c)
        BY <1>2, <1>10
      <3> QED
        BY <3>1 DEF InPlace
    <2> QED
      BY <1>3, <1>4, <1>6, <2>1 DEF LoadedSoFar
  <1> QED
    BY <1>1, <1>2, <1>3, <1>5, <1>6, <1>7, <1>8, <1>11 DEF BInv, Mapping, Patched

LEMMA BInvRemapOff == ASSUME BInv, RemapOff PROVE BInv'
  <1>1. BootType /\ SideBySide /\ Registers /\ Mapping /\ Patched /\ LoadedSoFar
    BY DEF BInv
  <1>2. /\ call.pc = "load" /\ call.seg > Len(image.phdrs) /\ remap' = FALSE
        /\ call' = [call EXCEPT !.pc = "run"]
        /\ UNCHANGED <<image, fdt, run_ddr, reg, mem>>
    BY DEF RemapOff, Goto
  <1>3. ~Executing' /\ HasMsg /\ Vector' = Vector
    BY <1>1, <1>2 DEF Registers, Patched, Executing, Vector
  <1>4. /\ image' \in PatchedType' /\ fdt' \in Fdt /\ SideBySide' /\ DtsMsg' = DtsMsg /\ HasMsg'
    BY <1>2, <1>3, ImageKept
  <1>5. /\ call'.pc = "run" /\ call'.seg = call.seg /\ call'.msg = call.msg
        /\ DOMAIN call' = {"pc", "msg", "seg"}
    BY <1>1, <1>2 DEF BootType
  <1>6. AllInPlace /\ AllInPlace'
    <2>1. \A i \in DOMAIN image.phdrs : i < call.seg
      <3>1. DOMAIN image.phdrs = 1 .. Len(image.phdrs) /\ Len(image.phdrs) \in Nat /\ call.seg \in Nat
        BY <1>1, Phdrs DEF BootType
      <3> QED
        BY <1>2, <3>1
    <2>2. AllInPlace
      BY <1>1, <1>2, <2>1 DEF LoadedSoFar, AllInPlace
    <2> QED
      BY <1>2, <2>2 DEF AllInPlace, InPlace, Loaded
  <1>7. BootType'
    BY <1>1, <1>2, <1>4, <1>5 DEF BootType, Pcs
  <1>8. Registers'
    BY <1>1, <1>2, <1>3, <1>5 DEF Registers, Off
  <1>9. LoadedSoFar'
    BY <1>1, <1>3, <1>5, <1>6 DEF LoadedSoFar
  <1> QED
    BY <1>2, <1>3, <1>4, <1>5, <1>7, <1>8, <1>9 DEF BInv, Mapping, Patched

\* The stall bit is taken back last, with everything in place.
LEMMA BInvRun == ASSUME BInv, Run PROVE BInv'
  <1>1. BootType /\ SideBySide /\ Registers /\ Mapping /\ Patched /\ LoadedSoFar /\ call.pc = "run"
    BY DEF BInv, Run
  <1>2. call' = Idle /\ UNCHANGED <<image, fdt, run_ddr, remap, mem>>
    BY DEF Run
  <1>3. /\ reg.sclk /\ reg.cfg /\ reg.cfg_rst /\ reg.rst /\ reg.clken /\ Vector = run_ddr
        /\ ~remap /\ HasMsg /\ AllInPlace
    BY <1>1 DEF Registers, Mapping, Patched, LoadedSoFar
  <1>4. reg' = [reg EXCEPT !.stall = FALSE]
    BY <1>3 DEF Run, Cfg
  <1>5. /\ reg' \in [sclk : BOOLEAN, cfg : BOOLEAN, cfg_rst : BOOLEAN, rst : BOOLEAN,
                     vec_sel : BOOLEAN, alt_vec : Nat, stall : BOOLEAN, clken : BOOLEAN]
        /\ reg'.stall = FALSE /\ reg'.sclk = reg.sclk /\ reg'.cfg = reg.cfg
        /\ reg'.cfg_rst = reg.cfg_rst /\ reg'.rst = reg.rst /\ reg'.clken = reg.clken
        /\ reg'.vec_sel = reg.vec_sel /\ reg'.alt_vec = reg.alt_vec
    BY <1>1, <1>4 DEF BootType
  <1>6. Executing' /\ Vector' = run_ddr
    BY <1>3, <1>5 DEF Executing, Vector
  <1>7. /\ image' \in PatchedType' /\ fdt' \in Fdt /\ SideBySide' /\ DtsMsg' = DtsMsg /\ HasMsg'
    BY <1>2, <1>3, ImageKept
  <1>8. AllInPlace'
    BY <1>2, <1>3 DEF AllInPlace, InPlace, Loaded
  <1>9. call'.pc = "idle" /\ call'.seg = 1 /\ DOMAIN call' = {"pc", "msg", "seg"}
    BY <1>2 DEF Idle
  <1>10. BootType'
    BY <1>1, <1>2, <1>5, <1>7, <1>9 DEF BootType, Pcs
  <1> QED
    BY <1>2, <1>3, <1>6, <1>7, <1>8, <1>9, <1>10 DEF BInv, Registers, Mapping, Patched, LoadedSoFar

LEMMA BInvNext == BInv /\ [Next]_vars => BInv'
  <1> SUFFICES ASSUME BInv, [Next]_vars PROVE BInv'
    OBVIOUS
  <1>1. CASE UNCHANGED vars
    <2>1. UNCHANGED <<image, fdt, call, run_ddr, reg, remap, mem>>
      BY <1>1 DEF vars
    <2>2. /\ image' \in PatchedType' /\ fdt' \in Fdt /\ SideBySide' /\ DtsMsg' = DtsMsg
          /\ HasMsg' = HasMsg
      BY <2>1, ImageKept
    <2>3. BootType' /\ Registers' /\ Mapping' /\ Patched' /\ LoadedSoFar'
      BY <2>1, <2>2 DEF BInv, BootType, Registers, Mapping, Patched, LoadedSoFar, AllInPlace,
                        InPlace, Loaded, Off, Executing, Vector
    <2> QED
      BY <2>2, <2>3 DEF BInv
  <1>2. CASE Closed
    BY <1>1, <1>2 DEF Closed
  <1>3. ASSUME NEW img \in Image, Fatload(img) PROVE BInv'
    BY <1>3, BInvFatload
  <1>4. ASSUME NEW run \in RunDdr, Call(run) PROVE BInv'
    BY <1>4, BInvCall
  <1>5. CASE Step
    BY <1>5, BInvRefuse, BInvSetMsgDts, BInvClock, BInvSetVector, BInvStall, BInvClkEn,
       BInvDeassert, BInvLoadPhdr, BInvRemapOff, BInvRun DEF Step
  <1> QED
    BY <1>1, <1>2, <1>3, <1>4, <1>5 DEF Next

(***************************************************************************)
(* Whatever images were refused before, a DSP that executes runs the image *)
(* from its vector, with its local RAM its own and every segment in place. *)
(***************************************************************************)
THEOREM ImageIsInPlace == Spec => []RunsTheImage
  <1>1. BInv => RunsTheImage
    BY DEF BInv, Registers, Mapping, LoadedSoFar, AllInPlace, InPlace, RunsTheImage
  <1> QED
    BY BInvInit, BInvNext, <1>1, PTL DEF Spec

-----------------------------------------------------------------------------
\* A message is open, and its shared space is what the tree's node gives.
LEMMA MessageIs ==
    ASSUME fdt \in Fdt
    PROVE  /\ DtsMsg.dsp_status = DTS_OPEN
           /\ DtsMsg.share.status = DTS_OPEN <=> fdt.share.state = "okay"
           /\ \A k \in 1 .. ShareCells :
                k \in DtsMsg.share.filled <=> DtsMsg.share.status = DTS_OPEN /\ k <= fdt.share.cells
  <1> DEFINE s == SharespaceMsg(fdt.share)
  <1>1. DtsMsg.dsp_status = DTS_OPEN /\ DtsMsg.share = s
    BY DEF DtsMsg
  <1>2. fdt.share.state \in {"absent", "disabled", "noreg", "okay"}
    BY BoardAssumption
  <1>3. CASE fdt.share.state = "okay"
    <2>1. s = OpenShare(fdt.share)
      BY <1>3 DEF SharespaceMsg
    <2>2. s.status = DTS_OPEN /\ s.filled = {k \in 1 .. ShareCells : k <= fdt.share.cells}
      BY <2>1 DEF OpenShare
    <2> QED
      BY <1>1, <1>3, <2>2
  <1>4. CASE fdt.share.state # "okay"
    <2>1. s = ClosedShare
      BY <1>2, <1>4 DEF SharespaceMsg
    <2>2. s.status = DTS_CLOSE /\ s.filled = {}
      BY <2>1 DEF ClosedShare
    <2> QED
      BY <1>1, <1>4, <2>2 DEF DTS_OPEN, DTS_CLOSE
  <1> QED
    BY <1>3, <1>4

(***************************************************************************)
(* The cell the firmware reads is the one that was patched: there is one   *)
(* segment at the section's address, and it is in its place.               *)
(***************************************************************************)
LEMMA MessageInPlace ==
    ASSUME BInv, Executing
    PROVE  LET head == CHOOSE i \in DOMAIN image.phdrs :
                         image.phdrs[i].paddr = FindImgSection(image)
           IN  mem[Pa(image.phdrs[head].paddr) + DtsCell - 1] = DtsMsg
  <1> DEFINE At(i) == image.phdrs[i].paddr = FindImgSection(image)
             head == CHOOSE i \in DOMAIN image.phdrs : At(i)
  <1>1. image \in PatchedType /\ SideBySide /\ HasMsg /\ AllInPlace
    BY DEF BInv, BootType, Patched, LoadedSoFar
  <1>2. PICK i \in DOMAIN image.phdrs : At(i) /\ image.phdrs[i].data[DtsCell] = DtsMsg
    BY <1>1 DEF HasMsg
  <1>3. \A j \in DOMAIN image.phdrs :
          /\ image.phdrs[j].paddr \in Nat /\ image.phdrs[j].memsz \in Nat \ {0}
          /\ Len(image.phdrs[j].data) \in Nat
          /\ Pa(image.phdrs[j].paddr) \in Nat
    BY <1>1, Phdrs, PaIsNat
  <1>4. \A j \in DOMAIN image.phdrs : Pa(image.phdrs[j].paddr) \in Target(image.phdrs[j])
    BY <1>3 DEF Target
  <1>5. \A j \in DOMAIN image.phdrs : At(j) => j = i
    <2> SUFFICES ASSUME NEW j \in DOMAIN image.phdrs, At(j), j # i PROVE FALSE
      OBVIOUS
    <2>1. Target(image.phdrs[i]) \cap Target(image.phdrs[j]) = {}
      BY <1>1 DEF SideBySide, Apart
    <2>2. Pa(image.phdrs[i].paddr) = Pa(image.phdrs[j].paddr)
      BY <1>2
    <2> QED
      BY <1>4, <2>1, <2>2
  <1>6. head = i
    BY <1>2, <1>5
  <1> DEFINE p == image.phdrs[i]
             a == Pa(p.paddr)
             c == a + DtsCell - 1
  <1>7. Len(p.data) >= DtsCell /\ Len(p.data) <= p.memsz
    BY <1>1, <1>2 DEF SideBySide, Apart
  <1>8. c \in Target(p) /\ c - a + 1 = DtsCell
    <2>1. a \in Nat /\ p.memsz \in Nat /\ Len(p.data) \in Nat
      BY <1>3
    <2> HIDE DEF p
    <2>2. Target(p) = a .. a + p.memsz - 1
      BY DEF Target
    <2> HIDE DEF a
    <2> QED
      BY <2>1, <2>2, <1>7 DEF DtsCell
  <1>9. mem[c] = Loaded(p, c)
    BY <1>1, <1>8 DEF AllInPlace, InPlace
  <1>10. Loaded(p, c) = DtsMsg
    BY <1>2, <1>3, <1>7, <1>8 DEF Loaded
  <1> QED
    BY <1>6, <1>9, <1>10

(***************************************************************************)
(* The firmware that runs reads an open message, and in it the shared      *)
(* space of the device tree: open exactly when the node is okay and has a  *)
(* "reg", and filled exactly as far as the "reg" goes.                     *)
(***************************************************************************)
THEOREM MessageTellsTheTree == Spec => []TellsTheTree
  <1>1. BInv => TellsTheTree
    <2> SUFFICES ASSUME BInv, Executing PROVE TellsTheTree
      BY DEF TellsTheTree
    <2>1. fdt \in Fdt
      BY DEF BInv, BootType
    <2> QED
      BY <2>1, MessageIs, MessageInPlace DEF TellsTheTree
  <1> QED
    BY BInvInit, BInvNext, <1>1, PTL DEF Spec

=============================================================================
