------------------------------ MODULE DspBoot ------------------------------
(***************************************************************************)
(* Starting the DSP from U-Boot (host/uboot-driver/dsp).  sunxi_dsp_init   *)
(* collects the device tree's settings, patches them into the image file   *)
(* in memory, turns the DSP on stalled, copies the image's segments to     *)
(* where they run, hands the local RAM back and lets the DSP go.           *)
(*                                                                         *)
(* The hardware is external: the core executes while it has its clocks, is *)
(* out of reset and is not stalled; its configuration registers take a     *)
(* write only when their bus clock is on and they are out of reset; while  *)
(* remap is off U-Boot's stores to the DSP's local RAM do not reach it.    *)
(* The DSP is started once: U-Boot calls again only after a call that did  *)
(* not start it.                                                           *)
(*                                                                         *)
(* StallSkipped, SharespaceMsgKeeps and RunNot are                         *)
(* mistakes, kept to show which property sees them.                        *)
(***************************************************************************)
EXTENDS Naturals, Sequences, FiniteSetsExt

CONSTANTS Image,        \* the ELF files, see ImageType below
          Byte,         \* what a cell of such a file holds
          AddrMap,      \* addr_mapping
          Fdt,          \* the device trees
          RunDdr,       \* the values of the argument run_ddr
          DefaultVec,   \* DSP_DEFAULT_RST_VEC
          LocalRam,     \* addresses of the DSP's local RAM
          Addr,         \* all physical addresses
          UART_NUM,
          Junk, Zero    \* what memory holds at power-up, and a zero byte

Oemhead == ".oemhead.text"

(***************************************************************************)
(* An image has an entry point, sections [name, alloc, addr, size] and     *)
(* program headers [paddr, data, memsz], data being the bytes in the file. *)
(* The dts_msg of an image's header is one cell of the segment that holds  *)
(* it, behind the jump and the magic.                                      *)
(***************************************************************************)
DtsCell == 2

ImageType ==
    [entry    : Nat,
     strtab   : BOOLEAN,
     sections : Seq([name : STRING, alloc : BOOLEAN, addr : Nat, size : Nat]),
     phdrs    : Seq([paddr : Nat, data : Seq(Byte), memsz : Nat \ {0}])]

DTS_CLOSE == 0
DTS_OPEN == 1

VARIABLES image,        \* the file at img_addr
          fdt,          \* the device tree
          call,         \* the call in progress: pc, msg, and the next segment
          run_ddr,      \* where the DSP is to start
          reg,          \* the clock, reset and configuration registers
          remap,        \* SRAMC_SRAM_REMAP_REG
          mem           \* memory as the DSP sees it

vars == <<image, fdt, call, run_ddr, reg, remap, mem>>

-----------------------------------------------------------------------------
(***************************************************************************)
(* common/dsp_fdt.c.  A node is absent (or of another kind), disabled, or  *)
(* okay; an okay node may lack what is read from it.  The shared space's   *)
(* "reg" has some number of cells, six of which are wanted.                *)
(***************************************************************************)
ShareCells == 6         \* address and size of both rings and of the log
RegCells == 8           \* what dts_sharespace_msg has room for

\* The fields of the message that are filled; the others are 0.
ClosedShare == [status |-> DTS_CLOSE, filled |-> {}]

OpenShare(node) == [status |-> DTS_OPEN, filled |-> {k \in 1 .. ShareCells : k <= node.cells}]

SharespaceMsgKeeps(node) ==
    CASE node.state = "absent"   -> ClosedShare
      [] node.state = "disabled" -> ClosedShare
      [] OTHER                   -> OpenShare(node)

\* A "reg" of too few cells is no error: the fields it lacks stay 0.
SharespaceMsg(node) ==
    CASE node.state = "absent"   -> ClosedShare
      [] node.state = "disabled" -> ClosedShare
      [] node.state = "noreg"    -> ClosedShare
      [] OTHER                   -> OpenShare(node)

\* The first serial node of the DSP's kind counts, whatever its status.
UartMsg(nodes) ==
    LET match == {i \in 0 .. UART_NUM - 1 : nodes[i] # "absent"}
        port == Min(match)
    IN  IF match = {} THEN [status |-> DTS_CLOSE, port |-> 0, pins |-> FALSE]
        ELSE [status |-> IF nodes[port] = "disabled" THEN DTS_CLOSE ELSE DTS_OPEN,
              port   |-> port,
              pins   |-> nodes[port] = "okay"]

\* The groups of an okay node, unless its property is missing or malformed.
GpioIntMsg(node) ==
    IF node.state = "okay" THEN node.groups \cap {"PA", "PB", "PC", "PD", "PE", "PF", "PG"} ELSE {}

DtsMsg ==
    [dsp_status |-> DTS_OPEN, uart |-> UartMsg(fdt.uart), gpio_int |-> GpioIntMsg(fdt.gpio),
     share |-> SharespaceMsg(fdt.share)]

-----------------------------------------------------------------------------
(***************************************************************************)
(* common/dsp_img.c.                                                       *)
(***************************************************************************)
Found(s) == s.alloc /\ s.addr # 0 /\ s.size # 0 /\ s.name = Oemhead

\* find_img_section: the address, or 0 if there is no such section.
FindImgSection(img) ==
    LET found == {i \in DOMAIN img.sections : Found(img.sections[i])}
    IN  IF img.strtab /\ found # {} THEN img.sections[Min(found)].addr ELSE 0

\* get_img_len, set_msg_dts: the first segment at the section's address, or 0.
HeadSegment(img) ==
    LET hits == {i \in DOMAIN img.phdrs : img.phdrs[i].paddr = FindImgSection(img)}
    IN  IF hits = {} THEN 0 ELSE Min(hits)

\* set_img_va_to_pa
Pa(vaddr) ==
    LET hits == {i \in DOMAIN AddrMap : AddrMap[i].vstart <= vaddr /\ vaddr <= AddrMap[i].vend}
    IN  IF hits = {} THEN vaddr ELSE vaddr + AddrMap[Min(hits)].offset

\* What load_image puts at an address for a segment whose target is dst.
Loaded(p, c) ==
    LET off == c - Pa(p.paddr) + 1
    IN  IF off <= Len(p.data) THEN p.data[off] ELSE Zero

Target(p) == Pa(p.paddr) .. Pa(p.paddr) + p.memsz - 1

(***************************************************************************)
(* A file is an ELF file whose segments fit in memory side by side, with   *)
(* no more data than memory, and the header's segment holds the dts_msg.   *)
(***************************************************************************)
ASSUME ImageAssumption ==
    /\ Image \subseteq ImageType
    /\ \A img \in Image : \A i \in DOMAIN img.phdrs :
         LET p == img.phdrs[i]  IN
         /\ Len(p.data) <= p.memsz
         /\ Target(p) \subseteq Addr
         /\ \A j \in DOMAIN img.phdrs \ {i} : Target(p) \cap Target(img.phdrs[j]) = {}
         /\ p.paddr = FindImgSection(img) => Len(p.data) >= DtsCell

ASSUME BoardAssumption ==
    /\ AddrMap \in Seq([vstart : Nat, vend : Nat, offset : Nat])
    /\ DefaultVec \in Nat /\ RunDdr \subseteq Nat
    /\ \A f \in Fdt :
         f.share \in [state : {"absent", "disabled", "noreg", "okay"}, cells : 0 .. RegCells]

-----------------------------------------------------------------------------
NoMsg == "none"
Idle == [pc |-> "idle", msg |-> NoMsg, seg |-> 1]

Init ==
    /\ image \in Image
    /\ fdt \in Fdt
    /\ call = Idle /\ run_ddr = 0
    /\ \E stall \in BOOLEAN :
         reg = [sclk |-> FALSE, cfg |-> FALSE, cfg_rst |-> FALSE, rst |-> FALSE,
                vec_sel |-> FALSE, alt_vec |-> 0, stall |-> stall, clken |-> FALSE]
    /\ remap = FALSE
    /\ mem = [c \in Addr |-> Junk]

Executing == reg.sclk /\ reg.cfg /\ reg.clken /\ reg.rst /\ ~reg.stall

Vector == IF reg.vec_sel THEN reg.alt_vec ELSE DefaultVec

Goto(pc) == call' = [call EXCEPT !.pc = pc]

\* A write to the configuration registers.
Cfg(new) == reg' = IF reg.cfg /\ reg.cfg_rst THEN new ELSE reg

\* U-Boot loads another file.
Fatload(img) ==
    /\ call.pc = "idle" /\ ~Executing
    /\ image' = img
    /\ UNCHANGED <<fdt, call, run_ddr, reg, remap, mem>>

(***************************************************************************)
(* sunxi_dsp_init.  It returns at once when the device tree has no DSP, or *)
(* a disabled one; other nodes it can do without.                          *)
(***************************************************************************)
Closed ==
    /\ call.pc = "idle" /\ ~Executing
    /\ fdt.dsp # "okay"
    /\ UNCHANGED vars

Call(run) ==
    /\ call.pc = "idle" /\ ~Executing
    /\ fdt.dsp = "okay"
    /\ call' = [pc |-> "find", msg |-> DtsMsg, seg |-> 1]
    /\ remap' = TRUE
    /\ run_ddr' = IF run = 0 THEN image.entry ELSE run
    /\ UNCHANGED <<image, fdt, reg, mem>>

\* An image that lacks the section, or the segment, is refused.
Refuse ==
    /\ call.pc = "find"
    /\ FindImgSection(image) = 0 \/ HeadSegment(image) = 0
    /\ call' = Idle
    /\ UNCHANGED <<image, fdt, run_ddr, reg, remap, mem>>

SetMsgDts ==
    /\ call.pc = "find"
    /\ FindImgSection(image) # 0
    /\ LET i == HeadSegment(image)  IN
         /\ i # 0
         /\ image' = [image EXCEPT !.phdrs[i].data[DtsCell] = call.msg]
    /\ Goto("clock")
    /\ UNCHANGED <<fdt, run_ddr, reg, remap, mem>>

\* dsp_freq_default_set, the clock gate, and the resets of the registers.
Clock ==
    /\ call.pc = "clock"
    /\ reg' = [reg EXCEPT !.sclk = TRUE, !.cfg = TRUE, !.cfg_rst = TRUE]
    /\ Goto("vector")
    /\ UNCHANGED <<image, fdt, run_ddr, remap, mem>>

SetVector ==
    /\ call.pc = "vector"
    /\ IF run_ddr # DefaultVec
         THEN Cfg([reg EXCEPT !.alt_vec = run_ddr, !.vec_sel = TRUE])
         ELSE UNCHANGED reg
    /\ Goto("stall")
    /\ UNCHANGED <<image, fdt, run_ddr, remap, mem>>

StallSkipped ==
    /\ call.pc = "stall"
    /\ Goto("clken")
    /\ UNCHANGED <<image, fdt, run_ddr, reg, remap, mem>>

Stall ==
    /\ call.pc = "stall"
    /\ Cfg([reg EXCEPT !.stall = TRUE])
    /\ Goto("clken")
    /\ UNCHANGED <<image, fdt, run_ddr, remap, mem>>

ClkEn ==
    /\ call.pc = "clken"
    /\ Cfg([reg EXCEPT !.clken = TRUE])
    /\ Goto("deassert")
    /\ UNCHANGED <<image, fdt, run_ddr, remap, mem>>

Deassert ==
    /\ call.pc = "deassert"
    /\ reg' = [reg EXCEPT !.rst = TRUE]
    /\ Goto("load")
    /\ UNCHANGED <<image, fdt, run_ddr, remap, mem>>

\* One round of load_image.
LoadPhdr ==
    /\ call.pc = "load" /\ call.seg <= Len(image.phdrs)
    /\ LET p == image.phdrs[call.seg]  IN
         mem' = [c \in Addr |-> IF c \in Target(p) /\ (c \in LocalRam => remap)
                                  THEN Loaded(p, c) ELSE mem[c]]
    /\ call' = [call EXCEPT !.seg = @ + 1]
    /\ UNCHANGED <<image, fdt, run_ddr, reg, remap>>

RemapOff ==
    /\ call.pc = "load" /\ call.seg > Len(image.phdrs)
    /\ remap' = FALSE
    /\ Goto("run")
    /\ UNCHANGED <<image, fdt, run_ddr, reg, mem>>

RunNot ==
    /\ call.pc = "run"
    /\ Cfg([reg EXCEPT !.stall = TRUE])
    /\ call' = Idle
    /\ UNCHANGED <<image, fdt, run_ddr, remap, mem>>

Run ==
    /\ call.pc = "run"
    /\ Cfg([reg EXCEPT !.stall = FALSE])
    /\ call' = Idle
    /\ UNCHANGED <<image, fdt, run_ddr, remap, mem>>

Step == Refuse \/ SetMsgDts \/ Clock \/ SetVector \/ Stall \/ ClkEn \/ Deassert
        \/ LoadPhdr \/ RemapOff \/ Run

Next == (\E img \in Image : Fatload(img)) \/ Closed \/ (\E run \in RunDdr : Call(run)) \/ Step

\* A call of sunxi_dsp_init runs to its end.
Spec == Init /\ [][Next]_vars /\ WF_vars(Step)

-----------------------------------------------------------------------------
(***************************************************************************)
(* Whenever the DSP executes, after however many refused images, its local *)
(* RAM is its own again, its reset vector is where it was to start, and    *)
(* every segment of the image that was accepted is in its place: the data, *)
(* the zeros behind the data, and the device tree's message in the header. *)
(***************************************************************************)
RunsTheImage ==
    Executing =>
        /\ ~remap
        /\ Vector = run_ddr
        /\ \A i \in DOMAIN image.phdrs :
             \A c \in Target(image.phdrs[i]) : mem[c] = Loaded(image.phdrs[i], c)

(***************************************************************************)
(* The message the firmware reads, wherever its image's header has been    *)
(* loaded to, says what the device tree says: the shared space is open     *)
(* only when its node is okay and has a "reg", and the addresses and sizes *)
(* in it are those that the "reg" gives and no others.  An open shared     *)
(* space is therefore complete (sharespace_get_config and log_init rely on *)
(* it) when the "reg" has six cells; with fewer it is open all the same.   *)
(***************************************************************************)
TellsTheTree ==
    Executing =>
        LET head == CHOOSE i \in DOMAIN image.phdrs : image.phdrs[i].paddr = FindImgSection(image)
            msg == mem[Pa(image.phdrs[head].paddr) + DtsCell - 1]
        IN  /\ msg.dsp_status = DTS_OPEN
            /\ msg.share.status = DTS_OPEN <=> fdt.share.state = "okay"
            /\ \A k \in 1 .. ShareCells :
                 k \in msg.share.filled <=> msg.share.status = DTS_OPEN /\ k <= fdt.share.cells

(***************************************************************************)
(* An image with the section and its segment is started.                   *)
(***************************************************************************)
Boots == call.pc = "clock" ~> Executing
=============================================================================
