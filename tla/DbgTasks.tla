------------------------------ MODULE DbgTasks ------------------------------
(***************************************************************************)
(* DEBUGGER.cpp: going on with the program (dbg_continue, run_to,          *)
(* step_over) and the long tasks of a stopped program, which take many     *)
(* requests: a snapshot (d.sn), a screen capture (d.cap) and the loading   *)
(* of a snapshot (d.ld).  A file is a record of its sections; a section    *)
(* that is not in it is NoPart.                                            *)
(***************************************************************************)
EXTENDS DbgVideo

CONSTANTS SNAPINFLIGHT,      \* SNAP_INFLIGHT: requests of a snapshot in the queue
          LDNBUF,            \* LD_NBUF: chunk buffers of a load
          NoPart             \* what is not in a file

Absent == <<NoPart, NoPart>>
EmptyFile == [pc |-> 0, sp |-> 0, nmi |-> FALSE, map |-> NoPart, chroma |-> NoPart,
              ay |-> [v |-> NoPart, sel |-> 0], pk |-> [m |-> Never, h |-> Never, alt |-> Never],
              mem |-> Absent, col |-> Absent, p0 |-> Absent, p1 |-> Absent, p2 |-> Absent,
              sh0 |-> Absent, sh1 |-> Absent]

(***************************************************************************)
(* c: the program's video, its breakpoints, and CONT; with a breakpoint at *)
(* the PC, first a step without it (internal_step).                        *)
(***************************************************************************)
InternalStep(d, i) == [QueueSteps(d, 1) EXCEPT !.istep = i]

Onward(d, at) ==
  IF at = None THEN Resumed(QCont(QueueInsertBps(d, None), TRUE))
  ELSE Resumed(QCont(InternalStep(QueueInsertBps(d, at), at), FALSE))

\* With the PC where the RST done by the MCU leaves it.
Continued(d) == Onward(d, BpFind(d, d.regs.pc))
DbgContinue(d) == Continued(EmulateForeign(UiRun(ViewOff(d))))

\* g, and o over a call, and u: the comparator if it is free and the program
\* is not SLOW, or a temporary breakpoint.
RunTo(d, a) ==
  IF ~d.slow /\ d.watch.m = 0
  THEN DbgContinue([QueueCmp(d, [m |-> 1, a |-> a]) EXCEPT !.cmptmp = TRUE])
  ELSE IF BpFind(d, a) # None THEN DbgContinue(d)
  ELSE IF FreeSlot(d) = None THEN d
  ELSE DbgContinue(BpSet(d, FreeSlot(d), a, TRUE))

StepOver(d, op) == IF op \in {"call", "FF"} THEN RunTo(d, Next3(d.regs.pc)) ELSE DbgStep(d, 1)

\* The FPGA reacts to the change of the bit.
DbgPause(d) == [d EXCEPT !.cfg.tgl = 1 - @]

CapActive(d) == d.cap.stage \in {"info", "data"}
SnapBusy(d) == d.sn.stage # "off" \/ CapActive(d)
LdBusy(d) == d.ld.stage # "off"
ViewBusy(d) == d.vw.copying
UiBusy(d) == d.ui.entering \/ d.ui.pend > 0

(***************************************************************************)
(* A snapshot: what the FPGA says, the POKEs, [MEMORY] compared with its   *)
(* shadow, [COLOUR], the pages mapped or written, and the shadow that is   *)
(* not [MEMORY].  The registers are those of the stop.                     *)
(***************************************************************************)
SnapBegin(d) ==
  QPushAll([d EXCEPT !.sn = [@ EXCEPT !.stage = "info", !.n = 0, !.diff = FALSE,
                               !.file = [EmptyFile EXCEPT !.pc = d.regs.pc, !.sp = d.regs.sp, !.nmi = d.slow]]],
           <<In("map", "snmap", 0), Out("idx", 3), In("dbg", "snchroma", 0), Out("idx", 9), In("dbg", "snvid", 0),
             Out("idx", 4), In("dbg", "snaysel", 0), Req("AYREAD", "ay", 0, "snay", 0),
             Out("idx", 6), InSeq("sndirty", 0)>>
           \o PtrIdx(PkCell) \o <<InSeq("snpokes", 0)>>)

\* A bug: the picture of v goes into the snapshot.
MDbgSnapshot(d, resume) ==
  IF SnapBusy(d) THEN d
  ELSE LET e == UiHide([d EXCEPT !.sn.resume = resume])
       IN  IF e.stopped THEN SnapBegin(e) ELSE DbgPause([e EXCEPT !.sn.pend = TRUE])

DbgSnapshot(d, resume) ==
  IF SnapBusy(d) THEN d
  ELSE LET e == UiHide(ViewOff([d EXCEPT !.sn.resume = resume]))
       IN  IF e.stopped THEN SnapBegin(e) ELSE DbgPause([e EXCEPT !.sn.pend = TRUE])

\* The next of the two chunks of a stage, if the queue has room.
SnapAsk(d, reqs) ==
  IF d.sn.n = 2 \/ Len(d.q) >= SNAPINFLIGHT THEN d
  ELSE QPushAll([d EXCEPT !.sn.n = @ + 1], reqs[d.sn.n + 1])

SnapFeed(d) ==
  LET mem == << <<Read(Ram1, "snmem", 1), InSeq("snshcmp", 1)>>, <<Read(Ram2, "snmem", 2), InSeq("snshcmp", 2)>> >>
      seq(tag) == << <<InSeq(tag, 1)>>, <<InSeq(tag, 2)>> >>
      page == [k \in 1..2 |-> <<[Req("READP", d.sn.page, 0, "snpage", k) EXCEPT !.k = k]>>]
      ask(reqs) == SnapAsk(SnapAsk(d, reqs), reqs)
  IN  CASE d.sn.stage = "mem"    -> ask(mem)
        [] d.sn.stage = "colour" -> ask(seq("sncolour"))
        [] d.sn.stage = "pages"  -> ask(page)
        [] d.sn.stage = "shadow" -> ask(seq("snshadow"))
        [] OTHER                 -> d

SnapStage(d, stage, ptr) ==
  QPushAll([d EXCEPT !.sn.stage = stage, !.sn.n = 0], IF ptr = None THEN <<>> ELSE PtrTo(ptr))

\* The file is complete: go on if it was running, or show the screen again.
SnapFinish(d) ==
  LET e == [d EXCEPT !.sn.stage = "off", !.sn.last = d.sn.file]
  IN  IF e.sn.resume THEN DbgContinue(e) ELSE UiOnStop(e)

\* The shadow of block 0 always, and of [MEMORY] when it differs.
SnapShadowNext(d, blk) ==
  CASE blk = 0             -> SnapStage([d EXCEPT !.sn.blk = 0], "shadow", 0)
    [] blk = 1 /\ d.sn.diff -> SnapStage([d EXCEPT !.sn.blk = 1], "shadow", B1Cell)
    [] OTHER               -> SnapFinish(d)

\* The mapped pages and the written ones: 0 and 1, and 2.
SnapNextPage(d, p) ==
  IF p <= 1 \/ (p = 2 /\ d.sn.dirty)
  THEN SnapStage([d EXCEPT !.sn.page = p], "pages", None)
  ELSE SnapShadowNext(d, 0)

\* snap_fix_pokes: what the FPGA says rules over the last POKEs written.
Fixed(pk, vid) == [pk EXCEPT !.m = vid.m, !.alt = vid.alt]

\* A chunk of a section has come.
SnapGot(d, field, k, c) == [d EXCEPT !.sn.file = [@ EXCEPT ![field] = [@ EXCEPT ![k] = c]]]

Section(p) == CASE p = 0 -> "p0" [] p = 1 -> "p1" [] OTHER -> "p2"

\* A section that is the ROM's is not written: page_is_rom, shadow0_is_rom.
DropRom(d, field) ==
  IF d.sn.file[field][1] = "rom" THEN [d EXCEPT !.sn.file = [@ EXCEPT ![field] = Absent]] ELSE d

SnapPage(d, k, c) ==
  LET e == SnapGot(d, Section(d.sn.page), k, c)
  IN  IF k # 2 THEN e ELSE SnapNextPage(IF d.sn.page = 0 THEN DropRom(e, "p0") ELSE e, d.sn.page + 1)

SnapShadow(d, k, c) ==
  LET e == SnapGot(d, IF d.sn.blk = 0 THEN "sh0" ELSE "sh1", k, c)
  IN  IF k # 2 THEN e ELSE SnapShadowNext(IF d.sn.blk = 0 THEN DropRom(e, "sh0") ELSE e, d.sn.blk + 1)

\* "=" in the shadow: the byte of the memory.
SnapCompare(d, k, c) ==
  LET e == [d EXCEPT !.sn.diff = @ \/ c # "="]
  IN  IF k = 2 THEN SnapStage(e, "colour", ColCell) ELSE e

SnapResult(d, tag, k, c) ==
  CASE tag = "snmap"    -> [d EXCEPT !.sn.file.map = c]
    [] tag = "snchroma" -> [d EXCEPT !.sn.file.chroma = c]
    [] tag = "snvid"    -> [d EXCEPT !.sn.vid = c]
    [] tag = "snaysel"  -> [d EXCEPT !.sn.file.ay.sel = c]
    [] tag = "snay"     -> QPush([d EXCEPT !.sn.file.ay.v = c], Out("aysel", d.sn.file.ay.sel))
    [] tag = "sndirty"  -> [d EXCEPT !.sn.dirty = c]
    [] tag = "snpokes"  -> SnapStage([d EXCEPT !.sn.file.pk = Fixed(c, d.sn.vid)], "mem", B1Cell)
    [] tag = "snmem"    -> SnapGot(d, "mem", k, c)
    [] tag = "snshcmp"  -> SnapCompare(d, k, c)
    [] tag = "sncolour" -> LET e == SnapGot(d, "col", k, c) IN IF k = 2 THEN SnapNextPage(e, 0) ELSE e
    [] tag = "snpage"   -> SnapPage(d, k, c)
    [] tag = "snshadow" -> SnapShadow(d, k, c)
=============================================================================
