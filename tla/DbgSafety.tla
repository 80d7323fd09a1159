------------------------------ MODULE DbgSafety ------------------------------
(***************************************************************************)
(* What the debugger promises.                                             *)
(***************************************************************************)
EXTENDS Debugger

\* The instructions of the program behind the FFs of the breakpoints: in the
\* memory for sure (1), or, since a reset, perhaps (2).
Behind(mem) ==
  [a \in Code |->
     LET i == BpFind(d, a)
     IN  IF i # None /\ mem[a] = "FF" /\ d.bps[i].state \in {1, 2} THEN d.bps[i].orig ELSE mem[a]]

(***************************************************************************)
(* The program does not notice the debugger: whenever it runs, its         *)
(* registers, its stack and its code (behind the breakpoints) are those it *)
(* would have alone, whatever stops, steps, breakpoints, RSTs of its own   *)
(* done by the MCU, and interrupts undone there were.                      *)
(***************************************************************************)
Transparent ==
  z.st = "run" /\ z.m.pc # Stub =>
    /\ z.m.pc = g.pc /\ LiveStack(z.m) = LiveStack(g)
    /\ Behind(z.m.mem) = g.mem
    /\ z.m.dat = g.dat /\ z.m.p0 = g.p0 /\ z.m.p2 = g.p2 /\ z.m.map = g.map /\ z.m.ay = g.ay
    /\ ~d.slow => z.m.nmi = g.nmi

(***************************************************************************)
(* The picture: while the program runs for good (a step may keep the       *)
(* debugger's picture), the FPGA's video, the shadow, the colours and the  *)
(* characters are the program's, the POKEs cannot be reached by order 10,  *)
(* and ROMLOCK is as it was.                                               *)
(***************************************************************************)
VideoRestored ==
  z.st = "run" /\ z.m.pc # Stub /\ z.steps = -1 /\ ~d.ui.fix =>
    /\ z.m.vid = g.vid /\ z.m.sh = g.sh /\ z.m.chroma = g.chroma /\ z.m.dirty = g.dirty
    /\ ~d.cfg.poke /\ d.cfg.lock = job.lock /\ d.cfg.c128 = job.c128

(***************************************************************************)
(* A breakpoint is not passed by a program that runs for good, even when   *)
(* it stopped there before: the step over it is one instruction, and the   *)
(* FF is back before the rest.                                             *)
(***************************************************************************)
NeverPassed ==
  [][z.st = "run" /\ z.steps = -1 /\ z'.m.pc # Nmi /\ z.m.pc # Stub /\ Len(job.cmds) = Len(job'.cmds)
       => job.lost \/ BpFind(d, z.m.pc) = None]_(z.m)

(***************************************************************************)
(* A snapshot, when its file is closed, is the program: as it was stopped, *)
(* with its own video and not the debugger's, and without what the         *)
(* debugger had written in its memory.                                     *)
(***************************************************************************)
Differs == \E c \in 2..3 : g.sh[c] # "="

Image ==
  [EmptyFile EXCEPT
     !.pc = g.pc, !.sp = g.sp, !.nmi = g.nmi, !.map = g.map, !.chroma = g.chroma, !.ay = g.ay,
     !.pk = Fixed(g.sh[PkCell], g.vid), !.mem = <<g.mem, "stack">>, !.col = <<g.sh[4], g.sh[5]>>,
     !.p0 = IF g.p0[1] = "rom" THEN Absent ELSE g.p0, !.p1 = <<g.mem, "stack">>,
     !.p2 = IF g.dirty THEN g.p2 ELSE Absent,
     !.sh0 = IF g.sh[0] = "rom" THEN Absent ELSE <<g.sh[0], g.sh[1]>>,
     !.sh1 = IF Differs THEN <<g.sh[2], g.sh[3]>> ELSE Absent]

SnapExact ==
  [][d.sn.stage # "off" /\ d'.sn.stage = "off" =>
       LET f == d'.sn.last
       IN  /\ [f EXCEPT !.mem[2] = "stack", !.p1[2] = "stack"] = Image
           /\ f.mem[2] = f.p1[2] /\ f.mem[2].dat = g.dat
           /\ LiveStack([g EXCEPT !.stk = f.mem[2].stk]) = LiveStack(g)]_(d.sn.stage)

(***************************************************************************)
(* A capture is the program's picture.                                     *)
(***************************************************************************)
Picture ==
  (IF g.vid.m = SuperHr THEN <<g.sh[2], g.sh[3]>> ELSE <<g.sh[2]>>)
  \o (IF g.chroma = "on" THEN <<g.sh[4]>> ELSE <<>>)

CapExact == [][d'.cap.stage = "ready" /\ d.cap.stage # "ready" => d'.cap.doc = Picture]_(d.cap.stage)

\* What the debugger writes to the card of a program, put together over many
\* polls (snap_begin, snap_result, dbg_cap_start): exact, both.
CopiesExact == SnapExact /\ CapExact

(***************************************************************************)
(* What the debugger has begun ends: when a DBG_POLL has nothing to ask    *)
(* for, no snapshot, capture, load, copy of a bitmap or drawing of the     *)
(* screen is half done, and commands are not refused for ever.             *)
(***************************************************************************)
NothingHalfDone ==
  z.st = "poll" /\ d.poll = 1 /\ d.q = <<>> =>
    LET f == Fed(d, z.key)
    IN  f.q = <<>> /\ <<f.ld.stage, f.ld.page, f.web.wake>> = <<d.ld.stage, d.ld.page, d.web.wake>> => Waiting
=============================================================================
