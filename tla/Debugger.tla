------------------------------ MODULE Debugger ------------------------------
(***************************************************************************)
(* The hardware debugger: the STM32 (d, DEBUGGER.cpp), the Z80 with its    *)
(* FPGA and the monitor (z), and the machine the program would have        *)
(* without a debugger (g), which runs the same instructions and takes what *)
(* the user changes on purpose.  job: what the user will do, in order, and *)
(* how the program was when the monitor was loaded; lost: no stop since a  *)
(* reset.                                                                  *)
(***************************************************************************)
EXTENDS DbgStops

CONSTANTS Jobs,         \* [mem, nmi, vid, pk, chroma, c128, lock, cmds]
          Files,        \* snapshots on the card, by number
          DRAINED       \* the user waits for the debugger to have finished

VARIABLES d, z, g, job

vars == <<d, z, g, job>>

(***************************************************************************)
(* The start: the monitor loaded, the program running.                     *)
(***************************************************************************)
NoPk == [m |-> Never, h |-> Never, alt |-> Never]

Machine(j) ==
  [mem |-> j.mem, pc |-> 0, sp |-> MaxSp + 1, stk |-> [k \in 1..MaxSp |-> 0], nmi |-> j.nmi, dat |-> "dat",
   p0 |-> <<"rom", NoPk>>, p2 |-> <<"zero", "zero">>, dirty |-> FALSE, map |-> "map0",
   sh |-> [c \in Cells |-> CASE c = 0 -> "rom" [] c = PkCell -> j.pk [] c \in 2..3 -> "=" [] OTHER -> "col"],
   vid |-> j.vid, chroma |-> j.chroma, ay |-> [v |-> "tune", sel |-> 7]]

NoCmp == [m |-> 0, a |-> 0]

Z80Start(m) ==
  [st |-> "run", m |-> m, reg |-> [pc |-> 0, sp |-> 1], why |-> 0, snmi |-> FALSE, steps |-> -1, pause |-> FALSE,
   src |-> 0, cmp |-> NoCmp, watch |-> FALSE, skip |-> FALSE, spin |-> FALSE, ptr |-> 0, idx |-> 0, seti |-> 0,
   key |-> "none", req |-> [op |-> "none"], res |-> "none"]

DebuggerStart(j) ==
  [q |-> <<>>, poll |-> 0, last |-> NoReq, stopped |-> FALSE, regs |-> [pc |-> 0, sp |-> 1], why |-> 0,
   slow |-> FALSE, foreign |-> FALSE, istep |-> None, cmptmp |-> FALSE, watch |-> NoCmp,
   bps |-> [i \in BpIds |-> NoBp], relock |-> FALSE, kbd |-> FALSE, cleared |-> FALSE,
   cfg |-> [poke |-> FALSE, lock |-> j.lock, c128 |-> j.c128, tgl |-> 0],
   vw |-> [on |-> FALSE, hr |-> FALSE, aligned |-> TRUE, copied |-> FALSE, copying |-> FALSE, pk |-> NoPk,
           map |-> <<"none", "none">>, save |-> <<"none", "none">>],
   ui |-> [want |-> FALSE, shown |-> FALSE, entering |-> FALSE, abort |-> FALSE, applied |-> FALSE,
           apend |-> FALSE, seti |-> FALSE, fix |-> FALSE, pend |-> 0, prog |-> FALSE, progv |-> FALSE,
           df |-> "none", save |-> "none", pk |-> NoPk, chroma |-> "off", c128 |-> FALSE, hist |-> FALSE,
           dis |-> 0, held |-> "none", karm |-> "none", pr |-> "none"],
   ft |-> [stage |-> 0, purpose |-> 0],
   sn |-> [stage |-> "off", resume |-> FALSE, pend |-> FALSE, n |-> 0, diff |-> FALSE, blk |-> 0, page |-> 0,
           vid |-> NoPk, dirty |-> FALSE, file |-> EmptyFile, last |-> EmptyFile],
   cap |-> [stage |-> "idle", resume |-> FALSE, pend |-> FALSE, chroma |-> "off", vid |-> NoPk, pk |-> NoPk,
            plan |-> <<>>, qr |-> 1, qo |-> 0, rr |-> 1, ro |-> 0, doc |-> <<>>],
   ld |-> [pending |-> FALSE, stage |-> "off", file |-> EmptyFile, page |-> 0, old |-> FALSE,
           buf |-> [k \in 0..LDNBUF - 1 |-> Both("none")], next |-> 0],
   tr |-> [on |-> FALSE, left |-> 0, abort |-> FALSE, valid |-> FALSE],
   web |-> [active |-> FALSE, pend |-> 0, again |-> FALSE, wake |-> FALSE]]

Init ==
  \E j \in Jobs :
    /\ job = j @@ [lost |-> FALSE]
    /\ g = Machine(j)
    /\ z = Z80Start(Machine(j))
    /\ d = DebuggerStart(j)

(***************************************************************************)
(* The program without a debugger.                                         *)
(***************************************************************************)
\* A loaded file: the POKEs it has not are the reset's; without [COLOUR] the
\* memory goes on over the colours' block.
Target(f, m) ==
  LET has(field) == f[field][2] # NoPart
      col == IF has("col") THEN f.col ELSE <<"=", "=">>
      b1 == IF has("sh1") THEN f.sh1 ELSE <<"=", "=">>
      b0 == IF has("sh0") THEN f.sh0 ELSE <<IF has("p0") THEN f.p0[1] ELSE m.sh[0], f.pk>>
      page1 == IF has("p1") THEN f.p1 ELSE f.mem
  IN  [m EXCEPT
        !.pc = f.pc, !.sp = f.sp, !.nmi = f.nmi, !.mem = page1[1], !.dat = page1[2].dat, !.stk = page1[2].stk,
        !.map = IF f.map = NoPart THEN @ ELSE f.map, !.chroma = IF f.chroma = NoPart THEN @ ELSE f.chroma,
        !.ay = IF f.ay.v = NoPart THEN [v |-> "silent", sel |-> 15] ELSE f.ay,
        !.p0 = IF has("p0") THEN f.p0 ELSE @, !.p2 = IF has("p2") THEN f.p2 ELSE @, !.dirty = has("p2"),
        !.sh = <<b0[2], b1[1], b1[2], col[1], col[2]>> @@ (0 :> b0[1]),
        !.vid = [m |-> Value(f.pk, "m", Off), h |-> Value(f.pk, "h", 0), alt |-> Value(f.pk, "alt", Off)]]

Began(e) == ~LdBusy(d) /\ LdBusy(e)
Emulated(e) == d.foreign /\ d.stopped /\ ~e.stopped
PcAnswered(e) == d.ui.pr = "pc" /\ e.ui.pr = "none" /\ e.stopped

GhostAfter(e) ==
  CASE Began(e)    -> Target(e.ld.file, g)
    [] Emulated(e) -> Exec(g, "FF", FALSE)
    [] PcAnswered(e) -> [g EXCEPT !.pc = e.regs.pc]
    [] OTHER       -> g

\* The lines to the FPGA that change at once: the pause and the written pages.
Lines(e) ==
  LET p == IF e.cfg.tgl # d.cfg.tgl THEN Paused(z, 1) ELSE z
  IN  IF e.cleared THEN [p EXCEPT !.m.dirty = FALSE] ELSE p

Settled(e) == [e EXCEPT !.cleared = FALSE]

(***************************************************************************)
(* The program.  While a breakpoint is in the memory, the program does not *)
(* rewrite that instruction.                                               *)
(***************************************************************************)
Keep == \E i \in BpIds : d.bps[i].used /\ d.bps[i].addr = 2 /\ z.m.mem[2] = "FF"

Running == z.st = "run" /\ z.m.pc # Stub

Instruction ==
  /\ Running
  /\ ~(Breaks(z) /\ BreakOk(z)) /\ z.m.mem[z.m.pc] # "FF" /\ ~z.spin
  /\ z' = Ran(z, Keep)
  /\ g' = Exec(g, g.mem[g.pc], Keep)
  /\ UNCHANGED <<d, job>>

StubStep ==
  /\ z.st = "run" /\ z.m.pc = Stub
  /\ z' = StubRan(z)
  /\ UNCHANGED <<d, g, job>>

\* In SLOW, an FF waits for the NMI.
Hold ==
  /\ Running /\ Breaks(z) /\ ~BreakOk(z) /\ z.m.mem[z.m.pc] = "FF" /\ ~z.spin
  /\ z' = Spun(z)
  /\ UNCHANGED <<d, g, job>>

Interrupt ==
  /\ Running /\ z.m.nmi /\ z.m.pc # Nmi /\ CanPush(z.m)
  /\ z' = Interrupted(z)
  /\ g' = [Pushed(g, g.pc) EXCEPT !.pc = Nmi]
  /\ UNCHANGED <<d, job>>

\* The NMI at whose entry it stops is undone.
Break ==
  /\ Running /\ Breaks(z) /\ BreakOk(z)
  /\ z' = Taken(z)
  /\ g' = IF z.m.nmi THEN Popped(g) ELSE g
  /\ UNCHANGED <<d, job>>

(***************************************************************************)
(* The monitor and the debugger.                                           *)
(***************************************************************************)
Stop ==
  /\ z.st = "brk"
  /\ \E e \in {OnBreak(d, z.reg, z.why, z.snmi)} :
       /\ d' = Settled(e)
       /\ z' = [Lines(e) EXCEPT !.st = "poll", !.res = "none"]
       /\ g' = GhostAfter(e)
  /\ job' = [job EXCEPT !.lost = FALSE]

\* What tells that a handler has done something.
Progress == <<z.st, d.poll, d.ld.stage, d.ld.page, d.web.wake>>

\* DBG_POLL: the result, and the next request when there is one.
Poll ==
  /\ z.st = "poll"
  /\ \E e \in {Fed(Answered(d, z.res), z.key)} :
       /\ IF e.q = <<>>
          THEN d' = Settled(e) /\ z' = Lines(e)
          ELSE /\ d' = [Settled(e) EXCEPT !.poll = 0, !.q = Tail(@), !.last = Head(e.q)]
               /\ z' = [Lines(e) EXCEPT !.st = "exec", !.req = Sent(e, Head(e.q)), !.res = "none"]
       /\ g' = GhostAfter(e)
       /\ Progress' # Progress
  /\ UNCHANGED job

Obey ==
  /\ z.st = "exec"
  /\ z' = Obeyed(z, d.cfg)
  /\ UNCHANGED <<d, g, job>>

(***************************************************************************)
(* The user.  A command is <<name, argument>>.                             *)
(***************************************************************************)
\* dbg_waiting, and the program going on freely.
Waiting ==
  /\ d.stopped /\ d.poll = 1 /\ d.q = <<>>
  /\ ~SnapBusy(d) /\ ~LdBusy(d) /\ ~ViewBusy(d) /\ ~UiBusy(d)

Free == ~d.stopped /\ z.st = "run" /\ z.steps = -1 /\ d.istep = None /\ ~d.tr.on /\ ~d.ld.pending

\* Commands for a stopped program.
ViewToggle(e, a) ==
  IF e.ui.shown THEN e
  ELSE IF e.vw.on THEN ViewOff(e)
  ELSE ViewRequest(e, a # 0, a = 1)

UiToggle(e) ==
  IF e.ui.shown THEN UiRun([e EXCEPT !.ui.want = FALSE]) ELSE UiShow([e EXCEPT !.ui.want = TRUE])

SetBp(e, a) == IF BpFind(e, a) # None \/ FreeSlot(e) = None THEN e ELSE [e EXCEPT !.bps[FreeSlot(e)] = [@ EXCEPT !.used = TRUE, !.addr = a, !.state = 0]]
ClearBps(e, a) == [e EXCEPT !.bps = [i \in BpIds |-> IF a \in Code /\ i # BpFind(e, a) THEN @[i] ELSE [@[i] EXCEPT !.used = FALSE]]]

\* w, with an address or without.
Watch(e, a) == LET w == IF a = None THEN NoCmp ELSE [m |-> 3, a |-> a] IN QueueCmp([e EXCEPT !.watch = w], w)

StoppedCommand(e, c, a) ==
  CASE c = "r"  -> QueueShow(e)
    [] c = "c"  -> DbgContinue(e)
    [] c = "s"  -> DbgStep(e, a)
    [] c = "b"  -> SetBp(e, a)
    [] c = "bc" -> ClearBps(e, a)
    [] c = "v"  -> ViewToggle(e, a)
    [] c = "ui" -> UiToggle(e)
    [] c = "g"  -> RunTo(e, a)
    [] c = "o"  -> QPush(e, Read(e.regs.pc, "stepover", 0))
    [] c = "u"  -> QPush(e, Read(StkAddr(e.regs.sp), "stepout", 0))
    [] c = "w"  -> Watch(e, a)
    [] c = "m"  -> QPush(e, Read(Anywhere, "dump", 0))
    [] c = "io" -> QPush(e, In("free", "in", 0))
    [] c = "e"  -> QPush(e, Write1(a, "nop"))
    [] c = "x"  -> QSetRegs([e EXCEPT !.regs.pc = a, !.foreign = FALSE])

\* dbg_console: the order of its refusals.
Console(e, c, a) ==
  CASE e.tr.on -> [e EXCEPT !.tr.abort = TRUE]
    [] ~e.tr.on /\ (SnapBusy(e) \/ LdBusy(e) \/ ViewBusy(e) \/ e.ui.entering) -> e
    [] OTHER ->
       CASE c = "p"    -> IF e.stopped THEN e ELSE DbgPause(e)
         [] c = "cap"  -> DbgCapStart(e)
         [] c = "snap" -> DbgSnapshot(e, FALSE)
         [] c = "sym"  -> WebRefresh(IF e.stopped THEN UiRefresh(e) ELSE e)
         [] c = "ui" /\ ~e.stopped -> [e EXCEPT !.ui.want = ~@]
         [] c # "ui" /\ ~e.stopped -> e
         [] c = "t"  /\ e.stopped -> TraceStart(e, a)
         [] c = "th" /\ e.stopped -> IF e.tr.valid \/ e.ft.stage # 0 THEN e ELSE FtFetch(e, 1)
         [] OTHER -> LET f == StoppedCommand(e, c, a)
                     IN  WebRefresh(IF f.stopped THEN UiRefresh(f) ELSE f)

\* The QS button: held 1 s, pause or continue (a = 1); 3 s, snapshot (a = 3).
QsButton(e, a) ==
  IF SnapBusy(e) \/ LdBusy(e) \/ ViewBusy(e) \/ e.ui.entering THEN e
  ELSE IF a = 3 THEN DbgSnapshot(e, ~e.stopped)
  ELSE IF e.tr.on THEN [e EXCEPT !.tr.abort = TRUE]
  ELSE IF e.stopped THEN DbgContinue(e)
  ELSE DbgPause([e EXCEPT !.kbd = TRUE])

Applied(e, c, a) ==
  CASE c = "qs"  -> QsButton(e, a)
    [] c = "web" -> [e EXCEPT !.web.active = TRUE, !.web.wake = TRUE]
    [] OTHER     -> Console(e, c, a)

\* When the user does it: pauses while it runs, snapshots and captures also,
\* the rest while it is stopped.
Ready(c) ==
  CASE c = "p"                   -> ~d.stopped /\ z.st = "run"
    [] c = "abort"               -> d.tr.on
    [] c \in {"snap", "cap", "qs", "uirun"} -> (DRAINED /\ d.stopped => Waiting) /\ (~d.stopped => Free)
    [] c = "web"                 -> TRUE
    [] OTHER                     -> d.stopped /\ z.st # "run" /\ (DRAINED => Waiting)

Given == [job EXCEPT !.cmds = Tail(@)]
Order == Head(job.cmds)

Command ==
  /\ job.cmds # <<>> /\ Order[1] \notin {"key", "load", "reset"} /\ Ready(Order[1])
  /\ LET c == CASE Order[1] = "abort" -> "r" [] Order[1] = "uirun" -> "ui" [] OTHER -> Order[1]
     IN  \E e \in {Applied(d, c, Order[2])} :
           /\ d' = Settled(e)
           /\ z' = Lines(e)
           /\ g' = CASE c = "e" -> [g EXCEPT !.mem[Order[2]] = "nop"]
                     [] c = "x" -> [g EXCEPT !.pc = Order[2]]
                     [] OTHER   -> GhostAfter(e)
  /\ job' = Given

\* A key of the ZX81, pressed with the screen on, and released.
Press ==
  /\ job.cmds # <<>> /\ Order[1] = "key" /\ z.key = "none"
  /\ d.stopped /\ Waiting /\ (d.ui.shown \/ d.ui.prog) /\ d.ui.held = "none"
  /\ z' = [z EXCEPT !.key = Order[2]]
  /\ UNCHANGED <<d, g, job>>

Release ==
  /\ z.key # "none" /\ d.ui.held = z.key
  /\ z' = [z EXCEPT !.key = "none"]
  /\ job' = Given
  /\ UNCHANGED <<d, g>>

\* LOAD *Z81 in the program: the file is read, and the ROM springs the trap.
\* File 0 is the last snapshot written.
Load ==
  /\ job.cmds # <<>> /\ Order[1] = "load" /\ Free
  /\ LET f == IF Order[2] = 0 THEN d.sn.last ELSE Files[Order[2]]
     IN  /\ f # EmptyFile
         /\ d' = LdPrepare(d, f)
         /\ z' = IF d'.ld.pending THEN Paused(z, 3) ELSE z
  /\ job' = Given
  /\ UNCHANGED g

\* The reset of the Z80: the FPGA loses the POKEs, the shadow does not; the
\* pages written count from here.
AfterReset(m) ==
  [m EXCEPT !.pc = 0, !.sp = MaxSp + 1, !.nmi = job.nmi, !.vid = [m |-> Off, h |-> 0, alt |-> Off],
            !.chroma = "off", !.dirty = FALSE]

Reset ==
  /\ job.cmds # <<>> /\ Order[1] = "reset"
  /\ IF d.stopped THEN Waiting ELSE Free
  /\ d' = Settled(DbgReset(d))
  /\ z' = [Z80Start(AfterReset(z.m)) EXCEPT !.key = z.key, !.seti = z.seti]
  /\ g' = AfterReset(g)
  /\ job' = [Given EXCEPT !.c128 = d.cfg.c128, !.lost = TRUE]

Next ==
  \/ Instruction \/ StubStep \/ Hold \/ Interrupt \/ Break
  \/ Stop \/ Poll \/ Obey
  \/ Command \/ Press \/ Release \/ Load \/ Reset

Spec == Init /\ [][Next]_vars
=============================================================================
