------------------------------ MODULE DbgStops ------------------------------
(***************************************************************************)
(* DEBUGGER.cpp: a stop of the program (DBG_BREAK), the slow trace, the    *)
(* view of the web page, the keyboard of the debugger's screen, and the    *)
(* handler of DBG_POLL, where the result of each request comes in and the  *)
(* next one goes out.                                                      *)
(***************************************************************************)
EXTENDS DbgLoad

Unlimited == -1

(***************************************************************************)
(* The web's view: three reads at each stop, while somebody looks at it;   *)
(* asked again while they come, it is read again at the end.               *)
(***************************************************************************)
WebRefresh(d) ==
  IF ~d.web.active \/ ~d.stopped THEN d
  ELSE IF d.web.pend # 0 THEN [d EXCEPT !.web.again = TRUE]
  ELSE IF QSIZE - Len(d.q) < 8 THEN d
  ELSE QPushAll([d EXCEPT !.web.pend = 3],
                <<Read(Anywhere, "web", 0), Read(Anywhere, "web", 0), Read(Anywhere, "web", 0)>>)

WebResult(d) ==
  IF d.web.pend = 0 THEN d
  ELSE LET e == [d EXCEPT !.web.pend = @ - 1]
       IN  IF e.web.pend = 0 /\ e.web.again THEN WebRefresh([e EXCEPT !.web.again = FALSE]) ELSE e

\* Stopped for good: the FFs out, and what was waiting for the stop.
OnStopped(d) ==
  LET e == IF d.kbd THEN UiPauseQs([d EXCEPT !.kbd = FALSE]) ELSE d
      f == QueueShow(FreeTempBps(QueueRemoveBps(e)))
  IN  WebRefresh(CASE f.sn.pend  -> SnapBegin([f EXCEPT !.sn.pend = FALSE])
                   [] ~f.sn.pend /\ f.cap.pend -> CapBegin([f EXCEPT !.cap.pend = FALSE])
                   [] OTHER      -> UiOnStop(f))

(***************************************************************************)
(* The slow trace: the instruction is read, noted and run with a step; the *)
(* breakpoints are not in memory, and the PC is compared with them.        *)
(***************************************************************************)
TraceRead(d) == QPush(d, Read(d.regs.pc, "trace", 0))

TraceStart(d, n) ==
  IF ~d.stopped THEN d
  ELSE TraceRead(UiRefresh([d EXCEPT !.tr = [@ EXCEPT !.on = TRUE, !.abort = FALSE,
                                               !.left = IF n = 0 THEN Unlimited ELSE n]]))

TraceEnd(d) == OnStopped([d EXCEPT !.tr.on = FALSE, !.tr.valid = TRUE])

TraceBreak(d) ==
  IF (d.why # 4 /\ ~d.foreign) \/ d.tr.abort \/ d.tr.left = 0 \/ BpFind(d, d.regs.pc) # None
  THEN TraceEnd(d) ELSE TraceRead(d)

TraceResult(d) ==
  CASE ~d.tr.on   -> d
    [] d.tr.on /\ d.tr.abort -> TraceEnd(d)
    [] OTHER      -> DbgStep([d EXCEPT !.tr.left = IF @ = Unlimited THEN @ ELSE @ - 1], 1)

(***************************************************************************)
(* on_break2: the step over a breakpoint puts it back and goes on; the     *)
(* trap of LOAD *Z81 starts the load; a trace takes its next step.         *)
(***************************************************************************)
\* A bug: the breakpoint stepped over is not put back.
MOnBreak2(d) ==
  IF d.istep # None /\ d.why = 4 THEN Resumed(QCont([d EXCEPT !.istep = None], TRUE))
  ELSE LET e == TmpStop([d EXCEPT !.istep = None,
                                  !.foreign = d.why = 7 /\ BpFind(d, d.regs.pc) = None])
       IN  CASE e.ld.pending -> LdBegin(FreeTempBps(QueueRemoveBps([e EXCEPT !.foreign = FALSE])))
             [] ~e.ld.pending /\ e.tr.on -> TraceBreak(e)
             [] OTHER -> OnStopped(e)

OnBreak2(d) ==
  IF d.istep # None /\ d.why = 4
  THEN Resumed(QCont(InsertBp([d EXCEPT !.istep = None], d.istep), TRUE))
  ELSE LET e == TmpStop([d EXCEPT !.istep = None,
                                  !.foreign = d.why = 7 /\ BpFind(d, d.regs.pc) = None])
       IN  CASE e.ld.pending -> LdBegin(FreeTempBps(QueueRemoveBps([e EXCEPT !.foreign = FALSE])))
             [] ~e.ld.pending /\ e.tr.on -> TraceBreak(e)
             [] OTHER -> OnStopped(e)

\* DBG_BREAK.  In SLOW the FPGA stops at the entry of the NMI, which is undone.
OnBreak(d, regs, why, snmi) ==
  LET e == UiOnBreak([d EXCEPT !.q = <<>>, !.poll = 0, !.stopped = TRUE, !.ft.stage = 0, !.regs = regs,
                               !.why = why, !.web.pend = 0, !.web.again = FALSE, !.slow = @ \/ snmi])
  IN  IF snmi /\ regs.pc = Nmi THEN QPush(e, Read(StkAddr(regs.sp), "unwind", 0)) ELSE OnBreak2(e)

\* The NMI had pushed the PC: the monitor's registers are put right too.
Unwind(d, ret) == OnBreak2(QSetRegs([d EXCEPT !.regs = [pc |-> ret, sp |-> @.sp + 1]]))

(***************************************************************************)
(* The keyboard: a key counts when it is released, if it was pressed with  *)
(* the screen on.  held: the key down the last time ("all": whatever was   *)
(* down when the screen came); karm: the key that counts when released.    *)
(***************************************************************************)
ToggleBp(d, a) ==
  LET i == BpFind(d, a)
  IN  IF i # None THEN [d EXCEPT !.bps[i].used = FALSE]
      ELSE IF FreeSlot(d) = None THEN d ELSE BpSet(d, FreeSlot(d), a, FALSE)

\* The answer to a prompt is an address.
UiAccept(d, a) ==
  LET e == [d EXCEPT !.ui.pr = "none"]
  IN  CASE d.ui.pr = "go"    -> RunTo(e, a)
        [] d.ui.pr = "bp"    -> ToggleBp(e, a)
        [] d.ui.pr = "trace" -> TraceStart([e EXCEPT !.ui.hist = TRUE], a)
        [] d.ui.pr = "watch" -> QueueCmp([e EXCEPT !.watch = [m |-> 3, a |-> a]], [m |-> 3, a |-> a])
        [] d.ui.pr = "pc"    -> QSetRegs([e EXCEPT !.regs.pc = a, !.foreign = FALSE])

UiLoadLast(d) ==
  IF d.sn.last = EmptyFile \/ SnapBusy(d) \/ LdBusy(d) THEN d ELSE LdBegin(LdPrepare(d, d.sn.last))

Digit == [k \in {"0", "1", "2"} |-> CASE k = "0" -> 0 [] k = "1" -> 1 [] OTHER -> 2]
Prompt == [k \in {"G", "B", "T", "W", "R"} |->
             CASE k = "G" -> "go" [] k = "B" -> "bp" [] k = "T" -> "trace" [] k = "W" -> "watch" [] OTHER -> "pc"]

\* A key with the program's picture on the screen.
ProgKey(d, k) ==
  CASE k = "V" -> UiShow([ViewOff(d) EXCEPT !.ui.want = TRUE])
    [] k = "C" -> DbgContinue(d)
    [] k = "S" -> DbgSnapshot(d, TRUE)
    [] k = "Z" -> DbgSnapshot(d, FALSE)
    [] k = "L" -> UiLoadLast(d)
    [] OTHER   -> d

UiKey(d, k) ==
  IF d.ui.prog THEN ProgKey(d, k)
  ELSE IF d.ui.pr # "none"
  THEN UiRefresh(IF k \in DOMAIN Digit THEN UiAccept(d, Digit[k]) ELSE [d EXCEPT !.ui.pr = "none"])
  ELSE CASE k = "S" -> DbgStep(d, 1)
         [] k = "O" -> QPush(d, Read(d.regs.pc, "stepover", 0))
         [] k = "U" -> QPush(d, Read(StkAddr(d.regs.sp), "stepout", 0))
         [] k = "C" -> DbgContinue(d)
         [] k = "Z" -> DbgSnapshot(d, FALSE)
         [] k = "Q" -> UiProgScreen(d, FALSE)
         [] k = "V" -> UiProgScreen(d, TRUE)
         [] k = "L" -> LET e == UiLoadLast(d) IN IF LdBusy(e) THEN e ELSE UiRefresh(e)
         [] k = "H" -> UiRefresh([d EXCEPT !.ui.hist = ~@])
         [] k \in DOMAIN Prompt -> UiRefresh([d EXCEPT !.ui.pr = Prompt[k]])
         [] OTHER   -> d

KbdResult(d, k) ==
  LET old == d.ui.held
      e == [d EXCEPT !.ui.held = k,
                     !.ui.karm = CASE k = "none" -> "none" [] k = old -> @ [] old = "all" -> "none" [] OTHER -> k]
  IN  IF old # k /\ old # "all" /\ d.ui.karm = old /\ old # "none" /\ (d.ui.shown \/ d.ui.prog) /\ d.stopped
      THEN UiKey(e, old) ELSE e

\* Read every 40 ms while nothing else is going on; here, when it has changed.
KbdFeed(d, key) ==
  IF (~d.ui.shown /\ ~d.ui.prog) \/ ~d.stopped \/ d.tr.on \/ UiBusy(d) \/ ViewBusy(d) \/ SnapBusy(d) \/ LdBusy(d)
     \/ d.q # <<>> \/ key = d.ui.held
  THEN d ELSE QPush(d, In("kbd", "kbd", 0))

(***************************************************************************)
(* on_result.                                                              *)
(***************************************************************************)
BpCheck(d, i, op) ==
  [IF op = "FF" THEN QPushFront(d, Write1(d.bps[i].addr, d.bps[i].orig)) ELSE d EXCEPT !.bps[i].state = 0]

OnResult(d, c) ==
  LET t == d.last.tag
      k == d.last.arg
  IN  CASE t = "bporig"   -> [d EXCEPT !.bps[k].orig = c, !.bps[k].state = 1]
        [] t = "bpcheck"  -> BpCheck(d, k, c)
        [] t = "stepover" -> StepOver(d, c)
        [] t = "stepout"  -> RunTo(d, c)
        [] t = "unwind"   -> Unwind(d, c)
        [] t = "view"     -> ViewResult(d, c)
        [] t \in {"viewsave", "viewcopy"} -> ViewPart(d, t, k, c)
        [] t = "viewsync" -> PokeEnd(d)
        [] t \in {"snmap", "snchroma", "snvid", "snaysel", "snay", "sndirty", "snpokes", "snmem", "snshcmp",
                  "sncolour", "snpage", "snshadow"} -> SnapResult(d, t, k, c)
        [] t \in {"capinfo", "capdata"} -> CapResult(d, t, k, c)
        [] t = "ldsync"   -> LdResult(d)
        [] t = "trace"    -> TraceResult(d)
        [] t \in {"ftptr", "ftring", "ftop"} -> FtResult(d, t)
        [] t = "web"      -> WebResult(d)
        [] t \in {"uipk", "uichroma", "uisave", "uidis", "uistk", "uimem", "uifix"} -> UiResult(d, t, c)
        [] t = "kbd"      -> KbdResult(d, c)
        [] OTHER          -> d

\* What DBG_POLL does before it sends the next request.
NoReq == Req("none", 0, 0, "none", 0)

Answered(d, c) ==
  IF d.poll = 1 THEN d
  ELSE [OnResult(d, c) EXCEPT !.last = NoReq, !.poll = 1]

WebFeed(d) == IF d.web.wake THEN WebRefresh([d EXCEPT !.web.wake = FALSE]) ELSE d

Fed(d, key) == LdFeed(WebFeed(KbdFeed(CapFeed(SnapFeed(d)), key)))

(***************************************************************************)
(* The reset of the Z80.                                                   *)
(***************************************************************************)
DbgReset(d) ==
  UiDrop(ViewDrop([LdCancel(d) EXCEPT
    !.kbd = FALSE, !.cleared = TRUE, !.watch = [m |-> 0, a |-> 0], !.slow = FALSE, !.cmptmp = FALSE,
    !.stopped = FALSE, !.poll = 0, !.q = <<>>, !.istep = None,
    !.bps = [i \in BpIds |-> IF @[i].used /\ @[i].state = 1 THEN [@[i] EXCEPT !.state = 2] ELSE @[i]]]))
=============================================================================
