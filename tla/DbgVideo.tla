------------------------------ MODULE DbgVideo ------------------------------
(***************************************************************************)
(* DEBUGGER.cpp, what the debugger does with the program's picture: the v  *)
(* command (the program's screen while it is stopped), the debugger's own  *)
(* screen with its keyboard, and the FPGA's history that screen may show.  *)
(* All of it borrows the FPGA's video registers and the shadow BRAM, and   *)
(* gives them back before the program goes on.                             *)
(*   d.vw  the v command;  d.ui  the screen;  d.ft  the history            *)
(***************************************************************************)
EXTENDS DbgQueue

SuperText == 170
SuperHr == 171
Wide80 == 174
Off == 85
\* The HFILE of a bitmap brought by "v addr".
ViewBlock == 7

(***************************************************************************)
(* v: first the POKEs as the shadow has them, then the video.  A bitmap    *)
(* that is not at the start of a block is copied over the shadow of its    *)
(* block, which is read before.                                            *)
(***************************************************************************)
ViewDrop(d) == [d EXCEPT !.vw.on = FALSE, !.vw.copying = FALSE]

ViewRequest(d, hr, aligned) ==
  QPushAll([d EXCEPT !.vw.hr = hr, !.vw.aligned = aligned], PtrIdx(PkCell) \o <<InSeq("view", 0)>>)

ViewApply(d) ==
  LET e == PokeBegin(d)
      f == QPush(e, PokeReq(IF d.vw.hr THEN << <<"2043", ViewBlock>>, <<"2045", SuperHr>> >>
                                       ELSE << <<"2045", SuperText>> >>))
  IN  [QPush(f, Sync) EXCEPT !.vw.on = TRUE]

ViewResult(d, pk) ==
  IF ~d.vw.hr /\ pk.m \in 170..174 THEN d              \* already Superfast
  ELSE LET e == [d EXCEPT !.vw.pk = pk, !.vw.copied = d.vw.hr /\ ~d.vw.aligned]
       IN  IF ~e.vw.copied THEN ViewApply(e)
           ELSE QPushAll([e EXCEPT !.vw.copying = TRUE],
                         PtrIdx(B1Cell) \o <<InSeq("viewsave", 1), InSeq("viewsave", 2),
                                             Read(Anywhere, "viewcopy", 1), Read(Anywhere, "viewcopy", 2)>>)

ViewBuf(which, k) == [buf |-> which, k |-> k]

ViewPart(d, tag, k, c) ==
  IF tag = "viewsave" THEN [d EXCEPT !.vw.save[k] = c]
  ELSE LET e == [d EXCEPT !.vw.map[k] = c]
       IN  IF k # 2 THEN e
           ELSE ViewApply(QPushAll([e EXCEPT !.vw.copying = FALSE],
                                   PtrTo(B1Cell) \o <<Bramw(ViewBuf("map", 1)), Bramw(ViewBuf("map", 2))>>))

\* 85 turns the alternative D_FILE off: it is put back if the shadow has it.
MAlternative(pk) == <<>>

Alternative(pk) == IF pk.alt = 170 THEN <<PokeReq(<< <<"2098", 170>> >>)>> ELSE <<>>

ViewOff(d) ==
  IF ~d.vw.on THEN d
  ELSE LET pk == d.vw.pk
           m == IF pk.m = Never THEN Off ELSE pk.m
           hfile == IF d.vw.hr THEN <<PokeReq(<< <<"2043", IF pk.h = Never THEN 0 ELSE pk.h>> >>)>> ELSE <<>>
           copy == IF d.vw.copied
                   THEN PtrTo(B1Cell) \o <<Bramw(ViewBuf("save", 1)), Bramw(ViewBuf("save", 2))>> ELSE <<>>
       IN  QPushAll(PokeBegin([d EXCEPT !.vw.on = FALSE, !.vw.copied = FALSE]),
                    hfile \o <<PokeReq(<< <<"2045", m>> >>)>>
                    \o (IF m = Off THEN Alternative(pk) ELSE <<>>) \o <<Sync>>
                    \o PtrTo(PkCell) \o <<Bramw(Own([m |-> pk.m, h |-> pk.h]))>> \o copy)

(***************************************************************************)
(* The history: the FPGA's pointer, the last entries of its ring and the   *)
(* bytes of each instruction.  purpose 1: the console, 2: the screen.      *)
(***************************************************************************)
FtFetch(d, purpose) ==
  IF ~d.stopped \/ d.ft.stage # 0 THEN d
  ELSE QPushAll([d EXCEPT !.ft = [stage |-> 1, purpose |-> purpose]], <<Out("idx", 7), In("dbg", "ftptr", 0)>>)

UiText == <<"ui0", "ui1", "ui2", "ui3", "ui4", "ui5">>

UiBramw(which) == PtrTo(0) \o <<Bramw(ViewBuf(which, 1))>>

\* The screen's video: after the first drawing, which is in the queue.
UiApplyVideo(d) ==
  LET e == [d EXCEPT !.ui.applied = TRUE, !.ui.apend = FALSE, !.cfg.c128 = FALSE, !.ui.seti = TRUE]
      chroma == IF d.ui.chroma = "on" THEN <<Out("chroma", "off")>> ELSE <<>>
      f == PokeBegin(QPushAll(e, chroma \o <<Req("SETI", 0, 30, "none", 0)>>))
  IN  QPushAll(f, <<PokeReq(<< <<"2045", Wide80>> >>), PokeReq(<< <<"2098", 170>> >>), Sync>>)

\* ui_compose and ui_flush: only what has changed is sent.
UiDraw(d) ==
  IF ~d.ui.shown \/ ~d.stopped THEN d
  ELSE LET text == UiText[d.regs.pc + 1]
           e == IF d.ui.df = text THEN d ELSE QPushAll([d EXCEPT !.ui.df = text], UiBramw("df"))
       IN  IF e.ui.apend THEN UiApplyVideo(e) ELSE e

UiPendDone(d) ==
  IF d.ui.pend = 0 THEN d
  ELSE LET e == [d EXCEPT !.ui.pend = @ - 1] IN IF e.ui.pend = 0 THEN UiDraw(e) ELSE e

FtDone(d) == LET e == [d EXCEPT !.ft.stage = 0] IN IF d.ft.purpose = 1 THEN e ELSE UiPendDone(e)

FtResult(d, tag) ==
  IF d.ft.stage = 0 THEN d
  ELSE CASE tag = "ftptr"  -> QPushAll([d EXCEPT !.ft.stage = 2], PtrIdx(0) \o <<InSeq("ftring", 0)>>)
         [] tag = "ftring" -> QPush([d EXCEPT !.ft.stage = 3], Read(Anywhere, "ftop", 0))
         [] tag = "ftop"   -> FtDone(d)

UiRefresh(d) ==
  IF ~d.ui.shown \/ d.ui.entering \/ QSIZE - Len(d.q) < 8 THEN d
  ELSE LET e == [QPushAll(d, <<Read(Anywhere, "uidis", 0), Read(Anywhere, "uistk", 0), Read(Anywhere, "uimem", 0)>>)
                   EXCEPT !.ui.pend = @ + 3]
       IN  IF d.ui.hist /\ ~d.tr.valid /\ d.ft.stage = 0 THEN [FtFetch(e, 2) EXCEPT !.ui.pend = @ + 1] ELSE e

UiShow(d) ==
  LET e == [d EXCEPT !.ui.prog = FALSE]
  IN  IF d.ui.shown \/ d.ui.entering \/ ~d.stopped THEN e
      ELSE QPushAll([ViewOff(e) EXCEPT !.ui.entering = TRUE, !.ui.abort = FALSE, !.ui.c128 = d.cfg.c128],
                    PtrIdx(PkCell) \o <<InSeq("uipk", 0), Out("idx", 3), In("dbg", "uichroma", 0)>>
                    \o PtrIdx(0) \o <<InSeq("uisave", 0)>>)

UiRestoreShadow(d) ==
  QPushAll(d, PtrTo(PkCell) \o <<Bramw(Own([m |-> d.ui.pk.m]))>>
              \o PtrTo(PkCell) \o <<Bramw(Own([alt |-> d.ui.pk.alt]))>> \o UiBramw("uisave"))

\* The POKEs as they were (85 when never written), the chroma, the characters.
UiVideoBack(d) ==
  LET pk == d.ui.pk
      m == IF pk.m = Never THEN Off ELSE pk.m
      e == PokeBegin([d EXCEPT !.ui.applied = FALSE])
  IN  [QPushAll(e, <<PokeReq(<< <<"2098", IF pk.alt = 170 THEN 170 ELSE Off>> >>), PokeReq(<< <<"2045", m>> >>)>>
                   \o (IF m = Off THEN Alternative(pk) ELSE <<>>) \o <<Sync>>
                   \o (IF d.ui.chroma = "on" THEN <<Out("chroma", "on")>> ELSE <<>>))
         EXCEPT !.cfg.c128 = @ \/ d.ui.c128]

UiHide(d) ==
  IF d.ui.entering THEN [d EXCEPT !.ui.abort = TRUE]
  ELSE IF ~d.ui.shown THEN d
  ELSE LET e == [d EXCEPT !.ui.shown = FALSE, !.ui.pr = "none"]
           f == IF e.ui.applied THEN UiVideoBack(e) ELSE e
           h == IF f.ui.seti THEN [QPush(f, Req("SETI", 0, 0, "none", 0)) EXCEPT !.ui.seti = FALSE] ELSE f
       IN  UiRestoreShadow(h)

\* A reset: the FPGA has lost the POKEs, the shadow has not.
UiDrop(d) ==
  [d EXCEPT !.ui = [@ EXCEPT !.fix = @ \/ (d.ui.shown /\ d.ui.applied), !.shown = FALSE, !.entering = FALSE,
                             !.applied = FALSE, !.apend = FALSE, !.abort = FALSE, !.pend = 0, !.pr = "none",
                             !.prog = FALSE, !.want = FALSE]]

UiRun(d) == UiHide([d EXCEPT !.ui.prog = FALSE])

\* A bug: the reads of the screen that the program's return cut off are waited for.
MUiOnBreak(d) ==
  IF d.ui.fix THEN QPushAll([d EXCEPT !.ui.fix = FALSE], PtrIdx(PkCell) \o <<InSeq("uifix", 0)>>) ELSE d

UiOnBreak(d) ==
  LET e == [d EXCEPT !.ui.pend = 0]
  IN  IF e.ui.fix THEN QPushAll([e EXCEPT !.ui.fix = FALSE], PtrIdx(PkCell) \o <<InSeq("uifix", 0)>>) ELSE e

UiOnStop(d) ==
  IF d.ui.prog THEN (IF d.ui.progv /\ ~d.vw.on THEN ViewRequest(d, FALSE, TRUE) ELSE d)
  ELSE IF d.ui.want THEN (IF d.ui.shown THEN UiRefresh(d) ELSE UiShow(d))
  ELSE IF d.ui.seti THEN [QPush(d, Req("SETI", 0, 0, "none", 0)) EXCEPT !.ui.seti = FALSE]
  ELSE d

UiSaved(d, c) ==
  LET e == [d EXCEPT !.ui.save = c, !.ui.entering = FALSE]
  IN  IF e.ui.abort THEN [e EXCEPT !.ui.abort = FALSE]
      ELSE UiRefresh([e EXCEPT !.ui.shown = TRUE, !.ui.df = "none", !.ui.held = "all", !.ui.karm = "none",
                               !.ui.dis = d.regs.pc, !.ui.apend = TRUE])

\* The disassembly has to show the PC: if it does not, it is read again from it.
UiDis(d) ==
  LET again == d.ui.dis # d.regs.pc
      e == IF again THEN [QPush(d, Read(Anywhere, "uidis", 0)) EXCEPT !.ui.dis = d.regs.pc, !.ui.pend = @ + 1] ELSE d
  IN  UiPendDone(e)

UiFix(d, pk) == IF pk.m = Wide80 /\ pk.alt = 170 THEN UiRestoreShadow(d) ELSE d

UiResult(d, tag, c) ==
  CASE tag = "uipk"             -> [d EXCEPT !.ui.pk = c]
    [] tag = "uichroma"         -> [d EXCEPT !.ui.chroma = c]
    [] tag = "uisave"           -> UiSaved(d, c)
    [] tag = "uidis"            -> UiDis(d)
    [] tag \in {"uistk", "uimem"} -> UiPendDone(d)
    [] tag = "uifix"            -> UiFix(d, c)

\* v or Q with the debugger's screen: the program's own picture.
UiProgScreen(d, sf) ==
  LET e == [UiHide(d) EXCEPT !.ui.prog = TRUE, !.ui.progv = sf]
  IN  IF sf THEN ViewRequest(e, FALSE, TRUE) ELSE e

UiPauseQs(d) == [d EXCEPT !.ui.want = TRUE, !.ui.prog = FALSE, !.ui.held = "all", !.ui.karm = "none"]
=============================================================================
