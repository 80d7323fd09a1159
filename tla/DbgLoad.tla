------------------------------- MODULE DbgLoad -------------------------------
(***************************************************************************)
(* DEBUGGER.cpp: the screen capture for the web page, and the loading of a *)
(* snapshot through the monitor (LOAD *Z81, or L on the debugger's         *)
(* screen).                                                                *)
(***************************************************************************)
EXTENDS DbgTasks

(***************************************************************************)
(* Capture: what the FPGA and the POKEs say, a plan of regions of the      *)
(* shadow, and the regions.  A region is [ptr, len], in cells.             *)
(***************************************************************************)
CapBegin(d) ==
  QPushAll([d EXCEPT !.cap.stage = "info"],
           <<Out("idx", 3), In("dbg", "capinfo", 0), Out("idx", 9), In("dbg", "capinfo", 1)>>
           \o PtrIdx(PkCell) \o <<InSeq("capinfo", 2)>>)

\* A bug: the debugger's screen is what is captured.
MDbgCapStart(d) ==
  IF SnapBusy(d) \/ LdBusy(d) \/ ViewBusy(d) \/ d.ui.entering \/ d.cap.pend THEN d
  ELSE LET e == ViewOff([d EXCEPT !.cap.stage = "wait", !.cap.resume = ~d.stopped])
       IN  IF e.stopped THEN CapBegin(e) ELSE DbgPause([e EXCEPT !.cap.pend = TRUE])

DbgCapStart(d) ==
  IF SnapBusy(d) \/ LdBusy(d) \/ ViewBusy(d) \/ d.ui.entering \/ d.cap.pend THEN d
  ELSE LET e == UiHide(ViewOff([d EXCEPT !.cap.stage = "wait", !.cap.resume = ~d.stopped]))
       IN  IF e.stopped THEN CapBegin(e) ELSE DbgPause([e EXCEPT !.cap.pend = TRUE])

\* cap_plan: the bitmap or the text, and its colours.
CapPlan(d) ==
  LET hr == d.cap.vid.m = SuperHr
      picture == IF hr THEN <<[ptr |-> B1Cell, len |-> 2]>> ELSE <<[ptr |-> B1Cell, len |-> 1]>>
      colours == IF d.cap.chroma = "on" THEN <<[ptr |-> ColCell, len |-> 1]>> ELSE <<>>
  IN  [d EXCEPT !.cap = [@ EXCEPT !.stage = "data", !.plan = picture \o colours,
                           !.qr = 1, !.qo = 0, !.rr = 1, !.ro = 0, !.doc = <<>>]]

CapDone(d) ==
  LET e == [d EXCEPT !.cap.stage = "ready", !.cap.resume = FALSE]
  IN  IF d.cap.resume THEN DbgContinue(e) ELSE UiOnStop(e)

CapData(d, c) ==
  IF d.cap.stage # "data" \/ d.cap.rr > Len(d.cap.plan) THEN d
  ELSE LET whole == d.cap.ro + 1 >= d.cap.plan[d.cap.rr].len
           e == [d EXCEPT !.cap.doc = Append(@, c), !.cap.ro = IF whole THEN 0 ELSE @ + 1,
                          !.cap.rr = IF whole THEN @ + 1 ELSE @]
       IN  IF e.cap.rr > Len(e.cap.plan) THEN CapDone(e) ELSE e

CapResult(d, tag, k, c) ==
  CASE tag = "capdata"            -> CapData(d, c)
    [] tag = "capinfo" /\ k = 0   -> [d EXCEPT !.cap.chroma = c]
    [] tag = "capinfo" /\ k = 1   -> [d EXCEPT !.cap.vid = c]
    [] tag = "capinfo" /\ k = 2   -> CapPlan([d EXCEPT !.cap.pk = c])

CapAsk(d) ==
  IF Len(d.q) >= 6 \/ d.cap.qr > Len(d.cap.plan) THEN d
  ELSE LET r == d.cap.plan[d.cap.qr]
           last == d.cap.qo + 1 >= r.len
       IN  QPushAll([d EXCEPT !.cap.qo = IF last THEN 0 ELSE @ + 1, !.cap.qr = IF last THEN @ + 1 ELSE @],
                    (IF d.cap.qo = 0 THEN PtrIdx(r.ptr) ELSE <<>>) \o <<InSeq("capdata", 0)>>)

CapFeed(d) == IF d.cap.stage = "data" THEN CapAsk(CapAsk(d)) ELSE d

(***************************************************************************)
(* Load.  ld_prepare reads the whole file once; with an error nothing is   *)
(* kept.  ld_begin starts at the stop, with the program's POKEs reachable  *)
(* (ROMLOCK off) and everything silent; the rest is pushed each time the   *)
(* queue is empty, and the data wait in LD_NBUF buffers, used in turn.     *)
(***************************************************************************)
LdPrepare(d, f) ==
  IF SnapBusy(d) \/ LdBusy(d) THEN d ELSE [d EXCEPT !.ld.file = f, !.ld.pending = TRUE]

LdBegin(d) ==
  LET e == UiRun([ViewDrop([d EXCEPT !.ld.pending = FALSE]) EXCEPT !.ui.want = FALSE])
      f == [e EXCEPT !.ld.old = e.cfg.lock, !.cfg.lock = FALSE, !.ld.stage = "pokes", !.cleared = TRUE]
  IN  QPush(f, Req("AYWRITE", "ay", "silent", "none", 0))

Value(pk, x, reset) == IF pk[x] = Never THEN reset ELSE pk[x]

LdPokes(d) ==
  LET pk == d.ld.file.pk
  IN  QPushAll([d EXCEPT !.cfg.poke = TRUE, !.ld.stage = "sprites"],
               <<PokeReq(<< <<"2045", Value(pk, "m", Off)>> >>),
                 PokeReq(<< <<"2043", Value(pk, "h", 0)>>, <<"2098", Value(pk, "alt", Off)>> >>)>>)

\* The chunk buffers: what a chunk is in a page (w) and in the shadow (s).
Both(c) == [w |-> c, s |-> c]
LdChunk(d, c) == [d EXCEPT !.ld.buf[d.ld.next] = c, !.ld.next = (@ + 1) % LDNBUF]

LdWriteP(d, p, k) == [Req("WRITEP", p, [buf |-> "ld", k |-> d.ld.next], "none", 0) EXCEPT !.k = k]
LdBramw(d) == Bramw([buf |-> "ld", k |-> d.ld.next])

\* A chunk decoded into the next buffer, and the requests that use it.
LdPut(d, c, reqs) == QPushAll(LdChunk(d, c), reqs)

PageChunk(d, p, k) == LdPut(d, Both(d.ld.file[Section(p)][k]), <<LdWriteP(d, p, k)>>)
LdPage(d, p) == PageChunk(PageChunk(d, p, 1), p, 2)

\* [MEMORY], into the page of the block if it has no RAM_PAGE and into the
\* shadow; without [COLOUR] it goes on to the end of the shadow.
MemChunk(d, k) ==
  LET c == IF k <= 2 THEN [w |-> d.ld.file.mem[k], s |-> "="] ELSE Both("=")
      page == IF k <= 2 /\ d.ld.file.p1 = Absent THEN <<LdWriteP(d, 1, k)>> ELSE <<>>
  IN  LdPut(d, c, page \o <<LdBramw(d)>>)

ShadowChunk(d, field, k) == LdPut(d, Both(d.ld.file[field][k]), <<LdBramw(d)>>)
ShadowChunks(d, field) == ShadowChunk(ShadowChunk(d, field, 1), field, 2)

HasPart(d, field) == d.ld.file[field][2] # NoPart

LdStage(d, s) == [d EXCEPT !.ld.stage = s]
SeekShadow(d, has, p) == IF has THEN QPushAll(d, PtrTo(p)) ELSE d

\* The POKEs of the shadow, in the first buffer, when there is no SHADOW 00.
LdPokesShadow(d) ==
  IF HasPart(d, "sh0") THEN d
  ELSE QPushAll([d EXCEPT !.ld.buf[0] = Both(d.ld.file.pk)],
                PtrTo(PkCell) \o <<Bramw([buf |-> "ld", k |-> 0])>>)

LdFinish(d) ==
  LET f == d.ld.file
      ay == IF f.ay.v = NoPart THEN <<>> ELSE <<Req("AYWRITE", "ay", f.ay.v, "none", 0), Out("aysel", f.ay.sel)>>
      map == IF f.map = NoPart THEN <<>> ELSE <<Out("map", f.map)>>
      chroma == IF f.chroma = NoPart THEN <<>> ELSE <<Out("chroma", f.chroma)>>
      e == [QPushAll(d, map \o chroma \o ay)
              EXCEPT !.cfg.lock = d.ld.old, !.regs = [pc |-> f.pc, sp |-> f.sp]]
      h == IF f.nmi THEN StubBack(e) ELSE QSetRegs(e)
  IN  DbgContinue([h EXCEPT !.ld.stage = "off", !.foreign = FALSE, !.slow = FALSE])

\* The next of the pages that have a RAM_PAGE, from p.
LdNextPage(d, p) ==
  LET with == {x \in p..2 : HasPart(d, Section(x))}
  IN  IF with = {} THEN QPushAll([LdStage(d, "mem") EXCEPT !.ld.page = 1], PtrTo(B1Cell))
      ELSE LET x == CHOOSE y \in with : \A z \in with : y <= z
           IN  [LdPage(d, x) EXCEPT !.ld.page = x + 1]

\* Two chunks of [MEMORY]: up to here, or four without [COLOUR].
LdMem(d) ==
  LET k == d.ld.page
      e == [MemChunk(MemChunk(d, k), k + 1) EXCEPT !.ld.page = k + 2]
      end == k + 1 = (IF HasPart(d, "col") THEN 2 ELSE 4)
  IN  IF end THEN SeekShadow(LdStage(e, "colour"), HasPart(d, "col"), ColCell) ELSE e

LdFeed(d) ==
  IF ~LdBusy(d) \/ d.q # <<>> THEN d
  ELSE CASE d.ld.stage = "pokes"   -> LdPokes(d)
         [] d.ld.stage = "sprites" -> LdStage(QPush(d, PokeReq(<<>>)), "late")
         [] d.ld.stage = "late"    -> LdStage(QPush(d, In("free", "ldsync", 0)), "wait")
         [] d.ld.stage = "wait"    -> d
         [] d.ld.stage = "pages"   -> LdNextPage(d, d.ld.page)
         [] d.ld.stage = "mem"     -> LdMem(d)
         [] d.ld.stage = "colour"  -> LET e == IF HasPart(d, "col") THEN ShadowChunks(d, "col") ELSE d
                                      IN  SeekShadow(LdStage(e, "block0"), HasPart(d, "p0"), 0)
         [] d.ld.stage = "block0"  -> LET e == IF HasPart(d, "p0") THEN ShadowChunks(d, "p0") ELSE d
                                      IN  LdStage(LdPokesShadow(e), "shadow0")
         [] d.ld.stage = "shadow0" -> LdStage(IF HasPart(d, "sh0") THEN ShadowChunks(QPushAll(d, PtrTo(0)), "sh0") ELSE d,
                                              "shadow1")
         [] d.ld.stage = "shadow1" -> LdStage(IF HasPart(d, "sh1") THEN ShadowChunks(QPushAll(d, PtrTo(B1Cell)), "sh1") ELSE d,
                                              "finish")
         [] d.ld.stage = "finish"  -> LdFinish(d)

LdResult(d) == [d EXCEPT !.cfg.poke = FALSE, !.ld.stage = "pages", !.ld.page = 0]

LdCancel(d) == [d EXCEPT !.ld.pending = FALSE, !.ld.stage = "off"]

(***************************************************************************)
(* The data of a request, taken from their buffer as it is sent.           *)
(***************************************************************************)
BufData(d, r) ==
  LET v == r.v
  IN  CASE v.buf = "own"    -> v.k
        [] v.buf = "ld"     -> IF r.op = "WRITEP" THEN d.ld.buf[v.k].w ELSE d.ld.buf[v.k].s
        [] v.buf = "map"    -> d.vw.map[v.k]
        [] v.buf = "save"   -> d.vw.save[v.k]
        [] v.buf = "df"     -> d.ui.df
        [] v.buf = "uisave" -> d.ui.save

Sent(d, r) == IF r.op \in {"BRAMW", "WRITEP"} THEN [r EXCEPT !.v = BufData(d, r)] ELSE r
=============================================================================
