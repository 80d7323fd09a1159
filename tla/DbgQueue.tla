------------------------------ MODULE DbgQueue ------------------------------
(***************************************************************************)
(* DEBUGGER.cpp: the queue of requests to the monitor, the table of        *)
(* software breakpoints and the ways back to the program.                  *)
(*                                                                         *)
(* The debugger's statics are the fields of one record d, and each         *)
(* function is an operator from records to records: the code calls them    *)
(* from one another, and a handler is the composition of all it calls.     *)
(* Requests are records [op, a, k, v, tag, arg]: k is the chunk of a page, *)
(* v the data; those of BRAMW and WRITEP are [buf, k], because they stay   *)
(* in a buffer until the request is sent.                                  *)
(***************************************************************************)
EXTENDS DbgZ80, SequencesExt

CONSTANTS QSIZE,        \* requests the queue holds
          NBP           \* breakpoints in the table

None == -1

Req(op, a, v, tag, arg) == [op |-> op, a |-> a, k |-> 1, v |-> v, tag |-> tag, arg |-> arg]
Out(a, v) == Req("OUT", a, v, "none", 0)
In(a, tag, arg) == Req("IN", a, 0, tag, arg)
Read(a, tag, arg) == Req("READ", a, 0, tag, arg)
Write1(a, v) == Req("WRITE", a, v, "none", 0)
PokeReq(l) == Req("WRITE", PokeArea, l, "none", 0)
InSeq(tag, arg) == Req("INSEQ", "dbg", 0, tag, arg)
\* Data in the request itself (arg 0xFF), or in a buffer (0xFE and ld_buf).
Bramw(v) == Req("BRAMW", "dbg", v, "none", 0)
Own(c) == [buf |-> "own", k |-> c]

(***************************************************************************)
(* q_push: a request that does not fit is lost, and the code seldom looks. *)
(***************************************************************************)
QPush(d, r) == IF Len(d.q) >= QSIZE THEN d ELSE [d EXCEPT !.q = Append(@, r)]
QPushAll(d, l) == FoldLeft(QPush, d, l)
QPushFront(d, r) == IF Len(d.q) >= QSIZE THEN d ELSE [d EXCEPT !.q = <<r>> \o @]
QSetRegs(d) == QPush(d, Req("SETREGS", 0, d.regs, "none", 0))

\* The bits of the configuration go to the FPGA at once, ahead of the queue.
PokeBegin(d) ==
  [d EXCEPT !.cfg.poke = TRUE, !.relock = @ \/ d.cfg.lock, !.cfg.lock = FALSE]
PokeEnd(d) ==
  [d EXCEPT !.cfg.poke = FALSE, !.relock = FALSE, !.cfg.lock = @ \/ d.relock]

\* The shadow's pointer and index 2.
PtrTo(p) == <<Out("ptr", p)>>
PtrIdx(p) == <<Out("ptr", p), Out("idx", 2)>>
Sync == In("free", "viewsync", 0)

(***************************************************************************)
(* Breakpoints.  state: 0 out of memory, 1 the FF is in memory, 2 unknown  *)
(* after a reset; temp: of g, o and u.                                     *)
(***************************************************************************)
BpIds == 1..NBP
NoBp == [used |-> FALSE, addr |-> 0, orig |-> "nop", state |-> 0, temp |-> FALSE]

BpFind(d, a) ==
  LET at == {i \in BpIds : d.bps[i].used /\ d.bps[i].addr = a}
  IN  IF at = {} THEN None ELSE CHOOSE i \in at : \A j \in at : i <= j

FreeSlot(d) ==
  LET free == {i \in BpIds : ~d.bps[i].used}
  IN  IF free = {} THEN None ELSE CHOOSE i \in free : \A j \in free : i <= j

BpSet(d, i, a, temp) == [d EXCEPT !.bps[i] = [@ EXCEPT !.used = TRUE, !.addr = a, !.state = 0, !.temp = temp]]

QueueShow(d) == QPush(d, Read(Anywhere, "show", 0))

\* The FFs out of the memory: those put, and a look at those of before a reset.
QueueRemoveBps(d) ==
  LET one(e, i) ==
        CASE ~e.bps[i].used         -> e
          [] e.bps[i].state = 1     -> [QPush(e, Write1(e.bps[i].addr, e.bps[i].orig)) EXCEPT !.bps[i].state = 0]
          [] e.bps[i].state = 2     -> QPush(e, Read(e.bps[i].addr, "bpcheck", i))
          [] OTHER                  -> e
  IN  FoldLeft(one, d, [i \in BpIds |-> i])

\* A bug: the original read when the FF is already there.
MInsertBp(d, i) == QPushAll(d, <<Write1(d.bps[i].addr, "FF"), Read(d.bps[i].addr, "bporig", i)>>)

InsertBp(d, i) == QPushAll(d, <<Read(d.bps[i].addr, "bporig", i), Write1(d.bps[i].addr, "FF")>>)

\* And into it: the original is read each time.
QueueInsertBps(d, except) ==
  LET one(e, i) == IF ~e.bps[i].used \/ i = except \/ e.bps[i].state = 1 THEN e ELSE InsertBp(e, i)
  IN  FoldLeft(one, d, [i \in BpIds |-> i])

FreeTempBps(d) ==
  [d EXCEPT !.bps = [i \in BpIds |-> IF d.bps[i].temp THEN [d.bps[i] EXCEPT !.used = FALSE, !.temp = FALSE]
                                     ELSE d.bps[i]]]

(***************************************************************************)
(* The way back.  A RST 38h of the program's own, where it stopped, is     *)
(* done by the MCU: PC + 1 on the stack and a jump to $0038.  In SLOW, to  *)
(* go on for good, the NMI comes back with OUT ($FE),A / RET written below *)
(* the program's stack.                                                    *)
(***************************************************************************)
QueueEmulateRst(d) ==
  LET sp == d.regs.sp - 1
  IN  QSetRegs([QPush(d, Write1(StkAddr(sp), Next3(d.regs.pc)))
                  EXCEPT !.regs = [pc |-> Rst, sp |-> sp], !.foreign = FALSE])

QueueSteps(d, n) == QPush(d, Out("steps", n))

Resumed(d) == [d EXCEPT !.stopped = FALSE, !.tr.valid = @ /\ d.tr.on]

StubBack(d) ==
  QSetRegs([QPush(d, Write1(StkAddr(d.regs.sp - 1), d.regs.pc))
              EXCEPT !.regs = [pc |-> Stub, sp |-> d.regs.sp - 1]])

QCont(d, run) ==
  LET back == IF run /\ d.slow THEN [StubBack(d) EXCEPT !.slow = FALSE] ELSE d
  IN  QPush(back, Req("CONT", 0, 0, "none", 0))

QueueCmp(d, w) == QPush(d, Out("cmp", w))

EmulateForeign(d) == IF d.foreign THEN QueueEmulateRst(d) ELSE d

DbgStep(d, n) == Resumed(QCont(QueueSteps(EmulateForeign(d), n), FALSE))

\* At a stop the comparator goes back to the watchpoint.
TmpStop(d) == IF d.cmptmp THEN QueueCmp([d EXCEPT !.cmptmp = FALSE], d.watch) ELSE d
=============================================================================
