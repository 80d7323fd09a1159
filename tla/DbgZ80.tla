------------------------------- MODULE DbgZ80 -------------------------------
(***************************************************************************)
(* The Z80's side of the hardware debugger: the program's machine, the     *)
(* FPGA's break logic (FPGA/SD81V2.1000/sim_int.v) and the monitor of page *)
(* 63 (z80rom/debugmon.asm).  The debugger of the STM32 (Debugger.tla)     *)
(* drives them through the requests of DBG_POLL.                           *)
(*                                                                         *)
(* A machine is a record:                                                  *)
(*   mem   the program's code, one instruction per address                 *)
(*   pc, sp, stk, nmi   the CPU: the stack grows downwards, nmi is TRUE    *)
(*         in SLOW                                                         *)
(*   dat   the rest of [MEMORY] (with the stack); p0 the page of block 0; p2 an unmapped    *)
(*         page; dirty: the program has written p2; map the mapper         *)
(*   sh    the shadow BRAM, by cells: 0 the ROM block, 1 the POKEs, 2..3   *)
(*         the block of [MEMORY] ("=": the memory's byte), 4..5 the colours *)
(*   vid   the FPGA's video registers (POKE 2045, HFILE, POKE 2098)        *)
(*   chroma, ay   the Chroma81 register, an AY (values, selected register) *)
(* The same record is used for the real machine and for the one the        *)
(* program would have without a debugger.                                  *)
(***************************************************************************)
EXTENDS Integers, Sequences, FiniteSets

CONSTANT MaxSp          \* slots of the program's stack

Main == 0..2            \* the program's code
Rst == 3                \* $0038: its routine returns at once
Nmi == 4                \* $0066: the NMI's routine, the same
Stub == 5               \* OUT ($FE),A / RET below the stack (q_cont)
Code == 0..4

Cells == 0..5
PkCell == 1
B1Cell == 2
ColCell == 4

\* A POKE the program has never written: its byte in the shadow is the ROM's.
Never == -1

Next3(a) == (a + 1) % 3

Pushed(m, v) == [m EXCEPT !.sp = @ - 1, !.stk[m.sp - 1] = v]
Popped(m) == [m EXCEPT !.pc = m.stk[m.sp], !.sp = @ + 1]
CanPush(m) == m.sp > 2

(***************************************************************************)
(* One instruction of the program.  "mod" rewrites the instruction at 2,   *)
(* unless keep: the debugger must read the original of a breakpoint each   *)
(* time it puts it.                                                        *)
(***************************************************************************)
Toggled(op) == IF op = "nop" THEN "mod2" ELSE "nop"

Exec(m, op, keep) ==
  CASE op = "mod"  -> [m EXCEPT !.pc = Next3(@),
                                !.mem[2] = IF keep THEN @ ELSE Toggled(@)]
    [] op = "call" -> [Pushed(m, Next3(m.pc)) EXCEPT !.pc = Rst]
    [] op = "FF"   -> [Pushed(m, Next3(m.pc)) EXCEPT !.pc = Rst]
    [] op = "ret"  -> Popped(m)
    [] OTHER       -> [m EXCEPT !.pc = Next3(@)]

\* What is below the stack pointer is nobody's: the monitor's entry and the
\* stub of q_cont write there.
LiveStack(m) == [k \in m.sp..MaxSp |-> m.stk[k]]

(***************************************************************************)
(* The FPGA.  z.st is "run" (the program), "brk" (the monitor is about to  *)
(* send DBG_BREAK), "poll" (a result to send, and then waiting for a       *)
(* request) or "exec" (a request to carry out).                            *)
(*   skip   the first instruction after the monitor                        *)
(*   steps  instructions still to run, -1 when not counting                *)
(*   pause, src   a pause or a trap to serve                               *)
(*   cmp    the comparator: mode 0 nothing, 1 execution, 3 a write         *)
(*   watch  its access has happened;  spin  an FF is being held in SLOW    *)
(***************************************************************************)
Breaks(z) ==
  LET op == z.m.mem[z.m.pc]
  IN  \/ op = "FF" \/ z.spin \/ z.steps = 0
      \/ ~z.skip /\ (z.pause \/ z.watch \/ (z.cmp.m = 1 /\ z.cmp.a = z.m.pc))

BreakOk(z) == ~z.m.nmi \/ z.m.pc = Nmi

Reason(z) ==
  LET op == z.m.mem[z.m.pc]
  IN  CASE op = "FF" \/ z.spin                                 -> 7
        [] ~z.skip /\ z.cmp.m = 1 /\ z.cmp.a = z.m.pc /\ op # "FF" -> 5
        [] ~z.skip /\ z.watch                                  -> 6
        [] z.steps = 0                                         -> 4
        [] OTHER                                               -> z.src

\* The break: the FPGA serves RST and CALL $2000; the monitor turns the NMI
\* off and keeps the registers.
Taken(z) ==
  [z EXCEPT !.st = "brk", !.why = Reason(z), !.snmi = z.m.nmi, !.m.nmi = FALSE,
            !.reg = [pc |-> z.m.pc, sp |-> z.m.sp], !.pause = FALSE, !.watch = FALSE,
            !.steps = -1, !.skip = FALSE, !.spin = FALSE]

\* In SLOW an FF is not let through: JR $ until the NMI.
Spun(z) == [z EXCEPT !.spin = TRUE, !.skip = FALSE]

\* An access of the instruction the comparator is watching.
Watched(z, op) == z.cmp.m = 3 /\ op = "mod" /\ z.cmp.a = 2

Ran(z, keep) ==
  LET op == z.m.mem[z.m.pc]
  IN  [z EXCEPT !.m = Exec(z.m, op, keep), !.skip = FALSE,
                !.watch = @ \/ Watched(z, op),
                !.steps = IF @ > 0 THEN @ - 1 ELSE @]

\* The NMI of a line of the SLOW display, while the program is in its own code.
Interrupted(z) == [z EXCEPT !.m = [Pushed(z.m, z.m.pc) EXCEPT !.pc = Nmi], !.skip = FALSE]

\* OUT ($FE),A and RET below the stack.
StubRan(z) == [z EXCEPT !.m = [Popped(z.m) EXCEPT !.nmi = TRUE], !.skip = FALSE]

\* The pause line has changed: it counts only with the monitor idle.
Paused(z, src) == IF z.st = "run" THEN [z EXCEPT !.pause = TRUE, !.src = src] ELSE z

\* Addresses of a READ or WRITE besides the code: the slots of the stack, the
\* two chunks of [MEMORY], bytes only for the user, the control POKEs.
StkAddr(k) == 10 + k
Ram1 == 20
Ram2 == 21
Anywhere == 22
PokeArea == 23

(***************************************************************************)
(* The monitor's requests.  A POKE of the monitor changes the registers    *)
(* only with order 10 (cfg.poke) and without ROMLOCK; its shadow byte      *)
(* follows.  POKE 2045,85 also turns the alternative D_FILE off.           *)
(***************************************************************************)
PokeMode(m, v) ==
  [m EXCEPT !.vid.m = v, !.sh[PkCell].m = v, !.vid.alt = IF v = 85 THEN 85 ELSE @]

Poke(m, a, v) ==
  CASE a = "2045" -> PokeMode(m, v)
    [] a = "2043" -> [m EXCEPT !.vid.h = v, !.sh[PkCell].h = v]
    [] a = "2098" -> [m EXCEPT !.vid.alt = v, !.sh[PkCell].alt = v]

\* The POKEs of one WRITE, in order.
RECURSIVE Pokes(_, _)
Pokes(m, l) == IF l = <<>> THEN m ELSE Pokes(Poke(m, Head(l)[1], Head(l)[2]), Tail(l))

\* BRAMW: the cell at the pointer; a record is a part of the POKEs.
Bram(m, p, c) ==
  [m EXCEPT !.sh[p] = IF p = PkCell THEN [x \in DOMAIN @ |-> IF x \in DOMAIN c THEN c[x] ELSE @[x]] ELSE c]

PageRead(m, p, k) ==
  CASE p = 0 -> m.p0[k] [] p = 1 -> (IF k = 1 THEN m.mem ELSE [dat |-> m.dat, stk |-> m.stk]) [] p = 2 -> m.p2[k]

PageWritten(m, p, k, v) ==
  CASE p = 0           -> [m EXCEPT !.p0[k] = v]
    [] p = 1 /\ k = 1  -> [m EXCEPT !.mem = v]
    [] p = 1 /\ k = 2  -> [m EXCEPT !.dat = v.dat, !.stk = v.stk]
    [] p = 2           -> [m EXCEPT !.p2[k] = v, !.dirty = TRUE]

\* IN of $3FEF returns what the index chooses, and of other ports what they are.
InPort(z, a) ==
  CASE a = "map"  -> z.m.map
    [] a = "kbd"  -> z.key
    [] a = "dbg"  -> (CASE z.idx = 3 -> z.m.chroma
                       [] z.idx = 4 -> z.m.ay.sel
                       [] z.idx = 6 -> z.m.dirty
                       [] z.idx = 7 -> 0
                       [] z.idx = 9 -> z.m.vid
                       [] OTHER     -> "other")
    [] OTHER      -> "free"

ReadAt(m, a) ==
  CASE a = Ram1     -> m.mem
    [] a = Ram2     -> PageRead(m, 1, 2)
    [] a = Anywhere -> "bytes"
    [] a \in Code  -> m.mem[a]
    [] OTHER      -> IF a - 10 \in DOMAIN m.stk THEN m.stk[a - 10] ELSE 0

Result(z, c) == [z EXCEPT !.st = "poll", !.res = c]
Done(z) == Result(z, "none")

OutPort(z, a, v) ==
  CASE a = "steps"  -> [z EXCEPT !.steps = v]
    [] a = "cmp"    -> [z EXCEPT !.cmp = v]
    [] a = "ptr"    -> [z EXCEPT !.ptr = v]
    [] a = "idx"    -> [z EXCEPT !.idx = v]
    [] a = "chroma" -> [z EXCEPT !.m.chroma = v]
    [] a = "map"    -> [z EXCEPT !.m.map = v]
    [] a = "aysel"  -> [z EXCEPT !.m.ay.sel = v]

\* One request carried out; cfg holds the bits the MCU has sent to the FPGA.
Obeyed(z, cfg) ==
  LET r == z.req
  IN  CASE r.op = "READ"    -> Result(z, ReadAt(z.m, r.a))
        [] r.op = "READP"   -> Result(z, PageRead(z.m, r.a, r.k))
        [] r.op = "IN"      -> Result(z, InPort(z, r.a))
        [] r.op = "INSEQ"   -> IF z.idx = 2 THEN [Result(z, z.m.sh[z.ptr]) EXCEPT !.ptr = @ + 1]
                               ELSE Result(z, InPort(z, "dbg"))
        [] r.op = "AYREAD"  -> [Result(z, z.m.ay.v) EXCEPT !.m.ay.sel = 15]
        [] r.op = "AYWRITE" -> [Done(z) EXCEPT !.m.ay = [v |-> r.v, sel |-> 15]]
        [] r.op = "OUT"     -> Done(OutPort(z, r.a, r.v))
        [] r.op = "SETREGS" -> [Done(z) EXCEPT !.reg = r.v]
        [] r.op = "SETI"    -> [Done(z) EXCEPT !.seti = r.v]
        [] r.op = "WRITE"   -> Done(CASE r.a = PokeArea -> (IF cfg.poke /\ ~cfg.lock THEN [z EXCEPT !.m = Pokes(@, r.v)] ELSE z)
                                      [] r.a \in Code -> [z EXCEPT !.m.mem[r.a] = r.v]
                                      [] OTHER        -> [z EXCEPT !.m.stk[r.a - 10] = r.v])
        [] r.op = "WRITEP"  -> [Done(z) EXCEPT !.m = PageWritten(@, r.a, r.k, r.v)]
        [] r.op = "BRAMW"   -> [Done(z) EXCEPT !.m = Bram(@, z.ptr, r.v), !.ptr = @ + 1]
        [] r.op = "CONT"    -> [z EXCEPT !.st = "run", !.skip = TRUE, !.req = [op |-> "none"], !.res = "none",
                                         !.m.pc = z.reg.pc, !.m.sp = z.reg.sp]
=============================================================================
