------------------------------- MODULE McuLink -------------------------------
(***************************************************************************)
(* The byte handshake between the Z80 and the STM32, and the STM32's loop  *)
(* around it.  The Z80 writes or reads the data port (A7h), which raises   *)
(* GET_DATA_REG, and waits for the clock bit of port AFh to change; the    *)
(* STM32 takes or gives a byte and toggles the clock.  A write to AFh      *)
(* raises an interrupt of the STM32, its software reset.                   *)
(*                                                                         *)
(* The Z80 may reset the STM32 between two routines, and by BREAK while a  *)
(* tune is played.  It does not reset it elsewhere: a handler that waits   *)
(* in GetByteFromZ80 goes on waiting after the interrupt.                  *)
(***************************************************************************)
EXTENDS Z80Routines

VARIABLES
  comm_clk,   \* the clock bit
  data_reg,   \* GET_DATA_REG: an access the STM32 has not taken
  ctrl_reg,   \* GET_CTRL_REG: the reset interrupt is pending
  latch_b,    \* what the Z80 wrote last
  latch_o,    \* what the STM32 wrote last
  routine,    \* accesses the Z80 has still to make
  pending,    \* the kind of the one it waits for, or "none"
  phase,      \* bit 7 of C: the clock before it
  called,     \* the command of this routine, or the last one
  command_active,
  reseted,
  T81_dir,
  handler,    \* calls the active handler has still to make
  sending,    \* it is in SendByteToZ80, after the toggle
  running     \* the command it belongs to, or belonged to

fpgaVars == << comm_clk, data_reg, ctrl_reg, latch_b, latch_o >>
z80Vars  == << routine, pending, phase, called >>
stmVars  == << command_active, reseted, T81_dir, handler, sending, running >>
vars     == << fpgaVars, z80Vars, stmVars >>

CMD_IDLE == "idle"
NoCommand == "none"
Param(v) == [c |-> NoCommand, v |-> v]
Command(c) == [c |-> c, v |-> 0]

Init ==
  /\ comm_clk = FALSE /\ data_reg = FALSE /\ ctrl_reg = FALSE
  /\ latch_b = Param(0) /\ latch_o = 0
  /\ routine = << >> /\ pending = "none" /\ phase = FALSE /\ called = NoCommand
  /\ command_active = CMD_IDLE /\ reseted = FALSE /\ T81_dir = FALSE
  /\ handler = << >> /\ sending = FALSE /\ running = NoCommand

-----------------------------------------------------------------------------
(* The Z80.                                                                *)

Idle == routine = << >> /\ pending = "none"

\* A routine begins: in a,(ClkPort) / ld c,a.
Begin ==
  /\ Idle
  /\ \E r \in Routines(T81_dir) :
       /\ routine' = r
       /\ called' = r[1].c
  /\ phase' = comm_clk
  /\ UNCHANGED << fpgaVars, pending, stmVars >>

Turn(kind) == routine # << >> /\ pending = "none" /\ Head(routine).a = kind

Access(kind) ==
  /\ data_reg' = TRUE
  /\ pending' = kind
  /\ UNCHANGED << comm_clk, ctrl_reg, latch_o, phase, called, stmVars >>

SendCommand ==
  /\ Turn("send")
  /\ latch_b' = Command(Head(routine).c)
  /\ routine' = Tail(routine)
  /\ Access("command")

SendParam ==
  \E kind \in {"out", "last"} :
    /\ Turn(kind)
    /\ latch_b' = Param(Head(routine).v)
    /\ routine' = Tail(routine)
    /\ Access(kind)

Read(kind) ==
  /\ Turn(kind)
  /\ UNCHANGED latch_b
  /\ Access("in")

ReadByte  == Read("in") /\ routine' = Tail(routine)
ReadCount ==
  /\ Read("incount")
  /\ \E n \in IF latch_o \in Lens THEN {latch_o} ELSE Lens :
       routine' = Head(routine).then[n] \o Tail(routine)

\* The terminator, or another character; then BREAK may end the listing.
ReadChar ==
  /\ Read("inchar")
  /\ IF latch_o = EOT
     THEN routine' = << In >>
     ELSE routine' \in { << >>, PrintCmdOutput }

\* WaitClkDiff, WaitClkEq: the clock has changed.
Confirmed ==
  /\ pending # "none"
  /\ comm_clk # phase
  /\ pending' = "none"
  /\ phase' = comm_clk
  /\ UNCHANGED << fpgaVars, routine, called, stmVars >>

ResetMcu ==
  /\ ctrl_reg' = TRUE
  /\ pending' = "reset"
  /\ UNCHANGED << comm_clk, data_reg, latch_b, latch_o, called, stmVars >>

\* WaitDiffBrk: BREAK, and the clock has not changed in between.  The STM32
\* has taken what was sent and is playing, or about to.
Break ==
  /\ pending = "last"
  /\ comm_clk = phase
  /\ ~data_reg
  /\ \/ handler # << >> /\ Head(handler).op = "play"
     \/ "LateBreak" \in Odd
  /\ routine' = << >>
  /\ ResetMcu
  /\ UNCHANGED phase

SD81_RESET ==
  /\ Idle
  /\ phase' = comm_clk
  /\ ResetMcu
  /\ UNCHANGED routine

Z80Access == SendCommand \/ SendParam \/ ReadByte \/ ReadCount \/ ReadChar

-----------------------------------------------------------------------------
(* The STM32's interrupt.                                                  *)

get_ctrl_reg ==
  /\ ctrl_reg
  /\ ctrl_reg' = FALSE
  /\ command_active' = CMD_IDLE
  /\ reseted' = TRUE
  /\ comm_clk' = ~comm_clk
  /\ UNCHANGED << data_reg, latch_b, latch_o, z80Vars, T81_dir, handler, sending, running >>

-----------------------------------------------------------------------------
(* The STM32's loop.  The interrupt comes before its next step.            *)

\* The command a byte stands for; a parameter may be any.
Meaning(b) == IF b.c = NoCommand THEN Commands \cup {CMD_IDLE} ELSE {b.c}

\* get_data_reg, if GET_DATA_REG is set.  It is polled here and nowhere else, so
\* a command that the Z80 sends before the last handler's reset_commands waits
\* in the latch (COMMANDS.cpp:1294-1303 has it lost, as an interrupt would).
Polled ==
  IF data_reg /\ command_active = CMD_IDLE THEN Meaning(latch_b) ELSE {command_active}

\* From the top of loop() to the call of the handler.  A reset that comes in
\* between is as one before it, unless the Z80 sends a command in the
\* microseconds from the interrupt's toggle to the poll.
MResetRemembered == UNCHANGED reseted
ResetForgotten == reseted' = FALSE
loop ==
  /\ ~ctrl_reg /\ handler = << >>
  /\ ResetForgotten
  /\ data_reg' = FALSE
  /\ \E c \in Polled :
       IF c \in Commands
       THEN /\ command_active' = c
            /\ handler' \in commands(T81_dir)[c]
            /\ running' = c
       ELSE /\ command_active' = CMD_IDLE
            /\ UNCHANGED << handler, running >>
  /\ UNCHANGED << comm_clk, ctrl_reg, latch_b, latch_o, z80Vars, T81_dir, sending >>

AtCall(op) == ~ctrl_reg /\ handler # << >> /\ Head(handler).op = op
Rest == Tail(handler)

ToggleClock ==
  /\ AtCall("ack")
  /\ comm_clk' = ~comm_clk
  /\ handler' = Rest
  /\ UNCHANGED << data_reg, ctrl_reg, latch_b, latch_o, z80Vars,
                  command_active, reseted, T81_dir, sending, running >>

\* The end of GetByteFromZ80 and SendByteToZ80.
Taken ==
  /\ data_reg
  /\ data_reg' = FALSE
  /\ UNCHANGED << comm_clk, ctrl_reg, latch_b, latch_o, z80Vars, reseted, T81_dir, running >>

GetByteFromZ80 ==
  /\ AtCall("get")
  /\ Taken
  /\ handler' = Rest
  /\ UNCHANGED << command_active, sending >>

\* A byte that tells how many follow.
GetCount ==
  /\ AtCall("count")
  /\ Taken
  /\ \E n \in IF latch_b.c = NoCommand THEN {latch_b.v} ELSE Lens :
       handler' = Head(handler).then[n] \o Rest
  /\ UNCHANGED << command_active, sending >>

\* The listing goes on only for GET_NEXT_CHAR: any other command ends it and
\* is active at once.
GetNextChar ==
  /\ AtCall("next")
  /\ Taken
  /\ \E c \in Meaning(latch_b) :
       IF c = "cmd_get_next_char"
       THEN handler' = Rest /\ UNCHANGED command_active
       ELSE handler' = << >> /\ command_active' = c
  /\ UNCHANGED sending

\* SendByteToZ80 up to its wait, and the rest of it.
SendByteToZ80 ==
  /\ AtCall("put") /\ ~sending
  /\ latch_o' = Head(handler).v
  /\ comm_clk' = ~comm_clk
  /\ sending' = TRUE
  /\ UNCHANGED << data_reg, ctrl_reg, latch_b, z80Vars,
                  command_active, reseted, T81_dir, handler, running >>

ByteSent ==
  /\ AtCall("put") /\ sending
  /\ Taken
  /\ sending' = FALSE
  /\ handler' = Rest
  /\ UNCHANGED command_active

ChangeDir ==
  /\ AtCall("chdir")
  /\ T81_dir' \in BOOLEAN
  /\ handler' = Rest
  /\ UNCHANGED << fpgaVars, z80Vars, command_active, reseted, sending, running >>

\* The tune ends by itself or because of a reset, which gets no answer.
MAnswerAnyway == << Status, Ack >>
AnswerUnlessReset == IF reseted THEN << >> ELSE << Status, Ack >>
PlayEnds ==
  /\ AtCall("play")
  /\ handler' = AnswerUnlessReset \o Rest
  /\ UNCHANGED << fpgaVars, z80Vars, command_active, reseted, T81_dir, sending, running >>

reset_commands ==
  /\ AtCall("done")
  /\ command_active' = CMD_IDLE
  /\ handler' = Rest
  /\ UNCHANGED << fpgaVars, z80Vars, reseted, T81_dir, sending, running >>

\* A .ROM was loaded: the Z80 and the FPGA start again.
ResetZ80 ==
  /\ AtCall("reboot")
  /\ data_reg' = FALSE
  /\ reseted' = TRUE
  /\ routine' = << >> /\ pending' = "none" /\ phase' = comm_clk
  /\ handler' = Rest
  /\ UNCHANGED << comm_clk, ctrl_reg, latch_b, latch_o, called,
                  command_active, T81_dir, sending, running >>

HandlerStep ==
  \/ ToggleClock \/ GetByteFromZ80 \/ GetCount \/ GetNextChar
  \/ SendByteToZ80 \/ ByteSent \/ ChangeDir \/ PlayEnds \/ reset_commands \/ ResetZ80

-----------------------------------------------------------------------------
Next ==
  \/ Begin \/ Z80Access \/ Confirmed \/ Break \/ SD81_RESET
  \/ get_ctrl_reg \/ loop \/ HandlerStep

Spec == Init /\ [][Next]_vars

\* The Z80 carries on with a routine it began, the STM32 with its loop; a
\* tune ends.  Nobody has to begin anything, nor to press BREAK.
FairSpec ==
  /\ Spec
  /\ WF_vars(Z80Access) /\ WF_vars(Confirmed)
  /\ WF_vars(get_ctrl_reg) /\ WF_vars(loop) /\ WF_vars(HandlerStep)
=============================================================================
