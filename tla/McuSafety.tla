------------------------------ MODULE McuSafety ------------------------------
(* What the handshake guarantees to a program that follows it.             *)
EXTENDS McuLink

\* What a handler does after its last exchange with the Z80.
OnlyDoneLeft == \A i \in 1..Len(handler) : handler[i].op = "done"

\* The STM32 takes the next byte for a command: it is in the loop, or on its
\* way there without another exchange, or in a listing that may be given up.
AwaitsCommand ==
  \/ handler = << >> /\ command_active = CMD_IDLE
  \/ handler # << >> /\ OnlyDoneLeft
  \/ handler # << >> /\ Head(handler).op = "next"
  \/ handler # << >> /\ Head(handler).op = "play" /\ reseted

\* The two sides never lose step, over any sequence of routines, listings
\* given up, tunes interrupted and resets: what the Z80 does on the port is
\* what the STM32 waits for, in the handler of the command the Z80 sent; and
\* when a routine is over the handler has nothing more to say.  A command sent
\* between the last toggle and reset_commands is no exception (OnlyDoneLeft).
InStep ==
  /\ data_reg /\ pending = "command" => AwaitsCommand
  /\ data_reg /\ pending \in {"out", "last"} =>
       running = called /\ handler # << >> /\ Head(handler).op \in {"get", "count"}
  /\ data_reg /\ pending = "in" => running = called /\ sending
  /\ Idle => AwaitsCommand \/ ctrl_reg

\* The clock changes only under a Z80 that waits for it, and once for each
\* access: a second change, or one too early, would not be seen as one.
OneToggle == [][comm_clk' # comm_clk => pending # "none" /\ comm_clk = phase]_vars

\* A routine ends: the Z80 never waits for ever for the clock, also if its command
\* comes before the handler of the one before has called reset_commands.
Answered == ~Idle ~> Idle
=============================================================================
