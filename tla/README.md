# SD81 Booster: TLA+ models, checks and proofs

The SD81 Booster is an interface for the ZX81: a Z80 computer on one side, and
behind it an STM32 (files, sound, debugger), an ESP32 (WiFi) and an FPGA.  This
directory holds TLA+ modules for the parts in which processors, a line that
loses frames, a memory card, an interrupt, a broker or a running program depend
on each other, the TLC configurations that check them on small instances, and
TLAPS proofs about the network bridge, the modem, the files of the web pages
and of the log, the ESP32's own tasks, listings, MQTT, the Z80's command link,
the players, the conversion of BASIC listings and the updates.
Source paths below are relative to `src/Arduino/`; `WIFI_HANDLER.cpp`,
`COMMANDS.cpp`, `COMMS.cpp`, `DEBUGGER.cpp`, `FLASH_UPDATE.cpp` and the players
are the STM32's (`SD81BoosterV2_039_STM32/`), `WIFI_CLIENT.cpp`,
`NET_BRIDGE.cpp`, `NET_MQTT.cpp`, `SD_LOG.cpp` and `Wifi_module_01.ino` the
ESP32's (`Wifi_module_01/`).

## The system

```
 browser, servers
       |            web pages, sockets
 +-----------+   UART, 921600 baud    +-----------+   byte handshake   +-----+
 |  ESP32    | ---- request --------> |  STM32    | <----------------> | Z80 |
 |  loop()   | <--- answer ---------- |  loop()   |                    +-----+
 +-----------+                        +-----------+
                                        |      |
                                      SD card  FPGA
```

| Component | State it keeps | Operations | Who it talks to | What is hard | What makes it correct |
|---|---|---|---|---|---|
| UART link (`wifi_client_request`, `wifi_handler_poll`) | frames under way, the request, its tries | send, retry, time out, skip a stale answer, serve | every other ESP32 component, the STM32's handlers | frames lost, damaged, late; a request executed twice; an answer of another request | what each user of it makes of these |
| Network bridge (`NET_BRIDGE.cpp`, `handle_net_poll`, `NET_READ`/`NET_WRITE`) | four queues, two sequence bits at each end, credit | poll, accept, confirm, read, write | link, Z80, modem | retries, late confirmations and credit, two directions in one frame | both streams arrive whole, once, in order, and do not stop |
| AT modem (`NET_BRIDGE.cpp`) | mode, line, escape counter, raw data | one byte in, time, hang-up, web page | bridge, socket | chunk boundaries, silences and hang-ups in any order | data arrives exactly; only a guarded `+++` leaves data mode |
| File commands (`WIFI_HANDLER.cpp`) | two handles, the card | open, read, write, sync, close, delete | link, card | repeated opens and writes, card errors, two handles only | a file reported good is the file; handles are given back |
| Web jobs and SD log (`Wifi_module_01.ino`, `SD_LOG.cpp`) | the job, the log's handle and buffer | upload, download, delete, flush | link | a job given up in the middle, a handle kept for the session | every job ends; the log keeps what was flushed |
| Directory listing | the STM32's cursor, the ESP32's index | page, retry, expiry | link, card | a one-byte index, a cursor shared by all listings | a listing has each entry once |
| Firmware update of the ESP32 | the image, the flash partition, the LED | read, judge, delete, note, restart | link, card | power cuts, transport against content errors | a good image is never lost |
| ESP32's own tasks (`setup()`, `loop()`) | the network, `ntp_stop_retrying`, `ip_file_pending` | wait for the STM32, join, write IP.TXT, set the clock, retry | file commands, network, NTP server, the Z80 by a flag on the card | each of many calls may fail or answer late; four paths share two flags | the flags are true, and what was put off is done |
| MQTT client (`NET_MQTT.cpp`) | session, subscriptions, ring of received messages | connect, publish, subscribe, receive, reconnect, back off | sockets, modem | stale acknowledgements, full ring, brokers that forget | confirmations and the ring exact; subscriptions and sessions come back |
| Z80 command protocol (`COMMS.cpp`, `COMMANDS.cpp`, `../z80rom/sdhandler.inc.asm`) | the clock bit, two latches, the active command, where the handler is | send or read a byte, confirm, dispatch, reset interrupt | Z80, card | a table of 77 commands, each with its own sequence of bytes on both sides; BREAK; listings given up | the two sides never lose step, and the Z80 never waits for ever |
| Random-access files of the Z80 | four handles, a virtual image | open, seek, read, write, close | Z80, card | closing deferred from the interrupt to the loop | not modelled |
| Flash updates (`FLASH_UPDATE.cpp`, `../bootloader/`) | the STM32's and the FPGA's flash, by page and sector | erase, program, verify, delete the file, start | card, FPGA | page and sector boundaries, power cuts, damaged files | no image is given up with no other; a good file is installed |
| Players (`play_command_parser.cpp`, `WAV.cpp`, `VGM.cpp`, `PEG.cpp`, `voice_synthesizer.cpp`) | positions, loops, two buffers, the AY's registers, what is being said | commands, timer interrupt, refill, notes' ends | card, AY | interrupt against loop; loops over three channels; one AY for all | what was written is played and said; it ends; nothing sounds on |
| BASIC listings (`B81.cpp`) | the line being put together, numbers, labels, the program | two passes over the text, a line at a time | card, `LOAD` | two passes that must number alike; four parts that find strings and REMs each in its own way | the program is the listing, and its jumps go where the labels are |
| Debugger (`DEBUGGER.cpp`, `../z80rom/debugmon.asm`, FPGA) | queue of requests, breakpoints, picture, screen, snapshot, capture, load, trace | stop, step, run, poll, keys, reset | the program, the monitor that runs inside it, ESP32 | each request's result starts the next; stops come at any instruction | the program goes on as if it had never been stopped |
| Snapshots, RTC | | | | | see `PROJECT.json` |

Both processors run one endless `loop()`.  The ESP32's serves one thing after
another (web requests, then NTP, then the bridge, then the log), and every
request to the STM32 blocks it until the answer or the failure: at most one
request is under way.  The STM32 only answers: the ESP32's requests between
two commands of the Z80, and the Z80 byte by byte while a command lasts.

## The modules

| Module | Models | Notes |
|---|---|---|
| `UartLink` | `wifi_client_request` and `wifi_handler_poll` | used by `NetLink`, `FileServer` and `ListDir`; no specification of its own |
| `NetLink` | the bridge: `net_bridge_loop`, `wifi_client_net_poll`, `handle_net_poll`, `cmd_net_read`, `cmd_net_write` | extends `UartLink` |
| `BytePipe` | what a direction of the bridge promises | abstract specification, implemented by `NetLink` twice |
| `AltBit` | the alternating bit over two queues of frames | stated for any direction, used for both |
| `NetSafety` | properties of `NetLink`, and `NetInv`, the inductive invariant | |
| `NetInvProof` | proofs of the invariant, the streams, the refinement, and of the modem's safety properties | extends `NetSafety`, `AltBit` and `AtModem` |
| `AtModem` | the AT interpreter and its properties | fed by the stream `esp_log` of `NetLink` |
| `FileServer` | the file commands of `WIFI_HANDLER.cpp` | extends `UartLink`; used by the next three |
| `FileClient`, `FileSafety` | uploads, downloads, deletions, log flushes, and their properties | composes with `FileServer` |
| `FileProof` | proofs of the four safety properties of files | |
| `FwUpdate` | the firmware update with power cuts, and its property | composes with `FileServer` |
| `EspTasks` | `setup()` and the tasks of `loop()`, and their properties | composes with `FileServer` |
| `TasksProof` | proof of `NotesTrue` | |
| `ListDir` | `wifi_client_list_dir` with `handle_list_dir`, and its properties | extends `UartLink` |
| `B81` | the conversion of a .B81 listing into a program, and its properties | |
| `ListProof` | proofs of both properties of listings of directories, and of two of `B81` | extends `ListDir` and `B81` |
| `McuCommands` | what each handler of `COMMANDS.cpp` takes from the Z80 and gives it | a table of sequences, no state |
| `Z80Routines` | what each routine of the ROM and of the examples' library does on the port | extends it; the other side's table |
| `McuLink`, `McuSafety` | the handshake, `loop()` and the reset interrupt, running any routine against the handler it calls, and their properties | extends `Z80Routines` |
| `McuProof` | proofs of both safety properties of the command link | |
| `MqttClient`, `MqttSafety` | the MQTT client with its line and its broker, and its properties | |
| `MqttProof` | proofs of the three safety properties | |
| `Boot` | the bootloader and the update of the FPGA's flash, up to the start of `loop()`, and their properties | |
| `UpdateProof` | proofs of `ImagesKept`, `GoodFileInstalled` and `GoodImageSurvives` | extends `Boot` and `FwUpdate` |
| `PlayTune` | the strings of PLAY | operators over one channel and over all |
| `WavPlayer` | the WAV player: the interrupt and the loop | |
| `VoiceSynth` | the voice: numbers and text turned into items, `Speech` and the interrupt, and `SpokenWhole` | |
| `Players` | PLAY, WAV, VGM, PEG, the voice, their commands and the snapshot of them, and their properties | composes the three |
| `PlayersProof` | proofs of `Silence` and `SpokenWhole` | |
| `DbgZ80` | the program's machine, the break logic of the FPGA and the monitor | the other side of the debugger |
| `DbgQueue` | the queue of requests, breakpoints and registers | each extends the one before |
| `DbgVideo` | the picture: `v`, the debugger's screen, order 10, the shadow | |
| `DbgTasks` | steps, run to, history, snapshots | |
| `DbgLoad` | captures, and the loading of a snapshot | |
| `DbgStops` | stops, trace, web view, keyboard, the handler of `DBG_POLL` | |
| `Debugger`, `DbgSafety` | the user, the program with and without a debugger, and the properties | composes them |
| `MC...` | values of the constants | those of short instances are at the end of the module itself |

State and actions follow the code: variables have the names of the code's
variables where there is one, each request of the ESP32 is an action that
begins it and actions that end it (`Succeeds`, `Fails`), and each handler of
the STM32 is one action, as the STM32 runs it without interruption.
`PROJECT.json` maps each definition to its lines.

### How the line is modelled

A request goes into `reqs` whole, damaged (`Garbled`, answered with
`CMD_FRAME_ERROR`) or not at all; an answer goes into `resps` or is lost.  A
timeout may expire at any moment, so answers arrive arbitrarily late, behind a
repetition or behind another request.  `wifi_client_request` skips up to four
answers to other commands, but cannot tell an answer to an earlier request of
the same command: the models keep this.  Frames damaged so that the CRC does not
notice are excluded.  `tries` and `stale` are small (2 and 1; the code has 3 and
4): a second try is what makes a repetition and a late answer, a third only
repeats that.  Each serial buffer holds one or two frames; a frame for which
there is no room is lost.

In `FileServer` and `ListDir` answers carry the request they answer (`of`).  No
action looks at it; the properties use it to say "as long as no answer was taken
for another", which the code cannot exclude by design, and to leave that out of
properties that are about something else.  In `EspTasks`, where one task reads
through the handle another has just given back and so makes requests that are the
same byte for byte, they are also numbered: a late answer to the first
is no answer to the second.  Without that `NotesTrue` is not inductive.  Only a
`PING` has no number, as one stands for any other.

### How data is modelled

- Bytes of the bridge are numbers counted from 1, so that "1, 2, 3..." is a
  stream that is whole, once and in order; the protocol looks at no byte.
- A file is a sequence of pieces, a piece being what one chunk carries.  What
  is written through a handle is what others read once it is synced or closed,
  if the card keeps it; a read handle reads what the file was when it was opened.
  With `CardFails` any access may fail, `sync()` and `close()` too: then the card
  stays as it was, the answer is OK all the same (as `handle_write_sync` and
  `handle_write_close` give it), and `unkept`, which only the properties read,
  notes the file until a later sync or close of it succeeds.
- In the modem a command is one byte, as the line buffer's limit is the only
  thing that depends on its length; data is `"+"` or anything else.
- In the listing the entries of a directory do not change while it is listed.

### How the command link is modelled

The Z80 writes or reads port A7h, which raises `GET_DATA_REG`, and waits until
the clock bit has changed; a handler calls `GetByteFromZ80`, `SendByteToZ80` and
`ToggleClock` in an order that is its own, and `reset_commands` before or after
the last toggle.  Nothing on the port says what a byte is.  `commands` gives for
every entry of the table the sequences of calls its handler may make, `Routines`
the sequences of accesses the Z80 makes, and `McuLink` runs the one against the
other: the handler goes through its calls, each an action, while the Z80 goes
through its accesses, with every interleaving.  A parameter of which the code
looks at the length only is one byte, `Param(0)`; if one arrives where a command
is expected it may mean any.

The handlers' effects on the card, the sound and the FPGA are left out, except
those that change the sequence: lengths (`Lens`, `Sizes`), a card that fails
(`CardFails`), a directory that is a .T81, a ROM that resets the Z80, variables
never set (`Unset`).  Timing that the model takes for granted: the interrupt
comes before the STM32's next step, and `loop()` is one step from its top to the
call of a handler.

Some uses do not agree on the two sides.  `Odd` says which of them an instance
has; the main run has none, and TLC reports each of them when it is added (table below).

A comment of the code claims a loss that the code does not have.
`COMMANDS.cpp:1294-1303` (and 2285-2286, which refers to it) says that with the
last `ToggleClock` before `reset_commands`, which is the order of nearly all
handlers, a command the Z80 sends at once "se pierde en silencio", because
`get_data_reg` takes a command only while `command_active` is `CMD_IDLE`; its
example is `OPENDIR2` straight after `CD`.  `Mcu` has that case, every routine
straight after every other with the next byte sent between the toggle and
`reset_commands`, and `InStep` and `Answered` hold, for these reasons:

- `get_data_reg` is no interrupt.  Only `get_ctrl_reg` and `get_debug` are
  (`SD81BoosterV2_039_STM32.ino:78`, 80); it is called by `read_data`
  (`COMMS.cpp:265-268`), once per turn of `loop()` (`.ino:653`), so never while a
  handler runs.
- `GET_DATA_REG` and the byte are kept in hardware until `RST_DATA_REG`.  Between
  the last toggle and the end of a handler nothing pulses it: `ToggleClock` and
  `reset_commands` (`COMMS.cpp:173-181`) do not, and `data_ready`, which
  `reset_commands` clears, decides nothing.
- So the byte waits for the next turn of `loop()`, which finds it with
  `command_active` idle, in either order (`loop` and `Polled` in `McuLink`).
- `cmd_cd` itself has `reset_commands` first, as `cmd_opendir2` has, so that even
  the example is not of the order blamed.

The comment would be right if `get_data_reg` were called while a handler is still
at its end: by an interrupt on `GET_DATA_REG`, or by an `idle_tasks` that polled
it.  With such a step added to `McuLink` (the byte is taken while only
`reset_commands` is left, and dropped) TLC finds `Answered` violated, after a
handler with the order the comment blames: the Z80 waits for ever.

The uses in which the two sides do lose step:

| Use | What happens |
|---|---|
| `SaveInT81` | `SAVE` in a .T81 answers error 13 after the name, while the ROM goes on sending: the program's bytes are taken for commands |
| `SaveEmpty` | the ROM sends 65,536 bytes for a length of 0, the STM32 takes none |
| `EmptyDate` | `LOAD *RTC=""` gets 22 characters where it reads a status |
| `ICHR` | the Z80 waits for ever: both commands are disabled in the firmware |
| `NextChar` | after a listing given up it is taken for its continuation |
| `Spare` | two toggles in a row and none at the end |
| `LateBreak` | BREAK between the end of a tune and its answer: two toggles |
| `Sizes` with a size of `Wrap` or more | more data than the length says |
| `CardFails` | no length from a .T81 that does not open, nor from `GETROW` with no directory |
| `Unset` with more than 0 | `LOAD` of a missing file followed by data |

### How the debugger is modelled

The debugger stops a program by an FF (RST 38h) written over an instruction, by
the FPGA (pause, a number of instructions, a watched access) or by a trap, and
from then on a monitor inside the Z80 asks the STM32, poll by poll, what to do
with the program's memory and ports.  `z` is that machine, instruction by
instruction; `d` is what `DEBUGGER.cpp` keeps: the queue of requests with the
purpose of each, the breakpoints, and where each of its tasks is.  A result that
comes in with `DBG_POLL` goes to its task, which may queue more: the handler is
one action.  `g` runs the same program with no debugger, and takes what the user
changes on purpose; the properties compare the two.

A program is five places of code (one that changes itself, a call, an
instruction, the RST's and the NMI's), a stack, and one cell for each part of
memory and of the picture that is treated differently; in SLOW it is interrupted
anywhere.  A session is a list of commands, keys and resets; `MCDbg` has 295 of
them: long ones that use one part of the debugger after another, and all pairs
of a few commands, over programs in FAST and SLOW and five kinds of picture.
What the instance takes for granted:

- with `DRAINED` the user waits, after each command, until the debugger has
  nothing left to do (see below what happens otherwise);
- snapshots and captures are asked for while the program is stopped for good or
  runs freely, resets come while nothing is half done;
- the program does not write to an instruction that has a breakpoint, and does
  not use order 10, ROMLOCK or the alternative D_FILE in the ways `Jobs` leave
  out; files that hold the first page hold its shadow too;
- the queue holds 40 requests here and 96 in the code, and is never full: what
  a full queue loses is not looked at.

### How the players are modelled

A string of PLAY is a sequence of tokens, and the amplitudes of the AY are kept
as who gave them; pitch, samples and lengths are not.  `PlayTune` follows
`process_channel_event` token by token; the properties compare what was played
with `Meaning`, which writes the sections out.  The WAV player is the interrupt
that takes samples and switches buffers against the loop that fills them, in two
steps, with the request between them.  A VGM file is "on", "off", "wait" and
others; PEG programs are run with registers of four bits.

Of the voice, `Number` follows the functions that put a number into words, and
`Convert` one turn of `text_to_speech`; the tables have a few entries, and an
item (an allophone, or a word of a number with its pause) some samples.  `Speech`
is taken apart into its assignments, with the interrupt before any of them:
`step` says where it is.  `load_next_alophone` is one step; a sample repeated
between two of its assignments is not told apart.  `voice.said` is what was given
to the mixer (which takes the WAV's samples instead while one is played), and
`due` what should be.  `Garbled` is what a command may write over the strings of
a tune in the background.

### How the conversion of listings is modelled

`B81` takes a text as its physical lines: what each begins with (nothing, a
number, a label, a comment, `#!basic-start=`), whether it goes on in the next,
and its tokens.  What begins a line that another goes on in is text of it
(`MarkText`): a number is a number inside the line, and a label, whose `@` has no
code there, ends the conversion.  `b81_to_p` reads it twice: the first pass numbers the lines and
notes the labels, the second numbers them again and converts; each is an action
per line, with the line put together as `readLine` does.  Of the conversion,
which keeps its flags in several arrays over the line, every step is there with
its own way of finding strings and REMs; the codes of the characters are not.

### How flash is modelled

A cell is old, new, blank or spoiled: programming a cell that is not blank
spoils it.  Power may go at any step.  The user copies files, good, cut off or
damaged, while it is off.

## What is checked

Bounds are explained in each `.cfg`.  All runs explore their instance completely.

| Run | Shows |
|---|---|
| `Net` | both streams in the same frames, chunks of two bytes, with every loss, retry and late answer: streams exact, credit sound, offers repeated identically, `NetInv`, each direction implements `BytePipe`, and every byte put in comes out |
| `Files` | with a card that may fail at any access: an upload or download reported good is exact unless an answer was misread, a write executed twice, or, for an upload, the card did not keep the file when it was closed (which nobody is told); pieces never change order; the log's handle and what was flushed through it survive all the other jobs; every job ends, with the ESP32's loop as the only fairness: STM32, line and card may be dead |
| `Tasks` | from the start, with a call that fails or an answer that comes late anywhere, and a network lost or a user's change: when no task is under way the address on the card is the one in use unless it is noted as pending, the clock has been set since the last loss unless it is to be tried again, or the configuration was off or not readable, and everything put off is done in the end |
| `FwBoot` | with two boots and a power cut at any step, a good image is given up only after it was installed |
| `DirList` | a listing that succeeds has every entry once, in order; a repeated request gets the same page |
| `Modem` | data to the socket exact, escapes need both silences and do not stay undecided, no data mode without a line |
| `Mcu` | every handler against every routine, in any sequence: the handler always waits for what the Z80 does, the clock changes once for each access, and every routine ends |
| `Dbg` | 295 sessions: the program, its stack, its memory behind the breakpoints, its picture and the FPGA's settings are what they would be without the debugger, whenever it runs; no breakpoint is passed; a snapshot and a capture are the program at one moment; nothing is left half done |
| `Mqtt` | a ring of two, a list of two brokers of which the first may do anything, connections that end at any step: the ring and its counts are exact, a QoS 1 publication answered OK is at the broker, subscriptions come back with the session, and the session comes back |
| `Boot` | up to three power cuts, three copies of a file and a write that goes wrong: while a flash holds no whole image its file is on the card; a good file is installed over whatever was left |
| `Players` | every string of up to two notes and brackets, nested and unbalanced ones, songs for two voices, four WAV files, two VGM files and two PEG programs, texts with a number, with the other table and empty, strings of bytes with and without an end, any two commands (93,847 states): what is written is played, nothing sounds on after its player, what is begun in silence is said whole, and what is not for ever ends; numbers up to 1200, and others up to 999,999,999, are heard as what they are |
| `B81` | every line of up to five tokens, and every text of up to four short lines: jumps go where the labels are, every line is there once with its number, and only what is outside strings and REMs is converted |

`PROJECT.json` has the hazards each property is for.  Every property of a passing run is also run against a
mutant: an operator `M...` beside the definition it replaces, with a plausible
mistake (a dropped guard, a missing reset, an off-by-one), which the property
must catch.

### Fairness

- `Net` (for `Delivers`): both loops keep turning (`WF` on the ESP32's waits, on its ends of
  calls and on the STM32's service), the Z80 keeps reading, and the line is not
  bad for ever: of infinitely many polls sent with nothing late in the buffers,
  some get through, are answered, and the answer is read before the timeout
  (the `SF` conjuncts).  Without the last part no protocol could promise
  delivery; the code answers a poll in far less than its timeout of 300 ms.
- `Files` (for `JobEnds`): the ESP32's own steps.  Its waits end by timeouts in
  `wifi_client_read_frame_raw`, so nothing else is needed.
- `Modem` (for `EscapeHonoured`): the loop goes on with each chunk and looks at its timeouts, and
  time goes by.
- `Tasks` (for `CatchesUp`): both loops go round (`WF`), each task of `loop()`
  comes to its turn though others may be due each time (`SF`), and a network or
  a server that is tried again and again answers at last (`SF`).  The line fails
  a bounded number of times.
- `Mqtt` (for `Recovers`): `loop()` goes round (`WF` of one action, `Turn`), and
  the brokers in `Reliable` accept a connection in time.
- `Players` (for `Ends`): `loop()` goes round, the timer's interrupt comes (also
  for the voice), `Speech` goes on once begun, and notes and waits end.
- `Dbg` and `Boot` state no liveness: `NothingHalfDone` says instead that the
  debugger, when it has nothing to ask for, waits for nothing.
- `Mcu` (for `Answered`): the Z80 goes on with the routine it has begun, the
  STM32's loop and interrupt run, and a tune ends.  Nobody has to begin a
  routine, press BREAK or reset anything.

## What is proved

With TLAPS, for every value of the constants that satisfies the assumptions of
the module: `LinkBounds` and `NetBounds` (positive capacities; the first credit
fits the receive buffer), `ModemBounds` (sizes are numbers, commands are those
of the interpreter), `BootBounds` (sizes are numbers; a word, a page and a
sector are not empty, a sector is a number of pages; an absent file is no file), `UpdateBounds` (the good image is not empty and fits the partition),
`ServerBounds` and `ClientBounds` (there is a handle; what is on the card at
first was not uploaded by a job of the model), `TasksBounds` and `CardsReadable`
(bounds are numbers; what is on the card at first are files, and each is a
sequence), `TuneBounds`, `PlayersBounds` and `VoiceBounds` (there is a channel, bounds are numbers,
songs are made of tokens, texts of characters and numbers, an item has a sample), `B81Bounds` (sizes are numbers), `ListBounds` (pages hold
something, sizes are numbers), `MqttBounds` (slots are counted, the ring holds
something, there are two identifiers, each list has a broker), `LensAssumption`
and `OddAssumption` (lengths are numbers, 0 one of them; the unusual uses are
those of the table above):

| Theorem | Statement |
|---|---|
| `TypeCorrect` (`NetInvProof`) | `Spec => []TypeOK`: all buffers within their bounds |
| `NetInvariance` (`NetInvProof`) | `Spec => []NetInv` |
| `CreditIsSound` (`NetInvProof`) | `Spec => []CreditSound`: a chunk not stored yet fits |
| `DeliveryToZ80`, `DeliveryFromZ80`, `DeliveryBothWays` (`NetInvProof`) | `Spec => []StreamToZ80`, `Spec => []StreamFromZ80`, `Spec => []Streams` |
| `OffersAreStable` (`NetInvProof`) | `Spec => ReofferSame` |
| `BridgeIsTwoPipes` (`NetInvProof`) | `Spec => Pipes`: `NetLink` implements `BytePipe` in both directions |
| `LineInDataMode`, `DataIsExact` (`NetInvProof`) | `ModemSpec => []ModeFollowsLine`, `ModemSpec => []SocketExact` |
| `EscapeIsDeliberate` (`NetInvProof`) | `ModemSpec => EscapeNeedsSilence` |
| `NoImageLost` (`UpdateProof`) | `BootSpec => []ImagesKept` |
| `GoodFileIsInstalled` (`UpdateProof`) | `BootSpec => []GoodFileInstalled`, if the records of good `.mcs` files are in order (`AllAscend`) |
| `GoodImageIsKept` (`UpdateProof`) | `Spec => []GoodImageSurvives`, if `~CardFails` |
| `InTheOrderOfJobs` (`FileProof`) | `Spec => []BaseInv`: requests are run in the order of the jobs, and of their jobs |
| `UploadsInOrder`, `UploadIsExact` (`FileProof`) | `Spec => []UploadOrdered`, `Spec => []UploadExact` |
| `DownloadIsExact`, `LogIsKept` (`FileProof`) | `Spec => []DownloadExact`, `Spec => []LogKept` |
| `TasksInvariance`, `NotesAreTrue` (`TasksProof`) | `Spec => []TasksInv`, `Spec => []NotesTrue` |
| `PlayersInvariant`, `NoteEndsWithPlayer` (`PlayersProof`) | `Spec => []PlayersInv`, `Spec => []Silence` |
| `VoiceInvariant`, `SaidWhole` (`PlayersProof`) | `Spec => []VoiceInv`, `Spec => []SpokenWhole` |
| `ListingIsExact` (`ListProof`) | `Spec => []ListingExact` |
| `RepeatedPage` (`ListProof`) | `Spec => RetrySamePage`, if no directory has more entries than the index counts |
| `B81Invariant` (`ListProof`) | `B81Spec => []B81Inv` |
| `JumpsArriveAtLabels`, `ListingIsWhole` (`ListProof`) | `B81Spec => []Jumps`, `B81Spec => []WholeListing` |
| `SubscriptionsReturn`, `RingIsExact` (`MqttProof`) | `Spec => []Resubscribed`, `Spec => []QueueExact` |
| `ConfirmedIsStored` (`MqttProof`) | `Spec => []Published`, if the identifiers do not start again |
| `NeverOutOfStep`, `TogglesOnce` (`McuProof`) | `Spec => []InStep`, `Spec => OneToggle`, if the uses and the card are those both sides agree on (`Agreed`) |

The streams are not inductive by themselves: a late request or answer still on
the line could be accepted later.  `AltBitInv` says, for one direction, over the
whole queues of frames from sender to receiver and back: while the bits differ,
frames that carry the sender's current bit come after all that carry the old one
and hold exactly what the sender offers, and no echo of the current bit is on
its way back; while they agree, the mirror of it.  The lemmas
about `AltBitInv` in `NetInvProof` show that offering, taking, storing, echoing, confirming and loading preserve
it, once for both directions.  `CreditLine` adds that every credit held or on
its way, also in a late answer, is backed by room.  `NetInvProof` composes them
per action, then adds the histories and shows of each
action whether it puts, takes or leaves the pipe alone.

For the modem, `SocketExact` says what is held back, and not where it came from:
after it alone, three `+` in the middle of the data could be held.  `ModemInv`
adds (`HeldBack`) that the bytes held back are the last ones of the data, at
most three, and that the first of them came after silence.  With that a byte
more is held, released or sent (`HoldMore`, `ReleaseAll`, `SendMore`), three of
them leave the data as an escape (`Escape`), and an escape is deliberate.

For the flash updates, `ImagesKept` is not inductive: a flash begins to change
one step after the file was found, and a file goes one step after it was
compared.  `BootInv` adds `Found`, what each stage knows of the files.
`GoodFileInstalled` is about how an update ends; `AppInv` and `FpgaInv` say, as
long as no write went wrong, how far it has come: of the application, which
sectors are blank and which words are programmed; of the FPGA's flash
(`RecordsInv`), that a byte read from the file is in the page begun or in the
flash, in a sector erased before or now, and that what follows the page in the
sector erased last is blank.  A page never spans two sectors, as a sector is a
number of pages.  The theorem assumes that the records of a good file ascend,
do not overlap and fit the flash, as those of the instance do; otherwise a sector
is erased again after it was programmed (see below).

For the ESP32's update, `GoodImageSurvives` is about the card, and a late request
can change the card.  `FwInv` says, while the image is good and no answer was
taken for another, that every frame on the line is one a good image gives rise
to: no request to delete it before it is installed, and each `READ_CHUNK`
answered with the piece at the offset it asked for (`LineRight`); that the card's
handles read the image (`CardRight`); and that what was read is a prefix of it,
all of it when the file ends, unless the line failed (`UpdRight`).  The theorem
assumes `~CardFails`: a read error on the card looks like the end of the file,
and the image is then deleted (see below).

For files, no property looks inductive at first: a late request of an earlier
job could always change the card.  `BaseInv` says why it cannot.  The line is
first in, first out and a job begins when the one before has ended, so that the
numbers of the jobs never decrease from the request the STM32 ran last through
those on the line to the one the ESP32 is making, nor do, within a job, the
steps and pieces (`OrderInv`).  When the STM32 runs a request of a job, no
request of an earlier one can come any more.  On top of it, each property has
what it needs about its own jobs: `PiecesInv`, that in a handle the pieces of
the job being served are behind its position and none is further in the upload
than the request run last; `DownInv`, that a read handle, the
answers on their way and what the browser has agree with the file, which cannot
change meanwhile; `LogInv`, that no request on the line but the log's own is
about its handle; `UpInv`, that while no request of the upload ran twice, the
next is made when the answer to the one before has been read, so that an answer
under way is to the request being made, and the handle holds the first pieces of
the upload, as many as have been confirmed.

For the ESP32's tasks, `NotesTrue` compares a flag with the card and with the
STM32's clock, after a task of many calls of which each can be answered late.
`TasksInv` says, as long as no answer was taken for another, that nothing is sent
behind the request made but its repetitions (`LineRight`), so that once it is
answered nothing older is on its way; that the request is the one of the step
(`AsksRight`); and what each step has done by then: what was read is a prefix of
the file in the handle, and that file is a configuration that is on, unless the
note is excused (`ReadRight`); the handle that writes IP.TXT holds nothing but the
address, and before the note is dropped the file does, unless it is noted that
the card did not keep it (`AddressRight`).  Between
the tasks `FileRight` keeps it: no request on its way opens IP.TXT or closes a
handle that writes it.  `ClockRight` follows the clock from a confirmed
`SET_TIME` to the next loss of the network.  Each action of `Next` has a lemma;
`StmKeeps` is the one for the STM32, which may run a repetition of any request
still on the line.  The note about the clock need not be true (`excused`) when the
configuration was off, or when NTP.CFG could not be opened or read to its end,
which the code takes for off.

For the players, `Silence` is about who gave an amplitude, and a step of PLAY
goes through any number of tokens in each of any number of voices.  `PlayersInv`
adds what the strings, the VGM and the snapshot may be at (`TuneRight`,
`VgmRight`, `SnapRight`).  `TokenWay` says what one token comes to: a note is
PLAY's, a rest nobody's, and only an H halts, in a string that has one.  `RunWays`
carries that over the tokens of an event, by induction with sets of numbers, and
`DoChannelWithin` and `UpdatedWithin` over the voices: when a voice has ended the
tune, the AY was silent then, and what sounds now is of a later voice
(`HaltedBy`).  `UpTo` and `StepsExist` are the induction and the existence of the
functions defined by recursion that this takes.  The proof does not use how many
times a section is played.

`SpokenWhole` is about items already said, and an interrupt may come between any
two assignments of `Speech`.  `VoiceInv` says, of what was begun in silence,
where it is (`Alone`): until `Speech` has loaded an item there is none, so that
the interrupt does nothing; after it the sequence is what is due, the item is the
one before the index, and as many are said as lie behind it, one less while it
has samples left (`Midway`).  `NextRight` and `SampleRight` keep that through an
item and a sample, `SpeechStepRight` through the steps of `Speech`, and
`SpeakRight` says that every way to begin one gives a sequence with an end: for a
text it takes that `Spelled` is made of items, over the recursion of its turns
(`ConvertItems`, `SpelledItems`), for bytes that what follows them on the stack
ends somewhere.

For the conversion of listings, `Jumps` and `WholeListing` compare what one pass
wrote with what the other finds.  `B81Inv` adds that the next line of the text is
one at which a line of the program begins (`Boundary`: `readLine` takes the
continued ones with it); that the second pass has converted the lines that are
wanted up to there, each once, with increasing numbers (`SoFar`); and, if no
number is so far to the right that only the second pass sees it (`~Far`), that
one and the same numbering `G` of the lines explains what the first pass noted of
the labels and what the second has written (`Agree`): the first pass builds it a
line at a time (`FirstOf`), the second follows it (`SecondOf`).  `LeastIs` and
`GreatestIs`, from the library's theorem about well-founded relations, give the
ends that `CHOOSE` picks.

In a listing, cursor and index may disagree only in a directory with more entries
than the index counts.  `ListInv` says that in the others the cursor is where its
index says, so that a page is a function of the request; the listing so far then
is the directory up to `next`.  `RepeatedPage` assumes it of all directories;
without that it is false (see below).

For MQTT, each property has an invariant of its own on top of `TypeInv`.
`SubsInv`: while the session is up, the topic of each slot in use is either
decided by the broker with no UNSUBSCRIBE of it under way, or its SUBSCRIBE is
under way with no UNSUBSCRIBE behind it; on a quiet line only the first is left.
`RingInv`: place `i` from the head, counted modulo the ring's size, holds the
`i`-th of the newest messages, and messages are numbered upwards from what was
read over the ring to the line (`InOrder`).  The lemmas `Places`, `Apart` and
`Shifted` say what counting modulo a size does.  `PubInv`: no identifier under
way is newer than the last, and those that equal the awaited one are the awaited
publication's.  Its theorem assumes that the identifiers do not start again, as
they do after 65,535; it does not hold without that (see below).

For the command link an invariant cannot list the states: the tables hold whole
families of sequences, of any length, and a place in a routine must be related to
the place in the handler.  `McuProof` says it by what can go on from there.
`Fits` is the largest relation between the rest of a routine and the rest of a
handler that every exchange preserves, so that in no order does one wait for what
the other never does: `Waits` where the STM32 owes a toggle, `Goes` where it owes
none, `Offers` where it has put a byte.  As the largest, it is proved of a family
by naming a relation that is preserved; strings and blocks by induction over their
length, with sets of numbers (`NaturalsInduction` takes an operator and cannot be
used).  `AllSuit` puts the families together: every routine
fits every sequence of calls that the handler of its command may make, and
afterwards nothing but a command is waited for.  `IndInv` then is
eleven phases, from `Resting` to `ReadOut`, that the handshake goes through, and
each holds what is left on both sides in `Fits`; one lemma per action shows that
it leads from phase to phase, also when BREAK, a reset or the next command ends
what the handler was at.  `Agreed` is the main run's instance without its small
numbers: `Odd = {}`, `~CardFails`, `Unset = {0}`, and lengths of files that fit
their two bytes.  Whatever it leaves out is a row of the table above, where the two sides
really lose step.

Only model-checked:

- liveness, as the provers do not handle fairness and `ENABLED`;
- `NotesExact`, which compares what was played with what a recursive function of
  the whole string gives (`Meaning`): the provers have no induction over data.
  Its instance has every short string and some long ones, each played for as many
  steps as `Enough` bounds: a state of the stack of repetitions for each place;
- `TextKept`, which counts quotes in sequences that recursive functions build;
- the debugger: `DbgZ80` declares a `RECURSIVE` operator (`Pokes`), and what the
  provers have for arithmetic and sequences does not work in a module that reaches
  one.  That is `Transparent`, `VideoRestored`, `NothingHalfDone`, `NeverPassed`
  and `CopiesExact`; its instance is a finite list of programs and
  sessions, which `Dbg` explores to the end.

## Where the code does not do what one would expect

Met while modelling; the properties name these cases as their exceptions, or the
instances leave them out.

Files and the line:

- `handle_write_chunk` (`WIFI_HANDLER.cpp:380`) appends a `WRITE_CHUNK` sent
  again, and the upload is reported good (`Wifi_module_01.ino:220-225` wants the
  real result).  A `WRITE_OPEN` sent again, or an upload broken off, keeps a
  handle; with the log's that is both, and the file service ends.
- `handle_write_close` (`WIFI_HANDLER.cpp:392-399`) and `handle_write_sync`
  (413-414) look at no result of `sync()` and `close()` and answer OK: with a card
  that fails there, an upload is reported good, and IP.TXT noted as written, and
  neither is on the card.  `UploadExact` and `NotesTrue` except that (`unkept`),
  and are violated without the exception if `CardFails`.
- The last page of a listing asked for again past 256 entries is another page
  (`WIFI_HANDLER.cpp:222`, against the comment at 149-151).
- A read error on the card looks like the end of the file, and the update
  deletes a good image as bad.
- `download_text_file` (`WIFI_CLIENT.cpp:249-254`) takes a `READ_OPEN` that
  failed on the line for a file that is not there: the clock counts as switched
  off and is not tried again, against `Wifi_module_01.ino:954-958`.
- `check_ntp_sync_flag` deletes the flag first: if setting the clock fails then,
  and `ntp_stop_retrying` is set, the request is lost.
- `handleNtpSave` looks at no result after `WRITE_OPEN`: an NTP.CFG that could
  not be written is empty, which means off.

Boot:

- `prog_flush` (`FLASH_UPDATE.cpp:32`) remembers the last sector erased, and no
  other.  An `.mcs` that comes back to a sector erases it again, is found
  different by the second pass, and is refused each time.
- A damaged `/SD81.MCS` leaves the FPGA without an image and `setup()` waits for
  FPGA_DONE for ever (`SD81BoosterV2_039_STM32.ino:261`; the comment at 245-246
  says that the rest goes on).
- The bootloader programs a file that is too large without erasing for it, never
  accepts one whose length is no multiple of 4, and does not check the
  application when there is no file.

Command link: the table above, `COMMANDS.cpp:786`, and the comment at
`COMMANDS.cpp:1294-1303`, which tells of a lost command that the polled port does
not lose (above).

MQTT (`NET_MQTT.cpp`):

- A SUBACK ends any wait for one, whatever its identifier (173-175, 505-508).
- `acked_id` (80) keeps the last identifier confirmed for ever.  When the
  identifiers have started again, a publication that gets it is answered OK with
  no confirmation of its own.
- A QoS 1 message too long for the ring is confirmed and lost.
- An `AT+MQTTSUB` answered ERROR for lack of a SUBACK keeps its slot; wrong
  arguments of `AT+MQTT=` end the session there was.

Players:

- A `)` with nothing to play before it holds `process_channel_event`
  (`play_command_parser.cpp:104`, 386) for ever, over a reset too.
- After an `H` the voices that follow it are still gone through, and a note of
  theirs stays on (336, 557).
- The strings of a tune in the background are in `params`, `param2` and
  `param3`, which later commands write over (`COMMANDS.cpp:1554-1602`).
- WAV: a read that fails returns -1, which is kept unsigned, and the interrupt
  runs past the buffer; a bad header leaves the player on with the other file; a
  file that is not there passes for good after a good one.
- VGM: the serial port's `PLAYVGM` starts also when the file did not open; after
  a stop the header is played; with the loop mode a file that closed is asked
  for ever.
- PEG: `SUB VAR,VAR` runs on into `ADC` (`PEG.cpp:129-135`), `OR` copies,
  `ADD REG` never carries; `cmd_load_PEG`'s counter of one byte never reaches
  an end above 255.
- Voice (`voice_synthesizer.cpp`): 0 is not said (528; the word for it is in the
  table), a number from 10^9 on says "million" for its billions too (653, `billon`
  is not used), and "RAYS" is never found behind "RAY" (201-202).  What is begun
  over something else may lose its beginning, or be lost: the interrupt reads the
  new sequence at the old index, and may end it before `Speech` loads the first
  item (809).  `SpokenWhole` excepts that (`alone`) and is violated without the
  exception.  `cmd_binary_say` ends its bytes with two 0s
  (`COMMANDS.cpp:1467-1468`), which are an allophone, and what follows on the
  stack is said too.
- A snapshot neither keeps nor silences PLAY, and a note it gives back with no
  VGM to end it sounds on.

Listings (`B81.cpp`):

- The first pass looks for what begins a line in the `HEAD` characters it keeps
  (`charAt`, 264), the second in the whole line.  A number further right is seen
  by the second only: the labels after it carry numbers that their lines do not
  have, and `GOTO @label` goes elsewhere, without an error.  `Jumps` excepts such
  texts (`Far`) and is violated without the exception; the comment in `B81.h:16-17`
  has the first pass number the lines for the second.
- A read error on the card is taken for the end of the text (`COMMANDS.cpp:443`),
  and the program goes to the Z80 as if whole.

Debugger (`DEBUGGER.cpp`):

- After `v`, `c` without waiting: `view_apply`'s late `TAG_VIEW_SYNC` switches
  order 10 off before the POKEs of `view_off`, and the program goes on with the
  debugger's picture (226).
- The end of `LD_BLOCK0` writes `ld_buf[0]` while a queued request uses it
  (2396-2405).
- `dbg_reset` (1188) leaves the state of a snapshot, a capture and a trace; a
  reset between a stop and the removal of the FFs leaves FFs in the memory.
- A capture asked for in a trace loses requests; `on_break` clears the queue
  that `view_off` or `ui_hide` had filled when a snapshot or a capture was asked
  for in a step or a trace; a pause between `c` and CONT is lost.
- A breakpoint on a RST 38h of the program's own is never left.
- `ld_begin` reads ROMLOCK after it has been switched off, and the alternative
  D_FILE is told from the shadow only.

## What is not modelled, and what the models leave out

- A crash of one processor alone (`ESP.restart` in the update comes before any
  chunk): the power switch restarts both.  The bridge's bits would disagree
  after it; see the hazards.
- Bytes that do not fit `txq` are dropped by `txq_push` and never enter the
  stream to the Z80.  What fills `txq` (socket, AT answers, MQTT) is one source.
- `STAT` and `MKDIR` keep no state between requests; the requests of the other
  clients appear in `NetLink` as "another command".  The debugger's `DBG_POLL`
  comes from its monitor over the byte handshake, and is one step in `Debugger`.
- Failed writes to the card write nothing, a sync that fails leaves the card as it
  was and the handle as good as before, and a handle opened twice on the same
  file is not coordinated (SdFat, outside this repository).
- A listing that took an answer for another may go round for ever; its contents
  are not kept.
- On the command link, a reset in the middle of a handler (a Z80 that is itself
  reset while a routine runs): the handler goes on waiting and takes the next
  command for a parameter.  Nor `LoadROM`, which runs before the ROM starts, nor
  the two commands of the debugger's monitor.
- `NET_READ` and `NET_WRITE` are one step each in `NetLink`; `McuLink` has their
  bytes and not their data.
- In the update, `Update.write` does not fail and the log is not flushed before
  the restart.
- In `EspTasks` the WiFi library joins only when asked (it may by itself, with
  another address), the log keeps no handle, and in its run the card does not
  fail (with one that always does, nothing would be caught up with); `NotesAreTrue`
  is proved for one that may.
- In the instance of `MqttClient` the identifiers do not start again, a session
  has one slot for a subscription, and there is one list of brokers; its proofs
  are for any.
- In `Players` there is one thread of PEG; loads between its variables and the
  AY's registers are represented by one; of the voice's tables there are a few
  entries.  The images (JPG, BMP) are data processing and left out, as are the
  disassembler and the text of what is printed.
- In the debugger: symbols, sprites, the second AY, the double buffer, a
  snapshot file with errors, and an ESP32 that restarts alone and uses the
  numbers of its commands again (`dbg_web_exec`, 3784).
- The random-access files, whose effects are the card library's, and BASIC's
  ROM, the FPGA's video and sound, and the tools.

## Plan

Done: the link, the bridge with its proofs, the modem, files, the ESP32's tasks,
the updates, listing, MQTT, the players with the voice, the conversion of listings, the debugger
and the Z80's command link.  What would come next:

1. `McuFiles`: the four random-access handles and the virtual image on top of
   `McuLink`, with their closing deferred from the interrupt to the loop.
2. A reset at any moment in `McuLink`, with a property that says what is
   recovered and when, and a restart of one processor alone in `NetLink`.
3. The debugger without `DRAINED`, once the code waits by itself.

Proofs to add: those of the debugger, once `Pokes` is a fold and the sessions its
instance leaves out (`Jobs`) are assumptions of the module.
