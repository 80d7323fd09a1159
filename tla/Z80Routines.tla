----------------------------- MODULE Z80Routines -----------------------------
(***************************************************************************)
(* What the Z80 does on the data port to use each command: the accesses of *)
(* the ROM's LOAD * commands and of the library that the programs under    *)
(* EXAMPLES/ share.  After each access the routine waits for the clock.    *)
(* A routine is named after its label in z80rom/sdhandler.inc.asm or in    *)
(* the example; the examples' routines are in lower case.                  *)
(***************************************************************************)
EXTENDS McuCommands

CONSTANT Odd    \* the uses, of the set OddUses, that this instance has

\* Uses that a ZX81 program can make and that the two sides do not agree on.
OddUses ==
  { "SaveInT81",   \* SAVE when the current directory is a .T81
    "SaveEmpty",   \* SAVE FAST "X" CODE a,0: the ROM sends 2^16 bytes
    "EmptyDate",   \* LOAD *RTC=""
    "ICHR",        \* LOAD *ICHR
    "NextChar",    \* GET_NEXT_CHAR on its own
    "Spare",       \* a reserved command
    "LateBreak" }  \* BREAK in the instant between the end of a tune and the
                   \* answer to it

ASSUME OddAssumption == Odd \subseteq OddUses

-----------------------------------------------------------------------------
(* Accesses.                                                               *)

Send(c)  == [a |-> "send", c |-> c]              \* OUT of a command
Out(v)   == [a |-> "out", v |-> v]               \* OUT of a parameter
Last(v)  == [a |-> "last", v |-> v]              \* the same, BREAK is looked at
In       == [a |-> "in"]
InCount(then) == [a |-> "incount", then |-> then]  \* a length, and what follows
InChar   == [a |-> "inchar"]                     \* a character of a listing

Filled == Lens \ {0}
Ins(n)        == Times(n, << In >>)
InBlock       == InCount([n \in Lens |-> Ins(n)])
SendString(n) == << Out(n) >> \o Times(n, << Out(0) >>)

\* PrintCmdOutput asks for one character after another.
PrintCmdOutput == << Send("cmd_get_next_char"), InChar >>

-----------------------------------------------------------------------------
(* Routines: sets of sequences of accesses.                                *)

Alone(cs)         == { << Send(c) >> : c \in cs }
StrToStatus(cs, ns) == { << Send(c) >> \o SendString(n) \o << In >> : c \in cs, n \in ns }

SetTapeOnOff  == { << Send("cmd_setbyte"), Out(0), Out(0) >> }
GetMCUVersion == { << Send("cmd_ver"), In >> }
GetFPGAVersion == { << Send("cmd_get_fpga_version"), In >> }
ChkTapeMode   == { << Send("cmd_getbyte"), Out(0), In >> }
SDLoad == { << Send("cmd_load") >> \o SendString(n) \o << In, InBlock, In >> : n \in Filled }
SDSave == { << Send("cmd_save") >> \o SendString(n) \o << Out(0) >> \o SendString(m)
            \o << In >> : n \in Filled, m \in Filled }
SDSaveEmpty == { << Send("cmd_save") >> \o SendString(n) \o << Out(0), Out(0) >>
                 \o Times(Wrap, << Out(0) >>) \o << In >> : n \in Filled }
CmdDIR == { << Send("cmd_dir_open") >> \o SendString(n) \o PrintCmdOutput : n \in Lens }
CmdPRINT == { << Send("cmd_type") >> \o SendString(n) \o PrintCmdOutput : n \in Filled }
CmdPWD == { << Send("cmd_pwd") >> \o PrintCmdOutput }
CmdFREE == { << Send("cmd_free_txt") >> \o PrintCmdOutput }
SendCmdAndStr ==
  StrToStatus({"cmd_mkdir", "cmd_rmdir", "cmd_cd", "cmd_opendir2", "cmd_del", "cmd_play_VGM"},
              Filled)
SendStrToStr ==
  { << Send(c) >> \o SendString(n) \o SendString(m) \o << In >> :
      c \in {"cmd_copy", "cmd_move"}, n \in Filled, m \in Filled }
CmdROW  == { << Send("cmd_getrow"), Out(0), Out(0), InBlock, In >> }
CmdPAGE == Alone({"cmd_fullpaging"})
CmdICHR == Alone({"cmd_enable_ich_table", "cmd_disable_ich_table"})
CMD_ONOFF_BC ==
  Alone({"cmd_enable_48K", "cmd_disable_48K", "cmd_romlock_on", "cmd_romlock_off",
         "cmd_fullpaging", "cmd_halfpaging", "cmd_enable_mc45", "cmd_disable_mc45",
         "cmd_enable_dst", "cmd_disable_dst"})
Common64_128C == Alone({"cmd_sel_64_chars", "cmd_sel_128_chars", "cmd_sel_256_chars"})
CmdZ81 == { << Send("cmd_loadZ81dbg") >> \o SendString(n) \o << In, In >> : n \in Filled }
CmdJOY == StrToStatus({"cmd_joy"}, Lens)
CmdSAY == StrToStatus({"cmd_say"}, Lens)

\* BREAK is looked at while the last byte of the third string is not confirmed.
LastString(n) == [SendString(n) EXCEPT ![n + 1] = Last(SendString(n)[n + 1].v)]
CmdPLAY == { << Send("cmd_AY_play") >> \o SendString(n) \o SendString(m) \o LastString(k)
             \o << In >> : n \in Lens, m \in Lens, k \in Lens }
VGMThen    == Alone({"cmd_pause_VGM", "cmd_stop_VGM", "cmd_cont_VGM"})
CmdVGMLOOP == { << Send("cmd_loop_VGM"), Out(0) >> }
CmdPEG     == { << Send("cmd_load_PEG"), Out(0) >> \o SendString(n) :
                  n \in {m \in Lens : m % 2 = 0} }
PEGRun     == { << Send("cmd_play_PEG"), Out(0), Out(0) >> }
DoPEG      == { << Send(c), Out(0) >> : c \in {"cmd_pause_PEG", "cmd_stop_PEG", "cmd_cont_PEG"} }
CmdPEB     == { << Send("cmd_sdload_PEG") >> \o SendString(n) \o << Out(0), In >> : n \in Filled }
CmdBAT     == { << Send("cmd_bat") >> \o Ins(5) \o << In >> }
DateRead   == { << Send("cmd_rtc"), Out(0) >> \o Ins(DateLen) \o << In >> }
DateSet    == StrToStatus({"cmd_rtc"}, IF "EmptyDate" \in Odd THEN Lens ELSE Filled)
NtpOffsetSend == { << Send("cmd_ntp_setoffset"), Out(0), In >> }
NtpServerSet  == StrToStatus({"cmd_ntp_setserver"}, Lens)
NtpForceSync  == Alone({"cmd_ntp_sync"})

f_name_cmd == StrToStatus({"cmd_f_open", "cmd_f_create", "cmd_f_open_zx81",
                           "cmd_f_create_zx81"}, Filled)
f_open_img == { << Send("cmd_f_open_img") >> \o SendString(n) \o << Out(0), In >> : n \in Filled }
f_seek  == { << Send("cmd_f_seek") >> \o Times(5, << Out(0) >>) \o << In >> }
f_read  == { << Send("cmd_f_read"), Out(0), Out(0), Out(n) >> \o Ins(n) \o << In >> : n \in Filled }
f_write == { << Send("cmd_f_write"), Out(0), Out(0) >> \o SendString(n) \o << In >> : n \in Filled }
f_close == { << Send("cmd_f_close"), Out(0), In >> }
f_stat  == { << Send("cmd_f_stat"), Out(0) >> \o Ins(8) \o << In >> }
net_read  == { << Send("cmd_net_read"), Out(n), InBlock, In, In >> : n \in Lens }
net_write == { << Send("cmd_net_write") >> \o SendString(n) \o << In, In >> : n \in Lens }

\* Commands that the manual documents (15.5) and neither the ROM nor these
\* examples use.
ByManual ==
  { << Send("cmd_nop") >>,
    << Send("cmd_free") >> \o Ins(9),
    << Send("cmd_getrowlen"), Out(0), Out(0), In, In >>,
    << Send("cmd_AY_set_reg"), Out(0), Out(0) >>,
    << Send("cmd_AY_get_reg"), Out(0), In >> }

\* What the Z80 may begin when T81_dir is t81.
Routines(t81) ==
  (UNION { SetTapeOnOff, GetMCUVersion, GetFPGAVersion, ChkTapeMode, SDLoad, CmdDIR, CmdPRINT,
          CmdPWD, CmdFREE, SendCmdAndStr, SendStrToStr, CmdROW, CmdPAGE, CMD_ONOFF_BC,
          Common64_128C, CmdZ81, CmdJOY, CmdSAY, CmdPLAY, VGMThen, CmdVGMLOOP, CmdPEG, PEGRun,
          DoPEG, CmdPEB, CmdBAT, DateRead, DateSet, NtpOffsetSend, NtpServerSet, NtpForceSync,
          f_name_cmd, f_open_img, f_seek, f_read, f_write, f_close, f_stat, net_read,
          net_write, ByManual })
  \cup (IF t81 /\ "SaveInT81" \notin Odd THEN {} ELSE SDSave)
  \cup (IF "SaveEmpty" \in Odd THEN SDSaveEmpty ELSE {})
  \cup (IF "ICHR" \in Odd THEN CmdICHR ELSE {})
  \cup (IF "NextChar" \in Odd THEN { << Send("cmd_get_next_char"), In, In >> } ELSE {})
  \cup (IF "Spare" \in Odd THEN Alone({"cmd_spare"}) ELSE {})
=============================================================================
