----------------------------- MODULE McuCommands -----------------------------
(***************************************************************************)
(* What each command handler of the STM32 says to the Z80: the sequence of *)
(* its ToggleClock, GetByteFromZ80, SendByteToZ80 and reset_commands       *)
(* calls, under the handler's name.  What it does meanwhile to the card,   *)
(* the sound or the FPGA is left out, except where it changes the          *)
(* sequence.                                                               *)
(***************************************************************************)
EXTENDS Naturals, Sequences

CONSTANTS
  Lens,       \* lengths of strings, blocks and listings
  Sizes,      \* of the files on the card
  Wrap,       \* the length of a file is sent in two bytes: 2^16 in the code
  CardFails,  \* TRUE if a file that is there may not open
  Unset       \* what fsize2 - i may be when cmd_load has set neither

ASSUME LensAssumption ==
  /\ Lens \subseteq Nat /\ 0 \in Lens
  /\ Sizes \subseteq Nat /\ 0 \in Sizes
  /\ Wrap \in Nat \ {0}
  /\ CardFails \in BOOLEAN
  /\ Unset \subseteq Nat /\ 0 \in Unset

\* n copies of the sequence s, one after another.
Times(n, s) == [i \in 1..(n * Len(s)) |-> s[((i - 1) % Len(s)) + 1]]

Least(a, b) == IF a < b THEN a ELSE b

-----------------------------------------------------------------------------
(* The calls.                                                              *)

EOT    == 111                                    \* 0x6F ends a listing
Ack    == [op |-> "ack"]                         \* ToggleClock
Get    == [op |-> "get"]                         \* GetByteFromZ80, a parameter
Put(v) == [op |-> "put", v |-> v]                \* SendByteToZ80
Done   == [op |-> "done"]                        \* reset_commands
Char   == [op |-> "next"]                        \* GET_NEXT_CHAR, or give up
Play   == [op |-> "play"]                        \* the wait for a tune
Chdir  == [op |-> "chdir"]                       \* T81_dir is set anew
Reboot == [op |-> "reboot"]                      \* the Z80 is reset

\* A byte n that decides how the handler goes on.
Count(then) == [op |-> "count", then |-> then]

Status == Put(0)
String == Count([n \in Lens |-> Times(n, << Ack, Get >>)])
Listing(n) == Times(n, << Char, Put(0), Ack >>) \o << Char, Put(EOT), Status, Ack, Done >>
Answer(n)  == << Put(n) >> \o Times(n, << Put(0) >>)     \* a length and its bytes

-----------------------------------------------------------------------------
(* The handlers.                                                           *)

OnlyAck    == << Ack, Done >>
OneByte    == << Ack, Get, Ack, Done >>
TwoBytes   == << Ack, Get, Ack, Get, Ack, Done >>
OneString  == << Ack, String, Status, Ack, Done >>
TwoStrings == << Ack, String, Ack, String, Status, Ack, Done >>
MByteToByteAcked == << Ack, Get, Ack, Put(0), Ack, Done >>
ByteToByte == << Ack, Get, Put(0), Ack, Done >>

cmd_nop              == << Ack, Done, Done >>
cmd_ver              == << Put(0), Ack, Done >>
cmd_get_fpga_version == << Put(0), Ack, Done >>
cmd_pwd(n)           == << Ack >> \o Listing(n)
cmd_cd               == << Ack, String, Chdir, Status, Done, Ack >>
cmd_del              == OneString
cmd_mkdir            == OneString
cmd_rmdir            == OneString
cmd_move             == TwoStrings
cmd_copy             == TwoStrings

\* The low 16 bits of the size, and all the data.  A .B81 is converted first,
\* to at most B81_MAX_P bytes.
Sized(n, more)  == << Ack, String, Put(0), Put(n % Wrap) >> \o Times(n + more, << Put(0) >>)
                   \o << Status, Ack, Done >>
cmd_load(n)     == Sized(n, 0)
\* Not there, or empty: i < fsize2 is evaluated all the same.
cmd_load_none(k) == Sized(0, k)
load_B81(n)     == << Ack, String, Put(0) >> \o Answer(n) \o << Status, Ack, Done >>
cmd_load_rom    == << Ack, String, Reboot, Done >>
\* The .T81 itself does not open: the data, as zeros, and no length.
cmd_load_t81(n) == << Ack, String >> \o Times(n, << Put(0) >>) \o << Status, Ack, Done >>

cmd_save     == << Ack, String, Ack, Get, Ack, String, Status, Ack, Done >>
cmd_save_t81 == OneString

Words == Count([n \in Lens |-> << Ack >> \o Times(n, << Get, Ack >>)])
cmd_type(n)         == << Ack, Words >> \o Listing(n)
cmd_dir_open(n)     == << Ack, Words >> \o Listing(n)
cmd_get_next_char   == << Put(EOT), Status, Ack, Done >>
cmd_free_txt(n)     == << Ack >> \o Listing(n)
cmd_free            == Times(8, << Put(0) >>) \o << Status, Ack, Done >>
cmd_opendir2        == << Ack, String, Status, Done, Ack >>
cmd_getrowlen       == << Ack, Get, Ack, Get, Put(0), Status, Ack, Done >>
cmd_getrow(n)       == << Ack, Get, Ack, Get >> \o Answer(n) \o << Status, Ack, Done >>
cmd_getrow_closed   == << Ack, Get, Ack, Get, Status, Ack, Done >>
cmd_enable_mc45     == OnlyAck
cmd_disable_mc45    == OnlyAck
cmd_joy             == OneString
cmd_say             == OneString
cmd_AY_set_reg      == TwoBytes
cmd_AY_get_reg      == ByteToByte
cmd_AY_play         == << Ack, String, Ack, String, Ack, String, Play, Done >>
cmd_sel_128_chars   == OnlyAck
cmd_sel_64_chars    == OnlyAck
cmd_sel_256_chars   == OnlyAck
cmd_romlock_on      == OnlyAck
cmd_romlock_off     == OnlyAck
cmd_fullpaging      == OnlyAck
cmd_halfpaging      == OnlyAck
cmd_getbyte         == ByteToByte
cmd_setbyte         == TwoBytes
cmd_play_VGM        == OneString
cmd_stop_VGM        == OnlyAck
cmd_pause_VGM       == OnlyAck
cmd_cont_VGM        == OnlyAck
cmd_loop_VGM        == OneByte
Pairs               == Count([n \in Lens |-> Times(n \div 2, << Ack, Get, Ack, Get >>)])
cmd_load_PEG        == << Ack, Get, Ack, Pairs, Ack, Done >>
cmd_play_PEG        == TwoBytes
cmd_stop_PEG        == OneByte
cmd_pause_PEG       == OneByte
cmd_cont_PEG        == OneByte
cmd_sdload_PEG      == << Ack, String, Ack, Get, Status, Ack, Done >>
cmd_enable_ich_table  == << >>
cmd_disable_ich_table == << >>
cmd_enable_48K      == OnlyAck
cmd_disable_48K     == OnlyAck

DateLen == 22
cmd_rtc == << Ack,
              Count([n \in Lens |-> IF n = 0 THEN Times(DateLen, << Put(0) >>)
                                    ELSE Times(n, << Ack, Get >>)]),
              Status, Done, Ack >>
cmd_enable_dst      == OnlyAck
cmd_disable_dst     == OnlyAck
cmd_ntp_setserver   == OneString
cmd_ntp_setoffset   == ByteToByte
cmd_ntp_sync        == OnlyAck
cmd_bat             == Times(5, << Put(0) >>) \o << Status, Ack, Done >>

do_f_open           == << Ack, String, Status, Done, Ack >>
cmd_f_seek          == << Ack, Get >> \o Times(4, << Ack, Get >>) \o << Status, Done, Ack >>
cmd_f_read          == << Ack, Get, Ack, Get, Ack,
                          Count([n \in Lens |-> Times(n, << Put(0) >>)]), Status, Done, Ack >>
cmd_f_write         == << Ack, Get, Ack, Get, Ack, String, Status, Done, Ack >>
cmd_f_close         == << Ack, Get, Status, Done, Ack >>
cmd_f_stat          == << Ack, Get >> \o Times(8, << Put(0) >>) \o << Status, Done, Ack >>
cmd_f_open_img      == << Ack, String, Ack, Get, Status, Done, Ack >>
\* At most as many as were asked for; k have arrived.
cmd_net_read(k)     == << Ack, Count([n \in Lens |-> Answer(Least(n, k))]),
                          Put(0), Status, Done, Ack >>
cmd_net_write       == << Ack, String, Put(0), Status, Done, Ack >>
cmd_loadZ81dbg      == << Ack, String, Status, Put(0), Done, Ack >>
cmd_spare           == << Ack, Put(1), Done >>

\* The table, with every way each handler may go.
commands(t81) ==
  [ cmd_nop |-> {cmd_nop}, cmd_ver |-> {cmd_ver},
    cmd_get_fpga_version |-> {cmd_get_fpga_version},
    cmd_pwd |-> {cmd_pwd(n) : n \in Lens}, cmd_cd |-> {cmd_cd}, cmd_del |-> {cmd_del},
    cmd_mkdir |-> {cmd_mkdir}, cmd_rmdir |-> {cmd_rmdir}, cmd_move |-> {cmd_move},
    cmd_copy |-> {cmd_copy},
    cmd_load |->
      {cmd_load(n) : n \in Sizes}
      \cup (IF t81 THEN {} ELSE {cmd_load_none(k) : k \in Unset})
      \cup (IF t81 THEN {} ELSE {cmd_load_rom} \cup {load_B81(n) : n \in Lens})
      \cup (IF t81 /\ CardFails THEN {cmd_load_t81(n) : n \in Lens \ {0}} ELSE {}),
    cmd_save |-> IF t81 THEN {cmd_save_t81} ELSE {cmd_save},
    cmd_type |-> {cmd_type(n) : n \in Lens}, cmd_dir_open |-> {cmd_dir_open(n) : n \in Lens},
    cmd_get_next_char |-> {cmd_get_next_char},
    cmd_free_txt |-> {cmd_free_txt(n) : n \in Lens}, cmd_free |-> {cmd_free},
    cmd_opendir2 |-> {cmd_opendir2}, cmd_getrowlen |-> {cmd_getrowlen},
    cmd_getrow |->
      {cmd_getrow(n) : n \in Lens} \cup (IF CardFails THEN {cmd_getrow_closed} ELSE {}),
    cmd_enable_mc45 |-> {cmd_enable_mc45}, cmd_disable_mc45 |-> {cmd_disable_mc45},
    cmd_joy |-> {cmd_joy}, cmd_say |-> {cmd_say}, cmd_AY_set_reg |-> {cmd_AY_set_reg},
    cmd_AY_get_reg |-> {cmd_AY_get_reg}, cmd_AY_play |-> {cmd_AY_play},
    cmd_sel_128_chars |-> {cmd_sel_128_chars}, cmd_sel_64_chars |-> {cmd_sel_64_chars},
    cmd_sel_256_chars |-> {cmd_sel_256_chars}, cmd_romlock_on |-> {cmd_romlock_on},
    cmd_romlock_off |-> {cmd_romlock_off}, cmd_fullpaging |-> {cmd_fullpaging},
    cmd_halfpaging |-> {cmd_halfpaging}, cmd_getbyte |-> {cmd_getbyte},
    cmd_setbyte |-> {cmd_setbyte}, cmd_play_VGM |-> {cmd_play_VGM},
    cmd_stop_VGM |-> {cmd_stop_VGM}, cmd_pause_VGM |-> {cmd_pause_VGM},
    cmd_cont_VGM |-> {cmd_cont_VGM}, cmd_loop_VGM |-> {cmd_loop_VGM},
    cmd_load_PEG |-> {cmd_load_PEG}, cmd_play_PEG |-> {cmd_play_PEG},
    cmd_stop_PEG |-> {cmd_stop_PEG}, cmd_pause_PEG |-> {cmd_pause_PEG},
    cmd_cont_PEG |-> {cmd_cont_PEG}, cmd_sdload_PEG |-> {cmd_sdload_PEG},
    cmd_enable_ich_table |-> {cmd_enable_ich_table},
    cmd_disable_ich_table |-> {cmd_disable_ich_table},
    cmd_enable_48K |-> {cmd_enable_48K}, cmd_disable_48K |-> {cmd_disable_48K},
    cmd_rtc |-> {cmd_rtc}, cmd_enable_dst |-> {cmd_enable_dst},
    cmd_disable_dst |-> {cmd_disable_dst}, cmd_ntp_setserver |-> {cmd_ntp_setserver},
    cmd_ntp_setoffset |-> {cmd_ntp_setoffset}, cmd_ntp_sync |-> {cmd_ntp_sync},
    cmd_bat |-> {cmd_bat}, cmd_f_open |-> {do_f_open}, cmd_f_open_zx81 |-> {do_f_open},
    cmd_f_create |-> {do_f_open}, cmd_f_create_zx81 |-> {do_f_open},
    cmd_f_seek |-> {cmd_f_seek}, cmd_f_read |-> {cmd_f_read},
    cmd_f_write |-> {cmd_f_write}, cmd_f_close |-> {cmd_f_close},
    cmd_f_stat |-> {cmd_f_stat}, cmd_f_open_img |-> {cmd_f_open_img},
    cmd_net_read |-> {cmd_net_read(k) : k \in Lens}, cmd_net_write |-> {cmd_net_write},
    cmd_loadZ81dbg |-> {cmd_loadZ81dbg}, cmd_spare |-> {cmd_spare} ]

Commands == DOMAIN commands(FALSE)
=============================================================================
