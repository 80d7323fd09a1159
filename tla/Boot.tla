--------------------------------- MODULE Boot ---------------------------------
(***************************************************************************)
(* The STM32 from power on to its loop: the bootloader, which installs     *)
(* the firmware it finds on the card (bootloader.ino, flash.cpp), and      *)
(* setup(), which programs the flash of the FPGA from /SD81.MCS and starts *)
(* the FPGA (FLASH_UPDATE.cpp, FLASH_SPI.cpp, IHEX_PARSER.cpp).            *)
(*                                                                         *)
(* A cell of flash is old, new, blank or spoiled: a cell that is not blank *)
(* and is programmed is spoiled.  Power may go at any step, a write may    *)
(* fail or spoil what it writes.  While the power is off the user may copy *)
(* files to the card, good or damaged, but takes none away.                *)
(***************************************************************************)
EXTENDS Naturals, Sequences, FiniteSets

CONSTANTS
  FwWords,      \* words of the new firmware,
  AppWords,     \* of the application's flash,
  FwSector,     \* and of each of its sectors
  FwFiles,      \* kinds of firmware file: "good", "odd" (its last bytes are not
                \* a word), "big" (more than the flash)
  McsFiles,     \* .mcs files: [recs |-> records [a, n], damaged |-> the first that
                \* cannot be decoded, or 0, eof |-> whether it has an end record]
  NoFile,
  FlashSize, FLASH_PAGE_SIZE, FLASH_SECTOR_SIZE,        \* of the FPGA's flash
  MaxCuts, MaxCopies, MaxFaults         \* bound the model

ASSUME BootBounds ==
  /\ AppWords \in Nat /\ FwWords \in 1..AppWords /\ FwSector \in Nat \ {0}
  /\ FlashSize \in Nat
  /\ FwFiles \subseteq {"good", "odd", "big"}
  /\ FLASH_PAGE_SIZE \in Nat \ {0} /\ FLASH_SECTOR_SIZE \in Nat \ {0}
  /\ FLASH_SECTOR_SIZE % FLASH_PAGE_SIZE = 0
  /\ NoFile \notin FwFiles /\ NoFile \notin McsFiles

VARIABLES
  stage,        \* where the STM32 is
  fwFile, mcs,  \* the files on the card, or NoFile
  app,          \* the application's flash, by word
  pos,          \* the loops' position: sectors, words
  flash,        \* the FPGA's flash, by byte
  rec, off,     \* ihex_parse_file: the record, and the byte of it
  page,         \* ProgCtx: [addr, fill, lastErased]
  st,           \* what flash_update_from_mcs returned: "none", "ok" or "bad"
  fault,        \* a write has failed or spoiled something since power on
  cuts, copies, faults          \* counters for the bounds

cardVars == <<fwFile, mcs>>
fpgaVars == <<flash, rec, off, page, st>>
countVars == <<cuts, copies, faults>>
bootVars == <<stage, cardVars, app, pos, fpgaVars, fault, countVars>>

NoPage == [addr |-> 0, fill |-> 0, lastErased |-> FlashSize]

BootInit ==
  /\ stage = "off" /\ fwFile = NoFile /\ mcs = NoFile
  /\ app = [w \in 1..AppWords |-> "old"] /\ pos = 1
  /\ flash = [a \in 0..(FlashSize - 1) |-> "old"]
  /\ rec = 1 /\ off = 0 /\ page = NoPage /\ st = "none"
  /\ fault = FALSE /\ cuts = 0 /\ copies = 0 /\ faults = 0

Programmed(cell) == IF cell = "blank" THEN "new" ELSE "spoiled"

AppWhole ==
  \/ \A w \in 1..AppWords : app[w] = "old"
  \/ \A w \in 1..FwWords : app[w] = "new"

Bytes(m) == UNION {m.recs[i].a .. (m.recs[i].a + m.recs[i].n - 1) : i \in DOMAIN m.recs}
GoodMcs(m) == m.damaged = 0 /\ m.eof
Holds(m) == \A a \in Bytes(m) : flash[a] = "new"
FpgaWhole ==
  \/ \A a \in DOMAIN flash : flash[a] = "old"
  \/ \E m \in McsFiles : GoodMcs(m) /\ Holds(m)

Goes(s) == stage' = s
Faulty == faults < MaxFaults /\ faults' = faults + 1 /\ fault' = TRUE

-----------------------------------------------------------------------------
(* The power, and the user.                                                *)

PowerCut ==
  /\ stage # "off" /\ cuts < MaxCuts /\ cuts' = cuts + 1
  /\ Goes("off") /\ fault' = FALSE
  /\ pos' = 1 /\ rec' = 1 /\ off' = 0 /\ page' = NoPage /\ st' = "none"
  /\ UNCHANGED <<cardVars, app, flash, copies, faults>>

CopyFile ==
  /\ stage = "off" /\ copies < MaxCopies /\ copies' = copies + 1
  /\ \/ fwFile' \in FwFiles /\ UNCHANGED mcs
     \/ mcs' \in McsFiles /\ UNCHANGED fwFile
  /\ UNCHANGED <<stage, app, pos, fpgaVars, fault, cuts, faults>>

PowerOn ==
  /\ stage = "off" /\ Goes("bootloader")
  /\ UNCHANGED <<cardVars, app, pos, fpgaVars, fault, countVars>>

-----------------------------------------------------------------------------
(* The bootloader.                                                         *)

\* setup: an application that is not there whole does not start.
Bootloader ==
  /\ stage = "bootloader"
  /\ \/ Goes("no card")
     \/ fwFile # NoFile /\ Goes("erase")
     \/ fwFile = NoFile /\ Goes(IF AppWhole THEN "setup" ELSE "dead")
  /\ UNCHANGED <<cardVars, app, pos, fpgaVars, fault, countVars>>

SectorOf(w) == (w - 1) \div FwSector + 1

\* flash_erase_app, a sector at a time.  A file too large is not erased for, and
\* update_firmware programs all the same, as after an error.
EraseApp ==
  /\ stage = "erase"
  /\ \/ /\ fwFile # "big" /\ pos <= SectorOf(FwWords)
        /\ app' = [w \in 1..AppWords |-> IF SectorOf(w) = pos THEN "blank" ELSE app[w]]
        /\ pos' = pos + 1 /\ UNCHANGED <<stage, fault, faults>>
     \/ /\ fwFile = "big" \/ pos > SectorOf(FwWords)
        /\ Goes("program") /\ pos' = 1 /\ UNCHANGED <<app, fault, faults>>
     \/ /\ Faulty /\ Goes("program") /\ pos' = 1 /\ UNCHANGED app
  /\ UNCHANGED <<cardVars, fpgaVars, cuts, copies>>

FwEnd == IF fwFile = "big" THEN AppWords ELSE FwWords

\* flash_program_firmware, a word at a time; bytes after the last whole word
\* are not programmed.
ProgramApp ==
  /\ stage = "program"
  /\ \/ /\ pos <= FwEnd /\ pos' = pos + 1
        /\ app' = [app EXCEPT ![pos] = Programmed(@)] /\ UNCHANGED <<stage, fault, faults>>
     \/ /\ pos <= FwEnd /\ pos' = pos + 1 /\ Faulty
        /\ app' = [app EXCEPT ![pos] = "spoiled"] /\ UNCHANGED stage
     \/ /\ pos <= FwEnd /\ Faulty /\ Goes("failed") /\ UNCHANGED <<app, pos>>
     \/ /\ pos > FwEnd /\ Goes(IF fwFile = "big" THEN "failed" ELSE "verify")
        /\ UNCHANGED <<app, pos, fault, faults>>
  /\ UNCHANGED <<cardVars, fpgaVars, cuts, copies>>

\* flash_verify_firmware, every byte of the file.
MAppVerified == fwFile # "odd"
AppVerified == fwFile # "odd" /\ \A w \in 1..FwWords : app[w] = "new"

\* update_firmware: the file goes only when the flash holds it.
VerifyApp ==
  /\ stage = "verify"
  /\ \/ AppVerified /\ fwFile' \in {NoFile, fwFile} /\ Goes("setup")
     \/ ~AppVerified /\ Goes("failed") /\ UNCHANGED fwFile
  /\ UNCHANGED <<mcs, app, pos, fpgaVars, fault, countVars>>

-----------------------------------------------------------------------------
(* setup(): the flash of the FPGA, which stands still from here on.        *)

\* flash_update_from_mcs up to the first record: is there a file, does the
\* flash answer?
Setup ==
  /\ stage = "setup" /\ rec' = 1 /\ off' = 0 /\ page' = NoPage
  /\ \/ Goes("no card") /\ UNCHANGED <<st, fault, faults>>
     \/ mcs = NoFile /\ Goes("configure") /\ UNCHANGED <<st, fault, faults>>
     \/ mcs # NoFile /\ Goes("records") /\ UNCHANGED <<st, fault, faults>>
     \/ mcs # NoFile /\ Faulty /\ Goes("configure") /\ st' = "bad"
  /\ UNCHANGED <<cardVars, app, pos, flash, cuts, copies>>

\* prog_flush: the sector is erased the first time a page of it is programmed.
SectorNo(a) == a \div FLASH_SECTOR_SIZE
MErasedFor(p) ==
  [a \in DOMAIN flash |-> IF SectorNo(a) = SectorNo(p.addr) THEN "blank" ELSE flash[a]]
ErasedFor(p) ==
  IF SectorNo(p.addr) = p.lastErased THEN flash
  ELSE [a \in DOMAIN flash |-> IF SectorNo(a) = SectorNo(p.addr) THEN "blank" ELSE flash[a]]
Flush(spoil) ==
  /\ \E erased \in {ErasedFor(page)} :
       flash' = [a \in DOMAIN flash |->
                   IF a \notin page.addr .. (page.addr + page.fill - 1) THEN erased[a]
                   ELSE IF spoil THEN "spoiled" ELSE Programmed(erased[a])]
  /\ page' = [addr |-> page.addr + page.fill, fill |-> 0, lastErased |-> SectorNo(page.addr)]
FlushFails ==
  /\ flash' = ErasedFor(page) /\ page' = [page EXCEPT !.fill = 0]
  /\ Goes("configure") /\ st' = "bad"

Decodes == rec <= Len(mcs.recs) /\ mcs.damaged # rec
Address == mcs.recs[rec].a + off
NextByte ==
  IF off + 1 < mcs.recs[rec].n THEN off' = off + 1 /\ UNCHANGED rec
  ELSE off' = 0 /\ rec' = rec + 1

\* A page is full when the next byte is another page's, or is not the next.
PageEnds ==
  /\ page.fill > 0
  /\ \/ (page.addr + page.fill) % FLASH_PAGE_SIZE = 0
     \/ Decodes /\ Address # page.addr + page.fill

\* prog_cb, a byte.
PutByte ==
  /\ stage = "records" /\ Decodes /\ ~PageEnds
  /\ page' = IF page.fill = 0 THEN [page EXCEPT !.addr = Address, !.fill = 1]
             ELSE [page EXCEPT !.fill = @ + 1]
  /\ NextByte
  /\ UNCHANGED <<stage, cardVars, app, pos, flash, st, fault, countVars>>

\* After the last record that decodes, the page begun is programmed too.
MLastPage == FALSE
LastPage == ~Decodes /\ page.fill > 0

FlushPage ==
  /\ stage = "records" /\ (PageEnds \/ LastPage)
  /\ \/ Flush(FALSE) /\ UNCHANGED <<stage, st, fault, faults>>
     \/ Flush(TRUE) /\ Faulty /\ UNCHANGED <<stage, st>>
     \/ FlushFails /\ Faulty
  /\ UNCHANGED <<cardVars, app, pos, rec, off, cuts, copies>>

\* ihex_parse_file has ended: with the end record, without one, or at a record
\* that does not decode.
RecordsEnd ==
  /\ stage = "records" /\ ~Decodes /\ ~PageEnds /\ ~LastPage
  /\ IF GoodMcs(mcs) THEN Goes("compare") /\ UNCHANGED st
     ELSE Goes("configure") /\ st' = "bad"
  /\ UNCHANGED <<cardVars, app, pos, flash, rec, off, page, fault, countVars>>

\* The second pass, and the file goes if it has found no difference.
MSame == TRUE
Same == Holds(mcs)
Compare ==
  /\ stage = "compare" /\ Goes("configure")
  /\ \/ Same /\ st' = "ok" /\ mcs' \in {NoFile, mcs} /\ UNCHANGED <<fault, faults>>
     \/ ~Same /\ st' = "bad" /\ UNCHANGED <<mcs, fault, faults>>
     \/ Faulty /\ st' = "bad" /\ UNCHANGED mcs                  \* a read error
  /\ UNCHANGED <<fwFile, app, pos, flash, rec, off, page, cuts, copies>>

\* FPGA_DONE is waited for, for ever when the flash holds no whole image; then
\* the ROM is loaded.
Configure ==
  /\ stage = "configure" /\ FpgaWhole
  /\ stage' \in {"no rom", "loop"}
  /\ UNCHANGED <<cardVars, app, pos, fpgaVars, fault, countVars>>

BootNext ==
  \/ PowerCut \/ CopyFile \/ PowerOn
  \/ Bootloader \/ EraseApp \/ ProgramApp \/ VerifyApp
  \/ Setup \/ PutByte \/ FlushPage \/ RecordsEnd \/ Compare \/ Configure

BootSpec == BootInit /\ [][BootNext]_bootVars

-----------------------------------------------------------------------------
(* What it promises.                                                       *)

\* The only copy of an image is never given up: while a flash does not hold a
\* whole one, the file it was being written from is still on the card, however
\* often power went (update_firmware, setup, flash_update_from_mcs).
ImagesKept ==
  /\ ~AppWhole => fwFile # NoFile
  /\ ~FpgaWhole => mcs # NoFile

\* A good file is installed at once unless a write goes wrong, also after
\* updates that were cut off and over what damaged files left: pages and sectors
\* are programmed once after each erasure (prog_cb, prog_flush, flash_erase_app).
GoodFileInstalled ==
  (~fault) =>
    /\ stage = "failed" => fwFile # "good"
    /\ st = "bad" => ~GoodMcs(mcs)
=============================================================================
