------------------------------ MODULE UpdateProof -----------------------------
(***************************************************************************)
(* The three updates, of the STM32, of the FPGA (Boot) and of the ESP32    *)
(* (FwUpdate), never give up the only copy of an image: proofs.            *)
(*                                                                         *)
(* ImagesKept is not inductive: a flash begins to change one step after    *)
(* the file was found, and a file goes one step after it was compared.     *)
(* Found adds what each stage knows of the files.                          *)
(*                                                                         *)
(* GoodFileInstalled says how an update ends.  AppInv and FpgaInv say how  *)
(* far it has come: which cells are blank, and which hold the file.        *)
(*                                                                         *)
(* GoodImageSurvives is about the card.  What makes it inductive is that   *)
(* every frame on the line, however late, is one that a good image gives   *)
(* rise to: no request to delete it before it is installed, no answer but  *)
(* of its own pieces; so what the ESP32 has read is a prefix of it.        *)
(***************************************************************************)
EXTENDS Boot, FwUpdate, SequenceTheorems, TLAPS

Found ==
  /\ stage \in {"erase", "program", "verify"} => fwFile # NoFile
  /\ stage \in {"records", "compare"} => mcs # NoFile
  /\ stage = "compare" => GoodMcs(mcs)
  /\ mcs \in McsFiles \cup {NoFile}

BootInv == ImagesKept /\ Found

\* Nothing is lost before power comes on.
LEMMA BootBegins == BootInit => BootInv
<1> SUFFICES ASSUME BootInit PROVE BootInv
  OBVIOUS
<1>1. AppWhole
  BY DEF BootInit, AppWhole
<1>2. FpgaWhole
  BY DEF BootInit, FpgaWhole
<1>3. Found
  BY DEF BootInit, Found
<1> QED
  BY <1>1, <1>2, <1>3 DEF BootInv, ImagesKept

\* What decides whether the flashes hold an image is the flashes alone.
LEMMA SameApp == ASSUME app' = app PROVE AppWhole' = AppWhole
  BY DEF AppWhole

LEMMA SameFpga == ASSUME flash' = flash PROVE FpgaWhole' = FpgaWhole
  BY DEF FpgaWhole, Holds

\* A step that leaves the files and the flashes alone keeps the images; what
\* is left to see is what the next stage knows.
LEMMA OnlyTheStage ==
  ASSUME BootInv, UNCHANGED <<cardVars, app, flash>>
  PROVE  ImagesKept'
  BY SameApp, SameFpga DEF BootInv, ImagesKept, cardVars

\* The stages that change neither files nor flashes.
LEMMA QuietSteps ==
  ASSUME BootInv, PowerCut \/ PowerOn \/ Bootloader \/ Setup \/ PutByte \/ RecordsEnd \/ Configure
  PROVE  BootInv'
<1>1. UNCHANGED <<cardVars, app, flash>>
  BY DEF PowerCut, PowerOn, Bootloader, Setup, PutByte, RecordsEnd, Configure, cardVars, fpgaVars
<1>2. ImagesKept'
  BY <1>1, OnlyTheStage
<1>3. UNCHANGED <<fwFile, mcs>>
  BY <1>1 DEF cardVars
<1>4. stage' \in {"erase", "program", "verify"} => fwFile' # NoFile
  BY <1>3 DEF BootInv, Found, PowerCut, PowerOn, Bootloader, Setup, PutByte, RecordsEnd, Configure,
              Goes
<1>5. stage' \in {"records", "compare"} => mcs' # NoFile
  BY <1>3 DEF BootInv, Found, PowerCut, PowerOn, Bootloader, Setup, PutByte, RecordsEnd, Configure,
              Goes
<1>6. stage' = "compare" => GoodMcs(mcs)
  BY DEF BootInv, Found, PowerCut, PowerOn, Bootloader, Setup, PutByte, RecordsEnd, Configure, Goes
<1> QED
  BY <1>2, <1>3, <1>4, <1>5, <1>6 DEF BootInv, Found, GoodMcs

\* The user puts files on the card and takes none away.
LEMMA CopySteps == ASSUME BootInv, CopyFile PROVE BootInv'
<1>1. AppWhole' = AppWhole /\ FpgaWhole' = FpgaWhole
  BY SameApp, SameFpga DEF CopyFile, fpgaVars
<1>2. \/ fwFile' # NoFile /\ mcs' = mcs
      \/ mcs' \in McsFiles /\ mcs' # NoFile /\ fwFile' = fwFile
  BY BootBounds DEF CopyFile
<1>3. stage' = "off"
  BY DEF CopyFile
<1> QED
  BY <1>1, <1>2, <1>3 DEF BootInv, ImagesKept, Found

\* The bootloader changes the application only with its file on the card, and
\* deletes the file only when the application is whole.
LEMMA AppSteps == ASSUME BootInv, EraseApp \/ ProgramApp \/ VerifyApp PROVE BootInv'
<1>1. mcs' = mcs /\ flash' = flash
  BY DEF EraseApp, ProgramApp, VerifyApp, cardVars, fpgaVars
<1>2. stage' \notin {"records", "compare"} /\ fwFile # NoFile
  BY DEF BootInv, Found, EraseApp, ProgramApp, VerifyApp, Goes
<1>3. FpgaWhole' = FpgaWhole
  BY <1>1, SameFpga
<1>4. CASE EraseApp \/ ProgramApp
  <2>1. fwFile' # NoFile
    BY <1>2, <1>4 DEF EraseApp, ProgramApp, cardVars
  <2> QED
    BY <1>1, <1>2, <1>3, <2>1 DEF BootInv, ImagesKept, Found
<1>5. CASE VerifyApp
  <2>1. app' = app /\ stage' \in {"setup", "failed"}
    BY <1>5 DEF VerifyApp, Goes
  <2>2. AppWhole' \/ fwFile' # NoFile
    BY <1>2, <1>5, <2>1, SameApp DEF VerifyApp, AppVerified, AppWhole
  <2> QED
    BY <1>1, <1>3, <2>1, <2>2 DEF BootInv, ImagesKept, Found
<1> QED
  BY <1>4, <1>5

\* The same for the flash of the FPGA, by page and in the end.
LEMMA FpgaSteps == ASSUME BootInv, FlushPage \/ Compare PROVE BootInv'
<1>1. AppWhole' = AppWhole /\ fwFile' = fwFile
  BY SameApp DEF FlushPage, Compare, cardVars
<1>2. mcs # NoFile /\ mcs \in McsFiles
  BY DEF BootInv, Found, FlushPage, Compare
<1>3. CASE FlushPage
  <2>1. mcs' = mcs /\ stage' \in {"records", "configure"}
    BY <1>3 DEF FlushPage, FlushFails, Goes, cardVars
  <2> QED
    BY <1>1, <1>2, <2>1 DEF BootInv, ImagesKept, Found
<1>4. CASE Compare
  <2>1. stage' = "configure" /\ flash' = flash /\ mcs' \in {NoFile, mcs}
    BY <1>4 DEF Compare, Goes
  <2>2. mcs' # NoFile \/ FpgaWhole
    BY <1>2, <1>4 DEF Compare, Same, BootInv, Found, FpgaWhole
  <2>3. FpgaWhole' = FpgaWhole
    BY <2>1, SameFpga
  <2> QED
    BY <1>1, <1>2, <2>1, <2>2, <2>3 DEF BootInv, ImagesKept, Found
<1> QED
  BY <1>3, <1>4

LEMMA BootStep == BootInv /\ [BootNext]_bootVars => BootInv'
<1> SUFFICES ASSUME BootInv, [BootNext]_bootVars PROVE BootInv'
  OBVIOUS
<1>1. CASE UNCHANGED bootVars
  <2>1. UNCHANGED <<stage, fwFile, mcs, app, flash>>
    BY <1>1 DEF bootVars, cardVars, fpgaVars
  <2> QED
    BY <2>1, SameApp, SameFpga DEF BootInv, ImagesKept, Found, GoodMcs
<1>2. CASE BootNext
  BY <1>2, QuietSteps, CopySteps, AppSteps, FpgaSteps DEF BootNext
<1> QED
  BY <1>1, <1>2

\* However often power goes, whatever is copied and whichever write fails, an
\* image that a flash does not hold whole is still on the card.
THEOREM NoImageLost == BootSpec => []ImagesKept
<1>1. BootInv => ImagesKept
  BY DEF BootInv
<1> QED
  BY BootBegins, BootStep, <1>1, PTL DEF BootSpec

-----------------------------------------------------------------------------
(* A good file is installed at once.                                       *)

\* The bootloader: sectors before pos are erased; then words before pos are
\* programmed, and the others still blank.
AppInv ==
  /\ app = [w \in 1..AppWords |-> app[w]] /\ pos \in Nat
  /\ stage \in {"off", "bootloader"} => pos = 1
  /\ (~fault /\ fwFile = "good") =>
       /\ stage = "erase" => \A w \in 1..AppWords : SectorOf(w) < pos => app[w] = "blank"
       /\ stage = "program" => \A w \in 1..FwWords : app[w] = IF w < pos THEN "new" ELSE "blank"
       /\ stage = "verify" => \A w \in 1..FwWords : app[w] = "new"
       /\ stage # "failed"

\* The records of a file, in the order of their addresses, without overlaps and
\* within the flash.
Ascends(m) ==
  /\ m.recs \in Seq([a : Nat, n : Nat \ {0}])
  /\ \A i \in 1..Len(m.recs) : m.recs[i].a + m.recs[i].n <= FlashSize
  /\ \A i, j \in 1..Len(m.recs) : i < j => m.recs[i].a + m.recs[i].n <= m.recs[j].a
AllAscend == \A m \in McsFiles : GoodMcs(m) => Ascends(m)

\* Bytes of the records read so far.
IsRead(y) ==
  \E i \in 1..Len(mcs.recs) :
    /\ mcs.recs[i].a <= y /\ y < mcs.recs[i].a + mcs.recs[i].n
    /\ i < rec \/ (i = rec /\ y < mcs.recs[i].a + off)

InPage(y) == page.addr <= y /\ y < page.addr + page.fill

\* While records are read: a byte read is in the page begun or in the flash, in a
\* sector erased for it or before; from the page on the sector erased last is
\* blank; the page is in one sector and not beyond the next byte.
RecordsInv ==
  /\ page.addr \in Nat /\ page.fill \in Nat /\ page.lastErased \in Nat
  /\ rec \in 1..(Len(mcs.recs) + 1) /\ off \in Nat
  /\ rec <= Len(mcs.recs) =>
       off < mcs.recs[rec].n /\ page.addr + page.fill <= mcs.recs[rec].a + off
  /\ \A y \in 0..(FlashSize - 1) : IsRead(y) =>
       \/ InPage(y)
       \/ /\ flash[y] = "new"
          /\ SectorNo(y) <= page.lastErased /\ page.lastErased <= SectorNo(page.addr)
  /\ \A y \in Nat : InPage(y) => SectorNo(y) = SectorNo(page.addr)
  /\ \A y \in 0..(FlashSize - 1) :
       page.addr <= y /\ SectorNo(y) = page.lastErased => flash[y] = "blank"

FpgaInv ==
  /\ flash = [a \in 0..(FlashSize - 1) |-> flash[a]]
  /\ st = "bad" => stage \in {"configure", "no rom", "loop"}
  /\ (~fault /\ stage = "records" /\ GoodMcs(mcs)) => RecordsInv
  /\ (~fault /\ stage = "compare") => Holds(mcs)
  /\ (~fault /\ st = "bad") => ~GoodMcs(mcs)

-----------------------------------------------------------------------------
(* Sectors, pages and sequences.                                           *)

LEMMA Order ==
  ASSUME NEW w \in Nat \ {0}, NEW x \in Nat, NEW y \in Nat, x <= y
  PROVE  x \div w \in Nat /\ x \div w <= x /\ x \div w <= y \div w
<1>1. x \div w \in Nat
  OBVIOUS
<1>2. x \div w <= x
  OBVIOUS
<1>3. x \div w <= y \div w
  OBVIOUS
<1> QED
  BY <1>1, <1>2, <1>3

LEMMA SameQuotient ==
  ASSUME NEW w \in Nat \ {0}, NEW x \in Nat, (x + 1) % w # 0
  PROVE  (x + 1) \div w = x \div w
OBVIOUS

LEMMA Multiple ==
  ASSUME NEW w \in Nat \ {0}, NEW x \in Nat, x % w = 0
  PROVE  x = w * (x \div w) /\ x \div w \in Nat
OBVIOUS

LEMMA NoRest == ASSUME NEW w \in Nat \ {0}, NEW k \in Nat PROVE (w * k) % w = 0
OBVIOUS

\* A sector is a number of pages: it does not end within one.
LEMMA PageInSector ==
  ASSUME NEW x \in Nat, (x + 1) % FLASH_PAGE_SIZE # 0
  PROVE  SectorNo(x + 1) = SectorNo(x)
<1>1. PICK s \in Nat \ {0}, p \in Nat \ {0} :
        s = FLASH_SECTOR_SIZE /\ p = FLASH_PAGE_SIZE /\ s % p = 0 /\ (x + 1) % p # 0
  BY BootBounds
<1>2. (x + 1) % s # 0
  <2> SUFFICES ASSUME (x + 1) % s = 0 PROVE FALSE
    OBVIOUS
  <2>1. PICK j \in Nat : s = p * j
    BY <1>1, Multiple
  <2>2. PICK y \in Nat : y = x + 1 /\ y % s = 0
    OBVIOUS
  <2>3. PICK q \in Nat : y = s * q
    BY <2>2, Multiple
  <2>4. PICK k \in Nat : k = j * q
    OBVIOUS
  <2>5. y = p * k
    BY <2>1, <2>3, <2>4
  <2>6. y % p = 0
    BY <2>5, NoRest
  <2> QED
    BY <1>1, <2>2, <2>6
<1>3. (x + 1) \div s = x \div s
  BY <1>2, SameQuotient
<1> QED
  BY <1>1, <1>3 DEF SectorNo

LEMMA Sectors ==
  ASSUME NEW x \in Nat, NEW y \in Nat
  PROVE  SectorNo(x) \in Nat /\ SectorNo(x) <= x /\ (x <= y => SectorNo(x) <= SectorNo(y))
<1>1. PICK s \in Nat \ {0} : s = FLASH_SECTOR_SIZE
  BY BootBounds
<1>2. x \div s \in Nat /\ x \div s <= x /\ (x <= y => x \div s <= y \div s)
  BY Order
<1> QED
  BY <1>1, <1>2 DEF SectorNo

LEMMA Between ==
  ASSUME NEW x \in Nat, NEW a \in Nat, NEW l \in Nat
  PROVE  (a <= x /\ x < a + l) <=> x \in a..(a + l - 1)
OBVIOUS

LEMMA WordSectors ==
  ASSUME NEW w \in Nat \ {0}, NEW v \in Nat \ {0}, w <= v
  PROVE  SectorOf(w) \in Nat /\ SectorOf(w) >= 1 /\ SectorOf(w) <= SectorOf(v)
<1>1. PICK s \in Nat \ {0} : s = FwSector
  BY BootBounds
<1>2. PICK x \in Nat, y \in Nat : x = w - 1 /\ y = v - 1 /\ x <= y
  OBVIOUS
<1>3. x \div s \in Nat /\ y \div s \in Nat /\ x \div s <= y \div s
  BY <1>2, Order
<1> QED
  BY <1>1, <1>2, <1>3 DEF SectorOf

-----------------------------------------------------------------------------
(* The application.                                                        *)

\* What the invariant of the application looks at.
LEMMA AppSame ==
  ASSUME AppInv, UNCHANGED <<app, pos, fwFile>>, stage' = stage, ~fault' => ~fault
  PROVE  AppInv'
BY DEF AppInv, SectorOf

LEMMA AppQuiet ==
  ASSUME AppInv, UNCHANGED <<app, pos, fwFile>>, ~fault' => ~fault,
         stage' \notin {"off", "bootloader", "erase", "program", "verify", "failed"}
  PROVE  AppInv'
BY DEF AppInv

LEMMA AppOthers ==
  ASSUME AppInv,
         \/ PowerCut \/ CopyFile \/ PowerOn \/ Bootloader \/ VerifyApp
         \/ Setup \/ PutByte \/ FlushPage \/ RecordsEnd \/ Compare \/ Configure
  PROVE  AppInv'
<1>1. CASE PowerCut
  <2>1. stage' = "off" /\ pos' = 1 /\ app' = app
    BY <1>1 DEF PowerCut, Goes
  <2> QED
    BY <2>1 DEF AppInv
<1>2. CASE CopyFile
  <2>1. stage' = "off" /\ stage = "off" /\ pos' = pos /\ app' = app
    BY <1>2 DEF CopyFile
  <2> QED
    BY <2>1 DEF AppInv
<1>3. CASE PowerOn
  <2>1. stage' = "bootloader" /\ stage = "off" /\ pos' = pos /\ app' = app
    BY <1>3 DEF PowerOn, Goes
  <2> QED
    BY <2>1 DEF AppInv
<1>4. CASE Bootloader
  <2>1. /\ stage' \in {"no card", "erase", "setup", "dead"} /\ stage = "bootloader"
        /\ pos' = pos /\ app' = app
    BY <1>4 DEF Bootloader, Goes
  <2>2. pos' = 1
    BY <2>1 DEF AppInv
  <2>3. ASSUME NEW w \in 1..AppWords PROVE ~(SectorOf(w) < 1)
    <3>1. w \in Nat \ {0}
      BY BootBounds
    <3>2. SectorOf(w) \in Nat /\ SectorOf(w) >= 1
      BY <3>1, WordSectors
    <3> QED
      BY <3>2
  <2>4. app' = [w \in 1..AppWords |-> app'[w]]
    BY <2>1 DEF AppInv
  <2> QED
    BY <2>1, <2>2, <2>3, <2>4 DEF AppInv, SectorOf
<1>5. CASE VerifyApp
  <2>1. stage = "verify" /\ pos' = pos /\ app' = app /\ fault' = fault
    BY <1>5 DEF VerifyApp
  <2>2. (fwFile' = fwFile /\ stage' = "failed" /\ ~AppVerified) \/ stage' = "setup"
    BY <1>5 DEF VerifyApp, Goes
  <2>3. CASE stage' = "setup"
    BY <2>1, <2>3 DEF AppInv
  <2>4. CASE fwFile' = fwFile /\ stage' = "failed" /\ ~AppVerified
    <3>1. ~(~fault /\ fwFile = "good")
      BY <2>1, <2>4 DEF AppInv, AppVerified
    <3> QED
      BY <2>1, <2>4, <3>1 DEF AppInv
  <2> QED
    BY <2>2, <2>3, <2>4
<1>6. CASE Setup \/ PutByte \/ FlushPage \/ RecordsEnd \/ Compare \/ Configure
  <2>1. UNCHANGED <<app, pos, fwFile>>
    BY <1>6 DEF Setup, PutByte, FlushPage, RecordsEnd, Compare, Configure, cardVars
  <2>2. ~fault' => ~fault
    BY <1>6 DEF Setup, PutByte, FlushPage, RecordsEnd, Compare, Configure, Faulty
  <2>3. stage' \notin {"off", "bootloader", "erase", "program", "verify", "failed"}
    BY <1>6 DEF Setup, PutByte, FlushPage, FlushFails, RecordsEnd, Compare, Configure, Goes
  <2> QED
    BY <2>1, <2>2, <2>3, AppQuiet
<1> QED
  BY <1>1, <1>2, <1>3, <1>4, <1>5, <1>6

\* Sector by sector; when the last one is erased, every word of the file is blank.
LEMMA AppErases == ASSUME AppInv, EraseApp PROVE AppInv'
<1>1. stage = "erase" /\ fwFile' = fwFile /\ pos \in Nat /\ app = [w \in 1..AppWords |-> app[w]]
  BY DEF EraseApp, cardVars, AppInv
<1>2. FwWords \in 1..AppWords /\ AppWords \in Nat /\ FwWords \in Nat \ {0}
  BY BootBounds
<1>3. CASE /\ app' = [w \in 1..AppWords |-> IF SectorOf(w) = pos THEN "blank" ELSE app[w]]
           /\ pos' = pos + 1 /\ UNCHANGED <<stage, fault, faults>>
  <2>1. ASSUME ~fault, fwFile = "good", NEW w \in 1..AppWords, SectorOf(w) < pos + 1
        PROVE  app'[w] = "blank"
    <3>1. SectorOf(w) \in Nat
      <4>1. w \in Nat \ {0}
        BY <1>2
      <4> QED
        BY <4>1, WordSectors
    <3>2. SectorOf(w) = pos \/ SectorOf(w) < pos
      BY <1>1, <2>1, <3>1
    <3>3. SectorOf(w) < pos => app[w] = "blank"
      BY <1>1, <2>1 DEF AppInv
    <3> QED
      BY <1>3, <3>2, <3>3
  <2>2. app' = [w \in 1..AppWords |-> app'[w]] /\ pos' \in Nat
    BY <1>1, <1>3
  <2> QED
    BY <1>1, <1>3, <2>1, <2>2 DEF AppInv, SectorOf
<1>4. CASE /\ fwFile = "big" \/ pos > SectorOf(FwWords)
           /\ Goes("program") /\ pos' = 1 /\ UNCHANGED <<app, fault, faults>>
  <2>1. ASSUME ~fault, fwFile = "good", NEW w \in 1..FwWords
        PROVE  app[w] = "blank" /\ ~(w < 1)
    <3>1. w \in Nat \ {0} /\ w <= FwWords /\ w \in 1..AppWords
      BY <1>2
    <3>2. SectorOf(w) \in Nat /\ SectorOf(w) <= SectorOf(FwWords)
      BY <1>2, <3>1, WordSectors
    <3>3. SectorOf(FwWords) \in Nat
      BY <1>2, WordSectors
    <3>4. pos > SectorOf(FwWords)
      BY <1>4, <2>1
    <3>5. SectorOf(w) < pos
      BY <1>1, <3>2, <3>3, <3>4
    <3>6. app[w] = "blank"
      BY <1>1, <2>1, <3>1, <3>5 DEF AppInv
    <3> QED
      BY <3>1, <3>6
  <2>2. stage' = "program" /\ pos' = 1 /\ app' = app /\ fault' = fault
    BY <1>4 DEF Goes
  <2> QED
    BY <1>1, <2>1, <2>2 DEF AppInv
<1>5. CASE Faulty /\ Goes("program") /\ pos' = 1 /\ UNCHANGED app
  BY <1>1, <1>5 DEF AppInv, Faulty, Goes
<1> QED
  BY <1>3, <1>4, <1>5 DEF EraseApp

LEMMA Replaced ==
  ASSUME NEW D, NEW f, f = [x \in D |-> f[x]], NEW p, NEW v
  PROVE  [f EXCEPT ![p] = v] = [x \in D |-> [f EXCEPT ![p] = v][x]]
<1>1. DOMAIN f = D
  OBVIOUS
<1>2. DOMAIN [f EXCEPT ![p] = v] = D
  BY <1>1
<1>3. [f EXCEPT ![p] = v] = [x \in DOMAIN f |-> IF x = p THEN v ELSE f[x]]
  OBVIOUS
<1> QED
  BY <1>1, <1>3

LEMMA AppPrograms == ASSUME AppInv, ProgramApp PROVE AppInv'
<1>1. stage = "program" /\ fwFile' = fwFile /\ pos \in Nat /\ app = [w \in 1..AppWords |-> app[w]]
  BY DEF ProgramApp, cardVars, AppInv
<1>2. FwWords \in 1..AppWords /\ AppWords \in Nat /\ FwWords \in Nat
  BY BootBounds
<1>3. CASE /\ pos <= FwEnd /\ pos' = pos + 1
           /\ app' = [app EXCEPT ![pos] = Programmed(@)] /\ UNCHANGED <<stage, fault, faults>>
  <2>1. ASSUME ~fault, fwFile = "good", NEW w \in 1..FwWords
        PROVE  app'[w] = IF w < pos + 1 THEN "new" ELSE "blank"
    <3>1. app[w] = IF w < pos THEN "new" ELSE "blank"
      BY <1>1, <2>1 DEF AppInv
    <3>2. w \in 1..AppWords /\ w \in Nat
      BY <1>2
    <3>3. CASE w = pos
      <4>1. app'[w] = Programmed(app[w])
        BY <1>1, <1>3, <3>2, <3>3
      <4>2. app[w] = "blank"
        BY <1>1, <3>1, <3>3
      <4>3. w < pos + 1
        BY <1>1, <3>3
      <4> QED
        BY <4>1, <4>2, <4>3 DEF Programmed
    <3>4. CASE w # pos
      <4>1. app'[w] = app[w]
        BY <1>1, <1>3, <3>2, <3>4
      <4>2. w < pos <=> w < pos + 1
        BY <1>1, <3>2, <3>4
      <4> QED
        BY <3>1, <4>1, <4>2
    <3> QED
      BY <3>3, <3>4
  <2>2. app' = [w \in 1..AppWords |-> app'[w]] /\ pos' \in Nat
    <3>1. pos' \in Nat
      BY <1>1, <1>3
    <3> QED
      BY <1>1, <1>3, <3>1, Replaced
  <2> QED
    BY <1>1, <1>3, <2>1, <2>2 DEF AppInv
<1>4. CASE pos' = pos + 1 /\ Faulty /\ app' = [app EXCEPT ![pos] = "spoiled"] /\ UNCHANGED stage
  <2>1. app' = [w \in 1..AppWords |-> app'[w]] /\ pos' \in Nat
    <3>1. pos' \in Nat
      BY <1>1, <1>4
    <3> QED
      BY <1>1, <1>4, <3>1, Replaced
  <2> QED
    BY <1>1, <1>4, <2>1 DEF AppInv, Faulty
<1>5. CASE Faulty /\ Goes("failed") /\ UNCHANGED <<app, pos>>
  BY <1>1, <1>5 DEF AppInv, Faulty, Goes
<1>6. CASE /\ pos > FwEnd /\ Goes(IF fwFile = "big" THEN "failed" ELSE "verify")
           /\ UNCHANGED <<app, pos, fault, faults>>
  <2>1. ASSUME ~fault, fwFile = "good"
        PROVE  stage' = "verify" /\ \A w \in 1..FwWords : app[w] = "new"
    <3>1. pos > FwWords
      BY <1>6, <2>1 DEF FwEnd
    <3>2. \A w \in 1..FwWords : w < pos
      BY <1>1, <1>2, <3>1
    <3>3. \A w \in 1..FwWords : app[w] = IF w < pos THEN "new" ELSE "blank"
      BY <1>1, <2>1 DEF AppInv
    <3> QED
      BY <1>6, <2>1, <3>2, <3>3 DEF Goes
  <2>2. stage' \in {"failed", "verify"} /\ UNCHANGED <<app, pos, fault>>
    BY <1>6 DEF Goes
  <2> QED
    BY <1>1, <2>1, <2>2 DEF AppInv
<1> QED
  BY <1>3, <1>4, <1>5, <1>6 DEF ProgramApp

-----------------------------------------------------------------------------
(* The flash of the FPGA.                                                  *)

LEMMA Records ==
  ASSUME NEW m, Ascends(m)
  PROVE  /\ Len(m.recs) \in Nat /\ DOMAIN m.recs = 1..Len(m.recs)
         /\ \A i \in 1..Len(m.recs) :
              m.recs[i].a \in Nat /\ m.recs[i].n \in Nat /\ m.recs[i].n > 0
<1>1. m.recs \in Seq([a : Nat, n : Nat \ {0}])
  BY DEF Ascends
<1>2. Len(m.recs) \in Nat /\ \A i \in 1..Len(m.recs) : m.recs[i] \in [a : Nat, n : Nat \ {0}]
  BY <1>1, LenProperties, ElementOfSeq
<1> QED
  BY <1>1, <1>2, LenProperties

\* setup() finds the file: nothing is read, nothing erased.
LEMMA RecordsBegin ==
  ASSUME Ascends(mcs), rec' = 1, off' = 0, page' = NoPage, UNCHANGED <<mcs, flash>>
  PROVE  RecordsInv'
<1>1. FlashSize \in Nat
  BY BootBounds
<1>2. /\ Len(mcs.recs) \in Nat
      /\ \A i \in 1..Len(mcs.recs) : mcs.recs[i].a \in Nat /\ mcs.recs[i].n \in Nat /\ mcs.recs[i].n > 0
  BY Records
<1>3. page'.addr = 0 /\ page'.fill = 0 /\ page'.lastErased = FlashSize
  BY DEF NoPage
<1>4. \A y \in Nat : ~InPage(y)'
  BY <1>3 DEF InPage
<1>5. ASSUME NEW y \in Nat PROVE ~IsRead(y)'
  <2> SUFFICES ASSUME NEW i \in 1..Len(mcs.recs), mcs.recs[i].a <= y,
                      i < 1 \/ (i = 1 /\ y < mcs.recs[i].a + 0)
               PROVE  FALSE
    BY DEF IsRead
  <2> QED
    BY <1>2
<1>6. ASSUME NEW y \in 0..(FlashSize - 1) PROVE SectorNo(y) # FlashSize
  <2>1. y \in Nat /\ y < FlashSize
    BY <1>1
  <2>2. SectorNo(y) \in Nat /\ SectorNo(y) <= y
    BY <2>1, Sectors
  <2> QED
    BY <1>1, <2>1, <2>2
<1>7. 1 <= Len(mcs.recs) => 0 < mcs.recs[1].n /\ 0 + 0 <= mcs.recs[1].a + 0
  BY <1>2
<1>8. 0..(FlashSize - 1) \subseteq Nat
  BY <1>1
<1>9. 1 \in 1..(Len(mcs.recs) + 1)
  BY <1>2
<1>10. \A y \in 0..(FlashSize - 1) : SectorNo(y)' # page'.lastErased
  BY <1>3, <1>6 DEF SectorNo
<1> QED
  BY <1>1, <1>3, <1>4, <1>5, <1>7, <1>8, <1>9, <1>10 DEF RecordsInv

\* The next byte: what is read is what was, and it.
LEMMA ReadOn ==
  ASSUME Ascends(mcs), rec \in 1..Len(mcs.recs), off \in Nat, off < mcs.recs[rec].n,
         mcs' = mcs, NextByte
  PROVE  /\ rec' \in 1..(Len(mcs.recs) + 1) /\ off' \in Nat
         /\ rec' <= Len(mcs.recs) =>
              off' < mcs.recs[rec'].n /\ mcs.recs[rec].a + off + 1 <= mcs.recs[rec'].a + off'
         /\ \A y \in Nat : IsRead(y)' => IsRead(y) \/ y = mcs.recs[rec].a + off
<1>1. /\ Len(mcs.recs) \in Nat
      /\ \A i \in 1..Len(mcs.recs) : mcs.recs[i].a \in Nat /\ mcs.recs[i].n \in Nat /\ mcs.recs[i].n > 0
  BY Records
<1>2. PICK l \in Nat, k \in Nat, a \in Nat, n \in Nat :
        /\ l = Len(mcs.recs) /\ k = rec /\ k \in 1..l
        /\ a = mcs.recs[k].a /\ n = mcs.recs[k].n /\ off < n
  BY <1>1
<1>3. CASE off + 1 < n /\ off' = off + 1 /\ rec' = rec
  <2>1. /\ rec' \in 1..(l + 1) /\ off' \in Nat
        /\ off' < mcs.recs[rec'].n /\ mcs.recs[rec].a + off + 1 <= mcs.recs[rec'].a + off'
    BY <1>2, <1>3
  <2>2. ASSUME NEW y \in Nat, IsRead(y)' PROVE IsRead(y) \/ y = a + off
    <3>1. PICK i \in 1..l :
            /\ mcs.recs[i].a <= y /\ y < mcs.recs[i].a + mcs.recs[i].n
            /\ i < k \/ (i = k /\ y < mcs.recs[i].a + (off + 1))
      BY <1>2, <1>3, <2>2 DEF IsRead
    <3>2. CASE i < k
      BY <1>2, <3>1, <3>2 DEF IsRead
    <3>3. CASE i = k /\ y < a + (off + 1)
      <4>1. y < a + off \/ y = a + off
        BY <3>3
      <4> QED
        BY <1>2, <3>1, <3>3, <4>1 DEF IsRead
    <3> QED
      BY <1>2, <3>1, <3>2, <3>3
  <2> QED
    BY <1>2, <2>1, <2>2
<1>4. CASE ~(off + 1 < n) /\ off' = 0 /\ rec' = rec + 1
  <2>1. off + 1 = n
    BY <1>2, <1>4
  <2>2. ASSUME rec' <= l PROVE off' < mcs.recs[rec'].n /\ a + off + 1 <= mcs.recs[rec'].a + off'
    <3>1. PICK j \in 1..l : j = rec' /\ k < j
      BY <1>2, <1>4, <2>2
    <3>2. mcs.recs[j].a \in Nat /\ mcs.recs[j].n \in Nat /\ mcs.recs[j].n > 0
      BY <1>1, <1>2
    <3>3. a + n <= mcs.recs[j].a
      <4>1. \A i, h \in 1..l : i < h => mcs.recs[i].a + mcs.recs[i].n <= mcs.recs[h].a
        BY <1>2 DEF Ascends
      <4>2. k \in 1..l /\ k < j
        BY <1>2, <3>1
      <4>3. mcs.recs[k].a + mcs.recs[k].n <= mcs.recs[j].a
        BY <4>1, <4>2, Zenon
      <4>4. a = mcs.recs[k].a /\ n = mcs.recs[k].n
        BY <1>2
      <4> QED
        BY <4>3, <4>4, Zenon
    <3>4. a + off + 1 = a + n
      <4>1. \A c, d \in Nat : c + d + 1 = c + (d + 1)
        OBVIOUS
      <4> QED
        BY <2>1, <4>1
    <3>5. 0 < mcs.recs[j].n /\ a + off + 1 <= mcs.recs[j].a + 0
      BY <3>2, <3>3, <3>4
    <3> QED
      BY <1>4, <3>1, <3>5
  <2>3. ASSUME NEW y \in Nat, IsRead(y)' PROVE IsRead(y) \/ y = a + off
    <3>1. PICK i \in 1..l :
            /\ mcs.recs[i].a <= y /\ y < mcs.recs[i].a + mcs.recs[i].n
            /\ i < k + 1 \/ (i = k + 1 /\ y < mcs.recs[i].a + 0)
      BY <1>2, <1>4, <2>3 DEF IsRead
    <3>2. mcs.recs[i].a \in Nat
      BY <1>1, <1>2
    <3>3. i < k \/ i = k
      BY <1>2, <3>1, <3>2
    <3>4. CASE i < k
      BY <1>2, <3>1, <3>4 DEF IsRead
    <3>5. CASE i = k
      <4>1. y < a + n
        BY <1>2, <3>1, <3>5
      <4>2. y < a + off \/ y = a + off
        <5>1. \A c, d, x \in Nat : x < c + (d + 1) => x < c + d \/ x = c + d
          OBVIOUS
        <5> QED
          BY <1>2, <2>1, <4>1, <5>1
      <4> QED
        BY <1>2, <3>1, <3>5, <4>2 DEF IsRead
    <3> QED
      BY <3>3, <3>4, <3>5
  <2>4. rec' \in 1..(l + 1) /\ off' \in Nat
    BY <1>2, <1>4
  <2> QED
    BY <1>2, <2>2, <2>3, <2>4
<1> QED
  BY <1>2, <1>3, <1>4 DEF NextByte

LEMMA RecordsPut == ASSUME RecordsInv, Ascends(mcs), PutByte PROVE RecordsInv'
<1>1. /\ rec <= Len(mcs.recs) /\ ~PageEnds /\ mcs' = mcs /\ flash' = flash /\ NextByte
      /\ page' = IF page.fill = 0 THEN [page EXCEPT !.addr = Address, !.fill = 1]
                 ELSE [page EXCEPT !.fill = @ + 1]
  BY DEF PutByte, Decodes, cardVars
<1>2. /\ Len(mcs.recs) \in Nat /\ FlashSize \in Nat
      /\ \A i \in 1..Len(mcs.recs) : mcs.recs[i].a \in Nat /\ mcs.recs[i].n \in Nat /\ mcs.recs[i].n > 0
  BY Records, BootBounds
<1>3. /\ page.addr \in Nat /\ page.fill \in Nat /\ page.lastErased \in Nat
      /\ rec \in 1..Len(mcs.recs) /\ off \in Nat
      /\ off < mcs.recs[rec].n /\ page.addr + page.fill <= mcs.recs[rec].a + off
  BY <1>1, <1>2 DEF RecordsInv
<1>4. PICK x \in Nat, e \in Nat :
        x = mcs.recs[rec].a + off /\ e = page.addr + page.fill /\ e <= x
  BY <1>2, <1>3
<1>5. /\ rec' \in 1..(Len(mcs.recs) + 1) /\ off' \in Nat
      /\ rec' <= Len(mcs.recs) => off' < mcs.recs[rec'].n /\ x + 1 <= mcs.recs[rec'].a + off'
      /\ \A y \in Nat : IsRead(y)' => IsRead(y) \/ y = x
  BY <1>1, <1>3, <1>4, ReadOn
<1>6. PICK f \in Nat, q \in Nat :
        /\ f = page'.addr /\ q = page'.fill /\ page'.lastErased = page.lastErased
        /\ f + q = x + 1 /\ page.addr <= f
        /\ \A y \in Nat : (f <= y /\ y < f + q) <=> (InPage(y) \/ y = x)
        /\ q > 1 => f = page.addr /\ x = e /\ page.fill > 0
        /\ q = 1 => f = x
  <2>1. CASE page.fill = 0
    <3>1. page' = [page EXCEPT !.addr = Address, !.fill = 1]
      BY <1>1, <2>1
    <3>2. page'.addr = x /\ page'.fill = 1 /\ page'.lastErased = page.lastErased
      BY <1>4, <3>1 DEF Address
    <3>3. \A y \in Nat : ~InPage(y)
      BY <1>3, <2>1 DEF InPage
    <3>4. page.addr <= x
      BY <1>3, <1>4, <2>1
    <3>5. \A y \in Nat : (x <= y /\ y < x + 1) <=> (InPage(y) \/ y = x)
      BY <3>3
    <3> QED
      BY <3>2, <3>4, <3>5
  <2>2. CASE page.fill # 0
    <3>1. page' = [page EXCEPT !.fill = @ + 1]
      BY <1>1, <2>2
    <3>2. x = e
      BY <1>1, <1>3, <1>4, <2>2 DEF PageEnds, Address, PutByte
    <3>3. page'.addr = page.addr /\ page'.fill = page.fill + 1 /\ page'.lastErased = page.lastErased
      BY <3>1
    <3>4. PICK a \in Nat, l \in Nat : a = page.addr /\ l = page.fill /\ l > 0 /\ x = a + l
      BY <1>3, <1>4, <2>2, <3>2
    <3>5. \A y \in Nat : (a <= y /\ y < a + (l + 1)) <=> ((a <= y /\ y < a + l) \/ y = x)
      BY <3>4
    <3>6. \A y \in Nat : (a <= y /\ y < a + (l + 1)) <=> (InPage(y) \/ y = x)
      BY <3>4, <3>5 DEF InPage
    <3>7. a + (l + 1) = x + 1 /\ l + 1 \in Nat /\ l + 1 > 1 /\ l + 1 # 1
      BY <3>4
    <3> QED
      BY <3>2, <3>3, <3>4, <3>6, <3>7
  <2> QED
    BY <2>1, <2>2
<1>7. q >= 1
  BY <1>4, <1>6
<1>8. SectorNo(page.addr) <= SectorNo(f)
  BY <1>3, <1>6, Sectors
<1>9. ASSUME NEW y \in 0..(FlashSize - 1), IsRead(y)'
      PROVE  \/ InPage(y)'
             \/ /\ flash'[y] = "new"
                /\ SectorNo(y)' <= page'.lastErased /\ page'.lastErased <= SectorNo(page'.addr)
  <2>1. y \in Nat
    BY <1>2
  <2>2. IsRead(y) \/ y = x
    BY <1>5, <1>9, <2>1
  <2>3. CASE y = x \/ InPage(y)
    BY <1>6, <2>1, <2>3 DEF InPage
  <2>4. CASE IsRead(y) /\ ~InPage(y)
    <3>1. /\ flash[y] = "new" /\ SectorNo(y) <= page.lastErased
          /\ page.lastErased <= SectorNo(page.addr)
      BY <2>4 DEF RecordsInv
    <3>2. SectorNo(page.addr) \in Nat /\ SectorNo(f) \in Nat
      BY <1>3, Sectors
    <3>3. page.lastErased <= SectorNo(f)
      BY <1>3, <1>8, <3>1, <3>2
    <3> QED
      BY <1>1, <1>6, <3>1, <3>3 DEF SectorNo
  <2> QED
    BY <2>2, <2>3, <2>4
<1>10. ASSUME NEW y \in Nat, InPage(y)' PROVE SectorNo(y) = SectorNo(f)
  <2>1. InPage(y) \/ y = x
    BY <1>6, <1>10 DEF InPage
  <2>2. CASE q = 1
    <3>1. f <= y /\ y < f + 1
      BY <1>6, <1>10, <2>2 DEF InPage
    <3>2. y = f
      BY <1>6, <3>1
    <3> QED
      BY <3>2
  <2>3. CASE q > 1
    <3>1. f = page.addr /\ x = e /\ page.fill > 0
      BY <1>6, <2>3
    <3>2. CASE InPage(y)
      BY <3>1, <3>2 DEF RecordsInv
    <3>3. CASE y = x
      <4>1. (page.addr + page.fill) % FLASH_PAGE_SIZE # 0
        BY <1>1, <3>1 DEF PageEnds
      <4>2. PICK z \in Nat : z + 1 = e
        <5>1. e > 0 /\ e - 1 \in Nat /\ (e - 1) + 1 = e
          BY <1>3, <1>4, <3>1
        <5> QED
          BY <5>1
      <4>3. SectorNo(z + 1) = SectorNo(z)
        BY <1>4, <4>1, <4>2, PageInSector
      <4>4. InPage(z)
        <5>1. page.addr <= z /\ z < page.addr + page.fill
          BY <1>3, <1>4, <3>1, <4>2
        <5> QED
          BY <5>1 DEF InPage
      <4>5. SectorNo(z) = SectorNo(page.addr)
        BY <4>4 DEF RecordsInv
      <4> QED
        BY <3>1, <3>3, <4>2, <4>3, <4>5
    <3> QED
      BY <2>1, <3>2, <3>3
  <2>4. q = 1 \/ q > 1
    BY <1>7
  <2> QED
    BY <2>2, <2>3, <2>4
<1>11. ASSUME NEW y \in 0..(FlashSize - 1), f <= y, SectorNo(y) = page.lastErased
       PROVE  flash'[y] = "blank"
  <2>1. page.addr <= y
    BY <1>2, <1>3, <1>6, <1>11
  <2> QED
    BY <1>1, <1>11, <2>1 DEF RecordsInv
<1>12. \A y : SectorNo(y)' = SectorNo(y)
  BY DEF SectorNo
<1>13. page'.addr \in Nat /\ page'.fill \in Nat /\ page'.lastErased \in Nat
  BY <1>3, <1>6
<1>14. /\ rec' \in 1..(Len(mcs'.recs) + 1) /\ off' \in Nat
       /\ rec' <= Len(mcs'.recs) =>
            off' < mcs'.recs[rec'].n /\ page'.addr + page'.fill <= mcs'.recs[rec'].a + off'
  BY <1>1, <1>5, <1>6
<1>15. \A y \in Nat : InPage(y)' => SectorNo(y)' = SectorNo(page.addr)'
  BY <1>6, <1>10 DEF SectorNo
<1>16. \A y \in 0..(FlashSize - 1) :
         page'.addr <= y /\ SectorNo(y)' = page'.lastErased => flash'[y] = "blank"
  BY <1>6, <1>11, <1>12
<1> QED
  BY <1>9, <1>13, <1>14, <1>15, <1>16 DEF RecordsInv, SectorNo

\* A page is programmed: its cells are blank, and none programmed before is in a
\* sector that is erased for it.
LEMMA RecordsFlush ==
  ASSUME RecordsInv, Ascends(mcs), flash = [a \in 0..(FlashSize - 1) |-> flash[a]],
         page.fill > 0, Flush(FALSE), UNCHANGED <<mcs, rec, off>>
  PROVE  RecordsInv'
<1>1. FlashSize \in Nat /\ DOMAIN flash = 0..(FlashSize - 1)
  BY BootBounds
<1>2. /\ page.addr \in Nat /\ page.fill \in Nat /\ page.lastErased \in Nat
      /\ rec \in 1..(Len(mcs.recs) + 1) /\ off \in Nat
  BY DEF RecordsInv
<1>3. PICK a \in Nat, e \in Nat, l \in Nat, s \in Nat :
        /\ a = page.addr /\ e = page.addr + page.fill /\ a < e
        /\ l = page.lastErased /\ s = SectorNo(page.addr)
  BY <1>2, Sectors
<1>4. PICK erased : erased = ErasedFor(page)
  OBVIOUS
<1>5. /\ page'.addr = e /\ page'.fill = 0 /\ page'.lastErased = s
      /\ flash' = [y \in DOMAIN flash |->
                     IF y \notin page.addr .. (page.addr + page.fill - 1) THEN erased[y]
                     ELSE IF FALSE THEN "spoiled" ELSE Programmed(erased[y])]
  BY <1>3, <1>4 DEF Flush
<1>6. ASSUME NEW y \in 0..(FlashSize - 1)
      PROVE  /\ y \in Nat
             /\ InPage(y) => flash'[y] = Programmed(erased[y])
             /\ ~InPage(y) => flash'[y] = erased[y]
             /\ erased[y] = IF s # l /\ SectorNo(y) = s THEN "blank" ELSE flash[y]
  <2>1. y \in Nat
    BY <1>1
  <2>2. InPage(y) <=> y \in page.addr .. (page.addr + page.fill - 1)
    BY <1>2, <2>1, Between DEF InPage
  <2>3. flash'[y] = IF InPage(y) THEN Programmed(erased[y]) ELSE erased[y]
    BY <1>1, <1>5, <2>2
  <2>4. erased[y] = IF s # l /\ SectorNo(y) = s THEN "blank" ELSE flash[y]
    BY <1>1, <1>3, <1>4 DEF ErasedFor
  <2> QED
    BY <2>1, <2>3, <2>4
<1>7. s <= SectorNo(e) /\ SectorNo(e) \in Nat
  BY <1>3, Sectors
<1>8. \A y : IsRead(y)' <=> IsRead(y)
  BY DEF IsRead
<1>9. ASSUME NEW y \in 0..(FlashSize - 1), IsRead(y)
      PROVE  flash'[y] = "new" /\ SectorNo(y) <= s
  <2>1. CASE InPage(y)
    <3>1. SectorNo(y) = s
      BY <1>3, <1>6, <2>1 DEF RecordsInv
    <3>2. erased[y] = "blank"
      <4>1. CASE s # l
        BY <1>6, <3>1, <4>1
      <4>2. CASE s = l
        <5>1. page.addr <= y
          BY <2>1 DEF InPage
        <5>2. flash[y] = "blank"
          BY <1>3, <3>1, <4>2, <5>1 DEF RecordsInv
        <5> QED
          BY <1>6, <4>2, <5>2
      <4> QED
        BY <4>1, <4>2
    <3> QED
      BY <1>3, <1>6, <2>1, <3>1, <3>2 DEF Programmed
  <2>2. CASE ~InPage(y)
    <3>1. flash[y] = "new" /\ SectorNo(y) <= l /\ l <= s
      BY <1>3, <1>9, <2>2 DEF RecordsInv
    <3>2. SectorNo(y) \in Nat
      BY <1>6, Sectors
    <3>3. SectorNo(y) <= s /\ (SectorNo(y) = s => s = l)
      BY <1>3, <3>1, <3>2
    <3>4. erased[y] = flash[y]
      BY <1>6, <3>3
    <3> QED
      BY <1>6, <2>2, <3>1, <3>3, <3>4
  <2> QED
    BY <2>1, <2>2
<1>10. ASSUME NEW y \in 0..(FlashSize - 1), e <= y, SectorNo(y) = s
       PROVE  flash'[y] = "blank"
  <2>1. ~InPage(y) /\ a <= y
    BY <1>2, <1>3, <1>6, <1>10 DEF InPage
  <2>2. s = l => flash[y] = "blank"
    BY <1>3, <1>10, <2>1 DEF RecordsInv
  <2> QED
    BY <1>6, <1>10, <2>1, <2>2
<1>11. \A y \in Nat : ~InPage(y)'
  BY <1>3, <1>5 DEF InPage
<1>12. \A y : SectorNo(y)' = SectorNo(y)
  BY DEF SectorNo
<1>13. page'.addr \in Nat /\ page'.fill \in Nat /\ page'.lastErased \in Nat
  BY <1>3, <1>5
<1>14. rec' <= Len(mcs'.recs) =>
         off' < mcs'.recs[rec'].n /\ page'.addr + page'.fill <= mcs'.recs[rec'].a + off'
  <2>1. e + 0 = e
    BY <1>3
  <2> QED
    BY <1>3, <1>5, <2>1 DEF RecordsInv
<1>15. \A y \in 0..(FlashSize - 1) : IsRead(y)' =>
         /\ flash'[y] = "new"
         /\ SectorNo(y)' <= page'.lastErased /\ page'.lastErased <= SectorNo(page'.addr)
  BY <1>5, <1>7, <1>8, <1>9, <1>12
<1>16. \A y \in 0..(FlashSize - 1) :
         page'.addr <= y /\ SectorNo(y)' = page'.lastErased => flash'[y] = "blank"
  BY <1>5, <1>10, <1>12
<1> QED
  BY <1>2, <1>11, <1>13, <1>14, <1>15, <1>16 DEF RecordsInv, SectorNo

\* When all records are read and the last page is programmed, the flash holds
\* the image.
LEMMA AllRead ==
  ASSUME RecordsInv, Ascends(mcs), rec = Len(mcs.recs) + 1, page.fill = 0
  PROVE  Holds(mcs)
<1>1. /\ Len(mcs.recs) \in Nat /\ FlashSize \in Nat /\ DOMAIN mcs.recs = 1..Len(mcs.recs)
      /\ \A i \in 1..Len(mcs.recs) : mcs.recs[i].a \in Nat /\ mcs.recs[i].n \in Nat
  BY Records, BootBounds
<1> SUFFICES ASSUME NEW i \in 1..Len(mcs.recs),
                    NEW y \in mcs.recs[i].a .. (mcs.recs[i].a + mcs.recs[i].n - 1)
             PROVE  flash[y] = "new"
  BY <1>1 DEF Holds, Bytes
<1>2. PICK a \in Nat, n \in Nat : a = mcs.recs[i].a /\ n = mcs.recs[i].n
  BY <1>1
<1>3. a + n <= FlashSize
  BY <1>2 DEF Ascends
<1>4. y \in 0..(FlashSize - 1) /\ a <= y /\ y < a + n
  <2>1. y \in a..(a + n - 1)
    BY <1>2
  <2> QED
    BY <1>1, <1>3, <2>1
<1>5. i < rec
  BY <1>1
<1>6. IsRead(y)
  BY <1>2, <1>4, <1>5 DEF IsRead
<1>7. ~InPage(y)
  <2>1. page.addr \in Nat
    BY DEF RecordsInv
  <2> QED
    BY <1>4, <2>1 DEF InPage
<1> QED
  BY <1>4, <1>6, <1>7 DEF RecordsInv

-----------------------------------------------------------------------------
(* The steps.                                                              *)

\* The flash and the file alone decide what FpgaInv says outside the records.
LEMMA FpgaQuiet ==
  ASSUME FpgaInv, UNCHANGED <<flash, mcs>>, ~fault' => ~fault,
         stage' \notin {"records", "compare"},
         st' = "none" \/ (st' = st /\ (st = "bad" => stage' \in {"configure", "no rom", "loop"}))
  PROVE  FpgaInv'
BY DEF FpgaInv, GoodMcs

LEMMA FpgaBefore ==
  ASSUME FpgaInv,
         PowerCut \/ CopyFile \/ PowerOn \/ Bootloader \/ EraseApp \/ ProgramApp \/ VerifyApp \/ Configure
  PROVE  FpgaInv'
<1>1. flash' = flash /\ stage' \notin {"records", "compare"}
  BY DEF PowerCut, CopyFile, PowerOn, Bootloader, EraseApp, ProgramApp, VerifyApp, Configure,
         Goes, fpgaVars
<1>2. CASE PowerCut
  <2>1. st' = "none" /\ mcs' = mcs
    BY <1>2 DEF PowerCut, cardVars
  <2> QED
    BY <1>1, <2>1 DEF FpgaInv
<1>3. CASE CopyFile
  <2>1. st' = st /\ stage = "off"
    BY <1>3 DEF CopyFile, fpgaVars
  <2>2. st # "bad"
    BY <2>1 DEF FpgaInv
  <2> QED
    BY <1>1, <2>1, <2>2 DEF FpgaInv
<1>4. CASE PowerOn \/ Bootloader \/ EraseApp \/ ProgramApp \/ VerifyApp
  <2>1. st' = st /\ mcs' = mcs /\ stage \notin {"configure", "no rom", "loop"}
    BY <1>4 DEF PowerOn, Bootloader, EraseApp, ProgramApp, VerifyApp, fpgaVars, cardVars
  <2>2. st # "bad"
    BY <2>1 DEF FpgaInv
  <2> QED
    BY <1>1, <2>1, <2>2 DEF FpgaInv
<1>5. CASE Configure
  <2>1. UNCHANGED <<flash, mcs, fault, st>> /\ stage' \in {"no rom", "loop"}
    BY <1>5 DEF Configure, fpgaVars, cardVars
  <2> QED
    BY <2>1, FpgaQuiet
<1> QED
  BY <1>2, <1>3, <1>4, <1>5

LEMMA FpgaSetup == ASSUME AllAscend, Found, FpgaInv, Setup PROVE FpgaInv'
<1>1. UNCHANGED <<flash, mcs>> /\ stage = "setup" /\ rec' = 1 /\ off' = 0 /\ page' = NoPage
  BY DEF Setup, cardVars
<1>2. st # "bad"
  BY <1>1 DEF FpgaInv
<1>3. CASE stage' \in {"no card", "configure"} /\ UNCHANGED <<st, fault, faults>>
  BY <1>1, <1>2, <1>3 DEF FpgaInv
<1>4. CASE mcs # NoFile /\ Goes("records") /\ UNCHANGED <<st, fault, faults>>
  <2>1. ASSUME GoodMcs(mcs) PROVE RecordsInv'
    <3>1. Ascends(mcs)
      BY <1>4, <2>1 DEF AllAscend, Found
    <3> QED
      BY <1>1, <3>1, RecordsBegin
  <2> QED
    BY <1>1, <1>2, <1>4, <2>1 DEF FpgaInv, Goes, GoodMcs
<1>5. CASE Faulty /\ Goes("configure") /\ st' = "bad"
  BY <1>1, <1>5 DEF FpgaInv, Faulty, Goes
<1> QED
  BY <1>3, <1>4, <1>5 DEF Setup, Goes

LEMMA FpgaPuts == ASSUME AllAscend, Found, FpgaInv, PutByte PROVE FpgaInv'
<1>1. UNCHANGED <<stage, mcs, flash, st, fault>> /\ stage = "records"
  BY DEF PutByte, cardVars
<1>2. ASSUME ~fault, GoodMcs(mcs) PROVE RecordsInv'
  <2>1. mcs \in McsFiles
    BY <1>1 DEF Found
  <2>2. Ascends(mcs) /\ RecordsInv
    BY <1>1, <1>2, <2>1 DEF AllAscend, FpgaInv
  <2> QED
    BY <2>2, RecordsPut
<1> QED
  BY <1>1, <1>2 DEF FpgaInv, GoodMcs

LEMMA FpgaFlushes == ASSUME AllAscend, Found, FpgaInv, FlushPage PROVE FpgaInv'
<1>1. mcs' = mcs /\ rec' = rec /\ off' = off /\ stage = "records" /\ page.fill > 0
  BY DEF FlushPage, PageEnds, LastPage, cardVars
<1>2. flash = [a \in 0..(FlashSize - 1) |-> flash[a]] /\ DOMAIN flash = 0..(FlashSize - 1)
  BY DEF FpgaInv
<1>3. st # "bad"
  BY <1>1 DEF FpgaInv
<1>4. CASE Flush(FALSE) /\ UNCHANGED <<stage, st, fault, faults>>
  <2>1. flash' = [a \in 0..(FlashSize - 1) |-> flash'[a]]
    BY <1>2, <1>4 DEF Flush
  <2>2. ASSUME ~fault, GoodMcs(mcs) PROVE RecordsInv'
    <3>1. mcs \in McsFiles
      BY <1>1 DEF Found
    <3>2. Ascends(mcs) /\ RecordsInv
      BY <1>1, <2>2, <3>1 DEF AllAscend, FpgaInv
    <3> QED
      BY <1>1, <1>2, <1>4, <3>2, RecordsFlush
  <2> QED
    BY <1>1, <1>3, <1>4, <2>1, <2>2 DEF FpgaInv, GoodMcs
<1>5. CASE Flush(TRUE) /\ Faulty /\ UNCHANGED <<stage, st>>
  <2>1. flash' = [a \in 0..(FlashSize - 1) |-> flash'[a]]
    BY <1>2, <1>5 DEF Flush
  <2> QED
    BY <1>3, <1>5, <2>1 DEF FpgaInv, Faulty
<1>6. CASE FlushFails /\ Faulty
  <2>1. flash' = [a \in 0..(FlashSize - 1) |-> flash'[a]]
    BY <1>2, <1>6 DEF FlushFails, ErasedFor
  <2>2. stage' = "configure" /\ fault' = TRUE
    BY <1>6 DEF FlushFails, Faulty, Goes
  <2> QED
    BY <2>1, <2>2 DEF FpgaInv
<1> QED
  BY <1>4, <1>5, <1>6 DEF FlushPage

LEMMA FpgaEnds == ASSUME AllAscend, Found, FpgaInv, RecordsEnd PROVE FpgaInv'
<1>1. UNCHANGED <<mcs, flash, fault>> /\ stage = "records" /\ ~Decodes /\ ~LastPage
  BY DEF RecordsEnd, cardVars
<1>2. st # "bad"
  BY <1>1 DEF FpgaInv
<1>3. CASE GoodMcs(mcs) /\ Goes("compare") /\ UNCHANGED st
  <2>1. ASSUME ~fault PROVE Holds(mcs)
    <3>1. mcs \in McsFiles
      BY <1>1 DEF Found
    <3>2. Ascends(mcs) /\ RecordsInv
      BY <1>1, <1>3, <2>1, <3>1 DEF AllAscend, FpgaInv
    <3>3. Len(mcs.recs) \in Nat
      BY <3>2, Records
    <3>4. rec \in 1..(Len(mcs.recs) + 1) /\ page.fill \in Nat
      BY <3>2 DEF RecordsInv
    <3>5. rec = Len(mcs.recs) + 1 /\ page.fill = 0
      <4>1. ~(rec <= Len(mcs.recs))
        BY <1>1, <1>3, <3>4 DEF Decodes, GoodMcs
      <4>2. page.fill = 0
        BY <1>1, <3>4 DEF LastPage
      <4> QED
        BY <3>3, <3>4, <4>1, <4>2
    <3> QED
      BY <3>2, <3>5, AllRead
  <2> QED
    BY <1>1, <1>2, <1>3, <2>1 DEF FpgaInv, Goes, Holds
<1>4. CASE ~GoodMcs(mcs) /\ Goes("configure") /\ st' = "bad"
  BY <1>1, <1>4 DEF FpgaInv, Goes, GoodMcs
<1> QED
  BY <1>3, <1>4 DEF RecordsEnd

LEMMA FpgaCompares == ASSUME FpgaInv, Compare PROVE FpgaInv'
<1>1. flash' = flash /\ stage = "compare" /\ stage' = "configure"
  BY DEF Compare, Goes
<1>2. CASE Same /\ st' = "ok"
  BY <1>1, <1>2 DEF FpgaInv
<1>3. CASE ~Same /\ st' = "bad" /\ UNCHANGED <<mcs, fault, faults>>
  <2>1. fault
    BY <1>1, <1>3 DEF FpgaInv, Same
  <2> QED
    BY <1>1, <1>3, <2>1 DEF FpgaInv
<1>4. CASE Faulty /\ st' = "bad"
  BY <1>1, <1>4 DEF FpgaInv, Faulty
<1> QED
  BY <1>2, <1>3, <1>4 DEF Compare

InstallInv == BootInv /\ AppInv /\ FpgaInv

LEMMA InstallBegins == BootInit => InstallInv
<1> SUFFICES ASSUME BootInit PROVE InstallInv
  OBVIOUS
<1>1. AppInv
  BY DEF BootInit, AppInv
<1>2. FpgaInv
  BY DEF BootInit, FpgaInv
<1> QED
  BY <1>1, <1>2, BootBegins DEF InstallInv

LEMMA InstallStep == ASSUME AllAscend PROVE InstallInv /\ [BootNext]_bootVars => InstallInv'
<1> SUFFICES ASSUME InstallInv, [BootNext]_bootVars PROVE InstallInv'
  OBVIOUS
<1>1. BootInv'
  BY BootStep DEF InstallInv
<1>2. Found /\ AppInv /\ FpgaInv
  BY DEF InstallInv, BootInv
<1>3. CASE UNCHANGED bootVars
  <2>1. UNCHANGED <<stage, fwFile, mcs, app, pos, flash, rec, off, page, st, fault>>
    BY <1>3 DEF bootVars, cardVars, fpgaVars
  <2>2. AppInv'
    BY <1>2, <2>1, AppSame
  <2>3. Holds(mcs)' = Holds(mcs) /\ GoodMcs(mcs)' = GoodMcs(mcs)
    BY <2>1 DEF Holds, GoodMcs
  <2>4. RecordsInv' = RecordsInv
    BY <2>1 DEF RecordsInv, IsRead, InPage, SectorNo
  <2>5. FpgaInv'
    BY <1>2, <2>1, <2>3, <2>4 DEF FpgaInv
  <2> QED
    BY <1>1, <2>2, <2>5 DEF InstallInv
<1>4. CASE BootNext
  <2>1. AppInv'
    BY <1>2, <1>4, AppOthers, AppErases, AppPrograms DEF BootNext
  <2>2. FpgaInv'
    BY <1>2, <1>4, FpgaBefore, FpgaSetup, FpgaPuts, FpgaFlushes, FpgaEnds, FpgaCompares DEF BootNext
  <2> QED
    BY <1>1, <2>1, <2>2 DEF InstallInv
<1> QED
  BY <1>3, <1>4

\* A good file is installed at once unless a write goes wrong, however often
\* power went before and whatever damaged files left in the flashes, if the
\* records of the good .mcs files are in order (ihex_parse_file, prog_cb).
THEOREM GoodFileIsInstalled == ASSUME AllAscend PROVE BootSpec => []GoodFileInstalled
<1>1. InstallInv => GoodFileInstalled
  BY DEF InstallInv, AppInv, FpgaInv, GoodFileInstalled
<1>2. InstallInv /\ [BootNext]_bootVars => InstallInv'
  BY InstallStep
<1> QED
  BY InstallBegins, <1>1, <1>2, PTL DEF BootSpec

-----------------------------------------------------------------------------
(* The ESP32's update.                                                     *)

Last == Len(GoodImage)

\* What AllocHandle may be.
Lowest(F) == CHOOSE h \in F : \A g \in F : h <= g
Numbers == {0} \cup {Lowest(F) : F \in SUBSET HandleIds}

\* The requests made while the firmware is v.
Opens      == [cmd : {"READ_OPEN"}, file : {Fw}]
Reads      == [cmd : {"READ_CHUNK"}, h : Numbers, offset : 0..Last]
Closes     == [cmd : {"READ_CLOSE"}, h : Numbers]
Deletes(v) == [cmd : {"DELETE"}, file : IF v = "new" THEN {Fw, Note} ELSE {Note}]
Asked(v)   == Opens \cup Reads \cup Closes \cup Deletes(v)

\* The answers to them.
Commands == {"READ_OPEN", "READ_CHUNK", "READ_CLOSE", "DELETE"}
Failures == {"NO_HANDLE_FREE", "NOT_FOUND", "BAD_HANDLE"}
Refusals == [cmd : Commands, of : Asked("new"), status : Failures]
Dones    == [cmd : {"READ_CLOSE", "DELETE"}, of : Asked("new"), status : {"OK"}]
Handles  == [cmd : {"READ_OPEN"}, of : Asked("new"), status : {"OK"}, h : Numbers, size : {Last}]
Chunks   ==
  {a \in [cmd : {"READ_CHUNK"}, of : Reads, status : {"OK"}, data : Seq(Pieces), eof : BOOLEAN] :
     /\ a.eof = (a.of.offset + 1 >= Last)
     /\ a.data = IF a.of.offset < Last THEN <<GoodImage[a.of.offset + 1]>> ELSE <<>>}
Right    == Refusals \cup Dones \cup Handles \cup Chunks

LineRight ==
  /\ reqs \in Seq(Asked(firmware) \cup {Garbled})
  /\ resps \in Seq(Right \cup {FrameError})
  /\ request \in Asked(firmware) \cup {NoRequest}
  /\ phase = "idle" <=> request = NoRequest

\* The card, and the handles: of the image, for reading.
Reading == [mode : {"read"}, file : {Fw}, data : {GoodImage}, pos : 0..Last]
CardRight ==
  /\ DOMAIN disk \subseteq {Fw}
  /\ Fw \in DOMAIN disk => disk[Fw] = GoodImage
  /\ Fw \in DOMAIN disk \/ firmware = "new"
  /\ handles \in [HandleIds -> {Closed} \cup Reading]

\* What the ESP32 has read.
Prefix(s) == Len(s) <= Last /\ \A i \in 1..Len(s) : s[i] = GoodImage[i]

Whole == upd.good /\ upd.size = Last /\ upd.got = GoodImage

UpdRight ==
  /\ upd \in [step : {"open", "data", "close", "done", "tidy", "restart", "running"},
              h : Numbers, size : Nat, got : Seq(Pieces), good : BOOLEAN, transport : BOOLEAN]
  /\ firmware \in {"old", "new"}
  /\ upd.step \in {"done", "tidy", "restart"} => firmware = "new"
  /\ upd.step = "open" => upd.got = <<>>
  /\ upd.step = "data" =>
       upd.good /\ upd.size = Last /\ Len(upd.got) < Last /\ Prefix(upd.got)
  /\ upd.step = "close" => upd.transport \/ Whole

\* The request is the one of the step, with its offset.
AsksRight ==
  /\ request.cmd = "READ_OPEN" => upd.step = "open"
  /\ request.cmd = "READ_CHUNK" => upd.step = "data" /\ request.offset = Len(upd.got)
  /\ request.cmd = "READ_CLOSE" => upd.step = "close"
  /\ request.cmd = "DELETE" => upd.step \in {"done", "tidy"}

FwRight == LineRight /\ CardRight /\ UpdRight /\ AsksRight
FwInv   == image = GoodImage /\ ~misread => FwRight

-----------------------------------------------------------------------------
(* Sequences and frames.                                                   *)

LEMMA SeqGrows == ASSUME NEW S, NEW T, S \subseteq T, NEW s \in Seq(S) PROVE s \in Seq(T)
<1>1. \A i \in 1..Len(s) : s[i] \in T
  BY ElementOfSeq
<1> QED
  BY <1>1, LenProperties, SeqDef

LEMMA SeqParts ==
  ASSUME NEW S, NEW s \in Seq(S)
  PROVE  /\ s # <<>> => Head(s) \in S /\ Tail(s) \in Seq(S)
         /\ \A n \in 0..Len(s) : Drop(s, n) \in Seq(S)
         /\ \A x \in S : Append(s, x) \in Seq(S)
<1>1. ASSUME NEW n \in 0..Len(s) PROVE Drop(s, n) \in Seq(S)
  <2>1. \A i \in (n + 1)..Len(s) : s[i] \in S
    BY ElementOfSeq
  <2> QED
    BY <2>1, SubSeqProperties, LenProperties DEF Drop
<1> QED
  BY <1>1, HeadTailProperties, AppendProperties

LEMMA AskedGrows == \A v : Asked(v) \subseteq Asked("new")
BY DEF Asked, Deletes

LEMMA AskedFacts ==
  ASSUME NEW v, NEW r \in Asked(v)
  PROVE  /\ r.cmd \in Commands
         /\ r.cmd = "READ_OPEN" => r.file = Fw
         /\ r.cmd = "READ_CHUNK" => r \in Reads
         /\ r.cmd = "DELETE" => r.file = Note \/ (r.file = Fw /\ v = "new")
BY DEF Asked, Opens, Reads, Closes, Deletes, Commands

\* An answer that says OK.
LEMMA RightFacts ==
  ASSUME NEW a \in Right \cup {FrameError}, a.status = "OK"
  PROVE  /\ a.cmd = "READ_OPEN" => a \in Handles
         /\ a.cmd = "READ_CHUNK" => a \in Chunks
BY DEF Right, FrameError, Refusals, Failures, Dones, Handles, Chunks

-----------------------------------------------------------------------------
(* The line.                                                               *)

LEMMA LineSteps ==
  ASSUME LineRight, AsksRight, LinkStep
  PROVE  LineRight' /\ AsksRight'
<1> DEFINE Q == Asked(firmware) \cup {Garbled}
           R == Right \cup {FrameError}
<1>1. reqs \in Seq(Q) /\ resps \in Seq(R) /\ request \in Asked(firmware) \cup {NoRequest}
  BY DEF LineRight
<1>2. UNCHANGED <<request, upd, firmware>> /\ phase # "idle" /\ phase' # "idle"
  BY DEF LinkStep, TransmitOk, TransmitBad, Attempt, ReadTimeout, ReadFrameError,
         ReadStale, AttemptOver, updVars
<1>3. request \in Asked(firmware)
  BY <1>1, <1>2 DEF LineRight
<1>4. \/ reqs' = reqs
      \/ reqs' = Append(reqs, request) \/ reqs' = Append(reqs, Garbled)
  BY DEF LinkStep, TransmitOk, TransmitBad, ReadTimeout, ReadFrameError, ReadStale
<1>5. \/ resps' = resps
      \/ resps # <<>> /\ resps' = Tail(resps)
      \/ \E n \in 0..Len(resps) : resps' = Drop(resps, n)
  BY DEF LinkStep, TransmitOk, TransmitBad, Attempt, ReadTimeout, ReadFrameError, ReadStale
<1> HIDE DEF R
<1>6. reqs' \in Seq(Q)
  <2>1. request \in Q /\ Garbled \in Q
    BY <1>3
  <2> HIDE DEF Q
  <2> QED
    BY <1>1, <1>4, <2>1, SeqParts
<1>7. resps' \in Seq(R)
  BY <1>1, <1>5, SeqParts
<1> QED
  BY <1>1, <1>2, <1>6, <1>7 DEF LineRight, AsksRight, R

\* A call comes back.
LEMMA CallEnds ==
  ASSUME LineRight, ReadAnswer \/ ReturnFailure, firmware' \in {firmware, "new"}
  PROVE  LineRight' /\ AsksRight'
<1> DEFINE R == Right \cup {FrameError}
           Q == Asked(firmware) \cup {Garbled}
           Q2 == Asked(firmware') \cup {Garbled}
<1>1. reqs \in Seq(Q) /\ resps \in Seq(R)
  BY DEF LineRight
<1>2. /\ request' = NoRequest /\ phase' = "idle" /\ reqs' = reqs
      /\ resps' = resps \/ (resps # <<>> /\ resps' = Tail(resps))
  BY DEF ReadAnswer, ReturnFailure
<1>3. Q \subseteq Q2
  BY AskedGrows
<1>4. resps' \in Seq(R)
  <2> HIDE DEF R
  <2> QED
    BY <1>1, <1>2, SeqParts
<1>5. reqs' \in Seq(Q2)
  <2> HIDE DEF Q, Q2
  <2> QED
    BY <1>1, <1>2, <1>3, SeqGrows
<1> QED
  BY <1>2, <1>4, <1>5 DEF LineRight, AsksRight, NoRequest

\* The STM32 takes a frame and answers it.
LEMMA Answers ==
  ASSUME LineRight, AsksRight, reqs # <<>>, reqs' = Tail(reqs),
         UNCHANGED <<phase, request, firmware, upd>>,
         NEW a \in Right \cup {FrameError}, Answer(a)
  PROVE  LineRight' /\ AsksRight'
<1> DEFINE R == Right \cup {FrameError}
           Q == Asked(firmware) \cup {Garbled}
<1>1. reqs \in Seq(Q) /\ resps \in Seq(R)
  BY DEF LineRight
<1>2. resps' = resps \/ resps' = Append(resps, a)
  BY DEF Answer, AnswerSent, AnswerLost
<1>3. a \in R
  OBVIOUS
<1> HIDE DEF Q, R
<1>4. reqs' \in Seq(Q) /\ resps' \in Seq(R)
  BY <1>1, <1>2, <1>3, SeqParts
<1> QED
  BY <1>4 DEF LineRight, AsksRight, Q, R

\* The frame taken is a request, or damaged.
LEMMA Taken ==
  ASSUME LineRight, reqs # <<>>
  PROVE  Head(reqs) \in Asked(firmware) \cup {Garbled}
<1> DEFINE Q == Asked(firmware) \cup {Garbled}
<1>1. reqs \in Seq(Q)
  BY DEF LineRight
<1> HIDE DEF Q
<1>2. Head(reqs) \in Q
  BY <1>1, SeqParts
<1> QED
  BY <1>2 DEF Q

-----------------------------------------------------------------------------
(* The STM32.                                                              *)

LEMMA RefusalRight ==
  ASSUME NEW v, NEW r \in Asked(v), NEW failure \in Failures
  PROVE  Status(r, failure) \in Right
<1>1. r \in Asked("new") /\ r.cmd \in Commands
  BY AskedGrows, AskedFacts
<1> QED
  BY <1>1 DEF Status, Right, Refusals

LEMMA DoneRight ==
  ASSUME NEW v, NEW r \in Asked(v), r.cmd \in {"READ_CLOSE", "DELETE"}
  PROVE  Status(r, "OK") \in Right
<1>1. r \in Asked("new")
  BY AskedGrows
<1> QED
  BY <1>1 DEF Status, Right, Dones

\* Nothing but the image is opened.
LEMMA OpenServed ==
  ASSUME CardRight, NEW r \in Asked(firmware), r.cmd = "READ_OPEN", ReadOpen(r),
         UNCHANGED firmware
  PROVE  CardRight' /\ \E a \in Right : Answer(a)
<1>1. r.file = Fw
  BY AskedFacts
<1>2. CASE \E failure \in Failures : Refuse(r, failure)
  BY <1>2, RefusalRight DEF Refuse, CardRight, srvVars
<1>3. CASE /\ Fw \in DOMAIN disk
           /\ handles' = [handles EXCEPT ![AllocHandle] =
                [mode |-> "read", file |-> Fw, data |-> disk[Fw], pos |-> 0]]
           /\ disk' = disk
           /\ Answer([cmd |-> "READ_OPEN", of |-> r, status |-> "OK",
                      h |-> AllocHandle, size |-> Len(disk[Fw])])
  <2>1. disk[Fw] = GoodImage
    BY <1>3 DEF CardRight
  <2>2. 0 \in 0..Last
    BY UpdateBounds DEF Last
  <2>3. [mode |-> "read", file |-> Fw, data |-> disk[Fw], pos |-> 0] \in Reading
    BY <2>1, <2>2 DEF Reading
  <2>4. CardRight'
    BY <1>3, <2>3 DEF CardRight
  <2>5. AllocHandle \in Numbers
    <3>1. AllocHandle = Lowest(FreeHandles)
      BY DEF AllocHandle, Lowest
    <3>2. FreeHandles \in SUBSET HandleIds
      BY DEF FreeHandles
    <3> QED
      BY <3>1, <3>2 DEF Numbers
  <2>6. r \in Asked("new")
    BY AskedGrows
  <2>7. [cmd |-> "READ_OPEN", of |-> r, status |-> "OK",
         h |-> AllocHandle, size |-> Len(disk[Fw])] \in Right
    <3> HIDE DEF Numbers
    <3> QED
      BY <2>1, <2>5, <2>6 DEF Right, Handles, Last
  <2> QED
    BY <1>3, <2>4, <2>7
<1>4. "NO_HANDLE_FREE" \in Failures /\ "NOT_FOUND" \in Failures
  BY DEF Failures
<1> QED
  BY <1>1, <1>2, <1>3, <1>4 DEF ReadOpen

\* A read gives the piece at the offset asked for.
LEMMA PieceAt ==
  ASSUME NEW o \in 0..Last
  PROVE  /\ o < Last => SubSeq(GoodImage, o + 1, o + 1) = <<GoodImage[o + 1]>>
         /\ SubSeq(GoodImage, o + 1, o) = <<>>
         /\ o < Last => <<GoodImage[o + 1]>> \in Seq(Pieces)
         /\ <<>> \in Seq(Pieces)
<1>1. GoodImage \in Seq(Pieces) /\ Last \in Nat /\ Last = Len(GoodImage)
  BY UpdateBounds DEF Last
<1>2. CASE o < Last
  <2>1. o + 1 \in 1..Last /\ GoodImage[o + 1] \in Pieces
    BY <1>1, <1>2, ElementOfSeq
  <2> DEFINE t == SubSeq(GoodImage, o + 1, o + 1)
  <2>2. \A i \in (o + 1)..(o + 1) : GoodImage[i] \in Pieces
    BY <2>1
  <2>3. /\ t \in Seq(Pieces) /\ Len(t) = 1 /\ t[1] = GoodImage[o + 1]
    BY <1>2, <2>1, <2>2, SubSeqProperties
  <2>4. t = <<GoodImage[o + 1]>>
    <3> HIDE DEF t
    <3> QED
      BY <2>1, <2>3
  <2>5. SubSeq(GoodImage, o + 1, o) = <<>>
    BY <1>1, EmptySeq, SubSeqProperties
  <2> QED
    BY <2>3, <2>4, <2>5, EmptySeq
<1>3. CASE ~(o < Last)
  BY <1>1, <1>3, EmptySeq, SubSeqProperties
<1> QED
  BY <1>2, <1>3

LEMMA ChunkServed ==
  ASSUME CardRight, ~CardFails, NEW r \in Asked(firmware), r.cmd = "READ_CHUNK",
         ReadChunk(r), UNCHANGED firmware
  PROVE  CardRight' /\ \E a \in Right : Answer(a)
<1>1. r \in Reads
  BY AskedFacts
<1>2. CASE Refuse(r, "BAD_HANDLE")
  <2>1. "BAD_HANDLE" \in Failures
    BY DEF Failures
  <2> QED
    BY <1>2, <2>1, RefusalRight DEF Refuse, CardRight, srvVars
<1>3. CASE Used(r.h) /\ disk' = disk
  <2> DEFINE f == handles[r.h]
             o == r.offset
             n == IF o < Last THEN 1 ELSE 0
  <2>1. f \in Reading /\ r.h \in HandleIds
    BY <1>3 DEF Used, CardRight
  <2>2. f.mode = "read" /\ f.data = GoodImage /\ Len(f.data) = Last /\ f.pos \in 0..Last
    BY <2>1 DEF Reading, Last
  <2>3. o \in 0..Last /\ Last \in Nat
    BY <1>1, UpdateBounds DEF Reads, Last
  <2>4. SeekSet(f, o) = o
    BY <2>2, <2>3 DEF SeekSet
  <2>5. /\ handles' = [handles EXCEPT ![r.h].pos = o + n]
        /\ Answer([cmd |-> "READ_CHUNK", of |-> r, status |-> "OK",
                   data |-> SubSeq(GoodImage, o + 1, o + n), eof |-> o + n >= Last])
    BY <1>3, <2>2, <2>3, <2>4 DEF ReadChunk
  <2>6. o + n \in 0..Last
    BY <2>3
  <2>7. CardRight'
    <3>1. [f EXCEPT !.pos = o + n] \in Reading
      BY <2>1, <2>6 DEF Reading
    <3> QED
      BY <1>3, <2>1, <2>5, <3>1 DEF CardRight
  <2>8. SubSeq(GoodImage, o + 1, o + n) = IF o < Last THEN <<GoodImage[o + 1]>> ELSE <<>>
    <3>1. CASE o < Last
      BY <2>3, <3>1, PieceAt
    <3>2. CASE ~(o < Last)
      <4>1. n = 0 /\ o + n = o
        BY <2>3, <3>2
      <4> QED
        BY <2>3, <3>2, <4>1, PieceAt
    <3> QED
      BY <3>1, <3>2
  <2>9. SubSeq(GoodImage, o + 1, o + n) \in Seq(Pieces)
    BY <2>3, <2>8, PieceAt
  <2>10. (o + n >= Last) = (o + 1 >= Last) /\ (o + n >= Last) \in BOOLEAN
    BY <2>3
  <2>11. [cmd |-> "READ_CHUNK", of |-> r, status |-> "OK",
          data |-> SubSeq(GoodImage, o + 1, o + n), eof |-> o + n >= Last] \in Chunks
    BY <1>1, <2>8, <2>9, <2>10 DEF Chunks
  <2> QED
    BY <2>5, <2>7, <2>11 DEF Right
<1> QED
  BY <1>2, <1>3 DEF ReadChunk

\* Closing a handle writes nothing: none is open for writing.
LEMMA CloseServed ==
  ASSUME CardRight, NEW r \in Asked(firmware), r.cmd = "READ_CLOSE", Close(r),
         UNCHANGED firmware
  PROVE  CardRight' /\ \E a \in Right : Answer(a)
<1>1. CASE Refuse(r, "BAD_HANDLE")
  <2>1. "BAD_HANDLE" \in Failures
    BY DEF Failures
  <2> QED
    BY <1>1, <2>1, RefusalRight DEF Refuse, CardRight, srvVars
<1>2. CASE Used(r.h) /\ CloseHandle(r.h) /\ Answer(Status(r, "OK"))
  <2>1. handles[r.h] \in Reading
    BY <1>2 DEF Used, CardRight
  <2>2. disk' = disk /\ handles' = [handles EXCEPT ![r.h] = Closed]
    BY <1>2, <2>1 DEF CloseHandle, SyncHandle, Reading
  <2>3. CardRight'
    BY <2>2 DEF CardRight
  <2> QED
    BY <1>2, <2>3, DoneRight
<1> QED
  BY <1>1, <1>2 DEF Close

\* The image is deleted once it is installed.
LEMMA DeleteServed ==
  ASSUME CardRight, ~CardFails, NEW r \in Asked(firmware), r.cmd = "DELETE", Delete(r),
         UNCHANGED firmware
  PROVE  CardRight' /\ \E a \in Right : Answer(a)
<1>1. CASE Refuse(r, "NOT_FOUND")
  <2>1. "NOT_FOUND" \in Failures
    BY DEF Failures
  <2> QED
    BY <1>1, <2>1, RefusalRight DEF Refuse, CardRight, srvVars
<1>2. CASE /\ r.file \in DOMAIN disk
           /\ disk' = [f \in DOMAIN disk \ {r.file} |-> disk[f]]
           /\ handles' = handles
           /\ Answer(Status(r, "OK"))
  <2>1. r.file = Fw /\ firmware = "new"
    BY <1>2, AskedFacts DEF CardRight, Fw, Note
  <2>2. DOMAIN disk' = {}
    BY <1>2, <2>1 DEF CardRight
  <2>3. CardRight'
    BY <1>2, <2>1, <2>2 DEF CardRight
  <2> QED
    BY <1>2, <2>3, DoneRight
<1> QED
  BY <1>1, <1>2 DEF Delete
-----------------------------------------------------------------------------
(* The steps.                                                              *)

LEMMA FwBegins == Init => FwInv
<1> SUFFICES ASSUME Init, image = GoodImage, ~misread PROVE FwRight
  BY DEF FwInv
<1>1. LineRight
  <2>1. reqs = <<>> /\ resps = <<>> /\ request = NoRequest /\ phase = "idle"
    BY DEF Init, LinkInit
  <2> QED
    BY <2>1, EmptySeq DEF LineRight
<1>2. CardRight
  <2>1. disk = [f \in {Fw} |-> GoodImage] /\ handles = [h \in HandleIds |-> Closed]
    BY DEF Init, ServerInit
  <2> QED
    BY <2>1 DEF CardRight
<1>3. UpdRight /\ AsksRight
  <2>1. upd = Boot /\ firmware = "old" /\ request = NoRequest
    BY DEF Init, LinkInit
  <2> QED
    BY <2>1, EmptySeq DEF UpdRight, AsksRight, Boot, NoRequest, Numbers
<1> QED
  BY <1>1, <1>2, <1>3 DEF FwRight

LEMMA ServeStays ==
  ASSUME FwRight, ~CardFails, StmServe
  PROVE  FwRight'
<1> DEFINE r == Head(reqs)
<1>1. /\ reqs # <<>> /\ reqs' = Tail(reqs)
      /\ UNCHANGED <<phase, request, firmware, upd>>
  BY DEF StmServe, Serve, Take
<1>2. r.cmd # "garbled" /\ r \in Asked(firmware)
  <2>1. r.cmd # "garbled"
    BY DEF StmServe, Serve, Take
  <2>2. r \in Asked(firmware) \cup {Garbled}
    BY <1>1, Taken DEF FwRight
  <2> HIDE DEF r
  <2> QED
    BY <2>1, <2>2 DEF Garbled
<1>3. r.cmd \in Commands
  BY <1>2, AskedFacts
<1>4. CardRight' /\ \E a \in Right : Answer(a)
  <2>1. CASE r.cmd = "READ_OPEN"
    BY <1>1, <1>2, <2>1, OpenServed DEF FwRight, StmServe, Serve, Take
  <2>2. CASE r.cmd = "READ_CHUNK"
    BY <1>1, <1>2, <2>2, ChunkServed DEF FwRight, StmServe, Serve, Take
  <2>3. CASE r.cmd = "READ_CLOSE"
    BY <1>1, <1>2, <2>3, CloseServed DEF FwRight, StmServe, Serve, Take
  <2>4. CASE r.cmd = "DELETE"
    BY <1>1, <1>2, <2>4, DeleteServed DEF FwRight, StmServe, Serve, Take
  <2> QED
    BY <1>3, <2>1, <2>2, <2>3, <2>4 DEF Commands
<1>5. LineRight' /\ AsksRight'
  BY <1>1, <1>4, Answers DEF FwRight
<1>6. UpdRight'
  BY <1>1 DEF FwRight, UpdRight, Whole
<1> QED
  BY <1>4, <1>5, <1>6 DEF FwRight

LEMMA GarbledStays ==
  ASSUME FwRight, StmGarbled
  PROVE  FwRight'
<1>1. /\ reqs # <<>> /\ reqs' = Tail(reqs) /\ Answer(FrameError)
      /\ UNCHANGED <<phase, request, firmware, upd, disk, handles>>
  BY DEF StmGarbled, TakeGarbled, Take, srvVars, updVars
<1>2. LineRight' /\ AsksRight'
  BY <1>1, Answers DEF FwRight
<1> QED
  BY <1>1, <1>2 DEF FwRight, UpdRight, CardRight, Whole

LEMMA LinkStays ==
  ASSUME FwRight, LinkStep
  PROVE  FwRight'
<1>1. UNCHANGED <<firmware, upd, disk, handles>>
  BY DEF LinkStep, srvVars, updVars
<1> QED
  BY <1>1, LineSteps DEF FwRight, UpdRight, CardRight, Whole

\* What the ESP32 asks for is what its step says.
LEMMA AskStays ==
  ASSUME FwRight, Ask
  PROVE  FwRight'
<1>1. /\ UNCHANGED <<reqs, resps, firmware, upd, disk, handles>>
      /\ phase = "idle" /\ phase' = "send"
  BY DEF Ask, At, Call, Request, srvVars, updVars
<1>2. request' \in Asked(firmware) /\ AsksRight'
  <2>1. CASE At("open") /\ Call([cmd |-> "READ_OPEN", file |-> Fw])
    BY <1>1, <2>1 DEF At, Call, Request, Asked, Opens, AsksRight
  <2>2. CASE At("data") /\ Call([cmd |-> "READ_CHUNK", h |-> upd.h, offset |-> Len(upd.got)])
    <3>1. upd.h \in Numbers /\ Len(upd.got) \in 0..Last
      BY <2>2, UpdateBounds, LenProperties DEF At, FwRight, UpdRight, Last
    <3> QED
      BY <1>1, <2>2, <3>1 DEF At, Call, Request, Asked, Reads, AsksRight
  <2>3. CASE At("close") /\ Call([cmd |-> "READ_CLOSE", h |-> upd.h])
    <3>1. upd.h \in Numbers
      BY DEF FwRight, UpdRight
    <3> QED
      BY <1>1, <2>3, <3>1 DEF At, Call, Request, Asked, Closes, AsksRight
  <2>4. CASE At("done") /\ Call([cmd |-> "DELETE", file |-> Fw])
    BY <1>1, <2>4 DEF At, Call, Request, Asked, Deletes, AsksRight, FwRight, UpdRight
  <2>5. CASE At("tidy") /\ Call([cmd |-> "DELETE", file |-> Note])
    BY <1>1, <2>5 DEF At, Call, Request, Asked, Deletes, AsksRight
  <2>6. upd.step \notin {"reject", "note", "text", "shut"}
    BY DEF FwRight, UpdRight
  <2> QED
    BY <2>1, <2>2, <2>3, <2>4, <2>5, <2>6 DEF Ask, At
<1>3. LineRight'
  <2>1. request' # NoRequest
    <3>1. request'.cmd \in Commands
      BY <1>2, AskedFacts
    <3> QED
      BY <3>1 DEF Commands, NoRequest
  <2> QED
    BY <1>1, <1>2, <2>1 DEF FwRight, LineRight
<1> QED
  BY <1>1, <1>2, <1>3 DEF FwRight, UpdRight, CardRight, Whole

\* The answer read is one of the image's.
LEMMA Answered ==
  ASSUME LineRight, resps # <<>>
  PROVE  Head(resps) \in Right \cup {FrameError}
<1> DEFINE R == Right \cup {FrameError}
<1>1. resps \in Seq(R)
  BY DEF LineRight
<1> HIDE DEF R
<1>2. Head(resps) \in R
  BY <1>1, SeqParts
<1> QED
  BY <1>2 DEF R

\* When a call comes back, what the ESP32 makes of it is all that matters.
LEMMA CallStays ==
  ASSUME FwRight, ReadAnswer \/ ReturnFailure, Returned,
         firmware' \in {firmware, "new"}, UpdRight'
  PROVE  FwRight'
<1>1. LineRight' /\ AsksRight'
  BY CallEnds DEF FwRight
<1>2. UNCHANGED <<disk, handles>>
  BY DEF Returned, srvVars
<1>3. CardRight'
  BY <1>2 DEF FwRight, CardRight
<1> QED
  BY <1>1, <1>3 DEF FwRight

LEMMA OpenedStays ==
  ASSUME FwRight, Opened
  PROVE  FwRight'
<1> DEFINE ans == Head(resps)
<1>1. ReadAnswer /\ Returned /\ firmware' = firmware
  BY DEF Opened, Succeeds
<1>2. ans \in Handles
  <2>1. resps # <<>> /\ ans.cmd = "READ_OPEN" /\ ans.status = "OK"
    BY DEF Opened, Succeeds, ReadAnswer
  <2>2. ans \in Right \cup {FrameError}
    BY <2>1, Answered DEF FwRight
  <2> HIDE DEF ans
  <2> QED
    BY <2>1, <2>2, RightFacts
<1>3. ans.h \in Numbers /\ ans.size = Last
  BY <1>2 DEF Handles
<1>4. Last \in 1..Partition /\ Last \in Nat /\ 0 < Last
  BY UpdateBounds DEF Last
<1>5. upd.step = "open" /\ upd.got = <<>>
  BY DEF Opened, Succeeds, FwRight, AsksRight, UpdRight
<1>6. upd' = [upd EXCEPT !.h = ans.h, !.size = Last, !.good = TRUE, !.step = "data"]
  BY <1>3, <1>4 DEF Opened
<1>7. Len(upd.got) = 0 /\ Prefix(upd.got)
  BY <1>4, <1>5 DEF Prefix
<1>8. UpdRight'
  <2>1. upd'.got = upd.got /\ upd'.step = "data" /\ upd'.good /\ upd'.size = Last
    BY <1>6 DEF FwRight, UpdRight
  <2>2. upd' \in [step : {"open", "data", "close", "done", "tidy", "restart", "running"},
                  h : Numbers, size : Nat, got : Seq(Pieces), good : BOOLEAN,
                  transport : BOOLEAN]
    BY <1>3, <1>4, <1>6 DEF FwRight, UpdRight
  <2>3. firmware' \in {"old", "new"}
    BY <1>1 DEF FwRight, UpdRight
  <2> QED
    BY <1>4, <1>7, <2>1, <2>2, <2>3 DEF UpdRight
<1> QED
  BY <1>1, <1>8, CallStays

\* One more piece of the image: the answer is to the offset asked for.
LEMMA ReadStays ==
  ASSUME FwRight, Read, ~misread'
  PROVE  FwRight'
<1> DEFINE ans == Head(resps)
           got == upd.got \o ans.data
           n   == Len(upd.got)
<1>1. ReadAnswer /\ Returned /\ firmware' = firmware
  BY DEF Read, Succeeds
<1>2. ans \in Chunks
  <2>1. resps # <<>> /\ ans.cmd = "READ_CHUNK" /\ ans.status = "OK"
    BY DEF Read, Succeeds, ReadAnswer
  <2>2. ans \in Right \cup {FrameError}
    BY <2>1, Answered DEF FwRight
  <2> HIDE DEF ans
  <2> QED
    BY <2>1, <2>2, RightFacts
<1>3. ans.of = request
  BY <1>1 DEF Returned, Misread, ReadAnswer
<1>4. /\ upd.step = "data" /\ upd.good /\ upd.size = Last /\ n < Last
      /\ Prefix(upd.got) /\ request.offset = n
  BY DEF Read, Succeeds, FwRight, AsksRight, UpdRight
<1>5. upd.got \in Seq(Pieces) /\ n \in Nat /\ Last \in Nat /\ GoodImage \in Seq(Pieces)
  BY UpdateBounds, LenProperties DEF FwRight, UpdRight, Last
<1>6. ans.data = <<GoodImage[n + 1]>> /\ (ans.eof <=> n + 1 >= Last)
  <2>1. ans.eof \in BOOLEAN /\ ans.eof = (n + 1 >= Last)
    BY <1>2, <1>3, <1>4 DEF Chunks
  <2>2. ans.eof <=> n + 1 >= Last
    BY ONLY <2>1
  <2> QED
    BY <1>2, <1>3, <1>4, <2>2 DEF Chunks
<1>7. GoodImage[n + 1] \in Pieces
  BY <1>4, <1>5, ElementOfSeq DEF Last
<1>8. got \in Seq(Pieces) /\ Len(got) = n + 1 /\ Prefix(got)
  <2> DEFINE x == GoodImage[n + 1]
  <2>1. got = Append(upd.got, x)
    <3>1. got = upd.got \o <<x>>
      BY <1>6
    <3> HIDE DEF got, x
    <3> QED
      BY <1>5, <1>7, <3>1, AppendIsConcat DEF x
  <2>2. /\ got \in Seq(Pieces) /\ Len(got) = n + 1 /\ got[n + 1] = x
        /\ \A i \in 1..n : got[i] = upd.got[i]
    <3> HIDE DEF got
    <3> QED
      BY <1>5, <1>7, <2>1, AppendProperties
  <2>3. \A i \in 1..(n + 1) : got[i] = GoodImage[i]
    <3> HIDE DEF got
    <3> QED
      BY <1>4, <1>5, <2>2 DEF Prefix
  <2> HIDE DEF got, n
  <2> QED
    BY <1>4, <1>5, <2>2, <2>3 DEF Prefix
<1>9. ans.data # <<>>
  BY <1>6
<1>10. upd' = [upd EXCEPT !.got = got, !.step = IF n + 1 < Last THEN "data" ELSE "close"]
  <2>1. upd' = [upd EXCEPT !.got = got,
                  !.step = IF ans.data # <<>> /\ ~ans.eof /\ Len(got) < upd.size
                           THEN "data" ELSE "close"]
    BY DEF Read
  <2> HIDE DEF ans, got, n
  <2>2. (ans.data # <<>> /\ ~ans.eof /\ Len(got) < upd.size) <=> n + 1 < Last
    <3>1. ~ans.eof <=> n + 1 < Last
      BY <1>5, <1>6
    <3>2. Len(got) < upd.size <=> n + 1 < Last
      BY <1>4, <1>8
    <3> QED
      BY <1>9, <3>1, <3>2
  <2> QED
    BY <2>1, <2>2
<1>11. ~(n + 1 < Last) => got = GoodImage
  <2> HIDE DEF got, n
  <2>1. ASSUME ~(n + 1 < Last) PROVE Len(got) = Len(GoodImage)
    <3>1. Last = n + 1
      BY <1>4, <1>5, <2>1
    <3> QED
      BY <1>8, <3>1 DEF Last
  <2>2. ASSUME Len(got) = Len(GoodImage) PROVE got = GoodImage
    BY <1>5, <1>8, <2>2, SeqEqual DEF Prefix
  <2> QED
    BY <2>1, <2>2
<1>12. UpdRight'
  <2> HIDE DEF got
  <2>1. upd' \in [step : {"open", "data", "close", "done", "tidy", "restart", "running"},
                  h : Numbers, size : Nat, got : Seq(Pieces), good : BOOLEAN,
                  transport : BOOLEAN]
    BY <1>8, <1>10 DEF FwRight, UpdRight
  <2>2. /\ upd'.got = got /\ upd'.good = upd.good /\ upd'.size = upd.size
        /\ upd'.step = IF n + 1 < Last THEN "data" ELSE "close"
    BY <1>10 DEF FwRight, UpdRight
  <2>3. firmware' \in {"old", "new"}
    BY <1>1 DEF FwRight, UpdRight
  <2> QED
    BY <1>4, <1>8, <1>11, <2>1, <2>2, <2>3 DEF UpdRight, Whole
<1> QED
  BY <1>1, <1>12, CallStays

LEMMA FailureStays ==
  ASSUME FwRight, NotOpened \/ ReadFails
  PROVE  FwRight'
<1>1. (ReadAnswer \/ ReturnFailure) /\ Returned /\ firmware' = firmware
  BY DEF NotOpened, ReadFails, Fails, GoTo
<1>2. UpdRight'
  BY <1>1 DEF NotOpened, ReadFails, AfterReadFails, GoTo, FwRight, UpdRight
<1> QED
  BY <1>1, <1>2, CallStays

\* A whole image is valid; what is not whole was lost on the way.
LEMMA JudgeStays ==
  ASSUME FwRight, Judge
  PROVE  FwRight'
<1>1. (ReadAnswer \/ ReturnFailure) /\ Returned /\ firmware' \in {firmware, "new"}
  BY DEF Judge, Succeeds, Fails
<1>2. upd.step = "close" /\ (upd.transport \/ Valid)
  BY DEF Judge, Succeeds, Fails, FwRight, AsksRight, UpdRight, Whole, Valid, Last
<1>3. UpdRight'
  BY <1>2 DEF Judge, FwRight, UpdRight
<1> QED
  BY <1>1, <1>3, CallStays

LEMMA DeletedStays ==
  ASSUME FwRight, Deleted
  PROVE  FwRight'
<1>1. (ReadAnswer \/ ReturnFailure) /\ Returned /\ firmware' = firmware
  BY DEF Deleted, Succeeds, Fails, GoTo
<1>2. upd.step \in {"done", "tidy"}
  BY DEF Deleted, Succeeds, Fails, FwRight, AsksRight
<1>3. upd' = [upd EXCEPT !.step = IF upd.step = "done" THEN "tidy" ELSE "restart"]
  BY <1>2 DEF Deleted, GoTo
<1>4. UpdRight'
  BY <1>1, <1>2, <1>3 DEF FwRight, UpdRight
<1> QED
  BY <1>1, <1>4, CallStays

\* The note of a bad image is never asked for.
LEMMA NoNote ==
  ASSUME FwRight
  PROVE  ~(NoteOpened \/ NoteNotOpened \/ NoteWritten \/ NoteClosed)
<1>1. request.cmd \notin {"WRITE_OPEN", "WRITE_CHUNK", "WRITE_CLOSE"}
  BY AskedFacts DEF FwRight, LineRight, NoRequest, Commands
<1> QED
  BY <1>1 DEF NoteOpened, NoteNotOpened, NoteWritten, NoteClosed, Succeeds, Fails

LEMMA BootStays ==
  ASSUME FwRight, Restart \/ PowerCycle
  PROVE  FwRight'
<1>1. /\ phase' = "idle" /\ request' = NoRequest /\ disk' = disk /\ firmware' = firmware
      /\ upd' = Boot
  BY DEF Restart, At, PowerCycle, srvVars, FwRight, LineRight
<1>2. UpdRight' /\ AsksRight'
  BY <1>1, EmptySeq DEF FwRight, UpdRight, AsksRight, Boot, Numbers, NoRequest
<1>3. LineRight' /\ CardRight'
  <2>1. CASE Restart
    <3> DEFINE R == Right \cup {FrameError}
    <3>1. resps' \in Seq(R)
      <4>1. resps \in Seq(R)
        BY DEF FwRight, LineRight
      <4>2. \E n \in 0..Len(resps) : resps' = Drop(resps, n)
        BY <2>1 DEF Restart
      <4> HIDE DEF R
      <4> QED
        BY <4>1, <4>2, SeqParts
    <3>2. reqs' = reqs /\ handles' = handles
      BY <2>1 DEF Restart, srvVars
    <3> QED
      BY <1>1, <3>1, <3>2 DEF FwRight, LineRight, CardRight
  <2>2. CASE PowerCycle
    <3>1. reqs' = <<>> /\ resps' = <<>> /\ handles' = [h \in HandleIds |-> Closed]
      BY <2>2 DEF PowerCycle
    <3> QED
      BY <1>1, <3>1, EmptySeq DEF FwRight, LineRight, CardRight
  <2> QED
    BY <2>1, <2>2
<1> QED
  BY <1>2, <1>3 DEF FwRight

LEMMA FwSteps ==
  ASSUME ~CardFails, FwInv, [Next]_vars
  PROVE  FwInv'
<1> SUFFICES ASSUME image' = GoodImage, ~misread' PROVE FwRight'
  BY DEF FwInv
<1>1. image = GoodImage /\ ~misread
  <2>1. \/ UNCHANGED <<image, misread>>
        \/ image' = image /\ misread' = (misread \/ Misread)
    BY DEF Next, vars, updVars, Ask, Call, Opened, NotOpened, Read, ReadFails, Judge,
           Deleted, NoteOpened, NoteNotOpened, NoteWritten, NoteClosed, Returned,
           Restart, PowerCycle, Settled, StmServe, StmGarbled, UpdateTimeout, LinkStep
  <2>2. CASE UNCHANGED <<image, misread>>
    BY <2>2
  <2>3. CASE image' = image /\ misread' = (misread \/ Misread)
    <3>1. ~(misread \/ Misread)
      BY Zenon, <2>3
    <3> QED
      BY Zenon, <2>3, <3>1
  <2> QED
    BY <2>1, <2>2, <2>3
<1>2. FwRight
  BY <1>1 DEF FwInv
<1>3. CASE UNCHANGED vars \/ UpdateTimeout
  BY <1>2, <1>3 DEF vars, linkVars, srvVars, updVars, UpdateTimeout, FwRight, LineRight,
                    CardRight, UpdRight, AsksRight, Whole
<1> QED
  BY <1>2, <1>3, AskStays, OpenedStays, ReadStays, FailureStays, JudgeStays, DeletedStays,
     NoNote, BootStays, ServeStays, GarbledStays, LinkStays DEF Next, Settled

\* While the card reads and deletes what it is asked to, a good image is on
\* the card or installed, and no note says it was bad, whatever is lost, late
\* or repeated and whenever the power fails, until an answer is taken for
\* another (check_and_apply_firmware_update and the handlers it calls).
THEOREM GoodImageIsKept ==
  ASSUME ~CardFails
  PROVE  Spec => []GoodImageSurvives
<1>1. FwInv => GoodImageSurvives
  BY DEF FwInv, FwRight, CardRight, GoodImageSurvives, Fw, Note
<1>2. FwInv /\ [Next]_vars => FwInv'
  BY FwSteps
<1> QED
  BY <1>1, <1>2, FwBegins, PTL DEF Spec
=============================================================================
