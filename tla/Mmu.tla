--------------------------------- MODULE Mmu ---------------------------------
(***************************************************************************)
(* What lib/mmu.c and lib/cartridge.c keep behind windows of the address   *)
(* space: the ROM banks, the battery backed RAM and the clock of the       *)
(* cartridge (the MBC1, MBC2, MBC3 and MBC5 branches of mmu_write), the    *)
(* work RAM banks of the colour console, the files the RAM is saved in and *)
(* read back from, and the state file.                                     *)
(*                                                                         *)
(* The CPU reads memory[0xA000..] and memory[0xD000..] directly: the bank  *)
(* that is visible lives there (`window', `work') and its place in `ram'   *)
(* and `wram' is stale until it is switched out.  One value stands for the *)
(* 8 KB (4 KB) of a bank.                                                  *)
(***************************************************************************)
EXTENDS Rtc, FiniteSets

CONSTANTS Values, Zero,         \* what a bank can hold, and cleared memory
          Games,                \* cartridges, and the parts each game uses
          Bytes,                \* values written to the bank registers
          Banks32K, Banks64K, Banks128K   \* 4, 8 and 16: RAM banks of a size

VARIABLES
  game,                                \* the cartridge
  rom_current_bank, banking,
  window, ram, ram_internal,           \* memory[0xA000..], ram, mmu.ram_internal
  ram_external_enabled, ram_current_bank,
  work, wram, wram_current_bank,       \* memory[0xD000..], mmu.wram
  file_sav, file_rtc, stat,            \* the files, {} when there is none
  asked, rom_lo, rom_hi,               \* history: what the game last wrote to
                                       \* the bank registers,
  careful                              \* and whether it has only done what
                                       \* the code does as the hardware does

rom     == <<rom_current_bank, banking, rom_lo, rom_hi>>
extram  == <<window, ram, ram_internal, ram_external_enabled, ram_current_bank,
             asked>>
workram == <<work, wram, wram_current_bank>>
files   == <<file_sav, file_rtc, stat>>
vars    == <<game, rtc, rom, extram, workram, files, careful>>

Mbc1 == 1 .. 3
Mbc2 == {5, 6}
Mbc3 == {16, 19}
Mbc5 == 25 .. 30

\* Taken for an MBC3 by cartridge_load, but no case of mmu_write.
Mbc3Ignored == {17, 18}

\* The cartridges whose RAM is saved, of those cartridge_load accepts.
Battery == {3, 6, 16, 19, 27, 30}

\* MBC5 + rumble: the motor is a bit of the RAM bank register.
Rumble == 28 .. 30

\* RAM banks of 8 KB, by the type and the RAM size of the header.  The 512 bytes
\* of an MBC2 are the window; its `ram' is set to NULL by mmu_init.
RamBanks(type, code) ==
  CASE code = 0 -> IF type = 6 THEN 1 ELSE 0
    [] code = 2 -> IF type \in Mbc5 THEN Banks64K ELSE 1
    [] code = 3 -> Banks32K
    [] code = 4 -> Banks128K
    [] code = 5 -> Banks64K

RomBanks(code) == 2 ^ (code + 1)

Uses == {"rom", "ram", "clock", "latch", "work", "state", "power"}

\* The 2 KB of RAM size 1 are left out: a bank is 8 KB everywhere in mmu_write.
ASSUME MmuAssumption ==
  /\ Zero \in Values
  /\ Bytes \subseteq 0 .. 255
  /\ Banks32K \in 2 .. 4 /\ Banks64K \in 2 .. 8 /\ Banks128K \in 2 .. 16
  /\ \A g \in Games :
       /\ g.mbc \in {0} \cup Mbc1 \cup Mbc2 \cup Mbc3 \cup Mbc3Ignored \cup Mbc5
       /\ g.ram \in {0, 2, 3, 4, 5} /\ g.rom \in 0 .. 7
       /\ g.cgb \in BOOLEAN /\ g.uses \subseteq Uses
       /\ g.mbc \in Mbc2 => g.ram = 0
       /\ g.mbc \in Mbc3 => g.ram # 0

mbc      == game.mbc
rams     == RamBanks(mbc, game.ram)
roms     == RomBanks(game.rom)

\* Bank 0 is not a bank to switch to.
NotZero(b) == IF b = 0 THEN 1 ELSE b

UsesPart(p) == p \in game.uses

NoRam     == [b \in 0 .. rams - 1 |-> Zero]
WorkBanks == 1 .. 7
WorkSlots == 0 .. 7

\* Only MBC3 and MBC5 hide the RAM when it is disabled.
Visible == mbc \in Mbc3 \cup Mbc5 => ram_external_enabled

-----------------------------------------------------------------------------
(* Starting, leaving, and the files.                                       *)

\* mmu_restore_ram of a file, or of none.
Loaded(sav) ==
  IF sav = {} THEN [window |-> Zero, ram |-> NoRam, internal |-> Zero]
  ELSE LET f == CHOOSE f \in sav : TRUE
       IN IF rams <= 1
          THEN [window |-> f.head, ram |-> NoRam, internal |-> Zero]
          ELSE [window |-> f.head, ram |-> f.banks, internal |-> f.head]

\* The RAM with the window put back in its place.  (The motor's bit can select a
\* bank past the end of `ram': the copy then reaches other memory.)
Returned ==
  IF ram_current_bank \in DOMAIN ram
  THEN [ram EXCEPT ![ram_current_bank] = window] ELSE ram

\* The file mmu_save_ram writes.
Saved ==
  IF rams <= 1 THEN [head |-> window, banks |-> NoRam]
  ELSE [head |-> IF ram_external_enabled THEN ram_internal ELSE window,
        banks |-> IF ram_external_enabled THEN Returned ELSE ram]

PowerOn ==
  /\ rom_current_bank = 1 /\ banking = 0 /\ rom_lo = 1 /\ rom_hi = 0
  /\ ram_external_enabled = FALSE /\ ram_current_bank = 0 /\ asked = 0
  /\ work = Zero /\ wram = [b \in WorkSlots |-> Zero] /\ wram_current_bank = 1

\* mmu_init, in a new process.
Restarted ==
  /\ rom_current_bank' = 1 /\ banking' = 0 /\ rom_lo' = 1 /\ rom_hi' = 0
  /\ ram_external_enabled' = FALSE /\ ram_current_bank' = 0 /\ asked' = 0
  /\ work' = Zero /\ wram' = [b \in WorkSlots |-> Zero] /\ wram_current_bank' = 1

Init ==
  /\ game \in Games
  /\ PowerOn /\ RtcInit
  /\ window = Zero /\ ram = NoRam /\ ram_internal = Zero
  /\ file_sav = {} /\ file_rtc = {} /\ stat = {}
  /\ careful = TRUE

\* cartridge_load in a new process: the files are read.
Load(sav, rtc_file) ==
  /\ Restarted
  /\ window' = Loaded(sav).window /\ ram' = Loaded(sav).ram
  /\ ram_internal' = Loaded(sav).internal
  /\ rtc_mode' = "ram" /\ rtc_latch_time' = 0
  /\ rtc_time' = IF mbc \in Mbc3 /\ rtc_file # {}
                 THEN CHOOSE t \in rtc_file : TRUE ELSE now
  /\ UNCHANGED <<game, now, stat>>

\* The window of an 8 KB MBC3 cartridge is saved and loaded, its bank never;
\* the file of an MBC1 has the selected bank where bank 0 is expected.
SurvivesSaving ==
  mbc \in Battery =>
    /\ ~(mbc \in Mbc3 /\ rams = 1)
    /\ mbc \in Mbc1 /\ rams > 1 => ram_current_bank = 0

\* The program is left (cartridge_term) and started again.
TurnOff ==
  /\ UsesPart("power")
  /\ file_sav' = IF mbc \in Battery THEN {Saved} ELSE file_sav
  /\ file_rtc' = IF mbc \in Mbc3 THEN {rtc_time} ELSE file_rtc
  /\ Load(file_sav', file_rtc')
  /\ expects' = IF mbc \in Mbc3 THEN expects ELSE {}
  /\ careful' = (careful /\ SurvivesSaving)

\* It is killed, and started again.
Kill ==
  /\ UsesPart("power")
  /\ Load(file_sav, file_rtc)
  /\ expects' = {}
  /\ UNCHANGED <<file_sav, file_rtc>>
  /\ careful' = (careful /\ (file_sav # {} => ~(mbc \in Mbc3 /\ rams = 1)))

\* What mmu_save_stat writes: the whole of mmu_t, and ram.
Stat ==
  [rom |-> rom, mode |-> rtc_mode, time |-> rtc_time, latch |-> rtc_latch_time,
   window |-> window, ram |-> ram, internal |-> ram_internal,
   enabled |-> ram_external_enabled, bank |-> ram_current_bank, asked |-> asked,
   work |-> work, wram |-> wram, wbank |-> wram_current_bank]

SaveStat ==
  /\ UsesPart("state") /\ mbc # 6
  /\ stat' = {Stat}
  /\ UNCHANGED <<game, rtc, rom, extram, workram, file_sav, file_rtc, careful>>

\* The 512 bytes of an MBC2 are written from `ram', which is NULL: the process
\* ends here.
SaveStatOfMbc2 ==
  /\ UsesPart("state") /\ mbc = 6
  /\ Restarted
  /\ window' = Loaded(file_sav).window
  /\ rtc_mode' = "ram" /\ rtc_latch_time' = 0 /\ rtc_time' = now
  /\ expects' = {}
  /\ careful' = FALSE
  /\ UNCHANGED <<game, now, ram, ram_internal, file_sav, file_rtc, stat>>

RestoreStat ==
  /\ \E s \in stat :
       /\ rom_current_bank' = s.rom[1] /\ banking' = s.rom[2]
       /\ rom_lo' = s.rom[3] /\ rom_hi' = s.rom[4]
       /\ rtc_mode' = s.mode /\ rtc_time' = s.time /\ rtc_latch_time' = s.latch
       /\ expects' = {}
       /\ window' = s.window /\ ram' = s.ram /\ ram_internal' = s.internal
       /\ ram_external_enabled' = s.enabled /\ ram_current_bank' = s.bank
       /\ asked' = s.asked
       /\ work' = s.work /\ wram' = s.wram /\ wram_current_bank' = s.wbank
  /\ UNCHANGED <<game, now, files, careful>>

-----------------------------------------------------------------------------
(* The game writes below 0x8000: mmu_write, by address and controller.     *)

\* The value of a bank; what lies past the end of `ram' can be anything.
Fetched(banks, b) == IF b \in DOMAIN banks THEN {banks[b]} ELSE Values

\* 0x0000 - 0x1FFF
RamEnable(v) ==
  /\ UsesPart("ram") /\ mbc \in Mbc3 \cup Mbc5 /\ rams > 0
  /\ \/ /\ v = 10 /\ ~ram_external_enabled
        /\ ram_internal' = window
        /\ window' \in Fetched(ram, ram_current_bank)
        /\ ram_external_enabled' = TRUE
        /\ UNCHANGED ram
     \/ /\ v = 0 /\ ram_external_enabled
        /\ ram' = Returned
        /\ window' = ram_internal
        /\ ram_external_enabled' = FALSE
        /\ UNCHANGED ram_internal
  /\ UNCHANGED <<game, rtc, rom, ram_current_bank, asked, workram, files, careful>>

\* (a slip: the window is not put back before the next bank is fetched)
SwitchOver(b) ==
  /\ window' \in Fetched(ram, b)
  /\ ram_current_bank' = b
  /\ UNCHANGED ram

\* The copies of a switch to RAM bank b.
Switch(b) ==
  /\ ram' = Returned
  /\ window' \in Fetched(ram', b)
  /\ ram_current_bank' = b

\* 0x4000 - 0x5FFF of an MBC1 in RAM banking mode.
Mbc1RamBank(v) ==
  /\ mbc \in Mbc1 /\ banking # 0 /\ v < rams
  /\ Switch(v)
  /\ asked' = v
  /\ UNCHANGED <<rtc, careful>>

\* Of an MBC3: while the RAM is disabled too, when the window is not the bank it
\* is put back into.
Mbc3RamBank(v) ==
  /\ mbc \in Mbc3 /\ v < 8
  /\ Show("ram")
  /\ IF v < rams
     THEN /\ Switch(v)
          /\ asked' = v
          /\ careful' = (careful /\ ram_external_enabled)
     ELSE UNCHANGED <<ram, window, ram_current_bank, asked, careful>>

\* Of an MBC5: a switch while the RAM is disabled is forgotten, and the bit of
\* the motor is left out of the test but not of the bank.
Mbc5RamBank(v) ==
  LET bank == v % 16
      tested == IF mbc \in Rumble THEN v % 8 ELSE bank
  IN /\ mbc \in Mbc5 /\ tested < rams
     /\ asked' = tested
     /\ careful' = (careful /\ bank = tested
                            /\ (ram_external_enabled \/ bank = ram_current_bank))
     /\ IF ram_external_enabled /\ bank # ram_current_bank
        THEN Switch(bank)
        ELSE UNCHANGED <<ram, window, ram_current_bank>>
     /\ UNCHANGED rtc

RamBank(v) ==
  /\ UsesPart("ram")
  /\ Mbc1RamBank(v) \/ Mbc3RamBank(v) \/ Mbc5RamBank(v)
  /\ UNCHANGED <<game, rom, ram_internal, ram_external_enabled, workram, files>>

\* 0x4000 of an MBC3 again: a register of the clock.
ClockRegister(v) ==
  CASE v = 8  -> "seconds" [] v = 9  -> "minutes" [] v = 10 -> "hours"
    [] v = 11 -> "days"    [] v = 12 -> "high"

ShowClock(v) ==
  /\ UsesPart("clock") /\ mbc \in Mbc3 /\ v \in 8 .. 12
  /\ Show(ClockRegister(v))
  /\ UNCHANGED <<game, rom, extram, workram, files, careful>>

\* 0x6000 - 0x7FFF: the clock is latched, or the MBC1's banking mode chosen.
LatchClock ==
  /\ UsesPart("latch") /\ mbc \in Mbc3
  /\ Latch
  /\ UNCHANGED <<game, rom, extram, workram, files, careful>>

BankingMode(v) ==
  /\ UsesPart("ram") /\ mbc \in Mbc1
  /\ banking' = v
  /\ UNCHANGED <<game, rtc, rom_current_bank, rom_lo, rom_hi, extram, workram,
                 files, careful>>

-----------------------------------------------------------------------------
(* The ROM bank.                                                           *)

\* (a slip: no number is too large)
Uncapped(b) == b

\* "filter result to get a value < max rom number": the number of banks itself
\* goes through.
Cap(b) == IF b > roms THEN b % roms ELSE b

\* The bank after v is written to 0x2000 - 0x3FFF (an MBC5: to 0x2FFF).
LowBank(v) ==
  CASE mbc \in Mbc1 -> NotZero(Cap((rom_current_bank - (rom_current_bank % 32)) + (v % 32)))
    [] mbc \in Mbc2 -> v % 16
    [] mbc \in Mbc3 -> NotZero(Cap(v % 128))
    [] mbc \in Mbc5 -> Cap(v)
    [] OTHER -> rom_current_bank

\* After v is written to the upper bits: 0x4000 of an MBC1, 0x3000 of an MBC5,
\* whose ninth bit is lost in the eight of `b'.
HighBank(v) ==
  CASE mbc \in Mbc1 -> Cap(((rom_current_bank % 32) + 32 * v) % 256)
    [] mbc \in Mbc5 -> Cap(rom_current_bank)
    [] OTHER -> rom_current_bank

RomBank(v) ==
  /\ UsesPart("rom")
  /\ \/ /\ rom_current_bank' = LowBank(v)
        /\ rom_lo' = v
        /\ UNCHANGED rom_hi
     \/ /\ mbc \in Mbc1 => banking = 0
        /\ rom_current_bank' = HighBank(v)
        /\ rom_hi' = v
        /\ UNCHANGED rom_lo
  /\ UNCHANGED <<game, rtc, banking, extram, workram, files, careful>>

-----------------------------------------------------------------------------
(* The game writes at 0xA000 and to the work RAM.                          *)

WriteRam(v) ==
  /\ UsesPart("ram") /\ rtc_mode = "ram" /\ rams > 0
  /\ window' = v
  /\ UNCHANGED <<game, rtc, rom, ram, ram_internal, ram_external_enabled,
                 ram_current_bank, asked, workram, files, careful>>

\* A register of the clock takes the place of the RAM, on a colour console.  On
\* a classic one the value of the register goes to the RAM.
Valid(register) ==
  CASE register \in {"seconds", "minutes"} -> 0 .. Sixty - 1
    [] register = "hours"                  -> 0 .. TwentyFour - 1
    [] OTHER                               -> {0, 1}

WriteClock ==
  /\ rtc_mode # "ram" /\ game.cgb
  /\ \E v \in Valid(rtc_mode) : SetRegister(v)
  /\ UNCHANGED <<game, rom, extram, workram, files, careful>>

WriteClockOfClassic(v) ==
  /\ rtc_mode # "ram" /\ ~game.cgb
  /\ window' = v
  /\ careful' = (careful /\ ~Visible)
  /\ UNCHANGED <<game, rtc, rom, ram, ram_internal, ram_external_enabled,
                 ram_current_bank, asked, workram, files>>

TimePasses ==
  /\ UsesPart("clock") /\ Tick
  /\ UNCHANGED <<game, rom, extram, workram, files, careful>>

\* (a slip: the bank is copied in before it is changed)
SvbkEarly(v) ==
  LET new == NotZero(v % 8)
  IN /\ UsesPart("work") /\ game.cgb /\ new # wram_current_bank
     /\ wram' = [wram EXCEPT ![wram_current_bank] = work]
     /\ work' = wram'[wram_current_bank]
     /\ wram_current_bank' = new
     /\ UNCHANGED <<game, rtc, rom, extram, files, careful>>

\* 0xFF70: the work RAM bank.
Svbk(v) ==
  LET new == NotZero(v % 8)
  IN /\ UsesPart("work") /\ game.cgb /\ new # wram_current_bank
     /\ wram' = [wram EXCEPT ![wram_current_bank] = work]
     /\ work' = wram'[new]
     /\ wram_current_bank' = new
     /\ UNCHANGED <<game, rtc, rom, extram, files, careful>>

\* 0xD000 - 0xDFFF, or its mirror 0x2000 above.
WriteWork(v) ==
  /\ UsesPart("work")
  /\ work' = v
  /\ UNCHANGED <<game, rtc, rom, extram, wram, wram_current_bank, files, careful>>

Next ==
  \/ \E v \in Bytes :
       RamEnable(v) \/ RamBank(v) \/ BankingMode(v) \/ RomBank(v)
       \/ ShowClock(v) \/ Svbk(v)
  \/ \E v \in Values : WriteRam(v) \/ WriteClockOfClassic(v) \/ WriteWork(v)
  \/ LatchClock \/ WriteClock \/ TimePasses
  \/ TurnOff \/ Kill \/ SaveStat \/ SaveStatOfMbc2 \/ RestoreStat

Spec == Init /\ [][Next]_vars

-----------------------------------------------------------------------------
(* Properties.                                                             *)

\* What the game finds in each bank: the window is the truth of the bank in it.
GameRam ==
  [b \in 0 .. rams - 1 |->
     IF Visible /\ b = ram_current_bank THEN window ELSE ram[b]]

\* What the file holds of each bank: mmu_restore_ram shows the head of the file
\* at 0xA000, which an MBC1 takes for bank 0.
OnFile ==
  IF file_sav = {} THEN NoRam
  ELSE LET f == CHOOSE f \in file_sav : TRUE
       IN [b \in 0 .. rams - 1 |->
             IF rams = 1 \/ (mbc \in Mbc1 /\ b = 0) THEN f.head ELSE f.banks[b]]

KeptStat ==
  {[store |-> [b \in 0 .. rams - 1 |->
                 IF (mbc \in Mbc3 \cup Mbc5 => s.enabled) /\ b = s.bank
                 THEN s.window ELSE s.ram[b]],
    selected |-> s.asked] : s \in stat}

Ram == INSTANCE BankedRam WITH
         store <- GameRam, selected <- asked, covered <- rtc_mode # "ram",
         battery <- mbc \in Battery, saved <- OnFile, kept <- KeptStat

\* Every bank keeps what the game wrote to it through every switch, through
\* leaving and killing the program and through a restored state, as long as the
\* game has not met one of the cases in which the code differs from the
\* hardware: a switch while the RAM is disabled (MBC3, MBC5), the motor's bit, a
\* clock register written on a classic console, a file of an 8 KB MBC3 or of an
\* MBC1 not on bank 0, a state saved on an MBC2.
RamSurvives == Ram!Fresh /\ [][careful' => Ram!Moves]_Ram!ramvars

Work == INSTANCE BankedRam WITH
          store <- [b \in WorkBanks |->
                      IF b = wram_current_bank THEN work ELSE wram[b]],
          selected <- wram_current_bank, covered <- FALSE, battery <- FALSE,
          saved <- [b \in WorkBanks |-> Zero],
          kept <- {[store |-> [b \in WorkBanks |->
                                 IF b = s.wbank THEN s.work ELSE s.wram[b]],
                    selected |-> s.wbank] : s \in stat}

\* The seven banks of work RAM of the colour console keep what was written to
\* them, whatever is done with FF70.
WorkRamSurvives == Work!Promise

\* The bank the hardware would show for what the game wrote.
HardwareBank ==
  CASE mbc \in Mbc1 -> (32 * (rom_hi % 4) + NotZero(rom_lo % 32)) % roms
    [] mbc \in Mbc2 -> NotZero(rom_lo % 16) % roms
    [] mbc \in Mbc3 \cup Mbc3Ignored -> NotZero(rom_lo % 128) % roms
    [] mbc \in Mbc5 -> (256 * (rom_hi % 2) + rom_lo) % roms
    [] OTHER -> 1

\* The ROM bank at 0x4000 is the one the game selected, but for: a bank number
\* equal to the number of banks, which the filter lets through; another multiple
\* of it, shown as bank 1 where it wraps to 0; an MBC1 whose low register holds 0
\* below a high register, or whose header gives it more banks than its two
\* registers select, since a third bit of the high one goes through; an MBC2,
\* which is not filtered; and the two MBC3 that mmu_write does not know.
RightRomBank ==
  \/ rom_current_bank = HardwareBank
  \/ rom_current_bank = roms
  \/ rom_current_bank = 1 /\ HardwareBank = 0 /\ mbc \notin Mbc2 \cup Mbc5
  \/ mbc \in Mbc1 /\ rom_lo % 32 = 0 /\ roms > 32
  \/ mbc \in Mbc1 /\ rom_hi % 8 > 3 /\ roms > 128
  \/ mbc \in Mbc2 /\ rom_lo % 16 \notin 1 .. roms - 1
  \/ mbc \in Mbc3Ignored

\* What the game sets the registers of the clock to is what it reads from them
\* when the clock is latched in the same second, after leaving and starting the
\* program again too, and a register it does not set it reads as before; as long
\* as no part of the time borrows from the next, the days do not overflow and
\* the hours are not set.
ReadsWhatItSet ==
  rtc_latch_time = now =>
    \A e \in expects : \A r \in Registers : Reading(r) = e[r]
=============================================================================
