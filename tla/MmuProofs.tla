------------------------------ MODULE MmuProofs ------------------------------
(***************************************************************************)
(* Proofs about Mmu for every cartridge, whatever the sizes of its banks   *)
(* and the values written: memory behind a bank register, and the files,   *)
(* implement BankedRam, the ROM bank is the one asked for but in the cases *)
(* named, and a register of the clock is set without touching the others.  *)
(***************************************************************************)
EXTENDS Mmu, TLAPS

\* The work RAM and the state files keep their types.
WorkType ==
  /\ work \in Values /\ wram \in [WorkSlots -> Values]
  /\ wram_current_bank \in WorkBanks
  /\ \A s \in stat : /\ s.work \in Values /\ s.wram \in [WorkSlots -> Values]
                     /\ s.wbank \in WorkBanks

\* What a step can do to the work RAM and to the state file.
WorkKept == UNCHANGED <<work, wram, wram_current_bank, stat>>
WorkWritten == \E v \in Values : work' = v /\ UNCHANGED <<wram, wram_current_bank, stat>>
WorkSwitched ==
  \E b \in WorkBanks :
    /\ b # wram_current_bank
    /\ wram' = [wram EXCEPT ![wram_current_bank] = work]
    /\ work' = wram'[b] /\ wram_current_bank' = b
    /\ UNCHANGED stat
WorkCleared ==
  /\ work' = Zero /\ wram' = [b \in WorkSlots |-> Zero] /\ wram_current_bank' = 1
  /\ UNCHANGED stat
WorkSaved == stat' = {Stat} /\ UNCHANGED <<work, wram, wram_current_bank>>
WorkRestored ==
  /\ \E s \in stat : work' = s.work /\ wram' = s.wram /\ wram_current_bank' = s.wbank
  /\ UNCHANGED stat

-----------------------------------------------------------------------------

LEMMA WorkSteps ==
  ASSUME [Next]_vars
  PROVE  WorkKept \/ WorkWritten \/ WorkSwitched \/ WorkCleared \/ WorkSaved
         \/ WorkRestored
<1>1. ASSUME NEW v \in Bytes, Svbk(v) PROVE WorkSwitched
  <2>1. NotZero(v % 8) \in WorkBanks
    <3>1. v \in 0 .. 255
      BY MmuAssumption
    <3>2. v % 8 \in 0 .. 7
      BY <3>1
    <3> QED
      BY <3>2 DEF NotZero, WorkBanks
  <2> QED
    BY <1>1, <2>1 DEF Svbk, WorkSwitched, files
<1>2. ASSUME NEW v \in Bytes,
             RamEnable(v) \/ RamBank(v) \/ BankingMode(v) \/ RomBank(v) \/ ShowClock(v)
      PROVE  WorkKept
  BY <1>2 DEF RamEnable, RamBank, BankingMode, RomBank, ShowClock, WorkKept, workram,
              files
<1>3. ASSUME NEW v \in Values, WriteWork(v) PROVE WorkWritten
  BY <1>3 DEF WriteWork, WorkWritten, files
<1>4. ASSUME NEW v \in Values, WriteRam(v) \/ WriteClockOfClassic(v) PROVE WorkKept
  BY <1>4 DEF WriteRam, WriteClockOfClassic, WorkKept, workram, files
<1>5. CASE LatchClock \/ WriteClock \/ TimePasses \/ UNCHANGED vars
  BY <1>5 DEF LatchClock, WriteClock, TimePasses, vars, WorkKept, workram, files
<1>6. CASE TurnOff \/ Kill \/ SaveStatOfMbc2
  BY <1>6 DEF TurnOff, Kill, SaveStatOfMbc2, Load, Restarted, WorkCleared
<1>7. CASE SaveStat
  BY <1>7 DEF SaveStat, WorkSaved, workram
<1>8. CASE RestoreStat
  BY <1>8 DEF RestoreStat, WorkRestored, files
<1> QED
  BY <1>1, <1>2, <1>3, <1>4, <1>5, <1>6, <1>7, <1>8 DEF Next

LEMMA WorkTypeStep == WorkType /\ [Next]_vars => WorkType'
<1> SUFFICES ASSUME WorkType, [Next]_vars PROVE WorkType'
  OBVIOUS
<1>1. CASE WorkKept
  BY <1>1 DEF WorkType, WorkKept
<1>2. CASE WorkWritten
  BY <1>2 DEF WorkType, WorkWritten
<1>3. CASE WorkSwitched
  BY <1>3 DEF WorkType, WorkSwitched, WorkBanks, WorkSlots
<1>4. CASE WorkCleared
  BY <1>4, MmuAssumption DEF WorkType, WorkCleared, WorkBanks
<1>5. CASE WorkSaved
  BY <1>5 DEF WorkType, WorkSaved, Stat
<1>6. CASE WorkRestored
  BY <1>6 DEF WorkType, WorkRestored
<1> QED
  BY <1>1, <1>2, <1>3, <1>4, <1>5, <1>6, WorkSteps

LEMMA WorkInit == Init => WorkType /\ Work!Fresh
<1> SUFFICES ASSUME Init PROVE WorkType /\ Work!Fresh
  OBVIOUS
<1>1. WorkType
  BY MmuAssumption DEF Init, PowerOn, WorkType, WorkBanks
<1>2. \A b \in WorkBanks : (IF b = wram_current_bank THEN work ELSE wram[b]) = Zero
  BY DEF Init, PowerOn, WorkBanks, WorkSlots
<1> QED
  BY <1>1, <1>2 DEF Init, Work!Fresh

\* Each of them is a step the promise allows.
LEMMA WorkMoves == WorkType /\ [Next]_vars => [Work!Moves]_Work!ramvars
<1> SUFFICES ASSUME WorkType, [Next]_vars PROVE [Work!Moves]_Work!ramvars
  OBVIOUS
<1>1. CASE WorkKept
  BY <1>1 DEF WorkKept, Work!ramvars
<1>2. CASE WorkWritten
  <2>1. Work!Write
    BY <1>2 DEF WorkWritten, WorkType, Work!Write
  <2> QED
    BY <2>1 DEF Work!Moves
<1>3. CASE WorkSwitched
  <2>1. \A b \in WorkBanks :
          (IF b = wram_current_bank' THEN work' ELSE wram'[b])
            = (IF b = wram_current_bank THEN work ELSE wram[b])
    BY <1>3 DEF WorkSwitched, WorkType, WorkBanks, WorkSlots
  <2>2. Work!Select
    BY <1>3, <2>1 DEF WorkSwitched, Work!Select
  <2> QED
    BY <2>2 DEF Work!Moves
<1>4. CASE WorkCleared
  <2>1. \A b \in WorkBanks : (IF b = wram_current_bank' THEN work' ELSE wram'[b]) = Zero
    BY <1>4 DEF WorkCleared, WorkBanks, WorkSlots
  <2>2. Work!Kill
    BY <1>4, <2>1 DEF WorkCleared, Work!Kill
  <2> QED
    BY <2>2 DEF Work!Moves
<1>5. CASE WorkSaved
  <2>1. Work!Keep
    BY <1>5 DEF WorkSaved, Stat, Work!Keep
  <2> QED
    BY <2>1 DEF Work!Moves
<1>6. CASE WorkRestored
  <2>1. PICK s \in stat : work' = s.work /\ wram' = s.wram /\ wram_current_bank' = s.wbank
    BY <1>6 DEF WorkRestored
  <2> DEFINE k == [store |-> [b \in WorkBanks |->
                               IF b = s.wbank THEN s.work ELSE s.wram[b]],
                   selected |-> s.wbank]
  <2>2. /\ [b \in WorkBanks |-> IF b = wram_current_bank' THEN work' ELSE wram'[b]]
             = k.store
        /\ wram_current_bank' = k.selected
    BY <2>1
  <2>3. Work!GoBack
    BY <1>6, <2>2 DEF WorkRestored, Work!GoBack
  <2> QED
    BY <2>3 DEF Work!Moves
<1> QED
  BY <1>1, <1>2, <1>3, <1>4, <1>5, <1>6, WorkSteps

\* The seven banks of work RAM keep what was written to them through every
\* switch, restored state and restart (mmu.c:739-766, 1127-1132).
THEOREM WorkRamKept == Spec => WorkRamSurvives
<1>1. Spec => []WorkType
  BY WorkInit, WorkTypeStep, PTL DEF Spec
<1> QED
  BY <1>1, WorkInit, WorkMoves, PTL DEF Spec, WorkRamSurvives, Work!Promise

-----------------------------------------------------------------------------

(* The RAM of the cartridge.                                               *)

Slots  == 0 .. rams - 1
Banked == [Slots -> Values]

\* What the game finds in the banks of a RAM r with bank c in the window w.
Shown(w, r, c, visible) == [b \in Slots |-> IF visible /\ b = c THEN w ELSE r[b]]

\* Only MBC3 and MBC5 hide the RAM.
Hides == mbc \in Mbc3 \cup Mbc5

\* The bank in the window is the one the game has selected.
InStep(enabled, bank, selection) ==
  /\ enabled \in BOOLEAN /\ (~Hides => ~enabled)
  /\ careful => /\ selection = bank /\ bank \in Nat
                /\ rams > 0 => bank < rams

RamType ==
  /\ game \in Games /\ careful \in BOOLEAN
  /\ window \in Values /\ ram_internal \in Values /\ ram \in Banked
  /\ InStep(ram_external_enabled, ram_current_bank, asked)
  /\ mbc \notin Battery => file_sav = {}
  /\ \A f \in file_sav : f.head \in Values /\ f.banks \in Banked
  /\ \A s \in stat : /\ s.window \in Values /\ s.internal \in Values
                     /\ s.ram \in Banked
                     /\ InStep(s.enabled, s.bank, s.asked)

\* The number of RAM banks: an MBC5 never has one alone, and a saved RAM that
\* cannot be hidden is that of an MBC1 unless it is one bank.
LEMMA RamsType ==
  ASSUME game \in Games
  PROVE  /\ rams \in Nat /\ (mbc \in Mbc5 => rams # 1)
         /\ mbc \in Battery /\ ~Hides => mbc \in Mbc1 \/ rams = 1
<1>1. /\ game.ram \in {0, 2, 3, 4, 5}
      /\ Banks32K \in 2 .. 16 /\ Banks64K \in 2 .. 16 /\ Banks128K \in 2 .. 16
  BY MmuAssumption
<1>2. mbc \in Mbc5 => mbc # 6
  BY DEF Mbc5
<1>3. mbc \in Battery /\ ~Hides => mbc \in Mbc1 \/ rams = 1
  <2>1. mbc \in Battery /\ ~Hides => mbc \in Mbc1 \/ mbc = 6
    BY DEF Battery, Hides, Mbc1, Mbc3, Mbc5
  <2>2. mbc = 6 => game.ram = 0
    BY MmuAssumption DEF mbc, Mbc2
  <2> QED
    BY <2>1, <2>2 DEF rams, RamBanks
<1>4. CASE game.ram = 0
  BY <1>2, <1>3, <1>4 DEF rams, RamBanks
<1>5. CASE game.ram = 2
  BY <1>1, <1>3, <1>5 DEF rams, RamBanks
<1>6. CASE game.ram = 3
  BY <1>1, <1>3, <1>6 DEF rams, RamBanks
<1>7. CASE game.ram = 4
  BY <1>1, <1>3, <1>7 DEF rams, RamBanks
<1>8. CASE game.ram = 5
  BY <1>1, <1>3, <1>8 DEF rams, RamBanks
<1> QED
  BY <1>1, <1>4, <1>5, <1>6, <1>7, <1>8

LEMMA RamInit == Init => RamType /\ Ram!Fresh
<1> SUFFICES ASSUME Init PROVE RamType /\ Ram!Fresh
  OBVIOUS
<1>1. game \in Games /\ rams \in Nat
  BY RamsType DEF Init
<1>2. NoRam \in Banked
  BY MmuAssumption DEF NoRam, Banked, Slots
<1>3. InStep(ram_external_enabled, ram_current_bank, asked)
  BY <1>1 DEF Init, PowerOn, InStep
<1>4. RamType
  BY <1>1, <1>2, <1>3, MmuAssumption DEF Init, RamType
<1>5. GameRam = NoRam
  BY <1>1 DEF Init, PowerOn, GameRam, NoRam
<1>6. Ram!Fresh
  BY <1>5 DEF Init, Ram!Fresh, OnFile, KeptStat
<1> QED
  BY <1>4, <1>6

\* The cartridge stays the same, and with it everything its header says.
LEMMA SameGame ==
  ASSUME game' = game
  PROVE  /\ mbc' = mbc /\ rams' = rams /\ Slots' = Slots /\ Banked' = Banked
         /\ Hides' = Hides /\ NoRam' = NoRam
BY DEF mbc, rams, Slots, Banked, Hides, NoRam

\* A step that keeps what the game finds, the file and the state is allowed.
LEMMA SelectMoves ==
  ASSUME game' = game, GameRam' = GameRam, file_sav' = file_sav, stat' = stat
  PROVE  Ram!Moves
<1>1. OnFile' = OnFile /\ KeptStat' = KeptStat
  BY SameGame DEF OnFile, KeptStat, NoRam, mbc, rams
<1>2. Ram!Select
  BY <1>1, SameGame DEF Ram!Select
<1> QED
  BY <1>2 DEF Ram!Moves

\* So is one that keeps the window and the banks too.
LEMMA UntouchedMoves ==
  ASSUME RamType, UNCHANGED <<game, window, ram, ram_external_enabled,
                              ram_current_bank, file_sav, stat>>
  PROVE  Ram!Moves
<1>1. GameRam' = GameRam
  BY SameGame DEF GameRam, Visible
<1> QED
  BY <1>1, SelectMoves

\* The steps of the other parts.
LEMMA OtherParts ==
  ASSUME RamType, UNCHANGED <<game, extram, file_sav, stat, careful>>
  PROVE  RamType' /\ Ram!Moves
<1>1. RamType'
  BY SameGame DEF RamType, extram, InStep
<1>2. Ram!Moves
  BY UntouchedMoves DEF extram
<1> QED
  BY <1>1, <1>2

\* The bank in the window, put back in its place.
LEMMA ReturnedType == RamType => Returned \in Banked
BY DEF RamType, Returned, Banked

LEMMA ReturnedShown ==
  ASSUME RamType, Visible
  PROVE  GameRam = Returned
BY DEF RamType, GameRam, Returned, Banked, Slots

\* A write to the RAM: to the selected bank, or nowhere.
LEMMA WriteRamMoves ==
  ASSUME RamType, NEW v \in Values, WriteRam(v)
  PROVE  RamType' /\ (careful' => Ram!Moves)
<1>1. UNCHANGED <<game, ram, ram_internal, ram_external_enabled, ram_current_bank,
                  asked, file_sav, stat, careful>> /\ window' = v
  BY DEF WriteRam, files
<1>2. RamType'
  BY <1>1, SameGame DEF RamType, InStep
<1>3. ASSUME careful PROVE Ram!Moves
  <2>1. rams \in Nat /\ rams > 0 /\ rtc_mode = "ram"
    BY RamsType DEF WriteRam, RamType
  <2>2. asked = ram_current_bank /\ asked \in Slots
    BY <1>3, <2>1 DEF RamType, InStep, Slots
  <2>3. CASE Visible
    <3>1. GameRam' = [GameRam EXCEPT ![asked] = v]
      BY <1>1, <2>2, <2>3, SameGame DEF GameRam, Visible, Slots
    <3>2. DOMAIN GameRam = Slots
      BY DEF GameRam, Slots
    <3>3. OnFile' = OnFile /\ KeptStat' = KeptStat /\ rtc_mode' = rtc_mode
      BY <1>1, SameGame DEF OnFile, KeptStat, NoRam, WriteRam, rtc, mbc, rams
    <3>4. Ram!Write
      BY <1>1, <2>1, <2>2, <3>1, <3>2, <3>3, SameGame DEF Ram!Write
    <3> QED
      BY <3>4 DEF Ram!Moves
  <2>4. CASE ~Visible
    <3>1. GameRam' = GameRam
      BY <1>1, <2>4, SameGame DEF GameRam, Visible
    <3> QED
      BY <1>1, <3>1, SelectMoves
  <2> QED
    BY <2>3, <2>4
<1> QED
  BY <1>1, <1>2, <1>3

\* A clock register written on a classic console, while the RAM is hidden.
LEMMA WriteClockOfClassicMoves ==
  ASSUME RamType, NEW v \in Values, WriteClockOfClassic(v)
  PROVE  RamType' /\ (careful' => Ram!Moves)
<1>1. UNCHANGED <<game, ram, ram_internal, ram_external_enabled, ram_current_bank,
                  asked, file_sav, stat>> /\ window' = v
  BY DEF WriteClockOfClassic, files
<1>2. careful' \in BOOLEAN /\ (careful' => careful /\ ~Visible)
  BY Zenon DEF WriteClockOfClassic
<1>3. RamType'
  BY <1>1, <1>2, SameGame DEF RamType, InStep
<1>4. ASSUME careful' PROVE Ram!Moves
  <2>1. GameRam' = GameRam
    BY <1>1, <1>2, <1>4, SameGame DEF GameRam, Visible
  <2> QED
    BY <1>1, <2>1, SelectMoves
<1> QED
  BY <1>3, <1>4

\* The RAM is shown, or hidden, with the bank fetched, or put back.
LEMMA RamEnableMoves ==
  ASSUME RamType, NEW v \in Bytes, RamEnable(v)
  PROVE  RamType' /\ (careful' => Ram!Moves)
<1>1. /\ UNCHANGED <<game, ram_current_bank, asked, file_sav, stat, careful>>
      /\ Hides /\ rams \in Nat /\ rams > 0
  BY RamsType DEF RamEnable, files, Hides, RamType
<1>2. CASE /\ ~ram_external_enabled /\ ram_internal' = window
           /\ window' \in Fetched(ram, ram_current_bank)
           /\ ram_external_enabled' = TRUE /\ UNCHANGED ram
  <2>1. window' \in Values
    BY <1>2 DEF Fetched, RamType, Banked
  <2>2. RamType'
    BY <1>1, <1>2, <2>1, SameGame DEF RamType, InStep
  <2>3. ASSUME careful PROVE Ram!Moves
    <3>1. ram_current_bank \in Slots /\ window' = ram[ram_current_bank]
      BY <1>1, <1>2, <2>3 DEF RamType, InStep, Slots, Banked, Fetched
    <3>2. GameRam' = GameRam
      BY <1>1, <1>2, <3>1, SameGame DEF GameRam, Visible, Hides
    <3> QED
      BY <1>1, <3>2, SelectMoves
  <2> QED
    BY <1>1, <2>2, <2>3
<1>3. CASE /\ ram_external_enabled /\ ram' = Returned /\ window' = ram_internal
           /\ ram_external_enabled' = FALSE /\ UNCHANGED ram_internal
  <2>1. RamType'
    BY <1>1, <1>3, ReturnedType, SameGame DEF RamType, InStep
  <2>2. GameRam = Returned
    BY <1>3, ReturnedShown DEF Visible
  <2>3. ~Visible'
    BY <1>1, <1>3, SameGame DEF Visible, Hides
  <2>4. GameRam' = ram'
    BY <2>1, <2>3, <1>1, SameGame DEF GameRam, RamType, Banked, Slots
  <2> QED
    BY <1>1, <1>3, <2>1, <2>2, <2>4, SelectMoves
<1> QED
  BY <1>2, <1>3 DEF RamEnable

\* Another bank in the window, while the RAM can be seen: nothing is lost.
LEMMA SwitchShown ==
  ASSUME RamType, NEW b \in Nat, Switch(b), game' = game,
         ram_external_enabled' = ram_external_enabled
  PROVE  /\ ram' \in Banked /\ window' \in Values /\ ram_current_bank' = b
         /\ b < rams /\ Visible => GameRam' = GameRam
<1>1. ram' = Returned /\ ram' \in Banked /\ ram_current_bank' = b
  BY ReturnedType DEF Switch
<1>2. window' \in Values
  BY <1>1 DEF Switch, Fetched, Banked
<1>3. ASSUME b < rams, Visible PROVE GameRam' = GameRam
  <2>1. b \in Slots /\ window' = ram'[b]
    BY <1>1, <1>3, RamsType DEF Switch, Fetched, Banked, Slots, RamType
  <2>2. GameRam' = ram'
    BY <1>1, <1>3, <2>1, SameGame DEF GameRam, Visible, Banked, Slots
  <2> QED
    BY <1>1, <1>3, <2>2, ReturnedShown
<1> QED
  BY <1>1, <1>2, <1>3

\* The bank registers.
LEMMA RamBankMoves ==
  ASSUME RamType, NEW v \in Bytes, RamBank(v)
  PROVE  RamType' /\ (careful' => Ram!Moves)
<1>1. /\ UNCHANGED <<game, ram_internal, ram_external_enabled, file_sav, stat>>
      /\ v \in 0 .. 255 /\ rams \in Nat
  BY MmuAssumption, RamsType DEF RamBank, files, RamType
<1>2. ASSUME NEW b \in Nat, Switch(b), asked' \in Nat, careful' \in BOOLEAN,
             careful' => careful /\ Visible /\ asked' = b /\ b < rams
      PROVE  RamType' /\ (careful' => Ram!Moves)
  <2>1. /\ ram' \in Banked /\ window' \in Values /\ ram_current_bank' = b
        /\ b < rams /\ Visible => GameRam' = GameRam
    BY <1>1, <1>2, SwitchShown
  <2>2. InStep(ram_external_enabled, ram_current_bank, asked)'
    BY <1>1, <1>2, <2>1, SameGame DEF InStep, RamType
  <2>3. RamType'
    BY <1>1, <1>2, <2>1, <2>2, SameGame DEF RamType, InStep
  <2> QED
    BY <1>1, <1>2, <2>1, <2>3, SelectMoves
<1>3. ASSUME UNCHANGED <<ram, window, ram_current_bank>>, careful' \in BOOLEAN,
             careful' => careful /\ asked' = ram_current_bank
      PROVE  RamType' /\ (careful' => Ram!Moves)
  <2>1. InStep(ram_external_enabled, ram_current_bank, asked)'
    BY <1>1, <1>3, SameGame DEF InStep, RamType
  <2>2. RamType'
    BY <1>1, <1>3, <2>1, SameGame DEF RamType, InStep
  <2> QED
    BY <1>1, <1>3, <2>2, UntouchedMoves
<1>4. CASE Mbc1RamBank(v)
  <2>1. Visible
    BY <1>4 DEF Mbc1RamBank, Visible, Mbc1, Mbc3, Mbc5
  <2>2. /\ Switch(v) /\ asked' = v /\ careful' = careful /\ v < rams
        /\ careful' \in BOOLEAN
    BY <1>4 DEF Mbc1RamBank, RamType
  <2> QED
    BY <1>1, <1>2, <2>1, <2>2
<1>5. CASE Mbc3RamBank(v)
  <2>1. CASE v < rams
    <3>1. /\ Switch(v) /\ asked' = v /\ careful' \in BOOLEAN
          /\ careful' => careful /\ Visible
      BY <1>5, <2>1, Zenon DEF Mbc3RamBank, Visible
    <3> QED
      BY <1>1, <1>2, <2>1, <3>1
  <2>2. CASE ~(v < rams)
    BY <1>3, <1>5, <2>2 DEF Mbc3RamBank, RamType, InStep
  <2> QED
    BY <2>1, <2>2
<1>6. CASE Mbc5RamBank(v)
  <2> DEFINE bank == v % 16
             tested == IF mbc \in Rumble THEN v % 8 ELSE bank
  <2>1. bank \in Nat /\ tested \in Nat
    BY <1>1
  <2>2. /\ tested < rams /\ asked' = tested /\ mbc \in Mbc5
        /\ careful' = (careful /\ bank = tested
                               /\ (ram_external_enabled \/ bank = ram_current_bank))
        /\ IF ram_external_enabled /\ bank # ram_current_bank
           THEN Switch(bank)
           ELSE UNCHANGED <<ram, window, ram_current_bank>>
    BY <1>6 DEF Mbc5RamBank
  <2> HIDE DEF bank, tested
  <2>3. /\ careful' \in BOOLEAN
        /\ careful' => /\ careful /\ bank = tested
                       /\ ram_external_enabled \/ bank = ram_current_bank
    BY <2>2, Zenon
  <2>4. CASE ram_external_enabled /\ bank # ram_current_bank
    <3>1. Visible
      BY <2>4 DEF Visible
    <3> QED
      BY <1>2, <2>1, <2>2, <2>3, <2>4, <3>1
  <2>5. CASE ~(ram_external_enabled /\ bank # ram_current_bank)
    BY <1>3, <2>2, <2>3, <2>5
  <2> QED
    BY <2>4, <2>5
<1> QED
  BY <1>4, <1>5, <1>6 DEF RamBank

-----------------------------------------------------------------------------

(* Leaving, being killed, and the state file.                              *)

FileType(sav) ==
  /\ \A f \in sav : f.head \in Values /\ f.banks \in Banked
  /\ mbc \notin Battery => sav = {}

\* What is read back from a file keeps its type.
LEMMA LoadedType ==
  ASSUME RamType, NEW sav, FileType(sav)
  PROVE  /\ Loaded(sav).window \in Values /\ Loaded(sav).internal \in Values
         /\ Loaded(sav).ram \in Banked
<1>1. NoRam \in Banked /\ Zero \in Values
  BY MmuAssumption DEF NoRam, Banked, Slots
<1>2. CASE sav = {}
  BY <1>1, <1>2 DEF Loaded
<1>3. CASE sav # {}
  <2> DEFINE f == CHOOSE f \in sav : TRUE
  <2>1. f \in sav
    BY <1>3
  <2>2. f.head \in Values /\ f.banks \in Banked
    BY <2>1 DEF FileType
  <2>3. Loaded(sav) = IF rams <= 1
                      THEN [window |-> f.head, ram |-> NoRam, internal |-> Zero]
                      ELSE [window |-> f.head, ram |-> f.banks, internal |-> f.head]
    BY <1>3 DEF Loaded
  <2> HIDE DEF f
  <2> QED
    BY <1>1, <2>2, <2>3
<1> QED
  BY <1>2, <1>3

\* A new process has what the file holds, but for an 8 KB MBC3.
LEMMA LoadShows ==
  ASSUME RamType, NEW sav, NEW times, FileType(sav), Load(sav, times),
         file_sav' = sav,
         sav # {} => ~(mbc \in Mbc3 /\ rams = 1)
  PROVE  GameRam' = OnFile'
<1>1. /\ game' = game /\ ram_external_enabled' = FALSE /\ ram_current_bank' = 0
      /\ window' = Loaded(sav).window /\ ram' = Loaded(sav).ram
  BY DEF Load, Restarted
<1>2. Slots' = Slots /\ rams' = rams /\ rams \in Nat
  BY <1>1, SameGame, RamsType DEF RamType
<1>3. Visible' <=> ~Hides
  BY <1>1, SameGame DEF Visible, Hides
<1>4. GameRam' = [b \in Slots |-> IF ~Hides /\ b = 0 THEN Loaded(sav).window
                                                   ELSE Loaded(sav).ram[b]]
  BY <1>1, <1>2, <1>3 DEF GameRam, Slots
<1>5. CASE sav = {}
  <2>1. OnFile' = NoRam
    BY <1>1, <1>5, SameGame DEF OnFile
  <2>2. Loaded(sav).window = Zero /\ Loaded(sav).ram = NoRam
    BY <1>5 DEF Loaded
  <2> QED
    BY <1>4, <2>1, <2>2 DEF NoRam, Slots
<1>6. CASE sav # {}
  <2> DEFINE f == CHOOSE f \in sav : TRUE
  <2>1. f \in sav
    BY <1>6
  <2>2. f.head \in Values /\ f.banks \in Banked /\ mbc \in Battery
    BY <1>6, <2>1 DEF FileType
  <2>3. Loaded(sav) = IF rams <= 1
                      THEN [window |-> f.head, ram |-> NoRam, internal |-> Zero]
                      ELSE [window |-> f.head, ram |-> f.banks, internal |-> f.head]
    BY <1>6 DEF Loaded
  <2>4. OnFile' = [b \in Slots |-> IF rams = 1 \/ (mbc \in Mbc1 /\ b = 0)
                                  THEN f.head ELSE f.banks[b]]
    BY <1>1, <1>2, <1>6, SameGame DEF OnFile, Slots
  <2> HIDE DEF f
  <2>5. mbc \in Mbc1 => ~Hides
    BY DEF Mbc1, Mbc3, Mbc5, Hides
  <2>6. CASE rams = 0
    BY <1>4, <2>4, <2>6 DEF Slots
  <2>7. CASE rams = 1
    <3>1. ~Hides
      BY <1>6, <2>7, RamsType DEF Hides, RamType
    <3> QED
      BY <1>4, <2>3, <2>4, <2>7, <3>1 DEF Slots
  <2>8. CASE rams > 1
    <3>1. ~Hides => mbc \in Mbc1
      BY <2>2, <2>8, RamsType DEF RamType
    <3>2. Loaded(sav).window = f.head /\ Loaded(sav).ram = f.banks
      BY <1>2, <2>3, <2>8
    <3>3. \A b \in Slots :
            (IF ~Hides /\ b = 0 THEN f.head ELSE f.banks[b])
              = (IF rams = 1 \/ (mbc \in Mbc1 /\ b = 0) THEN f.head ELSE f.banks[b])
      BY <2>5, <2>8, <3>1
    <3> QED
      BY <1>4, <2>4, <3>2, <3>3
  <2> QED
    BY <1>2, <2>6, <2>7, <2>8
<1> QED
  BY <1>5, <1>6

LEMMA SavedType == RamType => FileType({Saved}) \/ mbc \notin Battery
<1> SUFFICES ASSUME RamType, mbc \in Battery PROVE FileType({Saved})
  OBVIOUS
<1>1. NoRam \in Banked /\ Returned \in Banked
  BY MmuAssumption, ReturnedType DEF NoRam, Banked, Slots
<1>2. Saved.head \in Values /\ Saved.banks \in Banked
  BY <1>1 DEF Saved, RamType
<1> QED
  BY <1>2 DEF FileType

\* The file that is written on leaving holds what the game finds in the banks.
LEMMA SavedHolds ==
  ASSUME RamType, careful, SurvivesSaving, mbc \in Battery,
         game' = game, file_sav' = {Saved}
  PROVE  OnFile' = GameRam
<1>1. rams \in Nat /\ (mbc \in Mbc5 => rams # 1) /\ (~Hides => mbc \in Mbc1 \/ rams = 1)
  BY RamsType DEF RamType
<1>2. OnFile' = [b \in Slots |-> IF rams = 1 \/ (mbc \in Mbc1 /\ b = 0)
                                THEN Saved.head ELSE Saved.banks[b]]
  <2>1. (CHOOSE f \in {Saved} : TRUE) = Saved
    OBVIOUS
  <2> QED
    BY <2>1, SameGame DEF OnFile, Slots
<1>3. mbc \in Mbc1 => ~Hides
  BY DEF Mbc1, Mbc3, Mbc5, Hides
<1>4. CASE rams = 0
  BY <1>2, <1>4 DEF Slots, GameRam
<1>5. CASE rams = 1
  <2>1. ~Hides /\ Visible
    BY <1>1, <1>5 DEF SurvivesSaving, Hides, Visible
  <2>2. ram_current_bank = 0
    BY <1>5 DEF RamType, InStep
  <2>3. Saved.head = window
    BY <1>5 DEF Saved
  <2> QED
    BY <1>2, <1>5, <2>1, <2>2, <2>3 DEF Slots, GameRam
<1>6. CASE rams > 1 /\ Hides /\ ram_external_enabled
  <2>1. Saved.banks = Returned
    BY <1>1, <1>6 DEF Saved
  <2>2. GameRam = Returned
    BY <1>6, ReturnedShown DEF Visible
  <2> QED
    BY <1>2, <1>3, <1>6, <2>1, <2>2, ReturnedType DEF Banked
<1>7. CASE rams > 1 /\ Hides /\ ~ram_external_enabled
  <2>1. Saved.banks = ram /\ ~Visible
    BY <1>1, <1>7 DEF Saved, Visible, Hides
  <2> QED
    BY <1>2, <1>3, <1>7, <2>1 DEF GameRam, Slots
<1>8. CASE rams > 1 /\ ~Hides
  <2>1. mbc \in Mbc1 /\ ram_current_bank = 0 /\ ~ram_external_enabled /\ Visible
    BY <1>1, <1>8 DEF SurvivesSaving, RamType, InStep, Visible, Hides
  <2>2. Saved.banks = ram /\ Saved.head = window
    BY <1>1, <1>8, <2>1 DEF Saved
  <2> QED
    BY <1>2, <1>8, <2>1, <2>2 DEF GameRam, Slots
<1> QED
  BY <1>1, <1>4, <1>5, <1>6, <1>7, <1>8

\* What Load does to the variables of the RAM.
LEMMA LoadTyped ==
  ASSUME RamType, NEW sav, NEW times, FileType(sav), Load(sav, times),
         file_sav' = sav, careful' \in BOOLEAN, careful' => careful
  PROVE  RamType' /\ asked' = 0
<1>1. /\ game' = game /\ stat' = stat /\ asked' = 0
      /\ ram_external_enabled' = FALSE /\ ram_current_bank' = 0
      /\ window' = Loaded(sav).window /\ ram' = Loaded(sav).ram
      /\ ram_internal' = Loaded(sav).internal
  BY DEF Load, Restarted
<1>2. window' \in Values /\ ram' \in Banked /\ ram_internal' \in Values
  BY <1>1, LoadedType
<1>3. rams \in Nat
  BY RamsType DEF RamType
<1>4. InStep(ram_external_enabled, ram_current_bank, asked)'
  BY <1>1, <1>3, SameGame DEF InStep
<1>5. \A s \in stat' : InStep(s.enabled, s.bank, s.asked)'
  <2> SUFFICES ASSUME NEW s \in stat PROVE InStep(s.enabled, s.bank, s.asked)'
    BY <1>1
  <2>1. InStep(s.enabled, s.bank, s.asked)
    BY DEF RamType
  <2> QED
    BY <1>1, <2>1, SameGame DEF InStep
<1>6. /\ \A f \in file_sav' : f.head \in Values /\ f.banks \in Banked
      /\ mbc \notin Battery => file_sav' = {}
  BY DEF FileType
<1> QED
  BY <1>1, <1>2, <1>4, <1>5, <1>6, SameGame DEF RamType

LEMMA LeaveMoves ==
  ASSUME RamType, TurnOff \/ Kill
  PROVE  RamType' /\ (careful' => Ram!Moves)
<1>1. FileType(file_sav)
  BY DEF RamType, FileType
<1>2. CASE TurnOff
  <2>1. /\ file_sav' = IF mbc \in Battery THEN {Saved} ELSE file_sav
        /\ Load(file_sav', file_rtc')
        /\ careful' = (careful /\ SurvivesSaving)
    BY <1>2 DEF TurnOff
  <2>2. game' = game /\ stat' = stat
    BY <2>1 DEF Load
  <2>3. careful' \in BOOLEAN /\ (careful' => careful /\ SurvivesSaving)
    BY <2>1, Zenon
  <2>4. FileType(file_sav')
    BY <1>1, <2>1, SavedType
  <2>5. RamType' /\ asked' = 0
    BY <2>1, <2>3, <2>4, LoadTyped
  <2>6. ASSUME careful' PROVE Ram!TurnOff
    <3>1. file_sav' # {} => ~(mbc \in Mbc3 /\ rams = 1)
      BY <2>3, <2>4, <2>6 DEF SurvivesSaving, FileType
    <3>2. GameRam' = OnFile'
      BY <2>1, <2>4, <3>1, LoadShows
    <3>3. OnFile' = IF mbc \in Battery THEN GameRam ELSE OnFile
      <4>1. CASE mbc \in Battery
        BY <2>1, <2>2, <2>3, <2>6, <4>1, SavedHolds
      <4>2. CASE mbc \notin Battery
        BY <2>1, <2>2, <4>2, SameGame DEF OnFile
      <4> QED
        BY <4>1, <4>2
    <3>4. KeptStat' = KeptStat
      BY <2>2, SameGame DEF KeptStat
    <3> QED
      BY <2>2, <3>2, <3>3, <3>4, SameGame DEF Ram!TurnOff
  <2> QED
    BY <2>5, <2>6 DEF Ram!Moves
<1>3. CASE Kill
  <2>1. /\ Load(file_sav, file_rtc) /\ file_sav' = file_sav
        /\ careful' = (careful /\ (file_sav # {} => ~(mbc \in Mbc3 /\ rams = 1)))
    BY <1>3 DEF Kill
  <2>2. game' = game /\ stat' = stat
    BY <2>1 DEF Load
  <2>3. /\ careful' \in BOOLEAN
        /\ careful' => careful /\ (file_sav # {} => ~(mbc \in Mbc3 /\ rams = 1))
    BY <2>1, Zenon
  <2>4. RamType' /\ asked' = 0
    BY <1>1, <2>1, <2>3, LoadTyped
  <2>5. ASSUME careful' PROVE Ram!Kill
    <3>1. GameRam' = OnFile'
      BY <1>1, <2>1, <2>3, <2>5, LoadShows
    <3>2. OnFile' = OnFile /\ KeptStat' = KeptStat
      BY <2>1, <2>2, SameGame DEF OnFile, KeptStat
    <3> QED
      BY <2>2, <3>1, <3>2, SameGame DEF Ram!Kill
  <2> QED
    BY <2>4, <2>5 DEF Ram!Moves
<1> QED
  BY <1>2, <1>3

\* The state file.
LEMMA StatMoves ==
  ASSUME RamType, SaveStat \/ SaveStatOfMbc2 \/ RestoreStat
  PROVE  RamType' /\ (careful' => Ram!Moves)
<1>1. CASE SaveStat
  <2>1. UNCHANGED <<game, extram, file_sav, careful, rtc_mode>> /\ stat' = {Stat}
    BY <1>1 DEF SaveStat, rtc
  <2>2. /\ Stat.window = window /\ Stat.internal = ram_internal /\ Stat.ram = ram
        /\ Stat.enabled = ram_external_enabled /\ Stat.bank = ram_current_bank
        /\ Stat.asked = asked
    BY DEF Stat
  <2>3. RamType'
    BY <2>1, <2>2, SameGame DEF RamType, extram, InStep
  <2>4. GameRam' = GameRam /\ OnFile' = OnFile /\ asked' = asked
    BY <2>1, SameGame DEF GameRam, OnFile, Visible, extram
  <2>5. KeptStat' = {[store |-> GameRam, selected |-> asked]}
    <3>1. [b \in 0 .. rams - 1 |->
             IF (mbc \in Mbc3 \cup Mbc5 => Stat.enabled) /\ b = Stat.bank
             THEN Stat.window ELSE Stat.ram[b]] = GameRam
      BY <2>2 DEF GameRam, Visible
    <3> QED
      BY <2>1, <2>2, <3>1, SameGame DEF KeptStat
  <2>6. Ram!Keep
    BY <2>1, <2>4, <2>5, SameGame DEF Ram!Keep
  <2> QED
    BY <2>3, <2>6 DEF Ram!Moves
<1>2. CASE SaveStatOfMbc2
  <2>1. /\ UNCHANGED <<game, ram, ram_internal, file_sav, stat>> /\ careful' = FALSE
        /\ window' = Loaded(file_sav).window /\ ram_external_enabled' = FALSE
    BY <1>2 DEF SaveStatOfMbc2, Restarted
  <2>2. window' \in Values
    BY <2>1, LoadedType DEF RamType, FileType
  <2>3. InStep(ram_external_enabled, ram_current_bank, asked)'
    BY <2>1, SameGame DEF InStep
  <2>4. \A s \in stat' : InStep(s.enabled, s.bank, s.asked)'
    BY <2>1, SameGame DEF InStep, RamType
  <2> QED
    BY <2>1, <2>2, <2>3, <2>4, SameGame DEF RamType
<1>3. CASE RestoreStat
  <2>1. PICK s \in stat :
          /\ window' = s.window /\ ram' = s.ram /\ ram_internal' = s.internal
          /\ ram_external_enabled' = s.enabled /\ ram_current_bank' = s.bank
          /\ asked' = s.asked
    BY <1>3 DEF RestoreStat
  <2>2. UNCHANGED <<game, file_sav, stat, careful>>
    BY <1>3 DEF RestoreStat, files
  <2>3. RamType'
    BY <2>1, <2>2, SameGame DEF RamType, InStep
  <2> DEFINE k == [store |-> [b \in 0 .. rams - 1 |->
                     IF (mbc \in Mbc3 \cup Mbc5 => s.enabled) /\ b = s.bank
                     THEN s.window ELSE s.ram[b]],
                   selected |-> s.asked]
  <2>4. k \in KeptStat
    BY DEF KeptStat
  <2>5. GameRam' = k.store /\ asked' = k.selected
    BY <2>1, <2>2, SameGame DEF GameRam, Visible
  <2>6. OnFile' = OnFile /\ KeptStat' = KeptStat
    BY <2>2, SameGame DEF OnFile, KeptStat
  <2> HIDE DEF k
  <2>7. Ram!GoBack
    BY <2>2, <2>4, <2>5, <2>6, SameGame DEF Ram!GoBack
  <2> QED
    BY <2>3, <2>7 DEF Ram!Moves
<1> QED
  BY <1>1, <1>2, <1>3

\* Every step keeps the types, and is one the promise allows.
LEMMA RamSteps ==
  RamType /\ [Next]_vars => RamType' /\ [careful' => Ram!Moves]_Ram!ramvars
<1> SUFFICES ASSUME RamType, [Next]_vars
             PROVE  RamType' /\ (careful' => Ram!Moves)
  OBVIOUS
<1>1. ASSUME NEW v \in Bytes, BankingMode(v) \/ RomBank(v) \/ ShowClock(v) \/ Svbk(v)
      PROVE  RamType' /\ Ram!Moves
  BY <1>1, OtherParts DEF BankingMode, RomBank, ShowClock, Svbk, files
<1>2. ASSUME NEW v \in Values, WriteWork(v) PROVE RamType' /\ Ram!Moves
  BY <1>2, OtherParts DEF WriteWork, files
<1>3. CASE LatchClock \/ WriteClock \/ TimePasses \/ UNCHANGED vars
  BY <1>3, OtherParts DEF LatchClock, WriteClock, TimePasses, vars, files
<1> QED
  BY <1>1, <1>2, <1>3, RamEnableMoves, RamBankMoves, WriteRamMoves,
     WriteClockOfClassicMoves, LeaveMoves, StatMoves DEF Next

\* Every bank of the cartridge's RAM keeps what the game wrote to it through
\* switches, disabling, leaving, being killed and restored states, for every
\* controller and every size, until the game meets one of the cases named by
\* `careful' (mmu.c:364-484, 834-1094; cartridge.c:172-200).
THEOREM RamKept == Spec => RamSurvives
<1>1. Spec => []RamType
  BY RamInit, RamSteps, PTL DEF Spec
<1> QED
  BY <1>1, RamInit, RamSteps, PTL DEF Spec, RamSurvives

-----------------------------------------------------------------------------

(* The ROM bank.                                                           *)

\* Cap, of a number of banks.
CapTo(b, banks) == IF b > banks THEN b % banks ELSE b

\* The numbers of banks there are.
SmallCounts == {2, 4, 8, 16, 32}
LargeCounts == {64, 128, 256}
Counts      == SmallCounts \cup LargeCounts

\* What the low register of an MBC1 says of the bank c, of at most 32: the high
\* one does not matter.
SmallFits(c, lo, banks) ==
  /\ c \in 0 .. 31 /\ c <= banks /\ (banks = 32 => c # 0)
  /\ \/ c % banks = NotZero(lo % 32) % banks
     \/ c = 1 /\ NotZero(lo % 32) % banks = 0

\* What both say, of more: the low five bits and the bits above are kept apart,
\* up to the number of banks.
LargeFits(c, lo, hi, banks) ==
  /\ c \in 0 .. banks
  /\ (c \div 32) % (banks \div 32) = hi % (banks \div 32)
  /\ lo % 32 # 0 => c % 32 = lo % 32

\* What the registers a game last wrote say of the bank c.
RomFits(c, lo, hi) ==
  /\ c \in 0 .. 256 /\ lo \in 0 .. 255 /\ hi \in 0 .. 255
  /\ mbc \in Mbc1 /\ roms <= 32 => SmallFits(c, lo, roms)
  /\ mbc \in Mbc1 /\ roms > 32 => LargeFits(c, lo, hi, roms)
  /\ mbc \in Mbc2 => c = lo % 16
  /\ mbc \in Mbc3 => c = NotZero(CapTo(lo % 128, roms))
  /\ mbc \in Mbc5 => c = CapTo(lo, roms)
  /\ mbc \notin Mbc1 \cup Mbc2 \cup Mbc3 \cup Mbc5 => c = 1

\* The registers, and those of the state file.
RomInv ==
  /\ game \in Games
  /\ RomFits(rom_current_bank, rom_lo, rom_hi)
  /\ \A s \in stat : RomFits(s.rom[1], s.rom[3], s.rom[4])

\* The number of banks is a power of two.
LEMMA RomsType ==
  ASSUME game \in Games
  PROVE  roms \in Counts
<1>1. game.rom \in 0 .. 7
  BY MmuAssumption
<1>2. CASE game.rom = 0
  BY <1>2 DEF roms, RomBanks, Counts, SmallCounts, LargeCounts
<1>3. CASE game.rom = 1
  BY <1>3 DEF roms, RomBanks, Counts, SmallCounts, LargeCounts
<1>4. CASE game.rom = 2
  BY <1>4 DEF roms, RomBanks, Counts, SmallCounts, LargeCounts
<1>5. CASE game.rom = 3
  BY <1>5 DEF roms, RomBanks, Counts, SmallCounts, LargeCounts
<1>6. CASE game.rom = 4
  BY <1>6 DEF roms, RomBanks, Counts, SmallCounts, LargeCounts
<1>7. CASE game.rom = 5
  BY <1>7 DEF roms, RomBanks, Counts, SmallCounts, LargeCounts
<1>8. CASE game.rom = 6
  BY <1>8 DEF roms, RomBanks, Counts, SmallCounts, LargeCounts
<1>9. CASE game.rom = 7
  BY <1>9 DEF roms, RomBanks, Counts, SmallCounts, LargeCounts
<1> QED
  BY <1>1, <1>2, <1>3, <1>4, <1>5, <1>6, <1>7, <1>8, <1>9

\* How the counts compare.
LEMMA CountFacts ==
  ASSUME NEW R \in Counts
  PROVE  /\ R \in Nat /\ 2 <= R /\ R <= 256
         /\ R <= 32 => R \in SmallCounts /\ ~(R > 32)
         /\ R > 32 => R \in LargeCounts /\ ~(R <= 32)
         /\ R <= 32 \/ R > 32
BY DEF Counts, SmallCounts, LargeCounts

\* The low register of an MBC1 with at most 32 banks.
LEMMA SmallLow ==
  ASSUME NEW R \in SmallCounts, NEW c \in 0 .. 31, NEW v \in 0 .. 255,
         NEW x, x = NotZero(CapTo((c - (c % 32)) + (v % 32), R))
  PROVE  SmallFits(x, v, R)
<1>1. CASE R = 2
  BY <1>1 DEF NotZero, CapTo, SmallFits
<1>2. CASE R = 4
  BY <1>2 DEF NotZero, CapTo, SmallFits
<1>3. CASE R = 8
  BY <1>3 DEF NotZero, CapTo, SmallFits
<1>4. CASE R = 16
  BY <1>4 DEF NotZero, CapTo, SmallFits
<1>5. CASE R = 32
  BY <1>5 DEF NotZero, CapTo, SmallFits
<1> QED
  BY <1>1, <1>2, <1>3, <1>4, <1>5 DEF SmallCounts

\* Its high register changes nothing that counts.
LEMMA SmallHigh ==
  ASSUME NEW R \in SmallCounts, NEW c, NEW lo \in 0 .. 255,
         NEW v \in 0 .. 255, SmallFits(c, lo, R),
         NEW x, x = CapTo(((c % 32) + 32 * v) % 256, R)
  PROVE  SmallFits(x, lo, R)
<1>0. c \in 0 .. 31
  BY DEF SmallFits
<1>1. CASE R = 2
  BY <1>1, <1>0 DEF CapTo, SmallFits, NotZero
<1>2. CASE R = 4
  BY <1>2, <1>0 DEF CapTo, SmallFits, NotZero
<1>3. CASE R = 8
  BY <1>3, <1>0 DEF CapTo, SmallFits, NotZero
<1>4. CASE R = 16
  BY <1>4, <1>0 DEF CapTo, SmallFits, NotZero
<1>5. CASE R = 32
  <2>1. c # 0
    BY <1>5 DEF SmallFits
  <2>2. x = c
    BY <1>0, <1>5, <2>1 DEF CapTo
  <2> QED
    BY <2>2
<1> QED
  BY <1>1, <1>2, <1>3, <1>4, <1>5 DEF SmallCounts

\* With more banks each register leaves the bits of the other alone.
LEMMA LargeLow ==
  ASSUME NEW R \in LargeCounts, NEW c, NEW lo \in 0 .. 255,
         NEW hi \in 0 .. 255, NEW v \in 0 .. 255
  PROVE  LargeFits(c, lo, hi, R) =>
           LargeFits(NotZero(CapTo((c - (c % 32)) + (v % 32), R)), v, hi, R)
<1> SUFFICES ASSUME LargeFits(c, lo, hi, R),
                    NEW x, x = NotZero(CapTo((c - (c % 32)) + (v % 32), R))
             PROVE  LargeFits(x, v, hi, R)
  OBVIOUS
<1>0. c \in 0 .. R
  BY DEF LargeFits
<1>1. CASE R = 64
  BY <1>1, <1>0 DEF NotZero, CapTo, LargeFits
<1>2. CASE R = 128
  BY <1>2, <1>0 DEF NotZero, CapTo, LargeFits
<1>3. CASE R = 256
  BY <1>3, <1>0 DEF NotZero, CapTo, LargeFits
<1> QED
  BY <1>1, <1>2, <1>3 DEF LargeCounts

LEMMA LargeHigh ==
  ASSUME NEW R \in LargeCounts, NEW c, NEW lo \in 0 .. 255,
         NEW hi \in 0 .. 255, NEW v \in 0 .. 255
  PROVE  LargeFits(c, lo, hi, R) =>
           LargeFits(CapTo(((c % 32) + 32 * v) % 256, R), lo, v, R)
<1> SUFFICES ASSUME LargeFits(c, lo, hi, R),
                    NEW x, x = CapTo(((c % 32) + 32 * v) % 256, R)
             PROVE  LargeFits(x, lo, v, R)
  OBVIOUS
<1>0. c \in 0 .. R
  BY DEF LargeFits
<1>1. CASE R = 64
  <2>1. x \in 0 .. 64 /\ (x \div 32) % 2 = v % 2 /\ x % 32 = c % 32
    BY <1>1, <1>0 DEF CapTo
  <2> QED
    BY <1>1, <2>1 DEF LargeFits
<1>2. CASE R = 128
  <2>1. x \in 0 .. 128 /\ (x \div 32) % 4 = v % 4 /\ x % 32 = c % 32
    BY <1>2, <1>0 DEF CapTo
  <2> QED
    BY <1>2, <2>1 DEF LargeFits
<1>3. CASE R = 256
  <2>1. x \in 0 .. 256 /\ (x \div 32) % 8 = v % 8 /\ x % 32 = c % 32
    BY <1>3, <1>0 DEF CapTo
  <2> QED
    BY <1>3, <2>1 DEF LargeFits
<1> QED
  BY <1>1, <1>2, <1>3 DEF LargeCounts

\* With at most 32 banks the low register alone is the bank, but for the bank
\* whose number is that of the banks, and bank 1 in the place of bank 0.
LEMMA SmallRight ==
  ASSUME NEW R \in SmallCounts, NEW c, NEW lo \in 0 .. 255,
         NEW hi \in 0 .. 255
  PROVE  SmallFits(c, lo, R) =>
           \/ c = (32 * (hi % 4) + NotZero(lo % 32)) % R
           \/ c = R
           \/ c = 1 /\ (32 * (hi % 4) + NotZero(lo % 32)) % R = 0
<1> SUFFICES ASSUME SmallFits(c, lo, R),
                    NEW h, h = (32 * (hi % 4) + NotZero(lo % 32)) % R
             PROVE  c = h \/ c = R \/ (c = 1 /\ h = 0)
  OBVIOUS
<1>0. c \in 0 .. 31
  BY DEF SmallFits
<1>1. CASE R = 2
  BY <1>1, <1>0 DEF SmallFits, NotZero
<1>2. CASE R = 4
  BY <1>2, <1>0 DEF SmallFits, NotZero
<1>3. CASE R = 8
  BY <1>3, <1>0 DEF SmallFits, NotZero
<1>4. CASE R = 16
  BY <1>4, <1>0 DEF SmallFits, NotZero
<1>5. CASE R = 32
  BY <1>5, <1>0 DEF SmallFits, NotZero
<1> QED
  BY <1>1, <1>2, <1>3, <1>4, <1>5 DEF SmallCounts

\* With more the two together are, as long as the third bit of the high one is
\* not one the hardware leaves out.
LEMMA LargeRight ==
  ASSUME NEW R \in LargeCounts, NEW c, NEW lo \in 0 .. 255,
         NEW hi \in 0 .. 255
  PROVE  LargeFits(c, lo, hi, R) /\ lo % 32 # 0 /\ (R = 256 => hi % 8 <= 3) =>
           c = (32 * (hi % 4) + NotZero(lo % 32)) % R \/ c = R
<1> SUFFICES ASSUME LargeFits(c, lo, hi, R),
                    lo % 32 # 0, R = 256 => hi % 8 <= 3,
                    NEW h, h = (32 * (hi % 4) + NotZero(lo % 32)) % R
             PROVE  c = h \/ c = R
  OBVIOUS
<1>0. c \in 0 .. R
  BY DEF LargeFits
<1>1. CASE R = 64
  BY <1>1, <1>0 DEF LargeFits, NotZero
<1>2. CASE R = 128
  BY <1>2, <1>0 DEF LargeFits, NotZero
<1>3. CASE R = 256
  BY <1>3, <1>0 DEF LargeFits, NotZero
<1> QED
  BY <1>1, <1>2, <1>3 DEF LargeCounts

\* An MBC5 has eight bits of the bank in the low register, and no more.
NineBits(lo, hi, R) == (256 * (hi % 2) + lo) % R

LEMMA NinthBit ==
  ASSUME NEW R \in Counts, NEW lo \in 0 .. 255,
         NEW hi \in 0 .. 255
  PROVE  NineBits(lo, hi, R) = lo % R
<1>1. CASE R \in {2, 4, 8, 16}
  <2>1. CASE R = 2
    BY <2>1 DEF NineBits
  <2>2. CASE R = 4
    BY <2>2 DEF NineBits
  <2>3. CASE R = 8
    BY <2>3 DEF NineBits
  <2>4. CASE R = 16
    BY <2>4 DEF NineBits
  <2> QED
    BY <1>1, <2>1, <2>2, <2>3, <2>4
<1>2. CASE R \in {32, 64, 128, 256}
  <2>1. CASE R = 32
    BY <2>1 DEF NineBits
  <2>2. CASE R = 64
    BY <2>2 DEF NineBits
  <2>3. CASE R = 128
    BY <2>3 DEF NineBits
  <2>4. CASE R = 256
    BY <2>4 DEF NineBits
  <2> QED
    BY <1>2, <2>1, <2>2, <2>3, <2>4
<1> QED
  BY <1>1, <1>2 DEF Counts, SmallCounts, LargeCounts

\* A number filtered is at most the number of banks, and filtering it again
\* changes nothing.
LEMMA CapFacts ==
  ASSUME NEW R \in Counts, NEW v \in 0 .. 255
  PROVE  /\ CapTo(v, R) \in 0 .. R
         /\ CapTo(v, R) = v % R \/ CapTo(v, R) = R
         /\ CapTo(CapTo(v, R), R) = CapTo(v, R)
<1> USE DEF Counts, SmallCounts, LargeCounts
<1>1. CASE v <= R
  <2>1. CapTo(v, R) = v
    BY <1>1 DEF CapTo
  <2>2. v < R => v % R = v
    OBVIOUS
  <2> QED
    BY <1>1, <2>1, <2>2 DEF CapTo
<1>2. CASE v > R
  <2>1. CapTo(v, R) = v % R
    BY <1>2 DEF CapTo
  <2>2. v % R \in 0 .. R - 1
    OBVIOUS
  <2> QED
    BY <2>1, <2>2 DEF CapTo
<1> QED
  BY <1>1, <1>2

-----------------------------------------------------------------------------

\* A cartridge has one controller.
LEMMA Controllers ==
  /\ mbc \in Mbc1 => /\ mbc \notin Mbc2 /\ mbc \notin Mbc3
                    /\ mbc \notin Mbc5 /\ mbc \notin Mbc3Ignored
  /\ mbc \in Mbc2 => /\ mbc \notin Mbc1 /\ mbc \notin Mbc3
                    /\ mbc \notin Mbc5 /\ mbc \notin Mbc3Ignored
  /\ mbc \in Mbc3 => /\ mbc \notin Mbc1 /\ mbc \notin Mbc2
                    /\ mbc \notin Mbc5 /\ mbc \notin Mbc3Ignored
  /\ mbc \in Mbc5 => /\ mbc \notin Mbc1 /\ mbc \notin Mbc2
                    /\ mbc \notin Mbc3 /\ mbc \notin Mbc3Ignored
BY DEF Mbc1, Mbc2, Mbc3, Mbc5, Mbc3Ignored

LEMMA CapIs == ASSUME NEW b PROVE Cap(b) = CapTo(b, roms)
BY DEF Cap, CapTo

\* The bank after a write to the low register, by controller.
LEMMA LowIs ==
  ASSUME NEW v
  PROVE  /\ mbc \in Mbc1 =>
              LowBank(v) = NotZero(CapTo((rom_current_bank - (rom_current_bank % 32))
                                           + (v % 32), roms))
         /\ mbc \in Mbc2 => LowBank(v) = v % 16
         /\ mbc \in Mbc3 => LowBank(v) = NotZero(CapTo(v % 128, roms))
         /\ mbc \in Mbc5 => LowBank(v) = CapTo(v, roms)
         /\ mbc \notin Mbc1 \cup Mbc2 \cup Mbc3 \cup Mbc5 =>
              LowBank(v) = rom_current_bank
<1> DEFINE x == (rom_current_bank - (rom_current_bank % 32)) + (v % 32)
<1>1. /\ mbc \in Mbc1 => LowBank(v) = NotZero(Cap(x))
      /\ mbc \in Mbc2 => LowBank(v) = v % 16
      /\ mbc \in Mbc3 => LowBank(v) = NotZero(Cap(v % 128))
      /\ mbc \in Mbc5 => LowBank(v) = Cap(v)
      /\ mbc \notin Mbc1 \cup Mbc2 \cup Mbc3 \cup Mbc5 =>
           LowBank(v) = rom_current_bank
  BY Controllers DEF LowBank
<1>2. Cap(x) = CapTo(x, roms) /\ Cap(v) = CapTo(v, roms)
      /\ Cap(v % 128) = CapTo(v % 128, roms)
  BY CapIs
<1> QED
  BY <1>1, <1>2, Zenon DEF x

\* And to the high one.
LEMMA HighIs ==
  ASSUME NEW v
  PROVE  /\ mbc \in Mbc1 =>
              HighBank(v) = CapTo(((rom_current_bank % 32) + 32 * v) % 256, roms)
         /\ mbc \in Mbc5 => HighBank(v) = CapTo(rom_current_bank, roms)
         /\ mbc \notin Mbc1 \cup Mbc5 => HighBank(v) = rom_current_bank
<1> DEFINE x == ((rom_current_bank % 32) + 32 * v) % 256
<1>1. /\ mbc \in Mbc1 => HighBank(v) = Cap(x)
      /\ mbc \in Mbc5 => HighBank(v) = Cap(rom_current_bank)
      /\ mbc \notin Mbc1 \cup Mbc5 => HighBank(v) = rom_current_bank
  BY Controllers DEF HighBank
<1>2. Cap(x) = CapTo(x, roms) /\ Cap(rom_current_bank) = CapTo(rom_current_bank, roms)
  BY CapIs
<1> QED
  BY <1>1, <1>2, Zenon DEF x

\* The bank after a write to the low register fits what was written.
LEMMA LowFits ==
  ASSUME game \in Games, NEW lo, NEW hi, RomFits(rom_current_bank, lo, hi),
         NEW v \in 0 .. 255
  PROVE  RomFits(LowBank(v), v, hi)
<1>1. roms \in Counts
  BY RomsType
<1>2. PICK c \in 0 .. 256 : c = rom_current_bank
  BY DEF RomFits
<1>3. PICK x : x = LowBank(v)
  OBVIOUS
<1>4. lo \in 0 .. 255 /\ hi \in 0 .. 255
  BY DEF RomFits
<1>5. CASE mbc \in Mbc1 /\ roms <= 32
  <2>1. x = NotZero(CapTo((c - (c % 32)) + (v % 32), roms))
    BY <1>2, <1>3, <1>5, LowIs, Zenon
  <2>2. roms \in SmallCounts /\ ~(roms > 32)
    BY <1>1, <1>5, CountFacts, Zenon
  <2>3. c \in 0 .. 31
    BY <1>2, <1>5 DEF RomFits, SmallFits
  <2>4. SmallFits(x, v, roms)
    BY <2>1, <2>2, <2>3, SmallLow, Zenon
  <2>5. x \in 0 .. 256
    BY <2>4 DEF SmallFits
  <2> QED
    BY <1>3, <1>4, <1>5, <2>2, <2>4, <2>5, Controllers, Zenon DEF RomFits
<1>6. CASE mbc \in Mbc1 /\ roms > 32
  <2>1. x = NotZero(CapTo((c - (c % 32)) + (v % 32), roms))
    BY <1>2, <1>3, <1>6, LowIs, Zenon
  <2>2. roms \in LargeCounts /\ ~(roms <= 32)
    BY <1>1, <1>6, CountFacts, Zenon
  <2>3. LargeFits(c, lo, hi, roms)
    BY <1>2, <1>6, Zenon DEF RomFits
  <2>4. LargeFits(x, v, hi, roms)
    BY <1>4, <2>1, <2>2, <2>3, LargeLow, Zenon
  <2>5. x \in 0 .. 256
    BY <2>2, <2>4 DEF LargeFits, LargeCounts
  <2> QED
    BY <1>3, <1>4, <1>6, <2>2, <2>4, <2>5, Controllers, Zenon DEF RomFits
<1>7. CASE mbc \in Mbc2
  <2>1. x = v % 16
    BY <1>3, <1>7, LowIs, Zenon
  <2>2. x \in 0 .. 256
    BY <2>1
  <2>8. mbc \notin Mbc1 /\ mbc \notin Mbc3 /\ mbc \notin Mbc5
    BY <1>7, Controllers, Zenon
  <2>9. RomFits(x, v, hi)
    BY <1>4, <1>7, <2>1, <2>2, <2>8, Zenon DEF RomFits
  <2> QED
    BY <1>3, <2>9
<1>8. CASE mbc \in Mbc3
  <2>1. x = NotZero(CapTo(v % 128, roms))
    BY <1>3, <1>8, LowIs, Zenon
  <2>2. v % 128 \in 0 .. 255
    OBVIOUS
  <2>3. CapTo(v % 128, roms) \in 0 .. roms
    BY <1>1, <2>2, CapFacts, Zenon
  <2>4. x \in 0 .. 256
    BY <1>1, <2>1, <2>3, CountFacts DEF NotZero
  <2>8. mbc \notin Mbc1 /\ mbc \notin Mbc2 /\ mbc \notin Mbc5
    BY <1>8, Controllers, Zenon
  <2>9. RomFits(x, v, hi)
    BY <1>4, <1>8, <2>1, <2>4, <2>8, Zenon DEF RomFits
  <2> QED
    BY <1>3, <2>9
<1>9. CASE mbc \in Mbc5
  <2>1. x = CapTo(v, roms)
    BY <1>3, <1>9, LowIs, Zenon
  <2>2. x \in 0 .. roms
    BY <1>1, <2>1, CapFacts, Zenon
  <2>3. x \in 0 .. 256
    BY <1>1, <2>2, CountFacts
  <2>8. mbc \notin Mbc1 /\ mbc \notin Mbc2 /\ mbc \notin Mbc3
    BY <1>9, Controllers, Zenon
  <2>9. RomFits(x, v, hi)
    BY <1>4, <1>9, <2>1, <2>3, <2>8, Zenon DEF RomFits
  <2> QED
    BY <1>3, <2>9
<1>10. CASE mbc \notin Mbc1 \cup Mbc2 \cup Mbc3 \cup Mbc5
  <2>1. LowBank(v) = rom_current_bank
    BY <1>10, LowIs, Zenon
  <2> QED
    BY <1>10, <2>1, Zenon DEF RomFits
<1> QED
  BY <1>1, CountFacts, <1>5, <1>6, <1>7, <1>8, <1>9, <1>10

LEMMA HighFits ==
  ASSUME game \in Games, NEW lo, NEW hi, RomFits(rom_current_bank, lo, hi),
         NEW v \in 0 .. 255
  PROVE  RomFits(HighBank(v), lo, v)
<1>1. roms \in Counts
  BY RomsType
<1>2. PICK c \in 0 .. 256 : c = rom_current_bank
  BY DEF RomFits
<1>3. PICK x : x = HighBank(v)
  OBVIOUS
<1>4. lo \in 0 .. 255 /\ hi \in 0 .. 255
  BY DEF RomFits
<1>5. CASE mbc \in Mbc1 /\ roms <= 32
  <2>1. x = CapTo(((c % 32) + 32 * v) % 256, roms)
    BY <1>2, <1>3, <1>5, HighIs, Zenon
  <2>2. roms \in SmallCounts /\ ~(roms > 32)
    BY <1>1, <1>5, CountFacts, Zenon
  <2>3. SmallFits(c, lo, roms)
    BY <1>2, <1>5, Zenon DEF RomFits
  <2>4. SmallFits(x, lo, roms)
    BY <1>4, <2>1, <2>2, <2>3, SmallHigh, Zenon
  <2>5. x \in 0 .. 256
    BY <2>4 DEF SmallFits
  <2> QED
    BY <1>3, <1>4, <1>5, <2>2, <2>4, <2>5, Controllers, Zenon DEF RomFits
<1>6. CASE mbc \in Mbc1 /\ roms > 32
  <2>1. x = CapTo(((c % 32) + 32 * v) % 256, roms)
    BY <1>2, <1>3, <1>6, HighIs, Zenon
  <2>2. roms \in LargeCounts /\ ~(roms <= 32)
    BY <1>1, <1>6, CountFacts, Zenon
  <2>3. LargeFits(c, lo, hi, roms)
    BY <1>2, <1>6, Zenon DEF RomFits
  <2>4. LargeFits(x, lo, v, roms)
    BY <1>4, <2>1, <2>2, <2>3, LargeHigh, Zenon
  <2>5. x \in 0 .. 256
    BY <2>2, <2>4 DEF LargeFits, LargeCounts
  <2> QED
    BY <1>3, <1>4, <1>6, <2>2, <2>4, <2>5, Controllers, Zenon DEF RomFits
<1>7. CASE mbc \in Mbc5
  <2>1. x = CapTo(c, roms) /\ c = CapTo(lo, roms)
    BY <1>2, <1>3, <1>7, HighIs, Zenon DEF RomFits
  <2>2. CapTo(CapTo(lo, roms), roms) = CapTo(lo, roms)
    BY <1>1, <1>4, CapFacts, Zenon
  <2>3. HighBank(v) = rom_current_bank
    BY <1>2, <1>3, <2>1, <2>2, Zenon
  <2> QED
    BY <1>7, <2>3, Controllers, Zenon DEF RomFits
<1>8. CASE mbc \notin Mbc1 \cup Mbc5
  <2>1. HighBank(v) = rom_current_bank
    BY <1>8, HighIs, Zenon
  <2> QED
    BY <1>8, <2>1, Zenon DEF RomFits
<1> QED
  BY <1>1, CountFacts, <1>5, <1>6, <1>7, <1>8

\* Bank 1 is what the registers at the start select.
LEMMA FirstFits == ASSUME game \in Games PROVE RomFits(1, 1, 0)
<1>1. roms \in Counts
  BY RomsType
<1>2. /\ CapTo(1, roms) = 1 /\ NotZero(1) = 1 /\ 1 <= roms
      /\ 1 % 32 = 1 /\ 1 % 128 = 1 /\ 1 % 16 = 1 /\ 1 \div 32 = 0
  BY <1>1, CountFacts DEF CapTo, NotZero
<1>3. SmallFits(1, 1, roms)
  <2>1. 1 % roms = 1 % roms /\ roms \in Nat /\ 1 <= roms
    BY <1>1, CountFacts
  <2> QED
    BY <1>2, <2>1 DEF SmallFits
<1>4. roms > 32 => LargeFits(1, 1, 0, roms)
  <2>1. CASE roms = 64
    BY <2>1 DEF LargeFits
  <2>2. CASE roms = 128
    BY <2>2 DEF LargeFits
  <2>3. CASE roms = 256
    BY <2>3 DEF LargeFits
  <2> QED
    BY <1>1, <2>1, <2>2, <2>3 DEF Counts, SmallCounts, LargeCounts
<1>5. 1 \in 0 .. 256 /\ 1 \in 0 .. 255 /\ 0 \in 0 .. 255
  OBVIOUS
<1> QED
  BY <1>2, <1>3, <1>4, <1>5, Zenon DEF RomFits

\* Everything but a write to a bank register, a restart and a restored state
\* leaves the ROM bank alone.
RomKept == UNCHANGED rom /\ (stat' = stat \/ stat' = {Stat})
RomRestarted ==
  rom_current_bank' = 1 /\ rom_lo' = 1 /\ rom_hi' = 0 /\ stat' = stat
RomRestored ==
  /\ \E s \in stat : /\ rom_current_bank' = s.rom[1]
                     /\ rom_lo' = s.rom[3] /\ rom_hi' = s.rom[4]
  /\ stat' = stat

LEMMA RomSteps ==
  ASSUME [Next]_vars
  PROVE  /\ game' = game
         /\ \/ \E v \in Bytes : RomBank(v)
            \/ \E v \in Bytes : BankingMode(v)
            \/ RomKept \/ RomRestarted \/ RomRestored
<1>1. ASSUME NEW v \in Bytes, RamEnable(v) \/ RamBank(v) \/ ShowClock(v) \/ Svbk(v)
      PROVE  RomKept /\ game' = game
  BY <1>1 DEF RamEnable, RamBank, ShowClock, Svbk, RomKept, files
<1>2. ASSUME NEW v \in Values, WriteWork(v) \/ WriteRam(v) \/ WriteClockOfClassic(v)
      PROVE  RomKept /\ game' = game
  BY <1>2 DEF WriteWork, WriteRam, WriteClockOfClassic, RomKept, files
<1>3. ASSUME LatchClock \/ WriteClock \/ TimePasses \/ SaveStat \/ UNCHANGED vars
      PROVE  RomKept /\ game' = game
  BY <1>3 DEF LatchClock, WriteClock, TimePasses, SaveStat, vars, RomKept, files
<1>4. ASSUME TurnOff \/ Kill \/ SaveStatOfMbc2
      PROVE  RomRestarted /\ game' = game
  BY <1>4 DEF TurnOff, Kill, SaveStatOfMbc2, Load, Restarted, RomRestarted
<1>5. ASSUME RestoreStat PROVE RomRestored /\ game' = game
  BY <1>5 DEF RestoreStat, RomRestored, files
<1>6. ASSUME NEW v \in Bytes, RomBank(v) \/ BankingMode(v) PROVE game' = game
  BY <1>6 DEF RomBank, BankingMode
<1> QED
  BY <1>1, <1>2, <1>3, <1>4, <1>5, <1>6 DEF Next

LEMMA FitsNext ==
  ASSUME game' = game, NEW c, NEW lo, NEW hi
  PROVE  RomFits(c, lo, hi)' <=> RomFits(c, lo, hi)
BY SameGame DEF RomFits, roms, RomBanks, mbc

LEMMA RomInvInit == Init => RomInv
BY FirstFits DEF Init, PowerOn, RomInv

LEMMA RomInvStep == RomInv /\ [Next]_vars => RomInv'
<1> SUFFICES ASSUME RomInv, [Next]_vars PROVE RomInv'
  OBVIOUS
<1>1. game' = game /\ game \in Games
  BY RomSteps DEF RomInv
<1> SUFFICES /\ RomFits(rom_current_bank', rom_lo', rom_hi')
             /\ \A s \in stat' : RomFits(s.rom[1], s.rom[3], s.rom[4])
  BY <1>1, FitsNext, Zenon DEF RomInv
<1>2. ASSUME NEW v \in Bytes, RomBank(v)
      PROVE  /\ RomFits(rom_current_bank', rom_lo', rom_hi') /\ stat' = stat
  <2>1. v \in 0 .. 255 /\ stat' = stat
    BY <1>2, MmuAssumption DEF RomBank, files
  <2>2. CASE rom_current_bank' = LowBank(v) /\ rom_lo' = v /\ rom_hi' = rom_hi
    BY <1>1, <2>1, <2>2, LowFits DEF RomInv
  <2>3. CASE rom_current_bank' = HighBank(v) /\ rom_hi' = v /\ rom_lo' = rom_lo
    BY <1>1, <2>1, <2>3, HighFits DEF RomInv
  <2> QED
    BY <1>2, <2>1, <2>2, <2>3 DEF RomBank
<1>3. ASSUME NEW v \in Bytes, BankingMode(v)
      PROVE  /\ RomFits(rom_current_bank', rom_lo', rom_hi') /\ stat' = stat
  BY <1>3 DEF BankingMode, files, RomInv
<1>4. ASSUME RomKept
      PROVE  /\ RomFits(rom_current_bank', rom_lo', rom_hi')
             /\ \A s \in stat' : RomFits(s.rom[1], s.rom[3], s.rom[4])
  <2>1. /\ Stat.rom[1] = rom_current_bank /\ Stat.rom[3] = rom_lo
        /\ Stat.rom[4] = rom_hi
    BY DEF Stat, rom
  <2>2. rom_current_bank' = rom_current_bank /\ rom_lo' = rom_lo /\ rom_hi' = rom_hi
    BY <1>4 DEF RomKept, rom
  <2> QED
    BY <1>4, <2>1, <2>2 DEF RomKept, RomInv
<1>5. ASSUME RomRestarted
      PROVE  /\ RomFits(rom_current_bank', rom_lo', rom_hi') /\ stat' = stat
  BY <1>1, <1>5, FirstFits DEF RomRestarted
<1>6. ASSUME RomRestored
      PROVE  /\ RomFits(rom_current_bank', rom_lo', rom_hi') /\ stat' = stat
  BY <1>6 DEF RomRestored, RomInv
<1> QED
  BY <1>2, <1>3, <1>4, <1>5, <1>6, RomSteps DEF RomInv

\* What the hardware would show, by controller.
LEMMA HardwareIs ==
  /\ mbc \in Mbc1 =>
       HardwareBank = (32 * (rom_hi % 4) + NotZero(rom_lo % 32)) % roms
  /\ mbc \in Mbc2 => HardwareBank = NotZero(rom_lo % 16) % roms
  /\ mbc \in Mbc3 => HardwareBank = NotZero(rom_lo % 128) % roms
  /\ mbc \in Mbc5 => HardwareBank = (256 * (rom_hi % 2) + rom_lo) % roms
  /\ mbc \notin Mbc1 \cup Mbc2 \cup Mbc3 \cup Mbc5 \cup Mbc3Ignored =>
       HardwareBank = 1
BY Controllers DEF HardwareBank

\* The invariant is strong enough.
LEMMA RomFitsIsRight == RomInv => RightRomBank
<1> SUFFICES ASSUME RomInv PROVE RightRomBank
  OBVIOUS
<1>1. /\ roms \in Counts
      /\ mbc \in {0} \cup Mbc1 \cup Mbc2 \cup Mbc3 \cup Mbc3Ignored \cup Mbc5
  BY RomsType, MmuAssumption DEF RomInv, mbc
<1>2. PICK c \in 0 .. 256 : c = rom_current_bank
  BY DEF RomInv, RomFits
<1>3. PICK lo \in 0 .. 255 : lo = rom_lo
  BY DEF RomInv, RomFits
<1>4. PICK hi \in 0 .. 255 : hi = rom_hi
  BY DEF RomInv, RomFits
<1>5. RomFits(c, lo, hi)
  BY <1>2, <1>3, <1>4, Zenon DEF RomInv
<1>6. PICK h : h = HardwareBank
  OBVIOUS
<1>7. CASE mbc \in Mbc1 /\ roms <= 32
  <2>1. roms \in SmallCounts
    BY <1>1, <1>7, CountFacts, Zenon
  <2>2. h = (32 * (hi % 4) + NotZero(lo % 32)) % roms
    BY <1>3, <1>4, <1>6, <1>7, HardwareIs, Zenon
  <2>3. SmallFits(c, lo, roms)
    BY <1>5, <1>7, Zenon DEF RomFits
  <2>4. c = h \/ c = roms \/ (c = 1 /\ h = 0)
    <3>1. \/ c = (32 * (hi % 4) + NotZero(lo % 32)) % roms
          \/ c = roms
          \/ c = 1 /\ (32 * (hi % 4) + NotZero(lo % 32)) % roms = 0
      BY <2>1, <2>3, SmallRight, Zenon
    <3> QED
      BY <2>2, <3>1, Zenon
  <2>5. mbc \notin Mbc2 \cup Mbc5
    BY <1>7, Controllers
  <2>6. CASE c = h \/ c = roms
    BY <1>2, <1>6, <2>6, Zenon DEF RightRomBank
  <2>7. CASE c = 1 /\ h = 0
    BY <1>2, <1>6, <2>5, <2>7, Zenon DEF RightRomBank
  <2> QED
    BY <2>4, <2>6, <2>7
<1>8. CASE mbc \in Mbc1 /\ roms > 32
  <2>1. roms \in LargeCounts
    BY <1>1, <1>8, CountFacts, Zenon
  <2>2. h = (32 * (hi % 4) + NotZero(lo % 32)) % roms
    BY <1>3, <1>4, <1>6, <1>8, HardwareIs, Zenon
  <2>3. LargeFits(c, lo, hi, roms)
    BY <1>5, <1>8, Zenon DEF RomFits
  <2>4. CASE lo % 32 # 0 /\ (roms = 256 => hi % 8 <= 3)
    <3>1. c = h \/ c = roms
      BY <2>1, <2>2, <2>3, <2>4, LargeRight, Zenon
    <3> QED
      BY <1>2, <1>6, <3>1, Zenon DEF RightRomBank
  <2>5. CASE lo % 32 = 0
    BY <1>3, <1>8, <2>5, Zenon DEF RightRomBank
  <2>6. CASE roms = 256 /\ hi % 8 > 3
    <3>1. roms > 128
      BY <2>6
    <3> QED
      BY <1>4, <1>8, <2>6, <3>1, Zenon DEF RightRomBank
  <2>7. hi % 8 <= 3 \/ hi % 8 > 3
    OBVIOUS
  <2> QED
    BY <2>4, <2>5, <2>6, <2>7
<1>9. CASE mbc \in Mbc2
  <2>1. c = lo % 16 /\ h = NotZero(lo % 16) % roms
    BY <1>3, <1>5, <1>6, <1>9, HardwareIs, Zenon DEF RomFits
  <2>2. CASE lo % 16 \in 1 .. roms - 1
    <3>1. NotZero(lo % 16) = lo % 16
      BY <1>1, <2>2, CountFacts DEF NotZero
    <3>2. (lo % 16) % roms = lo % 16
      BY <1>1, <2>2, CountFacts
    <3> QED
      BY <1>2, <1>6, <2>1, <3>1, <3>2, Zenon DEF RightRomBank
  <2>3. CASE lo % 16 \notin 1 .. roms - 1
    BY <1>3, <1>9, <2>3, Zenon DEF RightRomBank
  <2> QED
    BY <2>2, <2>3
<1>10. CASE mbc \in Mbc3
  <2>1. PICK v \in 0 .. 255 : v = lo % 128
    OBVIOUS
  <2>2. c = NotZero(CapTo(v, roms)) /\ h = NotZero(v) % roms
    BY <1>3, <1>5, <1>6, <1>10, <2>1, HardwareIs, Zenon DEF RomFits
  <2>3. /\ CapTo(v, roms) \in 0 .. roms
        /\ CapTo(v, roms) = v % roms \/ CapTo(v, roms) = roms
    BY <1>1, CapFacts, Zenon
  <2>4. c = h \/ c = roms \/ (c = 1 /\ h = 0)
    <3>1. CASE v = 0
      BY <1>1, <2>2, <3>1, CountFacts DEF CapTo, NotZero
    <3>2. CASE v # 0
      BY <1>1, <2>2, <2>3, <3>2, CountFacts DEF NotZero
    <3> QED
      BY <3>1, <3>2
  <2> QED
    BY <1>2, <1>6, <1>10, <2>4, Controllers, Zenon DEF RightRomBank
<1>11. CASE mbc \in Mbc5
  <2>1. c = CapTo(lo, roms)
    BY <1>5, <1>11, Zenon DEF RomFits
  <2>2. h = NineBits(lo, hi, roms)
    BY <1>3, <1>4, <1>6, <1>11, HardwareIs, Zenon DEF NineBits
  <2>3. h = lo % roms
    BY <1>1, <2>2, NinthBit, Zenon
  <2>4. c = lo % roms \/ c = roms
    BY <1>1, <2>1, CapFacts, Zenon
  <2> QED
    BY <1>2, <1>6, <2>3, <2>4, Zenon DEF RightRomBank
<1>12. CASE mbc = 0
  <2>1. mbc \notin Mbc1 \cup Mbc2 \cup Mbc3 \cup Mbc5 \cup Mbc3Ignored
    BY <1>12 DEF Mbc1, Mbc2, Mbc3, Mbc5, Mbc3Ignored
  <2>2. c = 1
    BY <1>5, <2>1, Zenon DEF RomFits
  <2>3. HardwareBank = 1
    BY <2>1 DEF HardwareBank
  <2> QED
    BY <1>2, <2>2, <2>3, Zenon DEF RightRomBank
<1>13. CASE mbc \in Mbc3Ignored
  BY <1>13, Zenon DEF RightRomBank
<1> QED
  BY <1>1, CountFacts, <1>7, <1>8, <1>9, <1>10, <1>11, <1>12, <1>13

\* For every cartridge, whatever a game writes to the bank registers and however
\* often a state is restored, the ROM bank at 0x4000 is the one it asked for, but
\* for the cases RightRomBank names (mmu.c:788-833, 916-931, 1031-1054).
THEOREM RomBankIsRight == Spec => []RightRomBank
BY RomInvInit, RomInvStep, RomFitsIsRight, PTL DEF Spec

-----------------------------------------------------------------------------
(* The clock: times in days, hours, minutes and seconds.                   *)

LEMMA OneMore ==
  ASSUME NEW k \in Nat, NEW n \in Nat
  PROVE  k * n \in Nat /\ (k + 1) * n = k * n + n
OBVIOUS

LEMMA Divided ==
  ASSUME NEW x \in Nat, NEW n \in Nat, n > 0
  PROVE  /\ x \div n \in Int /\ x % n \in 0 .. n - 1
         /\ x = (x \div n) * n + (x % n)
OBVIOUS

LEMMA NoMultiple ==
  ASSUME NEW d \in Int, NEW n \in Nat, d * n < n, 0 - n < d * n, n > 0
  PROVE  d = 0
<1>1. d >= 1 => d * n >= n
  OBVIOUS
<1>2. d <= 0 - 1 => d * n <= 0 - n
  OBVIOUS
<1> QED
  BY <1>1, <1>2

LEMMA WholeAndRest ==
  ASSUME NEW k \in Nat, NEW n \in Nat, n > 0, NEW r \in 0 .. n - 1
  PROVE  (k * n + r) \div n = k /\ (k * n + r) % n = r
<1>1. PICK x \in Nat : x = k * n + r
  <2>1. k * n \in Nat /\ r \in Nat
    BY OneMore
  <2>2. PICK p \in Nat : p = k * n
    BY <2>1
  <2>3. p + r \in Nat
    BY <2>1
  <2> QED
    BY <2>2, <2>3
<1>2. PICK q \in Int, m \in 0 .. n - 1 : q = x \div n /\ m = x % n /\ x = q * n + m
  BY Divided
<1>3. (q - k) * n = r - m
  BY <1>1, <1>2
<1>4. q - k = 0
  BY <1>3, NoMultiple
<1>5. q = k
  BY <1>4
<1>6. m = r
  BY <1>3, <1>4
<1> QED
  BY <1>1, <1>2, <1>5, <1>6

\* The order of multiples is that of their factors.
LEMMA SameOrder ==
  ASSUME NEW a \in Nat, NEW b \in Nat, NEW n \in Nat, n > 0
  PROVE  (a <= b) <=> (a * n <= b * n)
<1>1. a <= b => a * n <= b * n
  OBVIOUS
<1>2. a >= b + 1 => a * n >= b * n + n
  OBVIOUS
<1>3. a * n \in Nat /\ b * n \in Nat
  BY OneMore
<1> QED
  BY <1>1, <1>2, <1>3

\* The k-th part of n * w, and what is less than another part.
LEMMA PartOfWhole ==
  ASSUME NEW n \in Nat, NEW w \in Nat, w > 0,
         NEW k \in 0 .. n - 1, NEW r \in 0 .. w - 1
  PROVE  k * w + r \in 0 .. n * w - 1
<1>1. k \in Nat /\ k + 1 \in Nat /\ r \in Nat
  OBVIOUS
<1>2. PICK p \in Nat : p = k * w
  BY <1>1, OneMore
<1>3. PICK x \in Nat : x = n * w
  BY OneMore
<1>4. (k + 1) * w <= n * w /\ (k + 1) * w = k * w + w
  BY <1>1, SameOrder, OneMore
<1>5. p + w <= x
  BY <1>2, <1>3, <1>4
<1>6. p + r \in 0 .. x - 1
  BY <1>1, <1>5
<1> QED
  BY <1>2, <1>3, <1>6

\* d days, h hours, m minutes and s seconds.
Time(d, h, m, s) == ((d * TwentyFour + h) * Sixty + m) * Sixty + s

OfDay    == 0 .. TwentyFour - 1
OfHour   == 0 .. Sixty - 1

LEMMA Lengths ==
  /\ Sixty \in Nat /\ TwentyFour \in Nat /\ Sixty > 0 /\ TwentyFour > 0
  /\ Sixty <= 256 /\ TwentyFour <= 256
  /\ Hour \in Nat /\ Hour > 0 /\ Day \in Nat /\ Day > 0
<1>1. /\ Sixty \in Nat /\ TwentyFour \in Nat /\ Sixty > 0 /\ TwentyFour > 0
      /\ Sixty <= 256 /\ TwentyFour <= 256
  BY RtcAssumption DEF RtcAssumption
<1>2. Hour \in Nat /\ Hour > 0
  BY <1>1 DEF Hour
<1>3. Hour * TwentyFour \in Nat /\ Hour * TwentyFour > 0
  BY <1>1, <1>2
<1> QED
  BY <1>1, <1>2, <1>3 DEF Day

\* The same time as a sum, and what is left of it at each length.
LEMMA TimeAsSum ==
  ASSUME NEW d \in Nat, NEW h \in OfDay, NEW m \in OfHour, NEW s \in OfHour
  PROVE  /\ Time(d, h, m, s) \in Nat
         /\ d * Day \in Nat /\ h * Hour \in Nat /\ m * Sixty \in Nat
         /\ Time(d, h, m, s) = d * Day + h * Hour + m * Sixty + s
         /\ d * TwentyFour + h \in Nat
         /\ (d * TwentyFour + h) * Hour = d * Day + h * Hour
         /\ (d * TwentyFour + h) * Sixty + m \in Nat
         /\ m * Sixty + s \in 0 .. Hour - 1
         /\ h * Hour + (m * Sixty + s) \in 0 .. Day - 1
<1>1. PICK n \in Nat, t \in Nat : n = Sixty /\ t = TwentyFour /\ n > 0 /\ t > 0
  BY Lengths
<1>2. PICK o \in Nat : o = Hour /\ o = n * n /\ o > 0
  BY <1>1, Lengths DEF Hour
<1>3. PICK y \in Nat : y = Day /\ y = o * t /\ y > 0
  BY <1>1, <1>2, Lengths DEF Day
<1>4. h \in 0 .. t - 1 /\ m \in 0 .. n - 1 /\ s \in 0 .. n - 1 /\ h \in Nat /\ m \in Nat /\ s \in Nat
  BY <1>1 DEF OfDay, OfHour
<1>5. PICK dt \in Nat, dy \in Nat, ho \in Nat, mn \in Nat :
        dt = d * t /\ dy = d * y /\ ho = h * o /\ mn = m * n
  BY <1>4, OneMore
<1>6. PICK q \in Nat : q = d * t + h
  BY <1>4, <1>5
<1>7. q * o = d * y + h * o
  <2>1. (d * t) * o = d * y
    BY <1>1, <1>2, <1>3
  <2>2. (d * t + h) * o = (d * t) * o + h * o
    BY <1>2, <1>4
  <2> QED
    BY <1>6, <2>1, <2>2
<1>8. PICK p \in Nat : p = q * n + m
  <2>1. q * n \in Nat
    BY OneMore
  <2> QED
    BY <1>4, <2>1
<1>9. p * n = q * o + m * n
  <2>1. (q * n) * n = q * o
    BY <1>2
  <2>2. (q * n + m) * n = (q * n) * n + m * n
    BY <1>1, <1>4
  <2> QED
    BY <1>8, <2>1, <2>2
<1>10. Time(d, h, m, s) = p * n + s
  BY <1>1, <1>6, <1>8 DEF Time
<1>11. m * n + s \in 0 .. o - 1
  BY <1>1, <1>2, <1>4, PartOfWhole
<1>12. h * o + (m * n + s) \in 0 .. y - 1
  <2>1. PICK r \in 0 .. o - 1 : r = m * n + s
    BY <1>11
  <2>2. h * o + r \in 0 .. t * o - 1
    BY <1>1, <1>2, <1>4, PartOfWhole
  <2>3. t * o = y
    BY <1>1, <1>2, <1>3
  <2> QED
    BY <2>1, <2>2, <2>3
<1>13. Time(d, h, m, s) = dy + ho + mn + s
  BY <1>5, <1>7, <1>9, <1>10
<1>14. dy + ho + mn + s \in Nat
  BY <1>4, <1>5
<1> QED
  BY <1>1, <1>2, <1>3, <1>5, <1>6, <1>7, <1>8, <1>11, <1>12, <1>13, <1>14

\* The parts of a time are what it was put together from.
LEMMA PartsOfTime ==
  ASSUME NEW d \in Nat, NEW h \in OfDay, NEW m \in OfHour, NEW s \in OfHour
  PROVE  LET t == Time(d, h, m, s)
         IN /\ Secs(t) = s /\ Mins(t) = m * Sixty /\ Hours(t) = h * Hour
            /\ Days(t) = d * Day
<1>1. PICK n \in Nat, o \in Nat, y \in Nat :
        n = Sixty /\ o = Hour /\ y = Day /\ n > 0 /\ o > 0 /\ y > 0
  BY Lengths
<1>2. PICK t \in Nat, dy \in Nat, ho \in Nat, mn \in Nat :
        /\ t = Time(d, h, m, s) /\ dy = d * Day /\ ho = h * Hour /\ mn = m * Sixty
        /\ t = dy + ho + mn + s
  <2>1. PICK dy \in Nat : dy = d * Day
    BY TimeAsSum
  <2>2. PICK ho \in Nat : ho = h * Hour
    BY TimeAsSum
  <2>3. PICK mn \in Nat : mn = m * Sixty
    BY TimeAsSum
  <2>4. PICK t \in Nat : t = Time(d, h, m, s) /\ t = dy + ho + mn + s
    BY <2>1, <2>2, <2>3, TimeAsSum
  <2> QED
    BY <2>1, <2>2, <2>3, <2>4
<1>3. s \in 0 .. n - 1 /\ s \in Nat
  BY <1>1 DEF OfHour
<1>4. Secs(t) = s
  <2>1. PICK p \in Nat : p = (d * TwentyFour + h) * Sixty + m
    BY TimeAsSum
  <2>2. t = p * n + s
    BY <1>1, <1>2, <2>1 DEF Time
  <2>3. (p * n + s) % n = s
    BY <1>1, <1>3, WholeAndRest
  <2> QED
    BY <1>1, <2>2, <2>3 DEF Secs
<1>5. PICK q \in Nat : q = d * TwentyFour + h /\ q * Hour = dy + ho
  BY <1>2, TimeAsSum
<1>6. mn + s \in 0 .. o - 1 /\ mn \in 0 .. o - 1
  <2>1. mn + s \in 0 .. o - 1
    BY <1>1, <1>2, TimeAsSum
  <2> QED
    BY <1>2, <1>3, <2>1
<1>7. Mins(t) = mn
  <2>1. t - s = q * o + mn
    BY <1>1, <1>2, <1>3, <1>5
  <2>2. (q * o + mn) % o = mn
    BY <1>1, <1>6, WholeAndRest
  <2> QED
    BY <1>1, <1>4, <2>1, <2>2 DEF Mins
<1>8. Hours(t) = ho
  <2>1. ho \in 0 .. y - 1
    <3>1. ho + (mn + s) \in 0 .. y - 1
      BY <1>1, <1>2, TimeAsSum
    <3> QED
      BY <1>2, <1>3, <3>1
  <2>2. (t - mn) - s = d * y + ho
    BY <1>1, <1>2, <1>3
  <2>3. (d * y + ho) % y = ho
    BY <1>1, <2>1, WholeAndRest
  <2> QED
    BY <1>1, <1>4, <1>7, <2>2, <2>3 DEF Hours
<1>9. Days(t) = dy
  BY <1>2, <1>3, <1>4, <1>7, <1>8 DEF Days
<1> QED
  BY <1>2, <1>4, <1>7, <1>8, <1>9

\* Every time has parts.
LEMMA HasParts ==
  ASSUME NEW t \in Nat
  PROVE  \E d \in Nat, h \in OfDay, m \in OfHour, s \in OfHour : t = Time(d, h, m, s)
<1>1. \A x \in Nat, n \in Nat : n > 0 =>
        \E q \in Nat, r \in 0 .. n - 1 : x = q * n + r
  <2> SUFFICES ASSUME NEW x \in Nat, NEW n \in Nat, n > 0
               PROVE  \E q \in Nat, r \in 0 .. n - 1 : x = q * n + r
    OBVIOUS
  <2>1. PICK q \in Int, r \in 0 .. n - 1 : x = q * n + r
    BY Divided
  <2>2. ~(q <= 0 - 1)
    <3> SUFFICES ASSUME q <= 0 - 1 PROVE FALSE
      OBVIOUS
    <3>1. q * n <= 0 - n
      OBVIOUS
    <3> QED
      BY <2>1, <3>1
  <2> QED
    BY <2>1, <2>2
<1>2. PICK p \in Nat, s \in OfHour : t = p * Sixty + s
  BY <1>1, Lengths DEF OfHour
<1>3. PICK q \in Nat, m \in OfHour : p = q * Sixty + m
  BY <1>1, Lengths DEF OfHour
<1>4. PICK d \in Nat, h \in OfDay : q = d * TwentyFour + h
  BY <1>1, Lengths DEF OfDay
<1>5. t = Time(d, h, m, s)
  BY <1>2, <1>3, <1>4 DEF Time
<1> QED
  BY <1>5

\* What the registers of the clock show of a time.
LEMMA ShowsTime ==
  ASSUME NEW d \in Nat, NEW h \in OfDay, NEW m \in OfHour, NEW s \in OfHour
  PROVE  LET t == Time(d, h, m, s)
         IN /\ Shows("seconds", t) = s /\ Shows("minutes", t) = m
            /\ Shows("hours", t) = h /\ Shows("days", t) = d % 256
            /\ Shows("high", t) = (d \div 256) % 256
<1>1. PICK n \in Nat, o \in Nat, y \in Nat, f \in Nat :
        /\ n = Sixty /\ o = Hour /\ y = Day /\ f = TwentyFour
        /\ n > 0 /\ o > 0 /\ y > 0 /\ f > 0 /\ n <= 256 /\ f <= 256
  BY Lengths
<1>2. PICK t \in Nat : t = Time(d, h, m, s)
  BY TimeAsSum
<1>3. PICK dy \in Nat, ho \in Nat, mn \in Nat :
        /\ dy = d * y /\ ho = h * o /\ mn = m * n /\ t = dy + ho + mn + s
  <2>1. PICK dy \in Nat : dy = d * y /\ dy = d * Day
    BY <1>1, TimeAsSum
  <2>2. PICK ho \in Nat : ho = h * o /\ ho = h * Hour
    BY <1>1, TimeAsSum
  <2>3. PICK mn \in Nat : mn = m * n /\ mn = m * Sixty
    BY <1>1, TimeAsSum
  <2>4. t = dy + ho + mn + s
    BY <1>2, <2>1, <2>2, <2>3, TimeAsSum
  <2> QED
    BY <2>1, <2>2, <2>3, <2>4
<1>4. /\ s \in 0 .. n - 1 /\ s \in Nat /\ m \in 0 .. n - 1 /\ m \in Nat
      /\ h \in 0 .. f - 1 /\ h \in Nat
  BY <1>1 DEF OfHour, OfDay
<1>5. PICK q \in Nat : q = d * f + h
  BY <1>1, TimeAsSum
<1>6. PICK p \in Nat : p = q * n + m
  BY <1>1, <1>5, TimeAsSum
<1>7. t = p * n + s
  BY <1>1, <1>2, <1>5, <1>6 DEF Time
<1>8. t % n = s /\ t \div n = p
  BY <1>1, <1>4, <1>7, WholeAndRest
<1>9. p % n = m
  BY <1>1, <1>4, <1>6, WholeAndRest
<1>10. t \div o = q
  <2>1. PICK r \in 0 .. o - 1 : r = mn + s
    BY <1>1, <1>3, TimeAsSum
  <2>2. q * o = dy + ho
    BY <1>1, <1>3, <1>5, TimeAsSum
  <2>3. q * o \in Nat
    BY OneMore
  <2>4. t = q * o + r
    BY <1>3, <1>4, <2>1, <2>2
  <2> QED
    BY <1>1, <2>4, WholeAndRest
<1>11. q % f = h
  BY <1>1, <1>4, <1>5, WholeAndRest
<1>12. t \div y = d
  <2>1. PICK r \in 0 .. y - 1 : r = ho + (mn + s)
    BY <1>1, <1>3, TimeAsSum
  <2>2. t = d * y + r
    BY <1>3, <1>4, <2>1
  <2> QED
    BY <1>1, <2>2, WholeAndRest
<1>13. s % 256 = s /\ m % 256 = m /\ h % 256 = h
  BY <1>1, <1>4
<1>14. /\ CMod(t, Sixty) = s /\ CDiv(t, Sixty) = p /\ CMod(p, Sixty) = m
       /\ CDiv(t, Hour) = q /\ CMod(q, TwentyFour) = h /\ CDiv(t, Day) = d
  BY <1>1, <1>8, <1>9, <1>10, <1>11, <1>12 DEF CMod, CDiv
<1> QED
  BY <1>2, <1>13, <1>14 DEF Shows

-----------------------------------------------------------------------------
(* The clock: registers set.                                               *)

\* A time is whole days and less than one.
LEMMA RestOfDay ==
  ASSUME NEW d \in Nat, NEW h \in OfDay, NEW m \in OfHour, NEW s \in OfHour
  PROVE  \E a \in 0 .. Day - 1 : Time(d, h, m, s) = d * Day + a
<1>1. PICK dy \in Nat : dy = d * Day
  BY TimeAsSum
<1>2. PICK ho \in Nat : ho = h * Hour
  BY TimeAsSum
<1>3. PICK mn \in Nat : mn = m * Sixty
  BY TimeAsSum
<1>4. Time(d, h, m, s) = dy + ho + mn + s
  BY <1>1, <1>2, <1>3, TimeAsSum
<1>5. ho + (mn + s) \in 0 .. Day - 1
  BY <1>2, <1>3, TimeAsSum
<1>6. s \in Nat
  BY DEF OfHour
<1>7. Time(d, h, m, s) = dy + (ho + (mn + s))
  BY <1>4, <1>6
<1> QED
  BY <1>1, <1>5, <1>7

\* Of two times the later has no fewer days.
LEMMA DaysGrow ==
  ASSUME NEW t \in Nat, NEW r \in Nat, r <= t
  PROVE  Days(r) <= Days(t)
<1>1. PICK d \in Nat, h \in OfDay, m \in OfHour, s \in OfHour : t = Time(d, h, m, s)
  BY HasParts
<1>2. PICK e \in Nat, g \in OfDay, l \in OfHour, k \in OfHour : r = Time(e, g, l, k)
  BY HasParts
<1>3. PICK y \in Nat : y = Day /\ y > 0
  BY Lengths
<1>4. Days(t) = d * y /\ Days(r) = e * y
  BY <1>1, <1>2, <1>3, PartsOfTime
<1>5. PICK a \in 0 .. Day - 1 : t = d * Day + a
  BY <1>1, RestOfDay
<1>6. PICK b \in 0 .. Day - 1 : r = e * Day + b
  BY <1>2, RestOfDay
<1>7. e <= d
  <2> SUFFICES ASSUME e >= d + 1 PROVE FALSE
    OBVIOUS
  <2>1. (d + 1) * y <= e * y /\ (d + 1) * y = d * y + y
    BY SameOrder, OneMore
  <2>2. d * y \in Nat /\ e * y \in Nat
    BY OneMore
  <2> QED
    BY <1>3, <1>5, <1>6, <2>1, <2>2
<1> QED
  BY <1>3, <1>4, <1>7, SameOrder

LEMMA DaysAtMost ==
  ASSUME NEW t \in Nat
  PROVE  Days(t) <= t /\ Days(t) \in Nat
<1>1. PICK d \in Nat, h \in OfDay, m \in OfHour, s \in OfHour : t = Time(d, h, m, s)
  BY HasParts
<1>2. PICK dy \in Nat : dy = d * Day
  BY TimeAsSum
<1>3. PICK a \in 0 .. Day - 1 : t = d * Day + a
  BY <1>1, RestOfDay
<1>4. Days(t) = dy
  BY <1>1, <1>2, PartsOfTime
<1>5. Day \in Nat
  BY Lengths
<1> QED
  BY <1>2, <1>3, <1>4, <1>5

\* A clock set at r whose days have begun by t: the parts of both, and the days
\* between them.
LEMMA DaysBetween ==
  ASSUME NEW d \in Nat, NEW h \in OfDay, NEW m \in OfHour, NEW s \in OfHour,
         NEW e \in Nat, NEW g \in OfDay, NEW l \in OfHour, NEW k \in OfHour,
         Days(Time(e, g, l, k)) <= Time(d, h, m, s)
  PROVE  /\ e <= d /\ d - e \in Nat
         /\ CDiv(Days(Time(d, h, m, s)) - Days(Time(e, g, l, k)), Day) = d - e
<1>1. PICK y \in Nat : y = Day /\ y > 0
  BY Lengths
<1>2. Days(Time(d, h, m, s)) = d * y /\ Days(Time(e, g, l, k)) = e * y
  BY <1>1, PartsOfTime
<1>3. PICK a \in 0 .. Day - 1 : Time(d, h, m, s) = d * Day + a
  BY RestOfDay
<1>4. d * y \in Nat /\ e * y \in Nat
  BY OneMore
<1>5. e * y <= d * y + a /\ a \in 0 .. y - 1
  BY <1>1, <1>2, <1>3
<1>6. e <= d
  <2> SUFFICES ASSUME e >= d + 1 PROVE FALSE
    OBVIOUS
  <2>1. (d + 1) * y <= e * y /\ (d + 1) * y = d * y + y
    BY SameOrder, OneMore
  <2> QED
    BY <1>4, <1>5, <2>1
<1>7. PICK n \in Nat : n = d - e
  BY <1>6
<1>8. d * y - e * y = n * y + 0
  BY <1>1, <1>7
<1>9. n * y \in Nat /\ (n * y + 0) \div y = n
  <2>1. n * y \in Nat
    BY OneMore
  <2>2. 0 \in 0 .. y - 1
    BY <1>1
  <2> QED
    BY <1>1, <2>1, <2>2, WholeAndRest
<1>10. CDiv(n * y + 0, y) = n
  BY <1>9 DEF CDiv
<1> QED
  BY <1>1, <1>2, <1>6, <1>7, <1>8, <1>10

\* The number of days that a register of it is replaced in.
NewDays(register, d, v) ==
  IF register = "days" THEN High(d) + v ELSE WithoutBit8(d) + 256 * v

DayRegisters == {"days", "high"}
DayValues    == {0, 1}

LEMMA NewDaysShown ==
  ASSUME NEW d \in Nat, NEW v \in DayValues, NEW register \in DayRegisters
  PROVE  /\ NewDays(register, d, v) \in Nat
         /\ d < 512 =>
              /\ NewDays(register, d, v) % 256 = IF register = "days" THEN v ELSE d % 256
              /\ (NewDays(register, d, v) \div 256) % 256
                   = IF register = "days" THEN (d \div 256) % 256 ELSE v
<1> USE DEF DayRegisters, DayValues
<1>1. High(d) \in Nat
  <2>1. PICK x \in Nat : x = d \div 256
    OBVIOUS
  <2>2. PICK b \in 0 .. 255 : d = 256 * x + b /\ d % 256 = b
    BY <2>1
  <2>3. d % 65536 = 256 * (x % 256) + b
    BY <2>2
  <2> QED
    BY <2>1, <2>2, <2>3 DEF High
<1>2. WithoutBit8(d) \in Nat
  <2>1. PICK x \in Nat : x = d \div 256
    OBVIOUS
  <2>2. PICK b \in 0 .. 255 : d = 256 * x + b /\ d % 256 = b
    BY <2>1
  <2>3. d % 65536 = 256 * (x % 256) + b
    BY <2>2
  <2>4. x % 256 >= x % 2 /\ x % 256 \in Nat /\ x % 2 \in Nat
    BY <2>1
  <2> QED
    BY <2>1, <2>2, <2>3, <2>4 DEF WithoutBit8
<1>3. ASSUME d < 512
      PROVE  /\ (High(d) + v) % 256 = v
             /\ ((High(d) + v) \div 256) % 256 = (d \div 256) % 256
             /\ (WithoutBit8(d) + 256 * v) % 256 = d % 256
             /\ ((WithoutBit8(d) + 256 * v) \div 256) % 256 = v
  <2>1. CASE d < 256
    <3>1. High(d) = 0 /\ WithoutBit8(d) = d
      BY <2>1 DEF High, WithoutBit8
    <3> QED
      BY <2>1, <3>1
  <2>2. CASE d >= 256
    <3>1. High(d) = 256 /\ WithoutBit8(d) = d - 256
      BY <1>3, <2>2 DEF High, WithoutBit8
    <3> QED
      BY <1>3, <2>2, <3>1
  <2> QED
    BY <2>1, <2>2
<1>4. PICK a \in Nat, b \in Nat : a = High(d) + v /\ b = WithoutBit8(d) + 256 * v
  BY <1>1, <1>2
<1>5. d < 512 => /\ a % 256 = v /\ (a \div 256) % 256 = (d \div 256) % 256
                 /\ b % 256 = d % 256 /\ (b \div 256) % 256 = v
  BY <1>3, <1>4
<1>6. CASE register = "days"
  <2>1. NewDays(register, d, v) = a
    BY <1>4, <1>6 DEF NewDays
  <2> QED
    BY <1>5, <1>6, <2>1
<1>7. CASE register = "high"
  <2>1. NewDays(register, d, v) = b
    BY <1>4, <1>7 DEF NewDays
  <2> QED
    BY <1>5, <1>7, <2>1
<1> QED
  BY <1>6, <1>7

\* A register is set: the moment of zero does not come to lie in a later day than
\* the one under way.
LEMMA AdjustedKeeps ==
  ASSUME NEW t \in Nat, NEW r \in Nat, Days(r) <= t,
         NEW register \in Registers, NEW v \in Valid(register),
         NEW x, x = Adjusted(register, t, r, v)
  PROVE  x \in Int /\ (x >= 0 => Days(x) <= t)
<1>1. PICK d \in Nat, h \in OfDay, m \in OfHour, s \in OfHour : t = Time(d, h, m, s)
  BY HasParts
<1>2. PICK e \in Nat, g \in OfDay, l \in OfHour, k \in OfHour : r = Time(e, g, l, k)
  BY HasParts
<1>3. PICK n \in Nat : n = d - e
  BY <1>1, <1>2, DaysBetween
<1>4. CDiv(Days(t) - Days(r), Day) = n
  BY <1>1, <1>2, <1>3, DaysBetween
<1>5. e <= d
  BY <1>1, <1>2, DaysBetween
<1>6. PICK dy \in Nat : dy = d * Day /\ Days(t) = dy
  BY <1>1, TimeAsSum, PartsOfTime
<1>7. PICK ho \in Nat : ho = h * Hour /\ Hours(t) = ho
  BY <1>1, TimeAsSum, PartsOfTime
<1>8. PICK mn \in Nat : mn = m * Sixty /\ Mins(t) = mn
  BY <1>1, TimeAsSum, PartsOfTime
<1>9. PICK ey \in Nat : ey = e * Day /\ Days(r) = ey
  BY <1>2, TimeAsSum, PartsOfTime
<1>10. PICK go \in Nat : go = g * Hour /\ Hours(r) = go
  BY <1>2, TimeAsSum, PartsOfTime
<1>11. PICK ln \in Nat : ln = l * Sixty /\ Mins(r) = ln
  BY <1>2, TimeAsSum, PartsOfTime
<1>12. Secs(t) = s /\ Secs(r) = k /\ s \in Nat /\ k \in Nat
  BY <1>1, <1>2, PartsOfTime DEF OfHour
<1>13. t = dy + ho + mn + s
  BY <1>1, <1>6, <1>7, <1>8, TimeAsSum
<1>14. r = ey + go + ln + k
  BY <1>2, <1>9, <1>10, <1>11, TimeAsSum
<1>15. v \in Nat
  BY Lengths DEF Valid
<1>16. ey <= t
  BY <1>9
<1>17. \A y \in Nat : x \in Int /\ x <= y /\ Days(y) = ey =>
                        x \in Int /\ (x >= 0 => Days(x) <= t)
  <2> SUFFICES ASSUME NEW y \in Nat, x \in Nat, x <= y, Days(y) = ey PROVE Days(x) <= t
    OBVIOUS
  <2>1. Days(x) <= ey /\ Days(x) \in Nat
    BY DaysGrow, DaysAtMost
  <2> QED
    BY <1>16, <2>1
<1>18. CASE register = "seconds"
  <2>1. PICK y \in Nat : y = Time(e, g, l, s)
    BY TimeAsSum
  <2>2. y = ey + go + ln + s
    BY <1>9, <1>10, <1>11, <2>1, TimeAsSum
  <2>3. Days(y) = ey
    BY <1>9, <2>1, PartsOfTime
  <2>4. x = r - k + (s - v)
    BY <1>12, <1>18 DEF Adjusted
  <2>5. x \in Int /\ x <= y
    BY <1>12, <1>14, <1>15, <2>2, <2>4
  <2> QED
    BY <1>17, <2>1, <2>3, <2>5
<1>19. CASE register = "minutes"
  <2>1. PICK y \in Nat : y = Time(e, g, m, k)
    BY TimeAsSum
  <2>2. y = ey + go + mn + k
    BY <1>8, <1>9, <1>10, <2>1, TimeAsSum
  <2>3. Days(y) = ey
    BY <1>9, <2>1, PartsOfTime
  <2>4. PICK w \in Nat : w = v * Sixty
    BY <1>15, OneMore, Lengths
  <2>5. x = r - ln + (mn - w)
    BY <1>8, <1>11, <1>19, <2>4 DEF Adjusted
  <2>6. x \in Int /\ x <= y
    BY <1>12, <1>14, <2>2, <2>4, <2>5
  <2> QED
    BY <1>17, <2>3, <2>6
<1>20. CASE register = "hours"
  <2>1. PICK y \in Nat : y = Time(e, h, l, k)
    BY TimeAsSum
  <2>2. y = ey + ho + ln + k
    BY <1>7, <1>9, <1>11, <2>1, TimeAsSum
  <2>3. Days(y) = ey
    BY <1>9, <2>1, PartsOfTime
  <2>4. PICK w \in Nat : w = v * Sixty * TwentyFour
    <3>1. PICK u \in Nat : u = v * Sixty
      BY <1>15, OneMore, Lengths
    <3>2. u * TwentyFour \in Nat
      BY OneMore, Lengths
    <3> QED
      BY <3>1, <3>2
  <2>5. x = r - go + (ho - w)
    BY <1>7, <1>10, <1>20, <2>4 DEF Adjusted
  <2>6. x \in Int /\ x <= y
    BY <1>12, <1>14, <2>2, <2>4, <2>5
  <2> QED
    BY <1>17, <2>3, <2>6
<1>21. CASE register \in {"days", "high"}
  <2>1. PICK y \in Nat : y = Time(d, g, l, k)
    BY TimeAsSum
  <2>2. y = dy + go + ln + k
    BY <1>6, <1>10, <1>11, <2>1, TimeAsSum
  <2>3. Days(y) = dy
    BY <1>6, <2>1, PartsOfTime
  <2>4. v \in DayValues /\ register \in DayRegisters
    BY <1>21 DEF Valid, DayValues, DayRegisters
  <2>5. PICK z \in Nat : z = NewDays(register, n, v)
    <3>1. NewDays(register, n, v) \in Nat
      BY <2>4, NewDaysShown
    <3> QED
      BY <3>1
  <2>6. PICK w \in Nat : w = z * Day
    BY OneMore, Lengths
  <2>7. x = r - ey + (dy - w)
    <3>1. CASE register = "days"
      BY <1>4, <1>6, <1>9, <2>5, <2>6, <3>1 DEF Adjusted, NewDays
    <3>2. CASE register = "high"
      BY <1>4, <1>6, <1>9, <2>5, <2>6, <3>2 DEF Adjusted, NewDays
    <3> QED
      BY <1>21, <3>1, <3>2
  <2>8. x \in Int /\ x <= y
    BY <1>12, <1>14, <2>2, <2>6, <2>7
  <2>9. x >= 0 => Days(x) <= dy /\ Days(x) \in Nat
    BY <2>3, <2>8, DaysGrow, DaysAtMost
  <2> QED
    BY <1>12, <1>13, <2>8, <2>9
<1> QED
  BY <1>18, <1>19, <1>20, <1>21 DEF Registers

\* A register is set with no borrow: it shows its value, the others what they did.
LEMMA SetsOne ==
  ASSUME NEW t \in Nat, NEW r \in Nat, Days(r) <= t,
         Secs(t) >= Secs(r), Mins(t) >= Mins(r), Hours(t) >= Hours(r),
         Days(t) - Days(r) < 512 * Day,
         NEW register \in Registers \ {"hours"}, NEW v \in Valid(register)
  PROVE  LET before == t - r
             after  == t - Adjusted(register, t, r, v)
         IN /\ Shows(register, after) = v
            /\ \A other \in Registers \ {register} :
                 Shows(other, after) = Shows(other, before)
<1>1. PICK d \in Nat, h \in OfDay, m \in OfHour, s \in OfHour : t = Time(d, h, m, s)
  BY HasParts
<1>2. PICK e \in Nat, g \in OfDay, l \in OfHour, k \in OfHour : r = Time(e, g, l, k)
  BY HasParts
<1>3. PICK n \in Nat : n = d - e
  BY <1>1, <1>2, DaysBetween
<1>4. CDiv(Days(t) - Days(r), Day) = n
  BY <1>1, <1>2, <1>3, DaysBetween
<1>5. PICK dy \in Nat : dy = d * Day /\ Days(t) = dy
  BY <1>1, TimeAsSum, PartsOfTime
<1>6. PICK ho \in Nat : ho = h * Hour /\ Hours(t) = ho
  BY <1>1, TimeAsSum, PartsOfTime
<1>7. PICK mn \in Nat : mn = m * Sixty /\ Mins(t) = mn
  BY <1>1, TimeAsSum, PartsOfTime
<1>8. PICK ey \in Nat : ey = e * Day /\ Days(r) = ey
  BY <1>2, TimeAsSum, PartsOfTime
<1>9. PICK go \in Nat : go = g * Hour /\ Hours(r) = go
  BY <1>2, TimeAsSum, PartsOfTime
<1>10. PICK ln \in Nat : ln = l * Sixty /\ Mins(r) = ln
  BY <1>2, TimeAsSum, PartsOfTime
<1>11. Secs(t) = s /\ Secs(r) = k /\ s \in Nat /\ k \in Nat
  BY <1>1, <1>2, PartsOfTime DEF OfHour
<1>12. t = dy + ho + mn + s
  BY <1>1, <1>5, <1>6, <1>7, TimeAsSum
<1>13. r = ey + go + ln + k
  BY <1>2, <1>8, <1>9, <1>10, TimeAsSum
<1>14. PICK sd \in OfHour : sd = s - k
  BY <1>11, Lengths DEF OfHour
<1>15. PICK md \in OfHour : md = m - l
  <2>1. l * Sixty <= m * Sixty /\ l \in Nat /\ m \in Nat
    BY <1>7, <1>10 DEF OfHour
  <2>2. l <= m
    BY <2>1, SameOrder, Lengths
  <2> QED
    BY <2>2, Lengths DEF OfHour
<1>16. PICK hd \in OfDay : hd = h - g
  <2>1. g * Hour <= h * Hour /\ g \in Nat /\ h \in Nat
    BY <1>6, <1>9 DEF OfDay
  <2>2. g <= h
    BY <2>1, SameOrder, Lengths
  <2> QED
    BY <2>2, Lengths DEF OfDay
<1>17. /\ n * Day = dy - ey /\ hd * Hour = ho - go /\ md * Sixty = mn - ln
  <2>1. PICK y \in Nat, o \in Nat, i \in Nat : y = Day /\ o = Hour /\ i = Sixty
    BY Lengths
  <2>2. d \in Nat /\ e \in Nat /\ h \in Nat /\ g \in Nat /\ m \in Nat /\ l \in Nat
    BY DEF OfDay, OfHour
  <2>3. (d - e) * y = d * y - e * y
    BY <2>2
  <2>4. (h - g) * o = h * o - g * o
    BY <2>2
  <2>5. (m - l) * i = m * i - l * i
    BY <2>2
  <2> QED
    BY <1>3, <1>5, <1>6, <1>7, <1>8, <1>9, <1>10, <1>15, <1>16, <2>1, <2>3, <2>4, <2>5
<1>18. n < 512
  <2> SUFFICES ASSUME 512 <= n PROVE FALSE
    OBVIOUS
  <2>1. 512 * Day <= n * Day
    BY SameOrder, Lengths
  <2>2. 512 * Day \in Nat
    BY Lengths
  <2> QED
    BY <1>5, <1>8, <1>17, <2>1, <2>2
<1>19. ASSUME NEW N \in Nat, NEW H \in OfDay, NEW M \in OfHour, NEW S \in OfHour
       PROVE  Time(N, H, M, S) = N * Day + H * Hour + M * Sixty + S
  BY TimeAsSum
<1>20. t - r = Time(n, hd, md, sd)
  <2>1. t - r = (dy - ey) + (ho - go) + (mn - ln) + (s - k)
    BY <1>11, <1>12, <1>13
  <2> QED
    BY <1>14, <1>17, <1>19, <2>1
<1>21. CASE register = "seconds"
  <2>1. v \in OfHour
    BY <1>21 DEF Valid, OfHour
  <2>2. Adjusted(register, t, r, v) = r - k + (s - v)
    BY <1>11, <1>21 DEF Adjusted
  <2>3. v \in Nat
    BY <2>1 DEF OfHour
  <2>4. t - (r - k + (s - v)) = (dy - ey) + (ho - go) + (mn - ln) + v
    BY <1>11, <1>12, <1>13, <2>3
  <2>5. t - Adjusted(register, t, r, v) = Time(n, hd, md, v)
    BY <1>17, <1>19, <2>1, <2>2, <2>4
  <2> QED
    BY <1>20, <1>21, <2>1, <2>5, ShowsTime DEF Registers
<1>22. CASE register = "minutes"
  <2>1. v \in OfHour
    BY <1>22 DEF Valid, OfHour
  <2>2. PICK w \in Nat : w = v * Sixty
    <3>1. v \in Nat
      BY <2>1 DEF OfHour
    <3> QED
      BY <3>1, OneMore, Lengths
  <2>3. Adjusted(register, t, r, v) = r - ln + (mn - w)
    BY <1>7, <1>10, <1>22, <2>2 DEF Adjusted
  <2>4. t - (r - ln + (mn - w)) = (dy - ey) + (ho - go) + w + (s - k)
    BY <1>11, <1>12, <1>13
  <2>5. t - Adjusted(register, t, r, v) = Time(n, hd, v, sd)
    BY <1>14, <1>17, <1>19, <2>1, <2>2, <2>3, <2>4
  <2> QED
    BY <1>20, <1>22, <2>1, <2>5, ShowsTime DEF Registers
<1>23. CASE register \in {"days", "high"}
  <2>1. v \in DayValues /\ register \in DayRegisters
    BY <1>23 DEF Valid, DayValues, DayRegisters
  <2>2. PICK z \in Nat : z = NewDays(register, n, v)
    <3>1. NewDays(register, n, v) \in Nat
      BY <2>1, NewDaysShown
    <3> QED
      BY <3>1
  <2>3. PICK w \in Nat : w = z * Day
    BY OneMore, Lengths
  <2>4. Adjusted(register, t, r, v) = r - ey + (dy - w)
    <3>1. CASE register = "days"
      BY <1>4, <1>5, <1>8, <2>2, <2>3, <3>1 DEF Adjusted, NewDays
    <3>2. CASE register = "high"
      BY <1>4, <1>5, <1>8, <2>2, <2>3, <3>2 DEF Adjusted, NewDays
    <3> QED
      BY <1>23, <3>1, <3>2
  <2>5. t - (r - ey + (dy - w)) = w + (ho - go) + (mn - ln) + (s - k)
    BY <1>11, <1>12, <1>13
  <2>6. t - Adjusted(register, t, r, v) = Time(z, hd, md, sd)
    BY <1>14, <1>17, <1>19, <2>3, <2>4, <2>5
  <2>7. /\ z % 256 = IF register = "days" THEN v ELSE n % 256
        /\ (z \div 256) % 256 = IF register = "days" THEN (n \div 256) % 256 ELSE v
    BY <1>18, <2>1, <2>2, NewDaysShown
  <2>8. PICK a \in Nat, c \in Nat : a = t - r /\ c = t - Adjusted(register, t, r, v)
    BY <1>20, <2>6, TimeAsSum
  <2>9. /\ Shows("seconds", a) = sd /\ Shows("minutes", a) = md
        /\ Shows("hours", a) = hd /\ Shows("days", a) = n % 256
        /\ Shows("high", a) = (n \div 256) % 256
    BY <1>20, <2>8, ShowsTime
  <2>10. /\ Shows("seconds", c) = sd /\ Shows("minutes", c) = md
         /\ Shows("hours", c) = hd /\ Shows("days", c) = z % 256
         /\ Shows("high", c) = (z \div 256) % 256
    BY <2>6, <2>8, ShowsTime
  <2>11. Shows(register, c) = v /\ \A other \in Registers \ {register} :
                                     Shows(other, c) = Shows(other, a)
    <3>1. CASE register = "days"
      BY <2>7, <2>9, <2>10, <3>1 DEF Registers
    <3>2. CASE register = "high"
      BY <2>7, <2>9, <2>10, <3>2 DEF Registers
    <3> QED
      BY <1>23, <3>1, <3>2
  <2> QED
    BY <2>8, <2>11
<1> QED
  BY <1>21, <1>22, <1>23 DEF Registers

-----------------------------------------------------------------------------
(* The moment of zero, in the mmu and in the files, is in no later day, and *)
(* what the game may expect is what the clock shows.                       *)

\* A moment at which the clock can stand at zero at time t.
ZeroAt(z, t) == z \in Nat /\ Days(z) <= t

ClockInv ==
  /\ expects \subseteq {Showing}
  /\ now \in Nat /\ ZeroAt(rtc_time, now)
  /\ rtc_mode \in Registers \cup {"ram"}
  /\ \A z \in file_rtc : ZeroAt(z, now)
  /\ \A s \in stat : ZeroAt(s.time, now) /\ s.mode \in Registers \cup {"ram"}

\* What a step can do to the clock and to its files.
ClockKept == UNCHANGED <<now, rtc_time, rtc_mode, expects, file_rtc, stat>>
ClockTicks ==
  /\ now' = now + 1 /\ expects' = {}
  /\ UNCHANGED <<rtc_time, rtc_mode, file_rtc, stat>>
ClockShown ==
  /\ rtc_mode' \in Registers \cup {"ram"}
  /\ UNCHANGED <<now, rtc_time, expects, file_rtc, stat>>
Followed(v) ==
  \/ expects' = {}
  \/ /\ rtc_mode # "hours" /\ NoBorrow /\ NoOverflow
     /\ \A f \in expects' : \E e \in {Showing} \cup expects : f = [e EXCEPT ![rtc_mode] = v]
ClockWritten ==
  /\ rtc_mode # "ram"
  /\ \E v \in Valid(rtc_mode) : /\ rtc_time' = Adjusted(rtc_mode, now, rtc_time, v)
                               /\ Followed(v)
  /\ rtc_time' >= MinRtc
  /\ UNCHANGED <<now, rtc_mode, file_rtc, stat>>
ClockLoaded ==
  /\ rtc_mode' = "ram"
  /\ rtc_time' \in {now} \cup file_rtc'
  /\ file_rtc' = file_rtc \/ file_rtc' = {rtc_time}
  /\ expects' = {} \/ (expects' = expects /\ rtc_time' = rtc_time)
  /\ UNCHANGED <<now, stat>>
ClockSaved == stat' = {Stat} /\ UNCHANGED <<now, rtc_time, rtc_mode, expects, file_rtc>>
ClockRestored ==
  /\ \E s \in stat : rtc_time' = s.time /\ rtc_mode' = s.mode
  /\ expects' = {}
  /\ UNCHANGED <<now, file_rtc, stat>>

LEMMA ClockSteps ==
  ASSUME [Next]_vars
  PROVE  ClockKept \/ ClockTicks \/ ClockShown \/ ClockWritten \/ ClockLoaded
         \/ ClockSaved \/ ClockRestored
<1>1. ASSUME NEW v \in Bytes, RamEnable(v) \/ BankingMode(v) \/ RomBank(v) \/ Svbk(v)
      PROVE  ClockKept
  BY <1>1 DEF RamEnable, BankingMode, RomBank, Svbk, ClockKept, rtc, files
<1>2. ASSUME NEW v \in Bytes, RamBank(v) PROVE ClockKept \/ ClockShown
  <2>1. file_rtc' = file_rtc /\ stat' = stat
    BY <1>2 DEF RamBank, files
  <2>2. CASE Mbc1RamBank(v) \/ Mbc5RamBank(v)
    <3>1. UNCHANGED rtc
      BY <2>2 DEF Mbc1RamBank, Mbc5RamBank
    <3> QED
      BY <2>1, <3>1 DEF rtc, ClockKept
  <2>3. CASE Mbc3RamBank(v)
    BY <2>1, <2>3 DEF Mbc3RamBank, Show, ClockShown
  <2> QED
    BY <1>2, <2>2, <2>3 DEF RamBank
<1>3. ASSUME NEW v \in Bytes, ShowClock(v) PROVE ClockShown
  <2>1. ClockRegister(v) \in Registers
    <3>1. v \in 8 .. 12
      BY <1>3 DEF ShowClock
    <3>2. v = 8 \/ v = 9 \/ v = 10 \/ v = 11 \/ v = 12
      BY <3>1
    <3> QED
      BY <3>2 DEF ClockRegister, Registers
  <2> QED
    BY <1>3, <2>1 DEF ShowClock, Show, ClockShown, files
<1>4. ASSUME NEW v \in Values, WriteRam(v) \/ WriteClockOfClassic(v) \/ WriteWork(v)
      PROVE  ClockKept
  BY <1>4 DEF WriteRam, WriteClockOfClassic, WriteWork, ClockKept, rtc, files
<1>5. CASE LatchClock \/ UNCHANGED vars
  BY <1>5 DEF LatchClock, Latch, vars, ClockKept, rtc, files
<1>6. CASE WriteClock
  <2>1. PICK v \in Valid(rtc_mode) : SetRegister(v)
    BY <1>6 DEF WriteClock
  <2>2. Followed(v)
    <3>1. CASE rtc_mode # "hours" /\ NoBorrow /\ NoOverflow
      <4>1. PICK base : /\ base = IF expects = {} THEN {Showing} ELSE expects
                        /\ base \subseteq {Showing} \cup expects
        OBVIOUS
      <4>2. expects' = {[e EXCEPT ![rtc_mode] = v] : e \in base}
        BY <2>1, <3>1, <4>1, Zenon DEF SetRegister
      <4> QED
        BY <3>1, <4>1, <4>2, Zenon DEF Followed
    <3>2. CASE ~(rtc_mode # "hours" /\ NoBorrow /\ NoOverflow)
      <4>1. expects' = {}
        BY <2>1, <3>2, Zenon DEF SetRegister
      <4> QED
        BY <4>1 DEF Followed
    <3> QED
      BY <3>1, <3>2
  <2>3. /\ rtc_time' = Adjusted(rtc_mode, now, rtc_time, v) /\ rtc_time' >= MinRtc
        /\ UNCHANGED <<now, rtc_mode>>
    BY <2>1 DEF SetRegister
  <2>4. rtc_mode # "ram" /\ UNCHANGED <<file_rtc, stat>>
    BY <1>6 DEF WriteClock, files
  <2> QED
    BY <2>2, <2>3, <2>4 DEF ClockWritten
<1>7. CASE TimePasses
  BY <1>7 DEF TimePasses, Tick, ClockTicks, files
<1>8. ASSUME NEW f, NEW sav, Load(sav, f), file_rtc' = f,
             f = file_rtc \/ f = {rtc_time},
             expects' = {} \/ (expects' = expects /\ mbc \in Mbc3 /\ f = {rtc_time})
      PROVE  ClockLoaded
  <2>1. rtc_time' \in {now} \cup f
    <3>1. f # {} => (CHOOSE t \in f : TRUE) \in f
      OBVIOUS
    <3>2. PICK c : c = CHOOSE t \in f : TRUE
      OBVIOUS
    <3>3. (rtc_time' = c /\ f # {}) \/ rtc_time' = now
      BY <1>8, <3>2 DEF Load
    <3> QED
      BY <3>1, <3>2, <3>3
  <2>2. mbc \in Mbc3 /\ f = {rtc_time} => rtc_time' = rtc_time
    <3>1. \A x : (CHOOSE t \in {x} : TRUE) = x
      OBVIOUS
    <3> QED
      BY <1>8, <3>1, Zenon DEF Load
  <2> QED
    BY <1>8, <2>1, <2>2 DEF Load, ClockLoaded
<1>9. CASE TurnOff
  <2>1. PICK f, sav : Load(sav, f) /\ file_rtc' = f
    BY <1>9 DEF TurnOff
  <2>2. f = file_rtc \/ f = {rtc_time}
    BY <1>9, <2>1 DEF TurnOff
  <2>3. expects' = {} \/ (expects' = expects /\ mbc \in Mbc3 /\ f = {rtc_time})
    BY <1>9, <2>1, Zenon DEF TurnOff
  <2> QED
    BY <1>8, <2>1, <2>2, <2>3
<1>10. CASE Kill
  BY <1>8, <1>10 DEF Kill
<1>11. CASE SaveStatOfMbc2
  BY <1>11 DEF SaveStatOfMbc2, ClockLoaded
<1>12. CASE SaveStat
  BY <1>12 DEF SaveStat, ClockSaved, rtc
<1>13. CASE RestoreStat
  BY <1>13 DEF RestoreStat, ClockRestored, files
<1> QED
  BY <1>1, <1>2, <1>3, <1>4, <1>5, <1>6, <1>7, <1>9, <1>10, <1>11, <1>12, <1>13 DEF Next

LEMMA ClockInit == Init => ClockInv
<1> SUFFICES ASSUME Init PROVE ClockInv
  OBVIOUS
<1>1. /\ now = Epoch /\ rtc_time = Epoch /\ rtc_mode = "ram"
      /\ file_rtc = {} /\ stat = {} /\ expects = {}
  BY DEF Init, RtcInit
<1>2. Epoch \in Nat /\ Days(Epoch) <= Epoch
  BY RtcAssumption, DaysAtMost DEF RtcAssumption
<1> QED
  BY <1>1, <1>2 DEF ClockInv, ZeroAt

LEMMA SameShowing ==
  ASSUME UNCHANGED <<now, rtc_time>>
  PROVE  Showing' = Showing
BY DEF Showing

\* The clock as it is set shows what is followed: the value, and the rest of it.
LEMMA ShowsFollowed ==
  ASSUME ClockInv, NEW v \in Valid(rtc_mode), Followed(v), rtc_mode # "ram",
         now' = now, rtc_time' = Adjusted(rtc_mode, now, rtc_time, v)
  PROVE  expects' \subseteq {Showing'}
<1> SUFFICES ASSUME NEW f \in expects' PROVE f = Showing'
  OBVIOUS
<1>1. /\ rtc_mode # "hours" /\ NoBorrow /\ NoOverflow
      /\ \E e \in {Showing} \cup expects : f = [e EXCEPT ![rtc_mode] = v]
  BY Zenon DEF Followed
<1>2. f = [Showing EXCEPT ![rtc_mode] = v]
  BY <1>1, Zenon DEF ClockInv
<1>3. rtc_mode \in Registers \ {"hours"}
  BY <1>1 DEF ClockInv
<1>4. PICK m \in Registers \ {"hours"}, t \in Nat, r \in Nat :
        m = rtc_mode /\ t = now /\ r = rtc_time /\ Days(r) <= t
  BY <1>3 DEF ClockInv, ZeroAt
<1>5. /\ Secs(t) >= Secs(r) /\ Mins(t) >= Mins(r) /\ Hours(t) >= Hours(r)
      /\ Days(t) - Days(r) < 512 * Day
  BY <1>1, <1>4 DEF NoBorrow, NoOverflow
<1>6. PICK x : x = Adjusted(m, t, r, v)
  OBVIOUS
<1>7. /\ Shows(m, t - x) = v
      /\ \A other \in Registers \ {m} : Shows(other, t - x) = Shows(other, t - r)
  BY <1>4, <1>5, <1>6, SetsOne
<1>8. Showing = [register \in Registers |-> Shows(register, t - r)]
  BY <1>4 DEF Showing
<1>9. Showing' = [register \in Registers |-> Shows(register, t - x)]
  BY <1>4, <1>6 DEF Showing
<1>10. f = [register \in Registers |-> IF register = m THEN v ELSE Shows(register, t - r)]
  BY <1>2, <1>4, <1>8
<1> QED
  BY <1>7, <1>9, <1>10

LEMMA ClockStep == ClockInv /\ [Next]_vars => ClockInv'
<1> SUFFICES ASSUME ClockInv, [Next]_vars PROVE ClockInv'
  OBVIOUS
<1>1. CASE ClockKept
  BY <1>1, SameShowing, Zenon DEF ClockKept, ClockInv, ZeroAt
<1>2. CASE ClockTicks
  <2>1. now \in Nat /\ now' = now + 1
    BY <1>2 DEF ClockTicks, ClockInv
  <2>2. ASSUME NEW z, ZeroAt(z, now) PROVE ZeroAt(z, now')
    <3>1. z \in Nat /\ Days(z) <= now /\ Days(z) \in Nat
      BY <2>2, DaysAtMost DEF ZeroAt
    <3> QED
      BY <2>1, <3>1 DEF ZeroAt
  <2>3. /\ ZeroAt(rtc_time', now')
        /\ \A z \in file_rtc' : ZeroAt(z, now')
        /\ \A s \in stat' : ZeroAt(s.time, now') /\ s.mode \in Registers \cup {"ram"}
    BY <1>2, <2>2, Zenon DEF ClockTicks, ClockInv
  <2>4. now' \in Nat /\ rtc_mode' \in Registers \cup {"ram"} /\ expects' = {}
    BY <1>2, <2>1 DEF ClockTicks, ClockInv
  <2> QED
    BY <2>3, <2>4, Zenon DEF ClockInv, ZeroAt
<1>3. CASE ClockShown
  BY <1>3, SameShowing, Zenon DEF ClockShown, ClockInv, ZeroAt
<1>4. CASE ClockWritten
  <2>1. rtc_mode \in Registers
    BY <1>4 DEF ClockWritten, ClockInv
  <2>2. PICK v \in Valid(rtc_mode) : /\ rtc_time' = Adjusted(rtc_mode, now, rtc_time, v)
                                    /\ Followed(v)
    BY <1>4 DEF ClockWritten
  <2>3. PICK x : x = rtc_time' /\ x >= MinRtc
    BY <1>4 DEF ClockWritten
  <2>4. PICK m \in Registers, t \in Nat, r \in Nat :
          m = rtc_mode /\ t = now /\ r = rtc_time /\ Days(r) <= t
    BY <2>1 DEF ClockInv, ZeroAt
  <2>5. x \in Int
    BY <2>2, <2>3, <2>4, AdjustedKeeps
  <2>6. x >= 0
    BY <2>3, <2>5, RtcAssumption DEF RtcAssumption
  <2>7. x \in Nat /\ Days(x) <= t
    BY <2>2, <2>3, <2>4, <2>6, AdjustedKeeps
  <2>8. expects' \subseteq {Showing'}
    BY <1>4, <2>2, ShowsFollowed, Zenon DEF ClockWritten
  <2>9. UNCHANGED <<now, rtc_mode, file_rtc, stat>>
    BY <1>4 DEF ClockWritten
  <2>10. ZeroAt(rtc_time', now')
    BY <2>3, <2>4, <2>7, <2>9 DEF ZeroAt
  <2> QED
    BY <2>8, <2>9, <2>10, Zenon DEF ClockInv
<1>5. CASE ClockLoaded
  <2>1. now' = now /\ now \in Nat /\ stat' = stat /\ rtc_mode' = "ram"
    BY <1>5 DEF ClockLoaded, ClockInv
  <2>2. \A z \in file_rtc' : ZeroAt(z, now)
    BY <1>5 DEF ClockLoaded, ClockInv
  <2>3. ZeroAt(now, now)
    BY <2>1, DaysAtMost DEF ZeroAt
  <2>4. ZeroAt(rtc_time', now)
    BY <1>5, <2>2, <2>3 DEF ClockLoaded
  <2>5. expects' \subseteq {Showing'}
    BY <1>5, SameShowing, Zenon DEF ClockLoaded, ClockInv
  <2>6. \A s \in stat : ZeroAt(s.time, now) /\ s.mode \in Registers \cup {"ram"}
    BY DEF ClockInv
  <2> QED
    BY <2>1, <2>2, <2>4, <2>5, <2>6, Zenon DEF ClockInv
<1>6. CASE ClockSaved
  <2>1. Stat.time = rtc_time /\ Stat.mode = rtc_mode
    BY DEF Stat
  <2> QED
    BY <1>6, <2>1, SameShowing, Zenon DEF ClockSaved, ClockInv, ZeroAt
<1>7. CASE ClockRestored
  BY <1>7, Zenon DEF ClockRestored, ClockInv, ZeroAt
<1> QED
  BY <1>1, <1>2, <1>3, <1>4, <1>5, <1>6, <1>7, ClockSteps

\* For every length of the minute, the hour and the day up to 256, the registers
\* of the clock are read as they were set, and those that were not set as they
\* were before, when the clock is latched in that second, the program left and
\* started again in between or not (mmu.c:268-286, 405-430, 486-502, 657-736).
THEOREM RegistersRead == Spec => []ReadsWhatItSet
<1>1. ClockInv => ReadsWhatItSet
  BY DEF ClockInv, ReadsWhatItSet, Reading, Showing
<1> QED
  BY <1>1, ClockInit, ClockStep, PTL DEF Spec
=============================================================================
