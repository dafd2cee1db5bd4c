# A verification project for emu-pizza

emu-pizza is a Game Boy / Game Boy Color emulator in C: an emulation core under
`src/lib` and an SDL front end, `src/pizza.c`. This directory holds TLA+ models
of the parts of it that keep state which other parts, other threads or another
console depend on, the TLC configurations that check them, and proofs for the
TLA+ proof system. `PROJECT.json` is the index: it names the components, the
runs, for each definition the source lines it models, the hazards and which
properties watch them, the findings and the theorems.

Paths below are relative to `src/lib` unless they start with `pizza.c`.

## 1. Inventory

Three threads, and a fourth when the link cable is used:

| thread | code | touches |
|---|---|---|
| emulator | `gameboy_run` (gameboy.c:161-299) | every device; pushes samples, sends link messages |
| main | pizza.c:163-256 | `global_*` flags, pause, save/restore, network start/stop |
| audio callback | `sound_read_buffer` (sound.c:417-422), called by SDL | the sample ring |
| network | `network_start_thread` (network.c:125-379) | the sockets, `serial_recv_byte`, hard sync |

**Audio ring buffer** (sound.c:417-545, 1440-1472). State: buffer, two indices,
`buf_available`, `buf_empty`, a staging buffer, mutex and condition variable.
Operations: push a stereo pair, move the staging buffer, read a block, `sound_term`.
Hard: three variables describe one fill level and are updated one after the other;
the wake-up tests for equality with a level; the quit works without the mutex.
Correct when count and indices agree, no read takes more than there is, a sleeping
callback is woken, and samples come out in order, the oldest dropped when full.

**Audio save state** (sound.c:1474-1484). Writes and reads the whole structure, ring
included, without the mutex and while the callback is live.

**Serial link** (serial.c, cycles.c:67-81 and 207-241, network.c:381-409). State: SC,
six bit-fields in one byte, the received byte, a second message apart, two
progressive numbers. Operations: send, wait (3 s), verify, receive. Hard: two
threads per console, one of which works without the mutex; two consoles that each
decide alone whether a round is a transfer; a wait that may end without a message; UDP.
Correct when both look at messages of the same round, decide alike, and neither
blocks for good.

**Pause, frame advance, save and quit** (gameboy.c:133-199, 301-414, gpu.c:231-243,
pizza.c:163-253). State: three flags and a semaphore. Hard: a test of a flag followed
by a wait, `usleep` as synchronisation, a thread that pauses itself, waits in the middle of
an instruction. Correct when no wake-up is lost, states are saved while the emulator
rests between two instructions, and a quit ends both threads.

**Network thread life cycle** (network.c:84-379). State: one flag, one thread handle and
two descriptors shared by every thread ever started. Hard: a second start while a
thread lives, which a stop that came too early does not prevent; `select` on one socket
and `recvfrom` on another; errors half-way. Correct when the link does not outlive its thread, sockets are closed,
and `network_stop` returns.

**Peer discovery** (network.c:232-379). State: the peer's uuid and address, the seconds
left to it, a count of silent seconds local to the thread. Operations: a call heard
from a stranger, from the peer, another message, a silent second. Hard: the count starts
behind the value it is compared with for equality; only seconds without any message
count; a new link goes on with the seconds the last one left unless it sets them anew.
Correct when no peer is dropped before it was silent long enough and a dead link is
dropped.

**Clock and scheduler** (cycles.c). State: the counter and, in every device, the count
at which it acts next. `cycles_step` adds 4 and compares each deadline *for equality*.
Hard: any write, speed switch, restore or restart that leaves a deadline behind the
counter, or off the multiples of 4, silences that device for ever.

**Timer** (timer.c), **PPU mode machine** (gpu.c:132-178, 231-243, 837-1178) and
**HBLANK transfer** (cycles.c:322-355). Correct when lines, modes and frames keep step with
time whenever the LCD is switched, the screen's lines are all drawn once in a
frame, and one block is copied in an HBLANK.

**MMU and cartridge controllers** (mmu.c, cartridge.c). State: the bank registers of MBC1, 2, 3
and 5, the RAM in `ram`, in `ram_internal` and in the window at 0xA000, the work RAM in
`wram` and at 0xD000, the clock, three files. Operations: `mmu_write` below 0x8000, at
0xA000, at FF70; loading, leaving, saving, restoring. Hard: the CPU reads
`memory[]` directly, so the bank that shows lives in the window and its place in `ram` is
stale; every switch, disable and save has to know which of the two is true. Correct
when a bank keeps what a game wrote to it through all of these.

**CPU** (z80_gameboy.h, gameboy.c:222-290). State: registers, flags, stack, the interrupt
switch. Operations: 500 opcodes, then the interrupts. Hard: half carries and DAA; the
order of requests, EI, HALT and the game's own writes to IE and IF. Correct when
results and flags are those of arithmetic, a return finds its address, a request is
served once and in turn, and HALT ends.

**Sound channels** (sound.c:163-415, 547-1392). State: a length counter, an envelope, on channel
one a sweep; one frame sequencer; the registers. Operations: eight steps of the sequencer,
each register written, with the extra clocks of length counters. Correct when a channel
that plays has time left and its converter on, and the sweep and envelope stay in range.

**Input** (input.c), **front end drawing** (pizza.c), **logging and utilities** (utils.c),
**build files**: flags, pure I/O and formatting.

How they interact: the emulator thread calls `cycles_step` after every memory access;
that advances the PPU, timer, DMA, channels and, every 16384 cycles in hard sync, one
link round. Main reaches the core through flags, the semaphore, and direct calls
made while it believes the emulator is paused. The network thread calls into
serial.c and starts and stops hard sync. The audio callback meets the emulator only in
the ring.

## 2. Modules

| module | models | runs |
|---|---|---|
| `DropOldestQueue` | what the audio path promises: a bounded FIFO that loses its oldest sample | (refined) |
| `SoundRing` | the ring and its three threads, one step per access to shared state | `sound_ring`, `sound_quit` |
| `SoundSnapshot` | `SoundRing` with save and restore under a live callback | `sound_snapshot` |
| `SoundRingProofs` | theorems about `SoundRing`, its refinement of `DropOldestQueue`, and `SoundSnapshot` | |
| `SerialLink` | two consoles, each with emulator and network thread, and two channels, reliable or not | `link`, `link_race` |
| `SerialLinkProofs` | theorems about `SerialLink` | |
| `PauseControl` | main and emulator on the pause flag and the semaphore | `pause` |
| `PauseControlProofs` | theorems about `PauseControl` | |
| `NetThread` | starts and stops of the network thread, its sockets and the kernel; connecting to a peer and dropping it | `net` |
| `NetThreadProofs` | theorems about `NetThread` | |
| `Clock`, `Timer`, `Ppu` | one component each: its variables and operations | in `Machine` |
| `Machine` | their composition under `cycles_step`, with register writes, DMA, the transfer without a peer, save, restore and restart | `machine`, `machine_restore` |
| `MachineProofs` | theorems about `Machine` | |
| `BankedRam` | what memory behind a bank register promises: each bank keeps its value, a battery keeps it over a restart, a state brings it back | (refined twice) |
| `Rtc` | the clock of an MBC3 as a difference of two host times | in `Mmu` |
| `Mmu` | the cartridge controllers, the work RAM banks and the three files | `mmu` |
| `MmuProofs` | theorems about `Mmu` | |
| `Alu` | the results and flags of the arithmetic, and what they should be | in `Cpu` |
| `Cpu` | one instruction, then the interrupts: program counter, stack, EI, DI, HALT, accumulator | `cpu` |
| `CpuProofs` | theorems about `Cpu` and `Alu` | |
| `Channels` | a sound channel, whichever of the four, under the frame sequencer and register writes | `channels` |
| `ChannelsProofs` | theorems about `Channels` | |
| `MC*` | values for TLC | |

Correspondence. Variables have the source's names where they exist; variables the
code does not have are marked `history` in the module and are read by properties
only. A thread is a program counter whose value names the statement it is about to
execute. In the threaded models a step is one access to shared state, or one critical
section when nothing outside the mutex can see inside it. In `Machine`, which is one
thread, a step is one call of `cycles_step` (every device, in the code's order) or one
register write. `mmu_write` steps the clock before it writes: the variable `access`
keeps the two in that order, one write per step.

Definitions marked "a slip" are not part of a specification: each is a plausible
mistake in the definition after it, and putting it in that definition's place makes the
property named for it in `PROJECT.json` fail.

Abstractions worth knowing:

- `SoundRing`: a sample is a member of a small set; the conversion and mixing before
  a push are left out. Mutex and condition variable are modelled as POSIX gives them,
  spurious wake-ups included. SDL calls the callback from one thread.
- `SerialLink`: a byte is identified by the round its sender sent it in; of SC the clock
  and start bits are kept. A store to a bit-field is a load and a later store of the
  whole byte, wherever the other thread is not excluded. Both consoles start connected;
  a round is a hard sync. The wait for the peer's message may end without it on any network:
  three seconds pass because the peer is paused, slow or gone, or the wake-up is spurious,
  and no loop surrounds it (serial.c:216-230). `unanswered` is history: on a network that loses
  nothing it rises when that happens. Each network is either
  reliable or not (`lossy`, chosen at the start): on one that is not, a message stays in the
  channel when it is read and any message of the channel may be read next, or never, which
  is loss, repetition and reordering in one. `turned` is history: it rises when a message is
  taken so late that a byte's progressive numbers have gone once around since it was sent.
- `NetThread`: `socket()` gives the lowest free descriptor and `bind()` fails when the
  port is held, which is how the two consequences of a shared global show; `socket()` may fail too. A
  call of another console is its uuid; what changes nothing ('M', the own call, another game's) is
  one action that only ends the second. Time passes in seconds, when every thread waits. A thread
  that was told of a message by `select` may find another thread's socket in the global, or the
  message taken, and then waits in `recvfrom` without a timeout. Simplified: a thread waiting on a
  socket that is closed gets nothing from it any more, and `select` with the -1 of a failed `socket()`
  in its set, which is undefined in C and takes two threads, waits for nothing.
  The other console of the link is not there: its calls come at any moment.
- `Mmu`: one value stands for a bank of 8 KB (4 KB). `memory[0xA000..]` is `window`,
  `memory[0xD000..]` is `work`. Each game uses some of the parts (`uses`), so that the state
  space is a sum and not a product. `careful` is history: it falls when the game meets one of
  the cases in which the code is not the hardware, and `RamSurvives` speaks of the time
  before. Those cases, all kept as the code has them: an MBC3 switches banks while the RAM is
  disabled, and puts back what is not the bank (mmu.c:945); an MBC5 forgets such a switch
  (1076); the motor's bit of a rumble cartridge is masked in the test and not in the bank
  (1060, 1087); an 8 KB MBC3 RAM is saved from the window whether it shows the bank or not
  and comes back in the window only (386, 460); the file of an MBC1 has the
  selected bank at its head (476); a clock register written on a classic console goes to
  the RAM (643); the state of an MBC2 is written from a NULL pointer (508). Saving a file is one
  step: that `fopen(..., "w+")` empties the old one first, so that a program killed before the
  `fwrite` loses it (436-502), is outside. `expects` is history as well: what each register of the clock was
  set to, or showed, in the second it is set in.
- `Cpu`: the program is any sequence of instructions; code is a few addresses, and the
  stack moves in a few words and their mirror. `Alu` computes with full bytes and is checked with
  all of them: the accumulator and flags take every value the operations reach.
- `Channels`: one channel is followed, with the number of the channel chosen at the start,
  because the four meet only in the sequencer and the power switch. Volumes are counted in steps
  of 0x111. Kept as in the code: no volume reaches 15 by the envelope (sound.c:657), that of
  channel four none either and never falls to 0. `LD (nn),SP` stores its two bytes without
  `sound_write_reg` (mmu.c:1303-1306), so that a game could change a register behind the channel's
  back with it; that is not modelled.
- `PauseControl`: the state of the modules is not there; a save or restore is the moment
  at which the transfer takes place. An instruction, with the interrupt it may be followed by, is one
  step unless its cycles reach the end of a frame or the hard sync: both happen inside `cycles_step`, and what is left of
  the instruction runs after them. `did` and `waited` are history: which of the two the instruction has
  met, and whether it came out of a wait since `global_pause` was written. `gameboy_stop` is included although pizza.c does not
  call it: it is the core's interface for another front end.
- `Machine`: a line is drawn or not; DMA and HDMA copies are their deadlines and block
  counts; interrupt flags are "raised by the last step". A Color Game Boy is assumed for
  HDMA and the speed switch. Games do not write LY (FF44), which the code would take
  as a plain store. The channels' deadlines are not here. Behaviours of the code that
  differ from the hardware are kept as they are: a stopped timer counts on
  (cycles.c:278-295), no mode-2 notification on the way from VBLANK to line 0
  (gpu.c:972-996), the speed switch that only ever leads to double speed
  (mmu.c:1179-1181), `hdma_current_line` surviving its transfer.

## 3. Runs

Passing runs:

- `sound_ring` (with refinement). In every interleaving of pushes, reads, spurious
  wake-ups and both kinds of quit: `CountAgrees` (fill level and indices, also in the
  middle of a read), `ReadIsCovered` (the unsigned subtraction never wraps),
  `WakeStillAhead` (a sleeper's wake level is still to be crossed), and
  `RingImplementsQueue`: the ring implements `DropOldestQueue` under the mapping that
  reads the samples waiting from buffer, read index and count. Bounds: SOUND_SAMPLES = 2
  in place of 4096 gives a buffer of 6, a wake level of 4, reads of 2; the proportions
  are those of sound.h, so wrap-around, overflow, a block that ends at the end of the
  buffer and the level crossing all occur. The staging buffer holds one pair, so
  every interleaving point between two pairs is reached. No other bound: the state
  space is finite. For arbitrary sizes see the theorems.
- `sound_snapshot`. The callback is not paused, so a save or restore may hit it anywhere.
  `QuietStatesAreSound` and `QuietSleeperIsServed` say when that is harmless:
  no callback inside its critical section at the save, none running (or a sleeper that was
  asleep in the saved state) at the restore. After a restore the producer is taken to go on: a game
  left paused pushes nothing, and its callback sleeps until it is resumed. Bounds: one save, one restore; a sample has
  one value, as only counts and indices matter.
- `link`. On a network that loses nothing: `SameRound`, `BothOrNeither`, the first half of `OutOfStepEnds`
  and, under fairness, `RoundsComplete`. They hold until a message arrives between the test and the end
  of `serial_verify_intr` (`raced`; what happens then is the finding of `link_race`) or a wait of one of the two ends
  without its message (`unanswered`: a timeout or a spurious wake-up, from where on a late message is taken for
  the next round's). Whatever the network loses, repeats or reorders and whenever waits end:
  `AheadByOneOrQuit`, the code's own test that ends a game whose peer is more than one round behind, until
  `turned`: the numbers are a byte, and a message 256 rounds old passes for a new one. (The claim
  without that condition holds in the bounds of the run and not beyond them, which came to light when it
  was to be proved; it also needs numbers modulo more than 2.)
  Bounds: 3 rounds on the network that loses nothing, so that a peer one round ahead and a filled and
  emptied second place occur, no more than 2 once a wait ended without a message (`Overdue`), for what
  holds from there on needs no third; progressive numbers modulo 5 from 3, so that they wrap inside the
  run. 2 rounds and no register writes on the other: enough for the forbidden difference of 2,
  which is what `OutOfStepLoose` lets through. Otherwise A's game starts transfers with its own clock and
  B's with the other's.
  Nothing resets the progressive numbers when a peer connects, so a console and a peer that was
  started anew may begin with different ones, as they do here with 3 and 0 modulo 5.
  `OutOfStepEnds`, second half: two or more apart, both games end with their second round at the latest,
  on any network. One apart may go undetected, as the test allows a peer that is ahead by one; of that
  the run says nothing.
- `pause`. `WakePending` (no lost wake-up between the test of `global_pause` and `sem_wait`),
  `SnapshotAtRestUnlessBlocked` (what the 100 ms sleep does and does not buy: a state is saved between two
  instructions, unless the emulator is blocked on the link, asleep in a frame advance, or has come out of one of these
  since the pause was set; both waits return into the middle of an instruction, cycles.c:224 and
  gpu.c:240), and the liveness of quitting. Bound: 5 keys, linked to a peer; two toggles, a
  frame advance, a snapshot and a quit fit in one run.
- `net`. `LinkIsServed` whatever the order of keys; `ServerHears`, `CleanWithoutOverlap` and
  `StopReturns` until a start meets a living thread. (That is not the same as keys that alternate: key 0 before
  the thread has set `network_running`, network.c:227, is taken for "already stopped" at 115, so that the keys 9, 0, 9
  leave two threads.) `CallsOnlyWhenCalled`, which says that the
  broadcast of network.c:251-262 is never sent (a console that only listens is never found by
  another that only listens). `DroppedForSilence`: no peer is dropped before it has been silent for the time allowed,
  and a link over which nothing arrives for that time is dropped. Between the two lies what the code does
  with a silent peer while others send: `network_timeout` goes down only in whole seconds without any message (242-281),
  so that a peer can stay linked as long as anybody's calls, or its own 'M' messages, which do
  not refresh it, come more often than that. Bounds: 3 starts, so that a stop between starts and two overlapping
  threads both occur; two peers, so that a call is not the peer's; a silence of 3 seconds
  for 10, so that it is interrupted at each count and begins again after a reconnection. For
  any numbers of the three see the theorems.
- `machine`. `DeadlinesAhead`, `TimerAhead`, `ModeOfLine`, `LineOfTime`, `OneBlockPerLine` and
  the step property `FrameComplete`. Bounds: periods are shortened (line 12 cycles instead of
  456, 3 of 5 lines visible, divider 24, timer 4 and 12, pauses 8 and 16, transfers 8 and 20),
  MaxCnt = 100 takes the picture past the end of its second frame (a frame is 60 cycles, VBLANK
  begins at 36 and 96), MaxWrites = 2 register writes or speed keys, one save, one restart and
  one restore, each at any moment up to LastEvent = 52, which is inside the last line of the first
  frame; after that only time passes, so that what they left behind shows. The periods stay multiples of 4, the code's own
  condition, and are chosen to coincide at some counts and not at others. That no property
  depends on the values is what the theorems show.

- `mmu`. `RamSurvives` and `WorkRamSurvives` (refinements of `BankedRam`), `RightRomBank` (but
  for the cases its comment names: the number of banks itself passes the filter `b > (2 << roms)`,
  an MBC1 with low register 0 or with the
  256 banks its header may claim, an unfiltered MBC2, and the types 0x11 and 0x12, MBC3 to
  `cartridge_load` and in no case of `mmu_write`; the first of these is not what the comment at
  mmu.c:808 says, "a value < max rom number") and `ReadsWhatItSet`: what `mmu_read` gives for the
  clock's registers (268-286) after a latch in the second in which the game set some of them, the program left and
  started again in between or not. (Not for the hours, where
  mmu.c:706 takes 60 * 24 seconds for an hour, for times whose parts borrow, and past 512 days,
  where mmu.c:725-726 keeps the bits of the day above the ninth.)
  Bounds: 44 games over every controller, with RAMs of 0, 1 and 2 banks (4 to 16 in the code; for those see the
  theorem) and ROMs of 2 to 64, two values, minutes of 2 seconds and days of 2 hours so that every
  carry and borrow occurs within a few seconds of host time.
- `cpu`. `StackIsKept`, `ArithmeticIsRight`, `DecimalIsRight`, `ServedInTurn`, and under fairness
  `HaltEnds`. Bounds: 1 to 4 addresses of code, 1 to 3 words of stack and their mirror, three of the
  five requests at most in a program. The accumulator takes all 256 values with the flags that lead
  there; the arithmetic is compared for every second byte (16 bits: for the five of
  `Operands`), decimal numbers for all pairs.
- `channels`. `PlaysWithReason`, `StaysInRange`, `EnvelopeInTime` and `LengthRunsOut` under
  fairness of the sequencer. Bounds: lengths up to 2 (64 in the code), frequencies up to 3 (2047), volumes
  up to 3 (15), an envelope counter of two bits (eight): each limit is met from both sides,
  and each order of writes, triggers and the eight steps of the sequencer.

Runs that find a disagreement between code and what it says (`findings`):

- `sound_quit`: "unlock threads stuck during reading" (gameboy.c:312). `sound_term` tests and
  clears `buf_empty` and signals without the mutex; a callback that raised the flag and passed its test of
  `global_quit` before the quit, and has not reached its wait yet, gets no signal and sleeps for ever.
- `link_race`: a message that comes before the first was handled should be stored and handled
  later (serial.c:40, 163). `serial_verify_intr` clears `data_recv` before it looks at the
  message; the peer's next one, arriving in between, is stored over it. In the run message 1 is
  never handled, message 2 is handled in both rounds, and the two are in step from then on.
- `machine_restore`: "dump every module" (gameboy.c:356, 390). The timer is in no state file;
  a state of an earlier session leaves DIV, and a running TIMA, without a deadline that
  will ever be met.

Two more, seen while modelling, have no run of their own. In a paused game key Q ("Exit",
README.md:36) sets `global_quit` (pizza.c:196) and nothing posts the semaphore the emulator waits for,
so main joins it for ever; `RunningQuitEnds` therefore speaks of a game that runs. After two starts
a thread may raise `network_running` again (network.c:227) after `network_stop` has lowered it, and
"wait for it to exit" (network.c:121) does not end; `StopReturns` therefore speaks of the time until a start
meets a living thread.

`CHECK_DEADLOCK FALSE` stands where the program or the run really ends: key, start, round
and cycle bounds are reached, or the threads have exited. `SoundRing.cfg` keeps the
deadlock check: something can always happen there, as reads go on after the quit.

## 4. Fairness

- Threads run: weak fairness on the disjunction of a thread's steps. Nothing is
  assumed of users (keys, quit), of the network (loss), of timeouts, or of spurious
  wake-ups.
- `SoundRing`: strong fairness on taking the mutex, for the emulator and for the callback.
  Each holds it for the length of a copy, and the two are paced by the sound card
  and by the emulated clock, so whoever keeps asking gets it. It is used by
  `QuitFreesReader`, whose counterexample it makes stronger, and by
  `QuietSleeperIsServed`.
- `SerialLink`: weak fairness of each emulator and each network thread suffices; the
  mutex is only ever held across two steps of the network thread. Messages on a loss-free
  link arrive. Timeouts and spurious wake-ups may come or not.
- `NetThread`: time passes (`Tick`), and every system call of the thread but `recvfrom` returns, `select`
  after a second at the latest, so weak fairness on each thread's own steps; none on messages.
- `Cpu`: weak fairness of `Execute` and `Check`, the two halves of the emulator's loop. Requests
  and what the program does are free.
- `Channels`: weak fairness of the sequencer's step, which `cycles_step` comes to as long as
  the emulator runs. `LengthRunsOut` speaks of a game that has stopped writing.
- `Machine` and `Mmu` need none: they have safety properties only.

## 5. Proofs

All proofs are checked by TLAPS with SMT, Zenon and, for the temporal steps, LS4. The only
assumptions are the named `ASSUME`s on constants, which TLC evaluates in the runs:

- `SoundAssumption`: 0 < ToRead <= WakeLevel < BufSz, an even staging buffer, and a counter wide
  enough for one block more than the buffer (4096, 8192, 12288 and 2^64 in the code).
- `LinkAssumption`: two consoles; progressive numbers modulo more than 2 (256 in the code).
- `NetAssumption`: at least one second of silence and one start.
- `ChannelsAssumption`: what a game writes fits its register; some period is not 0.
- `RtcAssumption`: a minute and an hour, and a day, have 1 to 256 parts, so that a part fits the byte it
  is read as (60 and 24 in the code).
- `MmuAssumption`: types, ROM and RAM sizes a header can have, with at least 2 banks of 8 KB in the
  RAMs said to have several; written values are bytes.
- `CpuAssumption`: a program has code and a stack; the second operands are bytes.
- `PauseAssumption`: the keys are among those modelled.
- `ClockAssumption`, `TimerAssumption`, `PpuAssumption`, `MachineAssumption`: every period is a
  positive multiple of 4 (`Period`), a line is the sum of its three modes, the screen is
  between 2 lines and fewer than all, written values fit their registers.

`SoundRingProofs`. The four invariants of the ring for every size, until the quit. `CountAgrees`
is not inductive alone: a reader between its copy and its count owes a block, and whether a
copy is covered depends on how it got past the loop. `IInv` adds `Control` (who holds the mutex
at which statement, how full the staging buffer is there) and `Flag` (a reader in its loop with
`buf_empty` down and no quit has enough samples, because only the push that crosses the wake
level lowers it); WakeLevel >= ToRead is what closes the argument.

`PauseControlProofs`. `WakePending` and `SnapshotAtRestUnlessBlocked` for any number of keys. `IInv`
adds `StepOfCall` (the place inside `gameboy_set_pause` fits the call), `PausedFirst` (a
transfer in main's list is preceded by a pause) and `PauseHolds` (when main reaches a transfer, the
emulator is at rest, or `waited` has risen since the pause was set and falls only when the instruction ends, whence
it goes to the pause).

`MachineProofs`. `DeadlinesAhead`, `TimerAhead`, `ModeOfLine` and `OneBlockPerLine` for all lengths
of periods. `IInv` is a conjunction with one part per component (`OnGrid`, `ClockOk`, `TimerOk`,
`PictureOk`, `HdmaOk`, `SerialOk`) and `SavedOk`, which asks the same of the state file at the
file's own count; without it a restore could bring back anything. Two facts were not
obvious: an LCD that is off must have its deadline *off* the grid of 4 (`gpu_toggle`
sets it to cnt - 1), or a later count would meet it and start the modes of a dark screen; and
`OneBlockPerLine` needs `served => hdma_line = ly`, the reason why the code remembers the line.

`MachineProofs`, second part. `FrameComplete` and `LineOfTime`. Neither needs a sum over the lines of a
frame, because what has been done so far is known from where the picture is. `FrameInv`: the lines
drawn are those up to the present one, which is drawn when mode 3 ends (`DrawnBy`), in
the state file as well. `TimeInv`: for some number k of frames, the mode under way ends at
on_at + (k * Lines + ly) * Line plus the place of its end in the line (`OnSchedule`), at the speed of
the CPU; when a mode ends, either ly or k grows by one. The witness k is what makes the division by the length
of a line meet its quotient (`WholeAndRest`). Speeds that change after the LCD was turned on are outside
`LineOfTime`, and a restore brings the schedule of its file.

`NetThreadProofs`. All four invariants and the step property of `NetThread`, for any number of
starts, peers and seconds. `IInv` adds `Alone` (one thread lives until a start meets a living
one), `Stages` (which sockets are open at which of its statements, and which it selects),
`Clean` (none when nobody lives), `NeverThird` (the count of silent seconds rests at 4, past the
3 it is compared with) and `Left` (the seconds taken from the peer are at most those it has been
silent for and at least those in which nothing at all arrived; hence it is dropped not before
the one and not after the other).

`MmuProofs`. `WorkRamSurvives` and `RamSurvives`: for every cartridge, RAM size and value, the windows,
copies and files of mmu.c implement `BankedRam`. The work RAM needs types only. `RamType` adds for
the cartridge's RAM what holds while `careful` does: the bank in the window is the one
selected and it exists (`InStep`), also in a saved state. Two facts carry the files:
`SavedHolds` (what is written on leaving is what the game finds in the banks) and `LoadShows` (a new
process finds what the file holds); both go by the number of banks and by whether the
controller can hide its RAM, and need that a battery-backed MBC5 never has exactly one bank.

`SoundRingProofs`, second part. `RingIsQueue`: each step of the ring is a step of `DropOldestQueue` or a
stutter, for every size, until the quit. The mapping reads the samples that wait off the buffer from `buf_rd` on,
less what a reader between its copy and its count already owes; the proof compares that sequence before and
after a step, element by element. `QuietRestoresAreSound`: what a state file holds is a ring for which
`IInv` could hold (`SavedSound`), so a restore that met no callback in the middle of its work establishes
`IInv` again. That a callback which sleeps at the restore is still served is liveness and stays with TLC.

`SerialLinkProofs`. The four invariants of the link, for any number of rounds and any modulus, in layers, each
used by the next. `Wire`: which round and number each message on its way carries, on either network.
`Ahead`: from the numbers alone, how far one console can be ahead (`AheadByOneOrQuit`). `Waits`
and `FarInv`: consoles whose numbers lie far apart see it in the first message they compare
(`OutOfStepEnds`). `Place`: where each of the peer's messages is, on its way, in the received
byte or in the second place, on a network that loses nothing and until a message arrives during a verify or a
wait ends without one; this is what `SameRound` needs. `Told`: both consoles saw one and the same pair of SC values in a
round, whence `BothOrNeither`; the witness is the history of what each said, given as a function
of the round.

`ChannelsProofs`. The three invariants of the channels, for all lengths, frequencies, volumes and periods. `IInv`
is their conjunction with types and `SweepOnOne`. Each of the three is inductive only with the others: a trigger
reloads what the next step of the sequencer tests, and the sweep's test for `sweep_next` is met because
the counter restarts wherever the period changes.

`MmuProofs`, second part. `RomBankIsRight`: for every ROM size from 2 to 256 banks and any order of writes.
`RomFits` says what the registers a game wrote last say of the bank that shows. Up to 32 banks the
high register of an MBC1 counts for nothing; from 64 on each register leaves the bits of the
other alone; the filter `b > (2 << roms)` is the remainder but for the number of banks itself.
The attempt found two exceptions the bounds of the run had left out: an MBC1 whose header claims 256
banks, and the two types of MBC3 that `mmu_write` does not know.

`MmuProofs`, third part. `RegistersRead`: every time is a `Time(d, h, m, s)` with one quadruple (`HasParts`,
`PartsOfTime`, `ShowsTime`), for any lengths. `SetsOne` computes with these what mmu.c:657-736 does to the
difference of two of them: only one part of it changes. `ClockInv` says that what the game may expect is what
the clock shows, which a write keeps (`ShowsFollowed`) and a restart finds again in the .rtc file; and it is needed because the
difference of two host times is only positive if no state file, .rtc file or write ever moves the zero of the clock into a
later day than the present one (`AdjustedKeeps`). The attempt found that days which do not fit nine bits must be
excluded (`NoOverflow`), which the bounds of the run never reach.

`CpuProofs`. `ServedInTurn` needs types only. `StackIsKept` follows from a `StackInv` that says where the
words on the stack are (none meets another, modulo the mirror, because there are at most as many as words);
`ArithmeticIsRight` and `DecimalIsRight` hold for every byte and flag, where the run looks at those the
operations reach. Their lemmas are about `Alu` alone. A byte is taken apart into two digits, from which the bit
4 of a ^ b ^ r is the carry out of the lower digits (`HalfCarry`, `HalfBorrow`; `WideHalfCarry` with twelve bits);
RL and RR, and RLC and RRC, undo each other; for DAA the two digits D and e of a decimal sum or difference
are followed through both corrections (`AddedUp`, `TakenAway`). `AluInv`, that the accumulator is a byte
and each flag 0 or 1, is inductive.

Listed under `theorems` in `PROJECT.json`: type correctness of five
specifications (`Typing`, proved and in no run) and one statement for each property above. The lemmas
they rest on stand before them in the same modules.

Model-checked only:

- all liveness (`RunningQuitEnds`, `StopEnds`, `RoundsComplete`, `StopReturns`,
  `QuietSleeperIsServed`, `HaltEnds`, `LengthRunsOut`): liveness under fairness is outside what these provers do.

Every other property of a passing run is a theorem.

## 6. Not modelled, and why

- The drawing of lines, sprites, windows and palettes: pixel data, no control.
- Which registers an opcode names and what it moves between them: a `Plain` or `Move` step goes on to
  the next instruction, and the arithmetic is followed in the accumulator only. The order of the
  eight bits of F in memory and the table `zc` are built into `Alu`'s records.
- The waveforms of the four channels, their deadlines and the mixing; reading sound
  registers back; the wave RAM. Samples enter `SoundRing` as given.
- The video RAM bank (FF4F), RAMs of 2 KB, cheats, the copy of an object DMA, parsing of the
  cartridge's header, the two palettes of the colour console: stores without a
  second place that could disagree.
- Two consoles that discover each other and go on to exchange bytes: `NetThread` follows one
  console and `SerialLink` starts connected, from numbers earlier connections may have left.
- Input: eight flags, written by main and read by the emulator; no interrupt is raised.
- Logging, utilities, SDL set-up and the build files: formatting and I/O.
- A state file that ends early: `fread`'s results are not looked at (gameboy.c:337-363), so the modules
  after the cut stay as they were. The repository promises nothing else, so there is no property
  to state; the restores are modelled for a whole file.

## 7. Plan

Done, in order of importance: the audio ring and its refinement; pause and quit; the link, with
loss, repetition and reordering; the network thread and discovery; the machine under one clock; the
memory controllers and their refinement; the CPU's loop and arithmetic; the sound channels. Proofs for
each of them.

Next models: the connection of two consoles (`NetThread` twice, then `SerialLink`'s rounds); the
requests of `Timer` and `Ppu` in place of `Cpu`'s free ones. Properties of a component are exchanged
for deeper ones when these come.

Next theorems: an abstract specification of the link, in which a round is one exchange of two bytes, and
`SerialLink` shown to implement it on a reliable network; the requests of the devices served in turn.
