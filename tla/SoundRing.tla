------------------------------ MODULE SoundRing ------------------------------
(***************************************************************************)
(* The circular sample buffer of lib/sound.c and the three threads that    *)
(* meet on it:                                                             *)
(*                                                                         *)
(*   "emu"    gameboy_run: pushes stereo samples, ends with sound_term;    *)
(*   "audio"  the SDL audio callback: sound_read_samples;                  *)
(*   "main"   sets global_quit (key Q), or calls gameboy_stop, which sets  *)
(*            it and then calls sound_term itself.                         *)
(*                                                                         *)
(* sound_mutex is the thread that holds it or "free"; the condition        *)
(* variable sound_cond has at most one waiter, the audio thread, which is  *)
(* asleep when its pc is "asleep".  The pc names the statement a thread is *)
(* about to execute; a step is one access to the shared state.             *)
(***************************************************************************)
EXTENDS Integers, Sequences

CONSTANTS Sample,        \* the values a sample may have
          Silence,       \* the value bzero leaves in the buffer
          BufSz,         \* SOUND_BUF_SZ
          TmpSz,         \* SOUND_BUF_TMP_SZ
          WakeLevel,     \* SOUND_SAMPLES * 2
          ToRead,        \* samples one callback asks for
          CountMod       \* 2^width of buf_available, which is unsigned

\* 12288, 2048, 8192 and 4096 in the code; only the order of them matters.
ASSUME SoundAssumption ==
  /\ Silence \in Sample
  /\ BufSz \in Nat /\ TmpSz \in Nat /\ WakeLevel \in Nat /\ ToRead \in Nat
  /\ CountMod \in Nat
  /\ 0 < ToRead /\ ToRead <= WakeLevel /\ WakeLevel < BufSz
  /\ 2 <= TmpSz /\ TmpSz % 2 = 0
  /\ BufSz + ToRead < CountMod

VARIABLES
  buf, buf_rd, buf_wr, buf_available,
  buf_empty,      \* the audio thread waits, or is about to, for samples
  buf_tmp,        \* the samples pushed but not yet moved to buf
  moved,          \* i: how many of buf_tmp the loop of push_samples has moved
  global_quit,
  sound_mutex,
  stream,         \* the block the callback last gave to the sound card
  pc

ring == <<buf, buf_rd, buf_wr, buf_available>>
tmp  == <<buf_tmp, moved>>
vars == <<ring, buf_empty, tmp, global_quit, sound_mutex, stream, pc>>

Slot   == 0 .. BufSz - 1
Thread == {"emu", "audio", "main"}

TermPC  == {"term", "clear", "signal", "done"}
EmuPC   == {"poll", "sample", "lock", "move"} \cup TermPC
AudioPC == {"idle", "check", "test", "loop", "wait",
            "asleep", "woken", "copy", "count"}
MainPC  == {"run"} \cup TermPC

\* Unsigned arithmetic on buf_available, for results less than one turn away.
Wrap(n) == IF n < 0 THEN n + CountMod
           ELSE IF n >= CountMod THEN n - CountMod ELSE n

\* The index after i.
After(i) == IF i + 1 = BufSz THEN 0 ELSE i + 1

\* (a slip: the signal is forgotten)
SignalForgotten(p) == p

\* pthread_cond_signal: it wakes the sleeper, if any.
Signalled(p) == IF p["audio"] = "asleep" THEN [p EXCEPT !["audio"] = "woken"]
                ELSE p

Goto(t, from, to) == pc[t] = from /\ pc' = [pc EXCEPT ![t] = to]

Lock(t)   == sound_mutex = "free" /\ sound_mutex' = t
Unlock(t) == sound_mutex = t /\ sound_mutex' = "free"

Init ==
  /\ buf = [i \in Slot |-> Silence]
  /\ buf_rd = 0 /\ buf_wr = 0 /\ buf_available = 0
  /\ buf_empty = FALSE
  /\ buf_tmp = <<>> /\ moved = 0
  /\ global_quit = FALSE
  /\ sound_mutex = "free"
  /\ stream = <<>>
  /\ pc = [t \in Thread |-> CASE t = "emu"   -> "poll"
                             [] t = "audio" -> "idle"
                             [] t = "main"  -> "run"]

-----------------------------------------------------------------------------
(* The emulator thread.                                                    *)

\* The head of gameboy_run's loop: run one more instruction, or leave.
EmuPoll ==
  /\ Goto("emu", "poll", IF global_quit THEN "term" ELSE "sample")
  /\ UNCHANGED <<ring, buf_empty, tmp, global_quit, sound_mutex, stream>>

\* sound_push_samples: store the pair; a full buf_tmp is moved to buf.
PushSamples(l, r) ==
  /\ buf_tmp' = buf_tmp \o <<l, r>>
  /\ Goto("emu", "sample", IF Len(buf_tmp') = TmpSz THEN "lock" ELSE "poll")
  /\ UNCHANGED <<ring, buf_empty, moved, global_quit, sound_mutex, stream>>

EmuLock ==
  /\ Goto("emu", "lock", "move")
  /\ Lock("emu")
  /\ UNCHANGED <<ring, buf_empty, tmp, global_quit, stream>>

\* (slips: one too late)
FullLate(n)   == n > BufSz
EnoughLate(n) == n = WakeLevel + 1

\* The two levels sound_push_sample tests for, both for equality.
Full(n)   == n = BufSz
Enough(n) == n = WakeLevel

\* sound_push_sample: write, count, wake the reader at the wake level, and
\* discard the oldest sample when the buffer is full.
PushSample ==
  LET filled == Wrap(buf_available + 1)
      wake   == buf_empty /\ Enough(filled)
      full   == Full(filled)
  IN /\ pc["emu"] = "move"
     /\ moved < TmpSz
     /\ moved' = moved + 1
     /\ buf' = [buf EXCEPT ![buf_wr] = buf_tmp[moved + 1]]
     /\ buf_wr' = After(buf_wr)
     /\ buf_empty' = IF wake THEN FALSE ELSE buf_empty
     /\ pc' = IF wake THEN Signalled(pc) ELSE pc
     /\ buf_available' = IF full THEN Wrap(filled - 1) ELSE filled
     /\ buf_rd' = IF full THEN After(buf_rd) ELSE buf_rd
     /\ UNCHANGED <<buf_tmp, global_quit, sound_mutex, stream>>

EmuUnlock ==
  /\ moved = TmpSz
  /\ Goto("emu", "move", "poll")
  /\ Unlock("emu")
  /\ buf_tmp' = <<>> /\ moved' = 0
  /\ UNCHANGED <<ring, buf_empty, global_quit, stream>>

-----------------------------------------------------------------------------
(* The audio thread: sound_read_samples.                                   *)

ReadLock ==
  /\ Goto("audio", "idle", "check")
  /\ Lock("audio")
  /\ UNCHANGED <<ring, buf_empty, tmp, global_quit, stream>>

\* "am i shutting down? exit"
ReadCheck ==
  /\ IF global_quit
       THEN Goto("audio", "check", "idle") /\ Unlock("audio")
       ELSE Goto("audio", "check", "test") /\ UNCHANGED sound_mutex
  /\ UNCHANGED <<ring, buf_empty, tmp, global_quit, stream>>

\* "not enough samples?"
ReadTest ==
  LET short == buf_available < ToRead
  IN /\ Goto("audio", "test", IF short THEN "loop" ELSE "copy")
     /\ buf_empty' = IF short THEN TRUE ELSE buf_empty
     /\ UNCHANGED <<ring, tmp, global_quit, sound_mutex, stream>>

\* The condition of the while loop around pthread_cond_wait.
ReadLoop ==
  /\ Goto("audio", "loop",
          IF buf_empty /\ ~global_quit THEN "wait" ELSE "copy")
  /\ UNCHANGED <<ring, buf_empty, tmp, global_quit, sound_mutex, stream>>

\* pthread_cond_wait: release the mutex and sleep in one step; wake when
\* signalled, or for no reason; take the mutex again before it returns.
ReadWait ==
  /\ Goto("audio", "wait", "asleep")
  /\ Unlock("audio")
  /\ UNCHANGED <<ring, buf_empty, tmp, global_quit, stream>>

SpuriousWake ==
  /\ Goto("audio", "asleep", "woken")
  /\ UNCHANGED <<ring, buf_empty, tmp, global_quit, sound_mutex, stream>>


\* (a slip: an if for the while around the wait)
ReadWokenOnce ==
  /\ Goto("audio", "woken", "copy")
  /\ Lock("audio")
  /\ UNCHANGED <<ring, buf_empty, tmp, global_quit, stream>>

ReadWoken ==
  /\ Goto("audio", "woken", "loop")
  /\ Lock("audio")
  /\ UNCHANGED <<ring, buf_empty, tmp, global_quit, stream>>

Overlaps    == buf_rd + ToRead >= BufSz
first_block == BufSz - buf_rd

\* (a slip: the second phase starts one sample late)
CopiedLate(k) == IF Overlaps /\ k > first_block THEN buf[k - first_block]
                                               ELSE buf[buf_rd + k - 1]

\* Where the k-th sample of the block comes from: the copy has two phases when
\* the block reaches the end of the buffer.
Copied(k) == IF Overlaps /\ k > first_block THEN buf[k - first_block - 1]
                                           ELSE buf[buf_rd + k - 1]

ReadCopy ==
  /\ Goto("audio", "copy", "count")
  /\ stream' = [k \in 1 .. ToRead |-> Copied(k)]
  /\ buf_rd' = IF Overlaps THEN ToRead - first_block ELSE buf_rd + ToRead
  /\ UNCHANGED <<buf, buf_wr, buf_available, buf_empty, tmp, global_quit,
                 sound_mutex>>

\* "update avaiable samples" and unlock.
ReadCount ==
  /\ Goto("audio", "count", "idle")
  /\ buf_available' = Wrap(buf_available - ToRead)
  /\ Unlock("audio")
  /\ UNCHANGED <<buf, buf_rd, buf_wr, buf_empty, tmp, global_quit, stream>>

-----------------------------------------------------------------------------
(* Quitting.                                                               *)

\* Key Q or SDL_QUIT only set the flag; gameboy_stop goes on to sound_term.
MainQuit ==
  /\ \E next \in {"done", "term"} : Goto("main", "run", next)
  /\ global_quit' = TRUE
  /\ UNCHANGED <<ring, buf_empty, tmp, sound_mutex, stream>>

\* sound_term, without the mutex: test the flag, clear it, signal.
TermTest(t) ==
  /\ Goto(t, "term", IF buf_empty THEN "clear" ELSE "done")
  /\ UNCHANGED <<ring, buf_empty, tmp, global_quit, sound_mutex, stream>>

TermClear(t) ==
  /\ Goto(t, "clear", "signal")
  /\ buf_empty' = FALSE
  /\ UNCHANGED <<ring, tmp, global_quit, sound_mutex, stream>>

TermSignal(t) ==
  /\ pc[t] = "signal"
  /\ pc' = Signalled([pc EXCEPT ![t] = "done"])
  /\ UNCHANGED <<ring, buf_empty, tmp, global_quit, sound_mutex, stream>>

-----------------------------------------------------------------------------

Push      == \E l, r \in Sample : PushSamples(l, r)
Emulate   == EmuPoll \/ Push \/ EmuLock \/ PushSample \/ EmuUnlock
Read      == \/ ReadLock \/ ReadCheck \/ ReadTest \/ ReadLoop \/ ReadWait
             \/ ReadWoken \/ ReadCopy \/ ReadCount
Term(t)   == TermTest(t) \/ TermClear(t) \/ TermSignal(t)

Next == \/ Emulate
        \/ Read
        \/ SpuriousWake
        \/ MainQuit
        \/ \E t \in {"emu", "main"} : Term(t)

Spec == Init /\ [][Next]_vars

\* Threads that can run do run; the mutex is held for the time of a copy and
\* the callback is paced by the sound card, so it is won by whoever keeps
\* asking (strong fairness on the lock steps).  Nothing makes a user quit, and
\* nothing makes a condition variable wake for no reason.
Fairness ==
  /\ WF_vars(Emulate) /\ SF_vars(EmuLock)
  /\ WF_vars(Read)    /\ SF_vars(ReadLock) /\ SF_vars(ReadWoken)
  /\ \A t \in {"emu", "main"} : WF_vars(Term(t))

FairSpec == Spec /\ Fairness

-----------------------------------------------------------------------------
(* Properties.                                                             *)

\* Every variable keeps its type: in particular both indices stay inside buf
\* whatever the order of pushes, reads and quitting.
TypeOK ==
  /\ buf \in [Slot -> Sample]
  /\ buf_rd \in Slot /\ buf_wr \in Slot
  /\ buf_available \in 0 .. CountMod - 1
  /\ buf_empty \in BOOLEAN
  /\ buf_tmp \in Seq(Sample)
  /\ Len(buf_tmp) <= TmpSz
  /\ moved \in 0 .. TmpSz
  /\ global_quit \in BOOLEAN
  /\ sound_mutex \in {"free", "emu", "audio"}
  /\ stream \in Seq(Sample)
  /\ pc \in [Thread -> EmuPC \cup AudioPC \cup MainPC]
  /\ pc["emu"] \in EmuPC /\ pc["audio"] \in AudioPC /\ pc["main"] \in MainPC

\* Samples a reader has copied but not yet taken off buf_available.
Owed == IF pc["audio"] = "count" THEN ToRead ELSE 0

\* Until the quit, the count agrees with the two indices in every state, also
\* between the two halves of a read and while samples are being moved, and
\* the buffer never holds more than BufSz - 1 samples (sound_push_sample and
\* sound_read_samples update the three separately).
CountAgrees ==
  ~global_quit =>
    /\ buf_available - Owed \in 0 .. BufSz - 1
    /\ \/ buf_wr = buf_rd + (buf_available - Owed)
       \/ buf_wr + BufSz = buf_rd + (buf_available - Owed)

\* Until the quit, the callback never copies more samples than there are: the
\* subtraction of sound_read_samples cannot wrap.
ReadIsCovered ==
  (pc["audio"] \in {"copy", "count"} /\ ~global_quit)
     => buf_available >= ToRead

\* Until the quit, a sleeping callback has its flag up and the wake level is
\* still ahead: the test for equality in sound_push_sample cannot be missed.
WakeStillAhead ==
  (pc["audio"] \in {"wait", "asleep"} /\ ~global_quit)
     => buf_empty /\ buf_available < WakeLevel

\* The samples waiting to be played, oldest first.
Waiting ==
  IF global_quit THEN <<>>
  ELSE [k \in 1 .. buf_available - Owed |->
          buf[IF buf_rd + k - 1 >= BufSz THEN buf_rd + k - 1 - BufSz
              ELSE buf_rd + k - 1]]

\* The ring buffer implements the queue that drops its oldest sample: no
\* sample is played twice, out of order, or skipped while there is room.
DOQ == INSTANCE DropOldestQueue
         WITH Capacity <- BufSz - 1, Block <- ToRead,
              queue <- Waiting, block <- stream, stopped <- global_quit
RingImplementsQueue == DOQ!QSpec

\* What gameboy.c:312 says sound_term is for: "unlock threads stuck during
\* reading".  Once the quit is requested, no callback stays asleep.
QuitFreesReader ==
  (global_quit /\ pc["audio"] = "asleep") ~> pc["audio"] # "asleep"

=============================================================================
