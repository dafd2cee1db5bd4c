---------------------------- MODULE SoundSnapshot ----------------------------
(***************************************************************************)
(* SoundRing with save states.  sound_save_stat writes the whole structure *)
(* `sound' to a file and sound_restore_stat reads it back, buffer, indices *)
(* and flags included; neither takes sound_mutex.  main calls them after   *)
(* gameboy_set_pause, so the emulator thread is between two samples; the   *)
(* audio callback is not paused and may be anywhere.                       *)
(***************************************************************************)
EXTENDS SoundRing

CONSTANT MaxRestores   \* bound of the model: how many restores a run may do

VARIABLES disk,        \* the saved structure, or NoFile
          restores,    \* how many restores have been done
          disturbed    \* history: a save or a restore met a busy callback

svars == <<vars, disk, restores, disturbed>>

NoFile == [saved |-> FALSE]

\* The fields of sound_t this model keeps.
Sound == [buf |-> buf, buf_rd |-> buf_rd, buf_wr |-> buf_wr,
          buf_available |-> buf_available, buf_empty |-> buf_empty,
          buf_tmp |-> buf_tmp]

SInit == Init /\ disk = NoFile /\ restores = 0 /\ disturbed = FALSE

Paused == pc["emu"] \in {"poll", "sample"} /\ pc["main"] = "run"

\* The callback is not inside its critical section.
QuietToSave == sound_mutex # "audio"

\* The callback is not running, or sleeps as one did when the state was saved.
QuietToRestore == \/ pc["audio"] = "idle"
                  \/ pc["audio"] = "asleep" /\ disk.buf_empty

\* (a run of the model saves once, at any moment: a later file replaces the
\* earlier one, and only the last is ever read)
SaveStat ==
  /\ Paused
  /\ disk = NoFile
  /\ disk' = Sound
  /\ disturbed' = (disturbed \/ ~QuietToSave)
  /\ UNCHANGED <<vars, restores>>

\* (a slip: the read index is not part of what is restored)
RestoreWithoutIndex ==
  /\ Paused /\ disk # NoFile /\ restores < MaxRestores
  /\ restores' = restores + 1
  /\ buf' = disk.buf /\ buf_wr' = disk.buf_wr
  /\ buf_available' = disk.buf_available
  /\ buf_empty' = disk.buf_empty /\ buf_tmp' = disk.buf_tmp
  /\ disturbed' = (disturbed \/ ~QuietToRestore)
  /\ UNCHANGED <<buf_rd, moved, global_quit, sound_mutex, stream, pc, disk>>

RestoreStat ==
  /\ Paused
  /\ disk # NoFile
  /\ restores < MaxRestores
  /\ restores' = restores + 1
  /\ buf' = disk.buf /\ buf_rd' = disk.buf_rd /\ buf_wr' = disk.buf_wr
  /\ buf_available' = disk.buf_available
  /\ buf_empty' = disk.buf_empty
  /\ buf_tmp' = disk.buf_tmp
  /\ disturbed' = (disturbed \/ ~QuietToRestore)
  /\ UNCHANGED <<moved, global_quit, sound_mutex, stream, pc, disk>>

\* A step of one of SoundRing's threads.
Ring(A) == A /\ UNCHANGED <<disk, restores, disturbed>>

SNext == \/ Ring(Next)
         \/ SaveStat
         \/ RestoreStat

SSpec == SInit /\ [][SNext]_svars

SFairSpec ==
  /\ SSpec
  /\ WF_svars(Ring(Emulate)) /\ SF_svars(Ring(EmuLock))
  /\ WF_svars(Ring(Read))
  /\ SF_svars(Ring(ReadLock)) /\ SF_svars(Ring(ReadWoken))

-----------------------------------------------------------------------------

\* Restoring an older state keeps the count, the
\* coverage of a read and the wake level right as long as no save and no
\* restore met a callback in the middle of its work: that is all the pause
\* would have to ensure (gameboy.c:324 "ensure i'm in pause").
QuietStatesAreSound ==
  ~disturbed => CountAgrees /\ ReadIsCovered /\ WakeStillAhead

\* Under the same condition a sleeping callback is still served, by an emulator
\* that goes on: a restore that leaves the game paused is not modelled.
QuietSleeperIsServed ==
  pc["audio"] = "asleep"
     ~> (pc["audio"] # "asleep" \/ global_quit \/ disturbed)

=============================================================================
