--------------------------- MODULE DropOldestQueue ---------------------------
(***************************************************************************)
(* What the audio path of emu-pizza promises to the sound card: a first-in *)
(* first-out queue of samples that loses its OLDEST sample when a new one  *)
(* finds it full, read in blocks of a fixed length.  Once the emulator is  *)
(* told to quit nothing is promised any more about what is played.         *)
(***************************************************************************)
EXTENDS Naturals, Sequences

CONSTANTS Sample,    \* the set of sample values
          Capacity,  \* how many samples the queue holds at most
          Block      \* how many samples one read takes

VARIABLES queue,     \* the samples waiting to be played, oldest first
          block,     \* the last block handed to the sound card
          stopped    \* TRUE once the promise has ended

qvars == <<queue, block, stopped>>

QInit == /\ queue = <<>>
         /\ block = <<>>
         /\ stopped = FALSE

QPush(s) ==
  /\ ~stopped
  /\ queue' = Append(IF Len(queue) = Capacity THEN Tail(queue) ELSE queue, s)
  /\ UNCHANGED <<block, stopped>>

QRead ==
  /\ ~stopped
  /\ Len(queue) >= Block
  /\ block' = SubSeq(queue, 1, Block)
  /\ queue' = SubSeq(queue, Block + 1, Len(queue))
  /\ UNCHANGED stopped

QStop == /\ ~stopped
         /\ stopped' = TRUE
         /\ queue' = <<>>
         /\ UNCHANGED block

\* After the stop a reader may still be handed one block, of any samples.
QLate == /\ stopped
         /\ block' \in Seq(Sample)
         /\ UNCHANGED <<queue, stopped>>

QNext == \/ \E s \in Sample : QPush(s)
         \/ QRead
         \/ QStop
         \/ QLate

QSpec == QInit /\ [][QNext]_qvars
=============================================================================
