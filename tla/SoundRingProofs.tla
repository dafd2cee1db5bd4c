--------------------------- MODULE SoundRingProofs ---------------------------
(***************************************************************************)
(* Proofs about SoundRing, for every size of the buffer, of the block read *)
(* and of the wake level, and every set of samples; and at the end about   *)
(* SoundSnapshot, for any number of restores.                              *)
(***************************************************************************)
EXTENDS SoundSnapshot, TLAPS

\* Where the audio thread holds the mutex.
Holding == {"check", "test", "loop", "wait", "copy", "count"}

\* Who is where, and what follows from it: the mutex excludes, a thread that
\* terminates has seen the quit, and buf_tmp has room unless it is being moved.
Control ==
  /\ sound_mutex = "audio" <=> pc["audio"] \in Holding
  /\ sound_mutex = "emu" <=> pc["emu"] = "move"
  /\ pc["emu"] \in TermPC => global_quit
  /\ pc["main"] # "run" => global_quit
  /\ Len(buf_tmp) % 2 = 0
  /\ IF pc["emu"] \in {"lock", "move"} THEN Len(buf_tmp) = TmpSz
                                       ELSE Len(buf_tmp) < TmpSz
  /\ pc["emu"] # "move" => moved = 0

\* The flag before the quit: while it is up the wake level is still to come, a
\* sleeping callback has it up, and once it is down again the block that the
\* callback waits for is there.
Flag ==
  ~global_quit =>
    /\ buf_empty => buf_available < WakeLevel
    /\ pc["audio"] \in {"wait", "asleep"} => buf_empty
    /\ pc["audio"] \in {"loop", "woken"} =>
         (buf_empty \/ buf_available >= ToRead)

IInv == TypeOK /\ Control /\ Flag /\ CountAgrees /\ ReadIsCovered

-----------------------------------------------------------------------------

\* Storing a pair appends it after the samples that are already there.
LEMMA AppendPair ==
  ASSUME NEW S, NEW q \in Seq(S), NEW l \in S, NEW r \in S
  PROVE  /\ q \o <<l, r>> \in Seq(S)
         /\ Len(q \o <<l, r>>) = Len(q) + 2
<1>1. <<l, r>> \in Seq(S) /\ Len(<<l, r>>) = 2
  OBVIOUS
<1> QED
  BY <1>1

\* buf_tmp is filled in pairs: a buffer that is not full has room for a pair.
LEMMA EvenRoom ==
  ASSUME NEW n \in Nat, n % 2 = 0, n < TmpSz
  PROVE  (n + 2) % 2 = 0 /\ n + 2 <= TmpSz
BY SoundAssumption

\* The empty buffer and the three threads at their first statement satisfy it.
LEMMA InitIInv == Init => IInv
<1> SUFFICES ASSUME Init PROVE IInv
  OBVIOUS
<1> USE SoundAssumption DEF Init, Slot, Thread
<1>1. pc["emu"] = "poll" /\ pc["audio"] = "idle" /\ pc["main"] = "run"
  OBVIOUS
<1>2. pc \in [Thread -> EmuPC \cup AudioPC \cup MainPC]
  BY DEF EmuPC, AudioPC, MainPC
<1>3. <<>> \in Seq(Sample) /\ Len(<<>>) = 0
  OBVIOUS
<1>4. /\ buf \in [Slot -> Sample] /\ 0 \in Slot
      /\ 0 \in 0 .. CountMod - 1 /\ 0 \in 0 .. TmpSz /\ 0 <= TmpSz
      /\ FALSE \in BOOLEAN
  OBVIOUS
<1>5. TypeOK
  BY <1>1, <1>2, <1>3, <1>4, Zenon DEF TypeOK, EmuPC, AudioPC, MainPC, TermPC
<1> QED
  BY <1>1, <1>5 DEF IInv, Control, Flag, CountAgrees, ReadIsCovered, Owed,
     TermPC, Holding

\* Every step of every thread preserves it, also after the quit.
LEMMA StepIInv == IInv /\ [Next]_vars => IInv'
<1> SUFFICES ASSUME IInv, [Next]_vars PROVE IInv'
  OBVIOUS
<1> USE SoundAssumption DEF IInv, Slot, Thread, Goto,
        EmuPC, AudioPC, MainPC, TermPC, ring, tmp
<1>1. ASSUME EmuPoll PROVE IInv'
  <2>1. TypeOK'
    BY <1>1 DEF TypeOK, EmuPoll
  <2>2. Control'
    BY <1>1 DEF TypeOK, Control, Holding, EmuPoll
  <2>3. Flag'
    BY <1>1 DEF TypeOK, Control, Flag, CountAgrees, ReadIsCovered, Owed, Holding, EmuPoll
  <2>4. CountAgrees'
    BY <1>1 DEF TypeOK, Control, CountAgrees, ReadIsCovered, Owed, Holding, EmuPoll
  <2>5. ReadIsCovered'
    BY <1>1 DEF TypeOK, Control, Flag, CountAgrees, ReadIsCovered, Owed, Holding, EmuPoll
  <2> QED
    BY <2>1, <2>2, <2>3, <2>4, <2>5
<1>2. ASSUME NEW l \in Sample, NEW r \in Sample, PushSamples(l, r) PROVE IInv'
  <2>0. /\ pc["emu"] = "sample"
        /\ buf_tmp' = buf_tmp \o <<l, r>>
        /\ buf_tmp \in Seq(Sample) /\ Len(buf_tmp) < TmpSz
        /\ Len(buf_tmp) % 2 = 0
    BY <1>2 DEF TypeOK, Control, PushSamples
  <2>a. /\ buf_tmp' \in Seq(Sample)
        /\ Len(buf_tmp') = Len(buf_tmp) + 2
    BY <2>0, AppendPair
  <2>b. Len(buf_tmp') % 2 = 0 /\ Len(buf_tmp') <= TmpSz
    BY <2>0, <2>a, EvenRoom
  <2>1. TypeOK'
    BY <1>2, <2>a, <2>b DEF TypeOK, PushSamples
  <2>2. Control'
    BY <1>2, <2>0, <2>a, <2>b DEF TypeOK, Control, Holding, PushSamples
  <2>3. Flag'
    BY <1>2 DEF TypeOK, Control, Flag, CountAgrees, ReadIsCovered, Owed, Holding, PushSamples
  <2>4. CountAgrees'
    BY <1>2 DEF TypeOK, Control, CountAgrees, ReadIsCovered, Owed, Holding, PushSamples
  <2>5. ReadIsCovered'
    BY <1>2 DEF TypeOK, Control, Flag, CountAgrees, ReadIsCovered, Owed, Holding, PushSamples
  <2> QED
    BY <2>1, <2>2, <2>3, <2>4, <2>5
<1>3. ASSUME EmuLock PROVE IInv'
  <2>1. TypeOK'
    BY <1>3 DEF TypeOK, EmuLock, Lock
  <2>2. Control'
    BY <1>3 DEF TypeOK, Control, Holding, EmuLock, Lock
  <2>3. Flag'
    BY <1>3 DEF TypeOK, Control, Flag, CountAgrees, ReadIsCovered, Owed, Holding, EmuLock, Lock
  <2>4. CountAgrees'
    BY <1>3 DEF TypeOK, Control, CountAgrees, ReadIsCovered, Owed, Holding, EmuLock, Lock
  <2>5. ReadIsCovered'
    BY <1>3 DEF TypeOK, Control, Flag, CountAgrees, ReadIsCovered, Owed, Holding, EmuLock, Lock
  <2> QED
    BY <2>1, <2>2, <2>3, <2>4, <2>5
<1>4. ASSUME PushSample PROVE IInv'
  <2>0. pc["emu"] = "move" /\ moved < TmpSz /\ Len(buf_tmp) = TmpSz
    BY <1>4 DEF Control, PushSample, Full, Enough
  <2>a. buf' \in [Slot -> Sample]
    <3>1. buf_tmp[moved + 1] \in Sample
      BY <2>0 DEF TypeOK
    <3> QED
      BY <1>4, <3>1 DEF TypeOK, PushSample, Full, Enough
  <2>b. buf_rd' \in Slot /\ buf_wr' \in Slot
    BY <1>4 DEF TypeOK, PushSample, Full, Enough, After
  <2>c. buf_available' \in 0 .. CountMod - 1
    BY <1>4 DEF TypeOK, PushSample, Full, Enough, Wrap
  <2>d. /\ pc' \in [Thread -> EmuPC \cup AudioPC \cup MainPC]
        /\ pc'["emu"] \in EmuPC /\ pc'["audio"] \in AudioPC
        /\ pc'["main"] \in MainPC
    BY <1>4 DEF TypeOK, PushSample, Full, Enough, Signalled
  <2>e. moved' \in 0 .. TmpSz
    BY <1>4 DEF TypeOK, PushSample, Full, Enough
  <2>f. buf_empty' \in BOOLEAN
    BY <1>4, Zenon DEF TypeOK, PushSample, Full, Enough
  <2>1. TypeOK'
    BY <1>4, <2>a, <2>b, <2>c, <2>d, <2>e, <2>f DEF TypeOK, PushSample, Full, Enough
  <2>2. Control'
    BY <1>4 DEF TypeOK, Control, Holding, PushSample, Full, Enough, After, Signalled, Wrap
  <2>3. Flag'
    BY <1>4 DEF TypeOK, Control, Flag, CountAgrees, ReadIsCovered, Owed, Holding, PushSample, Full, Enough, After, Signalled, Wrap
  <2>4. CountAgrees'
    BY <1>4 DEF TypeOK, Control, CountAgrees, ReadIsCovered, Owed, Holding, PushSample, Full, Enough, After, Signalled, Wrap
  <2>5. ReadIsCovered'
    BY <1>4 DEF TypeOK, Control, Flag, CountAgrees, ReadIsCovered, Owed, Holding, PushSample, Full, Enough, After, Signalled, Wrap
  <2> QED
    BY <2>1, <2>2, <2>3, <2>4, <2>5
<1>5. ASSUME EmuUnlock PROVE IInv'
  <2>1. TypeOK'
    BY <1>5 DEF TypeOK, EmuUnlock, Unlock
  <2>2. Control'
    BY <1>5 DEF TypeOK, Control, Holding, EmuUnlock, Unlock
  <2>3. Flag'
    BY <1>5 DEF TypeOK, Control, Flag, CountAgrees, ReadIsCovered, Owed, Holding, EmuUnlock, Unlock
  <2>4. CountAgrees'
    BY <1>5 DEF TypeOK, Control, CountAgrees, ReadIsCovered, Owed, Holding, EmuUnlock, Unlock
  <2>5. ReadIsCovered'
    BY <1>5 DEF TypeOK, Control, Flag, CountAgrees, ReadIsCovered, Owed, Holding, EmuUnlock, Unlock
  <2> QED
    BY <2>1, <2>2, <2>3, <2>4, <2>5
<1>6. ASSUME ReadLock PROVE IInv'
  <2>1. TypeOK'
    BY <1>6 DEF TypeOK, ReadLock, Lock
  <2>2. Control'
    BY <1>6 DEF TypeOK, Control, Holding, ReadLock, Lock
  <2>3. Flag'
    BY <1>6 DEF TypeOK, Control, Flag, CountAgrees, ReadIsCovered, Owed, Holding, ReadLock, Lock
  <2>4. CountAgrees'
    BY <1>6 DEF TypeOK, Control, CountAgrees, ReadIsCovered, Owed, Holding, ReadLock, Lock
  <2>5. ReadIsCovered'
    BY <1>6 DEF TypeOK, Control, Flag, CountAgrees, ReadIsCovered, Owed, Holding, ReadLock, Lock
  <2> QED
    BY <2>1, <2>2, <2>3, <2>4, <2>5
<1>7. ASSUME ReadCheck PROVE IInv'
  <2>1. TypeOK'
    BY <1>7 DEF TypeOK, ReadCheck, Unlock
  <2>2. Control'
    BY <1>7 DEF TypeOK, Control, Holding, ReadCheck, Unlock
  <2>3. Flag'
    BY <1>7 DEF TypeOK, Control, Flag, CountAgrees, ReadIsCovered, Owed, Holding, ReadCheck, Unlock
  <2>4. CountAgrees'
    BY <1>7 DEF TypeOK, Control, CountAgrees, ReadIsCovered, Owed, Holding, ReadCheck, Unlock
  <2>5. ReadIsCovered'
    BY <1>7 DEF TypeOK, Control, Flag, CountAgrees, ReadIsCovered, Owed, Holding, ReadCheck, Unlock
  <2> QED
    BY <2>1, <2>2, <2>3, <2>4, <2>5
<1>8. ASSUME ReadTest PROVE IInv'
  <2>1. TypeOK'
    BY <1>8 DEF TypeOK, ReadTest
  <2>2. Control'
    BY <1>8 DEF TypeOK, Control, Holding, ReadTest
  <2>3. Flag'
    BY <1>8 DEF TypeOK, Control, Flag, CountAgrees, ReadIsCovered, Owed, Holding, ReadTest
  <2>4. CountAgrees'
    BY <1>8 DEF TypeOK, Control, CountAgrees, ReadIsCovered, Owed, Holding, ReadTest
  <2>5. ReadIsCovered'
    BY <1>8 DEF TypeOK, Control, Flag, CountAgrees, ReadIsCovered, Owed, Holding, ReadTest
  <2> QED
    BY <2>1, <2>2, <2>3, <2>4, <2>5
<1>9. ASSUME ReadLoop PROVE IInv'
  <2>1. TypeOK'
    BY <1>9 DEF TypeOK, ReadLoop
  <2>2. Control'
    BY <1>9 DEF TypeOK, Control, Holding, ReadLoop
  <2>3. Flag'
    BY <1>9 DEF TypeOK, Control, Flag, CountAgrees, ReadIsCovered, Owed, Holding, ReadLoop
  <2>4. CountAgrees'
    BY <1>9 DEF TypeOK, Control, CountAgrees, ReadIsCovered, Owed, Holding, ReadLoop
  <2>5. ReadIsCovered'
    BY <1>9 DEF TypeOK, Control, Flag, CountAgrees, ReadIsCovered, Owed, Holding, ReadLoop
  <2> QED
    BY <2>1, <2>2, <2>3, <2>4, <2>5
<1>10. ASSUME ReadWait PROVE IInv'
  <2>1. TypeOK'
    BY <1>10 DEF TypeOK, ReadWait, Unlock
  <2>2. Control'
    BY <1>10 DEF TypeOK, Control, Holding, ReadWait, Unlock
  <2>3. Flag'
    BY <1>10 DEF TypeOK, Control, Flag, CountAgrees, ReadIsCovered, Owed, Holding, ReadWait, Unlock
  <2>4. CountAgrees'
    BY <1>10 DEF TypeOK, Control, CountAgrees, ReadIsCovered, Owed, Holding, ReadWait, Unlock
  <2>5. ReadIsCovered'
    BY <1>10 DEF TypeOK, Control, Flag, CountAgrees, ReadIsCovered, Owed, Holding, ReadWait, Unlock
  <2> QED
    BY <2>1, <2>2, <2>3, <2>4, <2>5
<1>11. ASSUME ReadWoken PROVE IInv'
  <2>1. TypeOK'
    BY <1>11 DEF TypeOK, ReadWoken, Lock
  <2>2. Control'
    BY <1>11 DEF TypeOK, Control, Holding, ReadWoken, Lock
  <2>3. Flag'
    BY <1>11 DEF TypeOK, Control, Flag, CountAgrees, ReadIsCovered, Owed, Holding, ReadWoken, Lock
  <2>4. CountAgrees'
    BY <1>11 DEF TypeOK, Control, CountAgrees, ReadIsCovered, Owed, Holding, ReadWoken, Lock
  <2>5. ReadIsCovered'
    BY <1>11 DEF TypeOK, Control, Flag, CountAgrees, ReadIsCovered, Owed, Holding, ReadWoken, Lock
  <2> QED
    BY <2>1, <2>2, <2>3, <2>4, <2>5
<1>12. ASSUME ReadCopy PROVE IInv'
  <2>1. TypeOK'
    BY <1>12 DEF TypeOK, ReadCopy, Copied, Overlaps, first_block
  <2>2. Control'
    BY <1>12 DEF TypeOK, Control, Holding, ReadCopy, Copied, Overlaps, first_block
  <2>3. Flag'
    BY <1>12 DEF TypeOK, Control, Flag, CountAgrees, ReadIsCovered, Owed, Holding, ReadCopy, Copied, Overlaps, first_block
  <2>4. CountAgrees'
    BY <1>12 DEF TypeOK, Control, CountAgrees, ReadIsCovered, Owed, Holding, ReadCopy, Copied, Overlaps, first_block
  <2>5. ReadIsCovered'
    BY <1>12 DEF TypeOK, Control, Flag, CountAgrees, ReadIsCovered, Owed, Holding, ReadCopy, Copied, Overlaps, first_block
  <2> QED
    BY <2>1, <2>2, <2>3, <2>4, <2>5
<1>13. ASSUME ReadCount PROVE IInv'
  <2>1. TypeOK'
    BY <1>13 DEF TypeOK, ReadCount, Wrap, Unlock
  <2>2. Control'
    BY <1>13 DEF TypeOK, Control, Holding, ReadCount, Wrap, Unlock
  <2>3. Flag'
    BY <1>13 DEF TypeOK, Control, Flag, CountAgrees, ReadIsCovered, Owed, Holding, ReadCount, Wrap, Unlock
  <2>4. CountAgrees'
    BY <1>13 DEF TypeOK, Control, CountAgrees, ReadIsCovered, Owed, Holding, ReadCount, Wrap, Unlock
  <2>5. ReadIsCovered'
    BY <1>13 DEF TypeOK, Control, Flag, CountAgrees, ReadIsCovered, Owed, Holding, ReadCount, Wrap, Unlock
  <2> QED
    BY <2>1, <2>2, <2>3, <2>4, <2>5
<1>14. ASSUME SpuriousWake PROVE IInv'
  <2>1. TypeOK'
    BY <1>14 DEF TypeOK, SpuriousWake
  <2>2. Control'
    BY <1>14 DEF TypeOK, Control, Holding, SpuriousWake
  <2>3. Flag'
    BY <1>14 DEF TypeOK, Control, Flag, CountAgrees, ReadIsCovered, Owed, Holding, SpuriousWake
  <2>4. CountAgrees'
    BY <1>14 DEF TypeOK, Control, CountAgrees, ReadIsCovered, Owed, Holding, SpuriousWake
  <2>5. ReadIsCovered'
    BY <1>14 DEF TypeOK, Control, Flag, CountAgrees, ReadIsCovered, Owed, Holding, SpuriousWake
  <2> QED
    BY <2>1, <2>2, <2>3, <2>4, <2>5
<1>15. ASSUME MainQuit PROVE IInv'
  <2>1. TypeOK'
    BY <1>15 DEF TypeOK, MainQuit
  <2>2. Control'
    BY <1>15 DEF TypeOK, Control, Holding, MainQuit
  <2>3. Flag'
    BY <1>15 DEF TypeOK, Control, Flag, CountAgrees, ReadIsCovered, Owed, Holding, MainQuit
  <2>4. CountAgrees'
    BY <1>15 DEF TypeOK, Control, CountAgrees, ReadIsCovered, Owed, Holding, MainQuit
  <2>5. ReadIsCovered'
    BY <1>15 DEF TypeOK, Control, Flag, CountAgrees, ReadIsCovered, Owed, Holding, MainQuit
  <2> QED
    BY <2>1, <2>2, <2>3, <2>4, <2>5
<1>16. ASSUME NEW t \in {"emu", "main"}, TermTest(t) PROVE IInv'
  <2>1. TypeOK'
    BY <1>16 DEF TypeOK, TermTest
  <2>2. Control'
    BY <1>16 DEF TypeOK, Control, Holding, TermTest
  <2>3. Flag'
    BY <1>16 DEF TypeOK, Control, Flag, CountAgrees, ReadIsCovered, Owed, Holding, TermTest
  <2>4. CountAgrees'
    BY <1>16 DEF TypeOK, Control, CountAgrees, ReadIsCovered, Owed, Holding, TermTest
  <2>5. ReadIsCovered'
    BY <1>16 DEF TypeOK, Control, Flag, CountAgrees, ReadIsCovered, Owed, Holding, TermTest
  <2> QED
    BY <2>1, <2>2, <2>3, <2>4, <2>5
<1>17. ASSUME NEW t \in {"emu", "main"}, TermClear(t) PROVE IInv'
  <2>1. TypeOK'
    BY <1>17 DEF TypeOK, TermClear
  <2>2. Control'
    BY <1>17 DEF TypeOK, Control, Holding, TermClear
  <2>3. Flag'
    BY <1>17 DEF TypeOK, Control, Flag, CountAgrees, ReadIsCovered, Owed, Holding, TermClear
  <2>4. CountAgrees'
    BY <1>17 DEF TypeOK, Control, CountAgrees, ReadIsCovered, Owed, Holding, TermClear
  <2>5. ReadIsCovered'
    BY <1>17 DEF TypeOK, Control, Flag, CountAgrees, ReadIsCovered, Owed, Holding, TermClear
  <2> QED
    BY <2>1, <2>2, <2>3, <2>4, <2>5
<1>18. ASSUME NEW t \in {"emu", "main"}, TermSignal(t) PROVE IInv'
  <2>1. TypeOK'
    BY <1>18 DEF TypeOK, TermSignal, Signalled
  <2>2. Control'
    BY <1>18 DEF TypeOK, Control, Holding, TermSignal, Signalled
  <2>3. Flag'
    BY <1>18 DEF TypeOK, Control, Flag, CountAgrees, ReadIsCovered, Owed, Holding, TermSignal, Signalled
  <2>4. CountAgrees'
    BY <1>18 DEF TypeOK, Control, CountAgrees, ReadIsCovered, Owed, Holding, TermSignal, Signalled
  <2>5. ReadIsCovered'
    BY <1>18 DEF TypeOK, Control, Flag, CountAgrees, ReadIsCovered, Owed, Holding, TermSignal, Signalled
  <2> QED
    BY <2>1, <2>2, <2>3, <2>4, <2>5
<1>19. CASE UNCHANGED vars
  BY <1>19 DEF vars, TypeOK, Control, Flag, CountAgrees, ReadIsCovered, Owed
<1> QED
  BY <1>1, <1>2, <1>3, <1>4, <1>5, <1>6, <1>7, <1>8, <1>9, <1>10, <1>11, <1>12, <1>13, <1>14, <1>15, <1>16, <1>17, <1>18, <1>19
  DEF Next, Emulate, Push, Read, Term

-----------------------------------------------------------------------------

\* Hence the inductive invariant holds in every reachable state.
LEMMA IInvAlways == Spec => []IInv
BY InitIInv, StepIInv, PTL DEF Spec

\* Both indices stay inside the buffer and every other variable keeps its
\* type, whatever the interleaving of the three threads (sound.c:424-544).
THEOREM Typing == Spec => []TypeOK
<1>1. IInv => TypeOK
  BY DEF IInv
<1> QED
  BY <1>1, IInvAlways, PTL

\* Until the quit the count and the two indices agree in every state
\* (sound_push_sample, sound.c:450-484, and sound_read_samples, 496-544).
THEOREM CountsAgree == Spec => []CountAgrees
<1>1. IInv => CountAgrees
  BY DEF IInv
<1> QED
  BY <1>1, IInvAlways, PTL

\* Until the quit a copy never takes more samples than there are, so the
\* subtraction of sound.c:540 does not wrap, spurious wake-ups included.
THEOREM ReadsAreCovered == Spec => []ReadIsCovered
<1>1. IInv => ReadIsCovered
  BY DEF IInv
<1> QED
  BY <1>1, IInvAlways, PTL

\* Until the quit a sleeping callback's flag is up and the wake level ahead,
\* so that the equality of sound.c:465 is still to come.
THEOREM WakesAreAhead == Spec => []WakeStillAhead
<1>1. IInv => WakeStillAhead
  BY DEF IInv, Flag, WakeStillAhead
<1> QED
  BY <1>1, IInvAlways, PTL

-----------------------------------------------------------------------------
(* The refinement: the ring buffer implements DropOldestQueue.             *)

\* The slot of the k-th sample from slot b on.
SlotFrom(b, k) == IF b + k - 1 >= BufSz THEN b + k - 1 - BufSz ELSE b + k - 1

\* How many samples wait.
Count == buf_available - Owed

\* Two sequences are the same when their elements are.
LEMMA SameSequence ==
  ASSUME NEW S, NEW p \in Seq(S), NEW q \in Seq(S), Len(p) = Len(q),
         \A k \in 1 .. Len(p) : p[k] = q[k]
  PROVE  p = q
OBVIOUS

\* Taking the samples before one off the front, and putting one at the end.
LEMMA AppendAndTail ==
  ASSUME NEW S, NEW q \in Seq(S), NEW s \in S
  PROVE  /\ Append(q, s) \in Seq(S)
         /\ Len(Append(q, s)) = Len(q) + 1
         /\ \A k \in 1 .. Len(q) : Append(q, s)[k] = q[k]
         /\ Append(q, s)[Len(q) + 1] = s
         /\ Len(q) # 0 => /\ Tail(q) \in Seq(S)
                          /\ Len(Tail(q)) = Len(q) - 1
                          /\ \A k \in 1 .. Len(q) - 1 : Tail(q)[k] = q[k + 1]
<1>1. /\ Append(q, s) \in Seq(S) /\ Len(Append(q, s)) = Len(q) + 1
      /\ \A k \in 1 .. Len(q) : Append(q, s)[k] = q[k]
      /\ Append(q, s)[Len(q) + 1] = s
  OBVIOUS
<1>2. ASSUME Len(q) # 0
      PROVE  /\ Tail(q) \in Seq(S) /\ Len(Tail(q)) = Len(q) - 1
             /\ \A k \in 1 .. Len(q) - 1 : Tail(q)[k] = q[k + 1]
  BY <1>2
<1> QED
  BY <1>1, <1>2

\* A sequence cut after its first n elements.
LEMMA CutSequence ==
  ASSUME NEW S, NEW q \in Seq(S), NEW n \in 0 .. Len(q)
  PROVE  /\ SubSeq(q, 1, n) \in Seq(S) /\ Len(SubSeq(q, 1, n)) = n
         /\ \A k \in 1 .. n : SubSeq(q, 1, n)[k] = q[k]
         /\ SubSeq(q, n + 1, Len(q)) \in Seq(S)
         /\ Len(SubSeq(q, n + 1, Len(q))) = Len(q) - n
         /\ \A k \in 1 .. Len(q) - n : SubSeq(q, n + 1, Len(q))[k] = q[n + k]
OBVIOUS

\* Until the quit, what waits is read off the buffer from buf_rd on.
WaitingFromRing ==
  /\ Count \in 0 .. BufSz - 1
  /\ Waiting \in Seq(Sample) /\ Len(Waiting) = Count
  /\ \A k \in 1 .. Count : /\ SlotFrom(buf_rd, k) \in Slot
                           /\ Waiting[k] = buf[SlotFrom(buf_rd, k)]

LEMMA WaitingIs == IInv /\ ~global_quit => WaitingFromRing
<1> SUFFICES ASSUME IInv, ~global_quit PROVE WaitingFromRing
  OBVIOUS
<1> USE SoundAssumption
<1>1. Count \in 0 .. BufSz - 1
  BY DEF IInv, CountAgrees, Count
<1>2. Waiting = [k \in 1 .. Count |-> buf[SlotFrom(buf_rd, k)]]
  BY DEF Waiting, Count, SlotFrom
<1>3. buf_rd \in 0 .. BufSz - 1 /\ buf \in [Slot -> Sample]
  BY DEF IInv, TypeOK, Slot
<1>4. ASSUME NEW k \in 1 .. Count PROVE SlotFrom(buf_rd, k) \in Slot
  BY <1>1, <1>3 DEF SlotFrom, Slot
<1>5. \A k \in 1 .. Count : buf[SlotFrom(buf_rd, k)] \in Sample
  BY <1>3, <1>4
<1>6. Count \in Nat
  BY <1>1
<1>7. Waiting \in Seq(Sample) /\ Len(Waiting) = Count
  BY <1>2, <1>5, <1>6
<1>8. \A k \in 1 .. Count : Waiting[k] = buf[SlotFrom(buf_rd, k)]
  BY <1>2
<1> QED
  BY <1>1, <1>4, <1>7, <1>8 DEF WaitingFromRing

\* The same of the state after a step.
LEMMA WaitingIsNext == IInv' /\ ~global_quit' => WaitingFromRing'
BY WaitingIs, PTL

\* A step that leaves the ring, the block, the quit flag and what is owed alone
\* leaves the queue alone.
LEMMA QueueUnchanged ==
  ASSUME UNCHANGED <<ring, stream, global_quit>>, Owed' = Owed
  PROVE  UNCHANGED DOQ!qvars
<1>1. Waiting' = Waiting
  BY DEF Waiting, ring
<1> QED
  BY <1>1 DEF DOQ!qvars

\* Pushing a sample appends it to the queue, and drops the oldest one exactly
\* when the queue holds BufSz - 1 already (sound_push_sample, sound.c:450-484).
LEMMA PushIsAppend ==
  ASSUME IInv, IInv', PushSample, ~global_quit
  PROVE  DOQ!QPush(buf_tmp[moved + 1])
<1> USE SoundAssumption
<1> DEFINE s == buf_tmp[moved + 1]
<1>1. s \in Sample
  <2>1. moved \in Nat /\ moved < TmpSz /\ Len(buf_tmp) = TmpSz
        /\ buf_tmp \in Seq(Sample)
    BY DEF IInv, TypeOK, Control, PushSample
  <2> QED
    BY <2>1
<1>2. /\ ~global_quit' /\ stream' = stream
      /\ global_quit' = global_quit
  BY DEF PushSample
<1>3. Owed = 0 /\ Owed' = 0
  <2>1. pc["audio"] # "count" /\ pc'["audio"] # "count"
    BY DEF IInv, TypeOK, Control, Holding, PushSample, Signalled, Thread
  <2> QED
    BY <2>1 DEF Owed
<1>4. /\ buf_rd \in 0 .. BufSz - 1 /\ buf_wr \in 0 .. BufSz - 1
      /\ buf_available \in 0 .. BufSz - 1 /\ Count = buf_available
      /\ \/ buf_wr = buf_rd + buf_available
         \/ buf_wr + BufSz = buf_rd + buf_available
      /\ buf \in [0 .. BufSz - 1 -> Sample]
  BY <1>3 DEF IInv, TypeOK, CountAgrees, Slot, Count
<1>5. Wrap(buf_available + 1) = buf_available + 1
  BY <1>4 DEF Wrap
<1>6. buf' = [buf EXCEPT ![buf_wr] = s]
  BY DEF PushSample
<1>7. /\ Waiting \in Seq(Sample) /\ Len(Waiting) = buf_available
      /\ \A k \in 1 .. buf_available :
           /\ SlotFrom(buf_rd, k) \in Slot
           /\ Waiting[k] = buf[SlotFrom(buf_rd, k)]
  BY <1>4, WaitingIs DEF WaitingFromRing
<1>8. /\ Waiting' \in Seq(Sample) /\ Len(Waiting') = buf_available'
      /\ \A k \in 1 .. buf_available' :
           /\ SlotFrom(buf_rd', k) \in Slot
           /\ Waiting'[k] = buf'[SlotFrom(buf_rd', k)]
  <2>1. /\ Count' \in 0 .. BufSz - 1
        /\ Waiting' \in Seq(Sample) /\ Len(Waiting') = Count'
        /\ \A k \in 1 .. Count' :
             /\ SlotFrom(buf_rd', k) \in Slot
             /\ Waiting'[k] = buf'[SlotFrom(buf_rd', k)]
    BY <1>2, WaitingIsNext DEF WaitingFromRing
  <2>2. Count' = buf_available'
    <3>1. PICK n \in 0 .. CountMod - 1 : n = buf_available'
      BY DEF IInv, TypeOK
    <3>2. pc'["audio"] # "count"
      BY <1>3 DEF Owed
    <3>3. Owed' = 0 /\ Count' = n - Owed'
      BY <3>1, <3>2 DEF Count, Owed
    <3>4. n - 0 = n
      OBVIOUS
    <3> QED
      BY <3>1, <3>3, <3>4, Zenon
  <2> QED
    BY <2>1, <2>2
<1>9. CASE buf_available + 1 # BufSz
  <2>1. buf_available' = buf_available + 1 /\ buf_rd' = buf_rd
    BY <1>5, <1>9 DEF PushSample, Full
  <2>2. ASSUME NEW k \in 1 .. buf_available
        PROVE  Waiting'[k] = Waiting[k]
    <3>1. SlotFrom(buf_rd, k) # buf_wr /\ SlotFrom(buf_rd, k) \in 0 .. BufSz - 1
      BY <1>4 DEF SlotFrom
    <3>2. k \in 1 .. buf_available'
      BY <1>4, <2>1
    <3> QED
      BY <1>4, <1>6, <1>7, <1>8, <2>1, <3>1, <3>2
  <2>3. Waiting'[buf_available + 1] = s
    <3>1. SlotFrom(buf_rd, buf_available + 1) = buf_wr
      BY <1>4 DEF SlotFrom
    <3>2. buf_available + 1 \in 1 .. buf_available'
      BY <1>4, <2>1
    <3> QED
      BY <1>4, <1>6, <1>8, <2>1, <3>1, <3>2
  <2>4. /\ Append(Waiting, s) \in Seq(Sample)
        /\ Len(Append(Waiting, s)) = buf_available + 1
        /\ \A k \in 1 .. buf_available : Append(Waiting, s)[k] = Waiting[k]
        /\ Append(Waiting, s)[buf_available + 1] = s
    BY <1>1, <1>7, AppendAndTail
  <2>5. Waiting' = Append(Waiting, s)
    <3>1. \A k \in 1 .. Len(Waiting') : Waiting'[k] = Append(Waiting, s)[k]
      BY <1>4, <1>8, <2>1, <2>2, <2>3, <2>4
    <3> QED
      BY <1>8, <2>1, <2>4, <3>1, SameSequence
  <2>6. Len(Waiting) # BufSz - 1
    BY <1>4, <1>7, <1>9
  <2> QED
    BY <1>2, <2>5, <2>6 DEF DOQ!QPush
<1>10. CASE buf_available + 1 = BufSz
  <2>1. buf_available' = buf_available /\ buf_rd' = After(buf_rd)
    BY <1>4, <1>5, <1>10 DEF PushSample, Full, Wrap
  <2>2. buf_wr = IF buf_rd = 0 THEN BufSz - 1 ELSE buf_rd - 1
    BY <1>4, <1>10
  <2>3. ASSUME NEW k \in 1 .. buf_available - 1
        PROVE  Waiting'[k] = Waiting[k + 1]
    <3>1. SlotFrom(After(buf_rd), k) = SlotFrom(buf_rd, k + 1)
      BY <1>4, <1>10 DEF SlotFrom, After
    <3>2. SlotFrom(buf_rd, k + 1) # buf_wr
          /\ SlotFrom(buf_rd, k + 1) \in 0 .. BufSz - 1
      BY <1>4 DEF SlotFrom
    <3>3. k \in 1 .. buf_available' /\ k + 1 \in 1 .. buf_available
      BY <1>4, <2>1
    <3> QED
      BY <1>4, <1>6, <1>7, <1>8, <2>1, <3>1, <3>2, <3>3
  <2>4. Waiting'[buf_available] = s
    <3>1. SlotFrom(After(buf_rd), buf_available) = buf_wr
      BY <1>4, <1>10 DEF SlotFrom, After
    <3>2. buf_available \in 1 .. buf_available'
      BY <1>4, <1>10, <2>1
    <3> QED
      BY <1>4, <1>6, <1>8, <2>1, <3>1, <3>2
  <2>5. /\ Tail(Waiting) \in Seq(Sample)
        /\ Len(Tail(Waiting)) = buf_available - 1
        /\ \A k \in 1 .. buf_available - 1 : Tail(Waiting)[k] = Waiting[k + 1]
    BY <1>1, <1>4, <1>7, <1>10, AppendAndTail
  <2>6. /\ Append(Tail(Waiting), s) \in Seq(Sample)
        /\ Len(Append(Tail(Waiting), s)) = (buf_available - 1) + 1
        /\ \A k \in 1 .. buf_available - 1 :
             Append(Tail(Waiting), s)[k] = Tail(Waiting)[k]
        /\ Append(Tail(Waiting), s)[(buf_available - 1) + 1] = s
    BY <1>1, <2>5, AppendAndTail
  <2>7. Waiting' = Append(Tail(Waiting), s)
    <3>1. (buf_available - 1) + 1 = buf_available
      BY <1>4
    <3>2. \A k \in 1 .. Len(Waiting') :
            Waiting'[k] = Append(Tail(Waiting), s)[k]
      BY <1>4, <1>8, <2>1, <2>3, <2>4, <2>5, <2>6, <3>1
    <3> QED
      BY <1>8, <2>1, <2>6, <3>1, <3>2, SameSequence
  <2>8. Len(Waiting) = BufSz - 1
    BY <1>4, <1>7, <1>10
  <2> QED
    BY <1>2, <2>7, <2>8 DEF DOQ!QPush
<1> QED
  BY <1>9, <1>10

\* Copying a block, in one phase or in two, takes the oldest ToRead samples of
\* the queue in order (sound_read_samples, sound.c:522-537).
LEMMA CopyIsRead ==
  ASSUME IInv, IInv', ReadCopy, ~global_quit
  PROVE  DOQ!QRead
<1> USE SoundAssumption
<1>1. /\ pc["audio"] = "copy" /\ pc'["audio"] = "count" /\ ~global_quit'
      /\ global_quit' = global_quit
      /\ buf' = buf /\ buf_available' = buf_available
  BY DEF ReadCopy, Goto, IInv, TypeOK, Thread
<1>2. Owed = 0 /\ Owed' = ToRead
  BY <1>1 DEF Owed
<1>3. /\ buf_rd \in 0 .. BufSz - 1 /\ buf_available \in 0 .. BufSz - 1
      /\ buf_available >= ToRead /\ Count = buf_available
      /\ Count' = buf_available - ToRead
      /\ buf \in [0 .. BufSz - 1 -> Sample]
  BY <1>1, <1>2 DEF IInv, TypeOK, CountAgrees, ReadIsCovered, Slot, Count
<1>4. /\ Waiting \in Seq(Sample) /\ Len(Waiting) = buf_available
      /\ \A k \in 1 .. buf_available :
           Waiting[k] = buf[SlotFrom(buf_rd, k)]
  BY <1>3, WaitingIs DEF WaitingFromRing
<1>5. /\ Waiting' \in Seq(Sample) /\ Len(Waiting') = buf_available - ToRead
      /\ \A k \in 1 .. buf_available - ToRead :
           Waiting'[k] = buf[SlotFrom(buf_rd', k)]
  <2>1. /\ Waiting' \in Seq(Sample) /\ Len(Waiting') = Count'
        /\ \A k \in 1 .. Count' : Waiting'[k] = buf'[SlotFrom(buf_rd', k)]
    BY <1>1, WaitingIsNext DEF WaitingFromRing
  <2> QED
    BY <1>1, <1>3, <2>1
<1>6. ToRead \in 0 .. Len(Waiting)
  BY <1>3, <1>4
<1>7. /\ SubSeq(Waiting, 1, ToRead) \in Seq(Sample)
      /\ Len(SubSeq(Waiting, 1, ToRead)) = ToRead
      /\ \A k \in 1 .. ToRead : SubSeq(Waiting, 1, ToRead)[k] = Waiting[k]
  BY <1>4, <1>6, CutSequence
<1>8. /\ SubSeq(Waiting, ToRead + 1, Len(Waiting)) \in Seq(Sample)
      /\ Len(SubSeq(Waiting, ToRead + 1, Len(Waiting)))
           = buf_available - ToRead
      /\ \A k \in 1 .. buf_available - ToRead :
           SubSeq(Waiting, ToRead + 1, Len(Waiting))[k] = Waiting[ToRead + k]
  BY <1>4, <1>6, CutSequence
<1>9. stream' = SubSeq(Waiting, 1, ToRead)
  <2>1. stream' = [k \in 1 .. ToRead |-> Copied(k)]
    BY DEF ReadCopy
  <2>2. stream' \in Seq(Sample)
    BY DEF IInv, TypeOK
  <2>3. Len(stream') = ToRead
    BY <2>1
  <2>4. ASSUME NEW k \in 1 .. ToRead
        PROVE  stream'[k] = SubSeq(Waiting, 1, ToRead)[k]
    <3>1. k \in 1 .. buf_available
      BY <1>3
    <3>2. Copied(k) = buf[SlotFrom(buf_rd, k)]
      BY <1>3 DEF Copied, SlotFrom, Overlaps, first_block
    <3> QED
      BY <1>4, <1>7, <2>1, <3>1, <3>2
  <2> QED
    BY <1>7, <2>2, <2>3, <2>4, SameSequence
<1>10. Waiting' = SubSeq(Waiting, ToRead + 1, Len(Waiting))
  <2>1. buf_rd' = IF Overlaps THEN ToRead - first_block ELSE buf_rd + ToRead
    BY DEF ReadCopy
  <2>2. ASSUME NEW k \in 1 .. buf_available - ToRead
        PROVE  Waiting'[k] = Waiting[ToRead + k]
    <3>1. ToRead + k \in 1 .. buf_available
      BY <1>3
    <3>2. SlotFrom(buf_rd', k) = SlotFrom(buf_rd, ToRead + k)
      BY <1>3, <2>1 DEF SlotFrom, Overlaps, first_block
    <3> QED
      BY <1>4, <1>5, <3>1, <3>2
  <2> QED
    BY <1>5, <1>8, <2>2, SameSequence
<1> QED
  BY <1>3, <1>4, <1>9, <1>10, <1>1 DEF DOQ!QRead

\* Every step of the ring is a step of the queue or changes nothing of it.
LEMMA StepOfQueue ==
  ASSUME IInv, IInv', [Next]_vars
  PROVE  [DOQ!QNext]_DOQ!qvars
<1> USE SoundAssumption DEF Goto, Thread
<1>0. pc \in [Thread -> EmuPC \cup AudioPC \cup MainPC] /\ TypeOK /\ TypeOK'
  BY DEF IInv, TypeOK
<1>1. CASE EmuPoll \/ Push \/ EmuLock \/ EmuUnlock
  <2>1. Owed' = Owed
    BY <1>0, <1>1 DEF EmuPoll, Push, PushSamples, EmuLock, EmuUnlock, Owed
  <2>2. UNCHANGED <<ring, stream, global_quit>>
    BY <1>1 DEF EmuPoll, Push, PushSamples, EmuLock, EmuUnlock
  <2> QED
    BY <2>1, <2>2, QueueUnchanged
<1>2. CASE PushSample
  <2>1. CASE ~global_quit
    <3>1. buf_tmp[moved + 1] \in Sample
      BY <1>2 DEF IInv, TypeOK, Control, PushSample
    <3>2. DOQ!QPush(buf_tmp[moved + 1])
      BY <1>2, <2>1, PushIsAppend
    <3> QED
      BY <3>1, <3>2 DEF DOQ!QNext
  <2>2. CASE global_quit
    <3>1. global_quit' = global_quit /\ stream' = stream
      BY <1>2 DEF PushSample
    <3>2. Waiting' = Waiting
      BY <2>2, <3>1 DEF Waiting
    <3> QED
      BY <3>1, <3>2 DEF DOQ!qvars
  <2> QED
    BY <2>1, <2>2
<1>3. CASE ReadLock \/ ReadCheck \/ ReadTest \/ ReadLoop \/ ReadWait
             \/ ReadWoken \/ SpuriousWake
  <2>1. Owed' = Owed
    BY <1>0, <1>3 DEF ReadLock, ReadCheck, ReadTest, ReadLoop, ReadWait,
       ReadWoken, SpuriousWake, Owed
  <2>2. UNCHANGED <<ring, stream, global_quit>>
    BY <1>3 DEF ReadLock, ReadCheck, ReadTest, ReadLoop, ReadWait,
       ReadWoken, SpuriousWake
  <2> QED
    BY <2>1, <2>2, QueueUnchanged
<1>4. CASE ReadCopy
  <2>1. CASE ~global_quit
    BY <1>4, <2>1, CopyIsRead DEF DOQ!QNext
  <2>2. CASE global_quit
    <3>1. global_quit' = global_quit /\ stream' \in Seq(Sample)
      BY <1>4, <1>0 DEF ReadCopy, TypeOK
    <3>2. Waiting' = Waiting
      BY <2>2, <3>1 DEF Waiting
    <3> QED
      BY <2>2, <3>1, <3>2 DEF DOQ!QNext, DOQ!QLate
  <2> QED
    BY <2>1, <2>2
<1>5. CASE ReadCount
  <2>1. /\ global_quit' = global_quit /\ stream' = stream
        /\ buf' = buf /\ buf_rd' = buf_rd
    BY <1>5 DEF ReadCount
  <2>2. CASE ~global_quit
    <3>1. Owed = ToRead /\ Owed' = 0 /\ buf_available >= ToRead
      BY <1>0, <1>5, <2>2 DEF ReadCount, Owed, IInv, ReadIsCovered
    <3>2. buf_available' = buf_available - ToRead
      BY <1>0, <1>5, <3>1 DEF ReadCount, Wrap, TypeOK
    <3>3. buf_available' - Owed' = buf_available - Owed
      BY <1>0, <3>1, <3>2 DEF TypeOK
    <3>4. Waiting' = Waiting
      BY <2>1, <3>3 DEF Waiting
    <3> QED
      BY <2>1, <3>4 DEF DOQ!qvars
  <2>3. CASE global_quit
    <3>1. Waiting' = Waiting
      BY <2>1, <2>3 DEF Waiting
    <3> QED
      BY <2>1, <3>1 DEF DOQ!qvars
  <2> QED
    BY <2>2, <2>3
<1>6. CASE MainQuit
  <2>1. global_quit' = TRUE /\ stream' = stream
    BY <1>6 DEF MainQuit
  <2>2. Waiting' = <<>>
    BY <2>1 DEF Waiting
  <2>3. CASE global_quit
    <3>1. Waiting = <<>>
      BY <2>3 DEF Waiting
    <3>2. global_quit' = global_quit
      BY <1>0, <2>1, <2>3, Zenon DEF TypeOK
    <3> QED
      BY <2>1, <2>2, <3>1, <3>2, Zenon DEF DOQ!qvars
  <2>4. CASE ~global_quit
    BY <2>1, <2>2, <2>4 DEF DOQ!QNext, DOQ!QStop
  <2> QED
    BY <2>3, <2>4
<1>7. CASE \E t \in {"emu", "main"} : Term(t)
  <2>1. Owed' = Owed
    BY <1>0, <1>7 DEF Term, TermTest, TermClear, TermSignal, Signalled, Owed
  <2>2. UNCHANGED <<ring, stream, global_quit>>
    BY <1>7 DEF Term, TermTest, TermClear, TermSignal
  <2> QED
    BY <2>1, <2>2, QueueUnchanged
<1>8. CASE UNCHANGED vars
  BY <1>8, QueueUnchanged DEF vars, Owed
<1> QED
  BY <1>1, <1>2, <1>3, <1>4, <1>5, <1>6, <1>7, <1>8 DEF Next, Emulate, Read

\* The empty buffer is the empty queue.
LEMMA InitOfQueue == Init => DOQ!QInit
<1> SUFFICES ASSUME Init PROVE DOQ!QInit
  OBVIOUS
<1>1. global_quit = FALSE /\ stream = <<>>
  BY DEF Init
<1>2. /\ IInv /\ buf_available = 0 /\ Owed = 0
  BY InitIInv DEF Init, Owed, Thread
<1>3. Waiting \in Seq(Sample) /\ Len(Waiting) = 0
  BY <1>1, <1>2, WaitingIs DEF Count, WaitingFromRing
<1>4. Waiting = <<>>
  BY <1>3
<1> QED
  BY <1>1, <1>4 DEF DOQ!QInit

\* The ring buffer with its mutex, its two-phase copy and its count implements
\* the queue that drops its oldest sample, for every size of the buffer and of
\* the block: until the quit no sample is played twice, out of order, or
\* skipped while there is room (sound.c:450-544).
THEOREM RingIsQueue == Spec => RingImplementsQueue
<1>1. IInv /\ IInv' /\ [Next]_vars => [DOQ!QNext]_DOQ!qvars
  BY StepOfQueue
<1> QED
  BY <1>1, InitOfQueue, IInvAlways, PTL DEF Spec, RingImplementsQueue, DOQ!QSpec

-----------------------------------------------------------------------------
(* SoundSnapshot.  As long as no save and no restore met a callback in the *)
(* middle of its work, the inductive invariant above holds of the running  *)
(* buffer, and what the file holds is a buffer it would hold of.           *)

\* The saved structure d has the fields of sound_t, each of its type, and its
\* buf_tmp is one the emulator thread has between two samples.
SavedType(d) ==
  /\ d.buf \in [Slot -> Sample]
  /\ d.buf_rd \in Slot /\ d.buf_wr \in Slot
  /\ d.buf_available \in 0 .. BufSz - 1
  /\ d.buf_empty \in BOOLEAN
  /\ d.buf_tmp \in Seq(Sample)
  /\ Len(d.buf_tmp) % 2 = 0 /\ Len(d.buf_tmp) < TmpSz

\* Its count and indices agree, no block is half read, and if its flag is up
\* the wake level is still ahead.
SavedSound(d) ==
  /\ SavedType(d)
  /\ \/ d.buf_wr = d.buf_rd + d.buf_available
     \/ d.buf_wr + BufSz = d.buf_rd + d.buf_available
  /\ d.buf_empty => d.buf_available < WakeLevel

\* main leaves its loop only by the quit, so while it can save nothing has
\* been told to stop.
Running == pc["main"] = "run" => ~global_quit

Undisturbed ==
  /\ IInv
  /\ Running
  /\ disk # NoFile => SavedSound(disk)

SInv == ~disturbed => Undisturbed

-----------------------------------------------------------------------------

\* A file has been written neither at the start nor disturbed.
LEMMA SInitInv == SInit => SInv
<1> SUFFICES ASSUME SInit PROVE SInv
  OBVIOUS
<1>1. IInv
  BY InitIInv DEF SInit
<1>2. Running /\ disk = NoFile
  BY DEF SInit, Init, Running
<1> QED
  BY <1>1, <1>2 DEF SInv, Undisturbed

\* main is never back at its loop after the quit.
LEMMA StepRunning == TypeOK /\ Running /\ [Next]_vars => Running'
<1> SUFFICES ASSUME TypeOK, Running, [Next]_vars PROVE Running'
  OBVIOUS
<1> USE DEF TypeOK, Running, Goto, Thread
<1>1. CASE Emulate
  BY <1>1 DEF Emulate, EmuPoll, Push, PushSamples, EmuLock, PushSample,
     Signalled, EmuUnlock
<1>2. CASE Read
  BY <1>2 DEF Read, ReadLock, ReadCheck, ReadTest, ReadLoop, ReadWait,
     ReadWoken, ReadCopy, ReadCount
<1>3. CASE SpuriousWake \/ MainQuit
  BY <1>3 DEF SpuriousWake, MainQuit
<1>4. CASE \E t \in {"emu", "main"} : Term(t)
  BY <1>4 DEF Term, TermTest, TermClear, TermSignal, Signalled
<1>5. CASE UNCHANGED vars
  BY <1>5 DEF vars
<1> QED
  BY <1>1, <1>2, <1>3, <1>4, <1>5 DEF Next

\* What is written while no callback is at work is a sound buffer.
LEMMA SaveWritesSound ==
  ASSUME IInv, Running, Paused, QuietToSave
  PROVE  SavedSound(Sound)
<1> USE SoundAssumption
<1>1. /\ Sound.buf = buf /\ Sound.buf_rd = buf_rd /\ Sound.buf_wr = buf_wr
      /\ Sound.buf_available = buf_available
      /\ Sound.buf_empty = buf_empty /\ Sound.buf_tmp = buf_tmp
  BY DEF Sound
<1>2. pc["audio"] # "count" /\ ~global_quit
  BY DEF IInv, Control, Holding, QuietToSave, Running, Paused
<1>3. /\ buf_available \in 0 .. BufSz - 1
      /\ buf_wr = buf_rd + buf_available \/ buf_wr + BufSz = buf_rd + buf_available
  BY <1>2 DEF IInv, TypeOK, CountAgrees, Owed
<1>4. Len(buf_tmp) % 2 = 0 /\ Len(buf_tmp) < TmpSz
  BY DEF IInv, Control, Paused
<1>5. buf_empty => buf_available < WakeLevel
  BY <1>2 DEF IInv, Flag
<1>6. SavedType(Sound)
  BY <1>1, <1>3, <1>4, Zenon DEF IInv, TypeOK, SavedType
<1> QED
  BY <1>1, <1>3, <1>5, <1>6, Zenon DEF SavedSound

\* Restored while no callback is at work, or one that sleeps with its flag up
\* as in the file, a sound buffer satisfies the invariant of the ring.
LEMMA RestoreKeepsInvariant ==
  ASSUME IInv, Running, disk # NoFile, SavedSound(disk), RestoreStat,
         QuietToRestore
  PROVE  IInv' /\ Running'
<1> USE SoundAssumption
<1>1. /\ pc["emu"] \in {"poll", "sample"} /\ pc["main"] = "run"
      /\ ~global_quit
      /\ pc["audio"] = "idle" \/ (pc["audio"] = "asleep" /\ disk.buf_empty)
  BY DEF RestoreStat, Paused, Running, QuietToRestore
<1>2. /\ buf' = disk.buf /\ buf_rd' = disk.buf_rd /\ buf_wr' = disk.buf_wr
      /\ buf_available' = disk.buf_available /\ buf_empty' = disk.buf_empty
      /\ buf_tmp' = disk.buf_tmp
      /\ moved' = moved /\ global_quit' = global_quit
      /\ sound_mutex' = sound_mutex /\ stream' = stream /\ pc' = pc
  BY DEF RestoreStat
<1>3. /\ buf' \in [Slot -> Sample] /\ buf_rd' \in Slot /\ buf_wr' \in Slot
      /\ buf_available' \in 0 .. BufSz - 1 /\ buf_empty' \in BOOLEAN
      /\ buf_tmp' \in Seq(Sample)
      /\ Len(buf_tmp') % 2 = 0 /\ Len(buf_tmp') < TmpSz
  BY <1>2, Zenon DEF SavedSound, SavedType
<1>4. buf_available' \in 0 .. CountMod - 1 /\ Len(buf_tmp') <= TmpSz
  <2>1. Len(buf_tmp') \in Nat
    BY <1>3
  <2> QED
    BY <1>3, <2>1
<1>5. TypeOK'
  BY <1>2, <1>3, <1>4, Zenon DEF IInv, TypeOK
<1>6. Control'
  <2>1. pc["emu"] \notin {"lock", "move"}
    BY <1>1
  <2> QED
    BY <1>2, <1>3, <2>1 DEF IInv, Control
<1>7. Owed' = 0
  BY <1>1, <1>2 DEF Owed
<1>8. CountAgrees'
  BY <1>2, <1>3, <1>7 DEF SavedSound, CountAgrees
<1>9. Flag'
  <2>1. buf_empty' => buf_available' < WakeLevel
    BY <1>2, Zenon DEF SavedSound
  <2>2. pc["audio"] \in {"wait", "asleep"} => disk.buf_empty
    BY <1>1
  <2>3. pc'["audio"] \in {"wait", "asleep"} => buf_empty'
    BY <1>2, <2>2, Zenon
  <2>4. pc'["audio"] \notin {"loop", "woken"}
    BY <1>1, <1>2
  <2> QED
    BY <2>1, <2>3, <2>4, Zenon DEF Flag
<1>10. ReadIsCovered' /\ Running'
  BY <1>1, <1>2 DEF ReadIsCovered, Running
<1> QED
  BY <1>5, <1>6, <1>8, <1>9, <1>10 DEF IInv

\* A save, a restore or a step of the ring keeps it.
LEMMA SStepInv == SInv /\ [SNext]_svars => SInv'
<1> SUFFICES ASSUME SInv, [SNext]_svars, ~disturbed' PROVE Undisturbed'
  BY DEF SInv
<1>1. CASE Ring(Next)
  <2>1. Undisturbed
    BY <1>1 DEF Ring, SInv
  <2>2. IInv' /\ Running'
    BY <1>1, <2>1, StepIInv, StepRunning DEF Ring, Undisturbed, IInv
  <2>3. disk' = disk
    BY <1>1 DEF Ring
  <2>4. NoFile' = NoFile /\ (SavedSound(disk) => SavedSound(disk'))
    BY <2>3 DEF NoFile
  <2> QED
    BY <2>1, <2>2, <2>3, <2>4 DEF Undisturbed
<1>2. CASE SaveStat
  <2>1. ~disturbed /\ QuietToSave
    BY <1>2, Zenon DEF SaveStat
  <2>2. IInv /\ Running
    BY <2>1 DEF SInv, Undisturbed
  <2>3. UNCHANGED vars /\ disk' = Sound /\ Paused
    BY <1>2 DEF SaveStat
  <2>4. IInv' /\ Running'
    BY <2>2, <2>3, StepIInv, StepRunning DEF IInv
  <2>5. SavedSound(disk')
    BY <2>1, <2>2, <2>3, SaveWritesSound
  <2> QED
    BY <2>4, <2>5 DEF Undisturbed
<1>3. CASE RestoreStat
  <2>1. ~disturbed /\ QuietToRestore
    BY <1>3, Zenon DEF RestoreStat
  <2>2. IInv /\ Running /\ disk # NoFile /\ SavedSound(disk)
    BY <1>3, <2>1 DEF SInv, Undisturbed, RestoreStat
  <2>3. IInv' /\ Running'
    BY <1>3, <2>1, <2>2, RestoreKeepsInvariant
  <2>4. disk' = disk
    BY <1>3 DEF RestoreStat
  <2> QED
    BY <2>2, <2>3, <2>4 DEF Undisturbed, SavedSound
<1>4. CASE UNCHANGED svars
  <2>1. UNCHANGED vars /\ disk' = disk /\ disturbed' = disturbed
    BY <1>4 DEF svars
  <2>2. Undisturbed
    BY <2>1 DEF SInv
  <2>3. IInv' /\ Running'
    BY <2>1, <2>2, StepIInv, StepRunning DEF Undisturbed, IInv
  <2> QED
    BY <2>1, <2>2, <2>3 DEF Undisturbed
<1> QED
  BY <1>1, <1>2, <1>3, <1>4 DEF SNext

-----------------------------------------------------------------------------

\* Hence it holds in every reachable state.
LEMMA SInvAlways == SSpec => []SInv
BY SInitInv, SStepInv, PTL DEF SSpec

\* However often a state is restored and wherever the file was written: if
\* sound_save_stat and sound_restore_stat met no callback in the middle of its
\* work, count and indices agree, a read is covered by the count and a sleeper's
\* wake level is ahead (sound.c:1474-1482, which save and restore the whole
\* structure without sound_mutex).
THEOREM QuietRestoresAreSound == SSpec => []QuietStatesAreSound
<1>1. SInv => QuietStatesAreSound
  BY DEF SInv, Undisturbed, IInv, Flag, WakeStillAhead, QuietStatesAreSound
<1> QED
  BY <1>1, SInvAlways, PTL
=============================================================================
