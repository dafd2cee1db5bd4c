-------------------------- MODULE PauseControlProofs --------------------------
(***************************************************************************)
(* Proofs about PauseControl for any set of keys, any number of key        *)
(* presses, and a console with or without a peer.  The invariant adds to   *)
(* the two properties what main's place in a call means: `step' belongs to *)
(* the call at the head of todo, a transfer is preceded by a pause, and a  *)
(* pause that is not being waited for has the emulator thread at rest,     *)
(* blocked, or in the instruction in which it was blocked.                 *)
(***************************************************************************)
EXTENDS PauseControl, TLAPS

\* `step' is a place inside the call that main is making.
StepOfCall ==
  /\ step # "call" => todo # <<>>
  /\ step = "set" => Head(todo) \in {"pause", "resume"}
  /\ step = "sleep" => Head(todo) = "pause" /\ global_pause
  /\ step = "post" => Head(todo) \in {"resume", "unpause"}

\* A transfer is made right after a pause, with the pause in force.
PausedFirst ==
  /\ \A i \in 2 .. Len(todo) :
       todo[i] \in {"save", "restore"} => todo[i - 1] = "pause"
  /\ todo # <<>> /\ Head(todo) \in {"save", "restore"} => global_pause

\* Where the emulator thread may be under a pause that is not waited for,
\* unless it came out of a wait since the pause was set.
Rest == {"head", "pausecheck", "semwait", "link", "sleep", "term", "done"}

PauseHolds == global_pause /\ step # "sleep" => emu \in Rest \/ waited

IInv == TypeOK /\ StepOfCall /\ PausedFirst /\ PauseHolds /\ WakePending

-----------------------------------------------------------------------------

\* A handler is a list of calls in which a transfer follows a pause.
LEMMA HandlerLists ==
  ASSUME NEW k \in Keys
  PROVE  /\ Handler(k) \in Seq(Calls)
         /\ \A i \in 2 .. Len(Handler(k)) :
              Handler(k)[i] \in {"save", "restore"} => Handler(k)[i - 1] = "pause"
         /\ Handler(k) # <<>> => Head(Handler(k)) \notin {"save", "restore"}
<1>1. k \in {"p", "n", "1", "2", "q", "stop"}
  BY PauseAssumption
<1> DEFINE Ok(s) == /\ s \in Seq(Calls)
                    /\ \A i \in 2 .. Len(s) :
                         s[i] \in {"save", "restore"} => s[i - 1] = "pause"
                    /\ s # <<>> => Head(s) \notin {"save", "restore"}
<1>2. Ok(<<>>)
  OBVIOUS
<1>3. Ok(<<"resume">>) /\ Ok(<<"pause">>) /\ Ok(<<"unpause">>)
  BY DEF Calls
<1>4. Ok(<<"resume", "next">>)
  BY DEF Calls
<1>5. Ok(<<"pause", "pause", "save", "resume">>)
  BY DEF Calls
<1>6. Ok(<<"pause", "pause", "restore", "resume">>)
  BY DEF Calls
<1>7. Handler(k) \in {<<>>, <<"resume">>, <<"pause">>, <<"unpause">>,
         <<"resume", "next">>, <<"pause", "pause", "save", "resume">>,
         <<"pause", "pause", "restore", "resume">>}
  BY <1>1 DEF Handler
<1> HIDE DEF Ok
<1>8. Ok(Handler(k))
  BY <1>2, <1>3, <1>4, <1>5, <1>6, <1>7
<1> QED
  BY <1>8 DEF Ok

\* What is left of the list after its first call.
LEMMA TailOfCalls ==
  ASSUME NEW s \in Seq(Calls), s # <<>>
  PROVE  /\ Tail(s) \in Seq(Calls)
         /\ Head(s) \in Calls
         /\ Len(Tail(s)) = Len(s) - 1
         /\ \A i \in 1 .. Len(s) - 1 : Tail(s)[i] = s[i + 1]
         /\ Tail(s) # <<>> => Len(s) >= 2 /\ Head(Tail(s)) = s[2]
         /\ s[1] = Head(s)
OBVIOUS

\* Returning from the call at the head of the list keeps the list in order; it
\* brings a transfer to the head only if that call was a pause.
LEMMA Returning ==
  ASSUME TypeOK, PausedFirst, todo # <<>>, todo' = Tail(todo)
  PROVE  /\ todo' \in Seq(Calls)
         /\ \A i \in 2 .. Len(todo') :
              todo'[i] \in {"save", "restore"} => todo'[i - 1] = "pause"
         /\ todo' # <<>> /\ Head(todo') \in {"save", "restore"}
              => Head(todo) = "pause"
<1>1. todo \in Seq(Calls)
  BY DEF TypeOK, instr
<1>2. /\ Tail(todo) \in Seq(Calls)
      /\ Len(Tail(todo)) = Len(todo) - 1
      /\ \A i \in 1 .. Len(todo) - 1 : Tail(todo)[i] = todo[i + 1]
      /\ Tail(todo) # <<>> => Len(todo) >= 2 /\ Head(Tail(todo)) = todo[2]
      /\ todo[1] = Head(todo)
  BY <1>1, TailOfCalls
<1>3. ASSUME NEW i \in 2 .. Len(todo'), todo'[i] \in {"save", "restore"}
      PROVE  todo'[i - 1] = "pause"
  <2>1. i \in Nat /\ i >= 2 /\ i <= Len(todo) - 1
    BY <1>1, <1>2
  <2>2. todo'[i] = todo[i + 1] /\ todo'[i - 1] = todo[i]
    BY <1>1, <1>2, <2>1
  <2> QED
    BY <1>1, <1>3, <2>1, <2>2 DEF PausedFirst
<1>4. ASSUME todo' # <<>>, Head(todo') \in {"save", "restore"}
      PROVE  Head(todo) = "pause"
  BY <1>1, <1>2, <1>4 DEF PausedFirst
<1> QED
  BY <1>2, <1>3, <1>4

\* The program starts with nothing pressed and nothing paused.
LEMMA InitIInv == Init => IInv
<1> SUFFICES ASSUME Init PROVE IInv
  OBVIOUS
<1>1. TypeOK
  <2>1. todo \in Seq(Calls)
    BY DEF Init
  <2>2. sem \in Nat /\ keys \in 0 .. MaxKeys
    BY PauseAssumption DEF Init, PauseAssumption
  <2>3. /\ global_quit \in BOOLEAN /\ global_pause \in BOOLEAN
        /\ global_next_frame \in BOOLEAN
    BY Zenon DEF Init
  <2>4. emu \in EmuPC /\ main = "loop" /\ step = "call"
    BY DEF Init, EmuPC
  <2>5. did \subseteq {"frame", "link"} /\ waited \in BOOLEAN
    BY DEF Init
  <2> QED
    BY <2>1, <2>2, <2>3, <2>4, <2>5 DEF TypeOK, instr
<1>2. StepOfCall /\ PauseHolds /\ WakePending
  BY DEF Init, StepOfCall, PauseHolds, WakePending
<1>3. PausedFirst
  BY DEF Init, PausedFirst
<1> QED
  BY <1>1, <1>2, <1>3 DEF IInv

\* A step of the emulator thread leaves main's list alone and never leaves the
\* places where a pause keeps it.
LEMMA EmulateIInv == IInv /\ Emulate => IInv'
<1> SUFFICES ASSUME IInv, Emulate PROVE IInv'
  OBVIOUS
<1> USE DEF IInv
<1>1. UNCHANGED <<main, todo, step, keys>>
  BY DEF Emulate, EmuHead, EmuPauseCheck, EmuSemWait, EmuEnds, EmuDraws, EmuSync,
         EmuSynced, EmuFrame, EmuCompare, EmuSet, EmuSlept, EmuTerm, ui
<1>2. global_pause => global_pause'
  BY DEF Emulate, EmuHead, EmuPauseCheck, EmuSemWait, EmuEnds, EmuDraws, EmuSync,
         EmuSynced, EmuFrame, EmuCompare, EmuSet, EmuSlept, EmuTerm, globals
<1>3. TypeOK'
  <2>1. emu' \in EmuPC
    BY DEF Emulate, EmuHead, EmuPauseCheck, EmuSemWait, EmuEnds, EmuDraws, EmuSync,
           EmuSynced, EmuFrame, EmuCompare, EmuSet, EmuSlept, EmuTerm, Emu, EmuPC
  <2>2. sem' \in Nat
    BY DEF TypeOK, Emulate, EmuHead, EmuPauseCheck, EmuSemWait, EmuEnds, EmuDraws,
           EmuSync, EmuSynced, EmuFrame, EmuCompare, EmuSet, EmuSlept, EmuTerm
  <2>3. /\ global_quit' \in BOOLEAN /\ global_pause' \in BOOLEAN
        /\ global_next_frame' \in BOOLEAN
    BY Zenon DEF TypeOK, Emulate, EmuHead, EmuPauseCheck, EmuSemWait,
           EmuEnds, EmuDraws, EmuSync, EmuSynced, EmuFrame, EmuCompare, EmuSet,
           EmuSlept, EmuTerm, globals
  <2>4. did' \subseteq {"frame", "link"} /\ waited' \in BOOLEAN
    BY DEF TypeOK, Emulate, EmuHead, EmuPauseCheck, EmuSemWait, EmuEnds,
           EmuDraws, EmuSync, EmuSynced, EmuFrame, EmuCompare, EmuSet, EmuSlept,
           EmuTerm, instr
  <2> QED
    BY <1>1, <2>1, <2>2, <2>3, <2>4 DEF TypeOK
<1>4. StepOfCall'
  BY <1>1, <1>2 DEF StepOfCall
<1>5. PausedFirst'
  BY <1>1, <1>2 DEF PausedFirst
<1>6. PauseHolds'
  BY <1>1 DEF PauseHolds, Rest, Emulate, EmuHead, EmuPauseCheck, EmuSemWait,
              EmuEnds, EmuDraws, EmuSync, EmuSynced, EmuFrame, EmuCompare, EmuSet,
              EmuSlept, EmuTerm, Emu, globals, instr
<1>7. WakePending'
  BY <1>1 DEF WakePending, TypeOK, Emulate, EmuHead, EmuPauseCheck, EmuSemWait,
              EmuEnds, EmuDraws, EmuSync, EmuSynced, EmuFrame, EmuCompare, EmuSet,
              EmuSlept, EmuTerm, Emu, globals
<1> QED
  BY <1>3, <1>4, <1>5, <1>6, <1>7

\* A step of main: a call of a handler begins, goes on or returns.
LEMMA HandleIInv == IInv /\ Handle => IInv'
<1> SUFFICES ASSUME IInv, Handle PROVE IInv'
  OBVIOUS
<1> USE DEF IInv
<1>1. CASE PauseCompare
  <2>1. PICK c \in {"pause", "resume"} :
          /\ Call(c) /\ step = "call"
          /\ IF global_pause = (c = "pause") THEN Return
                                             ELSE step' = "set" /\ UNCHANGED todo
    BY <1>1 DEF PauseCompare
  <2>2. UNCHANGED <<globals, sem, emu, instr, main, keys>>
    BY <1>1 DEF PauseCompare
  <2>3. todo # <<>> /\ Head(todo) = c
    BY <2>1 DEF Call
  <2>4. CASE global_pause = (c = "pause")
    <3>1. todo' = Tail(todo) /\ step' = "call"
      BY <2>1, <2>4 DEF Return
    <3>2. c = "pause" => global_pause
      BY <2>4
    <3>3. TypeOK'
      BY <2>2, <2>3, <3>1, Returning DEF TypeOK, globals, instr
    <3>4. StepOfCall'
      BY <3>1 DEF StepOfCall
    <3>5. PausedFirst'
      BY <2>2, <2>3, <3>1, <3>2, Returning DEF PausedFirst, globals
    <3>6. PauseHolds' /\ WakePending'
      BY <2>1, <2>2, <3>1 DEF PauseHolds, WakePending, globals, instr
    <3> QED
      BY <3>3, <3>4, <3>5, <3>6
  <2>5. CASE ~(global_pause = (c = "pause"))
    <3>1. step' = "set" /\ UNCHANGED todo
      BY <2>1, <2>5
    <3> QED
      BY <2>1, <2>2, <2>3, <3>1
      DEF TypeOK, StepOfCall, PausedFirst, PauseHolds, WakePending, globals, instr
  <2> QED
    BY <2>4, <2>5
<1>2. CASE PauseSet
  <2>1. PICK c \in {"pause", "resume"} :
          /\ Call(c) /\ step = "set"
          /\ global_pause' = (c = "pause")
          /\ step' = IF c = "pause" THEN "sleep" ELSE "post"
    BY <1>2 DEF PauseSet
  <2>2. /\ UNCHANGED <<global_quit, global_next_frame, sem, emu, did, main, todo, keys>>
        /\ waited' = FALSE
    BY <1>2 DEF PauseSet
  <2>3. todo # <<>> /\ Head(todo) = c
    BY <2>1 DEF Call
  <2>4. CASE c = "pause"
    <3>1. step' = "sleep" /\ global_pause' = TRUE
      BY <2>1, <2>4
    <3> QED
      BY <2>2, <2>3, <2>4, <3>1
      DEF TypeOK, StepOfCall, PausedFirst, PauseHolds, WakePending, instr
  <2>5. CASE c = "resume"
    <3>1. step' = "post" /\ global_pause' = FALSE
      BY <2>1, <2>5
    <3> QED
      BY <2>2, <2>3, <2>5, <3>1
      DEF TypeOK, StepOfCall, PausedFirst, PauseHolds, WakePending, instr
  <2> QED
    BY <2>4, <2>5
<1>3. CASE PauseSlept
  <2>1. /\ todo # <<>> /\ Head(todo) = "pause" /\ step = "sleep"
        /\ emu \in {"semwait", "link", "sleep", "done"} \/ waited
        /\ todo' = Tail(todo) /\ step' = "call"
        /\ UNCHANGED <<globals, sem, emu, instr, main, keys>>
    BY <1>3 DEF PauseSlept, Call, Return
  <2>2. TypeOK'
    BY <2>1, Returning DEF TypeOK, globals, instr
  <2>3. PausedFirst'
    BY <2>1, Returning DEF PausedFirst, StepOfCall, globals
  <2>4. StepOfCall' /\ PauseHolds' /\ WakePending'
    BY <2>1 DEF StepOfCall, PauseHolds, Rest, WakePending, globals, instr
  <2> QED
    BY <2>2, <2>3, <2>4
<1>4. CASE ResumePost
  <2>1. /\ step = "post" /\ sem' = sem + 1
        /\ todo' = Tail(todo) /\ step' = "call"
        /\ UNCHANGED <<globals, emu, instr, main, keys>>
    BY <1>4 DEF ResumePost, Return
  <2>2. todo # <<>> /\ Head(todo) # "pause"
    BY <2>1 DEF StepOfCall
  <2>3. TypeOK'
    BY <2>1, <2>2, Returning DEF TypeOK, globals, instr
  <2>4. PausedFirst'
    BY <2>1, <2>2, Returning DEF PausedFirst, globals
  <2>5. StepOfCall' /\ PauseHolds' /\ WakePending'
    BY <2>1 DEF StepOfCall, PauseHolds, WakePending, TypeOK, globals, instr
  <2> QED
    BY <2>3, <2>4, <2>5
<1>5. CASE NextFrame \/ Snapshot
  <2>1. /\ todo # <<>> /\ Head(todo) \in {"next", "save", "restore"}
        /\ todo' = Tail(todo) /\ step' = "call"
        /\ UNCHANGED <<global_quit, global_pause, sem, emu, instr, main, keys>>
        /\ global_next_frame' \in BOOLEAN
    BY <1>5 DEF NextFrame, Snapshot, Call, Return, TypeOK, globals
  <2>2. step = "call"
    BY <2>1 DEF StepOfCall, TypeOK
  <2>3. TypeOK'
    BY <2>1, Returning DEF TypeOK, instr
  <2>4. PausedFirst'
    BY <2>1, Returning DEF PausedFirst
  <2>5. StepOfCall' /\ PauseHolds' /\ WakePending'
    BY <2>1, <2>2 DEF StepOfCall, PauseHolds, WakePending, instr
  <2> QED
    BY <2>3, <2>4, <2>5
<1>6. CASE StopUnpause
  <2>1. /\ todo # <<>> /\ Head(todo) = "unpause" /\ step = "call"
        /\ global_pause' = FALSE
        /\ UNCHANGED <<global_quit, global_next_frame, sem, emu, instr, main, keys>>
    BY <1>6 DEF StopUnpause, Call
  <2>2. CASE global_pause
    <3>1. step' = "post" /\ UNCHANGED todo
      BY <1>6, <2>2 DEF StopUnpause
    <3> QED
      BY <2>1, <3>1
      DEF TypeOK, StepOfCall, PausedFirst, PauseHolds, WakePending, instr
  <2>3. CASE ~global_pause
    <3>1. todo' = Tail(todo) /\ step' = "call"
      BY <1>6, <2>3 DEF StopUnpause, Return
    <3>2. TypeOK'
      BY <2>1, <3>1, Returning DEF TypeOK, instr
    <3>3. PausedFirst'
      BY <2>1, <3>1, Returning DEF PausedFirst
    <3>4. StepOfCall' /\ PauseHolds' /\ WakePending'
      BY <2>1, <2>3, <3>1 DEF StepOfCall, PauseHolds, WakePending, instr
    <3> QED
      BY <3>2, <3>3, <3>4
  <2> QED
    BY <2>2, <2>3
<1>7. CASE MainLeave \/ MainJoin
  <2>1. /\ UNCHANGED <<globals, sem, emu, instr, todo, step, keys>>
        /\ main' \in {"join", "exited"}
    BY <1>7 DEF MainLeave, MainJoin
  <2>2. UNCHANGED <<global_quit, global_pause, global_next_frame, did, waited>>
    BY <2>1 DEF globals, instr
  <2>3. TypeOK'
    BY <2>1, <2>2 DEF TypeOK
  <2>4. StepOfCall' /\ PausedFirst'
    BY <2>1, <2>2 DEF StepOfCall, PausedFirst
  <2>5. PauseHolds' /\ WakePending'
    BY <2>1, <2>2 DEF PauseHolds, WakePending
  <2> QED
    BY <2>3, <2>4, <2>5
<1> QED
  BY <1>1, <1>2, <1>3, <1>4, <1>5, <1>6, <1>7 DEF Handle

\* A key press puts a handler's list in the place of an empty one.
LEMMA KeyIInv == ASSUME IInv, NEW k \in Keys, Key(k) PROVE IInv'
<1> USE DEF IInv
<1>1. /\ todo = <<>> /\ keys < MaxKeys /\ keys' = keys + 1
      /\ todo' = Handler(k) /\ global_quit' = (k \in {"q", "stop"})
      /\ UNCHANGED <<global_pause, global_next_frame, sem, emu, instr, main, step>>
  BY DEF Key
<1>2. step = "call"
  BY <1>1 DEF StepOfCall, TypeOK
<1>3. TypeOK'
  BY <1>1, HandlerLists, PauseAssumption DEF TypeOK, instr
<1>4. PausedFirst'
  BY <1>1, HandlerLists DEF PausedFirst
<1>5. StepOfCall' /\ PauseHolds' /\ WakePending'
  BY <1>1, <1>2 DEF StepOfCall, PauseHolds, WakePending, instr
<1> QED
  BY <1>3, <1>4, <1>5

\* Every step preserves the invariant.
LEMMA StepIInv == IInv /\ [Next]_vars => IInv'
<1> SUFFICES ASSUME IInv, [Next]_vars PROVE IInv'
  OBVIOUS
<1>1. CASE UNCHANGED vars
  BY <1>1 DEF IInv, TypeOK, StepOfCall, PausedFirst, PauseHolds, WakePending,
              vars, globals, instr, ui
<1> QED
  BY <1>1, EmulateIInv, HandleIInv, KeyIInv DEF Next

\* Hence the invariant holds in every reachable state.
LEMMA IInvAlways == Spec => []IInv
BY InitIInv, StepIInv, PTL DEF Spec

-----------------------------------------------------------------------------

\* The semaphore's value, the list of calls and both threads keep their types
\* (gameboy.c:133-193, pizza.c:163-262).
THEOREM Typing == Spec => []TypeOK
<1>1. IInv => TypeOK
  BY DEF IInv
<1> QED
  BY <1>1, IInvAlways, PTL

\* An emulator thread that still waits when the pause is over always has a post
\* to take, or one about to be made (gameboy.c:154-157, 192-193, 306-309).
THEOREM WakesPending == Spec => []WakePending
<1>1. IInv => WakePending
  BY DEF IInv
<1> QED
  BY <1>1, IInvAlways, PTL

\* A state is saved or restored while no instruction is half done, except when
\* the emulator thread is blocked on the link, asleep in its own pause, or on
\* its way from one of these to the end of the instruction it is part of
\* (gameboy.c:324, 372 after 143-149; cycles.c:224, gpu.c:240).
THEOREM SnapshotsAtRest == Spec => []SnapshotAtRestUnlessBlocked
<1>1. IInv => SnapshotAtRestUnlessBlocked
  <2> SUFFICES ASSUME IInv, Snapshotting PROVE SnapshotAtRestUnlessBlocked
    BY DEF SnapshotAtRestUnlessBlocked
  <2>1. todo # <<>> /\ Head(todo) \in {"save", "restore"}
    BY DEF Snapshotting, Call
  <2>2. global_pause /\ step # "sleep"
    BY <2>1 DEF IInv, PausedFirst, StepOfCall
  <2> QED
    BY <2>2 DEF IInv, PauseHolds, Rest, SnapshotAtRestUnlessBlocked, AtRest
<1> QED
  BY <1>1, IInvAlways, PTL
=============================================================================
