---------------------------- MODULE PauseControl ----------------------------
(***************************************************************************)
(* How the user interface thread (main of pizza.c) and the emulator thread *)
(* (gameboy_run of lib/gameboy.c) share global_pause, global_quit,         *)
(* global_next_frame and the semaphore gameboy_sem: pausing, frame         *)
(* advance, saving and restoring a state, and leaving the program.         *)
(*                                                                         *)
(* `emu' is the statement the emulator thread is about to execute; main is *)
(* the list `todo' of calls its key handler still has to make, with `step' *)
(* its place inside gameboy_set_pause.  gameboy_stop, which main never     *)
(* calls, is the exit a different front end would use.                     *)
(***************************************************************************)
EXTENDS Naturals, Sequences

CONSTANTS Keys,      \* the keys a user presses, "stop" for gameboy_stop
          Linked,    \* TRUE if a peer is connected (hard sync mode)
          MaxKeys    \* bound of the model: keys pressed in a run

ASSUME PauseAssumption ==
  /\ Keys \subseteq {"p", "n", "1", "2", "q", "stop"}
  /\ Linked \in BOOLEAN
  /\ MaxKeys \in Nat

VARIABLES
  global_quit, global_pause, global_next_frame,
  sem,       \* the value of gameboy_sem
  emu,       \* the emulator thread
  did,       \* what the instruction under way has done: "frame", "link"
  waited,    \* it came out of a wait, and global_pause was not written since
  main,      \* "loop", "join" (waiting for the emulator) or "exited"
  todo, step,
  keys       \* keys pressed so far

globals == <<global_quit, global_pause, global_next_frame>>
ui      == <<main, todo, step, keys>>
instr   == <<did, waited>>
vars    == <<globals, sem, emu, instr, ui>>

EmuPC == {"head", "pausecheck", "semwait", "exec", "link", "frame", "cmp",
          "set", "sleep", "term", "done"}
Calls == {"pause", "resume", "next", "save", "restore", "unpause"}

Init ==
  /\ global_quit = FALSE /\ global_pause = FALSE /\ global_next_frame = FALSE
  /\ sem = 0
  /\ emu = "head" /\ did = {} /\ waited = FALSE
  /\ main = "loop" /\ todo = <<>> /\ step = "call" /\ keys = 0

Emu(from, to) == emu = from /\ emu' = to

-----------------------------------------------------------------------------
(* The emulator thread.                                                    *)

\* while (!global_quit) ...
EmuHead ==
  /\ Emu("head", IF global_quit THEN "term" ELSE "pausecheck")
  /\ UNCHANGED <<globals, sem, instr, ui>>

\* while (global_pause) sem_wait(&gameboy_sem);
EmuPauseCheck ==
  /\ Emu("pausecheck", IF global_pause THEN "semwait" ELSE "exec")
  /\ UNCHANGED <<globals, sem, instr, ui>>

EmuSemWait ==
  /\ Emu("semwait", "pausecheck")
  /\ sem > 0 /\ sem' = sem - 1
  /\ UNCHANGED <<globals, instr, ui>>

\* One instruction, and the interrupt it may be followed by.  Its cycles reach
\* the end of a frame (gpu_draw_frame) and the hard sync at most once each, in
\* the middle: what is left of the cycle and of the instruction runs after it.
EmuEnds ==
  /\ Emu("exec", "head")
  /\ did' = {} /\ waited' = FALSE
  /\ UNCHANGED <<globals, sem, ui>>

EmuDraws ==
  /\ Emu("exec", "frame")
  /\ "frame" \notin did /\ did' = did \cup {"frame"}
  /\ UNCHANGED <<globals, sem, waited, ui>>

\* network_send_data ends the game if the peers are out of step, and
\* serial_wait_data blocks for up to 3 seconds.
EmuSync ==
  /\ Linked
  /\ Emu("exec", "link")
  /\ "link" \notin did /\ did' = did \cup {"link"}
  /\ \E outOfStep \in BOOLEAN : global_quit' = (global_quit \/ outOfStep)
  /\ UNCHANGED <<global_pause, global_next_frame, sem, waited, ui>>

EmuSynced ==
  /\ Emu("link", "exec")
  /\ waited' = TRUE
  /\ UNCHANGED <<globals, sem, did, ui>>

\* The end of gpu_draw_frame: a frame advance pauses its own thread.
EmuFrame ==
  /\ Emu("frame", IF global_next_frame THEN "cmp" ELSE "exec")
  /\ global_next_frame' = FALSE
  /\ UNCHANGED <<global_quit, global_pause, sem, instr, ui>>

\* gameboy_set_pause(1) on the emulator thread: compare, set, sleep 100 ms.
EmuCompare ==
  /\ Emu("cmp", IF global_pause THEN "exec" ELSE "set")
  /\ UNCHANGED <<globals, sem, instr, ui>>

EmuSet ==
  /\ Emu("set", "sleep")
  /\ global_pause' = TRUE
  /\ UNCHANGED <<global_quit, global_next_frame, sem, instr, ui>>

EmuSlept ==
  /\ Emu("sleep", "exec")
  /\ waited' = TRUE
  /\ UNCHANGED <<globals, sem, did, ui>>

\* The end of gameboy_run and of start_thread.
EmuTerm ==
  /\ Emu("term", "done")
  /\ global_quit' = TRUE
  /\ UNCHANGED <<global_pause, global_next_frame, sem, instr, ui>>

-----------------------------------------------------------------------------
(* main.                                                                   *)

\* The calls a key handler makes, in order.  Saving and restoring call
\* gameboy_set_pause(1) themselves, and main calls it around them.
Handler(k) ==
  CASE k = "p"    -> IF global_pause THEN <<"resume">> ELSE <<"pause">>
    [] k = "n"    -> <<"resume", "next">>
    [] k = "1"    -> <<"pause", "pause", "save", "resume">>
    [] k = "2"    -> <<"pause", "pause", "restore", "resume">>
    [] k = "q"    -> <<>>
    [] k = "stop" -> <<"unpause">>

Key(k) ==
  /\ main = "loop" /\ todo = <<>> /\ ~global_quit
  /\ keys < MaxKeys /\ keys' = keys + 1
  /\ todo' = Handler(k)
  /\ global_quit' = (k \in {"q", "stop"})
  /\ UNCHANGED <<global_pause, global_next_frame, sem, emu, instr, main, step>>

Call(c) == main = "loop" /\ todo # <<>> /\ Head(todo) = c
Return  == todo' = Tail(todo) /\ step' = "call"

\* gameboy_set_pause returns at once if there is nothing to change ...
PauseCompare ==
  /\ \E c \in {"pause", "resume"} :
       /\ Call(c) /\ step = "call"
       /\ IF global_pause = (c = "pause") THEN Return
                                          ELSE step' = "set" /\ UNCHANGED todo
  /\ UNCHANGED <<globals, sem, emu, instr, main, keys>>

\* (slips: a resume does not post the semaphore; a pause does not wait)
ResumeSilent ==
  /\ \E c \in {"pause", "resume"} :
       /\ Call(c) /\ step = "set"
       /\ global_pause' = (c = "pause")
       /\ IF c = "pause" THEN step' = "sleep" /\ UNCHANGED todo ELSE Return
  /\ waited' = FALSE
  /\ UNCHANGED <<global_quit, global_next_frame, sem, emu, did, main, keys>>
PauseHasty ==
  /\ Call("pause") /\ step = "sleep"
  /\ Return
  /\ UNCHANGED <<globals, sem, emu, instr, main, keys>>

PauseSet ==
  /\ \E c \in {"pause", "resume"} :
       /\ Call(c) /\ step = "set"
       /\ global_pause' = (c = "pause")
       /\ step' = IF c = "pause" THEN "sleep" ELSE "post"
  /\ waited' = FALSE
  /\ UNCHANGED <<global_quit, global_next_frame, sem, emu, did, main, todo, keys>>

\* "wait a bit - i need the main cycle fall into global_pause check".  A
\* thread that is not blocked gets to its next check within the 100 ms; one
\* that waits for the peer, or sleeps itself, need not, and one whose wait
\* ended within the 100 ms may still be anywhere in its instruction.
PauseSlept ==
  /\ Call("pause") /\ step = "sleep"
  /\ emu \in {"semwait", "link", "sleep", "done"} \/ waited
  /\ Return
  /\ UNCHANGED <<globals, sem, emu, instr, main, keys>>

ResumePost ==
  /\ step = "post"
  /\ sem' = sem + 1
  /\ Return
  /\ UNCHANGED <<globals, emu, instr, main, keys>>

NextFrame ==
  /\ Call("next")
  /\ global_next_frame' = TRUE
  /\ Return
  /\ UNCHANGED <<global_quit, global_pause, sem, emu, instr, main, keys>>

\* The transfer between the state of the modules and the file.
Snapshot ==
  /\ Call("save") \/ Call("restore")
  /\ Return
  /\ UNCHANGED <<globals, sem, emu, instr, main, keys>>

\* (a slip: the flag falls and nobody is woken)
StopSilent ==
  /\ Call("unpause") /\ step = "call"
  /\ global_pause' = FALSE
  /\ Return
  /\ UNCHANGED <<global_quit, global_next_frame, sem, emu, instr, main, keys>>

\* The rest of gameboy_stop: if (global_pause) { global_pause = 0; sem_post }
StopUnpause ==
  /\ Call("unpause") /\ step = "call"
  /\ IF global_pause THEN step' = "post" /\ UNCHANGED todo ELSE Return
  /\ global_pause' = FALSE
  /\ UNCHANGED <<global_quit, global_next_frame, sem, emu, instr, main, keys>>

\* The end of main's loop, and pthread_join(thread, NULL) after it.
MainLeave ==
  /\ main = "loop" /\ todo = <<>> /\ global_quit
  /\ main' = "join"
  /\ UNCHANGED <<globals, sem, emu, instr, todo, step, keys>>

MainJoin ==
  /\ main = "join" /\ emu = "done"
  /\ main' = "exited"
  /\ UNCHANGED <<globals, sem, emu, instr, todo, step, keys>>

-----------------------------------------------------------------------------

Emulate == \/ EmuHead \/ EmuPauseCheck \/ EmuSemWait \/ EmuEnds \/ EmuDraws
           \/ EmuSync \/ EmuSynced \/ EmuFrame \/ EmuCompare \/ EmuSet
           \/ EmuSlept \/ EmuTerm
Handle  == \/ PauseCompare \/ PauseSet \/ PauseSlept \/ ResumePost
           \/ NextFrame \/ Snapshot \/ StopUnpause \/ MainLeave \/ MainJoin

Next == Emulate \/ Handle \/ \E k \in Keys : Key(k)

Spec == Init /\ [][Next]_vars

\* Both threads run whenever they can; nobody has to press a key.
FairSpec == Spec /\ WF_vars(Emulate) /\ WF_vars(Handle)

-----------------------------------------------------------------------------
(* Properties.                                                             *)

TypeOK ==
  /\ global_quit \in BOOLEAN /\ global_pause \in BOOLEAN
  /\ global_next_frame \in BOOLEAN
  /\ sem \in Nat
  /\ emu \in EmuPC
  /\ did \subseteq {"frame", "link"} /\ waited \in BOOLEAN
  /\ main \in {"loop", "join", "exited"}
  /\ todo \in Seq(Calls)
  /\ step \in {"call", "set", "sleep", "post"}
  /\ keys \in 0 .. MaxKeys

\* No wake-up is lost: an emulator thread that waits although the pause is
\* over has a post to take, or main is about to make it.
WakePending ==
  (emu = "semwait" /\ ~global_pause) => (sem > 0 \/ step = "post")

\* Between two instructions, and kept there by the pause.
AtRest == global_pause /\ emu \in {"head", "pausecheck", "semwait"}

Snapshotting == Call("save") \/ Call("restore")

\* A state is saved or restored while no instruction is under way, except in
\* three situations: the emulator thread is blocked on the link; it is asleep
\* in the pause of a frame advance, which is in gpu_draw_frame; or it came out
\* of one of these since the pause was set and has not finished the
\* instruction they are part of.
SnapshotAtRestUnlessBlocked ==
  Snapshotting => AtRest \/ emu \in {"link", "sleep"} \/ waited
                         \/ emu \in {"term", "done"}

\* A quit while the game is not paused ends both threads, whatever else was
\* going on: a pause in progress, a frame advance, a wait for the peer.
RunningQuitEnds ==
  (global_quit /\ ~global_pause /\ main # "exited") ~> main = "exited"

\* After gameboy_stop the emulator thread ends, paused or not: "wake up" of
\* gameboy.c:305 reaches it.
StopEnds == Call("unpause") ~> emu = "done"
=============================================================================
