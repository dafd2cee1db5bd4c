------------------------------ MODULE BankedRam ------------------------------
(***************************************************************************)
(* What memory behind a bank register promises to a game, whatever windows *)
(* and copies it is made of: every bank keeps its value until the game     *)
(* writes to that bank, what a battery holds is there after the program    *)
(* has been left, and a restored state brings back what was saved.         *)
(***************************************************************************)
CONSTANT Values

VARIABLES store,      \* the value in each bank
          selected,   \* the bank the game has selected
          covered,    \* something else answers at the addresses of the RAM
          battery,    \* whether the values outlive the program
          saved,      \* what the battery holds
          kept        \* the state the user saved, if there is one

ramvars == <<store, selected, covered, battery, saved, kept>>

Fresh == battery \in BOOLEAN /\ store = saved /\ kept = {}

\* The game writes to the bank it has selected, and to no other.
Write ==
  /\ ~covered /\ selected \in DOMAIN store
  /\ \E v \in Values : store' = [store EXCEPT ![selected] = v]
  /\ UNCHANGED <<selected, covered, battery, saved, kept>>

Select == UNCHANGED <<store, battery, saved, kept>>

TurnOff ==
  /\ saved' = IF battery THEN store ELSE saved
  /\ store' = saved'
  /\ UNCHANGED <<battery, kept>>

\* The process is killed: the battery holds what it held.
Kill == store' = saved /\ UNCHANGED <<battery, saved, kept>>

Keep ==
  /\ kept' = {[store |-> store, selected |-> selected]}
  /\ UNCHANGED <<store, selected, covered, battery, saved>>

GoBack ==
  /\ \E k \in kept : store' = k.store /\ selected' = k.selected
  /\ UNCHANGED <<battery, saved, kept>>

Moves == Write \/ Select \/ TurnOff \/ Kill \/ Keep \/ GoBack

Promise == Fresh /\ [][Moves]_ramvars
=============================================================================
