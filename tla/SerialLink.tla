----------------------------- MODULE SerialLink -----------------------------
(***************************************************************************)
(* Two consoles joined by the network link cable: lib/serial.c, the hard   *)
(* sync step of lib/cycles.c and the 'M' messages of lib/network.c, with   *)
(* both ends connected and in hard sync mode.                              *)
(*                                                                         *)
(* Every 16384 cycles a console's emulator thread makes one ROUND: it      *)
(* sends its state (serial_send_byte), waits for the peer's                *)
(* (serial_wait_data, up to 3 seconds) and looks whether the couple is a   *)
(* transfer (serial_verify_intr).  Its network thread hands arriving       *)
(* messages to serial_recv_byte.  The first two and serial_recv_byte hold  *)
(* serial_mutex, serial_verify_intr does not.  The wait may end without a  *)
(* message on any network: the 3 seconds pass (the peer is paused, slow or *)
(* gone), or the wake-up is spurious, and no loop surrounds it.            *)
(*                                                                         *)
(* A byte is identified by the round in which its sender sent it.  The six *)
(* bit-fields that share one byte of serial_t are the record `bits'; an    *)
(* assignment to one of them outside the other thread's exclusion is a     *)
(* load and a later store of the whole byte.                               *)
(***************************************************************************)
EXTENDS Naturals, Sequences

CONSTANTS A, B,          \* the two consoles
          PROG,          \* 2^8: modulus of the progressive numbers
          Lossy,         \* the networks: TRUE if it loses, repeats and
                         \* reorders messages
          Starts,        \* Starts[l]: the progressive numbers that earlier
                         \* connections left on both, on network l
          SCWrites,      \* SCWrites[l][n]: what n's game writes to SC on
                         \* network l, as [clock, start]
          Rounds,        \* bound of the model: Rounds[l] is the number of
                         \* rounds a console may make on network l, and
          Overdue        \* bound of the model: Overdue on one that loses
                         \* nothing, once a wait ended without a message

ASSUME LinkAssumption ==
  /\ A # B
  /\ PROG \in Nat \ {0, 1, 2}
  /\ Lossy \subseteq BOOLEAN
  /\ Starts \in [Lossy -> SUBSET [{A, B} -> 0 .. PROG - 1]]
  /\ SCWrites \in [Lossy -> [{A, B} -> SUBSET [clock : BOOLEAN, start : BOOLEAN]]]
  /\ Rounds \in [Lossy -> Nat] /\ Overdue \in Nat

Node    == {A, B}
Peer(n) == IF n = A THEN B ELSE A

VARIABLES
  clock, transfer_start,   \* the two bits of SC (0xFF02) that matter
  bits,                    \* the shared byte of bit-fields, see NoBits
  data_to_recv,            \* the byte received, as a round of the peer
  second,                  \* serial_second_*, or NoMessage
  waiting,                 \* serial_waiting_data
  pc,                      \* the emulator thread
  regs,                    \* its loaded copy of `bits'
  net,                     \* the network thread
  netmsg, netregs,         \* the message it handles, its copy of `bits'
  chan,                    \* chan[n]: messages sent to n
  prog_sent, prog_recv,    \* network_prog_sent, network_prog_recv
  left,                    \* history: the numbers they began with
  global_quit,
  lossy,                   \* the network of this behaviour
  rounds,                  \* history: rounds begun
  log,                     \* history, on a network that loses nothing: the
                           \* couples each console looked at;
  raced,                   \* serial_recv_byte overlapped a verify;
  unanswered,              \* a wait ended without a message (log stops)
  turned                   \* history, on one that does: a message came so
                           \* late that the numbers had turned over since

sc    == <<clock, transfer_start>>
emu   == <<pc, regs, waiting>>
netw  == <<net, netmsg, netregs, prog_recv>>
hist  == <<left, lossy, rounds, log, raced, unanswered, turned>>
vars  == <<sc, bits, data_to_recv, second, emu, netw, chan, prog_sent,
           global_quit, hist>>

NoMessage == [byte |-> 0, clock |-> FALSE, start |-> FALSE, prog |-> 0]
NoBits    == [sent |-> FALSE, sent_clock |-> FALSE, sent_start |-> FALSE,
              recv |-> FALSE, recv_clock |-> FALSE, recv_start |-> FALSE]

Init ==
  /\ clock = [n \in Node |-> FALSE]
  /\ transfer_start = [n \in Node |-> FALSE]
  /\ bits = [n \in Node |-> NoBits]
  /\ data_to_recv = [n \in Node |-> 0]
  /\ second = [n \in Node |-> NoMessage]
  /\ waiting = [n \in Node |-> FALSE]
  /\ pc = [n \in Node |-> "run"]
  /\ regs = [n \in Node |-> NoBits]
  /\ net = [n \in Node |-> "idle"]
  /\ netmsg = [n \in Node |-> NoMessage]
  /\ netregs = [n \in Node |-> NoBits]
  /\ chan = [n \in Node |-> <<>>]
  /\ global_quit = [n \in Node |-> FALSE]
  /\ lossy \in Lossy
  /\ left \in Starts[lossy]    \* a peer may have been started anew
  /\ prog_sent = left
  /\ prog_recv = left
  /\ rounds = [n \in Node |-> 0]
  /\ log = [n \in Node |-> <<>>]
  /\ raced = FALSE
  /\ unanswered = FALSE
  /\ turned = FALSE

\* A console whose game has not ended makes rounds, within the bounds.
Playing(n) == /\ ~global_quit[n]
              /\ rounds[n] < Rounds[lossy]
              /\ unanswered => rounds[n] < Overdue

Goto(n, from, to) == pc[n] = from /\ pc' = [pc EXCEPT ![n] = to]

\* The network thread holds serial_mutex from its test to its stores; every
\* other critical section is one step.
Holding(n)   == net[n] \in {"store", "second"}
MutexFree(n) == ~Holding(n)

-----------------------------------------------------------------------------
(* The emulator thread.                                                    *)

\* serial_write_reg on 0xFF02: a new transfer, or none; "reset?" data_sent.
WriteSC(n) ==
  /\ pc[n] = "run" /\ Playing(n)
  /\ MutexFree(n)
  /\ \E v \in SCWrites[lossy][n] :
       /\ clock' = [clock EXCEPT ![n] = v.clock]
       /\ transfer_start' = [transfer_start EXCEPT ![n] = v.start]
  /\ bits' = [bits EXCEPT ![n].sent = FALSE]
  /\ UNCHANGED <<data_to_recv, second, emu, netw, chan, prog_sent,
                 global_quit, hist>>

\* uint8_t: the progressive number after p.
Succ(p) == (p + 1) % PROG

\* (slips: the promotion to int is forgotten; one more round is tolerated)
OutOfStepUncast(n, sent) == /\ sent # prog_recv[n]
                            /\ sent # prog_recv[n] + 1
OutOfStepLoose(n, sent)  == /\ sent # prog_recv[n]
                            /\ sent # Succ(prog_recv[n])
                            /\ sent # Succ(Succ(prog_recv[n]))

\* network_send_data's test of the two progressive numbers.
OutOfStep(n, sent) == /\ sent # prog_recv[n]
                      /\ sent # Succ(prog_recv[n])

\* serial_send_byte and, still under the mutex, network_send_data.
SendByte(n) ==
  LET sent == Succ(prog_sent[n])
      m    == [byte |-> rounds[n] + 1, clock |-> clock[n],
               start |-> transfer_start[n], prog |-> sent]
  IN /\ Playing(n)
     /\ Goto(n, "run", "wait")
     /\ MutexFree(n)
     /\ rounds' = [rounds EXCEPT ![n] = @ + 1]
     /\ bits' = [bits EXCEPT ![n].sent = TRUE,
                             ![n].sent_clock = clock[n],
                             ![n].sent_start = transfer_start[n]]
     /\ prog_sent' = [prog_sent EXCEPT ![n] = sent]
     /\ global_quit' = [global_quit EXCEPT ![n] = @ \/ OutOfStep(n, sent)]
     /\ chan' = [chan EXCEPT ![Peer(n)] = Append(@, m)]
     /\ UNCHANGED <<sc, data_to_recv, second, regs, waiting, netw,
                    left, lossy, log, raced, unanswered, turned>>

\* serial_wait_data, up to pthread_cond_timedwait ...
WaitData(n) ==
  LET sleeps == bits[n].sent /\ ~bits[n].recv
  IN /\ Goto(n, "wait", IF sleeps THEN "asleep" ELSE "verify")
     /\ MutexFree(n)
     /\ waiting' = [waiting EXCEPT ![n] = sleeps]
     /\ UNCHANGED <<sc, bits, data_to_recv, second, regs, netw, chan,
                    prog_sent, global_quit, hist>>

\* ... which may give up, on any network: the peer may be slow or paused for
\* the 2 to 3 seconds, or the wake-up spurious ...
Timeout(n) ==
  /\ Goto(n, "asleep", "woken")
  /\ UNCHANGED <<sc, bits, data_to_recv, second, regs, waiting, netw, chan,
                 prog_sent, global_quit, hist>>

\* ... and what follows it; there is no loop around the wait.
Awake(n) ==
  /\ Goto(n, "woken", "verify")
  /\ MutexFree(n)
  /\ waiting' = [waiting EXCEPT ![n] = FALSE]
  /\ unanswered' = (unanswered \/ (~lossy /\ ~bits[n].recv))
  /\ UNCHANGED <<sc, bits, data_to_recv, second, regs, netw, chan, prog_sent,
                 global_quit, left, lossy, rounds, log, raced, turned>>

\* serial_verify_intr, without the mutex: load the flags and test them ...
VerifyTest(n) ==
  LET both == bits[n].recv /\ bits[n].sent
  IN /\ Goto(n, "verify", IF both THEN "clear" ELSE "run")
     /\ regs' = IF both THEN [regs EXCEPT ![n] = bits[n]] ELSE regs
     /\ raced' = (raced \/ (~lossy /\ both /\ Holding(n)))
     /\ UNCHANGED <<sc, bits, data_to_recv, second, waiting, netw, chan,
                    prog_sent, global_quit, left, lossy, rounds, log,
                    unanswered, turned>>

\* ... clear the two flags in the byte that was loaded ...
VerifyClear(n) ==
  /\ Goto(n, "clear", "couple")
  /\ bits' = [bits EXCEPT ![n] = [regs[n] EXCEPT !.recv = FALSE, !.sent = FALSE]]
  /\ regs' = [regs EXCEPT ![n] = NoBits]
  /\ UNCHANGED <<sc, data_to_recv, second, waiting, netw, chan,
                 prog_sent, global_quit, hist>>

\* (a slip: the state of the own console is not looked at)
ValidIfReceived(b) == b.recv_clock # b.sent_clock /\ b.recv_start

\* "valid couple of messages for a serial interrupt?"
ValidCouple(b) == b.recv_clock # b.sent_clock /\ b.recv_start /\ b.sent_start

\* ... decide; a transfer takes the byte, clears SC's start bit and interrupts
VerifyCouple(n) ==
  LET valid == ValidCouple(bits[n])
  IN /\ Goto(n, "couple", "second")
     /\ transfer_start' = [transfer_start EXCEPT ![n] = @ /\ ~valid]
     /\ log' = IF lossy \/ unanswered THEN log
               ELSE [log EXCEPT ![n] = Append(@, [own  |-> rounds[n],
                                                  peer |-> data_to_recv[n],
                                                  irq  |-> valid])]
     /\ UNCHANGED <<clock, bits, data_to_recv, second, regs, waiting, netw,
                    chan, prog_sent, global_quit, left, lossy, rounds,
                    raced, unanswered, turned>>

\* (a slip: the second message is not moved to the first place)
ForgetSecond(n) ==
  /\ Goto(n, "second", "run")
  /\ second' = [second EXCEPT ![n] = NoMessage]
  /\ UNCHANGED <<sc, bits, data_to_recv, regs, waiting, netw, chan, prog_sent,
                 global_quit, hist>>

\* ... and move a second message, if one is there, to the first place.
VerifySecond(n) ==
  LET m == second[n]
  IN /\ Goto(n, "second", "run")
     /\ second' = [second EXCEPT ![n] = NoMessage]
     /\ IF m # NoMessage
          THEN /\ bits' = [bits EXCEPT ![n].recv = TRUE,
                                       ![n].recv_clock = m.clock,
                                       ![n].recv_start = m.start]
               /\ data_to_recv' = [data_to_recv EXCEPT ![n] = m.byte]
          ELSE UNCHANGED <<bits, data_to_recv>>
     /\ UNCHANGED <<sc, regs, waiting, netw, chan, prog_sent, global_quit, hist>>

-----------------------------------------------------------------------------
(* The network thread and the network.                                     *)

\* The messages recvfrom may return.  UDP may bring any message sent so far,
\* early, late or twice: on a lossy network a message stays in chan when it is
\* received, and one that is never received again is lost.
Arrivals(n) == {i \in DOMAIN chan[n] : lossy \/ i = 1}

\* recvfrom returns an 'M' message: remember its progressive number.
Receive(n) ==
  \E i \in Arrivals(n) :
    /\ net[n] = "idle"
    /\ netmsg' = [netmsg EXCEPT ![n] = chan[n][i]]
    /\ chan' = IF lossy THEN chan ELSE [chan EXCEPT ![n] = Tail(@)]
    /\ prog_recv' = [prog_recv EXCEPT ![n] = chan[n][i].prog]
    /\ net' = [net EXCEPT ![n] = "recv"]
    /\ turned' = (turned \/ (lossy /\ chan[n][i].byte + PROG < rounds[n] + 2))
    /\ UNCHANGED <<sc, bits, data_to_recv, second, emu, netregs, prog_sent,
                   global_quit, left, lossy, rounds, log, raced, unanswered>>

Verifying(n) == pc[n] \in {"clear", "couple", "second"}

\* serial_recv_byte: is there a message that was not handled yet?
RecvTest(n) ==
  /\ net[n] = "recv"
  /\ raced' = (raced \/ (~lossy /\ Verifying(n)))
  /\ net' = [net EXCEPT ![n] = IF bits[n].recv THEN "second" ELSE "store"]
  /\ netregs' = IF bits[n].recv THEN netregs ELSE [netregs EXCEPT ![n] = bits[n]]
  /\ UNCHANGED <<sc, bits, data_to_recv, second, emu, netmsg, prog_recv, chan,
                 prog_sent, global_quit, left, lossy, rounds, log, unanswered, turned>>

\* Then this one is stored apart, whatever was there ...
RecvSecond(n) ==
  /\ net[n] = "second"
  /\ second' = [second EXCEPT ![n] = netmsg[n]]
  /\ net' = [net EXCEPT ![n] = "idle"]
  /\ netmsg' = [netmsg EXCEPT ![n] = NoMessage]
  /\ UNCHANGED <<sc, bits, data_to_recv, emu, netregs, prog_recv, chan,
                 prog_sent, global_quit, hist>>

\* (a slip: the emulator thread is not notified)
NotNotified(n) == pc

\* "notify main thread in case it's waiting"
Notified(n) == IF waiting[n] /\ pc[n] = "asleep"
                 THEN [pc EXCEPT ![n] = "woken"] ELSE pc

\* ... or else it is the first, and signalled to the emulator if it waits.
RecvStore(n) ==
  /\ net[n] = "store"
  /\ bits' = [bits EXCEPT ![n] =
                [netregs[n] EXCEPT !.recv = TRUE,
                                   !.recv_clock = netmsg[n].clock,
                                   !.recv_start = netmsg[n].start]]
  /\ data_to_recv' = [data_to_recv EXCEPT ![n] = netmsg[n].byte]
  /\ pc' = Notified(n)
  /\ net' = [net EXCEPT ![n] = "idle"]
  /\ netmsg' = [netmsg EXCEPT ![n] = NoMessage]
  /\ netregs' = [netregs EXCEPT ![n] = NoBits]
  /\ UNCHANGED <<sc, second, regs, waiting, prog_recv, chan,
                 prog_sent, global_quit, hist>>

-----------------------------------------------------------------------------

Emulate(n) == \/ SendByte(n) \/ WaitData(n) \/ Awake(n) \/ VerifyTest(n)
              \/ VerifyClear(n) \/ VerifyCouple(n) \/ VerifySecond(n)
Network(n) == Receive(n) \/ RecvTest(n) \/ RecvSecond(n) \/ RecvStore(n)

Next == \E n \in Node : \/ WriteSC(n) \/ Emulate(n) \/ Timeout(n)
                        \/ Network(n)

Spec == Init /\ [][Next]_vars

\* The emulator thread keeps running and the network thread keeps receiving;
\* the mutex is only held between two steps of the network thread.
FairSpec == Spec /\ \A n \in Node : WF_vars(Emulate(n)) /\ WF_vars(Network(n))

-----------------------------------------------------------------------------
(* Properties.                                                             *)

\* Nothing was lost, no message arrived during a verify, and no wait ended
\* without a message.
InOrder == ~lossy /\ ~raced /\ ~unanswered

\* The numbers two consoles begin with, by how far they lie apart.
Agree    == left[A] = left[B]
FarApart == ~Agree /\ left[A] # Succ(left[B]) /\ left[B] # Succ(left[A])

\* On a network that loses nothing, as long as no message arrived during a
\* verify and no wait of either console ended without a message (no timeout, no
\* spurious wake-up), each couple a console looks at is made of the two messages
\* of one and the same round.
SameRound ==
  InOrder => \A n \in Node : \A i \in 1 .. Len(log[n]) :
              log[n][i].own = i /\ log[n][i].peer = i

\* ... hence, as long as that lasts, the two consoles decide alike: a transfer
\* happens on both sides or on neither, although each decides on its own.
BothOrNeither ==
  InOrder => \A i \in 1 .. Len(log[A]) :
              i <= Len(log[B]) => log[A][i].irq = log[B][i].irq

\* The test of the progressive numbers never ends a game of consoles that begin
\* with the same numbers, see every message in order and wait for each of them
\* to the end.  Nothing resets the numbers when a peer connects: if one console
\* was started anew and the other was not, their numbers may lie two or more
\* apart, and then each ends its game with its second round at the latest,
\* however rounds, timeouts and messages interleave and whatever the network
\* loses.  (Numbers that lie one apart may go undetected: the test allows for a
\* peer that is ahead by one.)
OutOfStepEnds ==
  /\ InOrder /\ Agree => \A n \in Node : ~global_quit[n]
  /\ FarApart => \A n \in Node : rounds[n] >= 2 => global_quit[n]

\* Two consoles that wait for each other's message both go on: each finishes
\* every round without the help of a timeout, unless a race intervened, a wait
\* ended without a message, a message was lost or they began with different
\* numbers.
RoundsComplete ==
  <>(\/ lossy \/ raced \/ unanswered \/ ~Agree
     \/ \A n \in Node : rounds[n] = Rounds[lossy] /\ pc[n] = "run")

\* Whatever is lost, late, repeated or out of order, a console that runs ahead
\* of its peer by more than one round ends its game: network_send_data tests
\* for that.  The consoles began with the same numbers, and no message is so
\* late that a byte's numbers have turned over: it would be taken for a new one.
AheadByOneOrQuit ==
  Agree /\ ~turned => \A n \in Node : rounds[n] <= rounds[Peer(n)] + 1 \/ global_quit[n]

\* serial.c:40 and 163 say of a message that comes before the first was
\* handled: "store it. handle it later".  On a link that loses nothing, and as
\* long as no wait ended without a message, every message of the peer is handled
\* once, in order.
EachHandledOnce ==
  ~unanswered => \A n \in Node : \A i \in 1 .. Len(log[n]) : log[n][i].peer = i
=============================================================================
