------------------------------ MODULE NetThread ------------------------------
(***************************************************************************)
(* Starting and stopping the network thread of lib/network.c, and how it   *)
(* finds and drops its peer.  main calls network_start once at start-up    *)
(* and at every key 9, network_stop at key 0 and on exit.  Nothing         *)
(* prevents a second start, and all the threads share one network_running, *)
(* one network_thread and one pair of sockets, network_sock_broad and      *)
(* network_sock_bound.                                                     *)
(*                                                                         *)
(* Peers are the other consoles that play the same game; a call is the 'B' *)
(* message with its sender's uuid.                                         *)
(*                                                                         *)
(* The kernel is external: socket() fails or returns the lowest free       *)
(* descriptor, bind() fails when the port is taken or the socket is bound  *)
(* already, and the port is free again when the socket that holds it is    *)
(* closed.  Time passes in seconds (Tick), and a thread waits in select()  *)
(* for one of them at most: what it does besides takes no time.            *)
(***************************************************************************)
EXTENDS Naturals, FiniteSets

CONSTANTS
  Peers,        \* the uuids of the other consoles
  Silence,      \* 10: silent seconds after which the peer is dropped
  MaxStarts     \* bound of the model: calls of network_start

ASSUME NetAssumption == Silence \in Nat \ {0} /\ MaxStarts \in Nat \ {0}

VARIABLES
  network_running, network_thread,
  sock_broad, sock_bound,      \* the two globals, NoSock if they hold none
  peer_connected, hs_mode,
  network_peer_uuid,           \* NoPeer before the first call
  network_timeout,             \* seconds left to the peer
  timeouts,                    \* timeouts[t]: local to the thread t
  open,                        \* the descriptors that are open
  port,                        \* the descriptor that holds the port, or NoSock
  sel,                         \* sel[t]: the socket t waits on, or NoSock
  th,                          \* th[t]: the t-th thread started
  starts,                      \* threads started so far
  main,                        \* "idle" or "join"
  overlapped,                  \* history: a start while a thread lived
  called, heard,               \* history: a call was sent; one was heard
  quiet,                       \* history: seconds since a call of p
  hush                         \* history: seconds since any message

globs == <<sock_broad, sock_bound>>
socks == <<globs, open, port, sel>>
peer  == <<network_peer_uuid, network_timeout, heard, quiet, hush>>
link  == <<peer_connected, hs_mode, peer, called, timeouts>>
ctl   == <<network_thread, starts, main, overlapped>>
vars  == <<network_running, socks, link, th, ctl>>

NoSock == 0
NoPeer == "none"
Fd     == 1 .. 2 * MaxStarts
Thread == 1 .. MaxStarts

\* "select" and "timeout": in select(), which ends before the next second or
\* before this one is over; "recv": in recvfrom(), which has no timeout.
Waiting == {"select", "timeout"}
Live    == {"broad", "bound", "bind", "running", "loop", "recv", "exit"}
             \cup Waiting
Alive   == {t \in Thread : th[t] \in Live}

\* A count that has passed 3 does not come back to it: it is an int, and a
\* second passes between two steps.  4 stands for every such count.
Past == 4

\* (a slip: the count to the first call starts at 0)
FromZero == 0

\* "int timeouts = 4"
FirstTimeouts == 4

Init ==
  /\ network_running = FALSE /\ network_thread = 0
  /\ sock_broad = NoSock /\ sock_bound = NoSock
  /\ peer_connected = FALSE /\ hs_mode = FALSE
  /\ network_peer_uuid = NoPeer /\ network_timeout = Silence
  /\ timeouts = [t \in Thread |-> FirstTimeouts]
  /\ called = FALSE /\ heard = FALSE
  /\ quiet = [p \in Peers |-> 0] /\ hush = 0
  /\ open = {} /\ port = NoSock /\ sel = [t \in Thread |-> NoSock]
  /\ th = [t \in Thread |-> "none"] /\ starts = 0
  /\ main = "idle" /\ overlapped = FALSE

-----------------------------------------------------------------------------
(* The kernel.                                                             *)

LowestFree == CHOOSE f \in Fd \ open : \A g \in Fd \ open : f <= g

Bindable(f) == f \in open /\ port = NoSock

\* close(); of a descriptor that is not open it does nothing, and a thread that
\* waits on one that is gets nothing from it any more.
Close(closed) ==
  /\ open' = open \ closed
  /\ port' = IF port \in closed THEN NoSock ELSE port
  /\ sel' = [t \in Thread |-> IF sel[t] \in closed THEN NoSock ELSE sel[t]]

CloseBoth == Close({sock_broad, sock_bound}) /\ UNCHANGED globs

\* A second of silence more; longer than Silence is not told apart.
Longer(n) == IF n < Silence THEN n + 1 ELSE Silence

\* A second passes, once every thread waits.
Tick ==
  /\ \A t \in Thread : th[t] \in {"none", "ended", "recv", "select"}
  /\ th' = [t \in Thread |-> IF th[t] = "select" THEN "timeout" ELSE th[t]]
  /\ quiet' = [p \in Peers |-> Longer(quiet[p])]
  /\ hush' = Longer(hush)
  /\ UNCHANGED <<network_running, socks, peer_connected, hs_mode,
                 network_peer_uuid, network_timeout, heard, called, timeouts, ctl>>

-----------------------------------------------------------------------------
(* main.                                                                   *)

NetworkStart ==
  /\ main = "idle" /\ starts < MaxStarts
  /\ network_running' = FALSE
  /\ starts' = starts + 1
  /\ th' = [th EXCEPT ![starts + 1] = "broad"]
  /\ network_thread' = starts + 1
  /\ overlapped' = (overlapped \/ Alive # {})
  /\ UNCHANGED <<socks, link, main>>

\* (slips: main closes the sockets under the thread; the flag stays up)
StopByClosing ==
  /\ main = "idle" /\ network_running
  /\ network_running' = FALSE /\ main' = "join"
  /\ CloseBoth
  /\ UNCHANGED <<link, th, network_thread, starts, overlapped>>
StopWithoutFlag ==
  /\ main = "idle" /\ network_running
  /\ main' = "join"
  /\ UNCHANGED <<network_running, socks, link, th, network_thread, starts,
                 overlapped>>

\* "already stopped?" returns; otherwise tell the thread and join it.
NetworkStop ==
  /\ main = "idle" /\ network_running
  /\ network_running' = FALSE
  /\ main' = "join"
  /\ UNCHANGED <<socks, link, th, network_thread, starts, overlapped>>

\* pthread_join(network_thread, NULL)
Joined ==
  /\ main = "join" /\ th[network_thread] = "ended"
  /\ main' = "idle"
  /\ UNCHANGED <<network_running, socks, link, th, network_thread, starts,
                 overlapped>>

-----------------------------------------------------------------------------
(* network_start_thread.                                                   *)

At(t, from, to) == th[t] = from /\ th' = [th EXCEPT ![t] = to]

\* socket() twice.  "exit on error": the first time nothing is to be closed,
\* the second time network_sock_broad is.
OpenBroad(t) ==
  /\ \/ /\ At(t, "broad", "bound")
        /\ sock_broad' = LowestFree
        /\ open' = open \cup {LowestFree}
     \/ /\ At(t, "broad", "ended")
        /\ sock_broad' = NoSock
        /\ UNCHANGED open
  /\ UNCHANGED <<network_running, sock_bound, port, sel, link, ctl>>

OpenBound(t) ==
  /\ \/ /\ At(t, "bound", "bind")
        /\ sock_bound' = LowestFree
        /\ open' = open \cup {LowestFree}
        /\ UNCHANGED <<port, sel>>
     \/ /\ At(t, "bound", "ended")
        /\ sock_bound' = NoSock
        /\ Close({sock_broad})
  /\ UNCHANGED <<network_running, sock_broad, link, ctl>>

\* bind() works on the global, whoever opened it; on failure close both.
Bind(t) ==
  /\ IF Bindable(sock_bound)
       THEN /\ At(t, "bind", "running")
            /\ port' = sock_bound
            /\ UNCHANGED <<globs, open, sel>>
       ELSE At(t, "bind", "ended") /\ CloseBoth
  /\ UNCHANGED <<network_running, link, ctl>>

\* "declare network is running"
DeclareRunning(t) ==
  /\ At(t, "running", "loop")
  /\ network_running' = TRUE
  /\ UNCHANGED <<socks, link, ctl>>

\* The head of the loop, and the call of select(), which fails on a closed
\* descriptor.  (On the -1 of a socket() that failed it waits for nothing.)
Wait(t) ==
  /\ network_running /\ sock_bound \in open \cup {NoSock}
  /\ At(t, "loop", "select")
  /\ sel' = [sel EXCEPT ![t] = sock_bound]
  /\ UNCHANGED <<network_running, globs, open, port, link, ctl>>

Leave(t) ==
  /\ ~network_running \/ sock_bound \notin open \cup {NoSock}
  /\ At(t, "loop", "exit")
  /\ UNCHANGED <<network_running, socks, link, ctl>>

\* select() returns because a message has arrived.  recvfrom() reads from what
\* network_sock_bound is by then: in the socket that select() was given it
\* finds the message, unless another thread has taken it, in another socket
\* there never is one, and on a closed one it fails.
Readable(t) == th[t] \in Waiting /\ sel[t] = port /\ port # NoSock

Misled(t) ==
  /\ Readable(t)
  /\ \/ sock_bound = port /\ \E u \in Thread \ {t} : Readable(u)
     \/ sock_bound # port
  /\ th' = [th EXCEPT ![t] = IF sock_bound \in open THEN "recv" ELSE "exit"]
  /\ sel' = [sel EXCEPT ![t] = IF sock_bound \in open THEN sock_bound ELSE NoSock]
  /\ UNCHANGED <<network_running, globs, open, port, link, ctl>>

\* recvfrom() returns a message; the thread handles it and goes on to `next'.
\* The flag network_running is not looked at again before.
Receive(t, next) ==
  /\ \/ Readable(t) /\ sock_bound = port
     \/ th[t] = "recv" /\ sel[t] = port /\ port # NoSock
  /\ th' = [th EXCEPT ![t] = next]
  /\ sel' = [sel EXCEPT ![t] = NoSock]
  /\ hush' = 0
  /\ UNCHANGED <<network_running, globs, open, port, timeouts, ctl>>

\* A datagram of no bytes is taken for an error.
EmptyDatagram(t) ==
  /\ Receive(t, "exit")
  /\ UNCHANGED <<peer_connected, hs_mode, network_peer_uuid, network_timeout,
                 heard, quiet, called>>

\* Serial data ('M'), a call with the own uuid or for another game.
OtherMessage(t) ==
  /\ Receive(t, "loop")
  /\ UNCHANGED <<peer_connected, hs_mode, network_peer_uuid, network_timeout,
                 heard, quiet, called>>

\* (a slip: the timeout is not refreshed)
ConnectStale(t, p) ==
  /\ Receive(t, "loop") /\ ~peer_connected
  /\ peer_connected' = TRUE /\ hs_mode' = TRUE
  /\ network_peer_uuid' = p
  /\ called' = TRUE /\ heard' = TRUE
  /\ quiet' = [quiet EXCEPT ![p] = 0]
  /\ UNCHANGED network_timeout

\* The call of a peer: connect, answer it by a call and start hard sync.
Connect(t, p) ==
  /\ Receive(t, "loop") /\ ~peer_connected
  /\ peer_connected' = TRUE /\ hs_mode' = TRUE
  /\ network_peer_uuid' = p
  /\ network_timeout' = Silence
  /\ called' = TRUE /\ heard' = TRUE
  /\ quiet' = [quiet EXCEPT ![p] = 0]

\* A call while connected: "refresh timeout" if it is the peer's.
Refresh(t, p) ==
  /\ Receive(t, "loop") /\ peer_connected
  /\ network_timeout' = IF network_peer_uuid = p THEN Silence
                                                 ELSE network_timeout
  /\ heard' = TRUE
  /\ quiet' = [quiet EXCEPT ![p] = 0]
  /\ UNCHANGED <<peer_connected, hs_mode, network_peer_uuid, called>>

\* A second in select() without a message: every third one calls, and a
\* connected console counts down to the end of the link.
SilentSecond(t) ==
  LET count == timeouts[t] + 1
      left  == IF peer_connected THEN network_timeout - 1 ELSE network_timeout
      keeps == peer_connected /\ left # 0
  IN /\ At(t, "timeout", "loop")
     /\ sel' = [sel EXCEPT ![t] = NoSock]
     /\ timeouts' = [timeouts EXCEPT ![t] = IF count = 3 THEN 0
                                            ELSE IF count > Past THEN Past
                                            ELSE count]
     /\ called' = (called \/ count = 3)
     /\ network_timeout' = left
     /\ peer_connected' = keeps
     /\ hs_mode' = (hs_mode /\ (peer_connected => keeps))
     /\ UNCHANGED <<network_running, globs, open, port, network_peer_uuid,
                    heard, quiet, hush, ctl>>

\* (slips: hard sync is not stopped; the sockets are not closed)
ExitInHardSync(t) ==
  /\ At(t, "exit", "ended")
  /\ peer_connected' = FALSE
  /\ CloseBoth
  /\ UNCHANGED <<network_running, hs_mode, peer, called, timeouts, ctl>>
ExitLeaking(t) ==
  /\ At(t, "exit", "ended")
  /\ peer_connected' = FALSE /\ hs_mode' = FALSE
  /\ UNCHANGED <<network_running, socks, peer, called, timeouts, ctl>>

\* "free serial", "stop hard sync mode", "close sockets"
Exit(t) ==
  /\ At(t, "exit", "ended")
  /\ peer_connected' = FALSE /\ hs_mode' = FALSE
  /\ CloseBoth
  /\ UNCHANGED <<network_running, peer, called, timeouts, ctl>>

-----------------------------------------------------------------------------

Run(t) == \/ OpenBroad(t) \/ OpenBound(t) \/ Bind(t) \/ DeclareRunning(t)
          \/ Wait(t) \/ Leave(t) \/ SilentSecond(t) \/ Exit(t)

Hear(t) == \/ Misled(t) \/ EmptyDatagram(t) \/ OtherMessage(t)
           \/ \E p \in Peers : Connect(t, p) \/ Refresh(t, p)

Next == \/ NetworkStart \/ NetworkStop \/ Joined \/ Tick
        \/ \E t \in Thread : Run(t) \/ Hear(t)

Spec == Init /\ [][Next]_vars

\* Time passes, and a thread gets to its next statement: every call it makes
\* returns, select() after a second at the latest.  Keys need not be pressed,
\* and no message need arrive.
FairSpec == Spec /\ WF_vars(Joined) /\ WF_vars(Tick)
                 /\ \A t \in Thread : WF_vars(Run(t))

-----------------------------------------------------------------------------
(* Properties.                                                             *)

\* The link never outlives the thread that serves it: a console does not stay
\* in hard sync mode, waiting 3 seconds in every round, for a thread that is
\* gone.  (With two threads the one that is left may be blocked in recvfrom().)
LinkIsServed ==
  peer_connected \/ hs_mode =>
    \E t \in Thread : th[t] \in Waiting \cup {"loop", "recv", "exit"}

\* As long as no start has met a living thread, a thread in its loop hears its
\* peer: the bind() succeeded and no exit of an earlier thread has closed its
\* socket, neither the one it selects nor the one it reads.
ServerHears ==
  ~overlapped => \A t \in Thread :
    /\ th[t] \in Waiting \cup {"loop"} => sock_bound \in open /\ port = sock_bound
    /\ th[t] \in Waiting => sel[t] = port

\* As long as no start has met a living thread, the sockets of a thread that
\* has ended are closed and the port is free for the next start.
CleanWithoutOverlap ==
  ~overlapped /\ Alive = {} => open = {} /\ port = NoSock

\* As long as no start has met a living thread, network_stop returns: the
\* thread it joins sees the flag fall and ends.
StopReturns == main = "join" /\ ~overlapped ~> main = "idle"

\* A console never calls before a peer has called it, for its count of silent
\* seconds starts behind the one at which it would: two consoles that only
\* listen do not find each other.
CallsOnlyWhenCalled == called => heard

\* The link is dropped while its thread goes on.
Dropped == peer_connected /\ ~peer_connected' /\ Alive' = Alive

\* A peer is not dropped before it has been silent for as long as allowed,
\* however often the link was made before; and a link over which nothing at
\* all arrives is dropped by then.  In between, what others send keeps it.
DroppedForSilence ==
  [][~overlapped =>
       /\ Dropped => quiet[network_peer_uuid] >= Silence
       /\ Tick /\ peer_connected => hush < Silence]_vars

=============================================================================
