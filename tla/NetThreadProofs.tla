--------------------------- MODULE NetThreadProofs ---------------------------
(***************************************************************************)
(* Proofs about NetThread for any number of starts, any number of peers    *)
(* and any length of the silence after which a peer is dropped.  The       *)
(* invariant adds to the properties how far the one living thread has got  *)
(* with the sockets, as long as no start has met a living thread, and that *)
(* the seconds taken from a connected peer are at most those it has been   *)
(* silent for and at least those in which nothing arrived at all.          *)
(***************************************************************************)
EXTENDS NetThread, TLAPS

\* Threads are started in order.
Started ==
  /\ starts \in 0 .. MaxStarts
  /\ th \in [Thread -> Live \cup {"none", "ended"}]
  /\ \A t \in Thread : t > starts => th[t] = "none"
  /\ sel = [t \in Thread |-> sel[t]]

Flags ==
  /\ network_running \in BOOLEAN /\ overlapped \in BOOLEAN
  /\ peer_connected \in BOOLEAN /\ hs_mode \in BOOLEAN
  /\ called \in BOOLEAN /\ heard \in BOOLEAN

\* Without an overlap at most one thread lives ...
Alone == ~overlapped => \A t, u \in Thread : th[t] \in Live /\ th[u] \in Live => t = u

\* ... the open sockets are those it has opened, and it waits for the right one.
Stage(t) ==
  /\ th[t] = "broad" => open = {} /\ port = NoSock
  /\ th[t] = "bound" => open = {sock_broad} /\ port = NoSock
  /\ th[t] = "bind" => open = {sock_broad, sock_bound} /\ port = NoSock
  /\ th[t] \in {"running", "loop", "exit"} \cup Waiting =>
       open = {sock_broad, sock_bound} /\ port = sock_bound
  /\ th[t] \in Waiting => sel[t] = port
  /\ th[t] # "recv"

Stages == ~overlapped => \A t \in Thread : Stage(t)

Clean == ~overlapped /\ (\A t \in Thread : th[t] \notin Live) =>
           open = {} /\ port = NoSock

\* The count of silent seconds never comes to 3.
NeverThird ==
  /\ timeouts = [t \in Thread |-> FirstTimeouts]
  /\ CallsOnlyWhenCalled

\* A second has passed that select() has not counted yet.
Pending == IF \E t \in Thread : th[t] = "timeout" THEN 1 ELSE 0

Taken == Silence - network_timeout + Pending

\* What was taken from the peer, between the silence of all and its own.
Left ==
  /\ quiet \in [Peers -> 0 .. Silence]
  /\ hush \in 0 .. Silence
  /\ ~overlapped /\ peer_connected =>
       /\ network_peer_uuid \in Peers
       /\ network_timeout \in 1 .. Silence
       /\ hush <= Taken /\ Taken <= quiet[network_peer_uuid]

\* What concerns threads and sockets, and what concerns the peer.
Threads == Started /\ Flags /\ Alone /\ Stages /\ Clean /\ LinkIsServed
IInv    == Threads /\ NeverThird /\ Left

-----------------------------------------------------------------------------

\* It holds at the start.
LEMMA InitIInv == Init => IInv
<1> SUFFICES ASSUME Init PROVE IInv
  OBVIOUS
<1>1. Started
  BY NetAssumption DEF Init, Started, Thread
<1>2. Flags
  BY DEF Init, Flags
<1>3. Alone /\ Stages /\ Clean
  BY DEF Init, Alone, Stages, Stage, Clean, Live, Waiting, Thread
<1>4. LinkIsServed
  BY DEF Init, LinkIsServed
<1>5. NeverThird
  BY DEF Init, NeverThird, CallsOnlyWhenCalled
<1>6. Left
  BY NetAssumption DEF Init, Left
<1> QED
  BY <1>1, <1>2, <1>3, <1>4, <1>5, <1>6 DEF IInv, Threads

\* network_start: the next thread begins, with or without others that live.
LEMMA StartThreads == Threads /\ NetworkStart => Threads'
<1> SUFFICES ASSUME Threads, NetworkStart PROVE Threads'
  OBVIOUS
<1> DEFINE new == starts + 1
<1>1. new \in Thread /\ starts \in Nat /\ starts' = new
  BY NetAssumption DEF Threads, Started, NetworkStart, Thread
<1>2. th' = [th EXCEPT ![new] = "broad"]
  BY DEF NetworkStart
<1> HIDE DEF new
<1>3. Started'
  BY <1>1, <1>2, NetAssumption
  DEF Threads, Started, NetworkStart, Thread, Live, new, socks
<1>4. Flags'
  <2>1. overlapped' \in BOOLEAN
    BY Zenon DEF NetworkStart
  <2> QED
    BY <2>1 DEF Threads, Flags, NetworkStart, link, peer
<1>5. ~overlapped' => ~overlapped /\ \A t \in Thread : th[t] \notin Live
  BY Zenon DEF NetworkStart, Alive
<1>6. Alone'
  BY <1>1, <1>2, <1>5 DEF Threads, Started, Alone
<1>7. Stages'
  <2> SUFFICES ASSUME ~overlapped', NEW t \in Thread PROVE Stage(t)'
    BY DEF Stages
  <2>1. open = {} /\ port = NoSock /\ UNCHANGED <<sock_broad, sock_bound, open, port>>
    BY <1>5 DEF Threads, Clean, NetworkStart, socks, globs
  <2>2. th'[t] = "broad" \/ th'[t] \notin Live
    BY <1>1, <1>2, <1>5 DEF Threads, Started
  <2> QED
    BY <2>1, <2>2 DEF Stage, Live, Waiting
<1>8. Clean'
  BY <1>1, <1>2 DEF Threads, Started, Clean, Live
<1>9. LinkIsServed'
  <2> SUFFICES ASSUME peer_connected \/ hs_mode
               PROVE \E t \in Thread : th'[t] \in Waiting \cup {"loop", "recv", "exit"}
    BY DEF LinkIsServed, NetworkStart, link
  <2>1. PICK t \in Thread : th[t] \in Waiting \cup {"loop", "recv", "exit"}
    BY DEF Threads, LinkIsServed
  <2>2. t # new
    BY <1>1, <2>1 DEF Threads, Started, new, Thread, Waiting
  <2> QED
    BY <1>2, <2>1, <2>2 DEF Threads, Started
<1> QED
  BY <1>3, <1>4, <1>6, <1>7, <1>8, <1>9 DEF Threads

\* A step of a thread from one statement to the next, or out.
LEMMA ThreadSteps ==
  ASSUME Threads, NEW t \in Thread, NEW to \in Live \cup {"ended"},
         th[t] \in Live, th' = [th EXCEPT ![t] = to],
         starts' = starts, overlapped' = overlapped,
         sel' = [u \in Thread |-> sel'[u]]
  PROVE  /\ Started' /\ Alone'
         /\ th'[t] = to /\ \A u \in Thread : u # t => th'[u] = th[u]
         /\ ~overlapped => \A u \in Thread : u # t => th'[u] \notin Live
<1>1. th'[t] = to /\ \A u \in Thread : u # t => th'[u] = th[u]
  BY DEF Threads, Started
<1>2. t <= starts
  BY DEF Threads, Started, Live, Waiting, Thread
<1>3. Started'
  BY <1>1, <1>2 DEF Threads, Started, Thread
<1>4. ~overlapped => \A u \in Thread : u # t => th'[u] \notin Live
  BY <1>1 DEF Threads, Alone
<1>5. Alone'
  BY <1>4 DEF Alone
<1> QED
  BY <1>1, <1>3, <1>4, <1>5

\* The sockets keep being a function of the threads.
LEMMA CloseSel ==
  ASSUME NEW closed, Close(closed) PROVE sel' = [u \in Thread |-> sel'[u]]
BY DEF Close

LEMMA SetSel ==
  ASSUME Started, NEW t \in Thread, NEW f, sel' = [sel EXCEPT ![t] = f]
  PROVE  sel' = [u \in Thread |-> sel'[u]] /\ sel'[t] = f
BY DEF Started

\* The steps before the loop, and into it.
LEMMA SetUpThreads ==
  ASSUME Threads, NEW t \in Thread,
         OpenBroad(t) \/ OpenBound(t) \/ Bind(t) \/ DeclareRunning(t)
  PROVE  Threads'
<1>1. PICK to \in Live \cup {"ended"} :
        /\ th[t] \in {"broad", "bound", "bind", "running"}
        /\ th' = [th EXCEPT ![t] = to]
  BY DEF OpenBroad, OpenBound, Bind, DeclareRunning, At, Live
<1>2. /\ starts' = starts /\ overlapped' = overlapped
      /\ peer_connected' = peer_connected /\ hs_mode' = hs_mode
      /\ called' = called /\ heard' = heard
  BY DEF OpenBroad, OpenBound, Bind, DeclareRunning, ctl, link, peer
<1>a. sel' = [u \in Thread |-> sel'[u]]
  <2>1. CASE sel' = sel
    BY <2>1 DEF Threads, Started
  <2>2. CASE \E closed \in {{sock_broad}, {sock_broad, sock_bound}} : Close(closed)
    BY <2>2, CloseSel
  <2> QED
    BY <2>1, <2>2
    DEF OpenBroad, OpenBound, Bind, DeclareRunning, CloseBoth, socks
<1>3. /\ Started' /\ Alone'
      /\ th'[t] = to /\ \A u \in Thread : u # t => th'[u] = th[u]
      /\ ~overlapped => \A u \in Thread : u # t => th'[u] \notin Live
  BY <1>1, <1>2, <1>a, ThreadSteps DEF Live
<1>4. Flags'
  <2>1. network_running' \in BOOLEAN
    BY DEF Threads, Flags, OpenBroad, OpenBound, Bind, DeclareRunning
  <2> QED
    BY <1>2, <2>1 DEF Threads, Flags
<1>5. ~overlapped => Stage(t)' /\ (th'[t] \notin Live => open' = {} /\ port' = NoSock)
  <2> SUFFICES ASSUME ~overlapped
               PROVE Stage(t)' /\ (th'[t] \notin Live => open' = {} /\ port' = NoSock)
    OBVIOUS
  <2>0. Stage(t) /\ th'[t] = to
    BY <1>3 DEF Threads, Stages
  <2>1. CASE OpenBroad(t)
    <3>1. open = {} /\ port = NoSock /\ port' = port
      BY <2>0, <2>1 DEF OpenBroad, At, Stage
    <3>2. \/ th'[t] = "bound" /\ open' = {sock_broad'}
          \/ th'[t] = "ended" /\ open' = {}
      BY <2>1, <3>1, <1>1, <2>0 DEF OpenBroad, At, Threads, Started
    <3> QED
      BY <3>1, <3>2 DEF Stage, Live, Waiting
  <2>2. CASE OpenBound(t)
    <3>1. open = {sock_broad} /\ port = NoSock /\ sock_broad' = sock_broad
      BY <2>0, <2>2 DEF OpenBound, At, Stage
    <3>2. \/ th'[t] = "bind" /\ open' = {sock_broad', sock_bound'} /\ port' = port
          \/ th'[t] = "ended" /\ open' = {} /\ port' = NoSock
      BY <2>2, <3>1, <1>1, <2>0 DEF OpenBound, Close, At, Threads, Started
    <3> QED
      BY <3>1, <3>2 DEF Stage, Live, Waiting
  <2>3. CASE Bind(t)
    <3>1. open = {sock_broad, sock_bound} /\ port = NoSock
          /\ sock_broad' = sock_broad /\ sock_bound' = sock_bound
      BY <2>0, <2>3 DEF Bind, CloseBoth, globs, At, Stage
    <3>2. th'[t] = "running" /\ open' = open /\ port' = sock_bound
      BY <2>3, <3>1, <1>1, <2>0 DEF Bind, Bindable, At, Threads, Started
    <3> QED
      BY <3>1, <3>2 DEF Stage, Live, Waiting
  <2>4. CASE DeclareRunning(t)
    <3>1. open = {sock_broad, sock_bound} /\ port = sock_bound
          /\ UNCHANGED <<sock_broad, sock_bound, open, port>>
      BY <2>0, <2>4 DEF DeclareRunning, socks, globs, At, Stage
    <3>2. th'[t] = "loop"
      BY <2>4, <1>1, <2>0 DEF DeclareRunning, At, Threads, Started
    <3> QED
      BY <3>1, <3>2 DEF Stage, Live, Waiting
  <2> QED
    BY <2>1, <2>2, <2>3, <2>4
<1>6. Stages' /\ Clean'
  BY <1>2, <1>3, <1>5 DEF Stages, Stage, Clean, Live, Waiting
<1>7. LinkIsServed'
  BY <1>1, <1>2, <1>3 DEF Threads, LinkIsServed, Waiting
<1> QED
  BY <1>3, <1>4, <1>6, <1>7 DEF Threads

\* A step of the loop, which keeps the sockets and is made by a thread that
\* serves the link before and after it.
LEMMA LoopThreads ==
  ASSUME Threads, NEW t \in Thread,
         NEW to \in Waiting \cup {"loop", "recv", "exit"},
         th[t] \in Waiting \cup {"loop", "recv"},
         th' = [th EXCEPT ![t] = to],
         sel' = [u \in Thread |-> sel'[u]],
         UNCHANGED <<network_running, globs, open, port, ctl>>,
         ~overlapped => to # "recv" /\ (to \in Waiting => sel'[t] = port),
         peer_connected' \in BOOLEAN, hs_mode' \in BOOLEAN,
         called' \in BOOLEAN, heard' \in BOOLEAN
  PROVE  Threads' /\ th'[t] = to
<1>1. /\ Started' /\ Alone'
      /\ th'[t] = to /\ \A u \in Thread : u # t => th'[u] = th[u]
      /\ ~overlapped => \A u \in Thread : u # t => th'[u] \notin Live
  BY ThreadSteps DEF Live, ctl, Waiting
<1>2. Flags'
  BY DEF Threads, Flags, ctl
<1>3. ~overlapped => open = {sock_broad, sock_bound} /\ port = sock_bound
  BY DEF Threads, Stages, Stage
<1>4. UNCHANGED <<sock_broad, sock_bound, open, port, overlapped>>
  BY DEF globs, ctl
<1>5. ~overlapped => Stage(t)'
  BY <1>1, <1>3, <1>4 DEF Stage, Waiting
<1>6. Stages'
  <2> SUFFICES ASSUME ~overlapped', NEW u \in Thread PROVE Stage(u)'
    BY DEF Stages
  <2>1. CASE u = t
    BY <1>4, <1>5, <2>1
  <2>2. CASE u # t
    BY <1>1, <1>4, <2>2 DEF Stage, Live
  <2> QED
    BY <2>1, <2>2
<1>7. Clean'
  BY <1>1 DEF Clean, Live
<1>8. LinkIsServed'
  BY <1>1 DEF LinkIsServed
<1> QED
  BY <1>1, <1>2, <1>6, <1>7, <1>8 DEF Threads

\* The head of the loop.
LEMMA HeadThreads ==
  ASSUME Threads, NEW t \in Thread, Wait(t) \/ Leave(t)
  PROVE  Threads' /\ th'[t] \in {"select", "exit"}
<1>1. /\ th[t] = "loop" /\ UNCHANGED <<network_running, globs, open, port, link, ctl>>
  BY DEF Wait, Leave, At, socks
<1>2. /\ peer_connected' \in BOOLEAN /\ hs_mode' \in BOOLEAN
      /\ called' \in BOOLEAN /\ heard' \in BOOLEAN
  BY <1>1 DEF link, peer, Threads, Flags
<1>3. CASE Wait(t)
  <2>1. th' = [th EXCEPT ![t] = "select"] /\ sel' = [sel EXCEPT ![t] = sock_bound]
    BY <1>3 DEF Wait, At
  <2>2. sel' = [u \in Thread |-> sel'[u]] /\ sel'[t] = sock_bound
    BY <2>1, SetSel DEF Threads
  <2>3. ~overlapped => port = sock_bound
    BY <1>1 DEF Threads, Stages, Stage
  <2>4. "select" \in Waiting \cup {"loop", "recv", "exit"}
    BY DEF Waiting
  <2> QED
    BY <1>1, <1>2, <2>1, <2>2, <2>3, <2>4, LoopThreads
<1>4. CASE Leave(t)
  <2>1. th' = [th EXCEPT ![t] = "exit"] /\ sel' = sel
    BY <1>4 DEF Leave, At, socks
  <2>2. sel' = [u \in Thread |-> sel'[u]]
    BY <2>1 DEF Threads, Started
  <2>3. "exit" \notin Waiting
    BY DEF Waiting
  <2> QED
    BY <1>1, <1>2, <2>1, <2>2, <2>3, LoopThreads
<1> QED
  BY <1>3, <1>4

\* A thread is led to another socket, or has its message taken from it, only
\* when there are two of them.
LEMMA MisledThreads ==
  ASSUME Threads, NEW t \in Thread, Misled(t)
  PROVE  Threads' /\ overlapped /\ th'[t] # "timeout"
<1>1. /\ th[t] \in Waiting
      /\ UNCHANGED <<network_running, globs, open, port, link, ctl>>
  BY DEF Misled, Readable
<1>2. overlapped
  <2> SUFFICES ASSUME ~overlapped PROVE FALSE
    OBVIOUS
  <2>1. sock_bound = port
    BY <1>1 DEF Threads, Stages, Stage
  <2>2. PICK u \in Thread \ {t} : Readable(u)
    BY <2>1 DEF Misled
  <2> QED
    BY <1>1, <2>2 DEF Readable, Threads, Alone, Live
<1>3. PICK to \in {"recv", "exit"} : th' = [th EXCEPT ![t] = to]
  BY DEF Misled
<1>4. sel' = [u \in Thread |-> sel'[u]]
  BY SetSel DEF Misled, Threads
<1>5. /\ peer_connected' \in BOOLEAN /\ hs_mode' \in BOOLEAN
      /\ called' \in BOOLEAN /\ heard' \in BOOLEAN
  BY <1>1 DEF link, peer, Threads, Flags
<1> QED
  BY <1>1, <1>2, <1>3, <1>4, <1>5, LoopThreads

\* A thread that handles a message, or counts a second without one.
LEMMA HandleThreads ==
  ASSUME Threads, NEW t \in Thread,
         \/ SilentSecond(t) \/ EmptyDatagram(t) \/ OtherMessage(t)
         \/ \E p \in Peers : Connect(t, p) \/ Refresh(t, p)
  PROVE  Threads' /\ th'[t] \in {"loop", "exit"}
<1>1. PICK to \in {"loop", "exit"} :
        /\ th[t] \in Waiting \cup {"loop", "recv"}
        /\ th' = [th EXCEPT ![t] = to]
        /\ sel' = [sel EXCEPT ![t] = NoSock]
        /\ UNCHANGED <<network_running, globs, open, port, ctl>>
  BY DEF SilentSecond, EmptyDatagram, OtherMessage, Connect, Refresh, Receive,
         Readable, At, Waiting
<1>2. sel' = [u \in Thread |-> sel'[u]]
  BY <1>1, SetSel DEF Threads
<1>3. /\ peer_connected' \in BOOLEAN /\ hs_mode' \in BOOLEAN
      /\ called' \in BOOLEAN /\ heard' \in BOOLEAN
  <2>1. CASE \E p \in Peers : Connect(t, p)
    BY <2>1 DEF Connect
  <2>2. CASE EmptyDatagram(t) \/ OtherMessage(t) \/ \E p \in Peers : Refresh(t, p)
    BY <2>2 DEF Threads, Flags, EmptyDatagram, OtherMessage, Refresh
  <2>3. CASE SilentSecond(t)
    <3>1. /\ peer_connected' \in BOOLEAN /\ hs_mode' \in BOOLEAN
          /\ called' \in BOOLEAN /\ heard' = heard
      BY <2>3, Zenon DEF SilentSecond
    <3> QED
      BY <3>1 DEF Threads, Flags
  <2> QED
    BY <2>1, <2>2, <2>3
<1>4. to \notin Waiting
  BY DEF Waiting
<1> QED
  BY <1>1, <1>2, <1>3, <1>4, LoopThreads

\* The end of a thread: the link is dropped whoever served it, the sockets are
\* closed.
LEMMA ExitThreads ==
  ASSUME Threads, NEW t \in Thread, Exit(t)
  PROVE  Threads'
<1>1. th[t] = "exit" /\ th' = [th EXCEPT ![t] = "ended"]
  BY DEF Exit, At
<1>a. sel' = [u \in Thread |-> sel'[u]]
  BY CloseSel DEF Exit, CloseBoth
<1>2. /\ Started' /\ Alone'
      /\ th'[t] = "ended" /\ \A u \in Thread : u # t => th'[u] = th[u]
      /\ ~overlapped => \A u \in Thread : u # t => th'[u] \notin Live
  BY <1>1, <1>a, ThreadSteps DEF Exit, Live, ctl
<1>3. Flags'
  BY DEF Threads, Flags, Exit, peer, ctl
<1>4. ~overlapped => open' = {} /\ port' = NoSock
  BY <1>1 DEF Threads, Stages, Stage, Exit, CloseBoth, Close
<1>5. Stages' /\ Clean'
  BY <1>2, <1>4 DEF Stages, Stage, Clean, Live, Waiting, Exit, ctl
<1>6. LinkIsServed'
  BY DEF LinkIsServed, Exit
<1> QED
  BY <1>2, <1>3, <1>5, <1>6 DEF Threads

\* A second passes: a thread that waits has waited for one.
LEMMA TickThreads == Threads /\ Tick => Threads'
<1> SUFFICES ASSUME Threads, Tick PROVE Threads'
  OBVIOUS
<1>1. /\ th' = [t \in Thread |-> IF th[t] = "select" THEN "timeout" ELSE th[t]]
      /\ UNCHANGED <<network_running, socks, peer_connected, hs_mode, heard, called,
                     starts, overlapped>>
  BY DEF Tick, ctl
<1>2. UNCHANGED <<sock_broad, sock_bound, open, port, sel>>
  BY <1>1 DEF socks, globs
<1>3. \A t \in Thread : /\ th[t] \in Live <=> th'[t] \in Live
                        /\ th[t] \in Waiting <=> th'[t] \in Waiting
                        /\ \/ th'[t] = th[t]
                           \/ th'[t] = "timeout" /\ th[t] \in Waiting
  BY <1>1 DEF Live, Waiting
<1>4. Started'
  BY <1>1, <1>2 DEF Threads, Started, Live, Waiting
<1>5. Flags' /\ Alone' /\ Clean'
  BY <1>1, <1>2, <1>3 DEF Threads, Flags, Alone, Clean
<1>6. Stages'
  <2> SUFFICES ASSUME ~overlapped, NEW t \in Thread PROVE Stage(t)'
    BY <1>1 DEF Stages
  <2>1. Stage(t)
    BY DEF Threads, Stages
  <2>2. CASE th'[t] = th[t]
    BY <1>2, <2>1, <2>2 DEF Stage
  <2>3. CASE th'[t] = "timeout" /\ th[t] \in Waiting
    BY <1>2, <2>1, <2>3 DEF Stage, Waiting
  <2> QED
    BY <1>3, <2>2, <2>3
<1>7. LinkIsServed'
  BY <1>1, <1>3 DEF Threads, LinkIsServed
<1> QED
  BY <1>4, <1>5, <1>6, <1>7 DEF Threads

\* main's other steps, and none.
LEMMA MainThreads == Threads /\ (NetworkStop \/ Joined \/ UNCHANGED vars) => Threads'
<1> SUFFICES ASSUME Threads, NetworkStop \/ Joined \/ UNCHANGED vars
             PROVE Threads'
  OBVIOUS
<1>1. UNCHANGED <<socks, link, th, starts, overlapped>> /\ network_running' \in BOOLEAN
  BY DEF NetworkStop, Joined, vars, ctl, Threads, Flags
<1> QED
  BY <1>1 DEF Threads, Started, Flags, Alone, Stages, Stage, Clean, LinkIsServed,
              socks, globs, link, peer

\* No step of the count of silent seconds leads to a call.
LEMMA StepNeverThird ==
  ASSUME IInv, [Next]_vars
  PROVE  NeverThird'
<1>1. CASE UNCHANGED <<timeouts, called, heard>>
  BY <1>1 DEF IInv, NeverThird, CallsOnlyWhenCalled
<1>2. ASSUME NEW t \in Thread, NEW p \in Peers, Connect(t, p) \/ Refresh(t, p)
      PROVE NeverThird'
  BY <1>2 DEF IInv, NeverThird, CallsOnlyWhenCalled, Connect, Refresh, Receive
<1>3. ASSUME NEW t \in Thread, SilentSecond(t)
      PROVE NeverThird'
  <2>1. timeouts[t] = 4
    BY DEF IInv, NeverThird, FirstTimeouts
  <2>2. timeouts' = [timeouts EXCEPT ![t] = 4]
    <3>1. ~(4 + 1 = 3) /\ 4 + 1 > 4
      OBVIOUS
    <3> QED
      BY <1>3, <2>1, <3>1, Zenon DEF SilentSecond, Past
  <2>3. called' = called /\ heard' = heard
    <3>1. called' = (called \/ FALSE)
      BY <1>3, <2>1 DEF SilentSecond
    <3> QED
      BY <1>3, <3>1 DEF SilentSecond, IInv, Threads, Flags
  <2> QED
    BY <2>2, <2>3 DEF IInv, NeverThird, FirstTimeouts, CallsOnlyWhenCalled
<1>4. ASSUME NEW t \in Thread, EmptyDatagram(t) \/ OtherMessage(t) \/ Misled(t)
      PROVE UNCHANGED <<timeouts, called, heard>>
  BY <1>4 DEF EmptyDatagram, OtherMessage, Receive, Misled, link, peer
<1>5. Tick => UNCHANGED <<timeouts, called, heard>>
  BY DEF Tick
<1> QED
  BY <1>1, <1>2, <1>3, <1>4, <1>5
  DEF Next, vars, Run, Hear, NetworkStart, NetworkStop, Joined, OpenBroad,
      OpenBound, Bind, DeclareRunning, Wait, Leave, Exit, link, peer

\* A second passes for everybody, and the thread is about to count it.
LEMMA TickLeft ==
  ASSUME IInv, Tick
  PROVE  Left' /\ (~overlapped /\ peer_connected => hush < Silence)
<1>1. /\ quiet' = [p \in Peers |-> Longer(quiet[p])] /\ hush' = Longer(hush)
      /\ UNCHANGED <<overlapped, peer_connected, network_peer_uuid, network_timeout>>
  BY DEF Tick, ctl
<1>2. quiet' \in [Peers -> 0 .. Silence] /\ hush' \in 0 .. Silence
  BY <1>1, NetAssumption DEF IInv, Left, Longer
<1> SUFFICES ASSUME ~overlapped, peer_connected
             PROVE  /\ network_peer_uuid' \in Peers
                    /\ network_timeout' \in 1 .. Silence
                    /\ hush' <= Taken' /\ Taken' <= quiet'[network_peer_uuid']
                    /\ hush < Silence
  BY <1>1, <1>2 DEF Left
<1>3. Pending = 0
  BY DEF Tick, Pending
<1>4. PICK t \in Thread : th[t] \in Waiting \cup {"loop", "recv", "exit"}
  BY DEF IInv, Threads, LinkIsServed
<1>5. th'[t] = "timeout"
  BY <1>4 DEF Tick, Waiting, IInv, Threads, Stages, Stage
<1>6. Pending' = 1
  BY <1>5 DEF Pending
<1>7. /\ network_peer_uuid \in Peers /\ network_timeout \in 1 .. Silence
      /\ hush \in 0 .. Silence /\ quiet[network_peer_uuid] \in 0 .. Silence
      /\ hush <= Silence - network_timeout
      /\ Silence - network_timeout <= quiet[network_peer_uuid]
  BY <1>3, NetAssumption DEF IInv, Left, Taken
<1>8. Taken' = Silence - network_timeout + 1
  BY <1>1, <1>6 DEF Taken
<1> QED
  BY <1>1, <1>7, <1>8, NetAssumption DEF Longer

\* The thread counts the second.
LEMMA SilentLeft ==
  ASSUME IInv, NEW t \in Thread, SilentSecond(t), Threads'
  PROVE  /\ Left'
         /\ ~overlapped /\ peer_connected /\ ~peer_connected' =>
              quiet[network_peer_uuid] >= Silence
<1>1. UNCHANGED <<quiet, hush, network_peer_uuid, overlapped>>
  BY DEF SilentSecond, ctl
<1>2. CASE overlapped \/ ~peer_connected
  <2>1. ~peer_connected => ~peer_connected'
    BY Zenon DEF SilentSecond
  <2> QED
    BY <1>1, <1>2, <2>1 DEF IInv, Left
<1>3. CASE ~overlapped /\ peer_connected
  <2>1. network_timeout' = network_timeout - 1
    BY <1>3 DEF SilentSecond
  <2>2. peer_connected' <=> network_timeout' # 0
    BY <1>3, <2>1 DEF SilentSecond
  <2>3. Pending = 1
    BY DEF SilentSecond, At, Pending
  <2>4. Pending' = 0
    <3>1. th'[t] = "loop"
      BY HandleThreads DEF SilentSecond, At, IInv, Threads, Started
    <3>2. \A u \in Thread : th'[u] \in Live => u = t
      BY <1>1, <1>3, <3>1 DEF Threads, Alone, Live
    <3> QED
      BY <3>1, <3>2 DEF Pending, Live, Waiting
  <2>5. /\ network_peer_uuid \in Peers /\ network_timeout \in 1 .. Silence
        /\ hush \in 0 .. Silence /\ quiet[network_peer_uuid] \in 0 .. Silence
        /\ hush <= Silence - network_timeout + 1
        /\ Silence - network_timeout + 1 <= quiet[network_peer_uuid]
    BY <1>3, <2>3, NetAssumption DEF IInv, Left, Taken
  <2>6. Taken' = Silence - (network_timeout - 1) + 0
    BY <2>1, <2>4 DEF Taken
  <2>7. ~peer_connected' => quiet[network_peer_uuid] >= Silence
    BY <2>1, <2>2, <2>5, NetAssumption
  <2>8. peer_connected' => /\ network_timeout' \in 1 .. Silence
                           /\ hush <= Taken' /\ Taken' <= quiet[network_peer_uuid]
    BY <2>1, <2>2, <2>5, <2>6, NetAssumption
  <2> QED
    BY <1>1, <2>5, <2>7, <2>8 DEF IInv, Left
<1> QED
  BY <1>2, <1>3

\* A message ends the silence of all, a call that of the peer it is from.
LEMMA HearLeft ==
  ASSUME IInv, NEW t \in Thread, Threads',
         \/ EmptyDatagram(t) \/ OtherMessage(t)
         \/ \E p \in Peers : Connect(t, p) \/ Refresh(t, p)
  PROVE  Left' /\ (peer_connected => peer_connected')
<1>1. hush' = 0 /\ overlapped' = overlapped /\ th'[t] \in {"loop", "exit"}
  BY HandleThreads
  DEF EmptyDatagram, OtherMessage, Connect, Refresh, Receive, ctl, IInv
<1>2. ~overlapped => Pending' = 0
  <2> SUFFICES ASSUME ~overlapped PROVE \A u \in Thread : th'[u] # "timeout"
    BY DEF Pending
  <2>1. \A u \in Thread : th'[u] \in Live => u = t
    BY <1>1 DEF Threads, Alone, Live
  <2> QED
    BY <1>1, <2>1 DEF Live, Waiting
<1>3. CASE EmptyDatagram(t) \/ OtherMessage(t)
  <2>1. UNCHANGED <<peer_connected, network_peer_uuid, network_timeout, quiet>>
    BY <1>3 DEF EmptyDatagram, OtherMessage
  <2>2. Pending \in {0, 1}
    BY DEF Pending
  <2>3. ~overlapped /\ peer_connected =>
          /\ Taken' = Silence - network_timeout + 0
          /\ Taken = Silence - network_timeout + Pending
    BY <1>2, <2>1 DEF Taken
  <2> QED
    BY <1>1, <2>1, <2>2, <2>3, NetAssumption DEF IInv, Left
<1>4. ASSUME NEW p \in Peers, Connect(t, p)
      PROVE  Left' /\ (peer_connected => peer_connected')
  <2>1. /\ network_peer_uuid' = p /\ network_timeout' = Silence
        /\ quiet' = [quiet EXCEPT ![p] = 0] /\ peer_connected'
    BY <1>4 DEF Connect
  <2>2. quiet' \in [Peers -> 0 .. Silence] /\ quiet'[p] = 0
    BY <2>1, NetAssumption DEF IInv, Left
  <2>3. ~overlapped => Taken' = Silence - Silence + 0
    BY <1>2, <2>1 DEF Taken
  <2> QED
    BY <1>1, <2>1, <2>2, <2>3, NetAssumption DEF Left
<1>5. ASSUME NEW p \in Peers, Refresh(t, p)
      PROVE  Left' /\ (peer_connected => peer_connected')
  <2>1. /\ UNCHANGED <<peer_connected, network_peer_uuid>>
        /\ quiet' = [quiet EXCEPT ![p] = 0]
        /\ network_timeout' = IF network_peer_uuid = p THEN Silence ELSE network_timeout
    BY <1>5 DEF Refresh
  <2>2. /\ quiet' \in [Peers -> 0 .. Silence]
        /\ \A q \in Peers : quiet'[q] = IF q = p THEN 0 ELSE quiet[q]
    BY <2>1, NetAssumption DEF IInv, Left
  <2>3. Pending \in {0, 1}
    BY DEF Pending
  <2>4. ~overlapped => Taken' = Silence - network_timeout' + 0
    BY <1>2 DEF Taken
  <2>5. Taken = Silence - network_timeout + Pending
    BY DEF Taken
  <2>6. CASE overlapped \/ ~peer_connected
    BY <1>1, <2>1, <2>2, <2>6, NetAssumption DEF Left
  <2>7. CASE ~overlapped /\ peer_connected /\ network_peer_uuid = p
    BY <1>1, <2>1, <2>2, <2>4, <2>7, NetAssumption DEF Left
  <2>8. CASE ~overlapped /\ peer_connected /\ network_peer_uuid # p
    BY <1>1, <2>1, <2>2, <2>3, <2>4, <2>5, <2>8, NetAssumption DEF IInv, Left
  <2> QED
    BY <2>6, <2>7, <2>8
<1> QED
  BY <1>3, <1>4, <1>5

\* The steps of a thread that neither counts a second nor handles a message,
\* and main's.
LEMMA OtherSteps ==
  ASSUME IInv, [Next]_vars, ~Tick,
         \A t \in Thread : ~SilentSecond(t) /\ ~EmptyDatagram(t) /\ ~OtherMessage(t),
         \A t \in Thread : \A p \in Peers : ~Connect(t, p) /\ ~Refresh(t, p)
  PROVE  Left' /\ (Alive' = Alive /\ peer_connected => peer_connected')
<1>1. CASE NetworkStart
  <2>1. UNCHANGED <<peer_connected, network_peer_uuid, network_timeout, quiet, hush>>
    BY <1>1 DEF NetworkStart, link, peer
  <2>2. ~overlapped' => ~peer_connected
    BY <1>1, Zenon DEF NetworkStart, Alive, IInv, Threads, LinkIsServed, Live
  <2> QED
    BY <2>1, <2>2 DEF IInv, Left
<1>2. ASSUME UNCHANGED <<peer_connected, network_peer_uuid, network_timeout,
                         quiet, hush, overlapped>>,
             Pending' = Pending
      PROVE  Left' /\ (Alive' = Alive /\ peer_connected => peer_connected')
  <2>1. Taken' = Taken
    BY <1>2 DEF Taken
  <2> QED
    BY <1>2, <2>1 DEF IInv, Left
<1>3. CASE NetworkStop \/ Joined \/ UNCHANGED vars
  <2>1. UNCHANGED <<peer_connected, network_peer_uuid, network_timeout, quiet, hush,
                    overlapped, th>>
    BY <1>3 DEF NetworkStop, Joined, vars, link, peer, ctl
  <2>2. Pending' = Pending
    BY <2>1 DEF Pending
  <2> QED
    BY <1>2, <2>1, <2>2
<1>4. ASSUME NEW t \in Thread, Exit(t)
      PROVE  Left' /\ (Alive' = Alive /\ peer_connected => peer_connected')
  <2>1. ~peer_connected' /\ UNCHANGED <<quiet, hush>>
    BY <1>4 DEF Exit, peer
  <2>2. t \in Alive /\ t \notin Alive'
    BY <1>4 DEF Exit, At, Alive, Live, Waiting, IInv, Threads, Started
  <2> QED
    BY <2>1, <2>2 DEF IInv, Left
<1>5. ASSUME NEW t \in Thread, Misled(t)
      PROVE  Left' /\ (Alive' = Alive /\ peer_connected => peer_connected')
  <2>1. UNCHANGED <<peer_connected, quiet, hush, overlapped>> /\ overlapped
    BY <1>5, MisledThreads DEF IInv, Misled, link, peer, ctl
  <2> QED
    BY <2>1 DEF IInv, Left
<1>6. ASSUME NEW t \in Thread,
             \/ OpenBroad(t) \/ OpenBound(t) \/ Bind(t) \/ DeclareRunning(t)
             \/ Wait(t) \/ Leave(t)
      PROVE  Left' /\ (Alive' = Alive /\ peer_connected => peer_connected')
  <2>1. UNCHANGED <<peer_connected, network_peer_uuid, network_timeout, quiet, hush,
                    overlapped>>
    BY <1>6 DEF OpenBroad, OpenBound, Bind, DeclareRunning, Wait, Leave, link, peer, ctl
  <2>2. PICK to : th' = [th EXCEPT ![t] = to] /\ to # "timeout" /\ th[t] # "timeout"
    BY <1>6 DEF OpenBroad, OpenBound, Bind, DeclareRunning, Wait, Leave, At
  <2>3. \A u \in Thread : th'[u] = "timeout" <=> th[u] = "timeout"
    BY <2>2 DEF IInv, Threads, Started
  <2>4. Pending' = Pending
    BY <2>3, Zenon DEF Pending
  <2> QED
    BY <1>2, <2>1, <2>4
<1> QED
  BY <1>1, <1>3, <1>4, <1>5, <1>6 DEF Next, Run, Hear

\* Every step preserves what concerns threads and sockets ...
LEMMA StepThreads == IInv /\ [Next]_vars => Threads'
<1> SUFFICES ASSUME IInv, [Next]_vars PROVE Threads'
  OBVIOUS
<1>1. Threads
  BY DEF IInv
<1> QED
  BY <1>1, StartThreads, MainThreads, TickThreads, SetUpThreads, HeadThreads,
     MisledThreads, HandleThreads, ExitThreads DEF Next, Run, Hear

\* ... and all of the invariant.
LEMMA StepIInv == IInv /\ [Next]_vars => IInv'
<1> SUFFICES ASSUME IInv, [Next]_vars PROVE IInv'
  OBVIOUS
<1>1. Threads'
  BY StepThreads
<1>2. NeverThird'
  BY StepNeverThird
<1>3. Left'
  BY <1>1, TickLeft, SilentLeft, HearLeft, OtherSteps
<1> QED
  BY <1>1, <1>2, <1>3 DEF IInv

\* Hence the invariant holds in every reachable state.
LEMMA IInvAlways == Spec => []IInv
BY InitIInv, StepIInv, PTL DEF Spec

-----------------------------------------------------------------------------

\* Hard sync never outlives the thread that serves it, however keys 9 and 0
\* follow each other (network.c:91-123, 376-387).
THEOREM LinksAreServed == Spec => []LinkIsServed
<1>1. IInv => LinkIsServed
  BY DEF IInv, Threads
<1> QED
  BY <1>1, IInvAlways, PTL

\* As long as no start has met a living thread, a thread in its loop holds the
\* port, and waits on and reads from the socket that holds it (network.c:125-188,
\* 232-242).
THEOREM ServersHear == Spec => []ServerHears
<1>1. IInv => ServerHears
  BY DEF IInv, Threads, Stages, Stage, ServerHears
<1> QED
  BY <1>1, IInvAlways, PTL

\* As long as no start has met a living thread, every thread leaves the sockets
\* closed and the port free (network.c:132-188, 381-383).
THEOREM CleanExits == Spec => []CleanWithoutOverlap
<1>1. IInv => CleanWithoutOverlap
  BY DEF IInv, Threads, Clean, CleanWithoutOverlap, Alive
<1> QED
  BY <1>1, IInvAlways, PTL

\* A console never calls first: its count starts at 4 and is compared with 3
\* (network.c:211, 251).
THEOREM NeverFirst == Spec => []CallsOnlyWhenCalled
<1>1. IInv => CallsOnlyWhenCalled
  BY DEF IInv, NeverThird
<1> QED
  BY <1>1, IInvAlways, PTL

\* A peer is not dropped before it has been silent for as long as allowed, and
\* by the time nothing has arrived for that long it is (network.c:232-279,
\* 366-371).
THEOREM DropsForSilence == Spec => DroppedForSilence
<1>1. IInv /\ [Next]_vars =>
        [~overlapped =>
           /\ Dropped => quiet[network_peer_uuid] >= Silence
           /\ Tick /\ peer_connected => hush < Silence]_vars
  <2> SUFFICES ASSUME IInv, [Next]_vars, ~overlapped
               PROVE  /\ Dropped => quiet[network_peer_uuid] >= Silence
                      /\ Tick /\ peer_connected => hush < Silence
    OBVIOUS
  <2>1. Tick /\ peer_connected => hush < Silence
    BY TickLeft
  <2>2. Tick => ~Dropped
    BY DEF Tick, Dropped
  <2>3. Dropped => quiet[network_peer_uuid] >= Silence
    BY <2>2, StepThreads, SilentLeft, HearLeft, OtherSteps DEF Dropped
  <2> QED
    BY <2>1, <2>3
<1> QED
  BY <1>1, IInvAlways, PTL DEF Spec, DroppedForSilence
=============================================================================
