-------------------------- MODULE SerialLinkProofs --------------------------
(***************************************************************************)
(* Proofs about SerialLink for any number of rounds, any modulus of the    *)
(* progressive numbers greater than 2, any writes to SC, and both kinds of *)
(* network.  The layers:                                                   *)
(*                                                                         *)
(*   Wire     which round and number every message carries, always;        *)
(*   Ahead    how far one console may get ahead of the other, from the     *)
(*            numbers alone, for consoles that begin with the same ones;   *)
(*   Far      what numbers consoles see whose own lie far apart, on any    *)
(*            network and whether or not their waits are answered;         *)
(*   Place    where each of the peer's messages is while it waits to be    *)
(*            looked at, on a network that loses nothing and until a       *)
(*            message arrives during a verify or a wait ends without one;  *)
(*   Told     what each console said of SC in every round, which is what   *)
(*            both looked at.                                              *)
(***************************************************************************)
EXTENDS SerialLink, SequenceTheorems, TLAPS

Number == 0 .. PROG - 1

MessageType == [byte : Nat, clock : BOOLEAN, start : BOOLEAN, prog : Number]
BitsType == [sent : BOOLEAN, sent_clock : BOOLEAN, sent_start : BOOLEAN,
             recv : BOOLEAN, recv_clock : BOOLEAN, recv_start : BOOLEAN]
CoupleType == [own : Nat, peer : Nat, irq : BOOLEAN]

TypeOK ==
  /\ clock \in [Node -> BOOLEAN] /\ transfer_start \in [Node -> BOOLEAN]
  /\ bits \in [Node -> BitsType] /\ regs \in [Node -> BitsType]
  /\ netregs \in [Node -> BitsType]
  /\ data_to_recv \in [Node -> Nat]
  /\ second \in [Node -> MessageType] /\ netmsg \in [Node -> MessageType]
  /\ waiting \in [Node -> BOOLEAN]
  /\ pc \in [Node -> {"run", "wait", "asleep", "woken",
                      "verify", "clear", "couple", "second"}]
  /\ net \in [Node -> {"idle", "recv", "second", "store"}]
  /\ chan \in [Node -> Seq(MessageType)]
  /\ prog_sent \in [Node -> Number] /\ prog_recv \in [Node -> Number]
  /\ left \in [Node -> Number]
  /\ global_quit \in [Node -> BOOLEAN]
  /\ rounds \in [Node -> Nat]
  /\ log \in [Node -> Seq(CoupleType)]
  /\ lossy \in Lossy /\ lossy \in BOOLEAN
  /\ raced \in BOOLEAN /\ unanswered \in BOOLEAN /\ turned \in BOOLEAN

\* The number n gives the message of its k-th round.
Num(n, k) == (left[n] + k) % PROG

\* How many messages n has taken off a network that loses nothing; 0 on one
\* that keeps them.
Got(n) == rounds[Peer(n)] - Len(chan[n])

\* The messages on their way to n are those of the peer's latest rounds.
Wire(n) ==
  /\ prog_sent[n] = Num(n, rounds[n])
  /\ Len(chan[n]) <= rounds[Peer(n)]
  /\ lossy => Len(chan[n]) = rounds[Peer(n)]
  /\ \A i \in 1 .. Len(chan[n]) :
       /\ chan[n][i].byte = Got(n) + i
       /\ chan[n][i].prog = Num(Peer(n), Got(n) + i)
  /\ ~lossy => prog_recv[n] = IF Got(n) = 0 THEN left[n] ELSE Num(Peer(n), Got(n))

\* The last number received stands for a round j of the peer that is less than a
\* turn of the numbers behind.
Window(n, j) ==
  /\ prog_recv[n] = Num(Peer(n), j)
  /\ rounds[n] + 2 <= j + PROG
  /\ ~lossy => j = Got(n)

Ahead(n) ==
  /\ rounds[n] <= rounds[Peer(n)] + 1 \/ global_quit[n]
  /\ ~global_quit[n] => \E j \in 0 .. rounds[Peer(n)] : Window(n, j)

WireInv == TypeOK /\ \A n \in Node : Wire(n)
AheadInv == Agree /\ ~turned => \A n \in Node : Ahead(n)

\* The messages that were stored, and the two places they wait in.
Stored(n) == IF net[n] = "idle" THEN Got(n) ELSE Got(n) - 1
First(n)  == bits[n].recv \/ pc[n] = "couple"
Held(n)   == second[n] # NoMessage

Round(n)  == IF pc[n] \in {"run", "second"} THEN 0 ELSE 1
Firsts(n) == IF First(n) THEN 1 ELSE 0
Helds(n)  == IF Held(n) THEN 1 ELSE 0

Place(n) ==
  /\ rounds[n] = Len(log[n]) + Round(n)
  /\ pc[n] \in {"wait", "asleep", "woken", "verify", "clear"} => bits[n].sent
  /\ pc[n] \in {"verify", "clear"} => bits[n].recv
  /\ pc[n] \in {"couple", "second"} => ~bits[n].recv
  /\ pc[n] = "clear" => regs[n] = bits[n]
  /\ net[n] = "store" => /\ pc[n] \in {"run", "wait", "asleep", "woken"}
                         /\ ~bits[n].recv /\ netregs[n] = bits[n]
  /\ net[n] = "second" => bits[n].recv /\ ~Verifying(n)
  /\ net[n] # "idle" => netmsg[n].byte = Got(n)
  /\ Stored(n) = Len(log[n]) + Firsts(n) + Helds(n)
  /\ First(n) => data_to_recv[n] = Len(log[n]) + 1
  /\ Held(n) => second[n].byte = Stored(n) /\ (pc[n] = "second" \/ First(n))
  /\ \A i \in 1 .. Len(log[n]) : log[n][i].own = i /\ log[n][i].peer = i

\* What the consoles said of SC in each of their rounds ...
SC   == [clock : BOOLEAN, start : BOOLEAN]
Said == [Node -> [Nat -> SC]]

Says(m, v) == m.clock = v.clock /\ m.start = v.start
Transfer(v, w) == v.clock # w.clock /\ v.start /\ w.start

\* ... is what their messages carry and what their couples are made of.
Told(M, n) ==
  LET p == Peer(n) IN
  /\ \A i \in 1 .. Len(chan[n]) : Says(chan[n][i], M[p][Got(n) + i])
  /\ net[n] # "idle" => Says(netmsg[n], M[p][Got(n)])
  /\ Held(n) => Says(second[n], M[p][Stored(n)])
  /\ First(n) => /\ bits[n].recv_clock = M[p][Len(log[n]) + 1].clock
                 /\ bits[n].recv_start = M[p][Len(log[n]) + 1].start
  /\ pc[n] \notin {"run", "second"} =>
       /\ bits[n].sent_clock = M[n][rounds[n]].clock
       /\ bits[n].sent_start = M[n][rounds[n]].start
  /\ \A i \in 1 .. Len(log[n]) : log[n][i].irq = Transfer(M[n][i], M[p][i])

PlaceInv == InOrder => \A n \in Node : Place(n)
ToldInv  == InOrder => \E M \in Said : \A n \in Node : Told(M, n)

-----------------------------------------------------------------------------
(* Numbers modulo PROG.                                                    *)

\* A number is so many times the modulus and a rest ...
LEMMA DivisionLaw ==
  ASSUME NEW a \in Nat, NEW m \in Nat \ {0}
  PROVE  a = m * (a \div m) + (a % m) /\ a \div m \in Nat /\ a % m \in 0 .. m - 1
OBVIOUS

LEMMA ProductLaw ==
  ASSUME NEW d \in Nat, d > 0, NEW m \in Nat
  PROVE  m * d >= m
OBVIOUS

\* ... in one way only.
LEMMA RestUnique ==
  ASSUME NEW m \in Nat \ {0}, NEW q \in Nat, NEW r \in 0 .. m - 1,
         NEW s \in Nat, NEW t \in 0 .. m - 1, m * q + r = m * s + t
  PROVE  r = t
<1>1. m * (s - q) = r - t /\ m * (q - s) = t - r
  BY m * s - m * q = r - t
<1>2. s <= q
  <2> SUFFICES ASSUME s - q > 0 PROVE FALSE
    OBVIOUS
  <2> QED
    BY <1>1, ProductLaw, m * (s - q) >= m
<1>3. q <= s
  <2> SUFFICES ASSUME q - s > 0 PROVE FALSE
    OBVIOUS
  <2> QED
    BY <1>1, ProductLaw, m * (q - s) >= m
<1>4. m * s = m * q
  BY <1>2, <1>3
<1> QED
  BY <1>1, <1>4

LEMMA RestOf ==
  ASSUME NEW m \in Nat \ {0}, NEW q \in Nat, NEW r \in 0 .. m - 1,
         NEW a \in Nat, a = m * q + r
  PROVE  a % m = r
BY DivisionLaw, RestUnique

\* Two numbers less than the modulus apart have different rests.
LEMMA RestsDiffer ==
  ASSUME NEW m \in Nat \ {0}, NEW a \in Nat, NEW b \in Nat, a < b, b - a < m
  PROVE  a % m # b % m
<1> DEFINE q == a \div m
           r == b \div m
<1>1. /\ a = m * q + (a % m) /\ b = m * r + (b % m)
      /\ q \in Nat /\ r \in Nat /\ a % m \in Nat
  BY DivisionLaw
<1> SUFFICES ASSUME a % m = b % m PROVE FALSE
  OBVIOUS
<1> HIDE DEF q, r
<1>2. b - a = m * r - m * q
  BY <1>1
<1>3. b - a = m * (r - q)
  BY <1>1, <1>2
<1>4. r - q > 0
  BY <1>1, <1>3
<1> QED
  BY <1>1, <1>3, <1>4, ProductLaw, m * (r - q) >= m

\* The rest after a rest.
LEMMA RestStep ==
  ASSUME NEW a \in Nat, NEW m \in Nat \ {0}
  PROVE  ((a % m) + 1) % m = (a + 1) % m
<1> DEFINE q == a \div m
           r == a % m
<1>1. a = m * q + r /\ q \in Nat /\ r \in 0 .. m - 1
  BY DivisionLaw
<1>2. CASE r + 1 < m
  <2>1. (r + 1) % m = r + 1
    BY <1>1, <1>2
  <2>2. a + 1 = m * q + (r + 1)
    BY <1>1
  <2> HIDE DEF q, r
  <2>3. (a + 1) % m = r + 1
    BY <1>1, <1>2, <2>2, RestOf
  <2> QED
    BY <2>1, <2>3 DEF r
<1>3. CASE r + 1 = m
  <2>1. (r + 1) % m = 0
    BY <1>3
  <2>2. a + 1 = m * (q + 1) + 0
    BY <1>1, <1>3
  <2> HIDE DEF q, r
  <2>3. (a + 1) % m = 0
    BY <1>1, <2>2, RestOf
  <2> QED
    BY <2>1, <2>3 DEF r
<1> QED
  BY <1>1, <1>2, <1>3

\* The numbers of rounds follow each other, and are different for rounds less than
\* a turn apart.
LEMMA NumStep ==
  ASSUME TypeOK, NEW n \in Node, NEW k \in Nat
  PROVE  /\ Num(n, k) \in Number /\ Num(n, 0) = left[n]
         /\ Succ(Num(n, k)) = Num(n, k + 1)
<1>1. PROG \in Nat \ {0} /\ left[n] \in Nat /\ left[n] < PROG
  BY LinkAssumption DEF TypeOK, Number
<1>2. left[n] + k \in Nat
  BY <1>1
<1>3. (((left[n] + k) % PROG) + 1) % PROG = ((left[n] + k) + 1) % PROG
  BY <1>1, <1>2, RestStep
<1>4. (left[n] + k) + 1 = left[n] + (k + 1)
  BY <1>1
<1>5. Num(n, k) \in Number
  BY <1>1, <1>2, DivisionLaw DEF Num, Number
<1>6. Num(n, 0) = left[n]
  BY <1>1 DEF Num
<1> QED
  BY <1>3, <1>4, <1>5, <1>6 DEF Num, Succ

LEMMA NumDiffers ==
  ASSUME TypeOK, NEW n \in Node, NEW i \in Nat, NEW k \in Nat, i < k, k - i < PROG
  PROVE  Num(n, i) # Num(n, k)
<1>1. PROG \in Nat \ {0} /\ left[n] \in Nat
  BY LinkAssumption DEF TypeOK, Number
<1> DEFINE a == left[n] + i
           b == left[n] + k
<1>2. a \in Nat /\ b \in Nat /\ a < b /\ b - a < PROG
  BY <1>1
<1> HIDE DEF a, b
<1>3. a % PROG # b % PROG
  BY <1>1, <1>2, RestsDiffer
<1> QED
  BY <1>3 DEF a, b, Num
-----------------------------------------------------------------------------
(* Types.                                                                  *)

LEMMA PeerType ==
  ASSUME NEW n \in Node
  PROVE  /\ Peer(n) \in Node /\ Peer(n) # n /\ Peer(Peer(n)) = n
         /\ \A m \in Node : m = n \/ m = Peer(n)
BY LinkAssumption DEF Node, Peer

LEMMA RecordTypes ==
  /\ NoMessage \in MessageType /\ NoBits \in BitsType
  /\ \A p \in Number : Succ(p) \in Number
<1>1. PROG \in Nat /\ PROG > 2
  BY LinkAssumption
<1>2. 0 \in Number
  BY <1>1 DEF Number
<1>3. NoMessage \in MessageType
  BY <1>2 DEF NoMessage, MessageType
<1>4. NoBits \in BitsType
  BY Zenon DEF NoBits, BitsType
<1>5. ASSUME NEW p \in Number PROVE Succ(p) \in Number
  BY <1>1, DivisionLaw, p + 1 \in Nat DEF Number, Succ
<1> QED
  BY <1>3, <1>4, <1>5

LEMMA TypeInit == Init => TypeOK
<1> SUFFICES ASSUME Init PROVE TypeOK
  OBVIOUS
<1>1. lossy \in Lossy /\ lossy \in BOOLEAN
  BY LinkAssumption DEF Init
<1>2. left \in [Node -> Number] /\ prog_sent \in [Node -> Number]
      /\ prog_recv \in [Node -> Number]
  <2>1. Starts[lossy] \in SUBSET [Node -> Number]
    BY <1>1, LinkAssumption DEF Number, Node
  <2> QED
    BY <2>1 DEF Init
<1>3. /\ bits \in [Node -> BitsType] /\ regs \in [Node -> BitsType]
      /\ netregs \in [Node -> BitsType]
  BY RecordTypes DEF Init
<1>4. second \in [Node -> MessageType] /\ netmsg \in [Node -> MessageType]
  BY RecordTypes DEF Init
<1>5. chan \in [Node -> Seq(MessageType)] /\ log \in [Node -> Seq(CoupleType)]
  BY EmptySeq DEF Init
<1> QED
  BY <1>1, <1>2, <1>3, <1>4, <1>5 DEF Init, TypeOK

\* What a console sends is a message; what arrives was sent.
LEMMA MessageSent ==
  ASSUME TypeOK, NEW n \in Node
  PROVE  [byte |-> rounds[n] + 1, clock |-> clock[n], start |-> transfer_start[n],
          prog |-> Succ(prog_sent[n])] \in MessageType
<1>1. clock[n] \in BOOLEAN /\ transfer_start[n] \in BOOLEAN
  BY Zenon DEF TypeOK
<1>2. rounds[n] + 1 \in Nat
  BY DEF TypeOK
<1>3. Succ(prog_sent[n]) \in Number
  BY RecordTypes DEF TypeOK
<1> QED
  BY <1>1, <1>2, <1>3, Zenon DEF MessageType

LEMMA BitsFields ==
  ASSUME NEW b \in BitsType
  PROVE  /\ b.sent \in BOOLEAN /\ b.sent_clock \in BOOLEAN /\ b.sent_start \in BOOLEAN
         /\ b.recv \in BOOLEAN /\ b.recv_clock \in BOOLEAN /\ b.recv_start \in BOOLEAN
         /\ ValidCouple(b) \in BOOLEAN
<1>1. /\ b.sent \in BOOLEAN /\ b.sent_clock \in BOOLEAN /\ b.sent_start \in BOOLEAN
      /\ b.recv \in BOOLEAN /\ b.recv_clock \in BOOLEAN /\ b.recv_start \in BOOLEAN
  BY Zenon DEF BitsType
<1>2. ValidCouple(b) \in BOOLEAN
  BY <1>1, Zenon DEF ValidCouple
<1> QED
  BY <1>1, <1>2

LEMMA MessageFields ==
  ASSUME NEW m \in MessageType
  PROVE  m.byte \in Nat /\ m.clock \in BOOLEAN /\ m.start \in BOOLEAN /\ m.prog \in Number
BY Zenon DEF MessageType

\* What the steps make of the six bit-fields.
LEMMA BitsUpdates ==
  ASSUME NEW b \in BitsType, NEW x \in BOOLEAN, NEW y \in BOOLEAN
  PROVE  /\ [b EXCEPT !.sent = FALSE] \in BitsType
         /\ [b EXCEPT !.sent = TRUE, !.sent_clock = x, !.sent_start = y] \in BitsType
         /\ [b EXCEPT !.recv = FALSE, !.sent = FALSE] \in BitsType
         /\ [b EXCEPT !.recv = TRUE, !.recv_clock = x, !.recv_start = y] \in BitsType
<1> /\ b.sent \in BOOLEAN /\ b.sent_clock \in BOOLEAN /\ b.sent_start \in BOOLEAN
    /\ b.recv \in BOOLEAN /\ b.recv_clock \in BOOLEAN /\ b.recv_start \in BOOLEAN
  BY BitsFields
<1>1. [b EXCEPT !.sent = FALSE] \in BitsType
  BY DEF BitsType
<1>2. [b EXCEPT !.sent = TRUE, !.sent_clock = x, !.sent_start = y] \in BitsType
  BY DEF BitsType
<1>3. [b EXCEPT !.recv = FALSE, !.sent = FALSE] \in BitsType
  BY DEF BitsType
<1>4. [b EXCEPT !.recv = TRUE, !.recv_clock = x, !.recv_start = y] \in BitsType
  BY DEF BitsType
<1> QED
  BY <1>1, <1>2, <1>3, <1>4

LEMMA TypeNext == TypeOK /\ [Next]_vars => TypeOK'
<1> SUFFICES ASSUME TypeOK, [Next]_vars PROVE TypeOK'
  OBVIOUS
<1> USE DEF TypeOK
<1>0. CASE UNCHANGED vars
  BY <1>0 DEF vars, sc, emu, netw, hist
<1>1. ASSUME NEW n \in Node, WriteSC(n) PROVE TypeOK'
  <2>1. PICK v \in SCWrites[lossy][n] : /\ clock' = [clock EXCEPT ![n] = v.clock]
                                        /\ transfer_start' = [transfer_start EXCEPT ![n] = v.start]
    BY <1>1 DEF WriteSC
  <2>2. v \in [clock : BOOLEAN, start : BOOLEAN]
    <3>1. SCWrites[lossy] \in [Node -> SUBSET [clock : BOOLEAN, start : BOOLEAN]]
      BY LinkAssumption DEF Node
    <3>2. SCWrites[lossy][n] \in SUBSET [clock : BOOLEAN, start : BOOLEAN]
      BY <3>1
    <3> QED
      BY <3>2
  <2>3. clock' \in [Node -> BOOLEAN] /\ transfer_start' \in [Node -> BOOLEAN]
    <3>1. v.clock \in BOOLEAN /\ v.start \in BOOLEAN
      BY <2>2
    <3> QED
      BY <2>1, <3>1
  <2>4. bits' \in [Node -> BitsType]
    <3>1. bits' = [bits EXCEPT ![n] = [bits[n] EXCEPT !.sent = FALSE]]
      BY <1>1 DEF WriteSC
    <3> QED
      BY Zenon, <3>1, BitsUpdates
  <2> QED
    BY <1>1, <2>3, <2>4 DEF WriteSC, emu, netw, hist
<1>2. ASSUME NEW n \in Node, SendByte(n) PROVE TypeOK'
  <2>1. clock[n] \in BOOLEAN /\ transfer_start[n] \in BOOLEAN
    OBVIOUS
  <2>2. bits' = [bits EXCEPT ![n] = [bits[n] EXCEPT !.sent = TRUE,
                                                   !.sent_clock = clock[n],
                                                   !.sent_start = transfer_start[n]]]
    BY <1>2 DEF SendByte
  <2>3. [bits[n] EXCEPT !.sent = TRUE, !.sent_clock = clock[n],
                        !.sent_start = transfer_start[n]] \in BitsType
    BY Zenon, <2>1, BitsUpdates
  <2>4. bits' \in [Node -> BitsType]
    BY <2>2, <2>3
  <2>5. prog_sent' \in [Node -> Number]
    BY <1>2, RecordTypes DEF SendByte
  <2>6. rounds' \in [Node -> Nat]
    BY <1>2 DEF SendByte
  <2>7. global_quit' \in [Node -> BOOLEAN]
    <3>1. (global_quit[n] \/ OutOfStep(n, Succ(prog_sent[n]))) \in BOOLEAN
      OBVIOUS
    <3> QED
      BY <1>2, <3>1 DEF SendByte
  <2>8. chan' \in [Node -> Seq(MessageType)]
    <3>1. PICK m \in MessageType : chan' = [chan EXCEPT ![Peer(n)] = Append(@, m)]
      BY <1>2, MessageSent DEF SendByte
    <3>2. Peer(n) \in Node /\ chan[Peer(n)] \in Seq(MessageType)
      BY PeerType DEF TypeOK
    <3>3. Append(chan[Peer(n)], m) \in Seq(MessageType)
      BY <3>2, AppendProperties
    <3> QED
      BY <3>1, <3>2, <3>3
  <2>9. pc' \in [Node -> {"run", "wait", "asleep", "woken",
                         "verify", "clear", "couple", "second"}]
    BY <1>2 DEF SendByte, Goto
  <2> QED
    BY <1>2, <2>4, <2>5, <2>6, <2>7, <2>8, <2>9 DEF SendByte, sc, netw
<1>3. ASSUME NEW n \in Node, WaitData(n) PROVE TypeOK'
  <2>1. (bits[n].sent /\ ~bits[n].recv) \in BOOLEAN
    OBVIOUS
  <2>2. waiting' \in [Node -> BOOLEAN]
    BY <1>3, <2>1 DEF WaitData
  <2> QED
    BY <1>3, <2>2 DEF WaitData, Goto, sc, netw, hist
<1>4. ASSUME NEW n \in Node, Timeout(n) PROVE TypeOK'
  BY <1>4 DEF Timeout, Goto, sc, netw, hist
<1>5. ASSUME NEW n \in Node, Awake(n) PROVE TypeOK'
  <2>1. unanswered' \in BOOLEAN
    <3>1. (unanswered \/ (~lossy /\ ~bits[n].recv)) \in BOOLEAN
      OBVIOUS
    <3> QED
      BY <1>5, <3>1 DEF Awake
  <2> QED
    BY <1>5, <2>1 DEF Awake, Goto, sc, netw
<1>6. ASSUME NEW n \in Node, VerifyTest(n) PROVE TypeOK'
  <2>1. raced' \in BOOLEAN
    <3>1. (raced \/ (~lossy /\ (bits[n].recv /\ bits[n].sent) /\ Holding(n))) \in BOOLEAN
      OBVIOUS
    <3> QED
      BY <1>6, <3>1 DEF VerifyTest
  <2> QED
    BY <1>6, <2>1 DEF VerifyTest, Goto, sc, netw
<1>7. ASSUME NEW n \in Node, VerifyClear(n) PROVE TypeOK'
  <2>1. regs' \in [Node -> BitsType]
    BY <1>7, RecordTypes DEF VerifyClear
  <2>2. [regs[n] EXCEPT !.recv = FALSE, !.sent = FALSE] \in BitsType
    BY Zenon, BitsUpdates
  <2>3. bits' \in [Node -> BitsType]
    BY <1>7, <2>2 DEF VerifyClear
  <2> QED
    BY <1>7, <2>1, <2>3 DEF VerifyClear, Goto, sc, netw, hist
<1>8. ASSUME NEW n \in Node, VerifyCouple(n) PROVE TypeOK'
  <2>1. ValidCouple(bits[n]) \in BOOLEAN
    BY BitsFields
  <2>2. transfer_start' \in [Node -> BOOLEAN]
    <3>1. (transfer_start[n] /\ ~ValidCouple(bits[n])) \in BOOLEAN
      OBVIOUS
    <3> QED
      BY <1>8, <3>1 DEF VerifyCouple
  <2>3. [own |-> rounds[n], peer |-> data_to_recv[n], irq |-> ValidCouple(bits[n])]
          \in CoupleType
    <3>1. rounds[n] \in Nat /\ data_to_recv[n] \in Nat
      OBVIOUS
    <3> QED
      BY <2>1, <3>1, Zenon DEF CoupleType
  <2>4. log' \in [Node -> Seq(CoupleType)]
    BY <1>8, <2>3, AppendProperties DEF VerifyCouple
  <2> QED
    BY <1>8, <2>2, <2>4 DEF VerifyCouple, Goto, netw
<1>9. ASSUME NEW n \in Node, VerifySecond(n) PROVE TypeOK'
  <2>1. second' \in [Node -> MessageType]
    BY <1>9, RecordTypes DEF VerifySecond
  <2>2. bits' \in [Node -> BitsType] /\ data_to_recv' \in [Node -> Nat]
    <3>1. CASE second[n] # NoMessage
      <4>1. second[n].byte \in Nat /\ second[n].clock \in BOOLEAN
            /\ second[n].start \in BOOLEAN
        BY MessageFields
      <4>2. [bits[n] EXCEPT !.recv = TRUE, !.recv_clock = second[n].clock,
                            !.recv_start = second[n].start] \in BitsType
        BY Zenon, <4>1, BitsUpdates
      <4>3. bits' = [bits EXCEPT ![n] = [bits[n] EXCEPT !.recv = TRUE,
                                !.recv_clock = second[n].clock,
                                !.recv_start = second[n].start]]
        BY <1>9, <3>1 DEF VerifySecond
      <4>4. data_to_recv' = [data_to_recv EXCEPT ![n] = second[n].byte]
        BY <1>9, <3>1 DEF VerifySecond
      <4> QED
        BY <4>1, <4>2, <4>3, <4>4
    <3>2. CASE second[n] = NoMessage
      BY <1>9, <3>2 DEF VerifySecond
    <3> QED
      BY <3>1, <3>2
  <2> QED
    BY <1>9, <2>1, <2>2 DEF VerifySecond, Goto, sc, netw, hist
<1>10. ASSUME NEW n \in Node, Receive(n) PROVE TypeOK'
  <2>1. PICK i \in Arrivals(n) :
          /\ netmsg' = [netmsg EXCEPT ![n] = chan[n][i]]
          /\ prog_recv' = [prog_recv EXCEPT ![n] = chan[n][i].prog]
          /\ chan' = IF lossy THEN chan ELSE [chan EXCEPT ![n] = Tail(@)]
          /\ turned' = (turned \/ (lossy /\ chan[n][i].byte + PROG < rounds[n] + 2))
    BY <1>10 DEF Receive
  <2>2. chan[n] \in Seq(MessageType) /\ i \in 1 .. Len(chan[n]) /\ chan[n] # <<>>
    BY <2>1 DEF Arrivals
  <2>3. chan[n][i] \in MessageType
    BY <2>2, ElementOfSeq
  <2>4. chan[n][i].prog \in Number
    BY <2>3, MessageFields
  <2>5. chan' \in [Node -> Seq(MessageType)]
    BY <2>1, <2>2, HeadTailProperties
  <2>6. netmsg' \in [Node -> MessageType] /\ prog_recv' \in [Node -> Number]
    BY <2>1, <2>3, <2>4
  <2>7. turned' \in BOOLEAN
    <3>1. (turned \/ (lossy /\ chan[n][i].byte + PROG < rounds[n] + 2)) \in BOOLEAN
      OBVIOUS
    <3> QED
      BY <2>1, <3>1
  <2>8. UNCHANGED <<sc, bits, data_to_recv, second, emu, netregs, prog_sent,
                    global_quit, left, lossy, rounds, log, raced, unanswered>>
    BY <1>10 DEF Receive
  <2>9. net' \in [Node -> {"idle", "recv", "second", "store"}]
    BY <1>10 DEF Receive
  <2> QED
    BY <2>5, <2>6, <2>7, <2>8, <2>9 DEF sc, emu
<1>11. ASSUME NEW n \in Node, RecvTest(n) PROVE TypeOK'
  <2>1. raced' \in BOOLEAN
    <3>1. (raced \/ (~lossy /\ Verifying(n))) \in BOOLEAN
      OBVIOUS
    <3> QED
      BY <1>11, <3>1 DEF RecvTest
  <2>2. net' \in [Node -> {"idle", "recv", "second", "store"}]
        /\ netregs' \in [Node -> BitsType]
    BY <1>11 DEF RecvTest
  <2> QED
    BY <1>11, <2>1, <2>2 DEF RecvTest, sc, emu
<1>13. ASSUME NEW n \in Node, RecvSecond(n) PROVE TypeOK'
  <2>1. netmsg' \in [Node -> MessageType] /\ second' \in [Node -> MessageType]
    BY <1>13, RecordTypes DEF RecvSecond
  <2>2. net' \in [Node -> {"idle", "recv", "second", "store"}]
    BY <1>13 DEF RecvSecond
  <2> QED
    BY <1>13, <2>1, <2>2 DEF RecvSecond, sc, emu, hist
<1>12. ASSUME NEW n \in Node, RecvStore(n) PROVE TypeOK'
  <2>2. netmsg[n].byte \in Nat /\ netmsg[n].clock \in BOOLEAN /\ netmsg[n].start \in BOOLEAN
    BY MessageFields
  <2>3. [netregs[n] EXCEPT !.recv = TRUE, !.recv_clock = netmsg[n].clock,
                           !.recv_start = netmsg[n].start] \in BitsType
    BY Zenon, <2>2, BitsUpdates
  <2>4. bits' \in [Node -> BitsType]
    BY <1>12, <2>3 DEF RecvStore
  <2>5. data_to_recv' \in [Node -> Nat]
    BY <1>12, <2>2 DEF RecvStore
  <2>6. netmsg' \in [Node -> MessageType] /\ netregs' \in [Node -> BitsType]
    BY <1>12, RecordTypes DEF RecvStore
  <2>7. pc' \in [Node -> {"run", "wait", "asleep", "woken",
                         "verify", "clear", "couple", "second"}]
    BY <1>12 DEF RecvStore, Notified
  <2>8. net' \in [Node -> {"idle", "recv", "second", "store"}]
    BY <1>12 DEF RecvStore
  <2> QED
    BY <1>12, <2>4, <2>5, <2>6, <2>7, <2>8 DEF RecvStore, sc, hist
<1> QED
  BY <1>0, <1>1, <1>2, <1>3, <1>4, <1>5, <1>6, <1>7, <1>8, <1>9, <1>10, <1>11,
     <1>12, <1>13 DEF Next, Emulate, Network

\* Every variable keeps its type, the six bit-fields and the numbers included.
THEOREM Typing == Spec => []TypeOK
BY TypeInit, TypeNext, PTL DEF Spec

-----------------------------------------------------------------------------
(* Wire.                                                                   *)

numbers == <<prog_sent, prog_recv, chan, rounds, left, lossy, global_quit, turned>>

LEMMA NumberSteps ==
  ASSUME [Next]_vars
  PROVE  UNCHANGED numbers \/ \E n \in Node : SendByte(n) \/ Receive(n)
<1> USE DEF numbers, emu, netw, hist
<1>1. CASE UNCHANGED vars
  BY <1>1 DEF vars
<1>2. ASSUME NEW n \in Node, \/ WriteSC(n) \/ WaitData(n) \/ Timeout(n) \/ Awake(n)
                             \/ VerifyTest(n) \/ VerifyClear(n)
      PROVE  UNCHANGED numbers
  BY <1>2 DEF WriteSC, WaitData, Timeout, Awake, VerifyTest, VerifyClear
<1>3. ASSUME NEW n \in Node, VerifyCouple(n) \/ VerifySecond(n)
      PROVE  UNCHANGED numbers
  BY <1>3 DEF VerifyCouple, VerifySecond
<1>4. ASSUME NEW n \in Node, RecvTest(n) \/ RecvSecond(n) \/ RecvStore(n)
      PROVE  UNCHANGED numbers
  BY <1>4 DEF RecvTest, RecvSecond, RecvStore
<1> QED
  BY <1>1, <1>2, <1>3, <1>4 DEF Next, Emulate, Network

\* What a round and a received message do to the numbers.
LEMMA SendEffect ==
  ASSUME TypeOK, \A m \in Node : Wire(m), NEW n \in Node, SendByte(n)
  PROVE  LET p == Peer(n) IN
         /\ rounds'[n] = rounds[n] + 1 /\ rounds'[p] = rounds[p]
         /\ prog_sent'[n] = Num(n, rounds[n] + 1) /\ prog_sent'[p] = prog_sent[p]
         /\ chan'[n] = chan[n] /\ chan'[p] \in Seq(MessageType)
         /\ Len(chan'[p]) = Len(chan[p]) + 1
         /\ \A i \in 1 .. Len(chan[p]) : chan'[p][i] = chan[p][i]
         /\ chan'[p][Len(chan[p]) + 1].byte = rounds[n] + 1
         /\ chan'[p][Len(chan[p]) + 1].prog = Num(n, rounds[n] + 1)
         /\ global_quit'[n] = (global_quit[n] \/ OutOfStep(n, Num(n, rounds[n] + 1)))
         /\ global_quit'[p] = global_quit[p]
         /\ UNCHANGED <<left, lossy, prog_recv, turned>>
<1> DEFINE p == Peer(n)
           m == [byte |-> rounds[n] + 1, clock |-> clock[n],
                 start |-> transfer_start[n], prog |-> Succ(prog_sent[n])]
<1>1. p \in Node /\ p # n
  BY PeerType
<1>2. Succ(prog_sent[n]) = Num(n, rounds[n] + 1)
  BY NumStep DEF Wire, TypeOK
<1>3. m \in MessageType /\ m.byte = rounds[n] + 1 /\ m.prog = Num(n, rounds[n] + 1)
  BY MessageSent, <1>2
<1>4. /\ rounds' = [rounds EXCEPT ![n] = @ + 1]
      /\ prog_sent' = [prog_sent EXCEPT ![n] = Num(n, rounds[n] + 1)]
      /\ global_quit' = [global_quit EXCEPT ![n] = @ \/ OutOfStep(n, Num(n, rounds[n] + 1))]
      /\ chan' = [chan EXCEPT ![p] = Append(@, m)]
      /\ UNCHANGED <<left, lossy, prog_recv, turned>>
  BY <1>2 DEF SendByte, netw
<1> HIDE DEF m, p
<1>5. chan[p] \in Seq(MessageType) /\ chan'[p] = Append(chan[p], m) /\ chan'[n] = chan[n]
  BY <1>1, <1>4 DEF TypeOK
<1>6. /\ chan'[p] \in Seq(MessageType) /\ Len(chan'[p]) = Len(chan[p]) + 1
      /\ \A i \in 1 .. Len(chan[p]) : chan'[p][i] = chan[p][i]
      /\ chan'[p][Len(chan[p]) + 1] = m
  BY <1>3, <1>5, AppendProperties
<1>7. /\ rounds'[n] = rounds[n] + 1 /\ rounds'[p] = rounds[p]
      /\ prog_sent'[n] = Num(n, rounds[n] + 1) /\ prog_sent'[p] = prog_sent[p]
  BY <1>1, <1>4 DEF TypeOK
<1>8. /\ global_quit'[n] = (global_quit[n] \/ OutOfStep(n, Num(n, rounds[n] + 1)))
      /\ global_quit'[p] = global_quit[p]
  BY <1>1, <1>4 DEF TypeOK
<1> QED
  BY <1>3, <1>4, <1>5, <1>6, <1>7, <1>8 DEF p

LEMMA ReceiveEffect ==
  ASSUME TypeOK, \A m \in Node : Wire(m), NEW n \in Node, Receive(n)
  PROVE  LET p == Peer(n) IN
         /\ \E j \in 1 .. rounds[p] :
              /\ prog_recv'[n] = Num(p, j)
              /\ ~lossy => j = Got(n) + 1
              /\ netmsg'[n].byte = j
              /\ ~turned' => ~turned /\ (lossy => rounds[n] + 2 <= j + PROG)
         /\ prog_recv'[p] = prog_recv[p] /\ chan'[p] = chan[p]
         /\ chan'[n] \in Seq(MessageType)
         /\ lossy => chan'[n] = chan[n]
         /\ ~lossy => /\ Len(chan'[n]) = Len(chan[n]) - 1
                      /\ \A i \in 1 .. Len(chan[n]) - 1 : chan'[n][i] = chan[n][i + 1]
         /\ UNCHANGED <<left, lossy, prog_sent, rounds, global_quit>>
<1> DEFINE p == Peer(n)
<1>1. p \in Node /\ p # n
  BY PeerType
<1>2. PICK i \in Arrivals(n) :
        /\ netmsg' = [netmsg EXCEPT ![n] = chan[n][i]]
        /\ prog_recv' = [prog_recv EXCEPT ![n] = chan[n][i].prog]
        /\ chan' = IF lossy THEN chan ELSE [chan EXCEPT ![n] = Tail(@)]
        /\ turned' = (turned \/ (lossy /\ chan[n][i].byte + PROG < rounds[n] + 2))
        /\ UNCHANGED <<left, lossy, prog_sent, rounds, global_quit>>
  BY DEF Receive, hist
<1>3. /\ chan[n] \in Seq(MessageType) /\ i \in 1 .. Len(chan[n]) /\ chan[n] # <<>>
      /\ ~lossy => i = 1
  BY <1>2 DEF Arrivals, TypeOK
<1> DEFINE j == Got(n) + i
<1>4. /\ chan[n][i].byte = j /\ chan[n][i].prog = Num(p, j)
      /\ Len(chan[n]) <= rounds[p]
  BY <1>3 DEF Wire
<1>5. Len(chan[n]) \in Nat /\ rounds[p] \in Nat /\ rounds[n] \in Nat /\ Got(n) \in Nat
      /\ PROG \in Nat
  BY <1>1, <1>3, <1>4, LenProperties, LinkAssumption DEF TypeOK, Got
<1>6. j \in 1 .. rounds[p] /\ (~lossy => j = Got(n) + 1)
  BY <1>3, <1>4, <1>5 DEF Got
<1>7. prog_recv'[n] = Num(p, j) /\ netmsg'[n].byte = j /\ prog_recv'[p] = prog_recv[p]
  <2>1. netmsg'[n] = chan[n][i] /\ prog_recv'[n] = chan[n][i].prog
    BY <1>2 DEF TypeOK
  <2> QED
    BY <1>1, <1>2, <1>4, <2>1 DEF TypeOK
<1>8. ~turned' => ~turned /\ (lossy => rounds[n] + 2 <= j + PROG)
  <2>1. turned' = (turned \/ (lossy /\ j + PROG < rounds[n] + 2))
    BY <1>2, <1>4
  <2>2. j + PROG < rounds[n] + 2 \/ rounds[n] + 2 <= j + PROG
    BY <1>5, <1>6
  <2> HIDE DEF j
  <2> QED
    BY <2>1, <2>2, Zenon
<1>9. /\ chan'[p] = chan[p]
      /\ lossy => chan'[n] = chan[n]
      /\ ~lossy => chan'[n] = Tail(chan[n])
  BY <1>1, <1>2 DEF TypeOK
<1>10. /\ Tail(chan[n]) \in Seq(MessageType)
       /\ Len(Tail(chan[n])) = Len(chan[n]) - 1
       /\ \A k \in 1 .. Len(chan[n]) - 1 : Tail(chan[n])[k] = chan[n][k + 1]
  BY <1>3, HeadTailProperties
<1> HIDE DEF j
<1>11. \E h \in 1 .. rounds[p] :
          /\ prog_recv'[n] = Num(p, h)
          /\ ~lossy => h = Got(n) + 1
          /\ netmsg'[n].byte = h
          /\ ~turned' => ~turned /\ (lossy => rounds[n] + 2 <= h + PROG)
  BY <1>6, <1>7, <1>8
<1> QED
  BY <1>2, <1>3, <1>7, <1>9, <1>10, <1>11

LEMMA WireInit == Init => WireInv
<1> SUFFICES ASSUME Init PROVE WireInv
  OBVIOUS
<1>1. TypeOK
  BY TypeInit
<1>2. ASSUME NEW n \in Node PROVE Wire(n)
  <2>1. /\ rounds[n] = 0 /\ rounds[Peer(n)] = 0
        /\ prog_sent[n] = left[n] /\ prog_recv[n] = left[n]
    BY PeerType DEF Init
  <2>2. Len(chan[n]) = 0
    BY EmptySeq, Len(<<>>) = 0 DEF Init
  <2> QED
    <3>1. Num(n, rounds[n]) = left[n]
      BY <1>1, <2>1, NumStep
    <3>2. Len(chan[n]) = 0 /\ Got(n) = 0
      BY <2>1, <2>2 DEF Got
    <3>3. prog_sent[n] = Num(n, rounds[n]) /\ Len(chan[n]) <= rounds[Peer(n)]
          /\ Len(chan[n]) = rounds[Peer(n)]
      BY <2>1, <3>1, <3>2
    <3>4. \A i \in 1 .. Len(chan[n]) : FALSE
      BY <3>2
    <3>5. prog_recv[n] = IF Got(n) = 0 THEN left[n] ELSE Num(Peer(n), Got(n))
      BY <2>1, <3>2
    <3> QED
      BY <3>3, <3>4, <3>5, Zenon DEF Wire
<1> QED
  BY <1>1, <1>2 DEF WireInv

LEMMA WireNext == WireInv /\ [Next]_vars => WireInv'
<1> SUFFICES ASSUME WireInv, [Next]_vars PROVE WireInv'
  OBVIOUS
<1>0. TypeOK /\ TypeOK'
  BY TypeNext DEF WireInv
<1>1. CASE UNCHANGED numbers
  BY <1>0, <1>1 DEF WireInv, Wire, Got, Num, numbers
<1>2. ASSUME NEW n \in Node, SendByte(n), NEW m \in Node PROVE Wire(m)'
  <2>0. PICK p \in Node : p = Peer(n)
    BY PeerType
  <2>1. /\ p # n /\ Peer(p) = n /\ Peer(n) = p /\ (m = n \/ m = p)
        /\ rounds[n] \in Nat /\ rounds[p] \in Nat
        /\ Len(chan[n]) \in Nat /\ Len(chan[p]) \in Nat
    BY <1>0, <2>0, PeerType, LenProperties DEF TypeOK
  <2>2. Wire(n) /\ Wire(p)
    BY <2>1 DEF WireInv
  <2>3. /\ rounds'[n] = rounds[n] + 1 /\ rounds'[p] = rounds[p]
        /\ prog_sent'[n] = Num(n, rounds[n] + 1) /\ prog_sent'[p] = prog_sent[p]
        /\ chan'[n] = chan[n] /\ Len(chan'[p]) = Len(chan[p]) + 1
        /\ \A i \in 1 .. Len(chan[p]) : chan'[p][i] = chan[p][i]
        /\ chan'[p][Len(chan[p]) + 1].byte = rounds[n] + 1
        /\ chan'[p][Len(chan[p]) + 1].prog = Num(n, rounds[n] + 1)
        /\ UNCHANGED <<left, lossy, prog_recv>>
    <3>1. TypeOK /\ \A q \in Node : Wire(q)
      BY <1>0 DEF WireInv
    <3> QED
      BY <1>2, <2>0, <3>1, SendEffect
  <2>4. Got(n)' = Got(n) /\ Got(p)' = Got(p)
    <3>1. Got(n)' = rounds'[p] - Len(chan'[n]) /\ Got(p)' = rounds'[n] - Len(chan'[p])
      BY <2>1, Zenon DEF Got
    <3>2. Got(n) = rounds[p] - Len(chan[n]) /\ Got(p) = rounds[n] - Len(chan[p])
      BY <2>1, Zenon DEF Got
    <3>3. /\ rounds'[n] = rounds[n] + 1 /\ Len(chan'[p]) = Len(chan[p]) + 1
          /\ rounds'[p] = rounds[p] /\ Len(chan'[n]) = Len(chan[n])
      BY <2>3, Zenon
    <3>4. PICK j \in Nat, k \in Nat : j = rounds[n] /\ k = Len(chan[p])
      BY <2>1
    <3>5. Got(p)' = (j + 1) - (k + 1) /\ Got(p) = j - k
      BY <3>1, <3>2, <3>3, <3>4, Zenon
    <3>6. (j + 1) - (k + 1) = j - k
      OBVIOUS
    <3> QED
      BY <3>1, <3>2, <3>3, <3>5, <3>6, Zenon
  <2>5. Wire(n)'
    BY <2>1, <2>2, <2>3, <2>4 DEF Wire, Num
  <2>6. Wire(p)'
    <3>1. ASSUME NEW i \in 1 .. Len(chan'[p])
          PROVE  chan'[p][i].byte = Got(p) + i /\ chan'[p][i].prog = Num(n, Got(p) + i)
      <4>1. CASE i \in 1 .. Len(chan[p])
        BY <2>1, <2>2, <2>3, <4>1 DEF Wire
      <4>2. CASE i = Len(chan[p]) + 1
        BY SMTT(20), <2>1, <2>3, <4>2 DEF Got
      <4> QED
        BY <2>1, <2>3, <4>1, <4>2
    <3> QED
      BY <2>1, <2>2, <2>3, <2>4, <3>1 DEF Wire, Num
  <2> QED
    BY <2>1, <2>5, <2>6
<1>3. ASSUME NEW n \in Node, Receive(n), NEW m \in Node PROVE Wire(m)'
  <2>0. PICK p \in Node : p = Peer(n)
    BY PeerType
  <2>1. /\ p # n /\ Peer(p) = n /\ Peer(n) = p /\ (m = n \/ m = p)
        /\ rounds[n] \in Nat /\ rounds[p] \in Nat
        /\ Len(chan[n]) \in Nat /\ Len(chan[p]) \in Nat
    BY <1>0, <2>0, PeerType, LenProperties DEF TypeOK
  <2>2. Wire(n) /\ Wire(p)
    BY <2>1 DEF WireInv
  <2>3. /\ ~lossy => prog_recv'[n] = Num(p, Got(n) + 1)
        /\ prog_recv'[p] = prog_recv[p] /\ chan'[p] = chan[p]
        /\ lossy => chan'[n] = chan[n]
        /\ ~lossy => /\ Len(chan'[n]) = Len(chan[n]) - 1
                     /\ \A i \in 1 .. Len(chan[n]) - 1 : chan'[n][i] = chan[n][i + 1]
        /\ UNCHANGED <<left, lossy, prog_sent, rounds>>
    BY <1>0, <1>3, <2>1, ReceiveEffect DEF WireInv
  <2>4. Wire(p)'
    BY <2>1, <2>2, <2>3 DEF Wire, Num, Got
  <2>5. ASSUME lossy PROVE Wire(n)'
    <3>1. Got(n)' = Got(n) /\ Len(chan'[n]) = Len(chan[n])
      BY <2>1, <2>3, <2>5 DEF Got
    <3>2. lossy'
      BY <2>3, <2>5
    <3> QED
      BY <2>1, <2>2, <2>3, <2>5, <3>1, <3>2 DEF Wire, Num
  <2>6. ASSUME ~lossy PROVE Wire(n)'
    <3>1. Len(chan'[n]) = Len(chan[n]) - 1 /\ Len(chan[n]) <= rounds[p]
      BY <2>1, <2>2, <2>3, <2>6 DEF Wire
    <3>2. Got(n)' = Got(n) + 1 /\ Got(n) \in Nat
      BY <2>1, <2>3, <3>1 DEF Got
    <3>3. ASSUME NEW i \in 1 .. Len(chan'[n])
          PROVE  chan'[n][i].byte = Got(n) + 1 + i /\ chan'[n][i].prog = Num(p, Got(n) + 1 + i)
      <4>1. i + 1 \in 1 .. Len(chan[n]) /\ chan'[n][i] = chan[n][i + 1]
        BY <2>1, <2>3, <2>6, <3>1
      <4>2. Got(n) + (i + 1) = Got(n) + 1 + i
        BY <3>2
      <4> QED
        BY <2>1, <2>2, <4>1, <4>2 DEF Wire
    <3>4. prog_sent'[n] = (left[n] + rounds'[n]) % PROG
      BY <2>2, <2>3 DEF Wire, Num
    <3>5. Len(chan'[n]) <= rounds'[p]
      BY <2>1, <2>3, <3>1
    <3>6. prog_recv'[n] = Num(p, Got(n) + 1) /\ Got(n) + 1 # 0
      BY <2>3, <2>6, <3>2
    <3>7. left' = left /\ lossy' = lossy
      BY <2>3
    <3> QED
      BY <2>1, <2>6, <3>2, <3>3, <3>4, <3>5, <3>6, <3>7 DEF Wire, Num
  <2> QED
    BY <1>0, <2>1, <2>4, <2>5, <2>6 DEF TypeOK
<1> QED
  BY <1>0, <1>1, <1>2, <1>3, NumberSteps DEF WireInv

LEMMA WireAlways == Spec => []WireInv
BY WireInit, WireNext, PTL DEF Spec

-----------------------------------------------------------------------------
(* Ahead.                                                                  *)

\* A console's own next number is in step with the last number received only if
\* that one stands for the round before or for the same round.
LEMMA InStepNumber ==
  ASSUME TypeOK, Agree, NEW n \in Node, NEW p \in Node, p = Peer(n),
         NEW k \in Nat, NEW j \in Nat, j <= k, k + 2 <= j + PROG,
         prog_recv[n] = Num(p, j), ~OutOfStep(n, Num(n, k + 1))
  PROVE  k <= j
<1>1. left[n] = left[p] /\ Num(p, j) = Num(n, j)
  BY DEF Agree, Num, Node, Peer
<1>2. Num(n, k + 1) = Num(n, j) \/ Num(n, k + 1) = Num(n, j + 1)
  BY <1>1, NumStep DEF OutOfStep
<1>3. PROG \in Nat /\ PROG > 2
  BY LinkAssumption
<1> SUFFICES ASSUME j < k PROVE FALSE
  OBVIOUS
<1>4. Num(n, k + 1) # Num(n, j)
  BY <1>3, NumDiffers, j < k + 1, k + 1 - j < PROG, k + 1 \in Nat
<1>5. Num(n, k + 1) # Num(n, j + 1)
  BY <1>3, NumDiffers, j + 1 < k + 1, (k + 1) - (j + 1) < PROG, k + 1 \in Nat, j + 1 \in Nat
<1> QED
  BY <1>2, <1>4, <1>5

LEMMA AheadInit == Init => AheadInv
<1> SUFFICES ASSUME Init, Agree, NEW n \in Node PROVE Ahead(n)
  BY DEF AheadInv
<1>1. TypeOK
  BY TypeInit
<1>2. /\ rounds[n] = 0 /\ rounds[Peer(n)] = 0 /\ prog_recv[n] = left[n]
  BY PeerType DEF Init
<1>3. Len(chan[n]) = 0
  BY EmptySeq, Len(<<>>) = 0 DEF Init
<1>4. Num(Peer(n), 0) = left[n]
  BY <1>1, NumStep, PeerType DEF Agree, Node, Peer
<1>5. PROG \in Nat /\ PROG > 2
  BY LinkAssumption
<1>6. Window(n, 0)
  BY <1>2, <1>3, <1>4, <1>5 DEF Window, Got
<1> QED
  BY <1>2, <1>6 DEF Ahead

LEMMA AheadNext == WireInv /\ AheadInv /\ [Next]_vars => AheadInv'
<1> SUFFICES ASSUME WireInv, AheadInv, [Next]_vars, Agree', ~turned', NEW m \in Node
             PROVE  Ahead(m)'
  BY DEF AheadInv
<1>0. TypeOK /\ TypeOK' /\ PROG \in Nat /\ PROG > 2
  BY TypeNext, LinkAssumption DEF WireInv
<1>1. CASE UNCHANGED numbers
  <2>1. Agree /\ ~turned
    BY <1>1 DEF numbers, Agree
  <2>2. Ahead(m)
    BY <2>1 DEF AheadInv
  <2> QED
    BY <1>1, <2>2 DEF Ahead, Window, Got, Num, numbers
<1>2. ASSUME NEW n \in Node, SendByte(n) PROVE Ahead(m)'
  <2>0. PICK p \in Node : p = Peer(n)
    BY PeerType
  <2>1. /\ p # n /\ Peer(p) = n /\ Peer(n) = p /\ (m = n \/ m = p)
        /\ rounds[n] \in Nat /\ rounds[p] \in Nat
        /\ Len(chan[n]) \in Nat /\ Len(chan[p]) \in Nat
    BY <1>0, <2>0, PeerType, LenProperties DEF TypeOK
  <2>2. /\ rounds'[n] = rounds[n] + 1 /\ rounds'[p] = rounds[p]
        /\ chan'[n] = chan[n] /\ Len(chan'[p]) = Len(chan[p]) + 1
        /\ global_quit'[n] = (global_quit[n] \/ OutOfStep(n, Num(n, rounds[n] + 1)))
        /\ global_quit'[p] = global_quit[p]
        /\ UNCHANGED <<left, lossy, prog_recv, turned>>
    BY <1>0, <1>2, <2>1, SendEffect DEF WireInv
  <2>3. Agree /\ Ahead(n) /\ Ahead(p)
    BY <2>2 DEF Agree, AheadInv
  <2>4. Got(n)' = Got(n) /\ Got(p)' = Got(p)
    BY SMTT(20), <2>1, <2>2 DEF Got
  <2>5. Ahead(p)'
    <3>1. rounds[p] <= rounds'[n] + 1 \/ global_quit'[p]
      BY <2>1, <2>2, <2>3 DEF Ahead
    <3>2. ASSUME ~global_quit'[p] PROVE \E j \in 0 .. rounds'[n] : Window(p, j)'
      <4>1. PICK j \in 0 .. rounds[n] : Window(p, j)
        BY <2>1, <2>2, <2>3, <3>2 DEF Ahead
      <4>2. j \in 0 .. rounds'[n] /\ Window(p, j)'
        BY <2>1, <2>2, <2>4, <4>1 DEF Window, Num
      <4> QED
        BY <4>2
    <3> QED
      BY <2>1, <2>2, <3>1, <3>2 DEF Ahead
  <2>6. ASSUME ~global_quit'[n] PROVE Ahead(n)'
    <3>1. ~global_quit[n] /\ ~OutOfStep(n, Num(n, rounds[n] + 1))
      BY <2>2, <2>6
    <3>2. PICK j \in 0 .. rounds[p] : Window(n, j)
      BY <2>1, <2>3, <3>1 DEF Ahead
    <3>3. rounds[n] <= j
      BY <1>0, <2>1, <2>3, <3>1, <3>2, InStepNumber DEF Window
    <3>4. rounds'[n] <= rounds[p] + 1
      BY <2>1, <2>2, <3>2, <3>3
    <3>5. Window(n, j)'
      BY <1>0, <2>1, <2>2, <2>4, <3>2, <3>3 DEF Window, Num
    <3> QED
      BY <2>1, <2>2, <3>2, <3>4, <3>5 DEF Ahead
  <2> QED
    BY <2>1, <2>5, <2>6 DEF Ahead
<1>3. ASSUME NEW n \in Node, Receive(n) PROVE Ahead(m)'
  <2>0. PICK p \in Node : p = Peer(n)
    BY PeerType
  <2>1. /\ p # n /\ Peer(p) = n /\ Peer(n) = p /\ (m = n \/ m = p)
        /\ rounds[n] \in Nat /\ rounds[p] \in Nat
        /\ Len(chan[n]) \in Nat /\ Len(chan[p]) \in Nat
    BY <1>0, <2>0, PeerType, LenProperties DEF TypeOK
  <2>2. PICK j \in 1 .. rounds[p] :
          /\ prog_recv'[n] = Num(p, j)
          /\ ~lossy => j = Got(n) + 1
          /\ ~turned' => ~turned /\ (lossy => rounds[n] + 2 <= j + PROG)
    BY <1>0, <1>3, <2>1, ReceiveEffect DEF WireInv
  <2>3. /\ prog_recv'[p] = prog_recv[p] /\ chan'[p] = chan[p]
        /\ ~lossy => Len(chan'[n]) = Len(chan[n]) - 1
        /\ UNCHANGED <<left, lossy, rounds, global_quit>>
    BY <1>0, <1>3, <2>1, ReceiveEffect DEF WireInv
  <2>4. Agree /\ Ahead(n) /\ Ahead(p)
    BY <2>2, <2>3 DEF Agree, AheadInv
  <2>5. Ahead(p)'
    BY <2>1, <2>3, <2>4 DEF Ahead, Window, Got, Num
  <2>6. Ahead(n)'
    <3>1. ~lossy => j = Got(n)'
      BY <2>1, <2>2, <2>3 DEF Got
    <3>2. ASSUME ~global_quit[n] PROVE rounds[n] + 2 <= j + PROG
      <4>1. CASE lossy
        BY <2>2, <4>1
      <4>2. CASE ~lossy
        <5>1. PICK h \in 0 .. rounds[p] : Window(n, h)
          BY <2>1, <2>4, <3>2 DEF Ahead
        <5>2. j = h + 1
          BY <2>2, <4>2, <5>1 DEF Window
        <5> QED
          BY <1>0, <2>1, <5>1, <5>2 DEF Window
      <4> QED
        BY <4>1, <4>2
    <3>3. ASSUME ~global_quit[n] PROVE Window(n, j)'
      <4>1. ~lossy' => j = Got(n)'
        BY <2>3, <3>1
      <4>2. rounds'[n] + 2 <= j + PROG
        BY <2>3, <3>2, <3>3
      <4>3. Num(p, j)' = Num(p, j)
        BY <2>3 DEF Num
      <4> QED
        BY <2>1, <2>2, <4>1, <4>2, <4>3 DEF Window
    <3> QED
      BY <2>1, <2>2, <2>3, <2>4, <3>3 DEF Ahead
  <2> QED
    BY <2>1, <2>5, <2>6
<1> QED
  BY <1>1, <1>2, <1>3, NumberSteps

\* Whatever the network loses, repeats or reorders, a console that runs ahead of
\* its peer by more than one round ends its game (network_send_data's test).
THEOREM AheadOrQuit == Spec => []AheadByOneOrQuit
<1>1. AheadInv => AheadByOneOrQuit
  BY DEF AheadInv, AheadByOneOrQuit, Ahead
<1> QED
  BY <1>1, WireAlways, AheadInit, AheadNext, PTL DEF Spec

-----------------------------------------------------------------------------
(* One console at a time.                                                  *)

Step(n) == WriteSC(n) \/ Emulate(n) \/ Timeout(n) \/ Network(n)

\* What is one console's own.
own(n) == <<pc[n], bits[n], regs[n], net[n], netmsg[n], netregs[n], second[n],
            data_to_recv[n], log[n], rounds[n]>>

LEMMA OwnSteps ==
  ASSUME TypeOK, \A m \in Node : Wire(m), NEW n \in Node, NEW q \in Node, q # n, Step(n)
  PROVE  /\ own(q)' = own(q) /\ Got(q)' = Got(q) /\ global_quit'[q] = global_quit[q]
         /\ UNCHANGED <<left, lossy>> /\ (raced => raced') /\ (unanswered => unanswered')
<1> USE DEF TypeOK, own
<1>1. CASE WriteSC(n)
  BY <1>1 DEF WriteSC, emu, netw, hist, Got
<1>2. CASE SendByte(n)
  <2>1. q = Peer(n) /\ n = Peer(q)
    BY PeerType
  <2>2. /\ rounds'[n] = rounds[n] + 1 /\ Len(chan'[q]) = Len(chan[q]) + 1
        /\ rounds'[q] = rounds[q] /\ global_quit'[q] = global_quit[q]
    BY <1>2, <2>1, SendEffect
  <2>3. Got(q)' = Got(q)
    <3>1. rounds[n] \in Nat /\ Len(chan[q]) \in Nat
      BY LenProperties
    <3> QED
      BY <2>1, <2>2, <3>1 DEF Got
  <2>4. own(q)' = own(q)
    BY <1>2, <2>2 DEF SendByte, Goto, netw
  <2> QED
    BY <1>2, <2>2, <2>3, <2>4 DEF SendByte
<1>3. CASE WaitData(n) \/ Timeout(n) \/ Awake(n)
  BY <1>3 DEF WaitData, Timeout, Awake, Goto, netw, hist, Got
<1>4. CASE VerifyTest(n)
  BY <1>4 DEF VerifyTest, Goto, netw, hist, Got
<1>5. CASE VerifyClear(n)
  BY <1>5 DEF VerifyClear, Goto, netw, hist, Got
<1>6. CASE VerifyCouple(n)
  BY <1>6 DEF VerifyCouple, Goto, netw, Got
<1>7. CASE VerifySecond(n)
  BY <1>7 DEF VerifySecond, Goto, netw, hist, Got
<1>8. CASE Receive(n)
  BY <1>8 DEF Receive, emu, Got
<1>9. CASE RecvTest(n)
  BY <1>9 DEF RecvTest, emu, Got
<1>10. CASE RecvStore(n)
  BY <1>10 DEF RecvStore, Notified, hist, Got
<1>11. CASE RecvSecond(n)
  BY <1>11 DEF RecvSecond, emu, hist, Got
<1> QED
  BY <1>1, <1>2, <1>3, <1>4, <1>5, <1>6, <1>7, <1>8, <1>9, <1>10, <1>11
  DEF Step, Emulate, Network

\* What a step does to its console.
LEMMA EffectWriteSC ==
  ASSUME TypeOK, NEW n \in Node, WriteSC(n)
  PROVE  /\ pc[n] = "run" /\ ~Holding(n) /\ pc'[n] = "run"
         /\ bits'[n].recv = bits[n].recv /\ bits'[n].recv_clock = bits[n].recv_clock
         /\ bits'[n].recv_start = bits[n].recv_start
         /\ UNCHANGED <<regs, net, netmsg, netregs, second, data_to_recv, log, rounds,
                        chan, prog_recv, global_quit, raced>>
         /\ Got(n)' = Got(n)
<1>1. bits'[n] = [bits[n] EXCEPT !.sent = FALSE]
  BY DEF WriteSC, TypeOK
<1>2. /\ bits'[n].recv = bits[n].recv /\ bits'[n].recv_clock = bits[n].recv_clock
      /\ bits'[n].recv_start = bits[n].recv_start
  <2>1. bits[n] \in BitsType
    BY DEF TypeOK
  <2> QED
    BY <1>1, <2>1 DEF BitsType
<1> QED
  BY <1>2 DEF WriteSC, MutexFree, emu, netw, hist, Got

LEMMA EffectSendByte ==
  ASSUME TypeOK, \A m \in Node : Wire(m), NEW n \in Node, SendByte(n)
  PROVE  /\ pc[n] = "run" /\ ~Holding(n) /\ pc'[n] = "wait" /\ ~global_quit[n]
         /\ bits'[n].sent /\ bits'[n].sent_clock = clock[n]
         /\ bits'[n].sent_start = transfer_start[n] /\ bits'[n].recv = bits[n].recv
         /\ bits'[n].recv_clock = bits[n].recv_clock
         /\ bits'[n].recv_start = bits[n].recv_start
         /\ rounds'[n] = rounds[n] + 1
         /\ UNCHANGED <<regs, net, netmsg, netregs, second, data_to_recv, log, raced>>
         /\ chan'[n] = chan[n] /\ Got(n)' = Got(n)
<1>1. bits'[n] = [bits[n] EXCEPT !.sent = TRUE, !.sent_clock = clock[n],
                                !.sent_start = transfer_start[n]]
  BY DEF SendByte, TypeOK
<1>2. /\ bits'[n].sent /\ bits'[n].sent_clock = clock[n]
      /\ bits'[n].sent_start = transfer_start[n] /\ bits'[n].recv = bits[n].recv
      /\ bits'[n].recv_clock = bits[n].recv_clock
      /\ bits'[n].recv_start = bits[n].recv_start
  <2>1. bits[n] \in BitsType
    BY DEF TypeOK
  <2> QED
    BY <1>1, <2>1 DEF BitsType
<1>3. rounds'[n] = rounds[n] + 1 /\ rounds'[Peer(n)] = rounds[Peer(n)] /\ chan'[n] = chan[n]
  BY SendEffect
<1>4. pc[n] = "run" /\ pc'[n] = "wait"
  BY DEF SendByte, Goto, TypeOK
<1> QED
  BY <1>2, <1>3, <1>4 DEF SendByte, MutexFree, Playing, netw, Got

LEMMA EffectWait ==
  ASSUME TypeOK, NEW n \in Node, WaitData(n) \/ Timeout(n) \/ Awake(n)
  PROVE  /\ \/ /\ pc[n] = "wait" /\ bits[n].sent /\ ~bits[n].recv /\ pc'[n] = "asleep"
            \/ /\ pc[n] = "wait" /\ pc'[n] = "verify" /\ (bits[n].sent => bits[n].recv)
            \/ pc[n] = "asleep" /\ pc'[n] = "woken"
            \/ /\ pc[n] = "woken" /\ pc'[n] = "verify"
               /\ lossy \/ unanswered' \/ bits[n].recv
         /\ UNCHANGED <<bits, regs, net, netmsg, netregs, second, data_to_recv, log,
                        rounds, chan, prog_recv, global_quit, raced>>
         /\ Got(n)' = Got(n)
<1>1. CASE WaitData(n)
  <2>1. /\ pc[n] = "wait" /\ pc'[n] = IF bits[n].sent /\ ~bits[n].recv THEN "asleep" ELSE "verify"
        /\ UNCHANGED <<bits, regs, net, netmsg, netregs, second, data_to_recv, log,
                       rounds, chan, prog_recv, global_quit, raced>>
    BY <1>1 DEF WaitData, Goto, netw, hist, TypeOK
  <2> QED
    BY <2>1 DEF Got
<1>2. CASE Timeout(n)
  BY <1>2 DEF Timeout, Goto, netw, hist, TypeOK, Got
<1>3. CASE Awake(n)
  <2>1. lossy \/ unanswered' \/ bits[n].recv
    BY <1>3, Zenon DEF Awake
  <2> QED
    BY <1>3, <2>1 DEF Awake, Goto, netw, TypeOK, Got
<1> QED
  BY <1>1, <1>2, <1>3

LEMMA EffectVerifyTest ==
  ASSUME TypeOK, NEW n \in Node, VerifyTest(n)
  PROVE  /\ pc[n] = "verify"
         /\ \/ /\ bits[n].recv /\ bits[n].sent /\ pc'[n] = "clear" /\ regs'[n] = bits[n]
               /\ lossy \/ raced' \/ ~Holding(n)
            \/ ~(bits[n].recv /\ bits[n].sent) /\ pc'[n] = "run"
         /\ UNCHANGED <<bits, net, netmsg, netregs, second, data_to_recv, log,
                        rounds, chan, prog_recv, global_quit>>
         /\ Got(n)' = Got(n)
<1>1. CASE bits[n].recv /\ bits[n].sent
  <2>1. pc'[n] = "clear" /\ regs'[n] = bits[n]
    BY <1>1 DEF VerifyTest, Goto, TypeOK
  <2>2. lossy \/ raced' \/ ~Holding(n)
    BY <1>1, Zenon DEF VerifyTest
  <2> QED
    BY <1>1, <2>1, <2>2 DEF VerifyTest, Goto, netw, Got
<1>2. CASE ~(bits[n].recv /\ bits[n].sent)
  <2>1. pc'[n] = "run"
    BY <1>2 DEF VerifyTest, Goto, TypeOK
  <2> QED
    BY <1>2, <2>1 DEF VerifyTest, Goto, netw, Got
<1> QED
  BY <1>1, <1>2

LEMMA EffectVerifyClear ==
  ASSUME TypeOK, NEW n \in Node, VerifyClear(n)
  PROVE  /\ pc[n] = "clear" /\ pc'[n] = "couple"
         /\ ~bits'[n].recv /\ bits'[n].recv_clock = regs[n].recv_clock
         /\ bits'[n].recv_start = regs[n].recv_start
         /\ bits'[n].sent_clock = regs[n].sent_clock
         /\ bits'[n].sent_start = regs[n].sent_start
         /\ UNCHANGED <<net, netmsg, netregs, second, data_to_recv, log,
                        rounds, chan, prog_recv, global_quit, raced>>
         /\ Got(n)' = Got(n)
<1>1. bits'[n] = [regs[n] EXCEPT !.recv = FALSE, !.sent = FALSE]
  BY DEF VerifyClear, TypeOK
<1>2. /\ ~bits'[n].recv /\ bits'[n].recv_clock = regs[n].recv_clock
      /\ bits'[n].recv_start = regs[n].recv_start
      /\ bits'[n].sent_clock = regs[n].sent_clock
      /\ bits'[n].sent_start = regs[n].sent_start
  <2>1. regs[n] \in BitsType
    BY DEF TypeOK
  <2> QED
    BY <1>1, <2>1 DEF BitsType
<1> QED
  BY <1>2 DEF VerifyClear, Goto, netw, hist, TypeOK, Got

LEMMA EffectVerifyCouple ==
  ASSUME TypeOK, NEW n \in Node, VerifyCouple(n), ~lossy, ~unanswered
  PROVE  /\ pc[n] = "couple" /\ pc'[n] = "second"
         /\ log'[n] = Append(log[n], [own |-> rounds[n], peer |-> data_to_recv[n],
                                     irq |-> ValidCouple(bits[n])])
         /\ UNCHANGED <<bits, regs, net, netmsg, netregs, second, data_to_recv,
                        rounds, chan, prog_recv, global_quit, raced>>
         /\ Got(n)' = Got(n)
BY DEF VerifyCouple, Goto, netw, TypeOK, Got

LEMMA EffectVerifySecond ==
  ASSUME TypeOK, NEW n \in Node, VerifySecond(n)
  PROVE  /\ pc[n] = "second" /\ pc'[n] = "run" /\ ~Held(n)'
         /\ \/ /\ Held(n) /\ data_to_recv'[n] = second[n].byte
               /\ bits'[n].recv /\ bits'[n].recv_clock = second[n].clock
               /\ bits'[n].recv_start = second[n].start
            \/ ~Held(n) /\ bits' = bits /\ data_to_recv' = data_to_recv
         /\ UNCHANGED <<regs, net, netmsg, netregs, log, rounds, chan, prog_recv,
                        global_quit, raced>>
         /\ Got(n)' = Got(n)
<1>1. pc[n] = "second" /\ pc'[n] = "run" /\ ~Held(n)'
  BY DEF VerifySecond, Goto, TypeOK, Held
<1>2. CASE Held(n)
  <2>1. data_to_recv'[n] = second[n].byte
    BY <1>2 DEF VerifySecond, TypeOK, Held
  <2>2. bits'[n] = [bits[n] EXCEPT !.recv = TRUE, !.recv_clock = second[n].clock,
                                  !.recv_start = second[n].start]
    BY <1>2 DEF VerifySecond, TypeOK, Held
  <2>3. /\ bits'[n].recv /\ bits'[n].recv_clock = second[n].clock
        /\ bits'[n].recv_start = second[n].start
    <3>1. bits[n] \in BitsType
      BY DEF TypeOK
    <3> QED
      BY <2>2, <3>1 DEF BitsType
  <2> QED
    BY <1>1, <1>2, <2>1, <2>3 DEF VerifySecond, netw, hist, Got
<1>3. CASE ~Held(n)
  BY <1>1, <1>3 DEF VerifySecond, netw, hist, Got, Held
<1> QED
  BY <1>2, <1>3

LEMMA EffectReceive ==
  ASSUME TypeOK, \A m \in Node : Wire(m), NEW n \in Node, Receive(n), ~lossy
  PROVE  /\ net[n] = "idle" /\ net'[n] = "recv"
         /\ netmsg'[n].byte = Got(n) + 1 /\ Got(n)' = Got(n) + 1
         /\ netmsg'[n] = chan[n][1] /\ Len(chan[n]) >= 1
         /\ chan'[n] = Tail(chan[n])
         /\ UNCHANGED <<pc, bits, regs, netregs, second, data_to_recv, log,
                        rounds, global_quit, raced>>
<1>1. /\ netmsg'[n].byte = Got(n) + 1
      /\ chan'[n] \in Seq(MessageType) /\ Len(chan'[n]) = Len(chan[n]) - 1
      /\ rounds' = rounds
  BY ReceiveEffect
<1>2. PICK i \in Arrivals(n) : /\ netmsg' = [netmsg EXCEPT ![n] = chan[n][i]]
                               /\ chan' = [chan EXCEPT ![n] = Tail(@)]
  BY DEF Receive
<1>3. /\ chan[n] \in Seq(MessageType) /\ i \in 1 .. Len(chan[n]) /\ i = 1
      /\ Len(chan[n]) \in Nat /\ rounds[Peer(n)] \in Nat
  BY <1>2, PeerType, LenProperties DEF Arrivals, TypeOK
<1>4. Got(n)' = Got(n) + 1
  BY <1>1, <1>3 DEF Got
<1>5. netmsg'[n] = chan[n][1] /\ chan'[n] = Tail(chan[n]) /\ Len(chan[n]) >= 1
  BY <1>2, <1>3 DEF TypeOK
<1>6. net[n] = "idle" /\ net'[n] = "recv"
  BY DEF Receive, TypeOK
<1> QED
  BY <1>1, <1>4, <1>5, <1>6 DEF Receive, emu

LEMMA EffectRecvTest ==
  ASSUME TypeOK, NEW n \in Node, RecvTest(n), ~lossy
  PROVE  /\ net[n] = "recv"
         /\ ~raced' => ~Verifying(n)
         /\ \/ bits[n].recv /\ net'[n] = "second"
            \/ ~bits[n].recv /\ netregs'[n] = bits[n] /\ net'[n] = "store"
         /\ UNCHANGED <<bits, pc, regs, data_to_recv, second, netmsg, log, rounds,
                        chan, prog_recv, global_quit>>
         /\ Got(n)' = Got(n)
<1>1. net[n] = "recv" /\ (~raced' => ~Verifying(n))
  BY Zenon DEF RecvTest
<1>2. \/ bits[n].recv /\ net'[n] = "second"
      \/ ~bits[n].recv /\ netregs'[n] = bits[n] /\ net'[n] = "store"
  BY DEF RecvTest, TypeOK
<1> QED
  BY <1>1, <1>2 DEF RecvTest, emu, Got

LEMMA EffectRecvSecond ==
  ASSUME TypeOK, NEW n \in Node, RecvSecond(n)
  PROVE  /\ net[n] = "second" /\ second'[n] = netmsg[n] /\ net'[n] = "idle"
         /\ UNCHANGED <<bits, pc, regs, data_to_recv, log, rounds, chan, prog_recv,
                        global_quit>>
         /\ Got(n)' = Got(n)
BY DEF RecvSecond, emu, hist, Got, TypeOK

LEMMA EffectRecvStore ==
  ASSUME TypeOK, NEW n \in Node, RecvStore(n), ~lossy
  PROVE  /\ net[n] = "store" /\ net'[n] = "idle"
         /\ bits'[n].recv /\ bits'[n].recv_clock = netmsg[n].clock
         /\ bits'[n].recv_start = netmsg[n].start /\ bits'[n].sent = netregs[n].sent
         /\ bits'[n].sent_clock = netregs[n].sent_clock
         /\ bits'[n].sent_start = netregs[n].sent_start
         /\ data_to_recv'[n] = netmsg[n].byte
         /\ pc'[n] = pc[n] \/ (pc[n] = "asleep" /\ pc'[n] = "woken")
         /\ UNCHANGED <<regs, second, log, rounds, chan, prog_recv, global_quit>>
         /\ Got(n)' = Got(n)
<1>1. net[n] = "store"
  BY DEF RecvStore
<1>2. bits'[n] = [netregs[n] EXCEPT !.recv = TRUE, !.recv_clock = netmsg[n].clock,
                                   !.recv_start = netmsg[n].start]
  BY DEF RecvStore, TypeOK
<1>3. /\ bits'[n].recv /\ bits'[n].recv_clock = netmsg[n].clock
      /\ bits'[n].recv_start = netmsg[n].start /\ bits'[n].sent = netregs[n].sent
      /\ bits'[n].sent_clock = netregs[n].sent_clock
      /\ bits'[n].sent_start = netregs[n].sent_start
  <2>1. netregs[n] \in BitsType
    BY DEF TypeOK
  <2> QED
    BY <1>2, <2>1 DEF BitsType
<1>4. data_to_recv'[n] = netmsg[n].byte /\ net'[n] = "idle"
  <2>1. /\ data_to_recv' = [data_to_recv EXCEPT ![n] = netmsg[n].byte]
        /\ net' = [net EXCEPT ![n] = "idle"]
    BY Zenon DEF RecvStore
  <2> QED
    BY <2>1 DEF TypeOK
<1>5. pc'[n] = pc[n] \/ (pc[n] = "asleep" /\ pc'[n] = "woken")
  <2>1. pc' = Notified(n)
    BY Zenon DEF RecvStore
  <2>2. pc' = pc \/ (pc[n] = "asleep" /\ pc' = [pc EXCEPT ![n] = "woken"])
    BY <2>1, Zenon DEF Notified
  <2> QED
    BY <2>2 DEF TypeOK
<1> QED
  BY <1>1, <1>3, <1>4, <1>5 DEF RecvStore, hist, Got

LEMMA StepOf ==
  ASSUME [Next]_vars
  PROVE  UNCHANGED vars \/ \E n \in Node : Step(n)
BY DEF Next, Step

LEMMA GotNat ==
  ASSUME TypeOK, \A m \in Node : Wire(m), NEW n \in Node
  PROVE  Got(n) \in Nat /\ Got(n) <= rounds[Peer(n)]
<1>1. Len(chan[n]) \in Nat /\ rounds[Peer(n)] \in Nat
  BY PeerType, LenProperties DEF TypeOK
<1> QED
  BY <1>1 DEF Wire, Got

-----------------------------------------------------------------------------
(* Numbers that lie two or more apart.                                     *)

\* The numbers n may have received of a peer that has not begun a third round.
Seen(n) == {left[n], Num(Peer(n), 1), Num(Peer(n), 2)}

FarInv ==
  FarApart =>
    \A n \in Node : /\ prog_recv[n] \in Seen(n)
                    /\ rounds[n] <= 2 /\ (rounds[n] >= 2 => global_quit[n])

LEMMA SuccInjective ==
  ASSUME NEW x \in Number, NEW y \in Number, Succ(x) = Succ(y)
  PROVE  x = y
<1>1. PROG \in Nat \ {0} /\ x \in Nat /\ y \in Nat /\ x < PROG /\ y < PROG
  BY LinkAssumption DEF Number
<1>2. (x + 1) % PROG = (y + 1) % PROG
  BY DEF Succ
<1> DEFINE a == x + 1
           b == y + 1
<1>3. a \in Nat /\ b \in Nat /\ a % PROG = b % PROG
  BY <1>1, <1>2
<1>4. a - b < PROG /\ b - a < PROG
  BY <1>1
<1>5. a = b
  <2> HIDE DEF a, b
  <2>1. ~(a < b)
    BY <1>1, <1>3, <1>4, RestsDiffer
  <2>2. ~(b < a)
    BY <1>1, <1>3, <1>4, RestsDiffer
  <2> QED
    BY <1>3, <2>1, <2>2
<1> QED
  BY <1>1, <1>5

\* In its second round each sees a number that lies too far off.
LEMMA FarNumbers ==
  ASSUME TypeOK, FarApart, NEW n \in Node, prog_recv[n] \in Seen(n)
  PROVE  OutOfStep(n, Num(n, 2))
<1> DEFINE p == Peer(n)
<1>0. p \in Node
  BY PeerType
<1>1. left[n] # left[p] /\ left[n] # Succ(left[p]) /\ left[p] # Succ(left[n])
  BY DEF FarApart, Agree, Node, Peer
<1>2. left[n] \in Number /\ left[p] \in Number
  BY <1>0 DEF TypeOK
<1>3. /\ Num(n, 1) = Succ(left[n]) /\ Num(n, 2) = Succ(Num(n, 1))
      /\ Num(n, 1) \in Number /\ Num(n, 2) \in Number
  <2>1. Num(n, 0) = left[n] /\ Succ(Num(n, 0)) = Num(n, 0 + 1)
        /\ Num(n, 1) \in Number /\ Succ(Num(n, 1)) = Num(n, 1 + 1) /\ Num(n, 2) \in Number
    BY NumStep
  <2> QED
    BY <2>1
<1> HIDE DEF p
<1>4. /\ Num(p, 1) = Succ(left[p]) /\ Num(p, 2) = Succ(Num(p, 1))
      /\ Succ(Num(p, 2)) = Num(p, 3)
      /\ Num(p, 1) \in Number /\ Num(p, 2) \in Number /\ Num(p, 3) \in Number
  <2>1. Num(p, 0) = left[p] /\ Succ(Num(p, 0)) = Num(p, 0 + 1)
        /\ Num(p, 1) \in Number /\ Succ(Num(p, 1)) = Num(p, 1 + 1) /\ Num(p, 2) \in Number
        /\ Succ(Num(p, 2)) = Num(p, 2 + 1) /\ Num(p, 3) \in Number
    BY <1>0, NumStep
  <2> QED
    BY <2>1
<1>5. Num(n, 2) # Num(p, 2)
  BY <1>1, <1>2, <1>3, <1>4, SuccInjective
<1>6. Num(n, 2) # Num(p, 1)
  BY <1>1, <1>2, <1>3, <1>4, SuccInjective
<1>7. Num(n, 2) # Num(p, 3)
  BY <1>1, <1>2, <1>3, <1>4, SuccInjective
<1>8. Num(n, 2) # left[n] /\ Num(n, 2) # Succ(left[n])
  <2>1. PROG \in Nat /\ PROG > 2 /\ Num(n, 0) = left[n]
    BY NumStep, LinkAssumption
  <2>2. Num(n, 0) # Num(n, 2) /\ Num(n, 1) # Num(n, 2)
    BY <2>1, NumDiffers, 2 - 0 < PROG, 2 - 1 < PROG
  <2> QED
    BY <1>3, <2>1, <2>2
<1>9. prog_recv[n] = left[n] \/ prog_recv[n] = Num(p, 1) \/ prog_recv[n] = Num(p, 2)
  BY DEF Seen, p
<1> QED
  BY <1>4, <1>5, <1>6, <1>7, <1>8, <1>9 DEF OutOfStep

LEMMA FarInit == Init => FarInv
BY DEF Init, FarInv, Seen

LEMMA FarNext == WireInv /\ FarInv /\ [Next]_vars => FarInv'
<1> SUFFICES ASSUME WireInv, FarInv, [Next]_vars, FarApart', NEW m \in Node
             PROVE  /\ prog_recv'[m] \in Seen(m)'
                    /\ rounds'[m] <= 2 /\ (rounds'[m] >= 2 => global_quit'[m])
  BY DEF FarInv
<1>0. TypeOK /\ \A n \in Node : Wire(n)
  BY DEF WireInv
<1>1. left' = left /\ FarApart /\ Seen(m)' = Seen(m)
  <2>1. left' = left
    BY <1>0, NumberSteps, SendEffect, ReceiveEffect DEF numbers
  <2> QED
    BY <2>1 DEF FarApart, Agree, Seen, Num
<1>2. \A n \in Node : /\ prog_recv[n] \in Seen(n)
                      /\ rounds[n] <= 2 /\ (rounds[n] >= 2 => global_quit[n])
  BY <1>1 DEF FarInv
<1>3. CASE UNCHANGED numbers
  BY <1>1, <1>2, <1>3 DEF numbers
<1>4. ASSUME NEW n \in Node, Receive(n)
      PROVE  /\ prog_recv'[m] \in Seen(m)
             /\ rounds'[m] <= 2 /\ (rounds'[m] >= 2 => global_quit'[m])
  <2>0. PICK p \in Node : p = Peer(n) /\ (m = n \/ m = p)
    BY PeerType
  <2>1. PICK j \in 1 .. rounds[p] : prog_recv'[n] = Num(p, j)
    BY <1>0, <1>4, <2>0, ReceiveEffect
  <2>2. prog_recv'[p] = prog_recv[p] /\ UNCHANGED <<rounds, global_quit>>
    BY <1>0, <1>4, <2>0, ReceiveEffect
  <2>3. j = 1 \/ j = 2
    <3>1. rounds[p] \in Nat /\ rounds[p] <= 2
      BY <1>0, <1>2 DEF TypeOK
    <3> QED
      BY <2>1, <3>1
  <2>4. prog_recv'[n] \in Seen(n)
    BY <2>0, <2>1, <2>3 DEF Seen
  <2> QED
    BY <1>2, <2>0, <2>2, <2>4
<1>5. ASSUME NEW n \in Node, SendByte(n)
      PROVE  /\ prog_recv'[m] \in Seen(m)
             /\ rounds'[m] <= 2 /\ (rounds'[m] >= 2 => global_quit'[m])
  <2>0. PICK p \in Node : p = Peer(n) /\ (m = n \/ m = p)
    BY PeerType
  <2>1. /\ rounds'[n] = rounds[n] + 1 /\ rounds'[p] = rounds[p]
        /\ global_quit'[n] = (global_quit[n] \/ OutOfStep(n, Num(n, rounds[n] + 1)))
        /\ global_quit'[p] = global_quit[p] /\ prog_recv' = prog_recv
    BY <1>0, <1>5, <2>0, SendEffect
  <2>2. ~global_quit[n] /\ rounds[n] \in Nat
    BY <1>0, <1>5, EffectSendByte DEF TypeOK
  <2>3. rounds[n] = 0 \/ rounds[n] = 1
    BY <1>2, <2>2
  <2>4. CASE rounds[n] = 0
    BY <1>2, <2>0, <2>1, <2>4
  <2>5. CASE rounds[n] = 1
    <3>1. rounds'[n] = 2 /\ rounds[n] + 1 = 2
      BY <2>1, <2>5
    <3>2. OutOfStep(n, Num(n, rounds[n] + 1))
      BY <1>0, <1>1, <1>2, <3>1, FarNumbers
    <3>3. global_quit'[n]
      BY <2>1, <3>2, Zenon
    <3> QED
      BY <1>2, <2>0, <2>1, <3>1, <3>3
  <2> QED
    BY <2>3, <2>4, <2>5
<1> QED
  BY <1>1, <1>3, <1>4, <1>5, NumberSteps

-----------------------------------------------------------------------------
(* Places.                                                                 *)

LEMMA PlaceInit == Init => PlaceInv
<1> SUFFICES ASSUME Init, NEW n \in Node PROVE Place(n)
  BY DEF PlaceInv
<1>1. /\ rounds[n] = 0 /\ rounds[Peer(n)] = 0 /\ pc[n] = "run" /\ net[n] = "idle"
      /\ bits[n].recv = FALSE /\ second[n] = NoMessage
  BY PeerType DEF Init, NoBits
<1>2. Len(chan[n]) = 0 /\ Len(log[n]) = 0
  BY Len(<<>>) = 0 DEF Init
<1>3. Got(n) = 0 /\ Stored(n) = 0 /\ ~First(n) /\ ~Held(n)
  BY <1>1, <1>2 DEF Got, Stored, First, Held
<1> QED
  BY <1>1, <1>2, <1>3 DEF Place, Round, Firsts, Helds

LEMMA PlaceFrame ==
  ASSUME NEW n \in Node, Place(n), own(n)' = own(n), Got(n)' = Got(n)
  PROVE  Place(n)'
BY ZenonT(30) DEF Place, Stored, First, Held, own, Round, Firsts, Helds, Verifying

LEMMA PlaceTypes ==
  ASSUME TypeOK, \A m \in Node : Wire(m), NEW n \in Node
  PROVE  /\ Len(log[n]) \in Nat /\ Got(n) \in Nat /\ rounds[n] \in Nat
         /\ data_to_recv[n] \in Nat
BY GotNat, LenProperties DEF TypeOK

\* No console is more than a round ahead of the other.
LEMMA RoundsClose ==
  ASSUME TypeOK, \A m \in Node : Wire(m), \A m \in Node : Place(m), NEW n \in Node
  PROVE  rounds[Peer(n)] <= rounds[n] + 1
<1> DEFINE p == Peer(n)
<1>1. p \in Node /\ Peer(p) = n
  BY PeerType
<1>2. /\ Len(log[p]) \in Nat /\ Got(p) \in Nat /\ rounds[n] \in Nat /\ rounds[p] \in Nat
      /\ Got(p) <= rounds[n]
  BY <1>1, PlaceTypes, GotNat
<1> HIDE DEF p
<1>3. Len(log[p]) <= Stored(p) /\ rounds[p] <= Len(log[p]) + 1
  <2>1. Round(p) \in {0, 1} /\ Firsts(p) \in {0, 1} /\ Helds(p) \in {0, 1}
    BY DEF Round, Firsts, Helds
  <2> QED
    BY <1>1, <1>2, <2>1 DEF Place
<1>4. Stored(p) \in Int /\ Stored(p) <= Got(p)
  BY <1>2 DEF Stored
<1> QED
  BY <1>2, <1>3, <1>4 DEF p

LEMMA PlaceSend ==
  ASSUME TypeOK, \A m \in Node : Wire(m), NEW n \in Node, Place(n),
         WriteSC(n) \/ SendByte(n)
  PROVE  Place(n)'
<1>1. Len(log[n]) \in Nat /\ Got(n) \in Nat /\ rounds[n] \in Nat
  BY PlaceTypes
<1>2. CASE WriteSC(n)
  <2>1. /\ pc[n] = "run" /\ ~Holding(n) /\ pc'[n] = "run"
        /\ bits'[n].recv = bits[n].recv /\ Got(n)' = Got(n)
        /\ UNCHANGED <<net, netmsg, second, data_to_recv, log, rounds>>
    BY <1>2, EffectWriteSC
  <2>2. Stored(n)' = Stored(n) /\ (First(n)' <=> First(n)) /\ (Held(n)' <=> Held(n))
    BY <2>1 DEF Stored, First, Held
  <2>3. Round(n)' = Round(n) /\ Firsts(n)' = Firsts(n) /\ Helds(n)' = Helds(n)
    BY <2>1, <2>2 DEF Round, Firsts, Helds
  <2> QED
    BY <2>1, <2>2, <2>3 DEF Place, Holding, Verifying
<1>3. CASE SendByte(n)
  <2>1. /\ pc[n] = "run" /\ ~Holding(n) /\ pc'[n] = "wait" /\ bits'[n].sent
        /\ bits'[n].recv = bits[n].recv /\ rounds'[n] = rounds[n] + 1 /\ Got(n)' = Got(n)
        /\ UNCHANGED <<net, netmsg, second, data_to_recv, log>>
    BY <1>3, EffectSendByte
  <2>2. Stored(n)' = Stored(n) /\ (First(n)' <=> First(n)) /\ (Held(n)' <=> Held(n))
    BY <2>1 DEF Stored, First, Held
  <2>3. /\ Round(n)' = 1 /\ Round(n) = 0
        /\ Firsts(n)' = Firsts(n) /\ Helds(n)' = Helds(n)
    BY <2>1, <2>2 DEF Round, Firsts, Helds
  <2> QED
    BY <1>1, <2>1, <2>2, <2>3 DEF Place, Holding, Verifying
<1> QED
  BY <1>2, <1>3

LEMMA PlaceWait ==
  ASSUME TypeOK, \A m \in Node : Wire(m), ~lossy, ~raced', ~unanswered',
         NEW n \in Node, Place(n),
         WaitData(n) \/ Timeout(n) \/ Awake(n) \/ VerifyTest(n)
  PROVE  Place(n)'
<1>1. Len(log[n]) \in Nat /\ Got(n) \in Nat /\ rounds[n] \in Nat
  BY PlaceTypes
<1>2. CASE WaitData(n) \/ Timeout(n) \/ Awake(n)
  <2>1. /\ \/ pc[n] = "wait" /\ pc'[n] = "asleep"
           \/ pc[n] = "wait" /\ pc'[n] = "verify" /\ (bits[n].sent => bits[n].recv)
           \/ pc[n] = "asleep" /\ pc'[n] = "woken"
           \/ pc[n] = "woken" /\ pc'[n] = "verify" /\ bits[n].recv
        /\ UNCHANGED <<bits, net, netmsg, netregs, second, data_to_recv, log, rounds>>
        /\ Got(n)' = Got(n)
    BY <1>2, EffectWait
  <2>2. Stored(n)' = Stored(n) /\ First(n)' = First(n) /\ Held(n)' = Held(n)
    BY <2>1 DEF Stored, First, Held
  <2>3. Round(n)' = Round(n) /\ Firsts(n)' = Firsts(n) /\ Helds(n)' = Helds(n)
    BY <2>1, <2>2 DEF Round, Firsts, Helds
  <2> QED
    BY <1>1, <2>1, <2>2, <2>3 DEF Place, Verifying
<1>3. CASE VerifyTest(n)
  <2>1. /\ pc[n] = "verify"
        /\ \/ /\ bits[n].recv /\ bits[n].sent /\ pc'[n] = "clear" /\ regs'[n] = bits[n]
              /\ ~Holding(n)
           \/ ~(bits[n].recv /\ bits[n].sent) /\ pc'[n] = "run"
        /\ UNCHANGED <<bits, net, netmsg, netregs, second, data_to_recv, log, rounds>>
        /\ Got(n)' = Got(n)
    BY <1>3, EffectVerifyTest
  <2>2. /\ bits[n].recv /\ bits[n].sent /\ pc'[n] = "clear" /\ regs'[n] = bits[n]
        /\ net'[n] \notin {"second", "store"}
    BY <2>1 DEF Place, Holding
  <2>3. Stored(n)' = Stored(n) /\ First(n)' = First(n) /\ Held(n)' = Held(n)
    BY <2>1, <2>2 DEF Stored, First, Held
  <2> QED
    BY <1>1, <2>1, <2>2, <2>3 DEF Place, Round, Firsts, Helds
<1> QED
  BY <1>2, <1>3

LEMMA PlaceVerify ==
  ASSUME TypeOK, \A m \in Node : Wire(m), ~lossy, ~unanswered, NEW n \in Node, Place(n),
         VerifyClear(n) \/ VerifyCouple(n) \/ VerifySecond(n)
  PROVE  Place(n)'
<1>1. Len(log[n]) \in Nat /\ Got(n) \in Nat /\ rounds[n] \in Nat
      /\ log[n] \in Seq(CoupleType)
  BY PlaceTypes DEF TypeOK
<1>2. CASE VerifyClear(n)
  <2>1. /\ pc[n] = "clear" /\ pc'[n] = "couple" /\ ~bits'[n].recv /\ Got(n)' = Got(n)
        /\ UNCHANGED <<net, netmsg, netregs, second, data_to_recv, log, rounds>>
    BY <1>2, EffectVerifyClear
  <2>2. /\ Stored(n)' = Stored(n) /\ First(n)' /\ First(n) /\ (Held(n)' <=> Held(n))
        /\ net'[n] \notin {"second", "store"}
    BY <2>1 DEF Stored, First, Held, Place, Verifying
  <2>3. Round(n)' = Round(n) /\ Firsts(n)' = Firsts(n) /\ Helds(n)' = Helds(n)
    BY <2>1, <2>2 DEF Round, Firsts, Helds
  <2> QED
    BY <1>1, <2>1, <2>2, <2>3 DEF Place
<1>3. CASE VerifyCouple(n)
  <2> DEFINE c == [own |-> rounds[n], peer |-> data_to_recv[n],
                   irq |-> ValidCouple(bits[n])]
  <2>1. /\ pc[n] = "couple" /\ pc'[n] = "second" /\ Got(n)' = Got(n)
        /\ log'[n] = Append(log[n], c)
        /\ UNCHANGED <<bits, net, netmsg, netregs, second, data_to_recv, rounds>>
    BY <1>3, EffectVerifyCouple
  <2>2. c \in CoupleType /\ c.own = rounds[n] /\ c.peer = data_to_recv[n]
    <3>1. ValidCouple(bits[n]) \in BOOLEAN /\ rounds[n] \in Nat /\ data_to_recv[n] \in Nat
      BY BitsFields DEF TypeOK
    <3>2. c \in CoupleType
      BY <3>1, Zenon DEF CoupleType
    <3> QED
      BY <3>2
  <2> HIDE DEF c
  <2>3. /\ Len(log'[n]) = Len(log[n]) + 1 /\ log'[n][Len(log[n]) + 1] = c
        /\ \A i \in 1 .. Len(log[n]) : log'[n][i] = log[n][i]
    BY <1>1, <2>1, <2>2, AppendProperties
  <2>4. /\ Stored(n)' = Stored(n) /\ First(n) /\ ~bits'[n].recv /\ ~First(n)'
        /\ (Held(n)' <=> Held(n)) /\ net'[n] \notin {"second", "store"}
    BY <2>1 DEF Stored, First, Held, Place, Verifying
  <2>5. /\ Round(n)' = 0 /\ Round(n) = 1 /\ Firsts(n)' = 0 /\ Firsts(n) = 1
        /\ Helds(n)' = Helds(n) /\ Helds(n) \in Nat
    BY <2>1, <2>4 DEF Round, Firsts, Helds
  <2>6. rounds[n] = Len(log[n]) + 1 /\ data_to_recv[n] = Len(log[n]) + 1
    BY <2>4, <2>5 DEF Place
  <2>7. ASSUME NEW i \in 1 .. Len(log'[n]) PROVE log'[n][i].own = i /\ log'[n][i].peer = i
    <3>1. CASE i = Len(log[n]) + 1
      BY <2>2, <2>3, <2>6, <3>1
    <3>2. CASE i \in 1 .. Len(log[n])
      BY <2>3, <3>2 DEF Place
    <3> QED
      BY <1>1, <2>3, <3>1, <3>2
  <2>8. rounds'[n] = Len(log'[n]) + Round(n)'
    BY <1>1, <2>1, <2>3, <2>5, <2>6
  <2>9. Stored(n)' = Len(log'[n]) + Firsts(n)' + Helds(n)'
    BY <1>1, <2>3, <2>4, <2>5 DEF Place
  <2> QED
    BY <2>1, <2>4, <2>7, <2>8, <2>9 DEF Place
<1>4. CASE VerifySecond(n)
  <2>1. /\ pc[n] = "second" /\ pc'[n] = "run" /\ ~Held(n)' /\ Got(n)' = Got(n)
        /\ \/ Held(n) /\ data_to_recv'[n] = second[n].byte /\ bits'[n].recv
           \/ ~Held(n) /\ bits' = bits /\ data_to_recv' = data_to_recv
        /\ UNCHANGED <<net, netmsg, netregs, log, rounds>>
    BY <1>4, EffectVerifySecond
  <2>2. /\ ~First(n) /\ (First(n)' <=> Held(n)) /\ Stored(n)' = Stored(n)
        /\ net'[n] \notin {"second", "store"}
    BY <2>1 DEF Stored, First, Place, Verifying
  <2>3. /\ Round(n)' = 0 /\ Round(n) = 0 /\ Firsts(n)' = Helds(n) /\ Firsts(n) = 0
        /\ Helds(n)' = 0 /\ Helds(n) \in Nat
    BY <2>1, <2>2 DEF Round, Firsts, Helds
  <2>4. Stored(n)' = Len(log'[n]) + Firsts(n)' + Helds(n)'
    BY <1>1, <2>1, <2>2, <2>3 DEF Place
  <2>5. First(n)' => data_to_recv'[n] = Len(log'[n]) + 1
    <3> SUFFICES ASSUME Held(n) PROVE data_to_recv'[n] = Len(log[n]) + 1
      BY <2>1, <2>2
    <3>1. data_to_recv'[n] = Stored(n) /\ Helds(n) = 1
      BY <2>1 DEF Place, Helds
    <3> QED
      BY <1>1, <2>3, <3>1 DEF Place
  <2> QED
    BY <2>1, <2>2, <2>3, <2>4, <2>5 DEF Place
<1> QED
  BY <1>2, <1>3, <1>4

LEMMA PlaceReceive ==
  ASSUME TypeOK, \A m \in Node : Wire(m), ~lossy, ~raced', NEW n \in Node,
         \A m \in Node : Place(m), Network(n)
  PROVE  Place(n)'
<1>0. Place(n)
  OBVIOUS
<1>1. Len(log[n]) \in Nat /\ Got(n) \in Nat /\ rounds[n] \in Nat
  BY PlaceTypes
<1>2. CASE Receive(n)
  <2>1. /\ net[n] = "idle" /\ net'[n] = "recv" /\ netmsg'[n].byte = Got(n) + 1
        /\ Got(n)' = Got(n) + 1
        /\ UNCHANGED <<pc, bits, regs, netregs, second, data_to_recv, log, rounds>>
    BY <1>2, EffectReceive
  <2>2. Stored(n)' = Stored(n) /\ (First(n)' <=> First(n)) /\ (Held(n)' <=> Held(n))
    BY <1>1, <2>1 DEF Stored, First, Held
  <2>3. Round(n)' = Round(n) /\ Firsts(n)' = Firsts(n) /\ Helds(n)' = Helds(n)
    BY <2>1, <2>2 DEF Round, Firsts, Helds
  <2> QED
    BY <1>0, <2>1, <2>2, <2>3 DEF Place
<1>3. CASE RecvSecond(n)
  <2>1. /\ net[n] = "second" /\ net'[n] = "idle" /\ second'[n] = netmsg[n]
        /\ Got(n)' = Got(n) /\ UNCHANGED <<pc, bits, regs, data_to_recv, log, rounds>>
    BY <1>3, EffectRecvSecond
  <2>2. /\ First(n) /\ First(n)' /\ Stored(n) = Got(n) - 1 /\ Stored(n)' = Got(n)
        /\ pc[n] \notin {"clear", "couple", "second"}
    BY <1>0, <2>1 DEF First, Stored, Place, Verifying
  <2>3. Firsts(n) = 1 /\ Firsts(n)' = 1 /\ Round(n)' = Round(n) /\ Round(n) \in {0, 1}
    BY <2>1, <2>2 DEF Firsts, Round
  <2>4. ~Held(n)
    <3> SUFFICES ASSUME Held(n) PROVE FALSE
      OBVIOUS
    <3>1. Helds(n) = 1
      BY DEF Helds
    <3>2. Got(n) = Len(log[n]) + 3
      BY <1>0, <1>1, <2>2, <2>3, <3>1 DEF Place
    <3>3. rounds[n] <= Len(log[n]) + 1
      BY <1>0, <1>1, <2>3 DEF Place
    <3>4. Got(n) <= rounds[n] + 1
      <4>1. rounds[Peer(n)] <= rounds[n] + 1 /\ Got(n) <= rounds[Peer(n)]
        BY RoundsClose, GotNat
      <4>2. rounds[Peer(n)] \in Nat
        BY PeerType, PlaceTypes
      <4> QED
        BY <1>1, <4>1, <4>2
    <3> QED
      BY <1>1, <3>2, <3>3, <3>4
  <2>5. netmsg[n].byte = Got(n) /\ Got(n) = Len(log[n]) + 2
    <3>1. Helds(n) = 0
      BY <2>4 DEF Helds
    <3> QED
      BY <1>0, <1>1, <2>1, <2>2, <2>3, <3>1 DEF Place
  <2>6. Held(n)' /\ Helds(n)' = 1
    BY <1>1, <2>1, <2>5 DEF Held, Helds, NoMessage
  <2> QED
    BY <1>0, <1>1, <2>1, <2>2, <2>3, <2>5, <2>6 DEF Place
<1>4. CASE RecvTest(n)
  <2>1. /\ net[n] = "recv" /\ ~Verifying(n) /\ Got(n)' = Got(n)
        /\ \/ bits[n].recv /\ net'[n] = "second"
           \/ ~bits[n].recv /\ netregs'[n] = bits[n] /\ net'[n] = "store"
        /\ UNCHANGED <<pc, bits, regs, second, netmsg, data_to_recv, log, rounds>>
    BY <1>4, EffectRecvTest
  <2>2. Stored(n)' = Stored(n) /\ (First(n)' <=> First(n)) /\ (Held(n)' <=> Held(n))
    BY <1>1, <2>1 DEF Stored, First, Held
  <2>3. Round(n)' = Round(n) /\ Firsts(n)' = Firsts(n) /\ Helds(n)' = Helds(n)
    BY <2>1, <2>2 DEF Round, Firsts, Helds
  <2>4. pc[n] \in {"run", "wait", "asleep", "woken"} \/ bits[n].recv
    <3>1. pc[n] \in {"run", "wait", "asleep", "woken",
                     "verify", "clear", "couple", "second"}
      BY DEF TypeOK
    <3> QED
      BY <1>0, <2>1, <3>1 DEF Place, Verifying
  <2>5. Verifying(n)' = Verifying(n)
    BY <2>1 DEF Verifying
  <2> QED
    BY <1>0, <2>1, <2>2, <2>3, <2>4, <2>5 DEF Place
<1>5. CASE RecvStore(n)
  <2>1. /\ net[n] = "store" /\ net'[n] = "idle" /\ Got(n)' = Got(n)
        /\ bits'[n].recv /\ bits'[n].sent = netregs[n].sent
        /\ data_to_recv'[n] = netmsg[n].byte
        /\ pc'[n] = pc[n] \/ (pc[n] = "asleep" /\ pc'[n] = "woken")
        /\ UNCHANGED <<regs, second, log, rounds>>
    BY <1>5, EffectRecvStore
  <2>2. /\ pc[n] \in {"run", "wait", "asleep", "woken"} /\ ~bits[n].recv /\ netregs[n] = bits[n]
        /\ netmsg[n].byte = Got(n) /\ ~First(n) /\ ~Held(n)
    BY <1>0, <2>1 DEF Place, First
  <2>3. First(n)' /\ ~Held(n)' /\ Stored(n) = Got(n) - 1 /\ Stored(n)' = Got(n)
    BY <2>1, <2>2 DEF First, Held, Stored
  <2>4. /\ Round(n)' = Round(n) /\ Firsts(n) = 0 /\ Firsts(n)' = 1
        /\ Helds(n) = 0 /\ Helds(n)' = 0
    BY <2>1, <2>2, <2>3 DEF Round, Firsts, Helds
  <2>5. Got(n) = Len(log[n]) + 1
    BY <1>0, <1>1, <2>3, <2>4 DEF Place
  <2> QED
    BY <1>0, <1>1, <2>1, <2>2, <2>3, <2>4, <2>5 DEF Place
<1> QED
  BY <1>2, <1>3, <1>4, <1>5 DEF Network

LEMMA PlaceNext == WireInv /\ PlaceInv /\ [Next]_vars => PlaceInv'
<1> SUFFICES ASSUME WireInv, PlaceInv, [Next]_vars, InOrder', NEW m \in Node
             PROVE  Place(m)'
  BY DEF PlaceInv
<1>0. TypeOK /\ \A n \in Node : Wire(n)
  BY DEF WireInv
<1>1. CASE UNCHANGED vars
  <2>1. own(m)' = own(m) /\ Got(m)' = Got(m) /\ InOrder
    BY <1>1 DEF vars, sc, emu, netw, hist, own, Got, InOrder
  <2> QED
    BY <2>1, PlaceFrame DEF PlaceInv
<1>2. ASSUME NEW n \in Node, Step(n) PROVE Place(m)'
  <2>0. PICK q \in Node : q = Peer(n) /\ q # n /\ (m = n \/ m = q)
    BY PeerType
  <2>1. /\ own(q)' = own(q) /\ Got(q)' = Got(q) /\ UNCHANGED lossy
        /\ (raced => raced') /\ (unanswered => unanswered')
    BY <1>0, <1>2, <2>0, OwnSteps
  <2>2. ~lossy /\ ~raced' /\ ~unanswered' /\ ~unanswered /\ \A k \in Node : Place(k)
    <3>1. ~lossy /\ ~raced /\ ~raced' /\ ~unanswered' /\ ~unanswered
      BY <2>1 DEF InOrder
    <3> QED
      BY <3>1 DEF PlaceInv, InOrder
  <2>3. Place(q)'
    BY <2>1, <2>2, PlaceFrame
  <2>4. Place(n)'
    BY <1>0, <1>2, <2>2, PlaceSend, PlaceWait, PlaceVerify, PlaceReceive
    DEF Step, Emulate
  <2> QED
    BY <2>0, <2>3, <2>4
<1> QED
  BY <1>1, <1>2, StepOf

\* Each couple a console looks at is made of the messages of one round, as long as
\* nothing is lost, no message comes during a verify and every wait is answered.
THEOREM EveryCoupleOfOneRound == Spec => []SameRound
<1>1. PlaceInv => SameRound
  BY DEF PlaceInv, Place, SameRound
<1> QED
  BY <1>1, WireAlways, PlaceInit, PlaceNext, PTL DEF Spec

-----------------------------------------------------------------------------
(* Numbers that agree.                                                     *)

AgreeInv == InOrder /\ Agree => \A n \in Node : ~global_quit[n]

\* A console that begins a round has received as many messages of its peer as
\* it finished rounds, or one more.
LEMMA InStepAtSend ==
  ASSUME TypeOK, \A m \in Node : Wire(m), \A m \in Node : Place(m), NEW n \in Node,
         pc[n] = "run"
  PROVE  Got(n) = rounds[n] \/ Got(n) = rounds[n] + 1
<1>1. Len(log[n]) \in Nat /\ Got(n) \in Nat /\ rounds[n] \in Nat /\ rounds[Peer(n)] \in Nat
  BY PeerType, PlaceTypes
<1>2. rounds[Peer(n)] <= rounds[n] + 1 /\ Got(n) <= rounds[Peer(n)]
  BY RoundsClose, GotNat
<1>3. Round(n) = 0 /\ Firsts(n) \in {0, 1} /\ Helds(n) \in {0, 1}
  BY DEF Round, Firsts, Helds
<1>4. rounds[n] = Len(log[n]) /\ Len(log[n]) <= Stored(n)
  BY <1>1, <1>3 DEF Place
<1>5. Stored(n) \in Int /\ Stored(n) <= Got(n)
  BY <1>1 DEF Stored
<1> QED
  BY <1>1, <1>2, <1>4, <1>5

LEMMA AgreeNext == WireInv /\ PlaceInv /\ AgreeInv /\ [Next]_vars => AgreeInv'
<1> SUFFICES ASSUME WireInv, PlaceInv, AgreeInv, [Next]_vars, InOrder', Agree', NEW m \in Node
             PROVE  ~global_quit'[m]
  BY DEF AgreeInv
<1>0. TypeOK /\ \A n \in Node : Wire(n)
  BY DEF WireInv
<1>1. CASE UNCHANGED vars
  <2>1. InOrder /\ Agree /\ global_quit' = global_quit
    BY <1>1 DEF vars, hist, InOrder, Agree
  <2> QED
    BY <2>1 DEF AgreeInv
<1>2. ASSUME NEW n \in Node, Step(n) PROVE ~global_quit'[m]
  <2>0. PICK p \in Node : p = Peer(n) /\ p # n /\ (m = n \/ m = p)
    BY PeerType
  <2>1. /\ global_quit'[p] = global_quit[p] /\ UNCHANGED <<left, lossy>>
        /\ (raced => raced') /\ (unanswered => unanswered')
    BY <1>0, <1>2, <2>0, OwnSteps
  <2>2. InOrder /\ Agree
    BY <2>1 DEF InOrder, Agree
  <2>3. \A k \in Node : Place(k) /\ ~global_quit[k]
    BY <2>2 DEF PlaceInv, AgreeInv
  <2>4. CASE SendByte(n)
    <3>1. /\ global_quit'[n] = (global_quit[n] \/ OutOfStep(n, Num(n, rounds[n] + 1)))
          /\ pc[n] = "run"
      BY <1>0, <2>4, SendEffect, EffectSendByte
    <3>2. Got(n) = rounds[n] \/ Got(n) = rounds[n] + 1
      BY <1>0, <2>3, <3>1, InStepAtSend
    <3>3. Got(n) \in Nat /\ rounds[n] \in Nat
      BY <1>0, PlaceTypes
    <3>4. prog_recv[n] = Num(n, Got(n))
      <4>1. left[n] = left[p]
        BY <2>0, <2>2 DEF Agree, Node, Peer
      <4>2. Num(p, Got(n)) = Num(n, Got(n))
        BY <4>1 DEF Num
      <4>3. prog_recv[n] = IF Got(n) = 0 THEN left[n] ELSE Num(p, Got(n))
        BY <1>0, <2>0, <2>2 DEF Wire, InOrder
      <4>4. Num(n, 0) = left[n]
        BY <1>0, NumStep
      <4> QED
        BY <4>2, <4>3, <4>4
    <3>5. Num(n, rounds[n] + 1) = prog_recv[n] \/ Num(n, rounds[n] + 1) = Succ(prog_recv[n])
      <4>1. Succ(Num(n, Got(n))) = Num(n, Got(n) + 1)
        BY <1>0, <3>3, NumStep
      <4> QED
        BY <3>2, <3>4, <4>1
    <3>6. ~OutOfStep(n, Num(n, rounds[n] + 1))
      BY <3>5 DEF OutOfStep
    <3>7. ~global_quit'[n]
      BY <2>3, <3>1, <3>6, Zenon
    <3> QED
      BY <2>0, <2>1, <2>3, <3>7
  <2>5. CASE ~SendByte(n)
    <3>1. global_quit' = global_quit
      <4>1. CASE WriteSC(n) \/ WaitData(n) \/ Timeout(n) \/ Awake(n)
        BY <4>1 DEF WriteSC, WaitData, Timeout, Awake
      <4>2. CASE VerifyTest(n) \/ VerifyClear(n) \/ VerifyCouple(n) \/ VerifySecond(n)
        BY <4>2 DEF VerifyTest, VerifyClear, VerifyCouple, VerifySecond
      <4>3. CASE Receive(n) \/ RecvTest(n) \/ RecvSecond(n) \/ RecvStore(n)
        BY <4>3 DEF Receive, RecvTest, RecvSecond, RecvStore
      <4> QED
        BY <1>2, <2>5, <4>1, <4>2, <4>3 DEF Step, Emulate, Network
    <3> QED
      BY <2>3, <3>1
  <2> QED
    BY <2>4, <2>5
<1> QED
  BY <1>1, <1>2, StepOf

\* The test of the numbers never ends a game of consoles that agree, see every
\* message in order and wait for each to the end; and it ends both games by the
\* second round if their numbers lie two or more apart, whatever is lost and
\* whether or not the waits are answered.
THEOREM OutOfStepIsSeen == Spec => []OutOfStepEnds
<1>1. Init => AgreeInv
  BY DEF Init, AgreeInv
<1>2. AgreeInv /\ FarInv => OutOfStepEnds
  BY DEF AgreeInv, FarInv, OutOfStepEnds
<1> QED
  BY <1>1, <1>2, WireAlways, PlaceInit, PlaceNext, AgreeNext, FarInit, FarNext,
     PTL DEF Spec

-----------------------------------------------------------------------------
(* What the couples are made of.                                           *)

LEMMA ToldInit == Init => ToldInv
<1> SUFFICES ASSUME Init PROVE \E M \in Said : \A n \in Node : Told(M, n)
  BY DEF ToldInv
<1> DEFINE M == [n \in Node |-> [k \in Nat |-> [clock |-> FALSE, start |-> FALSE]]]
<1>1. M \in Said
  BY DEF Said, SC
<1>2. ASSUME NEW n \in Node PROVE Told(M, n)
  <2>1. /\ pc[n] = "run" /\ net[n] = "idle" /\ bits[n].recv = FALSE /\ second[n] = NoMessage
    BY <1>2 DEF Init, NoBits
  <2>2. Len(chan[n]) = 0 /\ Len(log[n]) = 0
    BY Len(<<>>) = 0 DEF Init
  <2>3. ~First(n) /\ ~Held(n)
    BY <2>1 DEF First, Held
  <2> HIDE DEF M
  <2> QED
    BY <2>1, <2>2, <2>3 DEF Told
<1> QED
  BY <1>1, <1>2

LEMMA ToldFrame ==
  ASSUME NEW M, NEW n \in Node, Told(M, n), own(n)' = own(n), Got(n)' = Got(n),
         chan'[n] = chan[n]
  PROVE  Told(M, n)'
BY DEF Told, Stored, First, Held, own

\* What a console has of its peer was said in rounds the peer began.
LEMMA PlaceBounds ==
  ASSUME TypeOK, \A m \in Node : Wire(m), NEW n \in Node, Place(n)
  PROVE  /\ Len(log[n]) \in Nat /\ Len(log[n]) <= rounds[n]
         /\ Stored(n) \in Nat /\ Stored(n) <= Got(n) /\ Len(log[n]) <= Stored(n)
         /\ First(n) => Len(log[n]) + 1 <= Stored(n)
         /\ Got(n) \in Nat /\ Got(n) <= rounds[Peer(n)]
         /\ rounds[n] \in Nat /\ rounds[Peer(n)] \in Nat
<1>1. Len(log[n]) \in Nat /\ Got(n) \in Nat /\ rounds[n] \in Nat /\ rounds[Peer(n)] \in Nat
      /\ Got(n) <= rounds[Peer(n)]
  BY PeerType, PlaceTypes, GotNat
<1>2. Round(n) \in {0, 1} /\ Firsts(n) \in {0, 1} /\ Helds(n) \in {0, 1}
      /\ (First(n) => Firsts(n) = 1)
  BY DEF Round, Firsts, Helds
<1>3. rounds[n] = Len(log[n]) + Round(n) /\ Stored(n) = Len(log[n]) + Firsts(n) + Helds(n)
  BY DEF Place
<1>4. Stored(n) <= Got(n)
  BY <1>1 DEF Stored
<1> QED
  BY <1>1, <1>2, <1>3, <1>4

LEMMA ToldSend ==
  ASSUME TypeOK, \A m \in Node : Wire(m), \A m \in Node : Place(m), ~lossy,
         NEW M \in Said, \A m \in Node : Told(M, m), NEW n \in Node, SendByte(n)
  PROVE  \E L \in Said : \A m \in Node : Told(L, m)'
<1>0. PICK p \in Node : p = Peer(n) /\ p # n /\ n = Peer(p)
  BY PeerType
<1> DEFINE v == [clock |-> clock[n], start |-> transfer_start[n]]
<1>1. v \in SC /\ v.clock = clock[n] /\ v.start = transfer_start[n]
  <2>1. clock[n] \in BOOLEAN /\ transfer_start[n] \in BOOLEAN
    BY Zenon DEF TypeOK
  <2> QED
    BY <2>1 DEF SC
<1>2. /\ Len(log[n]) \in Nat /\ Len(log[n]) <= rounds[n] /\ rounds[n] \in Nat
      /\ Len(log[p]) \in Nat /\ Len(log[p]) <= Stored(p) /\ Stored(p) \in Nat
      /\ First(p) => Len(log[p]) + 1 <= Stored(p)
      /\ Stored(p) <= Got(p) /\ Got(p) \in Nat /\ Got(p) <= rounds[n]
  BY <1>0, PlaceBounds
<1> HIDE DEF v
<1>3. PICK L \in Said : /\ L[p] = M[p] /\ L[n][rounds[n] + 1] = v
                        /\ \A i \in Nat : i # rounds[n] + 1 => L[n][i] = M[n][i]
  <2> DEFINE K == [M EXCEPT ![n] = [M[n] EXCEPT ![rounds[n] + 1] = v]]
  <2>1. M[n] \in [Nat -> SC] /\ rounds[n] + 1 \in Nat
    BY <1>2 DEF Said
  <2>2. [M[n] EXCEPT ![rounds[n] + 1] = v] \in [Nat -> SC]
    BY <1>1, <2>1
  <2>3. /\ K \in Said /\ K[p] = M[p] /\ K[n][rounds[n] + 1] = v
        /\ \A i \in Nat : i # rounds[n] + 1 => K[n][i] = M[n][i]
    BY <1>0, <2>1, <2>2 DEF Said
  <2> QED
    BY <2>3
<1>4. /\ pc[n] = "run" /\ pc'[n] = "wait" /\ bits'[n].sent_clock = clock[n]
      /\ bits'[n].sent_start = transfer_start[n] /\ bits'[n].recv = bits[n].recv
      /\ bits'[n].recv_clock = bits[n].recv_clock
      /\ bits'[n].recv_start = bits[n].recv_start
      /\ rounds'[n] = rounds[n] + 1
      /\ UNCHANGED <<net, netmsg, second, log>>
      /\ chan'[n] = chan[n] /\ Got(n)' = Got(n)
  BY EffectSendByte
<1>5. Told(L, n)'
  <2>1. Stored(n)' = Stored(n) /\ (First(n)' <=> First(n)) /\ (Held(n)' <=> Held(n))
    BY <1>4 DEF Stored, First, Held
  <2>2. ASSUME NEW i \in 1 .. Len(log[n]) PROVE L[n][i] = M[n][i]
    BY <1>2, <1>3, i # rounds[n] + 1, i \in Nat
  <2>3. /\ \A i \in 1 .. Len(chan'[n]) : Says(chan'[n][i], L[p][Got(n)' + i])
        /\ net'[n] # "idle" => Says(netmsg'[n], L[p][Got(n)'])
        /\ Held(n)' => Says(second'[n], L[p][Stored(n)'])
    BY <1>0, <1>3, <1>4, <2>1 DEF Told
  <2>4. First(n)' => /\ bits'[n].recv_clock = L[p][Len(log'[n]) + 1].clock
                    /\ bits'[n].recv_start = L[p][Len(log'[n]) + 1].start
    BY <1>0, <1>3, <1>4, <2>1 DEF Told
  <2>5. \A i \in 1 .. Len(log'[n]) : log'[n][i].irq = Transfer(L[n][i], L[p][i])
    BY <1>0, <1>3, <1>4, <2>2 DEF Told
  <2>6. /\ bits'[n].sent_clock = L[n][rounds'[n]].clock
        /\ bits'[n].sent_start = L[n][rounds'[n]].start
    BY <1>1, <1>3, <1>4
  <2> QED
    BY <1>0, <2>3, <2>4, <2>5, <2>6 DEF Told
<1>6. Told(L, p)'
  <2>1. own(p)' = own(p) /\ Got(p)' = Got(p)
    BY <1>0, OwnSteps DEF Step, Emulate
  <2>2. /\ Stored(p)' = Stored(p) /\ (First(p)' <=> First(p)) /\ (Held(p)' <=> Held(p))
        /\ pc'[p] = pc[p] /\ net'[p] = net[p] /\ netmsg'[p] = netmsg[p]
        /\ second'[p] = second[p] /\ log'[p] = log[p] /\ bits'[p] = bits[p]
        /\ rounds'[p] = rounds[p]
    BY <2>1 DEF own, Stored, First, Held
  <2>3. ASSUME NEW i \in Nat, i <= rounds[n] PROVE L[n][i] = M[n][i]
    BY <1>2, <1>3, <2>3, i # rounds[n] + 1
  <2>4. ASSUME NEW i \in 1 .. Len(chan'[p]) PROVE Says(chan'[p][i], L[n][Got(p) + i])
    <3>1. /\ Len(chan'[p]) = Len(chan[p]) + 1 /\ Len(chan[p]) \in Nat
          /\ \A h \in 1 .. Len(chan[p]) : chan'[p][h] = chan[p][h]
      BY <1>0, SendEffect, LenProperties DEF TypeOK
    <3>2. CASE i \in 1 .. Len(chan[p])
      <4>1. Got(p) + i \in Nat /\ Got(p) + i <= rounds[n]
        BY <1>0, <1>2, <3>1, <3>2 DEF Got
      <4>2. Says(chan[p][i], M[n][Got(p) + i])
        BY <1>0, <3>2 DEF Told
      <4> QED
        BY <2>3, <3>1, <3>2, <4>1, <4>2
    <3>3. CASE i = Len(chan[p]) + 1
      <4>1. Got(p) + i = rounds[n] + 1
        <5>1. Got(p) = rounds[n] - Len(chan[p])
          BY <1>0 DEF Got
        <5>2. Len(chan[p]) \in Nat /\ rounds[n] \in Nat
          BY <1>2, <3>1
        <5> QED
          BY <3>3, <5>1, <5>2
      <4>2. Says(chan'[p][i], v)
        <5> DEFINE m == [byte |-> rounds[n] + 1, clock |-> clock[n],
                         start |-> transfer_start[n], prog |-> Succ(prog_sent[n])]
        <5>1. chan'[p] = Append(chan[p], m)
          BY <1>0 DEF SendByte, TypeOK
        <5>2. m \in MessageType /\ m.clock = clock[n] /\ m.start = transfer_start[n]
          BY MessageSent
        <5> HIDE DEF m
        <5>3. chan[p] \in Seq(MessageType)
          BY DEF TypeOK
        <5>4. chan'[p][i] = m
          BY <3>3, <5>1, <5>2, <5>3, AppendProperties
        <5> QED
          BY <1>1, <5>2, <5>4 DEF Says
      <4> QED
        BY <1>3, <4>1, <4>2
    <3> QED
      BY <3>1, <3>2, <3>3
  <2>5. net[p] # "idle" => Says(netmsg[p], L[n][Got(p)])
    BY <1>0, <1>2, <2>3 DEF Told
  <2>6. Held(p) => Says(second[p], L[n][Stored(p)])
    BY <1>0, <1>2, <2>3, Stored(p) <= rounds[n] DEF Told
  <2>7. First(p) => /\ bits[p].recv_clock = L[n][Len(log[p]) + 1].clock
                   /\ bits[p].recv_start = L[n][Len(log[p]) + 1].start
    <3> SUFFICES ASSUME First(p)
                 PROVE  /\ bits[p].recv_clock = L[n][Len(log[p]) + 1].clock
                        /\ bits[p].recv_start = L[n][Len(log[p]) + 1].start
      OBVIOUS
    <3>1. Len(log[p]) + 1 \in Nat /\ Len(log[p]) + 1 <= rounds[n]
      BY <1>2
    <3> QED
      BY <1>0, <2>3, <3>1 DEF Told
  <2>8. pc[p] \notin {"run", "second"} =>
          /\ bits[p].sent_clock = L[p][rounds[p]].clock
          /\ bits[p].sent_start = L[p][rounds[p]].start
    BY <1>0, <1>3 DEF Told
  <2>9. ASSUME NEW i \in 1 .. Len(log[p]) PROVE log[p][i].irq = Transfer(L[p][i], L[n][i])
    <3>1. i \in Nat /\ i <= rounds[n]
      BY <1>2
    <3> QED
      BY <1>0, <1>3, <2>3, <3>1 DEF Told
  <2> QED
    BY Zenon, <1>0, <2>1, <2>2, <2>4, <2>5, <2>6, <2>7, <2>8, <2>9 DEF Told
<1>7. ASSUME NEW m \in Node PROVE m = n \/ m = p
  BY <1>0, PeerType
<1>8. \A m \in Node : Told(L, m)'
  BY <1>5, <1>6, <1>7
<1> QED
  BY <1>3, <1>8

LEMMA ToldEmulate ==
  ASSUME TypeOK, \A m \in Node : Wire(m), NEW n \in Node, Place(n), ~lossy,
         NEW M \in Said, Told(M, n),
         WriteSC(n) \/ WaitData(n) \/ Timeout(n) \/ Awake(n) \/ VerifyTest(n) \/ VerifyClear(n)
  PROVE  Told(M, n)'
<1>1. /\ UNCHANGED <<net, netmsg, second, log, rounds, chan>>
      /\ Got(n)' = Got(n) /\ (First(n)' <=> First(n))
      /\ bits'[n].recv_clock = bits[n].recv_clock
      /\ bits'[n].recv_start = bits[n].recv_start
      /\ pc'[n] \notin {"run", "second"} => /\ pc[n] \notin {"run", "second"}
                                           /\ bits'[n].sent_clock = bits[n].sent_clock
                                           /\ bits'[n].sent_start = bits[n].sent_start
  <2>1. CASE WriteSC(n)
    BY <2>1, EffectWriteSC DEF First
  <2>2. CASE WaitData(n) \/ Timeout(n) \/ Awake(n)
    BY <2>2, EffectWait DEF First
  <2>3. CASE VerifyTest(n)
    BY <2>3, EffectVerifyTest DEF First
  <2>4. CASE VerifyClear(n)
    <3>1. /\ pc[n] = "clear" /\ pc'[n] = "couple"
          /\ bits'[n].recv_clock = regs[n].recv_clock
          /\ bits'[n].recv_start = regs[n].recv_start
          /\ bits'[n].sent_clock = regs[n].sent_clock
          /\ bits'[n].sent_start = regs[n].sent_start
          /\ UNCHANGED <<net, netmsg, second, log, rounds, chan>>
          /\ Got(n)' = Got(n)
      BY <2>4, EffectVerifyClear
    <3>2. regs[n] = bits[n] /\ bits[n].recv
      BY <3>1 DEF Place
    <3>3. First(n)' /\ First(n)
      BY <3>1, <3>2 DEF First
    <3> QED
      BY <3>1, <3>2, <3>3
  <2> QED
    BY <2>1, <2>2, <2>3, <2>4
<1>2. Stored(n)' = Stored(n) /\ (Held(n)' <=> Held(n))
  BY <1>1 DEF Stored, Held
<1> QED
  BY <1>1, <1>2 DEF Told

LEMMA ToldVerify ==
  ASSUME TypeOK, \A m \in Node : Wire(m), NEW n \in Node, Place(n), ~lossy,
         ~unanswered, NEW M \in Said, Told(M, n), VerifyCouple(n) \/ VerifySecond(n)
  PROVE  Told(M, n)'
<1>0. PICK p \in Node : p = Peer(n)
  BY PeerType
<1>1. Len(log[n]) \in Nat /\ rounds[n] \in Nat /\ log[n] \in Seq(CoupleType)
  BY PlaceTypes DEF TypeOK
<1>2. CASE VerifyCouple(n)
  <2> DEFINE c == [own |-> rounds[n], peer |-> data_to_recv[n],
                   irq |-> ValidCouple(bits[n])]
  <2>1. /\ pc[n] = "couple" /\ pc'[n] = "second" /\ log'[n] = Append(log[n], c)
        /\ UNCHANGED <<bits, net, netmsg, second, rounds, chan>>
        /\ Got(n)' = Got(n)
    BY <1>2, EffectVerifyCouple
  <2>2. c \in CoupleType /\ c.irq = ValidCouple(bits[n])
    <3>1. ValidCouple(bits[n]) \in BOOLEAN /\ rounds[n] \in Nat /\ data_to_recv[n] \in Nat
      BY BitsFields DEF TypeOK
    <3> QED
      BY <3>1, Zenon DEF CoupleType
  <2> HIDE DEF c
  <2>3. /\ Len(log'[n]) = Len(log[n]) + 1 /\ log'[n][Len(log[n]) + 1] = c
        /\ \A i \in 1 .. Len(log[n]) : log'[n][i] = log[n][i]
    BY <1>1, <2>1, <2>2, AppendProperties
  <2>4. /\ Stored(n)' = Stored(n) /\ First(n) /\ ~First(n)' /\ (Held(n)' <=> Held(n))
    BY <2>1 DEF Stored, First, Held, Place
  <2>5. rounds[n] = Len(log[n]) + 1
    BY <2>1 DEF Place, Round
  <2>6. c.irq = Transfer(M[n][Len(log[n]) + 1], M[p][Len(log[n]) + 1])
    <3>1. /\ bits[n].recv_clock = M[p][Len(log[n]) + 1].clock
          /\ bits[n].recv_start = M[p][Len(log[n]) + 1].start
          /\ bits[n].sent_clock = M[n][Len(log[n]) + 1].clock
          /\ bits[n].sent_start = M[n][Len(log[n]) + 1].start
      BY <1>0, <2>1, <2>4, <2>5 DEF Told
    <3> QED
      BY <2>2, <3>1 DEF ValidCouple, Transfer
  <2>7. ASSUME NEW i \in 1 .. Len(log'[n]) PROVE log'[n][i].irq = Transfer(M[n][i], M[p][i])
    <3>1. CASE i = Len(log[n]) + 1
      BY <2>3, <2>6, <3>1
    <3>2. CASE i \in 1 .. Len(log[n])
      BY <1>0, <2>3, <3>2 DEF Told
    <3> QED
      BY <1>1, <2>3, <3>1, <3>2
  <2> QED
    BY <1>0, <2>1, <2>4, <2>7 DEF Told
<1>3. CASE VerifySecond(n)
  <2>1. /\ pc[n] = "second" /\ pc'[n] = "run" /\ ~Held(n)' /\ Got(n)' = Got(n)
        /\ \/ /\ Held(n) /\ bits'[n].recv /\ bits'[n].recv_clock = second[n].clock
              /\ bits'[n].recv_start = second[n].start
           \/ ~Held(n) /\ bits' = bits
        /\ UNCHANGED <<net, netmsg, log, rounds, chan>>
    BY <1>3, EffectVerifySecond
  <2>2. ~First(n) /\ (First(n)' => Held(n))
    BY <2>1 DEF First, Place
  <2>3. ASSUME Held(n) PROVE /\ bits'[n].recv_clock = M[p][Len(log[n]) + 1].clock
                             /\ bits'[n].recv_start = M[p][Len(log[n]) + 1].start
    <3>1. Stored(n) = Len(log[n]) + 1
      BY <1>1, <2>2, <2>3 DEF Place, Firsts, Helds
    <3> QED
      BY <1>0, <2>1, <2>3, <3>1 DEF Told, Says
  <2> QED
    BY <1>0, <2>1, <2>2, <2>3 DEF Told
<1> QED
  BY <1>2, <1>3

LEMMA ToldReceive ==
  ASSUME TypeOK, \A m \in Node : Wire(m), NEW n \in Node, Place(n), ~lossy, ~raced',
         NEW M \in Said, Told(M, n), Network(n)
  PROVE  Told(M, n)'
<1>0. PICK p \in Node : p = Peer(n)
  BY PeerType
<1>1. Len(log[n]) \in Nat /\ rounds[n] \in Nat /\ Got(n) \in Nat
  BY PlaceTypes
<1>2. CASE Receive(n)
  <2>1. /\ net[n] = "idle" /\ net'[n] = "recv" /\ Got(n)' = Got(n) + 1
        /\ netmsg'[n] = chan[n][1] /\ Len(chan[n]) >= 1 /\ chan'[n] = Tail(chan[n])
        /\ UNCHANGED <<pc, bits, second, log, rounds>>
    BY <1>2, EffectReceive
  <2>2. Stored(n)' = Stored(n) /\ (First(n)' <=> First(n)) /\ (Held(n)' <=> Held(n))
    BY <1>1, <2>1 DEF Stored, First, Held
  <2>3. chan[n] \in Seq(MessageType) /\ Len(chan[n]) \in Nat /\ chan[n] # <<>>
    <3>1. chan[n] \in Seq(MessageType) /\ Len(chan[n]) \in Nat
      BY LenProperties DEF TypeOK
    <3>2. Len(chan[n]) # 0
      BY <2>1
    <3> QED
      BY <3>1, <3>2, EmptySeq
  <2>4. /\ Len(chan'[n]) = Len(chan[n]) - 1
        /\ \A k \in 1 .. Len(chan[n]) - 1 : chan'[n][k] = chan[n][k + 1]
    BY <2>1, <2>3, HeadTailProperties
  <2>5. ASSUME NEW i \in 1 .. Len(chan'[n]) PROVE Says(chan'[n][i], M[p][Got(n)' + i])
    <3>1. i + 1 \in 1 .. Len(chan[n]) /\ chan'[n][i] = chan[n][i + 1] /\ i \in Nat
      BY <2>1, <2>3, <2>4
    <3>2. Got(n)' + i = Got(n) + (i + 1)
      BY <1>1, <2>1, <3>1
    <3>3. Says(chan[n][i + 1], M[p][Got(n) + (i + 1)])
      BY <1>0, <3>1 DEF Told
    <3> QED
      BY <3>1, <3>2, <3>3
  <2>6. Says(netmsg'[n], M[p][Got(n)'])
    BY <1>0, <2>1, <2>3, 1 \in 1 .. Len(chan[n]) DEF Told
  <2> QED
    BY <1>0, <2>1, <2>2, <2>5, <2>6 DEF Told
<1>3. CASE RecvTest(n)
  <2>1. /\ net[n] = "recv" /\ net'[n] # "idle" /\ Got(n)' = Got(n)
        /\ UNCHANGED <<bits, pc, second, netmsg, log, rounds, chan>>
    BY <1>3, EffectRecvTest
  <2>2. Stored(n)' = Stored(n) /\ (First(n)' <=> First(n)) /\ (Held(n)' <=> Held(n))
    BY <2>1 DEF First, Held, Stored
  <2> QED
    BY <1>0, <2>1, <2>2 DEF Told
<1>5. CASE RecvSecond(n)
  <2>1. /\ net[n] = "second" /\ net'[n] = "idle" /\ second'[n] = netmsg[n]
        /\ Got(n)' = Got(n) /\ UNCHANGED <<bits, pc, log, rounds, chan>>
    BY <1>5, EffectRecvSecond
  <2>2. (First(n)' <=> First(n)) /\ Stored(n)' = Got(n)
    BY <2>1 DEF First, Stored
  <2>3. Held(n)' => Says(second'[n], M[p][Stored(n)'])
    BY <1>0, <2>1, <2>2 DEF Told
  <2> QED
    BY <1>0, <2>1, <2>2, <2>3 DEF Told
<1>4. CASE RecvStore(n)
  <2>1. /\ net[n] = "store" /\ net'[n] = "idle" /\ Got(n)' = Got(n)
        /\ bits'[n].recv_clock = netmsg[n].clock /\ bits'[n].recv_start = netmsg[n].start
        /\ bits'[n].sent_clock = netregs[n].sent_clock
        /\ bits'[n].sent_start = netregs[n].sent_start
        /\ pc'[n] = pc[n] \/ (pc[n] = "asleep" /\ pc'[n] = "woken")
        /\ UNCHANGED <<second, log, rounds, chan>>
    BY <1>4, EffectRecvStore
  <2>2. netregs[n] = bits[n] /\ ~First(n) /\ ~Held(n) /\ ~Held(n)'
    BY <2>1 DEF Place, First, Held
  <2>3. Got(n) = Len(log[n]) + 1
    BY <1>1, <2>1, <2>2 DEF Place, Stored, Firsts, Helds
  <2>4. /\ bits'[n].recv_clock = M[p][Len(log[n]) + 1].clock
        /\ bits'[n].recv_start = M[p][Len(log[n]) + 1].start
    BY <1>0, <2>1, <2>3 DEF Told, Says
  <2>5. pc'[n] \notin {"run", "second"} => /\ pc[n] \notin {"run", "second"}
                                         /\ bits'[n].sent_clock = bits[n].sent_clock
                                         /\ bits'[n].sent_start = bits[n].sent_start
    BY <2>1, <2>2
  <2> QED
    BY <1>0, <2>1, <2>2, <2>4, <2>5 DEF Told
<1> QED
  BY <1>2, <1>3, <1>4, <1>5 DEF Network

LEMMA OthersChannel ==
  ASSUME TypeOK, NEW n \in Node, NEW q \in Node, q # n, Step(n), ~SendByte(n)
  PROVE  chan'[q] = chan[q]
<1>1. CASE WriteSC(n) \/ WaitData(n) \/ Timeout(n) \/ Awake(n)
  BY <1>1 DEF WriteSC, WaitData, Timeout, Awake
<1>2. CASE VerifyTest(n) \/ VerifyClear(n) \/ VerifyCouple(n) \/ VerifySecond(n)
  BY <1>2 DEF VerifyTest, VerifyClear, VerifyCouple, VerifySecond
<1>3. CASE Receive(n)
  BY <1>3 DEF Receive, TypeOK
<1>4. CASE RecvTest(n) \/ RecvSecond(n) \/ RecvStore(n)
  BY <1>4 DEF RecvTest, RecvSecond, RecvStore
<1> QED
  BY <1>1, <1>2, <1>3, <1>4 DEF Step, Emulate, Network

LEMMA ToldNext == WireInv /\ PlaceInv /\ ToldInv /\ [Next]_vars => ToldInv'
<1> SUFFICES ASSUME WireInv, PlaceInv, ToldInv, [Next]_vars, InOrder'
             PROVE  \E L \in Said : \A m \in Node : Told(L, m)'
  BY DEF ToldInv
<1>0. TypeOK /\ \A n \in Node : Wire(n)
  BY DEF WireInv
<1>1. CASE UNCHANGED vars
  <2>1. InOrder
    BY <1>1 DEF vars, hist, InOrder
  <2>2. PICK M \in Said : \A n \in Node : Told(M, n)
    BY <2>1 DEF ToldInv
  <2>3. ASSUME NEW m \in Node PROVE Told(M, m)'
    <3>1. own(m)' = own(m) /\ Got(m)' = Got(m) /\ chan'[m] = chan[m]
      BY <1>1 DEF vars, sc, emu, netw, hist, own, Got
    <3> QED
      BY <2>2, <3>1, ToldFrame
  <2> QED
    BY <2>3
<1>2. ASSUME NEW n \in Node, Step(n) PROVE \E L \in Said : \A m \in Node : Told(L, m)'
  <2>0. PICK q \in Node : q # n /\ \A m \in Node : m = n \/ m = q
    BY PeerType
  <2>1. /\ own(q)' = own(q) /\ Got(q)' = Got(q) /\ UNCHANGED lossy
        /\ (raced => raced') /\ (unanswered => unanswered')
    BY <1>0, <1>2, <2>0, OwnSteps
  <2>2. ~lossy /\ ~raced' /\ ~unanswered /\ InOrder
    BY <2>1 DEF InOrder
  <2>3. \A k \in Node : Place(k)
    BY <2>2 DEF PlaceInv
  <2>4. PICK M \in Said : \A k \in Node : Told(M, k)
    BY <2>2 DEF ToldInv
  <2>5. CASE SendByte(n)
    BY <1>0, <2>2, <2>3, <2>4, <2>5, ToldSend
  <2>6. CASE ~SendByte(n)
    <3>1. Told(M, q)'
      BY <1>0, <1>2, <2>0, <2>1, <2>4, <2>6, OthersChannel, ToldFrame
    <3>2. Told(M, n)'
      BY <1>0, <1>2, <2>2, <2>3, <2>4, <2>6, ToldEmulate, ToldVerify, ToldReceive
      DEF Step, Emulate
    <3> QED
      BY <2>0, <3>1, <3>2
  <2> QED
    BY <2>5, <2>6
<1> QED
  BY <1>1, <1>2, StepOf

\* The two consoles decide alike of every round: a transfer happens on both sides
\* or on neither, although each decides on its own.
THEOREM TransfersAgree == Spec => []BothOrNeither
<1>1. ToldInv => BothOrNeither
  <2> SUFFICES ASSUME ToldInv, InOrder, NEW i \in 1 .. Len(log[A]), i <= Len(log[B])
               PROVE  log[A][i].irq = log[B][i].irq
    BY DEF BothOrNeither
  <2>1. PICK M \in Said : \A n \in Node : Told(M, n)
    BY DEF ToldInv
  <2>2. A \in Node /\ B \in Node /\ Peer(A) = B /\ Peer(B) = A
    BY LinkAssumption DEF Node, Peer
  <2>3. /\ log[A][i].irq = Transfer(M[A][i], M[B][i])
        /\ i \in 1 .. Len(log[B]) => log[B][i].irq = Transfer(M[B][i], M[A][i])
    BY <2>1, <2>2 DEF Told
  <2>4. Transfer(M[A][i], M[B][i]) = Transfer(M[B][i], M[A][i])
    BY DEF Transfer
  <2> QED
    BY <2>3, <2>4
<1> QED
  BY <1>1, WireAlways, PlaceInit, PlaceNext, ToldInit, ToldNext, PTL DEF Spec

=============================================================================
