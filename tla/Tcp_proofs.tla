----------------------------- MODULE Tcp_proofs -----------------------------
(***************************************************************************)
(* Proofs about the TCP connections, for any number of slots, any buffer   *)
(* and segment size, any calls of the programs and any faults of the wire. *)
(*                                                                         *)
(* TypeInv is inductive alone and gives TypeOK.  LinkInv, with it, relates *)
(* the TCBs of the two hosts to each other and to what is in transit, and  *)
(* gives InStep and NoOverrun.                                             *)
(***************************************************************************)
EXTENDS Tcp, Integers, FiniteSetTheorems, SequenceTheorems, TLAPS

Client == CHOOSE h \in Hosts : h \in Clients
Server == CHOOSE h \in Hosts : h \in Servers

-----------------------------------------------------------------------------
(* The types of the table and of the wire. *)

Port == 0 .. NoPort
Parked == [seq : Int, data : Seq(Nat)]
Tcb ==
  [state : States, lport : Port, rport : Port, una : Nat, nxt : Nat, wnd : 0 .. BufSize - 1, rnxt : Nat,
   rx : Seq(Nat), buf : [0 .. BufSize - 1 -> Nat], head : 0 .. BufSize - 1, tail : 0 .. BufSize - 1,
   wrote : Nat, armed : BOOLEAN, retries : 0 .. MaxRetries, cwnd : 1 .. Most(BufSize, 2 * MSS),
   ssthresh : Nat, heard : BOOLEAN, ooo : SUBSET Parked, sack : Int, dups : 0 .. 4, persist : BOOLEAN]
FlagSets == SUBSET {"S", "A", "F", "R"}
Segment ==
  [from : Hosts, src : Port, dst : Port, seq : Int, ack : Int, flags : FlagSets,
   wnd : 0 .. BufSize - 1, data : Seq(Nat), sack : Int]

Starting == {"CLOSED", "LISTEN", "SYN_SENT", "SYN_RECEIVED"}

(* A TCB keeps within its buffers; what it has in flight fits a window, and *)
(* it probes a closed window only when everything is acknowledged.  A         *)
(* connection that is not set up yet has received nothing.                    *)
GoodTcb(t) ==
  /\ t \in Tcb
  /\ t.una <= t.nxt /\ Len(t.rx) < BufSize
  /\ IsFiniteSet(t.ooo) /\ Cardinality(t.ooo) <= 2
  /\ t.state = "CLOSED" => t = Unused
  /\ t.state \in Open => t.nxt - t.una < BufSize /\ (t.persist => t.wnd = 0 /\ t.una = t.nxt)
  /\ t.state \in Starting => t.rx = <<>> /\ t.ooo = {} /\ ~t.persist

GoodSeg(g) ==
  /\ g \in Segment
  /\ Len(g.data) <= MSS
  /\ "S" \in g.flags \/ "F" \in g.flags => g.seq \in Nat

GoodRes(r) == GoodTcb(r.t) /\ \A g \in r.out : GoodSeg(g)

LEMMA Given ==
  /\ Client # Server /\ Clients = {Client} /\ Servers = {Server} /\ Hosts = {Client, Server}
  /\ BufSize \in Nat /\ BufSize >= 2 /\ MSS \in Nat /\ MSS >= 1
  /\ MaxRetries \in Nat /\ MaxBytes \in Nat /\ MaxSeq \in Nat /\ MaxOpens \in [Hosts -> Nat]
  /\ IssStep \in Nat /\ IssStep >= MaxSeq + BufSize + 2 /\ Slots \subseteq Nat
  /\ Preempt \subseteq {"connect"}
  <1>1. PICK c, s \in Hosts : c # s /\ Clients = {c} /\ Servers = {s}
    BY TcpAssumption
  <1>2. Client = c /\ Server = s
    BY <1>1 DEF Client, Server
  <1>3. QED
    BY <1>1, <1>2, TcpAssumption DEF Hosts

LEMMA Peers == Peer(Client) = Server /\ Peer(Server) = Client
  BY Given DEF Peer

LEMMA Ports == MaxPort = MaxOpens[Client] /\ NoPort = MaxPort + 1 /\ NoPort \in Nat
  <1>1. {MaxOpens[h] : h \in Clients} = {MaxOpens[Client]}
    BY Given
  <1>2. MaxPort = MaxOpens[Client]
    BY <1>1 DEF MaxPort
  <1>3. QED
    BY <1>2, Given DEF NoPort

(* The fields of a TCB and of a segment. *)
LEMMA Fields ==
  ASSUME NEW t \in Tcb
  PROVE  /\ t.state \in States /\ t.lport \in Port /\ t.rport \in Port
         /\ t.una \in Nat /\ t.nxt \in Nat /\ t.wnd \in 0 .. BufSize - 1 /\ t.rnxt \in Nat
         /\ t.rx \in Seq(Nat) /\ t.buf \in [0 .. BufSize - 1 -> Nat]
         /\ t.head \in 0 .. BufSize - 1 /\ t.tail \in 0 .. BufSize - 1 /\ t.wrote \in Nat
         /\ t.armed \in BOOLEAN /\ t.retries \in 0 .. MaxRetries
         /\ t.cwnd \in 1 .. Most(BufSize, 2 * MSS) /\ t.ssthresh \in Nat /\ t.heard \in BOOLEAN
         /\ t.ooo \subseteq Parked /\ t.sack \in Int /\ t.dups \in 0 .. 4 /\ t.persist \in BOOLEAN
  BY Zenon DEF Tcb

LEMMA SegFields ==
  ASSUME NEW g \in Segment
  PROVE  /\ g.from \in Hosts /\ g.src \in Port /\ g.dst \in Port /\ g.seq \in Int /\ g.ack \in Int
         /\ g.flags \in FlagSets /\ g.wnd \in 0 .. BufSize - 1
         /\ g.data \in Seq(Nat) /\ g.sack \in Int
  BY Zenon DEF Segment

(* The same with the intervals spelt out, and the numbers derived from them. *)
LEMMA Sizes ==
  ASSUME NEW t, GoodTcb(t)
  PROVE  /\ t.una \in Nat /\ t.nxt \in Nat /\ t.rnxt \in Nat /\ t.una <= t.nxt
         /\ t.wnd \in Nat /\ t.wnd < BufSize /\ t.cwnd \in Nat /\ t.cwnd >= 1
         /\ Len(t.rx) \in Nat /\ Len(t.rx) < BufSize
         /\ RxWnd(t) \in Nat /\ RxWnd(t) < BufSize /\ RxWnd(t) = BufSize - 1 - Len(t.rx)
         /\ InFlight(t) \in Nat /\ InFlight(t) = t.nxt - t.una
         /\ Pending(t) \in Nat
  <1>1. t \in Tcb /\ t.una <= t.nxt /\ Len(t.rx) < BufSize
    BY DEF GoodTcb
  <1>2. /\ t.una \in Nat /\ t.nxt \in Nat /\ t.rnxt \in Nat /\ t.wnd \in 0 .. BufSize - 1
        /\ t.cwnd \in 1 .. Most(BufSize, 2 * MSS) /\ t.rx \in Seq(Nat)
        /\ t.head \in 0 .. BufSize - 1 /\ t.tail \in 0 .. BufSize - 1
    BY <1>1, Fields
  <1>3. Len(t.rx) \in Nat
    BY <1>2, LenProperties
  <1>4. t.wnd \in Nat /\ t.wnd < BufSize
    BY <1>2, Given
  <1>5. t.cwnd \in Nat /\ t.cwnd >= 1
    BY <1>2, Given DEF Most
  <1>6. Pending(t) \in Nat
    BY <1>2, Given DEF Pending
  <1>7. RxWnd(t) = BufSize - 1 - Len(t.rx) /\ RxWnd(t) \in Nat /\ RxWnd(t) < BufSize
    <2> DEFINE n == Len(t.rx)
    <2>1. n \in Nat /\ n < BufSize /\ RxWnd(t) = BufSize - 1 - n
      BY <1>1, <1>3 DEF RxWnd
    <2> HIDE DEF n
    <2>2. BufSize - 1 - n \in Nat /\ BufSize - 1 - n < BufSize
      BY <2>1, Given
    <2>3. QED
      BY <2>1, <2>2 DEF n
  <1>8. InFlight(t) = t.nxt - t.una /\ InFlight(t) \in Nat
    BY <1>1, <1>2 DEF InFlight
  <1>9. QED
    BY <1>1, <1>2, <1>3, <1>4, <1>5, <1>6, <1>7, <1>8

LEMMA RoomLeft == ASSUME NEW t, GoodTcb(t) PROVE RxWnd(t) \in 0 .. BufSize - 1
  <1> DEFINE n == RxWnd(t)
  <1>1. n \in Nat /\ n < BufSize
    BY Sizes
  <1> HIDE DEF n
  <1>2. n \in 0 .. BufSize - 1
    BY <1>1, Given
  <1>3. QED
    BY <1>2 DEF n

LEMMA LeastMost ==
  ASSUME NEW a \in Int, NEW b \in Int
  PROVE  /\ Least(a, b) \in {a, b} /\ Least(a, b) <= a /\ Least(a, b) <= b
         /\ Most(a, b) \in {a, b} /\ a <= Most(a, b) /\ b <= Most(a, b)
  BY DEF Least, Most

LEMMA InRing == ASSUME NEW n \in Nat PROVE n % BufSize \in 0 .. BufSize - 1
  BY Given

LEMMA BlankTcb == GoodTcb(Unused)
  <1>1. Unused \in Tcb
    <2>1. 2 * MSS \in 1 .. Most(BufSize, 2 * MSS) /\ 64 * MSS \in Nat
      BY Given DEF Most
    <2>2. /\ "CLOSED" \in States /\ 0 \in Port /\ 0 \in Nat /\ 0 \in 0 .. BufSize - 1 /\ <<>> \in Seq(Nat)
          /\ [i \in 0 .. BufSize - 1 |-> 0] \in [0 .. BufSize - 1 -> Nat]
          /\ 0 \in 0 .. MaxRetries /\ {} \subseteq Parked /\ 0 \in 0 .. 4 /\ NoSack \in Int
      BY Given, Ports DEF States, Port, NoSack
    <2>3. FALSE \in BOOLEAN /\ {} \in SUBSET Parked
      OBVIOUS
    <2>4. QED
      BY <2>1, <2>2, <2>3, Zenon DEF Unused, Tcb
  <1>2. /\ Unused.una = 0 /\ Unused.nxt = 0 /\ Unused.rx = <<>> /\ Unused.ooo = {} /\ Unused.state = "CLOSED"
        /\ Unused.persist = FALSE
    BY Zenon DEF Unused
  <1>3. IsFiniteSet({}) /\ Cardinality({}) = 0
    BY FS_EmptySet
  <1>4. QED
    BY <1>1, <1>2, <1>3, Given DEF GoodTcb, Open

-----------------------------------------------------------------------------
(* What a TCB says: segments without data flags other than ACK.             *)

Sent(t) == t.nxt + (IF t.persist THEN 1 ELSE 0)
Edge(t) == t.rnxt + RxWnd(t)

(* q is an ACK of t, with data t has counted (or probes with).  *)
Says(q, h, t) ==
  /\ q \in Segment /\ q.from = h /\ q.src = t.lport /\ q.dst = t.rport
  /\ q.flags = {"A"} /\ Len(q.data) <= MSS
  /\ q.seq + Len(q.data) <= Sent(t) /\ q.ack = t.rnxt /\ q.wnd = RxWnd(t)

LEMMA SaysGood ==
  ASSUME NEW q, NEW h, NEW t, Says(q, h, t)
  PROVE  GoodSeg(q)
  BY DEF Says, GoodSeg

LEMMA SegIs ==
  ASSUME NEW h \in Hosts, NEW s, s.lport \in Port, s.rport \in Port, s.nxt \in Int, s.rnxt \in Int,
         RxWnd(s) \in 0 .. BufSize - 1, NEW fl \in FlagSets, NEW d \in Seq(Nat), NEW k \in Int,
         NEW q, q = Seg(h, s, fl, d, k)
  PROVE  /\ q \in Segment /\ q.from = h /\ q.src = s.lport /\ q.dst = s.rport /\ q.seq = s.nxt
         /\ q.ack = s.rnxt /\ q.flags = fl /\ q.wnd = RxWnd(s) /\ q.data = d /\ q.sack = k
  BY Zenon DEF Seg, Segment

(* t speaks with sequence number n. *)
From(t, n) == [t EXCEPT !.nxt = n]

LEMMA SegFrom ==
  ASSUME NEW h \in Hosts, NEW t, GoodTcb(t), NEW n \in Int, NEW fl \in FlagSets,
         NEW d \in Seq(Nat), NEW k \in Int, NEW q, q = Seg(h, From(t, n), fl, d, k)
  PROVE  /\ q \in Segment /\ q.from = h /\ q.src = t.lport /\ q.dst = t.rport /\ q.seq = n
         /\ q.ack = t.rnxt /\ q.flags = fl /\ q.wnd = RxWnd(t) /\ q.data = d /\ q.sack = k
  <1> DEFINE s == From(t, n)
  <1>1. t \in Tcb
    BY DEF GoodTcb
  <1>2. s.lport = t.lport /\ s.rport = t.rport /\ s.nxt = n /\ s.rnxt = t.rnxt /\ s.rx = t.rx
    BY <1>1, Zenon DEF Tcb, From
  <1>3. t.lport \in Port /\ t.rport \in Port /\ t.rnxt \in Int
    BY <1>1, Fields
  <1>4. RxWnd(s) = RxWnd(t)
    BY <1>2 DEF RxWnd
  <1>5. RxWnd(t) \in 0 .. BufSize - 1
    BY RoomLeft
  <1>6. q = Seg(h, s, fl, d, k)
    OBVIOUS
  <1> HIDE DEF s
  <1>7. QED
    BY <1>2, <1>3, <1>4, <1>5, <1>6, SegIs

LEMMA SpeaksAt ==
  ASSUME NEW h \in Hosts, NEW t, GoodTcb(t), NEW n \in Int, NEW d \in Seq(Nat), Len(d) <= MSS,
         n + Len(d) <= Sent(t), NEW k \in Int, NEW q, q = Seg(h, From(t, n), {"A"}, d, k)
  PROVE  Says(q, h, t)
  <1>1. /\ q \in Segment /\ q.from = h /\ q.src = t.lport /\ q.dst = t.rport /\ q.seq = n
        /\ q.ack = t.rnxt /\ q.flags = {"A"} /\ q.wnd = RxWnd(t) /\ q.data = d
    <2>1. {"A"} \in FlagSets
      BY DEF FlagSets
    <2>2. QED
      BY <2>1, SegFrom
  <1>2. QED
    BY <1>1 DEF Says

LEMMA SameNxt == ASSUME NEW t \in Tcb PROVE t = From(t, t.nxt)
  BY Zenon DEF Tcb, From

(* n bytes of the transmit ring. *)
LEMMA TxLen ==
  ASSUME NEW t, GoodTcb(t), NEW n \in Nat
  PROVE  TxBytes(t, n) \in Seq(Nat) /\ Len(TxBytes(t, n)) = n
  <1>1. t.head \in 0 .. BufSize - 1 /\ t.buf \in [0 .. BufSize - 1 -> Nat]
    BY Fields DEF GoodTcb
  <1>2. \A i \in 1 .. n : (t.head + i - 1) % BufSize \in 0 .. BufSize - 1
    <2> SUFFICES ASSUME NEW i \in 1 .. n PROVE (t.head + i - 1) % BufSize \in 0 .. BufSize - 1
      OBVIOUS
    <2>1. t.head \in Nat
      BY <1>1, Given
    <2>2. t.head + i - 1 \in Nat
      BY <2>1
    <2>3. QED
      BY <2>2, InRing
  <1>3. \A i \in 1 .. n : t.buf[(t.head + i - 1) % BufSize] \in Nat
    BY <1>1, <1>2
  <1>4. QED
    BY <1>3, IsASeq DEF TxBytes

-----------------------------------------------------------------------------
(* Timers and the sender: Arm, Retransmit, Drain, CountDup, TakeAck.         *)

(* Fields the two ends have to agree about. *)
SamePlace(t, s) == s.state = t.state /\ s.lport = t.lport /\ s.rport = t.rport
SameSender(t, s) == s.una = t.una /\ s.nxt = t.nxt /\ s.wnd = t.wnd /\ s.persist = t.persist
SameReceiver(t, s) == s.rnxt = t.rnxt /\ s.rx = t.rx /\ s.ooo = t.ooo

LEMMA SameIsGood ==
  ASSUME NEW t, GoodTcb(t), t.state # "CLOSED", NEW s \in Tcb, SamePlace(t, s), SameSender(t, s), SameReceiver(t, s)
  PROVE  GoodTcb(s)
  BY DEF GoodTcb, SamePlace, SameSender, SameReceiver

LEMMA SameSays ==
  ASSUME NEW t, NEW s, SamePlace(t, s), SameSender(t, s), SameReceiver(t, s), NEW h, NEW q, Says(q, h, t)
  PROVE  Says(q, h, s)
  BY DEF Says, SamePlace, SameSender, SameReceiver, Sent, RxWnd

LEMMA ArmGood ==
  ASSUME NEW t, GoodTcb(t), t.state # "CLOSED"
  PROVE  GoodTcb(Arm(t)) /\ SamePlace(t, Arm(t)) /\ SameSender(t, Arm(t)) /\ SameReceiver(t, Arm(t))
  <1>1. t \in Tcb /\ TRUE \in BOOLEAN /\ 0 \in 0 .. MaxRetries
    BY Given DEF GoodTcb
  <1>2. Arm(t) \in Tcb
    BY <1>1, Zenon DEF Tcb, Arm
  <1>3. SamePlace(t, Arm(t)) /\ SameSender(t, Arm(t)) /\ SameReceiver(t, Arm(t))
    BY <1>1, Zenon DEF Tcb, Arm, SamePlace, SameSender, SameReceiver
  <1>4. QED
    BY <1>2, <1>3, SameIsGood

LEMMA TouchGood ==
  ASSUME NEW t, GoodTcb(t), t.state # "CLOSED"
  PROVE  /\ GoodTcb(Touched(t)) /\ SamePlace(t, Touched(t)) /\ SameSender(t, Touched(t))
         /\ SameReceiver(t, Touched(t))
  <1>1. t \in Tcb /\ TRUE \in BOOLEAN
    BY DEF GoodTcb
  <1>2. Touched(t) \in Tcb
    BY <1>1, Zenon DEF Tcb, Touched
  <1>3. SamePlace(t, Touched(t)) /\ SameSender(t, Touched(t)) /\ SameReceiver(t, Touched(t))
    BY <1>1, Zenon DEF Tcb, Touched, SamePlace, SameSender, SameReceiver
  <1>4. QED
    BY <1>2, <1>3, SameIsGood

(* A retransmission repeats what is in flight, at most up to the bytes the   *)
(* peer has told of.                                                         *)
LEMMA RetransmitSays ==
  ASSUME NEW h \in Hosts, NEW t, GoodTcb(t), t.state \in Open
  PROVE  \A q \in Retransmit(h, t) : Says(q, h, t)
  <1> DEFINE gap == IF t.sack > t.una THEN t.sack - t.una ELSE MSS
             chunk == Least(Least(InFlight(t), MSS), gap)
  <1>1. t.una \in Nat /\ t.nxt \in Nat /\ InFlight(t) \in Nat /\ InFlight(t) = t.nxt - t.una
    BY Sizes
  <1>2. t.sack \in Int
    BY Fields DEF GoodTcb
  <1>3. gap \in Nat
    BY <1>1, <1>2, Given
  <1>4. chunk \in Nat /\ chunk <= InFlight(t) /\ chunk <= MSS
    <2> HIDE DEF gap
    <2> DEFINE a == Least(InFlight(t), MSS)
    <2>1. a \in Nat /\ a <= InFlight(t) /\ a <= MSS
      BY <1>1, Given, LeastMost
    <2> HIDE DEF a
    <2>2. Least(a, gap) \in Nat /\ Least(a, gap) <= a
      BY <2>1, <1>3, LeastMost
    <2>3. QED
      BY <2>1, <2>2, <1>1, Given DEF a
  <1> HIDE DEF gap
  <1>5. t.state \notin {"SYN_SENT", "FIN_WAIT_1", "LAST_ACK"}
    BY DEF Open
  <1>6. Retransmit(h, t) = Emit(h, From(t, t.una), {"A"}, TxBytes(t, chunk))
    BY <1>5 DEF Retransmit, gap, From
  <1> HIDE DEF chunk
  <1>7. TxBytes(t, chunk) \in Seq(Nat) /\ Len(TxBytes(t, chunk)) = chunk
    BY <1>4, TxLen
  <1>8. t.una + chunk <= Sent(t)
    BY <1>1, <1>4 DEF Sent
  <1>9. NoSack \in Int
    BY DEF NoSack
  <1> DEFINE d == TxBytes(t, chunk)
  <1>10. d \in Seq(Nat) /\ Len(d) <= MSS /\ t.una + Len(d) <= Sent(t) /\ t.una \in Int
    BY <1>1, <1>4, <1>7, <1>8
  <1>11. \A q \in Retransmit(h, t) : q = Seg(h, From(t, t.una), {"A"}, d, NoSack)
    BY <1>6 DEF Emit
  <1> HIDE DEF d
  <1>12. QED
    BY <1>9, <1>10, <1>11, SpeaksAt

LEMMA RetransmitGood ==
  ASSUME NEW h \in Hosts, NEW t, GoodTcb(t), NEW q \in Retransmit(h, t)
  PROVE  /\ GoodSeg(q) /\ q.from = h /\ q.src = t.lport /\ q.dst = t.rport
         /\ q.ack = t.rnxt /\ q.wnd = RxWnd(t)
         /\ t.state = "SYN_SENT" => q.flags = {"S"} /\ q.seq = t.una /\ q.data = <<>>
         /\ t.state \in {"FIN_WAIT_1", "LAST_ACK"} => q.flags = {"F", "A"} /\ q.seq = t.una /\ q.data = <<>>
         /\ t.state \in {"SYN_SENT", "FIN_WAIT_1", "LAST_ACK"} \cup Open
  <1>1. CASE t.state \in Open
    <2>1. Says(q, h, t)
      BY <1>1, RetransmitSays
    <2>2. QED
      BY <1>1, <2>1, SaysGood DEF Says, Open
  <1>2. CASE t.state \in {"SYN_SENT", "FIN_WAIT_1", "LAST_ACK"}
    <2> DEFINE fl == IF t.state = "SYN_SENT" THEN {"S"} ELSE {"F", "A"}
    <2>1. q = Seg(h, From(t, t.una), fl, <<>>, NoSack)
      <3>1. CASE t.state = "SYN_SENT"
        <4>1. Retransmit(h, t) = Emit(h, From(t, t.una), {"S"}, <<>>)
          BY <3>1 DEF Retransmit, From, Open
        <4>2. QED
          BY <3>1, <4>1 DEF Emit
      <3>2. CASE t.state \in {"FIN_WAIT_1", "LAST_ACK"}
        <4>1. Retransmit(h, t) = Emit(h, From(t, t.una), {"F", "A"}, <<>>)
          BY <3>2 DEF Retransmit, From, Open
        <4>2. QED
          BY <3>2, <4>1 DEF Emit
      <3>3. QED
        BY <1>2, <3>1, <3>2
    <2>2. fl \in FlagSets /\ <<>> \in Seq(Nat) /\ Len(<<>>) = 0 /\ NoSack \in Int
      BY DEF NoSack, FlagSets
    <2> HIDE DEF fl
    <2>3. t.una \in Nat
      BY Sizes
    <2>4. /\ q \in Segment /\ q.from = h /\ q.src = t.lport /\ q.dst = t.rport /\ q.seq = t.una
          /\ q.ack = t.rnxt /\ q.flags = fl /\ q.wnd = RxWnd(t) /\ q.data = <<>>
      <3> DEFINE n == t.una  none == <<>>
      <3>1. n \in Int /\ none \in Seq(Nat) /\ q = Seg(h, From(t, n), fl, none, NoSack)
        BY <2>1, <2>2, <2>3
      <3> HIDE DEF n, none
      <3>2. /\ q \in Segment /\ q.from = h /\ q.src = t.lport /\ q.dst = t.rport /\ q.seq = n
            /\ q.ack = t.rnxt /\ q.flags = fl /\ q.wnd = RxWnd(t) /\ q.data = none
        BY <2>2, <3>1, SegFrom
      <3>3. QED
        BY <3>2 DEF n, none
    <2>5. GoodSeg(q)
      BY <2>2, <2>3, <2>4, Given DEF GoodSeg
    <2>6. QED
      BY <1>2, <2>3, <2>4, <2>5 DEF fl
  <1>3. CASE t.state \notin {"SYN_SENT", "FIN_WAIT_1", "LAST_ACK"} \cup Open
    BY <1>3 DEF Retransmit
  <1>4. QED
    BY <1>1, <1>2, <1>3

(* The sender's part of a step: the window and what is acknowledged stay,    *)
(* snd_nxt grows up to the window.                                           *)
Pushed(t, s) ==
  /\ GoodTcb(s) /\ SamePlace(t, s) /\ SameReceiver(t, s) /\ s.una = t.una /\ s.wnd = t.wnd
  /\ t.nxt <= s.nxt /\ (s.nxt = t.nxt \/ s.nxt <= t.una + t.wnd) /\ Sent(t) <= Sent(s)

LEMMA DrainPushes ==
  ASSUME NEW h \in Hosts, NEW t, GoodTcb(t), t.state \in Open, NEW r, r = Drain(h, t)
  PROVE  Pushed(t, r.t) /\ \A q \in r.out : Says(q, h, r.t)
  <1> DEFINE fly == InFlight(t)
             limit == Least(t.cwnd, t.wnd)
             size == Least(Pending(t), MSS)
             s == IF t.armed THEN t ELSE Arm(t)
  <1>1. /\ t.una \in Nat /\ t.nxt \in Nat /\ t.una <= t.nxt /\ t.wnd \in Nat /\ t.wnd < BufSize
        /\ t.cwnd \in Nat /\ t.cwnd >= 1 /\ fly \in Nat /\ fly = t.nxt - t.una /\ Pending(t) \in Nat
    BY Sizes
  <1>2. t \in Tcb /\ t.state # "CLOSED" /\ t.persist \in BOOLEAN
    BY Fields DEF GoodTcb, Open
  <1>3. limit \in Nat /\ limit <= t.wnd /\ limit < BufSize
    <2>1. limit \in {t.cwnd, t.wnd} /\ limit <= t.wnd
      BY <1>1, LeastMost
    <2>2. QED
      BY <2>1, <1>1, Given
  <1>4. size \in Nat /\ size <= MSS
    <2>1. size \in {Pending(t), MSS} /\ size <= MSS
      BY <1>1, LeastMost, Given
    <2>2. QED
      BY <2>1, <1>1, Given
  <1>5. Pushed(t, t)
    BY <1>1 DEF Pushed, SamePlace, SameReceiver, Sent
  <1>6. CASE Pending(t) = 0
    <2>1. r = Res(t, {})
      BY <1>6 DEF Drain
    <2>2. QED
      BY <2>1, <1>5 DEF Res
  <1>7. CASE Pending(t) # 0 /\ t.wnd = 0 /\ fly = 0
    <2> DEFINE p == [t EXCEPT !.persist = TRUE]
    <2>1. r = Res(p, {})
      BY <1>7 DEF Drain
    <2>2. TRUE \in BOOLEAN
      OBVIOUS
    <2>3. p \in Tcb
      BY <1>2, <2>2, Zenon DEF Tcb
    <2>4. SamePlace(t, p) /\ SameReceiver(t, p) /\ p.una = t.una /\ p.wnd = t.wnd /\ p.nxt = t.nxt /\ p.persist = TRUE
      BY <1>2, Zenon DEF Tcb, SamePlace, SameReceiver
    <2> HIDE DEF p
    <2>5. GoodTcb(p)
      <3>1. t.una = t.nxt
        BY <1>1, <1>7
      <3>2. t.state \notin Starting
        BY DEF Open, Starting
      <3>3. QED
        BY <1>2, <1>7, <2>3, <2>4, <3>1, <3>2 DEF GoodTcb, SamePlace, SameReceiver
    <2>6. Pushed(t, p)
      BY <1>1, <2>4, <2>5 DEF Pushed, Sent
    <2>7. QED
      BY <2>1, <2>6 DEF Res
  <1>8. CASE Pending(t) # 0 /\ ~(t.wnd = 0 /\ fly = 0) /\ limit <= fly
    <2>1. r = Res(t, {})
      BY <1>8 DEF Drain
    <2>2. QED
      BY <2>1, <1>5 DEF Res
  <1>9. CASE Pending(t) # 0 /\ ~(t.wnd = 0 /\ fly = 0) /\ ~(limit <= fly)
    <2> DEFINE n == t.una + limit
               d == [s EXCEPT !.nxt = n]
               ks == {k \in fly .. limit - 1 : (k - fly) % size = 0}
               out == UNION {Emit(h, From(t, t.una + k), {"A"}, TxBytes(t, Least(size, limit - k))) : k \in ks}
    <2>1. r = Res(d, out)
      BY <1>9 DEF Drain, From
    <2>2. n \in Nat /\ t.nxt < n /\ n <= t.una + t.wnd /\ n - t.una < BufSize
      BY <1>1, <1>3, <1>9
    <2>3. s \in Tcb /\ SamePlace(t, s) /\ SameSender(t, s) /\ SameReceiver(t, s)
      BY <1>2, ArmGood DEF SamePlace, SameSender, SameReceiver, GoodTcb
    <2> HIDE DEF s, n
    <2>4. d \in Tcb
      BY <2>2, <2>3, Zenon DEF Tcb
    <2>5. SamePlace(s, d) /\ SameReceiver(s, d) /\ d.una = s.una /\ d.wnd = s.wnd /\ d.nxt = n /\ d.persist = s.persist
      BY <2>3, Zenon DEF Tcb, SamePlace, SameReceiver
    <2> HIDE DEF d
    <2>6. SamePlace(t, d) /\ SameReceiver(t, d) /\ d.una = t.una /\ d.wnd = t.wnd /\ d.nxt = n /\ d.persist = t.persist
      BY <2>3, <2>5 DEF SamePlace, SameReceiver, SameSender
    <2>7. ~t.persist
      BY <1>1, <1>3, <1>9 DEF GoodTcb
    <2>8. GoodTcb(d)
      <3>1. t.state \notin Starting
        BY DEF Open, Starting
      <3>2. d.una <= d.nxt /\ d.nxt - d.una < BufSize
        BY <1>1, <2>2, <2>6
      <3>3. QED
        BY <1>2, <2>4, <2>6, <2>7, <3>1, <3>2 DEF GoodTcb, SamePlace, SameReceiver
    <2>9. Pushed(t, d)
      BY <1>1, <2>2, <2>6, <2>7, <2>8 DEF Pushed, Sent
    <2>10. ASSUME NEW q \in out PROVE Says(q, h, d)
      <3>1. PICK k \in ks : q \in Emit(h, From(t, t.una + k), {"A"}, TxBytes(t, Least(size, limit - k)))
        BY <2>10
      <3>2. k \in Nat /\ k < limit
        BY <1>1, <1>3, <3>1
      <3> DEFINE m == Least(size, limit - k)
                 b == TxBytes(t, m)
                 a == t.una + k
      <3>3. m \in Nat /\ m <= MSS /\ m <= limit - k
        <4>1. m \in {size, limit - k} /\ m <= size /\ m <= limit - k
          BY <1>3, <1>4, <3>2, LeastMost
        <4>2. QED
          BY <4>1, <1>3, <1>4, <3>2, Given
      <3>4. b \in Seq(Nat) /\ Len(b) = m
        BY <3>3, TxLen
      <3>5. a \in Int /\ a + m <= n
        BY <1>1, <3>2, <3>3, <1>3 DEF n
      <3>6. q = Seg(h, From(t, a), {"A"}, b, NoSack) /\ NoSack \in Int
        BY <3>1 DEF Emit, NoSack
      <3> HIDE DEF a, b, m
      <3>7. {"A"} \in FlagSets
        BY DEF FlagSets
      <3>8. /\ q \in Segment /\ q.from = h /\ q.src = t.lport /\ q.dst = t.rport /\ q.seq = a
            /\ q.ack = t.rnxt /\ q.flags = {"A"} /\ q.wnd = RxWnd(t) /\ q.data = b
        BY <3>4, <3>5, <3>6, <3>7, SegFrom
      <3>9. q.seq + Len(q.data) <= Sent(d) /\ Len(q.data) <= MSS
        BY <2>2, <2>6, <2>7, <3>3, <3>4, <3>5, <3>8 DEF Sent
      <3>10. QED
        BY <2>6, <3>8, <3>9 DEF Says, SamePlace, SameReceiver, RxWnd
    <2>11. QED
      BY <2>1, <2>9, <2>10 DEF Res
  <1>10. QED
    BY <1>6, <1>7, <1>8, <1>9

LEMMA Products ==
  ASSUME NEW a \in Nat, NEW b \in Nat, NEW c \in Nat, c >= 1
  PROVE  (a * b) \div c \in Nat
  <1>1. a * b \in Nat
    OBVIOUS
  <1> DEFINE p == a * b
  <1> HIDE DEF p
  <1>2. p \in Nat
    BY <1>1 DEF p
  <1>3. p \div c \in Nat
    BY <1>2
  <1>4. QED
    BY <1>3 DEF p

LEMMA Halves ==
  ASSUME NEW n \in Nat, n < BufSize
  PROVE  Most(n \div 2, 2 * MSS) \in 1 .. Most(BufSize, 2 * MSS)
  <1> DEFINE k == n \div 2
  <1>1. k \in Nat /\ k <= n
    OBVIOUS
  <1> HIDE DEF k
  <1>2. Most(k, 2 * MSS) \in 1 .. Most(BufSize, 2 * MSS)
    BY <1>1, Given DEF Most
  <1>3. QED
    BY <1>2 DEF k

LEMMA CountDupGood ==
  ASSUME NEW h \in Hosts, NEW t, GoodTcb(t), t.state \in Open, NEW g, GoodSeg(g), NEW r, r = CountDup(h, t, g)
  PROVE  /\ GoodTcb(r.t) /\ SamePlace(t, r.t) /\ SameSender(t, r.t) /\ SameReceiver(t, r.t)
         /\ \A q \in r.out : Says(q, h, r.t)
  <1> DEFINE k == IF g.sack > t.una THEN g.sack ELSE NoSack
             s == [t EXCEPT !.sack = k]
             dup == g.ack = t.una /\ g.data = <<>> /\ InFlight(t) > 0
             half == Most(InFlight(t) \div 2, 2 * MSS)
             n == IF dup THEN Least(s.dups + 1, 4) ELSE IF g.ack # t.una THEN 0 ELSE s.dups
             u == [s EXCEPT !.dups = n]
             v == [u EXCEPT !.ssthresh = half, !.cwnd = half]
  <1>1. r = IF dup /\ u.dups = 3 THEN Res(v, Retransmit(h, u)) ELSE Res(u, {})
    BY DEF CountDup
  <1>2. t \in Tcb /\ t.state # "CLOSED" /\ k \in Int
    BY SegFields DEF GoodTcb, GoodSeg, Open, NoSack
  <1>3. InFlight(t) \in Nat /\ InFlight(t) < BufSize
    BY Sizes DEF GoodTcb
  <1>4. half \in 1 .. Most(BufSize, 2 * MSS)
    BY <1>3, Halves
  <1>5. half \in Nat
    <2> HIDE DEF half
    <2>1. QED
      BY <1>4, Given DEF Most
  <1> HIDE DEF k, half
  <1>6. s \in Tcb /\ s.dups = t.dups
    BY <1>2, Zenon DEF Tcb
  <1>7. SamePlace(t, s) /\ SameSender(t, s) /\ SameReceiver(t, s)
    BY <1>2, Zenon DEF Tcb, SamePlace, SameSender, SameReceiver
  <1> HIDE DEF s
  <1>8. n \in 0 .. 4
    <2> HIDE DEF dup
    <2>1. s.dups \in 0 .. 4
      BY <1>6, Fields
    <2>2. QED
      BY <2>1 DEF Least
  <1> HIDE DEF n
  <1>9. u \in Tcb
    BY <1>6, <1>8, Zenon DEF Tcb
  <1>10. SamePlace(s, u) /\ SameSender(s, u) /\ SameReceiver(s, u)
    BY <1>6, Zenon DEF Tcb, SamePlace, SameSender, SameReceiver
  <1> HIDE DEF u
  <1>11. v \in Tcb
    BY <1>4, <1>5, <1>9, Zenon DEF Tcb
  <1>12. SamePlace(u, v) /\ SameSender(u, v) /\ SameReceiver(u, v)
    BY <1>9, Zenon DEF Tcb, SamePlace, SameSender, SameReceiver
  <1> HIDE DEF v, dup
  <1>13. SamePlace(t, u) /\ SameSender(t, u) /\ SameReceiver(t, u)
    BY <1>7, <1>10 DEF SamePlace, SameSender, SameReceiver
  <1>14. SamePlace(t, v) /\ SameSender(t, v) /\ SameReceiver(t, v)
    BY <1>12, <1>13 DEF SamePlace, SameSender, SameReceiver
  <1>15. GoodTcb(u) /\ GoodTcb(v)
    BY <1>2, <1>9, <1>11, <1>13, <1>14, SameIsGood
  <1>16. CASE r = Res(u, {})
    BY <1>13, <1>15, <1>16 DEF Res
  <1>17. CASE r = Res(v, Retransmit(h, u))
    <2>1. r.t = v /\ r.out = Retransmit(h, u)
      BY <1>17 DEF Res
    <2>2. u.state \in Open
      BY <1>13 DEF SamePlace
    <2>3. \A q \in r.out : Says(q, h, u)
      BY <1>15, <2>1, <2>2, RetransmitSays
    <2>4. QED
      BY <1>12, <1>14, <1>15, <2>1, <2>3, SameSays
  <1>18. QED
    BY <1>1, <1>16, <1>17

(* An ACK moves snd_una to what it acknowledges, and takes its window.       *)
Acked(t, g, s) ==
  /\ GoodTcb(s) /\ SamePlace(t, s) /\ SameReceiver(t, s) /\ Sent(t) <= Sent(s)
  /\ t.una <= s.una /\ s.una <= t.nxt /\ t.nxt <= s.nxt
  /\ \/ SameSender(t, s)
     \/ s.una = g.ack /\ t.una < g.ack /\ s.wnd = g.wnd /\ (s.nxt = t.nxt \/ s.nxt <= g.ack + g.wnd)

LEMMA TakeAckGood ==
  ASSUME NEW h \in Hosts, NEW t, GoodTcb(t), t.state \in Open, NEW g, GoodSeg(g), NEW r, r = TakeAck(h, t, g)
  PROVE  Acked(t, g, r.t) /\ \A q \in r.out : Says(q, h, r.t)
  <1> DEFINE acked == g.ack - t.una
             grown == IF t.cwnd < t.ssthresh THEN t.cwnd + acked
                      ELSE t.cwnd + Most((MSS * acked) \div t.cwnd, 1)
             head == (t.head + acked) % BufSize
             stays == t.persist /\ g.wnd = 0
             cw == Least(grown, BufSize)
             s == [t EXCEPT !.una = g.ack, !.head = head, !.wnd = g.wnd, !.persist = stays, !.cwnd = cw]
             u == IF s.una = s.nxt THEN [s EXCEPT !.armed = FALSE, !.retries = 0] ELSE s
  <1>1. r = IF g.ack > t.una /\ g.ack <= t.nxt THEN Drain(h, u) ELSE Res(t, {})
    BY DEF TakeAck
  <1>2. /\ t.una \in Nat /\ t.nxt \in Nat /\ t.una <= t.nxt /\ t.cwnd \in Nat /\ t.cwnd >= 1
    BY Sizes
  <1>3. t \in Tcb /\ t.state # "CLOSED" /\ t.persist \in BOOLEAN /\ t.head \in 0 .. BufSize - 1 /\ t.ssthresh \in Nat
    BY Fields DEF GoodTcb, Open
  <1>4. g.ack \in Int /\ g.wnd \in 0 .. BufSize - 1
    BY SegFields DEF GoodSeg
  <1>5. CASE ~(g.ack > t.una /\ g.ack <= t.nxt)
    <2>1. r = Res(t, {})
      BY <1>1, <1>5
    <2>2. Acked(t, g, t)
      BY <1>2 DEF Acked, SamePlace, SameReceiver, SameSender, Sent
    <2>3. QED
      BY <2>1, <2>2 DEF Res
  <1>6. CASE g.ack > t.una /\ g.ack <= t.nxt
    <2>1. acked \in Nat /\ acked >= 1 /\ g.ack \in Nat
      BY <1>2, <1>4, <1>6
    <2>2. head \in 0 .. BufSize - 1
      <3> HIDE DEF acked
      <3>1. t.head + acked \in Nat
        BY <1>3, <2>1, Given
      <3>2. QED
        BY <3>1, InRing
    <2>3. grown \in Nat /\ grown >= 1
      <3> HIDE DEF acked
      <3> DEFINE add == (MSS * acked) \div t.cwnd
      <3>1. add \in Nat
        BY <1>2, <2>1, Given, Products
      <3> HIDE DEF add
      <3>2. Most(add, 1) \in Nat
        BY <3>1 DEF Most
      <3>3. grown = IF t.cwnd < t.ssthresh THEN t.cwnd + acked ELSE t.cwnd + Most(add, 1)
        BY DEF add
      <3> HIDE DEF grown
      <3>4. QED
        BY <1>2, <1>3, <2>1, <3>2, <3>3
    <2>4. cw \in 1 .. Most(BufSize, 2 * MSS)
      <3> HIDE DEF grown
      <3>1. QED
        BY <2>3, Given DEF Least, Most
    <2>5. stays \in BOOLEAN
      OBVIOUS
    <2> HIDE DEF head, cw, stays
    <2>6. s \in Tcb
      BY <1>3, <1>4, <2>1, <2>2, <2>4, <2>5, Zenon DEF Tcb
    <2>7. SamePlace(t, s) /\ SameReceiver(t, s) /\ s.una = g.ack /\ s.nxt = t.nxt /\ s.wnd = g.wnd /\ s.persist = stays
      BY <1>3, Zenon DEF Tcb, SamePlace, SameReceiver
    <2> HIDE DEF s
    <2>8. u \in Tcb /\ SamePlace(s, u) /\ SameReceiver(s, u) /\ SameSender(s, u)
      <3>1. FALSE \in BOOLEAN /\ 0 \in 0 .. MaxRetries
        BY Given
      <3>2. CASE s.una = s.nxt
        <4> DEFINE v == [s EXCEPT !.armed = FALSE, !.retries = 0]
        <4>1. v \in Tcb /\ SamePlace(s, v) /\ SameReceiver(s, v) /\ SameSender(s, v)
          BY <2>6, <3>1, Zenon DEF Tcb, SamePlace, SameReceiver, SameSender
        <4>2. u = v
          BY <3>2
        <4>3. QED
          BY <4>1, <4>2
      <3>3. CASE s.una # s.nxt
        BY <2>6, <3>3 DEF SamePlace, SameReceiver, SameSender
      <3>4. QED
        BY <3>2, <3>3
    <2> HIDE DEF u
    <2>9. SamePlace(t, u) /\ SameReceiver(t, u) /\ u.una = g.ack /\ u.nxt = t.nxt /\ u.wnd = g.wnd /\ u.persist = stays
      BY <2>7, <2>8 DEF SamePlace, SameReceiver, SameSender
    <2>10. ~t.persist /\ ~stays
      BY <1>2, <1>4, <1>6 DEF GoodTcb, stays
    <2>11. GoodTcb(u)
      <3>1. t.state \notin Starting
        BY DEF Open, Starting
      <3>2. u.una <= u.nxt /\ u.nxt - u.una < BufSize
        <4>1. t.nxt - t.una < BufSize
          BY DEF GoodTcb
        <4>2. QED
          BY <1>2, <1>4, <1>6, <2>9, <4>1, Given
      <3>3. QED
        BY <1>3, <2>8, <2>9, <2>10, <3>1, <3>2 DEF GoodTcb, SamePlace, SameReceiver
    <2>12. r = Drain(h, u) /\ u.state \in Open
      BY <1>1, <1>6, <2>9 DEF SamePlace
    <2>13. Pushed(u, r.t) /\ \A q \in r.out : Says(q, h, r.t)
      BY <2>11, <2>12, DrainPushes
    <2>14. Sent(u) = Sent(t)
      BY <2>9, <2>10 DEF Sent
    <2>15. Acked(t, g, r.t)
      BY <1>2, <1>4, <1>6, <2>9, <2>13, <2>14 DEF Pushed, Acked, SamePlace, SameReceiver
    <2>16. QED
      BY <2>13, <2>15
  <1>7. QED
    BY <1>5, <1>6

-----------------------------------------------------------------------------
(* The receiver: RxInline, Park, DrainOoo, TakeData.                         *)

(* What t has received, and keeps for later, ends at b. *)
Within(t, b) == t.rnxt <= b /\ \A o \in t.ooo : o.seq + Len(o.data) <= b

(* The receiver's part of a step, fed with bytes that end at e. *)
Taken(t, e, s) ==
  /\ GoodTcb(s) /\ SamePlace(t, s) /\ SameSender(t, s) /\ t.rnxt <= s.rnxt /\ Edge(s) = Edge(t)
  /\ \A b \in Int : Within(t, b) /\ e <= b => Within(s, b)

LEMMA NothingTaken == ASSUME NEW t, GoodTcb(t), NEW e \in Int PROVE Taken(t, e, t)
  <1>1. t.rnxt \in Nat
    BY Sizes
  <1>2. QED
    BY <1>1 DEF Taken, SamePlace, SameSender

LEMMA ParkedLen == ASSUME NEW t, GoodTcb(t), NEW o \in t.ooo PROVE o.seq \in Int /\ o.data \in Seq(Nat) /\ Len(o.data) \in Nat
  <1>1. o \in Parked
    BY Fields DEF GoodTcb
  <1>2. o.seq \in Int /\ o.data \in Seq(Nat)
    BY <1>1 DEF Parked
  <1>3. QED
    BY <1>2, LenProperties

LEMMA RxInlineTakes ==
  ASSUME NEW t, GoodTcb(t), t.state \in Open, NEW d \in Seq(Nat), NEW s, s = RxInline(t, d)
  PROVE  Taken(t, t.rnxt + Len(d), s) /\ s.ooo = t.ooo
  <1> DEFINE put == Least(Len(d), RxWnd(t))
             part == SubSeq(d, 1, put)
             rx == t.rx \o part
             n == t.rnxt + put
  <1>1. t.rnxt \in Nat /\ Len(t.rx) \in Nat /\ RxWnd(t) \in Nat /\ RxWnd(t) = BufSize - 1 - Len(t.rx)
    BY Sizes
  <1>2. t \in Tcb /\ t.rx \in Seq(Nat) /\ t.state # "CLOSED" /\ t.state \notin Starting
    BY Fields DEF GoodTcb, Open, Starting
  <1>3. Len(d) \in Nat
    BY LenProperties
  <1>4. put \in Nat /\ put <= Len(d) /\ put <= RxWnd(t)
    <2>1. put \in {Len(d), RxWnd(t)} /\ put <= Len(d) /\ put <= RxWnd(t)
      BY <1>1, <1>3, LeastMost
    <2>2. QED
      BY <2>1, <1>1, <1>3
  <1>5. s = [t EXCEPT !.rx = rx, !.rnxt = n]
    BY DEF RxInline
  <1> HIDE DEF put
  <1>6. part \in Seq(Nat) /\ Len(part) = put
    BY <1>3, <1>4
  <1> HIDE DEF part
  <1>7. rx \in Seq(Nat) /\ Len(rx) = Len(t.rx) + put
    BY <1>2, <1>6, ConcatProperties
  <1>8. n \in Nat /\ n >= t.rnxt /\ n <= t.rnxt + Len(d)
    BY <1>1, <1>3, <1>4
  <1>9. Len(rx) < BufSize /\ n + (BufSize - 1 - Len(rx)) = t.rnxt + RxWnd(t)
    <2> DEFINE a == Len(t.rx)  b == Len(rx)  w == RxWnd(t)  r == t.rnxt
    <2>1. a \in Nat /\ b = a + put /\ w = BufSize - 1 - a /\ put \in Nat /\ put <= w /\ r \in Nat /\ n = r + put
      BY <1>1, <1>4, <1>7
    <2> HIDE DEF a, b, rx, w, r, n
    <2>2. b < BufSize /\ n + (BufSize - 1 - b) = r + w
      BY <2>1, Given
    <2>3. QED
      BY <2>2 DEF b, r, w
  <1> HIDE DEF rx, n
  <1>10. s \in Tcb
    BY <1>2, <1>5, <1>7, <1>8, Zenon DEF Tcb
  <1>11. SamePlace(t, s) /\ SameSender(t, s) /\ s.rx = rx /\ s.rnxt = n /\ s.ooo = t.ooo
    BY <1>2, <1>5, Zenon DEF Tcb, SamePlace, SameSender
  <1>12. GoodTcb(s)
    BY <1>2, <1>9, <1>10, <1>11 DEF GoodTcb, SamePlace, SameSender
  <1>13. Edge(s) = Edge(t)
    <2>1. RxWnd(s) = BufSize - 1 - Len(rx)
      BY <1>11 DEF RxWnd
    <2>2. Edge(s) = n + (BufSize - 1 - Len(rx))
      BY <2>1, <1>11 DEF Edge
    <2>3. QED
      BY <2>2, <1>9 DEF Edge
  <1>14. ASSUME NEW b \in Int, Within(t, b), t.rnxt + Len(d) <= b PROVE Within(s, b)
    <2>1. n <= b
      BY <1>1, <1>3, <1>8, <1>14
    <2>2. QED
      BY <2>1, <1>11, <1>14 DEF Within
  <1>15. QED
    BY <1>1, <1>8, <1>11, <1>12, <1>13, <1>14 DEF Taken

LEMMA ParkTakes ==
  ASSUME NEW t, GoodTcb(t), t.state \in Open, NEW g, GoodSeg(g), NEW s, s = Park(t, g)
  PROVE  Taken(t, g.seq + Len(g.data), s)
  <1> DEFINE o == [seq |-> g.seq, data |-> g.data]
             more == t.ooo \cup {o}
  <1>1. g.seq \in Int /\ g.data \in Seq(Nat)
    BY SegFields DEF GoodSeg
  <1>2. o \in Parked /\ o.seq = g.seq /\ o.data = g.data
    BY <1>1 DEF Parked
  <1>3. t \in Tcb /\ t.state # "CLOSED" /\ t.state \notin Starting /\ t.ooo \subseteq Parked
    BY Fields DEF GoodTcb, Open, Starting
  <1>4. Len(g.data) \in Nat
    BY <1>1, LenProperties
  <1>5. CASE s = t
    BY <1>1, <1>4, <1>5, NothingTaken
  <1>6. CASE Cardinality(t.ooo) # 2 /\ s = [t EXCEPT !.ooo = more]
    <2> HIDE DEF o
    <2>1. more \in SUBSET Parked
      BY <1>2, <1>3
    <2>2. IsFiniteSet(more) /\ Cardinality(more) <= 2
      <3>1. IsFiniteSet(t.ooo) /\ Cardinality(t.ooo) <= 2
        BY DEF GoodTcb
      <3>2. Cardinality(t.ooo) \in Nat
        BY <3>1, FS_CardinalityType
      <3>3. IsFiniteSet(more) /\ (Cardinality(more) = Cardinality(t.ooo) \/ Cardinality(more) = Cardinality(t.ooo) + 1)
        BY <3>1, FS_AddElement
      <3>4. QED
        BY <1>6, <3>1, <3>2, <3>3
    <2> HIDE DEF more
    <2>3. s \in Tcb
      BY <1>3, <1>6, <2>1, Zenon DEF Tcb
    <2>4. SamePlace(t, s) /\ SameSender(t, s) /\ s.rx = t.rx /\ s.rnxt = t.rnxt /\ s.ooo = more
      BY <1>3, <1>6, Zenon DEF Tcb, SamePlace, SameSender
    <2>5. GoodTcb(s)
      BY <1>3, <2>2, <2>3, <2>4 DEF GoodTcb, SamePlace, SameSender
    <2>6. Edge(s) = Edge(t)
      BY <2>4 DEF Edge, RxWnd
    <2>7. ASSUME NEW b \in Int, Within(t, b), g.seq + Len(g.data) <= b PROVE Within(s, b)
      BY <1>2, <2>4, <2>7 DEF Within, more
    <2>8. t.rnxt <= s.rnxt
      <3>1. t.rnxt \in Nat
        BY Sizes
      <3>2. QED
        BY <3>1, <2>4
    <2>9. QED
      BY <2>4, <2>5, <2>6, <2>7, <2>8 DEF Taken
  <1>7. QED
    BY <1>5, <1>6 DEF Park

LEMMA DrainOneTakes ==
  ASSUME NEW t, GoodTcb(t), t.state \in Open, NEW s, s = DrainOne(t)
  PROVE  Taken(t, t.rnxt, s)
  <1>1. t.rnxt \in Nat
    BY Sizes
  <1>2. CASE ~\E o \in t.ooo : o.seq = t.rnxt
    BY <1>1, <1>2, NothingTaken DEF DrainOne
  <1>3. CASE \E o \in t.ooo : o.seq = t.rnxt
    <2> DEFINE o == CHOOSE o \in t.ooo : o.seq = t.rnxt
               less == t.ooo \ {o}
               u == [t EXCEPT !.ooo = less]
    <2>1. s = RxInline(u, o.data)
      BY <1>3 DEF DrainOne
    <2>2. o \in t.ooo /\ o.seq = t.rnxt
      BY <1>3
    <2> HIDE DEF o
    <2>3. o.data \in Seq(Nat) /\ Len(o.data) \in Nat
      BY <2>2, ParkedLen
    <2>4. t \in Tcb /\ t.state # "CLOSED" /\ t.state \notin Starting /\ t.ooo \subseteq Parked
      BY Fields DEF GoodTcb, Open, Starting
    <2>5. less \in SUBSET Parked /\ less \subseteq t.ooo
      BY <2>4
    <2>6. IsFiniteSet(less) /\ Cardinality(less) <= 2
      <3>1. IsFiniteSet(t.ooo) /\ Cardinality(t.ooo) <= 2
        BY DEF GoodTcb
      <3>2. Cardinality(t.ooo) \in Nat
        BY <3>1, FS_CardinalityType
      <3>3. IsFiniteSet(less) /\ (Cardinality(less) = Cardinality(t.ooo) \/ Cardinality(less) = Cardinality(t.ooo) - 1)
        BY <3>1, FS_RemoveElement
      <3>4. QED
        BY <3>1, <3>2, <3>3
    <2> HIDE DEF less
    <2>7. u \in Tcb
      BY <2>4, <2>5, Zenon DEF Tcb
    <2>8. SamePlace(t, u) /\ SameSender(t, u) /\ u.rx = t.rx /\ u.rnxt = t.rnxt /\ u.ooo = less
      BY <2>4, Zenon DEF Tcb, SamePlace, SameSender
    <2> HIDE DEF u
    <2>9. GoodTcb(u) /\ u.state \in Open
      BY <2>4, <2>6, <2>7, <2>8 DEF GoodTcb, SamePlace, SameSender
    <2>10. Taken(u, u.rnxt + Len(o.data), s)
      BY <2>1, <2>3, <2>9, RxInlineTakes
    <2>11. Edge(u) = Edge(t)
      BY <2>8 DEF Edge, RxWnd
    <2>12. ASSUME NEW b \in Int, Within(t, b) PROVE Within(s, b)
      <3>1. o.seq + Len(o.data) <= b
        BY <2>2, <2>12 DEF Within
      <3>2. Within(u, b) /\ u.rnxt + Len(o.data) <= b
        BY <2>2, <2>5, <2>8, <2>12, <3>1 DEF Within
      <3>3. QED
        BY <2>10, <3>2 DEF Taken
    <2>13. QED
      BY <2>8, <2>10, <2>11, <2>12 DEF Taken, SamePlace, SameSender
  <1>4. QED
    BY <1>2, <1>3

(* One after the other. *)
LEMMA TakenTwice ==
  ASSUME NEW t, NEW u, NEW s, NEW e \in Int, NEW f \in Int, Taken(t, e, u), Taken(u, f, s), GoodTcb(t),
         \A b \in Int : Within(u, b) /\ e <= b => f <= b
  PROVE  Taken(t, e, s)
  <1>1. SamePlace(t, s) /\ SameSender(t, s) /\ GoodTcb(s) /\ Edge(s) = Edge(t)
    BY DEF Taken, SamePlace, SameSender
  <1>2. t.rnxt <= s.rnxt
    <2>1. t.rnxt \in Nat /\ u.rnxt \in Nat /\ s.rnxt \in Nat
      BY Sizes DEF Taken
    <2>2. QED
      BY <2>1 DEF Taken
  <1>3. QED
    BY <1>1, <1>2 DEF Taken

LEMMA DrainOooTakes ==
  ASSUME NEW t, GoodTcb(t), t.state \in Open, NEW s, s = DrainOoo(t)
  PROVE  Taken(t, t.rnxt, s)
  <1> DEFINE u == DrainOne(t)
  <1>1. Taken(t, t.rnxt, u)
    BY DrainOneTakes
  <1>2. s = DrainOne(u)
    BY DEF DrainOoo
  <1> HIDE DEF u
  <1>3. GoodTcb(u) /\ u.state \in Open
    BY <1>1 DEF Taken, SamePlace
  <1>4. Taken(u, u.rnxt, s)
    BY <1>2, <1>3, DrainOneTakes
  <1>5. t.rnxt \in Int /\ u.rnxt \in Int
    BY <1>3, Sizes
  <1>6. QED
    BY <1>1, <1>4, <1>5, TakenTwice DEF Within

(* Of at most two parked segments one is the first. *)
LEMMA FirstParked ==
  ASSUME NEW t, GoodTcb(t), t.ooo # {}
  PROVE  \E o \in t.ooo : \A q \in t.ooo : o.seq <= q.seq
  <1>1. PICK a \in t.ooo : TRUE
    OBVIOUS
  <1> DEFINE rest == t.ooo \ {a}
  <1>2. IsFiniteSet(t.ooo) /\ Cardinality(t.ooo) <= 2 /\ Cardinality(t.ooo) \in Nat
    BY FS_CardinalityType DEF GoodTcb
  <1>3. IsFiniteSet(rest) /\ Cardinality(rest) = Cardinality(t.ooo) - 1
    BY <1>2, FS_RemoveElement
  <1>4. \A o \in t.ooo : o.seq \in Int
    BY ParkedLen
  <1>5. CASE rest = {}
    <2>1. t.ooo = {a}
      BY <1>5
    <2>2. QED
      BY <1>4, <2>1
  <1>6. CASE rest # {}
    <2>1. PICK b \in rest : TRUE
      BY <1>6
    <2>2. IsFiniteSet(rest \ {b}) /\ Cardinality(rest \ {b}) = Cardinality(rest) - 1
      BY <1>3, <2>1, FS_RemoveElement
    <2>3. Cardinality(rest \ {b}) = 0
      <3>1. Cardinality(rest \ {b}) \in Nat
        BY <2>2, FS_CardinalityType
      <3>2. QED
        BY <1>2, <1>3, <2>2, <3>1
    <2>4. rest \ {b} = {}
      BY <2>2, <2>3, FS_EmptySet
    <2>5. t.ooo = {a, b}
      BY <2>1, <2>4
    <2>6. a.seq \in Int /\ b.seq \in Int
      BY <1>4, <2>5
    <2>7. CASE a.seq <= b.seq
      BY <2>5, <2>6, <2>7
    <2>8. CASE b.seq <= a.seq
      BY <2>5, <2>6, <2>8
    <2>9. QED
      BY <2>6, <2>7, <2>8
  <1>7. QED
    BY <1>5, <1>6

(* An ACK without data: it says where t is. *)
LEMMA SaysWhere ==
  ASSUME NEW h \in Hosts, NEW t, GoodTcb(t), NEW k \in Int, NEW q, q = Seg(h, t, {"A"}, <<>>, k)
  PROVE  Says(q, h, t)
  <1>1. t \in Tcb /\ t.nxt \in Int /\ t.nxt <= Sent(t)
    BY Sizes DEF GoodTcb, Sent
  <1> DEFINE n == t.nxt  none == <<>>
  <1>2. t = From(t, n)
    BY <1>1, SameNxt
  <1>3. none \in Seq(Nat) /\ Len(none) = 0
    OBVIOUS
  <1>4. q = Seg(h, From(t, n), {"A"}, none, k)
    BY <1>2
  <1>5. Len(none) <= MSS /\ n + Len(none) <= Sent(t) /\ n \in Int
    BY <1>1, <1>3, Given
  <1> HIDE DEF n, none
  <1>6. QED
    BY <1>3, <1>4, <1>5, SpeaksAt

LEMMA SackSays ==
  ASSUME NEW h \in Hosts, NEW t, GoodTcb(t)
  PROVE  \A q \in EmitSackAck(h, t) : Says(q, h, t)
  <1> DEFINE k == IF t.ooo = {} THEN NoSack ELSE (CHOOSE o \in t.ooo : \A q \in t.ooo : o.seq <= q.seq).seq
  <1>1. k \in Int
    <2>1. CASE t.ooo = {}
      BY <2>1 DEF NoSack
    <2>2. CASE t.ooo # {}
      BY <2>2, FirstParked, ParkedLen
    <2>3. QED
      BY <2>1, <2>2
  <1>2. EmitSackAck(h, t) = {Seg(h, t, {"A"}, <<>>, k)}
    BY DEF EmitSackAck
  <1> HIDE DEF k
  <1>3. QED
    BY <1>1, <1>2, SaysWhere

LEMMA TakeDataTakes ==
  ASSUME NEW h \in Hosts, NEW t, GoodTcb(t), t.state \in Open, NEW g, GoodSeg(g), NEW r, r = TakeData(h, t, g)
  PROVE  Taken(t, g.seq + Len(g.data), r.t) /\ \A q \in r.out : Says(q, h, r.t)
  <1> DEFINE e == g.seq + Len(g.data)
             u == RxInline(t, g.data)
             s == IF g.seq = t.rnxt THEN DrainOoo(u) ELSE Park(t, g)
  <1>1. r = IF g.data = <<>> \/ g.seq < t.rnxt THEN Res(t, {}) ELSE Res(s, EmitSackAck(h, s))
    BY DEF TakeData
  <1>2. g.seq \in Int /\ g.data \in Seq(Nat) /\ Len(g.data) \in Nat
    BY SegFields, LenProperties DEF GoodSeg
  <1>3. Taken(t, e, s)
    <2>1. CASE g.seq # t.rnxt
      BY <2>1, ParkTakes
    <2>2. CASE g.seq = t.rnxt
      <3>1. Taken(t, t.rnxt + Len(g.data), u)
        BY <1>2, RxInlineTakes
      <3>2. s = DrainOoo(u)
        BY <2>2
      <3> HIDE DEF u
      <3>3. GoodTcb(u) /\ u.state \in Open
        BY <3>1 DEF Taken, SamePlace
      <3>4. Taken(u, u.rnxt, s)
        BY <3>2, <3>3, DrainOooTakes
      <3>5. e \in Int /\ u.rnxt \in Int /\ Taken(t, e, u)
        BY <1>2, <2>2, <3>1, <3>3, Sizes
      <3> HIDE DEF e, s
      <3>6. QED
        BY <3>4, <3>5, TakenTwice DEF Within
    <2>3. QED
      BY <2>1, <2>2
  <1> HIDE DEF s
  <1>4. CASE r = Res(t, {})
    BY <1>2, <1>4, NothingTaken DEF Res
  <1>5. CASE r = Res(s, EmitSackAck(h, s))
    <2>1. GoodTcb(s)
      BY <1>3 DEF Taken
    <2>2. QED
      BY <1>3, <1>5, <2>1, SackSays DEF Res
  <1>6. QED
    BY <1>1, <1>4, <1>5

-----------------------------------------------------------------------------
(* A segment in ESTABLISHED and later.                                       *)

(* What t has said fits what t is now. *)
Fits(q, t) ==
  /\ q.seq + Len(q.data) <= Sent(t)
  /\ q.ack <= t.rnxt /\ q.ack + q.wnd <= Edge(t) /\ "F" \notin q.flags
Told(q, h, t) ==
  /\ GoodSeg(q) /\ q.from = h /\ q.src = t.lport /\ q.dst = t.rport /\ q.flags = {"A"} /\ Fits(q, t)

Later(t, s) ==
  /\ s.lport = t.lport /\ s.rport = t.rport
  /\ Sent(t) <= Sent(s) /\ t.rnxt <= s.rnxt /\ Edge(t) <= Edge(s)

LEMMA Totals ==
  ASSUME NEW t, GoodTcb(t)
  PROVE  Sent(t) \in Nat /\ Edge(t) \in Nat /\ t.nxt <= Sent(t) /\ Edge(t) = t.rnxt + RxWnd(t)
  <1>1. t.nxt \in Nat /\ t.rnxt \in Nat /\ RxWnd(t) \in Nat
    BY Sizes
  <1>2. QED
    BY <1>1 DEF Sent, Edge

LEMMA SegSizes ==
  ASSUME NEW g, GoodSeg(g)
  PROVE  g.seq \in Int /\ g.ack \in Int /\ g.wnd \in Nat /\ g.wnd < BufSize /\ Len(g.data) \in Nat /\ g.data \in Seq(Nat)
  <1>1. g.seq \in Int /\ g.ack \in Int /\ g.wnd \in 0 .. BufSize - 1 /\ g.data \in Seq(Nat)
    BY SegFields DEF GoodSeg
  <1>2. g.wnd \in Nat /\ g.wnd < BufSize
    BY <1>1, Given
  <1>3. QED
    BY <1>1, <1>2, LenProperties

LEMMA SaysTold ==
  ASSUME NEW h, NEW t, GoodTcb(t), NEW q, Says(q, h, t)
  PROVE  Told(q, h, t)
  <1>1. t.rnxt \in Nat /\ RxWnd(t) \in Nat
    BY Sizes
  <1>2. QED
    BY <1>1, SaysGood DEF Says, Told, Fits, Edge

LEMMA FitsLater ==
  ASSUME NEW t, GoodTcb(t), NEW s, GoodTcb(s), Later(t, s), NEW q, GoodSeg(q), Fits(q, t)
  PROVE  Fits(q, s)
  <1>1. /\ Sent(t) \in Nat /\ Sent(s) \in Nat /\ Edge(t) \in Nat /\ Edge(s) \in Nat
        /\ t.rnxt \in Nat /\ s.rnxt \in Nat
    BY Totals, Sizes
  <1> DEFINE e == q.seq + Len(q.data)  f == q.ack + q.wnd
  <1>2. e \in Int /\ f \in Int /\ q.ack \in Int
    BY SegSizes
  <1>3. e <= Sent(t) /\ q.ack <= t.rnxt /\ f <= Edge(t) /\ "F" \notin q.flags
    BY DEF Fits
  <1> HIDE DEF e, f
  <1>4. e <= Sent(s) /\ q.ack <= s.rnxt /\ f <= Edge(s)
    BY <1>1, <1>2, <1>3 DEF Later
  <1>5. QED
    BY <1>3, <1>4 DEF Fits, e, f

LEMMA ToldLater ==
  ASSUME NEW h, NEW t, GoodTcb(t), NEW s, GoodTcb(s), Later(t, s), NEW q, Told(q, h, t)
  PROVE  Told(q, h, s)
  BY FitsLater DEF Told, Later

(* What a segment does to a connection that is open, but for its FIN.        *)
Body(h, t, g) ==
  LET r1 == CountDup(h, t, g)
      r2 == TakeAck(h, r1.t, g)
      r3 == TakeData(h, r2.t, g)
  IN Res(r3.t, r1.out \cup r2.out \cup r3.out)

Moved(t, g, s) ==
  /\ GoodTcb(s) /\ SamePlace(t, s) /\ Later(t, s) /\ Edge(s) = Edge(t)
  /\ t.una <= s.una /\ s.una <= t.nxt /\ t.nxt <= s.nxt
  /\ \/ SameSender(t, s)
     \/ s.una = g.ack /\ t.una < g.ack /\ s.wnd = g.wnd /\ (s.nxt = t.nxt \/ s.nxt <= g.ack + g.wnd)
  /\ \A b \in Int : Within(t, b) /\ g.seq + Len(g.data) <= b => Within(s, b)

LEMMA BodyMoves ==
  ASSUME NEW h \in Hosts, NEW t, GoodTcb(t), t.state \in Open, NEW g, GoodSeg(g), NEW r, r = Body(h, t, g)
  PROVE  Moved(t, g, r.t) /\ \A q \in r.out : Told(q, h, r.t)
  <1> DEFINE r1 == CountDup(h, t, g)
             r2 == TakeAck(h, r1.t, g)
             r3 == TakeData(h, r2.t, g)
  <1>1. r.t = r3.t /\ r.out = r1.out \cup r2.out \cup r3.out
    BY DEF Body, Res
  <1>2. /\ GoodTcb(r1.t) /\ SamePlace(t, r1.t) /\ SameSender(t, r1.t) /\ SameReceiver(t, r1.t)
        /\ \A q \in r1.out : Says(q, h, r1.t)
    BY CountDupGood
  <1> HIDE DEF r1
  <1>3. r1.t.state \in Open
    BY <1>2 DEF SamePlace
  <1>4. Acked(r1.t, g, r2.t) /\ \A q \in r2.out : Says(q, h, r2.t)
    BY <1>2, <1>3, TakeAckGood
  <1> HIDE DEF r2
  <1>5. GoodTcb(r2.t) /\ r2.t.state \in Open
    BY <1>3, <1>4 DEF Acked, SamePlace
  <1>6. Taken(r2.t, g.seq + Len(g.data), r3.t) /\ \A q \in r3.out : Says(q, h, r3.t)
    BY <1>5, TakeDataTakes
  <1> HIDE DEF r3
  <1>7. GoodTcb(r3.t) /\ SamePlace(t, r3.t)
    BY <1>2, <1>4, <1>6 DEF Acked, Taken, SamePlace
  <1>8. Sent(t) = Sent(r1.t) /\ Sent(r2.t) = Sent(r3.t) /\ Sent(r1.t) <= Sent(r2.t)
    BY <1>2, <1>4, <1>6 DEF Sent, SameSender, Acked, Taken
  <1>9. Edge(t) = Edge(r1.t) /\ Edge(r1.t) = Edge(r2.t) /\ Edge(r2.t) = Edge(r3.t)
    BY <1>2, <1>4, <1>6 DEF Edge, RxWnd, SameReceiver, Acked, Taken
  <1>10. r1.t.rnxt = t.rnxt /\ r2.t.rnxt = t.rnxt /\ r2.t.rnxt <= r3.t.rnxt
    BY <1>2, <1>4, <1>6 DEF SameReceiver, Acked, Taken
  <1>11. /\ Edge(t) \in Nat /\ Edge(r3.t) \in Nat /\ Edge(r2.t) \in Nat /\ t.rnxt \in Nat
         /\ Sent(t) \in Nat /\ Sent(r2.t) \in Nat
    BY <1>5, <1>7, Totals, Sizes
  <1>12. Later(t, r3.t) /\ Later(r1.t, r3.t) /\ Later(r2.t, r3.t)
    BY <1>2, <1>4, <1>6, <1>8, <1>9, <1>10, <1>11 DEF Later, SamePlace, Acked, Taken
  <1>13. /\ t.una <= r3.t.una /\ r3.t.una <= t.nxt /\ t.nxt <= r3.t.nxt
         /\ \/ SameSender(t, r3.t)
            \/ r3.t.una = g.ack /\ t.una < g.ack /\ r3.t.wnd = g.wnd /\ (r3.t.nxt = t.nxt \/ r3.t.nxt <= g.ack + g.wnd)
    BY <1>2, <1>4, <1>6 DEF SameSender, Acked, Taken
  <1>14. ASSUME NEW b \in Int, Within(t, b), g.seq + Len(g.data) <= b PROVE Within(r3.t, b)
    <2>1. Within(r2.t, b)
      BY <1>2, <1>4, <1>14 DEF Within, SameReceiver, Acked
    <2>2. QED
      BY <1>6, <1>14, <2>1 DEF Taken
  <1>15. Moved(t, g, r3.t)
    BY <1>7, <1>9, <1>12, <1>13, <1>14 DEF Moved
  <1>16. ASSUME NEW q \in r.out PROVE Told(q, h, r3.t)
    <2>1. CASE q \in r1.out
      BY <1>2, <1>7, <1>12, <2>1, SaysTold, ToldLater
    <2>2. CASE q \in r2.out
      BY <1>4, <1>5, <1>7, <1>12, <2>2, SaysTold, ToldLater
    <2>3. CASE q \in r3.out
      BY <1>6, <1>7, <2>3, SaysTold
    <2>4. QED
      BY <1>1, <1>16, <2>1, <2>2, <2>3
  <1>17. QED
    BY <1>1, <1>15, <1>16

(* The FIN of the peer ends what comes from it. *)
Finned(t, n, st) == [t EXCEPT !.rnxt = n, !.state = st]

LEMMA FinMoves ==
  ASSUME NEW t, GoodTcb(t), NEW n \in Nat, NEW st \in States, st \notin Starting,
         st \in Open => t.state \in Open, NEW s, s = Finned(t, n, st)
  PROVE  GoodTcb(s) /\ s.state = st /\ s.lport = t.lport /\ s.rport = t.rport /\ SameSender(t, s)
         /\ s.rnxt = n /\ s.ooo = t.ooo /\ s.rx = t.rx
  <1>1. t \in Tcb
    BY DEF GoodTcb
  <1>2. s \in Tcb
    BY <1>1, Zenon DEF Tcb, Finned
  <1>3. /\ s.state = st /\ s.lport = t.lport /\ s.rport = t.rport /\ SameSender(t, s)
        /\ s.rnxt = n /\ s.ooo = t.ooo /\ s.rx = t.rx
    BY <1>1, Zenon DEF Tcb, SameSender, Finned
  <1>4. QED
    BY <1>2, <1>3 DEF GoodTcb, SameSender, Starting

LEMMA TakeFinGood ==
  ASSUME NEW h \in Hosts, NEW t, GoodTcb(t), t.state \in Open, NEW g, GoodSeg(g), NEW r, r = TakeFin(h, t, g)
  PROVE  /\ GoodTcb(r.t) /\ r.t.state \in Open /\ r.t.lport = t.lport /\ r.t.rport = t.rport /\ SameSender(t, r.t)
         /\ r.t.ooo = t.ooo
         /\ \/ r.t = t /\ r.out = {}
            \/ "F" \in g.flags /\ r.t.rnxt = g.seq + Len(g.data) + 1
         /\ \A q \in r.out : Told(q, h, r.t)
  <1> DEFINE n == g.seq + Len(g.data) + 1
             s == Finned(t, n, "CLOSE_WAIT")
  <1>1. CASE "F" \in g.flags /\ t.state = "ESTABLISHED"
    <2>1. r = Res(s, Emit(h, s, {"A"}, <<>>))
      BY <1>1 DEF TakeFin, Finned
    <2>2. n \in Nat
      <3>1. g.seq \in Nat /\ Len(g.data) \in Nat
        BY <1>1, SegSizes DEF GoodSeg
      <3>2. QED
        BY <3>1
    <2>3. "CLOSE_WAIT" \in States /\ "CLOSE_WAIT" \notin Starting /\ "CLOSE_WAIT" \in Open
      BY DEF States, Starting, Open
    <2> HIDE DEF n
    <2>4. /\ GoodTcb(s) /\ s.state = "CLOSE_WAIT" /\ s.lport = t.lport /\ s.rport = t.rport /\ SameSender(t, s)
          /\ s.rnxt = n /\ s.ooo = t.ooo
      BY <2>2, <2>3, FinMoves
    <2> HIDE DEF s
    <2>5. \A q \in r.out : q = Seg(h, s, {"A"}, <<>>, NoSack)
      BY <2>1 DEF Emit, Res
    <2>6. \A q \in r.out : Told(q, h, s)
      BY <2>4, <2>5, SaysWhere, SaysTold DEF NoSack
    <2>7. QED
      BY <1>1, <2>1, <2>3, <2>4, <2>6 DEF Res, n
  <1>2. CASE ~("F" \in g.flags /\ t.state = "ESTABLISHED")
    <2>1. r = Res(t, {})
      BY <1>2 DEF TakeFin
    <2>2. QED
      BY <2>1 DEF Res, SameSender
  <1>3. QED
    BY <1>1, <1>2

LEMMA OnOpenIs ==
  ASSUME NEW h, NEW t, NEW g
  PROVE  /\ OnOpen(h, t, g).t = TakeFin(h, Body(h, t, g).t, g).t
         /\ OnOpen(h, t, g).out = Body(h, t, g).out \cup TakeFin(h, Body(h, t, g).t, g).out
  BY Zenon DEF OnOpen, Body, Res

(* FIN_WAIT_1 and FIN_WAIT_2: t as it is, or in another closing state.       *)
Wound(t, g, s) ==
  /\ GoodTcb(s) /\ s.state \in Closing /\ s.lport = t.lport /\ s.rport = t.rport /\ SameSender(t, s)
  /\ s.ooo = t.ooo
  /\ \/ s.rnxt = t.rnxt
     \/ "F" \in g.flags /\ s.rnxt = g.seq + 1

LEMMA OnLastFinGood ==
  ASSUME NEW h \in Hosts, NEW t, GoodTcb(t), t.state \in Closing, NEW g, GoodSeg(g), NEW r, r = OnLastFin(h, t, g)
  PROVE  Wound(t, g, r.t) /\ \A q \in r.out : Told(q, h, r.t)
  <1> DEFINE n == g.seq + 1
             s == Finned(t, n, "TIME_WAIT")
  <1>1. CASE "F" \in g.flags
    <2>1. r = Res(s, Emit(h, s, {"A"}, <<>>))
      BY <1>1 DEF OnLastFin, Finned
    <2>2. n \in Nat
      <3>1. g.seq \in Nat
        BY <1>1 DEF GoodSeg
      <3>2. QED
        BY <3>1
    <2>3. "TIME_WAIT" \in States /\ "TIME_WAIT" \notin Starting /\ "TIME_WAIT" \notin Open /\ "TIME_WAIT" \in Closing
      BY DEF States, Starting, Open, Closing
    <2> HIDE DEF n
    <2>4. /\ GoodTcb(s) /\ s.state = "TIME_WAIT" /\ s.lport = t.lport /\ s.rport = t.rport /\ SameSender(t, s)
          /\ s.rnxt = n /\ s.ooo = t.ooo
      BY <2>2, <2>3, FinMoves
    <2> HIDE DEF s
    <2>5. \A q \in r.out : q = Seg(h, s, {"A"}, <<>>, NoSack)
      BY <2>1 DEF Emit, Res
    <2>6. \A q \in r.out : Told(q, h, s)
      BY <2>4, <2>5, SaysWhere, SaysTold DEF NoSack
    <2>7. QED
      BY <1>1, <2>1, <2>3, <2>4, <2>6 DEF Res, n, Wound
  <1>2. CASE "F" \notin g.flags
    <2>1. r = Res(t, {})
      BY <1>2 DEF OnLastFin
    <2>2. r.t = t /\ r.out = {}
      BY <2>1 DEF Res
    <2>3. Wound(t, g, t)
      BY DEF SameSender, Wound
    <2>4. QED
      BY <2>2, <2>3
  <1>3. QED
    BY <1>1, <1>2

LEMMA OnFinWait1Good ==
  ASSUME NEW h \in Hosts, NEW t, GoodTcb(t), t.state = "FIN_WAIT_1", NEW g, GoodSeg(g), NEW r, r = OnFinWait1(h, t, g)
  PROVE  Wound(t, g, r.t) /\ \A q \in r.out : Told(q, h, r.t)
  <1> DEFINE s == IF "A" \in g.flags THEN [t EXCEPT !.state = "FIN_WAIT_2"] ELSE t
  <1>1. GoodTcb(s) /\ s.state \in Closing /\ s.lport = t.lport /\ s.rport = t.rport /\ SameSender(t, s)
        /\ s.ooo = t.ooo /\ s.rnxt = t.rnxt
    <2>1. "FIN_WAIT_2" \in States /\ "FIN_WAIT_2" \notin Starting \cup Open /\ {"FIN_WAIT_1", "FIN_WAIT_2"} \subseteq Closing
      BY DEF States, Starting, Open, Closing
    <2>2. CASE "A" \in g.flags
      <3>1. t \in Tcb
        BY DEF GoodTcb
      <3>2. s = [t EXCEPT !.state = "FIN_WAIT_2"]
        BY <2>2
      <3>3. s \in Tcb
        BY <2>1, <3>1, <3>2, Zenon DEF Tcb
      <3>4. s.state = "FIN_WAIT_2" /\ s.lport = t.lport /\ s.rport = t.rport /\ SameSender(t, s)
            /\ s.ooo = t.ooo /\ s.rnxt = t.rnxt /\ s.rx = t.rx
        BY <3>1, <3>2, Zenon DEF Tcb, SameSender
      <3> HIDE DEF s
      <3>5. QED
        BY <2>1, <3>3, <3>4 DEF GoodTcb, SameSender, Starting
    <2>3. CASE "A" \notin g.flags
      BY <2>1, <2>3 DEF SameSender
    <2>4. QED
      BY <2>2, <2>3
  <1>2. r = OnLastFin(h, s, g)
    BY DEF OnFinWait1
  <1> HIDE DEF s
  <1>3. Wound(s, g, r.t) /\ \A q \in r.out : Told(q, h, r.t)
    BY <1>1, <1>2, OnLastFinGood
  <1>4. QED
    BY <1>1, <1>3 DEF Wound, SameSender

-----------------------------------------------------------------------------
(* Setting up a connection, and refusing one.                                *)

LEMMA RstGood ==
  ASSUME NEW h \in Hosts, NEW g, GoodSeg(g), NEW q \in EmitRst(h, g)
  PROVE  GoodSeg(q) /\ q.from = h /\ q.src = g.dst /\ q.dst = g.src /\ q.flags = {"R", "A"} /\ q.data = <<>>
  <1> DEFINE n == IF "A" \in g.flags THEN g.ack ELSE 0
             a == g.seq + (IF "S" \in g.flags THEN 1 ELSE 0)
             w == BufSize - 1
             none == <<>>
             fl == {"R", "A"}
  <1>1. /\ q = [from |-> h, src |-> g.dst, dst |-> g.src, seq |-> n, ack |-> a, flags |-> fl,
                wnd |-> w, data |-> none, sack |-> NoSack]
    BY DEF EmitRst
  <1>2. g \in Segment /\ g.seq \in Int /\ g.ack \in Int /\ g.src \in Port /\ g.dst \in Port
    BY SegFields DEF GoodSeg
  <1>3. /\ n \in Int /\ a \in Int /\ w \in 0 .. BufSize - 1 /\ none \in Seq(Nat) /\ NoSack \in Int
        /\ fl \in FlagSets
    BY <1>2, Given DEF NoSack, FlagSets
  <1>4. Len(none) <= MSS /\ "S" \notin fl /\ "F" \notin fl
    BY Given
  <1> HIDE DEF n, a, w, fl, none
  <1>5. q \in Segment
    BY <1>1, <1>2, <1>3, Zenon DEF Segment
  <1>6. q.from = h /\ q.src = g.dst /\ q.dst = g.src /\ q.flags = fl /\ q.data = none
    BY <1>1, Zenon
  <1>7. GoodSeg(q)
    BY <1>4, <1>5, <1>6 DEF GoodSeg
  <1>8. QED
    BY <1>6, <1>7 DEF fl, none

(* The TCB of a passive open, and its SYN/ACK. *)
Passive(t, g, n) ==
  [t EXCEPT !.rport = g.src, !.una = n, !.nxt = n, !.rnxt = g.seq + 1, !.wnd = g.wnd, !.state = "SYN_RECEIVED"]

LEMMA ListenAnswers ==
  ASSUME NEW h \in Hosts, NEW c, GoodTcb(c), c.state = "LISTEN", NEW g, GoodSeg(g), "S" \in g.flags,
         NEW n \in Nat, NEW t, t = Touched(c),
         NEW s, s = Passive(t, g, n),
         NEW u, u = Arm([s EXCEPT !.nxt = @ + 1])
  PROVE  /\ GoodTcb(u) /\ u.state = "SYN_RECEIVED" /\ u.lport = c.lport /\ u.rport = g.src
         /\ u.una = n /\ u.nxt = n + 1 /\ u.rnxt = g.seq + 1 /\ u.wnd = g.wnd
         /\ \A q \in Emit(h, s, {"S", "A"}, <<>>) :
              /\ GoodSeg(q) /\ q.from = h /\ q.src = c.lport /\ q.dst = g.src /\ q.flags = {"S", "A"}
              /\ q.seq = n /\ q.ack = g.seq + 1 /\ q.data = <<>>
  <1> DEFINE a == g.seq + 1  v == [s EXCEPT !.nxt = @ + 1]
  <1>1. /\ g.seq \in Nat /\ g.src \in Port /\ g.wnd \in 0 .. BufSize - 1
    BY SegFields DEF GoodSeg
  <1>2. a \in Nat /\ "SYN_RECEIVED" \in States
    BY <1>1 DEF States
  <1> HIDE DEF a
  <1>3. GoodTcb(t) /\ SamePlace(c, t) /\ SameReceiver(c, t) /\ SameSender(c, t)
    BY TouchGood
  <1>4. t \in Tcb /\ t.rx = <<>> /\ t.ooo = {} /\ t.persist = FALSE /\ t.lport = c.lport
    <2>1. t.state \in Starting
      BY <1>3 DEF SamePlace, Starting
    <2>2. t.persist \in BOOLEAN
      BY <1>3, Fields DEF GoodTcb
    <2>3. QED
      BY <1>3, <2>1, <2>2 DEF GoodTcb, SamePlace
  <1>5. s = [t EXCEPT !.rport = g.src, !.una = n, !.nxt = n, !.rnxt = a, !.wnd = g.wnd, !.state = "SYN_RECEIVED"]
    BY DEF a, Passive
  <1>6. s \in Tcb
    BY <1>1, <1>2, <1>4, <1>5, ZenonT(60) DEF Tcb
  <1>7. /\ s.state = "SYN_RECEIVED" /\ s.lport = t.lport /\ s.rport = g.src /\ s.una = n /\ s.nxt = n
        /\ s.rnxt = a /\ s.wnd = g.wnd /\ s.rx = t.rx /\ s.ooo = t.ooo /\ s.persist = t.persist
    BY <1>4, <1>5, Zenon DEF Tcb
  <1>8. n + 1 \in Nat /\ v = [s EXCEPT !.nxt = n + 1]
    BY <1>7
  <1> HIDE DEF v
  <1>9. v \in Tcb
    BY <1>6, <1>8, Zenon DEF Tcb
  <1>10. /\ v.state = "SYN_RECEIVED" /\ v.lport = t.lport /\ v.rport = g.src /\ v.una = n /\ v.nxt = n + 1
         /\ v.rnxt = a /\ v.wnd = g.wnd /\ v.rx = t.rx /\ v.ooo = t.ooo /\ v.persist = t.persist
    BY <1>6, <1>7, <1>8, Zenon DEF Tcb
  <1>11. IsFiniteSet({}) /\ Cardinality({}) = 0 /\ Len(<<>>) = 0
    BY FS_EmptySet
  <1>12. GoodTcb(v)
    BY <1>4, <1>9, <1>10, <1>11, Given DEF GoodTcb, Open, Starting
  <1>13. GoodTcb(s)
    BY <1>4, <1>6, <1>7, <1>11, Given DEF GoodTcb, Open, Starting
  <1>14. u = Arm(v)
    BY DEF v
  <1>15. GoodTcb(u) /\ SamePlace(v, u) /\ SameSender(v, u) /\ SameReceiver(v, u)
    BY <1>10, <1>12, <1>14, ArmGood
  <1>16. ASSUME NEW q \in Emit(h, s, {"S", "A"}, <<>>)
         PROVE  /\ GoodSeg(q) /\ q.from = h /\ q.src = c.lport /\ q.dst = g.src /\ q.flags = {"S", "A"}
                /\ q.seq = n /\ q.ack = a /\ q.data = <<>>
    <2> DEFINE none == <<>>  fl == {"S", "A"}
    <2>1. q = Seg(h, s, fl, none, NoSack)
      BY <1>16 DEF Emit
    <2>2. none \in Seq(Nat) /\ fl \in FlagSets /\ NoSack \in Int
      BY DEF NoSack, FlagSets
    <2>3. s.lport \in Port /\ s.rport \in Port /\ s.nxt \in Int /\ s.rnxt \in Int
      <3>1. s.nxt \in Nat /\ s.rnxt \in Nat /\ s.lport \in Port /\ s.rport \in Port
        BY <1>6, Fields
      <3>2. QED
        BY <3>1
    <2> HIDE DEF none, fl
    <2>9. RxWnd(s) \in 0 .. BufSize - 1
      BY <1>13, RoomLeft
    <2>4. /\ q \in Segment /\ q.from = h /\ q.src = s.lport /\ q.dst = s.rport /\ q.seq = s.nxt
          /\ q.ack = s.rnxt /\ q.flags = fl /\ q.data = none
      BY <2>1, <2>2, <2>3, <2>9, SegIs
    <2>5. GoodSeg(q)
      BY <1>7, <1>11, <2>4, Given DEF GoodSeg, none
    <2>6. QED
      BY <1>4, <1>7, <2>4, <2>5 DEF none, fl
  <1>17. QED
    BY <1>4, <1>10, <1>15, <1>16 DEF SamePlace, SameSender, SameReceiver, a

(* The TCB of a connection that is set up. *)
SetUp(t, g, n) ==
  [t EXCEPT !.rnxt = n, !.una = g.ack, !.wnd = g.wnd, !.state = "ESTABLISHED", !.armed = FALSE, !.retries = 0]

IsSetUp(c, g, n, s) ==
  /\ GoodTcb(s) /\ s.state = "ESTABLISHED" /\ s.lport = c.lport /\ s.rport = c.rport
  /\ s.una = c.nxt /\ s.nxt = c.nxt /\ s.wnd = g.wnd /\ s.rnxt = n
  /\ s.rx = <<>> /\ s.ooo = {} /\ s.persist = FALSE

LEMMA SetUpGood ==
  ASSUME NEW c, GoodTcb(c), c.state \in {"SYN_SENT", "SYN_RECEIVED"}, NEW g, GoodSeg(g), g.ack = c.nxt,
         NEW n \in Nat
  PROVE  IsSetUp(c, g, n, SetUp(Touched(c), g, n))
  <1> DEFINE t == Touched(c)  s == SetUp(t, g, n)
  <1>1. GoodTcb(t) /\ SamePlace(c, t) /\ SameReceiver(c, t) /\ SameSender(c, t)
    BY TouchGood
  <1> HIDE DEF t
  <1>2. t \in Tcb /\ t.rx = <<>> /\ t.ooo = {} /\ t.persist = FALSE
    <2>1. t.state \in Starting
      BY <1>1 DEF SamePlace, Starting
    <2>2. t.persist \in BOOLEAN
      BY <1>1, Fields DEF GoodTcb
    <2>3. QED
      BY <1>1, <2>1, <2>2 DEF GoodTcb
  <1>3. g.wnd \in 0 .. BufSize - 1 /\ g.ack \in Nat
    <2>1. c.nxt \in Nat
      BY Sizes
    <2>2. QED
      BY <2>1, SegFields DEF GoodSeg
  <1>4. "ESTABLISHED" \in States /\ FALSE \in BOOLEAN /\ 0 \in 0 .. MaxRetries
    BY Given DEF States
  <1>5. s = [t EXCEPT !.rnxt = n, !.una = g.ack, !.wnd = g.wnd, !.state = "ESTABLISHED", !.armed = FALSE, !.retries = 0]
    BY DEF SetUp
  <1> HIDE DEF s
  <1>6. s \in Tcb
    BY <1>2, <1>3, <1>4, <1>5, ZenonT(60) DEF Tcb
  <1>7. /\ s.state = "ESTABLISHED" /\ s.lport = t.lport /\ s.rport = t.rport /\ s.una = g.ack /\ s.nxt = t.nxt
        /\ s.wnd = g.wnd /\ s.rnxt = n /\ s.rx = t.rx /\ s.ooo = t.ooo /\ s.persist = t.persist
    BY <1>2, <1>5, Zenon DEF Tcb
  <1>8. /\ s.lport = c.lport /\ s.rport = c.rport /\ s.una = c.nxt /\ s.nxt = c.nxt
    BY <1>1, <1>7 DEF SamePlace, SameSender
  <1>9. IsFiniteSet({}) /\ Cardinality({}) = 0 /\ Len(<<>>) = 0 /\ c.nxt \in Nat
    BY FS_EmptySet, Sizes
  <1>10. GoodTcb(s)
    BY <1>2, <1>6, <1>7, <1>8, <1>9, Given DEF GoodTcb, Open, Starting
  <1>11. IsSetUp(c, g, n, s)
    BY <1>2, <1>7, <1>8, <1>10 DEF IsSetUp
  <1>12. QED
    BY <1>11 DEF s, t

-----------------------------------------------------------------------------
(* System calls and timers, on one TCB.                                      *)

NewTcb(st, lp, rp, n) ==
  [Unused EXCEPT !.state = st, !.lport = lp, !.rport = rp, !.una = n, !.nxt = n]

IsNew(st, lp, rp, n, s) ==
  /\ GoodTcb(s) /\ s.state = st /\ s.lport = lp /\ s.rport = rp /\ s.una = n /\ s.nxt = n
  /\ s.rnxt = 0 /\ s.rx = <<>> /\ s.ooo = {} /\ s.persist = FALSE

LEMMA NewTcbGood ==
  ASSUME NEW st \in {"SYN_SENT", "LISTEN"}, NEW lp \in Port, NEW rp \in Port, NEW n \in Nat
  PROVE  IsNew(st, lp, rp, n, NewTcb(st, lp, rp, n))
  <1> DEFINE s == NewTcb(st, lp, rp, n)
  <1>1. Unused \in Tcb /\ st \in States
    BY BlankTcb DEF GoodTcb, States
  <1>2. s \in Tcb
    BY <1>1, ZenonT(60) DEF Tcb, NewTcb
  <1>3. /\ s.state = st /\ s.lport = lp /\ s.rport = rp /\ s.una = n /\ s.nxt = n
        /\ s.rnxt = Unused.rnxt /\ s.rx = Unused.rx /\ s.ooo = Unused.ooo /\ s.persist = Unused.persist
    BY <1>1, Zenon DEF Tcb, NewTcb
  <1>4. Unused.rnxt = 0 /\ Unused.rx = <<>> /\ Unused.ooo = {} /\ Unused.persist = FALSE
    BY Zenon DEF Unused
  <1>5. IsFiniteSet({}) /\ Cardinality({}) = 0 /\ Len(<<>>) = 0
    BY FS_EmptySet
  <1> HIDE DEF s
  <1>6. GoodTcb(s)
    BY <1>2, <1>3, <1>4, <1>5, Given DEF GoodTcb, Open, Starting
  <1>7. IsNew(st, lp, rp, n, s)
    BY <1>3, <1>4, <1>6 DEF IsNew
  <1>8. QED
    BY <1>7 DEF s

LEMMA FinSegment ==
  ASSUME NEW h \in Hosts, NEW t, GoodTcb(t), NEW fl \in FlagSets, NEW q, q = Seg(h, t, fl, <<>>, NoSack)
  PROVE  /\ GoodSeg(q) /\ q.from = h /\ q.src = t.lport /\ q.dst = t.rport /\ q.flags = fl /\ q.seq = t.nxt
         /\ q.ack = t.rnxt /\ q.data = <<>> /\ q.wnd = RxWnd(t)
  <1>1. t.lport \in Port /\ t.rport \in Port
    BY Fields DEF GoodTcb
  <1>2. t.nxt \in Nat /\ t.nxt \in Int /\ t.rnxt \in Int
    BY Sizes
  <1>3. RxWnd(t) \in 0 .. BufSize - 1
    BY RoomLeft
  <1>4. <<>> \in Seq(Nat) /\ Len(<<>>) = 0 /\ NoSack \in Int
    BY DEF NoSack
  <1>5. /\ q \in Segment /\ q.from = h /\ q.src = t.lport /\ q.dst = t.rport /\ q.seq = t.nxt
        /\ q.ack = t.rnxt /\ q.flags = fl /\ q.wnd = RxWnd(t) /\ q.data = <<>>
    BY <1>1, <1>2, <1>3, <1>4, Zenon DEF Seg, Segment
  <1>6. GoodSeg(q)
    BY <1>2, <1>4, <1>5, Given DEF GoodSeg
  <1>7. QED
    BY <1>5, <1>6

(* tcp_close() of one slot: a FIN, or nothing is left. *)
LEMMA ClosedIs ==
  ASSUME NEW h \in Hosts, NEW t, GoodTcb(t), NEW r, r = Closed(h, t)
  PROVE  /\ GoodTcb(r.t)
         /\ \/ t.state \notin Open /\ r.t = Unused /\ r.out = {}
            \/ /\ t.state \in Open /\ r.t.state \in Closing /\ r.t.lport = t.lport /\ r.t.rport = t.rport
               /\ r.t.una = t.una /\ r.t.nxt = t.nxt + 1 /\ r.t.rnxt = t.rnxt /\ r.t.ooo = t.ooo
               /\ \A q \in r.out : /\ GoodSeg(q) /\ q.from = h /\ q.src = t.lport /\ q.dst = t.rport
                                   /\ q.flags = {"F", "A"} /\ q.seq = t.nxt /\ q.data = <<>> /\ q.ack = t.rnxt
  <1> DEFINE st == IF t.state = "ESTABLISHED" THEN "FIN_WAIT_1" ELSE "LAST_ACK"
             fin == [t EXCEPT !.state = st]
             n == fin.nxt + 1
             s == [fin EXCEPT !.nxt = n]
  <1>1. CASE t.state \notin Open
    <2>1. r = Res(Unused, {})
      BY <1>1 DEF Closed
    <2>2. r.t = Unused /\ r.out = {}
      BY <2>1 DEF Res
    <2>3. QED
      BY <1>1, <2>2, BlankTcb
  <1>2. CASE t.state \in Open
    <2>1. r = Res(Arm(s), Emit(h, fin, {"F", "A"}, <<>>))
      BY <1>2 DEF Closed
    <2>2. st \in States /\ st \in Closing /\ st \notin Starting /\ st \notin Open /\ st # "CLOSED"
      BY DEF States, Closing, Starting, Open
    <2> HIDE DEF st
    <2>3. t \in Tcb /\ t.nxt \in Nat
      BY Sizes DEF GoodTcb
    <2>4. fin \in Tcb
      BY <2>2, <2>3, Zenon DEF Tcb
    <2>5. /\ fin.state = st /\ fin.lport = t.lport /\ fin.rport = t.rport /\ SameSender(t, fin)
          /\ SameReceiver(t, fin)
      BY <2>3, Zenon DEF Tcb, SameSender, SameReceiver
    <2> HIDE DEF fin
    <2>6. GoodTcb(fin)
      BY <2>2, <2>4, <2>5 DEF GoodTcb, SameSender, SameReceiver
    <2>7. n \in Nat /\ n = t.nxt + 1
      BY <2>3, <2>5 DEF SameSender
    <2> HIDE DEF n
    <2>8. s \in Tcb
      BY <2>4, <2>7, Zenon DEF Tcb
    <2>9. /\ SamePlace(fin, s) /\ SameReceiver(fin, s) /\ s.nxt = n /\ s.una = fin.una
      BY <2>4, Zenon DEF Tcb, SamePlace, SameReceiver
    <2> HIDE DEF s
    <2>10. GoodTcb(s)
      <3>1. fin.una \in Nat /\ fin.nxt \in Nat /\ fin.una <= fin.nxt /\ n = fin.nxt + 1
        BY <2>5, <2>6, <2>7, Sizes DEF SameSender
      <3>2. s.una <= s.nxt
        BY <2>9, <3>1
      <3>3. QED
        BY <2>2, <2>5, <2>6, <2>8, <2>9, <3>2 DEF GoodTcb, SamePlace, SameReceiver
    <2>11. GoodTcb(Arm(s)) /\ SamePlace(s, Arm(s)) /\ SameSender(s, Arm(s)) /\ SameReceiver(s, Arm(s))
      BY <2>2, <2>5, <2>9, <2>10, ArmGood DEF SamePlace
    <2>12. /\ Arm(s).state \in Closing /\ Arm(s).lport = t.lport /\ Arm(s).rport = t.rport
           /\ Arm(s).una = t.una /\ Arm(s).nxt = t.nxt + 1 /\ Arm(s).rnxt = t.rnxt /\ Arm(s).ooo = t.ooo
      BY <2>2, <2>5, <2>7, <2>9, <2>11 DEF SamePlace, SameSender, SameReceiver
    <2>13. \A q \in r.out : q = Seg(h, fin, {"F", "A"}, <<>>, NoSack)
      BY <2>1 DEF Emit, Res
    <2>14. {"F", "A"} \in FlagSets
      BY DEF FlagSets
    <2>15. \A q \in r.out : /\ GoodSeg(q) /\ q.from = h /\ q.src = t.lport /\ q.dst = t.rport
                            /\ q.flags = {"F", "A"} /\ q.seq = t.nxt /\ q.data = <<>> /\ q.ack = t.rnxt
      BY <2>5, <2>6, <2>13, <2>14, FinSegment DEF SameSender, SameReceiver
    <2>16. r.t = Arm(s)
      BY <2>1 DEF Res
    <2>17. QED
      BY <1>2, <2>11, <2>12, <2>15, <2>16
  <1>3. QED
    BY <1>1, <1>2

(* tcp_send() writes to the ring, then drains it. *)
Written(t, put) ==
  [t EXCEPT !.buf = [j \in DOMAIN @ |->
                       LET k == (j + BufSize - t.tail) % BufSize
                       IN IF k < put THEN t.wrote + k + 1 ELSE @[j]],
            !.tail = (@ + put) % BufSize, !.wrote = @ + put]

LEMMA WrittenGood ==
  ASSUME NEW t, GoodTcb(t), t.state # "CLOSED", NEW put \in Nat
  PROVE  LET s == Written(t, put) IN GoodTcb(s) /\ SamePlace(t, s) /\ SameSender(t, s) /\ SameReceiver(t, s)
  <1> DEFINE at(j) == (j + BufSize - t.tail) % BufSize
             buf == [j \in DOMAIN t.buf |-> IF at(j) < put THEN t.wrote + at(j) + 1 ELSE t.buf[j]]
             tail == (t.tail + put) % BufSize
             n == t.wrote + put
             s == Written(t, put)
  <1>1. t \in Tcb /\ t.buf \in [0 .. BufSize - 1 -> Nat] /\ t.tail \in 0 .. BufSize - 1 /\ t.wrote \in Nat
    BY Fields DEF GoodTcb
  <1>2. t.tail \in Nat /\ t.tail < BufSize
    BY <1>1, Given
  <1>3. \A j \in 0 .. BufSize - 1 : at(j) \in Nat
    <2> SUFFICES ASSUME NEW j \in 0 .. BufSize - 1 PROVE at(j) \in Nat
      OBVIOUS
    <2>1. j + BufSize - t.tail \in Nat
      BY <1>2, Given
    <2>2. at(j) \in 0 .. BufSize - 1
      BY <2>1, InRing
    <2> HIDE DEF at
    <2>3. QED
      BY <2>2, Given
  <1>4. s = [t EXCEPT !.buf = buf, !.tail = tail, !.wrote = n]
    BY DEF Written
  <1> HIDE DEF s
  <1>5. buf \in [0 .. BufSize - 1 -> Nat]
    <2> HIDE DEF at
    <2>1. DOMAIN t.buf = 0 .. BufSize - 1
      BY <1>1
    <2>2. \A j \in 0 .. BufSize - 1 : (IF at(j) < put THEN t.wrote + at(j) + 1 ELSE t.buf[j]) \in Nat
      <3> SUFFICES ASSUME NEW j \in 0 .. BufSize - 1
                   PROVE (IF at(j) < put THEN t.wrote + at(j) + 1 ELSE t.buf[j]) \in Nat
        OBVIOUS
      <3>1. at(j) \in Nat /\ t.buf[j] \in Nat
        BY <1>1, <1>3
      <3> DEFINE k == at(j)  w == t.wrote
      <3>2. w + k + 1 \in Nat
        <4>1. w \in Nat /\ k \in Nat
          BY <1>1, <3>1
        <4> HIDE DEF w, k
        <4>2. QED
          BY <4>1
      <3>3. QED
        BY <3>1, <3>2, Zenon
    <2>3. QED
      BY <2>1, <2>2
  <1>6. tail \in 0 .. BufSize - 1
    <2>1. t.tail + put \in Nat
      BY <1>2
    <2>2. QED
      BY <2>1, InRing
  <1>7. n \in Nat
    BY <1>1
  <1> HIDE DEF buf, tail, n
  <1>8. s \in Tcb
    BY <1>1, <1>4, <1>5, <1>6, <1>7, ZenonT(60) DEF Tcb
  <1>9. SamePlace(t, s) /\ SameSender(t, s) /\ SameReceiver(t, s)
    BY <1>1, <1>4, Zenon DEF Tcb, SamePlace, SameSender, SameReceiver
  <1>10. QED
    BY <1>8, <1>9, SameIsGood DEF s

LEMMA SendPushes ==
  ASSUME NEW h \in Hosts, NEW t, GoodTcb(t), t.state \in Open, NEW n \in Nat,
         NEW r, r = Drain(h, Written(t, Least(n, BufSize - 1 - Pending(t))))
  PROVE  Pushed(t, r.t) /\ \A q \in r.out : Says(q, h, r.t)
  <1> DEFINE room == BufSize - 1 - Pending(t)  put == Least(n, room)  s == Written(t, put)
  <1>1. t.head \in Nat /\ t.head < BufSize /\ t.tail \in Nat
    <2>1. t.head \in 0 .. BufSize - 1 /\ t.tail \in 0 .. BufSize - 1
      BY Fields DEF GoodTcb
    <2>2. QED
      BY <2>1, Given
  <1>2. Pending(t) \in 0 .. BufSize - 1
    <2>1. t.tail + BufSize - t.head \in Nat
      BY <1>1, Given
    <2>2. QED
      BY <2>1, InRing DEF Pending
  <1>3. room \in Nat
    <2> DEFINE p == Pending(t)
    <2> HIDE DEF p
    <2>1. p \in 0 .. BufSize - 1
      BY <1>2 DEF p
    <2>2. BufSize - 1 - p \in Nat
      BY <2>1, Given
    <2>3. QED
      BY <2>2 DEF p
  <1> HIDE DEF room
  <1>4. put \in Nat
    BY <1>3 DEF Least
  <1>5. r = Drain(h, s)
    BY DEF room
  <1> HIDE DEF put
  <1>6. t.state # "CLOSED"
    BY DEF Open
  <1>7. GoodTcb(s) /\ SamePlace(t, s) /\ SameSender(t, s) /\ SameReceiver(t, s)
    BY <1>4, <1>6, WrittenGood
  <1> HIDE DEF s
  <1>8. s.state \in Open
    BY <1>7 DEF SamePlace
  <1>9. Pushed(s, r.t) /\ \A q \in r.out : Says(q, h, r.t)
    BY <1>5, <1>7, <1>8, DrainPushes
  <1>10. QED
    BY <1>7, <1>9 DEF Pushed, SamePlace, SameSender, SameReceiver, Sent

(* tcp_recv() makes room. *)
LEMMA RecvGood ==
  ASSUME NEW t, GoodTcb(t), t.rx # <<>>, NEW n \in Nat,
         NEW s, s = [t EXCEPT !.rx = SubSeq(t.rx, Least(n, Len(t.rx)) + 1, Len(t.rx))]
  PROVE  GoodTcb(s) /\ SamePlace(t, s) /\ SameSender(t, s) /\ Later(t, s) /\ s.rnxt = t.rnxt /\ s.ooo = t.ooo
  <1> DEFINE k == Least(n, Len(t.rx))
             rx == SubSeq(t.rx, k + 1, Len(t.rx))
  <1>1. t \in Tcb /\ t.rx \in Seq(Nat)
    BY Fields DEF GoodTcb
  <1>2. Len(t.rx) \in Nat /\ Len(t.rx) < BufSize
    BY Sizes
  <1>3. k \in Nat /\ k <= Len(t.rx)
    BY <1>2, LeastMost DEF Least
  <1> HIDE DEF k
  <1>4. rx \in Seq(Nat) /\ Len(rx) = Len(t.rx) - k
    BY <1>1, <1>2, <1>3
  <1>5. s = [t EXCEPT !.rx = rx]
    BY DEF k
  <1> HIDE DEF rx
  <1>6. s \in Tcb
    BY <1>1, <1>4, <1>5, Zenon DEF Tcb
  <1>7. SamePlace(t, s) /\ SameSender(t, s) /\ s.rx = rx /\ s.rnxt = t.rnxt /\ s.ooo = t.ooo
    BY <1>1, <1>5, Zenon DEF Tcb, SamePlace, SameSender
  <1>8. t.state \notin Starting
    BY DEF GoodTcb
  <1>9. Len(s.rx) \in Nat /\ Len(s.rx) < BufSize /\ Len(s.rx) <= Len(t.rx)
    <2> DEFINE a == Len(t.rx)  b == Len(rx)
    <2>1. a \in Nat /\ a < BufSize /\ k \in Nat /\ k <= a /\ b = a - k
      BY <1>2, <1>3, <1>4
    <2> HIDE DEF a, b
    <2>2. b \in Nat /\ b < BufSize /\ b <= a
      BY <2>1, Given
    <2>3. QED
      BY <1>7, <2>2 DEF a, b
  <1>10. GoodTcb(s)
    BY <1>6, <1>7, <1>8, <1>9 DEF GoodTcb, SamePlace, SameSender, Starting
  <1>11. Edge(t) <= Edge(s)
    <2> DEFINE a == Len(t.rx)  b == Len(s.rx)
    <2>1. RxWnd(t) = BufSize - 1 - a /\ RxWnd(s) = BufSize - 1 - b /\ t.rnxt \in Nat /\ a \in Nat /\ b \in Nat /\ b <= a
      BY <1>2, <1>9, Sizes DEF RxWnd
    <2> HIDE DEF a, b
    <2>2. t.rnxt + (BufSize - 1 - a) <= t.rnxt + (BufSize - 1 - b)
      <3> DEFINE z == t.rnxt
      <3>1. z \in Nat
        BY <2>1
      <3> HIDE DEF z
      <3>2. z + (BufSize - 1 - a) <= z + (BufSize - 1 - b)
        BY <2>1, <3>1, Given
      <3>3. QED
        BY <3>2 DEF z
    <2>3. QED
      BY <1>7, <2>1, <2>2 DEF Edge
  <1>12. Later(t, s)
    <2>1. Sent(t) \in Nat /\ t.rnxt \in Nat
      BY Totals, Sizes
    <2>2. Sent(s) = Sent(t)
      BY <1>7 DEF Sent, SameSender
    <2>3. QED
      BY <1>7, <1>11, <2>1, <2>2 DEF Later, SamePlace
  <1>13. QED
    BY <1>7, <1>10, <1>12

(* The retransmission timer only changes the congestion window. *)
Slowed(t) == [t EXCEPT !.ssthresh = Most(InFlight(t) \div 2, 2 * MSS), !.cwnd = MSS, !.retries = @ + 1]

LEMMA RtoGood ==
  ASSUME NEW t, GoodTcb(t), t.state # "CLOSED", t.retries < MaxRetries
  PROVE  LET s == Slowed(t) IN GoodTcb(s) /\ SamePlace(t, s) /\ SameSender(t, s) /\ SameReceiver(t, s)
  <1> DEFINE half == Most(InFlight(t) \div 2, 2 * MSS)  n == t.retries + 1  s == Slowed(t)
  <1>1. t \in Tcb /\ t.retries \in 0 .. MaxRetries
    BY Fields DEF GoodTcb
  <1>2. half \in Nat
    <2> DEFINE k == InFlight(t) \div 2
    <2>1. InFlight(t) \in Nat
      BY Sizes
    <2>2. k \in Nat
      BY <2>1
    <2> HIDE DEF k
    <2>3. Most(k, 2 * MSS) \in Nat
      BY <2>2, Given DEF Most
    <2>4. QED
      BY <2>3 DEF k
  <1>3. n \in 0 .. MaxRetries
    BY <1>1, Given
  <1>4. MSS \in 1 .. Most(BufSize, 2 * MSS)
    BY Given DEF Most
  <1>5. s = [t EXCEPT !.ssthresh = half, !.cwnd = MSS, !.retries = n]
    BY DEF Slowed
  <1> HIDE DEF half, n, s
  <1>6. s \in Tcb
    BY <1>1, <1>2, <1>3, <1>4, <1>5, ZenonT(60) DEF Tcb
  <1>7. SamePlace(t, s) /\ SameSender(t, s) /\ SameReceiver(t, s)
    BY <1>1, <1>5, Zenon DEF Tcb, SamePlace, SameSender, SameReceiver
  <1>8. QED
    BY <1>6, <1>7, SameIsGood DEF s

LEMMA DisarmGood ==
  ASSUME NEW t, GoodTcb(t), t.state # "CLOSED", NEW s, s = [t EXCEPT !.armed = FALSE]
  PROVE  GoodTcb(s) /\ SamePlace(t, s) /\ SameSender(t, s) /\ SameReceiver(t, s)
  <1>1. t \in Tcb /\ FALSE \in BOOLEAN
    BY DEF GoodTcb
  <1>2. s \in Tcb
    BY <1>1, Zenon DEF Tcb
  <1>3. SamePlace(t, s) /\ SameSender(t, s) /\ SameReceiver(t, s)
    BY <1>1, Zenon DEF Tcb, SamePlace, SameSender, SameReceiver
  <1>4. QED
    BY <1>2, <1>3, SameIsGood

-----------------------------------------------------------------------------
(* The inductive invariant of the types: every TCB and every segment is       *)
(* good, and a slot whose SYN is not counted yet has nothing in flight.       *)

Counts(t) == t.una = t.nxt /\ ~t.persist /\ t.state \notin {"LISTEN", "SYN_RECEIVED"}

TypeInv ==
  /\ conns \in [Hosts -> [Slots -> Tcb]] /\ \A h \in Hosts, i \in Slots : GoodTcb(conns[h][i])
  /\ initial_seq \in [Hosts -> Nat]
  /\ opens \in [Hosts -> Nat] /\ \A h \in Hosts : opens[h] <= MaxOpens[h]
  /\ busy \subseteq Clients \X Slots
  /\ \A h \in Hosts, i \in Slots : <<h, i>> \in busy => Counts(conns[h][i])
  /\ \A g \in net : GoodSeg(g)

(* Slot i of h becomes s. *)
Becomes(h, i, s) == conns' = [conns EXCEPT ![h][i] = s]

LEMMA BecomesIs ==
  ASSUME conns \in [Hosts -> [Slots -> Tcb]], NEW h \in Hosts, NEW i \in Slots, NEW s \in Tcb, Becomes(h, i, s)
  PROVE  /\ conns' \in [Hosts -> [Slots -> Tcb]] /\ conns'[h][i] = s
         /\ \A k \in Hosts, j \in Slots : k # h \/ j # i => conns'[k][j] = conns[k][j]
  BY DEF Becomes

LEMMA SlotStep ==
  ASSUME TypeInv, NEW h \in Hosts, NEW i \in Slots, NEW s, GoodTcb(s), Becomes(h, i, s),
         \/ busy' = busy \ {<<h, i>>}
         \/ busy' = busy /\ (<<h, i>> \in busy => Counts(s))
         \/ busy' = {<<h, i>>} /\ h \in Clients /\ Counts(s),
         initial_seq' \in [Hosts -> Nat], opens' \in [Hosts -> Nat], \A k \in Hosts : opens'[k] <= MaxOpens[k],
         \A g \in net' : g \in net \/ GoodSeg(g)
  PROVE  TypeInv'
  <1>1. s \in Tcb /\ conns \in [Hosts -> [Slots -> Tcb]]
    BY DEF GoodTcb, TypeInv
  <1>2. /\ conns' \in [Hosts -> [Slots -> Tcb]] /\ conns'[h][i] = s
        /\ \A k \in Hosts, j \in Slots : k # h \/ j # i => conns'[k][j] = conns[k][j]
    BY <1>1, BecomesIs
  <1>3. ASSUME NEW k \in Hosts, NEW j \in Slots PROVE GoodTcb(conns'[k][j])
    <2>1. CASE k = h /\ j = i
      BY <1>2, <2>1
    <2>2. CASE k # h \/ j # i
      <3>1. conns'[k][j] = conns[k][j]
        BY <1>2, <2>2
      <3>2. QED
        BY <3>1 DEF TypeInv
    <2>3. QED
      BY <2>1, <2>2
  <1>4. busy' \subseteq Clients \X Slots
    BY DEF TypeInv
  <1>5. ASSUME NEW k \in Hosts, NEW j \in Slots, <<k, j>> \in busy' PROVE Counts(conns'[k][j])
    <2>1. CASE k = h /\ j = i
      BY <1>2, <1>5, <2>1
    <2>2. CASE k # h \/ j # i
      <3>1. conns'[k][j] = conns[k][j] /\ <<k, j>> \in busy
        BY <1>2, <1>5, <2>2
      <3>2. QED
        BY <3>1 DEF TypeInv
    <2>3. QED
      BY <2>1, <2>2
  <1>6. \A g \in net' : GoodSeg(g)
    BY DEF TypeInv
  <1>7. QED
    BY <1>2, <1>3, <1>4, <1>5, <1>6 DEF TypeInv

(* The answer to a segment: g leaves the wire, or stays. *)
LEMMA RestLeaves == ASSUME NEW g PROVE Rest(g) \subseteq net
  BY DEF Rest

LEMMA AnswerStep ==
  ASSUME TypeInv, NEW h \in Hosts, NEW i \in Slots, NEW g, NEW r, Answer(h, i, g, r), GoodRes(r),
         <<h, i>> \in busy => Counts(r.t), initial_seq' \in [Hosts -> Nat]
  PROVE  TypeInv'
  <1>1. GoodTcb(r.t) /\ \A q \in r.out : GoodSeg(q)
    BY DEF GoodRes
  <1>2. Becomes(h, i, r.t) /\ busy' = busy /\ opens' = opens /\ net' = Rest(g) \cup r.out
    BY DEF Answer, Becomes
  <1>3. \A q \in net' : q \in net \/ GoodSeg(q)
    BY <1>1, <1>2, RestLeaves
  <1>4. opens' \in [Hosts -> Nat] /\ \A k \in Hosts : opens'[k] <= MaxOpens[k]
    BY <1>2 DEF TypeInv
  <1>5. QED
    BY <1>1, <1>2, <1>3, <1>4, SlotStep

LEMMA WireStep ==
  ASSUME TypeInv, UNCHANGED <<conns, initial_seq, opens, busy>>, \A q \in net' : q \in net \/ GoodSeg(q)
  PROVE  TypeInv'
  BY DEF TypeInv

LEMMA BlankCounts == Counts(Unused)
  <1>1. Unused.una = 0 /\ Unused.nxt = 0 /\ Unused.state = "CLOSED" /\ Unused.persist = FALSE
    BY Zenon DEF Unused
  <1>2. QED
    BY <1>1 DEF Counts

LEMMA SameCounts ==
  ASSUME NEW t, NEW s, Counts(t), SamePlace(t, s), SameSender(t, s)
  PROVE  Counts(s)
  BY DEF Counts, SamePlace, SameSender

(* The slot an arriving segment is for. *)
LEMMA FoundIs ==
  ASSUME NEW h \in Hosts, NEW i \in Slots, NEW g, Finds(h, i, g)
  PROVE  /\ conns[h][i].state # "CLOSED" /\ conns[h][i].lport = g.dst
         /\ conns[h][i].state # "LISTEN" => conns[h][i].rport = g.src
  BY DEF Finds, Matches

LEMMA TouchedIs ==
  ASSUME TypeInv, NEW h \in Hosts, NEW i \in Slots, NEW g, Finds(h, i, g), NEW t, t = Touched(conns[h][i])
  PROVE  /\ GoodTcb(t) /\ SamePlace(conns[h][i], t) /\ SameSender(conns[h][i], t)
         /\ SameReceiver(conns[h][i], t) /\ t.state # "CLOSED"
         /\ <<h, i>> \in busy => Counts(t)
  <1>1. GoodTcb(conns[h][i]) /\ conns[h][i].state # "CLOSED"
    BY FoundIs DEF TypeInv
  <1>2. /\ GoodTcb(t) /\ SamePlace(conns[h][i], t) /\ SameSender(conns[h][i], t)
        /\ SameReceiver(conns[h][i], t)
    BY <1>1, TouchGood
  <1>3. <<h, i>> \in busy => Counts(t)
    BY <1>2, SameCounts DEF TypeInv
  <1>4. QED
    BY <1>1, <1>2, <1>3 DEF SamePlace

LEMMA UnmatchedStep ==
  ASSUME TypeInv, NEW h \in Hosts, NEW g \in net, RecvUnmatched(h, g)
  PROVE  TypeInv'
  <1>1. GoodSeg(g)
    BY DEF TypeInv
  <1>2. \A q \in net' : q \in net \/ GoodSeg(q)
    BY <1>1, RestLeaves, RstGood DEF RecvUnmatched
  <1>3. QED
    BY <1>2, WireStep DEF RecvUnmatched

LEMMA RstStep ==
  ASSUME TypeInv, NEW h \in Hosts, NEW i \in Slots, NEW g \in net, RecvRst(h, i, g)
  PROVE  TypeInv'
  <1> DEFINE s == IF RstAccepted(conns[h][i], g) THEN Unused ELSE conns[h][i]
             r == Res(s, {})
  <1>1. r.t = s /\ r.out = {}
    BY DEF Res
  <1>2. Answer(h, i, g, r) /\ initial_seq' = initial_seq
    BY DEF RecvRst
  <1> HIDE DEF r
  <1>3. GoodTcb(s) /\ (<<h, i>> \in busy => Counts(s))
    BY BlankTcb, BlankCounts DEF TypeInv
  <1>4. GoodRes(r)
    BY <1>1, <1>3 DEF GoodRes
  <1>5. initial_seq' \in [Hosts -> Nat]
    BY <1>2 DEF TypeInv
  <1> HIDE DEF s
  <1>6. QED
    BY <1>1, <1>2, <1>3, <1>4, <1>5, AnswerStep

LEMMA ChallengeStep ==
  ASSUME TypeInv, NEW h \in Hosts, NEW i \in Slots, NEW g \in net, RecvChallenge(h, i, g)
  PROVE  TypeInv'
  <1> DEFINE c == conns[h][i]  t == Touched(c)  out == Emit(h, c, {"A"}, <<>>)  r == Res(t, out)
  <1>1. r.t = t /\ r.out = out
    BY DEF Res
  <1>2. Finds(h, i, g) /\ Answer(h, i, g, r) /\ initial_seq' = initial_seq
    BY DEF RecvChallenge, Arrives
  <1> HIDE DEF r
  <1>3. GoodTcb(t) /\ (<<h, i>> \in busy => Counts(t)) /\ GoodTcb(c)
    BY <1>2, TouchedIs DEF TypeInv
  <1>4. ASSUME NEW q \in out PROVE GoodSeg(q)
    <2>1. q = Seg(h, c, {"A"}, <<>>, NoSack)
      BY <1>4 DEF Emit
    <2> HIDE DEF c
    <2>2. NoSack \in Int
      BY DEF NoSack
    <2>3. Says(q, h, c)
      BY <1>3, <2>1, <2>2, SaysWhere
    <2>4. QED
      BY <2>3, SaysGood
  <1> HIDE DEF out, t
  <1>5. GoodRes(r)
    BY <1>1, <1>3, <1>4 DEF GoodRes
  <1>6. initial_seq' \in [Hosts -> Nat]
    BY <1>2 DEF TypeInv
  <1>7. QED
    BY <1>1, <1>2, <1>3, <1>5, <1>6, AnswerStep

LEMMA AnswerIs ==
  ASSUME TypeInv, NEW h \in Hosts, NEW i \in Slots, NEW g, NEW r, Answer(h, i, g, r), GoodTcb(r.t)
  PROVE  /\ Becomes(h, i, r.t) /\ conns'[h][i] = r.t /\ InRange(r.t) /\ opens' = opens /\ busy' = busy
         /\ \A q \in net' : q \in net \/ q \in r.out
  <1>1. r.t \in Tcb /\ conns \in [Hosts -> [Slots -> Tcb]]
    BY DEF GoodTcb, TypeInv
  <1>2. Becomes(h, i, r.t) /\ InRange(r.t) /\ opens' = opens /\ busy' = busy /\ net' = Rest(g) \cup r.out
    BY DEF Answer, Becomes
  <1>3. conns'[h][i] = r.t
    BY <1>1, <1>2, BecomesIs
  <1>4. QED
    BY <1>2, <1>3, RestLeaves

(* A listening slot takes a SYN, or refuses. *)
Accepts(h, i, g, s) ==
  /\ GoodTcb(s) /\ s.state = "SYN_RECEIVED" /\ s.lport = g.dst /\ s.rport = g.src
  /\ s.una = initial_seq[h] /\ s.nxt = initial_seq[h] + 1 /\ s.rnxt = g.seq + 1 /\ s.wnd = g.wnd
  /\ "S" \in g.flags /\ "A" \notin g.flags
  /\ initial_seq' = [initial_seq EXCEPT ![h] = @ + IssStep]
  /\ \A q \in net' :
       \/ q \in net
       \/ /\ GoodSeg(q) /\ q.from = h /\ q.src = g.dst /\ q.dst = g.src /\ q.flags = {"S", "A"}
          /\ q.seq = initial_seq[h] /\ q.ack = g.seq + 1 /\ q.data = <<>>

Refuses(h, i, g, s) ==
  /\ GoodTcb(s) /\ SamePlace(conns[h][i], s) /\ SameSender(conns[h][i], s) /\ SameReceiver(conns[h][i], s)
  /\ initial_seq' = initial_seq
  /\ \A q \in net' :
       \/ q \in net
       \/ GoodSeg(q) /\ q.from = h /\ q.src = g.dst /\ q.dst = g.src /\ q.flags = {"R", "A"} /\ q.data = <<>>

LEMMA ListenIs ==
  ASSUME TypeInv, NEW h \in Hosts, NEW i \in Slots, NEW g \in net, RecvListen(h, i, g),
         NEW s, s = conns'[h][i]
  PROVE  /\ Becomes(h, i, s) /\ InRange(s) /\ opens' = opens /\ busy' = busy /\ conns[h][i].state = "LISTEN"
         /\ "R" \notin g.flags
         /\ Accepts(h, i, g, s) \/ Refuses(h, i, g, s)
  <1> DEFINE c == conns[h][i]  t == Touched(c)  p == Passive(t, g, initial_seq[h])
             u == Arm([p EXCEPT !.nxt = @ + 1])
  <1>1. GoodSeg(g) /\ GoodTcb(c) /\ initial_seq[h] \in Nat
    BY DEF TypeInv
  <1>2. Finds(h, i, g) /\ t.state = "LISTEN" /\ "R" \notin g.flags
    BY DEF RecvListen, Arrives
  <1>3. GoodTcb(t) /\ SamePlace(c, t) /\ SameSender(c, t) /\ SameReceiver(c, t)
    BY <1>2, TouchedIs
  <1>4. c.state = "LISTEN" /\ c.lport = g.dst
    BY <1>2, <1>3, FoundIs DEF SamePlace
  <1>5. CASE "S" \in g.flags /\ "A" \notin g.flags
    <2> DEFINE out == Emit(h, p, {"S", "A"}, <<>>)  r == Res(u, out)
    <2>1. Answer(h, i, g, r) /\ initial_seq' = [initial_seq EXCEPT ![h] = @ + IssStep]
      BY <1>5 DEF RecvListen, Passive
    <2>2. r.t = u /\ r.out = out
      BY DEF Res
    <2> HIDE DEF r
    <2>3. /\ GoodTcb(u) /\ u.state = "SYN_RECEIVED" /\ u.lport = c.lport /\ u.rport = g.src
          /\ u.una = initial_seq[h] /\ u.nxt = initial_seq[h] + 1 /\ u.rnxt = g.seq + 1 /\ u.wnd = g.wnd
          /\ \A q \in out :
               /\ GoodSeg(q) /\ q.from = h /\ q.src = c.lport /\ q.dst = g.src /\ q.flags = {"S", "A"}
               /\ q.seq = initial_seq[h] /\ q.ack = g.seq + 1 /\ q.data = <<>>
      BY <1>1, <1>4, <1>5, ListenAnswers
    <2> HIDE DEF u, out, p
    <2>4. /\ Becomes(h, i, u) /\ conns'[h][i] = u /\ InRange(u) /\ opens' = opens /\ busy' = busy
          /\ \A q \in net' : q \in net \/ q \in out
      BY <2>1, <2>2, <2>3, AnswerIs
    <2>5. Accepts(h, i, g, u)
      BY <1>4, <1>5, <2>1, <2>3, <2>4 DEF Accepts
    <2>6. QED
      BY <1>2, <1>4, <2>4, <2>5
  <1>6. CASE ~("S" \in g.flags /\ "A" \notin g.flags)
    <2> DEFINE out == EmitRst(h, g)  r == Res(t, out)
    <2>1. Answer(h, i, g, r) /\ initial_seq' = initial_seq
      BY <1>6 DEF RecvListen
    <2>2. r.t = t /\ r.out = out
      BY DEF Res
    <2> HIDE DEF r
    <2>3. \A q \in out : GoodSeg(q) /\ q.from = h /\ q.src = g.dst /\ q.dst = g.src /\ q.flags = {"R", "A"} /\ q.data = <<>>
      BY <1>1, RstGood
    <2> HIDE DEF out, t
    <2>4. /\ Becomes(h, i, t) /\ conns'[h][i] = t /\ InRange(t) /\ opens' = opens /\ busy' = busy
          /\ \A q \in net' : q \in net \/ q \in out
      BY <1>3, <2>1, <2>2, AnswerIs
    <2>5. Refuses(h, i, g, t)
      BY <1>3, <2>1, <2>3, <2>4 DEF Refuses
    <2>6. QED
      BY <1>2, <1>4, <2>4, <2>5
  <1>7. QED
    BY <1>5, <1>6

LEMMA ListenStep ==
  ASSUME TypeInv, NEW h \in Hosts, NEW i \in Slots, NEW g \in net, RecvListen(h, i, g)
  PROVE  TypeInv'
  <1> DEFINE s == conns'[h][i]
  <1>1. /\ Becomes(h, i, s) /\ opens' = opens /\ busy' = busy /\ conns[h][i].state = "LISTEN"
        /\ Accepts(h, i, g, s) \/ Refuses(h, i, g, s)
    BY ListenIs
  <1>2. <<h, i>> \notin busy
    BY <1>1 DEF TypeInv, Counts
  <1> HIDE DEF s
  <1>3. GoodTcb(s) /\ \A q \in net' : q \in net \/ GoodSeg(q)
    BY <1>1 DEF Accepts, Refuses
  <1>4. initial_seq' \in [Hosts -> Nat]
    BY <1>1, Given DEF TypeInv, Accepts, Refuses
  <1>5. opens' \in [Hosts -> Nat] /\ \A k \in Hosts : opens'[k] <= MaxOpens[k]
    BY <1>1 DEF TypeInv
  <1>6. QED
    BY <1>1, <1>2, <1>3, <1>4, <1>5, SlotStep

(* The segment acknowledges the SYN: the connection is set up; the first byte *)
(* from the peer is number n.                                                 *)
Joins(h, i, g, n, s) ==
  /\ IsSetUp(conns[h][i], g, n, s) /\ g.ack = conns[h][i].nxt /\ "A" \in g.flags /\ initial_seq' = initial_seq

LEMMA SynReceivedIs ==
  ASSUME TypeInv, NEW h \in Hosts, NEW i \in Slots, NEW g \in net, RecvSynReceived(h, i, g),
         NEW s, s = conns'[h][i]
  PROVE  /\ Becomes(h, i, s) /\ InRange(s) /\ opens' = opens /\ busy' = busy /\ conns[h][i].state = "SYN_RECEIVED"
         /\ "R" \notin g.flags /\ Finds(h, i, g)
         /\ \/ Joins(h, i, g, conns[h][i].rnxt, s) /\ net' \subseteq net
            \/ Refuses(h, i, g, s)
  <1> DEFINE c == conns[h][i]  t == Touched(c)  n == c.rnxt  u == SetUp(t, g, n)
             v == [t EXCEPT !.una = g.ack, !.wnd = g.wnd, !.state = "ESTABLISHED", !.armed = FALSE, !.retries = 0]
  <1>1. GoodSeg(g) /\ GoodTcb(c) /\ n \in Nat
    <2>1. GoodSeg(g) /\ GoodTcb(c)
      BY DEF TypeInv
    <2>2. QED
      BY <2>1, Sizes
  <1>2. Finds(h, i, g) /\ t.state = "SYN_RECEIVED" /\ "R" \notin g.flags /\ initial_seq' = initial_seq
    BY DEF RecvSynReceived, Arrives
  <1>3. GoodTcb(t) /\ SamePlace(c, t) /\ SameSender(c, t) /\ SameReceiver(c, t)
    BY <1>2, TouchedIs
  <1>4. c.state = "SYN_RECEIVED" /\ c.lport = g.dst /\ c.rport = g.src /\ t.nxt = c.nxt /\ t.rnxt = n
    BY <1>2, <1>3, FoundIs DEF SamePlace, SameSender, SameReceiver
  <1>5. CASE "A" \in g.flags /\ g.ack = t.nxt
    <2> DEFINE r == Res(v, {})
    <2>1. Answer(h, i, g, r)
      BY <1>5 DEF RecvSynReceived
    <2>2. r.t = v /\ r.out = {}
      BY DEF Res
    <2> HIDE DEF r
    <2>3. v = u
      <3>1. t \in Tcb /\ t.rnxt = n
        BY <1>3, <1>4 DEF GoodTcb
      <3> HIDE DEF t, n
      <3>2. QED
        BY <3>1, ZenonT(60) DEF Tcb, SetUp
    <2> HIDE DEF v
    <2>4. IsSetUp(c, g, n, u) /\ GoodTcb(u)
      <3>1. g.ack = c.nxt /\ c.state \in {"SYN_SENT", "SYN_RECEIVED"}
        BY <1>4, <1>5
      <3> HIDE DEF c, n
      <3>2. IsSetUp(c, g, n, SetUp(Touched(c), g, n))
        BY <1>1, <3>1, SetUpGood
      <3>3. QED
        BY <3>2 DEF IsSetUp
    <2> HIDE DEF u
    <2>5. /\ Becomes(h, i, u) /\ conns'[h][i] = u /\ InRange(u) /\ opens' = opens /\ busy' = busy
          /\ \A q \in net' : q \in net \/ q \in {}
      BY <2>1, <2>2, <2>3, <2>4, AnswerIs
    <2>6. Joins(h, i, g, n, u)
      BY <1>2, <1>4, <1>5, <2>4 DEF Joins
    <2>7. QED
      BY <1>2, <1>4, <2>5, <2>6
  <1>6. CASE ~("A" \in g.flags /\ g.ack = t.nxt)
    <2> DEFINE out == IF "A" \in g.flags THEN EmitRst(h, g) ELSE {}  r == Res(t, out)
    <2>1. Answer(h, i, g, r)
      BY <1>6 DEF RecvSynReceived
    <2>2. r.t = t /\ r.out = out
      BY DEF Res
    <2> HIDE DEF r
    <2>3. \A q \in out : GoodSeg(q) /\ q.from = h /\ q.src = g.dst /\ q.dst = g.src /\ q.flags = {"R", "A"} /\ q.data = <<>>
      BY <1>1, RstGood
    <2> HIDE DEF out, t
    <2>4. /\ Becomes(h, i, t) /\ conns'[h][i] = t /\ InRange(t) /\ opens' = opens /\ busy' = busy
          /\ \A q \in net' : q \in net \/ q \in out
      BY <1>3, <2>1, <2>2, AnswerIs
    <2>5. Refuses(h, i, g, t)
      BY <1>2, <1>3, <2>3, <2>4 DEF Refuses
    <2>6. QED
      BY <1>2, <1>4, <2>4, <2>5
  <1>7. QED
    BY <1>5, <1>6

LEMMA SynSentIs ==
  ASSUME TypeInv, NEW h \in Hosts, NEW i \in Slots, NEW g \in net, RecvSynSent(h, i, g),
         NEW s, s = conns'[h][i]
  PROVE  /\ Becomes(h, i, s) /\ InRange(s) /\ opens' = opens /\ busy' = busy /\ conns[h][i].state = "SYN_SENT"
         /\ "R" \notin g.flags /\ Finds(h, i, g)
         /\ \/ /\ Joins(h, i, g, g.seq + 1, s) /\ "S" \in g.flags
               /\ \A q \in net' : q \in net \/ Told(q, h, s)
            \/ Refuses(h, i, g, s) /\ net' \subseteq net
  <1> DEFINE c == conns[h][i]  t == Touched(c)  n == g.seq + 1  u == SetUp(t, g, n)
  <1>1. GoodSeg(g) /\ GoodTcb(c)
    BY DEF TypeInv
  <1>2. Finds(h, i, g) /\ t.state = "SYN_SENT" /\ "R" \notin g.flags /\ initial_seq' = initial_seq
    BY DEF RecvSynSent, Arrives
  <1>3. GoodTcb(t) /\ SamePlace(c, t) /\ SameSender(c, t) /\ SameReceiver(c, t)
    BY <1>2, TouchedIs
  <1>4. c.state = "SYN_SENT" /\ c.lport = g.dst /\ c.rport = g.src /\ t.nxt = c.nxt
    BY <1>2, <1>3, FoundIs DEF SamePlace, SameSender
  <1>5. CASE {"S", "A"} \subseteq g.flags /\ g.ack = t.nxt
    <2> DEFINE out == Emit(h, u, {"A"}, <<>>)  r == Res(u, out)
    <2>1. Answer(h, i, g, r)
      BY <1>5 DEF RecvSynSent, SetUp
    <2>2. r.t = u /\ r.out = out
      BY DEF Res
    <2> HIDE DEF r
    <2>3. n \in Nat
      <3>1. g.seq \in Nat
        BY <1>1, <1>5 DEF GoodSeg
      <3>2. QED
        BY <3>1
    <2> HIDE DEF n
    <2>4. IsSetUp(c, g, n, u) /\ GoodTcb(u) /\ u.rnxt = n
      <3>1. g.ack = c.nxt /\ c.state \in {"SYN_SENT", "SYN_RECEIVED"}
        BY <1>4, <1>5
      <3> HIDE DEF c
      <3>2. IsSetUp(c, g, n, SetUp(Touched(c), g, n))
        BY <1>1, <2>3, <3>1, SetUpGood
      <3>3. QED
        BY <3>2 DEF IsSetUp
    <2> HIDE DEF u
    <2>5. ASSUME NEW q \in out PROVE Told(q, h, u)
      <3>1. q = Seg(h, u, {"A"}, <<>>, NoSack) /\ NoSack \in Int
        BY <2>5 DEF Emit, NoSack
      <3>2. Says(q, h, u)
        BY <2>4, <3>1, SaysWhere
      <3>3. QED
        BY <2>4, <3>2, SaysTold
    <2> HIDE DEF out
    <2>6. /\ Becomes(h, i, u) /\ conns'[h][i] = u /\ InRange(u) /\ opens' = opens /\ busy' = busy
          /\ \A q \in net' : q \in net \/ q \in out
      BY <2>1, <2>2, <2>4, AnswerIs
    <2>7. Joins(h, i, g, n, u)
      BY <1>2, <1>4, <1>5, <2>4 DEF Joins
    <2>8. QED
      BY <1>2, <1>4, <1>5, <2>5, <2>6, <2>7 DEF n
  <1>6. CASE ~({"S", "A"} \subseteq g.flags /\ g.ack = t.nxt)
    <2> DEFINE r == Res(t, {})
    <2>1. Answer(h, i, g, r)
      BY <1>6 DEF RecvSynSent
    <2>2. r.t = t /\ r.out = {}
      BY DEF Res
    <2> HIDE DEF r, t
    <2>4. /\ Becomes(h, i, t) /\ conns'[h][i] = t /\ InRange(t) /\ opens' = opens /\ busy' = busy
          /\ \A q \in net' : q \in net \/ q \in {}
      BY <1>3, <2>1, <2>2, AnswerIs
    <2>5. Refuses(h, i, g, t)
      BY <1>2, <1>3, <2>4 DEF Refuses
    <2>6. QED
      BY <1>2, <1>4, <2>4, <2>5
  <1>7. QED
    BY <1>5, <1>6

LEMMA RejectStep ==
  ASSUME TypeInv, NEW h \in Hosts, NEW i \in Slots, NEW g, NEW s, Becomes(h, i, s), opens' = opens, busy' = busy,
         Refuses(h, i, g, s)
  PROVE  TypeInv'
  <1>1. GoodTcb(s) /\ initial_seq' \in [Hosts -> Nat] /\ \A q \in net' : q \in net \/ GoodSeg(q)
    BY DEF TypeInv, Refuses
  <1>2. <<h, i>> \in busy => Counts(s)
    BY SameCounts DEF TypeInv, Refuses
  <1>3. opens' \in [Hosts -> Nat] /\ \A k \in Hosts : opens'[k] <= MaxOpens[k]
    BY DEF TypeInv
  <1>4. QED
    BY <1>1, <1>2, <1>3, SlotStep

LEMMA JoinsStep ==
  ASSUME TypeInv, NEW h \in Hosts, NEW i \in Slots, NEW g, NEW n, NEW s, Becomes(h, i, s), opens' = opens, busy' = busy,
         Joins(h, i, g, n, s), \A q \in net' : q \in net \/ GoodSeg(q)
  PROVE  TypeInv'
  <1>1. GoodTcb(s) /\ initial_seq' \in [Hosts -> Nat]
    BY DEF TypeInv, Joins, IsSetUp
  <1>2. Counts(s)
    BY DEF Joins, IsSetUp, Counts
  <1>3. opens' \in [Hosts -> Nat] /\ \A k \in Hosts : opens'[k] <= MaxOpens[k]
    BY DEF TypeInv
  <1>4. QED
    BY <1>1, <1>2, <1>3, SlotStep

LEMMA SynReceivedStep ==
  ASSUME TypeInv, NEW h \in Hosts, NEW i \in Slots, NEW g \in net, RecvSynReceived(h, i, g)
  PROVE  TypeInv'
  <1> DEFINE s == conns'[h][i]  n == conns[h][i].rnxt
  <1>1. /\ Becomes(h, i, s) /\ opens' = opens /\ busy' = busy
        /\ \/ Joins(h, i, g, n, s) /\ net' \subseteq net
           \/ Refuses(h, i, g, s)
    BY SynReceivedIs
  <1> HIDE DEF s, n
  <1>2. QED
    BY <1>1, JoinsStep, RejectStep

LEMMA SynSentStep ==
  ASSUME TypeInv, NEW h \in Hosts, NEW i \in Slots, NEW g \in net, RecvSynSent(h, i, g)
  PROVE  TypeInv'
  <1> DEFINE s == conns'[h][i]  n == g.seq + 1
  <1>1. /\ Becomes(h, i, s) /\ opens' = opens /\ busy' = busy
        /\ \/ Joins(h, i, g, n, s) /\ \A q \in net' : q \in net \/ Told(q, h, s)
           \/ Refuses(h, i, g, s)
    BY SynSentIs
  <1> HIDE DEF s, n
  <1>2. CASE Joins(h, i, g, n, s) /\ \A q \in net' : q \in net \/ Told(q, h, s)
    <2>1. \A q \in net' : q \in net \/ GoodSeg(q)
      BY <1>2 DEF Told
    <2>2. QED
      BY <1>1, <1>2, <2>1, JoinsStep
  <1>3. QED
    BY <1>1, <1>2, RejectStep

(* An open connection takes a segment.  Without a FIN it carries on; with one *)
(* the receiver jumps to where the FIN says.                                  *)
Grown(t, g, s) ==
  /\ GoodTcb(s) /\ s.state \in Open /\ s.lport = t.lport /\ s.rport = t.rport
  /\ t.una <= s.una /\ s.una <= t.nxt /\ t.nxt <= s.nxt /\ (t.una = t.nxt => SameSender(t, s))
  /\ \A b \in Int : Within(t, b) /\ g.seq + Len(g.data) + 1 <= b => Within(s, b)
Grows(q, h, t, g, s) ==
  /\ GoodSeg(q) /\ q.from = h /\ q.src = t.lport /\ q.dst = t.rport /\ q.flags = {"A"}
  /\ q.seq + Len(q.data) <= Sent(s)
  /\ \A b \in Int : Within(t, b) /\ g.seq + Len(g.data) + 1 <= b => q.ack <= b

LEMMA MovedSame ==
  ASSUME NEW c, NEW t, NEW g, NEW s, SamePlace(c, t), SameSender(c, t), SameReceiver(c, t), Moved(t, g, s)
  PROVE  Moved(c, g, s)
  <1>1. Sent(c) = Sent(t) /\ Edge(c) = Edge(t)
    BY DEF SameSender, SameReceiver, Sent, Edge, RxWnd
  <1>2. \A b \in Int : Within(c, b) => Within(t, b)
    BY DEF Within, SameReceiver
  <1>3. SamePlace(c, s) /\ Later(c, s) /\ Edge(s) = Edge(c)
    BY <1>1 DEF Moved, Later, SamePlace, SameReceiver
  <1>4. /\ c.una <= s.una /\ s.una <= c.nxt /\ c.nxt <= s.nxt
        /\ \/ SameSender(c, s)
           \/ s.una = g.ack /\ c.una < g.ack /\ s.wnd = g.wnd /\ (s.nxt = c.nxt \/ s.nxt <= g.ack + g.wnd)
    BY DEF Moved, SameSender
  <1>5. QED
    BY <1>2, <1>3, <1>4 DEF Moved

LEMMA MovedGrows ==
  ASSUME NEW t, GoodTcb(t), NEW g, GoodSeg(g), NEW s, Moved(t, g, s)
  PROVE  /\ t.una <= s.una /\ s.una <= t.nxt /\ t.nxt <= s.nxt /\ (t.una = t.nxt => SameSender(t, s))
         /\ \A b \in Int : Within(t, b) /\ g.seq + Len(g.data) + 1 <= b => s.rnxt <= b /\ Within(s, b)
  <1>1. t.una \in Nat /\ t.nxt \in Nat /\ s.una \in Nat /\ g.ack \in Int /\ g.seq + Len(g.data) \in Int
    <2>1. g.ack \in Int /\ g.seq \in Int /\ Len(g.data) \in Nat
      BY SegSizes
    <2>2. QED
      BY <2>1, Sizes DEF Moved
  <1>2. t.una = t.nxt => SameSender(t, s)
    BY <1>1 DEF Moved
  <1>3. ASSUME NEW b \in Int, Within(t, b), g.seq + Len(g.data) + 1 <= b PROVE Within(s, b) /\ s.rnxt <= b
    <2>1. g.seq + Len(g.data) <= b
      <3> DEFINE e == g.seq + Len(g.data)
      <3>1. e \in Int /\ e + 1 <= b
        BY <1>1, <1>3
      <3> HIDE DEF e
      <3>2. e <= b
        BY <3>1
      <3>3. QED
        BY <3>2 DEF e
    <2>2. Within(s, b)
      BY <1>3, <2>1 DEF Moved
    <2>3. QED
      BY <2>2 DEF Within
  <1>4. QED
    BY <1>2, <1>3 DEF Moved

LEMMA ToldGrows ==
  ASSUME NEW t, GoodTcb(t), NEW g, GoodSeg(g), NEW s, Moved(t, g, s), NEW h, NEW q, Told(q, h, s)
  PROVE  Grows(q, h, t, g, s)
  <1>1. /\ GoodSeg(q) /\ q.from = h /\ q.src = t.lport /\ q.dst = t.rport /\ q.flags = {"A"}
        /\ q.seq + Len(q.data) <= Sent(s) /\ q.ack <= s.rnxt
    BY DEF Told, Fits, Moved, SamePlace
  <1>2. q.ack \in Int /\ s.rnxt \in Nat
    BY <1>1, SegSizes, Sizes DEF Moved
  <1>3. ASSUME NEW b \in Int, Within(t, b), g.seq + Len(g.data) + 1 <= b PROVE q.ack <= b
    <2>1. s.rnxt <= b
      BY <1>3, MovedGrows
    <2>2. QED
      BY <1>1, <1>2, <2>1
  <1>4. QED
    BY <1>1, <1>3 DEF Grows

LEMMA MovedGrown ==
  ASSUME NEW t, GoodTcb(t), t.state \in Open, NEW g, GoodSeg(g), NEW s, Moved(t, g, s)
  PROVE  Grown(t, g, s)
  <1>1. GoodTcb(s) /\ s.state \in Open /\ s.lport = t.lport /\ s.rport = t.rport
    BY DEF Moved, SamePlace
  <1>2. QED
    BY <1>1, MovedGrows DEF Grown

LEMMA OnOpenGrows ==
  ASSUME NEW h \in Hosts, NEW t, GoodTcb(t), t.state \in Open, NEW g, GoodSeg(g), NEW r, r = OnOpen(h, t, g)
  PROVE  /\ Grown(t, g, r.t) /\ \A q \in r.out : Grows(q, h, t, g, r.t)
         /\ \/ Moved(t, g, r.t) /\ \A q \in r.out : Told(q, h, r.t)
            \/ "F" \in g.flags
  <1> DEFINE b == Body(h, t, g)  f == TakeFin(h, b.t, g)
  <1>1. r.t = f.t /\ r.out = b.out \cup f.out
    BY OnOpenIs
  <1>2. Moved(t, g, b.t) /\ \A q \in b.out : Told(q, h, b.t)
    BY BodyMoves
  <1> HIDE DEF b
  <1>3. GoodTcb(b.t) /\ b.t.state \in Open /\ b.t.lport = t.lport /\ b.t.rport = t.rport
    BY <1>2 DEF Moved, SamePlace
  <1>4. /\ GoodTcb(f.t) /\ f.t.state \in Open /\ f.t.lport = b.t.lport /\ f.t.rport = b.t.rport /\ SameSender(b.t, f.t)
        /\ f.t.ooo = b.t.ooo
        /\ \/ f.t = b.t /\ f.out = {}
           \/ "F" \in g.flags /\ f.t.rnxt = g.seq + Len(g.data) + 1
        /\ \A q \in f.out : Told(q, h, f.t)
    BY <1>3, TakeFinGood
  <1> HIDE DEF f
  <1>5. CASE f.t = b.t /\ f.out = {}
    <2>1. Moved(t, g, r.t) /\ \A q \in r.out : Told(q, h, r.t)
      BY <1>1, <1>2, <1>5
    <2>2. QED
      BY <2>1, MovedGrown, ToldGrows
  <1>6. CASE "F" \in g.flags /\ f.t.rnxt = g.seq + Len(g.data) + 1
    <2>1. /\ t.una <= b.t.una /\ b.t.una <= t.nxt /\ t.nxt <= b.t.nxt /\ (t.una = t.nxt => SameSender(t, b.t))
          /\ \A k \in Int : Within(t, k) /\ g.seq + Len(g.data) + 1 <= k => b.t.rnxt <= k /\ Within(b.t, k)
      BY <1>2, MovedGrows
    <2>2. /\ t.una <= f.t.una /\ f.t.una <= t.nxt /\ t.nxt <= f.t.nxt /\ (t.una = t.nxt => SameSender(t, f.t))
      BY <1>4, <2>1 DEF SameSender
    <2>3. g.seq + Len(g.data) \in Int
      BY SegSizes
    <2>4. ASSUME NEW k \in Int, Within(t, k), g.seq + Len(g.data) + 1 <= k PROVE Within(f.t, k) /\ f.t.rnxt <= k
      <3>1. f.t.rnxt <= k
        BY <1>6, <2>3, <2>4
      <3>2. \A o \in b.t.ooo : o.seq + Len(o.data) <= k
        BY <2>1, <2>4 DEF Within
      <3>3. QED
        BY <1>4, <3>1, <3>2 DEF Within
    <2>5. Grown(t, g, f.t)
      BY <1>3, <1>4, <2>2, <2>4 DEF Grown
    <2>6. Sent(f.t) = Sent(b.t) /\ f.t.rnxt \in Nat
      BY <1>4, Sizes DEF Sent, SameSender
    <2>7. ASSUME NEW q \in b.out PROVE Grows(q, h, t, g, f.t)
      <3>1. Grows(q, h, t, g, b.t)
        BY <1>2, <2>7, ToldGrows
      <3>2. QED
        BY <2>6, <3>1 DEF Grows
    <2>8. ASSUME NEW q \in f.out PROVE Grows(q, h, t, g, f.t)
      <3>1. /\ GoodSeg(q) /\ q.from = h /\ q.src = t.lport /\ q.dst = t.rport /\ q.flags = {"A"}
            /\ q.seq + Len(q.data) <= Sent(f.t) /\ q.ack <= f.t.rnxt
        BY <1>3, <1>4, <2>8 DEF Told, Fits
      <3>2. q.ack \in Int
        BY <3>1, SegSizes
      <3>3. \A k \in Int : Within(t, k) /\ g.seq + Len(g.data) + 1 <= k => q.ack <= k
        BY <2>4, <2>6, <3>1, <3>2
      <3>4. QED
        BY <3>1, <3>3 DEF Grows
    <2>9. QED
      BY <1>1, <1>6, <2>5, <2>7, <2>8
  <1>7. QED
    BY <1>4, <1>5, <1>6

LEMMA GrownSame ==
  ASSUME NEW c, NEW t, SamePlace(c, t), SameSender(c, t), SameReceiver(c, t), NEW g, NEW s, NEW h
  PROVE  /\ Grown(t, g, s) => Grown(c, g, s)
         /\ \A q : Grows(q, h, t, g, s) => Grows(q, h, c, g, s)
         /\ Wound(t, g, s) => Wound(c, g, s)
  <1>1. \A b \in Int : Within(c, b) => Within(t, b)
    BY DEF Within, SameReceiver
  <1>2. Grown(t, g, s) => Grown(c, g, s)
    BY <1>1 DEF Grown, SamePlace, SameSender
  <1>3. \A q : Grows(q, h, t, g, s) => Grows(q, h, c, g, s)
    BY <1>1 DEF Grows, SamePlace
  <1>4. Wound(t, g, s) => Wound(c, g, s)
    BY DEF Wound, SamePlace, SameSender, SameReceiver
  <1>5. QED
    BY <1>2, <1>3, <1>4

(* A segment without RST and SYN, at a connection that is set up. *)
Synced(h, i, g, s) ==
  LET c == conns[h][i] IN
  \/ /\ c.state \in Open /\ Grown(c, g, s) /\ \A q \in net' : q \in net \/ Grows(q, h, c, g, s)
     /\ \/ Moved(c, g, s) /\ \A q \in net' : q \in net \/ Told(q, h, s)
        \/ "F" \in g.flags
  \/ c.state \in Closing /\ Wound(c, g, s) /\ \A q \in net' : q \in net \/ Told(q, h, s)
  \/ c.state \in Closing /\ s = Unused /\ net' \subseteq net

LEMMA SyncedIs ==
  ASSUME TypeInv, NEW h \in Hosts, NEW i \in Slots, NEW g \in net, RecvSynced(h, i, g),
         NEW s, s = conns'[h][i]
  PROVE  /\ Becomes(h, i, s) /\ InRange(s) /\ opens' = opens /\ busy' = busy /\ initial_seq' = initial_seq
         /\ "R" \notin g.flags /\ "S" \notin g.flags /\ Finds(h, i, g)
         /\ Synced(h, i, g, s)
  <1> DEFINE c == conns[h][i]  t == Touched(c)
  <1>1. GoodSeg(g) /\ GoodTcb(c)
    BY DEF TypeInv
  <1>2. Finds(h, i, g) /\ "R" \notin g.flags /\ "S" \notin g.flags /\ initial_seq' = initial_seq
    BY DEF RecvSynced, Arrives
  <1>3. GoodTcb(t) /\ SamePlace(c, t) /\ SameSender(c, t) /\ SameReceiver(c, t)
    BY <1>2, TouchedIs
  <1>4. \/ t.state \in Open /\ Answer(h, i, g, OnOpen(h, t, g))
        \/ t.state = "FIN_WAIT_1" /\ Answer(h, i, g, OnFinWait1(h, t, g))
        \/ t.state = "FIN_WAIT_2" /\ Answer(h, i, g, OnLastFin(h, t, g))
        \/ t.state = "LAST_ACK" /\ Answer(h, i, g, Res(IF "A" \in g.flags THEN Unused ELSE t, {}))
        \/ t.state = "TIME_WAIT" /\ Answer(h, i, g, Res(t, {}))
    BY DEF RecvSynced
  <1>5. c.state = t.state
    BY <1>3 DEF SamePlace
  <1> HIDE DEF c, t
  <1>6. CASE t.state \in Open /\ Answer(h, i, g, OnOpen(h, t, g))
    <2> DEFINE r == OnOpen(h, t, g)
    <2>1. /\ Grown(t, g, r.t) /\ \A q \in r.out : Grows(q, h, t, g, r.t)
          /\ \/ Moved(t, g, r.t) /\ \A q \in r.out : Told(q, h, r.t)
             \/ "F" \in g.flags
      BY <1>1, <1>3, <1>6, OnOpenGrows
    <2> HIDE DEF r
    <2>2. GoodTcb(r.t)
      BY <2>1 DEF Grown
    <2>3. Answer(h, i, g, r)
      BY <1>6 DEF r
    <2>4. /\ Becomes(h, i, r.t) /\ conns'[h][i] = r.t /\ InRange(r.t) /\ opens' = opens /\ busy' = busy
          /\ \A q \in net' : q \in net \/ q \in r.out
      BY <2>2, <2>3, AnswerIs
    <2>5. Grown(c, g, r.t) /\ \A q \in r.out : Grows(q, h, c, g, r.t)
      BY <1>3, <2>1, GrownSame
    <2>6. Moved(t, g, r.t) => Moved(c, g, r.t)
      BY <1>3, MovedSame
    <2>7. c.state \in Open
      BY <1>5, <1>6
    <2>8. Synced(h, i, g, r.t)
      BY <2>1, <2>4, <2>5, <2>6, <2>7 DEF Synced, c
    <2>9. QED
      BY <1>2, <2>4, <2>8
  <1>7. ASSUME NEW r, Answer(h, i, g, r), Wound(t, g, r.t), \A q \in r.out : Told(q, h, r.t), t.state \in Closing
        PROVE  Becomes(h, i, s) /\ InRange(s) /\ opens' = opens /\ busy' = busy /\ Synced(h, i, g, s)
    <2>1. GoodTcb(r.t)
      BY <1>7 DEF Wound
    <2>2. /\ Becomes(h, i, r.t) /\ conns'[h][i] = r.t /\ InRange(r.t) /\ opens' = opens /\ busy' = busy
          /\ \A q \in net' : q \in net \/ q \in r.out
      BY <1>7, <2>1, AnswerIs
    <2>3. Wound(c, g, r.t) /\ c.state \in Closing
      BY <1>3, <1>5, <1>7, GrownSame
    <2>4. Synced(h, i, g, r.t)
      BY <1>7, <2>2, <2>3 DEF Synced, c
    <2>5. QED
      BY <2>2, <2>4
  <1>8. {"FIN_WAIT_1", "FIN_WAIT_2", "LAST_ACK", "TIME_WAIT"} = Closing
    BY DEF Closing
  <1>9. CASE t.state = "FIN_WAIT_1" /\ Answer(h, i, g, OnFinWait1(h, t, g))
    <2> DEFINE r == OnFinWait1(h, t, g)
    <2>1. Wound(t, g, r.t) /\ \A q \in r.out : Told(q, h, r.t)
      BY <1>1, <1>3, <1>9, OnFinWait1Good
    <2> HIDE DEF r
    <2>2. Answer(h, i, g, r) /\ t.state \in Closing
      BY <1>8, <1>9 DEF r
    <2>3. QED
      BY <1>2, <1>7, <2>1, <2>2
  <1>10. CASE t.state = "FIN_WAIT_2" /\ Answer(h, i, g, OnLastFin(h, t, g))
    <2> DEFINE r == OnLastFin(h, t, g)
    <2>1. t.state \in Closing
      BY <1>8, <1>10
    <2>2. Wound(t, g, r.t) /\ \A q \in r.out : Told(q, h, r.t)
      BY <1>1, <1>3, <2>1, OnLastFinGood
    <2> HIDE DEF r
    <2>3. Answer(h, i, g, r)
      BY <1>10 DEF r
    <2>4. QED
      BY <1>2, <1>7, <2>1, <2>2, <2>3
  <1>11. ASSUME t.state \in {"LAST_ACK", "TIME_WAIT"}, Answer(h, i, g, Res(t, {}))
         PROVE  Becomes(h, i, s) /\ InRange(s) /\ opens' = opens /\ busy' = busy /\ Synced(h, i, g, s)
    <2> DEFINE r == Res(t, {})
    <2>1. r.t = t /\ r.out = {}
      BY DEF Res
    <2>2. t.state \in Closing
      BY <1>8, <1>11
    <2>3. Wound(t, g, t)
      BY <1>3, <2>2 DEF Wound, SameSender
    <2> HIDE DEF r
    <2>4. Answer(h, i, g, r)
      BY <1>11 DEF r
    <2>5. QED
      BY <1>7, <2>1, <2>2, <2>3, <2>4
  <1>12. CASE t.state = "LAST_ACK" /\ Answer(h, i, g, Res(IF "A" \in g.flags THEN Unused ELSE t, {}))
    <2>1. CASE "A" \in g.flags
      <3> DEFINE r == Res(Unused, {})
      <3>1. r.t = Unused /\ r.out = {} /\ GoodTcb(Unused)
        BY BlankTcb DEF Res
      <3>2. Answer(h, i, g, r)
        BY <1>12, <2>1
      <3> HIDE DEF r
      <3>3. /\ Becomes(h, i, r.t) /\ conns'[h][i] = r.t /\ InRange(r.t) /\ opens' = opens /\ busy' = busy
            /\ \A q \in net' : q \in net \/ q \in r.out
        BY <3>1, <3>2, AnswerIs
      <3>4. c.state \in Closing
        BY <1>5, <1>8, <1>12
      <3>5. Synced(h, i, g, r.t)
        BY <3>1, <3>3, <3>4 DEF Synced, c
      <3>6. QED
        BY <1>2, <3>3, <3>5
    <2>2. CASE "A" \notin g.flags
      <3>1. t.state \in {"LAST_ACK", "TIME_WAIT"} /\ Answer(h, i, g, Res(t, {}))
        BY <1>12, <2>2
      <3>2. QED
        BY <1>2, <1>11, <3>1
    <2>3. QED
      BY <2>1, <2>2
  <1>13. CASE t.state = "TIME_WAIT" /\ Answer(h, i, g, Res(t, {}))
    BY <1>2, <1>11, <1>13
  <1>14. QED
    BY <1>4, <1>6, <1>9, <1>10, <1>12, <1>13

LEMMA SyncedStep ==
  ASSUME TypeInv, NEW h \in Hosts, NEW i \in Slots, NEW g \in net, RecvSynced(h, i, g)
  PROVE  TypeInv'
  <1> DEFINE c == conns[h][i]  s == conns'[h][i]
  <1>1. Becomes(h, i, s) /\ opens' = opens /\ busy' = busy /\ initial_seq' = initial_seq /\ Synced(h, i, g, s)
    BY SyncedIs
  <1> HIDE DEF s
  <1>2. GoodTcb(s)
    BY <1>1, BlankTcb DEF Synced, Grown, Wound
  <1>3. \A q \in net' : q \in net \/ GoodSeg(q)
    BY <1>1 DEF Synced, Grows, Told
  <1>4. <<h, i>> \in busy => Counts(s)
    <2> SUFFICES ASSUME <<h, i>> \in busy PROVE Counts(s)
      OBVIOUS
    <2>1. Counts(c)
      BY DEF TypeInv
    <2>2. \/ s = Unused
          \/ SameSender(c, s) /\ s.state \in Open \cup Closing
      BY <1>1, <2>1 DEF Synced, Grown, Wound, Counts
    <2>3. QED
      BY <2>1, <2>2, BlankCounts DEF Counts, SameSender, Open, Closing
  <1>5. initial_seq' \in [Hosts -> Nat] /\ opens' \in [Hosts -> Nat] /\ \A k \in Hosts : opens'[k] <= MaxOpens[k]
    BY <1>1 DEF TypeInv
  <1>6. QED
    BY <1>1, <1>2, <1>3, <1>4, <1>5, SlotStep

-----------------------------------------------------------------------------
(* The steps of programs and timers.                                         *)

Counted(t) == IF t.state = "CLOSED" THEN t ELSE Arm([t EXCEPT !.nxt = t.nxt + 1])

LEMMA CountedGood ==
  ASSUME NEW t, GoodTcb(t), Counts(t)
  PROVE  /\ GoodTcb(Counted(t)) /\ SamePlace(t, Counted(t)) /\ SameReceiver(t, Counted(t))
         /\ Counted(t).una = t.una /\ Counted(t).wnd = t.wnd /\ Counted(t).persist = t.persist
         /\ Counted(t).nxt = (IF t.state = "CLOSED" THEN t.nxt ELSE t.nxt + 1)
  <1>1. CASE t.state = "CLOSED"
    BY <1>1 DEF Counted, SamePlace, SameReceiver
  <1>2. CASE t.state # "CLOSED"
    <2> DEFINE n == t.nxt + 1  s == [t EXCEPT !.nxt = n]
    <2>1. t \in Tcb /\ t.nxt \in Nat /\ t.una = t.nxt /\ t.persist = FALSE
      <3>1. t \in Tcb /\ t.nxt \in Nat /\ t.una = t.nxt /\ ~t.persist /\ t.persist \in BOOLEAN
        BY Sizes, Fields DEF GoodTcb, Counts
      <3>2. QED
        BY <3>1
    <2>2. n \in Nat
      BY <2>1
    <2>3. Counted(t) = Arm(s)
      BY <1>2 DEF Counted
    <2> HIDE DEF n
    <2>4. s \in Tcb
      BY <2>1, <2>2, Zenon DEF Tcb
    <2>5. /\ SamePlace(t, s) /\ SameReceiver(t, s) /\ s.una = t.una /\ s.wnd = t.wnd /\ s.persist = t.persist
          /\ s.nxt = n
      BY <2>1, Zenon DEF Tcb, SamePlace, SameReceiver
    <2> HIDE DEF s
    <2>6. GoodTcb(s)
      <3>1. n = t.una + 1 /\ t.una \in Nat
        BY <2>1 DEF n
      <3>2. s.una <= s.nxt /\ s.nxt - s.una < BufSize
        BY <2>5, <3>1, Given
      <3>3. QED
        BY <1>2, <2>1, <2>4, <2>5, <3>2 DEF GoodTcb, SamePlace, SameReceiver
    <2>7. s.state # "CLOSED"
      BY <1>2, <2>5 DEF SamePlace
    <2>8. GoodTcb(Arm(s)) /\ SamePlace(s, Arm(s)) /\ SameSender(s, Arm(s)) /\ SameReceiver(s, Arm(s))
      BY <2>6, <2>7, ArmGood
    <2>9. QED
      BY <1>2, <2>3, <2>5, <2>8 DEF SamePlace, SameSender, SameReceiver, n
  <1>3. QED
    BY <1>1, <1>2

LEMMA CountedIs ==
  ASSUME TypeInv, NEW h \in Hosts, NEW i \in Slots, ConnectCounted(h, i)
  PROVE  /\ Becomes(h, i, Counted(conns[h][i])) /\ conns'[h][i] = Counted(conns[h][i])
         /\ GoodTcb(Counted(conns[h][i])) /\ Counts(conns[h][i])
         /\ <<h, i>> \in busy /\ busy' = busy \ {<<h, i>>}
         /\ initial_seq' = initial_seq /\ opens' = opens /\ net' = net
  <1>1. Becomes(h, i, Counted(conns[h][i]))
    BY Zenon DEF ConnectCounted, Becomes, Counted
  <1>2. <<h, i>> \in busy /\ busy' = busy \ {<<h, i>>} /\ initial_seq' = initial_seq /\ opens' = opens /\ net' = net
    BY DEF ConnectCounted
  <1>3. GoodTcb(conns[h][i]) /\ Counts(conns[h][i])
    BY <1>2 DEF TypeInv
  <1>4. GoodTcb(Counted(conns[h][i]))
    BY <1>3, CountedGood
  <1>5. conns'[h][i] = Counted(conns[h][i])
    <2>1. conns \in [Hosts -> [Slots -> Tcb]] /\ Counted(conns[h][i]) \in Tcb
      BY <1>4 DEF TypeInv, GoodTcb
    <2> DEFINE s == Counted(conns[h][i])
    <2> HIDE DEF s
    <2>2. conns'[h][i] = s
      BY <1>1, <2>1, BecomesIs DEF s
    <2>3. QED
      BY <2>2 DEF s
  <1>6. QED
    BY <1>1, <1>2, <1>3, <1>4, <1>5

LEMMA CountedStep ==
  ASSUME TypeInv, NEW h \in Hosts, NEW i \in Slots, ConnectCounted(h, i)
  PROVE  TypeInv'
  <1> DEFINE s == Counted(conns[h][i])
  <1>1. /\ Becomes(h, i, s) /\ GoodTcb(s) /\ busy' = busy \ {<<h, i>>}
        /\ initial_seq' = initial_seq /\ opens' = opens /\ net' = net
    BY CountedIs
  <1>2. initial_seq' \in [Hosts -> Nat] /\ opens' \in [Hosts -> Nat] /\ \A k \in Hosts : opens'[k] <= MaxOpens[k]
    BY <1>1 DEF TypeInv
  <1> HIDE DEF s
  <1>3. QED
    BY <1>1, <1>2, SlotStep

(* tcp_connect() *)
Dials(h, i, s) ==
  /\ h = Client /\ conns[h][i].state = "CLOSED" /\ opens[h] < MaxOpens[h]
  /\ opens' = [opens EXCEPT ![h] = @ + 1] /\ initial_seq' = [initial_seq EXCEPT ![h] = @ + IssStep]
  /\ busy' = {<<h, i>>} /\ Becomes(h, i, s)
  /\ GoodTcb(s) /\ s.state = "SYN_SENT" /\ s.lport = opens[h] + 1 /\ s.rport = ListenPort
  /\ s.una = initial_seq[h] /\ s.nxt = initial_seq[h] /\ s.rnxt = 0 /\ s.ooo = {} /\ s.persist = FALSE
  /\ \A q \in net' : \/ q \in net
                     \/ /\ GoodSeg(q) /\ q.from = h /\ q.src = s.lport /\ q.dst = ListenPort
                        /\ q.flags = {"S"} /\ q.seq = initial_seq[h] /\ q.ack = 0 /\ q.data = <<>>

LEMMA ConnectIs ==
  ASSUME TypeInv, NEW h \in Hosts, NEW i \in Slots, Connect(h, i), NEW s, s = conns'[h][i]
  PROVE  Dials(h, i, s)
  <1> DEFINE p == opens[h] + 1  n == initial_seq[h]  t == NewTcb("SYN_SENT", p, ListenPort, n)
  <1>1. /\ h = Client /\ conns[h][i].state = "CLOSED" /\ opens[h] < MaxOpens[h]
        /\ opens' = [opens EXCEPT ![h] = @ + 1] /\ initial_seq' = [initial_seq EXCEPT ![h] = @ + IssStep]
        /\ busy' = {<<h, i>>}
    BY Given DEF Connect, FreeSlot, Opens
  <1>2. Becomes(h, i, t) /\ net' = net \cup Emit(h, t, {"S"}, <<>>)
    BY DEF Connect, Becomes, NewTcb
  <1>3. n \in Nat /\ p \in Port /\ ListenPort \in Port
    <2>1. initial_seq[h] \in Nat /\ opens[h] \in Nat
      BY DEF TypeInv
    <2>2. MaxOpens[Client] \in Nat
      BY Given
    <2>3. p <= NoPort
      BY <1>1, <2>1, <2>2, Ports
    <2>4. QED
      BY <2>1, <2>3, Ports DEF Port, ListenPort
  <1> HIDE DEF n, p
  <1>4. /\ GoodTcb(t) /\ t.state = "SYN_SENT" /\ t.lport = p /\ t.rport = ListenPort /\ t.una = n /\ t.nxt = n
        /\ t.rnxt = 0 /\ t.rx = <<>> /\ t.ooo = {} /\ t.persist = FALSE
    <2>1. IsNew("SYN_SENT", p, ListenPort, n, t)
      BY <1>3, NewTcbGood
    <2>2. QED
      BY <2>1 DEF IsNew
  <1> HIDE DEF t
  <1>5. s = t
    <2>1. conns \in [Hosts -> [Slots -> Tcb]] /\ t \in Tcb
      BY <1>4 DEF TypeInv, GoodTcb
    <2>2. QED
      BY <1>2, <2>1, BecomesIs
  <1>6. ASSUME NEW q \in Emit(h, t, {"S"}, <<>>)
        PROVE  /\ GoodSeg(q) /\ q.from = h /\ q.src = p /\ q.dst = ListenPort
               /\ q.flags = {"S"} /\ q.seq = n /\ q.ack = 0 /\ q.data = <<>>
    <2>1. q = Seg(h, t, {"S"}, <<>>, NoSack) /\ {"S"} \in FlagSets
      BY <1>6 DEF Emit, FlagSets
    <2>2. /\ GoodSeg(q) /\ q.from = h /\ q.src = t.lport /\ q.dst = t.rport /\ q.flags = {"S"} /\ q.seq = t.nxt
          /\ q.ack = t.rnxt /\ q.data = <<>>
      BY <1>4, <2>1, FinSegment
    <2>3. QED
      BY <1>4, <2>2
  <1>7. QED
    BY <1>1, <1>2, <1>4, <1>5, <1>6 DEF n, p, Dials

LEMMA ConnectStep ==
  ASSUME TypeInv, NEW h \in Hosts, NEW i \in Slots, Connect(h, i)
  PROVE  TypeInv'
  <1> DEFINE s == conns'[h][i]
  <1>1. Dials(h, i, s)
    BY ConnectIs
  <1> HIDE DEF s
  <1>2. h \in Clients /\ Counts(s)
    BY <1>1, Given DEF Counts, Dials
  <1>3. initial_seq' \in [Hosts -> Nat]
    BY <1>1, Given DEF TypeInv, Dials
  <1>4. opens' \in [Hosts -> Nat] /\ \A k \in Hosts : opens'[k] <= MaxOpens[k]
    <2>1. opens \in [Hosts -> Nat] /\ MaxOpens[h] \in Nat /\ \A k \in Hosts : opens[k] <= MaxOpens[k]
      BY Given DEF TypeInv
    <2>2. QED
      BY <1>1, <2>1 DEF Dials
  <1>5. Becomes(h, i, s) /\ GoodTcb(s) /\ busy' = {<<h, i>>} /\ \A q \in net' : q \in net \/ GoodSeg(q)
    BY <1>1 DEF Dials
  <1>6. QED
    BY <1>2, <1>3, <1>4, <1>5, SlotStep

(* A step that changes one slot and the wire only, with no SYN uncounted.    *)
LEMMA LocalStep ==
  ASSUME TypeInv, NEW h \in Hosts, NEW i \in Slots, NEW s, GoodTcb(s), Becomes(h, i, s), busy = {},
         initial_seq' = initial_seq, opens' = opens, busy' = busy, \A q \in net' : q \in net \/ GoodSeg(q)
  PROVE  TypeInv'
  <1>1. initial_seq' \in [Hosts -> Nat] /\ opens' \in [Hosts -> Nat] /\ \A k \in Hosts : opens'[k] <= MaxOpens[k]
    BY DEF TypeInv
  <1>2. QED
    BY <1>1, SlotStep

LEMMA BecomesThat ==
  ASSUME TypeInv, NEW h \in Hosts, NEW i \in Slots, NEW s, GoodTcb(s), Becomes(h, i, s)
  PROVE  conns'[h][i] = s
  BY BecomesIs DEF TypeInv, GoodTcb

(* tcp_listen() *)
Listens(h, i, s) ==
  /\ h = Server /\ conns[h][i].state = "CLOSED" /\ opens[h] < MaxOpens[h]
  /\ opens' = [opens EXCEPT ![h] = @ + 1] /\ initial_seq' = initial_seq /\ busy' = busy /\ net' = net
  /\ Becomes(h, i, s) /\ IsNew("LISTEN", ListenPort, NoPort, 0, s)

LEMMA ListensIs ==
  ASSUME TypeInv, NEW h \in Hosts, NEW i \in Slots, Listen(h, i), NEW s, s = conns'[h][i]
  PROVE  Listens(h, i, s)
  <1> DEFINE t == NewTcb("LISTEN", ListenPort, NoPort, 0)
  <1>1. /\ h = Server /\ conns[h][i].state = "CLOSED" /\ opens[h] < MaxOpens[h]
        /\ opens' = [opens EXCEPT ![h] = @ + 1] /\ initial_seq' = initial_seq /\ busy' = busy /\ net' = net
    BY Given DEF Listen, FreeSlot, Opens
  <1>2. ListenPort \in Port /\ NoPort \in Port /\ 0 \in Nat
    BY Ports DEF Port, ListenPort
  <1>3. IsNew("LISTEN", ListenPort, NoPort, 0, t)
    BY <1>2, NewTcbGood
  <1>4. t = [Unused EXCEPT !.state = "LISTEN", !.lport = ListenPort, !.rport = NoPort]
    <2>1. Unused.una = 0 /\ Unused.nxt = 0 /\ Unused \in Tcb
      BY BlankTcb, Zenon DEF Unused, GoodTcb
    <2> DEFINE u == Unused
    <2>2. u.una = 0 /\ u.nxt = 0 /\ u \in Tcb
      BY <2>1
    <2> HIDE DEF u
    <2>3. [u EXCEPT !.state = "LISTEN", !.lport = ListenPort, !.rport = NoPort, !.una = 0, !.nxt = 0]
          = [u EXCEPT !.state = "LISTEN", !.lport = ListenPort, !.rport = NoPort]
      BY <2>2, ZenonT(60) DEF Tcb
    <2>4. QED
      BY <2>3 DEF u, NewTcb
  <1>5. Becomes(h, i, t)
    BY <1>4 DEF Listen, Becomes
  <1> HIDE DEF t
  <1>6. s = t
    BY <1>3, <1>5, BecomesThat DEF IsNew
  <1>7. QED
    BY <1>1, <1>3, <1>5, <1>6 DEF Listens

LEMMA ListensStep ==
  ASSUME TypeInv, NEW h \in Hosts, NEW i \in Slots, busy = {}, Listen(h, i)
  PROVE  TypeInv'
  <1> DEFINE s == conns'[h][i]
  <1>1. Listens(h, i, s)
    BY ListensIs
  <1> HIDE DEF s
  <1>2. Becomes(h, i, s) /\ GoodTcb(s) /\ busy' = busy /\ initial_seq' = initial_seq /\ net' = net
    BY <1>1 DEF Listens, IsNew
  <1>3. opens' \in [Hosts -> Nat] /\ \A k \in Hosts : opens'[k] <= MaxOpens[k]
    <2>1. opens \in [Hosts -> Nat] /\ MaxOpens[h] \in Nat /\ \A k \in Hosts : opens[k] <= MaxOpens[k]
      BY Given DEF TypeInv
    <2>2. QED
      BY <1>1, <2>1 DEF Listens
  <1>4. initial_seq' \in [Hosts -> Nat] /\ \A q \in net' : q \in net \/ GoodSeg(q)
    BY <1>2 DEF TypeInv
  <1>5. QED
    BY <1>2, <1>3, <1>4, SlotStep

(* tcp_send() *)
Sends(h, i, s) ==
  /\ conns[h][i].state \in Open /\ Becomes(h, i, s) /\ InRange(s) /\ Pushed(conns[h][i], s)
  /\ \A q \in net' : q \in net \/ Told(q, h, s)
  /\ UNCHANGED <<initial_seq, opens, busy>>

LEMMA SendIs ==
  ASSUME TypeInv, NEW h \in Hosts, NEW i \in Slots, NEW n \in Nat, Send(h, i, n), NEW s, s = conns'[h][i]
  PROVE  Sends(h, i, s)
  <1> DEFINE t == conns[h][i]  w == Written(t, Least(n, BufSize - 1 - Pending(t)))  r == Drain(h, w)
  <1>1. /\ t.state \in Open /\ InRange(r.t) /\ Becomes(h, i, r.t) /\ net' = net \cup r.out
        /\ UNCHANGED <<initial_seq, opens, busy>>
    BY DEF Send, Becomes, Written
  <1>2. GoodTcb(t)
    BY DEF TypeInv
  <1> HIDE DEF t
  <1>3. Pushed(t, r.t) /\ \A q \in r.out : Says(q, h, r.t)
    BY <1>1, <1>2, SendPushes
  <1> HIDE DEF r
  <1>4. GoodTcb(r.t)
    BY <1>3 DEF Pushed
  <1>5. s = r.t
    BY <1>1, <1>4, BecomesThat
  <1>6. \A q \in r.out : Told(q, h, r.t)
    BY <1>3, <1>4, SaysTold
  <1>7. QED
    BY <1>1, <1>3, <1>5, <1>6 DEF Sends, t

LEMMA SendStep ==
  ASSUME TypeInv, NEW h \in Hosts, NEW i \in Slots, NEW n \in Nat, busy = {}, Send(h, i, n)
  PROVE  TypeInv'
  <1> DEFINE s == conns'[h][i]
  <1>1. Sends(h, i, s)
    BY SendIs
  <1> HIDE DEF s
  <1>2. GoodTcb(s) /\ Becomes(h, i, s) /\ initial_seq' = initial_seq /\ opens' = opens /\ busy' = busy
        /\ \A q \in net' : q \in net \/ GoodSeg(q)
    BY <1>1 DEF Sends, Pushed, Told
  <1>3. QED
    BY <1>2, LocalStep

(* tcp_recv() *)
Reads(h, i, s) ==
  LET t == conns[h][i] IN
  /\ Becomes(h, i, s) /\ GoodTcb(s) /\ SamePlace(t, s) /\ SameSender(t, s) /\ Later(t, s)
  /\ s.rnxt = t.rnxt /\ s.ooo = t.ooo /\ t.state \notin Starting
  /\ UNCHANGED <<initial_seq, opens, busy, net>>

LEMMA RecvIs ==
  ASSUME TypeInv, NEW h \in Hosts, NEW i \in Slots, NEW n \in Nat, Recv(h, i, n), NEW s, s = conns'[h][i]
  PROVE  Reads(h, i, s)
  <1> DEFINE t == conns[h][i]  u == [t EXCEPT !.rx = SubSeq(t.rx, Least(n, Len(t.rx)) + 1, Len(t.rx))]
  <1>1. t.rx # <<>> /\ UNCHANGED <<initial_seq, opens, busy, net>>
    BY DEF Recv
  <1>2. Becomes(h, i, u)
    <2>1. conns \in [Hosts -> [Slots -> Tcb]]
      BY DEF TypeInv
    <2>2. conns' = [conns EXCEPT ![h][i].rx = SubSeq(@, Least(n, Len(@)) + 1, Len(@))]
      BY DEF Recv
    <2> DEFINE x == SubSeq(t.rx, Least(n, Len(t.rx)) + 1, Len(t.rx))
    <2>3. conns' = [conns EXCEPT ![h][i].rx = x]
      BY <2>2
    <2>4. u = [t EXCEPT !.rx = x]
      OBVIOUS
    <2> HIDE DEF x, u
    <2>5. QED
      BY <2>1, <2>3, <2>4 DEF Becomes
  <1>3. GoodTcb(t)
    BY DEF TypeInv
  <1> HIDE DEF t
  <1>4. GoodTcb(u) /\ SamePlace(t, u) /\ SameSender(t, u) /\ Later(t, u) /\ u.rnxt = t.rnxt /\ u.ooo = t.ooo
    BY <1>1, <1>3, RecvGood
  <1> HIDE DEF u
  <1>5. s = u
    BY <1>2, <1>4, BecomesThat
  <1>6. t.state \notin Starting
    BY <1>1, <1>3 DEF GoodTcb
  <1>7. QED
    BY <1>1, <1>2, <1>4, <1>5, <1>6 DEF Reads, t

LEMMA RecvStep ==
  ASSUME TypeInv, NEW h \in Hosts, NEW i \in Slots, NEW n \in Nat, busy = {}, Recv(h, i, n)
  PROVE  TypeInv'
  <1> DEFINE s == conns'[h][i]
  <1>1. Reads(h, i, s)
    BY RecvIs
  <1> HIDE DEF s
  <1>2. GoodTcb(s) /\ Becomes(h, i, s) /\ initial_seq' = initial_seq /\ opens' = opens /\ busy' = busy /\ net' = net
    BY <1>1 DEF Reads
  <1>3. QED
    BY <1>2, LocalStep

(* tcp_close() and tcp_close_pid() *)
Shuts(t, s) ==
  \/ t.state \notin Open /\ s = Unused
  \/ /\ t.state \in Open /\ s.state \in Closing /\ s.lport = t.lport /\ s.rport = t.rport
     /\ s.una = t.una /\ s.nxt = t.nxt + 1 /\ s.rnxt = t.rnxt /\ s.ooo = t.ooo
IsFin(q, h, t) ==
  /\ GoodSeg(q) /\ q.from = h /\ q.src = t.lport /\ q.dst = t.rport /\ t.state \in Open
  /\ q.flags = {"F", "A"} /\ q.seq = t.nxt /\ q.data = <<>> /\ q.ack = t.rnxt

LEMMA ClosedShuts ==
  ASSUME NEW h \in Hosts, NEW t, GoodTcb(t)
  PROVE  GoodTcb(Closed(h, t).t) /\ Shuts(t, Closed(h, t).t) /\ \A q \in Closed(h, t).out : IsFin(q, h, t)
  <1> DEFINE r == Closed(h, t)
  <1>1. /\ GoodTcb(r.t)
        /\ \/ t.state \notin Open /\ r.t = Unused /\ r.out = {}
           \/ /\ t.state \in Open /\ r.t.state \in Closing /\ r.t.lport = t.lport /\ r.t.rport = t.rport
              /\ r.t.una = t.una /\ r.t.nxt = t.nxt + 1 /\ r.t.rnxt = t.rnxt /\ r.t.ooo = t.ooo
              /\ \A q \in r.out : /\ GoodSeg(q) /\ q.from = h /\ q.src = t.lport /\ q.dst = t.rport
                                  /\ q.flags = {"F", "A"} /\ q.seq = t.nxt /\ q.data = <<>> /\ q.ack = t.rnxt
    BY ClosedIs
  <1> HIDE DEF r
  <1>2. Shuts(t, r.t) /\ \A q \in r.out : IsFin(q, h, t)
    BY <1>1 DEF Shuts, IsFin
  <1>3. QED
    BY <1>1, <1>2 DEF r

Closes(h, i, s) ==
  /\ Becomes(h, i, s) /\ GoodTcb(s) /\ Shuts(conns[h][i], s)
  /\ \A q \in net' : q \in net \/ IsFin(q, h, conns[h][i])
  /\ UNCHANGED <<initial_seq, opens, busy>>

LEMMA CloseIs ==
  ASSUME TypeInv, NEW h \in Hosts, NEW i \in Slots, Close(h, i), NEW s, s = conns'[h][i]
  PROVE  Closes(h, i, s)
  <1> DEFINE t == conns[h][i]  r == Closed(h, t)
  <1>1. GoodTcb(t)
    BY DEF TypeInv
  <1>2. Becomes(h, i, r.t) /\ net' = net \cup r.out /\ UNCHANGED <<initial_seq, opens, busy>>
    BY DEF Close, Becomes
  <1> HIDE DEF t
  <1>3. GoodTcb(r.t) /\ Shuts(t, r.t) /\ \A q \in r.out : IsFin(q, h, t)
    BY <1>1, ClosedShuts
  <1> HIDE DEF r
  <1>4. s = r.t
    BY <1>2, <1>3, BecomesThat
  <1>5. QED
    BY <1>2, <1>3, <1>4 DEF Closes, t

LEMMA CloseStep ==
  ASSUME TypeInv, NEW h \in Hosts, NEW i \in Slots, busy = {}, Close(h, i)
  PROVE  TypeInv'
  <1> DEFINE s == conns'[h][i]
  <1>1. Closes(h, i, s)
    BY CloseIs
  <1> HIDE DEF s
  <1>2. GoodTcb(s) /\ Becomes(h, i, s) /\ initial_seq' = initial_seq /\ opens' = opens /\ busy' = busy
        /\ \A q \in net' : q \in net \/ GoodSeg(q)
    BY <1>1 DEF Closes, IsFin
  <1>3. QED
    BY <1>2, LocalStep

LEMMA ExitIs ==
  ASSUME TypeInv, NEW h \in Hosts, Exit(h)
  PROVE  /\ conns' \in [Hosts -> [Slots -> Tcb]]
         /\ \A k \in Hosts, j \in Slots : k # h => conns'[k][j] = conns[k][j]
         /\ \A j \in Slots : GoodTcb(conns'[h][j]) /\ Shuts(conns[h][j], conns'[h][j])
         /\ \A q \in net' : \/ q \in net
                            \/ \E j \in Slots : IsFin(q, h, conns[h][j])
         /\ UNCHANGED <<initial_seq, opens, busy>>
  <1> DEFINE used == {i \in Slots : conns[h][i].state # "CLOSED"}
             f == [i \in Slots |-> IF i \in used THEN Closed(h, conns[h][i]).t ELSE conns[h][i]]
  <1>1. conns' = [conns EXCEPT ![h] = f] /\ UNCHANGED <<initial_seq, opens, busy>>
    BY DEF Exit
  <1>2. net' = net \cup UNION {Closed(h, conns[h][i]).out : i \in used}
    BY DEF Exit
  <1>3. ASSUME NEW j \in Slots PROVE GoodTcb(f[j]) /\ Shuts(conns[h][j], f[j])
    <2>1. GoodTcb(conns[h][j])
      BY DEF TypeInv
    <2>2. CASE j \in used
      BY <2>1, <2>2, ClosedShuts
    <2>3. CASE j \notin used
      <3>1. conns[h][j] = Unused /\ f[j] = Unused /\ conns[h][j].state \notin Open
        BY <2>1, <2>3 DEF GoodTcb, Open
      <3>2. QED
        BY <3>1, BlankTcb DEF Shuts
    <2>4. QED
      BY <2>2, <2>3
  <1>4. f \in [Slots -> Tcb]
    <2>1. \A j \in Slots : f[j] \in Tcb
      BY <1>3 DEF GoodTcb
    <2>2. DOMAIN f = Slots /\ f = [j \in Slots |-> f[j]]
      OBVIOUS
    <2> HIDE DEF f
    <2>3. QED
      BY <2>1, <2>2
  <1> HIDE DEF f
  <1>5. conns \in [Hosts -> [Slots -> Tcb]]
    BY DEF TypeInv
  <1>6. conns' \in [Hosts -> [Slots -> Tcb]] /\ conns'[h] = f /\ \A k \in Hosts : k # h => conns'[k] = conns[k]
    BY <1>1, <1>4, <1>5
  <1>7. ASSUME NEW q \in net', q \notin net PROVE \E j \in Slots : IsFin(q, h, conns[h][j])
    <2>1. PICK j \in used : q \in Closed(h, conns[h][j]).out
      BY <1>2, <1>7
    <2>2. GoodTcb(conns[h][j]) /\ j \in Slots
      BY DEF TypeInv
    <2>3. IsFin(q, h, conns[h][j])
      BY <2>1, <2>2, ClosedShuts
    <2>4. QED
      BY <2>2, <2>3
  <1>8. \A j \in Slots : GoodTcb(conns'[h][j]) /\ Shuts(conns[h][j], conns'[h][j])
    BY <1>3, <1>6
  <1>9. QED
    BY <1>1, <1>6, <1>7, <1>8

LEMMA ExitStep ==
  ASSUME TypeInv, NEW h \in Hosts, busy = {}, Exit(h)
  PROVE  TypeInv'
  <1>1. /\ conns' \in [Hosts -> [Slots -> Tcb]]
        /\ \A k \in Hosts, j \in Slots : k # h => conns'[k][j] = conns[k][j]
        /\ \A j \in Slots : GoodTcb(conns'[h][j])
        /\ \A q \in net' : q \in net \/ \E j \in Slots : IsFin(q, h, conns[h][j])
        /\ UNCHANGED <<initial_seq, opens, busy>>
    BY ExitIs
  <1>2. ASSUME NEW k \in Hosts, NEW j \in Slots PROVE GoodTcb(conns'[k][j])
    <2>1. CASE k = h
      BY <1>1, <2>1
    <2>2. CASE k # h
      <3>1. conns'[k][j] = conns[k][j]
        BY <1>1, <2>2
      <3>2. QED
        BY <3>1 DEF TypeInv
    <2>3. QED
      BY <2>1, <2>2
  <1>3. \A q \in net' : GoodSeg(q)
    BY <1>1 DEF TypeInv, IsFin
  <1>4. QED
    BY <1>1, <1>2, <1>3 DEF TypeInv

-----------------------------------------------------------------------------
(* tcp_tick() *)

Ticks(h, i, s) ==
  LET t == conns[h][i] IN
  /\ Becomes(h, i, s) /\ UNCHANGED <<initial_seq, opens, busy>>
  /\ \/ s = Unused /\ net' = net
     \/ /\ GoodTcb(s) /\ SamePlace(t, s) /\ SameSender(t, s) /\ SameReceiver(t, s)
        /\ \A q \in net' : \/ q \in net
                           \/ Says(q, h, s) /\ s.state \notin Starting
                           \/ /\ GoodSeg(q) /\ q.from = h /\ q.src = s.lport /\ q.dst = s.rport /\ q.ack = s.rnxt
                              /\ q.seq = s.una /\ q.data = <<>>
                              /\ \/ s.state = "SYN_SENT" /\ q.flags = {"S"}
                                 \/ s.state \in {"FIN_WAIT_1", "LAST_ACK"} /\ q.flags = {"F", "A"}

LEMMA StaysPut ==
  ASSUME conns \in [Hosts -> [Slots -> Tcb]], conns' = conns, NEW h \in Hosts, NEW i \in Slots
  PROVE  Becomes(h, i, conns[h][i])
  BY DEF Becomes

LEMMA TickIs ==
  ASSUME TypeInv, NEW h \in Hosts, NEW i \in Slots, TcpTick(h, i)
  PROVE  busy = {} /\ Ticks(h, i, conns'[h][i])
  <1> DEFINE t == conns[h][i]
  <1>1. GoodTcb(t) /\ t \in Tcb
    BY DEF TypeInv, GoodTcb
  <1>2. busy = {} /\ (Keepalive(h, i) \/ TimeWaitOver(h, i) \/ PersistProbe(h, i) \/ Rto(h, i))
    BY DEF TcpTick
  <1>3. SamePlace(t, t) /\ SameSender(t, t) /\ SameReceiver(t, t)
    BY DEF SamePlace, SameSender, SameReceiver
  <1>4. t.una \in Nat /\ t.nxt \in Nat /\ t.una <= t.nxt /\ Sent(t) \in Nat /\ t.nxt <= Sent(t)
    BY <1>1, Sizes, Totals
  <1>5. <<>> \in Seq(Nat) /\ Len(<<>>) = 0 /\ NoSack \in Int
    BY DEF NoSack
  <1>6. ASSUME UNCHANGED <<conns, initial_seq, opens, busy>>, \A q \in net' : q \in net \/ Says(q, h, t),
               t.state \notin Starting
        PROVE  Ticks(h, i, conns'[h][i])
    <2>1. conns'[h][i] = t /\ Becomes(h, i, t)
      BY <1>6, StaysPut DEF TypeInv
    <2>2. Ticks(h, i, t)
      BY <1>1, <1>3, <1>6, <2>1 DEF Ticks
    <2>3. QED
      BY <2>1, <2>2
  <1>7. ASSUME Becomes(h, i, Unused), UNCHANGED <<initial_seq, opens, busy, net>>
        PROVE  Ticks(h, i, conns'[h][i])
    <2>1. conns'[h][i] = Unused
      BY <1>7, BlankTcb, BecomesThat
    <2>2. Ticks(h, i, Unused)
      BY <1>7 DEF Ticks
    <2>3. QED
      BY <2>1, <2>2
  <1>8. CASE Keepalive(h, i)
    <2> DEFINE n == t.una - 1
    <2>1. /\ net' = net \cup {Seg(h, From(t, n), {"A"}, <<>>, NoSack)}
          /\ UNCHANGED <<conns, initial_seq, opens, busy>>
      BY <1>8 DEF Keepalive, Emit, From
    <2>2. n \in Int /\ n + 0 <= Sent(t)
      BY <1>4
    <2> HIDE DEF n, t
    <2>3. \A q \in net' : q \in net \/ Says(q, h, t)
      <3> DEFINE none == <<>>
      <3>1. none \in Seq(Nat) /\ Len(none) <= MSS /\ n + Len(none) <= Sent(t)
        BY <1>5, <2>2, Given
      <3>2. \A q \in net' : q \in net \/ q = Seg(h, From(t, n), {"A"}, none, NoSack)
        BY <2>1
      <3> HIDE DEF none
      <3>3. QED
        BY <1>1, <1>5, <2>2, <3>1, <3>2, SpeaksAt
    <2>4. t.state \notin Starting
      BY <1>8 DEF Keepalive, Starting, t
    <2>5. QED
      BY <1>2, <1>6, <2>1, <2>3, <2>4
  <1>9. CASE TimeWaitOver(h, i)
    <2>1. Becomes(h, i, Unused) /\ UNCHANGED <<initial_seq, opens, busy, net>>
      BY <1>9 DEF TimeWaitOver, Becomes
    <2>2. QED
      BY <1>2, <1>7, <2>1
  <1>10. CASE PersistProbe(h, i)
    <2> DEFINE d == TxBytes(t, 1)
    <2>1. t.persist /\ net' = net \cup {Seg(h, t, {"A"}, d, NoSack)} /\ UNCHANGED <<conns, initial_seq, opens, busy>>
      BY <1>10 DEF PersistProbe, Emit
    <2>2. d \in Seq(Nat) /\ Len(d) = 1
      BY <1>1, TxLen
    <2>3. t = From(t, t.nxt)
      BY <1>1, SameNxt
    <2>4. t.nxt + Len(d) <= Sent(t) /\ t.nxt \in Int /\ Len(d) <= MSS
      <3>1. Sent(t) = t.nxt + 1
        BY <2>1 DEF Sent
      <3>2. t.nxt \in Nat /\ 1 <= MSS
        BY <1>4, Given
      <3> HIDE DEF d, t
      <3>3. QED
        BY <2>2, <3>1, <3>2
    <2> HIDE DEF d, t
    <2>5. \A q \in net' : q \in net \/ q = Seg(h, From(t, t.nxt), {"A"}, d, NoSack)
      BY <2>1, <2>3
    <2> DEFINE n == t.nxt
    <2>6. n + Len(d) <= Sent(t) /\ n \in Int /\ \A q \in net' : q \in net \/ q = Seg(h, From(t, n), {"A"}, d, NoSack)
      BY <2>4, <2>5
    <2> HIDE DEF n
    <2>7. \A q \in net' : q \in net \/ Says(q, h, t)
      BY <1>1, <1>5, <2>2, <2>4, <2>6, SpeaksAt
    <2>8. t.state \notin Starting
      BY <1>1, <2>1 DEF GoodTcb
    <2>9. QED
      BY <1>2, <1>6, <2>1, <2>7, <2>8
  <1>11. CASE Rto(h, i)
    <2>1. t.state # "CLOSED" /\ UNCHANGED <<initial_seq, opens, busy>>
      BY <1>11 DEF Rto
    <2>2. CASE conns' = [conns EXCEPT ![h][i].armed = FALSE] /\ UNCHANGED net
      <3> DEFINE s == [t EXCEPT !.armed = FALSE]
      <3>1. Becomes(h, i, s)
        BY <2>2 DEF Becomes, TypeInv
      <3>2. GoodTcb(s) /\ SamePlace(t, s) /\ SameSender(t, s) /\ SameReceiver(t, s)
        BY <1>1, <2>1, DisarmGood
      <3> HIDE DEF s
      <3>3. conns'[h][i] = s
        BY <3>1, <3>2, BecomesThat
      <3>4. Ticks(h, i, s)
        BY <2>1, <2>2, <3>1, <3>2 DEF Ticks
      <3>5. QED
        BY <1>2, <3>3, <3>4
    <2>3. CASE conns' = [conns EXCEPT ![h][i] = Unused] /\ UNCHANGED net
      BY <1>2, <1>7, <2>1, <2>3 DEF Becomes
    <2>4. CASE /\ t.una # t.nxt /\ t.retries < MaxRetries
               /\ net' = net \cup Retransmit(h, t) /\ Becomes(h, i, Slowed(t))
      <3> DEFINE s == Slowed(t)
      <3>1. GoodTcb(s) /\ SamePlace(t, s) /\ SameSender(t, s) /\ SameReceiver(t, s)
        BY <1>1, <2>1, <2>4, RtoGood
      <3>2. Becomes(h, i, s)
        BY <2>4
      <3> HIDE DEF s
      <3>3. conns'[h][i] = s
        BY <3>1, <3>2, BecomesThat
      <3>4. ASSUME NEW q \in Retransmit(h, t)
            PROVE  \/ Says(q, h, s) /\ s.state \notin Starting
                   \/ /\ GoodSeg(q) /\ q.from = h /\ q.src = s.lport /\ q.dst = s.rport /\ q.ack = s.rnxt
                      /\ q.seq = s.una /\ q.data = <<>>
                      /\ \/ s.state = "SYN_SENT" /\ q.flags = {"S"}
                         \/ s.state \in {"FIN_WAIT_1", "LAST_ACK"} /\ q.flags = {"F", "A"}
        <4>1. CASE t.state \in Open
          <5>1. Says(q, h, t)
            BY <1>1, <3>4, <4>1, RetransmitSays
          <5>2. s.state \notin Starting
            BY <3>1, <4>1 DEF SamePlace, Open, Starting
          <5>3. QED
            BY <3>1, <5>1, <5>2, SameSays
        <4>2. CASE t.state \notin Open
          <5>1. /\ GoodSeg(q) /\ q.from = h /\ q.src = t.lport /\ q.dst = t.rport
                /\ q.ack = t.rnxt
                /\ t.state = "SYN_SENT" => q.flags = {"S"} /\ q.seq = t.una /\ q.data = <<>>
                /\ t.state \in {"FIN_WAIT_1", "LAST_ACK"} => q.flags = {"F", "A"} /\ q.seq = t.una /\ q.data = <<>>
                /\ t.state \in {"SYN_SENT", "FIN_WAIT_1", "LAST_ACK"} \cup Open
            BY <1>1, <3>4, RetransmitGood
          <5>2. QED
            BY <3>1, <4>2, <5>1 DEF SamePlace, SameSender, SameReceiver
        <4>3. QED
          BY <4>1, <4>2
      <3>5. Ticks(h, i, s)
        BY <2>1, <2>4, <3>1, <3>2, <3>4 DEF Ticks
      <3>6. QED
        BY <1>2, <3>3, <3>5
    <2>5. QED
      BY <1>11, <2>2, <2>3, <2>4 DEF Rto, Becomes, Slowed
  <1>12. QED
    BY <1>2, <1>8, <1>9, <1>10, <1>11

LEMMA TickStep ==
  ASSUME TypeInv, NEW h \in Hosts, NEW i \in Slots, TcpTick(h, i)
  PROVE  TypeInv'
  <1> DEFINE s == conns'[h][i]
  <1>1. busy = {} /\ Ticks(h, i, s)
    BY TickIs
  <1> HIDE DEF s
  <1>2. GoodTcb(s) /\ Becomes(h, i, s) /\ initial_seq' = initial_seq /\ opens' = opens /\ busy' = busy
        /\ \A q \in net' : q \in net \/ GoodSeg(q)
    BY <1>1, BlankTcb, SaysGood DEF Ticks
  <1>3. QED
    BY <1>1, <1>2, LocalStep

-----------------------------------------------------------------------------
(* The invariant holds, and with it the types. *)

LEMMA TypeInit == Init => TypeInv
  <1> SUFFICES ASSUME Init PROVE TypeInv
    OBVIOUS
  <1>1. Unused \in Tcb /\ GoodTcb(Unused)
    BY BlankTcb DEF GoodTcb
  <1>2. conns \in [Hosts -> [Slots -> Tcb]] /\ \A h \in Hosts, i \in Slots : GoodTcb(conns[h][i])
    <2> DEFINE u == Unused
    <2>1. conns = [h \in Hosts |-> [i \in Slots |-> u]] /\ u \in Tcb /\ GoodTcb(u)
      BY <1>1 DEF Init
    <2> HIDE DEF u
    <2>2. QED
      BY <2>1
  <1>3. initial_seq \in [Hosts -> Nat] /\ opens \in [Hosts -> Nat] /\ \A h \in Hosts : opens[h] <= MaxOpens[h]
    BY Given DEF Init
  <1>4. QED
    BY <1>2, <1>3 DEF Init, TypeInv

LEMMA HandleStep ==
  ASSUME TypeInv, NEW h \in Hosts, NEW g \in net, TcpHandle(h, g)
  PROVE  TypeInv'
  <1>1. CASE RecvUnmatched(h, g)
    BY <1>1, UnmatchedStep
  <1>2. ASSUME NEW i \in Slots,
               \/ RecvRst(h, i, g) \/ RecvChallenge(h, i, g) \/ RecvListen(h, i, g)
               \/ RecvSynReceived(h, i, g) \/ RecvSynSent(h, i, g) \/ RecvSynced(h, i, g)
        PROVE  TypeInv'
    BY <1>2, RstStep, ChallengeStep, ListenStep, SynReceivedStep, SynSentStep, SyncedStep
  <1>3. QED
    BY <1>1, <1>2 DEF TcpHandle

LEMMA CallStep ==
  ASSUME TypeInv, NEW h \in Hosts, SysCall(h)
  PROVE  TypeInv'
  <1>1. busy = {}
    BY DEF SysCall
  <1>2. ASSUME NEW i \in Slots, Connect(h, i) \/ Listen(h, i) \/ Close(h, i) PROVE TypeInv'
    BY <1>1, <1>2, ConnectStep, ListensStep, CloseStep
  <1>3. ASSUME NEW i \in Slots, NEW n \in 1 .. BufSize - 1, Send(h, i, n) \/ Recv(h, i, n) PROVE TypeInv'
    <2>1. n \in Nat
      BY Given
    <2>2. QED
      BY <1>1, <1>3, <2>1, SendStep, RecvStep
  <1>4. CASE Exit(h)
    BY <1>1, <1>4, ExitStep
  <1>5. QED
    BY <1>2, <1>3, <1>4 DEF SysCall

LEMMA TypeNext == TypeInv /\ [Next]_vars => TypeInv'
  <1> SUFFICES ASSUME TypeInv, [Next]_vars PROVE TypeInv'
    OBVIOUS
  <1>1. ASSUME NEW h \in Hosts, NEW i \in Slots, ConnectCounted(h, i) PROVE TypeInv'
    BY <1>1, CountedStep
  <1>2. ASSUME NEW h \in Hosts, SysCall(h) PROVE TypeInv'
    BY <1>2, CallStep
  <1>3. ASSUME NEW h \in Hosts, NEW i \in Slots, TcpTick(h, i) PROVE TypeInv'
    BY <1>3, TickStep
  <1>4. ASSUME NEW h \in Hosts, NEW g \in net, TcpHandle(h, g) PROVE TypeInv'
    BY <1>4, HandleStep
  <1>5. ASSUME NEW g \in net, Lose(g) PROVE TypeInv'
    BY <1>5, WireStep DEF Lose
  <1>6. CASE UNCHANGED vars
    BY <1>6, WireStep DEF vars
  <1>7. QED
    BY <1>1, <1>2, <1>3, <1>4, <1>5, <1>6 DEF Next

LEMMA TypeInvTypeOK == TypeInv => TypeOK
  <1> SUFFICES ASSUME TypeInv PROVE TypeOK
    OBVIOUS
  <1>1. ASSUME NEW h \in Hosts, NEW i \in Slots
        PROVE  LET t == conns[h][i] IN
               /\ t.state \in States /\ {t.lport, t.rport} \subseteq 0 .. NoPort
               /\ {t.una, t.nxt, t.rnxt, t.wrote} \subseteq Nat /\ t.una <= t.nxt
               /\ t.wnd \in 0 .. BufSize - 1 /\ Len(t.rx) < BufSize
               /\ {t.head, t.tail} \subseteq 0 .. BufSize - 1
               /\ t.retries \in 0 .. MaxRetries /\ t.cwnd \in 1 .. Most(BufSize, 2 * MSS)
               /\ Cardinality(t.ooo) <= 2 /\ t.dups \in 0 .. 4
               /\ {t.armed, t.heard, t.persist} \subseteq BOOLEAN
               /\ t.state = "CLOSED" => t = Unused
    <2> DEFINE t == conns[h][i]
    <2>1. GoodTcb(t) /\ t \in Tcb
      BY DEF TypeInv, GoodTcb
    <2> HIDE DEF t
    <2>2. /\ t.state \in States /\ t.lport \in Port /\ t.rport \in Port
          /\ t.una \in Nat /\ t.nxt \in Nat /\ t.wnd \in 0 .. BufSize - 1 /\ t.rnxt \in Nat
          /\ t.head \in 0 .. BufSize - 1 /\ t.tail \in 0 .. BufSize - 1 /\ t.wrote \in Nat
          /\ t.armed \in BOOLEAN /\ t.retries \in 0 .. MaxRetries
          /\ t.cwnd \in 1 .. Most(BufSize, 2 * MSS) /\ t.heard \in BOOLEAN
          /\ t.dups \in 0 .. 4 /\ t.persist \in BOOLEAN
      BY <2>1, Fields
    <2>3. /\ t.una <= t.nxt /\ Len(t.rx) < BufSize /\ Cardinality(t.ooo) <= 2
          /\ t.state = "CLOSED" => t = Unused
      BY <2>1 DEF GoodTcb
    <2>4. {t.armed, t.heard, t.persist} \subseteq BOOLEAN
      BY <2>2, Zenon
    <2>5. {t.lport, t.rport} \subseteq 0 .. NoPort /\ {t.una, t.nxt, t.rnxt, t.wrote} \subseteq Nat
          /\ {t.head, t.tail} \subseteq 0 .. BufSize - 1
      BY <2>2 DEF Port
    <2>6. QED
      BY <2>2, <2>3, <2>4, <2>5 DEF t
  <1>2. \A h \in Hosts : opens[h] \in 0 .. MaxOpens[h]
    BY Given DEF TypeInv
  <1>3. initial_seq \in [Hosts -> Nat] /\ busy \subseteq Hosts \X Slots
    BY DEF TypeInv, Hosts
  <1>4. \A g \in net : g.from \in Hosts /\ g.wnd \in 0 .. BufSize - 1 /\ Len(g.data) <= MSS
    BY SegFields DEF TypeInv, GoodSeg
  <1>5. QED
    BY <1>1, <1>2, <1>3, <1>4 DEF TypeOK

LEMMA TypeInvHolds == Spec => []TypeInv
  BY TypeInit, TypeNext, PTL DEF Spec

(* Whatever the programs call, the wire loses or repeats, and whenever a      *)
(* segment comes between the steps of tcp_connect(): every TCB stays within   *)
(* its rings, its two parking slots, its retry limit and its window sizes,    *)
(* nothing is acknowledged that was not sent, and a slot that is not in use   *)
(* is blank.                                                                  *)
THEOREM TypeOKHolds == Spec => []TypeOK
  BY TypeInvHolds, TypeInvTypeOK, PTL

-----------------------------------------------------------------------------
(* The two ends of a connection.  p is a port of the client.                 *)

Active(t) == t.state \notin {"CLOSED", "LISTEN"}
Plain(g) == "S" \notin g.flags /\ "R" \notin g.flags

(* Segments without SYN and RST, from the client's port and to it. *)
Out(g, p) == g.from = Client /\ g.src = p /\ Plain(g)
Back(g, p) == g.from = Server /\ g.dst = p /\ Plain(g)

(* x sends to y: y has received, and keeps for later, no more than x has      *)
(* sent; what x may send and what it has sent fit the ring of y.              *)
Flow(x, y) == x.una <= y.rnxt /\ Within(y, Sent(x)) /\ x.una + x.wnd <= Edge(y) /\ x.nxt <= Edge(y)

(* The ends t and u have set up the same connection, ... *)
Near(t, u, W) ==
  /\ Flow(t, u) /\ Flow(u, t)
  /\ \A g \in W : Out(g, t.lport) => Fits(g, t)
  /\ \A g \in W : Back(g, t.lport) => Fits(g, u) /\ u.state # "SYN_RECEIVED"

(* ... or u has taken a repeated SYN: it starts beyond all that t has heard   *)
(* of, and no segment in transit is the answer it waits for.                  *)
Far(t, u, W) ==
  /\ u.state = "SYN_RECEIVED" /\ Within(t, u.una - 1)
  /\ \A g \in W : Out(g, t.lport) => g.ack < u.una
  /\ \A g \in W : Back(g, t.lport) => g.seq + Len(g.data) + 1 < u.una

PairOf(t, u, W) ==
  Active(u) /\ u.rport = t.lport =>
    /\ t.state = "SYN_SENT" => u.state = "SYN_RECEIVED" /\ u.rnxt = t.una + 1
    /\ t.state \in Open /\ u.state \in Open \cup {"SYN_RECEIVED"} => Near(t, u, W) \/ Far(t, u, W)

(* Nothing but SYNs, its own and the answers to it, concerns a port that has  *)
(* only dialled.                                                              *)
FreshOf(t, W) ==
  t.state = "SYN_SENT" =>
    \A g \in W : /\ ~Out(g, t.lport) /\ ~Back(g, t.lport)
                 /\ g.from = Client /\ g.src = t.lport /\ "R" \notin g.flags => g.seq = t.una
                 /\ g.from = Server /\ g.dst = t.lport /\ "R" \notin g.flags => g.ack = t.una + 1

(* An answer to a SYN is that of u, or an older one. *)
SynOf(u, W) ==
  u.state = "SYN_RECEIVED" =>
    \A g \in W : g.from = Server /\ g.dst = u.rport /\ "S" \in g.flags /\ "R" \notin g.flags =>
                   g.seq = u.una \/ g.seq + 1 < u.una

(* o ports have been used, and the next connection of the server starts at n. *)
ClientTcb(t, o, n) ==
  t.state # "CLOSED" =>
    /\ t.lport \in 1 .. o /\ t.rport = 0 /\ t.state \notin {"LISTEN", "SYN_RECEIVED"}
    /\ Within(t, n - 1)

(* The numbers of u lie in a block of its own below n. *)
Block(u, n) ==
  \E b \in Nat : /\ b % IssStep = 0 /\ b + IssStep <= n /\ b <= u.nxt
                 /\ u.nxt <= b + MaxSeq + (IF u.state \in Closing THEN 1 ELSE 0)

ServerTcb(u, o, n) ==
  /\ u.state # "CLOSED" => u.lport = 0 /\ u.state # "SYN_SENT"
  /\ u.state = "LISTEN" => u.rport = NoPort
  /\ u.state = "SYN_RECEIVED" => u.nxt = u.una + 1
  /\ Active(u) => u.rport \in 1 .. o /\ Block(u, n)

WireSeg(g, o, n) ==
  IF g.from = Client
  THEN /\ g.src \in 1 .. o /\ g.dst = 0
       /\ "R" \notin g.flags => g.ack < n /\ ("S" \in g.flags => g.flags = {"S"})
  ELSE /\ g.src = 0 /\ g.dst \in 1 .. o
       /\ "R" \notin g.flags => g.seq + Len(g.data) + 1 < n /\ ("S" \in g.flags => g.flags = {"S", "A"})

(* i in B: its SYN has been sent and is not counted yet; a reset may have come in  *)
(* between.                                                                   *)
BusyOf(t, i, B) ==
  /\ <<Client, i>> \in B => t.state \in {"SYN_SENT", "CLOSED"}
  /\ t.state = "SYN_SENT" => t.nxt = (IF <<Client, i>> \in B THEN t.una ELSE t.una + 1)

LinkInv ==
  LET o == opens[Client]  n == initial_seq[Server] IN
  /\ n > 1 /\ n % IssStep = 0
  /\ \A i \in Slots : ClientTcb(conns[Client][i], o, n) /\ ServerTcb(conns[Server][i], o, n)
  /\ \A g \in net : WireSeg(g, o, n)
  /\ \A i \in Slots : BusyOf(conns[Client][i], i, busy)
  /\ \A i, j \in Slots : i # j /\ conns[Client][i].state # "CLOSED" /\ conns[Client][j].state # "CLOSED" =>
                           conns[Client][i].lport # conns[Client][j].lport
  /\ \A i, j \in Slots : i # j /\ Active(conns[Server][i]) /\ Active(conns[Server][j]) =>
                           conns[Server][i].rport # conns[Server][j].rport
  /\ \A i \in Slots : FreshOf(conns[Client][i], net) /\ SynOf(conns[Server][i], net)
  /\ \A i, j \in Slots : PairOf(conns[Client][i], conns[Server][j], net)

-----------------------------------------------------------------------------
(* Blocks of sequence numbers. *)

LEMMA Multiple == ASSUME NEW k \in Nat, NEW n \in Nat, n >= 1 PROVE (k * n) % n = 0
  BY SMTT(30)

LEMMA Quotient ==
  ASSUME NEW b \in Nat, NEW n \in Nat, n >= 1
  PROVE  b \div n \in Nat /\ (b % n) + n * (b \div n) = b
  <1>1. (b % n) + n * (b \div n) = b
    BY Z3T(30)
  <1>2. b \div n \in Nat
    OBVIOUS
  <1>3. QED
    BY <1>1, <1>2

LEMMA NextMultiple ==
  ASSUME NEW b \in Nat, NEW n \in Nat, n >= 1, b % n = 0
  PROVE  (b + n) % n = 0
  <1> DEFINE q == b \div n
  <1>1. q \in Nat /\ 0 + n * q = b
    BY Quotient
  <1> HIDE DEF q
  <1>2. (q + 1) * n = b + n /\ q + 1 \in Nat
    BY <1>1
  <1>3. QED
    BY <1>2, Multiple

LEMMA Remainder ==
  ASSUME NEW b \in Nat, NEW n \in Nat, n >= 1, NEW r \in Nat, r < n, b % n = 0
  PROVE  (b + r) % n = r
  BY SMTT(30)

LEMMA BlockBound ==
  ASSUME NEW u, GoodTcb(u), NEW n \in Nat, Block(u, n)
  PROVE  u.nxt + 3 <= n /\ Sent(u) + 1 < n /\ u.una + 3 <= n
  <1>1. PICK b \in Nat : /\ b + IssStep <= n
                         /\ u.nxt <= b + MaxSeq + (IF u.state \in Closing THEN 1 ELSE 0)
    BY DEF Block
  <1>2. u.nxt \in Nat /\ u.una \in Nat /\ u.una <= u.nxt /\ Sent(u) <= u.nxt + 1 /\ Sent(u) \in Nat
    BY Sizes, Totals DEF Sent
  <1>3. u.nxt <= b + MaxSeq + 1
    BY <1>1, <1>2, Given
  <1>4. QED
    BY <1>1, <1>2, <1>3, Given

(* A connection that goes on stays in its block: InRange holds for it. *)
LEMMA BlockGrows ==
  ASSUME NEW u, GoodTcb(u), NEW s, GoodTcb(s), NEW n \in Nat, Block(u, n), u.state \in Open, s.state \in Open,
         InRange(s), u.nxt <= s.nxt, s.una <= u.nxt
  PROVE  Block(s, n)
  <1>1. u.state \notin Closing /\ s.state \notin Closing
    BY DEF Open, Closing
  <1>2. PICK b \in Nat : /\ b % IssStep = 0 /\ b + IssStep <= n /\ b <= u.nxt
                         /\ u.nxt <= b + MaxSeq + (IF u.state \in Closing THEN 1 ELSE 0)
    BY DEF Block
  <1> DEFINE x == u.nxt  y == s.nxt  z == s.una
  <1>3. x \in Nat /\ y \in Nat /\ z \in Nat /\ y - z < BufSize /\ x <= y /\ z <= x
    BY Sizes DEF GoodTcb
  <1>4. b <= x /\ x <= b + MaxSeq
    BY <1>1, <1>2, Given
  <1>5. y % IssStep <= MaxSeq
    BY DEF InRange
  <1> HIDE DEF x, y, z
  <1> DEFINE r == y - b
  <1>6. r \in Nat /\ r < IssStep /\ IssStep \in Nat /\ IssStep >= 1 /\ y = b + r
    BY <1>3, <1>4, Given
  <1> HIDE DEF r
  <1>7. (b + r) % IssStep = r
    BY <1>2, <1>6, Remainder
  <1>8. r <= MaxSeq
    BY <1>5, <1>6, <1>7
  <1>9. b <= y /\ y <= b + MaxSeq + 0
    BY <1>6, <1>8, Given
  <1>10. b <= s.nxt /\ s.nxt <= b + MaxSeq + (IF s.state \in Closing THEN 1 ELSE 0)
    BY <1>1, <1>9 DEF y
  <1>11. QED
    BY <1>2, <1>10 DEF Block

(* The FIN has the number behind. *)
LEMMA BlockShuts ==
  ASSUME NEW u, GoodTcb(u), NEW s, NEW n \in Nat, Block(u, n), u.state \in Open, s.state \in Closing,
         s.nxt = u.nxt + 1
  PROVE  Block(s, n)
  <1>1. u.state \notin Closing
    BY DEF Open, Closing
  <1>2. PICK b \in Nat : /\ b % IssStep = 0 /\ b + IssStep <= n /\ b <= u.nxt
                         /\ u.nxt <= b + MaxSeq + (IF u.state \in Closing THEN 1 ELSE 0)
    BY DEF Block
  <1>3. u.nxt \in Nat
    BY Sizes
  <1>4. b <= s.nxt /\ s.nxt <= b + MaxSeq + 1
    BY <1>1, <1>2, <1>3, Given
  <1>5. QED
    BY <1>2, <1>4 DEF Block

LEMMA BlockSame ==
  ASSUME NEW u, NEW s, NEW n, Block(u, n), s.nxt = u.nxt, u.state \in Closing => s.state \in Closing,
         u.nxt \in Nat
  PROVE  Block(s, n)
  <1>1. PICK b \in Nat : /\ b % IssStep = 0 /\ b + IssStep <= n /\ b <= u.nxt
                         /\ u.nxt <= b + MaxSeq + (IF u.state \in Closing THEN 1 ELSE 0)
    BY DEF Block
  <1>2. s.nxt <= b + MaxSeq + (IF s.state \in Closing THEN 1 ELSE 0)
    BY <1>1, Given
  <1>3. QED
    BY <1>1, <1>2 DEF Block

LEMMA BlockNew ==
  ASSUME NEW n \in Nat, n % IssStep = 0, NEW s, s.nxt = n + 1, MaxSeq >= 1
  PROVE  Block(s, n + IssStep)
  <1>1. n + IssStep <= n + IssStep /\ n <= s.nxt /\ s.nxt <= n + MaxSeq + (IF s.state \in Closing THEN 1 ELSE 0)
    BY Given
  <1>2. QED
    BY <1>1 DEF Block

-----------------------------------------------------------------------------
(* What stays as it is. *)

LEMMA WithinMore ==
  ASSUME NEW t, GoodTcb(t), NEW a \in Int, NEW b \in Int, Within(t, a), a <= b
  PROVE  Within(t, b)
  <1>1. t.rnxt \in Nat /\ t.rnxt <= a
    BY Sizes DEF Within
  <1>2. ASSUME NEW o \in t.ooo PROVE o.seq + Len(o.data) <= b
    <2> DEFINE e == o.seq + Len(o.data)
    <2>1. e \in Int
      BY ParkedLen
    <2>2. e <= a
      BY DEF Within
    <2> HIDE DEF e
    <2>3. e <= b
      BY <2>1, <2>2
    <2>4. QED
      BY <2>3 DEF e
  <1>3. QED
    BY <1>1, <1>2 DEF Within

LEMMA PairElsewhere ==
  ASSUME NEW t, NEW u, NEW W, NEW V, PairOf(t, u, W),
         \A q \in V : q \in W \/ (~Out(q, t.lport) /\ ~Back(q, t.lport))
  PROVE  PairOf(t, u, V)
  <1>1. Near(t, u, W) => Near(t, u, V)
    BY DEF Near
  <1>2. Far(t, u, W) => Far(t, u, V)
    BY DEF Far
  <1>3. QED
    BY <1>1, <1>2 DEF PairOf

LEMMA FreshElsewhere ==
  ASSUME NEW t, NEW W, NEW V, FreshOf(t, W),
         \A q \in V : \/ q \in W \/ "R" \in q.flags
                      \/ ~(q.from = Client /\ q.src = t.lport) /\ ~(q.from = Server /\ q.dst = t.lport)
  PROVE  FreshOf(t, V)
  BY DEF FreshOf, Out, Back, Plain

LEMMA SynElsewhere ==
  ASSUME NEW u, NEW W, NEW V, SynOf(u, W),
         \A q \in V : q \in W \/ "S" \notin q.flags \/ "R" \in q.flags \/ q.from # Server \/ q.dst # u.rport
  PROVE  SynOf(u, V)
  BY DEF SynOf

LEMMA ClientMore ==
  ASSUME NEW t, GoodTcb(t), NEW o \in Int, NEW k \in Int, o <= k, NEW n \in Int, NEW m \in Int, n <= m, ClientTcb(t, o, n)
  PROVE  ClientTcb(t, k, m)
  <1>1. CASE t.state = "CLOSED"
    BY <1>1 DEF ClientTcb
  <1>2. CASE t.state # "CLOSED"
    <2>1. t.lport \in 1 .. o /\ t.rport = 0 /\ t.state \notin {"LISTEN", "SYN_RECEIVED"} /\ Within(t, n - 1)
      BY <1>2 DEF ClientTcb
    <2>2. t.lport \in 1 .. k
      BY <2>1
    <2>3. Within(t, m - 1)
      BY <2>1, WithinMore
    <2>4. QED
      BY <2>1, <2>2, <2>3 DEF ClientTcb
  <1>3. QED
    BY <1>1, <1>2

LEMMA ServerMore ==
  ASSUME NEW u, NEW o \in Int, NEW k \in Int, o <= k, NEW n \in Int, NEW m \in Int, n <= m, ServerTcb(u, o, n)
  PROVE  ServerTcb(u, k, m)
  <1>1. ASSUME Active(u) PROVE u.rport \in 1 .. k /\ Block(u, m)
    <2>1. u.rport \in 1 .. o /\ Block(u, n)
      BY <1>1 DEF ServerTcb
    <2>2. PICK b \in Nat : /\ b % IssStep = 0 /\ b + IssStep <= n /\ b <= u.nxt
                           /\ u.nxt <= b + MaxSeq + (IF u.state \in Closing THEN 1 ELSE 0)
      BY <2>1 DEF Block
    <2>3. b + IssStep <= m
      BY <2>2, Given
    <2>4. QED
      BY <2>1, <2>2, <2>3 DEF Block
  <1>2. QED
    BY <1>1 DEF ServerTcb

LEMMA WireMore ==
  ASSUME NEW g, GoodSeg(g), NEW o \in Int, NEW k \in Int, o <= k, NEW n \in Int, NEW m \in Int, n <= m, WireSeg(g, o, n)
  PROVE  WireSeg(g, k, m)
  <1> DEFINE e == g.seq + Len(g.data) + 1  a == g.ack
  <1>1. e \in Int /\ a \in Int
    BY SegSizes
  <1>2. CASE g.from = Client
    <2>1. g.src \in 1 .. o /\ g.dst = 0 /\ ("R" \notin g.flags => a < n /\ ("S" \in g.flags => g.flags = {"S"}))
      BY <1>2 DEF WireSeg
    <2> HIDE DEF a
    <2>2. g.src \in 1 .. k /\ (a < n => a < m)
      BY <1>1, <2>1
    <2>3. QED
      BY <1>2, <2>1, <2>2 DEF WireSeg, a
  <1>3. CASE g.from # Client
    <2>1. g.dst \in 1 .. o /\ g.src = 0 /\ ("R" \notin g.flags => e < n /\ ("S" \in g.flags => g.flags = {"S", "A"}))
      BY <1>3 DEF WireSeg
    <2> HIDE DEF e
    <2>2. g.dst \in 1 .. k /\ (e < n => e < m)
      BY <1>1, <2>1
    <2>3. QED
      BY <1>3, <2>1, <2>2 DEF WireSeg, e
  <1>4. QED
    BY <1>2, <1>3

-----------------------------------------------------------------------------
(* One end of an open connection goes on: it takes ACKs up to k with window   *)
(* w, and bytes up to e.                                                      *)

Carried(t, k, w, e, s) ==
  /\ GoodTcb(s) /\ SamePlace(t, s) /\ Later(t, s) /\ t.una <= s.una /\ t.nxt <= s.nxt
  /\ \/ SameSender(t, s)
     \/ s.una = k /\ s.wnd = w /\ (s.nxt = t.nxt \/ s.nxt <= k + w)
  /\ \A b \in Int : Within(t, b) /\ e <= b => Within(s, b)

LEMMA WithinSame ==
  ASSUME NEW t, NEW s, s.rnxt = t.rnxt, s.ooo = t.ooo, NEW b
  PROVE  Within(t, b) <=> Within(s, b)
  BY DEF Within

LEMMA SameLater ==
  ASSUME NEW t, GoodTcb(t), NEW s, GoodTcb(s), SamePlace(t, s), SameSender(t, s), SameReceiver(t, s)
  PROVE  Later(t, s)
  <1>1. Sent(s) = Sent(t) /\ s.rnxt = t.rnxt /\ s.lport = t.lport /\ s.rport = t.rport
    BY DEF SamePlace, SameSender, SameReceiver, Sent
  <1>2. RxWnd(s) = RxWnd(t)
    BY DEF SameReceiver, RxWnd
  <1>3. Edge(s) = Edge(t)
    BY <1>1, <1>2 DEF Edge
  <1>4. Sent(t) \in Nat /\ Edge(t) \in Nat /\ t.rnxt \in Nat
    BY Totals, Sizes
  <1>5. QED
    BY <1>1, <1>3, <1>4 DEF Later

LEMMA SameCarried ==
  ASSUME NEW t, GoodTcb(t), NEW s, GoodTcb(s), SamePlace(t, s), SameSender(t, s), SameReceiver(t, s),
         NEW k, NEW w, NEW e
  PROVE  Carried(t, k, w, e, s)
  <1>1. Later(t, s)
    BY SameLater
  <1>2. t.una <= s.una /\ t.nxt <= s.nxt
    BY Sizes DEF SameSender
  <1>3. \A b \in Int : Within(t, b) => Within(s, b)
    BY WithinSame DEF SameReceiver
  <1>4. QED
    BY <1>1, <1>2, <1>3 DEF Carried

LEMMA PushedCarried ==
  ASSUME NEW t, GoodTcb(t), NEW s, Pushed(t, s), NEW e
  PROVE  Carried(t, t.una, t.wnd, e, s)
  <1>1. GoodTcb(s) /\ SamePlace(t, s) /\ SameReceiver(t, s) /\ s.una = t.una /\ s.wnd = t.wnd
        /\ t.nxt <= s.nxt /\ (s.nxt = t.nxt \/ s.nxt <= t.una + t.wnd) /\ Sent(t) <= Sent(s)
    BY DEF Pushed
  <1>2. s.rnxt = t.rnxt /\ RxWnd(s) = RxWnd(t)
    BY <1>1 DEF SameReceiver, RxWnd
  <1>3. Edge(s) = Edge(t) /\ Edge(t) \in Nat /\ t.rnxt \in Nat /\ t.una \in Nat
    BY <1>2, Totals, Sizes DEF Edge
  <1>4. Later(t, s)
    BY <1>1, <1>2, <1>3 DEF Later, SamePlace
  <1>5. \A b \in Int : Within(t, b) => Within(s, b)
    BY <1>1, WithinSame DEF SameReceiver
  <1>6. QED
    BY <1>1, <1>3, <1>4, <1>5 DEF Carried

LEMMA MovedCarried ==
  ASSUME NEW t, NEW g, NEW s, Moved(t, g, s)
  PROVE  Carried(t, g.ack, g.wnd, g.seq + Len(g.data), s)
  BY DEF Moved, Carried

LEMMA FlowCarries ==
  ASSUME NEW t, GoodTcb(t), NEW u, GoodTcb(u), Flow(t, u), Flow(u, t),
         NEW k \in Int, NEW w \in Int, NEW e \in Int, NEW s, Carried(t, k, w, e, s),
         k <= u.rnxt, k + w <= Edge(u), e <= Sent(u)
  PROVE  Flow(s, u) /\ Flow(u, s)
  <1>1. GoodTcb(s) /\ Later(t, s) /\ t.una <= s.una /\ t.nxt <= s.nxt
        /\ (SameSender(t, s) \/ (s.una = k /\ s.wnd = w /\ (s.nxt = t.nxt \/ s.nxt <= k + w)))
    BY DEF Carried
  <1>2. /\ t.una \in Nat /\ t.nxt \in Nat /\ t.rnxt \in Nat /\ t.wnd \in Nat
        /\ s.una \in Nat /\ s.nxt \in Nat /\ s.rnxt \in Nat /\ s.wnd \in Nat
        /\ u.una \in Nat /\ u.nxt \in Nat /\ u.rnxt \in Nat /\ u.wnd \in Nat
    BY <1>1, Sizes
  <1>3. /\ Sent(t) \in Nat /\ Edge(t) \in Nat /\ Sent(s) \in Nat /\ Edge(s) \in Nat
        /\ Sent(u) \in Nat /\ Edge(u) \in Nat
    BY <1>1, Totals
  <1>4. Within(u, Sent(s))
    BY <1>1, <1>3, WithinMore DEF Flow, Later
  <1>5. Within(s, Sent(u))
    BY <1>3 DEF Flow, Carried
  <1>6. s.una <= u.rnxt /\ s.una + s.wnd <= Edge(u) /\ s.nxt <= Edge(u)
    <2>1. CASE SameSender(t, s)
      BY <2>1 DEF SameSender, Flow
    <2>2. CASE s.una = k /\ s.wnd = w /\ (s.nxt = t.nxt \/ s.nxt <= k + w)
      <3>1. t.nxt <= Edge(u)
        BY DEF Flow
      <3>2. QED
        BY <1>2, <1>3, <2>2, <3>1
    <2>3. QED
      BY <1>1, <2>1, <2>2
  <1>7. u.una <= s.rnxt /\ u.una + u.wnd <= Edge(s) /\ u.nxt <= Edge(s)
    <2>1. t.rnxt <= s.rnxt /\ Edge(t) <= Edge(s)
      BY <1>1 DEF Later
    <2>2. u.una <= t.rnxt /\ u.una + u.wnd <= Edge(t) /\ u.nxt <= Edge(t)
      BY DEF Flow
    <2>3. QED
      BY <1>2, <1>3, <2>1, <2>2
  <1>8. QED
    BY <1>4, <1>5, <1>6, <1>7 DEF Flow

(* The window of the other end, as one's own fields have it. *)
LEMMA FlowBounds ==
  ASSUME NEW t, NEW u, Flow(t, u), Flow(u, t)
  PROVE  t.una <= u.rnxt /\ t.una + t.wnd <= Edge(u) /\ t.rnxt <= Sent(u)
  BY DEF Flow, Within

-----------------------------------------------------------------------------
(* Ends that are near stay near, ends that are far stay far. *)

Neither(q, p) == ~Out(q, p) /\ ~Back(q, p)

LEMMA NearClient ==
  ASSUME NEW t, GoodTcb(t), NEW u, GoodTcb(u), NEW W, \A g \in W : GoodSeg(g), Near(t, u, W),
         NEW s, GoodTcb(s), Later(t, s), Flow(s, u), Flow(u, s),
         NEW V, \A q \in V : q \in W \/ Told(q, Client, s) \/ Neither(q, t.lport)
  PROVE  Near(s, u, V)
  <1>1. s.lport = t.lport
    BY DEF Later
  <1>2. ASSUME NEW q \in V, Out(q, t.lport) PROVE Fits(q, s)
    <2>1. CASE q \in W
      BY <1>2, <2>1, FitsLater DEF Near
    <2>2. CASE Told(q, Client, s)
      BY <2>2 DEF Told
    <2>3. QED
      BY <1>2, <2>1, <2>2 DEF Neither
  <1>3. ASSUME NEW q \in V, Back(q, t.lport) PROVE Fits(q, u) /\ u.state # "SYN_RECEIVED"
    <2>1. q \in W
      BY <1>3, Given DEF Neither, Told, Back
    <2>2. QED
      BY <1>3, <2>1 DEF Near
  <1>4. QED
    BY <1>1, <1>2, <1>3 DEF Near

LEMMA NearServer ==
  ASSUME NEW t, GoodTcb(t), NEW u, GoodTcb(u), NEW W, \A g \in W : GoodSeg(g), Near(t, u, W),
         NEW v, GoodTcb(v), Later(u, v), Flow(v, t), Flow(t, v), v.state = u.state \/ v.state # "SYN_RECEIVED",
         NEW V, \A q \in V : q \in W \/ (Told(q, Server, v) /\ v.state # "SYN_RECEIVED") \/ Neither(q, t.lport)
  PROVE  Near(t, v, V)
  <1>2. ASSUME NEW q \in V, Out(q, t.lport) PROVE Fits(q, t)
    <2>1. q \in W
      BY <1>2, Given DEF Neither, Told, Out
    <2>2. QED
      BY <1>2, <2>1 DEF Near
  <1>3. ASSUME NEW q \in V, Back(q, t.lport) PROVE Fits(q, v) /\ v.state # "SYN_RECEIVED"
    <2>1. CASE q \in W
      <3>1. Fits(q, u) /\ u.state # "SYN_RECEIVED" /\ GoodSeg(q)
        BY <1>3, <2>1 DEF Near
      <3>2. QED
        BY <3>1, FitsLater
    <2>2. CASE Told(q, Server, v) /\ v.state # "SYN_RECEIVED"
      BY <2>2 DEF Told
    <2>3. QED
      BY <1>3, <2>1, <2>2 DEF Neither
  <1>4. QED
    BY <1>2, <1>3 DEF Near

LEMMA FarClient ==
  ASSUME NEW t, NEW u, NEW W, Far(t, u, W), NEW s, s.lport = t.lport, Within(s, u.una - 1),
         NEW V, \A q \in V : q \in W \/ (q.from = Client /\ q.ack < u.una) \/ Neither(q, t.lport)
  PROVE  Far(s, u, V)
  <1>1. \A q \in V : Out(q, s.lport) => q.ack < u.una
    BY DEF Far, Neither
  <1>2. \A q \in V : Back(q, s.lport) => q.seq + Len(q.data) + 1 < u.una
    <2> SUFFICES ASSUME NEW q \in V, Back(q, t.lport) PROVE q \in W
      BY DEF Far
    <2>1. QED
      BY Given DEF Neither, Back
  <1>3. QED
    BY <1>1, <1>2 DEF Far

LEMMA FarServer ==
  ASSUME NEW t, NEW u, NEW W, Far(t, u, W), NEW v, v.state = u.state, v.una = u.una,
         NEW V, \A q \in V : q \in W \/ Neither(q, t.lport)
  PROVE  Far(t, v, V)
  <1>1. \A q \in V : Out(q, t.lport) \/ Back(q, t.lport) => q \in W
    BY DEF Neither
  <1>2. QED
    BY <1>1 DEF Far

(* An open client goes on. *)
LEMMA ClientCarries ==
  ASSUME NEW t, GoodTcb(t), NEW u, GoodTcb(u), NEW W, \A g \in W : GoodSeg(g), Near(t, u, W),
         NEW k \in Int, NEW w \in Int, NEW e \in Int, NEW s, Carried(t, k, w, e, s),
         k <= u.rnxt, k + w <= Edge(u), e <= Sent(u),
         NEW V, \A q \in V : q \in W \/ Told(q, Client, s) \/ Neither(q, t.lport)
  PROVE  Near(s, u, V)
  <1>1. Flow(s, u) /\ Flow(u, s)
    BY FlowCarries DEF Near
  <1>2. GoodTcb(s) /\ Later(t, s)
    BY DEF Carried
  <1>3. QED
    BY <1>1, <1>2, NearClient

LEMMA ServerCarries ==
  ASSUME NEW t, GoodTcb(t), NEW u, GoodTcb(u), NEW W, \A g \in W : GoodSeg(g), Near(t, u, W),
         NEW k \in Int, NEW w \in Int, NEW e \in Int, NEW v, Carried(u, k, w, e, v),
         k <= t.rnxt, k + w <= Edge(t), e <= Sent(t),
         NEW V, \A q \in V : q \in W \/ (Told(q, Server, v) /\ v.state # "SYN_RECEIVED") \/ Neither(q, t.lport)
  PROVE  Near(t, v, V)
  <1>1. Flow(v, t) /\ Flow(t, v)
    BY FlowCarries DEF Near
  <1>2. GoodTcb(v) /\ Later(u, v) /\ v.state = u.state
    BY DEF Carried, SamePlace
  <1>3. QED
    BY <1>1, <1>2, NearServer

-----------------------------------------------------------------------------
(* One slot changes. *)

LEMMA Linked ==
  ASSUME LinkInv
  PROVE  /\ initial_seq[Server] > 1 /\ initial_seq[Server] % IssStep = 0
         /\ \A i \in Slots : /\ ClientTcb(conns[Client][i], opens[Client], initial_seq[Server])
                             /\ ServerTcb(conns[Server][i], opens[Client], initial_seq[Server])
         /\ \A g \in net : WireSeg(g, opens[Client], initial_seq[Server])
         /\ \A i \in Slots : BusyOf(conns[Client][i], i, busy)
         /\ \A i \in Slots : FreshOf(conns[Client][i], net) /\ SynOf(conns[Server][i], net)
         /\ \A i, j \in Slots : PairOf(conns[Client][i], conns[Server][j], net)
  BY DEF LinkInv

LEMMA Typed ==
  ASSUME TypeInv
  PROVE  /\ opens[Client] \in Nat /\ initial_seq[Server] \in Nat
         /\ \A h \in Hosts, i \in Slots : GoodTcb(conns[h][i])
         /\ \A g \in net : GoodSeg(g)
  BY Given DEF TypeInv

LEMMA ClosedIsOut ==
  ASSUME NEW t, NEW u, NEW W, t.state \notin Open, t.state # "SYN_SENT"
  PROVE  PairOf(t, u, W) /\ FreshOf(t, W)
  BY DEF PairOf, FreshOf

LEMMA InactiveIsOut ==
  ASSUME NEW t, NEW u, NEW W, ~Active(u)
  PROVE  PairOf(t, u, W) /\ SynOf(u, W)
  BY DEF PairOf, SynOf, Active

LEMMA ClientStep ==
  ASSUME TypeInv, LinkInv, NEW i \in Slots, NEW s, GoodTcb(s), Becomes(Client, i, s),
         NEW o \in Int, opens'[Client] = o, opens[Client] <= o, initial_seq'[Server] = initial_seq[Server],
         \A j \in Slots : j # i => (<<Client, j>> \in busy' <=> <<Client, j>> \in busy),
         s.state # "CLOSED" =>
           \A j \in Slots : j # i /\ conns[Client][j].state # "CLOSED" => s.lport # conns[Client][j].lport,
         \A q \in net' : \/ q \in net
                         \/ /\ WireSeg(q, o, initial_seq[Server])
                            /\ "R" \in q.flags \/ (s.state # "CLOSED" /\ q.from = Client /\ q.src = s.lport),
         ClientTcb(s, o, initial_seq[Server]), BusyOf(s, i, busy'), FreshOf(s, net'),
         \A j \in Slots : PairOf(s, conns[Server][j], net')
  PROVE  LinkInv'
  <1> DEFINE n == initial_seq[Server]
  <1>1. /\ conns'[Client][i] = s
        /\ \A j \in Slots : j # i => conns'[Client][j] = conns[Client][j]
        /\ \A j \in Slots : conns'[Server][j] = conns[Server][j]
    <2>1. s \in Tcb /\ conns \in [Hosts -> [Slots -> Tcb]]
      BY DEF TypeInv, GoodTcb
    <2>2. QED
      BY <2>1, BecomesIs, Given
  <1>2. n \in Nat /\ opens[Client] \in Nat
    BY Typed
  <1>3. \A j \in Slots : ClientTcb(conns'[Client][j], o, n) /\ ServerTcb(conns'[Server][j], o, n)
    <2> SUFFICES ASSUME NEW j \in Slots
                 PROVE  ClientTcb(conns'[Client][j], o, n) /\ ServerTcb(conns'[Server][j], o, n)
      OBVIOUS
    <2>1. ClientTcb(conns[Client][j], opens[Client], n) /\ ServerTcb(conns[Server][j], opens[Client], n)
          /\ GoodTcb(conns[Client][j])
      BY Linked, Typed, Given
    <2>2. ServerTcb(conns[Server][j], o, n)
      BY <1>2, <2>1, ServerMore
    <2>3. ClientTcb(conns[Client][j], o, n)
      BY <1>2, <2>1, ClientMore
    <2>4. QED
      BY <1>1, <2>2, <2>3
  <1>4. \A q \in net' : WireSeg(q, o, n)
    <2> SUFFICES ASSUME NEW q \in net, q \in net' PROVE WireSeg(q, o, n)
      OBVIOUS
    <2>1. WireSeg(q, opens[Client], n) /\ GoodSeg(q)
      BY Linked, Typed
    <2>2. QED
      BY <1>2, <2>1, WireMore
  <1>5. \A j \in Slots : BusyOf(conns'[Client][j], j, busy')
    <2> SUFFICES ASSUME NEW j \in Slots PROVE BusyOf(conns'[Client][j], j, busy')
      OBVIOUS
    <2>1. CASE j = i
      BY <1>1, <2>1
    <2>2. CASE j # i
      <3>1. BusyOf(conns[Client][j], j, busy) /\ conns'[Client][j] = conns[Client][j]
            /\ (<<Client, j>> \in busy' <=> <<Client, j>> \in busy)
        BY <1>1, <2>2, Linked
      <3>2. QED
        BY <3>1 DEF BusyOf
    <2>3. QED
      BY <2>1, <2>2
  <1>6. \A j, k \in Slots : j # k /\ conns'[Client][j].state # "CLOSED" /\ conns'[Client][k].state # "CLOSED" =>
                              conns'[Client][j].lport # conns'[Client][k].lport
    BY <1>1 DEF LinkInv
  <1>7. \A j, k \in Slots : j # k /\ Active(conns'[Server][j]) /\ Active(conns'[Server][k]) =>
                              conns'[Server][j].rport # conns'[Server][k].rport
    BY <1>1 DEF LinkInv
  <1>8. ASSUME NEW j \in Slots, j # i, conns[Client][j].state # "CLOSED", NEW q \in net'
        PROVE  q \in net \/ "R" \in q.flags \/ (q.from = Client /\ q.src # conns[Client][j].lport)
    BY <1>8
  <1>9. \A j \in Slots : FreshOf(conns'[Client][j], net') /\ SynOf(conns'[Server][j], net')
    <2> SUFFICES ASSUME NEW j \in Slots PROVE FreshOf(conns'[Client][j], net') /\ SynOf(conns[Server][j], net')
      BY <1>1
    <2>1. SynOf(conns[Server][j], net')
      BY SynElsewhere, Linked, Given
    <2>2. CASE j = i
      BY <1>1, <2>1, <2>2
    <2>3. CASE j # i /\ conns[Client][j].state # "CLOSED"
      <3>1. FreshOf(conns[Client][j], net)
        BY Linked
      <3>2. FreshOf(conns[Client][j], net')
        BY <1>8, <2>3, <3>1, FreshElsewhere, Given
      <3>3. QED
        BY <1>1, <2>1, <2>3, <3>2
    <2>4. CASE j # i /\ conns[Client][j].state = "CLOSED"
      <3>1. FreshOf(conns[Client][j], net')
        BY <2>4 DEF FreshOf
      <3>2. QED
        BY <1>1, <2>1, <2>4, <3>1
    <2>5. QED
      BY <2>2, <2>3, <2>4
  <1>10. \A j, k \in Slots : PairOf(conns'[Client][j], conns'[Server][k], net')
    <2> SUFFICES ASSUME NEW j \in Slots, NEW k \in Slots PROVE PairOf(conns'[Client][j], conns[Server][k], net')
      BY <1>1
    <2>1. CASE j = i
      BY <1>1, <2>1
    <2>2. CASE j # i /\ conns[Client][j].state # "CLOSED"
      <3>1. PairOf(conns[Client][j], conns[Server][k], net)
        BY Linked
      <3>2. \A q \in net' : q \in net \/ (~Out(q, conns[Client][j].lport) /\ ~Back(q, conns[Client][j].lport))
        BY <1>8, <2>2, Given DEF Out, Back, Plain
      <3>3. PairOf(conns[Client][j], conns[Server][k], net')
        BY <3>1, <3>2, PairElsewhere
      <3>4. QED
        BY <1>1, <2>2, <3>3
    <2>3. CASE j # i /\ conns[Client][j].state = "CLOSED"
      <3>1. PairOf(conns[Client][j], conns[Server][k], net')
        BY <2>3, ClosedIsOut DEF Open
      <3>2. QED
        BY <1>1, <2>3, <3>1
    <2>4. QED
      BY <2>1, <2>2, <2>3
  <1>11. n > 1 /\ n % IssStep = 0
    BY Linked
  <1>12. QED
    BY <1>3, <1>4, <1>5, <1>6, <1>7, <1>9, <1>10, <1>11 DEF LinkInv

LEMMA ServerStep ==
  ASSUME TypeInv, LinkInv, NEW i \in Slots, NEW s, GoodTcb(s), Becomes(Server, i, s),
         NEW n \in Int, initial_seq'[Server] = n, initial_seq[Server] <= n, n % IssStep = 0,
         opens'[Client] = opens[Client], busy' = busy,
         Active(s) => \A j \in Slots : j # i /\ Active(conns[Server][j]) => s.rport # conns[Server][j].rport,
         \A q \in net' : \/ q \in net
                         \/ /\ WireSeg(q, opens[Client], n)
                            /\ "R" \in q.flags \/ (Active(s) /\ q.from = Server /\ q.dst = s.rport),
         ServerTcb(s, opens[Client], n), SynOf(s, net'),
         \A j \in Slots : FreshOf(conns[Client][j], net') /\ PairOf(conns[Client][j], s, net')
  PROVE  LinkInv'
  <1> DEFINE o == opens[Client]
  <1>1. /\ conns'[Server][i] = s
        /\ \A j \in Slots : j # i => conns'[Server][j] = conns[Server][j]
        /\ \A j \in Slots : conns'[Client][j] = conns[Client][j]
    <2>1. s \in Tcb /\ conns \in [Hosts -> [Slots -> Tcb]]
      BY DEF TypeInv, GoodTcb
    <2>2. QED
      BY <2>1, BecomesIs, Given
  <1>2. initial_seq[Server] \in Nat /\ o \in Nat
    BY Typed
  <1>3. \A j \in Slots : ClientTcb(conns'[Client][j], o, n) /\ ServerTcb(conns'[Server][j], o, n)
    <2> SUFFICES ASSUME NEW j \in Slots
                 PROVE  ClientTcb(conns'[Client][j], o, n) /\ ServerTcb(conns'[Server][j], o, n)
      OBVIOUS
    <2>1. ClientTcb(conns[Client][j], o, initial_seq[Server]) /\ ServerTcb(conns[Server][j], o, initial_seq[Server])
          /\ GoodTcb(conns[Client][j])
      BY Linked, Typed, Given
    <2>2. ServerTcb(conns[Server][j], o, n)
      BY <1>2, <2>1, ServerMore
    <2>3. ClientTcb(conns[Client][j], o, n)
      BY <1>2, <2>1, ClientMore
    <2>4. QED
      BY <1>1, <2>2, <2>3
  <1>4. \A q \in net' : WireSeg(q, o, n)
    <2> SUFFICES ASSUME NEW q \in net, q \in net' PROVE WireSeg(q, o, n)
      OBVIOUS
    <2>1. WireSeg(q, o, initial_seq[Server]) /\ GoodSeg(q)
      BY Linked, Typed
    <2>2. QED
      BY <1>2, <2>1, WireMore
  <1>5. \A j \in Slots : BusyOf(conns'[Client][j], j, busy')
    BY <1>1, Linked
  <1>6. \A j, k \in Slots : j # k /\ conns'[Client][j].state # "CLOSED" /\ conns'[Client][k].state # "CLOSED" =>
                              conns'[Client][j].lport # conns'[Client][k].lport
    BY <1>1 DEF LinkInv
  <1>7. \A j, k \in Slots : j # k /\ Active(conns'[Server][j]) /\ Active(conns'[Server][k]) =>
                              conns'[Server][j].rport # conns'[Server][k].rport
    BY <1>1 DEF LinkInv
  <1>8. ASSUME NEW k \in Slots, k # i, Active(conns[Server][k]), NEW q \in net'
        PROVE  q \in net \/ "R" \in q.flags \/ (q.from = Server /\ q.dst # conns[Server][k].rport)
    BY <1>8
  <1>9. \A j \in Slots : FreshOf(conns'[Client][j], net') /\ SynOf(conns'[Server][j], net')
    <2> SUFFICES ASSUME NEW j \in Slots PROVE SynOf(conns'[Server][j], net')
      BY <1>1
    <2>2. CASE j = i
      BY <1>1, <2>2
    <2>3. CASE j # i /\ Active(conns[Server][j])
      <3>1. SynOf(conns[Server][j], net)
        BY Linked
      <3>2. SynOf(conns[Server][j], net')
        BY <1>8, <2>3, <3>1, SynElsewhere
      <3>3. QED
        BY <1>1, <2>3, <3>2
    <2>4. CASE j # i /\ ~Active(conns[Server][j])
      <3>1. SynOf(conns[Server][j], net')
        BY <2>4, InactiveIsOut
      <3>2. QED
        BY <1>1, <2>4, <3>1
    <2>5. QED
      BY <2>2, <2>3, <2>4
  <1>10. \A j, k \in Slots : PairOf(conns'[Client][j], conns'[Server][k], net')
    <2> SUFFICES ASSUME NEW j \in Slots, NEW k \in Slots PROVE PairOf(conns[Client][j], conns'[Server][k], net')
      BY <1>1
    <2>1. CASE k = i
      BY <1>1, <2>1
    <2>2. CASE k # i /\ Active(conns[Server][k]) /\ conns[Server][k].rport = conns[Client][j].lport
      <3>1. PairOf(conns[Client][j], conns[Server][k], net)
        BY Linked
      <3>2. \A q \in net' : q \in net \/ (~Out(q, conns[Client][j].lport) /\ ~Back(q, conns[Client][j].lport))
        BY <1>8, <2>2, Given DEF Out, Back, Plain
      <3>3. PairOf(conns[Client][j], conns[Server][k], net')
        BY <3>1, <3>2, PairElsewhere
      <3>4. QED
        BY <1>1, <2>2, <3>3
    <2>3. CASE k # i /\ ~(Active(conns[Server][k]) /\ conns[Server][k].rport = conns[Client][j].lport)
      <3>1. PairOf(conns[Client][j], conns[Server][k], net')
        BY <2>3 DEF PairOf
      <3>2. QED
        BY <1>1, <2>3, <3>1
    <2>4. QED
      BY <2>1, <2>2, <2>3
  <1>11. n > 1
    BY <1>2, Linked
  <1>12. QED
    BY <1>3, <1>4, <1>5, <1>6, <1>7, <1>9, <1>10, <1>11 DEF LinkInv

(* No TCB changes. *)
LEMMA WireOnly ==
  ASSUME TypeInv, LinkInv, UNCHANGED <<conns, initial_seq, opens, busy>>,
         \A q \in net' : q \in net \/ ("R" \in q.flags /\ WireSeg(q, opens[Client], initial_seq[Server]))
  PROVE  LinkInv'
  <1>1. \A q \in net' : WireSeg(q, opens[Client], initial_seq[Server])
    BY Linked
  <1>2. \A j \in Slots : FreshOf(conns[Client][j], net') /\ SynOf(conns[Server][j], net')
    BY Linked, FreshElsewhere, SynElsewhere
  <1>3. \A j, k \in Slots : PairOf(conns[Client][j], conns[Server][k], net')
    <2> SUFFICES ASSUME NEW j \in Slots, NEW k \in Slots PROVE PairOf(conns[Client][j], conns[Server][k], net')
      OBVIOUS
    <2>1. PairOf(conns[Client][j], conns[Server][k], net)
      BY Linked
    <2>2. \A q \in net' : q \in net \/ (~Out(q, conns[Client][j].lport) /\ ~Back(q, conns[Client][j].lport))
      BY DEF Out, Back, Plain
    <2>3. QED
      BY <2>1, <2>2, PairElsewhere
  <1>4. QED
    BY <1>1, <1>2, <1>3 DEF LinkInv

-----------------------------------------------------------------------------
(* Segments of the two ends, and ends that go on with nothing new to take. *)

LEMMA ClientSays ==
  ASSUME NEW t, GoodTcb(t), NEW o \in Int, NEW n \in Int, ClientTcb(t, o, n), t.state # "CLOSED",
         NEW q, GoodSeg(q), q.from = Client, q.src = t.lport, q.dst = t.rport, q.ack <= t.rnxt,
         "S" \notin q.flags \/ q.flags = {"S"}
  PROVE  WireSeg(q, o, n)
  <1>1. t.lport \in 1 .. o /\ t.rport = 0 /\ t.rnxt <= n - 1
    BY DEF ClientTcb, Within
  <1>2. q.ack \in Int /\ t.rnxt \in Nat
    BY Sizes, SegSizes
  <1>3. q.ack < n
    BY <1>1, <1>2
  <1>4. QED
    BY <1>1, <1>3 DEF WireSeg

LEMMA ServerSays ==
  ASSUME NEW u, GoodTcb(u), NEW o \in Int, NEW n \in Nat, ServerTcb(u, o, n), Active(u),
         NEW q, GoodSeg(q), q.from = Server, q.src = u.lport, q.dst = u.rport, "S" \notin q.flags,
         q.seq + Len(q.data) <= Sent(u)
  PROVE  WireSeg(q, o, n)
  <1>1. u.rport \in 1 .. o /\ u.lport = 0 /\ Block(u, n)
    BY DEF ServerTcb, Active
  <1>2. Sent(u) + 1 < n /\ Sent(u) \in Nat
    BY <1>1, BlockBound, Totals
  <1> DEFINE e == q.seq + Len(q.data)
  <1>3. e \in Int /\ e <= Sent(u)
    BY SegSizes
  <1> HIDE DEF e
  <1>4. e + 1 < n
    BY <1>2, <1>3
  <1>5. QED
    BY <1>1, <1>4, Given DEF WireSeg, e

LEMMA ClientGoesOn ==
  ASSUME NEW t, GoodTcb(t), t.state \in Open, NEW u, GoodTcb(u), NEW W, \A g \in W : GoodSeg(g), PairOf(t, u, W),
         NEW s, Carried(t, t.una, t.wnd, t.rnxt, s),
         NEW V, \A q \in V : q \in W \/ Told(q, Client, s) \/ Neither(q, t.lport)
  PROVE  PairOf(s, u, V)
  <1>1. s.state = t.state /\ s.lport = t.lport /\ GoodTcb(s) /\ "SYN_SENT" \notin Open
    BY DEF Carried, SamePlace, Open
  <1>2. /\ t.una \in Int /\ t.wnd \in Int /\ t.rnxt \in Int /\ s.rnxt \in Int /\ u.una \in Int
    BY <1>1, Sizes
  <1>3. ASSUME Near(t, u, W) PROVE Near(s, u, V)
    <2>1. t.una <= u.rnxt /\ t.una + t.wnd <= Edge(u) /\ t.rnxt <= Sent(u)
      BY <1>3, FlowBounds DEF Near
    <2>2. QED
      BY <1>2, <1>3, <2>1, ClientCarries
  <1>4. ASSUME Far(t, u, W) PROVE Far(s, u, V)
    <2>1. Within(t, u.una - 1) /\ t.rnxt <= u.una - 1
      BY <1>4 DEF Far, Within
    <2>2. Within(s, u.una - 1)
      BY <1>2, <2>1 DEF Carried
    <2>3. s.rnxt <= u.una - 1
      BY <2>2 DEF Within
    <2>4. ASSUME NEW q \in V, Told(q, Client, s) PROVE q.from = Client /\ q.ack < u.una
      <3>1. q.ack <= s.rnxt /\ q.ack \in Int /\ q.from = Client
        BY <2>4, SegSizes DEF Told, Fits
      <3>2. QED
        BY <1>2, <2>3, <3>1
    <2>5. \A q \in V : q \in W \/ (q.from = Client /\ q.ack < u.una) \/ Neither(q, t.lport)
      BY <2>4
    <2>6. QED
      BY <1>1, <1>4, <2>2, <2>5, FarClient
  <1>5. QED
    BY <1>1, <1>3, <1>4 DEF PairOf

LEMMA ServerGoesOn ==
  ASSUME NEW t, GoodTcb(t), NEW u, GoodTcb(u), NEW W, \A g \in W : GoodSeg(g), PairOf(t, u, W),
         NEW v, Carried(u, u.una, u.wnd, u.rnxt, v), v.rnxt = u.rnxt, v.una = u.una,
         NEW V, \A q \in V : q \in W \/ (Told(q, Server, v) /\ v.state \notin Starting) \/ Neither(q, t.lport)
  PROVE  PairOf(t, v, V)
  <1>1. v.state = u.state /\ v.rport = u.rport /\ GoodTcb(v) /\ (Active(v) <=> Active(u))
    BY DEF Carried, SamePlace, Active
  <1>2. /\ u.una \in Int /\ u.wnd \in Int /\ u.rnxt \in Int
    BY Sizes
  <1>3. ASSUME Near(t, u, W) PROVE Near(t, v, V)
    <2>1. u.una <= t.rnxt /\ u.una + u.wnd <= Edge(t) /\ u.rnxt <= Sent(t)
      BY <1>3, FlowBounds DEF Near
    <2>2. \A q \in V : q \in W \/ (Told(q, Server, v) /\ v.state # "SYN_RECEIVED") \/ Neither(q, t.lport)
      BY DEF Starting
    <2>3. QED
      BY <1>2, <1>3, <2>1, <2>2, ServerCarries
  <1>4. ASSUME Far(t, u, W) PROVE Far(t, v, V)
    <2>1. v.state = "SYN_RECEIVED"
      BY <1>1, <1>4 DEF Far
    <2>2. \A q \in V : q \in W \/ Neither(q, t.lport)
      BY <2>1 DEF Starting
    <2>3. QED
      BY <1>1, <1>4, <2>2, FarServer
  <1>5. QED
    BY <1>1, <1>3, <1>4 DEF PairOf

LEMMA FreshServer ==
  ASSUME NEW t, NEW u, NEW W, FreshOf(t, W), PairOf(t, u, W),
         NEW V, \A q \in V : \/ q \in W \/ "R" \in q.flags
                             \/ q.from = Server /\ q.dst = u.rport /\ Active(u) /\ u.state # "SYN_RECEIVED"
  PROVE  FreshOf(t, V)
  <1> SUFFICES ASSUME t.state = "SYN_SENT" PROVE FreshOf(t, V)
    BY DEF FreshOf
  <1>1. ASSUME NEW q \in V
        PROVE \/ q \in W \/ "R" \in q.flags
              \/ ~(q.from = Client /\ q.src = t.lport) /\ ~(q.from = Server /\ q.dst = t.lport)
    BY <1>1, Given DEF PairOf
  <1>2. QED
    BY <1>1, FreshElsewhere

-----------------------------------------------------------------------------
(* The client's steps. *)

Still == UNCHANGED <<initial_seq, opens, busy>>

LEMMA ClientTcbKeeps ==
  ASSUME NEW t, NEW s, NEW o, NEW n, ClientTcb(t, o, n), t.state # "CLOSED", s.lport = t.lport, s.rport = t.rport,
         s.state \notin {"LISTEN", "SYN_RECEIVED"}, Within(s, n - 1)
  PROVE  ClientTcb(s, o, n)
  BY DEF ClientTcb

LEMMA ClientKeeps ==
  ASSUME TypeInv, LinkInv, NEW i \in Slots, NEW s, GoodTcb(s), Becomes(Client, i, s), Still,
         s.state # "CLOSED" => conns[Client][i].state # "CLOSED" /\ s.lport = conns[Client][i].lport,
         \A q \in net' : \/ q \in net
                         \/ /\ WireSeg(q, opens[Client], initial_seq[Server])
                            /\ "R" \in q.flags \/ (s.state # "CLOSED" /\ q.from = Client /\ q.src = s.lport),
         ClientTcb(s, opens[Client], initial_seq[Server]), BusyOf(s, i, busy), FreshOf(s, net'),
         \A j \in Slots : PairOf(s, conns[Server][j], net')
  PROVE  LinkInv'
  <1>1. s.state # "CLOSED" =>
          \A j \in Slots : j # i /\ conns[Client][j].state # "CLOSED" => s.lport # conns[Client][j].lport
    BY DEF LinkInv
  <1>2. opens[Client] \in Int /\ opens[Client] <= opens[Client]
    BY Typed
  <1>3. opens'[Client] = opens[Client] /\ initial_seq'[Server] = initial_seq[Server] /\ busy' = busy
    BY DEF Still
  <1>4. QED
    BY <1>1, <1>2, <1>3, ClientStep

LEMMA GoneClient ==
  ASSUME TypeInv, LinkInv, NEW i \in Slots, Becomes(Client, i, Unused), Still, net' \subseteq net
  PROVE  LinkInv'
  <1> DEFINE s == Unused
  <1>1. s.state = "CLOSED"
    BY DEF Unused
  <1>2. GoodTcb(s)
    BY BlankTcb
  <1> HIDE DEF s
  <1>3. ClientTcb(s, opens[Client], initial_seq[Server]) /\ BusyOf(s, i, busy)
    BY <1>1 DEF ClientTcb, BusyOf
  <1>4. FreshOf(s, net') /\ \A j \in Slots : PairOf(s, conns[Server][j], net')
    BY <1>1, ClosedIsOut DEF Open
  <1>5. Becomes(Client, i, s)
    BY DEF s
  <1>6. QED
    BY <1>1, <1>2, <1>3, <1>4, <1>5, ClientKeeps

(* An open connection goes on. *)
LEMMA OpenClient ==
  ASSUME TypeInv, LinkInv, NEW i \in Slots, NEW s, conns[Client][i].state \in Open,
         Carried(conns[Client][i], conns[Client][i].una, conns[Client][i].wnd, conns[Client][i].rnxt, s),
         Becomes(Client, i, s), Still, \A q \in net' : q \in net \/ Told(q, Client, s)
  PROVE  LinkInv'
  <1> DEFINE t == conns[Client][i]  o == opens[Client]  n == initial_seq[Server]
  <1>1. GoodTcb(t) /\ o \in Int /\ n \in Int
    BY Typed, Given
  <1>2. GoodTcb(s) /\ s.state = t.state /\ s.lport = t.lport /\ s.rport = t.rport
    BY DEF Carried, SamePlace
  <1>3. t.state # "CLOSED" /\ t.state # "SYN_SENT" /\ s.state \notin {"LISTEN", "SYN_RECEIVED"}
    BY <1>2 DEF Open
  <1>4. ClientTcb(t, o, n) /\ BusyOf(t, i, busy)
    BY Linked
  <1>5. ClientTcb(s, o, n)
    <2>1. Within(t, n - 1) /\ n - 1 \in Int
      BY <1>1, <1>3, <1>4 DEF ClientTcb
    <2>2. t.rnxt <= n - 1
      BY <2>1 DEF Within
    <2>3. Within(s, n - 1)
      BY <2>1, <2>2 DEF Carried
    <2>4. QED
      BY <1>2, <1>3, <1>4, <2>3, ClientTcbKeeps
  <1>6. ASSUME NEW q, Told(q, Client, s)
        PROVE  WireSeg(q, o, n) /\ s.state # "CLOSED" /\ q.from = Client /\ q.src = s.lport
    <2>1. GoodSeg(q) /\ q.from = Client /\ q.src = s.lport /\ q.dst = s.rport /\ q.flags = {"A"} /\ q.ack <= s.rnxt
      BY <1>6 DEF Told, Fits
    <2>2. s.state # "CLOSED" /\ "S" \notin q.flags
      BY <1>2, <1>3, <2>1
    <2>3. QED
      BY <1>1, <1>2, <1>5, <2>1, <2>2, ClientSays
  <1>7. BusyOf(s, i, busy) /\ FreshOf(s, net')
    BY <1>2, <1>3, <1>4 DEF BusyOf, FreshOf
  <1>8. ASSUME NEW j \in Slots PROVE PairOf(s, conns[Server][j], net')
    <2>1. PairOf(t, conns[Server][j], net) /\ GoodTcb(conns[Server][j]) /\ \A g \in net : GoodSeg(g)
      BY Linked, Typed, Given
    <2>2. \A q \in net' : q \in net \/ Told(q, Client, s) \/ Neither(q, t.lport)
      OBVIOUS
    <2> HIDE DEF t
    <2>3. QED
      BY <1>1, <2>1, <2>2, ClientGoesOn DEF t
  <1>9. QED
    BY <1>2, <1>3, <1>5, <1>6, <1>7, <1>8, ClientKeeps

(* A connection that is closing, or begins to. *)
LEMMA ClosingClient ==
  ASSUME TypeInv, LinkInv, NEW i \in Slots, NEW s, GoodTcb(s), conns[Client][i].state # "CLOSED",
         s.state \in Closing, s.lport = conns[Client][i].lport, s.rport = conns[Client][i].rport,
         conns[Client][i].state # "SYN_SENT", Within(s, initial_seq[Server] - 1),
         Becomes(Client, i, s), Still,
         \A q \in net' : \/ q \in net
                         \/ /\ GoodSeg(q) /\ q.from = Client /\ q.src = s.lport /\ q.dst = s.rport
                            /\ "S" \notin q.flags /\ q.ack <= s.rnxt
  PROVE  LinkInv'
  <1> DEFINE t == conns[Client][i]  o == opens[Client]  n == initial_seq[Server]
  <1>1. GoodTcb(t) /\ o \in Int /\ n \in Int
    BY Typed, Given
  <1>2. s.state # "CLOSED" /\ s.state # "SYN_SENT" /\ s.state \notin Open /\ s.state \notin {"LISTEN", "SYN_RECEIVED"}
    BY DEF Closing, Open
  <1>3. ClientTcb(t, o, n) /\ BusyOf(t, i, busy)
    BY Linked
  <1>4. ClientTcb(s, o, n)
    BY <1>2, <1>3, ClientTcbKeeps
  <1>5. BusyOf(s, i, busy)
    BY <1>2, <1>3 DEF BusyOf
  <1>6. FreshOf(s, net') /\ \A j \in Slots : PairOf(s, conns[Server][j], net')
    BY <1>2, ClosedIsOut
  <1>7. \A q \in net' : \/ q \in net
                        \/ WireSeg(q, o, n) /\ s.state # "CLOSED" /\ q.from = Client /\ q.src = s.lport
    BY <1>1, <1>2, <1>4, ClientSays
  <1>8. QED
    BY <1>2, <1>4, <1>5, <1>6, <1>7, ClientKeeps

(* A connection that waits for the answer to its SYN. *)
LEMMA WaitingClient ==
  ASSUME TypeInv, LinkInv, NEW i \in Slots, NEW s, GoodTcb(s), conns[Client][i].state = "SYN_SENT",
         SamePlace(conns[Client][i], s), SameSender(conns[Client][i], s), SameReceiver(conns[Client][i], s),
         Becomes(Client, i, s), Still,
         \A q \in net' : \/ q \in net
                         \/ /\ GoodSeg(q) /\ q.from = Client /\ q.src = s.lport /\ q.dst = s.rport
                            /\ q.flags = {"S"} /\ q.seq = s.una /\ q.ack <= s.rnxt
  PROVE  LinkInv'
  <1> DEFINE t == conns[Client][i]  o == opens[Client]  n == initial_seq[Server]
  <1>1. GoodTcb(t) /\ o \in Int /\ n \in Int
    BY Typed, Given
  <1>2. s.state = "SYN_SENT" /\ s.lport = t.lport /\ s.rport = t.rport /\ s.una = t.una /\ s.nxt = t.nxt
        /\ s.rnxt = t.rnxt /\ s.ooo = t.ooo
    BY DEF SamePlace, SameSender, SameReceiver
  <1>3. ClientTcb(t, o, n) /\ BusyOf(t, i, busy)
    BY Linked
  <1>4. ClientTcb(s, o, n)
    BY <1>2, <1>3 DEF ClientTcb, Within
  <1>5. BusyOf(s, i, busy)
    BY <1>2, <1>3 DEF BusyOf
  <1>6. FreshOf(s, net')
    <2>1. FreshOf(t, net)
      BY Linked
    <2>2. QED
      BY <1>2, <2>1, Given DEF FreshOf, Out, Back, Plain
  <1>7. ASSUME NEW j \in Slots PROVE PairOf(s, conns[Server][j], net')
    <2>1. PairOf(t, conns[Server][j], net)
      BY Linked
    <2>2. QED
      BY <1>2, <2>1 DEF PairOf, Open
  <1>8. \A q \in net' : \/ q \in net
                        \/ WireSeg(q, o, n) /\ s.state # "CLOSED" /\ q.from = Client /\ q.src = s.lport
    BY <1>1, <1>2, <1>4, ClientSays
  <1>9. QED
    BY <1>2, <1>4, <1>5, <1>6, <1>7, <1>8, ClientKeeps

(* What a timer sends again. *)
Repeats(q, h, s) ==
  /\ GoodSeg(q) /\ q.from = h /\ q.src = s.lport /\ q.dst = s.rport /\ q.ack = s.rnxt
  /\ q.seq = s.una /\ q.data = <<>>
  /\ \/ s.state = "SYN_SENT" /\ q.flags = {"S"}
     \/ s.state \in {"FIN_WAIT_1", "LAST_ACK"} /\ q.flags = {"F", "A"}

LEMMA ClientStates ==
  ASSUME TypeInv, LinkInv, NEW i \in Slots
  PROVE  conns[Client][i].state \in {"CLOSED", "SYN_SENT"} \cup Open \cup Closing
  <1> DEFINE t == conns[Client][i]
  <1>1. GoodTcb(t) /\ ClientTcb(t, opens[Client], initial_seq[Server])
    BY Typed, Linked, Given
  <1> HIDE DEF t
  <1>2. t.state \in States /\ t.state \notin {"LISTEN", "SYN_RECEIVED"}
    BY <1>1, Fields DEF GoodTcb, ClientTcb
  <1>3. QED
    BY <1>2 DEF States, Open, Closing, t

LEMMA ServerStates ==
  ASSUME TypeInv, LinkInv, NEW i \in Slots
  PROVE  conns[Server][i].state \in {"CLOSED", "LISTEN", "SYN_RECEIVED"} \cup Open \cup Closing
  <1> DEFINE t == conns[Server][i]
  <1>1. GoodTcb(t) /\ ServerTcb(t, opens[Client], initial_seq[Server])
    BY Typed, Linked, Given
  <1> HIDE DEF t
  <1>2. t.state \in States /\ t.state # "SYN_SENT"
    BY <1>1, Fields DEF GoodTcb, ServerTcb
  <1>3. QED
    BY <1>2 DEF States, Open, Closing, t

LEMMA SameClient ==
  ASSUME TypeInv, LinkInv, NEW i \in Slots, NEW s, GoodTcb(s), conns[Client][i].state # "CLOSED",
         SamePlace(conns[Client][i], s), SameSender(conns[Client][i], s), SameReceiver(conns[Client][i], s),
         Becomes(Client, i, s), Still,
         \A q \in net' : q \in net \/ (Told(q, Client, s) /\ s.state \notin Starting) \/ Repeats(q, Client, s)
  PROVE  LinkInv'
  <1> DEFINE t == conns[Client][i]  n == initial_seq[Server]
  <1>1. GoodTcb(t) /\ ClientTcb(t, opens[Client], n)
    BY Typed, Linked, Given
  <1>2. s.state = t.state /\ s.lport = t.lport /\ s.rport = t.rport /\ s.una = t.una /\ s.rnxt = t.rnxt /\ s.ooo = t.ooo
    BY DEF SamePlace, SameSender, SameReceiver
  <1>3. t.state \in {"SYN_SENT"} \cup Open \cup Closing
    BY ClientStates
  <1>4. s.rnxt \in Nat /\ s.rnxt <= s.rnxt
    BY Sizes
  <1>5. CASE t.state \in Open
    <2>1. Carried(t, t.una, t.wnd, t.rnxt, s)
      BY <1>1, SameCarried
    <2>2. \A q \in net' : q \in net \/ Told(q, Client, s)
      BY <1>2, <1>5 DEF Repeats, Open
    <2>3. QED
      BY <1>5, <2>1, <2>2, OpenClient
  <1>6. CASE t.state \in Closing
    <2>1. t.state # "SYN_SENT"
      BY <1>6 DEF Closing
    <2>2. Within(s, n - 1)
      BY <1>1, <1>2 DEF ClientTcb, Within
    <2>3. \A q \in net' : \/ q \in net
                          \/ /\ GoodSeg(q) /\ q.from = Client /\ q.src = s.lport /\ q.dst = s.rport
                             /\ "S" \notin q.flags /\ q.ack <= s.rnxt
      BY <1>2, <1>4, <2>1 DEF Repeats, Told, Fits
    <2>4. QED
      BY <1>2, <1>6, <2>1, <2>2, <2>3, ClosingClient
  <1>7. CASE t.state = "SYN_SENT"
    <2>1. \A q \in net' : \/ q \in net
                          \/ /\ GoodSeg(q) /\ q.from = Client /\ q.src = s.lport /\ q.dst = s.rport
                             /\ q.flags = {"S"} /\ q.seq = s.una /\ q.ack <= s.rnxt
      BY <1>2, <1>4, <1>7 DEF Repeats, Starting
    <2>2. QED
      BY <1>7, <2>1, WaitingClient
  <1>8. QED
    BY <1>3, <1>5, <1>6, <1>7

LEMMA RstIs ==
  ASSUME TypeInv, NEW h \in Hosts, NEW i \in Slots, NEW g \in net, RecvRst(h, i, g), NEW s, s = conns'[h][i]
  PROVE  /\ Becomes(h, i, s) /\ Still /\ net' \subseteq net /\ conns[h][i].state # "CLOSED"
         /\ s = Unused \/ s = conns[h][i]
  <1> DEFINE v == IF RstAccepted(conns[h][i], g) THEN Unused ELSE conns[h][i]
             r == Res(v, {})
  <1>1. r.t = v /\ r.out = {}
    BY DEF Res
  <1>2. Answer(h, i, g, r) /\ initial_seq' = initial_seq /\ Finds(h, i, g)
    BY DEF RecvRst, Arrives
  <1> HIDE DEF r
  <1>3. GoodTcb(v)
    BY BlankTcb DEF TypeInv
  <1>4. Becomes(h, i, v) /\ conns'[h][i] = v /\ opens' = opens /\ busy' = busy /\ net' \subseteq net
    BY <1>1, <1>2, <1>3, AnswerIs
  <1>5. conns[h][i].state # "CLOSED"
    BY <1>2, FoundIs
  <1>6. QED
    BY <1>2, <1>4, <1>5 DEF Still

LEMMA ChallengeIs ==
  ASSUME TypeInv, NEW h \in Hosts, NEW i \in Slots, NEW g \in net, RecvChallenge(h, i, g), NEW s, s = conns'[h][i]
  PROVE  /\ Becomes(h, i, s) /\ Still /\ GoodTcb(s) /\ conns[h][i].state # "CLOSED"
         /\ SamePlace(conns[h][i], s) /\ SameSender(conns[h][i], s) /\ SameReceiver(conns[h][i], s)
         /\ \A q \in net' : q \in net \/ (Told(q, h, s) /\ s.state \notin Starting)
  <1> DEFINE c == conns[h][i]  t == Touched(c)  out == Emit(h, c, {"A"}, <<>>)  r == Res(t, out)
  <1>1. r.t = t /\ r.out = out
    BY DEF Res
  <1>2. Finds(h, i, g) /\ Answer(h, i, g, r) /\ initial_seq' = initial_seq
        /\ c.state \notin {"LISTEN", "SYN_SENT", "SYN_RECEIVED"}
    BY DEF RecvChallenge, Arrives
  <1> HIDE DEF r
  <1>3. GoodTcb(t) /\ SamePlace(c, t) /\ SameSender(c, t) /\ SameReceiver(c, t) /\ t.state # "CLOSED" /\ GoodTcb(c)
    BY <1>2, TouchedIs DEF TypeInv
  <1>4. ASSUME NEW q \in out PROVE Told(q, h, t) /\ t.state \notin Starting
    <2>1. q = Seg(h, c, {"A"}, <<>>, NoSack)
      BY <1>4 DEF Emit
    <2>2. t.state \notin Starting
      BY <1>2, <1>3 DEF SamePlace, Starting
    <2> HIDE DEF c, t
    <2>3. NoSack \in Int
      BY DEF NoSack
    <2>4. Says(q, h, c)
      BY <1>3, <2>1, <2>3, SaysWhere
    <2>5. Says(q, h, t)
      BY <1>3, <2>4, SameSays
    <2>6. QED
      BY <1>3, <2>2, <2>5, SaysTold
  <1> HIDE DEF out, t
  <1>5. Becomes(h, i, t) /\ conns'[h][i] = t /\ opens' = opens /\ busy' = busy
        /\ \A q \in net' : q \in net \/ q \in out
    BY <1>1, <1>2, <1>3, AnswerIs
  <1>6. c.state # "CLOSED"
    BY <1>2, FoundIs
  <1>7. QED
    BY <1>2, <1>3, <1>4, <1>5, <1>6 DEF Still

(* An open client takes a segment: of its other end, or of one before that.   *)
LEMMA ClientTakes ==
  ASSUME NEW t, GoodTcb(t), t.state \in Open, NEW u, GoodTcb(u), NEW W, \A g \in W : GoodSeg(g), PairOf(t, u, W),
         NEW g \in W, Back(g, t.lport), NEW s, Grown(t, g, s),
         NEW V, \A q \in V : q \in W \/ Grows(q, Client, t, g, s),
         "F" \in g.flags \/ (Moved(t, g, s) /\ \A q \in V : q \in W \/ Told(q, Client, s))
  PROVE  PairOf(s, u, V)
  <1>1. s.state \in Open /\ s.lport = t.lport /\ GoodTcb(s) /\ "SYN_SENT" \notin Open
    BY DEF Grown, Open
  <1>2. GoodSeg(g) /\ u.una \in Int
    BY Sizes
  <1>3. ASSUME Near(t, u, W) PROVE Near(s, u, V)
    <2>1. Fits(g, u)
      BY <1>3 DEF Near
    <2>2. Moved(t, g, s) /\ \A q \in V : q \in W \/ Told(q, Client, s) \/ Neither(q, t.lport)
      BY <2>1 DEF Fits
    <2> DEFINE k == g.ack  w == g.wnd  e == g.seq + Len(g.data)
    <2>3. Carried(t, k, w, e, s)
      BY <2>2, MovedCarried
    <2>4. k <= u.rnxt /\ k + w <= Edge(u) /\ e <= Sent(u)
      BY <2>1 DEF Fits
    <2>5. k \in Int /\ w \in Int /\ e \in Int
      BY <1>2, SegSizes
    <2> HIDE DEF k, w, e
    <2>6. QED
      BY <1>3, <2>2, <2>3, <2>4, <2>5, ClientCarries
  <1>4. ASSUME Far(t, u, W) PROVE Far(s, u, V)
    <2> DEFINE b == u.una - 1  e == g.seq + Len(g.data)
    <2>1. b \in Int /\ e \in Int
      BY <1>2, SegSizes
    <2>2. Within(t, b) /\ e + 1 < u.una
      BY <1>4 DEF Far
    <2>3. \A x \in Int : Within(t, x) /\ e + 1 <= x => Within(s, x)
      BY DEF Grown
    <2>4. \A q \in V : q \in W \/ \A x \in Int : Within(t, x) /\ e + 1 <= x => q.ack <= x
      BY DEF Grows
    <2> HIDE DEF e
    <2>5. e + 1 <= b
      BY <1>2, <2>1, <2>2
    <2>6. Within(s, b)
      BY <2>1, <2>2, <2>3, <2>5
    <2>7. ASSUME NEW q \in V PROVE q \in W \/ (q.from = Client /\ q.ack < u.una)
      <3> SUFFICES ASSUME q \notin W PROVE q.from = Client /\ q.ack < u.una
        OBVIOUS
      <3>1. q.from = Client /\ q.ack \in Int /\ q.ack <= b
        BY <2>1, <2>2, <2>4, <2>5, SegSizes DEF Grows
      <3>2. QED
        BY <1>2, <3>1
    <2>8. QED
      BY <1>1, <1>4, <2>6, <2>7, FarClient
  <1>5. QED
    BY <1>1, <1>3, <1>4 DEF PairOf

(* The answer to the SYN of t, which u, or a connection before it, has sent. *)
LEMMA ClientMeets ==
  ASSUME NEW t, GoodTcb(t), t.state = "SYN_SENT", NEW u, GoodTcb(u), NEW W, \A g \in W : GoodSeg(g),
         PairOf(t, u, W), FreshOf(t, W), SynOf(u, W), u.state = "SYN_RECEIVED" => u.nxt = u.una + 1,
         NEW g \in W, g.from = Server, g.dst = t.lport, "R" \notin g.flags, "S" \in g.flags, g.ack = t.nxt,
         NEW s, IsSetUp(t, g, g.seq + 1, s),
         NEW V, \A q \in V : q \in W \/ Told(q, Client, s)
  PROVE  PairOf(s, u, V)
  <1> SUFFICES ASSUME Active(u), u.rport = s.lport PROVE Near(s, u, V) \/ Far(s, u, V)
    BY DEF PairOf, IsSetUp
  <1>1. /\ GoodTcb(s) /\ s.lport = t.lport /\ s.una = t.nxt /\ s.nxt = t.nxt /\ s.wnd = g.wnd /\ s.rnxt = g.seq + 1
        /\ s.rx = <<>> /\ s.ooo = {} /\ s.persist = FALSE
    BY DEF IsSetUp
  <1>2. u.state = "SYN_RECEIVED" /\ u.rnxt = t.una + 1 /\ u.rport = t.lport
    BY <1>1 DEF PairOf
  <1>3. u.nxt = u.una + 1 /\ u.rx = <<>> /\ u.ooo = {} /\ u.persist = FALSE
    <2>1. ~u.persist /\ u \in Tcb /\ u.rx = <<>> /\ u.ooo = {}
      BY <1>2 DEF GoodTcb, Starting
    <2>2. QED
      BY <1>2, <2>1, Fields
  <1>4. /\ g.seq \in Nat /\ g.wnd \in Nat /\ g.wnd < BufSize /\ t.una \in Nat /\ t.nxt \in Nat
        /\ u.una \in Nat /\ u.wnd \in Nat /\ u.wnd < BufSize /\ BufSize \in Nat /\ BufSize >= 2
    BY Sizes, SegSizes, Given DEF GoodSeg
  <1>5. g.ack = t.una + 1 /\ (g.seq = u.una \/ g.seq + 1 < u.una)
    BY <1>2 DEF FreshOf, SynOf
  <1>6. t.nxt = u.rnxt
    BY <1>2, <1>5
  <1>7. ASSUME NEW q \in V, Out(q, t.lport) PROVE Told(q, Client, s)
    BY <1>7 DEF FreshOf
  <1>8. ASSUME NEW q \in V PROVE ~Back(q, t.lport)
    BY <1>8, Given DEF FreshOf, Back, Told
  <1>9. Sent(s) = t.nxt /\ Sent(u) = u.una + 1
    BY <1>1, <1>3, <1>4 DEF Sent
  <1>10. Edge(s) = g.seq + BufSize /\ Edge(u) = t.nxt + BufSize - 1
    <2>1. RxWnd(s) = BufSize - 1 /\ RxWnd(u) = BufSize - 1
      BY <1>1, <1>3, <1>4 DEF RxWnd
    <2>2. QED
      BY <1>1, <1>4, <1>6, <2>1 DEF Edge
  <1>11. CASE g.seq = u.una
    <2>1. Flow(s, u)
      <3>1. Within(u, Sent(s))
        BY <1>3, <1>4, <1>6, <1>9 DEF Within
      <3>2. s.una <= u.rnxt /\ s.una + s.wnd <= Edge(u) /\ s.nxt <= Edge(u)
        BY <1>1, <1>4, <1>6, <1>10
      <3>3. QED
        BY <3>1, <3>2 DEF Flow
    <2>2. Flow(u, s)
      <3>1. Within(s, Sent(u))
        BY <1>1, <1>4, <1>9, <1>11 DEF Within
      <3>2. u.una <= s.rnxt /\ u.una + u.wnd <= Edge(s) /\ u.nxt <= Edge(s)
        BY <1>1, <1>3, <1>4, <1>10, <1>11
      <3>3. QED
        BY <3>1, <3>2 DEF Flow
    <2>3. QED
      BY <1>1, <1>7, <1>8, <2>1, <2>2 DEF Near, Told
  <1>12. CASE g.seq + 1 < u.una
    <2>1. Within(s, u.una - 1)
      BY <1>1, <1>4, <1>12 DEF Within
    <2>2. ASSUME NEW q \in V, Out(q, t.lport) PROVE q.ack < u.una
      <3>1. q.ack <= s.rnxt /\ q.ack \in Int
        BY <1>7, <2>2, SegSizes DEF Told, Fits
      <3>2. QED
        BY <1>1, <1>4, <1>12, <3>1
    <2>3. QED
      BY <1>1, <1>2, <1>8, <2>1, <2>2 DEF Far
  <1>13. QED
    BY <1>5, <1>11, <1>12

LEMMA FromPeer ==
  ASSUME NEW h \in Hosts, NEW i \in Slots, NEW g, Arrives(h, i, g)
  PROVE  g.from = Peer(h) /\ Finds(h, i, g)
  BY DEF Arrives

LEMMA ClientSynSent ==
  ASSUME TypeInv, LinkInv, NEW i \in Slots, NEW g \in net, RecvSynSent(Client, i, g)
  PROVE  LinkInv'
  <1> DEFINE t == conns[Client][i]  s == conns'[Client][i]  n == initial_seq[Server]  o == opens[Client]
  <1>1. /\ Becomes(Client, i, s) /\ opens' = opens /\ busy' = busy /\ t.state = "SYN_SENT" /\ "R" \notin g.flags
        /\ Finds(Client, i, g)
        /\ \/ /\ Joins(Client, i, g, g.seq + 1, s) /\ "S" \in g.flags
              /\ \A q \in net' : q \in net \/ Told(q, Client, s)
           \/ Refuses(Client, i, g, s) /\ net' \subseteq net
    BY SynSentIs, Given
  <1>2. g.from = Server /\ g.dst = t.lport
    BY <1>1, FoundIs, FromPeer, Peers, Given DEF RecvSynSent
  <1>3. GoodTcb(t) /\ ClientTcb(t, o, n) /\ BusyOf(t, i, busy) /\ FreshOf(t, net)
        /\ GoodSeg(g) /\ WireSeg(g, o, n) /\ o \in Int /\ n \in Int
    BY Linked, Typed, Given
  <1> HIDE DEF s
  <1>4. CASE Refuses(Client, i, g, s) /\ net' \subseteq net
    <2>1. Still /\ GoodTcb(s) /\ SamePlace(t, s) /\ SameSender(t, s) /\ SameReceiver(t, s)
      BY <1>1, <1>4 DEF Refuses, Still
    <2>2. QED
      BY <1>1, <1>4, <2>1, SameClient
  <1>5. CASE Joins(Client, i, g, g.seq + 1, s) /\ "S" \in g.flags /\ \A q \in net' : q \in net \/ Told(q, Client, s)
    <2>1. IsSetUp(t, g, g.seq + 1, s) /\ g.ack = t.nxt /\ Still
      BY <1>1, <1>5 DEF Joins, Still
    <2>2. GoodTcb(s) /\ s.state = "ESTABLISHED" /\ s.lport = t.lport /\ s.rport = t.rport /\ s.rnxt = g.seq + 1
          /\ s.ooo = {}
      BY <2>1 DEF IsSetUp
    <2>3. ClientTcb(s, o, n)
      <3>1. g.seq + Len(g.data) + 1 < n /\ g.seq \in Int /\ Len(g.data) \in Nat
        BY <1>1, <1>2, <1>3, SegSizes, Given DEF WireSeg
      <3>2. s.rnxt <= n - 1
        BY <1>3, <2>2, <3>1
      <3>3. Within(s, n - 1)
        BY <2>2, <3>2 DEF Within
      <3>4. QED
        BY <1>1, <1>3, <2>2, <3>3, ClientTcbKeeps
    <2>4. <<Client, i>> \notin busy
      <3>1. t.nxt = t.una + 1
        BY <1>1, <1>2, <1>3, <1>5, <2>1 DEF FreshOf
      <3>2. t.una \in Nat
        BY <1>3, Sizes
      <3>3. QED
        BY <1>1, <1>3, <3>1, <3>2 DEF BusyOf
    <2>5. BusyOf(s, i, busy) /\ FreshOf(s, net')
      BY <2>2, <2>4 DEF BusyOf, FreshOf
    <2>6. ASSUME NEW q, Told(q, Client, s) PROVE WireSeg(q, o, n) /\ q.from = Client /\ q.src = s.lport
      <3>1. GoodSeg(q) /\ q.from = Client /\ q.src = s.lport /\ q.dst = s.rport /\ q.flags = {"A"} /\ q.ack <= s.rnxt
        BY <2>6 DEF Told, Fits
      <3>2. s.state # "CLOSED" /\ "S" \notin q.flags
        BY <2>2, <3>1
      <3>3. QED
        BY <1>3, <2>2, <2>3, <3>1, <3>2, ClientSays
    <2>7. ASSUME NEW j \in Slots PROVE PairOf(s, conns[Server][j], net')
      <3> DEFINE u == conns[Server][j]
      <3>1. GoodTcb(u) /\ PairOf(t, u, net) /\ SynOf(u, net) /\ ServerTcb(u, o, n) /\ \A q \in net : GoodSeg(q)
        BY Linked, Typed, Given
      <3>2. u.state = "SYN_RECEIVED" => u.nxt = u.una + 1
        BY <3>1 DEF ServerTcb
      <3> HIDE DEF u, t
      <3>3. PairOf(s, u, net')
        BY <1>1, <1>2, <1>3, <1>5, <2>1, <3>1, <3>2, ClientMeets
      <3>4. QED
        BY <3>3 DEF u
    <2>8. QED
      BY <1>1, <1>5, <2>1, <2>2, <2>3, <2>5, <2>6, <2>7, ClientKeeps
  <1>6. QED
    BY <1>1, <1>4, <1>5

LEMMA ClientSynced ==
  ASSUME TypeInv, LinkInv, NEW i \in Slots, NEW g \in net, RecvSynced(Client, i, g)
  PROVE  LinkInv'
  <1> DEFINE t == conns[Client][i]  s == conns'[Client][i]  n == initial_seq[Server]  o == opens[Client]
             e == g.seq + Len(g.data)
  <1>1. /\ Becomes(Client, i, s) /\ Still /\ "R" \notin g.flags /\ "S" \notin g.flags /\ Finds(Client, i, g)
        /\ Synced(Client, i, g, s)
    BY SyncedIs, Given DEF Still
  <1>2. g.from = Server /\ g.dst = t.lport /\ t.state # "CLOSED"
    BY <1>1, FoundIs, FromPeer, Peers, Given DEF RecvSynced
  <1>3. GoodTcb(t) /\ ClientTcb(t, o, n) /\ BusyOf(t, i, busy)
        /\ GoodSeg(g) /\ WireSeg(g, o, n) /\ o \in Int /\ n \in Int
    BY Linked, Typed, Given
  <1>4. e + 1 < n /\ e \in Int /\ Within(t, n - 1) /\ g.seq + 1 <= n - 1
    <2>1. e + 1 < n /\ Within(t, n - 1)
      BY <1>1, <1>2, <1>3, Given DEF WireSeg, ClientTcb
    <2>2. e \in Int /\ g.seq \in Int /\ Len(g.data) \in Nat
      BY <1>3, SegSizes
    <2>3. QED
      BY <1>3, <2>1, <2>2
  <1> HIDE DEF s
  <1>5. CASE /\ t.state \in Open /\ Grown(t, g, s) /\ \A q \in net' : q \in net \/ Grows(q, Client, t, g, s)
             /\ "F" \in g.flags \/ (Moved(t, g, s) /\ \A q \in net' : q \in net \/ Told(q, Client, s))
    <2>1. GoodTcb(s) /\ s.state \in Open /\ s.lport = t.lport /\ s.rport = t.rport
          /\ \A b \in Int : Within(t, b) /\ e + 1 <= b => Within(s, b)
      BY <1>5 DEF Grown
    <2>2. s.state \notin {"LISTEN", "SYN_RECEIVED", "SYN_SENT", "CLOSED"} /\ t.state # "SYN_SENT" /\ t.state # "CLOSED"
      BY <1>5, <2>1 DEF Open
    <2>3. e + 1 <= n - 1 /\ n - 1 \in Int
      BY <1>3, <1>4
    <2> HIDE DEF e
    <2>4. ClientTcb(s, o, n)
      BY <1>3, <1>4, <2>1, <2>2, <2>3, ClientTcbKeeps
    <2>5. BusyOf(s, i, busy) /\ FreshOf(s, net')
      BY <1>3, <2>2 DEF BusyOf, FreshOf
    <2>6. ASSUME NEW q, Grows(q, Client, t, g, s) PROVE WireSeg(q, o, n) /\ q.from = Client /\ q.src = s.lport
      <3>1. /\ GoodSeg(q) /\ q.from = Client /\ q.src = t.lport /\ q.dst = t.rport /\ q.flags = {"A"}
            /\ q.ack <= n - 1
        BY <1>4, <2>3, <2>6 DEF Grows, e
      <3>2. q.ack < n
        BY <1>3, <3>1, SegSizes
      <3>3. QED
        BY <1>3, <2>1, <2>2, <3>1, <3>2 DEF WireSeg, ClientTcb
    <2>7. ASSUME NEW j \in Slots PROVE PairOf(s, conns[Server][j], net')
      <3> DEFINE u == conns[Server][j]
      <3>1. GoodTcb(u) /\ PairOf(t, u, net) /\ \A q \in net : GoodSeg(q)
        BY Linked, Typed, Given
      <3>2. Back(g, t.lport)
        BY <1>1, <1>2 DEF Back, Plain
      <3> HIDE DEF u, t
      <3>3. PairOf(s, u, net')
        BY <1>3, <1>5, <3>1, <3>2, ClientTakes
      <3>4. QED
        BY <3>3 DEF u
    <2>8. QED
      BY <1>1, <1>2, <1>5, <2>1, <2>2, <2>4, <2>5, <2>6, <2>7, ClientKeeps
  <1>6. CASE t.state \in Closing /\ Wound(t, g, s) /\ \A q \in net' : q \in net \/ Told(q, Client, s)
    <2>1. GoodTcb(s) /\ s.state \in Closing /\ s.lport = t.lport /\ s.rport = t.rport /\ t.state # "SYN_SENT"
      BY <1>6 DEF Wound, Closing
    <2>2. Within(s, n - 1)
      BY <1>4, <1>6 DEF Wound, Within
    <2>3. \A q \in net' : \/ q \in net
                          \/ /\ GoodSeg(q) /\ q.from = Client /\ q.src = s.lport /\ q.dst = s.rport
                             /\ "S" \notin q.flags /\ q.ack <= s.rnxt
      BY <1>6 DEF Told, Fits
    <2>4. QED
      BY <1>1, <1>2, <2>1, <2>2, <2>3, ClosingClient
  <1>7. CASE s = Unused /\ net' \subseteq net
    BY <1>1, <1>7, GoneClient
  <1>8. QED
    BY <1>1, <1>5, <1>6, <1>7 DEF Synced

LEMMA ClientDials ==
  ASSUME TypeInv, LinkInv, busy = {}, NEW i \in Slots, Connect(Client, i)
  PROVE  LinkInv'
  <1> DEFINE s == conns'[Client][i]  n == initial_seq[Server]  o == opens[Client]
  <1>1. Dials(Client, i, s)
    BY ConnectIs, Given
  <1> HIDE DEF s
  <1>2. o \in Nat /\ n \in Nat /\ n > 1
    BY Typed, Linked
  <1>3. opens'[Client] = o + 1 /\ initial_seq'[Server] = n
    BY <1>1, Given DEF Dials, TypeInv
  <1>4. /\ GoodTcb(s) /\ s.state = "SYN_SENT" /\ s.lport = o + 1 /\ s.rport = 0 /\ s.una = s.nxt /\ s.rnxt = 0
        /\ s.ooo = {} /\ Becomes(Client, i, s) /\ busy' = {<<Client, i>>} /\ s.una = initial_seq[Client]
    BY <1>1 DEF Dials, ListenPort
  <1>5. \A j \in Slots : conns[Client][j].state # "CLOSED" => s.lport # conns[Client][j].lport
    <2> SUFFICES ASSUME NEW j \in Slots, conns[Client][j].state # "CLOSED" PROVE s.lport # conns[Client][j].lport
      OBVIOUS
    <2>1. conns[Client][j].lport \in 1 .. o
      BY Linked DEF ClientTcb
    <2>2. QED
      BY <1>2, <1>4, <2>1
  <1>6. ClientTcb(s, o + 1, n) /\ BusyOf(s, i, busy')
    <2>1. s.lport \in 1 .. o + 1 /\ Within(s, n - 1)
      BY <1>2, <1>4 DEF Within
    <2>2. QED
      BY <1>4, <2>1 DEF ClientTcb, BusyOf
  <1>7. ASSUME NEW q \in net', q \notin net
        PROVE  WireSeg(q, o + 1, n) /\ q.from = Client /\ q.src = s.lport /\ q.flags = {"S"} /\ q.seq = s.una
    <2>1. q.from = Client /\ q.src = s.lport /\ q.dst = 0 /\ q.flags = {"S"} /\ q.seq = s.una /\ q.ack = 0
      BY <1>1, <1>4, <1>7 DEF Dials, ListenPort
    <2>2. q.src \in 1 .. o + 1 /\ q.ack < n
      BY <1>2, <1>4, <2>1
    <2>3. QED
      BY <2>1, <2>2 DEF WireSeg
  <1>8. ASSUME NEW g \in net PROVE (g.from = Client => g.src # s.lport) /\ (g.from = Server => g.dst # s.lport)
    <2>1. WireSeg(g, o, n)
      BY Linked
    <2>2. (g.from = Client => g.src \in 1 .. o) /\ (g.from = Server => g.dst \in 1 .. o)
      BY <2>1, Given DEF WireSeg
    <2>3. QED
      BY <1>2, <1>4, <2>2
  <1>9. FreshOf(s, net')
    <2> SUFFICES ASSUME NEW g \in net'
                 PROVE  /\ ~Out(g, s.lport) /\ ~Back(g, s.lport)
                        /\ g.from = Client /\ g.src = s.lport /\ "R" \notin g.flags => g.seq = s.una
                        /\ g.from = Server /\ g.dst = s.lport /\ "R" \notin g.flags => g.ack = s.una + 1
      BY DEF FreshOf
    <2>1. CASE g \in net
      BY <1>8, <2>1 DEF Out, Back
    <2>2. CASE g \notin net
      BY <1>7, <2>2, Given DEF Out, Back, Plain
    <2>3. QED
      BY <2>1, <2>2
  <1>10. ASSUME NEW j \in Slots PROVE PairOf(s, conns[Server][j], net')
    <2>1. Active(conns[Server][j]) => conns[Server][j].rport \in 1 .. o
      BY Linked DEF ServerTcb
    <2>2. Active(conns[Server][j]) => conns[Server][j].rport # s.lport
      BY <1>2, <1>4, <2>1
    <2>3. QED
      BY <2>2 DEF PairOf
  <1>11. \A j \in Slots : j # i => (<<Client, j>> \in busy' <=> <<Client, j>> \in busy)
    BY <1>4
  <1>12. o + 1 \in Int /\ o <= o + 1 /\ s.state # "CLOSED"
    BY <1>2, <1>4
  <1>13. QED
    BY <1>3, <1>4, <1>5, <1>6, <1>7, <1>9, <1>10, <1>11, <1>12, ClientStep

LEMMA ClientCounted ==
  ASSUME TypeInv, LinkInv, NEW h \in Hosts, NEW i \in Slots, ConnectCounted(h, i)
  PROVE  LinkInv'
  <1> DEFINE t == conns[Client][i]  s == Counted(conns[Client][i])  n == initial_seq[Server]  o == opens[Client]
  <1>1. h = Client
    <2>1. <<h, i>> \in busy /\ busy \subseteq Clients \X Slots
      BY CountedIs DEF TypeInv
    <2>2. QED
      BY <2>1, Given
  <1>2. /\ Becomes(Client, i, s) /\ GoodTcb(s) /\ Counts(t) /\ <<Client, i>> \in busy
        /\ busy' = busy \ {<<Client, i>>} /\ initial_seq' = initial_seq /\ opens' = opens /\ net' = net
    BY <1>1, CountedIs, Given
  <1>3. GoodTcb(t) /\ ClientTcb(t, o, n) /\ BusyOf(t, i, busy) /\ FreshOf(t, net) /\ o \in Int /\ o <= o
    BY <1>2, Linked, Typed, Given
  <1>4. /\ SamePlace(t, s) /\ SameReceiver(t, s) /\ s.una = t.una
        /\ s.nxt = (IF t.state = "CLOSED" THEN t.nxt ELSE t.nxt + 1)
    BY <1>2, <1>3, CountedGood
  <1> HIDE DEF s, t
  <1>5. s.state = t.state /\ s.lport = t.lport /\ s.rport = t.rport /\ s.rnxt = t.rnxt /\ s.ooo = t.ooo
    BY <1>4 DEF SamePlace, SameReceiver
  <1>6. t.state \in {"SYN_SENT", "CLOSED"}
    BY <1>2, <1>3 DEF BusyOf
  <1>7. ClientTcb(s, o, n)
    BY <1>3, <1>5 DEF ClientTcb, Within
  <1>8. BusyOf(s, i, busy')
    BY <1>2, <1>3, <1>4, <1>5 DEF BusyOf
  <1>9. FreshOf(s, net)
    BY <1>3, <1>4, <1>5 DEF FreshOf
  <1>10. ASSUME NEW j \in Slots PROVE PairOf(s, conns[Server][j], net)
    <2>1. PairOf(t, conns[Server][j], net)
      BY Linked DEF t
    <2>2. QED
      BY <1>4, <1>5, <1>6, <2>1 DEF PairOf, Open
  <1>11. \A j \in Slots : j # i => (<<Client, j>> \in busy' <=> <<Client, j>> \in busy)
    BY <1>2
  <1>13. s.state # "CLOSED" =>
           \A j \in Slots : j # i /\ conns[Client][j].state # "CLOSED" => s.lport # conns[Client][j].lport
    BY <1>5 DEF LinkInv, t
  <1>14. QED
    BY <1>2, <1>3, <1>7, <1>8, <1>9, <1>10, <1>11, <1>13, ClientStep

LEMMA ClientShuts ==
  ASSUME TypeInv, LinkInv, NEW i \in Slots, NEW s, Closes(Client, i, s)
  PROVE  LinkInv'
  <1> DEFINE t == conns[Client][i]  n == initial_seq[Server]
  <1>1. Becomes(Client, i, s) /\ GoodTcb(s) /\ Shuts(t, s) /\ Still /\ \A q \in net' : q \in net \/ IsFin(q, Client, t)
    BY DEF Closes, Still
  <1>2. GoodTcb(t) /\ ClientTcb(t, opens[Client], n)
    BY Linked, Typed, Given
  <1>3. CASE t.state \notin Open /\ s = Unused
    <2>1. net' \subseteq net
      BY <1>1, <1>3 DEF IsFin
    <2>2. QED
      BY <1>1, <1>3, <2>1, GoneClient
  <1>4. CASE /\ t.state \in Open /\ s.state \in Closing /\ s.lport = t.lport /\ s.rport = t.rport
             /\ s.rnxt = t.rnxt /\ s.ooo = t.ooo
    <2>1. t.state # "CLOSED" /\ t.state # "SYN_SENT"
      BY <1>4 DEF Open
    <2>2. Within(s, n - 1)
      BY <1>2, <1>4, <2>1 DEF ClientTcb, Within
    <2>3. s.rnxt \in Nat /\ s.rnxt <= s.rnxt
      BY <1>1, Sizes
    <2>4. \A q \in net' : \/ q \in net
                          \/ /\ GoodSeg(q) /\ q.from = Client /\ q.src = s.lport /\ q.dst = s.rport
                             /\ "S" \notin q.flags /\ q.ack <= s.rnxt
      BY <1>1, <1>4, <2>3 DEF IsFin
    <2>5. QED
      BY <1>1, <1>4, <2>1, <2>2, <2>4, ClosingClient
  <1>5. QED
    BY <1>1, <1>3, <1>4 DEF Shuts

-----------------------------------------------------------------------------
(* The server's steps. *)

LEMMA ServerKeeps ==
  ASSUME TypeInv, LinkInv, NEW i \in Slots, NEW s, GoodTcb(s), Becomes(Server, i, s), Still,
         Active(s) => Active(conns[Server][i]) /\ s.rport = conns[Server][i].rport,
         \A q \in net' : \/ q \in net
                         \/ /\ WireSeg(q, opens[Client], initial_seq[Server])
                            /\ "R" \in q.flags \/ (Active(s) /\ q.from = Server /\ q.dst = s.rport),
         ServerTcb(s, opens[Client], initial_seq[Server]), SynOf(s, net'),
         \A j \in Slots : FreshOf(conns[Client][j], net') /\ PairOf(conns[Client][j], s, net')
  PROVE  LinkInv'
  <1>1. Active(s) => \A j \in Slots : j # i /\ Active(conns[Server][j]) => s.rport # conns[Server][j].rport
    BY DEF LinkInv
  <1>2. initial_seq[Server] \in Int /\ initial_seq[Server] <= initial_seq[Server] /\ initial_seq[Server] % IssStep = 0
    BY Typed, Linked
  <1>3. opens'[Client] = opens[Client] /\ initial_seq'[Server] = initial_seq[Server] /\ busy' = busy
    BY DEF Still
  <1>4. QED
    BY <1>1, <1>2, <1>3, ServerStep

(* Slots that belong to no connection. *)
LEMMA IdleServer ==
  ASSUME TypeInv, LinkInv, NEW i \in Slots, NEW s, GoodTcb(s), ~Active(s), s.lport = 0,
         s.state = "LISTEN" => s.rport = NoPort, Becomes(Server, i, s),
         initial_seq' = initial_seq, opens'[Client] = opens[Client], busy' = busy,
         \A q \in net' : q \in net \/ ("R" \in q.flags /\ WireSeg(q, opens[Client], initial_seq[Server]))
  PROVE  LinkInv'
  <1> DEFINE n == initial_seq[Server]  o == opens[Client]
  <1>1. n \in Int /\ n <= n /\ n % IssStep = 0 /\ initial_seq'[Server] = n
    BY Typed, Linked
  <1>2. ServerTcb(s, o, n)
    BY DEF ServerTcb, Active
  <1>3. SynOf(s, net') /\ \A j \in Slots : PairOf(conns[Client][j], s, net')
    BY InactiveIsOut
  <1>4. \A j \in Slots : FreshOf(conns[Client][j], net')
    BY Linked, FreshElsewhere
  <1>5. QED
    BY <1>1, <1>2, <1>3, <1>4, ServerStep

LEMMA GoneServer ==
  ASSUME TypeInv, LinkInv, NEW i \in Slots, Becomes(Server, i, Unused), Still, net' \subseteq net
  PROVE  LinkInv'
  <1> DEFINE s == Unused
  <1>1. s.state = "CLOSED" /\ s.lport = 0
    BY DEF Unused
  <1>2. GoodTcb(s)
    BY BlankTcb
  <1>3. Becomes(Server, i, s)
    OBVIOUS
  <1> HIDE DEF s
  <1>4. ~Active(s)
    BY <1>1 DEF Active
  <1>5. QED
    BY <1>1, <1>2, <1>3, <1>4, IdleServer DEF Still

LEMMA ServerTcbKeeps ==
  ASSUME NEW u, NEW v, NEW o, NEW n, ServerTcb(u, o, n), Active(u), v.lport = u.lport, v.rport = u.rport,
         v.state \in {"SYN_RECEIVED"} \cup Open \cup Closing, v.state = "SYN_RECEIVED" => v.nxt = v.una + 1,
         Block(v, n)
  PROVE  ServerTcb(v, o, n)
  <1>1. u.lport = 0 /\ u.rport \in 1 .. o
    BY DEF ServerTcb, Active
  <1>2. v.state # "SYN_SENT" /\ v.state # "LISTEN"
    BY DEF Open, Closing
  <1>3. QED
    BY <1>1, <1>2 DEF ServerTcb

LEMMA ActiveBlock ==
  ASSUME TypeInv, LinkInv, NEW i \in Slots, Active(conns[Server][i])
  PROVE  Block(conns[Server][i], initial_seq[Server])
  BY Linked DEF ServerTcb

(* An open connection goes on. *)
LEMMA OpenServer ==
  ASSUME TypeInv, LinkInv, NEW i \in Slots, NEW s, conns[Server][i].state \in Open,
         Carried(conns[Server][i], conns[Server][i].una, conns[Server][i].wnd, conns[Server][i].rnxt, s),
         s.rnxt = conns[Server][i].rnxt, s.una = conns[Server][i].una, Block(s, initial_seq[Server]),
         Becomes(Server, i, s), Still, \A q \in net' : q \in net \/ Told(q, Server, s)
  PROVE  LinkInv'
  <1> DEFINE u == conns[Server][i]  o == opens[Client]  n == initial_seq[Server]
  <1>1. GoodTcb(u) /\ o \in Int /\ n \in Nat /\ ServerTcb(u, o, n)
    BY Typed, Linked, Given
  <1>2. GoodTcb(s) /\ s.state = u.state /\ s.lport = u.lport /\ s.rport = u.rport
    BY DEF Carried, SamePlace
  <1>3. Active(u) /\ Active(s) /\ u.state # "SYN_RECEIVED" /\ s.state # "SYN_RECEIVED" /\ s.state \notin Starting
    BY <1>2 DEF Open, Active, Starting
  <1>4. ServerTcb(s, o, n)
    BY <1>1, <1>2, <1>3, ServerTcbKeeps
  <1>5. ASSUME NEW q, Told(q, Server, s)
        PROVE  WireSeg(q, o, n) /\ q.from = Server /\ q.dst = s.rport
    <2>1. GoodSeg(q) /\ q.from = Server /\ q.src = s.lport /\ q.dst = s.rport /\ q.flags = {"A"}
          /\ q.seq + Len(q.data) <= Sent(s)
      BY <1>5 DEF Told, Fits
    <2>2. "S" \notin q.flags
      BY <2>1
    <2>3. QED
      BY <1>1, <1>2, <1>3, <1>4, <2>1, <2>2, ServerSays
  <1>6. SynOf(s, net')
    BY <1>3 DEF SynOf
  <1>7. ASSUME NEW j \in Slots PROVE FreshOf(conns[Client][j], net') /\ PairOf(conns[Client][j], s, net')
    <2> DEFINE t == conns[Client][j]
    <2>1. PairOf(t, u, net) /\ FreshOf(t, net) /\ GoodTcb(t) /\ \A g \in net : GoodSeg(g)
      BY Linked, Typed, Given
    <2>2. \A q \in net' : q \in net \/ (Told(q, Server, s) /\ s.state \notin Starting) \/ Neither(q, t.lport)
      BY <1>3
    <2>3. \A q \in net' : \/ q \in net \/ "R" \in q.flags
                          \/ q.from = Server /\ q.dst = u.rport /\ Active(u) /\ u.state # "SYN_RECEIVED"
      BY <1>2, <1>3, <1>5
    <2> HIDE DEF t, u
    <2>4. FreshOf(t, net')
      BY <2>1, <2>3, FreshServer
    <2>5. PairOf(t, s, net')
      BY <1>1, <2>1, <2>2, ServerGoesOn DEF u
    <2>6. QED
      BY <2>4, <2>5 DEF t
  <1>8. QED
    BY <1>2, <1>3, <1>4, <1>5, <1>6, <1>7, ServerKeeps

LEMMA ClosingServer ==
  ASSUME TypeInv, LinkInv, NEW i \in Slots, NEW s, GoodTcb(s), conns[Server][i].state \in Open \cup Closing,
         s.state \in Closing, s.lport = conns[Server][i].lport, s.rport = conns[Server][i].rport,
         Block(s, initial_seq[Server]), Becomes(Server, i, s), Still,
         \A q \in net' : \/ q \in net
                         \/ /\ GoodSeg(q) /\ q.from = Server /\ q.src = s.lport /\ q.dst = s.rport
                            /\ "S" \notin q.flags /\ q.seq + Len(q.data) <= Sent(s)
  PROVE  LinkInv'
  <1> DEFINE u == conns[Server][i]  o == opens[Client]  n == initial_seq[Server]
  <1>1. GoodTcb(u) /\ o \in Int /\ n \in Nat /\ ServerTcb(u, o, n)
    BY Typed, Linked, Given
  <1>2. Active(u) /\ Active(s) /\ u.state # "SYN_RECEIVED" /\ s.state # "SYN_RECEIVED" /\ s.state \notin Open
    BY DEF Open, Closing, Active
  <1>3. ServerTcb(s, o, n)
    BY <1>1, <1>2, ServerTcbKeeps
  <1>4. ASSUME NEW q \in net', q \notin net
        PROVE  WireSeg(q, o, n) /\ q.from = Server /\ q.dst = s.rport
    BY <1>1, <1>2, <1>3, <1>4, ServerSays
  <1>5. SynOf(s, net')
    BY <1>2 DEF SynOf
  <1>6. ASSUME NEW j \in Slots PROVE FreshOf(conns[Client][j], net') /\ PairOf(conns[Client][j], s, net')
    <2> DEFINE t == conns[Client][j]
    <2>1. PairOf(t, u, net) /\ FreshOf(t, net)
      BY Linked
    <2>2. \A q \in net' : \/ q \in net \/ "R" \in q.flags
                          \/ q.from = Server /\ q.dst = u.rport /\ Active(u) /\ u.state # "SYN_RECEIVED"
      BY <1>2, <1>4
    <2>3. s.rport = u.rport
      OBVIOUS
    <2> HIDE DEF t, u
    <2>4. FreshOf(t, net')
      BY <2>1, <2>2, FreshServer
    <2>5. PairOf(t, s, net')
      BY <1>2, <2>1, <2>3 DEF PairOf
    <2>6. QED
      BY <2>4, <2>5 DEF t
  <1>7. QED
    BY <1>2, <1>3, <1>4, <1>5, <1>6, ServerKeeps

(* A connection that waits for the last ACK of its set-up. *)
LEMMA WaitingServer ==
  ASSUME TypeInv, LinkInv, NEW i \in Slots, NEW s, GoodTcb(s), conns[Server][i].state = "SYN_RECEIVED",
         SamePlace(conns[Server][i], s), SameSender(conns[Server][i], s), SameReceiver(conns[Server][i], s),
         Becomes(Server, i, s), Still,
         \A q \in net' : q \in net \/ ("R" \in q.flags /\ WireSeg(q, opens[Client], initial_seq[Server]))
  PROVE  LinkInv'
  <1> DEFINE u == conns[Server][i]  o == opens[Client]  n == initial_seq[Server]
  <1>1. GoodTcb(u) /\ o \in Int /\ n \in Nat /\ ServerTcb(u, o, n)
    BY Typed, Linked, Given
  <1>2. s.state = u.state /\ s.lport = u.lport /\ s.rport = u.rport /\ s.una = u.una /\ s.nxt = u.nxt /\ s.rnxt = u.rnxt
    BY DEF SamePlace, SameSender, SameReceiver
  <1>3. Active(u) /\ Active(s)
    BY <1>2 DEF Active
  <1>4. ServerTcb(s, o, n)
    <2>1. Block(s, n)
      <3>1. Block(u, n) /\ u.nxt \in Nat
        BY <1>1, <1>3, Sizes DEF ServerTcb
      <3>2. QED
        BY <1>2, <3>1, BlockSame
    <2>2. QED
      BY <1>1, <1>2, <1>3, <2>1, ServerTcbKeeps DEF ServerTcb
  <1>5. SynOf(s, net')
    <2>1. SynOf(u, net)
      BY Linked
    <2>2. QED
      BY <1>2, <2>1 DEF SynOf
  <1>6. ASSUME NEW j \in Slots PROVE FreshOf(conns[Client][j], net') /\ PairOf(conns[Client][j], s, net')
    <2> DEFINE t == conns[Client][j]
    <2>1. PairOf(t, u, net) /\ FreshOf(t, net) /\ GoodTcb(t) /\ \A g \in net : GoodSeg(g)
      BY Linked, Typed, Given
    <2>2. \A q \in net' : q \in net \/ Neither(q, t.lport)
      BY DEF Neither, Out, Back, Plain
    <2>3. Carried(u, u.una, u.wnd, u.rnxt, s)
      BY <1>1, SameCarried
    <2> HIDE DEF t, u
    <2>4. FreshOf(t, net')
      BY <2>1, FreshElsewhere
    <2>5. PairOf(t, s, net')
      BY <1>1, <1>2, <2>1, <2>2, <2>3, ServerGoesOn
    <2>6. QED
      BY <2>4, <2>5 DEF t
  <1>7. QED
    BY <1>2, <1>3, <1>4, <1>5, <1>6, ServerKeeps

LEMMA SameServer ==
  ASSUME TypeInv, LinkInv, NEW i \in Slots, NEW s, GoodTcb(s), conns[Server][i].state # "CLOSED",
         SamePlace(conns[Server][i], s), SameSender(conns[Server][i], s), SameReceiver(conns[Server][i], s),
         Becomes(Server, i, s), Still,
         \/ \A q \in net' : q \in net \/ (Told(q, Server, s) /\ s.state \notin Starting) \/ Repeats(q, Server, s)
         \/ /\ s.state \in {"LISTEN", "SYN_RECEIVED"}
            /\ \A q \in net' : q \in net \/ ("R" \in q.flags /\ WireSeg(q, opens[Client], initial_seq[Server]))
  PROVE  LinkInv'
  <1> DEFINE u == conns[Server][i]  o == opens[Client]  n == initial_seq[Server]
  <1>1. GoodTcb(u) /\ ServerTcb(u, o, n)
    BY Typed, Linked, Given
  <1>2. s.state = u.state /\ s.lport = u.lport /\ s.rport = u.rport /\ s.una = u.una /\ s.rnxt = u.rnxt /\ s.nxt = u.nxt
    BY DEF SamePlace, SameSender, SameReceiver
  <1>3. u.state \in {"LISTEN", "SYN_RECEIVED"} \cup Open \cup Closing
    BY ServerStates
  <1>4. ASSUME u.state \in {"LISTEN", "SYN_RECEIVED"}
        PROVE  \A q \in net' : q \in net \/ ("R" \in q.flags /\ WireSeg(q, o, n))
    BY <1>2, <1>4 DEF Repeats, Starting
  <1>5. ASSUME u.state \in Open \cup Closing
        PROVE  /\ \A q \in net' : q \in net \/ (Told(q, Server, s) /\ s.state \notin Starting) \/ Repeats(q, Server, s)
               /\ Block(s, n)
    <2>1. u.state \notin {"LISTEN", "SYN_RECEIVED"} /\ Active(u) /\ u.nxt \in Nat
      BY <1>1, <1>5, Sizes DEF Open, Closing, Active
    <2>2. Block(s, n)
      BY <1>1, <1>2, <2>1, BlockSame DEF ServerTcb
    <2>3. QED
      BY <1>2, <2>1, <2>2
  <1>6. CASE u.state = "LISTEN"
    <2>1. ~Active(s) /\ s.lport = 0 /\ s.rport = NoPort
      BY <1>1, <1>2, <1>6 DEF Active, ServerTcb
    <2>2. initial_seq' = initial_seq /\ opens'[Client] = o /\ busy' = busy
      BY DEF Still
    <2>3. QED
      BY <1>4, <1>6, <2>1, <2>2, IdleServer
  <1>7. CASE u.state = "SYN_RECEIVED"
    BY <1>4, <1>7, WaitingServer
  <1>8. CASE u.state \in Open
    <2>1. Carried(u, u.una, u.wnd, u.rnxt, s)
      BY <1>1, SameCarried
    <2>2. \A q \in net' : q \in net \/ Told(q, Server, s)
      BY <1>2, <1>5, <1>8 DEF Repeats, Open
    <2>3. QED
      BY <1>2, <1>5, <1>8, <2>1, <2>2, OpenServer
  <1>9. CASE u.state \in Closing
    <2>1. \A q \in net' : \/ q \in net
                          \/ /\ GoodSeg(q) /\ q.from = Server /\ q.src = s.lport /\ q.dst = s.rport
                             /\ "S" \notin q.flags /\ q.seq + Len(q.data) <= Sent(s)
      <3> SUFFICES ASSUME NEW q \in net', q \notin net
                   PROVE  /\ GoodSeg(q) /\ q.from = Server /\ q.src = s.lport /\ q.dst = s.rport
                          /\ "S" \notin q.flags /\ q.seq + Len(q.data) <= Sent(s)
        OBVIOUS
      <3>1. CASE Told(q, Server, s)
        BY <3>1 DEF Told, Fits
      <3>2. CASE Repeats(q, Server, s)
        <4>1. /\ GoodSeg(q) /\ q.from = Server /\ q.src = s.lport /\ q.dst = s.rport
              /\ "S" \notin q.flags /\ q.seq = s.una /\ Len(q.data) = 0
          BY <1>2, <1>9, <3>2 DEF Repeats, Closing
        <4>2. s.una \in Nat /\ s.nxt \in Nat /\ Sent(s) \in Nat /\ s.una <= s.nxt /\ s.nxt <= Sent(s)
          BY Sizes, Totals
        <4>3. QED
          BY <4>1, <4>2
      <3>3. QED
        BY <1>5, <1>9, <3>1, <3>2
    <2>2. QED
      BY <1>2, <1>5, <1>9, <2>1, ClosingServer
  <1>10. QED
    BY <1>3, <1>6, <1>7, <1>8, <1>9

(* A refused segment: the RST goes to a port that was used. *)
LEMMA RefusalIs ==
  ASSUME NEW g, NEW o, NEW n, WireSeg(g, o, n), g.from = Client,
         NEW q, q.from = Server, q.src = g.dst, q.dst = g.src, q.flags = {"R", "A"}
  PROVE  "R" \in q.flags /\ WireSeg(q, o, n)
  BY Given DEF WireSeg

LEMMA ServerMeets ==
  ASSUME NEW t, GoodTcb(t), NEW u, GoodTcb(u), u.state = "SYN_RECEIVED", u.nxt = u.una + 1,
         NEW W, \A g \in W : GoodSeg(g), PairOf(t, u, W), FreshOf(t, W),
         NEW g \in W, Out(g, u.rport), g.ack = u.nxt, NEW v, IsSetUp(u, g, u.rnxt, v),
         NEW V, V \subseteq W
  PROVE  PairOf(t, v, V)
  <1>1. /\ GoodTcb(v) /\ v.state = "ESTABLISHED" /\ v.lport = u.lport /\ v.rport = u.rport /\ v.una = u.nxt
        /\ v.nxt = u.nxt /\ v.wnd = g.wnd /\ v.rnxt = u.rnxt /\ v.rx = <<>> /\ v.ooo = {} /\ v.persist = FALSE
    BY DEF IsSetUp
  <1>2. Active(u)
    BY DEF Active
  <1> SUFFICES ASSUME u.rport = t.lport PROVE PairOf(t, v, V)
    BY <1>1 DEF PairOf
  <1>3. t.state # "SYN_SENT"
    BY DEF FreshOf
  <1> SUFFICES ASSUME t.state \in Open PROVE Near(t, v, V)
    BY <1>3 DEF PairOf
  <1>4. u.rx = <<>> /\ u.ooo = {} /\ u.persist = FALSE
    <2>1. ~u.persist /\ u \in Tcb /\ u.rx = <<>> /\ u.ooo = {}
      BY DEF GoodTcb, Starting
    <2>2. QED
      BY <2>1, Fields
  <1>5. u.una \in Nat /\ u.nxt \in Nat /\ u.rnxt \in Nat /\ t.rnxt \in Nat /\ g.wnd \in Nat /\ Edge(t) \in Nat
    BY Sizes, SegSizes, Totals
  <1>6. Near(t, u, W)
    <2>1. Near(t, u, W) \/ Far(t, u, W)
      BY <1>2 DEF PairOf
    <2>2. ~(g.ack < u.una)
      BY <1>5
    <2>3. QED
      BY <2>1, <2>2 DEF Far
  <1>7. Fits(g, t) /\ Flow(t, u) /\ Flow(u, t)
    BY <1>6 DEF Near
  <1>8. u.nxt <= t.rnxt /\ u.nxt + g.wnd <= Edge(t)
    BY <1>7 DEF Fits
  <1>9. Sent(v) = u.nxt /\ Sent(u) = u.nxt /\ Edge(v) = Edge(u)
    BY <1>1, <1>4, <1>5 DEF Sent, Edge, RxWnd
  <1>10. Flow(v, t)
    <2>1. Within(t, Sent(v))
      BY <1>7, <1>9 DEF Flow
    <2>2. u.nxt <= Edge(t)
      BY <1>5, <1>8
    <2>3. QED
      BY <1>1, <1>8, <2>1, <2>2 DEF Flow
  <1>11. Flow(t, v)
    <2>1. Within(v, Sent(t))
      BY <1>1, <1>4, <1>7 DEF Flow, Within
    <2>2. QED
      BY <1>1, <1>7, <1>9, <2>1 DEF Flow
  <1>12. Later(u, v)
    BY <1>1, <1>5, <1>9, Totals DEF Later
  <1>13. QED
    BY <1>1, <1>6, <1>10, <1>11, <1>12, NearServer

LEMMA ServerSynReceived ==
  ASSUME TypeInv, LinkInv, NEW i \in Slots, NEW g \in net, RecvSynReceived(Server, i, g)
  PROVE  LinkInv'
  <1> DEFINE u == conns[Server][i]  s == conns'[Server][i]  n == initial_seq[Server]  o == opens[Client]
  <1>1. /\ Becomes(Server, i, s) /\ opens' = opens /\ busy' = busy /\ u.state = "SYN_RECEIVED" /\ "R" \notin g.flags
        /\ Finds(Server, i, g)
        /\ \/ Joins(Server, i, g, u.rnxt, s) /\ net' \subseteq net
           \/ Refuses(Server, i, g, s)
    BY SynReceivedIs, Given
  <1>2. g.from = Client /\ g.src = u.rport
    BY <1>1, FoundIs, FromPeer, Peers, Given DEF RecvSynReceived
  <1>3. GoodTcb(u) /\ ServerTcb(u, o, n) /\ GoodSeg(g) /\ WireSeg(g, o, n) /\ Active(u)
    BY <1>1, Linked, Typed, Given DEF Active
  <1> HIDE DEF s
  <1>4. CASE Refuses(Server, i, g, s)
    <2>1. Still /\ GoodTcb(s) /\ SamePlace(u, s) /\ SameSender(u, s) /\ SameReceiver(u, s)
      BY <1>1, <1>4 DEF Refuses, Still
    <2>2. \A q \in net' : q \in net \/ ("R" \in q.flags /\ WireSeg(q, o, n))
      BY <1>2, <1>3, <1>4, RefusalIs DEF Refuses
    <2>3. QED
      BY <1>1, <2>1, <2>2, WaitingServer
  <1>5. CASE Joins(Server, i, g, u.rnxt, s) /\ net' \subseteq net
    <2>1. IsSetUp(u, g, u.rnxt, s) /\ g.ack = u.nxt /\ "A" \in g.flags /\ Still
      BY <1>1, <1>5 DEF Joins, Still
    <2>2. GoodTcb(s) /\ s.state = "ESTABLISHED" /\ s.lport = u.lport /\ s.rport = u.rport /\ s.nxt = u.nxt
      BY <2>1 DEF IsSetUp
    <2>3. Out(g, u.rport)
      BY <1>1, <1>2, <1>3, <2>1, Given DEF Out, Plain, WireSeg
    <2>4. ServerTcb(s, o, n)
      <3>1. Block(u, n) /\ u.nxt \in Nat
        BY <1>3, Sizes DEF ServerTcb
      <3>2. Block(s, n)
        BY <1>1, <2>2, <3>1, BlockSame DEF Closing
      <3>3. QED
        BY <1>3, <2>2, <3>2, ServerTcbKeeps DEF Open
    <2>5. SynOf(s, net') /\ Active(s)
      BY <2>2 DEF SynOf, Active
    <2>6. ASSUME NEW j \in Slots PROVE FreshOf(conns[Client][j], net') /\ PairOf(conns[Client][j], s, net')
      <3> DEFINE t == conns[Client][j]
      <3>1. PairOf(t, u, net) /\ FreshOf(t, net) /\ GoodTcb(t) /\ \A q \in net : GoodSeg(q)
        BY Linked, Typed, Given
      <3>2. u.nxt = u.una + 1
        BY <1>1, <1>3 DEF ServerTcb
      <3> HIDE DEF t, u
      <3>3. FreshOf(t, net')
        BY <1>5, <3>1, FreshElsewhere
      <3>4. PairOf(t, s, net')
        BY <1>1, <1>3, <1>5, <2>1, <2>3, <3>1, <3>2, ServerMeets
      <3>5. QED
        BY <3>3, <3>4 DEF t
    <2>7. QED
      BY <1>1, <1>3, <1>5, <2>1, <2>2, <2>4, <2>5, <2>6, ServerKeeps
  <1>6. QED
    BY <1>1, <1>4, <1>5

(* A listening slot is found only when no connection matches. *)
LEMMA NoOtherPort ==
  ASSUME TypeInv, LinkInv, NEW i \in Slots, conns[Server][i].state = "LISTEN", NEW g, Finds(Server, i, g),
         WireSeg(g, opens[Client], initial_seq[Server]), g.from = Client,
         NEW j \in Slots, Active(conns[Server][j])
  PROVE  conns[Server][j].rport # g.src
  <1> DEFINE exact == {k \in Slots : Matches(conns[Server][k], g)}
  <1>1. g.src \in 1 .. opens[Client] /\ g.dst = 0
    BY DEF WireSeg
  <1>2. conns[Server][i].rport = NoPort
    BY Linked DEF ServerTcb
  <1>3. opens[Client] \in Nat /\ opens[Client] <= MaxOpens[Client] /\ MaxOpens[Client] \in Nat
    BY Typed, Given DEF TypeInv
  <1>4. g.src # NoPort
    BY <1>1, <1>3, Ports
  <1>5. i \notin exact
    BY <1>2, <1>4 DEF Matches
  <1>6. exact # {} => i \in exact
    BY DEF Finds
  <1>7. j \notin exact
    BY <1>5, <1>6
  <1>8. conns[Server][j].lport = 0 /\ conns[Server][j].state # "CLOSED"
    BY Linked DEF ServerTcb, Active
  <1>9. QED
    BY <1>1, <1>7, <1>8 DEF Matches

LEMMA ServerListen ==
  ASSUME TypeInv, LinkInv, NEW i \in Slots, NEW g \in net, RecvListen(Server, i, g)
  PROVE  LinkInv'
  <1> DEFINE u == conns[Server][i]  s == conns'[Server][i]  n == initial_seq[Server]  o == opens[Client]
             m == n + IssStep
  <1>1. /\ Becomes(Server, i, s) /\ InRange(s) /\ opens' = opens /\ busy' = busy /\ u.state = "LISTEN"
        /\ "R" \notin g.flags /\ (Accepts(Server, i, g, s) \/ Refuses(Server, i, g, s))
    BY ListenIs, Given
  <1>2. g.from = Client /\ Finds(Server, i, g)
    BY FromPeer, Peers, Given DEF RecvListen
  <1>3. GoodTcb(u) /\ ServerTcb(u, o, n) /\ GoodSeg(g) /\ WireSeg(g, o, n) /\ n \in Nat /\ o \in Nat /\ n % IssStep = 0
    BY Linked, Typed, Given
  <1> HIDE DEF s
  <1>4. CASE Refuses(Server, i, g, s)
    <2>1. Still /\ GoodTcb(s) /\ SamePlace(u, s) /\ SameSender(u, s) /\ SameReceiver(u, s)
      BY <1>1, <1>4 DEF Refuses, Still
    <2>2. \A q \in net' : q \in net \/ ("R" \in q.flags /\ WireSeg(q, o, n))
      BY <1>2, <1>3, <1>4, RefusalIs DEF Refuses
    <2>3. s.state = "LISTEN" /\ u.state # "CLOSED"
      BY <1>1, <2>1 DEF SamePlace
    <2>4. QED
      BY <1>1, <2>1, <2>2, <2>3, SameServer
  <1>5. CASE Accepts(Server, i, g, s)
    <2>1. /\ GoodTcb(s) /\ s.state = "SYN_RECEIVED" /\ s.lport = g.dst /\ s.rport = g.src
          /\ s.una = n /\ s.nxt = n + 1 /\ s.rnxt = g.seq + 1 /\ "S" \in g.flags
          /\ initial_seq' = [initial_seq EXCEPT ![Server] = @ + IssStep]
      BY <1>5 DEF Accepts
    <2>2. ASSUME NEW q \in net', q \notin net
          PROVE  /\ GoodSeg(q) /\ q.from = Server /\ q.src = g.dst /\ q.dst = g.src /\ q.flags = {"S", "A"}
                 /\ q.seq = n /\ q.ack = g.seq + 1 /\ Len(q.data) = 0
      BY <1>5, <2>2 DEF Accepts
    <2>3. g.src \in 1 .. o /\ g.dst = 0 /\ g.flags = {"S"}
      BY <1>1, <1>2, <1>3, <2>1 DEF WireSeg
    <2>4. initial_seq'[Server] = m /\ m \in Int /\ n <= m /\ m % IssStep = 0 /\ n + 1 < m /\ IssStep >= 4
          /\ IssStep \in Nat
      <3>1. initial_seq'[Server] = m
        BY <2>1, Given DEF TypeInv
      <3>2. IssStep >= 4 /\ IssStep \in Nat
        BY Given
      <3>3. m % IssStep = 0
        BY <1>3, <3>2, NextMultiple
      <3>4. QED
        BY <1>3, <3>1, <3>2, <3>3
    <2>5. Block(s, m)
      <3>1. (n + 1) % IssStep = 1
        BY <1>3, <2>4, Remainder
      <3>2. MaxSeq >= 1
        BY <1>1, <2>1, <3>1 DEF InRange
      <3>3. QED
        BY <1>3, <2>1, <3>2, BlockNew
    <2>6. Active(s)
      BY <2>1 DEF Active
    <2>7. ServerTcb(s, o, m)
      BY <2>1, <2>3, <2>5 DEF ServerTcb
    <2>8. \A j \in Slots : j # i /\ Active(conns[Server][j]) => s.rport # conns[Server][j].rport
      BY <1>1, <1>2, <1>3, <2>1, NoOtherPort
    <2>9. ASSUME NEW q \in net, q.from = Server
          PROVE  q.seq + Len(q.data) + 1 < n \/ "R" \in q.flags
      BY <2>9, Linked, Given DEF WireSeg
    <2>10. SynOf(s, net')
      <3> SUFFICES ASSUME NEW q \in net', q.from = Server, "R" \notin q.flags PROVE q.seq = n \/ q.seq + 1 < n
        BY <2>1 DEF SynOf
      <3>1. CASE q \in net
        <4>1. q.seq + Len(q.data) + 1 < n
          BY <2>9, <3>1
        <4>2. q.seq \in Int /\ Len(q.data) \in Nat
          BY <3>1, Typed, SegSizes
        <4>3. QED
          BY <1>3, <4>1, <4>2
      <3>2. CASE q \notin net
        BY <2>2, <3>2
      <3>3. QED
        BY <3>1, <3>2
    <2>11. ASSUME NEW q \in net', q \notin net PROVE WireSeg(q, o, m)
      <3>1. n + 0 + 1 < m
        BY <1>3, <2>4
      <3>2. QED
        BY <2>2, <2>3, <2>11, <3>1, Given DEF WireSeg
    <2>12. ASSUME NEW j \in Slots PROVE FreshOf(conns[Client][j], net') /\ PairOf(conns[Client][j], s, net')
      <3> DEFINE t == conns[Client][j]
      <3>1. FreshOf(t, net) /\ GoodTcb(t) /\ ClientTcb(t, o, n)
        BY Linked, Typed, Given
      <3> HIDE DEF t
      <3>2. t.state = "SYN_SENT" /\ g.src = t.lport => g.seq = t.una
        BY <1>1, <1>2, <3>1 DEF FreshOf
      <3>3. FreshOf(t, net')
        <4> SUFFICES ASSUME t.state = "SYN_SENT", NEW q \in net'
                     PROVE  /\ ~Out(q, t.lport) /\ ~Back(q, t.lport)
                            /\ q.from = Client /\ q.src = t.lport /\ "R" \notin q.flags => q.seq = t.una
                            /\ q.from = Server /\ q.dst = t.lport /\ "R" \notin q.flags => q.ack = t.una + 1
          BY DEF FreshOf
        <4>1. CASE q \in net
          BY <3>1, <4>1 DEF FreshOf
        <4>2. CASE q \notin net
          BY <2>2, <3>2, <4>2, Given DEF Out, Back, Plain
        <4>3. QED
          BY <4>1, <4>2
      <3>4. ASSUME t.state \in Open PROVE Far(t, s, net')
        <4>1. Within(t, s.una - 1)
          BY <2>1, <3>1, <3>4 DEF ClientTcb, Open
        <4>2. ASSUME NEW q \in net', Plain(q) PROVE q \in net
          BY <2>2, <4>2 DEF Plain
        <4>3. \A q \in net' : Out(q, t.lport) => q.ack < s.una
          BY <2>1, <4>2, Linked DEF Out, Plain, WireSeg
        <4>4. \A q \in net' : Back(q, t.lport) => q.seq + Len(q.data) + 1 < s.una
          BY <2>1, <2>9, <4>2 DEF Back, Plain
        <4>5. QED
          BY <2>1, <4>1, <4>3, <4>4 DEF Far
      <3>5. PairOf(t, s, net')
        BY <2>1, <3>2, <3>4 DEF PairOf
      <3>6. QED
        BY <3>3, <3>5 DEF t
    <2> HIDE DEF m
    <2>13. QED
      BY <1>1, <2>1, <2>2, <2>4, <2>6, <2>7, <2>8, <2>10, <2>11, <2>12, ServerStep
  <1>6. QED
    BY <1>1, <1>4, <1>5

(* An open server takes a segment of its other end. *)
LEMMA ServerTakes ==
  ASSUME NEW t, GoodTcb(t), NEW u, GoodTcb(u), u.state \in Open, NEW W, \A g \in W : GoodSeg(g), PairOf(t, u, W),
         NEW g \in W, Out(g, u.rport), NEW v, Grown(u, g, v), NEW V,
         "F" \in g.flags \/ (Moved(u, g, v) /\ \A q \in V : q \in W \/ Told(q, Server, v))
  PROVE  PairOf(t, v, V)
  <1>1. v.state \in Open /\ v.rport = u.rport /\ GoodTcb(v) /\ Active(u) /\ u.state # "SYN_RECEIVED"
        /\ v.state # "SYN_RECEIVED"
    BY DEF Grown, Open, Active
  <1> SUFFICES ASSUME u.rport = t.lport, t.state \in Open PROVE Near(t, v, V)
    BY <1>1 DEF PairOf
  <1>2. Near(t, u, W)
    BY <1>1 DEF PairOf, Far
  <1>3. Fits(g, t)
    BY <1>2 DEF Near
  <1>4. /\ Moved(u, g, v)
        /\ \A q \in V : q \in W \/ (Told(q, Server, v) /\ v.state # "SYN_RECEIVED") \/ Neither(q, t.lport)
    BY <1>1, <1>3 DEF Fits
  <1> DEFINE k == g.ack  w == g.wnd  e == g.seq + Len(g.data)
  <1>5. Carried(u, k, w, e, v)
    BY <1>4, MovedCarried
  <1>6. k <= t.rnxt /\ k + w <= Edge(t) /\ e <= Sent(t)
    BY <1>3 DEF Fits
  <1>7. k \in Int /\ w \in Int /\ e \in Int
    BY SegSizes
  <1> HIDE DEF k, w, e
  <1>8. QED
    BY <1>2, <1>4, <1>5, <1>6, <1>7, ServerCarries

LEMMA ServerSynced ==
  ASSUME TypeInv, LinkInv, NEW i \in Slots, NEW g \in net, RecvSynced(Server, i, g)
  PROVE  LinkInv'
  <1> DEFINE u == conns[Server][i]  s == conns'[Server][i]  n == initial_seq[Server]  o == opens[Client]
  <1>1. /\ Becomes(Server, i, s) /\ InRange(s) /\ Still /\ "R" \notin g.flags /\ "S" \notin g.flags
        /\ Finds(Server, i, g) /\ Synced(Server, i, g, s)
    BY SyncedIs, Given DEF Still
  <1>2. g.from = Client /\ (u.state # "LISTEN" => g.src = u.rport)
    BY <1>1, FoundIs, FromPeer, Peers, Given DEF RecvSynced
  <1>3. GoodTcb(u) /\ ServerTcb(u, o, n) /\ GoodSeg(g) /\ WireSeg(g, o, n) /\ n \in Nat /\ o \in Int
    BY Linked, Typed, Given
  <1>0. u.nxt \in Nat
    BY <1>3, Sizes
  <1> HIDE DEF s
  <1>4. CASE /\ u.state \in Open /\ Grown(u, g, s) /\ \A q \in net' : q \in net \/ Grows(q, Server, u, g, s)
             /\ "F" \in g.flags \/ (Moved(u, g, s) /\ \A q \in net' : q \in net \/ Told(q, Server, s))
    <2>1. GoodTcb(s) /\ s.state \in Open /\ s.lport = u.lport /\ s.rport = u.rport /\ s.una <= u.nxt /\ u.nxt <= s.nxt
      BY <1>4 DEF Grown
    <2>2. Active(u) /\ Active(s) /\ u.state # "SYN_RECEIVED" /\ s.state # "SYN_RECEIVED"
      BY <1>4, <2>1 DEF Open, Active
    <2>3. Block(u, n)
      BY <1>3, <2>2 DEF ServerTcb
    <2>4. Block(s, n)
      BY <1>0, <1>1, <1>3, <1>4, <2>1, <2>3, BlockGrows
    <2>5. ServerTcb(s, o, n)
      BY <1>3, <2>1, <2>2, <2>4, ServerTcbKeeps
    <2>6. SynOf(s, net')
      BY <2>2 DEF SynOf
    <2>7. ASSUME NEW q \in net', q \notin net PROVE WireSeg(q, o, n) /\ q.from = Server /\ q.dst = s.rport
      <3>1. /\ GoodSeg(q) /\ q.from = Server /\ q.src = s.lport /\ q.dst = s.rport /\ q.flags = {"A"}
            /\ q.seq + Len(q.data) <= Sent(s)
        BY <1>4, <2>1, <2>7 DEF Grows
      <3>2. "S" \notin q.flags
        BY <3>1
      <3>3. QED
        BY <1>3, <2>1, <2>2, <2>5, <3>1, <3>2, ServerSays
    <2>8. ASSUME NEW j \in Slots PROVE FreshOf(conns[Client][j], net') /\ PairOf(conns[Client][j], s, net')
      <3> DEFINE t == conns[Client][j]
      <3>1. PairOf(t, u, net) /\ FreshOf(t, net) /\ GoodTcb(t) /\ \A q \in net : GoodSeg(q)
        BY Linked, Typed, Given
      <3>2. Out(g, u.rport)
        BY <1>1, <1>2, <1>4 DEF Out, Plain, Open
      <3>3. \A q \in net' : \/ q \in net \/ "R" \in q.flags
                            \/ q.from = Server /\ q.dst = u.rport /\ Active(u) /\ u.state # "SYN_RECEIVED"
        BY <2>1, <2>2, <2>7
      <3> HIDE DEF t, u
      <3>4. FreshOf(t, net')
        BY <3>1, <3>3, FreshServer
      <3>5. PairOf(t, s, net')
        BY <1>3, <1>4, <3>1, <3>2, ServerTakes
      <3>6. QED
        BY <3>4, <3>5 DEF t
    <2>9. QED
      BY <1>1, <1>4, <2>1, <2>2, <2>5, <2>6, <2>7, <2>8, ServerKeeps
  <1>5. CASE u.state \in Closing /\ Wound(u, g, s) /\ \A q \in net' : q \in net \/ Told(q, Server, s)
    <2>1. GoodTcb(s) /\ s.state \in Closing /\ s.lport = u.lport /\ s.rport = u.rport /\ s.nxt = u.nxt /\ Active(u)
      BY <1>5 DEF Wound, Closing, Active, SameSender
    <2>2. Block(s, n)
      BY <1>0, <1>3, <2>1, BlockSame DEF ServerTcb
    <2>3. \A q \in net' : \/ q \in net
                          \/ /\ GoodSeg(q) /\ q.from = Server /\ q.src = s.lport /\ q.dst = s.rport
                             /\ "S" \notin q.flags /\ q.seq + Len(q.data) <= Sent(s)
      BY <1>5 DEF Told, Fits
    <2>4. QED
      BY <1>1, <1>5, <2>1, <2>2, <2>3, ClosingServer
  <1>6. CASE s = Unused /\ net' \subseteq net
    BY <1>1, <1>6, GoneServer
  <1>7. QED
    BY <1>1, <1>4, <1>5, <1>6 DEF Synced

(* A closing server sends nothing but its FIN. *)
LEMMA ServerFin ==
  ASSUME NEW u, GoodTcb(u), NEW v, GoodTcb(v), u.state \in Open, v.lport = u.lport, v.rport = u.rport,
         v.nxt = u.nxt + 1, NEW q, IsFin(q, Server, u)
  PROVE  /\ GoodSeg(q) /\ q.from = Server /\ q.src = v.lport /\ q.dst = v.rport
         /\ "S" \notin q.flags /\ q.seq + Len(q.data) <= Sent(v)
  <1>1. /\ GoodSeg(q) /\ q.from = Server /\ q.src = v.lport /\ q.dst = v.rport
        /\ "S" \notin q.flags /\ q.seq = u.nxt /\ Len(q.data) = 0
    BY DEF IsFin
  <1>2. u.nxt \in Nat /\ v.nxt \in Nat /\ Sent(v) \in Nat /\ v.nxt <= Sent(v)
    BY Sizes, Totals
  <1>3. u.nxt + 0 <= Sent(v)
    BY <1>2
  <1>4. QED
    BY <1>1, <1>3

LEMMA ServerShuts ==
  ASSUME TypeInv, LinkInv, NEW i \in Slots, NEW s, Closes(Server, i, s)
  PROVE  LinkInv'
  <1> DEFINE u == conns[Server][i]  n == initial_seq[Server]
  <1>1. Becomes(Server, i, s) /\ GoodTcb(s) /\ Shuts(u, s) /\ Still /\ \A q \in net' : q \in net \/ IsFin(q, Server, u)
    BY DEF Closes, Still
  <1>2. GoodTcb(u) /\ n \in Nat
    BY Typed, Given
  <1>3. CASE u.state \notin Open /\ s = Unused
    <2>1. net' \subseteq net
      BY <1>1, <1>3 DEF IsFin
    <2>2. QED
      BY <1>1, <1>3, <2>1, GoneServer
  <1>4. CASE /\ u.state \in Open /\ s.state \in Closing /\ s.lport = u.lport /\ s.rport = u.rport
             /\ s.nxt = u.nxt + 1
    <2>1. Block(u, n)
      BY <1>4, ActiveBlock DEF Open, Active
    <2>2. Block(s, n)
      BY <1>2, <1>4, <2>1, BlockShuts
    <2>3. \A q \in net' : \/ q \in net
                          \/ /\ GoodSeg(q) /\ q.from = Server /\ q.src = s.lport /\ q.dst = s.rport
                             /\ "S" \notin q.flags /\ q.seq + Len(q.data) <= Sent(s)
      BY <1>1, <1>2, <1>4, ServerFin
    <2>4. QED
      BY <1>1, <1>4, <2>2, <2>3, ClosingServer
  <1>5. QED
    BY <1>1, <1>3, <1>4 DEF Shuts

(* tcp_send() *)
LEMMA LinkSend ==
  ASSUME TypeInv, LinkInv, NEW h \in Hosts, NEW i \in Slots, NEW s, Sends(h, i, s)
  PROVE  LinkInv'
  <1> DEFINE t == conns[h][i]
  <1>1. /\ t.state \in Open /\ Becomes(h, i, s) /\ InRange(s) /\ Pushed(t, s) /\ Still
        /\ \A q \in net' : q \in net \/ Told(q, h, s)
    BY DEF Sends, Still
  <1>2. GoodTcb(t)
    BY DEF TypeInv
  <1>3. Carried(t, t.una, t.wnd, t.rnxt, s)
    BY <1>1, <1>2, PushedCarried
  <1>4. CASE h = Client
    BY <1>1, <1>3, <1>4, OpenClient
  <1>5. CASE h = Server
    <2>1. GoodTcb(s) /\ s.state = t.state /\ s.rnxt = t.rnxt /\ s.una = t.una /\ t.nxt <= s.nxt
      BY <1>1 DEF Pushed, SamePlace, SameReceiver
    <2>2. s.una <= t.nxt
      BY <1>2, <2>1 DEF GoodTcb
    <2>3. Block(t, initial_seq[Server]) /\ initial_seq[Server] \in Nat
      BY <1>1, <1>5, ActiveBlock, Typed DEF Open, Active
    <2>4. Block(s, initial_seq[Server])
      BY <1>1, <1>2, <2>1, <2>2, <2>3, BlockGrows
    <2>5. QED
      BY <1>1, <1>3, <1>5, <2>1, <2>4, OpenServer
  <1>6. QED
    BY <1>4, <1>5, Given

(* tcp_recv() *)
LEMMA LinkRecv ==
  ASSUME TypeInv, LinkInv, NEW h \in Hosts, NEW i \in Slots, NEW s, Reads(h, i, s)
  PROVE  LinkInv'
  <1> DEFINE t == conns[h][i]  n == initial_seq[Server]
  <1>1. /\ Becomes(h, i, s) /\ GoodTcb(s) /\ SamePlace(t, s) /\ SameSender(t, s) /\ Later(t, s)
        /\ s.rnxt = t.rnxt /\ s.ooo = t.ooo /\ t.state \notin Starting /\ Still /\ net' = net
    BY DEF Reads, Still
  <1>2. GoodTcb(t) /\ t.una \in Nat /\ t.nxt \in Nat
    BY Sizes DEF TypeInv
  <1>3. s.state = t.state /\ s.lport = t.lport /\ s.rport = t.rport /\ s.una = t.una /\ s.nxt = t.nxt
    BY <1>1 DEF SamePlace, SameSender
  <1>4. t.state \in Open \cup Closing /\ t.state # "CLOSED" /\ t.state # "SYN_SENT" /\ Active(t)
    <2>1. CASE h = Client
      BY <1>1, <2>1, ClientStates DEF Starting, Active
    <2>2. CASE h = Server
      BY <1>1, <2>2, ServerStates DEF Starting, Active
    <2>3. QED
      BY <2>1, <2>2, Given
  <1>5. Carried(t, t.una, t.wnd, t.rnxt, s)
    BY <1>1, <1>2, <1>3, WithinSame DEF Carried
  <1>6. CASE h = Client
    <2>1. ClientTcb(t, opens[Client], n)
      BY <1>6, Linked
    <2>2. Within(s, n - 1)
      BY <1>1, <1>4, <2>1 DEF ClientTcb, Within
    <2>3. CASE t.state \in Open
      BY <1>1, <1>5, <1>6, <2>3, OpenClient
    <2>4. CASE t.state \in Closing
      BY <1>1, <1>3, <1>4, <1>6, <2>2, <2>4, ClosingClient
    <2>5. QED
      BY <1>4, <2>3, <2>4
  <1>7. CASE h = Server
    <2>1. Block(t, n)
      BY <1>4, <1>7, ActiveBlock
    <2>2. Block(s, n)
      BY <1>2, <1>3, <2>1, BlockSame
    <2>3. CASE t.state \in Open
      BY <1>1, <1>3, <1>5, <1>7, <2>2, <2>3, OpenServer
    <2>4. CASE t.state \in Closing
      BY <1>1, <1>3, <1>7, <2>2, <2>4, ClosingServer
    <2>5. QED
      BY <1>4, <2>3, <2>4
  <1>8. QED
    BY <1>6, <1>7, Given

(* tcp_listen() *)
LEMMA LinkListen ==
  ASSUME TypeInv, LinkInv, NEW h \in Hosts, NEW i \in Slots, NEW s, Listens(h, i, s)
  PROVE  LinkInv'
  <1>1. /\ h = Server /\ opens' = [opens EXCEPT ![Server] = @ + 1] /\ initial_seq' = initial_seq /\ busy' = busy
        /\ net' = net /\ Becomes(Server, i, s) /\ IsNew("LISTEN", ListenPort, NoPort, 0, s)
    BY DEF Listens
  <1>2. GoodTcb(s) /\ s.state = "LISTEN" /\ s.lport = 0 /\ s.rport = NoPort
    BY <1>1 DEF IsNew, ListenPort
  <1>3. opens'[Client] = opens[Client]
    BY <1>1, Given DEF TypeInv
  <1>4. ~Active(s)
    BY <1>2 DEF Active
  <1>5. QED
    BY <1>1, <1>2, <1>3, <1>4, IdleServer

(* tcp_tick() *)
LEMMA LinkTick ==
  ASSUME TypeInv, LinkInv, NEW h \in Hosts, NEW i \in Slots, NEW s, Ticks(h, i, s)
  PROVE  LinkInv'
  <1> DEFINE t == conns[h][i]
  <1>1. Becomes(h, i, s) /\ Still
    BY DEF Ticks, Still
  <1>2. CASE s = Unused /\ net' \subseteq net
    BY <1>1, <1>2, GoneClient, GoneServer, Given
  <1>3. CASE /\ GoodTcb(s) /\ SamePlace(t, s) /\ SameSender(t, s) /\ SameReceiver(t, s)
             /\ \A q \in net' : q \in net \/ (Says(q, h, s) /\ s.state \notin Starting) \/ Repeats(q, h, s)
    <2>1. \A q \in net' : q \in net \/ (Told(q, h, s) /\ s.state \notin Starting) \/ Repeats(q, h, s)
      BY <1>3, SaysTold
    <2>2. CASE t.state = "CLOSED"
      <3>1. s.state = "CLOSED" /\ s = Unused
        BY <1>3, <2>2 DEF SamePlace, GoodTcb
      <3>2. net' \subseteq net
        BY <2>1, <3>1 DEF Repeats, Starting
      <3>3. QED
        BY <1>2, <3>1, <3>2
    <2>3. CASE t.state # "CLOSED"
      BY <1>1, <1>3, <2>1, <2>3, SameClient, SameServer, Given
    <2>4. QED
      BY <2>2, <2>3
  <1>4. QED
    BY <1>2, <1>3 DEF Ticks, Repeats

-----------------------------------------------------------------------------
(* Arrivals. *)

LEMMA LinkRst ==
  ASSUME TypeInv, LinkInv, NEW h \in Hosts, NEW i \in Slots, NEW g \in net, RecvRst(h, i, g)
  PROVE  LinkInv'
  <1> DEFINE t == conns[h][i]  s == conns'[h][i]
  <1>1. Becomes(h, i, s) /\ Still /\ net' \subseteq net /\ t.state # "CLOSED" /\ (s = Unused \/ s = t)
    BY RstIs
  <1> HIDE DEF s
  <1>2. CASE s = Unused
    BY <1>1, <1>2, GoneClient, GoneServer, Given
  <1>3. CASE s = t
    <2>1. GoodTcb(s) /\ SamePlace(t, s) /\ SameSender(t, s) /\ SameReceiver(t, s)
      BY <1>3 DEF TypeInv, SamePlace, SameSender, SameReceiver
    <2>2. QED
      BY <1>1, <2>1, SameClient, SameServer, Given
  <1>4. QED
    BY <1>1, <1>2, <1>3

LEMMA LinkChallenge ==
  ASSUME TypeInv, LinkInv, NEW h \in Hosts, NEW i \in Slots, NEW g \in net, RecvChallenge(h, i, g)
  PROVE  LinkInv'
  <1> DEFINE t == conns[h][i]  s == conns'[h][i]
  <1>1. /\ Becomes(h, i, s) /\ Still /\ GoodTcb(s) /\ t.state # "CLOSED"
        /\ SamePlace(t, s) /\ SameSender(t, s) /\ SameReceiver(t, s)
        /\ \A q \in net' : q \in net \/ (Told(q, h, s) /\ s.state \notin Starting)
    BY ChallengeIs
  <1> HIDE DEF s
  <1>2. QED
    BY <1>1, SameClient, SameServer, Given

LEMMA LinkUnmatched ==
  ASSUME TypeInv, LinkInv, NEW h \in Hosts, NEW g \in net, RecvUnmatched(h, g)
  PROVE  LinkInv'
  <1>1. WireSeg(g, opens[Client], initial_seq[Server]) /\ g.from = Peer(h)
    BY Linked DEF RecvUnmatched
  <1>2. UNCHANGED <<conns, initial_seq, opens, busy>>
    BY DEF RecvUnmatched
  <1>3. ASSUME NEW q \in net', q \notin net PROVE q.from = h /\ q.src = g.dst /\ q.dst = g.src /\ q.flags = {"R", "A"}
    BY <1>3, RestLeaves DEF RecvUnmatched, EmitRst
  <1>4. ASSUME NEW q \in net', q \notin net PROVE "R" \in q.flags /\ WireSeg(q, opens[Client], initial_seq[Server])
    BY <1>1, <1>3, <1>4, Peers, Given DEF WireSeg
  <1>5. QED
    BY <1>2, <1>4, WireOnly

LEMMA LinkHandle ==
  ASSUME TypeInv, LinkInv, NEW h \in Hosts, NEW g \in net, TcpHandle(h, g)
  PROVE  LinkInv'
  <1>1. CASE RecvUnmatched(h, g)
    BY <1>1, LinkUnmatched
  <1>2. ASSUME NEW i \in Slots, RecvRst(h, i, g) \/ RecvChallenge(h, i, g)
        PROVE  LinkInv'
    BY <1>2, LinkRst, LinkChallenge
  <1>3. ASSUME NEW i \in Slots, RecvListen(h, i, g)
        PROVE  LinkInv'
    <2>1. conns[h][i].state = "LISTEN"
      BY <1>3, ListenIs
    <2>2. h # Client
      BY <2>1, ClientStates DEF Open, Closing
    <2>3. QED
      BY <1>3, <2>2, ServerListen, Given
  <1>4. ASSUME NEW i \in Slots, RecvSynReceived(h, i, g)
        PROVE  LinkInv'
    <2>1. conns[h][i].state = "SYN_RECEIVED"
      BY <1>4, SynReceivedIs
    <2>2. h # Client
      BY <2>1, ClientStates DEF Open, Closing
    <2>3. QED
      BY <1>4, <2>2, ServerSynReceived, Given
  <1>5. ASSUME NEW i \in Slots, RecvSynSent(h, i, g)
        PROVE  LinkInv'
    <2>1. conns[h][i].state = "SYN_SENT"
      BY <1>5, SynSentIs
    <2>2. h # Server
      BY <2>1, ServerStates DEF Open, Closing
    <2>3. QED
      BY <1>5, <2>2, ClientSynSent, Given
  <1>6. ASSUME NEW i \in Slots, RecvSynced(h, i, g)
        PROVE  LinkInv'
    BY <1>6, ClientSynced, ServerSynced, Given
  <1>7. QED
    BY <1>1, <1>2, <1>3, <1>4, <1>5, <1>6 DEF TcpHandle

-----------------------------------------------------------------------------
(* tcp_close_pid() closes every slot of a host. *)

LEMMA LinkClientExit ==
  ASSUME TypeInv, LinkInv, busy = {}, Exit(Client)
  PROVE  LinkInv'
  <1> DEFINE o == opens[Client]  n == initial_seq[Server]
  <1>1. /\ \A j \in Slots : conns'[Server][j] = conns[Server][j]
        /\ \A j \in Slots : GoodTcb(conns'[Client][j]) /\ Shuts(conns[Client][j], conns'[Client][j])
        /\ \A q \in net' : q \in net \/ \E j \in Slots : IsFin(q, Client, conns[Client][j])
        /\ UNCHANGED <<initial_seq, opens, busy>>
    BY ExitIs, Given
  <1>2. ASSUME NEW j \in Slots
        PROVE  /\ ClientTcb(conns'[Client][j], o, n) /\ BusyOf(conns'[Client][j], j, busy')
               /\ conns'[Client][j].state \notin Open /\ conns'[Client][j].state # "SYN_SENT"
               /\ conns'[Client][j].state # "CLOSED" =>
                    conns[Client][j].state # "CLOSED" /\ conns'[Client][j].lport = conns[Client][j].lport
    <2> DEFINE t == conns[Client][j]  s == conns'[Client][j]
    <2>1. Shuts(t, s) /\ ClientTcb(t, o, n)
      BY <1>1, Linked
    <2>2. busy' = {}
      BY <1>1
    <2> HIDE DEF t, s
    <2>3. CASE s = Unused
      <3>1. s.state = "CLOSED"
        BY <2>3 DEF Unused
      <3>2. QED
        BY <2>2, <3>1 DEF ClientTcb, BusyOf, Open, t, s
    <2>4. CASE /\ t.state \in Open /\ s.state \in Closing /\ s.lport = t.lport /\ s.rport = t.rport
               /\ s.rnxt = t.rnxt /\ s.ooo = t.ooo
      <3>1. t.state # "CLOSED" /\ s.state \notin {"CLOSED", "LISTEN", "SYN_SENT", "SYN_RECEIVED"} \cup Open
        BY <2>4 DEF Open, Closing
      <3>2. ClientTcb(s, o, n)
        BY <2>1, <2>4, <3>1 DEF ClientTcb, Within
      <3>3. QED
        BY <2>2, <2>4, <3>1, <3>2 DEF BusyOf, t, s
    <2>5. QED
      BY <2>1, <2>3, <2>4 DEF Shuts
  <1>3. ASSUME NEW q \in net', q \notin net
        PROVE  WireSeg(q, o, n) /\ "S" \notin q.flags
    <2>1. PICK j \in Slots : IsFin(q, Client, conns[Client][j])
      BY <1>1, <1>3
    <2> DEFINE t == conns[Client][j]
    <2>2. GoodTcb(t) /\ ClientTcb(t, o, n) /\ o \in Int /\ n \in Int
      BY Linked, Typed, Given
    <2>3. /\ GoodSeg(q) /\ q.from = Client /\ q.src = t.lport /\ q.dst = t.rport /\ t.state # "CLOSED"
          /\ "S" \notin q.flags /\ q.ack = t.rnxt
      BY <2>1 DEF IsFin, Open
    <2> HIDE DEF t, o, n
    <2>4. q.ack <= t.rnxt
      BY <2>2, <2>3, Sizes
    <2>5. QED
      BY <2>2, <2>3, <2>4, ClientSays
  <1>4. \A q \in net' : WireSeg(q, o, n)
    BY <1>3, Linked
  <1>5. \A j \in Slots : ServerTcb(conns'[Server][j], o, n) /\ SynOf(conns'[Server][j], net')
    BY <1>1, <1>3, Linked, SynElsewhere
  <1>6. \A j \in Slots : FreshOf(conns'[Client][j], net') /\ \A k \in Slots : PairOf(conns'[Client][j], conns'[Server][k], net')
    BY <1>2, ClosedIsOut
  <1>7. \A j, k \in Slots : j # k /\ conns'[Client][j].state # "CLOSED" /\ conns'[Client][k].state # "CLOSED" =>
                              conns'[Client][j].lport # conns'[Client][k].lport
    BY <1>2 DEF LinkInv
  <1>8. \A j, k \in Slots : j # k /\ Active(conns'[Server][j]) /\ Active(conns'[Server][k]) =>
                              conns'[Server][j].rport # conns'[Server][k].rport
    BY <1>1 DEF LinkInv
  <1>9. opens'[Client] = o /\ initial_seq'[Server] = n /\ n > 1 /\ n % IssStep = 0
    BY <1>1, Linked
  <1> HIDE DEF o, n
  <1>10. QED
    BY <1>2, <1>4, <1>5, <1>6, <1>7, <1>8, <1>9 DEF LinkInv

LEMMA LinkServerExit ==
  ASSUME TypeInv, LinkInv, Exit(Server)
  PROVE  LinkInv'
  <1> DEFINE o == opens[Client]  n == initial_seq[Server]
  <1>1. /\ \A j \in Slots : conns'[Client][j] = conns[Client][j]
        /\ \A j \in Slots : GoodTcb(conns'[Server][j]) /\ Shuts(conns[Server][j], conns'[Server][j])
        /\ \A q \in net' : q \in net \/ \E j \in Slots : IsFin(q, Server, conns[Server][j])
        /\ UNCHANGED <<initial_seq, opens, busy>>
    BY ExitIs, Given
  <1>2. ASSUME NEW j \in Slots
        PROVE  /\ ServerTcb(conns'[Server][j], o, n)
               /\ conns'[Server][j].state \notin Open \cup {"SYN_RECEIVED"}
               /\ Active(conns'[Server][j]) =>
                    conns[Server][j].state \in Open /\ conns'[Server][j].rport = conns[Server][j].rport
    <2> DEFINE u == conns[Server][j]  v == conns'[Server][j]
    <2>1. Shuts(u, v) /\ ServerTcb(u, o, n) /\ GoodTcb(u) /\ n \in Nat
      BY <1>1, Linked, Typed, Given
    <2> HIDE DEF u, v
    <2>2. CASE v = Unused
      <3>1. v.state = "CLOSED"
        BY <2>2 DEF Unused
      <3>2. QED
        BY <3>1 DEF ServerTcb, Active, Open, u, v
    <2>3. CASE /\ u.state \in Open /\ v.state \in Closing /\ v.lport = u.lport /\ v.rport = u.rport
               /\ v.nxt = u.nxt + 1
      <3>1. Active(u) /\ v.state \notin Open \cup {"SYN_RECEIVED"}
        BY <2>3 DEF Open, Closing, Active
      <3>2. Block(v, n)
        BY <2>1, <2>3, <3>1, BlockShuts DEF ServerTcb
      <3>3. ServerTcb(v, o, n)
        BY <2>1, <2>3, <3>1, <3>2, ServerTcbKeeps
      <3>4. QED
        BY <2>3, <3>1, <3>3 DEF u, v
    <2>4. QED
      BY <2>1, <2>2, <2>3 DEF Shuts
  <1>3. ASSUME NEW q \in net', q \notin net
        PROVE  /\ WireSeg(q, o, n) /\ "S" \notin q.flags /\ q.from = Server
               /\ \E j \in Slots : conns[Server][j].state \in Open /\ q.dst = conns[Server][j].rport
    <2>1. PICK j \in Slots : IsFin(q, Server, conns[Server][j])
      BY <1>1, <1>3
    <2> DEFINE u == conns[Server][j]  v == conns'[Server][j]
    <2>2. u.state \in Open
      BY <2>1 DEF IsFin
    <2>3. v.state \in Closing /\ v.lport = u.lport /\ v.rport = u.rport /\ v.nxt = u.nxt + 1
      BY <1>1, <2>2 DEF Shuts
    <2>4. GoodTcb(u) /\ GoodTcb(v) /\ ServerTcb(v, o, n) /\ o \in Int /\ n \in Nat
      BY <1>1, <1>2, Typed, Given
    <2>5. Active(v)
      BY <2>3 DEF Active, Closing
    <2> HIDE DEF v, o, n
    <2>6. /\ GoodSeg(q) /\ q.from = Server /\ q.src = v.lport /\ q.dst = v.rport
          /\ "S" \notin q.flags /\ q.seq + Len(q.data) <= Sent(v)
      BY <2>1, <2>2, <2>3, <2>4, ServerFin
    <2>7. WireSeg(q, o, n)
      BY <2>4, <2>5, <2>6, ServerSays
    <2>8. QED
      BY <2>2, <2>3, <2>6, <2>7
  <1>4. \A q \in net' : WireSeg(q, o, n)
    BY <1>3, Linked
  <1>5. \A j \in Slots : /\ ClientTcb(conns'[Client][j], o, n) /\ BusyOf(conns'[Client][j], j, busy')
                         /\ SynOf(conns'[Server][j], net')
    BY <1>1, <1>2, Linked DEF SynOf
  <1>6. ASSUME NEW j \in Slots, NEW k \in Slots, conns[Client][j].state = "SYN_SENT", conns[Server][k].state \in Open
        PROVE  conns[Server][k].rport # conns[Client][j].lport
    <2>1. PairOf(conns[Client][j], conns[Server][k], net)
      BY Linked
    <2>2. Active(conns[Server][k]) /\ conns[Server][k].state # "SYN_RECEIVED"
      BY <1>6 DEF Active, Open
    <2>3. QED
      BY <1>6, <2>1, <2>2 DEF PairOf
  <1>7. ASSUME NEW j \in Slots PROVE FreshOf(conns'[Client][j], net')
    <2> DEFINE t == conns[Client][j]
    <2>1. FreshOf(t, net) /\ conns'[Client][j] = t
      BY <1>1, Linked
    <2>2. CASE t.state = "SYN_SENT"
      <3>1. \A q \in net' : \/ q \in net \/ "R" \in q.flags
                            \/ ~(q.from = Client /\ q.src = t.lport) /\ ~(q.from = Server /\ q.dst = t.lport)
        BY <1>3, <1>6, <2>2, Given
      <3>2. QED
        BY <2>1, <3>1, FreshElsewhere
    <2>3. CASE t.state # "SYN_SENT"
      BY <2>1, <2>3 DEF FreshOf
    <2>4. QED
      BY <2>2, <2>3
  <1>8. ASSUME NEW j \in Slots, NEW k \in Slots PROVE PairOf(conns'[Client][j], conns'[Server][k], net')
    BY <1>1, <1>2, <1>6 DEF PairOf
  <1>9. \A j, k \in Slots : j # k /\ conns'[Client][j].state # "CLOSED" /\ conns'[Client][k].state # "CLOSED" =>
                              conns'[Client][j].lport # conns'[Client][k].lport
    BY <1>1 DEF LinkInv
  <1>10. \A j, k \in Slots : j # k /\ Active(conns'[Server][j]) /\ Active(conns'[Server][k]) =>
                               conns'[Server][j].rport # conns'[Server][k].rport
    BY <1>2 DEF LinkInv, Active, Open
  <1>11. opens'[Client] = o /\ initial_seq'[Server] = n /\ n > 1 /\ n % IssStep = 0
    BY <1>1, Linked
  <1> HIDE DEF o, n
  <1>12. QED
    BY <1>2, <1>4, <1>5, <1>7, <1>8, <1>9, <1>10, <1>11 DEF LinkInv

LEMMA LinkCall ==
  ASSUME TypeInv, LinkInv, NEW h \in Hosts, SysCall(h)
  PROVE  LinkInv'
  <1>1. busy = {}
    BY DEF SysCall
  <1>2. ASSUME NEW i \in Slots, Connect(h, i) PROVE LinkInv'
    <2>1. h = Client
      BY <1>2, Given DEF Connect
    <2>2. QED
      BY <1>1, <1>2, <2>1, ClientDials
  <1>3. ASSUME NEW i \in Slots, Listen(h, i) PROVE LinkInv'
    BY <1>3, ListensIs, LinkListen
  <1>4. ASSUME NEW i \in Slots, Close(h, i) PROVE LinkInv'
    <2>1. Closes(h, i, conns'[h][i])
      BY <1>4, CloseIs
    <2>2. QED
      BY <2>1, ClientShuts, ServerShuts, Given
  <1>5. ASSUME NEW i \in Slots, NEW n \in 1 .. BufSize - 1, Send(h, i, n) \/ Recv(h, i, n) PROVE LinkInv'
    <2>1. n \in Nat
      BY Given
    <2>2. QED
      BY <1>5, <2>1, SendIs, RecvIs, LinkSend, LinkRecv
  <1>6. CASE Exit(h)
    BY <1>1, <1>6, LinkClientExit, LinkServerExit, Given
  <1>7. QED
    BY <1>2, <1>3, <1>4, <1>5, <1>6 DEF SysCall

-----------------------------------------------------------------------------
(* The ends of every connection keep step. *)

LEMMA LinkInit == Init => LinkInv
  <1> SUFFICES ASSUME Init PROVE LinkInv
    OBVIOUS
  <1>1. \A h \in Hosts, i \in Slots : conns[h][i].state = "CLOSED"
    BY Zenon DEF Init, Unused
  <1>2. initial_seq[Server] = IssStep /\ net = {} /\ busy = {}
    BY Given DEF Init
  <1>3. IssStep > 1 /\ IssStep % IssStep = 0
    BY Given, Multiple
  <1>4. \A i \in Slots : /\ conns[Client][i].state = "CLOSED" /\ conns[Server][i].state = "CLOSED"
                         /\ ~Active(conns[Client][i]) /\ ~Active(conns[Server][i])
    BY <1>1, Given DEF Active
  <1>5. \A i \in Slots : /\ ClientTcb(conns[Client][i], opens[Client], IssStep)
                         /\ ServerTcb(conns[Server][i], opens[Client], IssStep)
                         /\ BusyOf(conns[Client][i], i, busy)
                         /\ FreshOf(conns[Client][i], net) /\ SynOf(conns[Server][i], net)
    BY <1>2, <1>4 DEF ClientTcb, ServerTcb, BusyOf, FreshOf, SynOf
  <1>6. \A i, j \in Slots : PairOf(conns[Client][i], conns[Server][j], net)
    BY <1>4 DEF PairOf
  <1>7. QED
    BY <1>2, <1>3, <1>4, <1>5, <1>6 DEF LinkInv

LEMMA LinkNext == TypeInv /\ LinkInv /\ [Next]_vars => LinkInv'
  <1> SUFFICES ASSUME TypeInv, LinkInv, [Next]_vars PROVE LinkInv'
    OBVIOUS
  <1>1. ASSUME NEW h \in Hosts, NEW i \in Slots, ConnectCounted(h, i) PROVE LinkInv'
    BY <1>1, ClientCounted
  <1>2. ASSUME NEW h \in Hosts, SysCall(h) PROVE LinkInv'
    BY <1>2, LinkCall
  <1>3. ASSUME NEW h \in Hosts, NEW i \in Slots, TcpTick(h, i) PROVE LinkInv'
    BY <1>3, TickIs, LinkTick
  <1>4. ASSUME NEW h \in Hosts, NEW g \in net, TcpHandle(h, g) PROVE LinkInv'
    BY <1>4, LinkHandle
  <1>5. ASSUME NEW g \in net, Lose(g) PROVE LinkInv'
    BY <1>5, WireOnly DEF Lose
  <1>6. CASE UNCHANGED vars
    BY <1>6, WireOnly DEF vars
  <1>7. QED
    BY <1>1, <1>2, <1>3, <1>4, <1>5, <1>6 DEF Next

LEMMA LinkInvHolds == Spec => []LinkInv
  BY LinkInit, LinkNext, TypeInvHolds, PTL DEF Spec

LEMMA EndsFlow ==
  ASSUME TypeInv, LinkInv, NEW h \in Hosts, NEW i \in Slots, NEW j \in Slots, Ends(h, i, j)
  PROVE  Flow(conns[h][i], conns[Peer(h)][j]) /\ Flow(conns[Peer(h)][j], conns[h][i])
  <1>1. ASSUME NEW a \in Slots, NEW b \in Slots, conns[Client][a].state \in Open, conns[Server][b].state \in Open,
               conns[Client][a].lport = conns[Server][b].rport
        PROVE  Flow(conns[Client][a], conns[Server][b]) /\ Flow(conns[Server][b], conns[Client][a])
    <2> DEFINE t == conns[Client][a]  u == conns[Server][b]
    <2>1. PairOf(t, u, net)
      BY Linked
    <2>2. Active(u) /\ u.state # "SYN_RECEIVED"
      BY <1>1 DEF Open, Active
    <2>3. Near(t, u, net)
      BY <1>1, <2>1, <2>2 DEF PairOf, Far
    <2>4. QED
      BY <2>3 DEF Near
  <1>2. CASE h = Client
    BY <1>1, <1>2, Peers DEF Ends
  <1>3. CASE h = Server
    BY <1>1, <1>3, Peers DEF Ends
  <1>4. QED
    BY <1>2, <1>3, Given

LEMMA LinkInStep == TypeInv /\ LinkInv => InStep /\ NoOverrun
  <1> SUFFICES ASSUME TypeInv, LinkInv, NEW h \in Hosts, NEW i \in Slots, NEW j \in Slots, Ends(h, i, j)
               PROVE  LET t == conns[h][i] u == conns[Peer(h)][j] IN
                      /\ u.una <= t.rnxt /\ t.rnxt <= u.nxt + (IF u.persist THEN 1 ELSE 0)
                      /\ u.nxt <= t.rnxt + RxWnd(t)
    BY DEF InStep, NoOverrun
  <1>1. Flow(conns[h][i], conns[Peer(h)][j]) /\ Flow(conns[Peer(h)][j], conns[h][i])
    BY EndsFlow
  <1>2. QED
    BY <1>1 DEF Flow, Within, Sent, Edge

(* Whatever the wire loses, repeats and reorders, however many connections    *)
(* used the slots and the ports before, and whatever the programs call: what  *)
(* one end of an open connection counts as acknowledged its other end has     *)
(* received, and nothing has been received that was not sent.                 *)
THEOREM InStepHolds == Spec => []InStep
  BY TypeInvHolds, LinkInvHolds, LinkInStep, PTL

(* An end never has sent more than the receive ring of the other end takes,   *)
(* so tcb_rx_inline() cuts nothing off.                                       *)
THEOREM NoOverrunHolds == Spec => []NoOverrun
  BY TypeInvHolds, LinkInvHolds, LinkInStep, PTL
=============================================================================
