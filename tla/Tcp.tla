-------------------------------- MODULE Tcp ---------------------------------
(***************************************************************************)
(* kernel/drivers/net/tcp.c: two StinkOS hosts, each with a table of TCBs, *)
(* and the segments in transit between them.                               *)
(*                                                                         *)
(* net is the set of segments on the wire; they arrive in any order.  With *)
(* "dup" in Faults a segment stays on the wire when it has arrived: it may *)
(* arrive again, much later, or never; with "lose" it may vanish (a bad    *)
(* checksum is a loss too).  Segments reach tcp_handle in the interrupt    *)
(* handler of the network card, so an arrival is one step.  The system     *)
(* calls are one step each but for the place named in Preempt: tcp_connect *)
(* sends its SYN before it has counted it.                                 *)
(*                                                                         *)
(* Time is left out: a timer that runs may fire.  tcp_tick() is called by  *)
(* every net_poll_once(), so its timers fire as long as somebody polls.    *)
(* Sequence numbers are not reduced modulo 2^32; the k-th connection of a  *)
(* host starts at k * IssStep, and a byte with number n in its stream      *)
(* belongs at the sequence number IssStep * k + n.                         *)
(***************************************************************************)
EXTENDS Naturals, Sequences, FiniteSets

CONSTANTS
  Clients, Servers,   (* hosts that call tcp_connect, and tcp_listen: one each *)
  Slots,              (* 0 .. TCP_MAX_CONNS - 1                            *)
  BufSize, MSS,       (* TCP_BUFFER_SIZE, TCP_MSS                          *)
  MaxRetries,         (* TCP_MAX_RETRIES                                   *)
  IssStep,            (* the bump of initial_seq                           *)
  MaxOpens,           (* bound: calls of connect or listen, for each host  *)
  MaxBytes,           (* bound: bytes written to one connection            *)
  MaxSeq,             (* bound: sequence numbers used by one connection    *)
  Calls,              (* calls programs make, of AllCalls                  *)
  Writers,            (* hosts whose program calls tcp_send                *)
  Faults,             (* of {"lose", "dup"}                                *)
  Preempt,            (* {} or {"connect"}                                 *)
  Timely              (* does RTO expire only when nothing is in transit?  *)

Hosts == Clients \cup Servers
AllCalls == {"send", "recv", "close", "exit"}

ASSUME TcpAssumption ==
  /\ \E c, s \in Hosts : c # s /\ Clients = {c} /\ Servers = {s}
  /\ Slots \subseteq Nat /\ Slots # {}
  /\ BufSize \in Nat \ {0, 1} /\ MSS \in Nat \ {0}
  /\ {MaxRetries, MaxBytes, MaxSeq} \subseteq Nat /\ MaxOpens \in [Hosts -> Nat]
  /\ IssStep \in Nat /\ IssStep >= MaxSeq + BufSize + 2
  /\ Calls \subseteq AllCalls /\ Writers \subseteq Hosts /\ Faults \subseteq {"lose", "dup"}
  /\ Preempt \subseteq {"connect"} /\ Timely \in BOOLEAN

VARIABLES
  conns,        (* conns[h][i]: the TCB in slot i of host h                *)
  initial_seq,  (* per host                                                *)
  opens,        (* calls of connect or listen so far; the ephemeral port   *)
  busy,         (* slots whose tcp_connect has sent the SYN and not counted it *)
  net           (* segments in transit                                     *)

vars == <<conns, initial_seq, opens, busy, net>>

ListenPort == 0
MaxPort == CHOOSE n \in {MaxOpens[h] : h \in Clients} : TRUE
Ephemeral == 1 .. MaxPort         \* next_ephemeral
NoPort == MaxPort + 1             \* remote_port of a listening slot
NoSack == 0

States == {"CLOSED", "LISTEN", "SYN_SENT", "SYN_RECEIVED", "ESTABLISHED", "FIN_WAIT_1",
           "FIN_WAIT_2", "CLOSE_WAIT", "LAST_ACK", "TIME_WAIT"}
Open == {"ESTABLISHED", "CLOSE_WAIT"}
Closing == {"FIN_WAIT_1", "FIN_WAIT_2", "LAST_ACK", "TIME_WAIT"}

(* A slot that is not in_use, and what tcb_alloc() makes of one.  rx is the  *)
(* receive ring; the transmit ring keeps its indices, which run past each    *)
(* other.  armed is last_seg_ticks # 0, heard is last_activity_ticks # 0;    *)
(* wrote numbers the bytes the program has written.                          *)
Unused ==
  [state |-> "CLOSED", lport |-> 0, rport |-> 0,
   una |-> 0, nxt |-> 0, wnd |-> 0, rnxt |-> 0,
   rx |-> <<>>, buf |-> [i \in 0 .. BufSize - 1 |-> 0], head |-> 0, tail |-> 0, wrote |-> 0,
   armed |-> FALSE, retries |-> 0, cwnd |-> 2 * MSS, ssthresh |-> 64 * MSS,
   heard |-> FALSE, ooo |-> {}, sack |-> NoSack, dups |-> 0, persist |-> FALSE]

Peer(h) == CHOOSE q \in Hosts : q # h
Least(a, b) == IF a < b THEN a ELSE b
Most(a, b) == IF a < b THEN b ELSE a

(* tcb_rx_wnd(), tx_pending() *)
RxWnd(t) == BufSize - 1 - Len(t.rx)
Pending(t) == (t.tail + BufSize - t.head) % BufSize
InFlight(t) == t.nxt - t.una
TxBytes(t, n) == [i \in 1 .. n |-> t.buf[(t.head + i - 1) % BufSize]]

-----------------------------------------------------------------------------
(* Segments: tcp_emit(), tcp_emit_syn(), tcp_emit_sack_ack().  A handler     *)
(* yields the TCB it leaves and the segments it has sent.                    *)

Seg(h, t, flags, data, sack) ==
  [from |-> h, src |-> t.lport, dst |-> t.rport, seq |-> t.nxt, ack |-> t.rnxt,
   flags |-> flags, wnd |-> RxWnd(t), data |-> data, sack |-> sack]

Emit(h, t, flags, data) == {Seg(h, t, flags, data, NoSack)}

(* The receiver of a SACK looks at the lowest left edge only. *)
EmitSackAck(h, t) ==
  {Seg(h, t, {"A"}, <<>>,
       IF t.ooo = {} THEN NoSack
       ELSE (CHOOSE o \in t.ooo : \A q \in t.ooo : o.seq <= q.seq).seq)}

(* Mutant: the RST carries no sequence number the other end accepts. *)
EmitRstBlank(h, g) ==
  {[from |-> h, src |-> g.dst, dst |-> g.src, seq |-> 0, ack |-> g.seq, flags |-> {"R", "A"},
    wnd |-> BufSize - 1, data |-> <<>>, sack |-> NoSack]}

(* tcp_emit_rst(): the answer to a segment no TCB wants. *)
EmitRst(h, g) ==
  {[from |-> h, src |-> g.dst, dst |-> g.src,
    seq |-> IF "A" \in g.flags THEN g.ack ELSE 0,
    ack |-> g.seq + (IF "S" \in g.flags THEN 1 ELSE 0),
    flags |-> {"R", "A"}, wnd |-> BufSize - 1, data |-> <<>>, sack |-> NoSack]}

Res(t, out) == [t |-> t, out |-> out]

(* tcp_arm_rto() *)
Arm(t) == [t EXCEPT !.armed = TRUE, !.retries = 0]

(* tcp_retransmit(): again from snd_una, as the state says; snd_nxt stays. *)
Retransmit(h, t) ==
  LET s == [t EXCEPT !.nxt = t.una]
      gap == IF t.sack > t.una THEN t.sack - t.una ELSE MSS
      chunk == Least(Least(InFlight(t), MSS), gap)
  IN CASE t.state = "SYN_SENT" -> Emit(h, s, {"S"}, <<>>)
       [] t.state \in {"FIN_WAIT_1", "LAST_ACK"} -> Emit(h, s, {"F", "A"}, <<>>)
       [] t.state \in Open -> Emit(h, s, {"A"}, TxBytes(t, chunk))
       [] OTHER -> {}

(* Mutant: a closed window counts as an open one. *)
DrainBlasts(h, t) ==
  LET size == Least(Pending(t), MSS)
      limit == IF t.wnd = 0 THEN t.cwnd ELSE Least(t.cwnd, t.wnd)
  IN IF t.state \notin Open \/ size = 0 \/ limit <= InFlight(t) THEN Res(t, {})
     ELSE Res([t EXCEPT !.nxt = @ + size], Emit(h, t, {"A"}, TxBytes(t, size)))

(* tcp_drain_tx(): avail counts from tx_head and does not shrink as segments *)
(* leave, so the loop ends only when the window is full.                     *)
Drain(h, t) ==
  LET fly == InFlight(t)
      limit == Least(t.cwnd, t.wnd)
      size == Least(Pending(t), MSS)
      s == IF t.armed THEN t ELSE Arm(t)
  IN IF t.state \notin Open \/ Pending(t) = 0 THEN Res(t, {})
     ELSE IF t.wnd = 0 /\ fly = 0 THEN Res([t EXCEPT !.persist = TRUE], {})
     ELSE IF limit <= fly THEN Res(t, {})
     ELSE Res([s EXCEPT !.nxt = t.una + limit],
              UNION {Emit(h, [t EXCEPT !.nxt = t.una + k], {"A"}, TxBytes(t, Least(size, limit - k))) :
                       k \in {k \in fly .. limit - 1 : (k - fly) % size = 0}})

(* Mutant: no check for a full ring. *)
RxInlineAll(t, data) == [t EXCEPT !.rx = @ \o data, !.rnxt = @ + Len(data)]

(* tcb_rx_inline() *)
RxInline(t, data) ==
  LET put == Least(Len(data), RxWnd(t))
  IN [t EXCEPT !.rx = @ \o SubSeq(data, 1, put), !.rnxt = @ + put]

(* tcb_ooo_park(): two slots, by sequence number. *)
Park(t, g) ==
  IF Len(g.data) > MSS \/ Cardinality(t.ooo) = 2 \/ \E o \in t.ooo : o.seq = g.seq
  THEN t ELSE [t EXCEPT !.ooo = @ \cup {[seq |-> g.seq, data |-> g.data]}]

(* tcb_ooo_drain(): at most two rounds find a slot at rcv_nxt. *)
DrainOne(t) ==
  IF \E o \in t.ooo : o.seq = t.rnxt
  THEN LET o == CHOOSE o \in t.ooo : o.seq = t.rnxt
       IN RxInline([t EXCEPT !.ooo = @ \ {o}], o.data)
  ELSE t
DrainOoo(t) == DrainOne(DrainOne(t))

-----------------------------------------------------------------------------
(* tcp_handle(), ESTABLISHED and CLOSE_WAIT: four parts in this order. *)

(* The SACK scoreboard and the duplicate-ACK counter; it saturates at 255, but *)
(* no value above 4 makes a difference.                                      *)
CountDup(h, t, g) ==
  LET s == [t EXCEPT !.sack = IF g.sack > t.una THEN g.sack ELSE NoSack]
      dup == g.ack = t.una /\ g.data = <<>> /\ InFlight(t) > 0
      half == Most(InFlight(t) \div 2, 2 * MSS)
      u == [s EXCEPT !.dups = IF dup THEN Least(@ + 1, 4) ELSE IF g.ack # t.una THEN 0 ELSE @]
  IN IF dup /\ u.dups = 3
     THEN Res([u EXCEPT !.ssthresh = half, !.cwnd = half], Retransmit(h, u))
     ELSE Res(u, {})

(* An ACK of bytes in flight: trim the ring, take the window, open cwnd.     *)
TakeAck(h, t, g) ==
  LET acked == g.ack - t.una
      grown == IF t.cwnd < t.ssthresh THEN t.cwnd + acked
               ELSE t.cwnd + Most((MSS * acked) \div t.cwnd, 1)
      s == [t EXCEPT !.una = g.ack, !.head = (@ + acked) % BufSize, !.wnd = g.wnd,
                     !.persist = @ /\ g.wnd = 0, !.cwnd = Least(grown, BufSize)]
  IN IF g.ack > t.una /\ g.ack <= t.nxt
     THEN Drain(h, IF s.una = s.nxt THEN [s EXCEPT !.armed = FALSE, !.retries = 0] ELSE s)
     ELSE Res(t, {})

(* Mutant: data behind rcv_nxt is taken again. *)
TakeDataAgain(h, t, g) ==
  LET s == IF g.seq <= t.rnxt THEN RxInline(t, g.data) ELSE Park(t, g)
  IN IF g.data = <<>> THEN Res(t, {}) ELSE Res(s, EmitSackAck(h, s))

(* Payload in order is taken, ahead of order is parked, behind is dropped    *)
(* without an answer.                                                        *)
TakeData(h, t, g) ==
  LET s == IF g.seq = t.rnxt THEN DrainOoo(RxInline(t, g.data)) ELSE Park(t, g)
  IN IF g.data = <<>> \/ g.seq < t.rnxt THEN Res(t, {}) ELSE Res(s, EmitSackAck(h, s))

TakeFin(h, t, g) ==
  LET s == [t EXCEPT !.rnxt = g.seq + Len(g.data) + 1, !.state = "CLOSE_WAIT"]
  IN IF "F" \in g.flags /\ t.state = "ESTABLISHED" THEN Res(s, Emit(h, s, {"A"}, <<>>)) ELSE Res(t, {})

OnOpen(h, t, g) ==
  LET r1 == CountDup(h, t, g)
      r2 == TakeAck(h, r1.t, g)
      r3 == TakeData(h, r2.t, g)
      r4 == TakeFin(h, r3.t, g)
  IN Res(r4.t, r1.out \cup r2.out \cup r3.out \cup r4.out)

(* The FIN of the peer after ours: TIME_WAIT, and an ACK. *)
OnLastFin(h, t, g) ==
  LET s == [t EXCEPT !.rnxt = g.seq + 1, !.state = "TIME_WAIT"]
  IN IF "F" \in g.flags THEN Res(s, Emit(h, s, {"A"}, <<>>)) ELSE Res(t, {})

OnFinWait1(h, t, g) ==
  OnLastFin(h, IF "A" \in g.flags THEN [t EXCEPT !.state = "FIN_WAIT_2"] ELSE t, g)

-----------------------------------------------------------------------------
(* Arrival of a segment. *)

Matches(t, g) == t.state # "CLOSED" /\ t.rport = g.src /\ t.lport = g.dst

(* tcb_find(): the slot of the connection, else the last listening slot. *)
Finds(h, i, g) ==
  LET exact == {j \in Slots : Matches(conns[h][j], g)}
      listening == {j \in Slots : conns[h][j].state = "LISTEN" /\ conns[h][j].lport = g.dst}
  IN IF exact # {} THEN i \in exact /\ \A j \in exact : i <= j
     ELSE i \in listening /\ \A j \in listening : j <= i

(* Bound: no connection uses more than MaxSeq sequence numbers. *)
InRange(t) == t.nxt % IssStep <= MaxSeq

Rest(g) == IF "dup" \in Faults THEN net ELSE net \ {g}

(* Slot i of h becomes r.t and r.out leaves the host; g is used up. *)
Answer(h, i, g, r) ==
  /\ InRange(r.t)
  /\ conns' = [conns EXCEPT ![h][i] = r.t]
  /\ net' = Rest(g) \cup r.out
  /\ UNCHANGED <<opens, busy>>

Arrives(h, i, g) == g.from = Peer(h) /\ Finds(h, i, g)
Touched(t) == [t EXCEPT !.heard = TRUE]

(* No TCB: RST, unless the segment is one. *)
RecvUnmatched(h, g) ==
  /\ g.from = Peer(h) /\ ~\E i \in Slots : Finds(h, i, g)
  /\ net' = Rest(g) \cup (IF "R" \in g.flags THEN {} ELSE EmitRst(h, g))
  /\ UNCHANGED <<conns, initial_seq, opens, busy>>

(* RST: it must be at rcv_nxt, or acknowledge the SYN. *)
RstAccepted(t, g) ==
  CASE t.state = "LISTEN" -> TRUE
    [] t.state = "SYN_SENT" -> "A" \in g.flags /\ g.ack = t.nxt
    [] OTHER -> g.seq = t.rnxt

RecvRst(h, i, g) ==
  /\ Arrives(h, i, g) /\ "R" \in g.flags
  /\ Answer(h, i, g, Res(IF RstAccepted(conns[h][i], g) THEN Unused ELSE conns[h][i], {}))
  /\ UNCHANGED initial_seq

(* A SYN in a synchronized state: an ACK tells the peer where we are. *)
RecvChallenge(h, i, g) ==
  LET t == conns[h][i] IN
  /\ Arrives(h, i, g) /\ "R" \notin g.flags /\ "S" \in g.flags
  /\ t.state \notin {"LISTEN", "SYN_SENT", "SYN_RECEIVED"}
  /\ Answer(h, i, g, Res(Touched(t), Emit(h, t, {"A"}, <<>>)))
  /\ UNCHANGED initial_seq

RecvListen(h, i, g) ==
  LET t == Touched(conns[h][i])
      s == [t EXCEPT !.rport = g.src, !.una = initial_seq[h], !.nxt = initial_seq[h],
                     !.rnxt = g.seq + 1, !.wnd = g.wnd, !.state = "SYN_RECEIVED"]
  IN
  /\ Arrives(h, i, g) /\ t.state = "LISTEN" /\ "R" \notin g.flags
  /\ IF "S" \in g.flags /\ "A" \notin g.flags
     THEN /\ Answer(h, i, g, Res(Arm([s EXCEPT !.nxt = @ + 1]), Emit(h, s, {"S", "A"}, <<>>)))
          /\ initial_seq' = [initial_seq EXCEPT ![h] = @ + IssStep]
     ELSE /\ Answer(h, i, g, Res(t, EmitRst(h, g)))
          /\ UNCHANGED initial_seq

RecvSynReceived(h, i, g) ==
  LET t == Touched(conns[h][i])
      s == [t EXCEPT !.una = g.ack, !.wnd = g.wnd, !.state = "ESTABLISHED",
                     !.armed = FALSE, !.retries = 0]
  IN
  /\ Arrives(h, i, g) /\ t.state = "SYN_RECEIVED" /\ "R" \notin g.flags
  /\ Answer(h, i, g, IF "A" \notin g.flags THEN Res(t, {})
                     ELSE IF g.ack = t.nxt THEN Res(s, {}) ELSE Res(t, EmitRst(h, g)))
  /\ UNCHANGED initial_seq

RecvSynSent(h, i, g) ==
  LET t == Touched(conns[h][i])
      s == [t EXCEPT !.rnxt = g.seq + 1, !.una = g.ack, !.wnd = g.wnd, !.state = "ESTABLISHED",
                     !.armed = FALSE, !.retries = 0]
  IN
  /\ Arrives(h, i, g) /\ t.state = "SYN_SENT" /\ "R" \notin g.flags
  /\ Answer(h, i, g, IF {"S", "A"} \subseteq g.flags /\ g.ack = t.nxt
                     THEN Res(s, Emit(h, s, {"A"}, <<>>)) ELSE Res(t, {}))
  /\ UNCHANGED initial_seq

(* ESTABLISHED and later, for a segment without RST and SYN. *)
RecvSynced(h, i, g) ==
  LET t == Touched(conns[h][i]) IN
  /\ Arrives(h, i, g) /\ g.flags \cap {"R", "S"} = {}
  /\ \/ t.state \in Open /\ Answer(h, i, g, OnOpen(h, t, g))
     \/ t.state = "FIN_WAIT_1" /\ Answer(h, i, g, OnFinWait1(h, t, g))
     \/ t.state = "FIN_WAIT_2" /\ Answer(h, i, g, OnLastFin(h, t, g))
     \/ t.state = "LAST_ACK" /\ Answer(h, i, g, Res(IF "A" \in g.flags THEN Unused ELSE t, {}))
     \/ t.state = "TIME_WAIT" /\ Answer(h, i, g, Res(t, {}))
  /\ UNCHANGED initial_seq

Lose(g) ==
  /\ "lose" \in Faults
  /\ net' = net \ {g}
  /\ UNCHANGED <<conns, initial_seq, opens, busy>>

-----------------------------------------------------------------------------
(* System calls. *)

(* tcb_alloc() *)
FreeSlot(h, i) ==
  /\ conns[h][i].state = "CLOSED"
  /\ \A j \in Slots : j < i => conns[h][j].state # "CLOSED"

Opens(h) ==
  /\ opens[h] < MaxOpens[h]
  /\ opens' = [opens EXCEPT ![h] = @ + 1]

(* tcp_connect(): the SYN goes out at snd_nxt, then snd_nxt counts it.       *)
Connect(h, i) ==
  LET s == [Unused EXCEPT !.state = "SYN_SENT", !.lport = opens[h] + 1, !.rport = ListenPort,
                          !.una = initial_seq[h], !.nxt = initial_seq[h]]
  IN
  /\ h \in Clients /\ FreeSlot(h, i) /\ Opens(h)
  /\ conns' = [conns EXCEPT ![h][i] = s]
  /\ busy' = {<<h, i>>}
  /\ net' = net \cup Emit(h, s, {"S"}, <<>>)
  /\ initial_seq' = [initial_seq EXCEPT ![h] = @ + IssStep]

ConnectCounted(h, i) ==
  LET t == conns[h][i] IN
  /\ <<h, i>> \in busy
  /\ busy' = busy \ {<<h, i>>}
  /\ conns' = [conns EXCEPT ![h][i] =
                 IF t.state = "CLOSED" THEN t ELSE Arm([t EXCEPT !.nxt = t.nxt + 1])]
  /\ UNCHANGED <<initial_seq, opens, net>>

Listen(h, i) ==
  /\ h \in Servers /\ FreeSlot(h, i) /\ Opens(h)
  /\ conns' = [conns EXCEPT ![h][i] = [Unused EXCEPT !.state = "LISTEN", !.lport = ListenPort,
                                                     !.rport = NoPort]]
  /\ UNCHANGED <<initial_seq, busy, net>>

(* tcp_send() of n bytes. *)
Send(h, i, n) ==
  LET t == conns[h][i]
      put == Least(n, BufSize - 1 - Pending(t))
      s == [t EXCEPT !.buf = [j \in DOMAIN @ |->
                                LET k == (j + BufSize - t.tail) % BufSize
                                IN IF k < put THEN t.wrote + k + 1 ELSE @[j]],
                     !.tail = (@ + put) % BufSize, !.wrote = @ + put]
      r == Drain(h, s)
  IN
  /\ "send" \in Calls /\ h \in Writers /\ t.state \in Open
  /\ t.wrote + n <= MaxBytes /\ InRange(r.t)
  /\ conns' = [conns EXCEPT ![h][i] = r.t]
  /\ net' = net \cup r.out
  /\ UNCHANGED <<initial_seq, opens, busy>>

(* tcp_recv() of up to n bytes: no segment tells the peer. *)
Recv(h, i, n) ==
  /\ "recv" \in Calls /\ conns[h][i].rx # <<>>
  /\ conns' = [conns EXCEPT ![h][i].rx = SubSeq(@, Least(n, Len(@)) + 1, Len(@))]
  /\ UNCHANGED <<initial_seq, opens, busy, net>>

(* Mutant: the FIN does not arm the timer. *)
ClosedUnarmed(h, t) ==
  LET fin == [t EXCEPT !.state = IF @ = "ESTABLISHED" THEN "FIN_WAIT_1" ELSE "LAST_ACK"]
  IN IF t.state \in Open
     THEN Res([fin EXCEPT !.nxt = @ + 1], Emit(h, fin, {"F", "A"}, <<>>))
     ELSE Res(Unused, {})

(* tcp_close() *)
Closed(h, t) ==
  LET fin == [t EXCEPT !.state = IF @ = "ESTABLISHED" THEN "FIN_WAIT_1" ELSE "LAST_ACK"]
  IN IF t.state \in Open
     THEN Res(Arm([fin EXCEPT !.nxt = @ + 1]), Emit(h, fin, {"F", "A"}, <<>>))
     ELSE Res(Unused, {})

Close(h, i) ==
  LET r == Closed(h, conns[h][i]) IN
  /\ "close" \in Calls /\ conns[h][i].state # "CLOSED"
  /\ conns' = [conns EXCEPT ![h][i] = r.t]
  /\ net' = net \cup r.out
  /\ UNCHANGED <<initial_seq, opens, busy>>

(* tcp_close_pid(), at the end of the only program of the host. *)
Exit(h) ==
  LET used == {i \in Slots : conns[h][i].state # "CLOSED"} IN
  /\ "exit" \in Calls /\ used # {}
  /\ conns' = [conns EXCEPT ![h] = [i \in Slots |-> IF i \in used THEN Closed(h, @[i]).t ELSE @[i]]]
  /\ net' = net \cup UNION {Closed(h, conns[h][i]).out : i \in used}
  /\ UNCHANGED <<initial_seq, opens, busy>>

-----------------------------------------------------------------------------
(* tcp_tick() *)

(* A probe at snd_una - 1, once the connection has been silent for 72 s: so  *)
(* long that nothing is in transit but what "dup" keeps there.               *)
Keepalive(h, i) ==
  LET t == conns[h][i] IN
  /\ t.state = "ESTABLISHED" /\ t.heard
  /\ "dup" \in Faults \/ net = {}
  /\ net' = net \cup Emit(h, [t EXCEPT !.nxt = t.una - 1], {"A"}, <<>>)
  /\ UNCHANGED <<conns, initial_seq, opens, busy>>

TimeWaitOver(h, i) ==
  /\ conns[h][i].state = "TIME_WAIT"
  /\ conns' = [conns EXCEPT ![h][i] = Unused]
  /\ UNCHANGED <<initial_seq, opens, busy, net>>

(* One byte at snd_nxt while the window is closed; snd_nxt does not move. *)
PersistProbe(h, i) ==
  LET t == conns[h][i] IN
  /\ t.persist /\ Pending(t) > 0
  /\ net' = net \cup Emit(h, t, {"A"}, TxBytes(t, 1))
  /\ UNCHANGED <<conns, initial_seq, opens, busy>>

(* The retransmission timer: again, or after MaxRetries times the end. *)
Rto(h, i) ==
  LET t == conns[h][i] IN
  /\ t.state # "CLOSED" /\ t.armed
  /\ Timely => net = {}
  /\ \/ /\ t.una = t.nxt
        /\ conns' = [conns EXCEPT ![h][i].armed = FALSE]
        /\ UNCHANGED net
     \/ /\ t.una # t.nxt /\ t.retries >= MaxRetries
        /\ conns' = [conns EXCEPT ![h][i] = Unused]
        /\ UNCHANGED net
     \/ /\ t.una # t.nxt /\ t.retries < MaxRetries
        /\ net' = net \cup Retransmit(h, t)
        /\ conns' = [conns EXCEPT ![h][i] =
                       [t EXCEPT !.ssthresh = Most(InFlight(t) \div 2, 2 * MSS), !.cwnd = MSS,
                                 !.retries = @ + 1]]
  /\ UNCHANGED <<initial_seq, opens, busy>>

-----------------------------------------------------------------------------
(* Only a segment can come between the two steps of tcp_connect(), and only  *)
(* with "connect" in Preempt.                                                *)
Between == "connect" \in Preempt \/ busy = {}

Init ==
  /\ conns = [h \in Hosts |-> [i \in Slots |-> Unused]]
  /\ initial_seq = [h \in Hosts |-> IssStep]
  /\ opens = [h \in Hosts |-> 0]
  /\ busy = {}
  /\ net = {}

TcpTick(h, i) ==
  busy = {} /\ (Keepalive(h, i) \/ TimeWaitOver(h, i) \/ PersistProbe(h, i) \/ Rto(h, i))

TcpHandle(h, g) ==
  Between /\
  \/ RecvUnmatched(h, g)
  \/ \E i \in Slots : \/ RecvRst(h, i, g) \/ RecvChallenge(h, i, g) \/ RecvListen(h, i, g)
                      \/ RecvSynReceived(h, i, g) \/ RecvSynSent(h, i, g) \/ RecvSynced(h, i, g)

SysCall(h) ==
  busy = {} /\
  \/ \E i \in Slots : \/ Connect(h, i) \/ Listen(h, i) \/ Close(h, i)
                      \/ \E n \in 1 .. BufSize - 1 : Send(h, i, n) \/ Recv(h, i, n)
  \/ Exit(h)

Next ==
  \/ \E h \in Hosts, i \in Slots : ConnectCounted(h, i)
  \/ \E h \in Hosts : SysCall(h) \/ (\E i \in Slots : TcpTick(h, i)) \/ \E g \in net : TcpHandle(h, g)
  \/ \E g \in net : Lose(g)

Spec == Init /\ [][Next]_vars

(* Somebody polls the card on every host, so timers fire.  A segment does    *)
(* not stay in transit for ever, and one that is sent again and again        *)
(* arrives in the end: here the RST, and the segments with an ACK that no    *)
(* connection wants.                                                         *)
Refuse(h, g) == "A" \in g.flags /\ (RecvUnmatched(h, g) \/ \E i \in Slots : RecvListen(h, i, g))
Timers ==
  /\ WF_vars(\E h \in Hosts, i \in Slots : ConnectCounted(h, i))
  /\ \A h \in Hosts, i \in Slots : WF_vars(TcpTick(h, i))
Network ==
  /\ WF_vars(\E g \in net : Lose(g) \/ \E h \in Hosts : TcpHandle(h, g))
  /\ \A h \in Hosts, p \in Ephemeral :
       SF_vars(\E g \in net : p \in {g.src, g.dst} /\ Between /\ Refuse(h, g))
  /\ \A h \in Hosts, i \in Slots :
       SF_vars(\E g \in net : RstAccepted(conns[h][i], g) /\ Between /\ RecvRst(h, i, g))

TimerSpec == Spec /\ Timers
FairSpec == TimerSpec /\ Network

(* And the programs read what has come. *)
ReadingSpec == FairSpec /\ \A h \in Hosts, i \in Slots : WF_vars(\E n \in 1 .. BufSize - 1 : Recv(h, i, n))

-----------------------------------------------------------------------------
(* Properties. *)

(* Types of the table and of the wire; unused slots are blank, and the TCBs  *)
(* keep within their buffers and the retry limit.                            *)
TypeOK ==
  /\ \A h \in Hosts, i \in Slots :
       LET t == conns[h][i] IN
       /\ t.state \in States /\ {t.lport, t.rport} \subseteq 0 .. NoPort
       /\ {t.una, t.nxt, t.rnxt, t.wrote} \subseteq Nat /\ t.una <= t.nxt
       /\ t.wnd \in 0 .. BufSize - 1 /\ Len(t.rx) < BufSize
       /\ {t.head, t.tail} \subseteq 0 .. BufSize - 1
       /\ t.retries \in 0 .. MaxRetries /\ t.cwnd \in 1 .. Most(BufSize, 2 * MSS)
       /\ Cardinality(t.ooo) <= 2 /\ t.dups \in 0 .. 4
       /\ {t.armed, t.heard, t.persist} \subseteq BOOLEAN
       /\ t.state = "CLOSED" => t = Unused
  /\ initial_seq \in [Hosts -> Nat] /\ \A h \in Hosts : opens[h] \in 0 .. MaxOpens[h]
  /\ busy \subseteq Hosts \X Slots
  /\ \A g \in net : g.from \in Hosts /\ g.wnd \in 0 .. BufSize - 1 /\ Len(g.data) <= MSS

(* t and u are the two ends of one connection, u at the other host. *)
Ends(h, i, j) ==
  LET t == conns[h][i] u == conns[Peer(h)][j] IN
  t.lport = u.rport /\ t.rport = u.lport /\ t.state \in Open /\ u.state \in Open

(* What one end counts as acknowledged the other end has received, and what  *)
(* it has received has been sent (one byte more for a zero-window probe):    *)
(* duplicated, lost and reordered segments of this and of earlier            *)
(* connections never put the two ends out of step.                           *)
InStep ==
  \A h \in Hosts, i, j \in Slots :
    Ends(h, i, j) =>
      LET t == conns[h][i] u == conns[Peer(h)][j] IN
      u.una <= t.rnxt /\ t.rnxt <= u.nxt + (IF u.persist THEN 1 ELSE 0)

(* The sender never has more in flight than the receive ring of the other    *)
(* end has room for, so tcb_rx_inline() never cuts a segment short.          *)
NoOverrun ==
  \A h \in Hosts, i, j \in Slots :
    Ends(h, i, j) => LET t == conns[h][i] u == conns[Peer(h)][j] IN u.nxt <= t.rnxt + RxWnd(t)

(* A socket its program has closed gives its slot back, whatever the peer    *)
(* and the network do: eight forgotten slots would end all networking.       *)
SlotFreed ==
  \A h \in Hosts, i \in Slots : conns[h][i].state \in Closing ~> conns[h][i].state \notin Closing

(* An established connection whose other end is gone does not stay so: the   *)
(* keepalive probe draws a RST that the connection accepts, if the network   *)
(* is fair.                                                                  *)
PeerGone(h, i) ==
  /\ conns[h][i].state = "ESTABLISHED"
  /\ ~\E j \in Slots : LET u == conns[Peer(h)][j] IN
       u.state # "CLOSED" /\ u.lport = conns[h][i].rport /\ u.rport = conns[h][i].lport
DeadPeerNoticed ==
  Network => \A h \in Hosts, i \in Slots : PeerGone(h, i) ~> ~PeerGone(h, i)

(* The bytes in a receive ring are those the peer's program wrote, each once *)
(* and in its place.                                                         *)
StreamInOrder ==
  \A h \in Hosts, i, j \in Slots :
    Ends(h, i, j) =>
      LET t == conns[h][i] IN
      \A k \in 1 .. Len(t.rx) : t.rx[k] = (t.rnxt - Len(t.rx) + k - 1) % IssStep

(* A sender that probes a closed window finds it open again in the end.      *)
WindowReopens ==
  \A h \in Hosts, i \in Slots : conns[h][i].persist ~> ~conns[h][i].persist

(* On a wire that loses nothing, a client that waits for the answer to its   *)
(* SYN waits for a segment that is on its way.                               *)
SynAnswered ==
  \A h \in Hosts, i \in Slots :
    conns[h][i].state = "SYN_SENT" /\ <<h, i>> \notin busy => net # {}

(* TIME_WAIT lasts until its own timer ends it.                              *)
TimeWaitLasts ==
  [][\A h \in Hosts, i \in Slots :
       conns[h][i].state = "TIME_WAIT" /\ conns'[h][i].state = "CLOSED" => TimeWaitOver(h, i)]_vars
=============================================================================
