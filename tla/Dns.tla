--------------------------------- MODULE Dns ---------------------------------
(***************************************************************************)
(* kernel/drivers/net/dns.c over the DHCP client, the ARP cache and the    *)
(* routing of ipv4_send(): the resolver that all programs share.           *)
(*                                                                         *)
(* The address of a name is the name.  Packets arrive in the interrupt     *)
(* handler of the network card; a system call is one step but for the      *)
(* place named in DnsPreempt.  Ids are not reduced modulo 2^16, and names  *)
(* have at most 63 characters (longer ones are cut by DNS_CACHE_NAME, and  *)
(* a retransmission then asks for the cut name).                           *)
(***************************************************************************)
EXTENDS Dhcp, Sequences

CONSTANTS
  Names,
  NameServers,   (* NameServers[s]: the list of name servers DHCP server s announces *)
  Gateway,       (* router_ip: who stands for the name servers that are not Peers    *)
  Down,          (* name servers that do not answer                                  *)
  DnsRetries,    (* DNS_MAX_RETRIES                                                  *)
  CacheSize,     (* DNS_CACHE_SIZE                                                   *)
  MaxQueries,    (* bound: queries sent                                              *)
  LateLetters,   (* bound: may a query start while DHCP messages are in transit?     *)
  DnsPreempt     (* {}, or {"resolve"}: an answer within dns_resolve()               *)

ASSUME DnsAssumption ==
  /\ {DnsRetries, MaxQueries} \subseteq Nat /\ CacheSize \in Nat \ {0}
  /\ Gateway \in Peers /\ DnsPreempt \subseteq {"resolve"} /\ LateLetters \in BOOLEAN

VARIABLES
  current_id,    (* request_id - 1: the id of the last query                   *)
  inflight,      (* last_send_tick # 0                                         *)
  send_retries, answer_ready, answer_ip, last_query_name,
  dns_cache,     (* slot |-> name (fresh entries; "none": not in_use)          *)
  dns_cache_ip,  (* slot |-> address                                           *)
  round,         (* dns_cache_round                                            *)
  resolving,     (* dns_resolve() has copied the name and not yet set the id   *)
  disturbed,     (* history: was a packet lost, or a timer ahead of one?       *)
  mail           (* queries and answers in transit                             *)

dnsVars == <<current_id, inflight, send_retries, answer_ready, answer_ip, last_query_name,
             dns_cache, dns_cache_ip, round, resolving, disturbed, mail>>
vars == <<arpVars, dhcpVars, dnsVars>>

Slots == 0 .. CacheSize - 1
Hits(n) == {i \in Slots : dns_cache[i] = n}            \* dns_cache_find()

(* dhcp_get_dns(), and dhcp_get_dns2() where the server announced two. *)
Primary == NameServers[config][1]
HasSecondary == Len(NameServers[config]) > 1
Secondary == NameServers[config][2]

(* ipv4_send(): to the peer itself or through the router, if its link        *)
(* address is known; if not the packet is dropped and the address asked for. *)
Hop(to) == IF to \in Peers THEN to ELSE Gateway
Query(to, id, n) == [op |-> "query", to |-> to, id |-> id, name |-> n]
Ipv4Send(q) ==
  /\ arp' = Expired(Hop(q.to))
  /\ IF Resolved(Hop(q.to)) THEN mail' = mail \cup {q} /\ UNCHANGED <<limited, asking>>
     ELSE SendRequest(Hop(q.to)) /\ UNCHANGED mail
  /\ UNCHANGED cache_next

CanAsk == state = "BOUND" /\ ~resolving /\ (LateLetters \/ letters = {})

(* dns_resolve() of a name in the cache: a query under way goes on. *)
ResolveHit(n) ==
  /\ ~resolving
  /\ \E i \in Hits(n) :
       /\ \A j \in Hits(n) : i <= j
       /\ answer_ip' = dns_cache_ip[i]
  /\ answer_ready' = TRUE
  /\ UNCHANGED <<current_id, inflight, send_retries, last_query_name, dns_cache, dns_cache_ip,
                 round, resolving, disturbed, mail, arpVars, dhcpVars>>

(* dns_resolve() of another name: the name is noted, *)
ResolveName(n) ==
  /\ CanAsk /\ Hits(n) = {} /\ current_id < MaxQueries
  /\ last_query_name' = n
  /\ resolving' = TRUE
  /\ UNCHANGED <<current_id, inflight, send_retries, answer_ready, answer_ip, dns_cache,
                 dns_cache_ip, round, disturbed, mail, arpVars, dhcpVars>>

(* then the answer is cleared and the query sent under a new id. *)
ResolveSend ==
  /\ resolving
  /\ resolving' = FALSE
  /\ answer_ready' = FALSE /\ answer_ip' = None
  /\ current_id' = current_id + 1
  /\ inflight' = TRUE /\ send_retries' = 0
  /\ Ipv4Send(Query(Primary, current_id + 1, last_query_name))
  /\ UNCHANGED <<last_query_name, dns_cache, dns_cache_ip, round, disturbed, dhcpVars>>

(* Mutant: an answer to any query will do. *)
ForUsAny(a) == TRUE
ForUs(a) == a.id = current_id

(* dns_cache_put(): the slot of the name, else round robin. *)
CachePut(n, ip) ==
  LET slot == IF Hits(n) # {} THEN CHOOSE i \in Hits(n) : \A j \in Hits(n) : i <= j ELSE round
  IN /\ dns_cache' = [dns_cache EXCEPT ![slot] = n]
     /\ dns_cache_ip' = [dns_cache_ip EXCEPT ![slot] = ip]
     /\ round' = IF Hits(n) # {} THEN round ELSE (round + 1) % CacheSize

(* on_packet(): an answer to the current query ends it. *)
DnsOnPacket(a) ==
  /\ a \in mail /\ a.op = "answer"
  /\ "resolve" \in DnsPreempt \/ ~resolving
  /\ mail' = mail \ {a}
  /\ IF ForUs(a)
     THEN /\ answer_ip' = a.name /\ answer_ready' = TRUE /\ inflight' = FALSE
          /\ CachePut(last_query_name, a.name)
     ELSE UNCHANGED <<answer_ip, answer_ready, inflight, dns_cache, dns_cache_ip, round>>
  /\ UNCHANGED <<current_id, send_retries, last_query_name, resolving, disturbed,
                 arpVars, dhcpVars>>

(* Mutant: always to the first server. *)
TargetPrimary == Primary
Target == IF send_retries >= DnsRetries \div 2 /\ HasSecondary THEN Secondary ELSE Primary

(* Does something in transit take longer than DNS_RETRY_TICKS?               *)
Early == mail # {} \/ limited \/ \E a \in asking : a.ip = Hop(Target)

(* dns_tick(), when DNS_RETRY_TICKS have passed. *)
DnsTick ==
  /\ inflight /\ ~answer_ready /\ ~resolving
  /\ IF send_retries >= DnsRetries
     THEN inflight' = FALSE /\ UNCHANGED <<send_retries, mail, arpVars>>
     ELSE /\ IF state = "BOUND" THEN Ipv4Send(Query(Target, current_id, last_query_name))
             ELSE UNCHANGED <<mail, arpVars>>
          /\ send_retries' = send_retries + 1 /\ UNCHANGED inflight
  /\ disturbed' = (disturbed \/ Early)
  /\ UNCHANGED <<current_id, answer_ready, answer_ip, last_query_name, dns_cache, dns_cache_ip,
                 round, resolving, dhcpVars>>

(* A cache entry gets older than DNS_CACHE_TTL. *)
CacheAge(i) ==
  /\ dns_cache[i] # None /\ ~resolving
  /\ dns_cache' = [dns_cache EXCEPT ![i] = None]
  /\ dns_cache_ip' = [dns_cache_ip EXCEPT ![i] = None]
  /\ UNCHANGED <<current_id, inflight, send_retries, answer_ready, answer_ip, last_query_name,
                 round, resolving, disturbed, mail, arpVars, dhcpVars>>

(* The servers: an answer, or nothing from one that is down; and the wire. *)
ServerAnswers(q) ==
  /\ q \in mail /\ q.op = "query"
  /\ mail' = (mail \ {q}) \cup
       (IF q.to \in Down THEN {} ELSE {[op |-> "answer", id |-> q.id, name |-> q.name]})
  /\ UNCHANGED <<current_id, inflight, send_retries, answer_ready, answer_ip, last_query_name,
                 dns_cache, dns_cache_ip, round, resolving, disturbed, arpVars, dhcpVars>>

MailLost(p) ==
  /\ p \in mail
  /\ mail' = mail \ {p} /\ disturbed' = TRUE
  /\ UNCHANGED <<current_id, inflight, send_retries, answer_ready, answer_ip, last_query_name,
                 dns_cache, dns_cache_ip, round, resolving, arpVars, dhcpVars>>

(* An entry that gets too old just after it was learnt, in the middle of a   *)
(* query, counts as a disturbance: 60 seconds against 8.                     *)
ArpAge(i) ==
  /\ Age(i)
  /\ disturbed' = (disturbed \/ inflight)
  /\ UNCHANGED <<current_id, inflight, send_retries, answer_ready, answer_ip, last_query_name,
                 dns_cache, dns_cache_ip, round, resolving, mail, dhcpVars>>

ArpStep ==
  /\ \/ \E a \in asking : ArpHandle(a) \/ PeerAnswers(a)
     \/ \E ip \in Peers : PeerSpeaks(ip)
     \/ LimitOver
  /\ UNCHANGED <<dhcpVars, dnsVars>>

Init ==
  /\ ArpInit /\ DhcpInit
  /\ current_id = 0 /\ send_retries = 0 /\ round = 0
  /\ inflight = FALSE /\ answer_ready = FALSE /\ resolving = FALSE /\ disturbed = FALSE
  /\ answer_ip = None /\ last_query_name = None
  /\ dns_cache = [i \in Slots |-> None] /\ dns_cache_ip = [i \in Slots |-> None]
  /\ mail = {}

DnsStep ==
  \/ \E n \in Names : ResolveHit(n) \/ ResolveName(n)
  \/ ResolveSend \/ DnsTick
  \/ \E i \in Slots : CacheAge(i)
  \/ \E p \in mail : DnsOnPacket(p) \/ ServerAnswers(p) \/ MailLost(p)

Next ==
  \/ DhcpStep /\ UNCHANGED dnsVars
  \/ DnsStep \/ ArpStep
  \/ \E i \in ArpSlots : ArpAge(i)

Spec == Init /\ [][Next]_vars

(* Every net_poll_once() calls dns_tick() and dhcp_tick(), and programs poll *)
(* while they wait; a system call goes on; servers answer and the wire       *)
(* delivers what it does not lose.                                           *)
Polling ==
  /\ WF_vars((DhcpTick \/ DhcpGiveUp) /\ UNCHANGED <<arpVars, dnsVars>>)
  /\ WF_vars(DnsTick) /\ WF_vars(ResolveSend)
Network ==
  /\ WF_vars(\E p \in mail : DnsOnPacket(p)) /\ WF_vars(\E p \in mail : ServerAnswers(p))
  /\ \A ip \in Peers : WF_vars(\E a \in asking : a.ip = ip /\ (ArpHandle(a) \/ PeerAnswers(a))
                                                /\ UNCHANGED <<dhcpVars, dnsVars>>)
  /\ WF_vars(LimitOver /\ UNCHANGED <<dhcpVars, dnsVars>>)

FairSpec == Spec /\ Polling /\ Network

-----------------------------------------------------------------------------
(* Properties. *)

(* A name in the cache has its own address, although answers come late, out  *)
(* of order, and more than once.                                             *)
CacheSound == \A i \in Slots : dns_cache[i] # None => dns_cache_ip[i] = dns_cache[i]

(* With the first name server down and the second up every query is answered *)
(* unless the network loses or delays its packets: the four transmissions    *)
(* leave enough of them for the second server, the one that finds out the    *)
(* link address of the router included.                                      *)
OutageResolved == inflight ~> answer_ready \/ disturbed

(* An answer that is ready stays until the next dns_resolve().               *)
AnswerStays ==
  [][answer_ready /\ answer_ready' /\ (\A n \in Names : ~ResolveHit(n)) => answer_ip' = answer_ip]_vars

(* dns_resolve() fails only without a lease.                                 *)
ResolveSucceeds == [][ResolveSend => Resolved(Hop(Primary))]_vars
=============================================================================
