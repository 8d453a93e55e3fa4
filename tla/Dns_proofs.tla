----------------------------- MODULE Dns_proofs -----------------------------
(***************************************************************************)
(* Proofs about the network clients (Arp, Dhcp and Dns together), for any  *)
(* peers, servers and names, any number of retries and any cache sizes.    *)
(***************************************************************************)
EXTENDS Dns, TLAPS, WellFoundedInduction

(* A nonempty set of naturals has a least element, so CHOOSE finds one. *)
LEMMA LeastElement ==
  ASSUME NEW S \in SUBSET Nat, S # {}
  PROVE  \E i \in S : \A j \in S : i <= j
  <1>1. PICK i \in S : \A j \in S : ~(<<j, i>> \in OpToRel(<, Nat))
    BY NatLessThanWellFounded, WFMin
  <1>2. \A j \in S : ~(j < i)
    BY <1>1, Zenon DEF OpToRel
  <1>3. QED
    BY <1>2

(* The round-robin counters stay among the slots. *)
LEMMA NextSlot ==
  ASSUME NEW n \in Nat \ {0}, NEW k \in 0 .. n - 1
  PROVE  (k + 1) % n \in 0 .. n - 1
  OBVIOUS

-----------------------------------------------------------------------------
(* The ARP cache. *)

ArpTypeOK ==
  /\ arp \in [ArpSlots -> [ip : Peers \cup {NoPeer}, valid : BOOLEAN, fresh : BOOLEAN]]
  /\ cache_next \in ArpSlots
  /\ \A a \in asking : a.op = "reply" => a.ip \in Peers

ArpInv == ArpTypeOK /\ OneSlotEach

(* One entry set to an address that no other entry has. *)
LEMMA OneEntrySet ==
  ASSUME ArpInv, NEW ip \in Peers, NEW slot \in ArpSlots,
         \A i \in ArpSlots : Knows(i, ip) => i = slot,
         arp' = [arp EXCEPT ![slot] = Entry(ip)]
  PROVE  /\ arp' \in [ArpSlots -> [ip : Peers \cup {NoPeer}, valid : BOOLEAN, fresh : BOOLEAN]]
         /\ OneSlotEach'
  BY DEF ArpInv, ArpTypeOK, OneSlotEach, Knows, Entry

(* arp_insert() keeps one slot to a peer. *)
LEMMA InsertKept ==
  ASSUME ArpInv, NEW ip \in Peers, CacheInsert(ip)
  PROVE  /\ arp' \in [ArpSlots -> [ip : Peers \cup {NoPeer}, valid : BOOLEAN, fresh : BOOLEAN]]
         /\ cache_next' \in ArpSlots
         /\ OneSlotEach'
  <1> DEFINE free == {i \in ArpSlots : ~arp[i].valid}
             slot == CASE First(ip) # {} -> CHOOSE i \in First(ip) : TRUE
                       [] First(ip) = {} /\ free # {} -> CHOOSE i \in free : \A j \in free : i <= j
                       [] OTHER -> cache_next
  <1>1. /\ arp' = [arp EXCEPT ![slot] = Entry(ip)]
        /\ cache_next' = IF First(ip) = {} /\ free = {} THEN (cache_next + 1) % ArpSize ELSE cache_next
    BY DEF CacheInsert
  <1>2. cache_next \in 0 .. ArpSize - 1 /\ ArpSize \in Nat \ {0}
    BY ArpAssumption DEF ArpInv, ArpTypeOK, ArpSlots
  <1>3. cache_next' \in ArpSlots
    BY <1>1, <1>2, NextSlot DEF ArpSlots
  <1>4. slot \in ArpSlots /\ \A i \in ArpSlots : Knows(i, ip) => i = slot
    <2>1. CASE First(ip) # {}
      <3>1. slot \in First(ip)
        BY <2>1
      <3>2. \A i \in ArpSlots : Knows(i, ip) => i = slot
        BY <3>1 DEF First, Knows, ArpInv, OneSlotEach
      <3>3. QED
        BY <3>1, <3>2 DEF First
    <2>2. CASE First(ip) = {}
      <3>1. \A i \in ArpSlots : ~Knows(i, ip)
        BY <2>2 DEF First, Knows, ArpInv, OneSlotEach, ArpSlots
      <3>2. CASE free # {}
        <4>1. free \in SUBSET Nat
          BY DEF ArpSlots
        <4>2. PICK i \in free : \A j \in free : i <= j
          BY <3>2, <4>1, LeastElement
        <4>3. slot = CHOOSE k \in free : \A j \in free : k <= j
          BY <2>2, <3>2
        <4>4. slot \in free
          BY <4>2, <4>3
        <4>5. QED
          BY <3>1, <4>4
      <3>3. CASE free = {}
        <4>1. slot = cache_next
          BY <2>2, <3>3
        <4>2. QED
          BY <3>1, <4>1, <1>2 DEF ArpSlots
      <3>4. QED
        BY <3>2, <3>3
    <2>3. QED
      BY <2>1, <2>2
  <1>5. QED
    <2> HIDE DEF slot
    <2>1. QED
      BY <1>1, <1>3, <1>4, OneEntrySet

(* So does the expiry of an entry, *)
LEMMA ExpiredKept ==
  ASSUME ArpInv, NEW ip, arp' = Expired(ip)
  PROVE  /\ arp' \in [ArpSlots -> [ip : Peers \cup {NoPeer}, valid : BOOLEAN, fresh : BOOLEAN]]
         /\ OneSlotEach'
  BY DEF ArpInv, ArpTypeOK, OneSlotEach, Expired, Nobody

(* so do requests and what is sent through the cache, *)
LEMMA RequestKept ==
  ASSUME ArpTypeOK, NEW ip, SendRequest(ip)
  PROVE  \A a \in asking' : a.op = "reply" => a.ip \in Peers
  BY DEF ArpTypeOK, SendRequest

LEMMA SendKept ==
  ASSUME ArpInv, NEW q, Ipv4Send(q)
  PROVE  ArpInv'
  <1>1. arp' = Expired(Hop(q.to)) /\ cache_next' = cache_next
    BY DEF Ipv4Send
  <1>2. \A a \in asking' : a.op = "reply" => a.ip \in Peers
    BY RequestKept DEF Ipv4Send, ArpInv, ArpTypeOK
  <1>3. QED
    BY <1>1, <1>2, ExpiredKept DEF ArpInv, ArpTypeOK, ArpSlots

(* The start, and the steps of others. *)
LEMMA ArpInit_ArpInv == ArpInit => ArpInv
  BY ArpAssumption DEF ArpInit, ArpInv, ArpTypeOK, OneSlotEach, Nobody, ArpSlots

LEMMA ArpStays == ArpInv /\ UNCHANGED arpVars => ArpInv'
  BY DEF ArpInv, ArpTypeOK, OneSlotEach, arpVars, ArpSlots

(* Every step of the link, then every step of the system. *)
LEMMA ArpStep_ArpInv == ArpInv /\ (ArpStep \/ \E i \in ArpSlots : ArpAge(i)) => ArpInv'
  <1> SUFFICES ASSUME ArpInv, ArpStep \/ \E i \in ArpSlots : ArpAge(i)
               PROVE  ArpInv'
    OBVIOUS
  <1>1. ASSUME NEW a \in asking, ArpHandle(a)
        PROVE  ArpInv'
    <2>1. a.ip \in Peers /\ CacheInsert(a.ip) /\ asking' = asking \ {a}
      BY <1>1 DEF ArpHandle, ArpInv, ArpTypeOK
    <2>2. QED
      BY <2>1, InsertKept DEF ArpInv, ArpTypeOK, ArpSlots
  <1>2. ASSUME NEW a \in asking, PeerAnswers(a)
        PROVE  ArpInv'
    BY <1>2 DEF PeerAnswers, Answered, ArpInv, ArpTypeOK, OneSlotEach, ArpSlots
  <1>3. ASSUME NEW ip \in Peers, PeerSpeaks(ip)
        PROVE  ArpInv'
    BY <1>3 DEF PeerSpeaks, ArpInv, ArpTypeOK, OneSlotEach, ArpSlots
  <1>4. ASSUME LimitOver
        PROVE  ArpInv'
    BY <1>4 DEF LimitOver, ArpInv, ArpTypeOK, OneSlotEach, ArpSlots
  <1>5. ASSUME NEW i \in ArpSlots, ArpAge(i)
        PROVE  ArpInv'
    <2>1. arp' = [arp EXCEPT ![i].fresh = FALSE] /\ cache_next' = cache_next /\ asking' = asking
      BY <1>5 DEF ArpAge, Age
    <2>2. \A j \in ArpSlots : arp'[j].ip = arp[j].ip /\ arp'[j].valid = arp[j].valid
      BY <2>1 DEF ArpInv, ArpTypeOK
    <2>3. arp' \in [ArpSlots -> [ip : Peers \cup {NoPeer}, valid : BOOLEAN, fresh : BOOLEAN]]
      BY <2>1 DEF ArpInv, ArpTypeOK
    <2>4. QED
      BY <2>1, <2>2, <2>3 DEF ArpInv, ArpTypeOK, OneSlotEach, ArpSlots
  <1>6. QED
    BY <1>1, <1>2, <1>3, <1>4, <1>5 DEF ArpStep

LEMMA Next_ArpInv == ArpInv /\ [Next]_vars => ArpInv'
  <1> SUFFICES ASSUME ArpInv, [Next]_vars
               PROVE  ArpInv'
    OBVIOUS
  <1>1. ASSUME DhcpStep
        PROVE  ArpInv'
    <2>1. CASE UNCHANGED arpVars
      BY <2>1, ArpStays
    <2>2. ASSUME NEW l \in letters, DhcpOnPacket(l)
          PROVE  ArpInv'
      <3>1. arp' = arp /\ cache_next' = cache_next
        BY <2>2 DEF DhcpOnPacket
      <3>2. \A a \in asking' : a.op = "reply" => a.ip \in Peers
        BY <2>2, RequestKept DEF DhcpOnPacket, ArpInv, ArpTypeOK
      <3>3. QED
        BY <3>1, <3>2 DEF ArpInv, ArpTypeOK, OneSlotEach, ArpSlots
    <2>3. QED
      BY <1>1, <2>1, <2>2 DEF DhcpStep
  <1>2. ASSUME DnsStep
        PROVE  ArpInv'
    <2>1. CASE UNCHANGED arpVars
      BY <2>1, ArpStays
    <2>2. CASE ResolveSend
      BY <2>2, SendKept DEF ResolveSend
    <2>3. CASE DnsTick
      <3>1. Ipv4Send(Query(Target, current_id, last_query_name)) \/ UNCHANGED arpVars
        BY <2>3 DEF DnsTick
      <3>2. QED
        BY <3>1, <2>1, SendKept
    <2>4. QED
      BY <1>2, <2>1, <2>2, <2>3
         DEF DnsStep, ResolveHit, ResolveName, CacheAge, DnsOnPacket, ServerAnswers, MailLost
  <1>3. CASE UNCHANGED vars
    BY <1>3, ArpStays DEF vars
  <1>4. QED
    BY <1>1, <1>2, <1>3, ArpStep_ArpInv DEF Next

(* No peer ever has two slots in the ARP cache, however replies, requests,   *)
(* ageing and eviction interleave.                                           *)
THEOREM PeersKeepOneSlot == Spec => []OneSlotEach
  <1>1. Init => ArpInv
    BY ArpInit_ArpInv DEF Init
  <1>2. ArpInv => OneSlotEach
    BY DEF ArpInv
  <1>3. QED
    BY <1>1, <1>2, Next_ArpInv, PTL DEF Spec
-----------------------------------------------------------------------------
(* The lease. *)

LeaseInv ==
  /\ LeaseGranted
  /\ \A l \in letters : l.type = "ACK" => l.ip \in leases

(* What the server's answers do to the lease. *)
LEMMA OnPacket_LeaseInv ==
  ASSUME LeaseInv, NEW l \in letters, DhcpOnPacket(l)
  PROVE  LeaseInv'
  <1>1. leases' = leases
    BY DEF DhcpOnPacket
  <1>2. \A k \in letters' : k.type = "ACK" => k.ip \in leases'
    BY <1>1 DEF DhcpOnPacket, LeaseInv, Letter
  <1>3. CASE BoundBy(l)
    <2>1. local_ip' = l.ip /\ l.ip \in leases
      BY <1>3 DEF DhcpOnPacket, BoundBy, LeaseInv
    <2>2. QED
      BY <1>1, <1>2, <2>1 DEF LeaseInv, LeaseGranted
  <1>4. CASE ~BoundBy(l)
    <2>1. local_ip' = local_ip
      BY <1>4 DEF DhcpOnPacket
    <2>2. state' = "BOUND" => state = "BOUND"
      BY <1>4 DEF DhcpOnPacket
    <2>3. QED
      BY <1>1, <1>2, <2>1, <2>2 DEF LeaseInv, LeaseGranted
  <1>5. QED
    BY <1>3, <1>4

(* Every step of the client, its servers and the wire keeps it granted. *)
LEMMA DhcpStep_LeaseInv == LeaseInv /\ DhcpStep => LeaseInv'
  <1> SUFFICES ASSUME LeaseInv, DhcpStep
               PROVE  LeaseInv'
    OBVIOUS
  <1>1. CASE DhcpStart
    BY <1>1 DEF DhcpStart, LeaseInv, LeaseGranted, Letter
  <1>2. CASE DhcpTick
    BY <1>2 DEF DhcpTick, LeaseInv, LeaseGranted, Letter
  <1>3. CASE DhcpGiveUp
    BY <1>3 DEF DhcpGiveUp, LeaseInv, LeaseGranted
  <1>4. ASSUME NEW s \in DhcpServers, ServerOffers(s)
        PROVE  LeaseInv'
    BY <1>4 DEF ServerOffers, LeaseInv, LeaseGranted, Letter
  <1>5. ASSUME NEW l \in letters, ServerDecides(l)
        PROVE  LeaseInv'
    BY <1>5 DEF ServerDecides, LeaseInv, LeaseGranted, Letter
  <1>6. ASSUME NEW l \in letters, LetterGone(l)
        PROVE  LeaseInv'
    BY <1>6 DEF LetterGone, LeaseInv, LeaseGranted
  <1>7. QED
    BY <1>1, <1>2, <1>3, <1>4, <1>5, <1>6, OnPacket_LeaseInv DEF DhcpStep, DhcpOnly

(* The resolver and the link do nothing to the lease. *)
LEMMA OnlyDhcpSteps == [Next]_vars => DhcpStep \/ UNCHANGED dhcpVars
  BY DEF Next, vars, DnsStep, ArpStep, ArpAge, ResolveHit, ResolveName, ResolveSend, DnsTick,
         CacheAge, DnsOnPacket, ServerAnswers, MailLost

(* An address is in use only when its server has granted it, although OFFERs *)
(* and ACKs come late, repeatedly and from several servers.                  *)
THEOREM AddressIsGranted == Spec => []LeaseGranted
  <1>1. Init => LeaseInv
    BY DEF Init, DhcpInit, LeaseInv, LeaseGranted
  <1>2. LeaseInv /\ [Next]_vars => LeaseInv'
    <2>1. LeaseInv /\ UNCHANGED dhcpVars => LeaseInv'
      BY DEF LeaseInv, LeaseGranted, dhcpVars
    <2>2. QED
      BY <2>1, DhcpStep_LeaseInv, OnlyDhcpSteps
  <1>3. LeaseInv => LeaseGranted
    BY DEF LeaseInv
  <1>4. QED
    BY <1>1, <1>2, <1>3, PTL DEF Spec

(* dhcp_tick() gives up only on what is not bound yet.                       *)
GiveUpInv == giving_up => state \in Unbound

(* With handlers kept out of dhcp_tick() nothing takes the lease away. *)
LEMMA DhcpStep_GiveUpInv ==
  ASSUME DhcpPreempt = {}, GiveUpInv, DhcpStep
  PROVE  GiveUpInv' /\ (state = "BOUND" => state' = "BOUND")
  <1>1. CASE DhcpStart
    BY <1>1 DEF DhcpStart, GiveUpInv, Unbound
  <1>2. CASE DhcpTick
    BY <1>2 DEF DhcpTick, GiveUpInv, Unbound
  <1>3. CASE DhcpGiveUp
    BY <1>3 DEF DhcpGiveUp, GiveUpInv, Unbound
  <1>4. ASSUME NEW l \in letters, ServerDecides(l)
        PROVE  UNCHANGED <<state, giving_up>>
    BY <1>4 DEF ServerDecides
  <1>5. ASSUME NEW l \in letters, LetterGone(l)
        PROVE  UNCHANGED <<state, giving_up>>
    BY <1>5 DEF LetterGone
  <1>6. ASSUME NEW s \in DhcpServers, ServerOffers(s)
        PROVE  UNCHANGED <<state, giving_up>>
    BY <1>6 DEF ServerOffers
  <1>7. ASSUME NEW l \in letters, DhcpOnPacket(l)
        PROVE  GiveUpInv' /\ (state = "BOUND" => state' = "BOUND")
    <2>1. ~giving_up /\ giving_up' = giving_up
      BY <1>7 DEF DhcpOnPacket
    <2>2. ASSUME state = "BOUND"
          PROVE  state' = "BOUND"
      BY <1>7, <2>2 DEF DhcpOnPacket, OfferedBy, BoundBy, RefusedBy
    <2>3. QED
      BY <2>1, <2>2 DEF GiveUpInv
  <1>8. QED
    BY <1>1, <1>2, <1>3, <1>4, <1>5, <1>6, <1>7 DEF DhcpStep, DhcpOnly, GiveUpInv

(* Once bound the client stays bound, whatever answers and timers still      *)
(* come, if no answer is handled inside dhcp_tick().                         *)
THEOREM LeaseIsKept == DhcpPreempt = {} => (Spec => BoundStays)
  <1> SUFFICES ASSUME DhcpPreempt = {}
               PROVE  Spec => BoundStays
    OBVIOUS
  <1>1. Init => GiveUpInv
    BY DEF Init, DhcpInit, GiveUpInv
  <1>2. GiveUpInv /\ [Next]_vars => GiveUpInv' /\ [state = "BOUND" => state' = "BOUND"]_dhcpVars
    <2>1. GiveUpInv /\ UNCHANGED dhcpVars => GiveUpInv'
      BY DEF GiveUpInv, dhcpVars
    <2>2. QED
      BY <2>1, DhcpStep_GiveUpInv, OnlyDhcpSteps
  <1>3. QED
    BY <1>1, <1>2, PTL DEF Spec, BoundStays

-----------------------------------------------------------------------------
(* The cache of names. *)

(* An answer under the id of the last query is an answer to that query.      *)
MailInv ==
  /\ current_id \in Nat
  /\ \A p \in mail : p.id \in Nat /\ p.id <= current_id
  /\ ~resolving => \A p \in mail : p.id = current_id => p.name = last_query_name

CacheInv ==
  /\ MailInv
  /\ CacheSound
  /\ DOMAIN dns_cache = Slots /\ DOMAIN dns_cache_ip = Slots /\ round \in Slots

(* The slot of a name that is cached. *)
LEMMA SlotChosen ==
  ASSUME NEW n, Hits(n) # {}
  PROVE  (CHOOSE i \in Hits(n) : \A j \in Hits(n) : i <= j) \in Slots
  <1>1. Hits(n) \in SUBSET Nat
    BY DnsAssumption DEF Hits, Slots
  <1>2. \E i \in Hits(n) : \A j \in Hits(n) : i <= j
    BY <1>1, LeastElement
  <1>3. QED
    BY <1>2 DEF Hits

(* cache_put() of a name with its own address keeps the cache right. *)
LEMMA PutKept ==
  ASSUME CacheInv, NEW n, CachePut(n, n)
  PROVE  /\ CacheSound'
         /\ DOMAIN dns_cache' = Slots /\ DOMAIN dns_cache_ip' = Slots /\ round' \in Slots
  <1> DEFINE slot == IF Hits(n) # {} THEN CHOOSE i \in Hits(n) : \A j \in Hits(n) : i <= j ELSE round
  <1>1. /\ dns_cache' = [dns_cache EXCEPT ![slot] = n]
        /\ dns_cache_ip' = [dns_cache_ip EXCEPT ![slot] = n]
        /\ round' = IF Hits(n) # {} THEN round ELSE (round + 1) % CacheSize
    BY DEF CachePut
  <1>2. slot \in Slots
    BY SlotChosen DEF CacheInv
  <1> HIDE DEF slot
  <1>3. round' \in Slots
    BY <1>1, NextSlot, DnsAssumption DEF CacheInv, Slots
  <1>4. CacheSound'
    BY <1>1, <1>2 DEF CacheInv, CacheSound
  <1>5. QED
    BY <1>1, <1>3, <1>4 DEF CacheInv

(* What Ipv4Send() puts on the wire. *)
LEMMA SendMail ==
  ASSUME NEW q, Ipv4Send(q)
  PROVE  mail' \subseteq mail \cup {q}
  BY DEF Ipv4Send

(* Every step of the resolver, its servers and the wire keeps it right. *)
LEMMA DnsStep_CacheInv ==
  ASSUME DnsPreempt = {}, CacheInv, DnsStep
  PROVE  CacheInv'
  <1> USE DEF Slots
  <1>1. ASSUME NEW n \in Names, ResolveHit(n)
        PROVE  CacheInv'
    BY <1>1 DEF ResolveHit, CacheInv, MailInv, CacheSound
  <1>2. ASSUME NEW n \in Names, ResolveName(n)
        PROVE  CacheInv'
    BY <1>2 DEF ResolveName, CacheInv, MailInv, CacheSound
  <1>3. CASE ResolveSend
    <2>1. mail' \subseteq mail \cup {Query(Primary, current_id + 1, last_query_name)}
      BY <1>3, SendMail DEF ResolveSend
    <2>2. current_id' = current_id + 1 /\ last_query_name' = last_query_name
      BY <1>3 DEF ResolveSend
    <2>3. MailInv'
      BY <2>1, <2>2 DEF CacheInv, MailInv, Query
    <2>4. QED
      BY <1>3, <2>3 DEF ResolveSend, CacheInv, CacheSound
  <1>4. CASE DnsTick
    <2>1. mail' \subseteq mail \cup {Query(Target, current_id, last_query_name)}
      BY <1>4, SendMail DEF DnsTick
    <2>2. current_id' = current_id /\ last_query_name' = last_query_name /\ resolving' = resolving
      BY <1>4 DEF DnsTick
    <2>3. MailInv'
      BY <2>1, <2>2 DEF CacheInv, MailInv, Query
    <2>4. QED
      BY <1>4, <2>3 DEF DnsTick, CacheInv, CacheSound
  <1>5. ASSUME NEW i \in Slots, CacheAge(i)
        PROVE  CacheInv'
    BY <1>5 DEF CacheAge, CacheInv, MailInv, CacheSound
  <1>6. ASSUME NEW a \in mail, DnsOnPacket(a)
        PROVE  CacheInv'
    <2>1. ~resolving /\ mail' \subseteq mail
      BY <1>6 DEF DnsOnPacket
    <2>2. MailInv'
      BY <1>6, <2>1 DEF DnsOnPacket, CacheInv, MailInv
    <2>3. CASE ForUs(a)
      <3>1. CachePut(a.name, a.name)
        BY <1>6, <2>1, <2>3 DEF DnsOnPacket, ForUs, CacheInv, MailInv
      <3>2. QED
        BY <2>2, <3>1, PutKept DEF CacheInv
    <2>4. CASE ~ForUs(a)
      BY <1>6, <2>2, <2>4 DEF DnsOnPacket, CacheInv, CacheSound
    <2>5. QED
      BY <2>3, <2>4
  <1>7. ASSUME NEW q \in mail, ServerAnswers(q)
        PROVE  CacheInv'
    <2>1. \A p \in mail' : \E r \in mail : p.id = r.id /\ p.name = r.name
      BY <1>7 DEF ServerAnswers
    <2>2. MailInv'
      BY <1>7, <2>1 DEF ServerAnswers, CacheInv, MailInv
    <2>3. QED
      BY <1>7, <2>2 DEF ServerAnswers, CacheInv, CacheSound
  <1>8. ASSUME NEW p \in mail, MailLost(p)
        PROVE  CacheInv'
    BY <1>8 DEF MailLost, CacheInv, MailInv, CacheSound
  <1>9. QED
    BY <1>1, <1>2, <1>3, <1>4, <1>5, <1>6, <1>7, <1>8 DEF DnsStep

(* A cached name has the address of that name, whatever the network does to  *)
(* queries and answers, if no answer is handled inside dns_resolve().        *)
THEOREM CachedNamesAreRight == DnsPreempt = {} => (Spec => []CacheSound)
  <1> SUFFICES ASSUME DnsPreempt = {}
               PROVE  Spec => []CacheSound
    OBVIOUS
  <1>1. Init => CacheInv
    BY DnsAssumption DEF Init, CacheInv, MailInv, CacheSound, Slots
  <1>2. CacheInv /\ [Next]_vars => CacheInv'
    <2>1. CacheInv /\ UNCHANGED dnsVars => CacheInv'
      BY DEF CacheInv, MailInv, CacheSound, dnsVars, Slots
    <2>2. ASSUME CacheInv, NEW i \in ArpSlots, ArpAge(i)
          PROVE  CacheInv'
      BY <2>2 DEF ArpAge, CacheInv, MailInv, CacheSound, Slots
    <2>3. [Next]_vars => DnsStep \/ UNCHANGED dnsVars \/ \E i \in ArpSlots : ArpAge(i)
      BY DEF Next, vars, ArpStep
    <2>4. QED
      BY <2>1, <2>2, <2>3, DnsStep_CacheInv
  <1>3. CacheInv => CacheSound
    BY DEF CacheInv
  <1>4. QED
    BY <1>1, <1>2, <1>3, PTL DEF Spec
=============================================================================
