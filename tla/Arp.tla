--------------------------------- MODULE Arp ---------------------------------
(***************************************************************************)
(* kernel/drivers/net/arp.c: the cache of link addresses, and the requests *)
(* that fill it.  A slot is free, or has an address that is fresh or older *)
(* than ARP_ENTRY_TTL; a peer's link address is the peer.                  *)
(***************************************************************************)
EXTENDS Naturals, FiniteSets

CONSTANTS
  Peers,        (* addresses on the link                     *)
  Mute,         (* those that do not answer: they are down   *)
  ArpSize       (* ARP_CACHE_SIZE                            *)

ASSUME ArpAssumption == Mute \subseteq Peers /\ ArpSize \in Nat \ {0}

VARIABLES
  arp,          (* slot |-> [ip, valid, fresh]                       *)
  cache_next,   (* slot that is replaced next                        *)
  limited,      (* less than 10 ticks since the last request?        *)
  asking        (* requests and replies in transit: [op, ip]         *)

arpVars == <<arp, cache_next, limited, asking>>

ArpSlots == 0 .. ArpSize - 1
NoPeer == "none"
Nobody == [ip |-> NoPeer, valid |-> FALSE, fresh |-> FALSE]
Knows(i, ip) == arp[i].valid /\ arp[i].ip = ip

(* arp_lookup(): the first slot of that address decides. *)
First(ip) == {i \in ArpSlots : Knows(i, ip) /\ \A j \in ArpSlots : Knows(j, ip) => i <= j}
Resolved(ip) == \E i \in First(ip) : arp[i].fresh
Expired(ip) == [i \in ArpSlots |-> IF i \in First(ip) /\ ~arp[i].fresh THEN Nobody ELSE arp[i]]

(* arp_send_request(): one in 10 ticks, whatever it asks for. *)
SendRequest(ip) ==
  IF limited THEN UNCHANGED <<limited, asking>>
  ELSE limited' = TRUE /\ asking' = asking \cup {[op |-> "request", ip |-> ip]}

Entry(ip) == [ip |-> ip, valid |-> TRUE, fresh |-> TRUE]

(* Mutant: the table is not searched for the address. *)
CacheInsertNew(ip) ==
  LET free == {i \in ArpSlots : ~arp[i].valid}
      slot == IF free = {} THEN cache_next ELSE CHOOSE i \in free : \A j \in free : i <= j
  IN /\ arp' = [arp EXCEPT ![slot] = Entry(ip)]
     /\ cache_next' = IF free = {} THEN (cache_next + 1) % ArpSize ELSE cache_next

(* cache_insert(): in place, else the first free slot, else round robin. *)
CacheInsert(ip) ==
  LET free == {i \in ArpSlots : ~arp[i].valid}
      mine == First(ip)
      slot == CASE mine # {} -> CHOOSE i \in mine : TRUE
                [] mine = {} /\ free # {} -> CHOOSE i \in free : \A j \in free : i <= j
                [] OTHER -> cache_next
  IN /\ arp' = [arp EXCEPT ![slot] = Entry(ip)]
     /\ cache_next' = IF mine = {} /\ free = {} THEN (cache_next + 1) % ArpSize ELSE cache_next

(* arp_handle() of a packet of a peer: whatever it says, it shows its sender. *)
ArpHandle(a) ==
  /\ a \in asking /\ a.op = "reply"
  /\ asking' = asking \ {a}
  /\ CacheInsert(a.ip)
  /\ UNCHANGED limited

(* The link: a request is answered by the peer it asks for, if that is up,   *)
(* and peers speak of their own accord.                                      *)
Answered(a) == a \in asking /\ a.op = "request" /\ asking' = (asking \ {a}) \cup
  (IF a.ip \in Peers \ Mute THEN {[op |-> "reply", ip |-> a.ip]} ELSE {})
PeerAnswers(a) == Answered(a) /\ UNCHANGED <<arp, cache_next, limited>>

PeerSpeaks(ip) ==
  /\ ip \in Peers \ Mute
  /\ asking' = asking \cup {[op |-> "reply", ip |-> ip]}
  /\ UNCHANGED <<arp, cache_next, limited>>

(* Time passes. *)
Age(i) ==
  /\ arp[i].fresh
  /\ arp' = [arp EXCEPT ![i].fresh = FALSE]
  /\ UNCHANGED <<cache_next, limited, asking>>

LimitOver == limited /\ limited' = FALSE /\ UNCHANGED <<arp, cache_next, asking>>
ArpInit ==
  /\ arp = [i \in ArpSlots |-> Nobody] /\ cache_next = 0
  /\ limited = FALSE /\ asking = {}

(* No address has two slots: the first would hide what the second learns.    *)
OneSlotEach ==
  \A i, j \in ArpSlots : arp[i].valid /\ arp[j].valid /\ arp[i].ip = arp[j].ip => i = j
=============================================================================
