-------------------------------- MODULE Dhcp ---------------------------------
(***************************************************************************)
(* kernel/drivers/net/dhcp.c: the client, and the servers it talks to.     *)
(* The four messages are broadcast.  A server has one address for us, and  *)
(* puts its own network mask, router and name servers in every OFFER and   *)
(* ACK: config is the server whose options were parsed last, and an        *)
(* address is the server that gives it out.  Every message has the same    *)
(* our_xid, so nothing tells a late answer from a timely one.              *)
(***************************************************************************)
EXTENDS Arp

CONSTANTS
  DhcpServers,
  DhcpRetries,    (* DHCP_MAX_RETRIES                                         *)
  DhcpPreempt     (* {}, or {"tick"}: an answer within dhcp_tick()            *)

ASSUME DhcpAssumption ==
  DhcpRetries \in Nat /\ DhcpPreempt \subseteq {"tick"}

VARIABLES
  state, offered_ip, server_id, config, local_ip, dhcp_retries,
  giving_up,      (* dhcp_tick() has found the retries used up             *)
  letters,        (* messages in transit                                   *)
  leases          (* servers that have given us their address              *)

dhcpVars == <<state, offered_ip, server_id, config, local_ip, dhcp_retries,
              giving_up, letters, leases>>

None == "none"
Unbound == {"DISCOVERING", "REQUESTING"}
Letter(type, ip, sid) == [type |-> type, ip |-> ip, sid |-> sid]

DhcpInit ==
  /\ state = "INIT" /\ dhcp_retries = 0 /\ giving_up = FALSE
  /\ offered_ip = None /\ server_id = None /\ config = None /\ local_ip = None
  /\ letters = {} /\ leases = {}

(* dhcp_start(), at boot, before interrupts are on. *)
DhcpStart ==
  /\ state = "INIT"
  /\ state' = "DISCOVERING"
  /\ letters' = letters \cup {Letter("DISCOVER", None, None)}
  /\ UNCHANGED <<offered_ip, server_id, config, local_ip, dhcp_retries, giving_up, leases>>

(* Mutant: whatever a server sends after our REQUEST is the ACK. *)
BoundByAny(l) == state = "REQUESTING" /\ l.type # "NAK"
BoundBy(l) == state = "REQUESTING" /\ l.type = "ACK"

(* Mutant: the state is not looked at. *)
RefusedInAnyState(l) == l.type = "NAK"
RefusedBy(l) == state = "REQUESTING" /\ l.type = "NAK"

OfferedBy(l) == state = "DISCOVERING" /\ l.type = "OFFER"

(* on_packet() of an answer: the options first, whatever the message is.     *)
(* When bound the client announces its address by an ARP request for it.     *)
DhcpOnPacket(l) ==
  /\ l \in letters /\ l.type \in {"OFFER", "ACK", "NAK"}
  /\ "tick" \in DhcpPreempt \/ ~giving_up
  /\ server_id' = l.sid
  /\ config' = IF l.type = "NAK" THEN config ELSE l.sid
  /\ letters' = (letters \ {l}) \cup
                  (IF OfferedBy(l) THEN {Letter("REQUEST", l.ip, l.sid)} ELSE {})
  /\ offered_ip' = IF OfferedBy(l) THEN l.ip ELSE offered_ip
  /\ dhcp_retries' = IF OfferedBy(l) THEN 0 ELSE dhcp_retries
  /\ local_ip' = IF BoundBy(l) THEN l.ip ELSE local_ip
  /\ state' = CASE OfferedBy(l) -> "REQUESTING"
                [] ~OfferedBy(l) /\ BoundBy(l) -> "BOUND"
                [] ~OfferedBy(l) /\ ~BoundBy(l) /\ RefusedBy(l) -> "FAILED"
                [] OTHER -> state
  /\ IF BoundBy(l) THEN SendRequest(l.ip) ELSE UNCHANGED <<limited, asking>>
  /\ UNCHANGED <<giving_up, leases, arp, cache_next>>

(* Mutant: a retransmission does not count. *)
RetryCountedNot == dhcp_retries
RetryCounted == dhcp_retries + 1

(* dhcp_tick(), when DHCP_RETRY_TICKS have passed: the message again, as the *)
(* variables are now, or the end.                                            *)
DhcpTick ==
  /\ state \in Unbound /\ ~giving_up
  /\ IF dhcp_retries >= DhcpRetries
     THEN giving_up' = TRUE /\ UNCHANGED <<dhcp_retries, letters>>
     ELSE /\ letters' = letters \cup
               (IF state = "DISCOVERING" THEN {Letter("DISCOVER", None, None)}
                ELSE {Letter("REQUEST", offered_ip, server_id)})
          /\ dhcp_retries' = RetryCounted
          /\ UNCHANGED giving_up
  /\ UNCHANGED <<state, offered_ip, server_id, config, local_ip, leases>>

DhcpGiveUp ==
  /\ giving_up
  /\ giving_up' = FALSE /\ state' = "FAILED"
  /\ UNCHANGED <<offered_ip, server_id, config, local_ip, dhcp_retries, letters, leases>>

(* The servers.  A REQUEST is for the one it names. *)
ServerOffers(s) ==
  /\ Letter("DISCOVER", None, None) \in letters
  /\ letters' = letters \cup {Letter("OFFER", s, s)}
  /\ UNCHANGED <<state, offered_ip, server_id, config, local_ip, dhcp_retries, giving_up, leases>>

ServerDecides(l) ==
  /\ l \in letters /\ l.type = "REQUEST"
  /\ \/ l.ip = l.sid /\ leases' = leases \cup {l.sid}
        /\ letters' = (letters \ {l}) \cup {Letter("ACK", l.ip, l.sid)}
     \/ l.sid \notin leases /\ UNCHANGED leases
        /\ letters' = (letters \ {l}) \cup {Letter("NAK", None, l.sid)}
  /\ UNCHANGED <<state, offered_ip, server_id, config, local_ip, dhcp_retries, giving_up>>

(* Lost, or had by all it is for. *)
LetterGone(l) ==
  /\ l \in letters
  /\ letters' = letters \ {l}
  /\ UNCHANGED <<state, offered_ip, server_id, config, local_ip, dhcp_retries, giving_up, leases>>

DhcpOnly ==
  \/ DhcpStart \/ DhcpTick \/ DhcpGiveUp
  \/ \E s \in DhcpServers : ServerOffers(s)
  \/ \E l \in letters : ServerDecides(l) \/ LetterGone(l)
DhcpStep ==
  \/ DhcpOnly /\ UNCHANGED arpVars
  \/ \E l \in letters : DhcpOnPacket(l)

-----------------------------------------------------------------------------
(* Properties. *)

(* An address is used only if its server has given it to us: an OFFER is not *)
(* yet a lease, and offers and answers may come late and several times.      *)
LeaseGranted == state = "BOUND" => local_ip \in leases

(* A lease outlives every late answer and every timer. *)
BoundStays == [][state = "BOUND" => state' = "BOUND"]_dhcpVars

(* Programs that wait for a lease are told yes or no in the end. *)
Settles == state \in Unbound ~> state \in {"BOUND", "FAILED"}

(* A REQUEST asks the server it names for the address that server offered. *)
RequestNamesOffer == \A l \in letters : l.type = "REQUEST" => l.ip = l.sid

(* Mask, router and name servers are those of the lease. *)
ConfigOfLease == state = "BOUND" => config = local_ip
=============================================================================
