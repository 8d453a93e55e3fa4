SPECIFICATION FairSpec
CONSTANTS
  Peers = {"ns1", "gw"}
  Mute = {"ns1"}
  ArpSize = 2
  DhcpServers = {"s1"}
  DhcpRetries = 2
  DhcpPreempt = {}
  Names = {"x", "y"}
  NameServers <- BothServers
  Gateway = "gw"
  Down = {"ns1"}
  DnsRetries = 3
  CacheSize = 1
  MaxQueries = 2
  LateLetters = FALSE
  DnsPreempt = {}
INVARIANTS
  OneSlotEach
  LeaseGranted
  CacheSound
PROPERTIES
  BoundStays
  Settles
  
CHECK_DEADLOCK FALSE
