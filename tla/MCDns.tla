-------------------------------- MODULE MCDns -------------------------------
(***************************************************************************)
(* Model-checking instances of Dns, with the DHCP client and the ARP cache *)
(* under it: a first name server on the link and a second behind the       *)
(* router.                                                                 *)
(***************************************************************************)
EXTENDS Dns

BothServers == [s \in DhcpServers |-> <<"ns1", "ns2">>]
=============================================================================
