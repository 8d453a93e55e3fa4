------------------------------- MODULE MCTcp --------------------------------
(***************************************************************************)
(* Model-checking instances of Tcp: one client and one server.             *)
(***************************************************************************)
EXTENDS Tcp

OneEach     == [h \in Hosts |-> 1]
ServerTwice == [h \in Hosts |-> IF h \in Servers THEN 2 ELSE 1]
=============================================================================
