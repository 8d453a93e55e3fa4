---------------------------- MODULE MCProcTable -----------------------------
(***************************************************************************)
(* Model-checking instances of ProcTable.                                  *)
(***************************************************************************)
EXTENDS ProcTable

(* Two priorities, the default the worse one. *)
TwoPrios == {15, 16}
=============================================================================
