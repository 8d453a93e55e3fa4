-------------------------------- MODULE MCVfs -------------------------------
(***************************************************************************)
(* Model-checking instances of Vfs.                                        *)
(***************************************************************************)
EXTENDS Vfs

OneOrTwo == {<<1>>, <<2, 3>>}
BackOrForth == {-1, 1}

(* What the last calls returned decides nothing. *)
View == <<files, fd_table, opening, live, gen>>
=============================================================================
