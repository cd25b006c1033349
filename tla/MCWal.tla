--------------------------------- MODULE MCWal ---------------------------------
(* Two processes that use one store in turn. *)
EXTENDS Wal

CONSTANTS p1, p2

===============================================================================
