--------------------------- MODULE MCBalticaServer ---------------------------
(* Two clients, told apart only by their keys.                             *)
EXTENDS BalticaServer, TLC

CONSTANTS k1, k2

MCKey == {k1, k2}
===============================================================================
