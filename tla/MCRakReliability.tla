--------------------------- MODULE MCRakReliability ---------------------------
(***************************************************************************)
(* Small instances of RakReliability: a payload that fits one datagram and *)
(* one that is split in two fragments; or two that are split, with the     *)
(* same chunks in another order.                                           *)
(***************************************************************************)
EXTENDS RakReliability

CONSTANTS a, b, c

MCPayload == {<<a>>, <<b, c>>}
MCCompounds == {<<b, c>>, <<c, b>>}
===============================================================================
