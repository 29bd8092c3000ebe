------------------------------ MODULE MCDatagrams ------------------------------
(* Payloads around every boundary of an mtu with room for 60 bytes: two that *)
(* share a datagram, one that fills it, fragments that are full and not.     *)
EXTENDS Datagrams

MCSize == {0, 16, 60, 61, 120}
===============================================================================
