-------------------------------- MODULE MCAuth --------------------------------
(* Two users: with one cache file for both of them, in the flows that write *)
(* differently to it, and with a file each.                                *)
EXTENDS Auth, TLC

CONSTANTS u1, u2, own, other

MCUser == {u1, u2}

Two(f1, l1, f2, l2) == [flow |-> u1 :> f1 @@ u2 :> f2, label |-> u1 :> l1 @@ u2 :> l2]

MCCase ==
  {Two("deviceCode", own, "deviceCode", own), Two("password", own, "deviceCode", own),
   Two("password", own, "password", other), Two("deviceCode", own, "xboxToken", other)}
===============================================================================
