---------------------------- MODULE MCBridgeRouting ----------------------------
(* Small instances of BridgeRouting for TLC. *)
EXTENDS BridgeRouting

MCKinds == [player |-> {"game", "disconnect", "unknown"},
            backend |-> {"login", "status", "game", "disconnect"}]
MCMaxPackets == [player |-> 2, backend |-> 3]
===============================================================================
