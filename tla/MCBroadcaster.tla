--------------------------- MODULE MCBroadcaster ---------------------------
(* Instances of Broadcaster for TLC. *)
EXTENDS Broadcaster, TLC

CONSTANTS w1, w2, sDirect, sRelay, sLog, eCluster, eLog, none

MCWriter == {w1, w2}
MCSub == {sDirect, sRelay, sLog}
MCStay == {sDirect, sRelay}
MCEvent == {eCluster, eLog}
MCKind == [s \in Sub |-> CASE s = sDirect -> "direct"
                           [] s = sRelay  -> "relay"
                           [] OTHER       -> "log"]
MCFits == [s \in Sub |-> IF s = sLog THEN {eLog} ELSE {eCluster}]
MCEnds == {eLog}
============================================================================
