----------------------------- MODULE MCPeerSync -----------------------------
(* Small instances of PeerSync for TLC.                                    *)
EXTENDS PeerSync, TLC
CONSTANTS a, b, x, y

TwoNodes == {a, b}
OneId == {x}
TwoIds == {x, y}
Mesh == {<<a, b>>, <<b, a>>}
AtoB == {<<a, b>>}
Strangers == {}
NoneBad == {}
BadAtB == {<<b, y>>}
Symm == Permutations({a, b})
=============================================================================
