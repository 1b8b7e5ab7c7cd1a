------------------------------ MODULE MCBridge ------------------------------
EXTENDS BridgeMint, TLC

CONSTANTS v1, v2, p, q
MCSigners == {v1, v2}
MCFaulty  == {v2}
MCPayload == {p, q}
MCEvent   == {[ours |-> TRUE, data |-> p], [ours |-> FALSE, data |-> q]}
=============================================================================
