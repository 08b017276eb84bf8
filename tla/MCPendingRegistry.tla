-------------------------- MODULE MCPendingRegistry --------------------------
EXTENDS PendingRegistry, TLC

CONSTANTS w1, w2, w3, i1, i2, i3

\* A provider that numbers its tool calls per response: w1 and w2 both use i1,
\* while w3's id is its own.
MCShared == w1 :> {i1} @@ w2 :> {i1, i2} @@ w3 :> {i3}
=============================================================================
