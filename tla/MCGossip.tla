------------------------------- MODULE MCGossip -------------------------------
EXTENDS Gossip

CONSTANTS p, q

Pair == {<<p, q>>, <<q, p>>}
=============================================================================
