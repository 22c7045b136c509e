-------------------------- MODULE MCRelayProtocol --------------------------
EXTENDS RelayProtocolProps, TLC

MCThreadOf == [c \in Connectors |-> "thread"]
MCConvOf == [j \in Jobs |-> "chat"]

Symmetry == Permutations(Connectors) \cup Permutations(Turns)
=============================================================================
