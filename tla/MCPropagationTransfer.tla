---------------------- MODULE MCPropagationTransfer ----------------------
\* Instances of PropagationTransfer for TLC.
EXTENDS PropagationTransfer

CONSTANTS n1, i1, l1
OneNode == {n1}
OneIdentity == {i1}
OneLink == {l1}
NoLinks == {}
=============================================================================
