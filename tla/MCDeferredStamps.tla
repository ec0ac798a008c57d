------------------------- MODULE MCDeferredStamps -------------------------
\* Instances of DeferredStamps for TLC.
EXTENDS DeferredStamps, TLC

CONSTANTS m1, m2, m3
TwoMsgs == {m1, m2}
ThreeMsgs == {m1, m2, m3}
Symm == Permutations(ThreeMsgs)
=============================================================================
