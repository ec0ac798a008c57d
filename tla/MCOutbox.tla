------------------------------ MODULE MCOutbox ------------------------------
(* Small instances of Outbox for TLC. Messages are interchangeable.        *)
EXTENDS Outbox, TLC
CONSTANTS m1, m2, m3

MCMsgs == {m1, m2, m3}
MCTwoMsgs == {m1, m2}
MCTimeouts == {1}
MsgSymmetry == Permutations(MCMsgs)
=============================================================================
