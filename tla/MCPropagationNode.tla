-------------------------- MODULE MCPropagationNode --------------------------
(* A small propagation node for TLC.                                         *)
EXTENDS PropagationNode, TLC
CONSTANTS i1, i2, i3, p1, p2, p3

Ids == {i1, i2, i3}
Peers == {p1, p2, p3}
Sizes == (i1 :> 1) @@ (i2 :> 2) @@ (i3 :> 1)

(* The operator named p1; p2 takes nothing, p3 takes what it is offered and  *)
(* has, in one table, never been heard of.                                   *)
Known(offered, outgoing) ==
    [NewPeer EXCEPT !.heard = Start, !.tried = TRUE, !.offered = offered, !.outgoing = outgoing]
Unheard == [NewPeer EXCEPT !.tried = TRUE]
Single == p2 :> Known(1, 0)
Pair == (p1 :> Known(1, 0)) @@ (p2 :> Known(1, 0))
Three == {Pair @@ (p3 :> Known(1, 1)), Pair @@ (p3 :> Unheard)}

(* Two messages come and go, or one and one without a good stamp; one is     *)
(* distributed to two quiet peers, or to one that is at work; or the peers   *)
(* of a full table are at work alone.                                        *)
Bounds ==
    {[ids |-> {i1, i2}, dist |-> 0, calls |-> 0, restarts |-> 1, until |-> 4, table |-> <<>>],
     [ids |-> {i1, i3}, dist |-> 0, calls |-> 0, restarts |-> 1, until |-> 3, table |-> <<>>],
     [ids |-> {i1}, dist |-> 1, calls |-> 0, restarts |-> 1, until |-> 2, table |-> Pair],
     [ids |-> {i1}, dist |-> 1, calls |-> 1, restarts |-> 0, until |-> 2, table |-> Single]}
    \cup
    {[ids |-> {},   dist |-> 0, calls |-> 2, restarts |-> 1, until |-> 4, table |-> t] : t \in Three}
OneStatic == {p1}
Nobody == {}
=============================================================================
