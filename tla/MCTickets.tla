------------------------------ MODULE MCTickets ------------------------------
(* Two routers.  a writes to b with a ticket, twice, and b answers.          *)
EXTENDS Tickets, TLC

CONSTANTS a, b, a1, a2, b1, t1, t2

Nodes == {a, b}
Messages == {a1, a2, b1}
Author == a1 :> a @@ a2 :> a @@ b1 :> b
Reader == a1 :> b @@ a2 :> b @@ b1 :> a
Tickets2 == {t1, t2}
(* The kinds of behaviours.                                                  *)
Kind(ms, c, r, d) == [messages |-> ms, calls |-> c, restarts |-> r, days |-> d]
Kinds == {Kind({a1, a2, b1}, 0, 1, 2), Kind({a1, b1}, 1, 1, 2),
          Kind({a1, a2}, 1, 1, 2), Kind({a1}, 2, 0, 1), Kind({a1, b1}, 2, 0, 0)}
Sym == Permutations(Tickets2)
=============================================================================
