----------------------------- MODULE MCResource -----------------------------
(***************************************************************************)
(* Small instances of Resource: a message of two parts sent once, a        *)
(* message of one part sent twice, a request in one packet whose response  *)
(* is a resource, and a request as a resource answered in one packet.      *)
(***************************************************************************)
EXTENDS Resource

CONSTANTS m1, m2, q1, q2

Messages == {m1, m2}
Requests == {q1, q2}
OnePacket == {Asking(q1), Answering(q2)}

PartCount == [r \in Res |-> IF r.id = m1 THEN 2 ELSE 1]

\* Only payload x is sent, n times.
Sends(x, n) == [r \in Res |-> IF r.id = x THEN n ELSE 0]
EachAlone == {Sends(m1, 1), Sends(m2, 2), Sends(q1, 1), Sends(q2, 1)}
=============================================================================
