------------------------------ MODULE PeerTable ------------------------------
(* The peers a propagation node keeps, in memory and on disk, and the two    *)
(* jobs that choose among them: rotate_peers, which drops the peers that     *)
(* take least of what they are offered, and sync_peers, which picks the next *)
(* peer to synchronise with and drops those not heard of for too long.       *)
(*                                                                           *)
(* The exchange with one peer is PeerSync's subject; here it shows only in   *)
(* the fields these jobs read.  Operators on a table take it as a parameter, *)
(* because one tick runs several jobs on it, one after the other.            *)
EXTENDS Integers, FiniteSets, FiniteSetsExt, Functions

CONSTANTS
    Static,      \* peers the operator named
    MaxPeers,    \* max_peers
    Unreachable, \* MAX_UNREACHABLE
    MaxMessages  \* bound on the two message counters

ASSUME PeerAssumption ==
    /\ IsFiniteSet(Static)
    /\ MaxPeers \in Nat \ {0} /\ Unreachable \in Nat /\ MaxMessages \in Nat

VARIABLES
    peers,       \* id -> Peer record, in memory
    savedPeers   \* id -> Peer record, in the peers directory

peerVars == <<peers, savedPeers>>

\* PeerState; OfferSent stands for AwaitingPayload as well
Idle == "Idle"
OfferSent == "OfferSent"
Backoff == "Backoff"

(* Peer::new.  heard is last_heard_ms (0: never), tried is                   *)
(* last_attempt_ms > 0.                                                      *)
NewPeer == [state |-> Idle, heard |-> 0, tried |-> FALSE,
            offered |-> 0, outgoing |-> 0, unhandled |-> 0]

PeerRecord(Time) ==
    [state : {Idle, OfferSent, Backoff}, heard : {0} \cup Time, tried : BOOLEAN,
     offered : 0 .. MaxMessages, outgoing : 0 .. MaxMessages, unhandled : 0 .. MaxMessages]

Capped(n) == Min({n, MaxMessages})

----------------------------------------------------------------------------
(* What the exchange with a peer leaves in the table                         *)

(* Set a peer's record, creating it if need be (upsert).                     *)
Put(t, p, r) == [q \in DOMAIN t \cup {p} |-> IF q = p THEN r ELSE t[q]]
upsert(t, p) == IF p \in DOMAIN t THEN t[p] ELSE NewPeer

(* peer_sync_offer with n stored messages on offer.                          *)
peer_sync_offer(t, p, n) ==
    Put(t, p, [upsert(t, p) EXCEPT !.state = OfferSent, !.tried = TRUE,
                                   !.offered = Capped(@ + n)])

(* on_offer_response to an answer that lets the exchange go on; any other    *)
(* answer is on_sync_complete or on_failure.                                 *)
on_offer_response(t, p) == Put(t, p, [upsert(t, p) EXCEPT !.state = OfferSent])
mark_heard(t, p, at) == Put(t, p, [upsert(t, p) EXCEPT !.heard = at])

(* handle_peer_sync_message_get: n messages go out to a peer that is known.  *)
served(t, p, n) ==
    IF p \in DOMAIN t THEN Put(t, p, [t[p] EXCEPT !.outgoing = Capped(@ + n)]) ELSE t
on_sync_complete(t, p) == Put(t, p, [upsert(t, p) EXCEPT !.state = Idle, !.tried = TRUE])
on_failure(t, p) == Put(t, p, [upsert(t, p) EXCEPT !.state = Backoff])

(* apply_peer_sync_payload, with n messages whose stamp was not good enough. *)
payload_applied(t, p, n) ==
    LET marked == Put(t, p, [upsert(t, p) EXCEPT !.unhandled = Capped(n)]) IN
    IF n > 0 THEN on_failure(marked, p) ELSE on_sync_complete(marked, p)

----------------------------------------------------------------------------
(* The jobs                                                                  *)

Without(t, S) == Restrict(t, DOMAIN t \ S)

Headroom == Max({1, MaxPeers \div 10})

(* acceptance rates as fractions; a peer offered nothing accepts nothing     *)
Taken(r) == IF r.offered = 0 THEN 0 ELSE r.outgoing
Offered(r) == Max({1, r.offered})
AcceptsLess(r, s) == Taken(r) * Offered(s) < Taken(s) * Offered(r)
LowRate(r) == 2 * Taken(r) < Offered(r)

(* Faulty variant of rotate_peers: any peer may go.                          *)
rotate_peers_any(t, static) ==
    LET drops == Cardinality(DOMAIN t) - Max({0, MaxPeers - Headroom}) IN
    IF drops <= 0 THEN {{}} ELSE {S \in SUBSET DOMAIN t : Cardinality(S) = drops}

(* The peers rotate_peers may drop, as the set of its possible choices:      *)
(* equal rates leave the order to the table's.                               *)
rotate_peers(t, static) ==
    LET count == Cardinality(DOMAIN t)
        drops == count - Max({0, MaxPeers - Headroom})
        untested == {p \in DOMAIN t : ~t[p].tried}
        synced == {p \in DOMAIN t : t[p].unhandled = 0}
        pool == {p \in IF synced # {} THEN synced ELSE DOMAIN t :
                    p \notin static /\ t[p].state = Idle}
        waiting == {p \in pool : t[p].heard > 0 /\ t[p].offered > 0}
        unresponsive == {p \in pool : t[p].heard = 0}
        dropPool == unresponsive \cup waiting IN
    IF drops <= 0 \/ count - drops <= 1 \/ Cardinality(untested) >= Headroom THEN {{}}
    ELSE {{p \in S : LowRate(t[p])} :
             S \in {S \in SUBSET dropPool :
                       /\ Cardinality(S) = Min({drops, Cardinality(dropPool)})
                       /\ \A p \in S, q \in dropPool \ S : ~AcceptsLess(t[q], t[p])}}

(* sync_peers: the peers it drops, and those among which it picks.  is_alive *)
(* is "not in Backoff", so no Idle peer is ever unresponsive.  Transfer      *)
(* rates are the application's to set: any waiting peer may be the one.      *)
Culled(t, static, at) == {p \in DOMAIN t \ static : at > t[p].heard + Unreachable}
Waiting(t, at, queued) ==
    {p \in DOMAIN t : at <= t[p].heard + Unreachable /\ t[p].state = Idle /\ p \in queued}

----------------------------------------------------------------------------
(* Disk                                                                      *)

(* unpeer of some peers of a table: out of it, and their files with them.    *)
unpeer(t, S) ==
    /\ peers' = Without(t, S)
    /\ savedPeers' = Without(savedPeers, S \cap DOMAIN t)

save_peers ==
    /\ savedPeers' = [p \in DOMAIN peers \cup DOMAIN savedPeers |->
                         IF p \in DOMAIN peers THEN peers[p] ELSE savedPeers[p]]
    /\ UNCHANGED peers

load_peers == peers' = savedPeers /\ UNCHANGED savedPeers
=============================================================================
