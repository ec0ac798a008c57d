--------------------------- MODULE PeerSyncProofs ---------------------------
(***************************************************************************)
(* Proofs about PeerSync, for any number of nodes, messages and packets,   *)
(* any loss, duplication and reordering, and any number of restarts.       *)
(*                                                                         *)
(* The invariant is PeerSyncInv. AckHonest is what makes removal on an     *)
(* acknowledgement safe; it needs HeldIsTaken, because an id that is only  *)
(* remembered (locally_processed) is acknowledged without being stored     *)
(* again. TimelyInv adds the bound on waits, for the table in memory and   *)
(* the saved one, from which a restart takes them.                         *)
(***************************************************************************)
EXTENDS PeerSync, FiniteSetTheorems, TLAPS

\* The default at a leaf that names no other prover.
USE ZenonT(60)

-----------------------------------------------------------------------------
\* The parts of TypeOK that say nothing of the tables' entries, so that a step
\* can use them without expanding the rest.
LEMMA FlatTypes ==
  ASSUME PeerSyncInv
  PROVE  /\ store \in [Node -> SUBSET Ids]
         /\ last_pn \in [Node -> Nat]
         /\ now \in Nat
         /\ restarts \in Nat
         /\ DOMAIN peer = Node /\ DOMAIN saved = Node /\ DOMAIN queue = Node
         /\ DOMAIN pending = Node /\ DOMAIN requests = Node
  BY DEF PeerSyncInv, TypeOK

\* What is on the network is well formed.
LEMMA PacketTypes ==
  ASSUME PeerSyncInv
  PROVE  /\ \A q \in reqs : q.from \in Node /\ q.rid \in Rid(q.from)
         /\ \A r \in resps : r.to \in Node /\ r.rid \in Rid(r.to) /\ r.resp \in Response
  BY DEF PeerSyncInv, TypeOK

\* A packet that was just sent, or was there before.
LEMMA Sent ==
  ASSUME NEW old, NEW rids, NEW n,
         NEW q \in old \cup {[from |-> n, rid |-> rid] : rid \in rids}
  PROVE  q \in old \/ (q.from = n /\ q.rid \in rids)
  BY SMTT(60)

-----------------------------------------------------------------------------
(* The peer table.                                                         *)

\* A peer sent into backoff.
LEMMA BackoffType ==
  ASSUME NEW e \in Peer, NEW b \in Nat, NEW until \in Nat
  PROVE  [e EXCEPT !.state = "Backoff", !.backoff = b, !.next = until] \in Peer
  BY DEF Peer, Busy

\* Every transition of a peer entry yields a peer entry.
LEMMA EntryType ==
  ASSUME now \in Nat, NEW e \in Peer, NEW times \in Nat
  PROVE  /\ new_peer \in Peer
         /\ on_offer_sent(e) \in Peer
         /\ on_sync_complete(e) \in Peer
         /\ on_failure(e, times) \in Peer
         /\ throttle(e) \in Peer
<1>1. new_peer \in Peer /\ on_sync_complete(e) \in Peer
  BY DEF new_peer, on_sync_complete, Peer
<1>2. on_offer_sent(e) \in Peer
  BY DEF on_offer_sent, Peer, Busy
<1>3. on_failure(e, times) \in Peer
  <2> DEFINE backoff == Least(e.backoff + times * BackoffStep, BackoffMax)
  <2>1. BackoffStep \in Nat /\ BackoffMax \in Nat /\ e.backoff \in Nat
    BY TimesAssumption DEF Peer
  <2>4. times * BackoffStep \in Nat
    BY SMTT(60), <2>1
  <2>2. backoff \in Nat
    BY SMTT(60), <2>1, <2>4 DEF Least
  <2> HIDE DEF backoff
  <2>3. [e EXCEPT !.state = "Backoff", !.backoff = backoff, !.next = now + backoff] \in Peer
    <3>1. now + backoff \in Nat
      BY SMTT(60), <2>2
    <3> QED
      BY <2>2, <3>1, BackoffType
  <2> QED
    BY <2>3 DEF on_failure, backoff
<1>4. throttle(e) \in Peer
  <2>1. ThrottleTime \in Nat /\ now + ThrottleTime \in Nat
    BY SMTT(60), TimesAssumption
  <2> QED
    BY <2>1, BackoffType DEF throttle
<1> QED
  BY <1>1, <1>2, <1>3, <1>4

\* What an answer to an offer does to the entry.
LEMMA OfferResponseType ==
  ASSUME now \in Nat, NEW e \in Peer, NEW resp \in Response
  PROVE  on_offer_response(e, resp) \in Peer
<1>1. [e EXCEPT !.state = "AwaitingPayload"] \in Peer
  BY DEF Peer, Busy
<1>2. on_sync_complete(e) \in Peer /\ on_failure(e, 1) \in Peer
  BY EntryType
<1> QED
  BY <1>1, <1>2 DEF on_offer_response, Response

\* Looking a peer up, or entering it, keeps the table well formed.
LEMMA TableType ==
  ASSUME now \in Nat, NEW n \in Node, NEW table, TableOK(n, table)
  PROVE  /\ \A p : upsert(table, p) \in Peer
         /\ \A p \in Node \ {n} : \A e \in Peer : TableOK(n, set(table, p, e))
         /\ \A S : TableOK(n, Restrict(table, DOMAIN table \ S))
<1>1. new_peer \in Peer
  BY DEF new_peer, Peer
<1>2. \A p : upsert(table, p) \in Peer
  BY <1>1 DEF upsert, TableOK
<1>3. ASSUME NEW p \in Node \ {n}, NEW e \in Peer
      PROVE  TableOK(n, set(table, p, e))
  BY DEF TableOK, set
<1>4. \A S : TableOK(n, Restrict(table, DOMAIN table \ S))
  BY DEF TableOK, Restrict
<1> QED
  BY <1>2, <1>3, <1>4

-----------------------------------------------------------------------------
(* Requests.                                                               *)

\* Building requests out of finitely many (peer, request) pairs of a node
\* gives finitely many requests of that node.
LEMMA BuildType ==
  ASSUME NEW n \in Node, now \in Nat, NEW pairs,
         pairs \subseteq (Node \ {n}) \X Request, IsFiniteSet(pairs)
  PROVE  /\ build_requests(pairs) \subseteq Rid(n)
         /\ IsFiniteSet(build_requests(pairs))
<1> DEFINE f == [q \in pairs |-> [to |-> q[1], at |-> now, req |-> q[2]]]
<1>1. build_requests(pairs) \subseteq Rid(n)
  BY SMTT(60) DEF build_requests, Rid
<1>2. f \in Surjection(pairs, build_requests(pairs))
  BY DEF build_requests, Surjection
<1>3. IsFiniteSet(build_requests(pairs))
  BY <1>2, FS_Surjection
<1> QED
  BY <1>1, <1>3

\* The requests the code makes are requests.
LEMMA RequestType ==
  ASSUME NEW S \in SUBSET Ids, NEW T \in SUBSET Ids, NEW n \in Node, NEW p \in Node
  PROVE  /\ Offer(peering_key_for_peer(n, p), S) \in Request
         /\ MessageGet(S, T) \in Request
         /\ MessageAck(S) \in Request
<1>1. Least(TargetCost, KeyCostCap) \in Nat
  BY TimesAssumption DEF Least
<1>2. NoKey \in Key /\ peering_key_for_peer(n, p) \in Key
  BY <1>1 DEF Key, peering_key_for_peer
<1> QED
  BY <1>2 DEF Offer, MessageGet, MessageAck, Request

\* The answers the code gives are responses, and decoding keeps them so.
LEMMA ResponseType ==
  /\ Error \in Response
  /\ \A flag \in BOOLEAN : Bool(flag) \in Response
  /\ \A S \in SUBSET Ids : IdList(S) \in Response /\ Payload(S) \in Response
  /\ \A resp \in Response : decode_peer_sync_response(resp) \in Response
  BY DEF Error, Bool, IdList, Payload, Response, decode_peer_sync_response

-----------------------------------------------------------------------------
(* The frame: a step of node n leaves the tables of the others alone.      *)

\* Nothing but n's tables changes, and they are well formed afterwards.
LEMMA NodeStep ==
  ASSUME PeerSyncInv, NEW n \in Node,
         DOMAIN peer' = Node, DOMAIN saved' = Node, DOMAIN queue' = Node,
         DOMAIN pending' = Node, DOMAIN requests' = Node,
         \A k \in Node \ {n} : /\ peer'[k] = peer[k] /\ saved'[k] = saved[k]
                               /\ queue'[k] = queue[k]
                               /\ pending'[k] = pending[k]
                               /\ requests'[k] = requests[k],
         NodeOK(n)', pending'[n] \subseteq requests'[n]
  PROVE  /\ \A k \in Node : NodeOK(k)'
         /\ PendingHasTimer'
<1>1. ASSUME NEW k \in Node \ {n} PROVE NodeOK(k)' /\ pending'[k] \subseteq requests'[k]
  <2>1. NodeOK(k) /\ pending[k] \subseteq requests[k]
    BY DEF PeerSyncInv, TypeOK, PendingHasTimer
  <2> QED
    BY <2>1 DEF NodeOK, TableOK
<1> QED
  BY <1>1 DEF PendingHasTimer

\* Facts about one node that every action starts from.
LEMMA NodeFacts ==
  ASSUME PeerSyncInv, NEW n \in Node
  PROVE  /\ TableOK(n, peer[n]) /\ TableOK(n, saved[n])
         /\ queue[n] \subseteq (Node \ {n}) \X Request /\ IsFiniteSet(queue[n])
         /\ \A q \in queue[n] : q[2].type # "MessageAck"
         /\ pending[n] \subseteq Rid(n) /\ requests[n] \subseteq Rid(n)
         /\ IsFiniteSet(requests[n])
         /\ pending[n] \subseteq requests[n]
         /\ store[n] \subseteq Ids
         /\ now \in Nat
  BY DEF PeerSyncInv, TypeOK, NodeOK, PendingHasTimer

\* A step that leaves all tables alone.
LEMMA TablesSame ==
  ASSUME PeerSyncInv, UNCHANGED <<peer, saved, queue, pending, requests>>
  PROVE  (\A k \in Node : NodeOK(k)') /\ PendingHasTimer'
  BY DEF PeerSyncInv, TypeOK, NodeOK, TableOK, PendingHasTimer

\* A step that touches n's peer table, saved or not, and nothing else.
LEMMA PeerOnly ==
  ASSUME PeerSyncInv, NEW n \in Node,
         DOMAIN peer' = Node, DOMAIN saved' = Node,
         \A k \in Node \ {n} : peer'[k] = peer[k] /\ saved'[k] = saved[k],
         TableOK(n, peer'[n]), TableOK(n, saved'[n]),
         UNCHANGED <<store, processed, queue, pending, requests, last_pn, reqs,
                     resps, now, restarts, taken>>
  PROVE  PeerSyncInv'
<1>1. DOMAIN queue' = Node /\ DOMAIN pending' = Node /\ DOMAIN requests' = Node
  BY DEF PeerSyncInv, TypeOK
<1>2. NodeOK(n)' /\ pending'[n] \subseteq requests'[n]
  BY NodeFacts DEF NodeOK, TableOK
<1>3. (\A k \in Node : NodeOK(k)') /\ PendingHasTimer'
  BY <1>1, <1>2, NodeStep
<1>4. TypeOK'
  BY <1>1, <1>3 DEF PeerSyncInv, TypeOK
<1>5. HeldIsTaken' /\ AckHonest'
  BY DEF PeerSyncInv, HeldIsTaken, AckHonest
<1> QED
  BY <1>3, <1>4, <1>5 DEF PeerSyncInv

-----------------------------------------------------------------------------
(* The actions.                                                            *)

\* Start: the peers directory of Peering, everything else empty.
LEMMA InitInv == Init => PeerSyncInv
<1> SUFFICES ASSUME Init PROVE PeerSyncInv
  OBVIOUS
<1>1. ASSUME NEW n \in Node PROVE NodeOK(n)
  <2>1. [state |-> "Idle", next |-> 1, last |-> 0, backoff |-> 0] \in Peer
    BY DEF Peer
  <2>2. TableOK(n, saved[n]) /\ peer = saved
    BY <2>1, PeeringAssumption DEF Init, TableOK
  <2> QED
    BY <2>2, FS_EmptySet DEF Init, NodeOK
<1>2. TypeOK
  BY <1>1 DEF Init, TypeOK
<1> QED
  BY <1>2 DEF Init, PeerSyncInv, HeldIsTaken, PendingHasTimer, AckHonest

\* A client's message is stored and remembered together.
LEMMA ProcessPropagatedInv ==
  ASSUME PeerSyncInv, NEW n \in Node, NEW m \in Ids, process_propagated(n, m)
  PROVE  PeerSyncInv'
<1>1. (\A k \in Node : NodeOK(k)') /\ PendingHasTimer'
  BY TablesSame DEF process_propagated
<1>2. TypeOK'
  BY <1>1 DEF PeerSyncInv, TypeOK, process_propagated
<1>3. HeldIsTaken' /\ AckHonest'
  BY DEF PeerSyncInv, TypeOK, HeldIsTaken, AckHonest, process_propagated
<1> QED
  BY <1>1, <1>2, <1>3 DEF PeerSyncInv

\* The operator's commands and save_peers.
LEMMA OperatorInv ==
  ASSUME PeerSyncInv, NEW n \in Node
  PROVE  /\ save_peers(n) => PeerSyncInv'
         /\ \A p \in Node \ {n} :
               upsert_peer(n, p) \/ request_peer_sync(n, p) \/ unpeer(n, p) => PeerSyncInv'
<1>1. /\ TableOK(n, peer[n]) /\ TableOK(n, saved[n]) /\ now \in Nat
      /\ DOMAIN peer = Node /\ DOMAIN saved = Node
  BY NodeFacts DEF PeerSyncInv, TypeOK
<1>2. ASSUME save_peers(n) PROVE PeerSyncInv'
  <2>1. TableOK(n, saved'[n])
    BY <1>1, <1>2 DEF save_peers, TableOK
  <2> QED
    BY <1>1, <1>2, <2>1, PeerOnly DEF save_peers, TableOK
<1>3. ASSUME NEW p \in Node \ {n}, upsert_peer(n, p) PROVE PeerSyncInv'
  <2>1. new_peer \in Peer
    BY <1>1 DEF new_peer, Peer
  <2>2. TableOK(n, set(peer[n], p, new_peer))
    BY <1>1, <2>1, TableType
  <2>3. TableOK(n, peer'[n])
    BY <1>1, <1>3, <2>2 DEF upsert_peer, TableOK
  <2> QED
    BY <1>1, <1>3, <2>3, PeerOnly DEF upsert_peer, TableOK
<1>4. ASSUME NEW p \in Node \ {n}, request_peer_sync(n, p) PROVE PeerSyncInv'
  <2>1. [peer[n][p] EXCEPT !.next = now, !.state = "Idle"] \in Peer
    BY <1>1, <1>4 DEF request_peer_sync, TableOK, Peer, Busy
  <2>2. TableOK(n, set(peer[n], p, [peer[n][p] EXCEPT !.next = now, !.state = "Idle"]))
    BY <1>1, <2>1, TableType
  <2>3. TableOK(n, peer'[n])
    BY <1>1, <1>4, <2>2 DEF request_peer_sync, TableOK
  <2> QED
    BY <1>1, <1>4, <2>3, PeerOnly DEF request_peer_sync, TableOK
<1>5. ASSUME NEW p \in Node \ {n}, unpeer(n, p) PROVE PeerSyncInv'
  <2>1. TableOK(n, peer'[n]) /\ TableOK(n, saved'[n])
    BY <1>1, <1>5, TableType DEF unpeer, TableOK
  <2> QED
    BY <1>1, <1>5, <2>1, PeerOnly DEF unpeer
<1> QED
  BY <1>2, <1>3, <1>4, <1>5

\* Peers that timed out in the poll, and the peers of requests that timed out,
\* keep well-formed entries.
LEMMA TimeoutTables ==
  ASSUME now \in Nat, NEW n \in Node, NEW table, TableOK(n, table),
         NEW lost, lost \subseteq Rid(n), IsFiniteSet(lost)
  PROVE  /\ TableOK(n, poll_peer_sync_timeouts(table))
         /\ TableOK(n, handle_request_timeouts(table, lost))
<1>1. TableOK(n, poll_peer_sync_timeouts(table))
  <2>1. ASSUME NEW p \in DOMAIN table PROVE on_failure(table[p], 1) \in Peer
    BY EntryType DEF TableOK
  <2> QED
    BY <2>1 DEF TableOK, poll_peer_sync_timeouts
<1>2. ASSUME NEW p \in DOMAIN table \cup {rid.to : rid \in lost}
      PROVE  /\ p \in Node \ {n}
             /\ handle_request_timeouts(table, lost)[p] \in Peer
  <2> DEFINE count == Cardinality({rid \in lost : rid.to = p})
  <2>1. p \in Node \ {n}
    BY DEF Rid, TableOK
  <2>2. IsFiniteSet({rid \in lost : rid.to = p})
    BY FS_Subset
  <2>3. count \in Nat /\ (count = 0 => {rid \in lost : rid.to = p} = {})
    BY <2>2, FS_CardinalityType, FS_EmptySet
  <2>4. upsert(table, p) \in Peer
    BY TableType
  <2>5. on_failure(upsert(table, p), count) \in Peer
    BY <2>3, <2>4, EntryType
  <2>6. count = 0 => p \in DOMAIN table
    BY <2>3
  <2>7. handle_request_timeouts(table, lost)[p] =
           IF count = 0 THEN table[p] ELSE on_failure(upsert(table, p), count)
    BY DEF handle_request_timeouts
  <2> HIDE DEF count
  <2> QED
    BY <2>1, <2>5, <2>6, <2>7 DEF TableOK
<1>3. DOMAIN handle_request_timeouts(table, lost) = DOMAIN table \cup {rid.to : rid \in lost}
  BY DEF handle_request_timeouts
<1> QED
  BY <1>1, <1>2, <1>3 DEF TableOK

\* What a tick leaves behind: a new table, the answered or expired requests
\* gone, and what it sent registered in both tables.
LEMMA TickHandled ==
  ASSUME PeerSyncInv, NEW n \in Node, NEW table, NEW expired, NEW lost, NEW out,
         TableOK(n, table), lost = expired \cap pending[n],
         out \subseteq Rid(n), IsFiniteSet(out),
         \A rid \in out : rid.req.type # "MessageAck",
         peer' = [peer EXCEPT ![n] = table],
         pending' = [pending EXCEPT ![n] = (@ \ lost) \cup out],
         requests' = [requests EXCEPT ![n] = (@ \ expired) \cup out],
         reqs' = reqs \cup {[from |-> n, rid |-> rid] : rid \in out},
         queue' = [queue EXCEPT ![n] = {}],
         last_pn' \in [Node -> Nat],
         UNCHANGED <<store, processed, saved, resps, now, restarts, taken>>
  PROVE  PeerSyncInv'
<1>1. /\ DOMAIN peer' = Node /\ DOMAIN saved' = Node /\ DOMAIN queue' = Node
      /\ DOMAIN pending' = Node /\ DOMAIN requests' = Node
      /\ peer'[n] = table
      /\ queue'[n] = {}
      /\ pending'[n] = (pending[n] \ lost) \cup out
      /\ requests'[n] = (requests[n] \ expired) \cup out
      /\ \A k \in Node \ {n} : /\ peer'[k] = peer[k] /\ saved'[k] = saved[k]
                               /\ queue'[k] = queue[k]
                               /\ pending'[k] = pending[k]
                               /\ requests'[k] = requests[k]
  BY FlatTypes
<1>2. /\ requests[n] \subseteq Rid(n) /\ IsFiniteSet(requests[n])
      /\ pending[n] \subseteq requests[n]
      /\ TableOK(n, saved[n])
  BY NodeFacts
<1>3. pending'[n] \subseteq requests'[n]
  BY <1>1, <1>2
<1>4. NodeOK(n)'
  <2>1. IsFiniteSet(requests[n] \ expired)
    BY <1>2, FS_Subset
  <2>2. IsFiniteSet(requests'[n])
    <3>1. IsFiniteSet((requests[n] \ expired) \cup out)
      BY <2>1, FS_Union
    <3> QED
      BY <1>1, <3>1
  <2>3. pending'[n] \subseteq Rid(n) /\ requests'[n] \subseteq Rid(n)
    BY <1>1, <1>2
  <2>4. /\ queue'[n] \subseteq (Node \ {n}) \X Request /\ IsFiniteSet(queue'[n])
        /\ \A q \in queue'[n] : q[2].type # "MessageAck"
    BY <1>1, FS_EmptySet
  <2>5. TableOK(n, peer[n])' /\ TableOK(n, saved[n])'
    BY <1>1, <1>2 DEF TableOK
  <2> QED
    BY <2>2, <2>3, <2>4, <2>5 DEF NodeOK, TableOK
<1>5. (\A k \in Node : NodeOK(k)') /\ PendingHasTimer'
  BY <1>1, <1>3, <1>4, NodeStep
<1>6. TypeOK'
  <2>1. \A q \in reqs' : q.from \in Node /\ q.rid \in Rid(q.from)
    <3>1. \A q \in reqs' : q \in reqs \/ (q.from = n /\ q.rid \in out)
      BY SMTT(60), Sent
    <3> QED
      BY <3>1, PacketTypes
  <2> QED
    BY <1>1, <1>5, <2>1 DEF PeerSyncInv, TypeOK
<1>7. HeldIsTaken' /\ AckHonest'
  BY SMTT(60) DEF PeerSyncInv, HeldIsTaken, AckHonest
<1> QED
  BY <1>5, <1>6, <1>7 DEF PeerSyncInv

\* A tick sends only offers and what was queued, never an acknowledgement of
\* its own making, and registers what it sends in both tables.
LEMMA TickInv ==
  ASSUME PeerSyncInv, NEW n \in Node, NEW pn_ran \in BOOLEAN, NEW requests_ran \in BOOLEAN,
         tick(n, pn_ran, requests_ran)
  PROVE  PeerSyncInv'
<1> DEFINE polled == IF pn_ran THEN poll_peer_sync_timeouts(peer[n]) ELSE peer[n]
           ready == IF pn_ran THEN next_peer_ready(polled) ELSE {}
           expired == IF requests_ran THEN expired_requests(n) ELSE {}
           lost == lost_requests(n, expired)
           offering(chosen) == [p \in DOMAIN polled |->
                    IF p \in chosen THEN on_offer_sent(polled[p]) ELSE polled[p]]
           offers(chosen) == {<<p, Offer(peering_key_for_peer(n, p), store[n])>> : p \in chosen}
           out(chosen) == build_requests(queue[n] \cup offers(chosen))
<1>1. PICK chosen \in IF ready = {} THEN {{}} ELSE {{p} : p \in ready} :
         /\ peer' = [peer EXCEPT ![n] = handle_request_timeouts(offering(chosen), lost)]
         /\ pending' = [pending EXCEPT ![n] = (@ \ lost) \cup out(chosen)]
         /\ requests' = [requests EXCEPT ![n] = (@ \ expired) \cup out(chosen)]
         /\ reqs' = reqs \cup {[from |-> n, rid |-> rid] : rid \in out(chosen)}
  BY DEF tick, send_requests
<1>2. /\ queue' = [queue EXCEPT ![n] = {}]
      /\ last_pn' = [last_pn EXCEPT ![n] = IF pn_ran THEN now ELSE @]
      /\ UNCHANGED <<store, processed, saved, resps, now, restarts, taken>>
  BY DEF tick
<1>3. /\ TableOK(n, peer[n]) /\ now \in Nat
      /\ queue[n] \subseteq (Node \ {n}) \X Request /\ IsFiniteSet(queue[n])
      /\ \A q \in queue[n] : q[2].type # "MessageAck"
      /\ requests[n] \subseteq Rid(n) /\ IsFiniteSet(requests[n])
      /\ pending[n] \subseteq requests[n]
      /\ store[n] \subseteq Ids
      /\ TableOK(n, saved[n])
  BY NodeFacts
<1>4. TableOK(n, polled)
  BY <1>3, TimeoutTables, FS_EmptySet
<1>5. expired \subseteq requests[n] /\ lost = expired \cap pending[n]
  BY DEF expired_requests, lost_requests
<1> HIDE DEF expired, lost
<1>6. lost \subseteq Rid(n) /\ IsFiniteSet(lost)
  BY <1>3, <1>5, FS_Subset
<1>7. ready \subseteq DOMAIN polled
  BY DEF next_peer_ready
<1> HIDE DEF polled, ready
<1>8. chosen \subseteq DOMAIN polled /\ IsFiniteSet(chosen)
  <2>1. chosen = {} \/ \E p \in ready : chosen = {p}
    BY <1>1
  <2>2. CASE chosen = {}
    BY <2>2, FS_EmptySet
  <2>3. ASSUME NEW p \in ready, chosen = {p}
        PROVE  chosen \subseteq DOMAIN polled /\ IsFiniteSet(chosen)
    BY <1>7, <2>3, FS_Singleton
  <2> QED
    BY <2>1, <2>2, <2>3
<1>9. TableOK(n, handle_request_timeouts(offering(chosen), lost))
  <2>1. \A p \in DOMAIN polled : on_offer_sent(polled[p]) \in Peer
    BY <1>3, <1>4, EntryType DEF TableOK
  <2>2. TableOK(n, offering(chosen))
    BY <1>4, <2>1 DEF TableOK
  <2> HIDE DEF offering
  <2> QED
    BY <1>3, <1>6, <2>2, TimeoutTables
<1>10. /\ out(chosen) \subseteq Rid(n) /\ IsFiniteSet(out(chosen))
       /\ \A rid \in out(chosen) : rid.req.type # "MessageAck"
  <2>1. chosen \subseteq Node \ {n}
    BY <1>4, <1>8 DEF TableOK
  <2>2. offers(chosen) \subseteq (Node \ {n}) \X Request
    <3>1. ASSUME NEW p \in chosen
          PROVE  <<p, Offer(peering_key_for_peer(n, p), store[n])>> \in (Node \ {n}) \X Request
      <4>1. Offer(peering_key_for_peer(n, p), store[n]) \in Request
        BY <1>3, <2>1, RequestType
      <4> QED
        BY <2>1, <4>1
    <3> QED
      BY <3>1
  <2>3. IsFiniteSet(offers(chosen))
    <3> DEFINE f == [p \in chosen |-> <<p, Offer(peering_key_for_peer(n, p), store[n])>>]
    <3>1. f \in Surjection(chosen, offers(chosen))
      BY DEF Surjection
    <3> QED
      BY <1>8, <3>1, FS_Surjection
  <2>4. IsFiniteSet(queue[n] \cup offers(chosen))
    BY <1>3, <2>3, FS_Union
  <2>5. out(chosen) \subseteq Rid(n) /\ IsFiniteSet(out(chosen))
    BY <1>3, <2>2, <2>4, BuildType
  <2>6. \A p \in chosen : Offer(peering_key_for_peer(n, p), store[n]).type = "Offer"
    BY DEF Offer
  <2>7. ASSUME NEW rid \in out(chosen)
        PROVE  rid.req.type # "MessageAck"
    <3>1. PICK q \in queue[n] \cup offers(chosen) : rid = [to |-> q[1], at |-> now, req |-> q[2]]
      BY <2>7 DEF build_requests
    <3>2. CASE q \in queue[n]
      BY <1>3, <3>1, <3>2
    <3>3. CASE q \in offers(chosen)
      BY SMTT(60), <2>6, <3>1, <3>3
    <3> QED
      BY <3>1, <3>2, <3>3
  <2> QED
    BY <2>5, <2>7
<1> HIDE DEF offering, offers, out
<1>11. last_pn' \in [Node -> Nat]
  BY <1>2, <1>3, FlatTypes
<1> QED
  BY <1>1, <1>2, <1>5, <1>9, <1>10, <1>11, TickHandled


-----------------------------------------------------------------------------
(* A received packet q of another node changes n's entry for the sender,   *)
(* possibly n's queue, and adds one response.                              *)

\* What every handler of a request does keeps the invariant.
LEMMA RequestHandled ==
  ASSUME PeerSyncInv, NEW q \in reqs, NEW e \in Peer, NEW resp \in Response,
         peer' = [peer EXCEPT ![q.rid.to] = set(@, q.from, e)],
         resps' = resps \cup {[to |-> q.from, rid |-> q.rid, resp |-> resp]},
         DOMAIN queue' = Node,
         \A k \in Node \ {q.rid.to} : queue'[k] = queue[k],
         queue'[q.rid.to] \subseteq (Node \ {q.rid.to}) \X Request,
         \A pair \in queue'[q.rid.to] : pair[2].type # "MessageAck",
         IsFiniteSet(queue'[q.rid.to]),
         store' \in [Node -> SUBSET Ids], \A k \in Node : store'[k] \subseteq store[k],
         UNCHANGED <<processed, saved, pending, requests, last_pn, reqs, now,
                     restarts, taken>>
  PROVE  PeerSyncInv'
<1> DEFINE n == q.rid.to
<1>1. n \in Node /\ q.from \in Node \ {n} /\ q.rid \in Rid(q.from)
  BY DEF PeerSyncInv, TypeOK, Rid
<1> HIDE DEF n
<1>2. TableOK(n, set(peer[n], q.from, e))
  BY <1>1, NodeFacts, TableType
<1>3. /\ DOMAIN peer' = Node /\ DOMAIN saved' = Node /\ DOMAIN pending' = Node
      /\ DOMAIN requests' = Node
      /\ peer'[n] = set(peer[n], q.from, e)
      /\ \A k \in Node \ {n} : /\ peer'[k] = peer[k] /\ saved'[k] = saved[k]
                               /\ queue'[k] = queue[k]
                               /\ pending'[k] = pending[k]
                               /\ requests'[k] = requests[k]
  BY <1>1 DEF PeerSyncInv, TypeOK, n
<1>4. NodeOK(n)'
  <2>1. TableOK(n, peer'[n])
    BY <1>2, <1>3
  <2>2. /\ TableOK(n, saved'[n])
        /\ pending'[n] \subseteq Rid(n) /\ requests'[n] \subseteq Rid(n)
        /\ IsFiniteSet(requests'[n])
    BY <1>1, NodeFacts
  <2> QED
    BY <1>1, <2>1, <2>2 DEF NodeOK, TableOK, n
<1>5. pending'[n] \subseteq requests'[n]
  BY <1>1, NodeFacts
<1>6. (\A k \in Node : NodeOK(k)') /\ PendingHasTimer'
  BY <1>1, <1>3, <1>4, <1>5, NodeStep
<1>7. TypeOK'
  <2>1. \A r \in resps' : r.to \in Node /\ r.rid \in Rid(r.to) /\ r.resp \in Response
    <3>1. \A r \in resps' : r \in resps \/ (r.to = q.from /\ r.rid = q.rid /\ r.resp = resp)
      BY SMTT(60)
    <3> QED
      BY <1>1, <3>1, PacketTypes
  <2> QED
    BY <1>3, <1>6, <2>1 DEF PeerSyncInv, TypeOK
<1>8. HeldIsTaken' /\ AckHonest'
  BY DEF PeerSyncInv, HeldIsTaken, AckHonest
<1> QED
  BY <1>6, <1>7, <1>8 DEF PeerSyncInv

\* A packet comes from another node than the one that receives it.
LEMMA PacketFacts ==
  ASSUME PeerSyncInv, NEW q \in reqs
  PROVE  /\ q.rid.to \in Node /\ q.from \in Node \ {q.rid.to}
         /\ q.rid.req \in Request
         /\ TableOK(q.rid.to, peer[q.rid.to])
         /\ upsert(peer[q.rid.to], q.from) \in Peer
<1>1. q.rid.to \in Node /\ q.from \in Node \ {q.rid.to} /\ q.rid.req \in Request
  BY DEF PeerSyncInv, TypeOK, Rid
<1> QED
  BY <1>1, NodeFacts, TableType

\* An offer is answered, and what is wanted is queued as a MessageGet.
LEMMA OfferInv ==
  ASSUME PeerSyncInv, NEW q \in reqs, handle_peer_sync_offer(q)
  PROVE  PeerSyncInv'
<1> DEFINE n == q.rid.to
           old == upsert(peer[n], q.from)
           wants == q.rid.req.ids \ store[n]
           asked == peer_sync_message_get(n, q.from, wants)
           resp == IF wants = {} THEN Bool(FALSE) ELSE IdList(wants)
           heard == [old EXCEPT !.last = now,
                          !.state = IF wants = {} THEN "Idle" ELSE "AwaitingPayload"]
<1>1. n \in Node /\ q.from \in Node \ {n} /\ q.rid.req \in Request /\ old \in Peer
  BY PacketFacts
<1>2. now \in Nat /\ store \in [Node -> SUBSET Ids] /\ DOMAIN queue = Node
  BY DEF PeerSyncInv, TypeOK
<1>3. wants \subseteq Ids
  BY <1>1 DEF handle_peer_sync_offer, Request
<1>4. /\ queue[n] \subseteq (Node \ {n}) \X Request /\ IsFiniteSet(queue[n])
      /\ \A pair \in queue[n] : pair[2].type # "MessageAck"
  BY <1>1, NodeFacts
<1>5. /\ asked \subseteq (Node \ {n}) \X Request /\ IsFiniteSet(asked)
      /\ \A pair \in asked : pair[2].type # "MessageAck"
  <2>1. MessageGet(wants, store[n]) \in Request
    BY <1>1, <1>2, <1>3, RequestType
  <2>2. MessageGet(wants, store[n]).type # "MessageAck"
    BY DEF MessageGet
  <2>3. IsFiniteSet(asked)
    BY FS_EmptySet, FS_Singleton DEF peer_sync_message_get
  <2> QED
    <3>1. <<q.from, MessageGet(wants, store[n])>> \in (Node \ {n}) \X Request
      BY <1>1, <2>1
    <3>2. \A pair \in asked : pair = <<q.from, MessageGet(wants, store[n])>>
      BY DEF peer_sync_message_get
    <3> HIDE DEF asked
    <3> QED
      BY SMTT(60), <2>2, <2>3, <3>1, <3>2
<1>6. IsFiniteSet(queue[n] \cup asked)
  BY <1>4, <1>5, FS_Union
<1>7. CASE key_accepted(n, q.from, q.rid.req.key)
  <2>1. heard \in Peer
    BY <1>1, <1>2 DEF Peer, Busy
  <2>2. resp \in Response
    BY <1>3, ResponseType
  <2>3. /\ peer' = [peer EXCEPT ![n] = set(@, q.from, heard)]
        /\ queue' = [queue EXCEPT ![n] = @ \cup asked]
        /\ resps' = resps \cup {[to |-> q.from, rid |-> q.rid, resp |-> resp]}
        /\ UNCHANGED <<store, processed, saved, pending, requests, last_pn, reqs, now,
                       restarts, taken>>
    BY <1>7 DEF handle_peer_sync_offer, respond
  <2> HIDE DEF asked, heard, resp
  <2>4. /\ DOMAIN queue' = Node /\ queue'[n] = queue[n] \cup asked
        /\ \A k \in Node \ {n} : queue'[k] = queue[k]
    BY <1>1, <1>2, <2>3
  <2> QED
    BY <1>2, <1>4, <1>5, <1>6, <2>1, <2>2, <2>3, <2>4, RequestHandled
<1>8. CASE ~ key_accepted(n, q.from, q.rid.req.key)
  <2>1. on_failure(old, 1) \in Peer
    BY <1>1, <1>2, EntryType
  <2>2. Error \in Response
    BY ResponseType
  <2>3. /\ peer' = [peer EXCEPT ![n] = set(@, q.from, on_failure(old, 1))]
        /\ resps' = resps \cup {[to |-> q.from, rid |-> q.rid, resp |-> Error]}
        /\ UNCHANGED <<queue, store, processed, saved, pending, requests, last_pn, reqs, now,
                       restarts, taken>>
    BY <1>8 DEF handle_peer_sync_offer, respond
  <2> QED
    BY <1>2, <1>4, <2>1, <2>2, <2>3, RequestHandled
<1> QED
  BY <1>7, <1>8

\* A MessageGet is answered with what is held; nothing is given up.
LEMMA MessageGetInv ==
  ASSUME PeerSyncInv, NEW q \in reqs, handle_peer_sync_message_get(q)
  PROVE  PeerSyncInv'
<1> DEFINE n == q.rid.to
           old == upsert(peer[n], q.from)
           resp == Payload(q.rid.req.ids \cap store[n])
<1>1. n \in Node /\ old \in Peer
  BY PacketFacts
<1>2. store \in [Node -> SUBSET Ids] /\ DOMAIN queue = Node
  BY DEF PeerSyncInv, TypeOK
<1>3. /\ queue[n] \subseteq (Node \ {n}) \X Request /\ IsFiniteSet(queue[n])
      /\ \A pair \in queue[n] : pair[2].type # "MessageAck"
  BY <1>1, NodeFacts
<1>4. resp \in Response
  <2>1. q.rid.req.ids \cap store[n] \in SUBSET Ids
    BY <1>1, <1>2
  <2> QED
    BY <2>1, ResponseType
<1>5. /\ peer' = [peer EXCEPT ![n] = set(@, q.from, old)]
      /\ resps' = resps \cup {[to |-> q.from, rid |-> q.rid, resp |-> resp]}
      /\ UNCHANGED <<store, processed, saved, queue, pending, requests, last_pn,
                     reqs, now, restarts, taken>>
  BY DEF handle_peer_sync_message_get, respond
<1> HIDE DEF resp, old
<1> QED
  BY <1>1, <1>2, <1>3, <1>4, <1>5, RequestHandled

\* An acknowledgement removes ids, and the peer is idle again.
LEMMA AckInv ==
  ASSUME PeerSyncInv, NEW q \in reqs, handle_peer_sync_ack(q)
  PROVE  PeerSyncInv'
<1> DEFINE n == q.rid.to
           done == on_sync_complete(upsert(peer[n], q.from))
<1>1. n \in Node /\ upsert(peer[n], q.from) \in Peer
  BY PacketFacts
<1>2. store \in [Node -> SUBSET Ids] /\ DOMAIN queue = Node /\ now \in Nat
  BY DEF PeerSyncInv, TypeOK
<1>3. done \in Peer
  BY <1>1, <1>2, EntryType
<1>4. /\ queue[n] \subseteq (Node \ {n}) \X Request /\ IsFiniteSet(queue[n])
      /\ \A pair \in queue[n] : pair[2].type # "MessageAck"
  BY <1>1, NodeFacts
<1>5. Bool(TRUE) \in Response
  BY ResponseType
<1>6. /\ peer' = [peer EXCEPT ![n] = set(@, q.from, done)]
      /\ store' = [store EXCEPT ![n] = @ \ q.rid.req.ids]
      /\ resps' = resps \cup {[to |-> q.from, rid |-> q.rid, resp |-> Bool(TRUE)]}
      /\ UNCHANGED <<processed, saved, queue, pending, requests, last_pn,
                     reqs, now, restarts, taken>>
  BY DEF handle_peer_sync_ack, respond
<1>7. store' \in [Node -> SUBSET Ids] /\ \A k \in Node : store'[k] \subseteq store[k]
  BY <1>1, <1>2, <1>6
<1> HIDE DEF done
<1> QED
  BY <1>1, <1>2, <1>3, <1>4, <1>5, <1>6, <1>7, RequestHandled

-----------------------------------------------------------------------------
(* An answer changes the entry of the peer that gave it and ends the wait; *)
(* a payload may add an acknowledgement, of ids now stored.                *)

\* What every handler of a response does keeps the invariant.
LEMMA AnswerHandled ==
  ASSUME PeerSyncInv, NEW r \in resps, NEW e \in Peer, NEW ack,
         ack \subseteq Rid(r.to), IsFiniteSet(ack),
         \A rid \in ack : /\ rid.req.type = "MessageAck"
                          /\ rid.req.ids \subseteq taken'[r.to],
         peer' = [peer EXCEPT ![r.to] = set(@, r.rid.to, e)],
         pending' = [pending EXCEPT ![r.to] = (@ \ {r.rid}) \cup ack],
         DOMAIN requests' = Node, requests'[r.to] = requests[r.to] \cup ack,
         \A k \in Node \ {r.to} : requests'[k] = requests[k],
         reqs' = reqs \cup {[from |-> r.to, rid |-> rid] : rid \in ack},
         store' \in [Node -> SUBSET Ids], processed' \in [Node -> SUBSET Ids],
         taken' \in [Node -> SUBSET Ids], HeldIsTaken',
         \A k \in Node : taken[k] \subseteq taken'[k],
         UNCHANGED <<saved, queue, last_pn, resps, now, restarts>>
  PROVE  PeerSyncInv'
<1> DEFINE n == r.to
<1>1. n \in Node /\ r.rid.to \in Node \ {n} /\ now \in Nat
  BY DEF PeerSyncInv, TypeOK, Rid
<1>2. TableOK(n, set(peer[n], r.rid.to, e))
  BY <1>1, NodeFacts, TableType
<1>3. /\ DOMAIN peer' = Node /\ DOMAIN saved' = Node /\ DOMAIN queue' = Node
      /\ DOMAIN pending' = Node /\ DOMAIN requests' = Node
      /\ peer'[n] = set(peer[n], r.rid.to, e)
      /\ pending'[n] = (pending[n] \ {r.rid}) \cup ack
      /\ requests'[n] = requests[n] \cup ack
      /\ \A k \in Node \ {n} : /\ peer'[k] = peer[k] /\ saved'[k] = saved[k]
                               /\ queue'[k] = queue[k]
                               /\ pending'[k] = pending[k]
                               /\ requests'[k] = requests[k]
  BY <1>1 DEF PeerSyncInv, TypeOK
<1>4. NodeOK(n)'
  <2>1. TableOK(n, peer'[n])
    BY <1>2, <1>3
  <2>2. /\ TableOK(n, saved'[n])
        /\ queue'[n] \subseteq (Node \ {n}) \X Request /\ IsFiniteSet(queue'[n])
        /\ \A pair \in queue'[n] : pair[2].type # "MessageAck"
    BY <1>1, NodeFacts
  <2>3. pending'[n] \subseteq Rid(n) /\ requests'[n] \subseteq Rid(n)
    BY <1>1, <1>3, NodeFacts
  <2>4. IsFiniteSet(requests'[n])
    <3>1. IsFiniteSet(requests[n] \cup ack)
      BY <1>1, NodeFacts, FS_Union
    <3> QED
      BY <1>3, <3>1
  <2> QED
    BY <2>1, <2>2, <2>3, <2>4 DEF NodeOK, TableOK
<1>5. pending'[n] \subseteq requests'[n]
  BY <1>1, <1>3, NodeFacts
<1>6. (\A k \in Node : NodeOK(k)') /\ PendingHasTimer'
  BY <1>1, <1>3, <1>4, <1>5, NodeStep
<1>7. TypeOK'
  <2>1. \A q \in reqs' : q.from \in Node /\ q.rid \in Rid(q.from)
    <3> SUFFICES ASSUME NEW q \in reqs' PROVE q.from \in Node /\ q.rid \in Rid(q.from)
      OBVIOUS
    <3>1. CASE q \in reqs
      BY <3>1, PacketTypes
    <3>2. ASSUME NEW rid \in ack, q = [from |-> r.to, rid |-> rid]
          PROVE  q.from \in Node /\ q.rid \in Rid(q.from)
      <4>1. q.from = r.to /\ q.rid = rid
        BY <3>2
      <4>2. rid \in Rid(r.to)
        BY <3>2
      <4> QED
        BY <1>1, <4>1, <4>2
    <3>3. q \in reqs \/ \E rid \in ack : q = [from |-> r.to, rid |-> rid]
      OBVIOUS
    <3> QED
      BY <3>1, <3>2, <3>3
  <2> QED
    BY <1>3, <1>6, <2>1 DEF PeerSyncInv, TypeOK
<1>8. AckHonest'
  <2>1. \A q \in reqs : q.from \in Node
    BY DEF PeerSyncInv, TypeOK
  <2> QED
    BY SMTT(60), <2>1 DEF PeerSyncInv, AckHonest
<1> QED
  BY <1>6, <1>7, <1>8 DEF PeerSyncInv

\* The answers that send nothing: to an offer and to an acknowledgement.
LEMMA PlainAnswerInv ==
  ASSUME PeerSyncInv, NEW r \in resps
  PROVE  apply_peer_sync_response(r) \/ ack_answered(r) => PeerSyncInv'
<1> DEFINE n == r.to
           p == r.rid.to
           old == upsert(peer[n], p)
           answered == on_offer_response(old, decode_peer_sync_response(r.resp))
           acked == IF r.resp = Bool(TRUE) THEN on_sync_complete(old) ELSE on_failure(old, 1)
<1>1. n \in Node /\ now \in Nat /\ r.resp \in Response
  BY DEF PeerSyncInv, TypeOK
<1>2. old \in Peer
  BY <1>1, NodeFacts, TableType
<1>3. answered \in Peer
  <2>1. decode_peer_sync_response(r.resp) \in Response
    BY <1>1, ResponseType
  <2> QED
    BY <1>1, <1>2, <2>1, OfferResponseType
<1>4. acked \in Peer
  BY <1>1, <1>2, EntryType
<1>5. /\ store \in [Node -> SUBSET Ids] /\ processed \in [Node -> SUBSET Ids]
      /\ taken \in [Node -> SUBSET Ids] /\ HeldIsTaken
  BY DEF PeerSyncInv, TypeOK
<1>6. ASSUME NEW e \in Peer,
             peer' = [peer EXCEPT ![n] = set(@, p, e)],
             pending' = [pending EXCEPT ![n] = @ \ {r.rid}],
             UNCHANGED <<store, processed, saved, queue, requests, last_pn, reqs,
                         resps, now, restarts, taken>>
      PROVE  PeerSyncInv'
  <2>1. /\ pending' = [pending EXCEPT ![n] = (@ \ {r.rid}) \cup {}]
        /\ reqs' = reqs \cup {[from |-> n, rid |-> rid] : rid \in {}}
    BY <1>6
  <2>2. /\ DOMAIN requests' = Node /\ requests'[n] = requests[n] \cup {}
        /\ \A k \in Node \ {n} : requests'[k] = requests[k]
    BY <1>6 DEF PeerSyncInv, TypeOK
  <2>3. HeldIsTaken'
    BY <1>5, <1>6 DEF HeldIsTaken
  <2>4. IsFiniteSet({})
    BY FS_EmptySet
  <2> QED
    BY <1>5, <1>6, <2>1, <2>2, <2>3, <2>4, AnswerHandled
<1>7. ASSUME apply_peer_sync_response(r) PROVE PeerSyncInv'
  <2>1. peer' = [peer EXCEPT ![n] = set(@, p, answered)]
    BY <1>7 DEF apply_peer_sync_response
  <2> HIDE DEF answered
  <2> QED
    BY <1>3, <1>6, <1>7, <2>1 DEF apply_peer_sync_response
<1>8. ASSUME ack_answered(r) PROVE PeerSyncInv'
  <2>1. peer' = [peer EXCEPT ![n] = set(@, p, acked)]
    BY <1>8 DEF ack_answered
  <2> HIDE DEF acked
  <2> QED
    BY <1>4, <1>6, <1>8, <2>1 DEF ack_answered
<1> QED
  BY <1>7, <1>8

\* A payload is stored before it is acknowledged.
LEMMA PayloadInv ==
  ASSUME PeerSyncInv, NEW r \in resps, apply_peer_sync_payload(r)
  PROVE  PeerSyncInv'
<1> DEFINE n == r.to
           p == r.rid.to
           resp == decode_peer_sync_response(r.resp)
           items == IF resp.type = "Payload" THEN resp.ids ELSE {}
           delivered == {m \in items : <<n, m>> \notin BadStamp}
           new == unseen(n, delivered)
           ack == IF delivered = {} THEN {}
                  ELSE build_requests({<<p, MessageAck(delivered)>>})
           old == upsert(peer[n], p)
           after == IF delivered # items THEN throttle(old) ELSE on_sync_complete(old)
<1>1. n \in Node /\ p \in Node \ {n} /\ now \in Nat /\ r.resp \in Response
  BY DEF PeerSyncInv, TypeOK, Rid
<1>2. items \subseteq Ids /\ delivered \subseteq items
  <2>1. resp \in Response
    BY <1>1, ResponseType
  <2> HIDE DEF resp
  <2> QED
    BY <2>1 DEF Response
<1>3. after \in Peer
  <2>1. old \in Peer
    BY <1>1, NodeFacts, TableType
  <2> HIDE DEF old
  <2> QED
    BY <1>1, <2>1, EntryType
<1>4. /\ peer' = [peer EXCEPT ![n] = set(@, p, after)]
      /\ pending' = [pending EXCEPT ![n] = (@ \ {r.rid}) \cup ack]
      /\ requests' = [requests EXCEPT ![n] = @ \cup ack]
      /\ reqs' = reqs \cup {[from |-> n, rid |-> rid] : rid \in ack}
      /\ store' = [store EXCEPT ![n] = @ \cup new]
      /\ processed' = [processed EXCEPT ![n] = @ \cup new]
      /\ taken' = [taken EXCEPT ![n] = @ \cup new]
      /\ UNCHANGED <<saved, queue, last_pn, resps, now, restarts>>
  BY DEF apply_peer_sync_payload, send_requests
<1>5. new \subseteq delivered /\ delivered \subseteq new \cup store[n] \cup processed[n]
  BY DEF unseen
<1> HIDE DEF items, delivered, new, after
<1>6. /\ store' \in [Node -> SUBSET Ids] /\ processed' \in [Node -> SUBSET Ids]
      /\ taken' \in [Node -> SUBSET Ids]
      /\ \A k \in Node : taken[k] \subseteq taken'[k]
  BY <1>1, <1>2, <1>4, <1>5 DEF PeerSyncInv, TypeOK
<1>7. HeldIsTaken' /\ delivered \subseteq taken'[n]
  BY <1>1, <1>4, <1>5 DEF PeerSyncInv, TypeOK, HeldIsTaken
<1>8. /\ ack \subseteq Rid(n) /\ IsFiniteSet(ack)
      /\ \A rid \in ack : rid.req = MessageAck(delivered)
  <2>1. MessageAck(delivered) \in Request
    BY <1>1, <1>2, RequestType
  <2>2. <<p, MessageAck(delivered)>> \in (Node \ {n}) \X Request
    BY <1>1, <2>1
  <2>3. IsFiniteSet({<<p, MessageAck(delivered)>>})
    BY FS_Singleton
  <2>4. /\ build_requests({<<p, MessageAck(delivered)>>}) \subseteq Rid(n)
        /\ IsFiniteSet(build_requests({<<p, MessageAck(delivered)>>}))
    BY <1>1, <2>2, <2>3, BuildType
  <2>5. \A rid \in build_requests({<<p, MessageAck(delivered)>>}) :
           rid.req = MessageAck(delivered)
    BY SMTT(60) DEF build_requests
  <2> QED
    BY <2>4, <2>5, FS_EmptySet
<1>9. \A rid \in ack : /\ rid.req.type = "MessageAck"
                       /\ rid.req.ids \subseteq taken'[n]
  <2>1. MessageAck(delivered).type = "MessageAck" /\ MessageAck(delivered).ids = delivered
    BY DEF MessageAck
  <2> HIDE DEF ack
  <2> QED
    BY <1>7, <1>8, <2>1
<1>10. /\ DOMAIN requests' = Node /\ requests'[n] = requests[n] \cup ack
       /\ \A k \in Node \ {n} : requests'[k] = requests[k]
  BY <1>1, <1>4 DEF PeerSyncInv, TypeOK
<1> HIDE DEF ack
<1> QED
  BY <1>3, <1>4, <1>6, <1>7, <1>8, <1>9, <1>10, AnswerHandled

-----------------------------------------------------------------------------
(* Faults, time, and the theorems.                                         *)

\* A start after a death finds the store and the saved peers, and no timers.
LEMMA RestartInv ==
  ASSUME PeerSyncInv, NEW n \in Node
  PROVE  /\ restart(n) => PeerSyncInv'
         /\ \A m \in Ids : crash_in_accept(n, m) => PeerSyncInv'
<1>1. ASSUME fresh_memory(n) PROVE (\A k \in Node : NodeOK(k)') /\ PendingHasTimer'
  <2>1. /\ DOMAIN peer' = Node /\ DOMAIN saved' = Node /\ DOMAIN queue' = Node
        /\ DOMAIN pending' = Node /\ DOMAIN requests' = Node
        /\ peer'[n] = saved[n] /\ saved'[n] = saved[n]
        /\ queue'[n] = {} /\ pending'[n] = {} /\ requests'[n] = {}
        /\ \A k \in Node \ {n} : /\ peer'[k] = peer[k] /\ saved'[k] = saved[k]
                                 /\ queue'[k] = queue[k]
                                 /\ pending'[k] = pending[k]
                                 /\ requests'[k] = requests[k]
    BY <1>1 DEF fresh_memory, PeerSyncInv, TypeOK
  <2>2. TableOK(n, saved[n])
    BY NodeFacts
  <2>3. NodeOK(n)'
    BY <2>1, <2>2, FS_EmptySet DEF NodeOK, TableOK
  <2> QED
    BY <2>1, <2>3, NodeStep
<1>2. ASSUME fresh_memory(n), store' \in [Node -> SUBSET Ids],
             processed' \in [Node -> SUBSET Ids], taken' \in [Node -> SUBSET Ids]
      PROVE  TypeOK'
  <2>1. /\ DOMAIN peer' = Node /\ DOMAIN saved' = Node /\ DOMAIN queue' = Node
        /\ DOMAIN pending' = Node /\ DOMAIN requests' = Node
    BY <1>2, FlatTypes DEF fresh_memory
  <2>2. last_pn' \in [Node -> Nat] /\ restarts' \in Nat
    BY SMTT(60), <1>2, FlatTypes DEF fresh_memory
  <2>3. UNCHANGED <<reqs, resps, now>>
    BY <1>2 DEF fresh_memory
  <2> QED
    BY <1>1, <1>2, <2>1, <2>2, <2>3 DEF PeerSyncInv, TypeOK
<1>3. ASSUME restart(n) PROVE PeerSyncInv'
  <2>1. fresh_memory(n) /\ UNCHANGED <<store, processed, taken, reqs>>
    BY <1>3 DEF restart, fresh_memory
  <2>2. TypeOK'
    BY <1>2, <2>1 DEF PeerSyncInv, TypeOK
  <2>3. HeldIsTaken' /\ AckHonest'
    BY <2>1 DEF PeerSyncInv, HeldIsTaken, AckHonest
  <2> QED
    BY <1>1, <2>1, <2>2, <2>3 DEF PeerSyncInv
<1>4. ASSUME NEW m \in Ids, crash_in_accept(n, m) PROVE PeerSyncInv'
  <2>1. /\ fresh_memory(n) /\ UNCHANGED <<processed, reqs>>
        /\ store' = [store EXCEPT ![n] = @ \cup {m}]
        /\ taken' = [taken EXCEPT ![n] = @ \cup {m}]
    BY <1>4 DEF crash_in_accept, fresh_memory
  <2>2. TypeOK'
    BY <1>2, <2>1 DEF PeerSyncInv, TypeOK
  <2>3. HeldIsTaken' /\ AckHonest'
    BY <2>1 DEF PeerSyncInv, TypeOK, HeldIsTaken, AckHonest
  <2> QED
    BY <1>1, <2>1, <2>2, <2>3 DEF PeerSyncInv
<1> QED
  BY <1>3, <1>4

\* A step that changes nothing but the clock, if that.
LEMMA StutterInv ==
  ASSUME PeerSyncInv, pass_time \/ UNCHANGED vars
  PROVE  PeerSyncInv'
<1>1. /\ UNCHANGED <<store, processed, peer, saved, queue, pending, requests, last_pn,
                     reqs, resps, restarts, taken>>
      /\ now' \in Nat
  <2>1. now \in Nat
    BY FlatTypes
  <2>2. CASE pass_time
    BY SMTT(60), <2>1, <2>2 DEF pass_time
  <2>3. CASE UNCHANGED vars
    BY <2>1, <2>3 DEF vars
  <2> QED
    BY <2>2, <2>3
<1>2. (\A k \in Node : NodeOK(k)') /\ PendingHasTimer'
  BY <1>1, TablesSame
<1>3. TypeOK'
  BY <1>1, <1>2 DEF PeerSyncInv, TypeOK
<1>4. HeldIsTaken' /\ AckHonest'
  BY <1>1 DEF PeerSyncInv, HeldIsTaken, AckHonest
<1> QED
  BY <1>2, <1>3, <1>4 DEF PeerSyncInv

\* Every step of every node, and of the network, keeps the invariant.
LEMMA StepInv == PeerSyncInv /\ [Next]_vars => PeerSyncInv'
<1> SUFFICES ASSUME PeerSyncInv, [Next]_vars PROVE PeerSyncInv'
  OBVIOUS
<1>1. ASSUME LoopNext PROVE PeerSyncInv'
  BY <1>1, ProcessPropagatedInv, TickInv, OfferInv, MessageGetInv, AckInv,
     PlainAnswerInv, PayloadInv, StutterInv DEF LoopNext
<1>2. ASSUME OperatorNext PROVE PeerSyncInv'
  BY <1>2, OperatorInv DEF OperatorNext
<1>3. ASSUME FaultNext PROVE PeerSyncInv'
  BY <1>3, OperatorInv, RestartInv DEF FaultNext
<1> QED
  BY <1>1, <1>2, <1>3, StutterInv DEF Next

\* The tables of peer sync keep their shape, whatever is lost, duplicated or
\* reordered and whenever nodes restart, and the three facts below hold.
THEOREM PeerSyncInvariant == Spec => []PeerSyncInv
<1>1. Init => PeerSyncInv
  BY InitInv
<1>2. PeerSyncInv /\ [Next]_vars => PeerSyncInv'
  BY StepInv
<1> QED
  BY <1>1, <1>2, PTL DEF Spec

\* Every entry of peer_sync_pending has a running timer in RnsRequestManager,
\* so handle_request_timeouts eventually removes it.
THEOREM EveryWaitHasATimer == Spec => []PendingHasTimer
<1>1. PeerSyncInv => PendingHasTimer
  BY DEF PeerSyncInv
<1> QED
  BY <1>1, PeerSyncInvariant, PTL

\* Every acknowledgement apply_peer_sync_payload sent, also one received late,
\* twice or after a restart, names only ids its sender had stored.
THEOREM AcknowledgementsAreHonest == Spec => []AckHonest
<1>1. PeerSyncInv => AckHonest
  BY DEF PeerSyncInv
<1> QED
  BY <1>1, PeerSyncInvariant, PTL

\* handle_peer_sync_ack is the only step that takes an id out of a node's
\* store, and the id was stored by another node before.
THEOREM NothingGivenUpUntaken == Spec => GivenUpOnlyIfTaken
<1> DEFINE Safe == \A n \in Node : \A m \in store[n] \ store'[n] :
                     \E other \in Node \ {n} : m \in taken[other]
<1>1. PeerSyncInv /\ [Next]_vars => [Safe]_vars
  <2> SUFFICES ASSUME PeerSyncInv, Next PROVE Safe
    OBVIOUS
  <2>1. ASSUME NEW q \in reqs, handle_peer_sync_ack(q) PROVE Safe
    <3>1. /\ q.rid.to \in Node /\ q.from \in Node \ {q.rid.to}
          /\ q.rid.req.ids \subseteq taken[q.from]
      BY <2>1, PacketFacts DEF PeerSyncInv, AckHonest, handle_peer_sync_ack
    <3>2. store' = [store EXCEPT ![q.rid.to] = @ \ q.rid.req.ids]
      BY <2>1 DEF handle_peer_sync_ack
    <3>3. \A n \in Node : \A m \in store[n] \ store'[n] :
             n = q.rid.to /\ m \in q.rid.req.ids
      BY <3>1, <3>2 DEF PeerSyncInv, TypeOK
    <3> QED
      BY <3>1, <3>3
  <2>2. ASSUME \A n \in Node : store[n] \subseteq store'[n] PROVE Safe
    BY <2>2
  <2>3. ASSUME NEW n \in Node, NEW m \in Ids,
               process_propagated(n, m) \/ crash_in_accept(n, m)
        PROVE  Safe
    <3>1. store' = [store EXCEPT ![n] = @ \cup {m}]
      BY <2>3 DEF process_propagated, crash_in_accept
    <3>2. \A k \in Node : store[k] \subseteq store'[k]
      BY <3>1, FlatTypes
    <3> QED
      BY <2>2, <3>2
  <2>4. ASSUME NEW r \in resps, apply_peer_sync_payload(r) PROVE Safe
    BY <2>2, <2>4 DEF apply_peer_sync_payload, PeerSyncInv, TypeOK
  <2>5. ASSUME store' = store PROVE Safe
    BY <2>5
  <2>6. CASE LoopNext
    BY <2>1, <2>3, <2>4, <2>5, <2>6
       DEF LoopNext, tick, handle_peer_sync_offer, handle_peer_sync_message_get,
           apply_peer_sync_response, ack_answered, pass_time
  <2>7. CASE OperatorNext
    BY <2>5, <2>7 DEF OperatorNext, upsert_peer, request_peer_sync, unpeer
  <2>8. CASE FaultNext
    BY <2>3, <2>5, <2>8 DEF FaultNext, save_peers, restart
  <2> QED
    BY <2>6, <2>7, <2>8 DEF Next
<1> QED
  BY <1>1, PeerSyncInvariant, PTL DEF Spec, GivenUpOnlyIfTaken

-----------------------------------------------------------------------------
(* How long a peer waits. The tables in memory and on disk are bounded     *)
(* together: a restart reads the saved waits back at a later time.         *)

\* What each transition of a peer entry does to its next sync.
LEMMA EntryTimely ==
  ASSUME now \in Nat, NEW e \in Peer, NEW times \in Nat
  PROVE  /\ Timely(new_peer)
         /\ Timely(on_sync_complete(e))
         /\ Timely(on_failure(e, times))
         /\ Timely(throttle(e))
         /\ on_offer_sent(e).next = e.next
<1>1. BackoffStep \in Nat /\ BackoffMax \in Nat /\ ThrottleTime \in Nat
  BY TimesAssumption
<1>2. Timely(new_peer) /\ Timely(on_sync_complete(e))
  BY SMTT(60), <1>1 DEF new_peer, on_sync_complete, Timely
<1>3. Timely(on_failure(e, times))
  <2> DEFINE backoff == Least(e.backoff + times * BackoffStep, BackoffMax)
  <2>1. e.backoff \in Nat /\ times * BackoffStep \in Nat
    BY SMTT(60), <1>1 DEF Peer
  <2>2. backoff \in Nat /\ backoff <= BackoffMax
    BY SMTT(60), <1>1, <2>1 DEF Least
  <2>3. on_failure(e, times).next = now + backoff
    BY SMTT(60) DEF on_failure, Peer
  <2> HIDE DEF backoff
  <2> QED
    BY SMTT(60), <1>1, <2>2, <2>3 DEF Timely
<1>4. Timely(throttle(e))
  <2>1. throttle(e).next = now + ThrottleTime
    BY SMTT(60) DEF throttle, Peer
  <2> QED
    BY SMTT(60), <1>1, <2>1 DEF Timely
<1>5. on_offer_sent(e).next = e.next
  BY SMTT(60) DEF on_offer_sent, Peer
<1> QED
  BY <1>2, <1>3, <1>4, <1>5

\* An answer to an offer ends the wait, sends the peer into backoff, or leaves
\* its next sync alone.
LEMMA OfferResponseTimely ==
  ASSUME now \in Nat, NEW e \in Peer, Timely(e), NEW resp \in Response
  PROVE  Timely(on_offer_response(e, resp))
<1>1. [e EXCEPT !.state = "AwaitingPayload"].next = e.next
  BY SMTT(60) DEF Peer
<1>2. Timely([e EXCEPT !.state = "AwaitingPayload"])
  BY <1>1 DEF Timely
<1>3. Timely(on_sync_complete(e)) /\ Timely(on_failure(e, 1))
  BY EntryTimely
<1> QED
  BY <1>2, <1>3 DEF on_offer_response, Response

\* Looking a peer up, updating or removing it.
LEMMA TableTimely ==
  ASSUME now \in Nat, NEW table, TimelyTable(table)
  PROVE  /\ \A p : Timely(upsert(table, p))
         /\ \A p, e : Timely(e) => TimelyTable(set(table, p, e))
         /\ \A S : TimelyTable(Restrict(table, DOMAIN table \ S))
<1>1. Timely(new_peer)
  BY SMTT(60), TimesAssumption DEF new_peer, Timely
<1>2. \A p : Timely(upsert(table, p))
  BY <1>1 DEF upsert, TimelyTable
<1>3. \A p, e : Timely(e) => TimelyTable(set(table, p, e))
  BY DEF set, TimelyTable
<1>4. \A S : TimelyTable(Restrict(table, DOMAIN table \ S))
  BY DEF Restrict, TimelyTable
<1> QED
  BY <1>2, <1>3, <1>4

\* The poll and the request timeouts bound every wait anew.
LEMMA TimeoutTimely ==
  ASSUME now \in Nat, NEW n \in Node, NEW table, TableOK(n, table), TimelyTable(table),
         NEW lost, IsFiniteSet(lost)
  PROVE  /\ TimelyTable(poll_peer_sync_timeouts(table))
         /\ TimelyTable(handle_request_timeouts(table, lost))
<1>1. TimelyTable(poll_peer_sync_timeouts(table))
  <2>1. ASSUME NEW p \in DOMAIN table PROVE Timely(on_failure(table[p], 1))
    BY EntryTimely DEF TableOK
  <2> QED
    BY <2>1 DEF TimelyTable, poll_peer_sync_timeouts
<1>2. ASSUME NEW p \in DOMAIN table \cup {rid.to : rid \in lost}
      PROVE  Timely(handle_request_timeouts(table, lost)[p])
  <2> DEFINE count == Cardinality({rid \in lost : rid.to = p})
  <2>1. IsFiniteSet({rid \in lost : rid.to = p})
    BY FS_Subset
  <2>2. count \in Nat /\ (count = 0 => {rid \in lost : rid.to = p} = {})
    BY <2>1, FS_CardinalityType, FS_EmptySet
  <2>3. upsert(table, p) \in Peer
    BY TableType
  <2>4. Timely(on_failure(upsert(table, p), count))
    BY <2>2, <2>3, EntryTimely
  <2>5. count = 0 => p \in DOMAIN table
    BY <2>2
  <2>6. handle_request_timeouts(table, lost)[p] =
           IF count = 0 THEN table[p] ELSE on_failure(upsert(table, p), count)
    BY DEF handle_request_timeouts
  <2> HIDE DEF count
  <2> QED
    BY <2>4, <2>5, <2>6 DEF TimelyTable
<1>3. DOMAIN handle_request_timeouts(table, lost) = DOMAIN table \cup {rid.to : rid \in lost}
  BY DEF handle_request_timeouts
<1> QED
  BY <1>1, <1>2, <1>3 DEF TimelyTable

\* A step of node n that leaves the clock alone and timely tables behind.
LEMMA TimelyStep ==
  ASSUME TimelyInv, NEW n \in Node, now' = now,
         \A k \in Node \ {n} : peer'[k] = peer[k] /\ saved'[k] = saved[k],
         TimelyTable(peer'[n]), TimelyTable(saved'[n])
  PROVE  WaitBounded' /\ SavedWaitBounded'
<1>1. ASSUME NEW k \in Node PROVE TimelyTable(peer'[k]) /\ TimelyTable(saved'[k])
  BY DEF TimelyInv, WaitBounded, SavedWaitBounded
<1>2. ASSUME NEW k \in Node PROVE TimelyTable(peer[k])' /\ TimelyTable(saved[k])'
  BY <1>1 DEF TimelyTable, Timely
<1> QED
  BY <1>2 DEF WaitBounded, SavedWaitBounded

\* Most handlers change one entry of one table.
LEMMA EntryUpdated ==
  ASSUME TimelyInv, NEW n \in Node, NEW p, NEW e, Timely(e),
         peer' = [peer EXCEPT ![n] = set(@, p, e)], UNCHANGED <<saved, now>>
  PROVE  WaitBounded' /\ SavedWaitBounded'
<1>1. /\ now \in Nat /\ DOMAIN peer = Node
      /\ TimelyTable(peer[n]) /\ TimelyTable(saved[n])
  BY FlatTypes DEF TimelyInv, WaitBounded, SavedWaitBounded
<1>2. TimelyTable(set(peer[n], p, e))
  BY <1>1, TableTimely
<1> QED
  BY <1>1, <1>2, TimelyStep

\* The operator's commands and save_peers.
LEMMA OperatorTimely ==
  ASSUME TimelyInv, NEW n \in Node
  PROVE  /\ save_peers(n) => WaitBounded' /\ SavedWaitBounded'
         /\ \A p \in Node \ {n} :
               upsert_peer(n, p) \/ request_peer_sync(n, p) \/ unpeer(n, p) =>
                   WaitBounded' /\ SavedWaitBounded'
<1>1. /\ TableOK(n, peer[n]) /\ now \in Nat /\ DOMAIN peer = Node /\ DOMAIN saved = Node
      /\ TimelyTable(peer[n]) /\ TimelyTable(saved[n])
  BY NodeFacts DEF TimelyInv, PeerSyncInv, TypeOK, WaitBounded, SavedWaitBounded
<1>2. ASSUME save_peers(n) PROVE WaitBounded' /\ SavedWaitBounded'
  <2>1. TimelyTable(saved'[n])
    BY <1>1, <1>2 DEF save_peers, TimelyTable
  <2> QED
    BY <1>1, <1>2, <2>1, TimelyStep DEF save_peers
<1>3. ASSUME NEW p \in Node \ {n}, upsert_peer(n, p) PROVE WaitBounded' /\ SavedWaitBounded'
  <2>1. Timely(new_peer)
    BY SMTT(60), <1>1, TimesAssumption DEF new_peer, Timely
  <2> QED
    BY <1>3, <2>1, EntryUpdated DEF upsert_peer
<1>4. ASSUME NEW p \in Node \ {n}, request_peer_sync(n, p)
      PROVE  WaitBounded' /\ SavedWaitBounded'
  <2> DEFINE e == [peer[n][p] EXCEPT !.next = now, !.state = "Idle"]
  <2>1. peer[n][p] \in Peer
    BY <1>1, <1>4 DEF request_peer_sync, TableOK
  <2>2. e.next = now
    BY SMTT(60), <2>1 DEF Peer
  <2>3. Timely(e)
    <3> HIDE DEF e
    <3> QED
      BY SMTT(60), <1>1, <2>2, TimesAssumption DEF Timely
  <2>4. peer' = [peer EXCEPT ![n] = set(@, p, e)] /\ UNCHANGED <<saved, now>>
    BY <1>1, <1>4 DEF request_peer_sync
  <2> QED
    BY <2>3, <2>4, EntryUpdated
<1>5. ASSUME NEW p \in Node \ {n}, unpeer(n, p) PROVE WaitBounded' /\ SavedWaitBounded'
  <2>1. TimelyTable(peer'[n]) /\ TimelyTable(saved'[n])
    BY <1>1, <1>5, TableTimely DEF unpeer
  <2> QED
    BY <1>1, <1>5, <2>1, TimelyStep DEF unpeer
<1> QED
  BY <1>2, <1>3, <1>4, <1>5

\* A tick: the poll, an offer to the peer that is ready first, the timeouts.
LEMMA TickTimely ==
  ASSUME TimelyInv, NEW n \in Node, NEW pn_ran \in BOOLEAN, NEW requests_ran \in BOOLEAN,
         tick(n, pn_ran, requests_ran)
  PROVE  WaitBounded' /\ SavedWaitBounded'
<1> DEFINE polled == IF pn_ran THEN poll_peer_sync_timeouts(peer[n]) ELSE peer[n]
           expired == IF requests_ran THEN expired_requests(n) ELSE {}
           lost == lost_requests(n, expired)
           offering(chosen) == [p \in DOMAIN polled |->
                    IF p \in chosen THEN on_offer_sent(polled[p]) ELSE polled[p]]
<1>1. PICK chosen : peer' = [peer EXCEPT ![n] =
                                handle_request_timeouts(offering(chosen), lost)]
  BY DEF tick
<1>2. UNCHANGED <<saved, now>>
  BY DEF tick
<1>3. /\ TableOK(n, peer[n]) /\ now \in Nat /\ DOMAIN peer = Node
      /\ TimelyTable(peer[n]) /\ TimelyTable(saved[n]) /\ IsFiniteSet(requests[n])
  BY NodeFacts DEF TimelyInv, PeerSyncInv, TypeOK, WaitBounded, SavedWaitBounded
<1>4. TableOK(n, polled) /\ TimelyTable(polled)
  BY <1>3, TimeoutTables, TimeoutTimely, FS_EmptySet
<1>5. IsFiniteSet(lost)
  <2>1. lost \subseteq requests[n]
    BY DEF expired_requests, lost_requests
  <2> QED
    BY <1>3, <2>1, FS_Subset
<1> HIDE DEF polled, expired, lost
<1>6. TableOK(n, offering(chosen)) /\ TimelyTable(offering(chosen))
  <2>1. ASSUME NEW p \in DOMAIN polled
        PROVE  on_offer_sent(polled[p]) \in Peer /\ Timely(on_offer_sent(polled[p]))
    <3>1. polled[p] \in Peer /\ Timely(polled[p])
      BY <1>4 DEF TableOK, TimelyTable
    <3>2. on_offer_sent(polled[p]) \in Peer /\ on_offer_sent(polled[p]).next = polled[p].next
      BY <1>3, <3>1, EntryType, EntryTimely
    <3> QED
      BY <3>1, <3>2 DEF Timely
  <2> QED
    BY <1>4, <2>1 DEF TableOK, TimelyTable
<1> HIDE DEF offering
<1>7. TimelyTable(handle_request_timeouts(offering(chosen), lost))
  BY <1>3, <1>5, <1>6, TimeoutTimely
<1> QED
  BY <1>1, <1>2, <1>3, <1>7, TimelyStep

\* What the handlers of packets for node n start from.
LEMMA UpsertFacts ==
  ASSUME TimelyInv, NEW n \in Node, NEW p
  PROVE  now \in Nat /\ upsert(peer[n], p) \in Peer /\ Timely(upsert(peer[n], p))
<1>1. now \in Nat /\ TableOK(n, peer[n]) /\ TimelyTable(peer[n])
  BY NodeFacts DEF TimelyInv, WaitBounded
<1> QED
  BY <1>1, TableType, TableTimely

\* The handlers of request packets.
LEMMA RequestTimely ==
  ASSUME TimelyInv, NEW q \in reqs,
         \/ handle_peer_sync_offer(q)
         \/ handle_peer_sync_message_get(q)
         \/ handle_peer_sync_ack(q)
  PROVE  WaitBounded' /\ SavedWaitBounded'
<1> DEFINE n == q.rid.to
           old == upsert(peer[n], q.from)
<1>1. n \in Node /\ DOMAIN peer = Node
  BY PacketFacts, FlatTypes DEF TimelyInv
<1>2. now \in Nat /\ old \in Peer /\ Timely(old)
  BY <1>1, UpsertFacts
<1>3. /\ Timely(on_failure(old, 1)) /\ Timely(on_sync_complete(old))
      /\ \A s : Timely([old EXCEPT !.last = now, !.state = s])
  <2>1. \A s : [old EXCEPT !.last = now, !.state = s].next = old.next
    <3> HIDE DEF old
    <3> QED
      BY SMTT(60), <1>2 DEF Peer
  <2> QED
    BY <1>2, <2>1, EntryTimely DEF Timely
<1>4. UNCHANGED <<saved, now>>
  BY DEF handle_peer_sync_offer, handle_peer_sync_message_get, handle_peer_sync_ack
<1>5. PICK e : Timely(e) /\ peer' = [peer EXCEPT ![n] = set(@, q.from, e)]
  <2>1. CASE handle_peer_sync_offer(q)
    BY <1>1, <1>3, <2>1 DEF handle_peer_sync_offer
  <2>2. CASE handle_peer_sync_message_get(q)
    BY <1>1, <1>2, <2>2 DEF handle_peer_sync_message_get
  <2>3. CASE handle_peer_sync_ack(q)
    BY <1>1, <1>3, <2>3 DEF handle_peer_sync_ack
  <2> QED
    BY <2>1, <2>2, <2>3
<1> QED
  BY <1>1, <1>4, <1>5, EntryUpdated

\* The handlers of answers.
LEMMA AnswerTimely ==
  ASSUME TimelyInv, NEW r \in resps,
         \/ apply_peer_sync_response(r)
         \/ apply_peer_sync_payload(r)
         \/ ack_answered(r)
  PROVE  WaitBounded' /\ SavedWaitBounded'
<1> DEFINE n == r.to
           p == r.rid.to
           old == upsert(peer[n], p)
           resp == decode_peer_sync_response(r.resp)
<1>1. n \in Node /\ DOMAIN peer = Node /\ resp \in Response
  BY PacketTypes, FlatTypes, ResponseType DEF TimelyInv
<1>2. now \in Nat /\ old \in Peer /\ Timely(old)
  BY <1>1, UpsertFacts
<1>3. /\ Timely(on_failure(old, 1)) /\ Timely(on_sync_complete(old))
      /\ Timely(throttle(old)) /\ Timely(on_offer_response(old, resp))
  BY <1>1, <1>2, EntryTimely, OfferResponseTimely
<1>4. UNCHANGED <<saved, now>>
  BY DEF apply_peer_sync_response, apply_peer_sync_payload, ack_answered
<1>5. PICK e : Timely(e) /\ peer' = [peer EXCEPT ![n] = set(@, p, e)]
  <2>1. CASE apply_peer_sync_response(r)
    BY <1>1, <1>3, <2>1 DEF apply_peer_sync_response
  <2>2. CASE apply_peer_sync_payload(r)
    BY <1>1, <1>3, <2>2 DEF apply_peer_sync_payload
  <2>3. CASE ack_answered(r)
    BY <1>1, <1>3, <2>3 DEF ack_answered
  <2> QED
    BY <2>1, <2>2, <2>3
<1> QED
  BY <1>1, <1>4, <1>5, EntryUpdated

\* A start reads the saved peers back; time only shortens the waits.
LEMMA RestTimely ==
  ASSUME TimelyInv,
         \/ \E n \in Node : fresh_memory(n)
         \/ pass_time
         \/ UNCHANGED <<peer, saved, now>>
  PROVE  WaitBounded' /\ SavedWaitBounded'
<1>1. now \in Nat /\ DOMAIN peer = Node
  BY FlatTypes DEF TimelyInv
<1>2. ASSUME NEW n \in Node, fresh_memory(n) PROVE WaitBounded' /\ SavedWaitBounded'
  BY <1>1, <1>2, TimelyStep DEF fresh_memory, TimelyInv, SavedWaitBounded
<1>3. ASSUME UNCHANGED <<peer, saved>>, now' \in Nat, now' >= now
      PROVE  WaitBounded' /\ SavedWaitBounded'
  <2>1. ASSUME NEW n \in Node, NEW table, TableOK(n, table), TimelyTable(table)
        PROVE  \A p \in DOMAIN table : \/ table[p].next <= now' + BackoffMax
                                       \/ table[p].next <= now' + ThrottleTime
    <3>1. ASSUME NEW p \in DOMAIN table
          PROVE  \/ table[p].next <= now' + BackoffMax
                 \/ table[p].next <= now' + ThrottleTime
      <4>1. table[p].next \in Nat
        BY <2>1 DEF TableOK, Peer
      <4>2. \/ table[p].next <= now + BackoffMax
            \/ table[p].next <= now + ThrottleTime
        BY <2>1 DEF TimelyTable, Timely
      <4> QED
        BY SMTT(60), <1>1, <1>3, <4>1, <4>2, TimesAssumption
    <3> QED
      BY <3>1
  <2>2. ASSUME NEW n \in Node PROVE TimelyTable(peer[n])' /\ TimelyTable(saved[n])'
    <3>1. TableOK(n, peer[n]) /\ TableOK(n, saved[n])
      BY NodeFacts DEF TimelyInv
    <3>2. TimelyTable(peer[n]) /\ TimelyTable(saved[n])
      BY DEF TimelyInv, WaitBounded, SavedWaitBounded
    <3> QED
      BY <1>3, <2>1, <3>1, <3>2 DEF TimelyTable, Timely
  <2> QED
    BY <2>2 DEF WaitBounded, SavedWaitBounded
<1>4. CASE pass_time
  <2>1. now' \in Nat /\ now' >= now
    BY SMTT(60), <1>1, <1>4 DEF pass_time
  <2> QED
    BY <1>3, <1>4, <2>1 DEF pass_time
<1>5. CASE UNCHANGED <<peer, saved, now>>
  <2>1. now' \in Nat /\ now' >= now
    BY SMTT(60), <1>1, <1>5
  <2> QED
    BY <1>3, <1>5, <2>1
<1> QED
  BY <1>2, <1>4, <1>5

\* Every step of every node, and of the network, keeps the waits bounded.
LEMMA StepTimely == TimelyInv /\ [Next]_vars => TimelyInv'
<1> SUFFICES ASSUME TimelyInv, [Next]_vars PROVE WaitBounded' /\ SavedWaitBounded'
  BY StepInv DEF TimelyInv
<1>1. CASE LoopNext
  BY <1>1, TickTimely, RequestTimely, AnswerTimely, RestTimely
     DEF LoopNext, process_propagated
<1>2. CASE OperatorNext
  BY <1>2, OperatorTimely DEF OperatorNext
<1>3. CASE FaultNext
  BY <1>3, OperatorTimely, RestTimely DEF FaultNext, restart, crash_in_accept
<1>4. CASE UNCHANGED vars
  BY <1>4, RestTimely DEF vars
<1> QED
  BY <1>1, <1>2, <1>3, <1>4 DEF Next

\* No peer, in memory or as save_peers wrote it, is scheduled past the longest
\* backoff or throttle from now, whatever the network does, whenever operators
\* interfere and nodes restart.
THEOREM TimelyInvariant == Spec => []TimelyInv
<1>1. Init => TimelyInv
  <2> SUFFICES ASSUME Init PROVE WaitBounded /\ SavedWaitBounded
    BY InitInv DEF TimelyInv
  <2>1. Timely([state |-> "Idle", next |-> 1, last |-> 0, backoff |-> 0])
    BY SMTT(60), TimesAssumption DEF Init, Timely
  <2>2. SavedWaitBounded /\ peer = saved
    BY <2>1 DEF Init, SavedWaitBounded, TimelyTable
  <2> QED
    BY <2>2 DEF WaitBounded, SavedWaitBounded
<1>2. TimelyInv /\ [Next]_vars => TimelyInv'
  BY StepTimely
<1> QED
  BY <1>1, <1>2, PTL DEF Spec

\* The peer table of PeerTable::next_peer_ready keeps every peer within reach:
\* on_failure's backoff is capped, and a throttle is one throttle time long.
THEOREM WaitsBounded == Spec => []WaitBounded
<1>1. TimelyInv => WaitBounded
  BY DEF TimelyInv
<1> QED
  BY <1>1, TimelyInvariant, PTL
=============================================================================
