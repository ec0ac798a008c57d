------------------------------ MODULE PeerSync ------------------------------
(***************************************************************************)
(* Propagation nodes exchanging stored messages: the peer table, the       *)
(* offer -> message_get -> ack exchange and its timeouts (LxmfRouter in    *)
(* lxmf-rs/src/rns/router.rs, Peer and PeerTable in rns/peer.rs), over a   *)
(* network that loses, duplicates and reorders packets.                    *)
(*                                                                         *)
(* A message is its transient id. A node's job loop is single threaded: a  *)
(* tick with its dispatch, and the handling of one packet with its reply,  *)
(* are each one step. The modelled stretch of time is shorter than         *)
(* MESSAGE_EXPIRY and no storage limit is set, so the cleaning jobs of the *)
(* tick remove nothing.                                                    *)
(***************************************************************************)
EXTENDS Integers, FiniteSets, Functions

CONSTANTS Node, Ids,
          Peering,      \* pairs <<n, p>>: the peers directory of n lists p at start
          BadStamp,     \* pairs <<n, m>>: n finds the stamp of m too cheap
          Validate,     \* peering_validation is Some
          TargetCost,   \* PeeringValidation.target_cost
          KeyCostCap,   \* the 15 in peering_key_for_peer
          Timeout,      \* PEER_SYNC_TIMEOUT_MS
          BackoffStep, BackoffMax,   \* PEER_BACKOFF_STEP_MS, PEER_BACKOFF_MAX_MS
          ThrottleTime, \* PROPAGATION_INVALID_STAMP_THROTTLE_MS
          PnInterval,   \* RuntimeConfig.pn_interval_ms
          MaxNow, MaxRestarts, MaxPackets   \* bounds

ASSUME TimesAssumption ==
    /\ {Timeout, BackoffStep, BackoffMax, ThrottleTime, PnInterval} \subseteq Nat
    /\ {TargetCost, KeyCostCap, MaxNow, MaxRestarts, MaxPackets} \subseteq Nat
    /\ Validate \in BOOLEAN
ASSUME PeeringAssumption == \A pair \in Peering : pair \in Node \X Node /\ pair[1] # pair[2]

VARIABLES
    store,      \* propagation_store, in memory and in the storage directory
    processed,  \* locally_processed, likewise
    peer,       \* the peer table of each node
    saved,      \* the files of the peers directory
    queue,      \* peer_sync_queue: requests waiting for the next tick
    pending,    \* peer_sync_pending
    requests,   \* RnsRequestManager.pending: requests with a running timer
    last_pn,    \* LxmfRuntime.last_pn_ms
    reqs, resps,    \* the packets ever sent: one that is never received is
                    \* lost, one that is received again was duplicated
    now, restarts,
    taken       \* history: the ids a node has ever stored

vars == <<store, processed, peer, saved, queue, pending, requests, last_pn,
          reqs, resps, now, restarts, taken>>

-----------------------------------------------------------------------------
(* Requests, responses and packets. A request id is a hash of destination, *)
(* send time and body, so it is modelled by that triple.                   *)

NoKey == [by |-> <<>>, cost |-> 0]
Key == {NoKey} \cup [by : Node \X Node, cost : Nat]

Offer(key, available) ==
    [type |-> "Offer", key |-> key, ids |-> available, haves |-> {}]
MessageGet(wants, haves) ==
    [type |-> "MessageGet", key |-> NoKey, ids |-> wants, haves |-> haves]
MessageAck(delivered) ==
    [type |-> "MessageAck", key |-> NoKey, ids |-> delivered, haves |-> {}]

Request == [type : {"Offer", "MessageGet", "MessageAck"}, key : Key,
            ids : SUBSET Ids, haves : SUBSET Ids]
Rid(n) == [to : Node \ {n}, at : Nat, req : Request]

Error == [type |-> "Error", ids |-> {}]
Bool(flag) == [type |-> IF flag THEN "True" ELSE "False", ids |-> {}]
IdList(list) == [type |-> "IdList", ids |-> list]
Payload(items) == [type |-> "Payload", ids |-> items]
Response == [type : {"Error", "True", "False", "IdList", "Payload"},
             ids : SUBSET Ids]

\* decode_peer_sync_response: an empty payload reads as an empty id list.
decode_peer_sync_response(resp) == IF resp = Payload({}) THEN IdList({}) ELSE resp

-----------------------------------------------------------------------------
(* Peer: one record per known peer, the same for both directions.          *)

Busy == {"OfferSent", "AwaitingPayload"}
Peer == [state : {"Idle", "Backoff"} \cup Busy, next : Nat, last : Nat, backoff : Nat]

new_peer == [state |-> "Idle", next |-> now, last |-> 0, backoff |-> 0]

\* PeerTable::upsert and an update of the entry.
upsert(table, p) == IF p \in DOMAIN table THEN table[p] ELSE new_peer
set(table, p, entry) ==
    [q \in DOMAIN table \cup {p} |-> IF q = p THEN entry ELSE table[q]]

should_sync(e) == e.state \in {"Idle", "Backoff"} /\ now >= e.next
on_offer_sent(e) == [e EXCEPT !.state = "OfferSent", !.last = now]
on_sync_complete(e) == [state |-> "Idle", next |-> now, last |-> now, backoff |-> 0]

Least(a, b) == IF a <= b THEN a ELSE b

\* Faulty variant of on_failure: the backoff grows without limit.
on_failure_unlimited(e, times) ==
    LET backoff == e.backoff + times * BackoffStep
    IN  [e EXCEPT !.state = "Backoff", !.backoff = backoff, !.next = now + backoff]

\* `times` calls of on_failure in a row.
on_failure(e, times) ==
    LET backoff == Least(e.backoff + times * BackoffStep, BackoffMax)
    IN  [e EXCEPT !.state = "Backoff", !.backoff = backoff, !.next = now + backoff]

throttle(e) ==
    [e EXCEPT !.state = "Backoff", !.backoff = ThrottleTime, !.next = now + ThrottleTime]

on_offer_response(e, resp) ==
    CASE resp.type \in {"True", "IdList"}   -> [e EXCEPT !.state = "AwaitingPayload"]
      [] resp.type \in {"False", "Payload"} -> on_sync_complete(e)
      [] resp.type = "Error"                -> on_failure(e, 1)

timed_out(e) == e.state \in Busy /\ now - e.last >= Timeout

\* A peering key is proof of work of some cost over a pair of identities; it
\* validates for that pair only.
peering_key_for_peer(n, p) ==
    IF Validate THEN [by |-> <<n, p>>, cost |-> Least(TargetCost, KeyCostCap)]
                ELSE NoKey
key_accepted(n, p, key) == ~Validate \/ (key.by = <<n, p>> /\ key.cost >= TargetCost)

-----------------------------------------------------------------------------
Init ==
    /\ store = [n \in Node |-> {}]
    /\ processed = [n \in Node |-> {}]
    /\ saved = [n \in Node |-> [p \in {p \in Node : <<n, p>> \in Peering} |->
                  [state |-> "Idle", next |-> 1, last |-> 0, backoff |-> 0]]]
    /\ peer = saved
    /\ queue = [n \in Node |-> {}]
    /\ pending = [n \in Node |-> {}]
    /\ requests = [n \in Node |-> {}]
    /\ last_pn = [n \in Node |-> 0]
    /\ reqs = {}
    /\ resps = {}
    /\ now = 1
    /\ restarts = 0
    /\ taken = [n \in Node |-> {}]

\* process_propagated: a client hands message m to node n.
process_propagated(n, m) ==
    /\ <<n, m>> \notin BadStamp
    /\ m \notin store[n] \cup processed[n]
    /\ store' = [store EXCEPT ![n] = @ \cup {m}]
    /\ processed' = [processed EXCEPT ![n] = @ \cup {m}]
    /\ taken' = [taken EXCEPT ![n] = @ \cup {m}]
    /\ UNCHANGED <<peer, saved, queue, pending, requests, last_pn, reqs, resps,
                   now, restarts>>

upsert_peer(n, p) ==
    /\ p \notin DOMAIN peer[n]
    /\ peer' = [peer EXCEPT ![n] = set(@, p, new_peer)]
    /\ UNCHANGED <<store, processed, saved, queue, pending, requests, last_pn,
                   reqs, resps, now, restarts, taken>>

\* request_peer_sync: an operator asks for a sync now, whatever is going on.
request_peer_sync(n, p) ==
    /\ p \in DOMAIN peer[n]
    /\ peer' = [peer EXCEPT ![n] = set(@, p, [@[p] EXCEPT !.next = now, !.state = "Idle"])]
    /\ UNCHANGED <<store, processed, saved, queue, pending, requests, last_pn,
                   reqs, resps, now, restarts, taken>>

\* unpeer: the entry and its file go, requests under way stay.
unpeer(n, p) ==
    /\ p \in DOMAIN peer[n]
    /\ peer' = [peer EXCEPT ![n] = Restrict(@, DOMAIN @ \ {p})]
    /\ saved' = [saved EXCEPT ![n] = Restrict(@, DOMAIN @ \ {p})]
    /\ UNCHANGED <<store, processed, queue, pending, requests, last_pn,
                   reqs, resps, now, restarts, taken>>

save_peers(n) ==
    /\ restarts < MaxRestarts
    /\ saved' = [saved EXCEPT ![n] = [q \in DOMAIN @ \cup DOMAIN peer[n] |->
                    IF q \in DOMAIN peer[n] THEN peer[n][q] ELSE @[q]]]
    /\ UNCHANGED <<store, processed, peer, queue, pending, requests, last_pn,
                   reqs, resps, now, restarts, taken>>

-----------------------------------------------------------------------------
(* LxmfRouter::tick and dispatch_peer_sync_requests. pn_ran and            *)
(* requests_ran tell which interval jobs this tick runs.                   *)

poll_peer_sync_timeouts(table) ==
    [p \in DOMAIN table |-> IF timed_out(table[p]) THEN on_failure(table[p], 1)
                                                   ELSE table[p]]

\* next_peer_ready: a ready peer with the earliest next_sync_ms, if any.
next_peer_ready(table) ==
    LET ready == {p \in DOMAIN table : should_sync(table[p])}
    IN  {p \in ready : \A q \in ready : table[p].next <= table[q].next}

expired_requests(n) == {rid \in requests[n] : now - rid.at >= Timeout}

\* Faulty variant of lost_requests: timeouts leave peer_sync_pending alone.
lost_requests_kept(n, expired) == {}

\* The timed-out requests handle_request_timeouts takes out of
\* peer_sync_pending: those not answered before.
lost_requests(n, expired) == expired \cap pending[n]

\* handle_request_timeouts: one failure of the peer per request lost.
handle_request_timeouts(table, lost) ==
    [p \in DOMAIN table \cup {rid.to : rid \in lost} |->
        LET count == Cardinality({rid \in lost : rid.to = p})
        IN  IF count = 0 THEN table[p] ELSE on_failure(upsert(table, p), count)]

\* build_peer_sync_request for every (peer, request) pair of a set.
build_requests(pairs) == {[to |-> q[1], at |-> now, req |-> q[2]] : q \in pairs}

\* The bound on packets: a step that would send more is not taken.
room == Cardinality(reqs) + Cardinality(resps) < MaxPackets

send_requests(n, rids) ==
    /\ rids # {} => room
    /\ reqs' = reqs \cup {[from |-> n, rid |-> rid] : rid \in rids}

tick(n, pn_ran, requests_ran) ==
    /\ pn_ran => now - last_pn[n] >= PnInterval
    /\ LET polled == IF pn_ran THEN poll_peer_sync_timeouts(peer[n]) ELSE peer[n]
           ready == IF pn_ran THEN next_peer_ready(polled) ELSE {}
           expired == IF requests_ran THEN expired_requests(n) ELSE {}
           lost == lost_requests(n, expired)
       IN  \E chosen \in IF ready = {} THEN {{}} ELSE {{p} : p \in ready} :
             LET offering == [p \in DOMAIN polled |->
                    IF p \in chosen THEN on_offer_sent(polled[p]) ELSE polled[p]]
                 offers == {<<p, Offer(peering_key_for_peer(n, p), store[n])>> : p \in chosen}
                 out == build_requests(queue[n] \cup offers)
             IN  /\ peer' = [peer EXCEPT ![n] = handle_request_timeouts(offering, lost)]
                 /\ pending' = [pending EXCEPT ![n] = (@ \ lost) \cup out]
                 /\ requests' = [requests EXCEPT ![n] = (@ \ expired) \cup out]
                 /\ send_requests(n, out)
    /\ queue' = [queue EXCEPT ![n] = {}]
    /\ last_pn' = [last_pn EXCEPT ![n] = IF pn_ran THEN now ELSE @]
    /\ UNCHANGED <<store, processed, saved, resps, now, restarts, taken>>

-----------------------------------------------------------------------------
(* handle_peer_sync_request: one action per kind of request packet `q`.    *)

respond(q, resp) ==
    /\ room
    /\ resps' = resps \cup {[to |-> q.from, rid |-> q.rid, resp |-> resp]}

\* Faulty variant of peer_sync_message_get: nothing is asked for.
peer_sync_message_get_none(n, p, wants) == {}

\* The request for the wanted messages that the next tick sends, if any.
peer_sync_message_get(n, p, wants) ==
    IF wants = {} THEN {} ELSE {<<p, MessageGet(wants, store[n])>>}

\* handle_peer_sync_offer, then peer_sync_message_get for what is wanted.
handle_peer_sync_offer(q) ==
    LET n == q.rid.to
        e == upsert(peer[n], q.from)
        wants == q.rid.req.ids \ store[n]
    IN  /\ q.rid.req.type = "Offer"
        /\ IF key_accepted(n, q.from, q.rid.req.key)
           THEN /\ peer' = [peer EXCEPT ![n] = set(@, q.from,
                       [e EXCEPT !.last = now,
                                 !.state = IF wants = {} THEN "Idle" ELSE "AwaitingPayload"])]
                /\ queue' = [queue EXCEPT ![n] = @ \cup
                                     peer_sync_message_get(n, q.from, wants)]
                /\ respond(q, IF wants = {} THEN Bool(FALSE) ELSE IdList(wants))
           ELSE /\ peer' = [peer EXCEPT ![n] = set(@, q.from, on_failure(e, 1))]
                /\ respond(q, Error)
                /\ UNCHANGED queue
        /\ UNCHANGED <<store, processed, saved, pending, requests, last_pn, reqs,
                       now, restarts, taken>>

\* Faulty variant of handle_peer_sync_message_get: what is served is removed.
handle_peer_sync_message_get_moving(q) ==
    LET n == q.rid.to
    IN  /\ q.rid.req.type = "MessageGet"
        /\ peer' = [peer EXCEPT ![n] = set(@, q.from, upsert(@, q.from))]
        /\ respond(q, Payload(q.rid.req.ids \cap store[n]))
        /\ store' = [store EXCEPT ![n] = @ \ q.rid.req.ids]
        /\ UNCHANGED <<processed, saved, queue, pending, requests, last_pn,
                       reqs, now, restarts, taken>>

handle_peer_sync_message_get(q) ==
    LET n == q.rid.to
    IN  /\ q.rid.req.type = "MessageGet"
        /\ peer' = [peer EXCEPT ![n] = set(@, q.from, upsert(@, q.from))]
        /\ respond(q, Payload(q.rid.req.ids \cap store[n]))
        /\ UNCHANGED <<store, processed, saved, queue, pending, requests, last_pn,
                       reqs, now, restarts, taken>>

handle_peer_sync_ack(q) ==
    LET n == q.rid.to
    IN  /\ q.rid.req.type = "MessageAck"
        /\ store' = [store EXCEPT ![n] = @ \ q.rid.req.ids]
        /\ peer' = [peer EXCEPT ![n] = set(@, q.from, on_sync_complete(upsert(@, q.from)))]
        /\ respond(q, Bool(TRUE))
        /\ UNCHANGED <<processed, saved, queue, pending, requests, last_pn,
                       reqs, now, restarts, taken>>

-----------------------------------------------------------------------------
(* handle_peer_sync_response_bytes_with_peer: packet `r` answers a request *)
(* of node r.to. An answer that is no longer awaited changes nothing.      *)

awaited(r) == r.rid \in pending[r.to]

apply_peer_sync_response(r) ==
    LET n == r.to
        p == r.rid.to
    IN  /\ r.rid.req.type = "Offer"
        /\ awaited(r)
        /\ peer' = [peer EXCEPT ![n] = set(@, p,
                       on_offer_response(upsert(@, p), decode_peer_sync_response(r.resp)))]
        /\ pending' = [pending EXCEPT ![n] = @ \ {r.rid}]
        /\ UNCHANGED <<store, processed, saved, queue, requests, last_pn, reqs,
                       resps, now, restarts, taken>>

\* Faulty variant of unseen: the test is the wrong way round.
unseen_negated(n, delivered) == delivered \cap (store[n] \cup processed[n])

\* The delivered ids that are neither stored nor remembered as processed.
unseen(n, delivered) == delivered \ (store[n] \cup processed[n])

\* apply_peer_sync_payload: ids seen before are acknowledged all the same.
apply_peer_sync_payload(r) ==
    LET n == r.to
        p == r.rid.to
        resp == decode_peer_sync_response(r.resp)
        items == IF resp.type = "Payload" THEN resp.ids ELSE {}
        delivered == {m \in items : <<n, m>> \notin BadStamp}
        new == unseen(n, delivered)
        ack == IF delivered = {} THEN {}
               ELSE build_requests({<<p, MessageAck(delivered)>>})
    IN  /\ r.rid.req.type = "MessageGet"
        /\ awaited(r)
        /\ store' = [store EXCEPT ![n] = @ \cup new]
        /\ processed' = [processed EXCEPT ![n] = @ \cup new]
        /\ taken' = [taken EXCEPT ![n] = @ \cup new]
        /\ peer' = [peer EXCEPT ![n] = set(@, p,
                       IF delivered # items THEN throttle(upsert(@, p))
                                            ELSE on_sync_complete(upsert(@, p)))]
        /\ pending' = [pending EXCEPT ![n] = (@ \ {r.rid}) \cup ack]
        /\ requests' = [requests EXCEPT ![n] = @ \cup ack]
        /\ send_requests(n, ack)
        /\ UNCHANGED <<saved, queue, last_pn, resps, now, restarts>>

ack_answered(r) ==
    LET n == r.to
        p == r.rid.to
    IN  /\ r.rid.req.type = "MessageAck"
        /\ awaited(r)
        /\ peer' = [peer EXCEPT ![n] = set(@, p,
                       IF r.resp = Bool(TRUE) THEN on_sync_complete(upsert(@, p))
                                              ELSE on_failure(upsert(@, p), 1))]
        /\ pending' = [pending EXCEPT ![n] = @ \ {r.rid}]
        /\ UNCHANGED <<store, processed, saved, queue, requests, last_pn, reqs,
                       resps, now, restarts, taken>>

-----------------------------------------------------------------------------
(* Death of a node and with_store_and_root on the next start: the store,   *)
(* locally_processed and the saved peers are read back.                    *)

fresh_memory(n) ==
    /\ restarts < MaxRestarts
    /\ restarts' = restarts + 1
    /\ peer' = [peer EXCEPT ![n] = saved[n]]
    /\ queue' = [queue EXCEPT ![n] = {}]
    /\ pending' = [pending EXCEPT ![n] = {}]
    /\ requests' = [requests EXCEPT ![n] = {}]
    /\ last_pn' = [last_pn EXCEPT ![n] = 0]
    /\ UNCHANGED <<saved, reqs, resps, now>>

restart(n) ==
    /\ fresh_memory(n)
    /\ UNCHANGED <<store, processed, taken>>

\* Death while m is being accepted (from a client or out of a payload):
\* its entry is written, locally_processed is not saved yet.
crash_in_accept(n, m) ==
    /\ <<n, m>> \notin BadStamp
    /\ m \notin store[n] \cup processed[n]
    /\ fresh_memory(n)
    /\ store' = [store EXCEPT ![n] = @ \cup {m}]
    /\ taken' = [taken EXCEPT ![n] = @ \cup {m}]
    /\ UNCHANGED processed

-----------------------------------------------------------------------------
pass_time ==
    /\ now < MaxNow
    /\ now' = now + 1
    /\ UNCHANGED <<store, processed, peer, saved, queue, pending, requests, last_pn,
                   reqs, resps, restarts, taken>>

\* What the job loops and the clients do.
LoopNext ==
    \/ \E n \in Node, m \in Ids : process_propagated(n, m)
    \/ \E n \in Node, pn_ran, requests_ran \in BOOLEAN : tick(n, pn_ran, requests_ran)
    \/ \E q \in reqs : \/ handle_peer_sync_offer(q)
                       \/ handle_peer_sync_message_get(q)
                       \/ handle_peer_sync_ack(q)
    \/ \E r \in resps : \/ apply_peer_sync_response(r)
                        \/ apply_peer_sync_payload(r)
                        \/ ack_answered(r)
    \/ pass_time

\* What operators do: peer with p, sync now, break the peering.
OperatorNext ==
    \E n \in Node : \E p \in Node \ {n} :
        upsert_peer(n, p) \/ request_peer_sync(n, p) \/ unpeer(n, p)

FaultNext ==
    \E n \in Node : \/ save_peers(n)
                    \/ restart(n)
                    \/ \E m \in Ids : crash_in_accept(n, m)

Next == LoopNext \/ OperatorNext \/ FaultNext

Spec == Init /\ [][Next]_vars
\* Only the job loops and the clients.
LoopSpec == Init /\ [][LoopNext]_vars

\* The same over a network that delivers every packet exactly once and faster
\* than PnInterval: a request is received when it has no answer yet, and time
\* passes when nothing is outstanding.
unanswered(q) == \A r \in resps : r.rid # q.rid \/ r.to # q.from
Settled == \A n \in Node : pending[n] = {} /\ queue[n] = {}

ReceiveOnce ==
    \/ \E q \in reqs : /\ unanswered(q)
                       /\ \/ handle_peer_sync_offer(q)
                          \/ handle_peer_sync_message_get(q)
                          \/ handle_peer_sync_ack(q)
    \/ \E r \in resps : \/ apply_peer_sync_response(r)
                        \/ apply_peer_sync_payload(r)
                        \/ ack_answered(r)

ReliableNext ==
    \/ \E n \in Node, m \in Ids : process_propagated(n, m)
    \/ \E n \in Node, pn_ran, requests_ran \in BOOLEAN : tick(n, pn_ran, requests_ran)
    \/ ReceiveOnce
    \/ Settled /\ pass_time

\* The job loop of a node never stops ticking and receiving.
ReliableSpec ==
    /\ Init /\ [][ReliableNext]_vars
    /\ WF_vars(ReceiveOnce)
    /\ WF_vars(Settled /\ pass_time)
    /\ \A n \in Node : /\ WF_vars(tick(n, TRUE, TRUE))
                       /\ WF_vars(queue[n] # {} /\ tick(n, FALSE, TRUE))

-----------------------------------------------------------------------------
TableOK(n, table) == /\ DOMAIN table \subseteq Node \ {n}
                     /\ \A p \in DOMAIN table : table[p] \in Peer

NodeOK(n) == /\ TableOK(n, peer[n])
             /\ TableOK(n, saved[n])
             /\ queue[n] \subseteq (Node \ {n}) \X Request
             /\ \A q \in queue[n] : q[2].type # "MessageAck"
             /\ pending[n] \subseteq Rid(n)
             /\ requests[n] \subseteq Rid(n)
             /\ IsFiniteSet(queue[n])
             /\ IsFiniteSet(requests[n])

TypeOK ==
    /\ store \in [Node -> SUBSET Ids]
    /\ processed \in [Node -> SUBSET Ids]
    /\ taken \in [Node -> SUBSET Ids]
    /\ DOMAIN peer = Node /\ DOMAIN saved = Node /\ DOMAIN queue = Node
    /\ DOMAIN pending = Node /\ DOMAIN requests = Node
    /\ \A n \in Node : NodeOK(n)
    /\ last_pn \in [Node -> Nat]
    /\ \A q \in reqs : q.from \in Node /\ q.rid \in Rid(q.from)
    /\ \A r \in resps : r.to \in Node /\ r.rid \in Rid(r.to) /\ r.resp \in Response
    /\ now \in Nat
    /\ restarts \in Nat

\* What a node holds or remembers it has stored at some time.
HeldIsTaken == \A n \in Node : store[n] \cup processed[n] \subseteq taken[n]

\* Every awaited answer has a running timer, so an entry of peer_sync_pending
\* never outlives PEER_SYNC_TIMEOUT_MS by more than a tick: registering a
\* request, its answer and its timeout touch both tables together.
PendingHasTimer == \A n \in Node : pending[n] \subseteq requests[n]

\* An acknowledgement in the network speaks the truth, even if it is a
\* duplicate or its sender restarted: every id in it was stored by its sender.
AckHonest == \A q \in reqs : q.rid.req.type = "MessageAck" =>
                 q.rid.req.ids \subseteq taken[q.from]

\* The inductive invariant of PeerSyncProofs.
PeerSyncInv == TypeOK /\ HeldIsTaken /\ PendingHasTimer /\ AckHonest

\* A node gives a message up only when another node has stored it.
GivenUpOnlyIfTaken ==
    [][\A n \in Node : \A m \in store[n] \ store'[n] :
           \E other \in Node \ {n} : m \in taken[other]]_vars

\* An entry is due after at most the longest backoff, or a throttle.
Timely(e) == e.next <= now + BackoffMax \/ e.next <= now + ThrottleTime
TimelyTable(table) == \A p \in DOMAIN table : Timely(table[p])

\* The peer table keeps every peer within reach: no peer waits longer than the
\* longest backoff (or throttle) for its next sync.
WaitBounded == \A n \in Node : TimelyTable(peer[n])

\* The same of the entries save_peers wrote, which a restart reads back: with
\* it WaitBounded is inductive.
SavedWaitBounded == \A n \in Node : TimelyTable(saved[n])

\* PeerSyncInv with the waits of both tables: neither a peer in memory nor one
\* that a restart reads back waits past the longest backoff (or throttle).
TimelyInv == PeerSyncInv /\ WaitBounded /\ SavedWaitBounded

\* A propagation node network is a message store: what a node accepted can be
\* retrieved from some node.
Conserved == \A n \in Node : \A m \in taken[n] : \E holder \in Node : m \in store[holder]

\* An offer made with the key a node generates for a peer is not refused by
\* that peer for its key.
OffersUnderstood == \A r \in resps : r.rid.req.type = "Offer" => r.resp # Error

\* On a reliable network a message that a node holds, and has time left to
\* offer, reaches another node.
Spreads == \A n \in Node, m \in Ids :
    m \in store[n] /\ now < MaxNow ~> \E other \in Node \ {n} : m \in taken[other]

=============================================================================
