--------------------------- MODULE PropagationNode ---------------------------
(* A propagation node's own state: its message store and its peers, and the  *)
(* jobs that tick runs on both.  The node's restarts lose whatever is in     *)
(* memory only, the distribution queues among it.                            *)
EXTENDS PropagationStore, PeerTable

CONSTANTS
    StoreEvery, PeerSyncEvery, RotateEvery, \* JOB_*_INTERVAL; ingest runs with peer sync
    Cycle,           \* a common multiple of them
    AuthRequired, Allowed, \* who may leave messages
    Budgets          \* the peers on disk at first, and how much of each input follows

ASSUME NodeAssumption ==
    /\ {StoreEvery, PeerSyncEvery, RotateEvery, Cycle} \subseteq Nat \ {0}
    /\ \A n \in {StoreEvery, PeerSyncEvery, RotateEvery} : Cycle % n = 0
    /\ Static \subseteq Peer
    /\ AuthRequired \in BOOLEAN /\ Allowed \subseteq Peer
    /\ \A b \in Budgets :
        /\ b.ids \subseteq Id /\ b.calls \in Nat /\ b.dist \in Nat
        /\ b.restarts \in Nat /\ b.until \in Time
        /\ DOMAIN b.table \subseteq Peer /\ Range(b.table) \subseteq PeerRecord(Time)
        /\ IsFiniteSet(b.ids) /\ IsFiniteSet(DOMAIN b.table)

VARIABLES
    count,   \* processing_count, modulo Cycle
    boots,   \* restarts so far
    budget   \* bound: ids that may arrive, length of the distribution queue, how
             \* many more calls may concern the peer table, restarts, the last day

vars == <<storeVars, peerVars, count, boots, budget>>

Init ==
    /\ StoreInit
    /\ count = 0 /\ boots = 0
    /\ \E b \in Budgets :
        /\ budget = [ids |-> b.ids, dist |-> b.dist, calls |-> b.calls,
                     restarts |-> b.restarts, until |-> b.until]
        /\ peers = b.table /\ savedPeers = b.table

(* A call or an event that changes the peer table uses up the bound.         *)
Spend == budget.calls > 0 /\ budget' = [budget EXCEPT !.calls = @ - 1]

static == IF configured THEN Static ELSE {}

----------------------------------------------------------------------------
(* Messages in and out                                                       *)

ReceivePropagated(i, at) ==
    /\ at <= budget.until
    /\ i \in Fresh(budget.ids)
    /\ receive_propagated(i, at)
    /\ UNCHANGED <<peerVars, count, boots, budget>>

(* process_propagation_resource.  A resource that is refused for lack of     *)
(* rights, identity or room leaves no trace; several messages without a      *)
(* valid peering key count as a failure of the peer they came from.          *)
Admitted(remote, batch) ==
    /\ AuthRequired => remote \in Allowed
    /\ Cardinality(batch) > 1 => remote # NoPeer

process_propagation_resource(remote, batch, keyValid) ==
    /\ batch # {}
    /\ Admitted(remote, batch)
    /\ IF Cardinality(batch) > 1 /\ ~keyValid
       THEN /\ Spend
            /\ peers' = on_failure(peers, remote)
            /\ UNCHANGED <<diskVars, acceptedAt, savedPeers>>
       ELSE process_propagated(batch, now) /\ UNCHANGED <<peerVars, budget>>
    /\ UNCHANGED <<now, configured, distVars, leftover, count, boots>>

(* handle_peer_sync_ack: the peer has the messages, the node drops them.     *)
handle_peer_sync_ack(p, S) ==
    /\ Spend
    /\ S # {}
    /\ entries' = Restrict(entries, DOMAIN entries \ S)
    /\ files' = files \ FilesOf(Restrict(entries, S))
    /\ peers' = on_sync_complete(peers, p)
    /\ UNCHANGED <<now, processed, saved, configured, distVars, leftover, acceptedAt,
                   savedPeers, count, boots>>

CleanupPropagation(cutoff) ==
    cleanup_propagation(cutoff) /\ UNCHANGED <<peerVars, count, boots, budget>>

Enqueue(i, from) ==
    /\ Cardinality(dist) < budget.dist /\ i \in DOMAIN entries
    /\ enqueue_peer_distribution(i, from)
    /\ UNCHANGED <<peerVars, count, boots, budget>>

QueueHandled(p, i) ==
    /\ budget.dist > 0 /\ p \in DOMAIN peers /\ i \in DOMAIN entries
    /\ queue_handled_message(p, i)
    /\ UNCHANGED <<peerVars, count, boots, budget>>

FlushDistribution ==
    /\ flush_peer_distribution_queue(DOMAIN peers)
    /\ UNCHANGED <<peerVars, count, boots, budget>>

----------------------------------------------------------------------------
(* Peers                                                                     *)

(* An event of the exchange with a peer.                                     *)
PeerEvent(p) ==
    /\ Spend
    /\ peers' \in {mark_heard(peers, p, now), on_offer_response(peers, p),
                   on_sync_complete(peers, p), on_failure(peers, p)}
                    \cup {served(peers, p, n) : n \in 0 .. 1}
                    \cup {payload_applied(peers, p, n) : n \in 0 .. 1}
    /\ UNCHANGED <<storeVars, savedPeers, count, boots>>

(* handle_control_request of an identity that may: sync sets the peer back   *)
(* to Idle whatever it was doing, unpeer drops it.                           *)
handle_control_request(p) ==
    /\ Spend
    /\ p \in DOMAIN peers
    /\ \/ /\ peers' = [peers EXCEPT ![p].state = Idle]
          /\ UNCHANGED <<savedPeers, handledQ, unhandledQ>>
       \/ unpeer(peers, {p}) /\ Forget({p})
    /\ UNCHANGED <<now, diskVars, configured, dist, handled, unhandled, leftover, acceptedAt,
                   count, boots>>

(* sync_peers: offer to one waiting peer, then drop the unreachable ones.    *)
sync_peers ==
    LET queued == {p \in Peer : unhandledQ[p] # {}}
        culled == Culled(peers, static, now)
        waiting == Waiting(peers, now, queued)
        offered == IF waiting = {} THEN {peers}
                   ELSE {peer_sync_offer(peers, p, Cardinality(DOMAIN entries)) : p \in waiting} IN
    /\ Spend
    /\ \E t \in offered : unpeer(t, culled)
    /\ Forget(culled)
    /\ UNCHANGED <<now, diskVars, configured, dist, handled, unhandled, leftover, acceptedAt,
                   count, boots>>

SavePeers == Spend /\ save_peers /\ UNCHANGED <<storeVars, count, boots>>

----------------------------------------------------------------------------
(* The jobs of a tick, in the order tick runs them                           *)

Due(interval) == (count + 1) % interval = 0

(* poll_peer_sync_timeouts and schedule_peer_sync: on this clock a pending   *)
(* offer may or may not have timed out, and a backoff may be over or not.    *)
PeerSyncJob ==
    LET timedOut(S) == [p \in DOMAIN peers |->
                           IF p \in S THEN [peers[p] EXCEPT !.state = Backoff] ELSE peers[p]]
        pending == {p \in DOMAIN peers : peers[p].state = OfferSent} IN
    UNION {LET t == timedOut(S)
               ready == {p \in DOMAIN t : t[p].state # OfferSent} IN
           {t} \cup {peer_sync_offer(t, p, Cardinality(DOMAIN entries)) : p \in ready}
           : S \in SUBSET pending}

tick(pn_ran) ==
    /\ count' = (count + 1) % Cycle
    /\ pn_ran => Due(PeerSyncEvery)
    /\ IF pn_ran THEN clean_transient_id_caches ELSE UNCHANGED <<processed, saved>>
    /\ \E t \in IF pn_ran /\ budget.calls > 0 THEN PeerSyncJob ELSE {peers} :
        \E out \in IF Due(RotateEvery) /\ configured THEN rotate_peers(t, static) ELSE {{}} :
            /\ unpeer(t, out)
            /\ budget' = [budget EXCEPT !.calls = IF t = peers THEN @ ELSE @ - 1]
    /\ IF Due(StoreEvery) THEN clean_propagation_store ELSE UNCHANGED <<entries, files>>
    /\ IF Due(PeerSyncEvery) THEN flush_queues(DOMAIN peers', DOMAIN entries')
       ELSE Forget(DOMAIN peers \ DOMAIN peers') /\ UNCHANGED <<dist, handled, unhandled>>
    /\ UNCHANGED <<now, configured, leftover, acceptedAt, boots>>

----------------------------------------------------------------------------
NodeRestart ==
    /\ boots < budget.restarts
    /\ boots' = boots + 1
    /\ Restart \/ \E i \in budget.ids, at \in {Never} \cup Start .. budget.until : CrashInProcess(i, at)
    /\ load_peers
    /\ count' = 0
    /\ UNCHANGED budget

Configure == configure /\ UNCHANGED <<peerVars, count, boots, budget>>

Day == now < budget.until /\ Tick /\ UNCHANGED <<peerVars, count, boots, budget>>

Next ==
    \/ \E i \in Id, at \in Stamp : ReceivePropagated(i, at)
    \/ \E remote \in Peer \cup {NoPeer}, batch \in SUBSET budget.ids, keyValid \in BOOLEAN :
          process_propagation_resource(remote, batch, keyValid)
    \/ \E p \in Peer, S \in SUBSET DOMAIN entries : handle_peer_sync_ack(p, S)
    \/ \E cutoff \in Stamp : CleanupPropagation(cutoff)
    \/ \E i \in Id, from \in Peer \cup {NoPeer} : Enqueue(i, from)
    \/ \E p \in Peer, i \in Id : QueueHandled(p, i)
    \/ FlushDistribution
    \/ \E p \in Peer : PeerEvent(p) \/ handle_control_request(p)
    \/ sync_peers \/ SavePeers
    \/ \E pn_ran \in BOOLEAN : tick(pn_ran)
    \/ NodeRestart \/ Configure \/ Day

Fairness == WF_vars(\E pn_ran \in BOOLEAN : tick(pn_ran))

Spec == Init /\ [][Next]_vars /\ Fairness

----------------------------------------------------------------------------
(* Type invariant; a peer's queues go with the peer, whoever drops it        *)
(* (unpeer, rotate_peers, sync_peers, a restart).                            *)
TypeOK ==
    /\ now \in Time /\ count \in 0 .. Cycle - 1 /\ boots \in 0 .. budget.restarts
    /\ DOMAIN entries \subseteq Id /\ Range(entries) \subseteq Stamp
    /\ files \subseteq [id : Id, at : Stamp]
    /\ DOMAIN processed \subseteq Id /\ Range(processed) \subseteq Time
    /\ DOMAIN saved \subseteq Id /\ Range(saved) \subseteq Time
    /\ dist \subseteq Id \X (Peer \cup {NoPeer})
    /\ handledQ \in [Peer -> SUBSET Id] /\ unhandledQ \in [Peer -> SUBSET Id]
    /\ handled \subseteq Id \X Peer /\ unhandled \subseteq Id \X Peer
    /\ DOMAIN peers \subseteq Peer /\ Range(peers) \subseteq PeerRecord(Time)
    /\ \A p \in Peer \ DOMAIN peers : handledQ[p] = {} /\ unhandledQ[p] = {}

(* Memory and disk agree on the store: a restart loses no message, and       *)
(* brings back none that was removed, but for those cleanup_propagation      *)
(* dropped without their files.                                              *)
StoreOnDisk ==
    /\ FilesOf(entries) \subseteq files
    /\ \A f \in files : f.id \in DOMAIN entries \cup leftover

(* A restart finds what the node had: its messages, and no peer that was     *)
(* dropped before (unpeer removes the file, whichever job or request called  *)
(* it).                                                                      *)
DiskFaithful == StoreOnDisk /\ DOMAIN savedPeers \subseteq DOMAIN peers

(* A file is that of the entry, or a second one of an id whose file was left *)
(* behind.  A cache knows when an id was last accepted for as long as it     *)
(* must, in memory and on disk: a restart forgets neither.                   *)
FilesAccounted == \A f \in files : f \in FilesOf(entries) \/ f.id \in leftover
Remembered(c) ==
    \A i \in Id : acceptedAt[i] # Never /\ now <= acceptedAt[i] + CacheExpiry =>
                    i \in DOMAIN c /\ c[i] >= acceptedAt[i]

(* The inductive invariant: the types, what a restart finds, and what these  *)
(* rest on.                                                                  *)
NodeInv ==
    /\ TypeOK /\ DiskFaithful
    /\ FilesAccounted /\ IsFiniteSet(files)
    /\ acceptedAt \in [Id -> Stamp] /\ Remembered(processed) /\ Remembered(saved)
    /\ IsFiniteSet(DOMAIN peers) /\ Range(savedPeers) \subseteq PeerRecord(Time)
    /\ budget \in [ids : SUBSET Id, dist : Nat, calls : Nat, restarts : Nat, until : Time]
    /\ IsFiniteSet(budget.ids)

(* process_propagated takes the same message again only after its identifier *)
(* has outlived the cache, whatever was cleaned or restarted in between.     *)
AcceptedOnce ==
    [][\A i \in Id : acceptedAt'[i] # acceptedAt[i] =>
          acceptedAt[i] = Never \/ now > acceptedAt[i] + CacheExpiry]_vars

(* A message a peer is known to have is not queued for it again: process_queues *)
(* marks it unhandled only if it was not marked handled before.              *)
HandledFinal ==
    [][\A m \in handled : m \notin unhandled => m \notin unhandled']_vars

(* What rotate_peers may do in a tick: it drops neither a peer the operator  *)
(* named nor one in the middle of an exchange, and leaves the table as full  *)
(* as the headroom asks, never with fewer than two peers.                    *)
RotationSafe ==
    [][LET out == DOMAIN peers \ DOMAIN peers' IN
       count' # count /\ out # {} /\ boots' = boots =>
          /\ out \cap Static = {}
          /\ \A p \in out : peers[p].state = Idle
          /\ Cardinality(DOMAIN peers') >= Max({2, MaxPeers - Headroom})]_vars

(* The store comes back within its limit and rid of expired messages over    *)
(* and over, because tick runs clean_propagation_store.                      *)
StoreReclaimed ==
    []<>(configured => Expired(entries) = {} /\ SizeOf(DOMAIN entries) <= Limit)

(* A message waiting to be marked for a peer, in the distribution queue or   *)
(* in the peer's own.                                                        *)
Pending(i, p) ==
    /\ p \in DOMAIN peers /\ i \in DOMAIN entries
    /\ i \in unhandledQ[p] \/ \E d \in dist : d[1] = i /\ d[2] # p

(* No message is dropped on the way from the distribution queue to the marks *)
(* of a peer, unless it or the peer goes or the node restarts: not when      *)
(* flushing races new messages, the peer's own handled queue or a rotation.  *)
NoneSkipped ==
    [][\A i \in Id, p \in Peer : Pending(i, p) /\ boots' = boots =>
          \/ Pending(i, p)' \/ <<i, p>> \in handled' \cup unhandled'
          \/ i \notin DOMAIN entries' \/ p \notin DOMAIN peers']_vars

(* As long as there are peers, tick empties the queues over and over.        *)
QueuesDrain == []<>(DOMAIN peers = {} \/ (dist = {} /\ unhandledQ = NoQueue))
=============================================================================
