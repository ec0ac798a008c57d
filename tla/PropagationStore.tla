-------------------------- MODULE PropagationStore --------------------------
(* The message store of a propagation node: the entries in memory, their    *)
(* files, the cache of processed identifiers, and the queues through which  *)
(* a stored message is distributed to the peers.  The peers themselves are  *)
(* kept by PeerTable; PropagationNode puts the two together.                *)
(*                                                                          *)
(* The clock counts days.  A message is its transient id; of its bytes only *)
(* the length, the destination's priority and the validity of its stamp     *)
(* matter.  The queues of the code are drained whole against snapshots, so  *)
(* neither order nor repetition changes what they do: they are sets here.   *)
EXTENDS Integers, FiniteSets, FiniteSetsExt, Functions

CONSTANTS
    Id,          \* transient identifiers
    Peer,        \* identity hashes of other nodes
    NoPeer,      \* no remote identity
    Size,        \* length of a message's data
    Prioritised, \* messages to a destination the operator prioritised
    Stamped,     \* messages whose stamp is worth the node's minimum cost; it is
                 \* asked for from the start (set_propagation_validation)
    Limit,       \* bytes the operator allows the store
    Expiry,      \* MESSAGE_EXPIRY
    CacheExpiry, \* how long a processed identifier is remembered
    AgeUnit,     \* days of age after which a message starts to weigh more
    Start, MaxNow

ASSUME StoreAssumption ==
    /\ Size \in [Id -> Nat \ {0}]
    /\ Prioritised \subseteq Id /\ Stamped \subseteq Id
    /\ NoPeer \notin Peer
    /\ Limit \in Nat /\ Expiry \in Nat /\ AgeUnit \in Nat \ {0}
    /\ CacheExpiry \in Nat /\ CacheExpiry >= Expiry
    /\ Start \in Nat \ {0} /\ MaxNow \in Nat /\ Start <= MaxNow

VARIABLES
    now,
    entries,     \* id -> timestamp of the entries in memory
    files,       \* the files of the propagation directory
    processed,   \* locally_processed: id -> when
    saved,       \* its copy on disk
    configured,  \* the storage limit and the priorities have been set
    dist,        \* peer_distribution_queue: <<id, from_peer>>
    handledQ,    \* handled_messages_queue of each peer
    unhandledQ,  \* unhandled_messages_queue of each peer
    handled,     \* handled_peers: <<id, peer>>
    unhandled,   \* unhandled_peers: <<id, peer>>
    leftover,    \* history: ids cleanup_propagation dropped, file and all kept
    acceptedAt   \* history: when process_propagated last accepted an id

diskVars == <<entries, files, processed, saved>>
distVars == <<dist, handledQ, unhandledQ, handled, unhandled>>
storeVars == <<now, diskVars, configured, distVars, leftover, acceptedAt>>

Never == 0
Time == Start .. MaxNow
Stamp == {Never} \cup Time
NoQueue == [p \in Peer |-> {}]

(* An entry's file is named after the id and the timestamp.                 *)
File(i, at) == [id |-> i, at |-> at]
FilesOf(e) == {File(i, e[i]) : i \in DOMAIN e}

StoreInit ==
    /\ now = Start
    /\ entries = <<>> /\ files = {} /\ processed = <<>> /\ saved = <<>>
    /\ configured = FALSE
    /\ dist = {} /\ handledQ = NoQueue /\ unhandledQ = NoQueue
    /\ handled = {} /\ unhandled = {}
    /\ leftover = {} /\ acceptedAt = [i \in Id |-> Never]

----------------------------------------------------------------------------
(* Taking messages in                                                       *)

With(f, S, v) == [i \in DOMAIN f \cup S |-> IF i \in S THEN v ELSE f[i]]

(* The messages of a batch that process_propagated takes: stamped as the    *)
(* node demands, and neither stored nor processed before.                   *)
Fresh(batch) == {i \in batch : i \in Stamped /\ i \notin DOMAIN entries \cup DOMAIN processed}

(* Faulty variant of process_propagated: the cache is not saved.            *)
process_propagated_unsaved(batch, at) ==
    LET new == Fresh(batch) IN
    /\ entries' = With(entries, new, at)
    /\ files' = files \cup {File(i, at) : i \in new}
    /\ processed' = With(processed, new, now)
    /\ saved' = saved
    /\ acceptedAt' = [i \in Id |-> IF i \in new THEN now ELSE acceptedAt[i]]

(* process_propagated of every message of a batch: entry, file, cache and   *)
(* saved cache, in that order.                                              *)
process_propagated(batch, at) ==
    LET new == Fresh(batch) IN
    /\ entries' = With(entries, new, at)
    /\ files' = files \cup {File(i, at) : i \in new}
    /\ processed' = With(processed, new, now)
    /\ saved' = IF new = {} THEN saved ELSE processed'
    /\ acceptedAt' = [i \in Id |-> IF i \in new THEN now ELSE acceptedAt[i]]

(* A message alone carries its sender's timestamp; process_inbound_queue    *)
(* passes it on unchecked.                                                  *)
receive_propagated(i, at) ==
    /\ process_propagated({i}, at)
    /\ UNCHANGED <<now, configured, distVars, leftover>>

----------------------------------------------------------------------------
(* Cleaning                                                                 *)

(* clean_transient_cache: what is left of a cache.                          *)
clean_transient_cache(c) == Restrict(c, {i \in DOMAIN c : now <= c[i] + CacheExpiry})

clean_transient_id_caches ==
    /\ processed' = clean_transient_cache(processed)
    /\ saved' = IF processed' = processed THEN saved ELSE processed'

Expired(e) == {i \in DOMAIN e : e[i] = Never \/ now > e[i] + Expiry}

SizeOf(S) == MapThenSumSet(LAMBDA i : Size[i], S)

(* What a message weighs when room is needed: its size, ten times as much   *)
(* without priority, and more with every day beyond AgeUnit.                *)
Weight(e, i) ==
    (IF i \in Prioritised THEN 1 ELSE 10) * Max({AgeUnit, now - e[i]}) * Size[i]

(* Faulty variant of Dropped: the entry that would free enough stays.       *)
Dropped_short(e, limit) ==
    LET needed == SizeOf(DOMAIN e) - limit IN
    IF needed <= 0 THEN {{}} ELSE
    {S \in SUBSET DOMAIN e :
        /\ SizeOf(S) < needed
        /\ \A i \in S, j \in DOMAIN e \ S : Weight(e, i) >= Weight(e, j)}

(* The entries dropped for room: a prefix of some order by falling weight,  *)
(* the shortest that frees enough.                                          *)
Dropped(e, limit) ==
    LET needed == SizeOf(DOMAIN e) - limit IN
    IF needed <= 0 THEN {{}} ELSE
    {S \in SUBSET DOMAIN e :
        /\ SizeOf(S) >= needed
        /\ \A i \in S, j \in DOMAIN e \ S : Weight(e, i) >= Weight(e, j)
        /\ \E last \in S : /\ SizeOf(S \ {last}) < needed
                           /\ \A i \in S : Weight(e, i) >= Weight(e, last)}

(* Faulty variant of clean_propagation_store: only expired files go.        *)
clean_propagation_store_files ==
    LET live == Restrict(entries, DOMAIN entries \ Expired(entries)) IN
    \E out \in IF configured THEN Dropped(live, Limit) ELSE {{}} :
        /\ entries' = Restrict(live, DOMAIN live \ out)
        /\ files' = files \ FilesOf(Restrict(entries, Expired(entries)))

(* clean_propagation_store: expired entries first, then what does not fit.  *)
(* An entry's file goes with it; the peers' marks on it stay.               *)
clean_propagation_store ==
    LET live == Restrict(entries, DOMAIN entries \ Expired(entries)) IN
    \E out \in IF configured THEN Dropped(live, Limit) ELSE {{}} :
        /\ entries' = Restrict(live, DOMAIN live \ out)
        /\ files' = files \ FilesOf(Restrict(entries, Expired(entries) \cup out))

(* cleanup_propagation (remove_older_than): entries at or before a cutoff,  *)
(* with the peers' marks on them but without their files.                   *)
cleanup_propagation(cutoff) ==
    LET old == {i \in DOMAIN entries : entries[i] <= cutoff} IN
    /\ old # {}
    /\ entries' = Restrict(entries, DOMAIN entries \ old)
    /\ handled' = {m \in handled : m[1] \notin old}
    /\ unhandled' = {m \in unhandled : m[1] \notin old}
    /\ leftover' = leftover \cup old
    /\ UNCHANGED <<now, files, processed, saved, configured, dist, handledQ, unhandledQ, acceptedAt>>

----------------------------------------------------------------------------
(* Distribution to the peers                                                *)

enqueue_peer_distribution(i, from) ==
    /\ <<i, from>> \notin dist
    /\ dist' = dist \cup {<<i, from>>}
    /\ UNCHANGED <<now, diskVars, configured, handledQ, unhandledQ, handled, unhandled, leftover, acceptedAt>>

queue_handled_message(p, i) ==
    /\ i \notin handledQ[p]
    /\ handledQ' = [handledQ EXCEPT ![p] = @ \cup {i}]
    /\ UNCHANGED <<now, diskVars, configured, dist, unhandledQ, handled, unhandled, leftover, acceptedAt>>

(* Faulty variant of FlushedTo: only what came from nobody is handed on.    *)
FlushedTo_own(p) == unhandledQ[p] \cup {m[1] : m \in {d \in dist : d[2] = NoPeer}}

(* What a peer has queued once the distribution queue has been handed to    *)
(* every peer but the one a message came from.                              *)
FlushedTo(p) ==
    unhandledQ[p] \cup {m[1] : m \in {d \in dist : d[2] # p}}

flush_peer_distribution_queue(peers) ==
    /\ dist # {}
    /\ dist' = {}
    /\ unhandledQ' = [p \in Peer |-> IF p \in peers THEN FlushedTo(p) ELSE unhandledQ[p]]
    /\ UNCHANGED <<now, diskVars, configured, handledQ, handled, unhandled, leftover, acceptedAt>>

(* Faulty variant of process_queues: the marks a peer had do not count.     *)
process_queues_again(p, uq, stored) ==
    [handled |-> handledQ[p] \cap stored, unhandled |-> uq \cap stored]

(* process_queues: the marks a peer's queues leave, judged by the marks it  *)
(* had before; only stored messages are marked or unmarked.                 *)
process_queues(p, uq, stored) ==
    [handled |-> handledQ[p] \cap stored,
     unhandled |-> {i \in uq \cap stored : <<i, p>> \notin handled \cup unhandled}]

(* Faulty variant of flush_queues: nothing is ever taken from the queues.   *)
flush_queues_kept(peers, stored) ==
    LET given == UNION {process_queues(p, FlushedTo(p), stored).unhandled \X {p} : p \in peers} IN
    unhandled' = unhandled \cup given /\ UNCHANGED <<dist, handledQ, unhandledQ, handled>>

(* flush_queues, for the given peers and stored messages.                   *)
flush_queues(peers, stored) ==
    LET marks == [p \in peers |-> process_queues(p, FlushedTo(p), stored)]
        taken == UNION {marks[p].handled \X {p} : p \in peers}
        given == UNION {marks[p].unhandled \X {p} : p \in peers} IN
    IF peers = {} THEN UNCHANGED distVars ELSE
    /\ dist' = {} /\ handledQ' = NoQueue /\ unhandledQ' = NoQueue
    /\ handled' = handled \cup taken
    /\ unhandled' = (unhandled \ taken) \cup given

(* Faulty variant of Forget: the queues of a dropped peer stay.             *)
Forget_not(S) == UNCHANGED <<handledQ, unhandledQ>>

(* The queues of a peer go with it.                                         *)
Forget(S) ==
    /\ handledQ' = [p \in Peer |-> IF p \in S THEN {} ELSE handledQ[p]]
    /\ unhandledQ' = [p \in Peer |-> IF p \in S THEN {} ELSE unhandledQ[p]]

----------------------------------------------------------------------------
(* Configuration and restart                                                *)

(* set_message_storage_limit, prioritise_destination: apply_router_config   *)
(* calls them after the router has been built.                              *)
configure ==
    /\ ~configured
    /\ configured' = TRUE
    /\ UNCHANGED <<now, diskVars, distVars, leftover, acceptedAt>>

(* load_propagation_store: one entry for every id with a file whose name    *)
(* parses (a timestamp that is not positive does not); which, if there are  *)
(* several, is up to the directory's order.  The other files are deleted.   *)
Loadable(fs) == {f \in fs : f.at # Never}
load_propagation_store(fs) ==
    {e \in [{f.id : f \in Loadable(fs)} -> Time] : FilesOf(e) \subseteq fs}

(* with_store_and_root on the given files and saved cache: load, then clean *)
(* both caches and the store, the limit not being known yet.                *)
with_store_and_root(fs, cache) ==
    /\ \E e \in load_propagation_store(fs) :
        /\ entries' = Restrict(e, DOMAIN e \ Expired(e))
        /\ files' = Loadable(fs) \ FilesOf(Restrict(e, Expired(e)))
    /\ processed' = clean_transient_cache(cache)
    /\ saved' = processed'
    /\ configured' = FALSE
    /\ dist' = {} /\ handledQ' = NoQueue /\ unhandledQ' = NoQueue
    /\ handled' = {} /\ unhandled' = {}

(* The process ends between two operations.                                 *)
Restart ==
    /\ with_store_and_root(files, saved)
    /\ UNCHANGED <<now, leftover, acceptedAt>>

(* The process ends inside process_propagated: the file has been written,   *)
(* the cache has not been saved, and nobody was told of an acceptance.      *)
CrashInProcess(i, at) ==
    /\ i \in Fresh({i})
    /\ with_store_and_root(files \cup {File(i, at)}, saved)
    /\ UNCHANGED <<now, leftover, acceptedAt>>

Tick ==
    /\ now < MaxNow
    /\ now' = now + 1
    /\ UNCHANGED <<diskVars, configured, distVars, leftover, acceptedAt>>
=============================================================================
