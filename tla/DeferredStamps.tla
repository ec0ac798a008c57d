--------------------------- MODULE DeferredStamps ---------------------------
(***************************************************************************)
(* Messages whose stamp is made in the background (LxmfRouter::            *)
(* handle_outbound, the stamps part of LxmfRouter::tick and                *)
(* process_deferred_stamps in lxmf-rs/src/rns/router.rs): the main thread  *)
(* and the worker threads it spawns share a queue under a mutex that both  *)
(* only ever try to lock, an atomic flag and a channel.                    *)
(*                                                                         *)
(* One step is what a thread does between two accesses to shared state.    *)
(* Whether a message is deferred (defer_stamp, a known cost, no ticket) is *)
(* an input here.                                                          *)
(***************************************************************************)
EXTENDS Integers, Sequences, FiniteSets, Functions

CONSTANTS Msgs,   \* the messages the application sends, each once
          Batch   \* max_iterations: how many results one tick takes

ASSUME BatchAssumption == Batch \in Nat \ {0}

VARIABLES
    local,      \* deferred_outbound
    shared,     \* deferred_outbound_shared
    lock,       \* who holds the mutex of shared
    active,     \* stamp_processing_active
    channel,    \* processed_deferred_tx / _rx
    queued,     \* what was handed to RnsRouter::enqueue, in order
    main,       \* where the main thread is
    taken,      \* results taken so far in this tick
    current,    \* the message handle_outbound is about to share
    worker,     \* where the worker thread is; "none" when there is none
    item,       \* what the worker popped
    submitted   \* history: deferred messages in the order of handle_outbound

vars == <<local, shared, lock, active, channel, queued, main, taken, current,
          worker, item, submitted>>

None == "none"

Init ==
    /\ local = <<>> /\ shared = <<>> /\ channel = <<>> /\ queued = <<>>
    /\ lock = "free"
    /\ active = FALSE
    /\ main = "idle"
    /\ taken = 0
    /\ current = None
    /\ worker = None
    /\ item = None
    /\ submitted = <<>>

-----------------------------------------------------------------------------
(* The main thread.                                                        *)

new(m) == m \notin Range(queued) \cup Range(submitted)

\* handle_outbound of a message that needs no deferral.
handle_outbound_now(m) ==
    /\ main = "idle" /\ new(m)
    /\ queued' = Append(queued, m)
    /\ UNCHANGED <<local, shared, lock, active, channel, main, taken, current,
                   worker, item, submitted>>

\* handle_outbound of a deferred message: into the local queue, and into the
\* shared one if its lock is free at this moment.
handle_outbound(m) ==
    /\ main = "idle" /\ new(m)
    /\ local' = Append(local, m)
    /\ submitted' = Append(submitted, m)
    /\ IF lock = "free"
       THEN lock' = "main" /\ main' = "share" /\ current' = m
       ELSE UNCHANGED <<lock, main, current>>
    /\ UNCHANGED <<shared, active, channel, queued, taken, worker, item>>

\* shared.push_back, then the guard is dropped.
share ==
    /\ main = "share"
    /\ shared' = Append(shared, current)
    /\ lock' = "free"
    /\ main' = "idle"
    /\ current' = None
    /\ UNCHANGED <<local, active, channel, queued, taken, worker, item, submitted>>

\* tick, as far as stamps go, begins.
tick ==
    /\ main = "idle"
    /\ main' = "receive"
    /\ taken' = 0
    /\ UNCHANGED <<local, shared, lock, active, channel, queued, current, worker,
                   item, submitted>>

tail(s) == IF s = <<>> THEN s ELSE Tail(s)

\* try_recv found a result: it is enqueued, and the front of the local queue
\* is dropped for it.
try_recv ==
    /\ main = "receive" /\ taken < Batch /\ channel # <<>>
    /\ queued' = Append(queued, Head(channel))
    /\ channel' = Tail(channel)
    /\ local' = tail(local)
    /\ taken' = taken + 1
    /\ UNCHANGED <<shared, lock, active, main, current, worker, item, submitted>>

\* try_recv found nothing, or the limit is reached: is a worker running?
check_active ==
    /\ main = "receive"
    /\ taken = Batch \/ channel = <<>>
    /\ main' = IF active THEN "idle" ELSE "lock"
    /\ UNCHANGED <<local, shared, lock, active, channel, queued, taken, current,
                   worker, item, submitted>>

\* try_lock to see whether there is work.
peek ==
    /\ main = "lock"
    /\ IF lock = "free" THEN lock' = "main" /\ main' = "peek"
                        ELSE main' = "idle" /\ UNCHANGED lock
    /\ UNCHANGED <<local, shared, active, channel, queued, taken, current, worker,
                   item, submitted>>

\* Faulty variant of spawn: the flag is left to the worker to set.
spawn_unflagged ==
    /\ main = "peek"
    /\ lock' = "free"
    /\ main' = "idle"
    /\ IF shared # <<>> THEN worker' = "start" ELSE UNCHANGED worker
    /\ UNCHANGED <<local, shared, active, channel, queued, taken, current, item, submitted>>

\* Faulty variant of spawn: a single item is not found worth a worker.
spawn_off_by_one ==
    /\ main = "peek"
    /\ lock' = "free"
    /\ main' = "idle"
    /\ IF Len(shared) > 1 THEN active' = TRUE /\ worker' = "start"
                          ELSE UNCHANGED <<active, worker>>
    /\ UNCHANGED <<local, shared, channel, queued, taken, current, item, submitted>>

\* The guard is dropped; with work to do the flag is set and a worker spawned.
spawn ==
    /\ main = "peek"
    /\ lock' = "free"
    /\ main' = "idle"
    /\ IF shared # <<>> THEN active' = TRUE /\ worker' = "start"
                        ELSE UNCHANGED <<active, worker>>
    /\ UNCHANGED <<local, shared, channel, queued, taken, current, item, submitted>>

\* process_deferred_stamps, the explicit hook: everything in the local queue
\* up to max_items is enqueued; the shared queue is not looked at.
process_deferred_stamps(max_items) ==
    LET count == IF max_items < Len(local) THEN max_items ELSE Len(local)
    IN  /\ main = "idle"
        /\ count > 0
        /\ queued' = queued \o SubSeq(local, 1, count)
        /\ local' = SubSeq(local, count + 1, Len(local))
        /\ UNCHANGED <<shared, lock, active, channel, main, taken, current, worker,
                       item, submitted>>

-----------------------------------------------------------------------------
(* The worker thread.                                                      *)

\* try_lock; without the lock the worker has nothing to do.
worker_start ==
    /\ worker = "start"
    /\ IF lock = "free" THEN lock' = "worker" /\ worker' = "pop"
                        ELSE worker' = "clear" /\ UNCHANGED lock
    /\ UNCHANGED <<local, shared, active, channel, queued, main, taken, current, item,
                   submitted>>

\* Faulty variant of worker_pop: pop_back.
worker_pop_back ==
    /\ worker = "pop"
    /\ IF shared = <<>> THEN worker' = "unlock" /\ UNCHANGED <<shared, item>>
                        ELSE /\ item' = shared[Len(shared)]
                             /\ shared' = SubSeq(shared, 1, Len(shared) - 1)
                             /\ worker' = "send"
    /\ UNCHANGED <<local, lock, active, channel, queued, main, taken, current, submitted>>

worker_pop ==
    /\ worker = "pop"
    /\ IF shared = <<>> THEN worker' = "unlock" /\ UNCHANGED <<shared, item>>
                        ELSE /\ item' = Head(shared)
                             /\ shared' = Tail(shared)
                             /\ worker' = "send"
    /\ UNCHANGED <<local, lock, active, channel, queued, main, taken, current, submitted>>

worker_send ==
    /\ worker = "send"
    /\ channel' = Append(channel, item)
    /\ item' = None
    /\ worker' = "unlock"
    /\ UNCHANGED <<local, shared, lock, active, queued, main, taken, current, submitted>>

worker_unlock ==
    /\ worker = "unlock"
    /\ lock' = "free"
    /\ worker' = "clear"
    /\ UNCHANGED <<local, shared, active, channel, queued, main, taken, current, item,
                   submitted>>

worker_clear ==
    /\ worker = "clear"
    /\ active' = FALSE
    /\ worker' = None
    /\ UNCHANGED <<local, shared, lock, channel, queued, main, taken, current, item,
                   submitted>>

-----------------------------------------------------------------------------
Work == worker_start \/ worker_pop \/ worker_send \/ worker_unlock \/ worker_clear

\* The steps of one tick once it has begun, and of handle_outbound.
Continue == share \/ try_recv \/ check_active \/ peek \/ spawn

\* What the daemon does: send messages and tick.
DaemonNext ==
    \/ \E m \in Msgs : handle_outbound_now(m) \/ handle_outbound(m)
    \/ tick
    \/ Continue
    \/ Work

\* Spawned threads get to run, and the job loop keeps ticking.
DaemonSpec == /\ Init /\ [][DaemonNext]_vars
              /\ WF_vars(Work) /\ WF_vars(Continue) /\ WF_vars(tick)

\* With the explicit hook called as well.
HookNext == DaemonNext \/ \E max_items \in 1..Cardinality(Msgs) :
                              process_deferred_stamps(max_items)
HookSpec == Init /\ [][HookNext]_vars

-----------------------------------------------------------------------------
Locked == {"pop", "send", "unlock"}

TypeOK ==
    /\ local \in Seq(Msgs) /\ shared \in Seq(Msgs) /\ channel \in Seq(Msgs)
    /\ queued \in Seq(Msgs) /\ submitted \in Seq(Msgs)
    /\ lock \in {"free", "main", "worker"}
    /\ active \in BOOLEAN
    /\ main \in {"idle", "share", "receive", "lock", "peek"}
    /\ worker \in {None, "start", "clear"} \cup Locked
    /\ taken \in 0..Batch
    /\ main = "share" => current \in Msgs
    /\ worker = "send" => item \in Msgs

\* The mutex: a thread that is about to touch the shared queue holds it, and
\* the flag is set exactly while a worker lives. So there is one worker at
\* most, and the tick that found no worker always gets the lock.
LockDiscipline ==
    /\ lock = "main" <=> main \in {"share", "peek"}
    /\ lock = "worker" <=> worker \in Locked
    /\ active <=> worker # None
    /\ main \in {"lock", "peek"} => worker = None

\* The inductive invariant of DeferredStampsProofs.
StampsInv == TypeOK /\ LockDiscipline

InHand == IF worker = "send" THEN <<item>> ELSE <<>>
Sharing == IF main = "share" THEN <<current>> ELSE <<>>

\* What the background path holds, oldest first, and with what was handed to
\* the router before.
Background == channel \o InHand \o shared \o Sharing
Pipeline == queued \o Background

\* The application sends each message once, and the background path holds
\* nothing but deferred messages.
SubmittedOnce == \A a, b \in 1..Len(submitted) : submitted[a] = submitted[b] => a = b
BackgroundDeferred ==
    \A i \in 1..Len(Pipeline) : i > Len(queued) => Pipeline[i] \in Range(submitted)

\* No message is enqueued twice, whoever loses a race for the lock.
EnqueuedOnce == \A i, j \in 1..Len(Pipeline) : Pipeline[i] = Pipeline[j] => i = j

\* Deferred messages leave in the order they came in.
OrderKept ==
    \A i, j \in 1..Len(Pipeline) : \A a, b \in 1..Len(submitted) :
        i < j /\ Pipeline[i] = submitted[a] /\ Pipeline[j] = submitted[b] => a < b

\* Together: deferred messages leave once each and in the order they came in,
\* however the threads' steps interleave (worker_pop, worker_send, try_recv).
OnceInOrder == SubmittedOnce /\ BackgroundDeferred /\ EnqueuedOnce /\ OrderKept

\* A message that reached the shared queue is enqueued in the end, however the
\* two threads' attempts to lock collide.
SharedIsEnqueued ==
    \A m \in Msgs : m \in Range(shared) ~> m \in Range(queued)

\* A message accepted by handle_outbound is processed by some tick.
NeverStranded == \A m \in Msgs : m \in Range(submitted) ~> m \in Range(queued)

=============================================================================
