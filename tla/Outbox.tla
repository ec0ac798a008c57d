------------------------------- MODULE Outbox -------------------------------
(***************************************************************************)
(* The outbound side of RnsRouter (lxmf-rs/src/rns/router.rs): the FIFO    *)
(* queue of messages waiting for delivery, retry with exponential delay,   *)
(* in-flight tracking, and the FileMessageStore directory that survives a  *)
(* crash of the process.                                                   *)
(*                                                                         *)
(* Process memory:  outbound, failed, inflight, next_id, handed            *)
(* On disk:         disk_out   (storage/outbound/<id>.mpk)                 *)
(*                  disk_failed (storage/failed/<id>.mpk)                  *)
(* History (for the properties only): accepted, tries, sent, gave_up, torn *)
(***************************************************************************)
EXTENDS Integers, Sequences, FiniteSets, Functions

CONSTANTS Msgs,         \* the messages the application may send
          MaxAttempts,  \* RetryPolicy.max_attempts
          BaseDelay,    \* RetryPolicy.base_delay_ms
          MaxDelay,     \* RetryPolicy.max_delay_ms
          Timeouts,     \* the timeout_ms values passed to mark_inflight
          MaxNow,       \* bound: the clock stops here unless something waits
          MaxCrashes    \* bound: how often the process may die

ASSUME PolicyAssumption == /\ MaxAttempts \in Nat
                           /\ BaseDelay \in Nat
                           /\ MaxDelay \in Nat
ASSUME BoundAssumption == /\ Timeouts \subseteq Nat
                          /\ MaxNow \in Nat
                          /\ MaxCrashes \in Nat

VARIABLES outbound, failed, inflight, next_id, handed,
          disk_out, disk_failed,
          now, crashes,
          accepted, tries, sent, gave_up, torn

memory == <<outbound, failed, inflight, next_id, handed>>
disk == <<disk_out, disk_failed>>
clock == <<now, crashes>>
history == <<accepted, tries, sent, gave_up, torn>>
vars == <<memory, disk, clock, history>>

-----------------------------------------------------------------------------
(* QueuedMessage, the record of it that save_outbound writes under its id, *)
(* and the InflightDelivery table.                                         *)

Item == [id : Nat, msg : Msgs, attempts : Nat, at : Int]
Saved == [msg : Msgs, attempts : Nat, at : Int]
Failure == [id : Nat, msg : Msgs]
Flight == [msg : Msgs, sent_at : Nat, timeout : Nat]

Record(item) == [msg |-> item.msg, attempts |-> item.attempts, at |-> item.at]

\* std::fs::write of <id>.mpk: a second write of the same id overwrites it.
write_file(dir, id, rec) ==
    [k \in DOMAIN dir \cup {id} |-> IF k = id THEN rec ELSE dir[k]]

\* Faulty variant of remove_file: the file stays.
remove_file_ignored(dir, id) == dir

\* std::fs::remove_file of <id>.mpk
remove_file(dir, id) == Restrict(dir, DOMAIN dir \ {id})

Empty == [k \in {} |-> k]

\* The retry branch's condition, `tried` counting the attempt that just failed.
AttemptsLeft(tried) == tried < MaxAttempts

\* The delay before the next attempt, after `attempt` failed ones.
retry_delay_ms(attempt) ==
    LET pow == IF attempt - 1 < 20 THEN attempt - 1 ELSE 20
        delay == BaseDelay * 2^pow
    IN  IF delay <= MaxDelay THEN delay ELSE MaxDelay

-----------------------------------------------------------------------------
Init ==
    /\ outbound = <<>>
    /\ failed = <<>>
    /\ inflight = Empty
    /\ next_id = 1
    /\ handed = {}
    /\ disk_out = Empty
    /\ disk_failed = Empty
    /\ now = 0
    /\ crashes = 0
    /\ accepted = {}
    /\ tries = [m \in Msgs |-> 0]
    /\ sent = [m \in Msgs |-> 0]
    /\ gave_up = {}
    /\ torn = {}

\* RnsRouter::enqueue. Each message of Msgs is enqueued at most once.
enqueue(m) ==
    /\ m \notin accepted
    /\ LET item == [id |-> next_id, msg |-> m, attempts |-> 0, at |-> 0]
       IN  /\ disk_out' = write_file(disk_out, next_id, Record(item))
           /\ outbound' = Append(outbound, item)
    /\ next_id' = next_id + 1
    /\ accepted' = accepted \cup {m}
    /\ UNCHANGED <<failed, inflight, handed, disk_failed, clock,
                   tries, sent, gave_up, torn>>

-----------------------------------------------------------------------------
(* next_delivery_with_retry. With an empty queue, or a head that is not    *)
(* due, it returns None and changes nothing. Otherwise the head is popped, *)
(* its attempt counted, and RnsOutbound::deliver has one of three results. *)

HeadDue == outbound # <<>> /\ now >= Head(outbound).at

\* deliver returned Ok: the file is removed and the delivery is handed to
\* the caller, who sends it on the transport.
DeliverOk ==
    /\ HeadDue
    /\ LET item == Head(outbound)
       IN  /\ handed' = handed \cup {[id |-> item.id, msg |-> item.msg]}
           /\ disk_out' = remove_file(disk_out, item.id)
           /\ tries' = [tries EXCEPT ![item.msg] = @ + 1]
           /\ sent' = [sent EXCEPT ![item.msg] = @ + 1]
    /\ outbound' = Tail(outbound)
    /\ UNCHANGED <<failed, inflight, next_id, disk_failed, clock,
                   accepted, gave_up, torn>>

\* Faulty variant of DeliverRetry: the item is saved but not queued again.
DeliverRetry_dropped ==
    /\ HeadDue
    /\ LET head == Head(outbound)
       IN  /\ AttemptsLeft(head.attempts + 1)
           /\ disk_out' = write_file(disk_out, head.id,
                              Record([head EXCEPT !.attempts = @ + 1]))
           /\ tries' = [tries EXCEPT ![head.msg] = @ + 1]
    /\ outbound' = Tail(outbound)
    /\ UNCHANGED <<failed, inflight, next_id, handed, disk_failed, clock,
                   accepted, sent, gave_up, torn>>

\* Faulty variant of DeliverRetry: every failed attempt is reported as a failure.
DeliverRetry_reported ==
    /\ HeadDue
    /\ LET head == Head(outbound)
           tried == head.attempts + 1
           item == [head EXCEPT !.attempts = tried,
                                !.at = now + retry_delay_ms(tried)]
       IN  /\ AttemptsLeft(tried)
           /\ disk_out' = write_file(disk_out, item.id, Record(item))
           /\ outbound' = Append(Tail(outbound), item)
           /\ tries' = [tries EXCEPT ![item.msg] = @ + 1]
           /\ gave_up' = gave_up \cup {item.msg}
    /\ UNCHANGED <<failed, inflight, next_id, handed, disk_failed, clock,
                   accepted, sent, torn>>

\* deliver failed and attempts remain: the item goes to the back of the
\* queue with its next attempt time, and its file is overwritten.
DeliverRetry ==
    /\ HeadDue
    /\ LET head == Head(outbound)
           tried == head.attempts + 1
           item == [head EXCEPT !.attempts = tried,
                                !.at = now + retry_delay_ms(tried)]
       IN  /\ AttemptsLeft(tried)
           /\ disk_out' = write_file(disk_out, item.id, Record(item))
           /\ outbound' = Append(Tail(outbound), item)
           /\ tries' = [tries EXCEPT ![item.msg] = @ + 1]
    /\ UNCHANGED <<failed, inflight, next_id, handed, disk_failed, clock,
                   accepted, sent, gave_up, torn>>

\* deliver failed for good: a crypto policy violation, or no attempt is left.
\* The outbound file is removed first, the failure record written second.
DeliverFail(policy_violation) ==
    /\ HeadDue
    /\ LET item == Head(outbound)
           failure == [id |-> item.id, msg |-> item.msg]
       IN  /\ policy_violation \/ ~AttemptsLeft(item.attempts + 1)
           /\ disk_out' = remove_file(disk_out, item.id)
           /\ disk_failed' = write_file(disk_failed, item.id, item.msg)
           /\ failed' = Append(failed, failure)
           /\ tries' = [tries EXCEPT ![item.msg] = @ + 1]
           /\ gave_up' = gave_up \cup {item.msg}
    /\ outbound' = Tail(outbound)
    /\ UNCHANGED <<inflight, next_id, handed, clock, accepted, sent, torn>>

next_delivery_with_retry ==
    \/ DeliverOk
    \/ DeliverRetry
    \/ \E policy_violation \in BOOLEAN : DeliverFail(policy_violation)

\* Faulty variant of next_delivery_err: the file is removed with the item.
next_delivery_err_removed ==
    /\ HeadDue
    /\ disk_out' = remove_file(disk_out, Head(outbound).id)
    /\ outbound' = Tail(outbound)
    /\ UNCHANGED <<failed, inflight, next_id, handed, disk_failed, clock, history>>

\* next_delivery, the variant without retry. Its Ok branch is DeliverOk; on
\* an error the popped item is dropped from memory, its file stays.
next_delivery_err ==
    /\ HeadDue
    /\ outbound' = Tail(outbound)
    /\ UNCHANGED <<failed, inflight, next_id, handed, disk, clock, history>>

-----------------------------------------------------------------------------
(* Receipts of handed deliveries.                                          *)

\* mark_inflight: the caller has sent the delivery and awaits its receipt.
mark_inflight(d, timeout) ==
    /\ inflight' = write_file(inflight, d.id,
                         [msg |-> d.msg, sent_at |-> now, timeout |-> timeout])
    /\ handed' = handed \ {d}
    /\ UNCHANGED <<outbound, failed, next_id, disk, clock, history>>

\* The caller has sent the delivery and keeps no track of it (the daemon's
\* dispatch_deliveries).
dispatch(d) ==
    /\ handed' = handed \ {d}
    /\ UNCHANGED <<outbound, failed, inflight, next_id, disk, clock, history>>

\* mark_delivered: the receipt came.
mark_delivered(id) ==
    /\ inflight' = remove_file(inflight, id)
    /\ UNCHANGED <<outbound, failed, next_id, handed, disk, clock, history>>

\* mark_failed, called for one in-flight delivery.
mark_failed(id) ==
    /\ inflight' = remove_file(inflight, id)
    /\ disk_failed' = write_file(disk_failed, id, inflight[id].msg)
    /\ failed' = Append(failed, [id |-> id, msg |-> inflight[id].msg])
    /\ gave_up' = gave_up \cup {inflight[id].msg}
    /\ UNCHANGED <<outbound, next_id, handed, disk_out, clock,
                   accepted, tries, sent, torn>>

\* poll_timeouts: mark_failed for every delivery whose time is up, in the
\* arbitrary order of a HashMap.
Expired(id) == now - inflight[id].sent_at >= inflight[id].timeout

poll_timeouts ==
    LET expired == {id \in DOMAIN inflight : Expired(id)}
        lost == {inflight[id].msg : id \in expired}
    IN  /\ expired # {}
        /\ inflight' = Restrict(inflight, DOMAIN inflight \ expired)
        /\ disk_failed' = [k \in DOMAIN disk_failed \cup expired |->
                              IF k \in expired THEN inflight[k].msg
                                               ELSE disk_failed[k]]
        /\ \E order \in {s \in [1..Cardinality(expired) -> expired] : IsInjective(s)} :
              failed' = failed \o [i \in 1..Cardinality(expired) |->
                           [id |-> order[i], msg |-> inflight[order[i]].msg]]
        /\ gave_up' = gave_up \cup lost
        /\ UNCHANGED <<outbound, next_id, handed, disk_out, clock,
                       accepted, tries, sent, torn>>

pop_failed ==
    /\ failed # <<>>
    /\ failed' = Tail(failed)
    /\ UNCHANGED <<outbound, inflight, next_id, handed, disk, clock, history>>

-----------------------------------------------------------------------------
(* Death of the process and with_store on the next start.                  *)

Sorted(S) == {s \in [1..Cardinality(S) -> S] :
                 \A i, j \in 1..Cardinality(S) : i < j => s[i] < s[j]}

\* The offset restore_outbound takes off every next_attempt_at_ms: the
\* smallest of them (which is 0, no shift, if one item is due immediately).
Base(dir) == LET ats == {dir[k].at : k \in DOMAIN dir}
             IN  IF ats = {} THEN {0} ELSE {b \in ats : \A a \in ats : b <= a}

\* Faulty variant of restore_outbound: next_id starts again at 1.
restore_outbound_reused_ids(dir) ==
    \E ids \in Sorted(DOMAIN dir), base \in Base(dir) :
        /\ outbound' = [i \in 1..Len(ids) |->
                           [id |-> ids[i], msg |-> dir[ids[i]].msg,
                            attempts |-> dir[ids[i]].attempts,
                            at |-> dir[ids[i]].at - base]]
        /\ next_id' = 1

\* restore_outbound: the files in id order; next_id follows the largest id.
restore_outbound(dir) ==
    \E ids \in Sorted(DOMAIN dir), base \in Base(dir) :
        /\ outbound' = [i \in 1..Len(ids) |->
                           [id |-> ids[i], msg |-> dir[ids[i]].msg,
                            attempts |-> dir[ids[i]].attempts,
                            at |-> dir[ids[i]].at - base]]
        /\ next_id' = IF ids = <<>> THEN 1 ELSE ids[Len(ids)] + 1

\* The rest of with_store: everything that was only in memory is gone.
fresh_memory == failed' = <<>> /\ inflight' = Empty /\ handed' = {}

\* The process dies between two calls and is started again.
restart ==
    /\ crashes < MaxCrashes
    /\ restore_outbound(disk_out)
    /\ fresh_memory
    /\ crashes' = crashes + 1
    /\ UNCHANGED <<disk, now, history>>

\* The process dies inside next_delivery_with_retry, between remove_outbound
\* and save_failed of a final failure.
crash_in_failure(policy_violation) ==
    /\ crashes < MaxCrashes
    /\ HeadDue
    /\ LET item == Head(outbound)
           dir == remove_file(disk_out, item.id)
       IN  /\ policy_violation \/ ~AttemptsLeft(item.attempts + 1)
           /\ disk_out' = dir
           /\ restore_outbound(dir)
           /\ tries' = [tries EXCEPT ![item.msg] = @ + 1]
           /\ torn' = torn \cup {item.msg}
    /\ fresh_memory
    /\ crashes' = crashes + 1
    /\ UNCHANGED <<disk_failed, now, accepted, sent, gave_up>>

\* Time passes: up to MaxNow, and further while the head of the queue is not
\* due yet (the bound never keeps a queued message waiting for ever).
tick ==
    /\ now < MaxNow \/ (outbound # <<>> /\ ~HeadDue)
    /\ now' = now + 1
    /\ UNCHANGED <<memory, disk, crashes, history>>

-----------------------------------------------------------------------------
\* What the job loop and the application do.
RuntimeNext ==
    \/ \E m \in Msgs : enqueue(m)
    \/ next_delivery_with_retry
    \/ \E d \in handed : dispatch(d) \/ \E t \in Timeouts : mark_inflight(d, t)
    \/ \E id \in DOMAIN inflight : mark_delivered(id) \/ mark_failed(id)
    \/ poll_timeouts
    \/ pop_failed
    \/ restart
    \/ \E policy_violation \in BOOLEAN : crash_in_failure(policy_violation)
    \/ tick

\* Every public operation, the retry-less next_delivery included.
Next == RuntimeNext \/ next_delivery_err

Spec == Init /\ [][Next]_vars

\* The job loop calls next_delivery_with_retry until it returns None on every
\* outbound interval, and time passes.
RuntimeSpec == /\ Init /\ [][RuntimeNext]_vars
               /\ WF_vars(next_delivery_with_retry)
               /\ WF_vars(tick)

-----------------------------------------------------------------------------
TypeOK ==
    /\ outbound \in Seq(Item)
    /\ failed \in Seq(Failure)
    /\ DOMAIN inflight \subseteq Nat /\ IsFiniteSet(DOMAIN inflight)
    /\ \A id \in DOMAIN inflight : inflight[id] \in Flight
    /\ next_id \in Nat
    /\ handed \subseteq Failure
    /\ DOMAIN disk_out \subseteq Nat
    /\ \A id \in DOMAIN disk_out : disk_out[id] \in Saved
    /\ DOMAIN disk_failed \subseteq Nat
    /\ \A id \in DOMAIN disk_failed : disk_failed[id] \in Msgs
    /\ now \in Nat
    /\ crashes \in Nat
    /\ accepted \subseteq Msgs
    /\ tries \in [Msgs -> Nat]
    /\ sent \in [Msgs -> Nat]
    /\ gave_up \subseteq Msgs
    /\ torn \subseteq Msgs

OnDisk == {disk_out[id].msg : id \in DOMAIN disk_out}

\* Whatever is queued in memory would be restored by a restart: each queued
\* item has a file under its own id holding the same message and the same
\* attempt count (save_outbound in enqueue and in the retry branch).
QueueIsPersisted ==
    \A i \in 1..Len(outbound) :
        LET item == outbound[i]
        IN  /\ item.id \in DOMAIN disk_out
            /\ disk_out[item.id].msg = item.msg
            /\ disk_out[item.id].attempts = item.attempts

\* Over any number of crashes and restarts, a message is handed to the
\* transport at most once: remove_outbound precedes the hand-over, and ids of
\* live files are never given out again.
HandedOverOnce == \A m \in Msgs : sent[m] <= 1

\* No accepted message disappears without trace: it is still on disk, or it
\* was handed over, or it was recorded as failed, or the process died in the
\* window between removing its file and writing the failure record.
Accounted == accepted \subseteq
                 OnDisk \cup {m \in Msgs : sent[m] = 1} \cup gave_up \cup torn

\* The retry budget holds across restarts: a crash never gives a message more
\* than max_attempts delivery attempts (one, when max_attempts is 0).
RetryBudget == \A m \in Msgs : tries[m] <= IF MaxAttempts = 0 THEN 1
                                                              ELSE MaxAttempts

\* The failed/ directory keeps every failure (FailedDelivery records are
\* retained): a message reported as failed still has its record on disk.
FailedRetained == gave_up \subseteq Range(disk_failed)

\* What Delivery promises is kept by the queue and its files: for a message, a
\* file in outbound/ is a delivery that is still open, and a restart, a retry
\* without an attempt left over, or a reused id changes nothing that an
\* observer of the messages could tell.
Promise == INSTANCE Delivery WITH
               waiting <- OnDisk,
               over <- {m \in Msgs : sent[m] > 0},
               failed <- gave_up,
               lost <- torn,
               tried <- tries
ImplementsDelivery == Promise!Spec

\* Every accepted message is eventually handed over or given up on (or lost
\* in the crash window).
EventuallyResolved ==
    \A m \in Msgs : m \in accepted ~> (sent[m] = 1 \/ m \in gave_up \cup torn)

-----------------------------------------------------------------------------
(* The inductive invariant behind the safety properties (OutboxProofs).    *)

\* Queue positions have distinct ids, and no id of a live file will be given
\* out again.
IdsDistinct ==
    /\ \A i, j \in 1..Len(outbound) : outbound[i].id = outbound[j].id => i = j
    /\ \A id \in DOMAIN disk_out : id < next_id

\* A message has at most one file, was accepted, and has not been handed over;
\* its file counts exactly the attempts made.
FilesAreOpen ==
    \A id \in DOMAIN disk_out :
        LET m == disk_out[id].msg
        IN  /\ \A other \in DOMAIN disk_out : disk_out[other].msg = m => other = id
            /\ m \in accepted
            /\ sent[m] = 0
            /\ tries[m] = disk_out[id].attempts
            /\ disk_out[id].attempts = 0 \/ disk_out[id].attempts < MaxAttempts

\* A message that was never accepted has never been tried or handed over.
UntouchedBefore == \A m \in Msgs \ accepted : tries[m] = 0 /\ sent[m] = 0

OutboxInv == /\ TypeOK
             /\ IdsDistinct
             /\ QueueIsPersisted
             /\ FilesAreOpen
             /\ UntouchedBefore
             /\ HandedOverOnce
             /\ RetryBudget
             /\ Accounted

=============================================================================
