---------------------------- MODULE OutboxProofs ----------------------------
(***************************************************************************)
(* Machine-checked proofs about Outbox, for any set of messages, any retry *)
(* policy and any number of crashes: what a restart rebuilds from the      *)
(* outbound directory, what each operation preserves, and that Outbox      *)
(* implements Delivery (with the files of outbound/ read as the messages   *)
(* that wait, every step of the queue is a step of Delivery or changes     *)
(* nothing there; a restart changes nothing).                              *)
(***************************************************************************)
EXTENDS Outbox, FiniteSetTheorems, TLAPS

\* The default at a leaf that names no other prover.
USE ZenonT(60)

USE DEF write_file, remove_file, Restrict

-----------------------------------------------------------------------------
(* What a restart rebuilds from the outbound directory.                    *)

\* A directory of well-typed records whose ids lie below some number.
Directory(dir, bound) ==
    /\ DOMAIN dir \subseteq Nat
    /\ \A k \in DOMAIN dir : dir[k] \in Saved
    /\ bound \in Nat
    /\ \A k \in DOMAIN dir : k < bound

\* A strictly increasing enumeration of length Cardinality(S) reaches every
\* element of S: the restored queue misses no file.
LEMMA SortedCovers ==
  ASSUME NEW S \in SUBSET Nat, NEW b \in Nat, \A k \in S : k < b,
         NEW s \in Sorted(S)
  PROVE  /\ Cardinality(S) \in Nat
         /\ s \in [1..Cardinality(S) -> S]
         /\ \A k \in S : \E i \in 1..Cardinality(S) : s[i] = k
<1> DEFINE n == Cardinality(S)
<1>1. IsFiniteSet(S)
  BY SMTT(60), FS_BoundedSetOfNaturals
<1>2. n \in Nat
  BY <1>1, FS_CardinalityType
<1>3. s \in [1..n -> S] /\ \A i, j \in 1..n : i < j => s[i] < s[j]
  BY DEF Sorted
<1>4. s \in Injection(1..n, S)
  <2>1. ASSUME NEW i \in 1..n, NEW j \in 1..n, s[i] = s[j]
        PROVE  i = j
    <3>1. s[i] \in Nat /\ s[j] \in Nat
      BY <1>3
    <3>2. i < j \/ i = j \/ j < i
      BY SMTT(60), <1>2
    <3> QED
      BY SMTT(60), <1>3, <2>1, <3>1, <3>2
  <2> QED
    BY <1>3, <2>1 DEF Injection, IsInjective
<1>5. Cardinality(1..n) = n
  BY SMTT(60), <1>2, FS_Interval
<1>6. s \in Surjection(1..n, S)
  BY <1>1, <1>4, <1>5, FS_Injection
<1> QED
  BY <1>2, <1>3, <1>6 DEF Surjection

\* restore_outbound yields a well-typed queue of distinct ids, each with its
\* file, and a next_id above every file.
LEMMA RestoreLemma ==
  ASSUME NEW dir, NEW b, Directory(dir, b), restore_outbound(dir)
  PROVE  /\ outbound' \in Seq(Item)
         /\ next_id' \in Nat
         /\ \A id \in DOMAIN dir : id < next_id'
         /\ \A i, j \in 1..Len(outbound') :
                outbound'[i].id = outbound'[j].id => i = j
         /\ \A i \in 1..Len(outbound') :
                /\ outbound'[i].id \in DOMAIN dir
                /\ dir[outbound'[i].id].msg = outbound'[i].msg
                /\ dir[outbound'[i].id].attempts = outbound'[i].attempts
<1> DEFINE S == DOMAIN dir
<1> DEFINE n == Cardinality(S)
<1>1. PICK ids \in Sorted(S), base \in Base(dir) :
        /\ outbound' = [i \in 1..Len(ids) |->
                           [id |-> ids[i], msg |-> dir[ids[i]].msg,
                            attempts |-> dir[ids[i]].attempts,
                            at |-> dir[ids[i]].at - base]]
        /\ next_id' = IF ids = <<>> THEN 1 ELSE ids[Len(ids)] + 1
  BY DEF restore_outbound
<1>2. /\ n \in Nat
      /\ ids \in [1..n -> S]
      /\ \A k \in S : \E i \in 1..n : ids[i] = k
  BY SortedCovers DEF Directory
<1>3. \A i, j \in 1..n : i < j => ids[i] < ids[j]
  BY DEF Sorted
<1>4. ids \in Seq(S) /\ Len(ids) = n
  BY SMTT(60), <1>2
<1>5. \A i \in 1..n : ids[i] \in Nat /\ dir[ids[i]] \in Saved
  BY <1>2 DEF Directory
<1>6. base \in Int
  BY SMTT(60) DEF Base, Directory, Saved
<1>7. outbound' \in Seq(Item) /\ Len(outbound') = n
  <2>1. \A i \in 1..n : outbound'[i] \in Item
    BY SMTT(60), <1>1, <1>4, <1>5, <1>6 DEF Item, Saved
  <2>2. outbound' \in [1..n -> Item]
    BY <1>1, <1>4, <2>1
  <2> QED
    BY SMTT(60), <1>2, <2>2
<1>8. \A i \in 1..n : /\ outbound'[i].id = ids[i]
                      /\ outbound'[i].msg = dir[ids[i]].msg
                      /\ outbound'[i].attempts = dir[ids[i]].attempts
  BY <1>1, <1>4
<1>9. next_id' \in Nat /\ \A id \in S : id < next_id'
  <2>1. CASE n = 0
    BY SMTT(60), <1>1, <1>2, <1>4, <2>1
  <2>2. CASE n # 0
    <3>1. next_id' = ids[n] + 1
      BY <1>1, <1>4, <2>2
    <3>2. n \in 1..n /\ ids[n] \in Nat
      BY SMTT(60), <1>2, <1>5, <2>2
    <3>3. ASSUME NEW id \in S PROVE id < next_id'
      <4>1. PICK i \in 1..n : ids[i] = id
        BY <1>2
      <4>2. i < n \/ i = n
        BY SMTT(60), <1>2
      <4> QED
        BY SMTT(60), <1>3, <1>5, <3>1, <3>2, <4>1, <4>2
    <3> QED
      BY SMTT(60), <3>1, <3>2, <3>3
  <2> QED
    BY <2>1, <2>2
<1>10. ASSUME NEW i \in 1..n, NEW j \in 1..n, outbound'[i].id = outbound'[j].id
       PROVE  i = j
  <2>1. i < j \/ i = j \/ j < i
    BY SMTT(60), <1>2
  <2> QED
    BY SMTT(60), <1>3, <1>5, <1>8, <1>10, <2>1
<1> QED
  BY SMTT(60), <1>2, <1>7, <1>8, <1>9, <1>10

-----------------------------------------------------------------------------
(* One lemma per group of actions: each preserves the invariant.           *)

\* Removing the head of a queue of distinct ids leaves distinct ids, and the
\* head's id occurs nowhere else.
LEMMA TailLemma ==
  ASSUME OutboxInv, outbound # <<>>
  PROVE  /\ Len(outbound) \in Nat
         /\ Head(outbound) \in Item
         /\ Head(outbound) = outbound[1]
         /\ 1 \in 1..Len(outbound)
         /\ Tail(outbound) \in Seq(Item)
         /\ Len(Tail(outbound)) = Len(outbound) - 1
         /\ \A i \in 1..Len(Tail(outbound)) :
              /\ i + 1 \in 1..Len(outbound)
              /\ Tail(outbound)[i] = outbound[i + 1]
              /\ Tail(outbound)[i].id # Head(outbound).id
<1>0. outbound \in Seq(Item) /\ IdsDistinct
  BY DEF OutboxInv, TypeOK
<1>1. /\ Head(outbound) \in Item
      /\ Head(outbound) = outbound[1]
      /\ Len(outbound) \in Nat /\ Len(outbound) >= 1
      /\ Tail(outbound) \in Seq(Item)
      /\ Len(Tail(outbound)) = Len(outbound) - 1
      /\ \A i \in 1..Len(Tail(outbound)) : Tail(outbound)[i] = outbound[i + 1]
  BY SMTT(60), <1>0
<1>2. ASSUME NEW i \in 1..Len(Tail(outbound))
      PROVE  /\ i + 1 \in 1..Len(outbound)
             /\ Tail(outbound)[i].id # Head(outbound).id
  BY SMTT(60), <1>0, <1>1 DEF IdsDistinct
<1> QED
  BY SMTT(60), <1>1, <1>2

\* The invariant holds in the initial state.
LEMMA InitInv == Init => OutboxInv
<1> SUFFICES ASSUME Init PROVE OutboxInv
  OBVIOUS
<1>1. TypeOK
  BY SMTT(60), FS_EmptySet DEF Init, TypeOK, Empty
<1> QED
  BY SMTT(60), <1>1, PolicyAssumption DEF Init, OutboxInv, IdsDistinct, QueueIsPersisted, FilesAreOpen,
     UntouchedBefore, HandedOverOnce, RetryBudget, Accounted, Empty

\* enqueue keeps the invariant: the new file gets an id no live file has.
LEMMA EnqueueInv ==
  ASSUME OutboxInv, NEW m \in Msgs, enqueue(m)
  PROVE  OutboxInv'
<1> DEFINE item == [id |-> next_id, msg |-> m, attempts |-> 0, at |-> 0]
<1> USE DEF OutboxInv
<1>1. /\ m \notin accepted
      /\ disk_out' = write_file(disk_out, next_id, [msg |-> m, attempts |-> 0, at |-> 0])
      /\ outbound' = Append(outbound, item)
      /\ next_id' = next_id + 1
      /\ accepted' = accepted \cup {m}
      /\ UNCHANGED <<failed, inflight, handed, disk_failed, now, crashes,
                     tries, sent, gave_up, torn>>
  BY DEF enqueue, Record, clock
<1>2. item \in Item /\ next_id \notin DOMAIN disk_out
  BY SMTT(60) DEF TypeOK, Item, IdsDistinct
<1>3. /\ outbound' \in Seq(Item)
      /\ Len(outbound') = Len(outbound) + 1
      /\ \A i \in 1..Len(outbound) : outbound'[i] = outbound[i]
      /\ outbound'[Len(outbound) + 1] = item
      /\ Len(outbound) \in Nat
  BY SMTT(60), <1>1, <1>2 DEF TypeOK
<1>4. TypeOK'
  BY SMTT(60), <1>1, <1>3 DEF TypeOK, Saved
<1>5. IdsDistinct'
  <2>1. \A i \in 1..Len(outbound) : outbound[i].id # next_id
    BY <1>2 DEF QueueIsPersisted
  <2>2. ASSUME NEW i \in 1..Len(outbound'), NEW j \in 1..Len(outbound'),
               outbound'[i].id = outbound'[j].id
        PROVE  i = j
    <3>1. CASE i \in 1..Len(outbound) /\ j \in 1..Len(outbound)
      BY <1>3, <2>2, <3>1 DEF IdsDistinct
    <3>2. CASE i = Len(outbound) + 1 /\ j \in 1..Len(outbound)
      BY SMTT(60), <1>3, <2>1, <2>2, <3>2
    <3>3. CASE j = Len(outbound) + 1 /\ i \in 1..Len(outbound)
      BY SMTT(60), <1>3, <2>1, <2>2, <3>3
    <3> QED
      BY SMTT(60), <1>3, <3>1, <3>2, <3>3
  <2>3. \A id \in DOMAIN disk_out' : id < next_id'
    BY SMTT(60), <1>1 DEF IdsDistinct, TypeOK
  <2> QED
    BY <2>2, <2>3 DEF IdsDistinct
<1>6. QueueIsPersisted'
  <2> SUFFICES ASSUME NEW i \in 1..Len(outbound')
               PROVE  /\ outbound'[i].id \in DOMAIN disk_out'
                      /\ disk_out'[outbound'[i].id].msg = outbound'[i].msg
                      /\ disk_out'[outbound'[i].id].attempts = outbound'[i].attempts
    BY DEF QueueIsPersisted
  <2>1. CASE i \in 1..Len(outbound)
    BY SMTT(60), <1>1, <1>2, <1>3, <2>1 DEF QueueIsPersisted
  <2>2. CASE i = Len(outbound) + 1
    BY SMTT(60), <1>1, <1>3, <2>2
  <2> QED
    BY SMTT(60), <1>3, <2>1, <2>2
<1>7. FilesAreOpen'
  <2> SUFFICES ASSUME NEW id \in DOMAIN disk_out'
               PROVE  FilesAreOpen!(id)'
    BY DEF FilesAreOpen
  <2>1. CASE id = next_id
    BY <1>1, <1>2, <2>1 DEF FilesAreOpen, UntouchedBefore
  <2>2. CASE id \in DOMAIN disk_out
    BY <1>1, <1>2, <2>2 DEF FilesAreOpen
  <2> QED
    BY <1>1, <2>1, <2>2
<1>8. UntouchedBefore' /\ HandedOverOnce' /\ RetryBudget'
  BY <1>1 DEF UntouchedBefore, HandedOverOnce, RetryBudget
<1>9. Accounted'
  BY SMTT(60), <1>1, <1>2 DEF Accounted, OnDisk
<1> QED
  BY <1>4, <1>5, <1>6, <1>7, <1>8, <1>9

\* The head of the queue is an open file: its message has been accepted, not
\* handed over, and tried as often as the file says.
LEMMA HeadLemma ==
  ASSUME OutboxInv, outbound # <<>>
  PROVE  LET h == Head(outbound)
         IN  /\ h \in Item
             /\ h.id \in DOMAIN disk_out
             /\ h.msg \in accepted
             /\ sent[h.msg] = 0
             /\ tries[h.msg] = h.attempts
             /\ h.attempts = 0 \/ h.attempts < MaxAttempts
             /\ \A id \in DOMAIN disk_out : disk_out[id].msg = h.msg <=> id = h.id
             /\ disk_out[h.id].msg = h.msg
<1>1. /\ Head(outbound) = outbound[1] /\ Head(outbound) \in Item
      /\ 1 \in 1..Len(outbound)
  BY TailLemma
<1>2. /\ Head(outbound).id \in DOMAIN disk_out
      /\ disk_out[Head(outbound).id].msg = Head(outbound).msg
      /\ disk_out[Head(outbound).id].attempts = Head(outbound).attempts
  BY <1>1 DEF OutboxInv, QueueIsPersisted
<1> QED
  BY <1>1, <1>2 DEF OutboxInv, FilesAreOpen

\* Popping the head and removing its file keeps the queue and the directory in
\* step; every other file is untouched and belongs to another message.
LEMMA PopLemma ==
  ASSUME OutboxInv, outbound # <<>>,
         outbound' = Tail(outbound),
         disk_out' = remove_file(disk_out, Head(outbound).id),
         next_id' = next_id
  PROVE  /\ outbound' \in Seq(Item)
         /\ DOMAIN disk_out' = DOMAIN disk_out \ {Head(outbound).id}
         /\ \A id \in DOMAIN disk_out' : /\ disk_out'[id] = disk_out[id]
                                         /\ disk_out[id].msg # Head(outbound).msg
         /\ IdsDistinct'
         /\ QueueIsPersisted'
         /\ OnDisk \subseteq OnDisk' \cup {Head(outbound).msg}
<1> DEFINE h == Head(outbound)
<1>1. /\ outbound' \in Seq(Item)
      /\ \A i \in 1..Len(outbound') : /\ i + 1 \in 1..Len(outbound)
                                      /\ outbound'[i] = outbound[i + 1]
                                      /\ outbound'[i].id # h.id
  BY TailLemma
<1>2. /\ DOMAIN disk_out' = DOMAIN disk_out \ {h.id}
      /\ \A id \in DOMAIN disk_out' : disk_out'[id] = disk_out[id]
  OBVIOUS
<1>3. \A id \in DOMAIN disk_out' : disk_out[id].msg # h.msg
  BY <1>2, HeadLemma
<1>4. IdsDistinct'
  <2>1. ASSUME NEW i \in 1..Len(outbound'), NEW j \in 1..Len(outbound'),
               outbound'[i].id = outbound'[j].id
        PROVE  i = j
    <3>1. i + 1 = j + 1
      BY <1>1, <2>1 DEF OutboxInv, IdsDistinct
    <3>2. Len(outbound') \in Nat
      BY SMTT(60), <1>1
    <3> QED
      BY SMTT(60), <3>1, <3>2
  <2>2. \A id \in DOMAIN disk_out' : id < next_id'
    BY <1>2 DEF OutboxInv, IdsDistinct
  <2> QED
    BY <2>1, <2>2 DEF IdsDistinct
<1>5. QueueIsPersisted'
  BY SMTT(60), <1>1, <1>2 DEF OutboxInv, QueueIsPersisted
<1>6. OnDisk \subseteq OnDisk' \cup {h.msg}
  BY <1>2, HeadLemma DEF OnDisk
<1> QED
  BY <1>1, <1>2, <1>3, <1>4, <1>5, <1>6

\* A successful delivery keeps the invariant: the file is gone when the
\* message is handed over, so it cannot be handed over again.
LEMMA DeliverOkInv ==
  ASSUME OutboxInv, DeliverOk
  PROVE  OutboxInv'
<1> DEFINE h == Head(outbound)
<1>1. /\ outbound # <<>>
      /\ outbound' = Tail(outbound)
      /\ handed' = handed \cup {[id |-> h.id, msg |-> h.msg]}
      /\ disk_out' = remove_file(disk_out, h.id)
      /\ tries' = [tries EXCEPT ![h.msg] = @ + 1]
      /\ sent' = [sent EXCEPT ![h.msg] = @ + 1]
      /\ UNCHANGED <<failed, inflight, next_id, disk_failed, now, crashes,
                     accepted, gave_up, torn>>
  BY DEF DeliverOk, HeadDue, clock
<1>2. /\ h \in Item
      /\ h.msg \in accepted
      /\ sent[h.msg] = 0
      /\ tries[h.msg] = h.attempts
      /\ h.attempts = 0 \/ h.attempts < MaxAttempts
  BY <1>1, HeadLemma
<1>3. /\ outbound' \in Seq(Item)
      /\ DOMAIN disk_out' = DOMAIN disk_out \ {h.id}
      /\ \A id \in DOMAIN disk_out' : disk_out'[id] = disk_out[id] /\ disk_out[id].msg # h.msg
      /\ IdsDistinct' /\ QueueIsPersisted'
      /\ OnDisk \subseteq OnDisk' \cup {h.msg}
  BY <1>1, PopLemma
<1>4. /\ h.id \in Nat /\ h.msg \in Msgs /\ h.attempts \in Nat
      /\ tries \in [Msgs -> Nat] /\ sent \in [Msgs -> Nat]
  BY <1>2 DEF Item, OutboxInv, TypeOK
<1>5. TypeOK'
  <2>1. tries' \in [Msgs -> Nat] /\ sent' \in [Msgs -> Nat]
    BY SMTT(60), <1>1, <1>4
  <2>2. handed' \subseteq Failure
    BY SMTT(60), <1>1, <1>4 DEF OutboxInv, TypeOK, Failure
  <2> QED
    BY <1>1, <1>3, <2>1, <2>2 DEF OutboxInv, TypeOK
<1>6. FilesAreOpen'
  <2> SUFFICES ASSUME NEW id \in DOMAIN disk_out'
               PROVE  FilesAreOpen!(id)'
    BY DEF FilesAreOpen
  <2>1. disk_out[id].msg \in Msgs /\ disk_out[id].msg # h.msg
    BY <1>3 DEF OutboxInv, TypeOK, Saved
  <2>2. /\ tries'[disk_out[id].msg] = tries[disk_out[id].msg]
        /\ sent'[disk_out[id].msg] = sent[disk_out[id].msg]
    BY <1>1, <1>4, <2>1
  <2> QED
    BY <1>1, <1>3, <2>2 DEF OutboxInv, FilesAreOpen
<1>7. UntouchedBefore' /\ HandedOverOnce'
  BY SMTT(60), <1>1, <1>2, <1>4 DEF OutboxInv, UntouchedBefore, HandedOverOnce
<1>8. RetryBudget'
  BY SMTT(60), <1>1, <1>2, <1>4, PolicyAssumption DEF OutboxInv, RetryBudget
<1>9. Accounted'
  <2>1. sent'[h.msg] = 1 /\ \A m \in Msgs : sent[m] = 1 => sent'[m] = 1
    BY SMTT(60), <1>1, <1>2, <1>4
  <2> QED
    BY <1>1, <1>3, <1>4, <2>1 DEF OutboxInv, Accounted
<1> QED
  BY <1>3, <1>5, <1>6, <1>7, <1>8, <1>9 DEF OutboxInv

\* The files left after the head's file is gone are still open when only the
\* head's message is counted as tried or handed over.
LEMMA OpenAfterPop ==
  ASSUME OutboxInv, NEW h \in Item,
         \A id \in DOMAIN disk_out' : /\ id \in DOMAIN disk_out
                                      /\ disk_out'[id] = disk_out[id]
                                      /\ disk_out[id].msg # h.msg,
         \A m \in Msgs \ {h.msg} : tries'[m] = tries[m] /\ sent'[m] = sent[m],
         accepted' = accepted
  PROVE  FilesAreOpen'
<1> SUFFICES ASSUME NEW id \in DOMAIN disk_out'
             PROVE  FilesAreOpen!(id)'
  BY DEF FilesAreOpen
<1>1. disk_out[id].msg \in Msgs \ {h.msg}
  BY DEF OutboxInv, TypeOK, Saved
<1> QED
  BY SMTT(60), <1>1 DEF OutboxInv, FilesAreOpen

\* A final failure keeps the invariant: the message moves from the outbound
\* directory to the failures.
LEMMA DeliverFailInv ==
  ASSUME OutboxInv, NEW pv \in BOOLEAN, DeliverFail(pv)
  PROVE  OutboxInv'
<1> DEFINE h == Head(outbound)
<1>1. /\ outbound # <<>>
      /\ outbound' = Tail(outbound)
      /\ disk_out' = remove_file(disk_out, h.id)
      /\ disk_failed' = write_file(disk_failed, h.id, h.msg)
      /\ failed' = Append(failed, [id |-> h.id, msg |-> h.msg])
      /\ tries' = [tries EXCEPT ![h.msg] = @ + 1]
      /\ gave_up' = gave_up \cup {h.msg}
      /\ UNCHANGED <<inflight, next_id, handed, now, crashes, accepted, sent, torn>>
  BY DEF DeliverFail, HeadDue, clock
<1>2. /\ h \in Item
      /\ h.msg \in accepted
      /\ tries[h.msg] = h.attempts
      /\ h.attempts = 0 \/ h.attempts < MaxAttempts
  BY <1>1, HeadLemma
<1>3. /\ outbound' \in Seq(Item)
      /\ DOMAIN disk_out' = DOMAIN disk_out \ {h.id}
      /\ \A id \in DOMAIN disk_out' : disk_out'[id] = disk_out[id] /\ disk_out[id].msg # h.msg
      /\ IdsDistinct' /\ QueueIsPersisted'
      /\ OnDisk \subseteq OnDisk' \cup {h.msg}
  BY <1>1, PopLemma
<1>4. /\ h.id \in Nat /\ h.msg \in Msgs /\ h.attempts \in Nat
      /\ tries \in [Msgs -> Nat] /\ sent \in [Msgs -> Nat]
  BY <1>2 DEF Item, OutboxInv, TypeOK
<1>5. TypeOK'
  <2>1. tries' \in [Msgs -> Nat]
    BY SMTT(60), <1>1, <1>4
  <2>2. failed' \in Seq(Failure)
    BY SMTT(60), <1>1, <1>4 DEF OutboxInv, TypeOK, Failure
  <2>3. DOMAIN disk_failed' \subseteq Nat /\ \A id \in DOMAIN disk_failed' : disk_failed'[id] \in Msgs
    BY <1>1, <1>4 DEF OutboxInv, TypeOK
  <2> QED
    BY <1>1, <1>3, <1>4, <2>1, <2>2, <2>3 DEF OutboxInv, TypeOK
<1>6. FilesAreOpen'
  BY <1>1, <1>2, <1>3, <1>4, OpenAfterPop
<1>7. UntouchedBefore' /\ HandedOverOnce'
  BY <1>1, <1>2, <1>4 DEF OutboxInv, UntouchedBefore, HandedOverOnce
<1>8. RetryBudget'
  BY SMTT(60), <1>1, <1>2, <1>4, PolicyAssumption DEF OutboxInv, RetryBudget
<1>9. Accounted'
  BY <1>1, <1>3 DEF OutboxInv, Accounted
<1> QED
  BY <1>3, <1>5, <1>6, <1>7, <1>8, <1>9 DEF OutboxInv


-----------------------------------------------------------------------------
(* The remaining actions.                                                  *)

\* The file written for an item.
LEMMA RecordOfItem ==
  ASSUME NEW item \in Item
  PROVE  /\ Record(item) \in Saved
         /\ Record(item).msg = item.msg
         /\ Record(item).attempts = item.attempts
  BY DEF Item, Record, Saved

\* A retry keeps the invariant: the item moves to the back of the queue and
\* its file is overwritten with the new attempt count.
LEMMA DeliverRetryInv ==
  ASSUME OutboxInv, DeliverRetry
  PROVE  OutboxInv'
<1> DEFINE h == Head(outbound)
<1> DEFINE tried == h.attempts + 1
<1> DEFINE item == [h EXCEPT !.attempts = tried, !.at = now + retry_delay_ms(tried)]
<1>1. /\ outbound # <<>>
      /\ AttemptsLeft(tried)
      /\ disk_out' = write_file(disk_out, item.id, Record(item))
      /\ outbound' = Append(Tail(outbound), item)
      /\ tries' = [tries EXCEPT ![item.msg] = @ + 1]
      /\ UNCHANGED <<failed, inflight, next_id, handed, disk_failed, now, crashes,
                     accepted, sent, gave_up, torn>>
  BY DEF DeliverRetry, HeadDue, clock
<1>14. tried < MaxAttempts
  BY <1>1 DEF AttemptsLeft
<1>2. /\ h \in Item
      /\ h.id \in DOMAIN disk_out
      /\ h.msg \in accepted
      /\ sent[h.msg] = 0
      /\ tries[h.msg] = h.attempts
      /\ \A id \in DOMAIN disk_out : disk_out[id].msg = h.msg <=> id = h.id
  BY <1>1, HeadLemma
<1>3. /\ h.id \in Nat /\ h.msg \in Msgs /\ h.attempts \in Nat
      /\ tries \in [Msgs -> Nat] /\ sent \in [Msgs -> Nat] /\ now \in Nat
  BY <1>2 DEF Item, OutboxInv, TypeOK
<1>4. retry_delay_ms(tried) \in Int
  BY SMTT(60), <1>3, PolicyAssumption DEF retry_delay_ms
<1>5. /\ item \in Item /\ item.id = h.id /\ item.msg = h.msg /\ item.attempts = tried
      /\ Record(item) \in Saved
      /\ Record(item).msg = h.msg /\ Record(item).attempts = tried
  <2> DEFINE due == now + retry_delay_ms(tried)
  <2>1. tried \in Nat /\ due \in Int /\ h \in Item
    BY SMTT(60), <1>2, <1>3, <1>4
  <2>2. item = [h EXCEPT !.attempts = tried, !.at = due]
    OBVIOUS
  <2> HIDE DEF item, tried, due, h
  <2>3. item \in Item /\ item.id = h.id /\ item.msg = h.msg /\ item.attempts = tried
    BY <2>1, <2>2 DEF Item
  <2> QED
    BY <2>3, RecordOfItem
<1> HIDE DEF item
<1>6. /\ DOMAIN disk_out' = DOMAIN disk_out
      /\ disk_out'[h.id] = Record(item)
      /\ \A id \in DOMAIN disk_out \ {h.id} : disk_out'[id] = disk_out[id]
  BY <1>1, <1>2, <1>5
<1>7. LET n == Len(outbound)
      IN  /\ outbound' \in Seq(Item)
          /\ Len(outbound') = n /\ n \in Nat
          /\ outbound'[n] = item
          /\ \A i \in 1..(n - 1) : /\ i + 1 \in 1..n
                                   /\ outbound'[i] = outbound[i + 1]
                                   /\ outbound'[i].id # h.id
  <2>1. /\ Tail(outbound) \in Seq(Item)
        /\ Len(Tail(outbound)) = Len(outbound) - 1
        /\ Len(outbound) \in Nat
        /\ \A i \in 1..Len(Tail(outbound)) : /\ i + 1 \in 1..Len(outbound)
                                             /\ Tail(outbound)[i] = outbound[i + 1]
                                             /\ Tail(outbound)[i].id # h.id
    BY <1>1, TailLemma
  <2> QED
    BY SMTT(60), <1>1, <1>5, <2>1
<1>8. TypeOK'
  <2>1. tries' \in [Msgs -> Nat]
    BY SMTT(60), <1>1, <1>3, <1>5
  <2>2. DOMAIN disk_out' \subseteq Nat /\ \A id \in DOMAIN disk_out' : disk_out'[id] \in Saved
    BY <1>5, <1>6 DEF OutboxInv, TypeOK
  <2> QED
    BY <1>1, <1>7, <2>1, <2>2 DEF OutboxInv, TypeOK
<1>9. IdsDistinct'
  <2>1. ASSUME NEW i \in 1..Len(outbound'), NEW j \in 1..Len(outbound'),
               outbound'[i].id = outbound'[j].id
        PROVE  i = j
    <3>1. CASE i # Len(outbound) /\ j # Len(outbound)
      <4>1. i \in 1..(Len(outbound) - 1) /\ j \in 1..(Len(outbound) - 1)
        BY SMTT(60), <1>7, <3>1
      <4>2. i + 1 = j + 1
        BY <1>7, <2>1, <4>1 DEF OutboxInv, IdsDistinct
      <4> QED
        BY SMTT(60), <4>1, <4>2, <1>7
    <3>2. CASE i = Len(outbound) \/ j = Len(outbound)
      BY SMTT(60), <1>5, <1>7, <2>1, <3>2
    <3> QED
      BY <3>1, <3>2
  <2> QED
    BY <1>1, <1>6, <2>1 DEF OutboxInv, IdsDistinct
<1>10. QueueIsPersisted'
  <2> SUFFICES ASSUME NEW i \in 1..Len(outbound')
               PROVE  /\ outbound'[i].id \in DOMAIN disk_out'
                      /\ disk_out'[outbound'[i].id].msg = outbound'[i].msg
                      /\ disk_out'[outbound'[i].id].attempts = outbound'[i].attempts
    BY DEF QueueIsPersisted
  <2>1. CASE i = Len(outbound)
    BY <1>2, <1>5, <1>6, <1>7, <2>1
  <2>2. CASE i # Len(outbound)
    <3>1. i \in 1..(Len(outbound) - 1)
      BY SMTT(60), <1>7, <2>2
    <3> QED
      BY SMTT(60), <1>6, <1>7, <3>1 DEF OutboxInv, QueueIsPersisted
  <2> QED
    BY <2>1, <2>2
<1>11. FilesAreOpen'
  <2> SUFFICES ASSUME NEW id \in DOMAIN disk_out'
               PROVE  FilesAreOpen!(id)'
    BY DEF FilesAreOpen
  <2>1. \A k \in DOMAIN disk_out' : disk_out'[k].msg = disk_out[k].msg
    BY <1>2, <1>5, <1>6
  <2>2. CASE id = h.id
    BY <1>1, <1>2, <1>3, <1>5, <1>6, <1>14, <2>1, <2>2
  <2>3. CASE id # h.id
    <3>1. disk_out[id].msg \in Msgs /\ disk_out[id].msg # h.msg
      BY <1>2, <1>6, <2>3 DEF OutboxInv, TypeOK, Saved
    <3>2. tries'[disk_out[id].msg] = tries[disk_out[id].msg]
      BY <1>1, <1>3, <1>5, <3>1
    <3>3. FilesAreOpen!(id)
      BY <1>6 DEF OutboxInv, FilesAreOpen
    <3>4. disk_out'[id] = disk_out[id]
      BY <1>6, <2>3
    <3> QED
      BY <1>1, <1>6, <2>1, <3>2, <3>3, <3>4
  <2> QED
    BY <2>2, <2>3
<1>12. UntouchedBefore' /\ HandedOverOnce' /\ RetryBudget'
  BY SMTT(60), <1>1, <1>2, <1>3, <1>5, <1>14, PolicyAssumption
  DEF OutboxInv, UntouchedBefore, HandedOverOnce, RetryBudget
<1>13. Accounted'
  <2>1. OnDisk \subseteq OnDisk'
    BY <1>2, <1>5, <1>6 DEF OnDisk
  <2> QED
    BY <1>1, <2>1 DEF OutboxInv, Accounted
<1> QED
  BY <1>8, <1>9, <1>10, <1>11, <1>12, <1>13 DEF OutboxInv

\* Actions that touch neither the queue, nor the outbound directory, nor the
\* counters keep the invariant as long as they keep the types.
LEMMA FrameInv ==
  ASSUME OutboxInv, TypeOK', gave_up \subseteq gave_up',
         UNCHANGED <<outbound, next_id, disk_out, accepted, tries, sent, torn>>
  PROVE  OutboxInv'
<1>1. IdsDistinct' /\ QueueIsPersisted' /\ FilesAreOpen'
  BY DEF OutboxInv, IdsDistinct, QueueIsPersisted, FilesAreOpen
<1>2. UntouchedBefore' /\ HandedOverOnce' /\ RetryBudget'
  BY DEF OutboxInv, UntouchedBefore, HandedOverOnce, RetryBudget
<1>3. Accounted'
  BY DEF OutboxInv, Accounted, OnDisk
<1> QED
  BY <1>1, <1>2, <1>3 DEF OutboxInv

\* The retry-less next_delivery drops the item from memory only.
LEMMA DropInv ==
  ASSUME OutboxInv, next_delivery_err
  PROVE  OutboxInv'
<1>1. /\ outbound # <<>>
      /\ outbound' = Tail(outbound)
      /\ UNCHANGED <<failed, inflight, next_id, handed, disk_out, disk_failed, now,
                     crashes, accepted, tries, sent, gave_up, torn>>
  BY DEF next_delivery_err, HeadDue, disk, clock, history
<1>2. /\ outbound' \in Seq(Item)
      /\ Len(outbound') \in Nat
      /\ \A i \in 1..Len(outbound') : /\ i + 1 \in 1..Len(outbound)
                                      /\ outbound'[i] = outbound[i + 1]
  BY SMTT(60), <1>1, TailLemma
<1>3. TypeOK'
  BY <1>1, <1>2 DEF OutboxInv, TypeOK
<1>4. IdsDistinct'
  <2>1. ASSUME NEW i \in 1..Len(outbound'), NEW j \in 1..Len(outbound'),
               outbound'[i].id = outbound'[j].id
        PROVE  i = j
    <3>1. i + 1 = j + 1
      BY <1>2, <2>1 DEF OutboxInv, IdsDistinct
    <3> QED
      BY SMTT(60), <1>2, <3>1
  <2> QED
    BY <1>1, <2>1 DEF OutboxInv, IdsDistinct
<1>5. QueueIsPersisted'
  BY <1>1, <1>2 DEF OutboxInv, QueueIsPersisted
<1>6. FilesAreOpen' /\ UntouchedBefore' /\ HandedOverOnce' /\ RetryBudget' /\ Accounted'
  BY SMTT(60), <1>1 DEF OutboxInv, FilesAreOpen, UntouchedBefore, HandedOverOnce, RetryBudget,
              Accounted, OnDisk
<1> QED
  BY <1>3, <1>4, <1>5, <1>6 DEF OutboxInv

\* The receipts of handed deliveries, and pop_failed and tick.
LEMMA ReceiptInv ==
  ASSUME OutboxInv,
         \/ \E d \in handed : dispatch(d) \/ \E t \in Timeouts : mark_inflight(d, t)
         \/ \E id \in DOMAIN inflight : mark_delivered(id) \/ mark_failed(id)
         \/ poll_timeouts
         \/ pop_failed
         \/ tick
  PROVE  OutboxInv'
<1> USE DEF disk, clock, history, memory
<1>1. CASE \E d \in handed : dispatch(d)
  <2>1. TypeOK'
    BY <1>1 DEF dispatch, OutboxInv, TypeOK
  <2> QED
    BY <1>1, <2>1, FrameInv DEF dispatch
<1>2. CASE \E d \in handed : \E t \in Timeouts : mark_inflight(d, t)
  <2>1. PICK d \in handed, t \in Timeouts : mark_inflight(d, t)
    BY <1>2
  <2>2. /\ DOMAIN inflight' \subseteq Nat
        /\ \A id \in DOMAIN inflight' : inflight'[id] \in Flight
        /\ handed' \subseteq Failure
        /\ DOMAIN inflight' = DOMAIN inflight \cup {d.id}
    BY <2>1, BoundAssumption
    DEF mark_inflight, OutboxInv, TypeOK, Failure, Flight
  <2>3. TypeOK'
    BY <2>1, <2>2, FS_AddElement DEF mark_inflight, OutboxInv, TypeOK
  <2> QED
    BY <2>1, <2>3, FrameInv DEF mark_inflight
<1>3. CASE \E id \in DOMAIN inflight : mark_delivered(id)
  <2>1. TypeOK'
    BY <1>3, FS_Subset DEF mark_delivered, OutboxInv, TypeOK
  <2> QED
    BY <1>3, <2>1, FrameInv DEF mark_delivered
<1>4. CASE \E id \in DOMAIN inflight : mark_failed(id)
  <2>1. PICK id \in DOMAIN inflight : mark_failed(id)
    BY <1>4
  <2>2. id \in Nat /\ inflight[id].msg \in Msgs
    BY DEF OutboxInv, TypeOK, Flight
  <2>3. /\ DOMAIN disk_failed' \subseteq Nat
        /\ \A k \in DOMAIN disk_failed' : disk_failed'[k] \in Msgs
    BY <2>1, <2>2 DEF mark_failed, OutboxInv, TypeOK
  <2>4. failed' \in Seq(Failure)
    BY SMTT(60), <2>1, <2>2 DEF mark_failed, OutboxInv, TypeOK, Failure
  <2>5. TypeOK'
    BY <2>1, <2>2, <2>3, <2>4, FS_Subset DEF mark_failed, OutboxInv, TypeOK
  <2> QED
    BY <2>1, <2>5, FrameInv DEF mark_failed
<1>5. CASE poll_timeouts
  <2> DEFINE expired == {id \in DOMAIN inflight : Expired(id)}
  <2> DEFINE n == Cardinality(expired)
  <2>1. PICK order \in [1..n -> expired] :
          failed' = failed \o [i \in 1..n |->
                       [id |-> order[i], msg |-> inflight[order[i]].msg]]
    BY <1>5 DEF poll_timeouts
  <2>2. /\ inflight' = Restrict(inflight, DOMAIN inflight \ expired)
        /\ disk_failed' = [k \in DOMAIN disk_failed \cup expired |->
                              IF k \in expired THEN inflight[k].msg ELSE disk_failed[k]]
        /\ gave_up' = gave_up \cup {inflight[id].msg : id \in expired}
        /\ UNCHANGED <<outbound, next_id, handed, disk_out, now, crashes,
                       accepted, tries, sent, torn>>
    BY <1>5 DEF poll_timeouts
  <2>3. \A id \in expired : id \in Nat /\ inflight[id].msg \in Msgs
    BY DEF OutboxInv, TypeOK, Flight
  <2> HIDE DEF expired
  <2>4. n \in Nat
    <3>1. IsFiniteSet(expired)
      BY FS_Subset DEF expired, OutboxInv, TypeOK
    <3> QED
      BY <3>1, FS_CardinalityType
  <2>5. failed' \in Seq(Failure)
    <3> DEFINE more == [i \in 1..n |-> [id |-> order[i], msg |-> inflight[order[i]].msg]]
    <3>1. more \in [1..n -> Failure]
      BY <2>3 DEF Failure
    <3>2. more \in Seq(Failure)
      BY SMTT(60), <2>4, <3>1
    <3>3. failed' = failed \o more
      BY <2>1
    <3> HIDE DEF more
    <3> QED
      BY SMTT(60), <3>2, <3>3 DEF OutboxInv, TypeOK
  <2>6. TypeOK'
    BY <2>2, <2>3, <2>5, FS_Subset DEF OutboxInv, TypeOK
  <2> QED
    BY <2>2, <2>6, FrameInv
<1>6. CASE pop_failed
  <2>1. TypeOK'
    BY SMTT(60), <1>6 DEF pop_failed, OutboxInv, TypeOK
  <2> QED
    BY <1>6, <2>1, FrameInv DEF pop_failed
<1>7. CASE tick
  <2>1. TypeOK'
    BY SMTT(60), <1>7 DEF tick, OutboxInv, TypeOK
  <2> QED
    BY <1>7, <2>1, FrameInv DEF tick
<1> QED
  BY <1>1, <1>2, <1>3, <1>4, <1>5, <1>6, <1>7

\* A restart keeps the invariant: the queue is rebuilt from the files, and
\* next_id moves above every live file.
LEMMA RestartInv ==
  ASSUME OutboxInv, restart
  PROVE  OutboxInv'
<1>1. /\ restore_outbound(disk_out)
      /\ failed' = <<>> /\ inflight' = Empty /\ handed' = {}
      /\ crashes' = crashes + 1
      /\ UNCHANGED <<disk_out, disk_failed, now, accepted, tries, sent, gave_up, torn>>
  BY DEF restart, fresh_memory, disk, history
<1>2. Directory(disk_out, next_id)
  BY DEF Directory, OutboxInv, TypeOK, IdsDistinct
<1>3. /\ outbound' \in Seq(Item)
      /\ next_id' \in Nat
      /\ \A id \in DOMAIN disk_out : id < next_id'
      /\ \A i, j \in 1..Len(outbound') :
             outbound'[i].id = outbound'[j].id => i = j
      /\ \A i \in 1..Len(outbound') :
             /\ outbound'[i].id \in DOMAIN disk_out
             /\ disk_out[outbound'[i].id].msg = outbound'[i].msg
             /\ disk_out[outbound'[i].id].attempts = outbound'[i].attempts
  BY <1>1, <1>2, RestoreLemma
<1>4. TypeOK'
  BY SMTT(60), <1>1, <1>3, FS_EmptySet DEF OutboxInv, TypeOK, Empty
<1>5. IdsDistinct' /\ QueueIsPersisted'
  BY <1>1, <1>3 DEF IdsDistinct, QueueIsPersisted
<1>6. FilesAreOpen' /\ UntouchedBefore' /\ HandedOverOnce' /\ RetryBudget' /\ Accounted'
  BY SMTT(60), <1>1 DEF OutboxInv, FilesAreOpen, UntouchedBefore, HandedOverOnce, RetryBudget,
              Accounted, OnDisk
<1> QED
  BY <1>4, <1>5, <1>6 DEF OutboxInv

\* Dying between remove_outbound and save_failed keeps the invariant, the
\* message being counted as torn.
LEMMA CrashInFailureInv ==
  ASSUME OutboxInv, NEW pv \in BOOLEAN, crash_in_failure(pv)
  PROVE  OutboxInv'
<1> DEFINE h == Head(outbound)
<1> DEFINE dir == remove_file(disk_out, h.id)
<1>1. /\ outbound # <<>>
      /\ disk_out' = dir
      /\ restore_outbound(dir)
      /\ tries' = [tries EXCEPT ![h.msg] = @ + 1]
      /\ torn' = torn \cup {h.msg}
      /\ failed' = <<>> /\ inflight' = Empty /\ handed' = {}
      /\ crashes' = crashes + 1
      /\ UNCHANGED <<disk_failed, now, accepted, sent, gave_up>>
  BY DEF crash_in_failure, HeadDue, fresh_memory
<1>2. /\ h \in Item
      /\ h.msg \in accepted
      /\ tries[h.msg] = h.attempts
      /\ h.attempts = 0 \/ h.attempts < MaxAttempts
      /\ \A id \in DOMAIN disk_out : disk_out[id].msg = h.msg <=> id = h.id
  BY <1>1, HeadLemma
<1>3. /\ h.id \in Nat /\ h.msg \in Msgs /\ h.attempts \in Nat
      /\ tries \in [Msgs -> Nat] /\ sent \in [Msgs -> Nat]
  BY <1>2 DEF Item, OutboxInv, TypeOK
<1>4. /\ DOMAIN dir = DOMAIN disk_out \ {h.id}
      /\ \A id \in DOMAIN dir : dir[id] = disk_out[id]
  OBVIOUS
<1> HIDE DEF dir, h
<1>5. Directory(dir, next_id)
  BY <1>4 DEF Directory, OutboxInv, TypeOK, IdsDistinct
<1>6. /\ outbound' \in Seq(Item)
      /\ next_id' \in Nat
      /\ \A id \in DOMAIN dir : id < next_id'
      /\ \A i, j \in 1..Len(outbound') :
             outbound'[i].id = outbound'[j].id => i = j
      /\ \A i \in 1..Len(outbound') :
             /\ outbound'[i].id \in DOMAIN dir
             /\ dir[outbound'[i].id].msg = outbound'[i].msg
             /\ dir[outbound'[i].id].attempts = outbound'[i].attempts
  BY <1>1, <1>5, RestoreLemma
<1>7. TypeOK'
  <2>1. tries' \in [Msgs -> Nat] /\ torn' \subseteq Msgs
    BY SMTT(60), <1>1, <1>3 DEF OutboxInv, TypeOK
  <2>2. DOMAIN disk_out' \subseteq Nat /\ \A id \in DOMAIN disk_out' : disk_out'[id] \in Saved
    BY <1>1, <1>5 DEF Directory
  <2> QED
    BY SMTT(60), <1>1, <1>6, <2>1, <2>2, FS_EmptySet DEF OutboxInv, TypeOK, Empty
<1>8. IdsDistinct' /\ QueueIsPersisted'
  BY <1>1, <1>6 DEF IdsDistinct, QueueIsPersisted
<1>9. FilesAreOpen'
  BY <1>1, <1>2, <1>3, <1>4, OpenAfterPop
<1>10. UntouchedBefore' /\ HandedOverOnce'
  BY <1>1, <1>2, <1>3 DEF OutboxInv, UntouchedBefore, HandedOverOnce
<1>11. RetryBudget'
  BY SMTT(60), <1>1, <1>2, <1>3, PolicyAssumption DEF OutboxInv, RetryBudget
<1>12. Accounted'
  <2>1. OnDisk \subseteq OnDisk' \cup {h.msg}
    BY <1>1, <1>2, <1>4 DEF OnDisk
  <2> QED
    BY <1>1, <2>1 DEF OutboxInv, Accounted
<1> QED
  BY <1>7, <1>8, <1>9, <1>10, <1>11, <1>12 DEF OutboxInv

-----------------------------------------------------------------------------
\* Every step of the outbox, a crash included, preserves the invariant.
LEMMA StepInv == OutboxInv /\ [Next]_vars => OutboxInv'
<1> SUFFICES ASSUME OutboxInv, [Next]_vars PROVE OutboxInv'
  OBVIOUS
<1>1. CASE \E m \in Msgs : enqueue(m)
  BY <1>1, EnqueueInv
<1>2. CASE DeliverOk
  BY <1>2, DeliverOkInv
<1>3. CASE DeliverRetry
  BY <1>3, DeliverRetryInv
<1>4. CASE \E pv \in BOOLEAN : DeliverFail(pv)
  BY <1>4, DeliverFailInv
<1>5. CASE next_delivery_err
  BY <1>5, DropInv
<1>6. CASE \/ \E d \in handed : dispatch(d) \/ \E t \in Timeouts : mark_inflight(d, t)
           \/ \E id \in DOMAIN inflight : mark_delivered(id) \/ mark_failed(id)
           \/ poll_timeouts
           \/ pop_failed
           \/ tick
  BY <1>6, ReceiptInv
<1>7. CASE restart
  BY <1>7, RestartInv
<1>8. CASE \E pv \in BOOLEAN : crash_in_failure(pv)
  BY <1>8, CrashInFailureInv
<1>9. CASE UNCHANGED vars
  <2>1. TypeOK'
    BY <1>9 DEF vars, memory, disk, clock, history, OutboxInv, TypeOK
  <2> QED
    BY <1>9, <2>1, FrameInv DEF vars, memory, disk, clock, history
<1> QED
  BY <1>1, <1>2, <1>3, <1>4, <1>5, <1>6, <1>7, <1>8, <1>9
  DEF Next, RuntimeNext, next_delivery_with_retry

\* The inductive invariant holds in every reachable state of the outbox, for
\* any messages, retry policy and crash bound.
THEOREM OutboxInvariant == Spec => []OutboxInv
  BY InitInv, StepInv, PTL DEF Spec

\* RnsRouter never hands a message to the transport twice, however often the
\* process crashes and restores its queue from disk.
THEOREM NeverHandedOverTwice == Spec => []HandedOverOnce
<1>1. OutboxInv => HandedOverOnce
  BY DEF OutboxInv
<1> QED
  BY <1>1, OutboxInvariant, PTL

\* No accepted message is lost without a trace: it is in the outbound
\* directory, was handed over, was recorded as failed, or the process died
\* between the two file operations of its final failure.
THEOREM NothingUnaccounted == Spec => []Accounted
<1>1. OutboxInv => Accounted
  BY DEF OutboxInv
<1> QED
  BY <1>1, OutboxInvariant, PTL

\* Crashes never extend the retry budget of a message, because the retry
\* branch persists the attempt count before the item is queued again.
THEOREM BudgetSurvivesCrashes == Spec => []RetryBudget
<1>1. OutboxInv => RetryBudget
  BY DEF OutboxInv
<1> QED
  BY <1>1, OutboxInvariant, PTL

\* Whatever waits in memory is on disk under the same id, with the same
\* message and attempt count.
THEOREM QueueAlwaysPersisted == Spec => []QueueIsPersisted
<1>1. OutboxInv => QueueIsPersisted
  BY DEF OutboxInv
<1> QED
  BY <1>1, OutboxInvariant, PTL

-----------------------------------------------------------------------------
\* Deliveries the caller or the in-flight table holds have been handed over.
OutIsSent ==
    /\ \A d \in handed : sent[d.msg] > 0
    /\ \A id \in DOMAIN inflight : sent[inflight[id].msg] > 0

\* A step that leaves what Delivery sees alone is a stuttering step there.
LEMMA Stutter ==
  ASSUME UNCHANGED <<accepted, disk_out, sent, gave_up, torn, tries>>
  PROVE  UNCHANGED Promise!vars
  BY DEF Promise!vars, OnDisk

\* The initial states of the queue are initial states of Delivery.
LEMMA InitImplements == Init => Promise!Init /\ OutIsSent
<1> SUFFICES ASSUME Init PROVE Promise!Init /\ OutIsSent
  OBVIOUS
<1>1. OnDisk = {}
  BY DEF Init, OnDisk, Empty
<1>2. {m \in Msgs : sent[m] > 0} = {}
  BY SMTT(60) DEF Init
<1>3. OutIsSent
  BY DEF Init, OutIsSent, Empty
<1> QED
  BY <1>1, <1>2, <1>3 DEF Init, Promise!Init

\* A new file makes its message wait.
LEMMA EnqueueImplements ==
  ASSUME OutboxInv, NEW m \in Msgs, enqueue(m)
  PROVE  Promise!Accept(m)
<1>1. /\ m \notin accepted
      /\ disk_out' = write_file(disk_out, next_id, [msg |-> m, attempts |-> 0, at |-> 0])
      /\ accepted' = accepted \cup {m}
      /\ UNCHANGED <<tries, sent, gave_up, torn>>
  BY DEF enqueue, Record
<1>2. next_id \notin DOMAIN disk_out
  BY SMTT(60) DEF OutboxInv, TypeOK, IdsDistinct
<1>3. OnDisk' = OnDisk \cup {m}
  <2>1. DOMAIN disk_out' = DOMAIN disk_out \cup {next_id}
    BY <1>1
  <2>2. \A k \in DOMAIN disk_out : disk_out'[k].msg = disk_out[k].msg
    BY <1>1, <1>2
  <2>3. disk_out'[next_id].msg = m
    BY <1>1
  <2> QED
    BY <2>1, <2>2, <2>3 DEF OnDisk
<1> QED
  BY <1>1, <1>3 DEF Promise!Accept

\* The head of the queue waits, and is gone from the waiting ones when its file
\* is removed: no other file holds the same message.
LEMMA HeadWaits ==
  ASSUME OutboxInv, outbound # <<>>
  PROVE  LET h == Head(outbound)
         IN  /\ h.msg \in Msgs
             /\ h.msg \in OnDisk
             /\ disk_out' = remove_file(disk_out, h.id) => OnDisk' = OnDisk \ {h.msg}
<1> DEFINE h == Head(outbound)
<1>1. /\ h \in Item
      /\ h.id \in DOMAIN disk_out
      /\ \A id \in DOMAIN disk_out : disk_out[id].msg = h.msg <=> id = h.id
      /\ disk_out[h.id].msg = h.msg
  BY HeadLemma
<1>2. h.msg \in Msgs /\ h.msg \in OnDisk
  BY <1>1 DEF Item, OnDisk
<1>3. ASSUME disk_out' = remove_file(disk_out, h.id) PROVE OnDisk' = OnDisk \ {h.msg}
  <2>1. DOMAIN disk_out' = DOMAIN disk_out \ {h.id}
    BY <1>3
  <2>2. \A k \in DOMAIN disk_out' : disk_out'[k].msg = disk_out[k].msg
    BY <1>3, <2>1
  <2>3. ASSUME NEW k \in DOMAIN disk_out' PROVE disk_out'[k].msg \in OnDisk \ {h.msg}
    BY <1>1, <2>1, <2>2 DEF OnDisk
  <2>4. ASSUME NEW k \in DOMAIN disk_out, disk_out[k].msg # h.msg
        PROVE  disk_out[k].msg \in OnDisk'
    BY <1>1, <2>1, <2>2, <2>4 DEF OnDisk
  <2> QED
    BY <2>3, <2>4 DEF OnDisk
<1> QED
  BY <1>2, <1>3

\* A successful delivery is a hand-over.
LEMMA DeliverOkImplements ==
  ASSUME OutboxInv, DeliverOk
  PROVE  \E m \in Msgs : Promise!HandOver(m)
<1> DEFINE h == Head(outbound)
<1>1. /\ outbound # <<>>
      /\ disk_out' = remove_file(disk_out, h.id)
      /\ tries' = [tries EXCEPT ![h.msg] = @ + 1]
      /\ sent' = [sent EXCEPT ![h.msg] = @ + 1]
      /\ UNCHANGED <<accepted, gave_up, torn>>
  BY DEF DeliverOk, HeadDue
<1>2. h.msg \in Msgs /\ h.msg \in OnDisk /\ OnDisk' = OnDisk \ {h.msg}
  BY <1>1, HeadWaits
<1>3. {m \in Msgs : sent[m] > 0}' = {m \in Msgs : sent[m] > 0} \cup {h.msg}
  BY SMTT(60), <1>1, <1>2 DEF OutboxInv, TypeOK
<1> QED
  BY <1>1, <1>2, <1>3 DEF Promise!HandOver, Promise!Try

\* A failed attempt that is not the last one is a retry: the file that is
\* overwritten keeps its message.
LEMMA DeliverRetryImplements ==
  ASSUME OutboxInv, DeliverRetry
  PROVE  \E m \in Msgs : Promise!Retry(m)
<1> DEFINE h == Head(outbound)
<1> DEFINE tried == h.attempts + 1
<1> DEFINE item == [h EXCEPT !.attempts = tried, !.at = now + retry_delay_ms(tried)]
<1>1. /\ outbound # <<>>
      /\ AttemptsLeft(tried)
      /\ disk_out' = write_file(disk_out, item.id, Record(item))
      /\ tries' = [tries EXCEPT ![item.msg] = @ + 1]
      /\ UNCHANGED <<accepted, sent, gave_up, torn>>
  BY DEF DeliverRetry, HeadDue
<1>2. /\ h \in Item
      /\ h.id \in DOMAIN disk_out
      /\ tries[h.msg] = h.attempts
      /\ disk_out[h.id].msg = h.msg
  BY <1>1, HeadLemma
<1>3. item.id = h.id /\ item.msg = h.msg
  BY SMTT(60), <1>2 DEF Item
<1>4. Record(item).msg = h.msg
  BY <1>3 DEF Record
<1>5. OnDisk' = OnDisk
  <2>1. DOMAIN disk_out' = DOMAIN disk_out
    BY <1>1, <1>2, <1>3
  <2>2. \A k \in DOMAIN disk_out : disk_out'[k].msg = disk_out[k].msg
    BY <1>1, <1>2, <1>3, <1>4
  <2> QED
    BY <2>1, <2>2 DEF OnDisk
<1>6. h.msg \in Msgs /\ h.msg \in OnDisk
  BY <1>1, HeadWaits
<1>7. tries[h.msg] + 1 < MaxAttempts
  BY <1>1, <1>2 DEF AttemptsLeft
<1> QED
  BY <1>1, <1>3, <1>5, <1>6, <1>7 DEF Promise!Retry, Promise!Try

\* A final failure gives the message up.
LEMMA DeliverFailImplements ==
  ASSUME OutboxInv, NEW pv \in BOOLEAN, DeliverFail(pv)
  PROVE  \E m \in Msgs : Promise!GiveUp(m)
<1> DEFINE h == Head(outbound)
<1>1. /\ outbound # <<>>
      /\ disk_out' = remove_file(disk_out, h.id)
      /\ tries' = [tries EXCEPT ![h.msg] = @ + 1]
      /\ gave_up' = gave_up \cup {h.msg}
      /\ UNCHANGED <<accepted, sent, torn>>
  BY DEF DeliverFail, HeadDue
<1>2. h.msg \in Msgs /\ h.msg \in OnDisk /\ OnDisk' = OnDisk \ {h.msg}
  BY <1>1, HeadWaits
<1> QED
  BY <1>1, <1>2 DEF Promise!GiveUp, Promise!Try

\* A crash between the two file operations of a final failure loses it.
LEMMA CrashInFailureImplements ==
  ASSUME OutboxInv, NEW pv \in BOOLEAN, crash_in_failure(pv)
  PROVE  \E m \in Msgs : Promise!Lose(m)
<1> DEFINE h == Head(outbound)
<1>1. /\ outbound # <<>>
      /\ disk_out' = remove_file(disk_out, h.id)
      /\ tries' = [tries EXCEPT ![h.msg] = @ + 1]
      /\ torn' = torn \cup {h.msg}
      /\ UNCHANGED <<accepted, sent, gave_up>>
  BY DEF crash_in_failure, HeadDue
<1>2. h.msg \in Msgs /\ h.msg \in OnDisk /\ OnDisk' = OnDisk \ {h.msg}
  BY <1>1, HeadWaits
<1> QED
  BY <1>1, <1>2 DEF Promise!Lose, Promise!Try

\* A receipt that fails, or several that time out, are a report about messages
\* handed over before.
LEMMA ReportImplements ==
  ASSUME OutboxInv, OutIsSent,
         (\E id \in DOMAIN inflight : mark_failed(id)) \/ poll_timeouts
  PROVE  \E S \in SUBSET Msgs : Promise!Report(S)
<1>1. ASSUME NEW ids \in SUBSET DOMAIN inflight,
             gave_up' = gave_up \cup {inflight[id].msg : id \in ids},
             UNCHANGED <<disk_out, accepted, tries, sent, torn>>
      PROVE  \E S \in SUBSET Msgs : Promise!Report(S)
  <2> DEFINE S == {inflight[id].msg : id \in ids}
  <2>1. S \subseteq {m \in Msgs : sent[m] > 0}
    BY DEF OutboxInv, TypeOK, Flight, OutIsSent
  <2>2. OnDisk' = OnDisk
    BY <1>1 DEF OnDisk
  <2>3. Promise!Report(S)
    BY <1>1, <2>1, <2>2 DEF Promise!Report
  <2> QED
    BY <2>1, <2>3
<1>2. CASE \E id \in DOMAIN inflight : mark_failed(id)
  <2>1. PICK id \in DOMAIN inflight : mark_failed(id)
    BY <1>2
  <2>2. gave_up' = gave_up \cup {inflight[k].msg : k \in {id}}
    BY <2>1 DEF mark_failed
  <2>3. UNCHANGED <<disk_out, accepted, tries, sent, torn>>
    BY <2>1 DEF mark_failed
  <2>4. {id} \in SUBSET DOMAIN inflight
    BY <2>1
  <2> QED
    BY <1>1, <2>2, <2>3, <2>4
<1>3. CASE poll_timeouts
  <2> DEFINE expired == {id \in DOMAIN inflight : Expired(id)}
  <2>1. gave_up' = gave_up \cup {inflight[id].msg : id \in expired}
    BY <1>3 DEF poll_timeouts
  <2>2. UNCHANGED <<disk_out, accepted, tries, sent, torn>>
    BY <1>3 DEF poll_timeouts
  <2> HIDE DEF expired
  <2>3. expired \in SUBSET DOMAIN inflight
    BY DEF expired
  <2> QED
    BY <1>1, <2>1, <2>2, <2>3
<1> QED
  BY <1>2, <1>3

\* Every step of the queue is a step of Delivery or stutters there.
LEMMA StepImplements ==
  ASSUME OutboxInv, OutIsSent, [Next]_vars
  PROVE  [Promise!Next]_(Promise!vars)
<1> USE DEF Promise!Next
<1>1. CASE \E m \in Msgs : enqueue(m)
  BY <1>1, EnqueueImplements
<1>2. CASE DeliverOk
  BY <1>2, DeliverOkImplements
<1>3. CASE DeliverRetry
  BY <1>3, DeliverRetryImplements
<1>4. CASE \E pv \in BOOLEAN : DeliverFail(pv)
  BY <1>4, DeliverFailImplements
<1>5. CASE \E pv \in BOOLEAN : crash_in_failure(pv)
  BY <1>5, CrashInFailureImplements
<1>6. CASE (\E id \in DOMAIN inflight : mark_failed(id)) \/ poll_timeouts
  BY <1>6, ReportImplements
<1>7. CASE \/ next_delivery_err
           \/ \E d \in handed : dispatch(d) \/ \E t \in Timeouts : mark_inflight(d, t)
           \/ \E id \in DOMAIN inflight : mark_delivered(id)
           \/ pop_failed
           \/ restart
           \/ tick
           \/ UNCHANGED vars
  <2>1. UNCHANGED <<accepted, disk_out, sent, gave_up, torn, tries>>
    BY <1>7 DEF next_delivery_err, dispatch, mark_inflight, mark_delivered,
         pop_failed, restart, tick, vars, memory, disk, clock, history
  <2> QED
    BY <2>1, Stutter
<1> QED
  BY <1>1, <1>2, <1>3, <1>4, <1>5, <1>6, <1>7
  DEF Next, RuntimeNext, next_delivery_with_retry

\* Deliveries in hand have been handed over: they enter the set when sent
\* grows, and sent never shrinks.
LEMMA OutIsSentStep ==
  ASSUME OutboxInv, OutIsSent, [Next]_vars
  PROVE  OutIsSent'
<1> USE DEF OutIsSent
<1>1. CASE DeliverOk
  <2> DEFINE h == Head(outbound)
  <2>1. /\ outbound # <<>>
        /\ handed' = handed \cup {[id |-> h.id, msg |-> h.msg]}
        /\ sent' = [sent EXCEPT ![h.msg] = @ + 1]
        /\ inflight' = inflight
    BY <1>1 DEF DeliverOk, HeadDue
  <2>2. h.msg \in Msgs /\ sent \in [Msgs -> Nat]
    BY <2>1, HeadWaits DEF OutboxInv, TypeOK
  <2>3. \A m \in Msgs : sent[m] > 0 => sent'[m] > 0
    BY SMTT(60), <2>1, <2>2
  <2>4. sent'[h.msg] > 0
    BY SMTT(60), <2>1, <2>2
  <2>5. \A d \in handed : d.msg \in Msgs
    BY DEF OutboxInv, TypeOK, Failure
  <2>6. \A id \in DOMAIN inflight : inflight[id].msg \in Msgs
    BY DEF OutboxInv, TypeOK, Flight
  <2>7. ASSUME NEW d \in handed' PROVE sent'[d.msg] > 0
    <3>1. CASE d \in handed
      BY <2>3, <2>5, <3>1
    <3>2. CASE d = [id |-> h.id, msg |-> h.msg]
      <4>1. d.msg = h.msg
        BY <3>2
      <4> QED
        BY <2>4, <4>1
    <3> QED
      BY <2>1, <3>1, <3>2
  <2>8. \A id \in DOMAIN inflight' : sent'[inflight'[id].msg] > 0
    BY <2>1, <2>3, <2>6
  <2> QED
    BY <2>7, <2>8
<1>2. CASE \/ \E m \in Msgs : enqueue(m)
           \/ DeliverRetry
           \/ \E pv \in BOOLEAN : DeliverFail(pv)
           \/ next_delivery_err \/ pop_failed \/ tick \/ UNCHANGED vars
  <2>1. UNCHANGED <<handed, inflight, sent>>
    BY <1>2 DEF enqueue, DeliverRetry, DeliverFail, next_delivery_err, pop_failed,
         tick, vars, memory, history
  <2> QED
    BY <2>1
<1>3. CASE restart \/ \E pv \in BOOLEAN : crash_in_failure(pv)
  <2>1. handed' = {} /\ inflight' = Empty
    BY <1>3 DEF restart, crash_in_failure, fresh_memory
  <2> QED
    BY <2>1 DEF Empty
<1>4. CASE \E d \in handed : dispatch(d)
  BY <1>4 DEF dispatch, history
<1>5. ASSUME NEW d \in handed, NEW t \in Timeouts, mark_inflight(d, t)
      PROVE  OutIsSent'
  BY <1>5 DEF mark_inflight, history
<1>6. CASE \/ \E id \in DOMAIN inflight : mark_delivered(id) \/ mark_failed(id)
           \/ poll_timeouts
  <2>1. UNCHANGED <<handed, sent>>
    BY <1>6 DEF mark_delivered, mark_failed, poll_timeouts, history
  <2>2. \A id \in DOMAIN inflight' : id \in DOMAIN inflight /\ inflight'[id] = inflight[id]
    <3>1. ASSUME NEW id \in DOMAIN inflight, mark_delivered(id) \/ mark_failed(id)
          PROVE  \A i \in DOMAIN inflight' : i \in DOMAIN inflight /\ inflight'[i] = inflight[i]
      BY <3>1 DEF mark_delivered, mark_failed
    <3>2. ASSUME poll_timeouts
          PROVE  \A i \in DOMAIN inflight' : i \in DOMAIN inflight /\ inflight'[i] = inflight[i]
      BY <3>2 DEF poll_timeouts
    <3> QED
      BY <1>6, <3>1, <3>2
  <2> QED
    BY <2>1, <2>2
<1> QED
  BY <1>1, <1>2, <1>3, <1>4, <1>5, <1>6
  DEF Next, RuntimeNext, next_delivery_with_retry

\* The outbound queue with its files, retries, receipts and crashes keeps what
\* Delivery promises of each message, for any messages and retry policy.
THEOREM OutboxImplementsDelivery == Spec => ImplementsDelivery
<1>1. OutboxInv /\ OutIsSent /\ [Next]_vars
        => OutIsSent' /\ [Promise!Next]_(Promise!vars)
  BY StepImplements, OutIsSentStep
<1> QED
  BY <1>1, InitImplements, OutboxInvariant, PTL DEF Spec, ImplementsDelivery, Promise!Spec
=============================================================================
