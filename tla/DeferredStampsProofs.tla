------------------------ MODULE DeferredStampsProofs ------------------------
(***************************************************************************)
(* The background stamps, for any messages. LockDiscipline is inductive    *)
(* together with the types: the flag is what keeps workers apart, and the  *)
(* mutex is only needed against the main thread's handle_outbound. The     *)
(* order of messages rests on it: with one worker at most the queues form  *)
(* one pipeline, through which no element can overtake another.            *)
(***************************************************************************)
EXTENDS DeferredStamps, TLAPS

\* The time the SMT solver may take at a leaf that names no other prover.
USE SMTT(60)

\* With empty queues and no worker the threads start in order (LxmfRouter::new).
LEMMA InitInv == Init => StampsInv
<1>1. <<>> \in Seq(Msgs) /\ 0 \in 0..Batch
  BY BatchAssumption
<1>2. Init => TypeOK
  BY Zenon, <1>1 DEF Init, TypeOK, None
<1> QED
  BY <1>2 DEF Init, StampsInv, LockDiscipline, Locked, None

\* What the main thread does outside ticks.
LEMMA OutboundInv ==
  ASSUME StampsInv
  PROVE  /\ \A m \in Msgs : handle_outbound_now(m) \/ handle_outbound(m) => StampsInv'
         /\ share => StampsInv'
<1> USE DEF StampsInv, LockDiscipline, Locked, None
<1>1. ASSUME NEW m \in Msgs, handle_outbound_now(m) PROVE StampsInv'
  BY <1>1 DEF handle_outbound_now, TypeOK
<1>2. ASSUME NEW m \in Msgs, handle_outbound(m) PROVE StampsInv'
  BY <1>2 DEF handle_outbound, TypeOK
<1>3. ASSUME share PROVE StampsInv'
  BY <1>3 DEF share, TypeOK
<1> QED
  BY <1>1, <1>2, <1>3

\* The steps of a tick.
LEMMA TickInv ==
  ASSUME StampsInv, tick \/ try_recv \/ check_active \/ peek \/ spawn
  PROVE  StampsInv'
<1> USE DEF StampsInv, LockDiscipline, Locked, None
<1>1. CASE tick
  BY <1>1, BatchAssumption DEF tick, TypeOK
<1>2. CASE try_recv
  <2>1. Head(channel) \in Msgs /\ Tail(channel) \in Seq(Msgs) /\ tail(local) \in Seq(Msgs)
    BY <1>2 DEF try_recv, tail, TypeOK
  <2>2. taken + 1 \in 0..Batch
    BY <1>2, BatchAssumption DEF try_recv, TypeOK
  <2> QED
    BY <1>2, <2>1, <2>2 DEF try_recv, TypeOK
<1>3. CASE check_active
  BY <1>3 DEF check_active, TypeOK
<1>4. CASE peek
  BY <1>4 DEF peek, TypeOK
<1>5. CASE spawn
  BY Zenon, <1>5 DEF spawn, TypeOK
<1> QED
  BY <1>1, <1>2, <1>3, <1>4, <1>5

\* The steps of the worker.
LEMMA WorkInv ==
  ASSUME StampsInv, Work
  PROVE  StampsInv'
<1> USE DEF StampsInv, LockDiscipline, Locked, None
<1>1. CASE worker_start
  BY <1>1 DEF worker_start, TypeOK
<1>2. CASE worker_pop
  <2>1. CASE shared = <<>>
    BY <1>2, <2>1 DEF worker_pop, TypeOK
  <2>2. CASE shared # <<>>
    <3>1. Head(shared) \in Msgs /\ Tail(shared) \in Seq(Msgs)
      BY <2>2 DEF TypeOK
    <3> QED
      BY Zenon, <1>2, <2>2, <3>1 DEF worker_pop, TypeOK
  <2> QED
    BY <2>1, <2>2
<1>3. CASE worker_send
  BY <1>3 DEF worker_send, TypeOK
<1>4. CASE worker_unlock
  BY <1>4 DEF worker_unlock, TypeOK
<1>5. CASE worker_clear
  BY Zenon, <1>5 DEF worker_clear, TypeOK
<1> QED
  BY <1>1, <1>2, <1>3, <1>4, <1>5 DEF Work

\* The explicit hook touches neither lock, flag nor worker.
LEMMA HookInv ==
  ASSUME StampsInv, NEW max_items \in 1..Cardinality(Msgs), process_deferred_stamps(max_items)
  PROVE  StampsInv'
<1> DEFINE count == IF max_items < Len(local) THEN max_items ELSE Len(local)
<1>1. /\ queued' = queued \o SubSeq(local, 1, count)
      /\ local' = SubSeq(local, count + 1, Len(local))
      /\ UNCHANGED <<shared, lock, active, channel, main, taken, current, worker,
                     item, submitted>>
  BY DEF process_deferred_stamps
<1>2. local \in Seq(Msgs) /\ queued \in Seq(Msgs) /\ count \in Nat /\ count <= Len(local)
  BY DEF StampsInv, TypeOK
<1> HIDE DEF count
<1>3. SubSeq(local, 1, count) \in Seq(Msgs) /\ SubSeq(local, count + 1, Len(local)) \in Seq(Msgs)
  BY <1>2
<1>4. queued' \in Seq(Msgs) /\ local' \in Seq(Msgs)
  BY <1>1, <1>2, <1>3
<1> QED
  BY Zenon, <1>1, <1>4 DEF StampsInv, TypeOK, LockDiscipline, Locked, None

\* No step of the main thread, the worker or the explicit hook breaks the order.
LEMMA StepInv == StampsInv /\ [HookNext]_vars => StampsInv'
<1> SUFFICES ASSUME StampsInv, [HookNext]_vars PROVE StampsInv'
  OBVIOUS
<1>1. ASSUME DaemonNext PROVE StampsInv'
  BY <1>1, OutboundInv, TickInv, WorkInv DEF DaemonNext, Continue
<1>2. ASSUME UNCHANGED vars PROVE StampsInv'
  BY <1>2 DEF vars, StampsInv, TypeOK, LockDiscipline, Locked, None
<1> QED
  BY <1>1, <1>2, HookInv DEF HookNext

\* The threads of handle_outbound, tick and the worker respect the mutex, the
\* flag is set exactly while a worker lives, so no two workers run at once, and
\* a tick that sees the flag clear finds the mutex free.
THEOREM StampsInvariant == HookSpec => []StampsInv
<1>1. Init => StampsInv
  BY InitInv
<1>2. StampsInv /\ [HookNext]_vars => StampsInv'
  BY StepInv
<1> QED
  BY <1>1, <1>2, PTL DEF HookSpec

\* The same for the daemon, which does not call the hook.
THEOREM DaemonInvariant == DaemonSpec => []StampsInv
<1>1. Init => StampsInv
  BY InitInv
<1>2. StampsInv /\ [DaemonNext]_vars => StampsInv'
  BY StepInv DEF HookNext
<1> QED
  BY <1>1, <1>2, PTL DEF DaemonSpec

-----------------------------------------------------------------------------
(* Once each and in order. Between them the queues form one pipeline: a    *)
(* step of a thread moves its oldest element on, or adds a new message.    *)

\* Joining sequences.
LEMMA Joined ==
  ASSUME NEW S, NEW a \in Seq(S), NEW b \in Seq(S)
  PROVE  a \o b \in Seq(S) /\ a \o <<>> = a
  OBVIOUS

\* Moving an element across a joint.
LEMMA MovedOver ==
  ASSUME NEW S, NEW a \in Seq(S), NEW b \in Seq(S), b # <<>>
  PROVE  /\ Append(a, Head(b)) \o Tail(b) = a \o b
         /\ <<Head(b)>> \o Tail(b) = b
  OBVIOUS

LEMMA Appended ==
  ASSUME NEW S, NEW a \in Seq(S), NEW m \in S
  PROVE  /\ <<m>> \in Seq(S)
         /\ Append(a, m) \in Seq(S)
         /\ Append(a, m) = a \o <<m>>
         /\ Len(Append(a, m)) = Len(a) + 1
         /\ Append(a, m)[Len(a) + 1] = m
         /\ \A i \in 1..Len(a) : Append(a, m)[i] = a[i]
  OBVIOUS

\* An element put in between two sequences pushes the second one back.
LEMMA PutBetween ==
  ASSUME NEW S, NEW a \in Seq(S), NEW b \in Seq(S), NEW m \in S
  PROVE  /\ Len(Append(a, m) \o b) = Len(a \o b) + 1
         /\ \A i \in 1..Len(Append(a, m) \o b) :
               (Append(a, m) \o b)[i] =
                   IF i <= Len(a) THEN (a \o b)[i]
                   ELSE IF i = Len(a) + 1 THEN m ELSE (a \o b)[i - 1]
  OBVIOUS

\* A queue is as long as itself.
LEMMA SameLength ==
  ASSUME NEW S, NEW a \in Seq(S)
  PROVE  Len(a) >= Len(a)
  OBVIOUS

\* The queues and their joints.
LEMMA PipelineType ==
  ASSUME StampsInv
  PROVE  /\ queued \in Seq(Msgs) /\ channel \in Seq(Msgs) /\ shared \in Seq(Msgs)
         /\ InHand \in Seq(Msgs) /\ Sharing \in Seq(Msgs)
         /\ Background \in Seq(Msgs) /\ Pipeline \in Seq(Msgs)
         /\ submitted \in Seq(Msgs)
<1>1. InHand \in Seq(Msgs) /\ Sharing \in Seq(Msgs)
  BY DEF StampsInv, TypeOK, InHand, Sharing
<1>2. /\ queued \in Seq(Msgs) /\ channel \in Seq(Msgs) /\ shared \in Seq(Msgs)
      /\ submitted \in Seq(Msgs)
  BY DEF StampsInv, TypeOK
<1>3. Background \in Seq(Msgs)
  BY Zenon, <1>1, <1>2, Joined DEF Background
<1>4. Pipeline \in Seq(Msgs)
  BY Zenon, <1>2, <1>3, Joined DEF Pipeline
<1> QED
  BY <1>1, <1>2, <1>3, <1>4

\* The steps that move elements along, and those that touch no queue at all:
\* the pipeline as a whole stays the same.
LEMMA Moves ==
  ASSUME StampsInv,
         \/ share \/ tick \/ try_recv \/ check_active \/ peek \/ spawn \/ Work
         \/ UNCHANGED vars
  PROVE  Pipeline' = Pipeline /\ submitted' = submitted /\ Len(queued') >= Len(queued)
<1>1. /\ queued \in Seq(Msgs) /\ channel \in Seq(Msgs) /\ shared \in Seq(Msgs)
      /\ InHand \in Seq(Msgs) /\ Sharing \in Seq(Msgs) /\ <<>> \in Seq(Msgs)
  BY PipelineType
<1>2. CASE share
  <2>1. current \in Msgs /\ lock = "main" /\ worker # "send"
    BY <1>2 DEF StampsInv, TypeOK, LockDiscipline, Locked, share
  <2>2. /\ channel' = channel /\ queued' = queued /\ submitted' = submitted
        /\ InHand' = InHand /\ Sharing = <<current>> /\ Sharing' = <<>>
        /\ shared' = shared \o <<current>> /\ shared' \in Seq(Msgs)
    BY <1>1, <1>2, <2>1, Appended DEF share, InHand, Sharing
  <2>3. channel \o InHand \in Seq(Msgs) /\ <<current>> \in Seq(Msgs)
    BY Zenon, <1>1, <2>1, Joined, Appended
  <2>4. (channel \o InHand) \o (shared \o <<current>>) =
           ((channel \o InHand) \o shared) \o <<current>>
    BY <1>1, <2>3
  <2>5. ((channel \o InHand) \o shared') \o <<>> = (channel \o InHand) \o shared'
    BY Zenon, <1>1, <2>2, <2>3, Joined
  <2>6. Background' = Background
    BY Zenon, <2>2, <2>4, <2>5 DEF Background
  <2> QED
    BY <1>1, <2>2, <2>6 DEF Pipeline
<1>3. CASE try_recv
  <2> DEFINE both == InHand \o shared
             rest == both \o Sharing
  <2>1. /\ channel # <<>> /\ queued' = Append(queued, Head(channel))
        /\ channel' = Tail(channel) /\ shared' = shared /\ submitted' = submitted
        /\ InHand' = InHand /\ Sharing' = Sharing
    BY <1>3 DEF try_recv, InHand, Sharing
  <2>2. both \in Seq(Msgs) /\ rest \in Seq(Msgs)
    BY Zenon, <1>1, Joined
  <2>3. channel' \in Seq(Msgs) /\ Len(queued') = Len(queued) + 1 /\ queued' \in Seq(Msgs)
    BY <1>1, <2>1
  <2>4. ASSUME NEW c \in Seq(Msgs)
        PROVE  ((c \o InHand) \o shared) \o Sharing = c \o rest
    <3>1. (c \o InHand) \o shared = c \o both
      BY <1>1
    <3>2. (c \o both) \o Sharing = c \o (both \o Sharing)
      <4> HIDE DEF both
      <4> QED
        BY <1>1, <2>2
    <3> QED
      BY Zenon, <3>1, <3>2
  <2>5. Background = channel \o rest /\ Background' = channel' \o rest
    BY Zenon, <1>1, <2>1, <2>3, <2>4 DEF Background
  <2> HIDE DEF rest
  <2>6. queued' \o channel' = queued \o channel
    BY Zenon, <1>1, <2>1, MovedOver
  <2>7. Pipeline' = Pipeline
    <3>1. queued \o (channel \o rest) = (queued \o channel) \o rest
      BY <1>1, <2>2
    <3>2. queued' \o (channel' \o rest) = (queued' \o channel') \o rest
      BY <2>2, <2>3
    <3> QED
      BY Zenon, <2>5, <2>6, <3>1, <3>2 DEF Pipeline
  <2> QED
    BY <1>1, <2>1, <2>3, <2>7
<1>4. CASE worker_pop /\ shared # <<>>
  <2>1. /\ channel' = channel /\ queued' = queued /\ submitted' = submitted
        /\ Sharing' = Sharing /\ InHand = <<>> /\ InHand' = <<Head(shared)>>
        /\ shared' = Tail(shared)
    BY <1>4 DEF worker_pop, InHand, Sharing
  <2>2. InHand' \in Seq(Msgs) /\ shared' \in Seq(Msgs)
    BY <1>1, <1>4, <2>1
  <2>3. (channel \o InHand') \o shared' = channel \o shared
    <3>1. (channel \o InHand') \o shared' = channel \o (InHand' \o shared')
      BY <1>1, <2>2
    <3> QED
      BY Zenon, <1>1, <1>4, <2>1, <3>1, MovedOver
  <2>4. channel \o InHand = channel
    BY Zenon, <1>1, <2>1, Joined
  <2> QED
    BY Zenon, <1>1, <2>1, <2>3, <2>4, SameLength DEF Pipeline, Background
<1>5. CASE worker_send
  <2>1. /\ channel' = Append(channel, item) /\ queued' = queued /\ submitted' = submitted
        /\ Sharing' = Sharing /\ InHand = <<item>> /\ InHand' = <<>>
        /\ shared' = shared /\ item \in Msgs
    BY <1>5 DEF worker_send, InHand, Sharing, StampsInv, TypeOK
  <2>2. channel' \o InHand' = channel \o InHand
    BY Zenon, <1>1, <2>1, Appended, Joined
  <2> QED
    BY Zenon, <1>1, <2>1, <2>2, SameLength DEF Pipeline, Background
<1>6. ASSUME \/ tick \/ check_active \/ peek \/ spawn \/ worker_start \/ worker_unlock
             \/ worker_clear \/ UNCHANGED vars \/ (worker_pop /\ shared = <<>>)
      PROVE  Pipeline' = Pipeline /\ submitted' = submitted /\ Len(queued') >= Len(queued)
  <2>1. UNCHANGED <<channel, queued, shared, submitted>>
    BY <1>6 DEF tick, check_active, peek, spawn, worker_start, worker_unlock, worker_clear,
                vars, worker_pop
  <2>2. (main' = "share" <=> main = "share") /\ UNCHANGED current
    BY <1>6 DEF tick, check_active, peek, spawn, worker_start, worker_unlock, worker_clear,
                vars, worker_pop
  <2>3. (worker' = "send" <=> worker = "send") /\ UNCHANGED item
    BY <1>6 DEF tick, check_active, peek, spawn, worker_start, worker_unlock, worker_clear,
                vars, worker_pop, None, StampsInv, LockDiscipline
  <2>4. InHand' = InHand /\ Sharing' = Sharing
    BY <2>2, <2>3 DEF InHand, Sharing
  <2> QED
    BY Zenon, <1>1, <2>1, <2>4, SameLength DEF Pipeline, Background
<1> QED
  BY <1>2, <1>3, <1>4, <1>5, <1>6 DEF Work

\* While the pipeline and what was submitted stay the same, so does the order.
LEMMA MovesOrdered ==
  ASSUME StampsInv, OnceInOrder,
         Pipeline' = Pipeline, submitted' = submitted, queued' \in Seq(Msgs),
         Len(queued') >= Len(queued)
  PROVE  OnceInOrder'
<1>1. Pipeline \in Seq(Msgs) /\ queued \in Seq(Msgs)
  BY PipelineType
<1>2. BackgroundDeferred'
  <2>1. ASSUME NEW i \in 1..Len(Pipeline), i > Len(queued') PROVE i > Len(queued)
    BY <1>1, <2>1
  <2> QED
    BY Zenon, <2>1 DEF OnceInOrder, BackgroundDeferred
<1>3. SubmittedOnce'
  BY Zenon DEF OnceInOrder, SubmittedOnce
<1>4. EnqueuedOnce'
  BY Zenon DEF OnceInOrder, EnqueuedOnce
<1>5. OrderKept'
  BY DEF OnceInOrder, OrderKept
<1> QED
  BY Zenon, <1>2, <1>3, <1>4, <1>5 DEF OnceInOrder

\* A message that was neither enqueued nor submitted is nowhere in the pipeline.
LEMMA NewIsNowhere ==
  ASSUME StampsInv, OnceInOrder, NEW m \in Msgs, new(m)
  PROVE  /\ \A i \in 1..Len(Pipeline) : Pipeline[i] # m
         /\ \A a \in 1..Len(submitted) : submitted[a] # m
<1>1. /\ queued \in Seq(Msgs) /\ Background \in Seq(Msgs) /\ Pipeline \in Seq(Msgs)
      /\ submitted \in Seq(Msgs)
  BY PipelineType
<1>2. \A a \in 1..Len(submitted) : submitted[a] # m
  BY <1>1 DEF new, Range
<1>3. \A i \in 1..Len(queued) : queued[i] # m
  BY <1>1 DEF new, Range
<1>4. ASSUME NEW i \in 1..Len(Pipeline) PROVE Pipeline[i] # m
  <2>1. CASE i > Len(queued)
    BY Zenon, <2>1 DEF OnceInOrder, BackgroundDeferred, new
  <2>2. CASE i <= Len(queued)
    <3>1. Pipeline[i] = queued[i] /\ i \in 1..Len(queued)
      BY <1>1, <2>2 DEF Pipeline
    <3> QED
      BY Zenon, <1>3, <3>1
  <2> QED
    BY <1>1, <2>1, <2>2
<1> QED
  BY Zenon, <1>2, <1>4

\* handle_outbound without deferral puts m between what was handed over and
\* what is under way; m is no deferred message.
LEMMA NowOrdered ==
  ASSUME StampsInv, OnceInOrder, NEW m \in Msgs, handle_outbound_now(m)
  PROVE  OnceInOrder'
<1> DEFINE P == Pipeline
           Q == Pipeline'
           k == Len(queued)
           old(i) == IF i <= k THEN i ELSE i - 1
<1>1. /\ queued \in Seq(Msgs) /\ Background \in Seq(Msgs) /\ P \in Seq(Msgs)
      /\ submitted \in Seq(Msgs)
  BY PipelineType
<1>2. /\ \A i \in 1..Len(P) : P[i] # m
      /\ \A a \in 1..Len(submitted) : submitted[a] # m
  BY Zenon, NewIsNowhere DEF handle_outbound_now
<1>3. Q = Append(queued, m) \o Background /\ submitted' = submitted
      /\ queued' = Append(queued, m)
  BY DEF handle_outbound_now, Pipeline, Background, InHand, Sharing
<1>4. /\ Len(Q) = Len(P) + 1 /\ Len(queued') = k + 1 /\ k \in Nat /\ Len(P) \in Nat
      /\ k <= Len(P)
      /\ \A i \in 1..Len(Q) : Q[i] = IF i <= k THEN P[i] ELSE IF i = k + 1 THEN m ELSE P[i - 1]
  BY <1>1, <1>3, PutBetween DEF Pipeline
<1> HIDE DEF P, Q, k
<1>5. ASSUME NEW i \in 1..Len(Q), i # k + 1
      PROVE  old(i) \in 1..Len(P) /\ Q[i] = P[old(i)] /\ (i > k + 1 => old(i) > k)
  BY <1>4, <1>5
<1>6. ASSUME NEW i \in 1..Len(Q) PROVE Q[i] = m <=> i = k + 1
  BY <1>2, <1>4, <1>5
<1>7. ASSUME NEW i \in 1..Len(Q), NEW j \in 1..Len(Q), i # k + 1, j # k + 1
      PROVE  (old(i) = old(j) => i = j) /\ (i < j => old(i) < old(j))
  BY <1>4, <1>7
<1> HIDE DEF old
<1>8. BackgroundDeferred'
  <2>1. ASSUME NEW i \in 1..Len(Q), i > k + 1 PROVE Q[i] \in Range(submitted)
    <3>1. i # k + 1
      BY <1>4, <2>1
    <3>2. old(i) \in 1..Len(P) /\ Q[i] = P[old(i)] /\ old(i) > k
      BY Zenon, <1>5, <2>1, <3>1
    <3> QED
      BY Zenon, <3>2 DEF OnceInOrder, BackgroundDeferred, P, k
  <2> QED
    BY Zenon, <1>3, <1>4, <2>1 DEF BackgroundDeferred, Q
<1>9. EnqueuedOnce'
  <2>1. ASSUME NEW i \in 1..Len(Q), NEW j \in 1..Len(Q), Q[i] = Q[j] PROVE i = j
    <3>1. CASE i = k + 1 \/ j = k + 1
      BY Zenon, <1>6, <2>1, <3>1
    <3>2. CASE i # k + 1 /\ j # k + 1
      <4>1. old(i) = old(j)
        BY Zenon, <1>5, <2>1, <3>2 DEF OnceInOrder, EnqueuedOnce, P
      <4> QED
        BY Zenon, <1>7, <3>2, <4>1
    <3> QED
      BY Zenon, <3>1, <3>2
  <2> QED
    BY Zenon, <2>1 DEF EnqueuedOnce, Q
<1>10. OrderKept'
  <2>1. ASSUME NEW i \in 1..Len(Q), NEW j \in 1..Len(Q),
               NEW a \in 1..Len(submitted), NEW b \in 1..Len(submitted),
               i < j, Q[i] = submitted[a], Q[j] = submitted[b]
        PROVE  a < b
    <3>1. i # k + 1 /\ j # k + 1
      BY Zenon, <1>2, <1>6, <2>1
    <3>2. old(i) < old(j) /\ P[old(i)] = submitted[a] /\ P[old(j)] = submitted[b]
      BY Zenon, <1>5, <1>7, <2>1, <3>1
    <3> QED
      BY Zenon, <1>5, <3>1, <3>2 DEF OnceInOrder, OrderKept, P
  <2> QED
    BY <1>3, <2>1 DEF OrderKept, Q
<1> QED
  BY Zenon, <1>3, <1>8, <1>9, <1>10 DEF OnceInOrder, SubmittedOnce

\* handle_outbound of a deferred message: m comes last in submitted, and last
\* in the pipeline if it got there at all.
LEMMA DeferOrdered ==
  ASSUME StampsInv, OnceInOrder, NEW m \in Msgs, handle_outbound(m)
  PROVE  OnceInOrder'
<1> DEFINE P == Pipeline
           Q == Pipeline'
           n == Len(P)
           s == Len(submitted)
<1>1. /\ queued \in Seq(Msgs) /\ P \in Seq(Msgs) /\ submitted \in Seq(Msgs)
      /\ channel \in Seq(Msgs) /\ InHand \in Seq(Msgs) /\ shared \in Seq(Msgs)
  BY PipelineType
<1>2. /\ \A i \in 1..n : P[i] # m
      /\ \A a \in 1..s : submitted[a] # m
  BY Zenon, NewIsNowhere DEF handle_outbound
<1>3. Q = P \/ Q = Append(P, m)
  <2>1. UNCHANGED <<queued, channel, shared>> /\ InHand' = InHand /\ Sharing = <<>>
    BY DEF handle_outbound, InHand, Sharing
  <2> DEFINE held == (channel \o InHand) \o shared
  <2>2. held \in Seq(Msgs)
    BY <1>1
  <2>3. Background = held /\ Background' = held \o Sharing'
    BY <2>1, <2>2 DEF Background
  <2> HIDE DEF held
  <2>4. CASE Sharing' = <<>>
    BY <1>1, <2>1, <2>2, <2>3, <2>4 DEF Pipeline
  <2>5. CASE Sharing' = <<m>>
    <3>1. <<m>> \in Seq(Msgs)
      OBVIOUS
    <3>2. queued \o (held \o <<m>>) = (queued \o held) \o <<m>>
      BY <1>1, <2>2, <3>1
    <3>3. Append(queued \o held, m) = (queued \o held) \o <<m>>
      BY <1>1, <2>2
    <3> QED
      BY Zenon, <2>1, <2>3, <2>5, <3>2, <3>3 DEF Pipeline
  <2> QED
    BY <2>4, <2>5 DEF handle_outbound, Sharing
<1>4. /\ submitted' = Append(submitted, m) /\ queued' = queued /\ s \in Nat /\ n \in Nat
      /\ Len(submitted') = s + 1 /\ submitted'[s + 1] = m
      /\ \A a \in 1..s : submitted'[a] = submitted[a]
  BY <1>1 DEF handle_outbound
<1>5. /\ Len(Q) \in {n, n + 1}
      /\ \A i \in 1..n : Q[i] = P[i]
      /\ Len(Q) = n + 1 => Q[n + 1] = m
  BY <1>1, <1>3
<1> HIDE DEF P, Q, n, s
<1>6. ASSUME NEW i \in 1..Len(Q) PROVE (i \in 1..n /\ Q[i] = P[i]) \/ (i = n + 1 /\ Q[i] = m)
  BY <1>4, <1>5
<1>7. ASSUME NEW a \in 1..Len(submitted')
      PROVE  (a \in 1..s /\ submitted'[a] = submitted[a]) \/ (a = s + 1 /\ submitted'[a] = m)
  BY <1>4
<1>8. SubmittedOnce'
  BY Zenon, <1>2, <1>7 DEF OnceInOrder, SubmittedOnce, s
<1>9. EnqueuedOnce'
  BY Zenon, <1>2, <1>6 DEF OnceInOrder, EnqueuedOnce, P, Q, n
<1>10. BackgroundDeferred'
  <2>1. Range(submitted) \cup {m} \subseteq Range(submitted')
    <3>1. /\ DOMAIN submitted = 1..s /\ DOMAIN submitted' = 1..(s + 1)
          /\ 1..s \subseteq 1..(s + 1) /\ s + 1 \in 1..(s + 1)
      BY <1>1, <1>4 DEF s
    <3> QED
      BY Zenon, <1>4, <3>1 DEF Range
  <2>2. ASSUME NEW i \in 1..Len(Q), i > Len(queued) PROVE Q[i] \in Range(submitted')
    BY Zenon, <1>6, <2>1, <2>2 DEF OnceInOrder, BackgroundDeferred, P, n
  <2> QED
    BY Zenon, <1>4, <2>2 DEF BackgroundDeferred, Q
<1>11. OrderKept'
  <2>1. ASSUME NEW i \in 1..Len(Q), NEW j \in 1..Len(Q),
               NEW a \in 1..Len(submitted'), NEW b \in 1..Len(submitted'),
               i < j, Q[i] = submitted'[a], Q[j] = submitted'[b]
        PROVE  a < b
    <3>1. i \in 1..n /\ Q[i] = P[i]
      BY <1>4, <1>5, <2>1
    <3>2. a \in 1..s /\ submitted'[a] = submitted[a]
      BY Zenon, <1>2, <1>7, <2>1, <3>1
    <3>3. CASE b = s + 1
      BY <1>4, <3>2, <3>3
    <3>4. CASE b # s + 1
      <4>1. b \in 1..s /\ submitted'[b] = submitted[b]
        BY Zenon, <1>7, <3>4
      <4>2. j \in 1..n /\ Q[j] = P[j]
        BY Zenon, <1>2, <1>6, <2>1, <4>1
      <4> QED
        BY Zenon, <2>1, <3>1, <3>2, <4>1, <4>2 DEF OnceInOrder, OrderKept, P, n, s
    <3> QED
      BY Zenon, <3>3, <3>4
  <2> QED
    BY Zenon, <2>1 DEF OrderKept, Q
<1> QED
  BY Zenon, <1>8, <1>9, <1>10, <1>11 DEF OnceInOrder

\* The daemon hands deferred messages to the router once each and in the order
\* of handle_outbound, for any messages and any interleaving of the main thread
\* and the workers. (The explicit hook enqueues them a second time.)
THEOREM DeferredOnceInOrder == DaemonSpec => []OnceInOrder
<1>1. Init => OnceInOrder
  <2> SUFFICES ASSUME Init PROVE OnceInOrder
    OBVIOUS
  <2>1. submitted = <<>> /\ Pipeline = <<>>
    BY DEF Init, Pipeline, Background, InHand, Sharing, None
  <2> QED
    BY <2>1 DEF OnceInOrder, SubmittedOnce, BackgroundDeferred, EnqueuedOnce, OrderKept
<1>2. StampsInv /\ StampsInv' /\ OnceInOrder /\ [DaemonNext]_vars => OnceInOrder'
  <2> SUFFICES ASSUME StampsInv, StampsInv', OnceInOrder, [DaemonNext]_vars
               PROVE  OnceInOrder'
    OBVIOUS
  <2>1. ASSUME \/ share \/ tick \/ try_recv \/ check_active \/ peek \/ spawn \/ Work
               \/ UNCHANGED vars
        PROVE  OnceInOrder'
    <3>1. queued' \in Seq(Msgs)
      BY DEF StampsInv, TypeOK
    <3> QED
      BY Zenon, <2>1, <3>1, Moves, MovesOrdered
  <2> QED
    BY Zenon, <2>1, NowOrdered, DeferOrdered DEF DaemonNext, Continue
<1> QED
  BY <1>1, <1>2, DaemonInvariant, PTL DEF DaemonSpec
=============================================================================
