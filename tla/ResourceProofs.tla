--------------------------- MODULE ResourceProofs ---------------------------
(***************************************************************************)
(* Proofs about Resource, for any messages, requests, part counts, cache   *)
(* size and timeouts, over a link that delays, reorders and loses packets. *)
(*                                                                         *)
(* ResourceInv is split by what it speaks of, so that a step has to show   *)
(* again only the parts whose variables it changes.                        *)
(***************************************************************************)
EXTENDS Resource, FiniteSetTheorems, TLAPS

\* The default at a leaf that names no other prover.
USE ZenonT(60)

SendState == [status : {"Sent", "Completed", "Failed"},
              retries : 0 .. MaxRetries, age : 0 .. ProofTimeout]
ReceiptState == [status : {"none"} \cup Open \cup Concluded, age : 0 .. RequestTimeout]

SendOK ==
    /\ outgoing \subseteq Res \ Small
    /\ snd \in [Res -> SendState]
    /\ \A r \in Res : snd[r].status = "Completed" => Settled(r)

AssemblyOK ==
    /\ incoming \subseteq Res \ Small
    /\ DOMAIN asm = Res
    /\ \A r \in Res : asm[r] \in AssemblyType(r) /\ asm[r].count = Cardinality(asm[r].got)

CacheOK ==
    /\ DOMAIN completed = Node
    /\ \A n \in Node : CacheSound(n) /\ Len(completed[n]) <= CacheSize
    /\ \A r \in incoming : r \notin Completed(Receiver(r))

RequestOK ==
    /\ pending \subseteq Request
    /\ receipt \in [Request -> ReceiptState]
    /\ \A q \in Request : q \in pending <=> receipt[q].status \in Open

LinkOK ==
    /\ polling \in Node \cup {Nobody}
    /\ polling = Nobody => actions = {}
    /\ \A p \in net \cup actions : WellFormed(p)

CountOK ==
    /\ sends \in [Res -> Nat]
    /\ received \in [Res -> Nat]
    /\ cancelled \subseteq Res

\* ResourceInv is the conjunction of its parts.
LEMMA InvParts ==
  ResourceInv <=> SendOK /\ AssemblyOK /\ CacheOK /\ RequestOK /\ LinkOK /\ CountOK
<1>1. \A n \in Node : CacheSound(n) => Completed(n) \subseteq Res
  BY DEF CacheSound, Ended
<1> QED
  BY <1>1 DEF ResourceInv, TypeOK, SendOK, AssemblyOK, CacheOK, RequestOK, LinkOK,
              CountOK, SendState, ReceiptState

\* The same of the next state.
LEMMA InvPartsNext ==
  ASSUME SendOK', AssemblyOK', CacheOK', RequestOK', LinkOK', CountOK'
  PROVE  ResourceInv'
  BY InvParts, PTL

\* The ends of a transfer are nodes.
LEMMA Ends ==
  \A r \in Res : Receiver(r) \in Node /\ Sender(r) \in Node
  BY DEF Receiver, Sender, Node

\* A payload of a request or of its answer.
LEMMA Payloads ==
  /\ \A q \in Request : Asking(q) \in Res /\ Answering(q) \in Res
  /\ \A m \in Message : [kind |-> "message", id |-> m] \in Res
  /\ \A r \in Res : r.kind \in {"request", "response"} => r.id \in Request
  BY DEF Asking, Answering, Res

-----------------------------------------------------------------------------
(* What grows.                                                             *)

\* No step unsettles a payload: handings over are counted and cancels stay.
LEMMA SettledStays ==
  ASSUME ResourceInv, [Next]_vars
  PROVE  /\ \A r \in Res : Settled(r) => Settled(r)'
         /\ cancelled \subseteq cancelled'
<1> USE DEF Settled
<1>1. received \in [Res -> Nat]
  BY DEF ResourceInv, TypeOK
<1>2. CASE handle_link_event_inner
  <2>1. PICK p \in net : \/ handle_advertisement(p) \/ handle_part(p)
                         \/ handle_hash_update(p) \/ handle_cancel(p)
                         \/ handle_proof(p) \/ handle_request(p) \/ handle_single(p)
    BY <1>2 DEF handle_link_event_inner
  <2>2. p.res \in Res
    BY DEF ResourceInv, WellFormed
  <2>3. cancelled' = cancelled
    BY <2>1 DEF handle_advertisement, handle_part, handle_hash_update, handle_cancel,
                handle_proof, handle_request, handle_single, Event
  <2>4. received' = received \/ received' = [received EXCEPT ![p.res] = @ + 1]
    BY <2>1 DEF handle_advertisement, handle_part, handle_hash_update, handle_cancel,
                handle_proof, handle_request, handle_single
  <2> QED
    BY SMTT(60), <1>1, <2>2, <2>3, <2>4
<1>3. CASE UNCHANGED received /\ cancelled \subseteq cancelled'
  BY <1>3
<1> QED
  BY <1>2, <1>3 DEF Next, vars, send_message, send_request_with_receipt_to_hash,
       send_response, peer_cancels, poll_inbound, Tick

\* So a packet stays well formed for as long as it is on its way.
LEMMA WellFormedStays ==
  ASSUME NEW p, WellFormed(p), cancelled \subseteq cancelled',
         \A r \in Res : Settled(r) => Settled(r)'
  PROVE  WellFormed(p)'
  BY DEF WellFormed

-----------------------------------------------------------------------------
(* Assemblies.                                                             *)

\* An assembly starts empty.
LEMMA NewAssemblyOK ==
  ASSUME NEW r \in Res
  PROVE  /\ NewAssembly(r) \in AssemblyType(r)
         /\ NewAssembly(r).count = Cardinality(NewAssembly(r).got)
<1>1. Parts[r] \in Nat \ {0} /\ MaxRetries \in Nat /\ RecvTimeout \in Nat
  BY ResourceAssumption
<1> QED
  BY SMTT(60), <1>1, FS_EmptySet DEF NewAssembly, AssemblyType, Index, NoHash

\* The parts of a payload are finitely many.
LEMMA IndexFinite ==
  ASSUME NEW r \in Res
  PROVE  IsFiniteSet(Index(r)) /\ Cardinality(Index(r)) = Parts[r]
<1>1. Parts[r] \in Nat \ {0}
  BY ResourceAssumption
<1> QED
  BY SMTT(60), <1>1, FS_Interval DEF Index

\* A part is counted the first time it comes, and only then.
LEMMA TakenOK ==
  ASSUME NEW r \in Res, NEW a \in AssemblyType(r), a.count = Cardinality(a.got),
         NEW i \in Index(r)
  PROVE  /\ Taken(a, i).got = a.got \cup {i}
         /\ Taken(a, i).count = Cardinality(a.got \cup {i})
         /\ Taken(a, i).count <= Parts[r] => Taken(a, i) \in AssemblyType(r)
<1> DEFINE g == a.got \cup {i}
           c == IF i \in a.got THEN a.count ELSE a.count + 1
           h == [a.hashmap EXCEPT ![i] = IF a.hashmap[i] = NoHash THEN i ELSE a.hashmap[i]]
<1>1. Parts[r] \in Nat \ {0} /\ 0 \in 0 .. RecvTimeout
  BY SMTT(60), ResourceAssumption
<1>2. a.got \in SUBSET Index(r) /\ a.count \in Nat /\ IsFiniteSet(Index(r))
  BY SMTT(60), <1>1, IndexFinite DEF AssemblyType
<1>3. IsFiniteSet(a.got)
  BY <1>2, FS_Subset
<1>4. Cardinality(g) = c /\ c \in Nat /\ g \in SUBSET Index(r)
  <2>1. Cardinality(g) = IF i \in a.got THEN Cardinality(a.got) ELSE Cardinality(a.got) + 1
    BY <1>3, FS_AddElement
  <2> QED
    BY SMTT(60), <1>2, <2>1
<1>5. h \in [Index(r) -> Index(r) \cup {NoHash}]
  BY DEF AssemblyType
<1>6. Taken(a, i) = [a EXCEPT !.got = g, !.count = c, !.hashmap = h, !.age = 0]
  BY DEF Taken
<1> HIDE DEF g, c, h
<1>7. Taken(a, i).got = g /\ Taken(a, i).count = c
  BY <1>6, SMTT(60) DEF AssemblyType
<1>8. ASSUME c \in 0 .. Parts[r] PROVE Taken(a, i) \in AssemblyType(r)
  BY <1>1, <1>4, <1>5, <1>6, <1>8 DEF AssemblyType
<1>9. c <= Parts[r] => c \in 0 .. Parts[r]
  BY SMTT(60), <1>1, <1>4
<1> QED
  BY <1>4, <1>7, <1>8, <1>9 DEF g

\* With as many parts counted as there are, every part is there.
LEMMA CountIsWhole ==
  ASSUME NEW r \in Res, NEW S \in SUBSET Index(r), Cardinality(S) = Parts[r]
  PROVE  S = Index(r)
  BY IndexFinite, FS_Subset

-----------------------------------------------------------------------------
(* The completed cache.                                                    *)

Elements(s) == {s[i] : i \in 1 .. Len(s)}
Distinct(s) == \A i, j \in 1 .. Len(s) : s[i] = s[j] => i = j

\* Appending a new element keeps the elements distinct.
LEMMA AppendNew ==
  ASSUME NEW S, NEW s \in Seq(S), NEW x \in S, x \notin Elements(s), Distinct(s)
  PROVE  /\ Append(s, x) \in Seq(S)
         /\ Len(Append(s, x)) = Len(s) + 1
         /\ Distinct(Append(s, x))
         /\ Elements(Append(s, x)) = Elements(s) \cup {x}
<1>1. /\ Append(s, x) \in Seq(S) /\ Len(s) \in Nat
      /\ Len(Append(s, x)) = Len(s) + 1
      /\ \A i \in 1 .. Len(s) : Append(s, x)[i] = s[i]
      /\ Append(s, x)[Len(s) + 1] = x
  BY SMTT(60)
<1>2. Elements(Append(s, x)) = Elements(s) \cup {x}
  BY SMTT(60), <1>1 DEF Elements
<1>3. Distinct(Append(s, x))
  BY SMTT(60), <1>1 DEF Distinct, Elements
<1> QED
  BY <1>1, <1>2, <1>3

\* Dropping the oldest keeps the elements distinct and adds none.
LEMMA TailDistinct ==
  ASSUME NEW S, NEW s \in Seq(S), Len(s) # 0, Distinct(s)
  PROVE  /\ Tail(s) \in Seq(S)
         /\ Len(Tail(s)) = Len(s) - 1
         /\ Distinct(Tail(s))
         /\ Elements(Tail(s)) \subseteq Elements(s)
<1>1. /\ Tail(s) \in Seq(S) /\ Len(s) \in Nat
      /\ Len(Tail(s)) = Len(s) - 1
      /\ \A i \in 1 .. Len(s) - 1 : Tail(s)[i] = s[i + 1]
  BY SMTT(60)
<1> QED
  BY SMTT(60), <1>1 DEF Distinct, Elements

\* A sequence without repetition is as long as it has elements.
LEMMA DistinctLength ==
  ASSUME NEW S, NEW s \in Seq(S), Distinct(s)
  PROVE  IsFiniteSet(Elements(s)) /\ Cardinality(Elements(s)) = Len(s)
<1>1. Len(s) \in Nat /\ DOMAIN s = 1 .. Len(s)
  BY SMTT(60)
<1>2. s \in [1 .. Len(s) -> Elements(s)]
  BY SMTT(60), <1>1 DEF Elements
<1>3. s \in Bijection(1 .. Len(s), Elements(s))
  BY <1>2 DEF Bijection, Injection, Surjection, IsInjective, Elements, Distinct
<1>4. ExistsBijection(1 .. Len(s), Elements(s))
  BY <1>3 DEF ExistsBijection
<1>5. IsFiniteSet(Elements(s))
  BY <1>1, <1>4, FS_NatBijection
<1> QED
  BY <1>1, <1>4, <1>5, FS_CountingElements

\* CacheSet::insert of a transfer the cache does not hold: the oldest goes only
\* when the cache is full.
LEMMA Remembered ==
  ASSUME NEW n \in Node, NEW r \in Res, completed[n] \in Seq(Res), Distinct(completed[n]),
         Len(completed[n]) <= CacheSize, r \notin Completed(n)
  PROVE  /\ Remember(n, r) \in Seq(Res)
         /\ Distinct(Remember(n, r))
         /\ Len(Remember(n, r)) <= CacheSize
         /\ r \in Elements(Remember(n, r))
         /\ Elements(Remember(n, r)) \subseteq Completed(n) \cup {r}
         /\ Len(completed[n]) < CacheSize => Elements(Remember(n, r)) = Completed(n) \cup {r}
<1> DEFINE s == IF Len(completed[n]) = CacheSize THEN Tail(completed[n]) ELSE completed[n]
<1>1. CacheSize \in Nat \ {0} /\ Len(completed[n]) \in Nat
  BY SMTT(60), ResourceAssumption
<1>2. Completed(n) = Elements(completed[n])
  BY DEF Completed, Elements
<1>3. /\ s \in Seq(Res) /\ Distinct(s) /\ Len(s) < CacheSize /\ Elements(s) \subseteq Completed(n)
      /\ Len(completed[n]) < CacheSize => Elements(s) = Completed(n)
  BY SMTT(60), <1>1, <1>2, TailDistinct
<1>4. Remember(n, r) = Append(s, r)
  BY DEF Remember
<1> HIDE DEF s
<1>5. r \notin Elements(s)
  BY <1>3
<1>6. /\ Append(s, r) \in Seq(Res) /\ Len(Append(s, r)) = Len(s) + 1
      /\ Distinct(Append(s, r)) /\ Elements(Append(s, r)) = Elements(s) \cup {r}
  BY <1>3, <1>5, AppendNew
<1>7. Len(s) \in Nat
  BY SMTT(60), <1>3
<1> QED
  BY SMTT(60), <1>1, <1>3, <1>4, <1>6, <1>7

\* A cache nobody touches stays sound when a cancel is sent.
LEMMA CacheStays ==
  ASSUME NEW n \in Node, CacheSound(n), NEW x, completed'[n] = completed[n],
         cancelled \subseteq cancelled', cancelled' \subseteq cancelled \cup {x},
         received \in [Res -> Nat],
         \A r \in Res \ Small : Receiver(r) = n => received'[r] = received[r]
  PROVE  CacheSound(n)'
<1>1. /\ Ended(n) \subseteq Ended(n)'
      /\ Ended(n)' \subseteq Ended(n) \cup {x}
  BY DEF Ended, Settled
<1>2. IsFiniteSet(Ended(n)')
  <2>1. IsFiniteSet(Ended(n) \cup {x})
    BY FS_AddElement DEF CacheSound
  <2> QED
    BY <1>1, <2>1, FS_Subset
<1>3. Completed(n)' = Completed(n)
  BY DEF Completed
<1>4. ASSUME Cardinality(Ended(n)') <= CacheSize, NEW r \in Ended(n)'
      PROVE  received'[r] <= 1 /\ (received'[r] > 0 => r \in Completed(n))
  <2>1. Cardinality(Ended(n)) <= Cardinality(Ended(n)')
    BY <1>1, <1>2, FS_Subset
  <2>2. Cardinality(Ended(n)) \in Nat /\ Cardinality(Ended(n)') \in Nat /\ CacheSize \in Nat
    BY <1>2, FS_CardinalityType, ResourceAssumption DEF CacheSound
  <2>3. Cardinality(Ended(n)) <= CacheSize
    BY SMTT(60), <1>4, <2>1, <2>2
  <2>4. r \in Res \ Small /\ received'[r] = received[r] /\ received[r] \in Nat
    BY <1>4 DEF Ended
  <2>5. received[r] > 0 => r \in Ended(n)
    BY <1>4, <2>4 DEF Ended, Settled
  <2> QED
    BY SMTT(60), <2>3, <2>4, <2>5 DEF CacheSound
<1> QED
  BY <1>1, <1>2, <1>3, <1>4 DEF CacheSound

\* A transfer that ends at a node is remembered there, and the cache stays sound:
\* when it has to drop one, more transfers have ended than it holds.
LEMMA CacheTakes ==
  ASSUME NEW n \in Node, CacheSound(n), Len(completed[n]) <= CacheSize,
         NEW r \in Res \ Small, Receiver(r) = n, r \notin Completed(n),
         completed'[n] = Remember(n, r), cancelled' = cancelled, Settled(r)',
         received \in [Res -> Nat],
         \A y \in Res \ {r} : received'[y] = received[y],
         received'[r] \in {received[r], received[r] + 1}
  PROVE  /\ CacheSound(n)'
         /\ Len(completed'[n]) <= CacheSize
         /\ Completed(n)' \subseteq Completed(n) \cup {r}
<1>1. /\ completed[n] \in Seq(Res) /\ Distinct(completed[n])
      /\ Completed(n) \subseteq Ended(n) /\ IsFiniteSet(Ended(n))
  BY DEF CacheSound, Distinct
<1>2. Completed(n)' = Elements(completed'[n]) /\ Completed(n) = Elements(completed[n])
  BY DEF Completed, Elements
<1>3. /\ completed'[n] \in Seq(Res) /\ Distinct(completed'[n])
      /\ Len(completed'[n]) <= CacheSize
      /\ r \in Completed(n)' /\ Completed(n)' \subseteq Completed(n) \cup {r}
      /\ Len(completed[n]) < CacheSize => Completed(n)' = Completed(n) \cup {r}
  BY SMTT(60), <1>1, <1>2, Remembered
<1>4. /\ Ended(n)' = Ended(n) \cup {r}
  BY DEF Ended, Settled
<1>5. IsFiniteSet(Ended(n)')
  BY SMTT(60), <1>1, <1>4, FS_AddElement
<1>6. ASSUME Cardinality(Ended(n)') <= CacheSize, NEW y \in Ended(n)'
      PROVE  received'[y] <= 1 /\ (received'[y] > 0 => y \in Completed(n)')
  <2>1. IsFiniteSet(Completed(n)) /\ Cardinality(Completed(n)) = Len(completed[n])
    BY <1>1, <1>2, DistinctLength
  <2>2. /\ IsFiniteSet(Completed(n) \cup {r})
        /\ Cardinality(Completed(n) \cup {r}) = Len(completed[n]) + 1
    <3>1. /\ IsFiniteSet(Completed(n) \cup {r})
          /\ Cardinality(Completed(n) \cup {r}) =
               IF r \in Completed(n) THEN Cardinality(Completed(n)) ELSE Cardinality(Completed(n)) + 1
      BY <2>1, FS_AddElement
    <3> QED
      BY <2>1, <3>1
  <2>3. Cardinality(Completed(n) \cup {r}) <= Cardinality(Ended(n)')
    BY <1>1, <1>4, <1>5, FS_Subset
  <2>4. Cardinality(Ended(n)) <= Cardinality(Ended(n)')
    BY <1>4, <1>5, FS_Subset
  <2>5. /\ Cardinality(Ended(n)) \in Nat /\ Cardinality(Ended(n)') \in Nat
        /\ CacheSize \in Nat /\ Len(completed[n]) \in Nat
    BY SMTT(60), <1>1, <1>5, FS_CardinalityType, ResourceAssumption
  <2>6. Len(completed[n]) < CacheSize /\ Cardinality(Ended(n)) <= CacheSize
    BY SMTT(60), <1>6, <2>2, <2>3, <2>4, <2>5
  <2>7. Completed(n)' = Completed(n) \cup {r}
    BY <1>3, <2>6
  <2>8. CASE y = r
    <3>1. received[r] \in Nat
      OBVIOUS
    <3>2. received[r] = 0
      <4>1. received[r] > 0 => r \in Ended(n)
        BY DEF Ended, Settled
      <4> QED
        BY SMTT(60), <2>6, <3>1, <4>1 DEF CacheSound
    <3> QED
      BY SMTT(60), <1>3, <2>8, <3>2
  <2>9. CASE y # r
    <3>1. y \in Ended(n) /\ y \in Res
      BY <1>4, <1>6, <2>9 DEF Ended
    <3>2. received'[y] = received[y]
      BY <3>1, <2>9
    <3> QED
      BY <2>6, <2>7, <3>1, <3>2 DEF CacheSound
  <2> QED
    BY <2>8, <2>9
<1>7. Completed(n)' \subseteq Ended(n)'
  BY <1>1, <1>3, <1>4
<1> QED
  BY <1>3, <1>5, <1>6, <1>7 DEF CacheSound, Distinct

-----------------------------------------------------------------------------
(* Requests: what RequestTracker does to receipts.                         *)

\* A step keeps the receipts in order, and final.
ReceiptsKept ==
    /\ RequestOK'
    /\ \A q \in Request : receipt[q].status \in Concluded
                            => receipt'[q].status = receipt[q].status

\* A step that touches no receipt.
LEMMA RequestsStay ==
  ASSUME RequestOK, UNCHANGED requestVars
  PROVE  ReceiptsKept
  BY DEF ReceiptsKept, RequestOK, requestVars

\* RequestTracker::mark_failed drops what it fails.
LEMMA RequestsFail ==
  ASSUME RequestOK, NEW qs, mark_failed(qs)
  PROVE  ReceiptsKept
<1>1. \A q \in Request : [receipt[q] EXCEPT !.status = "Failed"] \in ReceiptState
  BY DEF RequestOK, ReceiptState, Concluded
<1>2. receipt' \in [Request -> ReceiptState]
  BY <1>1 DEF RequestOK, mark_failed
<1>3. \A q \in Request : receipt'[q].status =
        IF q \in qs \cap pending THEN "Failed" ELSE receipt[q].status
  BY DEF RequestOK, ReceiptState, mark_failed
<1>4. pending' = pending \ qs
  BY DEF mark_failed
<1> QED
  BY <1>2, <1>3, <1>4 DEF ReceiptsKept, RequestOK, Open, Concluded

\* A request whose status is changed while it is pending, and that stays pending.
LEMMA StatusMoves ==
  ASSUME RequestOK, NEW q \in Request, NEW st \in Open, pending' = pending,
         receipt' = IF q \in pending THEN [receipt EXCEPT ![q].status = st] ELSE receipt
  PROVE  ReceiptsKept
<1>1. \A x \in Request : receipt'[x].status =
        IF x = q /\ q \in pending THEN st ELSE receipt[x].status
  BY DEF RequestOK, ReceiptState
<1>2. receipt' \in [Request -> ReceiptState]
  <2>1. [receipt[q] EXCEPT !.status = st] \in ReceiptState
    BY DEF RequestOK, ReceiptState
  <2> QED
    BY <2>1 DEF RequestOK
<1> QED
  BY <1>1, <1>2 DEF ReceiptsKept, RequestOK, Open, Concluded

\* RequestTracker::mark_receiving
LEMMA MarkReceiving ==
  ASSUME RequestOK, NEW q \in Request, pending' = pending, receipt' = mark_receiving(q)
  PROVE  ReceiptsKept
<1>1. q \in pending => receipt[q].status # "Failed"
  BY DEF RequestOK, Open
<1>2. receipt' = IF q \in pending THEN [receipt EXCEPT ![q].status = "Receiving"] ELSE receipt
  BY <1>1 DEF mark_receiving
<1> QED
  BY <1>2, StatusMoves DEF Open

\* RequestTracker::record_response: the answer concludes a request once.
LEMMA RecordResponse ==
  ASSUME RequestOK, NEW q \in Request, record_response(q)
  PROVE  ReceiptsKept
<1>1. q \in pending => receipt[q].status # "Failed"
  BY DEF RequestOK, Open
<1>2. receipt' = IF q \in pending THEN [receipt EXCEPT ![q].status = "Ready"] ELSE receipt
  BY <1>1 DEF record_response
<1>3. pending' = pending \ {q}
  BY DEF record_response
<1>4. receipt' \in [Request -> ReceiptState]
  <2>1. [receipt[q] EXCEPT !.status = "Ready"] \in ReceiptState
    BY DEF RequestOK, ReceiptState, Concluded
  <2> QED
    BY <1>2, <2>1 DEF RequestOK
<1>5. \A x \in Request : receipt'[x].status =
        IF x = q /\ q \in pending THEN "Ready" ELSE receipt[x].status
  BY <1>2 DEF RequestOK, ReceiptState
<1> QED
  BY <1>3, <1>4, <1>5 DEF ReceiptsKept, RequestOK, Open, Concluded

-----------------------------------------------------------------------------
(* The parts of the invariant a step does not reach.                       *)

\* The sending side untouched.
LEMMA SendStays ==
  ASSUME SendOK, UNCHANGED sendVars, \A r \in Res : Settled(r) => Settled(r)'
  PROVE  SendOK'
  BY DEF SendOK, sendVars

\* A sending state changed for r alone; a transfer is completed only if settled.
LEMMA SendMoves ==
  ASSUME SendOK, NEW r \in Res, NEW s \in SendState, s.status = "Completed" => Settled(r)',
         outgoing' \subseteq Res \ Small, snd' = [snd EXCEPT ![r] = s],
         \A x \in Res : Settled(x) => Settled(x)'
  PROVE  SendOK'
  BY DEF SendOK

\* The assemblies untouched.
LEMMA AssembliesStay ==
  ASSUME AssemblyOK, UNCHANGED <<incoming, asm>>
  PROVE  AssemblyOK'
  BY DEF AssemblyOK

\* One assembly replaced.
LEMMA AssemblyMoves ==
  ASSUME AssemblyOK, NEW r \in Res \ Small, NEW a \in AssemblyType(r),
         a.count = Cardinality(a.got), asm' = [asm EXCEPT ![r] = a],
         incoming' \subseteq incoming \cup {r}
  PROVE  AssemblyOK'
  BY DEF AssemblyOK

\* The caches untouched: what is newly under way is not remembered as over.
LEMMA CachesStay ==
  ASSUME CacheOK, CountOK, NEW x, UNCHANGED completed,
         cancelled \subseteq cancelled', cancelled' \subseteq cancelled \cup {x},
         \A r \in Res \ Small : received'[r] = received[r],
         \A r \in incoming' \ incoming : r \notin Completed(Receiver(r))
  PROVE  CacheOK'
<1>1. \A n \in Node : CacheSound(n)'
  BY CacheStays DEF CacheOK, CountOK
<1>2. \A n : Completed(n)' = Completed(n)
  BY DEF Completed
<1> QED
  BY <1>1, <1>2 DEF CacheOK

\* A transfer that leaves incoming and is remembered.
LEMMA CachesTake ==
  ASSUME CacheOK, CountOK, AssemblyOK, NEW r \in incoming, incoming' = incoming \ {r},
         completed' = [completed EXCEPT ![Receiver(r)] = Remember(Receiver(r), r)],
         cancelled' = cancelled, Settled(r)',
         \A y \in Res \ {r} : received'[y] = received[y],
         received'[r] \in {received[r], received[r] + 1}
  PROVE  CacheOK'
<1> DEFINE n == Receiver(r)
<1>1. r \in Res \ Small /\ n \in Node /\ r \notin Completed(n)
  BY Ends DEF AssemblyOK, CacheOK
<1>2. DOMAIN completed' = Node /\ completed'[n] = Remember(n, r)
      /\ \A k \in Node \ {n} : completed'[k] = completed[k]
  BY <1>1 DEF CacheOK
<1>3. /\ CacheSound(n)' /\ Len(completed'[n]) <= CacheSize
      /\ Completed(n)' \subseteq Completed(n) \cup {r}
  <2>1. CacheSound(n) /\ Len(completed[n]) <= CacheSize /\ received \in [Res -> Nat]
    BY <1>1 DEF CacheOK, CountOK
  <2> QED
    BY <1>1, <1>2, <2>1, CacheTakes
<1>4. ASSUME NEW k \in Node \ {n}
      PROVE  CacheSound(k)' /\ Len(completed'[k]) <= CacheSize /\ Completed(k)' = Completed(k)
  <2>1. CacheSound(k) /\ received \in [Res -> Nat] /\ Len(completed[k]) <= CacheSize
    BY DEF CacheOK, CountOK
  <2>2. completed'[k] = completed[k]
    BY <1>2
  <2>3. \A y \in Res \ Small : Receiver(y) = k => received'[y] = received[y]
    OBVIOUS
  <2>4. CacheSound(k)'
    BY <2>1, <2>2, <2>3, CacheStays
  <2> QED
    BY <2>1, <2>2, <2>4 DEF Completed
<1>5. \A y \in incoming' : y \notin Completed(Receiver(y))'
  <2> SUFFICES ASSUME NEW y \in incoming' PROVE y \notin Completed(Receiver(y))'
    OBVIOUS
  <2>1. y \in incoming /\ y # r /\ Receiver(y) \in Node /\ y \notin Completed(Receiver(y))
    BY Ends DEF AssemblyOK, CacheOK
  <2> QED
    BY <1>3, <1>4, <2>1
<1> QED
  BY <1>2, <1>3, <1>4, <1>5 DEF CacheOK

\* The packets that remain are well formed, and so are the ones that are added.
LEMMA LinkMoves ==
  ASSUME LinkOK, polling' \in Node \cup {Nobody}, polling' = Nobody => actions' = {},
         cancelled \subseteq cancelled', \A r \in Res : Settled(r) => Settled(r)',
         \A p \in (net' \cup actions') \ (net \cup actions) : WellFormed(p)'
  PROVE  LinkOK'
  BY WellFormedStays DEF LinkOK

\* A packet is taken from the link, and maybe an answer is queued.
LEMMA LinkEvent ==
  ASSUME LinkOK, NEW p \in net, Event(p), To(p) \in Node,
         \A r \in Res : Settled(r) => Settled(r)',
         \A x \in actions' \ actions : WellFormed(x)'
  PROVE  LinkOK'
<1>1. polling' \in Node /\ polling' # Nobody /\ net' \subseteq net /\ cancelled' = cancelled
  BY DEF Event, Node, Nobody
<1> QED
  BY <1>1, LinkMoves

-----------------------------------------------------------------------------
(* The actions.                                                            *)

\* What SettledStays says of a step.
Grows == /\ \A r \in Res : Settled(r) => Settled(r)'
         /\ cancelled \subseteq cancelled'

\* The packets that carry a transfer are well formed.
LEMMA FramesWellFormed ==
  ASSUME NEW r \in Res \ Small
  PROVE  \A p \in Frames(r) : WellFormed(p)'
  BY SMTT(60) DEF Frames, Advert, Part, WellFormed

\* send_resource_frames, called by an application.
LEMMA FramesSent ==
  ASSUME ResourceInv, Grows, NEW r \in Res, MayCall(r), send_resource_frames(r),
         UNCHANGED <<recvVars, polling, actions, received, cancelled>>
  PROVE  SendOK' /\ AssemblyOK' /\ CacheOK' /\ LinkOK' /\ CountOK'
<1> USE InvParts
<1>1. SendOK'
  <2>1. CASE r \in Small
    BY <2>1, SendStays DEF send_resource_frames, Grows
  <2>2. CASE r \notin Small
    <3>1. NewState \in SendState /\ NewState.status = "Sent"
      BY SMTT(60), ResourceAssumption DEF NewState, SendState
    <3>2. outgoing' \subseteq Res \ Small /\ snd' = [snd EXCEPT ![r] = NewState]
      BY <2>2 DEF send_resource_frames, SendOK
    <3> QED
      BY <3>1, <3>2, SendMoves DEF Grows
  <2> QED
    BY <2>1, <2>2
<1>2. AssemblyOK'
  BY AssembliesStay DEF recvVars
<1>3. CacheOK'
  BY CachesStay DEF recvVars
<1>4. LinkOK'
  <2>1. WellFormed(Single(r))' \/ r \notin Small
    BY DEF WellFormed, Single
  <2>2. \A p \in net' \ net : WellFormed(p)'
    BY <2>1, FramesWellFormed DEF send_resource_frames
  <2> QED
    BY <2>2, LinkMoves DEF LinkOK, Grows
<1>5. CountOK'
  BY SMTT(60) DEF CountOK, MayCall
<1> QED
  BY <1>1, <1>2, <1>3, <1>4, <1>5

\* A message or a response is sent.
LEMMA SendStep ==
  ASSUME ResourceInv, Grows,
         (\E m \in Message : send_message(m)) \/ (\E q \in Request : send_response(q))
  PROVE  ResourceInv' /\ ReceiptsKept
<1>1. PICK r \in Res : /\ MayCall(r) /\ send_resource_frames(r)
                       /\ UNCHANGED <<recvVars, requestVars, polling, actions, received, cancelled>>
  BY Payloads DEF send_message, send_response
<1>2. ReceiptsKept
  BY <1>1, InvParts, RequestsStay
<1> QED
  BY <1>1, <1>2, FramesSent, InvPartsNext DEF ReceiptsKept

\* A request is sent, and is pending from then on.
LEMMA RequestStep ==
  ASSUME ResourceInv, Grows, NEW q \in Request, send_request_with_receipt_to_hash(q)
  PROVE  ResourceInv' /\ ReceiptsKept
<1> DEFINE new == [status |-> mark_delivered("Sent"), age |-> 0]
<1>1. /\ Asking(q) \in Res /\ MayCall(Asking(q)) /\ send_resource_frames(Asking(q))
      /\ UNCHANGED <<recvVars, polling, actions, received, cancelled>>
      /\ receipt[q].status = "none" /\ pending' = pending \cup {q}
      /\ receipt' = [receipt EXCEPT ![q] = new]
  BY Payloads DEF send_request_with_receipt_to_hash
<1>2. RequestOK
  BY InvParts
<1>3. new \in ReceiptState /\ new.status = "Delivered"
  BY SMTT(60), ResourceAssumption DEF ReceiptState, mark_delivered, Open
<1> HIDE DEF new
<1>4. ReceiptsKept
  BY <1>1, <1>2, <1>3 DEF ReceiptsKept, RequestOK, Open, Concluded
<1> QED
  BY <1>1, <1>4, FramesSent, InvPartsNext DEF ReceiptsKept

\* A peer cancels a transfer.
LEMMA CancelStep ==
  ASSUME ResourceInv, Grows, NEW r \in Res, NEW n \in Node, peer_cancels(r, n)
  PROVE  ResourceInv' /\ ReceiptsKept
<1> USE InvParts
<1>1. UNCHANGED <<sendVars, recvVars, requestVars, polling, actions, sends, received>>
      /\ cancelled' = cancelled \cup {r} /\ net' = net \cup {Cancel(r, n)}
  BY DEF peer_cancels
<1>2. SendOK' /\ AssemblyOK' /\ ReceiptsKept
  BY <1>1, SendStays, AssembliesStay, RequestsStay DEF Grows, recvVars
<1>3. CacheOK'
  BY <1>1, CachesStay DEF recvVars
<1>4. WellFormed(Cancel(r, n))'
  BY <1>1 DEF WellFormed, Cancel
<1>5. LinkOK'
  BY <1>1, <1>4, LinkMoves DEF LinkOK, Grows
<1>6. CountOK'
  BY <1>1 DEF CountOK
<1> QED
  BY <1>2, <1>3, <1>5, <1>6, InvPartsNext DEF ReceiptsKept

\* A packet that is handled was well formed and is for a node.
LEMMA EventPacket ==
  ASSUME ResourceInv, NEW p \in net, p.type \in {"advert", "part", "update", "single", "proof",
                                                 "request", "cancel"}
  PROVE  /\ WellFormed(p) /\ p.res \in Res
         /\ To(p) \in Node
         /\ p.type \in {"advert", "part", "update", "single"} => To(p) = Receiver(p.res)
         /\ p.type = "cancel" => To(p) = p.to
<1>1. WellFormed(p)
  BY DEF ResourceInv
<1>2. p.res \in Res /\ (p.type = "cancel" => p.to \in Node)
  BY <1>1 DEF WellFormed
<1> QED
  BY <1>1, <1>2, Ends DEF To

\* An answer to a payload that is settled.
LEMMA ProofWellFormed ==
  ASSUME NEW r \in Res \ Small, NEW ok \in BOOLEAN, ok => Settled(r)'
  PROVE  WellFormed(Proof(r, ok))'
  BY DEF WellFormed, Proof

\* An advertisement starts an assembly, over again if there is one, or is
\* answered from the completed cache.
LEMMA AdvertStep ==
  ASSUME ResourceInv, Grows, NEW p \in net, handle_advertisement(p)
  PROVE  ResourceInv' /\ ReceiptsKept
<1> DEFINE r == p.res
<1> USE InvParts
<1>1. /\ p.type = "advert" /\ Event(p)
      /\ UNCHANGED <<sendVars, completed, pending, received, sends, cancelled>>
  BY DEF handle_advertisement, Event
<1>2. WellFormed(p) /\ r \in Res \ Small /\ To(p) \in Node /\ To(p) = Receiver(r)
  BY <1>1, EventPacket DEF WellFormed
<1>3. SendOK' /\ CountOK'
  BY <1>1, SendStays DEF Grows, CountOK
<1>4. CASE r \in Completed(To(p))
  <2>1. actions' = actions \cup {Proof(r, TRUE)} /\ UNCHANGED <<incoming, asm, receipt>>
    BY <1>4 DEF handle_advertisement
  <2>2. Settled(r)'
    BY <1>2, <1>4 DEF CacheOK, CacheSound, Ended, Grows
  <2>3. LinkOK'
    BY <1>1, <1>2, <2>1, <2>2, ProofWellFormed, LinkEvent DEF Grows
  <2>4. AssemblyOK' /\ CacheOK' /\ ReceiptsKept
    BY <1>1, <2>1, AssembliesStay, CachesStay, RequestsStay DEF requestVars
  <2> QED
    BY <1>3, <2>3, <2>4, InvPartsNext DEF ReceiptsKept
<1>5. CASE r \notin Completed(To(p))
  <2>1. /\ incoming' = incoming \cup {r} /\ asm' = [asm EXCEPT ![r] = NewAssembly(r)]
        /\ receipt' = IF r.kind = "response" THEN mark_receiving(r.id) ELSE receipt
        /\ UNCHANGED actions
    BY <1>5 DEF handle_advertisement
  <2>2. AssemblyOK'
    BY <1>2, <2>1, NewAssemblyOK, AssemblyMoves
  <2>3. CacheOK'
    BY <1>1, <1>2, <1>5, <2>1, CachesStay
  <2>4. LinkOK'
    BY <1>1, <1>2, <2>1, LinkEvent DEF Grows
  <2>5. ReceiptsKept
    BY <1>1, <1>2, <2>1, Payloads, MarkReceiving, RequestsStay DEF requestVars
  <2> QED
    BY <1>3, <2>2, <2>3, <2>4, <2>5, InvPartsNext DEF ReceiptsKept
<1> QED
  BY <1>4, <1>5

\* A part is ignored, taken, or the last one: then the payload is handed over,
\* the transfer is remembered and a proof is queued.
LEMMA PartStep ==
  ASSUME ResourceInv, Grows, NEW p \in net, handle_part(p)
  PROVE  ResourceInv' /\ ReceiptsKept
<1> DEFINE r == p.res
           a == Taken(asm[r], p.index)
<1> USE InvParts
<1>1. p.type = "part" /\ Event(p) /\ UNCHANGED <<sendVars, sends, cancelled>>
  BY DEF handle_part, Event
<1>2. /\ WellFormed(p) /\ r \in Res \ Small /\ p.index \in Index(r)
      /\ To(p) \in Node /\ To(p) = Receiver(r)
  BY <1>1, EventPacket DEF WellFormed
<1>3. SendOK'
  BY <1>1, SendStays DEF Grows
<1>4. /\ a.count = Cardinality(a.got) /\ a.count \in Nat /\ Parts[r] \in Nat
      /\ a.count <= Parts[r] => a \in AssemblyType(r)
  <2>1. asm[r] \in AssemblyType(r) /\ asm[r].count = Cardinality(asm[r].got)
    BY <1>2 DEF AssemblyOK
  <2>2. /\ a.got = asm[r].got \cup {p.index}
        /\ a.count = Cardinality(asm[r].got \cup {p.index})
        /\ a.count <= Parts[r] => a \in AssemblyType(r)
    BY <1>2, <2>1, TakenOK
  <2>3. asm[r].got \cup {p.index} \in SUBSET Index(r) /\ IsFiniteSet(Index(r)) /\ Parts[r] \in Nat
    BY <1>2, <2>1, IndexFinite, ResourceAssumption DEF AssemblyType
  <2>4. Cardinality(asm[r].got \cup {p.index}) \in Nat
    BY <2>3, FS_Subset, FS_CardinalityType
  <2> QED
    BY <2>2, <2>3, <2>4
<1>5. CASE r \notin incoming
  <2>1. UNCHANGED <<incoming, asm, completed, requestVars, actions, received>>
    BY <1>5 DEF handle_part
  <2>2. AssemblyOK' /\ CacheOK' /\ ReceiptsKept /\ CountOK'
    BY <1>1, <2>1, AssembliesStay, CachesStay, RequestsStay DEF CountOK
  <2>3. LinkOK'
    BY <1>1, <1>2, <2>1, LinkEvent DEF Grows
  <2> QED
    BY <1>3, <2>2, <2>3, InvPartsNext DEF ReceiptsKept
<1>6. CASE r \in incoming /\ a.count < Parts[r]
  <2>1. /\ asm' = [asm EXCEPT ![r] = a]
        /\ receipt' = IF r.kind = "response" THEN mark_receiving(r.id) ELSE receipt
        /\ UNCHANGED <<incoming, completed, pending, actions, received>>
    <3>1. a.count # Parts[r]
      BY SMTT(60), <1>4, <1>6
    <3> QED
      BY <1>6, <3>1 DEF handle_part
  <2>2. a \in AssemblyType(r)
    BY SMTT(60), <1>6, <1>4
  <2>3. AssemblyOK'
    BY <1>2, <1>4, <2>1, <2>2, AssemblyMoves
  <2>4. CacheOK' /\ CountOK'
    BY <1>1, <2>1, CachesStay DEF CountOK
  <2>5. LinkOK'
    BY <1>1, <1>2, <2>1, LinkEvent DEF Grows
  <2>6. ReceiptsKept
    BY <1>2, <2>1, Payloads, MarkReceiving, RequestsStay DEF requestVars
  <2> QED
    BY <1>3, <2>3, <2>4, <2>5, <2>6, InvPartsNext DEF ReceiptsKept
<1>7. CASE r \in incoming /\ a.count = Parts[r]
  <2>1. /\ incoming' = incoming \ {r} /\ asm' = [asm EXCEPT ![r] = NewAssembly(r)]
        /\ completed' = [completed EXCEPT ![To(p)] = Remember(To(p), r)]
        /\ actions' = actions \cup {Proof(r, TRUE)}
        /\ received' = [received EXCEPT ![r] = @ + 1]
        /\ IF r.kind = "response" THEN record_response(r.id) ELSE UNCHANGED requestVars
    <3>1. ~(a.count < Parts[r])
      BY SMTT(60), <1>4, <1>7
    <3> QED
      BY <1>7, <3>1 DEF handle_part
  <2>2. received \in [Res -> Nat] /\ received' \in [Res -> Nat] /\ Settled(r)'
    BY SMTT(60), <1>2, <2>1 DEF CountOK, Settled
  <2>3. AssemblyOK'
    BY <1>2, <2>1, NewAssemblyOK, AssemblyMoves
  <2>4. CacheOK'
    BY <1>1, <1>2, <1>7, <2>1, <2>2, CachesTake
  <2>5. LinkOK'
    BY <1>1, <1>2, <2>1, <2>2, ProofWellFormed, LinkEvent DEF Grows
  <2>6. ReceiptsKept
    BY <1>2, <2>1, Payloads, RecordResponse, RequestsStay
  <2>7. CountOK'
    BY <1>1, <2>2 DEF CountOK
  <2> QED
    BY <1>3, <2>3, <2>4, <2>5, <2>6, <2>7, InvPartsNext DEF ReceiptsKept
<1> QED
  BY <1>5, <1>6, <1>7 DEF handle_part

\* Hashes of parts are filled in.
LEMMA UpdateStep ==
  ASSUME ResourceInv, Grows, NEW p \in net, handle_hash_update(p)
  PROVE  ResourceInv' /\ ReceiptsKept
<1> DEFINE r == p.res
           h == [i \in Index(r) |-> IF i + p.last \in Index(r) THEN i + p.last
                                    ELSE asm[r].hashmap[i]]
           a == [asm[r] EXCEPT !.hashmap = h, !.age = 0]
<1> USE InvParts
<1>1. /\ p.type = "update" /\ Event(p)
      /\ UNCHANGED <<sendVars, incoming, completed, requestVars, actions, received, sends, cancelled>>
  BY DEF handle_hash_update, Event
<1>2. WellFormed(p) /\ r \in Res \ Small /\ To(p) \in Node
  BY <1>1, EventPacket DEF WellFormed
<1>3. asm' = IF r \in incoming THEN [asm EXCEPT ![r] = a] ELSE asm
  BY DEF handle_hash_update
<1>4. asm[r] \in AssemblyType(r) /\ asm[r].count = Cardinality(asm[r].got) /\ 0 \in 0 .. RecvTimeout
  BY SMTT(60), <1>2, ResourceAssumption DEF AssemblyOK
<1>5. h \in [Index(r) -> Index(r) \cup {NoHash}]
  BY <1>4 DEF AssemblyType
<1> HIDE DEF h
<1>6. a \in AssemblyType(r)
  BY <1>4, <1>5 DEF AssemblyType
<1>7. a.count = asm[r].count /\ a.got = asm[r].got
  BY <1>4, SMTT(60) DEF AssemblyType
<1> HIDE DEF a
<1>8. AssemblyOK'
  <2>1. CASE r \in incoming
    BY <1>1, <1>2, <1>3, <1>4, <1>6, <1>7, <2>1, AssemblyMoves
  <2>2. CASE r \notin incoming
    BY <1>1, <1>3, <2>2, AssembliesStay
  <2> QED
    BY <2>1, <2>2
<1>9. SendOK' /\ CacheOK' /\ CountOK' /\ ReceiptsKept
  BY <1>1, SendStays, CachesStay, RequestsStay DEF Grows, CountOK
<1>10. LinkOK'
  BY <1>1, <1>2, LinkEvent DEF Grows
<1> QED
  BY <1>8, <1>9, <1>10, InvPartsNext DEF ReceiptsKept

\* A payload in one packet is handed over.
LEMMA SingleStep ==
  ASSUME ResourceInv, Grows, NEW p \in net, handle_single(p)
  PROVE  ResourceInv' /\ ReceiptsKept
<1> DEFINE r == p.res
<1> USE InvParts
<1>1. /\ p.type = "single" /\ Event(p)
      /\ UNCHANGED <<sendVars, recvVars, actions, sends, cancelled>>
      /\ received' = [received EXCEPT ![r] = @ + 1]
      /\ IF r.kind = "response" THEN record_response(r.id) ELSE UNCHANGED requestVars
  BY DEF handle_single, Event
<1>2. WellFormed(p) /\ r \in Res /\ r \in Small /\ To(p) \in Node
  BY <1>1, EventPacket DEF WellFormed
<1>3. SendOK' /\ AssemblyOK' /\ CountOK'
  BY SMTT(60), <1>1, <1>2, SendStays, AssembliesStay DEF Grows, CountOK, recvVars
<1>4. CacheOK'
  <2>1. \A x \in Res \ Small : received'[x] = received[x]
    BY <1>1, <1>2 DEF CountOK
  <2> QED
    BY <1>1, <2>1, CachesStay DEF recvVars
<1>5. ReceiptsKept
  BY <1>1, <1>2, Payloads, RecordResponse, RequestsStay
<1>6. LinkOK'
  BY <1>1, <1>2, LinkEvent DEF Grows
<1> QED
  BY <1>3, <1>4, <1>5, <1>6, InvPartsNext DEF ReceiptsKept

\* A cancel drops the assembly, which is remembered as over, or fails what is
\* being sent.
LEMMA CancelledStep ==
  ASSUME ResourceInv, Grows, NEW p \in net, handle_cancel(p)
  PROVE  ResourceInv' /\ ReceiptsKept
<1> DEFINE r == p.res
           dropped == r \in incoming /\ Receiver(r) = p.to
           stopped == r \in outgoing /\ Sender(r) = p.to
<1> USE InvParts
<1>1. /\ p.type = "cancel" /\ Event(p)
      /\ UNCHANGED <<outgoing, actions, received, sends, cancelled>>
  BY DEF handle_cancel, Event
<1>2. WellFormed(p) /\ r \in Res /\ r \in cancelled /\ To(p) \in Node
  BY <1>1, EventPacket DEF WellFormed
<1>3. SendOK'
  <2>1. CASE stopped
    <3>1. [snd[r] EXCEPT !.status = "Failed"] \in SendState
      BY <1>2 DEF SendOK, SendState
    <3>2. [snd[r] EXCEPT !.status = "Failed"].status = "Failed"
      BY <1>2 DEF SendOK, SendState
    <3>3. snd' = [snd EXCEPT ![r] = [snd[r] EXCEPT !.status = "Failed"]]
      BY <2>1 DEF handle_cancel
    <3> QED
      BY <1>1, <1>2, <3>1, <3>2, <3>3, SendMoves DEF Grows, SendOK
  <2>2. CASE ~stopped
    <3>1. UNCHANGED sendVars
      BY <1>1, <2>2 DEF handle_cancel, sendVars
    <3> QED
      BY <3>1, SendStays DEF Grows
  <2> QED
    BY <2>1, <2>2
<1>4. AssemblyOK' /\ CacheOK'
  <2>1. CASE dropped
    <3>1. /\ incoming' = incoming \ {r} /\ asm' = [asm EXCEPT ![r] = NewAssembly(r)]
          /\ completed' = [completed EXCEPT ![Receiver(r)] = Remember(Receiver(r), r)]
      BY <2>1 DEF handle_cancel
    <3>2. r \in Res \ Small
      BY <2>1 DEF AssemblyOK
    <3>3. AssemblyOK'
      BY <3>1, <3>2, NewAssemblyOK, AssemblyMoves
    <3>4. Settled(r)'
      BY <1>1, <1>2 DEF Settled
    <3>5. CacheOK'
      BY <1>1, <2>1, <3>1, <3>4, CachesTake
    <3> QED
      BY <3>3, <3>5
  <2>2. CASE ~dropped
    <3>1. UNCHANGED recvVars
      BY <2>2 DEF handle_cancel
    <3> QED
      BY <1>1, <3>1, AssembliesStay, CachesStay DEF recvVars
  <2> QED
    BY <2>1, <2>2
<1>5. ReceiptsKept
  <2>1. mark_failed({r.id}) \/ UNCHANGED requestVars
    BY DEF handle_cancel
  <2> QED
    BY <2>1, RequestsFail, RequestsStay
<1>6. LinkOK' /\ CountOK'
  BY <1>1, <1>2, LinkEvent DEF Grows, CountOK
<1> QED
  BY <1>3, <1>4, <1>5, <1>6, InvPartsNext DEF ReceiptsKept

\* A proof ends what is being sent, as the last one says.
LEMMA ProofStep ==
  ASSUME ResourceInv, Grows, NEW p \in net, handle_proof(p)
  PROVE  ResourceInv' /\ ReceiptsKept
<1> DEFINE r == p.res
           st == IF p.ok THEN "Completed" ELSE "Failed"
<1> USE InvParts
<1>1. /\ p.type = "proof" /\ Event(p)
      /\ UNCHANGED <<outgoing, recvVars, actions, received, sends, cancelled>>
  BY DEF handle_proof, Event
<1>2. WellFormed(p) /\ r \in Res /\ (p.ok => Settled(r)) /\ To(p) \in Node
  BY <1>1, EventPacket DEF WellFormed
<1>3. SendOK'
  <2>1. CASE r \in outgoing
    <3>1. [snd[r] EXCEPT !.status = st] \in SendState
      BY <1>2 DEF SendOK, SendState
    <3>2. [snd[r] EXCEPT !.status = st].status = st
      BY <1>2 DEF SendOK, SendState
    <3>3. snd' = [snd EXCEPT ![r] = [snd[r] EXCEPT !.status = st]]
      BY <2>1 DEF handle_proof
    <3>4. st = "Completed" => Settled(r)'
      BY <1>2 DEF Grows
    <3> HIDE DEF st
    <3> QED
      BY <1>1, <1>2, <3>1, <3>2, <3>3, <3>4, SendMoves DEF Grows, SendOK
  <2>2. CASE r \notin outgoing
    <3>1. UNCHANGED sendVars
      BY <1>1, <2>2 DEF handle_proof, sendVars
    <3> QED
      BY <3>1, SendStays DEF Grows
  <2> QED
    BY <2>1, <2>2
<1>4. AssemblyOK' /\ CacheOK' /\ CountOK'
  BY <1>1, AssembliesStay, CachesStay DEF recvVars, CountOK
<1>5. ReceiptsKept
  <2>1. CASE UNCHANGED requestVars \/ mark_failed({r.id})
    BY <2>1, RequestsStay, RequestsFail
  <2>2. CASE /\ r.kind = "request" /\ UNCHANGED pending
             /\ receipt' = IF r.id \in pending
                             THEN [receipt EXCEPT ![r.id].status = mark_delivered(@)]
                             ELSE receipt
    <3>1. r.id \in Request
      BY <1>2, <2>2, Payloads
    <3>2. r.id \in pending => mark_delivered(receipt[r.id].status) \in Open
      BY <3>1 DEF RequestOK, mark_delivered, Open
    <3>3. CASE r.id \in pending
      <4>1. receipt' = IF r.id \in pending
                         THEN [receipt EXCEPT ![r.id].status = mark_delivered(receipt[r.id].status)]
                         ELSE receipt
        BY <2>2
      <4> QED
        BY <2>2, <3>1, <3>2, <3>3, <4>1, StatusMoves
    <3>4. CASE r.id \notin pending
      BY <2>2, <3>4, RequestsStay DEF requestVars
    <3> QED
      BY <3>3, <3>4
  <2>3. \/ UNCHANGED requestVars \/ mark_failed({r.id})
        \/ /\ r.kind = "request" /\ UNCHANGED pending
           /\ receipt' = IF r.id \in pending
                           THEN [receipt EXCEPT ![r.id].status = mark_delivered(@)]
                           ELSE receipt
    BY DEF handle_proof
  <2> QED
    BY <2>1, <2>2, <2>3
<1>6. LinkOK'
  BY <1>1, <1>2, LinkEvent DEF Grows
<1> QED
  BY <1>3, <1>4, <1>5, <1>6, InvPartsNext DEF ReceiptsKept

\* The sender answers with the parts asked for, and with hashes.
LEMMA AskedStep ==
  ASSUME ResourceInv, Grows, NEW p \in net, handle_request(p)
  PROVE  ResourceInv' /\ ReceiptsKept
<1> DEFINE r == p.res
           parts == {Part(r, i) : i \in p.want}
           update == IF p.exhausted THEN {HashUpdate(r, p.last)} ELSE {}
<1> USE InvParts
<1>1. /\ p.type = "request" /\ Event(p)
      /\ UNCHANGED <<outgoing, recvVars, requestVars, received, sends, cancelled>>
  BY DEF handle_request, Event
<1>2. WellFormed(p) /\ r \in Res \ Small /\ p.want \subseteq Index(r) /\ To(p) \in Node
  BY <1>1, EventPacket DEF WellFormed
<1>3. SendOK'
  <2>1. CASE snd' = [snd EXCEPT ![r].age = 0]
    <3>1. [snd[r] EXCEPT !.age = 0] \in SendState
      BY SMTT(60), <1>2, ResourceAssumption DEF SendOK, SendState
    <3>2. [snd[r] EXCEPT !.age = 0].status = snd[r].status
      BY <1>2 DEF SendOK, SendState
    <3>3. snd' = [snd EXCEPT ![r] = [snd[r] EXCEPT !.age = 0]]
      BY <2>1
    <3>4. snd[r].status = "Completed" => Settled(r)'
      BY <1>2 DEF SendOK, Grows
    <3> QED
      BY <1>1, <1>2, <3>1, <3>2, <3>3, <3>4, SendMoves DEF Grows, SendOK
  <2>2. CASE snd' = snd
    BY <1>1, <2>2, SendStays DEF Grows, sendVars
  <2> QED
    BY <2>1, <2>2 DEF handle_request
<1>4. AssemblyOK' /\ CacheOK' /\ CountOK' /\ ReceiptsKept
  BY <1>1, AssembliesStay, CachesStay, RequestsStay DEF recvVars, CountOK
<1>5. LinkOK'
  <2>1. actions' \subseteq actions \cup parts \cup update
    BY DEF handle_request
  <2>2. \A x \in parts \cup update : WellFormed(x)'
    BY SMTT(60), <1>2 DEF WellFormed, Part, HashUpdate
  <2> QED
    BY <1>1, <1>2, <2>1, <2>2, LinkEvent DEF Grows
<1> QED
  BY <1>3, <1>4, <1>5, InvPartsNext DEF ReceiptsKept

\* What the poll sends to the other end of a transfer that waits for parts.
LEMMA TimeoutWellFormed ==
  ASSUME NEW r \in Res \ Small, asm[r] \in AssemblyType(r), NEW p, p = TimeoutPacket(r)
  PROVE  WellFormed(p)'
<1>1. CASE asm[r].retries >= MaxRetries
  <2>1. p = Proof(r, FALSE)
    BY <1>1 DEF TimeoutPacket
  <2> QED
    BY SMTT(60), <2>1 DEF WellFormed, Proof
<1>2. CASE ~(asm[r].retries >= MaxRetries)
  <2> DEFINE want == Wanted(asm[r])
             out == Exhausted(asm[r])
             last == LastHash(asm[r])
  <2>1. p = ResourceRequest(r, want, out, last)
    BY <1>2 DEF TimeoutPacket
  <2>2. want \subseteq Index(r)
    BY DEF Wanted, Missing, AssemblyType
  <2> HIDE DEF want, out, last
  <2> QED
    BY SMTT(60), <2>1, <2>2 DEF WellFormed, ResourceRequest
<1> QED
  BY <1>1, <1>2

\* The second half of a poll: timeouts, repetitions, and the packets leave.
LEMMA PollStep ==
  ASSUME ResourceInv, Grows, NEW n \in Node, poll_inbound(n)
  PROVE  ResourceInv' /\ ReceiptsKept
<1> USE InvParts
<1>1. /\ mark_failed(RequestsFailed(n)) /\ poll_timeouts(n) /\ retry_outgoing_resources(n)
      /\ net' = net \cup actions \cup {TimeoutPacket(r) : r \in Expired(n)}
                    \cup UNION {Frames(r) : r \in Repeated(n)}
      /\ polling' = Nobody /\ actions' = {}
      /\ UNCHANGED <<completed, sends, received, cancelled>>
  BY DEF poll_inbound
<1>2. Repeated(n) \subseteq Res \ Small /\ Expired(n) \subseteq Res \ Small
  BY DEF Repeated, Due, Mine, Expired, SendOK, AssemblyOK
<1>3. SendOK'
  <2> SUFFICES ASSUME NEW r \in Res
               PROVE  /\ snd'[r] \in SendState
                      /\ snd'[r].status = "Completed" => snd[r].status = "Completed"
    BY <1>1 DEF SendOK, retry_outgoing_resources, Grows
  <2>1. snd[r] \in SendState /\ NewState \in SendState /\ NewState.status = "Sent"
    BY SMTT(60), ResourceAssumption DEF SendOK, SendState, NewState
  <2>2. CASE r \in Over(n)
    BY <1>1, <2>1, <2>2 DEF retry_outgoing_resources
  <2>3. CASE r \notin Over(n) /\ r \in Repeated(n)
    <3>1. snd'[r] = [snd[r] EXCEPT !.retries = @ + 1, !.age = 0]
      BY <1>1, <2>3 DEF retry_outgoing_resources
    <3>2. snd[r].retries + 1 \in 0 .. MaxRetries /\ 0 \in 0 .. ProofTimeout
      BY SMTT(60), <2>1, <2>3, ResourceAssumption DEF Repeated, SendState
    <3>3. snd'[r] \in SendState
      BY <2>1, <3>1, <3>2 DEF SendState
    <3>4. snd'[r].status = snd[r].status
      BY <2>1, <3>1, SMTT(60) DEF SendState
    <3> QED
      BY <3>3, <3>4
  <2>4. CASE r \notin Over(n) /\ r \notin Repeated(n) /\ r \in Due(n)
    <3>1. snd'[r] = [snd[r] EXCEPT !.status = "Failed"]
      BY <1>1, <2>4 DEF retry_outgoing_resources
    <3> QED
      BY <2>1, <3>1 DEF SendState
  <2>5. CASE r \notin Over(n) /\ r \notin Repeated(n) /\ r \notin Due(n)
    <3>1. snd'[r] = snd[r]
      BY <1>1, <2>5 DEF retry_outgoing_resources
    <3> QED
      BY <2>1, <3>1
  <2> QED
    BY <2>2, <2>3, <2>4, <2>5
<1>4. AssemblyOK'
  <2> SUFFICES ASSUME NEW r \in Res
               PROVE  asm'[r] \in AssemblyType(r) /\ asm'[r].count = Cardinality(asm'[r].got)
    BY <1>1 DEF AssemblyOK, poll_timeouts
  <2>1. asm[r] \in AssemblyType(r) /\ asm[r].count = Cardinality(asm[r].got)
    BY DEF AssemblyOK
  <2>2. CASE r \in GivenUp(n)
    BY <1>1, <2>2, NewAssemblyOK DEF poll_timeouts
  <2>3. CASE r \notin GivenUp(n) /\ r \in Expired(n)
    <3>1. asm'[r] = [asm[r] EXCEPT !.retries = @ + 1, !.age = 0]
      BY <1>1, <2>3 DEF poll_timeouts
    <3>2. asm[r].retries + 1 \in 0 .. MaxRetries /\ 0 \in 0 .. RecvTimeout
      BY SMTT(60), <2>1, <2>3, ResourceAssumption DEF GivenUp, AssemblyType
    <3>3. asm'[r] \in AssemblyType(r)
      BY <2>1, <3>1, <3>2 DEF AssemblyType
    <3>4. asm'[r].count = asm[r].count /\ asm'[r].got = asm[r].got
      BY <2>1, <3>1, SMTT(60) DEF AssemblyType
    <3> QED
      BY <2>1, <3>3, <3>4
  <2>4. CASE r \notin GivenUp(n) /\ r \notin Expired(n)
    <3>1. asm'[r] = asm[r]
      BY <1>1, <2>4 DEF poll_timeouts
    <3> QED
      BY <2>1, <3>1
  <2> QED
    BY <2>2, <2>3, <2>4
<1>5. CacheOK' /\ CountOK'
  BY <1>1, CachesStay DEF poll_timeouts, CountOK
<1>6. ReceiptsKept
  BY <1>1, RequestsFail
<1>7. LinkOK'
  <2>1. \A p \in {TimeoutPacket(r) : r \in Expired(n)} : WellFormed(p)'
    BY <1>2, TimeoutWellFormed DEF AssemblyOK
  <2>2. \A r \in Repeated(n) : \A p \in Frames(r) : WellFormed(p)'
    BY <1>2, FramesWellFormed
  <2>3. \A p \in net' \ (net \cup actions) : WellFormed(p)'
    BY <1>1, <2>1, <2>2
  <2> QED
    BY <1>1, <2>3, LinkMoves DEF Grows
<1> QED
  BY <1>3, <1>4, <1>5, <1>6, <1>7, InvPartsNext DEF ReceiptsKept

\* Time passes.
LEMMA TickStep ==
  ASSUME ResourceInv, Grows, Tick
  PROVE  ResourceInv' /\ ReceiptsKept
<1> USE InvParts
<1>1. /\ UNCHANGED <<outgoing, incoming, completed, pending, net, polling, actions, sends,
                     received, cancelled>>
      /\ DOMAIN snd' = Res /\ DOMAIN asm' = Res /\ DOMAIN receipt' = Request
  BY DEF Tick
<1>2. \A t \in Nat : \A age \in 0 .. t : Older(age, t) \in 0 .. t
  BY SMTT(60) DEF Older
<1>3. SendOK'
  <2> SUFFICES ASSUME NEW r \in Res
               PROVE  snd'[r] \in SendState /\ snd'[r].status = snd[r].status
    BY <1>1 DEF SendOK, Grows, Tick
  <2>1. snd[r] \in SendState
    BY DEF SendOK
  <2>2. CASE r \in outgoing
    <3>1. snd'[r] = [snd[r] EXCEPT !.age = Older(snd[r].age, ProofTimeout)]
      BY <2>2 DEF Tick
    <3>2. Older(snd[r].age, ProofTimeout) \in 0 .. ProofTimeout
      BY <1>2, <2>1, ResourceAssumption DEF SendState
    <3> QED
      BY <2>1, <3>1, <3>2 DEF SendState
  <2>3. CASE r \notin outgoing
    <3>1. snd'[r] = snd[r]
      BY <2>3 DEF Tick
    <3> QED
      BY <2>1, <3>1
  <2> QED
    BY <2>2, <2>3
<1>4. AssemblyOK'
  <2> SUFFICES ASSUME NEW r \in Res
               PROVE  asm'[r] \in AssemblyType(r) /\ asm'[r].count = Cardinality(asm'[r].got)
    BY <1>1 DEF AssemblyOK
  <2>1. asm[r] \in AssemblyType(r) /\ asm[r].count = Cardinality(asm[r].got)
    BY DEF AssemblyOK
  <2>2. CASE r \in incoming
    <3>1. asm'[r] = [asm[r] EXCEPT !.age = Older(asm[r].age, RecvTimeout)]
      BY <2>2 DEF Tick
    <3>2. Older(asm[r].age, RecvTimeout) \in 0 .. RecvTimeout
      BY <1>2, <2>1, ResourceAssumption DEF AssemblyType
    <3>3. asm'[r] \in AssemblyType(r)
      BY <2>1, <3>1, <3>2 DEF AssemblyType
    <3>4. asm'[r].count = asm[r].count /\ asm'[r].got = asm[r].got
      BY <2>1, <3>1, SMTT(60) DEF AssemblyType
    <3> QED
      BY <2>1, <3>3, <3>4
  <2>3. CASE r \notin incoming
    <3>1. asm'[r] = asm[r]
      BY <2>3 DEF Tick
    <3> QED
      BY <2>1, <3>1
  <2> QED
    BY <2>2, <2>3
<1>5. CacheOK' /\ CountOK'
  BY <1>1, CachesStay DEF CountOK
<1>6. ReceiptsKept
  <2>1. ASSUME NEW q \in Request
        PROVE  receipt'[q] \in ReceiptState /\ receipt'[q].status = receipt[q].status
    <3>1. receipt[q] \in ReceiptState
      BY DEF RequestOK
    <3>2. CASE q \in pending
      <4>1. receipt'[q] = [receipt[q] EXCEPT !.age = Older(receipt[q].age, RequestTimeout)]
        BY <3>2 DEF Tick
      <4>2. Older(receipt[q].age, RequestTimeout) \in 0 .. RequestTimeout
        BY <1>2, <3>1, ResourceAssumption DEF ReceiptState
      <4> QED
        BY <3>1, <4>1, <4>2 DEF ReceiptState
    <3>3. CASE q \notin pending
      <4>1. receipt'[q] = receipt[q]
        BY <3>3 DEF Tick
      <4> QED
        BY <3>1, <4>1
    <3> QED
      BY <3>2, <3>3
  <2>2. receipt' \in [Request -> ReceiptState]
    BY <2>1 DEF Tick
  <2> QED
    BY <1>1, <2>1, <2>2 DEF ReceiptsKept, RequestOK
<1>7. LinkOK'
  BY <1>1, LinkMoves DEF LinkOK, Grows
<1> QED
  BY <1>3, <1>4, <1>5, <1>6, <1>7, InvPartsNext DEF ReceiptsKept

-----------------------------------------------------------------------------
(* The theorems.                                                           *)

\* The invariant holds at the start.
LEMMA InitInv == Init => ResourceInv
<1> SUFFICES ASSUME Init PROVE ResourceInv
  OBVIOUS
<1>1. SendOK /\ LinkOK /\ CountOK /\ RequestOK
  BY SMTT(60), ResourceAssumption DEF Init, SendOK, LinkOK, CountOK, RequestOK, SendState, NewState,
     ReceiptState, Open
<1>2. AssemblyOK
  BY NewAssemblyOK DEF Init, AssemblyOK
<1>3. CacheOK
  <2>1. \A n \in Node : completed[n] = <<>> /\ Completed(n) = {} /\ Ended(n) = {}
    BY SMTT(60) DEF Init, Completed, Ended, Settled
  <2>2. IsFiniteSet({}) /\ CacheSize \in Nat
    BY FS_EmptySet, ResourceAssumption
  <2>3. \A s : s = <<>> => s \in Seq(Res) /\ Len(s) = 0 /\ 1 .. Len(s) = {}
    BY SMTT(60)
  <2>4. ASSUME NEW n \in Node PROVE CacheSound(n) /\ Len(completed[n]) <= CacheSize
    <3>1. completed[n] \in Seq(Res) /\ Len(completed[n]) = 0 /\ 1 .. Len(completed[n]) = {}
      BY <2>1, <2>3
    <3>2. Len(completed[n]) <= CacheSize
      BY SMTT(60), <2>2, <3>1
    <3> QED
      BY <2>1, <2>2, <3>1, <3>2 DEF CacheSound
  <2> QED
    BY <2>4 DEF Init, CacheOK
<1> QED
  BY <1>1, <1>2, <1>3, InvParts

\* Every step keeps the invariant and leaves concluded receipts alone.
LEMMA StepKept ==
  ASSUME ResourceInv, [Next]_vars
  PROVE  ResourceInv' /\ ReceiptsKept
<1> USE SettledStays DEF Grows
<1>1. CASE handle_link_event_inner
  BY <1>1, AdvertStep, PartStep, UpdateStep, CancelledStep, ProofStep, AskedStep, SingleStep
     DEF handle_link_event_inner
<1>2. CASE UNCHANGED vars
  <2>1. UNCHANGED <<sendVars, incoming, asm, completed, requestVars, net, polling, actions, sends,
                    received, cancelled>>
    BY <1>2 DEF vars, recvVars
  <2> QED
    BY <2>1, InvParts, SendStays, AssembliesStay, CachesStay, RequestsStay, LinkMoves, InvPartsNext
       DEF ReceiptsKept, CountOK, LinkOK
<1> QED
  BY <1>1, <1>2, SendStep, RequestStep, CancelStep, PollStep, TickStep DEF Next

\* ResourceInv is an invariant, whatever the link loses, delays and reorders.
THEOREM ResourceInvariant == Spec => []ResourceInv
  BY InitInv, StepKept, PTL DEF Spec

\* The sender takes a transfer for completed only if the receiver's application
\* was given the payload or a peer cancelled it (handle_proof).
THEOREM CompletedHonest == Spec => []CompletedIsReceived
<1>1. ResourceInv => CompletedIsReceived
  BY DEF ResourceInv, TypeOK, CompletedIsReceived, Settled
<1> QED
  BY <1>1, ResourceInvariant, PTL

\* While no more transfers have ended at a node than its completed cache holds,
\* no payload is handed to the application twice (handle_advertisement).
THEOREM HandedOverAtMostOnce == Spec => []ReceivedOnce
<1>1. ResourceInv => ReceivedOnce
  <2> SUFFICES ASSUME ResourceInv, NEW n \in Node, Cardinality(Ended(n)) <= CacheSize,
                      NEW r \in Res \ Small, Receiver(r) = n
               PROVE  received[r] <= 1
    BY DEF ReceivedOnce
  <2>1. received[r] \in Nat /\ CacheSound(n)
    BY DEF ResourceInv, TypeOK
  <2>2. received[r] > 0 => r \in Ended(n)
    BY DEF Ended, Settled
  <2> QED
    BY SMTT(60), <2>1, <2>2 DEF CacheSound
<1> QED
  BY <1>1, ResourceInvariant, PTL

\* No response, proof, cancel or timeout moves a request that is Ready or Failed.
THEOREM ReceiptsFinal == Spec => ReceiptFinal
<1>1. ResourceInv /\ [Next]_vars =>
        [\A q \in Request : receipt[q].status \in Concluded
                              => receipt'[q].status = receipt[q].status]_vars
  BY StepKept DEF ReceiptsKept
<1> QED
  BY <1>1, ResourceInvariant, PTL DEF Spec, ReceiptFinal

\* A payload that travels in parts is handed over with every part in place
\* (handle_part).
THEOREM PayloadsWhole == Spec => HandedOverWhole
<1>1. ASSUME ResourceInv, [Next]_vars, NEW r \in Res \ Small, received'[r] # received[r],
             NEW p \in net \ net'
      PROVE  asm[r].got \cup {p.index} = Index(r)
  <2>1. PICK x \in net : handle_part(x) \/ handle_single(x)
    BY <1>1 DEF Next, vars, send_message, send_request_with_receipt_to_hash, send_response,
       peer_cancels, poll_inbound, Tick, handle_link_event_inner, handle_advertisement,
       handle_hash_update, handle_cancel, handle_proof, handle_request
  <2>2. p = x /\ WellFormed(x) /\ received \in [Res -> Nat]
    BY <1>1, <2>1 DEF handle_part, handle_single, Event, ResourceInv, TypeOK
  <2>3. received' = [received EXCEPT ![x.res] = @ + 1]
    BY <1>1, <2>1 DEF handle_part, handle_single
  <2>4. r = x.res /\ x.type # "single"
    BY <1>1, <2>2, <2>3 DEF WellFormed
  <2>5. handle_part(x) /\ x.index \in Index(r)
    BY <2>1, <2>2, <2>4 DEF handle_single, handle_part, WellFormed
  <2>6. Taken(asm[r], x.index).count = Parts[r]
    BY <1>1, <2>4, <2>5 DEF handle_part
  <2>7. asm[r] \in AssemblyType(r) /\ asm[r].count = Cardinality(asm[r].got)
    BY <1>1 DEF ResourceInv, TypeOK
  <2>8. Cardinality(asm[r].got \cup {x.index}) = Parts[r]
    BY SMTT(60), <2>5, <2>6, <2>7, TakenOK
  <2> QED
    BY SMTT(60), <2>2, <2>5, <2>7, <2>8, CountIsWhole DEF AssemblyType
<1>2. ResourceInv /\ [Next]_vars =>
        [\A r \in Res \ Small : received'[r] # received[r] =>
           \A p \in net \ net' : asm[r].got \cup {p.index} = Index(r)]_vars
  BY <1>1
<1> QED
  BY <1>2, ResourceInvariant, PTL DEF Spec, HandedOverWhole
=============================================================================
