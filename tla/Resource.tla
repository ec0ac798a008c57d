------------------------------ MODULE Resource ------------------------------
(***************************************************************************)
(* Transfer of payloads larger than a packet, and the requests and         *)
(* responses that travel as such payloads: ResourceSendState,              *)
(* ResourceTracker and RequestTracker of reticulum, driven by              *)
(* RnsNodeRouter::poll_inbound of lxmf-rs.                                 *)
(*                                                                         *)
(* Two nodes run the code, a client (sends messages and requests) and a    *)
(* server (sends responses), over a link that delays, reorders and loses   *)
(* packets: one that is never taken from net is lost.                      *)
(***************************************************************************)
EXTENDS Naturals, Sequences, FiniteSets

CONSTANTS
    Message,         \* payloads of send_message that travel as a resource
    Request,         \* request ids
    Small,           \* resources whose payload fits one packet
    Parts,           \* total_parts of each resource
    CacheSize,       \* RESOURCE_COMPLETED_CACHE_SIZE
    MaxRetries,      \* RESOURCE_DEFAULT_MAX_RETRIES
    ProofTimeout,    \* RESOURCE_PROOF_TIMEOUT: the sender waits for a proof
    RecvTimeout,     \* RESOURCE_TIMEOUT: the receiver waits for parts
    RequestTimeout,  \* the timeout register_request is given
    Workloads,       \* bound: how often the applications send each payload
    MaxCancels       \* bound on the cancels a peer sends

VARIABLES
    outgoing,   \* resource_outgoing of both nodes: the ids being sent
    snd,        \* ResourceSendState of each of them
    incoming,   \* ResourceTracker::incoming of both nodes
    asm,        \* ResourceAssembly of each of them
    completed,  \* ResourceTracker::completed, oldest first
    pending,    \* RequestTracker::pending of the client
    receipt,    \* RequestReceipt of each request
    net,        \* packets on the link
    polling,    \* the node inside poll_inbound, or Nobody
    actions,    \* the control packets that poll sends when it ends
    sends,      \* times the application sent a payload
    received,   \* times the application was given a payload
    cancelled   \* resources a peer has cancelled

sendVars == <<outgoing, snd>>
recvVars == <<incoming, asm, completed>>
requestVars == <<pending, receipt>>
vars == <<sendVars, recvVars, requestVars, net, polling, actions,
          sends, received, cancelled>>

Node == {"client", "server"}
Nobody == "nobody"

Res == [kind : {"message"}, id : Message]
         \cup [kind : {"request", "response"}, id : Request]

ASSUME ResourceAssumption ==
    /\ Parts \in [Res -> Nat \ {0}]
    /\ CacheSize \in Nat \ {0}
    /\ MaxRetries \in Nat
    /\ ProofTimeout \in Nat \ {0}
    /\ RecvTimeout \in Nat \ {0}
    /\ RequestTimeout \in Nat \ {0}
    /\ MaxCancels \in Nat

Sender(r) == IF r.kind = "response" THEN "server" ELSE "client"
Receiver(r) == IF r.kind = "response" THEN "client" ELSE "server"
Asking(q) == [kind |-> "request", id |-> q]
Answering(q) == [kind |-> "response", id |-> q]

\* Parts are numbered from 1; the map hash of part i is i (the parts of one
\* payload differ), and 0 stands for no hash.
Index(r) == 1 .. Parts[r]
NoHash == 0

(***************************************************************************)
(* Packets, by the context they carry.                                     *)
(***************************************************************************)
Advert(r) == [type |-> "advert", res |-> r]
Part(r, i) == [type |-> "part", res |-> r, index |-> i]
Proof(r, ok) == [type |-> "proof", res |-> r, ok |-> ok]
\* last is zeros (NoHash) when the receiver knows no hash; exhausted asks for
\* the hashes after last.
ResourceRequest(r, want, exhausted, last) ==
    [type |-> "request", res |-> r, want |-> want, exhausted |-> exhausted,
     last |-> last]
\* The hashes of the parts after last, in segment 0.
HashUpdate(r, last) == [type |-> "update", res |-> r, last |-> last]
Cancel(r, to) == [type |-> "cancel", res |-> r, to |-> to]
Single(r) == [type |-> "single", res |-> r]

Frames(r) == {Advert(r)} \cup {Part(r, i) : i \in Index(r)}

To(p) ==
    CASE p.type \in {"advert", "part", "update", "single"} -> Receiver(p.res)
      [] p.type \in {"proof", "request"} -> Sender(p.res)
      [] OTHER -> p.to

(***************************************************************************)
(* RequestTracker.                                                         *)
(***************************************************************************)
Concluded == {"Ready", "Failed"}
Open == {"Sent", "Delivered", "Receiving"}

mark_delivered(status) == IF status = "Sent" THEN "Delivered" ELSE status

mark_receiving(q) ==
    IF q \in pending /\ receipt[q].status # "Failed"
      THEN [receipt EXCEPT ![q].status = "Receiving"]
      ELSE receipt

\* mark_failed of every request of the set
mark_failed(qs) ==
    /\ pending' = pending \ qs
    /\ receipt' = [q \in Request |->
                     IF q \in qs \cap pending
                       THEN [receipt[q] EXCEPT !.status = "Failed"]
                       ELSE receipt[q]]

\* Faulty variant of record_response: takes an answer to a request that is over.
record_response_late(q) ==
    /\ pending' = pending \ {q}
    /\ receipt' = [receipt EXCEPT ![q].status = "Ready"]

record_response(q) ==
    /\ pending' = pending \ {q}
    /\ receipt' = IF q \in pending /\ receipt[q].status # "Failed"
                    THEN [receipt EXCEPT ![q].status = "Ready"]
                    ELSE receipt

(***************************************************************************)
(* CacheSet::insert                                                        *)
(***************************************************************************)
Completed(n) == {completed[n][i] : i \in 1 .. Len(completed[n])}

\* Faulty variant of Remember: the cache never takes anything.
Remember_not(n, r) == completed[n]

Remember(n, r) ==
    IF r \in Completed(n) THEN completed[n]
    ELSE Append(IF Len(completed[n]) = CacheSize THEN Tail(completed[n])
                ELSE completed[n], r)

NewState == [status |-> "Sent", retries |-> 0, age |-> 0]
NewAssembly(r) == [got |-> {}, count |-> 0,
                   hashmap |-> [i \in Index(r) |-> NoHash],
                   retries |-> 0, age |-> 0]

Init ==
    /\ outgoing = {}
    /\ snd = [r \in Res |-> NewState]
    /\ incoming = {}
    /\ asm = [r \in Res |-> NewAssembly(r)]
    /\ completed = [n \in Node |-> <<>>]
    /\ pending = {}
    /\ receipt = [q \in Request |-> [status |-> "none", age |-> 0]]
    /\ net = {}
    /\ polling = Nobody
    /\ actions = {}
    /\ sends = [r \in Res |-> 0]
    /\ received = [r \in Res |-> 0]
    /\ cancelled = {}

(***************************************************************************)
(* The applications.  A call needs the node to itself (&mut self), so it   *)
(* never falls inside a poll.                                              *)
(***************************************************************************)
MayCall(r) ==
    /\ polling = Nobody
    /\ sends' = [sends EXCEPT ![r] = @ + 1]
    /\ \E w \in Workloads : \A x \in Res : sends'[x] <= w[x]

\* A resource being sent again under the same id replaces the old state.
send_resource_frames(r) ==
    IF r \in Small
      THEN net' = net \cup {Single(r)} /\ UNCHANGED sendVars
      ELSE /\ net' = net \cup Frames(r)
           /\ outgoing' = outgoing \cup {r}
           /\ snd' = [snd EXCEPT ![r] = NewState]

send_message(m) ==
    LET r == [kind |-> "message", id |-> m] IN
    /\ MayCall(r)
    /\ send_resource_frames(r)
    /\ UNCHANGED <<recvVars, requestVars, polling, actions, received,
                   cancelled>>

\* The receipt is Delivered as soon as the frames are handed to the links.
send_request_with_receipt_to_hash(q) ==
    /\ receipt[q].status = "none"
    /\ MayCall(Asking(q))
    /\ send_resource_frames(Asking(q))
    /\ pending' = pending \cup {q}
    /\ receipt' = [receipt EXCEPT ![q] =
                     [status |-> mark_delivered("Sent"), age |-> 0]]
    /\ UNCHANGED <<recvVars, polling, actions, received, cancelled>>

\* The server answers each request it was given once.
send_response(q) ==
    /\ sends[Answering(q)] < received[Asking(q)]
    /\ MayCall(Answering(q))
    /\ send_resource_frames(Answering(q))
    /\ UNCHANGED <<recvVars, requestVars, polling, actions, received,
                   cancelled>>

\* A peer of another implementation may cancel a transfer at either end.
peer_cancels(r, n) ==
    /\ Cardinality(cancelled) < MaxCancels
    /\ r \notin cancelled
    /\ sends[r] > 0
    /\ cancelled' = cancelled \cup {r}
    /\ net' = net \cup {Cancel(r, n)}
    /\ UNCHANGED <<sendVars, recvVars, requestVars, polling, actions, sends,
                   received>>

(***************************************************************************)
(* poll_inbound, first half: the link events, one at a time.  Two polls    *)
(* never overlap in the model: a poll only reads net until it ends.        *)
(***************************************************************************)
Event(p) ==
    /\ p \in net
    /\ polling \in {Nobody, To(p)}
    /\ polling' = To(p)
    /\ net' = net \ {p}
    /\ UNCHANGED <<sends, cancelled>>

handle_advertisement(p) ==
    LET r == p.res IN
    /\ p.type = "advert"
    /\ Event(p)
    /\ IF r \in Completed(To(p))
         THEN /\ actions' = actions \cup {Proof(r, TRUE)}
              /\ UNCHANGED <<incoming, asm, receipt>>
         ELSE /\ incoming' = incoming \cup {r}
              /\ asm' = [asm EXCEPT ![r] = NewAssembly(r)]
              /\ receipt' = IF r.kind = "response" THEN mark_receiving(r.id)
                            ELSE receipt
              /\ UNCHANGED actions
    /\ UNCHANGED <<sendVars, completed, pending, received>>

\* Faulty variant of Taken: a part that comes twice counts twice.
Taken_twice(a, i) ==
    [a EXCEPT !.got = @ \cup {i}, !.count = @ + 1,
              !.hashmap[i] = IF @ = NoHash THEN i ELSE @, !.age = 0]

\* What handle_part leaves of an assembly that has taken part i.
Taken(a, i) ==
    [a EXCEPT !.got = @ \cup {i},
              !.count = IF i \in a.got THEN @ ELSE @ + 1,
              !.hashmap[i] = IF @ = NoHash THEN i ELSE @,
              !.age = 0]

handle_part(p) ==
    LET r == p.res
        a == Taken(asm[r], p.index)
    IN
    /\ p.type = "part"
    /\ Event(p)
    /\ \/ /\ r \notin incoming
          /\ UNCHANGED <<incoming, asm, completed, requestVars, actions, received>>
       \/ /\ r \in incoming
          /\ a.count < Parts[r]
          /\ asm' = [asm EXCEPT ![r] = a]
          /\ receipt' = IF r.kind = "response" THEN mark_receiving(r.id)
                        ELSE receipt
          /\ UNCHANGED <<incoming, completed, pending, actions, received>>
       \/ /\ r \in incoming
          /\ a.count = Parts[r]
          /\ incoming' = incoming \ {r}
          /\ asm' = [asm EXCEPT ![r] = NewAssembly(r)]
          /\ completed' = [completed EXCEPT ![To(p)] = Remember(To(p), r)]
          /\ actions' = actions \cup {Proof(r, TRUE)}
          /\ received' = [received EXCEPT ![r] = @ + 1]
          /\ IF r.kind = "response" THEN record_response(r.id)
             ELSE UNCHANGED requestVars
    /\ UNCHANGED sendVars

\* Segment 0 starts at index 0, whatever part the hashes start from.
handle_hash_update(p) ==
    LET r == p.res
        fill(h) == [i \in Index(r) |-> IF i + p.last \in Index(r) THEN i + p.last
                                       ELSE h[i]]
    IN
    /\ p.type = "update"
    /\ Event(p)
    /\ asm' = IF r \in incoming
                THEN [asm EXCEPT ![r].hashmap = fill(@), ![r].age = 0]
                ELSE asm
    /\ UNCHANGED <<sendVars, incoming, completed, requestVars, actions, received>>

\* Both roles: an assembly is dropped and remembered as completed, a transfer
\* being sent has failed.
handle_cancel(p) ==
    LET r == p.res
        dropped == r \in incoming /\ Receiver(r) = p.to
        stopped == r \in outgoing /\ Sender(r) = p.to
    IN
    /\ p.type = "cancel"
    /\ Event(p)
    /\ IF dropped
         THEN /\ incoming' = incoming \ {r}
              /\ asm' = [asm EXCEPT ![r] = NewAssembly(r)]
              /\ completed' = [completed EXCEPT ![p.to] = Remember(p.to, r)]
         ELSE UNCHANGED recvVars
    /\ snd' = IF stopped THEN [snd EXCEPT ![r].status = "Failed"] ELSE snd
    /\ IF \/ dropped /\ r.kind = "response"
          \/ stopped /\ r.kind = "request"
         THEN mark_failed({r.id})
         ELSE UNCHANGED requestVars
    /\ UNCHANGED <<outgoing, actions, received>>

\* The status follows the last proof, whatever it was before.
handle_proof(p) ==
    LET r == p.res IN
    /\ p.type = "proof"
    /\ Event(p)
    /\ IF r \in outgoing
         THEN /\ snd' = [snd EXCEPT ![r].status =
                           IF p.ok THEN "Completed" ELSE "Failed"]
              /\ IF r.kind # "request" THEN UNCHANGED requestVars
                 ELSE IF p.ok
                 THEN /\ receipt' = IF r.id \in pending
                                      THEN [receipt EXCEPT ![r.id].status =
                                              mark_delivered(@)]
                                      ELSE receipt
                      /\ UNCHANGED pending
                 ELSE mark_failed({r.id})
         ELSE UNCHANGED <<snd, requestVars>>
    /\ UNCHANGED <<outgoing, recvVars, actions, received>>

\* The parts asked for, and after an exhausted hash map the hashes of the parts
\* that follow the last one the receiver knows.
handle_request(p) ==
    LET r == p.res
        parts == {Part(r, i) : i \in p.want}
        update == IF p.exhausted THEN {HashUpdate(r, p.last)} ELSE {}
    IN
    /\ p.type = "request"
    /\ Event(p)
    /\ IF r \in outgoing
         THEN /\ actions' = actions \cup parts \cup update
              /\ snd' = IF parts # {} THEN [snd EXCEPT ![r].age = 0] ELSE snd
         ELSE UNCHANGED <<actions, snd>>
    /\ UNCHANGED <<outgoing, recvVars, requestVars, received>>

\* A payload in one packet goes straight to the application.  This code sends it
\* to the destination and not over a link, and its own transport drops what is
\* sent that way; a peer of another implementation uses the link.
handle_single(p) ==
    LET r == p.res IN
    /\ p.type = "single"
    /\ Event(p)
    /\ received' = [received EXCEPT ![r] = @ + 1]
    /\ IF r.kind = "response" THEN record_response(r.id)
       ELSE UNCHANGED requestVars
    /\ UNCHANGED <<sendVars, recvVars, actions>>

handle_link_event_inner ==
    \E p \in net :
        \/ handle_advertisement(p)
        \/ handle_part(p)
        \/ handle_hash_update(p)
        \/ handle_cancel(p)
        \/ handle_proof(p)
        \/ handle_request(p)
        \/ handle_single(p)

(***************************************************************************)
(* poll_inbound, second half: the timeouts of the requests, of the         *)
(* incoming and of the outgoing resources; then the control packets leave. *)
(***************************************************************************)
\* ResourceTracker::poll_timeouts
Expired(n) == {r \in incoming : Receiver(r) = n /\ asm[r].age >= RecvTimeout}
\* Faulty variant of GivenUp: one retry more than there may be.
GivenUp_late(n) == {r \in Expired(n) : asm[r].retries > MaxRetries}
GivenUp(n) == {r \in Expired(n) : asm[r].retries >= MaxRetries}

Missing(a) == DOMAIN a.hashmap \ a.got
Wanted(a) == {a.hashmap[i] : i \in Missing(a)} \ {NoHash}
Exhausted(a) == \E i \in Missing(a) : a.hashmap[i] = NoHash
LastHash(a) ==
    LET known == {i \in DOMAIN a.hashmap : a.hashmap[i] # NoHash} IN
    IF known = {} THEN NoHash
    ELSE a.hashmap[CHOOSE i \in known : \A j \in known : j <= i]

\* Faulty variant of TimeoutPacket: a transfer given up is proved good.
TimeoutPacket_good(r) ==
    LET a == asm[r] IN
    IF a.retries >= MaxRetries THEN Proof(r, TRUE)
    ELSE ResourceRequest(r, Wanted(a), Exhausted(a), LastHash(a))

TimeoutPacket(r) ==
    LET a == asm[r] IN
    IF a.retries >= MaxRetries THEN Proof(r, FALSE)
    ELSE ResourceRequest(r, Wanted(a), Exhausted(a), LastHash(a))

poll_timeouts(n) ==
    /\ incoming' = incoming \ GivenUp(n)
    /\ asm' = [r \in Res |->
                 IF r \in GivenUp(n) THEN NewAssembly(r)
                 ELSE IF r \in Expired(n)
                 THEN [asm[r] EXCEPT !.retries = @ + 1, !.age = 0]
                 ELSE asm[r]]

\* retry_outgoing_resources: a transfer that is over goes; the others are
\* repeated in full, until poll_retry has failed them for the next poll.
Mine(n) == {r \in outgoing : Sender(r) = n}
Over(n) == {r \in Mine(n) : snd[r].status # "Sent"}
Due(n) == {r \in Mine(n) \ Over(n) : snd[r].age >= ProofTimeout}
Repeated(n) == {r \in Due(n) : snd[r].retries < MaxRetries}

\* Faulty variant of retry_outgoing_resources: a transfer out of retries stays.
retry_outgoing_resources_stuck(n) ==
    /\ outgoing' = outgoing \ Over(n)
    /\ snd' = [r \in Res |->
                 IF r \in Over(n) THEN NewState
                 ELSE IF r \in Repeated(n)
                 THEN [snd[r] EXCEPT !.retries = @ + 1, !.age = 0]
                 ELSE snd[r]]

retry_outgoing_resources(n) ==
    /\ outgoing' = outgoing \ Over(n)
    /\ snd' = [r \in Res |->
                 IF r \in Over(n) THEN NewState
                 ELSE IF r \in Repeated(n)
                 THEN [snd[r] EXCEPT !.retries = @ + 1, !.age = 0]
                 ELSE IF r \in Due(n) THEN [snd[r] EXCEPT !.status = "Failed"]
                 ELSE snd[r]]

\* The requests a poll fails: out of time, their response given up, or their
\* own transfer failed.
RequestsFailed(n) ==
    {q \in pending : /\ n = "client"
                     /\ \/ receipt[q].age >= RequestTimeout
                        \/ Answering(q) \in GivenUp(n)
                        \/ Asking(q) \in Over(n) /\ snd[Asking(q)].status = "Failed"}

poll_inbound(n) ==
    /\ polling \in {Nobody, n}
    /\ mark_failed(RequestsFailed(n))
    /\ poll_timeouts(n)
    /\ retry_outgoing_resources(n)
    /\ net' = net \cup actions \cup {TimeoutPacket(r) : r \in Expired(n)}
                  \cup UNION {Frames(r) : r \in Repeated(n)}
    /\ polling' = Nobody
    /\ actions' = {}
    /\ UNCHANGED <<completed, sends, received, cancelled>>

\* Time passes for every timer that runs; no timer tells apart ages past its
\* timeout.
Older(age, timeout) == IF age < timeout THEN age + 1 ELSE age

Tick ==
    /\ polling = Nobody
    /\ snd' = [r \in Res |-> IF r \in outgoing
                 THEN [snd[r] EXCEPT !.age = Older(@, ProofTimeout)] ELSE snd[r]]
    /\ asm' = [r \in Res |-> IF r \in incoming
                 THEN [asm[r] EXCEPT !.age = Older(@, RecvTimeout)] ELSE asm[r]]
    /\ receipt' = [q \in Request |-> IF q \in pending
                     THEN [receipt[q] EXCEPT !.age = Older(@, RequestTimeout)]
                     ELSE receipt[q]]
    /\ UNCHANGED <<outgoing, incoming, completed, pending, net, polling,
                   actions, sends, received, cancelled>>

Next ==
    \/ \E m \in Message : send_message(m)
    \/ \E q \in Request : send_request_with_receipt_to_hash(q)
    \/ \E q \in Request : send_response(q)
    \/ \E r \in Res, n \in Node : peer_cancels(r, n)
    \/ handle_link_event_inner
    \/ \E n \in Node : poll_inbound(n)
    \/ Tick

\* Both nodes keep polling and time keeps passing; nothing says that a packet
\* arrives or that an application calls.
Fairness == WF_vars(Tick) /\ \A n \in Node : WF_vars(poll_inbound(n))

Spec == Init /\ [][Next]_vars /\ Fairness

-----------------------------------------------------------------------------
AssemblyType(r) ==
    [got : SUBSET Index(r), count : 0 .. Parts[r],
     hashmap : [Index(r) -> Index(r) \cup {NoHash}],
     retries : 0 .. MaxRetries, age : 0 .. RecvTimeout]

\* Type invariant of the transfer state.
TypeOK ==
    /\ outgoing \subseteq Res \ Small
    /\ snd \in [Res -> [status : {"Sent", "Completed", "Failed"},
                        retries : 0 .. MaxRetries, age : 0 .. ProofTimeout]]
    /\ incoming \subseteq Res \ Small
    /\ DOMAIN asm = Res /\ \A r \in Res : asm[r] \in AssemblyType(r)
    /\ \A n \in Node : Completed(n) \subseteq Res /\ Len(completed[n]) <= CacheSize
    /\ pending \subseteq Request
    /\ receipt \in [Request -> [status : {"none"} \cup Open \cup Concluded,
                                age : 0 .. RequestTimeout]]
    /\ polling \in Node \cup {Nobody}
    /\ polling = Nobody => actions = {}
    /\ sends \in [Res -> Nat] /\ received \in [Res -> Nat]
    /\ cancelled \subseteq Res

\* A payload the receiver's application was given, or that a peer cancelled.
Settled(r) == received[r] > 0 \/ r \in cancelled

\* What is known of a packet on its way: only payloads longer than a packet
\* travel in parts, a good proof is of a payload that is settled, and a cancel
\* was sent by a peer.
WellFormed(p) ==
    /\ p.res \in Res
    /\ p.type \notin {"cancel", "single"} => p.res \notin Small
    /\ p.type = "single" => p.res \in Small
    /\ p.type = "part" => p.index \in Index(p.res)
    /\ p.type = "request" => p.want \subseteq Index(p.res)
    /\ p.type = "proof" /\ p.ok => Settled(p.res)
    /\ p.type = "cancel" => p.to \in Node /\ p.res \in cancelled

\* The transfers that have ended at a node.
Ended(n) == {r \in Res \ Small : Receiver(r) = n /\ Settled(r)}

\* The cache of a node holds transfers that ended there, each once, and misses
\* none as long as they fit: then no payload was handed over twice.
CacheSound(n) ==
    /\ completed[n] \in Seq(Res)
    /\ \A i, j \in 1 .. Len(completed[n]) : completed[n][i] = completed[n][j] => i = j
    /\ Completed(n) \subseteq Ended(n)
    /\ IsFiniteSet(Ended(n))
    /\ Cardinality(Ended(n)) <= CacheSize =>
         \A r \in Ended(n) : received[r] <= 1 /\ (received[r] > 0 => r \in Completed(n))

\* A payload is handed to the application with no hole in it: with the part that
\* has just come (the packet that left net), the assembly holds them all, however
\* often parts were repeated or an advertisement started it over (handle_part).
HandedOverWhole ==
    [][\A r \in Res \ Small : received'[r] # received[r] =>
         \A p \in net \ net' : asm[r].got \cup {p.index} = Index(r)]_vars

\* The sender takes a transfer for completed only if the receiver's application
\* was given the payload, or a peer had cancelled it: repeated advertisements,
\* late proofs and a receiver that gave up in between change nothing.
CompletedIsReceived ==
    \A r \in outgoing :
        snd[r].status = "Completed" => received[r] > 0 \/ r \in cancelled

\* The application is given a payload at most once, however often it is
\* advertised, repeated or sent again: the completed cache remembers it, as long
\* as no more transfers have ended at the node than the cache holds.
ReceivedOnce ==
    \A n \in Node : Cardinality(Ended(n)) <= CacheSize =>
        \A r \in Res \ Small : Receiver(r) = n => received[r] <= 1

\* The inductive invariant: types, packets that say nothing false, an assembly
\* that counts the parts it holds, a completed cache that is sound and holds no
\* transfer still under way, and a receipt that is open exactly while pending.
ResourceInv ==
    /\ TypeOK
    /\ DOMAIN completed = Node
    /\ \A p \in net \cup actions : WellFormed(p)
    /\ \A r \in Res : asm[r].count = Cardinality(asm[r].got)
    /\ \A r \in Res : snd[r].status = "Completed" => Settled(r)
    /\ \A n \in Node : CacheSound(n)
    /\ \A r \in incoming : r \notin Completed(Receiver(r))
    /\ \A q \in Request : q \in pending <=> receipt[q].status \in Open

\* A receipt is final: a late response, proof, cancel or timeout never moves a
\* request that is Ready or Failed (RequestTracker drops it from pending).
ReceiptFinal ==
    [][\A q \in Request : receipt[q].status \in Concluded
                            => receipt'[q].status = receipt[q].status]_vars

\* Once the applications stop calling, every transfer leaves both nodes and
\* every request is concluded, whatever the link loses: retries are bounded, and
\* a repeated advertisement cannot keep an assembly alive for ever.
Drains == []<>(outgoing = {} /\ incoming = {} /\ pending = {})
=============================================================================
