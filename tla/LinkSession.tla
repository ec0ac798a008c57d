---------------------------- MODULE LinkSession ----------------------------
(***************************************************************************)
(* Links of the reticulum transport: one node opens links to a destination *)
(* of another (Transport::link, out_links), the other accepts them         *)
(* (in_links).  Requests, proofs, data and keep-alives travel over a       *)
(* medium that loses, delays and reorders them; each node checks its links *)
(* once a second and sends keep-alives every few seconds.                  *)
(***************************************************************************)
EXTENDS Naturals, FiniteSets

CONSTANTS
    Caller,        \* tasks that call Transport::link, and the link object each
                   \* call creates: its keys, and so its id, are its own
    Key,           \* keys of accepting links; one not in use is fresh
    RepeatAfter,   \* INTERVAL_OUTPUT_LINK_REPEAT
    CleanupAfter,  \* INTERVAL_INPUT_LINK_CLEANUP
    RestartAfter,  \* INTERVAL_OUTPUT_LINK_RESTART
    Capacity       \* bound on the packets on the way; one more is dropped

Link == Caller
NoLink == "no link"
NoKey == "no key"

ASSUME LinkAssumption ==
    /\ {RepeatAfter, CleanupAfter, RestartAfter, Capacity} \subseteq Nat
    /\ RepeatAfter <= RestartAfter
    /\ NoLink \notin Link
    /\ NoKey \notin Key

VARIABLES
    link,      \* Link objects of the opening node
    tracked,   \* out_links[destination]
    caller,    \* where each call of Transport::link stands
    accepted,  \* in_links of the accepting node
    inlink,    \* Link objects of the accepting node
    net        \* packets on the way

vars == <<link, tracked, caller, accepted, inlink, net>>

LinkRequest(o) == [type |-> "request", id |-> o]
LinkProof(o, k) == [type |-> "proof", id |-> o, key |-> k]
\* Data of any context, LinkRTT included, encrypted with the sender's key.
Data(o, k, to) == [type |-> "data", id |-> o, key |-> k, to |-> to]
create_rtt(o, k) == Data(o, k, "acceptor")
KeepAlive(o) == [type |-> "0xFF", id |-> o]
KeepAliveAnswer(o) == [type |-> "0xFE", id |-> o]

Packet ==
    [type : {"request", "0xFF", "0xFE"}, id : Link]
      \cup [type : {"proof"}, id : Link, key : Key]
      \cup [type : {"data"}, id : Link, key : Key, to : {"opener", "acceptor"}]

\* The medium after packet p is sent into it.
With(medium, p) ==
    IF Cardinality(medium) < Capacity THEN medium \cup {p} ELSE medium

Init ==
    /\ link = [o \in Link |-> [status |-> "new", key |-> NoKey, age |-> 0]]
    /\ tracked = NoLink
    /\ caller = [c \in Caller |-> [at |-> "idle", link |-> NoLink]]
    /\ accepted = {}
    /\ inlink = [o \in Link |-> [key |-> NoKey, age |-> 0]]
    /\ net = {}

(***************************************************************************)
(* Transport::link.  The handler is locked three times: to look the        *)
(* destination up, to send the request, and to insert the link; other      *)
(* calls and packets come in between.                                      *)
(***************************************************************************)
\* The key and the age of an object that is not tracked are never read again.
Forgotten(o) ==
    IF o = NoLink THEN link ELSE [link EXCEPT ![o].key = NoKey, ![o].age = 0]

link_lookup(c) ==
    /\ caller[c].at = "idle"
    /\ caller' = [caller EXCEPT ![c] =
                    IF tracked # NoLink /\ link[tracked].status # "Closed"
                      THEN [at |-> "has", link |-> tracked]
                      ELSE [at |-> "opening", link |-> NoLink]]
    /\ UNCHANGED <<link, tracked, accepted, inlink, net>>

link_request(c) ==
    /\ caller[c].at = "opening"
    /\ link' = [link EXCEPT ![c].status = "Pending", ![c].age = 0]
    /\ caller' = [caller EXCEPT ![c] = [at |-> "requested", link |-> c]]
    /\ net' = With(net, LinkRequest(c))
    /\ UNCHANGED <<tracked, accepted, inlink>>

\* A link that another call has inserted meanwhile is no longer tracked.
link_insert(c) ==
    /\ caller[c].at = "requested"
    /\ tracked' = c
    /\ link' = Forgotten(tracked)
    /\ caller' = [caller EXCEPT ![c].at = "has"]
    /\ UNCHANGED <<accepted, inlink, net>>

\* The application closes the link it was given.
close(c) ==
    /\ caller[c].at = "has"
    /\ link' = [link EXCEPT ![caller[c].link].status = "Closed"]
    /\ caller' = [caller EXCEPT ![c].at = "done"]
    /\ UNCHANGED <<tracked, accepted, inlink, net>>

(***************************************************************************)
(* Packets.                                                                *)
(***************************************************************************)
Receive(p) == p \in net /\ net' = net \ {p}

\* Only the tracked link of the opening node is ever looked at again.
InUse(k) ==
    \/ tracked # NoLink /\ link[tracked].key = k
    \/ \E o \in Link : inlink[o].key = k
    \/ \E p \in net : p.type \in {"proof", "data"} /\ p.key = k

\* A request whose id is already accepted is ignored: its proof is not sent
\* again.
handle_link_request(p) ==
    /\ p.type = "request"
    /\ p \in net
    /\ IF p.id \in accepted
         THEN Receive(p) /\ UNCHANGED <<accepted, inlink>>
         ELSE LET k == CHOOSE x \in Key : ~InUse(x) IN
                /\ \E x \in Key : ~InUse(x)
                /\ accepted' = accepted \cup {p.id}
                /\ inlink' = [inlink EXCEPT ![p.id] = [key |-> k, age |-> 0]]
                /\ net' = With(net \ {p}, LinkProof(p.id, k))
    /\ UNCHANGED <<link, tracked, caller>>

\* A link that has been proved: both ends derive the same key.
handshake(l, k) == [l EXCEPT !.status = "Active", !.key = k]

\* Faulty variant of handle_proof: the key of the proof is not derived.
handle_proof_keyless(p) ==
    LET o == p.id IN
    /\ p.type = "proof"
    /\ p \in net
    /\ IF tracked = o /\ link[o].status = "Pending"
         THEN /\ link' = [link EXCEPT ![o].status = "Active"]
              /\ net' = With(net \ {p}, create_rtt(o, p.key))
         ELSE Receive(p) /\ UNCHANGED link
    /\ UNCHANGED <<tracked, caller, accepted, inlink>>

\* Faulty variant of handle_proof: an Active link takes a proof too.
handle_proof_again(p) ==
    LET o == p.id IN
    /\ p.type = "proof"
    /\ p \in net
    /\ IF tracked = o /\ link[o].status \in {"Pending", "Active"}
         THEN /\ link' = [link EXCEPT ![o] = handshake(@, p.key)]
              /\ net' = With(net \ {p}, create_rtt(o, p.key))
         ELSE Receive(p) /\ UNCHANGED link
    /\ UNCHANGED <<tracked, caller, accepted, inlink>>

\* Only a tracked link that is Pending takes a proof, and answers it with its
\* round-trip time.
handle_proof(p) ==
    LET o == p.id IN
    /\ p.type = "proof"
    /\ p \in net
    /\ IF tracked = o /\ link[o].status = "Pending"
         THEN /\ link' = [link EXCEPT ![o] = handshake(@, p.key)]
              /\ net' = With(net \ {p}, create_rtt(o, p.key))
         ELSE Receive(p) /\ UNCHANGED link
    /\ UNCHANGED <<tracked, caller, accepted, inlink>>

\* Data the key opens renews the link, whatever its status.
handle_data_packet(p) ==
    LET o == p.id IN
    /\ p.type = "data"
    /\ Receive(p)
    /\ inlink' = IF p.to = "acceptor" /\ o \in accepted /\ inlink[o].key = p.key
                   THEN [inlink EXCEPT ![o].age = 0] ELSE inlink
    /\ link' = IF p.to = "opener" /\ tracked = o /\ link[o].key = p.key
                 THEN [link EXCEPT ![o].age = 0] ELSE link
    /\ UNCHANGED <<tracked, caller, accepted>>

\* Keep-alives are not encrypted: they renew a link whatever its key.
handle_keep_alive(p) ==
    LET o == p.id IN
    /\ p \in net
    /\ \/ /\ p.type = "0xFF"
          /\ IF o \in accepted
               THEN /\ inlink' = [inlink EXCEPT ![o].age = 0]
                    /\ net' = With(net \ {p}, KeepAliveAnswer(o))
               ELSE Receive(p) /\ UNCHANGED inlink
          /\ UNCHANGED link
       \/ /\ p.type = "0xFE"
          /\ Receive(p)
          /\ link' = IF tracked = o THEN [link EXCEPT ![o].age = 0] ELSE link
          /\ UNCHANGED inlink
    /\ UNCHANGED <<tracked, caller, accepted>>

\* send_to_out_links_with_context and send_to_in_links: over Active links.
send_data ==
    /\ \E o \in Link :
         \/ /\ tracked = o
            /\ link[o].status = "Active"
            /\ net' = With(net, Data(o, link[o].key, "acceptor"))
         \/ /\ o \in accepted
            /\ net' = With(net, Data(o, inlink[o].key, "opener"))
    /\ UNCHANGED <<link, tracked, caller, accepted, inlink>>

Lose ==
    /\ \E p \in net : Receive(p)
    /\ UNCHANGED <<link, tracked, caller, accepted, inlink>>

(***************************************************************************)
(* The periodic tasks of manage_transport.                                 *)
(***************************************************************************)
\* Faulty variant of check_in_links: closed, but kept in in_links.
check_in_links_kept ==
    LET silent == {o \in accepted : inlink[o].age > CleanupAfter} IN
    /\ silent # {}
    /\ inlink' = [o \in Link |-> IF o \in silent THEN [inlink[o] EXCEPT !.age = 0]
                                 ELSE inlink[o]]
    /\ UNCHANGED <<link, tracked, caller, accepted, net>>

\* handle_check_links at the accepting node: silent links are closed.
check_in_links ==
    LET silent == {o \in accepted : inlink[o].age > CleanupAfter} IN
    /\ silent # {}
    /\ accepted' = accepted \ silent
    /\ inlink' = [o \in Link |-> IF o \in silent THEN [key |-> NoKey, age |-> 0]
                                 ELSE inlink[o]]
    /\ UNCHANGED <<link, tracked, caller, net>>

\* Faulty variant of check_out_links: a request is not repeated.
check_out_links_once ==
    LET o == tracked
        silent == link[o].status = "Active" /\ link[o].age > RestartAfter IN
    /\ o # NoLink
    /\ \/ /\ link[o].status = "Closed"
          /\ tracked' = NoLink
          /\ link' = Forgotten(o)
          /\ UNCHANGED net
       \/ /\ silent
          /\ link' = [link EXCEPT ![o].status = "Pending", ![o].age = 0]
          /\ net' = With(net, LinkRequest(o))
          /\ UNCHANGED tracked
    /\ UNCHANGED <<caller, accepted, inlink>>

\* handle_check_links at the opening node: a closed link is forgotten, a silent
\* one starts over, one that waits for its proof repeats its request.
check_out_links ==
    LET o == tracked
        silent == link[o].status = "Active" /\ link[o].age > RestartAfter
        waiting == link[o].status = "Pending" /\ link[o].age > RepeatAfter
    IN
    /\ o # NoLink
    /\ \/ /\ link[o].status = "Closed"
          /\ tracked' = NoLink
          /\ link' = Forgotten(o)
          /\ UNCHANGED net
       \/ /\ silent \/ waiting
          /\ link' = [link EXCEPT ![o].status = "Pending", ![o].age = 0]
          /\ net' = With(net, LinkRequest(o))
          /\ UNCHANGED tracked
    /\ UNCHANGED <<caller, accepted, inlink>>

handle_keep_links ==
    /\ tracked # NoLink
    /\ link[tracked].status = "Active"
    /\ net' = With(net, KeepAlive(tracked))
    /\ UNCHANGED <<link, tracked, caller, accepted, inlink>>

\* No check tells apart ages past its threshold.
Older(age, threshold) == IF age <= threshold THEN age + 1 ELSE age

Tick ==
    /\ link' = [o \in Link |-> IF tracked = o
                  THEN [link[o] EXCEPT !.age = Older(@, RestartAfter)]
                  ELSE link[o]]
    /\ inlink' = [o \in Link |-> IF o \in accepted
                    THEN [inlink[o] EXCEPT !.age = Older(@, CleanupAfter)]
                    ELSE inlink[o]]
    /\ UNCHANGED <<tracked, caller, accepted, net>>

call(c) == link_lookup(c) \/ link_request(c) \/ link_insert(c)

Next ==
    \/ \E c \in Caller : call(c) \/ close(c)
    \/ \E p \in net : \/ handle_link_request(p) \/ handle_proof(p)
                      \/ handle_data_packet(p) \/ handle_keep_alive(p)
    \/ send_data
    \/ Lose
    \/ check_in_links
    \/ check_out_links
    \/ handle_keep_links
    \/ Tick

\* The tasks of both nodes keep running, time passes, a call that has begun goes
\* on.  The medium may lose any packet, but not all the requests, nor all the
\* proofs, of a link that keeps asking.
Fairness ==
    /\ WF_vars(\E c \in Caller : call(c))
    /\ SF_vars(\E p \in net : handle_link_request(p))
    /\ SF_vars(\E p \in net : handle_proof(p))
    /\ WF_vars(\E p \in net : handle_data_packet(p) \/ handle_keep_alive(p))
    /\ WF_vars(check_in_links)
    /\ WF_vars(check_out_links)
    /\ WF_vars(Tick)

Spec == Init /\ [][Next]_vars /\ Fairness

-----------------------------------------------------------------------------
Up(o) == tracked = o /\ link[o].status = "Active"

\* Type invariant; a link object has a key as soon as it has been proved, and a
\* caller holds an object from the moment its request is sent.
TypeOK ==
    /\ link \in [Link -> [status : {"new", "Pending", "Active", "Closed"},
                          key : Key \cup {NoKey}, age : 0 .. RestartAfter + 1]]
    /\ tracked \in Link \cup {NoLink}
    /\ caller \in [Caller -> [at : {"idle", "opening", "requested", "has", "done"},
                              link : Link \cup {NoLink}]]
    /\ accepted \subseteq Link
    /\ inlink \in [Link -> [key : Key \cup {NoKey}, age : 0 .. CleanupAfter + 1]]
    /\ net \subseteq Packet
    /\ \A o \in Link : Up(o) => link[o].key # NoKey
    /\ \A o \in accepted : inlink[o].key # NoKey
    /\ \A c \in Caller :
         caller[c].at \in {"requested", "has", "done"} => caller[c].link # NoLink

\* A call whose link is not inserted yet is the only one to know it: nobody else
\* can have it proved, closed or tracked between the three locks of
\* Transport::link.
OpeningAlone ==
    \A c \in Caller :
        /\ caller[c].at \in {"idle", "opening"} => link[c].status = "new"
        /\ caller[c].at = "requested" => link[c].status = "Pending"
        /\ caller[c].at \in {"idle", "opening", "requested"} =>
             tracked # c /\ \A d \in Caller \ {c} : caller[d].link # c

\* The inductive invariant: whatever is up or accepted has a key, a call past
\* its first lock has a link, and a link being opened is known to its call alone.
LinkInv == TypeOK /\ OpeningAlone

\* While a link stays Active its key does not change (a repeated or late proof
\* is ignored), and a link that was closed never comes back.
SessionKept ==
    [][\A o \in Link :
         /\ Up(o) /\ Up(o)' => link'[o].key = link[o].key
         /\ link[o].status = "Closed" => link'[o].status = "Closed"]_vars

\* A link that is tracked does not wait for its proof for ever: lost requests
\* are repeated, and a lost proof is made up for once the accepting node has
\* dropped its silent end.
LinkComesUp ==
    \A o \in Link : tracked = o /\ link[o].status = "Pending"
                      ~> tracked # o \/ link[o].status # "Pending"

\* The accepting node does not keep ends whose opener is gone (a link closed, or
\* one that lost the race of two calls and is not tracked).
AcceptedReclaimed ==
    \A o \in Link : o \in accepted /\ tracked # o
                      ~> o \notin accepted \/ tracked = o
=============================================================================
