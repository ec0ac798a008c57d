------------------------ MODULE PropagationTransfer ------------------------
(***************************************************************************)
(* Downloading one's messages from a propagation node: the PR_* state      *)
(* machine of LxmfRouter and the LinkTracker it depends on                 *)
(* (lxmf-rs/src/rns/router.rs).  The calls come from four places that know *)
(* nothing of each other: the application (request, cancel, acknowledge),  *)
(* the event loop (path requests, path and link events, the path poll),    *)
(* the announce handler (the directory of known nodes) and tick().         *)
(*                                                                         *)
(* Clocks are kept relative to now: the path timeout as the seconds left,  *)
(* the last activity of a link as its idle time, capped one above the      *)
(* limit that clean_links compares it with.  propagation_transfer_progress *)
(* and _last_result are only ever reported, and are left out.              *)
(***************************************************************************)
EXTENDS Integers, Sequences, FiniteSets

CONSTANTS Nodes,        \* destination hashes of propagation nodes
          Identities,   \* identities messages are asked for
          Limits,       \* max_messages of a request
          Links,        \* link ids
          PathTimeout,  \* PR_PATH_TIMEOUT
          LinkIdle,     \* LINK_MAX_INACTIVITY
          PLinkIdle,    \* P_LINK_MAX_INACTIVITY
          MaxRequests,  \* bound: requests the application makes
          None

ASSUME BoundsAssumption == PathTimeout \in Nat /\ LinkIdle \in Nat /\ PLinkIdle \in Nat
                          /\ MaxRequests \in Nat
ASSUME NoneAssumption == None \notin Nodes \cup Identities \cup Limits \cup Links
                                     \cup Nat
ASSUME NoneIsNoLink == None \notin [id : Links, closed : BOOLEAN]

VARIABLES
    node,          \* outbound_propagation_node
    link,          \* outbound_propagation_link: [id, closed], or None
    state,         \* propagation_transfer_state
    limit,         \* propagation_transfer_max_messages
    from, to,      \* wants_download_on_path_available_from, _to
    left,          \* wants_download_on_path_available_timeout, in seconds from now
    requests,      \* pn_message_requests
    paths,         \* pn_path_requests
    directory,     \* nodes with an entry in pn_directory
    direct,        \* direct_links: address hash -> idle time
    active,        \* active_propagation_links: link id -> idle time
    validated,     \* validated_peer_links
    asked,         \* history: requests the application made of a set node
    handed         \* history: requests given to the event loop

wants == <<from, to, left>>
tracker == <<direct, active, validated>>
vars == <<node, link, state, limit, wants, requests, paths, directory, tracker,
          asked, handed>>

PR_IDLE == 0
PR_PATH_REQUESTED == 1
PR_LINK_ESTABLISHING == 2
PR_LINK_ESTABLISHED == 3
PR_REQUEST_SENT == 4
PR_RECEIVING == 5
PR_RESPONSE_RECEIVED == 6
PR_COMPLETE == 7
PR_NO_PATH == 240
PR_LINK_FAILED == 241
PR_TRANSFER_FAILED == 242

Failures == {PR_NO_PATH, PR_LINK_FAILED, PR_TRANSFER_FAILED}
States == PR_IDLE..PR_COMPLETE \cup Failures
Request == [node : Nodes, identity : Identities, limit : Limits \cup {None}]

Init ==
    /\ node = None /\ link = None /\ state = PR_IDLE /\ limit = None
    /\ from = None /\ to = None /\ left = None
    /\ requests = <<>> /\ paths = <<>> /\ directory = {}
    /\ direct = [h \in {} |-> 0] /\ active = [l \in {} |-> 0] /\ validated = {}
    /\ asked = 0 /\ handed = 0

-----------------------------------------------------------------------------
(* Called by the application.                                              *)

\* A change of node drops the link to the old one; the transfer, a path being
\* waited for and the requests already queued stay as they are.
set_outbound_propagation_node(n) ==
    /\ node # n
    /\ node' = n
    /\ link' = IF link # None /\ (n = None \/ link.id # n) THEN None ELSE link
    /\ UNCHANGED <<state, limit, wants, requests, paths, directory, tracker,
                   asked, handed>>

LinkActive == link # None /\ ~link.closed

\* Faulty variant: the wait gets no deadline.
establish_no_deadline(i) ==
    IF node \in directory
    THEN /\ from' = None /\ UNCHANGED <<to, left, paths>>
         /\ state' = PR_LINK_ESTABLISHING
         /\ requests' = Append(requests, [node |-> node, identity |-> i, limit |-> limit'])
    ELSE /\ from' = node /\ to' = i /\ UNCHANGED left
         /\ state' = PR_PATH_REQUESTED
         /\ paths' = Append(paths, node)
         /\ UNCHANGED requests

\* _establish_propagation_link_for_request, after limit has been set.
establish_propagation_link_for_request(i) ==
    IF node \in directory
    THEN /\ from' = None /\ UNCHANGED <<to, left, paths>>
         /\ state' = PR_LINK_ESTABLISHING
         /\ requests' = Append(requests, [node |-> node, identity |-> i, limit |-> limit'])
    ELSE /\ from' = node /\ to' = i /\ left' = PathTimeout
         /\ state' = PR_PATH_REQUESTED
         /\ paths' = Append(paths, node)
         /\ UNCHANGED requests

\* Without a node only the limit is remembered; over an active link the
\* request is queued at once; otherwise a link or a path is needed first.
request_messages_from_propagation_node(i, max) ==
    /\ asked < MaxRequests
    /\ limit' = max
    /\ \/ /\ node = None
          /\ UNCHANGED <<state, wants, requests, paths, asked>>
       \/ /\ node # None /\ LinkActive
          /\ requests' = Append(requests, [node |-> node, identity |-> i, limit |-> max])
          /\ state' = PR_REQUEST_SENT
          /\ asked' = asked + 1
          /\ UNCHANGED <<wants, paths>>
       \/ /\ node # None /\ ~LinkActive
          /\ establish_propagation_link_for_request(i)
          /\ asked' = asked + 1
    /\ UNCHANGED <<node, link, directory, tracker, handed>>

\* Faulty variant: the path waited for is not forgotten.
acknowledge_path_kept(reset, failure) ==
    /\ state' = IF reset \/ state <= PR_COMPLETE THEN failure ELSE state
    /\ UNCHANGED <<from, to, left>>

\* failure is PR_IDLE where the code passes None.
acknowledge_sync_completion(reset, failure) ==
    /\ state' = IF reset \/ state <= PR_COMPLETE THEN failure ELSE state
    /\ from' = None /\ to' = None /\ left' = None

cancel_propagation_node_requests ==
    /\ link' = None
    /\ acknowledge_sync_completion(TRUE, PR_IDLE)
    /\ limit' = None
    /\ UNCHANGED <<node, requests, paths, directory, tracker, asked, handed>>

\* The application has seen how the transfer ended.
acknowledge ==
    /\ \E reset \in BOOLEAN : acknowledge_sync_completion(reset, PR_IDLE)
    /\ UNCHANGED <<node, link, limit, requests, paths, directory, tracker, asked,
                   handed>>

get_outbound_propagation_cost ==
    /\ node # None /\ node \notin directory
    /\ \A k \in DOMAIN paths : paths[k] # node
    /\ paths' = Append(paths, node)
    /\ UNCHANGED <<node, link, state, limit, wants, requests, directory, tracker,
                   asked, handed>>

-----------------------------------------------------------------------------
(* Called by the event loop and the announce handler.                      *)

process_pn_message_requests ==
    /\ requests # <<>>
    /\ requests' = <<>>
    /\ handed' = handed + Len(requests)
    /\ UNCHANGED <<node, link, state, limit, wants, paths, directory, tracker, asked>>

pop_pn_path_request ==
    /\ paths # <<>>
    /\ paths' = Tail(paths)
    /\ UNCHANGED <<node, link, state, limit, wants, requests, directory, tracker,
                   asked, handed>>

\* pn_directory_mut().upsert_announce: a node's announce was heard.
upsert_announce(n) ==
    /\ n \notin directory
    /\ directory' = directory \cup {n}
    /\ UNCHANGED <<node, link, state, limit, wants, requests, paths, tracker, asked,
                   handed>>

\* Faulty variant: the wait is left open for the next notification.
PathFound_wait_kept(n) ==
    IF from = n /\ to # None
    THEN /\ state' = PR_LINK_ESTABLISHING
         /\ requests' = Append(requests, [node |-> n, identity |-> to, limit |-> limit])
         /\ UNCHANGED from
    ELSE UNCHANGED <<from, state, requests>>

\* The body of on_pn_path_available; to and left keep their values.
PathFound(n) ==
    IF from = n /\ to # None
    THEN /\ from' = None
         /\ state' = PR_LINK_ESTABLISHING
         /\ requests' = Append(requests, [node |-> n, identity |-> to, limit |-> limit])
    ELSE UNCHANGED <<from, state, requests>>

on_pn_path_available(n) ==
    /\ PathFound(n)
    /\ UNCHANGED <<node, link, limit, to, left, paths, directory, tracker, asked,
                   handed>>

\* Faulty variant: a known path hides the timeout, an unknown one waits on.
poll_path_never_times_out ==
    /\ from # None /\ left # None
    /\ from \in directory /\ to # None
    /\ PathFound(from) /\ UNCHANGED <<to, left>>
    /\ UNCHANGED <<node, link, limit, paths, directory, tracker, asked, handed>>

\* The timeout is looked at first: a path that arrives with it comes too late.
poll_path_request_timeout ==
    /\ from # None /\ left # None
    /\ \/ /\ left = 0
          /\ acknowledge_sync_completion(FALSE, PR_NO_PATH)
          /\ UNCHANGED requests
       \/ /\ left > 0 /\ from \in directory /\ to # None
          /\ PathFound(from) /\ UNCHANGED <<to, left>>
    /\ UNCHANGED <<node, link, limit, paths, directory, tracker, asked, handed>>

\* External: the event loop reports a link to the node, and how far the
\* transfer over it has come (set_propagation_transfer_state).
set_outbound_propagation_link(l) ==
    /\ ~LinkActive
    /\ link' = [id |-> l, closed |-> FALSE]
    /\ UNCHANGED <<node, state, limit, wants, requests, paths, directory, tracker,
                   asked, handed>>

set_propagation_transfer_state(s) ==
    /\ LinkActive
    /\ PR_LINK_ESTABLISHING <= state /\ state < s /\ s <= PR_COMPLETE
    /\ state' = s
    /\ UNCHANGED <<node, link, limit, wants, requests, paths, directory, tracker,
                   asked, handed>>

-----------------------------------------------------------------------------
(* The link tracker.                                                       *)

With(f, x, v) == [y \in DOMAIN f \cup {x} |-> IF y = x THEN v ELSE f[y]]
Without(f, S) == [y \in DOMAIN f \ S |-> f[y]]

\* update_link_activity of a key that may be in neither table.
Touch(f, x) == IF x \in DOMAIN f THEN With(f, x, 0) ELSE f

\* LinkEvent::Data on link l with destination h.
link_data(l, h) ==
    /\ direct' = Touch(Touch(direct, l), h)
    /\ active' = Touch(Touch(active, l), h)
    /\ UNCHANGED <<node, link, state, limit, wants, requests, paths, directory,
                   validated, asked, handed>>

\* LinkEvent::Activated is recorded as a direct link to h, whatever it is for.
link_activated(h) ==
    /\ direct' = With(direct, h, 0)
    /\ active' = IF h \in DOMAIN direct THEN Touch(active, h) ELSE active
    /\ UNCHANGED <<node, link, state, limit, wants, requests, paths, directory,
                   validated, asked, handed>>

\* LinkEvent::Closed, or mark_outbound_propagation_link_closed.  The flag of
\* an active propagation link is never read.
link_closed(l) ==
    /\ LinkActive /\ link.id = l
    /\ link' = [link EXCEPT !.closed = TRUE]
    /\ UNCHANGED <<node, state, limit, wants, requests, paths, directory, tracker,
                   asked, handed>>

\* External: a link that came in for propagation, or a direct link whose
\* peer has been validated.
add_propagation_link(l) ==
    /\ l \notin DOMAIN active
    /\ active' = With(active, l, 0)
    /\ UNCHANGED <<node, link, state, limit, wants, requests, paths, directory,
                   direct, validated, asked, handed>>

add_validated_peer_link(h) ==
    /\ h \in DOMAIN direct
    /\ validated' = validated \cup {h}
    /\ UNCHANGED <<node, link, state, limit, wants, requests, paths, directory,
                   direct, active, asked, handed>>

\* How a transfer ends when its link is found closed.
ClosedResult ==
    CASE state = PR_COMPLETE -> PR_IDLE
      [] state < PR_LINK_ESTABLISHED -> PR_LINK_FAILED
      [] state >= PR_LINK_ESTABLISHED /\ state < PR_COMPLETE -> PR_TRANSFER_FAILED
      [] OTHER -> PR_IDLE

IdleLinks == {h \in DOMAIN direct : direct[h] > LinkIdle}

\* Faulty variant: the transfer is not told that its link is gone.
clean_links_link_dropped_silently ==
    /\ direct' = Without(direct, IdleLinks)
    /\ validated' = validated \ IdleLinks
    /\ active' = Without(active, {l \in DOMAIN active : active[l] > PLinkIdle})
    /\ link' = IF link # None /\ link.closed THEN None ELSE link
    /\ UNCHANGED <<state, wants, node, limit, requests, paths, directory, asked, handed>>

\* Run by every tick().
clean_links ==
    /\ direct' = Without(direct, IdleLinks)
    /\ validated' = validated \ IdleLinks
    /\ active' = Without(active, {l \in DOMAIN active : active[l] > PLinkIdle})
    /\ IF link # None /\ link.closed
       THEN link' = None /\ acknowledge_sync_completion(FALSE, ClosedResult)
       ELSE UNCHANGED <<link, state, wants>>
    /\ UNCHANGED <<node, limit, requests, paths, directory, asked, handed>>

\* A second passes.
Older(f, max) == [x \in DOMAIN f |-> IF f[x] > max THEN f[x] ELSE f[x] + 1]

pass_time ==
    /\ left' = IF left = None \/ left = 0 THEN left ELSE left - 1
    /\ direct' = Older(direct, LinkIdle)
    /\ active' = Older(active, PLinkIdle)
    /\ UNCHANGED <<node, link, state, limit, from, to, requests, paths, directory,
                   validated, asked, handed>>

-----------------------------------------------------------------------------
Application ==
    \/ \E n \in Nodes \cup {None} : set_outbound_propagation_node(n)
    \/ \E i \in Identities, max \in Limits : request_messages_from_propagation_node(i, max)
    \/ cancel_propagation_node_requests
    \/ acknowledge
    \/ get_outbound_propagation_cost

Events ==
    \/ process_pn_message_requests
    \/ pop_pn_path_request
    \/ \E n \in Nodes : upsert_announce(n) \/ on_pn_path_available(n)
    \/ \E l \in Links : \/ set_outbound_propagation_link(l)
                        \/ link_closed(l)
                        \/ add_propagation_link(l)
                        \/ \E h \in Nodes : link_data(l, h)
    \/ \E h \in Nodes : link_activated(h) \/ add_validated_peer_link(h)
    \/ \E s \in States : set_propagation_transfer_state(s)

Next == Application \/ Events \/ poll_path_request_timeout \/ clean_links \/ pass_time

Spec == Init /\ [][Next]_vars

\* The event loop polls the path wait, tick() cleans links, time passes.
LoopSpec == Spec /\ WF_vars(poll_path_request_timeout) /\ WF_vars(clean_links)
                 /\ WF_vars(pass_time)

\* What the crate itself does: tick() does not poll the path wait, and no code
\* of the crate calls set_outbound_propagation_link.
CrateNext ==
    \/ Application \/ clean_links \/ pass_time
    \/ process_pn_message_requests \/ pop_pn_path_request
    \/ \E n \in Nodes : upsert_announce(n) \/ link_activated(n)

CrateSpec ==
    /\ Init /\ [][CrateNext]_vars
    /\ WF_vars(clean_links) /\ WF_vars(pass_time)
    /\ WF_vars(process_pn_message_requests) /\ WF_vars(pop_pn_path_request)
    /\ \A n \in Nodes : WF_vars(link_activated(n))

-----------------------------------------------------------------------------
(* Properties.                                                             *)

TypeOK ==
    /\ node \in Nodes \cup {None}
    /\ link \in [id : Links, closed : BOOLEAN] \cup {None}
    /\ state \in States
    /\ limit \in Limits \cup {None}
    /\ from \in Nodes \cup {None} /\ to \in Identities \cup {None}
    /\ left \in 0..PathTimeout \cup {None}
    /\ requests \in Seq(Request) /\ paths \in Seq(Nodes)
    /\ directory \subseteq Nodes
    /\ DOMAIN direct \subseteq Nodes /\ \A h \in DOMAIN direct : direct[h] \in Nat
    /\ DOMAIN active \subseteq Links /\ \A l \in DOMAIN active : active[l] \in Nat
    /\ validated \subseteq Nodes
    /\ asked \in 0..MaxRequests /\ handed \in Nat

\* A queued request carries the limit of a request that was made, never the
\* one that a cancel has cleared.
LimitKnown ==
    /\ \A k \in DOMAIN requests : requests[k].limit # None
    /\ from # None => limit # None

\* A validated peer link is a link that is tracked: clean_links drops the
\* validation together with the idle link, so that the next link to the same
\* peer starts unvalidated.
ValidatedTracked == validated \subseteq DOMAIN direct

\* Types, and whatever waits has all it needs: a wait for a path an identity and
\* a deadline, a request its limit, a validated peer its link, although cancel,
\* path events and clean_links clear these at different moments.
TransferInv ==
    /\ TypeOK
    /\ from # None => to # None /\ left # None
    /\ state = PR_PATH_REQUESTED => from # None
    /\ LimitKnown
    /\ ValidatedTracked

\* A transfer that has been reported over (idle or failed) waits for no path
\* any more: a path that turns up after the timeout, the loss of the link or a
\* cancel does not start a download nobody asks for
\* (acknowledge_sync_completion against on_pn_path_available).
QuietWhenOver == state \in Failures \cup {PR_IDLE} => from = None

\* One call of request_messages_from_propagation_node leads to at most one
\* request on the wire, although both the path notification and the path poll
\* may answer the wait.
OneRequestEach ==
    handed + Len(requests) + (IF from = None THEN 0 ELSE 1) <= asked

\* Conjoined, an inductive invariant.
TransferIInv == TransferInv /\ QuietWhenOver /\ OneRequestEach

InProgress == state \in PR_PATH_REQUESTED..PR_RESPONSE_RECEIVED

\* The outbound link is never dropped from under a transfer that goes on being
\* reported in progress, unless the application chose another node.
LinkLossReported ==
    [][link # None /\ link' = None /\ InProgress' => node' # node]_vars

\* Liveness: a wait for a path ends, with the path or with PR_NO_PATH.
PathWaitEnds == state = PR_PATH_REQUESTED ~> state # PR_PATH_REQUESTED

=============================================================================
