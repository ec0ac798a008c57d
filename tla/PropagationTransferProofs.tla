-------------------- MODULE PropagationTransferProofs --------------------
(***************************************************************************)
(* The safety of a download from a propagation node, for any number of     *)
(* nodes, identities, links and requests and any timeouts.                 *)
(*                                                                         *)
(* TransferIInv is inductive as a whole and not in parts: that a late path *)
(* starts nothing (QuietWhenOver) and that no request is duplicated        *)
(* (OneRequestEach) rest on every wait having its identity and its limit.  *)
(***************************************************************************)
EXTENDS PropagationTransfer, TLAPS

\* The time the SMT solver may take at a leaf that names no other prover.
USE SMTT(60)

\* The transfer state machine, without the link tracker.
Machine == <<node, link, state, limit, from, to, left, requests, paths, directory,
             asked, handed>>

\* The part of the invariant that is about the transfer, and the part that is
\* about the link tracker.
TransferPart ==
    /\ node \in Nodes \cup {None}
    /\ link \in [id : Links, closed : BOOLEAN] \cup {None}
    /\ state \in States
    /\ limit \in Limits \cup {None}
    /\ from \in Nodes \cup {None} /\ to \in Identities \cup {None}
    /\ left \in 0..PathTimeout \cup {None}
    /\ requests \in Seq(Request) /\ paths \in Seq(Nodes)
    /\ directory \subseteq Nodes
    /\ asked \in 0..MaxRequests /\ handed \in Nat
    /\ from # None => to # None /\ left # None
    /\ state = PR_PATH_REQUESTED => from # None
    /\ QuietWhenOver /\ OneRequestEach /\ LimitKnown

TrackerPart ==
    /\ DOMAIN direct \subseteq Nodes /\ \A h \in DOMAIN direct : direct[h] \in Nat
    /\ DOMAIN active \subseteq Links /\ \A l \in DOMAIN active : active[l] \in Nat
    /\ validated \subseteq Nodes
    /\ ValidatedTracked

\* The two halves are the whole.
LEMMA Parts == TransferIInv <=> TransferPart /\ TrackerPart
  BY DEF TransferIInv, TransferInv, TypeOK, TransferPart, TrackerPart

-----------------------------------------------------------------------------
(* The steps of the transfer leave the tracker alone and the other way.    *)

\* A step that leaves the transfer alone keeps its half.
LEMMA MachineUntouched ==
    ASSUME TransferPart, UNCHANGED Machine
    PROVE  TransferPart'
  BY DEF TransferPart, Machine, QuietWhenOver, OneRequestEach, LimitKnown

\* A step that leaves the link tracker alone keeps its half.
LEMMA TrackerUntouched ==
    ASSUME TrackerPart, UNCHANGED tracker
    PROVE  TrackerPart'
  BY DEF TrackerPart, tracker, ValidatedTracked

\* A request that joins the queue keeps it well formed.
LEMMA Queued ==
    ASSUME NEW q \in Seq(Request), NEW r \in Request,
           \A k \in DOMAIN q : q[k].limit # None, r.limit # None
    PROVE  /\ Append(q, r) \in Seq(Request)
           /\ Len(Append(q, r)) = Len(q) + 1
           /\ \A k \in DOMAIN Append(q, r) : Append(q, r)[k].limit # None
  OBVIOUS

\* With keeps and Without and Older change no more than they say.
LEMMA Tables ==
    ASSUME NEW f, \A x \in DOMAIN f : f[x] \in Nat
    PROVE  /\ \A x : /\ DOMAIN With(f, x, 0) = DOMAIN f \cup {x}
                     /\ \A y \in DOMAIN With(f, x, 0) : With(f, x, 0)[y] \in Nat
           /\ \A x : /\ DOMAIN Touch(f, x) = DOMAIN f
                     /\ \A y \in DOMAIN Touch(f, x) : Touch(f, x)[y] \in Nat
           /\ \A R : /\ DOMAIN Without(f, R) = DOMAIN f \ R
                     /\ \A y \in DOMAIN Without(f, R) : Without(f, R)[y] \in Nat
           /\ \A n \in Nat : /\ DOMAIN Older(f, n) = DOMAIN f
                             /\ \A y \in DOMAIN Older(f, n) : Older(f, n)[y] \in Nat
  BY DEF With, Touch, Without, Older

-----------------------------------------------------------------------------
(* The actions.                                                            *)

\* acknowledge_sync_completion leaves nothing waited for.
LEMMA Acknowledged ==
    ASSUME TransferPart, NEW reset \in BOOLEAN,
           NEW failure \in Failures \cup {PR_IDLE},
           acknowledge_sync_completion(reset, failure),
           UNCHANGED <<node, requests, paths, directory, asked, handed>>,
           link' \in {link, None}, limit' \in {limit, None}
    PROVE  TransferPart'
  <1> USE DEF TransferPart, acknowledge_sync_completion
  <1>1. state' \in States /\ state' # PR_PATH_REQUESTED
    BY DEF States, Failures, PR_IDLE, PR_PATH_REQUESTED, PR_COMPLETE, PR_NO_PATH,
           PR_LINK_FAILED, PR_TRANSFER_FAILED, QuietWhenOver
  <1>2. (QuietWhenOver /\ LimitKnown)'
    BY DEF QuietWhenOver, LimitKnown
  <1>3. OneRequestEach'
    BY DEF OneRequestEach
  <1> QED BY <1>1, <1>2, <1>3

\* The body of on_pn_path_available, called with the limit in place.
LEMMA Found ==
    ASSUME TransferPart, NEW n \in Nodes, PathFound(n),
           UNCHANGED <<node, link, limit, to, left, paths, directory, asked, handed>>
    PROVE  TransferPart'
  <1>1. CASE from = n /\ to # None
    <2> DEFINE r == [node |-> n, identity |-> to, limit |-> limit]
    <2>1. /\ from' = None /\ state' = PR_LINK_ESTABLISHING
          /\ requests' = Append(requests, r)
          /\ from # None
      BY <1>1, NoneAssumption DEF PathFound
    <2>2. r \in Request /\ r.limit # None
      BY <2>1, <1>1 DEF TransferPart, Request, LimitKnown
    <2>3. /\ requests' \in Seq(Request)
          /\ Len(requests') = Len(requests) + 1
          /\ \A k \in DOMAIN requests' : requests'[k].limit # None
      BY <2>1, <2>2, Queued DEF TransferPart, LimitKnown
    <2>4. OneRequestEach'
      BY <2>1, <2>3 DEF OneRequestEach, TransferPart
    <2> QED
      BY <2>1, <2>3, <2>4 DEF TransferPart, QuietWhenOver, LimitKnown, States, Failures,
         PR_IDLE, PR_PATH_REQUESTED, PR_LINK_ESTABLISHING, PR_COMPLETE, PR_NO_PATH,
         PR_LINK_FAILED, PR_TRANSFER_FAILED
  <1>2. CASE ~(from = n /\ to # None)
    BY <1>2 DEF PathFound, TransferPart, QuietWhenOver, OneRequestEach, LimitKnown
  <1> QED BY <1>1, <1>2

\* A request of the application, in its three cases.
LEMMA Requested ==
    ASSUME TransferPart, NEW i \in Identities, NEW max \in Limits,
           request_messages_from_propagation_node(i, max)
    PROVE  TransferPart'
  <1> USE DEF request_messages_from_propagation_node
  <1> DEFINE r == [node |-> node, identity |-> i, limit |-> max]
  <1>1. limit' = max /\ max # None
    BY NoneAssumption
  <1>2. /\ UNCHANGED <<node, link, directory, handed>>
        /\ asked < MaxRequests
    OBVIOUS
  <1>3. CASE node = None
    <2>1. UNCHANGED <<state, from, to, left, requests, paths, asked>>
      BY <1>3 DEF wants
    <2> HIDE DEF request_messages_from_propagation_node
    <2> QED
      BY <1>1, <1>2, <2>1 DEF TransferPart, QuietWhenOver, OneRequestEach, LimitKnown
  <1>4. CASE /\ node # None /\ requests' = Append(requests, r)
             /\ asked' = asked + 1
             /\ state' \in {PR_REQUEST_SENT, PR_LINK_ESTABLISHING}
             /\ UNCHANGED <<to, left, paths>> /\ from' \in {from, None}
    <2>1. r \in Request /\ r.limit # None
      BY <1>4, <1>1 DEF TransferPart, Request
    <2>2. /\ requests' \in Seq(Request)
          /\ Len(requests') = Len(requests) + 1
          /\ \A k \in DOMAIN requests' : requests'[k].limit # None
      BY <1>4, <2>1, Queued DEF TransferPart, LimitKnown
    <2>3. OneRequestEach' /\ asked' \in 0..MaxRequests
      BY <1>2, <1>4, <2>2, BoundsAssumption DEF OneRequestEach, TransferPart
    <2> HIDE DEF request_messages_from_propagation_node
    <2> QED
      BY <1>1, <1>2, <1>4, <2>2, <2>3 DEF TransferPart, QuietWhenOver, LimitKnown,
         States, Failures, PR_IDLE, PR_PATH_REQUESTED, PR_LINK_ESTABLISHING,
         PR_REQUEST_SENT, PR_COMPLETE, PR_NO_PATH, PR_LINK_FAILED, PR_TRANSFER_FAILED
  <1>5. CASE /\ node # None /\ from' = node /\ to' = i /\ left' = PathTimeout
             /\ state' = PR_PATH_REQUESTED /\ paths' = Append(paths, node)
             /\ asked' = asked + 1 /\ UNCHANGED requests
    <2>1. OneRequestEach' /\ asked' \in 0..MaxRequests
      BY <1>2, <1>5, BoundsAssumption DEF OneRequestEach, TransferPart
    <2>2. from' \in Nodes /\ from' # None /\ paths' \in Seq(Nodes)
      BY <1>5 DEF TransferPart
    <2>3. /\ to' # None /\ left' # None /\ left' \in 0..PathTimeout
          /\ to' \in Identities
      BY <1>5, NoneAssumption, BoundsAssumption
    <2>4. (QuietWhenOver /\ LimitKnown)'
      BY <1>1, <1>5 DEF QuietWhenOver, LimitKnown, TransferPart, Failures, PR_IDLE,
         PR_PATH_REQUESTED, PR_NO_PATH, PR_LINK_FAILED, PR_TRANSFER_FAILED
    <2> HIDE DEF request_messages_from_propagation_node
    <2> QED
      BY <1>1, <1>2, <1>5, <2>1, <2>2, <2>3, <2>4 DEF TransferPart, States,
         PR_IDLE, PR_PATH_REQUESTED, PR_COMPLETE
  <1> QED
    BY <1>3, <1>4, <1>5, <1>1 DEF establish_propagation_link_for_request, wants

-----------------------------------------------------------------------------
(* The invariant.                                                          *)

\* A router as with_config builds it.
LEMMA InitInv == Init => TransferPart /\ TrackerPart
  <1> SUFFICES ASSUME Init PROVE TransferPart /\ TrackerPart
    OBVIOUS
  <1>1. TrackerPart
    BY DEF Init, TrackerPart, ValidatedTracked
  <1>2. requests \in Seq(Request) /\ paths \in Seq(Nodes) /\ Len(requests) = 0
    BY DEF Init
  <1>3. OneRequestEach /\ LimitKnown /\ QuietWhenOver
    BY <1>2 DEF Init, OneRequestEach, LimitKnown, QuietWhenOver
  <1> QED
    BY <1>1, <1>2, <1>3, BoundsAssumption DEF Init, TransferPart, States, PR_IDLE,
       PR_PATH_REQUESTED, PR_COMPLETE

\* The calls of the application: node, request, cancel, acknowledge, cost.
LEMMA ApplicationStep ==
    ASSUME TransferPart, TrackerPart, Application
    PROVE  TransferPart' /\ TrackerPart'
  <1>1. UNCHANGED tracker
    BY Zenon DEF Application, set_outbound_propagation_node,
       request_messages_from_propagation_node, cancel_propagation_node_requests,
       acknowledge, get_outbound_propagation_cost
  <1>2. TrackerPart'
    BY <1>1, TrackerUntouched
  <1>3. ASSUME NEW n \in Nodes \cup {None}, set_outbound_propagation_node(n)
        PROVE  TransferPart'
    <2>1. /\ node' \in Nodes \cup {None} /\ link' \in {link, None}
          /\ UNCHANGED <<state, limit, from, to, left, requests, paths, directory,
                         asked, handed>>
      BY <1>3 DEF set_outbound_propagation_node, wants
    <2> QED
      BY <2>1 DEF TransferPart, QuietWhenOver, OneRequestEach, LimitKnown
  <1>4. CASE cancel_propagation_node_requests
    <2>1. /\ acknowledge_sync_completion(TRUE, PR_IDLE)
          /\ link' \in {link, None} /\ limit' \in {limit, None}
          /\ UNCHANGED <<node, requests, paths, directory, asked, handed>>
      BY Zenon, <1>4 DEF cancel_propagation_node_requests
    <2>2. TRUE \in BOOLEAN /\ PR_IDLE \in Failures \cup {PR_IDLE}
      OBVIOUS
    <2> QED BY Zenon, <1>2, <2>1, <2>2, Acknowledged
  <1>5. CASE acknowledge
    <2>1. PICK reset \in BOOLEAN : acknowledge_sync_completion(reset, PR_IDLE)
      BY <1>5 DEF acknowledge
    <2>2. /\ link' \in {link, None} /\ limit' \in {limit, None}
          /\ UNCHANGED <<node, requests, paths, directory, asked, handed>>
      BY <1>5 DEF acknowledge
    <2>3. PR_IDLE \in Failures \cup {PR_IDLE}
      OBVIOUS
    <2> QED BY <1>2, <2>1, <2>2, <2>3, Acknowledged
  <1>6. CASE get_outbound_propagation_cost
    <2>1. /\ paths' = Append(paths, node) /\ node \in Nodes
          /\ UNCHANGED <<node, link, state, limit, from, to, left, requests, directory,
                         asked, handed>>
      BY <1>6 DEF get_outbound_propagation_cost, wants, TransferPart
    <2>2. paths' \in Seq(Nodes)
      BY <2>1 DEF TransferPart
    <2> QED
      BY <1>2, <2>1, <2>2 DEF TransferPart, QuietWhenOver, OneRequestEach, LimitKnown
  <1> QED BY <1>2, <1>3, <1>4, <1>5, <1>6, Requested DEF Application

\* Queues drained, paths and links that turn up or close.
LEMMA EventStep ==
    ASSUME TransferPart, TrackerPart, Events
    PROVE  TransferPart' /\ TrackerPart'
  <1>1. CASE process_pn_message_requests
    <2>1. /\ requests' = <<>> /\ handed' = handed + Len(requests)
          /\ UNCHANGED <<node, link, state, limit, from, to, left, paths, directory,
                         asked>>
          /\ UNCHANGED tracker
      BY <1>1 DEF process_pn_message_requests, wants
    <2>2. /\ requests' \in Seq(Request) /\ Len(requests') = 0
          /\ DOMAIN requests' = {} /\ Len(requests) \in Nat
      BY <2>1 DEF TransferPart
    <2>3. OneRequestEach' /\ handed' \in Nat
      BY <2>1, <2>2 DEF OneRequestEach, TransferPart
    <2>4. TransferPart'
      BY <2>1, <2>2, <2>3 DEF TransferPart, QuietWhenOver, LimitKnown
    <2> QED BY <2>1, <2>4, TrackerUntouched
  <1>2. CASE pop_pn_path_request
    <2>1. /\ paths # <<>> /\ paths' = Tail(paths)
          /\ UNCHANGED <<node, link, state, limit, from, to, left, requests, directory,
                         asked, handed>>
          /\ UNCHANGED tracker
      BY <1>2 DEF pop_pn_path_request, wants
    <2>2. paths' \in Seq(Nodes)
      BY <2>1 DEF TransferPart
    <2>3. TransferPart'
      BY <2>1, <2>2 DEF TransferPart, QuietWhenOver, OneRequestEach, LimitKnown
    <2> QED BY <2>1, <2>3, TrackerUntouched
  <1>3. ASSUME NEW n \in Nodes, upsert_announce(n)
        PROVE  TransferPart' /\ TrackerPart'
    <2>1. TransferPart'
      BY <1>3 DEF upsert_announce, wants, TransferPart, QuietWhenOver, OneRequestEach,
         LimitKnown
    <2> QED BY <1>3, <2>1, TrackerUntouched DEF upsert_announce
  <1>4. ASSUME NEW n \in Nodes, on_pn_path_available(n)
        PROVE  TransferPart' /\ TrackerPart'
    <2>1. /\ PathFound(n) /\ UNCHANGED tracker
          /\ UNCHANGED <<node, link, limit, to, left, paths, directory, asked, handed>>
      BY <1>4 DEF on_pn_path_available
    <2> QED BY <2>1, Found, TrackerUntouched
  <1>5. ASSUME NEW l \in Links, set_outbound_propagation_link(l) \/ link_closed(l)
        PROVE  TransferPart' /\ TrackerPart'
    <2>1. /\ UNCHANGED <<node, state, limit, from, to, left, requests, paths, directory,
                         asked, handed>>
          /\ UNCHANGED tracker
      BY <1>5 DEF set_outbound_propagation_link, link_closed, wants
    <2>3. link' \in [id : Links, closed : BOOLEAN]
      <3>1. CASE set_outbound_propagation_link(l)
        BY <3>1 DEF set_outbound_propagation_link
      <3>2. CASE link_closed(l)
        <4>1. link \in [id : Links, closed : BOOLEAN]
          BY <3>2 DEF link_closed, LinkActive, TransferPart
        <4> QED BY Zenon, <3>2, <4>1 DEF link_closed
      <3> QED BY <1>5, <3>1, <3>2
    <2>2. TransferPart'
      BY <2>1, <2>3 DEF TransferPart, QuietWhenOver, OneRequestEach, LimitKnown
    <2> QED BY <2>1, <2>2, TrackerUntouched
  <1>6. ASSUME NEW s \in States, set_propagation_transfer_state(s)
        PROVE  TransferPart' /\ TrackerPart'
    <2>1. /\ state' = s /\ PR_LINK_ESTABLISHING < s /\ s <= PR_COMPLETE
          /\ UNCHANGED <<node, link, limit, from, to, left, requests, paths, directory,
                         asked, handed>>
          /\ UNCHANGED tracker
      BY <1>6 DEF set_propagation_transfer_state, wants, States, Failures, TransferPart,
         PR_IDLE, PR_COMPLETE, PR_NO_PATH, PR_LINK_FAILED, PR_TRANSFER_FAILED,
         PR_LINK_ESTABLISHING
    <2>2. state' # PR_PATH_REQUESTED /\ state' \notin Failures \cup {PR_IDLE}
      BY <2>1 DEF States, Failures, PR_IDLE, PR_COMPLETE, PR_NO_PATH, PR_LINK_FAILED,
         PR_TRANSFER_FAILED, PR_LINK_ESTABLISHING, PR_PATH_REQUESTED
    <2>3. TransferPart'
      BY <2>1, <2>2 DEF TransferPart, QuietWhenOver, OneRequestEach, LimitKnown
    <2> QED BY <2>1, <2>3, TrackerUntouched
  <1>7. ASSUME NEW l \in Links, NEW h \in Nodes, link_data(l, h)
        PROVE  TransferPart' /\ TrackerPart'
    <2>1. /\ direct' = Touch(Touch(direct, l), h) /\ active' = Touch(Touch(active, l), h)
          /\ UNCHANGED Machine /\ UNCHANGED validated
      BY <1>7 DEF link_data, Machine, wants
    <2>2. /\ DOMAIN Touch(direct, l) = DOMAIN direct
          /\ \A y \in DOMAIN Touch(direct, l) : Touch(direct, l)[y] \in Nat
          /\ DOMAIN Touch(active, l) = DOMAIN active
          /\ \A y \in DOMAIN Touch(active, l) : Touch(active, l)[y] \in Nat
      BY Tables DEF TrackerPart
    <2>3. /\ DOMAIN direct' = DOMAIN direct /\ \A y \in DOMAIN direct' : direct'[y] \in Nat
          /\ DOMAIN active' = DOMAIN active /\ \A y \in DOMAIN active' : active'[y] \in Nat
      BY <2>1, <2>2, Tables DEF TrackerPart
    <2>4. TrackerPart'
      BY <2>1, <2>3 DEF TrackerPart, ValidatedTracked
    <2> QED BY <2>1, <2>4, MachineUntouched
  <1>8. ASSUME NEW h \in Nodes, link_activated(h)
        PROVE  TransferPart' /\ TrackerPart'
    <2>1. /\ direct' = With(direct, h, 0) /\ active' \in {active, Touch(active, h)}
          /\ UNCHANGED Machine /\ UNCHANGED validated
      BY <1>8 DEF link_activated, Machine, wants
    <2>2. /\ DOMAIN direct' = DOMAIN direct \cup {h}
          /\ \A y \in DOMAIN direct' : direct'[y] \in Nat
      BY Zenon, <2>1, Tables DEF TrackerPart
    <2>3. /\ DOMAIN active' = DOMAIN active
          /\ \A y \in DOMAIN active' : active'[y] \in Nat
      BY <2>1, Tables DEF TrackerPart
    <2>4. TrackerPart'
      BY <2>1, <2>2, <2>3 DEF TrackerPart, ValidatedTracked
    <2> QED BY <2>1, <2>4, MachineUntouched
  <1>9. ASSUME NEW l \in Links, add_propagation_link(l)
        PROVE  TransferPart' /\ TrackerPart'
    <2>1. /\ active' = With(active, l, 0)
          /\ UNCHANGED Machine /\ UNCHANGED <<direct, validated>>
      BY <1>9 DEF add_propagation_link, Machine, wants
    <2>2. /\ DOMAIN active' = DOMAIN active \cup {l}
          /\ \A y \in DOMAIN active' : active'[y] \in Nat
      BY Zenon, <2>1, Tables DEF TrackerPart
    <2>3. TrackerPart'
      BY <2>1, <2>2 DEF TrackerPart, ValidatedTracked
    <2> QED BY <2>1, <2>3, MachineUntouched
  <1>10. ASSUME NEW h \in Nodes, add_validated_peer_link(h)
         PROVE  TransferPart' /\ TrackerPart'
    <2>1. UNCHANGED Machine
      BY <1>10 DEF add_validated_peer_link, Machine, wants
    <2>2. TrackerPart'
      BY <1>10 DEF add_validated_peer_link, TrackerPart, ValidatedTracked
    <2> QED BY <2>1, <2>2, MachineUntouched
  <1> QED
    BY <1>1, <1>2, <1>3, <1>4, <1>5, <1>6, <1>7, <1>8, <1>9, <1>10 DEF Events

\* The poll of the wait for a path, timed out or found.
LEMMA PollStep ==
    ASSUME TransferPart, TrackerPart, poll_path_request_timeout
    PROVE  TransferPart' /\ TrackerPart'
  <1>1. /\ UNCHANGED <<node, link, limit, paths, directory, asked, handed>>
        /\ UNCHANGED tracker /\ from # None
    BY DEF poll_path_request_timeout
  <1>2. CASE acknowledge_sync_completion(FALSE, PR_NO_PATH) /\ UNCHANGED requests
    <2>1. FALSE \in BOOLEAN /\ PR_NO_PATH \in Failures \cup {PR_IDLE}
      BY DEF Failures
    <2> QED BY Zenon, <1>1, <1>2, <2>1, Acknowledged, TrackerUntouched
  <1>3. CASE PathFound(from) /\ UNCHANGED <<to, left>>
    <2>1. from \in Nodes
      BY <1>1 DEF TransferPart
    <2> QED BY <1>1, <1>3, <2>1, Found, TrackerUntouched
  <1> QED BY Zenon, <1>2, <1>3 DEF poll_path_request_timeout

\* clean_links: a closed link fails the transfer, idle links are dropped.
LEMMA CleanStep ==
    ASSUME TransferPart, TrackerPart, clean_links
    PROVE  TransferPart' /\ TrackerPart'
  <1>1. TransferPart'
    <2>1. UNCHANGED <<node, limit, requests, paths, directory, asked, handed>>
      BY DEF clean_links
    <2>2. CASE link # None /\ link.closed
      <3>1. link' = None /\ acknowledge_sync_completion(FALSE, ClosedResult)
        BY Zenon, <2>2 DEF clean_links
      <3>2. FALSE \in BOOLEAN /\ ClosedResult \in Failures \cup {PR_IDLE}
        BY DEF ClosedResult, Failures, TransferPart, States, PR_IDLE, PR_COMPLETE,
           PR_LINK_ESTABLISHED, PR_NO_PATH, PR_LINK_FAILED, PR_TRANSFER_FAILED
      <3> QED BY Zenon, <2>1, <3>1, <3>2, Acknowledged
    <2>3. CASE ~(link # None /\ link.closed)
      <3>1. UNCHANGED Machine
        BY Zenon, <2>1, <2>3 DEF clean_links, Machine, wants
      <3> QED BY <3>1, MachineUntouched
    <2> QED BY <2>2, <2>3
  <1>2. TrackerPart'
    <2> DEFINE D == IdleLinks
               A == {l \in DOMAIN active : active[l] > PLinkIdle}
    <2>1. /\ direct' = Without(direct, D) /\ active' = Without(active, A)
          /\ validated' = validated \ D
      BY DEF clean_links
    <2> HIDE DEF D, A
    <2>2. DOMAIN direct' = DOMAIN direct \ D /\ \A y \in DOMAIN direct' : direct'[y] \in Nat
      BY ZenonT(60), <2>1, Tables DEF TrackerPart
    <2>3. DOMAIN active' = DOMAIN active \ A /\ \A y \in DOMAIN active' : active'[y] \in Nat
      BY ZenonT(60), <2>1, Tables DEF TrackerPart
    <2> QED BY <2>1, <2>2, <2>3 DEF TrackerPart, ValidatedTracked
  <1> QED BY <1>1, <1>2

\* Time only runs the timers down.
LEMMA TimeStep ==
    ASSUME TransferPart, TrackerPart, pass_time
    PROVE  TransferPart' /\ TrackerPart'
  <1>1. /\ left' = IF left = None \/ left = 0 THEN left ELSE left - 1
        /\ direct' = Older(direct, LinkIdle) /\ active' = Older(active, PLinkIdle)
        /\ UNCHANGED <<node, link, state, limit, from, to, requests, paths, directory,
                       asked, handed>>
        /\ UNCHANGED validated
    BY DEF pass_time
  <1>2. /\ left' \in 0..PathTimeout \cup {None}
        /\ left # None => left' # None
    BY <1>1, BoundsAssumption, NoneAssumption DEF TransferPart
  <1>3. TransferPart'
    BY <1>1, <1>2 DEF TransferPart, QuietWhenOver, OneRequestEach, LimitKnown
  <1>4. DOMAIN direct' = DOMAIN direct /\ \A y \in DOMAIN direct' : direct'[y] \in Nat
    BY <1>1, Tables, BoundsAssumption DEF TrackerPart
  <1>5. DOMAIN active' = DOMAIN active /\ \A y \in DOMAIN active' : active'[y] \in Nat
    BY <1>1, Tables, BoundsAssumption DEF TrackerPart
  <1> QED BY <1>1, <1>3, <1>4, <1>5 DEF TrackerPart, ValidatedTracked

\* Every step of the router, its callers and time keeps the whole invariant.
THEOREM TransferInvariant == Spec => []TransferIInv
  <1>1. Init => TransferIInv
    BY InitInv, Parts
  <1>2. TransferIInv /\ [Next]_vars => TransferIInv'
    <2> SUFFICES ASSUME TransferPart, TrackerPart, [Next]_vars
                 PROVE  TransferPart' /\ TrackerPart'
      BY Parts DEF TransferIInv, TransferInv, TypeOK, TransferPart, TrackerPart
    <2>1. CASE UNCHANGED vars
      BY <2>1, MachineUntouched, TrackerUntouched DEF vars, wants, Machine
    <2> QED
      BY <2>1, ApplicationStep, EventStep, PollStep, CleanStep, TimeStep DEF Next
  <1> QED BY <1>1, <1>2, PTL DEF Spec

\* Types hold, a wait for a path always has an identity and a deadline, and
\* limits and validations never outlive what they belong to.
THEOREM WaitsAreTimed == Spec => []TransferInv
  BY TransferInvariant, PTL DEF TransferIInv

\* A transfer that was reported over never comes back to life by itself.
THEOREM OverIsOver == Spec => []QuietWhenOver
  BY TransferInvariant, PTL DEF TransferIInv

\* However path notifications and path polls interleave, a request of the
\* application is handed to the event loop at most once.
THEOREM NoDuplicateRequests == Spec => []OneRequestEach
  BY TransferInvariant, PTL DEF TransferIInv

\* No request is queued with the limit that a cancel has cleared.
THEOREM LimitsAreKnown == Spec => []LimitKnown
  BY TransferInvariant, PTL DEF TransferIInv, TransferInv

\* A validated peer link is always a tracked link.
THEOREM ValidationEndsWithLink == Spec => []ValidatedTracked
  BY TransferInvariant, PTL DEF TransferIInv, TransferInv

\* Only a change of node takes the link from a transfer in progress: the other
\* two places that drop a link, cancel and clean_links, end the transfer.
THEOREM LinkLossIsReported == Spec => LinkLossReported
  <1>1. ASSUME TransferPart, NEW failure \in Failures \cup {PR_IDLE},
               NEW reset \in BOOLEAN, acknowledge_sync_completion(reset, failure)
        PROVE  ~InProgress'
    BY <1>1 DEF acknowledge_sync_completion, InProgress, TransferPart, States, Failures,
       PR_IDLE, PR_PATH_REQUESTED, PR_RESPONSE_RECEIVED, PR_COMPLETE, PR_NO_PATH,
       PR_LINK_FAILED, PR_TRANSFER_FAILED
  <1>2. ASSUME TransferPart, Next, link # None, link' = None, InProgress'
        PROVE  node' # node
    <2>1. CASE cancel_propagation_node_requests
      <3>1. acknowledge_sync_completion(TRUE, PR_IDLE) /\ TRUE \in BOOLEAN
        BY Zenon, <2>1 DEF cancel_propagation_node_requests
      <3> QED BY Zenon, <1>1, <1>2, <3>1
    <2>2. CASE clean_links
      <3>1. acknowledge_sync_completion(FALSE, ClosedResult) /\ FALSE \in BOOLEAN
        BY Zenon, <1>2, <2>2 DEF clean_links
      <3>2. ClosedResult \in Failures \cup {PR_IDLE}
        BY <1>2 DEF ClosedResult, Failures
      <3> QED BY Zenon, <1>1, <1>2, <3>1, <3>2
    <2>3. ASSUME NEW n \in Nodes \cup {None}, set_outbound_propagation_node(n)
          PROVE  node' # node
      BY <2>3 DEF set_outbound_propagation_node
    <2>4. ASSUME NEW l \in Links, set_outbound_propagation_link(l) \/ link_closed(l)
          PROVE  FALSE
      <3>1. CASE set_outbound_propagation_link(l)
        <4>1. link' \in [id : Links, closed : BOOLEAN]
          BY <3>1 DEF set_outbound_propagation_link
        <4> QED BY <4>1, <1>2, NoneIsNoLink
      <3>2. CASE link_closed(l)
        <4>1. link' = [link EXCEPT !.closed = TRUE] /\ link \in [id : Links, closed : BOOLEAN]
          BY <1>2, <3>2 DEF link_closed, TransferPart
        <4>2. link' \in [id : Links, closed : BOOLEAN]
          BY Zenon, <4>1
        <4> QED BY <4>2, <1>2, NoneIsNoLink
      <3> QED BY <2>4, <3>1, <3>2
    <2> QED
      BY ZenonT(60), <1>2, <2>1, <2>2, <2>3, <2>4 DEF Next, Application, Events,
         request_messages_from_propagation_node, acknowledge,
         get_outbound_propagation_cost, process_pn_message_requests,
         pop_pn_path_request, upsert_announce, on_pn_path_available, link_data,
         link_activated, add_propagation_link, add_validated_peer_link,
         set_propagation_transfer_state, poll_path_request_timeout, pass_time
  <1>3. TransferIInv /\ [Next]_vars =>
          [link # None /\ link' = None /\ InProgress' => node' # node]_vars
    BY <1>2, Parts DEF vars
  <1> QED BY <1>3, TransferInvariant, PTL DEF Spec, LinkLossReported
=============================================================================
