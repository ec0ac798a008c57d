------------------------- MODULE LinkSessionProofs --------------------------
(***************************************************************************)
(* Proofs about LinkSession, for any number of calls, links and keys, any  *)
(* intervals, and a medium that loses, delays and reorders packets.        *)
(*                                                                         *)
(* TypeOK is not inductive: that a proved link has a key, and that a       *)
(* closed one stays closed, rest on OpeningAlone, because link_insert      *)
(* tracks an object that others must not have touched since link_request.  *)
(***************************************************************************)
EXTENDS LinkSession, TLAPS

\* The default at a leaf that names no other prover.
USE ZenonT(60)

LinkState == [status : {"new", "Pending", "Active", "Closed"},
              key : Key \cup {NoKey}, age : 0 .. RestartAfter + 1]
CallState == [at : {"idle", "opening", "requested", "has", "done"}, link : Link \cup {NoLink}]
EndState == [key : Key \cup {NoKey}, age : 0 .. CleanupAfter + 1]

\* What LinkInv says of the opening node, of the accepting one and of the medium.
OpenerOK ==
    /\ link \in [Link -> LinkState]
    /\ tracked \in Link \cup {NoLink}
    /\ caller \in [Caller -> CallState]
    /\ \A o \in Link : Up(o) => link[o].key # NoKey
    /\ \A c \in Caller :
         caller[c].at \in {"requested", "has", "done"} => caller[c].link # NoLink
    /\ OpeningAlone
AcceptorOK ==
    /\ accepted \subseteq Link
    /\ inlink \in [Link -> EndState]
    /\ \A o \in accepted : inlink[o].key # NoKey
MediumOK == net \subseteq Packet

\* LinkInv is the conjunction of its parts.
LEMMA InvParts == LinkInv <=> OpenerOK /\ AcceptorOK /\ MediumOK
  BY DEF LinkInv, TypeOK, OpenerOK, AcceptorOK, MediumOK, LinkState, CallState, EndState

\* The same of the next state.
LEMMA InvPartsNext == ASSUME OpenerOK', AcceptorOK', MediumOK' PROVE LinkInv'
  BY InvParts, PTL

\* What a step may not do to the links of the opening node (SessionKept).
SessionStep ==
    \A o \in Link :
        /\ Up(o) /\ Up(o)' => link'[o].key = link[o].key
        /\ link[o].status = "Closed" => link'[o].status = "Closed"

\* An opening node that takes no step.
LEMMA OpenerStays ==
  ASSUME OpenerOK, UNCHANGED <<link, tracked, caller>>
  PROVE  OpenerOK' /\ SessionStep
  BY DEF OpenerOK, OpeningAlone, SessionStep, Up

\* An accepting node that takes no step.
LEMMA AcceptorStays ==
  ASSUME AcceptorOK, UNCHANGED <<accepted, inlink>>
  PROVE  AcceptorOK'
  BY DEF AcceptorOK

\* A packet is sent, or dropped by the medium.
LEMMA MediumTakes ==
  ASSUME NEW m \in SUBSET Packet, NEW p \in Packet
  PROVE  With(m, p) \subseteq Packet
  BY DEF With

\* Only the tracked link changes: its age alone, or it starts over, or a Pending
\* one is proved.
LEMMA TrackedMoves ==
  ASSUME OpenerOK, NEW o \in Link, NEW l \in LinkState, tracked = o,
         link' = [link EXCEPT ![o] = l], UNCHANGED <<tracked, caller>>,
         l.status = "Active" => l.key # NoKey,
         link[o].status = "Active" /\ l.status = "Active" => l.key = link[o].key,
         link[o].status = "Closed" => l.status = "Closed"
  PROVE  OpenerOK' /\ SessionStep
<1>1. /\ link' \in [Link -> LinkState] /\ link'[o] = l
      /\ \A x \in Link \ {o} : link'[x] = link[x]
  BY DEF OpenerOK
<1>2. OpeningAlone'
  BY <1>1 DEF OpenerOK, OpeningAlone, Link
<1>3. \A x \in Link : Up(x)' => link'[x].key # NoKey
  BY <1>1 DEF Up
<1>4. SessionStep
  BY <1>1 DEF SessionStep, Up
<1> QED
  BY <1>1, <1>2, <1>3, <1>4 DEF OpenerOK

-----------------------------------------------------------------------------
(* Transport::link and close.                                              *)

\* A link object set to Pending, its age to zero.
LEMMA Requested ==
  ASSUME link \in [Link -> LinkState], NEW o \in Link,
         link' = [link EXCEPT ![o].status = "Pending", ![o].age = 0]
  PROVE  /\ link' \in [Link -> LinkState]
         /\ link'[o].status = "Pending" /\ link'[o].key = link[o].key
         /\ \A x \in Link \ {o} : link'[x] = link[x]
<1> DEFINE f == [link EXCEPT ![o].status = "Pending"]
<1>1. f \in [Link -> LinkState] /\ f[o].status = "Pending" /\ f[o].key = link[o].key
      /\ \A x \in Link \ {o} : f[x] = link[x]
  BY SMTT(60) DEF LinkState
<1>2. link' = [f EXCEPT ![o].age = 0]
  OBVIOUS
<1>3. 0 \in 0 .. RestartAfter + 1
  BY SMTT(60), LinkAssumption
<1> HIDE DEF f
<1>4. [f[o] EXCEPT !.age = 0] \in LinkState
  BY <1>1, <1>3 DEF LinkState
<1>5. [f[o] EXCEPT !.age = 0].status = f[o].status /\ [f[o] EXCEPT !.age = 0].key = f[o].key
  BY SMTT(60), <1>1 DEF LinkState
<1>6. link' = [f EXCEPT ![o] = [f[o] EXCEPT !.age = 0]]
  BY <1>2
<1> QED
  BY <1>1, <1>4, <1>5, <1>6

\* A link object that is not tracked any more.
LEMMA ForgottenLink ==
  ASSUME link \in [Link -> LinkState], NEW o \in Link \cup {NoLink}, link' = Forgotten(o)
  PROVE  /\ link' \in [Link -> LinkState]
         /\ \A x \in Link : link'[x].status = link[x].status
         /\ \A x \in Link \ {o} : link'[x] = link[x]
<1>1. CASE o = NoLink
  BY <1>1 DEF Forgotten
<1>2. CASE o # NoLink
  <2> DEFINE f == [link EXCEPT ![o].key = NoKey]
  <2>1. f \in [Link -> LinkState] /\ f[o].status = link[o].status
        /\ \A x \in Link \ {o} : f[x] = link[x]
    BY SMTT(60), <1>2 DEF LinkState
  <2>2. link' = [f EXCEPT ![o].age = 0]
    BY <1>2 DEF Forgotten
  <2>3. 0 \in 0 .. RestartAfter + 1
    BY SMTT(60), LinkAssumption
  <2> HIDE DEF f
  <2> QED
    BY SMTT(60), <1>2, <2>1, <2>2, <2>3 DEF LinkState
<1> QED
  BY <1>1, <1>2

\* The call finds a link, which was inserted, or starts to open one.
LEMMA LookupStep ==
  ASSUME LinkInv, NEW c \in Caller, link_lookup(c)
  PROVE  LinkInv' /\ SessionStep
<1> USE InvParts
<1> DEFINE to == IF tracked # NoLink /\ link[tracked].status # "Closed"
                   THEN [at |-> "has", link |-> tracked]
                   ELSE [at |-> "opening", link |-> NoLink]
<1>1. /\ caller[c].at = "idle" /\ caller' = [caller EXCEPT ![c] = to]
      /\ UNCHANGED <<link, tracked, accepted, inlink, net>>
  BY DEF link_lookup
<1>2. to \in CallState /\ to.at \in {"has", "opening"} /\ to.link \in {tracked, NoLink}
      /\ (to.at = "has" => to.link = tracked /\ tracked # NoLink)
  BY SMTT(60) DEF CallState, OpenerOK
<1> HIDE DEF to
<1>3. /\ caller' \in [Caller -> CallState] /\ caller'[c] = to
      /\ \A d \in Caller \ {c} : caller'[d] = caller[d]
  BY <1>1, <1>2 DEF OpenerOK
<1>4. NoLink \notin Caller
  BY LinkAssumption DEF Link
<1>5. ASSUME NEW d \in Caller
      PROVE  /\ caller'[d].at \in {"idle", "opening"} => link'[d].status = "new"
             /\ caller'[d].at = "requested" => link'[d].status = "Pending"
             /\ caller'[d].at \in {"idle", "opening", "requested"} =>
                  tracked' # d /\ \A e \in Caller \ {d} : caller'[e].link # d
  <2>1. caller'[d].at \in {"idle", "opening", "requested"}
          => caller[d].at \in {"idle", "opening", "requested"}
    BY <1>1, <1>3
  <2>2. caller[d].at \in {"idle", "opening", "requested"} =>
          tracked # d /\ \A e \in Caller \ {d} : caller[e].link # d
    BY DEF OpenerOK, OpeningAlone
  <2>3. \A e \in Caller : caller'[e].link \in {caller[e].link, tracked, NoLink}
    BY <1>2, <1>3
  <2>4. caller'[d].at \in {"idle", "opening"} => link[d].status = "new"
    BY <1>1, <1>3 DEF OpenerOK, OpeningAlone
  <2>5. caller'[d].at = "requested" => link[d].status = "Pending"
    BY SMTT(60), <1>1, <1>2, <1>3 DEF OpenerOK, OpeningAlone
  <2> QED
    BY <1>1, <1>4, <2>1, <2>2, <2>3, <2>4, <2>5
<1>6. OpenerOK'
  <2>1. \A d \in Caller : caller'[d].at \in {"requested", "has", "done"} => caller'[d].link # NoLink
    BY SMTT(60), <1>2, <1>3 DEF OpenerOK
  <2>2. \A o \in Link : Up(o)' => link'[o].key # NoKey
    BY <1>1 DEF OpenerOK, Up
  <2>3. OpeningAlone'
    BY <1>5 DEF OpeningAlone
  <2> QED
    BY <1>1, <1>3, <2>1, <2>2, <2>3 DEF OpenerOK
<1>7. SessionStep
  BY <1>1 DEF SessionStep, Up
<1> QED
  BY <1>1, <1>6, <1>7, AcceptorStays, InvPartsNext DEF MediumOK

\* The request is sent for an object nobody else knows.
LEMMA RequestStep ==
  ASSUME LinkInv, NEW c \in Caller, link_request(c)
  PROVE  LinkInv' /\ SessionStep
<1> USE InvParts
<1>1. /\ caller[c].at = "opening" /\ net' = With(net, LinkRequest(c))
      /\ link' = [link EXCEPT ![c].status = "Pending", ![c].age = 0]
      /\ caller' = [caller EXCEPT ![c] = [at |-> "requested", link |-> c]]
      /\ UNCHANGED <<tracked, accepted, inlink>>
  BY DEF link_request
<1>2. c \in Link /\ c # NoLink /\ link \in [Link -> LinkState]
  BY LinkAssumption DEF Link, OpenerOK
<1>3. /\ link' \in [Link -> LinkState] /\ link'[c].status = "Pending"
      /\ \A x \in Link \ {c} : link'[x] = link[x]
  BY <1>1, <1>2, Requested
<1>4. /\ caller' \in [Caller -> CallState]
      /\ caller'[c] = [at |-> "requested", link |-> c]
      /\ \A d \in Caller \ {c} : caller'[d] = caller[d]
  BY SMTT(60), <1>1, <1>2 DEF OpenerOK, CallState
<1>5. link[c].status = "new" /\ tracked # c /\ \A d \in Caller \ {c} : caller[d].link # c
  BY <1>1 DEF OpenerOK, OpeningAlone
<1>6. caller'[c].at = "requested" /\ caller'[c].link = c
  BY SMTT(60), <1>4
<1>7. OpeningAlone'
  <2> SUFFICES ASSUME NEW d \in Caller
               PROVE  /\ caller'[d].at \in {"idle", "opening"} => link'[d].status = "new"
                      /\ caller'[d].at = "requested" => link'[d].status = "Pending"
                      /\ caller'[d].at \in {"idle", "opening", "requested"} =>
                           tracked' # d /\ \A e \in Caller \ {d} : caller'[e].link # d
    BY DEF OpeningAlone
  <2>1. CASE d = c
    BY <1>1, <1>3, <1>4, <1>5, <1>6, <2>1
  <2>2. CASE d # c
    BY <1>1, <1>3, <1>4, <1>6, <2>2 DEF OpenerOK, OpeningAlone, Link
  <2> QED
    BY <2>1, <2>2
<1>8. OpenerOK'
  <2>1. \A o \in Link : Up(o)' => link'[o].key # NoKey
    BY <1>1, <1>3, <1>5 DEF OpenerOK, Up
  <2>2. \A d \in Caller : caller'[d].at \in {"requested", "has", "done"} => caller'[d].link # NoLink
    BY <1>2, <1>4, <1>6 DEF OpenerOK
  <2> QED
    BY <1>1, <1>3, <1>4, <1>7, <2>1, <2>2 DEF OpenerOK
<1>9. SessionStep
  BY <1>1, <1>3, <1>5 DEF SessionStep, Up
<1>10. MediumOK'
  <2>1. LinkRequest(c) \in Packet
    BY SMTT(60), <1>2 DEF LinkRequest, Packet
  <2> QED
    BY <1>1, <2>1, MediumTakes DEF MediumOK
<1> QED
  BY <1>1, <1>8, <1>9, <1>10, AcceptorStays, InvPartsNext

\* The link is tracked; the one tracked before is forgotten.
LEMMA InsertStep ==
  ASSUME LinkInv, NEW c \in Caller, link_insert(c)
  PROVE  LinkInv' /\ SessionStep
<1> USE InvParts
<1>1. /\ caller[c].at = "requested" /\ tracked' = c /\ link' = Forgotten(tracked)
      /\ caller' = [caller EXCEPT ![c].at = "has"]
      /\ UNCHANGED <<accepted, inlink, net>>
  BY DEF link_insert
<1>2. c \in Link /\ link \in [Link -> LinkState] /\ tracked \in Link \cup {NoLink}
      /\ caller \in [Caller -> CallState]
  BY DEF Link, OpenerOK
<1>3. /\ link' \in [Link -> LinkState]
      /\ \A x \in Link : link'[x].status = link[x].status
  BY <1>1, <1>2, ForgottenLink
<1>4. /\ caller' \in [Caller -> CallState] /\ caller'[c].at = "has"
      /\ \A d \in Caller : caller'[d].link = caller[d].link
      /\ \A d \in Caller \ {c} : caller'[d].at = caller[d].at
  BY SMTT(60), <1>1, <1>2 DEF CallState
<1>5. tracked # c /\ link[c].status = "Pending"
  BY <1>1 DEF OpenerOK, OpeningAlone
<1>6. OpeningAlone'
  <2> SUFFICES ASSUME NEW d \in Caller
               PROVE  /\ caller'[d].at \in {"idle", "opening"} => link'[d].status = "new"
                      /\ caller'[d].at = "requested" => link'[d].status = "Pending"
                      /\ caller'[d].at \in {"idle", "opening", "requested"} =>
                           tracked' # d /\ \A e \in Caller \ {d} : caller'[e].link # d
    BY DEF OpeningAlone
  <2>1. CASE d = c
    BY SMTT(60), <1>4, <2>1
  <2>2. CASE d # c
    <3>1. /\ caller[d].at \in {"idle", "opening"} => link[d].status = "new"
          /\ caller[d].at = "requested" => link[d].status = "Pending"
          /\ caller[d].at \in {"idle", "opening", "requested"} =>
               \A e \in Caller \ {d} : caller[e].link # d
      BY DEF OpenerOK, OpeningAlone
    <3>2. caller'[d].at = caller[d].at /\ link'[d].status = link[d].status /\ tracked' # d
      BY <1>1, <1>3, <1>4, <2>2 DEF Link
    <3> QED
      BY <1>4, <3>1, <3>2
  <2> QED
    BY <2>1, <2>2
<1>7. OpenerOK'
  <2>1. \A o \in Link : ~Up(o)'
    BY <1>1, <1>2, <1>3, <1>5 DEF Up
  <2>2. \A d \in Caller : caller'[d].at \in {"requested", "has", "done"} => caller'[d].link # NoLink
    BY <1>1, <1>4 DEF OpenerOK
  <2> QED
    BY <1>1, <1>2, <1>3, <1>4, <1>6, <2>1, <2>2 DEF OpenerOK
<1>8. SessionStep
  BY <1>1, <1>3, <1>5 DEF SessionStep, Up
<1> QED
  BY <1>1, <1>7, <1>8, AcceptorStays, InvPartsNext DEF MediumOK

\* A link is closed by a call that was given it.
LEMMA CloseStep ==
  ASSUME LinkInv, NEW c \in Caller, close(c)
  PROVE  LinkInv' /\ SessionStep
<1> USE InvParts
<1> DEFINE o == caller[c].link
<1>1. /\ caller[c].at = "has" /\ link' = [link EXCEPT ![o].status = "Closed"]
      /\ caller' = [caller EXCEPT ![c].at = "done"]
      /\ UNCHANGED <<tracked, accepted, inlink, net>>
  BY DEF close
<1>2. o \in Link /\ link \in [Link -> LinkState] /\ caller \in [Caller -> CallState]
  BY SMTT(60), <1>1 DEF OpenerOK, CallState
<1>3. /\ link' \in [Link -> LinkState] /\ link'[o].status = "Closed"
      /\ \A x \in Link : link'[x].key = link[x].key
      /\ \A x \in Link \ {o} : link'[x] = link[x]
  BY SMTT(60), <1>1, <1>2 DEF LinkState
<1>4. /\ caller' \in [Caller -> CallState] /\ caller'[c].at = "done"
      /\ \A d \in Caller : caller'[d].link = caller[d].link
      /\ \A d \in Caller \ {c} : caller'[d].at = caller[d].at
  BY SMTT(60), <1>1, <1>2 DEF CallState
<1>5. caller[o].at \notin {"idle", "opening", "requested"}
  BY <1>1, <1>2 DEF OpenerOK, OpeningAlone, Link
<1>6. OpeningAlone'
  <2> SUFFICES ASSUME NEW d \in Caller
               PROVE  /\ caller'[d].at \in {"idle", "opening"} => link'[d].status = "new"
                      /\ caller'[d].at = "requested" => link'[d].status = "Pending"
                      /\ caller'[d].at \in {"idle", "opening", "requested"} =>
                           tracked' # d /\ \A e \in Caller \ {d} : caller'[e].link # d
    BY DEF OpeningAlone
  <2>1. CASE d = c
    BY SMTT(60), <1>4, <2>1
  <2>2. CASE d # c
    BY <1>1, <1>3, <1>4, <1>5, <2>2 DEF OpenerOK, OpeningAlone, Link
  <2> QED
    BY <2>1, <2>2
<1>7. OpenerOK'
  <2>1. \A x \in Link : Up(x)' => link'[x].key # NoKey
    BY <1>1, <1>3 DEF Up, OpenerOK
  <2>2. \A d \in Caller : caller'[d].at \in {"requested", "has", "done"} => caller'[d].link # NoLink
    BY <1>1, <1>4 DEF OpenerOK
  <2> QED
    BY <1>1, <1>3, <1>4, <1>6, <2>1, <2>2 DEF OpenerOK
<1>8. SessionStep
  BY <1>1, <1>3 DEF SessionStep, Up
<1> QED
  BY <1>1, <1>7, <1>8, AcceptorStays, InvPartsNext DEF MediumOK

-----------------------------------------------------------------------------
(* Packets.                                                                *)

\* The packets of the model are well formed.
LEMMA Packets ==
  ASSUME NEW o \in Link, NEW k \in Key, NEW to \in {"opener", "acceptor"}
  PROVE  /\ LinkRequest(o) \in Packet /\ LinkProof(o, k) \in Packet
         /\ Data(o, k, to) \in Packet
         /\ KeepAlive(o) \in Packet /\ KeepAliveAnswer(o) \in Packet
  BY SMTT(60) DEF Packet, LinkRequest, LinkProof, Data, KeepAlive, KeepAliveAnswer

\* What a packet on its way carries.
LEMMA PacketFields ==
  ASSUME NEW p \in Packet
  PROVE  p.id \in Link /\ (p.type \in {"proof", "data"} => p.key \in Key)
  BY SMTT(60) DEF Packet

\* A link is accepted with a fresh key and proved, or the request is ignored.
LEMMA AcceptStep ==
  ASSUME LinkInv, NEW p \in net, handle_link_request(p)
  PROVE  LinkInv' /\ SessionStep
<1> USE InvParts
<1>1. UNCHANGED <<link, tracked, caller>> /\ p \in Packet /\ net \subseteq Packet
  BY DEF handle_link_request, MediumOK
<1>2. OpenerOK' /\ SessionStep
  BY <1>1, OpenerStays
<1>3. CASE p.id \in accepted
  <2>1. net' = net \ {p} /\ UNCHANGED <<accepted, inlink>>
    BY <1>3 DEF handle_link_request, Receive
  <2> QED
    BY <1>1, <1>2, <2>1, AcceptorStays, InvPartsNext DEF MediumOK
<1>4. CASE p.id \notin accepted
  <2> DEFINE k == CHOOSE x \in Key : ~InUse(x)
             e == [key |-> k, age |-> 0]
  <2>1. /\ \E x \in Key : ~InUse(x)
        /\ accepted' = accepted \cup {p.id} /\ inlink' = [inlink EXCEPT ![p.id] = e]
        /\ net' = With(net \ {p}, LinkProof(p.id, k))
    BY <1>4 DEF handle_link_request
  <2>2. k \in Key /\ p.id \in Link
    BY <1>1, <2>1, PacketFields
  <2> HIDE DEF k
  <2>3. e \in EndState /\ e.key # NoKey
    BY SMTT(60), <2>2, LinkAssumption DEF EndState
  <2> HIDE DEF e
  <2>4. AcceptorOK'
    BY <2>1, <2>2, <2>3 DEF AcceptorOK
  <2>5. MediumOK'
    BY <1>1, <2>1, <2>2, Packets, MediumTakes DEF MediumOK
  <2> QED
    BY <1>2, <2>4, <2>5, InvPartsNext
<1> QED
  BY <1>3, <1>4

\* A Pending link that is tracked takes a proof; others ignore it.
LEMMA ProofStep ==
  ASSUME LinkInv, NEW p \in net, handle_proof(p)
  PROVE  LinkInv' /\ SessionStep
<1> USE InvParts
<1> DEFINE o == p.id
<1>1. UNCHANGED <<tracked, caller, accepted, inlink>> /\ p.type = "proof"
  BY DEF handle_proof
<1>2. p \in Packet /\ net \subseteq Packet /\ o \in Link /\ p.key \in Key /\ p.key # NoKey
  BY <1>1, PacketFields, LinkAssumption DEF MediumOK
<1>3. CASE tracked = o /\ link[o].status = "Pending"
  <2> DEFINE l == handshake(link[o], p.key)
  <2>1. link' = [link EXCEPT ![o] = l] /\ net' = With(net \ {p}, create_rtt(o, p.key))
    BY <1>3 DEF handle_proof
  <2>2. link[o] \in LinkState
    BY <1>2 DEF OpenerOK
  <2>3. l \in LinkState
    BY <1>2, <2>2 DEF handshake, LinkState
  <2>4. l.key = p.key /\ l.status = "Active"
    BY SMTT(60), <2>2 DEF handshake, LinkState
  <2> HIDE DEF l
  <2>5. OpenerOK' /\ SessionStep
    BY <1>1, <1>2, <1>3, <2>1, <2>3, <2>4, TrackedMoves
  <2>6. MediumOK'
    BY <1>2, <2>1, Packets, MediumTakes DEF MediumOK, create_rtt
  <2> QED
    BY <1>1, <2>5, <2>6, AcceptorStays, InvPartsNext
<1>4. CASE ~(tracked = o /\ link[o].status = "Pending")
  <2>1. UNCHANGED link /\ net' = net \ {p}
    BY <1>4 DEF handle_proof, Receive
  <2> QED
    BY <1>1, <1>2, <2>1, OpenerStays, AcceptorStays, InvPartsNext DEF MediumOK
<1> QED
  BY <1>3, <1>4

\* An accepted end is heard: its age is reset, its key stays.
LEMMA EndHeard ==
  ASSUME AcceptorOK, NEW o \in Link, inlink' = [inlink EXCEPT ![o].age = 0],
         UNCHANGED accepted
  PROVE  AcceptorOK'
<1>1. 0 \in 0 .. CleanupAfter + 1
  BY SMTT(60), LinkAssumption
<1>2. [inlink[o] EXCEPT !.age = 0] \in EndState
  BY <1>1 DEF AcceptorOK, EndState
<1>3. [inlink[o] EXCEPT !.age = 0].key = inlink[o].key
  BY SMTT(60) DEF AcceptorOK, EndState
<1>4. inlink' = [inlink EXCEPT ![o] = [inlink[o] EXCEPT !.age = 0]]
  OBVIOUS
<1> QED
  BY <1>2, <1>3, <1>4 DEF AcceptorOK

\* The tracked link is heard.
LEMMA LinkHeard ==
  ASSUME OpenerOK, NEW o \in Link, tracked = o, link' = [link EXCEPT ![o].age = 0],
         UNCHANGED <<tracked, caller>>
  PROVE  OpenerOK' /\ SessionStep
<1> DEFINE l == [link[o] EXCEPT !.age = 0]
<1>1. 0 \in 0 .. RestartAfter + 1
  BY SMTT(60), LinkAssumption
<1>2. link[o] \in LinkState /\ (link[o].status = "Active" => link[o].key # NoKey)
  BY DEF OpenerOK, Up
<1>3. l \in LinkState
  BY <1>1, <1>2 DEF LinkState
<1>4. l.key = link[o].key /\ l.status = link[o].status
  BY SMTT(60), <1>2 DEF LinkState
<1>5. link' = [link EXCEPT ![o] = l]
  OBVIOUS
<1> HIDE DEF l
<1> QED
  BY <1>2, <1>3, <1>4, <1>5, TrackedMoves

\* Data renews the end whose key opens it, or nothing.
LEMMA DataStep ==
  ASSUME LinkInv, NEW p \in net, handle_data_packet(p)
  PROVE  LinkInv' /\ SessionStep
<1> USE InvParts
<1>1. p.id \in Link /\ MediumOK' /\ UNCHANGED <<tracked, caller, accepted>>
  BY PacketFields DEF handle_data_packet, Receive, MediumOK
<1>2. \/ UNCHANGED inlink
      \/ inlink' = [inlink EXCEPT ![p.id].age = 0]
  BY DEF handle_data_packet
<1>3. \/ UNCHANGED link
      \/ tracked = p.id /\ link' = [link EXCEPT ![p.id].age = 0]
  BY DEF handle_data_packet
<1>4. AcceptorOK'
  BY <1>1, <1>2, AcceptorStays, EndHeard
<1>5. OpenerOK' /\ SessionStep
  BY <1>1, <1>3, OpenerStays, LinkHeard
<1> QED
  BY <1>1, <1>4, <1>5, InvPartsNext

\* A keep-alive renews the accepted end and is answered; the answer renews the
\* tracked link.
LEMMA KeepAliveStep ==
  ASSUME LinkInv, NEW p \in net, handle_keep_alive(p)
  PROVE  LinkInv' /\ SessionStep
<1> USE InvParts
<1>1. p.id \in Link /\ net \subseteq Packet /\ UNCHANGED <<tracked, caller, accepted>>
  BY PacketFields DEF handle_keep_alive, MediumOK
<1>2. \/ UNCHANGED inlink
      \/ inlink' = [inlink EXCEPT ![p.id].age = 0]
  BY DEF handle_keep_alive
<1>3. \/ UNCHANGED link
      \/ tracked = p.id /\ link' = [link EXCEPT ![p.id].age = 0]
  BY DEF handle_keep_alive
<1>4. net' = net \ {p} \/ net' = With(net \ {p}, KeepAliveAnswer(p.id))
  BY DEF handle_keep_alive, Receive
<1>5. KeepAliveAnswer(p.id) \in Packet
  BY SMTT(60), <1>1 DEF KeepAliveAnswer, Packet
<1>6. MediumOK'
  BY <1>1, <1>4, <1>5, MediumTakes DEF MediumOK
<1>7. AcceptorOK'
  BY <1>1, <1>2, AcceptorStays, EndHeard
<1>8. OpenerOK' /\ SessionStep
  BY <1>1, <1>3, OpenerStays, LinkHeard
<1> QED
  BY <1>6, <1>7, <1>8, InvPartsNext

\* Data is sent with the key of an end that has one.
LEMMA SendStep ==
  ASSUME LinkInv, send_data
  PROVE  LinkInv' /\ SessionStep
<1> USE InvParts
<1>1. UNCHANGED <<link, tracked, caller, accepted, inlink>>
  BY DEF send_data
<1>2. PICK o \in Link :
         \/ /\ tracked = o
            /\ link[o].status = "Active"
            /\ net' = With(net, Data(o, link[o].key, "acceptor"))
         \/ /\ o \in accepted
            /\ net' = With(net, Data(o, inlink[o].key, "opener"))
  BY DEF send_data
<1>3. link[o].key \in Key \cup {NoKey} /\ inlink[o].key \in Key \cup {NoKey}
  BY SMTT(60) DEF OpenerOK, AcceptorOK, LinkState, EndState
<1>4. \E k \in Key, to \in {"opener", "acceptor"} : net' = With(net, Data(o, k, to))
  BY <1>2, <1>3 DEF OpenerOK, AcceptorOK, Up
<1>5. MediumOK'
  BY <1>4, Packets, MediumTakes DEF MediumOK
<1> QED
  BY <1>1, <1>5, OpenerStays, AcceptorStays, InvPartsNext

\* A packet is lost.
LEMMA LoseStep ==
  ASSUME LinkInv, Lose
  PROVE  LinkInv' /\ SessionStep
<1> USE InvParts
<1>1. UNCHANGED <<link, tracked, caller, accepted, inlink>>
  BY DEF Lose
<1>2. MediumOK'
  BY DEF Lose, Receive, MediumOK
<1> QED
  BY <1>1, <1>2, OpenerStays, AcceptorStays, InvPartsNext

-----------------------------------------------------------------------------
(* The periodic tasks.                                                     *)

\* Silent ends are dropped with their keys.
LEMMA CheckInStep ==
  ASSUME LinkInv, check_in_links
  PROVE  LinkInv' /\ SessionStep
<1> USE InvParts
<1> DEFINE silent == {o \in accepted : inlink[o].age > CleanupAfter}
           none == [key |-> NoKey, age |-> 0]
<1>1. /\ accepted' = accepted \ silent
      /\ inlink' = [o \in Link |-> IF o \in silent THEN none ELSE inlink[o]]
      /\ UNCHANGED <<link, tracked, caller, net>>
  BY DEF check_in_links
<1>2. none \in EndState
  BY SMTT(60), LinkAssumption DEF EndState
<1> HIDE DEF silent, none
<1>3. AcceptorOK'
  BY <1>1, <1>2 DEF AcceptorOK
<1> QED
  BY <1>1, <1>3, OpenerStays, InvPartsNext DEF MediumOK

\* A closed link is forgotten; a silent or unproved one asks again.
LEMMA CheckOutStep ==
  ASSUME LinkInv, check_out_links
  PROVE  LinkInv' /\ SessionStep
<1> USE InvParts
<1>1. tracked \in Link /\ link \in [Link -> LinkState] /\ UNCHANGED <<caller, accepted, inlink>>
  BY DEF check_out_links, OpenerOK
<1>2. CASE /\ link[tracked].status = "Closed" /\ tracked' = NoLink
           /\ link' = Forgotten(tracked) /\ UNCHANGED net
  <2>1. link' \in [Link -> LinkState] /\ \A x \in Link : link'[x].status = link[x].status
    BY <1>1, <1>2, ForgottenLink
  <2>2. \A c \in Link : ~Up(c)'
    BY <1>2, LinkAssumption DEF Up
  <2>3. OpeningAlone'
    BY <1>1, <1>2, <2>1, LinkAssumption DEF OpenerOK, OpeningAlone, Link
  <2>4. OpenerOK'
    BY <1>1, <1>2, <2>1, <2>2, <2>3 DEF OpenerOK
  <2>5. SessionStep
    BY <2>1, <2>2 DEF SessionStep
  <2> QED
    BY <1>1, <1>2, <2>4, <2>5, AcceptorStays, InvPartsNext DEF MediumOK
<1>3. CASE /\ link[tracked].status \in {"Active", "Pending"}
           /\ link' = [link EXCEPT ![tracked].status = "Pending", ![tracked].age = 0]
           /\ net' = With(net, LinkRequest(tracked))
           /\ UNCHANGED tracked
  <2> DEFINE o == tracked
  <2>1. /\ link' \in [Link -> LinkState] /\ link'[o].status = "Pending"
        /\ \A x \in Link \ {o} : link'[x] = link[x]
    BY <1>1, <1>3, Requested
  <2>2. OpeningAlone'
    BY <1>1, <1>3, <2>1 DEF OpenerOK, OpeningAlone, Link
  <2>3. \A x \in Link : ~Up(x)'
    BY <1>3, <2>1 DEF Up
  <2>4. OpenerOK'
    BY <1>1, <1>3, <2>1, <2>2, <2>3 DEF OpenerOK
  <2>5. SessionStep
    BY <1>3, <2>1, <2>3 DEF SessionStep
  <2>6. LinkRequest(o) \in Packet
    BY SMTT(60), <1>1 DEF LinkRequest, Packet
  <2>7. MediumOK'
    BY <1>3, <2>6, MediumTakes DEF MediumOK
  <2> QED
    BY <1>1, <2>4, <2>5, <2>7, AcceptorStays, InvPartsNext
<1> QED
  BY <1>2, <1>3 DEF check_out_links

\* A keep-alive is sent over the tracked link.
LEMMA KeepLinksStep ==
  ASSUME LinkInv, handle_keep_links
  PROVE  LinkInv' /\ SessionStep
<1> USE InvParts
<1>1. UNCHANGED <<link, tracked, caller, accepted, inlink>> /\ tracked \in Link
      /\ net' = With(net, KeepAlive(tracked))
  BY DEF handle_keep_links, OpenerOK
<1>2. KeepAlive(tracked) \in Packet
  BY SMTT(60), <1>1 DEF KeepAlive, Packet
<1>3. MediumOK'
  BY <1>1, <1>2, MediumTakes DEF MediumOK
<1> QED
  BY <1>1, <1>3, OpenerStays, AcceptorStays, InvPartsNext

\* A second passes: only ages change, and none past its threshold.
LEMMA TickStep ==
  ASSUME LinkInv, Tick
  PROVE  LinkInv' /\ SessionStep
<1> USE InvParts
<1>1. /\ link' = [o \in Link |-> IF tracked = o
                    THEN [link[o] EXCEPT !.age = Older(@, RestartAfter)] ELSE link[o]]
      /\ inlink' = [o \in Link |-> IF o \in accepted
                      THEN [inlink[o] EXCEPT !.age = Older(@, CleanupAfter)] ELSE inlink[o]]
      /\ UNCHANGED <<tracked, caller, accepted, net>>
  BY DEF Tick
<1>2. \A m \in Nat : \A a \in 0 .. m + 1 : Older(a, m) \in 0 .. m + 1
  BY SMTT(60) DEF Older
<1>3. ASSUME NEW o \in Link
      PROVE  link'[o] \in LinkState /\ link'[o].key = link[o].key
             /\ link'[o].status = link[o].status
  <2> DEFINE a == Older(link[o].age, RestartAfter)
  <2>1. link[o] \in LinkState
    BY DEF OpenerOK
  <2>2. a \in 0 .. RestartAfter + 1
    BY <1>2, <2>1, LinkAssumption DEF LinkState
  <2> HIDE DEF a
  <2>3. [link[o] EXCEPT !.age = a] \in LinkState
    BY <2>1, <2>2 DEF LinkState
  <2>4. [link[o] EXCEPT !.age = a].key = link[o].key
        /\ [link[o] EXCEPT !.age = a].status = link[o].status
    BY SMTT(60), <2>1 DEF LinkState
  <2>5. link'[o] = [link[o] EXCEPT !.age = a] \/ link'[o] = link[o]
    BY <1>1 DEF a
  <2> QED
    BY <2>1, <2>3, <2>4, <2>5
<1>4. ASSUME NEW o \in Link
      PROVE  inlink'[o] \in EndState /\ inlink'[o].key = inlink[o].key
  <2> DEFINE a == Older(inlink[o].age, CleanupAfter)
  <2>1. inlink[o] \in EndState
    BY DEF AcceptorOK
  <2>2. a \in 0 .. CleanupAfter + 1
    BY <1>2, <2>1, LinkAssumption DEF EndState
  <2> HIDE DEF a
  <2>3. [inlink[o] EXCEPT !.age = a] \in EndState
    BY <2>1, <2>2 DEF EndState
  <2>4. [inlink[o] EXCEPT !.age = a].key = inlink[o].key
    BY SMTT(60), <2>1 DEF EndState
  <2>5. inlink'[o] = [inlink[o] EXCEPT !.age = a] \/ inlink'[o] = inlink[o]
    BY <1>1 DEF a
  <2> QED
    BY <2>1, <2>3, <2>4, <2>5
<1>5. link' \in [Link -> LinkState] /\ inlink' \in [Link -> EndState]
  BY <1>1, <1>3, <1>4
<1>6. OpeningAlone'
  BY <1>1, <1>3 DEF OpenerOK, OpeningAlone, Link
<1>7. \A o \in Link : Up(o)' => link'[o].key # NoKey
  BY <1>1, <1>3 DEF OpenerOK, Up
<1>8. OpenerOK' /\ SessionStep
  BY <1>1, <1>3, <1>5, <1>6, <1>7 DEF OpenerOK, SessionStep
<1>9. AcceptorOK'
  BY <1>1, <1>4, <1>5 DEF AcceptorOK
<1> QED
  BY <1>1, <1>8, <1>9, InvPartsNext DEF MediumOK

-----------------------------------------------------------------------------
(* The invariant and the theorems.                                         *)

\* Before anything happens.
LEMMA InitInv == ASSUME Init PROVE LinkInv
<1>1. [status |-> "new", key |-> NoKey, age |-> 0] \in LinkState
      /\ [key |-> NoKey, age |-> 0] \in EndState
      /\ [at |-> "idle", link |-> NoLink] \in CallState
  BY SMTT(60), LinkAssumption DEF LinkState, EndState, CallState
<1>2. \A o \in Link : link[o].status = "new"
  BY SMTT(60) DEF Init
<1>3. \A c \in Caller : caller[c].at = "idle" /\ caller[c].link = NoLink
  BY SMTT(60) DEF Init
<1>4. OpeningAlone
  BY <1>2, <1>3, LinkAssumption DEF OpeningAlone, Link, Init
<1>5. OpenerOK
  BY <1>1, <1>2, <1>3, <1>4 DEF OpenerOK, Init, Up
<1>6. AcceptorOK /\ MediumOK
  BY <1>1 DEF AcceptorOK, MediumOK, Init
<1> QED
  BY <1>5, <1>6, InvParts

\* Every step keeps the invariant and the sessions.
LEMMA StepKept ==
  ASSUME LinkInv, [Next]_vars
  PROVE  LinkInv' /\ SessionStep
<1>1. CASE UNCHANGED vars
  BY <1>1, InvParts, InvPartsNext, OpenerStays, AcceptorStays DEF vars, MediumOK
<1>2. CASE \E c \in Caller : call(c) \/ close(c)
  BY <1>2, LookupStep, RequestStep, InsertStep, CloseStep DEF call
<1>3. CASE \E p \in net : \/ handle_link_request(p) \/ handle_proof(p)
                          \/ handle_data_packet(p) \/ handle_keep_alive(p)
  BY <1>3, AcceptStep, ProofStep, DataStep, KeepAliveStep
<1>4. CASE send_data \/ Lose \/ handle_keep_links
  BY <1>4, SendStep, LoseStep, KeepLinksStep
<1>5. CASE check_in_links \/ check_out_links \/ Tick
  BY <1>5, CheckInStep, CheckOutStep, TickStep
<1> QED
  BY <1>1, <1>2, <1>3, <1>4, <1>5 DEF Next

\* In every reachable state a link that is up has a key, an accepted end has
\* one, and the object of a call that is still between the locks of
\* Transport::link is known to that call alone.
THEOREM LinkInvariant == Spec => []LinkInv
<1>1. Init => LinkInv
  BY InitInv
<1>2. LinkInv /\ [Next]_vars => LinkInv'
  BY StepKept
<1> QED
  BY <1>1, <1>2, PTL DEF Spec

\* A link that stays Active keeps its key, whatever proofs arrive late or
\* twice, and a closed link never comes back: not through a check, a proof or
\* another call that inserts its link.
THEOREM SessionsKept == Spec => SessionKept
<1>1. LinkInv /\ [Next]_vars => [SessionStep]_vars
  BY StepKept
<1> QED
  BY <1>1, LinkInvariant, PTL DEF Spec, SessionKept, SessionStep
=============================================================================
