---------------------------- MODULE TicketsProofs ----------------------------
(* Machine-checked proofs about Tickets, for any routers, messages, expiries *)
(* and network: a ticket that has not expired for its holder is honoured by  *)
(* its issuer, tickets are spaced, and no message is delivered twice.        *)
EXTENDS Tickets, TLAPS

USE ZenonT(60)

-----------------------------------------------------------------------------
(* What the operations do to one ticket store                                *)

(* Unexpired tickets are on file afterwards as before.                       *)
Keeps(s, s2) ==
    \A q \in Node : \A t \in Ticket :
        s.inbound[q][t] > now => s2.inbound[q][t] = s.inbound[q][t]

(* Numbers a clock or an expiry may be.                                      *)
LEMMA Numbers ==
  /\ Time \subseteq Nat /\ Stamp \subseteq Nat /\ Until \subseteq Nat
  /\ Never \in Stamp /\ Never \in Until /\ Stamp \subseteq Until
  /\ \A t \in Time : t \in Stamp /\ t + TicketExpiry \in Until /\ t + TicketExpiry > t
                     /\ t + TicketExpiry # Never
  BY SMTT(60), TicketsAssumption DEF Time, Stamp, Until, Never

(* A new ticket is added to what is on file.                                 *)
LEMMA DrawEffect ==
  ASSUME NEW s \in TicketStore, NEW q \in Node, NEW t \in Ticket, now \in Time
  PROVE  /\ Draw(s, q, t) \in TicketStore
         /\ Draw(s, q, t).outbound = s.outbound
         /\ Draw(s, q, t).inbound[q][t] = now + TicketExpiry
         /\ \A q2 \in Node : \A t2 \in Ticket :
              q2 # q \/ t2 # t => Draw(s, q, t).inbound[q2][t2] = s.inbound[q2][t2]
<1>1. now + TicketExpiry \in Until
  BY Numbers
<1> QED
  BY SMTT(60), <1>1 DEF Draw, Tickets, TicketStore

(* Remembering a ticket leaves the tickets we issued alone.                  *)
LEMMA RememberEffect ==
  ASSUME NEW s \in TicketStore, NEW q \in Node, NEW x \in Entry
  PROVE  /\ remember_ticket(s, q, x) \in TicketStore
         /\ remember_ticket(s, q, x).inbound = s.inbound
         /\ remember_ticket(s, q, x).outbound[q] = x
         /\ \A q2 \in Node : q2 # q => remember_ticket(s, q, x).outbound[q2] = s.outbound[q2]
  BY SMTT(60) DEF remember_ticket, Tickets, TicketStore, OptEntry

(* Cleaning keeps what has not expired and adds nothing.                     *)
LEMMA CleanEffect ==
  ASSUME NEW s \in TicketStore, now \in Time
  PROVE  /\ clean_expired(s) \in TicketStore
         /\ Keeps(s, clean_expired(s))
         /\ \A q \in Node : clean_expired(s).outbound[q] \in {s.outbound[q], NoEntry}
         /\ \A q \in Node : \A t \in Ticket :
              clean_expired(s).inbound[q][t] \in {s.inbound[q][t], Never}
<1> DEFINE out == [q \in Node |-> get_outbound_ticket(s, q)]
<1> DEFINE in == [q \in Node |-> [t \in Ticket |->
                    IF now <= s.inbound[q][t] + TicketGrace THEN s.inbound[q][t] ELSE Never]]
<1>1. /\ s.outbound \in [Node -> OptEntry]
      /\ s.inbound \in [Node -> [Ticket -> Until]]
      /\ s.last_deliveries \in [Node -> Stamp]
  BY DEF TicketStore
<1>2. clean_expired(s) = [outbound |-> out, inbound |-> in, last_deliveries |-> s.last_deliveries]
  BY DEF clean_expired, Tickets
<1>3. out \in [Node -> OptEntry] /\ in \in [Node -> [Ticket -> Until]]
  BY <1>1, Numbers, ZenonT(60) DEF OptEntry, get_outbound_ticket
<1>4. \A q \in Node : \A t \in Ticket : s.inbound[q][t] > now => in[q][t] = s.inbound[q][t]
  <2> SUFFICES ASSUME NEW q \in Node, NEW t \in Ticket, s.inbound[q][t] > now
               PROVE  now <= s.inbound[q][t] + TicketGrace
    OBVIOUS
  <2>1. s.inbound[q][t] \in Nat /\ now \in Nat /\ TicketGrace \in Nat
    BY <1>1, Numbers, TicketsAssumption
  <2> QED
    BY SMTT(60), <2>1
<1>5. /\ clean_expired(s).outbound = out /\ clean_expired(s).inbound = in
      /\ clean_expired(s) \in TicketStore
  BY SMTT(60), <1>1, <1>2, <1>3 DEF TicketStore
<1> HIDE DEF out, in
<1>6. Keeps(s, clean_expired(s))
  BY <1>4, <1>5 DEF Keeps
<1> QED
  BY <1>5, <1>6, ZenonT(60) DEF out, in, get_outbound_ticket

(* A new ticket is drawn only when all others are due for renewal, so the    *)
(* tickets stay spaced.                                                      *)
LEMMA DrawSpaced ==
  ASSUME NEW s \in TicketStore, NEW q \in Node, NEW t \in Ticket, now \in Time,
         Spaced(s), Lasting(s, q) = {}, s.inbound[q][t] = Never
  PROVE  Spaced(Draw(s, q, t)) /\ Keeps(s, Draw(s, q, t))
<1> DEFINE s2 == Draw(s, q, t)
<1>1. /\ s2.inbound[q][t] = now + TicketExpiry
      /\ \A q2 \in Node : \A t2 \in Ticket :
           q2 # q \/ t2 # t => s2.inbound[q2][t2] = s.inbound[q2][t2]
  BY DrawEffect
<1>2. \A u \in Ticket : s.inbound[q][u] \in Nat
  <2>1. s.inbound \in [Node -> [Ticket -> Until]]
    BY DEF TicketStore
  <2> QED
    BY <2>1, Numbers
<1>3. \A u \in Ticket : s.inbound[q][u] # Never => s.inbound[q][u] - now <= TicketRenew
  BY SMTT(60), <1>2, Numbers, TicketsAssumption DEF Lasting
<1>4. \A u \in Ticket : s.inbound[q][u] # Never =>
         /\ Apart(now + TicketExpiry, s.inbound[q][u])
         /\ Apart(s.inbound[q][u], now + TicketExpiry)
  BY SMTT(60), <1>2, <1>3, Numbers, TicketsAssumption DEF Apart
<1>5. Keeps(s, s2)
  <2> SUFFICES ASSUME NEW q2 \in Node, NEW t2 \in Ticket, s.inbound[q2][t2] > now
               PROVE  s2.inbound[q2][t2] = s.inbound[q2][t2]
    BY DEF Keeps
  <2>1. q2 # q \/ t2 # t
    BY SMTT(60), Numbers DEF Never
  <2> QED
    BY <1>1, <2>1
<1> HIDE DEF s2
<1>6. Spaced(s2)
  <2> SUFFICES ASSUME NEW q2 \in Node, NEW t2 \in Ticket, NEW u2 \in Ticket, t2 # u2,
                      s2.inbound[q2][t2] # Never, s2.inbound[q2][u2] # Never
               PROVE  Apart(s2.inbound[q2][t2], s2.inbound[q2][u2])
    BY DEF Spaced
  <2>1. CASE q2 = q /\ t2 = t
    BY <1>1, <1>4, <2>1
  <2>2. CASE q2 = q /\ u2 = t
    BY <1>1, <1>4, <2>2
  <2>3. CASE q2 # q \/ (t2 # t /\ u2 # t)
    BY <1>1, <2>3 DEF Spaced
  <2> QED
    BY <2>1, <2>2, <2>3
<1> QED
  BY <1>5, <1>6 DEF s2

-----------------------------------------------------------------------------
(* What a step does to the stores                                            *)

(* A store n may go on with: nothing that has not expired is lost, and a new *)
(* entry of the tickets of others came in a packet.                          *)
Arrived(n, q) == {p \in sent : From[p.id] = q /\ Dest[p.id] = n}
NewStore(n, s) ==
    /\ s \in TicketStore
    /\ Keeps(store[n], s)
    /\ Spaced(s)
    /\ \A q \in Node : \A t \in Ticket : s.inbound[q][t] # Never => t \in issued'
    /\ \A q \in Node : \/ s.outbound[q] \in {store[n].outbound[q], NoEntry}
                       \/ \E p \in Arrived(n, q) : s.outbound[q] = p.field

(* A store that does not change is such a store.                             *)
LEMMA SameStore ==
  ASSUME TicketsInv, NEW n \in Node, issued \subseteq issued'
  PROVE  NewStore(n, store[n])
  BY DEF TicketsInv, TypeOK, NewStore, Keeps, TicketsSpaced, Drawn

(* A cleaned store is.                                                       *)
LEMMA CleanedStore ==
  ASSUME TicketsInv, NEW n \in Node, issued' = issued, NEW s \in TicketStore, NewStore(n, s)
  PROVE  NewStore(n, clean_expired(s))
<1>1. now \in Time
  BY DEF TicketsInv, TypeOK
<1> DEFINE c == clean_expired(s)
<1>2. /\ c \in TicketStore
      /\ Keeps(s, c)
      /\ \A q \in Node : c.outbound[q] \in {s.outbound[q], NoEntry}
      /\ \A q \in Node : \A t \in Ticket : c.inbound[q][t] \in {s.inbound[q][t], Never}
  BY <1>1, CleanEffect
<1> HIDE DEF c
<1>3. Keeps(store[n], c)
  BY <1>2 DEF Keeps, NewStore
<1>4. Spaced(c)
  BY <1>2, ZenonT(60) DEF Spaced, NewStore
<1>5. \A q \in Node : \A t \in Ticket : c.inbound[q][t] # Never => t \in issued'
  BY <1>2 DEF NewStore
<1>6. \A q \in Node : \/ c.outbound[q] \in {store[n].outbound[q], NoEntry}
                      \/ \E p \in Arrived(n, q) : c.outbound[q] = p.field
  <2> TAKE q \in Node
  <2>1. c.outbound[q] = s.outbound[q] \/ c.outbound[q] = NoEntry
    BY <1>2
  <2>2. \/ s.outbound[q] \in {store[n].outbound[q], NoEntry}
        \/ \E p \in Arrived(n, q) : s.outbound[q] = p.field
    BY DEF NewStore
  <2> QED
    BY <2>1, <2>2
<1> QED
  BY <1>2, <1>3, <1>4, <1>5, <1>6 DEF c, NewStore

(* What generate_ticket gives: entry x and store s.                          *)
Given(n, q, x, s) ==
    \/ \E t \in Lasting(store[n], q) :
        /\ x = [ticket |-> t, expires |-> store[n].inbound[q][t]]
        /\ s = store[n]
        /\ issued' = issued
    \/ \E t \in Ticket \ issued :
        /\ Lasting(store[n], q) = {}
        /\ x = [ticket |-> t, expires |-> now + TicketExpiry]
        /\ s = Draw(store[n], q, t)
        /\ issued' = issued \cup {t}

(* The entry is on file, unexpired, and nothing else has changed.            *)
LEMMA GivenEffect ==
  ASSUME TicketsInv, NEW n \in Node, NEW q \in Node, NEW x, NEW s, Given(n, q, x, s)
  PROVE  /\ NewStore(n, s)
         /\ x \in Entry /\ s.inbound[q][x.ticket] = x.expires
         /\ issued \subseteq issued' /\ issued' \subseteq Ticket
<1>1. now \in Time /\ store[n] \in TicketStore /\ Spaced(store[n]) /\ Drawn(store[n])
      /\ issued \subseteq Ticket /\ store[n].inbound \in [Node -> [Ticket -> Until]]
  BY DEF TicketsInv, TypeOK, TicketsSpaced, TicketStore
<1>2. CASE \E t \in Lasting(store[n], q) :
             /\ x = [ticket |-> t, expires |-> store[n].inbound[q][t]]
             /\ s = store[n]
             /\ issued' = issued
  <2>1. PICK t \in Lasting(store[n], q) :
             /\ x = [ticket |-> t, expires |-> store[n].inbound[q][t]]
             /\ s = store[n]
             /\ issued' = issued
    BY <1>2
  <2>2. t \in Ticket /\ store[n].inbound[q][t] \in Until
    BY <1>1 DEF Lasting
  <2> QED
    BY <1>1, <2>1, <2>2, SameStore DEF Entry
<1>3. CASE \E t \in Ticket \ issued :
             /\ Lasting(store[n], q) = {}
             /\ x = [ticket |-> t, expires |-> now + TicketExpiry]
             /\ s = Draw(store[n], q, t)
             /\ issued' = issued \cup {t}
  <2>1. PICK t \in Ticket \ issued :
             /\ Lasting(store[n], q) = {}
             /\ x = [ticket |-> t, expires |-> now + TicketExpiry]
             /\ s = Draw(store[n], q, t)
             /\ issued' = issued \cup {t}
    BY <1>3
  <2>2. store[n].inbound[q][t] = Never
    BY <1>1, <2>1 DEF Drawn
  <2>3. Spaced(s) /\ Keeps(store[n], s)
    BY <1>1, <2>1, <2>2, DrawSpaced
  <2>4. /\ s \in TicketStore
        /\ s.outbound = store[n].outbound
        /\ s.inbound[q][t] = now + TicketExpiry
        /\ \A q2 \in Node : \A t2 \in Ticket :
             q2 # q \/ t2 # t => s.inbound[q2][t2] = store[n].inbound[q2][t2]
    <3>1. now \in Time /\ store[n] \in TicketStore /\ t \in Ticket /\ s = Draw(store[n], q, t)
      BY <1>1, <2>1
    <3> DEFINE d == Draw(store[n], q, t)
    <3>2. /\ d \in TicketStore
          /\ d.outbound = store[n].outbound
          /\ d.inbound[q][t] = now + TicketExpiry
          /\ \A q2 \in Node : \A t2 \in Ticket :
               q2 # q \/ t2 # t => d.inbound[q2][t2] = store[n].inbound[q2][t2]
      BY <3>1, DrawEffect, Zenon
    <3> HIDE DEF d
    <3> QED
      BY <3>1, <3>2, Zenon DEF d
  <2>5. \A q2 \in Node : \A t2 \in Ticket : s.inbound[q2][t2] # Never => t2 \in issued'
    BY <1>1, <2>1, <2>4 DEF Drawn
  <2>6. now + TicketExpiry \in Until
    BY <1>1, Numbers
  <2>7. x \in Entry /\ x.ticket = t /\ x.expires = now + TicketExpiry
    BY <2>1, <2>6 DEF Entry
  <2> QED
    BY <1>1, <2>1, <2>3, <2>4, <2>5, <2>7 DEF NewStore
<1> QED
  BY <1>2, <1>3 DEF Given

(* Given describes the members of generate_ticket.                           *)
LEMMA GenerateIsGiven ==
  ASSUME NEW n, NEW q, NEW g \in generate_ticket(store[n], q), issued' = issued \cup g.drawn
  PROVE  Given(n, q, g.entry, g.store)
<1>1. CASE Lasting(store[n], q) # {}
  <2>1. PICK t \in Lasting(store[n], q) :
          g = [entry |-> [ticket |-> t, expires |-> store[n].inbound[q][t]],
               store |-> store[n], drawn |-> {}]
    BY <1>1 DEF generate_ticket
  <2>2. issued' = issued
    BY <2>1
  <2> QED
    BY <2>1, <2>2 DEF Given
<1>2. CASE Lasting(store[n], q) = {}
  <2>1. PICK t \in Ticket \ issued :
          g = [entry |-> [ticket |-> t, expires |-> now + TicketExpiry],
               store |-> Draw(store[n], q, t), drawn |-> {t}]
    BY <1>2 DEF generate_ticket
  <2> QED
    BY <1>2, <2>1 DEF Given
<1> QED
  BY <1>1, <1>2

(* The two operations that call generate_ticket.                             *)
LEMMA GenerateGives ==
  ASSUME NEW n, NEW q, GenerateTicket(n, q)
  PROVE  \E x, s : Given(n, q, x, s) /\ persist_ticket_store(n, s)
  BY GenerateIsGiven, ZenonT(60) DEF GenerateTicket

(* A packet handle_outbound queues for m, with ticket x for the receiver.    *)
Queued(m, x) ==
    queue' = queue \cup {[id |-> m, field |-> x,
                          ticket |-> get_outbound_ticket(store[From[m]], Dest[m]),
                          work |-> prices[From[m]][Dest[m]].cost]}

(* handle_outbound queues a packet with a ticket generate_ticket gave, or    *)
(* without one.                                                              *)
LEMMA OutboundGives ==
  ASSUME NEW m, handle_outbound(m)
  PROVE  \/ \E x, s : /\ Given(From[m], Dest[m], x, s)
                      /\ persist_ticket_store(From[m], s)
                      /\ Queued(m, x)
         \/ Queued(m, NoEntry) /\ UNCHANGED <<store, disk, issued>>
  BY GenerateIsGiven, ZenonT(60) DEF handle_outbound, Queued

(* The packet process_inbound_message takes came over the network.           *)
LEMMA HeadPacket ==
  ASSUME TicketsInv, NEW n \in Node, inbox[n] # <<>>
  PROVE  /\ Head(inbox[n]) \in sent /\ Head(inbox[n]) \in Packet
         /\ Head(inbox[n]).id \in Message /\ Dest[Head(inbox[n]).id] = n
<1>1. inbox[n] \in Seq(Packet) /\ sent \subseteq Packet
  BY DEF TicketsInv, TypeOK
<1>2. 1 \in 1 .. Len(inbox[n]) /\ Head(inbox[n]) = inbox[n][1]
  BY SMTT(60), <1>1
<1>3. Head(inbox[n]) \in sent /\ Dest[Head(inbox[n]).id] = n
  BY <1>2 DEF TicketsInv, InboxSent
<1> QED
  BY <1>1, <1>3 DEF Packet

(* A step leaves every router a store it may go on with.                     *)
LEMMA StoreStep ==
  ASSUME TicketsInv, [Next]_vars
  PROVE  /\ store' \in [Node -> TicketStore]
         /\ issued \subseteq issued' /\ issued' \subseteq Ticket
         /\ \A n \in Node : NewStore(n, store'[n])
<1>1. /\ store \in [Node -> TicketStore] /\ issued \subseteq Ticket /\ DiskCurrent
      /\ now \in Time
  BY DEF TicketsInv, TypeOK
<1>2. ASSUME NEW n \in Node, NEW s, NewStore(n, s), store' = [store EXCEPT ![n] = s],
             issued \subseteq issued', issued' \subseteq Ticket
      PROVE  /\ store' \in [Node -> TicketStore]
             /\ issued \subseteq issued' /\ issued' \subseteq Ticket
             /\ \A m \in Node : NewStore(m, store'[m])
  BY <1>1, <1>2, SameStore DEF NewStore
<1>3. ASSUME store' = store, issued' = issued
      PROVE  /\ store' \in [Node -> TicketStore]
             /\ issued \subseteq issued' /\ issued' \subseteq Ticket
             /\ \A m \in Node : NewStore(m, store'[m])
  BY <1>1, <1>3, SameStore
<1>4. ASSUME NEW n \in Node, NEW validated \in BOOLEAN, inbox[n] # <<>>, issued' = issued
      PROVE  NewStore(n, Noted(n, Head(inbox[n]), validated))
  <2> DEFINE p == Head(inbox[n])
  <2>1. p \in sent /\ Dest[p.id] = n /\ sent \subseteq Packet
    BY <1>4, HeadPacket DEF TicketsInv, TypeOK
  <2>2. NewStore(n, store[n])
    BY <1>4, SameStore
  <2>3. ASSUME p.field # NoEntry
        PROVE  NewStore(n, remember_ticket(store[n], From[p.id], p.field))
    <3>1. p.field \in Entry /\ p.id \in Message /\ From[p.id] \in Node
      BY <2>1, <2>3, TicketsAssumption DEF Packet, OptEntry
    <3>2. p \in Arrived(n, From[p.id])
      BY <2>1 DEF Arrived
    <3> DEFINE q == From[p.id]  x == p.field  s == remember_ticket(store[n], q, x)
    <3>3. /\ s \in TicketStore /\ s.inbound = store[n].inbound /\ s.outbound[q] = x
          /\ \A q2 \in Node : q2 # q => s.outbound[q2] = store[n].outbound[q2]
      BY SMTT(60), <1>1, <3>1, RememberEffect
    <3> HIDE DEF s, q, x
    <3>4. \A q2 \in Node : \/ s.outbound[q2] \in {store[n].outbound[q2], NoEntry}
                           \/ \E p2 \in Arrived(n, q2) : s.outbound[q2] = p2.field
      BY <3>2, <3>3 DEF q, x
    <3>5. Keeps(store[n], s) /\ Spaced(s)
      BY <2>2, <3>3 DEF NewStore, Keeps, Spaced
    <3>6. \A q2 \in Node : \A t \in Ticket : s.inbound[q2][t] # Never => t \in issued'
      BY <2>2, <3>3 DEF NewStore
    <3>7. NewStore(n, s)
      BY <3>3, <3>4, <3>5, <3>6 DEF NewStore
    <3> QED
      BY <3>7 DEF s, q, x
  <2> QED
    BY <2>2, <2>3 DEF Noted
<1>5. ASSUME NEW n \in Node, NEW s, NewStore(n, s), issued' = issued
      PROVE  NewStore(n, clean_expired(s))
  BY <1>5, CleanedStore DEF NewStore
<1>6. ASSUME NEW n \in Node, NEW q \in Node, GenerateTicket(n, q)
      PROVE  /\ store' \in [Node -> TicketStore]
             /\ issued \subseteq issued' /\ issued' \subseteq Ticket
             /\ \A m \in Node : NewStore(m, store'[m])
  <2>1. PICK x, s : Given(n, q, x, s) /\ persist_ticket_store(n, s)
    BY <1>6, GenerateGives
  <2> QED
    BY <1>2, <2>1, GivenEffect DEF persist_ticket_store
<1>7. ASSUME NEW n \in Node, NEW q \in Node, mark_ticket_delivered(n, q)
      PROVE  /\ store' \in [Node -> TicketStore]
             /\ issued \subseteq issued' /\ issued' \subseteq Ticket
             /\ \A m \in Node : NewStore(m, store'[m])
  <2> DEFINE last == [store[n].last_deliveries EXCEPT ![q] = now]
             s == Tickets(store[n].outbound, store[n].inbound, last)
  <2>1. last \in [Node -> Stamp]
    BY <1>1, Numbers DEF TicketStore
  <2>2. s \in TicketStore /\ s.inbound = store[n].inbound /\ s.outbound = store[n].outbound
    BY <1>1, <2>1 DEF TicketStore, Tickets
  <2>3. issued' = issued /\ store' = [store EXCEPT ![n] = s]
    BY <1>7 DEF mark_ticket_delivered, persist_ticket_store
  <2>4. NewStore(n, store[n])
    BY <2>3, SameStore
  <2> HIDE DEF s
  <2>5. NewStore(n, s)
    BY <2>2, <2>4 DEF NewStore, Keeps, Spaced
  <2> QED
    BY <1>1, <1>2, <2>3, <2>5
<1>8. ASSUME NEW n \in Node, clean_tickets(n)
      PROVE  /\ store' \in [Node -> TicketStore]
             /\ issued \subseteq issued' /\ issued' \subseteq Ticket
             /\ \A m \in Node : NewStore(m, store'[m])
  <2>1. issued' = issued /\ store' = [store EXCEPT ![n] = clean_expired(store[n])]
    BY <1>8 DEF clean_tickets, persist_ticket_store
  <2>2. NewStore(n, clean_expired(store[n]))
    BY <1>5, <2>1, SameStore
  <2> QED
    BY <1>1, <1>2, <2>1, <2>2
<1>9. ASSUME NEW m \in Message, handle_outbound(m)
      PROVE  /\ store' \in [Node -> TicketStore]
             /\ issued \subseteq issued' /\ issued' \subseteq Ticket
             /\ \A n \in Node : NewStore(n, store'[n])
  <2>1. From[m] \in Node /\ Dest[m] \in Node
    BY TicketsAssumption
  <2>2. CASE store' = store /\ issued' = issued
    BY <1>3, <2>2
  <2>3. CASE \E x, s : Given(From[m], Dest[m], x, s) /\ persist_ticket_store(From[m], s)
    <3>1. PICK x, s : Given(From[m], Dest[m], x, s) /\ persist_ticket_store(From[m], s)
      BY <2>3
    <3> QED
      BY <1>2, <2>1, <3>1, GivenEffect DEF persist_ticket_store
  <2> QED
    BY <1>9, <2>2, <2>3, OutboundGives
<1>10. ASSUME NEW n \in Node, NEW validated \in BOOLEAN, process_inbound_message(n, validated)
       PROVE  /\ store' \in [Node -> TicketStore]
              /\ issued \subseteq issued' /\ issued' \subseteq Ticket
              /\ \A m \in Node : NewStore(m, store'[m])
  <2> DEFINE s == Noted(n, Head(inbox[n]), validated)
  <2>1. /\ inbox[n] # <<>> /\ issued' = issued
        /\ store' = store \/ store' = [store EXCEPT ![n] = s]
    BY <1>10 DEF process_inbound_message, persist_ticket_store
  <2>2. NewStore(n, s)
    BY <1>4, <2>1
  <2> HIDE DEF s
  <2> QED
    BY <1>1, <1>2, <1>3, <2>1, <2>2
<1>11. ASSUME NEW n \in Node, NEW files, with_store_and_root(n, files), NewStore(n, files.store)
       PROVE  /\ store' \in [Node -> TicketStore]
              /\ issued \subseteq issued' /\ issued' \subseteq Ticket
              /\ \A m \in Node : NewStore(m, store'[m])
  <2>1. issued' = issued /\ store' = [store EXCEPT ![n] = clean_expired(files.store)]
    BY <1>11 DEF with_store_and_root
  <2> QED
    BY <1>1, <1>2, <1>5, <1>11, <2>1
<1>12. ASSUME NEW n \in Node, Restart(n)
       PROVE  /\ store' \in [Node -> TicketStore]
              /\ issued \subseteq issued' /\ issued' \subseteq Ticket
              /\ \A m \in Node : NewStore(m, store'[m])
  <2>1. disk[n].store = store[n]
    <3>1. disk[n] = Files(store[n], prices[n], deliveries[n])
      BY <1>1 DEF DiskCurrent
    <3> QED
      BY SMTT(60), <3>1 DEF Files
  <2>2. issued' = issued
    BY <1>12 DEF Restart, with_store_and_root
  <2> QED
    BY <1>11, <1>12, <2>1, <2>2, SameStore DEF Restart
<1>13. ASSUME NEW n \in Node, CrashInProcess(n)
       PROVE  /\ store' \in [Node -> TicketStore]
              /\ issued \subseteq issued' /\ issued' \subseteq Ticket
              /\ \A m \in Node : NewStore(m, store'[m])
  <2> DEFINE f == Files(Noted(n, Head(inbox[n]), TRUE), disk[n].prices, disk[n].deliveries)
  <2>1. inbox[n] # <<>> /\ with_store_and_root(n, f)
    BY <1>13 DEF CrashInProcess
  <2>2. f.store = Noted(n, Head(inbox[n]), TRUE)
    BY DEF Files
  <2> HIDE DEF f
  <2>3. issued' = issued
    BY <2>1 DEF with_store_and_root
  <2> QED
    BY <1>4, <1>11, <2>1, <2>2, <2>3
<1>14. CASE UNCHANGED <<store, issued>>
  BY <1>3, <1>14
<1> QED
  BY <1>6, <1>7, <1>8, <1>9, <1>10, <1>12, <1>13, <1>14, ZenonT(60)
     DEF Next, vars, set_outbound_stamp_cost, ignore_destination, set_inbound_stamp_cost,
         clean_transient_id_caches, deliver, receive_packet, receive_inbound, Tick

-----------------------------------------------------------------------------
(* Prices, deliveries and files                                              *)

(* The fields of what is on file.                                            *)
LEMMA OnFile ==
  ASSUME TicketsInv, NEW n \in Node
  PROVE  /\ disk[n] = Files(store[n], prices[n], deliveries[n])
         /\ disk[n].store = store[n] /\ disk[n].prices = prices[n]
         /\ disk[n].deliveries = deliveries[n]
<1>1. disk[n] = Files(store[n], prices[n], deliveries[n])
  BY DEF TicketsInv, DiskCurrent
<1> QED
  BY SMTT(60), <1>1 DEF Files

(* A router that writes its files, the others being left alone, leaves all   *)
(* files current.                                                            *)
LEMMA Written ==
  ASSUME TicketsInv, NEW n \in Node,
         disk' = [disk EXCEPT ![n] = Files(store'[n], prices'[n], deliveries'[n])],
         \A m \in Node \ {n} : /\ store'[m] = store[m] /\ prices'[m] = prices[m]
                               /\ deliveries'[m] = deliveries[m]
  PROVE  DiskCurrent'
<1>1. disk = [m \in Node |-> Files(store[m], prices[m], deliveries[m])]
  BY DEF TicketsInv, DiskCurrent
<1>2. disk' = [m \in Node |-> IF m = n THEN Files(store'[n], prices'[n], deliveries'[n])
                                      ELSE Files(store[m], prices[m], deliveries[m])]
  BY <1>1
<1> QED
  BY <1>2, Zenon DEF DiskCurrent

(* persist_ticket_store writes no more than it must.                         *)
LEMMA Persisted ==
  ASSUME TicketsInv, NEW n \in Node, NEW s, persist_ticket_store(n, s),
         prices' = prices, deliveries' = deliveries
  PROVE  DiskCurrent'
<1>1. disk' = [disk EXCEPT ![n] = Files(s, disk[n].prices, disk[n].deliveries)]
  BY DEF persist_ticket_store
<1>2. store' = [store EXCEPT ![n] = s] /\ store'[n] = s
  BY DEF persist_ticket_store, TicketsInv, TypeOK
<1>3. disk' = [disk EXCEPT ![n] = Files(store'[n], prices'[n], deliveries'[n])]
  BY <1>1, <1>2, OnFile
<1>4. \A m \in Node \ {n} : store'[m] = store[m]
  BY <1>2 DEF TicketsInv, TypeOK
<1> QED
  BY <1>3, <1>4, Written

(* After a step whatever a restart needs has been written again.             *)
LEMMA DiskStep ==
  ASSUME TicketsInv, [Next]_vars
  PROVE  DiskCurrent'
<1>1. /\ DOMAIN store = Node /\ DOMAIN prices = Node /\ DOMAIN deliveries = Node
      /\ DOMAIN disk = Node
  BY DEF TicketsInv, TypeOK
<1>2. ASSUME NEW n \in Node, NEW q \in Node, GenerateTicket(n, q)
      PROVE  DiskCurrent'
  <2>1. PICK x, s : persist_ticket_store(n, s)
    BY <1>2, GenerateGives
  <2> QED
    BY <1>2, <2>1, Persisted DEF GenerateTicket
<1>3. ASSUME NEW n \in Node, NEW q \in Node, mark_ticket_delivered(n, q)
      PROVE  DiskCurrent'
  BY <1>3, Persisted DEF mark_ticket_delivered
<1>4. ASSUME NEW n \in Node, clean_tickets(n)
      PROVE  DiskCurrent'
  BY <1>4, Persisted DEF clean_tickets
<1>5. ASSUME NEW n \in Node, NEW q \in Node, NEW cost \in 0 .. MaxCost,
             set_outbound_stamp_cost(n, q, cost)
      PROVE  DiskCurrent'
  <2>1. disk' = [disk EXCEPT ![n] = Files(disk[n].store, prices'[n], disk[n].deliveries)]
    BY <1>5 DEF set_outbound_stamp_cost
  <2>2. /\ store' = store /\ deliveries' = deliveries
        /\ \A m \in Node \ {n} : prices'[m] = prices[m]
    BY <1>1, <1>5 DEF set_outbound_stamp_cost
  <2>3. disk' = [disk EXCEPT ![n] = Files(store'[n], prices'[n], deliveries'[n])]
    BY <2>1, <2>2, OnFile
  <2> QED
    BY <2>2, <2>3, Written
<1>6. ASSUME NEW m \in Message, handle_outbound(m)
      PROVE  DiskCurrent'
  <2>1. From[m] \in Node /\ prices' = prices /\ deliveries' = deliveries
    BY <1>6, TicketsAssumption DEF handle_outbound
  <2>2. CASE \E s : persist_ticket_store(From[m], s)
    BY <2>1, <2>2, Persisted
  <2>3. CASE UNCHANGED <<store, disk>>
    BY <2>1, <2>3 DEF TicketsInv, DiskCurrent
  <2> QED
    BY <1>6, <2>2, <2>3, OutboundGives
<1>7. ASSUME NEW n \in Node, NEW validated \in BOOLEAN, process_inbound_message(n, validated)
      PROVE  DiskCurrent'
  <2> DEFINE s == Noted(n, Head(inbox[n]), validated)
  <2>1. CASE UNCHANGED <<store, deliveries, disk>>
    BY <1>7, <2>1 DEF TicketsInv, DiskCurrent, process_inbound_message
  <2>2. CASE persist_ticket_store(n, s) /\ UNCHANGED deliveries
    BY <1>7, <2>2, Persisted DEF process_inbound_message
  <2>3. CASE /\ store' = [store EXCEPT ![n] = s]
             /\ deliveries' = [deliveries EXCEPT ![n][Head(inbox[n]).id] = now]
             /\ disk' = [disk EXCEPT ![n] = Files(s, @.prices, deliveries'[n])]
    <3>1. prices' = prices
      BY <1>7 DEF process_inbound_message
    <3>2. disk' = [disk EXCEPT ![n] = Files(s, disk[n].prices, deliveries'[n])]
      BY <2>3
    <3> HIDE DEF s
    <3>3. store'[n] = s /\ \A m \in Node \ {n} : store'[m] = store[m]
      BY <1>1, <2>3
    <3>4. disk' = [disk EXCEPT ![n] = Files(store'[n], prices'[n], deliveries'[n])]
      BY <3>1, <3>2, <3>3, OnFile
    <3>5. \A m \in Node \ {n} : deliveries'[m] = deliveries[m]
      BY <1>1, <2>3
    <3> QED
      BY <3>1, <3>3, <3>4, <3>5, Written
  <2> QED
    BY <1>7, <2>1, <2>2, <2>3 DEF process_inbound_message
<1>8. ASSUME NEW n \in Node, clean_transient_id_caches(n)
      PROVE  DiskCurrent'
  <2>1. /\ disk' = [disk EXCEPT ![n] = Files(disk[n].store, disk[n].prices, deliveries'[n])]
        /\ store' = store /\ prices' = prices
        /\ \A m \in Node \ {n} : deliveries'[m] = deliveries[m]
    BY <1>1, <1>8 DEF clean_transient_id_caches
  <2>2. disk' = [disk EXCEPT ![n] = Files(store'[n], prices'[n], deliveries'[n])]
    BY <2>1, OnFile
  <2> QED
    BY <2>1, <2>2, Written
<1>9. ASSUME NEW n \in Node, NEW files, with_store_and_root(n, files)
      PROVE  DiskCurrent'
  <2>1. disk' = [disk EXCEPT ![n] = Files(store'[n], prices'[n], deliveries'[n])]
    BY <1>9 DEF with_store_and_root
  <2>2. \A m \in Node \ {n} : /\ store'[m] = store[m] /\ prices'[m] = prices[m]
                              /\ deliveries'[m] = deliveries[m]
    BY <1>1, <1>9 DEF with_store_and_root
  <2> QED
    BY <2>1, <2>2, Written
<1>10. CASE UNCHANGED <<store, prices, deliveries, disk>>
  BY <1>10 DEF TicketsInv, DiskCurrent
<1> QED
  BY <1>2, <1>3, <1>4, <1>5, <1>6, <1>7, <1>8, <1>9, <1>10, ZenonT(60)
     DEF Next, vars, ignore_destination, set_inbound_stamp_cost, Restart, CrashInProcess,
         deliver, receive_packet, receive_inbound, Tick

-----------------------------------------------------------------------------
(* Types                                                                     *)

(* The caches keep their types when they are cleaned.                        *)
LEMMA CleanedTypes ==
  ASSUME NEW d \in [Message -> Stamp], NEW c \in [Node -> Price]
  PROVE  /\ clean_transient_cache(d) \in [Message -> Stamp]
         /\ clean_outbound_stamp_costs(c) \in [Node -> Price]
<1>1. NoPrice \in Price
  BY Numbers, TicketsAssumption, SMTT(60) DEF NoPrice, Price
<1> QED
  BY <1>1, Numbers, ZenonT(60) DEF clean_transient_cache, clean_outbound_stamp_costs

(* Prices, deliveries, requirements and what is ignored.                     *)
LEMMA TableTypes ==
  ASSUME TicketsInv, [Next]_vars
  PROVE  /\ prices' \in [Node -> [Node -> Price]]
         /\ deliveries' \in [Node -> [Message -> Stamp]]
         /\ required' \in [Node -> 0 .. MaxCost]
         /\ ignored' \in [Node -> SUBSET Node]
         /\ acceptedAt' \in [Message -> Stamp]
<1>1. /\ prices \in [Node -> [Node -> Price]] /\ deliveries \in [Node -> [Message -> Stamp]]
      /\ required \in [Node -> 0 .. MaxCost] /\ ignored \in [Node -> SUBSET Node]
      /\ acceptedAt \in [Message -> Stamp] /\ now \in Stamp /\ 0 \in 0 .. MaxCost
  <2>1. 0 \in 0 .. MaxCost
    BY SMTT(60), TicketsAssumption
  <2> QED
    BY <2>1, Numbers DEF TicketsInv, TypeOK
<1>2. ASSUME NEW n \in Node, NEW q \in Node, NEW cost \in 0 .. MaxCost,
             set_outbound_stamp_cost(n, q, cost)
      PROVE  prices' \in [Node -> [Node -> Price]]
  <2>1. NoPrice \in Price /\ [at |-> now, cost |-> cost] \in Price
    BY <1>1, Numbers, SMTT(60) DEF NoPrice, Price
  <2> HIDE DEF NoPrice
  <2> QED
    BY <1>1, <1>2, <2>1 DEF set_outbound_stamp_cost
<1>3. ASSUME NEW n \in Node, NEW validated \in BOOLEAN, process_inbound_message(n, validated)
      PROVE  /\ deliveries' \in [Node -> [Message -> Stamp]]
             /\ acceptedAt' \in [Message -> Stamp]
  <2>1. inbox[n] # <<>>
    BY <1>3 DEF process_inbound_message
  <2>2. Head(inbox[n]).id \in Message
    BY <2>1, HeadPacket
  <2>3. /\ deliveries' \in {deliveries, [deliveries EXCEPT ![n][Head(inbox[n]).id] = now]}
        /\ acceptedAt' \in {acceptedAt, [acceptedAt EXCEPT ![Head(inbox[n]).id] = now]}
    BY <1>3, Zenon DEF process_inbound_message
  <2> DEFINE i == Head(inbox[n]).id
  <2> HIDE DEF i
  <2>4. i \in Message
    BY <2>2 DEF i
  <2>5. /\ [deliveries EXCEPT ![n][i] = now] \in [Node -> [Message -> Stamp]]
        /\ [acceptedAt EXCEPT ![i] = now] \in [Message -> Stamp]
    BY <1>1, <2>4
  <2> QED
    BY <1>1, <2>3, <2>5, Zenon DEF i
<1>4. ASSUME NEW n \in Node, clean_transient_id_caches(n)
      PROVE  deliveries' \in [Node -> [Message -> Stamp]]
  BY <1>1, <1>4, CleanedTypes DEF clean_transient_id_caches
<1>5. ASSUME NEW n \in Node, NEW files, with_store_and_root(n, files),
             files.prices = disk[n].prices, files.deliveries = disk[n].deliveries
      PROVE  /\ prices' \in [Node -> [Node -> Price]]
             /\ deliveries' \in [Node -> [Message -> Stamp]]
             /\ required' \in [Node -> 0 .. MaxCost]
             /\ ignored' \in [Node -> SUBSET Node]
  <2>1. /\ clean_outbound_stamp_costs(files.prices) \in [Node -> Price]
        /\ clean_transient_cache(files.deliveries) \in [Message -> Stamp]
    BY <1>1, <1>5, OnFile, CleanedTypes
  <2> QED
    BY <1>1, <1>5, <2>1 DEF with_store_and_root
<1>6. ASSUME NEW n \in Node, Restart(n) \/ CrashInProcess(n)
      PROVE  /\ prices' \in [Node -> [Node -> Price]]
             /\ deliveries' \in [Node -> [Message -> Stamp]]
             /\ required' \in [Node -> 0 .. MaxCost]
             /\ ignored' \in [Node -> SUBSET Node]
  <2>1. CASE Restart(n)
    BY <1>5, <2>1 DEF Restart
  <2>2. CASE CrashInProcess(n)
    <3> DEFINE f == Files(Noted(n, Head(inbox[n]), TRUE), disk[n].prices, disk[n].deliveries)
    <3>1. f.prices = disk[n].prices /\ f.deliveries = disk[n].deliveries
      BY DEF Files
    <3>2. with_store_and_root(n, f)
      BY <2>2 DEF CrashInProcess
    <3> HIDE DEF f
    <3> QED
      BY <1>5, <3>1, <3>2
  <2> QED
    BY <1>6, <2>1, <2>2
<1>7. /\ prices' \in [Node -> [Node -> Price]]
      /\ deliveries' \in [Node -> [Message -> Stamp]]
  BY <1>1, <1>2, <1>3, <1>4, <1>6, ZenonT(60)
     DEF Next, vars, GenerateTicket, mark_ticket_delivered, clean_tickets, handle_outbound,
         ignore_destination, set_inbound_stamp_cost, deliver, receive_packet, receive_inbound,
         Tick, set_outbound_stamp_cost, process_inbound_message, clean_transient_id_caches
<1>8. required' \in [Node -> 0 .. MaxCost]
  <2>1. ASSUME NEW n \in Node, NEW cost \in 0 .. MaxCost, set_inbound_stamp_cost(n, cost)
        PROVE  required' \in [Node -> 0 .. MaxCost]
    BY <1>1, <2>1 DEF set_inbound_stamp_cost
  <2> QED
    BY <1>1, <2>1, <1>6, ZenonT(60)
       DEF Next, vars, GenerateTicket, mark_ticket_delivered, clean_tickets, handle_outbound,
           ignore_destination, deliver, receive_packet, receive_inbound,
           Tick, set_outbound_stamp_cost, process_inbound_message, clean_transient_id_caches
<1>9. ignored' \in [Node -> SUBSET Node]
  <2>1. ASSUME NEW n \in Node, NEW q \in Node, NEW on \in BOOLEAN, ignore_destination(n, q, on)
        PROVE  ignored' \in [Node -> SUBSET Node]
    <3> DEFINE S == IF on THEN ignored[n] \cup {q} ELSE ignored[n] \ {q}
    <3>1. ignored' = [ignored EXCEPT ![n] = S]
      BY <2>1 DEF ignore_destination
    <3>2. S \in SUBSET Node
      BY <1>1
    <3> DEFINE P == SUBSET Node
    <3>3. S \in P /\ ignored \in [Node -> P]
      BY <1>1, <3>2
    <3> HIDE DEF S, P
    <3>4. ignored' \in [Node -> P]
      BY <3>1, <3>3
    <3> QED
      BY <3>4 DEF P
  <2>2. ASSUME ignored' = ignored
        PROVE  ignored' \in [Node -> SUBSET Node]
    BY <1>1, <2>2, Zenon
  <2> QED
    BY <2>1, <2>2, <1>6, ZenonT(60)
       DEF Next, vars, GenerateTicket, mark_ticket_delivered, clean_tickets, handle_outbound,
           set_inbound_stamp_cost, deliver, receive_packet, receive_inbound,
           Tick, set_outbound_stamp_cost, process_inbound_message, clean_transient_id_caches
<1>10. acceptedAt' \in [Message -> Stamp]
  BY <1>1, <1>3, ZenonT(60)
     DEF Next, vars, GenerateTicket, mark_ticket_delivered, clean_tickets, handle_outbound,
         ignore_destination, set_inbound_stamp_cost, deliver, receive_packet, receive_inbound,
         Tick, set_outbound_stamp_cost, clean_transient_id_caches, Restart, CrashInProcess,
         with_store_and_root
<1> QED
  BY <1>7, <1>8, <1>9, <1>10

(* The bound on what may happen only shrinks, and the clock stays within it. *)
LEMMA BudgetTypes ==
  ASSUME TicketsInv, [Next]_vars
  PROVE  /\ budget' \in [messages : SUBSET Message, calls : Nat, restarts : Nat, days : Nat]
         /\ now' \in Time /\ now' >= now
<1> DEFINE B == [messages : SUBSET Message, calls : Nat, restarts : Nat, days : Nat]
<1>1. budget \in B /\ now \in Time /\ now >= now
  <2>1. budget \in B /\ now \in Time
    BY DEF TicketsInv, TypeOK
  <2> QED
    BY <2>1, SMTT(60), Numbers
<1>2. ASSUME Call PROVE budget' \in B
  BY <1>1, <1>2, SMTT(60) DEF Call
<1>3. ASSUME NEW m, budget' = [budget EXCEPT !.messages = @ \ {m}] PROVE budget' \in B
  BY <1>1, <1>3, SMTT(60)
<1>4. ASSUME NEW n, NEW files, with_store_and_root(n, files) PROVE budget' \in B
  BY <1>1, <1>4, SMTT(60) DEF with_store_and_root
<1>5. ASSUME Tick PROVE budget' \in B /\ now' \in Time /\ now' >= now
  <2>1. budget' \in B
    BY <1>1, <1>5, SMTT(60) DEF Tick
  <2>2. now' \in Time /\ now' >= now
    BY <1>1, <1>5, SMTT(60), TicketsAssumption DEF Tick, Time
  <2> QED
    BY <2>1, <2>2
<1> HIDE DEF B
<1>6. budget' \in B
  BY <1>1, <1>2, <1>3, <1>4, <1>5, ZenonT(60)
     DEF Next, vars, GenerateTicket, mark_ticket_delivered, clean_tickets, handle_outbound,
         ignore_destination, set_inbound_stamp_cost, deliver, receive_packet, receive_inbound,
         set_outbound_stamp_cost, process_inbound_message, clean_transient_id_caches,
         Restart, CrashInProcess
<1>7. now' \in Time /\ now' >= now
  BY <1>1, <1>5, ZenonT(60)
     DEF Next, vars, GenerateTicket, mark_ticket_delivered, clean_tickets, handle_outbound,
         ignore_destination, set_inbound_stamp_cost, deliver, receive_packet, receive_inbound,
         set_outbound_stamp_cost, process_inbound_message, clean_transient_id_caches,
         Restart, CrashInProcess, with_store_and_root
<1> QED
  BY <1>6, <1>7 DEF B

-----------------------------------------------------------------------------
(* Packets                                                                   *)

(* What a packet becomes when it is stamped.                                 *)
LEMMA Stamped ==
  ASSUME NEW p \in Packet, NEW p2 \in ensure_stamp(p)
  PROVE  p2 \in Packet /\ p2.id = p.id /\ p2.field = p.field /\ p2.ticket = p.ticket
<1>1. ASSUME NEW v \in 0 .. MaxCost
      PROVE  LET e == [p EXCEPT !.work = v] IN
             e \in Packet /\ e.id = p.id /\ e.field = p.field /\ e.ticket = p.ticket
  BY SMTT(60) DEF Packet
<1>2. p.work \in Nat /\ MaxCost \in Nat /\ 0 \in 0 .. MaxCost /\ p.work .. MaxCost \subseteq 0 .. MaxCost
  BY SMTT(60), TicketsAssumption DEF Packet
<1> QED
  BY <1>1, <1>2 DEF ensure_stamp, generate_stamp

(* Every packet after a step is one of before, stamped or not, or a new one  *)
(* whose tickets are on file.                                                *)
LEMMA PacketStep ==
  ASSUME TicketsInv, [Next]_vars
  PROVE  /\ queue' \cup sent' \subseteq Packet
         /\ sent \subseteq sent'
         /\ \A p \in queue' \cup sent' :
              \/ \E p0 \in queue \cup sent :
                    p.id = p0.id /\ p.field = p0.field /\ p.ticket = p0.ticket
              \/ /\ p.id \in Message
                 /\ \/ p.field = NoEntry
                    \/ /\ p.field \in Entry
                       /\ store'[From[p.id]].inbound[Dest[p.id]][p.field.ticket] = p.field.expires
                 /\ p.ticket \in {NoEntry, store[From[p.id]].outbound[Dest[p.id]]}
<1>1. queue \subseteq Packet /\ sent \subseteq Packet
  BY DEF TicketsInv, TypeOK
<1> DEFINE Old(p) == \E p0 \in queue \cup sent :
                        p.id = p0.id /\ p.field = p0.field /\ p.ticket = p0.ticket
           New(p) == /\ p.id \in Message
                     /\ \/ p.field = NoEntry
                        \/ /\ p.field \in Entry
                           /\ store'[From[p.id]].inbound[Dest[p.id]][p.field.ticket] = p.field.expires
                     /\ p.ticket \in {NoEntry, store[From[p.id]].outbound[Dest[p.id]]}
           Good == /\ queue' \cup sent' \subseteq Packet /\ sent \subseteq sent'
                   /\ \A p \in queue' \cup sent' : Old(p) \/ New(p)
<1>2. ASSUME UNCHANGED <<queue, sent>> PROVE Good
  BY <1>1, <1>2
<1>3. ASSUME NEW p \in queue, deliver(p) PROVE Good
  <2>1. PICK p2 \in ensure_stamp(p) : sent' = sent \cup {p2} /\ queue' = queue \ {p}
    BY <1>3 DEF deliver
  <2>2. p2 \in Packet /\ p2.id = p.id /\ p2.field = p.field /\ p2.ticket = p.ticket
    BY <1>1, <2>1, Stamped
  <2>3. \A p3 \in queue' \cup sent' : Old(p3)
    BY <1>3, <2>1, <2>2
  <2> QED
    BY <1>1, <2>1, <2>2, <2>3
<1>4. ASSUME NEW m \in Message, handle_outbound(m) PROVE Good
  <2> DEFINE n == From[m]  q == Dest[m]
             tk == get_outbound_ticket(store[n], q)
             pk(x) == [id |-> m, field |-> x, ticket |-> tk, work |-> prices[n][q].cost]
  <2>1. n \in Node /\ q \in Node /\ sent' = sent
    BY <1>4, TicketsAssumption DEF handle_outbound
  <2>2. store[n] \in TicketStore /\ prices[n][q] \in Price /\ store \in [Node -> TicketStore]
    <3>1. store \in [Node -> TicketStore] /\ prices \in [Node -> [Node -> Price]]
      BY DEF TicketsInv, TypeOK
    <3> QED
      BY <2>1, <3>1
  <2>3. tk \in OptEntry /\ tk \in {NoEntry, store[n].outbound[q]} /\ prices[n][q].cost \in 0 .. MaxCost
    <3>1. store[n].outbound[q] \in OptEntry
      BY <2>1, <2>2 DEF TicketStore
    <3>2. prices[n][q].cost \in 0 .. MaxCost
      BY <2>2 DEF Price
    <3> QED
      BY <3>1, <3>2 DEF get_outbound_ticket, OptEntry
  <2> HIDE DEF tk, n, q
  <2>4. ASSUME NEW x \in OptEntry, queue' = queue \cup {pk(x)},
               x = NoEntry \/ (x \in Entry /\ store'[n].inbound[q][x.ticket] = x.expires)
        PROVE  Good
    <3>1. /\ pk(x) \in Packet /\ pk(x).id = m /\ pk(x).field = x /\ pk(x).ticket = tk
      BY <2>3 DEF Packet
    <3> HIDE DEF pk
    <3>2. New(pk(x))
      BY <2>3, <2>4, <3>1 DEF n, q
    <3> HIDE DEF New
    <3> QED
      BY <1>1, <2>1, <2>4, <3>1, <3>2
  <2>5. CASE \E x, s : Given(n, q, x, s) /\ persist_ticket_store(n, s) /\ Queued(m, x)
    <3>1. PICK x, s : Given(n, q, x, s) /\ persist_ticket_store(n, s) /\ Queued(m, x)
      BY <2>5
    <3>2. x \in Entry /\ s.inbound[q][x.ticket] = x.expires
      BY <2>1, <3>1, GivenEffect
    <3>3. store'[n] = s
      BY <2>1, <2>2, <3>1 DEF persist_ticket_store
    <3>4. queue' = queue \cup {pk(x)}
      BY <3>1 DEF Queued, tk, n, q
    <3> QED
      BY <2>4, <3>2, <3>3, <3>4 DEF OptEntry
  <2>6. CASE Queued(m, NoEntry)
    <3>1. queue' = queue \cup {pk(NoEntry)}
      BY <2>6 DEF Queued, tk, n, q
    <3> QED
      BY <2>4, <3>1 DEF OptEntry
  <2> QED
    BY <1>4, <2>5, <2>6, OutboundGives DEF n, q
<1> HIDE DEF Good
<1>5. Good
  BY <1>2, <1>3, <1>4, ZenonT(60)
     DEF Next, vars, GenerateTicket, mark_ticket_delivered, clean_tickets,
         ignore_destination, set_inbound_stamp_cost, receive_packet, receive_inbound,
         set_outbound_stamp_cost, process_inbound_message, clean_transient_id_caches,
         Restart, CrashInProcess, with_store_and_root, Tick
<1> QED
  BY <1>5 DEF Good

(* What waits to be processed came over the network, after a step too.       *)
LEMMA InboxStep ==
  ASSUME TicketsInv, [Next]_vars
  PROVE  /\ inbox' \in [Node -> Seq(Packet)] /\ cache' \in [Node -> Seq(Message)]
         /\ InboxSent'
<1>1. /\ inbox \in [Node -> Seq(Packet)] /\ cache \in [Node -> Seq(Message)] /\ InboxSent
      /\ sent \subseteq Packet /\ sent \subseteq sent'
  BY PacketStep DEF TicketsInv, TypeOK
<1> DEFINE Fine(q, n) == q \in Seq(Packet) /\ \A k \in 1 .. Len(q) : q[k] \in sent /\ Dest[q[k].id] = n
<1>2. \A n \in Node : Fine(inbox[n], n)
  BY <1>1 DEF InboxSent
<1>3. ASSUME inbox' \in [Node -> Seq(Packet)], \A n \in Node : Fine(inbox'[n], n)
      PROVE  InboxSent'
  BY <1>1, <1>3 DEF InboxSent
<1>4. ASSUME NEW n \in Node, NEW q, Fine(q, n), inbox' = [inbox EXCEPT ![n] = q]
      PROVE  inbox' \in [Node -> Seq(Packet)] /\ InboxSent'
  <2>1. inbox' \in [Node -> Seq(Packet)]
    BY <1>1, <1>4
  <2>2. \A m \in Node : inbox'[m] = IF m = n THEN q ELSE inbox[m]
    BY <1>1, <1>4
  <2> HIDE DEF Fine
  <2>3. \A m \in Node : Fine(inbox'[m], m)
    BY <1>2, <1>4, <2>2
  <2> QED
    BY <1>3, <2>1, <2>3
<1>5. ASSUME NEW p \in sent, inbox' = [inbox EXCEPT ![Dest[p.id]] = Append(@, p)]
      PROVE  inbox' \in [Node -> Seq(Packet)] /\ InboxSent'
  <2> DEFINE n == Dest[p.id]  q == Append(inbox[n], p)
  <2>1. n \in Node /\ p \in Packet
    BY <1>1, TicketsAssumption DEF Packet
  <2>2. inbox' = [inbox EXCEPT ![n] = q]
    BY <1>5
  <2>3. /\ inbox[n] \in Seq(Packet)
        /\ \A k \in 1 .. Len(inbox[n]) : inbox[n][k] \in sent /\ Dest[inbox[n][k].id] = n
    BY <1>2, <2>1
  <2>4. /\ q \in Seq(Packet)
        /\ \A k \in 1 .. Len(q) : q[k] = p \/ (k \in 1 .. Len(inbox[n]) /\ q[k] = inbox[n][k])
    BY SMTT(60), <2>1, <2>3
  <2>5. Fine(q, n)
    BY <1>5, <2>3, <2>4
  <2> HIDE DEF Fine, n, q
  <2> QED
    BY <1>4, <2>1, <2>2, <2>5
<1>6. ASSUME NEW p \in sent, receive_packet(p) \/ receive_inbound(p)
      PROVE  inbox' \in [Node -> Seq(Packet)] /\ InboxSent'
  BY <1>5, <1>6 DEF receive_packet, receive_inbound
<1>7. ASSUME NEW p \in sent, receive_packet(p)
      PROVE  cache' \in [Node -> Seq(Message)]
  <2> DEFINE n == Dest[p.id]
  <2>1. p.id \in Message /\ n \in Node
    BY <1>1, TicketsAssumption DEF Packet
  <2>2. cache' = [cache EXCEPT ![n] = mark_delivered(cache[n], p.id)]
    BY <1>7 DEF receive_packet
  <2>3. Append(cache[n], p.id) \in Seq(Message) /\ Append(cache[n], p.id) # <<>>
    BY SMTT(60), <1>1, <2>1
  <2>4. mark_delivered(cache[n], p.id) \in Seq(Message)
    BY SMTT(60), <2>3 DEF mark_delivered
  <2> HIDE DEF n
  <2> QED
    BY <1>1, <2>1, <2>2, <2>4
<1>8. ASSUME NEW n \in Node, NEW validated \in BOOLEAN, process_inbound_message(n, validated)
      PROVE  inbox' \in [Node -> Seq(Packet)] /\ InboxSent'
  <2>1. inbox[n] # <<>> /\ inbox' = [inbox EXCEPT ![n] = Tail(inbox[n])] /\ Fine(inbox[n], n)
    BY <1>2, <1>8 DEF process_inbound_message
  <2>2. Fine(Tail(inbox[n]), n)
    <3>1. /\ Tail(inbox[n]) \in Seq(Packet)
          /\ \A k \in 1 .. Len(Tail(inbox[n])) :
                k + 1 \in 1 .. Len(inbox[n]) /\ Tail(inbox[n])[k] = inbox[n][k + 1]
      BY SMTT(60), <2>1
    <3> QED
      BY <2>1, <3>1
  <2> HIDE DEF Fine
  <2> QED
    BY <1>4, <2>1, <2>2
<1>9. ASSUME NEW n \in Node, NEW files, with_store_and_root(n, files)
      PROVE  /\ inbox' \in [Node -> Seq(Packet)] /\ InboxSent'
             /\ cache' \in [Node -> Seq(Message)]
  <2>1. inbox' = [inbox EXCEPT ![n] = <<>>] /\ cache' = [cache EXCEPT ![n] = <<>>]
    BY <1>9 DEF with_store_and_root
  <2>2. Fine(<<>>, n) /\ <<>> \in Seq(Message)
    BY SMTT(60)
  <2> HIDE DEF Fine
  <2> QED
    BY <1>1, <1>4, <2>1, <2>2
<1>10. ASSUME UNCHANGED inbox
       PROVE  inbox' \in [Node -> Seq(Packet)] /\ InboxSent'
  BY <1>1, <1>10 DEF InboxSent
<1>11. inbox' \in [Node -> Seq(Packet)] /\ InboxSent'
  BY <1>6, <1>8, <1>9, <1>10, ZenonT(60)
     DEF Next, vars, GenerateTicket, mark_ticket_delivered, clean_tickets, handle_outbound,
         ignore_destination, set_inbound_stamp_cost, deliver, Tick,
         set_outbound_stamp_cost, clean_transient_id_caches, Restart, CrashInProcess
<1>12. cache' \in [Node -> Seq(Message)]
  BY <1>1, <1>7, <1>9, ZenonT(60)
     DEF Next, vars, GenerateTicket, mark_ticket_delivered, clean_tickets, handle_outbound,
         ignore_destination, set_inbound_stamp_cost, deliver, Tick, receive_inbound,
         process_inbound_message, set_outbound_stamp_cost, clean_transient_id_caches, Restart,
         CrashInProcess
<1> QED
  BY <1>11, <1>12

-----------------------------------------------------------------------------
(* Tickets are backed                                                        *)

(* What is on file for its holder stays so.                                  *)
LEMMA StaysBacked ==
  ASSUME TicketsInv, [Next]_vars, NEW n \in Node, NEW q \in Node, NEW x \in OptEntry,
         Backed(n, q, x)
  PROVE  x # NoEntry /\ x.expires > now' =>
            /\ store'[n].inbound[q][x.ticket] = x.expires
            /\ disk'[n].store.inbound[q][x.ticket] = x.expires
<1> SUFFICES ASSUME x # NoEntry, x.expires > now'
             PROVE  /\ store'[n].inbound[q][x.ticket] = x.expires
                    /\ disk'[n].store.inbound[q][x.ticket] = x.expires
  OBVIOUS
<1>1. x.ticket \in Ticket /\ x.expires \in Nat
  BY Numbers DEF OptEntry, Entry
<1>2. x.expires > now
  <2>1. now \in Nat /\ now' \in Nat /\ now' >= now
    BY BudgetTypes, Numbers DEF TicketsInv, TypeOK
  <2> QED
    BY SMTT(60), <1>1, <2>1
<1>3. store[n].inbound[q][x.ticket] = x.expires
  BY <1>2 DEF Backed
<1>4. Keeps(store[n], store'[n])
  BY StoreStep DEF NewStore
<1>5. store'[n].inbound[q][x.ticket] = x.expires
  BY <1>1, <1>2, <1>3, <1>4 DEF Keeps
<1>6. disk'[n].store = store'[n]
  <2>1. disk'[n] = Files(store'[n], prices'[n], deliveries'[n])
    BY DiskStep DEF DiskCurrent
  <2> QED
    BY SMTT(60), <2>1 DEF Files
<1> QED
  BY <1>5, <1>6

(* After a step the tickets held and the tickets on their way are on file.   *)
LEMMA BackedStep ==
  ASSUME TicketsInv, [Next]_vars
  PROVE  TicketsBacked' /\ PacketsBacked'
<1>1. /\ TypeOK /\ TicketsBacked /\ PacketsBacked
      /\ store \in [Node -> TicketStore]
  BY DEF TicketsInv, TypeOK
<1>2. ASSUME NEW n \in Node, NEW q \in Node, NEW x \in OptEntry, Backed(n, q, x)
      PROVE  Backed(n, q, x)'
  BY <1>2, StaysBacked DEF Backed
<1>3. \A n, q \in Node : Backed(n, q, NoEntry) /\ NoEntry \in OptEntry
  BY DEF Backed, OptEntry
<1>4. \A p \in queue \cup sent : /\ p.id \in Message /\ p.field \in OptEntry /\ p.ticket \in OptEntry
                                 /\ From[p.id] \in Node /\ Dest[p.id] \in Node
  BY TicketsAssumption DEF TicketsInv, TypeOK, Packet
<1>5. ASSUME NEW n \in Node, NEW q \in Node
      PROVE  Backed(n, q, store[q].outbound[n]) /\ store[q].outbound[n] \in OptEntry
  BY <1>1 DEF TicketsBacked, TicketStore
<1>6. ASSUME NEW n \in Node, NEW q \in Node
      PROVE  Backed(n, q, store[q].outbound[n])'
  <2>1. NewStore(q, store'[q])
    BY StoreStep
  <2>2. CASE store'[q].outbound[n] \in {store[q].outbound[n], NoEntry}
    <3>1. Backed(n, q, store'[q].outbound[n]) /\ store'[q].outbound[n] \in OptEntry
      BY <1>3, <1>5, <2>2
    <3> QED
      BY <3>1, StaysBacked DEF Backed
  <2>3. CASE \E p \in Arrived(q, n) : store'[q].outbound[n] = p.field
    <3>1. PICK p \in Arrived(q, n) : store'[q].outbound[n] = p.field
      BY <2>3
    <3>2. p \in sent /\ From[p.id] = n /\ Dest[p.id] = q /\ p.field \in OptEntry
      BY <1>4 DEF Arrived
    <3>3. Backed(n, q, p.field)
      BY <1>1, <3>2 DEF PacketsBacked
    <3>4. p.field # NoEntry /\ p.field.expires > now' =>
             /\ store'[n].inbound[q][p.field.ticket] = p.field.expires
             /\ disk'[n].store.inbound[q][p.field.ticket] = p.field.expires
      BY <3>2, <3>3, StaysBacked
    <3> QED
      BY <3>1, <3>4, Zenon DEF Backed
  <2> QED
    BY <2>1, <2>2, <2>3 DEF NewStore
<1>7. TicketsBacked'
  BY <1>6 DEF TicketsBacked, Backed
<1>8. ASSUME NEW p \in queue' \cup sent'
      PROVE  Backed(From[p.id], Dest[p.id], p.field)' /\ Backed(Dest[p.id], From[p.id], p.ticket)'
  <2>1. CASE \E p0 \in queue \cup sent : p.id = p0.id /\ p.field = p0.field /\ p.ticket = p0.ticket
    <3>1. PICK p0 \in queue \cup sent : p.id = p0.id /\ p.field = p0.field /\ p.ticket = p0.ticket
      BY <2>1
    <3>2. /\ Backed(From[p.id], Dest[p.id], p.field) /\ Backed(Dest[p.id], From[p.id], p.ticket)
          /\ p.field \in OptEntry /\ p.ticket \in OptEntry /\ From[p.id] \in Node /\ Dest[p.id] \in Node
      BY <1>1, <1>4, <3>1 DEF PacketsBacked
    <3> QED
      BY <3>2, StaysBacked DEF Backed
  <2>2. CASE /\ p.id \in Message
             /\ \/ p.field = NoEntry
                \/ /\ p.field \in Entry
                   /\ store'[From[p.id]].inbound[Dest[p.id]][p.field.ticket] = p.field.expires
             /\ p.ticket \in {NoEntry, store[From[p.id]].outbound[Dest[p.id]]}
    <3>1. From[p.id] \in Node /\ Dest[p.id] \in Node
      BY <2>2, TicketsAssumption
    <3>2. Backed(Dest[p.id], From[p.id], p.ticket) /\ p.ticket \in OptEntry
      BY <1>3, <1>5, <2>2, <3>1
    <3>3. Backed(Dest[p.id], From[p.id], p.ticket)'
      BY <3>1, <3>2, StaysBacked DEF Backed
    <3>4. disk'[From[p.id]].store = store'[From[p.id]]
      <4>1. disk'[From[p.id]] = Files(store'[From[p.id]], prices'[From[p.id]], deliveries'[From[p.id]])
        BY <3>1, DiskStep DEF DiskCurrent
      <4> QED
        BY SMTT(60), <4>1 DEF Files
    <3>5. Backed(From[p.id], Dest[p.id], p.field)'
      BY <2>2, <3>4 DEF Backed
    <3> QED
      BY <3>3, <3>5
  <2> QED
    BY <2>1, <2>2, PacketStep
<1>9. PacketsBacked'
  BY <1>8 DEF PacketsBacked, Backed
<1> QED
  BY <1>7, <1>9

-----------------------------------------------------------------------------
(* Deliveries are remembered                                                 *)

(* A message is accepted only when its delivery is not on record; a record   *)
(* goes only when it is older than CacheExpiry.                              *)
LEMMA DeliveryStep ==
  ASSUME TicketsInv, [Next]_vars, NEW m \in Message
  PROVE  /\ \/ acceptedAt'[m] = acceptedAt[m]
            \/ deliveries[Dest[m]][m] = Never /\ acceptedAt'[m] = now
               /\ deliveries'[Dest[m]][m] = now /\ now' = now
         /\ \/ deliveries'[Dest[m]][m] = deliveries[Dest[m]][m]
            \/ acceptedAt'[m] = now /\ deliveries'[Dest[m]][m] = now /\ now' = now
            \/ now > deliveries[Dest[m]][m] + CacheExpiry
<1> DEFINE Good ==
         /\ \/ acceptedAt'[m] = acceptedAt[m]
            \/ deliveries[Dest[m]][m] = Never /\ acceptedAt'[m] = now
               /\ deliveries'[Dest[m]][m] = now /\ now' = now
         /\ \/ deliveries'[Dest[m]][m] = deliveries[Dest[m]][m]
            \/ acceptedAt'[m] = now /\ deliveries'[Dest[m]][m] = now /\ now' = now
            \/ now > deliveries[Dest[m]][m] + CacheExpiry
<1>0. /\ deliveries \in [Node -> [Message -> Stamp]] /\ acceptedAt \in [Message -> Stamp]
      /\ Dest[m] \in Node /\ now \in Nat /\ CacheExpiry \in Nat
  BY TicketsAssumption, Numbers DEF TicketsInv, TypeOK
<1>1. /\ deliveries \in [Node -> [Message -> Stamp]] /\ acceptedAt \in [Message -> Stamp]
      /\ Dest[m] \in Node /\ now \in Nat /\ deliveries[Dest[m]][m] \in Nat
      /\ CacheExpiry \in Nat
  BY <1>0, Numbers
<1>2. ASSUME UNCHANGED <<deliveries, acceptedAt>> PROVE Good
  BY <1>2
<1>3. ASSUME NEW n \in Node, NEW validated \in BOOLEAN, process_inbound_message(n, validated)
      PROVE  Good
  <2> DEFINE i == Head(inbox[n]).id
  <2>1. i \in Message /\ Dest[i] = n
    BY <1>3, HeadPacket DEF process_inbound_message
  <2>2. CASE UNCHANGED <<deliveries, acceptedAt>>
    BY <1>2, <2>2
  <2>3. CASE /\ ~Unheard(n, Head(inbox[n]))
             /\ deliveries' = [deliveries EXCEPT ![n][i] = now]
             /\ acceptedAt' = [acceptedAt EXCEPT ![i] = now]
    <3>1. deliveries[n][i] = Never /\ now' = now
      BY <1>3, <2>3 DEF Unheard, process_inbound_message
    <3> HIDE DEF i
    <3>2. CASE m = i
      BY <1>1, <2>1, <2>3, <3>1, <3>2
    <3>3. CASE m # i
      BY <1>1, <2>1, <2>3, <3>3
    <3> QED
      BY <3>2, <3>3
  <2> QED
    BY <1>3, <2>2, <2>3 DEF process_inbound_message
<1>4. ASSUME NEW n \in Node, acceptedAt' = acceptedAt,
             deliveries' = [deliveries EXCEPT ![n] = clean_transient_cache(deliveries[n])]
      PROVE  Good
  <2>1. \/ deliveries'[Dest[m]][m] = deliveries[Dest[m]][m]
        \/ n = Dest[m] /\ deliveries'[Dest[m]][m] = clean_transient_cache(deliveries[Dest[m]])[m]
    BY <1>1, <1>4
  <2>2. \/ clean_transient_cache(deliveries[Dest[m]])[m] = deliveries[Dest[m]][m]
        \/ now > deliveries[Dest[m]][m] + CacheExpiry
    BY SMTT(60), <1>1 DEF clean_transient_cache
  <2> QED
    BY <1>4, <2>1, <2>2
<1>5. ASSUME NEW n \in Node, clean_transient_id_caches(n) PROVE Good
  BY <1>4, <1>5 DEF clean_transient_id_caches
<1>6. ASSUME NEW n \in Node, Restart(n) PROVE Good
  <2>1. disk[n].deliveries = deliveries[n]
    BY OnFile
  <2> QED
    BY <1>4, <1>6, <2>1 DEF Restart, with_store_and_root
<1>7. ASSUME NEW n \in Node, CrashInProcess(n) PROVE Good
  <2> DEFINE f == Files(Noted(n, Head(inbox[n]), TRUE), disk[n].prices, disk[n].deliveries)
  <2>1. f.deliveries = deliveries[n]
    BY OnFile DEF Files
  <2>2. with_store_and_root(n, f)
    BY <1>7 DEF CrashInProcess
  <2> HIDE DEF f
  <2> QED
    BY <1>4, <2>1, <2>2 DEF with_store_and_root
<1> HIDE DEF Good
<1>8. Good
  BY <1>2, <1>3, <1>5, <1>6, <1>7, ZenonT(60)
     DEF Next, vars, GenerateTicket, mark_ticket_delivered, clean_tickets, handle_outbound,
         ignore_destination, set_inbound_stamp_cost, deliver, Tick, receive_packet,
         receive_inbound, set_outbound_stamp_cost
<1> QED
  BY <1>8 DEF Good

(* So an acceptance stays on record for CacheExpiry.                         *)
LEMMA RememberedStep ==
  ASSUME TicketsInv, [Next]_vars
  PROVE  Remembered'
<1> SUFFICES ASSUME NEW m \in Message, acceptedAt'[m] # Never,
                    now' <= acceptedAt'[m] + CacheExpiry
             PROVE  deliveries'[Dest[m]][m] = acceptedAt'[m]
  BY DEF Remembered
<1>1. /\ now \in Nat /\ now' \in Nat /\ now' >= now /\ CacheExpiry \in Nat
      /\ acceptedAt[m] \in Nat /\ Remembered
  BY BudgetTypes, Numbers, TicketsAssumption DEF TicketsInv, TypeOK
<1>2. CASE acceptedAt'[m] = acceptedAt[m] /\ acceptedAt'[m] # now
  <2>1. acceptedAt[m] # Never /\ now <= acceptedAt[m] + CacheExpiry
    BY SMTT(60), <1>1, <1>2
  <2>2. deliveries[Dest[m]][m] = acceptedAt[m]
    BY <1>1, <2>1 DEF Remembered
  <2>3. deliveries'[Dest[m]][m] = deliveries[Dest[m]][m]
    BY SMTT(60), <1>1, <1>2, <2>1, <2>2, DeliveryStep
  <2> QED
    BY <1>2, <2>2, <2>3
<1>3. CASE acceptedAt'[m] = acceptedAt[m] /\ acceptedAt'[m] = now
  <2>1. acceptedAt[m] # Never /\ now <= acceptedAt[m] + CacheExpiry
    BY SMTT(60), <1>1, <1>3
  <2>2. deliveries[Dest[m]][m] = acceptedAt[m]
    BY <1>1, <2>1 DEF Remembered
  <2> QED
    BY SMTT(60), <1>1, <1>3, <2>1, <2>2, DeliveryStep
<1>4. CASE deliveries'[Dest[m]][m] = now /\ acceptedAt'[m] = now
  BY <1>4
<1> QED
  BY <1>2, <1>3, <1>4, DeliveryStep

-----------------------------------------------------------------------------
(* The theorems                                                              *)

(* The invariant holds at the start: no ticket, no packet, no delivery.      *)
LEMMA InitInv == Init => TicketsInv
<1> SUFFICES ASSUME Init PROVE TicketsInv
  OBVIOUS
<1>1. EmptyStore \in TicketStore
  <2>1. /\ [q \in Node |-> NoEntry] \in [Node -> OptEntry]
        /\ [q \in Node |-> [t \in Ticket |-> Never]] \in [Node -> [Ticket -> Until]]
        /\ [q \in Node |-> Never] \in [Node -> Stamp]
    BY Numbers, Zenon DEF OptEntry
  <2> QED
    BY <2>1 DEF EmptyStore, Tickets, TicketStore
<1>2. [q \in Node |-> NoPrice] \in [Node -> Price] /\ [m \in Message |-> Never] \in [Message -> Stamp]
  <2>1. NoPrice \in Price
    BY Numbers, TicketsAssumption, SMTT(60) DEF NoPrice, Price
  <2> QED
    BY <2>1, Numbers, Zenon
<1>3. NoFiles \in [store : TicketStore, prices : [Node -> Price], deliveries : [Message -> Stamp]]
  BY <1>1, <1>2 DEF NoFiles, Files
<1>4. TypeOK
  <2>1. now \in Time /\ 0 \in 0 .. MaxCost
    BY SMTT(60), TicketsAssumption DEF Init, Time
  <2>2. budget \in [messages : SUBSET Message, calls : Nat, restarts : Nat, days : Nat]
    BY TicketsAssumption DEF Init
  <2>3. /\ store \in [Node -> TicketStore]
        /\ prices \in [Node -> [Node -> Price]]
        /\ deliveries \in [Node -> [Message -> Stamp]]
        /\ disk \in [Node -> [store : TicketStore, prices : [Node -> Price],
                              deliveries : [Message -> Stamp]]]
        /\ acceptedAt \in [Message -> Stamp]
    BY <1>1, <1>2, <1>3, Zenon DEF Init
  <2>4. /\ required \in [Node -> 0 .. MaxCost] /\ ignored \in [Node -> SUBSET Node]
        /\ queue \subseteq Packet /\ sent \subseteq Packet /\ issued \subseteq Ticket
    BY <2>1, ZenonT(60) DEF Init
  <2>5. inbox \in [Node -> Seq(Packet)] /\ cache \in [Node -> Seq(Message)]
    BY SMTT(60) DEF Init
  <2> QED
    BY <2>1, <2>2, <2>3, <2>4, <2>5 DEF TypeOK
<1>5. \A n \in Node : store[n] = EmptyStore
  BY DEF Init
<1>6. \A q \in Node : EmptyStore.outbound[q] = NoEntry /\ \A t \in Ticket : EmptyStore.inbound[q][t] = Never
  BY DEF EmptyStore, Tickets
<1>7. DiskCurrent
  BY Zenon DEF Init, DiskCurrent, NoFiles
<1>8. InboxSent
  BY SMTT(60) DEF Init, InboxSent
<1>9. (\A n \in Node : Drawn(store[n])) /\ TicketsSpaced
  BY <1>5, <1>6 DEF Drawn, TicketsSpaced, Spaced
<1>10. TicketsBacked
  BY <1>5, <1>6 DEF TicketsBacked, Backed
<1>11. PacketsBacked /\ Remembered
  BY DEF Init, PacketsBacked, Remembered
<1> QED
  BY <1>4, <1>7, <1>8, <1>9, <1>10, <1>11 DEF TicketsInv

(* And every step keeps it.                                                  *)
LEMMA StepInv == TicketsInv /\ [Next]_vars => TicketsInv'
<1> SUFFICES ASSUME TicketsInv, [Next]_vars PROVE TicketsInv'
  OBVIOUS
<1>1. /\ store' \in [Node -> TicketStore] /\ issued' \subseteq Ticket
      /\ \A n \in Node : NewStore(n, store'[n])
  BY StoreStep
<1>2. DiskCurrent'
  BY DiskStep
<1>3. disk' \in [Node -> [store : TicketStore, prices : [Node -> Price],
                          deliveries : [Message -> Stamp]]]
  <2>1. ASSUME NEW n \in Node
        PROVE  Files(store'[n], prices'[n], deliveries'[n]) \in
                 [store : TicketStore, prices : [Node -> Price], deliveries : [Message -> Stamp]]
    <3>1. /\ store'[n] \in TicketStore /\ prices'[n] \in [Node -> Price]
          /\ deliveries'[n] \in [Message -> Stamp]
      BY <1>1, TableTypes
    <3> QED
      BY <3>1 DEF Files
  <2> QED
    BY <1>2, <2>1, Zenon DEF DiskCurrent
<1>4. TypeOK'
  BY <1>1, <1>3, TableTypes, BudgetTypes, PacketStep, InboxStep DEF TypeOK
<1>5. (\A n \in Node : Drawn(store[n]))' /\ TicketsSpaced'
  BY <1>1 DEF NewStore, Drawn, TicketsSpaced
<1> QED
  BY <1>2, <1>4, <1>5, InboxStep, BackedStep, RememberedStep DEF TicketsInv

(* TicketsInv is an invariant.                                               *)
THEOREM TicketsInvariant == Spec => []TicketsInv
  BY InitInv, StepInv, PTL DEF Spec

(* A ticket a router holds, as long as it has not expired, is on file with   *)
(* its issuer, in memory and on disk: for any number of routers, messages    *)
(* and tickets, with copies, losses and restarts.                            *)
THEOREM HeldTicketsBacked == Spec => []TicketsBacked
<1>1. TicketsInv => TicketsBacked
  BY DEF TicketsInv
<1> QED
  BY <1>1, TicketsInvariant, PTL

(* The tickets given to one correspondent expire a renewal period apart.     *)
THEOREM GivenTicketsSpaced == Spec => []TicketsSpaced
<1>1. TicketsInv => TicketsSpaced
  BY DEF TicketsInv
<1> QED
  BY <1>1, TicketsInvariant, PTL

(* process_inbound_message never refuses a message stamped with a ticket     *)
(* that has not expired.                                                     *)
THEOREM UnexpiredTicketAccepted == Spec => TicketAccepted
<1> DEFINE A == \A n \in Node, validated \in BOOLEAN :
                  /\ process_inbound_message(n, validated)
                  /\ ~Unheard(n, Head(inbox[n]))
                  /\ Head(inbox[n]).ticket # NoEntry
                  /\ Head(inbox[n]).ticket.expires > now
                  => acceptedAt'[Head(inbox[n]).id] = now
<1>1. ASSUME TicketsInv PROVE A
  <2> SUFFICES ASSUME NEW n \in Node, NEW validated \in BOOLEAN,
                      process_inbound_message(n, validated),
                      ~Unheard(n, Head(inbox[n])),
                      Head(inbox[n]).ticket # NoEntry,
                      Head(inbox[n]).ticket.expires > now
               PROVE  acceptedAt'[Head(inbox[n]).id] = now
    OBVIOUS
  <2> DEFINE p == Head(inbox[n])
  <2>1. p \in sent /\ p \in Packet /\ p.id \in Message /\ Dest[p.id] = n
    BY <1>1, HeadPacket DEF process_inbound_message
  <2>2. Backed(n, From[p.id], p.ticket)
    BY <1>1, <2>1 DEF TicketsInv, PacketsBacked
  <2>3. p.ticket \in Entry
    BY <2>1 DEF Packet, OptEntry
  <2>4. p.ticket.ticket \in Ticket
    BY <2>3 DEF Entry
  <2>5. p.ticket.ticket \in get_inbound_tickets(store[n], From[p.id])
    BY <2>2, <2>4 DEF Backed, get_inbound_tickets
  <2>6. Wanted(n, p)
    BY <2>5 DEF Wanted, validate_stamp_with_tickets
  <2>7. acceptedAt' = [acceptedAt EXCEPT ![p.id] = now]
    BY <2>6 DEF process_inbound_message
  <2>8. acceptedAt \in [Message -> Stamp]
    BY <1>1 DEF TicketsInv, TypeOK
  <2> QED
    BY <2>1, <2>7, <2>8
<1>2. TicketsInv => [A]_vars
  BY <1>1
<1> QED
  BY <1>2, TicketsInvariant, PTL DEF TicketAccepted

(* A message that was accepted is not accepted again within CacheExpiry.     *)
THEOREM AcceptedMessageOnce == Spec => DeliveredOnce
<1>1. ASSUME TicketsInv, [Next]_vars, NEW m \in Message,
             acceptedAt'[m] # acceptedAt[m], acceptedAt[m] # Never
      PROVE  now > acceptedAt[m] + CacheExpiry
  <2>1. deliveries[Dest[m]][m] = Never
    BY <1>1, DeliveryStep
  <2>2. ~(now <= acceptedAt[m] + CacheExpiry)
    BY <1>1, <2>1 DEF TicketsInv, Remembered
  <2>3. now \in Nat /\ acceptedAt[m] \in Nat /\ CacheExpiry \in Nat
    BY <1>1, Numbers, TicketsAssumption DEF TicketsInv, TypeOK
  <2> QED
    BY SMTT(60), <2>2, <2>3
<1>2. TicketsInv /\ [Next]_vars =>
        [\A m \in Message : acceptedAt'[m] # acceptedAt[m] /\ acceptedAt[m] # Never =>
            now > acceptedAt[m] + CacheExpiry]_vars
  BY <1>1
<1> QED
  BY <1>2, TicketsInvariant, PTL DEF Spec, DeliveredOnce
=============================================================================
