------------------------------- MODULE Tickets -------------------------------
(* Correspondence between routers that ask for stamps: a message is accepted *)
(* when it carries work worth the receiver's price, or is stamped with a     *)
(* ticket the receiver issued earlier inside a message of its own.  The      *)
(* module has the ticket store, the stamp prices, the way of a message from  *)
(* handle_outbound to process_inbound_message, the two caches that keep a    *)
(* message from being delivered twice, and the files a restart reads.        *)
(*                                                                           *)
(* The clock counts days.  A packet, once sent, may arrive any number of     *)
(* times, in any order, or never.  A ticket is an opaque value, a stamp made *)
(* of a ticket is bound to its message by a hash, so it is that ticket here. *)
EXTENDS Integers, Sequences

CONSTANTS
    Node,
    Message,     \* message identifiers
    From, Dest,  \* who writes a message, and to whom
    Includes,    \* messages written with include_ticket
    Ticket,      \* the random tickets
    Enforcing,   \* routers with enforce_stamps
    MaxCost,     \* highest price of a stamp
    TicketExpiry, TicketRenew, TicketGrace, TicketInterval,
    CostExpiry,  \* how long an announced price is believed
    CacheExpiry, \* how long a delivery is remembered
    CacheSize,   \* capacity of the DeliveredCache
    MaxInbox, Start, MaxNow,
    Budgets      \* how much of what may happen in a behaviour: the messages
                 \* written, the application's calls, the restarts, the days

ASSUME TicketsAssumption ==
    /\ From \in [Message -> Node] /\ Dest \in [Message -> Node]
    /\ Includes \subseteq Message /\ Enforcing \subseteq Node
    /\ MaxCost \in Nat
    /\ TicketExpiry \in Nat /\ TicketRenew \in Nat /\ TicketRenew < TicketExpiry
    /\ TicketGrace \in Nat /\ TicketInterval \in Nat
    /\ CostExpiry \in Nat /\ CacheExpiry \in Nat /\ CacheSize \in Nat
    /\ MaxInbox \in Nat
    /\ Budgets \subseteq [messages : SUBSET Message, calls : Nat, restarts : Nat, days : Nat]
    /\ Start \in Nat \ {0} /\ MaxNow \in Nat /\ Start <= MaxNow

VARIABLES
    now,
    store,      \* the TicketStore of each router
    prices,     \* outbound_stamp_costs: what each router knows others ask
    deliveries, \* local_deliveries: when each router delivered a message
    disk,       \* the files of those three
    required,   \* inbound_stamp_costs; 0 if none
    ignored,    \* ignored_destinations
    queue,      \* messages waiting to be sent
    sent,       \* packets on the network
    inbox,      \* the inbound queue
    cache,      \* the DeliveredCache, oldest first
    issued,     \* tickets that have been drawn
    budget,     \* what is left of the chosen budget
    acceptedAt  \* history: when a message was last accepted

vars == <<now, store, prices, deliveries, disk, required, ignored, queue, sent,
          inbox, cache, issued, budget, acceptedAt>>

Never == 0
Time == Start .. MaxNow
Stamp == {Never} \cup Time
Until == {Never} \cup (Start .. MaxNow + TicketExpiry)

(* A ticket with its expiry; NoEntry stands for None.                        *)
Entry == [ticket : Ticket, expires : Until]
NoEntry == [none |-> TRUE]
OptEntry == Entry \cup {NoEntry}

(* TicketStore: the tickets others gave us, the tickets we gave to others    *)
(* with their expiry, and when the last of them was seen to arrive.          *)
TicketStore ==
    [outbound : [Node -> OptEntry],
     inbound : [Node -> [Ticket -> Until]],
     last_deliveries : [Node -> Stamp]]
Tickets(out, in, last) == [outbound |-> out, inbound |-> in, last_deliveries |-> last]
EmptyStore ==
    Tickets([q \in Node |-> NoEntry],
            [q \in Node |-> [t \in Ticket |-> Never]],
            [q \in Node |-> Never])

(* A price and when it was heard.                                            *)
Price == [at : Stamp, cost : 0 .. MaxCost]
NoPrice == [at |-> Never, cost |-> 0]

(* A message between handle_outbound and its receiver: the ticket it brings  *)
(* (FIELD_TICKET), the ticket it is stamped with (outbound_ticket) and the   *)
(* work of its stamp: the price to meet while it is queued, the value        *)
(* reached once it is sent; 0 means none.                                    *)
Packet == [id : Message, field : OptEntry, ticket : OptEntry, work : 0 .. MaxCost]

(* What the files hold.                                                      *)
Files(s, p, d) == [store |-> s, prices |-> p, deliveries |-> d]
NoFiles == Files(EmptyStore, [q \in Node |-> NoPrice], [m \in Message |-> Never])

(* Type invariant.  An expiry never lies further ahead than a new ticket's:  *)
(* what is on file was drawn at most now (generate_ticket).                  *)
TypeOK ==
    /\ now \in Time
    /\ store \in [Node -> TicketStore]
    /\ prices \in [Node -> [Node -> Price]]
    /\ deliveries \in [Node -> [Message -> Stamp]]
    /\ disk \in [Node -> [store : TicketStore, prices : [Node -> Price],
                          deliveries : [Message -> Stamp]]]
    /\ required \in [Node -> 0 .. MaxCost]
    /\ ignored \in [Node -> SUBSET Node]
    /\ queue \subseteq Packet /\ sent \subseteq Packet
    /\ inbox \in [Node -> Seq(Packet)]
    /\ cache \in [Node -> Seq(Message)]
    /\ issued \subseteq Ticket
    /\ budget \in [messages : SUBSET Message, calls : Nat, restarts : Nat, days : Nat]
    /\ acceptedAt \in [Message -> Stamp]

Init ==
    /\ now = Start
    /\ store = [n \in Node |-> EmptyStore]
    /\ prices = [n \in Node |-> [q \in Node |-> NoPrice]]
    /\ deliveries = [n \in Node |-> [m \in Message |-> Never]]
    /\ disk = [n \in Node |-> NoFiles]
    /\ required = [n \in Node |-> 0]
    /\ ignored = [n \in Node |-> {}]
    /\ queue = {} /\ sent = {}
    /\ inbox = [n \in Node |-> <<>>] /\ cache = [n \in Node |-> <<>>]
    /\ issued = {}
    /\ budget \in Budgets
    /\ acceptedAt = [m \in Message |-> Never]

(* An application call.                                                      *)
Call ==
    /\ budget.calls > 0
    /\ budget' = [budget EXCEPT !.calls = @ - 1]

(* The store of n becomes s, and persist_ticket_store writes it.             *)
persist_ticket_store(n, s) ==
    /\ store' = [store EXCEPT ![n] = s]
    /\ disk' = [disk EXCEPT ![n] = Files(s, @.prices, @.deliveries)]

-----------------------------------------------------------------------------
(* Tickets                                                                   *)

(* The unexpired tickets a store has issued to q.                            *)
get_inbound_tickets(s, q) == {t \in Ticket : s.inbound[q][t] > now}

get_outbound_ticket(s, q) ==
    IF s.outbound[q] # NoEntry /\ s.outbound[q].expires > now
    THEN s.outbound[q] ELSE NoEntry

(* generate_ticket refuses while the last one has only just arrived.         *)
TooSoon(s, q) ==
    /\ s.last_deliveries[q] # Never
    /\ now - s.last_deliveries[q] < TicketInterval

(* Faulty variant of Lasting: measured against the wrong constant.           *)
Lasting_never(s, q) ==
    {t \in Ticket : s.inbound[q][t] # Never /\ s.inbound[q][t] - now > TicketExpiry}

(* The tickets that are good for longer than TICKET_RENEW.                   *)
Lasting(s, q) == {t \in Ticket : s.inbound[q][t] # Never /\ s.inbound[q][t] - now > TicketRenew}

Draw(s, q, t) ==
    Tickets(s.outbound, [s.inbound EXCEPT ![q][t] = now + TicketExpiry], s.last_deliveries)

(* What generate_ticket may give to q from store s, unless it refuses: a     *)
(* lasting ticket again, or a new one when there is none; with the store     *)
(* after it and the tickets drawn.                                           *)
generate_ticket(s, q) ==
    IF Lasting(s, q) # {}
    THEN {[entry |-> [ticket |-> t, expires |-> s.inbound[q][t]],
           store |-> s, drawn |-> {}] : t \in Lasting(s, q)}
    ELSE {[entry |-> [ticket |-> t, expires |-> now + TicketExpiry],
           store |-> Draw(s, q, t), drawn |-> {t}] : t \in Ticket \ issued}

remember_ticket(s, q, x) ==
    Tickets([s.outbound EXCEPT ![q] = x], s.inbound, s.last_deliveries)

(* Faulty variant of clean_expired: drops what generate_ticket would renew.  *)
clean_expired_renewed(s) ==
    Tickets(s.outbound,
            [q \in Node |-> [t \in Ticket |->
                IF t \in Lasting(s, q) THEN s.inbound[q][t] ELSE Never]],
            s.last_deliveries)

(* clean_expired: the tickets of others up to their expiry, our own for      *)
(* TICKET_GRACE longer.                                                      *)
clean_expired(s) ==
    Tickets([q \in Node |-> get_outbound_ticket(s, q)],
            [q \in Node |-> [t \in Ticket |->
                IF now <= s.inbound[q][t] + TicketGrace THEN s.inbound[q][t] ELSE Never]],
            s.last_deliveries)

(* The application hands out a ticket itself, says that one arrived, or      *)
(* drops the expired ones.                                                   *)
GenerateTicket(n, q) ==
    /\ Call
    /\ ~TooSoon(store[n], q)
    /\ \E g \in generate_ticket(store[n], q) :
        persist_ticket_store(n, g.store) /\ issued' = issued \cup g.drawn
    /\ UNCHANGED <<now, prices, deliveries, required, ignored, queue, sent, inbox,
                   cache, acceptedAt>>

mark_ticket_delivered(n, q) ==
    /\ Call
    /\ persist_ticket_store(n, Tickets(store[n].outbound, store[n].inbound,
                                       [store[n].last_deliveries EXCEPT ![q] = now]))
    /\ UNCHANGED <<now, prices, deliveries, required, ignored, queue, sent, inbox,
                   cache, issued, acceptedAt>>

clean_tickets(n) ==
    /\ Call
    /\ persist_ticket_store(n, clean_expired(store[n]))
    /\ UNCHANGED <<now, prices, deliveries, required, ignored, queue, sent, inbox,
                   cache, issued, acceptedAt>>

-----------------------------------------------------------------------------
(* Prices                                                                    *)

set_outbound_stamp_cost(n, q, cost) ==
    /\ Call
    /\ prices' = [prices EXCEPT ![n][q] =
                    IF cost > 0 THEN [at |-> now, cost |-> cost] ELSE NoPrice]
    /\ disk' = [disk EXCEPT ![n] = Files(@.store, prices'[n], @.deliveries)]
    /\ UNCHANGED <<now, store, deliveries, required, ignored, queue, sent, inbox,
                   cache, issued, acceptedAt>>

(* The price a router asks is not written to a file.                         *)
set_inbound_stamp_cost(n, cost) ==
    /\ Call
    /\ required[n] # cost
    /\ required' = [required EXCEPT ![n] = cost]
    /\ UNCHANGED <<now, store, prices, deliveries, disk, ignored, queue, sent,
                   inbox, cache, issued, acceptedAt>>

(* What is left of a router's prices.                                        *)
clean_outbound_stamp_costs(p) ==
    [q \in Node |-> IF now <= p[q].at + CostExpiry THEN p[q] ELSE NoPrice]

(* ignore_destination, unignore_destination.                                 *)
ignore_destination(n, q, on) ==
    /\ Call
    /\ on # (q \in ignored[n])
    /\ ignored' = [ignored EXCEPT ![n] = IF on THEN @ \cup {q} ELSE @ \ {q}]
    /\ UNCHANGED <<now, store, prices, deliveries, disk, required, queue, sent,
                   inbox, cache, issued, acceptedAt>>

-----------------------------------------------------------------------------
(* Out                                                                       *)

(* handle_outbound: price and ticket are looked up now and stay with the     *)
(* message; a ticket for the receiver is added if one is asked for and can   *)
(* be had.  Deferring the work (DeferredStamps) and the retries of the       *)
(* outbound queue (Outbox) change when the message is sent, not what it is.  *)
handle_outbound(m) ==
    LET n == From[m]
        q == Dest[m]
        Enqueued(x) ==
            queue' = queue \cup {[id |-> m, field |-> x,
                                  ticket |-> get_outbound_ticket(store[n], q),
                                  work |-> prices[n][q].cost]} IN
    /\ m \in budget.messages
    /\ budget' = [budget EXCEPT !.messages = @ \ {m}]
    /\ \/ /\ m \in Includes /\ ~TooSoon(store[n], q)
          /\ \E g \in generate_ticket(store[n], q) :
                /\ Enqueued(g.entry)
                /\ persist_ticket_store(n, g.store)
                /\ issued' = issued \cup g.drawn
       \/ /\ m \notin Includes \/ TooSoon(store[n], q)
          /\ Enqueued(NoEntry)
          /\ UNCHANGED <<store, disk, issued>>
    /\ UNCHANGED <<now, prices, deliveries, required, ignored, sent, inbox, cache,
                   acceptedAt>>

(* The values generate_stamp may reach for a price: at least the price, or   *)
(* none when the search gives up.                                            *)
generate_stamp(cost) == {0} \cup cost .. MaxCost

(* What ensure_stamp may make of a message: the ticket is its stamp if there *)
(* is one, else work.                                                        *)
ensure_stamp(p) ==
    IF p.ticket # NoEntry THEN {[p EXCEPT !.work = 0]}
    ELSE IF p.work = 0 THEN {p}
    ELSE {[p EXCEPT !.work = v] : v \in generate_stamp(p.work)}

(* deliver (encode_signed): a stamp, once made, is kept for every retry.     *)
deliver(p) ==
    /\ p \in queue
    /\ queue' = queue \ {p}
    /\ \E stamped \in ensure_stamp(p) : sent' = sent \cup {stamped}
    /\ UNCHANGED <<now, store, prices, deliveries, disk, required, ignored, inbox,
                   cache, issued, budget, acceptedAt>>

-----------------------------------------------------------------------------
(* In                                                                        *)

(* DeliveredCache::mark_delivered, for an id not seen before.                *)
mark_delivered(c, m) ==
    LET longer == Append(c, m) IN
    IF Len(longer) > CacheSize THEN Tail(longer) ELSE longer

seen_before(c, m) == \E k \in 1 .. Len(c) : c[k] = m

(* receive_packet_with_source: remembered before it is looked at.            *)
receive_packet(p) ==
    LET n == Dest[p.id] IN
    /\ p \in sent
    /\ Len(inbox[n]) < MaxInbox
    /\ ~seen_before(cache[n], p.id)
    /\ cache' = [cache EXCEPT ![n] = mark_delivered(@, p.id)]
    /\ inbox' = [inbox EXCEPT ![n] = Append(@, p)]
    /\ UNCHANGED <<now, store, prices, deliveries, disk, required, ignored, queue,
                   sent, issued, budget, acceptedAt>>

(* receive_inbound, the way of the daemon: no cache in between.              *)
receive_inbound(p) ==
    LET n == Dest[p.id] IN
    /\ p \in sent
    /\ Len(inbox[n]) < MaxInbox
    /\ inbox' = [inbox EXCEPT ![n] = Append(@, p)]
    /\ UNCHANGED <<now, store, prices, deliveries, disk, required, ignored, queue,
                   sent, cache, issued, budget, acceptedAt>>

(* process_inbound_message drops these without looking further.              *)
Unheard(n, p) == From[p.id] \in ignored[n] \/ deliveries[n][p.id] # Never

(* The store once the ticket a message brings has been noted, before its     *)
(* stamp is looked at; validated says that its signature was found good.     *)
Noted(n, p, validated) ==
    IF validated /\ p.field # NoEntry /\ p.field.expires > now
    THEN remember_ticket(store[n], From[p.id], p.field)
    ELSE store[n]

(* stamp_valid: there is a stamp, and its value reaches the price.           *)
stamp_valid(work, cost) == work > 0 /\ work >= cost

(* Faulty variant: the tickets are looked up under the wrong correspondent.  *)
validate_stamp_with_tickets_swapped(n, p) ==
    \/ /\ p.ticket # NoEntry
       /\ p.ticket.ticket \in get_inbound_tickets(store[n], Dest[p.id])
    \/ stamp_valid(p.work, required[n])

validate_stamp_with_tickets(n, p) ==
    \/ /\ p.ticket # NoEntry
       /\ p.ticket.ticket \in get_inbound_tickets(store[n], From[p.id])
    \/ stamp_valid(p.work, required[n])

Wanted(n, p) ==
    required[n] = 0 \/ validate_stamp_with_tickets(n, p) \/ n \notin Enforcing

(* process_inbound_queue takes one message after the other from the queue;   *)
(* one that arrives in between is as good as one that arrives later, so      *)
(* process_inbound_message is a step of its own.                             *)
process_inbound_message(n, validated) ==
    LET p == Head(inbox[n])
        s == Noted(n, p, validated) IN
    /\ inbox[n] # <<>>
    /\ inbox' = [inbox EXCEPT ![n] = Tail(@)]
    /\ \/ /\ Unheard(n, p)
          /\ UNCHANGED <<store, deliveries, disk, acceptedAt>>
       \/ /\ ~Unheard(n, p) /\ ~Wanted(n, p)
          /\ persist_ticket_store(n, s)
          /\ UNCHANGED <<deliveries, acceptedAt>>
       \/ /\ ~Unheard(n, p) /\ Wanted(n, p)
          /\ store' = [store EXCEPT ![n] = s]
          /\ deliveries' = [deliveries EXCEPT ![n][p.id] = now]
          /\ disk' = [disk EXCEPT ![n] = Files(s, @.prices, deliveries'[n])]
          /\ acceptedAt' = [acceptedAt EXCEPT ![p.id] = now]
    /\ UNCHANGED <<now, prices, required, ignored, queue, sent, cache, issued,
                   budget>>

-----------------------------------------------------------------------------
(* Cleaning and restart                                                      *)

(* Faulty variant of clean_transient_cache: forgets a day early.             *)
clean_transient_cache_early(d) ==
    [m \in Message |-> IF now < d[m] + CacheExpiry THEN d[m] ELSE Never]

clean_transient_cache(d) ==
    [m \in Message |-> IF now <= d[m] + CacheExpiry THEN d[m] ELSE Never]

(* clean_transient_id_caches, the job of every tick.                         *)
clean_transient_id_caches(n) ==
    /\ clean_transient_cache(deliveries[n]) # deliveries[n]
    /\ deliveries' = [deliveries EXCEPT ![n] = clean_transient_cache(@)]
    /\ disk' = [disk EXCEPT ![n] = Files(@.store, @.prices, deliveries'[n])]
    /\ UNCHANGED <<now, store, prices, required, ignored, queue, sent, inbox,
                   cache, issued, budget, acceptedAt>>

(* with_store_and_root on the given files: load, clean and save.  Prices     *)
(* asked, ignored sources, inbound queue and DeliveredCache are gone; the    *)
(* queued messages come back from their own files, tickets and all.          *)
with_store_and_root(n, files) ==
    /\ budget.restarts > 0
    /\ budget' = [budget EXCEPT !.restarts = @ - 1]
    /\ store' = [store EXCEPT ![n] = clean_expired(files.store)]
    /\ prices' = [prices EXCEPT ![n] = clean_outbound_stamp_costs(files.prices)]
    /\ deliveries' = [deliveries EXCEPT ![n] = clean_transient_cache(files.deliveries)]
    /\ disk' = [disk EXCEPT ![n] = Files(store'[n], prices'[n], deliveries'[n])]
    /\ required' = [required EXCEPT ![n] = 0]
    /\ ignored' = [ignored EXCEPT ![n] = {}]
    /\ inbox' = [inbox EXCEPT ![n] = <<>>]
    /\ cache' = [cache EXCEPT ![n] = <<>>]
    /\ UNCHANGED <<now, queue, sent, issued, acceptedAt>>

Restart(n) == with_store_and_root(n, disk[n])

(* The process ends inside process_inbound_message: the ticket has been      *)
(* saved, the delivery has not, and the application has not been told.       *)
CrashInProcess(n) ==
    /\ inbox[n] # <<>>
    /\ ~Unheard(n, Head(inbox[n]))
    /\ with_store_and_root(n, Files(Noted(n, Head(inbox[n]), TRUE), disk[n].prices, disk[n].deliveries))

Tick ==
    /\ now < MaxNow /\ budget.days > 0
    /\ now' = now + 1
    /\ budget' = [budget EXCEPT !.days = @ - 1]
    /\ UNCHANGED <<store, prices, deliveries, disk, required, ignored, queue, sent,
                   inbox, cache, issued, acceptedAt>>

Next ==
    \/ \E n, q \in Node :
        /\ n # q
        /\ \/ GenerateTicket(n, q)
           \/ mark_ticket_delivered(n, q)
           \/ \E cost \in 0 .. MaxCost : set_outbound_stamp_cost(n, q, cost)
           \/ \E on \in BOOLEAN : ignore_destination(n, q, on)
    \/ \E n \in Node :
        \/ clean_tickets(n)
        \/ \E cost \in 0 .. MaxCost : set_inbound_stamp_cost(n, cost)
        \/ \E validated \in BOOLEAN : process_inbound_message(n, validated)
        \/ clean_transient_id_caches(n)
        \/ Restart(n)
        \/ CrashInProcess(n)
    \/ \E m \in Message : handle_outbound(m)
    \/ \E p \in queue : deliver(p)
    \/ \E p \in sent : receive_packet(p) \/ receive_inbound(p)
    \/ Tick

Spec == Init /\ [][Next]_vars

-----------------------------------------------------------------------------
(* Properties                                                                *)

(* A ticket a router believes it holds from n is one n still has on file,    *)
(* with the same expiry, in memory and on disk.                              *)
Backed(n, q, x) ==
    x # NoEntry /\ x.expires > now =>
        /\ store[n].inbound[q][x.ticket] = x.expires
        /\ disk[n].store.inbound[q][x.ticket] = x.expires

(* TicketsBacked: as long as a ticket has not expired for its holder, its    *)
(* issuer knows it, whatever was lost, repeated, cleaned or restarted in     *)
(* between (generate_ticket, remember_ticket, clean_expired, and the order   *)
(* of persist_ticket_store and enqueue in handle_outbound).                  *)
TicketsBacked ==
    \A n, q \in Node : Backed(n, q, store[q].outbound[n])

(* TicketAccepted: a message stamped with a ticket that has not expired is   *)
(* never refused for its stamp; it is accepted unless it is a repetition or  *)
(* its source is ignored (process_inbound_message,                           *)
(* validate_stamp_with_tickets).                                             *)
TicketAccepted ==
    [][\A n \in Node, validated \in BOOLEAN :
        /\ process_inbound_message(n, validated)
        /\ ~Unheard(n, Head(inbox[n]))
        /\ Head(inbox[n]).ticket # NoEntry
        /\ Head(inbox[n]).ticket.expires > now
        => acceptedAt'[Head(inbox[n]).id] = now]_vars

(* TicketsSpaced: the tickets a router has given to one correspondent expire *)
(* at least TICKET_EXPIRY - TICKET_RENEW apart, so however many messages ask *)
(* for one, only a few are ever valid together (generate_ticket).            *)
Apart(d, e) == d >= e + (TicketExpiry - TicketRenew) \/ e >= d + (TicketExpiry - TicketRenew)
Spaced(s) ==
    \A q \in Node : \A t, u \in Ticket :
        t # u /\ s.inbound[q][t] # Never /\ s.inbound[q][u] # Never =>
            Apart(s.inbound[q][t], s.inbound[q][u])
TicketsSpaced == \A n \in Node : Spaced(store[n])

(* DeliveredOnce: a message that was accepted is not accepted again before   *)
(* the delivery cache may forget it, over restarts, copies on the network,   *)
(* both ways in and whatever the DeliveredCache has forgotten                *)
(* (process_inbound_message, mark_local_delivery, clean_transient_cache).    *)
DeliveredOnce ==
    [][\A m \in Message :
        acceptedAt'[m] # acceptedAt[m] /\ acceptedAt[m] # Never =>
            now > acceptedAt[m] + CacheExpiry]_vars

-----------------------------------------------------------------------------
(* The inductive invariant behind the properties (TicketsProofs)             *)

(* Whatever a restart needs has been written.                                *)
DiskCurrent == disk = [n \in Node |-> Files(store[n], prices[n], deliveries[n])]

(* What waits to be processed came over the network, to the right router.    *)
InboxSent ==
    \A n \in Node : \A k \in 1 .. Len(inbox[n]) :
        inbox[n][k] \in sent /\ Dest[inbox[n][k].id] = n

(* A ticket on file has been drawn.                                          *)
Drawn(s) == \A q \in Node : \A t \in Ticket : s.inbound[q][t] # Never => t \in issued

(* The ticket a packet brings was issued by its author, the one it is        *)
(* stamped with by its receiver.                                             *)
PacketsBacked ==
    \A p \in queue \cup sent :
        Backed(From[p.id], Dest[p.id], p.field) /\ Backed(Dest[p.id], From[p.id], p.ticket)

(* An acceptance is remembered for CacheExpiry.                              *)
Remembered ==
    \A m \in Message :
        acceptedAt[m] # Never /\ now <= acceptedAt[m] + CacheExpiry =>
            deliveries[Dest[m]][m] = acceptedAt[m]

TicketsInv ==
    /\ TypeOK
    /\ DiskCurrent
    /\ InboxSent
    /\ \A n \in Node : Drawn(store[n])
    /\ TicketsSpaced
    /\ TicketsBacked
    /\ PacketsBacked
    /\ Remembered
=============================================================================
