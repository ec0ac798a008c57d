------------------------------ MODULE Delivery ------------------------------
(***************************************************************************)
(* What the outbound queue promises of each message, without queue, files, *)
(* identifiers, delays or crashes: an accepted message waits until it is   *)
(* handed over, fails or is lost, once and for all, and is tried no more   *)
(* often than the retry policy allows.  Outbox implements it.              *)
(***************************************************************************)
EXTENDS Naturals

CONSTANTS Msgs, MaxAttempts

VARIABLES accepted, \* messages the application has given to the queue
          waiting,  \* those whose delivery is still open
          over,     \* handed to the transport
          failed,   \* reported as failed
          lost,     \* neither handed over nor reported
          tried     \* delivery attempts made

vars == <<accepted, waiting, over, failed, lost, tried>>

Init ==
    /\ accepted = {} /\ waiting = {} /\ over = {} /\ failed = {} /\ lost = {}
    /\ tried = [m \in Msgs |-> 0]

Accept(m) ==
    /\ m \notin accepted
    /\ accepted' = accepted \cup {m}
    /\ waiting' = waiting \cup {m}
    /\ UNCHANGED <<over, failed, lost, tried>>

Try(m) == m \in waiting /\ tried' = [tried EXCEPT ![m] = @ + 1]

\* An attempt that is not the last one fails.
Retry(m) ==
    /\ Try(m)
    /\ tried[m] + 1 < MaxAttempts
    /\ UNCHANGED <<accepted, waiting, over, failed, lost>>

HandOver(m) ==
    /\ Try(m)
    /\ waiting' = waiting \ {m}
    /\ over' = over \cup {m}
    /\ UNCHANGED <<accepted, failed, lost>>

GiveUp(m) ==
    /\ Try(m)
    /\ waiting' = waiting \ {m}
    /\ failed' = failed \cup {m}
    /\ UNCHANGED <<accepted, over, lost>>

\* The program dies while it gives a message up.
Lose(m) ==
    /\ Try(m)
    /\ waiting' = waiting \ {m}
    /\ lost' = lost \cup {m}
    /\ UNCHANGED <<accepted, over, failed>>

\* Messages that were handed over and not acknowledged are reported as failed.
Report(S) ==
    /\ S \subseteq over
    /\ failed' = failed \cup S
    /\ UNCHANGED <<accepted, waiting, over, lost, tried>>

Next ==
    \/ \E m \in Msgs : \/ Accept(m) \/ Retry(m) \/ HandOver(m)
                       \/ GiveUp(m) \/ Lose(m)
    \/ \E S \in SUBSET Msgs : Report(S)

Spec == Init /\ [][Next]_vars
=============================================================================
