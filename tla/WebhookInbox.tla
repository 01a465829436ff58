---------------------------- MODULE WebhookInbox ----------------------------
(***************************************************************************)
(* What the billing webhook queue promises to the payment provider,        *)
(* whatever workers crash, stall, lose replies or retry: an event has an    *)
(* effect only after it was durably accepted, and no worker ever commits    *)
(* the effect of the same event twice.  With one worker process this is    *)
(* "at most once"; with several it bounds how often an event can be         *)
(* re-applied.                                                              *)
(***************************************************************************)
EXTENDS Naturals

CONSTANTS Events,    \* signed webhook bodies, identified by their SHA-256
          Workers    \* webhook worker processes sharing the queue

VARIABLES accepted,  \* events whose delivery was answered with 200 OK
          applied    \* applied[e][w]: business transactions of e committed by w

inboxVars == <<accepted, applied>>

InboxInit ==
    /\ accepted = {}
    /\ applied = [e \in Events |-> [w \in Workers |-> 0]]

Accept(e) ==
    /\ accepted' = accepted \cup {e}
    /\ UNCHANGED applied

Apply(e, w) ==
    /\ e \in accepted
    /\ applied[e][w] = 0
    /\ applied' = [applied EXCEPT ![e][w] = 1]
    /\ UNCHANGED accepted

InboxNext ==
    \/ \E e \in Events : Accept(e)
    \/ \E e \in Events, w \in Workers : Apply(e, w)

InboxSpec == InboxInit /\ [][InboxNext]_inboxVars
=============================================================================
