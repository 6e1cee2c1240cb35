----------------------------- MODULE EventFeed ------------------------------
(***************************************************************************)
(* What a relay of gateway events promises, whatever its polls, answers    *)
(* and restarts: an event that was published is delivered at most once, or *)
(* is lost, and no event is made up.                                       *)
(***************************************************************************)
EXTENDS Naturals

CONSTANT Event

VARIABLES published, lost,   \* sets of events
          deliveries         \* how often each was delivered

vars == <<published, lost, deliveries>>

Waiting == {e \in published \ lost : deliveries[e] = 0}

Init == published = {} /\ lost = {} /\ deliveries = [e \in Event |-> 0]

Publish ==
    /\ \E e \in Event \ published : published' = published \cup {e}
    /\ UNCHANGED <<lost, deliveries>>

Deliver ==
    /\ \E events \in SUBSET Waiting :
          deliveries' = [e \in Event |-> IF e \in events THEN 1 ELSE deliveries[e]]
    /\ UNCHANGED <<published, lost>>

Lose ==
    /\ \E events \in SUBSET Waiting : lost' = lost \cup events
    /\ UNCHANGED <<published, deliveries>>

Next == Publish \/ Deliver \/ Lose

Spec == Init /\ [][Next]_vars
=============================================================================
