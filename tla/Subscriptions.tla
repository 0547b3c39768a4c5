--------------------------- MODULE Subscriptions ---------------------------
(***************************************************************************)
(* What the activity manager promises, whatever its deployment: a user     *)
(* observes at most one other user, and a status change of a user is       *)
(* announced to exactly the users that observe it at that moment.          *)
(* ActivityStandalone implements this specification; ActivityCluster does  *)
(* so as long as no two operations overlap.                                *)
(***************************************************************************)
CONSTANTS Users, None

VARIABLES
    target,     \* target[o]: the user that o observes, or None
    announced   \* the last announcement: about whom, and to whom it went

vars == <<target, announced>>

Observers(u) == {o \in Users : target[o] = u}

Announcement == [user : Users \cup {None}, to : SUBSET Users]

TypeOK ==
    /\ target \in [Users -> Users \cup {None}]
    /\ announced \in Announcement

Init ==
    /\ target = [u \in Users |-> None]
    /\ announced = [user |-> None, to |-> {}]

Subscribe(o, t) ==
    /\ target' = [target EXCEPT ![o] = t]
    /\ UNCHANGED announced

Unsubscribe(o) ==
    /\ target' = [target EXCEPT ![o] = None]
    /\ UNCHANGED announced

\* A user whose status changes tells its observers.
Announce(u) ==
    /\ announced' = [user |-> u, to |-> Observers(u)]
    /\ UNCHANGED target

\* A user that goes offline stops observing, then tells its observers.
GoOffline(u) ==
    /\ target' = [target EXCEPT ![u] = None]
    /\ announced' = [user |-> u, to |-> Observers(u) \ {u}]

Next ==
    \/ \E o, t \in Users : Subscribe(o, t)
    \/ \E u \in Users : Unsubscribe(u) \/ Announce(u) \/ GoOffline(u)

Spec == Init /\ [][Next]_vars
=============================================================================
