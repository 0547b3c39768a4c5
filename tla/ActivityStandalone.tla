------------------------- MODULE ActivityStandalone -------------------------
(***************************************************************************)
(* ActivityManagerStandaloneService: the subscriptions to the last         *)
(* activity of users, kept in two objects of one Node.js process.  The     *)
(* methods run synchronously; what interleaves is the database call in     *)
(* front of them, so a request is a task that waits for its answer.        *)
(***************************************************************************)
EXTENDS FiniteSets

CONSTANTS Users, Tasks, None

ASSUME NoneAssumption == None \notin Users

VARIABLES
    SUBSCRIBED_TO,  \* SUBSCRIBED_TO[observer]: its target, None if absent
    SUBSCRIBERS,    \* SUBSCRIBERS[target]: the keys of its object
    tasks,          \* requests that wait for the database
    deliver         \* the result of the last updateUserActivity

vars == <<SUBSCRIBED_TO, SUBSCRIBERS, tasks, deliver>>

Idle == [op |-> "idle", user |-> None, target |-> None]

SubscribeRequest == [op : {"subscribe"}, user : Users, target : Users]
UpdateRequest == [op : {"online", "offline"}, user : Users, target : {None}]
Request == SubscribeRequest \cup UpdateRequest

TypeOK ==
    /\ SUBSCRIBED_TO \in [Users -> Users \cup {None}]
    /\ SUBSCRIBERS \in [Users -> SUBSET Users]
    /\ tasks \in [Tasks -> Request \cup {Idle}]
    /\ deliver \in [user : Users \cup {None}, to : SUBSET Users]

Init ==
    /\ SUBSCRIBED_TO = [u \in Users |-> None]
    /\ SUBSCRIBERS = [u \in Users |-> {}]
    /\ tasks = [k \in Tasks |-> Idle]
    /\ deliver = [user |-> None, to |-> {}]

----------------------------------------------------------------------------
(* The accessors of the two objects. *)

deleteSubscribeTarget(to, o) == [to EXCEPT ![o] = None]

storeTargetAsList(to, o, t) == [to EXCEPT ![o] = {t}]

addSubscribeTarget(to, o, t) == [to EXCEPT ![o] = t]

addSubscriber(subs, t, o) == [subs EXCEPT ![t] = @ \cup {o}]

forgetSubscriberOnly(subs, t, o) == subs

deleteSubscriber(subs, t, o) ==
    [u \in Users |-> IF u = t THEN subs[u] \ {o} ELSE subs[u]]

unsubscribeObserver(o) ==
    /\ SUBSCRIBED_TO' = deleteSubscribeTarget(SUBSCRIBED_TO, o)
    /\ SUBSCRIBERS' = deleteSubscriber(SUBSCRIBERS, SUBSCRIBED_TO[o], o)

----------------------------------------------------------------------------
(* Requests. *)

\* A subscribe request reads its target from the database, a status update
\* writes the user's recent activity: both continue when the call returns.
Start(k, r) ==
    /\ tasks[k] = Idle
    /\ tasks' = [tasks EXCEPT ![k] = r]
    /\ UNCHANGED <<SUBSCRIBED_TO, SUBSCRIBERS, deliver>>

Finish(k) == tasks' = [tasks EXCEPT ![k] = Idle]

\* The target does not exist or belongs to another organization.
SubscribeRejected(k) ==
    /\ tasks[k].op = "subscribe"
    /\ Finish(k)
    /\ UNCHANGED <<SUBSCRIBED_TO, SUBSCRIBERS, deliver>>

subscribeObserverToTarget(o, t) ==
    /\ SUBSCRIBED_TO' = addSubscribeTarget(deleteSubscribeTarget(SUBSCRIBED_TO, o), o, t)
    /\ SUBSCRIBERS' =
         addSubscriber(deleteSubscriber(SUBSCRIBERS, SUBSCRIBED_TO[o], o), t, o)

Subscribe(k) ==
    /\ tasks[k].op = "subscribe"
    /\ subscribeObserverToTarget(tasks[k].user, tasks[k].target)
    /\ Finish(k)
    /\ UNCHANGED deliver

\* An unsubscribe request, or the first step of deleting a user.
Unsubscribe(o) ==
    /\ unsubscribeObserver(o)
    /\ UNCHANGED <<tasks, deliver>>

UpdateOnline(k) ==
    /\ tasks[k].op = "online"
    /\ deliver' = [user |-> tasks[k].user, to |-> SUBSCRIBERS[tasks[k].user]]
    /\ Finish(k)
    /\ UNCHANGED <<SUBSCRIBED_TO, SUBSCRIBERS>>

announceBeforeUnsubscribe(k) ==
    /\ tasks[k].op = "offline"
    /\ unsubscribeObserver(tasks[k].user)
    /\ deliver' = [user |-> tasks[k].user, to |-> SUBSCRIBERS[tasks[k].user]]
    /\ Finish(k)

UpdateOffline(k) ==
    /\ tasks[k].op = "offline"
    /\ unsubscribeObserver(tasks[k].user)
    /\ deliver' = [user |-> tasks[k].user, to |-> SUBSCRIBERS'[tasks[k].user]]
    /\ Finish(k)

Next ==
    \/ \E k \in Tasks :
         \/ \E r \in Request : Start(k, r)
         \/ SubscribeRejected(k)
         \/ Subscribe(k)
         \/ UpdateOnline(k)
         \/ UpdateOffline(k)
    \/ \E o \in Users : Unsubscribe(o)

Spec == Init /\ [][Next]_vars

----------------------------------------------------------------------------
(* Properties. *)

\* The two objects are inverse to each other: a user is among the
\* subscribers of its target and of nobody else, after any sequence of
\* subscribes, unsubscribes and status updates.
InverseRelations ==
    \A o, t \in Users : o \in SUBSCRIBERS[t] <=> SUBSCRIBED_TO[o] = t

Promise == INSTANCE Subscriptions WITH
    target <- SUBSCRIBED_TO, announced <- deliver

\* The service keeps the promise of Subscriptions: what updateUserActivity
\* returns is exactly the users that observe the user at that moment.
KeepsPromise == Promise!Spec
=============================================================================
