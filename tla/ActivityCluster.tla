-------------------------- MODULE ActivityCluster --------------------------
(***************************************************************************)
(* ActivityManagerClusterService: the same subscriptions kept in two Redis *)
(* hashes that every node of the cluster writes.  One Redis command is one *)
(* step; a field of sama:subscribers is read, edited by the node and       *)
(* written back, so a task carries the list it has read.  The devices of a *)
(* user may be connected to different nodes, each with its own Redis       *)
(* client, so the commands of two tasks interleave freely.                 *)
(***************************************************************************)
EXTENDS Naturals, FiniteSets

CONSTANTS
    Users, Tasks, None,
    MaxOverlap      \* bound: operations in flight at the same time

ASSUME NoneAssumption == None \notin Users

VARIABLES
    SUBSCRIBED_TO,  \* hash sama:subscribed_to, None for an absent field
    SUBSCRIBERS,    \* hash sama:subscribers, {} for an absent field
    tasks,          \* operations in flight, with their next command
    deliver         \* the result of the last updateUserActivity

vars == <<SUBSCRIBED_TO, SUBSCRIBERS, tasks, deliver>>
store == <<SUBSCRIBED_TO, SUBSCRIBERS>>

Idle == [op |-> "idle", pc |-> "idle", user |-> None, target |-> None,
         old |-> None, list |-> {}]

Ops == {"subscribe", "unsubscribe", "online", "offline"}
Steps == {"database", "getTarget", "delTarget", "readOld", "writeOld",
          "setTarget", "readNew", "writeNew", "readDeliver"}

Task == [op : Ops, pc : Steps, user : Users, target : Users \cup {None},
         old : Users \cup {None}, list : SUBSET Users]

TypeOK ==
    /\ SUBSCRIBED_TO \in [Users -> Users \cup {None}]
    /\ SUBSCRIBERS \in [Users -> SUBSET Users]
    /\ tasks \in [Tasks -> Task \cup {Idle}]
    /\ deliver \in [user : Users \cup {None}, to : SUBSET Users]

Init ==
    /\ SUBSCRIBED_TO = [u \in Users |-> None]
    /\ SUBSCRIBERS = [u \in Users |-> {}]
    /\ tasks = [k \in Tasks |-> Idle]
    /\ deliver = [user |-> None, to |-> {}]

At(k, pc) == tasks[k].pc = pc
Goto(k, pc) == tasks' = [tasks EXCEPT ![k].pc = pc]
Finish(k) == tasks' = [tasks EXCEPT ![k] = Idle]
InFlight == {k \in Tasks : tasks[k] # Idle}

\* Where an operation starts: a subscribe reads its target from the database
\* and an update writes the recent activity before the first Redis command.
FirstStep(op) == IF op = "unsubscribe" THEN "getTarget" ELSE "database"

Start(k, op, u, t) ==
    /\ tasks[k] = Idle
    /\ Cardinality(InFlight) < MaxOverlap
    /\ (op = "subscribe") <=> (t # None)
    /\ tasks' = [tasks EXCEPT ![k] =
         [op |-> op, pc |-> FirstStep(op), user |-> u, target |-> t,
          old |-> None, list |-> {}]]
    /\ UNCHANGED <<store, deliver>>

\* The target does not exist or belongs to another organization.
SubscribeRejected(k) ==
    /\ At(k, "database")
    /\ tasks[k].op = "subscribe"
    /\ Finish(k)
    /\ UNCHANGED <<store, deliver>>

DatabaseAnswers(k) ==
    /\ At(k, "database")
    /\ Goto(k, IF tasks[k].op = "online" THEN "readDeliver" ELSE "getTarget")
    /\ UNCHANGED <<store, deliver>>

----------------------------------------------------------------------------
(* unsubscribeObserver: also the beginning of a subscribe and of going     *)
(* offline.                                                                *)

AfterUnsubscribe(k) ==
    CASE tasks[k].op = "subscribe"   -> Goto(k, "setTarget")
      [] tasks[k].op = "offline"     -> Goto(k, "readDeliver")
      [] tasks[k].op = "unsubscribe" -> Finish(k)

subscribeTarget(k) ==
    /\ At(k, "getTarget")
    /\ tasks' = [tasks EXCEPT ![k].old = SUBSCRIBED_TO[tasks[k].user],
                              ![k].pc = "delTarget"]
    /\ UNCHANGED <<store, deliver>>

deleteSubscribeTarget(k) ==
    /\ At(k, "delTarget")
    /\ SUBSCRIBED_TO' = [SUBSCRIBED_TO EXCEPT ![tasks[k].user] = None]
    /\ IF tasks[k].old # None THEN Goto(k, "readOld") ELSE AfterUnsubscribe(k)
    /\ UNCHANGED <<SUBSCRIBERS, deliver>>

deleteSubscriberRead(k) ==
    /\ At(k, "readOld")
    /\ tasks' = [tasks EXCEPT ![k].list = SUBSCRIBERS[tasks[k].old],
                              ![k].pc = "writeOld"]
    /\ UNCHANGED <<store, deliver>>

clearSubscribedInstead(k) ==
    /\ At(k, "writeOld")
    /\ SUBSCRIBERS' = [SUBSCRIBERS EXCEPT ![tasks[k].old] = {}]
    /\ AfterUnsubscribe(k)
    /\ UNCHANGED <<SUBSCRIBED_TO, deliver>>

\* hSet of what is left, or hDel of the field when nothing is left.
deleteSubscriberWrite(k) ==
    /\ At(k, "writeOld")
    /\ SUBSCRIBERS' =
         [SUBSCRIBERS EXCEPT ![tasks[k].old] = tasks[k].list \ {tasks[k].user}]
    /\ AfterUnsubscribe(k)
    /\ UNCHANGED <<SUBSCRIBED_TO, deliver>>

----------------------------------------------------------------------------
(* The rest of subscribeObserverToTarget and of updateUserActivity. *)

storeTargetAsList(k) ==
    /\ At(k, "setTarget")
    /\ SUBSCRIBED_TO' = [SUBSCRIBED_TO EXCEPT ![tasks[k].user] = {tasks[k].target}]
    /\ Goto(k, "readNew")
    /\ UNCHANGED <<SUBSCRIBERS, deliver>>

addSubscribeTarget(k) ==
    /\ At(k, "setTarget")
    /\ SUBSCRIBED_TO' = [SUBSCRIBED_TO EXCEPT ![tasks[k].user] = tasks[k].target]
    /\ Goto(k, "readNew")
    /\ UNCHANGED <<SUBSCRIBERS, deliver>>

addSubscriberRead(k) ==
    /\ At(k, "readNew")
    /\ tasks' = [tasks EXCEPT ![k].list = SUBSCRIBERS[tasks[k].target],
                              ![k].pc = "writeNew"]
    /\ UNCHANGED <<store, deliver>>

addSubscriberWrite(k) ==
    /\ At(k, "writeNew")
    /\ SUBSCRIBERS' =
         [SUBSCRIBERS EXCEPT ![tasks[k].target] = tasks[k].list \cup {tasks[k].user}]
    /\ Finish(k)
    /\ UNCHANGED <<SUBSCRIBED_TO, deliver>>

deliverToUserToo(k) ==
    /\ At(k, "readDeliver")
    /\ deliver' = [user |-> tasks[k].user,
                   to |-> SUBSCRIBERS[tasks[k].user] \cup {tasks[k].user}]
    /\ Finish(k)
    /\ UNCHANGED store

subscribers(k) ==
    /\ At(k, "readDeliver")
    /\ deliver' = [user |-> tasks[k].user, to |-> SUBSCRIBERS[tasks[k].user]]
    /\ Finish(k)
    /\ UNCHANGED store

Step(k) ==
    \/ DatabaseAnswers(k)
    \/ subscribeTarget(k)
    \/ deleteSubscribeTarget(k)
    \/ deleteSubscriberRead(k)
    \/ deleteSubscriberWrite(k)
    \/ addSubscribeTarget(k)
    \/ addSubscriberRead(k)
    \/ addSubscriberWrite(k)
    \/ subscribers(k)

Next ==
    \E k \in Tasks :
        \/ \E op \in Ops, u \in Users, t \in Users \cup {None} : Start(k, op, u, t)
        \/ SubscribeRejected(k)
        \/ Step(k)

Spec == Init /\ [][Next]_vars

----------------------------------------------------------------------------
(* Properties. *)

\* Whenever no operation is in flight, the two hashes are inverse to each
\* other: after an answered unsubscribe the observer is in no list.
InverseWhenQuiet ==
    InFlight = {} =>
        \A o, t \in Users : o \in SUBSCRIBERS[t] <=> SUBSCRIBED_TO[o] = t

Promise == INSTANCE Subscriptions WITH
    target <- SUBSCRIBED_TO, announced <- deliver

\* Every Redis command is a step of the promise or invisible: hDel of the
\* target is an Unsubscribe, hSet a Subscribe (a subscribe is the one and
\* then the other), and updateUserActivity returns the users that observe
\* the user.
KeepsPromise == Promise!Spec
=============================================================================
