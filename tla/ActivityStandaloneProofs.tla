---------------------- MODULE ActivityStandaloneProofs ----------------------
(***************************************************************************)
(* For every set of users and of tasks: the standalone activity manager    *)
(* keeps its two objects inverse to each other, and therefore implements   *)
(* Subscriptions.                                                          *)
(***************************************************************************)
EXTENDS ActivityStandalone, TLAPS

LEMMA TypeInit == Init => TypeOK
  BY DEF Init, TypeOK

\* Every step of the activity manager keeps its objects well formed.
LEMMA TypeStep == TypeOK /\ [Next]_vars => TypeOK'
  <1> SUFFICES ASSUME TypeOK, [Next]_vars PROVE TypeOK'
    OBVIOUS
  <1> USE NoneAssumption DEF TypeOK
  <1>1. ASSUME NEW k \in Tasks, NEW r \in Request, Start(k, r) PROVE TypeOK'
    BY <1>1 DEF Start
  <1>2. ASSUME NEW k \in Tasks, SubscribeRejected(k) PROVE TypeOK'
    BY <1>2 DEF SubscribeRejected, Finish
  <1>3. ASSUME NEW k \in Tasks, Subscribe(k) PROVE TypeOK'
    <2>1. tasks[k].user \in Users /\ tasks[k].target \in Users
      BY <1>3 DEF Subscribe, Request, SubscribeRequest, UpdateRequest, Idle
    <2>2. SUBSCRIBED_TO' \in [Users -> Users \cup {None}]
      BY <1>3, <2>1 DEF Subscribe, subscribeObserverToTarget,
         addSubscribeTarget, deleteSubscribeTarget
    <2>3. SUBSCRIBERS' \in [Users -> SUBSET Users]
      BY <1>3, <2>1 DEF Subscribe, subscribeObserverToTarget,
         addSubscriber, deleteSubscriber
    <2> QED BY <1>3, <2>2, <2>3 DEF Subscribe, Finish
  <1>4. ASSUME NEW k \in Tasks, UpdateOnline(k) PROVE TypeOK'
    <2>1. tasks[k].user \in Users
      BY <1>4 DEF UpdateOnline, Request, SubscribeRequest, UpdateRequest, Idle
    <2> QED BY <1>4, <2>1 DEF UpdateOnline, Finish
  <1>5. ASSUME NEW k \in Tasks, UpdateOffline(k) PROVE TypeOK'
    <2>1. tasks[k].user \in Users
      BY <1>5 DEF UpdateOffline, Request, SubscribeRequest, UpdateRequest, Idle
    <2>2. SUBSCRIBED_TO' \in [Users -> Users \cup {None}]
      BY <1>5, <2>1 DEF UpdateOffline, unsubscribeObserver, deleteSubscribeTarget
    <2>3. SUBSCRIBERS' \in [Users -> SUBSET Users]
      BY <1>5, <2>1 DEF UpdateOffline, unsubscribeObserver, deleteSubscriber
    <2> QED BY <1>5, <2>1, <2>2, <2>3 DEF UpdateOffline, Finish
  <1>6. ASSUME NEW o \in Users, Unsubscribe(o) PROVE TypeOK'
    BY <1>6 DEF Unsubscribe, unsubscribeObserver, deleteSubscribeTarget, deleteSubscriber
  <1>7. CASE UNCHANGED vars
    BY <1>7 DEF vars
  <1> QED BY <1>1, <1>2, <1>3, <1>4, <1>5, <1>6, <1>7 DEF Next

\* The state of ActivityStandalone is well typed in every behaviour.
THEOREM TypeCorrect == Spec => []TypeOK
  BY TypeInit, TypeStep, PTL DEF Spec

----------------------------------------------------------------------------

\* Forgetting an observer keeps the two objects inverse to each other.
LEMMA UnsubscribeKeepsInverse ==
  ASSUME TypeOK, InverseRelations, NEW o \in Users, unsubscribeObserver(o)
  PROVE  InverseRelations'
  BY NoneAssumption DEF TypeOK, InverseRelations, unsubscribeObserver,
     deleteSubscribeTarget, deleteSubscriber

\* So does moving an observer to a new target, the old one included.
LEMMA SubscribeKeepsInverse ==
  ASSUME TypeOK, InverseRelations, NEW o \in Users, NEW t \in Users,
         subscribeObserverToTarget(o, t)
  PROVE  InverseRelations'
  BY NoneAssumption DEF TypeOK, InverseRelations, subscribeObserverToTarget,
     addSubscribeTarget, addSubscriber, deleteSubscribeTarget, deleteSubscriber

LEMMA InverseStep ==
  TypeOK /\ InverseRelations /\ [Next]_vars => InverseRelations'
  <1> SUFFICES ASSUME TypeOK, InverseRelations, [Next]_vars PROVE InverseRelations'
    OBVIOUS
  <1>1. ASSUME NEW k \in Tasks, NEW r \in Request, Start(k, r) PROVE InverseRelations'
    BY <1>1 DEF Start, InverseRelations
  <1>2. ASSUME NEW k \in Tasks, SubscribeRejected(k) PROVE InverseRelations'
    BY <1>2 DEF SubscribeRejected, InverseRelations
  <1>3. ASSUME NEW k \in Tasks, Subscribe(k) PROVE InverseRelations'
    <2>1. tasks[k].user \in Users /\ tasks[k].target \in Users
      BY <1>3 DEF TypeOK, Subscribe, Request, SubscribeRequest, UpdateRequest, Idle
    <2> QED BY <1>3, <2>1, SubscribeKeepsInverse DEF Subscribe
  <1>4. ASSUME NEW k \in Tasks, UpdateOnline(k) PROVE InverseRelations'
    BY <1>4 DEF UpdateOnline, InverseRelations
  <1>5. ASSUME NEW k \in Tasks, UpdateOffline(k) PROVE InverseRelations'
    <2>1. tasks[k].user \in Users
      BY <1>5 DEF TypeOK, UpdateOffline, Request, SubscribeRequest, UpdateRequest, Idle
    <2> QED BY <1>5, <2>1, UnsubscribeKeepsInverse DEF UpdateOffline
  <1>6. ASSUME NEW o \in Users, Unsubscribe(o) PROVE InverseRelations'
    BY <1>6, UnsubscribeKeepsInverse DEF Unsubscribe
  <1>7. CASE UNCHANGED vars
    BY <1>7 DEF vars, InverseRelations
  <1> QED BY <1>1, <1>2, <1>3, <1>4, <1>5, <1>6, <1>7 DEF Next

\* SUBSCRIBED_TO and SUBSCRIBERS are inverse to each other at all times.
THEOREM InverseAlways == Spec => []InverseRelations
  <1>1. Init => InverseRelations
    BY NoneAssumption DEF Init, InverseRelations
  <1> QED BY <1>1, TypeCorrect, InverseStep, PTL DEF Spec

----------------------------------------------------------------------------

LEMMA PromiseStep ==
  TypeOK /\ InverseRelations /\ [Next]_vars => [Promise!Next]_(Promise!vars)
  <1> SUFFICES ASSUME TypeOK, InverseRelations, [Next]_vars
               PROVE  Promise!Next \/ UNCHANGED Promise!vars
    OBVIOUS
  <1> USE DEF Promise!vars
  <1>1. ASSUME NEW k \in Tasks, NEW r \in Request, Start(k, r) PROVE UNCHANGED Promise!vars
    BY <1>1 DEF Start
  <1>2. ASSUME NEW k \in Tasks, SubscribeRejected(k) PROVE UNCHANGED Promise!vars
    BY <1>2 DEF SubscribeRejected
  <1>3. ASSUME NEW k \in Tasks, Subscribe(k) PROVE Promise!Next
    <2>1. tasks[k].user \in Users /\ tasks[k].target \in Users
      BY <1>3 DEF TypeOK, Subscribe, Request, SubscribeRequest, UpdateRequest, Idle
    <2>2. Promise!Subscribe(tasks[k].user, tasks[k].target)
      BY <1>3, <2>1 DEF TypeOK, Subscribe, subscribeObserverToTarget,
         addSubscribeTarget, deleteSubscribeTarget, Promise!Subscribe
    <2> QED BY <2>1, <2>2 DEF Promise!Next
  <1>4. ASSUME NEW k \in Tasks, UpdateOnline(k) PROVE Promise!Next
    <2>1. tasks[k].user \in Users
      BY <1>4 DEF TypeOK, UpdateOnline, Request, SubscribeRequest, UpdateRequest, Idle
    <2>2. SUBSCRIBERS[tasks[k].user] = Promise!Observers(tasks[k].user)
      BY <2>1 DEF TypeOK, InverseRelations, Promise!Observers
    <2>3. Promise!Announce(tasks[k].user)
      BY <1>4, <2>2 DEF UpdateOnline, Promise!Announce
    <2> QED BY <2>1, <2>3 DEF Promise!Next
  <1>5. ASSUME NEW k \in Tasks, UpdateOffline(k) PROVE Promise!Next
    <2> DEFINE u == tasks[k].user
    <2>1. u \in Users
      BY <1>5 DEF TypeOK, UpdateOffline, Request, SubscribeRequest, UpdateRequest, Idle
    <2>2. SUBSCRIBERS'[u] = Promise!Observers(u) \ {u}
      BY <1>5, <2>1, NoneAssumption DEF TypeOK, InverseRelations, UpdateOffline,
         unsubscribeObserver, deleteSubscriber, Promise!Observers
    <2>3. Promise!GoOffline(u)
      BY <1>5, <2>2 DEF UpdateOffline, unsubscribeObserver,
         deleteSubscribeTarget, Promise!GoOffline
    <2> QED BY <2>1, <2>3 DEF Promise!Next
  <1>6. ASSUME NEW o \in Users, Unsubscribe(o) PROVE Promise!Next
    <2>1. Promise!Unsubscribe(o)
      BY <1>6 DEF Unsubscribe, unsubscribeObserver, deleteSubscribeTarget,
         Promise!Unsubscribe
    <2> QED BY <2>1 DEF Promise!Next
  <1>7. CASE UNCHANGED vars
    BY <1>7 DEF vars
  <1> QED BY <1>1, <1>2, <1>3, <1>4, <1>5, <1>6, <1>7 DEF Next

\* The standalone activity manager implements Subscriptions: the users that
\* updateUserActivity returns are exactly the current observers.
THEOREM ImplementsPromise == Spec => KeepsPromise
  <1>1. Init => Promise!Init
    BY DEF Init, Promise!Init
  <1> QED BY <1>1, PromiseStep, TypeCorrect, InverseAlways, PTL
          DEF Spec, KeepsPromise, Promise!Spec
=============================================================================
