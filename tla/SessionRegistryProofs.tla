----------------------- MODULE SessionRegistryProofs -----------------------
(***************************************************************************)
(* For every number of nodes, users, devices, sockets and concurrent       *)
(* tasks, under every behaviour of clients and crashes: SessionRegistry is *)
(* type correct and the connections of a user on a node stay unique.       *)
(***************************************************************************)
EXTENDS SessionRegistry, TLAPS

\* The steps that use the variable of a task.
UserSteps == {"auth", "found", "devices", "add", "online", "offline", "logout",
              "http", "sRem", "hGetAll", "del", "sRemNode", "left", "filter",
              "check", "drop", "dataList", "dataGet", "dataNode", "delList", "delData",
              "delUser", "cleanLast", "cleanData"}
DevSteps == {"sRem", "hGetAll", "del", "sRemNode", "check", "drop",
             "cleanLast", "cleanData"}
EndpointSteps == {"del", "sRemNode", "members", "cleanDevice", "cleanLast",
                  "cleanData", "cleanNode", "announce"}
SocketOps == {"connect", "close", "logout", "delete", "http", "watchdog"}

\* What the code relies on when a step of a task reads its variables: the
\* ones the step uses have been assigned.
WellFormed(t) ==
    /\ t \in Task
    /\ t.pc # "idle" => t.node \in Nodes
    /\ t.pc \in UserSteps => t.user \in Users
    /\ t.pc \in DevSteps => t.dev \in AllDevices
    /\ t.pc \in EndpointSteps => t.endpoint \in Nodes
    /\ t.op \in SocketOps => t.socket \in Sockets
    /\ t.op \in {"connect", "watchdog"} => t.device \in AllDevices
    /\ t.op = "watchdog" => t.owner \in Users
    /\ \/ t.pc \in {"auth", "found", "devices", "add"}
       \/ t.ret \in {"add", "online"}
       => t.op = "connect"
    /\ t.pc \in {"ping", "again"} => t.op = "watchdog"
    /\ t.pc \in {"logout", "http", "session"} => t.op \in SocketOps

\* The inductive invariant.
Inv ==
    /\ TypeOK
    /\ UniqueConnections
    /\ \A k \in Keys : WellFormed(tasks[k])

Unique(conns) ==
    \A c1, c2 \in conns : c1.socket = c2.socket \/ c1.device = c2.device => c1 = c2

----------------------------------------------------------------------------
(* The sockets of one node. *)

\* FindSocket returns connections of the socket, and all of them when the
\* connections are unique.
LEMMA FindSocketAll ==
    ASSUME NEW conns, Unique(conns), NEW s
    PROVE  FindSocket(conns, s) = {c \in conns : c.socket = s}
<1> DEFINE hits == {c \in conns : c.socket = s}
<1>1. CASE hits = {}
  BY <1>1 DEF FindSocket
<1>2. CASE hits # {}
  <2> DEFINE h == CHOOSE c \in hits : TRUE
  <2>1. h \in hits
    BY <1>2
  <2>2. \A c \in hits : c = h
    BY <2>1 DEF Unique
  <2> QED
    BY <1>2, <2>1, <2>2 DEF FindSocket
<1> QED
  BY <1>1, <1>2

\* The same for FindDevice.
LEMMA FindDeviceAll ==
    ASSUME NEW conns, Unique(conns), NEW d
    PROVE  FindDevice(conns, d) = {c \in conns : c.device = d}
<1> DEFINE hits == {c \in conns : c.device = d}
<1>1. CASE hits = {}
  BY <1>1 DEF FindDevice
<1>2. CASE hits # {}
  <2> DEFINE h == CHOOSE c \in hits : TRUE
  <2>1. h \in hits
    BY <1>2
  <2>2. \A c \in hits : c = h
    BY <2>1 DEF Unique
  <2> QED
    BY <1>2, <2>1, <2>2 DEF FindDevice
<1> QED
  BY <1>1, <1>2

\* addUserDeviceConnection keeps the connections of a user unique.
LEMMA AddKeepsUnique ==
    ASSUME NEW conns \in SUBSET Connection, Unique(conns),
           NEW s \in Sockets, NEW d \in AllDevices
    PROVE  /\ addUserDeviceConnection(conns, s, d) \in SUBSET Connection
           /\ Unique(addUserDeviceConnection(conns, s, d))
<1> DEFINE new == [socket |-> s, device |-> d]
           rest == {c \in conns : c.socket # s /\ c.device # d}
<1>1. addUserDeviceConnection(conns, s, d) = rest \cup {new}
  BY FindSocketAll, FindDeviceAll DEF addUserDeviceConnection
<1>2. new \in Connection /\ new.socket = s /\ new.device = d
  BY DEF Connection
<1>3. Unique(rest \cup {new})
  BY <1>2 DEF Unique
<1> QED
  BY <1>1, <1>2, <1>3

\* getDeviceId answers a device or nothing.
LEMMA getDeviceIdType ==
    ASSUME NEW conns \in SUBSET Connection, NEW s
    PROVE  getDeviceId(conns, s) \in AllDevices \cup {None}
<1> DEFINE hits == {c \in conns : c.socket = s}
           found == FindSocket(conns, s)
<1>1. found \subseteq conns
  <2>1. hits = {} => found = {}
    BY DEF FindSocket
  <2>2. hits # {} => found = {CHOOSE c \in hits : TRUE} /\ (CHOOSE c \in hits : TRUE) \in hits
    BY DEF FindSocket
  <2> QED
    BY <2>1, <2>2
<1>2. \A c \in conns : c.device \in AllDevices
  BY DEF Connection
<1>3. found # {} => (CHOOSE c \in found : TRUE) \in conns
  BY <1>1
<1> QED
  BY <1>2, <1>3 DEF getDeviceId

----------------------------------------------------------------------------
(* The variables of a task. *)

\* A task with one variable changed is a task.
LEMMA Updates ==
    ASSUME NEW t \in Task
    PROVE  /\ \A v \in Steps : [t EXCEPT !.pc = v] \in Task
           /\ \A v \in Users \cup {None} : [t EXCEPT !.user = v] \in Task
           /\ \A v \in AllDevices \cup {None} : [t EXCEPT !.same = v] \in Task
           /\ \A v \in BOOLEAN : [t EXCEPT !.org = v] \in Task
           /\ \A v \in AllDevices \cup {None} : [t EXCEPT !.dev = v] \in Task
           /\ \A v \in Nodes \cup {None} : [t EXCEPT !.endpoint = v] \in Task
           /\ \A v \in SUBSET AllDevices : [t EXCEPT !.list = v] \in Task
           /\ \A v \in SUBSET AllDevices : [t EXCEPT !.left = v] \in Task
           /\ \A v \in {"finish", "add", "online", "offline"} : [t EXCEPT !.ret = v] \in Task
           /\ \A v \in SUBSET (AllDevices \X Nodes) : [t EXCEPT !.pairs = v] \in Task
           /\ \A v \in SUBSET Nodes : [t EXCEPT !.active = v] \in Task
           /\ \A v \in SUBSET Nodes : [t EXCEPT !.nodes = v] \in Task
           /\ \A v \in SUBSET (Users \X AllDevices) : [t EXCEPT !.members = v] \in Task
           /\ \A v \in SUBSET Users : [t EXCEPT !.last = v] \in Task
           /\ \A v \in Ops : [t EXCEPT !.op = v] \in Task
           /\ \A v \in Nodes \cup {None} : [t EXCEPT !.node = v] \in Task
           /\ \A v \in Sockets \cup {None} : [t EXCEPT !.socket = v] \in Task
           /\ \A v \in AllDevices \cup {None} : [t EXCEPT !.device = v] \in Task
           /\ \A v \in Users \cup {None} : [t EXCEPT !.owner = v] \in Task
<1>1. \A v \in Steps : [t EXCEPT !.pc = v] \in Task
  BY DEF Task
<1>2. \A v \in Users \cup {None} : [t EXCEPT !.user = v] \in Task
  BY DEF Task
<1>3. \A v \in AllDevices \cup {None} : [t EXCEPT !.same = v] \in Task
  BY DEF Task
<1>4. \A v \in BOOLEAN : [t EXCEPT !.org = v] \in Task
  BY DEF Task
<1>5. \A v \in AllDevices \cup {None} : [t EXCEPT !.dev = v] \in Task
  BY DEF Task
<1>6. \A v \in Nodes \cup {None} : [t EXCEPT !.endpoint = v] \in Task
  BY DEF Task
<1>7. \A v \in SUBSET AllDevices : [t EXCEPT !.list = v] \in Task
  BY DEF Task
<1>8. \A v \in SUBSET AllDevices : [t EXCEPT !.left = v] \in Task
  BY DEF Task
<1>9. \A v \in {"finish", "add", "online", "offline"} : [t EXCEPT !.ret = v] \in Task
  BY DEF Task
<1>10. \A v \in SUBSET (AllDevices \X Nodes) : [t EXCEPT !.pairs = v] \in Task
  BY DEF Task
<1>11. \A v \in SUBSET Nodes : [t EXCEPT !.active = v] \in Task
  BY DEF Task
<1>12. \A v \in SUBSET Nodes : [t EXCEPT !.nodes = v] \in Task
  BY DEF Task
<1>13. \A v \in SUBSET (Users \X AllDevices) : [t EXCEPT !.members = v] \in Task
  BY DEF Task
<1>14. \A v \in SUBSET Users : [t EXCEPT !.last = v] \in Task
  BY DEF Task
<1>15. \A v \in Ops : [t EXCEPT !.op = v] \in Task
  BY DEF Task
<1>16. \A v \in Nodes \cup {None} : [t EXCEPT !.node = v] \in Task
  BY DEF Task
<1>17. \A v \in Sockets \cup {None} : [t EXCEPT !.socket = v] \in Task
  BY DEF Task
<1>18. \A v \in AllDevices \cup {None} : [t EXCEPT !.device = v] \in Task
  BY DEF Task
<1>19. \A v \in Users \cup {None} : [t EXCEPT !.owner = v] \in Task
  BY DEF Task
<1> QED
  BY <1>1, <1>2, <1>3, <1>4, <1>5, <1>6, <1>7, <1>8, <1>9, <1>10, <1>11,
     <1>12, <1>13, <1>14, <1>15, <1>16, <1>17, <1>18, <1>19, Zenon

LEMMA NoTaskWellFormed == NoTask \in Task /\ WellFormed(NoTask)
<1>1. NoTask \in Task
  BY Zenon DEF NoTask, Task, Ops, Steps, Commands
<1>2. NoTask.pc = "idle" /\ NoTask.op = "idle" /\ NoTask.ret = "finish"
  BY DEF NoTask
<1> QED
  BY <1>1, <1>2 DEF WellFormed, UserSteps, DevSteps, EndpointSteps, SocketOps

\* A removal that is done leaves a task that can go on.
LEMMA FinishedWellFormed ==
    ASSUME NEW t, WellFormed(t), t.node \in Nodes
    PROVE  WellFormed(Finished(t))
<1>1. CASE t.op = "watchdog" /\ t.ret = "offline"
  <2> DEFINE v == [t EXCEPT !.pc = "again", !.ret = "finish", !.dev = None, !.left = {}]
  <2>1. v \in Task
    BY Updates, Zenon DEF WellFormed, Steps, Commands
  <2>2. WellFormed(v)
    BY <1>1, <2>1 DEF WellFormed, Task, UserSteps, DevSteps, EndpointSteps, SocketOps
  <2> QED
    BY <1>1, <2>2 DEF Finished
<1>2. CASE ~(t.op = "watchdog" /\ t.ret = "offline")
  BY <1>2, NoTaskWellFormed DEF Finished
<1> QED
  BY <1>1, <1>2

LEMMA ReturnedWellFormed ==
    ASSUME NEW t, WellFormed(t), t.node \in Nodes, t.user \in Users
    PROVE  WellFormed(Returned(t))
<1>1. CASE t.ret \in {"add", "online"} \/ (t.ret = "offline" /\ t.left = {})
  <2> DEFINE v == [t EXCEPT !.pc = t.ret, !.dev = None, !.left = {}]
  <2>1. v \in Task
    BY <1>1, Updates, Zenon DEF WellFormed, Steps, Commands
  <2>2. WellFormed(v)
    BY <1>1, <2>1 DEF WellFormed, Task, UserSteps, DevSteps, EndpointSteps, SocketOps
  <2> QED
    BY <1>1, <2>2 DEF Returned
<1>2. CASE ~(t.ret \in {"add", "online"} \/ (t.ret = "offline" /\ t.left = {}))
  BY <1>2, FinishedWellFormed DEF Returned
<1> QED
  BY <1>1, <1>2

LEMMA NextDeviceWellFormed ==
    ASSUME NEW t, WellFormed(t), t.node \in Nodes, t.user \in Users
    PROVE  WellFormed(NextDevice(t))
<1>1. CASE t.list = {}
  BY <1>1, ReturnedWellFormed DEF NextDevice
<1>2. CASE t.list # {}
  BY <1>2 DEF NextDevice, WellFormed, Task, Steps, Commands, UserSteps, DevSteps,
              EndpointSteps, SocketOps
<1> QED
  BY <1>1, <1>2

----------------------------------------------------------------------------
(* Steps that change a task and leave the sockets alone. *)

\* The next variables of a task keep the invariant.
LEMMA BecomeWellFormed ==
    ASSUME Inv, NEW k \in Keys, NEW t, WellFormed(t), Become(k, t)
    PROVE  /\ tasks' \in [Keys -> Task] /\ \A j \in Keys : WellFormed(tasks'[j])
           /\ ahead' \in [Keys -> SUBSET Keys]
<1>1. tasks \in [Keys -> Task] /\ ahead \in [Keys -> SUBSET Keys]
  BY DEF Inv, TypeOK
<1>2. tasks' = [tasks EXCEPT ![k] = t]
  BY DEF Become
<1>3. tasks' \in [Keys -> Task] /\ \A j \in Keys : WellFormed(tasks'[j])
  BY <1>1, <1>2 DEF Inv, WellFormed
<1>4. Waiting(t.node) \ {k} \subseteq Keys
  BY DEF Waiting
<1>5. ahead' \in [Keys -> SUBSET Keys]
  BY <1>1, <1>4 DEF Become
<1> QED
  BY <1>3, <1>5

\* A step that leaves the connections alone keeps the invariant when what it
\* writes has its type.
LEMMA StableStep ==
    ASSUME Inv, NEW k \in Keys, NEW t, WellFormed(t), Become(k, t),
           UNCHANGED DEVICES,
           accounts' \in SUBSET Users,
           phase' \in [Nodes -> {"up", "down", "booting"}],
           open' \in SUBSET Sockets,
           SESSIONS' \in [Sockets -> Users \cup {None}],
           nodeUsers' \in [Nodes -> SUBSET (Users \X AllDevices)],
           userDevices' \in [Users -> SUBSET AllDevices],
           userData' \in [Users -> [AllDevices -> Nodes \cup {None}]],
           nodeData' \in SUBSET Nodes,
           status' \in [Users -> {"online", "offline"}]
    PROVE  Inv'
<1>1. /\ tasks' \in [Keys -> Task] /\ \A j \in Keys : WellFormed(tasks'[j])
      /\ ahead' \in [Keys -> SUBSET Keys]
  BY BecomeWellFormed
<1>2. TypeOK'
  BY <1>1 DEF Inv, TypeOK
<1>3. UniqueConnections'
  BY DEF Inv, UniqueConnections
<1> QED
  BY <1>1, <1>2, <1>3 DEF Inv, Keys

\* In particular a Redis command,
LEMMA WriteStep ==
    ASSUME Inv, NEW k \in Keys, NEW t, WellFormed(t), NEW pc, Write(k, pc, t),
           nodeUsers' \in [Nodes -> SUBSET (Users \X AllDevices)],
           userDevices' \in [Users -> SUBSET AllDevices],
           userData' \in [Users -> [AllDevices -> Nodes \cup {None}]]
    PROVE  Inv'
<1>1. /\ Become(k, t)
      /\ UNCHANGED <<open, SESSIONS, DEVICES, accounts, phase, nodeData, status>>
  BY DEF Write, local, cluster
<1>2. /\ accounts' \in SUBSET Users
      /\ phase' \in [Nodes -> {"up", "down", "booting"}]
      /\ open' \in SUBSET Sockets
      /\ SESSIONS' \in [Sockets -> Users \cup {None}]
      /\ nodeData' \in SUBSET Nodes
      /\ status' \in [Users -> {"online", "offline"}]
  BY <1>1 DEF Inv, TypeOK
<1> QED
  BY <1>1, <1>2, StableStep

\* one that only reads,
LEMMA ReadStep ==
    ASSUME Inv, NEW k \in Keys, NEW t, WellFormed(t), NEW pc, Read(k, pc, t)
    PROVE  Inv'
<1>1. Write(k, pc, t) /\ UNCHANGED <<nodeUsers, userDevices, userData>>
  BY DEF Read, records
<1>2. /\ nodeUsers' \in [Nodes -> SUBSET (Users \X AllDevices)]
      /\ userDevices' \in [Users -> SUBSET AllDevices]
      /\ userData' \in [Users -> [AllDevices -> Nodes \cup {None}]]
  BY <1>1 DEF Inv, TypeOK
<1> QED
  BY <1>1, <1>2, WriteStep

\* an announcement,
LEMMA AnnounceStep ==
    ASSUME Inv, NEW k \in Keys, NEW t, WellFormed(t),
           NEW users, NEW st \in {"online", "offline"}, Announce(k, t, users, st)
    PROVE  Inv'
<1>1. /\ Become(k, t)
      /\ UNCHANGED <<open, SESSIONS, DEVICES, nodeUsers, userDevices, userData,
                     accounts, phase, nodeData>>
      /\ status' = [u \in Users |-> IF u \in users THEN st ELSE status[u]]
  BY DEF Announce, local, records, cluster
<1>2. /\ accounts' \in SUBSET Users
      /\ phase' \in [Nodes -> {"up", "down", "booting"}]
      /\ open' \in SUBSET Sockets
      /\ SESSIONS' \in [Sockets -> Users \cup {None}]
      /\ nodeUsers' \in [Nodes -> SUBSET (Users \X AllDevices)]
      /\ userDevices' \in [Users -> SUBSET AllDevices]
      /\ userData' \in [Users -> [AllDevices -> Nodes \cup {None}]]
      /\ nodeData' \in SUBSET Nodes
      /\ status' \in [Users -> {"online", "offline"}]
  BY <1>1 DEF Inv, TypeOK
<1> QED
  BY <1>1, <1>2, StableStep

\* and the start of a task.
LEMMA BeginStep ==
    ASSUME Inv, NEW k \in Keys, NEW t, WellFormed(t), Begin(k, t),
           open' \in SUBSET Sockets, UNCHANGED <<SESSIONS, DEVICES>>
    PROVE  Inv'
<1>1. /\ Become(k, t)
      /\ UNCHANGED <<SESSIONS, DEVICES, nodeUsers, userDevices, userData,
                     accounts, phase, nodeData, status>>
  BY DEF Begin, records, cluster
<1>2. /\ accounts' \in SUBSET Users
      /\ phase' \in [Nodes -> {"up", "down", "booting"}]
      /\ SESSIONS' \in [Sockets -> Users \cup {None}]
      /\ nodeUsers' \in [Nodes -> SUBSET (Users \X AllDevices)]
      /\ userDevices' \in [Users -> SUBSET AllDevices]
      /\ userData' \in [Users -> [AllDevices -> Nodes \cup {None}]]
      /\ nodeData' \in SUBSET Nodes
      /\ status' \in [Users -> {"online", "offline"}]
  BY <1>1 DEF Inv, TypeOK
<1> QED
  BY <1>1, <1>2, StableStep

\* A block that edits the connections of one user on one node keeps the
\* invariant when it leaves unique connections.
LEMMA BlockStep ==
    ASSUME Inv, NEW k \in Keys, NEW t, WellFormed(t), Become(k, t),
           NEW n \in Nodes, NEW u \in Users,
           NEW conns \in SUBSET Connection, Unique(conns),
           DEVICES' = [DEVICES EXCEPT ![n][u] = conns],
           SESSIONS' \in [Sockets -> Users \cup {None}],
           open' \in SUBSET Sockets,
           UNCHANGED <<records, cluster, status>>
    PROVE  Inv'
<1>1. /\ tasks' \in [Keys -> Task] /\ \A j \in Keys : WellFormed(tasks'[j])
      /\ ahead' \in [Keys -> SUBSET Keys]
  BY BecomeWellFormed
<1>2. UNCHANGED <<nodeUsers, userDevices, userData, accounts, phase, nodeData, status>>
  BY DEF records, cluster
<1>3. DEVICES' \in [Nodes -> [Users -> SUBSET Connection]]
  BY DEF Inv, TypeOK
<1>4. TypeOK'
  BY <1>1, <1>2, <1>3 DEF Inv, TypeOK
<1>5. \A m \in Nodes, v \in Users : Unique(DEVICES'[m][v])
  <2> TAKE m \in Nodes, v \in Users
  <2>1. DEVICES'[m][v] = IF m = n /\ v = u THEN conns ELSE DEVICES[m][v]
    BY DEF Inv, TypeOK
  <2>2. Unique(DEVICES[m][v])
    BY DEF Inv, UniqueConnections, Unique
  <2> QED
    BY <2>1, <2>2
<1>6. UniqueConnections'
  BY <1>5 DEF UniqueConnections, Unique
<1> QED
  BY <1>1, <1>4, <1>6 DEF Inv, Keys

\* removeUserSession leaves a part of the connections, and a task that goes
\* on with the records or with its answer.
LEMMA removeUserSessionStep ==
    ASSUME Inv, NEW k \in Keys, NEW t, WellFormed(t),
           t.node \in Nodes, t.user \in Users, NEW s \in Sockets,
           NEW d \in AllDevices \cup {None}, removeUserSession(k, t, s, d),
           open' \in SUBSET Sockets, UNCHANGED <<records, cluster, status>>
    PROVE  Inv'
<1> DEFINE conns == DEVICES[t.node][t.user]
           kept == {c \in conns : c.device # d}
           w == [t EXCEPT !.left = {c.device : c \in kept}]
           v == [t EXCEPT !.pc = "sRem", !.dev = d, !.org = SESSIONS[s] # None]
           next == IF d = None THEN Returned(w) ELSE v
<1>1. conns \in SUBSET Connection /\ Unique(conns)
  BY DEF Inv, TypeOK, UniqueConnections, Unique
<1>2. kept \in SUBSET Connection /\ Unique(kept)
  BY <1>1 DEF Unique
<1>3. {c.device : c \in kept} \in SUBSET AllDevices
  BY <1>2 DEF Connection
<1>4. WellFormed(Returned(w))
  <2>1. w \in Task
    BY <1>3, Updates, ZenonT(60) DEF WellFormed
  <2>2. WellFormed(w) /\ w.node \in Nodes /\ w.user \in Users
    BY <2>1 DEF WellFormed, Task
  <2> QED
    BY <2>2, ReturnedWellFormed, Zenon
<1>5. ASSUME d # None PROVE WellFormed(v)
  <2>1. v \in Task
    BY Updates, Zenon DEF WellFormed, Steps, Commands
  <2> QED
    BY <1>5, <2>1 DEF WellFormed, Task, UserSteps, DevSteps, EndpointSteps, SocketOps
<1>6. WellFormed(next)
  BY <1>4, <1>5
<1>7. /\ DEVICES' = [DEVICES EXCEPT ![t.node][t.user] = kept]
      /\ SESSIONS' = [SESSIONS EXCEPT ![s] = None]
      /\ Become(k, next)
  BY DEF removeUserSession
<1>8. SESSIONS' \in [Sockets -> Users \cup {None}]
  BY <1>7 DEF Inv, TypeOK
<1> QED
  BY <1>2, <1>6, <1>7, <1>8, BlockStep, Zenon

----------------------------------------------------------------------------
(* The actions. *)

LEMMA LoginSteps ==
    ASSUME Inv, NEW k \in Slots,
           \/ \E s \in Sockets, u \in Users, d \in Devices : Login(k, s, u, d)
           \/ LoginRejected(k) \/ FindUser(k, tasks[k]) \/ LoginAccepted(k, tasks[k])
           \/ StoreListDevices(k, tasks[k]) \/ addUserDeviceDataTransaction(k, tasks[k])
           \/ AnnounceOnline(k, tasks[k]) \/ AnnounceOffline(k, tasks[k])
    PROVE  Inv'
<1> DEFINE t == tasks[k]
<1> USE DEF UserSteps, DevSteps, EndpointSteps, SocketOps
<1>t. k \in Keys /\ WellFormed(t)
  BY SMTT(30) DEF Inv, Keys
<1>1. ASSUME NEW s \in Sockets, NEW u \in Users, NEW d \in Devices, Login(k, s, u, d)
      PROVE  Inv'
  <2> DEFINE v == [NoTask EXCEPT !.op = "connect", !.pc = "auth", !.user = u,
                     !.node = SocketNode[s], !.socket = s, !.device = d]
  <2>0. SocketNode[s] \in Nodes /\ d \in AllDevices
    BY ConstantsAssumption DEF AllDevices
  <2>1a. v \in Task
    BY <2>0, NoTaskWellFormed, Updates, ZenonT(60) DEF Ops, Steps, Commands
  <2>1b. /\ v.op = "connect" /\ v.pc = "auth" /\ v.user = u /\ v.ret = "finish"
         /\ v.node = SocketNode[s] /\ v.socket = s /\ v.device = d
    BY DEF NoTask
  <2>1. WellFormed(v)
    BY <2>0, <2>1a, <2>1b DEF WellFormed
  <2>2. open' \in SUBSET Sockets
    BY <1>1, Zenon DEF Login, Inv, TypeOK
  <2> QED
    BY <1>1, <1>t, <2>1, <2>2, BeginStep, Zenon DEF Login
<1>2. CASE LoginRejected(k)
  BY <1>2, <1>t, NoTaskWellFormed, ReadStep DEF LoginRejected
<1>8. CASE FindUser(k, t)
  <2> DEFINE v == [t EXCEPT !.pc = "found"]
  <2>1. t.pc = "auth" /\ t.op = "connect" /\ Read(k, "auth", v)
    BY <1>8, <1>t DEF FindUser, Read, Write, At, WellFormed
  <2>2. v \in Task
    BY <1>t, Updates, Zenon DEF WellFormed, Steps
  <2>3. WellFormed(v)
    BY <1>t, <2>1, <2>2 DEF WellFormed, Task
  <2> HIDE DEF v
  <2> QED
    BY <1>t, <2>1, <2>3, ReadStep
<1>3. CASE LoginAccepted(k, t)
  <2> DEFINE conns == DEVICES[t.node][t.user]
             v == [t EXCEPT !.pc = "devices", !.same = getDeviceId(conns, t.socket)]
  <2>1. /\ t.node \in Nodes /\ t.user \in Users /\ t.socket \in Sockets
        /\ t.device \in AllDevices /\ t.op = "connect"
    BY <1>3, <1>t DEF LoginAccepted, Block, At, WellFormed
  <2>2. conns \in SUBSET Connection /\ Unique(conns)
    BY <2>1 DEF Inv, TypeOK, UniqueConnections, Unique
  <2>3. v \in Task
    BY <1>t, <2>2, Updates, getDeviceIdType, Zenon DEF WellFormed, Steps, Commands
  <2>4. WellFormed(v)
    BY <1>t, <2>1, <2>3, ZenonT(60) DEF WellFormed, Task
  <2>5. SESSIONS' \in [Sockets -> Users \cup {None}]
    BY <1>3, <2>1 DEF LoginAccepted, Inv, TypeOK
  <2>6. open' \in SUBSET Sockets /\ UNCHANGED <<records, cluster, status>>
    BY <1>3 DEF LoginAccepted, Block, Inv, TypeOK
  <2>7. /\ DEVICES' = [DEVICES EXCEPT ![t.node][t.user] =
                          addUserDeviceConnection(conns, t.socket, t.device)]
        /\ Become(k, v)
    BY <1>3, <2>1 DEF LoginAccepted, Inv, TypeOK
  <2> HIDE DEF v, conns
  <2> QED
    BY <1>t, <2>1, <2>2, <2>4, <2>5, <2>6, <2>7, AddKeepsUnique, BlockStep, Zenon
<1>4. CASE StoreListDevices(k, t)
  <2> DEFINE v == [t EXCEPT !.pc = "sRem", !.dev = t.device, !.ret = "add"]
             w == [t EXCEPT !.pc = "add"]
  <2>1. t.pc = "devices" /\ t.op = "connect" /\ t.device \in AllDevices
    BY <1>4, <1>t DEF StoreListDevices, Read, Write, At, WellFormed
  <2>2. v \in Task /\ w \in Task
    BY <1>t, <2>1, Updates, Zenon DEF WellFormed, Steps, Commands
  <2>3. WellFormed(v) /\ WellFormed(w)
    BY <1>t, <2>1, <2>2 DEF WellFormed, Task
  <2> HIDE DEF v, w
  <2> QED
    BY <1>4, <1>t, <2>3, ReadStep DEF StoreListDevices, v, w
<1>5. CASE addUserDeviceDataTransaction(k, t)
  <2> DEFINE v == [t EXCEPT !.pc = "sRem", !.dev = t.same, !.ret = "online"]
             w == [t EXCEPT !.pc = "online"]
             next == IF t.same # None THEN v ELSE w
  <2>1. /\ t.pc = "add" /\ t.op = "connect" /\ t.device \in AllDevices
        /\ t.user \in Users /\ t.node \in Nodes /\ t.same \in AllDevices \cup {None}
    BY <1>5, <1>t DEF addUserDeviceDataTransaction, Write, At, WellFormed, Task
  <2>2. v \in Task /\ w \in Task
    BY <1>t, <2>1, Updates, Zenon DEF WellFormed, Steps, Commands
  <2>3. WellFormed(w) /\ (t.same # None => WellFormed(v))
    BY <1>t, <2>1, <2>2 DEF WellFormed, Task
  <2>4. /\ nodeUsers' \in [Nodes -> SUBSET (Users \X AllDevices)]
        /\ userDevices' \in [Users -> SUBSET AllDevices]
        /\ userData' \in [Users -> [AllDevices -> Nodes \cup {None}]]
    BY <1>5, <2>1 DEF addUserDeviceDataTransaction, Inv, TypeOK
  <2>5. WellFormed(next) /\ Write(k, "add", next)
    BY <1>5, <2>3 DEF addUserDeviceDataTransaction
  <2> QED
    BY <1>t, <2>4, <2>5, WriteStep
<1>6. CASE AnnounceOnline(k, t)
  BY <1>6, <1>t, NoTaskWellFormed, AnnounceStep DEF AnnounceOnline
<1>7. CASE AnnounceOffline(k, t)
  <2>1. WellFormed(Finished(t))
    BY <1>7, <1>t, FinishedWellFormed DEF AnnounceOffline, At, WellFormed
  <2> QED
    BY <1>7, <1>t, <2>1, AnnounceStep, SMTT(30) DEF AnnounceOffline
<1> QED
  BY <1>1, <1>2, <1>3, <1>4, <1>5, <1>6, <1>7, <1>8

LEMMA RemovalSteps ==
    ASSUME Inv, NEW k \in Slots,
           \/ RemoveDevice(k, tasks[k]) \/ ReadEndpoint(k, tasks[k])
           \/ DeleteExtraParams(k, tasks[k]) \/ RemoveFromNode(k, tasks[k])
           \/ ListLeftDevices(k, tasks[k]) \/ FilterRead(k, tasks[k])
           \/ FilterCheck(k, tasks[k]) \/ removeAllUserDeviceDataTransaction(k, tasks[k])
           \/ \E n \in Nodes, u \in Users : ListUserDevice(k, n, u)
    PROVE  Inv'
<1> DEFINE t == tasks[k]
<1> USE DEF UserSteps, DevSteps, EndpointSteps, SocketOps
<1>t. k \in Keys /\ WellFormed(t) /\ t \in Task
  BY DEF Inv, Keys, WellFormed
<1>r. /\ nodeUsers \in [Nodes -> SUBSET (Users \X AllDevices)]
      /\ userDevices \in [Users -> SUBSET AllDevices]
      /\ userData \in [Users -> [AllDevices -> Nodes \cup {None}]]
  BY DEF Inv, TypeOK
<1>1. CASE RemoveDevice(k, t)
  <2> DEFINE v == [t EXCEPT !.pc = "hGetAll"]
  <2>1. v \in Task /\ t.pc = "sRem"
    BY <1>1, <1>t, Updates, Zenon DEF RemoveDevice, Write, At, Steps, Commands
  <2>2. WellFormed(v)
    BY <1>t, <2>1 DEF WellFormed, Task
  <2>3. /\ nodeUsers' \in [Nodes -> SUBSET (Users \X AllDevices)]
        /\ userDevices' \in [Users -> SUBSET AllDevices]
        /\ userData' \in [Users -> [AllDevices -> Nodes \cup {None}]]
    BY <1>1, <1>r, Zenon DEF RemoveDevice
  <2> QED
    BY <1>1, <1>t, <2>2, <2>3, WriteStep DEF RemoveDevice
<1>2. CASE ReadEndpoint(k, t)
  <2> DEFINE stored == userData[t.user][t.dev]
             e == IF stored = None THEN t.node ELSE stored
             v == [t EXCEPT !.pc = "del", !.endpoint = e]
  <2>1. t.pc = "hGetAll" /\ Read(k, "hGetAll", v)
    BY <1>2 DEF ReadEndpoint, Read, Write, At
  <2>2. e \in Nodes
    BY <1>t, <1>r, <2>1 DEF WellFormed
  <2> HIDE DEF e
  <2>3. v \in Task
    BY <1>t, <2>2, Updates, Zenon DEF Steps, Commands
  <2>4. WellFormed(v)
    BY <1>t, <2>1, <2>2, <2>3 DEF WellFormed, Task
  <2> QED
    BY <1>t, <2>1, <2>4, ReadStep
<1>3. CASE DeleteExtraParams(k, t)
  <2> DEFINE v == [t EXCEPT !.pc = "sRemNode"]
  <2>1. v \in Task /\ t.pc = "del"
    BY <1>3, <1>t, Updates, Zenon DEF DeleteExtraParams, Write, At, Steps, Commands
  <2>2. WellFormed(v)
    BY <1>t, <2>1 DEF WellFormed, Task
  <2>3. /\ nodeUsers' \in [Nodes -> SUBSET (Users \X AllDevices)]
        /\ userDevices' \in [Users -> SUBSET AllDevices]
        /\ userData' \in [Users -> [AllDevices -> Nodes \cup {None}]]
    BY <1>3, <1>r, Zenon DEF DeleteExtraParams
  <2> QED
    BY <1>3, <1>t, <2>2, <2>3, WriteStep DEF DeleteExtraParams
<1>4. CASE RemoveFromNode(k, t)
  <2> DEFINE v == [t EXCEPT !.pc = "left", !.endpoint = None]
  <2>1. v \in Task /\ t.pc = "sRemNode"
    BY <1>4, <1>t, Updates, Zenon DEF RemoveFromNode, Write, At, Steps, Commands
  <2>2. WellFormed(v)
    BY <1>t, <2>1 DEF WellFormed, Task
  <2>3. /\ nodeUsers' \in [Nodes -> SUBSET (Users \X AllDevices)]
        /\ userDevices' \in [Users -> SUBSET AllDevices]
        /\ userData' \in [Users -> [AllDevices -> Nodes \cup {None}]]
    BY <1>4, <1>r, Zenon DEF RemoveFromNode
  <2> QED
    BY <1>4, <1>t, <2>2, <2>3, WriteStep DEF RemoveFromNode
<1>5. CASE ListLeftDevices(k, t)
  <2> DEFINE devices == IF t.org THEN userDevices[t.user] ELSE {}
             v == [t EXCEPT !.list = devices, !.left = devices]
  <2>1. t.pc = "left" /\ t.user \in Users /\ t.node \in Nodes
    BY <1>5, <1>t DEF ListLeftDevices, Read, Write, At, WellFormed
  <2>2. devices \in SUBSET AllDevices
    BY <1>r, <2>1
  <2>l. Read(k, "left", NextDevice(v))
    BY <1>5 DEF ListLeftDevices
  <2> HIDE DEF devices
  <2>3. v \in Task
    BY <1>t, <2>2, Updates, Zenon
  <2>4. WellFormed(v) /\ v.user \in Users /\ v.node \in Nodes
    BY <1>t, <2>1, <2>3 DEF WellFormed, Task
  <2>5. WellFormed(NextDevice(v))
    BY <2>4, NextDeviceWellFormed, Zenon
  <2> QED
    BY <1>t, <2>5, <2>l, ReadStep
<1>6. CASE FilterRead(k, t)
  <2>1. PICK d \in t.list :
          Read(k, "filter", [t EXCEPT !.pc = "check", !.dev = d, !.list = @ \ {d},
                                      !.endpoint = userData[t.user][d]])
    BY <1>6, Zenon DEF FilterRead
  <2> DEFINE e == userData[t.user][d]
             rest == t.list \ {d}
             v == [t EXCEPT !.pc = "check", !.dev = d, !.list = rest, !.endpoint = e]
  <2>2. t.pc = "filter" /\ t.user \in Users /\ Read(k, "filter", v)
    BY <1>t, <2>1 DEF Read, Write, At, WellFormed, Task
  <2>3. d \in AllDevices /\ rest \in SUBSET AllDevices
    BY <1>t, <2>1 DEF Task
  <2>4. e \in Nodes \cup {None}
    BY <1>r, <2>2, <2>3
  <2> HIDE DEF e, rest
  <2>5. v \in Task
    BY <1>t, <2>3, <2>4, Updates, Zenon DEF Steps, Commands
  <2>6. WellFormed(v)
    BY <1>t, <2>2, <2>3, <2>5 DEF WellFormed, Task
  <2> QED
    BY <1>t, <2>2, <2>6, ReadStep
<1>7. CASE FilterCheck(k, t)
  <2> DEFINE v == [t EXCEPT !.pc = "drop", !.left = t.left \ {t.dev}, !.endpoint = None]
             w == [t EXCEPT !.endpoint = None]
  <2>1. /\ t.pc = "check" /\ t.user \in Users /\ t.node \in Nodes
        /\ t.left \ {t.dev} \in SUBSET AllDevices
    BY <1>7, <1>t DEF FilterCheck, Read, Write, At, WellFormed, Task
  <2>2. v \in Task /\ w \in Task
    BY <1>t, <2>1, Updates, ZenonT(60) DEF Steps, Commands
  <2>3. WellFormed(v) /\ WellFormed(w) /\ w.user \in Users /\ w.node \in Nodes
    BY <1>t, <2>1, <2>2 DEF WellFormed, Task
  <2>4. WellFormed(NextDevice(w))
    BY <2>3, NextDeviceWellFormed, Zenon
  <2>5. Read(k, "check", v) \/ Read(k, "check", NextDevice(w))
    BY <1>7, <1>t, SMTT(30) DEF FilterCheck, Task
  <2> QED
    BY <1>t, <2>3, <2>4, <2>5, ReadStep
<1>8. CASE removeAllUserDeviceDataTransaction(k, t)
  <2>1. t.pc = "drop" /\ t.user \in Users /\ t.node \in Nodes
    BY <1>8, <1>t DEF removeAllUserDeviceDataTransaction, Write, At, WellFormed
  <2>2. WellFormed(NextDevice(t))
    BY <1>t, <2>1, NextDeviceWellFormed, SMTT(30)
  <2>3. /\ nodeUsers' \in [Nodes -> SUBSET (Users \X AllDevices)]
        /\ userDevices' \in [Users -> SUBSET AllDevices]
        /\ userData' \in [Users -> [AllDevices -> Nodes \cup {None}]]
    BY <1>8, <1>r, Zenon DEF removeAllUserDeviceDataTransaction
  <2> QED
    BY <1>8, <1>t, <2>2, <2>3, WriteStep DEF removeAllUserDeviceDataTransaction
<1>9. ASSUME NEW n \in Nodes, NEW u \in Users, ListUserDevice(k, n, u)
      PROVE  Inv'
  <2> DEFINE v == [NoTask EXCEPT !.op = "list", !.pc = "left", !.node = n, !.user = u]
  <2>1a. v \in Task
    BY NoTaskWellFormed, Updates, ZenonT(60) DEF Ops, Steps, Commands
  <2>1b. v.op = "list" /\ v.pc = "left" /\ v.node = n /\ v.user = u /\ v.ret = "finish"
    BY DEF NoTask
  <2>1. WellFormed(v)
    BY <2>1a, <2>1b DEF WellFormed
  <2>2. open' \in SUBSET Sockets /\ UNCHANGED <<SESSIONS, DEVICES>>
    BY <1>9, Zenon DEF ListUserDevice, local, Inv, TypeOK
  <2> QED
    BY <1>9, <1>t, <2>1, <2>2, BeginStep, Zenon DEF ListUserDevice
<1> QED
  BY <1>1, <1>2, <1>3, <1>4, <1>5, <1>6, <1>7, <1>8, <1>9, SMTT(30)

LEMMA ClosingSteps ==
    ASSUME Inv, NEW k \in Slots,
           \/ \E s \in Sockets : Close(k, s) \/ Logout(k, s)
           \/ \E s \in Sockets, u \in Users : HttpRequest(k, s, u)
           \/ LogoutRemove(k, tasks[k]) \/ HttpUnbind(k, tasks[k])
           \/ Watchdog(k) \/ WatchdogAlive(k, tasks[k])
           \/ WatchdogClose(k, tasks[k]) \/ WatchdogRemove(k, tasks[k])
    PROVE  Inv'
<1> DEFINE t == tasks[k]
<1> USE DEF UserSteps, DevSteps, EndpointSteps, SocketOps
<1>t. k \in Keys /\ WellFormed(t) /\ t \in Task
  BY DEF Inv, Keys, WellFormed
<1>o. /\ open \in SUBSET Sockets
      /\ SESSIONS \in [Sockets -> Users \cup {None}]
      /\ \A n \in Nodes, u \in Users : DEVICES[n][u] \in SUBSET Connection
      /\ \A n \in Nodes, u \in Users : Unique(DEVICES[n][u])
  BY DEF Inv, TypeOK, UniqueConnections, Unique
<1>n. \A s \in Sockets : SocketNode[s] \in Nodes
  BY ConstantsAssumption
<1>1. ASSUME NEW s \in Sockets, Close(k, s)
      PROVE  Inv'
  <2> DEFINE n == SocketNode[s]
             u == SESSIONS[s]
             v == [NoTask EXCEPT !.op = "close", !.node = n, !.socket = s,
                                 !.user = u, !.ret = "offline"]
  <2>1. open' \in SUBSET Sockets /\ UNCHANGED <<records, cluster, status>>
    BY <1>1, <1>o, Zenon DEF Close
  <2>2. CASE u = None
    <3>1. UNCHANGED <<SESSIONS, DEVICES, tasks, ahead, nodeUsers, userDevices, userData,
                      accounts, phase, nodeData, status>>
      BY <1>1, <2>2, Zenon DEF Close, records, cluster, work
    <3>2. TypeOK'
      BY <2>1, <3>1 DEF Inv, TypeOK
    <3> QED
      BY <3>1, <3>2, SMTT(30) DEF Inv, UniqueConnections
  <2>3. CASE u # None
    <3>1. n \in Nodes /\ u \in Users
      BY <1>n, <1>o, <2>3
    <3>2. removeUserSession(k, v, s, getDeviceId(DEVICES[n][u], s))
      BY <1>1, <2>3, Zenon DEF Close
    <3>3. getDeviceId(DEVICES[n][u], s) \in AllDevices \cup {None}
      BY <1>o, <3>1, getDeviceIdType
    <3> HIDE DEF n, u
    <3>4a. v \in Task
      BY <3>1, NoTaskWellFormed, Updates, ZenonT(60) DEF Ops, Steps, Commands
    <3>4b. /\ v.op = "close" /\ v.pc = "idle" /\ v.node = n /\ v.socket = s
           /\ v.user = u /\ v.ret = "offline"
      BY DEF NoTask
    <3>4. WellFormed(v) /\ v.node \in Nodes /\ v.user \in Users
      BY <3>1, <3>4a, <3>4b DEF WellFormed
    <3> QED
      BY <1>t, <2>1, <3>2, <3>3, <3>4, removeUserSessionStep, Zenon
  <2> QED
    BY <2>2, <2>3, SMTT(30)
<1>2. ASSUME NEW s \in Sockets, Logout(k, s)
      PROVE  Inv'
  <2> DEFINE n == SocketNode[s]
             u == SESSIONS[s]
             d == getDeviceId(DEVICES[n][u], s)
             v == [NoTask EXCEPT !.op = "logout", !.pc = "logout", !.node = n,
                     !.socket = s, !.user = u, !.ret = "offline", !.device = d]
  <2>1. n \in Nodes /\ u \in Users
    BY <1>2, <1>n, <1>o, Zenon DEF Logout
  <2>2. d \in AllDevices \cup {None}
    BY <1>o, <2>1, getDeviceIdType, SMTT(30)
  <2>3. Begin(k, v) /\ open' \in SUBSET Sockets /\ UNCHANGED <<SESSIONS, DEVICES>>
    BY <1>2, <1>o, Zenon DEF Logout, local
  <2> HIDE DEF n, u, d
  <2>4a. v \in Task
    BY <2>1, <2>2, NoTaskWellFormed, Updates, ZenonT(60) DEF Ops, Steps, Commands
  <2>4b. /\ v.op = "logout" /\ v.pc = "logout" /\ v.node = n /\ v.socket = s
         /\ v.user = u /\ v.ret = "offline"
    BY DEF NoTask
  <2>4. WellFormed(v)
    BY <2>1, <2>2, <2>4a, <2>4b DEF WellFormed
  <2> QED
    BY <1>t, <2>3, <2>4, BeginStep
<1>3. ASSUME NEW s \in Sockets, NEW u \in Users, HttpRequest(k, s, u)
      PROVE  Inv'
  <2> DEFINE n == SocketNode[s]
             conns == DEVICES[n][u]
             v == [NoTask EXCEPT !.op = "http", !.pc = "http", !.user = u,
                     !.node = n, !.socket = s]
  <2>1. n \in Nodes /\ HttpDevice \in AllDevices
    BY <1>n DEF AllDevices
  <2>2. conns \in SUBSET Connection /\ Unique(conns)
    BY <1>o, <2>1
  <2>3. /\ DEVICES' = [DEVICES EXCEPT ![n][u] = addUserDeviceConnection(conns, s, HttpDevice)]
        /\ Become(k, v) /\ UNCHANGED <<records, cluster, status>>
    BY <1>3, <2>1, Zenon DEF HttpRequest, Begin, Inv, TypeOK
  <2>4. SESSIONS' \in [Sockets -> Users \cup {None}] /\ open' \in SUBSET Sockets
    BY <1>3, <1>o, Zenon DEF HttpRequest
  <2> HIDE DEF n, conns
  <2>5a. v \in Task
    BY <2>1, NoTaskWellFormed, Updates, ZenonT(60) DEF Ops, Steps, Commands
  <2>5b. /\ v.op = "http" /\ v.pc = "http" /\ v.user = u /\ v.node = n
         /\ v.socket = s /\ v.ret = "finish"
    BY DEF NoTask
  <2>5. WellFormed(v)
    BY <2>1, <2>5a, <2>5b DEF WellFormed
  <2> HIDE DEF v
  <2> QED
    BY <1>t, <2>1, <2>2, <2>3, <2>4, <2>5, AddKeepsUnique, BlockStep, ZenonT(60)
<1>4. CASE LogoutRemove(k, t)
  <2> DEFINE d == IF t.device # None THEN t.device
                  ELSE getDeviceId(DEVICES[t.node][t.user], t.socket)
  <2>1. t.node \in Nodes /\ t.user \in Users /\ t.socket \in Sockets
    BY <1>4, <1>t, ZenonT(60) DEF LogoutRemove, Block, At, WellFormed
  <2>2. d \in AllDevices \cup {None}
    BY <1>t, <1>o, <2>1, getDeviceIdType, ZenonT(60) DEF Task
  <2>3. /\ removeUserSession(k, t, t.socket, d)
        /\ open' \in SUBSET Sockets /\ UNCHANGED <<records, cluster, status>>
    BY <1>4, <1>o DEF LogoutRemove, Block
  <2> QED
    BY <1>t, <2>1, <2>2, <2>3, removeUserSessionStep, SMTT(30)
<1>5. CASE HttpUnbind(k, t)
  <2> DEFINE u == SESSIONS[t.socket]
             v == [t EXCEPT !.user = u]
  <2>1. t.pc = "http" /\ t.node \in Nodes /\ t.socket \in Sockets
    BY <1>5, <1>t DEF HttpUnbind, Block, At, WellFormed
  <2>2. open' \in SUBSET Sockets /\ UNCHANGED <<records, cluster, status>>
    BY <1>5, <1>o DEF HttpUnbind, Block
  <2>3. /\ u = None => Become(k, NoTask) /\ UNCHANGED <<SESSIONS, DEVICES>>
        /\ u # None => removeUserSession(k, v, t.socket, HttpDevice)
    BY <1>5 DEF HttpUnbind, Finish
  <2>4. u \in Users \cup {None} /\ HttpDevice \in AllDevices \cup {None}
    BY <1>o, <2>1 DEF AllDevices
  <2> HIDE DEF u
  <2>5. CASE u = None
    <3>1. UNCHANGED <<SESSIONS, DEVICES, nodeUsers, userDevices, userData, accounts,
                      phase, nodeData, status>>
      BY <2>2, <2>3, <2>5 DEF records, cluster
    <3>2. /\ accounts' \in SUBSET Users
          /\ phase' \in [Nodes -> {"up", "down", "booting"}]
          /\ SESSIONS' \in [Sockets -> Users \cup {None}]
          /\ nodeUsers' \in [Nodes -> SUBSET (Users \X AllDevices)]
          /\ userDevices' \in [Users -> SUBSET AllDevices]
          /\ userData' \in [Users -> [AllDevices -> Nodes \cup {None}]]
          /\ nodeData' \in SUBSET Nodes
          /\ status' \in [Users -> {"online", "offline"}]
      BY <3>1, SMTT(30) DEF Inv, TypeOK
    <3> QED
      BY <1>t, <2>2, <2>3, <2>5, <3>1, <3>2, NoTaskWellFormed, StableStep
  <2>6. CASE u # None
    <3>1. u \in Users
      BY <2>4, <2>6
    <3>2. v \in Task
      BY <1>t, <3>1, Updates, Zenon
    <3>3. WellFormed(v) /\ v.node \in Nodes /\ v.user \in Users
      BY <1>t, <2>1, <3>1, <3>2 DEF WellFormed, Task
    <3>4. removeUserSession(k, v, t.socket, HttpDevice)
      BY <2>3, <2>6
    <3> HIDE DEF v
    <3> QED
      BY <1>t, <2>1, <2>2, <2>4, <3>3, <3>4, removeUserSessionStep, Zenon
  <2> QED
    BY <2>5, <2>6
<1>6. CASE Watchdog(k)
  <2>1. PICK n \in Nodes, u \in Users : \E c \in DEVICES[n][u] : WatchdogPing(k, n, u, c)
    BY <1>6 DEF Watchdog
  <2>2. PICK c \in DEVICES[n][u] : WatchdogPing(k, n, u, c)
    BY <2>1
  <2> DEFINE v == [NoTask EXCEPT !.op = "watchdog", !.pc = "ping", !.node = n,
                     !.owner = u, !.socket = c.socket, !.device = c.device]
  <2>3. c.socket \in Sockets /\ c.device \in AllDevices
    BY <1>o DEF Connection
  <2>4a. v \in Task
    BY <2>3, NoTaskWellFormed, Updates, ZenonT(60) DEF Ops, Steps, Commands
  <2>4b. /\ v.op = "watchdog" /\ v.pc = "ping" /\ v.node = n /\ v.owner = u
         /\ v.socket = c.socket /\ v.device = c.device /\ v.ret = "finish"
    BY DEF NoTask
  <2>4. WellFormed(v)
    BY <2>3, <2>4a, <2>4b DEF WellFormed
  <2>5. open' \in SUBSET Sockets /\ UNCHANGED <<SESSIONS, DEVICES>>
    BY <2>2, <1>o DEF WatchdogPing, local
  <2> QED
    BY <1>t, <2>2, <2>4, <2>5, BeginStep DEF WatchdogPing
<1>7. CASE WatchdogClose(k, t)
  <2> DEFINE u == SESSIONS[t.socket]
             v == [t EXCEPT !.ret = "offline", !.user = u]
  <2>1. /\ t.pc = "ping" /\ t.op = "watchdog"
        /\ t.node \in Nodes /\ t.socket \in Sockets /\ u \in Users \cup {None}
    BY <1>7, <1>t, <1>o DEF WatchdogClose, Block, At, WellFormed
  <2>2. open' \in SUBSET Sockets /\ UNCHANGED <<records, cluster, status>>
    BY <1>7, <1>o DEF WatchdogClose, Block
  <2>3. /\ u = None => Become(k, Finished(v)) /\ UNCHANGED <<SESSIONS, DEVICES>>
        /\ u # None => removeUserSession(k, v, t.socket,
                                         getDeviceId(DEVICES[t.node][u], t.socket))
    BY <1>7 DEF WatchdogClose
  <2> HIDE DEF u
  <2>4. v \in Task
    BY <1>t, <2>1, Updates, Zenon
  <2>5. WellFormed(v) /\ v.node \in Nodes /\ v.user = u
    BY <1>t, <2>1, <2>4, SMTT(30) DEF WellFormed, Task
  <2> HIDE DEF v
  <2>6. CASE u = None
    <3>1. WellFormed(Finished(v))
      BY <2>5, FinishedWellFormed
    <3>2. UNCHANGED <<SESSIONS, DEVICES, nodeUsers, userDevices, userData, accounts,
                      phase, nodeData, status>>
      BY <2>2, <2>3, <2>6 DEF records, cluster
    <3>3. /\ accounts' \in SUBSET Users
          /\ phase' \in [Nodes -> {"up", "down", "booting"}]
          /\ SESSIONS' \in [Sockets -> Users \cup {None}]
          /\ nodeUsers' \in [Nodes -> SUBSET (Users \X AllDevices)]
          /\ userDevices' \in [Users -> SUBSET AllDevices]
          /\ userData' \in [Users -> [AllDevices -> Nodes \cup {None}]]
          /\ nodeData' \in SUBSET Nodes
          /\ status' \in [Users -> {"online", "offline"}]
      BY <3>2, SMTT(30) DEF Inv, TypeOK
    <3> QED
      BY <1>t, <2>2, <2>3, <2>6, <3>1, <3>2, <3>3, StableStep
  <2>7. CASE u # None
    <3>1. getDeviceId(DEVICES[t.node][u], t.socket) \in AllDevices \cup {None}
      BY <1>o, <2>1, <2>7, getDeviceIdType
    <3>2. v.user \in Users
      BY <2>1, <2>5, <2>7
    <3>3. removeUserSession(k, v, t.socket, getDeviceId(DEVICES[t.node][u], t.socket))
      BY <2>3, <2>7
    <3> QED
      BY <1>t, <2>1, <2>2, <2>5, <3>1, <3>2, <3>3, removeUserSessionStep, Zenon
  <2> QED
    BY <2>6, <2>7
<1>8. CASE WatchdogRemove(k, t)
  <2> DEFINE v == [t EXCEPT !.user = t.owner]
  <2>1. /\ t.pc = "again" /\ t.node \in Nodes /\ t.socket \in Sockets
        /\ t.owner \in Users /\ t.device \in AllDevices
    BY <1>8, <1>t DEF WatchdogRemove, Block, At, WellFormed
  <2>2. v \in Task
    BY <1>t, <2>1, Updates, Zenon
  <2>3. WellFormed(v) /\ v.node \in Nodes /\ v.user \in Users
    BY <1>t, <2>1, <2>2 DEF WellFormed, Task
  <2>4. /\ removeUserSession(k, v, t.socket, t.device)
        /\ open' \in SUBSET Sockets /\ UNCHANGED <<records, cluster, status>>
    BY <1>8, <1>o DEF WatchdogRemove, Block
  <2> HIDE DEF v
  <2> QED
    BY <1>t, <2>1, <2>3, <2>4, removeUserSessionStep
<1>9. CASE WatchdogAlive(k, t)
  BY <1>9, <1>t, NoTaskWellFormed, ReadStep DEF WatchdogAlive
<1> QED
  BY <1>1, <1>2, <1>3, <1>4, <1>5, <1>6, <1>7, <1>8, <1>9, SMTT(30)

LEMMA DeletionSteps ==
    ASSUME Inv, NEW k \in Slots,
           \/ \E s \in Sockets : DeleteUser(k, s)
           \/ removeAllUserSessions(k, tasks[k]) \/ ListUserData(k, tasks[k])
           \/ ReadUserData(k, tasks[k]) \/ RemoveUserFromNodes(k, tasks[k])
           \/ DeleteListDevices(k, tasks[k]) \/ DeleteDeviceData(k, tasks[k])
           \/ DeleteUserDevices(k, tasks[k]) \/ DeleteAccount(k, tasks[k])
    PROVE  Inv'
<1> DEFINE t == tasks[k]
<1> USE DEF UserSteps, DevSteps, EndpointSteps, SocketOps
<1>t. k \in Keys /\ WellFormed(t) /\ t \in Task
  BY DEF Inv, Keys, WellFormed
<1>r. /\ nodeUsers \in [Nodes -> SUBSET (Users \X AllDevices)]
      /\ userDevices \in [Users -> SUBSET AllDevices]
      /\ userData \in [Users -> [AllDevices -> Nodes \cup {None}]]
      /\ SESSIONS \in [Sockets -> Users \cup {None}]
      /\ open \in SUBSET Sockets
  BY DEF Inv, TypeOK
<1>1. ASSUME NEW s \in Sockets, DeleteUser(k, s)
      PROVE  Inv'
  <2> DEFINE n == SocketNode[s]
             u == SESSIONS[s]
             v == [NoTask EXCEPT !.op = "delete", !.pc = "session", !.socket = s,
                     !.node = n, !.user = u, !.owner = u]
  <2>1. n \in Nodes /\ u \in Users
    BY <1>1, <1>r, ConstantsAssumption, ZenonT(60) DEF DeleteUser
  <2>2. Begin(k, v) /\ open' \in SUBSET Sockets /\ UNCHANGED <<SESSIONS, DEVICES>>
    BY <1>1, <1>r, Zenon DEF DeleteUser, local
  <2> HIDE DEF n, u
  <2>3a. v \in Task
    BY <2>1, NoTaskWellFormed, Updates, Zenon DEF Ops, Steps, Commands
  <2>3b. /\ v.op = "delete" /\ v.pc = "session" /\ v.socket = s /\ v.node = n
         /\ v.user = u /\ v.ret = "finish"
    BY DEF NoTask
  <2>3. WellFormed(v)
    BY <2>1, <2>3a, <2>3b DEF WellFormed
  <2> QED
    BY <1>t, <2>2, <2>3, BeginStep, SMTT(30)
<1>2. CASE removeAllUserSessions(k, t)
  <2> DEFINE u == SESSIONS[t.socket]
             v == [t EXCEPT !.pc = "delAccount"]
             w == [t EXCEPT !.pc = "dataList", !.user = u]
  <2>1. t.pc = "session" /\ t.node \in Nodes /\ t.socket \in Sockets /\ u \in Users \cup {None}
    BY <1>2, <1>t, <1>r DEF removeAllUserSessions, Block, At, WellFormed
  <2>2. open' \in SUBSET Sockets /\ UNCHANGED <<records, cluster, status>>
    BY <1>2, <1>r DEF removeAllUserSessions, Block
  <2>3. /\ u = None => Become(k, v) /\ UNCHANGED <<SESSIONS, DEVICES>>
        /\ u # None => /\ DEVICES' = [DEVICES EXCEPT ![t.node][u] = {}]
                       /\ SESSIONS' = [SESSIONS EXCEPT ![t.socket] = None]
                       /\ Become(k, w)
    BY <1>2 DEF removeAllUserSessions
  <2> HIDE DEF u
  <2>4. v \in Task /\ w \in Task
    BY <1>t, <2>1, Updates, Zenon DEF Steps, Commands
  <2>5. WellFormed(v) /\ (u # None => WellFormed(w))
    BY <1>t, <2>1, <2>4 DEF WellFormed, Task
  <2> HIDE DEF v, w
  <2>6. SESSIONS' \in [Sockets -> Users \cup {None}]
    BY <1>r, <2>3
  <2>7. CASE u = None
    <3>1. UNCHANGED <<DEVICES, nodeUsers, userDevices, userData, accounts, phase,
                      nodeData, status>>
      BY <2>2, <2>3, <2>7 DEF records, cluster
    <3>2. /\ accounts' \in SUBSET Users
          /\ phase' \in [Nodes -> {"up", "down", "booting"}]
          /\ nodeUsers' \in [Nodes -> SUBSET (Users \X AllDevices)]
          /\ userDevices' \in [Users -> SUBSET AllDevices]
          /\ userData' \in [Users -> [AllDevices -> Nodes \cup {None}]]
          /\ nodeData' \in SUBSET Nodes
          /\ status' \in [Users -> {"online", "offline"}]
      BY <3>1 DEF Inv, TypeOK
    <3> QED
      BY <1>t, <2>2, <2>3, <2>5, <2>6, <2>7, <3>1, <3>2, StableStep
  <2>8. CASE u # None
    <3>1. {} \in SUBSET Connection /\ Unique({})
      BY DEF Unique
    <3> QED
      BY <1>t, <2>1, <2>2, <2>3, <2>5, <2>6, <2>8, <3>1, BlockStep, Zenon
  <2> QED
    BY <2>7, <2>8
<1>3. CASE ListUserData(k, t)
  <2> DEFINE devices == userDevices[t.user]
             p == Loop(devices, "dataGet", "delList")
             v == [t EXCEPT !.list = devices, !.pc = p]
  <2>1. t.pc = "dataList" /\ t.user \in Users /\ Read(k, "dataList", v)
    BY <1>3, <1>t DEF ListUserData, Read, Write, At, WellFormed
  <2>2. devices \in SUBSET AllDevices /\ p \in {"dataGet", "delList"}
    BY <1>r, <2>1 DEF Loop
  <2> HIDE DEF devices, p
  <2>3. v \in Task
    BY <1>t, <2>2, Updates, Zenon DEF Steps, Commands
  <2>4. WellFormed(v)
    BY <1>t, <2>1, <2>2, <2>3 DEF WellFormed, Task
  <2> QED
    BY <1>t, <2>1, <2>4, ReadStep
<1>4. CASE ReadUserData(k, t)
  <2>1. PICK d \in t.list :
          LET n == userData[t.user][d]
              found == t.pairs \cup (IF n = None THEN {} ELSE {<<d, n>>})
          IN  Read(k, "dataGet",
                   [t EXCEPT !.list = @ \ {d}, !.pairs = found,
                      !.pc = Loop(t.list \ {d}, "dataGet", Loop(found, "dataNode", "delList"))])
    BY <1>4, Zenon DEF ReadUserData
  <2> DEFINE n == userData[t.user][d]
             found == t.pairs \cup (IF n = None THEN {} ELSE {<<d, n>>})
             rest == t.list \ {d}
             p == Loop(rest, "dataGet", Loop(found, "dataNode", "delList"))
             v == [t EXCEPT !.list = rest, !.pairs = found, !.pc = p]
  <2>2. t.pc = "dataGet" /\ t.user \in Users /\ Read(k, "dataGet", v)
    BY <1>t, <2>1, SMTT(30) DEF Read, Write, At, WellFormed, Task
  <2>3. d \in AllDevices /\ rest \in SUBSET AllDevices
    BY <1>t DEF Task
  <2>4. found \in SUBSET (AllDevices \X Nodes)
    BY <1>t, <1>r, <2>2, <2>3, SMTT(30) DEF Task
  <2>5. p \in {"dataGet", "dataNode", "delList"}
    BY DEF Loop
  <2> HIDE DEF found, rest, p
  <2>6. v \in Task
    BY <1>t, <2>3, <2>4, <2>5, Updates, Zenon DEF Steps, Commands
  <2>7. WellFormed(v)
    BY <1>t, <2>2, <2>5, <2>6 DEF WellFormed, Task
  <2> QED
    BY <1>t, <2>2, <2>7, ReadStep, SMTT(30)
<1>5. CASE RemoveUserFromNodes(k, t)
  <2>1. PICK q \in t.pairs :
          /\ Write(k, "dataNode", [t EXCEPT !.pairs = @ \ {q},
                                     !.pc = Loop(t.pairs \ {q}, "dataNode", "delList")])
          /\ nodeUsers' = [nodeUsers EXCEPT ![q[2]] = @ \ {<<t.user, q[1]>>}]
          /\ UNCHANGED <<userDevices, userData>>
    BY <1>5 DEF RemoveUserFromNodes
  <2> DEFINE rest == t.pairs \ {q}
             p == Loop(rest, "dataNode", "delList")
             v == [t EXCEPT !.pairs = rest, !.pc = p]
  <2>2. t.pc = "dataNode" /\ t.user \in Users /\ Write(k, "dataNode", v)
    BY <1>t, <2>1 DEF Write, At, WellFormed, Task
  <2>3. rest \in SUBSET (AllDevices \X Nodes) /\ p \in {"dataNode", "delList"}
    BY <1>t DEF Task, Loop
  <2> HIDE DEF rest, p
  <2>4. v \in Task
    BY <1>t, <2>3, Updates, Zenon DEF Steps, Commands
  <2>5. WellFormed(v)
    BY <1>t, <2>2, <2>3, <2>4 DEF WellFormed, Task
  <2>6. /\ nodeUsers' \in [Nodes -> SUBSET (Users \X AllDevices)]
        /\ userDevices' \in [Users -> SUBSET AllDevices]
        /\ userData' \in [Users -> [AllDevices -> Nodes \cup {None}]]
    BY <1>r, <2>1, Zenon
  <2> QED
    BY <1>t, <2>2, <2>5, <2>6, WriteStep
<1>6. CASE DeleteListDevices(k, t)
  <2> DEFINE devices == userDevices[t.user]
             p == Loop(devices, "delData", "delUser")
             v == [t EXCEPT !.list = devices, !.pc = p]
  <2>1. t.pc = "delList" /\ t.user \in Users /\ Read(k, "delList", v)
    BY <1>6, <1>t DEF DeleteListDevices, Read, Write, At, WellFormed
  <2>2. devices \in SUBSET AllDevices /\ p \in {"delData", "delUser"}
    BY <1>r, <2>1 DEF Loop
  <2> HIDE DEF devices, p
  <2>3. v \in Task
    BY <1>t, <2>2, Updates, Zenon DEF Steps, Commands
  <2>4. WellFormed(v)
    BY <1>t, <2>1, <2>2, <2>3 DEF WellFormed, Task
  <2> QED
    BY <1>t, <2>1, <2>4, ReadStep
<1>7. CASE DeleteDeviceData(k, t)
  <2>1. PICK d \in t.list :
          /\ Write(k, "delData", [t EXCEPT !.list = @ \ {d},
                                    !.pc = Loop(t.list \ {d}, "delData", "delUser")])
          /\ userData' = [userData EXCEPT ![t.user][d] = None]
          /\ UNCHANGED <<nodeUsers, userDevices>>
    BY <1>7, Zenon DEF DeleteDeviceData
  <2> DEFINE rest == t.list \ {d}
             p == Loop(rest, "delData", "delUser")
             v == [t EXCEPT !.list = rest, !.pc = p]
  <2>2. t.pc = "delData" /\ t.user \in Users /\ Write(k, "delData", v)
    BY <1>t, <2>1 DEF Write, At, WellFormed, Task
  <2>3. rest \in SUBSET AllDevices /\ p \in {"delData", "delUser"}
    BY <1>t DEF Task, Loop
  <2> HIDE DEF rest, p
  <2>4. v \in Task
    BY <1>t, <2>3, Updates, Zenon DEF Steps, Commands
  <2>5. WellFormed(v)
    BY <1>t, <2>2, <2>3, <2>4 DEF WellFormed, Task
  <2>6. /\ nodeUsers' \in [Nodes -> SUBSET (Users \X AllDevices)]
        /\ userDevices' \in [Users -> SUBSET AllDevices]
        /\ userData' \in [Users -> [AllDevices -> Nodes \cup {None}]]
    BY <1>r, <2>1, Zenon
  <2> QED
    BY <1>t, <2>2, <2>5, <2>6, WriteStep
<1>8. CASE DeleteUserDevices(k, t)
  <2> DEFINE v == [t EXCEPT !.pc = "delAccount"]
  <2>1. v \in Task /\ t.pc = "delUser"
    BY <1>8, <1>t, Updates, Zenon DEF DeleteUserDevices, Write, At, Steps, Commands
  <2>2. WellFormed(v)
    BY <1>t, <2>1 DEF WellFormed, Task
  <2>3. /\ nodeUsers' \in [Nodes -> SUBSET (Users \X AllDevices)]
        /\ userDevices' \in [Users -> SUBSET AllDevices]
        /\ userData' \in [Users -> [AllDevices -> Nodes \cup {None}]]
    BY <1>8, <1>r, Zenon DEF DeleteUserDevices
  <2> QED
    BY <1>8, <1>t, <2>2, <2>3, WriteStep DEF DeleteUserDevices
<1>9. CASE DeleteAccount(k, t)
  <2>1. /\ UNCHANGED <<open, SESSIONS, DEVICES, nodeUsers, userDevices, userData,
                       phase, nodeData, status>>
        /\ accounts' = accounts \ {t.owner}
        /\ Become(k, NoTask)
    BY <1>9 DEF DeleteAccount, Finish, local, records
  <2>2. /\ accounts' \in SUBSET Users
        /\ phase' \in [Nodes -> {"up", "down", "booting"}]
        /\ open' \in SUBSET Sockets
        /\ SESSIONS' \in [Sockets -> Users \cup {None}]
        /\ nodeUsers' \in [Nodes -> SUBSET (Users \X AllDevices)]
        /\ userDevices' \in [Users -> SUBSET AllDevices]
        /\ userData' \in [Users -> [AllDevices -> Nodes \cup {None}]]
        /\ nodeData' \in SUBSET Nodes
        /\ status' \in [Users -> {"online", "offline"}]
    BY <2>1 DEF Inv, TypeOK
  <2> QED
    BY <1>t, <2>1, <2>2, NoTaskWellFormed, StableStep
<1> QED
  BY <1>1, <1>2, <1>3, <1>4, <1>5, <1>6, <1>7, <1>8, <1>9, SMTT(30)

----------------------------------------------------------------------------
(* Syncs, crashes and cold starts. *)

\* The steps of #syncCluster that store this node and find the destroyed ones.
LEMMA SyncSteps ==
    ASSUME Inv, NEW n \in Nodes,
           \/ SyncCluster(n) \/ StoreCurrentNode(n, tasks[n])
           \/ RetrieveActive(n, tasks[n]) \/ RetrieveNodeInfo(n, tasks[n])
           \/ RetrieveFailed(n, tasks[n]) \/ RetrieveStored(n, tasks[n])
           \/ CleanNextNode(n, tasks[n]) \/ SyncDone(n, tasks[n])
    PROVE  Inv'
<1> DEFINE t == tasks[n]
<1> USE DEF UserSteps, DevSteps, EndpointSteps, SocketOps
<1>t. n \in Keys /\ WellFormed(t) /\ t \in Task
  BY DEF Inv, Keys, WellFormed
<1>r. /\ accounts \in SUBSET Users
      /\ phase \in [Nodes -> {"up", "down", "booting"}]
      /\ open \in SUBSET Sockets
      /\ SESSIONS \in [Sockets -> Users \cup {None}]
      /\ nodeUsers \in [Nodes -> SUBSET (Users \X AllDevices)]
      /\ userDevices \in [Users -> SUBSET AllDevices]
      /\ userData \in [Users -> [AllDevices -> Nodes \cup {None}]]
      /\ nodeData \in SUBSET Nodes
      /\ status \in [Users -> {"online", "offline"}]
  BY DEF Inv, TypeOK
<1>1. CASE SyncCluster(n)
  <2> DEFINE v == [NoTask EXCEPT !.op = "sync", !.pc = "upsert", !.node = n]
  <2>1. Begin(n, v) /\ open' \in SUBSET Sockets /\ UNCHANGED <<SESSIONS, DEVICES>>
    BY <1>1, <1>r, Zenon DEF SyncCluster, local
  <2>2. v \in Task
    BY NoTaskWellFormed, Updates, Zenon DEF Ops, Steps, Commands
  <2>3. v.op = "sync" /\ v.pc = "upsert" /\ v.node = n /\ v.ret = "finish"
    BY DEF NoTask
  <2>4. WellFormed(v)
    BY <2>2, <2>3, SMTT(30) DEF WellFormed
  <2> HIDE DEF v
  <2> QED
    BY <1>t, <2>1, <2>4, BeginStep
<1>2. CASE StoreCurrentNode(n, t)
  <2> DEFINE v == [t EXCEPT !.pc = "active", !.endpoint = None]
  <2>1. /\ t.pc = "upsert" /\ Become(n, v) /\ nodeData' = nodeData \cup {n}
        /\ UNCHANGED <<open, SESSIONS, DEVICES, nodeUsers, userDevices, userData,
                       accounts, phase, status>>
    BY <1>2 DEF StoreCurrentNode, At, local, records
  <2>2. v \in Task
    BY <1>t, Updates, Zenon DEF Steps, Commands
  <2>3. WellFormed(v)
    BY <1>t, <2>1, <2>2 DEF WellFormed, Task
  <2> HIDE DEF v
  <2> QED
    BY <1>t, <1>r, <2>1, <2>3, StableStep
<1>3. CASE RetrieveActive(n, t)
  <2> DEFINE pc == Loop(nodeData, "nodeInfo", "stored")
             v == [t EXCEPT !.nodes = nodeData, !.pc = pc]
  <2>1. t.pc = "active" /\ Read(n, "active", v)
    BY <1>3 DEF RetrieveActive, Read, Write, At
  <2>2. pc \in {"nodeInfo", "stored"}
    BY DEF Loop
  <2> HIDE DEF pc
  <2>3. v \in Task
    BY <1>t, <1>r, <2>2, Updates, Zenon DEF Steps, Commands
  <2>4. WellFormed(v)
    BY <1>t, <2>1, <2>2, <2>3 DEF WellFormed, Task
  <2> HIDE DEF v
  <2> QED
    BY <1>t, <2>1, <2>4, ReadStep
<1>7. CASE RetrieveNodeInfo(n, t)
  <2>1. PICK m \in t.nodes \cap nodeData :
          Read(n, "nodeInfo", [t EXCEPT !.active = @ \cup {m}, !.nodes = @ \ {m},
                                 !.pc = Loop(t.nodes \ {m}, "nodeInfo", "stored")])
    BY <1>7, Zenon DEF RetrieveNodeInfo
  <2> DEFINE seen == t.active \cup {m}
             rest == t.nodes \ {m}
             pc == Loop(rest, "nodeInfo", "stored")
             v == [t EXCEPT !.active = seen, !.nodes = rest, !.pc = pc]
  <2>2. t.pc = "nodeInfo" /\ Read(n, "nodeInfo", v)
    BY <1>t, <2>1 DEF Read, Write, At, Task
  <2>3. seen \in SUBSET Nodes /\ rest \in SUBSET Nodes
    BY <1>t, <1>r DEF Task
  <2>4. pc \in {"nodeInfo", "stored"}
    BY DEF Loop
  <2> HIDE DEF seen, rest, pc
  <2>5. v \in Task
    BY <1>t, <2>3, <2>4, Updates, Zenon DEF Steps, Commands
  <2>6. WellFormed(v)
    BY <1>t, <2>2, <2>4, <2>5 DEF WellFormed, Task
  <2> HIDE DEF v
  <2> QED
    BY <1>t, <2>2, <2>6, ReadStep
<1>8. CASE RetrieveFailed(n, t)
  <2>1. /\ UNCHANGED <<open, SESSIONS, DEVICES, nodeUsers, userDevices, userData,
                       accounts, nodeData, status>>
        /\ phase' = [phase EXCEPT ![n] = IF t.op = "boot" THEN "down" ELSE @]
        /\ Become(n, NoTask)
    BY <1>8, Zenon DEF RetrieveFailed, Finish, local, records
  <2>2. phase' \in [Nodes -> {"up", "down", "booting"}]
    BY <1>r, <2>1
  <2> QED
    BY <1>t, <1>r, <2>1, <2>2, NoTaskWellFormed, StableStep, SMTT(30)
<1>4. CASE RetrieveStored(n, t)
  <2> DEFINE stored == {m \in Nodes : nodeUsers[m] # {}}
  <2>1. PICK known \in SUBSET (Nodes \ {n}) :
          Read(n, "stored", [t EXCEPT !.pc = "destroyed", !.active = {},
                               !.nodes = (stored \cup known) \ t.active])
    BY <1>4, Zenon DEF RetrieveStored
  <2> DEFINE dead == (stored \cup known) \ t.active
             v == [t EXCEPT !.pc = "destroyed", !.active = {}, !.nodes = dead]
  <2>2. t.pc = "stored" /\ Read(n, "stored", v)
    BY <2>1 DEF Read, Write, At
  <2>3. dead \in SUBSET Nodes
    OBVIOUS
  <2> HIDE DEF dead
  <2>4. v \in Task
    BY <1>t, <2>3, Updates, Zenon DEF Steps, Commands
  <2>5. WellFormed(v)
    BY <1>t, <2>2, <2>4 DEF WellFormed, Task
  <2> HIDE DEF v
  <2> QED
    BY <1>t, <2>2, <2>5, ReadStep
<1>5. CASE CleanNextNode(n, t)
  <2>1. PICK m \in t.nodes :
          Read(n, "destroyed", [t EXCEPT !.pc = "members", !.endpoint = m,
                                  !.nodes = @ \ {m}])
    BY <1>5, Zenon DEF CleanNextNode
  <2> DEFINE rest == t.nodes \ {m}
             v == [t EXCEPT !.pc = "members", !.endpoint = m, !.nodes = rest]
  <2>2. t.pc = "destroyed" /\ Read(n, "destroyed", v)
    BY <1>t, <2>1 DEF Read, Write, At, Task
  <2>3. m \in Nodes /\ rest \in SUBSET Nodes
    BY <1>t DEF Task
  <2> HIDE DEF rest
  <2>4. v \in Task
    BY <1>t, <2>3, Updates, Zenon DEF Steps, Commands
  <2>5. WellFormed(v)
    BY <1>t, <2>2, <2>3, <2>4 DEF WellFormed, Task
  <2> HIDE DEF v
  <2> QED
    BY <1>t, <2>2, <2>5, ReadStep, SMTT(30)
<1>6. CASE SyncDone(n, t)
  <2>1. /\ UNCHANGED <<open, SESSIONS, DEVICES, nodeUsers, userDevices, userData,
                       accounts, nodeData, status>>
        /\ phase' = [phase EXCEPT ![n] = "up"]
        /\ Become(n, NoTask)
    BY <1>6, Zenon DEF SyncDone, Finish, local, records
  <2> QED
    BY <1>t, <1>r, <2>1, NoTaskWellFormed, StableStep, SMTT(30)
<1> QED
  BY <1>1, <1>2, <1>3, <1>4, <1>5, <1>6, <1>7, <1>8, ZenonT(60)

\* The steps of cleanDestroyedNodeData.
LEMMA CleaningSteps ==
    ASSUME Inv, NEW n \in Nodes,
           \/ ListNodeUserDevices(n, tasks[n]) \/ CleanUserDevice(n, tasks[n])
           \/ CleanIsLast(n, tasks[n]) \/ CleanUserData(n, tasks[n])
           \/ deleteNodeConnections(n, tasks[n]) \/ AnnounceCleaned(n, tasks[n])
           \/ CleaningDone(n, tasks[n])
    PROVE  Inv'
<1> DEFINE t == tasks[n]
<1> USE DEF UserSteps, DevSteps, EndpointSteps, SocketOps
<1>t. n \in Keys /\ WellFormed(t) /\ t \in Task
  BY DEF Inv, Keys, WellFormed
<1>r. /\ nodeUsers \in [Nodes -> SUBSET (Users \X AllDevices)]
      /\ userDevices \in [Users -> SUBSET AllDevices]
      /\ userData \in [Users -> [AllDevices -> Nodes \cup {None}]]
  BY DEF Inv, TypeOK
<1>1. CASE ListNodeUserDevices(n, t)
  <2> DEFINE found == nodeUsers[t.endpoint]
             p == Loop(found, "cleanDevice", "cleanNode")
             v == [t EXCEPT !.members = found, !.pc = p]
  <2>1. t.pc = "members" /\ t.endpoint \in Nodes /\ Read(n, "members", v)
    BY <1>1, <1>t DEF ListNodeUserDevices, Read, Write, At, WellFormed
  <2>2. found \in SUBSET (Users \X AllDevices) /\ p \in {"cleanDevice", "cleanNode"}
    BY <1>r, <2>1 DEF Loop
  <2> HIDE DEF found, p
  <2>3. v \in Task
    BY <1>t, <2>2, Updates, Zenon DEF Steps, Commands
  <2>4. WellFormed(v)
    BY <1>t, <2>1, <2>2, <2>3 DEF WellFormed, Task
  <2> HIDE DEF v
  <2> QED
    BY <1>t, <2>1, <2>4, ReadStep
<1>2. CASE CleanUserDevice(n, t)
  <2>1. PICK m \in t.members :
          /\ Write(n, "cleanDevice", [t EXCEPT !.pc = "cleanLast", !.user = m[1],
                                        !.dev = m[2], !.members = @ \ {m}])
          /\ userDevices' = [userDevices EXCEPT ![m[1]] = @ \ {m[2]}]
          /\ UNCHANGED <<nodeUsers, userData>>
    BY <1>2, Zenon DEF CleanUserDevice
  <2> DEFINE u == m[1]
             d == m[2]
             rest == t.members \ {m}
             v == [t EXCEPT !.pc = "cleanLast", !.user = u, !.dev = d, !.members = rest]
  <2>2. t.pc = "cleanDevice" /\ Write(n, "cleanDevice", v)
    BY <1>t, <2>1, SMTT(30) DEF Write, At, Task
  <2>3. u \in Users /\ d \in AllDevices /\ rest \in SUBSET (Users \X AllDevices)
    BY <1>t DEF Task
  <2>4. userDevices' = [userDevices EXCEPT ![u] = @ \ {d}]
    BY <2>1
  <2> HIDE DEF u, d, rest
  <2>5. v \in Task
    BY <1>t, <2>3, Updates, Zenon DEF Steps, Commands
  <2>6. WellFormed(v)
    BY <1>t, <2>2, <2>3, <2>5 DEF WellFormed, Task
  <2>7. /\ nodeUsers' \in [Nodes -> SUBSET (Users \X AllDevices)]
        /\ userDevices' \in [Users -> SUBSET AllDevices]
        /\ userData' \in [Users -> [AllDevices -> Nodes \cup {None}]]
    BY <1>r, <2>1, <2>3, <2>4, ZenonT(60)
  <2> HIDE DEF v
  <2> QED
    BY <1>t, <2>2, <2>6, <2>7, WriteStep, SMTT(30)
<1>3. CASE CleanIsLast(n, t)
  <2> DEFINE gone == IF userDevices[t.user] = {} THEN t.last \cup {t.user} ELSE t.last
             v == [t EXCEPT !.pc = "cleanData", !.last = gone]
  <2>1. t.pc = "cleanLast" /\ t.user \in Users /\ Read(n, "cleanLast", v)
    BY <1>3, <1>t DEF CleanIsLast, Read, Write, At, WellFormed, Task
  <2>2. gone \in SUBSET Users
    BY <1>t, <2>1 DEF Task
  <2> HIDE DEF gone
  <2>3. v \in Task
    BY <1>t, <2>2, Updates, Zenon DEF Steps, Commands
  <2>4. WellFormed(v)
    BY <1>t, <2>1, <2>3 DEF WellFormed, Task
  <2> HIDE DEF v
  <2> QED
    BY <1>t, <2>1, <2>4, ReadStep
<1>4. CASE CleanUserData(n, t)
  <2> DEFINE p == Loop(t.members, "cleanDevice", "cleanNode")
             v == [t EXCEPT !.user = None, !.dev = None, !.pc = p]
  <2>1. t.pc = "cleanData" /\ Write(n, "cleanData", v)
    BY <1>4 DEF CleanUserData, Write, At
  <2>2. p \in {"cleanDevice", "cleanNode"}
    BY DEF Loop
  <2> HIDE DEF p
  <2>3. v \in Task
    BY <1>t, <2>2, Updates, Zenon DEF Steps, Commands
  <2>4. WellFormed(v)
    BY <1>t, <2>1, <2>2, <2>3 DEF WellFormed, Task
  <2>5. /\ nodeUsers' \in [Nodes -> SUBSET (Users \X AllDevices)]
        /\ userDevices' \in [Users -> SUBSET AllDevices]
        /\ userData' \in [Users -> [AllDevices -> Nodes \cup {None}]]
    BY <1>4, <1>r, ZenonT(60) DEF CleanUserData
  <2> HIDE DEF v
  <2> QED
    BY <1>t, <2>1, <2>4, <2>5, WriteStep
<1>5. CASE deleteNodeConnections(n, t)
  <2> DEFINE v == [t EXCEPT !.pc = "announce"]
  <2>1. t.pc = "cleanNode" /\ Write(n, "cleanNode", v)
    BY <1>5 DEF deleteNodeConnections, Write, At
  <2>2. v \in Task
    BY <1>t, Updates, Zenon DEF Steps, Commands
  <2>3. WellFormed(v)
    BY <1>t, <2>1, <2>2 DEF WellFormed, Task
  <2>4. /\ nodeUsers' \in [Nodes -> SUBSET (Users \X AllDevices)]
        /\ userDevices' \in [Users -> SUBSET AllDevices]
        /\ userData' \in [Users -> [AllDevices -> Nodes \cup {None}]]
    BY <1>5, <1>r, Zenon DEF deleteNodeConnections
  <2> HIDE DEF v
  <2> QED
    BY <1>t, <2>1, <2>3, <2>4, WriteStep
<1>6. CASE AnnounceCleaned(n, t)
  <2>1. PICK u \in t.last :
          /\ At(n, "announce")
          /\ Announce(n, [t EXCEPT !.last = @ \ {u}], {u}, "offline")
    BY <1>6 DEF AnnounceCleaned
  <2> DEFINE rest == t.last \ {u}
             v == [t EXCEPT !.last = rest]
  <2>2. t.pc = "announce" /\ Announce(n, v, {u}, "offline")
    BY <1>t, <2>1 DEF At, Task
  <2>3. rest \in SUBSET Users
    BY <1>t DEF Task
  <2> HIDE DEF rest
  <2>4. v \in Task
    BY <1>t, <2>3, Updates, Zenon
  <2>5. WellFormed(v)
    BY <1>t, <2>2, <2>4 DEF WellFormed, Task
  <2> HIDE DEF v
  <2> QED
    BY <1>t, <2>2, <2>5, AnnounceStep
<1>7. CASE CleaningDone(n, t)
  <2> DEFINE v == [t EXCEPT !.pc = "upsert"]
             w == [t EXCEPT !.pc = "destroyed", !.endpoint = None]
  <2>1. t.pc = "announce" /\ (Read(n, "announce", v) \/ Read(n, "announce", w))
    BY <1>7 DEF CleaningDone, Read, Write, At
  <2>2. v \in Task /\ w \in Task
    BY <1>t, Updates, Zenon DEF Steps, Commands
  <2>3. WellFormed(v) /\ WellFormed(w)
    BY <1>t, <2>1, <2>2 DEF WellFormed, Task
  <2> HIDE DEF v, w
  <2> QED
    BY <1>t, <2>1, <2>3, ReadStep
<1> QED
  BY <1>1, <1>2, <1>3, <1>4, <1>5, <1>6, <1>7, Zenon

\* A crash drops the sockets and the tasks of one node; a cold start and the
\* expiry of sama-node-data touch no socket.
LEMMA CrashSteps ==
    ASSUME Inv, NEW n \in Nodes, Crash(n) \/ ColdStart(n) \/ Expire(n)
    PROVE  Inv'
<1> USE DEF UserSteps, DevSteps, EndpointSteps, SocketOps
<1>t. n \in Keys
  BY DEF Keys
<1>r. /\ accounts \in SUBSET Users
      /\ phase \in [Nodes -> {"up", "down", "booting"}]
      /\ open \in SUBSET Sockets
      /\ SESSIONS \in [Sockets -> Users \cup {None}]
      /\ DEVICES \in [Nodes -> [Users -> SUBSET Connection]]
      /\ nodeUsers \in [Nodes -> SUBSET (Users \X AllDevices)]
      /\ userDevices \in [Users -> SUBSET AllDevices]
      /\ userData \in [Users -> [AllDevices -> Nodes \cup {None}]]
      /\ nodeData \in SUBSET Nodes
      /\ tasks \in [Keys -> Task]
      /\ ahead \in [Keys -> SUBSET Keys]
      /\ status \in [Users -> {"online", "offline"}]
  BY DEF Inv, TypeOK
<1>1. CASE Crash(n)
  <2>1. /\ phase' = [phase EXCEPT ![n] = "down"]
        /\ open' \in SUBSET open
        /\ SESSIONS' = [s \in Sockets |-> IF s \in SocketsOf(n) THEN None ELSE SESSIONS[s]]
        /\ DEVICES' = [DEVICES EXCEPT ![n] = [u \in Users |-> {}]]
        /\ tasks' = [k \in Keys |-> IF tasks[k].node = n THEN NoTask ELSE tasks[k]]
        /\ ahead' = [k \in Keys |-> IF tasks[k].node = n THEN {} ELSE ahead[k]]
        /\ UNCHANGED <<nodeUsers, userDevices, userData, accounts, nodeData, status>>
    BY <1>1 DEF Crash, records
  <2>2. \A k \in Keys : WellFormed(tasks'[k])
    BY <2>1, NoTaskWellFormed DEF Inv
  <2>3. tasks' \in [Keys -> Task]
    BY <2>1, <1>r, NoTaskWellFormed, ZenonT(60)
  <2>a. ahead' \in [Keys -> SUBSET Keys]
    BY <2>1, <1>r
  <2>4. DEVICES' \in [Nodes -> [Users -> SUBSET Connection]]
    BY <2>1, <1>r, SMTT(30)
  <2>5. SESSIONS' \in [Sockets -> Users \cup {None}]
    BY <2>1, <1>r
  <2>6. TypeOK'
    BY <1>r, <2>1, <2>3, <2>4, <2>5, <2>a DEF TypeOK
  <2>7. \A m \in Nodes, u \in Users : DEVICES'[m][u] \subseteq DEVICES[m][u]
    BY <1>r, <2>1
  <2>8. UniqueConnections'
    BY <2>7 DEF Inv, UniqueConnections
  <2> QED
    BY <2>2, <2>6, <2>8, SMTT(30) DEF Inv
<1>2. CASE ColdStart(n)
  <2> DEFINE v == [NoTask EXCEPT !.op = "boot", !.pc = "members", !.node = n,
                                 !.endpoint = n]
  <2>1. /\ UNCHANGED <<open, SESSIONS, DEVICES, nodeUsers, userDevices, userData,
                       accounts, nodeData, status>>
        /\ phase' = [phase EXCEPT ![n] = "booting"]
        /\ Become(n, v)
    BY <1>2 DEF ColdStart, local, records
  <2>2. v \in Task
    BY NoTaskWellFormed, Updates, Zenon DEF Ops, Steps, Commands
  <2>3. /\ v.op = "boot" /\ v.pc = "members" /\ v.node = n /\ v.endpoint = n
        /\ v.ret = "finish"
    BY DEF NoTask
  <2>4. WellFormed(v)
    BY <2>2, <2>3 DEF WellFormed
  <2> HIDE DEF v
  <2> QED
    BY <1>t, <1>r, <2>1, <2>4, StableStep, SMTT(30)
<1>3. CASE Expire(n)
  <2>1. /\ UNCHANGED <<open, SESSIONS, DEVICES, nodeUsers, userDevices, userData,
                       accounts, phase, tasks, ahead, status>>
        /\ nodeData' \in SUBSET Nodes
    BY <1>3, <1>r DEF Expire, local, records, work
  <2>2. TypeOK'
    BY <1>r, <2>1 DEF TypeOK
  <2> QED
    BY <2>1, <2>2 DEF Inv, UniqueConnections
<1> QED
  BY <1>1, <1>2, <1>3

----------------------------------------------------------------------------
(* The theorems. *)

\* The invariant holds when every node has just started.
LEMMA InitInv == Init => Inv
<1> SUFFICES ASSUME Init
             PROVE  Inv
  OBVIOUS
<1>1. tasks \in [Keys -> Task] /\ \A k \in Keys : WellFormed(tasks[k])
  BY NoTaskWellFormed, Zenon DEF Init, Keys
<1>2. TypeOK
  BY <1>1 DEF Init, TypeOK
<1>3. UniqueConnections
  BY DEF Init, UniqueConnections
<1> QED
  BY <1>1, <1>2, <1>3 DEF Inv

\* Every step of every task keeps it, one lemma per group of actions.
LEMMA NextInv == Inv /\ [Next]_vars => Inv'
<1> SUFFICES ASSUME Inv, [Next]_vars
             PROVE  Inv'
  OBVIOUS
<1>1. ASSUME NEW k \in Slots, ClientRequest(k) \/ Watchdog(k)
      PROVE  Inv'
  BY <1>1, LoginSteps, ClosingSteps, DeletionSteps, RemovalSteps, Zenon
     DEF ClientRequest, Watchdog
<1>2. ASSUME NEW k \in Slots, LoginRejected(k) \/ ClientStep(k)
      PROVE  Inv'
  BY <1>2, LoginSteps, ClosingSteps, DeletionSteps, RemovalSteps, Zenon DEF ClientStep
<1>3. ASSUME NEW n \in Nodes, SyncCluster(n) \/ SyncStep(n)
      PROVE  Inv'
  BY <1>3, SyncSteps, CleaningSteps, Zenon DEF SyncStep
<1>4. ASSUME NEW n \in Nodes, Crash(n) \/ ColdStart(n) \/ Expire(n)
      PROVE  Inv'
  BY <1>4, CrashSteps
<1>5. CASE UNCHANGED vars
  BY <1>5 DEF vars, local, records, cluster, work, Inv, TypeOK, UniqueConnections
<1> QED
  BY <1>1, <1>2, <1>3, <1>4, <1>5, Zenon DEF Next

\* Every variable of every task and every record has its type in every
\* reachable state; with WellFormed in the invariant, no step of a login, a
\* removal or a cleaning reads a local variable before it is assigned.
THEOREM TypeCorrect == Spec => []TypeOK
<1>1. Inv => TypeOK
  BY DEF Inv
<1> QED
  BY <1>1, InitInv, NextInv, PTL DEF Spec

\* addUserDeviceConnection drops only the first connection it finds of the
\* socket and of the device.  That is enough: on no node does a user ever
\* have two connections of one socket or of one device.
THEOREM ConnectionsUnique == Spec => []UniqueConnections
<1>1. Inv => UniqueConnections
  BY DEF Inv
<1> QED
  BY <1>1, InitInv, NextInv, PTL DEF Spec
=============================================================================
